---------------------------- MODULE PrehookFrame ----------------------------
(***************************************************************************)
(* funchook_hook_caller_asm: the stack frame it builds between a hooked    *)
(* function and its hook (src/src/prehook-*.S), and the functions by which *)
(* a prehook reads and changes arguments in it, funchook_arg_get_*         *)
(* (arch_x86.c, arch_arm64.c).  The assembler and the C code know the same *)
(* layout independently of each other, once for every ABI.                 *)
(*                                                                         *)
(* Addresses count words of the ABI, the stack grows down.  A vector       *)
(* register is two words.  Prehooks may call hooked functions themselves.  *)
(***************************************************************************)
EXTENDS Integers, Sequences, SequencesExt

CONSTANTS
  Abis,          \* the ABIs of this run
  StackTop,      \* entry addresses of the outermost call: the stack pointer at the target
  StackArgs,     \* positions of arguments on the stack
  CallerFrame,   \* words of stack the C code of the library and of a prehook uses
  MaxCalls,      \* bound on nested calls
  MaxChanges     \* bound on the arguments a prehook changes

VARIABLES
  abi,
  mem,         \* the stack; unwritten words hold Junk
  regs,        \* the registers arguments are passed in, and on arm64 the link register
  sp,          \* the stack pointer
  bp,          \* the frame pointer: ebp, rbp, x29
  calls        \* the calls in progress, innermost last

frameVars == <<abi, mem, regs, sp, bp, calls>>

\* A word: what it is, of which call.  fresh is FALSE once a prehook changed it.
Word(place, n, fresh) == [place |-> place, call |-> n, fresh |-> fresh]
Junk == Word(<<"junk", 0, 0>>, 0, FALSE)
ReturnAddress(n) == Word(<<"ret", 0, 0>>, n, TRUE)
FramePointer(a) == Word(<<"frame", a, 0>>, 0, TRUE)

Ints(a) == CASE a = "sysv" -> 0 .. 5 [] a = "ms" -> 0 .. 3 [] a = "i686" -> 0 .. 1 [] a = "arm64" -> 0 .. 7
Flts(a) == CASE a \in {"sysv", "arm64"} -> 0 .. 7 [] a = "ms" -> 0 .. 5 [] a = "i686" -> {}

\* rdi rsi rdx rcx r8 r9; rcx rdx r8 r9; ecx edx; x0 .. x7.  "more" are rax and
\* r10, or x8 and x18, which a call may use besides them.
Registers(a) ==
  ({"int"} \X Ints(a) \X {0})
    \cup ({"flt"} \X Flts(a) \X {0, 1})
    \cup ({"more"} \X (IF a \in {"sysv", "arm64"} THEN 0 .. 1 ELSE {}) \X {0})

StackPlaces == {"stack"} \X StackArgs \X {0}

\* The calling conventions: the arguments on the stack at the entry of a
\* function.  On x86 they follow the return address, and in the ABI of
\* Microsoft four words the callee owns.
Shadow(a) == IF a = "ms" THEN 4 ELSE 0
PassedAt(a, k) == (IF a = "arm64" THEN 0 ELSE 1 + Shadow(a)) + k

FrameWords == 28   \* funchook_hook_caller_asm needs at most this much stack

HasMax(S) == \E m \in S : \A x \in S : x <= m

\* C code passes arguments in its own frame, and the stack is large enough for
\* the calls.
ASSUME PrehookFrameAssumption ==
  /\ Abis \subseteq {"sysv", "ms", "i686", "arm64"}
  /\ StackTop \subseteq Nat /\ StackArgs \subseteq Nat /\ CallerFrame \in Nat /\ MaxCalls \in Nat /\ MaxChanges \in Nat
  /\ HasMax(StackTop) /\ HasMax(StackArgs)
  /\ \A a \in Abis, k \in StackArgs : PassedAt(a, k) < CallerFrame
  /\ \A e \in StackTop : MaxCalls * (CallerFrame + FrameWords) <= e
-----------------------------------------------------------------------------
(* The offsets from the base pointer, in words *)

\* prehook-*.S: where each register is saved.
SaveSlot(a, r) ==
  CASE r[1] = "int"  -> (CASE a = "sysv" -> -24 [] a = "ms" -> -16 [] a = "i686" -> -2 [] a = "arm64" -> 2) + r[2]
    [] r[1] = "more" -> (IF a = "sysv" THEN -18 ELSE 10) + r[2]
    [] r[1] = "flt"  -> (CASE a = "sysv" -> -16 [] a = "ms" -> -12 [] a = "arm64" -> 12) + 2 * r[2] + r[3]

\* Mutant of RestoreSlot: rax and r10, or x8 and x18, are not restored but
\* take what the slots behind them hold.
RestoreSlotShifted(a, r) == SaveSlot(a, r) + (IF r[1] = "more" THEN 2 ELSE 0)

\* prehook-*.S: where it is restored from.
RestoreSlot(a, r) == SaveSlot(a, r)

\* Mutant of STACK_OFFSET: the words the Microsoft ABI reserves are forgotten.
STACK_OFFSETNoShadow(a) == IF a = "arm64" THEN 28 ELSE 2

INT_REG_OFFSET(a) == CASE a = "sysv" -> 24 [] a = "ms" -> 16 [] a = "i686" -> 2 [] a = "arm64" -> -2
FLT_REG_OFFSET(a) == CASE a = "sysv" -> 16 [] a = "ms" -> 12 [] a = "arm64" -> -12
STACK_OFFSET(a)   == CASE a = "sysv" -> 2 [] a = "ms" -> 6 [] a = "i686" -> 2 [] a = "arm64" -> 28

\* funchook_arg_get_int_reg_addr, _flt_reg_addr and _stack_addr.
ArgSlot(a, p) ==
  CASE p[1] = "int"   -> -INT_REG_OFFSET(a) + p[2]
    [] p[1] = "flt"   -> -FLT_REG_OFFSET(a) + 2 * p[2] + p[3]
    [] p[1] = "stack" -> STACK_OFFSET(a) + p[2]

\* What a prehook can reach.
Accessible(a) == {r \in Registers(a) : r[1] # "more"} \cup StackPlaces

\* The base pointer, of a call entered with stack pointer e, and the words
\* below it that the assembler reserves.
Base(a, e) == IF a = "arm64" THEN e - 28 ELSE e - 1
Reserved(a) == CASE a = "sysv" -> 24 [] a = "ms" -> 20 [] a = "i686" -> 2 [] a = "arm64" -> 0

\* 16 bytes, in words.
Alignment(a) == IF a = "i686" THEN 4 ELSE 2

\* The and of the stack pointer; for i686 two more words and two arguments.
CallSp(a, b) ==
  LET s == b - Reserved(a) IN s - (s % Alignment(a)) - (IF a = "i686" THEN 4 ELSE 0)
-----------------------------------------------------------------------------
Store(m, words) == [x \in DOMAIN m |-> IF x \in DOMAIN words THEN words[x] ELSE m[x]]

FrameInit ==
  /\ abi \in Abis
  /\ mem = [x \in 0 .. Max(StackTop) + 1 + Shadow("ms") + Max(StackArgs) |-> Junk]
  /\ regs = [r \in Registers(abi) \cup {<<"ret", 0, 0>>} |-> Junk]
  /\ sp = Max(StackTop) /\ bp = 0
  /\ calls = <<>>

Running == IF calls = <<>> THEN "caller" ELSE Last(calls).at

\* A call of a hooked function, by the application or by a prehook.
CallTarget(e) ==
  /\ Len(calls) < MaxCalls
  /\ Running \in {"caller", "prehook"}
  /\ abi = "arm64" => e % Alignment(abi) = 0   \* the processor insists
  /\ LET n == Len(calls) + 1
         args == [p \in Registers(abi) \cup StackPlaces |-> Word(p, n, TRUE)]
     IN  /\ calls' = Append(calls, [at |-> "target", entry |-> e, bp |-> bp, sp |-> sp, args |-> args])
         /\ mem' = Store(mem, [x \in {e + PassedAt(abi, k) : k \in StackArgs} \cup (IF abi = "arm64" THEN {} ELSE {e}) |->
                                 IF x = e /\ abi # "arm64" THEN ReturnAddress(n)
                                 ELSE args[<<"stack", x - e - PassedAt(abi, 0), 0>>]])
         /\ regs' = [r \in DOMAIN regs |-> IF r[1] = "ret" THEN ReturnAddress(n) ELSE args[r]]
  /\ sp' = e
  /\ UNCHANGED <<abi, bp>>

\* The patch jumps through transit to funchook_hook_caller_asm, which saves the
\* registers and calls funchook_hook_caller, and that the prehook.  C code may
\* change every word below the stack pointer, its arguments or the words the
\* Microsoft ABI reserves for them, and the registers.
Save ==
  /\ Running = "target"
  /\ LET b == Base(abi, Last(calls).entry)
         slots == {b + SaveSlot(abi, r) : r \in Registers(abi)}
         frame == [x \in slots \cup (IF abi = "arm64" THEN {b, b + 1} ELSE {b}) |->
                     IF x \in slots THEN regs[CHOOSE r \in Registers(abi) : x = b + SaveSlot(abi, r)]
                     ELSE IF x = b THEN FramePointer(bp) ELSE regs[<<"ret", 0, 0>>]]
         owned == CallSp(abi, b) + (CASE abi = "ms" -> 4 [] abi = "i686" -> 2 [] OTHER -> 0)
     IN  /\ mem' = Store(Store(mem, frame), [x \in {y \in DOMAIN mem : y < owned} |-> Junk])
         /\ sp' = CallSp(abi, b)
         /\ bp' = b
  /\ regs' = [r \in DOMAIN regs |-> Junk]
  /\ calls' = [calls EXCEPT ![Len(calls)].at = "prehook"]
  /\ UNCHANGED abi

\* The prehook changes an argument.
Change(p) ==
  /\ Running = "prehook" /\ Last(calls).args[p].fresh
  /\ Quantify(DOMAIN Last(calls).args, LAMBDA q : ~Last(calls).args[q].fresh) < MaxChanges
  /\ LET n == Len(calls) IN
       /\ mem' = Store(mem, [x \in {bp + ArgSlot(abi, p)} |-> Word(p, n, FALSE)])
       /\ calls' = [calls EXCEPT ![n].args[p] = Word(p, n, FALSE)]
  /\ UNCHANGED <<abi, regs, sp, bp>>

\* funchook_hook_caller returns; the registers are restored, the frame is left
\* and the hook function jumped to.
RestoreFrame ==
  /\ Running = "prehook"
  /\ regs' = [r \in DOMAIN regs |->
                IF r[1] = "ret" THEN (IF abi = "arm64" THEN mem[sp + 1] ELSE regs[r])
                ELSE mem[bp + RestoreSlot(abi, r)]]
  /\ sp' = IF abi = "arm64" THEN sp + 28 ELSE bp + 1
  /\ bp' = mem[IF abi = "arm64" THEN sp ELSE bp].place[2]
  /\ calls' = [calls EXCEPT ![Len(calls)].at = "hook"]
  /\ UNCHANGED <<abi, mem>>

\* The hook function returns to the caller of the target.
ReturnFromHook ==
  /\ Running = "hook"
  /\ calls' = Front(calls)
  /\ sp' = Last(calls).sp
  /\ regs' = [r \in DOMAIN regs |-> Junk]
  /\ UNCHANGED <<abi, mem, bp>>

FrameNext ==
  \/ \E e \in (IF calls = <<>> THEN StackTop ELSE {sp - CallerFrame}) : CallTarget(e)
  \/ Save
  \/ \E p \in Accessible(abi) : p[3] = 0 /\ Change(p)
  \/ RestoreFrame
  \/ ReturnFromHook

FrameSpec == FrameInit /\ [][FrameNext]_frameVars
-----------------------------------------------------------------------------
\* In the prehook of every call in progress, funchook_arg_get_* yield the
\* addresses of the arguments, as they were passed or as that prehook changed
\* them, whatever the calls its prehook made have done; and C code is called
\* with a stack pointer that is a multiple of 16 bytes
\* (prehook-x86_64-sysv.S:35).
PrehookSeesArguments ==
  \A n \in DOMAIN calls :
    calls[n].at = "prehook" =>
      /\ \A p \in Accessible(abi) :
           mem[Base(abi, calls[n].entry) + ArgSlot(abi, p)] = calls[n].args[p]
      /\ n = Len(calls) => sp % Alignment(abi) = 0

\* The hook function finds what the target was called with, but for what the
\* prehook changed: registers, arguments on the stack, the stack pointer, the
\* frame pointer and the return address.
HookGetsCall ==
  Running = "hook" =>
    LET c == Last(calls) IN
      /\ \A r \in Registers(abi) : regs[r] = c.args[r]
      /\ \A k \in StackArgs : mem[c.entry + PassedAt(abi, k)] = c.args[<<"stack", k, 0>>]
      /\ sp = c.entry /\ bp = c.bp
      /\ (IF abi = "arm64" THEN regs[<<"ret", 0, 0>>] ELSE mem[c.entry]) = ReturnAddress(Len(calls))
=============================================================================
