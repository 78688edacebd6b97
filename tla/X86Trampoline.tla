--------------------------- MODULE X86Trampoline ---------------------------
(***************************************************************************)
(* funchook_make_trampoline, funchook_page_avail and funchook_fix_code for *)
(* x86_64 and i386 (src/src/arch_x86.c): the first instructions of a       *)
(* function are copied into a trampoline until 5 bytes are free for a      *)
(* jump, the rest is scanned for jumps back into the overwritten bytes,    *)
(* and once the trampoline has an address its relative operands are        *)
(* recomputed.                                                             *)
(*                                                                         *)
(* An instruction is its length, what makes it depend on its address, and  *)
(* the address it refers to.  The disassembler is external: it returns any *)
(* instruction, or the end of the instructions.  Offsets are relative to   *)
(* the function; a 32-bit operand is a number below Word.                  *)
(***************************************************************************)
EXTENDS Integers, Sequences

CONSTANTS
  Machines,      \* what the library is built for and run on, see Machine
  Sizes,         \* the instruction lengths that occur
  Word,          \* 2^32
  TransitAt      \* entry->transit - entry->trampoline

VARIABLES
  machine,       \* one of Machines, which never changes
  pc,            \* "copy", "scan", "made", "ready" or "failed"
  next,          \* where the disassembler reads the next instruction
  src,           \* ctx.src - func
  dst,           \* ctx.dst - trampoline
  pieces,        \* the instructions of the trampoline, in order
  disp,          \* disp->disp[0], disp->disp[1]; dst = 0 when not set
  jumps,         \* history: what the scanned instructions jump to
  code,          \* the patched operands, once the trampoline has an address
  rv

vars == <<machine, pc, next, src, dst, pieces, disp, jumps, code, rv>>

Cpu         == machine.cpu           \* "x86_64" or "i386"
StopOnRet   == machine.stop_on_ret   \* the disassembler stops after a ret (disasm_distorm.c)
CheckSize   == machine.check_size    \* MAX_INSN_CHECK_SIZE
Refs        == machine.refs          \* the offsets instructions refer to
Func        == machine.func          \* address of the function
Trampolines == machine.trampolines   \* addresses entry->trampoline can get
HookFuncs   == machine.hook_funcs    \* addresses of hook functions

REL2G_JUMP_SIZE     == 5
MAX_INSN_LEN        == 16
TRAMPOLINE_SIZE     == REL2G_JUMP_SIZE + (MAX_INSN_LEN - 1) + REL2G_JUMP_SIZE
MAX_PATCH_CODE_SIZE == REL2G_JUMP_SIZE + MAX_INSN_LEN - 1

ASSUME X86Assumption ==
  /\ Machines \subseteq
       [cpu : {"x86_64", "i386"}, stop_on_ret : BOOLEAN, check_size : Nat, refs : SUBSET Int,
        func : Nat \ {0}, trampolines : SUBSET Nat, hook_funcs : SUBSET Nat]
  /\ Sizes \subseteq 1 .. MAX_INSN_LEN
  /\ Word \in Nat /\ Word > MAX_PATCH_CODE_SIZE
  /\ TransitAt \in Nat
-----------------------------------------------------------------------------
(* The disassembler.  A short branch has a one-byte operand; "thunk" is the *)
(* call of __x86.get_pc_thunk and "callpop" a call of the next address, with *)
(* a pop of one byte there.                                                 *)

Insn(sizes, kinds, refs) == [size : sizes, kind : kinds, to : refs]

Insns ==
  Insn(Sizes, {"plain"}, {0})
    \cup Insn({1}, {"ret"}, {0})
    \cup Insn({2}, {"imm8"}, Refs)
    \cup Insn(Sizes \cap {5, 6}, {"imm32"}, Refs)
    \cup (IF Cpu = "x86_64" THEN Insn({s \in Sizes : s >= 6}, {"disp32"}, Refs)
          ELSE Insn({5}, {"thunk"}, {0}) \cup Insn({5}, {"callpop"}, {0}))

Decodes(x) == x \in Insns /\ next + x.size <= CheckSize

\* Where it reads on: nowhere, when it stops behind a ret.
ReadOn(x, size) == IF StopOnRet /\ x.kind = "ret" THEN CheckSize ELSE next + size
-----------------------------------------------------------------------------
Unset == [dst |-> 0, src |-> 0, pos |-> 0]

Init ==
  /\ machine \in Machines
  /\ pc = "copy"
  /\ next = 0 /\ src = 0 /\ dst = 0
  /\ pieces = <<>>
  /\ disp = <<Unset, Unset>>
  /\ jumps = {}
  /\ code = <<>>
  /\ rv = "SUCCESS"

Fail(error) ==
  /\ pc' = "failed"
  /\ rv' = error
  /\ UNCHANGED <<next, src, dst, pieces, disp, jumps, code>>

\* The bytes of the function that one turn consumes.  A call and the pop that
\* follows are two instructions; one movl as long as the call replaces both.
SizeInFunction(x) == IF x.kind = "callpop" THEN x.size + 1 ELSE x.size

\* handle_rip_relative remembers the one operand to fix.  pos is where the
\* instruction starts; the operand itself is inside.
RipDisp(x) ==
  IF x.kind \in {"imm32", "disp32"}
    THEN [dst |-> Func + x.to, src |-> dst + x.size, pos |-> dst]
    ELSE disp[2]

\* Mutant of JumpBack: back to the last instruction moved.
JumpBackToLast(s, d) == [dst |-> Func + src, src |-> d + REL2G_JUMP_SIZE, pos |-> d]

\* The jump back to the rest of the function.
JumpBack(s, d) == [dst |-> Func + s, src |-> d + REL2G_JUMP_SIZE, pos |-> d]

\* Mutant of Enough: > for >=.
EnoughOffByOne(s) == s > REL2G_JUMP_SIZE

\* The function has room for the jump to the hook.
Enough(s) == s >= REL2G_JUMP_SIZE

\* One turn of the first loop.
CopyInsn(x) ==
  LET s == src + SizeInFunction(x)
      d == dst + x.size
  IN
  /\ pc = "copy"
  /\ Decodes(x)
  /\ x.kind # "imm8"
  /\ src' = s /\ dst' = d /\ next' = ReadOn(x, SizeInFunction(x))
  /\ pieces' = Append(pieces, [at |-> dst, off |-> src, insn |-> x])
  /\ disp' = <<IF Enough(s) THEN JumpBack(s, d) ELSE disp[1], RipDisp(x)>>
  /\ pc' = IF Enough(s) THEN "scan" ELSE "copy"
  /\ UNCHANGED <<jumps, code, rv>>

\* A branch with a one-byte operand cannot be moved; nor can an instruction
\* whose operand is not where the disassembler's sizes say it is.
CannotFix(x) ==
  /\ pc = "copy"
  /\ Decodes(x)
  /\ \/ x.kind = "imm8" /\ Fail("CANNOT_FIX_IP_RELATIVE")
     \/ x.kind \in {"imm32", "disp32"} /\ Fail("IP_RELATIVE_OFFSET")

\* Either loop ends with whatever error the disassembler reports.
DisasmError == pc \in {"copy", "scan"} /\ Fail("DISASSEMBLY")

\* The instructions end before 5 bytes are free.  Only behind a ret can the
\* bytes that follow be the padding the last loop looks for: everywhere else
\* the disassembler would have decoded a nop.
TooShort == pc = "copy" /\ Fail("TOO_SHORT_INSTRUCTIONS")

AfterRet == pieces # <<>> /\ pieces[Len(pieces)].insn.kind = "ret"

NopPadding ==
  /\ pc = "copy"
  /\ StopOnRet /\ AfterRet
  /\ src' = REL2G_JUMP_SIZE
  /\ pc' = "made"
  /\ UNCHANGED <<next, dst, pieces, disp, jumps, code, rv>>

IsBranch(x) == x.kind \in {"imm8", "imm32"}

\* Mutant of JumpsBack: the last byte of the jump is not looked at.
JumpsBackOffByOne(x) == IsBranch(x) /\ 0 < x.to /\ x.to < REL2G_JUMP_SIZE - 1

JumpsBack(x) == IsBranch(x) /\ 0 < x.to /\ x.to < REL2G_JUMP_SIZE

\* One turn of the second loop.
ScanInsn(x) ==
  /\ pc = "scan"
  /\ Decodes(x)
  /\ \/ JumpsBack(x) /\ Fail("FOUND_BACK_JUMP")
     \/ /\ ~JumpsBack(x)
        /\ next' = ReadOn(x, x.size)
        /\ jumps' = IF IsBranch(x) THEN jumps \cup {x.to} ELSE jumps
        /\ UNCHANGED <<pc, src, dst, pieces, disp, code, rv>>

EndScan ==
  /\ pc = "scan"
  /\ pc' = "made"
  /\ UNCHANGED <<next, src, dst, pieces, disp, jumps, code, rv>>
-----------------------------------------------------------------------------
(* The trampoline gets an address *)

\* The value of a 32-bit field, and what the processor adds to the address of
\* the next instruction.  i386 addresses wrap at Word.
Field(n)   == n % Word
Extend(f)  == IF f < Word \div 2 THEN f ELSE f - Word
Address(a) == IF Cpu = "i386" THEN a % Word ELSE a

Within32bit(s, d) == - (Word \div 2) <= d - s /\ d - s < Word \div 2

\* Mutant of PageAvail: the operand of the moved instruction is forgotten.
PageAvailForJumps(t) ==
  Cpu = "x86_64" =>
    /\ Within32bit(Func + REL2G_JUMP_SIZE, t + TransitAt)
    /\ Within32bit(t + disp[1].src, disp[1].dst)

PageAvail(t) ==
  Cpu = "x86_64" =>
    /\ Within32bit(Func + REL2G_JUMP_SIZE, t + TransitAt)
    /\ Within32bit(t + disp[1].src, disp[1].dst)
    /\ disp[2].dst # 0 => Within32bit(t + disp[2].src, disp[2].dst)

\* Where the patch of the function jumps to: through the transit code when
\* there is a prehook or the hook function is out of reach.
PatchTarget(t, hook, prehook) ==
  IF prehook \/ (Cpu = "x86_64" /\ ~Within32bit(Func + REL2G_JUMP_SIZE, hook))
    THEN t + TransitAt ELSE hook

FixCode(t, hook, prehook) ==
  [trampoline |-> t,
   to         |-> PatchTarget(t, hook, prehook),
   patch      |-> Field(PatchTarget(t, hook, prehook) - (Func + REL2G_JUMP_SIZE)),
   patch_code_size |-> Field(disp[1].dst - Func),
   fields     |-> [k \in {k \in 1 .. 2 : k = 1 \/ disp[k].dst # 0} |-> Field(disp[k].dst - (t + disp[k].src))]]

Place(t, hook, prehook) ==
  /\ pc = "made"
  /\ \/ /\ PageAvail(t)
        /\ code' = FixCode(t, hook, prehook)
        /\ pc' = "ready"
        /\ UNCHANGED <<next, src, dst, pieces, disp, jumps, rv>>
     \/ ~PageAvail(t) /\ Fail("NO_SPACE_NEAR_TARGET_ADDR")

Next ==
  /\ \/ \E x \in Insns : CopyInsn(x) \/ CannotFix(x) \/ ScanInsn(x)
     \/ DisasmError \/ TooShort \/ NopPadding \/ EndScan
     \/ \E t \in Trampolines, hook \in HookFuncs, prehook \in BOOLEAN : Place(t, hook, prehook)
  /\ UNCHANGED machine

Spec == Init /\ [][Next]_vars
-----------------------------------------------------------------------------
(* Properties *)

Made == pc \in {"made", "ready"}

\* No byte is written behind the trampoline buffer, the jump back included,
\* and the bytes to patch fit old_code and new_code (arch_x86.h:40-41), which
\* install and uninstall copy them from.
FitsBuffers ==
  /\ src <= MAX_PATCH_CODE_SIZE
  /\ pc = "ready" => code.patch_code_size <= MAX_PATCH_CODE_SIZE
  /\ pc = "copy" => dst < REL2G_JUMP_SIZE
  /\ dst + REL2G_JUMP_SIZE <= TRAMPOLINE_SIZE

\* What the operand of an instruction of the trampoline refers to at run time;
\* an instruction whose operand was not fixed refers to wherever the old
\* operand leads from the new address.
RefersTo(piece) ==
  LET here == code.trampoline + piece.at + piece.insn.size IN
  IF disp[2].dst # 0 /\ disp[2].pos = piece.at
    THEN Address(here + Extend(code.fields[2]))
    ELSE Address(here + piece.insn.to - (piece.off + piece.insn.size))

\* Every relative operand of the trampoline refers to what it referred to in
\* the function, although there is one slot for all of them and a 32-bit field
\* each; the trampoline ends in a jump to the first byte that is not patched,
\* and the patch jumps where it was meant to.
RelocationExact ==
  pc = "ready" /\ disp[1].dst # 0 =>
    /\ \A k \in DOMAIN pieces :
         pieces[k].insn.kind \in {"imm32", "disp32"} =>
           RefersTo(pieces[k]) = Address(Func + pieces[k].insn.to)
    /\ Address(code.trampoline + dst + REL2G_JUMP_SIZE + Extend(code.fields[1]))
         = Address(Func + code.patch_code_size)
    /\ Address(Func + REL2G_JUMP_SIZE + Extend(code.patch)) = Address(code.to)

\* The pops that a movl replaced along with the call before them.  The call is
\* 5 bytes long, so they are in the patch but not in its first 5 bytes.
Pops == {pieces[k].off + pieces[k].insn.size : k \in {k \in DOMAIN pieces : pieces[k].insn.kind = "callpop"}}

\* The offsets strictly inside the patch at which instructions start.
Inside == ({pieces[k].off : k \in DOMAIN pieces} \cup Pops) \ {0}

\* When make_trampoline succeeds no instruction behind the patch jumps to an
\* instruction that the patch overwrites, but for a pop.  Up to 20 bytes are
\* overwritten and the scan looks for jumps to the first 5: all instructions
\* but a pop start there.  A jump to a pop is accepted.
NoLaterJumpIntoPatch == Made => jumps \cap Inside \subseteq Pops

\* Nor does one of those that were moved.  The code does not see to it:
\* they are accepted and still jump to what the patch has overwritten.
NoMovedJumpIntoPatch ==
  Made => \A k \in DOMAIN pieces : IsBranch(pieces[k].insn) => pieces[k].insn.to \notin Inside

\* When make_trampoline succeeds the jump back is set: fix_code takes the
\* length of the patch from it.  Not so with a disassembler that stops at a ret.
JumpBackSet == Made /\ ~StopOnRet => disp[1].dst = Func + src
=============================================================================
