------------------------- MODULE X86TrampolineProofs -------------------------
(***************************************************************************)
(* Proofs about X86Trampoline, for every machine, every instruction length *)
(* up to 16, every operand and every address of the trampoline.            *)
(***************************************************************************)
EXTENDS X86Trampoline, TLAPS

PCs   == {"copy", "scan", "made", "ready", "failed"}
Kinds == {"plain", "ret", "imm8", "imm32", "disp32", "thunk", "callpop"}

AnyInsn == [size : 1 .. MAX_INSN_LEN, kind : Kinds, to : Int]
Piece   == [at : Nat, off : 0 .. REL2G_JUMP_SIZE - 1, insn : AnyInsn]
Disp    == [dst : Int, src : Int, pos : Int]

\* The operand of the instruction is relative and has 32 bits.
Relative(x) == x.kind \in {"imm32", "disp32"}

\* Instructions are copied while the patch is too short, so each starts in its
\* first 5 bytes and the last one ends at most 16 bytes behind them.
Copied ==
  /\ machine \in Machines /\ pc \in PCs
  /\ src \in 0 .. MAX_PATCH_CODE_SIZE
  /\ dst \in 0 .. src
  /\ pc = "copy" => src < REL2G_JUMP_SIZE /\ dst < REL2G_JUMP_SIZE
  /\ pieces \in Seq(Piece)
  /\ disp \in Disp \X Disp

\* The jump back is set by the turn that ends the first loop, or never.
JumpBackState ==
  /\ pc = "copy" => disp[1] = Unset
  /\ pc = "scan" => disp[1] = JumpBack(src, dst)
  /\ pc \in {"made", "ready"} =>
       disp[1] = JumpBack(src, dst) \/ (StopOnRet /\ disp[1] = Unset)

\* A relative operand is 4 bytes of an instruction of 5 or more: the
\* instruction that has one ends the first loop, and the slot is not reused.
OneOperand ==
  \A k \in DOMAIN pieces : Relative(pieces[k].insn) =>
    LET p == pieces[k] IN
    /\ pc # "copy"
    /\ p.insn.to \in Refs
    /\ disp[2] = [dst |-> Func + p.insn.to, src |-> p.at + p.insn.size, pos |-> p.at]

ScannedJumps == jumps \subseteq Int \ (1 .. REL2G_JUMP_SIZE - 1)

\* What funchook_fix_code wrote is for an address funchook_page_avail accepted.
Placed ==
  pc = "ready" =>
    \E t \in Trampolines, hook \in HookFuncs, prehook \in BOOLEAN :
      PageAvail(t) /\ code = FixCode(t, hook, prehook)

XInv == Copied /\ JumpBackState /\ OneOperand /\ ScannedJumps /\ Placed
-----------------------------------------------------------------------------
LEMMA MachineParts ==
  ASSUME machine \in Machines
  PROVE  /\ Cpu \in {"x86_64", "i386"} /\ Refs \subseteq Int /\ Func \in Nat \ {0}
         /\ Trampolines \subseteq Nat /\ HookFuncs \subseteq Nat
BY X86Assumption DEF Cpu, Refs, Func, Trampolines, HookFuncs

LEMMA InsnParts ==
  ASSUME machine \in Machines, NEW x \in Insns
  PROVE  /\ x \in AnyInsn
         /\ Relative(x) => x.size >= REL2G_JUMP_SIZE /\ x.to \in Refs
         /\ SizeInFunction(x) \in 1 .. MAX_INSN_LEN /\ x.size <= SizeInFunction(x)
         /\ x.kind = "callpop" => x.size = REL2G_JUMP_SIZE
<1>1. Refs \subseteq Int /\ Sizes \subseteq 1 .. 16
  BY MachineParts, X86Assumption DEF MAX_INSN_LEN
<1> DEFINE facts == /\ x.kind \in Kinds /\ x.size \in 1 .. 16 /\ x.to \in Int
                    /\ Relative(x) => x.size >= 5 /\ x.to \in Refs
                    /\ x.kind = "callpop" => x.size = 5
<1>2. facts
  <2>1. CASE x \in Insn(Sizes, {"plain"}, {0})
    <3>1. x.kind = "plain" /\ x.size \in Sizes /\ x.to \in {0}
      BY <2>1 DEF Insn
    <3>2. x.size \in 1 .. 16
      BY <3>1, <1>1
    <3>3. x.to \in Int
      BY <3>1, <1>1
    <3> QED BY <3>1, <3>2, <3>3 DEF Kinds, Relative
  <2>2. CASE x \in Insn({1}, {"ret"}, {0})
    BY <2>2 DEF Insn, Kinds, Relative
  <2>3. CASE x \in Insn({2}, {"imm8"}, Refs)
    <3>1. x.kind = "imm8" /\ x.size \in {2} /\ x.to \in Refs
      BY <2>3 DEF Insn
    <3>2. x.size \in 1 .. 16
      BY <3>1, <1>1
    <3>3. x.to \in Int
      BY <3>1, <1>1
    <3> QED BY <3>1, <3>2, <3>3 DEF Kinds, Relative
  <2>4. CASE x \in Insn(Sizes \cap {5, 6}, {"imm32"}, Refs)
    <3>1. x.kind = "imm32" /\ x.size \in Sizes \cap {5, 6} /\ x.to \in Refs
      BY <2>4 DEF Insn
    <3>2. x.size \in 1 .. 16
      BY <3>1, <1>1
    <3>3. x.to \in Int
      BY <3>1, <1>1
    <3> QED BY <3>1, <3>2, <3>3 DEF Kinds, Relative
  <2>5. CASE x \in Insn({n \in Sizes : n >= 6}, {"disp32"}, Refs)
    <3>1. x.kind = "disp32" /\ x.size \in {n \in Sizes : n >= 6} /\ x.to \in Refs
      BY <2>5 DEF Insn
    <3>2. x.size \in 1 .. 16
      BY <3>1, <1>1
    <3>3. x.to \in Int
      BY <3>1, <1>1
    <3> QED BY <3>1, <3>2, <3>3 DEF Kinds, Relative
  <2>6. CASE x \in Insn({5}, {"thunk"}, {0})
    BY <2>6 DEF Insn, Kinds, Relative
  <2>7. CASE x \in Insn({5}, {"callpop"}, {0})
    BY <2>7 DEF Insn, Kinds, Relative
  <2> HIDE DEF facts
  <2> QED BY <2>1, <2>2, <2>3, <2>4, <2>5, <2>6, <2>7, Zenon DEF Insns
<1>a. x = [size |-> x.size, kind |-> x.kind, to |-> x.to]
  BY DEF Insns, Insn
<1>e. x \in AnyInsn
  BY <1>a, <1>2 DEF AnyInsn, MAX_INSN_LEN
<1> QED BY <1>2, <1>e DEF SizeInFunction, Relative, MAX_INSN_LEN, REL2G_JUMP_SIZE

LEMMA InitXInv == Init => XInv
BY DEF Init, XInv, Copied, JumpBackState, OneOperand, ScannedJumps, Placed, PCs, Unset, Disp,
       MAX_PATCH_CODE_SIZE, REL2G_JUMP_SIZE, MAX_INSN_LEN

\* Once an instruction was copied the loop goes on only below 5 bytes.
LEMMA CopyStep ==
  ASSUME XInv, UNCHANGED machine, NEW x \in Insns, CopyInsn(x)
  PROVE  XInv'
<1> DEFINE s == src + SizeInFunction(x)
           d == dst + x.size
           piece == [at |-> dst, off |-> src, insn |-> x]
<1>0. machine \in Machines /\ machine' = machine /\ Func \in Nat /\ Func' = Func /\ Refs' = Refs /\ Refs \subseteq Int
      /\ StopOnRet' = StopOnRet
  BY MachineParts DEF XInv, Copied, Func, Refs, StopOnRet
<1>1. /\ pc = "copy" /\ src' = s /\ dst' = d
      /\ pieces' = Append(pieces, piece)
      /\ disp' = <<IF Enough(s) THEN JumpBack(s, d) ELSE disp[1], RipDisp(x)>>
      /\ pc' = IF Enough(s) THEN "scan" ELSE "copy"
      /\ jumps' = jumps
  BY DEF CopyInsn
<1>2. /\ x \in AnyInsn /\ x.size \in 1 .. 16 /\ x.to \in Int
      /\ SizeInFunction(x) \in 1 .. 16 /\ x.size <= SizeInFunction(x)
      /\ src \in 0 .. 4 /\ dst \in 0 .. src
  BY <1>0, <1>1, InsnParts DEF XInv, Copied, AnyInsn, MAX_INSN_LEN, MAX_PATCH_CODE_SIZE, REL2G_JUMP_SIZE
<1>3. s \in 1 .. 20 /\ d \in 1 .. 20 /\ d <= s
  BY <1>2
<1> HIDE DEF s, d
<1>4. Enough(s) <=> s >= 5
  BY DEF Enough, REL2G_JUMP_SIZE
<1>5. pc' = "copy" => s < 5 /\ d < 5
  BY <1>1, <1>3, <1>4
<1>6. piece \in Piece
  BY <1>2 DEF Piece, REL2G_JUMP_SIZE
<1>7. pieces' \in Seq(Piece)
  BY <1>1, <1>6 DEF XInv, Copied
<1>8. disp' \in Disp \X Disp
  <2>1. disp[1] \in Disp /\ disp[2] \in Disp
    BY DEF XInv, Copied
  <2>2. JumpBack(s, d) \in Disp
    BY <1>0, <1>3 DEF JumpBack, Disp, REL2G_JUMP_SIZE
  <2>3. RipDisp(x) \in Disp
    BY <2>1, <1>0, <1>2 DEF RipDisp, Disp
  <2> QED BY <2>1, <2>2, <2>3, <1>1
<1>9. Copied'
  BY <1>0, <1>1, <1>3, <1>5, <1>7, <1>8 DEF Copied, PCs, MAX_PATCH_CODE_SIZE, MAX_INSN_LEN, REL2G_JUMP_SIZE
<1>10. JumpBackState'
  <2>1. CASE Enough(s)
    BY <2>1, <1>0, <1>1 DEF JumpBackState, JumpBack, Func
  <2>2. CASE ~Enough(s)
    BY <2>2, <1>0, <1>1 DEF XInv, JumpBackState
  <2> QED BY <2>1, <2>2
<1>11. OneOperand'
  <2> SUFFICES ASSUME NEW k \in DOMAIN pieces', Relative(pieces'[k].insn)
               PROVE  LET p == pieces'[k] IN
                      /\ pc' # "copy"
                      /\ p.insn.to \in Refs
                      /\ disp'[2] = [dst |-> Func + p.insn.to, src |-> p.at + p.insn.size, pos |-> p.at]
    BY <1>0 DEF OneOperand
  <2>1. pieces \in Seq(Piece) /\ Len(pieces) \in Nat
    BY DEF XInv, Copied
  <2>2. k = Len(pieces) + 1 \/ (k \in DOMAIN pieces /\ pieces'[k] = pieces[k])
    BY <2>1, <1>1
  <2>3. ~(k \in DOMAIN pieces /\ pieces'[k] = pieces[k])
    BY <1>1 DEF XInv, OneOperand
  <2>4. pieces'[k] = piece
    BY <2>1, <2>2, <2>3, <1>1
  <2>5. x.size >= 5 /\ x.to \in Refs
    BY <2>4, <1>0, InsnParts DEF REL2G_JUMP_SIZE
  <2>6. Enough(s)
    BY <2>5, <1>2, <1>4 DEF s
  <2>7. disp'[2] = [dst |-> Func + x.to, src |-> dst + x.size, pos |-> dst]
    BY <2>4, <1>1 DEF RipDisp, Relative
  <2> QED BY <2>4, <2>5, <2>6, <2>7, <1>1
<1>12. ScannedJumps' /\ Placed'
  BY <1>1 DEF XInv, ScannedJumps, Placed
<1> QED BY <1>9, <1>10, <1>11, <1>12 DEF XInv

\* The other steps leave the trampoline and its operands as they are.
LEMMA KeepStep ==
  ASSUME XInv, UNCHANGED <<machine, dst, pieces, disp>>, ScannedJumps',
         \/ pc' = "failed" /\ src' = src
         \/ pc = "scan" /\ pc' \in {"scan", "made"} /\ src' = src
         \/ pc = "copy" /\ pc' = "made" /\ StopOnRet /\ src' = REL2G_JUMP_SIZE
  PROVE  XInv'
<1>0. Func' = Func /\ Refs' = Refs /\ StopOnRet' = StopOnRet
  BY DEF Func, Refs, StopOnRet
<1>1. Copied'
  <2>1. machine' \in Machines /\ pieces' \in Seq(Piece) /\ disp' \in Disp \X Disp
    BY DEF XInv, Copied
  <2>2. pc' \in PCs /\ pc' # "copy"
    BY DEF PCs
  <2>3. src' \in 0 .. 20 /\ dst' \in 0 .. src'
    <3>1. src \in 0 .. 20 /\ dst \in 0 .. src /\ (pc = "copy" => dst < 5)
      BY DEF XInv, Copied, MAX_PATCH_CODE_SIZE, MAX_INSN_LEN, REL2G_JUMP_SIZE
    <3>2. dst' = dst /\ (src' = src \/ (pc = "copy" /\ src' = 5))
      BY DEF REL2G_JUMP_SIZE
    <3> QED BY <3>1, <3>2
  <2> QED BY <2>1, <2>2, <2>3 DEF Copied, MAX_PATCH_CODE_SIZE, MAX_INSN_LEN, REL2G_JUMP_SIZE
<1>2. JumpBackState'
  BY <1>0 DEF XInv, JumpBackState, JumpBack
<1>3. OneOperand'
  BY <1>0 DEF XInv, OneOperand
<1> QED BY <1>1, <1>2, <1>3 DEF XInv, Placed

LEMMA ScanStep ==
  ASSUME XInv, UNCHANGED machine, NEW x \in Insns, ScanInsn(x)
  PROVE  XInv'
<1>1. CASE JumpsBack(x) /\ Fail("FOUND_BACK_JUMP")
  BY <1>1, KeepStep DEF Fail, XInv, ScannedJumps
<1>2. CASE ~JumpsBack(x) /\ jumps' = IF IsBranch(x) THEN jumps \cup {x.to} ELSE jumps
  <2>1. UNCHANGED <<pc, src, dst, pieces, disp>> /\ pc = "scan"
    BY <1>1, <1>2 DEF ScanInsn
  <2>2. x.to \in Int
    BY InsnParts DEF XInv, Copied, AnyInsn
  <2>3. ScannedJumps'
    <3> SUFFICES ASSUME NEW j \in jumps' PROVE j \in Int /\ j \notin 1 .. 4
      BY DEF ScannedJumps, REL2G_JUMP_SIZE
    <3>1. CASE j \in jumps
      BY <3>1 DEF XInv, ScannedJumps, REL2G_JUMP_SIZE
    <3>2. CASE j = x.to /\ IsBranch(x)
      BY <1>2, <2>2, <3>2 DEF JumpsBack, REL2G_JUMP_SIZE
    <3> QED BY <3>1, <3>2, <1>2
  <2> QED BY <2>1, <2>3, KeepStep
<1> QED BY <1>1, <1>2 DEF ScanInsn

LEMMA PlaceStep ==
  ASSUME XInv, UNCHANGED machine,
         NEW t \in Trampolines, NEW hook \in HookFuncs, NEW prehook \in BOOLEAN,
         Place(t, hook, prehook)
  PROVE  XInv'
<1>1. CASE Fail("NO_SPACE_NEAR_TARGET_ADDR")
  BY <1>1, KeepStep DEF Fail, XInv, ScannedJumps
<1>2. CASE /\ PageAvail(t) /\ code' = FixCode(t, hook, prehook) /\ pc' = "ready"
           /\ UNCHANGED <<src, dst, pieces, disp, jumps>>
  <2>0. pc = "made" /\ Func' = Func /\ Refs' = Refs /\ StopOnRet' = StopOnRet /\ Trampolines' = Trampolines
        /\ HookFuncs' = HookFuncs
    BY DEF Place, Func, Refs, StopOnRet, Trampolines, HookFuncs
  <2>1. Copied' /\ ScannedJumps'
    BY <1>2 DEF XInv, Copied, ScannedJumps, PCs
  <2>2. JumpBackState'
    BY <1>2, <2>0 DEF XInv, JumpBackState, JumpBack
  <2>3. OneOperand'
    BY <1>2, <2>0 DEF XInv, OneOperand
  <2>4. PageAvail(t)' /\ code' = FixCode(t, hook, prehook)'
    BY <1>2 DEF PageAvail, FixCode, PatchTarget, Within32bit, Field, Func, Cpu
  <2>5. Placed'
    BY <2>0, <2>4 DEF Placed
  <2> QED BY <2>1, <2>2, <2>3, <2>5 DEF XInv
<1> QED BY <1>1, <1>2 DEF Place

LEMMA XInvStep == XInv /\ [Next]_vars => XInv'
<1> SUFFICES ASSUME XInv, [Next]_vars PROVE XInv'
  OBVIOUS
<1>1. CASE UNCHANGED vars
  <2>1. UNCHANGED <<machine, pc, src, dst, pieces, disp, jumps, code>>
    BY <1>1 DEF vars
  <2>2. Copied' /\ ScannedJumps'
    BY <2>1 DEF XInv, Copied, ScannedJumps
  <2>3. JumpBackState' /\ OneOperand'
    BY <2>1 DEF XInv, JumpBackState, JumpBack, OneOperand, Func, Refs, StopOnRet
  <2>4. Placed'
    <3>1. Trampolines' = Trampolines /\ HookFuncs' = HookFuncs
      BY <2>1 DEF Trampolines, HookFuncs
    <3>2. \A t : PageAvail(t)' <=> PageAvail(t)
      BY <2>1 DEF PageAvail, Within32bit, Func, Cpu
    <3>3. \A t, hook, prehook : FixCode(t, hook, prehook)' = FixCode(t, hook, prehook)
      BY <2>1 DEF FixCode, PatchTarget, Field, Func, Cpu, Within32bit
    <3>4. Placed
      BY DEF XInv
    <3> QED BY <2>1, <3>1, <3>2, <3>3, <3>4 DEF Placed
  <2> QED BY <2>2, <2>3, <2>4 DEF XInv
<1>2. ASSUME UNCHANGED machine, NEW x \in Insns, CopyInsn(x) \/ CannotFix(x) \/ ScanInsn(x) PROVE XInv'
  <2>1. CASE CannotFix(x)
    BY <1>2, <2>1, KeepStep DEF CannotFix, Fail, XInv, ScannedJumps
  <2> QED BY <1>2, <2>1, CopyStep, ScanStep
<1>3. ASSUME UNCHANGED machine, DisasmError \/ TooShort \/ NopPadding \/ EndScan PROVE XInv'
  BY <1>3, KeepStep DEF DisasmError, TooShort, NopPadding, EndScan, Fail, XInv, ScannedJumps
<1>4. ASSUME UNCHANGED machine, NEW t \in Trampolines, NEW hook \in HookFuncs, NEW prehook \in BOOLEAN,
             Place(t, hook, prehook)
      PROVE  XInv'
  BY <1>4, PlaceStep
<1> QED BY <1>1, <1>2, <1>3, <1>4 DEF Next

\* The loops of funchook_make_trampoline and funchook_fix_code keep the
\* inductive invariant.
THEOREM X86Invariance == Spec => []XInv
BY InitXInv, XInvStep, PTL DEF Spec

\* Behind the loop of funchook_make_trampoline that copies instructions, no
\* instruction that is scanned jumps to one of those that the patch overwrites,
\* unless that is the pop of a call and a pop.
THEOREM X86NoLaterJumpTheorem == Spec => []NoLaterJumpIntoPatch
<1>1. XInv => NoLaterJumpIntoPatch
  <2> SUFFICES ASSUME XInv, NEW k \in DOMAIN pieces, pieces[k].off # 0, pieces[k].off \in jumps PROVE FALSE
    BY DEF NoLaterJumpIntoPatch, Inside
  <2>1. pieces[k].off \in 0 .. 4
    <3>1. pieces[k] \in Piece
      BY DEF XInv, Copied
    <3> QED BY <3>1 DEF Piece, REL2G_JUMP_SIZE
  <2>2. pieces[k].off \notin 1 .. 4
    BY DEF XInv, ScannedJumps, REL2G_JUMP_SIZE
  <2> QED BY <2>1, <2>2
<1> QED BY <1>1, X86Invariance, PTL

\* Unless the disassembler stops at a ret, the jump back leads to the first
\* byte behind the patch whenever funchook_make_trampoline succeeds.
THEOREM JumpBackSetTheorem == Spec => []JumpBackSet
<1>1. XInv => JumpBackSet
  BY DEF XInv, JumpBackState, JumpBack, JumpBackSet, Made
<1> QED BY <1>1, X86Invariance, PTL

\* With the capstone and Zydis back ends, which do not stop at a ret, the
\* trampoline and the bytes to patch fit the buffers of the entry, whatever
\* the lengths of the instructions are (arch_x86.h:40-41).
THEOREM FitsBuffersTheorem ==
  (\A m \in Machines : ~m.stop_on_ret) => (Spec => []FitsBuffers)
<1> SUFFICES ASSUME \A m \in Machines : ~m.stop_on_ret PROVE Spec => []FitsBuffers
  OBVIOUS
<1>1. XInv => FitsBuffers
  <2> SUFFICES ASSUME XInv PROVE FitsBuffers
    OBVIOUS
  <2>1. /\ src \in 0 .. 20 /\ dst \in 0 .. 20 /\ (pc = "copy" => dst < 5)
    BY DEF XInv, Copied, MAX_PATCH_CODE_SIZE, MAX_INSN_LEN, REL2G_JUMP_SIZE
  <2>2. ASSUME pc = "ready" PROVE code.patch_code_size <= 20
    <3>1. disp[1].dst = Func + src
      BY <2>2 DEF XInv, Copied, JumpBackState, JumpBack, StopOnRet
    <3>2. code.patch_code_size = Field(disp[1].dst - Func)
      <4>1. PICK t \in Trampolines, hook \in HookFuncs, prehook \in BOOLEAN : code = FixCode(t, hook, prehook)
        BY <2>2 DEF XInv, Placed
      <4> QED BY <4>1 DEF FixCode
    <3>3. disp[1].dst - Func = src
      BY <3>1, <2>1, MachineParts DEF XInv, Copied
    <3>4. src % Word = src
      BY <2>1, X86Assumption DEF MAX_PATCH_CODE_SIZE, MAX_INSN_LEN, REL2G_JUMP_SIZE
    <3> QED BY <3>2, <3>3, <3>4, <2>1 DEF Field
  <2> QED BY <2>1, <2>2 DEF FitsBuffers, TRAMPOLINE_SIZE, MAX_PATCH_CODE_SIZE, MAX_INSN_LEN, REL2G_JUMP_SIZE
<1> QED BY <1>1, X86Invariance, PTL
-----------------------------------------------------------------------------
(* 32-bit fields *)

LEMMA Remainder ==
  ASSUME NEW n \in Int, NEW w \in Nat, w > 0
  PROVE  /\ n \div w \in Int /\ n % w \in 0 .. w - 1
         /\ n - (n % w) = w * (n \div w)
OBVIOUS

\* A multiple of w nearer to 0 than w is 0.
LEMMA SmallMultiple ==
  ASSUME NEW w \in Nat, w > 0, NEW m \in Int, - w < w * m, w * m < w
  PROVE  w * m = 0
<1>1. CASE m = 0
  BY <1>1
<1>2. CASE m >= 1
  <2>1. w * m >= w * 1
    BY <1>2
  <2> QED BY <2>1
<1>3. CASE m <= -1
  <2>1. w * m <= w * (-1)
    BY <1>3
  <2> QED BY <2>1
<1> QED BY <1>1, <1>2, <1>3

\* The remainder does not see multiples.
LEMMA SameRemainder ==
  ASSUME NEW w \in Nat, w > 0, NEW b \in Int, NEW k \in Int
  PROVE  (b - w * k) % w = b % w
<1> DEFINE c == b - w * k
           q == b \div w
           r == b % w
           p == c \div w
           z == c % w
<1>1. w * k \in Int /\ c \in Int
  OBVIOUS
<1>2. q \in Int /\ r \in 0 .. w - 1 /\ b - r = w * q
  BY Remainder
<1> HIDE DEF c
<1>3. p \in Int /\ z \in 0 .. w - 1 /\ c - z = w * p
  BY <1>1, Remainder
<1> HIDE DEF q, r, p, z
<1>4. c = b - w * k
  BY DEF c
<1>5. w * q - w * k - w * p = w * (q - k - p)
  BY <1>2, <1>3
<1>6. w * q \in Int /\ w * p \in Int /\ w * (q - k - p) \in Int /\ q - k - p \in Int
  BY <1>2, <1>3
<1>7. w * (q - k - p) = z - r
  BY <1>1, <1>2, <1>3, <1>4, <1>5, <1>6
<1>8. w * (q - k - p) = 0
  <2>1. - w < w * (q - k - p) /\ w * (q - k - p) < w
    BY <1>2, <1>3, <1>7
  <2> QED BY <2>1, <1>6, SmallMultiple
<1>9. z = r
  BY <1>2, <1>3, <1>7, <1>8
<1> QED BY <1>9 DEF c, r, z

\* A distance within 32 bits is what the processor reads from its field.
LEMMA FieldNear ==
  ASSUME NEW n \in Int, - (Word \div 2) <= n, n < Word \div 2
  PROVE  Extend(Field(n)) = n
<1>1. Word \in Nat /\ Word > 0
  BY X86Assumption DEF MAX_PATCH_CODE_SIZE, MAX_INSN_LEN, REL2G_JUMP_SIZE
<1>2. Word \div 2 \in Nat /\ 2 * (Word \div 2) <= Word
  BY <1>1
<1>3. CASE n >= 0
  <2>1. n % Word = n
    BY <1>1, <1>2, <1>3
  <2> QED BY <2>1 DEF Extend, Field
<1>4. CASE n < 0
  <2>1. (n + Word) % Word = n + Word
    BY <1>1, <1>2, <1>4
  <2>2. (n - Word * (-1)) % Word = n % Word
    BY <1>1, SameRemainder
  <2>3. n - Word * (-1) = n + Word
    BY <1>1
  <2>4. n % Word = n + Word
    BY <2>1, <2>2, <2>3
  <2>5. ~(n + Word < Word \div 2)
    BY <1>1, <1>2
  <2> QED BY <2>4, <2>5, <1>1 DEF Extend, Field
<1> QED BY <1>3, <1>4

\* Any distance is, where addresses wrap at Word.
LEMMA FieldWraps ==
  ASSUME NEW a \in Int, NEW n \in Int
  PROVE  (a + Extend(Field(n))) % Word = (a + n) % Word
<1>1. Word \in Nat /\ Word > 0
  BY X86Assumption DEF MAX_PATCH_CODE_SIZE, MAX_INSN_LEN, REL2G_JUMP_SIZE
<1> DEFINE q == n \div Word
<1>2. q \in Int /\ n % Word \in Int /\ n - (n % Word) = Word * q
  BY <1>1, Remainder
<1> HIDE DEF q
<1>3. Word * q \in Int /\ Word * (q + 1) = Word * q + Word
  BY <1>1, <1>2
<1>4. Field(n) = n - Word * q
  BY <1>2, <1>3 DEF Field
<1>5. \E k \in Int : Extend(Field(n)) = n - Word * k
  <2>1. CASE Field(n) < Word \div 2
    BY <2>1, <1>2, <1>4 DEF Extend
  <2>2. CASE ~(Field(n) < Word \div 2)
    <3>1. Extend(Field(n)) = n - Word * (q + 1)
      BY <2>2, <1>1, <1>3, <1>4 DEF Extend
    <3> QED BY <3>1, <1>2
  <2> QED BY <2>1, <2>2
<1>6. PICK k \in Int : Extend(Field(n)) = n - Word * k
  BY <1>5
<1>7. a + (n - Word * k) = (a + n) - Word * k
  <2>1. Word * k \in Int
    BY <1>1
  <2> QED BY <2>1
<1>8. a + n \in Int
  OBVIOUS
<1>9. ((a + n) - Word * k) % Word = (a + n) % Word
  BY <1>1, <1>8, SameRemainder
<1> QED BY <1>6, <1>7, <1>9

\* A relative operand leads where it was computed for: on x86_64 when that is
\* within 32 bits, on i386 always.
LEMMA OperandReaches ==
  ASSUME NEW here \in Int, NEW there \in Int, Cpu \in {"x86_64", "i386"},
         Cpu = "x86_64" => Within32bit(here, there)
  PROVE  Address(here + Extend(Field(there - here))) = Address(there)
<1>1. there - here \in Int /\ here + (there - here) = there
  OBVIOUS
<1>2. CASE Cpu = "x86_64"
  <2>1. Extend(Field(there - here)) = there - here
    BY <1>1, <1>2, FieldNear DEF Within32bit
  <2> QED BY <2>1, <1>1
<1>3. CASE Cpu = "i386"
  <2>1. (here + Extend(Field(there - here))) % Word = (here + (there - here)) % Word
    BY <1>1, FieldWraps
  <2> QED BY <2>1, <1>1, <1>3 DEF Address
<1> QED BY <1>2, <1>3

\* No operand refers to address 0: disp[1].dst = 0 stands for no operand
\* (arch_x86.c:367).
NoNullOperand == \A m \in Machines : \A r \in m.refs : m.func + r # 0

\* Unless the code refers to address 0, every relative operand of the
\* trampoline refers to what it referred to in the function, the trampoline
\* jumps back behind the patch and the patch jumps to the hook or the transit
\* code, at every address that funchook_page_avail accepts and with every
\* instruction that funchook_make_trampoline moves.
THEOREM RelocationExactTheorem == NoNullOperand => (Spec => []RelocationExact)
<1> SUFFICES ASSUME NoNullOperand PROVE Spec => []RelocationExact
  OBVIOUS
<1>1. XInv => RelocationExact
  <2> SUFFICES ASSUME XInv, pc = "ready", disp[1].dst # 0
               PROVE  /\ \A k \in DOMAIN pieces :
                           pieces[k].insn.kind \in {"imm32", "disp32"} =>
                             RefersTo(pieces[k]) = Address(Func + pieces[k].insn.to)
                      /\ Address(code.trampoline + dst + REL2G_JUMP_SIZE + Extend(code.fields[1]))
                           = Address(Func + code.patch_code_size)
                      /\ Address(Func + REL2G_JUMP_SIZE + Extend(code.patch)) = Address(code.to)
    BY DEF RelocationExact
  <2>1. /\ machine \in Machines /\ Cpu \in {"x86_64", "i386"} /\ Func \in Nat /\ Refs \subseteq Int
        /\ Trampolines \subseteq Nat /\ HookFuncs \subseteq Nat /\ TransitAt \in Nat
    BY MachineParts, X86Assumption DEF XInv, Copied
  <2>2. PICK t \in Trampolines, hook \in HookFuncs, prehook \in BOOLEAN :
          PageAvail(t) /\ code = FixCode(t, hook, prehook)
    BY DEF XInv, Placed
  <2>t. t \in Int /\ hook \in Int
    BY <2>1
  <2>3. /\ src \in 0 .. 20 /\ dst \in 0 .. 20 /\ disp[1].dst = Func + src /\ disp[1].src = dst + 5
    <3>1. src \in 0 .. 20 /\ dst \in 0 .. 20
      BY DEF XInv, Copied, MAX_PATCH_CODE_SIZE, MAX_INSN_LEN, REL2G_JUMP_SIZE
    <3>2. disp[1] = JumpBack(src, dst)
      BY DEF XInv, JumpBackState, Unset
    <3> QED BY <3>1, <3>2 DEF JumpBack, REL2G_JUMP_SIZE
  <2>4. /\ code.trampoline = t
        /\ code.to = PatchTarget(t, hook, prehook)
        /\ code.patch = Field(PatchTarget(t, hook, prehook) - (Func + REL2G_JUMP_SIZE))
        /\ code.patch_code_size = Field(disp[1].dst - Func)
        /\ code.fields[1] = Field(disp[1].dst - (t + disp[1].src))
        /\ disp[2].dst # 0 => code.fields[2] = Field(disp[2].dst - (t + disp[2].src))
    BY <2>2 DEF FixCode
  <2>5. ASSUME NEW k \in DOMAIN pieces, pieces[k].insn.kind \in {"imm32", "disp32"}
        PROVE  RefersTo(pieces[k]) = Address(Func + pieces[k].insn.to)
    <3> DEFINE p == pieces[k]
               x == p.insn
               here == t + p.at + x.size
    <3>1. p \in Piece /\ x \in AnyInsn /\ p.at \in Int /\ x.size \in Int /\ x.to \in Int
      <4>1. p \in Piece
        BY DEF XInv, Copied
      <4>2. x \in AnyInsn /\ p.at \in Int
        BY <4>1 DEF Piece
      <4> QED BY <4>1, <4>2 DEF AnyInsn
    <3>2. x.to \in Refs /\ disp[2] = [dst |-> Func + x.to, src |-> p.at + x.size, pos |-> p.at]
      BY <2>5 DEF XInv, OneOperand, Relative
    <3>3. Func + x.to # 0
      BY <3>2, <2>1 DEF NoNullOperand, Func, Refs
    <3>4. disp[2].dst = Func + x.to /\ disp[2].src = p.at + x.size /\ disp[2].pos = p.at
      BY <3>2
    <3> HIDE DEF x, p
    <3> DEFINE there == Func + x.to
    <3>5. here \in Int /\ here = t + disp[2].src /\ there \in Int /\ there # 0 /\ disp[2].dst = there
      BY <3>1, <3>3, <3>4, <2>t, <2>1
    <3>6. RefersTo(p) = Address(here + Extend(code.fields[2]))
      BY <2>4, <3>3, <3>4 DEF RefersTo, x
    <3> HIDE DEF here, there
    <3>7. Cpu = "x86_64" => Within32bit(here, there)
      BY <2>2, <3>5 DEF PageAvail
    <3>8. code.fields[2] = Field(there - here)
      BY <2>4, <3>5
    <3>9. Address(here + Extend(Field(there - here))) = Address(there)
      BY <3>5, <3>7, <2>1, OperandReaches
    <3> QED BY <3>6, <3>8, <3>9 DEF p, x, there
  <2>6. Address(code.trampoline + dst + REL2G_JUMP_SIZE + Extend(code.fields[1]))
          = Address(Func + code.patch_code_size)
    <3> DEFINE here == t + dst + 5
               there == Func + src
    <3>1. here \in Int /\ here = t + disp[1].src /\ there \in Int /\ there = disp[1].dst /\ there - Func = src
      BY <2>1, <2>3, <2>t
    <3> HIDE DEF here, there
    <3>2. Cpu = "x86_64" => Within32bit(here, there)
      BY <2>2, <3>1 DEF PageAvail
    <3>3. code.fields[1] = Field(there - here)
      BY <2>4, <3>1
    <3>4. Address(here + Extend(Field(there - here))) = Address(there)
      BY <3>1, <3>2, <2>1, OperandReaches
    <3>5. code.patch_code_size = src
      <4>1. src % Word = src
        BY <2>3, X86Assumption DEF MAX_PATCH_CODE_SIZE, MAX_INSN_LEN, REL2G_JUMP_SIZE
      <4>2. code.patch_code_size = Field(there - Func)
        BY <2>4, <3>1
      <4> QED BY <4>1, <4>2, <3>1 DEF Field
    <3> QED BY <2>4, <3>3, <3>4, <3>5 DEF here, there, REL2G_JUMP_SIZE
  <2>7. Address(Func + REL2G_JUMP_SIZE + Extend(code.patch)) = Address(code.to)
    <3> DEFINE here == Func + REL2G_JUMP_SIZE
    <3>1. here \in Int /\ code.to \in Int
      BY <2>1, <2>4, <2>t DEF REL2G_JUMP_SIZE, PatchTarget
    <3>2. Cpu = "x86_64" => Within32bit(here, code.to)
      BY <2>2, <2>4 DEF PageAvail, PatchTarget
    <3>3. code.patch = Field(code.to - here)
      BY <2>4
    <3> HIDE DEF here
    <3>4. Address(here + Extend(Field(code.to - here))) = Address(code.to)
      BY <3>1, <3>2, <2>1, OperandReaches
    <3> QED BY <3>3, <3>4 DEF here
  <2> QED BY <2>5, <2>6, <2>7
<1> QED BY <1>1, X86Invariance, PTL
=============================================================================
