-------------------------- MODULE SmallPartsProofs --------------------------
(***************************************************************************)
(* Theorems about the parts of the library that share no state with the    *)
(* others: DebugLog, RipRelative, Resolve and PrehookFrame.                *)
(***************************************************************************)
EXTENDS DebugLog, PrehookFrame, RipRelative, Resolve, SequenceTheorems, WellFoundedInduction, TLAPS

-----------------------------------------------------------------------------
(* DebugLog *)

\* The parts of the state StreamsClosed is about.
LogTyped ==
  /\ fp = [h \in LogHandles |-> fp[h]]
  /\ calling = [h \in LogHandles |-> calling[h]]
  /\ last = [h \in LogHandles |-> last[h]]

LogInv == LogTyped /\ StreamsClosed

\* What the end of a call does to StreamsClosed: the stream it leaves open is
\* allowed only to funchook_uninstall.
LEMMA LogReturnStep ==
  ASSUME LogInv, NEW h \in LogHandles, NEW op, NEW f, LogReturn(h, op, f),
         f = NULL \/ op = "uninstall"
  PROVE  LogInv'
<1>1. LogTyped'
  BY DEF LogInv, LogTyped, LogReturn
<1>2. StreamsClosed'
  BY DEF LogInv, LogTyped, StreamsClosed, LogReturn
<1> QED BY <1>1, <1>2 DEF LogInv

LEMMA LogStep ==
  ASSUME LogInv, [LogNext]_logVars
  PROVE  LogInv'
<1>1. CASE UNCHANGED logVars
  BY <1>1 DEF logVars, LogInv, LogTyped, StreamsClosed
<1>2. ASSUME NEW name \in LogFiles \cup {NULL}, SetDebugFile(name)
      PROVE  LogInv'
  BY <1>2 DEF SetDebugFile, LogInv, LogTyped, StreamsClosed
<1>3. ASSUME NEW h \in LogHandles, LogCreate(h)
      PROVE  LogInv'
  BY <1>3 DEF LogCreate, LogEnd, LogInv, LogTyped, StreamsClosed
<1>4. ASSUME NEW h \in LogHandles, NEW op \in {"prepare", "install", "uninstall", "destroy"}, LogEnter(h, op)
      PROVE  LogInv'
  <2>1. PICK f \in Logv(fp[h]) : fp' = [fp EXCEPT ![h] = f]
    BY <1>4 DEF LogEnter
  <2>2. op # "none"
    OBVIOUS
  <2>3. LogTyped'
    BY <1>4, <2>1 DEF LogEnter, LogInv, LogTyped
  <2>4. StreamsClosed'
    BY <1>4, <2>1, <2>2 DEF LogEnter, LogInv, LogTyped, StreamsClosed
  <2> QED BY <2>3, <2>4 DEF LogInv
<1>5. ASSUME NEW h \in LogHandles, LogPrepare(h) \/ LogInstall(h)
      PROVE  LogInv'
  <2>1. LogReturn(h, "prepare", NULL) \/ LogReturn(h, "install", NULL)
    BY <1>5 DEF LogPrepare, LogInstall, LogEnd
  <2> QED BY <2>1, LogReturnStep
<1>6. ASSUME NEW h \in LogHandles, LogUninstall(h)
      PROVE  LogInv'
  BY <1>6, LogReturnStep DEF LogUninstall
<1>7. ASSUME NEW h \in LogHandles, LogDestroy(h)
      PROVE  LogInv'
  <2>1. LogReturn(h, "destroy", NULL)
    BY <1>7 DEF LogDestroy, LogEnd
  <2> QED BY <2>1, LogReturnStep
<1> QED BY <1>1, <1>2, <1>3, <1>4, <1>5, <1>6, <1>7 DEF LogNext

\* For any number of handles and files, in every order of calls and whatever
\* other threads do to the debug file: no call but funchook_uninstall leaves a
\* stream open on the handle, and a destroyed handle leaves none.
THEOREM StreamsClosedTheorem == LogSpec => []StreamsClosed
<1>1. LogInit => LogInv
  BY DEF LogInit, LogInv, LogTyped, StreamsClosed
<1>2. LogInv /\ [LogNext]_logVars => LogInv'
  BY LogStep
<1>3. LogInv => StreamsClosed
  BY DEF LogInv
<1> QED BY <1>1, <1>2, <1>3, PTL DEF LogSpec
-----------------------------------------------------------------------------
(* RipRelative *)

RelativeTypes == {"O_PC", "O_RIP"}

\* An instruction, by what Instructions says of it.
RipInsn(n) ==
  /\ X86Shape(n.ops)
  /\ n.suffix \in {0, 1} /\ n.listed \in BOOLEAN /\ (n.listed => n.suffix = 1)
  /\ DOMAIN n.bytes = 1 .. Len(n.bytes)
  /\ Len(n.bytes) = 2 + OpsSize(n.ops, Len(n.ops)) + n.suffix

\* The opcode ends in a byte disasm_distorm.c does not know of.
Unknown(n) == n.suffix = 1 /\ ~n.listed

\* The operands are a sequence of at most four records.
LEMMA OperandsTyped ==
  ASSUME NEW ops, X86Shape(ops)
  PROVE  /\ Len(ops) \in 0 .. 4 /\ DOMAIN ops = 1 .. Len(ops)
         /\ \A j \in DOMAIN ops :
              /\ ops[j].type \in {"O_REG", "O_IMM", "O_PC", "O_RIP", "O_MEM"}
              /\ ops[j].size \in Nat
<1>1. /\ Len(ops) \in Nat /\ Len(ops) <= 4 /\ DOMAIN ops = 1 .. Len(ops)
      /\ \A j \in DOMAIN ops : ops[j] \in OperandRecord
  BY DEF X86Shape
<1>2. \A r \in OperandRecord : /\ r.type \in {"O_REG", "O_IMM", "O_PC", "O_RIP", "O_MEM"}
                                /\ r.size \in Nat
  BY DEF OperandRecord
<1>3. \A j \in DOMAIN ops : /\ ops[j].type \in {"O_REG", "O_IMM", "O_PC", "O_RIP", "O_MEM"}
                             /\ ops[j].size \in Nat
  BY <1>1, <1>2, Zenon
<1> QED BY <1>1, <1>3

\* What each operand adds to the bytes of a set of operands.
TermOf(ops, which, j) == IF j \in which THEN ops[j].size ELSE 0

LEMMA SizeOfTerms ==
  ASSUME NEW ops, X86Shape(ops), NEW which \in SUBSET DOMAIN ops
  PROVE  /\ SizeOf(ops, which) = TermOf(ops, which, 1) + TermOf(ops, which, 2)
                                   + TermOf(ops, which, 3) + TermOf(ops, which, 4)
         /\ \A j \in 1 .. 4 : TermOf(ops, which, j) \in Nat
         /\ SizeOf(ops, which) \in Nat
<1>1. \A j \in DOMAIN ops : ops[j].size \in Nat
  BY OperandsTyped
<1>2. \A j \in 1 .. 4 : TermOf(ops, which, j) \in Nat
  BY <1>1 DEF TermOf
<1>3. SizeOf(ops, which) = TermOf(ops, which, 1) + TermOf(ops, which, 2)
                             + TermOf(ops, which, 3) + TermOf(ops, which, 4)
  BY DEF SizeOf, TermOf
<1> QED BY <1>2, <1>3

\* The relative operand of an instruction, if there is one, is the only one.
LEMMA OneRelative ==
  ASSUME NEW n, RipInsn(n), NEW i \in Relative(n, RelativeTypes)
  PROVE  /\ i \in DOMAIN n.ops /\ n.ops[i].type \in RelativeTypes
         /\ Relative(n, RelativeTypes) = {i}
         /\ \A types \in SUBSET RelativeTypes :
              Relative(n, types) = IF n.ops[i].type \in types THEN {i} ELSE {}
<1>1. i \in DOMAIN n.ops /\ n.ops[i].type \in RelativeTypes
  BY DEF Relative
<1>2. \A j \in DOMAIN n.ops : n.ops[j].type \in RelativeTypes => j = i
  BY <1>1 DEF RipInsn, X86Shape, RelativeTypes
<1> QED BY <1>1, <1>2 DEF Relative

\* Behind the beginning of the relative operand are the operands from it on and
\* the last opcode byte: what the encoding and the estimate of
\* disasm_distorm.c count are the same.
LEMMA RelativeOffset ==
  ASSUME NEW n, RipInsn(n), NEW i \in Relative(n, RelativeTypes)
  PROVE  /\ FieldOffset(n, i) = Len(n.bytes) - n.suffix
                                 - (OpsSize(n.ops, Len(n.ops)) - OpsSize(n.ops, i - 1))
         /\ FieldOffset(n, i) \in Nat
         /\ FieldOffset(n, i) + n.ops[i].size + n.suffix <= Len(n.bytes)
<1> DEFINE ops == n.ops
           inMemory == ops[i].type \in Memory
           imm == {j \in DOMAIN ops : ops[j].type \notin Memory /\ (inMemory \/ j >= i)}
           own == IF inMemory THEN ops[i].size ELSE 0
           all == 1 .. Len(ops)
           before == 1 .. (i - 1)
           term(S, j) == TermOf(ops, S, j)
<1>0. X86Shape(ops)
  BY DEF RipInsn
<1>1. i \in DOMAIN ops /\ ops[i].type \in RelativeTypes
  BY OneRelative
<1>2. /\ Len(ops) \in 0 .. 4 /\ DOMAIN ops = 1 .. Len(ops)
      /\ \A j \in DOMAIN ops : ops[j].size \in Nat
  BY OperandsTyped DEF RipInsn
<1>3. \A j \in DOMAIN ops : /\ (j < i => ops[j].size = 0)
                             /\ (j # i /\ ops[j].type \in Memory => ops[j].size = 0)
  BY <1>1, <1>2 DEF RipInsn, X86Shape, RelativeTypes, Memory
<1>4. /\ all \in SUBSET DOMAIN ops /\ before \in SUBSET DOMAIN ops
      /\ imm \in SUBSET DOMAIN ops
  BY <1>1, <1>2
<1>5. \A j \in 1 .. 4 :
        term(all, j) = term(before, j) + (term(imm, j) + (IF j = i THEN own ELSE 0))
  <2> SUFFICES ASSUME NEW j \in 1 .. 4
               PROVE  term(all, j)
                        = term(before, j) + (term(imm, j) + (IF j = i THEN own ELSE 0))
    OBVIOUS
  <2>1. CASE j \notin DOMAIN ops
    <3>1. term(all, j) = 0 /\ term(before, j) = 0 /\ term(imm, j) = 0 /\ j # i
      BY <1>1, <1>2, <2>1 DEF TermOf
    <3> QED BY <3>1
  <2>2. CASE j \in DOMAIN ops /\ j < i
    <3>1. term(all, j) = 0 /\ term(before, j) = 0 /\ term(imm, j) = 0 /\ j # i
      BY <1>1, <1>2, <1>3, <2>2 DEF TermOf
    <3> QED BY <3>1
  <2>3. CASE j = i
    <3>1. term(all, j) = ops[i].size /\ term(before, j) = 0 /\ ops[i].size \in Nat
      BY <1>1, <1>2, <2>3 DEF TermOf
    <3>2. CASE inMemory
      <4>1. term(imm, j) = 0 /\ own = ops[i].size
        BY <2>3, <3>2 DEF TermOf
      <4> QED BY <2>3, <3>1, <4>1
    <3>3. CASE ~inMemory
      <4>1. term(imm, j) = ops[i].size /\ own = 0
        BY <1>1, <1>2, <2>3, <3>3 DEF TermOf
      <4> QED BY <2>3, <3>1, <4>1
    <3> QED BY <3>2, <3>3
  <2>4. CASE j \in DOMAIN ops /\ j > i
    <3>1. term(all, j) = ops[j].size /\ term(before, j) = 0
          /\ ops[j].size \in Nat /\ j # i
      BY <1>1, <1>2, <2>4 DEF TermOf
    <3>2. term(imm, j) = ops[j].size
      BY <1>1, <1>2, <1>3, <2>4 DEF TermOf
    <3> QED BY <3>1, <3>2
  <2> QED BY <1>1, <1>2, <2>1, <2>2, <2>3, <2>4
<1>6. OpsSize(ops, Len(ops)) - OpsSize(ops, i - 1) = SizeOf(ops, imm) + own
  <2> HIDE DEF all, before, imm, ops, own
  <2>1. SizeOf(ops, all) = term(all, 1) + term(all, 2)
                                      + term(all, 3) + term(all, 4)
    BY <1>4, <1>0, SizeOfTerms
  <2>2. SizeOf(ops, before) = term(before, 1) + term(before, 2)
                                     + term(before, 3) + term(before, 4)
    BY <1>4, <1>0, SizeOfTerms
  <2>3. SizeOf(ops, imm) = term(imm, 1) + term(imm, 2) + term(imm, 3) + term(imm, 4)
    BY <1>4, <1>0, SizeOfTerms
  <2>4. \A j \in 1 .. 4 : /\ term(all, j) \in Nat /\ term(before, j) \in Nat
                           /\ term(imm, j) \in Nat
    BY <1>4, <1>0, SizeOfTerms
  <2>5. i \in 1 .. 4 /\ own \in Nat
    BY <1>1, <1>2 DEF own
  <2>9. OpsSize(ops, Len(ops)) = SizeOf(ops, all) /\ OpsSize(ops, i - 1) = SizeOf(ops, before)
    BY DEF OpsSize, all, before
  <2> HIDE DEF term, inMemory
  <2>6. /\ term(all, 1) = term(before, 1) + (term(imm, 1) + (IF 1 = i THEN own ELSE 0))
        /\ term(all, 2) = term(before, 2) + (term(imm, 2) + (IF 2 = i THEN own ELSE 0))
        /\ term(all, 3) = term(before, 3) + (term(imm, 3) + (IF 3 = i THEN own ELSE 0))
        /\ term(all, 4) = term(before, 4) + (term(imm, 4) + (IF 4 = i THEN own ELSE 0))
    BY <1>5
  <2>7. /\ term(before, 1) \in Nat /\ term(before, 2) \in Nat
        /\ term(before, 3) \in Nat /\ term(before, 4) \in Nat
        /\ term(imm, 1) \in Nat /\ term(imm, 2) \in Nat
        /\ term(imm, 3) \in Nat /\ term(imm, 4) \in Nat
    BY <2>4
  <2>8. (term(all, 1) + term(all, 2) + term(all, 3) + term(all, 4))
          - (term(before, 1) + term(before, 2) + term(before, 3) + term(before, 4))
        = (term(imm, 1) + term(imm, 2) + term(imm, 3) + term(imm, 4)) + own
    <3> DEFINE is(k) == IF k = i THEN own ELSE 0
    <3>1. /\ is(1) \in Nat /\ is(2) \in Nat /\ is(3) \in Nat /\ is(4) \in Nat
          /\ is(1) + is(2) + is(3) + is(4) = own
      BY <2>5
    <3>2. /\ term(all, 1) = term(before, 1) + (term(imm, 1) + is(1))
          /\ term(all, 2) = term(before, 2) + (term(imm, 2) + is(2))
          /\ term(all, 3) = term(before, 3) + (term(imm, 3) + is(3))
          /\ term(all, 4) = term(before, 4) + (term(imm, 4) + is(4))
      BY <2>6
    <3> HIDE DEF is
    <3> QED BY <2>7, <3>1, <3>2
  <2> QED BY <2>1, <2>2, <2>3, <2>8, <2>9
<1>7. FieldOffset(n, i) = Len(n.bytes) - n.suffix - SizeOf(ops, imm) - own
  BY DEF FieldOffset
<1>8. /\ SizeOf(ops, imm) \in Nat /\ own \in Nat
      /\ OpsSize(ops, Len(ops)) \in Nat /\ OpsSize(ops, i - 1) \in Nat
  <2>1. own \in Nat
    BY <1>1, <1>2
  <2>2. \A S \in SUBSET DOMAIN ops : SizeOf(ops, S) \in Nat
    BY <1>0, SizeOfTerms
  <2> QED BY <1>4, <2>1, <2>2 DEF OpsSize
<1>9. n.suffix \in Nat /\ Len(n.bytes) = 2 + OpsSize(ops, Len(ops)) + n.suffix
  BY DEF RipInsn
<1>10. ops[i].size \in Nat /\ ops[i].size <= SizeOf(ops, imm) + own
  <2>1. CASE inMemory
    BY <1>1, <1>2, <1>8, <2>1
  <2>2. CASE ~inMemory
    <3>1. i \in imm /\ own = 0 /\ i \in 1 .. 4
      BY <1>1, <1>2, <2>2
    <3>2. SizeOf(ops, imm) = term(imm, 1) + term(imm, 2) + term(imm, 3) + term(imm, 4)
      BY <1>4, <1>0, SizeOfTerms
    <3>5. \A j \in 1 .. 4 : term(imm, j) \in Nat
      BY <1>4, <1>0, SizeOfTerms
    <3>3. term(imm, i) = ops[i].size
      BY <3>1 DEF TermOf
    <3>4. term(imm, i) <= SizeOf(ops, imm)
      <4> HIDE DEF term, imm, own, inMemory, ops
      <4> QED BY <3>1, <3>2, <3>5
    <3> QED BY <1>1, <1>2, <1>8, <3>1, <3>3, <3>4
  <2> QED BY <2>1, <2>2
<1> HIDE DEF imm, own, inMemory, term, all, before
<1>11. Len(n.bytes) \in Nat
  BY <1>8, <1>9
<1>12. FieldOffset(n, i) = Len(n.bytes) - n.suffix - (OpsSize(ops, Len(ops)) - OpsSize(ops, i - 1))
  BY <1>6, <1>7, <1>8, <1>9, <1>11
<1>13. FieldOffset(n, i) = 2 + OpsSize(ops, i - 1)
  BY <1>8, <1>9, <1>11, <1>12
<1>14. FieldOffset(n, i) + ops[i].size + n.suffix <= Len(n.bytes)
  <2>1. FieldOffset(n, i) \in Nat /\ FieldOffset(n, i) + (SizeOf(ops, imm) + own) + n.suffix = Len(n.bytes)
    <3> DEFINE first == OpsSize(ops, i - 1)
               rest == SizeOf(ops, imm)
    <3>1. FieldOffset(n, i) = 2 + first /\ first \in Nat /\ rest \in Nat /\ own \in Nat
      BY <1>8, <1>13
    <3>2. FieldOffset(n, i) = Len(n.bytes) - n.suffix - rest - own
      BY <1>7
    <3> HIDE DEF first, rest, ops
    <3>3. FieldOffset(n, i) \in Nat /\ n.suffix \in Nat /\ Len(n.bytes) \in Nat
      BY <1>9, <1>11, <3>1
    <3>4. FieldOffset(n, i) + (rest + own) + n.suffix = Len(n.bytes)
      BY <3>1, <3>2, <3>3
    <3> QED BY <3>3, <3>4 DEF rest
  <2> DEFINE behind == SizeOf(ops, imm) + own
             size == ops[i].size
             at == FieldOffset(n, i)
  <2>2. behind \in Nat /\ size \in Nat /\ size <= behind /\ at \in Nat /\ at + behind + n.suffix = Len(n.bytes)
    BY <1>8, <1>10, <2>1
  <2> HIDE DEF behind, size, at
  <2>3. at + size + n.suffix <= Len(n.bytes)
    BY <1>9, <1>11, <2>2
  <2> QED BY <2>3 DEF size, at
<1> QED BY <1>8, <1>12, <1>13, <1>14

\* What a disassembler may report of the relative operand of one of types.
Reported(n, types, rel) == rel \in {Exact(n, types), Estimated(n, types)}

\* The offsets accepted are that of the relative operand of one of types, or the
\* next one if the bytes there are the same.
FixedFor(n, types) ==
  /\ Relative(n, types) = {} => fixed = {}
  /\ \A i \in Relative(n, types) :
       /\ n.ops[i].size = 4
       /\ \/ fixed = {FieldOffset(n, i)}
          \/ /\ fixed = {FieldOffset(n, i) + 1} /\ Unknown(n)
             /\ Read(n, FieldOffset(n, i) + 1, 4) = Read(n, FieldOffset(n, i), 4)

RipInv ==
  /\ ripState \in {"decode", "disp"} => fixed = {}
  /\ ripState # "decode" =>
       RipInsn(insn) /\ Reported(insn, {"O_RIP"}, rel_disp) /\ Reported(insn, {"O_PC"}, rel_imm)
  /\ ripState = "imm" => FixedFor(insn, {"O_RIP"})
  /\ ripState = "accepted" => FixedFor(insn, RelativeTypes)
  /\ ripState = "IP_RELATIVE_OFFSET" => Unknown(insn)

\* Every disassembler reports the size and the value of the operand, and its
\* offset or, for an opcode with an unknown last byte, the one behind it.
LEMMA ReportedSound ==
  ASSUME NEW n, RipInsn(n), NEW types \in SUBSET RelativeTypes, NEW rel, Reported(n, types, rel)
  PROVE  /\ Relative(n, types) = {} => rel.size = 0
         /\ \A i \in Relative(n, types) :
              /\ rel.size = n.ops[i].size /\ rel.size # 0
              /\ rel.raddr = Read(n, FieldOffset(n, i), n.ops[i].size)
              /\ \/ rel.offset = FieldOffset(n, i)
                 \/ Unknown(n) /\ rel.offset = FieldOffset(n, i) + 1
<1>1. Relative(n, types) = {} => rel.size = 0
  BY DEF Reported, Exact, Estimated, NoRelative
<1>2. ASSUME NEW i \in Relative(n, types)
      PROVE  /\ rel.size = n.ops[i].size /\ rel.size # 0
             /\ rel.raddr = Read(n, FieldOffset(n, i), n.ops[i].size)
             /\ \/ rel.offset = FieldOffset(n, i)
                \/ Unknown(n) /\ rel.offset = FieldOffset(n, i) + 1
  <2>1. i \in Relative(n, RelativeTypes)
    BY DEF Relative
  <2>2. Relative(n, types) = {i} /\ i \in DOMAIN n.ops /\ n.ops[i].type \in RelativeTypes
    BY <2>1, OneRelative
  <2>3. i \in Nat
    BY <2>2, OperandsTyped DEF RipInsn
  <2>4. Max({i}) = i
    BY <2>3 DEF Max
  <2>5. n.ops[i].size # 0
    BY <2>2 DEF RipInsn, X86Shape, RelativeTypes
  <2> DEFINE exact == [raddr |-> Read(n, FieldOffset(n, i), n.ops[i].size), size |-> n.ops[i].size,
                       offset |-> FieldOffset(n, i)]
             estimate == Len(n.bytes) - (OpsSize(n.ops, Len(n.ops)) + Suffix(n)) + OpsSize(n.ops, i - 1)
  <2>6. Exact(n, types) = exact
    BY <2>2, <2>4 DEF Exact
  <2>7. Estimated(n, types) = [exact EXCEPT !.offset = estimate]
    BY <2>2, <2>4, <2>6 DEF Estimated
  <2>8. estimate = FieldOffset(n, i) \/ (Unknown(n) /\ estimate = FieldOffset(n, i) + 1)
    <3>1. FieldOffset(n, i) = Len(n.bytes) - n.suffix
                              - (OpsSize(n.ops, Len(n.ops)) - OpsSize(n.ops, i - 1))
      BY <2>1, RelativeOffset
    <3>2. 1 .. Len(n.ops) \in SUBSET DOMAIN n.ops /\ 1 .. (i - 1) \in SUBSET DOMAIN n.ops
      BY <2>2, OperandsTyped DEF RipInsn
    <3>3. /\ OpsSize(n.ops, Len(n.ops)) \in Nat /\ OpsSize(n.ops, i - 1) \in Nat
      BY <3>2, SizeOfTerms DEF RipInsn, OpsSize
    <3>4. n.suffix \in {0, 1} /\ Len(n.bytes) \in Nat
      BY <3>3 DEF RipInsn
    <3>5. (Suffix(n) = n.suffix) \/ (Unknown(n) /\ Suffix(n) = 0 /\ n.suffix = 1)
      BY DEF Suffix, Unknown, RipInsn
    <3>6. \A l, t, b \in Nat :
            /\ \A x \in Nat : (l - (t + x)) + b = l - x - (t - b)
            /\ (l - (t + 0)) + b = (l - 1 - (t - b)) + 1
      OBVIOUS
    <3>7. CASE Suffix(n) = n.suffix
      BY <3>1, <3>3, <3>4, <3>6, <3>7
    <3>8. CASE Unknown(n) /\ Suffix(n) = 0 /\ n.suffix = 1
      BY <3>1, <3>3, <3>4, <3>6, <3>8
    <3> QED BY <3>5, <3>7, <3>8
  <2> HIDE DEF estimate
  <2>9. rel = exact \/ rel = [exact EXCEPT !.offset = estimate]
    BY <2>6, <2>7 DEF Reported
  <2> QED BY <2>5, <2>8, <2>9
<1> QED BY <1>1, <1>2

\* handle_rip_relative goes on only with the right bytes.
LEMMA HandleStep ==
  ASSUME RipInsn(insn), NEW types \in SUBSET RelativeTypes, NEW rel, Reported(insn, types, rel),
         NEW next, HandleRipRelative(rel, next)
  PROVE  /\ UNCHANGED <<insn, rel_disp, rel_imm>>
         /\ ripState' \in {next, "IP_RELATIVE_OFFSET", "CANNOT_FIX_IP_RELATIVE"}
         /\ ripState' = "IP_RELATIVE_OFFSET" /\ next # "IP_RELATIVE_OFFSET" => Unknown(insn)
         /\ ripState' = next /\ next \notin {"IP_RELATIVE_OFFSET", "CANNOT_FIX_IP_RELATIVE"} =>
              /\ Relative(insn, types) = {} => UNCHANGED fixed
              /\ fixed = {} => FixedFor(insn, types)'
<1>1. /\ Relative(insn, types) = {} => rel.size = 0
      /\ \A i \in Relative(insn, types) :
           /\ rel.size = insn.ops[i].size /\ rel.size # 0
           /\ rel.raddr = Read(insn, FieldOffset(insn, i), insn.ops[i].size)
           /\ \/ rel.offset = FieldOffset(insn, i)
              \/ Unknown(insn) /\ rel.offset = FieldOffset(insn, i) + 1
  BY ReportedSound
<1>2. UNCHANGED <<insn, rel_disp, rel_imm>>
  BY DEF HandleRipRelative
<1>3. CASE rel.size = 0 /\ ripState' = next /\ UNCHANGED fixed
  BY <1>1, <1>2, <1>3 DEF FixedFor
<1>4. CASE rel.size = 4 /\ Read(insn, rel.offset, 4) = rel.raddr /\ ripState' = next
           /\ fixed' = fixed \cup {rel.offset}
  BY <1>1, <1>2, <1>4 DEF FixedFor
<1>5. CASE /\ rel.size # 0 /\ (rel.size = 4 => Read(insn, rel.offset, 4) # rel.raddr)
           /\ ripState' = IF rel.size = 4 THEN "IP_RELATIVE_OFFSET" ELSE "CANNOT_FIX_IP_RELATIVE"
           /\ UNCHANGED fixed
  BY <1>1, <1>2, <1>5
<1> QED BY <1>3, <1>4, <1>5 DEF HandleRipRelative

\* Instructions, by their records.
LEMMA InstructionTyped ==
  ASSUME NEW ops \in Shapes, NEW suffix \in {0, 1}, NEW n \in Instructions(ops, suffix)
  PROVE  RipInsn(n)
<1>1. X86Shape(ops)
  BY RipRelativeAssumption
<1> DEFINE len == OpsSize(ops, Len(ops)) + suffix
<1>2. /\ n.ops = ops /\ n.suffix = suffix /\ n.listed \in (IF suffix = 1 THEN BOOLEAN ELSE {FALSE})
      /\ n.bytes \in {<<OpByte, OpByte>> \o t : t \in [1 .. len -> Bytes]}
  BY DEF Instructions
<1>3. PICK tail \in [1 .. len -> Bytes] : n.bytes = <<OpByte, OpByte>> \o tail
  BY <1>2
<1>4. OpsSize(ops, Len(ops)) \in Nat
  <2>1. 1 .. Len(ops) \in SUBSET DOMAIN ops
    BY <1>1, OperandsTyped
  <2> QED BY <1>1, <2>1, SizeOfTerms DEF OpsSize
<1>5. len \in Nat
  BY <1>4
<1> HIDE DEF len
<1>6. tail \in Seq(Bytes) /\ Len(tail) = len
  BY <1>3, <1>5
<1>7. <<OpByte, OpByte>> \in Seq(Int) /\ Len(<<OpByte, OpByte>>) = 2
  BY DEF OpByte
<1>8. /\ Len(<<OpByte, OpByte>> \o tail) = 2 + len
      /\ DOMAIN (<<OpByte, OpByte>> \o tail) = 1 .. Len(<<OpByte, OpByte>> \o tail)
  BY <1>6, <1>7
<1>9. 2 + len = 2 + OpsSize(ops, Len(ops)) + suffix
  BY <1>4 DEF len
<1>10. n.listed \in BOOLEAN /\ (n.listed => suffix = 1)
  BY <1>2
<1> QED BY <1>1, <1>2, <1>8, <1>9, <1>3, <1>10 DEF RipInsn

LEMMA RipStep ==
  ASSUME RipInv, [RipNext]_ripVars
  PROVE  RipInv'
<1>1. CASE UNCHANGED ripVars
  BY <1>1 DEF ripVars, RipInv, FixedFor
<1>2. ASSUME ripState = "decode", NEW d \in Disassemblers, NEW ops \in Shapes, NEW suffix \in {0, 1},
             NEW n \in Instructions(ops, suffix), Disassemble(d, n)
      PROVE  RipInv'
  <2>1. RipInsn(n) /\ insn' = n /\ ripState' = "disp" /\ fixed' = {}
    BY <1>2, InstructionTyped DEF Disassemble, RipInv
  <2>2. Reported(n, {"O_RIP"}, rel_disp') /\ Reported(n, {"O_PC"}, rel_imm')
    BY <1>2 DEF Disassemble, Reported
  <2> QED BY <2>1, <2>2 DEF RipInv
<1>3. CASE HandleDisp
  <2>1. RipInsn(insn) /\ Reported(insn, {"O_RIP"}, rel_disp) /\ fixed = {}
    BY <1>3 DEF HandleDisp, RipInv
  <2>2. HandleRipRelative(rel_disp, "imm") /\ {"O_RIP"} \in SUBSET RelativeTypes
    BY <1>3 DEF HandleDisp, RelativeTypes
  <2>3. /\ UNCHANGED <<insn, rel_disp, rel_imm>>
        /\ ripState' \in {"imm", "IP_RELATIVE_OFFSET", "CANNOT_FIX_IP_RELATIVE"}
        /\ ripState' = "IP_RELATIVE_OFFSET" => Unknown(insn)
        /\ ripState' = "imm" =>
             /\ Relative(insn, {"O_RIP"}) = {} => UNCHANGED fixed
             /\ fixed = {} => FixedFor(insn, {"O_RIP"})'
    BY <2>1, <2>2, HandleStep
  <2> QED BY <1>3, <2>1, <2>3 DEF RipInv, HandleDisp
<1>4. CASE HandleImm
  <2>1. RipInsn(insn) /\ Reported(insn, {"O_PC"}, rel_imm) /\ FixedFor(insn, {"O_RIP"})
    BY <1>4 DEF HandleImm, RipInv
  <2>2. HandleRipRelative(rel_imm, "accepted") /\ {"O_PC"} \in SUBSET RelativeTypes
    BY <1>4 DEF HandleImm, RelativeTypes
  <2>3. /\ UNCHANGED <<insn, rel_disp, rel_imm>>
        /\ ripState' \in {"accepted", "IP_RELATIVE_OFFSET", "CANNOT_FIX_IP_RELATIVE"}
        /\ ripState' = "IP_RELATIVE_OFFSET" => Unknown(insn)
        /\ ripState' = "accepted" =>
             /\ Relative(insn, {"O_PC"}) = {} => UNCHANGED fixed
             /\ fixed = {} => FixedFor(insn, {"O_PC"})'
    BY <2>1, <2>2, HandleStep
  <2>4. ASSUME ripState' = "accepted"
        PROVE  FixedFor(insn, RelativeTypes)'
    <3>1. Relative(insn, RelativeTypes) = Relative(insn, {"O_PC"}) \cup Relative(insn, {"O_RIP"})
      BY DEF Relative, RelativeTypes
    <3>2. CASE Relative(insn, {"O_PC"}) = {}
      BY <2>1, <2>3, <2>4, <3>1, <3>2 DEF FixedFor
    <3>3. CASE Relative(insn, {"O_PC"}) # {}
      <4>1. Relative(insn, {"O_RIP"}) = {}
        <5>1. PICK i \in Relative(insn, {"O_PC"}) : TRUE
          BY <3>3
        <5>2. i \in Relative(insn, RelativeTypes) /\ insn.ops[i].type = "O_PC"
          BY <3>1, <5>1 DEF Relative
        <5>3. Relative(insn, {"O_RIP"}) = IF insn.ops[i].type \in {"O_RIP"} THEN {i} ELSE {}
          BY <2>1, <5>2, OneRelative DEF RelativeTypes
        <5> QED BY <5>2, <5>3
      <4>2. fixed = {}
        BY <2>1, <4>1 DEF FixedFor
      <4> QED BY <2>3, <2>4, <3>1, <4>1, <4>2 DEF FixedFor
    <3> QED BY <3>2, <3>3
  <2> QED BY <1>4, <2>3, <2>4 DEF RipInv, HandleImm
<1> QED BY <1>1, <1>2, <1>3, <1>4 DEF RipNext

\* The bytes at the offset behind the operand are the same only if the operand
\* and the last opcode byte are one byte repeated.
LEMMA RipInvSound ==
  ASSUME RipInv
  PROVE  OperandFound
<1> DEFINE fields == {FieldOffset(insn, i) : i \in Relative(insn, {"O_PC", "O_RIP"})}
<1>1. ripState = "IP_RELATIVE_OFFSET" => insn.suffix = 1 /\ ~insn.listed
  BY DEF RipInv, Unknown
<1>2. ASSUME ripState = "accepted", Relative(insn, RelativeTypes) = {}
      PROVE  fixed = {} /\ fields = {}
  BY <1>2 DEF RipInv, FixedFor, RelativeTypes
<1>3. ASSUME ripState = "accepted", NEW i \in Relative(insn, RelativeTypes)
      PROVE  /\ fixed # {} /\ fields # {}
             /\ \/ fixed \subseteq fields
                \/ /\ insn.suffix = 1 /\ ~insn.listed
                   /\ \A o \in fields : \A k \in 1 .. 4 : insn.bytes[o + k + 1] = insn.bytes[o + k]
  <2>1. RipInsn(insn) /\ FixedFor(insn, RelativeTypes)
    BY <1>3 DEF RipInv
  <2>2. Relative(insn, RelativeTypes) = {i}
    BY <2>1, OneRelative
  <2>3. fields = {FieldOffset(insn, i)}
    BY <2>2 DEF RelativeTypes
  <2>4. insn.ops[i].size = 4
    BY <2>1 DEF FixedFor
  <2>5. CASE fixed = {FieldOffset(insn, i)}
    BY <2>3, <2>5
  <2>6. CASE /\ fixed = {FieldOffset(insn, i) + 1} /\ Unknown(insn)
             /\ Read(insn, FieldOffset(insn, i) + 1, 4) = Read(insn, FieldOffset(insn, i), 4)
    <3> DEFINE F == FieldOffset(insn, i)
    <3>1. F \in Nat /\ F + 4 + 1 <= Len(insn.bytes) /\ DOMAIN insn.bytes = 1 .. Len(insn.bytes)
      BY <2>1, <2>4, <2>6, RelativeOffset DEF RipInsn, Unknown
    <3>2. Len(insn.bytes) \in Nat
      <4>1. 1 .. Len(insn.ops) \in SUBSET DOMAIN insn.ops
        BY <2>1, OperandsTyped DEF RipInsn
      <4>2. OpsSize(insn.ops, Len(insn.ops)) \in Nat
        BY <2>1, <4>1, SizeOfTerms DEF RipInsn, OpsSize
      <4> QED BY <2>1, <4>2 DEF RipInsn
    <3> HIDE DEF F
    <3>3. ASSUME NEW k \in 1 .. 4
          PROVE  insn.bytes[F + k + 1] = insn.bytes[F + k]
      <4>1. F + k \in 1 .. Len(insn.bytes) /\ (F + 1) + k \in 1 .. Len(insn.bytes) /\ (F + 1) + k = F + k + 1
        BY <3>1, <3>2
      <4>2. Read(insn, F, 4)[k] = insn.bytes[F + k] /\ Read(insn, F + 1, 4)[k] = insn.bytes[(F + 1) + k]
        BY <3>1, <4>1 DEF Read
      <4>3. Read(insn, F + 1, 4) = Read(insn, F, 4)
        BY <2>6 DEF F
      <4> QED BY <4>1, <4>2, <4>3
    <3> QED BY <2>3, <2>6, <3>3 DEF Unknown, F
  <2> QED BY <2>1, <2>5, <2>6 DEF FixedFor
<1> HIDE DEF fields
<1>4. ripState = "accepted" => /\ (fixed = {}) <=> (fields = {})
                               /\ \/ fixed \subseteq fields
                                  \/ /\ insn.suffix = 1 /\ ~insn.listed
                                     /\ \A o \in fields : \A k \in 1 .. 4 :
                                          insn.bytes[o + k + 1] = insn.bytes[o + k]
  BY <1>2, <1>3
<1> QED BY <1>1, <1>4 DEF OperandFound, fields

\* For all operand lists of x86 and all values of their bytes, with each of the
\* disassemblers: funchook_make_trampoline goes on only if what it rewrites is
\* the relative operand, or has the same bytes, and the check of
\* handle_rip_relative refuses only opcodes the list of disasm_distorm.c lacks.
THEOREM OperandFoundTheorem == RipSpec => []OperandFound
<1>1. RipInit => RipInv
  BY DEF RipInit, RipInv
<1>2. RipInv /\ [RipNext]_ripVars => RipInv'
  BY RipStep
<1>3. RipInv => OperandFound
  BY RipInvSound
<1> QED BY <1>1, <1>2, <1>3, PTL DEF RipSpec
-----------------------------------------------------------------------------
(* Resolve *)

\* A set of numbers has a smallest one.
LEMMA MinNat ==
  ASSUME NEW S \in SUBSET Nat, S # {}
  PROVE  Min(S) \in S /\ \A y \in S : Min(S) <= y
<1> DEFINE R == OpToRel(<, Nat)
<1>1. IsWellFoundedOn(R, Nat)
  BY NatLessThanWellFounded
<1>2. \A x, y \in Nat : y < x => <<y, x>> \in R
  BY DEF OpToRel
<1> HIDE DEF R
<1>3. \E x \in S : \A y \in S : ~ (<<y, x>> \in R)
  BY <1>1, WFMin
<1>4. \E x \in S : \A y \in S : x <= y
  <2>1. PICK x \in S : \A y \in S : ~ (<<y, x>> \in R)
    BY <1>3
  <2>2. ASSUME NEW y \in S
        PROVE  x <= y
    <3>1. x \in Nat /\ y \in Nat /\ ~(y < x)
      BY <1>2, <2>1
    <3> QED BY <3>1
  <2> QED BY <2>2
<1> QED BY <1>4 DEF Min

\* The records of a program.
LEMMA ProgramTyped ==
  ASSUME NEW p, UnixProgram(p)
  PROVE  /\ Len(p.objects) \in Nat /\ DOMAIN p.objects = 1 .. Len(p.objects)
         /\ 1 \in DOMAIN p.objects /\ p.self \in DOMAIN p.objects /\ p.func \in Nat /\ p.func # 0
         /\ \A o \in DOMAIN p.objects :
              /\ p.objects[o].l_addr \in Nat
              /\ Len(p.objects[o].syms) \in Nat
              /\ DOMAIN p.objects[o].syms = 1 .. Len(p.objects[o].syms)
              /\ \A i \in DOMAIN p.objects[o].syms :
                   /\ p.objects[o].syms[i].value \in Nat
                   /\ p.objects[o].syms[i].end \in BOOLEAN
<1>1. /\ Len(p.objects) \in Nat /\ DOMAIN p.objects = 1 .. Len(p.objects)
      /\ p.self \in DOMAIN p.objects /\ p.func \in Nat /\ p.func # 0
      /\ \A o \in DOMAIN p.objects : p.objects[o] \in ObjectRecord
  BY DEF UnixProgram
<1>2. \A o \in DOMAIN p.objects : p.objects[o].l_addr \in Nat /\ p.objects[o].syms \in Seq(SymbolRecord)
  BY <1>1 DEF ObjectRecord
<1>3. \A o \in DOMAIN p.objects :
        /\ Len(p.objects[o].syms) \in Nat
        /\ DOMAIN p.objects[o].syms = 1 .. Len(p.objects[o].syms)
        /\ \A i \in DOMAIN p.objects[o].syms : p.objects[o].syms[i] \in SymbolRecord
  BY <1>2
<1>4. \A s \in SymbolRecord : s.value \in Nat /\ s.end \in BOOLEAN
  BY DEF SymbolRecord
<1>5. 1 \in DOMAIN p.objects
  BY <1>1
<1> QED BY <1>1, <1>2, <1>3, <1>4, <1>5

\* What is done with a program that has an address.
LEMMA LinkMapFound ==
  ASSUME NEW p, UnixProgram(p)
  PROVE  /\ LinkMap(p) # 0 => LinkMap(p) \in DOMAIN p.objects /\ p.objects[LinkMap(p)].l_addr <= p.func
         /\ p.objects[1].l_addr = 0 => LinkMap(p) = 1
         /\ LinkMap(p) # 0 /\ p.objects[LinkMap(p)].l_addr = 0 => LinkMap(p) = 1
<1> DEFINE below  == {o \in DOMAIN p.objects : p.objects[o].l_addr <= p.func}
           lowest == {o \in below : \A q \in below : p.objects[o].l_addr <= p.objects[q].l_addr}
<1>1. /\ DOMAIN p.objects \in SUBSET Nat /\ 1 \in DOMAIN p.objects /\ \A o \in DOMAIN p.objects : 1 <= o
      /\ \A o \in DOMAIN p.objects : p.objects[o].l_addr \in Nat
      /\ p.func \in Nat
  BY ProgramTyped
<1>2. LinkMap(p) = IF below = {} THEN 0 ELSE Min(lowest)
  BY DEF LinkMap
<1>3. ASSUME below # {}
      PROVE  lowest # {}
  <2> DEFINE addrs == {p.objects[o].l_addr : o \in below}
  <2>1. addrs \in SUBSET Nat /\ addrs # {}
    BY <1>1, <1>3
  <2>2. Min(addrs) \in addrs /\ \A a \in addrs : Min(addrs) <= a
    BY <2>1, MinNat
  <2>3. PICK o \in below : p.objects[o].l_addr = Min(addrs)
    BY <2>2
  <2> QED BY <2>2, <2>3
<1>4. lowest \in SUBSET Nat
  BY <1>1
<1>5. below # {} => Min(lowest) \in lowest /\ \A o \in lowest : Min(lowest) <= o
  BY <1>3, <1>4, MinNat
<1>6. LinkMap(p) # 0 => LinkMap(p) \in DOMAIN p.objects /\ p.objects[LinkMap(p)].l_addr <= p.func
  BY <1>2, <1>5
<1>7. ASSUME p.objects[1].l_addr = 0
      PROVE  LinkMap(p) = 1
  <2>1. 1 \in below
    BY <1>1, <1>7
  <2>2. 1 \in lowest
    BY <1>1, <1>7, <2>1
  <2>3. Min(lowest) \in DOMAIN p.objects /\ Min(lowest) <= 1 /\ LinkMap(p) = Min(lowest)
    BY <1>2, <1>5, <2>1, <2>2
  <2>4. Min(lowest) \in Nat /\ 1 <= Min(lowest)
    BY <1>1, <2>3
  <2> HIDE DEF lowest
  <2> QED BY <2>3, <2>4
<1>8. LinkMap(p) # 0 /\ p.objects[LinkMap(p)].l_addr = 0 => LinkMap(p) = 1
  BY <1>6 DEF UnixProgram
<1> QED BY <1>6, <1>7, <1>8

\* What ResolvedRuns says of a result with glibc, and on Windows.
UnixRuns(p, r) ==
  LET early == \E n \in PltNames(p) : Definers(p, n) # {} /\ Min(Definers(p, n)) <= p.self
  IN  early \/ Unsized(p) # {} \/
        r \in RunsUnix(p) \cup
          (IF p.objects[1].l_addr = 0 /\ RunsUnix(p) # {} THEN {} ELSE {p.func})

WindowsRuns(p, r) ==
  r \in RunsWindows(p) \cup
    (IF /\ p.module /\ SlotsUsed(p) \cap p.iat # {}
        /\ p.cpu = "arm64" =>
             p.code[p.func].op = "indirect" /\ \A a \in SlotsUsed(p) : a >= p.func
     THEN {} ELSE {p.func})

\* The address given is right if the program has no PLT entry there.
LEMMA NothingFound ==
  ASSUME NEW p, UnixProgram(p),
         p.objects[1].l_addr = 0 =>
           \A i \in DOMAIN p.objects[1].syms :
             p.objects[1].syms[i].end \/ ~Matches(p.objects[1].syms[i], p.func)
  PROVE  UnixRuns(p, p.func)
<1>1. SUFFICES ASSUME p.objects[1].l_addr = 0, RunsUnix(p) # {}
               PROVE  FALSE
  BY DEF UnixRuns
<1>2. PltNames(p) # {}
  BY <1>1 DEF RunsUnix
<1>3. PICK q \in Symbols(p, 1) : ~q.defined /\ q.func /\ q.value # 0 /\ p.objects[1].l_addr + q.value = p.func
  BY <1>2 DEF PltNames
<1>4. PICK i \in DOMAIN p.objects[1].syms : q = p.objects[1].syms[i] /\ ~q.end
  BY <1>3 DEF Symbols
<1>5. q.value \in Nat /\ q.value = p.func
  BY <1>1, <1>3, <1>4, ProgramTyped
<1>6. q.size = 0
  BY <1>3, <1>4, ProgramTyped DEF UnixProgram
<1> QED BY <1>1, <1>3, <1>4, <1>5, <1>6 DEF Matches

\* An address the dynamic linker finds in an object is not NULL.
LEMMA AddressNotNull ==
  ASSUME NEW p, UnixProgram(p), NEW o \in DOMAIN p.objects, NEW name, Found(p, o, name) # {}
  PROVE  Address(p, o, name) # NoFunc
<1> DEFINE s == CHOOSE q \in Found(p, o, name) : TRUE
<1>1. s \in Found(p, o, name)
  OBVIOUS
<1>2. \E i \in DOMAIN p.objects[o].syms : s = p.objects[o].syms[i]
  BY <1>1 DEF Found, Symbols
<1>3. s.value \in Nat /\ s.value # 0 /\ p.objects[o].l_addr \in Nat
  <2>1. s.value # 0
    BY <1>1 DEF Found
  <2> HIDE DEF s
  <2>2. s.value \in Nat /\ p.objects[o].l_addr \in Nat
    BY <1>2, ProgramTyped
  <2> QED BY <2>1, <2>2
<1>4. Address(p, o, name) = p.objects[o].l_addr + s.value
  BY DEF Address
<1> HIDE DEF s
<1> QED BY <1>3, <1>4, ResolveAssumption

\* The symbol the loop stops at: a function of size 0 which the program defines,
\* or its PLT entry, for which dlsym finds what the dynamic linker does.
LEMMA EntryFound ==
  ASSUME NEW p, UnixProgram(p), LinkMap(p) # 0,
         NEW i \in DOMAIN p.objects[LinkMap(p)].syms,
         ~p.objects[LinkMap(p)].syms[i].end,
         Matches(p.objects[LinkMap(p)].syms[i], p.func)
  PROVE  UnixRuns(p, Dlsym(p, p.objects[LinkMap(p)].syms[i].name))
<1> DEFINE s == p.objects[LinkMap(p)].syms[i]
           n == s.name
<1>1. LinkMap(p) = 1 /\ p.objects[1].l_addr = 0
  <2>1. LinkMap(p) \in DOMAIN p.objects /\ p.objects[LinkMap(p)].l_addr <= p.func
    BY LinkMapFound
  <2>2. p.objects[LinkMap(p)].l_addr # 0 => s.value < p.objects[LinkMap(p)].l_addr
    BY <2>1 DEF UnixProgram
  <2>3. s.value = p.func
    BY DEF Matches
  <2>4. p.objects[LinkMap(p)].l_addr \in Nat /\ p.func \in Nat
    BY <2>1, ProgramTyped
  <2>5. p.objects[LinkMap(p)].l_addr = 0
    BY <2>1, <2>2, <2>3, <2>4
  <2> QED BY <2>5, LinkMapFound
<1>2. /\ s = p.objects[1].syms[i] /\ i \in DOMAIN p.objects[1].syms /\ ~s.end
      /\ s.func /\ s.size = 0 /\ s.value = p.func /\ s.value # 0 /\ p.func \in Nat
  BY <1>1, ProgramTyped DEF Matches
<1>3. s \in Symbols(p, 1)
  BY <1>2 DEF Symbols
<1>4. CASE s.defined
  BY <1>2, <1>3, <1>4 DEF UnixRuns, Unsized
<1>5. CASE ~s.defined
  <2>1. \A j \in DOMAIN p.objects[1].syms :
          LET q == p.objects[1].syms[j]
          IN  /\ ~q.end /\ q.value # 0
              /\ q.name = n \/ (~q.defined /\ q.value = p.func)
              => q = s
    <3> DEFINE t == p.objects[1].syms
    <3>1. \A j, k \in DOMAIN t :
            /\ ~t[j].end /\ t[j].value # 0 /\ ~t[k].end /\ t[k].value # 0
            /\ \/ t[j].name = t[k].name
               \/ ~t[j].defined /\ ~t[k].defined /\ t[j].value = t[k].value
            => j = k
      BY DEF UnixProgram
    <3>2. s = t[i] /\ i \in DOMAIN t
      BY <1>2
    <3> HIDE DEF s, t
    <3>3. \A j \in DOMAIN t : ~t[j].end /\ t[j].value # 0 /\ (t[j].name = n \/ (~t[j].defined /\ t[j].value = p.func)) => t[j] = s
      BY <1>2, <1>5, <3>1, <3>2
    <3> QED BY <3>3 DEF t
  <2> HIDE DEF s
  <2>2. PltNames(p) = {n}
    <3>1. n \in PltNames(p)
      BY <1>1, <1>2, <1>3, <1>5 DEF PltNames
    <3>2. ASSUME NEW q \in Symbols(p, 1), ~q.defined, q.value # 0, p.objects[1].l_addr + q.value = p.func
          PROVE  q = s
      <4>1. PICK j \in DOMAIN p.objects[1].syms : q = p.objects[1].syms[j] /\ ~q.end
        BY <3>2 DEF Symbols
      <4>2. q.value = p.func
        BY <1>1, <3>2, <4>1, ProgramTyped
      <4> QED BY <2>1, <3>2, <4>1, <4>2
    <3> QED BY <3>1, <3>2 DEF PltNames
  <2>3. Found(p, 1, n) = {s}
    <3>1. s \in Found(p, 1, n)
      BY <1>2, <1>3 DEF Found
    <3>2. ASSUME NEW q \in Found(p, 1, n)
          PROVE  q = s
      BY <2>1 DEF Found, Symbols
    <3> QED BY <3>1, <3>2
  <2>4. DOMAIN p.objects = 1 .. Len(p.objects) /\ Len(p.objects) \in Nat /\ 1 \in DOMAIN p.objects
        /\ p.self \in DOMAIN p.objects
    BY ProgramTyped
  <2>5. DlsymDefault(p, n) = p.func
    <3> DEFINE having == {o \in 1 .. Len(p.objects) : Found(p, o, n) # {}}
    <3>1. 1 \in having /\ having \in SUBSET Nat /\ \A o \in having : 1 <= o
      <4>1. 1 \in 1 .. Len(p.objects) /\ Found(p, 1, n) # {}
        BY <2>3, <2>4
      <4>2. 1 .. Len(p.objects) \in SUBSET Nat /\ \A o \in 1 .. Len(p.objects) : 1 <= o
        BY <2>4
      <4> QED BY <4>1, <4>2
    <3>2. Min(having) \in having /\ Min(having) <= 1
      BY <3>1, MinNat
    <3>3. Min(having) = 1
      BY <3>1, <3>2
    <3>4. Address(p, 1, n) = p.func
      <4>1. (CHOOSE q \in {s} : TRUE) = s
        OBVIOUS
      <4>2. Address(p, 1, n) = 0 + s.value
        BY <1>1, <2>3, <4>1 DEF Address
      <4> QED BY <1>2, <4>2
    <3> QED BY <3>1, <3>3, <3>4 DEF DlsymDefault, DlsymFrom
  <2> DEFINE having == {o \in (p.self + 1) .. Len(p.objects) : Found(p, o, n) # {}}
  <2>6. Dlsym(p, n) = IF DlsymNext(p, n) = NoFunc THEN p.func ELSE DlsymNext(p, n)
    BY <2>5 DEF Dlsym
  <2>7. DlsymNext(p, n) = IF having = {} THEN NoFunc ELSE Address(p, Min(having), n)
    BY DEF DlsymNext, DlsymFrom
  <2>8. \A o \in DOMAIN p.objects : o # 1 /\ Found(p, o, n) # {} => o \in Definers(p, n)
    <3>1. ASSUME NEW o \in DOMAIN p.objects, o # 1, Found(p, o, n) # {}
          PROVE  o \in Definers(p, n)
      <4>1. PICK q \in Found(p, o, n) : TRUE
        BY <3>1
      <4>2. PICK j \in DOMAIN p.objects[o].syms : q = p.objects[o].syms[j] /\ ~q.end /\ q.value # 0
        BY <4>1 DEF Found, Symbols
      <4>3. q.defined
        BY <3>1, <4>2 DEF UnixProgram
      <4> QED BY <4>1, <4>3 DEF Definers
    <3> QED BY <3>1
  <2>9. having \subseteq Definers(p, n)
    <3>1. ASSUME NEW o \in having
          PROVE  o \in Definers(p, n)
      <4>1. o \in DOMAIN p.objects /\ o # 1 /\ Found(p, o, n) # {}
        BY <2>4, <3>1
      <4> QED BY <2>8, <4>1
    <3> QED BY <3>1
  <2>10. CASE Definers(p, n) = {}
    <3>1. RunsUnix(p) = {}
      BY <2>2, <2>10 DEF RunsUnix
    <3>2. Dlsym(p, n) = p.func
      BY <2>6, <2>7, <2>9, <2>10
    <3> QED BY <3>1, <3>2 DEF UnixRuns, s
  <2>11. CASE Definers(p, n) # {} /\ Min(Definers(p, n)) <= p.self
    BY <2>2, <2>11 DEF UnixRuns
  <2>12. CASE Definers(p, n) # {} /\ ~(Min(Definers(p, n)) <= p.self)
    <3>1. Definers(p, n) \in SUBSET DOMAIN p.objects /\ DOMAIN p.objects \in SUBSET Nat
      BY <2>4 DEF Definers
    <3>2. Min(Definers(p, n)) \in Definers(p, n) /\ \A o \in Definers(p, n) : Min(Definers(p, n)) <= o
      BY <2>12, <3>1, MinNat
    <3>3. ASSUME NEW o \in Definers(p, n)
          PROVE  o \in having
      <4>1. /\ o \in Nat /\ o <= Len(p.objects) /\ Min(Definers(p, n)) \in Nat /\ p.self \in Nat
            /\ Min(Definers(p, n)) <= o /\ ~(Min(Definers(p, n)) <= p.self)
        BY <2>4, <2>12, <3>1, <3>2
      <4>2. o \in (p.self + 1) .. Len(p.objects)
        BY <2>4, <4>1
      <4>3. Found(p, o, n) # {}
        BY DEF Definers
      <4> QED BY <4>2, <4>3
    <3>4. having = Definers(p, n)
      BY <2>9, <3>3
    <3> DEFINE o == Min(Definers(p, n))
    <3>5. o \in DOMAIN p.objects /\ Found(p, o, n) # {}
      BY <3>1, <3>2, <3>4
    <3>6. DlsymNext(p, n) = Address(p, o, n) /\ Address(p, o, n) # NoFunc
      BY <2>7, <2>12, <3>4, <3>5, AddressNotNull
    <3>7. Dlsym(p, n) = Address(p, o, n)
      BY <2>6, <3>6
    <3>8. Address(p, o, n) \in RunsUnix(p)
      BY <2>2, <2>12 DEF RunsUnix
    <3> QED BY <3>7, <3>8 DEF UnixRuns, s
  <2> QED BY <2>10, <2>11, <2>12
<1> QED BY <1>4, <1>5

\* Pages and the places in them.
LEMMA PageFacts ==
  ASSUME NEW a \in Nat
  PROVE  /\ a \div ImagePage \in Nat /\ a % ImagePage \in Nat /\ a % ImagePage < ImagePage
         /\ PageOfAddress(a) = ImagePage * (a \div ImagePage)
         /\ a = ImagePage * (a \div ImagePage) + (a % ImagePage)
BY ResolveAssumption DEF PageOfAddress

\* What adrp and ldr encode of a slot, read with the immediate taken as
\* unsigned: the slot, or an address too far away to be one of the module's.
LEMMA Arm64Slot ==
  ASSUME NEW fn \in Nat, NEW c, c.op = "indirect", c.to \in Nat,
         NEW d, d = (c.to \div ImagePage) - (fn \div ImagePage),
         -AdrpPages <= 2 * d, 2 * d < AdrpPages
  PROVE  LET pos == SlotAddress("arm64", fn, Operand("arm64", fn, c))
         IN  /\ d >= 0 => pos = c.to
             /\ d < 0 => c.to < fn /\ pos \div ImagePage = (c.to \div ImagePage) + AdrpPages
<1> DEFINE x == c.to \div ImagePage
           y == fn \div ImagePage
           r == c.to % ImagePage
           pos == SlotAddress("arm64", fn, Operand("arm64", fn, c))
<1>1. ImagePage \in Nat \ {0} /\ AdrpPages \in Nat \ {0}
  BY ResolveAssumption
<1>2. /\ x \in Nat /\ y \in Nat /\ r \in Nat /\ r < ImagePage
      /\ PageOfAddress(c.to) = ImagePage * x /\ PageOfAddress(fn) = ImagePage * y
      /\ c.to = ImagePage * x + r
  BY PageFacts
<1>3. d = x - y /\ d \in Int
  BY <1>2
<1>4. Operand("arm64", fn, c) =
        [imm |-> ((PageOfAddress(c.to) - PageOfAddress(fn)) \div ImagePage) % AdrpPages, imm12 |-> r]
  BY DEF Operand
<1>5. pos = PageOfAddress(fn)
              + ImagePage * (((PageOfAddress(c.to) - PageOfAddress(fn)) \div ImagePage) % AdrpPages) + r
  BY <1>4 DEF SlotAddress
<1> HIDE DEF x, y, r, pos
<1>6. ((ImagePage * x) - (ImagePage * y)) \div ImagePage = d
  <2>1. (ImagePage * x) - (ImagePage * y) = ImagePage * d
    BY <1>1, <1>2, <1>3
  <2>2. (ImagePage * d) \div ImagePage = d
    BY <1>1, <1>3
  <2> QED BY <2>1, <2>2
<1>7. pos = ImagePage * y + ImagePage * (d % AdrpPages) + r
  BY <1>2, <1>5, <1>6
<1>8. ASSUME d >= 0
      PROVE  pos = c.to
  <2>1. d % AdrpPages = d
    BY <1>1, <1>3, <1>8
  <2>2. ImagePage * y + ImagePage * d = ImagePage * x
    BY <1>1, <1>2, <1>3
  <2> QED BY <1>2, <1>7, <2>1, <2>2
<1>9. ASSUME d < 0
      PROVE  c.to < fn /\ pos \div ImagePage = x + AdrpPages
  <2>1. d % AdrpPages = d + AdrpPages
    BY <1>1, <1>3, <1>9
  <2>2. ImagePage * y + ImagePage * (d + AdrpPages) = ImagePage * (x + AdrpPages)
    BY <1>1, <1>2, <1>3
  <2>3. pos = ImagePage * (x + AdrpPages) + r
    BY <1>7, <2>1, <2>2
  <2>4. pos \div ImagePage = x + AdrpPages
    <3>1. x + AdrpPages \in Nat
      BY <1>1, <1>2
    <3>2. \A n \in Nat : \A k \in Nat : k < ImagePage => (ImagePage * n + k) \div ImagePage = n
      BY <1>1
    <3> QED BY <1>2, <2>3, <3>1, <3>2
  <2>5. c.to < fn
    <3>1. x < y
      BY <1>2, <1>3, <1>9
    <3>2. ImagePage * x + ImagePage <= ImagePage * y
      BY <1>1, <1>2, <3>1
    <3>3. ImagePage * y <= fn
      BY <1>1, PageFacts DEF y
    <3>4. ImagePage * x \in Nat /\ ImagePage * y \in Nat
      BY <1>1, <1>2
    <3> QED BY <1>1, <1>2, <3>2, <3>3, <3>4
  <2> QED BY <2>4, <2>5
<1> QED BY <1>8, <1>9 DEF x, pos

\* funchook_resolve_func on Windows is a single step.
LEMMA ImportFound ==
  ASSUME NEW p, Image(p), ResolveImport(p)
  PROVE  WindowsRuns(p, resolved')
<1> DEFINE first == p.code[p.func]
           fn    == IF p.cpu # "arm64" /\ first.op = "jump" THEN JumpTarget(p.func, Operand(p.cpu, p.func, first)) ELSE p.func
           here  == IF fn \in DOMAIN p.code THEN p.code[fn] ELSE [op |-> "other", to |-> 0]
           pos   == IF here.op = "indirect" THEN SlotAddress(p.cpu, fn, Operand(p.cpu, fn, here)) ELSE 0
<1>1. resolved' = IF pos # 0 /\ p.module /\ pos \in p.iat THEN p.slots[pos] ELSE p.func
  BY DEF ResolveImport, Finish
<1>2. p.func \in DOMAIN p.code /\ p.func \in Nat /\ first.to \in Nat
  BY DEF Image
<1>3. p.cpu # "arm64" => fn = IF first.op = "jump" THEN first.to ELSE p.func
  <2>1. first.op = "jump" => JumpTarget(p.func, Operand(p.cpu, p.func, first)) = first.to
    BY <1>2 DEF JumpTarget, Operand
  <2> QED BY <2>1
<1>4. p.cpu = "arm64" => fn = p.func
  OBVIOUS
<1> HIDE DEF fn
<1>5. fn \in DOMAIN p.code => /\ here = p.code[fn] /\ here.to \in Nat /\ fn \in Nat
                              /\ here.op = "indirect" => here.to \in DOMAIN p.slots
  BY DEF Image
<1>6. fn \notin DOMAIN p.code => here.op # "indirect"
  OBVIOUS
<1>7. ASSUME here.op = "indirect", p.cpu # "arm64"
      PROVE  pos = here.to
  <2>1. fn \in Nat /\ here.to \in Nat
    BY <1>5, <1>6, <1>7
  <2>2. p.cpu = "x86_64" \/ p.cpu = "i386"
    BY <1>7 DEF Image
  <2>3. CASE p.cpu = "x86_64"
    <3>1. Operand(p.cpu, fn, here) = here.to - (fn + 6)
      BY <1>7, <2>3 DEF Operand
    <3>2. pos = (fn + 6) + (here.to - (fn + 6))
      BY <1>7, <2>3, <3>1 DEF SlotAddress
    <3> QED BY <2>1, <3>2
  <2>4. CASE p.cpu = "i386"
    BY <1>7, <2>4 DEF Operand, SlotAddress
  <2> QED BY <2>2, <2>3, <2>4
<1> HIDE DEF here, pos
<1>8. CASE p.cpu # "arm64"
  <2>1. SlotsUsed(p) = IF fn \in DOMAIN p.code /\ here.op = "indirect" THEN {here.to} ELSE {}
    BY <1>3, <1>5, <1>8 DEF SlotsUsed
  <2>2. CASE here.op = "indirect"
    <3>1. fn \in DOMAIN p.code /\ SlotsUsed(p) = {here.to} /\ pos = here.to /\ RunsWindows(p) = {p.slots[pos]}
      BY <1>6, <1>7, <1>8, <2>1, <2>2 DEF RunsWindows
    <3>2. pos # 0
      BY <1>5, <2>2, <3>1 DEF Image
    <3> QED BY <1>1, <3>1, <3>2 DEF WindowsRuns
  <2>3. CASE here.op # "indirect"
    <3>1. SlotsUsed(p) = {} /\ resolved' = p.func
      BY <1>1, <2>1, <2>3 DEF pos
    <3> QED BY <3>1 DEF WindowsRuns
  <2> QED BY <2>2, <2>3
<1>9. CASE p.cpu = "arm64"
  <2>1. fn = p.func /\ here = p.code[p.func]
    BY <1>2, <1>4, <1>5, <1>9
  <2>2. CASE here.op # "indirect"
    <3>1. resolved' = p.func
      BY <1>1, <2>2 DEF pos
    <3> QED BY <1>9, <2>1, <2>2, <3>1 DEF WindowsRuns
  <2>3. CASE here.op = "indirect"
    <3> DEFINE d == (here.to \div ImagePage) - (fn \div ImagePage)
    <3>1. /\ fn \in Nat /\ here.to \in Nat /\ here.to \in DOMAIN p.slots /\ fn \in DOMAIN p.code
          /\ SlotsUsed(p) = {here.to} /\ RunsWindows(p) = {p.slots[here.to]}
      BY <1>2, <1>5, <2>1, <2>3 DEF SlotsUsed, RunsWindows
    <3>2. \A a \in DOMAIN p.slots : /\ -AdrpPages <= 2 * ((a \div ImagePage) - (fn \div ImagePage))
                                    /\ 2 * ((a \div ImagePage) - (fn \div ImagePage)) < AdrpPages
      BY <1>9, <3>1 DEF Image
    <3>3. /\ d >= 0 => pos = here.to
          /\ d < 0 => here.to < fn /\ pos \div ImagePage = (here.to \div ImagePage) + AdrpPages
      BY <1>9, <2>3, <3>1, <3>2, Arm64Slot DEF pos
    <3>4. (here.to \div ImagePage) \in Nat /\ (fn \div ImagePage) \in Nat /\ AdrpPages \in Nat /\ d \in Int
      BY <3>1, PageFacts, ResolveAssumption
    <3>5. CASE d >= 0
      <4>1. pos = here.to /\ pos # 0
        BY <3>1, <3>3, <3>5 DEF Image
      <4> QED BY <1>1, <3>1, <4>1 DEF WindowsRuns
    <3>6. CASE d < 0
      <4>1. here.to < fn /\ pos \div ImagePage = (here.to \div ImagePage) + AdrpPages
        BY <3>3, <3>6
      <4>2. pos \notin DOMAIN p.slots
        <5>1. SUFFICES ASSUME pos \in DOMAIN p.slots
                       PROVE  FALSE
          OBVIOUS
        <5>2. 2 * (((here.to \div ImagePage) + AdrpPages) - (fn \div ImagePage)) < AdrpPages
          BY <3>2, <4>1, <5>1
        <5>3. -AdrpPages <= 2 * ((here.to \div ImagePage) - (fn \div ImagePage))
          BY <3>1, <3>2
        <5> QED BY <3>4, <5>2, <5>3
      <4>3. resolved' = p.func
        BY <1>1, <4>2 DEF Image
      <4>4. ~(\A a \in SlotsUsed(p) : a >= p.func)
        BY <2>1, <3>1, <4>1
      <4> QED BY <1>9, <4>3, <4>4 DEF WindowsRuns
    <3> QED BY <3>4, <3>5, <3>6
  <2> QED BY <2>2, <2>3
<1> QED BY <1>8, <1>9

\* During the scan no symbol of the object was passed over that is a PLT entry
\* at func or the end of the table; when it is done, what ResolvedRuns says.
ScanInv ==
  LET syms == program.objects[lmap].syms IN
    /\ lmap = LinkMap(program) /\ lmap # 0
    /\ symtab \in Nat \ {0}
    /\ \A i \in DOMAIN syms : i < symtab => ~syms[i].end /\ ~Matches(syms[i], program.func)

ResolveInv ==
  /\ resolvePc \in {"start", "scan", "done"}
  /\ kind = "none" => resolvePc = "start"
  /\ resolvePc = "scan" => kind = "unix" /\ program \in Programs /\ ScanInv
  /\ resolvePc = "done" => \/ kind = "unix" /\ UnixRuns(program, resolved)
                           \/ kind = "windows" /\ WindowsRuns(program, resolved)

LEMMA FindModuleStep ==
  ASSUME NEW p \in Programs, FindModule(p)
  PROVE  ResolveInv'
<1>1. UnixProgram(p)
  BY ResolveAssumption
<1>2. kind' = "unix" /\ program' = p /\ lmap' = LinkMap(p) /\ symtab' = 1
  BY DEF FindModule
<1>3. CASE LinkMap(p) # 0 /\ (p.objects[LinkMap(p)].l_addr # 0 => p.objects[LinkMap(p)].elf)
  <2>1. resolvePc' = "scan"
    BY <1>3 DEF FindModule
  <2>2. LinkMap(p) \in DOMAIN p.objects
    BY <1>1, <1>3, LinkMapFound
  <2>3. \A i \in DOMAIN p.objects[LinkMap(p)].syms : i \in Nat /\ 1 <= i
    BY <1>1, <2>2, ProgramTyped
  <2>4. \A i \in DOMAIN p.objects[LinkMap(p)].syms : ~(i < 1)
    BY <2>3
  <2>5. ScanInv'
    BY <1>2, <1>3, <2>4 DEF ScanInv
  <2> QED BY <1>2, <2>1, <2>5 DEF ResolveInv
<1>4. CASE ~(LinkMap(p) # 0 /\ (p.objects[LinkMap(p)].l_addr # 0 => p.objects[LinkMap(p)].elf))
  <2>1. resolvePc' = "done" /\ resolved' = p.func
    BY <1>4 DEF FindModule, Finish
  <2>2. p.objects[1].l_addr # 0
    BY <1>1, <1>4, LinkMapFound
  <2>3. UnixRuns(p, p.func)
    BY <1>1, <2>2, NothingFound
  <2> QED BY <1>2, <2>1, <2>3 DEF ResolveInv
<1> QED BY <1>3, <1>4

LEMMA ScanStep ==
  ASSUME ResolveInv, ScanSymbol
  PROVE  ResolveInv'
<1> DEFINE p == program
           syms == p.objects[lmap].syms
<1>1. /\ kind = "unix" /\ p \in Programs /\ UnixProgram(p) /\ lmap = LinkMap(p) /\ lmap # 0
      /\ symtab \in Nat \ {0}
      /\ \A i \in DOMAIN syms : i < symtab => ~syms[i].end /\ ~Matches(syms[i], p.func)
  BY ResolveAssumption DEF ScanSymbol, ResolveInv, ScanInv
<1>2. UNCHANGED <<kind, program, lmap>>
  BY DEF ScanSymbol
<1>3. Len(syms) \in Nat /\ DOMAIN syms = 1 .. Len(syms)
  BY <1>1, LinkMapFound, ProgramTyped
<1>4. ~AtEnd(syms) => symtab \in DOMAIN syms /\ ~syms[symtab].end
  BY <1>1, <1>3 DEF AtEnd
<1>5. CASE AtEnd(syms) /\ Finish(p.func)
  <2>1. ASSUME p.objects[1].l_addr = 0, NEW i \in DOMAIN p.objects[1].syms
        PROVE  p.objects[1].syms[i].end \/ ~Matches(p.objects[1].syms[i], p.func)
    <3>1. lmap = 1
      BY <1>1, <2>1, LinkMapFound
    <3>2. CASE i < symtab
      BY <1>1, <3>1, <3>2
    <3>3. CASE ~(i < symtab)
      <4>1. i \in Nat /\ i <= Len(syms)
        BY <1>3, <3>1
      <4>2. symtab \in DOMAIN syms /\ syms[symtab].end
        BY <1>1, <1>3, <1>5, <3>3, <4>1 DEF AtEnd
      <4>3. i = symtab \/ symtab < i
        BY <1>1, <3>3, <4>1
      <4>4. 1 \in DOMAIN p.objects
        BY <1>1, ProgramTyped
      <4>5. symtab < i => syms[i].end
        BY <1>1, <3>1, <4>2, <4>4 DEF UnixProgram
      <4> QED BY <3>1, <4>2, <4>3, <4>5
    <3> QED BY <3>2, <3>3
  <2>2. UnixRuns(p, p.func)
    BY <1>1, <2>1, NothingFound
  <2>3. resolvePc' = "done" /\ resolved' = p.func
    BY <1>5 DEF Finish
  <2> QED BY <1>1, <1>2, <2>2, <2>3 DEF ResolveInv
<1>6. CASE ~AtEnd(syms) /\ Matches(syms[symtab], p.func) /\ Finish(Dlsym(p, syms[symtab].name))
  <2>1. UnixRuns(p, Dlsym(p, syms[symtab].name))
    BY <1>1, <1>4, <1>6, EntryFound
  <2>2. resolvePc' = "done" /\ resolved' = Dlsym(p, syms[symtab].name)
    BY <1>6 DEF Finish
  <2> QED BY <1>1, <1>2, <2>1, <2>2 DEF ResolveInv
<1>7. CASE /\ ~AtEnd(syms) /\ ~Matches(syms[symtab], p.func)
           /\ symtab' = symtab + 1 /\ UNCHANGED <<resolved, resolvePc>>
  <2>1. symtab' \in Nat \ {0} /\ \A i \in DOMAIN syms : i < symtab' => i < symtab \/ i = symtab
    BY <1>1, <1>3, <1>7
  <2>2. ScanInv'
    BY <1>1, <1>2, <1>4, <1>7, <2>1 DEF ScanInv
  <2> QED BY <1>1, <1>2, <1>7, <2>2 DEF ResolveInv, ScanSymbol
<1> QED BY <1>5, <1>6, <1>7 DEF ScanSymbol

LEMMA ResolveStep ==
  ASSUME ResolveInv, [ResolveNext]_resolveVars
  PROVE  ResolveInv'
<1>1. CASE UNCHANGED resolveVars
  BY <1>1 DEF resolveVars, ResolveInv, ScanInv
<1>2. ASSUME NEW p \in Images, ResolveImport(p)
      PROVE  ResolveInv'
  <2>1. WindowsRuns(p, resolved')
    BY <1>2, ImportFound, ResolveAssumption
  <2>2. kind' = "windows" /\ program' = p /\ resolvePc' = "done"
    BY <1>2 DEF ResolveImport, Finish
  <2> QED BY <2>1, <2>2 DEF ResolveInv
<1> QED BY <1>1, <1>2, FindModuleStep, ScanStep DEF ResolveNext

\* For every program and every set of libraries around it, with symbol tables of
\* any length, and every image: funchook_resolve_func returns the address it was
\* given or that of the function which calling it executes, and the latter where
\* it can tell, but for the two exceptions of os_unix.c and that of arm64.
THEOREM ResolvedRunsTheorem == ResolveSpec => []ResolvedRuns
<1>1. ResolveInit => ResolveInv
  BY DEF ResolveInit, ResolveInv
<1>2. ResolveInv /\ [ResolveNext]_resolveVars => ResolveInv'
  BY ResolveStep
<1>3. ResolveInv => ResolvedRuns
  BY DEF ResolveInv, ResolvedRuns, UnixRuns, WindowsRuns
<1> QED BY <1>1, <1>2, <1>3, PTL DEF ResolveSpec
-----------------------------------------------------------------------------
(* PrehookFrame *)

AllAbis == {"sysv", "ms", "i686", "arm64"}

\* The words of the stack below which C code may write while the prehook runs.
Owned(a, b) == CallSp(a, b) + (CASE a = "ms" -> 4 [] a = "i686" -> 2 [] OTHER -> 0)

\* The stack pointer at the entry of a function.
EntryOK(a, e) == e \in Nat /\ FrameWords <= e /\ (a = "arm64" => e % 2 = 0)

\* The kinds of registers.
LEMMA RegisterForms ==
  ASSUME NEW a \in AllAbis, NEW r \in Registers(a)
  PROVE  /\ r = <<r[1], r[2], r[3]>>
         /\ \/ r[1] = "int" /\ r[2] \in Ints(a) /\ r[3] = 0
            \/ r[1] = "flt" /\ r[2] \in Flts(a) /\ r[3] \in {0, 1}
            \/ r[1] = "more" /\ a \in {"sysv", "arm64"} /\ r[2] \in 0 .. 1 /\ r[3] = 0
<1>1. CASE r \in {"int"} \X Ints(a) \X {0}
  BY <1>1
<1>2. CASE r \in {"flt"} \X Flts(a) \X {0, 1}
  BY <1>2
<1>3. CASE r \in {"more"} \X (IF a \in {"sysv", "arm64"} THEN 0 .. 1 ELSE {}) \X {0}
  <2>1. a \in {"sysv", "arm64"}
    BY <1>3
  <2>2. r \in {"more"} \X (0 .. 1) \X {0}
    BY <1>3, <2>1
  <2> QED BY <2>1, <2>2
<1> QED BY <1>1, <1>2, <1>3 DEF Registers

\* Where each register is saved, in each ABI.
LEMMA SaveSlots ==
  ASSUME NEW a \in AllAbis, NEW r \in Registers(a)
  PROVE  /\ SaveSlot(a, r) \in Int
         /\ a = "sysv" => \/ r[1] = "int" /\ r[2] \in 0 .. 5 /\ r[3] = 0 /\ SaveSlot(a, r) = r[2] - 24
                          \/ r[1] = "more" /\ r[2] \in 0 .. 1 /\ r[3] = 0 /\ SaveSlot(a, r) = r[2] - 18
                          \/ r[1] = "flt" /\ r[2] \in 0 .. 7 /\ r[3] \in {0, 1} /\ SaveSlot(a, r) = 2 * r[2] + r[3] - 16
         /\ a = "ms" => \/ r[1] = "int" /\ r[2] \in 0 .. 3 /\ r[3] = 0 /\ SaveSlot(a, r) = r[2] - 16
                        \/ r[1] = "flt" /\ r[2] \in 0 .. 5 /\ r[3] \in {0, 1} /\ SaveSlot(a, r) = 2 * r[2] + r[3] - 12
         /\ a = "i686" => r[1] = "int" /\ r[2] \in 0 .. 1 /\ r[3] = 0 /\ SaveSlot(a, r) = r[2] - 2
         /\ a = "arm64" => \/ r[1] = "int" /\ r[2] \in 0 .. 7 /\ r[3] = 0 /\ SaveSlot(a, r) = r[2] + 2
                           \/ r[1] = "more" /\ r[2] \in 0 .. 1 /\ r[3] = 0 /\ SaveSlot(a, r) = r[2] + 10
                           \/ r[1] = "flt" /\ r[2] \in 0 .. 7 /\ r[3] \in {0, 1} /\ SaveSlot(a, r) = 2 * r[2] + r[3] + 12
<1>1. \/ r[1] = "int" /\ r[2] \in Ints(a) /\ r[3] = 0
      \/ r[1] = "flt" /\ r[2] \in Flts(a) /\ r[3] \in {0, 1}
      \/ r[1] = "more" /\ a \in {"sysv", "arm64"} /\ r[2] \in 0 .. 1 /\ r[3] = 0
  BY RegisterForms
<1>2. CASE a = "sysv"
  BY <1>1, <1>2 DEF SaveSlot, Ints, Flts
<1>3. CASE a = "ms"
  BY <1>1, <1>3 DEF SaveSlot, Ints, Flts
<1>4. CASE a = "i686"
  BY <1>1, <1>4 DEF SaveSlot, Ints, Flts
<1>5. CASE a = "arm64"
  BY <1>1, <1>5 DEF SaveSlot, Ints, Flts
<1> QED BY <1>2, <1>3, <1>4, <1>5 DEF AllAbis

\* No two registers are saved in the same place.
LEMMA SaveSlotsDiffer ==
  ASSUME NEW a \in AllAbis, NEW r \in Registers(a), NEW q \in Registers(a), SaveSlot(a, r) = SaveSlot(a, q)
  PROVE  r = q
<1>1. r = <<r[1], r[2], r[3]>> /\ q = <<q[1], q[2], q[3]>>
  BY RegisterForms
<1>2. r[1] = q[1] /\ r[2] = q[2] /\ r[3] = q[3]
  <2>1. CASE a = "sysv"
    BY <2>1, SaveSlots
  <2>2. CASE a = "ms"
    BY <2>2, SaveSlots
  <2>3. CASE a = "i686"
    BY <2>3, SaveSlots
  <2>4. CASE a = "arm64"
    BY <2>4, SaveSlots
  <2> QED BY <2>1, <2>2, <2>3, <2>4 DEF AllAbis
<1> QED BY <1>1, <1>2

\* The frame of a call entered with stack pointer e: what C code may write is
\* below the saved registers, and they are below e.
LEMMA FrameGeometry ==
  ASSUME NEW a \in AllAbis, NEW e, EntryOK(a, e), NEW b, b = Base(a, e)
  PROVE  /\ b \in Nat /\ CallSp(a, b) \in Nat /\ Owned(a, b) \in Nat
         /\ e - FrameWords <= CallSp(a, b) /\ CallSp(a, b) <= Owned(a, b) /\ Owned(a, b) <= b /\ b < e
         /\ CallSp(a, b) % Alignment(a) = 0
         /\ IF a = "arm64" THEN b = CallSp(a, b) /\ b + 28 = e ELSE b + 1 = e
         /\ \A r \in Registers(a) : /\ SaveSlot(a, r) \in Int /\ b + SaveSlot(a, r) \in Nat
                                    /\ Owned(a, b) <= b + SaveSlot(a, r) /\ b + SaveSlot(a, r) < e
                                    /\ b + SaveSlot(a, r) # b
                                    /\ a = "arm64" => b + SaveSlot(a, r) # b + 1
<1>1. e \in Nat /\ 28 <= e
  BY DEF EntryOK, FrameWords
<1>2. CASE a = "sysv"
  <2>1. /\ b = e - 1 /\ Alignment(a) = 2 /\ Owned(a, b) = CallSp(a, b) + 0
        /\ CallSp(a, b) = (b - 24) - ((b - 24) % 2) - 0
    BY <1>2 DEF Base, Alignment, CallSp, Reserved, Owned
  <2>2. \A r \in Registers(a) : SaveSlot(a, r) \in -24 .. -1
    BY <1>2, SaveSlots
  <2>3. /\ CallSp(a, b) \in Nat /\ CallSp(a, b) % 2 = 0
        /\ b - 25 <= CallSp(a, b) /\ CallSp(a, b) <= b - 24
    BY <1>1, <2>1
  <2>4. /\ b \in Nat /\ Owned(a, b) = CallSp(a, b) /\ b < e /\ b + 1 = e /\ Owned(a, b) <= b
        /\ e - FrameWords <= CallSp(a, b) /\ CallSp(a, b) % Alignment(a) = 0
    BY <1>1, <2>1, <2>3 DEF FrameWords
  <2>5. \A r \in Registers(a) : /\ SaveSlot(a, r) \in Int /\ b + SaveSlot(a, r) \in Nat
                                /\ Owned(a, b) <= b + SaveSlot(a, r) /\ b + SaveSlot(a, r) < e
                                /\ b + SaveSlot(a, r) # b
    BY <1>1, <2>1, <2>2, <2>3
  <2> QED BY <1>2, <2>3, <2>4, <2>5
<1>3. CASE a = "ms"
  <2>1. /\ b = e - 1 /\ Alignment(a) = 2 /\ Owned(a, b) = CallSp(a, b) + 4
        /\ CallSp(a, b) = (b - 20) - ((b - 20) % 2) - 0
    BY <1>3 DEF Base, Alignment, CallSp, Reserved, Owned
  <2>2. \A r \in Registers(a) : SaveSlot(a, r) \in -16 .. -1
    BY <1>3, SaveSlots
  <2> QED BY <1>1, <1>3, <2>1, <2>2 DEF FrameWords
<1>4. CASE a = "i686"
  <2>1. /\ b = e - 1 /\ Alignment(a) = 4 /\ Owned(a, b) = CallSp(a, b) + 2
        /\ CallSp(a, b) = (b - 2) - ((b - 2) % 4) - 4
    BY <1>4 DEF Base, Alignment, CallSp, Reserved, Owned
  <2>2. \A r \in Registers(a) : SaveSlot(a, r) \in -2 .. -1
    BY <1>4, SaveSlots
  <2> QED BY <1>1, <1>4, <2>1, <2>2 DEF FrameWords
<1>5. CASE a = "arm64"
  <2>1. /\ b = e - 28 /\ Alignment(a) = 2 /\ Owned(a, b) = CallSp(a, b) + 0
        /\ CallSp(a, b) = (b - 0) - ((b - 0) % 2) - 0 /\ e % 2 = 0
    BY <1>5 DEF Base, Alignment, CallSp, Reserved, Owned, EntryOK
  <2>2. \A r \in Registers(a) : SaveSlot(a, r) \in 2 .. 27
    BY <1>5, SaveSlots
  <2> QED BY <1>1, <1>5, <2>1, <2>2 DEF FrameWords
<1> QED BY <1>2, <1>3, <1>4, <1>5 DEF AllAbis

\* funchook_arg_get_* look where the assembler saved the registers and where the
\* caller passed the arguments.
LEMMA ArgSlots ==
  ASSUME NEW a \in AllAbis, NEW e, EntryOK(a, e)
  PROVE  /\ \A r \in Registers(a) : r[1] # "more" => ArgSlot(a, r) = SaveSlot(a, r)
         /\ \A p \in StackPlaces : Base(a, e) + ArgSlot(a, p) = e + PassedAt(a, p[2])
<1>1. ASSUME NEW r \in Registers(a), r[1] # "more"
      PROVE  ArgSlot(a, r) = SaveSlot(a, r)
  <2>1. \/ r[1] = "int" /\ r[2] \in Ints(a) /\ r[3] = 0
        \/ r[1] = "flt" /\ r[2] \in Flts(a) /\ r[3] \in {0, 1}
    BY <1>1, RegisterForms
  <2>2. CASE a = "sysv"
    BY <2>1, <2>2 DEF SaveSlot, ArgSlot, INT_REG_OFFSET, FLT_REG_OFFSET, Ints, Flts
  <2>3. CASE a = "ms"
    BY <2>1, <2>3 DEF SaveSlot, ArgSlot, INT_REG_OFFSET, FLT_REG_OFFSET, Ints, Flts
  <2>4. CASE a = "i686"
    BY <2>1, <2>4 DEF SaveSlot, ArgSlot, INT_REG_OFFSET, FLT_REG_OFFSET, Ints, Flts
  <2>5. CASE a = "arm64"
    BY <2>1, <2>5 DEF SaveSlot, ArgSlot, INT_REG_OFFSET, FLT_REG_OFFSET, Ints, Flts
  <2> QED BY <2>2, <2>3, <2>4, <2>5 DEF AllAbis
<1>2. ASSUME NEW p \in StackPlaces
      PROVE  Base(a, e) + ArgSlot(a, p) = e + PassedAt(a, p[2])
  <2>1. p[1] = "stack" /\ p[2] \in Nat
    BY <1>2, PrehookFrameAssumption DEF StackPlaces
  <2>2. e \in Nat
    BY DEF EntryOK
  <2>3. ArgSlot(a, p) = STACK_OFFSET(a) + p[2]
    BY <2>1 DEF ArgSlot
  <2> QED BY <2>1, <2>2, <2>3 DEF STACK_OFFSET, Base, PassedAt, Shadow, AllAbis
<1> QED BY <1>1, <1>2

-----------------------------------------------------------------------------
(* PrehookFrame: the inductive invariant *)

\* The highest word of the stack, and the stack a call and those it makes need.
Top == Max(StackTop) + 1 + Shadow("ms") + Max(StackArgs)
Room(n) == (MaxCalls - n + 1) * (CallerFrame + FrameWords)

Places(a) == Registers(a) \cup StackPlaces
RetPlace == <<"ret", 0, 0>>
CallRecord(a) ==
  [at : {"target", "prehook", "hook"}, entry : Nat, bp : Int, sp : Int,
   args : [Places(a) -> [place : Places(a), call : Nat, fresh : BOOLEAN]]]

FrameTyped ==
  /\ abi \in Abis
  /\ DOMAIN mem = 0 .. Top
  /\ DOMAIN regs = Registers(abi) \cup {RetPlace}
  /\ calls \in Seq(CallRecord(abi)) /\ Len(calls) <= MaxCalls
  /\ sp \in Int

\* Every call has room, and every call but the innermost is in its prehook.
Entered ==
  \A n \in 1 .. Len(calls) :
    /\ n < Len(calls) => calls[n].at = "prehook"
    /\ Room(n) <= calls[n].entry /\ calls[n].entry <= Max(StackTop)
    /\ abi = "arm64" => calls[n].entry % 2 = 0

\* The frame and the stack pointer at a call are those of the prehook it is made by.
CalledBy ==
  /\ Len(calls) > 0 => calls[1].bp = 0
  /\ \A n \in 1 .. Len(calls) : n > 1 =>
       /\ calls[n].bp = Base(abi, calls[n - 1].entry)
       /\ calls[n].sp = CallSp(abi, Base(abi, calls[n - 1].entry))

\* The stack of a call is below the frames of the calls around it.
Nested ==
  \A m, n \in 1 .. Len(calls) :
    m < n => calls[n].entry + CallerFrame <= CallSp(abi, Base(abi, calls[m].entry))

\* What the stack holds of the n-th call c.
FrameKept(a, stack, c, n) ==
  /\ \A k \in StackArgs : stack[c.entry + PassedAt(a, k)] = c.args[<<"stack", k, 0>>]
  /\ a # "arm64" => stack[c.entry] = ReturnAddress(n)
  /\ c.at = "prehook" =>
       /\ \A r \in Registers(a) : stack[Base(a, c.entry) + SaveSlot(a, r)] = c.args[r]
       /\ stack[Base(a, c.entry)] = FramePointer(c.bp)
       /\ a = "arm64" => stack[Base(a, c.entry) + 1] = ReturnAddress(n)

Kept == \A n \in 1 .. Len(calls) : FrameKept(abi, mem, calls[n], n)

\* The registers, in the innermost call c.
RegistersOf(c, n) ==
  IF c.at = "prehook"
  THEN sp = CallSp(abi, Base(abi, c.entry)) /\ bp = Base(abi, c.entry)
  ELSE /\ sp = c.entry /\ bp = c.bp
       /\ \A r \in Registers(abi) : regs[r] = c.args[r]
       /\ abi = "arm64" => regs[RetPlace] = ReturnAddress(n)

Innermost ==
  /\ Len(calls) = 0 => bp = 0
  /\ Len(calls) > 0 => RegistersOf(calls[Len(calls)], Len(calls))

FrameInv == FrameTyped /\ Entered /\ CalledBy /\ Nested /\ Kept /\ Innermost

-----------------------------------------------------------------------------
\* The constants: every call of the application has room for all nested calls.
LEMMA StackFacts ==
  /\ Max(StackTop) \in Nat /\ Max(StackArgs) \in Nat /\ Top \in Nat
  /\ CallerFrame \in Nat /\ MaxCalls \in Nat
  /\ \A e \in StackTop : e \in Nat /\ e <= Max(StackTop) /\ Room(1) <= e
  /\ \A k \in StackArgs : k \in Nat /\ k <= Max(StackArgs)
<1>1. \A S : S \subseteq Nat /\ HasMax(S) => Max(S) \in Nat /\ \A x \in S : x <= Max(S)
  <2>1. TAKE S
  <2>2. HAVE S \subseteq Nat /\ HasMax(S)
  <2>3. \E m \in S : \A x \in S : m >= x
    BY <2>2 DEF HasMax
  <2>4. Max(S) \in S /\ \A x \in S : Max(S) >= x
    BY <2>3 DEF Max
  <2> QED BY <2>2, <2>4
<1>2. Max(StackTop) \in Nat /\ \A x \in StackTop : x <= Max(StackTop)
  BY <1>1, PrehookFrameAssumption
<1>3. Max(StackArgs) \in Nat /\ \A x \in StackArgs : x <= Max(StackArgs)
  BY <1>1, PrehookFrameAssumption
<1>4. Top \in Nat
  BY <1>2, <1>3 DEF Top, Shadow
<1>5. Room(1) = MaxCalls * (CallerFrame + FrameWords)
  BY PrehookFrameAssumption DEF Room, FrameWords
<1> QED BY <1>2, <1>3, <1>4, <1>5, PrehookFrameAssumption

\* A call leaves the calls its prehook makes their room.
LEMMA RoomFacts ==
  ASSUME NEW n \in Nat \ {0}, n <= MaxCalls
  PROVE  /\ Room(n) \in Nat /\ FrameWords <= Room(n)
         /\ n < MaxCalls => Room(n) = Room(n + 1) + CallerFrame + FrameWords
<1> DEFINE K == CallerFrame + FrameWords
<1>1. K \in Nat /\ FrameWords <= K /\ FrameWords \in Nat /\ CallerFrame \in Nat /\ MaxCalls \in Nat
  BY PrehookFrameAssumption DEF FrameWords
<1>2. \A x \in Nat : (x + 1) * K = x * K + K /\ x * K \in Nat
  BY <1>1
<1>3. Room(n) = ((MaxCalls - n) + 1) * K /\ Room(n + 1) = (MaxCalls - (n + 1) + 1) * K
  BY DEF Room
<1>4. MaxCalls - n \in Nat /\ MaxCalls - (n + 1) + 1 = MaxCalls - n
  BY <1>1
<1>5. Room(n) = (MaxCalls - n) * K + K /\ (MaxCalls - n) * K \in Nat /\ Room(n + 1) = (MaxCalls - n) * K
  BY <1>2, <1>3, <1>4
<1> QED BY <1>1, <1>5

\* The arguments on the stack lie in it, above the return address and in the
\* frame of the caller.
LEMMA PassedFacts ==
  ASSUME NEW a \in Abis, NEW e \in Nat, e <= Max(StackTop), NEW k \in StackArgs
  PROVE  /\ PassedAt(a, k) \in Nat /\ PassedAt(a, k) < CallerFrame
         /\ e + PassedAt(a, k) \in 0 .. Top
         /\ a # "arm64" => PassedAt(a, k) # 0
         /\ PassedAt(a, k) - PassedAt(a, 0) = k
<1>1. PassedAt(a, k) < CallerFrame
  BY PrehookFrameAssumption
<1>2. PassedAt(a, k) = PassedAt(a, 0) + k /\ PassedAt(a, 0) \in 0 .. 5 /\ (a # "arm64" => PassedAt(a, 0) # 0)
  BY StackFacts DEF PassedAt, Shadow
<1> QED BY <1>1, <1>2, StackFacts DEF Top, Shadow

\* The entry of a call that has room.
LEMMA EntryFacts ==
  ASSUME NEW a, NEW n \in Nat \ {0}, n <= MaxCalls, NEW e \in Nat, Room(n) <= e, a = "arm64" => e % 2 = 0
  PROVE  EntryOK(a, e)
BY RoomFacts, StackFacts DEF EntryOK, FrameWords

\* The words of a frame survive what is written below it.
LEMMA KeptAgain ==
  ASSUME NEW a \in Abis, NEW c, EntryOK(a, c.entry), c.entry <= Max(StackTop), NEW n, NEW s, NEW t,
         FrameKept(a, s, c, n),
         \A x \in 0 .. Top : (IF c.at = "prehook" THEN Owned(a, Base(a, c.entry)) ELSE c.entry) <= x => t[x] = s[x]
  PROVE  FrameKept(a, t, c, n)
<1> DEFINE e == c.entry
           b == Base(a, e)
<1>1. a \in AllAbis /\ e \in Nat /\ e \in 0 .. Top
  BY PrehookFrameAssumption, StackFacts DEF AllAbis, EntryOK, Top, Shadow
<1>2. /\ b \in Nat /\ Owned(a, b) \in Nat /\ Owned(a, b) <= b /\ b < e
      /\ a = "arm64" => b + 28 = e
      /\ \A r \in Registers(a) : b + SaveSlot(a, r) \in Nat /\ Owned(a, b) <= b + SaveSlot(a, r) /\ b + SaveSlot(a, r) < e
  BY <1>1, FrameGeometry
<1>3. Top \in Nat
  BY StackFacts
<1>4. \A x \in 0 .. Top : e <= x => t[x] = s[x]
  BY <1>1, <1>2
<1>5. \A x \in Nat : c.at = "prehook" /\ Owned(a, b) <= x /\ x < e => t[x] = s[x]
  BY <1>1, <1>3
<1>6. \A k \in StackArgs : t[e + PassedAt(a, k)] = s[e + PassedAt(a, k)]
  <2>1. TAKE k \in StackArgs
  <2>2. PassedAt(a, k) \in Nat /\ e + PassedAt(a, k) \in 0 .. Top
    BY <1>1, PassedFacts
  <2> QED BY <1>1, <1>4, <2>2
<1>7. t[e] = s[e]
  BY <1>1, <1>4
<1>8. c.at = "prehook" => \A r \in Registers(a) : t[b + SaveSlot(a, r)] = s[b + SaveSlot(a, r)]
  BY <1>2, <1>5
<1>9. c.at = "prehook" => t[b] = s[b] /\ (a = "arm64" => t[b + 1] = s[b + 1])
  BY <1>1, <1>2, <1>5
<1> QED BY <1>6, <1>7, <1>8, <1>9 DEF FrameKept

-----------------------------------------------------------------------------
\* What the invariant says of one call.
LEMMA CallFacts ==
  ASSUME FrameTyped, Entered, NEW n \in 1 .. Len(calls)
  PROVE  /\ Len(calls) \in Nat /\ n \in Nat \ {0} /\ n <= MaxCalls /\ abi \in AllAbis
         /\ calls[n] \in CallRecord(abi)
         /\ calls[n].entry \in Nat /\ calls[n].entry <= Max(StackTop) /\ EntryOK(abi, calls[n].entry)
<1>1. Len(calls) \in Nat /\ calls[n] \in CallRecord(abi) /\ abi \in AllAbis
  BY PrehookFrameAssumption DEF FrameTyped, AllAbis
<1>2. n \in Nat \ {0} /\ n <= MaxCalls
  BY <1>1, PrehookFrameAssumption DEF FrameTyped
<1>3. calls[n].entry \in Nat
  BY <1>1 DEF CallRecord
<1>4. calls[n].entry <= Max(StackTop) /\ Room(n) <= calls[n].entry /\ (abi = "arm64" => calls[n].entry % 2 = 0)
  BY DEF Entered
<1> QED BY <1>1, <1>2, <1>3, <1>4, EntryFacts

\* The call an action is about is the innermost.
LEMMA RunningFacts ==
  ASSUME FrameTyped, Running \in {"target", "prehook", "hook"}
  PROVE  /\ Len(calls) \in Nat \ {0} /\ Len(calls) \in 1 .. Len(calls) /\ calls # <<>>
         /\ Last(calls) = calls[Len(calls)] /\ Running = calls[Len(calls)].at
<1>1. calls # <<>>
  BY DEF Running
<1>2. Len(calls) \in Nat /\ Len(calls) # 0
  BY <1>1, EmptySeq DEF FrameTyped
<1> QED BY <1>1, <1>2 DEF Running, Last

\* The calls s and t differ only in where the innermost stands and its arguments.
SameOutline(s, t) ==
  /\ Len(t) = Len(s)
  /\ \A m \in 1 .. Len(s) : /\ t[m].entry = s[m].entry /\ t[m].bp = s[m].bp /\ t[m].sp = s[m].sp
                            /\ m # Len(s) => t[m] = s[m]

WithAt(s, v) == [s EXCEPT ![Len(s)].at = v]
WithArg(s, p, v) == [s EXCEPT ![Len(s)].args[p] = v]

\* Where the innermost call stands changes.
LEMMA SetAt ==
  ASSUME NEW a, NEW s \in Seq(CallRecord(a)), Len(s) # 0, NEW v \in {"target", "prehook", "hook"},
         NEW t, t = WithAt(s, v)
  PROVE  /\ t \in Seq(CallRecord(a)) /\ SameOutline(s, t)
         /\ t[Len(s)].at = v /\ t[Len(s)].args = s[Len(s)].args
<1>1. Len(s) \in 1 .. Len(s) /\ Len(s) \in Nat /\ s[Len(s)] \in CallRecord(a)
  OBVIOUS
<1>2. t = [s EXCEPT ![Len(s)] = [s[Len(s)] EXCEPT !.at = v]]
  BY DEF WithAt
<1>3. [s[Len(s)] EXCEPT !.at = v] \in CallRecord(a)
  BY <1>1 DEF CallRecord
<1>4. t \in Seq(CallRecord(a)) /\ Len(t) = Len(s)
  BY <1>1, <1>2, <1>3
<1>5. /\ t[Len(s)] = [s[Len(s)] EXCEPT !.at = v]
      /\ \A m \in 1 .. Len(s) : m # Len(s) => t[m] = s[m]
  BY <1>1, <1>2
<1>6. /\ t[Len(s)].at = v
      /\ t[Len(s)].entry = s[Len(s)].entry /\ t[Len(s)].bp = s[Len(s)].bp /\ t[Len(s)].sp = s[Len(s)].sp
      /\ t[Len(s)].args = s[Len(s)].args
  BY <1>1, <1>5 DEF CallRecord
<1> QED BY <1>1, <1>4, <1>5, <1>6 DEF SameOutline

\* An argument of the innermost call changes.
LEMMA SetArg ==
  ASSUME NEW a, NEW s \in Seq(CallRecord(a)), Len(s) # 0, NEW p \in Places(a),
         NEW v \in [place : Places(a), call : Nat, fresh : BOOLEAN],
         NEW t, t = WithArg(s, p, v)
  PROVE  /\ t \in Seq(CallRecord(a)) /\ SameOutline(s, t)
         /\ t[Len(s)].at = s[Len(s)].at
         /\ \A q \in Places(a) : t[Len(s)].args[q] = IF q = p THEN v ELSE s[Len(s)].args[q]
<1> DEFINE c == s[Len(s)]
           d == [c EXCEPT !.args[p] = v]
<1>1. Len(s) \in 1 .. Len(s) /\ Len(s) \in Nat /\ c \in CallRecord(a)
  OBVIOUS
<1>2. t = [s EXCEPT ![Len(s)] = d]
  BY DEF WithArg
<1>3. c.args \in [Places(a) -> [place : Places(a), call : Nat, fresh : BOOLEAN]]
  BY <1>1 DEF CallRecord
<1>4. d = [c EXCEPT !.args = [c.args EXCEPT ![p] = v]]
  OBVIOUS
<1>5. [c.args EXCEPT ![p] = v] \in [Places(a) -> [place : Places(a), call : Nat, fresh : BOOLEAN]]
  BY <1>3
<1>6. /\ d \in CallRecord(a) /\ d.args = [c.args EXCEPT ![p] = v]
      /\ d.entry = c.entry /\ d.bp = c.bp /\ d.sp = c.sp /\ d.at = c.at
  BY <1>1, <1>4, <1>5 DEF CallRecord
<1> HIDE DEF d
<1>7. t \in Seq(CallRecord(a)) /\ Len(t) = Len(s)
  BY <1>1, <1>2, <1>6
<1>8. t[Len(s)] = d /\ \A m \in 1 .. Len(s) : m # Len(s) => t[m] = s[m]
  BY <1>1, <1>2
<1>9. \A q \in Places(a) : d.args[q] = IF q = p THEN v ELSE c.args[q]
  BY <1>3, <1>6
<1>10. SameOutline(s, t)
  BY <1>1, <1>6, <1>7, <1>8 DEF SameOutline
<1> QED BY <1>6, <1>7, <1>8, <1>9, <1>10

\* A frame that is not the innermost keeps its words.
LEMMA OuterKept ==
  ASSUME FrameInv, NEW m \in 1 .. Len(calls), calls[m].at = "prehook", NEW lim \in Int, NEW t,
         lim <= CallSp(abi, Base(abi, calls[m].entry)),
         \A x \in 0 .. Top : lim <= x => t[x] = mem[x]
  PROVE  FrameKept(abi, t, calls[m], m)
<1> DEFINE b == Base(abi, calls[m].entry)
<1>1. abi \in Abis /\ abi \in AllAbis /\ EntryOK(abi, calls[m].entry) /\ calls[m].entry <= Max(StackTop)
  BY CallFacts DEF FrameInv, FrameTyped
<1>2. CallSp(abi, b) \in Nat /\ Owned(abi, b) \in Nat /\ CallSp(abi, b) <= Owned(abi, b)
  BY <1>1, FrameGeometry
<1>3. \A x \in 0 .. Top : Owned(abi, b) <= x => t[x] = mem[x]
  BY <1>2, StackFacts
<1>4. FrameKept(abi, mem, calls[m], m)
  BY DEF FrameInv, Kept
<1> QED BY <1>1, <1>3, <1>4, KeptAgain

\* The parts of the invariant an action preserves that neither begins nor ends
\* a call.
LEMMA OutlineKept ==
  ASSUME FrameInv, abi' = abi, SameOutline(calls, calls')
  PROVE  Entered' /\ CalledBy' /\ Nested'
<1>1. Len(calls) \in Nat
  BY DEF FrameInv, FrameTyped
<1>2. Entered'
  BY <1>1 DEF FrameInv, Entered, SameOutline
<1>3. CalledBy'
  BY <1>1 DEF FrameInv, CalledBy, SameOutline
<1>4. Nested'
  BY DEF FrameInv, Nested, SameOutline
<1> QED BY <1>2, <1>3, <1>4

-----------------------------------------------------------------------------
\* No call is in progress at first.
LEMMA FrameInitial == FrameInit => FrameInv
<1> HAVE FrameInit
<1>1. Len(calls) = 0 /\ calls \in Seq(CallRecord(abi))
  BY DEF FrameInit
<1>2. FrameTyped
  BY <1>1, StackFacts DEF FrameInit, FrameTyped, Top, RetPlace
<1>3. Entered /\ CalledBy /\ Nested /\ Kept
  BY <1>1 DEF Entered, CalledBy, Nested, Kept
<1>4. Innermost
  BY <1>1 DEF FrameInit, Innermost
<1> QED BY <1>2, <1>3, <1>4 DEF FrameInv

\* Store, word by word.
LEMMA StoreFacts ==
  ASSUME NEW m, NEW w
  PROVE  /\ DOMAIN Store(m, w) = DOMAIN m
         /\ \A x \in DOMAIN m : Store(m, w)[x] = IF x \in DOMAIN w THEN w[x] ELSE m[x]
BY DEF Store

\* funchook_hook_caller_asm saves the registers.
LEMMA SaveKeeps == ASSUME FrameInv, Save PROVE FrameInv'
<1> DEFINE n == Len(calls)
           c == calls[n]
           e == c.entry
           b == Base(abi, e)
           slots == {b + SaveSlot(abi, r) : r \in Registers(abi)}
           frame == [x \in slots \cup (IF abi = "arm64" THEN {b, b + 1} ELSE {b}) |->
                       IF x \in slots THEN regs[CHOOSE r \in Registers(abi) : x = b + SaveSlot(abi, r)]
                       ELSE IF x = b THEN FramePointer(bp) ELSE regs[RetPlace]]
           below == [x \in {y \in DOMAIN mem : y < Owned(abi, b)} |-> Junk]
<1>1. /\ n \in Nat \ {0} /\ n \in 1 .. n /\ Last(calls) = c /\ c.at = "target"
  BY RunningFacts DEF FrameInv, Save
<1>2. /\ mem' = Store(Store(mem, frame), below) /\ sp' = CallSp(abi, b) /\ bp' = b
      /\ regs' = [r \in DOMAIN regs |-> Junk] /\ calls' = [calls EXCEPT ![n].at = "prehook"] /\ abi' = abi
  BY <1>1 DEF Save, Owned, RetPlace
<1>3. /\ c \in CallRecord(abi) /\ e \in Nat /\ e <= Max(StackTop) /\ EntryOK(abi, e)
      /\ abi \in Abis /\ abi \in AllAbis /\ DOMAIN mem = 0 .. Top /\ Top \in Nat /\ calls \in Seq(CallRecord(abi))
  BY <1>1, CallFacts, StackFacts DEF FrameInv, FrameTyped
<1>4. /\ b \in Nat /\ CallSp(abi, b) \in Nat /\ Owned(abi, b) \in Nat
      /\ CallSp(abi, b) <= Owned(abi, b) /\ Owned(abi, b) <= b /\ b < e
      /\ abi = "arm64" => b + 1 < e
      /\ \A r \in Registers(abi) : /\ b + SaveSlot(abi, r) \in Nat
                                   /\ Owned(abi, b) <= b + SaveSlot(abi, r) /\ b + SaveSlot(abi, r) < e
                                   /\ b + SaveSlot(abi, r) # b
                                   /\ abi = "arm64" => b + SaveSlot(abi, r) # b + 1
  BY <1>3, FrameGeometry
<1>5. e <= Top
  BY <1>3, StackFacts DEF Top, Shadow
<1>6. /\ calls' \in Seq(CallRecord(abi)) /\ SameOutline(calls, calls')
      /\ calls'[n].at = "prehook" /\ calls'[n].args = c.args
  <2>1. n # 0 /\ calls \in Seq(CallRecord(abi)) /\ calls' = WithAt(calls, "prehook")
    BY <1>1, <1>2, <1>3 DEF WithAt
  <2> QED BY <2>1, SetAt
<1>7. FrameTyped'
  BY <1>2, <1>4, <1>6, StoreFacts DEF FrameInv, FrameTyped, SameOutline
<1>8. Entered' /\ CalledBy' /\ Nested'
  BY <1>2, <1>6, OutlineKept
<1>9. \A x \in 0 .. Top : mem'[x] = IF x < Owned(abi, b) THEN Junk ELSE IF x \in DOMAIN frame THEN frame[x] ELSE mem[x]
  <2> HIDE DEF frame
  <2>1. DOMAIN below = {y \in 0 .. Top : y < Owned(abi, b)} /\ \A x \in DOMAIN below : below[x] = Junk
    BY <1>3
  <2> HIDE DEF below
  <2> QED BY <1>2, <1>3, <2>1, StoreFacts
<1>10. \A x \in 0 .. Top : e <= x => mem'[x] = mem[x]
  <2>1. \A x \in DOMAIN frame : x \in Nat /\ x < e
    BY <1>3, <1>4
  <2> HIDE DEF frame
  <2> QED BY <1>3, <1>4, <1>9, <2>1
<1>11. \A r \in Registers(abi) : frame[b + SaveSlot(abi, r)] = regs[r]
  <2>1. TAKE r \in Registers(abi)
  <2>2. \A q \in Registers(abi) : b + SaveSlot(abi, r) = b + SaveSlot(abi, q) => q = r
    BY <1>3, <1>4, SaveSlots, SaveSlotsDiffer
  <2>3. (CHOOSE q \in Registers(abi) : b + SaveSlot(abi, r) = b + SaveSlot(abi, q)) = r
    BY <2>2
  <2> QED BY <2>3
<1>12. frame[b] = FramePointer(bp) /\ (abi = "arm64" => frame[b + 1] = regs[RetPlace])
  BY <1>4
<1>13. /\ bp = c.bp /\ \A r \in Registers(abi) : regs[r] = c.args[r]
       /\ abi = "arm64" => regs[RetPlace] = ReturnAddress(n)
  BY <1>1 DEF FrameInv, Innermost, RegistersOf
<1>14. FrameKept(abi, mem, c, n)
  BY <1>1 DEF FrameInv, Kept
<1>15. \A m \in 1 .. n : m # n => FrameKept(abi, mem', calls[m], m)
  <2>1. TAKE m \in 1 .. n
  <2>2. HAVE m # n
  <2>3. m < n /\ calls[m].at = "prehook"
    BY <1>1, <2>2 DEF FrameInv, Entered
  <2>4. e + CallerFrame <= CallSp(abi, Base(abi, calls[m].entry))
    BY <1>1, <2>3 DEF FrameInv, Nested
  <2>5. e + CallerFrame \in Int /\ \A x \in 0 .. Top : e + CallerFrame <= x => mem'[x] = mem[x]
    BY <1>3, <1>10, StackFacts
  <2> QED BY <2>3, <2>4, <2>5, OuterKept
<1>16. FrameKept(abi, mem', calls'[n], n)
  <2>1. \A k \in StackArgs : mem'[e + PassedAt(abi, k)] = c.args[<<"stack", k, 0>>]
    <3>1. TAKE k \in StackArgs
    <3>2. PassedAt(abi, k) \in Nat /\ e + PassedAt(abi, k) \in 0 .. Top
      BY <1>3, PassedFacts
    <3> QED BY <1>3, <1>10, <1>14, <3>2 DEF FrameKept
  <2>2. mem'[e] = mem[e]
    BY <1>3, <1>5, <1>10
  <2>3. \A r \in Registers(abi) : mem'[b + SaveSlot(abi, r)] = c.args[r]
    <3>1. TAKE r \in Registers(abi)
    <3>2. b + SaveSlot(abi, r) \in 0 .. Top /\ ~(b + SaveSlot(abi, r) < Owned(abi, b)) /\ b + SaveSlot(abi, r) \in DOMAIN frame
      BY <1>3, <1>4, <1>5
    <3> HIDE DEF frame
    <3> QED BY <1>9, <1>11, <1>13, <3>2
  <2>4. mem'[b] = FramePointer(c.bp)
    <3>1. b \in 0 .. Top /\ ~(b < Owned(abi, b)) /\ b \in DOMAIN frame
      BY <1>3, <1>4, <1>5
    <3> HIDE DEF frame
    <3> QED BY <1>9, <1>12, <1>13, <3>1
  <2>5. abi = "arm64" => mem'[b + 1] = ReturnAddress(n)
    <3>1. HAVE abi = "arm64"
    <3>2. b + 1 \in 0 .. Top /\ ~(b + 1 < Owned(abi, b)) /\ b + 1 \in DOMAIN frame
      BY <1>3, <1>4, <1>5, <3>1
    <3> HIDE DEF frame
    <3> QED BY <1>9, <1>12, <1>13, <3>1, <3>2
  <2>6. abi # "arm64" => mem'[e] = ReturnAddress(n)
    BY <1>14, <2>2 DEF FrameKept
  <2>7. calls'[n].entry = e /\ calls'[n].bp = c.bp /\ calls'[n].args = c.args
    BY <1>1, <1>6 DEF SameOutline
  <2> HIDE DEF b, e, c
  <2> QED BY <2>1, <2>3, <2>4, <2>5, <2>6, <2>7 DEF FrameKept, b
<1>17. Kept'
  BY <1>2, <1>6, <1>15, <1>16 DEF Kept, SameOutline
<1>18. Innermost'
  BY <1>1, <1>2, <1>6 DEF Innermost, RegistersOf, SameOutline
<1> QED BY <1>7, <1>8, <1>17, <1>18 DEF FrameInv

\* A call of a hooked function.
LEMMA CallKeeps ==
  ASSUME FrameInv, NEW e \in (IF calls = <<>> THEN StackTop ELSE {sp - CallerFrame}), CallTarget(e)
  PROVE  FrameInv'
<1> DEFINE n == Len(calls)
           args == [p \in Places(abi) |-> Word(p, n + 1, TRUE)]
           rec == [at |-> "target", entry |-> e, bp |-> bp, sp |-> sp, args |-> args]
           slots == {e + PassedAt(abi, k) : k \in StackArgs}
           words == [x \in slots \cup (IF abi = "arm64" THEN {} ELSE {e}) |->
                       IF x = e /\ abi # "arm64" THEN ReturnAddress(n + 1)
                       ELSE args[<<"stack", x - e - PassedAt(abi, 0), 0>>]]
<1>1. /\ n < MaxCalls /\ Running \in {"caller", "prehook"} /\ (abi = "arm64" => e % Alignment(abi) = 0)
      /\ calls' = Append(calls, rec) /\ mem' = Store(mem, words)
      /\ regs' = [r \in DOMAIN regs |-> IF r[1] = "ret" THEN ReturnAddress(n + 1) ELSE args[r]]
      /\ sp' = e /\ abi' = abi /\ bp' = bp
  BY DEF CallTarget, Places
<1>2. /\ n \in Nat /\ abi \in Abis /\ abi \in AllAbis /\ DOMAIN mem = 0 .. Top /\ Top \in Nat /\ sp \in Int
      /\ calls \in Seq(CallRecord(abi)) /\ MaxCalls \in Nat /\ CallerFrame \in Nat
      /\ n = 0 <=> calls = <<>>
  BY PrehookFrameAssumption, StackFacts, EmptySeq DEF FrameInv, FrameTyped, AllAbis
<1>3. /\ e \in Nat /\ Room(n + 1) <= e /\ e <= Max(StackTop) /\ bp \in Int
      /\ n # 0 => /\ calls[n].at = "prehook" /\ bp = Base(abi, calls[n].entry) /\ sp = CallSp(abi, Base(abi, calls[n].entry))
                  /\ e + CallerFrame = sp /\ sp < calls[n].entry
      /\ n = 0 => bp = 0
  <2>1. CASE n = 0
    <3>1. e \in StackTop /\ bp = 0
      BY <1>2, <2>1 DEF FrameInv, Innermost
    <3> QED BY <2>1, <3>1, StackFacts
  <2>2. CASE n # 0
    <3> DEFINE f == calls[n].entry
               b == Base(abi, f)
    <3>1. n \in 1 .. n /\ calls[n].at = "prehook" /\ e = sp - CallerFrame
      <4>1. n \in 1 .. n /\ calls # <<>> /\ e = sp - CallerFrame
        BY <1>2, <2>2
      <4>2. calls[n] \in CallRecord(abi)
        BY <1>2, <4>1
      <4>3. Running = calls[n].at
        BY <4>1 DEF Running, Last
      <4>4. calls[n].at # "caller"
        BY <4>2 DEF CallRecord
      <4> QED BY <1>1, <4>1, <4>3, <4>4
    <3>2. sp = CallSp(abi, b) /\ bp = b
      BY <1>2, <2>2, <3>1 DEF FrameInv, Innermost, RegistersOf
    <3>3. f \in Nat /\ f <= Max(StackTop) /\ EntryOK(abi, f) /\ Room(n) <= f
      BY <3>1, CallFacts DEF FrameInv, Entered
    <3>4. b \in Nat /\ CallSp(abi, b) \in Nat /\ f - FrameWords <= CallSp(abi, b) /\ CallSp(abi, b) <= b /\ b < f
      BY <1>2, <3>3, FrameGeometry
    <3>5. n \in Nat \ {0} /\ n <= MaxCalls /\ n + 1 \in Nat \ {0} /\ n + 1 <= MaxCalls
      BY <1>1, <1>2, <2>2
    <3>6. Room(n) = Room(n + 1) + CallerFrame + FrameWords /\ Room(n + 1) \in Nat
      BY <1>1, <3>5, RoomFacts
    <3> HIDE DEF f, b
    <3>7. e \in Nat /\ Room(n + 1) <= e /\ e <= Max(StackTop) /\ e + CallerFrame = sp /\ sp < f
      <4>1. Max(StackTop) \in Nat
        BY StackFacts
      <4>4. sp \in Nat /\ sp < f /\ f - FrameWords <= sp
        BY <3>2, <3>3, <3>4
      <4> DEFINE x == Room(n + 1)
      <4>5. x \in Nat /\ x + CallerFrame + FrameWords <= f
        BY <3>3, <3>6
      <4> HIDE DEF x
      <4>6. x + CallerFrame <= sp
        BY <1>2, <3>3, <4>4, <4>5 DEF FrameWords
      <4>7. e \in Nat /\ x <= e /\ e <= sp /\ e + CallerFrame = sp
        BY <1>2, <3>1, <4>4, <4>5, <4>6
      <4> QED BY <3>3, <4>1, <4>4, <4>7 DEF x
    <3> QED BY <2>2, <3>1, <3>2, <3>4, <3>7 DEF f, b
  <2> QED BY <2>1, <2>2
<1>4. rec \in CallRecord(abi)
  <2>1. args \in [Places(abi) -> [place : Places(abi), call : Nat, fresh : BOOLEAN]]
    BY <1>2 DEF Word
  <2> HIDE DEF args
  <2> QED BY <1>2, <1>3, <2>1 DEF CallRecord
<1>5. /\ rec.at = "target" /\ rec.entry = e /\ rec.bp = bp /\ rec.sp = sp /\ rec.args = args
      /\ \A p \in Places(abi) : args[p] = Word(p, n + 1, TRUE)
  OBVIOUS
<1> HIDE DEF rec
<1>6. /\ calls' \in Seq(CallRecord(abi)) /\ Len(calls') = n + 1 /\ calls'[n + 1] = rec
      /\ \A m \in 1 .. n : calls'[m] = calls[m]
  BY <1>1, <1>2, <1>4
<1>7. FrameTyped'
  BY <1>1, <1>2, <1>3, <1>6, StoreFacts DEF FrameInv, FrameTyped
<1>8. Entered'
  <2>1. abi = "arm64" => e % 2 = 0
    BY <1>1 DEF Alignment
  <2>2. \A m \in 1 .. n : calls[m].at = "prehook" /\ Room(m) <= calls[m].entry /\ calls[m].entry <= Max(StackTop)
                          /\ (abi = "arm64" => calls[m].entry % 2 = 0)
    BY <1>2, <1>3 DEF FrameInv, Entered
  <2>3. \A m \in 1 .. n + 1 : m = n + 1 \/ m \in 1 .. n
    BY <1>2
  <2> QED BY <1>1, <1>3, <1>5, <1>6, <2>1, <2>2, <2>3 DEF Entered
<1>9. CalledBy'
  <2>1. \A m \in 1 .. n + 1 : m = n + 1 \/ m \in 1 .. n
    BY <1>2
  <2>2. (n + 1) - 1 = n /\ \A m \in 1 .. n : m > 1 => m - 1 \in 1 .. n
    BY <1>2
  <2>3. calls'[1].bp = 0
    <3>1. CASE n = 0
      BY <1>3, <1>5, <1>6, <3>1
    <3>2. CASE n # 0
      <4>1. 1 \in 1 .. n /\ n > 0
        BY <1>2, <3>2
      <4> QED BY <1>6, <4>1 DEF FrameInv, CalledBy
    <3> QED BY <3>1, <3>2
  <2>4. n # 0 => rec.bp = Base(abi, calls'[n].entry) /\ rec.sp = CallSp(abi, Base(abi, calls'[n].entry))
    <3>1. HAVE n # 0
    <3>2. n \in 1 .. n
      BY <1>2, <3>1
    <3> QED BY <1>3, <1>5, <1>6, <3>1, <3>2
  <2>5. \A m \in 1 .. n : m > 1 => /\ calls'[m].bp = Base(abi, calls'[m - 1].entry)
                                   /\ calls'[m].sp = CallSp(abi, Base(abi, calls'[m - 1].entry))
    BY <1>6, <2>2 DEF FrameInv, CalledBy
  <2>6. n + 1 > 1 => n # 0
    BY <1>2
  <2> QED BY <1>1, <1>6, <2>1, <2>2, <2>3, <2>4, <2>5, <2>6 DEF CalledBy
<1>10. \A m \in 1 .. n : e + CallerFrame <= CallSp(abi, Base(abi, calls[m].entry))
  <2>1. TAKE m \in 1 .. n
  <2>2. n # 0 /\ n \in 1 .. n
    BY <1>2
  <2>3. CASE m = n
    BY <1>2, <1>3, <2>2, <2>3
  <2>4. CASE m # n
    <3>1. calls[n].entry + CallerFrame <= CallSp(abi, Base(abi, calls[m].entry))
      BY <1>2, <2>2, <2>4 DEF FrameInv, Nested
    <3>2. calls[n].entry \in Nat /\ EntryOK(abi, calls[m].entry)
      BY <2>2, CallFacts DEF FrameInv
    <3>3. CallSp(abi, Base(abi, calls[m].entry)) \in Nat
      BY <1>2, <3>2, FrameGeometry
    <3> QED BY <1>2, <1>3, <2>2, <3>1, <3>2, <3>3
  <2> QED BY <2>3, <2>4
<1>11. Nested'
  <2>1. \A m \in 1 .. n + 1 : m = n + 1 \/ m \in 1 .. n
    BY <1>2
  <2>2. \A m, l \in 1 .. n + 1 : m < l => m \in 1 .. n
    BY <1>2
  <2> QED BY <1>1, <1>5, <1>6, <1>10, <2>1, <2>2 DEF FrameInv, Nested
<1>12. /\ \A k \in StackArgs : words[e + PassedAt(abi, k)] = args[<<"stack", k, 0>>]
       /\ abi # "arm64" => words[e] = ReturnAddress(n + 1)
       /\ \A x \in DOMAIN words : x \in Nat /\ x < e + CallerFrame
  <2>0. \A k \in StackArgs : /\ PassedAt(abi, k) \in Nat /\ PassedAt(abi, k) < CallerFrame /\ k \in Nat
                             /\ abi # "arm64" => PassedAt(abi, k) # 0
                             /\ PassedAt(abi, k) - PassedAt(abi, 0) = k
    BY <1>2, <1>3, PassedFacts, StackFacts
  <2>1. \A k \in StackArgs : words[e + PassedAt(abi, k)] = args[<<"stack", k, 0>>]
    <3>1. TAKE k \in StackArgs
    <3>2. e + PassedAt(abi, k) \in slots
      OBVIOUS
    <3>3. PassedAt(abi, 0) \in Nat
      BY DEF PassedAt, Shadow
    <3>4. (e + PassedAt(abi, k)) - e - PassedAt(abi, 0) = k /\ ~(e + PassedAt(abi, k) = e /\ abi # "arm64")
      BY <1>3, <2>0, <3>3
    <3> HIDE DEF args, slots
    <3> QED BY <3>2, <3>4
  <2>2. abi # "arm64" => words[e] = ReturnAddress(n + 1)
    OBVIOUS
  <2>3. \A x \in DOMAIN words : x \in Nat /\ x < e + CallerFrame
    <3>1. \A x \in slots : x \in Nat /\ x < e + CallerFrame
      BY <1>2, <1>3, <2>0
    <3>2. abi # "arm64" => 0 < CallerFrame
      <4>1. PICK k \in StackArgs : TRUE
        BY PrehookFrameAssumption DEF HasMax
      <4> QED BY <1>2, <2>0, <4>1
    <3> HIDE DEF slots
    <3> QED BY <1>2, <1>3, <3>1, <3>2
  <2> QED BY <2>1, <2>2, <2>3
<1>13. \A x \in 0 .. Top : mem'[x] = IF x \in DOMAIN words THEN words[x] ELSE mem[x]
  <2> HIDE DEF words
  <2> QED BY <1>1, <1>2, StoreFacts
<1>14. FrameKept(abi, mem', rec, n + 1)
  <2>1. \A k \in StackArgs : mem'[e + PassedAt(abi, k)] = args[<<"stack", k, 0>>]
    <3>1. TAKE k \in StackArgs
    <3>2. e + PassedAt(abi, k) \in DOMAIN words /\ e + PassedAt(abi, k) \in 0 .. Top
      BY <1>2, <1>3, PassedFacts
    <3> HIDE DEF words, args
    <3> QED BY <1>12, <1>13, <3>2
  <2>2. abi # "arm64" => mem'[e] = ReturnAddress(n + 1)
    <3>1. e \in 0 .. Top
      BY <1>2, <1>3, StackFacts DEF Top, Shadow
    <3>2. abi # "arm64" => e \in DOMAIN words
      OBVIOUS
    <3> HIDE DEF words
    <3> QED BY <1>12, <1>13, <3>1, <3>2
  <2> HIDE DEF args
  <2> QED BY <1>5, <2>1, <2>2 DEF FrameKept
<1>15. \A m \in 1 .. n : FrameKept(abi, mem', calls[m], m)
  <2>1. TAKE m \in 1 .. n
  <2>2. calls[m].at = "prehook"
    BY <1>2, <1>3 DEF FrameInv, Entered
  <2>3. e + CallerFrame \in Int /\ \A x \in 0 .. Top : e + CallerFrame <= x => mem'[x] = mem[x]
    <3> HIDE DEF words
    <3> QED BY <1>2, <1>3, <1>12, <1>13
  <2> QED BY <1>10, <2>2, <2>3, OuterKept
<1>16. Kept'
  <2>1. \A m \in 1 .. n + 1 : m = n + 1 \/ m \in 1 .. n
    BY <1>2
  <2> QED BY <1>1, <1>6, <1>14, <1>15, <2>1 DEF Kept
<1>17. Innermost'
  <2>1. \A r \in Registers(abi) : r \in DOMAIN regs /\ r[1] # "ret"
    BY <1>2, RegisterForms DEF FrameInv, FrameTyped
  <2>2. \A r \in Registers(abi) : regs'[r] = args[r]
    BY <1>1, <2>1
  <2>3. RetPlace \in DOMAIN regs /\ RetPlace[1] = "ret"
    BY DEF FrameInv, FrameTyped, RetPlace
  <2>4. regs'[RetPlace] = ReturnAddress(n + 1)
    BY <1>1, <2>3
  <2>5. n + 1 # 0
    BY <1>2
  <2> HIDE DEF args
  <2> QED BY <1>1, <1>5, <1>6, <2>2, <2>4, <2>5 DEF Innermost, RegistersOf
<1> QED BY <1>7, <1>8, <1>9, <1>11, <1>16, <1>17 DEF FrameInv

\* A prehook changes an argument.
LEMMA ChangeKeeps ==
  ASSUME FrameInv, NEW p \in Accessible(abi), p[3] = 0, Change(p)
  PROVE  FrameInv'
<1> DEFINE n == Len(calls)
           c == calls[n]
           e == c.entry
           b == Base(abi, e)
           at == b + ArgSlot(abi, p)
           new == Word(p, n, FALSE)
<1>1. n \in Nat \ {0} /\ n \in 1 .. n /\ Last(calls) = c /\ c.at = "prehook"
  BY RunningFacts DEF FrameInv, Change
<1>2. bp = b /\ sp = CallSp(abi, b)
  BY <1>1 DEF FrameInv, Innermost, RegistersOf
<1>3. /\ mem' = Store(mem, [x \in {at} |-> new]) /\ calls' = WithArg(calls, p, new)
      /\ abi' = abi /\ regs' = regs /\ sp' = sp /\ bp' = bp
  BY <1>2 DEF Change, WithArg
<1>4. /\ c \in CallRecord(abi) /\ e \in Nat /\ e <= Max(StackTop) /\ EntryOK(abi, e)
      /\ abi \in Abis /\ abi \in AllAbis /\ DOMAIN mem = 0 .. Top /\ Top \in Nat /\ calls \in Seq(CallRecord(abi))
      /\ CallerFrame \in Nat
  BY <1>1, CallFacts, StackFacts DEF FrameInv, FrameTyped
<1>5. /\ b \in Nat /\ Owned(abi, b) <= b /\ b < e
      /\ abi = "arm64" => b + 1 < e
      /\ \A r \in Registers(abi) : /\ b + SaveSlot(abi, r) \in Nat /\ SaveSlot(abi, r) \in Int
                                   /\ b + SaveSlot(abi, r) < e
                                   /\ b + SaveSlot(abi, r) # b
                                   /\ abi = "arm64" => b + SaveSlot(abi, r) # b + 1
  BY <1>4, FrameGeometry
<1>6. \A k \in StackArgs : /\ PassedAt(abi, k) \in Nat /\ PassedAt(abi, k) < CallerFrame /\ k \in Nat
                           /\ e + PassedAt(abi, k) \in 0 .. Top
                           /\ abi # "arm64" => PassedAt(abi, k) # 0
                           /\ PassedAt(abi, k) - PassedAt(abi, 0) = k
  BY <1>4, PassedFacts, StackFacts
<1>7. p \in Places(abi) /\ new \in [place : Places(abi), call : Nat, fresh : BOOLEAN]
  BY <1>1 DEF Accessible, Places, Word
<1>8. /\ calls' \in Seq(CallRecord(abi)) /\ SameOutline(calls, calls')
      /\ calls'[n].at = "prehook"
      /\ \A q \in Places(abi) : calls'[n].args[q] = IF q = p THEN new ELSE c.args[q]
  <2>1. n # 0
    BY <1>1
  <2> HIDE DEF new
  <2> QED BY <1>1, <1>3, <1>4, <1>7, <2>1, SetArg
<1>9. \/ p \in Registers(abi) /\ at = b + SaveSlot(abi, p)
      \/ p \in StackPlaces /\ p[2] \in StackArgs /\ p = <<"stack", p[2], 0>> /\ at = e + PassedAt(abi, p[2])
  <2>1. CASE p \in StackPlaces
    BY <1>4, <2>1, ArgSlots DEF StackPlaces
  <2>2. CASE p \in Registers(abi) /\ p[1] # "more"
    BY <1>4, <2>2, ArgSlots
  <2> QED BY <2>1, <2>2 DEF Accessible
<1>10. at \in Nat /\ at < e + CallerFrame
  <2>1. CASE p \in Registers(abi) /\ at = b + SaveSlot(abi, p)
    <3>1. at \in Nat /\ at < e
      BY <1>5, <2>1
    <3> HIDE DEF at
    <3> QED BY <1>4, <3>1
  <2>2. CASE p \in StackPlaces /\ p[2] \in StackArgs /\ at = e + PassedAt(abi, p[2])
    BY <1>4, <1>6, <2>2
  <2> QED BY <1>9, <2>1, <2>2
<1>11. \A x \in 0 .. Top : mem'[x] = IF x = at THEN new ELSE mem[x]
  <2> HIDE DEF at, new
  <2> QED BY <1>3, <1>4, StoreFacts
<1>12. FrameTyped'
  <2> HIDE DEF at, new
  <2> QED BY <1>3, <1>8, StoreFacts DEF FrameInv, FrameTyped, SameOutline
<1>13. Entered' /\ CalledBy' /\ Nested'
  BY <1>3, <1>8, OutlineKept
<1>14. FrameKept(abi, mem, c, n)
  BY <1>1 DEF FrameInv, Kept
<1>15. \A m \in 1 .. n : m # n => FrameKept(abi, mem', calls[m], m)
  <2>1. TAKE m \in 1 .. n
  <2>2. HAVE m # n
  <2>3. m < n /\ calls[m].at = "prehook"
    BY <1>1, <2>2 DEF FrameInv, Entered
  <2>4. e + CallerFrame <= CallSp(abi, Base(abi, calls[m].entry))
    BY <1>1, <2>3 DEF FrameInv, Nested
  <2>5. e + CallerFrame \in Int /\ \A x \in 0 .. Top : e + CallerFrame <= x => mem'[x] = mem[x]
    <3> HIDE DEF at, new, e
    <3> QED BY <1>4, <1>10, <1>11
  <2> QED BY <2>3, <2>4, <2>5, OuterKept
<1>16. FrameKept(abi, mem', calls'[n], n)
  <2>1. ASSUME NEW k \in StackArgs
        PROVE  mem'[e + PassedAt(abi, k)] = calls'[n].args[<<"stack", k, 0>>]
    <3>1. <<"stack", k, 0>> \in Places(abi) /\ mem[e + PassedAt(abi, k)] = c.args[<<"stack", k, 0>>]
      BY <1>14 DEF FrameKept, Places, StackPlaces
    <3>2. e + PassedAt(abi, k) = at <=> <<"stack", k, 0>> = p
      <4>1. CASE p \in Registers(abi) /\ at = b + SaveSlot(abi, p)
        <5>1. p[1] # "stack"
          BY <1>4, <4>1, RegisterForms
        <5>2. at \in Nat /\ at < e
          BY <1>5, <4>1
        <5> HIDE DEF at
        <5> QED BY <1>4, <1>6, <5>1, <5>2
      <4>2. CASE p[2] \in StackArgs /\ p = <<"stack", p[2], 0>> /\ at = e + PassedAt(abi, p[2])
        <5>1. PassedAt(abi, k) \in Nat /\ PassedAt(abi, p[2]) \in Nat
          BY <1>6, <4>2
        <5>2. PassedAt(abi, k) - PassedAt(abi, 0) = k /\ PassedAt(abi, p[2]) - PassedAt(abi, 0) = p[2]
          BY <1>6, <4>2
        <5>3. e + PassedAt(abi, k) = at => PassedAt(abi, k) = PassedAt(abi, p[2])
          BY <1>4, <4>2, <5>1
        <5>4. e + PassedAt(abi, k) = at => k = p[2]
          BY <5>2, <5>3
        <5>5. p = <<"stack", k, 0>> => k = p[2]
          BY <4>2
        <5> QED BY <4>2, <5>4, <5>5
      <4> QED BY <1>9, <4>1, <4>2
    <3> HIDE DEF at, new
    <3> QED BY <1>6, <1>8, <1>11, <3>1, <3>2
  <2>2. ASSUME NEW r \in Registers(abi)
        PROVE  mem'[b + SaveSlot(abi, r)] = calls'[n].args[r]
    <3>1. r \in Places(abi) /\ mem[b + SaveSlot(abi, r)] = c.args[r] /\ r[1] # "stack"
      BY <1>1, <1>4, <1>14, RegisterForms DEF FrameKept, Places
    <3>2. b + SaveSlot(abi, r) = at <=> r = p
      <4>1. CASE p \in Registers(abi) /\ at = b + SaveSlot(abi, p)
        <5>1. b + SaveSlot(abi, r) = at => SaveSlot(abi, r) = SaveSlot(abi, p)
          BY <1>5, <4>1
        <5> QED BY <1>4, <4>1, <5>1, SaveSlotsDiffer
      <4>2. CASE p[2] \in StackArgs /\ p = <<"stack", p[2], 0>> /\ at = e + PassedAt(abi, p[2])
        <5>1. b + SaveSlot(abi, r) \in Nat /\ b + SaveSlot(abi, r) < e /\ PassedAt(abi, p[2]) \in Nat
          BY <1>5, <1>6, <4>2
        <5>2. p[1] = "stack"
          BY <4>2
        <5> QED BY <1>4, <3>1, <4>2, <5>1, <5>2
      <4> QED BY <1>9, <4>1, <4>2
    <3>3. b + SaveSlot(abi, r) \in 0 .. Top
      <4>1. e <= Top
        BY <1>4, StackFacts DEF Top, Shadow
      <4> HIDE DEF b, e
      <4> QED BY <1>4, <1>5, <4>1
    <3> HIDE DEF at, new
    <3> QED BY <1>8, <1>11, <3>1, <3>2, <3>3
  <2>3. /\ b \in 0 .. Top /\ b + 1 \in 0 .. Top /\ e \in 0 .. Top
        /\ at # b /\ (abi = "arm64" => at # b + 1) /\ (abi # "arm64" => at # e)
    <3>1. e <= Top
      BY <1>4, StackFacts DEF Top, Shadow
    <3>2. b \in 0 .. Top /\ b + 1 \in 0 .. Top /\ e \in 0 .. Top
      <4> HIDE DEF b, e
      <4> QED BY <1>4, <1>5, <3>1
    <3>3. CASE p \in Registers(abi) /\ at = b + SaveSlot(abi, p)
      <4>1. /\ b + SaveSlot(abi, p) < e /\ b + SaveSlot(abi, p) # b /\ b + SaveSlot(abi, p) \in Nat
            /\ abi = "arm64" => b + SaveSlot(abi, p) # b + 1
        BY <1>5, <3>3
      <4> HIDE DEF at, b, e
      <4> QED BY <1>4, <3>2, <3>3, <4>1
    <3>4. CASE p[2] \in StackArgs /\ at = e + PassedAt(abi, p[2])
      <4>1. PassedAt(abi, p[2]) \in Nat /\ (abi # "arm64" => PassedAt(abi, p[2]) # 0)
        BY <1>6, <3>4
      <4> HIDE DEF at, b, e
      <4> QED BY <1>4, <1>5, <3>2, <3>4, <4>1
    <3> QED BY <1>9, <3>2, <3>3, <3>4
  <2>4. /\ mem'[b] = FramePointer(c.bp) /\ (abi = "arm64" => mem'[b + 1] = ReturnAddress(n))
        /\ abi # "arm64" => mem'[e] = ReturnAddress(n)
    <3>1. /\ mem[b] = FramePointer(c.bp) /\ (abi = "arm64" => mem[b + 1] = ReturnAddress(n))
          /\ abi # "arm64" => mem[e] = ReturnAddress(n)
      BY <1>1, <1>14 DEF FrameKept
    <3> HIDE DEF at, new, b, e
    <3> QED BY <1>11, <2>3, <3>1
  <2>5. calls'[n].entry = e /\ calls'[n].bp = c.bp
    BY <1>1, <1>8 DEF SameOutline
  <2> HIDE DEF e, c
  <2> QED BY <2>1, <2>2, <2>4, <2>5 DEF FrameKept
<1>17. Kept'
  BY <1>3, <1>8, <1>15, <1>16 DEF Kept, SameOutline
<1>18. Innermost'
  <2>1. Len(calls') = n /\ calls'[n].at = "prehook" /\ calls'[n].entry = e
    BY <1>1, <1>8 DEF SameOutline
  <2> QED BY <1>1, <1>2, <1>3, <2>1 DEF Innermost, RegistersOf
<1> QED BY <1>12, <1>13, <1>17, <1>18 DEF FrameInv

\* The registers are restored and the frame is left.
LEMMA RestoreKeeps == ASSUME FrameInv, RestoreFrame PROVE FrameInv'
<1> DEFINE n == Len(calls)
           c == calls[n]
           e == c.entry
           b == Base(abi, e)
<1>1. n \in Nat \ {0} /\ n \in 1 .. n /\ Last(calls) = c /\ c.at = "prehook"
  BY RunningFacts DEF FrameInv, RestoreFrame
<1>2. bp = b /\ sp = CallSp(abi, b)
  BY <1>1 DEF FrameInv, Innermost, RegistersOf
<1>3. /\ c \in CallRecord(abi) /\ e \in Nat /\ EntryOK(abi, e)
      /\ abi \in Abis /\ abi \in AllAbis /\ calls \in Seq(CallRecord(abi))
  BY <1>1, CallFacts DEF FrameInv, FrameTyped
<1>4. b \in Nat /\ IF abi = "arm64" THEN b = CallSp(abi, b) /\ b + 28 = e ELSE b + 1 = e
  BY <1>3, FrameGeometry
<1>5. FrameKept(abi, mem, c, n)
  BY <1>1 DEF FrameInv, Kept
<1>6. /\ \A r \in Registers(abi) : mem[b + SaveSlot(abi, r)] = c.args[r]
      /\ mem[b] = FramePointer(c.bp) /\ (abi = "arm64" => mem[b + 1] = ReturnAddress(n))
  BY <1>1, <1>5 DEF FrameKept
<1>7. abi' = abi /\ mem' = mem /\ calls' = WithAt(calls, "hook") /\ DOMAIN regs' = DOMAIN regs
  BY DEF RestoreFrame, WithAt
<1>8. sp' = e
  <2>1. sp' = IF abi = "arm64" THEN sp + 28 ELSE bp + 1
    BY DEF RestoreFrame
  <2> QED BY <1>2, <1>4, <2>1
<1>9. bp' = c.bp
  <2>1. bp' = mem[IF abi = "arm64" THEN sp ELSE bp].place[2]
    BY DEF RestoreFrame
  <2>2. (IF abi = "arm64" THEN sp ELSE bp) = b
    BY <1>2, <1>4
  <2>3. FramePointer(c.bp).place = <<"frame", c.bp, 0>>
    BY DEF FramePointer, Word
  <2> QED BY <1>6, <2>1, <2>2, <2>3
<1>10. \A r \in Registers(abi) : regs'[r] = c.args[r]
  <2>1. TAKE r \in Registers(abi)
  <2>2. r \in DOMAIN regs /\ r[1] # "ret"
    BY <1>3, RegisterForms DEF FrameInv, FrameTyped
  <2>3. regs'[r] = mem[bp + RestoreSlot(abi, r)]
    BY <2>2 DEF RestoreFrame
  <2> QED BY <1>2, <1>6, <2>3 DEF RestoreSlot
<1>11. abi = "arm64" => regs'[RetPlace] = ReturnAddress(n)
  <2>1. HAVE abi = "arm64"
  <2>2. RetPlace \in DOMAIN regs /\ RetPlace[1] = "ret"
    BY DEF FrameInv, FrameTyped, RetPlace
  <2>3. regs'[RetPlace] = mem[sp + 1]
    BY <2>1, <2>2 DEF RestoreFrame
  <2>4. sp = b
    BY <1>2, <1>4, <2>1
  <2> QED BY <1>6, <2>1, <2>3, <2>4
<1>12. /\ calls' \in Seq(CallRecord(abi)) /\ SameOutline(calls, calls')
       /\ calls'[n].at = "hook" /\ calls'[n].args = c.args
  <2>1. n # 0
    BY <1>1
  <2> QED BY <1>3, <1>7, <2>1, SetAt
<1>13. Len(calls') = n /\ calls'[n].entry = e /\ calls'[n].bp = c.bp
  BY <1>1, <1>12 DEF SameOutline
<1>14. FrameTyped'
  BY <1>3, <1>7, <1>8, <1>12, <1>13 DEF FrameInv, FrameTyped
<1>15. Entered' /\ CalledBy' /\ Nested'
  BY <1>7, <1>12, OutlineKept
<1>16. FrameKept(abi, mem, calls'[n], n)
  BY <1>5, <1>12, <1>13 DEF FrameKept
<1>17. Kept'
  BY <1>7, <1>12, <1>13, <1>16 DEF FrameInv, Kept, SameOutline
<1>18. Innermost'
  BY <1>1, <1>7, <1>8, <1>9, <1>10, <1>11, <1>12, <1>13 DEF Innermost, RegistersOf
<1> QED BY <1>14, <1>15, <1>17, <1>18 DEF FrameInv

\* All but the last element of a sequence.
LEMMA FrontFacts ==
  ASSUME NEW S, NEW s \in Seq(S), Len(s) # 0
  PROVE  /\ Front(s) \in Seq(S) /\ Len(Front(s)) = Len(s) - 1
         /\ \A i \in 1 .. Len(s) - 1 : Front(s)[i] = s[i]
<1>1. Len(s) \in Nat /\ Len(s) - 1 \in Nat
  OBVIOUS
<1>2. Front(s) = SubSeq(s, 1, Len(s) - 1)
  BY DEF Front
<1>3. \A m \in 1 .. Len(s) + 1 : \A l \in m - 1 .. Len(s) :
        /\ SubSeq(s, m, l) \in Seq(S) /\ Len(SubSeq(s, m, l)) = l - m + 1
        /\ \A i \in 1 .. l - m + 1 : SubSeq(s, m, l)[i] = s[m + i - 1]
  BY SubSeqProperties
<1>4. 1 \in 1 .. Len(s) + 1 /\ Len(s) - 1 \in (1 - 1) .. Len(s)
  BY <1>1
<1>5. /\ Front(s) \in Seq(S) /\ Len(Front(s)) = (Len(s) - 1) - 1 + 1
      /\ \A i \in 1 .. (Len(s) - 1) - 1 + 1 : Front(s)[i] = s[1 + i - 1]
  BY <1>2, <1>3, <1>4
<1>6. (Len(s) - 1) - 1 + 1 = Len(s) - 1 /\ \A i \in 1 .. Len(s) - 1 : 1 + i - 1 = i
  BY <1>1
<1> QED BY <1>5, <1>6

\* The hook function returns.
LEMMA ReturnKeeps == ASSUME FrameInv, ReturnFromHook PROVE FrameInv'
<1> DEFINE n == Len(calls)
           c == calls[n]
<1>1. n \in Nat \ {0} /\ n \in 1 .. n /\ Last(calls) = c /\ c.at = "hook"
  BY RunningFacts DEF FrameInv, ReturnFromHook
<1>2. /\ abi' = abi /\ mem' = mem /\ bp' = bp /\ sp' = c.sp /\ calls' = Front(calls)
      /\ DOMAIN regs' = DOMAIN regs
  BY <1>1 DEF ReturnFromHook
<1>3. calls \in Seq(CallRecord(abi)) /\ c \in CallRecord(abi)
  BY <1>1, CallFacts DEF FrameInv, FrameTyped
<1>4. /\ calls' \in Seq(CallRecord(abi)) /\ Len(calls') = n - 1
      /\ \A i \in 1 .. n - 1 : calls'[i] = calls[i]
  <2>1. n # 0
    BY <1>1
  <2> QED BY <1>2, <1>3, <2>1, FrontFacts
<1>5. \A i \in 1 .. n - 1 : i \in 1 .. n /\ i < n /\ (i > 1 => i - 1 \in 1 .. n - 1)
  BY <1>1
<1>6. FrameTyped'
  <2>1. c.sp \in Int
    BY <1>3 DEF CallRecord
  <2> QED BY <1>1, <1>2, <1>4, <2>1, StackFacts DEF FrameInv, FrameTyped
<1>7. Entered'
  BY <1>2, <1>4, <1>5 DEF FrameInv, Entered
<1>8. CalledBy'
  <2>1. n - 1 > 0 => calls'[1].bp = 0
    <3>1. HAVE n - 1 > 0
    <3>2. 1 \in 1 .. n - 1 /\ n > 0
      BY <1>1, <3>1
    <3> QED BY <1>4, <3>2 DEF FrameInv, CalledBy
  <2> QED BY <1>2, <1>4, <1>5, <2>1 DEF FrameInv, CalledBy
<1>9. Nested'
  BY <1>2, <1>4, <1>5 DEF FrameInv, Nested
<1>10. Kept'
  BY <1>2, <1>4, <1>5 DEF FrameInv, Kept
<1>11. Innermost'
  <2>1. bp = c.bp
    BY <1>1 DEF FrameInv, Innermost, RegistersOf
  <2>2. CASE n = 1
    <3>1. bp = 0 /\ n - 1 = 0
      BY <1>1, <2>1, <2>2 DEF FrameInv, CalledBy
    <3>2. Len(calls') = 0 /\ bp' = 0
      BY <1>2, <1>4, <3>1
    <3> QED BY <3>2 DEF Innermost
  <2>3. CASE n # 1
    <3>1. n > 1 /\ n - 1 \in 1 .. n - 1 /\ n - 1 # 0 /\ n - 1 \in 1 .. n /\ n - 1 < n
      <4> HIDE DEF n
      <4> QED BY <1>1, <2>3
    <3>2. calls'[n - 1] = calls[n - 1] /\ calls[n - 1].at = "prehook"
      BY <1>4, <3>1 DEF FrameInv, Entered
    <3>3. c.bp = Base(abi, calls[n - 1].entry) /\ c.sp = CallSp(abi, Base(abi, calls[n - 1].entry))
      BY <1>1, <3>1 DEF FrameInv, CalledBy
    <3> QED BY <1>2, <1>4, <2>1, <3>1, <3>2, <3>3 DEF Innermost, RegistersOf
  <2> QED BY <2>2, <2>3
<1> QED BY <1>6, <1>7, <1>8, <1>9, <1>10, <1>11 DEF FrameInv

\* FrameInv is inductive.
LEMMA FrameStep == FrameInv /\ [FrameNext]_frameVars => FrameInv'
<1> SUFFICES ASSUME FrameInv, [FrameNext]_frameVars PROVE FrameInv'
  OBVIOUS
<1>1. CASE \E e \in (IF calls = <<>> THEN StackTop ELSE {sp - CallerFrame}) : CallTarget(e)
  BY <1>1, CallKeeps
<1>2. CASE Save
  BY <1>2, SaveKeeps
<1>3. CASE \E p \in Accessible(abi) : p[3] = 0 /\ Change(p)
  BY <1>3, ChangeKeeps
<1>4. CASE RestoreFrame
  BY <1>4, RestoreKeeps
<1>5. CASE ReturnFromHook
  BY <1>5, ReturnKeeps
<1>6. CASE UNCHANGED frameVars
  BY <1>6 DEF FrameInv, FrameTyped, Entered, CalledBy, Nested, Kept, Innermost, RegistersOf, frameVars
<1> QED BY <1>1, <1>2, <1>3, <1>4, <1>5, <1>6 DEF FrameNext

\* In every prehook in progress, whatever the calls it makes have done,
\* funchook_arg_get_* yield the arguments, and C code runs on an aligned stack:
\* for every stack, every number of nested calls and every position of an
\* argument on the stack.
THEOREM PrehookSeesArgumentsTheorem == FrameSpec => []PrehookSeesArguments
<1>1. FrameInv => PrehookSeesArguments
  <2> SUFFICES ASSUME FrameInv, NEW n \in DOMAIN calls, calls[n].at = "prehook"
               PROVE  /\ \A p \in Accessible(abi) : mem[Base(abi, calls[n].entry) + ArgSlot(abi, p)] = calls[n].args[p]
                      /\ n = Len(calls) => sp % Alignment(abi) = 0
    BY DEF PrehookSeesArguments
  <2>1. n \in 1 .. Len(calls) /\ Len(calls) \in Nat
    BY DEF FrameInv, FrameTyped
  <2>2. abi \in AllAbis /\ EntryOK(abi, calls[n].entry)
    BY <2>1, CallFacts DEF FrameInv
  <2>3. FrameKept(abi, mem, calls[n], n)
    BY <2>1 DEF FrameInv, Kept
  <2>4. ASSUME NEW p \in Accessible(abi)
        PROVE  mem[Base(abi, calls[n].entry) + ArgSlot(abi, p)] = calls[n].args[p]
    <3>1. CASE p \in Registers(abi) /\ p[1] # "more"
      BY <2>2, <2>3, <3>1, ArgSlots DEF FrameKept
    <3>2. CASE p \in StackPlaces
      <4>1. p[2] \in StackArgs /\ p = <<"stack", p[2], 0>>
        BY <3>2 DEF StackPlaces
      <4>2. Base(abi, calls[n].entry) + ArgSlot(abi, p) = calls[n].entry + PassedAt(abi, p[2])
        BY <2>2, <3>2, ArgSlots
      <4> QED BY <2>3, <4>1, <4>2 DEF FrameKept
    <3> QED BY <3>1, <3>2 DEF Accessible
  <2>5. n = Len(calls) => sp % Alignment(abi) = 0
    <3>1. HAVE n = Len(calls)
    <3>2. sp = CallSp(abi, Base(abi, calls[n].entry))
      BY <2>1, <3>1 DEF FrameInv, Innermost, RegistersOf
    <3> QED BY <2>2, <3>2, FrameGeometry
  <2> QED BY <2>4, <2>5
<1> QED BY <1>1, FrameInitial, FrameStep, PTL DEF FrameSpec

\* The hook function finds the registers, the stack, the frame pointer and the
\* return address of the call of the target, but for what the prehook changed.
THEOREM HookGetsCallTheorem == FrameSpec => []HookGetsCall
<1>1. FrameInv => HookGetsCall
  <2> SUFFICES ASSUME FrameInv, Running = "hook"
               PROVE  /\ \A r \in Registers(abi) : regs[r] = Last(calls).args[r]
                      /\ \A k \in StackArgs : mem[Last(calls).entry + PassedAt(abi, k)] = Last(calls).args[<<"stack", k, 0>>]
                      /\ sp = Last(calls).entry /\ bp = Last(calls).bp
                      /\ (IF abi = "arm64" THEN regs[<<"ret", 0, 0>>] ELSE mem[Last(calls).entry]) = ReturnAddress(Len(calls))
    BY DEF HookGetsCall
  <2>1. /\ Len(calls) \in Nat \ {0} /\ Len(calls) \in 1 .. Len(calls)
        /\ Last(calls) = calls[Len(calls)] /\ calls[Len(calls)].at = "hook"
    BY RunningFacts DEF FrameInv
  <2>2. FrameKept(abi, mem, calls[Len(calls)], Len(calls))
    BY <2>1 DEF FrameInv, Kept
  <2>3. RegistersOf(calls[Len(calls)], Len(calls)) /\ calls[Len(calls)].at # "prehook"
    BY <2>1 DEF FrameInv, Innermost
  <2> QED BY <2>1, <2>2, <2>3 DEF FrameKept, RegistersOf, RetPlace
<1> QED BY <1>1, FrameInitial, FrameStep, PTL DEF FrameSpec
=============================================================================
