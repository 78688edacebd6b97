----------------------- MODULE Arm64TrampolineProofs -----------------------
(***************************************************************************)
(* Proofs about Arm64Trampoline, for every set of registers and of offsets *)
(* that instructions refer to, and every address of the page.              *)
(***************************************************************************)
EXTENDS Arm64Trampoline, WellFoundedInduction, TLAPS

PCs     == {"move", "scan", "made", "ready", "failed"}
AnyWord == [op : {"copy", "lit", "br", "blr", "mem", "skip"}, reg : Nat, lit : Nat]

\* Each of the two instructions moved takes at most 3 words and one literal.
Counted ==
  /\ pc \in PCs /\ src \in 0 .. 2
  /\ words \in Seq(AnyWord) /\ pool \in Seq(Int)
  /\ Len(words) <= LITERAL_POOL_OFFSET /\ Len(pool) <= LITERAL_POOL_NUM
  /\ pc = "move" => Len(words) <= 3 * src /\ Len(pool) <= src

\* The registers left are those of no instruction moved.
Registers ==
  /\ read \in Seq(Insns) /\ moved \in Seq(Nat)
  /\ avail_regs \subseteq Regs
  /\ pc = "move" => /\ Len(moved) = Len(read)
                    /\ \A k \in DOMAIN read : avail_regs \cap read[k].regs = {}

\* The last word of what begins at moved[m].
LastOf(m) == IF m = Len(moved) THEN Len(words) ELSE moved[m + 1] - 1

\* A word of what begins at moved[m] uses no register of an instruction moved
\* before it or of the one it stands for.
FreeWords ==
  pc \in {"move", "scan", "made"} =>
    /\ Len(moved) <= Len(read) + 1
    /\ \A m \in DOMAIN moved : \A n \in moved[m] .. LastOf(m) :
         /\ n \in DOMAIN words
         /\ words[n].reg = 0 \/ \A k \in DOMAIN read : k <= m /\ (k < Len(moved) \/ pc = "move") => words[n].reg \notin read[k].regs

Placed ==
  pc = "ready" => \E p \in PagesAt : entry.page = p /\ entry.new_code = Relative4gJump(Func, p)

AInv == Counted /\ Registers /\ FreeWords /\ Placed
-----------------------------------------------------------------------------
\* to_regno finds a register when one is left.
LEMMA ToRegnoIn ==
  ASSUME NEW S \in SUBSET Regs, S # {}
  PROVE  ToRegno(S) \in S
<1>1. S \subseteq Nat
  BY Arm64Assumption
<1> DEFINE R == OpToRel(<, Nat)
<1>2. IsWellFoundedOn(R, Nat)
  BY NatLessThanWellFounded
<1>r. \A q, r \in Nat : q < r => <<q, r>> \in R
  BY DEF OpToRel
<1> HIDE DEF R
<1>w. \E r \in S : \A q \in S : ~(<<q, r>> \in R)
  BY <1>1, <1>2, WFMin
<1>3. \E r \in S : \A q \in S : r <= q
  <2>1. PICK r \in S : \A q \in S : ~(<<q, r>> \in R)
    BY <1>w
  <2>2. r \in Nat
    BY <1>1
  <2>3. ASSUME NEW q \in S PROVE r <= q
    <3>1. q \in Nat /\ ~(q < r)
      BY <1>1, <1>r, <2>1, <2>2
    <3> QED BY <2>2, <3>1
  <2> QED BY <2>3
<1> QED BY <1>3 DEF ToRegno

LEMMA InsnParts ==
  ASSUME NEW x \in Insns
  PROVE  x.kind \in {"other"} \cup Refer /\ x.to \in Int /\ x.regs \in SUBSET Regs
<1>1. CASE x \in [kind : {"other"}, to : {0}, regs : RegSets]
  <2>1. x.kind = "other" /\ x.to = 0 /\ x.regs \in RegSets
    BY <1>1
  <2>2. x.regs \in SUBSET Regs
    BY <2>1, Arm64Assumption
  <2> QED BY <2>1, <2>2
<1>2. CASE x \in [kind : Refer, to : Refs, regs : RegSets]
  <2>1. x.kind \in Refer /\ x.to \in Refs /\ x.regs \in RegSets
    BY <1>2
  <2>2. x.to \in Int
    BY <2>1, Arm64Assumption
  <2>3. x.regs \in SUBSET Regs
    BY <2>1, Arm64Assumption
  <2> QED BY <2>1, <2>2, <2>3
<1> QED BY <1>1, <1>2 DEF Insns

\* What replaces an instruction: 1 to 3 words, and no register but r.
LEMMA RewriteWords ==
  ASSUME NEW x \in Insns, NEW r \in Nat, NEW k \in Nat
  PROVE  LET ws == Rewrite(x, r, k)
         IN  ws \in Seq(AnyWord) /\ Len(ws) \in 1 .. 3 /\ \A n \in DOMAIN ws : ws[n].reg \in {0, r}
<1> DEFINE ws == Rewrite(x, r, k)
           good(s) == s \in Seq(AnyWord) /\ Len(s) \in 1 .. 3 /\ \A n \in DOMAIN s : s[n].reg \in {0, r}
<1>1. \A reg \in Nat, lit \in Nat : \A op \in {"copy", "lit", "br", "blr", "mem", "skip"} :
        Word(op, reg, lit) \in AnyWord /\ Word(op, reg, lit).reg = reg
  BY DEF Word, AnyWord
<1>2. ASSUME NEW a \in AnyWord, a.reg \in {0, r} PROVE good(<<a>>)
  BY <1>2
<1>3. ASSUME NEW a \in AnyWord, a.reg \in {0, r}, NEW b \in AnyWord, b.reg \in {0, r} PROVE good(<<a, b>>)
  BY <1>3
<1>4. ASSUME NEW a \in AnyWord, a.reg \in {0, r}, NEW b \in AnyWord, b.reg \in {0, r},
             NEW c \in AnyWord, c.reg \in {0, r}
      PROVE  good(<<a, b, c>>)
  BY <1>4
<1>5. x.kind \in {"other"} \cup Refer
  BY InsnParts
<1> HIDE DEF good
<1>6. CASE x.kind = "other"
  <2>1. ws = <<Word("copy", 0, 0)>>
    BY <1>6 DEF Rewrite, Conditional
  <2> QED BY <2>1, <1>1, <1>2 DEF good
<1>7. CASE x.kind \in {"adr", "adrp"}
  <2>1. ws = <<Word("lit", 0, k)>>
    BY <1>7 DEF Rewrite, Conditional
  <2> QED BY <2>1, <1>1, <1>2 DEF good
<1>8. CASE x.kind \in {"b", "bal"}
  <2>1. ws = <<Word("lit", r, k), Word("br", r, 0)>>
    BY <1>8 DEF Rewrite, Conditional
  <2> QED BY <2>1, <1>1, <1>3 DEF good
<1>9. CASE x.kind = "bl"
  <2>1. ws = <<Word("lit", r, k), Word("blr", r, 0)>>
    BY <1>9 DEF Rewrite, Conditional
  <2> QED BY <2>1, <1>1, <1>3 DEF good
<1>10. CASE x.kind = "load"
  <2>1. ws = <<Word("lit", r, k), Word("mem", r, 0)>>
    BY <1>10 DEF Rewrite, Conditional
  <2> QED BY <2>1, <1>1, <1>3 DEF good
<1>11. CASE x.kind \in Conditional
  <2>1. ws = <<Word("skip", 0, 0), Word("lit", r, k), Word("br", r, 0)>>
    BY <1>11 DEF Rewrite, Conditional
  <2> QED BY <2>1, <1>1, <1>4 DEF good
<1> QED BY <1>5, <1>6, <1>7, <1>8, <1>9, <1>10, <1>11 DEF Refer, Jumps, Conditional

LEMMA InitAInv == Init => AInv
BY DEF Init, AInv, Counted, Registers, FreeWords, Placed, PCs, LITERAL_POOL_OFFSET, LITERAL_POOL_NUM, REL4G_JUMP_SIZE

\* New words behind the others leave them, and where they begin and end.
LEMMA AppendWords ==
  ASSUME NEW ws \in Seq(AnyWord), words \in Seq(AnyWord), words' = words \o ws,
         moved \in Seq(Nat), moved' = Append(moved, Len(words) + 1),
         \A m \in DOMAIN moved : \A n \in moved[m] .. LastOf(m) : n \in DOMAIN words
  PROVE  /\ \A m \in DOMAIN moved : /\ moved'[m] .. LastOf(m)' = moved[m] .. LastOf(m)
                                    /\ \A n \in moved[m] .. LastOf(m) : n \in DOMAIN words' /\ words'[n] = words[n]
         /\ \A m \in DOMAIN moved' : m = Len(moved) + 1 =>
              \A n \in moved'[m] .. LastOf(m)' :
                n \in DOMAIN words' /\ \E j \in DOMAIN ws : words'[n] = ws[j]
<1>1. /\ Len(words) \in Nat /\ Len(ws) \in Nat /\ Len(moved) \in Nat /\ Len(words') = Len(words) + Len(ws)
      /\ DOMAIN words' = 1 .. Len(words) + Len(ws) /\ DOMAIN words = 1 .. Len(words) /\ DOMAIN ws = 1 .. Len(ws)
      /\ \A n \in DOMAIN words : words'[n] = words[n]
      /\ \A n \in 1 .. Len(ws) : words'[Len(words) + n] = ws[n]
  OBVIOUS
<1>2. /\ Len(moved') = Len(moved) + 1 /\ moved'[Len(moved) + 1] = Len(words) + 1
      /\ DOMAIN moved = 1 .. Len(moved) /\ \A m \in DOMAIN moved : moved'[m] = moved[m] /\ moved[m] \in Nat
  OBVIOUS
<1>3. ASSUME NEW m \in DOMAIN moved PROVE LastOf(m)' = LastOf(m)
  <2>1. m \in Nat /\ m <= Len(moved) /\ m # Len(moved')
    BY <1>1, <1>2
  <2>2. CASE m = Len(moved)
    <3>1. LastOf(m)' = moved'[m + 1] - 1 /\ LastOf(m) = Len(words)
      BY <2>1, <2>2 DEF LastOf
    <3>2. moved'[m + 1] = Len(words) + 1
      BY <2>2, <1>2
    <3>3. (Len(words) + 1) - 1 = Len(words)
      BY <1>1
    <3> QED BY <3>1, <3>2, <3>3, Zenon
  <2>3. CASE m # Len(moved)
    <3>1. m + 1 \in DOMAIN moved
      BY <2>1, <2>3, <1>1, <1>2
    <3> QED BY <2>1, <2>3, <3>1, <1>2 DEF LastOf
  <2> QED BY <2>2, <2>3
<1>4. \A m \in DOMAIN moved : /\ moved'[m] .. LastOf(m)' = moved[m] .. LastOf(m)
                              /\ \A n \in moved[m] .. LastOf(m) : n \in DOMAIN words' /\ words'[n] = words[n]
  BY <1>1, <1>2, <1>3
<1>5. ASSUME NEW m, m = Len(moved) + 1 PROVE LastOf(m)' = Len(words) + Len(ws) /\ moved'[m] = Len(words) + 1
  BY <1>1, <1>2, <1>5 DEF LastOf
<1>6. ASSUME NEW n \in Len(words) + 1 .. Len(words) + Len(ws)
      PROVE  n \in DOMAIN words' /\ \E j \in DOMAIN ws : words'[n] = ws[j]
  <2>1. n - Len(words) \in DOMAIN ws /\ n = Len(words) + (n - Len(words))
    BY <1>1
  <2>2. words'[n] = ws[n - Len(words)]
    BY <2>1, <1>1
  <2>3. n \in DOMAIN words'
    BY <1>1
  <2> QED BY <2>1, <2>2, <2>3
<1>7. \A m \in DOMAIN moved' : m = Len(moved) + 1 =>
        \A n \in moved'[m] .. LastOf(m)' :
          n \in DOMAIN words' /\ \E j \in DOMAIN ws : words'[n] = ws[j]
  BY <1>5, <1>6, Zenon
<1> QED BY <1>4, <1>7, Zenon

LEMMA MoveStep ==
  ASSUME AInv, NEW x \in Insns, MoveInsn(x)
  PROVE  AInv'
<1> DEFINE r == IF NeedsScratch(x) THEN ToRegno(Left(x)) ELSE 0
           ws == Rewrite(x, r, Len(pool) + 1)
<1>0. /\ pc = "move" /\ pc' = "move" /\ src \in 0 .. 1 /\ src' \in 0 .. 2 /\ src' >= src + 1
      /\ read' = Append(read, x) /\ avail_regs' = Left(x) /\ words' = words \o ws
      /\ pool' = (IF x.kind = "other" THEN pool ELSE Append(pool, x.to))
      /\ moved' = Append(moved, Len(words) + 1)
  BY DEF MoveInsn, Advance, AInv, Counted, REL4G_JUMP_SIZE
<1>1. /\ words \in Seq(AnyWord) /\ pool \in Seq(Int) /\ read \in Seq(Insns) /\ moved \in Seq(Nat)
      /\ avail_regs \subseteq Regs /\ Len(moved) = Len(read) /\ Len(words) <= 3 * src /\ Len(pool) <= src
      /\ Len(words) \in Nat /\ Len(pool) \in Nat /\ Len(read) \in Nat
  BY <1>0 DEF AInv, Counted, Registers
<1>2. x.to \in Int /\ x.regs \in SUBSET Regs
  BY InsnParts
<1>3. r \in Nat /\ (r = 0 \/ r \in Left(x))
  <2>1. NeedsScratch(x) => Left(x) # {} /\ Left(x) \in SUBSET Regs
    BY <1>1 DEF MoveInsn, Left
  <2>2. NeedsScratch(x) => ToRegno(Left(x)) \in Left(x)
    BY <2>1, ToRegnoIn
  <2>3. NeedsScratch(x) => ToRegno(Left(x)) \in Nat
    BY <2>1, <2>2, Arm64Assumption
  <2> QED BY <2>2, <2>3
<1>4. ws \in Seq(AnyWord) /\ Len(ws) <= 3 /\ \A n \in DOMAIN ws : ws[n].reg \in {0, r}
  <2> HIDE DEF r
  <2>0. r \in Nat /\ Len(pool) + 1 \in Nat
    BY <1>1, <1>3
  <2>1. ws \in Seq(AnyWord) /\ Len(ws) \in 1 .. 3 /\ \A n \in DOMAIN ws : ws[n].reg \in {0, r}
    BY <2>0, RewriteWords, Zenon
  <2> HIDE DEF ws
  <2> QED BY <2>1
<1> HIDE DEF r, ws
<1>5. Counted'
  <2>1. words' \in Seq(AnyWord) /\ Len(words') = Len(words) + Len(ws) /\ Len(ws) \in Nat
    BY <1>0, <1>1, <1>4
  <2>2. pool' \in Seq(Int) /\ Len(pool') <= Len(pool) + 1
    BY <1>0, <1>1, <1>2
  <2>3. Len(words') <= 3 * src' /\ Len(words') <= 6 /\ Len(pool') <= src' /\ Len(pool') <= 3
    <3>1. src \in 0 .. 1 /\ src' \in 0 .. 2 /\ src' >= src + 1 /\ Len(words) <= 3 * src /\ Len(pool) <= src
      BY <1>0, <1>1
    <3>2. /\ Len(words) \in Nat /\ Len(pool) \in Nat /\ Len(ws) \in Nat /\ Len(ws) <= 3 /\ Len(pool') \in Nat
          /\ Len(words') = Len(words) + Len(ws) /\ Len(pool') <= Len(pool) + 1
      BY <1>1, <1>4, <2>1, <2>2
    <3>3. \A w, p, q, a, b, c, d \in Nat :
            /\ c <= 1 /\ d <= 2 /\ d >= c + 1 /\ w <= 3 * c /\ p <= c /\ a <= 3 /\ b = w + a /\ q <= p + 1
            => b <= 3 * d /\ b <= 6 /\ q <= d /\ q <= 3
      OBVIOUS
    <3>4. src \in Nat /\ src <= 1 /\ src' \in Nat /\ src' <= 2 /\ Len(words') \in Nat
      BY <3>1, <3>2
    <3> QED BY <3>1, <3>2, <3>3, <3>4
  <2> QED BY <1>0, <2>1, <2>2, <2>3 DEF Counted, PCs, LITERAL_POOL_OFFSET, LITERAL_POOL_NUM, REL4G_JUMP_SIZE
<1>6. /\ read' \in Seq(Insns) /\ moved' \in Seq(Nat) /\ Len(moved') = Len(read')
      /\ Len(read') = Len(read) + 1 /\ DOMAIN moved' = 1 .. Len(read) + 1
      /\ \A k \in DOMAIN read' : (k = Len(read) + 1 /\ read'[k] = x) \/ (k \in DOMAIN read /\ read'[k] = read[k])
  <2>0. Len(read) \in Nat /\ Len(moved) = Len(read) /\ DOMAIN read = 1 .. Len(read)
    BY <1>1
  <2>1. /\ read' \in Seq(Insns) /\ Len(read') = Len(read) + 1 /\ DOMAIN read' = 1 .. Len(read) + 1
        /\ read'[Len(read) + 1] = x /\ \A k \in 1 .. Len(read) : read'[k] = read[k]
    BY <1>0, <1>1
  <2>2. moved' \in Seq(Nat) /\ Len(moved') = Len(moved) + 1 /\ DOMAIN moved' = 1 .. Len(moved) + 1
    BY <1>0, <1>1
  <2>3. \A k \in 1 .. Len(read) + 1 : k = Len(read) + 1 \/ k \in 1 .. Len(read)
    BY <2>0
  <2> QED BY <2>0, <2>1, <2>2, <2>3
<1>7. Left(x) \subseteq Regs /\ \A k \in DOMAIN read' : Left(x) \cap read'[k].regs = {}
  <2>1. \A k \in DOMAIN read : Left(x) \cap read[k].regs = {}
    BY <1>0 DEF AInv, Registers, Left
  <2>2. Left(x) \cap x.regs = {}
    BY DEF Left
  <2>3. Left(x) \subseteq Regs
    BY <1>1 DEF Left
  <2> QED BY <1>6, <2>1, <2>2, <2>3
<1>8. Registers'
  BY <1>0, <1>6, <1>7 DEF Registers
<1>9. \A m \in DOMAIN moved : \A n \in moved[m] .. LastOf(m) :
        /\ n \in DOMAIN words
        /\ words[n].reg = 0 \/ \A k \in DOMAIN read : k <= m => words[n].reg \notin read[k].regs
  BY <1>0 DEF AInv, FreeWords
<1>10. /\ \A m \in DOMAIN moved : /\ moved'[m] .. LastOf(m)' = moved[m] .. LastOf(m)
                                  /\ \A n \in moved[m] .. LastOf(m) : n \in DOMAIN words' /\ words'[n] = words[n]
       /\ \A m \in DOMAIN moved' : m = Len(moved) + 1 =>
            \A n \in moved'[m] .. LastOf(m)' : n \in DOMAIN words' /\ \E j \in DOMAIN ws : words'[n] = ws[j]
  BY <1>0, <1>1, <1>4, <1>9, AppendWords
<1>11. ASSUME NEW m \in DOMAIN moved', NEW n \in moved'[m] .. LastOf(m)'
       PROVE  /\ n \in DOMAIN words'
              /\ words'[n].reg = 0 \/ \A k \in DOMAIN read' : k <= m => words'[n].reg \notin read'[k].regs
  <2>1. CASE m \in DOMAIN moved
    <3>1. n \in moved[m] .. LastOf(m) /\ n \in DOMAIN words' /\ words'[n] = words[n]
      BY <2>1, <1>10
    <3>2. m <= Len(read) /\ m \in Nat
      BY <2>1, <1>1
    <3>3. \A k \in DOMAIN read' : k <= m => k \in DOMAIN read /\ read'[k] = read[k]
      <4>1. Len(read) \in Nat
        BY <1>1
      <4>2. ~(Len(read) + 1 <= m)
        BY <3>2, <4>1
      <4> QED BY <4>2, <1>6, Zenon
    <3> QED BY <2>1, <3>1, <3>3, <1>9
  <2>2. CASE m = Len(moved) + 1
    <3>1. n \in DOMAIN words' /\ \E j \in DOMAIN ws : words'[n] = ws[j]
      BY <2>2, <1>10
    <3>2. words'[n].reg \in {0, r}
      BY <3>1, <1>4
    <3>3. r = 0 \/ \A k \in DOMAIN read' : r \notin read'[k].regs
      BY <1>3, <1>7
    <3> QED BY <3>1, <3>2, <3>3
  <2>3. m \in DOMAIN moved \/ m = Len(moved) + 1
    BY <1>1, <1>6
  <2> QED BY <2>1, <2>2, <2>3
<1>12. FreeWords'
  <2>1. Len(moved') <= Len(read') + 1
    BY <1>1, <1>6
  <2> QED BY <2>1, <1>11 DEF FreeWords
<1> QED BY <1>0, <1>5, <1>8, <1>12 DEF AInv, Placed

LEMMA JumpBackStep ==
  ASSUME AInv, JumpBack
  PROVE  AInv'
<1>0. pc = "move" /\ src = 2
  BY DEF JumpBack, AInv, Counted, REL4G_JUMP_SIZE
<1>1. /\ words \in Seq(AnyWord) /\ pool \in Seq(Int) /\ read \in Seq(Insns) /\ moved \in Seq(Nat)
      /\ avail_regs \subseteq Regs /\ Len(moved) = Len(read) /\ Len(words) <= 6 /\ Len(pool) <= 2
      /\ Len(words) \in Nat /\ Len(pool) \in Nat /\ Len(read) \in Nat
  BY <1>0 DEF AInv, Counted, Registers
<1>2. CASE avail_regs = {}
  <2>1. pc' = "failed" /\ UNCHANGED <<read, src, words, pool, avail_regs, moved>>
    BY <1>2 DEF JumpBack, Fail
  <2> QED BY <2>1 DEF AInv, Counted, Registers, FreeWords, Placed, PCs
<1>3. CASE avail_regs # {}
  <2> DEFINE r == ToRegno(avail_regs)
             ws == <<Word("lit", r, Len(pool) + 1), Word("br", r, 0)>>
  <2>0. /\ pc' = "scan" /\ src' = src /\ read' = read /\ avail_regs' = avail_regs /\ words' = words \o ws
        /\ pool' = Append(pool, src) /\ moved' = Append(moved, Len(words) + 1)
    BY <1>3 DEF JumpBack
  <2>1. r \in avail_regs
    BY <1>1, <1>3, ToRegnoIn
  <2>2. r \in Nat
    BY <2>1, <1>1, Arm64Assumption
  <2> HIDE DEF r
  <2>3. ws \in Seq(AnyWord) /\ Len(ws) = 2 /\ \A n \in DOMAIN ws : ws[n].reg = r
    <3>1. Word("lit", r, Len(pool) + 1) \in AnyWord /\ Word("lit", r, Len(pool) + 1).reg = r
      BY <2>2, <1>1 DEF Word, AnyWord
    <3>2. Word("br", r, 0) \in AnyWord /\ Word("br", r, 0).reg = r
      BY <2>2 DEF Word, AnyWord
    <3> QED BY <3>1, <3>2
  <2> HIDE DEF ws
  <2>4. Counted'
    <3>0. words' \in Seq(AnyWord) /\ Len(words') = Len(words) + Len(ws)
      <4>1. words' = words \o ws /\ words \in Seq(AnyWord) /\ ws \in Seq(AnyWord)
        BY <1>1, <2>0, <2>3
      <4> QED BY <4>1
    <3>1. words' \in Seq(AnyWord) /\ Len(words') <= 8
      BY <1>1, <2>3, <3>0
    <3>2. pool' \in Seq(Int) /\ Len(pool') <= 3
      BY <1>0, <1>1, <2>0
    <3> QED BY <1>0, <2>0, <3>1, <3>2 DEF Counted, PCs, LITERAL_POOL_OFFSET, LITERAL_POOL_NUM, REL4G_JUMP_SIZE
  <2>5. moved' \in Seq(Nat) /\ Len(moved') = Len(read) + 1 /\ DOMAIN moved' = 1 .. Len(read) + 1 /\ Len(moved) \in Nat
    BY <1>1, <2>0
  <2>6. Registers'
    BY <1>1, <2>0, <2>5 DEF Registers
  <2>7. \A m \in DOMAIN moved : \A n \in moved[m] .. LastOf(m) :
          /\ n \in DOMAIN words
          /\ words[n].reg = 0 \/ \A k \in DOMAIN read : k <= m => words[n].reg \notin read[k].regs
    BY <1>0 DEF AInv, FreeWords
  <2>8. /\ \A m \in DOMAIN moved : /\ moved'[m] .. LastOf(m)' = moved[m] .. LastOf(m)
                                   /\ \A n \in moved[m] .. LastOf(m) : n \in DOMAIN words' /\ words'[n] = words[n]
        /\ \A m \in DOMAIN moved' : m = Len(moved) + 1 =>
             \A n \in moved'[m] .. LastOf(m)' : n \in DOMAIN words' /\ \E j \in DOMAIN ws : words'[n] = ws[j]
    BY <1>1, <2>0, <2>3, <2>7, AppendWords
  <2>9. ASSUME NEW m \in DOMAIN moved', NEW n \in moved'[m] .. LastOf(m)'
        PROVE  /\ n \in DOMAIN words'
               /\ words'[n].reg = 0 \/ \A k \in DOMAIN read : k <= m => words'[n].reg \notin read[k].regs
    <3>1. CASE m \in DOMAIN moved
      BY <3>1, <2>7, <2>8
    <3>2. CASE m = Len(moved) + 1
      <4>1. n \in DOMAIN words' /\ words'[n].reg = r
        BY <3>2, <2>3, <2>8
      <4>2. \A k \in DOMAIN read : r \notin read[k].regs
        BY <1>0, <2>1 DEF AInv, Registers
      <4> QED BY <4>1, <4>2
    <3>3. m \in DOMAIN moved \/ m = Len(moved) + 1
      BY <1>1, <2>5
    <3> QED BY <3>1, <3>2, <3>3
  <2>10. FreeWords'
    <3>1. Len(moved') <= Len(read') + 1
      BY <1>1, <2>0, <2>5
    <3> QED BY <2>0, <2>9, <3>1 DEF FreeWords
  <2> QED BY <2>0, <2>4, <2>6, <2>10 DEF AInv, Placed
<1> QED BY <1>2, <1>3

LEMMA FailStep ==
  ASSUME AInv, NEW e, Fail(e)
  PROVE  AInv'
BY DEF Fail, AInv, Counted, Registers, FreeWords, Placed, PCs

\* The words stay, and what the scan reads is behind the instructions moved.
LEMMA ScanStep ==
  ASSUME AInv, NEW x \in Insns, ScanInsn(x)
  PROVE  AInv'
<1>1. CASE Fail("FOUND_BACK_JUMP")
  BY <1>1, FailStep
<1>2. CASE read' = Append(read, x) /\ UNCHANGED <<pc, src, words, pool, avail_regs, moved, entry, rv>>
  <2>0. pc = "scan" /\ pc' = "scan"
    BY <1>2 DEF ScanInsn
  <2>1. read \in Seq(Insns) /\ Len(read) \in Nat /\ moved \in Seq(Nat) /\ Len(moved) \in Nat /\ Len(moved) <= Len(read) + 1
    BY <2>0 DEF AInv, Registers, FreeWords
  <2>2. /\ read' \in Seq(Insns) /\ Len(read') = Len(read) + 1
        /\ \A k \in DOMAIN read' : k = Len(read) + 1 \/ (k \in DOMAIN read /\ read'[k] = read[k])
    BY <1>2, <2>1
  <2>3. \A k \in DOMAIN read' : k < Len(moved) => k \in DOMAIN read /\ read'[k] = read[k]
    BY <2>1, <2>2
  <2>4. Counted' /\ Registers' /\ Placed'
    BY <1>2, <2>0, <2>2 DEF AInv, Counted, Registers, Placed
  <2>5. \A m : LastOf(m)' = LastOf(m)
    BY <1>2 DEF LastOf
  <2>6. FreeWords'
    <3>1. ASSUME NEW m \in DOMAIN moved, NEW n \in moved[m] .. LastOf(m)
          PROVE  /\ n \in DOMAIN words
                 /\ words[n].reg = 0 \/ \A k \in DOMAIN read' : k <= m /\ k < Len(moved) => words[n].reg \notin read'[k].regs
      BY <2>0, <2>3 DEF AInv, FreeWords
    <3>2. Len(moved) <= Len(read') + 1
      BY <2>1, <2>2
    <3> QED BY <1>2, <2>0, <2>5, <3>1, <3>2 DEF FreeWords
  <2> QED BY <2>4, <2>6 DEF AInv
<1> QED BY <1>1, <1>2 DEF ScanInsn

LEMMA EndScanStep ==
  ASSUME AInv, EndScan
  PROVE  AInv'
BY DEF EndScan, AInv, Counted, Registers, FreeWords, LastOf, Placed, PCs

LEMMA PlaceStep ==
  ASSUME AInv, NEW p \in PagesAt, NEW hook \in BOOLEAN, NEW prehook \in BOOLEAN, Place(p, hook, prehook)
  PROVE  AInv'
<1>1. Counted'
  BY DEF Place, AInv, Counted, PCs
<1>2. Registers'
  BY DEF Place, Registers
<1>3. FreeWords'
  BY DEF Place, FreeWords
<1>4. Placed'
  <2>1. entry'.page = p /\ entry'.new_code = Relative4gJump(Func, p)
    BY DEF Place
  <2>2. Relative4gJump(Func, p)' = Relative4gJump(Func, p)
    BY DEF Relative4gJump, PageOf
  <2> QED BY <2>1, <2>2 DEF Placed
<1> QED BY <1>1, <1>2, <1>3, <1>4 DEF AInv

LEMMA AInvStep == AInv /\ [Next]_vars => AInv'
<1> SUFFICES ASSUME AInv, [Next]_vars PROVE AInv'
  OBVIOUS
<1>1. ASSUME NEW x \in Insns, MoveInsn(x) PROVE AInv'
  BY <1>1, MoveStep
<1>2. ASSUME NEW x \in Insns, CannotMove(x) PROVE AInv'
  BY <1>2, FailStep DEF CannotMove
<1>3. ASSUME NEW x \in Insns, ScanInsn(x) PROVE AInv'
  BY <1>3, ScanStep
<1>4. CASE JumpBack
  BY <1>4, JumpBackStep
<1>5. CASE TooShort
  BY <1>5, FailStep DEF TooShort
<1>6. CASE DisasmError
  BY <1>6, FailStep DEF DisasmError
<1>7. CASE EndScan
  BY <1>7, EndScanStep
<1>8. ASSUME NEW p \in PagesAt, NEW hook \in BOOLEAN, NEW prehook \in BOOLEAN, Place(p, hook, prehook)
      PROVE  AInv'
  BY <1>8, PlaceStep
<1>9. CASE UNCHANGED vars
  BY <1>9 DEF vars, AInv, Counted, Registers, FreeWords, LastOf, Placed
<1> QED BY <1>1, <1>2, <1>3, <1>4, <1>5, <1>6, <1>7, <1>8, <1>9 DEF Next

\* The invariant of making a trampoline on arm64: what the words and literals
\* need, which registers are left, and which page the patch was made for.
THEOREM Arm64Invariance == Spec => []AInv
BY InitAInv, AInvStep, PTL DEF Spec

\* The trampoline of arch_arm64.h:65-67 has room for any two instructions moved
\* and the jump back (arch_arm64.c, funchook_make_trampoline).
THEOREM FitsTrampolineTheorem == Spec => []FitsTrampoline
<1>1. AInv => FitsTrampoline
  BY DEF AInv, Counted, FitsTrampoline
<1> QED BY <1>1, Arm64Invariance, PTL

\* The scratch register of every word, and of the jump back, is one that no
\* instruction moved until then uses.
THEOREM ScratchIsFreeTheorem == Spec => []ScratchIsFree
<1>1. ASSUME AInv PROVE ScratchIsFree
  <2> SUFFICES ASSUME pc \in {"scan", "made"}, NEW m \in DOMAIN moved, NEW k \in MovedInsns, k <= m,
                      NEW r \in Scratch(m), r \in read[k].regs
               PROVE  FALSE
    BY DEF ScratchIsFree
  <2>1. PICK n \in moved[m] .. LastOf(m) : words[n].reg = r /\ r # 0
    BY DEF Scratch, LastOf
  <2>2. read \in Seq(Insns) /\ moved \in Seq(Nat) /\ Len(moved) <= Len(read) + 1
    BY <1>1 DEF AInv, Registers, FreeWords
  <2>3. k \in DOMAIN read /\ k < Len(moved)
    BY <2>2 DEF MovedInsns
  <2> QED BY <1>1, <2>1, <2>3 DEF AInv, FreeWords
<1> QED BY <1>1, Arm64Invariance, PTL
-----------------------------------------------------------------------------
LEMMA DivMod ==
  ASSUME NEW n \in Int, NEW w \in Nat \ {0}
  PROVE  n \div w \in Int /\ n % w \in 0 .. w - 1 /\ n = w * (n \div w) + (n % w)
<1>1. /\ n \div w \in Int /\ n % w \in 0 .. w - 1
      /\ n - (n % w) = w * (n \div w)
  OBVIOUS
<1> DEFINE q == n \div w
           z == n % w
<1> HIDE DEF q, z
<1>2. q \in Int /\ z \in 0 .. w - 1 /\ n - z = w * q
  BY <1>1 DEF q, z
<1>3. n = w * q + z
  BY <1>2
<1> QED BY <1>2, <1>3 DEF q, z

\* No two numbers of 0 .. w - 1 differ by a multiple of w.
LEMMA OneRemainder ==
  ASSUME NEW w \in Nat \ {0}, NEW a \in 0 .. w - 1, NEW b \in 0 .. w - 1, NEW m \in Int, a = w * m + b
  PROVE  a = b
<1>1. CASE m = 0
  BY <1>1
<1>2. CASE m >= 1
  <2>1. w * m >= w * 1
    BY <1>2
  <2> QED BY <2>1
<1>3. CASE m <= -1
  <2>1. w * m <= w * (-1)
    BY <1>3
  <2> QED BY <2>1
<1> QED BY <1>1, <1>2, <1>3

\* What immhi keeps of a number of its width with a sign.
LEMMA HighField ==
  ASSUME NEW w \in Nat \ {0}, NEW q \in - w .. w - 1
  PROVE  q % w = IF q >= 0 THEN q ELSE q + w
<1> DEFINE m == q \div w
           z == q % w
<1>1. m \in Int /\ z \in 0 .. w - 1 /\ q = w * m + z
  BY DivMod
<1> HIDE DEF m, z
<1>2. CASE q >= 0
  <2>1. q \in 0 .. w - 1
    BY <1>2
  <2>2. q = z
    BY <1>1, <2>1, OneRemainder
  <2> QED BY <1>2, <2>2 DEF z
<1>3. CASE q < 0
  <2>1. q + w \in 0 .. w - 1
    BY <1>3
  <2>2. q + w = w * (m + 1) + z
    <3>1. w * (m + 1) = w * m + w
      BY <1>1
    <3> QED BY <1>1, <3>1
  <2>3. m + 1 \in Int
    BY <1>1
  <2>4. q + w = z
    BY <1>1, <2>1, <2>2, <2>3, OneRemainder
  <2> QED BY <1>3, <2>4 DEF z
<1> QED BY <1>2, <1>3

\* immhi and immlo hold a distance of pages that adrp reaches, and the
\* processor reads the same distance out of them.
LEMMA FieldsKeepDistance ==
  ASSUME NEW imm \in - (2 * ImmHi) .. 2 * ImmHi - 1
  PROVE  LET n == 4 * ((imm \div 4) % ImmHi) + (imm % 4)
         IN  (IF n < 2 * ImmHi THEN n ELSE n - 4 * ImmHi) = imm
<1> DEFINE q == imm \div 4
           lo == imm % 4
           hi == q % ImmHi
<1>0. ImmHi \in Nat \ {0}
  BY Arm64Assumption
<1>1. q \in Int /\ lo \in 0 .. 3 /\ imm = 4 * q + lo
  BY <1>0
<1> HIDE DEF q, lo
<1>2. q \in - ImmHi .. ImmHi - 1 /\ (q >= 0 <=> imm >= 0)
  BY <1>0, <1>1
<1>3. hi = IF q >= 0 THEN q ELSE q + ImmHi
  BY <1>0, <1>2, HighField
<1> HIDE DEF hi
<1>4. LET n == 4 * hi + lo IN (IF n < 2 * ImmHi THEN n ELSE n - 4 * ImmHi) = imm
  <2>1. CASE q >= 0
    BY <1>0, <1>1, <1>2, <1>3, <2>1
  <2>2. CASE q < 0
    BY <1>0, <1>1, <1>2, <1>3, <2>2
  <2> QED BY <1>1, <2>1, <2>2
<1> QED BY <1>4 DEF hi, q, lo

LEMMA Cancel ==
  ASSUME NEW w \in Nat \ {0}, NEW m \in Int, NEW n \in Int, w * m = w * n
  PROVE  m = n
<1>1. ASSUME NEW k \in Int, k >= 1 PROVE w * k >= 1
  BY <1>1
<1>2. w * (m - n) = 0 /\ w * (n - m) = 0
  <2>1. w * (m - n) = w * m - w * n /\ w * (n - m) = w * n - w * m /\ w * m \in Int
    OBVIOUS
  <2> QED BY <2>1
<1>3. ~(m - n >= 1) /\ ~(n - m >= 1)
  BY <1>1, <1>2
<1> QED BY <1>3

\* The patch leads to the page of the entry exactly if that is within reach of
\* adrp, on whichever side of the function it is (arch_arm64.c:106-120).
THEOREM PatchReachesTheorem == Spec => []PatchReaches
<1>1. ASSUME Placed PROVE PatchReaches
  <2> SUFFICES ASSUME pc = "ready" PROVE Adrp(entry.new_code) = entry.page <=> InReach(entry.page)
    BY DEF PatchReaches
  <2>1. PICK p \in PagesAt : entry.page = p /\ entry.new_code = Relative4gJump(Func, p)
    BY <1>1 DEF Placed
  <2>2. p \in Nat /\ p % PageWords = 0 /\ PageWords \in Nat \ {0} /\ Func \in Nat /\ ImmHi \in Nat \ {0}
    BY Arm64Assumption
  <2> DEFINE imm == PageOf(p) - PageOf(Func)
             n == 4 * ((imm \div 4) % ImmHi) + (imm % 4)
             read21 == IF n < 2 * ImmHi THEN n ELSE n - 4 * ImmHi
  <2>3. PageOf(p) \in Int /\ PageOf(Func) \in Int /\ p = PageWords * PageOf(p) /\ imm \in Int
    <3>1. PageOf(p) \in Int /\ p = PageWords * PageOf(p) + (p % PageWords)
      BY <2>2, DivMod DEF PageOf
    <3>2. PageOf(Func) \in Int
      BY <2>2, DivMod DEF PageOf
    <3>3. PageWords * PageOf(p) \in Int
      BY <2>2, <3>1
    <3> QED BY <2>2, <3>1, <3>2, <3>3
  <2>4. entry.new_code.immlo = imm % 4 /\ entry.new_code.immhi = (imm \div 4) % ImmHi
    BY <2>1 DEF Relative4gJump
  <2>5. Adrp(entry.new_code) = (PageOf(Func) + read21) * PageWords
    BY <2>4 DEF Adrp
  <2>6. InReach(p) <=> imm \in - (2 * ImmHi) .. 2 * ImmHi - 1
    BY DEF InReach
  \* What the processor reads from the field is always within its range.
  <2>7. read21 \in - (2 * ImmHi) .. 2 * ImmHi - 1
    <3> HIDE DEF imm
    <3>1. imm \div 4 \in Int /\ imm % 4 \in 0 .. 3
      BY <2>3
    <3>2. (imm \div 4) % ImmHi \in 0 .. ImmHi - 1
      BY <2>2, <3>1
    <3> QED BY <2>2, <3>1, <3>2
  <2>8. ASSUME InReach(p) PROVE read21 = imm
    <3> HIDE DEF imm
    <3> QED BY <2>6, <2>8, FieldsKeepDistance
  <2> HIDE DEF read21, imm
  <2>9. read21 = imm => Adrp(entry.new_code) = p
    <3>1. PageOf(Func) + imm = PageOf(p) /\ PageOf(p) * PageWords = PageWords * PageOf(p)
      BY <2>2, <2>3 DEF imm
    <3> QED BY <2>3, <2>5, <3>1
  <2>10. Adrp(entry.new_code) = p => read21 = imm
    <3> SUFFICES ASSUME Adrp(entry.new_code) = p PROVE read21 = imm
      OBVIOUS
    <3>1. read21 \in Int /\ PageOf(Func) + read21 \in Int
      BY <2>2, <2>3, <2>7
    <3>2. (PageOf(Func) + read21) * PageWords = PageWords * (PageOf(Func) + read21)
      BY <2>2, <3>1
    <3>3. PageWords * (PageOf(Func) + read21) = PageWords * PageOf(p)
      BY <2>3, <2>5, <3>2
    <3>4. PageOf(Func) + read21 = PageOf(p)
      BY <2>2, <2>3, <3>1, <3>3, Cancel
    <3> QED BY <2>3, <3>1, <3>4 DEF imm
  <2> QED BY <2>1, <2>6, <2>7, <2>8, <2>9, <2>10
<1>2. AInv => Placed
  BY DEF AInv
<1> QED BY <1>1, <1>2, Arm64Invariance, PTL

\* What SAFE_JUMP_DISTANCE (os_unix.c:247) sees to on Unix, where a page holds
\* one entry and is not used again: INT32_MAX is half of what adrp reaches.
NearPages == \A p \in PagesAt : p - Func < ImmHi * PageWords /\ Func - p < ImmHi * PageWords

\* On Unix the patch always leads to the transit code of the entry.
THEOREM UnixPatchReachesTheorem ==
  NearPages => (Spec => [](pc = "ready" => Adrp(entry.new_code) = entry.page))
<1> SUFFICES ASSUME NearPages PROVE Spec => [](pc = "ready" => Adrp(entry.new_code) = entry.page)
  OBVIOUS
<1>1. ASSUME NEW p \in PagesAt PROVE InReach(p)
  <2>1. p \in Nat /\ PageWords \in Nat \ {0} /\ Func \in Nat /\ ImmHi \in Nat \ {0}
    BY Arm64Assumption
  <2> DEFINE a == PageOf(p)
             b == PageOf(Func)
             k == a - b
             wa == PageWords * a
             wb == PageWords * b
  <2>2. a \in Int /\ p - wa \in 0 .. PageWords - 1 /\ wa \in Int
    BY <2>1, DivMod DEF PageOf
  <2>3. b \in Int /\ Func - wb \in 0 .. PageWords - 1 /\ wb \in Int
    BY <2>1, DivMod DEF PageOf
  <2>4. PageWords * k = wa - wb
    BY <2>1, <2>2, <2>3
  <2>5. ImmHi * PageWords \in Int /\ ImmHi * PageWords = PageWords * ImmHi
    BY <2>1
  <2> HIDE DEF a, b, wa, wb
  <2>6. wa - wb < PageWords * ImmHi + PageWords /\ wb - wa < PageWords * ImmHi + PageWords
    BY <2>1, <2>2, <2>3, <2>5 DEF NearPages
  <2>7. k \in Int
    BY <2>2, <2>3
  <2> HIDE DEF k
  <2>8. k < ImmHi + 1
    <3>1. ASSUME k >= ImmHi + 1 PROVE FALSE
      <4>1. PageWords * k >= PageWords * (ImmHi + 1)
        BY <2>1, <2>7, <3>1
      <4>2. PageWords * (ImmHi + 1) = PageWords * ImmHi + PageWords
        BY <2>1
      <4> QED BY <2>1, <2>2, <2>3, <2>4, <2>5, <2>6, <4>1, <4>2
    <3> QED BY <2>1, <2>7, <3>1
  <2>9. k > - (ImmHi + 1)
    <3>1. ASSUME - k >= ImmHi + 1 PROVE FALSE
      <4>1. PageWords * (- k) >= PageWords * (ImmHi + 1)
        BY <2>1, <2>7, <3>1
      <4>2. PageWords * (ImmHi + 1) = PageWords * ImmHi + PageWords /\ PageWords * (- k) = - (PageWords * k)
        BY <2>1, <2>7
      <4> QED BY <2>1, <2>2, <2>3, <2>4, <2>5, <2>6, <4>1, <4>2
    <3> QED BY <2>1, <2>7, <3>1
  <2>10. k \in - (2 * ImmHi) .. 2 * ImmHi - 1
    BY <2>1, <2>7, <2>8, <2>9
  <2> QED BY <2>10 DEF InReach, k, a, b
<1>2. Placed /\ PatchReaches => (pc = "ready" => Adrp(entry.new_code) = entry.page)
  BY <1>1 DEF Placed, PatchReaches
<1>3. AInv => Placed
  BY DEF AInv
<1> QED BY <1>2, <1>3, PatchReachesTheorem, Arm64Invariance, PTL
-----------------------------------------------------------------------------
(***************************************************************************)
(* What the trampoline executes.  Its words come in sections, one for each *)
(* instruction moved and one for the jump back, each of which is what      *)
(* Rewrite gives for that instruction and a literal that holds the address *)
(* it refers to.                                                           *)
(***************************************************************************)

Section(m, ws) ==
  LastOf(m) = moved[m] + Len(ws) - 1 /\ \A n \in 1 .. Len(ws) : words[moved[m] + n - 1] = ws[n]

BackWords(r, k) == <<Word("lit", r, k), Word("br", r, 0)>>

\* The instructions that have a section.
Count == IF pc = "move" THEN Len(moved) ELSE Len(moved) - 1

SectionOf(m) ==
  \E r, k \in Nat : /\ Section(m, Rewrite(read[m], r, k))
                    /\ read[m].kind # "other" => k \in DOMAIN pool /\ pool[k] = read[m].to

BackSection ==
  \E r, k \in Nat : /\ Section(Len(moved), BackWords(r, k))
                    /\ k \in DOMAIN pool /\ pool[k] = src

Rising ==
  \A m \in DOMAIN moved : /\ moved[m] \in 1 .. Len(words)
                          /\ \A n \in DOMAIN moved : m < n => moved[m] < moved[n]

\* src is behind the instructions moved, unless the last one was a b that took
\* the undefined instruction behind it along.
Sections ==
  pc \in {"move", "scan", "made"} =>
    /\ Rising
    /\ \A m \in 1 .. Count : SectionOf(m)
    /\ src = Count \/ (src = 2 /\ Count = 1 /\ read[1].kind = "b")
    /\ pc # "move" => Len(moved) > 0 /\ BackSection

LEMMA InitSections == Init => Sections
BY DEF Init, Sections, Rising, Count

\* New words behind the others: the sections stay, and there is one more.
LEMMA AppendSection ==
  ASSUME NEW ws \in Seq(AnyWord), Len(ws) > 0, words \in Seq(AnyWord), words' = words \o ws,
         moved \in Seq(Nat), moved' = Append(moved, Len(words) + 1),
         \A m \in DOMAIN moved : \A n \in moved[m] .. LastOf(m) : n \in DOMAIN words,
         Rising
  PROVE  /\ Rising'
         /\ \A m \in DOMAIN moved : \A us \in Seq(AnyWord) : Section(m, us) => Section(m, us)'
         /\ \A m : m = Len(moved) + 1 => Section(m, ws)'
<1>0. Len(words) \in Nat /\ Len(ws) \in Nat /\ Len(moved) \in Nat
  OBVIOUS
<1>1. /\ Len(words) \in Nat /\ Len(ws) \in Nat /\ Len(moved) \in Nat /\ Len(words') = Len(words) + Len(ws)
      /\ \A n \in 1 .. Len(words) : words'[n] = words[n]
      /\ \A n \in 1 .. Len(ws) : words'[Len(words) + n] = ws[n]
  OBVIOUS
<1>2. /\ Len(moved') = Len(moved) + 1 /\ moved'[Len(moved) + 1] = Len(words) + 1
      /\ DOMAIN moved = 1 .. Len(moved) /\ DOMAIN moved' = 1 .. Len(moved) + 1
      /\ \A m \in DOMAIN moved : moved'[m] = moved[m] /\ moved[m] \in Nat
  OBVIOUS
<1>3. Rising'
  <2>1. ASSUME NEW m \in DOMAIN moved'
        PROVE  /\ moved'[m] \in 1 .. Len(words')
               /\ \A n \in DOMAIN moved' : m < n => moved'[m] < moved'[n]
    <3>1. CASE m = Len(moved) + 1
      BY <1>1, <1>2, <3>1
    <3>2. CASE m \in DOMAIN moved
      <4>1. moved'[m] = moved[m] /\ moved[m] \in 1 .. Len(words)
        BY <1>2, <3>2 DEF Rising
      <4>2. ASSUME NEW n \in DOMAIN moved', m < n PROVE moved'[m] < moved'[n]
        <5>1. CASE n = Len(moved) + 1
          BY <1>1, <1>2, <4>1, <5>1
        <5>2. CASE n \in DOMAIN moved
          BY <1>2, <3>2, <4>1, <4>2, <5>2 DEF Rising
        <5>3. n \in 1 .. Len(moved) + 1
          BY <1>2
        <5> QED BY <1>1, <1>2, <5>1, <5>2, <5>3
      <4>3. moved'[m] \in 1 .. Len(words')
        BY <1>1, <4>1
      <4> QED BY <4>2, <4>3
    <3> QED BY <1>1, <1>2, <3>1, <3>2
  <2> QED BY <2>1 DEF Rising
<1>4. ASSUME NEW m \in DOMAIN moved, NEW us \in Seq(AnyWord), Section(m, us) PROVE Section(m, us)'
  <2>1. moved'[m] .. LastOf(m)' = moved[m] .. LastOf(m)
    BY AppendWords
  <2>2. LastOf(m)' = LastOf(m)
    <3>1. m \in Nat /\ m <= Len(moved) /\ m # Len(moved')
      BY <1>1, <1>2
    <3>2. CASE m = Len(moved)
      <4>1. LastOf(m)' = moved'[m + 1] - 1
        BY <3>1 DEF LastOf
      <4>2. moved'[m + 1] = Len(words) + 1
        BY <1>2, <3>2
      <4>3. LastOf(m) = Len(words)
        BY <3>2 DEF LastOf
      <4>4. (Len(words) + 1) - 1 = Len(words)
        BY <1>0
      <4> QED BY <4>1, <4>2, <4>3, <4>4, Zenon
    <3>3. CASE m # Len(moved)
      <4>1. m + 1 \in DOMAIN moved
        BY <1>1, <1>2, <3>1, <3>3
      <4> QED BY <1>2, <3>1, <3>3, <4>1 DEF LastOf
    <3> QED BY <3>2, <3>3
  <2>3. moved'[m] = moved[m] /\ moved[m] \in Nat /\ Len(us) \in Nat
    BY <1>2
  <2>4. ASSUME NEW n \in 1 .. Len(us) PROVE words'[moved[m] + n - 1] = us[n]
    <3>1. moved[m] + n - 1 \in moved[m] .. LastOf(m)
      <4>1. LastOf(m) = moved[m] + Len(us) - 1
        BY <1>4 DEF Section
      <4>2. \A a, l \in Nat : \A b \in 1 .. l : a + b - 1 \in a .. a + l - 1
        OBVIOUS
      <4> QED BY <2>3, <4>1, <4>2, Zenon
    <3>2. moved[m] + n - 1 \in DOMAIN words /\ DOMAIN words = 1 .. Len(words)
      BY <3>1
    <3>3. words'[moved[m] + n - 1] = words[moved[m] + n - 1]
      BY <1>1, <3>2
    <3>4. words[moved[m] + n - 1] = us[n]
      BY <1>4 DEF Section
    <3> QED BY <3>3, <3>4
  <2>5. LastOf(m) = moved[m] + Len(us) - 1
    BY <1>4 DEF Section
  <2> QED BY <2>2, <2>3, <2>4, <2>5 DEF Section
<1>5. ASSUME NEW m, m = Len(moved) + 1 PROVE Section(m, ws)'
  <2>0. \A a, b \in Int : (a + 1) + b - 1 = a + b
    OBVIOUS
  <2>1. moved'[m] = Len(words) + 1
    BY <1>2, <1>5
  <2>2. ASSUME NEW n \in 1 .. Len(ws) PROVE words'[moved'[m] + n - 1] = ws[n]
    <3>1. n \in Int /\ Len(words) \in Int
      BY <1>0
    <3>2. moved'[m] + n - 1 = Len(words) + n
      BY <2>0, <2>1, <3>1, Zenon
    <3> QED BY <1>1, <3>2
  <2>3. LastOf(m)' = Len(words) + Len(ws)
    BY <1>1, <1>2, <1>5 DEF LastOf
  <2>4. LastOf(m)' = moved'[m] + Len(ws) - 1
    <3>1. Len(ws) \in Int /\ Len(words) \in Int
      BY <1>0
    <3> QED BY <2>0, <2>1, <2>3, <3>1, Zenon
  <2> QED BY <2>2, <2>4 DEF Section
<1> QED BY <1>3, <1>4, <1>5

\* A section whose instruction and literal stay is still one.
LEMMA SectionStays ==
  ASSUME NEW m \in Nat, SectionOf(m), read[m] \in Insns, read'[m] = read[m],
         \A us \in Seq(AnyWord) : Section(m, us) => Section(m, us)',
         \A k \in DOMAIN pool : k \in DOMAIN pool' /\ pool'[k] = pool[k]
  PROVE  SectionOf(m)'
<1>1. PICK r \in Nat, k \in Nat :
           /\ Section(m, Rewrite(read[m], r, k))
           /\ read[m].kind # "other" => k \in DOMAIN pool /\ pool[k] = read[m].to
  BY DEF SectionOf
<1>2. PICK us : us = Rewrite(read[m], r, k)
  OBVIOUS
<1>3. us \in Seq(AnyWord)
  BY <1>2, RewriteWords
<1>4. Section(m, us)
  BY <1>1, <1>2
<1>5. Section(m, us)'
  BY <1>3, <1>4
<1>6. us = Rewrite(read'[m], r, k)
  BY <1>2
<1>7. /\ LastOf(m)' = moved'[m] + Len(us) - 1
      /\ \A n \in 1 .. Len(us) : words'[moved'[m] + n - 1] = us[n]
  BY <1>5 DEF Section
<1>8. Section(m, Rewrite(read[m], r, k))'
  BY <1>6, <1>7 DEF Section
<1>9. read'[m].kind # "other" => k \in DOMAIN pool' /\ pool'[k] = read'[m].to
  BY <1>1
<1> QED BY <1>8, <1>9 DEF SectionOf

LEMMA AppendPool ==
  ASSUME pool \in Seq(Int), NEW a \in Int, pool' = Append(pool, a)
  PROVE  /\ \A k \in DOMAIN pool : k \in DOMAIN pool' /\ pool'[k] = pool[k]
         /\ Len(pool) + 1 \in DOMAIN pool' /\ pool'[Len(pool) + 1] = a
OBVIOUS

LEMMA MoveSections ==
  ASSUME AInv, Sections, NEW x \in Insns, MoveInsn(x)
  PROVE  Sections'
<1>0. PICK r : r = IF NeedsScratch(x) THEN ToRegno(Left(x)) ELSE 0
  OBVIOUS
<1>1. PICK k : k = Len(pool) + 1
  OBVIOUS
<1>2. PICK ws : ws = Rewrite(x, r, k)
  OBVIOUS
<1>3. /\ pc = "move" /\ pc' = "move" /\ src < 2 /\ read' = Append(read, x)
      /\ words' = words \o ws /\ moved' = Append(moved, Len(words) + 1)
      /\ pool' = (IF x.kind = "other" THEN pool ELSE Append(pool, x.to))
      /\ src' = src + 1 \/ (x.kind = "b" /\ src = 0 /\ src' = 2)
  BY <1>0, <1>1, <1>2 DEF MoveInsn, Advance, REL4G_JUMP_SIZE
<1>4. /\ words \in Seq(AnyWord) /\ pool \in Seq(Int) /\ read \in Seq(Insns) /\ moved \in Seq(Nat)
      /\ src \in 0 .. 2 /\ Len(moved) = Len(read) /\ Len(moved) \in Nat
      /\ \A m \in DOMAIN moved : \A n \in moved[m] .. LastOf(m) : n \in DOMAIN words
  BY <1>3 DEF AInv, Counted, Registers, FreeWords
<1>5. x.to \in Int
  BY InsnParts
<1>6. r \in Nat /\ k \in Nat
  <2>1. NeedsScratch(x) => Left(x) # {} /\ Left(x) \in SUBSET Regs
    BY DEF MoveInsn, Left, AInv, Registers
  <2>2. NeedsScratch(x) => ToRegno(Left(x)) \in Left(x)
    BY <2>1, ToRegnoIn
  <2>3. NeedsScratch(x) => ToRegno(Left(x)) \in Nat
    BY <2>1, <2>2, Arm64Assumption
  <2>4. Len(pool) \in Nat
    BY <1>4
  <2> QED BY <1>0, <1>1, <2>3, <2>4
<1>7. ws \in Seq(AnyWord) /\ Len(ws) \in 1 .. 3
  BY <1>2, <1>6, RewriteWords, Zenon
<1>8. /\ Rising
      /\ \A m \in 1 .. Len(moved) : SectionOf(m)
      /\ src = Len(moved)
  BY <1>3, <1>4 DEF Sections, Count
<1>9. /\ Rising'
      /\ \A m \in DOMAIN moved : \A us \in Seq(AnyWord) : Section(m, us) => Section(m, us)'
      /\ \A m : m = Len(moved) + 1 => Section(m, ws)'
  <2>1. Len(ws) > 0
    BY <1>7
  <2> QED BY <1>3, <1>4, <1>7, <1>8, <2>1, AppendSection
<1>10. \A j \in DOMAIN pool : j \in DOMAIN pool' /\ pool'[j] = pool[j]
  BY <1>3, <1>4, <1>5, AppendPool
<1>11. /\ Len(moved') = Len(moved) + 1 /\ DOMAIN moved = 1 .. Len(moved)
       /\ \A m \in 1 .. Len(read) : read'[m] = read[m] /\ read[m] \in Insns
       /\ read'[Len(read) + 1] = x
  BY <1>3, <1>4
<1>12. ASSUME NEW m \in 1 .. Len(moved) PROVE SectionOf(m)'
  <2>1. m \in Nat /\ SectionOf(m) /\ read[m] \in Insns /\ read'[m] = read[m]
    BY <1>4, <1>8, <1>11
  <2>2. \A us \in Seq(AnyWord) : Section(m, us) => Section(m, us)'
    BY <1>9, <1>11
  <2> QED BY <2>1, <2>2, <1>10, SectionStays
<1>13. ASSUME NEW m, m = Len(moved) + 1 PROVE SectionOf(m)'
  <2>1. read'[m] = x
    BY <1>4, <1>11, <1>13
  <2>2. Section(m, ws)'
    BY <1>9, <1>13
  <2>3. /\ LastOf(m)' = moved'[m] + Len(ws) - 1
        /\ \A n \in 1 .. Len(ws) : words'[moved'[m] + n - 1] = ws[n]
    BY <2>2 DEF Section
  <2>4. ws = Rewrite(read'[m], r, k)
    BY <1>2, <2>1
  <2>5. Section(m, Rewrite(read[m], r, k))'
    BY <2>3, <2>4 DEF Section
  <2>6. x.kind # "other" => k \in DOMAIN pool' /\ pool'[k] = x.to
    BY <1>1, <1>3, <1>4, <1>5, AppendPool
  <2> QED BY <1>6, <2>1, <2>5, <2>6 DEF SectionOf
<1>14. \A m \in 1 .. Len(moved) + 1 : SectionOf(m)'
  <2>1. \A m \in 1 .. Len(moved) + 1 : m \in 1 .. Len(moved) \/ m = Len(moved) + 1
    BY <1>4
  <2> QED BY <2>1, <1>12, <1>13
<1>15. Count' = Len(moved) + 1
  BY <1>3, <1>11 DEF Count
<1>16. src' = Count' \/ (src' = 2 /\ Count' = 1 /\ read'[1].kind = "b")
  <2>1. CASE src' = src + 1
    BY <1>8, <1>15, <2>1
  <2>2. CASE x.kind = "b" /\ src = 0 /\ src' = 2
    <3>1. read'[1] = x /\ Count' = 1
      BY <1>4, <1>8, <1>11, <1>15, <2>2
    <3> QED BY <2>2, <3>1
  <2> QED BY <1>3, <2>1, <2>2
<1> QED BY <1>3, <1>9, <1>14, <1>15, <1>16 DEF Sections

LEMMA JumpBackSections ==
  ASSUME AInv, Sections, JumpBack
  PROVE  Sections'
<1>1. CASE avail_regs = {}
  <2>1. pc' = "failed"
    BY <1>1 DEF JumpBack, Fail
  <2> QED BY <2>1 DEF Sections
<1>2. CASE avail_regs # {}
  <2>0. PICK r : r = ToRegno(avail_regs)
    OBVIOUS
  <2>1. PICK k : k = Len(pool) + 1
    OBVIOUS
  <2>2. PICK ws : ws = BackWords(r, k)
    OBVIOUS
  <2>3. /\ pc = "move" /\ pc' = "scan" /\ read' = read /\ src' = src
        /\ words' = words \o ws /\ moved' = Append(moved, Len(words) + 1)
        /\ pool' = Append(pool, src)
    BY <1>2, <2>0, <2>1, <2>2 DEF JumpBack, BackWords
  <2>4. /\ words \in Seq(AnyWord) /\ pool \in Seq(Int) /\ read \in Seq(Insns) /\ moved \in Seq(Nat)
        /\ src \in Int /\ Len(moved) = Len(read) /\ Len(moved) \in Nat
        /\ \A m \in DOMAIN moved : \A n \in moved[m] .. LastOf(m) : n \in DOMAIN words
    BY <2>3 DEF AInv, Counted, Registers, FreeWords
  <2>5. r \in Nat /\ k \in Nat
    <3>1. r \in avail_regs /\ avail_regs \subseteq Nat
      BY <1>2, <2>0, ToRegnoIn, Arm64Assumption DEF AInv, Registers
    <3> QED BY <2>1, <2>4, <3>1
  <2>6. ws \in Seq(AnyWord) /\ Len(ws) > 0
    BY <2>2, <2>5 DEF BackWords, Word, AnyWord
  <2>7. /\ Rising
        /\ \A m \in 1 .. Len(moved) : SectionOf(m)
        /\ src = Len(moved) \/ (src = 2 /\ Len(moved) = 1 /\ read[1].kind = "b")
    BY <2>3, <2>4 DEF Sections, Count
  <2>8. /\ Rising'
        /\ \A m \in DOMAIN moved : \A us \in Seq(AnyWord) : Section(m, us) => Section(m, us)'
        /\ \A m : m = Len(moved) + 1 => Section(m, ws)'
    BY <2>3, <2>4, <2>6, <2>7, AppendSection
  <2>9. /\ \A j \in DOMAIN pool : j \in DOMAIN pool' /\ pool'[j] = pool[j]
        /\ k \in DOMAIN pool' /\ pool'[k] = src'
    BY <2>1, <2>3, <2>4, AppendPool
  <2>10. /\ Len(moved') = Len(moved) + 1 /\ DOMAIN moved = 1 .. Len(moved)
         /\ \A m \in 1 .. Len(read) : read[m] \in Insns
    BY <2>3, <2>4
  <2>11. ASSUME NEW m \in 1 .. Len(moved) PROVE SectionOf(m)'
    <3>0. m \in 1 .. Len(read)
      BY <2>4
    <3>1. m \in Nat /\ SectionOf(m) /\ read[m] \in Insns /\ read'[m] = read[m]
      BY <2>3, <2>7, <2>10, <3>0
    <3>2. \A us \in Seq(AnyWord) : Section(m, us) => Section(m, us)'
      BY <2>8, <2>10
    <3> QED BY <3>1, <3>2, <2>9, SectionStays
  <2>12. BackSection'
    <3>1. PICK m : m = Len(moved) + 1
      OBVIOUS
    <3>2. Section(m, ws)'
      BY <2>8, <3>1
    <3>3. /\ LastOf(m)' = moved'[m] + Len(ws) - 1
          /\ \A n \in 1 .. Len(ws) : words'[moved'[m] + n - 1] = ws[n]
      BY <3>2 DEF Section
    <3>4. Len(moved') = m
      BY <2>10, <3>1
    <3>5. Section(Len(moved), BackWords(r, k))'
      <4>1. LastOf(Len(moved))' = LastOf(m)'
        BY <3>4 DEF LastOf
      <4>2. BackWords(r, k)' = ws
        BY <2>2 DEF BackWords, Word
      <4> QED BY <2>2, <3>3, <3>4, <4>1, <4>2 DEF Section
    <3> QED BY <2>5, <2>9, <3>5 DEF BackSection
  <2>13. Count' = Len(moved) /\ Len(moved') > 0
    BY <2>3, <2>4, <2>10 DEF Count
  <2>14. src' = Count' \/ (src' = 2 /\ Count' = 1 /\ read'[1].kind = "b")
    BY <2>3, <2>7, <2>13
  <2> QED BY <2>8, <2>11, <2>12, <2>13, <2>14 DEF Sections
<1> QED BY <1>1, <1>2

LEMMA ScanSections ==
  ASSUME AInv, Sections, pc = "scan", pc' = "scan", NEW x \in Insns, read' = Append(read, x),
         UNCHANGED <<src, words, pool, moved>>
  PROVE  Sections'
<1>1. read \in Seq(Insns) /\ moved \in Seq(Nat) /\ Len(moved) <= Len(read) + 1 /\ Len(moved) \in Nat /\ Len(read) \in Nat
  BY DEF AInv, Registers, FreeWords
<1>2. /\ Rising
      /\ \A m \in 1 .. Len(moved) - 1 : SectionOf(m)
      /\ src = Len(moved) - 1 \/ (src = 2 /\ Len(moved) - 1 = 1 /\ read[1].kind = "b")
      /\ Len(moved) > 0 /\ BackSection
  BY DEF Sections, Count
<1>3. \A m \in 1 .. Len(moved) - 1 : m \in 1 .. Len(read)
  BY <1>1
<1>4. \A m \in 1 .. Len(read) : read'[m] = read[m] /\ read[m] \in Insns
  BY <1>1
<1>5. Rising' /\ BackSection'
  BY <1>2 DEF Rising, BackSection, Section, LastOf, BackWords, Word
<1>6. ASSUME NEW m \in 1 .. Len(moved) - 1 PROVE SectionOf(m)'
  <2>1. m \in Nat /\ SectionOf(m) /\ read[m] \in Insns /\ read'[m] = read[m]
    BY <1>2, <1>3, <1>4
  <2>2. \A us \in Seq(AnyWord) : Section(m, us) => Section(m, us)'
    BY DEF Section, LastOf
  <2>3. \A k \in DOMAIN pool : k \in DOMAIN pool' /\ pool'[k] = pool[k]
    OBVIOUS
  <2> QED BY <2>1, <2>2, <2>3, SectionStays
<1>7. Count' = Len(moved) - 1
  BY DEF Count
<1>8. Len(moved) - 1 = 1 => read'[1] = read[1]
  <2>1. Len(moved) - 1 = 1 => 1 \in 1 .. Len(moved) - 1
    OBVIOUS
  <2>2. Len(moved) - 1 = 1 => 1 \in 1 .. Len(read)
    BY <1>3, <2>1
  <2> QED BY <1>4, <2>2
<1> QED BY <1>2, <1>5, <1>6, <1>7, <1>8 DEF Sections

LEMMA StaySections ==
  ASSUME Sections, UNCHANGED <<read, src, words, pool, moved>>, pc' = pc \/ (pc = "scan" /\ pc' = "made")
  PROVE  Sections'
<1> SUFFICES ASSUME pc \in {"move", "scan", "made"} PROVE Sections'
  BY DEF Sections
<1>1. /\ Rising
      /\ \A m \in 1 .. Count : SectionOf(m)
      /\ src = Count \/ (src = 2 /\ Count = 1 /\ read[1].kind = "b")
      /\ pc # "move" => Len(moved) > 0 /\ BackSection
  BY DEF Sections
<1>2. Count' = Count
  BY DEF Count
<1>3. Rising'
  BY <1>1 DEF Rising
<1>4. BackSection => BackSection'
  BY DEF BackSection, Section, LastOf, BackWords, Word
<1>5. ASSUME NEW m \in 1 .. Count PROVE SectionOf(m)'
  <2>1. SectionOf(m)
    BY <1>1
  <2> QED BY <2>1 DEF SectionOf, Section, LastOf
<1>6. pc' # "move" => Len(moved') > 0 /\ BackSection'
  BY <1>1, <1>4
<1>7. src' = Count' \/ (src' = 2 /\ Count' = 1 /\ read'[1].kind = "b")
  BY <1>1, <1>2
<1> QED BY <1>2, <1>3, <1>5, <1>6, <1>7 DEF Sections

\* The sections hold in every state (make_trampoline, arch_arm64.c:211-404).
THEOREM SectionsInvariance == Spec => []Sections
<1>1. ASSUME AInv, Sections, [Next]_vars PROVE Sections'
  <2>1. ASSUME pc' \in {"failed", "ready"} PROVE Sections'
    BY <2>1 DEF Sections
  <2>2. ASSUME NEW e, Fail(e) PROVE Sections'
    BY <2>1, <2>2 DEF Fail
  <2>3. CASE UNCHANGED vars
    <3>1. UNCHANGED <<pc, read, src, words, pool, moved>>
      BY <2>3 DEF vars
    <3> QED BY <1>1, <3>1, StaySections
  <2>4. ASSUME NEW x \in Insns, MoveInsn(x) PROVE Sections'
    BY <1>1, <2>4, MoveSections
  <2>5. ASSUME NEW x \in Insns, CannotMove(x) PROVE Sections'
    BY <2>2, <2>5 DEF CannotMove
  <2>6. ASSUME NEW x \in Insns, ScanInsn(x) PROVE Sections'
    <3>1. PICK target \in TargetAddrs(x) :
            IF InPatch(target) THEN Fail("FOUND_BACK_JUMP")
            ELSE /\ read' = Append(read, x)
                 /\ UNCHANGED <<pc, src, words, pool, avail_regs, moved, entry, rv>>
      BY <2>6 DEF ScanInsn
    <3>2. CASE InPatch(target)
      BY <2>2, <3>1, <3>2
    <3>3. CASE ~InPatch(target)
      <4>1. pc = "scan"
        BY <2>6 DEF ScanInsn
      <4>2. pc' = "scan" /\ read' = Append(read, x) /\ UNCHANGED <<src, words, pool, moved>>
        BY <3>1, <3>3, <4>1
      <4> QED BY <1>1, <4>1, <4>2, ScanSections
    <3> QED BY <3>2, <3>3
  <2>7. CASE JumpBack
    BY <1>1, <2>7, JumpBackSections
  <2>8. CASE TooShort \/ DisasmError
    BY <2>2, <2>8 DEF TooShort, DisasmError
  <2>9. CASE EndScan
    <3>1. pc = "scan" /\ pc' = "made" /\ UNCHANGED <<read, src, words, pool, moved>>
      BY <2>9 DEF EndScan
    <3> QED BY <1>1, <3>1, StaySections
  <2>10. ASSUME NEW p \in PagesAt, NEW hook \in BOOLEAN, NEW prehook \in BOOLEAN, Place(p, hook, prehook)
         PROVE  Sections'
    BY <2>1, <2>10 DEF Place
  <2> QED BY <1>1, <2>3, <2>4, <2>5, <2>6, <2>7, <2>8, <2>9, <2>10 DEF Next
<1> QED BY <1>1, InitSections, Arm64Invariance, PTL DEF Spec

\* Where execution begins behind the word at i, and whether it stops at j.
From(i, taken) == IF words[i].op # "skip" THEN i ELSE IF taken THEN i + 1 ELSE i + 3
Stops(i, j) == words[j].op \in {"br", "skip"} \/ (j # i /\ Begins(j))

LEMMA LeadsTo ==
  ASSUME words \in Seq(AnyWord), NEW i, NEW taken \in BOOLEAN, From(i, taken) \in Nat,
         NEW s \in From(i, taken) .. Len(words), Stops(i, s),
         \A j \in From(i, taken) .. s - 1 : ~Stops(i, j)
  PROVE  Leads(i, taken) = IF s # i /\ Begins(s) THEN At(s) ELSE pool[words[s - 1].lit]
<1> DEFINE from  == From(i, taken)
           stops == {j \in from .. Len(words) : words[j].op \in {"br", "skip"} \/ (j # i /\ Begins(j))}
           stop  == CHOOSE j \in stops : \A k \in stops : j <= k
<1>1. Len(words) \in Nat
  OBVIOUS
<1>2. s \in stops /\ \A k \in stops : s <= k
  <2>1. s \in stops
    BY DEF Stops
  <2>2. ASSUME NEW k \in stops PROVE s <= k
    <3>1. k \in from .. Len(words) /\ Stops(i, k)
      BY DEF Stops
    <3>2. ~(k \in from .. s - 1)
      BY <3>1
    <3> HIDE DEF from
    <3> QED BY <1>1, <3>1, <3>2
  <2> QED BY <2>1, <2>2
<1>3. stops \subseteq Int
  OBVIOUS
<1>4. stop = s
  <2> HIDE DEF stops
  <2>1. stop \in stops /\ \A k \in stops : stop <= k
    BY <1>2
  <2>2. stop <= s /\ s <= stop /\ stop \in Int /\ s \in Int
    BY <1>2, <1>3, <2>1
  <2> HIDE DEF stop
  <2> QED BY <2>2
<1>5. Leads(i, taken) = IF stop # i /\ Begins(stop) THEN At(stop) ELSE pool[words[stop - 1].lit]
  BY DEF Leads, From
<1> HIDE DEF stop
<1> QED BY <1>4, <1>5

\* The words that begin a section, and where execution is then.
LEMMA BeginsAt ==
  ASSUME moved \in Seq(Nat), Rising, NEW m \in DOMAIN moved
  PROVE  Begins(moved[m]) /\ At(moved[m]) = IF m = Len(moved) THEN src ELSE m - 1
<1>1. ASSUME NEW n \in DOMAIN moved, moved[n] = moved[m] PROVE n = m
  <2>1. n \in Nat /\ m \in Nat /\ moved[n] \in Nat /\ moved[m] \in Nat
    OBVIOUS
  <2>2. (m < n => moved[m] < moved[n]) /\ (n < m => moved[n] < moved[m])
    BY DEF Rising
  <2> QED BY <1>1, <2>1, <2>2
<1> DEFINE c == CHOOSE n \in DOMAIN moved : moved[n] = moved[m]
<1>2. c \in DOMAIN moved /\ moved[c] = moved[m]
  OBVIOUS
<1>3. c = m
  <2> HIDE DEF c
  <2> QED BY <1>1, <1>2
<1>4. At(moved[m]) = IF c = Len(moved) THEN src ELSE c - 1
  BY DEF At
<1>5. Begins(moved[m])
  BY DEF Begins
<1> HIDE DEF c
<1> QED BY <1>3, <1>4, <1>5

\* None begins inside a section.
LEMMA NoneWithin ==
  ASSUME moved \in Seq(Nat), words \in Seq(AnyWord), Rising, NEW m \in DOMAIN moved,
         NEW j \in Int, moved[m] < j, j <= LastOf(m)
  PROVE  ~Begins(j)
<1> SUFFICES ASSUME NEW n \in DOMAIN moved, moved[n] = j PROVE FALSE
  BY DEF Begins
<1>1. /\ m \in Nat /\ n \in Nat /\ moved[n] \in Nat /\ moved[m] \in Nat /\ Len(moved) \in Nat
      /\ n <= Len(moved) /\ m <= Len(moved) /\ moved[n] \in 1 .. Len(words) /\ Len(words) \in Nat
  BY DEF Rising
<1>2. ~(n < m) /\ n # m
  <2>1. n < m => moved[n] < moved[m]
    BY DEF Rising
  <2> QED BY <1>1, <2>1
<1>3. m < n
  BY <1>1, <1>2
<1>4. m # Len(moved) /\ m + 1 \in DOMAIN moved
  BY <1>1, <1>3
<1>5. LastOf(m) = moved[m + 1] - 1 /\ moved[m + 1] \in Nat
  BY <1>4 DEF LastOf
<1>6. moved[m + 1] <= moved[n]
  <2>1. CASE n = m + 1
    BY <1>5, <2>1
  <2>2. CASE m + 1 < n
    <3>1. moved[m + 1] < moved[n]
      BY <1>4, <2>2 DEF Rising
    <3> QED BY <1>1, <1>5, <3>1
  <2> QED BY <1>1, <1>3, <2>1, <2>2
<1> QED BY <1>1, <1>5, <1>6

\* A section without a jump on the way leads to the next one.
LEMMA FallsThrough ==
  ASSUME moved \in Seq(Nat), words \in Seq(AnyWord), Rising, NEW m \in MovedInsns, NEW taken \in BOOLEAN,
         From(moved[m], taken) \in moved[m] .. LastOf(m) + 1,
         \A j \in From(moved[m], taken) .. LastOf(m) : words[j].op \notin {"br", "skip"}
  PROVE  Leads(moved[m], taken) = IF m + 1 = Len(moved) THEN src ELSE m
<1> DEFINE i == moved[m]
           s == moved[m + 1]
           from == From(moved[m], taken)
<1>1. /\ m \in Nat /\ m \in DOMAIN moved /\ m + 1 \in DOMAIN moved /\ m # Len(moved)
  BY DEF MovedInsns
<1>2. /\ i \in Nat /\ s \in Nat /\ s \in 1 .. Len(words) /\ LastOf(m) = s - 1 /\ i < s /\ Len(words) \in Nat
  <2>1. i \in Nat /\ s \in Nat /\ Len(words) \in Nat /\ LastOf(m) = s - 1
    BY <1>1 DEF LastOf
  <2>2. m < m + 1
    BY <1>1
  <2>3. s \in 1 .. Len(words) /\ i < s
    BY <1>1, <2>2 DEF Rising
  <2> QED BY <2>1, <2>3
<1>3. from \in Int /\ i <= from /\ from <= s
  <2> HIDE DEF i, s, from
  <2>1. from \in i .. LastOf(m) + 1
    BY DEF i, from
  <2> QED BY <1>2, <2>1
<1>4. Begins(s) /\ At(s) = IF m + 1 = Len(moved) THEN src ELSE (m + 1) - 1
  BY <1>1, BeginsAt
<1>5. Stops(i, s) /\ s # i
  <2>1. s # i
    <3> HIDE DEF s, i
    <3> QED BY <1>2
  <2> QED BY <1>4, <2>1 DEF Stops
<1>6. ASSUME NEW j \in from .. s - 1 PROVE ~Stops(i, j)
  <2>1. j \in Int /\ i <= j /\ j <= LastOf(m) /\ j \in from .. LastOf(m)
    <3> HIDE DEF i, s, from
    <3> QED BY <1>2, <1>3
  <2>2. j # i => i < j
    <3> HIDE DEF i
    <3> QED BY <1>2, <2>1
  <2>3. j # i => ~Begins(j)
    BY <1>1, <2>1, <2>2, NoneWithin
  <2> QED BY <2>1, <2>3 DEF Stops
<1>7. from \in Nat /\ s \in from .. Len(words)
  <2> HIDE DEF i, s, from
  <2> QED BY <1>2, <1>3
<1>8. Leads(i, taken) = IF s # i /\ Begins(s) THEN At(s) ELSE pool[words[s - 1].lit]
  BY <1>5, <1>6, <1>7, LeadsTo
<1>9. (m + 1) - 1 = m
  BY <1>1
<1> QED BY <1>4, <1>5, <1>8, <1>9

\* A section with a br on the way leads where the literal before it says.
LEMMA JumpsAway ==
  ASSUME moved \in Seq(Nat), words \in Seq(AnyWord), Rising, NEW m \in DOMAIN moved, NEW taken \in BOOLEAN,
         From(moved[m], taken) \in Nat, moved[m] <= From(moved[m], taken), LastOf(m) <= Len(words),
         NEW s \in From(moved[m], taken) .. LastOf(m), s # moved[m], words[s].op = "br",
         \A j \in From(moved[m], taken) .. s - 1 : words[j].op \notin {"br", "skip"}
  PROVE  Leads(moved[m], taken) = pool[words[s - 1].lit]
<1> DEFINE i == moved[m]
           from == From(moved[m], taken)
<1>1. i \in Nat /\ from \in Nat /\ i <= from /\ Len(words) \in Nat /\ LastOf(m) \in Int
  <2>1. LastOf(m) \in Int
    BY DEF LastOf
  <2> QED BY <2>1
<1>2. s \in Int /\ i < s /\ s <= LastOf(m) /\ s \in from .. Len(words)
  <2> HIDE DEF from
  <2>1. s \in from .. LastOf(m) /\ s # i /\ LastOf(m) <= Len(words)
    BY DEF from
  <2> HIDE DEF i
  <2> QED BY <1>1, <2>1
<1>3. ~Begins(s)
  BY <1>2, NoneWithin
<1>4. Stops(i, s)
  BY DEF Stops
<1>5. ASSUME NEW j \in from .. s - 1 PROVE ~Stops(i, j)
  <2>1. j \in Int /\ i <= j /\ j <= LastOf(m)
    <3> HIDE DEF i, from
    <3> QED BY <1>1, <1>2
  <2>2. j # i => i < j
    <3> HIDE DEF i
    <3> QED BY <1>1, <2>1
  <2>3. j # i => ~Begins(j)
    BY <2>1, <2>2, NoneWithin
  <2> QED BY <2>3 DEF Stops
<1>6. Leads(i, taken) = IF s # i /\ Begins(s) THEN At(s) ELSE pool[words[s - 1].lit]
  BY <1>1, <1>2, <1>4, <1>5, LeadsTo
<1> QED BY <1>3, <1>6

\* A section, word by word.
LEMMA SectionWords ==
  ASSUME NEW m, NEW ws, moved[m] \in Nat, Section(m, ws)
  PROVE  /\ \A a : ws = <<a>> => LastOf(m) = moved[m] /\ words[moved[m]] = a
         /\ \A a, b : ws = <<a, b>> => /\ LastOf(m) = moved[m] + 1
                                       /\ words[moved[m]] = a /\ words[moved[m] + 1] = b
         /\ \A a, b, c : ws = <<a, b, c>> => /\ LastOf(m) = moved[m] + 2
                                             /\ words[moved[m]] = a /\ words[moved[m] + 1] = b
                                             /\ words[moved[m] + 2] = c
<1> DEFINE i == moved[m]
<1>0. i \in Nat
  OBVIOUS
<1>1. LastOf(m) = i + Len(ws) - 1 /\ \A n \in 1 .. Len(ws) : words[i + n - 1] = ws[n]
  BY DEF Section
<1> HIDE DEF i
<1>2. i + 1 - 1 = i /\ i + 2 - 1 = i + 1 /\ i + 3 - 1 = i + 2
  BY <1>0
<1>3. ASSUME NEW a, ws = <<a>> PROVE LastOf(m) = i /\ words[i] = a
  <2>1. Len(ws) = 1 /\ ws[1] = a
    BY <1>3
  <2>2. words[i + 1 - 1] = ws[1]
    BY <1>1, <2>1
  <2> QED BY <1>1, <1>2, <2>1, <2>2
<1>4. ASSUME NEW a, NEW b, ws = <<a, b>> PROVE LastOf(m) = i + 1 /\ words[i] = a /\ words[i + 1] = b
  <2>1. Len(ws) = 2 /\ ws[1] = a /\ ws[2] = b
    BY <1>4
  <2>2. words[i + 1 - 1] = ws[1] /\ words[i + 2 - 1] = ws[2]
    BY <1>1, <2>1
  <2> QED BY <1>1, <1>2, <2>1, <2>2
<1>5. ASSUME NEW a, NEW b, NEW c, ws = <<a, b, c>>
      PROVE  LastOf(m) = i + 2 /\ words[i] = a /\ words[i + 1] = b /\ words[i + 2] = c
  <2>1. Len(ws) = 3 /\ ws[1] = a /\ ws[2] = b /\ ws[3] = c
    BY <1>5
  <2>2. words[i + 1 - 1] = ws[1] /\ words[i + 2 - 1] = ws[2] /\ words[i + 3 - 1] = ws[3]
    BY <1>1, <2>1
  <2> QED BY <1>1, <1>2, <2>1, <2>2
<1> QED BY <1>3, <1>4, <1>5 DEF i

\* Running what replaces instruction m goes on where the instruction did.
LEMMA SectionRuns ==
  ASSUME AInv, Sections, pc \in {"scan", "made"}, NEW m \in MovedInsns, NEW taken \in BOOLEAN
  PROVE  LET x == read[m] IN
         /\ Leads(moved[m], taken) =
              IF x.kind \in {"b", "bal"} \/ (x.kind \in Conditional /\ taken) THEN x.to ELSE m
         /\ x.kind \in Refer \ Jumps => pool[words[moved[m]].lit] = x.to
<1> DEFINE x == read[m]
           i == moved[m]
<1>1. /\ words \in Seq(AnyWord) /\ moved \in Seq(Nat) /\ read \in Seq(Insns)
      /\ Len(moved) <= Len(read) + 1
  BY DEF AInv, Counted, Registers, FreeWords
<1>2. /\ m \in Nat /\ m \in DOMAIN moved /\ m + 1 \in DOMAIN moved /\ m # Len(moved) /\ m \in DOMAIN read
      /\ Len(words) \in Nat /\ Len(moved) \in Nat
  BY <1>1 DEF MovedInsns
<1>3. i \in Nat /\ x \in Insns
  BY <1>1, <1>2
<1>4. Rising /\ SectionOf(m) /\ (x.kind # "b" => src = Len(moved) - 1)
  <2>1. Count = Len(moved) - 1
    BY DEF Count
  <2>2. m \in 1 .. Count
    BY <2>1 DEF MovedInsns
  <2>3. x.kind # "b" => src = Count
    <3>1. src = Count \/ (src = 2 /\ Count = 1 /\ read[1].kind = "b")
      BY DEF Sections
    <3>2. Count = 1 => m = 1
      BY <2>2
    <3> QED BY <3>1, <3>2
  <2> QED BY <2>1, <2>2, <2>3 DEF Sections
<1>5. LastOf(m) \in Nat /\ LastOf(m) <= Len(words)
  <2>1. LastOf(m) = moved[m + 1] - 1 /\ moved[m + 1] \in 1 .. Len(words)
    BY <1>2, <1>4 DEF LastOf, Rising
  <2> QED BY <1>2, <2>1
<1>6. PICK r \in Nat, k \in Nat : /\ Section(m, Rewrite(x, r, k))
                                  /\ x.kind # "other" => k \in DOMAIN pool /\ pool[k] = x.to
  BY <1>4 DEF SectionOf
<1>7. x.kind \in {"other"} \cup Refer
  BY <1>3, InsnParts
<1>8. ASSUME x.kind # "b", From(i, taken) \in i .. LastOf(m) + 1,
             \A j \in From(i, taken) .. LastOf(m) : words[j].op \notin {"br", "skip"}
      PROVE  Leads(i, taken) = m
  <2>1. Leads(i, taken) = IF m + 1 = Len(moved) THEN src ELSE m
    BY <1>1, <1>4, <1>8, FallsThrough
  <2>2. m + 1 = Len(moved) => src = m
    BY <1>2, <1>4, <1>8
  <2> QED BY <2>1, <2>2
<1>9. \A op, reg, lit : Word(op, reg, lit).op = op /\ Word(op, reg, lit).lit = lit
  BY DEF Word
<1> HIDE DEF x, i
<1>10. ASSUME NEW a, Rewrite(x, r, k) = <<a>> PROVE LastOf(m) = i /\ words[i] = a
  BY <1>3, <1>6, <1>10, SectionWords DEF i
<1>11. ASSUME NEW a, NEW b, Rewrite(x, r, k) = <<a, b>>
       PROVE  LastOf(m) = i + 1 /\ words[i] = a /\ words[i + 1] = b
  BY <1>3, <1>6, <1>11, SectionWords DEF i
<1>12. ASSUME NEW a, NEW b, NEW c, Rewrite(x, r, k) = <<a, b, c>>
       PROVE  LastOf(m) = i + 2 /\ words[i] = a /\ words[i + 1] = b /\ words[i + 2] = c
  BY <1>3, <1>6, <1>12, SectionWords DEF i
<1>13. CASE x.kind \in {"other", "adr", "adrp"}
  <2>1. PICK w : /\ Rewrite(x, r, k) = <<w>> /\ w.op \in {"copy", "lit"}
                 /\ x.kind # "other" => w.lit = k
    <3>1. CASE x.kind = "other"
      <4>1. Rewrite(x, r, k) = <<Word("copy", 0, 0)>>
        BY <3>1 DEF Rewrite, Conditional
      <4> QED BY <1>9, <3>1, <4>1
    <3>2. CASE x.kind \in {"adr", "adrp"}
      <4>1. Rewrite(x, r, k) = <<Word("lit", 0, k)>>
        BY <3>2 DEF Rewrite, Conditional
      <4> QED BY <1>9, <4>1
    <3> QED BY <1>13, <3>1, <3>2
  <2>2. LastOf(m) = i /\ words[i] = w
    BY <1>10, <2>1
  <2>3. From(i, taken) = i
    BY <2>1, <2>2 DEF From
  <2>4. \A j \in i .. i : j = i
    BY <1>3
  <2>5. Leads(i, taken) = m
    <3>1. x.kind # "b" /\ i \in i .. i + 1
      BY <1>3, <1>13
    <3> QED BY <1>8, <2>1, <2>2, <2>3, <2>4, <3>1
  <2>6. x.kind # "other" => pool[words[i].lit] = x.to
    BY <1>6, <2>1, <2>2
  <2> QED BY <1>13, <2>5, <2>6 DEF x, i, Conditional, Refer, Jumps
<1>14. CASE x.kind \in {"bl", "load"}
  <2>1. PICK op \in {"blr", "mem"} : Rewrite(x, r, k) = <<Word("lit", r, k), Word(op, r, 0)>>
    BY <1>14 DEF Rewrite, Conditional
  <2>2. LastOf(m) = i + 1 /\ words[i].op = "lit" /\ words[i].lit = k /\ words[i + 1].op \in {"blr", "mem"}
    BY <1>9, <1>11, <2>1
  <2>3. From(i, taken) = i
    BY <2>2 DEF From
  <2>4. \A j \in i .. i + 1 : j = i \/ j = i + 1
    BY <1>3
  <2>5. Leads(i, taken) = m
    <3>1. x.kind # "b" /\ i \in i .. (i + 1) + 1
      BY <1>3, <1>14
    <3>2. \A j \in i .. i + 1 : words[j].op \notin {"br", "skip"}
      BY <2>2, <2>4
    <3> QED BY <1>8, <2>2, <2>3, <3>1, <3>2
  <2>6. pool[words[i].lit] = x.to
    BY <1>6, <1>14, <2>2
  <2> QED BY <1>14, <2>5, <2>6 DEF x, i, Conditional
<1>15. CASE x.kind \in {"b", "bal"}
  <2>1. Rewrite(x, r, k) = <<Word("lit", r, k), Word("br", r, 0)>>
    BY <1>15 DEF Rewrite, Conditional
  <2>2. LastOf(m) = i + 1 /\ words[i].op = "lit" /\ words[i].lit = k /\ words[i + 1].op = "br"
    BY <1>9, <1>11, <2>1
  <2>3. From(i, taken) = i
    BY <2>2 DEF From
  <2>4. /\ \A j \in i .. (i + 1) - 1 : j = i
        /\ i + 1 \in i .. i + 1 /\ i + 1 # i /\ i <= i /\ (i + 1) - 1 = i
    BY <1>3
  <2>5. Leads(i, taken) = pool[words[(i + 1) - 1].lit]
    <3>1. i + 1 \in From(i, taken) .. LastOf(m) /\ i <= From(i, taken) /\ From(i, taken) \in Nat
      BY <1>3, <2>2, <2>3, <2>4
    <3>2. \A j \in From(i, taken) .. (i + 1) - 1 : words[j].op \notin {"br", "skip"}
      BY <2>2, <2>3, <2>4
    <3>3. i + 1 # moved[m] /\ words[i + 1].op = "br"
      BY <2>2, <2>4 DEF i
    <3> QED BY <1>1, <1>2, <1>4, <1>5, <3>1, <3>2, <3>3, JumpsAway, ZenonT(60) DEF i
  <2>6. Leads(i, taken) = x.to
    BY <1>6, <1>15, <2>2, <2>4, <2>5
  <2> QED BY <1>15, <2>6 DEF x, i, Refer, Jumps, Conditional
<1>16. CASE x.kind \in Conditional
  <2>1. Rewrite(x, r, k) = <<Word("skip", 0, 0), Word("lit", r, k), Word("br", r, 0)>>
    BY <1>16 DEF Rewrite, Conditional
  <2>2. /\ LastOf(m) = i + 2 /\ words[i].op = "skip"
        /\ words[i + 1].op = "lit" /\ words[i + 1].lit = k /\ words[i + 2].op = "br"
    BY <1>9, <1>12, <2>1
  <2>3. CASE taken
    <3>1. From(i, taken) = i + 1
      BY <2>2, <2>3 DEF From
    <3>2. /\ \A j \in i + 1 .. (i + 2) - 1 : j = i + 1
          /\ i + 2 \in i + 1 .. i + 2 /\ i + 2 # i /\ i <= i + 1 /\ (i + 2) - 1 = i + 1 /\ i + 1 \in Nat
      BY <1>3
    <3>3. Leads(i, taken) = pool[words[(i + 2) - 1].lit]
      <4>1. i + 2 \in From(i, taken) .. LastOf(m) /\ i <= From(i, taken) /\ From(i, taken) \in Nat
        BY <2>2, <3>1, <3>2
      <4>2. \A j \in From(i, taken) .. (i + 2) - 1 : words[j].op \notin {"br", "skip"}
        BY <2>2, <3>1, <3>2
      <4> QED BY <1>1, <1>2, <1>4, <1>5, <2>2, <3>2, <4>1, <4>2, JumpsAway DEF i
    <3>4. x.kind # "other" /\ x.kind \notin Refer \ Jumps
      BY <1>16 DEF Conditional, Refer, Jumps
    <3>5. Leads(i, taken) = x.to
      BY <1>6, <2>2, <3>2, <3>3, <3>4
    <3> QED BY <1>16, <2>3, <3>4, <3>5 DEF x, i
  <2>4. CASE ~taken
    <3>1. From(i, taken) = i + 3
      BY <2>2, <2>4 DEF From
    <3>2. /\ i + 3 \in i .. (i + 2) + 1
          /\ \A j \in i + 3 .. i + 2 : FALSE
      BY <1>3
    <3>3. x.kind # "b" /\ x.kind \notin {"b", "bal"} /\ x.kind \notin Refer \ Jumps
      BY <1>16 DEF Conditional, Refer, Jumps
    <3>4. Leads(i, taken) = m
      BY <1>8, <2>2, <3>1, <3>2, <3>3
    <3> QED BY <2>4, <3>3, <3>4 DEF x, i
  <2> QED BY <2>3, <2>4
<1> QED BY <1>7, <1>13, <1>14, <1>15, <1>16 DEF Refer, Jumps, Conditional

\* The trampoline does what the instructions moved did: whether or not a
\* condition holds it goes on where they did, with the addresses they referred
\* to, and at last behind them (arch_arm64.c, make_trampoline).
THEOREM TrampolineExactTheorem == Spec => []TrampolineExact
<1>1. ASSUME AInv, Sections PROVE TrampolineExact
  <2> SUFFICES ASSUME pc \in {"scan", "made"} PROVE TrampolineExact
    BY DEF TrampolineExact
  <2>1. ASSUME NEW m \in MovedInsns
        PROVE  LET x == read[m] IN
               /\ Leads(moved[m], TRUE) = IF x.kind \in Jumps THEN x.to ELSE m
               /\ Leads(moved[m], FALSE) = IF x.kind \in {"b", "bal"} THEN x.to ELSE m
               /\ x.kind \in Refer \ Jumps => pool[words[moved[m]].lit] = x.to
    <3> DEFINE x == read[m]
    <3>1. \A taken \in BOOLEAN :
            /\ Leads(moved[m], taken) =
                 IF x.kind \in {"b", "bal"} \/ (x.kind \in Conditional /\ taken) THEN x.to ELSE m
            /\ x.kind \in Refer \ Jumps => pool[words[moved[m]].lit] = x.to
      BY <1>1, SectionRuns
    <3>2. x.kind \in Jumps <=> x.kind \in {"b", "bal"} \/ x.kind \in Conditional
      BY DEF Jumps
    <3> HIDE DEF x
    <3>3. Leads(moved[m], TRUE) = IF x.kind \in Jumps THEN x.to ELSE m
      BY <3>1, <3>2
    <3>4. Leads(moved[m], FALSE) = IF x.kind \in {"b", "bal"} THEN x.to ELSE m
      BY <3>1
    <3> QED BY <3>1, <3>3, <3>4 DEF x
  <2>2. ASSUME NEW taken \in BOOLEAN PROVE Leads(moved[Len(moved)], taken) = src
    <3> DEFINE l == Len(moved)
               i == moved[l]
    <3>1. words \in Seq(AnyWord) /\ moved \in Seq(Nat)
      BY <1>1 DEF AInv, Counted, Registers
    <3>2. Rising /\ l > 0 /\ BackSection
      BY <1>1 DEF Sections
    <3>3. l \in DOMAIN moved /\ i \in Nat /\ LastOf(l) = Len(words) /\ Len(words) \in Nat
      BY <3>1, <3>2 DEF LastOf
    <3>4. PICK r \in Nat, k \in Nat : Section(l, BackWords(r, k)) /\ k \in DOMAIN pool /\ pool[k] = src
      BY <3>2 DEF BackSection
    <3>5. \A op, reg, lit : Word(op, reg, lit).op = op /\ Word(op, reg, lit).lit = lit
      BY DEF Word
    <3> HIDE DEF l
    <3>6. LastOf(l) = i + 1 /\ words[i] = Word("lit", r, k) /\ words[i + 1] = Word("br", r, 0)
      BY <3>3, <3>4, SectionWords DEF BackWords
    <3>7. words[i].op = "lit" /\ words[i].lit = k /\ words[i + 1].op = "br"
      BY <3>5, <3>6
    <3>8. From(i, taken) = i
      BY <3>7 DEF From
    <3>9. Leads(i, taken) = pool[words[(i + 1) - 1].lit]
      <4> HIDE DEF i
      <4>1. /\ \A j \in i .. (i + 1) - 1 : j = i
            /\ i + 1 \in i .. i + 1 /\ i + 1 # i /\ i <= i
        BY <3>3
      <4>2. i + 1 \in From(i, taken) .. LastOf(l) /\ i <= From(i, taken) /\ From(i, taken) \in Nat
        BY <3>3, <3>6, <3>8, <4>1
      <4>3. \A j \in From(i, taken) .. (i + 1) - 1 : words[j].op \notin {"br", "skip"}
        BY <3>7, <3>8, <4>1
      <4>4. LastOf(l) <= Len(words)
        BY <3>3
      <4> QED BY <3>1, <3>2, <3>3, <3>7, <4>1, <4>2, <4>3, <4>4, JumpsAway DEF i
    <3>10. (i + 1) - 1 = i
      BY <3>3
    <3> QED BY <3>4, <3>7, <3>9, <3>10 DEF l
  <2> QED BY <2>1, <2>2 DEF TrampolineExact
<1> QED BY <1>1, Arm64Invariance, SectionsInvariance, PTL
=============================================================================
