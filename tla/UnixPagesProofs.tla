-------------------------- MODULE UnixPagesProofs --------------------------
(***************************************************************************)
(* Proofs about UnixPages, for every size of memory and of pages, every    *)
(* layout, every number of steps of other threads, with and without calls  *)
(* of the system that fail.                                                *)
(***************************************************************************)
EXTENDS UnixPages, TLAPS

PCs == {"map", "try", "check"} \cup Returned

\* The page that mmap returned last is the only one that is kept.
Kept == page_out # MAP_FAILED /\ \E p \in PageNos : page_out = Addr(p) /\ Ours = {p}

\* What mmap returned is unmapped, returned, or was not mapped at all.
Held ==
  /\ pc \in {"map", "try", "error", "no_map"} => Ours = {}
  /\ pc \in {"check", "ok"} => Kept \/ (page_out = MAP_FAILED /\ Ours = {})
  /\ pc = "ok" => Accepted

Typed ==
  /\ mem \in [PageNos -> {"free", "other", "ours"}]
  /\ pc \in PCs

UInv == Typed /\ Held
-----------------------------------------------------------------------------
LEMMA Bounds ==
  /\ NumPages \in Nat /\ PageSize \in Nat /\ PageSize > 0 /\ Int32Max \in Nat /\ Top \in Nat
  /\ NumPages * PageSize \in Nat /\ NumPages * PageSize + Int32Max < Top
  /\ Func \in Nat /\ Func < NumPages * PageSize
<1>1. NumPages \in Nat /\ PageSize \in Nat
  BY UnixAssumption
<1>2. NumPages * PageSize \in Nat
  BY <1>1
<1> QED BY <1>1, <1>2, UnixAssumption

\* A page of user memory ends within it, and a page is found by its address.
LEMMA AddrOf ==
  ASSUME NEW p \in PageNos
  PROVE  /\ Addr(p) \in Nat /\ Addr(p) + PageSize <= NumPages * PageSize
         /\ Addr(p) # MAP_FAILED /\ Addr(p) < Top
         /\ Addr(p) \div PageSize = p
<1>1. p \in Nat /\ p + 1 <= NumPages
  BY Bounds DEF PageNos
<1>2. p * PageSize \in Nat /\ p * PageSize + PageSize = (p + 1) * PageSize
  BY <1>1, Bounds
<1>3. (p + 1) * PageSize <= NumPages * PageSize
  BY <1>1, Bounds
<1>4. (p * PageSize) \div PageSize = p
  BY <1>1, Bounds
<1> QED BY <1>2, <1>3, <1>4, Bounds DEF Addr, MAP_FAILED

\* What the unsigned difference of two addresses is.
LEMMA MinusIs ==
  ASSUME NEW x \in Nat, NEW y \in Nat, x < Top, y < Top
  PROVE  Minus(x, y) = IF y <= x THEN x - y ELSE x + Top - y
<1>1. Top \in Nat /\ Top > 0
  BY Bounds
<1>2. CASE y <= x
  <2>1. x - y \in 0 .. Top - 1 /\ x + Top - y = (x - y) + Top
    BY <1>1, <1>2
  <2>2. ((x - y) + Top) % Top = x - y
    <3> DEFINE d == x - y
    <3>1. d \in 0 .. Top - 1
      BY <2>1
    <3> HIDE DEF d
    <3>2. (d + Top) % Top = d
      BY <3>1, <1>1
    <3> QED BY <3>2 DEF d
  <2> QED BY <2>1, <2>2, <1>2 DEF Minus
<1>3. CASE x < y
  <2>1. x + Top - y \in 0 .. Top - 1
    BY <1>1, <1>3
  <2>2. (x + Top - y) % Top = x + Top - y
    BY <2>1, <1>1
  <2> QED BY <2>2, <1>3 DEF Minus
<1> QED BY <1>2, <1>3

LEMMA InitUInv == Init => UInv
BY DEF Init, UInv, Typed, Held, Ours, PCs, Returned

LEMMA NextTryGoes == NextTry => pc' \in {"try", "map", "error"}
BY DEF NextTry

\* Steps that map and unmap nothing, outside of the check.
LEMMA ReadStep ==
  ASSUME UInv, UNCHANGED mem, pc \in {"map", "try"}, pc' \in {"map", "try", "error", "no_map"}
  PROVE  UInv'
BY DEF UInv, Typed, Held, Ours, PCs, Returned

LEMMA MmapStep ==
  ASSUME UInv, Mmap
  PROVE  UInv'
<1>1. Ours = {} /\ pc' = "check"
  BY DEF Mmap, UInv, Held
<1>2. ASSUME NEW p \in MmapResults, mem' = [mem EXCEPT ![p] = "ours"], page_out' = Addr(p)
      PROVE  UInv'
  <2>1. p \in PageNos
    BY <1>2 DEF MmapResults
  <2>2. mem' \in [PageNos -> {"free", "other", "ours"}] /\ Ours' = {p}
    BY <1>1, <1>2, <2>1 DEF UInv, Typed, Ours
  <2>3. Kept'
    BY <1>2, <2>1, <2>2, AddrOf DEF Kept
  <2> QED BY <1>1, <2>2, <2>3 DEF UInv, Typed, Held, PCs
<1>3. CASE page_out' = MAP_FAILED /\ UNCHANGED mem
  BY <1>1, <1>3 DEF UInv, Typed, Held, PCs, Ours
<1> QED BY <1>2, <1>3 DEF Mmap

LEMMA TooFarStep ==
  ASSUME UInv, TooFar
  PROVE  UInv'
<1>1. pc = "check" /\ Kept /\ pc' \in {"try", "map", "error"}
  BY NextTryGoes DEF TooFar, UInv, Held
<1>2. PICK p \in PageNos : page_out = Addr(p) /\ Ours = {p}
  BY <1>1 DEF Kept
<1>3. mem' = [mem EXCEPT ![p] = "free"]
  BY <1>2, AddrOf DEF TooFar
<1>4. mem' \in [PageNos -> {"free", "other", "ours"}] /\ Ours' = {}
  BY <1>2, <1>3 DEF UInv, Typed, Ours
<1> QED BY <1>1, <1>4 DEF UInv, Typed, Held, PCs, Returned

LEMMA OtherThreadStep ==
  ASSUME UInv, OtherThread
  PROVE  UInv'
<1>1. UNCHANGED <<pc, page_out>>
  BY DEF OtherThread
<1>2. PICK p \in PageNos : mem[p] # "ours" /\ \E o \in {"free", "other"} : mem' = [mem EXCEPT ![p] = o]
  BY DEF OtherThread
<1>3. mem' \in [PageNos -> {"free", "other", "ours"}] /\ Ours' = Ours
  BY <1>2 DEF UInv, Typed, Ours
<1> QED BY <1>1, <1>3 DEF UInv, Typed, Held, Kept, Accepted

LEMMA UInvStep == UInv /\ [Next]_vars => UInv'
<1> SUFFICES ASSUME UInv, [Next]_vars PROVE UInv'
  OBVIOUS
<1>1. CASE UNCHANGED vars
  BY <1>1 DEF vars, UInv, Typed, Held, Kept, Ours, Accepted
<1>2. CASE MapOpenError
  BY <1>2, ReadStep DEF MapOpenError
<1>3. CASE ReadLine
  BY <1>3, ReadStep DEF ReadLine, Found
<1>4. CASE LastLine
  BY <1>4, ReadStep DEF LastLine, Found
<1>5. CASE SkipNull
  BY <1>5, ReadStep, NextTryGoes DEF SkipNull
<1>6. CASE Accept
  BY <1>6 DEF Accept, UInv, Typed, Held, Kept, Ours, Accepted, PCs, Returned
<1>7. CASE MmapError
  BY <1>7 DEF MmapError, UInv, Typed, Held, Kept, Ours, PCs, Returned
<1> QED BY <1>1, <1>2, <1>3, <1>4, <1>5, <1>6, <1>7, MmapStep, TooFarStep, OtherThreadStep DEF Next, Alloc

\* funchook_page_alloc keeps the inductive invariant, whatever other threads
\* map and unmap between its steps.
THEOREM UnixInvariance == Spec => []UInv
BY InitUInv, UInvStep, PTL DEF Spec

\* A page that funchook_page_alloc returns is so near the function that the
\* 32-bit jumps in both directions reach all of it, wherever mmap put it
\* (os_unix.c:276-277).
THEOREM WithinReachTheorem == Spec => []WithinReach
<1>1. UInv => WithinReach
  <2> SUFFICES ASSUME UInv, pc = "ok", page_out # MAP_FAILED,
                      NEW b \in page_out .. page_out + PageSize - 1
               PROVE  b - Func < Int32Max /\ Func - b < Int32Max
    BY DEF WithinReach
  <2>1. PICK p \in PageNos : page_out = Addr(p)
    BY DEF UInv, Held, Kept
  <2>2. page_out \in Nat /\ page_out + PageSize <= NumPages * PageSize /\ page_out < Top
    BY <2>1, AddrOf
  <2>3. Func \in Nat /\ Func < Top
    BY Bounds
  <2>4. CASE SafeJumpDistance(Func, page_out)
    <3>1. (IF page_out <= Func THEN Func - page_out ELSE Func + Top - page_out) < Int32Max - PageSize
      BY <2>2, <2>3, <2>4, MinusIs DEF SafeJumpDistance
    <3> QED BY <3>1, <2>2, Bounds
  <2>5. CASE SafeJumpDistance(page_out, Func)
    <3>1. (IF Func <= page_out THEN page_out - Func ELSE page_out + Top - Func) < Int32Max - PageSize
      BY <2>2, <2>3, <2>5, MinusIs DEF SafeJumpDistance
    <3> QED BY <3>1, <2>2, Bounds
  <2> QED BY <2>4, <2>5 DEF UInv, Held, Accepted
<1> QED BY <1>1, UnixInvariance, PTL

\* For a function that is not within a jump of address 0, funchook_page_alloc
\* returns the one page it has mapped, or has unmapped all of them: what mmap
\* put elsewhere does not stay behind.  Nearer to address 0 MAP_FAILED passes
\* for a page (os_unix.c:276-281).
THEOREM KeepsWhatItReturnsTheorem ==
  Func + 1 >= Int32Max - PageSize => (Spec => []KeepsWhatItReturns)
<1> SUFFICES ASSUME Func + 1 >= Int32Max - PageSize PROVE Spec => []KeepsWhatItReturns
  OBVIOUS
<1>1. UInv => KeepsWhatItReturns
  <2> SUFFICES ASSUME UInv PROVE KeepsWhatItReturns
    OBVIOUS
  <2>1. ASSUME pc = "ok" PROVE page_out # MAP_FAILED
    <3> SUFFICES ASSUME page_out = MAP_FAILED PROVE FALSE
      OBVIOUS
    <3>1. MAP_FAILED \in Nat /\ MAP_FAILED < Top /\ MAP_FAILED = Top - 1 /\ Func < MAP_FAILED
      BY Bounds DEF MAP_FAILED
    <3>2. Minus(Func, MAP_FAILED) = Func + Top - MAP_FAILED /\ Minus(MAP_FAILED, Func) = MAP_FAILED - Func
      BY <3>1, Bounds, MinusIs
    <3>3. ~SafeJumpDistance(Func, MAP_FAILED) /\ ~SafeJumpDistance(MAP_FAILED, Func)
      BY <3>1, <3>2, Bounds DEF SafeJumpDistance
    <3> QED BY <2>1, <3>3 DEF UInv, Held, Accepted
  <2> QED BY <2>1 DEF UInv, Held, Kept, KeepsWhatItReturns
<1> QED BY <1>1, UnixInvariance, PTL
-----------------------------------------------------------------------------
(***************************************************************************)
(* While other threads are quiet the map stays what it was when it was     *)
(* read, except for the page that is being tried, which counts as free.    *)
(***************************************************************************)
Unmapped(p) == mem[p] # "other"

\* The pages that QuietSucceeds is about, before the function those below the
\* line limit of the map.
AboveFunc(p) == Unmapped(p) /\ Addr(p) > Func /\ Addr(p) - Func < Int32Max - PageSize

BelowFunc(p, limit) ==
  /\ p # 0 /\ Unmapped(p) /\ Addr(p) < Func /\ Func - Addr(p) < Int32Max - PageSize
  /\ \E q \in PageNos : q < limit /\ mem[q] = "other" /\ p < q /\ Addr(q) < Func

\* The addresses to try are free, on their side, and no farther than p.
TriesAbove(p) == \E r \in PageNos : addrs[1] = Addr(r) /\ Unmapped(r) /\ Addr(r) > Func /\ r <= p

TriesBelow(p) ==
  \E r \in PageNos : addrs[0] = Addr(r) /\ r # 0 /\ Unmapped(r) /\ Addr(r) < Func /\ p <= r

QuietTyped ==
  /\ line \in 0 .. NumPages /\ prev_end = Addr(line)
  /\ i \in 0 .. 1 /\ addrs \in [0 .. 1 -> Nat] /\ others \in Nat
  /\ \A p \in Fixed : mem[p] = "other"

\* get_free_address has seen what is below line.
QuietMap ==
  pc = "map" =>
    /\ addrs[1] = NULL
    /\ line # 0 => mem[line - 1] = "other"
    /\ \A p \in PageNos : p < line /\ Unmapped(p) => Addr(p) <= Func
    /\ \A p \in PageNos : BelowFunc(p, line) => TriesBelow(p)

\* addrs[1] is tried first, addrs[0] when there is nothing on that side.
QuietTry ==
  pc \in {"try", "check"} =>
    /\ \A p \in PageNos : BelowFunc(p, NumPages) => TriesBelow(p)
    /\ i = 1 => \A p \in PageNos : AboveFunc(p) => TriesAbove(p)
    /\ i = 0 => \A p \in PageNos : ~AboveFunc(p)

Reachable == \E p \in PageNos : IF i = 1 THEN AboveFunc(p) ELSE BelowFunc(p, NumPages)

QuietCheck == pc = "check" /\ Reachable => Accepted \/ page_out = MAP_FAILED

QuietError ==
  pc = "error" /\ page_out # MAP_FAILED => \A p \in PageNos : ~AboveFunc(p) /\ ~BelowFunc(p, NumPages)

QInv == QuietTyped /\ (others = 0 => QuietMap /\ QuietTry /\ QuietCheck /\ QuietError)

LEMMA AddrOrder ==
  ASSUME NEW p \in Nat, NEW q \in Nat
  PROVE  /\ Addr(p) \in Nat /\ Addr(p + 1) = Addr(p) + PageSize /\ Addr(0) = 0
         /\ p < q => Addr(p) + PageSize <= Addr(q)
         /\ p <= q <=> Addr(p) <= Addr(q)
<1>0. PageSize \in Nat /\ PageSize > 0
  BY Bounds
<1>1. p * PageSize \in Nat /\ q * PageSize \in Nat
  BY <1>0
<1>2. (p + 1) * PageSize = p * PageSize + PageSize /\ (q + 1) * PageSize = q * PageSize + PageSize
  BY <1>0
<1>3. p + 1 <= q => (p + 1) * PageSize <= q * PageSize
  BY <1>0
<1>4. q + 1 <= p => (q + 1) * PageSize <= p * PageSize
  BY <1>0
<1>5. 0 * PageSize = 0
  BY <1>0
<1> QED BY <1>0, <1>1, <1>2, <1>3, <1>4, <1>5 DEF Addr

\* The function is in a page that stays mapped.
LEMMA FuncPage ==
  \E p \in Fixed : p \in PageNos /\ \A n \in Nat : Addr(n) <= Func <=> n <= p
<1> DEFINE p == Func \div PageSize
<1>1. p \in Fixed /\ p \in PageNos
  BY UnixAssumption
<1>2. Func \in Nat /\ PageSize \in Nat /\ PageSize > 0 /\ p \in Nat
  BY <1>1, Bounds DEF PageNos
<1>3. p * PageSize <= Func /\ Func < p * PageSize + PageSize
  <2>1. PageSize * p <= Func /\ Func < PageSize * p + PageSize /\ PageSize * p = p * PageSize
    BY <1>2
  <2> QED BY <2>1
<1>4. Addr(p) <= Func /\ Func < Addr(p + 1) /\ p + 1 \in Nat
  BY <1>2, <1>3, AddrOrder DEF Addr
<1> HIDE DEF p
<1>5. ASSUME NEW n \in Nat PROVE Addr(n) <= Func <=> n <= p
  <2>1. Addr(n) \in Nat /\ Addr(p) \in Nat /\ Addr(p + 1) \in Nat
    BY <1>2, <1>4, AddrOrder
  <2>2. n <= p => Addr(n) <= Addr(p)
    BY <1>2, AddrOrder
  <2>3. p + 1 <= n => Addr(p + 1) <= Addr(n)
    BY <1>2, <1>4, AddrOrder
  <2> QED BY <2>1, <2>2, <2>3, <1>2, <1>4
<1> QED BY <1>1, <1>5

\* mmap and munmap of the page that is tried leave the others' pages alone.
LEMMA SameOthers ==
  ASSUME \A p \in PageNos : mem'[p] = "other" <=> mem[p] = "other"
  PROVE  \A p \in PageNos : /\ Unmapped(p)' <=> Unmapped(p)
                            /\ AboveFunc(p)' <=> AboveFunc(p)
                            /\ \A n \in Nat : BelowFunc(p, n)' <=> BelowFunc(p, n)
BY DEF Unmapped, AboveFunc, BelowFunc

LEMMA InitQInv == Init => QInv
<1> SUFFICES ASSUME Init PROVE QInv
  OBVIOUS
<1>1. line = 0 /\ prev_end = 0 /\ pc = "map" /\ i = 1 /\ others = 0 /\ addrs = [k \in 0 .. 1 |-> 0]
  BY DEF Init, NULL
<1>2. QuietTyped
  <2>1. Addr(0) = 0
    BY AddrOrder
  <2>2. \A p \in Fixed : mem[p] = "other"
    BY UnixAssumption DEF Init
  <2> QED BY <1>1, <2>1, <2>2, Bounds DEF QuietTyped
<1>3. QuietMap
  BY <1>1 DEF QuietMap, BelowFunc, PageNos, NULL
<1> QED BY <1>1, <1>2, <1>3 DEF QInv, QuietTry, QuietCheck, QuietError

LEMMA QuietTypedStep ==
  ASSUME UInv, QuietTyped, Next
  PROVE  QuietTyped' /\ (others' = 0 => others = 0 /\ ~OtherThread)
<1>1. \A p \in Fixed : mem'[p] = "other"
  <2>0. Fixed \subseteq PageNos /\ mem \in [PageNos -> {"free", "other", "ours"}]
    BY UnixAssumption DEF UInv, Typed
  <2>1. CASE UNCHANGED mem
    BY <2>1 DEF QuietTyped
  <2>2. ASSUME NEW p \in PageNos \ Fixed, NEW o, mem' = [mem EXCEPT ![p] = o]
        PROVE  \A q \in Fixed : mem'[q] = "other"
    BY <2>0, <2>2 DEF QuietTyped
  <2>3. CASE OtherThread
    BY <2>2, <2>3 DEF OtherThread
  <2>4. ASSUME NEW p \in MmapResults, mem' = [mem EXCEPT ![p] = "ours"]
        PROVE  \A q \in Fixed : mem'[q] = "other"
    <3>1. p \in PageNos \ Fixed
      BY <2>0 DEF MmapResults, QuietTyped
    <3> QED BY <2>2, <2>4, <3>1
  <2>5. CASE TooFar
    <3>1. PICK p \in PageNos : page_out = Addr(p) /\ mem[p] = "ours"
      BY <2>5 DEF TooFar, UInv, Held, Kept, Ours
    <3>2. mem' = [mem EXCEPT ![p] = "free"]
      BY <2>5, <3>1, AddrOf DEF TooFar
    <3> QED BY <2>0, <3>1, <3>2 DEF QuietTyped
  <2> QED BY <2>1, <2>3, <2>4, <2>5
        DEF Next, Alloc, MapOpenError, ReadLine, LastLine, Found, SkipNull, Mmap, Accept, MmapError
<1>2. others' \in Nat /\ (others' = 0 => others = 0 /\ ~OtherThread)
  BY DEF QuietTyped, Next, Alloc, MapOpenError, ReadLine, LastLine, Found, SkipNull, Mmap, Accept, MmapError,
         TooFar, OtherThread
<1>3. i' \in 0 .. 1
  BY DEF QuietTyped, Next, Alloc, MapOpenError, ReadLine, LastLine, Found, SkipNull, Mmap, Accept, MmapError,
         TooFar, OtherThread, NextTry
<1>4. line' \in 0 .. NumPages /\ prev_end' = Addr(line') /\ addrs' \in [0 .. 1 -> Nat]
  <2>0. line \in 0 .. NumPages /\ prev_end = Addr(line) /\ addrs \in [0 .. 1 -> Nat] /\ prev_end \in Nat
    BY AddrOrder, Bounds DEF QuietTyped
  <2>1. CASE UNCHANGED <<line, prev_end, addrs>>
    BY <2>0, <2>1
  <2>2. CASE Found
    <3>1. After \in Nat
      BY <2>0 DEF After
    <3> QED BY <2>0, <2>2, <3>1 DEF Found
  <2>3. CASE line' = 0 /\ prev_end' = 0 /\ addrs' = [k \in 0 .. 1 |-> NULL]
    BY <2>3, AddrOrder, Bounds DEF NULL
  <2>4. ASSUME NEW p \in PageNos, addrs' = [addrs EXCEPT ![0] = Before(Addr(p))],
               prev_end' = Addr(p) + PageSize, line' = p + 1
        PROVE  line' \in 0 .. NumPages /\ prev_end' = Addr(line') /\ addrs' \in [0 .. 1 -> Nat]
    <3>1. p \in Nat /\ p + 1 <= NumPages /\ Addr(p) \in Nat /\ Addr(p + 1) = Addr(p) + PageSize
      BY AddrOrder, Bounds DEF PageNos
    <3>2. Before(Addr(p)) \in Nat
      BY <2>0, <3>1, Bounds DEF Before, Gap
    <3> QED BY <2>0, <2>4, <3>1, <3>2, Bounds
  <2> QED BY <2>1, <2>2, <2>3, <2>4
        DEF Next, Alloc, MapOpenError, ReadLine, LastLine, SkipNull, Mmap, Accept, MmapError, TooFar, OtherThread,
            NextTry, Lines
<1> QED BY <1>1, <1>2, <1>3, <1>4 DEF QuietTyped

\* Reading a line: memory that ends at it is the nearest seen so far.
LEMMA QuietReadLine ==
  ASSUME UInv, QuietTyped, QuietMap, pc = "map", pc' = "map", UNCHANGED mem,
         NEW p \in Lines, \A q \in Lines : p <= q,
         ~(Gap(Addr(p)) /\ Func < prev_end),
         addrs' = [addrs EXCEPT ![0] = Before(Addr(p))], line' = p + 1
  PROVE  QuietMap'
<1>0. /\ p \in PageNos /\ p \in Nat /\ line \in Nat /\ line <= p /\ mem[p] = "other" /\ p + 1 <= NumPages
      /\ prev_end = Addr(line) /\ addrs \in [0 .. 1 -> Nat] /\ PageSize \in Nat /\ PageSize > 0
  BY Bounds DEF QuietTyped, Lines, PageNos, UInv, Typed, Held, Ours
<1>1. \A q \in PageNos : line <= q /\ q < p => mem[q] = "free"
  BY <1>0 DEF Lines, PageNos
<1>2. \A q \in Nat : Addr(q) \in Nat /\ (p <= q <=> Addr(p) <= Addr(q)) /\ (q < p => Addr(q) + PageSize <= Addr(p))
  BY <1>0, AddrOrder
<1>3. Addr(line) \in Nat /\ Addr(p) \in Nat /\ Func \in Nat /\ Int32Max \in Nat
  BY <1>0, <1>2, Bounds
<1>4. Gap(Addr(p)) <=> line < p
  <2>1. line < p => Addr(line) + PageSize <= Addr(p)
    BY <1>0, <1>2
  <2>2. line = p => ~(Addr(line) + PageSize <= Addr(p))
    BY <1>0, <1>3
  <2> QED BY <1>0, <2>1, <2>2 DEF Gap
<1>5. addrs'[1] = NULL /\ mem'[line' - 1] = "other"
  BY <1>0 DEF QuietMap
<1>6. ASSUME NEW q \in PageNos, q < line', Unmapped(q) PROVE Addr(q) <= Func
  <2>1. q \in Nat /\ q < p
    BY <1>0, <1>6 DEF PageNos, Unmapped
  <2>2. CASE q < line
    BY <2>2 , <1>6 DEF QuietMap
  <2>3. CASE line <= q
    <3>1. line < p
      BY <1>0, <2>1, <2>3
    <3>2. Addr(line) <= Func
      BY <1>0, <1>3, <1>4, <3>1
    <3>3. PICK f \in Fixed : f \in PageNos /\ \A n \in Nat : Addr(n) <= Func <=> n <= f
      BY FuncPage
    <3>4. mem[f] = "other" /\ f \in Nat /\ line <= f
      BY <3>2, <3>3, <1>0 DEF QuietTyped, PageNos
    <3>5. p <= f
      BY <3>3, <3>4, <1>0, <1>1
    <3> QED BY <2>1, <3>3, <3>4, <3>5, <1>0
  <2> QED BY <2>1, <2>2, <2>3, <1>0
<1>7. ASSUME NEW q \in PageNos, BelowFunc(q, p + 1) PROVE TriesBelow(q)'
  <2>1. q \in Nat /\ q # 0 /\ Unmapped(q) /\ Addr(q) < Func /\ Func - Addr(q) < Int32Max - PageSize /\ Addr(q) \in Nat
    BY <1>2, <1>7 DEF BelowFunc, PageNos
  <2>2. PICK o \in PageNos : o < p + 1 /\ mem[o] = "other" /\ q < o /\ Addr(o) < Func
    BY <1>7 DEF BelowFunc
  <2>3. o \in Nat /\ Addr(o) \in Nat
    BY <1>2 DEF PageNos
  \* p - 1 is free and nearer than q.
  <2>4. CASE line < p /\ Addr(p) < Func
    <3> DEFINE r == p - 1
    <3>1. r \in PageNos /\ r \in Nat /\ r + 1 = p /\ Unmapped(r) /\ q <= r /\ r # 0
      <4>1. r \in PageNos /\ r \in Nat /\ r + 1 = p /\ line <= r
        BY <1>0, <2>4, Bounds DEF PageNos
      <4>2. q <= r
        BY <2>1, <2>2, <2>3, <1>0
      <4> QED BY <4>1, <4>2, <1>1, <2>1, <1>0 DEF Unmapped
    <3> HIDE DEF r
    <3>2. Addr(r) \in Nat /\ Addr(p) = Addr(r) + PageSize /\ Addr(q) <= Addr(r)
      BY <3>1, <2>1, AddrOrder
    <3>3. Addr(p) - PageSize = Addr(r) /\ Addr(r) < Func /\ Func - Addr(r) < Int32Max
      BY <3>2, <2>1, <2>4, <1>0, <1>3
    <3>4. Before(Addr(p)) = Addr(r)
      BY <3>3, <1>4, <2>4 DEF Before
    <3>5. addrs'[0] = Addr(r)
      BY <3>4, <1>0
    <3> QED BY <3>1, <3>3, <3>5 DEF TriesBelow, Unmapped
  <2>5. CASE ~(line < p /\ Addr(p) < Func)
    <3>1. addrs'[0] = addrs[0]
      BY <2>5, <1>0, <1>4 DEF Before
    <3>2. BelowFunc(q, line)
      <4>1. CASE o < line
        BY <4>1, <2>1, <2>2 DEF BelowFunc
      <4>2. CASE line <= o
        <5>1. o = p
          BY <4>2, <2>2, <2>3, <1>0, <1>1
        <5>2. line = p
          BY <5>1, <2>2, <2>5, <1>0
        <5>3. line # 0 /\ mem[line - 1] = "other" /\ line - 1 \in PageNos
          BY <5>1, <5>2, <2>1, <2>2, <1>0, Bounds DEF QuietMap, PageNos
        <5>4. q # line - 1
          BY <5>3, <2>1 DEF Unmapped
        <5>5. q < line - 1 /\ Addr(line - 1) < Func
          <6>1. line - 1 \in Nat /\ line - 1 < p
            BY <5>2, <5>3, <1>0
          <6>2. Addr(line - 1) + PageSize <= Addr(p) /\ Addr(line - 1) \in Nat
            BY <6>1, <1>2
          <6> QED BY <6>1, <6>2, <5>1, <5>2, <5>4, <2>1, <2>2, <1>0, <1>3
        <5> QED BY <5>3, <5>5, <2>1, <1>0 DEF BelowFunc
      <4> QED BY <4>1, <4>2, <2>3, <1>0
    <3> QED BY <3>1, <3>2 DEF QuietMap, TriesBelow, Unmapped
  <2> QED BY <2>4, <2>5
<1>8. \A q \in PageNos : BelowFunc(q, line)' => BelowFunc(q, p + 1)
  BY DEF BelowFunc, Unmapped
<1> QED BY <1>0, <1>5, <1>6, <1>7, <1>8 DEF QuietMap, Unmapped

\* Reading ends at the first free memory behind the function, or with the map.
LEMMA QuietFound ==
  ASSUME UInv, QuietTyped, QuietMap, pc = "map", Found, Func < prev_end,
         \/ \E p \in Lines : (\A q \in Lines : p <= q) /\ Gap(Addr(p))
         \/ Lines = {}
  PROVE  QuietTry'
<1>0. /\ line \in Nat /\ line <= NumPages /\ prev_end = Addr(line) /\ addrs \in [0 .. 1 -> Nat]
      /\ Addr(line) \in Nat /\ Func \in Nat /\ PageSize \in Nat /\ PageSize > 0 /\ Int32Max \in Nat /\ NumPages \in Nat
  BY Bounds, AddrOrder DEF QuietTyped
<1>1. /\ addrs' = [addrs EXCEPT ![1] = After] /\ pc' = "try" /\ i' = 1 /\ UNCHANGED mem
  BY DEF Found
<1>2. \A p \in PageNos : /\ Unmapped(p)' <=> Unmapped(p)
                         /\ AboveFunc(p)' <=> AboveFunc(p)
                         /\ \A n \in Nat : BelowFunc(p, n)' <=> BelowFunc(p, n)
  BY <1>1, SameOthers
<1>3. ASSUME NEW p \in PageNos, BelowFunc(p, NumPages) PROVE TriesBelow(p)'
  <2>1. PICK q \in PageNos : mem[q] = "other" /\ p < q /\ Addr(q) < Func
    BY <1>3 DEF BelowFunc
  <2>2. q < line
    <3>1. q \in Nat /\ Addr(q) \in Nat
      BY AddrOrder DEF PageNos
    <3>2. line <= q => Addr(line) <= Addr(q)
      BY <3>1, <1>0, AddrOrder
    <3> QED BY <3>1, <3>2, <2>1, <1>0
  <2>3. BelowFunc(p, line)
    BY <1>3, <2>1, <2>2 DEF BelowFunc
  <2>4. TriesBelow(p) /\ addrs'[0] = addrs[0]
    BY <2>3, <1>0, <1>1 DEF QuietMap
  <2> QED BY <2>4, <1>1 DEF TriesBelow, Unmapped
<1>4. ASSUME NEW p \in PageNos, AboveFunc(p) PROVE TriesAbove(p)'
  <2>1. p \in Nat /\ p < NumPages /\ Unmapped(p) /\ Addr(p) > Func /\ Addr(p) - Func < Int32Max - PageSize
        /\ Addr(p) \in Nat
    BY <1>0, <1>4, AddrOrder DEF AboveFunc, PageNos
  <2>2. line <= p
    BY <2>1, <1>0 DEF QuietMap
  <2>3. line \in PageNos
    BY <2>1, <2>2, <1>0 DEF PageNos
  <2>4. Unmapped(line)
    <3>1. CASE Lines = {}
      BY <3>1, <2>3, <1>0 DEF Lines, Unmapped
    <3>2. ASSUME NEW q \in Lines, \A r \in Lines : q <= r, Gap(Addr(q)) PROVE Unmapped(line)
      <4>1. q \in Nat /\ line <= q /\ Addr(q) \in Nat
        <5>1. q \in Nat /\ line <= q
          BY <1>0 DEF Lines, PageNos
        <5> QED BY <5>1, AddrOrder
      <4>2. line # q
        BY <3>2, <4>1, <1>0 DEF Gap
      <4>3. line \notin Lines
        BY <3>2, <4>1, <4>2, <1>0
      <4> QED BY <4>3, <2>3, <1>0 DEF Lines, Unmapped
    <3> QED BY <3>1, <3>2
  <2>5. Addr(line) <= Addr(p)
    BY <2>1, <2>2, <1>0, AddrOrder
  <2>6. After = Addr(line)
    BY <2>1, <2>5, <1>0 DEF After
  <2>7. addrs'[1] = Addr(line)
    BY <2>6, <1>0, <1>1
  <2>8. Addr(line) > Func
    BY <1>0
  <2> QED BY <2>2, <2>3, <2>4, <2>7, <2>8, <1>1 DEF TriesAbove, Unmapped
<1>5. \A p \in PageNos : BelowFunc(p, NumPages)' => TriesBelow(p)'
  BY <1>0, <1>2, <1>3
<1>6. \A p \in PageNos : AboveFunc(p)' => TriesAbove(p)'
  BY <1>2, <1>4
<1>7. i' # 0
  BY <1>1
<1> QED BY <1>5, <1>6, <1>7 DEF QuietTry

\* mmap gives the page it is asked for, which is near enough when anything is.
LEMMA QuietMmap ==
  ASSUME UInv, QuietTyped, QuietTry, Mmap
  PROVE  QuietTry' /\ QuietCheck'
<1>0. /\ pc = "try" /\ pc' = "check" /\ UNCHANGED <<addrs, i>> /\ i \in 0 .. 1
      /\ mem \in [PageNos -> {"free", "other", "ours"}] /\ Ours = {}
  BY DEF Mmap, QuietTyped, UInv, Typed, Held
<1>1. \A p \in PageNos : mem'[p] = "other" <=> mem[p] = "other"
  BY <1>0 DEF Mmap, MmapResults
<1>2. \A p \in PageNos : /\ Unmapped(p)' <=> Unmapped(p)
                         /\ AboveFunc(p)' <=> AboveFunc(p)
                         /\ \A n \in Nat : BelowFunc(p, n)' <=> BelowFunc(p, n)
  BY <1>1, SameOthers
<1>3. NumPages \in Nat /\ Func \in Nat /\ Func < Top /\ PageSize \in Nat /\ PageSize > 0 /\ Int32Max \in Nat
  BY Bounds
<1>4. QuietTry'
  <2>1. \A p \in PageNos : /\ TriesBelow(p) => TriesBelow(p)'
                           /\ TriesAbove(p) => TriesAbove(p)'
    BY <1>0, <1>2 DEF TriesBelow, TriesAbove
  <2> QED BY <2>1, <1>0, <1>2, <1>3 DEF QuietTry
<1>5. ASSUME Reachable', page_out' # MAP_FAILED PROVE Accepted'
  <2>1. PICK p \in PageNos : IF i = 1 THEN AboveFunc(p) ELSE BelowFunc(p, NumPages)
    BY <1>0, <1>2, <1>3, <1>5 DEF Reachable
  <2>2. p \in Nat
    BY DEF PageNos
  <2>3. PICK r \in PageNos : /\ addrs[i] = Addr(r) /\ r # 0 /\ Unmapped(r)
                             /\ \/ Addr(r) > Func /\ Addr(r) - Func < Int32Max - PageSize
                                \/ Addr(r) < Func /\ Func - Addr(r) < Int32Max - PageSize
    <3>1. CASE i = 1
      <4>1. AboveFunc(p) /\ TriesAbove(p)
        BY <2>1, <3>1, <1>0 DEF QuietTry
      <4>2. PICK r \in PageNos : addrs[1] = Addr(r) /\ Unmapped(r) /\ Addr(r) > Func /\ r <= p
        BY <4>1 DEF TriesAbove
      <4>3. r \in Nat /\ Addr(r) \in Nat /\ Addr(p) \in Nat /\ Addr(r) <= Addr(p)
        BY <4>2, <2>2, AddrOrder DEF PageNos
      <4>4. r # 0
        BY <4>2, <4>3, <1>3, AddrOrder
      <4>5. Addr(r) - Func < Int32Max - PageSize
        BY <4>1, <4>3, <1>3 DEF AboveFunc
      <4> QED BY <3>1, <4>2, <4>4, <4>5
    <3>2. CASE i = 0
      <4>1. BelowFunc(p, NumPages) /\ TriesBelow(p)
        BY <2>1, <3>2, <1>0 DEF QuietTry
      <4>2. PICK r \in PageNos : addrs[0] = Addr(r) /\ r # 0 /\ Unmapped(r) /\ Addr(r) < Func /\ p <= r
        BY <4>1 DEF TriesBelow
      <4>3. r \in Nat /\ Addr(r) \in Nat /\ Addr(p) \in Nat /\ Addr(p) <= Addr(r)
        BY <4>2, <2>2, AddrOrder DEF PageNos
      <4>4. Func - Addr(r) < Int32Max - PageSize
        BY <4>1, <4>3, <1>3 DEF BelowFunc
      <4> QED BY <3>2, <4>2, <4>4
    <3> QED BY <3>1, <3>2, <1>0
  <2>4. mem[r] = "free" /\ Addr(r) \div PageSize = r /\ Addr(r) \in Nat /\ Addr(r) < Top
    BY <2>3, <1>0, AddrOf DEF Unmapped, Ours
  <2>5. MmapResults = {r}
    BY <2>3, <2>4 DEF MmapResults
  <2>6. page_out' = Addr(r)
    BY <2>5, <1>5 DEF Mmap
  <2>7. SafeJumpDistance(Func, Addr(r)) \/ SafeJumpDistance(Addr(r), Func)
    BY <2>3, <2>4, <1>3, MinusIs DEF SafeJumpDistance
  <2> QED BY <2>6, <2>7 DEF Accepted
<1> QED BY <1>0, <1>4, <1>5 DEF QuietCheck

\* A try on one side that fails goes on to the other, and then reads the map
\* again or gives up.
LEMMA QuietNextTry ==
  ASSUME UInv, QuietTyped, QuietTry, pc \in {"try", "check"}, ~Reachable, NextTry, UNCHANGED page_out,
         \A p \in PageNos : mem'[p] = "other" <=> mem[p] = "other"
  PROVE  QuietMap' /\ QuietTry' /\ QuietCheck' /\ QuietError'
<1>0. i \in 0 .. 1 /\ NumPages \in Nat /\ line \in Nat
  BY Bounds DEF QuietTyped
<1>2. \A p \in PageNos : /\ Unmapped(p)' <=> Unmapped(p)
                         /\ AboveFunc(p)' <=> AboveFunc(p)
                         /\ \A n \in Nat : BelowFunc(p, n)' <=> BelowFunc(p, n)
  BY SameOthers
<1>3. CASE i = 1
  <2>1. i' = 0 /\ pc' = "try" /\ UNCHANGED addrs
    BY <1>3 DEF NextTry
  <2>2. \A p \in PageNos : TriesBelow(p) => TriesBelow(p)'
    BY <1>2, <2>1 DEF TriesBelow
  <2>3. \A p \in PageNos : ~AboveFunc(p)
    BY <1>3 DEF Reachable
  <2>4. QuietTry'
    BY <1>0, <1>2, <2>1, <2>2, <2>3 DEF QuietTry
  <2> QED BY <2>1, <2>4 DEF QuietMap, QuietCheck, QuietError
<1>4. CASE i = 0 /\ pc' = "map" /\ line' = 0 /\ addrs' = [k \in 0 .. 1 |-> NULL]
  <2>1. QuietMap'
    BY <1>4 DEF QuietMap, BelowFunc, PageNos, NULL
  <2> QED BY <1>4, <2>1 DEF QuietTry, QuietCheck, QuietError
<1>5. CASE i = 0 /\ pc' = "error"
  <2>1. \A p \in PageNos : ~AboveFunc(p) /\ ~BelowFunc(p, NumPages)
    BY <1>5 DEF QuietTry, Reachable
  <2> QED BY <1>0, <1>2, <1>5, <2>1 DEF QuietMap, QuietTry, QuietCheck, QuietError
<1> QED BY <1>0, <1>3, <1>4, <1>5 DEF NextTry

LEMMA QInvStep == UInv /\ QInv /\ [Next]_vars => QInv'
<1> SUFFICES ASSUME UInv, QInv, [Next]_vars PROVE QInv'
  OBVIOUS
<1> USE DEF QInv
<1>1. CASE UNCHANGED vars
  BY <1>1 DEF vars, QuietTyped, QuietMap, QuietTry, QuietCheck, QuietError, Reachable, Accepted,
              TriesAbove, TriesBelow, AboveFunc, BelowFunc, Unmapped
<1>2. CASE Next
  <2>1. QuietTyped' /\ (others' = 0 => others = 0 /\ ~OtherThread)
    BY <1>2, QuietTypedStep
  <2> SUFFICES ASSUME others = 0, Alloc PROVE QuietMap' /\ QuietTry' /\ QuietCheck' /\ QuietError'
    BY <1>2, <2>1 DEF Next
  <2>2. CASE MapOpenError
    BY <2>2 DEF MapOpenError, QuietMap, QuietTry, QuietCheck, QuietError
  <2>3. CASE ReadLine
    <3>0. pc = "map"
      BY <2>3 DEF ReadLine
    <3>1. PICK p \in Lines :
            /\ \A q \in Lines : p <= q
            /\ \/ Gap(Addr(p)) /\ Func < prev_end /\ Found
               \/ /\ ~(Gap(Addr(p)) /\ Func < prev_end) /\ line' = p + 1 /\ UNCHANGED <<mem, pc>>
                  /\ addrs' = [addrs EXCEPT ![0] = Before(Addr(p))]
      BY <2>3 DEF ReadLine
    <3>2. CASE Found /\ Gap(Addr(p)) /\ Func < prev_end
      <4>1. QuietTry' /\ pc' = "try"
        BY <3>0, <3>1, <3>2, QuietFound DEF Found
      <4> QED BY <4>1 DEF QuietMap, QuietCheck, QuietError
    <3>3. CASE /\ ~(Gap(Addr(p)) /\ Func < prev_end) /\ line' = p + 1 /\ UNCHANGED <<mem, pc>>
               /\ addrs' = [addrs EXCEPT ![0] = Before(Addr(p))]
      <4>1. QuietMap' /\ pc' = "map"
        BY <3>0, <3>1, <3>3, QuietReadLine
      <4> QED BY <4>1 DEF QuietTry, QuietCheck, QuietError
    <3> QED BY <3>1, <3>2, <3>3
  <2>4. CASE LastLine
    <3>0. pc = "map" /\ Lines = {}
      BY <2>4 DEF LastLine
    <3>1. Func < prev_end
      <4>1. PICK f \in Fixed : f \in PageNos /\ \A n \in Nat : Addr(n) <= Func <=> n <= f
        BY FuncPage
      <4>2. line \in Nat /\ prev_end = Addr(line) /\ mem[f] = "other" /\ f \in Nat /\ NumPages \in Nat
        BY <4>1, Bounds DEF QuietTyped, PageNos
      <4>3. ~(line <= f)
        BY <3>0, <4>1, <4>2 DEF Lines
      <4> QED BY <4>1, <4>2, <4>3, Bounds, AddrOrder
    <3>2. QuietTry' /\ pc' = "try"
      BY <2>4, <3>0, <3>1, QuietFound DEF LastLine, Found
    <3> QED BY <3>2 DEF QuietMap, QuietCheck, QuietError
  <2>5. CASE SkipNull
    <3>1. /\ pc = "try" /\ addrs[i] = 0 /\ NextTry /\ UNCHANGED <<mem, page_out>> /\ i \in 0 .. 1
      BY <2>5 DEF SkipNull, NULL, QuietTyped
    <3>2. \A r \in PageNos : Addr(r) = 0 => r = 0 /\ ~(Addr(r) > Func)
      <4> TAKE r \in PageNos
      <4>1. r \in Nat /\ Addr(r) \in Nat /\ Func \in Nat /\ PageSize > 0 /\ PageSize \in Nat
        BY Bounds, AddrOrder DEF PageNos
      <4>2. 0 < r => Addr(0) + PageSize <= Addr(r)
        BY <4>1, AddrOrder
      <4>3. Addr(0) = 0
        BY AddrOrder
      <4> QED BY <4>1, <4>2, <4>3
    <3>3. ~Reachable
      BY <3>1, <3>2 DEF Reachable, QuietTry, TriesAbove, TriesBelow
    <3> QED BY <3>1, <3>3, QuietNextTry
  <2>6. CASE Mmap
    <3>1. QuietTry' /\ QuietCheck' /\ pc' = "check"
      BY <2>6, QuietMmap DEF Mmap
    <3> QED BY <3>1 DEF QuietMap, QuietError
  <2>7. CASE Accept
    BY <2>7 DEF Accept, QuietMap, QuietTry, QuietCheck, QuietError
  <2>8. CASE MmapError
    BY <2>8 DEF MmapError, QuietMap, QuietTry, QuietCheck, QuietError
  <2>9. CASE TooFar
    <3>1. pc = "check" /\ ~Reachable /\ NextTry /\ UNCHANGED page_out
      BY <2>9 DEF TooFar, QuietCheck
    <3>2. PICK p \in PageNos : page_out = Addr(p) /\ mem[p] = "ours"
      BY <2>9 DEF TooFar, UInv, Held, Kept, Ours
    <3>3. mem' = [mem EXCEPT ![p] = "free"]
      BY <2>9, <3>2, AddrOf DEF TooFar
    <3>4. \A q \in PageNos : mem'[q] = "other" <=> mem[q] = "other"
      BY <3>2, <3>3 DEF UInv, Typed
    <3> QED BY <3>1, <3>4, QuietNextTry
  <2> QED BY <2>2, <2>3, <2>4, <2>5, <2>6, <2>7, <2>8, <2>9 DEF Alloc
<1> QED BY <1>1, <1>2

\* While other threads are quiet and mmap works, funchook_page_alloc fails only
\* when there is no free page within reach behind the function, nor one before
\* a mapping below it: get_free_address keeps the nearest of each, mmap gives
\* what it is asked for, and the check accepts it.
THEOREM QuietSucceedsTheorem == Spec => []QuietSucceeds
<1>1. UInv /\ QInv => QuietSucceeds
  <2> SUFFICES ASSUME UInv, QInv, pc = "error", others = 0, page_out # MAP_FAILED,
                      NEW p \in PageNos \ {0}, mem[p] = "free",
                      \/ Addr(p) > Func /\ Addr(p) - Func < Int32Max - PageSize
                      \/ /\ Addr(p) < Func /\ Func - Addr(p) < Int32Max - PageSize
                         /\ \E q \in PageNos : mem[q] # "free" /\ p < q /\ Addr(q) < Func
               PROVE  FALSE
    BY DEF QuietSucceeds
  <2>1. Unmapped(p) /\ ~AboveFunc(p) /\ ~BelowFunc(p, NumPages)
    BY DEF QInv, QuietError, Unmapped
  <2>2. \A q \in PageNos : q < NumPages /\ (mem[q] # "free" => mem[q] = "other")
    BY Bounds DEF UInv, Typed, Held, Ours, PageNos
  <2>3. ~(Addr(p) > Func /\ Addr(p) - Func < Int32Max - PageSize)
    BY <2>1 DEF AboveFunc
  <2>4. \E q \in PageNos : q < NumPages /\ mem[q] = "other" /\ p < q /\ Addr(q) < Func
    BY <2>2, <2>3
  <2> QED BY <2>1, <2>3, <2>4 DEF BelowFunc
<1>2. Spec => []QInv
  BY InitQInv, QInvStep, UnixInvariance, PTL DEF Spec
<1> QED BY <1>1, <1>2, UnixInvariance, PTL
=============================================================================
