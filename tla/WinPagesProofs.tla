--------------------------- MODULE WinPagesProofs ---------------------------
(***************************************************************************)
(* Proofs about WinPages, for every number of units and pages, every set   *)
(* of functions, every reach and every set of failing calls.               *)
(***************************************************************************)
EXTENDS WinPages, FiniteSetTheorems, SequenceTheorems, TLAPS

\* A page that a handle has is marked in a unit of the list.
HeldListed == \A p \in held : p[1] \in Listed /\ p[2] \in used[p[1]]

\* What the steps of funchook_page_alloc know about the page to hand out.
Underway ==
  /\ pc = "control" => owner[cur[1]] = "ours" /\ cur[1] \notin Listed
  /\ pc = "commit"  => cur[1] \in Listed /\ cur[2] \notin used[cur[1]]

\* Marked pages that no handle has are in units in which a call failed.
MarkedHeld == \A u \in Listed \ broken : \A i \in used[u] : <<u, i>> \in held

\* ReleasedWhenUnused, with the unit that funchook_page_alloc is at.
Wanted(u) == (\E p \in held : p[1] = u) \/ (pc \in {"control", "commit"} /\ cur[1] = u)
ReleasedOrWanted == \A u \in Units : owner[u] = "ours" => u \in broken \/ Wanted(u)

WInv == TypeOK /\ Bookkeeping /\ HeldListed /\ Underway /\ MarkedHeld /\ ReleasedOrWanted
-----------------------------------------------------------------------------
(* The list *)

Elements(s) == {s[j] : j \in DOMAIN s}
Distinct(s) == \A j, k \in DOMAIN s : s[j] = s[k] => j = k

\* Linking a unit that is not on the list puts it on the list, once.
LEMMA LinkUnit ==
  ASSUME NEW s \in Seq(Units), Distinct(s), NEW u \in Units, u \notin Elements(s)
  PROVE  LET t == <<u>> \o s
         IN  t \in Seq(Units) /\ Distinct(t) /\ Elements(t) = Elements(s) \cup {u}
<1> DEFINE t == <<u>> \o s
<1>1. t \in Seq(Units) /\ DOMAIN t = 1 .. Len(s) + 1 /\ t[1] = u
  OBVIOUS
<1>2. \A j \in 1 .. Len(s) : t[j + 1] = s[j]
  OBVIOUS
<1>3. DOMAIN s = 1 .. Len(s) /\ Len(s) \in Nat
  OBVIOUS
<1> HIDE DEF t
<1>4. \A k \in DOMAIN t : k = 1 \/ (k - 1 \in DOMAIN s /\ t[k] = s[k - 1])
  <2> TAKE k \in DOMAIN t
  <2>1. k = 1 \/ k - 1 \in 1 .. Len(s)
    BY <1>1, <1>3
  <2> QED BY <2>1, <1>1, <1>2, <1>3
<1>5. Distinct(t)
  <2> SUFFICES ASSUME NEW j \in DOMAIN t, NEW k \in DOMAIN t, t[j] = t[k] PROVE j = k
    BY DEF Distinct
  <2>1. CASE j = 1 \/ k = 1
    BY <2>1, <1>1, <1>4 DEF Elements
  <2>2. CASE j # 1 /\ k # 1
    <3>1. j - 1 = k - 1
      BY <2>2, <1>4 DEF Distinct
    <3> QED BY <3>1, <1>1, <1>3
  <2> QED BY <2>1, <2>2
<1>6. Elements(t) = Elements(s) \cup {u}
  <2>1. Elements(t) \subseteq Elements(s) \cup {u}
    BY <1>1, <1>4 DEF Elements
  <2>2. u \in Elements(t)
    BY <1>1, <1>3 DEF Elements
  <2>3. ASSUME NEW j \in DOMAIN s PROVE s[j] \in Elements(t)
    BY <1>1, <1>2, <1>3 DEF Elements
  <2> QED BY <2>1, <2>2, <2>3 DEF Elements
<1> QED BY <1>1, <1>5, <1>6 DEF t

\* Unlinking a unit takes it from the list and no other.
LEMMA UnlinkUnit ==
  ASSUME NEW s \in Seq(Units), Distinct(s), NEW j \in DOMAIN s
  PROVE  LET t == RemoveAt(s, j)
         IN  t \in Seq(Units) /\ Distinct(t) /\ Elements(t) = Elements(s) \ {s[j]}
<1> DEFINE t == RemoveAt(s, j)
<1>0. DOMAIN s = 1 .. Len(s) /\ Len(s) \in Nat /\ j \in Int
  OBVIOUS
<1> DEFINE before == SubSeq(s, 1, j - 1)
           after  == SubSeq(s, j + 1, Len(s))
<1>1. before \in Seq(Units) /\ Len(before) = j - 1 /\ \A k \in 1 .. j - 1 : before[k] = s[k]
  BY <1>0
<1>2. after \in Seq(Units) /\ Len(after) = Len(s) - j /\ \A k \in 1 .. Len(s) - j : after[k] = s[j + k]
  BY <1>0
<1>t. t = before \o after
  BY DEF RemoveAt
<1> HIDE DEF before, after, t
<1>3. t \in Seq(Units) /\ DOMAIN t = 1 .. Len(s) - 1
  <2>1. t \in Seq(Units) /\ Len(t) = Len(before) + Len(after)
    BY <1>1, <1>2, <1>t, ConcatProperties
  <2>2. Len(t) = Len(s) - 1
    BY <2>1, <1>0, <1>1, <1>2
  <2> QED BY <2>1, <2>2
<1>4. \A k \in 1 .. Len(s) - 1 : t[k] = IF k <= j - 1 THEN before[k] ELSE after[k - (j - 1)]
  <2>1. Len(before) + Len(after) = Len(s) - 1
    BY <1>0, <1>1, <1>2
  <2>2. \A k \in 1 .. Len(before) + Len(after) :
          t[k] = IF k <= Len(before) THEN before[k] ELSE after[k - Len(before)]
    BY <1>1, <1>2, <1>t, ConcatProperties, Zenon
  <2>3. Len(before) = j - 1
    BY <1>1
  <2> QED BY <2>1, <2>2, <2>3
<1>5. \A k \in 1 .. Len(s) - 1 : t[k] = IF k < j THEN s[k] ELSE s[k + 1]
  <2> TAKE k \in 1 .. Len(s) - 1
  <2>1. CASE k < j
    BY <2>1, <1>0, <1>1, <1>4
  <2>2. CASE ~(k < j)
    <3>1. k - (j - 1) \in 1 .. Len(s) - j /\ j + (k - (j - 1)) = k + 1
      BY <2>2, <1>0
    <3>2. t[k] = after[k - (j - 1)]
      BY <2>2, <1>0, <1>4
    <3>3. after[k - (j - 1)] = s[j + (k - (j - 1))]
      BY <3>1, <1>2
    <3> QED BY <2>2, <3>1, <3>2, <3>3
  <2> QED BY <2>1, <2>2
<1> DEFINE at(k) == IF k < j THEN k ELSE k + 1
<1>6. \A k \in DOMAIN t : at(k) \in DOMAIN s \ {j} /\ t[k] = s[at(k)]
  BY <1>0, <1>3, <1>5
<1>7. \A k, m \in DOMAIN t : at(k) = at(m) => k = m
  BY <1>0, <1>3
<1>8. \A m \in DOMAIN s \ {j} : \E k \in DOMAIN t : at(k) = m
  <2> TAKE m \in DOMAIN s \ {j}
  <2>1. CASE m < j
    BY <2>1, <1>0, <1>3
  <2>2. CASE m > j
    <3>1. m - 1 \in DOMAIN t /\ at(m - 1) = m
      BY <2>2, <1>0, <1>3
    <3> QED BY <3>1
  <2> QED BY <2>1, <2>2, <1>0
<1> HIDE DEF at
<1>9. Distinct(t)
  BY <1>6, <1>7 DEF Distinct
<1>10. Elements(t) = Elements(s) \ {s[j]}
  <2>1. ASSUME NEW k \in DOMAIN t PROVE t[k] \in Elements(s) \ {s[j]}
    BY <1>6 DEF Distinct, Elements
  <2>2. ASSUME NEW m \in DOMAIN s, s[m] # s[j] PROVE s[m] \in Elements(t)
    BY <2>2, <1>6, <1>8 DEF Elements
  <2> QED BY <2>1, <2>2 DEF Elements
<1> QED BY <1>3, <1>9, <1>10 DEF t
-----------------------------------------------------------------------------
(* The steps *)

LEMMA ListedElements == Listed = Elements(page_list) /\ Listed' = Elements(page_list')
BY DEF Listed, Elements

LEMMA ListedUnits == TypeOK => Listed \subseteq Units
BY DEF TypeOK, Listed

\* A set of slots is finite and has at most max_num_pages members.
LEMMA SlotsFinite ==
  ASSUME NEW S \in SUBSET Slots
  PROVE  IsFiniteSet(S) /\ Cardinality(S) \in 0 .. max_num_pages
<1>1. IsFiniteSet(Slots) /\ Cardinality(Slots) = max_num_pages
  BY WinAssumption, FS_Interval DEF Slots
<1>2. IsFiniteSet(S) /\ Cardinality(S) <= max_num_pages
  BY <1>1, FS_Subset
<1>3. Cardinality(S) \in Nat
  BY <1>2, FS_CardinalityType
<1> QED BY <1>2, <1>3, WinAssumption

LEMMA InitWInv == Init => WInv
<1> SUFFICES ASSUME Init PROVE WInv
  OBVIOUS
<1>1. TypeOK
  <2>1. <<>> \in Seq(Units)
    OBVIOUS
  <2>2. <<0, 1>> \in Pages
    BY WinAssumption DEF Pages, Units, Slots
  <2> QED BY <2>1, <2>2, WinAssumption DEF Init, TypeOK
<1>2. Listed = {}
  BY DEF Init, Listed
<1>3. Bookkeeping
  BY <1>2 DEF Init, Bookkeeping
<1>4. HeldListed /\ Underway /\ MarkedHeld
  BY <1>2 DEF Init, HeldListed, Underway, MarkedHeld
<1>5. ReleasedOrWanted
  BY DEF Init, ReleasedOrWanted
<1> QED BY <1>1, <1>3, <1>4, <1>5 DEF WInv

LEMMA AllocListedStep ==
  ASSUME WInv, NEW f \in Funcs, AllocListed(f)
  PROVE  WInv'
<1>1. PICK s \in Spare(f) : cur' = <<page_list[s[1]], s[2]>>
  BY DEF AllocListed
<1>2. cur'[1] = page_list[s[1]] /\ cur'[2] = s[2] /\ s[1] \in DOMAIN page_list /\ s[2] \in Slots /\ s[2] \notin used[cur'[1]]
  BY <1>1 DEF Spare
<1>3. page_list[s[1]] \in Listed /\ page_list[s[1]] \in Units
  BY <1>2 DEF Listed, WInv, TypeOK
<1>4. /\ pc = "idle" /\ pc' = "commit"
      /\ UNCHANGED <<owner, page_list, used, num_used, committed, rv, held, broken>>
  BY DEF AllocListed, unitVars
<1>5. Listed' = Listed
  BY <1>4 DEF Listed
<1>6. TypeOK'
  <2>1. cur' \in Pages
    BY <1>1, <1>2, <1>3 DEF Pages
  <2> QED BY <2>1, <1>4 DEF WInv, TypeOK
<1>7. Bookkeeping'
  BY <1>4, <1>5 DEF WInv, Bookkeeping
<1>8. HeldListed' /\ MarkedHeld'
  BY <1>4, <1>5 DEF WInv, HeldListed, MarkedHeld
<1>9. Underway'
  BY <1>2, <1>3, <1>4, <1>5 DEF Underway
<1>10. ReleasedOrWanted'
  BY <1>4 DEF WInv, ReleasedOrWanted, Wanted
<1> QED BY <1>6, <1>7, <1>8, <1>9, <1>10 DEF WInv

LEMMA AllocUnitStep ==
  ASSUME WInv, NEW f \in Funcs, AllocUnit(f)
  PROVE  WInv'
<1>1. /\ pc = "idle" /\ pc' \in {"idle", "reserve"}
      /\ UNCHANGED <<owner, page_list, used, num_used, committed, held, broken>>
  BY DEF AllocUnit, unitVars
<1>2. cur' \in Pages /\ rv' \in {"SUCCESS", "MEMORY_ALLOCATION", "MEMORY_FUNCTION"}
  BY WinAssumption DEF AllocUnit, FreeAbove, Pages, Slots, WInv, TypeOK
<1>3. Listed' = Listed
  BY <1>1 DEF Listed
<1>4. TypeOK'
  BY <1>1, <1>2 DEF WInv, TypeOK
<1>5. Bookkeeping'
  BY <1>1, <1>3 DEF WInv, Bookkeeping
<1>6. HeldListed' /\ MarkedHeld' /\ Underway'
  BY <1>1, <1>3 DEF WInv, HeldListed, MarkedHeld, Underway
<1>7. ReleasedOrWanted'
  BY <1>1 DEF WInv, ReleasedOrWanted, Wanted
<1> QED BY <1>4, <1>5, <1>6, <1>7 DEF WInv

\* Steps that change who has a unit of which nothing is on the list.
LEMMA ReserveStep ==
  ASSUME WInv, Reserve
  PROVE  WInv'
<1>1. /\ UNCHANGED <<page_list, used, num_used, committed, cur, held, broken>>
      /\ pc = "reserve" /\ pc' \in {"idle", "control"} /\ cur \in Pages /\ cur[1] \in Units
  BY DEF Reserve, unitVars, WInv, TypeOK, Pages
<1>2. Listed' = Listed /\ Listed \subseteq Units
  BY <1>1, ListedUnits DEF Listed, WInv
<1>3. \/ owner[cur[1]] = "free" /\ owner' = [owner EXCEPT ![cur[1]] = "ours"] /\ pc' = "control"
      \/ owner' = owner /\ pc' = "idle"
  BY DEF Reserve, unitVars
<1>4. owner' \in [Units -> {"free", "other", "ours"}]
  BY <1>1, <1>3 DEF WInv, TypeOK
<1>5. TypeOK'
  BY <1>1, <1>4 DEF Reserve, WInv, TypeOK
<1>6. Bookkeeping'
  <2>1. \A u \in Listed : owner[u] = "ours" => owner'[u] = "ours"
    BY <1>1, <1>2, <1>3 DEF WInv, TypeOK
  <2> QED BY <2>1, <1>1, <1>2 DEF WInv, Bookkeeping
<1>7. HeldListed' /\ MarkedHeld'
  BY <1>1, <1>2 DEF WInv, HeldListed, MarkedHeld
<1>8. Underway'
  BY <1>1, <1>2, <1>3 DEF WInv, TypeOK, Bookkeeping, Underway
<1>9. ReleasedOrWanted'
  BY <1>1, <1>3 DEF WInv, TypeOK, ReleasedOrWanted, Wanted
<1> QED BY <1>5, <1>6, <1>7, <1>8, <1>9 DEF WInv

LEMMA OtherThreadStep ==
  ASSUME WInv, OtherThread
  PROVE  WInv'
<1>1. UNCHANGED <<page_list, used, num_used, committed, pc, cur, rv, held, broken>>
  BY DEF OtherThread
<1>2. Listed' = Listed /\ Listed \subseteq Units
  BY <1>1, ListedUnits DEF Listed, WInv
<1>3. PICK u \in Units : \E o \in {"free", "other"} : owner[u] # "ours" /\ owner' = [owner EXCEPT ![u] = o]
  BY DEF OtherThread
<1>4. owner' \in [Units -> {"free", "other", "ours"}]
  BY <1>3 DEF WInv, TypeOK
<1>5. \A w \in Units : owner'[w] = "ours" <=> owner[w] = "ours"
  BY <1>3 DEF WInv, TypeOK
<1>6. TypeOK'
  BY <1>1, <1>4 DEF WInv, TypeOK
<1>7. Bookkeeping'
  BY <1>1, <1>2, <1>5 DEF WInv, Bookkeeping
<1>8. HeldListed' /\ MarkedHeld'
  BY <1>1, <1>2 DEF WInv, HeldListed, MarkedHeld
<1>9. Underway'
  <2>1. cur[1] \in Units
    BY DEF WInv, TypeOK, Pages
  <2> QED BY <2>1, <1>1, <1>2, <1>5 DEF WInv, Underway
<1>10. ReleasedOrWanted'
  BY <1>1, <1>5 DEF WInv, ReleasedOrWanted, Wanted
<1> QED BY <1>6, <1>7, <1>8, <1>9, <1>10 DEF WInv

\* The unit that was reserved is linked with no page marked, or
\* released, or lost.
LEMMA ControlStep ==
  ASSUME WInv, Control
  PROVE  WInv'
<1> DEFINE u == cur[1]
<1>1. /\ pc = "control" /\ cur \in Pages /\ u \in Units /\ u \notin Listed /\ owner[u] = "ours"
      /\ cur[2] \in Slots /\ Listed \subseteq Units
      /\ UNCHANGED <<cur, held>>
  BY ListedUnits DEF Control, WInv, TypeOK, Pages, Underway
<1>h. \A p \in held : p[1] # u
  BY <1>1 DEF WInv, HeldListed
<1> HIDE DEF u
<1>2. CASE /\ committed' = [committed EXCEPT ![u] = {0}] /\ used' = [used EXCEPT ![u] = {}]
           /\ num_used' = [num_used EXCEPT ![u] = 0] /\ page_list' = <<u>> \o page_list
           /\ pc' = "commit" /\ UNCHANGED <<owner, rv, broken>>
  <2>1. page_list' \in Seq(Units) /\ Distinct(page_list') /\ Listed' = Listed \cup {u}
    BY <1>1, <1>2, LinkUnit, ListedElements DEF WInv, TypeOK, Bookkeeping, Distinct
  <2>2. /\ used'[u] = {} /\ committed'[u] = {0} /\ num_used'[u] = 0
        /\ \A w \in Units \ {u} : used'[w] = used[w] /\ committed'[w] = committed[w] /\ num_used'[w] = num_used[w]
    BY <1>1, <1>2 DEF WInv, TypeOK
  <2>3. TypeOK'
    <3>1. 0 \in 0 .. max_num_pages
      BY WinAssumption
    <3>2. /\ used' \in [Units -> SUBSET Slots] /\ committed' \in [Units -> SUBSET (Slots \cup {0})]
          /\ num_used' \in [Units -> 0 .. max_num_pages]
      BY <3>1, <1>2 DEF WInv, TypeOK
    <3> QED BY <3>2, <1>1, <1>2, <2>1 DEF WInv, TypeOK
  <2>4. Bookkeeping'
    <3>1. Cardinality({}) = 0
      BY FS_EmptySet
    <3>2. \A w \in Listed' : /\ owner'[w] = "ours"
                             /\ num_used'[w] = Cardinality(used'[w])
                             /\ committed'[w] = used'[w] \cup {0}
      <4> TAKE w \in Listed'
      <4>1. CASE w = u
        BY <4>1, <3>1, <1>1, <1>2, <2>2
      <4>2. CASE w # u
        BY <4>2, <2>1, <2>2, <1>1, <1>2 DEF WInv, Bookkeeping
      <4> QED BY <4>1, <4>2
    <3> QED BY <2>1, <3>2 DEF Bookkeeping, Distinct
  <2>5. HeldListed'
    BY <1>1, <1>h, <2>1, <2>2 DEF WInv, TypeOK, HeldListed
  <2>6. Underway'
    BY <1>1, <1>2, <2>1, <2>2 DEF Underway, u
  <2>7. MarkedHeld'
    BY <1>1, <1>2, <2>1, <2>2 DEF WInv, MarkedHeld
  <2>8. ReleasedOrWanted'
    BY <1>1, <1>2 DEF WInv, ReleasedOrWanted, Wanted
  <2> QED BY <2>3, <2>4, <2>5, <2>6, <2>7, <2>8 DEF WInv
<1>3. CASE /\ owner' = [owner EXCEPT ![u] = "free"] /\ pc' = "idle" /\ rv' = "MEMORY_FUNCTION"
           /\ UNCHANGED <<page_list, used, num_used, committed, broken>>
  <2>1. /\ owner' \in [Units -> {"free", "other", "ours"}]
        /\ \A w \in Units : owner'[w] = IF w = u THEN "free" ELSE owner[w]
    BY <1>1, <1>3 DEF WInv, TypeOK
  <2>2. Listed' = Listed
    BY <1>3 DEF Listed
  <2>3. TypeOK'
    BY <1>1, <1>3, <2>1 DEF WInv, TypeOK
  <2>4. Bookkeeping'
    BY <1>1, <1>3, <2>1, <2>2 DEF WInv, Bookkeeping
  <2>5. HeldListed' /\ Underway' /\ MarkedHeld'
    BY <1>1, <1>3, <2>2 DEF WInv, HeldListed, Underway, MarkedHeld
  <2>6. ReleasedOrWanted'
    BY <1>1, <1>3, <2>1 DEF WInv, ReleasedOrWanted, Wanted, u
  <2> QED BY <2>3, <2>4, <2>5, <2>6 DEF WInv
<1>4. CASE /\ broken' = broken \cup {u} /\ pc' = "idle" /\ rv' = "MEMORY_FUNCTION"
           /\ UNCHANGED <<owner, page_list, used, num_used, committed>>
  <2>1. Listed' = Listed
    BY <1>4 DEF Listed
  <2>2. TypeOK' /\ Bookkeeping'
    BY <1>1, <1>4, <2>1 DEF WInv, TypeOK, Bookkeeping
  <2>3. HeldListed' /\ Underway' /\ MarkedHeld'
    BY <1>1, <1>4, <2>1 DEF WInv, HeldListed, Underway, MarkedHeld
  <2>4. ReleasedOrWanted'
    BY <1>1, <1>4 DEF WInv, ReleasedOrWanted, Wanted, u
  <2> QED BY <2>2, <2>3, <2>4 DEF WInv
<1> QED BY <1>1, <1>2, <1>3, <1>4 DEF Control, u

\* The page is marked, counted and committed together, or nothing changes.
LEMMA CommitStep ==
  ASSUME WInv, Commit
  PROVE  WInv'
<1> DEFINE u == cur[1]
           i == cur[2]
<1>1. /\ pc = "commit" /\ cur \in Pages /\ u \in Units /\ i \in Slots /\ cur = <<u, i>>
      /\ u \in Listed /\ i \notin used[u] /\ Listed \subseteq Units
  BY ListedUnits DEF Commit, WInv, TypeOK, Pages, Underway
<1>2. UNCHANGED <<owner, page_list, cur>> /\ pc' = "idle"
  BY DEF Commit, Fail, unitVars
<1>3. Listed' = Listed
  BY <1>2 DEF Listed
<1>4. CASE /\ committed' = [committed EXCEPT ![u] = @ \cup {i}] /\ HandOut /\ rv' = "SUCCESS"
           /\ UNCHANGED broken
  <2>1. /\ used' = [used EXCEPT ![u] = @ \cup {i}] /\ num_used' = [num_used EXCEPT ![u] = @ + 1]
        /\ held' = held \cup {<<u, i>>}
    BY <1>1, <1>4 DEF HandOut
  <2> HIDE DEF u, i
  <2>2. /\ used'[u] = used[u] \cup {i} /\ num_used'[u] = num_used[u] + 1 /\ committed'[u] = committed[u] \cup {i}
        /\ \A w \in Units \ {u} : used'[w] = used[w] /\ committed'[w] = committed[w] /\ num_used'[w] = num_used[w]
    BY <1>1, <1>4, <2>1 DEF WInv, TypeOK
  <2>3. used' \in [Units -> SUBSET Slots] /\ committed' \in [Units -> SUBSET (Slots \cup {0})]
    BY <1>1, <1>4, <2>1 DEF WInv, TypeOK
  <2>4. num_used'[u] = Cardinality(used'[u]) /\ num_used'[u] \in 0 .. max_num_pages
    <3>1. used[u] \in SUBSET Slots /\ used'[u] \in SUBSET Slots
      BY <1>1, <2>3 DEF WInv, TypeOK
    <3>2. num_used[u] = Cardinality(used[u])
      BY <1>1 DEF WInv, Bookkeeping
    <3>3. Cardinality(used'[u]) = Cardinality(used[u]) + 1
      BY <1>1, <2>2, <3>1, SlotsFinite, FS_AddElement
    <3> QED BY <2>2, <3>1, <3>2, <3>3, SlotsFinite
  <2>5. TypeOK'
    <3>1. num_used' \in [Units -> 0 .. max_num_pages]
      BY <1>1, <2>1, <2>2, <2>4 DEF WInv, TypeOK
    <3> QED BY <3>1, <1>1, <1>2, <1>4, <2>1, <2>3 DEF WInv, TypeOK, Pages
  <2>6. Bookkeeping'
    <3>1. \A w \in Listed' : num_used'[w] = Cardinality(used'[w]) /\ committed'[w] = used'[w] \cup {0}
      BY <1>1, <1>3, <2>2, <2>4 DEF WInv, Bookkeeping
    <3> QED BY <3>1, <1>2, <1>3 DEF WInv, Bookkeeping
  <2>7. HeldListed'
    BY <1>1, <1>3, <2>1, <2>2 DEF WInv, TypeOK, HeldListed
  <2>8. MarkedHeld'
    BY <1>1, <1>3, <1>4, <2>1, <2>2 DEF WInv, MarkedHeld
  <2>9. ReleasedOrWanted'
    <3>1. \A w \in Units : Wanted(w) => Wanted(w)'
      BY <1>1, <1>2, <2>1 DEF Wanted, u
    <3> QED BY <3>1, <1>2, <1>4 DEF WInv, ReleasedOrWanted
  <2> QED BY <2>5, <2>6, <2>7, <2>8, <2>9, <1>2 DEF WInv, Underway
<1>5. CASE Fail("MEMORY_FUNCTION", u) /\ UNCHANGED unitVars
  <2>1. /\ rv' = "MEMORY_FUNCTION" /\ broken' = broken \cup {u}
        /\ UNCHANGED <<held, used, num_used, committed>>
    BY <1>5 DEF Fail, unitVars
  <2>2. TypeOK'
    BY <1>1, <1>2, <2>1 DEF WInv, TypeOK
  <2>3. Bookkeeping'
    BY <1>2, <1>3, <2>1 DEF WInv, Bookkeeping
  <2>4. HeldListed' /\ Underway' /\ MarkedHeld'
    BY <1>2, <1>3, <2>1 DEF WInv, HeldListed, Underway, MarkedHeld
  <2>5. ReleasedOrWanted'
    BY <1>1, <1>2, <2>1 DEF WInv, ReleasedOrWanted, Wanted
  <2> QED BY <2>2, <2>3, <2>4, <2>5 DEF WInv
<1> QED BY <1>4, <1>5 DEF Commit

\* A page given back was the only one marked, and its unit is unlinked before
\* it is released, or another page of the unit stays marked and counted.
LEMMA PageFreeStep ==
  ASSUME WInv, NEW u \in Units, NEW i \in Slots, PageFree(u, i)
  PROVE  WInv'
<1>1. /\ pc = "idle" /\ <<u, i>> \in held /\ held' = held \ {<<u, i>>}
      /\ UNCHANGED <<pc, cur>>
  BY DEF PageFree
<1>2. /\ u \in Listed /\ i \in used[u] /\ Listed \subseteq Units /\ owner[u] = "ours"
      /\ used[u] \in SUBSET Slots /\ num_used[u] = Cardinality(used[u])
      /\ committed[u] = used[u] \cup {0} /\ 0 \notin Slots
  BY <1>1, ListedUnits, WinAssumption DEF WInv, TypeOK, HeldListed, Bookkeeping, Slots
<1>p. held \subseteq Pages /\ \A p \in held : p = <<p[1], p[2]>> /\ p[1] \in Units /\ p[2] \in Slots
  BY DEF WInv, TypeOK, Pages
<1>3. \A w \in Units : w # u /\ Wanted(w) => Wanted(w)'
  BY <1>1, <1>p DEF Wanted
<1>4. CASE /\ "decommit" \in OsFaults /\ rv' = "MEMORY_FUNCTION" /\ broken' = broken \cup {u}
           /\ UNCHANGED unitVars
  <2>1. UNCHANGED <<owner, page_list, used, num_used, committed>> /\ Listed' = Listed
    BY <1>4 DEF unitVars, Listed
  <2>2. TypeOK'
    BY <1>1, <1>4, <2>1 DEF WInv, TypeOK
  <2>3. Bookkeeping'
    BY <2>1 DEF WInv, Bookkeeping
  <2>4. HeldListed' /\ Underway' /\ MarkedHeld'
    BY <1>1, <1>4, <2>1 DEF WInv, HeldListed, Underway, MarkedHeld
  <2>5. ReleasedOrWanted'
    BY <1>3, <1>4, <2>1 DEF WInv, ReleasedOrWanted
  <2> QED BY <2>2, <2>3, <2>4, <2>5 DEF WInv
<1>5. ASSUME GiveBack(u, i)
      PROVE  /\ used'[u] = used[u] \ {i} /\ num_used'[u] = Cardinality(used'[u])
             /\ \A w \in Units \ {u} : used'[w] = used[w] /\ num_used'[w] = num_used[w]
             /\ used' \in [Units -> SUBSET Slots] /\ num_used' \in [Units -> 0 .. max_num_pages]
  <2>1. /\ used'[u] = used[u] \ {i} /\ num_used'[u] = num_used[u] - 1
        /\ \A w \in Units \ {u} : used'[w] = used[w] /\ num_used'[w] = num_used[w]
        /\ used' \in [Units -> SUBSET Slots]
    BY <1>5 DEF GiveBack, WInv, TypeOK
  <2>2. Cardinality(used[u] \ {i}) = Cardinality(used[u]) - 1
    BY <1>2, SlotsFinite, FS_RemoveElement
  <2>3. num_used'[u] = Cardinality(used'[u])
    BY <1>2, <2>1, <2>2
  <2>4. num_used'[u] \in 0 .. max_num_pages
    BY <2>1, <2>3, SlotsFinite
  <2>5. num_used' \in [Units -> 0 .. max_num_pages]
    BY <1>5, <2>1, <2>4 DEF GiveBack, WInv, TypeOK
  <2> QED BY <2>1, <2>3, <2>5
<1>6. CASE GiveBack(u, i) /\ LastPage(u) /\ ReleaseUnit(u)
  <2>1. used[u] = {i}
    <3>1. Cardinality(used[u]) = 1
      BY <1>2, <1>6 DEF LastPage
    <3>2. \E x : used[u] = {x}
      BY <3>1, <1>2, SlotsFinite, FS_Singleton
    <3> QED BY <3>2, <1>2
  <2>2. page_list' \in Seq(Units) /\ Distinct(page_list') /\ Listed' = Listed \ {u}
    <3>1. PICK j \in DOMAIN page_list : page_list[j] = u /\ page_list' = RemoveAt(page_list, j)
      BY <1>6 DEF ReleaseUnit
    <3>2. page_list \in Seq(Units) /\ Distinct(page_list)
      BY DEF WInv, TypeOK, Bookkeeping, Distinct
    <3> QED BY <3>1, <3>2, UnlinkUnit, ListedElements
  <2>3. /\ owner' \in [Units -> {"free", "other", "ours"}]
        /\ committed' \in [Units -> SUBSET (Slots \cup {0})]
        /\ \A w \in Units \ {u} : owner'[w] = owner[w] /\ committed'[w] = committed[w]
    <3>1. owner \in [Units -> {"free", "other", "ours"}] /\ committed \in [Units -> SUBSET (Slots \cup {0})]
      BY DEF WInv, TypeOK
    <3>2. owner' = owner \/ owner' = [owner EXCEPT ![u] = "free"]
      BY <1>6 DEF ReleaseUnit
    <3>3. committed' = [committed EXCEPT ![u] = {}] \/ committed' = [committed EXCEPT ![u] = {0}]
      BY <1>6 DEF ReleaseUnit
    <3> QED BY <3>1, <3>2, <3>3
  <2>4. \A p \in held' : p[1] # u
    BY <1>1, <1>p, <2>1 DEF WInv, HeldListed
  <2>5. /\ rv' \in {"SUCCESS", "MEMORY_FUNCTION"} /\ broken' \subseteq Units /\ broken \subseteq broken'
        /\ owner'[u] # "ours" \/ u \in broken'
    BY <1>6 DEF ReleaseUnit, WInv, TypeOK
  <2>6. TypeOK'
    BY <1>1, <1>5, <1>6, <2>2, <2>3, <2>5 DEF WInv, TypeOK
  <2>7. Bookkeeping'
    <3>1. \A w \in Listed' : /\ owner'[w] = "ours"
                             /\ num_used'[w] = Cardinality(used'[w])
                             /\ committed'[w] = used'[w] \cup {0}
      BY <1>2, <1>5, <1>6, <2>2, <2>3 DEF WInv, Bookkeeping
    <3> QED BY <2>2, <3>1 DEF Bookkeeping, Distinct
  <2>8. HeldListed'
    BY <1>1, <1>5, <1>6, <1>p, <2>2, <2>4 DEF WInv, HeldListed
  <2>9. MarkedHeld'
    <3> SUFFICES ASSUME NEW w \in Listed' \ broken', NEW k \in used'[w] PROVE <<w, k>> \in held'
      BY DEF MarkedHeld
    <3>1. w # u /\ w \in Listed \ broken /\ k \in used[w]
      BY <1>2, <1>5, <1>6, <2>2, <2>5
    <3> QED BY <3>1, <1>1 DEF WInv, MarkedHeld
  <2>10. ReleasedOrWanted'
    BY <1>3, <2>3, <2>5 DEF WInv, ReleasedOrWanted
  <2> QED BY <1>1, <2>6, <2>7, <2>8, <2>9, <2>10 DEF WInv, Underway
<1>7. CASE /\ GiveBack(u, i) /\ ~LastPage(u)
           /\ committed' = [committed EXCEPT ![u] = @ \ {i}]
           /\ rv' = "SUCCESS" /\ UNCHANGED <<owner, page_list, broken>>
  <2>1. Listed' = Listed
    BY <1>7 DEF Listed
  <2>2. /\ committed' \in [Units -> SUBSET (Slots \cup {0})]
        /\ committed'[u] = used'[u] \cup {0}
        /\ \A w \in Units \ {u} : committed'[w] = committed[w]
    BY <1>2, <1>5, <1>7 DEF WInv, TypeOK
  <2>3. TypeOK'
    BY <1>1, <1>5, <1>7, <2>2 DEF WInv, TypeOK
  <2>4. Bookkeeping'
    <3>1. \A w \in Listed' : num_used'[w] = Cardinality(used'[w]) /\ committed'[w] = used'[w] \cup {0}
      BY <1>2, <1>5, <1>7, <2>1, <2>2 DEF WInv, Bookkeeping
    <3> QED BY <3>1, <1>7, <2>1 DEF WInv, Bookkeeping
  <2>5. HeldListed'
    <3> SUFFICES ASSUME NEW p \in held' PROVE p[1] \in Listed' /\ p[2] \in used'[p[1]]
      BY DEF HeldListed
    <3>1. p \in held /\ p[1] \in Listed /\ p[2] \in used[p[1]] /\ p[1] \in Units /\ p # <<u, i>>
      BY <1>1, <1>p DEF WInv, HeldListed
    <3>2. p[1] = u => p[2] # i
      BY <3>1, <1>p
    <3> QED BY <3>1, <3>2, <1>5, <1>7, <2>1
  <2>6. MarkedHeld'
    <3> SUFFICES ASSUME NEW w \in Listed \ broken, NEW k \in used'[w] PROVE <<w, k>> \in held'
      BY <1>7, <2>1 DEF MarkedHeld
    <3>1. w \in Units /\ k \in used[w] /\ <<w, k>> # <<u, i>>
      BY <1>2, <1>5, <1>7
    <3> QED BY <3>1, <1>1 DEF WInv, MarkedHeld
  <2>7. u \in broken \/ Wanted(u)'
    <3>1. used[u] # {i}
      <4>1. Cardinality({i}) = 1
        BY FS_Singleton
      <4> QED BY <4>1, <1>2, <1>7 DEF LastPage
    <3>2. PICK k \in used[u] : k # i
      BY <3>1, <1>2
    <3>3. u \in broken \/ <<u, k>> \in held'
      BY <3>2, <1>1, <1>2 DEF WInv, MarkedHeld
    <3> QED BY <3>3 DEF Wanted
  <2>8. ReleasedOrWanted'
    BY <1>3, <1>7, <2>7 DEF WInv, ReleasedOrWanted
  <2> QED BY <1>1, <2>3, <2>4, <2>5, <2>6, <2>8 DEF WInv, Underway
<1> QED BY <1>4, <1>6, <1>7 DEF PageFree

LEMMA WInvStep == WInv /\ [Next]_vars => WInv'
<1> SUFFICES ASSUME WInv, [Next]_vars PROVE WInv'
  OBVIOUS
<1>1. ASSUME NEW f \in Funcs, AllocListed(f) \/ AllocUnit(f) PROVE WInv'
  BY <1>1, AllocListedStep, AllocUnitStep
<1>2. ASSUME NEW u \in Units, NEW i \in Slots, PageFree(u, i) PROVE WInv'
  BY <1>2, PageFreeStep
<1>3. CASE UNCHANGED vars
  <2>1. Listed' = Listed
    BY <1>3 DEF vars, Listed
  <2>2. TypeOK' /\ Bookkeeping'
    BY <1>3, <2>1 DEF vars, WInv, TypeOK, Bookkeeping
  <2>3. HeldListed' /\ Underway' /\ MarkedHeld' /\ ReleasedOrWanted'
    BY <1>3, <2>1 DEF vars, WInv, HeldListed, Underway, MarkedHeld, ReleasedOrWanted, Wanted
  <2> QED BY <2>2, <2>3 DEF WInv
<1> QED BY <1>1, <1>2, <1>3, ReserveStep, ControlStep, CommitStep, OtherThreadStep DEF Next
-----------------------------------------------------------------------------
(* Theorems *)

\* funchook_page_alloc and funchook_page_free keep the inductive invariant:
\* the list, the marks, the counts and the pages that handles have agree.
THEOREM WinInvariance == Spec => []WInv
BY InitWInv, WInvStep, PTL DEF Spec

\* The state of os_windows.c has its type: num_used never leaves
\* 0 .. max_num_pages, also when the same unit is filled and emptied again.
THEOREM WinTypeTheorem == Spec => []TypeOK
<1>1. WInv => TypeOK
  BY DEF WInv
<1> QED BY <1>1, WinInvariance, PTL

\* Whatever calls of the system fail, page_list has no unit twice and its units
\* are reserved, with num_used, used and the committed pages in agreement.
THEOREM BookkeepingTheorem == Spec => []Bookkeeping
<1>1. WInv => Bookkeeping
  BY DEF WInv
<1> QED BY <1>1, WinInvariance, PTL

\* funchook_page_free never takes away a page that another handle still has
\* (os_windows.c:229-237).
THEOREM HeldPagesStayTheorem == Spec => []HeldPagesStay
<1>1. WInv => HeldPagesStay
  BY DEF WInv, HeldListed, Bookkeeping, HeldPagesStay
<1> QED BY <1>1, WinInvariance, PTL

\* funchook_page_alloc never commits a page that a handle has.
THEOREM HandedOutOnceTheorem == Spec => []HandedOutOnce
<1>1. WInv => HandedOutOnce
  BY DEF WInv, HeldListed, Underway, HandedOutOnce
<1> QED BY <1>1, WinInvariance, PTL

\* A unit in which no call failed is released with the last of its pages.
THEOREM ReleasedWhenUnusedTheorem == Spec => []ReleasedWhenUnused
<1>1. WInv => ReleasedWhenUnused
  BY DEF WInv, ReleasedOrWanted, Wanted, ReleasedWhenUnused
<1> QED BY <1>1, WinInvariance, PTL
=============================================================================
