------------------------------ MODULE WinPages ------------------------------
(***************************************************************************)
(* funchook_page_alloc and funchook_page_free on Windows                   *)
(* (src/src/os_windows.c).  Memory is reserved by the allocation unit; the *)
(* first page of a unit holds the bookkeeping of the others, and the units *)
(* are on one global list, page_list.  A unit is released when the last of *)
(* its pages is given back.                                                *)
(*                                                                         *)
(* Every call of the operating system that can fail is a step of its own.  *)
(* The wrapper of src/rust/lib.rs serialises the calls of this module, but *)
(* other threads reserve and release memory between any two steps.         *)
(***************************************************************************)
EXTENDS Integers, SequencesExt

CONSTANTS
  NumUnits,       \* allocation units of the address space
  max_num_pages,  \* pages of a unit behind the first
  Funcs,          \* the units of the functions to hook
  Near,           \* <<page, f>>: funchook_page_avail
  OsFaults        \* the calls that may fail

Units == 0 .. NumUnits - 1
Slots == 1 .. max_num_pages
Pages == Units \X Slots
OsCalls == {"reserve", "control", "commit", "decommit", "release"}

ASSUME WinAssumption ==
  /\ NumUnits \in Nat \ {0} /\ max_num_pages \in Nat \ {0}
  /\ Funcs \subseteq Units
  /\ Near \subseteq Pages \X Funcs
  /\ OsFaults \subseteq OsCalls

VARIABLES
  owner,      \* who has each unit reserved: "free", "other" or "ours"
  page_list,  \* the units linked, first one first
  used,       \* pl->used of each unit: the slots taken
  num_used,   \* pl->num_used
  committed,  \* the pages of each unit that are committed, 0 the control page
  pc,         \* "idle", "reserve", "control" or "commit"
  cur,        \* the page to hand out
  rv,         \* what the last call returned
  held,       \* the pages that handles have
  broken      \* history: the units in which a call of the system failed

vars == <<owner, page_list, used, num_used, committed, pc, cur, rv, held, broken>>

unitVars == <<owner, page_list, used, num_used, committed>>

Listed == {page_list[j] : j \in DOMAIN page_list}

TypeOK ==
  /\ owner \in [Units -> {"free", "other", "ours"}]
  /\ page_list \in Seq(Units)
  /\ used \in [Units -> SUBSET Slots]
  /\ num_used \in [Units -> 0 .. max_num_pages]
  /\ committed \in [Units -> SUBSET (Slots \cup {0})]
  /\ pc \in {"idle", "reserve", "control", "commit"}
  /\ cur \in Pages
  /\ rv \in {"SUCCESS", "MEMORY_ALLOCATION", "MEMORY_FUNCTION"}
  /\ held \subseteq Pages /\ broken \subseteq Units

Init ==
  /\ owner = [u \in Units |-> IF u \in Funcs THEN "other" ELSE "free"]
  /\ page_list = <<>>
  /\ used = [u \in Units |-> {}]
  /\ num_used = [u \in Units |-> 0]
  /\ committed = [u \in Units |-> {}]
  /\ pc = "idle" /\ cur = <<0, 1>> /\ rv = "SUCCESS"
  /\ held = {} /\ broken = {}

\* A call fails; u is the unit it was about.
Fail(error, u) ==
  /\ pc' = "idle"
  /\ rv' = error
  /\ broken' = broken \cup {u}
  /\ UNCHANGED <<cur, held>>
-----------------------------------------------------------------------------
(* funchook_page_alloc *)

\* The places of the list that have a page to spare for f.
Spare(f) ==
  {s \in (DOMAIN page_list) \X Slots :
     LET u == page_list[s[1]] IN s[2] \notin used[u] /\ <<<<u, s[2]>>, f>> \in Near}

AllocListed(f) ==
  /\ pc = "idle"
  /\ \E s \in Spare(f) :
       /\ \A r \in Spare(f) : s[1] < r[1] \/ (s[1] = r[1] /\ s[2] <= r[2])
       /\ cur' = <<page_list[s[1]], s[2]>>
  /\ pc' = "commit"
  /\ UNCHANGED <<unitVars, rv, held, broken>>

\* The units VirtualQuery finds free on its way up from the function
\* (CPU_64BIT).
FreeAbove(f) == {u \in Units : u >= f /\ owner[u] = "free"}

AllocUnit(f) ==
  /\ pc = "idle" /\ Spare(f) = {}
  /\ \/ /\ \E u \in FreeAbove(f) : (\A w \in FreeAbove(f) : u <= w) /\ cur' = <<u, 1>>
        /\ pc' = "reserve"
        /\ UNCHANGED <<unitVars, rv, held, broken>>
     \/ /\ FreeAbove(f) = {}
        /\ rv' = "MEMORY_FUNCTION"
        /\ UNCHANGED <<unitVars, pc, cur, held, broken>>

\* VirtualAlloc fails when the unit was taken meanwhile.
Reserve ==
  /\ pc = "reserve"
  /\ \/ /\ owner[cur[1]] = "free"
        /\ owner' = [owner EXCEPT ![cur[1]] = "ours"]
        /\ pc' = "control"
        /\ UNCHANGED <<page_list, used, num_used, committed, cur, rv, held, broken>>
     \/ /\ owner[cur[1]] # "free" \/ "reserve" \in OsFaults
        /\ pc' = "idle" /\ rv' = "MEMORY_ALLOCATION"
        /\ UNCHANGED <<unitVars, cur, held, broken>>

\* Fresh memory is zero: no page is used.  When the control page cannot be
\* committed the unit is released again, and nobody looks whether it was.
Control ==
  /\ pc = "control"
  /\ \/ /\ committed' = [committed EXCEPT ![cur[1]] = {0}]
        /\ used' = [used EXCEPT ![cur[1]] = {}]
        /\ num_used' = [num_used EXCEPT ![cur[1]] = 0]
        /\ page_list' = <<cur[1]>> \o page_list
        /\ pc' = "commit"
        /\ UNCHANGED <<owner, cur, rv, held, broken>>
     \/ /\ "control" \in OsFaults
        /\ \/ owner' = [owner EXCEPT ![cur[1]] = "free"] /\ UNCHANGED broken
           \/ "release" \in OsFaults /\ broken' = broken \cup {cur[1]} /\ UNCHANGED owner
        /\ pc' = "idle" /\ rv' = "MEMORY_FUNCTION"
        /\ UNCHANGED <<page_list, used, num_used, committed, cur, held>>

\* Mutant of HandOut: used[i] is not set.
HandOutUnmarked ==
  /\ num_used' = [num_used EXCEPT ![cur[1]] = @ + 1]
  /\ held' = held \cup {cur}
  /\ UNCHANGED used

\* Mutant of HandOut: num_used is not incremented.
HandOutUncounted ==
  /\ used' = [used EXCEPT ![cur[1]] = @ \cup {cur[2]}]
  /\ held' = held \cup {cur}
  /\ UNCHANGED num_used

HandOut ==
  /\ used' = [used EXCEPT ![cur[1]] = @ \cup {cur[2]}]
  /\ num_used' = [num_used EXCEPT ![cur[1]] = @ + 1]
  /\ held' = held \cup {cur}

\* A unit whose first page cannot be committed stays on the list.
Commit ==
  /\ pc = "commit"
  /\ \/ /\ committed' = [committed EXCEPT ![cur[1]] = @ \cup {cur[2]}]
        /\ HandOut
        /\ pc' = "idle" /\ rv' = "SUCCESS"
        /\ UNCHANGED <<owner, page_list, cur, broken>>
     \/ "commit" \in OsFaults /\ Fail("MEMORY_FUNCTION", cur[1]) /\ UNCHANGED unitVars
-----------------------------------------------------------------------------
(* funchook_page_free *)

\* Mutant of LastPage: the unit goes with the first page given back.
AnyPage(u) == num_used[u] >= 1

\* Mutant of LastPage: counted before the page is given back.
NoPageLeft(u) == num_used[u] = 0

\* num_used becomes 0.
LastPage(u) == num_used[u] = 1

\* Mutant of GiveBack: the page is counted twice.
GiveBackTwice(u, i) ==
  /\ num_used' = [num_used EXCEPT ![u] = @ - 2]
  /\ used' = [used EXCEPT ![u] = @ \ {i}]

GiveBack(u, i) ==
  /\ num_used' = [num_used EXCEPT ![u] = @ - 1]
  /\ used' = [used EXCEPT ![u] = @ \ {i}]

\* The unit is unlinked before it is released.
ReleaseUnit(u) ==
  /\ \E j \in DOMAIN page_list : page_list[j] = u /\ page_list' = RemoveAt(page_list, j)
  /\ \/ /\ owner' = [owner EXCEPT ![u] = "free"]
        /\ committed' = [committed EXCEPT ![u] = {}]
        /\ rv' = "SUCCESS" /\ UNCHANGED broken
     \/ /\ "release" \in OsFaults
        /\ rv' = "MEMORY_FUNCTION" /\ broken' = broken \cup {u}
        /\ committed' = [committed EXCEPT ![u] = {0}]
        /\ UNCHANGED owner

\* The callers do not look at the result: they forget the page in any case.
PageFree(u, i) ==
  /\ pc = "idle" /\ <<u, i>> \in held
  /\ held' = held \ {<<u, i>>}
  /\ \/ /\ "decommit" \in OsFaults
        /\ rv' = "MEMORY_FUNCTION" /\ broken' = broken \cup {u}
        /\ UNCHANGED unitVars
     \/ /\ GiveBack(u, i)
        /\ IF LastPage(u) THEN ReleaseUnit(u)
           ELSE /\ committed' = [committed EXCEPT ![u] = @ \ {i}]
                /\ rv' = "SUCCESS"
                /\ UNCHANGED <<owner, page_list, broken>>
  /\ UNCHANGED <<pc, cur>>
-----------------------------------------------------------------------------
\* Another thread reserves or releases a unit.
OtherThread ==
  /\ \E u \in Units \ Funcs :
       \/ owner[u] = "free" /\ owner' = [owner EXCEPT ![u] = "other"]
       \/ owner[u] = "other" /\ owner' = [owner EXCEPT ![u] = "free"]
  /\ UNCHANGED <<page_list, used, num_used, committed, pc, cur, rv, held, broken>>

Next ==
  \/ \E f \in Funcs : AllocListed(f) \/ AllocUnit(f)
  \/ Reserve \/ Control \/ Commit
  \/ \E u \in Units, i \in Slots : PageFree(u, i)
  \/ OtherThread

Spec == Init /\ [][Next]_vars
-----------------------------------------------------------------------------
(* Properties *)

\* Whatever calls failed, the list has no unit twice, every unit on it is
\* reserved, and its count and its marks agree with what is committed.
Bookkeeping ==
  /\ \A j, k \in DOMAIN page_list : page_list[j] = page_list[k] => j = k
  /\ \A u \in Listed :
       /\ owner[u] = "ours"
       /\ num_used[u] = Cardinality(used[u])
       /\ committed[u] = used[u] \cup {0}

\* A page that a handle has is committed, in a unit that is reserved: giving
\* back another page of the unit never takes it away (os_windows.c:229-237).
HeldPagesStay ==
  \A p \in held : owner[p[1]] = "ours" /\ p[2] \in committed[p[1]]

\* A page that a handle has is not handed out a second time.
HandedOutOnce == pc = "commit" => cur \notin held

\* A unit stays reserved only while a handle has a page of it, unless a call
\* of the system failed in it.
ReleasedWhenUnused ==
  pc = "idle" =>
    \A u \in Units : owner[u] = "ours" => u \in broken \/ \E p \in held : p[1] = u
=============================================================================
