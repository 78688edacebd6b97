----------------------------- MODULE UnixPages -----------------------------
(***************************************************************************)
(* funchook_page_alloc on 64-bit Unix (src/src/os_unix.c): read the map of *)
(* the process for free memory near the function, ask mmap for it, and     *)
(* check what mmap returned.  Other threads map and unmap memory between   *)
(* any two steps, and mmap treats its first argument as a hint only.       *)
(*                                                                         *)
(* Memory is NumPages pages of PageSize bytes.  Every mapped page counts   *)
(* as a line of /proc/self/maps: lines that touch leave no gap, so how     *)
(* pages are grouped into lines makes no difference.  Pointer arithmetic   *)
(* is modulo Top, and MAP_FAILED is the last address.                      *)
(***************************************************************************)
EXTENDS Naturals, FiniteSets

CONSTANTS
  NumPages,   \* pages of user memory
  PageSize,
  Top,        \* 2^64
  Int32Max,   \* INT32_MAX
  Func,       \* address of the function to hook
  Fixed,      \* pages that stay mapped, the one of Func among them
  Layouts,    \* the sets of pages that other threads may have mapped at first
  Others,     \* bound: how often other threads map or unmap a page
  OsFails     \* whether mmap, and opening /proc/self/maps, may fail

MAP_FAILED == Top - 1
NULL == 0
PageNos == 0 .. NumPages - 1
Loops == 3

\* pc when the call has returned; "no_map" is the error of memory_map_open.
Returned == {"ok", "error", "no_map"}

ASSUME UnixAssumption ==
  /\ NumPages \in Nat /\ PageSize \in Nat \ {0} /\ Int32Max \in Nat
  /\ Top \in Nat /\ NumPages * PageSize + Int32Max < Top
  /\ Func \in 0 .. NumPages * PageSize - 1
  /\ Fixed \subseteq PageNos /\ Func \div PageSize \in Fixed
  /\ Layouts \subseteq SUBSET (PageNos \ Fixed)
  /\ Others \in Nat /\ OsFails \in BOOLEAN

VARIABLES
  mem,       \* who has each page mapped: "free", "other" or "ours"
  pc,        \* "map", "try", "check", or in Returned
  line,      \* the next page the process map is read from
  prev_end,  \* local of get_free_address
  addrs,     \* addrs[0] and addrs[1]
  loop_cnt,
  i,         \* which of addrs is tried
  page_out,  \* *page_out
  others     \* steps of other threads so far

vars == <<mem, pc, line, prev_end, addrs, loop_cnt, i, page_out, others>>

Minus(x, y) == (x + Top - y) % Top
Addr(p) == p * PageSize

Init ==
  /\ \E busy \in Layouts :
       mem = [p \in PageNos |-> IF p \in Fixed \cup busy THEN "other" ELSE "free"]
  /\ pc = "map" /\ line = 0 /\ prev_end = 0
  /\ addrs = [k \in 0 .. 1 |-> NULL]
  /\ loop_cnt = 0 /\ i = 1 /\ page_out = NULL /\ others = 0
-----------------------------------------------------------------------------
(* get_free_address *)

\* Mutant of Gap: < for <=.
GapTwo(start) == prev_end + PageSize < start

Gap(start) == prev_end + PageSize <= start

\* Unused memory that ends at start, before the function.
Before(start) ==
  IF Gap(start) /\ start < Func /\ Func - (start - PageSize) < Int32Max
    THEN start - PageSize ELSE addrs[0]

\* Unused memory that begins at prev_end, after the function.
After == IF prev_end - Func < Int32Max THEN prev_end ELSE addrs[1]

\* The lines of the map that are still to be read.
Lines == {p \in PageNos : p >= line /\ mem[p] # "free"}

Found ==
  /\ addrs' = [addrs EXCEPT ![1] = After]
  /\ pc' = "try" /\ i' = 1
  /\ UNCHANGED <<mem, line, prev_end, loop_cnt, page_out, others>>

MapOpenError ==
  /\ pc = "map" /\ line = 0
  /\ OsFails
  /\ pc' = "no_map"
  /\ UNCHANGED <<mem, line, prev_end, addrs, loop_cnt, i, page_out, others>>

\* One turn of the loop over the lines of the map.
ReadLine ==
  /\ pc = "map"
  /\ \E p \in Lines :
       /\ \A q \in Lines : p <= q
       /\ LET start == Addr(p) IN
          \/ Gap(start) /\ Func < prev_end /\ Found
          \/ /\ ~(Gap(start) /\ Func < prev_end)
             /\ addrs' = [addrs EXCEPT ![0] = Before(start)]
             /\ prev_end' = start + PageSize
             /\ line' = p + 1
             /\ UNCHANGED <<mem, pc, loop_cnt, i, page_out, others>>

\* Behind the last line the rest of memory is free.
LastLine ==
  /\ pc = "map"
  /\ Lines = {}
  /\ IF Func < prev_end
       THEN Found
       ELSE pc' = "error" /\ UNCHANGED <<mem, line, prev_end, addrs, loop_cnt, i, page_out, others>>
-----------------------------------------------------------------------------
(* funchook_page_alloc *)

\* The end of one turn of the loops over i and loop_cnt.
NextTry ==
  IF i = 1 THEN i' = 0 /\ pc' = "try" /\ UNCHANGED <<line, prev_end, addrs, loop_cnt>>
  ELSE IF loop_cnt < Loops - 1
    THEN /\ loop_cnt' = loop_cnt + 1
         /\ pc' = "map" /\ line' = 0 /\ prev_end' = 0
         /\ addrs' = [k \in 0 .. 1 |-> NULL]
         /\ i' = 1
    ELSE pc' = "error" /\ UNCHANGED <<i, line, prev_end, addrs, loop_cnt>>

\* Mutant of SkipNull: continue without i--.
SkipNullAgain == pc = "try" /\ addrs[i] = NULL /\ UNCHANGED vars

SkipNull ==
  /\ pc = "try" /\ addrs[i] = NULL
  /\ NextTry
  /\ UNCHANGED <<mem, page_out, others>>

\* mmap without MAP_FIXED: the hint when it is free, some other free page when
\* it is not.  Page 0 is never given out.
MmapResults ==
  LET hint == addrs[i] \div PageSize
      free == {p \in PageNos \ {0} : mem[p] = "free"}
  IN IF hint \in free THEN {hint} ELSE free

Mmap ==
  /\ pc = "try" /\ addrs[i] # NULL
  /\ \/ \E p \in MmapResults : mem' = [mem EXCEPT ![p] = "ours"] /\ page_out' = Addr(p)
     \/ OsFails /\ page_out' = MAP_FAILED /\ UNCHANGED mem
     \/ MmapResults = {} /\ page_out' = MAP_FAILED /\ UNCHANGED mem
  /\ pc' = "check"
  /\ UNCHANGED <<line, prev_end, addrs, loop_cnt, i, others>>

\* Mutant of SafeJumpDistance: the length of the page is forgotten.
AnyJumpDistance(x, y) == Minus(x, y) < Int32Max

SafeJumpDistance(x, y) == Minus(x, y) < Int32Max - PageSize

Accepted == SafeJumpDistance(Func, page_out) \/ SafeJumpDistance(page_out, Func)

Accept ==
  /\ pc = "check" /\ Accepted
  /\ pc' = "ok"
  /\ UNCHANGED <<mem, line, prev_end, addrs, loop_cnt, i, page_out, others>>

MmapError ==
  /\ pc = "check" /\ ~Accepted /\ page_out = MAP_FAILED
  /\ pc' = "error"
  /\ UNCHANGED <<mem, line, prev_end, addrs, loop_cnt, i, page_out, others>>

\* Mutant of TooFar: no munmap.
TooFarKept ==
  /\ pc = "check" /\ ~Accepted /\ page_out # MAP_FAILED
  /\ NextTry
  /\ UNCHANGED <<mem, page_out, others>>

TooFar ==
  /\ pc = "check" /\ ~Accepted /\ page_out # MAP_FAILED
  /\ mem' = [mem EXCEPT ![page_out \div PageSize] = "free"]
  /\ NextTry
  /\ UNCHANGED <<page_out, others>>
-----------------------------------------------------------------------------
\* Another thread maps a free page, or unmaps one of its own.
OtherThread ==
  /\ pc \notin Returned
  /\ others < Others
  /\ others' = others + 1
  /\ \E p \in PageNos \ (Fixed \cup {0}) :
       \/ mem[p] = "free" /\ mem' = [mem EXCEPT ![p] = "other"]
       \/ mem[p] = "other" /\ mem' = [mem EXCEPT ![p] = "free"]
  /\ UNCHANGED <<pc, line, prev_end, addrs, loop_cnt, i, page_out>>

Alloc == MapOpenError \/ ReadLine \/ LastLine \/ SkipNull \/ Mmap \/ Accept \/ MmapError \/ TooFar

Next == Alloc \/ OtherThread

Spec == Init /\ [][Next]_vars

\* The allocating thread keeps running, and others are bounded.
FairSpec == Spec /\ WF_vars(Alloc)
-----------------------------------------------------------------------------
(* Properties *)

Ours == {p \in PageNos : mem[p] = "ours"}

\* A call that succeeds returns one page that is mapped for it and keeps no
\* other; a call that fails keeps none.
KeepsWhatItReturns ==
  /\ pc = "ok" => \E p \in Ours : page_out = Addr(p) /\ Ours = {p}
  /\ pc \in {"error", "no_map"} => Ours = {}

\* The page returned is so near that every byte of it is within a 32-bit jump
\* of the function, in both directions.
WithinReach ==
  pc = "ok" /\ page_out # MAP_FAILED =>
    \A b \in page_out .. page_out + PageSize - 1 : b - Func < Int32Max /\ Func - b < Int32Max

\* When other threads are quiet and mmap works, memory that is free within
\* reach on either side is found: the nearest free page behind the mapping of
\* the function, or the nearest one before a mapping that starts below it.
QuietSucceeds ==
  pc = "error" /\ others = 0 /\ page_out # MAP_FAILED =>
    ~\E p \in PageNos \ {0} :
       /\ mem[p] = "free"
       /\ \/ Addr(p) > Func /\ Addr(p) - Func < Int32Max - PageSize
          \/ /\ Addr(p) < Func /\ Func - Addr(p) < Int32Max - PageSize
             /\ \E q \in PageNos : mem[q] # "free" /\ p < q /\ Addr(q) < Func

\* The call returns, however often memory is taken away from under it.
AllocReturns == <>(pc \in Returned)
=============================================================================
