------------------------------ MODULE Funchook ------------------------------
(***************************************************************************)
(* The life cycle of funchook handles (src/src/funchook.c, with the        *)
(* protection calls of src/src/os_unix.c and src/src/os_windows.c):        *)
(* funchook_create, _prepare, _install, _uninstall and _destroy over       *)
(* shared executable memory.                                               *)
(*                                                                         *)
(* prepare and destroy touch only the handle and its pages, so each is one *)
(* action.  install and uninstall rewrite code that the rest of the        *)
(* process may execute and can return from the middle of their loops, so   *)
(* every protection change and every memcpy is an action of its own.  One  *)
(* call runs at a time: the wrapper of src/rust/lib.rs serialises them.    *)
(*                                                                         *)
(* The first bytes of a target function are one value: the program's own   *)
(* code, or the jump into slot i of page p that install copies there.      *)
(* Protection is a matter of whole pages of memory, which targets share    *)
(* and which a patch may straddle.                                         *)
(***************************************************************************)
EXTENDS Naturals, Sequences

CONSTANTS
  Handles,          \* addresses funchook_alloc can return
  NoHandle,
  Targets,          \* functions to hook, after funchook_resolve_func
  Pages,            \* addresses funchook_page_alloc can return
  NoPage,
  Capacity,         \* num_entries_in_page
  Near,             \* <<p, t>>: t's trampoline can live in p (funchook_page_avail)
  PrepareFaults,    \* the steps of a prepare that may fail
  InstallFaults,    \* the steps of an install that may fail
  UninstallFaults,  \* the steps of an uninstall that may fail
  WinEndFails,      \* whether funchook_unprotect_end may fail on Windows too
  Systems,          \* the operating systems the library is built for
  page_size,
  Memory,           \* the numbers of the pages of memory that patches are in
  addr,             \* the address of each target
  PatchSize,        \* entry->patch_code_size
  Discipline        \* the rules the client keeps, see LifoUninstall, FinishInstall

PrepareSteps   == {"trampoline", "page_alloc"}
InstallSteps   == {"page_protect", "unprotect_begin", "unprotect_end"}
UninstallSteps == {"unprotect_begin", "unprotect_end", "page_unprotect"}

ASSUME ConstantsAssumption ==
  /\ NoHandle \notin Handles
  /\ NoPage \notin Pages
  /\ Capacity \in Nat \ {0}
  /\ Near \subseteq Pages \X Targets
  /\ PrepareFaults \subseteq PrepareSteps
  /\ InstallFaults \subseteq InstallSteps
  /\ UninstallFaults \subseteq UninstallSteps
  /\ WinEndFails \in BOOLEAN
  /\ Systems \subseteq {"unix", "windows"}
  /\ page_size \in Nat \ {0}
  /\ Memory \subseteq Nat
  /\ addr \in [Targets -> Nat]
  /\ PatchSize \in 1 .. page_size
  /\ \A t \in Targets : \A a \in addr[t] .. addr[t] + PatchSize - 1 : a \div page_size \in Memory
  /\ Discipline \subseteq {"lifo", "finish_install"}

VARIABLES
  live,        \* the handles allocated and not yet freed
  installed,   \* funchook->installed
  page_list,   \* funchook->page_list, first page first
  entries,     \* page->entries[0 .. page->used - 1]
  prot,        \* protection of each page; "none" when it is not mapped
  code,        \* what the first bytes of each target are
  os,          \* the operating system, which never changes
  tprot,       \* protection of each page of memory
  patch_prot,  \* the static variable prot of funchook_unprotect_begin on Unix
  protect,     \* mstate->protect on Windows
  call,        \* the call in progress: its handle, loop position and pc
  rv,          \* what the last call returned
  failed       \* history: the handle's last install or uninstall gave up midway

handleVars == <<live, installed, page_list, failed>>
pageVars   == <<entries, prot>>
targetVars == <<code, os, tprot, patch_prot, protect>>
vars       == <<handleVars, pageVars, targetVars, call, rv>>

\* A jump into slot i of page p; page = NoPage is the program's own code.
Code     == [page : Pages \cup {NoPage}, slot : Nat]
Original == [page |-> NoPage, slot |-> 0]
JumpTo(p, i) == [page |-> p, slot |-> i]

\* old is entry->old_code; the trampoline is relocated from the same bytes in
\* the same call, so old also says where calling the trampoline leads.
Entry == [target : Targets, old : Code]

Codes == {"SUCCESS", "ALREADY_INSTALLED", "NOT_INSTALLED", "MEMORY_FUNCTION",
          "MEMORY_ALLOCATION", "NO_SPACE", "TRAMPOLINE"}

PCs  == {"idle", "page", "entry", "write", "end", "unprotect", "crashed"}
Call == [op : {"none", "install", "uninstall"}, h : Handles \cup {NoHandle},
         pi : Nat, ei : Nat, pc : PCs]
Idle == [op |-> "none", h |-> NoHandle, pi |-> 1, ei |-> 1, pc |-> "idle"]

TypeOK ==
  /\ live \in SUBSET Handles
  /\ installed \in [Handles -> BOOLEAN]
  /\ failed \in [Handles -> BOOLEAN]
  /\ page_list \in [Handles -> Seq(Pages)]
  /\ entries \in [Pages -> Seq(Entry)]
  /\ prot \in [Pages -> {"none", "rw", "rx"}]
  /\ code \in [Targets -> Code]
  /\ os \in Systems
  /\ tprot \in [Memory -> {"rx", "rw", "rwx"}]
  /\ patch_prot \in {"rw", "rwx"}
  /\ protect \in {"rx", "rw", "rwx"}
  /\ call \in Call
  /\ rv \in Codes

PagesOf(h)   == {page_list[h][j] : j \in DOMAIN page_list[h]}
SlotsOf(p)   == DOMAIN entries[p]
TargetsOf(h) == {t \in Targets : \E p \in PagesOf(h) : \E i \in SlotsOf(p) : entries[p][i].target = t}

\* A handle whose install gave up: installed is still 0, yet some of its
\* entries may be patched into their targets.
Unfinished(h) == failed[h] /\ ~installed[h]

(***************************************************************************)
(* Rules for the client that the interface states nowhere.  "lifo": a      *)
(* handle is uninstalled only while no other handle saved, as old code, a  *)
(* jump into it.  "finish_install": after an install that failed the only  *)
(* calls on the handle are installs, until one succeeds.                   *)
(***************************************************************************)
LifoUninstall(h) ==
  "lifo" \in Discipline =>
    \A g \in live : \A p \in PagesOf(g) : \A i \in SlotsOf(p) :
      entries[p][i].old.page \notin PagesOf(h)

FinishInstall(h) == "finish_install" \in Discipline => ~Unfinished(h)
-----------------------------------------------------------------------------
Init ==
  /\ live = {}
  /\ installed = [h \in Handles |-> FALSE]
  /\ failed = [h \in Handles |-> FALSE]
  /\ page_list = [h \in Handles |-> <<>>]
  /\ entries = [p \in Pages |-> <<>>]
  /\ prot = [p \in Pages |-> "none"]
  /\ code = [t \in Targets |-> Original]
  /\ os \in Systems
  /\ tprot = [m \in Memory |-> "rx"]
  /\ patch_prot = "rwx"
  /\ protect = "rx"
  /\ call = Idle
  /\ rv = "SUCCESS"

\* The client makes its next call on handle h.
Calls(h) == call.pc = "idle" /\ h \in live

Refuse(error) == rv' = error /\ UNCHANGED <<handleVars, pageVars, targetVars, call>>

Create(h) ==
  /\ call.pc = "idle"
  /\ h \notin live
  /\ live' = live \cup {h}
  /\ installed' = [installed EXCEPT ![h] = FALSE]
  /\ failed' = [failed EXCEPT ![h] = FALSE]
  /\ page_list' = [page_list EXCEPT ![h] = <<>>]
  /\ UNCHANGED <<pageVars, targetVars, call, rv>>
-----------------------------------------------------------------------------
(* prepare *)

Avail(p, t) == Len(entries[p]) < Capacity /\ <<p, t>> \in Near

\* The positions of page_list that get_page accepts for t.
Candidates(h, t) == {j \in DOMAIN page_list[h] : Avail(page_list[h][j], t)}

\* Filling page->entries[used] and used++.  A page still protected for
\* execution cannot be written: the process dies on the first store.
FillEntry(p, t) ==
  IF prot[p] = "rx"
    THEN /\ call' = [Idle EXCEPT !.pc = "crashed"]
         /\ UNCHANGED <<entries, rv>>
    ELSE /\ entries' = [entries EXCEPT ![p] = Append(@, [target |-> t, old |-> code[t]])]
         /\ rv' = "SUCCESS"
         /\ UNCHANGED call

\* Mutant of FillNewPage: the page is mapped writable and executable.
FillNewPageExec(p, t) ==
  /\ entries' = [entries EXCEPT ![p] = <<[target |-> t, old |-> code[t]]>>]
  /\ prot' = [prot EXCEPT ![p] = "rwx"]
  /\ rv' = "SUCCESS"
  /\ UNCHANGED call

\* The bytes of a newly mapped page are zero: used is 0.
FillNewPage(p, t) ==
  /\ entries' = [entries EXCEPT ![p] = <<[target |-> t, old |-> code[t]]>>]
  /\ prot' = [prot EXCEPT ![p] = "rw"]
  /\ rv' = "SUCCESS"
  /\ UNCHANGED call

\* get_page reuses the first page of the list with room within reach of t.
PrepareReuse(h, t) ==
  /\ \E j \in Candidates(h, t) :
       /\ \A k \in Candidates(h, t) : j <= k
       /\ FillEntry(page_list[h][j], t)
  /\ UNCHANGED <<handleVars, prot, targetVars>>

\* ... or puts a new page in front of the list.
PrepareNewPage(h, t) ==
  /\ Candidates(h, t) = {}
  /\ \E p \in Pages :
       /\ prot[p] = "none"
       /\ <<p, t>> \in Near
       /\ page_list' = [page_list EXCEPT ![h] = <<p>> \o @]
       /\ FillNewPage(p, t)
  /\ UNCHANGED <<live, installed, failed, targetVars>>

\* Mutant of PrepareNoSpace: the page is not given back.
PrepareNoSpaceLeaks(h, t) ==
  /\ Candidates(h, t) = {}
  /\ \E p \in Pages : prot[p] = "none" /\ <<p, t>> \notin Near /\ prot' = [prot EXCEPT ![p] = "rw"]
  /\ rv' = "NO_SPACE"
  /\ UNCHANGED <<handleVars, entries, targetVars, call>>

\* A page that is too far away is given back at once (page_free is taken to
\* succeed: its result is dropped).
PrepareNoSpace(h, t) ==
  /\ Candidates(h, t) = {}
  /\ \E p \in Pages : prot[p] = "none" /\ <<p, t>> \notin Near
  /\ Refuse("NO_SPACE")

PrepareFails(h, t) ==
  \/ "trampoline" \in PrepareFaults /\ Refuse("TRAMPOLINE")
  \/ "page_alloc" \in PrepareFaults /\ Candidates(h, t) = {} /\ Refuse("MEMORY_ALLOCATION")

Prepare(h, t) ==
  /\ Calls(h)
  /\ FinishInstall(h)
  /\ \/ installed[h] /\ Refuse("ALREADY_INSTALLED")
     \/ /\ ~installed[h]
        /\ \/ PrepareReuse(h, t)
           \/ PrepareNewPage(h, t)
           \/ PrepareNoSpace(h, t)
           \/ PrepareFails(h, t)
-----------------------------------------------------------------------------
(* The steps install and uninstall share *)

page  == page_list[call.h][call.pi]
entry == entries[page][call.ei]

Faults ==
  (IF call.op = "install" THEN InstallFaults ELSE UninstallFaults)
    \ (IF os = "windows" /\ ~WinEndFails THEN {"unprotect_end"} ELSE {})

\* return rv from the middle of a loop: nothing already done is undone.
GiveUp ==
  /\ call' = Idle
  /\ rv' = "MEMORY_FUNCTION"
  /\ failed' = [failed EXCEPT ![call.h] = TRUE]
  /\ UNCHANGED <<live, installed, page_list>>

\* The loops are over: installed is assigned last.
Finish(flag) ==
  /\ installed' = [installed EXCEPT ![call.h] = flag]
  /\ failed' = [failed EXCEPT ![call.h] = FALSE]
  /\ call' = Idle
  /\ rv' = "SUCCESS"
  /\ UNCHANGED <<live, page_list, pageVars, targetVars>>

\* Mutant of Start: installed is cleared before the work is done.
StartClears(h, op) ==
  /\ call' = [op |-> op, h |-> h, pi |-> 1, ei |-> 1, pc |-> "page"]
  /\ installed' = [installed EXCEPT ![h] = FALSE]
  /\ UNCHANGED <<live, page_list, failed, pageVars, targetVars, rv>>

Start(h, op) ==
  /\ call' = [op |-> op, h |-> h, pi |-> 1, ei |-> 1, pc |-> "page"]
  /\ UNCHANGED <<handleVars, pageVars, targetVars, rv>>

RoundDown(n) == n - (n % page_size)
RoundUp(n)   == RoundDown(n + page_size - 1)

\* Mutant of MemoryOf: only the length of the patch is rounded up.
MemoryOfPatchOnly(t) ==
  {m \in Memory : RoundDown(addr[t]) <= m * page_size
                  /\ m * page_size < RoundDown(addr[t]) + RoundUp(PatchSize)}

\* mstate->addr and mstate->size: the pages of memory around the patch of t.
MemoryOf(t) ==
  LET saddr == RoundDown(addr[t])
      size  == RoundUp(PatchSize + addr[t] - saddr)
  IN {m \in Memory : saddr <= m * page_size /\ m * page_size < saddr + size}

SetProtection(t, p) == [m \in Memory |-> IF m \in MemoryOf(t) THEN p ELSE tprot[m]]

\* What funchook_unprotect_begin ends up with.  On Unix it asks for the
\* remembered protection, and when the kernel denies write and exec together it
\* settles for write, for good.
Unprotected == IF os = "unix" THEN {patch_prot, "rw"} ELSE {"rwx"}

\* What the first page of the memory had before, as VirtualProtect reports it.
Found(t) == IF os = "unix" THEN protect ELSE tprot[addr[t] \div page_size]

UnprotectBegin ==
  /\ call.pc = "entry"
  /\ call.ei \in SlotsOf(page)
  /\ \/ /\ \E try \in Unprotected :
             /\ patch_prot' = IF os = "unix" THEN try ELSE patch_prot
             /\ tprot' = SetProtection(entry.target, try)
        /\ protect' = Found(entry.target)
        /\ call' = [call EXCEPT !.pc = "write"]
        /\ UNCHANGED <<handleVars, rv>>
     \/ /\ "unprotect_begin" \in Faults
        /\ GiveUp
        /\ UNCHANGED <<tprot, patch_prot, protect>>
  /\ UNCHANGED <<pageVars, code, os>>

\* Mutant of NewCode: uninstall copies new_code.
NewCodeAlways == JumpTo(page, call.ei)

\* What the memcpy of install and the one of uninstall put into the target.
NewCode == IF call.op = "install" THEN JumpTo(page, call.ei) ELSE entry.old

WriteCode ==
  /\ call.pc = "write"
  /\ code' = [code EXCEPT ![entry.target] = NewCode]
  /\ call' = [call EXCEPT !.pc = "end"]
  /\ UNCHANGED <<handleVars, pageVars, os, tprot, patch_prot, protect, rv>>

\* Mutant of UnprotectEnd: the protection is not put back.
UnprotectEndLate ==
  /\ call.pc = "end"
  /\ call' = [call EXCEPT !.pc = "entry", !.ei = @ + 1]
  /\ UNCHANGED <<handleVars, pageVars, targetVars, rv>>

\* What funchook_unprotect_end asks for: Unix takes the memory to have been
\* read and exec, Windows puts back what it found.
Reprotected == IF os = "unix" THEN "rx" ELSE protect

UnprotectEnd ==
  /\ call.pc = "end"
  /\ \/ /\ tprot' = SetProtection(entry.target, Reprotected)
        /\ call' = [call EXCEPT !.pc = "entry", !.ei = @ + 1]
        /\ UNCHANGED <<handleVars, rv>>
     \/ /\ "unprotect_end" \in Faults
        /\ GiveUp
        /\ UNCHANGED tprot
  /\ UNCHANGED <<pageVars, code, os, patch_prot, protect>>
-----------------------------------------------------------------------------
(* install *)

InstallCall(h) ==
  /\ Calls(h)
  /\ \/ installed[h] /\ Refuse("ALREADY_INSTALLED")
     \/ ~installed[h] /\ Start(h, "install")

\* The landing page becomes executable before any of its entries is used.
PageProtect ==
  /\ call.op = "install" /\ call.pc = "page"
  /\ call.pi \in DOMAIN page_list[call.h]
  /\ \/ /\ prot' = [prot EXCEPT ![page] = "rx"]
        /\ call' = [call EXCEPT !.pc = "entry", !.ei = 1]
        /\ UNCHANGED <<handleVars, rv>>
     \/ /\ "page_protect" \in Faults
        /\ GiveUp
        /\ UNCHANGED prot
  /\ UNCHANGED <<entries, targetVars>>

\* Mutant of InstallNextPage: page->next taken twice.
InstallEveryOtherPage ==
  /\ call.op = "install" /\ call.pc = "entry"
  /\ call.ei \notin SlotsOf(page)
  /\ call' = [call EXCEPT !.pc = "page", !.pi = @ + 2]
  /\ UNCHANGED <<handleVars, pageVars, targetVars, rv>>

\* Mutant of InstallNextPage: page->next not taken.
InstallSamePage ==
  /\ call.op = "install" /\ call.pc = "entry"
  /\ call.ei \notin SlotsOf(page)
  /\ call' = [call EXCEPT !.pc = "page"]
  /\ UNCHANGED <<handleVars, pageVars, targetVars, rv>>

InstallNextPage ==
  /\ call.op = "install" /\ call.pc = "entry"
  /\ call.ei \notin SlotsOf(page)
  /\ call' = [call EXCEPT !.pc = "page", !.pi = @ + 1]
  /\ UNCHANGED <<handleVars, pageVars, targetVars, rv>>

InstallReturn ==
  /\ call.op = "install" /\ call.pc = "page"
  /\ call.pi \notin DOMAIN page_list[call.h]
  /\ Finish(TRUE)
-----------------------------------------------------------------------------
(* uninstall *)

UninstallCall(h) ==
  /\ Calls(h)
  /\ \/ ~installed[h] /\ Refuse("NOT_INSTALLED")
     \/ installed[h] /\ LifoUninstall(h) /\ Start(h, "uninstall")

\* Mutant of UninstallPage: the page is unprotected before its entries are restored.
UninstallPageTooEarly ==
  /\ call.op = "uninstall" /\ call.pc = "page"
  /\ call.pi \in DOMAIN page_list[call.h]
  /\ prot' = [prot EXCEPT ![page] = "rw"]
  /\ call' = [call EXCEPT !.pc = "entry", !.ei = 1]
  /\ UNCHANGED <<handleVars, entries, targetVars, rv>>

UninstallPage ==
  /\ call.op = "uninstall" /\ call.pc = "page"
  /\ call.pi \in DOMAIN page_list[call.h]
  /\ call' = [call EXCEPT !.pc = "entry", !.ei = 1]
  /\ UNCHANGED <<handleVars, pageVars, targetVars, rv>>

UninstallLastEntry ==
  /\ call.op = "uninstall" /\ call.pc = "entry"
  /\ call.ei \notin SlotsOf(page)
  /\ call' = [call EXCEPT !.pc = "unprotect"]
  /\ UNCHANGED <<handleVars, pageVars, targetVars, rv>>

\* Mutant of PageUnprotect: no funchook_page_unprotect.
PageLeftProtected ==
  /\ call.pc = "unprotect"
  /\ call' = [call EXCEPT !.pc = "page", !.pi = @ + 1]
  /\ UNCHANGED <<handleVars, pageVars, targetVars, rv>>

\* The page becomes writable again once none of its entries is in use.  The
\* result of funchook_page_unprotect is not looked at.
PageUnprotect ==
  /\ call.pc = "unprotect"
  /\ \/ prot' = [prot EXCEPT ![page] = "rw"]
     \/ "page_unprotect" \in Faults /\ UNCHANGED prot
  /\ call' = [call EXCEPT !.pc = "page", !.pi = @ + 1]
  /\ UNCHANGED <<handleVars, entries, targetVars, rv>>

UninstallReturn ==
  /\ call.op = "uninstall" /\ call.pc = "page"
  /\ call.pi \notin DOMAIN page_list[call.h]
  /\ Finish(FALSE)
-----------------------------------------------------------------------------
(* destroy *)

FreeHandle(h) ==
  /\ live' = live \ {h}
  /\ page_list' = [page_list EXCEPT ![h] = <<>>]
  /\ entries' = [p \in Pages |-> IF p \in PagesOf(h) THEN <<>> ELSE entries[p]]
  /\ prot' = [p \in Pages |-> IF p \in PagesOf(h) THEN "none" ELSE prot[p]]
  /\ rv' = "SUCCESS"
  /\ UNCHANGED <<installed, failed, targetVars, call>>

\* Mutant of Destroy: installed is not checked.
DestroyInstalled(h) == Calls(h) /\ FinishInstall(h) /\ FreeHandle(h)

Destroy(h) ==
  /\ Calls(h)
  /\ FinishInstall(h)
  /\ \/ installed[h] /\ Refuse("ALREADY_INSTALLED")
     \/ ~installed[h] /\ FreeHandle(h)
-----------------------------------------------------------------------------
\* The steps of the call in progress.
Step ==
  \/ UnprotectBegin \/ WriteCode \/ UnprotectEnd
  \/ PageProtect \/ InstallNextPage \/ InstallReturn
  \/ UninstallPage \/ UninstallLastEntry \/ PageUnprotect \/ UninstallReturn

\* The calls a client can make.
ClientCall ==
  \E h \in Handles :
    \/ Create(h) \/ Destroy(h)
    \/ \E t \in Targets : Prepare(h, t)
    \/ InstallCall(h) \/ UninstallCall(h)

Next == ClientCall \/ Step

Spec == Init /\ [][Next]_vars
-----------------------------------------------------------------------------
(* Properties *)

\* A call of t that executes c: it runs the program's own code, or lands in an
\* executable page of a live handle, in a slot that was filled for t.
Lands(c, t) ==
  \/ c = Original
  \/ \E h \in live :
       /\ c.page \in PagesOf(h)
       /\ c.slot \in SlotsOf(c.page)
       /\ entries[c.page][c.slot].target = t
       /\ prot[c.page] = "rx"

\* At every step of every call, the ones that give up midway included, calling
\* a target lands: install makes the page executable before it patches
\* (funchook.c:379-395), uninstall restores before it unprotects (438-445), and
\* destroy frees no page a target still jumps into.
JumpsLand == \A t \in Targets : Lands(code[t], t)

\* Calling the trampoline of any entry lands too: when the target was already
\* hooked as it was prepared, the trampoline continues into the other handle's
\* page, and uninstall copies that same jump back.
TrampolinesLand ==
  \A h \in live : \A p \in PagesOf(h) : \A i \in SlotsOf(p) :
    Lands(entries[p][i].old, entries[p][i].target)

\* Once every handle is uninstalled (and no install is half done) every target
\* has the program's own code again, whatever was stacked on what and however
\* many installs and uninstalls failed and were repeated.
PristineWhenUninstalled ==
  (/\ call.pc = "idle"
   /\ \A h \in live : ~installed[h] /\ ~Unfinished(h))
  => \A t \in Targets : code[t] = Original

\* Memory stays writable after a call only while a handle that has a target in
\* it must repeat a failed install or uninstall, although targets of several
\* handles share pages of memory and patches straddle them.
TargetsReprotected ==
  call.pc = "idle" =>
    \A m \in Memory :
      tprot[m] = "rx" \/ \E h \in live : failed[h] /\ \E t \in TargetsOf(h) : m \in MemoryOf(t)

\* The memcpy of install and of uninstall stores into writable memory from its
\* first byte to its last (funchook.c:395, 438): the rounding of
\* unprotect_begin covers a patch that ends in the next page.
PatchWritable ==
  call.pc = "write" =>
    \A a \in addr[entry.target] .. addr[entry.target] + PatchSize - 1 :
      tprot[a \div page_size] # "rx"

\* Every mapped page is on the list of exactly one live handle, once: none is
\* leaked, freed twice or shared.
PagesOwnedOnce ==
  /\ \A p \in Pages : (prot[p] # "none") <=> (\E h \in live : p \in PagesOf(h))
  /\ \A g, h \in live :
       \A j \in DOMAIN page_list[g], k \in DOMAIN page_list[h] :
         page_list[g][j] = page_list[h][k] => g = h /\ j = k

\* prepare returns an error code rather than dying on a store to a page that is
\* protected for execution (funchook.c:312-320).
PrepareNeverCrashes == call.pc # "crashed"

\* A call of install that succeeds leaves every target of the handle diverted
\* into that handle, and every page of the handle executable.
InstallComplete ==
  [][\A h \in Handles : ~installed[h] /\ installed'[h] =>
       /\ \A t \in TargetsOf(h) : code'[t].page \in PagesOf(h)
       /\ \A p \in PagesOf(h) : prot'[p] = "rx"]_vars

\* A call of uninstall that succeeds leaves no target diverted into the handle,
\* and every page of the handle ready to be filled again.
UninstallComplete ==
  [][\A h \in Handles : installed[h] /\ ~installed'[h] =>
       /\ \A t \in Targets : code'[t].page \notin PagesOf(h)
       /\ \A p \in PagesOf(h) : prot'[p] = "rw"]_vars

\* Every call of install and of uninstall returns: the loops over pages and
\* entries end (funchook.c:378-413, 426-446).
CallsReturn == (call.pc \notin {"idle", "crashed"}) ~> (call.pc = "idle")
-----------------------------------------------------------------------------
(* Funchook implements HookSpec *)

\* The handles whose pages a target may jump into.
Engaged(h) ==
  h \in live /\ (installed[h] \/ Unfinished(h) \/ (call.op = "install" /\ call.h = h))

\* The handle a code value leads to.
Owner(c) ==
  IF c.page = NoPage THEN NoHandle ELSE CHOOSE h \in live : c.page \in PagesOf(h)

Abstract == INSTANCE HookSpec WITH
  alive   <- live,
  engaged <- {h \in Handles : Engaged(h)},
  route   <- [t \in Targets |-> Owner(code[t])]

\* Seen from outside, every step of every call is a step of HookSpec: targets
\* are rerouted one at a time, only to handles that are engaged, and a handle
\* that a target is routed to is never disengaged or destroyed.
ImplementsHookSpec == Abstract!HookSpecification
=============================================================================
