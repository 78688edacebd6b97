--------------------------- MODULE FunchookProofs ---------------------------
(***************************************************************************)
(* Proofs about Funchook, for every number of handles, targets and pages,  *)
(* every page capacity, every reach of pages and every choice of steps     *)
(* that may fail: types and ownership, what calls leave behind when they   *)
(* succeed, that prepare never stores into a protected page, that Funchook *)
(* implements HookSpec, and what happens to the protection of memory.      *)
(***************************************************************************)
EXTENDS Integers, Funchook, TLAPS

Running == call.pc \notin {"idle", "crashed"}

\* The record of the call in progress is coherent.
CallOK ==
  /\ call.pi > 0 /\ call.ei > 0
  /\ ~Running => call.op = "none"
  /\ Running =>
       /\ call.h \in live
       /\ call.op \in {"install", "uninstall"}
       /\ installed[call.h] = (call.op = "uninstall")
  /\ call.pc \in {"entry", "write", "end", "unprotect"} => call.pi \in DOMAIN page_list[call.h]
  /\ call.pc \in {"write", "end"} => call.ei \in SlotsOf(page)
  /\ call.pc = "unprotect" => call.op = "uninstall"

\* Types, the coherence of the call and who owns which page: none of this
\* depends on what the client does or on which steps fail.
Structure == TypeOK /\ CallOK /\ PagesOwnedOnce

\* What putting a page in front of a list does to it.
LEMMA Prepend ==
  ASSUME NEW S, NEW s \in Seq(S), NEW p \in S
  PROVE  /\ <<p>> \o s \in Seq(S)
         /\ DOMAIN (<<p>> \o s) = 1 .. Len(s) + 1
         /\ (<<p>> \o s)[1] = p
         /\ \A j \in 1 .. Len(s) + 1 : j # 1 => j - 1 \in 1 .. Len(s) /\ (<<p>> \o s)[j] = s[j - 1]
OBVIOUS

\* What filling the next slot of a page does to its entries.
LEMMA Extend ==
  ASSUME NEW S, NEW s \in Seq(S), NEW e \in S
  PROVE  /\ Append(s, e) \in Seq(S)
         /\ DOMAIN Append(s, e) = 1 .. Len(s) + 1
         /\ Append(s, e)[Len(s) + 1] = e
         /\ \A i \in 1 .. Len(s) : Append(s, e)[i] = s[i]
OBVIOUS

LEMMA InitStructure == Init => Structure
<1> SUFFICES ASSUME Init PROVE Structure
  OBVIOUS
<1>1. code \in [Targets -> Code]
  BY DEF Init, Code, Original
<1>2. call \in Call
  BY DEF Init, Idle, Call, PCs
<1>3. page_list \in [Handles -> Seq(Pages)] /\ entries \in [Pages -> Seq(Entry)]
  BY DEF Init
<1>4. installed \in [Handles -> BOOLEAN] /\ failed \in [Handles -> BOOLEAN]
  BY DEF Init
<1>5. TypeOK
  BY <1>1, <1>2, <1>3, <1>4 DEF Init, TypeOK, Codes
<1>6. CallOK
  BY DEF Init, CallOK, Running, Idle
<1>7. PagesOwnedOnce
  BY DEF Init, PagesOwnedOnce
<1> QED BY <1>5, <1>6, <1>7 DEF Structure

\* The updates of the record of the call that the steps make.
LEMMA CallUpdate ==
  ASSUME NEW c \in Call, NEW pc \in PCs, NEW n \in Nat
  PROVE  /\ [c EXCEPT !.pc = pc] \in Call
         /\ [c EXCEPT !.pc = pc, !.pi = n] \in Call
         /\ [c EXCEPT !.pc = pc, !.ei = n] \in Call
BY DEF Call

LEMMA IdleIsCall == Idle \in Call
BY DEF Idle, Call, PCs

\* The page of memory whose protection VirtualProtect reports.
LEMMA FirstPage ==
  ASSUME NEW t \in Targets
  PROVE  addr[t] \div page_size \in Memory
<1>1. addr[t] \in addr[t] .. addr[t] + PatchSize - 1
  BY ConstantsAssumption
<1> QED BY <1>1, ConstantsAssumption

LEMMA TypeOKStep == Structure /\ Next => TypeOK'
<1> SUFFICES ASSUME Structure, Next PROVE TypeOK'
  OBVIOUS
<1>0. TypeOK /\ CallOK
  BY DEF Structure
<1> USE <1>0
<1>a. ASSUME NEW error \in Codes, Refuse(error) PROVE TypeOK'
  BY <1>a DEF Refuse, TypeOK, handleVars, pageVars, targetVars
<1>b. ASSUME GiveUp
      PROVE  /\ live' \in SUBSET Handles
             /\ installed' \in [Handles -> BOOLEAN]
             /\ failed' \in [Handles -> BOOLEAN]
             /\ page_list' \in [Handles -> Seq(Pages)]
             /\ call' \in Call
             /\ rv' \in Codes
  BY <1>b, IdleIsCall DEF GiveUp, TypeOK, Codes
<1>1. ASSUME NEW h \in Handles, Create(h) PROVE TypeOK'
  BY <1>1 DEF Create, TypeOK, pageVars, targetVars
<1>2. ASSUME NEW h \in Handles, Destroy(h) PROVE TypeOK'
  <2>1. CASE FreeHandle(h)
    <3>1. live' \in SUBSET Handles /\ page_list' \in [Handles -> Seq(Pages)]
      BY <2>1 DEF FreeHandle, TypeOK
    <3>2. entries' \in [Pages -> Seq(Entry)]
      BY <2>1 DEF FreeHandle, TypeOK
    <3>3. prot' \in [Pages -> {"none", "rw", "rx"}]
      BY <2>1 DEF FreeHandle, TypeOK
    <3> QED BY <2>1, <3>1, <3>2, <3>3 DEF FreeHandle, TypeOK, targetVars, Codes
  <2> QED BY <1>2, <1>a, <2>1 DEF Destroy, Codes
<1>3. ASSUME NEW h \in Handles, NEW t \in Targets, Prepare(h, t) PROVE TypeOK'
  <2>1. CASE PrepareReuse(h, t)
    <3>1. PICK j \in Candidates(h, t) : FillEntry(page_list[h][j], t)
      BY <2>1 DEF PrepareReuse
    <3>2. page_list[h][j] \in Pages
      BY <3>1 DEF Candidates, TypeOK
    <3>3. [target |-> t, old |-> code[t]] \in Entry
      BY DEF Entry, TypeOK
    <3> DEFINE q == page_list[h][j]
    <3>a. entries[q] \in Seq(Entry)
      BY <3>2 DEF TypeOK
    <3>b. Append(entries[q], [target |-> t, old |-> code[t]]) \in Seq(Entry)
      BY <3>3, <3>a, Extend
    <3>4. entries' \in [Pages -> Seq(Entry)]
      BY <3>1, <3>2, <3>b DEF FillEntry, TypeOK
    <3>5. [Idle EXCEPT !.pc = "crashed"] \in Call
      BY DEF Idle, Call, PCs
    <3>6. call' \in Call /\ rv' \in Codes
      BY <3>1, <3>5 DEF FillEntry, TypeOK, Codes
    <3> QED BY <2>1, <3>4, <3>6 DEF PrepareReuse, TypeOK, handleVars, targetVars
  <2>2. CASE PrepareNewPage(h, t)
    <3>1. PICK p \in Pages : /\ page_list' = [page_list EXCEPT ![h] = <<p>> \o @]
                             /\ FillNewPage(p, t)
      BY <2>2 DEF PrepareNewPage
    <3>2. page_list' \in [Handles -> Seq(Pages)]
      BY <3>1, Prepend DEF TypeOK
    <3>3. [target |-> t, old |-> code[t]] \in Entry
      BY DEF Entry, TypeOK
    <3>4. entries' \in [Pages -> Seq(Entry)] /\ prot' \in [Pages -> {"none", "rw", "rx"}]
      BY <3>1, <3>3 DEF FillNewPage, TypeOK
    <3> QED BY <2>2, <3>1, <3>2, <3>4 DEF PrepareNewPage, FillNewPage, TypeOK, targetVars, Codes
  <2>3. CASE \E error \in Codes : Refuse(error)
    BY <2>3, <1>a
  <2> QED BY <1>3, <2>1, <2>2, <2>3 DEF Prepare, PrepareNoSpace, PrepareFails, Codes
<1>4. ASSUME NEW h \in Handles, InstallCall(h) \/ UninstallCall(h) PROVE TypeOK'
  <2>1. ASSUME NEW op \in {"install", "uninstall"}, Start(h, op) PROVE TypeOK'
    <3>1. call' \in Call
      BY <2>1 DEF Start, Call, PCs
    <3> QED BY <2>1, <3>1 DEF Start, TypeOK, handleVars, pageVars, targetVars
  <2> QED BY <1>4, <1>a, <2>1 DEF InstallCall, UninstallCall, Codes
<1>5. CASE UnprotectBegin
  <2>1. CASE GiveUp /\ UNCHANGED <<tprot, patch_prot, protect>>
    BY <1>5, <2>1, <1>b DEF UnprotectBegin, TypeOK, pageVars
  <2>2. CASE /\ \E try \in Unprotected :
                  /\ patch_prot' = IF os = "unix" THEN try ELSE patch_prot
                  /\ tprot' = SetProtection(entry.target, try)
             /\ protect' = Found(entry.target)
             /\ call' = [call EXCEPT !.pc = "write"]
             /\ UNCHANGED <<handleVars, rv>>
    <3>1. call' \in Call
      BY <2>2 DEF TypeOK, Call, PCs
    <3>2. patch_prot' \in {"rw", "rwx"} /\ tprot' \in [Memory -> {"rx", "rw", "rwx"}]
      BY <2>2 DEF TypeOK, Unprotected, SetProtection
    <3>3. entry.target \in Targets
      <4>1. page \in Pages /\ call.ei \in SlotsOf(page)
        BY <1>5 DEF UnprotectBegin, CallOK, Running, TypeOK, page
      <4>2. entry \in Entry
        BY <4>1 DEF TypeOK, SlotsOf, entry
      <4> QED BY <4>2 DEF Entry
    <3>4. protect' \in {"rx", "rw", "rwx"}
      BY <2>2, <3>3, FirstPage DEF Found, TypeOK
    <3> QED BY <1>5, <2>2, <3>1, <3>2, <3>4 DEF UnprotectBegin, TypeOK, pageVars, handleVars
  <2> QED BY <1>5, <2>1, <2>2 DEF UnprotectBegin
<1>6. CASE WriteCode
  <2>1. page \in Pages /\ entry \in Entry
    <3>1. page \in Pages /\ call.ei \in SlotsOf(page)
      BY <1>6 DEF WriteCode, CallOK, Running, TypeOK, page
    <3> QED BY <3>1 DEF TypeOK, SlotsOf, entry
  <2>2. NewCode \in Code
    BY <2>1 DEF NewCode, JumpTo, Code, Entry, TypeOK, Call
  <2>3. call' \in Call
    BY <1>6 DEF WriteCode, TypeOK, Call, PCs
  <2> QED BY <1>6, <2>2, <2>3 DEF WriteCode, TypeOK, handleVars, pageVars
<1>7. CASE UnprotectEnd
  <2>1. CASE GiveUp /\ UNCHANGED tprot
    BY <1>7, <2>1, <1>b DEF UnprotectEnd, TypeOK, pageVars
  <2>2. CASE /\ tprot' = SetProtection(entry.target, Reprotected)
             /\ call' = [call EXCEPT !.pc = "entry", !.ei = @ + 1]
             /\ UNCHANGED <<handleVars, rv>>
    <3>1. call \in Call /\ call.ei + 1 \in Nat /\ "entry" \in PCs
      BY DEF TypeOK, Call, PCs
    <3>2. call' \in Call
      BY <2>2, <3>1, CallUpdate
    <3>3. tprot' \in [Memory -> {"rx", "rw", "rwx"}]
      BY <2>2 DEF TypeOK, Reprotected, SetProtection
    <3> QED BY <1>7, <2>2, <3>2, <3>3 DEF UnprotectEnd, TypeOK, pageVars, handleVars
  <2> QED BY <1>7, <2>1, <2>2 DEF UnprotectEnd
<1>8. CASE PageProtect
  <2>1. CASE GiveUp /\ UNCHANGED prot
    BY <1>8, <2>1, <1>b DEF PageProtect, TypeOK, targetVars
  <2>2. CASE /\ prot' = [prot EXCEPT ![page] = "rx"]
             /\ call' = [call EXCEPT !.pc = "entry", !.ei = 1]
             /\ UNCHANGED <<handleVars, rv>>
    <3>1. call' \in Call
      BY <2>2 DEF TypeOK, Call, PCs
    <3> QED BY <1>8, <2>2, <3>1 DEF PageProtect, TypeOK, targetVars, handleVars
  <2> QED BY <1>8, <2>1, <2>2 DEF PageProtect
<1>9. CASE InstallNextPage \/ UninstallPage \/ UninstallLastEntry
  <2>1. call \in Call /\ call.pi + 1 \in Nat /\ {"page", "entry", "unprotect"} \subseteq PCs
    BY DEF TypeOK, Call, PCs
  <2>2. [call EXCEPT !.pc = "page", !.pi = @ + 1] \in Call
    BY <2>1, CallUpdate
  <2>3. [call EXCEPT !.pc = "entry", !.ei = 1] \in Call
    BY <2>1, 1 \in Nat, CallUpdate
  <2>4. [call EXCEPT !.pc = "unprotect"] \in Call
    BY <2>1, CallUpdate
  <2> QED BY <1>9, <2>2, <2>3, <2>4 DEF InstallNextPage, UninstallPage, UninstallLastEntry, TypeOK,
                            handleVars, pageVars, targetVars
<1>10. CASE PageUnprotect
  <2>0. call \in Call /\ call.pi + 1 \in Nat /\ "page" \in PCs
    BY DEF TypeOK, Call, PCs
  <2>1. call' \in Call
    BY <1>10, <2>0, CallUpdate DEF PageUnprotect
  <2>2. prot' \in [Pages -> {"none", "rw", "rx"}]
    BY <1>10 DEF PageUnprotect, TypeOK
  <2> QED BY <1>10, <2>1, <2>2 DEF PageUnprotect, TypeOK, handleVars, targetVars
<1>11. CASE InstallReturn \/ UninstallReturn
  <2>1. PICK flag \in BOOLEAN : Finish(flag)
    BY <1>11 DEF InstallReturn, UninstallReturn
  <2> QED BY <2>1, IdleIsCall DEF Finish, TypeOK, pageVars, targetVars, Codes
<1> QED BY <1>1, <1>2, <1>3, <1>4, <1>5, <1>6, <1>7, <1>8, <1>9, <1>10, <1>11
        DEF Next, ClientCall, Step

LEMMA CallOKStep == Structure /\ Next => CallOK'
<1> SUFFICES ASSUME Structure, Next PROVE CallOK'
  OBVIOUS
<1>0. TypeOK /\ CallOK
  BY DEF Structure
<1>t. call \in Call
  BY <1>0 DEF TypeOK
<1>a. ASSUME call' = Idle PROVE CallOK'
  BY <1>a DEF CallOK, Running, Idle
<1>b. ASSUME call.pc = "idle", UNCHANGED call PROVE CallOK'
  BY <1>0, <1>b DEF CallOK, Running
<1>1. ASSUME NEW h \in Handles,
             \/ Create(h) \/ Destroy(h)
             \/ \E t \in Targets : Prepare(h, t)
             \/ InstallCall(h) \/ UninstallCall(h)
      PROVE  CallOK'
  <2>1. call.pc = "idle"
    BY <1>1 DEF Create, Destroy, Prepare, InstallCall, UninstallCall, Calls
  <2>2. CASE UNCHANGED call
    BY <2>1, <2>2, <1>b
  <2>3. CASE call' = [Idle EXCEPT !.pc = "crashed"]
    BY <2>3 DEF CallOK, Running, Idle
  <2>4. ASSUME NEW op \in {"install", "uninstall"}, Start(h, op), h \in live,
               installed[h] = (op = "uninstall")
        PROVE  CallOK'
    BY <2>4 DEF Start, CallOK, Running, handleVars
  <2>5. ASSUME ~ UNCHANGED call, call' # [Idle EXCEPT !.pc = "crashed"]
        PROVE  (\E op \in {"install", "uninstall"} :
                  Start(h, op) /\ h \in live /\ installed[h] = (op = "uninstall"))
    <3>1. ~Create(h) /\ ~Destroy(h)
      BY <2>5 DEF Create, Destroy, Refuse, FreeHandle
    <3>2. ASSUME NEW t \in Targets PROVE ~Prepare(h, t)
      BY <2>5 DEF Prepare, Refuse, PrepareReuse, PrepareNewPage, PrepareNoSpace, PrepareFails,
                  FillEntry, FillNewPage
    <3>3. installed[h] \in BOOLEAN
      BY <1>0 DEF TypeOK
    <3> QED BY <1>1, <2>5, <3>1, <3>2, <3>3 DEF InstallCall, UninstallCall, Refuse, Calls
  <2> QED BY <2>2, <2>3, <2>4, <2>5
<1>2. CASE UnprotectBegin
  BY <1>0, <1>t, <1>2, <1>a DEF UnprotectBegin, GiveUp, CallOK, Running, handleVars, pageVars, page, SlotsOf, Call
<1>3. CASE WriteCode
  <2>1. call'.pc = "end" /\ call'.h = call.h /\ call'.op = call.op /\ call'.pi = call.pi /\ call'.ei = call.ei
    BY <1>t, <1>3 DEF WriteCode, Call
  <2>2. UNCHANGED <<live, installed, page_list, entries>>
    BY <1>3 DEF WriteCode, handleVars, pageVars
  <2>3. call.pc = "write"
    BY <1>3 DEF WriteCode
  <2> QED BY <1>0, <2>1, <2>2, <2>3 DEF CallOK, Running, page, SlotsOf
<1>4. CASE UnprotectEnd
  <2>1. CASE GiveUp
    BY <2>1, <1>a DEF GiveUp
  <2>2. CASE call' = [call EXCEPT !.pc = "entry", !.ei = @ + 1] /\ UNCHANGED handleVars
    <3>1. /\ call'.pc = "entry" /\ call'.h = call.h /\ call'.op = call.op /\ call'.pi = call.pi
          /\ call'.ei = call.ei + 1 /\ call.ei \in Nat
      BY <1>t, <2>2 DEF Call
    <3>2. UNCHANGED <<live, installed, page_list>> /\ call.pc = "end"
      BY <1>4, <2>2 DEF UnprotectEnd, handleVars
    <3> QED BY <1>0, <3>1, <3>2 DEF CallOK, Running
  <2> QED BY <1>4, <2>1, <2>2 DEF UnprotectEnd
<1>5. CASE PageProtect
  <2>1. CASE GiveUp
    BY <2>1, <1>a DEF GiveUp
  <2>2. CASE call' = [call EXCEPT !.pc = "entry", !.ei = 1] /\ UNCHANGED handleVars
    <3>1. /\ call'.pc = "entry" /\ call'.h = call.h /\ call'.op = call.op /\ call'.pi = call.pi
          /\ call'.ei = 1
      BY <1>t, <2>2 DEF Call
    <3>2. UNCHANGED <<live, installed, page_list>> /\ call.pc = "page"
          /\ call.pi \in DOMAIN page_list[call.h]
      BY <1>5, <2>2 DEF PageProtect, handleVars
    <3> QED BY <1>0, <3>1, <3>2 DEF CallOK, Running
  <2> QED BY <1>5, <2>1, <2>2 DEF PageProtect
<1>6. CASE InstallNextPage
  BY <1>0, <1>t, <1>6 DEF InstallNextPage, CallOK, Running, handleVars, pageVars, page, SlotsOf, Call
<1>7. CASE UninstallPage
  BY <1>0, <1>t, <1>7 DEF UninstallPage, CallOK, Running, handleVars, pageVars, page, SlotsOf, Call
<1>8. CASE UninstallLastEntry
  BY <1>0, <1>t, <1>8 DEF UninstallLastEntry, CallOK, Running, handleVars, pageVars, page, SlotsOf, Call
<1>9. CASE PageUnprotect
  BY <1>0, <1>t, <1>9 DEF PageUnprotect, CallOK, Running, handleVars, page, SlotsOf, Call
<1>10. CASE InstallReturn \/ UninstallReturn
  BY <1>10, <1>a DEF InstallReturn, UninstallReturn, Finish
<1> QED BY <1>1, <1>2, <1>3, <1>4, <1>5, <1>6, <1>7, <1>8, <1>9, <1>10 DEF Next, ClientCall, Step

LEMMA OwnedStep == Structure /\ Next => PagesOwnedOnce'
<1> SUFFICES ASSUME Structure, Next PROVE PagesOwnedOnce'
  OBVIOUS
<1>0. TypeOK /\ CallOK /\ PagesOwnedOnce
  BY DEF Structure
\* Most steps leave the lists alone and map and unmap nothing.
<1>a. ASSUME UNCHANGED <<live, page_list>>,
             \A p \in Pages : (prot'[p] = "none") <=> (prot[p] = "none")
      PROVE  PagesOwnedOnce'
  BY <1>0, <1>a DEF PagesOwnedOnce, PagesOf
<1>b. Running /\ call.pi \in DOMAIN page_list[call.h] => page \in Pages /\ prot[page] # "none"
  BY <1>0 DEF TypeOK, CallOK, PagesOwnedOnce, PagesOf, page
<1>1. ASSUME NEW h \in Handles, Create(h) PROVE PagesOwnedOnce'
  <2>1. h \notin live /\ live' = live \cup {h}
    BY <1>1 DEF Create
  <2>2. \A g \in live : page_list'[g] = page_list[g]
    BY <1>0, <1>1, <2>1 DEF Create, TypeOK
  <2>3. page_list'[h] = <<>> /\ prot' = prot
    BY <1>0, <1>1 DEF Create, TypeOK, pageVars
  <2> QED BY <1>0, <2>1, <2>2, <2>3 DEF PagesOwnedOnce, PagesOf
<1>2. ASSUME NEW h \in Handles, Destroy(h) PROVE PagesOwnedOnce'
  <2>1. CASE FreeHandle(h)
    <3>1. live' = live \ {h}
      BY <2>1 DEF FreeHandle
    <3>2. \A g \in live' : page_list'[g] = page_list[g]
      BY <1>0, <2>1 DEF FreeHandle, TypeOK
    <3>3. \A p \in Pages : prot'[p] = IF p \in PagesOf(h) THEN "none" ELSE prot[p]
      BY <2>1 DEF FreeHandle
    <3>4. h \in live
      BY <1>2 DEF Destroy, Calls
    <3> QED BY <1>0, <3>1, <3>2, <3>3, <3>4 DEF PagesOwnedOnce, PagesOf
  <2> QED BY <1>2, <1>a, <2>1 DEF Destroy, Refuse, handleVars, pageVars
<1>3. ASSUME NEW h \in Handles, NEW t \in Targets, Prepare(h, t) PROVE PagesOwnedOnce'
  <2>1. CASE PrepareNewPage(h, t)
    <3>1. PICK p \in Pages : /\ prot[p] = "none"
                             /\ page_list' = [page_list EXCEPT ![h] = <<p>> \o @]
                             /\ FillNewPage(p, t)
      BY <2>1 DEF PrepareNewPage
    <3>2. live' = live /\ h \in live
      BY <1>3, <2>1 DEF PrepareNewPage, Prepare, Calls
    <3>3. \A g \in live : g # h => page_list'[g] = page_list[g]
      BY <1>0, <3>1 DEF TypeOK
    <3>4. page_list'[h] = <<p>> \o page_list[h] /\ page_list[h] \in Seq(Pages)
      BY <1>0, <3>1 DEF TypeOK
    <3> DEFINE n == Len(page_list[h])
    <3>5. /\ n \in Nat
          /\ DOMAIN page_list[h] = 1 .. n
          /\ DOMAIN page_list'[h] = 1 .. n + 1
          /\ page_list'[h][1] = p
          /\ \A j \in 1 .. n + 1 : j # 1 => j - 1 \in 1 .. n /\ page_list'[h][j] = page_list[h][j - 1]
          /\ \A j \in 1 .. n : j + 1 \in 1 .. n + 1 /\ page_list'[h][j + 1] = page_list[h][j]
      BY <3>4, Prepend
    <3>6. \A q \in Pages : prot'[q] = IF q = p THEN "rw" ELSE prot[q]
      BY <1>0, <3>1 DEF FillNewPage, TypeOK
    <3>7. \A g \in live : p \notin PagesOf(g)
      BY <1>0, <3>1 DEF PagesOwnedOnce
    <3>8. PagesOf(h)' = PagesOf(h) \cup {p}
      <4>1. ASSUME NEW j \in DOMAIN page_list'[h] PROVE page_list'[h][j] \in PagesOf(h) \cup {p}
        BY <3>5 DEF PagesOf
      <4>2. ASSUME NEW j \in DOMAIN page_list[h] PROVE page_list[h][j] \in PagesOf(h)'
        <5>1. j + 1 \in DOMAIN page_list'[h] /\ page_list'[h][j + 1] = page_list[h][j]
          BY <3>5
        <5> QED BY <5>1 DEF PagesOf
      <4>3. p \in PagesOf(h)'
        BY <3>5 DEF PagesOf
      <4>4. PagesOf(h)' \subseteq PagesOf(h) \cup {p}
        BY <4>1 DEF PagesOf
      <4>5. PagesOf(h) \subseteq PagesOf(h)'
        BY <4>2 DEF PagesOf
      <4> QED BY <4>3, <4>4, <4>5
    <3>9. \A g \in live : g # h => PagesOf(g)' = PagesOf(g)
      BY <3>3 DEF PagesOf
    <3>10. \A q \in Pages : (prot'[q] # "none") <=> (\E g \in live' : q \in PagesOf(g)')
      BY <1>0, <3>2, <3>6, <3>8, <3>9 DEF PagesOwnedOnce
    <3>11. ASSUME NEW f \in live, NEW g \in live,
                  NEW j \in DOMAIN page_list'[f], NEW k \in DOMAIN page_list'[g],
                  page_list'[f][j] = page_list'[g][k]
           PROVE  f = g /\ j = k
      <4>1. CASE f = h /\ g = h
        <5>1. j \in 1 .. n + 1 /\ k \in 1 .. n + 1
          BY <4>1, <3>5
        <5>2. CASE j = 1 \/ k = 1
          BY <4>1, <5>1, <5>2, <3>5, <3>7, <3>2, <3>11 DEF PagesOf
        <5>3. CASE j # 1 /\ k # 1
          <6>1. page_list[h][j - 1] = page_list[h][k - 1] /\ j - 1 \in DOMAIN page_list[h] /\ k - 1 \in DOMAIN page_list[h]
            BY <4>1, <5>1, <5>3, <3>5, <3>11
          <6>2. j - 1 = k - 1
            BY <1>0, <3>2, <6>1 DEF PagesOwnedOnce
          <6> QED BY <4>1, <5>1, <6>2
        <5> QED BY <5>2, <5>3
      <4>2. CASE f = h /\ g # h
        <5>1. page_list'[g][k] \in PagesOf(g)
          BY <4>2, <3>3 DEF PagesOf
        <5>2. page_list'[f][j] \in PagesOf(h) \cup {p}
          BY <4>2, <3>8 DEF PagesOf
        <5>3. PagesOf(g) \cap (PagesOf(h) \cup {p}) = {}
          BY <1>0, <3>2, <3>7, <4>2 DEF PagesOwnedOnce, PagesOf
        <5> QED BY <3>11, <5>1, <5>2, <5>3
      <4>3. CASE f # h /\ g = h
        <5>1. page_list'[f][j] \in PagesOf(f)
          BY <4>3, <3>3 DEF PagesOf
        <5>2. page_list'[g][k] \in PagesOf(h) \cup {p}
          BY <4>3, <3>8 DEF PagesOf
        <5>3. PagesOf(f) \cap (PagesOf(h) \cup {p}) = {}
          BY <1>0, <3>2, <3>7, <4>3 DEF PagesOwnedOnce, PagesOf
        <5> QED BY <3>11, <5>1, <5>2, <5>3
      <4>4. CASE f # h /\ g # h
        BY <1>0, <3>3, <3>11, <4>4 DEF PagesOwnedOnce
      <4> QED BY <4>1, <4>2, <4>3, <4>4
    <3> QED BY <3>2, <3>10, <3>11 DEF PagesOwnedOnce
  <2>2. CASE UNCHANGED <<live, page_list, prot>>
    BY <2>2, <1>a
  <2> QED BY <1>3, <2>1, <2>2 DEF Prepare, PrepareReuse, PrepareNoSpace, PrepareFails, Refuse,
                                 handleVars, pageVars
<1>4. ASSUME NEW h \in Handles, InstallCall(h) \/ UninstallCall(h) PROVE PagesOwnedOnce'
  BY <1>4, <1>a DEF InstallCall, UninstallCall, Refuse, Start, handleVars, pageVars
<1>5. CASE UnprotectBegin \/ WriteCode \/ UnprotectEnd \/ InstallNextPage \/ UninstallPage
           \/ UninstallLastEntry \/ InstallReturn \/ UninstallReturn
  <2>1. UNCHANGED <<live, page_list, prot>>
    BY <1>5 DEF UnprotectBegin, WriteCode, UnprotectEnd, InstallNextPage, UninstallPage,
      UninstallLastEntry, InstallReturn, UninstallReturn, GiveUp, Finish, handleVars, pageVars
  <2> QED BY <2>1, <1>a
<1>6. CASE PageProtect \/ PageUnprotect
  <2>1. page \in Pages /\ prot[page] # "none"
    BY <1>0, <1>6, <1>b DEF PageProtect, PageUnprotect, CallOK, Running
  <2>2. /\ UNCHANGED <<live, page_list>>
        /\ \A p \in Pages : (prot'[p] = "none") <=> (prot[p] = "none")
    BY <1>0, <1>6, <2>1 DEF PageProtect, PageUnprotect, GiveUp, handleVars, TypeOK
  <2> QED BY <2>2, <1>a
<1> QED BY <1>1, <1>2, <1>3, <1>4, <1>5, <1>6 DEF Next, ClientCall, Step

\* Types, the coherence of the call and the ownership of pages hold in every
\* state, for every client and every choice of failing steps.
THEOREM StructureTheorem == Spec => []Structure
<1>1. Init => Structure
  BY InitStructure
<1>2. Structure /\ [Next]_vars => Structure'
  <2>1. Structure /\ Next => Structure'
    BY TypeOKStep, CallOKStep, OwnedStep DEF Structure
  <2>2. Structure /\ UNCHANGED vars => Structure'
    BY DEF Structure, TypeOK, CallOK, Running, PagesOwnedOnce, PagesOf, SlotsOf, page,
           vars, handleVars, pageVars, targetVars
  <2> QED BY <2>1, <2>2
<1> QED BY <1>1, <1>2, PTL DEF Spec
-----------------------------------------------------------------------------
(***************************************************************************)
(* Jumps.  JumpsLand is not inductive: that uninstall may unprotect a page *)
(* rests on what it has restored so far, on what the other handles saved   *)
(* as old code, and on which handle a jump leads to.                       *)
(***************************************************************************)

\* c is the program's code, or lands for t in a handle that is engaged.
Sound(c, t) ==
  \/ c = Original
  \/ \E h \in live :
       /\ Engaged(h)
       /\ c.page \in PagesOf(h)
       /\ c.slot \in SlotsOf(c.page)
       /\ entries[c.page][c.slot].target = t
       /\ prot[c.page] = "rx"

CodeSound == \A t \in Targets : Sound(code[t], t)

\* Saved code leads into another handle, never into the one that saved it.
OldSound ==
  \A h \in live : \A p \in PagesOf(h) : \A i \in SlotsOf(p) :
    /\ Sound(entries[p][i].old, entries[p][i].target)
    /\ entries[p][i].old.page \notin PagesOf(h)

\* The entries the call in progress has dealt with by now.
Handled(j, i) ==
  \/ j < call.pi
  \/ /\ j = call.pi
     /\ \/ call.pc = "unprotect"
        \/ call.pc \in {"entry", "write"} /\ i < call.ei
        \/ call.pc = "end" /\ i <= call.ei

NoneSaved ==
  call.op = "uninstall" =>
    \A g \in live : \A p \in PagesOf(g) : \A i \in SlotsOf(p) :
      entries[p][i].old.page \notin PagesOf(call.h)

RestoredStays ==
  call.op = "uninstall" =>
    \A j \in DOMAIN page_list[call.h] : \A i \in SlotsOf(page_list[call.h][j]) :
      Handled(j, i) => code[entries[page_list[call.h][j]][i].target].page \notin PagesOf(call.h)

LandingReady ==
  call.op = "install" /\ call.pc \in {"entry", "write", "end"} => prot[page] = "rx"

JumpInv == CodeSound /\ OldSound /\ NoneSaved /\ RestoredStays /\ LandingReady

IInv == Structure /\ JumpInv

\* The client uninstalls in the reverse order and finishes failed installs.
Disciplined == {"lifo", "finish_install"} \subseteq Discipline

\* What can disturb a landing: its handle is disengaged or loses the page, its
\* slot changes, or its page is no longer executable.
LEMMA SoundFrame ==
  ASSUME NEW c, NEW t, Sound(c, t),
         c # Original =>
           /\ \A h \in live : Engaged(h) /\ c.page \in PagesOf(h) =>
                h \in live' /\ Engaged(h)' /\ c.page \in PagesOf(h)'
           /\ c.slot \in SlotsOf(c.page) =>
                c.slot \in SlotsOf(c.page)' /\ entries'[c.page][c.slot].target = entries[c.page][c.slot].target
           /\ prot[c.page] = "rx" => prot'[c.page] = "rx"
  PROVE  Sound(c, t)'
BY DEF Sound

\* A sound landing stays sound, except in the two steps of uninstall that give
\* a page back and disengage the handle.
LEMMA SoundStep ==
  ASSUME Structure, Next, "finish_install" \in Discipline,
         NEW c \in Code, NEW t \in Targets, Sound(c, t),
         call.pc = "unprotect" => c.page # page,
         UninstallReturn => c.page \notin PagesOf(call.h)
  PROVE  Sound(c, t)'
<1>0. TypeOK /\ CallOK /\ PagesOwnedOnce
  BY DEF Structure
<1>a. ASSUME UNCHANGED <<live, page_list, entries, prot>>,
             \A h \in live : Engaged(h) /\ c.page \in PagesOf(h) => Engaged(h)'
      PROVE  Sound(c, t)'
  BY <1>a, SoundFrame DEF PagesOf, SlotsOf
<1>b. ASSUME UNCHANGED <<live, installed, failed>>, call'.op = call.op, call'.h = call.h
      PROVE  \A h \in live : Engaged(h) => h \in live' /\ Engaged(h)'
  BY <1>b DEF Engaged, Unfinished
<1>c. ASSUME NEW error, Refuse(error) PROVE Sound(c, t)'
  BY <1>a, <1>b, <1>c DEF Refuse, handleVars, pageVars
<1>d. ASSUME GiveUp, Running PROVE \A h \in live : Engaged(h) => Engaged(h)'
  BY <1>0, <1>d DEF GiveUp, Engaged, Unfinished, CallOK, TypeOK
<1>1. ASSUME NEW h \in Handles, Create(h) PROVE Sound(c, t)'
  <2>1. \A g \in live : g \in live' /\ page_list'[g] = page_list[g] /\ (Engaged(g) => Engaged(g)')
    BY <1>0, <1>1 DEF Create, Engaged, Unfinished, TypeOK
  <2>2. entries' = entries /\ prot' = prot
    BY <1>1 DEF Create, pageVars
  <2> QED BY <2>1, <2>2, SoundFrame DEF PagesOf, SlotsOf
<1>2. ASSUME NEW h \in Handles, Destroy(h) PROVE Sound(c, t)'
  <2>1. CASE ~installed[h] /\ FreeHandle(h)
    <3>1. ~Engaged(h) /\ h \in live
      BY <1>0, <1>2, <2>1 DEF Destroy, Calls, FinishInstall, Engaged, CallOK, Running
    <3>2. \A g \in live : g # h =>
             /\ g \in live' /\ PagesOf(g)' = PagesOf(g) /\ (Engaged(g) => Engaged(g)')
             /\ \A p \in PagesOf(g) : p \in Pages /\ p \notin PagesOf(h)
      BY <1>0, <2>1, <3>1 DEF FreeHandle, Engaged, Unfinished, TypeOK, PagesOf, PagesOwnedOnce
    <3>3. \A p \in Pages : p \notin PagesOf(h) => prot'[p] = prot[p] /\ entries'[p] = entries[p]
      BY <2>1 DEF FreeHandle
    <3>4. CASE c = Original
      BY <3>4 DEF Sound
    <3>5. CASE c # Original
      <4>1. PICK g \in live : /\ Engaged(g) /\ c.page \in PagesOf(g)
                              /\ c.slot \in SlotsOf(c.page)
                              /\ entries[c.page][c.slot].target = t
                              /\ prot[c.page] = "rx"
        BY <3>5 DEF Sound
      <4>2. g # h /\ c.page \in Pages /\ c.page \notin PagesOf(h)
        BY <3>1, <3>2, <4>1
      <4>3. g \in live' /\ Engaged(g)' /\ c.page \in PagesOf(g)'
        BY <3>2, <4>1, <4>2
      <4>4. c.slot \in SlotsOf(c.page)' /\ entries'[c.page][c.slot].target = t /\ prot'[c.page] = "rx"
        BY <3>3, <4>1, <4>2 DEF SlotsOf
      <4> QED BY <4>3, <4>4 DEF Sound
    <3> QED BY <3>4, <3>5
  <2> QED BY <1>2, <1>c, <2>1 DEF Destroy
<1>3. ASSUME NEW h \in Handles, NEW u \in Targets, Prepare(h, u) PROVE Sound(c, t)'
  <2>0. call.pc = "idle" /\ call.op = "none" /\ h \in live
    BY <1>0, <1>3 DEF Prepare, Calls, CallOK, Running
  <2>1. CASE PrepareReuse(h, u)
    <3>1. PICK j \in Candidates(h, u) : FillEntry(page_list[h][j], u)
      BY <2>1 DEF PrepareReuse
    <3> DEFINE q == page_list[h][j]
               e == [target |-> u, old |-> code[u]]
    <3>2. q \in Pages /\ entries[q] \in Seq(Entry)
      BY <1>0, <3>1 DEF Candidates, TypeOK
    <3>e. e \in Entry
      BY <1>0 DEF TypeOK, Entry
    <3>3. \A p \in Pages : \A i \in SlotsOf(p) : i \in SlotsOf(p)' /\ entries'[p][i] = entries[p][i]
      <4>1. CASE UNCHANGED entries
        BY <4>1 DEF SlotsOf
      <4>2. CASE entries' = [entries EXCEPT ![q] = Append(@, e)]
        BY <1>0, <3>2, <3>e, <4>2, Extend DEF SlotsOf, TypeOK
      <4> QED BY <3>1, <4>1, <4>2 DEF FillEntry
    <3>4. \A g \in live : Engaged(g) => g \in live' /\ Engaged(g)' /\ PagesOf(g)' = PagesOf(g) /\ PagesOf(g) \subseteq Pages
      BY <1>0, <2>0, <2>1 DEF PrepareReuse, handleVars, Engaged, Unfinished, PagesOf, TypeOK
    <3>5. prot' = prot
      BY <2>1 DEF PrepareReuse
    <3> QED BY <3>3, <3>4, <3>5 DEF Sound
  <2>2. CASE ~installed[h] /\ PrepareNewPage(h, u)
    <3>1. PICK p \in Pages : /\ prot[p] = "none"
                             /\ page_list' = [page_list EXCEPT ![h] = <<p>> \o @]
                             /\ FillNewPage(p, u)
      BY <2>2 DEF PrepareNewPage
    <3>2. \A q \in Pages : q # p => prot'[q] = prot[q] /\ entries'[q] = entries[q]
      BY <1>0, <3>1 DEF FillNewPage, TypeOK
    <3>3. \A g \in live : g # h => PagesOf(g)' = PagesOf(g)
      BY <1>0, <3>1 DEF TypeOK, PagesOf
    <3>4. ~Engaged(h)
      BY <1>3, <2>0, <2>2 DEF Prepare, FinishInstall, Engaged
    <3>5. \A g \in live : Engaged(g) => g \in live' /\ Engaged(g)' /\ PagesOf(g) \subseteq Pages
      BY <1>0, <2>0, <2>2, <3>1 DEF PrepareNewPage, FillNewPage, Engaged, Unfinished, PagesOf, TypeOK
    <3> QED BY <3>1, <3>2, <3>3, <3>4, <3>5 DEF Sound, SlotsOf
  <2>3. CASE \E error : Refuse(error)
    BY <2>3, <1>c
  <2> QED BY <1>3, <2>1, <2>2, <2>3 DEF Prepare, PrepareNoSpace, PrepareFails
<1>4. ASSUME NEW h \in Handles, InstallCall(h) \/ UninstallCall(h) PROVE Sound(c, t)'
  <2>1. ASSUME NEW op, call.pc = "idle", Start(h, op) PROVE Sound(c, t)'
    <3>1. \A g \in live : Engaged(g) => Engaged(g)'
      BY <1>0, <2>1 DEF Start, Engaged, Unfinished, CallOK, Running, handleVars
    <3> QED BY <1>a, <2>1, <3>1 DEF Start, handleVars, pageVars
  <2> QED BY <1>4, <1>c, <2>1 DEF InstallCall, UninstallCall, Calls
<1>5. CASE UnprotectBegin
  BY <1>0, <1>5, <1>a, <1>b, <1>d DEF UnprotectBegin, GiveUp, Running, handleVars, pageVars, TypeOK, Call
<1>6. CASE WriteCode
  BY <1>0, <1>6, <1>a, <1>b DEF WriteCode, handleVars, pageVars, TypeOK, Call
<1>7. CASE UnprotectEnd
  BY <1>0, <1>7, <1>a, <1>b, <1>d DEF UnprotectEnd, GiveUp, Running, handleVars, pageVars, TypeOK, Call
<1>8. CASE PageProtect
  <2>1. UNCHANGED <<live, page_list, entries>> /\ Running
    BY <1>8 DEF PageProtect, GiveUp, handleVars, Running
  <2>2. \A h \in live : Engaged(h) => Engaged(h)'
    BY <1>0, <1>8, <1>b, <1>d, <2>1 DEF PageProtect, handleVars, TypeOK, Call
  <2>3. \A p \in Pages : prot[p] = "rx" => prot'[p] = "rx"
    BY <1>0, <1>8 DEF PageProtect, TypeOK
  <2>4. c # Original => c.page \in Pages
    BY <1>0 DEF Sound, PagesOf, TypeOK
  <2> QED BY <2>1, <2>2, <2>3, <2>4, SoundFrame DEF PagesOf, SlotsOf
<1>9. CASE InstallNextPage \/ UninstallPage \/ UninstallLastEntry
  BY <1>0, <1>9, <1>a, <1>b DEF InstallNextPage, UninstallPage, UninstallLastEntry, handleVars, pageVars, TypeOK, Call
<1>10. CASE PageUnprotect
  <2>1. UNCHANGED <<live, page_list, entries>> /\ c.page # page
    BY <1>10 DEF PageUnprotect, handleVars
  <2>2. \A h \in live : Engaged(h) => Engaged(h)'
    BY <1>0, <1>10, <1>b DEF PageUnprotect, handleVars, TypeOK, Call
  <2>3. \A p \in Pages : p # page => prot'[p] = prot[p]
    BY <1>0, <1>10 DEF PageUnprotect, TypeOK
  <2>4. c # Original => c.page \in Pages
    BY <1>0 DEF Sound, PagesOf, TypeOK
  <2> QED BY <2>1, <2>2, <2>3, <2>4, SoundFrame DEF PagesOf, SlotsOf
<1>11. CASE InstallReturn
  <2>1. \A h \in live : Engaged(h) => Engaged(h)'
    BY <1>0, <1>11 DEF InstallReturn, Finish, Engaged, Unfinished, TypeOK, CallOK, Running
  <2> QED BY <1>11, <1>a, <2>1 DEF InstallReturn, Finish, pageVars
<1>12. CASE UninstallReturn
  <2>1. \A h \in live : Engaged(h) /\ h # call.h => Engaged(h)'
    BY <1>0, <1>12 DEF UninstallReturn, Finish, Engaged, Unfinished, TypeOK, CallOK, Running
  <2> QED BY <1>12, <1>a, <2>1 DEF UninstallReturn, Finish, pageVars
<1> QED BY <1>1, <1>2, <1>3, <1>4, <1>5, <1>6, <1>7, <1>8, <1>9, <1>10, <1>11, <1>12
        DEF Next, ClientCall, Step

\* The program's own code is in no page of any handle.
LEMMA PagesOfTyped ==
  ASSUME TypeOK, NEW h \in Handles
  PROVE  PagesOf(h) \subseteq Pages /\ NoPage \notin PagesOf(h)
BY ConstantsAssumption DEF TypeOK, PagesOf

\* Nothing jumps into the page that uninstall is about to unprotect, and when
\* uninstall is over nothing jumps into the handle.
LEMMA NothingJumpsBack ==
  ASSUME IInv, NEW t \in Targets
  PROVE  /\ call.pc = "unprotect" => code[t].page # page
         /\ UninstallReturn => code[t].page \notin PagesOf(call.h)
<1>0. TypeOK /\ CallOK /\ CodeSound /\ RestoredStays
  BY DEF IInv, Structure, JumpInv
<1>a. code[t] = Original \/ (code[t].slot \in SlotsOf(code[t].page) /\ entries[code[t].page][code[t].slot].target = t)
  BY <1>0 DEF CodeSound, Sound
<1>b. Original.page = NoPage
  BY DEF Original
<1>1. ASSUME call.pc = "unprotect", code[t].page = page PROVE FALSE
  <2>1. call.h \in Handles /\ call.op = "uninstall" /\ call.pi \in DOMAIN page_list[call.h]
    BY <1>0, <1>1 DEF CallOK, Running, TypeOK
  <2>2. page \in PagesOf(call.h)
    BY <2>1 DEF page, PagesOf
  <2>3. code[t] # Original
    BY <1>0, <1>1, <1>b, <2>1, <2>2, PagesOfTyped
  <2>4. code[t].slot \in SlotsOf(page_list[call.h][call.pi]) /\ entries[page_list[call.h][call.pi]][code[t].slot].target = t
    BY <1>a, <1>1, <2>3 DEF page
  <2>5. Handled(call.pi, code[t].slot)
    BY <1>1 DEF Handled
  <2> QED BY <1>0, <1>1, <2>1, <2>2, <2>4, <2>5 DEF RestoredStays
<1>2. ASSUME UninstallReturn, code[t].page \in PagesOf(call.h) PROVE FALSE
  <2>1. call.h \in Handles /\ call.op = "uninstall" /\ call.pi \notin DOMAIN page_list[call.h]
    BY <1>0, <1>2 DEF CallOK, Running, TypeOK, UninstallReturn
  <2>2. PICK j \in DOMAIN page_list[call.h] : code[t].page = page_list[call.h][j]
    BY <1>2 DEF PagesOf
  <2>3. code[t] # Original
    BY <1>0, <1>2, <1>b, <2>1, PagesOfTyped
  <2>4. code[t].slot \in SlotsOf(page_list[call.h][j]) /\ entries[page_list[call.h][j]][code[t].slot].target = t
    BY <1>a, <2>2, <2>3
  <2>5. page_list[call.h] \in Seq(Pages) /\ call.pi \in Nat /\ call.pi > 0
    BY <1>0, <2>1 DEF TypeOK, Call, CallOK
  <2>6. j < call.pi
    BY <2>1, <2>2, <2>5
  <2>7. Handled(j, code[t].slot)
    BY <2>6 DEF Handled
  <2> QED BY <1>0, <1>2, <2>1, <2>2, <2>4, <2>7 DEF RestoredStays
<1> QED BY <1>1, <1>2

LEMMA CodeSoundStep ==
  ASSUME IInv, Next, Disciplined
  PROVE  CodeSound'
<1>0. Structure /\ TypeOK /\ CallOK /\ CodeSound /\ OldSound /\ LandingReady
  BY DEF IInv, Structure, JumpInv
<1>1. ASSUME NEW t \in Targets PROVE Sound(code[t], t) /\ code[t] \in Code
  BY <1>0 DEF CodeSound, TypeOK
<1>2. ASSUME NEW t \in Targets, NEW c \in Code, c = code[t] PROVE Sound(c, t)'
  BY <1>0, <1>1, <1>2, NothingJumpsBack, SoundStep DEF Disciplined
<1>3. CASE UNCHANGED code
  BY <1>1, <1>2, <1>3 DEF CodeSound, Sound
<1>4. CASE WriteCode
  <2>0. call.pc = "write" /\ call.h \in live /\ call.op \in {"install", "uninstall"}
        /\ call.pi \in DOMAIN page_list[call.h] /\ call.ei \in SlotsOf(page)
    BY <1>0, <1>4 DEF WriteCode, CallOK, Running
  <2>1. page \in PagesOf(call.h) /\ entry \in Entry /\ page \in Pages
    BY <1>0, <2>0 DEF page, entry, PagesOf, TypeOK, SlotsOf
  <2>2. entry.target \in Targets /\ entry.old \in Code
    BY <2>1 DEF Entry
  <2>3. \A t \in Targets : code'[t] = IF t = entry.target THEN NewCode ELSE code[t]
    BY <1>0, <1>4 DEF WriteCode, TypeOK
  <2>4. ASSUME NEW c \in Code, c = NewCode PROVE Sound(c, entry.target)
    <3>1. CASE call.op = "install"
      <4>1. Engaged(call.h)
        BY <2>0, <3>1 DEF Engaged
      <4>2. c.page = page /\ c.slot = call.ei
        BY <2>4, <3>1 DEF NewCode, JumpTo
      <4>3. prot[page] = "rx"
        BY <1>0, <2>0, <3>1 DEF LandingReady
      <4> QED BY <2>0, <2>1, <4>1, <4>2, <4>3 DEF Sound, entry
    <3>2. CASE call.op = "uninstall"
      <4>1. c = entries[page][call.ei].old
        BY <2>4, <3>2 DEF NewCode, entry
      <4> QED BY <1>0, <2>0, <2>1, <4>1 DEF OldSound, entry
    <3> QED BY <2>0, <3>1, <3>2
  <2>5. NewCode \in Code
    BY <1>0, <2>0, <2>1, <2>2 DEF NewCode, JumpTo, Code, TypeOK, Call
  <2>6. ASSUME NEW c \in Code, c = NewCode, NEW t \in Targets, t = entry.target PROVE Sound(c, t)'
    <3>1. call.pc # "unprotect" /\ ~UninstallReturn
      BY <2>0 DEF UninstallReturn
    <3> QED BY <1>0, <2>4, <2>6, <3>1, SoundStep DEF Disciplined
  <2>7. ASSUME NEW t \in Targets PROVE Sound(code[t], t)'
    <3>1. CASE t = entry.target
      <4>1. code'[t] = NewCode
        BY <2>3, <3>1
      <4> QED BY <2>5, <2>6, <3>1, <4>1 DEF Sound
    <3>2. CASE t # entry.target
      <4>1. code'[t] = code[t]
        BY <2>3, <3>2
      <4> QED BY <1>1, <1>2, <4>1 DEF Sound
    <3> QED BY <3>1, <3>2
  <2> QED BY <2>7 DEF CodeSound
<1>5. UNCHANGED code \/ WriteCode
  BY DEF Next, ClientCall, Step, Create, Destroy, FreeHandle, Refuse, Prepare, PrepareReuse,
         PrepareNewPage, PrepareNoSpace, PrepareFails, InstallCall, UninstallCall, Start,
         UnprotectBegin, UnprotectEnd, PageProtect, InstallNextPage, InstallReturn, Finish,
         UninstallPage, UninstallLastEntry, PageUnprotect, UninstallReturn, targetVars
<1> QED BY <1>3, <1>4, <1>5

\* Outside prepare and destroy no entry and no list of pages changes.
LEMMA StepFrame ==
  ASSUME Step
  PROVE  UNCHANGED <<live, page_list, entries>>
BY DEF Step, UnprotectBegin, WriteCode, UnprotectEnd, PageProtect, InstallNextPage, InstallReturn,
       UninstallPage, UninstallLastEntry, PageUnprotect, UninstallReturn, GiveUp, Finish,
       handleVars, pageVars

LEMMA OldSoundStep ==
  ASSUME IInv, Next, Disciplined
  PROVE  OldSound'
<1>0. Structure /\ TypeOK /\ CallOK /\ PagesOwnedOnce /\ CodeSound /\ OldSound /\ NoneSaved
  BY DEF IInv, Structure, JumpInv
\* An entry that was there before.
<1>1. ASSUME NEW h \in live, NEW p \in PagesOf(h), NEW i \in SlotsOf(p),
             NEW c, c = entries[p][i].old, NEW t, t = entries[p][i].target
      PROVE  c \in Code /\ t \in Targets /\ Sound(c, t) /\ Sound(c, t)' /\ c.page \notin PagesOf(h)
  <2>0. p \in Pages
    BY <1>0, PagesOfTyped DEF TypeOK
  <2>a. entries[p][i] \in Entry
    BY <1>0, <2>0 DEF TypeOK, SlotsOf
  <2>1. c \in Code /\ t \in Targets
    BY <1>1, <2>a DEF Entry
  <2>2. Sound(c, t) /\ c.page \notin PagesOf(h)
    BY <1>0, <1>1 DEF OldSound
  <2>3. call.op = "uninstall" => c.page \notin PagesOf(call.h)
    BY <1>0, <1>1 DEF NoneSaved
  <2>4. call.pc = "unprotect" => c.page # page
    BY <1>0, <2>3 DEF CallOK, PagesOf, page
  <2>5. UninstallReturn => c.page \notin PagesOf(call.h)
    BY <2>3 DEF UninstallReturn
  <2> QED BY <1>0, <2>1, <2>2, <2>4, <2>5, SoundStep DEF Disciplined
\* The jump a handle that is not engaged reads from a target is not its own.
<1>2. ASSUME NEW h \in live, ~Engaged(h), NEW u \in Targets, NEW c, c = code[u]
      PROVE  Sound(c, u)' /\ c.page \notin PagesOf(h)
  <2>1. c \in Code /\ Sound(c, u)
    BY <1>0, <1>2 DEF TypeOK, CodeSound
  <2>2. Sound(c, u)'
    BY <1>0, <1>2, <2>1, NothingJumpsBack, SoundStep DEF Disciplined
  <2>3. h \in Handles
    BY <1>0 DEF TypeOK
  <2>4. CASE c = Original
    BY <1>0, <2>2, <2>3, <2>4, PagesOfTyped DEF Original
  <2>5. CASE c # Original
    <3>1. PICK g \in live : Engaged(g) /\ c.page \in PagesOf(g)
      BY <2>1, <2>5 DEF Sound
    <3>2. g # h
      BY <1>2, <3>1
    <3> QED BY <1>0, <2>2, <3>1, <3>2 DEF PagesOwnedOnce, PagesOf
  <2> QED BY <2>4, <2>5
<1>3. ASSUME UNCHANGED <<page_list, entries>>, live' \subseteq live PROVE OldSound'
  BY <1>1, <1>3, SMTT(30) DEF OldSound, PagesOf, SlotsOf, Sound
<1>4. ASSUME NEW h \in Handles, Create(h) PROVE OldSound'
  <2>1. /\ \A g \in live' : g \in live \/ g = h
        /\ \A g \in live : page_list'[g] = page_list[g]
        /\ page_list'[h] = <<>> /\ entries' = entries
    BY <1>0, <1>4 DEF Create, TypeOK, pageVars
  <2>2. PagesOf(h)' = {} /\ \A g \in live : PagesOf(g)' = PagesOf(g)
    BY <2>1 DEF PagesOf
  <2> QED BY <1>1, <2>1, <2>2 DEF OldSound, SlotsOf, Sound
<1>5. ASSUME NEW h \in Handles, Destroy(h) PROVE OldSound'
  <2>1. CASE FreeHandle(h)
    <3>1. live' = live \ {h} /\ h \in live
      BY <1>5, <2>1 DEF FreeHandle, Destroy, Calls
    <3>2. \A g \in live' : PagesOf(g)' = PagesOf(g)
      BY <1>0, <2>1, <3>1 DEF FreeHandle, TypeOK, PagesOf
    <3>3. \A g \in live' : \A p \in PagesOf(g) : entries'[p] = entries[p]
      BY <1>0, <2>1, <3>1 DEF FreeHandle, PagesOwnedOnce, PagesOf, TypeOK
    <3> QED BY <1>1, <3>1, <3>2, <3>3, SMTT(30) DEF OldSound, SlotsOf, Sound
  <2>2. CASE UNCHANGED <<handleVars, pageVars>>
    BY <2>2, <1>3 DEF handleVars, pageVars
  <2> QED BY <1>5, <2>1, <2>2 DEF Destroy, Refuse
<1>6. ASSUME NEW h \in Handles, NEW u \in Targets, Prepare(h, u) PROVE OldSound'
  <2>0. h \in live /\ call.op = "none"
    BY <1>0, <1>6 DEF Prepare, Calls, CallOK, Running
  <2> DEFINE e == [target |-> u, old |-> code[u]]
  <2>e. e \in Entry /\ e.old = code[u] /\ e.target = u
    BY <1>0 DEF TypeOK, Entry
  <2>1. CASE ~installed[h] /\ PrepareReuse(h, u)
    <3>0. ~Engaged(h)
      BY <1>6, <2>0, <2>1 DEF Prepare, FinishInstall, Engaged, Disciplined
    <3>1. PICK j \in Candidates(h, u) : FillEntry(page_list[h][j], u)
      BY <2>1 DEF PrepareReuse
    <3> DEFINE q == page_list[h][j]
    <3>2. q \in Pages /\ entries[q] \in Seq(Entry) /\ q \in PagesOf(h)
      BY <1>0, <3>1 DEF Candidates, TypeOK, PagesOf
    <3>3. CASE UNCHANGED entries
      BY <2>1, <3>3, <1>3 DEF PrepareReuse, handleVars
    <3>4. CASE entries' = [entries EXCEPT ![q] = Append(@, e)]
      <4>1. UNCHANGED <<live, page_list>>
        BY <2>1 DEF PrepareReuse, handleVars
      <4>2. \A p \in Pages : \A i \in SlotsOf(p)' :
               \/ i \in SlotsOf(p) /\ entries'[p][i] = entries[p][i]
               \/ p = q /\ entries'[p][i] = e
        BY <1>0, <2>e, <3>2, <3>4, Extend DEF TypeOK, SlotsOf
      <4>3. \A g \in live : q \in PagesOf(g) => g = h
        BY <1>0, <2>0, <3>2 DEF PagesOwnedOnce, PagesOf
      <4>4. \A g \in live : PagesOf(g) \subseteq Pages
        BY <1>0, PagesOfTyped DEF TypeOK
      <4>5. ASSUME NEW g \in live', NEW p \in PagesOf(g)', NEW i \in SlotsOf(p)'
            PROVE  /\ Sound(entries[p][i].old, entries[p][i].target)'
                   /\ entries'[p][i].old.page \notin PagesOf(g)'
        <5>1. g \in live /\ p \in PagesOf(g) /\ PagesOf(g)' = PagesOf(g) /\ p \in Pages
          BY <4>1, <4>4 DEF PagesOf
        <5>2. CASE i \in SlotsOf(p) /\ entries'[p][i] = entries[p][i]
          BY <1>1, <5>1, <5>2, SMTT(30) DEF Sound
        <5>3. CASE p = q /\ entries'[p][i] = e
          <6>1. g = h
            BY <4>3, <5>1, <5>3
          <6> QED BY <1>2, <2>0, <2>e, <3>0, <5>1, <5>3, <6>1 DEF Sound
        <5> QED BY <4>2, <5>1, <5>2, <5>3
      <4> QED BY <4>5 DEF OldSound
    <3> QED BY <3>1, <3>3, <3>4 DEF FillEntry
  <2>2. CASE ~installed[h] /\ PrepareNewPage(h, u)
    <3>0. ~Engaged(h)
      BY <1>6, <2>0, <2>2 DEF Prepare, FinishInstall, Engaged, Disciplined
    <3>1. PICK q \in Pages : /\ prot[q] = "none"
                             /\ page_list' = [page_list EXCEPT ![h] = <<q>> \o @]
                             /\ FillNewPage(q, u)
      BY <2>2 DEF PrepareNewPage
    <3>2. live' = live
      BY <2>2 DEF PrepareNewPage
    <3>3. \A g \in live : PagesOf(g) \subseteq Pages /\ q \notin PagesOf(g)
      BY <1>0, <3>1, PagesOfTyped DEF PagesOwnedOnce, TypeOK
    <3>4. \A g \in live : g # h => PagesOf(g)' = PagesOf(g)
      BY <1>0, <3>1 DEF TypeOK, PagesOf
    <3>5. PagesOf(h)' \subseteq PagesOf(h) \cup {q}
      <4>1. page_list'[h] = <<q>> \o page_list[h] /\ page_list[h] \in Seq(Pages)
        BY <1>0, <3>1 DEF TypeOK
      <4>2. ASSUME NEW j \in DOMAIN page_list'[h] PROVE page_list'[h][j] \in PagesOf(h) \cup {q}
        BY <4>1, Prepend DEF PagesOf
      <4> QED BY <4>2 DEF PagesOf
    <3>6. entries'[q] = <<e>> /\ \A p \in Pages : p # q => entries'[p] = entries[p]
      BY <1>0, <3>1 DEF FillNewPage, TypeOK
    <3>7. \A c, t : Sound(c, t) => c.page # q
      BY <3>1, <3>3, ConstantsAssumption DEF Sound, Original
    <3>8. ASSUME NEW g \in live', NEW p \in PagesOf(g)', NEW i \in SlotsOf(p)'
          PROVE  /\ Sound(entries[p][i].old, entries[p][i].target)'
                 /\ entries'[p][i].old.page \notin PagesOf(g)'
      <4>1. CASE p # q
        <5>1. g \in live /\ p \in PagesOf(g) /\ i \in SlotsOf(p) /\ entries'[p][i] = entries[p][i]
          BY <3>2, <3>3, <3>4, <3>5, <3>6, <4>1 DEF SlotsOf
        <5> DEFINE c == entries[p][i].old
                   t == entries[p][i].target
        <5>2. Sound(c, t) /\ c.page \notin PagesOf(g)
          BY <1>1, <5>1
        <5>3. c.page # q
          BY <3>7, <5>2
        <5>4. c.page \notin PagesOf(g)'
          BY <3>4, <3>5, <5>1, <5>2, <5>3
        <5> QED BY <1>1, <5>1, <5>4, SMTT(30) DEF Sound
      <4>2. CASE p = q
        <5>1. g = h /\ entries'[p][i] = e
          BY <3>2, <3>3, <3>4, <3>6, <4>2 DEF SlotsOf
        <5>2. Sound(code[u], u)
          BY <1>0 DEF CodeSound
        <5>3. code[u].page # q
          BY <3>7, <5>2
        <5>4. code[u].page \notin PagesOf(h)
          BY <1>2, <2>0, <3>0
        <5> QED BY <1>2, <2>0, <2>e, <3>0, <3>5, <5>1, <5>3, <5>4 DEF Sound
      <4> QED BY <4>1, <4>2
    <3> QED BY <3>8 DEF OldSound
  <2>3. CASE UNCHANGED <<handleVars, pageVars>>
    BY <2>3, <1>3 DEF handleVars, pageVars
  <2> QED BY <1>6, <2>1, <2>2, <2>3 DEF Prepare, PrepareNoSpace, PrepareFails, Refuse
<1>7. ASSUME NEW h \in Handles, InstallCall(h) \/ UninstallCall(h) PROVE OldSound'
  BY <1>7, <1>3 DEF InstallCall, UninstallCall, Refuse, Start, handleVars, pageVars
<1>8. CASE Step
  BY <1>8, <1>3, StepFrame
<1> QED BY <1>4, <1>5, <1>6, <1>7, <1>8 DEF Next, ClientCall

\* The only client call that leads to an uninstall in progress.
LEMMA UninstallStarts ==
  ASSUME ClientCall, call.op # "uninstall", call'.op = "uninstall"
  PROVE  \E h \in Handles : Start(h, "uninstall") /\ LifoUninstall(h)
<1>1. PICK h \in Handles : \/ Create(h) \/ Destroy(h)
                           \/ \E t \in Targets : Prepare(h, t)
                           \/ InstallCall(h) \/ UninstallCall(h)
  BY DEF ClientCall
<1>2. ~UNCHANGED call
  OBVIOUS
<1>3. [Idle EXCEPT !.pc = "crashed"].op # "uninstall"
  BY DEF Idle
<1>4. \A t \in Targets : ~Prepare(h, t)
  BY <1>2, <1>3 DEF Prepare, Refuse, PrepareReuse, PrepareNewPage, PrepareNoSpace, PrepareFails,
                    FillEntry, FillNewPage
<1>5. ~Create(h) /\ ~Destroy(h)
  BY <1>2 DEF Create, Destroy, Refuse, FreeHandle
<1>6. ~Start(h, "install")
  BY DEF Start
<1> QED BY <1>1, <1>2, <1>4, <1>5, <1>6 DEF InstallCall, UninstallCall, Refuse

LEMMA NoneSavedStep ==
  ASSUME IInv, Next, Disciplined
  PROVE  NoneSaved'
<1>0. TypeOK /\ CallOK /\ NoneSaved
  BY DEF IInv, Structure, JumpInv
<1>1. CASE Step
  <2>1. call' = Idle \/ (call'.op = call.op /\ call'.h = call.h)
    BY <1>0, <1>1 DEF Step, UnprotectBegin, WriteCode, UnprotectEnd, PageProtect, InstallNextPage,
       InstallReturn, UninstallPage, UninstallLastEntry, PageUnprotect, UninstallReturn,
       GiveUp, Finish, TypeOK, Call
  <2>2. CASE call' = Idle
    BY <2>2 DEF NoneSaved, Idle
  <2>3. CASE call'.op = call.op /\ call'.h = call.h
    BY <1>0, <1>1, <2>3, StepFrame DEF NoneSaved, PagesOf, SlotsOf
  <2> QED BY <2>1, <2>2, <2>3
<1>2. CASE ClientCall
  <2>1. call.op = "none"
    BY <1>0, <1>2 DEF ClientCall, Create, Destroy, Prepare, InstallCall, UninstallCall, Calls,
                      CallOK, Running
  <2>2. CASE call'.op # "uninstall"
    BY <2>2 DEF NoneSaved
  <2>3. CASE call'.op = "uninstall"
    <3>1. PICK h \in Handles : Start(h, "uninstall") /\ LifoUninstall(h)
      BY <1>2, <2>1, <2>3, UninstallStarts
    <3>2. UNCHANGED <<live, page_list, entries>> /\ call'.h = h
      BY <3>1 DEF Start, handleVars, pageVars
    <3> QED BY <3>1, <3>2 DEF NoneSaved, LifoUninstall, Disciplined, PagesOf, SlotsOf
  <2> QED BY <2>2, <2>3
<1> QED BY <1>1, <1>2 DEF Next

\* The call in progress deals with one entry at a time: the one it copies code for.
LEMMA HandledStep ==
  ASSUME Structure, Step, call' # Idle
  PROVE  /\ Running
         /\ call'.op = call.op /\ call'.h = call.h
         /\ \A j \in DOMAIN page_list[call.h] : \A i \in SlotsOf(page_list[call.h][j]) :
              Handled(j, i)' => Handled(j, i) \/ (WriteCode /\ j = call.pi /\ i = call.ei)
<1>0. TypeOK /\ CallOK
  BY DEF Structure
<1>f. call.pi \in Nat /\ call.ei \in Nat /\ call.pi > 0 /\ call.ei > 0 /\ call \in Call
  BY <1>0 DEF TypeOK, Call, CallOK
<1>n. ~GiveUp /\ ~InstallReturn /\ ~UninstallReturn
  BY DEF GiveUp, InstallReturn, UninstallReturn, Finish
<1>a. Running
  BY <1>n DEF Running, Step, UnprotectBegin, WriteCode, UnprotectEnd, PageProtect, InstallNextPage,
       UninstallPage, UninstallLastEntry, PageUnprotect
<1>r. \A j \in DOMAIN page_list[call.h] :
         /\ j \in Nat /\ page_list[call.h][j] \in Pages
         /\ \A i \in SlotsOf(page_list[call.h][j]) : i \in Nat /\ i > 0
  BY <1>0, <1>a DEF TypeOK, CallOK, SlotsOf
<1>1. CASE UnprotectBegin
  <2>1. call'.op = call.op /\ call'.h = call.h /\ call'.pi = call.pi /\ call'.ei = call.ei /\ call'.pc = "write" /\ call.pc = "entry"
    BY <1>f, <1>n, <1>1 DEF Call, UnprotectBegin
  <2> QED BY <1>a, <2>1 DEF Handled
<1>2. CASE WriteCode
  <2>1. call'.op = call.op /\ call'.h = call.h /\ call'.pi = call.pi /\ call'.ei = call.ei /\ call'.pc = "end" /\ call.pc = "write"
    BY <1>f, <1>2 DEF Call, WriteCode
  <2> QED BY <1>2, <1>a, <1>f, <1>r, <2>1 DEF Handled
<1>3. CASE UnprotectEnd
  <2>1. call'.op = call.op /\ call'.h = call.h /\ call'.pi = call.pi /\ call'.ei = call.ei + 1 /\ call'.pc = "entry" /\ call.pc = "end"
    BY <1>f, <1>n, <1>3 DEF Call, UnprotectEnd
  <2>2. ASSUME NEW j \in DOMAIN page_list[call.h], NEW i \in SlotsOf(page_list[call.h][j]), Handled(j, i)'
        PROVE  Handled(j, i)
    <3>1. j \in Nat /\ i \in Nat
      BY <1>r
    <3> QED BY <1>f, <2>1, <2>2, <3>1 DEF Handled
  <2> QED BY <1>a, <2>1, <2>2
<1>4. CASE PageProtect \/ UninstallPage
  <2>1. call'.op = call.op /\ call'.h = call.h /\ call'.pi = call.pi /\ call'.ei = 1 /\ call'.pc = "entry" /\ call.pc = "page"
    BY <1>f, <1>n, <1>4 DEF Call, PageProtect, UninstallPage
  <2> QED BY <1>a, <1>f, <1>r, <2>1 DEF Handled
\* After the last entry of a page all its entries are behind call.ei.
<1>5. CASE InstallNextPage \/ UninstallLastEntry
  <2>1. call.pc = "entry" /\ call.ei \notin SlotsOf(page) /\ call.pi \in DOMAIN page_list[call.h]
    BY <1>0, <1>5 DEF InstallNextPage, UninstallLastEntry, CallOK
  <2>2. page \in Pages /\ entries[page] \in Seq(Entry)
    BY <1>0, <1>r, <2>1 DEF page, TypeOK
  <2>3. \A i \in SlotsOf(page) : i < call.ei
    BY <1>f, <2>1, <2>2 DEF SlotsOf
  <2>4. call'.op = call.op /\ call'.h = call.h /\ ((call'.pi = call.pi /\ call'.pc = "unprotect") \/ (call'.pi = call.pi + 1 /\ call'.pc = "page"))
    BY <1>f, <1>5 DEF Call, InstallNextPage, UninstallLastEntry
  <2> QED BY <1>a, <1>f, <1>r, <2>1, <2>3, <2>4 DEF Handled, page
<1>6. CASE PageUnprotect
  <2>1. call'.op = call.op /\ call'.h = call.h /\ call'.pi = call.pi + 1 /\ call'.pc = "page" /\ call.pc = "unprotect"
    BY <1>f, <1>6 DEF Call, PageUnprotect
  <2> QED BY <1>a, <1>f, <1>r, <2>1 DEF Handled
<1> QED BY <1>n, <1>1, <1>2, <1>3, <1>4, <1>5, <1>6 DEF Step

\* A call that starts has dealt with nothing.
LEMMA NothingHandled ==
  ASSUME TypeOK, NEW h \in Handles, NEW op, Start(h, op)
  PROVE  \A j \in DOMAIN page_list[h] : \A i : ~Handled(j, i)'
<1>1. call'.pi = 1 /\ call'.pc = "page"
  BY DEF Start
<1>2. \A j \in DOMAIN page_list[h] : j \in Nat /\ j > 0
  BY DEF TypeOK
<1> QED BY <1>1, <1>2 DEF Handled

\* A call that has run out of pages has dealt with everything.
LEMMA AllHandled ==
  ASSUME TypeOK, CallOK, Running, call.pi \notin DOMAIN page_list[call.h]
  PROVE  \A j \in DOMAIN page_list[call.h] : \A i : Handled(j, i)
<1>1. call.h \in Handles /\ call.pi \in Nat /\ call.pi > 0
  BY DEF TypeOK, CallOK, Call
<1>2. page_list[call.h] \in Seq(Pages)
  BY <1>1 DEF TypeOK
<1>3. \A j \in DOMAIN page_list[call.h] : j < call.pi
  BY <1>1, <1>2
<1> QED BY <1>3 DEF Handled

LEMMA RestoredStaysStep ==
  ASSUME IInv, Next, Disciplined
  PROVE  RestoredStays'
<1>0. Structure /\ TypeOK /\ CallOK /\ OldSound /\ RestoredStays
  BY DEF IInv, Structure, JumpInv
<1>1. CASE ClientCall
  <2>1. call.op = "none"
    BY <1>0, <1>1 DEF ClientCall, Create, Destroy, Prepare, InstallCall, UninstallCall, Calls,
                      CallOK, Running
  <2>2. CASE call'.op # "uninstall"
    BY <2>2 DEF RestoredStays
  <2>3. CASE call'.op = "uninstall"
    <3>1. PICK h \in Handles : Start(h, "uninstall")
      BY <1>1, <2>1, <2>3, UninstallStarts
    <3>2. call'.h = h /\ page_list' = page_list
      BY <3>1 DEF Start, handleVars
    <3> QED BY <1>0, <3>1, <3>2, NothingHandled DEF RestoredStays
  <2> QED BY <2>2, <2>3
<1>2. CASE Step /\ (call' = Idle \/ call.op # "uninstall")
  <2>1. CASE call' = Idle
    BY <2>1 DEF RestoredStays, Idle
  <2>2. CASE call' # Idle /\ call.op # "uninstall"
    BY <1>0, <1>2, <2>2, HandledStep DEF RestoredStays
  <2> QED BY <1>2, <2>1, <2>2
<1>3. CASE Step /\ call' # Idle /\ call.op = "uninstall"
  <2>1. /\ UNCHANGED <<live, page_list, entries>>
        /\ call'.op = call.op /\ call'.h = call.h /\ Running
        /\ \A j \in DOMAIN page_list[call.h] : \A i \in SlotsOf(page_list[call.h][j]) :
             Handled(j, i)' => Handled(j, i) \/ (WriteCode /\ j = call.pi /\ i = call.ei)
    BY <1>0, <1>3, StepFrame, HandledStep
  <2>a. /\ page_list' = page_list /\ entries' = entries /\ call'.h = call.h
        /\ PagesOf(call.h)' = PagesOf(call.h) /\ \A q : SlotsOf(q)' = SlotsOf(q)
    <3>1. page_list' = page_list /\ entries' = entries /\ call'.h = call.h
      BY <2>1
    <3> QED BY <3>1 DEF PagesOf, SlotsOf
  <2>2. CASE ~WriteCode
    <3>1. UNCHANGED code
      BY <1>3, <2>2 DEF Step, UnprotectBegin, UnprotectEnd, PageProtect, InstallNextPage, InstallReturn,
         UninstallPage, UninstallLastEntry, PageUnprotect, UninstallReturn, Finish, targetVars
    <3>2. \A j \in DOMAIN page_list[call.h] : \A i \in SlotsOf(page_list[call.h][j]) :
             Handled(j, i)' => code[entries[page_list[call.h][j]][i].target].page \notin PagesOf(call.h)
      BY <1>0, <1>3, <2>1, <2>2 DEF RestoredStays
    <3> QED BY <2>a, <3>1, <3>2, SMTT(30) DEF RestoredStays
  \* The memcpy restores one more entry, to code that leads elsewhere.
  <2>3. CASE WriteCode
    <3>1. call.h \in live /\ call.pi \in DOMAIN page_list[call.h] /\ call.ei \in SlotsOf(page)
      BY <1>0, <2>3 DEF WriteCode, CallOK, Running
    <3>2. page \in PagesOf(call.h)
      BY <3>1 DEF page, PagesOf
    <3>3. entry.old.page \notin PagesOf(call.h)
      BY <1>0, <3>1, <3>2 DEF OldSound, entry
    <3>4. code' = [code EXCEPT ![entry.target] = entry.old]
      BY <1>3, <2>3 DEF WriteCode, NewCode
    <3>5. ASSUME NEW j \in DOMAIN page_list[call.h], NEW i \in SlotsOf(page_list[call.h][j]), Handled(j, i)'
          PROVE  code'[entries[page_list[call.h][j]][i].target].page \notin PagesOf(call.h)
      <4> DEFINE t == entries[page_list[call.h][j]][i].target
      <4>0. t \in Targets
        <5>1. page_list[call.h][j] \in Pages
          BY <1>0, <3>1 DEF TypeOK
        <5>2. entries[page_list[call.h][j]][i] \in Entry
          BY <1>0, <5>1 DEF TypeOK, SlotsOf
        <5> QED BY <5>2 DEF Entry
      <4>1. CASE t = entry.target
        BY <1>0, <3>3, <3>4, <4>0, <4>1 DEF TypeOK
      <4>2. CASE t # entry.target
        <5>1. Handled(j, i)
          BY <2>1, <3>5, <4>2 DEF page, entry
        <5>2. code'[t] = code[t]
          BY <1>0, <3>4, <4>0, <4>2 DEF TypeOK
        <5> QED BY <1>0, <1>3, <5>1, <5>2 DEF RestoredStays
      <4> QED BY <4>1, <4>2
    <3> QED BY <2>a, <3>5 DEF RestoredStays
  <2> QED BY <2>2, <2>3
<1> QED BY <1>1, <1>2, <1>3 DEF Next

LEMMA LandingReadyStep ==
  ASSUME IInv, Next
  PROVE  LandingReady'
<1>0. TypeOK /\ CallOK /\ PagesOwnedOnce /\ LandingReady
  BY DEF IInv, Structure, JumpInv
<1>t. call \in Call
  BY <1>0 DEF TypeOK
<1>1. CASE ClientCall
  <2>1. call.pc = "idle"
    BY <1>1 DEF ClientCall, Create, Destroy, Prepare, InstallCall, UninstallCall, Calls
  <2>2. CASE call'.pc \in {"idle", "crashed", "page"}
    BY <2>2 DEF LandingReady
  <2>3. call'.pc \in {"idle", "crashed", "page"}
    <3>1. PICK h \in Handles : \/ Create(h) \/ Destroy(h)
                               \/ \E t \in Targets : Prepare(h, t)
                               \/ InstallCall(h) \/ UninstallCall(h)
      BY <1>1 DEF ClientCall
    <3>2. [Idle EXCEPT !.pc = "crashed"].pc = "crashed"
      BY DEF Idle
    <3>3. Create(h) \/ Destroy(h) => UNCHANGED call
      BY DEF Create, Destroy, Refuse, FreeHandle
    <3>4. \A t \in Targets : Prepare(h, t) => UNCHANGED call \/ call' = [Idle EXCEPT !.pc = "crashed"]
      BY DEF Prepare, Refuse, PrepareReuse, PrepareNewPage, PrepareNoSpace, PrepareFails,
             FillEntry, FillNewPage
    <3>5. InstallCall(h) \/ UninstallCall(h) => UNCHANGED call \/ call'.pc = "page"
      BY DEF InstallCall, UninstallCall, Refuse, Start
    <3> QED BY <2>1, <3>1, <3>2, <3>3, <3>4, <3>5
  <2> QED BY <2>2, <2>3
<1>2. CASE call' = Idle
  BY <1>2 DEF LandingReady, Idle
<1>3. CASE PageProtect /\ call' # Idle
  <2>1. prot' = [prot EXCEPT ![page] = "rx"] /\ call' = [call EXCEPT !.pc = "entry", !.ei = 1]
        /\ page_list' = page_list
    BY <1>3 DEF PageProtect, GiveUp, handleVars
  <2>2. page' = page
    BY <1>t, <2>1 DEF page, Call
  <2>3. page \in Pages
    BY <1>0, <1>3 DEF PageProtect, CallOK, Running, TypeOK, page
  <2> QED BY <1>0, <2>1, <2>2, <2>3 DEF LandingReady, TypeOK
<1>4. CASE UnprotectBegin /\ call' # Idle
  <2>1. call' = [call EXCEPT !.pc = "write"] /\ UNCHANGED <<page_list, prot>> /\ call.pc = "entry"
    BY <1>4 DEF UnprotectBegin, GiveUp, handleVars, pageVars
  <2>2. page' = page /\ call'.op = call.op
    BY <1>t, <2>1 DEF page, Call
  <2> QED BY <1>0, <2>1, <2>2 DEF LandingReady
<1>5. CASE WriteCode
  <2>1. call' = [call EXCEPT !.pc = "end"] /\ UNCHANGED <<page_list, prot>> /\ call.pc = "write"
    BY <1>5 DEF WriteCode, handleVars, pageVars
  <2>2. page' = page /\ call'.op = call.op
    BY <1>t, <2>1 DEF page, Call
  <2> QED BY <1>0, <2>1, <2>2 DEF LandingReady
<1>6. CASE UnprotectEnd /\ call' # Idle
  <2>1. call' = [call EXCEPT !.pc = "entry", !.ei = @ + 1] /\ UNCHANGED <<page_list, prot>> /\ call.pc = "end"
    BY <1>6 DEF UnprotectEnd, GiveUp, handleVars, pageVars
  <2>2. page' = page /\ call'.op = call.op
    BY <1>t, <2>1 DEF page, Call
  <2> QED BY <1>0, <2>1, <2>2 DEF LandingReady
<1>7. CASE InstallNextPage \/ PageUnprotect
  <2>1. call'.pc = "page"
    BY <1>t, <1>7 DEF InstallNextPage, PageUnprotect, Call
  <2> QED BY <2>1 DEF LandingReady
<1>8. CASE UninstallPage \/ UninstallLastEntry
  <2>1. call'.op = "uninstall"
    BY <1>t, <1>8 DEF UninstallPage, UninstallLastEntry, Call
  <2> QED BY <2>1 DEF LandingReady
<1>9. InstallReturn \/ UninstallReturn => call' = Idle
  BY DEF InstallReturn, UninstallReturn, Finish
<1> QED BY <1>1, <1>2, <1>3, <1>4, <1>5, <1>6, <1>7, <1>8, <1>9 DEF Next, Step

\* For a disciplined client the strengthened invariant holds in every state.
THEOREM Invariance == ASSUME Disciplined PROVE Spec => []IInv
<1>1. Init => IInv
  <2> SUFFICES ASSUME Init PROVE IInv
    OBVIOUS
  <2>1. Structure
    BY InitStructure
  <2>2. CodeSound /\ OldSound
    BY DEF Init, CodeSound, OldSound, Sound
  <2>3. NoneSaved /\ RestoredStays /\ LandingReady
    BY DEF Init, NoneSaved, RestoredStays, LandingReady, Idle
  <2> QED BY <2>1, <2>2, <2>3 DEF IInv, JumpInv
<1>2. IInv /\ [Next]_vars => IInv'
  <2>1. ASSUME IInv, Next PROVE IInv'
    <3>1. Structure'
      BY <2>1, TypeOKStep, CallOKStep, OwnedStep DEF IInv, Structure
    <3> QED BY <2>1, <3>1, CodeSoundStep, OldSoundStep, NoneSavedStep, RestoredStaysStep,
               LandingReadyStep DEF IInv, JumpInv
  <2>2. ASSUME IInv, UNCHANGED vars PROVE IInv'
    <3>1. UNCHANGED <<live, installed, page_list, failed, entries, prot, code, os, tprot, patch_prot, protect, call, rv>>
      BY <2>2 DEF vars, handleVars, pageVars, targetVars
    <3>2. Structure'
      BY <2>2, <3>1 DEF IInv, Structure, TypeOK, CallOK, Running, PagesOwnedOnce, PagesOf, SlotsOf, page
    <3>3. CodeSound' /\ OldSound'
      <4>1. \A h : (Engaged(h)' <=> Engaged(h)) /\ PagesOf(h)' = PagesOf(h)
        BY <3>1 DEF Engaged, Unfinished, PagesOf
      <4>2. \A p : SlotsOf(p)' = SlotsOf(p)
        BY <3>1 DEF SlotsOf
      <4>3. \A c, t : Sound(c, t)' <=> Sound(c, t)
        BY <3>1, <4>1, <4>2 DEF Sound
      <4> QED BY <2>2, <3>1, <4>1, <4>2, <4>3 DEF IInv, JumpInv, CodeSound, OldSound
    <3>4. NoneSaved'
      BY <2>2, <3>1 DEF IInv, JumpInv, NoneSaved, PagesOf, SlotsOf
    <3>5. RestoredStays'
      <4>1. RestoredStays
        BY <2>2 DEF IInv, JumpInv
      <4>2. page_list' = page_list /\ entries' = entries /\ code' = code /\ call' = call
        BY <3>1
      <4>3. \A j, i : Handled(j, i)' <=> Handled(j, i)
        BY <4>2 DEF Handled
      <4>4. PagesOf(call.h)' = PagesOf(call.h) /\ \A q : SlotsOf(q)' = SlotsOf(q)
        BY <4>2 DEF PagesOf, SlotsOf
      <4> QED BY <4>1, <4>2, <4>3, <4>4, SMTT(30) DEF RestoredStays
    <3>6. LandingReady'
      BY <2>2, <3>1 DEF IInv, JumpInv, LandingReady, page
    <3> QED BY <3>2, <3>3, <3>4, <3>5, <3>6 DEF IInv, JumpInv
  <2> QED BY <2>1, <2>2
<1> QED BY <1>1, <1>2, PTL DEF Spec

\* For every client that uninstalls in reverse order and finishes failed
\* installs, calling a target lands at every step of install and uninstall.
THEOREM JumpsLandTheorem == ASSUME Disciplined PROVE Spec => []JumpsLand
<1>1. IInv => JumpsLand
  BY DEF IInv, JumpInv, CodeSound, Sound, JumpsLand, Lands
<1> QED BY <1>1, Invariance, PTL

\* For the same clients, so does calling the trampoline of any entry.
THEOREM TrampolinesLandTheorem == ASSUME Disciplined PROVE Spec => []TrampolinesLand
<1>1. IInv => TrampolinesLand
  BY DEF IInv, JumpInv, OldSound, Sound, TrampolinesLand, Lands
<1> QED BY <1>1, Invariance, PTL

\* For the same clients, when every handle is uninstalled every target has the
\* program's own code again.
THEOREM PristineTheorem == ASSUME Disciplined PROVE Spec => []PristineWhenUninstalled
<1>1. IInv => PristineWhenUninstalled
  BY DEF IInv, Structure, CallOK, Running, JumpInv, CodeSound, Sound, Engaged, PristineWhenUninstalled
<1> QED BY <1>1, Invariance, PTL

\* Whatever the client does and whichever steps fail, no page is leaked, shared
\* or freed twice.
THEOREM PagesOwnedOnceTheorem == Spec => []PagesOwnedOnce
<1>1. Structure => PagesOwnedOnce
  BY DEF Structure
<1> QED BY <1>1, StructureTheorem, PTL

\* Whatever the client does and whichever steps fail, every variable has its type.
THEOREM TypeCorrect == Spec => []TypeOK
<1>1. Structure => TypeOK
  BY DEF Structure
<1> QED BY <1>1, StructureTheorem, PTL
-----------------------------------------------------------------------------
(* What install and uninstall leave behind *)

\* The client call that leads to a call in progress, and what it checked.
LEMMA CallStarts ==
  ASSUME CallOK, ClientCall, call'.op # "none"
  PROVE  \E h \in Handles :
           /\ h \in live
           /\ \/ ~installed[h] /\ Start(h, "install") /\ call'.op = "install"
              \/ installed[h] /\ Start(h, "uninstall") /\ call'.op = "uninstall"
<1>1. PICK h \in Handles : \/ Create(h) \/ Destroy(h)
                           \/ \E t \in Targets : Prepare(h, t)
                           \/ InstallCall(h) \/ UninstallCall(h)
  BY DEF ClientCall
<1>2. ~UNCHANGED call
  BY DEF CallOK, Running, ClientCall, Create, Destroy, Prepare, InstallCall, UninstallCall, Calls
<1>3. [Idle EXCEPT !.pc = "crashed"].op = "none"
  BY DEF Idle
<1>4. \A t \in Targets : ~Prepare(h, t)
  BY <1>2, <1>3 DEF Prepare, Refuse, PrepareReuse, PrepareNewPage, PrepareNoSpace, PrepareFails,
                    FillEntry, FillNewPage
<1>5. ~Create(h) /\ ~Destroy(h)
  BY <1>2 DEF Create, Destroy, Refuse, FreeHandle
<1>6. \A op : Start(h, op) => call'.op = op
  BY DEF Start
<1> QED BY <1>1, <1>2, <1>4, <1>5, <1>6 DEF InstallCall, UninstallCall, Refuse, Calls

\* A client calls only when no call is in progress.
LEMMA ClientIdle ==
  ASSUME CallOK, ClientCall
  PROVE  call.pc = "idle" /\ call.op = "none"
BY DEF CallOK, Running, ClientCall, Create, Destroy, Prepare, InstallCall, UninstallCall, Calls

\* Only the memcpy changes the first bytes of targets.
LEMMA OnlyWriteCode ==
  ASSUME Next, ~WriteCode
  PROVE  UNCHANGED code
BY DEF Next, ClientCall, Step, Create, Destroy, FreeHandle, Refuse, Prepare, PrepareReuse,
       PrepareNewPage, PrepareNoSpace, PrepareFails, InstallCall, UninstallCall, Start,
       UnprotectBegin, UnprotectEnd, PageProtect, InstallNextPage, InstallReturn, Finish,
       UninstallPage, UninstallLastEntry, PageUnprotect, UninstallReturn, targetVars

\* The entry the call in progress works on.
LEMMA CurrentEntry ==
  ASSUME Structure, call.pc \in {"write", "end"} \/ (call.pc = "entry" /\ call.ei \in SlotsOf(page))
  PROVE  /\ call.h \in live /\ call.h \in Handles
         /\ call.pi \in DOMAIN page_list[call.h]
         /\ page \in PagesOf(call.h) /\ page \in Pages
         /\ call.ei \in SlotsOf(page)
         /\ entry = entries[page][call.ei] /\ entry \in Entry
         /\ entry.target \in Targets
<1>1. /\ call.h \in live /\ call.h \in Handles
      /\ call.pi \in DOMAIN page_list[call.h] /\ call.ei \in SlotsOf(page)
  BY DEF Structure, TypeOK, CallOK, Running
<1>2. page \in PagesOf(call.h) /\ page \in Pages
  BY <1>1 DEF PagesOf, page, Structure, TypeOK
<1>3. entry = entries[page][call.ei] /\ entry \in Entry
  BY <1>1, <1>2 DEF entry, SlotsOf, Structure, TypeOK
<1> QED BY <1>1, <1>2, <1>3 DEF Entry
-----------------------------------------------------------------------------
(***************************************************************************)
(* install and uninstall.  That a target diverted early in the loop is     *)
(* still diverted when install returns is an invariant of the loop.        *)
(***************************************************************************)

DivertedStays ==
  call.op = "install" =>
    \A j \in DOMAIN page_list[call.h] : \A i \in SlotsOf(page_list[call.h][j]) :
      Handled(j, i) => code[entries[page_list[call.h][j]][i].target].page \in PagesOf(call.h)

\* The pages install has come to are executable.
PassedReady ==
  call.op = "install" =>
    \A j \in DOMAIN page_list[call.h] :
      j < call.pi \/ (j = call.pi /\ call.pc # "page") => prot[page_list[call.h][j]] = "rx"

\* funchook_destroy refuses an installed handle.
FreedNotInstalled == \A h \in Handles : installed[h] => h \in live

LoopInv == Structure /\ DivertedStays /\ PassedReady /\ FreedNotInstalled

LEMMA DivertedStaysStep ==
  ASSUME LoopInv, Next
  PROVE  DivertedStays'
<1>0. Structure /\ TypeOK /\ CallOK /\ DivertedStays
  BY DEF LoopInv, Structure
<1>1. CASE ClientCall
  <2>1. CASE call'.op # "install"
    BY <2>1 DEF DivertedStays
  <2>2. CASE call'.op = "install"
    <3>1. PICK h \in Handles : Start(h, "install")
      BY <1>0, <1>1, <2>2, CallStarts
    <3>2. call'.h = h /\ page_list' = page_list
      BY <3>1 DEF Start, handleVars
    <3> QED BY <1>0, <3>1, <3>2, NothingHandled DEF DivertedStays
  <2> QED BY <2>1, <2>2
<1>2. CASE Step /\ (call' = Idle \/ call.op # "install")
  <2>1. CASE call' = Idle
    BY <2>1 DEF DivertedStays, Idle
  <2>2. CASE call' # Idle /\ call.op # "install"
    BY <1>0, <1>2, <2>2, HandledStep DEF DivertedStays
  <2> QED BY <1>2, <2>1, <2>2
<1>3. CASE Step /\ call' # Idle /\ call.op = "install"
  <2>1. /\ UNCHANGED <<live, page_list, entries>>
        /\ call'.op = call.op /\ call'.h = call.h /\ Running
        /\ \A j \in DOMAIN page_list[call.h] : \A i \in SlotsOf(page_list[call.h][j]) :
             Handled(j, i)' => Handled(j, i) \/ (WriteCode /\ j = call.pi /\ i = call.ei)
    BY <1>0, <1>3, StepFrame, HandledStep
  <2>2. ASSUME NEW j \in DOMAIN page_list[call.h], NEW i \in SlotsOf(page_list[call.h][j]), Handled(j, i)'
        PROVE  code'[entries[page_list[call.h][j]][i].target].page \in PagesOf(call.h)
    <3> DEFINE t == entries[page_list[call.h][j]][i].target
    <3>0. t \in Targets
      <4>1. page_list[call.h][j] \in Pages
        BY <1>0, <2>1 DEF TypeOK, CallOK
      <4>2. entries[page_list[call.h][j]][i] \in Entry
        BY <1>0, <4>1 DEF TypeOK, SlotsOf
      <4> QED BY <4>2 DEF Entry
    <3>1. CASE WriteCode /\ t = entry.target
      <4>1. page \in PagesOf(call.h)
        BY <1>0, <3>1, CurrentEntry DEF WriteCode
      <4>2. code'[t] = JumpTo(page, call.ei)
        BY <1>0, <1>3, <3>0, <3>1 DEF WriteCode, NewCode, TypeOK
      <4> QED BY <4>1, <4>2 DEF JumpTo
    <3>2. CASE ~(WriteCode /\ t = entry.target)
      <4>1. Handled(j, i)
        BY <2>1, <2>2, <3>2 DEF page, entry
      <4>2. code'[t] = code[t]
        BY <1>0, <3>0, <3>2, OnlyWriteCode DEF WriteCode, TypeOK
      <4> QED BY <1>0, <1>3, <4>1, <4>2 DEF DivertedStays
    <3> QED BY <3>1, <3>2
  <2>3. page_list' = page_list /\ entries' = entries /\ call'.h = call.h
    BY <2>1
  <2>4. PagesOf(call.h)' = PagesOf(call.h) /\ \A q : SlotsOf(q)' = SlotsOf(q)
    BY <2>3 DEF PagesOf, SlotsOf
  <2> QED BY <2>2, <2>3, <2>4, SMTT(30) DEF DivertedStays
<1> QED BY <1>1, <1>2, <1>3 DEF Next

LEMMA PassedReadyStep ==
  ASSUME LoopInv, Next
  PROVE  PassedReady'
<1>0. TypeOK /\ CallOK /\ PassedReady
  BY DEF LoopInv, Structure
<1>t. call \in Call
  BY <1>0 DEF TypeOK
<1>1. CASE call'.op # "install"
  BY <1>1 DEF PassedReady
<1>2. CASE ClientCall /\ call'.op = "install"
  <2>1. PICK h \in Handles : Start(h, "install")
    BY <1>0, <1>2, CallStarts
  <2>2. call' = [op |-> "install", h |-> h, pi |-> 1, ei |-> 1, pc |-> "page"] /\ page_list' = page_list
    BY <2>1 DEF Start, handleVars
  <2>3. \A j \in DOMAIN page_list[h] : ~(j < 1)
    BY <1>0 DEF TypeOK
  <2> QED BY <2>2, <2>3 DEF PassedReady
<1>3. CASE Step /\ call'.op = "install"
  <2>0. page_list' = page_list /\ call' # Idle
    BY <1>3, StepFrame DEF Idle
  <2>r. call.pc # "idle" /\ call.pc # "crashed"
    BY <1>3 DEF Step, UnprotectBegin, WriteCode, UnprotectEnd, PageProtect, InstallNextPage,
         InstallReturn, UninstallPage, UninstallLastEntry, PageUnprotect, UninstallReturn
  <2>h. call.h \in Handles
    BY <1>0, <2>r DEF CallOK, Running, TypeOK
  <2>p. /\ call.pi \in Nat
        /\ \A j \in DOMAIN page_list[call.h] : j \in Nat /\ page_list[call.h][j] \in Pages
    BY <1>0, <1>t, <2>h DEF TypeOK, Call
  <2>1. CASE PageProtect
    <3>1. /\ prot' = [prot EXCEPT ![page] = "rx"] /\ call' = [call EXCEPT !.pc = "entry", !.ei = 1]
          /\ call.op = "install" /\ call.pi \in DOMAIN page_list[call.h]
      BY <2>0, <2>1 DEF PageProtect, GiveUp
    <3>2. call'.h = call.h /\ call'.pi = call.pi /\ page \in Pages
      BY <1>t, <2>p, <3>1 DEF Call, page
    <3>3. ASSUME NEW j \in DOMAIN page_list[call.h], j < call.pi \/ j = call.pi
          PROVE  prot'[page_list[call.h][j]] = "rx"
      BY <1>0, <2>p, <3>1, <3>2, <3>3 DEF PassedReady, TypeOK, page
    <3> QED BY <2>0, <3>2, <3>3 DEF PassedReady
  <2>2. CASE UnprotectBegin \/ WriteCode \/ UnprotectEnd
    <3>1. /\ prot' = prot /\ call.pc # "page"
          /\ call'.op = call.op /\ call'.h = call.h /\ call'.pi = call.pi
      BY <1>t, <2>0, <2>2 DEF UnprotectBegin, WriteCode, UnprotectEnd, GiveUp, pageVars, Call
    <3> QED BY <1>0, <1>3, <2>0, <3>1 DEF PassedReady
  <2>3. CASE InstallNextPage
    <3>1. /\ prot' = prot /\ call.pc = "entry" /\ call.op = "install"
          /\ call'.h = call.h /\ call'.pi = call.pi + 1 /\ call'.pc = "page"
      BY <1>t, <2>3 DEF InstallNextPage, pageVars, Call
    <3>2. \A j \in DOMAIN page_list[call.h] : j < call.pi + 1 => j < call.pi \/ j = call.pi
      BY <2>p
    <3> QED BY <1>0, <2>0, <3>1, <3>2 DEF PassedReady
  <2>4. ~(InstallReturn \/ UninstallReturn)
    BY <2>0 DEF InstallReturn, UninstallReturn, Finish
  <2>5. ~(UninstallPage \/ UninstallLastEntry \/ PageUnprotect)
    <3>1. UninstallPage \/ UninstallLastEntry \/ PageUnprotect => call.op = "uninstall" /\ call'.op = call.op
      BY <1>0, <1>t DEF UninstallPage, UninstallLastEntry, PageUnprotect, CallOK, Call
    <3> QED BY <1>3, <3>1
  <2> QED BY <1>3, <2>1, <2>2, <2>3, <2>4, <2>5 DEF Step
<1> QED BY <1>1, <1>2, <1>3 DEF Next

\* installed changes when install or uninstall returns success.
LEMMA InstalledStep ==
  ASSUME LoopInv, Next, NEW h \in Handles
  PROVE  \/ installed'[h] = installed[h]
         \/ InstallReturn /\ h = call.h /\ installed'[h]
         \/ UninstallReturn /\ h = call.h /\ ~installed'[h]
<1>0. TypeOK /\ FreedNotInstalled
  BY DEF LoopInv, Structure
<1>1. CASE UNCHANGED installed
  BY <1>1
<1>2. ASSUME NEW g \in Handles, Create(g) PROVE installed'[h] = installed[h]
  BY <1>0, <1>2 DEF Create, TypeOK, FreedNotInstalled
<1>3. CASE InstallReturn
  BY <1>0, <1>3 DEF InstallReturn, Finish, TypeOK
<1>4. CASE UninstallReturn
  BY <1>0, <1>4 DEF UninstallReturn, Finish, TypeOK
<1>5. UNCHANGED installed \/ (\E g \in Handles : Create(g)) \/ InstallReturn \/ UninstallReturn
  BY DEF Next, ClientCall, Step, Destroy, FreeHandle, Refuse, Prepare, PrepareReuse,
         PrepareNewPage, PrepareNoSpace, PrepareFails, InstallCall, UninstallCall, Start,
         UnprotectBegin, WriteCode, UnprotectEnd, PageProtect, InstallNextPage, GiveUp,
         UninstallPage, UninstallLastEntry, PageUnprotect, handleVars
<1> QED BY <1>1, <1>2, <1>3, <1>4, <1>5

LEMMA FreedNotInstalledStep ==
  ASSUME LoopInv, Next
  PROVE  FreedNotInstalled'
<1>0. Structure /\ TypeOK /\ CallOK /\ FreedNotInstalled
  BY DEF LoopInv, Structure
<1>1. ASSUME NEW h \in Handles, installed'[h], h \notin live' PROVE FALSE
  <2>1. h \in live
    <3>1. InstallReturn => call.h \in live
      BY <1>0 DEF InstallReturn, CallOK, Running
    <3> QED BY <1>0, <1>1, <3>1, InstalledStep DEF FreedNotInstalled
  <2>2. PICK g \in Handles : ~installed[g] /\ FreeHandle(g)
    BY <1>1, <2>1 DEF Next, ClientCall, Step, Create, Destroy, Refuse, Prepare, PrepareReuse,
         PrepareNewPage, PrepareNoSpace, PrepareFails, InstallCall, UninstallCall, Start,
         UnprotectBegin, WriteCode, UnprotectEnd, PageProtect, InstallNextPage, InstallReturn,
         GiveUp, UninstallPage, UninstallLastEntry, PageUnprotect, UninstallReturn, Finish, handleVars
  <2> QED BY <1>1, <2>1, <2>2 DEF FreeHandle
<1> QED BY <1>1 DEF FreedNotInstalled

\* What install has done in its loop, for every client and every failure.
THEOREM LoopInvariance == Spec => []LoopInv
<1>1. Init => LoopInv
  BY InitStructure DEF Init, LoopInv, DivertedStays, PassedReady, FreedNotInstalled, Idle
<1>2. LoopInv /\ [Next]_vars => LoopInv'
  <2>1. ASSUME LoopInv, Next PROVE LoopInv'
    BY <2>1, TypeOKStep, CallOKStep, OwnedStep, DivertedStaysStep, PassedReadyStep, FreedNotInstalledStep
    DEF LoopInv, Structure
  <2>2. ASSUME LoopInv, UNCHANGED vars PROVE LoopInv'
    <3>1. UNCHANGED <<live, installed, page_list, failed, entries, prot, code, os, tprot, patch_prot, protect, call, rv>>
      BY <2>2 DEF vars, handleVars, pageVars, targetVars
    <3>2. Structure'
      BY <2>2, <3>1 DEF LoopInv, Structure, TypeOK, CallOK, Running, PagesOwnedOnce, PagesOf, SlotsOf, page
    <3>3. DivertedStays
      BY <2>2 DEF LoopInv
    <3>4. page_list' = page_list /\ entries' = entries /\ code' = code /\ call' = call
      BY <3>1
    <3>5. DivertedStays'
      <4>1. \A j, i : Handled(j, i)' <=> Handled(j, i)
        BY <3>4 DEF Handled
      <4>2. PagesOf(call.h)' = PagesOf(call.h) /\ \A q : SlotsOf(q)' = SlotsOf(q)
        BY <3>4 DEF PagesOf, SlotsOf
      <4> QED BY <3>3, <3>4, <4>1, <4>2 DEF DivertedStays
    <3>6. PassedReady'
      BY <2>2, <3>1 DEF LoopInv, PassedReady
    <3> QED BY <2>2, <3>1, <3>2, <3>5, <3>6 DEF LoopInv, FreedNotInstalled
  <2> QED BY <2>1, <2>2
<1> QED BY <1>1, <1>2, PTL DEF Spec

\* For every client, whatever failed before: when install returns success
\* every target of the handle is diverted into it and every page of the handle
\* is executable (funchook.c:378-414).
THEOREM InstallCompleteTheorem == Spec => InstallComplete
<1>1. LoopInv /\ [Next]_vars =>
        [\A h \in Handles : ~installed[h] /\ installed'[h] =>
           /\ \A t \in TargetsOf(h) : code'[t].page \in PagesOf(h)
           /\ \A p \in PagesOf(h) : prot'[p] = "rx"]_vars
  <2> SUFFICES ASSUME LoopInv, Next,
                      NEW h \in Handles, ~installed[h], installed'[h]
               PROVE  /\ \A t \in TargetsOf(h) : code'[t].page \in PagesOf(h)
                      /\ \A p \in PagesOf(h) : prot'[p] = "rx"
    OBVIOUS
  <2>0. TypeOK /\ CallOK /\ DivertedStays /\ PassedReady
    BY DEF LoopInv, Structure
  <2>1. InstallReturn /\ h = call.h
    BY InstalledStep
  <2>2. code' = code /\ prot' = prot
    BY <2>1 DEF InstallReturn, Finish, targetVars, pageVars
  <2>3. ASSUME NEW t \in TargetsOf(h) PROVE code'[t].page \in PagesOf(h)
    <3>1. PICK p \in PagesOf(h) : \E i \in SlotsOf(p) : entries[p][i].target = t
      BY DEF TargetsOf
    <3>2. PICK i \in SlotsOf(p) : entries[p][i].target = t
      BY <3>1
    <3>3. PICK j \in DOMAIN page_list[h] : p = page_list[h][j]
      BY <3>1 DEF PagesOf
    <3>4. Handled(j, i)
      BY <2>0, <2>1, <3>3, AllHandled DEF InstallReturn, Running
    <3> QED BY <2>0, <2>1, <2>2, <3>2, <3>3, <3>4 DEF DivertedStays, InstallReturn
  <2>4. ASSUME NEW p \in PagesOf(h) PROVE prot'[p] = "rx"
    <3>1. PICK j \in DOMAIN page_list[h] : p = page_list[h][j]
      BY DEF PagesOf
    <3>2. j < call.pi
      <4>1. /\ page_list[h] \in Seq(Pages) /\ call.pi \in Nat /\ call.pi > 0
            /\ call.pi \notin DOMAIN page_list[h]
        BY <2>0, <2>1 DEF TypeOK, Call, CallOK, InstallReturn
      <4>2. DOMAIN page_list[h] = 1 .. Len(page_list[h]) /\ Len(page_list[h]) \in Nat
        BY <4>1
      <4> QED BY <4>1, <4>2
    <3> QED BY <2>0, <2>1, <2>2, <3>1, <3>2 DEF PassedReady, InstallReturn
  <2> QED BY <2>3, <2>4
<1> QED BY <1>1, LoopInvariance, PTL DEF Spec, InstallComplete
-----------------------------------------------------------------------------
(***************************************************************************)
(* Pages that may be filled.  A handle that is not installed has only      *)
(* writable pages because uninstall makes them so one after the other, and *)
(* an install that gives up leaves the handle marked failed.               *)
(***************************************************************************)

Reopened ==
  call.op = "uninstall" =>
    \A j \in DOMAIN page_list[call.h] : j < call.pi => prot[page_list[call.h][j]] = "rw"

Writable ==
  \A h \in live :
    ~installed[h] /\ ~failed[h] /\ ~(call.op = "install" /\ call.h = h) =>
      \A p \in PagesOf(h) : prot[p] = "rw"

FillInv == LoopInv /\ Reopened /\ Writable /\ PrepareNeverCrashes

\* A step that does not return changes no handle.
LEMMA CallGoesOn ==
  ASSUME Structure, Step, call' # Idle
  PROVE  UNCHANGED <<live, installed, page_list, failed>> /\ call'.op = call.op /\ call'.h = call.h
<1>1. ~GiveUp /\ ~InstallReturn /\ ~UninstallReturn
  BY DEF GiveUp, InstallReturn, UninstallReturn, Finish
<1>2. UNCHANGED <<live, installed, page_list, failed>>
  BY <1>1 DEF Step, UnprotectBegin, WriteCode, UnprotectEnd, PageProtect, InstallNextPage,
       UninstallPage, UninstallLastEntry, PageUnprotect, handleVars
<1> QED BY <1>2, HandledStep

\* A step returns from the call or goes on with it.
LEMMA StepReturns ==
  ASSUME Structure, Step
  PROVE  \/ GiveUp \/ InstallReturn \/ UninstallReturn
         \/ call'.pc \in {"page", "entry", "write", "end", "unprotect"}
<1>0. call \in Call
  BY DEF Structure, TypeOK
<1>1. \A pc, n : [call EXCEPT !.pc = pc, !.ei = n].pc = pc
  BY <1>0 DEF Call
<1>2. \A pc, n : [call EXCEPT !.pc = pc, !.pi = n].pc = pc
  BY <1>0 DEF Call
<1>3. \A pc : [call EXCEPT !.pc = pc].pc = pc
  BY <1>0 DEF Call
<1>4. CASE UnprotectBegin \/ WriteCode \/ UninstallLastEntry
  BY <1>3, <1>4 DEF UnprotectBegin, WriteCode, UninstallLastEntry
<1>5. CASE UnprotectEnd \/ PageProtect \/ UninstallPage
  <2>1. [call EXCEPT !.pc = "entry", !.ei = @ + 1].pc = "entry" /\ [call EXCEPT !.pc = "entry", !.ei = 1].pc = "entry"
    BY <1>1
  <2> QED BY <1>5, <2>1 DEF UnprotectEnd, PageProtect, UninstallPage
<1>6. CASE InstallNextPage \/ PageUnprotect
  BY <1>2, <1>6 DEF InstallNextPage, PageUnprotect
<1> QED BY <1>4, <1>5, <1>6 DEF Step

\* Only install and uninstall change the protection of pages that stay mapped.
LEMMA OnlyProtects ==
  ASSUME Step, ~PageProtect, ~PageUnprotect
  PROVE  UNCHANGED prot
BY DEF Step, UnprotectBegin, WriteCode, UnprotectEnd, InstallNextPage, InstallReturn,
       UninstallPage, UninstallLastEntry, UninstallReturn, Finish, pageVars

LEMMA ReopenedStep ==
  ASSUME FillInv, Next, "page_unprotect" \notin UninstallFaults
  PROVE  Reopened'
<1>0. Structure /\ TypeOK /\ CallOK /\ PagesOwnedOnce /\ Reopened
  BY DEF FillInv, LoopInv, Structure
<1>t. call \in Call /\ call.pi \in Nat
  BY <1>0 DEF TypeOK, Call
<1>1. CASE ClientCall
  <2>1. CASE call'.op # "uninstall"
    BY <2>1 DEF Reopened
  <2>2. CASE call'.op = "uninstall"
    <3>1. PICK h \in Handles : Start(h, "uninstall")
      BY <1>0, <1>1, <2>2, CallStarts
    <3>2. call'.h = h /\ call'.pi = 1 /\ page_list' = page_list
      BY <3>1 DEF Start, handleVars
    <3>3. \A j \in DOMAIN page_list[h] : j \in Nat /\ ~(j < 1)
      BY <1>0 DEF TypeOK
    <3> QED BY <3>2, <3>3 DEF Reopened
  <2> QED BY <2>1, <2>2
<1>2. CASE call' = Idle
  BY <1>2 DEF Reopened, Idle
<1>3. CASE Step /\ call' # Idle
  <2>1. UNCHANGED <<live, installed, page_list, failed>> /\ call'.op = call.op /\ call'.h = call.h
    BY <1>0, <1>3, CallGoesOn
  <2>2. CASE call.op # "uninstall"
    BY <2>1, <2>2 DEF Reopened
  <2>3. CASE call.op = "uninstall" /\ ~PageUnprotect
    <3>1. ~PageProtect /\ ~InstallNextPage
      BY <2>3 DEF PageProtect, InstallNextPage
    <3>2. prot' = prot
      BY <1>3, <2>3, <3>1, OnlyProtects
    <3>3. call'.pi = call.pi
      BY <1>t, <1>3, <2>3, <3>1 DEF Step, UnprotectBegin, WriteCode, UnprotectEnd, UninstallPage,
         UninstallLastEntry, InstallReturn, UninstallReturn, Finish, GiveUp, Call
    <3> QED BY <1>0, <2>1, <2>3, <3>2, <3>3 DEF Reopened
  <2>4. CASE PageUnprotect
    <3>1. /\ call.op = "uninstall" /\ call.h \in Handles /\ call.pi \in DOMAIN page_list[call.h]
          /\ page_list[call.h] \in Seq(Pages)
      BY <1>0, <2>4 DEF PageUnprotect, CallOK, Running, TypeOK
    <3>2. call'.pi = call.pi + 1
      BY <1>t, <2>4 DEF PageUnprotect, Call
    <3>3. prot' = [prot EXCEPT ![page] = "rw"]
      BY <2>4, <3>1 DEF PageUnprotect, Faults
    <3>4. ASSUME NEW j \in DOMAIN page_list[call.h], j < call.pi + 1
          PROVE  prot'[page_list[call.h][j]] = "rw"
      <4>1. j \in Nat /\ page_list[call.h][j] \in Pages
        BY <3>1
      <4>2. CASE j = call.pi
        BY <1>0, <3>3, <4>1, <4>2 DEF page, TypeOK
      <4>3. CASE j < call.pi
        <5>1. prot[page_list[call.h][j]] = "rw"
          BY <1>0, <3>1, <4>3 DEF Reopened
        <5> QED BY <1>0, <3>3, <4>1, <5>1 DEF TypeOK
      <4> QED BY <1>t, <3>4, <4>1, <4>2, <4>3
    <3> QED BY <2>1, <3>2, <3>4 DEF Reopened
  <2> QED BY <2>2, <2>3, <2>4
<1> QED BY <1>1, <1>2, <1>3 DEF Next

\* When uninstall is about to return, every page of the handle is writable.
LEMMA ReopenedAll ==
  ASSUME FillInv, UninstallReturn
  PROVE  \A p \in PagesOf(call.h) : prot[p] = "rw"
<1>1. TypeOK /\ CallOK /\ Reopened /\ call.op = "uninstall" /\ Running
  BY DEF FillInv, LoopInv, Structure, UninstallReturn, Running
<1>2. call.h \in Handles /\ call.pi \in Nat /\ call.pi > 0 /\ call.pi \notin DOMAIN page_list[call.h]
  BY <1>1 DEF TypeOK, CallOK, Call, UninstallReturn
<1>3. page_list[call.h] \in Seq(Pages)
  BY <1>1, <1>2 DEF TypeOK
<1>4. \A j \in DOMAIN page_list[call.h] : j < call.pi
  BY <1>2, <1>3
<1> QED BY <1>1, <1>4 DEF Reopened, PagesOf

LEMMA WritableStep ==
  ASSUME FillInv, Next
  PROVE  Writable'
<1>0. Structure /\ TypeOK /\ CallOK /\ PagesOwnedOnce /\ Writable
  BY DEF FillInv, LoopInv, Structure
<1>p. \A h \in live : PagesOf(h) \subseteq Pages
  BY <1>0, PagesOfTyped DEF TypeOK
\* A handle that was fillable before, and whose pages keep their protection.
<1>a. ASSUME \A h \in live' :
               ~installed'[h] /\ ~failed'[h] /\ ~(call'.op = "install" /\ call'.h = h) =>
                 /\ h \in live /\ ~installed[h] /\ ~failed[h] /\ ~(call.op = "install" /\ call.h = h)
                 /\ PagesOf(h)' = PagesOf(h)
                 /\ \A p \in PagesOf(h) : prot[p] = "rw" => prot'[p] = "rw"
      PROVE  Writable'
  BY <1>0, <1>a DEF Writable
<1>1. ASSUME NEW g \in Handles, Create(g) PROVE Writable'
  <2>1. /\ g \notin live /\ live' = live \cup {g} /\ UNCHANGED <<prot, call>>
        /\ page_list'[g] = <<>>
        /\ \A h \in live : page_list'[h] = page_list[h] /\ installed'[h] = installed[h] /\ failed'[h] = failed[h]
    BY <1>0, <1>1 DEF Create, TypeOK, pageVars
  <2>2. PagesOf(g)' = {} /\ \A h \in live : PagesOf(h)' = PagesOf(h)
    BY <2>1 DEF PagesOf
  <2> QED BY <1>0, <2>1, <2>2 DEF Writable
<1>2. ASSUME NEW g \in Handles, Destroy(g) PROVE Writable'
  <2>1. CASE FreeHandle(g)
    <3>1. /\ live' = live \ {g} /\ g \in live
          /\ UNCHANGED <<installed, failed, call>>
          /\ \A p \in Pages : p \notin PagesOf(g) => prot'[p] = prot[p]
      BY <1>2, <2>1 DEF FreeHandle, Destroy, Calls
    <3>2. \A h \in live' : PagesOf(h)' = PagesOf(h)
      BY <1>0, <2>1, <3>1 DEF FreeHandle, TypeOK, PagesOf
    <3>3. \A h \in live' : \A p \in PagesOf(h) : p \notin PagesOf(g)
      BY <1>0, <3>1 DEF PagesOwnedOnce, PagesOf
    <3> QED BY <1>a, <1>p, <3>1, <3>2, <3>3
  <2>2. CASE UNCHANGED <<handleVars, pageVars, call>>
    BY <2>2, <1>a DEF handleVars, pageVars, PagesOf
  <2> QED BY <1>2, <2>1, <2>2 DEF Destroy, Refuse
<1>3. ASSUME NEW g \in Handles, NEW u \in Targets, Prepare(g, u) PROVE Writable'
  <2>0. call.op = "none" /\ g \in live
    BY <1>0, <1>3 DEF Prepare, Calls, CallOK, Running
  <2>1. CASE UNCHANGED <<handleVars, prot>>
    <3>1. UNCHANGED <<live, installed, page_list, failed, prot>>
      BY <2>1 DEF handleVars
    <3> QED BY <1>a, <2>0, <3>1 DEF PagesOf
  <2>2. CASE ~installed[g] /\ PrepareNewPage(g, u)
    <3>1. PICK q \in Pages : /\ prot[q] = "none"
                             /\ page_list' = [page_list EXCEPT ![g] = <<q>> \o @]
                             /\ FillNewPage(q, u)
      BY <2>2 DEF PrepareNewPage
    <3>2. UNCHANGED <<live, installed, failed, call>>
      BY <2>2 DEF PrepareNewPage, FillNewPage
    <3>3. \A p \in Pages : prot'[p] = IF p = q THEN "rw" ELSE prot[p]
      BY <1>0, <3>1 DEF FillNewPage, TypeOK
    <3>4. \A h \in live : h # g => PagesOf(h)' = PagesOf(h)
      BY <1>0, <3>1 DEF TypeOK, PagesOf
    <3>5. PagesOf(g)' \subseteq PagesOf(g) \cup {q}
      <4>1. page_list'[g] = <<q>> \o page_list[g] /\ page_list[g] \in Seq(Pages)
        BY <1>0, <3>1 DEF TypeOK
      <4>2. ASSUME NEW j \in DOMAIN page_list'[g] PROVE page_list'[g][j] \in PagesOf(g) \cup {q}
        BY <4>1, Prepend DEF PagesOf
      <4> QED BY <4>2 DEF PagesOf
    <3> QED BY <1>0, <1>p, <2>0, <3>2, <3>3, <3>4, <3>5 DEF Writable
  <2> QED BY <1>3, <2>1, <2>2 DEF Prepare, PrepareReuse, PrepareNoSpace, PrepareFails, Refuse, pageVars
<1>4. ASSUME NEW g \in Handles, InstallCall(g) \/ UninstallCall(g) PROVE Writable'
  <2>1. call.op = "none" /\ UNCHANGED <<live, installed, page_list, failed, prot>>
    BY <1>0, <1>4 DEF InstallCall, UninstallCall, Calls, Refuse, Start, CallOK, Running, handleVars, pageVars
  <2> QED BY <1>a, <2>1 DEF PagesOf
<1>5. CASE Step /\ call' # Idle
  <2>1. UNCHANGED <<live, installed, page_list, failed>> /\ call'.op = call.op /\ call'.h = call.h
    BY <1>0, <1>5, CallGoesOn
  <2>2. CASE UNCHANGED prot
    BY <1>a, <2>1, <2>2 DEF PagesOf
  <2>3. CASE PageProtect
    <3>1. call.op = "install" /\ call.h \in live /\ page \in PagesOf(call.h) /\ page \in Pages
      BY <1>0, <2>3 DEF PageProtect, CallOK, Running, PagesOf, page, TypeOK
    <3>2. \A p \in Pages : p # page => prot'[p] = prot[p]
      BY <1>0, <2>3 DEF PageProtect, TypeOK
    <3>3. \A h \in live : h # call.h => page \notin PagesOf(h)
      BY <1>0, <3>1 DEF PagesOwnedOnce, PagesOf
    <3>4. \A h \in live : PagesOf(h)' = PagesOf(h)
      BY <2>1 DEF PagesOf
    <3> QED BY <1>a, <1>p, <2>1, <3>1, <3>2, <3>3, <3>4
  <2>4. CASE PageUnprotect
    <3>1. \A p \in Pages : prot[p] = "rw" => prot'[p] = "rw"
      BY <1>0, <2>4 DEF PageUnprotect, TypeOK
    <3>2. \A h \in live : PagesOf(h)' = PagesOf(h)
      BY <2>1 DEF PagesOf
    <3> QED BY <1>a, <1>p, <2>1, <3>1, <3>2
  <2> QED BY <1>5, <2>2, <2>3, <2>4, OnlyProtects
<1>6. CASE Step /\ GiveUp
  <2>1. Running /\ UNCHANGED <<live, installed, page_list, prot>>
    BY <1>0, <1>6 DEF Step, GiveUp, Running, UnprotectBegin, WriteCode, UnprotectEnd, PageProtect, InstallNextPage,
       UninstallPage, UninstallLastEntry, PageUnprotect, InstallReturn, UninstallReturn, Finish, pageVars, Idle, TypeOK, Call
  <2>2. \A h \in live : ~failed'[h] => ~failed[h] /\ h # call.h
    BY <1>0, <1>6, <2>1 DEF GiveUp, TypeOK, CallOK
  <2> QED BY <1>a, <2>1, <2>2 DEF PagesOf
<1>7. CASE InstallReturn
  <2>1. UNCHANGED <<live, page_list, prot>> /\ call.h \in live
    BY <1>0, <1>7 DEF InstallReturn, Finish, pageVars, CallOK, Running
  <2>2. \A h \in live : ~installed'[h] /\ ~failed'[h] => ~installed[h] /\ ~failed[h] /\ h # call.h
    BY <1>0, <1>7, <2>1 DEF InstallReturn, Finish, TypeOK
  <2> QED BY <1>a, <2>1, <2>2 DEF PagesOf
<1>8. CASE UninstallReturn
  <2>1. UNCHANGED <<live, page_list, prot>> /\ call.h \in live /\ call.op = "uninstall"
    BY <1>0, <1>8 DEF UninstallReturn, Finish, pageVars, CallOK, Running
  <2>2. \A h \in live : h # call.h => installed'[h] = installed[h] /\ failed'[h] = failed[h]
    BY <1>0, <1>8, <2>1 DEF UninstallReturn, Finish, TypeOK
  <2>3. \A p \in PagesOf(call.h) : prot[p] = "rw"
    BY <1>8, ReopenedAll
  <2> QED BY <1>0, <2>1, <2>2, <2>3 DEF Writable, PagesOf
<1>9. Step /\ call' = Idle => GiveUp \/ InstallReturn \/ UninstallReturn
  BY <1>0, StepReturns DEF Idle
<1> QED BY <1>1, <1>2, <1>3, <1>4, <1>5, <1>6, <1>7, <1>8, <1>9 DEF Next, ClientCall

LEMMA NoCrashStep ==
  ASSUME FillInv, Next, "finish_install" \in Discipline
  PROVE  PrepareNeverCrashes'
<1>0. Structure /\ TypeOK /\ CallOK /\ Writable /\ PrepareNeverCrashes
  BY DEF FillInv, LoopInv, Structure
<1>1. ASSUME NEW h \in Handles, NEW t \in Targets, Prepare(h, t) PROVE UNCHANGED call
  <2>1. CASE ~installed[h] /\ PrepareReuse(h, t)
    <3>1. PICK j \in Candidates(h, t) : FillEntry(page_list[h][j], t)
      BY <2>1 DEF PrepareReuse
    <3>2. page_list[h][j] \in PagesOf(h)
      BY <3>1 DEF Candidates, PagesOf
    <3>3. h \in live /\ ~failed[h] /\ call.op = "none"
      BY <1>0, <1>1, <2>1 DEF Prepare, Calls, FinishInstall, Unfinished, CallOK, Running
    <3>4. prot[page_list[h][j]] = "rw"
      BY <1>0, <2>1, <3>2, <3>3 DEF Writable
    <3> QED BY <3>1, <3>4 DEF FillEntry
  <2> QED BY <1>1, <2>1 DEF Prepare, PrepareNewPage, PrepareNoSpace, PrepareFails, Refuse, FillNewPage
<1>2. CASE ClientCall
  <2>1. UNCHANGED call \/ call'.pc = "page"
    BY <1>1, <1>2 DEF ClientCall, Create, Destroy, FreeHandle, Refuse, InstallCall, UninstallCall, Start
  <2> QED BY <1>0, <2>1 DEF PrepareNeverCrashes
<1>3. CASE Step
  BY <1>0, <1>3, StepReturns DEF InstallReturn, UninstallReturn, Finish, GiveUp, Idle, PrepareNeverCrashes
<1> QED BY <1>2, <1>3 DEF Next

\* For a client that finishes failed installs, when making a page writable
\* again does not fail.
THEOREM FillInvariance ==
  ASSUME "finish_install" \in Discipline, "page_unprotect" \notin UninstallFaults
  PROVE  Spec => []FillInv
<1>1. Init => Reopened /\ Writable /\ PrepareNeverCrashes
  BY DEF Init, Reopened, Writable, PrepareNeverCrashes, Idle
<1>2. LoopInv' /\ FillInv /\ [Next]_vars => FillInv'
  <2>1. ASSUME LoopInv', FillInv, Next PROVE FillInv'
    BY <2>1, ReopenedStep, WritableStep, NoCrashStep DEF FillInv
  <2>2. ASSUME LoopInv', FillInv, UNCHANGED vars PROVE FillInv'
    <3>1. UNCHANGED <<live, installed, page_list, failed, prot, call>>
      BY <2>2 DEF vars, handleVars, pageVars
    <3> QED BY <2>2, <3>1 DEF FillInv, Reopened, Writable, PrepareNeverCrashes, PagesOf
  <2> QED BY <2>1, <2>2
<1>3. LoopInv /\ Reopened /\ Writable /\ PrepareNeverCrashes => FillInv
  BY DEF FillInv
<1> QED BY <1>1, <1>2, <1>3, LoopInvariance, PTL DEF Spec

\* For every client that finishes failed installs, prepare never dies on a
\* store into a page protected for execution (funchook.c:312-320).  That a page
\* can be made writable again must be assumed: funchook_uninstall does not look
\* at the result (funchook.c:445).
THEOREM PrepareNeverCrashesTheorem ==
  ASSUME "finish_install" \in Discipline, "page_unprotect" \notin UninstallFaults
  PROVE  Spec => []PrepareNeverCrashes
<1>1. FillInv => PrepareNeverCrashes
  BY DEF FillInv
<1> QED BY <1>1, FillInvariance, PTL

\* For every disciplined client, when uninstall returns success no target is
\* diverted into the handle, and its pages can be filled again.
THEOREM UninstallCompleteTheorem ==
  ASSUME Disciplined, "page_unprotect" \notin UninstallFaults
  PROVE  Spec => UninstallComplete
<1>1. IInv /\ FillInv /\ [Next]_vars =>
        [\A h \in Handles : installed[h] /\ ~installed'[h] =>
           /\ \A t \in Targets : code'[t].page \notin PagesOf(h)
           /\ \A p \in PagesOf(h) : prot'[p] = "rw"]_vars
  <2> SUFFICES ASSUME IInv, FillInv, Next,
                      NEW h \in Handles, installed[h], ~installed'[h]
               PROVE  /\ \A t \in Targets : code'[t].page \notin PagesOf(h)
                      /\ \A p \in PagesOf(h) : prot'[p] = "rw"
    OBVIOUS
  <2>1. UninstallReturn /\ h = call.h
    BY InstalledStep DEF FillInv
  <2>2. code' = code /\ prot' = prot
    BY <2>1 DEF UninstallReturn, Finish, targetVars, pageVars
  <2> QED BY <2>1, <2>2, NothingJumpsBack, ReopenedAll
<1>2. "finish_install" \in Discipline
  BY DEF Disciplined
<1> QED BY <1>1, <1>2, Invariance, FillInvariance, PTL DEF Spec, UninstallComplete
-----------------------------------------------------------------------------
(***************************************************************************)
(* Funchook implements HookSpec.  A page belongs to one handle, so a jump  *)
(* leads to one handle; IInv makes it an engaged one, and the pages of an  *)
(* engaged handle stay its own.                                            *)
(***************************************************************************)

EngagedHandles == {h \in Handles : Engaged(h)}
Routes == [t \in Targets |-> Owner(code[t])]

LEMMA OwnerIs ==
  ASSUME Structure, NEW c, NEW h \in live, c.page \in PagesOf(h)
  PROVE  Owner(c) = h
<1>1. c.page # NoPage
  BY PagesOfTyped DEF Structure, TypeOK
<1>2. \A g \in live : c.page \in PagesOf(g) => g = h
  BY DEF Structure, PagesOwnedOnce, PagesOf
<1>3. (CHOOSE g \in live : c.page \in PagesOf(g)) = h
  BY <1>2
<1> QED BY <1>1, <1>3 DEF Owner

LEMMA OriginalOwner == Owner(Original) = NoHandle
BY DEF Owner, Original

\* A landing leads to an engaged handle, or is the program's own code.
LEMMA SoundOwner ==
  ASSUME Structure, NEW c, NEW t, Sound(c, t)
  PROVE  \/ c = Original /\ Owner(c) = NoHandle
         \/ Owner(c) \in live /\ Engaged(Owner(c)) /\ c.page \in PagesOf(Owner(c))
<1>1. CASE c = Original
  BY <1>1, OriginalOwner
<1>2. CASE c # Original
  <2>1. PICK h \in live : Engaged(h) /\ c.page \in PagesOf(h)
    BY <1>2 DEF Sound
  <2>2. Owner(c) = h
    BY <2>1, OwnerIs
  <2> QED BY <2>1, <2>2
<1> QED BY <1>1, <1>2

\* An engaged handle is neither freed nor does it lose a page.
LEMMA EngagedKeepsPages ==
  ASSUME Structure, Next, "finish_install" \in Discipline,
         NEW h \in live, Engaged(h)
  PROVE  h \in live' /\ PagesOf(h) \subseteq PagesOf(h)'
<1>0. TypeOK /\ CallOK /\ h \in Handles
  BY DEF Structure, TypeOK
<1>1. CASE Step
  BY <1>1, StepFrame DEF PagesOf
<1>2. ASSUME NEW g \in Handles, Create(g) PROVE h \in live' /\ page_list'[h] = page_list[h]
  BY <1>0, <1>2 DEF Create, TypeOK
<1>3. ASSUME NEW g \in Handles, Destroy(g) PROVE h \in live' /\ page_list'[h] = page_list[h]
  <2>1. CASE ~installed[g] /\ FreeHandle(g)
    <3>1. ~Engaged(g)
      BY <1>0, <1>3, <2>1 DEF Destroy, Calls, FinishInstall, Engaged, CallOK, Running
    <3> QED BY <1>0, <2>1, <3>1 DEF FreeHandle, TypeOK
  <2> QED BY <1>3, <2>1 DEF Destroy, Refuse, handleVars
<1>4. ASSUME NEW g \in Handles, NEW u \in Targets, Prepare(g, u)
      PROVE  h \in live' /\ page_list'[h] = page_list[h]
  <2>1. CASE ~installed[g] /\ PrepareNewPage(g, u)
    <3>1. ~Engaged(g)
      BY <1>0, <1>4, <2>1 DEF Prepare, Calls, FinishInstall, Engaged, CallOK, Running
    <3> QED BY <1>0, <2>1, <3>1 DEF PrepareNewPage, TypeOK
  <2> QED BY <1>4, <2>1 DEF Prepare, PrepareReuse, PrepareNoSpace, PrepareFails, Refuse, handleVars
<1>5. ASSUME NEW g \in Handles, InstallCall(g) \/ UninstallCall(g)
      PROVE  h \in live' /\ page_list'[h] = page_list[h]
  BY <1>5 DEF InstallCall, UninstallCall, Refuse, Start, handleVars
<1>6. CASE h \in live' /\ page_list'[h] = page_list[h]
  BY <1>6 DEF PagesOf
<1> QED BY <1>1, <1>2, <1>3, <1>4, <1>5, <1>6 DEF Next, ClientCall

\* A target that is not written keeps its route.
LEMMA RouteStays ==
  ASSUME IInv, Structure', Next, Disciplined, NEW t \in Targets, code'[t] = code[t]
  PROVE  Owner(code[t])' = Owner(code[t])
<1>0. Structure /\ Sound(code[t], t)
  BY DEF IInv, JumpInv, CodeSound
<1>1. ASSUME NEW c, c = code[t] PROVE Owner(c)' = Owner(c)
  <2>1. CASE c = Original
    <3>1. Owner(c)' = NoHandle
      BY <2>1 DEF Owner, Original
    <3> QED BY <2>1, <3>1, OriginalOwner
  <2>2. CASE c # Original
    <3>1. PICK h \in live : Engaged(h) /\ c.page \in PagesOf(h)
      BY <1>0, <1>1, <2>2 DEF Sound
    <3>2. h \in live' /\ c.page \in PagesOf(h)'
      BY <1>0, <3>1, EngagedKeepsPages DEF Disciplined
    <3>3. Owner(c) = h
      BY <1>0, <3>1, OwnerIs
    <3>4. \A g \in live' : c.page \in PagesOf(g)' => g = h
      BY <3>2 DEF Structure, PagesOwnedOnce, PagesOf
    <3>5. c.page # NoPage
      BY <1>0, <3>1, PagesOfTyped DEF Structure, TypeOK
    <3>6. (CHOOSE g \in live' : c.page \in PagesOf(g)') = h
      BY <3>2, <3>4
    <3> QED BY <3>3, <3>5, <3>6 DEF Owner
  <2> QED BY <2>1, <2>2
<1> QED BY <1>1 DEF Owner

\* When no target is written no route changes.
LEMMA RoutesStay ==
  ASSUME IInv, Structure', Next, Disciplined, ~WriteCode
  PROVE  Routes' = Routes
<1>1. code' = code
  BY OnlyWriteCode
<1>2. ASSUME NEW t \in Targets PROVE Owner(code[t])' = Owner(code[t])
  BY <1>1, RouteStays
<1> QED BY <1>2 DEF Routes

LEMMA RefinementStep ==
  ASSUME IInv, IInv', Next, Disciplined
  PROVE  Abstract!SpecNext \/ UNCHANGED <<live, EngagedHandles, Routes>>
<1>0. Structure /\ TypeOK /\ CallOK /\ Structure' /\ CodeSound /\ CodeSound'
  BY DEF IInv, JumpInv, Structure
<1>a. ASSUME UNCHANGED live, \A h \in live : Engaged(h)' <=> Engaged(h)
      PROVE  EngagedHandles' = EngagedHandles
  BY <1>a DEF EngagedHandles, Engaged
<1>b. ASSUME UNCHANGED <<live, installed, failed>>,
             call'.op = call.op \/ (call.op # "install" /\ call'.op # "install"), call'.h = call.h \/ call.op # "install"
      PROVE  EngagedHandles' = EngagedHandles
  BY <1>a, <1>b DEF Engaged, Unfinished
<1>s. ASSUME ~WriteCode, UNCHANGED live, EngagedHandles' = EngagedHandles
      PROVE  UNCHANGED <<live, EngagedHandles, Routes>>
  BY <1>0, <1>s, RoutesStay
<1>c. ASSUME ClientCall PROVE ~WriteCode /\ call.op = "none" /\ call.pc = "idle"
  BY <1>0, <1>c, ClientIdle DEF WriteCode
<1>1. ASSUME NEW h \in Handles, Create(h) PROVE Abstract!CreateHandle(h)
  <2>0. ClientCall
    BY <1>1 DEF ClientCall
  <2>1. h \notin live /\ live' = live \cup {h} /\ call' = call
        /\ installed' = [installed EXCEPT ![h] = FALSE] /\ failed' = [failed EXCEPT ![h] = FALSE]
    BY <1>1 DEF Create
  <2>2. \A g \in Handles : Engaged(g)' <=> Engaged(g)
    BY <1>0, <1>c, <2>0, <2>1 DEF Engaged, Unfinished, TypeOK
  <2>3. EngagedHandles' = EngagedHandles
    BY <2>2 DEF EngagedHandles
  <2>4. Routes' = Routes
    BY <1>0, <1>c, <2>0, RoutesStay
  <2> QED BY <2>1, <2>3, <2>4 DEF Abstract!CreateHandle, EngagedHandles, Routes
<1>2. ASSUME NEW h \in Handles, Destroy(h)
      PROVE  Abstract!DestroyHandle(h) \/ UNCHANGED <<live, EngagedHandles, Routes>>
  <2>0. ClientCall
    BY <1>2 DEF ClientCall
  <2>1. CASE ~installed[h] /\ FreeHandle(h)
    <3>1. h \in live /\ ~Engaged(h)
      BY <1>0, <1>c, <1>2, <2>0, <2>1 DEF Destroy, Calls, FinishInstall, Engaged, Disciplined
    <3>2. live' = live \ {h} /\ UNCHANGED <<installed, failed, call>>
      BY <2>1 DEF FreeHandle
    <3>3. EngagedHandles' = EngagedHandles /\ h \notin EngagedHandles
      BY <3>1, <3>2 DEF EngagedHandles, Engaged, Unfinished
    <3>4. Routes' = Routes
      BY <1>0, <1>c, <2>0, RoutesStay
    <3> QED BY <3>1, <3>2, <3>3, <3>4 DEF Abstract!DestroyHandle, EngagedHandles, Routes
  <2>2. CASE UNCHANGED <<handleVars, call>>
    BY <1>b, <1>c, <1>s, <2>0, <2>2 DEF handleVars
  <2> QED BY <1>2, <2>1, <2>2 DEF Destroy, Refuse
<1>3. ASSUME NEW h \in Handles, NEW u \in Targets, Prepare(h, u)
      PROVE  UNCHANGED <<live, EngagedHandles, Routes>>
  <2>0. ClientCall
    BY <1>3 DEF ClientCall
  <2>1. UNCHANGED <<live, installed, failed>>
    BY <1>3 DEF Prepare, PrepareReuse, PrepareNewPage, PrepareNoSpace, PrepareFails, Refuse, handleVars
  <2>2. call' = call \/ call' = [Idle EXCEPT !.pc = "crashed"]
    BY <1>3 DEF Prepare, PrepareReuse, PrepareNewPage, PrepareNoSpace, PrepareFails, Refuse,
                FillEntry, FillNewPage
  <2>3. call'.op = "none"
    BY <1>c, <2>0, <2>2 DEF Idle
  <2> QED BY <1>b, <1>c, <1>s, <2>0, <2>1, <2>3
<1>4. ASSUME NEW h \in Handles, InstallCall(h) \/ UninstallCall(h)
      PROVE  Abstract!Engage(h) \/ UNCHANGED <<live, EngagedHandles, Routes>>
  <2>0. ClientCall
    BY <1>4 DEF ClientCall
  <2>1. UNCHANGED <<live, installed, failed>> /\ h \in live
    BY <1>4 DEF InstallCall, UninstallCall, Calls, Refuse, Start, handleVars
  <2>2. CASE Start(h, "install")
    <3>1. call'.op = "install" /\ call'.h = h
      BY <2>2 DEF Start
    <3>2. EngagedHandles' = EngagedHandles \cup {h}
      BY <1>c, <2>0, <2>1, <3>1 DEF EngagedHandles, Engaged, Unfinished
    <3>3. Routes' = Routes
      BY <1>0, <1>c, <2>0, RoutesStay
    <3> QED BY <2>1, <3>2, <3>3 DEF Abstract!Engage, EngagedHandles, Routes
  <2>3. CASE Start(h, "uninstall") \/ UNCHANGED call
    <3>1. call'.op # "install"
      BY <1>c, <2>0, <2>3 DEF Start
    <3> QED BY <1>b, <1>c, <1>s, <2>0, <2>1, <3>1
  <2> QED BY <1>4, <2>2, <2>3 DEF InstallCall, UninstallCall, Refuse
<1>5. CASE Step /\ call' # Idle /\ ~WriteCode
  BY <1>0, <1>5, <1>b, <1>s, CallGoesOn
<1>6. CASE WriteCode
  <2>1. UNCHANGED <<live, installed, failed>> /\ call'.op = call.op /\ call'.h = call.h
    BY <1>0, <1>6 DEF WriteCode, handleVars, TypeOK, Call
  <2>2. EngagedHandles' = EngagedHandles
    BY <1>b, <2>1
  <2>3. entry.target \in Targets
    BY <1>0, <1>6, CurrentEntry DEF WriteCode
  <2> DEFINE u == entry.target
  <2>4. ASSUME NEW t \in Targets, t = u PROVE Owner(code[t])' \in EngagedHandles \cup {NoHandle}
    <3>1. Sound(code[t], t)'
      BY <1>0 DEF CodeSound
    <3>2. CASE code'[t] = Original
      BY <3>2 DEF Owner, Original
    <3>3. CASE code'[t] # Original
      <4>1. PICK g \in live' : Engaged(g)' /\ code'[t].page \in PagesOf(g)'
        BY <3>1, <3>3 DEF Sound
      <4>2. \A f \in live' : code'[t].page \in PagesOf(f)' => f = g
        BY <1>0, <4>1 DEF Structure, PagesOwnedOnce, PagesOf
      <4>3. (CHOOSE f \in live' : code'[t].page \in PagesOf(f)') = g
        BY <4>1, <4>2
      <4>4. g \in EngagedHandles'
        BY <1>0, <4>1 DEF EngagedHandles, Structure, TypeOK
      <4> QED BY <2>2, <4>3, <4>4 DEF Owner
    <3> QED BY <3>2, <3>3
  <2>5. \A t \in Targets : t # u => code'[t] = code[t]
    BY <1>0, <1>6 DEF WriteCode, TypeOK
  <2>6. \A t \in Targets : t # u => Owner(code[t])' = Owner(code[t])
    BY <1>0, <2>5, RouteStays
  <2>7. ASSUME NEW t \in Targets, t = u PROVE Routes' = [Routes EXCEPT ![t] = Routes'[t]]
    BY <2>6, <2>7 DEF Routes
  <2>8. ASSUME NEW t \in Targets, t = u PROVE Routes'[t] \in EngagedHandles \cup {NoHandle}
    BY <2>4, <2>8 DEF Routes
  <2>9. PICK t \in Targets : t = u
    BY <2>3
  <2>10. ASSUME NEW g, g = Routes'[t] PROVE g \in Handles \cup {NoHandle} /\ Abstract!Reroute(t, g)
    <3>1. g \in EngagedHandles \cup {NoHandle} /\ Routes' = [Routes EXCEPT ![t] = g]
      BY <2>7, <2>8, <2>9, <2>10
    <3> QED BY <2>1, <2>2, <3>1 DEF Abstract!Reroute, EngagedHandles, Routes
  <2> QED BY <2>10 DEF Abstract!SpecNext
<1>7. CASE Step /\ GiveUp
  <2>1. Running /\ ~WriteCode
    BY <1>0, <1>7 DEF Step, GiveUp, Running, UnprotectBegin, WriteCode, UnprotectEnd, PageProtect, InstallNextPage,
       UninstallPage, UninstallLastEntry, PageUnprotect, InstallReturn, UninstallReturn, Finish, Idle, TypeOK, Call
  <2>2. \A h \in live : Engaged(h)' <=> Engaged(h)
    BY <1>0, <1>7, <2>1 DEF GiveUp, Engaged, Unfinished, CallOK, TypeOK, Idle
  <2> QED BY <1>a, <1>s, <1>7, <2>1, <2>2 DEF GiveUp
<1>8. CASE InstallReturn
  <2>1. \A h \in live : Engaged(h)' <=> Engaged(h)
    BY <1>0, <1>8 DEF InstallReturn, Finish, Engaged, Unfinished, CallOK, Running, TypeOK, Idle
  <2>2. ~WriteCode
    BY <1>8 DEF InstallReturn, WriteCode
  <2> QED BY <1>a, <1>s, <1>8, <2>1, <2>2 DEF InstallReturn, Finish
<1>9. CASE UninstallReturn
  <2>0. call.h \in live /\ call.h \in Handles /\ call.op = "uninstall" /\ ~WriteCode
    BY <1>0, <1>9 DEF UninstallReturn, CallOK, Running, TypeOK, WriteCode
  <2>1. UNCHANGED live /\ \A h \in live : Engaged(h)' <=> Engaged(h) /\ h # call.h
    BY <1>0, <1>9, <2>0 DEF UninstallReturn, Finish, Engaged, Unfinished, TypeOK, Idle
  <2>2. EngagedHandles' = EngagedHandles \ {call.h}
    BY <2>1 DEF EngagedHandles, Engaged
  <2>3. ASSUME NEW t \in Targets PROVE Routes[t] # call.h
    <3>1. Sound(code[t], t) /\ code[t].page \notin PagesOf(call.h)
      BY <1>0, <1>9, NothingJumpsBack DEF CodeSound
    <3>2. Owner(code[t]) # call.h
      BY <1>0, <2>0, <3>1, SoundOwner, ConstantsAssumption
    <3> QED BY <3>2 DEF Routes
  <2>4. Routes' = Routes
    BY <1>0, <2>0, RoutesStay
  <2>5. Abstract!Disengage(call.h)
    BY <2>1, <2>2, <2>3, <2>4 DEF Abstract!Disengage, EngagedHandles, Routes
  <2> QED BY <2>0, <2>5 DEF Abstract!SpecNext
<1>10. Step /\ call' = Idle => GiveUp \/ InstallReturn \/ UninstallReturn
  BY <1>0, StepReturns DEF Idle
<1> QED BY <1>1, <1>2, <1>3, <1>4, <1>5, <1>6, <1>7, <1>8, <1>9, <1>10
        DEF Next, ClientCall, Abstract!SpecNext

\* For every disciplined client, the pages, entries and protection calls of
\* install and uninstall implement what HookSpec says of targets and handles.
THEOREM Refinement == ASSUME Disciplined PROVE Spec => ImplementsHookSpec
<1>1. Init => Abstract!SpecInit
  BY OriginalOwner DEF Init, Abstract!SpecInit, Engaged
<1>2. IInv /\ IInv' /\ [Next]_vars => [Abstract!SpecNext]_(Abstract!specVars)
  <2>1. ASSUME IInv, IInv', Next PROVE Abstract!SpecNext \/ UNCHANGED Abstract!specVars
    BY <2>1, RefinementStep DEF Abstract!specVars, EngagedHandles, Routes
  <2>2. ASSUME UNCHANGED vars PROVE UNCHANGED Abstract!specVars
    <3>1. UNCHANGED <<live, installed, page_list, failed, code, call>>
      BY <2>2 DEF vars, handleVars, targetVars
    <3> QED BY <3>1 DEF Abstract!specVars, Engaged, Unfinished, Owner, PagesOf
  <2> QED BY <2>1, <2>2
<1> QED BY <1>1, <1>2, Invariance, PTL DEF Spec, ImplementsHookSpec, Abstract!HookSpecification
-----------------------------------------------------------------------------
(***************************************************************************)
(* The protection of the memory that targets are in, for every page size,  *)
(* every patch size up to a page and every placement of targets.           *)
(***************************************************************************)

\* What rounding an address down to a page gives.
LEMMA Quotient ==
  ASSUME NEW n \in Nat, NEW k \in Nat \ {0}
  PROVE  /\ n \div k \in Nat
         /\ n - (n % k) = k * (n \div k)
         /\ k * (n \div k) <= n
         /\ n < k * (n \div k) + k
OBVIOUS

LEMMA MultiplesOrder ==
  ASSUME NEW k \in Nat \ {0}, NEW q \in Nat, NEW m \in Nat, k * q < k * m + k
  PROVE  k * q <= k * m
<1>1. CASE q <= m
  BY <1>1
<1>2. CASE m + 1 <= q
  <2>1. k * (m + 1) <= k * q
    BY <1>2
  <2>2. k * (m + 1) = k * m + k
    OBVIOUS
  <2> QED BY <2>1, <2>2
<1> QED BY <1>1, <1>2

\* The pages of memory that unprotect_begin asks for cover every byte of the
\* patch, also when it ends in the next page (os_unix.c:362-364).
LEMMA PatchCovered ==
  ASSUME NEW t \in Targets, NEW a \in addr[t] .. addr[t] + PatchSize - 1
  PROVE  a \div page_size \in MemoryOf(t)
<1> DEFINE k == page_size
           q == addr[t] \div k
           m == a \div k
           n == PatchSize + addr[t] - RoundDown(addr[t])
<1>1. k \in Nat \ {0} /\ addr[t] \in Nat /\ PatchSize \in Nat /\ PatchSize > 0 /\ a \in Nat
  BY ConstantsAssumption
<1>2. m \in Nat /\ k * m <= a /\ a < k * m + k
  BY <1>1, Quotient
<1>3. q \in Nat /\ RoundDown(addr[t]) = k * q /\ k * q <= addr[t]
  <2>1. q \in Nat /\ addr[t] - (addr[t] % k) = k * q /\ k * q <= addr[t]
    BY <1>1, Quotient
  <2> QED BY <2>1 DEF RoundDown
<1>4. n = PatchSize + addr[t] - k * q /\ n \in Nat /\ n + k - 1 \in Nat
  <2>1. n = PatchSize + addr[t] - k * q
    BY <1>3
  <2>2. k * q \in Nat
    BY <1>1, <1>3
  <2> HIDE DEF n, q
  <2> QED BY <1>1, <1>3, <2>1, <2>2
<1> DEFINE s == (n + k - 1) \div k
<1>5. s \in Nat /\ RoundUp(n) = k * s /\ n + k - 1 < k * s + k
  <2> HIDE DEF n
  <2> QED BY <1>1, <1>4, Quotient DEF RoundUp, RoundDown
<1>6. k * q \in Nat /\ k * m \in Nat /\ k * s \in Nat
  BY <1>1, <1>2, <1>3, <1>5
<1>7. k * q < k * m + k
  <2> HIDE DEF q, m
  <2> QED BY <1>1, <1>2, <1>3, <1>6
<1>8. k * q <= k * m
  <2> HIDE DEF q, m
  <2> QED BY <1>1, <1>2, <1>3, <1>7, MultiplesOrder
<1>9. k * m < k * q + k * s
  <2> HIDE DEF q, m, s, n
  <2> QED BY <1>1, <1>2, <1>4, <1>5, <1>6
<1>10. m \in Memory
  BY ConstantsAssumption
<1>11. m * k = k * m
  <2> HIDE DEF m
  <2> QED BY <1>1, <1>2
<1>12. RoundDown(addr[t]) <= m * k /\ m * k < RoundDown(addr[t]) + RoundUp(n)
  <2> HIDE DEF q, m, s, n
  <2> QED BY <1>3, <1>5, <1>8, <1>9, <1>11
<1> QED BY <1>10, <1>12 DEF MemoryOf

\* Between unprotect_begin and unprotect_end the memory around the patch is
\* writable.
Opened == call.pc = "write" => \A m \in MemoryOf(entry.target) : tprot[m] # "rx"

LEMMA OpenedStep ==
  ASSUME Structure, Next
  PROVE  Opened'
<1>0. TypeOK /\ CallOK /\ call \in Call
  BY DEF Structure, TypeOK
<1>1. CASE UnprotectBegin
  <2>1. CASE GiveUp
    BY <2>1 DEF Opened, GiveUp, Idle
  <2>2. CASE /\ \E try \in Unprotected : tprot' = SetProtection(entry.target, try)
             /\ call' = [call EXCEPT !.pc = "write"]
             /\ UNCHANGED <<page_list, entries>>
    <3>1. entry' = entry
      BY <1>0, <2>2 DEF entry, page, Call
    <3>2. PICK try \in Unprotected : tprot' = SetProtection(entry.target, try)
      BY <2>2
    <3>3. try # "rx"
      BY <1>0, <3>2 DEF Unprotected, TypeOK
    <3>4. \A m \in MemoryOf(entry.target) : tprot'[m] = try
      BY <3>2 DEF SetProtection, MemoryOf
    <3> QED BY <3>1, <3>3, <3>4 DEF Opened
  <2> QED BY <1>1, <2>1, <2>2 DEF UnprotectBegin, handleVars, pageVars
<1>2. CASE ClientCall
  <2>1. UNCHANGED call \/ call'.pc \in {"page", "crashed"}
    <3>1. [Idle EXCEPT !.pc = "crashed"].pc = "crashed"
      BY DEF Idle
    <3>2. \A h \in Handles : \A t \in Targets : Prepare(h, t) =>
             UNCHANGED call \/ call' = [Idle EXCEPT !.pc = "crashed"]
      BY ZenonT(60) DEF Prepare, PrepareReuse, PrepareNewPage, PrepareNoSpace, PrepareFails, Refuse, FillEntry, FillNewPage
    <3>3. \A h \in Handles : \A op : Start(h, op) => call'.pc = "page"
      BY DEF Start
    <3> QED BY <1>2, <3>1, <3>2, <3>3 DEF ClientCall, Create, Destroy, FreeHandle, Refuse, InstallCall, UninstallCall
  <2> QED BY <1>0, <1>2, <2>1, ClientIdle DEF Opened
<1>3. CASE Step /\ ~UnprotectBegin
  <2>1. CASE call' = Idle
    BY <2>1 DEF Opened, Idle
  <2>2. CASE WriteCode \/ UninstallLastEntry
    BY <1>0, <2>2 DEF WriteCode, UninstallLastEntry, Call, Opened
  <2>3. CASE call' # Idle /\ (UnprotectEnd \/ PageProtect \/ UninstallPage)
    <3>1. \A n : [call EXCEPT !.pc = "entry", !.ei = n].pc = "entry"
      BY <1>0 DEF Call
    <3>2. call'.pc = "entry"
      BY <2>3, <3>1 DEF UnprotectEnd, PageProtect, UninstallPage, GiveUp
    <3> QED BY <3>2 DEF Opened
  <2>4. CASE InstallNextPage \/ PageUnprotect
    BY <1>0, <2>4 DEF InstallNextPage, PageUnprotect, Call, Opened
  <2> QED BY <1>3, <2>1, <2>2, <2>3, <2>4 DEF Step, InstallReturn, UninstallReturn, Finish
<1> QED BY <1>1, <1>2, <1>3 DEF Next

\* For every client and every failure, the memcpy of install and uninstall
\* stores into writable memory from its first byte to its last
\* (funchook.c:395, 438), wherever the target lies in its page.
THEOREM PatchWritableTheorem == Spec => []PatchWritable
<1>1. Init => Opened
  BY DEF Init, Opened, Idle
<1>2. Structure /\ Opened /\ [Next]_vars => Opened'
  <2>1. Structure /\ Next => Opened'
    BY OpenedStep
  <2>2. Opened /\ UNCHANGED vars => Opened'
    BY DEF Opened, entry, page, vars, handleVars, pageVars, targetVars
  <2> QED BY <2>1, <2>2
<1>3. Structure /\ Opened => PatchWritable
  <2> SUFFICES ASSUME Structure, Opened, call.pc = "write",
                      NEW a \in addr[entry.target] .. addr[entry.target] + PatchSize - 1
               PROVE  tprot[a \div page_size] # "rx"
    BY DEF PatchWritable
  <2>1. entry.target \in Targets
    BY CurrentEntry
  <2>2. a \div page_size \in MemoryOf(entry.target)
    BY <2>1, PatchCovered
  <2> QED BY <2>2 DEF Opened
<1> QED BY <1>1, <1>2, <1>3, StructureTheorem, PTL DEF Spec
-----------------------------------------------------------------------------
(***************************************************************************)
(* Memory is put back.  Memory that is not read and exec is being patched, *)
(* or is owed by a handle whose last call gave up: when that call is       *)
(* repeated, by an entry the call has not come to yet.                     *)
(***************************************************************************)

Pending(h, p, i) ==
  Running /\ call.h = h => \A j \in DOMAIN page_list[h] : page_list[h][j] = p => ~Handled(j, i)

Owed(m) ==
  \E h \in live : /\ failed[h]
                  /\ \E p \in PagesOf(h) : \E i \in SlotsOf(p) :
                       m \in MemoryOf(entries[p][i].target) /\ Pending(h, p, i)

Patching(m) == call.pc \in {"write", "end"} /\ m \in MemoryOf(entry.target)

\* Windows puts back what it found, so nothing may be left to be found.
Excused ==
  /\ \A m \in Memory : tprot[m] = "rx" \/ Patching(m) \/ (os = "unix" /\ Owed(m))
  /\ os = "windows" /\ call.pc \in {"write", "end"} => protect = "rx"

ProtectInv == Structure /\ Excused

\* A new page in front of the list is one page more.
LEMMA PrependPages ==
  ASSUME TypeOK, NEW h \in Handles, NEW q \in Pages, page_list'[h] = <<q>> \o page_list[h]
  PROVE  PagesOf(h) \subseteq PagesOf(h)'
<1>1. page_list[h] \in Seq(Pages)
  BY DEF TypeOK
<1>2. ASSUME NEW j \in DOMAIN page_list[h] PROVE page_list[h][j] \in PagesOf(h)'
  <2>1. j + 1 \in DOMAIN page_list'[h] /\ page_list'[h][j + 1] = page_list[h][j]
    BY <1>1, Prepend
  <2> QED BY <2>1 DEF PagesOf
<1> QED BY <1>2 DEF PagesOf

\* A client that finishes failed installs neither frees a handle that owes
\* memory nor takes an entry from it.
LEMMA OwedClient ==
  ASSUME Structure, ClientCall, "finish_install" \in Discipline, NEW m, Owed(m)
  PROVE  Owed(m)'
<1>0. TypeOK /\ CallOK /\ PagesOwnedOnce /\ call.pc = "idle"
  BY ClientIdle DEF Structure
<1>1. PICK h, p, i : /\ h \in live /\ p \in PagesOf(h) /\ i \in SlotsOf(p) /\ failed[h]
                    /\ m \in MemoryOf(entries[p][i].target)
  BY DEF Owed
<1>2. h \in Handles /\ p \in Pages /\ prot[p] # "none"
  BY <1>0, <1>1, PagesOfTyped DEF TypeOK, PagesOwnedOnce
<1>a. ASSUME h \in live', failed'[h], p \in PagesOf(h)', i \in SlotsOf(p)',
             entries'[p][i] = entries[p][i], Pending(h, p, i)'
      PROVE  Owed(m)'
  BY <1>a, <1>1 DEF Owed
<1>b. ASSUME call'.pc \in {"idle", "crashed"} PROVE Pending(h, p, i)'
  BY <1>b DEF Pending, Running
<1>c. ASSUME UNCHANGED <<handleVars, pageVars, call>> PROVE Owed(m)'
  BY <1>0, <1>1, <1>a, <1>b, <1>c DEF handleVars, pageVars, PagesOf, SlotsOf
<1>3. ASSUME NEW g \in Handles, Create(g) PROVE Owed(m)'
  <2>1. h \in live' /\ page_list'[h] = page_list[h] /\ failed'[h] = failed[h] /\ UNCHANGED <<entries, call>>
    BY <1>0, <1>1, <1>2, <1>3 DEF Create, TypeOK, pageVars
  <2> QED BY <1>0, <1>1, <1>a, <1>b, <2>1 DEF PagesOf, SlotsOf
<1>4. ASSUME NEW g \in Handles, Destroy(g) PROVE Owed(m)'
  <2>1. CASE ~installed[g] /\ FreeHandle(g)
    <3>1. g # h /\ g \in live
      BY <1>1, <1>4, <2>1 DEF Destroy, Calls, FinishInstall, Unfinished
    <3>2. p \notin PagesOf(g)
      BY <1>0, <1>1, <3>1 DEF PagesOwnedOnce, PagesOf
    <3>3. h \in live' /\ page_list'[h] = page_list[h] /\ UNCHANGED <<failed, call>> /\ entries'[p] = entries[p]
      BY <1>0, <1>1, <1>2, <2>1, <3>1, <3>2 DEF FreeHandle, TypeOK
    <3> QED BY <1>0, <1>1, <1>a, <1>b, <3>3 DEF PagesOf, SlotsOf
  <2> QED BY <1>4, <1>c, <2>1 DEF Destroy, Refuse
<1>5. ASSUME NEW g \in Handles, NEW u \in Targets, Prepare(g, u) PROVE Owed(m)'
  <2>1. CASE PrepareReuse(g, u)
    <3>1. PICK j \in Candidates(g, u) : FillEntry(page_list[g][j], u)
      BY <2>1 DEF PrepareReuse
    <3> DEFINE q == page_list[g][j]
               e == [target |-> u, old |-> code[u]]
    <3>2. q \in Pages /\ entries[q] \in Seq(Entry)
      BY <1>0, <3>1 DEF Candidates, TypeOK
    <3>e. e \in Entry
      BY <1>0 DEF TypeOK, Entry
    <3>3. i \in SlotsOf(p)' /\ entries'[p][i] = entries[p][i]
      <4>1. CASE UNCHANGED entries
        BY <4>1, <1>1 DEF SlotsOf
      <4>2. CASE entries' = [entries EXCEPT ![q] = Append(@, e)]
        BY <1>0, <1>1, <1>2, <3>2, <3>e, <4>2, Extend DEF SlotsOf, TypeOK
      <4> QED BY <3>1, <4>1, <4>2 DEF FillEntry
    <3>4. UNCHANGED <<live, page_list, failed>>
      BY <2>1 DEF PrepareReuse, handleVars
    <3>5. call'.pc \in {"idle", "crashed"}
      BY <1>0, <3>1 DEF FillEntry, Idle
    <3> QED BY <1>1, <1>a, <1>b, <3>3, <3>4, <3>5 DEF PagesOf
  <2>2. CASE PrepareNewPage(g, u)
    <3>1. PICK q \in Pages : /\ prot[q] = "none"
                             /\ page_list' = [page_list EXCEPT ![g] = <<q>> \o @]
                             /\ FillNewPage(q, u)
      BY <2>2 DEF PrepareNewPage
    <3>2. UNCHANGED <<live, failed, call>>
      BY <2>2, <3>1 DEF PrepareNewPage, FillNewPage
    <3>3. entries'[p] = entries[p]
      BY <1>0, <1>2, <3>1 DEF FillNewPage, TypeOK
    <3>4. CASE g # h
      <4>1. page_list'[h] = page_list[h]
        BY <1>0, <1>2, <3>1, <3>4 DEF TypeOK
      <4> QED BY <1>0, <1>1, <1>a, <1>b, <3>2, <3>3, <4>1 DEF PagesOf, SlotsOf
    <3>5. CASE g = h
      <4>1. page_list'[h] = <<q>> \o page_list[h]
        BY <1>0, <1>2, <3>1, <3>5 DEF TypeOK
      <4>2. p \in PagesOf(h)'
        BY <1>0, <1>1, <1>2, <4>1, PrependPages
      <4> QED BY <1>0, <1>1, <1>a, <1>b, <3>2, <3>3, <4>2 DEF SlotsOf
    <3> QED BY <3>4, <3>5
  <2> QED BY <1>5, <1>c, <2>1, <2>2 DEF Prepare, PrepareNoSpace, PrepareFails, Refuse
<1>6. ASSUME NEW g \in Handles, InstallCall(g) \/ UninstallCall(g) PROVE Owed(m)'
  <2>1. ASSUME NEW op, Start(g, op) PROVE Owed(m)'
    <3>1. UNCHANGED <<live, page_list, failed, entries>> /\ call'.h = g
      BY <2>1 DEF Start, handleVars, pageVars
    <3>2. Pending(h, p, i)'
      BY <1>0, <2>1, <3>1, NothingHandled DEF Pending
    <3> QED BY <1>1, <1>a, <3>1, <3>2 DEF PagesOf, SlotsOf
  <2> QED BY <1>6, <1>c, <2>1 DEF InstallCall, UninstallCall, Refuse
<1> QED BY <1>3, <1>4, <1>5, <1>6 DEF ClientCall

\* While the call goes on, memory stays owed until its entry is patched again.
LEMMA OwedStep ==
  ASSUME Structure, Step, call' # Idle, NEW m, Owed(m),
         WriteCode => m \notin MemoryOf(entry.target)
  PROVE  Owed(m)'
<1>0. TypeOK /\ CallOK
  BY DEF Structure
<1>1. PICK h, p, i : /\ h \in live /\ p \in PagesOf(h) /\ i \in SlotsOf(p) /\ failed[h]
                    /\ m \in MemoryOf(entries[p][i].target) /\ Pending(h, p, i)
  BY DEF Owed
<1>2. UNCHANGED <<live, failed, page_list, entries>> /\ call'.h = call.h
  BY StepFrame, CallGoesOn
<1>3. /\ Running
      /\ \A j \in DOMAIN page_list[call.h] : \A k \in SlotsOf(page_list[call.h][j]) :
           Handled(j, k)' => Handled(j, k) \/ (WriteCode /\ j = call.pi /\ k = call.ei)
  BY HandledStep
<1>4. ASSUME call.h = h, NEW j \in DOMAIN page_list[h], page_list[h][j] = p PROVE ~Handled(j, i)'
  <2>1. ~Handled(j, i)
    BY <1>1, <1>3, <1>4 DEF Pending
  <2>2. WriteCode /\ j = call.pi /\ i = call.ei => m \in MemoryOf(entry.target)
    BY <1>1, <1>4 DEF entry, page
  <2> QED BY <1>1, <1>3, <1>4, <2>1, <2>2
<1>5. Pending(h, p, i)'
  BY <1>2, <1>4 DEF Pending
<1> QED BY <1>1, <1>2, <1>5 DEF Owed, PagesOf, SlotsOf

\* A call that gives up leaves its handle owing.
LEMMA OwedGiveUp ==
  ASSUME Structure, Step, GiveUp, NEW m
  PROVE  /\ Owed(m) => Owed(m)'
         /\ call.pc = "end" /\ m \in MemoryOf(entry.target) => Owed(m)'
<1>0. TypeOK /\ CallOK
  BY DEF Structure
<1>1. UNCHANGED <<live, page_list, entries>> /\ failed' = [failed EXCEPT ![call.h] = TRUE]
  BY StepFrame DEF GiveUp
<1>2. \A h \in live : failed[h] => failed'[h]
  BY <1>0, <1>1 DEF TypeOK
<1>3. \A h, p, i : Pending(h, p, i)'
  BY DEF Pending, Running, GiveUp, Idle
<1>4. Owed(m) => Owed(m)'
  BY <1>1, <1>2, <1>3 DEF Owed, PagesOf, SlotsOf
<1>5. ASSUME call.pc = "end", m \in MemoryOf(entry.target) PROVE Owed(m)'
  <2>1. /\ call.h \in live /\ call.h \in Handles /\ page \in PagesOf(call.h) /\ call.ei \in SlotsOf(page)
        /\ entry = entries[page][call.ei]
    BY <1>5, CurrentEntry
  <2>2. failed'[call.h]
    BY <1>0, <1>1, <2>1 DEF TypeOK
  <2>3. ASSUME NEW h \in live, h = call.h, NEW p \in PagesOf(h), NEW i \in SlotsOf(p), p = page, i = call.ei
        PROVE  Owed(m)'
    BY <1>1, <1>3, <1>5, <2>1, <2>2, <2>3 DEF Owed, PagesOf, SlotsOf
  <2> QED BY <2>1, <2>3
<1> QED BY <1>4, <1>5

\* A call that returns success has dealt with every entry of its handle: what
\* is still owed is owed by another handle.
LEMMA OwedReturn ==
  ASSUME Structure, InstallReturn \/ UninstallReturn, NEW m, Owed(m)
  PROVE  Owed(m)'
<1>0. TypeOK /\ CallOK /\ Running /\ call.pi \notin DOMAIN page_list[call.h]
  BY DEF Structure, InstallReturn, UninstallReturn, Running
<1>1. PICK h, p, i : /\ h \in live /\ p \in PagesOf(h) /\ i \in SlotsOf(p) /\ failed[h]
                    /\ m \in MemoryOf(entries[p][i].target) /\ Pending(h, p, i)
  BY DEF Owed
<1>2. h # call.h
  <2>1. ASSUME h = call.h PROVE FALSE
    <3>1. PICK j \in DOMAIN page_list[h] : page_list[h][j] = p
      BY <1>1 DEF PagesOf
    <3>2. Handled(j, i)
      BY <1>0, <2>1, <3>1, AllHandled
    <3> QED BY <1>0, <1>1, <2>1, <3>1, <3>2 DEF Pending
  <2> QED BY <2>1
<1>3. UNCHANGED <<live, page_list, entries>> /\ failed'[h] = failed[h] /\ call' = Idle
  BY <1>0, <1>1, <1>2 DEF InstallReturn, UninstallReturn, Finish, pageVars, TypeOK
<1>4. Pending(h, p, i)'
  BY <1>3 DEF Pending, Running, Idle
<1> QED BY <1>1, <1>3, <1>4 DEF Owed, PagesOf, SlotsOf

LEMMA ExcusedStep ==
  ASSUME ProtectInv, Next, "finish_install" \in Discipline, os = "unix" \/ ~WinEndFails
  PROVE  Excused'
<1>0. Structure /\ TypeOK /\ CallOK /\ Excused /\ call \in Call
  BY DEF ProtectInv, Structure, TypeOK
<1>s. os \in {"unix", "windows"} /\ os' = os
  <2>1. os \in {"unix", "windows"}
    BY <1>0, ConstantsAssumption DEF TypeOK
  <2>2. os' = os
    BY DEF Next, ClientCall, Step, Create, Destroy, FreeHandle, Refuse, Prepare, PrepareReuse,
       PrepareNewPage, PrepareNoSpace, PrepareFails, InstallCall, UninstallCall, Start, WriteCode,
       UnprotectBegin, UnprotectEnd, PageProtect, InstallNextPage, InstallReturn, Finish,
       UninstallPage, UninstallLastEntry, PageUnprotect, UninstallReturn, targetVars
  <2> QED BY <2>1, <2>2
\* Steps that leave the memory alone and are not inside a patch.
<1>a. ASSUME tprot' = tprot, call.pc \notin {"write", "end"}, call'.pc \notin {"write", "end"},
             \A m \in Memory : Owed(m) => Owed(m)'
      PROVE  Excused'
  BY <1>0, <1>s, <1>a DEF Excused, Patching
<1>1. CASE ClientCall
  <2>1. call.pc = "idle" /\ tprot' = tprot
    <3>1. tprot' = tprot
      BY <1>1 DEF ClientCall, Create, Destroy, FreeHandle, Refuse, Prepare, PrepareReuse,
         PrepareNewPage, PrepareNoSpace, PrepareFails, InstallCall, UninstallCall, Start, targetVars
    <3> QED BY <1>0, <1>1, <3>1, ClientIdle
  <2>2. UNCHANGED call \/ call'.pc \in {"page", "crashed"}
    <3>1. [Idle EXCEPT !.pc = "crashed"].pc = "crashed"
      BY DEF Idle
    <3>2. \A h \in Handles : \A t \in Targets : Prepare(h, t) =>
             UNCHANGED call \/ call' = [Idle EXCEPT !.pc = "crashed"]
      BY DEF Prepare, PrepareReuse, PrepareNewPage, PrepareNoSpace, PrepareFails, Refuse, FillEntry, FillNewPage
    <3>3. \A h \in Handles : \A op : Start(h, op) => call'.pc = "page"
      BY DEF Start
    <3> QED BY <1>1, <3>1, <3>2, <3>3 DEF ClientCall, Create, Destroy, FreeHandle, Refuse, InstallCall, UninstallCall
  <2> QED BY <1>0, <1>1, <1>a, <2>1, <2>2, OwedClient
<1>2. CASE UnprotectBegin
  <2>1. CASE GiveUp /\ UNCHANGED tprot
    <3>1. call.pc = "entry" /\ call'.pc = "idle" /\ Step
      BY <1>2, <2>1 DEF UnprotectBegin, GiveUp, Idle, Step
    <3> QED BY <1>0, <1>a, <2>1, <3>1, OwedGiveUp
  <2>2. CASE /\ \E try \in Unprotected : tprot' = SetProtection(entry.target, try)
             /\ protect' = Found(entry.target)
             /\ call' = [call EXCEPT !.pc = "write"]
             /\ UNCHANGED <<page_list, entries>>
    <3>1. call.pc = "entry" /\ call'.pc = "write" /\ entry' = entry /\ call' # Idle /\ Step /\ ~WriteCode
      BY <1>0, <1>2, <2>2 DEF UnprotectBegin, entry, page, Call, Idle, Step, WriteCode
    <3>2. entry.target \in Targets
      BY <1>0, <1>2, CurrentEntry DEF UnprotectBegin
    <3>3. ASSUME NEW m \in Memory, m \notin MemoryOf(entry.target)
          PROVE  tprot'[m] = "rx" \/ (os = "unix" /\ Owed(m)')
      <4>1. tprot'[m] = tprot[m]
        BY <2>2, <3>3 DEF SetProtection
      <4>2. tprot[m] = "rx" \/ (os = "unix" /\ Owed(m))
        BY <1>0, <3>1 DEF Excused, Patching
      <4> QED BY <1>0, <3>1, <4>1, <4>2, OwedStep
    <3>4. os = "windows" => protect' = "rx"
      <4>1. addr[entry.target] \div page_size \in Memory
        BY <3>2, FirstPage
      <4> QED BY <1>0, <2>2, <3>1, <4>1 DEF Excused, Patching, Found
    <3> QED BY <1>s, <3>1, <3>3, <3>4 DEF Excused, Patching
  <2> QED BY <1>2, <2>1, <2>2 DEF UnprotectBegin, handleVars, pageVars
<1>3. CASE WriteCode
  <2>1. /\ call.pc = "write" /\ call'.pc = "end" /\ entry' = entry /\ call' # Idle /\ Step
        /\ UNCHANGED <<tprot, protect>>
    BY <1>0, <1>3 DEF WriteCode, handleVars, pageVars, entry, page, Call, Idle, Step
  <2>2. ASSUME NEW m \in Memory, m \notin MemoryOf(entry.target), Owed(m) PROVE Owed(m)'
    BY <1>0, <2>1, <2>2, OwedStep
  <2> QED BY <1>0, <1>s, <2>1, <2>2 DEF Excused, Patching
<1>4. CASE UnprotectEnd
  <2>1. CASE /\ "unprotect_end" \in Faults
             /\ GiveUp /\ UNCHANGED tprot
    <3>1. call.pc = "end" /\ call'.pc = "idle" /\ Step
      BY <1>4, <2>1 DEF UnprotectEnd, GiveUp, Idle, Step
    <3>2. os = "unix"
      BY <1>s, <2>1 DEF Faults
    <3> QED BY <1>0, <1>s, <2>1, <3>1, <3>2, OwedGiveUp DEF Excused, Patching
  <2>2. CASE /\ tprot' = SetProtection(entry.target, Reprotected)
             /\ call' = [call EXCEPT !.pc = "entry", !.ei = @ + 1]
    <3>1. call.pc = "end" /\ Step /\ ~WriteCode
      BY <1>4 DEF UnprotectEnd, Step, WriteCode
    <3>2. call'.pc = "entry" /\ call' # Idle
      BY <1>0, <2>2 DEF Call, Idle
    <3>3. Reprotected = "rx"
      BY <1>0, <1>s, <3>1 DEF Reprotected, Excused
    <3>4. ASSUME NEW m \in Memory PROVE tprot'[m] = "rx" \/ (os = "unix" /\ Owed(m)')
      <4>1. CASE m \in MemoryOf(entry.target)
        BY <2>2, <3>3, <4>1 DEF SetProtection
      <4>2. CASE m \notin MemoryOf(entry.target)
        <5>1. tprot'[m] = tprot[m]
          BY <2>2, <4>2 DEF SetProtection
        <5>2. tprot[m] = "rx" \/ (os = "unix" /\ Owed(m))
          BY <1>0, <4>2 DEF Excused, Patching
        <5> QED BY <1>0, <3>1, <3>2, <5>1, <5>2, OwedStep
      <4> QED BY <4>1, <4>2
    <3> QED BY <1>s, <3>2, <3>4 DEF Excused, Patching
  <2> QED BY <1>4, <2>1, <2>2 DEF UnprotectEnd
<1>5. CASE PageProtect \/ InstallNextPage \/ UninstallPage \/ UninstallLastEntry \/ PageUnprotect
  <2>1. tprot' = tprot /\ call.pc \in {"page", "entry", "unprotect"} /\ Step /\ ~WriteCode
    BY <1>5 DEF PageProtect, InstallNextPage, UninstallPage, UninstallLastEntry, PageUnprotect,
                targetVars, Step, WriteCode
  <2>2. CASE GiveUp
    <3>1. call'.pc = "idle"
      BY <2>2 DEF GiveUp, Idle
    <3> QED BY <1>0, <1>a, <2>1, <2>2, <3>1, OwedGiveUp
  <2>3. CASE ~GiveUp
    <3>1. [call EXCEPT !.pc = "entry", !.ei = 1].pc = "entry"
      BY <1>0 DEF Call
    <3>2. [call EXCEPT !.pc = "page", !.pi = @ + 1].pc = "page"
      BY <1>0 DEF Call
    <3>3. [call EXCEPT !.pc = "unprotect"].pc = "unprotect"
      BY <1>0 DEF Call
    <3>4. call'.pc \in {"page", "entry", "unprotect"}
      BY <1>5, <2>3, <3>1, <3>2, <3>3 DEF PageProtect, InstallNextPage, UninstallPage,
         UninstallLastEntry, PageUnprotect
    <3>5. call' # Idle
      BY <3>4 DEF Idle
    <3> QED BY <1>0, <1>a, <2>1, <3>4, <3>5, OwedStep
  <2> QED BY <2>2, <2>3
<1>6. CASE InstallReturn \/ UninstallReturn
  <2>1. tprot' = tprot /\ call.pc = "page" /\ call'.pc = "idle"
    BY <1>6 DEF InstallReturn, UninstallReturn, Finish, targetVars, Idle
  <2> QED BY <1>0, <1>6, <1>a, <2>1, OwedReturn
<1> QED BY <1>1, <1>2, <1>3, <1>4, <1>5, <1>6 DEF Next, Step

\* What memory may be left open, for every client that finishes failed
\* installs.  On Windows this needs that putting the protection back does not
\* fail: a page left open by one handle would be found, and put back, as open by
\* the next.
THEOREM ExcusedInvariance ==
  ASSUME "finish_install" \in Discipline
  PROVE  Spec => [](os = "unix" \/ ~WinEndFails => Excused)
<1> DEFINE P == os = "unix" \/ ~WinEndFails => Excused
<1>1. Init => P
  BY DEF Init, Excused, Idle
<1>2. Structure /\ P /\ [Next]_vars => P'
  <2>0. ASSUME [Next]_vars PROVE os' = os
    BY <2>0 DEF Next, ClientCall, Step, Create, Destroy, FreeHandle, Refuse, Prepare, PrepareReuse,
       PrepareNewPage, PrepareNoSpace, PrepareFails, InstallCall, UninstallCall, Start, WriteCode,
       UnprotectBegin, UnprotectEnd, PageProtect, InstallNextPage, InstallReturn, Finish,
       UninstallPage, UninstallLastEntry, PageUnprotect, UninstallReturn, targetVars, vars
  <2>1. ASSUME Structure, Excused, os = "unix" \/ ~WinEndFails, Next PROVE Excused'
    BY <2>1, ExcusedStep DEF ProtectInv
  <2>2. ASSUME Excused, UNCHANGED vars PROVE Excused'
    <3>1. UNCHANGED <<live, failed, page_list, entries, os, tprot, protect, call>>
      BY <2>2 DEF vars, handleVars, pageVars, targetVars
    <3>2. \A m : Patching(m)' <=> Patching(m)
      BY <3>1 DEF Patching, entry, page
    <3>3. \A h, p, i : Pending(h, p, i)' <=> Pending(h, p, i)
      BY <3>1 DEF Pending, Running, Handled
    <3>4. \A m : Owed(m)' <=> Owed(m)
      BY <3>1, <3>3 DEF Owed, PagesOf, SlotsOf
    <3> QED BY <2>2, <3>1, <3>2, <3>4 DEF Excused
  <2> QED BY <2>0, <2>1, <2>2
<1> HIDE DEF P
<1>3. Spec => []P
  BY <1>1, <1>2, StructureTheorem, PTL DEF Spec
<1> QED BY <1>3, PTL DEF P

\* A page of memory that is owed is around a target of a handle that failed.
LEMMA OwedByTarget ==
  ASSUME Structure, NEW m, Owed(m)
  PROVE  \E h \in live : failed[h] /\ \E t \in TargetsOf(h) : m \in MemoryOf(t)
<1>1. PICK h, p, i : /\ h \in live /\ p \in PagesOf(h) /\ i \in SlotsOf(p) /\ failed[h]
                    /\ m \in MemoryOf(entries[p][i].target)
  BY DEF Owed
<1>2. entries[p][i] \in Entry
  <2>1. p \in Pages
    BY <1>1, PagesOfTyped DEF Structure, TypeOK
  <2> QED BY <1>1, <2>1 DEF SlotsOf, Structure, TypeOK
<1>3. entries[p][i].target \in TargetsOf(h)
  BY <1>1, <1>2 DEF TargetsOf, Entry
<1> QED BY <1>1, <1>3

\* For every client that finishes failed installs, memory is read and exec
\* again after every call, except around targets of a handle whose last call
\* gave up (os_unix.c:386-398, os_windows.c:307-320).
THEOREM TargetsReprotectedTheorem ==
  ASSUME "finish_install" \in Discipline, ~WinEndFails
  PROVE  Spec => []TargetsReprotected
<1>1. Structure /\ (os = "unix" \/ ~WinEndFails => Excused) => TargetsReprotected
  <2> SUFFICES ASSUME Structure, Excused, call.pc = "idle", NEW m \in Memory, tprot[m] # "rx"
               PROVE  \E h \in live : failed[h] /\ \E t \in TargetsOf(h) : m \in MemoryOf(t)
    BY DEF TargetsReprotected
  <2>1. Owed(m)
    BY DEF Excused, Patching
  <2> QED BY <2>1, OwedByTarget
<1> QED BY <1>1, ExcusedInvariance, StructureTheorem, PTL
=============================================================================
