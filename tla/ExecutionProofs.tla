-------------------------- MODULE ExecutionProofs --------------------------
(***************************************************************************)
(* Proofs about threads in hooked functions, for any number of threads and *)
(* of handles stacked on a target, every placement of targets and every    *)
(* choice of steps that fail.                                              *)
(***************************************************************************)
EXTENDS Execution, FunchookProofs

Callbacks == {"transit", "caller", "prehook", "hook", "after", "trampoline"}
Spot == [at : {"out", "first", "prologue", "body", "fault"} \cup Callbacks,
         f : Targets \cup {Outside.f}, e : Code, hooks : Seq(Code)]

\* An entry that a thread executing f may be in: of an engaged handle, for f,
\* in an executable page, and not about to be uninstalled.
Usable(e, f) ==
  /\ e # Original /\ Sound(e, f)
  /\ \A h \in Handles : call.op = "uninstall" /\ call.h = h => e.page \notin PagesOf(h)

\* A thread at x is away from the handle at work.
Fits(x) ==
  /\ x \in Spot
  /\ IF x.at = "out" THEN x.hooks = <<>> ELSE x.f \in Targets
  /\ \A e \in Using(x) : Usable(e, x.f)
  /\ InTarget(x) => \A h \in Handles : call.op # "none" /\ call.h = h => x.f \notin Zone(h)

UseInv == thread \in [Threads -> Spot] /\ \A th \in Threads : Fits(thread[th])

\* A thread at x executes what can be executed.
Safe(x) ==
  /\ x.at # "fault"
  /\ InTarget(x) => \A h \in live : failed[h] => x.f \notin Zone(h)
  /\ x.at = "prologue" => x.e = code[x.f]

SafeInv == \A th \in Threads : Safe(thread[th])

\* VirtualProtect never takes away execution.
WinExecutable == os = "windows" => protect # "rw" /\ \A m \in Memory : tprot[m] # "rw"
-----------------------------------------------------------------------------
(* What the operators of the way of a thread give *)

LEMMA SpotParts ==
  ASSUME NEW x \in Spot
  PROVE  /\ x.at \in {"out", "first", "prologue", "body", "fault"} \cup Callbacks
         /\ x.f \in Targets \cup {Outside.f} /\ x.e \in Code /\ x.hooks \in Seq(Code)
         /\ \A a \in {"out", "first", "prologue", "body", "fault"} \cup Callbacks :
              /\ [x EXCEPT !.at = a] \in Spot
              /\ [x EXCEPT !.at = a].at = a /\ [x EXCEPT !.at = a].f = x.f
              /\ [x EXCEPT !.at = a].e = x.e /\ [x EXCEPT !.at = a].hooks = x.hooks
BY DEF Spot

LEMMA OutsideFits == Fits(Outside) /\ Outside.at = "out" /\ Outside.hooks = <<>>
<1>1. Original \in Code
  BY DEF Original, Code
<1>2. Outside.at = "out" /\ Outside.hooks = <<>> /\ Outside.e = Original
  BY DEF Outside
<1>3. Outside \in Spot
  <2>1. \A f : [at |-> "out", f |-> f, e |-> Original, hooks |-> <<>>].f = f
    OBVIOUS
  <2>2. \A f \in Targets \cup {Outside.f} : [at |-> "out", f |-> f, e |-> Original, hooks |-> <<>>] \in Spot
    BY <1>1 DEF Spot
  <2> QED BY <2>1, <2>2 DEF Outside
<1>4. Using(Outside) = {} /\ ~InTarget(Outside)
  BY <1>2 DEF Using, InTarget
<1> QED BY <1>2, <1>3, <1>4 DEF Fits

\* Where a thread is in the code of an entry changes nothing, nor does a fault.
LEMMA MoveOn ==
  ASSUME NEW x, Fits(x), x.at # "out", NEW a \in Callbacks \cup {"fault"}, a \in Callbacks => x.at \in Callbacks
  PROVE  Fits([x EXCEPT !.at = a])
<1> DEFINE y == [x EXCEPT !.at = a]
<1>1. y \in Spot /\ y.at = a /\ y.f = x.f /\ y.e = x.e /\ y.hooks = x.hooks
  BY SpotParts DEF Fits
<1> HIDE DEF y
<1>2. Using(y) \subseteq Using(x)
  BY <1>1 DEF Using, Callbacks
<1>3. ~InTarget(y)
  BY <1>1 DEF InTarget, Callbacks
<1> QED BY <1>1, <1>2, <1>3 DEF Fits, Callbacks, y

LEMMA EnterFits ==
  ASSUME NEW x, Fits(x), x.at # "out", NEW c \in Code, Sound(c, x.f),
         \A h \in Handles : call.op = "uninstall" /\ call.h = h => c.page \notin PagesOf(h),
         \A h \in Handles : call.op # "none" /\ call.h = h => x.f \notin Zone(h)
  PROVE  Fits(Enter(x, c))
<1> DEFINE y == Enter(x, c)
<1>0. x \in Spot /\ x.f \in Targets
  BY DEF Fits
<1>1. /\ y.e = c /\ y.f = x.f /\ y.hooks = x.hooks /\ y \in Spot
      /\ y.at = "body" \/ (c # Original /\ y.at \in {"hook", "transit"})
  BY <1>0 DEF Enter, Spot, Callbacks
<1> HIDE DEF y
<1>2. ASSUME NEW e \in Using(y) PROVE Usable(e, x.f)
  <2>1. CASE e \in Using(x)
    BY <2>1 DEF Fits
  <2>2. CASE e \notin Using(x)
    <3>1. e = c /\ c # Original
      BY <1>1, <2>2 DEF Using
    <3> QED BY <3>1 DEF Usable
  <2> QED BY <2>1, <2>2
<1> QED BY <1>0, <1>1, <1>2 DEF Fits, y

LEMMA ReturnFits ==
  ASSUME NEW x, Fits(x), x.at # "out"
  PROVE  Fits(Return(x)) /\ ~InTarget(Return(x)) /\ Return(x).at \in {"out", "after"}
<1>0. x \in Spot /\ x.f \in Targets /\ x.hooks \in Seq(Code)
  BY SpotParts DEF Fits
<1>1. CASE x.hooks = <<>>
  BY <1>1, OutsideFits DEF Return, InTarget
<1>2. CASE x.hooks # <<>>
  <2> DEFINE n == Len(x.hooks)
             y == Return(x)
  <2>1. n \in Nat /\ n > 0 /\ x.hooks[n] \in Code /\ n \in DOMAIN x.hooks
    BY <1>0, <1>2
  <2>2. /\ SubSeq(x.hooks, 1, n - 1) \in Seq(Code)
        /\ DOMAIN SubSeq(x.hooks, 1, n - 1) = 1 .. n - 1
        /\ \A k \in 1 .. n - 1 : SubSeq(x.hooks, 1, n - 1)[k] = x.hooks[k] /\ k \in DOMAIN x.hooks
    BY <1>0, <2>1
  <2>3. /\ y \in Spot /\ y.at = "after" /\ y.f = x.f /\ y.e = x.hooks[n]
        /\ y.hooks = SubSeq(x.hooks, 1, n - 1)
    <3>1. y = [x EXCEPT !.at = "after", !.e = x.hooks[n], !.hooks = SubSeq(x.hooks, 1, n - 1)]
      BY <1>2 DEF Return
    <3> QED BY <1>0, <2>1, <2>2, <3>1 DEF Spot, Callbacks
  <2> HIDE DEF y, n
  <2>4. Using(y) \subseteq Using(x)
    BY <2>1, <2>2, <2>3 DEF Using
  <2>5. ~InTarget(y)
    BY <2>3 DEF InTarget
  <2> QED BY <1>0, <2>3, <2>4, <2>5 DEF Fits, y
<1> QED BY <1>1, <1>2

LEMMA PushFits ==
  ASSUME NEW x, Fits(x), x.at = "hook"
  PROVE  Fits([x EXCEPT !.at = "trampoline", !.hooks = Append(@, x.e)])
<1> DEFINE y == [x EXCEPT !.at = "trampoline", !.hooks = Append(@, x.e)]
<1>0. x \in Spot /\ x.f \in Targets /\ x.hooks \in Seq(Code) /\ x.e \in Code
  BY SpotParts DEF Fits
<1>1. y \in Spot /\ y.at = "trampoline" /\ y.f = x.f /\ y.e = x.e /\ y.hooks = Append(x.hooks, x.e)
  <2>1. Append(x.hooks, x.e) \in Seq(Code)
    BY <1>0
  <2>2. \A s \in Seq(Code) :
          /\ [x EXCEPT !.at = "trampoline", !.hooks = s] \in Spot
          /\ [x EXCEPT !.at = "trampoline", !.hooks = s].at = "trampoline"
          /\ [x EXCEPT !.at = "trampoline", !.hooks = s].f = x.f
          /\ [x EXCEPT !.at = "trampoline", !.hooks = s].e = x.e
          /\ [x EXCEPT !.at = "trampoline", !.hooks = s].hooks = s
    BY <1>0 DEF Spot, Callbacks
  <2>3. y = [x EXCEPT !.at = "trampoline", !.hooks = Append(x.hooks, x.e)]
    BY <1>0 DEF Spot
  <2> QED BY <2>1, <2>2, <2>3
<1> HIDE DEF y
<1>2. \A k \in DOMAIN Append(x.hooks, x.e) :
        \/ Append(x.hooks, x.e)[k] = x.e
        \/ k \in DOMAIN x.hooks /\ Append(x.hooks, x.e)[k] = x.hooks[k]
  BY <1>0
<1>3. Using(y) \subseteq Using(x)
  BY <1>1, <1>2 DEF Using
<1>4. ~InTarget(y)
  BY <1>1 DEF InTarget
<1> QED BY <1>0, <1>1, <1>3, <1>4 DEF Fits, y
-----------------------------------------------------------------------------
(* Execution moves the library as Funchook does *)

LEMMA ControlIsNext == ControlCall \/ ControlStep => Next
BY DEF ControlCall, ControlStep, Next, ClientCall

\* The call of the application that puts a handle to work, and the rules it keeps.
LEMMA ControlStarts ==
  ASSUME CallOK, ControlCall, call'.op # "none"
  PROVE  \E h \in Handles : /\ call'.h = h /\ Start(h, call'.op) /\ Quiet(h)
                            /\ call'.op = "uninstall" => Drained(h)
<1>1. PICK h \in Handles : \/ Create(h) \/ Destroy(h)
                           \/ \E t \in Targets : Prepare(h, t)
                           \/ InstallCall(h) /\ Quiet(h)
                           \/ UninstallCall(h) /\ Quiet(h) /\ Drained(h)
  BY DEF ControlCall
<1>2. ~UNCHANGED call
  BY ClientIdle, ControlIsNext DEF ControlCall, ClientCall
<1>3. [Idle EXCEPT !.pc = "crashed"].op = "none"
  BY DEF Idle
<1>4. \A t \in Targets : ~Prepare(h, t)
  BY <1>2, <1>3 DEF Prepare, Refuse, PrepareReuse, PrepareNewPage, PrepareNoSpace, PrepareFails,
                    FillEntry, FillNewPage
<1>5. ~Create(h) /\ ~Destroy(h)
  BY <1>2 DEF Create, Destroy, Refuse, FreeHandle
<1>6. \A op : Start(h, op) => call'.op = op /\ call'.h = h
  BY DEF Start
<1> QED BY <1>1, <1>2, <1>4, <1>5, <1>6 DEF InstallCall, UninstallCall, Refuse, Calls

\* A step of the call in progress leaves it and its handle, or ends it.
LEMMA StepCall ==
  ASSUME Structure, Step
  PROVE  /\ call.op # "none"
         /\ call'.op = "none" \/ (call'.op = call.op /\ call'.h = call.h)
         /\ UNCHANGED <<live, page_list, entries>>
<1>1. CASE call' = Idle
  <2>1. Running
    BY DEF Step, UnprotectBegin, WriteCode, UnprotectEnd, PageProtect, InstallNextPage, InstallReturn,
       UninstallPage, UninstallLastEntry, PageUnprotect, UninstallReturn, Running
  <2> QED BY <1>1, <2>1, StepFrame DEF Structure, CallOK, Idle
<1>2. CASE call' # Idle
  BY <1>2, HandledStep, StepFrame DEF Structure, CallOK
<1> QED BY <1>1, <1>2

LEMMA SameZone ==
  ASSUME UNCHANGED <<page_list, entries>>, NEW h
  PROVE  Zone(h)' = Zone(h) /\ PagesOf(h)' = PagesOf(h)
BY DEF Zone, TargetsOf, PagesOf, SlotsOf, MemoryOf, RoundDown, RoundUp

LEMMA SameFits ==
  ASSUME UNCHANGED vars, NEW x
  PROVE  Fits(x)' = Fits(x) /\ Safe(x)' = Safe(x)
<1>1. UNCHANGED <<live, installed, page_list, failed, entries, prot, code, call>>
  BY DEF vars, handleVars, pageVars, targetVars
<1>2. \A h : Zone(h)' = Zone(h) /\ PagesOf(h)' = PagesOf(h)
  BY <1>1, SameZone
<1>3. \A e, f : Usable(e, f)' = Usable(e, f)
  <2>1. \A h : Engaged(h)' = Engaged(h)
    BY <1>1 DEF Engaged, Unfinished
  <2>2. \A e, f : Sound(e, f)' = Sound(e, f)
    BY <1>1, <1>2, <2>1 DEF Sound, SlotsOf
  <2> QED BY <1>1, <1>2, <2>2 DEF Usable
<1>4. Using(x)' = Using(x) /\ InTarget(x)' = InTarget(x)
  BY DEF Using, InTarget
<1>5. ASSUME NEW f, f = x.f PROVE \A e : Usable(e, f)' = Usable(e, f)
  BY <1>3
<1> QED BY <1>1, <1>2, <1>4, <1>5 DEF Fits, Safe

\* What an entry that threads are in must survive: every step of the library
\* but the uninstall of its handle, which waits until threads have left.
LEMMA UsableControl ==
  ASSUME IInv, Disciplined, ControlCall \/ ControlStep,
         NEW th \in Threads, NEW e \in Code, NEW f \in Targets,
         "drain" \in Rules, e \in Using(thread[th]), Usable(e, f)
  PROVE  Usable(e, f)'
<1>0. Structure /\ TypeOK /\ CallOK /\ Next
  BY ControlIsNext DEF IInv, Structure
<1>1. call.pc = "unprotect" => e.page # page
  <2> SUFFICES ASSUME call.pc = "unprotect" PROVE e.page # page
    OBVIOUS
  <2>1. call.op = "uninstall" /\ page \in PagesOf(call.h) /\ call.h \in Handles
    BY <1>0 DEF CallOK, Running, PagesOf, page, TypeOK
  <2> QED BY <2>1 DEF Usable
<1>2. UninstallReturn => e.page \notin PagesOf(call.h)
  <2>1. UninstallReturn => call.op = "uninstall" /\ call.h \in Handles
    BY <1>0 DEF UninstallReturn, CallOK, Running, TypeOK
  <2> QED BY <2>1 DEF Usable
<1>3. Sound(e, f)'
  BY <1>0, <1>1, <1>2, SoundStep DEF Usable, Disciplined
<1>4. ASSUME NEW h \in Handles, call'.op = "uninstall", call'.h = h PROVE e.page \notin PagesOf(h)'
  <2>1. CASE ControlStep
    <3>1. call.op = "uninstall" /\ call'.h = call.h /\ UNCHANGED <<page_list, entries>>
      BY <1>0, <1>4, <2>1, StepCall DEF ControlStep
    <3> QED BY <1>4, <3>1, SameZone DEF Usable
  <2>2. CASE ControlCall
    <3>1. Start(h, call'.op) /\ Drained(h)
      BY <1>0, <1>4, <2>2, ControlStarts
    <3>2. UNCHANGED <<page_list, entries>>
      BY <3>1 DEF Start, handleVars, pageVars
    <3>3. e.page \notin PagesOf(h)
      BY <3>1 DEF Drained
    <3> QED BY <3>2, <3>3, SameZone
  <2> QED BY <2>1, <2>2
<1>5. e # Original
  BY DEF Usable
<1> QED BY <1>3, <1>4, <1>5 DEF Usable

LEMMA FitsControl ==
  ASSUME IInv, UseInv, Disciplined, {"stop", "drain"} \subseteq Rules, ControlCall \/ ControlStep
  PROVE  UseInv'
<1>0. Structure /\ CallOK /\ thread' = thread
  BY DEF IInv, Structure, ControlCall, ControlStep
<1>1. ASSUME NEW th \in Threads, NEW x, x = thread[th] PROVE Fits(x)'
  <2>1. x \in Spot /\ Fits(x)
    BY <1>1 DEF UseInv
  <2>2. ASSUME NEW e \in Using(x), NEW f, f = x.f PROVE Usable(e, f)'
    <3>1. e \in Code /\ x.at # "out"
      <4>1. CASE e = x.e /\ x.at \in Callbacks
        BY <2>1, <4>1, SpotParts DEF Callbacks
      <4>2. CASE \E k \in DOMAIN x.hooks : e = x.hooks[k]
        BY <2>1, <4>2, SpotParts DEF Fits
      <4> QED BY <2>2, <4>1, <4>2 DEF Using, Callbacks
    <3>2. x.f \in Targets /\ Usable(e, x.f)
      BY <2>1, <2>2, <3>1 DEF Fits
    <3> QED BY <1>1, <2>2, <3>1, <3>2, UsableControl
  <2>3. ASSUME InTarget(x), NEW h \in Handles, call'.op # "none", call'.h = h PROVE x.f \notin Zone(h)'
    <3>1. CASE ControlStep
      <4>1. call.op # "none" /\ call'.h = call.h /\ UNCHANGED <<page_list, entries>>
        BY <1>0, <2>3, <3>1, StepCall DEF ControlStep
      <4> QED BY <2>1, <2>3, <4>1, SameZone DEF Fits
    <3>2. CASE ControlCall
      <4>1. Start(h, call'.op) /\ Quiet(h)
        BY <1>0, <2>3, <3>2, ControlStarts
      <4>2. UNCHANGED <<page_list, entries>>
        BY <4>1 DEF Start, handleVars, pageVars
      <4> QED BY <1>1, <2>3, <4>1, <4>2, SameZone DEF Quiet
    <3> QED BY <3>1, <3>2
  <2>4. Using(x)' = Using(x) /\ InTarget(x)' = InTarget(x)
    BY DEF Using, InTarget
  <2> QED BY <2>1, <2>2, <2>3, <2>4 DEF Fits
<1> QED BY <1>0, <1>1 DEF UseInv
-----------------------------------------------------------------------------
(* The steps of threads *)

\* What Go leaves to show.
LEMMA GoFits ==
  ASSUME UseInv, NEW th \in Threads, thread[th].at # "out", NEW sound, NEW y, Go(th, sound, y),
         sound => Fits(y)
  PROVE  UseInv'
<1>1. thread \in [Threads -> Spot] /\ \A u \in Threads : Fits(thread[u])
  BY DEF UseInv
<1>2. PICK z : Fits(z) /\ thread' = [thread EXCEPT ![th] = z]
  <2>1. CASE sound
    BY <2>1 DEF Go
  <2>2. CASE ~sound
    <3>1. thread' = [thread EXCEPT ![th] = [thread[th] EXCEPT !.at = "fault"]]
      BY <1>1, <2>2 DEF Go
    <3>2. ASSUME NEW x, Fits(x), x.at # "out" PROVE Fits([x EXCEPT !.at = "fault"])
      BY <3>2, MoveOn DEF Callbacks
    <3>3. Fits([thread[th] EXCEPT !.at = "fault"])
      BY <1>1, <3>2
    <3> QED BY <3>1, <3>3
  <2> QED BY <2>1, <2>2
<1>3. z \in Spot
  BY <1>2 DEF Fits
<1>4. ASSUME NEW x, Fits(x) PROVE Fits(x)'
  BY <1>4, SameFits DEF Go
<1>5. thread' \in [Threads -> Spot] /\ \A u \in Threads : thread'[u] = z \/ thread'[u] = thread[u]
  BY <1>1, <1>2, <1>3
<1>6. ASSUME NEW u \in Threads, NEW x, x = thread'[u] PROVE Fits(x)'
  BY <1>1, <1>2, <1>4, <1>5, <1>6
<1> QED BY <1>5, <1>6 DEF UseInv

LEMMA FitsThread ==
  ASSUME IInv, UseInv, "stop" \in Rules, NEW th \in Threads, ThreadStep(th)
  PROVE  UseInv'
<1> DEFINE t == thread[th]
<1>0. Fits(t) /\ t \in Spot
  BY DEF UseInv, Fits
<1>i. TypeOK /\ CallOK /\ CodeSound /\ OldSound /\ NoneSaved
  BY DEF IInv, Structure, JumpInv
<1>a. t.at # "out" => t.f \in Targets
  BY <1>0 DEF Fits
<1> HIDE DEF t
\* What the first bytes of a target lead to when a thread may execute them.
<1>b. ASSUME t.f \in Targets, \A h \in Handles : call.op # "none" /\ call.h = h => t.f \notin Zone(h)
      PROVE  /\ code[t.f] \in Code /\ Sound(code[t.f], t.f)
             /\ \A h \in Handles : call.op = "uninstall" /\ call.h = h => code[t.f].page \notin PagesOf(h)
  <2>1. code[t.f] \in Code /\ Sound(code[t.f], t.f)
    BY <1>b, <1>i DEF TypeOK, CodeSound
  <2>2. ASSUME NEW h \in Handles, call.op = "uninstall", call.h = h, code[t.f].page \in PagesOf(h) PROVE FALSE
    <3>1. code[t.f] # Original
      BY <1>i, <2>2, PagesOfTyped DEF Original
    <3>2. t.f \in TargetsOf(h)
      BY <1>b, <2>1, <2>2, <3>1 DEF Sound, TargetsOf
    <3>3. t.f \in Zone(h)
      BY <3>2, <1>b DEF Zone
    <3> QED BY <1>b, <2>2, <3>3
  <2> QED BY <2>1, <2>2
<1>1. CASE Fetch(th)
  <2> DEFINE y == [t EXCEPT !.at = "prologue", !.e = code[t.f]]
  <2>1. t.at = "first" /\ Go(th, Executable(t.f) /\ ~Torn(t.f), y)
    BY <1>1 DEF Fetch, t
  <2>2. t.f \in Targets /\ InTarget(t) /\ code[t.f] \in Code
    BY <1>a, <1>i, <2>1 DEF InTarget, TypeOK
  <2>3. y \in Spot /\ y.at = "prologue" /\ y.f = t.f /\ y.hooks = t.hooks
    BY <1>0, <2>2 DEF Spot
  <2> HIDE DEF y
  <2>4. Using(y) \subseteq Using(t) /\ InTarget(y)
    BY <2>3 DEF Using, InTarget
  <2>5. Fits(y)
    BY <1>0, <2>2, <2>3, <2>4 DEF Fits
  <2> QED BY <2>1, <2>5, GoFits DEF t
<1>2. CASE Prologue(th)
  <2>1. t.at = "prologue" /\ Go(th, Executable(t.f) /\ ~Torn(t.f) /\ code[t.f] = t.e, Enter(t, t.e))
    BY <1>2 DEF Prologue, t
  <2>2. t.f \in Targets /\ \A h \in Handles : call.op # "none" /\ call.h = h => t.f \notin Zone(h)
    BY <1>0, <1>a, <2>1 DEF InTarget, Fits
  <2>3. code[t.f] = t.e => Fits(Enter(t, t.e))
    BY <1>0, <1>b, <2>1, <2>2, EnterFits
  <2> QED BY <2>1, <2>3, GoFits DEF t
<1>3. CASE Transit(th)
  <2>1. PICK a \in {"caller", "hook"} :
           t.at = "transit" /\ Go(th, IsEntry(t.e, t.f) /\ prot[t.e.page] = "rx", [t EXCEPT !.at = a])
    BY <1>3 DEF Transit, t
  <2>2. Fits([t EXCEPT !.at = a])
    BY <1>0, <2>1, MoveOn DEF Callbacks
  <2> QED BY <2>1, <2>2, GoFits DEF t
<1>4. CASE HookCaller(th)
  <2>1. t.at = "caller" /\ Go(th, IsEntry(t.e, t.f), [t EXCEPT !.at = "prehook"])
    BY <1>4 DEF HookCaller, t
  <2>2. Fits([t EXCEPT !.at = "prehook"])
    BY <1>0, <2>1, MoveOn DEF Callbacks
  <2> QED BY <2>1, <2>2, GoFits DEF t
<1>5. CASE Prehook(th)
  <2>1. PICK a \in {"hook", "trampoline"} : t.at = "prehook" /\ Go(th, TRUE, [t EXCEPT !.at = a])
    BY <1>5 DEF Prehook, t
  <2>2. Fits([t EXCEPT !.at = a])
    BY <1>0, <2>1, MoveOn DEF Callbacks
  <2> QED BY <2>1, <2>2, GoFits DEF t
<1>6. CASE HookCallsOriginal(th)
  <2>1. t.at = "hook" /\ Go(th, TRUE, [t EXCEPT !.at = "trampoline", !.hooks = Append(@, t.e)])
    BY <1>6 DEF HookCallsOriginal, t
  <2> QED BY <1>0, <2>1, PushFits, GoFits DEF t
<1>7. CASE HookReturns(th)
  <2>1. t.at \in {"hook", "after"} /\ Go(th, TRUE, Return(t))
    BY <1>7 DEF HookReturns, t
  <2> QED BY <1>0, <2>1, ReturnFits, GoFits DEF t
<1>8. CASE Trampoline(th)
  <2> DEFINE c == entries[t.e.page][t.e.slot].old
  <2>1. /\ t.at = "trampoline" /\ Open(t.f)
        /\ Go(th, IsEntry(t.e, t.f) /\ prot[t.e.page] = "rx", IF IsEntry(t.e, t.f) THEN Enter(t, c) ELSE t)
    BY <1>8 DEF Trampoline, t
  <2>2. Usable(t.e, t.f) /\ t.f \in Targets
    BY <1>0, <1>a, <2>1 DEF Fits, Using
  <2>3. PICK g \in live : /\ t.e.page \in PagesOf(g) /\ t.e.slot \in SlotsOf(t.e.page)
                          /\ entries[t.e.page][t.e.slot].target = t.f
    BY <2>2 DEF Usable, Sound
  <2>4. c \in Code
    <3>1. t.e.page \in Pages
      BY <1>i, <2>3, PagesOfTyped DEF TypeOK
    <3>2. entries[t.e.page][t.e.slot] \in Entry
      BY <1>i, <2>3, <3>1 DEF TypeOK, SlotsOf
    <3> QED BY <3>2 DEF Entry
  <2>5. Sound(c, t.f) /\ \A h \in Handles : call.op = "uninstall" /\ call.h = h => c.page \notin PagesOf(h)
    BY <1>i, <2>3 DEF OldSound, NoneSaved
  <2>6. \A h \in Handles : call.op # "none" /\ call.h = h => t.f \notin Zone(h)
    BY <2>1 DEF Open
  <2> HIDE DEF c
  <2>7. Fits(Enter(t, c))
    BY <1>0, <2>1, <2>4, <2>5, <2>6, EnterFits
  <2> QED BY <1>0, <2>1, <2>7, GoFits DEF t
<1>9. CASE Body(th)
  <2>1. t.at = "body" /\ Go(th, Executable(t.f), Return(t))
    BY <1>9 DEF Body, t
  <2> QED BY <1>0, <2>1, ReturnFits, GoFits DEF t
<1> QED BY <1>1, <1>2, <1>3, <1>4, <1>5, <1>6, <1>7, <1>8, <1>9 DEF ThreadStep

LEMMA FitsCallTarget ==
  ASSUME UseInv, "stop" \in Rules, NEW th \in Threads, NEW f \in Targets, CallTarget(th, f)
  PROVE  UseInv'
<1> DEFINE y == [Outside EXCEPT !.at = "first", !.f = f]
<1>1. Outside \in Spot
  BY OutsideFits DEF Fits
<1>2. y \in Spot /\ y.at = "first" /\ y.f = f /\ y.hooks = <<>>
  BY <1>1, OutsideFits DEF Spot
<1>3. thread' = [thread EXCEPT ![th] = y] /\ UNCHANGED vars /\ Open(f)
  BY DEF CallTarget, Go
<1> HIDE DEF y
<1>4. Using(y) = {}
  BY <1>2 DEF Using
<1>5. Fits(y)
  BY <1>2, <1>3, <1>4 DEF Fits, Open
<1>6. thread' \in [Threads -> Spot] /\ \A u \in Threads : thread'[u] = y \/ thread'[u] = thread[u]
  BY <1>2, <1>3 DEF UseInv
<1>7. ASSUME NEW u \in Threads, NEW x, x = thread'[u] PROVE Fits(x)'
  <2>1. Fits(x)
    BY <1>5, <1>6, <1>7 DEF UseInv
  <2> QED BY <1>3, <2>1, SameFits
<1> QED BY <1>6, <1>7 DEF UseInv

\* The library goes its way, whatever threads do.
LEMMA ExecImplies == ExecSpec => Spec
<1>1. ExecInit => Init
  BY DEF ExecInit
<1>2. [ExecNext]_execVars => [Next]_vars
  <2>1. ASSUME NEW th \in Threads, ThreadStep(th) \/ \E f \in Targets : CallTarget(th, f) PROVE UNCHANGED vars
    BY <2>1 DEF ThreadStep, CallTarget, Fetch, Prologue, Transit, HookCaller, Prehook,
                HookCallsOriginal, HookReturns, Trampoline, Body, Go
  <2>2. UNCHANGED execVars => UNCHANGED vars
    BY DEF execVars
  <2> QED BY <2>1, <2>2, ControlIsNext DEF ExecNext
<1> QED BY <1>1, <1>2, PTL DEF ExecSpec, Spec

\* Where threads are while handles are installed, uninstalled and destroyed, for
\* an application that stops threads in the targets of a handle and lets them
\* leave its callbacks before it is uninstalled.
THEOREM UseInvariance ==
  ASSUME Disciplined, {"stop", "drain"} \subseteq Rules
  PROVE  ExecSpec => []UseInv
<1>1. ExecInit => UseInv
  <2> SUFFICES ASSUME ExecInit PROVE UseInv
    OBVIOUS
  <2>1. thread = [th \in Threads |-> Outside] /\ Outside \in Spot
    BY OutsideFits DEF ExecInit, Fits
  <2> QED BY <2>1, OutsideFits DEF UseInv
<1>2. IInv /\ UseInv /\ [ExecNext]_execVars => UseInv'
  <2> SUFFICES ASSUME IInv, UseInv, [ExecNext]_execVars PROVE UseInv'
    OBVIOUS
  <2>1. CASE ControlCall \/ ControlStep
    BY <2>1, FitsControl
  <2>2. ASSUME NEW th \in Threads, ThreadStep(th) PROVE UseInv'
    BY <2>2, FitsThread
  <2>3. ASSUME NEW th \in Threads, NEW f \in Targets, CallTarget(th, f) PROVE UseInv'
    BY <2>3, FitsCallTarget
  <2>4. CASE UNCHANGED execVars
    <3>1. UNCHANGED vars /\ thread' = thread
      BY <2>4 DEF execVars
    <3>2. ASSUME NEW u \in Threads, NEW x, x = thread[u] PROVE Fits(x)'
      BY <3>1, <3>2, SameFits DEF UseInv
    <3> QED BY <3>1, <3>2 DEF UseInv
  <2> QED BY <2>1, <2>2, <2>3, <2>4 DEF ExecNext
<1>3. ExecSpec => []IInv
  BY ExecImplies, Invariance, PTL
<1> QED BY <1>1, <1>2, <1>3, PTL DEF ExecSpec

\* For any number of threads, callbacks run and entries are read only while
\* their handle is engaged (funchook.c:196-214), when the client is disciplined
\* and the application stops threads in targets and drains callbacks.
THEOREM CallbacksTheorem ==
  ASSUME Disciplined, {"stop", "drain"} \subseteq Rules
  PROVE  ExecSpec => []CallbacksWhileEngaged
<1>1. UseInv => CallbacksWhileEngaged
  BY DEF UseInv, Fits, Usable, Sound, CallbacksWhileEngaged
<1> QED BY <1>1, UseInvariance, PTL
-----------------------------------------------------------------------------
(***************************************************************************)
(* No thread faults.  Memory that cannot be executed is around a target of *)
(* the handle at work or of one whose last call failed; the rules keep     *)
(* threads out of both.                                                    *)
(***************************************************************************)

LEMMA WinExecutableStep ==
  ASSUME Structure, WinExecutable, Next
  PROVE  WinExecutable'
<1>0. Structure /\ TypeOK
  BY DEF Structure
<1>1. CASE UnprotectBegin
  <2>1. entry.target \in Targets /\ os' = os
    BY <1>0, <1>1, CurrentEntry DEF UnprotectBegin
  <2>2. CASE UNCHANGED <<tprot, protect>>
    BY <2>1, <2>2 DEF WinExecutable
  <2>3. ASSUME NEW try \in Unprotected, tprot' = SetProtection(entry.target, try), protect' = Found(entry.target)
        PROVE  WinExecutable'
    <3>1. addr[entry.target] \div page_size \in Memory
      BY <2>1, FirstPage
    <3> QED BY <2>1, <2>3, <3>1 DEF WinExecutable, Unprotected, SetProtection, Found
  <2> QED BY <1>1, <2>2, <2>3 DEF UnprotectBegin
<1>2. CASE UnprotectEnd
  BY <1>2 DEF UnprotectEnd, WinExecutable, SetProtection, Reprotected
<1>3. CASE ~UnprotectBegin /\ ~UnprotectEnd
  <2>1. UNCHANGED <<os, tprot, protect>>
    BY <1>3 DEF Next, ClientCall, Step, Create, Destroy, FreeHandle, Refuse, Prepare, PrepareReuse,
       PrepareNewPage, PrepareNoSpace, PrepareFails, InstallCall, UninstallCall, Start, WriteCode,
       PageProtect, InstallNextPage, InstallReturn, Finish, UninstallPage, UninstallLastEntry,
       PageUnprotect, UninstallReturn, targetVars
  <2> QED BY <2>1 DEF WinExecutable
<1> QED BY <1>1, <1>2, <1>3

LEMMA WinExecutableInvariance == Spec => []WinExecutable
<1>1. Init => WinExecutable
  BY DEF Init, WinExecutable
<1>2. Structure /\ WinExecutable /\ [Next]_vars => WinExecutable'
  <2>1. WinExecutable /\ UNCHANGED vars => WinExecutable'
    BY DEF WinExecutable, vars, targetVars
  <2> QED BY <2>1, WinExecutableStep
<1> QED BY <1>1, <1>2, StructureTheorem, PTL DEF Spec

\* Calls of the client make no function part of the zone of a failed handle.
LEMMA ClientZone ==
  ASSUME Structure, ClientCall, "finish_install" \in Discipline, NEW h \in live', failed'[h]
  PROVE  h \in live /\ failed[h] /\ Zone(h)' \subseteq Zone(h)
<1>0. TypeOK /\ PagesOwnedOnce
  BY DEF Structure
<1>a. ASSUME h \in live, failed[h], page_list'[h] = page_list[h],
             \A p \in PagesOf(h) : \A i \in SlotsOf(p)' : i \in SlotsOf(p) /\ entries'[p][i] = entries[p][i]
      PROVE  h \in live /\ failed[h] /\ Zone(h)' \subseteq Zone(h)
  <2>1. PagesOf(h)' = PagesOf(h)
    BY <1>a DEF PagesOf
  <2>2. TargetsOf(h)' \subseteq TargetsOf(h)
    BY <1>a, <2>1 DEF TargetsOf, SlotsOf
  <2> QED BY <1>a, <2>2 DEF Zone, MemoryOf, RoundDown, RoundUp
<1>c. ASSUME UNCHANGED <<handleVars, pageVars>> PROVE h \in live /\ failed[h] /\ Zone(h)' \subseteq Zone(h)
  BY <1>a, <1>c DEF handleVars, pageVars, SlotsOf
<1>1. ASSUME NEW g \in Handles, Create(g) PROVE h \in live /\ failed[h] /\ Zone(h)' \subseteq Zone(h)
  <2>1. h # g
    BY <1>0, <1>1 DEF Create, TypeOK
  <2>2. h \in live /\ failed[h] /\ page_list'[h] = page_list[h] /\ UNCHANGED entries
    BY <1>0, <1>1, <2>1 DEF Create, TypeOK, pageVars
  <2> QED BY <1>a, <2>2 DEF SlotsOf
<1>2. ASSUME NEW g \in Handles, Destroy(g) PROVE h \in live /\ failed[h] /\ Zone(h)' \subseteq Zone(h)
  <2>1. CASE FreeHandle(g)
    <3>1. h # g /\ h \in live /\ failed[h] /\ page_list'[h] = page_list[h]
      BY <1>0, <2>1 DEF FreeHandle, TypeOK
    <3>2. ASSUME NEW p \in PagesOf(h) PROVE \A i \in SlotsOf(p)' : i \in SlotsOf(p) /\ entries'[p][i] = entries[p][i]
      <4>1. p \in Pages
        BY <1>0, <3>1, PagesOfTyped DEF TypeOK
      <4>2. CASE p \in PagesOf(g)
        <5>1. entries'[p] = <<>>
          BY <2>1, <4>1, <4>2 DEF FreeHandle
        <5> QED BY <5>1 DEF SlotsOf
      <4>3. CASE p \notin PagesOf(g)
        <5>1. entries'[p] = entries[p]
          BY <2>1, <4>1, <4>3 DEF FreeHandle
        <5> QED BY <5>1 DEF SlotsOf
      <4> QED BY <4>2, <4>3
    <3> QED BY <1>a, <3>1, <3>2
  <2> QED BY <1>2, <1>c, <2>1 DEF Destroy, Refuse
<1>3. ASSUME NEW g \in Handles, NEW u \in Targets, Prepare(g, u)
      PROVE  h \in live /\ failed[h] /\ Zone(h)' \subseteq Zone(h)
  <2>1. CASE PrepareReuse(g, u) /\ ~installed[g]
    <3>0. UNCHANGED <<live, failed, page_list>>
      BY <2>1 DEF PrepareReuse, handleVars
    <3>1. h # g /\ g \in live /\ h \in live
      BY <1>3, <2>1, <3>0 DEF Prepare, Calls, FinishInstall, Unfinished
    <3>2. PICK j \in DOMAIN page_list[g] : FillEntry(page_list[g][j], u)
      BY <2>1 DEF PrepareReuse, Candidates
    <3>3. ASSUME NEW p \in PagesOf(h) PROVE entries'[p] = entries[p]
      <4>1. p \in Pages /\ p # page_list[g][j]
        BY <1>0, <3>1, <3>2, PagesOfTyped DEF TypeOK, PagesOwnedOnce, PagesOf
      <4> QED BY <1>0, <3>2, <4>1 DEF FillEntry, TypeOK
    <3> QED BY <1>a, <3>0, <3>1, <3>3 DEF SlotsOf
  <2>2. CASE PrepareNewPage(g, u) /\ ~installed[g]
    <3>0. UNCHANGED <<live, failed>>
      BY <2>2 DEF PrepareNewPage
    <3>1. h # g /\ g \in live /\ h \in live
      BY <1>3, <2>2, <3>0 DEF Prepare, Calls, FinishInstall, Unfinished
    <3>2. PICK q \in Pages : /\ prot[q] = "none"
                             /\ page_list' = [page_list EXCEPT ![g] = <<q>> \o @]
                             /\ FillNewPage(q, u)
      BY <2>2 DEF PrepareNewPage
    <3>3. ASSUME NEW p \in PagesOf(h) PROVE entries'[p] = entries[p]
      <4>1. p \in Pages /\ prot[p] # "none"
        BY <1>0, <3>1, PagesOfTyped DEF TypeOK, PagesOwnedOnce
      <4> QED BY <1>0, <3>2, <4>1 DEF FillNewPage, TypeOK
    <3>4. page_list'[h] = page_list[h]
      BY <1>0, <3>1, <3>2 DEF TypeOK
    <3> QED BY <1>a, <3>0, <3>1, <3>3, <3>4 DEF SlotsOf
  <2> QED BY <1>3, <1>c, <2>1, <2>2 DEF Prepare, PrepareNoSpace, PrepareFails, Refuse
<1>4. ASSUME NEW g \in Handles, InstallCall(g) \/ UninstallCall(g)
      PROVE  h \in live /\ failed[h] /\ Zone(h)' \subseteq Zone(h)
  BY <1>4, <1>c DEF InstallCall, UninstallCall, Start, Refuse
<1> QED BY <1>1, <1>2, <1>3, <1>4 DEF ClientCall

\* The target that is being patched is in the zone of the handle at work.
LEMMA PatchInZone ==
  ASSUME Structure, call.pc \in {"write", "end"}
  PROVE  /\ call.h \in Handles /\ call.h \in live /\ call.op # "none"
         /\ entry.target \in TargetsOf(call.h) /\ entry.target \in Zone(call.h)
<1>1. /\ call.h \in live /\ call.h \in Handles /\ page \in PagesOf(call.h)
      /\ call.ei \in SlotsOf(page) /\ entry = entries[page][call.ei] /\ entry.target \in Targets
  BY CurrentEntry
<1>2. entry.target \in TargetsOf(call.h)
  BY <1>1 DEF TargetsOf
<1>3. entry.target \in Zone(call.h)
  BY <1>1, <1>2 DEF Zone
<1> QED BY <1>1, <1>2, <1>3 DEF Structure, CallOK, Running

\* A thread in a target can execute it.
LEMMA CanExecute ==
  ASSUME Structure, WinExecutable, os = "unix" \/ ~WinEndFails => Excused, "page" \in Rules,
         NEW x, Fits(x), Safe(x), InTarget(x)
  PROVE  Executable(x.f) /\ ~Torn(x.f)
<1>1. ~Torn(x.f)
  <2> SUFFICES ASSUME call.pc = "write", entry.target = x.f PROVE FALSE
    BY DEF Torn
  <2> QED BY PatchInZone DEF Fits
<1>2. ASSUME NEW m \in MemoryOf(x.f), tprot[m] = "rw" PROVE FALSE
  <2>0. m \in Memory /\ x.f \in Targets
    BY <1>2 DEF MemoryOf, Fits, InTarget
  <2>1. os = "unix" /\ Excused
    <3>1. os \in {"unix", "windows"}
      BY ConstantsAssumption DEF Structure, TypeOK
    <3> QED BY <1>2, <2>0, <3>1 DEF WinExecutable
  <2>2. CASE Patching(m)
    <3>1. x.f \in Zone(call.h)
      BY <1>2, <2>0, <2>2, PatchInZone DEF Patching, Zone
    <3> QED BY <2>2, <3>1, PatchInZone DEF Patching, Fits
  <2>3. CASE Owed(m)
    <3>1. PICK h \in live : failed[h] /\ \E t \in TargetsOf(h) : m \in MemoryOf(t)
      BY <2>3, OwedByTarget
    <3>2. x.f \in Zone(h)
      BY <1>2, <2>0, <3>1 DEF Zone
    <3> QED BY <3>1, <3>2 DEF Safe
  <2> QED BY <1>2, <2>0, <2>1, <2>2, <2>3 DEF Excused
<1> QED BY <1>1, <1>2 DEF Executable

\* ... and a thread in the code of an entry can execute that.
LEMMA CanLand ==
  ASSUME Structure, NEW x, Fits(x), x.at \in Callbacks
  PROVE  IsEntry(x.e, x.f) /\ prot[x.e.page] = "rx"
<1>1. x.e # Original /\ Sound(x.e, x.f)
  BY DEF Fits, Using, Usable, Callbacks
<1>2. PICK h \in live : /\ x.e.page \in PagesOf(h) /\ x.e.slot \in SlotsOf(x.e.page)
                        /\ entries[x.e.page][x.e.slot].target = x.f /\ prot[x.e.page] = "rx"
  BY <1>1 DEF Sound
<1>3. x.e.page \in Pages
  BY <1>2, PagesOfTyped DEF Structure, TypeOK
<1> QED BY <1>2, <1>3 DEF IsEntry

LEMMA SafeControl ==
  ASSUME Structure, UseInv, SafeInv, "finish_install" \in Discipline, ControlCall \/ ControlStep
  PROVE  SafeInv'
<1>0. TypeOK /\ CallOK /\ Next /\ thread' = thread
  BY ControlIsNext DEF Structure, ControlCall, ControlStep
<1>1. ASSUME NEW th \in Threads, NEW x, x = thread[th] PROVE Safe(x)'
  <2>1. Fits(x) /\ Safe(x)
    BY <1>1 DEF UseInv, SafeInv
  <2>2. ASSUME InTarget(x), NEW h \in live', failed'[h] PROVE x.f \notin Zone(h)'
    <3>1. CASE ControlStep
      <4>1. call.op # "none" /\ UNCHANGED <<live, page_list, entries>> /\ Step
        BY <3>1, StepCall DEF ControlStep
      <4>2. failed[h] \/ h = call.h
        <5>1. h \in Handles
          BY <1>0, <4>1 DEF TypeOK
        <5> QED BY <1>0, <2>2, <4>1, <5>1 DEF TypeOK, Step, UnprotectBegin, WriteCode, UnprotectEnd, PageProtect,
               InstallNextPage, InstallReturn, UninstallPage, UninstallLastEntry, PageUnprotect,
               UninstallReturn, GiveUp, Finish, handleVars
      <4>3. h \in Handles /\ h \in live
        BY <1>0, <4>1 DEF TypeOK
      <4>4. x.f \notin Zone(h)
        BY <2>1, <2>2, <4>1, <4>2, <4>3 DEF Fits, Safe
      <4> QED BY <4>1, <4>4, SameZone
    <3>2. CASE ControlCall
      <4>1. ClientCall
        BY <3>2 DEF ControlCall, ClientCall
      <4>2. h \in live /\ failed[h] /\ Zone(h)' \subseteq Zone(h)
        BY <2>2, <4>1, ClientZone
      <4> QED BY <2>1, <2>2, <4>2 DEF Safe
    <3> QED BY <3>1, <3>2
  <2>3. ASSUME x.at = "prologue" PROVE code'[x.f] = code[x.f]
    <3>1. CASE ~WriteCode
      BY <1>0, <3>1, OnlyWriteCode
    <3>2. CASE WriteCode
      <4>1. InTarget(x) /\ call.pc = "write" /\ code' = [code EXCEPT ![entry.target] = NewCode]
        BY <2>3, <3>2 DEF InTarget, WriteCode
      <4>2. x.f # entry.target
        BY <2>1, <4>1, PatchInZone DEF Fits
      <4>3. x.f \in Targets
        BY <2>1, <2>3 DEF Fits
      <4> QED BY <1>0, <4>1, <4>2, <4>3 DEF TypeOK
    <3> QED BY <3>1, <3>2
  <2>4. InTarget(x)' = InTarget(x)
    BY DEF InTarget
  <2> QED BY <2>1, <2>2, <2>3, <2>4 DEF Safe
<1> QED BY <1>0, <1>1 DEF SafeInv

LEMMA GoSafe ==
  ASSUME UseInv, SafeInv, NEW th \in Threads, NEW y, Go(th, TRUE, y), Safe(y)
  PROVE  SafeInv'
<1>1. thread' = [thread EXCEPT ![th] = y] /\ UNCHANGED vars
  BY DEF Go
<1>2. \A u \in Threads : thread'[u] = y \/ thread'[u] = thread[u]
  BY <1>1 DEF UseInv
<1>3. ASSUME NEW u \in Threads, NEW x, x = thread'[u] PROVE Safe(x)'
  <2>1. Safe(x)
    BY <1>2, <1>3 DEF SafeInv
  <2> QED BY <1>1, <2>1, SameFits
<1> QED BY <1>3 DEF SafeInv

LEMMA SafeThread ==
  ASSUME IInv, UseInv, SafeInv, WinExecutable, os = "unix" \/ ~WinEndFails => Excused,
         {"page", "finish"} \subseteq Rules, NEW th \in Threads, ThreadStep(th)
  PROVE  SafeInv'
<1> DEFINE t == thread[th]
<1>0. Structure /\ Fits(t) /\ Safe(t) /\ t \in Spot
  BY DEF IInv, UseInv, SafeInv, Fits
<1>1. InTarget(t) => Executable(t.f) /\ ~Torn(t.f)
  BY <1>0, CanExecute
<1>2. t.at \in Callbacks => IsEntry(t.e, t.f) /\ prot[t.e.page] = "rx"
  BY <1>0, CanLand
<1> HIDE DEF t
\* In callbacks there is nothing more to keep.
<1>a. ASSUME NEW y, ~InTarget(y), y.at # "fault", y.at # "prologue", Go(th, TRUE, y) PROVE SafeInv'
  BY <1>a, GoSafe DEF Safe
<1>b. ASSUME NEW a \in Callbacks PROVE ~InTarget([t EXCEPT !.at = a]) /\ [t EXCEPT !.at = a].at = a
  BY <1>0, SpotParts DEF InTarget, Callbacks
<1>c. ASSUME NEW c, InTarget(t) \/ Open(t.f) PROVE Safe(Enter(t, c))
  <2> DEFINE y == Enter(t, c)
  <2>1. y.f = t.f /\ y.at \in {"body", "hook", "transit"}
    BY <1>0 DEF Enter, Spot
  <2>2. \A h \in live : failed[h] => t.f \notin Zone(h)
    BY <1>0, <1>c DEF Safe, Open
  <2> HIDE DEF y
  <2> QED BY <2>1, <2>2 DEF Safe, y
<1>3. CASE Fetch(th)
  <2> DEFINE y == [t EXCEPT !.at = "prologue", !.e = code[t.f]]
  <2>1. t.at = "first" /\ Go(th, Executable(t.f) /\ ~Torn(t.f), y)
    BY <1>3 DEF Fetch, t
  <2>2. InTarget(t)
    BY <2>1 DEF InTarget
  <2>3. y.at = "prologue" /\ y.f = t.f /\ y.e = code[t.f]
    BY <1>0 DEF Spot
  <2> HIDE DEF y
  <2>4. Safe(y)
    BY <1>0, <2>2, <2>3 DEF Safe
  <2>5. Go(th, TRUE, y)
    BY <1>1, <2>1, <2>2 DEF Go
  <2> QED BY <2>4, <2>5, GoSafe
<1>4. CASE Prologue(th)
  <2>1. t.at = "prologue" /\ Go(th, Executable(t.f) /\ ~Torn(t.f) /\ code[t.f] = t.e, Enter(t, t.e))
    BY <1>4 DEF Prologue, t
  <2>2. InTarget(t) /\ code[t.f] = t.e
    BY <1>0, <2>1 DEF InTarget, Safe
  <2>3. Go(th, TRUE, Enter(t, t.e))
    BY <1>1, <2>1, <2>2 DEF Go
  <2> QED BY <1>c, <2>2, <2>3, GoSafe
<1>5. CASE Transit(th)
  <2>1. PICK a \in {"caller", "hook"} :
           t.at = "transit" /\ Go(th, IsEntry(t.e, t.f) /\ prot[t.e.page] = "rx", [t EXCEPT !.at = a])
    BY <1>5 DEF Transit, t
  <2>2. Go(th, TRUE, [t EXCEPT !.at = a])
    BY <1>2, <2>1 DEF Go, Callbacks
  <2> QED BY <1>a, <1>b, <2>2 DEF Callbacks
<1>6. CASE HookCaller(th)
  <2>1. t.at = "caller" /\ Go(th, IsEntry(t.e, t.f), [t EXCEPT !.at = "prehook"])
    BY <1>6 DEF HookCaller, t
  <2>2. Go(th, TRUE, [t EXCEPT !.at = "prehook"])
    BY <1>2, <2>1 DEF Go, Callbacks
  <2> QED BY <1>a, <1>b, <2>2 DEF Callbacks
<1>7. CASE Prehook(th)
  <2>1. PICK a \in {"hook", "trampoline"} : Go(th, TRUE, [t EXCEPT !.at = a])
    BY <1>7 DEF Prehook, t
  <2> QED BY <1>a, <1>b, <2>1 DEF Callbacks
<1>8. CASE HookCallsOriginal(th)
  <2> DEFINE y == [t EXCEPT !.at = "trampoline", !.hooks = Append(@, t.e)]
  <2>1. Go(th, TRUE, y)
    BY <1>8 DEF HookCallsOriginal, t
  <2>2. y.at = "trampoline"
    BY <1>0 DEF Spot
  <2> HIDE DEF y
  <2> QED BY <1>a, <2>1, <2>2 DEF InTarget
<1>9. CASE HookReturns(th)
  <2>1. t.at # "out" /\ Go(th, TRUE, Return(t))
    BY <1>9 DEF HookReturns, t
  <2> QED BY <1>0, <1>a, <2>1, ReturnFits
<1>10. CASE Trampoline(th)
  <2> DEFINE c == entries[t.e.page][t.e.slot].old
  <2>1. /\ t.at = "trampoline" /\ Open(t.f)
        /\ Go(th, IsEntry(t.e, t.f) /\ prot[t.e.page] = "rx", IF IsEntry(t.e, t.f) THEN Enter(t, c) ELSE t)
    BY <1>10 DEF Trampoline, t
  <2> HIDE DEF c
  <2>2. Go(th, TRUE, Enter(t, c))
    BY <1>2, <2>1 DEF Go, Callbacks
  <2> QED BY <1>c, <2>1, <2>2, GoSafe
<1>11. CASE Body(th)
  <2>1. t.at = "body" /\ Go(th, Executable(t.f), Return(t))
    BY <1>11 DEF Body, t
  <2>2. Go(th, TRUE, Return(t))
    BY <1>1, <2>1 DEF Go, InTarget
  <2> QED BY <1>0, <1>a, <2>1, <2>2, ReturnFits
<1> QED BY <1>3, <1>4, <1>5, <1>6, <1>7, <1>8, <1>9, <1>10, <1>11 DEF ThreadStep

\* For any number of threads and of handles stacked on a target, no thread
\* executes memory that is unmapped, not executable, half written or changed
\* under it, whichever steps of install and uninstall fail (funchook.c:378-447):
\* the two rules for the client and the four for the application are enough.
THEOREM NoThreadFaultsTheorem ==
  ASSUME Disciplined, {"stop", "drain", "page", "finish"} \subseteq Rules
  PROVE  ExecSpec => []NoThreadFaults
<1> DEFINE P == os = "unix" \/ ~WinEndFails => Excused
<1>1. ExecInit => SafeInv
  BY OutsideFits DEF ExecInit, SafeInv, Safe, InTarget
<1>2. IInv /\ UseInv /\ WinExecutable /\ P /\ SafeInv /\ [ExecNext]_execVars => SafeInv'
  <2> SUFFICES ASSUME IInv, UseInv, WinExecutable, P, SafeInv, [ExecNext]_execVars PROVE SafeInv'
    OBVIOUS
  <2>1. CASE ControlCall \/ ControlStep
    BY <2>1, SafeControl DEF IInv, Disciplined
  <2>2. ASSUME NEW th \in Threads, ThreadStep(th) PROVE SafeInv'
    BY <2>2, SafeThread
  <2>3. ASSUME NEW th \in Threads, NEW f \in Targets, CallTarget(th, f) PROVE SafeInv'
    <3> DEFINE y == [Outside EXCEPT !.at = "first", !.f = f]
    <3>1. Open(f) /\ Go(th, TRUE, y)
      BY <2>3 DEF CallTarget
    <3>2. y.at = "first" /\ y.f = f
      BY OutsideFits DEF Fits, Spot
    <3> HIDE DEF y
    <3> QED BY <3>1, <3>2, GoSafe DEF Open, Safe
  <2>4. CASE UNCHANGED execVars
    <3>1. UNCHANGED vars /\ thread' = thread
      BY <2>4 DEF execVars
    <3>2. ASSUME NEW u \in Threads, NEW x, x = thread[u] PROVE Safe(x)'
      BY <3>1, <3>2, SameFits DEF SafeInv
    <3> QED BY <3>1, <3>2 DEF SafeInv
  <2> QED BY <2>1, <2>2, <2>3, <2>4 DEF ExecNext
<1>3. ExecSpec => [](IInv /\ WinExecutable)
  BY ExecImplies, Invariance, WinExecutableInvariance, PTL
<1>4. ExecSpec => []P
  <2>1. Spec => []P
    BY ExcusedInvariance DEF Disciplined
  <2> HIDE DEF P
  <2> QED BY <2>1, ExecImplies, PTL
<1>5. ExecSpec => []UseInv
  BY UseInvariance
<1>6. SafeInv => NoThreadFaults
  BY DEF SafeInv, Safe, NoThreadFaults
<1> HIDE DEF P
<1> QED BY <1>1, <1>2, <1>3, <1>4, <1>5, <1>6, PTL DEF ExecSpec
=============================================================================
