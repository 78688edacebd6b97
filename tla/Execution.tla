----------------------------- MODULE Execution -----------------------------
(***************************************************************************)
(* Threads that call targets while Funchook patches them: the way of a     *)
(* call from the first bytes of the target through the transit code        *)
(* (src/src/arch_x86.c, prehook-*.S), funchook_hook_caller and its         *)
(* prehook, the hook function and the trampoline into the rest of the      *)
(* target, composed with every step of install, uninstall and destroy.     *)
(*                                                                         *)
(* A thread that executes memory which is not mapped, not executable or    *)
(* not what it began to execute ends in "fault".  What keeps threads from  *)
(* it are rules for the application.  src/README.md:50, 97 and             *)
(* src/rust/lib.rs:306-310 state part of them.                             *)
(***************************************************************************)
EXTENDS Funchook

CONSTANTS
  Threads,
  Prehooked,   \* the handles whose entries have a prehook
  Direct,      \* <<h, t>>: the patch of h jumps to the hook function itself, not to transit
  MaxDepth,    \* bound on the hooks one thread has called trampolines from
  Rules        \* the rules the application keeps, see Quiet, Drained, Open

ASSUME ExecutionAssumption ==
  /\ Prehooked \subseteq Handles
  /\ Direct \subseteq (Handles \ Prehooked) \X Targets
  /\ MaxDepth \in Nat
  /\ Rules \subseteq {"stop", "drain", "page", "finish"}

VARIABLE thread   \* where each thread is

execVars == <<vars, thread>>

\* f is the target called, e the entry whose code or callback is executing
\* (or the code value found at f), hooks the entries whose hook functions
\* wait for the trampoline to return.
Outside == [at |-> "out", f |-> CHOOSE t \in Targets : TRUE, e |-> Original, hooks |-> <<>>]

\* The instructions of the target itself.
InTarget(t) == t.at \in {"first", "prologue", "body"}

\* The entries whose transit code, trampoline or callbacks t has not left.
Using(t) ==
  {t.hooks[k] : k \in DOMAIN t.hooks}
    \cup (IF t.at \in {"transit", "caller", "prehook", "hook", "after", "trampoline"} THEN {t.e} ELSE {})
-----------------------------------------------------------------------------
(***************************************************************************)
(* The rules.  "stop": no thread executes a target of h while h is         *)
(* installed or uninstalled (src/README.md:97).  "page": nor any function  *)
(* in the same memory.  "drain": nor, when h is uninstalled, its           *)
(* trampolines (src/README.md:50, src/rust/lib.rs:306-310), transit code   *)
(* and callbacks.  "finish": what an install or uninstall that failed left *)
(* behind is not executed until it is repeated.                            *)
(***************************************************************************)
Zone(h) ==
  {f \in Targets : \E t \in TargetsOf(h) :
     f = t \/ ("page" \in Rules /\ MemoryOf(f) \cap MemoryOf(t) # {})}

Quiet(h) ==
  "stop" \in Rules => \A th \in Threads : InTarget(thread[th]) => thread[th].f \notin Zone(h)

Drained(h) ==
  "drain" \in Rules => \A th \in Threads : \A e \in Using(thread[th]) : e.page \notin PagesOf(h)

Open(f) ==
  /\ "stop" \in Rules /\ call.op # "none" => f \notin Zone(call.h)
  /\ "finish" \in Rules => \A h \in live : failed[h] => f \notin Zone(h)

\* The calls of the application to the library.
ControlCall ==
  /\ \E h \in Handles :
       \/ Create(h) \/ Destroy(h)
       \/ \E t \in Targets : Prepare(h, t)
       \/ InstallCall(h) /\ Quiet(h)
       \/ UninstallCall(h) /\ Quiet(h) /\ Drained(h)
  /\ UNCHANGED thread

ControlStep == Step /\ UNCHANGED thread
-----------------------------------------------------------------------------
(* The way of a thread *)

\* th goes on as t when what it executes is sound.  A crash of prepare ends
\* the process.
Go(th, sound, t) ==
  /\ call.pc # "crashed"
  /\ thread' = [thread EXCEPT ![th] = IF sound THEN t ELSE [@ EXCEPT !.at = "fault"]]
  /\ UNCHANGED vars

\* The memory of f can be executed; its first bytes are not being written.
Executable(f) == \A m \in MemoryOf(f) : tprot[m] # "rw"
Torn(f)       == call.pc = "write" /\ entry.target = f

\* The entry e was filled for f and is still there.
IsEntry(e, f) == e.page \in Pages /\ e.slot \in SlotsOf(e.page) /\ entries[e.page][e.slot].target = f

\* Where the code value c leads a thread.
Enter(t, c) ==
  [t EXCEPT !.e = c,
            !.at = IF c = Original THEN "body"
                   ELSE IF \E h \in live : <<h, t.f>> \in Direct /\ c.page \in PagesOf(h) THEN "hook"
                   ELSE "transit"]

Return(t) ==
  IF t.hooks = <<>> THEN Outside
  ELSE [t EXCEPT !.at = "after", !.e = t.hooks[Len(t.hooks)],
                 !.hooks = SubSeq(t.hooks, 1, Len(t.hooks) - 1)]

CallTarget(th, f) ==
  /\ thread[th].at = "out"
  /\ Open(f)
  /\ Go(th, TRUE, [Outside EXCEPT !.at = "first", !.f = f])

\* The first instruction at the target.
Fetch(th) == LET t == thread[th] IN
  /\ t.at = "first"
  /\ Go(th, Executable(t.f) /\ ~Torn(t.f), [t EXCEPT !.at = "prologue", !.e = code[t.f]])

\* The instructions behind it, which the patch overwrites too (or, on arm64,
\* which belong to the patch): they must be those it began to execute.
Prologue(th) == LET t == thread[th] IN
  /\ t.at = "prologue"
  /\ Go(th, Executable(t.f) /\ ~Torn(t.f) /\ code[t.f] = t.e, Enter(t, t.e))

\* The transit code jumps to the hook function, or to the assembler that
\* calls funchook_hook_caller with the address of the entry.
Transit(th) == LET t == thread[th] IN
  /\ t.at = "transit"
  /\ Go(th, IsEntry(t.e, t.f) /\ prot[t.e.page] = "rx",
        [t EXCEPT !.at = IF \E h \in live \cap Prehooked : t.e.page \in PagesOf(h) THEN "caller" ELSE "hook"])

\* funchook_hook_caller reads the entry and calls its prehook.
HookCaller(th) == LET t == thread[th] IN
  /\ t.at = "caller"
  /\ Go(th, IsEntry(t.e, t.f), [t EXCEPT !.at = "prehook"])

\* The prehook leaves a hook function in info, or NULL.
Prehook(th) == LET t == thread[th] IN
  /\ t.at = "prehook"
  /\ \E next \in {"hook", "trampoline"} : Go(th, TRUE, [t EXCEPT !.at = next])

HookCallsOriginal(th) == LET t == thread[th] IN
  /\ t.at = "hook"
  /\ Len(t.hooks) < MaxDepth
  /\ Go(th, TRUE, [t EXCEPT !.at = "trampoline", !.hooks = Append(@, t.e)])

HookReturns(th) == LET t == thread[th] IN
  /\ t.at \in {"hook", "after"}
  /\ Go(th, TRUE, Return(t))

\* Mutant of Trampoline: the trampoline calls what is at the target now.
TrampolineToTarget(th) == LET t == thread[th] IN
  /\ t.at = "trampoline"
  /\ Open(t.f)
  /\ Go(th, IsEntry(t.e, t.f) /\ prot[t.e.page] = "rx", Enter(t, code[t.f]))

\* The trampoline does what the first bytes of the target did at prepare.
Trampoline(th) == LET t == thread[th] IN
  /\ t.at = "trampoline"
  /\ Open(t.f)
  /\ Go(th, IsEntry(t.e, t.f) /\ prot[t.e.page] = "rx",
        IF IsEntry(t.e, t.f) THEN Enter(t, entries[t.e.page][t.e.slot].old) ELSE t)

Body(th) == LET t == thread[th] IN
  /\ t.at = "body"
  /\ Go(th, Executable(t.f), Return(t))

ThreadStep(th) ==
  \/ Fetch(th) \/ Prologue(th) \/ Transit(th) \/ HookCaller(th) \/ Prehook(th)
  \/ HookCallsOriginal(th) \/ HookReturns(th) \/ Trampoline(th) \/ Body(th)

ExecInit == Init /\ thread = [th \in Threads |-> Outside]

ExecNext ==
  \/ ControlCall \/ ControlStep
  \/ \E th \in Threads : ThreadStep(th) \/ \E f \in Targets : CallTarget(th, f)

ExecSpec == ExecInit /\ [][ExecNext]_execVars

\* A call of the library runs on.  Hooks and prehooks return and threads are
\* scheduled; a thread that the application stops while the library works is
\* let go on between two calls.
ExecFairSpec ==
  /\ ExecSpec
  /\ WF_execVars(ControlStep)
  /\ \A th \in Threads : SF_execVars(ThreadStep(th))
-----------------------------------------------------------------------------
(* Properties *)

\* No thread executes memory that is not mapped or not executable, nor bytes
\* that changed under it, wherever it was when install, uninstall and destroy
\* did their steps (funchook.c:378-447) and whichever of them failed.
NoThreadFaults == \A th \in Threads : thread[th].at # "fault"

\* The callbacks of a handle run, and its entries are read, only from the
\* start of its install to the end of its uninstall: "Callback pointers and
\* user data must remain valid until uninstall completes" (src/README.md:95)
\* asks for no more than the code needs (funchook.c:196-214).
CallbacksWhileEngaged ==
  \A th \in Threads : \A e \in Using(thread[th]) :
    \E h \in live : e.page \in PagesOf(h) /\ Engaged(h)

\* A call of a target comes back, through however many handles are stacked on
\* it, unless an install or uninstall that failed is never repeated or prepare
\* ends the process.
ThreadsReturn ==
  \A th \in Threads :
    (thread[th].at # "out")
      ~> (thread[th].at = "out" \/ (\E h \in live : failed[h]) \/ call.pc = "crashed")
=============================================================================
