---------------------------- MODULE RustControl ----------------------------
(***************************************************************************)
(* The owning handle of src/rust/lib.rs over the native library: threads   *)
(* call new, prepare, install, uninstall and drop, each takes the global   *)
(* spin lock CONTROL_LOCK, makes one native call, and new, install and     *)
(* uninstall update the wrapper from its result.                           *)
(*                                                                         *)
(* The native calls are those of module Funchook, seen from the wrapper:   *)
(* a handle exists, it has entries, it is installed, targets jump into it. *)
(* A native call takes two steps, so that two of them can overlap if       *)
(* nothing forbids it.                                                     *)
(***************************************************************************)
EXTENDS Naturals, FiniteSets

CONSTANTS
  Threads,
  Handles,        \* addresses funchook_create can return
  MaxCalls,       \* bound: calls made by a thread
  PrepareErrors   \* what make_trampoline and get_page may return

\* The native result codes and what Error::from_code makes of them.
Errors ==
  [INTERNAL_ERROR           |-> "InternalError",
   OUT_OF_MEMORY            |-> "OutOfMemory",
   ALREADY_INSTALLED        |-> "AlreadyInstalled",
   DISASSEMBLY              |-> "Disassembly",
   IP_RELATIVE_OFFSET       |-> "IpRelativeOffset",
   CANNOT_FIX_IP_RELATIVE   |-> "CannotFixIpRelative",
   FOUND_BACK_JUMP          |-> "FoundBackJump",
   TOO_SHORT_INSTRUCTIONS   |-> "TooShortInstructions",
   MEMORY_ALLOCATION        |-> "MemoryAllocation",
   MEMORY_FUNCTION          |-> "MemoryFunction",
   NOT_INSTALLED            |-> "NotInstalled",
   NO_AVAILABLE_REGISTERS   |-> "NoAvailableRegisters",
   NO_SPACE_NEAR_TARGET_ADDR |-> "NoSpaceNearTargetAddress"]

ASSUME RustAssumption == MaxCalls \in Nat /\ PrepareErrors \subseteq DOMAIN Errors

VARIABLES
  control_lock,  \* CONTROL_LOCK
  pc,            \* of each thread: "out", "try", "spin", "enter", "native" or "update"
  op, arg,       \* the call each thread makes, and its handle
  rv,            \* what the native call returned
  calls,         \* calls made by each thread
  owned,         \* the handles each thread has; they are not Send
  flag,          \* self.installed
  live,          \* the native handles allocated
  prepared,      \* those with a page in funchook->page_list
  installed,     \* funchook->installed
  patched        \* targets of the handle jump into it

vars == <<control_lock, pc, op, arg, rv, calls, owned, flag, live, prepared, installed, patched>>
native == <<live, prepared, installed, patched>>

Ops == {"new", "prepare", "install", "uninstall", "drop"}
Some == CHOOSE h \in Handles : TRUE

Init ==
  /\ control_lock = FALSE
  /\ pc = [t \in Threads |-> "out"]
  /\ op = [t \in Threads |-> "new"] /\ arg = [t \in Threads |-> Some]
  /\ rv = [t \in Threads |-> "Ok"]
  /\ calls = [t \in Threads |-> 0]
  /\ owned = [t \in Threads |-> {}]
  /\ flag = [h \in Handles |-> FALSE]
  /\ live = {} /\ prepared = {} /\ installed = {} /\ patched = {}
-----------------------------------------------------------------------------
\* A thread calls a method of one of its handles, or new.
Begin(t, o, h) ==
  /\ pc[t] = "out" /\ calls[t] < MaxCalls
  /\ IF o = "new" THEN h = Some ELSE h \in owned[t]
  /\ ~(o = "drop" /\ flag[h])
  /\ pc' = [pc EXCEPT ![t] = "try"]
  /\ op' = [op EXCEPT ![t] = o]
  /\ arg' = [arg EXCEPT ![t] = h]
  /\ calls' = [calls EXCEPT ![t] = @ + 1]
  /\ owned' = IF o = "drop" THEN [owned EXCEPT ![t] = @ \ {h}] ELSE owned
  /\ UNCHANGED <<control_lock, rv, flag, native>>

\* drop of an installed handle returns at once and keeps the native one.
DropInstalled(t, h) ==
  /\ pc[t] = "out" /\ calls[t] < MaxCalls
  /\ h \in owned[t] /\ flag[h]
  /\ calls' = [calls EXCEPT ![t] = @ + 1]
  /\ owned' = [owned EXCEPT ![t] = @ \ {h}]
  /\ UNCHANGED <<control_lock, pc, op, arg, rv, flag, native>>
-----------------------------------------------------------------------------
(* ControlGuard::lock.  compare_exchange_weak may also fail with no reason. *)

\* Mutant of Acquire: the guard is bound to _ and dropped at once.
AcquireDropped(t) ==
  /\ pc[t] = "try" /\ ~control_lock
  /\ pc' = [pc EXCEPT ![t] = "enter"]
  /\ UNCHANGED <<control_lock, op, arg, rv, calls, owned, flag, native>>

Acquire(t) ==
  /\ pc[t] = "try" /\ ~control_lock
  /\ control_lock' = TRUE
  /\ pc' = [pc EXCEPT ![t] = "enter"]
  /\ UNCHANGED <<op, arg, rv, calls, owned, flag, native>>

AcquireFails(t) ==
  /\ pc[t] = "try"
  /\ pc' = [pc EXCEPT ![t] = "spin"]
  /\ UNCHANGED <<control_lock, op, arg, rv, calls, owned, flag, native>>

SpinEnds(t) ==
  /\ pc[t] = "spin" /\ ~control_lock
  /\ pc' = [pc EXCEPT ![t] = "try"]
  /\ UNCHANGED <<control_lock, op, arg, rv, calls, owned, flag, native>>

EnterNative(t) ==
  /\ pc[t] = "enter"
  /\ pc' = [pc EXCEPT ![t] = "native"]
  /\ UNCHANGED <<control_lock, op, arg, rv, calls, owned, flag, native>>
-----------------------------------------------------------------------------
(* The native calls *)

\* result and Error::from_code.
FromCode(code) ==
  IF code = "SUCCESS" THEN "Ok" ELSE IF code \in DOMAIN Errors THEN Errors[code] ELSE "Unknown"

Returns(t, result) ==
  /\ rv' = [rv EXCEPT ![t] = result]
  /\ pc' = [pc EXCEPT ![t] = "update"]
  /\ UNCHANGED <<control_lock, op, calls, owned, flag>>

Refused(t, code) == Returns(t, FromCode(code)) /\ UNCHANGED <<arg, native>>

NativeNew(t) ==
  /\ pc[t] = "native" /\ op[t] = "new"
  /\ \/ \E h \in Handles \ live :
          /\ live' = live \cup {h}
          /\ arg' = [arg EXCEPT ![t] = h]
          /\ Returns(t, "Ok") /\ UNCHANGED <<prepared, installed, patched>>
     \/ Returns(t, "OutOfMemory") /\ UNCHANGED <<arg, native>>

\* The first prepare that succeeds gives the handle a page.
NativePrepare(t) ==
  /\ pc[t] = "native" /\ op[t] = "prepare"
  /\ \/ arg[t] \in installed /\ Refused(t, "ALREADY_INSTALLED")
     \/ /\ arg[t] \notin installed
        /\ prepared' = prepared \cup {arg[t]}
        /\ Returns(t, FromCode("SUCCESS")) /\ UNCHANGED <<arg, live, installed, patched>>
     \/ arg[t] \notin installed /\ \E code \in PrepareErrors : Refused(t, code)

\* install goes over the pages of the handle.  Without one it succeeds and
\* patches nothing; when it fails it may have patched some targets already.
NativeInstall(t) ==
  /\ pc[t] = "native" /\ op[t] = "install"
  /\ \/ arg[t] \in installed /\ Refused(t, "ALREADY_INSTALLED")
     \/ /\ arg[t] \notin installed
        /\ installed' = installed \cup {arg[t]} /\ patched' = patched \cup ({arg[t]} \cap prepared)
        /\ Returns(t, FromCode("SUCCESS")) /\ UNCHANGED <<arg, live, prepared>>
     \/ /\ arg[t] \in prepared \ installed
        /\ patched' \in {patched, patched \cup {arg[t]}}
        /\ Returns(t, FromCode("MEMORY_FUNCTION")) /\ UNCHANGED <<arg, live, prepared, installed>>

\* The last target may be restored when uninstall fails.
NativeUninstall(t) ==
  /\ pc[t] = "native" /\ op[t] = "uninstall"
  /\ \/ arg[t] \notin installed /\ Refused(t, "NOT_INSTALLED")
     \/ /\ arg[t] \in installed
        /\ installed' = installed \ {arg[t]} /\ patched' = patched \ {arg[t]}
        /\ Returns(t, FromCode("SUCCESS")) /\ UNCHANGED <<arg, live, prepared>>
     \/ /\ arg[t] \in prepared \cap installed
        /\ patched' \in {patched, patched \ {arg[t]}}
        /\ Returns(t, FromCode("MEMORY_FUNCTION")) /\ UNCHANGED <<arg, live, prepared, installed>>

NativeDestroy(t) ==
  /\ pc[t] = "native" /\ op[t] = "drop"
  /\ IF arg[t] \in installed THEN Refused(t, "ALREADY_INSTALLED")
     ELSE /\ live' = live \ {arg[t]} /\ prepared' = prepared \ {arg[t]}
          /\ Returns(t, FromCode("SUCCESS")) /\ UNCHANGED <<arg, installed, patched>>

Native(t) ==
  NativeNew(t) \/ NativePrepare(t) \/ NativeInstall(t) \/ NativeUninstall(t) \/ NativeDestroy(t)
-----------------------------------------------------------------------------
\* Mutant of NewFlag: assigned without looking at the result.
NewFlagAlways(t) ==
  CASE op[t] = "install" -> TRUE
    [] op[t] \in {"new", "uninstall"} -> FALSE
    [] OTHER -> flag[arg[t]]

\* What self.installed becomes: `?' leaves early on every error.
NewFlag(t) ==
  IF rv[t] # "Ok" THEN flag[arg[t]]
  ELSE CASE op[t] = "install" -> TRUE
         [] op[t] \in {"new", "uninstall"} -> FALSE
         [] OTHER -> flag[arg[t]]

\* Mutant of Return: an error leaves the lock taken.
ReturnLocked(t) ==
  /\ pc[t] = "update"
  /\ flag' = [flag EXCEPT ![arg[t]] = NewFlag(t)]
  /\ owned' = IF op[t] = "new" /\ rv[t] = "Ok" THEN [owned EXCEPT ![t] = @ \cup {arg[t]}] ELSE owned
  /\ control_lock' = (rv[t] # "Ok")
  /\ pc' = [pc EXCEPT ![t] = "out"]
  /\ UNCHANGED <<op, arg, rv, calls, native>>

\* The wrapper looks at the result, then the guard is dropped.
Return(t) ==
  /\ pc[t] = "update"
  /\ flag' = [flag EXCEPT ![arg[t]] = NewFlag(t)]
  /\ owned' = IF op[t] = "new" /\ rv[t] = "Ok" THEN [owned EXCEPT ![t] = @ \cup {arg[t]}] ELSE owned
  /\ control_lock' = FALSE
  /\ pc' = [pc EXCEPT ![t] = "out"]
  /\ UNCHANGED <<op, arg, rv, calls, native>>

Proceed(t) == SpinEnds(t) \/ EnterNative(t) \/ Native(t) \/ Return(t)

Next ==
  \E t \in Threads :
    \/ \E o \in Ops, h \in Handles : Begin(t, o, h) \/ DropInstalled(t, h)
    \/ Acquire(t) \/ AcquireFails(t) \/ Proceed(t)

Spec == Init /\ [][Next]_vars

\* Every thread is scheduled, and compare_exchange_weak does not fail for ever
\* while the lock is free.
FairSpec ==
  Spec /\ \A t \in Threads : WF_vars(AcquireFails(t)) /\ WF_vars(Proceed(t)) /\ SF_vars(Acquire(t))
-----------------------------------------------------------------------------
(* Properties *)

\* The library's global state (the list of units, the static prot, the number
\* of entries in a page) is touched by one thread at a time.
OneNativeCall == Cardinality({t \in Threads : pc[t] = "native"}) <= 1

\* Outside the calls of its thread a handle exists and its installed agrees
\* with funchook->installed, so drop decides rightly whether to destroy.
FlagsAgree ==
  \A t \in Threads : \A h \in owned[t] :
    pc[t] = "out" \/ arg[t] # h => h \in live /\ (flag[h] <=> h \in installed)

\* The trampolines of patched targets stay allocated, although drop destroys
\* the native handle.
PatchedRetained == patched \subseteq live

\* Every call returns: no thread spins for ever once the others stop calling.
CallsReturn == \A t \in Threads : pc[t] = "try" ~> pc[t] = "out"
=============================================================================
