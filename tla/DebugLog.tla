------------------------------ MODULE DebugLog ------------------------------
(***************************************************************************)
(* The debug log: funchook_set_debug_file, the stream a handle keeps in    *)
(* funchook->fp, and the funchook_log and funchook_log_end every public    *)
(* function begins and ends with (src/src/funchook.c).                     *)
(*                                                                         *)
(* A call of the library is two steps, its first log line and the rest:    *)
(* the debug file is global and another thread may change it between them. *)
(* What is written is left out, where it is written is not.                *)
(***************************************************************************)

CONSTANTS
  LogHandles,   \* the handles
  LogFiles,     \* names of log files
  NULL          \* no file name, no stream

ASSUME DebugLogAssumption == NULL \notin LogFiles

VARIABLES
  funchook_debug_file,
  fp,             \* funchook->fp: the file of the open stream, or NULL; the last
                  \* value before free() when the handle no longer exists
  calling,        \* the call in progress on each handle
  last,           \* the last call that returned, "free" when the handle does not exist
  hooked          \* funchook->installed

logVars == <<funchook_debug_file, fp, calling, last, hooked>>

LogInit ==
  /\ funchook_debug_file = NULL
  /\ fp = [h \in LogHandles |-> NULL]
  /\ calling = [h \in LogHandles |-> "none"]
  /\ last = [h \in LogHandles |-> "free"]
  /\ hooked = [h \in LogHandles |-> FALSE]

SetDebugFile(name) ==
  /\ funchook_debug_file' = name
  /\ UNCHANGED <<fp, calling, last, hooked>>

\* What funchook_logv on a handle leaves in fp: fopen may fail.  On NULL it
\* opens and closes a stream of its own and leaves nothing.
Logv(f) ==
  IF funchook_debug_file = NULL \/ f # NULL THEN {f} ELSE {funchook_debug_file, NULL}

\* Mutant of LogEnd: return before the fclose when there is no debug file.
LogEndEarly(f) == IF funchook_debug_file = NULL THEN f ELSE NULL

\* What funchook_log_end on a handle leaves in fp.  The line it writes may
\* open the stream, which is closed at once.
LogEnd(f) == NULL
-----------------------------------------------------------------------------
\* funchook_create: its first line goes to a stream of its own.
LogCreate(h) ==
  /\ last[h] = "free"
  /\ fp' = [fp EXCEPT ![h] = LogEnd(NULL)]
  /\ last' = [last EXCEPT ![h] = "create"]
  /\ UNCHANGED <<funchook_debug_file, calling, hooked>>

\* The first line of a call, "Enter funchook_...".
LogEnter(h, op) ==
  /\ last[h] # "free" /\ calling[h] = "none"
  /\ calling' = [calling EXCEPT ![h] = op]
  /\ \E f \in Logv(fp[h]) : fp' = [fp EXCEPT ![h] = f]
  /\ UNCHANGED <<funchook_debug_file, last, hooked>>

\* The end of a call of op that leaves f in fp.
LogReturn(h, op, f) ==
  /\ calling[h] = op
  /\ fp' = [fp EXCEPT ![h] = f]
  /\ calling' = [calling EXCEPT ![h] = "none"]
  /\ last' = [last EXCEPT ![h] = IF op = "destroy" /\ ~hooked[h] THEN "free" ELSE op]
  /\ UNCHANGED funchook_debug_file

\* The rest of funchook_prepare and funchook_install, both of which log on the
\* handle.  Install sets installed when it succeeds.
LogPrepare(h) ==
  /\ \E f \in Logv(fp[h]) : LogReturn(h, "prepare", LogEnd(f))
  /\ UNCHANGED hooked

LogInstall(h) ==
  /\ \E f \in Logv(fp[h]) : LogReturn(h, "install", LogEnd(f))
  /\ \E ok \in BOOLEAN : hooked' = [hooked EXCEPT ![h] = @ \/ ok]

\* The rest of funchook_uninstall, which calls funchook_log_end(NULL, ...):
\* the stream stays open.  A handle that is not installed is refused without
\* another line.
LogUninstall(h) ==
  /\ \E f \in (IF hooked[h] THEN Logv(fp[h]) ELSE {fp[h]}) : LogReturn(h, "uninstall", f)
  /\ \E ok \in BOOLEAN : hooked' = [hooked EXCEPT ![h] = @ /\ ~ok]

\* The rest of funchook_destroy: refused while installed, which ends the log on
\* the handle; otherwise page_free logs on it and fclose closes what is open.
LogDestroy(h) ==
  /\ \E f \in (IF hooked[h] THEN {fp[h]} ELSE Logv(fp[h])) :
       LogReturn(h, "destroy", IF hooked[h] THEN LogEnd(f) ELSE NULL)
  /\ UNCHANGED hooked

LogNext ==
  \/ \E name \in LogFiles \cup {NULL} : SetDebugFile(name)
  \/ \E h \in LogHandles :
       \/ LogCreate(h)
       \/ \E op \in {"prepare", "install", "uninstall", "destroy"} : LogEnter(h, op)
       \/ LogPrepare(h) \/ LogInstall(h) \/ LogUninstall(h) \/ LogDestroy(h)

LogSpec == LogInit /\ [][LogNext]_logVars
-----------------------------------------------------------------------------
\* Between two calls a handle has no open stream, unless the last of them was
\* funchook_uninstall, and a destroyed handle leaves none behind: whatever other
\* threads do to the debug file meanwhile, every other call writes to the file
\* that was configured when it began or later.  The exception is
\* funchook.c:145, which ends the log of an uninstall without the handle.
StreamsClosed ==
  \A h \in LogHandles : fp[h] # NULL => calling[h] # "none" \/ last[h] = "uninstall"
=============================================================================
