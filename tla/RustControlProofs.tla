------------------------- MODULE RustControlProofs -------------------------
(***************************************************************************)
(* Proofs about RustControl, for every number of threads, handles and      *)
(* calls, and whichever calls fail.                                        *)
(***************************************************************************)
EXTENDS RustControl, FiniteSetTheorems, TLAPS

PCs     == {"out", "try", "spin", "enter", "native", "update"}
Codes   == {"INTERNAL_ERROR", "OUT_OF_MEMORY", "ALREADY_INSTALLED", "DISASSEMBLY", "IP_RELATIVE_OFFSET",
            "CANNOT_FIX_IP_RELATIVE", "FOUND_BACK_JUMP", "TOO_SHORT_INSTRUCTIONS", "MEMORY_ALLOCATION",
            "MEMORY_FUNCTION", "NOT_INSTALLED", "NO_AVAILABLE_REGISTERS", "NO_SPACE_NEAR_TARGET_ADDR"}
Results == {"Ok", "OutOfMemory"} \cup {FromCode(code) : code \in Codes}

Types ==
  /\ control_lock \in BOOLEAN
  /\ pc \in [Threads -> PCs]
  /\ op \in [Threads -> Ops]
  /\ arg \in [Threads -> Handles \cup {Some}]
  /\ rv \in [Threads -> Results]
  /\ owned \in [Threads -> SUBSET Handles]
  /\ flag \in [Handles -> BOOLEAN]
  /\ live \in SUBSET Handles
  /\ installed \in SUBSET live

\* The thread has the guard of the lock.
Inside(t) == pc[t] \in {"enter", "native", "update"}

Locked ==
  /\ \A t \in Threads : Inside(t) => control_lock
  /\ \A s, t \in Threads : Inside(s) /\ Inside(t) => s = t

\* A handle is in the hands of a thread also while the thread drops it, until
\* the native handle is destroyed, and from the moment it is created.
Dropping(t) == op[t] = "drop" /\ pc[t] # "out" /\ ~(pc[t] = "update" /\ rv[t] = "Ok")
Creating(t) == op[t] = "new" /\ pc[t] = "update" /\ rv[t] = "Ok"
Holds(t, h) == h \in owned[t] \/ (arg[t] = h /\ (Dropping(t) \/ Creating(t)))

HeldOnce == \A s, t \in Threads : \A h \in Handles : Holds(s, h) /\ Holds(t, h) => s = t
HeldLive == \A t \in Threads : \A h \in Handles : Holds(t, h) => h \in live

Arguments ==
  \A t \in Threads : pc[t] # "out" =>
    /\ arg[t] \in Handles
    /\ op[t] = "drop" => arg[t] \notin owned[t]
    /\ op[t] \in {"prepare", "install", "uninstall"} => arg[t] \in owned[t]

\* Between the native call and the end of the method self.installed is behind:
\* what agrees with the native handle is what it is about to become.
Agreement ==
  \A t \in Threads : \A h \in Handles : Holds(t, h) =>
    IF pc[t] = "update" /\ arg[t] = h THEN NewFlag(t) <=> h \in installed
                                      ELSE flag[h] <=> h \in installed

RInv == Types /\ Locked /\ HeldOnce /\ HeldLive /\ Arguments /\ Agreement

\* What one thread does, and what it leaves alone in the others.
ThreadStep(t) ==
  \/ \E o \in Ops, h \in Handles : Begin(t, o, h) \/ DropInstalled(t, h)
  \/ Acquire(t) \/ AcquireFails(t) \/ Proceed(t)

LEMMA OthersStay ==
  ASSUME Types, NEW t \in Threads, ThreadStep(t), NEW s \in Threads, s # t
  PROVE  /\ pc'[s] = pc[s] /\ op'[s] = op[s] /\ arg'[s] = arg[s] /\ rv'[s] = rv[s]
         /\ owned'[s] = owned[s]
         /\ (Inside(s)' <=> Inside(s))
         /\ \A h : Holds(s, h)' <=> Holds(s, h)
<1>1. pc'[s] = pc[s]
  BY DEF ThreadStep, Begin, DropInstalled, Acquire, AcquireFails, Proceed, SpinEnds, EnterNative, Native,
         NativeNew, NativePrepare, NativeInstall, NativeUninstall, NativeDestroy, Refused, Returns, Return, Types
<1>2. op'[s] = op[s] /\ rv'[s] = rv[s]
  BY DEF ThreadStep, Begin, DropInstalled, Acquire, AcquireFails, Proceed, SpinEnds, EnterNative, Native,
         NativeNew, NativePrepare, NativeInstall, NativeUninstall, NativeDestroy, Refused, Returns, Return, Types
<1>3. arg'[s] = arg[s]
  BY DEF ThreadStep, Begin, DropInstalled, Acquire, AcquireFails, Proceed, SpinEnds, EnterNative, Native,
         NativeNew, NativePrepare, NativeInstall, NativeUninstall, NativeDestroy, Refused, Returns, Return, Types
<1>4. owned'[s] = owned[s]
  BY DEF ThreadStep, Begin, DropInstalled, Acquire, AcquireFails, Proceed, SpinEnds, EnterNative, Native,
         NativeNew, NativePrepare, NativeInstall, NativeUninstall, NativeDestroy, Refused, Returns, Return, Types
<1> QED BY <1>1, <1>2, <1>3, <1>4 DEF Inside, Holds, Dropping, Creating

LEMMA InitRInv == Init => RInv
<1> SUFFICES ASSUME Init PROVE RInv
  OBVIOUS
<1>1. Types
  BY DEF Init, Types, PCs, Ops, Results
<1>2. \A t \in Threads : pc[t] = "out" /\ owned[t] = {}
  BY DEF Init
<1>3. \A t \in Threads : \A h \in Handles : ~Holds(t, h)
  BY <1>2 DEF Holds, Dropping, Creating
<1> QED BY <1>1, <1>2, <1>3 DEF RInv, Locked, HeldOnce, HeldLive, Arguments, Agreement, Inside

\* What thread t has to see to: the lock is free when it takes it, it touches
\* the native handle and the flag of no handle that another thread holds.
LEMMA LocalStep ==
  ASSUME RInv, NEW t \in Threads, ThreadStep(t), Types',
         Inside(t)' => control_lock' /\ (Inside(t) \/ ~control_lock),
         control_lock => control_lock' \/ Inside(t),
         \A h \in Handles : Holds(t, h)' => h \in live' /\ (Holds(t, h) \/ h \notin live),
         \A h \in live : ~Holds(t, h) =>
           h \in live' /\ flag'[h] = flag[h] /\ (h \in installed' <=> h \in installed),
         pc'[t] # "out" =>
           /\ arg'[t] \in Handles
           /\ op'[t] = "drop" => arg'[t] \notin owned'[t]
           /\ op'[t] \in {"prepare", "install", "uninstall"} => arg'[t] \in owned'[t],
         \A h \in Handles : Holds(t, h)' =>
           IF pc'[t] = "update" /\ arg'[t] = h THEN NewFlag(t)' <=> h \in installed'
                                               ELSE flag'[h] <=> h \in installed'
  PROVE  RInv'
<1>0. Types /\ Locked /\ HeldOnce /\ HeldLive /\ Arguments /\ Agreement
  BY DEF RInv
<1>1. Locked'
  <2>1. ASSUME NEW s \in Threads, Inside(s)' PROVE control_lock'
    BY <1>0, <2>1, OthersStay DEF Locked
  <2>2. ASSUME NEW r \in Threads, NEW s \in Threads, Inside(r)', Inside(s)' PROVE r = s
    BY <1>0, <2>2, OthersStay DEF Locked
  <2> QED BY <2>1, <2>2 DEF Locked
<1>2. HeldLive'
  <2>1. ASSUME NEW s \in Threads, s # t, NEW h \in Handles, Holds(s, h)' PROVE h \in live'
    <3>1. Holds(s, h) /\ h \in live
      BY <1>0, <2>1, OthersStay DEF HeldLive
    <3>2. ~Holds(t, h)
      BY <1>0, <2>1, <3>1 DEF HeldOnce
    <3> QED BY <3>1, <3>2
  <2> QED BY <2>1 DEF HeldLive
<1>3. HeldOnce'
  <2>1. ASSUME NEW s \in Threads, s # t, NEW h \in Handles, Holds(s, h)', Holds(t, h)' PROVE FALSE
    <3>1. Holds(s, h) /\ h \in live
      BY <1>0, <2>1, OthersStay DEF HeldLive
    <3>2. ~Holds(t, h)
      BY <1>0, <2>1, <3>1 DEF HeldOnce
    <3> QED BY <2>1, <3>1, <3>2
  <2>2. ASSUME NEW r \in Threads, r # t, NEW s \in Threads, s # t, NEW h \in Handles, Holds(r, h)', Holds(s, h)'
        PROVE  r = s
    BY <1>0, <2>2, OthersStay DEF HeldOnce
  <2> QED BY <2>1, <2>2 DEF HeldOnce
<1>4. Arguments'
  <2>1. ASSUME NEW s \in Threads, s # t, pc'[s] # "out"
        PROVE  /\ arg'[s] \in Handles
               /\ op'[s] = "drop" => arg'[s] \notin owned'[s]
               /\ op'[s] \in {"prepare", "install", "uninstall"} => arg'[s] \in owned'[s]
    BY <1>0, <2>1, OthersStay DEF Arguments
  <2> QED BY <2>1 DEF Arguments
<1>5. Agreement'
  <2>1. ASSUME NEW s \in Threads, s # t, NEW h \in Handles, Holds(s, h)'
        PROVE  IF pc'[s] = "update" /\ arg'[s] = h THEN NewFlag(s)' <=> h \in installed'
                                                   ELSE flag'[h] <=> h \in installed'
    <3>1. Holds(s, h) /\ h \in live
      BY <1>0, <2>1, OthersStay DEF HeldLive
    <3>2. ~Holds(t, h)
      BY <1>0, <2>1, <3>1 DEF HeldOnce
    <3>3. flag'[h] = flag[h] /\ (h \in installed' <=> h \in installed)
      BY <3>1, <3>2
    <3>4. /\ pc'[s] = pc[s] /\ op'[s] = op[s] /\ arg'[s] = arg[s] /\ rv'[s] = rv[s]
      BY <1>0, <2>1, OthersStay
    <3>5. CASE pc[s] = "update" /\ arg[s] = h
      <4>1. NewFlag(s)' = NewFlag(s)
        BY <3>3, <3>4, <3>5 DEF NewFlag
      <4>2. NewFlag(s) <=> h \in installed
        BY <1>0, <3>1, <3>5 DEF Agreement
      <4> QED BY <3>3, <3>4, <3>5, <4>1, <4>2
    <3>6. CASE ~(pc[s] = "update" /\ arg[s] = h)
      <4>1. flag[h] <=> h \in installed
        BY <1>0, <3>1, <3>6 DEF Agreement
      <4> QED BY <3>3, <3>4, <3>6, <4>1
    <3> QED BY <3>5, <3>6
  <2> QED BY <2>1 DEF Agreement
<1> QED BY <1>1, <1>2, <1>3, <1>4, <1>5 DEF RInv

\* Steps on the way to the native call change nothing but where the thread is.
LEMMA MoveStep ==
  ASSUME RInv, NEW t \in Threads, Acquire(t) \/ AcquireFails(t) \/ SpinEnds(t) \/ EnterNative(t)
  PROVE  RInv'
<1>0. Types /\ Locked /\ HeldLive /\ Arguments /\ Agreement
  BY DEF RInv
<1>1. ThreadStep(t)
  BY DEF ThreadStep, Proceed
<1>2. UNCHANGED <<op, arg, rv, owned, flag, live, installed>>
  BY DEF Acquire, AcquireFails, SpinEnds, EnterNative, native
<1>3. pc[t] \in {"try", "spin", "enter"} /\ pc'[t] \in {"try", "spin", "enter", "native"}
  BY <1>0 DEF Acquire, AcquireFails, SpinEnds, EnterNative, Types
<1>4. Types'
  <2>1. pc' \in [Threads -> PCs] /\ control_lock' \in BOOLEAN
    BY <1>0 DEF Acquire, AcquireFails, SpinEnds, EnterNative, Types, PCs
  <2> QED BY <1>0, <1>2, <2>1 DEF Types
<1>5. \A h : Holds(t, h)' <=> Holds(t, h)
  BY <1>2, <1>3 DEF Holds, Dropping, Creating
<1>6. /\ Inside(t)' => control_lock' /\ (Inside(t) \/ ~control_lock)
      /\ control_lock => control_lock' \/ Inside(t)
  BY <1>0 DEF Acquire, AcquireFails, SpinEnds, EnterNative, Inside, Types, Locked
<1>7. \A h \in Handles : Holds(t, h)' => h \in live' /\ (Holds(t, h) \/ h \notin live)
  BY <1>0, <1>2, <1>5 DEF HeldLive
<1>8. \A h \in Handles : Holds(t, h)' =>
        IF pc'[t] = "update" /\ arg'[t] = h THEN NewFlag(t)' <=> h \in installed'
                                            ELSE flag'[h] <=> h \in installed'
  BY <1>0, <1>2, <1>3, <1>5 DEF Agreement
<1> QED BY <1>0, <1>1, <1>2, <1>3, <1>4, <1>6, <1>7, <1>8, LocalStep DEF Arguments

\* A call begins: drop moves the handle out of the owner's hands.
LEMMA BeginStep ==
  ASSUME RInv, NEW t \in Threads, NEW o \in Ops, NEW g \in Handles, Begin(t, o, g)
  PROVE  RInv'
<1>0. Types /\ Locked /\ HeldLive /\ Arguments /\ Agreement
  BY DEF RInv
<1>1. ThreadStep(t)
  BY DEF ThreadStep
<1>2. UNCHANGED <<control_lock, rv, flag, live, installed>>
  BY DEF Begin, native
<1>3. pc[t] = "out" /\ pc'[t] = "try" /\ op'[t] = o /\ arg'[t] = g
      /\ owned'[t] = IF o = "drop" THEN owned[t] \ {g} ELSE owned[t]
  BY <1>0 DEF Begin, Types
<1>4. o # "new" => g \in owned[t]
  BY DEF Begin
<1>5. Types'
  <2>1. pc' \in [Threads -> PCs] /\ op' \in [Threads -> Ops]
    BY <1>0 DEF Begin, Types, PCs
  <2>2. arg' \in [Threads -> Handles \cup {Some}]
    BY <1>0 DEF Begin, Types
  <2>3. owned' \in [Threads -> SUBSET Handles]
    BY <1>0 DEF Begin, Types
  <2> QED BY <1>0, <1>2, <2>1, <2>2, <2>3 DEF Types
<1>6. \A h : Holds(t, h)' => Holds(t, h)
  BY <1>3, <1>4 DEF Holds, Dropping, Creating, Ops
<1>7. ~Inside(t) /\ ~Inside(t)'
  BY <1>3 DEF Inside
<1>8. \A h \in Handles : Holds(t, h)' => h \in live' /\ (Holds(t, h) \/ h \notin live)
  BY <1>0, <1>2, <1>6 DEF HeldLive
<1>9. \A h \in Handles : Holds(t, h)' => (flag'[h] <=> h \in installed')
  BY <1>0, <1>2, <1>3, <1>6 DEF Agreement
<1>10. /\ o = "drop" => g \notin owned'[t]
       /\ o \in {"prepare", "install", "uninstall"} => g \in owned'[t]
  BY <1>3, <1>4
<1> QED BY <1>0, <1>1, <1>2, <1>3, <1>5, <1>7, <1>8, <1>9, <1>10, LocalStep

\* drop forgets an installed handle.
LEMMA DropInstalledStep ==
  ASSUME RInv, NEW t \in Threads, NEW g \in Handles, DropInstalled(t, g)
  PROVE  RInv'
<1>0. Types /\ Locked /\ HeldLive /\ Arguments /\ Agreement
  BY DEF RInv
<1>1. ThreadStep(t)
  BY DEF ThreadStep, Ops
<1>2. UNCHANGED <<control_lock, pc, op, arg, rv, flag, live, installed>>
  BY DEF DropInstalled, native
<1>3. pc[t] = "out" /\ owned'[t] = owned[t] \ {g}
  BY <1>0 DEF DropInstalled, Types
<1>4. Types'
  <2>1. owned' \in [Threads -> SUBSET Handles]
    BY <1>0 DEF DropInstalled, Types
  <2> QED BY <1>0, <1>2, <2>1 DEF Types
<1>5. \A h : Holds(t, h)' => Holds(t, h)
  BY <1>2, <1>3 DEF Holds, Dropping, Creating
<1>6. \A h \in Handles : Holds(t, h)' => h \in live' /\ (Holds(t, h) \/ h \notin live)
  BY <1>0, <1>2, <1>5 DEF HeldLive
<1>7. \A h \in Handles : Holds(t, h)' => (flag'[h] <=> h \in installed')
  BY <1>0, <1>2, <1>3, <1>5 DEF Agreement
<1>8. ~Inside(t)' /\ (control_lock => control_lock')
  BY <1>2, <1>3 DEF Inside
<1> QED BY <1>0, <1>1, <1>2, <1>3, <1>4, <1>6, <1>7, <1>8, LocalStep

\* No error is converted to success, and success to no error.
LEMMA Conversion ==
  /\ FromCode("SUCCESS") = "Ok"
  /\ \A code \in Codes : FromCode(code) \in Results /\ FromCode(code) # "Ok"
  /\ PrepareErrors \subseteq Codes
<1>1. DOMAIN Errors = Codes
  BY DEF Errors, Codes
<1>2. \A code \in Codes : Errors[code] # "Ok" /\ code # "SUCCESS"
  BY DEF Errors, Codes
<1>3. \A code \in Codes : FromCode(code) = Errors[code]
  BY <1>1, <1>2 DEF FromCode
<1> QED BY <1>1, <1>2, <1>3, RustAssumption DEF FromCode, Results

\* What every return of a native call does.
LEMMA ReturnsFrame ==
  ASSUME Types, Locked, NEW t \in Threads, pc[t] = "native", NEW result \in Results, Returns(t, result)
  PROVE  /\ pc' \in [Threads -> PCs] /\ rv' \in [Threads -> Results]
         /\ pc'[t] = "update" /\ rv'[t] = result
         /\ UNCHANGED <<control_lock, op, owned, flag>>
         /\ Inside(t) /\ Inside(t)' /\ control_lock
BY DEF Types, Returns, PCs, Inside, Locked

\* A native call that changes no handle: what self.installed becomes is what
\* it is.
LEMMA QuietStep ==
  ASSUME RInv, NEW t \in Threads, ThreadStep(t), pc[t] = "native",
         NEW result \in Results, Returns(t, result),
         result # "Ok" \/ op[t] = "prepare",
         UNCHANGED <<arg, live, installed>>
  PROVE  RInv'
<1>0. Types /\ Locked /\ HeldLive /\ Arguments /\ Agreement
  BY DEF RInv
<1>1. /\ pc' \in [Threads -> PCs] /\ rv' \in [Threads -> Results]
      /\ pc'[t] = "update" /\ rv'[t] = result
      /\ UNCHANGED <<control_lock, op, owned, flag>>
      /\ Inside(t) /\ Inside(t)' /\ control_lock
  BY <1>0, ReturnsFrame
<1>2. Types'
  BY <1>0, <1>1 DEF Types
<1>3. \A h : Holds(t, h)' <=> Holds(t, h)
  BY <1>1 DEF Holds, Dropping, Creating
<1>4. NewFlag(t)' = flag[arg[t]]
  BY <1>1 DEF NewFlag
<1>5. \A h \in Handles : Holds(t, h)' => h \in live' /\ (Holds(t, h) \/ h \notin live)
  BY <1>0, <1>3 DEF HeldLive
<1>6. \A h \in Handles : Holds(t, h)' =>
        IF pc'[t] = "update" /\ arg'[t] = h THEN NewFlag(t)' <=> h \in installed'
                                            ELSE flag'[h] <=> h \in installed'
  BY <1>0, <1>1, <1>3, <1>4 DEF Agreement
<1> QED BY <1>0, <1>1, <1>2, <1>5, <1>6, LocalStep DEF Arguments

\* A native call that marks the handle installed or not installed.
LEMMA InstallStep ==
  ASSUME RInv, NEW t \in Threads, ThreadStep(t), pc[t] = "native", Returns(t, "Ok"),
         UNCHANGED <<arg, live>>,
         \/ op[t] = "install" /\ installed' = installed \cup {arg[t]}
         \/ op[t] = "uninstall" /\ installed' = installed \ {arg[t]}
  PROVE  RInv'
<1>0. Types /\ Locked /\ HeldLive /\ Arguments /\ Agreement
  BY DEF RInv
<1>1. /\ pc' \in [Threads -> PCs] /\ rv' \in [Threads -> Results]
      /\ pc'[t] = "update" /\ rv'[t] = "Ok"
      /\ UNCHANGED <<control_lock, op, owned, flag>>
      /\ Inside(t) /\ Inside(t)' /\ control_lock
  BY <1>0, ReturnsFrame DEF Results
<1>2. arg[t] \in Handles /\ arg[t] \in owned[t] /\ Holds(t, arg[t]) /\ arg[t] \in live
  BY <1>0 DEF Arguments, Holds, HeldLive
<1>3. Types'
  BY <1>0, <1>1, <1>2 DEF Types
<1>4. \A h : Holds(t, h)' <=> Holds(t, h)
  BY <1>1 DEF Holds, Dropping, Creating
<1>5. NewFlag(t)' <=> arg[t] \in installed'
  BY <1>1 DEF NewFlag
<1>6. \A h \in Handles : Holds(t, h)' => h \in live' /\ (Holds(t, h) \/ h \notin live)
  BY <1>0, <1>4 DEF HeldLive
<1>7. \A h \in Handles : h # arg[t] => (h \in installed' <=> h \in installed)
  OBVIOUS
<1>8. \A h \in Handles : Holds(t, h)' =>
        IF pc'[t] = "update" /\ arg'[t] = h THEN NewFlag(t)' <=> h \in installed'
                                            ELSE flag'[h] <=> h \in installed'
  BY <1>0, <1>1, <1>4, <1>5, <1>7 DEF Agreement
<1>9. \A h \in live : ~Holds(t, h) =>
        h \in live' /\ flag'[h] = flag[h] /\ (h \in installed' <=> h \in installed)
  BY <1>0, <1>1, <1>2, <1>7 DEF Types
<1> QED BY <1>0, <1>1, <1>3, <1>6, <1>8, <1>9, LocalStep DEF Arguments

LEMMA NativeStep ==
  ASSUME RInv, NEW t \in Threads, Native(t)
  PROVE  RInv'
<1>0. Types /\ Locked /\ HeldOnce /\ HeldLive /\ Arguments /\ Agreement
  BY DEF RInv
<1>1. ThreadStep(t) /\ pc[t] = "native"
  BY DEF ThreadStep, Proceed, Native, NativeNew, NativePrepare, NativeInstall, NativeUninstall, NativeDestroy
\* A new handle is live, and in nobody's hands but this thread's.
<1>2. ASSUME op[t] = "new", NEW g \in Handles \ live, live' = live \cup {g},
             arg' = [arg EXCEPT ![t] = g], Returns(t, "Ok"), UNCHANGED installed
      PROVE  RInv'
  <2>1. /\ pc' \in [Threads -> PCs] /\ rv' \in [Threads -> Results]
        /\ pc'[t] = "update" /\ rv'[t] = "Ok"
        /\ UNCHANGED <<control_lock, op, owned, flag>>
        /\ Inside(t) /\ Inside(t)' /\ control_lock
    BY <1>0, <1>1, <1>2, ReturnsFrame DEF Results
  <2>2. arg' \in [Threads -> Handles \cup {Some}] /\ arg'[t] = g
    BY <1>0, <1>2 DEF Types
  <2>3. Types'
    BY <1>0, <1>2, <2>1, <2>2 DEF Types
  <2>4. \A h : Holds(t, h)' <=> Holds(t, h) \/ h = g
    BY <1>1, <1>2, <2>1, <2>2 DEF Holds, Dropping, Creating
  <2>5. \A h \in Handles : Holds(t, h)' => h \in live' /\ (Holds(t, h) \/ h \notin live)
    BY <1>0, <1>2, <2>4 DEF HeldLive
  <2>6. ~NewFlag(t)' /\ g \notin installed'
    BY <1>0, <1>2, <2>1 DEF NewFlag, Types
  <2>7. \A h \in Handles : Holds(t, h)' =>
          IF pc'[t] = "update" /\ arg'[t] = h THEN NewFlag(t)' <=> h \in installed'
                                              ELSE flag'[h] <=> h \in installed'
    BY <1>0, <1>1, <1>2, <2>1, <2>2, <2>4, <2>6 DEF Agreement
  <2> QED BY <1>1, <1>2, <2>1, <2>2, <2>3, <2>5, <2>7, LocalStep
<1>3. ASSUME NEW code \in Codes, Returns(t, FromCode(code)), UNCHANGED <<arg, live, installed>> PROVE RInv'
  <2>1. FromCode(code) \in Results /\ FromCode(code) # "Ok"
    BY <1>3, Conversion
  <2> QED BY <1>1, <1>3, <2>1, QuietStep
<1>r. ASSUME NEW code \in Codes, Refused(t, code) PROVE RInv'
  BY <1>3, <1>r DEF Refused, native
<1>4. CASE NativeNew(t)
  <2>1. CASE Returns(t, "OutOfMemory") /\ UNCHANGED <<arg, native>>
    BY <1>1, <2>1, QuietStep DEF native, Results
  <2> QED BY <1>2, <1>4, <2>1 DEF NativeNew
<1>5. CASE NativePrepare(t)
  <2>1. CASE Returns(t, FromCode("SUCCESS")) /\ UNCHANGED <<arg, live, installed>>
    <3>1. op[t] = "prepare" /\ Returns(t, "Ok") /\ "Ok" \in Results
      BY <1>5, <2>1, Conversion DEF NativePrepare, Results
    <3> QED BY <1>1, <2>1, <3>1, QuietStep
  <2>2. CASE \E code \in PrepareErrors : Refused(t, code)
    BY <1>r, <2>2, Conversion
  <2>3. CASE Refused(t, "ALREADY_INSTALLED")
    BY <1>r, <2>3 DEF Codes
  <2> QED BY <1>5, <2>1, <2>2, <2>3 DEF NativePrepare
<1>6. CASE NativeInstall(t)
  <2>1. CASE Returns(t, FromCode("MEMORY_FUNCTION")) /\ UNCHANGED <<arg, live, installed>>
    BY <1>3, <2>1 DEF Codes
  <2>2. CASE /\ installed' = installed \cup {arg[t]}
             /\ Returns(t, FromCode("SUCCESS")) /\ UNCHANGED <<arg, live>>
    BY <1>1, <1>6, <2>2, InstallStep, Conversion DEF NativeInstall
  <2>3. CASE Refused(t, "ALREADY_INSTALLED")
    BY <1>r, <2>3 DEF Codes
  <2> QED BY <1>6, <2>1, <2>2, <2>3 DEF NativeInstall
<1>7. CASE NativeUninstall(t)
  <2>1. CASE Returns(t, FromCode("MEMORY_FUNCTION")) /\ UNCHANGED <<arg, live, installed>>
    BY <1>3, <2>1 DEF Codes
  <2>2. CASE /\ installed' = installed \ {arg[t]}
             /\ Returns(t, FromCode("SUCCESS")) /\ UNCHANGED <<arg, live>>
    BY <1>1, <1>7, <2>2, InstallStep, Conversion DEF NativeUninstall
  <2>3. CASE Refused(t, "NOT_INSTALLED")
    BY <1>r, <2>3 DEF Codes
  <2> QED BY <1>7, <2>1, <2>2, <2>3 DEF NativeUninstall
\* The destroyed handle is in no one's hands any more.
<1>8. CASE NativeDestroy(t) /\ arg[t] \notin installed
  <2>1. live' = live \ {arg[t]} /\ Returns(t, "Ok") /\ UNCHANGED <<arg, installed>> /\ op[t] = "drop"
    BY <1>8, Conversion DEF NativeDestroy
  <2>2. /\ pc' \in [Threads -> PCs] /\ rv' \in [Threads -> Results]
        /\ pc'[t] = "update" /\ rv'[t] = "Ok"
        /\ UNCHANGED <<control_lock, op, owned, flag>>
        /\ Inside(t) /\ Inside(t)' /\ control_lock
    BY <1>0, <1>1, <2>1, ReturnsFrame DEF Results
  <2>3. Types'
    BY <1>0, <1>8, <2>1, <2>2 DEF Types
  <2>4. arg[t] \in Handles /\ arg[t] \notin owned[t] /\ Holds(t, arg[t])
    BY <1>0, <1>1, <2>1 DEF Arguments, Holds, Dropping
  <2>5. \A h : Holds(t, h)' <=> Holds(t, h) /\ h # arg[t]
    BY <1>1, <2>1, <2>2, <2>4 DEF Holds, Dropping, Creating
  <2>6. \A h \in Handles : Holds(t, h)' => h \in live' /\ (Holds(t, h) \/ h \notin live)
    BY <1>0, <2>1, <2>5 DEF HeldLive
  <2>7. \A h \in Handles : Holds(t, h)' =>
          IF pc'[t] = "update" /\ arg'[t] = h THEN NewFlag(t)' <=> h \in installed'
                                              ELSE flag'[h] <=> h \in installed'
    BY <1>0, <1>1, <2>1, <2>2, <2>5 DEF Agreement
  <2>8. \A h \in live : ~Holds(t, h) =>
          h \in live' /\ flag'[h] = flag[h] /\ (h \in installed' <=> h \in installed)
    BY <2>1, <2>2, <2>4
  <2> QED BY <1>1, <2>1, <2>2, <2>3, <2>4, <2>6, <2>7, <2>8, LocalStep
<1>9. CASE NativeDestroy(t) /\ arg[t] \in installed
  BY <1>r, <1>9 DEF NativeDestroy, Codes
<1> QED BY <1>4, <1>5, <1>6, <1>7, <1>8, <1>9 DEF Native

\* The wrapper stores what the result says and gives the lock back.
LEMMA ReturnStep ==
  ASSUME RInv, NEW t \in Threads, Return(t)
  PROVE  RInv'
<1>0. Types /\ Locked /\ HeldLive /\ Arguments /\ Agreement
  BY DEF RInv
<1>1. ThreadStep(t) /\ pc[t] = "update"
  BY DEF ThreadStep, Proceed, Return
<1>2. pc'[t] = "out" /\ ~control_lock' /\ UNCHANGED <<op, arg, rv, live, installed>>
      /\ owned'[t] = IF Creating(t) THEN owned[t] \cup {arg[t]} ELSE owned[t]
  BY <1>0, <1>1 DEF Return, Types, native, Creating
<1>3. arg[t] \in Handles
  BY <1>0, <1>1 DEF Arguments
<1>4. NewFlag(t) \in BOOLEAN
  BY <1>0, <1>3 DEF NewFlag, Types
<1>5. flag' \in [Handles -> BOOLEAN] /\ \A h \in Handles : flag'[h] = IF h = arg[t] THEN NewFlag(t) ELSE flag[h]
  BY <1>0, <1>3, <1>4 DEF Return, Types
<1>6. Types'
  <2>1. pc' \in [Threads -> PCs] /\ control_lock' \in BOOLEAN
    BY <1>0 DEF Return, Types, PCs
  <2>2. owned' \in [Threads -> SUBSET Handles]
    BY <1>0, <1>3 DEF Return, Types
  <2> QED BY <1>0, <1>2, <1>5, <2>1, <2>2 DEF Types
<1>7. \A h : Holds(t, h)' => Holds(t, h)
  BY <1>2 DEF Holds, Dropping, Creating
<1>8. \A h \in Handles : Holds(t, h)' => h \in live' /\ (Holds(t, h) \/ h \notin live)
  BY <1>0, <1>2, <1>7 DEF HeldLive
<1>9. \A h \in Handles : Holds(t, h)' => (flag'[h] <=> h \in installed')
  BY <1>0, <1>1, <1>2, <1>5, <1>7 DEF Agreement
\* A handle this thread does not hold keeps its flag.
<1>10. \A h \in live : ~Holds(t, h) => flag'[h] = flag[h]
  <2>1. ASSUME NEW h \in live, ~Holds(t, h), h = arg[t] PROVE NewFlag(t) = flag[h]
    <3>1. op[t] \notin {"prepare", "install", "uninstall"}
      BY <1>0, <1>1, <2>1 DEF Arguments, Holds
    <3>2. op[t] \in Ops
      BY <1>0 DEF Types
    <3> QED BY <1>1, <2>1, <3>1, <3>2 DEF NewFlag, Holds, Creating, Ops
  <2> QED BY <1>0, <1>5, <2>1 DEF Types
<1>11. Inside(t) /\ ~Inside(t)'
  BY <1>1, <1>2 DEF Inside
<1> QED BY <1>1, <1>2, <1>6, <1>8, <1>9, <1>10, <1>11, LocalStep

\* The lock is held by one thread, a handle is in the hands of one thread, and
\* the flag of every handle follows the native one.
THEOREM RustInvariance == Spec => []RInv
<1>1. RInv /\ [Next]_vars => RInv'
  <2>1. ASSUME RInv, NEW t \in Threads, ThreadStep(t) PROVE RInv'
    BY <2>1, MoveStep, BeginStep, DropInstalledStep, NativeStep, ReturnStep DEF ThreadStep, Proceed
  <2>2. ASSUME RInv, UNCHANGED vars PROVE RInv'
    <3>1. UNCHANGED <<control_lock, pc, op, arg, rv, owned, flag, live, installed>>
      BY <2>2 DEF vars
    <3>2. Types' /\ Locked'
      BY <2>2, <3>1 DEF RInv, Types, Locked, Inside
    <3>3. \A t, h : Holds(t, h)' <=> Holds(t, h)
      BY <3>1 DEF Holds, Dropping, Creating
    <3>4. HeldOnce' /\ HeldLive' /\ Arguments'
      BY <2>2, <3>1, <3>3 DEF RInv, HeldOnce, HeldLive, Arguments
    <3>5. Agreement'
      BY <2>2, <3>1, <3>3 DEF RInv, Agreement, NewFlag
    <3> QED BY <3>2, <3>4, <3>5 DEF RInv
  <2> QED BY <2>1, <2>2 DEF Next, ThreadStep
<1> QED BY <1>1, InitRInv, PTL DEF Spec

\* However many threads use the wrapper, at most one is inside the native
\* library (lib.rs:487-509 and the ControlGuard of every method).
THEOREM OneNativeCallTheorem == Spec => []OneNativeCall
<1>1. RInv => OneNativeCall
  <2> SUFFICES ASSUME RInv PROVE Cardinality({t \in Threads : pc[t] = "native"}) <= 1
    BY DEF OneNativeCall
  <2> DEFINE S == {t \in Threads : pc[t] = "native"}
  <2>1. \A s, t \in S : s = t
    BY DEF RInv, Locked, Inside
  <2>2. CASE S = {}
    <3>1. Cardinality({}) = 0
      BY FS_EmptySet
    <3> QED BY <2>2, <3>1
  <2>3. CASE S # {}
    <3>1. PICK t \in S : TRUE
      BY <2>3
    <3>2. S = {t}
      BY <2>1, <3>1
    <3>3. Cardinality({t}) = 1
      BY FS_Singleton
    <3> QED BY <3>2, <3>3
  <2> QED BY <2>2, <2>3
<1> QED BY <1>1, RustInvariance, PTL

\* Outside the calls of its thread a handle of the wrapper exists natively, and
\* self.installed is what funchook->installed is (lib.rs:240-353).
THEOREM FlagsAgreeTheorem == Spec => []FlagsAgree
<1>1. RInv => FlagsAgree
  <2> SUFFICES ASSUME RInv, NEW t \in Threads, NEW h \in owned[t], pc[t] = "out" \/ arg[t] # h
               PROVE  h \in live /\ (flag[h] <=> h \in installed)
    BY DEF FlagsAgree
  <2>1. h \in Handles /\ Holds(t, h)
    BY DEF RInv, Types, Holds
  <2> QED BY <2>1 DEF RInv, HeldLive, Agreement
<1> QED BY <1>1, RustInvariance, PTL
=============================================================================
