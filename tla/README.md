# funchook: models, checks and proofs

funchook redirects a function of a running process to another one. It overwrites
the first bytes of the *target* with a jump, and keeps the instructions it
overwrote, relocated, in a *trampoline* through which the original can still be
called. This directory holds TLA+ models of the library (`src/src`,
`src/include`) and of its Rust wrapper (`src/rust/lib.rs`), the TLC instances
that check them, and TLAPS proofs that remove the bounds of these instances from
every safety property.

`PROJECT.json` is the index: which definition stands for which lines, what every
run checks, which hazards of the code each property is aimed at, and for every
property of a passing run a *mutant*, a plausible bug under which the property
fails. Mutants are operators of the modules, each right before the definition it
varies, under a comment `Mutant of X: ...`; no specification uses them.

    tlc -workers 2 -config life_cycle.cfg MCFunchook # a run
    tlapm FunchookProofs.tla                         # the proofs

## 1. The system

### Components

| component | state | operations | module |
|---|---|---|---|
| handle life cycle (`funchook.c`) | per handle: `installed`, `page_list`; per page: `used`, `entries` (target, old code, new code, trampoline, transit) | `create`, `prepare`, `install`, `uninstall`, `destroy` | `Funchook`, `HookSpec` |
| memory protection (`os_unix.c:323-400`, `os_windows.c:252-322`) | protection of pages and of the memory of targets, the static `prot`, `mstate->protect` | `page_protect`, `page_unprotect`, `unprotect_begin`, `unprotect_end` | `Funchook` |
| threads in hooked functions (`fix_code`, `template.inc`, `funchook.c:195-212`) | where each thread is | call, transit, `funchook_hook_caller`, prehook, hook, trampoline | `Execution` |
| page allocation, Unix (`os_unix.c:195-320`) | the process map, `addrs`, `loop_cnt` | `page_alloc`, `get_free_address` | `UnixPages` |
| page allocation, Windows (`os_windows.c:38-250`) | the list of allocation units with `used[]`, `num_used` | `page_alloc`, `alloc_page_info`, `page_free` | `WinPages` |
| x86 trampolines (`arch_x86.c`) | `ctx`, `disp[2]`, the trampoline | `make_trampoline`, `page_avail`, `fix_code` | `X86Trampoline` |
| arm64 trampolines (`arch_arm64.c`) | `ctx`, the literal pool, `avail_regs`, the patch and the transit code | `make_trampoline`, `fix_code` | `Arm64Trampoline` |
| disassembler back ends (`disasm_*.c`) | position in the function | `disasm_next`, `x86_rip_relative` | `RipRelative`; otherwise external, inside the trampoline modules |
| Rust wrapper (`lib.rs`) | `CONTROL_LOCK`, `Funchook::installed` | `new`, `prepare`, `install`, `uninstall`, `drop` | `RustControl` |
| prehook dispatch (`prehook-*.S`, `funchook_arg_get_*`) | the saved argument frame, registers, the stack | save, read and change arguments, restore | `PrehookFrame` |
| debug log (`funchook.c:164-256`) | `funchook_debug_file`, `funchook->fp` | `set_debug_file`, `logv`, `log_end` | `DebugLog` |
| function resolution (`funchook_resolve_func`) | none of its own; reads linker data | follow a PLT entry or an import | `Resolve` |

### How they interact

`prepare` resolves the target, lets the architecture make a trampoline, takes
space from one of the handle's pages or a new one (`page_avail`, `page_alloc`),
and lets the architecture fix the relative operands for the address it got.
`install` goes over the pages and entries of the handle: it makes the page
executable, then makes each target writable, copies `new_code` over it and
protects it again. `uninstall` does the same with `old_code` and makes the page
writable last. `destroy` frees the pages. All handles share the code they patch,
the page allocator's list and the static `prot`. The native library has no lock;
the Rust wrapper makes one native call at a time under a global spin lock.

### What is hard

* `install` and `uninstall` may return from the middle of their loops, undo
  nothing and set no flag. What is safe to call afterwards is written nowhere.
* Several handles may hook one target. `old_code` and the trampoline are what was
  found at `prepare`, perhaps the jump of another handle.
* Between two steps of a call the rest of the process executes the targets:
  every intermediate state has to be callable, and a thread may be anywhere
  between a target and its hook when the code around it changes.
* Assembler and C code know the layout of one stack frame independently of each
  other, for four calling conventions.
* Relocation is arithmetic at the limits of a 32-bit field, with buffers sized by
  hand, for any sequence of instructions.
* Unix page allocation races with every thread that maps memory; `mmap` takes its
  address as a hint only.
* Every system call can fail. On Windows the list is kept in the memory it
  manages.

## 2. Modules and the code

### Funchook and HookSpec

`create`, `prepare` and `destroy` touch only the handle and its pages and are one
action each (`Prepare` has a disjunct for every way `get_page` ends, and one for
the errors of `make_trampoline` and `page_alloc`). `install` and `uninstall` are
split at every system call and every `memcpy`; `call` holds their handle, loop
variables and position. The first bytes of a target are one value: `Original`, or
a jump into slot `i` of page `p`. An entry is its target and its `old_code`; the
trampoline is made from the same bytes in the same call, so the entry's `old` also
tells where calling the trampoline leads. `failed` is a history variable.

A store to a page that is not writable kills the process: `FillEntry` then ends
in `"crashed"`.

`Discipline` is the client's part of the contract:

* `"lifo"`: a handle is uninstalled only while no other handle saved, as old
  code, a jump into it;
* `"finish_install"`: after an install that failed, the next call on that handle
  is another install, until one succeeds.

Neither rule is in the interface. The runs `uninstall_order` and `rust_drop` show
what happens without them; the theorems show that they are enough.

`HookSpec` is the view from outside: handles exist, handles are engaged, each
target is routed to the program or to an engaged handle. `ImplementsHookSpec`
states the refinement (`alive <- live`, `engaged` and `route` computed from flags
and code).

`tprot` is the protection of the *pages of memory* the targets are in. Targets
share them, and a patch may straddle two: `MemoryOf` is the rounding of
`unprotect_begin`. `os` chooses between the two implementations: on Unix
`unprotect_begin` asks for the remembered `patch_prot` and falls back to read and
write for good, and `unprotect_end` asks for read and exec; on Windows the
protection found is kept in `protect` and put back.

Left out: a failing `funchook_page_free`, in `destroy` (`funchook.c:463`) and for a
page found too far away (`funchook.c:490`): its result is dropped, and the page then
stays mapped with nobody referring to it. And a failing `funchook_alloc` (no state
changes).

### Execution

`Execution` extends `Funchook` with threads. A call of a target goes through
`Fetch` and `Prologue` (the patched bytes are executed in two steps, so that they
can change in between), `Transit`, `HookCaller`, `Prehook`, the hook function,
`Trampoline` and `Body`, through as many handles as are stacked. A thread faults
when it executes memory that is not mapped, not executable, half written, or not
what it began with.

`src/README.md:95-98` asks an application to stop concurrent execution while code is
installed or restored; `src/README.md:50` and `src/rust/lib.rs:306-310` add that no
thread may be in a trampoline while targets are restored or use one afterwards.
`Rules` makes precise what the code needs:

* `"stop"`: no thread is in the targets of a handle while it is installed or
  uninstalled (documented);
* `"page"`: nor in any function on the same pages of memory, which
  `unprotect_begin` may make non-executable;
* `"drain"`: when a handle is uninstalled, no thread is in its trampolines
  (documented), its transit code and its callbacks;
* `"finish"`: what an install or uninstall that failed left behind (memory that
  may not be executable) is not called before the call is repeated.

The run keeps all four. Without `"stop"`, `"page"` or `"finish"` it violates
`NoThreadFaults`, without `"drain"` `CallbacksWhileEngaged`. What is documented is
part of them: it leaves out the memory around a target, transit code and callbacks,
and what follows a failed call.

### X86Trampoline

`CopyInsn`, `CannotFix`, `DisasmError`, `TooShort`, `NopPadding` are the ways one
turn of the first loop and the code behind it can go, `ScanInsn` and `EndScan` the
second loop, `Place` is `get_page` with `page_avail`, then `fix_code`. An
instruction is a length, a kind and the offset it refers to; the disassembler
returns any. On i386 a `call` with its `pop` behind it is two instructions of the
function that one turn of the loop takes. `Word` stands for 2^32. Offsets are numbers, fields are residues
modulo `Word` that the processor sign-extends, and on i386 addresses wrap too.

### Arm64Trampoline

Instructions are numbered and of one length. `Rewrite` gives the words that each
kind of instruction becomes. The properties *execute* these words (`Leads`).
`Place` is `fix_code`: the two fields of `adrp` (`ImmHi` stands for 2^19) and what
the transit code jumps to. Pages may be anywhere: `page_avail` accepts all of them
on arm64 (`funchook_internal.h:174`). On Unix `page_alloc` looks for pages near the
function, and a page has one entry (`NearPages`); on Windows it may return
one at any distance (`os_windows.c:98-125`, `170-190`). Left out: `b.nv`, which
assemblers do not emit.

### UnixPages

Every turn of the loop over `/proc/self/maps`, every `mmap` and the check of its
result is an action; `OtherThread` maps or unmaps a page between any two. Address
arithmetic is unsigned modulo `Top`. The 32-bit variant is one `mmap` and is not
modelled separately.

### WinPages

The list, `used[]` and `num_used` of every unit, and which pages are committed.
Each system call that can fail is a step (the release of a unit whose control page
could not be committed is part of that step, and may fail too); `OtherThread`
reserves and releases units. The model is of 64-bit Windows: on 32-bit Windows the
system chooses the unit (`hint = NULL`, `os_windows.c:127`).

### RustControl

Threads with their own handles, the spin lock step by step (the weak
compare-exchange may fail with no reason), one native call of two steps (so that
two could overlap), and the update of the wrapper's flag. The native calls are
those of `Funchook` seen from the wrapper: live, prepared, installed, patched. An
install of a handle with nothing prepared succeeds and patches nothing; only one
with an entry can fail midway. `Errors` is the conversion of result codes.

### DebugLog

The name of the debug file, which any thread may change at any time, and the file
each handle's `fp` is open on. Every public function is its first log line and
the rest. `fopen` may fail.

### PrehookFrame

The stack is an array of words, a word is known by what it is and of which call.
`Save` and `RestoreFrame` are `funchook_hook_caller_asm` for four ABIs, `SaveSlot`
its offsets, `ArgSlot` the ones `funchook_arg_get_*` computes. Between them C code
overwrites everything it owns, the prehook changes an argument, and calls another
hooked function. The `.asm` files for the Microsoft assembler have the same
frames; `prehook-i686-ms.asm` leaves out the alignment of the stack, which the
Windows ABI for i686 does not ask for.

### RipRelative

An instruction is bytes: opcode, displacement, immediates, and for some opcodes
one last opcode byte. `Exact` is what Capstone and Zydis report, `Estimated` what
`disasm_distorm.c` computes from operand sizes and its list of opcodes (`Suffix`),
`HandleRipRelative` the check of `arch_x86.c:320-340` and its errors.
`X86Trampoline` takes the operand from there.

### Resolve

With glibc: the loop over the link map, the check of the ELF header, the loop over
the dynamic symbols one by one, and both `dlsym` calls by the linker's search
rules. On Windows: the jumps followed and the search of the import table, in one
step. The reference, what calling the given address executes, is written from the
rules of the linker and the processor (`RunsUnix`, `RunsWindows`).

The last four modules share no state. `MCSmallParts` is their sum: every
behaviour is a behaviour of one of them.

## 3. What the runs check

| run | instance | shows |
|---|---|---|
| `life_cycle` | 2 handles, 2 targets on 2 shared pages of memory, one patch straddling them, 2 pages of 2 entries, one page too far from one target, Unix and Windows, all steps but `page_unprotect` may fail (`unprotect_end` only on Unix) | targets and trampolines land at every step, stacked or not; everything is restored; nothing stays writable unnoticed; patches are stored into writable memory; pages are owned once; prepare never stores into an executable page; a successful install or uninstall is complete; `Funchook` implements `HookSpec` |
| `execution` | one thread, 2 handles stacked on 2 targets in one page of memory, one handle with prehooks, one with a direct jump to its hook, every fault | no thread faults, no callback runs after uninstall, calls of targets return, every install and uninstall returns |
| `x86` | x86_64: all sequences of instructions of length 1, 3, 5, 6 and 15 in a window of 22 bytes (14 with a disassembler that stops at a `ret`), trampolines at, before and behind both limits of a field; i386: addresses that wrap, `get_pc_thunk`, `call`/`pop`, a disassembler that stops at a `ret` | buffers suffice, the jump back is set, jumps from behind the patch into it are refused but for those to a `pop`, relocation is exact wherever `page_avail` says yes |
| `unix_pages` | all 512 layouts of 10 pages, 3 interventions by other threads, failing `mmap` | no page leaks, the page is within reach, the call returns, and finds free memory within reach when nobody interferes |
| `win_pages` | 5 units of 2 pages, 2 functions, every call may fail | the list stays consistent, a page in use is neither released nor handed out again, unused units are released |
| `arm64_move` | every pair of instructions, every use of two scratch registers, pages in and out of reach of `adrp` | the words and literals fit, control goes where it went, scratch registers are free, `adrp` and `br` of the patch lead to the page exactly when `adrp` can reach it |
| `rust_control` | 2 threads, 2 handles, 4 calls each, two errors of prepare | native calls never overlap, the flags agree, every call returns |
| `small_parts` | 2 handles and 2 log files; 4 ABIs, both alignments of the stack, 2 nested calls; 9 shapes of operands with all operand bytes, 3 disassemblers; programs of three objects at three addresses and images of two functions for 3 processors | streams are closed but for `uninstall`; prehooks see and change the arguments, hooks get the call unchanged otherwise; the operand that is rewritten is the relative one; what is hooked is what calling the function runs |

The other runs end in a violation; each states something the repository says and
shows a behaviour of the code that contradicts it (`findings`):

* `rust_drop`: after `new` and `prepare`, an install that fails midway leaves
  targets patched and `installed` 0. The wrapper's `drop`, which means to keep the trampolines of
  patched targets, then destroys the handle, and `destroy` frees pages that
  targets jump into.
* `uninstall_order`: handles stacked on one target and uninstalled in the order
  of their installs leave the target patched for good.
* `i386_nop_padding`: with a disassembler that stops at a `ret`, a short function
  padded with nops is accepted with no jump back, and the length of the patch is
  computed from an unset address. The i386 machine of `x86` has its function at
  an address where that length still fits, so that everything else is checked
  there; `JumpBackSet` leaves out such disassemblers, and `RelocationExact` speaks
  of trampolines with a jump back.
* `arm64_scan`: the scan for jumps back reads the bits of the same instruction
  every time.

More limits of the code met while modelling have no run of their own. The
instances above stay clear of these, and TLC shows each with the change named:

* Without `"finish_install"` in `Discipline`, `life_cycle` violates
  `ImplementsHookSpec` and `JumpsLand`: the native side of `rust_drop`.
* With `"page_unprotect"` in `UninstallFaults`, `life_cycle` violates
  `UninstallComplete` and, a few calls later, `PrepareNeverCrashes`: `uninstall` drops the result of `page_unprotect`
  (`funchook.c:445`) and reports success, and a later `prepare` stores into the
  page, which is still protected.
* With `Func = 3`, `Fixed = {1}` and `Layouts = {{2}}`, `UnixPages` violates
  `KeepsWhatItReturns`: for a function below `INT32_MAX - page_size` the distance
  to `MAP_FAILED` passes the check of `os_unix.c:276`, which comes before the
  test for `MAP_FAILED`. `unix_pages` has its function above that.
* `x86` violates `NoMovedJumpIntoPatch`: a jump among the moved instructions
  into the patch is accepted, only those behind the patch are checked
  (`arch_x86.c:166`).
* With `WinEndFails = TRUE`, `life_cycle` violates `TargetsReprotected`: after an
  `unprotect_end` that failed on Windows the repeated install finds the memory
  writable and executable, and puts that back (`os_windows.c:295`).
* With fewer `Rules`, `execution` violates `NoThreadFaults` or
  `CallbacksWhileEngaged`, see above.

The properties name the others as exceptions:

* `StreamsClosed`: after `uninstall` the stream stays open (`funchook.c:145`) and
  the next call writes to the old file.
* `NoLaterJumpIntoPatch`: on i386 the `pop` of a `call` and `pop` is in the patch
  but not in its first 5 bytes, and a later jump to it is accepted
  (`arch_x86.c:166`).
* `PatchReaches`: the fields of `adrp` are cut without a check
  (`arch_arm64.c:108-113`), and the patch of a page out of reach leads somewhere
  else. Only Windows can return such a page.
* `TrampolineExact`: a moved instruction that jumps to the second instruction of
  the function still jumps there, into the patch; as on x86 only later jumps are
  looked at (`arch_arm64.c:359`).
* `OperandFound`: an opcode that ends in a byte unknown to `disasm_distorm.c` is
  refused, and accepted with a wrong offset only when operand bytes repeat.
* `ResolvedRuns`: `RTLD_NEXT` begins behind the object of this library and passes
  over definitions before it (`os_unix.c:463`); a function of size 0 that the
  program defines is taken for a PLT entry (`os_unix.c:460`); on Windows for arm64
  the immediate of `adrp` is taken as unsigned, and an import slot below the
  function is not found (`os_windows.c:389`).

### Bounds, and why they are enough

* `Funchook` has no bound beyond its finite sets. Two handles and two targets are
  the least that stack; two pages, one out of reach of one target, give every
  outcome of `get_page`; a capacity of 2 makes partly filled and full pages. The
  theorems remove these bounds for what they state. Memory pages of 8 bytes and
  patches of 3 are the least in which one patch straddles and two share a page.
* Execution: threads share nothing but what the library changes, and the rules
  and properties speak of each thread by itself, so that one thread shows what any
  number can meet; the theorems are about any number. `MaxDepth = 2` lets it call through both handles.
* X86: `Word = 128` keeps the ratio of a field to the buffers large enough that
  a trampoline (25 bytes) can straddle its limit. Lengths 1, 3, 5, 6 and 15 reach
  every number of bytes around 5 and the longest move (4 + 15). Windows of 20 and
  22 bytes hold a whole patch and instructions behind it, the one of 14 a function
  that ends in a `ret` and its padding; `MAX_INSN_CHECK_SIZE`
  is 256, which changes how long the scan goes on and not what a turn does.
* UnixPages: with a range of 7 and pages of 2 bytes there are pages on both sides
  within, at and beyond the limit. Three tries and three interventions let every
  try be spoiled once.
* WinPages: five units: below, at, between and above two functions; two pages are
  the least for which a unit is partly used.
* Arm64: two instructions are what is moved; two registers are the least for which
  they run out after the first instruction. Pages are at both limits of `adrp`,
  one beyond them, and as far as the whole field.
* RustControl: `MaxCalls` 4 allows new, prepare, install and another call for each
  thread.
* PrehookFrame: two nested calls (`MaxCalls`) are one prehook interrupted by the
  whole of another; one change (`MaxChanges`) of any argument shows whether two
  places overlap. Stack pointers of both parities are the two cases of the
  alignment for 8-byte words.
* RipRelative: two byte values are the least for which operands differ or repeat.
* Resolve: a definition may be in the program, before and behind the object of
  funchook, or nowhere; addresses are above, below and in every object. With
  `AdrpPages = 16` import slots are within reach of `adrp`, on both sides.

Runs whose system stops for good (one call of an allocator or trampoline maker,
bounded calls in `RustControl`, a crash of prepare in `execution`, the parts of
`small_parts`) do not check deadlock; the others do.

### Fairness

* `Execution!ExecFairSpec`: weak fairness of the call of the library in progress,
  which waits for nobody, and strong fairness of every thread: it is scheduled,
  hooks and prehooks return, and a thread that the application stops before a
  target while the library works is let go on between two calls. Nothing is
  assumed of the application's calls; `ThreadsReturn` therefore allows a thread to
  wait for ever for a failed install that is never repeated.
* `UnixPages!FairSpec`: weak fairness of the allocating thread. Other threads
  intervene at most `Others` times, but even without the bound there are three
  tries only.
* `RustControl!FairSpec`: weak fairness of each thread; strong fairness of a
  successful compare-exchange, since the lock gives no order and the weak
  variant may fail spuriously. Its documentation promises no more than that it
  does not fail always. Threads make a bounded number of calls.

## 4. What is proved

Every safety property of a passing run is a theorem, for all values of the
constants. The proofs are in modules of their own, `XProofs` for module `X`, and
`SmallPartsProofs` for the four parts of `MCSmallParts`. The assumptions on
constants are the `ASSUME`s of the modules, which TLC evaluates in every run.
`IInv`, `UseInv`, `SafeInv`, `Sections` and `FrameInv`, the invariants hardest to
find, were checked by TLC on small instances before they were proved.

What a theorem supposes beyond those assumptions is part of its statement. Each
hypothesis is a limit of the code; section 3 shows what happens without it, but
for `NoNullOperand`, which no function in user space breaks:

| hypothesis | theorems | why |
|---|---|---|
| `Disciplined` (both rules), or `finish_install` alone | see below | the client's part of the contract |
| `"page_unprotect" \notin UninstallFaults` | `UninstallCompleteTheorem`, `PrepareNeverCrashesTheorem` | `uninstall` drops the result (`funchook.c:445`) |
| `~WinEndFails` | `TargetsReprotectedTheorem` | the next call finds, and puts back, what was left open (`os_windows.c:295`) |
| `{"stop", "drain"} \subseteq Rules`; all four | `CallbacksTheorem`; `NoThreadFaultsTheorem` | the application's part of the contract |
| no `stop_on_ret` back end | `FitsBuffersTheorem` | run `i386_nop_padding` |
| `NoNullOperand` | `RelocationExactTheorem` | `disp[1].dst = 0` means that there is no operand (`arch_x86.c:367`) |
| `NearPages` | `UnixPatchReachesTheorem` | on Windows a page may be out of reach of `adrp`; `PatchReachesTheorem` says what happens then |
| `Func + 1 >= Int32Max - PageSize` | `KeepsWhatItReturnsTheorem` | nearer to address 0 `MAP_FAILED` passes for a page (`os_unix.c:276`) |

### Funchook (FunchookProofs)

For all sets of handles, targets and pages, every capacity, every `Near` and every
choice of faults.

*Any client.* `StructureTheorem`, with `TypeCorrect` and `PagesOwnedOnceTheorem`:
types, the coherence of the call in progress, and that mapped pages are exactly
those on the list of one live handle, once. `InstallCompleteTheorem`: `LoopInv`
adds that targets already passed by `install` are still diverted, that pages it has
come to are executable (`PassedReady`), and that an installed handle exists. `PatchWritableTheorem`: `Opened`, that memory around the
patch is writable between `unprotect_begin` and `unprotect_end`; the lemmas before
it are about rounding, for every page size and every patch of at most a page.

*A client that repeats failed installs.* `PrepareNeverCrashesTheorem`: the pages
of a handle that is neither installed nor failed are writable (`Writable`), since
`uninstall` has reopened those it passed (`Reopened`).
`TargetsReprotectedTheorem`: memory that is not read and exec is around the patch
in progress or *owed* by a handle whose last call gave up, and once that call is
repeated only by an entry it has not come to yet (`Excused`, `Owed`, `Pending`).
That a repeated call redeems everything is what the property needs and does not
say.

*A client that keeps both rules* (`Disciplined`). `Invariance` is the inductive
invariant `IInv`, from which follow `JumpsLandTheorem` (calling a target lands, at
every step of every call), `TrampolinesLandTheorem` (so does calling any
trampoline, through any number of stacked handles), `PristineTheorem` and
`UninstallCompleteTheorem`.

`JumpsLand` is not inductive: whether `uninstall` may make a page
writable depends on nobody else jumping into it, and whether what it copies back
is callable depends on handles that were prepared earlier. `IInv` says in
addition that every code value in a target *or saved in an entry* leads into an
executable page of an engaged handle, for the same target, and that no handle
saved a jump into itself (`CodeSound`, `OldSound`); that while a
handle is being uninstalled no other handle has saved a jump into it
(`NoneSaved`, where the last-in-first-out rule enters); that entries already
passed by the loop are restored and stay so (`RestoredStays`); and that the page
whose entries `install` is patching in is executable (`LandingReady`).
`finish_install` is needed for `OldSound` and
`CodeSound`: it keeps `destroy` and `prepare` away from a handle with patched
targets.

`Refinement` proves `Spec => ImplementsHookSpec`. `RefinementStep` takes the
actions one by one: `InstallCall` engages a handle, a `WriteCode` reroutes
one target, `UninstallReturn` disengages, `create` and `destroy` are their
namesakes, and all others change nothing `HookSpec` sees. `IInv` is needed so that a
jump has one owner, that the owner is engaged, and that no route is left to a
handle when it is disengaged.

### Execution (ExecutionProofs)

For any number of threads and of handles stacked on a target. `ExecSpec` implies
`Spec`, so that everything above holds of it. `UseInv` says of each thread that
the entries it is in or will come back to belong to engaged handles, for the
target it called, and not to one being uninstalled, and that it is in no target
of the handle at work; it gives `CallbacksTheorem`. `SafeInv` adds that the
first bytes are still those the thread began with, and that it is in no target
of a handle that failed; with `Excused`, and with `WinExecutable` on Windows,
whatever a thread executes is executable (`NoThreadFaultsTheorem`).

### Trampolines (X86TrampolineProofs, Arm64TrampolineProofs)

X86: for all machines, instruction lengths up to 16, operands, addresses and every
`Word` larger than the patch. `XInv`: every instruction moved starts in the first 5
bytes; at most one has a relative operand, since it is long enough to be the last
(`OneOperand`), so that one slot `disp[1]` is enough; what was written is for an
address `page_avail` accepted. `RelocationExactTheorem` is then arithmetic modulo
`Word`. `X86NoLaterJumpTheorem` rests on the same: only a `pop` starts behind the
first 5 bytes.

Arm64: for all registers, operands and pages. `AInv` counts
words, literals and registers. `Sections` says that the words are, section by
section, what `Rewrite` gives for the instructions moved, with a literal that holds
the operand, and that `src` counts them, or one `b` with the undefined instruction
behind it. `TrampolineExactTheorem` executes every kind of section from there.

### Page allocation (UnixPagesProofs, WinPagesProofs)

Unix: for every size of memory and pages, every layout and any interference.
`UInv`: what `mmap` returned is unmapped, returned, or was never mapped. `QInv`
holds while nobody interferes: the addresses found so far are the nearest ones of
the part of the map read so far, so that an error means there was none. Addresses
are assumed to end `INT32_MAX` before they wrap, as those of user space do.

Windows: for every number of units and pages, every reach and every failing call.
`WInv` links the list to `used[]` (`HeldListed`, `MarkedHeld`), and says what
`page_alloc` relies on between its system calls (`Underway`) and which units have a
reason to be reserved (`ReleasedOrWanted`).

### Rust wrapper (RustControlProofs)

For any number of threads, handles and calls. `RInv`: whoever is inside has the
lock and is alone; a handle is in one thread's hands also while it is created or
dropped (`Holds`); and between the native call and the end of the method it is the
flag about to be written that agrees (`Agreement`).

### Small parts (SmallPartsProofs)

Each theorem is about the specification of one module (`LogSpec`, `FrameSpec`,
`RipSpec`, `ResolveSpec`); `MCSmallParts` is their sum.

*DebugLog.* For any number of handles and files `StreamsClosed` is inductive with
the domains of its functions: every call but `uninstall` returns by `LogReturn`
with no stream.

*PrehookFrame.* For every set of entry addresses and of arguments on the stack,
every frame of C code and every depth of nested calls. Neither property is
inductive: what a hook gets depends on what the stack kept while the prehook ran,
and so on what other calls wrote there. `FrameInv` has six parts. `Entered`: every
call has room for itself and the calls it may still make (`Room`), and all but the
innermost are in their prehook. `CalledBy`: the frame and stack pointers recorded
at a call are those of the prehook that made it. `Nested`: a call and the frame of
its caller lie below the stack pointer every earlier prehook was called with.
`Kept`: the stack holds arguments, return address, saved registers and frame
pointer of every call. `Innermost`: what the registers hold, by where the innermost
call stands. The layouts enter by four lemmas, each by cases of the ABI:
`SaveSlotsDiffer` (no two registers share a slot), `FrameGeometry` (slots are above
what C code may write and below the entry, and the stack is aligned), `ArgSlots`
(C and assembler mean the same words) and `PassedFacts`. `KeptAgain` then says that
a frame survives whatever is written below it; each action is shown to write
there. The assumptions: C code passes arguments in its own frame, and the stack is
large enough for `MaxCalls` calls.

*RipRelative.* For every set of operand lists x86 can encode (`X86Shape`: at most
four operands, at most one relative, nothing with bytes before it) and every set
of operand bytes. `RelativeOffset` is the heart: what distorm counts from the
operand sizes and what the encoding says are the same, up to the last opcode byte.
`RipInv` says what has been reported and accepted after each check.

*Resolve.* For every set of programs and images, of any number of objects, symbols
and jumps. `ScanInv`: the symbols already passed are neither the end of the table
nor the one looked for; the loop needs no more. The rest is about the operators:
`LinkMapFound` (the loop over the link map, by a minimum), `EntryFound` (the symbol
the scan stops at is the PLT entry or a function of no size, and `dlsym` finds what
the linker does), `ImportFound` and `Arm64Slot` (two fields of `adrp` and the offset
of `ldr`). `UnixProgram` and `Image` state the rules of the linkers that the proof
rests on: a relocated object lies above the addresses it was linked for, only the
program may be at a fixed address, an undefined symbol has a value only as PLT
entry and no size, names and PLT entries of the program are unique, an indirect
jump goes by a slot, and on arm64 slots are within reach of `adrp`.

### Only model-checked

Liveness, which is out of the prover's reach: `CallsReturn` (of `Execution` and of
`RustControl`), `ThreadsReturn` and `AllocReturns`.

## 5. Not modelled

* **Instruction decoding** is third-party code behind `disasm_*.c`. The models
  quantify over what it can return; formatting serves the log only.
* **Error messages and the text of the log.** No control depends on them. `install`,
  `uninstall` and `destroy` set no message when they refuse a handle
  (`funchook.c:375`, `423`, `459`), so `funchook_error_message` may tell of an
  earlier failure: the "most recent native diagnostic" of `src/rust/lib.rs:318` is
  that of the last call that set one.
* **`funchook_page_alloc` on 32-bit Unix**, a single `mmap` with no condition on
  the address, the search for a free unit on 32-bit Windows, which is left to the
  system, and the process map of macOS.
* **The upper halves of ymm registers**, which `funchook_hook_caller_asm` does not
  save around a prehook (`prehook-x86_64-sysv.S:35-42`): `PrehookFrame` has the
  registers the assembler saves.
* **Views of the Rust wrapper** (`PrehookInfo`, `Arguments`) convert pointers and
  keep nothing.
* **Build files and tests.**

## 6. Plan

Done, in this order: `Funchook` with `HookSpec`, its proofs, the trampolines, the
page allocators, the wrapper; then memory pages and Windows in `Funchook`,
`Execution`, `fix_code` of arm64, `DebugLog`, `PrehookFrame`, `RipRelative`,
`Resolve`; then proofs: installing and the refinement, protection, threads, the
wrapper, the allocators, the trampolines, and last the four small parts.

Nothing of the plan is left. What could come next lies outside the models: the
decoding of instructions, and the process map of macOS.
