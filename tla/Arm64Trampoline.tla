-------------------------- MODULE Arm64Trampoline --------------------------
(***************************************************************************)
(* funchook_make_trampoline and funchook_fix_code for arm64                *)
(* (src/src/arch_arm64.c): the first two instructions of a function are    *)
(* rewritten into a trampoline, with the addresses they refer to in a      *)
(* literal pool behind it, the rest is scanned for jumps to the second     *)
(* one, and once the entry has a page the jumps into it are written.       *)
(*                                                                         *)
(* All instructions have one length, so offsets count instructions.  An    *)
(* instruction is what it does with its operand, the offset it refers to   *)
(* and the corruptible registers it uses.                                  *)
(***************************************************************************)
EXTENDS Integers, Sequences

CONSTANTS
  Refs,       \* the offsets instructions refer to
  Regs,       \* numbers of the corruptible registers
  RegSets,    \* the sets of them that one instruction uses
  CheckSize,  \* MAX_INSN_CHECK_SIZE
  PageWords,  \* instructions in PAGE_SIZE, the unit of adrp
  ImmHi,      \* 2^19, the values of immhi of adrp; immlo has 4
  Func,       \* address of the function
  PagesAt     \* addresses of pages that get_page can return for it: near it on
              \* Unix, anywhere on Windows

REL4G_JUMP_SIZE == 2

\* Mutant of LITERAL_POOL_OFFSET: no room for the jump back.
PoolOffsetTight == 3 * REL4G_JUMP_SIZE

LITERAL_POOL_OFFSET == 3 * REL4G_JUMP_SIZE + 2
LITERAL_POOL_NUM == REL4G_JUMP_SIZE + 1

ASSUME Arm64Assumption ==
  /\ Refs \subseteq Int
  /\ Regs \subseteq Nat
  /\ RegSets \subseteq SUBSET Regs
  /\ CheckSize \in Nat
  /\ PageWords \in Nat \ {0} /\ ImmHi \in Nat \ {0}
  /\ Func \in Nat
  /\ PagesAt \subseteq {n \in Nat : n % PageWords = 0}

VARIABLES
  pc,          \* "move", "scan", "made", "ready" or "failed"
  read,        \* the instructions disassembled so far
  src,         \* ctx.src - func
  words,       \* the trampoline, up to ctx.dst
  pool,        \* the literal pool
  avail_regs,
  moved,       \* history: the word each instruction moved begins at
  entry,       \* the page of the entry and the jumps written into it
  rv

vars == <<pc, read, src, words, pool, avail_regs, moved, entry, rv>>
-----------------------------------------------------------------------------
(* Instructions.  "adr" and "adrp" compute an address, "load" is a load or  *)
(* prefetch from one; "bal" is b.cond with the condition always.            *)

Conditional == {"bcond", "cbz", "tbz"}
Jumps       == Conditional \cup {"bal", "b"}
Refer       == Jumps \cup {"bl", "adr", "adrp", "load"}

Insns == [kind : {"other"}, to : {0}, regs : RegSets] \cup [kind : Refer, to : Refs, regs : RegSets]

Decodes(x) == x \in Insns /\ Len(read) < CheckSize

\* ADR and ADRP load into their own register.
NeedsScratch(x) == x.kind \in Jumps \cup {"bl", "load"}

\* to_regno: X9 before X10, and so on.
ToRegno(avail) == CHOOSE r \in avail : \A q \in avail : r <= q

\* "skip" jumps over the two words behind it when the condition is false;
\* "lit" loads literal k, "br", "blr" and "mem" use the register it loaded.
Word(op, reg, k) == [op |-> op, reg |-> reg, lit |-> k]

\* What replaces x, with scratch register r and literal k.
Rewrite(x, r, k) ==
  CASE x.kind = "other"            -> <<Word("copy", 0, 0)>>
    [] x.kind \in {"adr", "adrp"}  -> <<Word("lit", 0, k)>>
    [] x.kind \in {"b", "bal"}     -> <<Word("lit", r, k), Word("br", r, 0)>>
    [] x.kind = "bl"               -> <<Word("lit", r, k), Word("blr", r, 0)>>
    [] x.kind = "load"             -> <<Word("lit", r, k), Word("mem", r, 0)>>
    [] x.kind \in Conditional      -> <<Word("skip", 0, 0), Word("lit", r, k), Word("br", r, 0)>>
-----------------------------------------------------------------------------
Init ==
  /\ pc = "move"
  /\ read = <<>> /\ src = 0
  /\ words = <<>> /\ pool = <<>>
  /\ avail_regs = Regs
  /\ moved = <<>>
  /\ entry = <<>>
  /\ rv = "SUCCESS"

Fail(error) ==
  /\ pc' = "failed"
  /\ rv' = error
  /\ UNCHANGED <<read, src, words, pool, avail_regs, moved, entry>>

\* Mutant of Advance: any first instruction may swallow the second.
AdvancePastUdf(x) == src' = src + 1 \/ (src = 0 /\ src' = 2)

\* An unconditional jump and an undefined instruction count as two although
\* only one was read.
Advance(x) ==
  \/ src' = src + 1
  \/ x.kind = "b" /\ src = 0 /\ src' = 2

\* Mutant of Left: only the last instruction counts.
LeftByLast(x) == Regs \ x.regs

\* The registers left when x was read.
Left(x) == avail_regs \ x.regs

\* One turn of the first loop.
MoveInsn(x) ==
  /\ pc = "move" /\ src < REL4G_JUMP_SIZE
  /\ Decodes(x)
  /\ NeedsScratch(x) => Left(x) # {}
  /\ read' = Append(read, x)
  /\ avail_regs' = Left(x)
  /\ words' = words \o Rewrite(x, IF NeedsScratch(x) THEN ToRegno(Left(x)) ELSE 0, Len(pool) + 1)
  /\ pool' = IF x.kind = "other" THEN pool ELSE Append(pool, x.to)
  /\ moved' = Append(moved, Len(words) + 1)
  /\ Advance(x)
  /\ UNCHANGED <<pc, entry, rv>>

CannotMove(x) ==
  /\ pc = "move" /\ src < REL4G_JUMP_SIZE
  /\ Decodes(x)
  /\ \/ NeedsScratch(x) /\ Left(x) = {} /\ Fail("NO_AVAILABLE_REGISTERS")
     \/ x.kind = "load" /\ Fail("INTERNAL_ERROR")

\* The jump to the rest of the function.
JumpBack ==
  /\ pc = "move" /\ src >= REL4G_JUMP_SIZE
  /\ IF avail_regs = {} THEN Fail("NO_AVAILABLE_REGISTERS")
     ELSE LET r == ToRegno(avail_regs) IN
          /\ words' = words \o <<Word("lit", r, Len(pool) + 1), Word("br", r, 0)>>
          /\ pool' = Append(pool, src)
          /\ moved' = Append(moved, Len(words) + 1)
          /\ pc' = "scan"
          /\ UNCHANGED <<read, src, avail_regs, entry, rv>>

TooShort ==
  /\ pc = "move" /\ src < REL4G_JUMP_SIZE
  /\ Fail("TOO_SHORT_INSTRUCTIONS")

DisasmError == pc \in {"move", "scan"} /\ Fail("DISASSEMBLY")

\* How target_addr reads the operand out of the bits of an instruction.
Layout(kind) ==
  CASE kind \in {"b", "bl"}                       -> "imm26"
    [] kind \in {"bcond", "bal", "cbz", "load"}   -> "imm19"
    [] OTHER                                      -> kind

\* target_addr for x.  The second loop never moves ctx.src: it takes what kind
\* of instruction x is from the disassembler and the bits from the first
\* instruction behind the patch.  Bits of another layout are any address.
TargetAddrs(x) ==
  LET first == IF Len(read) > src THEN read[src + 1] ELSE x IN
  IF x.kind = "other" \/ Len(read) < src THEN {0}
  ELSE IF Layout(first.kind) = Layout(x.kind) THEN {first.to}
  ELSE Refs \cup {0}

InPatch(offset) == 0 < offset /\ offset < REL4G_JUMP_SIZE

\* One turn of the second loop.
ScanInsn(x) ==
  /\ pc = "scan"
  /\ Decodes(x)
  /\ Len(read) < src => x.kind = "other"
  /\ \E target \in TargetAddrs(x) :
       IF InPatch(target) THEN Fail("FOUND_BACK_JUMP")
       ELSE /\ read' = Append(read, x)
            /\ UNCHANGED <<pc, src, words, pool, avail_regs, moved, entry, rv>>

EndScan ==
  /\ pc = "scan"
  /\ pc' = "made"
  /\ UNCHANGED <<read, src, words, pool, avail_regs, moved, entry, rv>>
-----------------------------------------------------------------------------
(* The entry gets a page.  Its transit code is at the start of the page. *)

PageOf(a) == a \div PageWords

\* Mutant of Relative4gJump: immhi is not shifted past immlo.
Relative4gJumpUnsplit(s, d) ==
  LET imm == PageOf(d) - PageOf(s) IN [immlo |-> imm % 4, immhi |-> imm % ImmHi]

\* adrp x9, d; br x9.  The shifts round towards minus infinity, as \div does;
\* what does not fit the 21 bits is cut off.
Relative4gJump(s, d) ==
  LET imm == PageOf(d) - PageOf(s) IN [immlo |-> imm % 4, immhi |-> (imm \div 4) % ImmHi]

\* What the transit code jumps to: funchook_hook_caller_asm, the hook function
\* or, without one, the trampoline.
Transit(hook, prehook) ==
  IF prehook THEN "hook_caller" ELSE IF hook THEN "hook" ELSE "trampoline"

\* funchook_page_avail says yes to every page; then funchook_fix_code.  The
\* locals of make_trampoline are gone.
Place(p, hook, prehook) ==
  /\ pc = "made"
  /\ entry' = [page |-> p, new_code |-> Relative4gJump(Func, p),
               transit |-> Transit(hook, prehook)]
  /\ pc' = "ready"
  /\ read' = <<>> /\ moved' = <<>> /\ src' = 0 /\ avail_regs' = {}
  /\ UNCHANGED <<words, pool, rv>>

Next ==
  \/ \E x \in Insns : MoveInsn(x) \/ CannotMove(x) \/ ScanInsn(x)
  \/ JumpBack \/ TooShort \/ DisasmError \/ EndScan
  \/ \E p \in PagesAt, hook, prehook \in BOOLEAN : Place(p, hook, prehook)

Spec == Init /\ [][Next]_vars
-----------------------------------------------------------------------------
(* Properties *)

\* The words end before the literal pool begins, and the pool before the
\* trampoline ends (arch_arm64.h:65-67), whatever is moved.
FitsTrampoline == Len(words) <= LITERAL_POOL_OFFSET /\ Len(pool) <= LITERAL_POOL_NUM

\* Where adrp and br of the patch lead: the processor extends the sign of the
\* 21 bits and adds them to the page of the function.
Adrp(j) ==
  LET n == 4 * j.immhi + j.immlo
  IN (PageOf(Func) + (IF n < 2 * ImmHi THEN n ELSE n - 4 * ImmHi)) * PageWords

\* What a signed number of pages in 21 bits reaches.
InReach(p) == PageOf(p) - PageOf(Func) \in - (2 * ImmHi) .. 2 * ImmHi - 1

\* The patch leads to the transit code of the entry, although adrp reaches whole
\* pages only (arch_arm64.c:106-120, FUNCHOOK_ENTRY_AT_PAGE_BOUNDARY), from every
\* page within reach of adrp; for a page that is not in reach it leads elsewhere
\* and nothing refuses it.
PatchReaches == pc = "ready" => (Adrp(entry.new_code) = entry.page <=> InReach(entry.page))

\* The instructions moved, and the offset execution is at when word i begins
\* one of them or the jump back.
MovedInsns == 1 .. Len(moved) - 1
Begins(i) == \E m \in DOMAIN moved : moved[m] = i
At(i) == LET m == CHOOSE m \in DOMAIN moved : moved[m] = i
         IN IF m = Len(moved) THEN src ELSE m - 1

\* Where running the trampoline from word i, the first of an instruction moved or
\* of the jump back, leads.  Execution goes on word by word, but for a skip,
\* until it comes to the next of them or to a br, which goes where the literal
\* loaded by the word before it says.
Leads(i, taken) ==
  LET from  == IF words[i].op # "skip" THEN i ELSE IF taken THEN i + 1 ELSE i + 3
      stops == {j \in from .. Len(words) : words[j].op \in {"br", "skip"} \/ (j # i /\ Begins(j))}
      stop  == CHOOSE j \in stops : \A k \in stops : j <= k
  IN IF stop # i /\ Begins(stop) THEN At(stop) ELSE pool[words[stop - 1].lit]

\* The trampoline does what the instructions it was made from did: whether a
\* condition holds or not, it goes on where they did (also when that is in the
\* patch, which the code does not look for), an address that is
\* computed, called or loaded from is the one they referred to, and behind the
\* last of them it goes on with the rest of the function.
TrampolineExact ==
  pc \in {"scan", "made"} =>
    /\ \A m \in MovedInsns : LET x == read[m] IN
         /\ Leads(moved[m], TRUE) = IF x.kind \in Jumps THEN x.to ELSE m
         /\ Leads(moved[m], FALSE) = IF x.kind \in {"b", "bal"} THEN x.to ELSE m
         /\ x.kind \in Refer \ Jumps => pool[words[moved[m]].lit] = x.to
    /\ \A taken \in BOOLEAN : Leads(moved[Len(moved)], taken) = src

\* The scratch registers of the instructions moved and of the jump back.
Scratch(m) ==
  LET last == IF m = Len(moved) THEN Len(words) ELSE moved[m + 1] - 1
  IN {words[i].reg : i \in moved[m] .. last} \ {0}

\* No scratch register, that of the jump back included, is one that an
\* instruction moved before it has written or that the instruction itself uses.
ScratchIsFree ==
  pc \in {"scan", "made"} =>
    \A m \in DOMAIN moved : \A k \in MovedInsns :
      k <= m => Scratch(m) \cap read[k].regs = {}

\* When make_trampoline succeeds no instruction behind the patch jumps to an
\* instruction that the patch overwrites.
NoLaterJumpIntoPatch ==
  pc = "made" => \A n \in src + 1 .. Len(read) : read[n].kind \in Jumps => ~InPatch(read[n].to)
=============================================================================
