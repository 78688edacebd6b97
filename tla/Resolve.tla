------------------------------ MODULE Resolve ------------------------------
(***************************************************************************)
(* funchook_resolve_func: the function to hook for the address an          *)
(* application gives.  With glibc (src/src/os_unix.c) the address of a     *)
(* library function may be that of a PLT entry of the program; the dynamic *)
(* symbols of the program tell.  On Windows (src/src/os_windows.c) it may  *)
(* be a jump through the import address table of the module it is in.      *)
(*                                                                         *)
(* Addresses are small numbers.  What calling the given address executes,  *)
(* by the rules of the dynamic linker or the processor, is Runs.           *)
(***************************************************************************)
EXTENDS Integers, Sequences, FiniteSetsExt

CONSTANTS
  Programs,    \* what can be in memory with glibc, see UnixProgram
  Images,      \* what can be in memory on Windows, see Image
  NoFunc,      \* the NULL dlsym returns
  ImagePage,   \* page size, in the unit of addresses
  AdrpPages    \* 2^21: how many pages the immediate of adrp tells apart

SymbolRecord ==
  [name : STRING, value : Nat, size : Nat, defined : BOOLEAN, func : BOOLEAN, end : BOOLEAN]
ObjectRecord == [l_addr : Nat, elf : BOOLEAN, syms : Seq(SymbolRecord)]

\* objects is the link map in search order, the program first.  syms is the
\* dynamic symbol table, and with end what is read behind it.  self is the
\* object of the library that calls dlsym.  By the rules of the linkers:
\* an object that is relocated is above the addresses it was linked for, and
\* only the program may be at a fixed address; an undefined symbol has a value
\* only if it is the PLT entry by which the program knows the function, and then
\* no size; and the program has one symbol of a name and one PLT entry of a
\* function.
UnixProgram(p) ==
  /\ p.objects \in Seq(ObjectRecord) /\ p.self \in DOMAIN p.objects /\ p.func \in Nat \ {0}
  /\ \A o \in DOMAIN p.objects :
       LET syms == p.objects[o].syms IN
       /\ o # 1 => p.objects[o].l_addr # 0
       /\ \A i, j \in DOMAIN syms : syms[i].end /\ i < j => syms[j].end
       /\ \A i \in {k \in DOMAIN syms : ~syms[k].end} :
            /\ p.objects[o].l_addr # 0 => syms[i].value < p.objects[o].l_addr
            /\ ~syms[i].defined => syms[i].size = 0 /\ (o # 1 => syms[i].value = 0)
  /\ LET syms == p.objects[1].syms IN
       \A i, j \in {k \in DOMAIN syms : ~syms[k].end /\ syms[k].value # 0} :
         (\/ syms[i].name = syms[j].name
          \/ ~syms[i].defined /\ ~syms[j].defined /\ syms[i].value = syms[j].value)
           => i = j

\* code is what is at an address: a relative jump (e9) to an address, an
\* indirect jump by the slot at an address, or other instructions.  slots are
\* words of memory, and for arm64 within reach of adrp, half of AdrpPages in
\* each direction.
Image(p) ==
  /\ p.cpu \in {"x86_64", "i386", "arm64"} /\ p.module \in BOOLEAN
  /\ DOMAIN p.code \subseteq Nat
  /\ \A a \in DOMAIN p.code :
       /\ p.code[a].op \in {"jump", "indirect", "other"} /\ p.code[a].to \in Nat
       /\ p.code[a].op = "indirect" => p.code[a].to \in DOMAIN p.slots
  /\ p.func \in DOMAIN p.code
  /\ DOMAIN p.slots \subseteq Nat \ {0} /\ p.iat \subseteq DOMAIN p.slots
  /\ p.cpu = "arm64" =>
       \A f \in DOMAIN p.code, a \in DOMAIN p.slots :
         LET pages == (a \div ImagePage) - (f \div ImagePage)
         IN  -AdrpPages <= 2 * pages /\ 2 * pages < AdrpPages

ASSUME ResolveAssumption ==
  /\ \A p \in Programs : UnixProgram(p)
  /\ \A p \in Images : Image(p)
  /\ ImagePage \in Nat \ {0} /\ AdrpPages \in Nat \ {0}
  /\ NoFunc \notin Nat \ {0}

VARIABLES
  kind,        \* "none", "unix" or "windows"
  program,     \* one of Programs or Images
  lmap,        \* the number of the object looked at, 0 for none
  symtab,      \* the number of the symbol looked at
  resolved,    \* what funchook_resolve_func returns
  resolvePc    \* "start", "scan" or "done"

resolveVars == <<kind, program, lmap, symtab, resolved, resolvePc>>

ResolveInit ==
  /\ kind = "none" /\ program = {} /\ lmap = 0 /\ symtab = 0
  /\ resolved = 0 /\ resolvePc = "start"
-----------------------------------------------------------------------------
(* glibc *)

\* The symbols of an object, without what is behind the end of its table.
Symbols(p, o) ==
  {s \in {p.objects[o].syms[i] : i \in DOMAIN p.objects[o].syms} : ~s.end}

\* A symbol with an address: what the dynamic linker finds in an object.
Found(p, o, name) == {s \in Symbols(p, o) : s.name = name /\ s.value # 0}

Address(p, o, name) == p.objects[o].l_addr + (CHOOSE s \in Found(p, o, name) : TRUE).value

\* dlsym in the objects from number first on.
DlsymFrom(p, name, first) ==
  LET having == {o \in first .. Len(p.objects) : Found(p, o, name) # {}}
  IN  IF having = {} THEN NoFunc ELSE Address(p, Min(having), name)

DlsymDefault(p, name) == DlsymFrom(p, name, 1)
DlsymNext(p, name)    == DlsymFrom(p, name, p.self + 1)

\* The object at the lowest address not above func, the first if several are.
LinkMap(p) ==
  LET below == {o \in DOMAIN p.objects : p.objects[o].l_addr <= p.func}
  IN  IF below = {} THEN 0
      ELSE Min({o \in below : \A q \in below : p.objects[o].l_addr <= p.objects[q].l_addr})

Finish(func) == resolved' = func /\ resolvePc' = "done"

\* The loop over the link map and the check of the ELF header.
FindModule(p) ==
  /\ kind' = "unix" /\ program' = p
  /\ lmap' = LinkMap(p)
  /\ symtab' = 1
  /\ IF LinkMap(p) # 0 /\ (p.objects[LinkMap(p)].l_addr # 0 => p.objects[LinkMap(p)].elf)
       THEN resolvePc' = "scan" /\ resolved' = p.func
       ELSE Finish(p.func)

\* Mutant of Matches: a symbol that has a size is taken, too.
MatchesAnySize(s, func) == s.func /\ s.value = func

\* The symbol of a PLT entry at func, by what the code tests of it.
Matches(s, func) == s.func /\ s.size = 0 /\ s.value = func

\* The table ends where the string table begins, or with a symbol that has no
\* name in it.
AtEnd(syms) == IF symtab > Len(syms) THEN TRUE ELSE syms[symtab].end

\* dlsym for the symbol, and if that is func itself the next one.
Dlsym(p, name) ==
  LET first == DlsymDefault(p, name)
      fn    == IF first = p.func THEN DlsymNext(p, name) ELSE first
  IN  IF fn = NoFunc THEN p.func ELSE fn

\* One turn of the loop over the symbols.
ScanSymbol ==
  /\ kind = "unix" /\ resolvePc = "scan"
  /\ LET syms == program.objects[lmap].syms IN
       \/ AtEnd(syms) /\ Finish(program.func) /\ UNCHANGED symtab
       \/ /\ ~AtEnd(syms) /\ Matches(syms[symtab], program.func)
          /\ Finish(Dlsym(program, syms[symtab].name)) /\ UNCHANGED symtab
       \/ /\ ~AtEnd(syms) /\ ~Matches(syms[symtab], program.func)
          /\ symtab' = symtab + 1 /\ UNCHANGED <<resolved, resolvePc>>
  /\ UNCHANGED <<kind, program, lmap>>
-----------------------------------------------------------------------------
(* Windows *)

PageOfAddress(a) == a - (a % ImagePage)

\* How the processors encode c.to in the instruction at fn: relative to the end
\* of the instruction, but the slot of an indirect jump of i386 by its address,
\* and for arm64 a signed number of pages (adrp) and the place in the page (ldr).
Operand(cpu, fn, c) ==
  CASE c.op = "jump"                        -> c.to - (fn + 5)
    [] c.op = "indirect" /\ cpu = "x86_64" -> c.to - (fn + 6)
    [] c.op = "indirect" /\ cpu = "i386"   -> c.to
    [] c.op = "indirect" /\ cpu = "arm64"  ->
         [imm   |-> ((PageOfAddress(c.to) - PageOfAddress(fn)) \div ImagePage) % AdrpPages,
          imm12 |-> c.to % ImagePage]

\* Where an e9 jump at fn goes.
JumpTarget(fn, operand) == (fn + 5) + operand

\* pos: the slot of an indirect jump at fn.  The immediate of adrp is taken as
\* unsigned.
SlotAddress(cpu, fn, operand) ==
  CASE cpu = "x86_64" -> (fn + 6) + operand
    [] cpu = "i386"   -> operand
    [] cpu = "arm64"  -> PageOfAddress(fn) + ImagePage * operand.imm + operand.imm12

\* The whole of funchook_resolve_func: at most one relative jump is followed, not on
\* arm64, and the slot is looked up in the imports of the module func is in.
ResolveImport(p) ==
  /\ kind' = "windows" /\ program' = p
  /\ LET first == p.code[p.func]
         fn    == IF p.cpu # "arm64" /\ first.op = "jump" THEN JumpTarget(p.func, Operand(p.cpu, p.func, first)) ELSE p.func
         here  == IF fn \in DOMAIN p.code THEN p.code[fn] ELSE [op |-> "other", to |-> 0]
         pos   == IF here.op = "indirect" THEN SlotAddress(p.cpu, fn, Operand(p.cpu, fn, here)) ELSE 0
     IN  Finish(IF pos # 0 /\ p.module /\ pos \in p.iat THEN p.slots[pos] ELSE p.func)
  /\ UNCHANGED <<lmap, symtab>>

ResolveNext ==
  \/ kind = "none" /\ \E p \in Programs : FindModule(p)
  \/ ScanSymbol
  \/ kind = "none" /\ \E p \in Images : ResolveImport(p)

ResolveSpec == ResolveInit /\ [][ResolveNext]_resolveVars
-----------------------------------------------------------------------------
\* The name by which the program itself knows the PLT entry at func.
PltNames(p) ==
  {s.name : s \in {q \in Symbols(p, 1) : ~q.defined /\ q.func /\ q.value # 0
                                          /\ p.objects[1].l_addr + q.value = p.func}}

\* The objects that define name.
Definers(p, name) == {o \in DOMAIN p.objects : \E s \in Found(p, o, name) : s.defined}

\* Calling func: a PLT entry goes to the first definition.
RunsUnix(p) ==
  {Address(p, Min(Definers(p, n)), n) : n \in {m \in PltNames(p) : Definers(p, m) # {}}}

\* The slot a call of func on Windows jumps by, after at most one relative jump.
SlotsUsed(p) ==
  LET first == p.code[p.func]
      fn    == IF first.op = "jump" THEN first.to ELSE p.func
  IN  IF fn \in DOMAIN p.code /\ p.code[fn].op = "indirect" THEN {p.code[fn].to} ELSE {}

RunsWindows(p) == {p.slots[a] : a \in SlotsUsed(p)}

\* The symbols of the program at func that it defines and gives no size.
Unsized(p) == {s \in Symbols(p, 1) : s.defined /\ s.size = 0 /\ s.value = p.func}

\* What is hooked is the function given or the one that calling it executes,
\* never a third one; and it is the latter where the code can tell: the PLT
\* entry of a program at a fixed address, a jump by the import table.  There
\* are two exceptions with glibc.  RTLD_NEXT begins behind the library's own
\* object, so that a definition loaded before it is passed over (os_unix.c:463);
\* and a function of size 0 which the program defines is taken for a PLT entry
\* (os_unix.c:460).  On arm64 a slot below the function is not found.
ResolvedRuns ==
  resolvePc = "done" =>
    \/ /\ kind = "unix"
       /\ LET p     == program
              early == \E n \in PltNames(p) : Definers(p, n) # {} /\ Min(Definers(p, n)) <= p.self
          IN  early \/ Unsized(p) # {} \/
                resolved \in RunsUnix(p) \cup
                  (IF p.objects[1].l_addr = 0 /\ RunsUnix(p) # {} THEN {} ELSE {p.func})
    \/ /\ kind = "windows"
       /\ LET p == program
          IN  resolved \in RunsWindows(p) \cup
                (IF /\ p.module /\ SlotsUsed(p) \cap p.iat # {}
                    /\ p.cpu = "arm64" =>
                         p.code[p.func].op = "indirect" /\ \A a \in SlotsUsed(p) : a >= p.func
                 THEN {} ELSE {p.func})
=============================================================================
