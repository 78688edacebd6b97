---------------------------- MODULE MCSmallParts ----------------------------
(***************************************************************************)
(* The parts of the library that share no state with the others, checked   *)
(* together: each behaviour is one of one part, the others stand still.    *)
(***************************************************************************)
EXTENDS DebugLog, PrehookFrame, RipRelative, Resolve

VARIABLE part

TheParts == {"log", "frame", "operand", "resolve"}

MCInit ==
  /\ part \in TheParts
  /\ LogInit /\ FrameInit /\ RipInit /\ ResolveInit
  /\ part # "frame" => abi = "sysv"

MCNext ==
  /\ \/ part = "log"     /\ LogNext     /\ UNCHANGED <<frameVars, ripVars, resolveVars>>
     \/ part = "frame"   /\ FrameNext   /\ UNCHANGED <<logVars, ripVars, resolveVars>>
     \/ part = "operand" /\ RipNext     /\ UNCHANGED <<logVars, frameVars, resolveVars>>
     \/ part = "resolve" /\ ResolveNext /\ UNCHANGED <<logVars, frameVars, ripVars>>
  /\ UNCHANGED part

MCSpec == MCInit /\ [][MCNext]_<<part, logVars, frameVars, ripVars, resolveVars>>

\* cmp [rip+d], imm; mov reg, [rip+d]; lea; cmpeqsd; imul; jmp rel32; jmp rel8;
\* mov [reg+d], imm.
Op(t, n) == [type |-> t, size |-> n]
SomeShapes ==
  {<<>>, <<Op("O_RIP", 4)>>, <<Op("O_REG", 0), Op("O_RIP", 4)>>, <<Op("O_RIP", 4), Op("O_IMM", 1)>>,
   <<Op("O_RIP", 4), Op("O_IMM", 4)>>, <<Op("O_REG", 0), Op("O_RIP", 4), Op("O_IMM", 1)>>,
   <<Op("O_PC", 4)>>, <<Op("O_PC", 1)>>, <<Op("O_MEM", 1), Op("O_IMM", 4)>>}

\* Programs at a fixed and at a relocated address, with the symbol of the
\* function that is looked for, and a library that defines it or not, before or
\* behind the object of funchook (funchook may be part of the program).
Symbol(v, n, d, f, e) ==
  [name |-> "f", value |-> v, size |-> n, defined |-> d, func |-> f, end |-> e]
Other == [name |-> "g", value |-> 7, size |-> 4, defined |-> TRUE, func |-> TRUE, end |-> FALSE]
Object(a, e, s) == [l_addr |-> a, elf |-> e, syms |-> s]
SomePrograms ==
  {[objects |-> <<Object(a, e, <<Other, s>>)>> \o libs, self |-> i, func |-> f] :
     a \in {0, 20, 60}, e \in BOOLEAN, f \in {5, 7, 25, 43, 53, 65},
     s \in {Symbol(v, n, n > 0 \/ v = 0, fn, end) : v \in {0, 5}, n \in {0, 4}, fn \in BOOLEAN, end \in BOOLEAN}
             \cup {Symbol(5, 0, TRUE, TRUE, FALSE)},
     libs \in {<<Object(40, TRUE, l), Object(50, TRUE, m)>> :
                 l \in {<<>>, <<Symbol(3, 4, TRUE, TRUE, FALSE)>>},
                 m \in {<<>>, <<Symbol(3, 4, TRUE, TRUE, FALSE)>>}},
     i \in 1 .. 2}

\* The function at 100 may jump to a stub at 120 or be one; slots are before
\* and behind it, in the import table or not.
Code(op, a) == [op |-> op, to |-> a]
SomeImages ==
  {[cpu |-> c, code |-> (100 :> first @@ 120 :> stub), func |-> f, module |-> md, iat |-> t,
    slots |-> (84 :> 300 @@ 115 :> 302 @@ 164 :> 301)] :
     c \in {"x86_64", "i386", "arm64"}, md \in BOOLEAN, f \in {100, 120},
     first \in {Code("other", 0), Code("jump", 120), Code("indirect", 84), Code("indirect", 164)},
     stub \in {Code("other", 0), Code("indirect", 84), Code("indirect", 164)},
     t \in SUBSET {84, 115, 164}}
=============================================================================
