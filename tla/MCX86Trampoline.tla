-------------------------- MODULE MCX86Trampoline --------------------------
(* Instances of X86Trampoline for TLC: 32-bit fields have 7 bits here. *)
EXTENDS X86Trampoline

SomeSizes == {1, 3, 5, 6, 15}

\* Trampolines on both sides of the function, at and behind the limits of what
\* a field reaches.
Amd64 == [cpu |-> "x86_64", stop_on_ret |-> FALSE, check_size |-> 22,
          refs |-> {-60, 0, 1, 4, 5, 40}, func |-> 200,
          trampolines |-> {141, 142, 205, 237, 238, 258, 270},
          hook_funcs |-> {150, 268, 269, 500}]

\* The same with a disassembler that stops at a ret.  A jump back that was not
\* set leads to address 0, which no trampoline near the function reaches.
Amd64Stops == [Amd64 EXCEPT !.stop_on_ret = TRUE, !.check_size = 14, !.refs = {1, 5, 40},
               !.trampolines = {141, 142, 237}]

\* The function is near the end of the address space, which wraps, and where a
\* jump back that was not set makes patch_code_size 18, which fits; it does not
\* in I386Further.
I386 == [cpu |-> "i386", stop_on_ret |-> TRUE, check_size |-> 20,
         refs |-> {-60, -2, 2, 5, 40}, func |-> 110,
         trampolines |-> {0, 60, 127}, hook_funcs |-> {0, 60, 127}]

EveryMachine == {Amd64, Amd64Stops, I386}
I386Further  == {[I386 EXCEPT !.func = 60]}
=============================================================================
