---------------------------- MODULE RipRelative ----------------------------
(***************************************************************************)
(* Where the relative operand of an x86 instruction is: what               *)
(* funchook_disasm_x86_rip_relative reports with each of the three         *)
(* disassemblers, and the check of handle_rip_relative (arch_x86.c).       *)
(* Capstone and Zydis report the offsets of the fields of an instruction.  *)
(* distorm does not: disasm_distorm.c estimates them from the sizes of the *)
(* operands and a list of the opcodes that end in a byte which is none.    *)
(*                                                                         *)
(* An instruction is opcode bytes, then the displacement, then immediates, *)
(* then the last opcode byte if it has one.  Bytes are small numbers.      *)
(***************************************************************************)
EXTENDS Integers, Sequences, FiniteSetsExt

CONSTANTS
  Bytes,        \* the values of operand bytes
  Shapes,       \* the operand lists that occur: sequences of [type, size], size in bytes
  Disassemblers

OpByte  == -1   \* a byte of the opcode; no operand byte has this value
NopByte == -2   \* NOP_INSTRUCTION, which fills the trampoline behind the instruction

OperandRecord == [type : {"O_REG", "O_IMM", "O_PC", "O_RIP", "O_MEM"}, size : {0, 1, 4}]

\* The operands of an x86 instruction: at most one is relative to the
\* instruction pointer, and what has bytes and is written before it, or is in
\* memory besides it, does not occur.
X86Shape(ops) ==
  /\ ops \in Seq(OperandRecord) /\ Len(ops) <= 4
  /\ \A i, j \in DOMAIN ops :
       ops[i].type \in {"O_PC", "O_RIP"} =>
         /\ ops[i].size # 0
         /\ j # i => /\ ops[j].type \notin {"O_PC", "O_RIP"}
                     /\ j < i \/ ops[j].type = "O_MEM" => ops[j].size = 0

ASSUME RipRelativeAssumption ==
  /\ {OpByte, NopByte} \cap Bytes = {}
  /\ Disassemblers \subseteq {"capstone", "distorm", "Zydis"}
  /\ \A ops \in Shapes : X86Shape(ops)

VARIABLES
  insn,         \* the instruction copied to the trampoline
  rel_disp,     \* rel_disp and rel_imm: raddr as bytes, size in bytes, offset from 0
  rel_imm,
  fixed,        \* disp[1].pos_offset: the offsets accepted, relative to the instruction
  ripState      \* "decode", "disp", "imm", "accepted", or the error returned

ripVars == <<insn, rel_disp, rel_imm, fixed, ripState>>

NoRelative == [raddr |-> <<>>, size |-> 0, offset |-> 0]

\* The bytes of some of the operands.  OPERANDS_NO is 4.
SizeOf(ops, which) ==
  LET size(i) == IF i \in which THEN ops[i].size ELSE 0
  IN  size(1) + size(2) + size(3) + size(4)

OpsSize(ops, k) == SizeOf(ops, 1 .. k)

Memory == {"O_RIP", "O_MEM"}

\* The encoding of x86 instructions: what of ops precedes what.
FieldOffset(n, i) ==
  LET immediates == {j \in DOMAIN n.ops : n.ops[j].type \notin Memory /\ (n.ops[i].type \in Memory \/ j >= i)}
  IN  Len(n.bytes) - n.suffix - SizeOf(n.ops, immediates)
        - (IF n.ops[i].type \in Memory THEN n.ops[i].size ELSE 0)

\* The size bytes at an offset of the trampoline, from where insn was copied.
Read(n, offset, size) ==
  [k \in 1 .. size |-> IF offset + k \in DOMAIN n.bytes THEN n.bytes[offset + k] ELSE NopByte]

\* Every instruction with these operands and operand bytes.  The last opcode
\* byte may have the value of an operand byte; listed is whether
\* disasm_distorm.c knows that the opcode ends in one.
Instructions(ops, suffix) ==
  [ops : {ops}, suffix : {suffix}, listed : IF suffix = 1 THEN BOOLEAN ELSE {FALSE},
   bytes : {<<OpByte, OpByte>> \o tail : tail \in [1 .. OpsSize(ops, Len(ops)) + suffix -> Bytes]}]

RipInit ==
  /\ insn = [ops |-> <<>>, suffix |-> 0, listed |-> FALSE, bytes |-> <<OpByte>>]
  /\ rel_disp = NoRelative /\ rel_imm = NoRelative
  /\ fixed = {}
  /\ ripState = "decode"
-----------------------------------------------------------------------------
\* The operand numbers with a relative operand of one of types.
Relative(n, types) == {i \in DOMAIN n.ops : n.ops[i].type \in types}

\* capstone and Zydis: the offset is the encoding's.
Exact(n, types) ==
  IF Relative(n, types) = {} THEN NoRelative
  ELSE LET i == Max(Relative(n, types))
       IN  [raddr  |-> Read(n, FieldOffset(n, i), n.ops[i].size),
            size   |-> n.ops[i].size,
            offset |-> FieldOffset(n, i)]

\* The opcodes of the switch: opsiz++.
Suffix(n) == IF n.listed THEN 1 ELSE 0

\* distorm: opsiz when operand i was reached, from the end of the operands.
Estimated(n, types) ==
  IF Relative(n, types) = {} THEN NoRelative
  ELSE LET i == Max(Relative(n, types))
       IN  [Exact(n, types) EXCEPT
             !.offset = Len(n.bytes) - (OpsSize(n.ops, Len(n.ops)) + Suffix(n)) + OpsSize(n.ops, i - 1)]

\* funchook_disasm_x86_rip_relative.
Disassemble(d, n) ==
  /\ insn' = n
  /\ IF d = "distorm"
       THEN rel_disp' = Estimated(n, {"O_RIP"}) /\ rel_imm' = Estimated(n, {"O_PC"})
       ELSE rel_disp' = Exact(n, {"O_RIP"}) /\ rel_imm' = Exact(n, {"O_PC"})
  /\ ripState' = "disp"
  /\ UNCHANGED fixed

\* Mutant of HandleRipRelative: no sanity check.
HandleRipRelativeUnchecked(rel, next) ==
  /\ ripState' = IF rel.size \in {0, 4} THEN next ELSE "CANNOT_FIX_IP_RELATIVE"
  /\ fixed' = IF rel.size = 4 THEN fixed \cup {rel.offset} ELSE fixed
  /\ UNCHANGED <<insn, rel_disp, rel_imm>>

\* handle_rip_relative.
HandleRipRelative(rel, next) ==
  /\ \/ rel.size = 0 /\ ripState' = next /\ UNCHANGED fixed
     \/ /\ rel.size = 4 /\ Read(insn, rel.offset, 4) = rel.raddr
        /\ ripState' = next
        /\ fixed' = fixed \cup {rel.offset}
     \/ /\ rel.size # 0 /\ (rel.size = 4 => Read(insn, rel.offset, 4) # rel.raddr)
        /\ ripState' = IF rel.size = 4 THEN "IP_RELATIVE_OFFSET" ELSE "CANNOT_FIX_IP_RELATIVE"
        /\ UNCHANGED fixed
  /\ UNCHANGED <<insn, rel_disp, rel_imm>>

HandleDisp == ripState = "disp" /\ HandleRipRelative(rel_disp, "imm")

HandleImm == ripState = "imm" /\ HandleRipRelative(rel_imm, "accepted")

RipNext ==
  \/ /\ ripState = "decode"
     /\ \E d \in Disassemblers, ops \in Shapes, suffix \in {0, 1} :
          \E n \in Instructions(ops, suffix) : Disassemble(d, n)
  \/ HandleDisp
  \/ HandleImm

RipSpec == RipInit /\ [][RipNext]_ripVars
-----------------------------------------------------------------------------
\* An instruction with a relative operand of 32 bits is copied only if the
\* operand that will be rewritten is that operand, or the operand and the byte
\* behind it are one byte repeated, so that the same bytes stand at the estimated
\* offset; and it is refused for a wrong offset only if it ends in an opcode
\* byte disasm_distorm.c does not know of (disasm_distorm.c:301-306).
OperandFound ==
  LET fields  == {FieldOffset(insn, i) : i \in Relative(insn, {"O_PC", "O_RIP"})}
      unknown == insn.suffix = 1 /\ ~insn.listed
  IN  /\ ripState = "accepted" => /\ (fixed = {}) <=> (fields = {})
                                  /\ \/ fixed \subseteq fields
                                     \/ /\ unknown
                                        /\ \A o \in fields : \A k \in 1 .. 4 :
                                             insn.bytes[o + k + 1] = insn.bytes[o + k]
      /\ ripState = "IP_RELATIVE_OFFSET" => unknown
=============================================================================
