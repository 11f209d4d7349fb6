------------------------------ MODULE Targets ------------------------------
(***************************************************************************)
(* What covoar knows of the instructions of each CPU: which disassembled   *)
(* lines it takes for a nop and of what size (isNopLine), and which        *)
(* mnemonics it takes for conditional branches (branchInstructions).  A    *)
(* disassembled line is known by its mnemonic; the entries of nops stand   *)
(* for the whole line the code compares: xchg for "xchg %ax,%ax", xor for  *)
(* a register with itself, lea for "lea 0x0(%esi),%esi".                   *)
(***************************************************************************)
EXTENDS Sequences

Words(stems, endings) == {s \o e : s \in stems, e \in endings}

\* The literal tables behind an ARM function are data, skipped like nops.
arm ==
  [nops     |-> [nop |-> 4, byte |-> 1, short |-> 2, word |-> 4],
   branches |-> Words({"b"}, {"cc", "cs", "eq", "ge", "gt", "hi", "l-hi", "l-lo", "le",
                              "ls", "lt", "mi", "ne", "pl", "vc", "vs"})]
i386 ==
  [nops     |-> [nop |-> 1, xchg |-> 2, xor |-> 2, lea |-> 3],
   branches |-> Words({"j"}, {"c", "o", "p", "s", "z", "pe", "po"})
                \cup Words({"j", "jn"}, {"a", "b", "e", "g", "l", "ae", "be", "ge", "le"})
                \cup Words({"jn"}, {"c", "o", "p", "s", "z"})]
lm32 ==
  [nops     |-> [nop |-> 4],
   branches |-> Words({"b"}, {"e", "ge", "geu", "g", "gu", "ne"})]
\* "Until binutils 2.20, binutils would fill with rts not nop."
m68k ==
  [nops     |-> [nop |-> 2, rts |-> 4],
   branches |-> Words({"bcc", "bcs", "beq", "bge", "bgt", "bhi", "bhs", "ble", "blo",
                       "bls", "blt", "bmi", "bne", "bpl", "bvc", "bvs"}, {"", "s", "l"})]
powerpc ==
  [nops     |-> [nop |-> 4],
   branches |-> Words({"beq", "bne", "bge", "bgt", "ble", "blt"}, {"", "+", "-"})
                \cup Words({"b"}, {"la", "c", "ca", "cl", "cla", "cctr", "cctrl",
                                   "clr", "clrl"})]
sparc ==
  [nops     |-> [nop |-> 4, unknown |-> 4, rts |-> 4],
   branches |-> Words({"bn", "be", "ble", "bl", "bleu", "bcs", "bneg", "bvs", "ba", "bne",
                       "bg", "bge", "bgu", "bcc", "bpos", "bvc"}, {"", ",a"})]

Target == [arm |-> arm, i386 |-> i386, lm32 |-> lm32, m68k |-> m68k,
           powerpc |-> powerpc, sparc |-> sparc]
Cpus   == DOMAIN Target

\* isNopLine and the size it sets, 0 when it says no; isBranchLine.
NopSize(cpu, op)  == IF op \in DOMAIN Target[cpu].nops THEN Target[cpu].nops[op] ELSE 0
IsBranch(cpu, op) == op \in Target[cpu].branches

\* No instruction is in both tables.  This says nothing of a constant: TLC
\* evaluates it in full; it is here because the provers know no strings.
ASSUME TablesAssumption ==
  \A cpu \in Cpus : DOMAIN Target[cpu].nops \cap Target[cpu].branches = {}
=============================================================================
