----------------------------- MODULE BankClasses -----------------------------
(***************************************************************************)
(* Words and bank classes, as dram_mapping.c computes them for the daemon  *)
(* and for the oracle experiments.                                         *)
(*                                                                         *)
(* Masks and physical addresses are 64-bit words; here each is the set of  *)
(* its one bits, so AND is intersection and XOR symmetric difference.  A   *)
(* bank class is a word whose bit i is a parity; here, the set of i.       *)
(***************************************************************************)
EXTENDS Integers, Sequences, FiniteSets

parity64(word) == Cardinality(word) % 2

Xor(a, b) == (a \ b) \cup (b \ a)

\* dram_mapping_bank_class_fast.
BankClass(masks, pa) == {i \in 1..Len(masks) : parity64(pa \cap masks[i]) = 1}

\* Defect: a line is taken to be in the class of its page.
Bug_PageClass(masks, base, offset) == BankClass(masks, base)

\* The class of a cache line, from the class of its page's base address and
\* the class of its offset in the page.
LineClass(masks, base, offset) == Xor(BankClass(masks, base), BankClass(masks, offset))
=============================================================================
