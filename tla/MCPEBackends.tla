----------------------------- MODULE MCPEBackends -----------------------------
(* The data the backends are checked on, around the sizes at which a section *)
(* takes one more unit, and at which the names of the libraries do not fit:  *)
(* 367 bytes are left for them on 64 bits and 399 on 32 bits.                *)
EXTENDS PEBackends, SequencesExt

CONSTANTS LiteralSizes, NameSizes64, NameSizes86

MCInputs ==
  [x64 |-> [literals : SeqOf(LiteralSizes, 3),
            libraries : SeqOf(NameSizes64, 2)],
   x86 |-> [literals : SeqOf(LiteralSizes, 2),
            libraries : SeqOf(NameSizes86, 2)]]
=============================================================================
