----------------------------- MODULE MCAuditChain -----------------------------
(***************************************************************************)
(* Small instances of AuditChain; each cfg gives its bounds.               *)
(***************************************************************************)
EXTENDS AuditChain, TLC

Symmetry == Permutations(Processes) \cup Permutations(Entries)
=============================================================================
