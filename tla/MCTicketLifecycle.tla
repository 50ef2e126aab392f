-------------------------- MODULE MCTicketLifecycle --------------------------
(***************************************************************************)
(* Small instances of TicketLifecycle; each cfg gives its bounds.          *)
(***************************************************************************)
EXTENDS TicketLifecycle, TLC

Symmetry == Permutations(Tickets) \cup Permutations(Workers) \cup Permutations(Agents)
=============================================================================
