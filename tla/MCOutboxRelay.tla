---------------------------- MODULE MCOutboxRelay ----------------------------
(***************************************************************************)
(* Small instances of OutboxRelay; each cfg gives its bounds.  Executors   *)
(* are interchangeable, and so are events: they differ only by the order   *)
(* in which they are committed.                                            *)
(***************************************************************************)
EXTENDS OutboxRelay, TLC

Symmetry == Permutations(Procs) \cup Permutations(Events)
=============================================================================
