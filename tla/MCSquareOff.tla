---------------------------- MODULE MCSquareOff ----------------------------
(* Instances of SquareOff for TLC. *)
EXTENDS SquareOffProps, TLC

ProcSymmetry == Permutations(Procs)

\* At most one process at a time has orders the ledger never learned of.
UnsavedBound == Cardinality({p \in Procs : "missing" \in stray[p]}) <= 1
=============================================================================
