----------------------------- MODULE HaltLease -----------------------------
(***************************************************************************)
(* What the durable claim rows promise: an event is worked on by one       *)
(* process at a time, and once resolved it is never touched again.         *)
(***************************************************************************)
CONSTANTS Events, Procs, Done

VARIABLE workers    \* the processes that work on an event, or Done

Acquire(e, p) ==
  workers[e] = {} /\ workers' = [workers EXCEPT ![e] = {p}]

\* The attempt failed, or died with its process.
Release(e, p) ==
  workers[e] = {p} /\ workers' = [workers EXCEPT ![e] = {}]

Resolve(e, p) ==
  workers[e] = {p} /\ workers' = [workers EXCEPT ![e] = Done]

Init == workers = [e \in Events |-> {}]

Next ==
  /\ workers' # workers
  /\ \E e \in Events, p \in Procs : Acquire(e, p) \/ Release(e, p) \/ Resolve(e, p)

Spec == Init /\ [][Next]_workers
=============================================================================
