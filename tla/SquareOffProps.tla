--------------------------- MODULE SquareOffProps --------------------------
(***************************************************************************)
(* What the halt and end-of-day machinery promises.                        *)
(***************************************************************************)
EXTENDS SquareOff

CONSTANT Done    \* what HaltLease calls an event that is resolved

\* The checks and the execution of an order are two steps, and entries, monitor exits and
\* square-off exits interleave: still no broker ever holds more of an instrument, on either
\* side, than the position-size limit allows.
WithinSizeLimit ==
  \A p \in Procs, i \in Instruments : Magnitude(net[p][i]) <= MaxSize

Attempting(p, e) == Working(p) /\ task[p].event = e

WorkersOf(e) ==
  LET now == {p \in Procs : Attempting(p, e)}
  IN IF now = {} /\ rows[e].status = "COMPLETED" THEN Done ELSE now

Lease == INSTANCE HaltLease WITH workers <- [e \in Events |-> WorkersOf(e)]

\* The claim rows keep the promise of HaltLease when attempts stay below the staleness
\* limits: one attempt at a time per event, and a COMPLETED event stays COMPLETED.
OneAttemptAtATime == Lease!Spec

Flat(p) == OpenIn(p) = {}

\* A halt is declared COMPLETED only by an attempt that left its own broker flat, and, if
\* it could reconcile, only when every broker whose orders reached the ledger is flat:
\* positions another process holds show up as a divergence.
CompletedMeansFlat ==
  [][\A p \in Procs :
       task[p].at = "closing" /\ task'[p].at = "marking" /\ task'[p].verdict = "COMPLETED"
         => /\ Flat(p)
            /\ task[p].event # EodEvent /\ task'[p].reconciled
                 => \A q \in Procs : "missing" \notin stray[q] => Flat(q)]_vars

\* The monitor may exit, on the broker of p, a ledger position which that broker does not
\* hold: one of another process or of an earlier run, or one it has closed without the
\* ledger learning of it.
Unbacked(p, i) ==
  \E k \in DOMAIN plans :
    plans[k].inst = i /\ (plans[k].owner # p \/ "missing" \in stray[p])

\* While the switch stays engaged (HALT_NEW_ENTRIES) no order sets out that would take a
\* position, and a position only grows by an order that was past the kill-switch check
\* when the switch was engaged, or by the exit of a ledger position without a broker's.
HaltedStartsNothing ==
  [][halt.on /\ halt'.on =>
       \A p \in Procs :
         /\ task'[p].at = "submitting" => task[p].at = "submitting"
         /\ \A i \in Instruments :
              Magnitude(net'[p][i]) > Magnitude(net[p][i])
                => task[p].at = "submitting" \/ Unbacked(p, i)]_vars

\* position_monitor_runtime.py: "Closes EVERY currently open broker position,
\* unconditionally".
ClosesEveryPosition ==
  \A p \in Procs : task[p].at = "closing" => ~task[p].failed
=============================================================================
