--------------------------- MODULE SquareOffLive ---------------------------
(***************************************************************************)
(* What an engaged kill switch leads to.  A halt that is COMPLETED is      *)
(* never taken up again, so a history variable remembers whether something *)
(* was still out when it was marked.                                       *)
(***************************************************************************)
EXTENDS SquareOffProps

CONSTANT Reached      \* the workers which the checks reach again and again

ASSUME ReachedAssumption == Reached \subseteq Runners

VARIABLE overlooked   \* was this halt marked COMPLETED over something out of reach?

\* What an attempt of p does not close: another process's position, its order that is past
\* the kill-switch check, or a ledger position which no broker holds and a monitor may exit.
OutOfReach(p) ==
  \/ \E q \in Procs \ {p} : ~Flat(q) \/ task[q].at = "submitting"
  \/ \E q \in Procs, i \in Instruments : Unbacked(q, i)

MarksCompleted(p) ==
  /\ Working(p) /\ task[p].event = halt.id
  /\ rows[halt.id].status # "COMPLETED"
  /\ rows'[halt.id].status = "COMPLETED"

HInit == Init /\ overlooked = FALSE

HNext ==
  /\ Next
  /\ overlooked' = (/\ halt'.id = halt.id
                     /\ \/ overlooked
                        \/ \E p \in Runners : MarksCompleted(p) /\ OutOfReach(p))

LiveSpec == HInit /\ [][HNext]_<<vars, overlooked>> /\ Fairness(Reached)

\* What the risk gate refuses to close however often the square-off asks.
Stuck(p) ==
  \E i \in OpenIn(p) : ~GateAllows(p, i, Magnitude(net[p][i]))

\* An engaged kill switch leads to a flat broker in every worker which the checks reach,
\* whether or not they reach the others, whatever attempts fail, die, lose their mark or cannot
\* reconcile on the way, and whatever orders were past the switch when it was engaged.  Three
\* things end it otherwise: the operator's reset, a position whose exit breaks a risk limit,
\* and a halt marked COMPLETED while another process's position or order, or a ledger position
\* without a broker's, was out of the attempt's reach (overlooked): it is not taken up again.
HaltLeadsToFlat ==
  halt.on ~> (~halt.on \/ overlooked \/ \A p \in Reached : Flat(p) \/ Stuck(p))
=============================================================================
