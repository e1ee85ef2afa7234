-------------------------- MODULE SignalPathProps --------------------------
(***************************************************************************)
(* What the path from a signal to its order has to guarantee.              *)
(***************************************************************************)
EXTENDS SignalPath

At == {"idle", "next", "send", "sent", "failed", "submit", "persist", "blocked", "ordered",
       "done", "deleting"}

\* The variables have the values the code gives them; a key in the cache is a process's.
TypeOK ==
  /\ lock \in Locked \union {Nobody} /\ rows \subseteq SignalIds
  /\ recorded \in [SignalIds -> {"none", "blocked", "ordered"}]
  /\ broker \in [Procs -> SUBSET SignalIds] /\ cut \subseteq SignalIds
  /\ \A p \in Procs : proc[p].at \in At /\ (proc[p].at = "send" => proc[p].channel \in DOMAIN Channels)
  /\ \A e \in ledger : e.signal \in SignalIds /\ e.channel \in Elements(Channels)

Working(p, s) == Busy(p) /\ proc[p].at \notin {"next", "done", "deleting"} /\ Current(p) = s

\* However often its bar is evaluated, in whichever processes and after whichever restarts, a
\* signal gets one order, unless the lock did not keep two ticks apart or the tick that
\* placed the order was cut off in it.
OrderedOnce == \A s \in SignalIds : placed[s] > 1 => overlap \/ s \in cut

\* A signal row that shows an order has an order row, always; and an order row gets its
\* signal row, unless the evaluation was cut off in between or overtaken by another one.
RowsAgree ==
  \A s \in SignalIds :
    /\ recorded[s] = "ordered" => s \in rows
    /\ (s \in rows /\ \A p \in Procs : ~Working(p, s)) =>
         recorded[s] = "ordered" \/ overlap \/ s \in cut

\* No order is placed without an attempt to announce it on every selected channel.  As long
\* as no two ticks ran at once, nothing is announced as a new signal or as blocked after the
\* signal has its order row, not even by the tick after a crash.  Once ticks overlapped (the
\* lock lapsed, a slow holder deleted another's, or a process without the lock ran) the code
\* does announce again: the other tick had looked for the row before it was written.
AnnouncedFirst ==
  [][\A s \in SignalIds :
       /\ (placed'[s] > placed[s]) =>
            \A c \in Elements(Channels) : \E e \in ledger :
              e.signal = s /\ e.template = "VALIDATED_SIGNAL" /\ e.channel = c
       /\ (s \in rows /\ ~overlap) =>
            {e \in ledger' \ ledger : /\ e.signal = s
                                      /\ e.template \in {"VALIDATED_SIGNAL",
                                           "VALIDATED_SIGNAL_EXECUTION_BLOCKED"}} = {}]_vars

\* A tick ends whatever the channels answer: a provider that is down for good delays the
\* orders, it never holds them up.
TicksEnd == \A p \in Procs : Busy(p) ~> ~Busy(p)
=============================================================================
