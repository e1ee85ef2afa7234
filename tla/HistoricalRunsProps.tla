------------------------ MODULE HistoricalRunsProps ------------------------
(***************************************************************************)
(* What the runs over the common bar store have to guarantee.              *)
(***************************************************************************)
EXTENDS HistoricalRuns

\* What a backtest run says it achieved is in the database, however its executions overlap
\* and whatever fails on the way: the results it shows are saved, COMPLETED stands for one of
\* each series, PARTIAL for one at least, and each is computed from bars of Dhan alone.
ClaimsAreBacked ==
  /\ \A x \in saved : x.bars = {REAL}
  /\ \A r \in Backtests :
       LET with == {x.series : x \in {y \in saved : y.run = r}} IN
       /\ row[r].results \subseteq with
       /\ row[r].status = "COMPLETED" => with = Range(Plan[r])
       /\ row[r].status = "PARTIAL" => with # {}

\* A bar of Dhan's is replaced by a synthetic one only by a task that had found it missing,
\* before another one fetched it.
RealIsKept ==
  [][\A s \in Series, t \in Slots :
       (store[s][t] = REAL /\ store'[s][t] # REAL) =>
         \E e \in Executions : At(e, "fetch") /\ Current(e) = s /\ t \in work[e].missing]_vars

\* A run that is asked for is never left behind: as long as its row shows neither of the
\* terminal statuses its message is published or one of its executions is under way, however
\* many it gets and wherever they fail, unless one ended without being able to say so.
NeverLeftBehind ==
  \A r \in Runs :
    row[r].status \in {"QUEUED", "RUNNING"} =>
      \/ r \in queue \/ r \in lost
      \/ \E place \in {"web", "worker"} : ~At(<<r, place>>, "gone")
=============================================================================
