--------------------------- MODULE PaperSessions ---------------------------
(***************************************************************************)
(* The two kinds of paper sessions and what they have to guarantee.  They  *)
(* share the kill switch and nothing else: in each behaviour the requests  *)
(* of one kind move, so that the states are a sum and not a product.       *)
(***************************************************************************)
EXTENDS ReplaySession, LiveSession

VARIABLE kind   \* which sessions this behaviour is about
vars == <<replayVars, liveVars, kind>>

Init == ReplayInit /\ LiveInit /\ kind \in {"replay", "live"}

Next ==
  /\ UNCHANGED kind
  /\ \/ kind = "replay" /\ ReplayNext /\ UNCHANGED liveVars
     \/ kind = "live" /\ LiveNext(halted) /\ UNCHANGED replayVars
     \/ kind = "live" /\ KillSwitch /\ UNCHANGED liveVars

Spec == Init /\ [][Next]_vars

-----------------------------------------------------------------------------
\* However the requests of several clients overlap, the row is one that some request
\* computed as a whole: a completed session is at the end of the day it shows, no other
\* session that started is past it, and the length is that of its day.
SessionIsWhole ==
  row # Nothing =>
    /\ row.total = Steps(row.day) /\ row.cursor <= row.total
    /\ row.status = "COMPLETED" => row.cursor = row.total
    /\ row.status \in {"RUNNING", "PAUSED"} /\ row.total > 0 => row.cursor < row.total

\* The projection never looks ahead: two days that agree on the bars up to the cursor, and
\* on the open of the next bar, are shown the same up to there, whatever comes after.
Agree(d, e, n) ==
  /\ n < Len(d) /\ n < Len(e) /\ SubSeq(d, 1, n) = SubSeq(e, 1, n) /\ d[n + 1].open = e[n + 1].open
NoLookAhead ==
  row # Nothing =>
    \A other \in Days : Agree(row.day, other, row.cursor) =>
      Project(row.day, row.cursor, halted).shown = Project(other, row.cursor, halted).shown

\* RUNNING or STOPPED is shown only if the settings a cycle takes from the configuration are
\* now the ones the worker's last cycle ran under, however many operators edited, started and
\* stopped at once.  The universe is not among them: it is the one of the worker process, and
\* it is sure to be the desired one only if that process started under the desired version.
\* RUNNING is also shown for a universe saved later, which nobody has subscribed.
EvidenceOfReconcile ==
  kind = "live" /\ SessionState(halted) \in {"RUNNING", "STOPPED"} =>
    /\ applied # Nil /\ applied.settings = LiveSettings(desired)
    /\ applied.process.version = desired.version =>
         applied.process.universe = desired.universe
=============================================================================
