--------------------------- MODULE BarAggregation ---------------------------
(***************************************************************************)
(* From quotes to bars for one instrument (every operator of the code      *)
(* treats the instruments one by one): quotes are stored as observations,  *)
(* the observations of the last Lookback are aggregated into bars, the     *)
(* bars overwrite the stored ones, and those that pass the promotion       *)
(* conditions are handed to the strategies (SignalPath).                   *)
(*                                                                         *)
(* Two callers do this without excluding each other: the ingestion task    *)
(* ("tick", only while the session is open) and the market data worker     *)
(* ("worker", also after it).  Rows with equal source timestamps come out  *)
(* of the database in any order.  Time is counted in units, Duration units *)
(* to a bar; the session is open from 0 to CloseAt.                        *)
(***************************************************************************)
EXTENDS Integers, Sequences, FiniteSetsExt, Functions

CONSTANTS Duration, Lookback, CloseAt,
          Readouts,               \* price and cumulative volume (or NoVolume) of a quote
          Lags,                   \* how far behind the clock a source timestamp may be
          MinimumObservations,
          MaxTime, LastQuote, MaxRows, MaxReads   \* bounds

NoVolume == -1

\* bar_aggregation.py: the lookback covers a trading session, whatever its phase.
ASSUME BarConstants ==
  /\ Duration \in Nat \ {0} /\ CloseAt \in Nat /\ Lookback \in Nat /\ Lookback >= CloseAt
  /\ Readouts \subseteq [price : Nat, volume : Nat \union {NoVolume}] /\ Lags \subseteq Int
  /\ MinimumObservations \in Nat /\ MaxTime \in Nat
  /\ LastQuote \in Nat /\ MaxRows \in Nat /\ MaxReads \in Nat

VARIABLES now,
          rows,    \* LiveQuoteObservation, in the order they were stored
          bars,    \* AggregatedBarObservation by interval_start
          work,    \* what each caller is storing
          reads    \* how many aggregations there were
barVars == <<now, rows, bars, work, reads>>

Callers == {"tick", "worker"}
Resting == <<>>
IntervalStart(t) == (t \div Duration) * Duration
Open(t) == t < CloseAt

-----------------------------------------------------------------------------
\* aggregate_quotes_into_bars: a walk over the intervals from the first observed one.

\* The volume of a bar is the growth of the exchange's running total since the last bar that
\* had a reading; a total that fell was reset.
BadVolume(baseline, latest) == IF baseline = NoVolume THEN 0 ELSE latest - baseline
Volume(baseline, latest) ==
  IF baseline = NoVolume THEN 0
  ELSE IF latest >= baseline THEN latest - baseline ELSE latest

\* Of a bucket only the positions are kept: the quotes come ordered by source timestamp.
BadBar(quotes, start, bucket, asOf, volume, gaps) ==
  [start |-> start, open |-> quotes[Min(bucket)].price, close |-> quotes[Max(bucket)].price,
   high |-> Max({quotes[Min(bucket)].price, quotes[Max(bucket)].price}),
   low |-> Min({quotes[Min(bucket)].price, quotes[Max(bucket)].price}),
   closed |-> start # IntervalStart(asOf),
   count |-> Cardinality(bucket), volume |-> volume, gaps |-> gaps]
Bar(quotes, start, bucket, asOf, volume, gaps) ==
  LET prices == {quotes[j].price : j \in bucket}
  IN [start |-> start, open |-> quotes[Min(bucket)].price, close |-> quotes[Max(bucket)].price,
      high |-> Max(prices), low |-> Min(prices), closed |-> start # IntervalStart(asOf),
      count |-> Cardinality(bucket), volume |-> volume, gaps |-> gaps]

\* A quote that is stamped after as_of is an anomaly and takes no part.
Valid(quotes, asOf) == {j \in DOMAIN quotes : quotes[j].at <= asOf}
Bucket(quotes, asOf, start) == {j \in Valid(quotes, asOf) : IntervalStart(quotes[j].at) = start}

\* One turn of the walk.
Interval(quotes, asOf, acc, start) ==
  LET bucket == Bucket(quotes, asOf, start)
      read == {j \in bucket : quotes[j].volume # NoVolume}
      latest == quotes[Max(read)].volume
      volume == IF read = {} THEN 0 ELSE Volume(acc.baseline, latest)
  IN IF bucket = {}
     THEN IF start = IntervalStart(asOf) THEN acc ELSE [acc EXCEPT !.gaps = @ + 1]
     ELSE [gaps |-> acc.gaps, baseline |-> IF read = {} THEN acc.baseline ELSE latest,
           bars |-> Append(acc.bars, Bar(quotes, start, bucket, asOf, volume, acc.gaps))]

Unwalked == [gaps |-> 0, baseline |-> NoVolume, bars |-> <<>>]
Walk(quotes, asOf, first, n) ==
  LET walked[k \in 0..n] ==
        IF k = 0 THEN Unwalked ELSE Interval(quotes, asOf, walked[k-1], (first + k - 1) * Duration)
  IN walked[n]

Aggregate(quotes, asOf) ==
  LET first == quotes[Min(Valid(quotes, asOf))].at \div Duration
      last == asOf \div Duration
  IN IF Valid(quotes, asOf) = {} THEN <<>> ELSE Walk(quotes, asOf, first, last - first + 1).bars

\* evaluate_bar_promotion of a closed bar, by the closed bars before it.
BadPromoted(result, j, session, healthy) ==
  /\ session /\ healthy
  /\ result[j].count >= MinimumObservations
Promoted(result, j, session, healthy) ==
  LET before == {k \in 1..(j-1) : result[k].closed}
  IN /\ session /\ healthy
     /\ before # {} => result[j].start = result[Max(before)].start + Duration
     /\ result[j].count >= MinimumObservations

\* promote_bars_and_trigger_signals: which of the closed bars reach the strategies.
Trusted(result, session, healthy) ==
  {result[j].start : j \in {k \in DOMAIN result :
                              result[k].closed /\ Promoted(result, k, session, healthy)}}

\* What they are given with the bar that begins at start: all closed bars up to it, whether
\* or not those were promoted.
Handed(result, start) == {b \in Range(result) : b.closed /\ b.start <= start}

-----------------------------------------------------------------------------
BarInit == now = 0 /\ rows = <<>> /\ bars = <<>> /\ work = [c \in Callers |-> Resting] /\ reads = 0

Pass == now < MaxTime /\ now' = now + 1 /\ UNCHANGED <<rows, bars, work, reads>>

\* save_all: only a repetition of the newest row is dropped; another price or total for the
\* same source timestamp is stored beside it.
Repeats(q) == rows # <<>> /\ rows[Len(rows)] = q
Save(q) ==
  /\ now <= LastQuote /\ Len(rows) < MaxRows /\ ~Repeats(q)
  /\ rows' = Append(rows, q)
  /\ UNCHANGED <<now, bars, work, reads>>

\* get_observations(since): ordered by source timestamp and by nothing else.
BadSince(asOf) == asOf - Duration
Since(asOf) == asOf - Lookback
Readings(asOf) ==
  LET S == {i \in 1..Len(rows) : rows[i].at >= Since(asOf)}
      n == Cardinality(S)
  IN {[i \in 1..n |-> rows[s[i]]] : s \in {s \in [1..n -> S] : IsInjective(s)
        /\ \A i \in 1..n-1 : rows[s[i]].at <= rows[s[i+1]].at}}

\* aggregate_and_persist, up to the first bar that is stored, and what will be promoted: the
\* session is that of the clock the caller started with; the ingestion task takes its
\* connection to be healthy, the worker asks its watchdog.
Read(c) ==
  /\ work[c] = Resting /\ reads < MaxReads /\ reads' = reads + 1
  /\ c = "tick" => Open(now)
  /\ \E read \in Readings(now), healthy \in IF c = "tick" THEN {TRUE} ELSE BOOLEAN :
       LET result == Aggregate(read, now)
       IN /\ result # <<>>
          /\ work' = [work EXCEPT ![c] = [asOf |-> now, seen |-> Len(rows),
                        read |-> read, result |-> result,
                        trusted |-> Trusted(result, Open(now), healthy)]]
  /\ UNCHANGED <<now, rows, bars>>

\* One update_or_create for each bar, all of them or as many as there were before a failure;
\* then the strategies run.
Store(c) ==
  /\ work[c] # Resting
  /\ \E n \in 1..Len(work[c].result) :
       LET stored == {work[c].result[j].start : j \in 1..n}
           Row(start) == [bar |-> CHOOSE b \in Range(work[c].result) : b.start = start,
                          seen |-> work[c].seen, asOf |-> work[c].asOf]
       IN bars' = [start \in DOMAIN bars \union stored |->
                     IF start \in stored THEN Row(start) ELSE bars[start]]
  /\ work' = [work EXCEPT ![c] = Resting]
  /\ UNCHANGED <<now, rows, reads>>

BarNext ==
  \/ Pass
  \/ \E lag \in Lags, r \in Readouts :
       now >= lag /\ Save([at |-> now - lag, price |-> r.price, volume |-> r.volume])
  \/ \E c \in Callers : Read(c) \/ Store(c)

BarSpec == BarInit /\ [][BarNext]_barVars
=============================================================================
