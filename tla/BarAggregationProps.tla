------------------------ MODULE BarAggregationProps ------------------------
(***************************************************************************)
(* What the bars have to be, whoever aggregates them and whenever.         *)
(***************************************************************************)
EXTENDS BarAggregation

In(start, q) == q.at >= start /\ q.at < start + Duration
Busy == {c \in Callers : work[c] # Resting}

\* A bar is one of the quotes at these positions.
IsBarOf(b, quotes, mine, asOf) ==
  /\ mine # {} /\ b.count = Cardinality(mine)
  /\ \E j \in mine : b.open = quotes[j].price /\ \A k \in mine : quotes[j].at <= quotes[k].at
  /\ \E j \in mine : b.close = quotes[j].price /\ \A k \in mine : quotes[j].at >= quotes[k].at
  /\ \A j \in mine : b.low <= quotes[j].price /\ quotes[j].price <= b.high
  /\ {b.low, b.high} \subseteq {quotes[j].price : j \in mine}
  /\ b.closed <=> b.start + Duration <= asOf

\* The walk computes what a bar is: its interval has quotes, open and close are among its
\* earliest and its latest quotes, high and low bound all of them, every quote up to as_of
\* is counted in one bar, and the intervals without a bar before it are its gaps.
BarsMatchQuotes ==
  \A c \in Busy :
    LET w == work[c]
        valid == {j \in DOMAIN w.read : w.read[j].at <= w.asOf}
    IN /\ \A j \in valid : \E k \in DOMAIN w.result : In(w.result[k].start, w.read[j])
       /\ \A j, k \in DOMAIN w.result : j < k => w.result[j].start < w.result[k].start
       /\ \A k \in DOMAIN w.result :
            LET b == w.result[k] IN
            /\ IsBarOf(b, w.read, {j \in valid : In(b.start, w.read[j])}, w.asOf)
            /\ b.gaps * Duration = b.start - w.result[1].start - (k - 1) * Duration

\* While the running total does not fall, the volumes of the bars add up to its growth from
\* the end of the first bar that has a reading to the last reading: none is lost at a gap or
\* counted twice.  No volume is negative, even when the total was reset.
VolumeAccountedFor ==
  \A c \in Busy :
    LET w == work[c]
        read == {j \in DOMAIN w.read : w.read[j].at <= w.asOf /\ w.read[j].volume # NoVolume}
        opening == {j \in read : IntervalStart(w.read[j].at) = IntervalStart(w.read[Min(read)].at)}
        grows == \A j, k \in read : j < k => w.read[j].volume <= w.read[k].volume
    IN /\ \A k \in DOMAIN w.result : w.result[k].volume >= 0
       /\ read # {} /\ grows =>
            SumFunction([k \in DOMAIN w.result |-> w.result[k].volume])
              = w.read[Max(read)].volume - w.read[Max(opening)].volume

\* A bar that reaches the strategies, and every bar they are given with it, holds all
\* observations of its interval that were stored when it was read, although the lookback
\* begins in the middle of an interval: what is missing from the series was not observed.
\* Something was observed right before the bar itself, unless it is the session's first.
\* Further back there may be holes: a bar after a gap is not promoted, but the next one is.
TrustedSeriesIsWhole ==
  \A c \in Busy :
    LET w == work[c]
        Of(start) == Cardinality({j \in 1..w.seen : In(start, rows[j])})
        begin == IntervalStart(Min({rows[j].at : j \in 1..w.seen}))
    IN \A start \in w.trusted :
         /\ \A j \in 1..w.seen : rows[j].at < start + Duration =>
              \E b \in Handed(w.result, start) :
                In(b.start, rows[j]) /\ b.count = Of(b.start)
         /\ start > begin => Of(start - Duration) > 0
         /\ Of(start) >= MinimumObservations

\* A stored bar loses observations only to a caller that read before the one it overwrites,
\* or after the lookback has moved past the beginning of the bar.
NarrowedOnlyByARace ==
  [][\A s \in DOMAIN bars :
       bars'[s].bar.count < bars[s].bar.count =>
         \/ bars'[s].seen < bars[s].seen
         \/ bars'[s].asOf < bars[s].asOf
         \/ s < bars'[s].asOf - Lookback]_barVars
=============================================================================
