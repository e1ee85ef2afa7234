-------------------------- MODULE SignalPathProofs --------------------------
(***************************************************************************)
(* The safety of the path from a signal to its order, for any processes,   *)
(* signals, channels, selections and numbers of attempts, ticks and        *)
(* faults.                                                                 *)
(***************************************************************************)
EXTENDS SignalPathProps, SequenceTheorems, TLAPS

Statuses == {"SKIPPED_NOT_SELECTED", "SENT", "FAILED"}
Todo == Seq(SignalIds)
Pending == {t \in Todo : t # <<>>}
Templates == {"VALIDATED_SIGNAL", "VALIDATED_SIGNAL_EXECUTION_BLOCKED"} \union Outcomes

\* What a process may be doing.
Walking == [at: {"next"}, todo: Todo]
Acting == [at: {"submit", "blocked", "ordered", "persist"}, todo: Pending]
Sending == [at: {"send", "sent", "failed"}, todo: Pending, template: Templates,
            channel: 1..Len(Channels), attempt: Int, then: {"submit", "blocked", "ordered"}]
Ending == {[at |-> "done"], [at |-> "deleting"]}
Shape == {Idle} \union Walking \union Acting \union Sending \union Ending

Shapes ==
  /\ lock \in Locked \union {Nobody} /\ rows \subseteq SignalIds /\ cut \subseteq SignalIds
  /\ recorded \in [SignalIds -> {"none", "blocked", "ordered"}]
  /\ broker \in [Procs -> SUBSET SignalIds]
  /\ placed \in [SignalIds -> Nat]
  /\ proc \in [Procs -> Shape]
  /\ ledger \subseteq [signal: SignalIds, template: Templates, channel: Elements(Channels),
                       status: Statuses]
  /\ overlap \in BOOLEAN

\* What the process does about its signal, the announcement before it included.
Announcing(w) == w.at \in {"send", "sent", "failed"}
Aim(w) == IF Announcing(w) THEN w.then ELSE w.at
Of(w) == Head(w.todo)

\* The channels a signal has been announced on as a new one, according to a ledger.
Told(s, channel, entries) ==
  \E e \in entries : e.signal = s /\ e.template = "VALIDATED_SIGNAL" /\ e.channel = channel

\* What a process knows of its signal: before the order it has no row, unless the ticks may
\* have overlapped, afterwards it has; the channels it is past were told.
Knows(w, shownRows, mayOverlap, entries) ==
  /\ Announcing(w) => CASE w.then = "submit" -> w.template = "VALIDATED_SIGNAL"
                        [] w.then = "blocked" -> w.template = "VALIDATED_SIGNAL_EXECUTION_BLOCKED"
                        [] w.then = "ordered" -> w.template \in Outcomes
  /\ Aim(w) = "ordered" => Of(w) \in shownRows
  /\ Aim(w) \in {"submit", "blocked"} /\ ~mayOverlap => Of(w) \notin shownRows
  /\ Announcing(w) /\ w.then = "submit" =>
       \A j \in 1..(w.channel - 1) : Told(Of(w), Channels[j], entries)
  /\ w.at = "submit" => \A c \in Elements(Channels) : Told(Of(w), c, entries)

\* As long as no two ticks overlapped, who works holds the lock.
Alone == ~overlap => \A p \in Procs : Busy(p) => p \in Locked /\ lock = p

\* A signal has at most one order, which the process that placed it is about to record or
\* has; and one that has its order row gets its signal row from the process that is at it.
Tracked(s) ==
  /\ recorded[s] = "ordered" => s \in rows
  /\ (~overlap /\ s \notin cut) =>
       /\ \/ placed[s] = 0
          \/ /\ placed[s] = 1
             /\ s \in rows \/ \E p \in Procs : proc[p].at = "persist" /\ Current(p) = s
       /\ s \in rows => \/ recorded[s] = "ordered"
                        \/ \E p \in Procs : Aim(proc[p]) = "ordered" /\ Current(p) = s

Inv ==
  /\ Shapes /\ Alone
  /\ \A p \in Procs : Knows(proc[p], rows, overlap, ledger)
  /\ \A s \in SignalIds : Tracked(s)

-----------------------------------------------------------------------------
(* The shapes.                                                             *)

LEMMA SignalsAreIds ==
  /\ \A n \in 1..Len(Signals) : SubSeq(Signals, 1, n) \in Todo
  /\ \A t \in Pending : t \in Todo /\ t # <<>> /\ Head(t) \in SignalIds /\ Tail(t) \in Todo
<1>1. Len(Signals) \in Nat /\ DOMAIN Signals = 1..Len(Signals)
  BY PathConstants
<1>2. ASSUME NEW n \in 1..Len(Signals) PROVE SubSeq(Signals, 1, n) \in Todo
  <2>1. \A i \in 1..n : Signals[i] \in SignalIds
    BY <1>1 DEF SignalIds, Elements
  <2> QED
    BY <1>1, <2>1, SubSeqProperties DEF Todo
<1>3. ASSUME NEW t \in Pending PROVE t \in Todo /\ t # <<>> /\ Head(t) \in SignalIds /\ Tail(t) \in Todo
  BY HeadTailProperties DEF Pending, Todo
<1> QED
  BY <1>2, <1>3

LEMMA ChannelsInOrder ==
  /\ Len(Channels) \in Nat /\ Elements(Channels) = {Channels[j] : j \in 1..Len(Channels)}
  /\ Channels # <<>> => 1 \in 1..Len(Channels)
<1>1. Len(Channels) \in Nat /\ DOMAIN Channels = 1..Len(Channels)
  BY PathConstants
<1>2. Channels # <<>> => Len(Channels) # 0
  BY PathConstants, EmptySeq
<1> QED
  BY <1>1, <1>2 DEF Elements

\* A place tells what else a process has.
LEMMA ShapeAt ==
  ASSUME NEW w \in Shape
  PROVE  /\ w.at = "idle" => w = Idle
         /\ w.at = "next" => w \in Walking
         /\ w.at \in {"submit", "blocked", "ordered", "persist"} => w \in Acting
         /\ w.at \in {"send", "sent", "failed"} => w \in Sending
         /\ w.at \in {"done", "deleting"} => w \in Ending
         /\ w.at \in At
         /\ w # Idle => w.at # "idle"
         /\ Aim(w) \in {"submit", "blocked", "ordered", "persist"} => w.todo \in Pending
<1>1. Idle.at = "idle"
  BY DEF Idle
<1>2. w \in Walking => w.at = "next"
  BY DEF Walking
<1>3. w \in Acting => w.at \in {"submit", "blocked", "ordered", "persist"} /\ w.todo \in Pending
  BY DEF Acting
<1>4. w \in Sending => w.at \in {"send", "sent", "failed"} /\ w.todo \in Pending
  BY DEF Sending
<1>5. w \in Ending => w.at \in {"done", "deleting"}
  BY DEF Ending
<1>6. w = Idle \/ w \in Walking \/ w \in Acting \/ w \in Sending \/ w \in Ending
  BY DEF Shape
<1> QED
  BY <1>1, <1>2, <1>3, <1>4, <1>5, <1>6 DEF At, Aim, Announcing

-----------------------------------------------------------------------------
(* Steps that leave the rows and the orders alone.                         *)

\* Only more entries, or ticks that may have overlapped by now.
LEMMA KnowsStill ==
  ASSUME NEW w, NEW shown, NEW before \in BOOLEAN, NEW after \in BOOLEAN, before => after,
         NEW entries, NEW more, entries \subseteq more, Knows(w, shown, before, entries)
  PROVE  Knows(w, shown, after, more)
<1>1. \A s, c : Told(s, c, entries) => Told(s, c, more)
  BY DEF Told
<1> QED
  BY <1>1 DEF Knows

LEMMA AloneStill ==
  ASSUME Inv, NEW p \in Procs, NEW w, Now(p, w), Busy(p) \/ w = Idle,
         overlap => overlap', lock' = lock
  PROVE  Alone'
<1> SUFFICES ASSUME ~overlap', NEW q \in Procs, proc'[q] # Idle
             PROVE  q \in Locked /\ lock' = q
  BY DEF Alone, Busy
<1>1. proc' = [proc EXCEPT ![p] = w] /\ proc \in [Procs -> Shape]
  BY DEF Now, Inv, Shapes
<1>2. proc[q] # Idle
  BY <1>1 DEF Busy
<1> QED
  BY <1>2 DEF Inv, Alone, Busy

\* A process that is at an order, or at what follows it, does not leave its signal unless it
\* is cut off in it.
LEMMA QuietStep ==
  ASSUME Inv, NEW p \in Procs, NEW w \in Shape, Now(p, w),
         rows' = rows, recorded' = recorded, placed' = placed,
         cut \subseteq cut', cut' \subseteq SignalIds,
         overlap => overlap', overlap' \in BOOLEAN,
         lock' \in Locked \union {Nobody}, Alone',
         broker' \in [Procs -> SUBSET SignalIds],
         ledger \subseteq ledger',
         ledger' \subseteq [signal: SignalIds, template: Templates,
                            channel: Elements(Channels), status: Statuses],
         Knows(w, rows, overlap', ledger'),
         proc[p].at = "persist" => overlap' \/ Current(p) \in cut',
         Aim(proc[p]) = "ordered" =>
           overlap' \/ Current(p) \in cut' \/ (Aim(w) = "ordered" /\ Of(w) = Current(p))
  PROVE  Inv'
<1>1. proc' = [proc EXCEPT ![p] = w] /\ proc \in [Procs -> Shape]
  BY DEF Now, Inv, Shapes
<1>2. proc'[p] = w /\ \A q \in Procs \ {p} : proc'[q] = proc[q]
  BY <1>1
<1>3. Shapes'
  BY <1>1 DEF Inv, Shapes
<1>4. ASSUME NEW q \in Procs PROVE Knows(proc'[q], rows', overlap', ledger')
  <2>1. CASE q = p
    BY <1>2, <2>1
  <2>2. CASE q # p
    <3>1. Knows(proc[q], rows, overlap, ledger) /\ overlap \in BOOLEAN
      BY DEF Inv, Shapes
    <3>2. Knows(proc[q], rows, overlap', ledger')
      BY <3>1, KnowsStill
    <3> QED
      BY <1>2, <2>2, <3>2
  <2> QED
    BY <2>1, <2>2
<1>5. ASSUME NEW s \in SignalIds PROVE Tracked(s)'
  <2>1. Tracked(s)
    BY DEF Inv
  <2> SUFFICES ASSUME ~overlap', s \notin cut'
               PROVE  /\ \/ placed[s] = 0
                         \/ /\ placed[s] = 1
                            /\ \/ s \in rows
                               \/ \E q \in Procs : proc'[q].at = "persist" /\ Head(proc'[q].todo) = s
                      /\ s \in rows =>
                           \/ recorded[s] = "ordered"
                           \/ \E q \in Procs : Aim(proc'[q]) = "ordered" /\ Head(proc'[q].todo) = s
    BY <2>1 DEF Tracked, Current, Aim, Announcing
  <2>2. ~overlap /\ s \notin cut
    OBVIOUS
  <2>3. ASSUME NEW q \in Procs, proc[q].at = "persist", Current(q) = s
        PROVE  proc'[q].at = "persist" /\ Head(proc'[q].todo) = s
    BY <1>2, <2>3 DEF Current
  <2>4. ASSUME NEW q \in Procs, Aim(proc[q]) = "ordered", Current(q) = s
        PROVE  Aim(proc'[q]) = "ordered" /\ Head(proc'[q].todo) = s
    BY <1>2, <2>4 DEF Current, Of
  <2> QED
    BY <2>1, <2>2, <2>3, <2>4 DEF Tracked
<1> QED
  BY <1>3, <1>4, <1>5 DEF Inv

-----------------------------------------------------------------------------
(* One action after the other.                                             *)

LEMMA Starts == Init => Inv
<1> SUFFICES ASSUME Init PROVE Inv
  OBVIOUS
<1>1. Shapes
  BY DEF Init, Shapes, Shape
<1>2. Alone
  BY DEF Init, Alone, Busy
<1>3. ASSUME NEW p \in Procs PROVE Knows(proc[p], rows, overlap, ledger)
  <2>1. proc[p].at = "idle"
    BY DEF Init, Idle
  <2> QED
    BY <2>1 DEF Knows, Aim, Announcing
<1>4. ASSUME NEW s \in SignalIds PROVE Tracked(s)
  BY DEF Init, Tracked
<1> QED
  BY <1>1, <1>2, <1>3, <1>4 DEF Inv

\* Processes that are not at a signal know nothing of one.
LEMMA NothingToKnow ==
  ASSUME NEW w, w.at \in {"idle", "next", "done", "deleting"}, NEW shown, NEW over, NEW entries
  PROVE  Knows(w, shown, over, entries) /\ Aim(w) # "ordered"
BY DEF Knows, Aim, Announcing

LEMMA TickKeeps == ASSUME Inv, NEW p \in Procs, Tick(p) PROVE Inv'
<1>1. PICK n \in 1..Len(Signals) : Now(p, [at |-> "next", todo |-> SubSeq(Signals, 1, n)])
  BY DEF Tick
<1> DEFINE w == [at |-> "next", todo |-> SubSeq(Signals, 1, n)]
<1>2. w \in Shape /\ w.at = "next" /\ Now(p, w)
  BY <1>1, SignalsAreIds DEF Shape, Walking
<1> HIDE DEF w
<1>3. proc[p].at = "idle" /\ Aim(proc[p]) = "idle"
  BY DEF Tick, Idle, Aim, Announcing
<1>4. Knows(w, rows, overlap', ledger')
  BY <1>2, NothingToKnow
<1>5. Alone'
  <2> SUFFICES ASSUME ~overlap', NEW q \in Procs, proc'[q] # Idle
               PROVE  q \in Locked /\ lock' = q
    BY DEF Alone, Busy
  <2>1. p \in Locked /\ lock = Nobody /\ lock' = p /\ ~overlap
    BY DEF Tick, Free
  <2>2. \A r \in Procs : ~Busy(r)
    BY <2>1, PathConstants DEF Inv, Alone
  <2>3. q = p
    BY <1>2, <2>2 DEF Now, Inv, Shapes, Busy
  <2> QED
    BY <2>1, <2>3
<1>6. /\ UNCHANGED <<rows, recorded, ledger, broker, placed, cut>>
      /\ overlap' = (overlap \/ p \notin Locked) /\ lock' \in Locked \union {Nobody}
  BY DEF Tick, Inv, Shapes
<1> QED
  BY <1>2, <1>3, <1>4, <1>5, <1>6, QuietStep DEF Inv, Shapes

LEMMA LapseKeeps == ASSUME Inv, Lapse PROVE Inv'
<1>1. lock \in Procs /\ proc' = proc
  BY PathConstants DEF Lapse, Inv, Shapes
<1> DEFINE p == lock
           w == proc[p]
<1>2. Now(p, w) /\ w \in Shape
  BY <1>1 DEF Now, Inv, Shapes
<1>3. /\ UNCHANGED <<rows, recorded, ledger, broker, placed, cut>>
      /\ overlap' = (overlap \/ Busy(p)) /\ lock' = Nobody
  BY DEF Lapse
<1>4. overlap' \in BOOLEAN /\ (overlap => overlap')
  BY <1>3 DEF Inv, Shapes
<1>5. Knows(w, rows, overlap', ledger')
  <2>1. Knows(w, rows, overlap, ledger) /\ overlap \in BOOLEAN
    BY <1>1 DEF Inv, Shapes
  <2> QED
    BY <1>3, <1>4, <2>1, KnowsStill
<1>6. Alone'
  <2> SUFFICES ASSUME ~overlap', NEW q \in Procs, proc'[q] # Idle
               PROVE  FALSE
    BY DEF Alone, Busy
  <2>1. ~overlap /\ ~Busy(p) /\ Busy(q)
    BY <1>1, <1>3 DEF Busy
  <2> QED
    BY <2>1 DEF Inv, Alone
<1>7. Current(p) = Of(w)
  BY DEF Current, Of
<1>8. w.at = "persist" => overlap'
  <2>1. Idle.at = "idle"
    BY DEF Idle
  <2> QED
    BY <1>3, <2>1 DEF Busy
<1> QED
  BY <1>1, <1>2, <1>3, <1>4, <1>5, <1>6, <1>7, <1>8, QuietStep DEF Inv, Shapes

LEMMA ReleaseKeeps == ASSUME Inv, NEW p \in Procs, Release(p) PROVE Inv'
<1> DEFINE w == IF lock = p THEN [at |-> "deleting"] ELSE Idle
<1>1. Now(p, w) /\ proc[p].at = "done" /\ w.at \in {"idle", "deleting"} /\ w \in Shape
  BY DEF Release, Idle, Shape, Ending
<1>2. UNCHANGED <<lock, rows, recorded, ledger, broker, overlap, placed, cut>>
  BY DEF Release, stored
<1>3. Aim(proc[p]) = "done" /\ Busy(p)
  BY <1>1 DEF Aim, Announcing, Busy, Idle
<1> HIDE DEF w
<1>4. Knows(w, rows, overlap', ledger')
  BY <1>1, NothingToKnow
<1>5. Alone'
  BY <1>1, <1>2, <1>3, AloneStill
<1> QED
  BY <1>1, <1>2, <1>3, <1>4, <1>5, QuietStep DEF Inv, Shapes

LEMMA DeleteKeeps == ASSUME Inv, NEW p \in Procs, Delete(p) PROVE Inv'
<1>1. Now(p, Idle) /\ proc[p].at = "deleting" /\ Idle.at = "idle" /\ Idle \in Shape /\ lock' = Nobody
  BY DEF Delete, Idle, Shape
<1>2. UNCHANGED <<rows, recorded, ledger, broker, overlap, placed, cut>>
  BY DEF Delete
<1>3. Aim(proc[p]) = "deleting" /\ Busy(p)
  BY <1>1 DEF Aim, Announcing, Busy, Idle
<1>4. Knows(Idle, rows, overlap', ledger')
  BY <1>1, NothingToKnow
<1>5. Alone'
  <2> SUFFICES ASSUME ~overlap', NEW q \in Procs, proc'[q] # Idle PROVE FALSE
    BY DEF Alone, Busy
  <2>1. q # p /\ Busy(q)
    BY <1>1 DEF Now, Inv, Shapes, Busy
  <2> QED
    BY <1>2, <1>3, <2>1 DEF Inv, Alone
<1> QED
  BY <1>1, <1>2, <1>3, <1>4, <1>5, QuietStep DEF Inv, Shapes

-----------------------------------------------------------------------------
(* Delivery.                                                               *)

\* Where a process is in its announcements, what it is about to do stays what it is.
LEMMA DeliveryOf ==
  ASSUME Inv, NEW p \in Procs, proc[p].at \in {"send", "sent", "failed"}
  PROVE  /\ proc[p] \in Sending /\ proc[p].todo \in Pending /\ Busy(p)
         /\ Announcing(proc[p]) /\ Aim(proc[p]) = proc[p].then
         /\ Of(proc[p]) = Current(p) /\ Current(p) \in SignalIds
         /\ Knows(proc[p], rows, overlap, ledger)
<1>1. proc[p] \in Shape /\ Knows(proc[p], rows, overlap, ledger)
  BY DEF Inv, Shapes
<1>2. proc[p] \in Sending
  BY <1>1, ShapeAt
<1>3. proc[p].todo \in Pending
  BY <1>2 DEF Sending
<1>4. Head(proc[p].todo) \in SignalIds
  BY <1>3, SignalsAreIds
<1>5. Idle.at = "idle"
  BY DEF Idle
<1> QED
  BY <1>1, <1>2, <1>3, <1>4, <1>5 DEF Busy, Announcing, Aim, Of, Current

LEMMA SendKeeps == ASSUME Inv, NEW p \in Procs, Send(p) PROVE Inv'
<1> DEFINE old == proc[p]
<1>1. /\ UNCHANGED <<lock, rows, recorded, ledger, broker, overlap, placed, cut>>
      /\ old.at = "send"
  BY DEF Send, stored
<1>2. PICK answer \in {"sent", "refused", "retry"} :
        Now(p, IF LastAttempt(old.attempt, answer)
               THEN [old EXCEPT !.at = IF answer = "sent" THEN "sent" ELSE "failed"]
               ELSE [old EXCEPT !.attempt = @ + 1])
  BY DEF Send
<1>3. /\ old \in Sending /\ old.todo \in Pending /\ Busy(p) /\ Announcing(old)
      /\ Aim(old) = old.then /\ Of(old) = Current(p) /\ Knows(old, rows, overlap, ledger)
  BY <1>1, DeliveryOf
<1> DEFINE w == IF LastAttempt(old.attempt, answer)
                THEN [old EXCEPT !.at = IF answer = "sent" THEN "sent" ELSE "failed"]
                ELSE [old EXCEPT !.attempt = @ + 1]
<1>4. /\ w \in Sending /\ w.at \in {"send", "sent", "failed"} /\ w.todo = old.todo
      /\ w.then = old.then /\ w.template = old.template /\ w.channel = old.channel
  BY <1>1, <1>3 DEF Sending
<1>5. Now(p, w)
  BY <1>2
<1> HIDE DEF w, old
<1>6. /\ Announcing(w) /\ Aim(w) = Aim(old) /\ Of(w) = Of(old)
      /\ w \in Shape /\ w.at # "submit"
  BY <1>3, <1>4 DEF Announcing, Aim, Of, Shape
<1>7. Knows(w, rows, overlap', ledger')
  BY <1>1, <1>3, <1>4, <1>6 DEF Knows
<1>8. Alone'
  BY <1>1, <1>3, <1>5, AloneStill
<1>9. proc[p].at # "persist"
  BY <1>1 DEF old
<1> QED
  BY <1>1, <1>3, <1>5, <1>6, <1>7, <1>8, <1>9, QuietStep DEF Inv, Shapes, old

\* A delivery that is recorded: what comes after it knows that the channel was told.
LEMMA OnwardFits ==
  ASSUME Inv, NEW p \in Procs, proc[p].at \in {"send", "sent", "failed"}, NEW status \in Statuses
  PROVE  LET more == ledger \union {Entry(p, status)}
             w == Onward(p)
         IN  /\ w \in Shape /\ w.at # "persist"
             /\ Aim(w) = Aim(proc[p]) /\ Of(w) = Current(p)
             /\ Knows(w, rows, overlap, more)
             /\ more \subseteq [signal: SignalIds, template: Templates,
                               channel: Elements(Channels), status: Statuses]
<1> DEFINE old == proc[p]
           e == Entry(p, status)
           more == ledger \union {e}
           w == Onward(p)
<1>1. /\ old \in Sending /\ old.todo \in Pending /\ Announcing(old)
      /\ Aim(old) = old.then /\ Of(old) = Current(p) /\ Current(p) \in SignalIds
      /\ Knows(old, rows, overlap, ledger)
  BY DeliveryOf
<1>2. /\ old.channel \in 1..Len(Channels) /\ old.template \in Templates
      /\ old.then \in {"submit", "blocked", "ordered"}
      /\ Len(Channels) \in Nat /\ Elements(Channels) = {Channels[j] : j \in 1..Len(Channels)}
  BY <1>1, ChannelsInOrder DEF Sending
<1>3. /\ e \in [signal: SignalIds, template: Templates, channel: Elements(Channels), status: Statuses]
      /\ e.signal = Current(p) /\ e.template = old.template /\ e.channel = Channels[old.channel]
  BY <1>1, <1>2 DEF Entry
<1> HIDE DEF e
<1>4. more \subseteq [signal: SignalIds, template: Templates, channel: Elements(Channels),
                     status: Statuses]
  BY <1>3 DEF Inv, Shapes
<1>5. \A s, c : Told(s, c, ledger) => Told(s, c, more)
  BY DEF Told
<1>6. old.then = "submit" =>
        \A j \in 1..(old.channel - 1) : Told(Current(p), Channels[j], more)
  BY <1>1, <1>5 DEF Knows
<1>7. old.then = "submit" => Told(Current(p), Channels[old.channel], more)
  BY <1>1, <1>3 DEF Told, Knows
<1>8. old.then = "submit" => \A j \in 1..old.channel : Told(Current(p), Channels[j], more)
  <2> SUFFICES ASSUME old.then = "submit", NEW j \in 1..old.channel
               PROVE  Told(Current(p), Channels[j], more)
    OBVIOUS
  <2>1. j = old.channel \/ j \in 1..(old.channel - 1)
    BY <1>2
  <2> QED
    BY <1>6, <1>7, <2>1
<1> HIDE DEF more
<1>9. CASE old.channel < Len(Channels)
  <2>1. w = [old EXCEPT !.channel = @ + 1, !.attempt = 1, !.at = "send"]
    BY <1>9 DEF Onward
  <2>2. old.channel + 1 \in 1..Len(Channels)
    BY <1>2, <1>9
  <2>3. [old EXCEPT !.channel = @ + 1] \in Sending
    BY <1>1, <2>2 DEF Sending
  <2> DEFINE a == [old EXCEPT !.channel = @ + 1]
             b == [a EXCEPT !.attempt = 1]
  <2>a. /\ a \in Sending /\ a.todo = old.todo /\ a.then = old.then
        /\ a.template = old.template /\ a.channel = old.channel + 1
    BY <1>1, <2>3 DEF Sending
  <2> HIDE DEF a
  <2>b. /\ b \in Sending /\ b.todo = old.todo /\ b.then = old.then
        /\ b.template = old.template /\ b.channel = old.channel + 1
    BY <2>a DEF Sending
  <2> HIDE DEF b
  <2>c. LET c == [b EXCEPT !.at = "send"]
        IN  /\ c \in Sending /\ c.at = "send" /\ c.todo = old.todo /\ c.then = old.then
            /\ c.template = old.template /\ c.channel = old.channel + 1
    BY <2>b DEF Sending
  <2>d. w = [b EXCEPT !.at = "send"]
    BY <2>1 DEF a, b
  <2>4. /\ w \in Sending /\ w.at = "send" /\ w.todo = old.todo /\ w.then = old.then
        /\ w.template = old.template /\ w.channel = old.channel + 1
    BY <2>c, <2>d
  <2> HIDE DEF w, old
  <2>5. Announcing(w) /\ Aim(w) = Aim(old) /\ Of(w) = Current(p) /\ w \in Shape
    BY <1>1, <2>4 DEF Announcing, Aim, Of, Shape
  <2>6. w.channel - 1 = old.channel
    BY <1>2, <2>4
  <2>7. Knows(w, rows, overlap, more)
    BY <1>1, <1>8, <2>4, <2>5, <2>6 DEF Knows
  <2> QED
    BY <1>4, <2>4, <2>5, <2>7 DEF w, old, more, e
<1>10. CASE ~(old.channel < Len(Channels))
  <2>1. w = [at |-> old.then, todo |-> old.todo]
    BY <1>10 DEF Onward
  <2>2. w \in Acting /\ w.at = old.then /\ w.todo = old.todo
    BY <1>1, <1>2, <2>1 DEF Acting
  <2>3. old.channel = Len(Channels)
    BY <1>2, <1>10
  <2> HIDE DEF w, old
  <2>4. ~Announcing(w) /\ Aim(w) = Aim(old) /\ Of(w) = Current(p) /\ w \in Shape
    BY <1>1, <1>2, <2>2 DEF Announcing, Aim, Of, Shape
  <2>5. w.at = "submit" => \A c \in Elements(Channels) : Told(Of(w), c, more)
    BY <1>2, <1>8, <2>2, <2>3, <2>4
  <2>6. Knows(w, rows, overlap, more)
    BY <1>1, <2>2, <2>4, <2>5 DEF Knows
  <2> QED
    BY <1>2, <1>4, <2>2, <2>4, <2>6 DEF w, old, more, e
<1> QED
  BY <1>9, <1>10

\* A step that records a delivery.
LEMMA RecordedKeeps ==
  ASSUME Inv, NEW p \in Procs, proc[p].at \in {"send", "sent", "failed"}, NEW status \in Statuses,
         ledger' = ledger \union {Entry(p, status)}, Now(p, Onward(p)),
         UNCHANGED <<lock, rows, recorded, broker, overlap, placed, cut>>
  PROVE  Inv'
<1> DEFINE w == Onward(p)
           more == ledger \union {Entry(p, status)}
<1>1. /\ w \in Shape /\ w.at # "persist"
      /\ Aim(w) = Aim(proc[p]) /\ Of(w) = Current(p)
      /\ Knows(w, rows, overlap, more)
      /\ more \subseteq [signal: SignalIds, template: Templates,
                        channel: Elements(Channels), status: Statuses]
  BY OnwardFits
<1>2. Busy(p) /\ proc[p].at # "persist" /\ ledger \subseteq more /\ ledger' = more
  BY DeliveryOf
<1>3. Now(p, w)
  OBVIOUS
<1> HIDE DEF w, more
<1>4. Alone'
  BY <1>2, <1>3, AloneStill
<1> QED
  BY <1>1, <1>2, <1>3, <1>4, QuietStep DEF Inv, Shapes

LEMMA SkipKeeps == ASSUME Inv, NEW p \in Procs, Skip(p) PROVE Inv'
<1> DEFINE status == "SKIPPED_NOT_SELECTED"
<1>1. status \in Statuses
  BY DEF Statuses
<1>2. ledger' = ledger \union {Entry(p, status)} /\ Now(p, Onward(p))
  BY DEF Skip
<1>3. proc[p].at \in {"send", "sent", "failed"}
  BY DEF Skip
<1>4. UNCHANGED <<lock, rows, recorded, broker, overlap, placed, cut>>
  BY DEF Skip
<1> HIDE DEF status
<1> QED
  BY <1>1, <1>2, <1>3, <1>4, RecordedKeeps

LEMMA RecordKeeps == ASSUME Inv, NEW p \in Procs, Record(p) PROVE Inv'
<1> DEFINE status == IF proc[p].at = "sent" THEN "SENT" ELSE "FAILED"
<1>1. status \in Statuses
  BY DEF Statuses
<1>2. ledger' = ledger \union {Entry(p, status)} /\ Now(p, Onward(p))
  BY DEF Record
<1>3. proc[p].at \in {"send", "sent", "failed"}
  BY DEF Record
<1>4. UNCHANGED <<lock, rows, recorded, broker, overlap, placed, cut>>
  BY DEF Record
<1> HIDE DEF status
<1> QED
  BY <1>1, <1>2, <1>3, <1>4, RecordedKeeps

-----------------------------------------------------------------------------
(* One promoted bar.                                                       *)

LEMMA AtSignal ==
  ASSUME Inv, NEW p \in Procs, proc[p].at \in {"submit", "blocked", "ordered", "persist"}
  PROVE  /\ proc[p] \in Acting /\ proc[p].todo \in Pending /\ Busy(p)
         /\ Aim(proc[p]) = proc[p].at /\ Of(proc[p]) = Current(p) /\ Current(p) \in SignalIds
         /\ Tail(proc[p].todo) \in Todo
         /\ Knows(proc[p], rows, overlap, ledger)
<1>1. proc[p] \in Shape /\ Knows(proc[p], rows, overlap, ledger)
  BY DEF Inv, Shapes
<1>2. proc[p] \in Acting
  BY <1>1, ShapeAt
<1>3. proc[p].todo \in Pending
  BY <1>2 DEF Acting
<1>4. Head(proc[p].todo) \in SignalIds /\ Tail(proc[p].todo) \in Todo
  BY <1>3, SignalsAreIds
<1>5. Idle.at = "idle"
  BY DEF Idle
<1> QED
  BY <1>1, <1>2, <1>3, <1>4, <1>5 DEF Busy, Announcing, Aim, Of, Current

\* An announcement that begins, and what it is about.
LEMMA AnnounceFits ==
  ASSUME NEW p, proc[p].todo \in Pending,
         NEW template \in Templates, NEW then \in {"submit", "blocked", "ordered"},
         then = "submit" => template = "VALIDATED_SIGNAL",
         then = "blocked" => template = "VALIDATED_SIGNAL_EXECUTION_BLOCKED",
         then = "ordered" => template \in Outcomes,
         NEW shown, NEW over \in BOOLEAN, NEW entries,
         then = "ordered" => Current(p) \in shown,
         then \in {"submit", "blocked"} /\ ~over => Current(p) \notin shown
  PROVE  LET w == Announce(p, template, then)
         IN  /\ w \in Shape /\ Aim(w) = then /\ Of(w) = Current(p) /\ w.at # "persist"
             /\ Knows(w, shown, over, entries)
<1> DEFINE w == Announce(p, template, then)
<1>1. CASE Channels = <<>>
  <2>1. w = [at |-> then, todo |-> proc[p].todo]
    BY <1>1 DEF Announce
  <2>2. w \in Acting /\ w.at = then /\ w.todo = proc[p].todo
    BY <2>1 DEF Acting
  <2>3. Elements(Channels) = {}
    BY <1>1, ChannelsInOrder, EmptySeq
  <2> HIDE DEF w
  <2>4. ~Announcing(w) /\ Aim(w) = then /\ Of(w) = Current(p) /\ w \in Shape
    BY <2>2 DEF Announcing, Aim, Of, Current, Shape
  <2>5. Knows(w, shown, over, entries)
    BY <2>2, <2>3, <2>4 DEF Knows
  <2> QED
    BY <2>2, <2>4, <2>5 DEF w
<1>2. CASE Channels # <<>>
  <2>1. w = [at |-> "send", todo |-> proc[p].todo, template |-> template, channel |-> 1,
             attempt |-> 1, then |-> then]
    BY <1>2 DEF Announce
  <2>2. /\ w \in Sending /\ w.at = "send" /\ w.todo = proc[p].todo /\ w.then = then
        /\ w.template = template /\ w.channel = 1
    BY <1>2, <2>1, ChannelsInOrder DEF Sending
  <2> HIDE DEF w
  <2>3. Announcing(w) /\ Aim(w) = then /\ Of(w) = Current(p) /\ w \in Shape
    BY <2>2 DEF Announcing, Aim, Of, Current, Shape
  <2>4. 1..(w.channel - 1) = {}
    BY <2>2
  <2>5. Knows(w, shown, over, entries)
    BY <2>2, <2>3, <2>4 DEF Knows
  <2> QED
    BY <2>2, <2>3, <2>5 DEF w
<1> QED
  BY <1>1, <1>2

\* A bar that is done with, or the end of the tick.
LEMMA AtNext ==
  ASSUME Inv, NEW p \in Procs, proc[p].at = "next"
  PROVE  /\ proc[p] \in Walking /\ Busy(p) /\ Aim(proc[p]) = "next"
         /\ proc[p].todo # <<>> => /\ proc[p].todo \in Pending /\ Current(p) \in SignalIds
                                  /\ Tail(proc[p].todo) \in Todo
<1>1. proc[p] \in Walking
  BY ShapeAt DEF Inv, Shapes
<1>2. proc[p].todo # <<>> => proc[p].todo \in Pending
  BY <1>1 DEF Walking, Pending
<1>3. Idle.at = "idle"
  BY DEF Idle
<1> QED
  BY <1>1, <1>2, <1>3, SignalsAreIds DEF Busy, Aim, Announcing, Current

\* A step that changes nothing but where a process is that has no order on its hands.
LEMMA MoveKeeps ==
  ASSUME Inv, NEW p \in Procs, Busy(p), Aim(proc[p]) \notin {"ordered", "persist"},
         NEW w \in Shape, Now(p, w), Knows(w, rows, overlap, ledger),
         UNCHANGED <<lock, rows, recorded, ledger, broker, overlap, placed, cut>>
  PROVE  Inv'
<1>1. Alone'
  BY AloneStill
<1>2. proc[p].at # "persist"
  BY DEF Aim, Announcing
<1> QED
  BY <1>1, <1>2, QuietStep DEF Inv, Shapes

LEMMA PassOverKeeps == ASSUME Inv, NEW p \in Procs, PassOver(p) PROVE Inv'
<1> DEFINE w == Rest(p)
<1>1. proc[p].at = "next" /\ proc[p].todo # <<>> /\ Now(p, w)
  BY DEF PassOver
<1>2. proc[p] \in Walking /\ Busy(p) /\ Aim(proc[p]) = "next" /\ Tail(proc[p].todo) \in Todo
  BY <1>1, AtNext
<1>3. w \in Walking /\ w.at = "next"
  BY <1>2 DEF Rest, Walking
<1>4. UNCHANGED <<lock, rows, recorded, ledger, broker, overlap, placed, cut>>
  BY DEF PassOver, stored
<1> HIDE DEF w
<1>5. Knows(w, rows, overlap, ledger) /\ w \in Shape
  BY <1>3, NothingToKnow DEF Shape
<1> QED
  BY <1>1, <1>2, <1>4, <1>5, MoveKeeps

LEMMA EvaluateKeeps == ASSUME Inv, NEW p \in Procs, Evaluate(p) PROVE Inv'
<1> DEFINE w == Announce(p, "VALIDATED_SIGNAL", "submit")
<1>1. proc[p].at = "next" /\ proc[p].todo # <<>> /\ Now(p, w) /\ Current(p) \notin rows
  BY DEF Evaluate, Processed
<1>2. proc[p].todo \in Pending /\ Busy(p) /\ Aim(proc[p]) = "next" /\ overlap \in BOOLEAN
  BY <1>1, AtNext DEF Inv, Shapes
<1>3. "VALIDATED_SIGNAL" \in Templates
  BY DEF Templates
<1>4. w \in Shape /\ Knows(w, rows, overlap, ledger)
  BY <1>1, <1>2, <1>3, AnnounceFits
<1>5. UNCHANGED <<lock, rows, recorded, ledger, broker, overlap, placed, cut>>
  BY DEF Evaluate, stored
<1> QED
  BY <1>1, <1>2, <1>4, <1>5, MoveKeeps

LEMMA RejectKeeps == ASSUME Inv, NEW p \in Procs, Reject(p) PROVE Inv'
<1> DEFINE w == Announce(p, "VALIDATED_SIGNAL_EXECUTION_BLOCKED", "blocked")
<1>1. proc[p].at = "submit" /\ Now(p, w)
  BY DEF Reject
<1>2. /\ proc[p].todo \in Pending /\ Busy(p) /\ Aim(proc[p]) = "submit"
      /\ Of(proc[p]) = Current(p) /\ Knows(proc[p], rows, overlap, ledger)
  BY <1>1, AtSignal
<1>3. "VALIDATED_SIGNAL_EXECUTION_BLOCKED" \in Templates /\ overlap \in BOOLEAN
  BY DEF Templates, Inv, Shapes
<1>4. ~overlap => Current(p) \notin rows
  BY <1>2 DEF Knows
<1>5. w \in Shape /\ Knows(w, rows, overlap, ledger)
  BY <1>2, <1>3, <1>4, AnnounceFits
<1>6. UNCHANGED <<lock, rows, recorded, ledger, broker, overlap, placed, cut>>
  BY DEF Reject, stored
<1> QED
  BY <1>1, <1>2, <1>5, <1>6, MoveKeeps

LEMMA FinishKeeps == ASSUME Inv, NEW p \in Procs, Finish(p) PROVE Inv'
<1> DEFINE w == [at |-> "done"]
<1>1. proc[p].at = "next" /\ Now(p, w) /\ w \in Shape /\ w.at = "done"
  BY DEF Finish, Shape, Ending
<1>2. Busy(p) /\ Aim(proc[p]) = "next"
  BY <1>1, AtNext
<1>3. UNCHANGED <<lock, rows, recorded, ledger, broker, overlap, placed, cut>>
  BY DEF Finish, stored
<1> HIDE DEF w
<1>4. Knows(w, rows, overlap, ledger)
  BY <1>1, NothingToKnow
<1> QED
  BY <1>1, <1>2, <1>3, <1>4, MoveKeeps

-----------------------------------------------------------------------------
(* Ticks that are cut off.                                                 *)

LEMMA CutKeeps ==
  ASSUME Inv, NEW p \in Procs, Busy(p), NEW w \in Shape, Now(p, w),
         w.at \in {"idle", "next", "done", "deleting"},
         proc[p].at \notin {"next", "done", "deleting"} => cut' = cut \union {Current(p)},
         proc[p].at \in {"next", "done", "deleting"} => cut' = cut,
         broker' \in [Procs -> SUBSET SignalIds],
         UNCHANGED <<lock, rows, recorded, ledger, overlap, placed>>
  PROVE  Inv'
<1>1. Alone'
  BY AloneStill
<1>2. Knows(w, rows, overlap', ledger')
  BY NothingToKnow
<1>3. proc[p] \in Shape
  BY DEF Inv, Shapes
<1>4. proc[p].at # "idle"
  BY <1>3, ShapeAt DEF Busy
<1>5. cut \subseteq cut' /\ cut' \subseteq SignalIds
  <2>1. CASE proc[p].at \in {"next", "done", "deleting"}
    BY <2>1 DEF Inv, Shapes
  <2>2. CASE proc[p].at \in {"submit", "blocked", "ordered", "persist"}
    BY <2>2, AtSignal DEF Inv, Shapes
  <2>3. CASE proc[p].at \in {"send", "sent", "failed"}
    BY <2>3, DeliveryOf DEF Inv, Shapes
  <2> QED
    BY <1>3, <1>4, <2>1, <2>2, <2>3, ShapeAt DEF At
<1>6. (proc[p].at = "persist" \/ Aim(proc[p]) = "ordered") => Current(p) \in cut'
  BY DEF Aim, Announcing
<1> QED
  BY <1>1, <1>2, <1>5, <1>6, QuietStep DEF Inv, Shapes

LEMMA DuplicateKeeps == ASSUME Inv, NEW p \in Procs, Duplicate(p) PROVE Inv'
<1> DEFINE w == [at |-> "done"]
<1>1. /\ proc[p].at = "submit" /\ Now(p, w) /\ w \in Shape /\ w.at = "done"
      /\ cut' = cut \union {Current(p)}
  BY DEF Duplicate, Shape, Ending
<1>2. Busy(p) /\ broker \in [Procs -> SUBSET SignalIds]
  BY <1>1, AtSignal DEF Inv, Shapes
<1>3. UNCHANGED <<lock, rows, recorded, ledger, broker, overlap, placed>>
  BY DEF Duplicate, stored
<1> HIDE DEF w
<1> QED
  BY <1>1, <1>2, <1>3, CutKeeps

LEMMA FailKeeps == ASSUME Inv, NEW p \in Procs, Fail(p) PROVE Inv'
<1> DEFINE w == [at |-> "done"]
<1>1. Busy(p) /\ Now(p, w) /\ w \in Shape /\ w.at = "done"
  BY DEF Fail, Shape, Ending
<1>2. /\ proc[p].at \notin {"next", "done", "deleting"} => cut' = cut \union {Current(p)}
      /\ proc[p].at \in {"next", "done", "deleting"} => cut' = cut
  BY DEF Fail, Interrupted
<1>3. /\ UNCHANGED <<lock, rows, recorded, ledger, broker, overlap, placed>>
      /\ broker' \in [Procs -> SUBSET SignalIds]
  BY DEF Fail, stored, Inv, Shapes
<1> HIDE DEF w
<1> QED
  BY <1>1, <1>2, <1>3, CutKeeps

LEMMA KillKeeps == ASSUME Inv, NEW p \in Procs, Kill(p) PROVE Inv'
<1>1. Busy(p) /\ Now(p, Idle) /\ Idle \in Shape /\ Idle.at = "idle"
  BY DEF Kill, Shape, Idle
<1>2. /\ proc[p].at \notin {"next", "done", "deleting"} => cut' = cut \union {Current(p)}
      /\ proc[p].at \in {"next", "done", "deleting"} => cut' = cut
  BY DEF Kill, Interrupted
<1>3. /\ UNCHANGED <<lock, rows, recorded, ledger, overlap, placed>>
      /\ broker' \in [Procs -> SUBSET SignalIds]
  BY DEF Kill, stored, Inv, Shapes
<1> QED
  BY <1>1, <1>2, <1>3, CutKeeps

-----------------------------------------------------------------------------
(* The order and its rows.                                                 *)

\* Who works on a signal works alone, as long as no two ticks overlapped.
LEMMA Others ==
  ASSUME Inv, NEW p \in Procs, Busy(p), NEW q \in Procs, q # p, ~overlap
  PROVE  proc[q] = Idle /\ proc[q].at = "idle" /\ Aim(proc[q]) = "idle"
<1>1. proc[q] = Idle
  BY DEF Inv, Alone, Busy
<1> QED
  BY <1>1 DEF Idle, Aim, Announcing

LEMMA AcceptKeeps == ASSUME Inv, NEW p \in Procs, Accept(p) PROVE Inv'
<1> DEFINE t == Current(p)
           w == [proc[p] EXCEPT !.at = "persist"]
<1>1. /\ proc[p].at = "submit" /\ Now(p, w)
      /\ broker' = [broker EXCEPT ![p] = @ \union {t}]
      /\ placed' = [placed EXCEPT ![t] = @ + 1]
      /\ UNCHANGED <<lock, rows, recorded, ledger, overlap, cut>>
  BY DEF Accept, stored
<1>2. /\ proc[p] \in Acting /\ proc[p].todo \in Pending /\ Busy(p) /\ Aim(proc[p]) = "submit"
      /\ Of(proc[p]) = t /\ t \in SignalIds /\ Knows(proc[p], rows, overlap, ledger)
  BY <1>1, AtSignal
<1>3. w \in Acting /\ w.at = "persist" /\ w.todo = proc[p].todo
  BY <1>2 DEF Acting
<1>4. proc' = [proc EXCEPT ![p] = w] /\ proc \in [Procs -> Shape]
  BY <1>1 DEF Now, Inv, Shapes
<1> HIDE DEF w
<1>5. proc'[p] = w /\ \A q \in Procs \ {p} : proc'[q] = proc[q]
  BY <1>4
<1>6. Shapes'
  <2>1. w \in Shape
    BY <1>3 DEF Shape
  <2>2. proc' \in [Procs -> Shape]
    BY <1>4, <2>1
  <2>3. placed' \in [SignalIds -> Nat]
    <3>1. placed \in [SignalIds -> Nat] /\ placed[t] + 1 \in Nat
      BY <1>2 DEF Inv, Shapes
    <3> HIDE DEF t
    <3> QED
      BY <1>1, <3>1
  <2>4. broker' \in [Procs -> SUBSET SignalIds]
    <3>1. broker \in [Procs -> SUBSET SignalIds] /\ broker[p] \union {t} \in SUBSET SignalIds
      BY <1>2 DEF Inv, Shapes
    <3> HIDE DEF t
    <3> QED
      BY <1>1, <3>1
  <2> QED
    BY <1>1, <2>2, <2>3, <2>4 DEF Inv, Shapes
<1>7. Alone'
  BY <1>1, <1>2, AloneStill
<1>8. ASSUME NEW q \in Procs PROVE Knows(proc'[q], rows', overlap', ledger')
  <2>1. Knows(w, rows, overlap, ledger)
    BY <1>3 DEF Knows, Aim, Announcing
  <2> QED
    BY <1>1, <1>5, <2>1 DEF Inv
<1>9. ASSUME NEW s \in SignalIds PROVE Tracked(s)'
  <2>1. Tracked(s) /\ placed \in [SignalIds -> Nat]
    BY DEF Inv, Shapes
  <2> SUFFICES ASSUME ~overlap, s \notin cut
               PROVE  /\ \/ placed'[s] = 0
                         \/ /\ placed'[s] = 1
                            /\ \/ s \in rows
                               \/ \E q \in Procs : proc'[q].at = "persist" /\ Head(proc'[q].todo) = s
                      /\ s \in rows =>
                           \/ recorded[s] = "ordered"
                           \/ \E q \in Procs : Aim(proc'[q]) = "ordered" /\ Head(proc'[q].todo) = s
    BY <1>1, <2>1 DEF Tracked, Current, Aim, Announcing
  <2>2. \A q \in Procs \ {p} : proc[q].at = "idle" /\ Aim(proc[q]) = "idle"
    BY <1>2, Others
  <2>3. CASE s = t
    <3>1. s \notin rows
      BY <1>2, <2>3 DEF Knows
    <3>2. placed[s] = 0
      BY <1>1, <2>1, <2>2, <3>1 DEF Tracked
    <3>3. placed'[s] = 1
      BY <1>1, <2>1, <2>3, <3>2
    <3>4. proc'[p].at = "persist" /\ Head(proc'[p].todo) = s
      BY <1>3, <1>5, <2>3 DEF Current
    <3> QED
      BY <3>1, <3>3, <3>4
  <2>4. CASE s # t
    <3>1. placed'[s] = placed[s]
      BY <1>1, <2>1, <2>4
    <3>2. \A q \in Procs : proc[q].at # "persist" /\ Aim(proc[q]) # "ordered"
      BY <1>1, <1>2, <2>2
    <3> QED
      BY <2>1, <3>1, <3>2 DEF Tracked
  <2> QED
    BY <2>3, <2>4
<1> QED
  BY <1>6, <1>7, <1>8, <1>9 DEF Inv

LEMMA PersistKeeps == ASSUME Inv, NEW p \in Procs, Persist(p) PROVE Inv'
<1> DEFINE t == Current(p)
<1>1. PICK outcome \in Outcomes : Now(p, Announce(p, outcome, "ordered"))
  BY DEF Persist
<1> DEFINE w == Announce(p, outcome, "ordered")
<1>2. /\ proc[p].at = "persist" /\ Now(p, w) /\ rows' = rows \union {t}
      /\ UNCHANGED <<lock, recorded, ledger, broker, overlap, placed, cut>>
  BY <1>1 DEF Persist
<1>3. /\ proc[p].todo \in Pending /\ Busy(p) /\ Aim(proc[p]) = "persist" /\ t \in SignalIds
  BY <1>2, AtSignal
<1>4. outcome \in Templates /\ t \in rows' /\ overlap \in BOOLEAN
  BY <1>2 DEF Templates, Inv, Shapes
<1>5. /\ w \in Shape /\ Aim(w) = "ordered" /\ Of(w) = t /\ w.at # "persist"
      /\ Knows(w, rows', overlap, ledger)
  BY <1>1, <1>3, <1>4, AnnounceFits
<1>6. proc' = [proc EXCEPT ![p] = w] /\ proc \in [Procs -> Shape]
  BY <1>2 DEF Now, Inv, Shapes
<1> HIDE DEF w
<1>7. proc'[p] = w /\ \A q \in Procs \ {p} : proc'[q] = proc[q]
  BY <1>6
<1>8. Shapes'
  BY <1>2, <1>3, <1>5, <1>6 DEF Inv, Shapes
<1>9. Alone'
  BY <1>2, <1>3, AloneStill
<1>10. ASSUME NEW q \in Procs PROVE Knows(proc'[q], rows', overlap', ledger')
  <2>1. CASE q = p
    BY <1>2, <1>5, <1>7, <2>1
  <2>2. CASE q # p
    <3>1. Knows(proc[q], rows, overlap, ledger)
      BY DEF Inv
    <3>2. ~overlap => Aim(proc[q]) \notin {"submit", "blocked"}
      BY <1>3, <2>2, Others
    <3>3. Knows(proc[q], rows', overlap, ledger)
      BY <1>2, <3>1, <3>2 DEF Knows
    <3> QED
      BY <1>2, <1>7, <2>2, <3>3
  <2> QED
    BY <2>1, <2>2
<1>11. ASSUME NEW s \in SignalIds PROVE Tracked(s)'
  <2>1. Tracked(s) /\ placed \in [SignalIds -> Nat]
    BY DEF Inv, Shapes
  <2>2. recorded[s] = "ordered" => s \in rows'
    BY <1>2, <2>1 DEF Tracked
  <2> SUFFICES ASSUME ~overlap, s \notin cut
               PROVE  /\ \/ placed[s] = 0
                         \/ /\ placed[s] = 1
                            /\ \/ s \in rows'
                               \/ \E q \in Procs : proc'[q].at = "persist" /\ Head(proc'[q].todo) = s
                      /\ s \in rows' =>
                           \/ recorded[s] = "ordered"
                           \/ \E q \in Procs : Aim(proc'[q]) = "ordered" /\ Head(proc'[q].todo) = s
    BY <1>2, <2>2 DEF Tracked, Current, Aim, Announcing
  <2>3. \A q \in Procs \ {p} : proc[q].at = "idle" /\ Aim(proc[q]) = "idle"
    BY <1>3, Others
  <2>4. CASE s = t
    <3>1. Aim(proc'[p]) = "ordered" /\ Head(proc'[p].todo) = s
      BY <1>5, <1>7, <2>4 DEF Of
    <3>2. s \in rows' /\ (placed[s] = 0 \/ placed[s] = 1)
      BY <1>2, <2>1, <2>4 DEF Tracked
    <3> QED
      BY <3>1, <3>2
  <2>5. CASE s # t
    <3>1. s \in rows' <=> s \in rows
      BY <1>2, <2>5
    <3>2. \A q \in Procs : ~(proc[q].at = "persist" /\ Current(q) = s) /\ Aim(proc[q]) # "ordered"
      BY <1>3, <2>3, <2>5
    <3>3. placed[s] = 0 \/ (placed[s] = 1 /\ s \in rows)
      BY <1>2, <2>1, <3>2 DEF Tracked
    <3>4. s \in rows => recorded[s] = "ordered"
      BY <1>2, <2>1, <3>2 DEF Tracked
    <3> QED
      BY <3>1, <3>3, <3>4
  <2> QED
    BY <2>4, <2>5
<1> QED
  BY <1>8, <1>9, <1>10, <1>11 DEF Inv

LEMMA RecordSignalKeeps == ASSUME Inv, NEW p \in Procs, RecordSignal(p) PROVE Inv'
<1> DEFINE t == Current(p)
           w == [at |-> "next", todo |-> Tail(proc[p].todo)]
<1>1. /\ proc[p].at \in {"blocked", "ordered"} /\ Now(p, w)
      /\ recorded' = [recorded EXCEPT ![t] = proc[p].at]
      /\ UNCHANGED <<lock, rows, ledger, broker, overlap, placed, cut>>
  BY DEF RecordSignal
<1>2. /\ Busy(p) /\ Aim(proc[p]) = proc[p].at /\ Of(proc[p]) = t /\ t \in SignalIds
      /\ Tail(proc[p].todo) \in Todo /\ Knows(proc[p], rows, overlap, ledger)
  BY <1>1, AtSignal
<1>3. w \in Shape /\ w.at = "next"
  BY <1>2 DEF Shape, Walking
<1>4. proc' = [proc EXCEPT ![p] = w] /\ proc \in [Procs -> Shape]
  BY <1>1 DEF Now, Inv, Shapes
<1> HIDE DEF w
<1>5. proc'[p] = w /\ \A q \in Procs \ {p} : proc'[q] = proc[q]
  BY <1>4
<1>6. Shapes'
  <2>1. recorded' \in [SignalIds -> {"none", "blocked", "ordered"}]
    BY <1>1 DEF Inv, Shapes
  <2> QED
    BY <1>1, <1>3, <1>4, <2>1 DEF Inv, Shapes
<1>7. Alone'
  BY <1>1, <1>2, AloneStill
<1>8. ASSUME NEW q \in Procs PROVE Knows(proc'[q], rows', overlap', ledger')
  <2>1. Knows(w, rows, overlap, ledger)
    BY <1>3, NothingToKnow
  <2> QED
    BY <1>1, <1>5, <2>1 DEF Inv
<1>9. ASSUME NEW s \in SignalIds PROVE Tracked(s)'
  <2>1. Tracked(s) /\ recorded \in [SignalIds -> {"none", "blocked", "ordered"}]
    BY DEF Inv, Shapes
  <2>2. CASE s = t
    <3>1. recorded'[s] = proc[p].at
      BY <1>1, <2>1, <2>2
    <3>2. recorded'[s] = "ordered" => s \in rows'
      BY <1>1, <1>2, <2>2, <3>1 DEF Knows
    <3>3. ~overlap /\ s \in rows => recorded'[s] = "ordered"
      BY <1>1, <1>2, <2>2, <3>1 DEF Knows
    <3>4. ASSUME ~overlap, s \notin cut
          PROVE  placed[s] = 0 \/ (placed[s] = 1 /\ s \in rows)
      <4>1. \A q \in Procs : proc[q].at # "persist"
        BY <1>1, <1>2, <3>4, Others
      <4> QED
        BY <2>1, <3>4, <4>1 DEF Tracked
    <3> QED
      BY <1>1, <3>2, <3>3, <3>4 DEF Tracked
  <2>3. CASE s # t
    <3>1. recorded'[s] = recorded[s]
      BY <1>1, <2>1, <2>3
    <3> SUFFICES ASSUME ~overlap, s \notin cut
                 PROVE  /\ \/ placed[s] = 0
                           \/ placed[s] = 1 /\ s \in rows
                        /\ s \in rows => recorded[s] = "ordered"
      BY <1>1, <2>1, <3>1 DEF Tracked
    <3>2. \A q \in Procs \ {p} : proc[q].at = "idle" /\ Aim(proc[q]) = "idle"
      BY <1>2, Others
    <3>3. \A q \in Procs : proc[q].at # "persist" /\ ~(Aim(proc[q]) = "ordered" /\ Current(q) = s)
      BY <1>1, <2>3, <3>2
    <3> QED
      BY <2>1, <3>3 DEF Tracked
  <2> QED
    BY <2>2, <2>3
<1> QED
  BY <1>6, <1>7, <1>8, <1>9 DEF Inv

-----------------------------------------------------------------------------
(* The whole.                                                              *)

LEMMA NextKeeps == ASSUME Inv, [Next]_vars PROVE Inv'
<1>1. CASE UNCHANGED vars
  <2>1. UNCHANGED <<lock, rows, recorded, ledger, broker, proc, overlap, placed, cut>>
    BY <1>1 DEF vars, stored
  <2>2. Shapes' /\ Alone'
    BY <2>1 DEF Inv, Shapes, Alone, Busy
  <2>3. \A p \in Procs : Knows(proc'[p], rows', overlap', ledger')
    BY <2>1 DEF Inv
  <2>4. \A s \in SignalIds : Tracked(s)'
    BY <2>1 DEF Inv, Tracked, Aim, Announcing, Current
  <2> QED
    BY <2>2, <2>3, <2>4 DEF Inv
<1>2. CASE \E p \in Procs : Tick(p) \/ Step(p) \/ Fail(p) \/ Kill(p)
  <2>1. PICK p \in Procs : Tick(p) \/ Step(p) \/ Fail(p) \/ Kill(p)
    BY <1>2
  <2> QED
    BY <2>1, TickKeeps, FailKeeps, KillKeeps, ReleaseKeeps, DeleteKeeps, SkipKeeps, SendKeeps,
       RecordKeeps, PassOverKeeps, EvaluateKeeps, RejectKeeps, AcceptKeeps, DuplicateKeeps,
       PersistKeeps, RecordSignalKeeps, FinishKeeps
       DEF Step
<1>3. CASE Lapse
  BY <1>3, LapseKeeps
<1> QED
  BY <1>1, <1>2, <1>3 DEF Next

\* The variables keep to the values the code gives them: a process is always at one of the
\* places of its tick, its channel is one of the configured ones, and the lock's key is a
\* process's that takes it.
THEOREM TypesHold == Spec => []TypeOK
<1>1. Inv => TypeOK
  <2> SUFFICES ASSUME Inv PROVE TypeOK
    OBVIOUS
  <2>1. ASSUME NEW p \in Procs
        PROVE  proc[p].at \in At /\ (proc[p].at = "send" => proc[p].channel \in DOMAIN Channels)
    <3>1. proc[p] \in Shape
      BY DEF Inv, Shapes
    <3>2. proc[p].at \in At /\ (proc[p].at = "send" => proc[p] \in Sending)
      BY <3>1, ShapeAt
    <3> QED
      BY <3>2, PathConstants DEF Sending
  <2>2. \A e \in ledger : e.signal \in SignalIds /\ e.channel \in Elements(Channels)
    BY DEF Inv, Shapes
  <2> QED
    BY <2>1, <2>2 DEF Inv, Shapes, TypeOK
<1> QED
  BY <1>1, Starts, NextKeeps, PTL DEF Spec

\* A signal gets one order, however many processes evaluate it and whatever fails, unless the
\* lock let two ticks overlap or the tick that placed it was cut off.
THEOREM OneOrder == Spec => []OrderedOnce
<1>1. Inv => OrderedOnce
  BY DEF Inv, Tracked, OrderedOnce
<1> QED
  BY <1>1, Starts, NextKeeps, PTL DEF Spec

\* A signal row that shows an order has its order row, and the other way round once nobody is
\* at the signal any more, but for overlaps and ticks that were cut off.
THEOREM TablesAgree == Spec => []RowsAgree
<1>1. Inv => RowsAgree
  <2> SUFFICES ASSUME Inv, NEW s \in SignalIds
               PROVE  /\ recorded[s] = "ordered" => s \in rows
                      /\ (s \in rows /\ \A p \in Procs : ~Working(p, s)) =>
                           recorded[s] = "ordered" \/ overlap \/ s \in cut
    BY DEF RowsAgree
  <2>1. Tracked(s)
    BY DEF Inv
  <2>2. ASSUME NEW p \in Procs, Aim(proc[p]) = "ordered", Current(p) = s
        PROVE  Working(p, s)
    <3>1. proc[p].at \in {"send", "sent", "failed", "ordered"}
      BY <2>2 DEF Aim, Announcing
    <3>2. Busy(p)
      BY <3>1, DeliveryOf, AtSignal
    <3> QED
      BY <2>2, <3>1, <3>2 DEF Working
  <2> QED
    BY <2>1, <2>2 DEF Tracked
<1> QED
  BY <1>1, Starts, NextKeeps, PTL DEF Spec

\* What a step adds to the ledger is about the signal its process is at.
LEMMA LedgerGrows ==
  ASSUME Inv, [Next]_vars, NEW e \in ledger' \ ledger
  PROVE  \E p \in Procs : /\ proc[p].at \in {"send", "sent", "failed"}
                          /\ e.signal = Current(p) /\ e.template = proc[p].template
<1>1. ASSUME NEW p \in Procs, NEW status,
             proc[p].at \in {"send", "sent", "failed"}, ledger' = ledger \union {Entry(p, status)}
      PROVE  \E q \in Procs : /\ proc[q].at \in {"send", "sent", "failed"}
                              /\ e.signal = Current(q) /\ e.template = proc[q].template
  <2>1. e = Entry(p, status)
    BY <1>1
  <2> QED
    BY <1>1, <2>1 DEF Entry
<1>2. ASSUME NEW p \in Procs, Skip(p)
      PROVE  \E q \in Procs : /\ proc[q].at \in {"send", "sent", "failed"}
                              /\ e.signal = Current(q) /\ e.template = proc[q].template
  <2>1. proc[p].at = "send" /\ ledger' = ledger \union {Entry(p, "SKIPPED_NOT_SELECTED")}
    BY <1>2 DEF Skip
  <2> QED
    BY <1>1, <2>1
<1>3. ASSUME NEW p \in Procs, Record(p)
      PROVE  \E q \in Procs : /\ proc[q].at \in {"send", "sent", "failed"}
                              /\ e.signal = Current(q) /\ e.template = proc[q].template
  <2> DEFINE status == IF proc[p].at = "sent" THEN "SENT" ELSE "FAILED"
  <2>1. proc[p].at \in {"send", "sent", "failed"} /\ ledger' = ledger \union {Entry(p, status)}
    BY <1>3 DEF Record
  <2> HIDE DEF status
  <2> QED
    BY <1>1, <2>1
<1>4. ledger' # ledger
  OBVIOUS
<1>5. \E p \in Procs : Skip(p) \/ Record(p)
  BY <1>4 DEF Next, Step, Tick, Lapse, Release, Delete, Send, PassOver, Evaluate, Reject, Accept,
     Duplicate, Persist, RecordSignal, Finish, Fail, Kill, vars, stored
<1> QED
  BY <1>2, <1>3, <1>5

\* No order is placed without an attempt to announce it on every channel, whatever happens.
\* Until two ticks have run at once, nothing is said of a signal as new or as blocked after it
\* has its order row, through crashes, failing calls and repeated ticks of any processes.
THEOREM NoticesFirst == Spec => AnnouncedFirst
<1> DEFINE First ==
      \A s \in SignalIds :
        /\ (placed'[s] > placed[s]) =>
             \A c \in Elements(Channels) : \E e \in ledger :
               e.signal = s /\ e.template = "VALIDATED_SIGNAL" /\ e.channel = c
        /\ (s \in rows /\ ~overlap) =>
             {e \in ledger' \ ledger : /\ e.signal = s
                                       /\ e.template \in {"VALIDATED_SIGNAL",
                                            "VALIDATED_SIGNAL_EXECUTION_BLOCKED"}} = {}
<1>1. ASSUME Inv, [Next]_vars, NEW s \in SignalIds, placed'[s] > placed[s]
      PROVE  \A c \in Elements(Channels) : Told(s, c, ledger)
  <2>1. placed \in [SignalIds -> Nat]
    BY <1>1 DEF Inv, Shapes
  <2>2. placed' # placed
    BY <1>1, <2>1
  <2>3. PICK p \in Procs : Accept(p)
    BY <1>1, <2>2 DEF Next, Step, Tick, Lapse, Release, Delete, Send, Skip, Record, PassOver,
       Evaluate, Reject, Duplicate, Persist, RecordSignal, Finish, Fail, Kill, vars, stored
  <2>4. proc[p].at = "submit" /\ placed' = [placed EXCEPT ![Current(p)] = @ + 1]
    BY <2>3 DEF Accept
  <2>5. s = Current(p)
    BY <1>1, <2>1, <2>4
  <2> QED
    BY <1>1, <2>4, <2>5, AtSignal DEF Knows
<1>2. ASSUME Inv, [Next]_vars, NEW s \in SignalIds, s \in rows, ~overlap,
             NEW e \in ledger' \ ledger, e.signal = s,
             e.template \in {"VALIDATED_SIGNAL", "VALIDATED_SIGNAL_EXECUTION_BLOCKED"}
      PROVE  FALSE
  <2>1. PICK p \in Procs : /\ proc[p].at \in {"send", "sent", "failed"}
                           /\ e.signal = Current(p) /\ e.template = proc[p].template
    BY <1>2, LedgerGrows
  <2>2. /\ proc[p] \in Sending /\ Announcing(proc[p]) /\ Aim(proc[p]) = proc[p].then
        /\ Of(proc[p]) = s /\ Knows(proc[p], rows, overlap, ledger)
    BY <1>2, <2>1, DeliveryOf
  <2>3. proc[p].then \in {"submit", "blocked", "ordered"}
    BY <2>2 DEF Sending
  <2>4. proc[p].then # "ordered"
    BY <1>2, <2>1, <2>2, PathConstants DEF Knows
  <2> QED
    BY <1>2, <2>2, <2>3, <2>4 DEF Knows
<1>3. Inv /\ [Next]_vars => [First]_vars
  BY <1>1, <1>2 DEF Told
<1>4. AnnouncedFirst <=> [][First]_vars
  BY DEF AnnouncedFirst
<1> HIDE DEF First
<1> QED
  BY <1>3, <1>4, Starts, NextKeeps, PTL DEF Spec
=============================================================================
