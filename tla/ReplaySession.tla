--------------------------- MODULE ReplaySession ---------------------------
(***************************************************************************)
(* The replay paper session: one row in the database, commands that read   *)
(* it, compute and save it whole, and a projection that replays the day up *)
(* to the row's cursor into a fresh broker each time it is looked at.      *)
(* Requests come from several clients; nothing keeps them apart between    *)
(* the read and the save.                                                  *)
(*                                                                         *)
(* A bar of the day is its open and its close; quantities are counted in   *)
(* the quantity the session trades.  Charges are left out.                 *)
(* An operator named Bad... is a plausible mistake in the operator that    *)
(* follows it; nothing else uses it.                                       *)
(***************************************************************************)
EXTENDS Integers, SequencesExt

CONSTANTS Clients,
          Days,            \* the days a session may replay: sequences of bars
          Decide(_),       \* the strategy: bars -> LONG, SHORT, NEUTRAL
          Speed,           \* playback_speed: bars in one step
          MaxPosition,     \* RiskLimits.max_position_size
          MaxWrites        \* bound: how often the row is saved

ASSUME ReplayConstants ==
  /\ \A day \in Days : day \in Seq([open : Nat, close : Nat])
  /\ \A day \in Days : \A n \in 1..Len(day) : Decide(SubSeq(day, 1, n)) \in {"LONG", "SHORT", "NEUTRAL"}
  /\ Speed \in Nat \ {0} /\ MaxPosition \in Nat /\ MaxWrites \in Nat

VARIABLES row,       \* PaperTradingSessionRecord, <<>> before the first create
          request,   \* what each client has read and is about to save
          halted,    \* the kill switch
          writes
replayVars == <<row, request, halted, writes>>

Nothing == <<>>

-----------------------------------------------------------------------------
\* domain/paper_session/contracts.py

Transitions ==
  {<<"STOPPED", "START", "RUNNING">>, <<"RUNNING", "PAUSE", "PAUSED">>,
   <<"PAUSED", "RESUME", "RUNNING">>, <<"RUNNING", "STOP", "STOPPED">>,
   <<"PAUSED", "STOP", "STOPPED">>, <<"RUNNING", "COMPLETE", "COMPLETED">>,
   <<"RUNNING", "FAIL", "FAILED">>, <<"PAUSED", "FAIL", "FAILED">>,
   <<"STOPPED", "RESET", "STOPPED">>, <<"COMPLETED", "RESET", "STOPPED">>,
   <<"FAILED", "RESET", "STOPPED">>}
\* Commands that change nothing are answered and not saved; the other pairs are refused.
Apply(status, command) ==
  {t[3] : t \in {u \in Transitions : u[1] = status /\ u[2] = command}}
Commands == {"START", "PAUSE", "RESUME", "STOP", "RESET"}

\* A step is decided on the last bar and filled at the open of the next one.
Steps(day) == IF Len(day) = 0 THEN 0 ELSE Len(day) - 1

-----------------------------------------------------------------------------
\* project

\* The gate of the paper trading service; every order adds its size, also one that reduces.
Size(position) == IF position < 0 THEN -position ELSE position
Approved(position, halt) == ~halt /\ Size(position) + 1 <= MaxPosition

\* Step i: the bars up to i decide, the market order fills at the open of bar i + 1.
BadStepAt(day, halt, account, i) ==
  LET direction == Decide(SubSeq(day, 1, i + 1))
      side == IF direction = "LONG" THEN 1 ELSE -1
      price == day[i + 1].open
      filled == direction # "NEUTRAL" /\ Approved(account.position, halt)
      position == account.position + IF filled THEN side ELSE 0
      cash == account.cash - IF filled THEN side * price ELSE 0
  IN [position |-> position, cash |-> cash,
      shown |-> Append(account.shown, <<direction, filled, cash + position * price>>)]
StepAt(day, halt, account, i) ==
  LET direction == Decide(SubSeq(day, 1, i))
      side == IF direction = "LONG" THEN 1 ELSE -1
      price == day[i + 1].open
      filled == direction # "NEUTRAL" /\ Approved(account.position, halt)
      position == account.position + IF filled THEN side ELSE 0
      cash == account.cash - IF filled THEN side * price ELSE 0
  IN [position |-> position, cash |-> cash,
      shown |-> Append(account.shown, <<direction, filled, cash + position * price>>)]

\* The account at the cursor: positions, cash, what is shown of each step, and the equity,
\* which at the end of the day is marked at its last close.
Project(day, cursor, halt) ==
  LET n == IF cursor < Steps(day) THEN cursor ELSE Steps(day)
      account == FoldLeft(LAMBDA a, i : StepAt(day, halt, a, i),
                          [position |-> 0, cash |-> 0, shown |-> <<>>], [i \in 1..n |-> i])
      mark == IF n > 0 /\ n = Steps(day) THEN Last(day).close
              ELSE IF n > 0 THEN day[n + 1].open ELSE 0
  IN [position |-> account.position, cash |-> account.cash, shown |-> account.shown,
      equity |-> account.cash + account.position * mark]

-----------------------------------------------------------------------------
ReplayInit ==
  /\ row = Nothing /\ request = [c \in Clients |-> Nothing]
  /\ halted = FALSE /\ writes = 0

\* What a request makes of the row it read: create, a command, a step.
Created(read, day) ==
  IF read # Nothing /\ read.status \in {"RUNNING", "PAUSED"} THEN {}
  ELSE {[status |-> "STOPPED", day |-> day, cursor |-> 0, total |-> Steps(day)]}
Commanded(read, command) ==
  {[read EXCEPT !.status = status, !.cursor = IF command = "RESET" THEN 0 ELSE @] :
     status \in Apply(read.status, command)}
Target(read) == IF read.cursor + Speed < read.total THEN read.cursor + Speed ELSE read.total
BadStepped(read) ==
  IF read.status # "RUNNING" THEN {}
  ELSE {[read EXCEPT !.cursor = Target(read),
           !.status = IF read.cursor + Speed + 1 >= read.total THEN "COMPLETED" ELSE @]}
Stepped(read) ==
  IF read.status # "RUNNING" THEN {}
  ELSE {[read EXCEPT !.cursor = Target(read),
           !.status = IF Target(read) >= read.total THEN "COMPLETED" ELSE @]}

\* What may be asked of the row that is there: the command, and what it makes of the row.
Creations == UNION {{<<"CREATE", r>> : r \in Created(row, day)} : day \in Days}
Commandings == UNION {{<<k, r>> : r \in Commanded(row, k)} : k \in Commands}
Steppings == {<<"STEP", r>> : r \in Stepped(row)}
Requests == Creations \union IF row = Nothing THEN {} ELSE Commandings \union Steppings

Read(c) ==
  /\ request[c] = Nothing /\ writes < MaxWrites
  /\ \E new \in Requests :
       request' = [request EXCEPT ![c] = [command |-> new[1], read |-> row, new |-> new[2]]]
  /\ UNCHANGED <<row, halted, writes>>

\* DjangoPaperSessionRepository.save: every column of the row.
Saved(q) == q.new
Save(c) ==
  /\ request[c] # Nothing
  /\ row' = Saved(request[c])
  /\ request' = [request EXCEPT ![c] = Nothing]
  /\ writes' = writes + 1
  /\ UNCHANGED halted

KillSwitch == halted' = ~halted /\ UNCHANGED <<row, request, writes>>

ReplayNext == (\E c \in Clients : Read(c) \/ Save(c)) \/ KillSwitch
=============================================================================
