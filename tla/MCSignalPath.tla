---------------------------- MODULE MCSignalPath ----------------------------
(* Two Celery processes that take the lock, a signal that is evaluated in three ticks, a
   channel that one of the processes may not use, two attempts, two faults. *)
EXTENDS SignalPathProps
MCProcs == {"one", "two"}
MCSignals == <<"s">>
MCChannels == <<"telegram">>
MCOutcomes == {"ORDER_FILLED"}
MCSelected == [p \in MCProcs |-> IF p = "one" THEN {"telegram"} ELSE {}]
=============================================================================
