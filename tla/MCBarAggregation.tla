-------------------------- MODULE MCBarAggregation --------------------------
(* Bars of two units; source timestamps one unit late or one unit in the future; the
   running total falls (a reset) between some of the quotes. *)
EXTENDS BarAggregationProps
MCReadouts == {[price |-> 1, volume |-> 1], [price |-> 2, volume |-> 2]}
MCLags == {-1, 1}
=============================================================================
