-------------------------- MODULE PaperBrokerProps --------------------------
(***************************************************************************)
(* What the paper broker promises: its own type invariant, the bookkeeping *)
(* identities between orders, fills, positions and cash, and the claims    *)
(* its documentation makes.                                                *)
(***************************************************************************)
EXTENDS PaperBroker, FiniteSets, Functions

OrderRecord == [status: OrderStatus, inst: Instruments, side: Sides, type: OrderTypes,
                qty: Nat \ {0}, limit: Nat, trigger: Nat, filled: Nat]

PositionRecord == [status: {"OPEN", "CLOSED"}, side: Sides, qty: Nat \ {0}, avg: Nat,
                   entryCost: Nat, net: Int]

FillRecord == [order: Orders, inst: Instruments, side: Sides, qty: Nat, price: Nat]

\* The type of every broker attribute.
TypeOK ==
  /\ orders \in [Orders -> OrderRecord \union {NoOrder}]
  /\ book \in Seq(Orders)
  /\ latest \in [Instruments -> Nat]
  /\ cash \in Int
  /\ positions \in [Instruments -> PositionRecord \union {NoPosition}]
  /\ realizedNet \in Int
  /\ fills \in Seq(FillRecord)
  /\ ticking \in Instruments \union {NoInstrument}
  /\ todo \in Seq(Orders)

Submitted == {o \in Orders : orders[o] # NoOrder}

\* The account is never overdrawn: _attempt_fill checks a BUY against the balance
\* at every fill, also of an order that has rested while others spent the money.
Solvent == cash >= 0

\* An order never fills beyond its quantity, it is FILLED exactly when nothing
\* remains, and an order that still rests has something left to fill.
OrdersAddUp ==
  \A o \in Submitted :
    /\ orders[o].filled <= orders[o].qty
    /\ orders[o].status = "FILLED" <=> orders[o].filled = orders[o].qty

FillIndices == 1..Len(fills)

Signed(f) == IF f.side = "BUY" THEN f.qty ELSE -f.qty

\* The fills of an order are what it says was filled.
FillsMatchOrders ==
  \A o \in Submitted :
    orders[o].filled = SumFunctionOnSet([n \in FillIndices |-> fills[n].qty],
                                        {n \in FillIndices : fills[n].order = o})

NetFilled(i) ==
  SumFunctionOnSet([n \in FillIndices |-> Signed(fills[n])],
                   {n \in FillIndices : fills[n].inst = i})

OpenQuantity(i) ==
  LET p == positions[i]
  IN IF ~IsOpen(p) THEN 0 ELSE IF p.side = "BUY" THEN p.qty ELSE -p.qty

\* Fill and Position cannot disagree: the open position is the sum of the signed fills
\* (the claim at the head of test_checkpoint_64_45_fill_position_consistency.py).
PositionMatchesFills == \A i \in Instruments : OpenQuantity(i) = NetFilled(i)

\* The canonical fills, the orders and the positions tell the same, whatever mixture of
\* submissions, ticks, cancels and aborted ticks produced them.
FillsExplainAll == FillsMatchOrders /\ PositionMatchesFills

\* What the open position on i cost to enter (a short brings money in).
OpenOutlay(i) ==
  LET p == positions[i]
  IN IF ~IsOpen(p) THEN 0
     ELSE p.entryCost + (IF p.side = "BUY" THEN p.avg * p.qty ELSE -(p.avg * p.qty))

\* Every paisa that left or entered the balance is explained by a trade's net P&L or
\* by what an open position cost to enter: cost attribution loses and double-counts
\* nothing.  Exact as long as the blended averages are representable.
CashExplainedByPnl ==
  cash = InitialCapital + realizedNet - SumFunction([i \in Instruments |-> OpenOutlay(i)])

\* A fill never violates the limit its order states at that moment, slippage included.
LimitNeverWorse ==
  [][Len(fills') > Len(fills) =>
       LET f   == fills'[Len(fills')]
           ord == orders'[f.order]
       IN ord.type \in {"LIMIT", "STOP_LOSS"}
            => AtLeastAsGood(ord.side, f.price, ord.limit)]_vars

\* When record_price reaches its end without an exception, the price it recorded leaves
\* no untouched LIMIT or triggered stop order behind it.
TickLeavesNothingExecutable ==
  ~Quiet /\ todo = <<>> =>
    \A o \in Submitted :
      orders[o].inst = ticking /\ orders[o].status = "PENDING"
        => ~Executable(orders[o], latest[ticking])

\* A terminal order is done: neither its status nor its filled quantity changes again
\* (domain/order/state_machine.py, TERMINAL_STATES).
TerminalIsFinal ==
  [][\A o \in Submitted :
       IsTerminal(orders[o].status)
         => orders'[o].status = orders[o].status /\ orders'[o].filled = orders[o].filled]_vars
=============================================================================
