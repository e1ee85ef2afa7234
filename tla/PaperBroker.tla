---------------------------- MODULE PaperBroker ----------------------------
(***************************************************************************)
(* infrastructure/brokers/paper/broker.py: the in-memory broker of one     *)
(* process.  Its calls run one at a time (one thread per process uses the  *)
(* singleton), so every call is one action, except record_price: its loop  *)
(* over the resting orders is one step per order, because an exception     *)
(* raised for one order leaves the effects of the orders before it.        *)
(*                                                                         *)
(* Prices are whole paise (the quantum of _round), quantities units of     *)
(* 0.0001, the precision the order API accepts, and money is the product;  *)
(* _round snaps a fill quantity to QuantityQuantum units.  Charges and     *)
(* their shares are cut to whole units of money; the code keeps fractions. *)
(*                                                                         *)
(* An operator named Bad... is a wrong variant of the one after it, kept   *)
(* to confirm that the properties notice the difference.                   *)
(***************************************************************************)
EXTENDS Integers, Sequences, OrderStateMachine

CONSTANTS Orders,          \* order ids; each travels with one idempotency key
          Instruments,
          Intents,         \* the OrderIntents callers may submit
          Prices,          \* the prices the feed may observe
          InitialCapital,
          RatioNum, RatioDen,   \* partial_fill_ratio
          QuantityQuantum,      \* units per 0.01 of quantity
          SlippagePercent,
          CostRate,             \* charges of a leg, per side, in parts of RateUnit
          RateUnit,
          Amendments,           \* (limit, trigger, quantity) triples given to modify_order
          NoInstrument          \* no record_price call is running

VARIABLES orders,       \* _orders and their events' last state
          book,         \* the insertion order of _orders
          latest,       \* _latest_prices; 0 = none observed
          cash,         \* _available_balance
          positions,    \* _positions and _position_entry_cost
          realizedNet,  \* sum of realized_net_pnl over _trades
          fills,        \* _fills
          ticking,      \* the instrument of the record_price call in progress
          todo          \* the orders that call has still to look at

vars == <<orders, book, latest, cash, positions, realizedNet, fills, ticking, todo>>
account == <<cash, positions, realizedNet, fills>>

Sides == {"BUY", "SELL"}
OrderTypes == {"MARKET", "LIMIT", "STOP_LOSS", "STOP_LOSS_MARKET"}

\* What OrderIntent.__post_init__ accepts; 0 stands for a price that is None.
\* A STOP_LOSS intent needs no limit price.
OrderIntent == [inst: Instruments, side: Sides, type: OrderTypes,
                qty: Nat \ {0}, limit: Nat, trigger: Nat]

IsValidIntent(i) ==
  /\ i \in OrderIntent
  /\ i.type = "LIMIT" => i.limit > 0
  /\ i.type \in {"STOP_LOSS", "STOP_LOSS_MARKET"} => i.trigger > 0

ASSUME ConstantsAssumption ==
  /\ \A i \in Intents : IsValidIntent(i)
  /\ Prices \subseteq Nat \ {0}
  /\ InitialCapital \in Nat \ {0}
  /\ RatioNum \in Nat \ {0} /\ RatioDen \in Nat \ {0} /\ RatioNum <= RatioDen
  /\ QuantityQuantum \in Nat \ {0}
  /\ SlippagePercent \in 0..99
  /\ Amendments \subseteq [limit: Nat, trigger: Nat, qty: Nat]
  /\ NoInstrument \notin Instruments

\* Every charge of the cost model is a percentage of the notional (its one flat figure
\* is a cap on the brokerage), so a leg never costs more than it is worth.
ASSUME CostAssumption ==
  /\ RateUnit \in Nat \ {0}
  /\ CostRate \in [Sides -> 0..RateUnit]

CostOf(side, notional) == (notional * CostRate[side]) \div RateUnit

NoOrder == [status |-> "NONE"]
NoPosition == [status |-> "NONE"]

IsOpen(p) == p.status = "OPEN"

\* _round: ROUND_HALF_UP of n / d to a whole unit.
RoundHalfUp(n, d) == (2 * n + d) \div (2 * d)

\* apply_flat_percentage_slippage, always against the trader.
Slipped(side, price) ==
  RoundHalfUp(price * (IF side = "BUY" THEN 100 + SlippagePercent
                                       ELSE 100 - SlippagePercent), 100)

BadFillPrice(ord, ref, clamped) == Slipped(ord.side, ref)

\* The price _attempt_fill executes at: slipped, then clamped to limit_boundary.
FillPrice(ord, ref, clamped) ==
  LET slipped == Slipped(ord.side, ref)
      worse   == IF ord.side = "BUY" THEN slipped > ord.limit ELSE slipped < ord.limit
  IN IF clamped /\ worse THEN ord.limit ELSE slipped

Remaining(ord) == ord.qty - ord.filled

\* The quantity _attempt_fill executes: the ratio of what remains, rounded to the
\* quantum; a rounded value that is not in (0, remaining] falls back to remaining.
FillQuantity(ord, force) ==
  LET share == QuantityQuantum * RoundHalfUp(Remaining(ord) * RatioNum,
                                             RatioDen * QuantityQuantum)
  IN IF force \/ share <= 0 \/ share > Remaining(ord) THEN Remaining(ord) ELSE share

\* One execution of ord against the reference price ref.
Execution(ord, ref, clamped, force) ==
  LET price == FillPrice(ord, ref, clamped)
      qty   == FillQuantity(ord, force)
  IN [price |-> price, qty |-> qty, cost |-> CostOf(ord.side, price * qty)]

BadAffordable(ord, x) == ord.side = "SELL" \/ x.price * x.qty <= cash

Affordable(ord, x) == ord.side = "SELL" \/ x.price * x.qty + x.cost <= cash

-----------------------------------------------------------------------------
(* _apply_to_position: open, blend, or close against the opposite side.    *)

OpenedBy(ord, x) ==
  [status |-> "OPEN", side |-> ord.side, qty |-> x.qty, avg |-> x.price,
   entryCost |-> x.cost, net |-> 0]

BadBlendedWith(p, x) == [p EXCEPT !.qty = x.qty, !.entryCost = @ + x.cost]

BlendedWith(p, x) ==
  [p EXCEPT !.qty = @ + x.qty,
            !.avg = RoundHalfUp(@ * p.qty + x.price * x.qty, p.qty + x.qty),
            !.entryCost = @ + x.cost]

ClosingQuantity(p, x) == IF p.qty < x.qty THEN p.qty ELSE x.qty

\* The share of the entry cost a close of closing units takes with it.
EntryCostShare(p, closing) == (p.entryCost * closing) \div p.qty

BadTradeNetPnl(p, x) ==
  (IF p.side = "BUY" THEN x.price - p.avg ELSE p.avg - x.price) * ClosingQuantity(p, x)
    - x.cost

TradeNetPnl(p, x) ==
  LET closing == ClosingQuantity(p, x)
      gross   == (IF p.side = "BUY" THEN x.price - p.avg ELSE p.avg - x.price) * closing
  IN gross - EntryCostShare(p, closing) - (x.cost * closing) \div x.qty

\* A fully closed position keeps the quantity that closed it.
ReducedBy(p, x) ==
  LET closing == ClosingQuantity(p, x)
      net     == p.net + TradeNetPnl(p, x)
  IN IF closing = p.qty
     THEN [p EXCEPT !.status = "CLOSED", !.net = net, !.entryCost = 0]
     ELSE [p EXCEPT !.qty = @ - closing, !.net = net,
                    !.entryCost = @ - EntryCostShare(p, closing)]

ApplyToPosition(ord, x) ==
  LET p == positions[ord.inst]
  IN IF ~IsOpen(p)
     THEN /\ positions' = [positions EXCEPT ![ord.inst] = OpenedBy(ord, x)]
          /\ UNCHANGED realizedNet
     ELSE IF p.side = ord.side
     THEN /\ positions' = [positions EXCEPT ![ord.inst] = BlendedWith(p, x)]
          /\ UNCHANGED realizedNet
     ELSE /\ positions' = [positions EXCEPT ![ord.inst] = ReducedBy(p, x)]
          /\ realizedNet' = realizedNet + TradeNetPnl(p, x)

BadFilledBy(ord, x) ==
  [ord EXCEPT !.filled = @ + x.qty,
              !.status = IF ord.filled + x.qty > ord.qty THEN "FILLED" ELSE "PARTIALLY_FILLED"]

FilledBy(ord, x) ==
  [ord EXCEPT !.filled = @ + x.qty,
              !.status = IF ord.filled + x.qty >= ord.qty THEN "FILLED"
                                                          ELSE "PARTIALLY_FILLED"]

\* _attempt_fill with enough balance.
Execute(o, ord, x) ==
  /\ cash' = IF ord.side = "BUY" THEN cash - (x.price * x.qty + x.cost)
                                 ELSE cash + (x.price * x.qty - x.cost)
  /\ orders' = [orders EXCEPT ![o] = FilledBy(ord, x)]
  /\ ApplyToPosition(ord, x)
  /\ fills' = Append(fills, [order |-> o, inst |-> ord.inst, side |-> ord.side,
                             qty |-> x.qty, price |-> x.price])

\* _attempt_fill without: the order becomes REJECTED.
RejectForFunds(o, ord) ==
  /\ orders' = [orders EXCEPT ![o] = [ord EXCEPT !.status = "REJECTED"]]
  /\ UNCHANGED account

-----------------------------------------------------------------------------
(* The BrokerGateway calls.                                                *)

Quiet == ticking = NoInstrument

Pending(intent) ==
  [status |-> "PENDING", inst |-> intent.inst, side |-> intent.side,
   type |-> intent.type, qty |-> intent.qty, limit |-> intent.limit,
   trigger |-> intent.trigger, filled |-> 0]

\* submit_order.  A key seen before raises DuplicateOrderSubmissionError and
\* changes nothing: the guard.
Submit(o, intent) ==
  LET ord == Pending(intent)
      x   == Execution(ord, latest[ord.inst], FALSE, FALSE)
  IN /\ Quiet
     /\ orders[o] = NoOrder
     /\ book' = Append(book, o)
     /\ UNCHANGED <<latest, ticking, todo>>
     /\ \/ /\ intent.type # "MARKET"
           /\ orders' = [orders EXCEPT ![o] = ord]
           /\ UNCHANGED account
        \/ /\ intent.type = "MARKET"
           /\ latest[ord.inst] = 0
           /\ orders' = [orders EXCEPT ![o] = [ord EXCEPT !.status = "REJECTED"]]
           /\ UNCHANGED account
        \/ /\ intent.type = "MARKET"
           /\ latest[ord.inst] > 0
           /\ IF Affordable(ord, x) THEN Execute(o, ord, x) ELSE RejectForFunds(o, ord)

BadCancel(o) ==
  /\ Quiet
  /\ orders[o] # NoOrder
  /\ orders' = [orders EXCEPT ![o].status = "CANCELLED"]
  /\ UNCHANGED <<book, latest, account, ticking, todo>>

Cancel(o) ==
  /\ Quiet
  /\ orders[o] # NoOrder
  /\ MayTransition(orders[o].status, "CANCEL_REQUESTED")
  /\ orders' = [orders EXCEPT ![o].status = "CANCELLED"]
  /\ UNCHANGED <<book, latest, account, ticking, todo>>

\* modify_order looks at no status, and replaces the intent before the event it
\* appends is validated: a quantity below what is filled raises ValueError and
\* leaves the new intent in place.
Modify(o, a) ==
  /\ Quiet
  /\ orders[o] # NoOrder
  /\ orders' = [orders EXCEPT ![o].limit   = IF a.limit > 0 THEN a.limit ELSE @,
                              ![o].trigger = IF a.trigger > 0 THEN a.trigger ELSE @,
                              ![o].qty     = IF a.qty > 0 THEN a.qty ELSE @]
  /\ UNCHANGED <<book, latest, account, ticking, todo>>

ForceExpireEndOfSession ==
  /\ Quiet
  /\ \E o \in Orders : orders[o].status \in RestingStates
  /\ orders' = [o \in Orders |-> IF orders[o].status \in RestingStates
                                 THEN [orders[o] EXCEPT !.status = "EXPIRED"]
                                 ELSE orders[o]]
  /\ UNCHANGED <<book, latest, account, ticking, todo>>

-----------------------------------------------------------------------------
(* record_price, one resting order at a time.                              *)

BadRecordPrice(i, price) ==
  /\ Quiet
  /\ latest' = [latest EXCEPT ![i] = price]
  /\ ticking' = i
  /\ todo' = SelectSeq(book, LAMBDA o : orders[o].status = "PARTIALLY_FILLED")
  /\ UNCHANGED <<orders, book, account>>

RecordPrice(i, price) ==
  /\ Quiet
  /\ latest' = [latest EXCEPT ![i] = price]
  /\ ticking' = i
  /\ todo' = book
  /\ UNCHANGED <<orders, book, account>>

AtLeastAsGood(side, price, limit) ==
  IF side = "BUY" THEN price <= limit ELSE price >= limit

Triggered(ord, price) ==
  IF ord.side = "BUY" THEN price >= ord.trigger ELSE price <= ord.trigger

\* _maybe_fill_resting_order: does this price execute the resting order?
Executable(ord, price) ==
  \/ ord.type = "LIMIT" /\ AtLeastAsGood(ord.side, price, ord.limit)
  \/ ord.type = "STOP_LOSS_MARKET" /\ Triggered(ord, price)
  \/ /\ ord.type = "STOP_LOSS"
     /\ Triggered(ord, price)
     /\ ord.limit > 0
     /\ AtLeastAsGood(ord.side, price, ord.limit)
  \/ ord.type = "MARKET" /\ ord.status = "PARTIALLY_FILLED"

RestingExecution(ord, price) ==
  CASE ord.type \in {"LIMIT", "STOP_LOSS"} -> Execution(ord, ord.limit, TRUE, FALSE)
    [] ord.type = "STOP_LOSS_MARKET"       -> Execution(ord, price, FALSE, FALSE)
    [] ord.type = "MARKET"                 -> Execution(ord, price, FALSE, TRUE)

Looked(ord) == ord.inst = ticking /\ ord.status \in RestingStates

\* The exceptions that leave the loop: the assertion on the limit price of a
\* triggered STOP_LOSS, PARTIALLY_FILLED -> REJECTED, which is no transition, and the
\* cost of a negative notional when modify_order took the quantity below the filled one.
Raises(ord, price) ==
  /\ Looked(ord)
  /\ \/ ord.type = "STOP_LOSS" /\ Triggered(ord, price) /\ ord.limit = 0
     \/ /\ Executable(ord, price)
        /\ \/ Remaining(ord) < 0
           \/ /\ ~Affordable(ord, RestingExecution(ord, price))
              /\ ~MayTransition(ord.status, "REJECTED")

\* modify_order took the quantity to exactly the filled one: the order becomes FILLED,
\* then the Position, Trade or Fill of quantity 0 is refused with ValueError.
RaisesAfterFilling(ord, price) ==
  Looked(ord) /\ Executable(ord, price) /\ Remaining(ord) = 0

TickOrder ==
  /\ ~Quiet
  /\ todo # <<>>
  /\ UNCHANGED <<book, latest>>
  /\ LET o     == Head(todo)
         ord   == orders[o]
         price == latest[ticking]
         x     == RestingExecution(ord, price)
     IN IF Raises(ord, price)
        THEN /\ ticking' = NoInstrument
             /\ todo' = <<>>
             /\ UNCHANGED <<orders, account>>
        ELSE IF RaisesAfterFilling(ord, price)
        THEN /\ ticking' = NoInstrument
             /\ todo' = <<>>
             /\ orders' = [orders EXCEPT ![o].status = "FILLED"]
             /\ UNCHANGED account
        ELSE /\ todo' = Tail(todo)
             /\ UNCHANGED ticking
             /\ IF Looked(ord) /\ Executable(ord, price)
                THEN IF Affordable(ord, x) THEN Execute(o, ord, x)
                                           ELSE RejectForFunds(o, ord)
                ELSE UNCHANGED <<orders, account>>

\* The loop is over; mark_position only restates unrealized P&L, left out here.
TickDone ==
  /\ ~Quiet
  /\ todo = <<>>
  /\ ticking' = NoInstrument
  /\ UNCHANGED <<orders, book, latest, account, todo>>

-----------------------------------------------------------------------------
Init ==
  /\ orders = [o \in Orders |-> NoOrder]
  /\ book = <<>>
  /\ latest = [i \in Instruments |-> 0]
  /\ cash = InitialCapital
  /\ positions = [i \in Instruments |-> NoPosition]
  /\ realizedNet = 0
  /\ fills = <<>>
  /\ ticking = NoInstrument
  /\ todo = <<>>

\* The calls the platform makes.
Next ==
  \/ \E o \in Orders, intent \in Intents : Submit(o, intent)
  \/ \E o \in Orders : Cancel(o)
  \/ ForceExpireEndOfSession
  \/ \E i \in Instruments, price \in Prices : RecordPrice(i, price)
  \/ TickOrder
  \/ TickDone

Spec == Init /\ [][Next]_vars

\* The whole BrokerGateway surface; no caller in the platform uses modify_order.
GatewayNext == Next \/ \E o \in Orders, a \in Amendments : Modify(o, a)

GatewaySpec == Init /\ [][GatewayNext]_vars
=============================================================================
