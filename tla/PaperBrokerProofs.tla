------------------------- MODULE PaperBrokerProofs -------------------------
(***************************************************************************)
(* The broker is type-correct, never overdrawn and never overfills, for    *)
(* any orders, intents, prices, fill ratio, slippage and charges.          *)
(***************************************************************************)
EXTENDS PaperBrokerProps, SetLemmas, SequenceTheorems, TLAPS

\* The orders record_price walks over have been submitted.
Walked ==
  /\ \A n \in 1..Len(book) : orders[book[n]] # NoOrder
  /\ \A n \in 1..Len(todo) : orders[todo[n]] # NoOrder

\* TypeOK and Solvent are not inductive alone: the order a fill belongs to exists because
\* of Walked.  This much every call of the gateway keeps, modify_order included.
GInv == TypeOK /\ Solvent /\ Walked

\* OrdersAddUp is kept by the calls the platform makes; modify_order breaks it.
StillAddsUp == OrdersAddUp => OrdersAddUp'

IInv == GInv /\ OrdersAddUp

-----------------------------------------------------------------------------
(* Arithmetic of the price and charge computations.                        *)

LEMMA DivNat ==
  ASSUME NEW n \in Nat, NEW d \in Nat, d > 0
  PROVE  n \div d \in Nat
  OBVIOUS

LEMMA DivAtMost ==
  ASSUME NEW n \in Nat, NEW r \in Nat, NEW u \in Nat, u > 0, r <= u
  PROVE  (n * r) \div u <= n
<1>1. n * r \in Nat /\ n * u \in Nat /\ n * r <= n * u
  OBVIOUS
<1>2. (n * r) \div u <= (n * u) \div u
  BY <1>1
<1>3. (n * u) \div u = n
  BY <1>1
<1> QED
  BY <1>1, <1>2, <1>3, DivNat

LEMMA RoundNat ==
  ASSUME NEW n \in Nat, NEW d \in Nat, d > 0
  PROVE  RoundHalfUp(n, d) \in Nat
<1>1. 2 * n + d \in Nat /\ 2 * d \in Nat /\ 2 * d > 0
  OBVIOUS
<1> QED
  BY <1>1, DivNat DEF RoundHalfUp

\* A leg costs at most what it is worth.
LEMMA CostBound ==
  ASSUME NEW side \in Sides, NEW n \in Nat
  PROVE  CostOf(side, n) \in Nat /\ CostOf(side, n) <= n
<1>1. RateUnit \in Nat /\ RateUnit > 0 /\ CostRate[side] \in Nat /\ CostRate[side] <= RateUnit
  BY CostAssumption
<1>2. n * CostRate[side] \in Nat
  BY <1>1
<1> QED
  BY <1>1, <1>2, DivNat, DivAtMost DEF CostOf

LEMMA SlippedNat ==
  ASSUME NEW side \in Sides, NEW price \in Nat
  PROVE  Slipped(side, price) \in Nat
<1>1. SlippagePercent \in 0..99
  BY ConstantsAssumption
<1>2. price * (IF side = "BUY" THEN 100 + SlippagePercent ELSE 100 - SlippagePercent) \in Nat
  BY <1>1
<1> QED
  BY <1>2, RoundNat DEF Slipped

\* _attempt_fill executes at least something and never more than what remains.
LEMMA FillQuantityBound ==
  ASSUME NEW ord \in OrderRecord, ord.filled < ord.qty, NEW force \in BOOLEAN
  PROVE  FillQuantity(ord, force) \in 1..Remaining(ord)
<1>1. Remaining(ord) \in Nat /\ Remaining(ord) > 0
  BY DEF Remaining, OrderRecord
<1>2. /\ RatioNum \in Nat /\ RatioDen \in Nat /\ RatioDen > 0
      /\ QuantityQuantum \in Nat /\ QuantityQuantum > 0
  BY ConstantsAssumption
<1>3. Remaining(ord) * RatioNum \in Nat
  BY <1>1, <1>2
<1>4. RatioDen * QuantityQuantum \in Nat /\ RatioDen * QuantityQuantum > 0
  BY <1>2
<1>5. RoundHalfUp(Remaining(ord) * RatioNum, RatioDen * QuantityQuantum) \in Nat
  BY <1>3, <1>4, RoundNat
<1> DEFINE share == QuantityQuantum * RoundHalfUp(Remaining(ord) * RatioNum,
                                                  RatioDen * QuantityQuantum)
<1>6. share \in Nat
  BY <1>2, <1>5
<1> HIDE DEF share
<1>7. FillQuantity(ord, force) =
        IF force \/ share <= 0 \/ share > Remaining(ord) THEN Remaining(ord) ELSE share
  BY DEF FillQuantity, share
<1> QED
  BY <1>1, <1>6, <1>7

\* What an execution looks like when the order has something left to fill.
ExecutionRecord(ord) ==
  {x \in [price: Nat, qty: Nat, cost: Nat] :
     /\ x.qty > 0
     /\ ord.filled + x.qty <= ord.qty
     /\ x.cost <= x.price * x.qty}

LEMMA ExecutionType ==
  ASSUME NEW ord \in OrderRecord, ord.filled < ord.qty, NEW ref \in Nat,
         NEW clamped \in BOOLEAN, NEW force \in BOOLEAN
  PROVE  Execution(ord, ref, clamped, force) \in ExecutionRecord(ord)
<1> DEFINE p == FillPrice(ord, ref, clamped)
           q == FillQuantity(ord, force)
<1>0. ord.side \in Sides /\ ord.limit \in Nat /\ ord.qty \in Nat /\ ord.filled \in Nat
  BY DEF OrderRecord
<1>1. p \in Nat
  BY <1>0, SlippedNat DEF FillPrice
<1>2. q \in Nat /\ q > 0 /\ ord.filled + q <= ord.qty
  BY <1>0, FillQuantityBound DEF Remaining
<1> HIDE DEF p, q
<1>3. p * q \in Nat
  BY <1>1, <1>2
<1>4. CostOf(ord.side, p * q) \in Nat /\ CostOf(ord.side, p * q) <= p * q
  BY <1>0, <1>3, CostBound
<1>5. Execution(ord, ref, clamped, force)
        = [price |-> p, qty |-> q, cost |-> CostOf(ord.side, p * q)]
  BY DEF Execution, p, q
<1> QED
  BY <1>1, <1>2, <1>4, <1>5 DEF ExecutionRecord

-----------------------------------------------------------------------------
(* The building blocks of the calls.                                       *)

AddsUp(ord) ==
  ord.filled <= ord.qty /\ (ord.status = "FILLED" <=> ord.filled = ord.qty)

LEMMA OrderRecordReal ==
  ASSUME NEW ord \in OrderRecord
  PROVE  ord # NoOrder
<1>1. ord.status # "NONE"
  BY DEF OrderRecord, OrderStatus, LiveStates, TerminalStates
<1> QED
  BY <1>1 DEF NoOrder

LEMMA SubmittedRecord ==
  ASSUME GInv, NEW o \in Orders, orders[o] # NoOrder
  PROVE  orders[o] \in OrderRecord /\ (OrdersAddUp => AddsUp(orders[o]))
<1>1. orders[o] \in OrderRecord
  BY DEF GInv, TypeOK
<1> QED
  BY <1>1 DEF OrdersAddUp, Submitted, AddsUp

\* Replacing one order by a well-formed one keeps what the invariants say of the orders.
LEMMA OneOrder ==
  ASSUME GInv, NEW o \in Orders, NEW r \in OrderRecord,
         orders' = [orders EXCEPT ![o] = r]
  PROVE  /\ orders' \in [Orders -> OrderRecord \union {NoOrder}]
         /\ AddsUp(r) => StillAddsUp
         /\ orders'[o] # NoOrder
         /\ \A q \in Orders : orders[q] # NoOrder => orders'[q] # NoOrder
<1>1. orders \in [Orders -> OrderRecord \union {NoOrder}]
  BY DEF GInv, TypeOK
<1>2. orders' \in [Orders -> OrderRecord \union {NoOrder}]
  BY <1>1
<1>3. r # NoOrder
  BY OrderRecordReal
<1>4. \A q \in Orders : orders'[q] = IF q = o THEN r ELSE orders[q]
  BY <1>1
<1>5. \A q \in Orders : orders[q] # NoOrder => orders'[q] # NoOrder
  BY <1>3, <1>4
<1>6. ASSUME AddsUp(r), OrdersAddUp, NEW q \in Orders, orders'[q] # NoOrder
      PROVE  AddsUp(orders'[q])
  <2>1. CASE q = o
    BY <2>1, <1>4, <1>6
  <2>2. CASE q # o
    BY <2>2, <1>4, <1>6, SubmittedRecord
  <2> QED
    BY <2>1, <2>2
<1>7. AddsUp(r) => StillAddsUp
  BY <1>6 DEF StillAddsUp, OrdersAddUp, Submitted, AddsUp
<1> QED
  BY <1>2, <1>3, <1>4, <1>5, <1>7

\* Filling an order by a legal execution leaves a well-formed order.
LEMMA FilledByType ==
  ASSUME NEW ord \in OrderRecord, NEW x \in ExecutionRecord(ord)
  PROVE  FilledBy(ord, x) \in OrderRecord /\ AddsUp(FilledBy(ord, x))
<1>1. /\ ord.filled \in Nat /\ ord.qty \in Nat /\ x.qty \in Nat
      /\ ord.filled + x.qty <= ord.qty
  BY DEF OrderRecord, ExecutionRecord
<1> DEFINE sum == ord.filled + x.qty
           status == IF sum >= ord.qty THEN "FILLED" ELSE "PARTIALLY_FILLED"
<1>2. FilledBy(ord, x) \in OrderRecord
  <2>1. sum \in Nat
    BY <1>1
  <2>2. status \in OrderStatus
    BY DEF OrderStatus, LiveStates, TerminalStates
  <2>3. FilledBy(ord, x) = [ord EXCEPT !.filled = sum, !.status = status]
    BY DEF FilledBy
  <2> HIDE DEF sum, status
  <2> QED
    BY <2>1, <2>2, <2>3 DEF OrderRecord
<1>3. /\ FilledBy(ord, x).filled = ord.filled + x.qty
      /\ FilledBy(ord, x).qty = ord.qty
      /\ FilledBy(ord, x).status = IF ord.filled + x.qty >= ord.qty
                                   THEN "FILLED" ELSE "PARTIALLY_FILLED"
  BY DEF FilledBy, OrderRecord
<1> QED
  BY <1>1, <1>2, <1>3 DEF AddsUp

\* Opening, blending and reducing all leave a position of the right type.
LEMMA ApplyType ==
  ASSUME GInv, NEW ord \in OrderRecord, NEW x \in ExecutionRecord(ord),
         ApplyToPosition(ord, x)
  PROVE  /\ positions' \in [Instruments -> PositionRecord \union {NoPosition}]
         /\ realizedNet' \in Int
<1> DEFINE p == positions[ord.inst]
<1>1. /\ ord.inst \in Instruments /\ ord.side \in Sides
      /\ x.price \in Nat /\ x.qty \in Nat \ {0} /\ x.cost \in Nat
  BY DEF OrderRecord, ExecutionRecord
<1>2. /\ positions \in [Instruments -> PositionRecord \union {NoPosition}]
      /\ realizedNet \in Int
  BY DEF GInv, TypeOK
<1>3. p \in PositionRecord \union {NoPosition}
  BY <1>1, <1>2
<1>4. CASE ~IsOpen(p)
  <2>1. OpenedBy(ord, x) \in PositionRecord
    BY <1>1 DEF OpenedBy, PositionRecord
  <2> QED
    BY <1>1, <1>2, <1>4, <2>1 DEF ApplyToPosition
<1>5. CASE IsOpen(p)
  <2>1. p \in PositionRecord
    BY <1>3, <1>5 DEF IsOpen, NoPosition
  <2>2. /\ p.qty \in Nat \ {0} /\ p.avg \in Nat /\ p.entryCost \in Nat /\ p.net \in Int
        /\ p.side \in Sides
    BY <2>1 DEF PositionRecord
  <2>3. CASE p.side = ord.side
    <3> DEFINE blend == RoundHalfUp(p.avg * p.qty + x.price * x.qty, p.qty + x.qty)
    <3>1. blend \in Nat
      <4> HIDE DEF p
      <4>1. p.avg * p.qty \in Nat /\ x.price * x.qty \in Nat
        BY <1>1, <2>2
      <4>2. p.avg * p.qty + x.price * x.qty \in Nat
        BY <4>1
      <4>3. p.qty + x.qty \in Nat /\ p.qty + x.qty > 0
        BY <1>1, <2>2
      <4> QED
        BY <4>2, <4>3, RoundNat
    <3> HIDE DEF blend
    <3>2. BlendedWith(p, x) \in PositionRecord
      <4>1. BlendedWith(p, x) = [p EXCEPT !.qty = @ + x.qty, !.avg = blend,
                                          !.entryCost = @ + x.cost]
        BY DEF BlendedWith, blend
      <4>2. p.qty + x.qty \in Nat \ {0} /\ p.entryCost + x.cost \in Nat
        BY <1>1, <2>2
      <4> HIDE DEF p
      <4> QED
        BY <2>1, <3>1, <4>1, <4>2 DEF PositionRecord
    <3> QED
      BY <1>1, <1>2, <1>5, <2>3, <3>2 DEF ApplyToPosition
  <2>4. CASE p.side # ord.side
    <3> DEFINE closing == ClosingQuantity(p, x)
               share == EntryCostShare(p, closing)
               pnl == TradeNetPnl(p, x)
    <3>1. closing \in Nat /\ closing > 0 /\ closing <= p.qty /\ closing <= x.qty
      BY <1>1, <2>2 DEF ClosingQuantity
    <3> HIDE DEF closing
    <3>2. share \in Nat /\ share <= p.entryCost
      <4>1. p.entryCost * closing \in Nat
        BY <2>2, <3>1
      <4> QED
        BY <2>2, <3>1, <4>1, DivNat, DivAtMost DEF EntryCostShare
    <3>3. (x.cost * closing) \div x.qty \in Nat
      <4>1. x.cost * closing \in Nat
        BY <1>1, <3>1
      <4> QED
        BY <1>1, <4>1, DivNat
    <3>4. (IF p.side = "BUY" THEN x.price - p.avg ELSE p.avg - x.price) * closing \in Int
      BY <1>1, <2>2, <3>1
    <3>5. pnl \in Int
      BY <3>2, <3>3, <3>4 DEF TradeNetPnl, closing
    <3> HIDE DEF share, pnl
    <3>6. ReducedBy(p, x) =
            IF closing = p.qty
            THEN [p EXCEPT !.status = "CLOSED", !.net = p.net + pnl, !.entryCost = 0]
            ELSE [p EXCEPT !.qty = @ - closing, !.net = p.net + pnl,
                           !.entryCost = @ - share]
      BY DEF ReducedBy, closing, share, pnl
    <3>7. ReducedBy(p, x) \in PositionRecord
      <4> HIDE DEF p
      <4>1. p.net + pnl \in Int /\ p.entryCost - share \in Nat
        BY <2>2, <3>2, <3>5
      <4>2. CASE closing = p.qty
        <5> DEFINE net == p.net + pnl
        <5>1. ReducedBy(p, x) = [p EXCEPT !.status = "CLOSED", !.net = net, !.entryCost = 0]
          BY <3>6, <4>2
        <5>2. net \in Int /\ 0 \in Nat
          BY <4>1
        <5> HIDE DEF net
        <5> QED
          BY <2>1, <5>1, <5>2 DEF PositionRecord
      <4>3. CASE closing # p.qty
        <5>1. p.qty - closing \in Nat \ {0}
          BY <2>2, <3>1, <4>3
        <5> QED
          BY <2>1, <3>6, <4>1, <4>3, <5>1 DEF PositionRecord
      <4> QED
        BY <4>2, <4>3
    <3>8. /\ positions' = [positions EXCEPT ![ord.inst] = ReducedBy(p, x)]
          /\ realizedNet' = realizedNet + pnl
      BY <1>5, <2>4 DEF ApplyToPosition, pnl
    <3> QED
      BY <1>1, <1>2, <3>5, <3>7, <3>8
  <2> QED
    BY <2>3, <2>4
<1> QED
  BY <1>4, <1>5

AccountOK ==
  /\ cash \in Int /\ cash >= 0
  /\ positions \in [Instruments -> PositionRecord \union {NoPosition}]
  /\ realizedNet \in Int
  /\ fills \in Seq(FillRecord)

OrdersOK == orders \in [Orders -> OrderRecord \union {NoOrder}]

\* No call forgets an order.
Kept == \A q \in Orders : orders[q] # NoOrder => orders'[q] # NoOrder

LEMMA ExecuteStep ==
  ASSUME GInv, NEW o \in Orders, NEW ord \in OrderRecord,
         NEW x \in ExecutionRecord(ord), Affordable(ord, x), Execute(o, ord, x)
  PROVE  AccountOK' /\ OrdersOK' /\ Kept /\ StillAddsUp /\ orders'[o] # NoOrder
<1>1. /\ x.price \in Nat /\ x.qty \in Nat /\ x.cost \in Nat /\ x.cost <= x.price * x.qty
      /\ ord.inst \in Instruments /\ ord.side \in Sides
  BY DEF ExecutionRecord, OrderRecord
<1>2. cash' \in Int /\ cash' >= 0
  <2> DEFINE notional == x.price * x.qty
  <2>1. notional \in Nat
    BY <1>1
  <2>2. cash \in Int /\ cash >= 0
    BY DEF GInv, TypeOK, Solvent
  <2>3. ord.side = "SELL" \/ notional + x.cost <= cash
    BY DEF Affordable
  <2>4. cash' = IF ord.side = "BUY" THEN cash - (notional + x.cost)
                                    ELSE cash + (notional - x.cost)
    BY DEF Execute
  <2>5. x.cost <= notional
    BY <1>1
  <2> HIDE DEF notional
  <2>6. ord.side = "BUY" \/ ord.side = "SELL"
    BY <1>1 DEF Sides
  <2> QED
    BY <1>1, <2>1, <2>2, <2>3, <2>4, <2>5, <2>6
<1>3. OrdersOK' /\ Kept /\ StillAddsUp /\ orders'[o] # NoOrder
  BY FilledByType, OneOrder DEF Execute, OrdersOK, Kept
<1>4. positions' \in [Instruments -> PositionRecord \union {NoPosition}] /\ realizedNet' \in Int
  BY ApplyType DEF Execute
<1>5. fills' \in Seq(FillRecord)
  <2>1. [order |-> o, inst |-> ord.inst, side |-> ord.side, qty |-> x.qty,
         price |-> x.price] \in FillRecord
    BY <1>1 DEF FillRecord
  <2> QED
    BY <2>1, AppendProperties DEF Execute, GInv, TypeOK
<1> QED
  BY <1>2, <1>3, <1>4, <1>5 DEF AccountOK

LEMMA AccountUnchanged ==
  ASSUME GInv, UNCHANGED account
  PROVE  AccountOK'
  BY DEF GInv, TypeOK, Solvent, AccountOK, account

LEMMA OrdersUnchanged ==
  ASSUME GInv, UNCHANGED orders
  PROVE  OrdersOK' /\ Kept /\ StillAddsUp
  BY DEF GInv, TypeOK, OrdersAddUp, StillAddsUp, Submitted, OrdersOK, Kept

\* A new status; when the order is not filled up, it still adds up unless that is FILLED.
LEMMA NewStatus ==
  ASSUME GInv, NEW o \in Orders, NEW ord \in OrderRecord, NEW s \in OrderStatus,
         orders' = [orders EXCEPT ![o] = [ord EXCEPT !.status = s]]
  PROVE  /\ OrdersOK' /\ Kept /\ orders'[o] # NoOrder
         /\ ord.filled < ord.qty /\ s # "FILLED" => StillAddsUp
<1>1. [ord EXCEPT !.status = s] \in OrderRecord
  BY DEF OrderRecord
<1>2. ord.filled < ord.qty /\ s # "FILLED" => AddsUp([ord EXCEPT !.status = s])
  BY DEF AddsUp, OrderRecord
<1> QED
  BY <1>1, <1>2, OneOrder DEF OrdersOK, Kept

LEMMA RejectStep ==
  ASSUME GInv, NEW o \in Orders, NEW ord \in OrderRecord, ord.filled < ord.qty,
         RejectForFunds(o, ord)
  PROVE  AccountOK' /\ OrdersOK' /\ Kept /\ StillAddsUp /\ orders'[o] # NoOrder
<1>1. "REJECTED" \in OrderStatus
  BY DEF OrderStatus, TerminalStates
<1> QED
  BY <1>1, NewStatus, AccountUnchanged DEF RejectForFunds

\* What is left of GInv' once account and orders are dealt with.
LEMMA Assemble ==
  ASSUME GInv, AccountOK', OrdersOK', Kept,
         latest' \in [Instruments -> Nat],
         ticking' \in Instruments \union {NoInstrument},
         book' \in Seq(Orders), todo' \in Seq(Orders),
         \A n \in 1..Len(book') : orders'[book'[n]] # NoOrder,
         \A n \in 1..Len(todo') : orders'[todo'[n]] # NoOrder
  PROVE  GInv'
  BY DEF GInv, TypeOK, Solvent, Walked, AccountOK, OrdersOK

\* A call that walks over nothing new.
LEMMA AssembleQuiet ==
  ASSUME GInv, AccountOK', OrdersOK', Kept, UNCHANGED <<book, latest, ticking, todo>>
  PROVE  GInv'
<1>1. /\ latest \in [Instruments -> Nat] /\ ticking \in Instruments \union {NoInstrument}
      /\ book \in Seq(Orders) /\ todo \in Seq(Orders)
  BY DEF GInv, TypeOK
<1>2. \A n \in 1..Len(book) : book[n] \in Orders /\ orders[book[n]] # NoOrder
  BY <1>1 DEF GInv, Walked
<1>3. \A n \in 1..Len(todo) : todo[n] \in Orders /\ orders[todo[n]] # NoOrder
  BY <1>1 DEF GInv, Walked
<1> QED
  BY <1>1, <1>2, <1>3, Assemble DEF Kept

-----------------------------------------------------------------------------
(* One lemma per call.                                                     *)

LEMMA SubmitStep ==
  ASSUME GInv, NEW o \in Orders, NEW intent \in Intents, Submit(o, intent)
  PROVE  GInv' /\ StillAddsUp
<1> DEFINE ord == Pending(intent)
           x == Execution(ord, latest[ord.inst], FALSE, FALSE)
<1>1. intent \in OrderIntent
  BY ConstantsAssumption DEF IsValidIntent
<1>2. ord \in OrderRecord /\ ord.filled < ord.qty /\ ord.status = "PENDING"
  BY <1>1 DEF Pending, OrderIntent, OrderRecord, OrderStatus, LiveStates
<1>3. /\ latest \in [Instruments -> Nat] /\ ticking \in Instruments \union {NoInstrument}
      /\ book \in Seq(Orders) /\ todo \in Seq(Orders)
  BY DEF GInv, TypeOK
<1>4. ord.inst \in Instruments
  BY <1>2 DEF OrderRecord
<1>5. x \in ExecutionRecord(ord)
  BY <1>2, <1>3, <1>4, ExecutionType
<1>6. AccountOK' /\ OrdersOK' /\ Kept /\ StillAddsUp /\ orders'[o] # NoOrder
  <2>1. CASE intent.type # "MARKET" /\ orders' = [orders EXCEPT ![o] = ord] /\ UNCHANGED account
    <3>1. AddsUp(ord)
      BY <1>2 DEF AddsUp, OrderRecord
    <3> HIDE DEF ord
    <3> QED
      BY <1>2, <2>1, <3>1, OneOrder, AccountUnchanged DEF OrdersOK, Kept
  <2>2. CASE /\ orders' = [orders EXCEPT ![o] = [ord EXCEPT !.status = "REJECTED"]]
             /\ UNCHANGED account
    <3>1. "REJECTED" \in OrderStatus
      BY DEF OrderStatus, TerminalStates
    <3> HIDE DEF ord
    <3> QED
      BY <1>2, <2>2, <3>1, NewStatus, AccountUnchanged
  <2>3. CASE Affordable(ord, x) /\ Execute(o, ord, x)
    <3> HIDE DEF ord, x
    <3> QED
      BY <1>2, <1>5, <2>3, ExecuteStep
  <2>4. CASE RejectForFunds(o, ord)
    <3> HIDE DEF ord
    <3> QED
      BY <1>2, <2>4, RejectStep
  <2> QED
    BY <2>1, <2>2, <2>3, <2>4 DEF Submit
<1>7. book' = Append(book, o) /\ UNCHANGED <<latest, ticking, todo>>
  BY DEF Submit
<1>8. book' \in Seq(Orders) /\ \A n \in 1..Len(book') : orders'[book'[n]] # NoOrder
  <2>1. book' \in Seq(Orders) /\ Len(book') = Len(book) + 1
    BY <1>3, <1>7, AppendProperties
  <2>2. \A n \in 1..Len(book) : book[n] \in Orders /\ orders[book[n]] # NoOrder
    BY <1>3 DEF GInv, Walked
  <2>3. \A n \in 1..Len(book') : book'[n] = IF n <= Len(book) THEN book[n] ELSE o
    BY <1>3, <1>7, <2>1, AppendProperties
  <2> QED
    BY <1>3, <1>6, <2>1, <2>2, <2>3 DEF Kept
<1>9. \A n \in 1..Len(todo) : todo[n] \in Orders /\ orders[todo[n]] # NoOrder
  BY <1>3 DEF GInv, Walked
<1> QED
  BY <1>3, <1>6, <1>7, <1>8, <1>9, Assemble DEF Kept

LEMMA CancelStep ==
  ASSUME GInv, NEW o \in Orders, Cancel(o)
  PROVE  GInv' /\ StillAddsUp
<1>1. orders[o] \in OrderRecord /\ (OrdersAddUp => AddsUp(orders[o]))
  BY SubmittedRecord DEF Cancel
<1>2. orders[o].status # "FILLED"
  BY DEF Cancel, MayTransition, AllowedTransitions, OrderStatus, TerminalStates
<1>3. OrdersAddUp => orders[o].filled < orders[o].qty
  BY <1>1, <1>2 DEF AddsUp, OrderRecord
<1>4. orders' = [orders EXCEPT ![o] = [orders[o] EXCEPT !.status = "CANCELLED"]]
  BY DEF Cancel
<1>5. "CANCELLED" \in OrderStatus
  BY DEF OrderStatus, TerminalStates
<1>6. OrdersOK' /\ Kept /\ StillAddsUp
  BY <1>1, <1>3, <1>4, <1>5, NewStatus DEF StillAddsUp
<1> QED
  BY <1>6, AccountUnchanged, AssembleQuiet DEF Cancel

LEMMA ExpireStep ==
  ASSUME GInv, ForceExpireEndOfSession
  PROVE  GInv' /\ StillAddsUp
<1> DEFINE expired(o) == [orders[o] EXCEPT !.status = "EXPIRED"]
<1>1. \A o \in Orders : orders'[o] = IF orders[o].status \in RestingStates
                                     THEN expired(o) ELSE orders[o]
  BY DEF ForceExpireEndOfSession
<1>2. ASSUME NEW o \in Orders, orders[o].status \in RestingStates
      PROVE  expired(o) \in OrderRecord /\ (OrdersAddUp => AddsUp(expired(o)))
  <2>1. orders[o] # NoOrder
    BY <1>2 DEF RestingStates, NoOrder
  <2>2. orders[o] \in OrderRecord /\ (OrdersAddUp => AddsUp(orders[o]))
    BY <2>1, SubmittedRecord
  <2>3. "EXPIRED" \in OrderStatus
    BY DEF OrderStatus, TerminalStates
  <2> QED
    BY <1>2, <2>2, <2>3 DEF OrderRecord, AddsUp, RestingStates
<1>3. \A o \in Orders : orders[o] \in OrderRecord \union {NoOrder}
  BY DEF GInv, TypeOK
<1> HIDE DEF expired
<1>4. orders' \in [Orders -> OrderRecord \union {NoOrder}]
  <2>1. \A o \in Orders : orders'[o] \in OrderRecord \union {NoOrder}
    BY <1>1, <1>2, <1>3
  <2> QED
    BY <2>1 DEF ForceExpireEndOfSession
<1>5. Kept
  BY <1>1, <1>2, OrderRecordReal DEF Kept
<1>6. StillAddsUp
  <2>1. ASSUME OrdersAddUp, NEW o \in Orders, orders'[o] # NoOrder
        PROVE  AddsUp(orders'[o])
    BY <1>1, <1>2, <2>1, SubmittedRecord
  <2> QED
    BY <2>1 DEF StillAddsUp, OrdersAddUp, Submitted, AddsUp
<1> QED
  BY <1>4, <1>5, <1>6, AccountUnchanged, AssembleQuiet DEF ForceExpireEndOfSession, OrdersOK

LEMMA RecordPriceStep ==
  ASSUME GInv, NEW i \in Instruments, NEW price \in Prices, RecordPrice(i, price)
  PROVE  GInv' /\ StillAddsUp
<1>1. price \in Nat
  BY ConstantsAssumption
<1>2. /\ latest \in [Instruments -> Nat] /\ book \in Seq(Orders)
      /\ \A n \in 1..Len(book) : orders[book[n]] # NoOrder
  BY DEF GInv, TypeOK, Walked
<1>3. OrdersOK' /\ Kept /\ StillAddsUp /\ AccountOK'
  BY OrdersUnchanged, AccountUnchanged DEF RecordPrice
<1> QED
  BY <1>1, <1>2, <1>3, Assemble DEF RecordPrice

LEMMA TickDoneStep ==
  ASSUME GInv, TickDone
  PROVE  GInv' /\ StillAddsUp
<1>1. /\ latest \in [Instruments -> Nat] /\ book \in Seq(Orders) /\ todo \in Seq(Orders)
      /\ \A n \in 1..Len(book) : orders[book[n]] # NoOrder
      /\ \A n \in 1..Len(todo) : orders[todo[n]] # NoOrder
  BY DEF GInv, TypeOK, Walked
<1>2. OrdersOK' /\ Kept /\ StillAddsUp /\ AccountOK'
  BY OrdersUnchanged, AccountUnchanged DEF TickDone
<1> QED
  BY <1>1, <1>2, Assemble DEF TickDone

LEMMA TickOrderStep ==
  ASSUME GInv, TickOrder
  PROVE  GInv' /\ StillAddsUp
<1> DEFINE o == Head(todo)
           ord == orders[o]
           price == latest[ticking]
           x == RestingExecution(ord, price)
<1>1. /\ latest \in [Instruments -> Nat] /\ ticking \in Instruments
      /\ book \in Seq(Orders) /\ todo \in Seq(Orders) /\ todo # <<>>
      /\ UNCHANGED <<book, latest>>
  BY DEF GInv, TypeOK, TickOrder, Quiet
<1>2. /\ \A n \in 1..Len(book) : book[n] \in Orders /\ orders[book[n]] # NoOrder
      /\ \A n \in 1..Len(todo) : todo[n] \in Orders /\ orders[todo[n]] # NoOrder
  BY <1>1 DEF GInv, Walked
<1>3. /\ Tail(todo) \in Seq(Orders)
      /\ Len(Tail(todo)) = Len(todo) - 1
      /\ \A n \in 1..Len(Tail(todo)) : Tail(todo)[n] = todo[n + 1]
  BY <1>1, HeadTailProperties
<1>4. o \in Orders /\ ord # NoOrder
  BY <1>1, <1>2
<1>5. ord \in OrderRecord /\ (OrdersAddUp => AddsUp(ord))
  BY <1>4, SubmittedRecord
<1>6. AccountOK' /\ OrdersOK' /\ Kept /\ StillAddsUp /\ ticking' \in {ticking, NoInstrument}
      /\ todo' \in {<<>>, Tail(todo)}
  <2>1. CASE Raises(ord, price)
    BY <2>1, OrdersUnchanged, AccountUnchanged DEF TickOrder
  <2>2. CASE Looked(ord) /\ ~Raises(ord, price) /\ ~RaisesAfterFilling(ord, price)
             /\ Executable(ord, price)
    <3>1. ord.filled < ord.qty
      BY <1>5, <2>2 DEF Raises, RaisesAfterFilling, Remaining, OrderRecord
    <3>2. x \in ExecutionRecord(ord)
      <4>1. price \in Nat /\ ord.limit \in Nat /\ ord.type \in OrderTypes
        BY <1>1, <1>5 DEF OrderRecord
      <4> HIDE DEF price, ord
      <4> QED
        BY <1>5, <3>1, <4>1, ExecutionType DEF RestingExecution, OrderTypes
    <3>3. /\ todo' = Tail(todo) /\ UNCHANGED ticking
          /\ IF Affordable(ord, x) THEN Execute(o, ord, x) ELSE RejectForFunds(o, ord)
      BY <2>2 DEF TickOrder
    <3> HIDE DEF o, ord, x
    <3> QED
      BY <1>4, <1>5, <3>1, <3>2, <3>3, ExecuteStep, RejectStep
  <2>3. CASE ~(Looked(ord) /\ Executable(ord, price)) /\ ~Raises(ord, price)
    <3>1. /\ todo' = Tail(todo) /\ UNCHANGED <<ticking, orders, account>>
      BY <2>3 DEF TickOrder, RaisesAfterFilling
    <3> QED
      BY <3>1, OrdersUnchanged, AccountUnchanged
  <2>4. CASE RaisesAfterFilling(ord, price) /\ ~Raises(ord, price)
    <3>1. /\ todo' = <<>> /\ ticking' = NoInstrument /\ UNCHANGED account
          /\ orders' = [orders EXCEPT ![o] = [ord EXCEPT !.status = "FILLED"]]
      BY <2>4 DEF TickOrder
    <3>2. ~OrdersAddUp
      BY <1>5, <2>4 DEF RaisesAfterFilling, Looked, RestingStates, AddsUp, OrderRecord,
                        Remaining
    <3>3. "FILLED" \in OrderStatus
      BY DEF OrderStatus, TerminalStates
    <3> HIDE DEF o, ord
    <3> QED
      BY <1>4, <1>5, <3>1, <3>2, <3>3, NewStatus, AccountUnchanged DEF StillAddsUp
  <2> HIDE DEF ord, price
  <2> QED
    BY <2>1, <2>2, <2>3, <2>4
<1>7. ticking' \in Instruments \union {NoInstrument}
  BY <1>1, <1>6
<1>8. todo' \in Seq(Orders) /\ \A n \in 1..Len(todo') : orders'[todo'[n]] # NoOrder
  <2>1. CASE todo' = <<>>
    BY <2>1
  <2>2. CASE todo' = Tail(todo)
    <3>1. \A n \in 1..Len(Tail(todo)) : n + 1 \in 1..Len(todo)
      BY <1>1, <1>3
    <3> QED
      BY <1>2, <1>3, <1>6, <2>2, <3>1 DEF Kept
  <2> QED
    BY <1>6, <2>1, <2>2
<1> QED
  BY <1>1, <1>2, <1>6, <1>7, <1>8, Assemble DEF Kept

\* modify_order: the amended intent is still one OrderIntent accepts.
LEMMA ModifyStep ==
  ASSUME GInv, NEW o \in Orders, NEW a \in Amendments, Modify(o, a)
  PROVE  GInv'
<1> DEFINE ord == orders[o]
           limit == IF a.limit > 0 THEN a.limit ELSE ord.limit
           trigger == IF a.trigger > 0 THEN a.trigger ELSE ord.trigger
           qty == IF a.qty > 0 THEN a.qty ELSE ord.qty
           r == [ord EXCEPT !.limit = limit, !.trigger = trigger, !.qty = qty]
<1>1. ord \in OrderRecord
  BY SubmittedRecord DEF Modify
<1>2. limit \in Nat /\ trigger \in Nat /\ qty \in Nat \ {0}
  BY <1>1, ConstantsAssumption DEF OrderRecord
<1>3. orders' = [orders EXCEPT ![o] = r]
  BY DEF Modify, GInv, TypeOK
<1>4. r \in OrderRecord
  <2> HIDE DEF limit, trigger, qty, ord
  <2> QED
    BY <1>1, <1>2 DEF OrderRecord
<1> HIDE DEF r
<1>5. OrdersOK' /\ Kept
  BY <1>3, <1>4, OneOrder DEF OrdersOK, Kept
<1> QED
  BY <1>5, AccountUnchanged, AssembleQuiet DEF Modify

-----------------------------------------------------------------------------
LEMMA Initial ==
  ASSUME Init
  PROVE  IInv
<1>1. InitialCapital \in Nat
  BY ConstantsAssumption
<1>2. orders \in [Orders -> OrderRecord \union {NoOrder}]
  BY DEF Init
<1>3. <<>> \in Seq(Orders) /\ <<>> \in Seq(FillRecord) /\ Len(<<>>) = 0
  OBVIOUS
<1> QED
  BY <1>1, <1>2, <1>3 DEF Init, IInv, GInv, TypeOK, Solvent, OrdersAddUp, Submitted, Walked

LEMMA PlatformStep ==
  ASSUME GInv, [Next]_vars
  PROVE  GInv' /\ StillAddsUp
<1>1. CASE UNCHANGED vars
  BY <1>1 DEF vars, GInv, TypeOK, Solvent, OrdersAddUp, StillAddsUp, Submitted, Walked
<1>2. CASE \E o \in Orders, intent \in Intents : Submit(o, intent)
  BY <1>2, SubmitStep
<1>3. CASE \E o \in Orders : Cancel(o)
  BY <1>3, CancelStep
<1>4. CASE ForceExpireEndOfSession
  BY <1>4, ExpireStep
<1>5. CASE \E i \in Instruments, price \in Prices : RecordPrice(i, price)
  BY <1>5, RecordPriceStep
<1>6. CASE TickOrder
  BY <1>6, TickOrderStep
<1>7. CASE TickDone
  BY <1>7, TickDoneStep
<1> QED
  BY <1>1, <1>2, <1>3, <1>4, <1>5, <1>6, <1>7 DEF Next

LEMMA GatewayStep ==
  ASSUME GInv, [GatewayNext]_vars
  PROVE  GInv'
  BY PlatformStep, ModifyStep DEF GatewayNext

LEMMA Inductive ==
  ASSUME IInv, [Next]_vars
  PROVE  IInv'
  BY PlatformStep DEF IInv, StillAddsUp

\* What the orders, the positions and the account of the broker are after any steps of the
\* platform.
THEOREM Invariance == Spec => []IInv
<1>1. Init => IInv
  BY Initial
<1>2. IInv /\ [Next]_vars => IInv'
  BY Inductive
<1> QED
  BY <1>1, <1>2, PTL DEF Spec

LEMMA GatewayInvariance == GatewaySpec => []GInv
<1>1. Init => GInv
  BY Initial DEF IInv
<1>2. GInv /\ [GatewayNext]_vars => GInv'
  BY GatewayStep
<1> QED
  BY <1>1, <1>2, PTL DEF GatewaySpec

\* What holds under every call of the gateway holds under those of the platform.
LEMMA PlatformIsGateway == Spec => GatewaySpec
<1>1. [Next]_vars => [GatewayNext]_vars
  BY DEF GatewayNext
<1> QED
  BY <1>1, PTL DEF Spec, GatewaySpec

\* Every broker attribute keeps its type, whatever the calls, modify_order included.
THEOREM TypeCorrect == GatewaySpec => []TypeOK
  BY GatewayInvariance, PTL DEF GInv

\* The account is never overdrawn: a fill of an order that rested while others spent the
\* balance, or that modify_order made larger, is still checked, and a sale never costs
\* more than it brings in.
THEOREM NeverOverdrawn == GatewaySpec => []Solvent
  BY GatewayInvariance, PTL DEF GInv

\* No order fills beyond its quantity, and FILLED means exactly its quantity, however the
\* fill ratio and the quantity quantum round.
THEOREM NeverOverfilled == Spec => []OrdersAddUp
  BY Invariance, PTL DEF IInv

-----------------------------------------------------------------------------
(* Terminal orders, under every call of the gateway, modify_order included. *)

OrdersIsFunction == orders = [q \in Orders |-> orders[q]]

Final(q) == /\ orders'[q].status = orders[q].status
            /\ orders'[q].filled = orders[q].filled

FinalStep == \A q \in Submitted : IsTerminal(orders[q].status) => Final(q)

LEMMA RestingIsNotTerminal ==
  ASSUME NEW s \in RestingStates
  PROVE  ~IsTerminal(s)
  BY DEF RestingStates, IsTerminal, TerminalStates

\* A step that touches one order only, and that one not terminal.
LEMMA OthersFinal ==
  ASSUME OrdersIsFunction, NEW o, NEW r, orders' = [orders EXCEPT ![o] = r],
         o \in Submitted => ~IsTerminal(orders[o].status)
  PROVE  OrdersIsFunction' /\ FinalStep
<1>1. \A q \in Orders : q # o => orders'[q] = orders[q]
  BY DEF OrdersIsFunction
<1> QED
  BY <1>1 DEF OrdersIsFunction, FinalStep, Final, Submitted

LEMMA TerminalStep ==
  ASSUME OrdersIsFunction, [GatewayNext]_vars
  PROVE  OrdersIsFunction' /\ FinalStep
<1>1. ASSUME NEW o \in Orders, NEW intent \in Intents, Submit(o, intent)
      PROVE  OrdersIsFunction' /\ FinalStep
  <2>1. o \notin Submitted
    BY <1>1 DEF Submit, Submitted
  <2>2. PICK r : orders' = [orders EXCEPT ![o] = r]
    BY <1>1 DEF Submit, Execute, RejectForFunds
  <2> QED
    BY <2>1, <2>2, OthersFinal
<1>2. ASSUME NEW o \in Orders, Cancel(o)
      PROVE  OrdersIsFunction' /\ FinalStep
  <2>1. ~IsTerminal(orders[o].status)
    BY <1>2 DEF Cancel, MayTransition, AllowedTransitions, OrderStatus, TerminalStates,
                IsTerminal
  <2>2. orders' = [orders EXCEPT ![o] = [orders[o] EXCEPT !.status = "CANCELLED"]]
    BY <1>2 DEF Cancel
  <2> QED
    BY <2>1, <2>2, OthersFinal
<1>3. CASE ForceExpireEndOfSession
  <2>1. OrdersIsFunction'
    BY <1>3 DEF ForceExpireEndOfSession, OrdersIsFunction
  <2>2. \A q \in Orders : IsTerminal(orders[q].status) => orders'[q] = orders[q]
    BY <1>3, RestingIsNotTerminal DEF ForceExpireEndOfSession
  <2> QED
    BY <2>1, <2>2 DEF FinalStep, Final, Submitted
<1>4. ASSUME UNCHANGED orders
      PROVE  OrdersIsFunction' /\ FinalStep
  BY <1>4 DEF OrdersIsFunction, FinalStep, Final
<1>5. CASE TickOrder
  <2> DEFINE o == Head(todo)
  <2>1. CASE UNCHANGED orders
    BY <2>1, <1>4
  <2>2. CASE ~(UNCHANGED orders)
    <3>1. Looked(orders[o])
      BY <1>5, <2>2 DEF TickOrder, RaisesAfterFilling, Raises
    <3>2. ~IsTerminal(orders[o].status)
      BY <3>1, RestingIsNotTerminal DEF Looked
    <3>3. PICK r : orders' = [orders EXCEPT ![o] = r]
      BY <1>5, <2>2 DEF TickOrder, Execute, RejectForFunds
    <3> QED
      BY <3>2, <3>3, OthersFinal
  <2> QED
    BY <2>1, <2>2
<1>6. ASSUME NEW o \in Orders, NEW a \in Amendments, Modify(o, a)
      PROVE  OrdersIsFunction' /\ FinalStep
  <2>1. OrdersIsFunction'
    BY <1>6 DEF Modify, OrdersIsFunction
  <2>2. \A q \in Orders : Final(q)
    BY <1>6 DEF Modify, Final, OrdersIsFunction
  <2> QED
    BY <2>1, <2>2 DEF FinalStep, Submitted
<1> QED
  BY <1>1, <1>2, <1>3, <1>4, <1>5, <1>6
  DEF GatewayNext, Next, RecordPrice, TickDone, vars

\* A terminal order never changes status or filled quantity again.
THEOREM TerminalStaysFinal == GatewaySpec => TerminalIsFinal
<1>1. Init => OrdersIsFunction
  BY DEF Init, OrdersIsFunction
<1>2. OrdersIsFunction /\ [GatewayNext]_vars => OrdersIsFunction'
  BY TerminalStep
<1>3. OrdersIsFunction /\ [GatewayNext]_vars
        => [\A o \in Submitted :
              IsTerminal(orders[o].status)
                => orders'[o].status = orders[o].status /\ orders'[o].filled = orders[o].filled]_vars
  BY TerminalStep DEF FinalStep, Final
<1> QED
  BY <1>1, <1>2, <1>3, PTL DEF GatewaySpec, TerminalIsFinal

-----------------------------------------------------------------------------
(* Limits, under every call of the gateway.                                *)

\* The clamp of _attempt_fill, whatever slippage made of the reference price.
LEMMA ClampedPrice ==
  ASSUME NEW ord \in OrderRecord
  PROVE  AtLeastAsGood(ord.side, FillPrice(ord, ord.limit, TRUE), ord.limit)
<1>1. ord.side \in Sides /\ ord.limit \in Nat
  BY DEF OrderRecord
<1>2. Slipped(ord.side, ord.limit) \in Nat
  BY <1>1, SlippedNat
<1> QED
  BY <1>1, <1>2 DEF FillPrice, AtLeastAsGood, Sides

LimitHolds ==
  LET f   == fills'[Len(fills')]
      ord == orders'[f.order]
  IN ord.type \in {"LIMIT", "STOP_LOSS"} => AtLeastAsGood(ord.side, f.price, ord.limit)

\* An execution that is no LIMIT order's, or that respects the limit.
LEMMA LimitHeld ==
  ASSUME GInv, NEW o \in Orders, NEW ord \in OrderRecord, NEW x, Execute(o, ord, x),
         ord.type \in {"LIMIT", "STOP_LOSS"} => AtLeastAsGood(ord.side, x.price, ord.limit)
  PROVE  LimitHolds
<1>1. fills \in Seq(FillRecord) /\ orders \in [Orders -> OrderRecord \union {NoOrder}]
  BY DEF GInv, TypeOK
<1> DEFINE f == [order |-> o, inst |-> ord.inst, side |-> ord.side, qty |-> x.qty,
                 price |-> x.price]
<1>2. fills' = Append(fills, f) /\ orders'[o] = FilledBy(ord, x)
  BY <1>1 DEF Execute
<1>3. fills'[Len(fills')] = f
  BY <1>1, <1>2
<1>4. /\ FilledBy(ord, x).type = ord.type /\ FilledBy(ord, x).side = ord.side
      /\ FilledBy(ord, x).limit = ord.limit
  BY DEF FilledBy, OrderRecord
<1> QED
  BY <1>2, <1>3, <1>4 DEF LimitHolds

LEMMA LimitStep ==
  ASSUME GInv, [GatewayNext]_vars, Len(fills') > Len(fills)
  PROVE  LimitHolds
<1>0. Len(fills) \in Nat
  BY DEF GInv, TypeOK
<1>1. fills' # fills
  BY <1>0
<1>2. ASSUME NEW o \in Orders, NEW intent \in Intents, Submit(o, intent)
      PROVE  LimitHolds
  <2> DEFINE ord == Pending(intent)
             x == Execution(ord, latest[ord.inst], FALSE, FALSE)
  <2>1. intent.type = "MARKET" /\ Execute(o, ord, x)
    BY <1>1, <1>2 DEF Submit, RejectForFunds, account
  <2>2. intent \in OrderIntent
    BY ConstantsAssumption DEF IsValidIntent
  <2>3. ord \in OrderRecord /\ ord.type = "MARKET"
    BY <2>1, <2>2 DEF Pending, OrderIntent, OrderRecord, OrderStatus, LiveStates
  <2> HIDE DEF ord, x
  <2> QED
    BY <2>1, <2>3, LimitHeld
<1>3. CASE TickOrder
  <2> DEFINE o == Head(todo)
             ord == orders[o]
             x == RestingExecution(ord, latest[ticking])
  <2>1. Execute(o, ord, x) /\ todo # <<>>
    BY <1>1, <1>3 DEF TickOrder, RejectForFunds, account
  <2>2. o \in Orders /\ ord # NoOrder
    <3>1. todo \in Seq(Orders) /\ 1 \in 1..Len(todo) /\ o = todo[1]
      BY <2>1 DEF GInv, TypeOK
    <3> QED
      BY <3>1 DEF GInv, Walked
  <2>3. ord \in OrderRecord
    BY <2>2, SubmittedRecord
  <2> HIDE DEF o, ord
  <2>4. ord.type \in {"LIMIT", "STOP_LOSS"} => AtLeastAsGood(ord.side, x.price, ord.limit)
    BY <2>3, ClampedPrice DEF RestingExecution, Execution
  <2> HIDE DEF x
  <2> QED
    BY <2>1, <2>2, <2>3, <2>4, LimitHeld
<1> QED
  BY <1>1, <1>2, <1>3
  DEF GatewayNext, Next, Cancel, ForceExpireEndOfSession, RecordPrice, TickDone, Modify,
      account, vars

\* A LIMIT or STOP_LOSS order never fills at a price worse than its limit, with any
\* slippage and whatever modify_order made of the limit while the order rested.
THEOREM LimitsRespected == GatewaySpec => LimitNeverWorse
<1>1. GInv /\ [GatewayNext]_vars
        => [Len(fills') > Len(fills) =>
              LET f   == fills'[Len(fills')]
                  ord == orders'[f.order]
              IN ord.type \in {"LIMIT", "STOP_LOSS"}
                   => AtLeastAsGood(ord.side, f.price, ord.limit)]_vars
  BY LimitStep DEF LimitHolds
<1> QED
  BY <1>1, GatewayInvariance, PTL DEF GatewaySpec, LimitNeverWorse

-----------------------------------------------------------------------------
(* record_price misses no order.                                           *)

\* The recorded price executes this untouched order.
Waiting(q) ==
  /\ orders[q] # NoOrder
  /\ orders[q].inst = ticking
  /\ orders[q].status = "PENDING"
  /\ Executable(orders[q], latest[ticking])

InBook(q) == \E n \in 1..Len(book) : book[n] = q
InTodo(q) == \E n \in 1..Len(todo) : todo[n] = q

\* Every order is in the book record_price copies, and an order the price executes is
\* still to be looked at.
WalkInv ==
  /\ \A q \in Orders : orders[q] # NoOrder => InBook(q)
  /\ ~Quiet => \A q \in Orders : Waiting(q) => InTodo(q)

LEMMA WalkQuiet ==
  ASSUME WalkInv, Quiet, Quiet', book' = book,
         \A q \in Orders : orders'[q] # NoOrder => orders[q] # NoOrder
  PROVE  WalkInv'
  BY DEF WalkInv, InBook

LEMMA WalkTickOrder ==
  ASSUME GInv, WalkInv, TickOrder
  PROVE  WalkInv'
<1>1. /\ todo \in Seq(Orders) /\ todo # <<>> /\ ~Quiet /\ UNCHANGED <<book, latest>>
      /\ orders \in [Orders -> OrderRecord \union {NoOrder}]
  BY DEF GInv, TypeOK, TickOrder
<1>2. PICK o \in Orders : o = Head(todo) /\ orders[o] # NoOrder
  <2>1. Head(todo) \in Orders /\ 1 \in 1..Len(todo) /\ Head(todo) = todo[1]
    BY <1>1
  <2> QED
    BY <1>1, <2>1 DEF GInv, Walked
<1> DEFINE ord == orders[o]
           x == RestingExecution(ord, latest[ticking])
<1>3. \A q \in Orders : q # o => orders'[q] = orders[q]
  BY <1>1, <1>2 DEF TickOrder, Execute, RejectForFunds
<1>4. \A q \in Orders : orders'[q] # NoOrder => InBook(q)
  BY <1>2, <1>3 DEF WalkInv
<1>5. CASE Quiet'
  BY <1>1, <1>4, <1>5 DEF WalkInv, InBook
<1>6. CASE ~Quiet'
  <2>1. todo' = Tail(todo) /\ UNCHANGED ticking
    BY <1>6 DEF TickOrder, Quiet
  <2>2. IF Looked(ord) /\ Executable(ord, latest[ticking])
        THEN Execute(o, ord, x) \/ RejectForFunds(o, ord)
        ELSE UNCHANGED orders
    BY <1>2, <1>6 DEF TickOrder, Quiet
  <2>3. ~(Waiting(o)')
    <3>1. CASE ~(Looked(ord) /\ Executable(ord, latest[ticking]))
      BY <1>1, <2>1, <2>2, <3>1 DEF Waiting, Looked, RestingStates
    <3>2. CASE RejectForFunds(o, ord)
      <4>1. ord \in OrderRecord
        BY <1>2, SubmittedRecord
      <4> HIDE DEF ord
      <4>2. orders'[o] = [ord EXCEPT !.status = "REJECTED"]
        BY <1>1, <1>2, <3>2 DEF RejectForFunds
      <4>3. orders'[o].status = "REJECTED"
        BY <4>1, <4>2 DEF OrderRecord
      <4> QED
        BY <4>3 DEF Waiting
    <3>3. CASE Execute(o, ord, x)
      <4>1. ord \in OrderRecord
        BY <1>2, SubmittedRecord
      <4> HIDE DEF ord, x
      <4>2. orders'[o] = FilledBy(ord, x)
        BY <1>1, <1>2, <3>3 DEF Execute
      <4>3. FilledBy(ord, x).status \in {"FILLED", "PARTIALLY_FILLED"}
        BY <4>1 DEF FilledBy, OrderRecord
      <4> QED
        BY <4>2, <4>3 DEF Waiting
    <3> QED
      BY <2>2, <3>1, <3>2, <3>3
  <2>4. ASSUME NEW q \in Orders, Waiting(q)'
        PROVE  InTodo(q)'
    <3>1. q # o
      BY <2>3, <2>4
    <3>2. Waiting(q)
      BY <1>1, <1>3, <2>1, <2>4, <3>1 DEF Waiting
    <3>3. PICK n \in 1..Len(todo) : todo[n] = q
      BY <1>1, <3>2 DEF WalkInv, InTodo
    <3>4. n # 1 /\ n - 1 \in 1..Len(Tail(todo)) /\ Tail(todo)[n - 1] = q
      BY <1>1, <1>2, <3>1, <3>3
    <3> QED
      BY <2>1, <3>4 DEF InTodo
  <2> QED
    BY <1>1, <1>4, <2>4 DEF WalkInv, InBook
<1> QED
  BY <1>5, <1>6

LEMMA WalkStep ==
  ASSUME GInv, WalkInv, [GatewayNext]_vars
  PROVE  WalkInv'
<1>0. /\ orders \in [Orders -> OrderRecord \union {NoOrder}] /\ book \in Seq(Orders)
  BY DEF GInv, TypeOK
<1>1. ASSUME NEW o \in Orders, NEW intent \in Intents, Submit(o, intent)
      PROVE  WalkInv'
  <2>1. /\ book' = Append(book, o) /\ Quiet /\ Quiet'
        /\ \A q \in Orders : q # o => orders'[q] = orders[q]
    BY <1>0, <1>1 DEF Submit, Execute, RejectForFunds, Quiet
  <2>2. /\ Len(book') = Len(book) + 1 /\ book'[Len(book) + 1] = o
        /\ \A n \in 1..Len(book) : book'[n] = book[n]
    BY <1>0, <2>1
  <2>3. ASSUME NEW q \in Orders, orders'[q] # NoOrder
        PROVE  InBook(q)'
    <3>1. CASE q = o
      <4>1. Len(book) + 1 \in 1..Len(book')
        BY <1>0, <2>2
      <4> QED
        BY <2>2, <3>1, <4>1 DEF InBook
    <3>2. CASE q # o
      <4>1. PICK n \in 1..Len(book) : book[n] = q
        BY <2>1, <2>3, <3>2 DEF WalkInv, InBook
      <4>2. n \in 1..Len(book')
        BY <1>0, <2>2
      <4> QED
        BY <2>2, <4>1, <4>2 DEF InBook
    <3> QED
      BY <3>1, <3>2
  <2> QED
    BY <2>1, <2>3 DEF WalkInv
<1>2. ASSUME NEW o \in Orders, Cancel(o)
      PROVE  WalkInv'
  BY <1>0, <1>2, WalkQuiet DEF Cancel, Quiet
<1>3. CASE ForceExpireEndOfSession
  <2>1. \A q \in Orders : orders'[q] # NoOrder => orders[q] # NoOrder
    BY <1>3 DEF ForceExpireEndOfSession, NoOrder, RestingStates
  <2> QED
    BY <1>3, <2>1, WalkQuiet DEF ForceExpireEndOfSession, Quiet
<1>4. ASSUME NEW i \in Instruments, NEW price \in Prices, RecordPrice(i, price)
      PROVE  WalkInv'
  BY <1>4 DEF RecordPrice, WalkInv, InBook, InTodo, Waiting
<1>5. CASE TickOrder
  BY <1>5, WalkTickOrder
<1>6. CASE TickDone
  BY <1>6 DEF TickDone, WalkInv, InBook, Quiet
<1>7. ASSUME NEW o \in Orders, NEW a \in Amendments, Modify(o, a)
      PROVE  WalkInv'
  BY <1>0, <1>7, WalkQuiet DEF Modify, Quiet
<1>8. CASE UNCHANGED vars
  BY <1>8 DEF vars, WalkInv, InBook, InTodo, Waiting, Quiet
<1> QED
  BY <1>1, <1>2, <1>3, <1>4, <1>5, <1>6, <1>7, <1>8 DEF GatewayNext, Next

\* When record_price reaches its end, no untouched order on the instrument is left that
\* the recorded price executes: the loop over the copy of the book skips none.
THEOREM TicksMissNothing == GatewaySpec => []TickLeavesNothingExecutable
<1>1. Init => WalkInv
  BY DEF Init, WalkInv, Quiet
<1>2. GInv /\ WalkInv /\ [GatewayNext]_vars => WalkInv'
  BY WalkStep
<1>3. WalkInv => TickLeavesNothingExecutable
  BY DEF WalkInv, TickLeavesNothingExecutable, InTodo, Waiting, Submitted
<1> QED
  BY <1>1, <1>2, <1>3, GatewayInvariance, PTL DEF GatewaySpec

-----------------------------------------------------------------------------
(* The books: what the fills say, what the orders and the positions say,   *)
(* and what the balance says.                                              *)

\* What an order says was filled; one that was not submitted says nothing.
SaysFilled(q) == IF orders[q] = NoOrder THEN 0 ELSE orders[q].filled

\* A step that fills nothing.
NothingFilled ==
  /\ UNCHANGED account
  /\ \A q \in Orders : SaysFilled(q)' = SaysFilled(q)

\* A step that fills an order: one that rests or a new one.
Fills(o, ord, x) ==
  /\ Execute(o, ord, x)
  /\ ord.filled = SaysFilled(o)

SomethingFilled ==
  \E o \in Orders, ord \in OrderRecord : \E x \in ExecutionRecord(ord) : Fills(o, ord, x)

LEMMA OneOrderFillsNothing ==
  ASSUME GInv, NEW o \in Orders, NEW r \in OrderRecord, orders' = [orders EXCEPT ![o] = r],
         UNCHANGED account, r.filled = SaysFilled(o)
  PROVE  NothingFilled
<1>1. orders \in [Orders -> OrderRecord \union {NoOrder}]
  BY DEF GInv, TypeOK
<1>2. \A q \in Orders : orders'[q] = IF q = o THEN r ELSE orders[q]
  BY <1>1
<1>3. r # NoOrder
  BY OrderRecordReal
<1> QED
  BY <1>2, <1>3 DEF NothingFilled, SaysFilled

\* A new status moves no filled quantity.
LEMMA SameFilled ==
  ASSUME NEW ord \in OrderRecord, NEW s \in OrderStatus
  PROVE  /\ [ord EXCEPT !.status = s] \in OrderRecord
         /\ [ord EXCEPT !.status = s].filled = ord.filled
  BY DEF OrderRecord

\* Every call's step is one or the other.
LEMMA StepKinds ==
  ASSUME GInv, [GatewayNext]_vars
  PROVE  NothingFilled \/ SomethingFilled
<1>1. ASSUME NEW o \in Orders, NEW intent \in Intents, Submit(o, intent)
      PROVE  NothingFilled \/ SomethingFilled
  <2> DEFINE ord == Pending(intent)
             x == Execution(ord, latest[ord.inst], FALSE, FALSE)
  <2>1. intent \in OrderIntent
    BY ConstantsAssumption DEF IsValidIntent
  <2>2. ord \in OrderRecord /\ ord.filled = 0 /\ ord.filled < ord.qty
    BY <2>1 DEF Pending, OrderIntent, OrderRecord, OrderStatus, LiveStates
  <2>3. SaysFilled(o) = 0
    BY <1>1 DEF Submit, SaysFilled
  <2>4. latest[ord.inst] \in Nat
    BY <2>2 DEF OrderRecord, GInv, TypeOK
  <2>5. x \in ExecutionRecord(ord)
    BY <2>2, <2>4, ExecutionType
  <2>6. \/ Execute(o, ord, x)
        \/ /\ UNCHANGED account
           /\ \/ orders' = [orders EXCEPT ![o] = ord]
              \/ orders' = [orders EXCEPT ![o] = [ord EXCEPT !.status = "REJECTED"]]
    BY <1>1 DEF Submit, RejectForFunds
  <2>7. "REJECTED" \in OrderStatus
    BY DEF OrderStatus, TerminalStates
  <2> HIDE DEF ord, x
  <2>8. CASE Execute(o, ord, x)
    <3>1. Fills(o, ord, x)
      BY <2>2, <2>3, <2>8 DEF Fills
    <3> QED
      BY <2>2, <2>5, <3>1 DEF SomethingFilled
  <2>9. CASE UNCHANGED account /\ orders' = [orders EXCEPT ![o] = ord]
    BY <2>2, <2>3, <2>9, OneOrderFillsNothing
  <2>10. CASE UNCHANGED account /\ orders' = [orders EXCEPT ![o] = [ord EXCEPT !.status = "REJECTED"]]
    BY <2>2, <2>3, <2>7, <2>10, OneOrderFillsNothing, SameFilled
  <2> QED
    BY <2>6, <2>8, <2>9, <2>10
<1>2. ASSUME NEW o \in Orders, Cancel(o)
      PROVE  NothingFilled
  <2>1. orders[o] \in OrderRecord /\ orders[o] # NoOrder
    BY <1>2, SubmittedRecord DEF Cancel
  <2>2. "CANCELLED" \in OrderStatus
    BY DEF OrderStatus, TerminalStates
  <2>3. /\ orders' = [orders EXCEPT ![o] = [orders[o] EXCEPT !.status = "CANCELLED"]]
        /\ UNCHANGED account
    BY <1>2 DEF Cancel
  <2> QED
    BY <2>1, <2>2, <2>3, SameFilled, OneOrderFillsNothing DEF SaysFilled
<1>3. CASE ForceExpireEndOfSession
  <2>1. \A q \in Orders : orders[q] # NoOrder => orders[q] \in OrderRecord
    BY SubmittedRecord
  <2>2. \A q \in Orders : orders'[q] = IF orders[q].status \in RestingStates
                                       THEN [orders[q] EXCEPT !.status = "EXPIRED"]
                                       ELSE orders[q]
    BY <1>3 DEF ForceExpireEndOfSession
  <2>3. \A q \in Orders : orders[q].status \in RestingStates => orders[q] # NoOrder
    BY DEF RestingStates, NoOrder
  <2>4. "EXPIRED" \in OrderStatus
    BY DEF OrderStatus, TerminalStates
  <2>5. ASSUME NEW q \in Orders
        PROVE  SaysFilled(q)' = SaysFilled(q)
    BY <2>1, <2>2, <2>3, <2>4, SameFilled, OrderRecordReal DEF SaysFilled
  <2> QED
    BY <1>3, <2>5 DEF NothingFilled, ForceExpireEndOfSession
<1>4. CASE UNCHANGED <<orders, account>>
  BY <1>4 DEF NothingFilled, SaysFilled
<1>5. ASSUME TickOrder
      PROVE  NothingFilled \/ SomethingFilled
  <2>1. todo \in Seq(Orders) /\ todo # <<>> /\ latest \in [Instruments -> Nat]
          /\ ticking \in Instruments
    BY <1>5 DEF GInv, TypeOK, TickOrder, Quiet
  <2>2. PICK o \in Orders : o = Head(todo) /\ orders[o] # NoOrder
    <3>1. Head(todo) \in Orders /\ 1 \in 1..Len(todo) /\ Head(todo) = todo[1]
      BY <2>1
    <3> QED
      BY <2>1, <3>1 DEF GInv, Walked
  <2> DEFINE ord == orders[o]
             price == latest[ticking]
             x == RestingExecution(ord, price)
  <2>3. ord \in OrderRecord
    BY <2>2, SubmittedRecord
  <2>4. \/ UNCHANGED <<orders, account>>
        \/ /\ UNCHANGED account
           /\ \/ orders' = [orders EXCEPT ![o] = [ord EXCEPT !.status = "REJECTED"]]
              \/ orders' = [orders EXCEPT ![o] = [ord EXCEPT !.status = "FILLED"]]
        \/ /\ Execute(o, ord, x)
           /\ ~Raises(ord, price) /\ ~RaisesAfterFilling(ord, price)
           /\ Looked(ord) /\ Executable(ord, price)
    BY <1>5, <2>2 DEF TickOrder, RejectForFunds
  <2>5. CASE UNCHANGED <<orders, account>>
    BY <1>4, <2>5
  <2>6. CASE /\ UNCHANGED account
             /\ \/ orders' = [orders EXCEPT ![o] = [ord EXCEPT !.status = "REJECTED"]]
                \/ orders' = [orders EXCEPT ![o] = [ord EXCEPT !.status = "FILLED"]]
    <3>1. {"REJECTED", "FILLED"} \subseteq OrderStatus
      BY DEF OrderStatus, TerminalStates
    <3>2. ord.filled = SaysFilled(o)
      BY <2>2 DEF SaysFilled
    <3> HIDE DEF ord
    <3> QED
      BY <2>3, <2>6, <3>1, <3>2, SameFilled, OneOrderFillsNothing
  <2>7. CASE /\ Execute(o, ord, x)
             /\ ~Raises(ord, price) /\ ~RaisesAfterFilling(ord, price)
             /\ Looked(ord) /\ Executable(ord, price)
    <3>1. ord.filled < ord.qty
      BY <2>3, <2>7 DEF Raises, RaisesAfterFilling, Remaining, OrderRecord
    <3>2. price \in Nat /\ ord.limit \in Nat /\ ord.type \in OrderTypes
      BY <2>1, <2>3 DEF OrderRecord
    <3>3. Fills(o, ord, x)
      BY <2>2, <2>7 DEF Fills, SaysFilled
    <3> HIDE DEF price, ord
    <3>4. x \in ExecutionRecord(ord)
      BY <2>3, <3>1, <3>2, ExecutionType DEF RestingExecution, OrderTypes
    <3> QED
      BY <2>3, <3>3, <3>4 DEF SomethingFilled
  <2> QED
    BY <2>4, <2>5, <2>6, <2>7
<1>6. ASSUME NEW o \in Orders, NEW a \in Amendments, Modify(o, a)
      PROVE  NothingFilled
  <2>1. orders[o] \in OrderRecord /\ orders[o] # NoOrder
    BY <1>6, SubmittedRecord DEF Modify
  <2>2. \A q \in Orders : q # o => orders'[q] = orders[q]
    BY <1>6 DEF Modify, GInv, TypeOK
  <2>3. orders'[o].filled = orders[o].filled /\ orders'[o].status = orders[o].status
    BY <1>6, <2>1 DEF Modify, GInv, TypeOK, OrderRecord
  <2>4. UNCHANGED account
    BY <1>6 DEF Modify
  <2>5. orders'[o] # NoOrder
    <3>1. orders[o].status # "NONE"
      BY <2>1 DEF OrderRecord, OrderStatus, LiveStates, TerminalStates
    <3> QED
      BY <2>3, <3>1 DEF NoOrder
  <2> QED
    BY <2>1, <2>2, <2>3, <2>4, <2>5 DEF NothingFilled, SaysFilled
<1> QED
  BY <1>1, <1>2, <1>3, <1>4, <1>5, <1>6
  DEF GatewayNext, Next, RecordPrice, TickDone, vars, account

FilledIn(o) ==
  SumFunctionOnSet([n \in FillIndices |-> fills[n].qty], {n \in FillIndices : fills[n].order = o})

\* One more fill adds its quantity to its order and, signed, to its instrument.
LEMMA AppendedFill ==
  ASSUME fills \in Seq(FillRecord), NEW f \in FillRecord, fills' = Append(fills, f)
  PROVE  /\ \A o : /\ FilledIn(o) \in Int
                   /\ FilledIn(o)' = FilledIn(o) + (IF f.order = o THEN f.qty ELSE 0)
         /\ \A i : /\ NetFilled(i) \in Int
                   /\ NetFilled(i)' = NetFilled(i) + (IF f.inst = i THEN Signed(f) ELSE 0)
<1> DEFINE n == Len(fills)
<1>1. /\ n \in Nat /\ Len(fills') = n + 1 /\ fills'[n + 1] = f
      /\ \A k \in 1..n : fills[k] \in FillRecord /\ fills'[k] = fills[k]
      /\ 1..(n + 1) = (1..n) \union {n + 1}
  OBVIOUS
<1>2. f.qty \in Int /\ \A k \in 1..n : fills[k].qty \in Int
  BY <1>1 DEF FillRecord
<1>3. Signed(f) \in Int /\ \A k \in 1..n : Signed(fills[k]) \in Int
  BY <1>2 DEF Signed
<1>4. ASSUME NEW o
      PROVE  /\ FilledIn(o) \in Int
             /\ FilledIn(o)' = FilledIn(o) + (IF f.order = o THEN f.qty ELSE 0)
  <2> DEFINE F == [k \in 1..n |-> fills[k].qty]
             G == [k \in 1..(n + 1) |-> fills'[k].qty]
             S == {k \in 1..n : fills[k].order = o}
             T == {k \in 1..(n + 1) : fills'[k].order = o}
  <2>1. FilledIn(o) = SumFunctionOnSet(F, S) /\ FilledIn(o)' = SumFunctionOnSet(G, T)
    BY <1>1 DEF FilledIn, FillIndices
  <2>2. /\ S \in SUBSET (1..n) /\ (T = S \/ T = S \union {n + 1})
        /\ (n + 1 \in T <=> f.order = o)
        /\ \A k \in 1..n : F[k] \in Int /\ G[k] = F[k]
        /\ G[n + 1] = f.qty /\ G[n + 1] \in Int
    <3> HIDE DEF n
    <3> QED
      BY <1>1, <1>2
  <2> HIDE DEF F, G, S, T, n
  <2> QED
    BY <1>1, <2>1, <2>2, SumAppended
<1>5. ASSUME NEW i
      PROVE  /\ NetFilled(i) \in Int
             /\ NetFilled(i)' = NetFilled(i) + (IF f.inst = i THEN Signed(f) ELSE 0)
  <2> DEFINE F == [k \in 1..n |-> Signed(fills[k])]
             G == [k \in 1..(n + 1) |-> Signed(fills'[k])]
             S == {k \in 1..n : fills[k].inst = i}
             T == {k \in 1..(n + 1) : fills'[k].inst = i}
  <2>1. NetFilled(i) = SumFunctionOnSet(F, S) /\ NetFilled(i)' = SumFunctionOnSet(G, T)
    BY <1>1 DEF NetFilled, FillIndices, Signed
  <2>2. /\ S \in SUBSET (1..n) /\ (T = S \/ T = S \union {n + 1})
        /\ (n + 1 \in T <=> f.inst = i)
        /\ \A k \in 1..n : F[k] \in Int /\ G[k] = F[k]
        /\ G[n + 1] = Signed(f) /\ G[n + 1] \in Int
    <3> HIDE DEF n
    <3> QED
      BY <1>1, <1>3
  <2> HIDE DEF F, G, S, T, n
  <2> QED
    BY <1>1, <2>1, <2>2, SumAppended
<1> QED
  BY <1>4, <1>5

\* Before the first fill.
LEMMA NothingYet ==
  ASSUME fills = <<>>
  PROVE  (\A o : FilledIn(o) = 0) /\ (\A i : NetFilled(i) = 0)
<1>1. FillIndices = {}
  BY DEF FillIndices
<1>2. \A f : SumFunctionOnSet(f, {}) = 0
  BY SumDef, FS_EmptySet
<1> QED
  BY <1>1, <1>2 DEF FilledIn, NetFilled

\* What a fill does to the books.
FillOf(o, ord, x) == [order |-> o, inst |-> ord.inst, side |-> ord.side, qty |-> x.qty,
                      price |-> x.price]

LEMMA FilledStep ==
  ASSUME GInv, NEW o \in Orders, NEW ord \in OrderRecord, NEW x \in ExecutionRecord(ord),
         Fills(o, ord, x)
  PROVE  /\ FillOf(o, ord, x) \in FillRecord /\ fills' = Append(fills, FillOf(o, ord, x))
         /\ fills \in Seq(FillRecord)
         /\ \A q \in Orders : SaysFilled(q)' = IF q = o THEN ord.filled + x.qty ELSE SaysFilled(q)
<1>1. /\ fills \in Seq(FillRecord) /\ orders \in [Orders -> OrderRecord \union {NoOrder}]
  BY DEF GInv, TypeOK
<1>2. FillOf(o, ord, x) \in FillRecord
  BY DEF FillOf, FillRecord, OrderRecord, ExecutionRecord
<1>3. fills' = Append(fills, FillOf(o, ord, x)) /\ orders' = [orders EXCEPT ![o] = FilledBy(ord, x)]
  BY DEF Fills, Execute, FillOf
<1>4. FilledBy(ord, x).filled = ord.filled + x.qty /\ FilledBy(ord, x) # NoOrder
  BY FilledByType, OrderRecordReal DEF FilledBy, OrderRecord
<1>5. \A q \in Orders : orders'[q] = IF q = o THEN FilledBy(ord, x) ELSE orders[q]
  BY <1>1, <1>3
<1> QED
  BY <1>1, <1>2, <1>3, <1>4, <1>5 DEF SaysFilled

OrdersBooked == \A o \in Orders : SaysFilled(o) = FilledIn(o)

LEMMA OrdersBookedStep ==
  ASSUME GInv, OrdersBooked, [GatewayNext]_vars
  PROVE  OrdersBooked'
<1>1. CASE NothingFilled
  BY <1>1 DEF NothingFilled, OrdersBooked, FilledIn, FillIndices, account
<1>2. ASSUME NEW o \in Orders, NEW ord \in OrderRecord, NEW x \in ExecutionRecord(ord),
             Fills(o, ord, x)
      PROVE  OrdersBooked'
  <2> DEFINE f == FillOf(o, ord, x)
  <2>1. f.order = o /\ f.qty = x.qty
    BY DEF FillOf
  <2> HIDE DEF f
  <2>2. \A q : FilledIn(q)' = FilledIn(q) + (IF q = o THEN x.qty ELSE 0)
    BY <1>2, <2>1, FilledStep, AppendedFill DEF f
  <2>3. \A q : FilledIn(q) \in Int
    BY <1>2, FilledStep, AppendedFill
  <2>4. ord.filled = SaysFilled(o)
    BY <1>2 DEF Fills
  <2> QED
    BY <1>2, <2>2, <2>3, <2>4, FilledStep DEF OrdersBooked
<1> QED
  BY <1>1, <1>2, StepKinds DEF SomethingFilled

\* The fills of an order are what the order says was filled, after any calls of the gateway,
\* aborted ticks and modify_order included.
THEOREM OrdersMatchFills == GatewaySpec => []FillsMatchOrders
<1>1. Init => OrdersBooked
  BY NothingYet DEF Init, OrdersBooked, SaysFilled
<1>2. GInv /\ OrdersBooked /\ [GatewayNext]_vars => OrdersBooked'
  BY OrdersBookedStep
<1>3. OrdersBooked => FillsMatchOrders
  BY DEF OrdersBooked, FillsMatchOrders, FilledIn, SaysFilled, Submitted
<1> QED
  BY <1>1, <1>2, <1>3, GatewayInvariance, PTL DEF GatewaySpec

-----------------------------------------------------------------------------
(* Positions and cash.  ReducedBy drops what a fill has beyond the         *)
(* position it closes, and blending rounds the average: the books agree in *)
(* every behaviour in which that does not happen.                          *)

\* No fill is larger than an opposite position it meets.
NoOverClose ==
  Len(fills') > Len(fills) =>
    LET f == fills'[Len(fills')]
        p == positions[f.inst]
    IN IsOpen(p) /\ p.side # f.side => f.qty <= p.qty

\* A blended average is the quotient and not its rounding.
AveragesExact ==
  Len(fills') > Len(fills) =>
    LET f == fills'[Len(fills')]
        p == positions[f.inst]
    IN IsOpen(p) /\ p.side = f.side
         => positions'[f.inst].avg * (p.qty + f.qty) = p.avg * p.qty + f.price * f.qty

HeldBy(p) ==
  IF ~IsOpen(p) THEN 0 ELSE IF p.side = "BUY" THEN p.qty ELSE -p.qty

Outlay(p) ==
  IF ~IsOpen(p) THEN 0
  ELSE p.entryCost + (IF p.side = "BUY" THEN p.avg * p.qty ELSE -(p.avg * p.qty))

\* What a fill adds to the holding and to the balance.
Bought(ord, x) == IF ord.side = "BUY" THEN x.qty ELSE -x.qty
Earned(ord, x) == IF ord.side = "BUY" THEN -(x.price * x.qty + x.cost)
                                      ELSE x.price * x.qty - x.cost

LEMMA NotOpen ==
  ASSUME NEW p, ~IsOpen(p)
  PROVE  HeldBy(p) = 0 /\ Outlay(p) = 0
  BY Zenon DEF HeldBy, Outlay

LEMMA HoldingTypes ==
  ASSUME NEW p \in PositionRecord \union {NoPosition}
  PROVE  HeldBy(p) \in Int /\ Outlay(p) \in Int /\ (IsOpen(p) => p \in PositionRecord)
<1>1. CASE p = NoPosition
  <2>1. ~IsOpen(p)
    BY <1>1 DEF IsOpen, NoPosition
  <2> QED
    BY <2>1, NotOpen
<1>2. CASE p \in PositionRecord
  <2>1. p.qty \in Int /\ p.avg \in Int /\ p.entryCost \in Int
    BY <1>2 DEF PositionRecord
  <2>2. p.avg * p.qty \in Int
    BY <2>1
  <2> QED
    BY <1>2, <2>1, <2>2 DEF HeldBy, Outlay
<1> QED
  BY <1>1, <1>2

\* A close that the position covers: quantity, entry cost and charges are all accounted for.
LEMMA Reduced ==
  ASSUME NEW p \in PositionRecord, IsOpen(p), NEW ord \in OrderRecord,
         NEW x \in ExecutionRecord(ord), p.side # ord.side, x.qty <= p.qty
  PROVE  /\ HeldBy(ReducedBy(p, x)) = HeldBy(p) + Bought(ord, x)
         /\ TradeNetPnl(p, x) \in Int
         /\ Outlay(ReducedBy(p, x)) = Outlay(p) + TradeNetPnl(p, x) - Earned(ord, x)
<1> DEFINE share == EntryCostShare(p, x.qty)
           gross == (IF p.side = "BUY" THEN x.price - p.avg ELSE p.avg - x.price) * x.qty
           pnl == TradeNetPnl(p, x)
<1>1. /\ p.qty \in Nat /\ p.qty > 0 /\ p.avg \in Nat /\ p.entryCost \in Nat /\ p.net \in Int
      /\ x.qty \in Nat /\ x.qty > 0 /\ x.price \in Nat /\ x.cost \in Nat
      /\ p.side \in Sides /\ ord.side \in Sides
  BY DEF PositionRecord, OrderRecord, ExecutionRecord
<1>2. ClosingQuantity(p, x) = x.qty
  BY <1>1 DEF ClosingQuantity
<1>3. (x.cost * x.qty) \div x.qty = x.cost
  BY <1>1
<1>4. pnl = gross - share - x.cost
  BY <1>2, <1>3 DEF TradeNetPnl
<1>5. share \in Int
  <2>1. p.entryCost * x.qty \in Nat
    BY <1>1
  <2> QED
    BY <1>1, <2>1, DivNat DEF EntryCostShare
<1>6. x.qty = p.qty => share = p.entryCost
  BY <1>1 DEF EntryCostShare
<1>7. gross \in Int
  BY <1>1
<1>8. pnl \in Int
  BY <1>1, <1>4, <1>5, <1>7
<1>9. gross = IF p.side = "BUY" THEN x.price * x.qty - p.avg * x.qty
                                ELSE p.avg * x.qty - x.price * x.qty
  BY <1>1
<1>10. ReducedBy(p, x) = IF x.qty = p.qty
                         THEN [p EXCEPT !.status = "CLOSED", !.net = p.net + pnl,
                                        !.entryCost = 0]
                         ELSE [p EXCEPT !.qty = @ - x.qty, !.net = p.net + pnl,
                                        !.entryCost = @ - share]
  BY <1>2 DEF ReducedBy
<1>11. (p.side = "BUY" /\ ord.side = "SELL") \/ (p.side = "SELL" /\ ord.side = "BUY")
  BY <1>1 DEF Sides
<1> HIDE DEF share, gross, pnl
<1>12. p.avg * x.qty \in Int /\ x.price * x.qty \in Int /\ p.avg * p.qty \in Int
  BY <1>1
<1>13. CASE x.qty = p.qty
  <2>1. ReducedBy(p, x).status = "CLOSED"
    BY <1>10, <1>13 DEF PositionRecord
  <2>2. HeldBy(ReducedBy(p, x)) = 0 /\ Outlay(ReducedBy(p, x)) = 0
    BY <2>1, NotOpen DEF IsOpen
  <2>3. HeldBy(p) + Bought(ord, x) = 0
    BY <1>1, <1>11, <1>13 DEF HeldBy, Bought
  <2>4. Outlay(p) + pnl - Earned(ord, x) = 0
    BY <1>1, <1>4, <1>5, <1>6, <1>9, <1>11, <1>12, <1>13 DEF Outlay, Earned
  <2> QED
    BY <1>8, <2>2, <2>3, <2>4 DEF pnl
<1>14. CASE x.qty # p.qty
  <2> DEFINE q == ReducedBy(p, x)
  <2>1. /\ q.status = "OPEN" /\ q.side = p.side /\ q.avg = p.avg
        /\ q.qty = p.qty - x.qty /\ q.entryCost = p.entryCost - share
    BY <1>10, <1>14 DEF PositionRecord, IsOpen
  <2> HIDE DEF q
  <2>2. HeldBy(q) = HeldBy(p) + Bought(ord, x)
    BY <1>1, <1>11, <2>1 DEF HeldBy, Bought, IsOpen
  <2>3. q.avg * q.qty = p.avg * p.qty - p.avg * x.qty
    BY <1>1, <2>1
  <2>4. Outlay(q) = Outlay(p) + pnl - Earned(ord, x)
    BY <1>1, <1>4, <1>5, <1>9, <1>11, <1>12, <2>1, <2>3 DEF Outlay, Earned, IsOpen
  <2> QED
    BY <1>8, <2>2, <2>4 DEF pnl, q
<1> QED
  BY <1>13, <1>14

LEMMA Opened ==
  ASSUME NEW ord \in OrderRecord, NEW x \in ExecutionRecord(ord)
  PROVE  /\ HeldBy(OpenedBy(ord, x)) = Bought(ord, x)
         /\ Outlay(OpenedBy(ord, x)) = -Earned(ord, x)
<1>1. x.qty \in Nat /\ x.price \in Nat /\ x.cost \in Nat /\ ord.side \in Sides
  BY DEF OrderRecord, ExecutionRecord
<1>2. x.price * x.qty \in Int
  BY <1>1
<1> QED
  BY <1>1, <1>2 DEF OpenedBy, HeldBy, Outlay, IsOpen, Bought, Earned

LEMMA Blended ==
  ASSUME NEW p \in PositionRecord, IsOpen(p), NEW ord \in OrderRecord,
         NEW x \in ExecutionRecord(ord), p.side = ord.side
  PROVE  /\ HeldBy(BlendedWith(p, x)) = HeldBy(p) + Bought(ord, x)
         /\ BlendedWith(p, x).avg * (p.qty + x.qty) = p.avg * p.qty + x.price * x.qty
              => Outlay(BlendedWith(p, x)) = Outlay(p) - Earned(ord, x)
<1> DEFINE blend == RoundHalfUp(p.avg * p.qty + x.price * x.qty, p.qty + x.qty)
           q == BlendedWith(p, x)
<1>1. /\ p.qty \in Nat /\ p.avg \in Nat /\ p.entryCost \in Nat
      /\ x.qty \in Nat /\ x.price \in Nat /\ x.cost \in Nat
      /\ p.side \in Sides /\ ord.side \in Sides
  BY DEF PositionRecord, OrderRecord, ExecutionRecord
<1>2. q = [p EXCEPT !.qty = @ + x.qty, !.avg = blend, !.entryCost = @ + x.cost]
  BY DEF BlendedWith
<1> HIDE DEF blend, q
<1>3. /\ q.status = "OPEN" /\ q.side = p.side /\ q.qty = p.qty + x.qty
      /\ q.entryCost = p.entryCost + x.cost
  BY <1>2 DEF PositionRecord, IsOpen
<1>4. HeldBy(q) = HeldBy(p) + Bought(ord, x)
  BY <1>1, <1>3 DEF HeldBy, Bought, IsOpen, Sides
<1>5. p.avg * p.qty \in Int /\ x.price * x.qty \in Int
  BY <1>1
<1>6. ASSUME q.avg * (p.qty + x.qty) = p.avg * p.qty + x.price * x.qty
      PROVE  Outlay(q) = Outlay(p) - Earned(ord, x)
  <2>1. q.avg * q.qty = p.avg * p.qty + x.price * x.qty
    BY <1>3, <1>6
  <2> QED
    BY <1>1, <1>3, <1>5, <2>1 DEF Outlay, Earned, IsOpen, Sides
<1> QED
  BY <1>4, <1>6 DEF q

\* What a fill does to the position on its instrument.
LEMMA HoldingStep ==
  ASSUME GInv, NEW o \in Orders, NEW ord \in OrderRecord, NEW x \in ExecutionRecord(ord),
         Fills(o, ord, x), NoOverClose
  PROVE  /\ ord.inst \in Instruments
         /\ \A i \in Instruments : i # ord.inst => positions'[i] = positions[i]
         /\ HeldBy(positions'[ord.inst]) = HeldBy(positions[ord.inst]) + Bought(ord, x)
         /\ AveragesExact => Outlay(positions'[ord.inst])
                               = Outlay(positions[ord.inst]) + (realizedNet' - realizedNet)
                                   - Earned(ord, x)
<1> DEFINE p == positions[ord.inst]
           q == positions'[ord.inst]
<1>1. /\ ord.inst \in Instruments /\ x.qty \in Nat /\ realizedNet \in Int
      /\ positions \in [Instruments -> PositionRecord \union {NoPosition}]
      /\ Bought(ord, x) \in Int /\ Earned(ord, x) \in Int
  <2>1. /\ x.qty \in Int /\ x.cost \in Int /\ x.price \in Int
    BY DEF ExecutionRecord
  <2>2. x.price * x.qty \in Int
    BY <2>1
  <2>3. Bought(ord, x) \in Int /\ Earned(ord, x) \in Int
    BY <2>1, <2>2 DEF Bought, Earned
  <2> QED
    BY <2>3 DEF OrderRecord, ExecutionRecord, GInv, TypeOK
<1>2. p \in PositionRecord \union {NoPosition}
  BY <1>1
<1>3. ApplyToPosition(ord, x)
  BY DEF Fills, Execute
<1>4. \A i \in Instruments : i # ord.inst => positions'[i] = positions[i]
  BY <1>1, <1>3 DEF ApplyToPosition
<1>5. /\ Len(fills') > Len(fills)
      /\ fills'[Len(fills')] = FillOf(o, ord, x)
  <2>1. /\ fills' = Append(fills, FillOf(o, ord, x)) /\ fills \in Seq(FillRecord)
        /\ FillOf(o, ord, x) \in FillRecord
    BY FilledStep
  <2> QED
    BY <2>1
<1>6. IsOpen(p) /\ p.side # ord.side => x.qty <= p.qty
  BY <1>5 DEF NoOverClose, FillOf
<1>7. /\ HeldBy(p) \in Int /\ Outlay(p) \in Int
      /\ IsOpen(p) => p \in PositionRecord
  BY <1>2, HoldingTypes
<1> SUFFICES /\ HeldBy(q) = HeldBy(p) + Bought(ord, x)
             /\ AveragesExact =>
                  Outlay(q) = Outlay(p) + (realizedNet' - realizedNet) - Earned(ord, x)
  BY <1>1, <1>4
<1>8. CASE ~IsOpen(p)
  <2>1. q = OpenedBy(ord, x) /\ realizedNet' = realizedNet
    BY <1>1, <1>3, <1>8 DEF ApplyToPosition
  <2>2. HeldBy(p) = 0 /\ Outlay(p) = 0
    BY <1>8, NotOpen
  <2> HIDE DEF p, q
  <2> QED
    BY <1>1, <2>1, <2>2, Opened
<1>9. CASE IsOpen(p) /\ p.side = ord.side
  <2>1. q = BlendedWith(p, x) /\ realizedNet' = realizedNet
    BY <1>1, <1>3, <1>9 DEF ApplyToPosition
  <2>2. AveragesExact => q.avg * (p.qty + x.qty) = p.avg * p.qty + x.price * x.qty
    BY <1>5, <1>9 DEF AveragesExact, FillOf
  <2> HIDE DEF p, q
  <2> QED
    BY <1>1, <1>7, <1>9, <2>1, <2>2, Blended
<1>10. CASE IsOpen(p) /\ p.side # ord.side
  <2>1. q = ReducedBy(p, x) /\ realizedNet' = realizedNet + TradeNetPnl(p, x)
    BY <1>1, <1>3, <1>10 DEF ApplyToPosition
  <2> HIDE DEF p, q
  <2> QED
    BY <1>1, <1>6, <1>7, <1>10, <2>1, Reduced
<1> QED
  BY <1>8, <1>9, <1>10

PositionsBooked == \A i \in Instruments : HeldBy(positions[i]) = NetFilled(i)

LEMMA PositionsBookedStep ==
  ASSUME GInv, PositionsBooked, [GatewayNext]_vars, [NoOverClose]_vars
  PROVE  PositionsBooked'
<1>1. CASE NothingFilled
  BY <1>1 DEF NothingFilled, PositionsBooked, NetFilled, FillIndices, account
<1>2. ASSUME NEW o \in Orders, NEW ord \in OrderRecord, NEW x \in ExecutionRecord(ord),
             Fills(o, ord, x)
      PROVE  PositionsBooked'
  <2> DEFINE f == FillOf(o, ord, x)
  <2>1. f \in FillRecord /\ fills' = Append(fills, f) /\ fills \in Seq(FillRecord)
    BY <1>2, FilledStep
  <2>2. f.inst = ord.inst /\ Signed(f) = Bought(ord, x)
    BY DEF FillOf, Signed, Bought
  <2> HIDE DEF f
  <2>3. \A i : /\ NetFilled(i) \in Int
               /\ NetFilled(i)' = NetFilled(i) + (IF i = ord.inst THEN Bought(ord, x) ELSE 0)
    BY <2>1, <2>2, AppendedFill
  <2>4. NoOverClose
    <3>1. fills' # fills
      BY <2>1
    <3> QED
      BY <3>1 DEF vars
  <2> QED
    BY <1>2, <2>3, <2>4, HoldingStep DEF PositionsBooked
<1> QED
  BY <1>1, <1>2, StepKinds DEF SomethingFilled

\* Fill and Position do not disagree: in every behaviour in which no fill is larger than
\* the opposite position it meets, the open position is the sum of the signed fills, and
\* the fills of an order are what it says, whatever rests, is cancelled or is aborted.
THEOREM FillsExplained == GatewaySpec /\ [][NoOverClose]_vars => []FillsExplainAll
<1>1. Init => PositionsBooked
  <2>1. ASSUME Init, NEW i \in Instruments
        PROVE  HeldBy(positions[i]) = 0
    BY <2>1, NotOpen DEF Init, NoPosition, IsOpen
  <2> QED
    BY <2>1, NothingYet DEF Init, PositionsBooked
<1>2. GInv /\ PositionsBooked /\ [GatewayNext]_vars /\ [NoOverClose]_vars => PositionsBooked'
  BY PositionsBookedStep
<1>3. PositionsBooked => PositionMatchesFills
  BY DEF PositionsBooked, PositionMatchesFills, HeldBy, OpenQuantity
<1> QED
  BY <1>1, <1>2, <1>3, OrdersMatchFills, GatewayInvariance, PTL
  DEF GatewaySpec, FillsExplainAll

-----------------------------------------------------------------------------
Outlays == [i \in Instruments |-> Outlay(positions[i])]

CashBooked == cash = InitialCapital + realizedNet - SumFunctionOnSet(Outlays, Instruments)

LEMMA CashBookedStep ==
  ASSUME IsFiniteSet(Instruments), GInv, CashBooked, [GatewayNext]_vars,
         [NoOverClose /\ AveragesExact]_vars
  PROVE  CashBooked'
<1>1. CASE NothingFilled
  BY <1>1 DEF NothingFilled, CashBooked, Outlays, account
<1>2. ASSUME NEW o \in Orders, NEW ord \in OrderRecord, NEW x \in ExecutionRecord(ord),
             Fills(o, ord, x)
      PROVE  CashBooked'
  <2>1. /\ cash \in Int /\ realizedNet \in Int /\ InitialCapital \in Int
        /\ positions \in [Instruments -> PositionRecord \union {NoPosition}]
    BY ConstantsAssumption DEF GInv, TypeOK
  <2>2. NoOverClose /\ AveragesExact
    <3>1. /\ fills' = Append(fills, FillOf(o, ord, x)) /\ fills \in Seq(FillRecord)
          /\ FillOf(o, ord, x) \in FillRecord
      BY <1>2, FilledStep
    <3>2. fills' # fills
      BY <3>1
    <3> QED
      BY <3>2 DEF vars
  <2>3. /\ ord.inst \in Instruments
        /\ \A i \in Instruments : i # ord.inst => positions'[i] = positions[i]
        /\ Outlay(positions'[ord.inst])
             = Outlay(positions[ord.inst]) + (realizedNet' - realizedNet) - Earned(ord, x)
    BY <1>2, <2>2, HoldingStep
  <2>4. cash' = cash + Earned(ord, x) /\ Earned(ord, x) \in Int
    <3>1. x.qty \in Int /\ x.cost \in Int /\ x.price \in Int
      BY DEF ExecutionRecord
    <3>2. x.price * x.qty \in Int
      BY <3>1
    <3> QED
      BY <1>2, <2>1, <3>1, <3>2 DEF Fills, Execute, Earned
  <2>5. realizedNet' \in Int
    BY <1>2, GatewayStep DEF GInv, TypeOK
  <2>6. \A i \in Instruments : Outlay(positions[i]) \in Int
    BY <2>1, HoldingTypes
  <2> DEFINE F == Outlays
             G == Outlays'
             c == ord.inst
  <2>7. /\ G[c] = F[c] + (realizedNet' - realizedNet) - Earned(ord, x)
        /\ \A i \in Instruments : F[i] \in Int /\ (i # c => G[i] = F[i])
    BY <2>3, <2>6 DEF Outlays
  <2>8. G[c] \in Int /\ F[c] \in Int /\ c \in Instruments
    BY <2>1, <2>3, <2>4, <2>5, <2>7
  <2> HIDE DEF F, G, c
  <2>9. SumFunctionOnSet(G, Instruments) = SumFunctionOnSet(F, Instruments) - F[c] + G[c]
    BY <2>7, <2>8, SumChanged
  <2>10. SumFunctionOnSet(F, Instruments) \in Int
    BY <2>7, SumSplit
  <2>11. cash = InitialCapital + realizedNet - SumFunctionOnSet(F, Instruments)
    BY DEF CashBooked, F
  <2>12. cash' = InitialCapital + realizedNet' - SumFunctionOnSet(G, Instruments)
    BY <2>1, <2>4, <2>5, <2>7, <2>8, <2>9, <2>10, <2>11
  <2> QED
    BY <2>12 DEF CashBooked, G
<1> QED
  BY <1>1, <1>2, StepKinds DEF SomethingFilled

\* Every paisa of the balance is explained by a trade's net P&L or by what an open position
\* cost to enter, charges and their shares included, in every behaviour in which no fill is
\* larger than the position it closes and the blended averages are exact.
THEOREM CashExplained ==
  ASSUME IsFiniteSet(Instruments)
  PROVE  GatewaySpec /\ [][NoOverClose /\ AveragesExact]_vars => []CashExplainedByPnl
<1>1. Init => CashBooked
  <2> SUFFICES ASSUME Init PROVE CashBooked
    OBVIOUS
  <2>1. \A i \in Instruments : Outlays[i] = 0
    BY NotOpen DEF Init, NoPosition, IsOpen, Outlays
  <2>2. SumFunctionOnSet(Outlays, Instruments) = SumFunctionOnSet(Outlays, {})
    BY <2>1, SumZeros
  <2>3. SumFunctionOnSet(Outlays, {}) = 0
    BY SumDef, FS_EmptySet
  <2> QED
    BY <2>2, <2>3, ConstantsAssumption DEF Init, CashBooked
<1>2. GInv /\ CashBooked /\ [GatewayNext]_vars /\ [NoOverClose /\ AveragesExact]_vars
        => CashBooked'
  BY CashBookedStep
<1>3. CashBooked => CashExplainedByPnl
  <2>1. Outlays = [i \in Instruments |-> OpenOutlay(i)]
    BY DEF Outlays, Outlay, OpenOutlay
  <2>2. SumFunction(Outlays) = SumFunctionOnSet(Outlays, Instruments)
    BY DEF SumFunction, Outlays
  <2> QED
    BY <2>1, <2>2 DEF CashBooked, CashExplainedByPnl
<1> QED
  BY <1>1, <1>2, <1>3, GatewayInvariance, PTL DEF GatewaySpec
=============================================================================
