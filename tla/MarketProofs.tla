---------------------------- MODULE MarketProofs ----------------------------
(***************************************************************************)
(* Proofs about Market, for every set of ids, prices, stocks, quantities   *)
(* and every bound.  MInv is inductive: OrdersAreSales needs nothing more, *)
(* and AggregatorIsRecent is inductive because the aggregator truncates    *)
(* from the front exactly when the log outgrows RecordCap.  That the sales *)
(* are logged in the order of their times is what makes the sales of a     *)
(* span the end of the log.                                                *)
(***************************************************************************)
EXTENDS Market, SumTheorems

\* The log of sales is in the order of time, and none of them is in the future.
Chronological ==
    \A i \in DOMAIN prices :
       /\ prices[i].ts <= now
       /\ \A j \in DOMAIN prices : i <= j => prices[i].ts <= prices[j].ts

MInv == TypeOK /\ OrdersAreSales /\ AggregatorIsRecent /\ Chronological

-----------------------------------------------------------------------------
(* Lemmas about the helpers *)

\* The amount charged for an order is an integer.
LEMMA ProductInt == ASSUME NEW a \in Int, NEW b \in Int PROVE a * b \in Int
  OBVIOUS

\* Appending extends a sequence by one element and keeps the others.
LEMMA AppendFacts ==
  ASSUME NEW S, NEW s \in Seq(S), NEW e \in S
  PROVE  /\ Append(s, e) \in Seq(S)
         /\ Len(Append(s, e)) = Len(s) + 1
         /\ \A i \in 1..Len(s) : Append(s, e)[i] = s[i]
         /\ Append(s, e)[Len(s) + 1] = e
  OBVIOUS

\* AddRecord (engine.go) keeps the last RecordCap records.
LEMMA AddRecordFacts ==
  ASSUME NEW S, NEW s \in Seq(S), NEW e \in S, Len(s) <= RecordCap
  PROVE  /\ AddRecord(s, e) \in Seq(S)
         /\ Len(s) < RecordCap => AddRecord(s, e) = Append(s, e)
         /\ Len(s) = RecordCap =>
              /\ Len(AddRecord(s, e)) = RecordCap
              /\ \A i \in 1..RecordCap : AddRecord(s, e)[i] = Append(s, e)[i + 1]
  <1> DEFINE t == Append(s, e)
  <1>1. t \in Seq(S) /\ Len(t) = Len(s) + 1
    BY AppendFacts
  <1>2. CASE Len(s) < RecordCap
    <2>1. AddRecord(s, e) = t
      BY <1>1, <1>2, EngineAssumption DEF AddRecord, LastN
    <2> QED BY <2>1, <1>1, <1>2
  <1>3. CASE Len(s) = RecordCap
    <2>1. AddRecord(s, e) = SubSeq(t, 2, RecordCap + 1)
      BY <1>1, <1>3, EngineAssumption DEF AddRecord, LastN
    <2>2. /\ SubSeq(t, 2, RecordCap + 1) \in Seq(S)
          /\ Len(SubSeq(t, 2, RecordCap + 1)) = RecordCap
          /\ \A i \in 1..RecordCap : SubSeq(t, 2, RecordCap + 1)[i] = t[i + 1]
      BY <1>1, <1>3, EngineAssumption
    <2> QED BY <2>1, <2>2, <1>3, EngineAssumption
  <1> QED BY <1>2, <1>3, EngineAssumption

-----------------------------------------------------------------------------
(* The invariant *)

LEMMA MInit == Init => MInv
  BY MarketAssumption, EngineAssumption
  DEF Init, MInv, TypeOK, OrdersAreSales, AggregatorIsRecent, Chronological, Time

\* What an accepted order does to the five variables it touches.
LEMMA OrderStep ==
  ASSUME MInv, NEW o \in DOMAIN offers, NEW q \in Quantities, CreateOrder(o, q)
  PROVE  MInv'
  <1> DEFINE ord  == [offer |-> o, quantity |-> q, price |-> offers[o].price,
                      total |-> offers[o].price * q, status |-> "fulfilled",
                      createdAt |-> now]
             sale == [ts |-> now, spec |-> offers[o].spec,
                      price |-> offers[o].price, volume |-> q]
  <1>1. /\ offers[o] \in Offer /\ offers[o].price \in Prices
        /\ offers[o].spec \in Specs /\ offers[o].available \in Available
        /\ offers[o].available \in Int
        /\ o \in OfferIds /\ now \in Time
    BY MarketAssumption DEF MInv, TypeOK, Offer, Available
  <1>2. ord \in Order
    <2>1. offers[o].price * q \in Int
      BY <1>1, MarketAssumption, ProductInt
    <2> QED BY <1>1, <2>1 DEF Order, OrderStatus
  <1>3. sale \in PriceRecord
    BY <1>1 DEF PriceRecord
  <1>4. /\ orders' = Append(orders, ord) /\ prices' = Append(prices, sale)
        /\ records' = AddRecord(records, sale)
        /\ UNCHANGED <<now, issued, supplied>>
    BY DEF CreateOrder, matchOrder
  <1>5. /\ orders \in Seq(Order) /\ prices \in Seq(PriceRecord)
        /\ records \in Seq(PriceRecord) /\ Len(records) <= RecordCap
    BY EngineAssumption DEF MInv, TypeOK, AggregatorIsRecent
  <1>6. TypeOK'
    <2>1. /\ orders' \in Seq(Order) /\ prices' \in Seq(PriceRecord)
          /\ records' \in Seq(PriceRecord)
      BY <1>2, <1>3, <1>4, <1>5, AppendFacts, AddRecordFacts
    <2>2. offers[o].available - q \in Available
      BY <1>1, MarketAssumption DEF CreateOrder, Orderable, Available
    <2>3. offers' \in [DOMAIN offers -> Offer]
      BY <1>1, <2>2 DEF CreateOrder, matchOrder, MInv, TypeOK, Offer, OfferStatus
    <2> QED BY <2>1, <2>3, <1>4 DEF MInv, TypeOK
  <1>7. OrdersAreSales'
    <2>1. Len(prices') = Len(orders') /\ Len(orders') = Len(orders) + 1
      BY <1>2, <1>3, <1>4, <1>5, AppendFacts DEF MInv, OrdersAreSales
    <2> SUFFICES ASSUME NEW i \in 1..Len(orders')
                 PROVE  /\ orders'[i].status = "fulfilled"
                        /\ orders'[i].total = orders'[i].price * orders'[i].quantity
                        /\ prices'[i].price = orders'[i].price
                        /\ prices'[i].volume = orders'[i].quantity
                        /\ prices'[i].ts = orders'[i].createdAt
      BY <2>1 DEF OrdersAreSales
    <2>2. CASE i <= Len(orders)
      <3>1. orders'[i] = orders[i] /\ prices'[i] = prices[i]
        BY <2>2, <1>2, <1>3, <1>4, <1>5, AppendFacts DEF MInv, OrdersAreSales
      <3> QED BY <3>1, <2>2, <1>5 DEF MInv, OrdersAreSales
    <2>3. CASE i = Len(orders) + 1
      <3>1. orders'[i] = ord /\ prices'[i] = sale
        BY <2>3, <1>2, <1>3, <1>4, <1>5, AppendFacts DEF MInv, OrdersAreSales
      <3> QED BY <3>1
    <2> QED BY <2>1, <2>2, <2>3, <1>5
  <1>8. AggregatorIsRecent'
    <2>1. /\ Len(prices') = Len(prices) + 1
          /\ \A i \in 1..Len(prices) : prices'[i] = prices[i]
          /\ prices'[Len(prices) + 1] = sale
      BY <1>3, <1>4, <1>5, AppendFacts
    <2>2. /\ Len(Append(records, sale)) = Len(records) + 1
          /\ \A i \in 1..Len(records) : Append(records, sale)[i] = records[i]
          /\ Append(records, sale)[Len(records) + 1] = sale
      BY <1>3, <1>5, AppendFacts
    <2>3. CASE Len(records) < RecordCap
      <3>1. records' = Append(records, sale)
        BY <2>3, <1>3, <1>4, <1>5, AddRecordFacts
      <3>2. Len(records) = Len(prices)
        BY <2>3, EngineAssumption DEF MInv, AggregatorIsRecent
      <3> QED BY <3>1, <3>2, <2>1, <2>2, <2>3, <1>5, EngineAssumption
              DEF MInv, AggregatorIsRecent
    <2>4. CASE Len(records) = RecordCap
      <3>1. /\ Len(records') = RecordCap
            /\ \A i \in 1..RecordCap : records'[i] = Append(records, sale)[i + 1]
        BY <2>4, <1>3, <1>4, <1>5, AddRecordFacts
      <3>2. Len(prices) \in Nat /\ Len(prices) >= RecordCap
        BY <2>4, <1>5, EngineAssumption DEF MInv, AggregatorIsRecent
      <3>3. ASSUME NEW i \in 1..RecordCap
            PROVE  records'[i] = prices'[Len(prices') - RecordCap + i]
        <4>1. CASE i = RecordCap
          BY <4>1, <3>1, <3>2, <2>1, <2>2, <2>4, EngineAssumption
        <4>2. CASE i < RecordCap
          <5>1. i + 1 \in 1..Len(records)
            BY <4>2, <2>4, EngineAssumption
          <5>2. records'[i] = records[i + 1]
            BY <5>1, <3>1, <2>2
          <5>3. records[i + 1] = prices[Len(prices) - Len(records) + (i + 1)]
            BY <5>1 DEF MInv, AggregatorIsRecent
          <5>4. /\ Len(prices) - Len(records) + (i + 1) \in 1..Len(prices)
                /\ Len(prices) - Len(records) + (i + 1) = Len(prices') - RecordCap + i
            <6>1. Len(prices') = Len(prices) + 1
              BY <2>1
            <6>2. RecordCap \in Nat /\ i \in Nat /\ i >= 1 /\ i < RecordCap
              BY <4>2, EngineAssumption
            <6> QED BY <6>1, <6>2, <3>2, <2>4
          <5> QED BY <5>2, <5>3, <5>4, <2>1
        <4> QED BY <4>1, <4>2, EngineAssumption
      <3>4. Len(prices') \in Nat /\ ~(Len(prices') < RecordCap)
        <4>1. Len(prices') = Len(prices) + 1 /\ RecordCap \in Nat
          BY <2>1, EngineAssumption
        <4> QED BY <4>1, <3>2
      <3> QED BY <3>1, <3>3, <3>4 DEF AggregatorIsRecent
    <2> QED BY <2>3, <2>4, <1>5, EngineAssumption
  <1>9. Chronological'
    <2>1. /\ DOMAIN prices = 1..Len(prices) /\ Len(prices) \in Nat
          /\ DOMAIN prices' = 1..(Len(prices) + 1)
          /\ \A i \in DOMAIN prices : prices'[i] = prices[i]
          /\ prices'[Len(prices) + 1].ts = now
      BY <1>3, <1>4, <1>5, AppendFacts
    <2>2. \A i \in DOMAIN prices' : i \in DOMAIN prices \/ i = Len(prices) + 1
      BY <2>1
    <2>3. \A i \in DOMAIN prices : ~(Len(prices) + 1 <= i)
      BY <2>1
    <2>4. now' = now /\ now <= now
      BY <1>1, <1>4, MarketAssumption DEF Time
    <2> QED BY <2>1, <2>2, <2>3, <2>4 DEF MInv, Chronological
  <1> QED BY <1>6, <1>7, <1>8, <1>9 DEF MInv

LEMMA MStep == MInv /\ [Next]_vars => MInv'
  <1> SUFFICES ASSUME MInv, [Next]_vars PROVE MInv'
    OBVIOUS
  <1>1. ASSUME NEW o \in OfferIds, NEW s \in Specs, NEW p \in Prices,
               NEW a \in Stocks, NEW v \in ValidUntils,
               CreateOffer(o, s, p, a, v)
        PROVE  MInv'
    <2>1. now + D7 \in Nat /\ a \in Available /\ a \in Int /\ v \in Nat
      BY MarketAssumption, EngineAssumption DEF MInv, TypeOK, Time, Available
    <2>2. /\ offers' \in [DOMAIN offers' -> Offer]
          /\ DOMAIN offers' = DOMAIN offers \cup {o}
      BY <1>1, <2>1 DEF CreateOffer, Put, MInv, TypeOK, Offer, OfferStatus
    <2>3. supplied' \in [OfferIds -> Int]
      BY <1>1, <2>1 DEF CreateOffer, MInv, TypeOK
    <2>4. TypeOK'
      BY <1>1, <2>2, <2>3 DEF CreateOffer, MInv, TypeOK
    <2> QED BY <1>1, <2>4 DEF CreateOffer, MInv, OrdersAreSales, AggregatorIsRecent, Chronological
  <1>2. ASSUME NEW o \in DOMAIN offers,
               NEW p \in Prices \cup {offers[o].price},
               NEW a \in Stocks \cup {offers[o].available},
               NEW v \in ValidUntils \cup {offers[o].validUntil},
               UpdateOffer(o, p, a, v)
        PROVE  MInv'
    <2>1. /\ p \in Prices /\ a \in Available /\ a \in Int /\ v \in Nat
          /\ offers[o] \in Offer /\ offers[o].available \in Int /\ o \in OfferIds
      BY MarketAssumption DEF MInv, TypeOK, Offer, Available
    <2>2. /\ offers' \in [DOMAIN offers' -> Offer]
          /\ DOMAIN offers' = DOMAIN offers
      BY <1>2, <2>1 DEF UpdateOffer, MInv, TypeOK, Offer
    <2>3. supplied' \in [OfferIds -> Int]
      BY <1>2, <2>1 DEF UpdateOffer, MInv, TypeOK
    <2>4. TypeOK'
      BY <1>2, <2>2, <2>3 DEF UpdateOffer, MInv, TypeOK
    <2> QED BY <1>2, <2>4 DEF UpdateOffer, MInv, OrdersAreSales, AggregatorIsRecent, Chronological
  <1>3. ASSUME NEW o \in DOMAIN offers, DeleteOffer(o) PROVE MInv'
    <2>1. TypeOK'
      <3>1. supplied' \in [OfferIds -> Int]
        BY <1>3 DEF DeleteOffer, MInv, TypeOK
      <3> QED BY <1>3, <3>1 DEF DeleteOffer, Remove, MInv, TypeOK
    <2> QED BY <1>3, <2>1 DEF DeleteOffer, MInv, OrdersAreSales, AggregatorIsRecent, Chronological
  <1>4. ASSUME NEW o \in DOMAIN offers, NEW q \in Quantities, CreateOrder(o, q)
        PROVE  MInv'
    BY <1>4, OrderStep
  <1>5. ASSUME NEW i \in DOMAIN orders, CancelOrder(i) PROVE MInv'
    <2>1. orders[i].status = "fulfilled"
      BY DEF MInv, TypeOK, OrdersAreSales
    <2>2. UNCHANGED vars
      BY <1>5, <2>1 DEF CancelOrder, vars
    <2> QED BY <2>2 DEF vars, MInv, TypeOK, OrdersAreSales, AggregatorIsRecent, Chronological
  <1>6. CASE Tick
    <2>1. TypeOK' /\ OrdersAreSales' /\ AggregatorIsRecent'
      BY <1>6, MarketAssumption DEF Tick, MInv, TypeOK, Time, OrdersAreSales, AggregatorIsRecent
    <2>2. prices' = prices /\ now' = now + 1 /\ now \in Int
      BY <1>6, MarketAssumption DEF Tick, MInv, TypeOK, Time
    <2>3. ASSUME NEW i \in DOMAIN prices PROVE prices[i].ts \in Int
      <3>1. prices[i] \in PriceRecord
        BY DEF MInv, TypeOK
      <3> QED BY <3>1, MarketAssumption DEF PriceRecord, Time
    <2>4. Chronological'
      BY <2>2, <2>3 DEF MInv, Chronological
    <2> QED BY <2>1, <2>4 DEF MInv
  <1>7. CASE UNCHANGED vars
    BY <1>7 DEF vars, MInv, TypeOK, OrdersAreSales, AggregatorIsRecent, Chronological
  <1> QED BY <1>1, <1>2, <1>3, <1>4, <1>5, <1>6, <1>7 DEF Next

-----------------------------------------------------------------------------
(* Stock *)

Taken(s, o) == SumFunctionOnSet([i \in DOMAIN s |-> s[i].quantity],
                                {i \in DOMAIN s : s[i].offer = o})

LEMMA OrderQuantity == ASSUME NEW e \in Order PROVE e.quantity \in Int
  <1>1. e.quantity \in Quantities
    BY DEF Order
  <1>2. \A q \in Quantities : q \in Int
    BY MarketAssumption
  <1> QED BY <1>1, <1>2

LEMMA NumbersFinite ==
  ASSUME NEW n \in Nat, NEW S, S \subseteq 1..n
  PROVE  IsFiniteSet(S)
  <1>1. IsFiniteSet(1..n)
    BY FS_Interval
  <1> QED BY <1>1, FS_Subset

\* The units of an offer that are taken grow by an order's quantity when the
\* order is for that offer.
LEMMA TakenAppend ==
  ASSUME NEW s \in Seq(Order), NEW e \in Order, NEW o
  PROVE  /\ Taken(s, o) \in Int /\ e.quantity \in Int
         /\ Taken(Append(s, e), o) =
              IF e.offer = o THEN Taken(s, o) + e.quantity ELSE Taken(s, o)
  <1> DEFINE t == Append(s, e)
             n == Len(s) + 1
             f == [i \in DOMAIN s |-> s[i].quantity]
             g == [i \in DOMAIN t |-> t[i].quantity]
             S == {i \in DOMAIN s : s[i].offer = o}
             T == {i \in DOMAIN t : t[i].offer = o}
  <1>1. /\ Len(s) \in Nat /\ DOMAIN s = 1..Len(s) /\ DOMAIN t = 1..n
        /\ t[n] = e /\ \A i \in DOMAIN s : t[i] = s[i] /\ s[i] \in Order
    OBVIOUS
  <1>2. e.quantity \in Int /\ \A i \in DOMAIN s : s[i].quantity \in Int
    BY <1>1, OrderQuantity
  <1> HIDE DEF t
  <1>3. DOMAIN t = DOMAIN s \cup {n} /\ n \notin DOMAIN s
    BY <1>1 DEF n
  <1>4. IsFiniteSet(S)
    BY <1>1, NumbersFinite
  <1>5. \A i \in S : f[i] \in Int /\ g[i] = f[i]
    BY <1>1, <1>2, <1>3
  <1>6. g[n] = e.quantity /\ n \notin S
    BY <1>1, <1>3
  <1>7. T = IF e.offer = o THEN S \cup {n} ELSE S
    BY <1>1, <1>3
  <1> HIDE DEF f, g, S, T, n
  <1>8. SumFunctionOnSet(f, S) \in Int /\ SumFunctionOnSet(g, S) = SumFunctionOnSet(f, S)
    BY <1>4, <1>5, SumInt, SumExtensional
  <1>9. SumFunctionOnSet(g, S \cup {n}) = SumFunctionOnSet(g, S) + g[n]
    BY <1>2, <1>4, <1>5, <1>6, SumAdd
  <1>10. SumFunctionOnSet(g, T) =
           IF e.offer = o THEN SumFunctionOnSet(f, S) + e.quantity ELSE SumFunctionOnSet(f, S)
    BY <1>6, <1>7, <1>8, <1>9
  <1>11. Taken(s, o) = SumFunctionOnSet(f, S) /\ Taken(t, o) = SumFunctionOnSet(g, T)
    BY DEF Taken, f, g, S, T
  <1> QED BY <1>2, <1>8, <1>10, <1>11 DEF t

\* No order is for an offer whose id was never issued.
OrdersAreIssued == \A i \in 1..Len(orders) : orders[i].offer \in issued

LEMMA NothingTaken ==
  ASSUME MInv, OrdersAreIssued, NEW o, o \notin issued
  PROVE  SoldUnits(o) = 0
  <1>1. orders \in Seq(Order)
    BY DEF MInv, TypeOK
  <1>2. DOMAIN orders = 1..Len(orders)
    BY <1>1
  <1>3. \A i \in DOMAIN orders : orders[i].offer # o
    BY <1>2 DEF OrdersAreIssued
  <1>4. {i \in DOMAIN orders : orders[i].offer = o} = {}
    BY <1>3
  <1> QED BY <1>4, SumEmpty DEF SoldUnits

LEMMA SoldIsTaken == \A o : SoldUnits(o) = Taken(orders, o)
  BY DEF SoldUnits, Taken

SInv == MInv /\ OrdersAreIssued /\ StockConserved

LEMMA SInit == Init => SInv
  BY MInit DEF Init, SInv, OrdersAreIssued, StockConserved

LEMMA SStep == SInv /\ [Next]_vars => SInv'
  <1> SUFFICES ASSUME SInv, [Next]_vars PROVE SInv'
    OBVIOUS
  <1>1. /\ MInv /\ MInv' /\ offers \in [DOMAIN offers -> Offer]
        /\ supplied \in [OfferIds -> Int] /\ orders \in Seq(Order)
        /\ DOMAIN offers \subseteq issued /\ issued \subseteq OfferIds
    BY MStep DEF SInv, MInv, TypeOK
  <1>2. \A x \in DOMAIN offers : offers[x].available = supplied[x] - SoldUnits(x)
    BY DEF SInv, StockConserved
  <1>3. ASSUME orders' = orders PROVE \A x : SoldUnits(x)' = SoldUnits(x)
    BY <1>3 DEF SoldUnits
  <1>4. \A x \in DOMAIN offers : offers[x].available \in Int /\ SoldUnits(x) \in Int
    <2>1. \A x : SoldUnits(x) \in Int
      <3> SUFFICES ASSUME NEW x PROVE Taken(orders, x) \in Int
        BY SoldIsTaken
      <3>1. DOMAIN orders = 1..Len(orders) /\ Len(orders) \in Nat
        BY <1>1
      <3>2. \A i \in DOMAIN orders : orders[i].quantity \in Int
        BY <1>1, OrderQuantity
      <3>3. IsFiniteSet({i \in DOMAIN orders : orders[i].offer = x})
        BY <3>1, NumbersFinite
      <3> QED BY <3>2, <3>3, SumInt DEF Taken
    <2> QED BY <1>1, <2>1, MarketAssumption DEF Offer, Available
  <1>5. ASSUME NEW o \in OfferIds, NEW s \in Specs, NEW p \in Prices,
               NEW a \in Stocks, NEW v \in ValidUntils,
               CreateOffer(o, s, p, a, v)
        PROVE  SInv'
    <2>1. /\ o \notin issued /\ issued' = issued \cup {o} /\ orders' = orders
          /\ DOMAIN offers' = DOMAIN offers \cup {o}
          /\ offers'[o].available = a /\ supplied'[o] = a /\ a \in Int
          /\ \A x \in DOMAIN offers : offers'[x] = offers[x] /\ supplied'[x] = supplied[x]
      BY <1>1, <1>5, MarketAssumption DEF CreateOffer, Put
    <2>2. SoldUnits(o) = 0
      BY <2>1, NothingTaken DEF SInv
    <2>3. StockConserved'
      BY <1>2, <1>3, <2>1, <2>2 DEF StockConserved
    <2> QED BY <1>1, <2>1, <2>3 DEF SInv, OrdersAreIssued
  <1>6. ASSUME NEW o \in DOMAIN offers, NEW p, NEW v,
               NEW a \in Stocks \cup {offers[o].available},
               UpdateOffer(o, p, a, v)
        PROVE  SInv'
    <2>1. /\ issued' = issued /\ orders' = orders /\ DOMAIN offers' = DOMAIN offers
          /\ a \in Int /\ supplied[o] \in Int
          /\ offers'[o].available = a
          /\ supplied'[o] = supplied[o] + a - offers[o].available
          /\ \A x \in DOMAIN offers \ {o} :
                offers'[x] = offers[x] /\ supplied'[x] = supplied[x]
      <3>1. a \in Int /\ supplied[o] \in Int /\ o \in OfferIds /\ offers[o] \in Offer
        BY <1>1, <1>4, <1>6, MarketAssumption
      <3>2. issued' = issued /\ orders' = orders /\ DOMAIN offers' = DOMAIN offers
        BY <1>1, <1>6 DEF UpdateOffer
      <3>3. /\ offers'[o].available = a
            /\ \A x \in DOMAIN offers \ {o} : offers'[x] = offers[x]
        BY <1>1, <1>6, <3>1 DEF UpdateOffer, Offer
      <3>4. /\ supplied'[o] = supplied[o] + a - offers[o].available
            /\ \A x \in DOMAIN offers \ {o} : supplied'[x] = supplied[x]
        BY <1>1, <1>6, <3>1 DEF UpdateOffer
      <3> QED BY <3>1, <3>2, <3>3, <3>4
    <2>2. StockConserved'
      BY <1>2, <1>3, <1>4, <2>1 DEF StockConserved
    <2> QED BY <1>1, <2>1, <2>2 DEF SInv, OrdersAreIssued
  <1>7. ASSUME NEW o \in DOMAIN offers, DeleteOffer(o) PROVE SInv'
    <2>1. StockConserved'
      BY <1>2, <1>3, <1>7 DEF DeleteOffer, Remove, StockConserved
    <2> QED BY <1>1, <1>7, <2>1 DEF DeleteOffer, SInv, OrdersAreIssued
  <1>8. ASSUME NEW o \in DOMAIN offers, NEW q \in Quantities, CreateOrder(o, q)
        PROVE  SInv'
    <2> DEFINE e == [offer |-> o, quantity |-> q, price |-> offers[o].price,
                     total |-> offers[o].price * q, status |-> "fulfilled",
                     createdAt |-> now]
    <2>1. orders' = Append(orders, e) /\ e.offer = o /\ e.quantity = q
      BY <1>8 DEF CreateOrder
    <2>2. e \in Order
      <3>1. orders' \in Seq(Order) /\ Len(orders') = Len(orders) + 1
        BY <1>1, <2>1 DEF MInv, TypeOK
      <3>2. orders'[Len(orders) + 1] = e
        BY <1>1, <2>1
      <3> QED BY <1>1, <3>1, <3>2
    <2> HIDE DEF e
    <2>3. /\ issued' = issued /\ supplied' = supplied /\ DOMAIN offers' = DOMAIN offers
          /\ offers'[o].available = offers[o].available - q
          /\ \A x \in DOMAIN offers \ {o} : offers'[x] = offers[x]
      BY <1>1, <1>8 DEF CreateOrder, matchOrder, Offer
    <2>4. \A x : SoldUnits(x)' = Taken(Append(orders, e), x)
      BY <2>1 DEF SoldUnits, Taken
    <2>5. \A x : Taken(Append(orders, e), x) =
                   IF x = o THEN SoldUnits(x) + q ELSE SoldUnits(x)
      BY <1>1, <2>1, <2>2, SoldIsTaken, TakenAppend
    <2>6. StockConserved'
      <3> SUFFICES ASSUME NEW x \in DOMAIN offers
                   PROVE  offers'[x].available = supplied[x] - SoldUnits(x)'
        BY <2>3 DEF StockConserved
      <3>1. supplied[x] \in Int /\ q \in Int
        BY <1>1, MarketAssumption
      <3> QED BY <1>2, <1>4, <2>3, <2>4, <2>5, <3>1
    <2>7. OrdersAreIssued'
      <3>1. \A i \in 1..Len(orders) : orders'[i] = orders[i]
        BY <1>1, <2>1, <2>2, AppendFacts
      <3>2. Len(orders') = Len(orders) + 1 /\ orders'[Len(orders) + 1] = e
        BY <1>1, <2>1, <2>2, AppendFacts
      <3>3. \A i \in 1..(Len(orders) + 1) : i \in 1..Len(orders) \/ i = Len(orders) + 1
        BY <1>1
      <3> QED BY <1>1, <2>1, <2>3, <3>1, <3>2, <3>3 DEF SInv, OrdersAreIssued
    <2> QED BY <1>1, <2>6, <2>7 DEF SInv
  <1>9. CASE UNCHANGED <<offers, orders, issued, supplied>>
    BY <1>1, <1>3, <1>9 DEF SInv, OrdersAreIssued, StockConserved
  <1>10. ASSUME NEW i \in DOMAIN orders, CancelOrder(i) PROVE SInv'
    <2>1. orders' = orders
      BY <1>1, <1>10 DEF CancelOrder, MInv, TypeOK, OrdersAreSales
    <2> QED BY <1>9, <1>10, <2>1 DEF CancelOrder
  <1> QED BY <1>5, <1>6, <1>7, <1>8, <1>9, <1>10 DEF Next, Tick, vars

-----------------------------------------------------------------------------
(* The loop of GetPriceInfo *)

Tallying(w, price, window) ==
    IF window THEN TallyWindow(w, price) ELSE TallyAll(w, price)

\* What the loop makes of record i when it had prev after record i - 1.
TallyNext(s, counted, window, i, prev) ==
    IF i = 0 THEN NoSales
    ELSE IF i \notin counted THEN prev
    ELSE Tallying(prev, s[i].price, window)

IsTally(s, counted, window, n, t) ==
    t = [i \in 0..n |-> TallyNext(s, counted, window, i, t[i - 1])]

LEMMA TallyExists ==
  ASSUME NEW s, NEW counted, NEW window
  PROVE  \A n \in Nat : \E t : IsTally(s, counted, window, n, t)
  <1> DEFINE Good == {n \in Nat : \E t : IsTally(s, counted, window, n, t)}
             Nx(i, prev) == TallyNext(s, counted, window, i, prev)
  <1>1. 0 \in Good
    <2> DEFINE t == [i \in 0..0 |-> NoSales]
    <2>1. t = [i \in 0..0 |-> Nx(i, t[i - 1])]
      BY DEF TallyNext
    <2> QED BY <2>1 DEF IsTally
  <1>2. ASSUME NEW n \in Nat, n \in Good PROVE n + 1 \in Good
    <2>1. PICK t : t = [i \in 0..n |-> Nx(i, t[i - 1])]
      BY <1>2 DEF IsTally
    <2> DEFINE u == [i \in 0..(n + 1) |-> IF i = n + 1 THEN Nx(i, t[n]) ELSE t[i]]
    <2> HIDE DEF Nx
    <2>2. \A i \in 0..(n + 1) : u[i] = Nx(i, u[i - 1])
      <3> SUFFICES ASSUME NEW i \in 0..(n + 1) PROVE u[i] = Nx(i, u[i - 1])
        OBVIOUS
      <3>1. CASE i = n + 1
        <4>1. u[i - 1] = t[n]
          BY <3>1
        <4> QED BY <3>1, <4>1
      <3>2. CASE i \in 1..n
        <4>1. u[i - 1] = t[i - 1] /\ u[i] = t[i] /\ t[i] = Nx(i, t[i - 1])
          BY <2>1, <3>2
        <4> QED BY <4>1
      <3>3. CASE i = 0
        <4>1. u[i] = Nx(i, t[i - 1])
          BY <2>1, <3>3
        <4> QED BY <3>3, <4>1 DEF Nx, TallyNext
      <3> QED BY <3>1, <3>2, <3>3
    <2>3. u = [i \in 0..(n + 1) |-> Nx(i, u[i - 1])]
      <3> DEFINE v == [i \in 0..(n + 1) |-> Nx(i, u[i - 1])]
      <3>1. DOMAIN u = DOMAIN v /\ \A i \in DOMAIN u : u[i] = v[i]
        BY <2>2
      <3>2. u = [i \in DOMAIN u |-> u[i]] /\ v = [i \in DOMAIN v |-> v[i]]
        OBVIOUS
      <3> HIDE DEF u, v
      <3>3. u = v
        BY <3>1, <3>2
      <3> QED BY <3>3 DEF v
    <2> HIDE DEF u
    <2> QED BY <2>3 DEF IsTally, Nx
  <1> HIDE DEF Good
  <1>3. Nat \subseteq Good
    BY <1>1, <1>2, NatSetInduction
  <1> QED BY <1>3 DEF Good

LEMMA TallyIs ==
  ASSUME NEW s, Len(s) \in Nat, NEW counted, NEW window
  PROVE  \E t : /\ IsTally(s, counted, window, Len(s), t)
                /\ TallyOf(s, counted, window) = t[Len(s)]
  <1> DEFINE t == CHOOSE u : IsTally(s, counted, window, Len(s), u)
  <1>1. IsTally(s, counted, window, Len(s), t)
    BY TallyExists
  <1>2. TallyOf(s, counted, window) = t[Len(s)]
    BY DEF TallyOf, IsTally, TallyNext, Tallying
  <1> HIDE DEF t
  <1> QED BY <1>1, <1>2

\* m is the least of the prices p of U.
Least(m, U, p) == (\E j \in U : m = p[j]) /\ \A j \in U : m <= p[j]

\* The numbers in U after the last free sale, and whether a price is negative.
Afterwards(U, p) == {i \in U : \A j \in U : p[j] = 0 => j < i}
Negative(U, p)   == \E j \in U : p[j] < 0

\* The tally w is about the sales of U, at the prices p.
Tallied(w, U, p, window) ==
    /\ w.count = Cardinality(U) /\ w.total = SumFunctionOnSet(p, U)
    /\ w.min \in Int /\ w.max \in Nat
    /\ \A j \in U : p[j] <= w.max
    /\ w.max = 0 \/ \E j \in U : w.max = p[j]
    /\ U = {} => w.min = 0
    /\ U # {} /\ (~window \/ Negative(U, p)) => Least(w.min, U, p)
    /\ window /\ ~Negative(U, p) =>
          IF Afterwards(U, p) = {} THEN w.min = 0 ELSE Least(w.min, Afterwards(U, p), p)

\* What the loop's step for one price does to the lowest of a window, and what that
\* is about: a free sale forgets the earlier prices unless one was negative.
LEMMA WindowMinGrows ==
  ASSUME NEW U, U \subseteq Int, NEW p, NEW j \in Int, \A x \in U : x < j,
         \A x \in U \cup {j} : p[x] \in Int,
         NEW m \in Int, NEW n, n = IF m = 0 \/ p[j] < m THEN p[j] ELSE m,
         U = {} => m = 0,
         Negative(U, p) => Least(m, U, p),
         ~Negative(U, p) =>
            IF Afterwards(U, p) = {} THEN m = 0 ELSE Least(m, Afterwards(U, p), p)
  PROVE  LET V == U \cup {j} IN
         /\ Negative(V, p) => Least(n, V, p)
         /\ ~Negative(V, p) =>
               IF Afterwards(V, p) = {} THEN n = 0 ELSE Least(n, Afterwards(V, p), p)
  <1> DEFINE V == U \cup {j}
  <1>1. p[j] \in Int
    OBVIOUS
  <1>2. CASE Negative(U, p)
    <2>1. m < 0
      BY <1>2 DEF Negative, Least
    <2>2. Negative(V, p)
      BY <1>2 DEF Negative
    <2>3. n = IF p[j] < m THEN p[j] ELSE m
      BY <2>1
    <2>4. Least(n, V, p)
      BY <1>1, <1>2, <2>3 DEF Least
    <2> QED BY <2>2, <2>4
  <1>3. CASE ~Negative(U, p)
    <2>1. \A x \in U : p[x] >= 0
      BY <1>3 DEF Negative
    <2>2. m >= 0
      BY <1>3, <2>1 DEF Least, Afterwards
    <2>3. CASE p[j] < 0
      <3>1. n = p[j] /\ Negative(V, p)
        BY <1>1, <2>2, <2>3 DEF Negative
      <3>2. Least(n, V, p)
        BY <1>1, <2>1, <2>3, <3>1 DEF Least
      <3> QED BY <3>1, <3>2
    <2>4. CASE p[j] = 0
      <3>1. n = 0
        BY <2>2, <2>4
      <3>2. Afterwards(V, p) = {}
        <4>1. \A x \in V : ~(j < x) /\ (x < j \/ x = j)
          OBVIOUS
        <4>2. ~(j < j) /\ j \in V
          OBVIOUS
        <4>3. \A x \in V : x # j => ~(j < x)
          BY <4>1
        <4> QED BY <2>4, <4>1, <4>2 DEF Afterwards
      <3>3. ~Negative(V, p)
        BY <1>3, <2>4 DEF Negative
      <3> QED BY <3>1, <3>2, <3>3
    <2>5. CASE p[j] > 0
      <3>1. ~Negative(V, p)
        BY <1>3, <2>5 DEF Negative
      <3>2. Afterwards(V, p) = Afterwards(U, p) \cup {j}
        BY <2>5 DEF Afterwards
      <3>3. CASE Afterwards(U, p) = {}
        <4>1. n = p[j]
          BY <1>3, <3>3
        <4> QED BY <1>1, <3>1, <3>2, <3>3, <4>1 DEF Least
      <3>4. CASE Afterwards(U, p) # {}
        <4>1. Least(m, Afterwards(U, p), p)
          BY <1>3, <3>4
        <4>2. \A x \in Afterwards(U, p) : p[x] # 0 /\ p[x] \in Int
          BY DEF Afterwards
        <4>3. m # 0
          BY <4>1, <4>2 DEF Least
        <4>4. n = IF p[j] < m THEN p[j] ELSE m
          BY <4>3
        <4>5. Least(n, Afterwards(U, p) \cup {j}, p)
          BY <1>1, <4>1, <4>2, <4>4 DEF Least
        <4> QED BY <3>1, <3>2, <4>5
      <3> QED BY <3>3, <3>4
    <2> QED BY <1>1, <2>3, <2>4, <2>5
  <1> QED BY <1>2, <1>3

LEMMA TallyGrows ==
  ASSUME NEW w, NEW U, IsFiniteSet(U), U \subseteq Int, NEW p,
         NEW j \in Int, \A x \in U : x < j,
         \A x \in U \cup {j} : p[x] \in Int,
         NEW window, Tallied(w, U, p, window)
  PROVE  Tallied(Tallying(w, p[j], window), U \cup {j}, p, window)
  <1> DEFINE V == U \cup {j}
             none == IF window THEN w.min = 0 ELSE w.count = 0
             v == Tally(w, p[j], none)
  <1>1. v = Tallying(w, p[j], window)
    BY DEF Tallying, TallyWindow, TallyAll
  <1>2. /\ v.count = w.count + 1 /\ v.total = w.total + p[j]
        /\ v.min = (IF none \/ p[j] < w.min THEN p[j] ELSE w.min)
        /\ v.max = (IF p[j] > w.max THEN p[j] ELSE w.max)
    BY DEF Tally
  <1> HIDE DEF v
  <1>0. j \notin U
    OBVIOUS
  <1>3. v.count = Cardinality(V)
    BY <1>0, <1>2, FS_AddElement DEF Tallied
  <1>4. v.total = SumFunctionOnSet(p, V)
    <2>1. \A x \in V : p[x] \in Int
      OBVIOUS
    <2>2. SumFunctionOnSet(p, U \cup {j}) = SumFunctionOnSet(p, U) + p[j]
      BY <1>0, <2>1, SumAdd
    <2> QED BY <1>2, <2>2 DEF Tallied
  <1>5. /\ w.min \in Int /\ w.max \in Nat /\ p[j] \in Int /\ (w.count = 0) = (U = {})
    BY FS_EmptySet DEF Tallied
  <1>6. v.min \in Int /\ v.max \in Nat
    BY <1>2, <1>5
  <1>7. (v.max = 0 \/ \E x \in V : v.max = p[x]) /\ \A x \in V : p[x] <= v.max
    BY <1>2, <1>5 DEF Tallied
  <1>8. CASE window
    <2>1. /\ U = {} => w.min = 0
          /\ Negative(U, p) => Least(w.min, U, p)
          /\ ~Negative(U, p) =>
                IF Afterwards(U, p) = {} THEN w.min = 0
                ELSE Least(w.min, Afterwards(U, p), p)
      BY <1>8 DEF Tallied, Negative
    <2>2. v.min = IF w.min = 0 \/ p[j] < w.min THEN p[j] ELSE w.min
      BY <1>2, <1>8
    <2>3. /\ Negative(V, p) => Least(v.min, V, p)
          /\ ~Negative(V, p) =>
                IF Afterwards(V, p) = {} THEN v.min = 0
                ELSE Least(v.min, Afterwards(V, p), p)
      BY <1>5, <2>1, <2>2, WindowMinGrows
    <2> QED BY <1>1, <1>3, <1>4, <1>6, <1>7, <1>8, <2>3 DEF Tallied
  <1>9. CASE ~window
    <2>1. v.min = IF U = {} \/ p[j] < w.min THEN p[j] ELSE w.min
      BY <1>2, <1>5, <1>9
    <2>2. U # {} => Least(w.min, U, p)
      BY <1>9 DEF Tallied
    <2>3. Least(v.min, V, p)
      BY <1>5, <2>1, <2>2 DEF Least
    <2> QED BY <1>1, <1>3, <1>4, <1>6, <1>7, <1>9, <2>3 DEF Tallied
  <1> QED BY <1>8, <1>9

\* The loop over the last records of a log makes the tally of those that are
\* counted: S has their numbers in the log, which off sales precede.
LEMMA TallyOfSales ==
  ASSUME NEW s, Len(s) \in Nat, NEW p, NEW off \in Nat,
         \A i \in 1..Len(s) : s[i].price = p[off + i] /\ p[off + i] \in Int,
         NEW S, S \subseteq (off + 1)..(off + Len(s)),
         NEW counted, \A i \in 1..Len(s) : (i \in counted) = (off + i \in S),
         NEW window
  PROVE  Tallied(TallyOf(s, counted, window), S, p, window)
  <1>0. \A j \in S : j \in Int /\ off < j /\ j <= off + Len(s)
    OBVIOUS
  <1>1. PICK t : /\ IsTally(s, counted, window, Len(s), t)
                 /\ TallyOf(s, counted, window) = t[Len(s)]
    BY TallyIs
  <1> DEFINE Upto(n) == {j \in S : j <= off + n}
             Good == {n \in Nat : n <= Len(s) => Tallied(t[n], Upto(n), p, window)}
  <1>6. \A n \in Nat : \A x \in Upto(n) : x \in Int /\ x <= off + n
    BY <1>0
  <1>2. 0 \in Good
    <2>1. t[0] = NoSales
      BY <1>1 DEF IsTally, TallyNext
    <2>2. Upto(0) = {}
      <3>1. off + 0 = off
        OBVIOUS
      <3>2. \A x \in S : ~(x <= off)
        BY <1>0
      <3> QED BY <3>1, <3>2
    <2>3. Tallied(NoSales, {}, p, window)
      BY SumEmpty, FS_EmptySet DEF Tallied, NoSales, Negative, Afterwards
    <2> HIDE DEF Upto
    <2> QED BY <2>1, <2>2, <2>3
  <1>3. ASSUME NEW n \in Nat, n \in Good PROVE n + 1 \in Good
    <2> SUFFICES ASSUME n + 1 <= Len(s)
                 PROVE  Tallied(t[n + 1], Upto(n + 1), p, window)
      OBVIOUS
    <2> DEFINE i == n + 1
               j == off + i
    <2>1. /\ i \in 1..Len(s) /\ i # 0 /\ i - 1 = n /\ i \in 0..Len(s) /\ j \in Nat
          /\ s[i].price = p[j] /\ (i \in counted) = (j \in S)
      OBVIOUS
    <2>2. Tallied(t[n], Upto(n), p, window)
      BY <1>3
    <2>3. t[i] = TallyNext(s, counted, window, i, t[n])
      BY <1>1, <2>1 DEF IsTally
    <2>4. IsFiniteSet(Upto(n)) /\ Upto(n) \subseteq Int /\ \A x \in Upto(n) : x < j
      <3>1. Upto(n) \subseteq 1..(off + Len(s)) /\ off + Len(s) \in Nat
        <4>1. \A x \in S : x \in 1..(off + Len(s))
          BY <1>0
        <4>2. off + Len(s) \in Nat
          OBVIOUS
        <4>3. Upto(n) \subseteq S
          OBVIOUS
        <4> HIDE DEF Upto
        <4> QED BY <4>1, <4>2, <4>3
      <3>2. Upto(n) \subseteq Int /\ \A x \in Upto(n) : x < j
        <4>1. \A x \in Upto(n) : x \in Int /\ x <= off + n
          BY <1>6
        <4>2. off + n \in Int /\ j = off + n + 1
          OBVIOUS
        <4> HIDE DEF Upto, i, j
        <4> QED BY <4>1, <4>2
      <3> QED BY <3>1, <3>2, NumbersFinite
    <2>5. Upto(i) = IF j \in S THEN Upto(n) \cup {j} ELSE Upto(n)
      <3>1. \A x \in S : (x <= off + i) = (x <= off + n \/ x = j)
        <4>1. \A x \in Int : (x <= off + i) = (x <= off + n \/ x = j)
          OBVIOUS
        <4> HIDE DEF i, j
        <4> QED BY <1>0, <4>1
      <3> HIDE DEF i, j
      <3>2. j <= off + n => FALSE
        BY DEF i, j
      <3> QED BY <3>1, <3>2
    <2>6. \A x \in Upto(n) \cup {j} : p[x] \in Int
      <3> SUFFICES ASSUME NEW x \in Upto(n) \cup {j} PROVE p[x] \in Int
        OBVIOUS
      <3>1. x \in (off + 1)..(off + Len(s))
        BY <2>1
      <3>2. x - off \in 1..Len(s) /\ off + (x - off) = x
        BY <3>1
      <3> QED BY <3>2
    <2> HIDE DEF Upto, i, j
    <2>7. CASE j \in S
      <3>1. t[i] = Tallying(t[n], p[j], window)
        BY <2>1, <2>3, <2>7 DEF TallyNext
      <3>2. Tallied(Tallying(t[n], p[j], window), Upto(n) \cup {j}, p, window)
        <4>1. \A w, U : Tallied(w, U, p, window) /\ IsFiniteSet(U) /\ U \subseteq Int
                         /\ (\A x \in U : x < j) /\ (\A x \in U \cup {j} : p[x] \in Int)
                         => Tallied(Tallying(w, p[j], window), U \cup {j}, p, window)
          <5>1. j \in Int
            BY <2>1
          <5> QED BY <5>1, TallyGrows
        <4> QED BY <2>2, <2>4, <2>6, <4>1
      <3> QED BY <2>5, <2>7, <3>1, <3>2 DEF i
    <2>8. CASE j \notin S
      <3>1. t[i] = t[n]
        BY <2>1, <2>3, <2>8 DEF TallyNext
      <3> QED BY <2>2, <2>5, <2>8, <3>1 DEF i
    <2> QED BY <2>7, <2>8
  <1> HIDE DEF Good
  <1>4. Len(s) \in Good
    BY <1>2, <1>3, NatSetInduction
  <1>5. Upto(Len(s)) = S
    BY <1>0
  <1> HIDE DEF Upto
  <1> QED BY <1>1, <1>4, <1>5 DEF Good

-----------------------------------------------------------------------------
(* The statistics *)

Skipped == Len(prices) - Len(records)   \* sales the aggregator has dropped
Paid    == [i \in DOMAIN prices |-> prices[i].price]

LEMMA SaleFacts ==
  ASSUME MInv, NEW j \in DOMAIN prices
  PROVE  prices[j].price \in Int /\ prices[j].ts \in Nat /\ Paid[j] = prices[j].price
  <1>1. prices[j] \in PriceRecord
    BY DEF MInv, TypeOK
  <1>2. prices[j].price \in Prices /\ prices[j].ts \in Time
    BY <1>1 DEF PriceRecord
  <1>3. (\A x \in Prices : x \in Int) /\ \A x \in Time : x \in Nat
    BY MarketAssumption DEF Time
  <1> QED BY <1>2, <1>3 DEF Paid

\* The log of the aggregator is the end of the log of the market.
LEMMA LogFacts ==
  ASSUME MInv
  PROVE  /\ Len(prices) \in Nat /\ DOMAIN prices = 1..Len(prices)
         /\ Len(records) \in Nat /\ DOMAIN records = 1..Len(records)
         /\ Skipped \in Nat /\ Len(prices) = Skipped + Len(records)
         /\ \A i \in 1..Len(records) : /\ Skipped + i \in DOMAIN prices
                                       /\ records[i] = prices[Skipped + i]
         /\ \A j \in DOMAIN prices : (j > Len(prices) - RecordCap) = (j > Skipped)
  <1>1. /\ Len(prices) \in Nat /\ DOMAIN prices = 1..Len(prices)
        /\ Len(records) \in Nat /\ DOMAIN records = 1..Len(records)
    BY DEF MInv, TypeOK
  <1>2. /\ Len(records) = IF Len(prices) < RecordCap THEN Len(prices) ELSE RecordCap
        /\ \A i \in 1..Len(records) : records[i] = prices[Skipped + i]
    BY DEF MInv, AggregatorIsRecent, Skipped
  <1>3. RecordCap \in Nat
    BY EngineAssumption
  <1>4. Skipped \in Nat /\ Len(prices) = Skipped + Len(records)
    BY <1>1, <1>2, <1>3 DEF Skipped
  <1>5. \A i \in 1..Len(records) : Skipped + i \in DOMAIN prices
    BY <1>1, <1>4
  <1>6. \A j \in DOMAIN prices : (j > Len(prices) - RecordCap) = (j > Skipped)
    <2>1. CASE Len(prices) < RecordCap
      <3>1. Skipped = 0 /\ Len(prices) - RecordCap < 0
        BY <1>1, <1>2, <1>3, <2>1 DEF Skipped
      <3> QED BY <1>1, <1>3, <3>1
    <2>2. CASE ~(Len(prices) < RecordCap)
      BY <1>2, <2>2 DEF Skipped
    <2> QED BY <2>1, <2>2
  <1> QED BY <1>1, <1>2, <1>4, <1>5, <1>6

LEMMA SalesAreNumbers ==
  ASSUME MInv, NEW filter, NEW span
  PROVE  /\ SalesIn(filter, span) \subseteq 1..Len(prices)
         /\ LoggedIn(filter, span) \subseteq SalesIn(filter, span)
         /\ IsFiniteSet(SalesIn(filter, span)) /\ IsFiniteSet(LoggedIn(filter, span))
  <1>1. SalesIn(filter, span) \subseteq 1..Len(prices)
    BY LogFacts DEF SalesIn
  <1>2. LoggedIn(filter, span) \subseteq SalesIn(filter, span)
    BY DEF LoggedIn
  <1>3. LoggedIn(filter, span) \subseteq 1..Len(prices)
    BY <1>1, <1>2
  <1> QED BY <1>1, <1>2, <1>3, LogFacts, NumbersFinite

\* The sales of a span are the last ones there were, so the log has them all as
\* long as the market made no more than RecordCap of them.
LEMMA LogHasThemAll ==
  ASSUME MInv, NEW filter, NEW span \in Int
  PROVE  Counted(filter, span) = LoggedIn(filter, span)
  <1> DEFINE All == SalesIn(NoSpec, span)
             n == Len(prices)
  <1>1. SUFFICES ASSUME Cardinality(All) <= RecordCap,
                        NEW i \in SalesIn(filter, span), ~(i > n - RecordCap)
                 PROVE  FALSE
    BY DEF Counted, LoggedIn
  <1>2. n \in Nat /\ DOMAIN prices = 1..n /\ i \in 1..n /\ RecordCap \in Nat
    BY LogFacts, SalesAreNumbers, EngineAssumption
  <1>3. prices[i].ts > now - span
    BY DEF SalesIn
  <1>4. ASSUME NEW j \in i..n PROVE j \in All
    <2>1. j \in DOMAIN prices /\ i \in DOMAIN prices /\ i <= j
      BY <1>2
    <2>2. prices[i].ts <= prices[j].ts
      BY <2>1 DEF MInv, Chronological
    <2>3. prices[i].ts \in Int /\ prices[j].ts \in Int /\ now \in Int
      BY <2>1, SaleFacts, MarketAssumption DEF MInv, TypeOK, Time
    <2>4. matchSpec(prices[j].spec, NoSpec)
      BY DEF matchSpec, NoSpec
    <2> QED BY <1>3, <2>1, <2>2, <2>3, <2>4 DEF SalesIn
  <1>5. IsFiniteSet(All)
    BY SalesAreNumbers
  <1> HIDE DEF All, n
  <1>6. i..n \in SUBSET All
    BY <1>4
  <1>7. Cardinality(i..n) <= Cardinality(All)
    BY <1>5, <1>6, FS_Subset
  <1>8. Cardinality(i..n) = n - i + 1
    <2>1. \A a, b \in Int : Cardinality(a..b) = IF a > b THEN 0 ELSE b - a + 1
      BY FS_Interval
    <2> QED BY <1>2, <2>1
  <1>9. Cardinality(All) \in Nat
    BY <1>5, FS_CardinalityType
  <1> QED BY <1>1, <1>2, <1>7, <1>8, <1>9

\* The extremes of a set of integers are its least and its greatest element.
LEMMA Extremes ==
  ASSUME NEW T, T \subseteq Int, NEW m \in T
  PROVE  /\ (\A x \in T : m <= x) => Min(T) = m
         /\ (\A x \in T : x <= m) => Max(T) = m
  <1>1. ASSUME \A x \in T : m <= x PROVE Min(T) = m
    <2> DEFINE n == Min(T)
    <2>1. n \in T /\ \A y \in T : n <= y
      BY <1>1 DEF Min
    <2> HIDE DEF n
    <2>2. n \in Int /\ m \in Int /\ n <= m /\ m <= n
      BY <1>1, <2>1
    <2>3. n = m
      BY <2>2
    <2> QED BY <2>3 DEF n
  <1>2. ASSUME \A x \in T : x <= m PROVE Max(T) = m
    <2> DEFINE n == Max(T)
    <2>1. n \in T /\ \A y \in T : n >= y
      BY <1>2 DEF Max
    <2> HIDE DEF n
    <2>2. n \in Int /\ m \in Int /\ n <= m /\ m <= n
      BY <1>2, <2>1
    <2>3. n = m
      BY <2>2
    <2> QED BY <2>3 DEF n
  <1> QED BY <1>1, <1>2

\* A tally of sales describes them.
LEMMA TallyDescribes ==
  ASSUME MInv, NEW S, S \subseteq DOMAIN prices, IsFiniteSet(S),
         NEW w, NEW window, Tallied(w, S, Paid, window)
  PROVE  /\ Describes(w, S)
         /\ w.min = IF window THEN LowestInWindow(S) ELSE Lowest(S)
  <1> DEFINE ps == PricesOf(S)
  <1>1. \A j \in S : Paid[j] = prices[j].price /\ Paid[j] \in Int
    BY SaleFacts
  <1>2. ps = {Paid[j] : j \in S} /\ \A x \in ps : x \in Int
    BY <1>1 DEF PricesOf
  <1>3. ASSUME NEW T, T \subseteq S, NEW m \in Int, Least(m, T, Paid)
        PROVE  Lowest(T) = m
    <2>1. PricesOf(T) = {Paid[j] : j \in T} /\ \A x \in PricesOf(T) : x \in Int
      BY <1>1, <1>3 DEF PricesOf
    <2>2. m \in PricesOf(T) /\ (\A x \in PricesOf(T) : m <= x) /\ T # {}
      BY <1>3, <2>1 DEF Least
    <2>3. Min(PricesOf(T)) = m
      BY <2>1, <2>2, Extremes
    <2> QED BY <2>2, <2>3 DEF Lowest
  <1>4. Describes(w, S)
    <2>1. w.count = Cardinality(S)
          /\ w.total = SumFunctionOnSet([i \in DOMAIN prices |-> prices[i].price], S)
      BY DEF Tallied, Paid
    <2> DEFINE qs == {0} \cup ps
    <2>2. /\ w.max \in qs /\ \A x \in qs : x <= w.max /\ x \in Int
      BY <1>2 DEF Tallied
    <2>3. Max(qs) = w.max
      BY <2>2, Extremes
    <2> QED BY <2>1, <2>3 DEF Describes
  <1>5. CASE ~window
    <2>1. /\ w.min \in Int
          /\ IF S = {} THEN w.min = 0 ELSE Least(w.min, S, Paid)
      BY <1>5 DEF Tallied
    <2>2. Lowest(S) = w.min
      <3>1. CASE S = {}
        BY <2>1, <3>1 DEF Lowest
      <3>2. CASE S # {}
        BY <1>3, <2>1, <3>2
      <3> QED BY <3>1, <3>2
    <2> QED BY <1>4, <1>5, <2>2
  <1>6. CASE window
    <2>1. Negative(S, Paid) = (\E x \in ps : x < 0)
      BY <1>2 DEF Negative
    <2>2. Afterwards(S, Paid) = AfterFree(S) /\ AfterFree(S) \subseteq S
      BY <1>1 DEF Afterwards, AfterFree
    <2>3. CASE Negative(S, Paid)
      <3>1. Least(w.min, S, Paid) /\ w.min \in Int
        BY <1>6, <2>3 DEF Tallied, Negative
      <3>2. Lowest(S) = w.min
        BY <1>3, <3>1
      <3> QED BY <1>4, <1>6, <2>1, <2>3, <3>2 DEF LowestInWindow
    <2>4. CASE ~Negative(S, Paid)
      <3>1. /\ w.min \in Int
            /\ IF AfterFree(S) = {} THEN w.min = 0 ELSE Least(w.min, AfterFree(S), Paid)
        BY <1>6, <2>2, <2>4 DEF Tallied
      <3>2. Lowest(AfterFree(S)) = w.min
        <4>1. CASE AfterFree(S) = {}
          BY <3>1, <4>1 DEF Lowest
        <4>2. CASE AfterFree(S) # {}
          BY <1>3, <2>2, <3>1, <4>2
        <4> QED BY <4>1, <4>2
      <3> QED BY <1>4, <1>6, <2>1, <2>4, <3>2 DEF LowestInWindow
    <2> QED BY <2>3, <2>4
  <1> QED BY <1>5, <1>6

\* The three tallies are about the sales they should be about.
LEMMA TalliesFit ==
  ASSUME MInv, NEW filter
  PROVE  LET info == GetPriceInfo(records, filter, now) IN
         /\ Tallied(info.last24, LoggedIn(filter, H24), Paid, TRUE)
         /\ Tallied(info.last7d, LoggedIn(filter, D7), Paid, TRUE)
         /\ Tallied(info.all, LoggedIn(filter, now + 1), Paid, FALSE)
  <1> DEFINE match == {i \in DOMAIN records : matchSpec(records[i].spec, filter)}
             since(span) == {i \in match : After(records[i].ts, now, span)}
  <1>1. ASSUME NEW span, NEW counted, NEW window,
               \A i \in 1..Len(records) :
                  (i \in counted) = (Skipped + i \in LoggedIn(filter, span))
        PROVE  Tallied(TallyOf(records, counted, window), LoggedIn(filter, span), Paid, window)
    <2>1. LoggedIn(filter, span) \subseteq (Skipped + 1)..(Skipped + Len(records))
      <3> SUFFICES ASSUME NEW j \in LoggedIn(filter, span)
                   PROVE  j \in (Skipped + 1)..(Skipped + Len(records))
        OBVIOUS
      <3>1. j \in 1..Len(prices) /\ j > Skipped
        BY LogFacts DEF LoggedIn, SalesIn
      <3> QED BY <3>1, LogFacts
    <2>2. \A i \in 1..Len(records) : /\ records[i].price = Paid[Skipped + i]
                                     /\ Paid[Skipped + i] \in Int
      BY LogFacts, SaleFacts
    <2>3. Len(records) \in Nat /\ Skipped \in Nat
      BY LogFacts
    <2> HIDE DEF match, since
    <2> QED BY <1>1, <2>1, <2>2, <2>3, TallyOfSales
  <1>2. ASSUME NEW i \in 1..Len(records), NEW span
        PROVE  (Skipped + i \in LoggedIn(filter, span)) =
                  (matchSpec(records[i].spec, filter) /\ records[i].ts > now - span)
    <2>1. Skipped + i \in DOMAIN prices /\ records[i] = prices[Skipped + i]
          /\ Skipped + i > Len(prices) - RecordCap
      <3>1. Skipped + i \in DOMAIN prices /\ records[i] = prices[Skipped + i]
        BY LogFacts
      <3>2. Skipped + i > Skipped
        BY LogFacts
      <3> QED BY <3>1, <3>2, LogFacts
    <2> QED BY <2>1 DEF LoggedIn, SalesIn
  <1>3. \A i \in 1..Len(records) : i \in DOMAIN records
    BY LogFacts
  <1>4. ASSUME NEW span
        PROVE  Tallied(TallyOf(records, since(span), TRUE), LoggedIn(filter, span), Paid, TRUE)
    <2>1. \A i \in 1..Len(records) :
             (i \in since(span)) = (Skipped + i \in LoggedIn(filter, span))
      BY <1>2, <1>3 DEF After
    <2> QED BY <1>1, <2>1
  <1>5. Tallied(TallyOf(records, match, FALSE), LoggedIn(filter, now + 1), Paid, FALSE)
    <2>1. ASSUME NEW i \in 1..Len(records) PROVE records[i].ts > now - (now + 1)
      <3>1. records[i].ts \in Nat /\ now \in Nat
        BY LogFacts, SaleFacts, MarketAssumption DEF MInv, TypeOK, Time
      <3> QED BY <3>1
    <2>2. \A i \in 1..Len(records) :
             (i \in match) = (Skipped + i \in LoggedIn(filter, now + 1))
      BY <1>2, <1>3, <2>1
    <2> QED BY <1>1, <2>2
  <1>6. /\ GetPriceInfo(records, filter, now).last24 = TallyOf(records, since(H24), TRUE)
        /\ GetPriceInfo(records, filter, now).last7d = TallyOf(records, since(D7), TRUE)
        /\ GetPriceInfo(records, filter, now).all = TallyOf(records, match, FALSE)
    BY DEF GetPriceInfo
  <1> HIDE DEF match, since
  <1> QED BY <1>4, <1>5, <1>6

\* What all sales add up to is the turnover, as each order is one recorded sale.
LEMMA TurnoverExact ==
  ASSUME MInv
  PROVE  /\ GetMarketStats.totalVolume =
              SumFunctionOnSet([i \in DOMAIN prices |-> prices[i].price * prices[i].volume],
                               DOMAIN prices)
         /\ GetMarketStats.fulfilledOrders = Len(prices)
  <1> DEFINE D == DOMAIN prices
             f == [i \in DOMAIN orders |-> orders[i].total]
             g == [i \in D |-> prices[i].price * prices[i].volume]
             F == {i \in DOMAIN orders : orders[i].status = "fulfilled"}
  <1>1. DOMAIN orders = 1..Len(orders) /\ Len(orders) = Len(prices)
    BY DEF MInv, TypeOK, OrdersAreSales
  <1>2. D = 1..Len(prices) /\ Len(prices) \in Nat /\ DOMAIN orders = D
    BY <1>1, LogFacts
  <1>3. IsFiniteSet(D) /\ Cardinality(D) = Len(prices)
    <2>1. \A n \in Nat : IsFiniteSet(1..n) /\ Cardinality(1..n) = n
      BY FS_Interval
    <2> QED BY <1>2, <2>1
  <1>4. \A i \in D : /\ orders[i].status = "fulfilled"
                     /\ orders[i].total = prices[i].price * prices[i].volume
    BY <1>1, <1>2 DEF MInv, OrdersAreSales
  <1>5. F = D
    BY <1>2, <1>4
  <1>6. \A i \in D : f[i] = g[i]
    BY <1>2, <1>4
  <1> HIDE DEF D, f, g
  <1>7. SumFunctionOnSet(f, D) = SumFunctionOnSet(g, D)
    BY <1>3, <1>6, SumExtensional
  <1> HIDE DEF F
  <1>8. /\ GetMarketStats.totalVolume = SumFunctionOnSet(f, F)
        /\ GetMarketStats.fulfilledOrders = Cardinality(F)
    BY DEF GetMarketStats, f, F
  <1> QED BY <1>3, <1>5, <1>7, <1>8 DEF D, g

LEMMA StatisticsOfOne ==
  ASSUME MInv, NEW filter
  PROVE  LET info  == GetPriceInfo(records, filter, now)
             day   == Counted(filter, H24)
             week  == Counted(filter, D7)
             whole == Counted(filter, now + 1)
         IN  /\ Describes(info.last24, day)   /\ info.last24.min = LowestInWindow(day)
             /\ Describes(info.last7d, week)  /\ info.last7d.min = LowestInWindow(week)
             /\ Describes(info.all, whole)    /\ info.all.min = Lowest(whole)
  <1>1. H24 \in Int /\ D7 \in Int /\ now + 1 \in Int
    BY EngineAssumption, MarketAssumption DEF MInv, TypeOK, Time
  <1>2. ASSUME NEW span \in Int, NEW w, NEW window,
               Tallied(w, LoggedIn(filter, span), Paid, window)
        PROVE  /\ Describes(w, Counted(filter, span))
               /\ w.min = IF window THEN LowestInWindow(Counted(filter, span))
                          ELSE Lowest(Counted(filter, span))
    <2>1. Counted(filter, span) = LoggedIn(filter, span)
      BY LogHasThemAll
    <2>2. LoggedIn(filter, span) \subseteq DOMAIN prices /\ IsFiniteSet(LoggedIn(filter, span))
      BY SalesAreNumbers, LogFacts
    <2> QED BY <1>2, <2>1, <2>2, TallyDescribes
  <1> QED BY <1>1, <1>2, TalliesFit

LEMMA Statistics == MInv => StatisticsAreExact
  BY StatisticsOfOne, TurnoverExact DEF StatisticsAreExact

-----------------------------------------------------------------------------
(* The recommendation *)

\* Rounding half up stays between whole bounds of the quotient.
LEMMA RoundUpBetween ==
  ASSUME NEW num \in Nat, NEW den \in Nat \ {0}, NEW lo \in Int, NEW hi \in Int,
         lo * den <= num, num <= hi * den
  PROVE  RoundUp(num, den) \in Int /\ lo <= RoundUp(num, den) /\ RoundUp(num, den) <= hi
  <1> DEFINE x == 2 * num + den
             y == 2 * den
             q == x \div y
  <1>1. x \in Nat /\ y \in Nat /\ y > 0
    OBVIOUS
  <1>2. q \in Int /\ y * q <= x /\ x < y * (q + 1)
    <2> HIDE DEF x, y
    <2> QED BY <1>1
  <1> HIDE DEF q
  <1>3. ASSUME NEW a \in Int, NEW b \in Int, y * a < y * b PROVE a < b
    <2> HIDE DEF y
    <2> QED BY <1>1, <1>3
  <1>4. y * lo = 2 * (lo * den) /\ y * hi = 2 * (hi * den) /\ y * (hi + 1) = 2 * (hi * den) + 2 * den
    OBVIOUS
  <1>5. y * lo < y * (q + 1)
    BY <1>1, <1>2, <1>4
  <1>6. y * q < y * (hi + 1)
    BY <1>1, <1>2, <1>4
  <1>7. lo < q + 1 /\ q < hi + 1
    BY <1>2, <1>3, <1>5, <1>6
  <1> QED BY <1>2, <1>7 DEF RoundUp, q

\* So does rounding half away from zero, for a quotient of either sign.
LEMMA RoundBetween ==
  ASSUME NEW num \in Int, NEW den \in Nat \ {0}, NEW lo \in Int, NEW hi \in Int,
         lo * den <= num, num <= hi * den
  PROVE  lo <= Round(num, den) /\ Round(num, den) <= hi
  <1>1. CASE num >= 0
    BY <1>1, RoundUpBetween DEF Round
  <1>2. CASE num < 0
    <2>1. -num \in Nat /\ (-hi) * den <= -num /\ -num <= (-lo) * den
      BY <1>2
    <2>2. -lo \in Int /\ -hi \in Int
      OBVIOUS
    <2>3. /\ RoundUp(-num, den) \in Int
          /\ -hi <= RoundUp(-num, den) /\ RoundUp(-num, den) <= -lo
      <3> DEFINE a == -hi
                 b == -lo
                 m == -num
      <3>1. m \in Nat /\ a \in Int /\ b \in Int /\ a * den <= m /\ m <= b * den
        BY <2>1, <2>2
      <3> HIDE DEF a, b, m
      <3>2. RoundUp(m, den) \in Int /\ a <= RoundUp(m, den) /\ RoundUp(m, den) <= b
        BY <3>1, RoundUpBetween
      <3> QED BY <3>2 DEF a, b, m
    <2> QED BY <1>2, <2>2, <2>3 DEF Round
  <1> QED BY <1>1, <1>2

\* The average, with the supply factor, stays between the extremes.
LEMMA SupplyBetween ==
  ASSUME NEW all, all.total \in Int, all.count \in Nat \ {0},
         NEW lo \in Int, NEW hi \in Int,
         lo * all.count <= all.total, all.total <= hi * all.count,
         all.min = lo, all.total > 0 => all.max = hi
  PROVE  LET num == all.total * SupplyTenths(all) * 2 * 20
             den == all.count * 10 * 2 * 20
         IN  lo <= Round(num, den) /\ Round(num, den) <= hi
  <1> DEFINE t == all.total
             n == all.count
             a == lo * n
             b == hi * n
             s == SupplyTenths(all)
             num == t * s * 2 * 20
             den == n * 10 * 2 * 20
  <1>1. t \in Int /\ n \in Nat \ {0} /\ a \in Int /\ b \in Int /\ a <= t /\ t <= b
    OBVIOUS
  <1>2. 10 * lo * n = 10 * a /\ 10 * hi * n = 10 * b
    OBVIOUS
  <1>3. \/ s = 10
        \/ t > 0 /\ s = 9 /\ 10 * a < 7 * t
        \/ t > 0 /\ s = 11 /\ 10 * b > 13 * t
    <2>1. CASE t <= 0
      <3>1. ~(all.total > 0)
        BY <2>1
      <3> QED BY <3>1 DEF SupplyTenths
    <2>2. CASE t > 0
      BY <1>1, <1>2, <2>2 DEF SupplyTenths
    <2> QED BY <1>1, <2>1, <2>2
  <1>4. den = 400 * n /\ den \in Nat \ {0} /\ lo * den = 400 * a /\ hi * den = 400 * b
    OBVIOUS
  <1> HIDE DEF a, b, s, t, n
  <1>5. num \in Int /\ 400 * a <= num /\ num <= 400 * b
    BY <1>1, <1>3
  <1> HIDE DEF num, den
  <1>6. lo <= Round(num, den) /\ Round(num, den) <= hi
    BY <1>4, <1>5, RoundBetween
  <1> QED BY <1>6 DEF num, den, s, t, n

\* A set of integers that has an upper bound has a highest element.
LEMMA Highest ==
  ASSUME NEW T, T \subseteq Int, T # {}, NEW bound \in Int, \A x \in T : x <= bound
  PROVE  Max(T) \in T /\ \A x \in T : x <= Max(T)
  <1> DEFINE R    == OpToRel(<, Nat)
             Gaps == {bound - x : x \in T}
  <1>1. IsWellFoundedOn(R, Nat)
    BY NatLessThanWellFounded
  <1>2. Gaps \subseteq Nat /\ Gaps # {}
    <2>1. \A x \in T : bound - x \in Nat
      OBVIOUS
    <2> QED BY <2>1
  <1>3. \A i, j \in Nat : i < j => <<i, j>> \in R
    BY DEF OpToRel
  <1> HIDE DEF R
  <1>4. PICK g \in Gaps : \A h \in Gaps : ~(<<h, g>> \in R)
    <2> HIDE DEF Gaps
    <2> QED BY <1>1, <1>2, WFMin
  <1>5. PICK m \in T : g = bound - m
    OBVIOUS
  <1>6. ASSUME NEW x \in T PROVE x <= m
    <2>1. bound - x \in Gaps /\ bound - x \in Nat /\ g \in Nat /\ m \in Int /\ x \in Int
      OBVIOUS
    <2>2. ~(bound - x < g)
      BY <1>3, <1>4, <2>1
    <2> QED BY <1>5, <2>1, <2>2
  <1> QED BY <1>6, Extremes

LEMMA Recommendation == MInv => RecommendationInRange
  <1> SUFFICES ASSUME MInv, NEW filter \in Filters \cup {NoSpec},
                      filter.gpu = 0, filter.duration < 60,
                      SumFunctionOnSet([i \in DOMAIN prices |-> prices[i].price],
                                       Counted(filter, now + 1)) # 0
               PROVE  LET ps  == PricesOf(Counted(filter, now + 1))
                          rec == GetRecommendation(records, filter, now)
                      IN  Min(ps) <= rec.price /\ rec.price <= Max(ps)
    BY DEF RecommendationInRange
  <1> DEFINE all == GetPriceInfo(records, filter, now).all
             S   == Counted(filter, now + 1)
             ps  == PricesOf(S)
             lo  == Min(ps)
             hi  == Max(ps)
  <1>1. /\ all.count = Cardinality(S) /\ all.total = SumFunctionOnSet(Paid, S)
        /\ all.max = Max({0} \cup ps) /\ all.min = Lowest(S) /\ all.total # 0
    BY StatisticsOfOne DEF Describes, Paid
  <1>2. S \subseteq DOMAIN prices /\ IsFiniteSet(S) /\ S = LoggedIn(filter, now + 1)
    <2>1. now + 1 \in Int
      BY MarketAssumption DEF MInv, TypeOK, Time
    <2> QED BY <2>1, LogHasThemAll, SalesAreNumbers, LogFacts
  <1>3. Tallied(all, S, Paid, FALSE)
    BY <1>2, TalliesFit
  <1>4. \A j \in S : Paid[j] = prices[j].price /\ Paid[j] \in Int /\ Paid[j] \in ps
    BY <1>2, SaleFacts DEF PricesOf
  <1>5. ps = {Paid[j] : j \in S}
    BY <1>4 DEF PricesOf
  <1>6. S # {}
    BY <1>1, SumEmpty
  <1> HIDE DEF S, all
  <1>7. /\ ps \subseteq Int /\ ps # {} /\ all.min \in Int /\ all.max \in Nat
        /\ all.min \in ps /\ \A x \in ps : all.min <= x /\ x <= all.max
        /\ all.max = 0 \/ all.max \in ps
    BY <1>3, <1>4, <1>5, <1>6 DEF Tallied, Least
  <1> HIDE DEF ps
  <1>8. lo = all.min
    BY <1>1, <1>6 DEF Lowest, ps
  <1>9. hi \in ps /\ \A x \in ps : x <= hi
    <2>1. all.max \in Int /\ \A x \in ps : x <= all.max
      BY <1>7
    <2> QED BY <1>7, <2>1, Highest
  <1> HIDE DEF lo, hi
  <1>10. /\ lo \in Int /\ hi \in Int /\ \A j \in S : lo <= Paid[j] /\ Paid[j] <= hi
    BY <1>4, <1>7, <1>8, <1>9
  <1>11. all.count \in Nat \ {0} /\ all.total \in Int
    BY <1>1, <1>2, <1>4, <1>6, FS_CardinalityType, FS_EmptySet, SumInt
  <1>12. lo * all.count <= all.total /\ all.total <= hi * all.count
    BY <1>1, <1>2, <1>4, <1>10, SumBounds
  <1>13. ASSUME all.total > 0 PROVE all.max = hi
    <2>1. all.max # 0
      <3>1. SUFFICES ASSUME all.max = 0 PROVE FALSE
        OBVIOUS
      <3>2. \A j \in S : Paid[j] \in Int /\ lo <= Paid[j] /\ Paid[j] <= 0
        BY <1>4, <1>7, <1>10, <3>1
      <3>3. SumFunctionOnSet(Paid, S) <= 0 * Cardinality(S)
        <4>1. 0 \in Int /\ lo \in Int /\ IsFiniteSet(S)
          BY <1>2, <1>10
        <4> QED BY <3>2, <4>1, SumBounds
      <3>4. 0 * all.count = 0
        BY <1>11
      <3> QED BY <1>1, <1>11, <1>13, <3>3, <3>4
    <2> QED BY <1>7, <1>9, <1>10, <2>1
  <1>14. GetRecommendation(records, filter, now).price =
           Round(all.total * SupplyTenths(all) * 2 * 20, all.count * 10 * 2 * 20)
    <2>1. ~(filter.gpu > 0) /\ ~(filter.duration >= 60)
      BY MarketAssumption DEF ResourceSpec, NoSpec
    <2> QED BY <1>1, <2>1 DEF GetRecommendation, all
  <1>15. /\ lo <= GetRecommendation(records, filter, now).price
         /\ GetRecommendation(records, filter, now).price <= hi
    BY <1>8, <1>10, <1>11, <1>12, <1>13, <1>14, SupplyBetween
  <1> QED BY <1>15 DEF lo, hi, ps, S

-----------------------------------------------------------------------------
(* Theorems *)

\* Every reachable state of the market has its type, for prices, stocks and
\* quantities of either sign; in particular no interleaving of orders and updates
\* oversells an offer: a stock below zero is one its provider has set.
THEOREM MarketTypeOK == Spec => []TypeOK
  <1>1. MInv => TypeOK
    BY DEF MInv
  <1> QED BY MInit, MStep, <1>1, PTL DEF Spec

\* Orders and sale records stay paired one to one, at the charged price.
THEOREM MarketOrdersAreSales == Spec => []OrdersAreSales
  <1>1. MInv => OrdersAreSales
    BY DEF MInv
  <1> QED BY MInit, MStep, <1>1, PTL DEF Spec

\* AddRecord's truncation never loses a recent sale, for every RecordCap.
THEOREM MarketAggregator == Spec => []AggregatorIsRecent
  <1>1. MInv => AggregatorIsRecent
    BY DEF MInv
  <1> QED BY MInit, MStep, <1>1, PTL DEF Spec

\* No mix of orders, restocking and deletions sells a unit that was not put on
\* sale, or loses one: the stock of an offer is always what was supplied less what
\* its orders took.
THEOREM MarketStockConserved == Spec => []StockConserved
  <1>1. SInv => StockConserved
    BY DEF SInv
  <1> QED BY SInit, SStep, <1>1, PTL DEF Spec

\* For any capacity of the log, any lengths of the windows and prices of any sign,
\* the day's, the week's and the whole log's count, total, highest and lowest are
\* what StatisticsAreExact says of the history of sales: no sale of a span with at
\* most RecordCap sales is missing, and the minimum of a window is that of the sales
\* after its last free one.  The market's turnover is what all sales add up to.
THEOREM MarketStatisticsAreExact == Spec => []StatisticsAreExact
  BY MInit, MStep, Statistics, PTL DEF Spec

\* A recommendation for plain capacity never leaves the range of the prices that
\* were really paid, whatever the supply factor and the rounding make of it and
\* whatever the signs of those prices, unless they cancel out to nothing.
THEOREM MarketRecommendationInRange == Spec => []RecommendationInRange
  BY MInit, MStep, Recommendation, PTL DEF Spec

\* A placed order is never altered: CancelOrder can only refuse it.
THEOREM MarketOrdersAreFinal == Spec => OrdersAreFinal
  <1> DEFINE Final == /\ Len(orders') >= Len(orders)
                      /\ \A i \in 1..Len(orders) : orders'[i] = orders[i]
  <1>1. MInv /\ [Next]_vars => [Final]_vars
    <2> SUFFICES ASSUME MInv, Next PROVE Final
      OBVIOUS
    <2>1. orders \in Seq(Order) /\ Len(orders) \in Nat
      BY DEF MInv, TypeOK
    <2>2. CASE orders' = orders
      BY <2>1, <2>2
    <2>3. ASSUME NEW o \in DOMAIN offers, NEW q \in Quantities, CreateOrder(o, q)
          PROVE  Final
      <3>1. PICK e : orders' = Append(orders, e)
        BY <2>3 DEF CreateOrder
      <3> QED BY <2>1, <3>1
    <2>4. ASSUME NEW i \in DOMAIN orders, CancelOrder(i) PROVE Final
      <3>1. orders' = orders
        BY <2>4 DEF CancelOrder, MInv, TypeOK, OrdersAreSales
      <3> QED BY <3>1, <2>2
    <2> QED BY <2>2, <2>3, <2>4
            DEF Next, CreateOffer, UpdateOffer, DeleteOffer, Tick
  <1>2. Spec => [][Final]_vars
    BY MInit, MStep, <1>1, PTL DEF Spec
  <1> QED BY <1>2 DEF OrdersAreFinal

\* Neither a sold offer nor a deleted id returns to the market.
THEOREM MarketSoldIsFinal == Spec => SoldIsFinal
  <1> DEFINE Keep(o) ==
        /\ (o \in issued /\ o \notin DOMAIN offers) => o \notin DOMAIN offers'
        /\ (o \in DOMAIN offers /\ o \in DOMAIN offers' /\ offers[o].status = "sold")
              => offers'[o].status = "sold"
  <1>1. MInv /\ [Next]_vars => [\A o \in OfferIds : Keep(o)]_vars
    <2> SUFFICES ASSUME MInv, Next, NEW o \in OfferIds PROVE Keep(o)
      OBVIOUS
    <2>1. /\ offers \in [DOMAIN offers -> Offer] /\ DOMAIN offers \subseteq issued
      BY DEF MInv, TypeOK
    <2>2. CASE offers' = offers
      BY <2>2
    <2>3. ASSUME NEW x \in OfferIds, NEW s \in Specs, NEW p \in Prices,
                 NEW a \in Stocks, NEW v \in ValidUntils,
                 CreateOffer(x, s, p, a, v)
          PROVE  Keep(o)
      BY <2>1, <2>3 DEF CreateOffer, Put
    <2>4. ASSUME NEW x \in DOMAIN offers, NEW p, NEW a, NEW v, UpdateOffer(x, p, a, v)
          PROVE  Keep(o)
      <3>1. DOMAIN offers' = DOMAIN offers
        BY <2>1, <2>4 DEF UpdateOffer
      <3>2. o \in DOMAIN offers => offers'[o].status = offers[o].status
        BY <2>1, <2>4 DEF UpdateOffer, Offer
      <3> QED BY <3>1, <3>2
    <2>5. ASSUME NEW x \in DOMAIN offers, DeleteOffer(x) PROVE Keep(o)
      BY <2>1, <2>5 DEF DeleteOffer, Remove
    <2>6. ASSUME NEW x \in DOMAIN offers, NEW q \in Quantities, CreateOrder(x, q)
          PROVE  Keep(o)
      BY <2>1, <2>6 DEF CreateOrder, matchOrder, Offer
    <2> QED BY <2>2, <2>3, <2>4, <2>5, <2>6 DEF Next, CancelOrder, Tick
  <1>2. Spec => [][\A o \in OfferIds : Keep(o)]_vars
    BY MInit, MStep, <1>1, PTL DEF Spec
  <1> QED BY <1>2 DEF SoldIsFinal
=============================================================================
