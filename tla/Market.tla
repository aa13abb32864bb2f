------------------------------- MODULE Market -------------------------------
(***************************************************************************)
(* The compute market (internal/market/market.go): providers put capacity  *)
(* on sale as offers, consumers buy it with orders, and every sale is      *)
(* recorded as a price.  Every method of MarketService runs wholly under   *)
(* MarketService.mu, so each is one action; a method that returns an error *)
(* changes nothing and is the action's stuttering alternative.             *)
(*                                                                         *)
(* The model takes each call to own the struct it is given (handlers       *)
(* decode a new one per request), so no caller keeps a pointer into the    *)
(* maps.  An order's uuid is its position in "orders": uuid.New never      *)
(* repeats and orders are never removed.                                   *)
(*                                                                         *)
(* Available, Quantity and PricePerUnit are signed and no code checks      *)
(* their sign: an order for a negative quantity is accepted and raises the *)
(* stock, and a provider may set a negative stock or price.                *)
(***************************************************************************)
EXTENDS PriceEngine, FiniteSetsExt

CONSTANTS OfferIds,      \* the uuids offers can get
          Specs,         \* resource specs of offers
          Filters,       \* specs that prices are asked for
          Prices,        \* prices per unit, in cents
          Stocks,        \* values a provider gives Available
          Quantities,    \* quantities a consumer asks for
          ValidUntils,   \* values a provider gives ValidUntil; 0 is the zero time
          MaxOrders,     \* bound: orders placed
          MaxTime        \* bound: the clock

ResourceSpec == [cpu : Int, memory : Int, gpu : Int, duration : Int]

ASSUME MarketAssumption ==
    /\ Specs \subseteq ResourceSpec /\ Filters \subseteq ResourceSpec
    /\ Prices \subseteq Int /\ Prices # {}
    /\ Stocks \subseteq Int
    /\ Quantities \subseteq Int
    /\ ValidUntils \subseteq Nat
    /\ MaxOrders \in Nat /\ MaxTime \in Nat

VARIABLES offers,      \* ms.offers: a function on the ids of stored offers
          orders,      \* ms.orders, in the order of creation
          prices,      \* ms.prices
          records,     \* ms.priceAgg.records
          now,         \* time.Now()
          issued,      \* ids uuid.New has returned for offers
          supplied     \* history: units put on sale as a stored offer, net of updates

vars == <<offers, orders, prices, records, now, issued, supplied>>

Time == 0..MaxTime

OfferStatus == {"active", "reserved", "sold", "expired"}
OrderStatus == {"pending", "matching", "fulfilled", "cancelled", "expired"}

\* A negative stock can only be one that a provider has set.
Available == Nat \cup Stocks

Offer == [spec : Specs, price : Prices, available : Available,
          status : OfferStatus, validUntil : Nat]
Order == [offer : OfferIds, quantity : Quantities, price : Prices,
          total : Int, status : OrderStatus, createdAt : Time]
PriceRecord == [ts : Time, spec : Specs, price : Prices, volume : Quantities]

Init ==
    /\ offers = [o \in {} |-> {}]
    /\ orders = <<>>
    /\ prices = <<>>
    /\ records = <<>>
    /\ now = 0
    /\ issued = {}
    /\ supplied = [o \in OfferIds |-> 0]

\* m with key k bound to v; m without key k.
Put(m, k, v)  == [x \in DOMAIN m \cup {k} |-> IF x = k THEN v ELSE m[x]]
Remove(m, k)  == [x \in DOMAIN m \ {k} |-> m[x]]

\* With the zero time as validUntil the offer gets the default of seven days.
CreateOffer(o, spec, price, stock, validUntil) ==
    /\ o \notin issued
    /\ issued' = issued \cup {o}
    /\ offers' = Put(offers, o,
                     [spec |-> spec, price |-> price, available |-> stock,
                      status |-> "active",
                      validUntil |-> IF validUntil = 0 THEN now + D7 ELSE validUntil])
    /\ supplied' = [supplied EXCEPT ![o] = stock]
    /\ UNCHANGED <<orders, prices, records, now>>

UpdateOffer_Reactivates(o, price, stock, validUntil) ==
    /\ o \in DOMAIN offers
    /\ offers' = [offers EXCEPT ![o].price = price,
                                ![o].available = stock,
                                ![o].status = IF stock > 0 THEN "active" ELSE @,
                                ![o].validUntil = validUntil]
    /\ supplied' = [supplied EXCEPT ![o] = @ + stock - offers[o].available]
    /\ UNCHANGED <<orders, prices, records, now, issued>>

\* Each of the three updates is optional: a nil pointer keeps the old value.
UpdateOffer(o, price, stock, validUntil) ==
    /\ o \in DOMAIN offers
    /\ offers' = [offers EXCEPT ![o].price = price,
                                ![o].available = stock,
                                ![o].validUntil = validUntil]
    /\ supplied' = [supplied EXCEPT ![o] = @ + stock - offers[o].available]
    /\ UNCHANGED <<orders, prices, records, now, issued>>

DeleteOffer(o) ==
    /\ o \in DOMAIN offers
    /\ offers' = Remove(offers, o)
    /\ supplied' = [supplied EXCEPT ![o] = 0]
    /\ UNCHANGED <<orders, prices, records, now, issued>>

Orderable_NoStockCheck(o, quantity) ==
    /\ o \in DOMAIN offers
    /\ offers[o].status = "active"

\* The checks CreateOrder makes before it accepts an order.
Orderable(o, quantity) ==
    /\ o \in DOMAIN offers
    /\ offers[o].status = "active"
    /\ offers[o].available >= quantity

matchOrder_KeepsStock(o, quantity) ==
    LET sale == [ts |-> now, spec |-> offers[o].spec,
                 price |-> offers[o].price, volume |-> quantity]
    IN  /\ offers' = [offers EXCEPT
                        ![o].status = IF offers[o].available <= quantity THEN "sold" ELSE @]
        /\ prices' = Append(prices, sale)
        /\ records' = AddRecord(records, sale)

\* matchOrder: take the stock, mark a used-up offer sold, record the sale.
matchOrder(o, quantity) ==
    LET left == offers[o].available - quantity
        sale == [ts |-> now, spec |-> offers[o].spec,
                 price |-> offers[o].price, volume |-> quantity]
    IN  /\ offers' = [offers EXCEPT
                        ![o].available = left,
                        ![o].status = IF left <= 0 THEN "sold" ELSE @]
        /\ prices' = Append(prices, sale)
        /\ records' = AddRecord(records, sale)

\* The stored order is already fulfilled when the lock is released: matchOrder
\* cannot fail after the checks, so the code's "pending" branch is never taken.
CreateOrder(o, quantity) ==
    /\ Len(orders) < MaxOrders
    /\ Orderable(o, quantity)
    /\ orders' = Append(orders,
                        [offer |-> o, quantity |-> quantity,
                         price |-> offers[o].price,
                         total |-> offers[o].price * quantity,
                         status |-> "fulfilled", createdAt |-> now])
    /\ matchOrder(o, quantity)
    /\ UNCHANGED <<now, issued, supplied>>

CancelOrder_Always(i) ==
    /\ orders' = [orders EXCEPT ![i].status = "cancelled"]
    /\ UNCHANGED <<offers, prices, records, now, issued, supplied>>

\* A fulfilled order is refused with an error and nothing changes.
CancelOrder(i) ==
    /\ orders' = IF orders[i].status = "fulfilled" THEN orders
                 ELSE [orders EXCEPT ![i].status = "cancelled"]
    /\ UNCHANGED <<offers, prices, records, now, issued, supplied>>

Tick ==
    /\ now < MaxTime
    /\ now' = now + 1
    /\ UNCHANGED <<offers, orders, prices, records, issued, supplied>>

Next ==
    \/ \E o \in OfferIds, s \in Specs, p \in Prices, a \in Stocks,
          v \in ValidUntils : CreateOffer(o, s, p, a, v)
    \/ \E o \in DOMAIN offers :
          \/ \E p \in Prices \cup {offers[o].price},
                a \in Stocks \cup {offers[o].available},
                v \in ValidUntils \cup {offers[o].validUntil} : UpdateOffer(o, p, a, v)
          \/ DeleteOffer(o)
          \/ \E q \in Quantities : CreateOrder(o, q)
    \/ \E i \in DOMAIN orders : CancelOrder(i)
    \/ Tick

Spec == Init /\ [][Next]_vars

-----------------------------------------------------------------------------
(* Statistics *)

GetMarketStats ==
    [totalOffers     |-> Cardinality(DOMAIN offers),
     activeOffers    |-> Cardinality({o \in DOMAIN offers : offers[o].status = "active"}),
     totalOrders     |-> Len(orders),
     fulfilledOrders |-> Cardinality({i \in DOMAIN orders : orders[i].status = "fulfilled"}),
     totalVolume     |-> SumFunctionOnSet([i \in DOMAIN orders |-> orders[i].total],
                           {i \in DOMAIN orders : orders[i].status = "fulfilled"})]

-----------------------------------------------------------------------------
(* Properties *)

\* Every variable has its type.  In particular no order, of a positive or a
\* negative quantity, ever leaves an offer with less than nothing: a stock below
\* zero is one its provider has given it (CreateOffer, UpdateOffer).
TypeOK ==
    /\ offers \in [DOMAIN offers -> Offer]
    /\ DOMAIN offers \subseteq issued
    /\ orders \in Seq(Order)
    /\ prices \in Seq(PriceRecord)
    /\ records \in Seq(PriceRecord)
    /\ now \in Time
    /\ issued \subseteq OfferIds
    /\ supplied \in [OfferIds -> Int]

\* Units of offer o that its orders have taken.
SoldUnits(o) ==
    SumFunctionOnSet([i \in DOMAIN orders |-> orders[i].quantity],
                     {i \in DOMAIN orders : orders[i].offer = o})

\* Stock is conserved: what is left of a stored offer is what its provider put
\* on sale less what its orders took, whatever the mix of orders and updates.
StockConserved ==
    \A o \in DOMAIN offers : offers[o].available = supplied[o] - SoldUnits(o)

\* Every accepted order was paired with exactly one sale record, in the order
\* of acceptance, at the price and quantity the consumer was charged, and it is
\* fulfilled: so CancelOrder refuses every order there is.
OrdersAreSales ==
    /\ Len(prices) = Len(orders)
    /\ \A i \in 1..Len(orders) :
          /\ orders[i].status = "fulfilled"
          /\ orders[i].total = orders[i].price * orders[i].quantity
          /\ prices[i].price = orders[i].price
          /\ prices[i].volume = orders[i].quantity
          /\ prices[i].ts = orders[i].createdAt

\* The aggregator holds exactly the most recent sales: none is missing, none
\* reordered, and never more than RecordCap of them.
AggregatorIsRecent ==
    /\ Len(records) = IF Len(prices) < RecordCap THEN Len(prices) ELSE RecordCap
    /\ \A i \in 1..Len(records) :
          records[i] = prices[Len(prices) - Len(records) + i]

\* An order that was accepted is never altered or dropped: whatever happens to
\* its offer (restocked, repriced, deleted), the placed order keeps its price.
OrdersAreFinal ==
    [][/\ Len(orders') >= Len(orders)
       /\ \A i \in 1..Len(orders) : orders'[i] = orders[i]]_vars

\* An id that has left the market never comes back, and an offer once sold
\* stays sold: restocking it with UpdateOffer does not put it back on sale.
SoldIsFinal ==
    [][\A o \in OfferIds :
          /\ (o \in issued /\ o \notin DOMAIN offers) => o \notin DOMAIN offers'
          /\ (o \in DOMAIN offers /\ o \in DOMAIN offers' /\ offers[o].status = "sold")
                => offers'[o].status = "sold"]_vars

-----------------------------------------------------------------------------
(* Properties of the statistics, for the sales of one kind of resource *)

\* All the sales there ever were that match the filter and are younger than span:
\* what statistics over the last span should be about.
SalesIn(filter, span) ==
    {i \in DOMAIN prices : /\ matchSpec(prices[i].spec, filter)
                           /\ prices[i].ts > now - span}

\* Those the aggregator can still know of.
LoggedIn(filter, span) ==
    {i \in SalesIn(filter, span) : i > Len(prices) - RecordCap}

\* No sale of the span is missing as long as the whole market made no more than
\* RecordCap sales in it, however many there were before.
Counted(filter, span) ==
    IF Cardinality(SalesIn(NoSpec, span)) <= RecordCap THEN SalesIn(filter, span)
    ELSE LoggedIn(filter, span)

PricesOf(S) == {prices[i].price : i \in S}

\* w has the number of the sales S, what they add up to, and their highest price,
\* or 0 if all of them are negative.
Describes(w, S) ==
    /\ w.count = Cardinality(S)
    /\ w.total = SumFunctionOnSet([i \in DOMAIN prices |-> prices[i].price], S)
    /\ w.max = Max({0} \cup PricesOf(S))

\* The lowest price of the sales S, which in a window is forgotten at every free
\* sale unless it is negative.
AfterFree(S) == {i \in S : \A j \in S : prices[j].price = 0 => j < i}
Lowest(S) == IF S = {} THEN 0 ELSE Min(PricesOf(S))
LowestInWindow(S) ==
    IF \E p \in PricesOf(S) : p < 0 THEN Lowest(S) ELSE Lowest(AfterFree(S))

\* The statistics of the day, the week and the whole log against the history of
\* sales, truncated log or not: none of a busy span's last RecordCap sales is lost,
\* nor any of a quieter span; and the only wrong figures are those known to be: a
\* highest price of 0 when all are negative, and in the day and the week a minimum
\* that overlooks what was sold before a free sale.  The turnover of the whole
\* market is what all sales there ever were add up to.
StatisticsAreExact ==
    /\ \A filter \in Filters \cup {NoSpec} :
          LET info  == GetPriceInfo(records, filter, now)
              day   == Counted(filter, H24)
              week  == Counted(filter, D7)
              whole == Counted(filter, now + 1)
          IN  /\ Describes(info.last24, day)   /\ info.last24.min = LowestInWindow(day)
              /\ Describes(info.last7d, week)  /\ info.last7d.min = LowestInWindow(week)
              /\ Describes(info.all, whole)    /\ info.all.min = Lowest(whole)
    /\ GetMarketStats.totalVolume =
          SumFunctionOnSet([i \in DOMAIN prices |-> prices[i].price * prices[i].volume],
                           DOMAIN prices)
    /\ GetMarketStats.fulfilledOrders = Len(prices)

\* The price recommended for plain capacity (no GPU, a short term) lies between
\* the lowest and the highest price paid for it, whatever the supply factor and
\* the signs of the prices, unless the prices cancel out to an average of 0, when
\* the code takes 100 for it.
RecommendationInRange ==
    \A filter \in Filters \cup {NoSpec} :
       LET sales == Counted(filter, now + 1)
           paid  == SumFunctionOnSet([i \in DOMAIN prices |-> prices[i].price], sales)
           rec   == GetRecommendation(records, filter, now)
       IN  (filter.gpu = 0 /\ filter.duration < 60 /\ paid # 0)
             => Min(PricesOf(sales)) <= rec.price /\ rec.price <= Max(PricesOf(sales))
=============================================================================
