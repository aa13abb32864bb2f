---------------------------- MODULE PriceEngine ----------------------------
(***************************************************************************)
(* The price aggregator of the compute market (internal/market/engine.go): *)
(* a bounded log of sales and the statistics and price recommendation that *)
(* are computed from it.                                                   *)
(*                                                                         *)
(* Amounts are whole cents.  The code's float64 averages are kept as the   *)
(* exact fraction total/count and compared by cross-multiplication, so the *)
(* model has the arithmetic the code intends, without rounding error.      *)
(* A record is one sale: matchOrder always writes AvgPrice = MinPrice =    *)
(* MaxPrice, which is the field "price" here.  No code checks the sign of  *)
(* a price, so all of this is defined for negative prices too.             *)
(*                                                                         *)
(* A definition X_Y is the mutation Y of X: the form X would have with a   *)
(* plausible slip in the code.  No specification uses it; replacing X by   *)
(* it must break the property named for it in PROJECT.json.                *)
(***************************************************************************)
EXTENDS Integers, Sequences

CONSTANTS RecordCap,    \* records the aggregator keeps (10000 in the code)
          HistoryCap,   \* records returned as History (100 in the code)
          H24,          \* the length of the 24-hour window
          D7            \* the length of the 7-day window

ASSUME EngineAssumption ==
    /\ RecordCap \in Nat \ {0}
    /\ HistoryCap \in Nat \ {0}
    /\ H24 \in Nat \ {0}
    /\ D7 \in Nat /\ H24 < D7

NoSpec == [cpu |-> 0, memory |-> 0, gpu |-> 0, duration |-> 0]

\* The last n elements of s, or all of s when it is not longer than n.
LastN(s, n) == IF Len(s) > n THEN SubSeq(s, Len(s) - n + 1, Len(s)) ELSE s

AddRecord(records, r) == LastN(Append(records, r), RecordCap)

\* A nil filter matches everything and so does NoSpec, the zero filter.
matchSpec(spec, filter) ==
    /\ filter.cpu > 0 => spec.cpu >= (filter.cpu * 8) \div 10
    /\ filter.gpu > 0 => spec.gpu >= filter.gpu \div 2
    /\ filter.memory > 0 => spec.memory >= filter.memory \div 2

(***************************************************************************)
(* The loop of GetPriceInfo keeps three tallies.  The lowest price of the  *)
(* whole log starts at "no price yet", but in the two windows the code     *)
(* uses 0 both as "no price yet" and as a price: a free sale makes the     *)
(* next sale of the window its new minimum.  The highest price of all      *)
(* three starts at 0.                                                      *)
(***************************************************************************)
NoSales == [total |-> 0, count |-> 0, min |-> 0, max |-> 0]

Tally(t, price, emptyMin) ==
    [total |-> t.total + price,
     count |-> t.count + 1,
     min   |-> IF emptyMin \/ price < t.min THEN price ELSE t.min,
     max   |-> IF price > t.max THEN price ELSE t.max]

TallyAll(t, price)    == Tally(t, price, t.count = 0)
TallyWindow(t, price) == Tally(t, price, t.min = 0)

After_Inclusive(ts, now, span) == ts >= now - span
After(ts, now, span) == ts > now - span

\* One tally, of the records whose numbers are in "counted".
TallyOf(records, counted, window) ==
    LET t[i \in 0..Len(records)] ==
          IF i = 0 THEN NoSales
          ELSE IF i \notin counted THEN t[i - 1]
          ELSE IF window THEN TallyWindow(t[i - 1], records[i].price)
          ELSE TallyAll(t[i - 1], records[i].price)
    IN  t[Len(records)]

GetPriceInfo(records, filter, now) ==
    LET matching    == {i \in DOMAIN records : matchSpec(records[i].spec, filter)}
        since(span) == {i \in matching : After(records[i].ts, now, span)}
    IN  [all     |-> TallyOf(records, matching, FALSE),
         last24  |-> TallyOf(records, since(H24), TRUE),     \* count = 0: nil in the code
         last7d  |-> TallyOf(records, since(D7), TRUE),
         history |-> LastN(records, HistoryCap)]

(***************************************************************************)
(* GetRecommendation.  change = (avg24 - avg7) / avg7 is compared with     *)
(* +-0.1 when avg7 is positive, the supply factor is 0.9, 1.0 or 1.1 (kept *)
(* in tenths), and the price is rounded to whole cents as math.Round does: *)
(* to the nearest, half away from zero.                                    *)
(***************************************************************************)
Compare(last24, last7d) ==
    LET a == last24.total * last7d.count       \* avg24 > avg7  <=>  a > b
        b == last7d.total * last24.count
        known == last24.count > 0 /\ last7d.count > 0 /\ last7d.total > 0
    IN  CASE known /\ 10 * (a - b) > b -> "rising"
          [] known /\ 10 * (b - a) > b -> "falling"
          [] OTHER -> "stable"

Trend(info) == Compare(info.last24, info.last7d)

SupplyTenths_NoMargin(all) ==
    IF all.total > 0 /\ all.min * all.count <= all.total THEN 9 ELSE 10
SupplyTenths(all) ==
    LET cheap == 10 * all.min * all.count < 7 * all.total
        dear  == 10 * all.max * all.count > 13 * all.total
    IN  CASE all.total > 0 /\ cheap          -> 9
          [] all.total > 0 /\ ~cheap /\ dear -> 11
          [] OTHER -> 10

BasePriceCents == 10000      \* basePrice = 100 when there is no average

RoundUp(num, den) == (2 * num + den) \div (2 * den)
Round(num, den) == IF num >= 0 THEN RoundUp(num, den) ELSE -RoundUp(-num, den)

\* Thousandths: min(0.9, 0.5 + count / 1000).
Confidence(last24, last7d) ==
    IF last24.count = 0 \/ last7d.total <= 0 THEN 500
    ELSE IF last7d.count > 400 THEN 900 ELSE 500 + last7d.count

GetRecommendation(records, filter, now) ==
    LET info  == GetPriceInfo(records, filter, now)
        total == IF info.all.total = 0 THEN BasePriceCents ELSE info.all.total
        count == IF info.all.total = 0 THEN 1 ELSE info.all.count
        gpu2  == IF filter.gpu > 0 THEN 2 + filter.gpu ELSE 2    \* halves
        dur20 == IF filter.duration >= 60 THEN 17 ELSE 20        \* twentieths
    IN  [price      |-> Round(total * SupplyTenths(info.all) * gpu2 * dur20,
                              count * 10 * 2 * 20),
         trend      |-> Trend(info),
         confidence |-> Confidence(info.last24, info.last7d)]
=============================================================================
