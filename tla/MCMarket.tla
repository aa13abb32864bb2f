------------------------------ MODULE MCMarket ------------------------------
(* Instances of Market for TLC. *)
EXTENDS Market, TLC

Plain == [cpu |-> 4, memory |-> 8, gpu |-> 0, duration |-> 0]
Accel == [cpu |-> 2, memory |-> 4, gpu |-> 2, duration |-> 60]

\* All offers are alike; prices are asked for them and for what nobody offers.
OfferSpecs   == {Plain}
PriceFilters == {Plain, Accel}

\* Signed values: a price below nothing, a negative stock, an order that gives back.
SomePrices     == {-3, 0, 9}
SomeStocks     == {-2, 2}
SomeQuantities == {-1, 3}

\* Offers are told apart by their ids only.
OfferSymmetry == Permutations(OfferIds)
=============================================================================
