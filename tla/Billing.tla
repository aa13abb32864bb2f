------------------------------- MODULE Billing -------------------------------
(***************************************************************************)
(* Bills and their payment (BillingService, internal/billing).  Every      *)
(* method holds the service's lock throughout, so each is one action, and  *)
(* a method that returns an error changes nothing.                         *)
(*                                                                         *)
(* Amounts are integers: prices in the smallest unit, totals in hundredths *)
(* of it, so that a discount in percent is exact; the code computes them   *)
(* in floating point.  Time is a number of billing terms (30 days).        *)
(* A definition X_Y is the mutation Y of X, used by no specification.      *)
(***************************************************************************)
EXTENDS Integers, FiniteSetsExt

CONSTANTS BillIds,
          Tenants,             \* those a bill may be made out to
          Resources,           \* what is metered: CPU hours, GPU hours, ...
          Usages,              \* the usages a bill may have
          Prices, DefaultPriceUnits,
          Discounts,           \* the discounts, in percent
          DueDates,            \* the due dates a caller gives, or NoDate
          PaidDates,           \* the dates of payment a caller gives, or NoDate
          Updates,             \* the arguments of UpdateBill
          MaxTime              \* bound: terms that pass

BillStatus == {"pending", "paid", "overdue", "cancelled"}

NoDate == -1
Dates  == 0..(MaxTime + 1)

\* BillUpdate; <<>> is a field that is not given.
BillUpdate == [usage : {<<u>> : u \in Usages} \cup {<<>>},
               discount : {<<d>> : d \in Discounts} \cup {<<>>},
               status : {<<s>> : s \in BillStatus} \cup {<<>>},
               due : {<<d>> : d \in Dates} \cup {<<>>}]

BillingAssumption ==
    /\ IsFiniteSet(BillIds) /\ IsFiniteSet(Resources)
    /\ Usages \subseteq [Resources -> Int]
    /\ Prices \subseteq [Resources -> Int] /\ DefaultPriceUnits \in Prices
    /\ Discounts \subseteq Int
    /\ DueDates \subseteq Dates \cup {NoDate}
    /\ PaidDates \subseteq Dates \cup {NoDate} /\ NoDate \in PaidDates
    /\ Updates \subseteq BillUpdate
    /\ MaxTime \in Nat

VARIABLES bills,   \* bs.bills: id -> bill
          prices,  \* bs.prices
          now,
          ledger   \* history: what each tenant's payments come to

vars == <<bills, prices, now, ledger>>

Bill == [tenant : Tenants, usage : Usages, unitPrice : Prices, discount : Discounts,
         total : Int, status : BillStatus, due : Dates, paidAt : Dates \cup {NoDate},
         created : 0..MaxTime]

Init ==
    /\ bills = [b \in {} |-> NoDate]
    /\ prices = DefaultPriceUnits
    /\ now = 0
    /\ ledger = [t \in Tenants |-> 0]

CalculateTotal(bill) ==
    LET cost == SumFunctionOnSet([r \in Resources |-> bill.usage[r] * bill.unitPrice[r]],
                                 Resources)
    IN  IF bill.discount > 0 THEN cost * (100 - bill.discount) ELSE cost * 100

(***************************************************************************)
(* The books: PayBill is a payment.  The two other calls that change what  *)
(* counts as paid are booked for what they do: UpdateBill, which may change *)
(* the status or the amount of a paid bill or mark a bill paid, and         *)
(* CreateBill with the id of a paid bill, which takes its place.            *)
(***************************************************************************)
Paid(bill) == IF bill.status = "paid" THEN bill.total ELSE 0

Book(t, amount) == ledger' = [ledger EXCEPT ![t] = @ + amount]

\* The caller chooses the id, which may be that of an existing bill: a submission
\* that is repeated replaces the bill.  The date of payment is stored as it is
\* given, and a due date that is not given is a term from now.
CreateBill(b, tenant, usage, discount, due, paidAt) ==
    LET bill == [tenant |-> tenant, usage |-> usage, unitPrice |-> prices,
                 discount |-> discount, total |-> 0, status |-> "pending",
                 due |-> IF due = NoDate THEN now + 1 ELSE due,
                 paidAt |-> paidAt, created |-> now]
    IN  /\ bills' = [c \in DOMAIN bills \cup {b} |->
                       IF c = b THEN [bill EXCEPT !.total = CalculateTotal(bill)]
                       ELSE bills[c]]
        /\ IF b \in DOMAIN bills THEN Book(bills[b].tenant, -Paid(bills[b]))
           ELSE UNCHANGED ledger
        /\ UNCHANGED <<prices, now>>

Given(f, old) == IF f = <<>> THEN old ELSE f[1]

Updated(bill, u) == [bill EXCEPT !.usage = Given(u.usage, @),
                                 !.discount = Given(u.discount, @),
                                 !.status = Given(u.status, @),
                                 !.due = Given(u.due, @)]

UpdateBill_TotalFromUsageOnly(b, u) ==
    LET new == Updated(bills[b], u)
    IN  /\ b \in DOMAIN bills
        /\ bills' = [bills EXCEPT ![b] =
                       IF u.usage = <<>> THEN new
                       ELSE [new EXCEPT !.total = CalculateTotal(new)]]
        /\ Book(bills[b].tenant, Paid(bills'[b]) - Paid(bills[b]))
        /\ UNCHANGED <<prices, now>>

\* A given usage or discount recomputes the total; a status is taken as it is.
UpdateBill(b, u) ==
    LET new == Updated(bills[b], u)
    IN  /\ b \in DOMAIN bills
        /\ bills' = [bills EXCEPT ![b] =
                       IF u.usage = <<>> /\ u.discount = <<>> THEN new
                       ELSE [new EXCEPT !.total = CalculateTotal(new)]]
        /\ Book(bills[b].tenant, Paid(bills'[b]) - Paid(bills[b]))
        /\ UNCHANGED <<prices, now>>

PayBill_AtDueDate(b) ==
    /\ b \in DOMAIN bills
    /\ bills[b].status # "paid"
    /\ bills' = [bills EXCEPT ![b].status = "paid", ![b].paidAt = bills[b].due]
    /\ Book(bills[b].tenant, bills[b].total)
    /\ UNCHANGED <<prices, now>>

PayBill(b) ==
    /\ b \in DOMAIN bills
    /\ bills[b].status # "paid"
    /\ bills' = [bills EXCEPT ![b].status = "paid", ![b].paidAt = now]
    /\ Book(bills[b].tenant, bills[b].total)
    /\ UNCHANGED <<prices, now>>

CancelBill_Always(b) ==
    /\ b \in DOMAIN bills
    /\ bills' = [bills EXCEPT ![b].status = "cancelled"]
    /\ UNCHANGED <<prices, now, ledger>>

CancelBill(b) ==
    /\ b \in DOMAIN bills
    /\ bills[b].status # "paid"
    /\ bills' = [bills EXCEPT ![b].status = "cancelled"]
    /\ UNCHANGED <<prices, now, ledger>>

UpdatePrices(p) ==
    /\ prices' = p
    /\ UNCHANGED <<bills, now, ledger>>

Tick ==
    /\ now < MaxTime
    /\ now' = now + 1
    /\ UNCHANGED <<bills, prices, ledger>>

Next ==
    \/ \E b \in BillIds :
          \/ \E t \in Tenants, u \in Usages, d \in Discounts, due \in DueDates,
                paid \in PaidDates : CreateBill(b, t, u, d, due, paid)
          \/ \E u \in Updates : UpdateBill(b, u)
          \/ PayBill(b)
          \/ CancelBill(b)
    \/ \E p \in Prices : UpdatePrices(p)
    \/ Tick

Spec == Init /\ [][Next]_vars

-----------------------------------------------------------------------------
(* Summaries *)

\* The bills of a tenant in a period; NoDate leaves an end of it open, and both
\* ends belong to the period.  The tenant set has every tenant when no tenant
\* is asked for.
filterBills_EndsExclusive(ts, from, to) ==
    {b \in DOMAIN bills : /\ bills[b].tenant \in ts
                          /\ from # NoDate => bills[b].created > from
                          /\ to # NoDate => bills[b].created < to}
filterBills(ts, from, to) ==
    {b \in DOMAIN bills : /\ bills[b].tenant \in ts
                          /\ from # NoDate => bills[b].created >= from
                          /\ to # NoDate => bills[b].created <= to}

Amount(bs) == SumFunctionOnSet([b \in bs |-> bills[b].total], bs)

Summary(found) ==
    [count   |-> Cardinality(found),
     total   |-> Amount(found),
     paid    |-> Amount({b \in found : bills[b].status = "paid"}),
     pending |-> Amount({b \in found : bills[b].status = "pending"}),
     usage   |-> [r \in Resources |->
                    SumFunctionOnSet([b \in found |-> bills[b].usage[r]], found)]]

GetBillingSummary(ts, from, to) == Summary(filterBills(ts, from, to))

-----------------------------------------------------------------------------
(* Properties *)

\* Every variable has its type, and a payment that is dated in the future was dated
\* so by who submitted the bill.
TypeOK ==
    /\ DOMAIN bills \subseteq BillIds
    /\ \A b \in DOMAIN bills :
          bills[b] \in Bill /\ (bills[b].paidAt <= now \/ bills[b].paidAt \in PaidDates)
    /\ prices \in Prices
    /\ now \in 0..MaxTime
    /\ ledger \in [Tenants -> Int]

\* Whatever was updated since, in whatever order, a bill's total is what its
\* usage and discount cost at the unit price it keeps.
TotalIsDue == \A b \in DOMAIN bills : bills[b].total = CalculateTotal(bills[b])

\* What a tenant's summary says is paid is exactly what its payments come to: each
\* counted once and at the amount the bill has, none undone by a cancellation or
\* changed with the prices, and none moved to another tenant.  A payment is taken
\* back only by the two calls that can (UpdateBill, or CreateBill with the id of a
\* paid bill), and only the amount of that bill, from the tenant who had paid it.
PaymentsAreBooked ==
    \A t \in Tenants : GetBillingSummary({t}, NoDate, NoDate).paid = ledger[t]

\* The summaries of two periods that adjoin count every bill, and twice only the
\* bills made at the very instant they share; those of the tenants add up to the
\* summary of all of them.
SummariesAddUp ==
    LET sum(s, t) == [count |-> s.count + t.count, total |-> s.total + t.total,
                      paid |-> s.paid + t.paid, pending |-> s.pending + t.pending,
                      usage |-> [r \in Resources |-> s.usage[r] + t.usage[r]]]
        Of(ts, from, to) == GetBillingSummary(ts, from, to)
        MadeAt(m) == {b \in DOMAIN bills : bills[b].created = m}
    IN  /\ \A m \in 0..MaxTime :
             sum(Of(Tenants, NoDate, m), Of(Tenants, m, NoDate)) =
                sum(Of(Tenants, NoDate, NoDate), Summary(MadeAt(m)))
        /\ \A t \in Tenants :
             Of(Tenants, NoDate, NoDate) =
                sum(Of({t}, NoDate, NoDate), Of(Tenants \ {t}, NoDate, NoDate))
=============================================================================
