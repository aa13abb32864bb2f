--------------------------- MODULE ServicesProofs ---------------------------
(***************************************************************************)
(* Proofs about Services, for any nodes and lists of them, any bills,      *)
(* tenants, resources and prices, any number of benchmarks and of callers  *)
(* that read them, and any clusters and replicas.                          *)
(*                                                                         *)
(* Selection: SoFar is SelectionIsBest for the nodes before the next one.  *)
(* Billing: the total that is due depends on the usage, the price and the  *)
(* discount of a bill only, and whatever changes one of these computes it  *)
(* again; the books follow one bill at a time (BBooked, SumChanges), and   *)
(* summaries add up because sums over two sets do (SumUnion).              *)
(* Benchmarks: what a caller knows (ReaderOK) is kept by the steps of      *)
(* everybody else.  A ranking needs that nobody changes the score objects  *)
(* while it holds the read lock, and that the first of its objects keep    *)
(* the rank it gave them but for the places that others give (Numbered); a *)
(* composite score, which holds no lock, that a benchmark which was        *)
(* complete when it was listed stays so.                                   *)
(* Distribution: as many clusters as the remainder have the first places   *)
(* of a listing, because no cluster is in it twice.                        *)
(***************************************************************************)
EXTENDS Services, SumTheorems

LEMMA ServicesFacts ==
  /\ SelectionAssumption
  /\ Bills!BillingAssumption
  /\ Bench!BenchmarkAssumption
  /\ Dist!DistributionAssumption
  BY ServicesAssumption DEF ServicesAssumption

-----------------------------------------------------------------------------
(* The operators on finite sets that an instance brings are those of this  *)
(* module.                                                                 *)

LEMMA BillsSame ==
  /\ \A S : Bills!IsFiniteSet(S) <=> IsFiniteSet(S)
  /\ \A S : Bills!Cardinality(S) = Cardinality(S)
  /\ \A f, S : Bills!SumFunctionOnSet(f, S) = SumFunctionOnSet(f, S)
  <1>1. \A S : Bills!IsFiniteSet(S) <=> IsFiniteSet(S)
    BY DEF Bills!IsFiniteSet, IsFiniteSet
  <1>2. \A S : Bills!Cardinality(S) = Cardinality(S)
    BY DEF Bills!Cardinality, Cardinality
  <1>3. \A f, S : Bills!SumFunctionOnSet(f, S) = SumFunctionOnSet(f, S)
    BY DEF Bills!SumFunctionOnSet, Bills!FoldFunctionOnSet, Bills!MapThenFoldSet,
           SumFunctionOnSet, FoldFunctionOnSet, MapThenFoldSet
  <1> QED BY <1>1, <1>2, <1>3

LEMMA BenchmarksSame ==
  /\ \A S : Bench!IsFiniteSet(S) <=> IsFiniteSet(S)
  /\ \A S : Bench!Cardinality(S) = Cardinality(S)
  <1>1. \A S : Bench!IsFiniteSet(S) <=> IsFiniteSet(S)
    BY DEF Bench!IsFiniteSet, IsFiniteSet
  <1>2. \A S : Bench!Cardinality(S) = Cardinality(S)
    BY DEF Bench!Cardinality, Cardinality
  <1> QED BY <1>1, <1>2

LEMMA DistributionSame ==
  /\ \A S : Dist!IsFiniteSet(S) <=> IsFiniteSet(S)
  /\ \A S : Dist!Cardinality(S) = Cardinality(S)
  /\ \A f, S : Dist!SumFunctionOnSet(f, S) = SumFunctionOnSet(f, S)
  <1>1. \A S : Dist!IsFiniteSet(S) <=> IsFiniteSet(S)
    BY DEF Dist!IsFiniteSet, IsFiniteSet
  <1>2. \A S : Dist!Cardinality(S) = Cardinality(S)
    BY DEF Dist!Cardinality, Cardinality
  <1>3. \A f, S : Dist!SumFunctionOnSet(f, S) = SumFunctionOnSet(f, S)
    BY DEF Dist!SumFunctionOnSet, Dist!FoldFunctionOnSet,
           Dist!MapThenFoldSet, SumFunctionOnSet, FoldFunctionOnSet, MapThenFoldSet
  <1> QED BY <1>1, <1>2, <1>3


-----------------------------------------------------------------------------
(* The choice of a node *)

SoFar ==
    next # 0 =>
      /\ selected = 0 => \A i \in 1..(next - 1) : ~Eligible(nodes[i], job)
      /\ selected # 0 =>
           /\ selected < next
           /\ Eligible(nodes[selected], job)
           /\ minScore = calculateNodeScore(nodes[selected], job)
           /\ \A i \in 1..(next - 1) : Eligible(nodes[i], job) =>
                /\ minScore <= calculateNodeScore(nodes[i], job)
                /\ i < selected => minScore < calculateNodeScore(nodes[i], job)

SInv == TypeOK /\ SoFar

\* Scores are integers: a selector has finitely many labels that do not match.
LEMMA ScoreInt ==
  ASSUME SelectionAssumption, NEW n \in Nodes, NEW j \in Jobs
  PROVE  calculateNodeScore(n, j) \in Int
  <1>1. Cardinality(Mismatches(n, j)) \in Nat
    <2>1. IsFiniteSet(DOMAIN j.selector) /\ Mismatches(n, j) \subseteq DOMAIN j.selector
      BY DEF SelectionAssumption, Mismatches
    <2>2. IsFiniteSet(Mismatches(n, j))
      BY <2>1, FS_Subset
    <2> QED BY <2>2, FS_CardinalityType
  <1>2. n.cpu \in Nat /\ n.memory \in Nat
    BY DEF SelectionAssumption
  <1>3. Cores(n.cpu) \in Int
    BY <1>2 DEF Cores
  <1> QED BY <1>1, <1>2, <1>3 DEF calculateNodeScore

\* The listed nodes have integer scores.
LEMMA ListScores ==
  ASSUME SelectionAssumption, TypeOK, NEW i \in 1..Len(nodes)
  PROVE  calculateNodeScore(nodes[i], job) \in Int
  <1>1. nodes \in Seq(Nodes) /\ job \in Jobs
    BY DEF TypeOK, SelectionAssumption
  <1> QED BY <1>1, ScoreInt

-----------------------------------------------------------------------------
(* The actions *)

LEMMA CallStep ==
  ASSUME NEW ns \in NodeLists, NEW j \in Jobs, SelectionAssumption, Call(ns, j)
  PROVE  SInv'
  <1>1. ns \in Seq(Nodes) /\ Len(ns) \in Nat
    BY DEF SelectionAssumption
  <1> QED BY <1>1 DEF Call, SInv, TypeOK, SoFar

\* The node at "next" is looked at, and what is kept is the best one up to it.
LEMMA LookStep ==
  ASSUME SelectionAssumption, SInv, Skip \/ Select \/ Keep
  PROVE  SInv'
  <1> DEFINE score(i) == calculateNodeScore(nodes[i], job)
  <1>1. /\ nodes \in Seq(Nodes) /\ Len(nodes) \in Nat /\ next \in 1..Len(nodes)
        /\ selected \in 0..Len(nodes) /\ minScore \in Int
        /\ next' = next + 1 /\ nodes' = nodes /\ job' = job
    BY DEF SInv, TypeOK, SelectionAssumption, Skip, Select, Keep, Looking
  <1>2. \A i \in 1..next : score(i) \in Int
    BY <1>1, ListScores DEF SInv
  <1>3. CASE Skip
    BY <1>1, <1>3 DEF Skip, SInv, TypeOK, SoFar
  <1>4. CASE Select
    <2>1. selected' = next /\ minScore' = score(next) /\ Eligible(nodes[next], job)
      BY <1>4 DEF Select
    <2>2. selected # 0 => score(next) < minScore
      BY <1>4 DEF Select, Better
    <2>3. ASSUME NEW i \in 1..(next - 1), Eligible(nodes[i], job)
          PROVE  minScore' < score(i)
      BY <1>1, <1>2, <2>1, <2>2, <2>3 DEF SInv, SoFar
    <2>4. TypeOK'
      BY <1>1, <1>2, <2>1 DEF SInv, TypeOK
    <2>5. SoFar'
      BY <1>1, <1>2, <2>1, <2>3 DEF SoFar
    <2> QED BY <2>4, <2>5 DEF SInv
  <1>5. CASE Keep
    <2>1. /\ selected' = selected /\ minScore' = minScore /\ selected # 0
          /\ ~(score(next) < minScore)
      BY <1>5 DEF Keep, Better
    <2>2. TypeOK'
      BY <1>1, <2>1 DEF SInv, TypeOK
    <2>3. SoFar'
      BY <1>1, <1>2, <2>1 DEF SInv, SoFar
    <2> QED BY <2>2, <2>3 DEF SInv
  <1> QED BY <1>3, <1>4, <1>5

LEMMA SNext == ASSUME SelectionAssumption, SInv, [Next]_vars PROVE SInv'
  <1>1. ASSUME NEW ns \in NodeLists, NEW j \in Jobs, Call(ns, j) PROVE SInv'
    BY <1>1, CallStep
  <1>2. CASE Skip \/ Select \/ Keep
    BY <1>2, LookStep
  <1>3. CASE Return
    <2>1. Len(nodes) \in Nat
      BY DEF SInv, TypeOK, SelectionAssumption
    <2> QED BY <1>3, <2>1 DEF Return, SInv, TypeOK, SoFar
  <1>4. CASE UNCHANGED vars
    BY <1>4 DEF vars, SInv, TypeOK, SoFar
  <1> QED BY <1>1, <1>2, <1>3, <1>4 DEF Next

LEMMA SelectionInit == Init => SInv
  BY DEF Init, SInv, TypeOK, SoFar

LEMMA SelectionResult == SInv => SelectionIsBest
  <1> SUFFICES ASSUME SInv, next = Len(nodes) + 1
               PROVE  IF selected = 0 THEN \A i \in DOMAIN nodes : ~Eligible(nodes[i], job)
                      ELSE LET score(i) == calculateNodeScore(nodes[i], job)
                           IN  /\ Eligible(nodes[selected], job)
                               /\ \A i \in DOMAIN nodes : Eligible(nodes[i], job) =>
                                     /\ score(selected) <= score(i)
                                     /\ i < selected => score(selected) < score(i)
    BY DEF SelectionIsBest
  <1>1. nodes \in Seq(Nodes)
    <2>1. CASE nodes \in NodeLists
      BY ServicesFacts, <2>1 DEF SelectionAssumption
    <2>2. CASE nodes = <<>>
      BY <2>2
    <2> QED BY <2>1, <2>2 DEF SInv, TypeOK
  <1>2. Len(nodes) \in Nat /\ DOMAIN nodes = 1..Len(nodes)
    BY <1>1
  <1>3. next - 1 = Len(nodes) /\ next # 0
    BY <1>2
  <1> QED BY <1>2, <1>3 DEF SInv, SoFar

-----------------------------------------------------------------------------
(* The billing service *)

\* What bill b adds to the payments of tenant t.
Part(b, t) ==
    IF b \in DOMAIN bills /\ bills[b].tenant = t THEN Bills!Paid(bills[b]) ELSE 0

PaidBy(t) == SumFunctionOnSet([b \in BillIds |-> Part(b, t)], BillIds)

\* The books agree with the bills, for each tenant.
BBooked == \A t \in Tenants : ledger[t] = PaidBy(t)

BInv == Bills!TypeOK /\ Bills!TotalIsDue /\ BBooked

\* What a bill costs depends on its usage, price and discount, and is an integer.
LEMMA CostIsInt ==
  ASSUME Bills!BillingAssumption, NEW bill, bill.usage \in Usages,
         bill.unitPrice \in Prices,
         bill.discount \in Discounts
  PROVE  Bills!CalculateTotal(bill) \in Int
  <1> DEFINE f == [r \in Resources |-> bill.usage[r] * bill.unitPrice[r]]
  <1>1. \A r \in Resources : f[r] \in Int
    <2>1. bill.usage \in [Resources -> Int] /\ bill.unitPrice \in [Resources -> Int]
      BY DEF Bills!BillingAssumption
    <2> QED BY <2>1
  <1>2. SumFunctionOnSet(f, Resources) \in Int /\ bill.discount \in Int
    BY <1>1, SumInt, BillsSame DEF Bills!BillingAssumption
  <1> HIDE DEF f
  <1>3. /\ SumFunctionOnSet(f, Resources) * (100 - bill.discount) \in Int
        /\ SumFunctionOnSet(f, Resources) * 100 \in Int
    BY <1>2
  <1> QED BY <1>2, <1>3, BillsSame DEF Bills!CalculateTotal, f

LEMMA CostDependsOn ==
  ASSUME NEW bill, NEW other, bill.usage = other.usage,
         bill.unitPrice = other.unitPrice, bill.discount = other.discount
  PROVE  Bills!CalculateTotal(bill) = Bills!CalculateTotal(other)
  BY DEF Bills!CalculateTotal

\* A bill whose total is computed has its type and the total it should.
LEMMA Computed ==
  ASSUME Bills!BillingAssumption, NEW bill \in Bills!Bill
  PROVE  LET new == [bill EXCEPT !.total = Bills!CalculateTotal(bill)]
         IN  /\ new \in Bills!Bill
             /\ new.paidAt = bill.paidAt /\ new.tenant = bill.tenant
             /\ new.status = bill.status
             /\ new.total = Bills!CalculateTotal(new)
  <1> DEFINE new == [bill EXCEPT !.total = Bills!CalculateTotal(bill)]
  <1>1. Bills!CalculateTotal(bill) \in Int
    BY CostIsInt DEF Bills!Bill
  <1>2. /\ new \in Bills!Bill
        /\ new.paidAt = bill.paidAt /\ new.tenant = bill.tenant
        /\ new.status = bill.status
        /\ new.total = Bills!CalculateTotal(bill)
        /\ new.usage = bill.usage /\ new.unitPrice = bill.unitPrice
        /\ new.discount = bill.discount
    BY <1>1 DEF Bills!Bill
  <1> HIDE DEF new
  <1>3. Bills!CalculateTotal(new) = Bills!CalculateTotal(bill)
    BY <1>2, CostDependsOn
  <1> QED BY <1>2, <1>3 DEF new

LEMMA GivenType ==
  ASSUME NEW S, NEW old \in S, NEW f \in {<<x>> : x \in S} \cup {<<>>}
  PROVE  Bills!Given(f, old) \in S
  BY DEF Bills!Given

LEMMA PaidInt == \A bill \in Bills!Bill : Bills!Paid(bill) \in Int
  BY DEF Bills!Paid, Bills!Bill

LEMMA PartInt ==
  ASSUME Bills!TypeOK, NEW b \in BillIds, NEW t
  PROVE  Part(b, t) \in Int
  BY PaidInt DEF Part, Bills!TypeOK

\* When one function differs from another at one element only, so do their sums.
LEMMA SumChanges ==
  ASSUME NEW S, IsFiniteSet(S), NEW x \in S, NEW f, NEW g,
         \A y \in S : f[y] \in Int /\ g[y] \in Int,
         \A y \in S \ {x} : f[y] = g[y]
  PROVE  SumFunctionOnSet(g, S) = SumFunctionOnSet(f, S) - f[x] + g[x]
  <1>1. IsFiniteSet(S \ {x})
    BY FS_Subset
  <1>2. /\ SumFunctionOnSet(f, S) = f[x] + SumFunctionOnSet(f, S \ {x})
        /\ SumFunctionOnSet(g, S) = g[x] + SumFunctionOnSet(g, S \ {x})
    BY SumRemove
  <1>3. /\ SumFunctionOnSet(f, S \ {x}) = SumFunctionOnSet(g, S \ {x})
    BY <1>1, SumExtensional
  <1>4. SumFunctionOnSet(f, S \ {x}) \in Int
    BY <1>1, SumInt
  <1> QED BY <1>2, <1>3, <1>4

\* A step that changes one bill leaves the others as they are; the books have to
\* change by what the bill adds to the payments of each tenant.
LEMMA OneBill ==
  ASSUME Bills!BillingAssumption, BInv, NEW b \in BillIds, NEW bill \in Bills!Bill,
         bill.paidAt <= now \/ bill.paidAt \in PaidDates,
         bill.total = Bills!CalculateTotal(bill),
         bills' = [c \in DOMAIN bills \cup {b} |-> IF c = b THEN bill ELSE bills[c]],
         UNCHANGED <<prices, now>>,
         ledger' \in [Tenants -> Int],
         \A t \in Tenants :
            ledger'[t] = ledger[t] - Part(b, t)
                           + IF bill.tenant = t THEN Bills!Paid(bill) ELSE 0
  PROVE  BInv'
  <1>1. Bills!CalculateTotal(bill)' = Bills!CalculateTotal(bill)
    BY DEF Bills!CalculateTotal
  <1>2. \A c \in DOMAIN bills' : bills'[c].total = Bills!CalculateTotal(bills'[c])
    BY DEF BInv, Bills!TotalIsDue
  <1>3. Bills!TypeOK'
    BY DEF BInv, Bills!TypeOK
  <1>4. ASSUME NEW t \in Tenants PROVE ledger'[t] = PaidBy(t)'
    <2> DEFINE f == [c \in BillIds |-> Part(c, t)]
               g == [c \in BillIds |-> Part(c, t)']
    <2>1. \A c \in BillIds : f[c] \in Int /\ g[c] \in Int
      <3>1. \A c \in BillIds : Part(c, t) \in Int
        BY PartInt DEF BInv
      <3>2. \A c \in BillIds : Part(c, t)' \in Int
        <4> SUFFICES ASSUME NEW c \in BillIds PROVE Part(c, t)' \in Int
          OBVIOUS
        <4>1. c \in DOMAIN bills' => bills'[c].total \in Int
          BY <1>3 DEF Bills!TypeOK, Bills!Bill
        <4>2. Part(c, t)' \in {0, bills'[c].total} /\ (c \notin DOMAIN bills' => Part(c, t)' = 0)
          BY DEF Part, Bills!Paid
        <4> QED BY <4>1, <4>2
      <3> QED BY <3>1, <3>2
    <2>2. \A c \in BillIds \ {b} : f[c] = g[c]
      BY DEF Part, Bills!Paid
    <2>3. f[b] = Part(b, t) /\ g[b] = IF bill.tenant = t THEN Bills!Paid(bill) ELSE 0
      BY DEF Part, Bills!Paid
    <2>4. ledger[t] = SumFunctionOnSet(f, BillIds) /\ ledger[t] \in Int
      BY DEF BInv, BBooked, PaidBy, Bills!TypeOK
    <2>5. PaidBy(t)' = SumFunctionOnSet(g, BillIds)
      BY DEF PaidBy
    <2>6. IsFiniteSet(BillIds)
      BY BillsSame DEF Bills!BillingAssumption
    <2> HIDE DEF f, g
    <2>7. SumFunctionOnSet(g, BillIds) = SumFunctionOnSet(f, BillIds) - f[b] + g[b]
      BY <2>1, <2>2, <2>6, SumChanges
    <2> QED BY <2>3, <2>4, <2>5, <2>7
  <1> QED BY <1>2, <1>3, <1>4 DEF BInv, BBooked, Bills!TotalIsDue

\* Booking an amount for a tenant.
LEMMA BookFacts ==
  ASSUME Bills!TypeOK, NEW u \in Tenants, NEW a \in Int, Bills!Book(u, a)
  PROVE  /\ ledger' \in [Tenants -> Int]
         /\ \A t \in Tenants : ledger'[t] = ledger[t] + IF t = u THEN a ELSE 0
  <1>1. ledger \in [Tenants -> Int] /\ ledger' = [ledger EXCEPT ![u] = @ + a]
    BY DEF Bills!TypeOK, Bills!Book
  <1> QED BY <1>1

\* The bill that is there before a step.
LEMMA StoredBill ==
  ASSUME BInv, NEW b \in DOMAIN bills
  PROVE  /\ b \in BillIds /\ bills[b] \in Bills!Bill /\ bills[b].tenant \in Tenants
         /\ bills[b].paidAt <= now \/ bills[b].paidAt \in PaidDates
         /\ bills[b].total = Bills!CalculateTotal(bills[b]) /\ bills[b].total \in Int
         /\ Bills!Paid(bills[b]) \in Int
         /\ \A t : Part(b, t) = IF bills[b].tenant = t THEN Bills!Paid(bills[b]) ELSE 0
  <1>1. b \in BillIds /\ bills[b] \in Bills!Bill
    BY DEF BInv, Bills!TypeOK
  <1>2. bills[b].tenant \in Tenants /\ bills[b].total \in Int
    BY <1>1 DEF Bills!Bill
  <1>3. /\ bills[b].paidAt <= now \/ bills[b].paidAt \in PaidDates
        /\ bills[b].total = Bills!CalculateTotal(bills[b])
    BY DEF BInv, Bills!TypeOK, Bills!TotalIsDue
  <1> QED BY <1>1, <1>2, <1>3, PaidInt DEF Part

LEMMA CreateStep ==
  ASSUME Bills!BillingAssumption, BInv, NEW b \in BillIds, NEW tenant \in Tenants,
         NEW usage \in Usages,
         NEW discount \in Discounts, NEW due \in DueDates, NEW paidAt \in PaidDates,
         Bills!CreateBill(b, tenant, usage, discount, due, paidAt)
  PROVE  BInv'
  <1> DEFINE date == IF due = Bills!NoDate THEN now + 1 ELSE due
             bill == [tenant |-> tenant, usage |-> usage, unitPrice |-> prices,
                      discount |-> discount,
                      total |-> 0, status |-> "pending", due |-> date,
                      paidAt |-> paidAt, created |-> now]
             new  == [bill EXCEPT !.total = Bills!CalculateTotal(bill)]
  <1>1. prices \in Prices /\ now \in 0..MaxTime /\ MaxTime \in Nat
        /\ ledger \in [Tenants -> Int]
    BY DEF BInv, Bills!TypeOK, Bills!BillingAssumption
  <1>2. paidAt \in Bills!Dates \cup {Bills!NoDate}
    BY DEF Bills!BillingAssumption
  <1>3. date \in Bills!Dates
    BY <1>1 DEF Bills!BillingAssumption, Bills!Dates
  <1>4. bill \in Bills!Bill /\ bill.paidAt = paidAt /\ bill.status = "pending"
    BY <1>1, <1>2, <1>3 DEF Bills!Bill, Bills!BillStatus
  <1>5. /\ bills' = [c \in DOMAIN bills \cup {b} |-> IF c = b THEN new ELSE bills[c]]
        /\ IF b \in DOMAIN bills THEN Bills!Book(bills[b].tenant, -Bills!Paid(bills[b]))
           ELSE UNCHANGED ledger
        /\ UNCHANGED <<prices, now>>
    BY DEF Bills!CreateBill
  <1> HIDE DEF bill, date
  <1>6. /\ new \in Bills!Bill /\ new.paidAt \in PaidDates /\ Bills!Paid(new) = 0
        /\ new.total = Bills!CalculateTotal(new)
    BY <1>4, Computed DEF Bills!Paid
  <1> HIDE DEF new
  <1>7. /\ ledger' \in [Tenants -> Int]
        /\ \A t \in Tenants : ledger'[t] = ledger[t] - Part(b, t)
    <2>1. CASE b \in DOMAIN bills
      <3>1. -Bills!Paid(bills[b]) \in Int
        BY <2>1, StoredBill
      <3> QED BY <1>1, <1>5, <2>1, <3>1, StoredBill, BookFacts DEF BInv
    <2>2. CASE b \notin DOMAIN bills
      BY <1>1, <1>5, <2>2 DEF Part
    <2> QED BY <2>1, <2>2
  <1>8. \A t \in Tenants : ledger'[t] = ledger[t] - Part(b, t)
                             + IF new.tenant = t THEN Bills!Paid(new) ELSE 0
    BY <1>1, <1>6, <1>7, PartInt DEF BInv
  <1> QED BY <1>5, <1>6, <1>7, <1>8, OneBill

\* The bill that an update makes, before its total is computed.
LEMMA UpdatedBill ==
  ASSUME Bills!BillingAssumption, NEW bill \in Bills!Bill, NEW u \in Updates
  PROVE  LET new == Bills!Updated(bill, u)
         IN  /\ new \in Bills!Bill /\ new.paidAt = bill.paidAt /\ new.tenant = bill.tenant
             /\ u.usage = <<>> /\ u.discount = <<>> =>
                   new.total = bill.total /\ Bills!CalculateTotal(new) =
                     Bills!CalculateTotal(bill)
  <1> DEFINE new == Bills!Updated(bill, u)
  <1>1. u \in Bills!BillUpdate
    BY DEF Bills!BillingAssumption
  <1>2. /\ Bills!Given(u.usage, bill.usage) \in Usages
        /\ Bills!Given(u.discount, bill.discount) \in Discounts
        /\ Bills!Given(u.status, bill.status) \in Bills!BillStatus
        /\ Bills!Given(u.due, bill.due) \in Bills!Dates
    <2>1. /\ bill.usage \in Usages /\ bill.discount \in Discounts
          /\ bill.status \in Bills!BillStatus /\ bill.due \in Bills!Dates
      BY DEF Bills!Bill
    <2>2. /\ u.usage \in {<<x>> : x \in Usages} \cup {<<>>}
          /\ u.discount \in {<<x>> : x \in Discounts} \cup {<<>>}
          /\ u.status \in {<<x>> : x \in Bills!BillStatus} \cup {<<>>}
          /\ u.due \in {<<x>> : x \in Bills!Dates} \cup {<<>>}
      BY <1>1 DEF Bills!BillUpdate
    <2> QED BY <2>1, <2>2, GivenType
  <1>3. /\ new \in Bills!Bill /\ new.paidAt = bill.paidAt /\ new.total = bill.total
        /\ new.tenant = bill.tenant
        /\ new.usage = Bills!Given(u.usage, bill.usage)
        /\ new.discount = Bills!Given(u.discount, bill.discount)
        /\ new.unitPrice = bill.unitPrice
    BY <1>2 DEF Bills!Bill, Bills!Updated
  <1> HIDE DEF new
  <1>4. u.usage = <<>> /\ u.discount = <<>> =>
          Bills!CalculateTotal(new) = Bills!CalculateTotal(bill)
    BY <1>3, CostDependsOn DEF Bills!Given
  <1> QED BY <1>3, <1>4 DEF new

\* A step that keeps the tenant of a bill and books what its payment changes by.
LEMMA SameTenant ==
  ASSUME Bills!BillingAssumption, BInv, NEW b \in DOMAIN bills, NEW bill \in Bills!Bill,
         bill.paidAt <= now \/ bill.paidAt \in PaidDates,
         bill.tenant = bills[b].tenant,
         bill.total = Bills!CalculateTotal(bill),
         bills' = [bills EXCEPT ![b] = bill],
         UNCHANGED <<prices, now>>,
         NEW a \in Int, a = Bills!Paid(bill) - Bills!Paid(bills[b]),
         Bills!Book(bills[b].tenant, a)
  PROVE  BInv'
  <1>1. bills' = [c \in DOMAIN bills \cup {b} |-> IF c = b THEN bill ELSE bills[c]]
    BY DEF BInv, Bills!TypeOK
  <1>2. /\ ledger' \in [Tenants -> Int] /\ ledger \in [Tenants -> Int]
        /\ \A t \in Tenants :
              ledger'[t] = ledger[t] + IF t = bills[b].tenant THEN a ELSE 0
    BY StoredBill, BookFacts DEF BInv, Bills!TypeOK
  <1>3. Bills!Paid(bill) \in Int
    BY PaidInt
  <1>4. \A t \in Tenants : ledger'[t] = ledger[t] - Part(b, t)
                             + IF bill.tenant = t THEN Bills!Paid(bill) ELSE 0
    BY <1>2, <1>3, StoredBill
  <1> QED BY <1>1, <1>2, <1>4, StoredBill, OneBill

LEMMA UpdateStep ==
  ASSUME Bills!BillingAssumption, BInv, NEW b \in BillIds, NEW u \in Updates,
         Bills!UpdateBill(b, u)
  PROVE  BInv'
  <1> DEFINE new   == Bills!Updated(bills[b], u)
             total == [new EXCEPT !.total = Bills!CalculateTotal(new)]
             kept  == u.usage = <<>> /\ u.discount = <<>>
             bill  == IF kept THEN new ELSE total
  <1>1. b \in DOMAIN bills
    BY DEF Bills!UpdateBill
  <1>2. /\ new \in Bills!Bill /\ new.paidAt = bills[b].paidAt
        /\ new.tenant = bills[b].tenant
        /\ kept => new.total = bills[b].total
                   /\ Bills!CalculateTotal(new) = Bills!CalculateTotal(bills[b])
    BY <1>1, StoredBill, UpdatedBill
  <1>3. /\ bills' = [bills EXCEPT ![b] = bill]
        /\ Bills!Book(bills[b].tenant, Bills!Paid(bills'[b]) - Bills!Paid(bills[b]))
        /\ UNCHANGED <<prices, now>>
    BY DEF Bills!UpdateBill
  <1> HIDE DEF new
  <1>4. /\ total \in Bills!Bill
        /\ total.paidAt = new.paidAt /\ total.tenant = new.tenant
        /\ total.total = Bills!CalculateTotal(total)
    BY <1>2, Computed
  <1> HIDE DEF total, kept
  <1>5. /\ bill \in Bills!Bill /\ bill.paidAt = bills[b].paidAt
        /\ bill.tenant = bills[b].tenant
        /\ bill.total = Bills!CalculateTotal(bill)
    BY <1>1, <1>2, <1>4, StoredBill
  <1> HIDE DEF bill
  <1>6. bills'[b] = bill
    BY <1>1, <1>3 DEF BInv, Bills!TypeOK
  <1>7. Bills!Paid(bill) - Bills!Paid(bills[b]) \in Int
    BY <1>1, <1>5, PaidInt, StoredBill
  <1> QED BY <1>1, <1>3, <1>5, <1>6, <1>7, StoredBill, SameTenant

\* A payment and a cancellation change no total.
LEMMA PayStep ==
  ASSUME Bills!BillingAssumption, BInv, NEW b \in BillIds, Bills!PayBill(b)
  PROVE  BInv'
  <1> DEFINE old == bills[b]
             new == [old EXCEPT !.status = "paid", !.paidAt = now]
  <1>1. /\ b \in DOMAIN bills /\ old.status # "paid" /\ now \in 0..MaxTime /\ MaxTime \in Nat
        /\ Bills!Book(old.tenant, old.total) /\ UNCHANGED <<prices, now>>
    BY DEF BInv, Bills!TypeOK, Bills!PayBill, Bills!BillingAssumption
  <1>2. old \in Bills!Bill /\ old.total = Bills!CalculateTotal(old) /\ old.total \in Int
    BY <1>1, StoredBill
  <1>3. bills' = [bills EXCEPT ![b] = new]
    BY <1>1, <1>2 DEF Bills!PayBill, Bills!Bill
  <1>4. /\ new \in Bills!Bill /\ new.paidAt = now /\ new.total = old.total
        /\ new.status = "paid" /\ new.tenant = old.tenant
        /\ new.usage = old.usage /\ new.unitPrice = old.unitPrice
        /\ new.discount = old.discount
    <2>1. now \in Bills!Dates \cup {Bills!NoDate} /\ "paid" \in Bills!BillStatus
      BY <1>1 DEF Bills!Dates, Bills!BillStatus
    <2> QED BY <1>2, <2>1 DEF Bills!Bill
  <1> HIDE DEF new, old
  <1>5. new.total = Bills!CalculateTotal(new)
    BY <1>2, <1>4, CostDependsOn
  <1>6. Bills!Paid(new) = old.total /\ Bills!Paid(old) = 0
    BY <1>1, <1>4 DEF Bills!Paid
  <1>7. new.paidAt <= now /\ old.total = Bills!Paid(new) - Bills!Paid(old)
    BY <1>1, <1>2, <1>4, <1>6
  <1> QED BY <1>1, <1>2, <1>3, <1>4, <1>5, <1>7, SameTenant DEF old

LEMMA CancelStep ==
  ASSUME Bills!BillingAssumption, BInv, NEW b \in BillIds, Bills!CancelBill(b)
  PROVE  BInv'
  <1> DEFINE old == bills[b]
             new == [old EXCEPT !.status = "cancelled"]
  <1>1. /\ b \in DOMAIN bills /\ old.status # "paid" /\ UNCHANGED <<prices, now, ledger>>
    BY DEF Bills!CancelBill
  <1>2. /\ old \in Bills!Bill /\ old.total = Bills!CalculateTotal(old)
        /\ old.tenant \in Tenants
        /\ old.paidAt <= now \/ old.paidAt \in PaidDates
    BY <1>1, StoredBill
  <1>3. bills' = [bills EXCEPT ![b] = new]
    BY <1>1, <1>2 DEF Bills!CancelBill, Bills!Bill
  <1>4. /\ new \in Bills!Bill /\ new.paidAt = old.paidAt /\ new.total = old.total
        /\ new.status = "cancelled" /\ new.tenant = old.tenant
        /\ new.usage = old.usage /\ new.unitPrice = old.unitPrice
        /\ new.discount = old.discount
    BY <1>1, <1>2 DEF Bills!Bill, Bills!BillStatus
  <1> HIDE DEF new, old
  <1>5. new.total = Bills!CalculateTotal(new)
    BY <1>2, <1>4, CostDependsOn
  <1>6. Bills!Paid(new) = 0 /\ Bills!Paid(old) = 0
    BY <1>1, <1>4 DEF Bills!Paid
  <1>7. Bills!Book(old.tenant, 0)
    <2>1. ledger \in [Tenants -> Int]
      BY DEF BInv, Bills!TypeOK
    <2>2. ledger = [ledger EXCEPT ![old.tenant] = @ + 0]
      BY <1>2, <2>1
    <2> QED BY <1>1, <2>2 DEF Bills!Book
  <1>8. 0 \in Int /\ 0 = Bills!Paid(new) - Bills!Paid(bills[b])
    BY <1>6 DEF old
  <1> QED BY <1>1, <1>2, <1>3, <1>4, <1>5, <1>7, <1>8, SameTenant DEF old

\* The payments of a tenant depend on the bills only.
LEMMA BooksStay ==
  ASSUME BBooked, UNCHANGED <<bills, ledger>>
  PROVE  BBooked'
  BY DEF BBooked, PaidBy, Part, Bills!Paid

LEMMA BillingNext ==
  ASSUME Bills!BillingAssumption, BInv, [Bills!Next]_billingVars
  PROVE  BInv'
  <1>1. ASSUME NEW b \in BillIds, NEW t \in Tenants, NEW u \in Usages, NEW d \in Discounts,
               NEW due \in DueDates, NEW paid \in PaidDates,
               Bills!CreateBill(b, t, u, d, due, paid)
        PROVE  BInv'
    BY <1>1, CreateStep
  <1>2. ASSUME NEW b \in BillIds, NEW u \in Updates, Bills!UpdateBill(b, u) PROVE BInv'
    BY <1>2, UpdateStep
  <1>3. ASSUME NEW b \in BillIds, Bills!PayBill(b) \/ Bills!CancelBill(b) PROVE BInv'
    BY <1>3, PayStep, CancelStep
  <1>4. ASSUME NEW p \in Prices, Bills!UpdatePrices(p) PROVE BInv'
    BY <1>4, BooksStay DEF Bills!UpdatePrices, BInv, Bills!TypeOK, Bills!TotalIsDue
  <1>5. CASE Bills!Tick
    <2>1. now' \in 0..MaxTime /\ now <= now' /\ UNCHANGED <<bills, prices, ledger>>
      BY <1>5 DEF Bills!Tick, BInv, Bills!TypeOK, Bills!BillingAssumption
    <2>2. \A b \in DOMAIN bills :
             /\ bills[b] \in Bills!Bill
             /\ bills[b].paidAt <= now \/ bills[b].paidAt \in PaidDates
      BY DEF BInv, Bills!TypeOK
    <2>3. \A b \in DOMAIN bills : bills[b].paidAt \in Int /\ now \in Int /\ now' \in Int
      BY <2>1, <2>2
      DEF Bills!Bill, Bills!NoDate, Bills!Dates, BInv, Bills!TypeOK, Bills!BillingAssumption
    <2>4. \A b \in DOMAIN bills : bills[b].paidAt <= now' \/ bills[b].paidAt \in PaidDates
      BY <2>1, <2>2, <2>3
    <2> QED BY <2>1, <2>2, <2>4, BooksStay DEF BInv, Bills!TypeOK, Bills!TotalIsDue
  <1>6. CASE UNCHANGED billingVars
    BY <1>6, BooksStay DEF billingVars, BInv, Bills!TypeOK, Bills!TotalIsDue
  <1> QED BY <1>1, <1>2, <1>3, <1>4, <1>5, <1>6 DEF Bills!Next

LEMMA BillingInit == Bills!BillingAssumption /\ Bills!Init => BInv
  <1> SUFFICES ASSUME Bills!BillingAssumption, Bills!Init PROVE BInv
    OBVIOUS
  <1>1. Bills!TypeOK /\ Bills!TotalIsDue
    BY DEF Bills!BillingAssumption, Bills!Init, Bills!TypeOK, Bills!TotalIsDue
  <1>2. ASSUME NEW t \in Tenants PROVE ledger[t] = PaidBy(t)
    <2> DEFINE f == [b \in BillIds |-> Part(b, t)]
    <2>1. \A b \in BillIds : f[b] = 0
      BY DEF Bills!Init, Part
    <2>2. IsFiniteSet(BillIds)
      BY BillsSame DEF Bills!BillingAssumption
    <2> HIDE DEF f
    <2>3. SumFunctionOnSet(f, BillIds) = 0
      BY <2>1, <2>2, SumZero
    <2> QED BY <2>3 DEF f, PaidBy, Bills!Init
  <1> QED BY <1>1, <1>2 DEF BInv, BBooked

-----------------------------------------------------------------------------
(* The summaries *)

UsageOf(bs, r) == SumFunctionOnSet([b \in bs |-> bills[b].usage[r]], bs)

\* Amounts and usages of sets of bills are sums of one function each.
LEMMA SumsOverBills ==
  ASSUME Bills!BillingAssumption, BInv, NEW U \in SUBSET DOMAIN bills
  PROVE  /\ IsFiniteSet(U)
         /\ Bills!Amount(U) = SumFunctionOnSet([b \in DOMAIN bills |-> bills[b].total], U)
         /\ \A r \in Resources :
               UsageOf(U, r) = SumFunctionOnSet([b \in DOMAIN bills |-> bills[b].usage[r]], U)
  <1>1. IsFiniteSet(U)
    BY FS_Subset, BillsSame DEF BInv, Bills!TypeOK, Bills!BillingAssumption
  <1>2. Bills!Amount(U) = SumFunctionOnSet([b \in DOMAIN bills |-> bills[b].total], U)
    <2> DEFINE f == [b \in DOMAIN bills |-> bills[b].total]
               g == [b \in U |-> bills[b].total]
    <2>1. \A b \in U : g[b] = f[b]
      OBVIOUS
    <2>2. Bills!Amount(U) = SumFunctionOnSet(g, U)
      BY BillsSame DEF Bills!Amount
    <2> HIDE DEF f, g
    <2>3. SumFunctionOnSet(g, U) = SumFunctionOnSet(f, U)
      BY <1>1, <2>1, SumExtensional
    <2> QED BY <2>2, <2>3 DEF f
  <1>3. ASSUME NEW r \in Resources
        PROVE  UsageOf(U, r) =
                 SumFunctionOnSet([b \in DOMAIN bills |-> bills[b].usage[r]], U)
    <2> DEFINE f == [b \in DOMAIN bills |-> bills[b].usage[r]]
               g == [b \in U |-> bills[b].usage[r]]
    <2>1. \A b \in U : g[b] = f[b]
      OBVIOUS
    <2>2. UsageOf(U, r) = SumFunctionOnSet(g, U)
      BY DEF UsageOf
    <2> HIDE DEF f, g
    <2>3. SumFunctionOnSet(g, U) = SumFunctionOnSet(f, U)
      BY <1>1, <2>1, SumExtensional
    <2> QED BY <2>2, <2>3 DEF f
  <1> QED BY <1>1, <1>2, <1>3

LEMMA BillNumbers ==
  ASSUME Bills!BillingAssumption, BInv, NEW b \in DOMAIN bills
  PROVE  /\ bills[b].total \in Int
         /\ \A r \in Resources : bills[b].usage[r] \in Int
         /\ bills[b].created \in Nat
  <1>1. /\ bills[b] \in Bills!Bill /\ MaxTime \in Nat
        /\ Usages \subseteq [Resources -> Int]
    BY DEF BInv, Bills!TypeOK, Bills!BillingAssumption
  <1>2. bills[b].usage \in [Resources -> Int]
    BY <1>1 DEF Bills!Bill
  <1> QED BY <1>1, <1>2 DEF Bills!Bill

\* The amounts of two sets of bills are those of all of them and, once more, of the
\* bills they share.
LEMMA AmountsAddUp ==
  ASSUME Bills!BillingAssumption, BInv, NEW S \in SUBSET DOMAIN bills,
         NEW T \in SUBSET DOMAIN bills
  PROVE  /\ Bills!Amount(S) + Bills!Amount(T) =
               Bills!Amount(S \cup T) + Bills!Amount(S \cap T)
         /\ \A r \in Resources :
               UsageOf(S, r) + UsageOf(T, r) = UsageOf(S \cup T, r) + UsageOf(S \cap T, r)
         /\ Bills!Amount(S) \in Int
         /\ \A r \in Resources : UsageOf(S, r) \in Int
  <1> DEFINE f    == [b \in DOMAIN bills |-> bills[b].total]
             u(r) == [b \in DOMAIN bills |-> bills[b].usage[r]]
  <1>1. /\ S \cup T \in SUBSET DOMAIN bills /\ S \cap T \in SUBSET DOMAIN bills
    OBVIOUS
  <1>2. \A b \in S \cup T : f[b] \in Int /\ \A r \in Resources : u(r)[b] \in Int
    BY BillNumbers
  <1>3. /\ IsFiniteSet(S) /\ IsFiniteSet(T)
        /\ Bills!Amount(S) = SumFunctionOnSet(f, S)
        /\ Bills!Amount(T) = SumFunctionOnSet(f, T)
        /\ Bills!Amount(S \cup T) = SumFunctionOnSet(f, S \cup T)
        /\ Bills!Amount(S \cap T) = SumFunctionOnSet(f, S \cap T)
    BY <1>1, SumsOverBills
  <1>4. ASSUME NEW r \in Resources
        PROVE  /\ UsageOf(S, r) = SumFunctionOnSet(u(r), S)
               /\ UsageOf(T, r) = SumFunctionOnSet(u(r), T)
               /\ UsageOf(S \cup T, r) = SumFunctionOnSet(u(r), S \cup T)
               /\ UsageOf(S \cap T, r) = SumFunctionOnSet(u(r), S \cap T)
    BY <1>1, SumsOverBills
  <1> HIDE DEF f, u
  <1>5. /\ SumFunctionOnSet(f, S) + SumFunctionOnSet(f, T) =
             SumFunctionOnSet(f, S \cup T) + SumFunctionOnSet(f, S \cap T)
        /\ SumFunctionOnSet(f, S) \in Int
    BY <1>2, <1>3, SumUnion, SumInt
  <1>6. ASSUME NEW r \in Resources
        PROVE  /\ SumFunctionOnSet(u(r), S) + SumFunctionOnSet(u(r), T) =
                    SumFunctionOnSet(u(r), S \cup T) + SumFunctionOnSet(u(r), S \cap T)
               /\ SumFunctionOnSet(u(r), S) \in Int
    <2> DEFINE g == u(r)
    <2>1. \A b \in S \cup T : g[b] \in Int
      BY <1>2
    <2> HIDE DEF g
    <2>2. /\ SumFunctionOnSet(g, S) + SumFunctionOnSet(g, T) =
               SumFunctionOnSet(g, S \cup T) + SumFunctionOnSet(g, S \cap T)
          /\ SumFunctionOnSet(g, S) \in Int
      BY <1>3, <2>1, SumUnion, SumInt
    <2> QED BY <2>2 DEF g
  <1> QED BY <1>3, <1>4, <1>5, <1>6

AddedUp(s, t) == [count |-> s.count + t.count, total |-> s.total + t.total,
                  paid |-> s.paid + t.paid, pending |-> s.pending + t.pending,
                  usage |-> [r \in Resources |-> s.usage[r] + t.usage[r]]]

With(bs, s) == {b \in bs : bills[b].status = s}

LEMMA SummaryFields ==
  ASSUME NEW bs
  PROVE  Bills!Summary(bs) =
           [count |-> Cardinality(bs), total |-> Bills!Amount(bs),
            paid |-> Bills!Amount(With(bs, "paid")),
            pending |-> Bills!Amount(With(bs, "pending")),
            usage |-> [r \in Resources |-> UsageOf(bs, r)]]
  BY BillsSame DEF Bills!Summary, UsageOf, With

\* The summaries of two sets of bills are those of all of them and of the shared ones.
LEMMA PartsAddUp ==
  ASSUME Bills!BillingAssumption, BInv, NEW S \in SUBSET DOMAIN bills,
         NEW T \in SUBSET DOMAIN bills
  PROVE  AddedUp(Bills!Summary(S), Bills!Summary(T)) =
           AddedUp(Bills!Summary(S \cup T), Bills!Summary(S \cap T))
  <1>1. Cardinality(S) + Cardinality(T) = Cardinality(S \cup T) + Cardinality(S \cap T)
    <2>1. /\ IsFiniteSet(S) /\ IsFiniteSet(T) /\ IsFiniteSet(S \cap T)
      BY SumsOverBills, FS_Intersection
    <2>2. Cardinality(S \cup T) = Cardinality(S) + Cardinality(T) - Cardinality(S \cap T)
      BY <2>1, FS_Union
    <2>3. /\ Cardinality(S) \in Nat /\ Cardinality(T) \in Nat
          /\ Cardinality(S \cap T) \in Nat
      BY <2>1, FS_CardinalityType
    <2> QED BY <2>2, <2>3
  <1>2. /\ Bills!Amount(S) + Bills!Amount(T) =
             Bills!Amount(S \cup T) + Bills!Amount(S \cap T)
        /\ \A r \in Resources :
             UsageOf(S, r) + UsageOf(T, r) = UsageOf(S \cup T, r) + UsageOf(S \cap T, r)
    BY AmountsAddUp
  <1>3. ASSUME NEW s
        PROVE  Bills!Amount(With(S, s)) + Bills!Amount(With(T, s)) =
                 Bills!Amount(With(S \cup T, s)) + Bills!Amount(With(S \cap T, s))
    <2> DEFINE V == With(S, s)
               W == With(T, s)
    <2>1. /\ V \in SUBSET DOMAIN bills /\ W \in SUBSET DOMAIN bills
          /\ With(S \cup T, s) = V \cup W
          /\ With(S \cap T, s) = V \cap W
      BY DEF With
    <2> HIDE DEF V, W
    <2>2. Bills!Amount(V) + Bills!Amount(W) = Bills!Amount(V \cup W) + Bills!Amount(V \cap W)
      BY <2>1, AmountsAddUp
    <2> QED BY <2>1, <2>2 DEF V, W
  <1>4. AddedUp(Bills!Summary(S), Bills!Summary(T)) =
          [count |-> Cardinality(S) + Cardinality(T),
           total |-> Bills!Amount(S) + Bills!Amount(T),
           paid |-> Bills!Amount(With(S, "paid")) + Bills!Amount(With(T, "paid")),
           pending |-> Bills!Amount(With(S, "pending")) + Bills!Amount(With(T, "pending")),
           usage |-> [r \in Resources |-> UsageOf(S, r) + UsageOf(T, r)]]
    BY SummaryFields DEF AddedUp
  <1>5. AddedUp(Bills!Summary(S \cup T), Bills!Summary(S \cap T)) =
          [count |-> Cardinality(S \cup T) + Cardinality(S \cap T),
           total |-> Bills!Amount(S \cup T) + Bills!Amount(S \cap T),
           paid |-> Bills!Amount(With(S \cup T, "paid")) + Bills!Amount(With(S \cap T, "paid")),
           pending |-> Bills!Amount(With(S \cup T, "pending"))
                         + Bills!Amount(With(S \cap T, "pending")),
           usage |-> [r \in Resources |-> UsageOf(S \cup T, r) + UsageOf(S \cap T, r)]]
    BY SummaryFields DEF AddedUp
  <1>6. [r \in Resources |-> UsageOf(S, r) + UsageOf(T, r)] =
          [r \in Resources |-> UsageOf(S \cup T, r) + UsageOf(S \cap T, r)]
    BY <1>2
  <1> QED BY <1>1, <1>2, <1>3, <1>4, <1>5, <1>6

\* The summary of no bill adds nothing.
LEMMA EmptySummary ==
  ASSUME Bills!BillingAssumption, BInv, NEW S \in SUBSET DOMAIN bills
  PROVE  AddedUp(Bills!Summary(S), Bills!Summary({})) = Bills!Summary(S)
  <1>1. /\ Bills!Amount({}) = 0 /\ \A r : UsageOf({}, r) = 0
        /\ Cardinality({}) = 0 /\ \A s : With({}, s) = {}
    BY SumEmpty, FS_EmptySet, BillsSame DEF Bills!Amount, UsageOf, With
  <1>2. /\ Bills!Amount(S) \in Int /\ \A r \in Resources : UsageOf(S, r) \in Int
        /\ Cardinality(S) \in Nat
    BY AmountsAddUp, SumsOverBills, FS_CardinalityType
  <1>3. ASSUME NEW s PROVE Bills!Amount(With(S, s)) \in Int
    <2> DEFINE W == With(S, s)
    <2>1. W \in SUBSET DOMAIN bills
      BY DEF With
    <2> HIDE DEF W
    <2>2. Bills!Amount(W) \in Int
      BY <2>1, AmountsAddUp
    <2> QED BY <2>2 DEF W
  <1>4. AddedUp(Bills!Summary(S), Bills!Summary({})) =
          [count |-> Cardinality(S) + 0, total |-> Bills!Amount(S) + 0,
           paid |-> Bills!Amount(With(S, "paid")) + 0,
           pending |-> Bills!Amount(With(S, "pending")) + 0,
           usage |-> [r \in Resources |-> UsageOf(S, r) + 0]]
    <2>1. Bills!Summary({}) = [count |-> 0, total |-> 0, paid |-> 0, pending |-> 0,
                               usage |-> [r \in Resources |-> 0]]
      BY <1>1, SummaryFields
    <2> QED BY <2>1, SummaryFields DEF AddedUp
  <1>5. [r \in Resources |-> UsageOf(S, r) + 0] = [r \in Resources |-> UsageOf(S, r)]
    BY <1>2
  <1> QED BY <1>2, <1>3, <1>4, <1>5, SummaryFields

LEMMA SummariesInv == ASSUME Bills!BillingAssumption, BInv PROVE Bills!SummariesAddUp
  <1> DEFINE Of(ts, from, to) == Bills!filterBills(ts, from, to)
             No == Bills!NoDate
             MadeAt(m) == {b \in DOMAIN bills : bills[b].created = m}
  <1>1. ASSUME NEW m \in 0..MaxTime
        PROVE  AddedUp(Bills!GetBillingSummary(Tenants, No, m),
                       Bills!GetBillingSummary(Tenants, m, No)) =
                 AddedUp(Bills!GetBillingSummary(Tenants, No, No), Bills!Summary(MadeAt(m)))
    <2>1. m # No /\ m \in Nat
      BY DEF Bills!NoDate, Bills!BillingAssumption
    <2>2. \A b \in DOMAIN bills : bills[b].created \in Nat
      BY BillNumbers
    <2>3. /\ Of(Tenants, No, No) = {b \in DOMAIN bills : bills[b].tenant \in Tenants}
          /\ Of(Tenants, No, m) =
               {b \in DOMAIN bills : bills[b].tenant \in Tenants /\ bills[b].created <= m}
          /\ Of(Tenants, m, No) =
               {b \in DOMAIN bills : bills[b].tenant \in Tenants /\ bills[b].created >= m}
      BY <2>1 DEF Bills!filterBills
    <2>4. \A b \in DOMAIN bills : bills[b].tenant \in Tenants
      BY StoredBill
    <2>5. /\ Of(Tenants, No, m) \in SUBSET DOMAIN bills
          /\ Of(Tenants, m, No) \in SUBSET DOMAIN bills
          /\ Of(Tenants, No, m) \cup Of(Tenants, m, No) = Of(Tenants, No, No)
      BY <2>1, <2>2, <2>3
    <2>6. Of(Tenants, No, m) \cap Of(Tenants, m, No) = MadeAt(m)
      BY <2>1, <2>2, <2>3, <2>4
    <2> HIDE DEF Of, MadeAt
    <2>7. AddedUp(Bills!Summary(Of(Tenants, No, m)), Bills!Summary(Of(Tenants, m, No))) =
            AddedUp(Bills!Summary(Of(Tenants, No, No)), Bills!Summary(MadeAt(m)))
      BY <2>5, <2>6, PartsAddUp
    <2> QED BY <2>7 DEF Bills!GetBillingSummary, Of
  <1>2. ASSUME NEW t \in Tenants
        PROVE  Bills!GetBillingSummary(Tenants, No, No) =
                 AddedUp(Bills!GetBillingSummary({t}, No, No),
                         Bills!GetBillingSummary(Tenants \ {t}, No, No))
    <2>1. \A ts : Of(ts, No, No) = {b \in DOMAIN bills : bills[b].tenant \in ts}
      BY DEF Bills!filterBills
    <2>2. /\ Of({t}, No, No) \in SUBSET DOMAIN bills
          /\ Of(Tenants \ {t}, No, No) \in SUBSET DOMAIN bills
          /\ Of({t}, No, No) \cap Of(Tenants \ {t}, No, No) = {}
          /\ Of({t}, No, No) \cup Of(Tenants \ {t}, No, No) = Of(Tenants, No, No)
      BY <2>1
    <2>3. Of(Tenants, No, No) \in SUBSET DOMAIN bills
      BY <2>1
    <2> HIDE DEF Of
    <2>4. AddedUp(Bills!Summary(Of({t}, No, No)), Bills!Summary(Of(Tenants \ {t}, No, No))) =
            AddedUp(Bills!Summary(Of(Tenants, No, No)), Bills!Summary({}))
      BY <2>2, PartsAddUp
    <2>5. AddedUp(Bills!Summary(Of(Tenants, No, No)), Bills!Summary({})) =
            Bills!Summary(Of(Tenants, No, No))
      BY <2>3, EmptySummary
    <2> QED BY <2>4, <2>5 DEF Bills!GetBillingSummary, Of
  <1> QED BY <1>1, <1>2 DEF Bills!SummariesAddUp, AddedUp

\* What a tenant's summary says is paid is what the books say.
LEMMA PaymentsInv == ASSUME Bills!BillingAssumption, BInv PROVE Bills!PaymentsAreBooked
  <1> SUFFICES ASSUME NEW t \in Tenants
               PROVE  Bills!GetBillingSummary({t}, Bills!NoDate, Bills!NoDate).paid = ledger[t]
    BY DEF Bills!PaymentsAreBooked
  <1> DEFINE F == {b \in DOMAIN bills : bills[b].tenant = t /\ bills[b].status = "paid"}
             R == BillIds \ F
             p == [b \in BillIds |-> Part(b, t)]
             f == [b \in DOMAIN bills |-> bills[b].total]
  <1>1. Bills!GetBillingSummary({t}, Bills!NoDate, Bills!NoDate).paid = Bills!Amount(F)
    <2>1. With(Bills!filterBills({t}, Bills!NoDate, Bills!NoDate), "paid") = F
      BY DEF Bills!filterBills, With
    <2> HIDE DEF F
    <2> QED BY <2>1, SummaryFields DEF Bills!GetBillingSummary
  <1>2. /\ F \in SUBSET DOMAIN bills /\ F \subseteq BillIds /\ F \cup R = BillIds
        /\ F \cap R = {} /\ IsFiniteSet(F) /\ IsFiniteSet(R)
    BY FS_Subset, BillsSame DEF BInv, Bills!TypeOK, Bills!BillingAssumption
  <1>3. /\ \A b \in BillIds : p[b] \in Int
        /\ \A b \in F : p[b] = f[b]
        /\ \A b \in R : p[b] = 0
    <2>1. \A b \in BillIds : Part(b, t) \in Int
      BY PartInt DEF BInv
    <2>2. \A b \in F : Part(b, t) = bills[b].total
      BY DEF Part, Bills!Paid
    <2>3. \A b \in R : Part(b, t) = 0
      BY DEF Part, Bills!Paid
    <2> QED BY <1>2, <2>1, <2>2, <2>3
  <1>4. Bills!Amount(F) = SumFunctionOnSet(f, F)
    BY <1>2, SumsOverBills
  <1>5. ledger[t] = SumFunctionOnSet(p, BillIds)
    BY DEF BInv, BBooked, PaidBy
  <1> HIDE DEF F, R, p, f
  <1>6. SumFunctionOnSet(f, F) = SumFunctionOnSet(p, F)
    BY <1>2, <1>3, SumExtensional
  <1>7. SumFunctionOnSet(p, BillIds) = SumFunctionOnSet(p, F) + SumFunctionOnSet(p, R)
    BY <1>2, <1>3, SumDisjoint
  <1>8. SumFunctionOnSet(p, R) = 0 /\ SumFunctionOnSet(p, F) \in Int
    BY <1>2, <1>3, SumZero, SumInt
  <1> QED BY <1>1, <1>4, <1>5, <1>6, <1>7, <1>8

-----------------------------------------------------------------------------
(* The benchmark service: the invariant *)

\* What a caller may be doing, by the fields that it has meanwhile.
Readings ==
    [op : {"idle"}]
      \cup [op : {"locked", "blocked"}, method : BenchNodes \cup {"rank"}]
      \cup [op : {"ranking"}, order : Seq(Nat), next : Nat, rewritten : BOOLEAN]
      \cup [op : {"ranked"}, order : Seq(Nat), rewritten : BOOLEAN]
      \cup [op : {"composite"}, listed : SUBSET Nat, todo : SUBSET Nat, reading : Nat,
            total : Nat, weight : Nat, raced : BOOLEAN, done : SUBSET Nat]
      \cup [op : {"scored"}, done : SUBSET Nat, raced : BOOLEAN, total : Nat, weight : Nat]

\* The first n objects of an order have a rank, which is their place in it unless
\* another ranking has given one of them another place.
Numbered(order, n, rewritten, rk) ==
    \A i \in 1..n : /\ order[i] \in 1..MaxBenchmarks
                    /\ rk[order[i]] # 0
                    /\ ~rewritten => rk[order[i]] = i

\* A caller r that ranks has all score objects sc in some order, once each, and
\* wrote the ranks rk of those before "next".
RankingOK(r, sc, rk) ==
    r.op = "ranking" =>
       /\ Len(r.order) = Cardinality(sc)
       /\ {r.order[i] : i \in DOMAIN r.order} = sc
       /\ \A i, k \in DOMAIN r.order : r.order[i] = r.order[k] => i = k
       /\ r.next \in 1..(Len(r.order) + 1)
       /\ Numbered(r.order, r.next - 1, r.rewritten, rk)

RankedOK(r, rk) == r.op = "ranked" => Numbered(r.order, Len(r.order), r.rewritten, rk)

Full(res, b)    == res[b].status = "completed" /\ res[b].score = Bench!FullScore
Counts(res, b)  == Bench!Weight(res[b].type) > 0
Behind(r)       == {b \in r.done : b \notin r.todo /\ b # r.reading}

\* A caller r that computes a composite score of the results res: what was done
\* when it listed them has its score, nothing else is counted unless it was
\* completed since, and what it has read of the former is in the sums.
CompositeOK(r, res) ==
    r.op = "composite" =>
       /\ r.done \subseteq r.listed /\ r.todo \subseteq r.listed
       /\ r.listed \subseteq 1..Len(res)
       /\ r.reading # 0 => r.reading \in r.listed \ r.todo
                           /\ res[r.reading].status = "completed"
       /\ \A b \in r.done : Full(res, b)
       /\ ~r.raced => /\ \A b \in r.listed \ r.done : res[b].status # "completed"
                      /\ r.total = Bench!FullScore * r.weight
                      /\ r.weight > 0 => \E b \in r.done : Counts(res, b)
       /\ (\E b \in Behind(r) : Counts(res, b)) => r.total > 0 /\ r.weight > 0

ScoredOK(r, res) ==
    r.op = "scored" =>
       /\ r.done \subseteq 1..Len(res)
       /\ ~r.raced => /\ r.total = Bench!FullScore * r.weight
                      /\ r.weight > 0 => \E b \in r.done : Counts(res, b)
       /\ (\E b \in r.done : Counts(res, b)) => r.total > 0 /\ r.weight > 0

ReaderOK(r, res, sc, rk) ==
    /\ r \in Readings
    /\ RankingOK(r, sc, rk) /\ RankedOK(r, rk) /\ CompositeOK(r, res) /\ ScoredOK(r, res)

MBase ==
    /\ Bench!TypeOK
    /\ Len(results) <= MaxBenchmarks
    /\ nodeScores \in [BenchNodes -> Nat]
    /\ executing \notin waiting
    /\ \A b \in Bench!Ids : /\ results[b].status = "running" => results[b].score = 0
                            /\ results[b].status = "completed" /\ executing # b
                                 => results[b].score = Bench!FullScore

MReaders ==
    /\ DOMAIN reader = Readers
    /\ \A c \in Readers : ReaderOK(reader[c], results, Bench!Scored, rank)

MInv == MBase /\ MReaders

LEMMA WeightNat == \A t : Bench!Weight(t) \in Nat
  BY DEF Bench!Weight, Bench!Weights

\* The score objects are those of finished benchmarks, one for a node at most.
LEMMA ScoredFacts ==
  ASSUME Bench!BenchmarkAssumption, MBase
  PROVE  /\ Bench!Scored \subseteq Bench!Ids /\ Bench!Scored \subseteq 1..MaxBenchmarks
         /\ IsFiniteSet(Bench!Scored)
         /\ Cardinality(Bench!Scored) \in Nat
         /\ Cardinality(Bench!Scored) <= Cardinality(BenchNodes)
         /\ Cardinality(BenchNodes) \in Nat
  <1>1. results \in Seq(Bench!BenchmarkResult) /\ Len(results) \in Nat
        /\ Len(results) <= MaxBenchmarks /\ MaxBenchmarks \in Nat
    BY DEF MBase, Bench!TypeOK, Bench!BenchmarkAssumption
  <1>2. Bench!Scored \subseteq Bench!Ids
    BY DEF MBase, Bench!TypeOK, Bench!Scored
  <1>3. Bench!Scored \subseteq 1..MaxBenchmarks
    BY <1>1, <1>2 DEF Bench!Ids
  <1> DEFINE All == {nodeScores[n] : n \in BenchNodes}
  <1>4. IsFiniteSet(All) /\ Cardinality(All) <= Cardinality(BenchNodes)
    <2>1. nodeScores \in Surjection(BenchNodes, All)
      BY DEF MBase, Surjection
    <2> QED BY <2>1, FS_Surjection, BenchmarksSame DEF Bench!BenchmarkAssumption
  <1>5. IsFiniteSet(Bench!Scored) /\ Cardinality(Bench!Scored) <= Cardinality(All)
    BY <1>4, FS_Subset DEF Bench!Scored
  <1>6. /\ Cardinality(Bench!Scored) \in Nat /\ Cardinality(All) \in Nat
        /\ Cardinality(BenchNodes) \in Nat
    BY <1>4, <1>5, FS_CardinalityType, BenchmarksSame DEF Bench!BenchmarkAssumption
  <1> HIDE DEF All
  <1> QED BY <1>2, <1>3, <1>4, <1>5, <1>6

LEMMA ResultFacts ==
  ASSUME Bench!BenchmarkAssumption, MBase
  PROVE  /\ results \in Seq(Bench!BenchmarkResult) /\ Len(results) \in Nat
         /\ Bench!Ids = 1..Len(results) /\ MaxBenchmarks \in Nat
         /\ \A b \in Bench!Ids : /\ results[b] \in Bench!BenchmarkResult
                                 /\ results[b].status \in {"running", "completed"}
                                 /\ results[b].score \in {0, Bench!FullScore}
  <1>1. results \in Seq(Bench!BenchmarkResult) /\ MaxBenchmarks \in Nat
    BY DEF MBase, Bench!TypeOK, Bench!BenchmarkAssumption
  <1>2. Len(results) \in Nat /\ Bench!Ids = 1..Len(results)
    BY <1>1 DEF Bench!Ids
  <1>3. \A b \in Bench!Ids : results[b] \in Bench!BenchmarkResult
    BY <1>1, <1>2
  <1>4. \A r \in Bench!BenchmarkResult : /\ r.status \in {"running", "completed"}
                                         /\ r.score \in {0, Bench!FullScore}
    BY DEF Bench!BenchmarkResult
  <1> QED BY <1>1, <1>2, <1>3, <1>4

LEMMA PlainOK ==
  ASSUME NEW r \in [op : {"idle"}]
                     \cup [op : {"locked", "blocked"}, method : BenchNodes \cup {"rank"}],
         NEW res, NEW sc, NEW rk
  PROVE  ReaderOK(r, res, sc, rk)
  BY DEF ReaderOK, Readings, RankingOK, RankedOK, CompositeOK, ScoredOK

\* What the callers know stays true when results are added, or get what they lack.
LEMMA ResultsGrow ==
  ASSUME NEW r, NEW res, NEW new, NEW sc, NEW rk, ReaderOK(r, res, sc, rk),
         Len(res) \in Nat, Len(new) \in Nat, Len(res) <= Len(new),
         \A b \in 1..Len(res) :
            /\ new[b].type = res[b].type /\ new[b].status = res[b].status
            /\ Full(res, b) => Full(new, b)
  PROVE  ReaderOK(r, new, sc, rk)
  <1>1. CASE r.op = "composite"
    <2>1. r \in [op : {"composite"}, listed : SUBSET Nat, todo : SUBSET Nat, reading : Nat,
                 total : Nat, weight : Nat, raced : BOOLEAN, done : SUBSET Nat]
      BY <1>1 DEF ReaderOK, Readings
    <2>2. \A b \in r.listed : /\ b \in 1..Len(res) /\ b \in 1..Len(new)
                              /\ Counts(new, b) = Counts(res, b)
                              /\ new[b].status = res[b].status
                              /\ Full(res, b) => Full(new, b)
      BY <1>1 DEF ReaderOK, CompositeOK, Counts
    <2>3. Behind(r) \subseteq r.listed /\ r.done \subseteq r.listed
      BY <1>1 DEF ReaderOK, CompositeOK, Behind
    <2>4. CompositeOK(r, new)
      BY <1>1, <2>1, <2>2, <2>3 DEF ReaderOK, CompositeOK
    <2> QED BY <1>1, <2>4 DEF ReaderOK, RankingOK, RankedOK, ScoredOK
  <1>2. CASE r.op = "scored"
    <2>1. \A b \in r.done : /\ b \in 1..Len(new) /\ Counts(new, b) = Counts(res, b)
      BY <1>2 DEF ReaderOK, ScoredOK, Counts
    <2>2. ScoredOK(r, new)
      BY <1>2, <2>1 DEF ReaderOK, ScoredOK
    <2> QED BY <1>2, <2>2 DEF ReaderOK, RankingOK, RankedOK, CompositeOK
  <1>3. CASE r.op \notin {"composite", "scored"}
    BY <1>3 DEF ReaderOK, RankingOK, RankedOK, CompositeOK, ScoredOK
  <1> QED BY <1>1, <1>2, <1>3

\* A caller that does not rank does not depend on which score objects there are.
LEMMA NotRanking ==
  ASSUME NEW r, NEW res, NEW sc, NEW rk, NEW sc2, ReaderOK(r, res, sc, rk),
         r.op # "ranking"
  PROVE  ReaderOK(r, res, sc2, rk)
  BY DEF ReaderOK, RankingOK

-----------------------------------------------------------------------------
(* The benchmarks *)

LEMMA RunStep ==
  ASSUME Bench!BenchmarkAssumption, MInv, NEW n \in BenchNodes, NEW type \in BenchTypes,
         Bench!RunBenchmark(n, type)
  PROVE  MInv'
  <1> DEFINE new == [node |-> n, type |-> type, status |-> "running", score |-> 0]
  <1>1. /\ results' = Append(results, new) /\ executing = 0 /\ Len(results) < MaxBenchmarks
        /\ UNCHANGED <<nodeScores, rank, waiting, executing, reader>>
    BY DEF Bench!RunBenchmark, Bench!CanWrite
  <1>2. new \in Bench!BenchmarkResult
    BY DEF Bench!BenchmarkResult
  <1>3. /\ results' \in Seq(Bench!BenchmarkResult) /\ Len(results') = Len(results) + 1
        /\ Len(results) \in Nat
        /\ Bench!Ids' = 1..(Len(results) + 1)
        /\ Bench!Ids = 1..Len(results)
        /\ \A b \in Bench!Ids : results'[b] = results[b]
        /\ results'[Len(results) + 1] = new
    BY <1>1, <1>2, ResultFacts DEF MInv, Bench!Ids
  <1>4. /\ Bench!Scored' = Bench!Scored
        /\ Bench!Reading' = Bench!Reading
    BY <1>1 DEF Bench!Scored, Bench!Reading
  <1>5. MBase'
    <2>1. Bench!TypeOK'
      BY <1>1, <1>3, <1>4, ResultFacts DEF MInv, MBase, Bench!TypeOK
    <2>2. /\ new.status = "running" /\ new.score = 0
      OBVIOUS
    <2> HIDE DEF new
    <2> QED BY <1>1, <1>3, <2>1, <2>2, ResultFacts DEF MInv, MBase
  <1>6. \A c \in Readers : ReaderOK(reader[c], results', Bench!Scored, rank)
    BY <1>3, ResultsGrow DEF MInv, MReaders, Full
  <1> QED BY <1>1, <1>4, <1>5, <1>6 DEF MInv, MReaders

LEMMA ExecuteQueue ==
  ASSUME Bench!BenchmarkAssumption, MInv, NEW b \in Bench!Ids, Bench!ExecuteCall(b)
         \/ Bench!ExecuteLock(b)
  PROVE  MInv'
  <1>1. UNCHANGED <<results, nodeScores, rank, reader>>
    BY DEF Bench!ExecuteCall, Bench!ExecuteLock
  <1>2. /\ Bench!Scored' = Bench!Scored
        /\ Bench!Reading' = Bench!Reading
        /\ Bench!Ids' = Bench!Ids
    BY <1>1 DEF Bench!Scored, Bench!Reading, Bench!Ids
  <1>3. MBase'
    <2>1. b # 0 /\ 0 \notin Bench!Ids
      BY ResultFacts DEF MInv
    <2>2. CASE Bench!ExecuteCall(b)
      <3>1. Bench!TypeOK'
        BY <1>1, <1>2, <2>2 DEF Bench!ExecuteCall, MInv, MBase, Bench!TypeOK
      <3> QED BY <1>1, <1>2, <2>2, <3>1 DEF Bench!ExecuteCall, MInv, MBase
    <2>3. CASE Bench!ExecuteLock(b)
      <3>1. Bench!TypeOK'
        BY <1>1, <1>2, <2>1, <2>3
        DEF Bench!ExecuteLock, Bench!CanWrite, MInv, MBase, Bench!TypeOK
      <3> QED BY <1>1, <1>2, <2>1, <2>3, <3>1
              DEF Bench!ExecuteLock, Bench!CanWrite, MInv, MBase, Bench!TypeOK
    <2> QED BY <2>2, <2>3
  <1> QED BY <1>1, <1>2, <1>3 DEF MInv, MReaders

\* The benchmark that is completed was running: callers that listed it have raced.
LEMMA ExecuteCompleteStep ==
  ASSUME Bench!BenchmarkAssumption, MInv, NEW b \in Bench!Ids, Bench!ExecuteComplete(b)
  PROVE  MInv'
  <1>1. /\ executing = b /\ results[b].status = "running"
        /\ results' = [results EXCEPT ![b].status = "completed"]
        /\ reader' = Bench!Touched(b)
        /\ UNCHANGED <<nodeScores, rank, waiting, executing>>
    BY DEF Bench!ExecuteComplete
  <1>2. b # 0 /\ Bench!Reading = {} /\ b \notin waiting
    BY <1>1, ResultFacts DEF MInv, MBase, Bench!TypeOK, Bench!Reading
  <1>3. /\ results' \in Seq(Bench!BenchmarkResult) /\ Len(results') = Len(results)
        /\ Bench!Ids' = Bench!Ids /\ Bench!Ids = 1..Len(results) /\ Len(results) \in Nat
        /\ \A x \in Bench!Ids : /\ results'[x].node = results[x].node
                                /\ results'[x].type = results[x].type
                                /\ results'[x].score = results[x].score
                                /\ x # b => results'[x].status = results[x].status
        /\ results'[b].status = "completed"
    BY <1>1, ResultFacts DEF MInv, Bench!Ids, Bench!BenchmarkResult
  <1>4. /\ Bench!Scored' = Bench!Scored
        /\ DOMAIN reader = Readers
        /\ DOMAIN reader' = Readers
        /\ \A c \in Readers : reader[c] \in Readings
    BY <1>1 DEF Bench!Scored, Bench!Touched, MInv, MReaders, ReaderOK
  <1>5. \A c \in Readers : reader'[c].op = reader[c].op
    BY <1>1, <1>4 DEF Bench!Touched
  <1>6. Bench!Reading' = {}
    BY <1>2, <1>5 DEF Bench!Reading
  <1>7. MBase'
    <2>1. Bench!TypeOK'
      BY <1>1, <1>2, <1>3, <1>6 DEF MInv, MBase, Bench!TypeOK
    <2> QED BY <1>1, <1>3, <2>1 DEF MInv, MBase
  <1>8. ASSUME NEW c \in Readers
        PROVE ReaderOK(reader'[c], results', Bench!Scored', rank')
    <2> DEFINE r == reader[c]
    <2>1. ReaderOK(r, results, Bench!Scored, rank) /\ r.op # "ranking"
      BY <1>2 DEF MInv, MReaders, Bench!Reading
    <2>2. CASE r.op = "composite" /\ b \in r.listed
      <3>1. reader'[c] = [r EXCEPT !.raced = TRUE]
        BY <1>1, <2>2 DEF Bench!Touched
      <3>2. r \in [op : {"composite"}, listed : SUBSET Nat, todo : SUBSET Nat,
                   reading : Nat, total : Nat, weight : Nat, raced : BOOLEAN,
                   done : SUBSET Nat]
        BY <1>4, <2>2 DEF Readings
      <3> DEFINE s == [r EXCEPT !.raced = TRUE]
      <3>3. /\ s \in Readings /\ s.op = "composite" /\ s.raced = TRUE
            /\ s.listed = r.listed /\ s.todo = r.todo /\ s.reading = r.reading
            /\ s.total = r.total /\ s.weight = r.weight /\ s.done = r.done
        BY <3>2 DEF Readings
      <3> HIDE DEF s, r
      <3>4. CompositeOK(r, results)
        BY <2>1 DEF ReaderOK
      <3>5. Behind(s) = Behind(r)
        BY <3>3 DEF Behind
      <3>6. \A x \in r.listed : /\ x \in Bench!Ids
                                /\ Full(results, x) => Full(results', x)
                                /\ results[x].status = "completed"
                                      => results'[x].status = "completed"
                                /\ Counts(results', x) = Counts(results, x)
        BY <1>1, <1>3, <2>2, <3>4 DEF CompositeOK, Full, Counts
      <3>7. Behind(r) \subseteq r.listed
        BY <2>2, <3>4 DEF CompositeOK, Behind
      <3>8. CompositeOK(s, results')
        BY <1>3, <2>2, <3>3, <3>4, <3>5, <3>6, <3>7 DEF CompositeOK
      <3>9. ReaderOK(s, results', Bench!Scored', rank')
        BY <3>3, <3>8 DEF ReaderOK, RankingOK, RankedOK, ScoredOK
      <3> QED BY <3>1, <3>9 DEF s
    <2>3. CASE ~(r.op = "composite" /\ b \in r.listed)
      <3>1. reader'[c] = r
        BY <1>1, <2>3 DEF Bench!Touched
      <3>2. CASE r.op = "composite"
        <4>1. CompositeOK(r, results) /\ b \notin r.listed
          BY <2>1, <2>3, <3>2 DEF ReaderOK
        <4>2. \A x \in r.listed : /\ x \in Bench!Ids
                                  /\ Full(results, x) <=> Full(results', x)
                                  /\ results[x].status = results'[x].status
                                  /\ Counts(results', x) = Counts(results, x)
          BY <1>3, <3>2, <4>1 DEF CompositeOK, Full, Counts
        <4>3. Behind(r) \subseteq r.listed
          BY <3>2, <4>1 DEF CompositeOK, Behind
        <4> HIDE DEF r
        <4>4. CompositeOK(r, results')
          BY <1>3, <3>2, <4>1, <4>2, <4>3 DEF CompositeOK
        <4> QED BY <2>1, <3>1, <3>2, <4>4 DEF ReaderOK, RankingOK, RankedOK, ScoredOK
      <3>3. CASE r.op # "composite"
        <4>1. ScoredOK(r, results) => ScoredOK(r, results')
          BY <1>3 DEF ScoredOK, Counts
        <4> HIDE DEF r
        <4> QED BY <1>1, <2>1, <3>1, <3>3, <4>1 DEF ReaderOK, RankingOK, CompositeOK
      <3> QED BY <3>2, <3>3
    <2> QED BY <2>2, <2>3
  <1>9. MReaders'
    BY <1>4, <1>8 DEF MReaders
  <1> QED BY <1>7, <1>9 DEF MInv

LEMMA ExecuteScoreStep ==
  ASSUME Bench!BenchmarkAssumption, MInv, NEW b \in Bench!Ids, Bench!ExecuteScore(b)
  PROVE  MInv'
  <1>1. /\ executing = b /\ results[b].status = "completed"
        /\ results' = [results EXCEPT ![b].score = Bench!FullScore]
        /\ UNCHANGED <<nodeScores, rank, waiting, executing, reader>>
    BY DEF Bench!ExecuteScore
  <1>2. /\ results' \in Seq(Bench!BenchmarkResult) /\ Len(results') = Len(results)
        /\ Bench!Ids' = Bench!Ids /\ Bench!Ids = 1..Len(results) /\ Len(results) \in Nat
        /\ \A x \in Bench!Ids : /\ results'[x].node = results[x].node
                                /\ results'[x].type = results[x].type
                                /\ results'[x].status = results[x].status
                                /\ x # b => results'[x].score = results[x].score
        /\ results'[b].score = Bench!FullScore
    BY <1>1, ResultFacts DEF MInv, Bench!Ids, Bench!BenchmarkResult
  <1>3. /\ Bench!Scored' = Bench!Scored
        /\ Bench!Reading' = Bench!Reading
    BY <1>1 DEF Bench!Scored, Bench!Reading
  <1>4. MBase'
    <2>1. Bench!TypeOK'
      BY <1>1, <1>2, <1>3 DEF MInv, MBase, Bench!TypeOK
    <2> QED BY <1>1, <1>2, <2>1 DEF MInv, MBase
  <1>5. \A c \in Readers : ReaderOK(reader[c], results', Bench!Scored, rank)
    <2>1. \A x \in 1..Len(results) : Full(results, x) => Full(results', x)
      BY <1>2 DEF Full
    <2> QED BY <1>2, <2>1, ResultsGrow DEF MInv, MReaders
  <1> QED BY <1>1, <1>3, <1>4, <1>5 DEF MInv, MReaders

\* The node gets its new score object while nobody ranks, and the readers that
\* wait are let in.
LEMMA ExecuteUnlockStep ==
  ASSUME Bench!BenchmarkAssumption, MInv, NEW b \in Bench!Ids, Bench!ExecuteUnlock(b)
  PROVE  MInv'
  <1>1. /\ executing = b /\ results[b].score # 0
        /\ nodeScores' = [nodeScores EXCEPT ![results[b].node] = b]
        /\ executing' = 0
        /\ reader' = Bench!LetIn
        /\ UNCHANGED <<results, rank, waiting>>
    BY DEF Bench!ExecuteUnlock
  <1>2. /\ b # 0
        /\ b \in Nat
        /\ 0 \notin Bench!Ids
        /\ Bench!Reading = {}
        /\ results[b].status = "completed" /\ results[b].score = Bench!FullScore
    BY <1>1, ResultFacts DEF MInv, MBase, Bench!TypeOK, Bench!Reading
  <1>3. /\ DOMAIN reader = Readers /\ DOMAIN reader' = Readers
        /\ \A c \in Readers : reader[c] \in Readings /\ Bench!Ids' = Bench!Ids
    BY <1>1 DEF Bench!LetIn, MInv, MReaders, ReaderOK, Bench!Ids
  <1>4. ASSUME NEW c \in Readers
        PROVE  ReaderOK(reader'[c], results', Bench!Scored', rank') /\ reader'[c].op # "ranking"
    <2>1. ReaderOK(reader[c], results, Bench!Scored, rank) /\ reader[c].op # "ranking"
      BY <1>2 DEF MInv, MReaders, Bench!Reading
    <2>2. CASE reader[c].op = "blocked"
      <3>1. reader[c] \in [op : {"locked", "blocked"}, method : BenchNodes \cup {"rank"}]
        BY <1>3, <2>2 DEF Readings
      <3>2. /\ reader'[c] \in [op : {"locked", "blocked"}, method : BenchNodes \cup {"rank"}]
            /\ reader'[c].op = "locked"
        BY <1>1, <2>2, <3>1 DEF Bench!LetIn
      <3> QED BY <3>2, PlainOK
    <2>3. CASE reader[c].op # "blocked"
      <3>1. reader'[c] = reader[c]
        BY <1>1, <2>3 DEF Bench!LetIn
      <3> QED BY <1>1, <2>1, <3>1, NotRanking
    <2> QED BY <2>2, <2>3
  <1>5. MBase'
    <2>1. results[b].node \in BenchNodes
      BY ResultFacts DEF MInv, Bench!BenchmarkResult
    <2>2. Bench!TypeOK'
      BY <1>1, <1>2, <1>3, <2>1 DEF MInv, MBase, Bench!TypeOK, Bench!Ids
    <2> QED BY <1>1, <1>2, <2>1, <2>2 DEF MInv, MBase, Bench!TypeOK, Bench!Ids
  <1> QED BY <1>3, <1>4, <1>5 DEF MInv, MReaders

-----------------------------------------------------------------------------
(* The readers *)

\* A step of one caller that leaves results, scores and ranks alone.
LEMMA OneReader ==
  ASSUME Bench!BenchmarkAssumption, MInv, NEW c \in Readers, NEW r,
         reader' = [reader EXCEPT ![c] = r], ReaderOK(r, results, Bench!Scored, rank),
         r.op \in {"locked", "ranking"} => executing = 0 \/ c \in Bench!Reading,
         UNCHANGED <<results, nodeScores, rank, waiting, executing>>
  PROVE  MInv'
  <1>1. /\ Bench!Scored' = Bench!Scored /\ Bench!Ids' = Bench!Ids /\ DOMAIN reader = Readers
        /\ DOMAIN reader' = Readers /\ reader'[c] = r
        /\ \A d \in Readers : d # c => reader'[d] = reader[d]
    BY DEF Bench!Scored, Bench!Ids, MInv, MReaders
  <1>2. executing # 0 => Bench!Reading' = {}
    BY <1>1 DEF Bench!Reading, MInv, MBase, Bench!TypeOK
  <1>3. MBase'
    <2>1. Bench!TypeOK'
      BY <1>1, <1>2 DEF MInv, MBase, Bench!TypeOK
    <2> QED BY <1>1, <2>1 DEF MInv, MBase
  <1>4. MReaders'
    BY <1>1 DEF MInv, MReaders
  <1> QED BY <1>3, <1>4 DEF MInv

LEMMA RLockStep ==
  ASSUME Bench!BenchmarkAssumption, MInv, NEW c \in Readers,
         NEW m \in BenchNodes \cup {"rank"},
         Bench!RLock(c, m)
  PROVE  MInv'
  <1> DEFINE r == [op |-> IF executing = 0 /\ waiting = {} THEN "locked" ELSE "blocked",
                   method |-> m]
  <1>1. r \in [op : {"locked", "blocked"}, method : BenchNodes \cup {"rank"}]
    OBVIOUS
  <1>2. /\ ReaderOK(r, results, Bench!Scored, rank) /\ r.op # "ranking"
        /\ r.op = "locked" => executing = 0
    BY <1>1, PlainOK
  <1> QED BY <1>2, OneReader DEF Bench!RLock

\* An order of the score objects has each of them once.
LEMMA RankingFacts ==
  ASSUME Bench!BenchmarkAssumption, MBase, NEW p \in Bench!Rankings
  PROVE  /\ p \in Seq(Nat) /\ Len(p) = Cardinality(Bench!Scored)
         /\ DOMAIN p = 1..Len(p)
         /\ {p[i] : i \in DOMAIN p} = Bench!Scored
         /\ \A i, k \in DOMAIN p : p[i] = p[k] => i = k
  <1> DEFINE N == Cardinality(Bench!Scored)
  <1>1. N \in Nat /\ IsFiniteSet(Bench!Scored) /\ Bench!Scored \subseteq Nat
    BY ScoredFacts DEF Bench!Ids
  <1>2. p \in [1..N -> Bench!Scored] /\ {p[i] : i \in DOMAIN p} = Bench!Scored
    BY BenchmarksSame DEF Bench!Rankings
  <1> HIDE DEF N
  <1>3. p \in Seq(Nat) /\ Len(p) = N /\ DOMAIN p = 1..N
    <2>1. p \in [1..N -> Nat]
      BY <1>1, <1>2
    <2> QED BY <1>1, <2>1
  <1>4. p \in Surjection(1..N, Bench!Scored)
    BY <1>2, <1>3 DEF Surjection
  <1>5. IsFiniteSet(1..N) /\ Cardinality(1..N) = N
    BY <1>1, FS_Interval
  <1>6. p \in Injection(1..N, Bench!Scored)
    BY <1>4, <1>5, FS_SurjSameCardinalityImpliesInj DEF N
  <1>7. \A i, k \in DOMAIN p : p[i] = p[k] => i = k
    BY <1>3, <1>6 DEF Injection, IsInjective
  <1> QED BY <1>2, <1>3, <1>7 DEF N

LEMMA RankingStartStep ==
  ASSUME Bench!BenchmarkAssumption, MInv, NEW c \in Readers, Bench!RankingStart(c)
  PROVE  MInv'
  <1>1. PICK p \in Bench!Rankings :
          reader' = [reader EXCEPT ![c] = [op |-> "ranking", order |-> p, next |-> 1,
                                           rewritten |-> FALSE]]
    BY DEF Bench!RankingStart
  <1>2. /\ UNCHANGED <<results, nodeScores, rank, waiting, executing>>
        /\ c \in Bench!Reading
    BY DEF Bench!RankingStart, Bench!Reading
  <1> DEFINE r == [op |-> "ranking", order |-> p, next |-> 1, rewritten |-> FALSE]
  <1>3. /\ p \in Seq(Nat) /\ Len(p) = Cardinality(Bench!Scored) /\ DOMAIN p = 1..Len(p)
        /\ {p[i] : i \in DOMAIN p} = Bench!Scored
        /\ \A i, k \in DOMAIN p : p[i] = p[k] => i = k
    BY RankingFacts DEF MInv
  <1>4. r \in Readings
    BY <1>3 DEF Readings
  <1>5. RankingOK(r, Bench!Scored, rank)
    BY <1>3 DEF RankingOK, Numbered
  <1>6. ReaderOK(r, results, Bench!Scored, rank)
    BY <1>4, <1>5 DEF ReaderOK, RankedOK, CompositeOK, ScoredOK
  <1> QED BY <1>1, <1>2, <1>6, OneReader

\* The objects of one order that another ranking does not put elsewhere keep a rank
\* that is their place.
LEMMA StillNumbered ==
  ASSUME Bench!BenchmarkAssumption, MBase, NEW order \in Seq(Nat), NEW n \in 0..Len(order),
         NEW w \in BOOLEAN, NEW v \in BOOLEAN, Numbered(order, n, w, rank),
         NEW b \in 1..MaxBenchmarks, NEW i \in Nat \ {0},
         rank' = [rank EXCEPT ![b] = i],
         v = FALSE => w = FALSE /\ \A k \in DOMAIN order : order[k] = b => k = i
  PROVE  Numbered(order, n, v, rank')
  <1>1. DOMAIN rank = 1..MaxBenchmarks /\ DOMAIN order = 1..Len(order) /\ Len(order) \in Nat
    BY DEF MBase, Bench!TypeOK
  <1>2. ASSUME NEW k \in 1..n
        PROVE  /\ order[k] \in 1..MaxBenchmarks
               /\ rank'[order[k]] # 0
               /\ ~v => rank'[order[k]] = k
    <2>1. /\ k \in DOMAIN order /\ order[k] \in 1..MaxBenchmarks /\ rank[order[k]] # 0
          /\ ~w => rank[order[k]] = k
      BY <1>1 DEF Numbered
    <2>2. CASE order[k] = b
      BY <1>1, <2>1, <2>2
    <2>3. CASE order[k] # b
      BY <1>1, <2>1, <2>3
    <2> QED BY <2>2, <2>3
  <1> QED BY <1>2 DEF Numbered

LEMMA RankingWriteStep ==
  ASSUME Bench!BenchmarkAssumption, MInv, NEW c \in Readers, Bench!RankingWrite(c)
  PROVE  MInv'
  <1> DEFINE r == reader[c]
             i == r.next
             b == r.order[i]
             s == [r EXCEPT !.next = i + 1]
  <1>1. /\ r.op = "ranking" /\ i <= Len(r.order)
        /\ rank' = [rank EXCEPT ![b] = i]
        /\ reader' = [d \in Readers |->
                        IF d = c THEN s
                        ELSE IF Bench!Elsewhere(d, b, i)
                             THEN [reader[d] EXCEPT !.rewritten = TRUE]
                        ELSE reader[d]]
        /\ UNCHANGED <<results, nodeScores, waiting, executing>>
    BY DEF Bench!RankingWrite
  <1>2. /\ r \in [op : {"ranking"}, order : Seq(Nat), next : Nat, rewritten : BOOLEAN]
        /\ RankingOK(r, Bench!Scored, rank)
    BY <1>1 DEF MInv, MReaders, ReaderOK, Readings
  <1>3. /\ Bench!Scored' = Bench!Scored /\ Bench!Ids' = Bench!Ids /\ DOMAIN reader = Readers
        /\ DOMAIN reader' = Readers /\ reader'[c] = s
    BY <1>1 DEF Bench!Scored, Bench!Ids, MInv, MReaders
  <1>4. /\ s \in [op : {"ranking"}, order : Seq(Nat), next : Nat, rewritten : BOOLEAN]
        /\ s.order = r.order /\ s.next = i + 1 /\ s.rewritten = r.rewritten
        /\ s.op = "ranking"
    BY <1>2
  <1>5. /\ DOMAIN r.order = 1..Len(r.order) /\ Len(r.order) = Cardinality(Bench!Scored)
        /\ i \in 1..Len(r.order) /\ Len(r.order) \in Nat
        /\ \A k \in 1..Len(r.order) : r.order[k] \in Bench!Scored
        /\ \A j, k \in 1..Len(r.order) : r.order[j] = r.order[k] => j = k
        /\ Numbered(r.order, i - 1, r.rewritten, rank)
    <2> HIDE DEF r, s, b
    <2>1. /\ r.order \in Seq(Nat) /\ r.next \in Nat
          /\ r.op = "ranking" /\ r.next <= Len(r.order)
      BY <1>1, <1>2
    <2>2. DOMAIN r.order = 1..Len(r.order) /\ Len(r.order) \in Nat
      BY <2>1
    <2>3. /\ Len(r.order) = Cardinality(Bench!Scored)
          /\ {r.order[k] : k \in DOMAIN r.order} = Bench!Scored
          /\ \A j, k \in DOMAIN r.order : r.order[j] = r.order[k] => j = k
          /\ r.next \in 1..(Len(r.order) + 1)
          /\ Numbered(r.order, r.next - 1, r.rewritten, rank)
      BY <1>2, <2>1, Zenon DEF RankingOK
    <2>4. i \in 1..Len(r.order)
      BY <2>1, <2>2, <2>3
    <2>5. \A k \in 1..Len(r.order) : r.order[k] \in Bench!Scored
      BY <2>2, <2>3, Zenon
    <2>6. \A j, k \in 1..Len(r.order) : r.order[j] = r.order[k] => j = k
      BY <2>2, <2>3, Zenon
    <2> QED BY <2>2, <2>3, <2>4, <2>5, <2>6, Zenon
  <1>6. /\ b \in 1..MaxBenchmarks /\ i \in 1..Cardinality(BenchNodes) /\ i \in Nat \ {0}
        /\ DOMAIN rank = 1..MaxBenchmarks
    BY <1>5, ScoredFacts DEF MInv, MBase, Bench!TypeOK
  <1>7. rank' \in [1..MaxBenchmarks -> 0..Cardinality(BenchNodes)]
    BY <1>1, <1>6, BenchmarksSame DEF MInv, MBase, Bench!TypeOK
  <1>8. ReaderOK(s, results, Bench!Scored, rank')
    <2>1. ASSUME NEW k \in 1..i
          PROVE  /\ r.order[k] \in 1..MaxBenchmarks
                 /\ rank'[r.order[k]] # 0
                 /\ ~r.rewritten => rank'[r.order[k]] = k
      <3>1. CASE k = i
        BY <1>1, <1>6, <3>1
      <3>2. CASE k # i
        <4>1. k \in 1..(i - 1) /\ k \in 1..Len(r.order)
          BY <1>5, <3>2
        <4>2. r.order[k] # b
          BY <1>5, <3>2, <4>1
        <4>3. /\ r.order[k] \in 1..MaxBenchmarks
              /\ rank[r.order[k]] # 0
              /\ ~r.rewritten => rank[r.order[k]] = k
          BY <1>5, <4>1 DEF Numbered
        <4> HIDE DEF b
        <4> QED BY <1>1, <1>6, <4>2, <4>3
      <3> QED BY <3>1, <3>2
    <2> HIDE DEF s, r, i, b
    <2>2. Numbered(r.order, i, r.rewritten, rank')
      BY <2>1 DEF Numbered
    <2>3. s.next - 1 = i /\ s.next \in 1..(Len(s.order) + 1)
      BY <1>4, <1>5
    <2>4. RankingOK(s, Bench!Scored, rank')
      BY <1>1, <1>2, <1>4, <2>2, <2>3 DEF RankingOK
    <2> QED BY <1>4, <2>4 DEF ReaderOK, Readings, RankedOK, CompositeOK, ScoredOK
  <1>9. ASSUME NEW d \in Readers, d # c
        PROVE  /\ ReaderOK(reader'[d], results, Bench!Scored, rank')
               /\ reader'[d].op = reader[d].op
    <2> DEFINE q == reader[d]
               z == reader'[d]
    <2>1. ReaderOK(q, results, Bench!Scored, rank)
      BY DEF MInv, MReaders
    <2>2. z = IF Bench!Elsewhere(d, b, i) THEN [q EXCEPT !.rewritten = TRUE] ELSE q
      BY <1>1, <1>9
    <2>3. CASE q.op \in {"ranking", "ranked"}
      <3>1. q \in [op : {"ranking"}, order : Seq(Nat), next : Nat, rewritten : BOOLEAN]
              \cup [op : {"ranked"}, order : Seq(Nat), rewritten : BOOLEAN]
        BY <2>1, <2>3 DEF ReaderOK, Readings
      <3>2. Bench!Elsewhere(d, b, i) <=> \E k \in DOMAIN q.order : q.order[k] = b /\ k # i
        BY <2>3 DEF Bench!Elsewhere
      <3>3. /\ z \in [op : {"ranking"}, order : Seq(Nat), next : Nat, rewritten : BOOLEAN]
                       \cup [op : {"ranked"}, order : Seq(Nat), rewritten : BOOLEAN]
            /\ z.op = q.op /\ z.order = q.order
            /\ q.op = "ranking" => z.next = q.next
            /\ IF Bench!Elsewhere(d, b, i) THEN z.rewritten = TRUE
               ELSE z.rewritten = q.rewritten
        <4>1. CASE q.op = "ranking"
          <5>1. q \in [op : {"ranking"}, order : Seq(Nat), next : Nat, rewritten : BOOLEAN]
            BY <3>1, <4>1
          <5> HIDE DEF q, z, b, i
          <5> QED BY <2>2, <5>1
        <4>2. CASE q.op = "ranked"
          <5>1. q \in [op : {"ranked"}, order : Seq(Nat), rewritten : BOOLEAN]
            BY <3>1, <4>2
          <5> HIDE DEF q, z, b, i
          <5> QED BY <2>2, <5>1
        <4> QED BY <2>3, <4>1, <4>2
      <3>4. /\ q.order \in Seq(Nat) /\ q.rewritten \in BOOLEAN /\ z.rewritten \in BOOLEAN
            /\ Len(q.order) \in Nat
        BY <3>1, <3>3
      <3> HIDE DEF q, z, b, i, r
      <3>5. ASSUME NEW n \in 0..Len(q.order), Numbered(q.order, n, q.rewritten, rank)
            PROVE  Numbered(q.order, n, z.rewritten, rank')
        <4> DEFINE w == q.rewritten
                   v == z.rewritten
        <4>1. w \in BOOLEAN /\ v \in BOOLEAN
          BY <3>4
        <4>2. v = FALSE => w = FALSE /\ \A k \in DOMAIN q.order : q.order[k] = b => k = i
          BY <3>2, <3>3
        <4> HIDE DEF v, w
        <4>3. Numbered(q.order, n, w, rank)
          BY <3>5 DEF w
        <4>4. Numbered(q.order, n, v, rank')
          <5> DEFINE o == q.order
          <5>1. MBase /\ rank' = [rank EXCEPT ![b] = i]
            BY <1>1 DEF MInv
          <5>2. b \in 1..MaxBenchmarks /\ i \in Nat \ {0}
            BY <1>6
          <5>3. /\ o \in Seq(Nat) /\ n \in 0..Len(o) /\ Numbered(o, n, w, rank)
                /\ v = FALSE => w = FALSE /\ \A k \in DOMAIN o : o[k] = b => k = i
            BY <3>4, <4>2, <4>3
          <5> HIDE DEF o
          <5>4. Numbered(o, n, v, rank')
            BY <4>1, <5>1, <5>2, <5>3, StillNumbered
          <5> QED BY <5>4 DEF o
        <4> QED BY <4>4 DEF v
      <3>6. RankingOK(z, Bench!Scored, rank')
        <4> SUFFICES ASSUME q.op = "ranking" PROVE RankingOK(z, Bench!Scored, rank')
          BY <3>3 DEF RankingOK
        <4>1. RankingOK(q, Bench!Scored, rank)
          BY <2>1 DEF ReaderOK
        <4>2. q.next - 1 \in 0..Len(q.order)
          BY <3>4, <4>1 DEF RankingOK
        <4> QED BY <3>3, <3>5, <4>1, <4>2 DEF RankingOK
      <3>7. RankedOK(z, rank')
        BY <2>1, <3>3, <3>4, <3>5 DEF ReaderOK, RankedOK
      <3> QED BY <2>3, <3>3, <3>6, <3>7 DEF ReaderOK, Readings, CompositeOK, ScoredOK, q, z
    <2>4. CASE q.op \notin {"ranking", "ranked"}
      <3>1. z = q
        BY <2>2, <2>4 DEF Bench!Elsewhere
      <3> HIDE DEF q, z
      <3> QED BY <2>1, <2>4, <3>1 DEF ReaderOK, RankingOK, RankedOK, q, z
    <2> QED BY <2>3, <2>4
  <1>10. Bench!Reading' = Bench!Reading
    <2>1. \A d \in Readers : reader'[d].op = reader[d].op
      BY <1>1, <1>3, <1>4, <1>9
    <2> QED BY <2>1 DEF Bench!Reading
  <1> HIDE DEF s, r, i, b
  <1>11. MBase'
    <2>1. Bench!TypeOK'
      BY <1>1, <1>3, <1>7, <1>10, BenchmarksSame DEF MInv, MBase, Bench!TypeOK
    <2> QED BY <1>1, <1>3, <2>1 DEF MInv, MBase
  <1>12. MReaders'
    BY <1>1, <1>3, <1>8, <1>9 DEF MInv, MReaders
  <1> QED BY <1>11, <1>12 DEF MInv

LEMMA RankingReturnStep ==
  ASSUME Bench!BenchmarkAssumption, MInv, NEW c \in Readers, NEW limit \in Limits,
         Bench!RankingReturn(c, limit)
  PROVE  MInv'
  <1> DEFINE r == reader[c]
             first == IF limit > 0 /\ limit < Len(r.order) THEN SubSeq(r.order, 1, limit)
                      ELSE r.order
             s == [op |-> "ranked", rewritten |-> r.rewritten, order |-> first]
  <1>1. /\ r.op = "ranking" /\ r.next > Len(r.order)
        /\ reader' = [reader EXCEPT ![c] = s]
        /\ UNCHANGED <<results, nodeScores, rank, waiting, executing>>
    BY DEF Bench!RankingReturn, MInv, MReaders
  <1>2. /\ r \in [op : {"ranking"}, order : Seq(Nat), next : Nat, rewritten : BOOLEAN]
        /\ RankingOK(r, Bench!Scored, rank)
    BY <1>1 DEF MInv, MReaders, ReaderOK, Readings
  <1>3. /\ r.order \in Seq(Nat) /\ Len(r.order) \in Nat /\ r.next - 1 = Len(r.order)
        /\ Numbered(r.order, Len(r.order), r.rewritten, rank)
    BY <1>1, <1>2 DEF RankingOK
  <1>4. /\ first \in Seq(Nat) /\ Len(first) \in 0..Len(r.order)
        /\ \A i \in 1..Len(first) : first[i] = r.order[i]
    <2>1. CASE limit > 0 /\ limit < Len(r.order)
      <3>1. limit \in Nat /\ limit \in 1..Len(r.order)
        BY <1>3, <2>1 DEF Bench!BenchmarkAssumption
      <3> QED BY <1>3, <2>1, <3>1
    <2>2. CASE ~(limit > 0 /\ limit < Len(r.order))
      BY <1>3, <2>2
    <2> QED BY <2>1, <2>2
  <1>5. r.rewritten \in BOOLEAN
    BY <1>2
  <1> HIDE DEF r, first
  <1>6. s \in [op : {"ranked"}, order : Seq(Nat), rewritten : BOOLEAN] /\ s.op = "ranked"
    BY <1>4, <1>5
  <1>7. RankedOK(s, rank)
    <2>1. Numbered(first, Len(first), r.rewritten, rank)
      <3>1. \A i \in 1..Len(first) : i \in 1..Len(r.order) /\ first[i] = r.order[i]
        BY <1>3, <1>4
      <3> QED BY <1>3, <3>1 DEF Numbered
    <2> QED BY <2>1 DEF RankedOK
  <1> HIDE DEF s
  <1>8. ReaderOK(s, results, Bench!Scored, rank)
    BY <1>6, <1>7 DEF ReaderOK, Readings, RankingOK, CompositeOK, ScoredOK
  <1> QED BY <1>1, <1>6, <1>8, OneReader

LEMMA CompositeListStep ==
  ASSUME Bench!BenchmarkAssumption, MInv, NEW c \in Readers, Bench!CompositeList(c)
  PROVE  MInv'
  <1> DEFINE listed == {b \in Bench!Ids : results[b].node = reader[c].method}
             done   == {b \in listed : results[b].status = "completed"}
             s      == [op |-> "composite", listed |-> listed, todo |-> listed,
                        reading |-> 0, total |-> 0, weight |-> 0, raced |-> FALSE,
                        done |-> done]
  <1>1. /\ reader[c].op = "locked"
        /\ reader' = [reader EXCEPT ![c] = IF listed = {} THEN Bench!Idle ELSE s]
        /\ UNCHANGED <<results, nodeScores, rank, waiting, executing>>
    BY DEF Bench!CompositeList
  <1>2. c \in Bench!Reading
    BY <1>1 DEF Bench!Reading
  <1>3. executing = 0
    BY <1>2 DEF MInv, MBase, Bench!TypeOK
  <1>4. /\ listed \subseteq 1..Len(results) /\ listed \subseteq Nat /\ 0 \notin listed
        /\ \A b \in done : Full(results, b)
    BY <1>3, ResultFacts DEF MInv, MBase, Full
  <1>5. done \subseteq listed
    OBVIOUS
  <1>6. \A b \in listed \ done : results[b].status # "completed"
    OBVIOUS
  <1> HIDE DEF listed, done
  <1>7. /\ s \in [op : {"composite"}, listed : SUBSET Nat, todo : SUBSET Nat, reading : Nat,
                  total : Nat, weight : Nat, raced : BOOLEAN, done : SUBSET Nat]
        /\ s.op = "composite"
    BY <1>4, <1>5
  <1>8. CompositeOK(s, results)
    <2>1. Behind(s) = {}
      BY <1>5 DEF Behind
    <2>2. /\ s.listed = listed /\ s.todo = listed /\ s.done = done /\ s.reading = 0
          /\ s.total = 0 /\ s.weight = 0
      OBVIOUS
    <2> HIDE DEF s
    <2>3. s.total = Bench!FullScore * s.weight /\ ~(s.weight > 0)
      BY <2>2 DEF Bench!FullScore
    <2>4. \A b \in s.done : Full(results, b)
      BY <1>4, <2>2
    <2>5. \A b \in s.listed \ s.done : results[b].status # "completed"
      BY <1>6, <2>2
    <2> QED BY <1>4, <1>5, <2>1, <2>2, <2>3, <2>4, <2>5 DEF CompositeOK
  <1> HIDE DEF s
  <1>9. ReaderOK(s, results, Bench!Scored, rank)
    BY <1>7, <1>8 DEF ReaderOK, Readings, RankingOK, RankedOK, ScoredOK
  <1>10. Bench!Idle \in [op : {"idle"}] /\ Bench!Idle.op = "idle"
    BY DEF Bench!Idle
  <1>11. ReaderOK(Bench!Idle, results, Bench!Scored, rank)
    BY <1>10, PlainOK
  <1>12. CASE listed = {}
    BY <1>1, <1>10, <1>11, <1>12, OneReader
  <1>13. CASE listed # {}
    BY <1>1, <1>7, <1>9, <1>13, OneReader
  <1> QED BY <1>12, <1>13

\* What is known of a caller that computes a composite score.
LEMMA CompositeFacts ==
  ASSUME Bench!BenchmarkAssumption, MInv, NEW c \in Readers, reader[c].op = "composite"
  PROVE  /\ reader[c] \in [op : {"composite"}, listed : SUBSET Nat, todo : SUBSET Nat,
                           reading : Nat, total : Nat, weight : Nat, raced : BOOLEAN,
                           done : SUBSET Nat]
         /\ CompositeOK(reader[c], results)
         /\ \A b \in reader[c].listed : /\ b # 0 /\ b \in Nat
                                        /\ results[b].score \in {0, Bench!FullScore}
  <1>1. /\ reader[c] \in Readings /\ CompositeOK(reader[c], results)
    BY DEF MInv, MReaders, ReaderOK
  <1>2. \A b \in reader[c].listed : b \in Bench!Ids
    BY <1>1, ResultFacts DEF MInv, CompositeOK
  <1>3. \A b \in Bench!Ids : b # 0 /\ b \in Nat /\ results[b].score \in {0, Bench!FullScore}
    BY ResultFacts DEF MInv
  <1> QED BY <1>1, <1>2, <1>3 DEF Readings

LEMMA CompositeStatusStep ==
  ASSUME Bench!BenchmarkAssumption, MInv, NEW c \in Readers, NEW b,
         Bench!CompositeStatus(c, b)
  PROVE  MInv'
  <1> DEFINE r == reader[c]
             x == IF results[b].status = "completed" THEN b ELSE 0
             s == [r EXCEPT !.todo = @ \ {b}, !.reading = x]
  <1>1. /\ r.op = "composite" /\ r.reading = 0 /\ b \in r.todo
        /\ reader' = [reader EXCEPT ![c] = s]
        /\ UNCHANGED <<results, nodeScores, rank, waiting, executing>>
    BY DEF Bench!CompositeStatus, MInv, MReaders
  <1>2. /\ r \in [op : {"composite"}, listed : SUBSET Nat, todo : SUBSET Nat, reading : Nat,
                  total : Nat, weight : Nat, raced : BOOLEAN, done : SUBSET Nat]
        /\ CompositeOK(r, results) /\ \A y \in r.listed : y # 0 /\ y \in Nat
    BY <1>1, CompositeFacts
  <1>3. b \in r.listed
    BY <1>1, <1>2 DEF CompositeOK
  <1> HIDE DEF r
  <1>4. /\ s \in [op : {"composite"}, listed : SUBSET Nat, todo : SUBSET Nat, reading : Nat,
                  total : Nat, weight : Nat, raced : BOOLEAN, done : SUBSET Nat]
        /\ s.op = "composite" /\ s.listed = r.listed /\ s.todo = r.todo \ {b}
        /\ s.reading = x /\ s.total = r.total /\ s.weight = r.weight
        /\ s.raced = r.raced /\ s.done = r.done
    BY <1>2, <1>3
  <1> HIDE DEF s
  <1>5. Behind(s) \subseteq Behind(r)
    BY <1>1, <1>2, <1>4 DEF Behind, CompositeOK, Full
  <1>6. CompositeOK(s, results)
    BY <1>1, <1>2, <1>3, <1>4, <1>5 DEF CompositeOK
  <1>7. ReaderOK(s, results, Bench!Scored, rank)
    BY <1>4, <1>6 DEF ReaderOK, Readings, RankingOK, RankedOK, ScoredOK
  <1> QED BY <1>1, <1>4, <1>7, OneReader

LEMMA CompositeScoreStep ==
  ASSUME Bench!BenchmarkAssumption, MInv, NEW c \in Readers, Bench!CompositeScore(c)
  PROVE  MInv'
  <1> DEFINE r == reader[c]
             b == r.reading
             w == Bench!Weight(results[b].type)
             t == results[b].score * w
             s == [r EXCEPT !.reading = 0, !.total = @ + t, !.weight = @ + w]
  <1>1. /\ r.op = "composite" /\ b # 0
        /\ reader' = [reader EXCEPT ![c] = s]
        /\ UNCHANGED <<results, nodeScores, rank, waiting, executing>>
    BY DEF Bench!CompositeScore, MInv, MReaders
  <1>2. /\ r \in [op : {"composite"}, listed : SUBSET Nat, todo : SUBSET Nat, reading : Nat,
                  total : Nat, weight : Nat, raced : BOOLEAN, done : SUBSET Nat]
        /\ CompositeOK(r, results)
        /\ \A y \in r.listed : y # 0 /\ y \in Nat /\ results[y].score \in {0, Bench!FullScore}
    BY <1>1, CompositeFacts
  <1>3. b \in r.listed /\ b \notin r.todo /\ results[b].status = "completed"
    BY <1>1, <1>2 DEF CompositeOK
  <1>4. w \in Nat /\ results[b].score \in {0, Bench!FullScore}
    BY <1>2, <1>3, WeightNat
  <1> HIDE DEF w
  <1>5. /\ t \in Nat
        /\ results[b].score = Bench!FullScore => t = Bench!FullScore * w
    BY <1>4 DEF Bench!FullScore
  <1> HIDE DEF t, r
  <1>6. /\ s \in [op : {"composite"}, listed : SUBSET Nat, todo : SUBSET Nat, reading : Nat,
                  total : Nat, weight : Nat, raced : BOOLEAN, done : SUBSET Nat]
        /\ s.op = "composite" /\ s.listed = r.listed /\ s.todo = r.todo
        /\ s.reading = 0 /\ s.total = r.total + t /\ s.weight = r.weight + w
        /\ s.raced = r.raced /\ s.done = r.done
    <2>1. r.total + t \in Nat /\ r.weight + w \in Nat
      BY <1>2, <1>4, <1>5
    <2> QED BY <1>2, <2>1
  <1> HIDE DEF s
  <1>7. Behind(s) \subseteq Behind(r) \cup {b}
    BY <1>6 DEF Behind
  <1>8. r.total \in Nat /\ r.weight \in Nat
    BY <1>2
  <1>9. b \in r.done => results[b].score = Bench!FullScore /\ t = Bench!FullScore * w
    BY <1>2, <1>1, <1>5 DEF CompositeOK, Full
  <1>10. Counts(results, b) <=> w > 0
    BY DEF Counts, w
  <1>11. CompositeOK(s, results)
    <2>1. ~r.raced => b \in r.done
      BY <1>1, <1>2, <1>3 DEF CompositeOK
    <2>2. ~r.raced => s.total = Bench!FullScore * s.weight
      BY <1>1, <1>2, <1>4, <1>6, <1>8, <1>9, <2>1 DEF CompositeOK, Bench!FullScore
    <2>3. ~r.raced /\ s.weight > 0 => \E y \in r.done : Counts(results, y)
      BY <1>1, <1>2, <1>4, <1>6, <1>8, <1>10, <2>1 DEF CompositeOK
    <2>4. ASSUME NEW y \in Behind(s), Counts(results, y) PROVE s.total > 0 /\ s.weight > 0
      <3>1. CASE y \in Behind(r)
        <4>1. r.total > 0 /\ r.weight > 0
          BY <1>1, <1>2, <2>4, <3>1 DEF CompositeOK
        <4> QED BY <1>4, <1>5, <1>6, <1>8, <4>1
      <3>2. CASE y = b
        <4>1. b \in r.done /\ w > 0
          BY <1>6, <1>10, <2>4, <3>2 DEF Behind
        <4> QED BY <1>4, <1>6, <1>8, <1>9, <4>1 DEF Bench!FullScore
      <3> QED BY <1>7, <3>1, <3>2
    <2> QED BY <1>1, <1>2, <1>6, <2>2, <2>3, <2>4 DEF CompositeOK
  <1>12. ReaderOK(s, results, Bench!Scored, rank)
    BY <1>6, <1>11 DEF ReaderOK, Readings, RankingOK, RankedOK, ScoredOK
  <1> QED BY <1>1, <1>6, <1>12, OneReader

LEMMA CompositeReturnStep ==
  ASSUME Bench!BenchmarkAssumption, MInv, NEW c \in Readers, Bench!CompositeReturn(c)
  PROVE  MInv'
  <1> DEFINE r == reader[c]
             s == [op |-> "scored", done |-> r.done, raced |-> r.raced,
                   total |-> r.total, weight |-> r.weight]
  <1>1. /\ r.op = "composite" /\ r.reading = 0 /\ r.todo = {}
        /\ reader' = [reader EXCEPT ![c] = s]
        /\ UNCHANGED <<results, nodeScores, rank, waiting, executing>>
    BY DEF Bench!CompositeReturn, MInv, MReaders
  <1>2. /\ r \in [op : {"composite"}, listed : SUBSET Nat, todo : SUBSET Nat, reading : Nat,
                  total : Nat, weight : Nat, raced : BOOLEAN, done : SUBSET Nat]
        /\ CompositeOK(r, results) /\ \A y \in r.listed : y # 0 /\ y \in Nat
    BY <1>1, CompositeFacts
  <1>3. Behind(r) = r.done
    BY <1>1, <1>2 DEF Behind, CompositeOK
  <1> HIDE DEF r
  <1>4. s \in [op : {"scored"}, done : SUBSET Nat, raced : BOOLEAN, total : Nat, weight : Nat]
    BY <1>2
  <1>5. ScoredOK(s, results) /\ s.op = "scored"
    BY <1>1, <1>2, <1>3 DEF ScoredOK, CompositeOK
  <1> HIDE DEF s
  <1>6. ReaderOK(s, results, Bench!Scored, rank)
    BY <1>4, <1>5 DEF ReaderOK, Readings, RankingOK, RankedOK, CompositeOK
  <1> QED BY <1>1, <1>5, <1>6, OneReader

-----------------------------------------------------------------------------

LEMMA BenchmarkNext ==
  ASSUME Bench!BenchmarkAssumption, MInv, [Bench!Next]_benchmarkVars
  PROVE  MInv'
  <1>1. ASSUME NEW n \in BenchNodes, NEW type \in BenchTypes, Bench!RunBenchmark(n, type)
        PROVE  MInv'
    BY <1>1, RunStep
  <1>2. ASSUME NEW b \in Bench!Ids, Bench!Execute(b) PROVE MInv'
    BY <1>2, ExecuteQueue, ExecuteCompleteStep, ExecuteScoreStep, ExecuteUnlockStep
       DEF Bench!Execute
  <1>3. ASSUME NEW c \in Readers, NEW m \in BenchNodes \cup {"rank"}, Bench!RLock(c, m)
        PROVE  MInv'
    BY <1>3, RLockStep
  <1>4. ASSUME NEW c \in Readers, Bench!Rank(c) PROVE MInv'
    BY <1>4, RankingStartStep, RankingWriteStep, RankingReturnStep DEF Bench!Rank
  <1>5. ASSUME NEW c \in Readers, Bench!Composite(c) PROVE MInv'
    BY <1>5, CompositeListStep, CompositeStatusStep, CompositeScoreStep,
       CompositeReturnStep DEF Bench!Composite
  <1>6. CASE UNCHANGED benchmarkVars
    <2>1. /\ Bench!Scored' = Bench!Scored
            /\ Bench!Reading' = Bench!Reading
          /\ Bench!Ids' = Bench!Ids
      BY <1>6 DEF benchmarkVars, Bench!Scored, Bench!Reading, Bench!Ids
    <2>2. Bench!TypeOK'
      BY <1>6, <2>1 DEF benchmarkVars, MInv, MBase, Bench!TypeOK
    <2> QED BY <1>6, <2>1, <2>2 DEF benchmarkVars, MInv, MBase, MReaders
  <1> QED BY <1>1, <1>2, <1>3, <1>4, <1>5, <1>6 DEF Bench!Next

LEMMA BenchmarkInit == Bench!BenchmarkAssumption /\ Bench!Init => MInv
  <1> SUFFICES ASSUME Bench!BenchmarkAssumption, Bench!Init PROVE MInv
    OBVIOUS
  <1>1. results \in Seq(Bench!BenchmarkResult) /\ Len(results) = 0 /\ Bench!Ids = {}
    BY DEF Bench!Init, Bench!Ids
  <1>2. /\ \A c \in Readers : reader[c] = Bench!Idle
        /\ DOMAIN reader = Readers /\ Bench!Idle \in [op : {"idle"}] /\ Bench!Idle.op =
             "idle"
    BY DEF Bench!Init, Bench!Idle
  <1>3. Bench!Reading = {}
    BY <1>2 DEF Bench!Reading
  <1>4. Cardinality(BenchNodes) \in Nat
    BY FS_CardinalityType, BenchmarksSame DEF Bench!BenchmarkAssumption
  <1>5. MBase
    BY <1>1, <1>3, <1>4, BenchmarksSame
    DEF Bench!Init, MBase, Bench!TypeOK, Bench!BenchmarkAssumption
  <1> QED BY <1>2, <1>3, <1>5, PlainOK DEF MInv, MReaders

LEMMA RankingResult ==
  ASSUME Bench!BenchmarkAssumption, MInv
  PROVE  Bench!RankingIsConsistent
  <1>1. ASSUME NEW c \in Readers, reader[c].op = "ranking"
        PROVE  {reader[c].order[i] : i \in DOMAIN reader[c].order} = Bench!Scored
    BY <1>1 DEF MInv, MReaders, ReaderOK, RankingOK
  <1>2. ASSUME NEW c \in Readers, reader[c].op = "ranked", NEW i \in DOMAIN reader[c].order
        PROVE  /\ rank[reader[c].order[i]] \in 1..Cardinality(BenchNodes)
               /\ ~reader[c].rewritten => rank[reader[c].order[i]] = i
    <2> DEFINE r == reader[c]
    <2>1. /\ r \in [op : {"ranked"}, order : Seq(Nat), rewritten : BOOLEAN]
          /\ Numbered(r.order, Len(r.order), r.rewritten, rank)
      BY <1>2 DEF MInv, MReaders, ReaderOK, Readings, RankedOK
    <2>2. i \in 1..Len(r.order)
      BY <1>2, <2>1
    <2>3. /\ r.order[i] \in 1..MaxBenchmarks /\ rank[r.order[i]] # 0
          /\ ~r.rewritten => rank[r.order[i]] = i
      BY <2>1, <2>2 DEF Numbered
    <2>4. /\ rank \in [1..MaxBenchmarks -> 0..Cardinality(BenchNodes)]
          /\ Cardinality(BenchNodes) \in Nat
      BY ScoredFacts, BenchmarksSame DEF MInv, MBase, Bench!TypeOK
    <2>5. rank[r.order[i]] \in 0..Cardinality(BenchNodes)
      BY <2>3, <2>4
    <2> QED BY <2>3, <2>4, <2>5
  <1> QED BY <1>1, <1>2, BenchmarksSame DEF Bench!RankingIsConsistent

LEMMA CompositeResult ==
  ASSUME Bench!BenchmarkAssumption, MInv
  PROVE  Bench!CompositeIsGrounded
  <1> SUFFICES ASSUME NEW c \in Readers, reader[c].op = "scored"
               PROVE  LET counted == {b \in reader[c].done : Bench!Weight(results[b].type) > 0}
                      IN  /\ ~reader[c].raced =>
                               /\ reader[c].total = Bench!FullScore * reader[c].weight
                               /\ reader[c].weight > 0 <=> counted # {}
                          /\ counted # {} => reader[c].total > 0 /\ reader[c].weight > 0
    BY DEF Bench!CompositeIsGrounded
  <1>1. ScoredOK(reader[c], results)
    BY DEF MInv, MReaders, ReaderOK
  <1> QED BY <1>1 DEF ScoredOK, Counts

-----------------------------------------------------------------------------
(* The distribution of replicas *)

\* A listing is a sequence in which each cluster has one place.
LEMMA ListingFacts ==
  ASSUME Dist!DistributionAssumption, NEW cs \in Dist!Listings
  PROVE  /\ cs \in Seq(ClusterNames) /\ Len(cs) \in Nat /\ DOMAIN cs = 1..Len(cs)
         /\ \A i, j \in 1..Len(cs) : cs[i] = cs[j] => i = j
         /\ \A i \in 1..Len(cs) : Dist!Place(cs, cs[i]) = i
         /\ Dist!Listed(cs) \subseteq ClusterNames
         /\ \A n \in Dist!Listed(cs) : Dist!Place(cs, n) \in 1..Len(cs) /\ cs[Dist!Place(cs, n)] = n
  <1>1. Cardinality(ClusterNames) \in Nat
    BY FS_CardinalityType, DistributionSame DEF Dist!DistributionAssumption
  <1>2. PICK k \in 0..Cardinality(ClusterNames) :
          /\ cs \in [1..k -> ClusterNames]
          /\ \A i, j \in 1..k : cs[i] = cs[j] => i = j
    BY DistributionSame DEF Dist!Listings
  <1>3. cs \in Seq(ClusterNames) /\ Len(cs) = k
    BY <1>1, <1>2
  <1>4. DOMAIN cs = 1..k
    BY <1>2
  <1>5. \A i \in 1..k : Dist!Place(cs, cs[i]) = i
    BY <1>2, <1>4 DEF Dist!Place
  <1> QED BY <1>1, <1>2, <1>3, <1>4, <1>5 DEF Dist!Listed

\* As many clusters as are asked for have the first places of a listing.
LEMMA FirstPlaces ==
  ASSUME Dist!DistributionAssumption, NEW cs \in Dist!Listings, NEW k \in 0..Len(cs)
  PROVE  /\ IsFiniteSet({n \in Dist!Listed(cs) : Dist!Place(cs, n) <= k})
         /\ Cardinality({n \in Dist!Listed(cs) : Dist!Place(cs, n) <= k}) = k
  <1> DEFINE First == {n \in Dist!Listed(cs) : Dist!Place(cs, n) <= k}
             f     == [i \in 1..k |-> cs[i]]
  <1>1. f \in Bijection(1..k, First)
    <2>1. \A i \in 1..k : cs[i] \in First
      BY ListingFacts DEF Dist!Listed
    <2>2. \A i, j \in 1..k : f[i] = f[j] => i = j
      BY ListingFacts
    <2>3. \A n \in First : Dist!Place(cs, n) \in 1..k /\ f[Dist!Place(cs, n)] = n
      BY ListingFacts
    <2> QED BY <2>1, <2>2, <2>3 DEF Bijection, Injection, Surjection, IsInjective
  <1>2. ExistsBijection(1..k, First) /\ k \in Nat
    <2>1. k \in Nat
      BY ListingFacts
    <2> HIDE DEF f, First
    <2> QED BY <1>1, <2>1 DEF ExistsBijection
  <1> QED BY <1>2, FS_CountingElements, FS_NatBijection, ListingFacts

\* The shares of a distribution add up to what is distributed.
LEMMA SplitAddsUp ==
  ASSUME Dist!DistributionAssumption, NEW r \in Nat, NEW cs \in Dist!Listings, Len(cs) # 0
  PROVE  LET a == Dist!NewWorkloadDistribution(r, cs)
         IN  SumFunctionOnSet([n \in ClusterNames |-> Dist!GetAllocation(a, n)], ClusterNames) = r
  <1> DEFINE a     == Dist!NewWorkloadDistribution(r, cs)
             f     == [n \in ClusterNames |-> Dist!GetAllocation(a, n)]
             L     == Len(cs)
             per   == r \div L
             rem   == r % L
             First == {n \in Dist!Listed(cs) : Dist!Place(cs, n) <= rem}
             Other == {n \in Dist!Listed(cs) : ~(Dist!Place(cs, n) <= rem)}
             Rest  == ClusterNames \ Dist!Listed(cs)
  <1>1. /\ L \in Nat \ {0}
        /\ Dist!Listed(cs) \subseteq ClusterNames
        /\ IsFiniteSet(ClusterNames)
    BY ListingFacts, DistributionSame DEF Dist!DistributionAssumption
  <1>2. per \in Nat /\ rem \in 0..(L - 1) /\ r = per * L + rem
    <2> HIDE DEF L
    <2> QED BY <1>1
  <1>3. /\ \A n \in First : f[n] = per + 1
        /\ \A n \in Other : f[n] = per
        /\ \A n \in Rest : f[n] = 0
    BY <1>1 DEF Dist!NewWorkloadDistribution, Dist!GetAllocation
  <1>4. /\ First \cup Other = Dist!Listed(cs) /\ First \cap Other = {}
        /\ Dist!Listed(cs) \cup Rest = ClusterNames /\ Dist!Listed(cs) \cap Rest = {}
    BY <1>1
  <1>5. /\ IsFiniteSet(Dist!Listed(cs))
        /\ IsFiniteSet(First)
        /\ IsFiniteSet(Other)
        /\ IsFiniteSet(Rest)
    BY <1>1, FS_Subset
  <1>6. Cardinality(First) = rem /\ Cardinality(Dist!Listed(cs)) = L
    <2>1. {n \in Dist!Listed(cs) : Dist!Place(cs, n) <= L} = Dist!Listed(cs)
      BY ListingFacts
    <2>2. rem \in 0..L /\ L \in 0..L
      BY <1>1, <1>2
    <2> HIDE DEF L, rem
    <2>3. Cardinality(First) = rem
      BY <2>2, FirstPlaces DEF L
    <2>4. Cardinality({n \in Dist!Listed(cs) : Dist!Place(cs, n) <= L}) = L
      BY <2>2, FirstPlaces DEF L
    <2> QED BY <2>1, <2>3, <2>4
  <1>7. Cardinality(Other) = L - rem
    <2>1. Cardinality(Dist!Listed(cs)) =
            Cardinality(First) + Cardinality(Other) - Cardinality({})
      BY <1>4, <1>5, FS_Union
    <2>2. Cardinality({}) = 0 /\ Cardinality(Other) \in Nat
      BY <1>5, FS_EmptySet, FS_CardinalityType
    <2> HIDE DEF L, rem, First, Other
    <2> QED BY <1>1, <1>2, <1>6, <2>1, <2>2
  <1> HIDE DEF a, f, L, per, rem, First, Other, Rest
  <1> DEFINE Sum(S) == SumFunctionOnSet(f, S)
  <1>8. Sum(First) = (per + 1) * rem
    <2>0. per + 1 \in Int
      BY <1>2
    <2>1. \A n \in First : f[n] \in Int /\ per + 1 <= f[n] /\ f[n] <= per + 1
      BY <1>2, <1>3
    <2>2. /\ (per + 1) * Cardinality(First) <= Sum(First)
          /\ Sum(First) <= (per + 1) * Cardinality(First)
      BY <1>5, <2>0, <2>1, SumBounds, Zenon
    <2>3. Sum(First) \in Int
      BY <1>5, <2>1, SumInt
    <2> HIDE DEF Sum
    <2>4. (per + 1) * rem \in Int
      BY <1>2
    <2> QED BY <1>6, <2>2, <2>3, <2>4
  <1>9. Sum(Other) = per * (L - rem)
    <2>0. per \in Int
      BY <1>2
    <2>1. \A n \in Other : f[n] \in Int /\ per <= f[n] /\ f[n] <= per
      BY <1>2, <1>3
    <2>2. /\ per * Cardinality(Other) <= Sum(Other)
          /\ Sum(Other) <= per * Cardinality(Other)
      BY <1>5, <2>0, <2>1, SumBounds, Zenon
    <2>3. Sum(Other) \in Int
      BY <1>5, <2>1, SumInt
    <2> HIDE DEF Sum
    <2>4. per * (L - rem) \in Int
      BY <1>1, <1>2
    <2> QED BY <1>7, <2>2, <2>3, <2>4
  <1>10. Sum(Rest) = 0
    <2>0. 0 \in Int
      OBVIOUS
    <2>1. \A n \in Rest : f[n] \in Int /\ 0 <= f[n] /\ f[n] <= 0
      BY <1>3
    <2>2. 0 * Cardinality(Rest) <= Sum(Rest) /\ Sum(Rest) <= 0 * Cardinality(Rest)
      BY <1>5, <2>0, <2>1, SumBounds, Zenon
    <2>3. Sum(Rest) \in Int /\ Cardinality(Rest) \in Nat
      BY <1>5, <2>1, SumInt, FS_CardinalityType
    <2> HIDE DEF Sum
    <2> QED BY <2>2, <2>3
  <1>11. Sum(Dist!Listed(cs)) = Sum(First) + Sum(Other)
    BY <1>2, <1>3, <1>4, <1>5, SumDisjoint
  <1>12. Sum(ClusterNames) = Sum(Dist!Listed(cs)) + Sum(Rest)
    <2>1. \A n \in Dist!Listed(cs) \cup Rest : f[n] \in Int
      BY <1>2, <1>3, <1>4
    <2> QED BY <1>4, <1>5, <2>1, SumDisjoint
  <1> HIDE DEF Sum
  <1>13. (per + 1) * rem + per * (L - rem) = per * L + rem
    BY <1>1, <1>2
  <1> QED BY <1>2, <1>8, <1>9, <1>10, <1>11, <1>12, <1>13 DEF Sum, f, a

\* A share is not negative, nor more than what is distributed.
LEMMA SharesInRange ==
  ASSUME Dist!DistributionAssumption, NEW r \in Nat, NEW cs \in Dist!Listings, Len(cs) # 0
  PROVE  /\ Dist!NewWorkloadDistribution(r, cs) \in [Dist!Listed(cs) -> 0..r]
         /\ \A m, n \in Dist!Listed(cs) : Dist!NewWorkloadDistribution(r, cs)[m]
                                            - Dist!NewWorkloadDistribution(r, cs)[n] <= 1
  <1> DEFINE L   == Len(cs)
             per == r \div L
             rem == r % L
  <1>1. L \in Nat \ {0}
    BY ListingFacts
  <1>2. per \in Nat /\ rem \in 0..(L - 1) /\ r = per * L + rem
    <2> HIDE DEF L
    <2> QED BY <1>1
  <1>3. per * L >= per
    <2> HIDE DEF L, per
    <2> QED BY <1>1, <1>2
  <1>4. per * L \in Int
    <2> HIDE DEF L, per
    <2> QED BY <1>1, <1>2
  <1>5. \A n \in Dist!Listed(cs) : Dist!Place(cs, n) \in Nat \ {0}
    BY ListingFacts
  <1>6. Dist!NewWorkloadDistribution(r, cs) =
          [n \in Dist!Listed(cs) |-> per + IF Dist!Place(cs, n) <= rem THEN 1 ELSE 0]
    BY DEF Dist!NewWorkloadDistribution
  <1> HIDE DEF L, per, rem
  <1>7. \A n \in Dist!Listed(cs) : per + (IF Dist!Place(cs, n) <= rem THEN 1 ELSE 0) \in 0..r
    BY <1>1, <1>2, <1>3, <1>4, <1>5
  <1> QED BY <1>2, <1>6, <1>7

DInv == Dist!TypeOK /\ Dist!SplitIsExact

LEMMA DistributeStep ==
  ASSUME Dist!DistributionAssumption, NEW r \in 0..MaxReplicas, NEW cs \in Dist!Listings,
         Dist!Distribute(r, cs)
  PROVE  DInv'
  <1>1. r \in Nat
    BY DEF Dist!DistributionAssumption
  <1>2. CASE Len(cs) = 0
    <2>1. cs = <<>>
      BY <1>2, ListingFacts
    <2>2. Dist!Listed(cs) = {}
      BY <2>1 DEF Dist!Listed
    <2> QED BY <2>1, <2>2
            DEF Dist!Distribute, DInv, Dist!TypeOK, Dist!SplitIsExact,
                Dist!NewWorkloadDistribution
  <1>3. CASE Len(cs) # 0
    BY <1>1, <1>3, SplitAddsUp, SharesInRange, DistributionSame
    DEF Dist!Distribute, DInv, Dist!TypeOK, Dist!SplitIsExact
  <1> QED BY <1>2, <1>3

LEMMA DistributionInit == Dist!DistributionAssumption /\ Dist!Init => DInv
  <1> SUFFICES ASSUME Dist!DistributionAssumption, Dist!Init PROVE DInv
    OBVIOUS
  <1>1. <<>> \in Dist!Listings
    <2>1. 0 \in 0..Cardinality(ClusterNames)
      BY FS_CardinalityType, DistributionSame DEF Dist!DistributionAssumption
    <2>2. <<>> \in [1..0 -> ClusterNames] /\ \A i, j \in 1..0 : <<>>[i] = <<>>[j] => i = j
      OBVIOUS
    <2> QED BY <2>1, <2>2, DistributionSame DEF Dist!Listings
  <1>2. Dist!Listed(<<>>) = {}
    BY DEF Dist!Listed
  <1> QED BY <1>1, <1>2
        DEF Dist!Init, DInv, Dist!TypeOK, Dist!SplitIsExact,
            Dist!NewWorkloadDistribution, Dist!DistributionAssumption

LEMMA DistributionNext ==
  ASSUME Dist!DistributionAssumption, DInv, [Dist!Next]_distributionVars
  PROVE  DInv'
  <1>1. CASE Dist!Next
    BY <1>1, DistributeStep DEF Dist!Next
  <1>2. CASE UNCHANGED distributionVars
    BY <1>2 DEF distributionVars, DInv, Dist!TypeOK, Dist!SplitIsExact
  <1> QED BY <1>1, <1>2

-----------------------------------------------------------------------------
(* The services together *)

ServicesInv == SInv /\ BInv /\ MInv /\ DInv

LEMMA ServicesParts ==
  ASSUME [ServicesNext]_servicesVars
  PROVE  /\ [Next]_vars
         /\ [Bills!Next]_billingVars
         /\ [Bench!Next]_benchmarkVars
         /\ [Dist!Next]_distributionVars
  BY DEF ServicesNext, SelectionStep, BillingStep, BenchmarkStep, DistributionStep,
         servicesVars, vars, billingVars, benchmarkVars, distributionVars

\* Every reachable state of the services satisfies the invariants of the four.
THEOREM ServicesInvariant == ServicesSpec => []ServicesInv
  <1>1. ServicesInit => ServicesInv
    BY ServicesFacts, SelectionInit, BillingInit, BenchmarkInit, DistributionInit
       DEF ServicesInit, ServicesInv
  <1>2. ServicesInv /\ [ServicesNext]_servicesVars => ServicesInv'
    BY ServicesFacts, ServicesParts, SNext, BillingNext, BenchmarkNext,
       DistributionNext DEF ServicesInv
  <1> QED BY <1>1, <1>2, PTL DEF ServicesSpec

\* ServicesTypeOK: every variable of the four parts has its type; in particular no
\* payment is dated in the future unless the bill came with that date, no node has the score of a benchmark that is not
\* completed, nobody reads beside a writer, and no cluster gets more replicas than
\* there are.
THEOREM ServicesTypesOK == ServicesSpec => []ServicesTypeOK
  <1>1. ServicesInv => ServicesTypeOK
    BY DEF ServicesInv, SInv, BInv, MInv, MBase, DInv, ServicesTypeOK
  <1> QED BY <1>1, ServicesInvariant, PTL

\* SelectionIsBest: the selected node is the first of the eligible nodes of the
\* lowest score, for lists of any length and nodes of any size.
THEOREM ServicesSelectionIsBest == ServicesSpec => []SelectionIsBest
  <1>1. ServicesInv => SelectionIsBest
    BY ServicesFacts, SelectionResult DEF ServicesInv
  <1> QED BY <1>1, ServicesInvariant, PTL

\* TotalIsDue: a bill's total is what its usage and discount cost at its own price,
\* for any number of resources, any usage, price and discount.
THEOREM ServicesTotalIsDue == ServicesSpec => []TotalIsDue
  <1>1. ServicesInv => TotalIsDue
    BY DEF ServicesInv, BInv, TotalIsDue
  <1> QED BY <1>1, ServicesInvariant, PTL

\* PaymentsAreBooked: what the summary of a tenant says is paid is what the tenant's
\* payments come to, after any sequence of submissions (repeated ones among them),
\* updates, payments, cancellations and new prices.
THEOREM ServicesPaymentsAreBooked == ServicesSpec => []PaymentsAreBooked
  <1>1. ServicesInv => PaymentsAreBooked
    BY ServicesFacts, PaymentsInv DEF ServicesInv, PaymentsAreBooked
  <1> QED BY <1>1, ServicesInvariant, PTL

\* SummariesAddUp: the summaries of two periods that share an end add up to that of
\* both and, once more, of the bills made at the shared instant, and those of the
\* tenants to that of all, for any number of bills and any amounts.
THEOREM ServicesSummariesAddUp == ServicesSpec => []SummariesAddUp
  <1>1. ServicesInv => SummariesAddUp
    BY ServicesFacts, SummariesInv DEF ServicesInv, SummariesAddUp
  <1> QED BY <1>1, ServicesInvariant, PTL

\* SplitIsExact: the shares of the clusters add up to the replicas asked for, and
\* no two differ by more than one, for any number of clusters and replicas.
THEOREM ServicesSplitIsExact == ServicesSpec => []SplitIsExact
  <1>1. ServicesInv => SplitIsExact
    BY DEF ServicesInv, DInv, SplitIsExact
  <1> QED BY <1>1, ServicesInvariant, PTL

\* RankingIsConsistent: the objects of an answer have a rank, and it is their place
\* in the answer as long as no other ranking has given one of them another place,
\* for any number of nodes, callers and benchmarks and any limits.
THEOREM ServicesRankingIsConsistent == ServicesSpec => []RankingIsConsistent
  <1>1. ServicesInv => RankingIsConsistent
    BY ServicesFacts, RankingResult DEF ServicesInv, RankingIsConsistent
  <1> QED BY <1>1, ServicesInvariant, PTL

\* CompositeIsGrounded: a composite score that no benchmark raced is the average of
\* the completed ones, and one that was raced is never nothing.
THEOREM ServicesCompositeIsGrounded == ServicesSpec => []CompositeIsGrounded
  <1>1. ServicesInv => CompositeIsGrounded
    BY ServicesFacts, CompositeResult DEF ServicesInv, CompositeIsGrounded
  <1> QED BY <1>1, ServicesInvariant, PTL
=============================================================================
