-------------------------- MODULE MonitoringProofs --------------------------
(***************************************************************************)
(* Proofs about Monitoring, for any number of clients, rules and alerts.   *)
(*                                                                         *)
(* Everything follows from who holds the lock.  The clients inside a       *)
(* method that has read-locked the mutex are its readers (in TypeOK), and  *)
(* a writer needs that there are none: so no rule changes under an         *)
(* evaluation, and an evaluation that calls FireAlert, itself a reader,    *)
(* never gets the write lock, nor does anybody after it.                   *)
(***************************************************************************)
EXTENDS Monitoring, TLAPS

PcValues == {"idle", "read", "write", "held", "eval", "fire"}

Locking ==
    /\ pc \in [Clients -> PcValues]
    /\ readers = {c \in Clients : pc[c] \in {"held", "eval", "fire"}}

Rules ==
    /\ created \in 0..MaxRules
    /\ DOMAIN rules \subseteq 1..created
    /\ \A r \in DOMAIN rules : rules[r] \in Rule

Alerts ==
    /\ alerts \in Seq(Alert) /\ Len(alerts) <= MaxAlerts
    /\ notified \subseteq AlertIds

Arguments ==
    /\ todo \in [Clients -> SUBSET RuleIds]
    /\ metrics \in [Clients -> Metrics \cup {Zero}]

OneRuleSet == \A c \in Clients : pc[c] = "eval" => todo[c] \subseteq DOMAIN rules

MInv == Locking /\ Rules /\ Alerts /\ Arguments /\ AlertsAreCoherent /\ OneRuleSet

LEMMA TypeParts == MInv => TypeOK
  BY DEF MInv, Locking, Rules, Alerts, Arguments, TypeOK, PcValues

-----------------------------------------------------------------------------
(* The lock *)

\* Whoever changes the data does so while nobody reads.
LEMMA WritersAreAlone ==
  ASSUME MInv, NEW c \in Clients, Writes(c)
  PROVE  /\ readers = {} /\ pc[c] = "write" /\ Unlock(c)
         /\ \A d \in Clients : pc[d] \in {"idle", "read", "write"}
  <1>1. readers = {} /\ Unlock(c) /\ pc[c] \in {"write", "fire"}
    BY DEF Writes, CreateRule, UpdateRule, DeleteRule, FireAlert, ResolveAlert, SilenceAlert,
           SendNotification, NotFound, Write, Free
  <1>2. \A d \in Clients : pc[d] \in {"idle", "read", "write"}
    BY <1>1 DEF MInv, Locking, PcValues
  <1> QED BY <1>1, <1>2

LEMMA UnlockStep ==
  ASSUME Locking, NEW c \in Clients, pc[c] = "write", Unlock(c)
  PROVE  /\ Locking'
         /\ \A d \in Clients : pc'[d] = "eval" => pc[d] = "eval"
  <1>1. \A d \in Clients : pc'[d] = IF d = c THEN "idle"
                                   ELSE IF pc[d] = "read" THEN "held" ELSE pc[d]
    BY DEF Unlock
  <1>2. pc' \in [Clients -> PcValues]
    BY <1>1 DEF Unlock, Locking, PcValues
  <1>3. readers' = readers \cup {d \in Clients : pc[d] = "read"}
    BY DEF Unlock
  <1>4. readers' = {d \in Clients : pc'[d] \in {"held", "eval", "fire"}}
    BY <1>1, <1>3 DEF Locking
  <1> QED BY <1>1, <1>2, <1>4 DEF Locking

-----------------------------------------------------------------------------
(* The invariant is inductive *)

LEMMA WriteRules ==
  ASSUME MInv, NEW c \in Clients,
         \/ \E e \in Exprs : CreateRule(c, e)
         \/ \E r \in RuleIds : UpdateRule(c, r) \/ DeleteRule(c, r)
  PROVE  Rules' /\ UNCHANGED <<alerts, notified, todo, metrics>>
  <1>1. ASSUME NEW e \in Exprs, CreateRule(c, e)
        PROVE  Rules' /\ UNCHANGED <<alerts, notified, todo, metrics>>
    <2>1. /\ created < MaxRules /\ created' = created + 1
          /\ rules' = [r \in DOMAIN rules \cup {created + 1} |->
                         IF r = created + 1 THEN [expr |-> e, enabled |-> TRUE] ELSE rules[r]]
          /\ UNCHANGED <<alerts, notified, todo, metrics>>
      BY <1>1 DEF CreateRule, Write
    <2>2. created' \in 0..MaxRules /\ created \in Nat
      BY <2>1, MonitoringAssumption DEF MInv, Rules
    <2>3. DOMAIN rules' \subseteq 1..created'
      BY <2>1, <2>2 DEF MInv, Rules
    <2>4. [expr |-> e, enabled |-> TRUE] \in Rule
      BY DEF Rule
    <2>5. \A r \in DOMAIN rules' : rules'[r] \in Rule
      BY <2>1, <2>4 DEF MInv, Rules
    <2> QED BY <2>1, <2>2, <2>3, <2>5 DEF Rules
  <1>2. ASSUME NEW r \in RuleIds, UpdateRule(c, r)
        PROVE  Rules' /\ UNCHANGED <<alerts, notified, todo, metrics>>
    BY <1>2 DEF UpdateRule, Write, MInv, Rules
  <1>3. ASSUME NEW r \in RuleIds, DeleteRule(c, r)
        PROVE  Rules' /\ UNCHANGED <<alerts, notified, todo, metrics>>
    BY <1>3 DEF DeleteRule, Write, MInv, Rules
  <1> QED BY <1>1, <1>2, <1>3

LEMMA WriteAlerts ==
  ASSUME MInv, NEW c \in Clients,
         \/ \E r \in RuleIds : FireAlert(c, r)
         \/ \E a \in AlertIds : ResolveAlert(c, a) \/ SilenceAlert(c, a) \/ SendNotification(c, a)
         \/ NotFound(c)
  PROVE  Alerts' /\ AlertsAreCoherent' /\ Arguments' /\ UNCHANGED <<rules, created>>
  <1> DEFINE Goal == Alerts' /\ AlertsAreCoherent' /\ Arguments' /\ UNCHANGED <<rules, created>>
  <1>0. alerts \in Seq(Alert) /\ Len(alerts) \in Nat /\ DOMAIN alerts = 1..Len(alerts)
    <2>1. alerts \in Seq(Alert)
      BY DEF MInv, Alerts
    <2> QED BY <2>1
  <1>1. ASSUME NEW r \in RuleIds, FireAlert(c, r) PROVE Goal
    <2>1. /\ Len(alerts) < MaxAlerts /\ alerts' = Append(alerts, NewAlert(r))
          /\ todo' = [todo EXCEPT ![c] = @ \ {r}]
          /\ UNCHANGED <<rules, created, notified, metrics>>
      BY <1>1 DEF FireAlert
    <2>2. NewAlert(r) \in Alert /\ NewAlert(r).status = "active" /\ NewAlert(r).state = "firing"
      BY DEF NewAlert, Alert
    <2>3. /\ alerts' \in Seq(Alert) /\ Len(alerts') = Len(alerts) + 1
          /\ \A a \in DOMAIN alerts' : /\ a \in DOMAIN alerts => alerts'[a] = alerts[a]
                                       /\ a \notin DOMAIN alerts => alerts'[a] = NewAlert(r)
      BY <1>0, <2>1, <2>2
    <2>4. Alerts'
      BY <1>0, <2>1, <2>3, MonitoringAssumption DEF MInv, Alerts
    <2>5. AlertsAreCoherent'
      BY <2>2, <2>3 DEF MInv, AlertsAreCoherent
    <2>6. Arguments'
      BY <2>1 DEF MInv, Arguments
    <2> QED BY <2>1, <2>4, <2>5, <2>6
  <1>2. ASSUME NEW a \in AlertIds, NEW x \in Alert, a \in DOMAIN alerts,
               alerts' = [alerts EXCEPT ![a] = x],
               /\ x.status = "active" => x.state = "firing"
               /\ x.status = "resolved" => x.state = "resolved",
               UNCHANGED <<rules, created, notified, todo, metrics>>
        PROVE  Goal
    <2>1. /\ alerts' \in Seq(Alert) /\ Len(alerts') = Len(alerts) /\ DOMAIN alerts' = DOMAIN alerts
          /\ \A b \in DOMAIN alerts : alerts'[b] = IF b = a THEN x ELSE alerts[b]
      BY <1>0, <1>2
    <2>2. Alerts'
      BY <1>2, <2>1 DEF MInv, Alerts
    <2>3. AlertsAreCoherent'
      BY <1>2, <2>1 DEF MInv, AlertsAreCoherent
    <2> QED BY <1>2, <2>2, <2>3 DEF MInv, Arguments
  <1>3. ASSUME NEW a \in AlertIds, ResolveAlert(c, a) PROVE Goal
    <2>1. /\ a \in DOMAIN alerts /\ UNCHANGED <<rules, created, notified, todo, metrics>>
          /\ alerts' = [alerts EXCEPT ![a].status = "resolved", ![a].state = "resolved"]
      BY <1>3 DEF ResolveAlert, Write
    <2>2. alerts[a] \in Alert
      BY <1>0, <2>1
    <2>3. PICK x \in Alert : x = [alerts[a] EXCEPT !.status = "resolved", !.state = "resolved"]
      BY <2>2 DEF Alert
    <2>4. x.status = "resolved" /\ x.state = "resolved"
      BY <2>2, <2>3 DEF Alert
    <2>5. alerts' = [alerts EXCEPT ![a] = x]
      BY <2>1, <2>3
    <2> QED BY <1>2, <2>1, <2>4, <2>5
  <1>4. ASSUME NEW a \in AlertIds, SilenceAlert(c, a) PROVE Goal
    <2>1. /\ a \in DOMAIN alerts /\ UNCHANGED <<rules, created, notified, todo, metrics>>
          /\ alerts' = [alerts EXCEPT ![a].status = "silenced"]
      BY <1>4 DEF SilenceAlert, Write
    <2>2. alerts[a] \in Alert
      BY <1>0, <2>1
    <2>3. PICK x \in Alert : x = [alerts[a] EXCEPT !.status = "silenced"]
      BY <2>2 DEF Alert
    <2>4. x.status = "silenced"
      BY <2>2, <2>3 DEF Alert
    <2>5. alerts' = [alerts EXCEPT ![a] = x]
      BY <2>1, <2>3
    <2> QED BY <1>2, <2>1, <2>4, <2>5
  <1>5. CASE (\E a \in AlertIds : SendNotification(c, a)) \/ NotFound(c)
    <2>1. /\ notified' \subseteq AlertIds
          /\ UNCHANGED <<rules, created, alerts, todo, metrics>>
      BY <1>5 DEF SendNotification, NotFound, Write, data, MInv, Alerts
    <2> QED BY <2>1 DEF MInv, Alerts, AlertsAreCoherent, Arguments
  <1> QED BY <1>1, <1>3, <1>4, <1>5

LEMMA WriteStep ==
  ASSUME MInv, NEW c \in Clients, Writes(c)
  PROVE  MInv'
  <1>1. /\ pc[c] = "write" /\ Unlock(c)
        /\ \A d \in Clients : pc[d] \in {"idle", "read", "write"}
    BY WritersAreAlone
  <1>2. Locking' /\ OneRuleSet'
    BY <1>1, UnlockStep DEF MInv, OneRuleSet
  <1>3. Rules' /\ Alerts' /\ Arguments' /\ AlertsAreCoherent'
    <2>1. CASE \/ \E e \in Exprs : CreateRule(c, e)
               \/ \E r \in RuleIds : UpdateRule(c, r) \/ DeleteRule(c, r)
      BY <2>1, WriteRules DEF MInv, Alerts, Arguments, AlertsAreCoherent
    <2>2. CASE \/ \E r \in RuleIds : FireAlert(c, r)
               \/ \E a \in AlertIds : \/ ResolveAlert(c, a) \/ SilenceAlert(c, a)
                                      \/ SendNotification(c, a)
               \/ NotFound(c)
      BY <2>2, WriteAlerts DEF MInv, Rules
    <2> QED BY <2>1, <2>2 DEF Writes
  <1> QED BY <1>2, <1>3 DEF MInv

LEMMA ReadStep ==
  ASSUME MInv, NEW c \in Clients, CallWriter(c) \/ CallReader(c) \/ Reads(c)
  PROVE  MInv' /\ UNCHANGED data
  <1>1. UNCHANGED data
    BY DEF CallWriter, CallReader, Reads, Look, EvaluateRules, EvaluateRule, EvaluateEnd
  <1>2. Rules' /\ Alerts' /\ AlertsAreCoherent'
    BY <1>1 DEF data, MInv, Rules, Alerts, AlertsAreCoherent
  <1>3. Locking'
    BY DEF CallWriter, CallReader, Reads, Look, EvaluateRules, EvaluateRule, EvaluateEnd,
           RUnlock, MInv, Locking, PcValues
  <1>4. Arguments'
    <2>1. DOMAIN rules \subseteq RuleIds
      BY MonitoringAssumption DEF MInv, Rules, RuleIds
    <2> QED BY <2>1 DEF CallWriter, CallReader, Reads, Look, EvaluateRules, EvaluateRule,
                        EvaluateEnd, MInv, Arguments
  <1>5. OneRuleSet'
    BY <1>1 DEF CallWriter, CallReader, Reads, Look, EvaluateRules, EvaluateRule, EvaluateEnd,
                RUnlock, MInv, Locking, Arguments, OneRuleSet, data
  <1> QED BY <1>1, <1>2, <1>3, <1>4, <1>5 DEF MInv

LEMMA MInit == Init => MInv
  BY MonitoringAssumption
  DEF Init, MInv, Locking, PcValues, Rules, Alerts, Arguments, AlertsAreCoherent, OneRuleSet, Zero

LEMMA MNext == MInv /\ [Next]_vars => MInv'
  <1> SUFFICES ASSUME MInv, [Next]_vars PROVE MInv'
    OBVIOUS
  <1>1. CASE Next
    BY <1>1, WriteStep, ReadStep DEF Next
  <1>2. CASE UNCHANGED vars
    BY <1>2 DEF vars, data, MInv, Locking, Rules, Alerts, Arguments, AlertsAreCoherent, OneRuleSet
  <1> QED BY <1>1, <1>2

\* Every reachable state satisfies the invariant.
THEOREM MonitoringInvariant == Spec => []MInv
  BY MInit, MNext, PTL DEF Spec

-----------------------------------------------------------------------------
(* What the runs check *)

\* The readers the mutex counts are the clients inside a read-locked method.
THEOREM MonitoringTypeOK == Spec => []TypeOK
  BY MonitoringInvariant, TypeParts, PTL

\* AlertsAreCoherent: the two fields of an alert agree, in whatever order the
\* three methods that set them are called.
THEOREM MonitoringAlertsAreCoherent == Spec => []AlertsAreCoherent
  <1>1. MInv => AlertsAreCoherent
    BY DEF MInv
  <1> QED BY <1>1, MonitoringInvariant, PTL

\* EvaluationSeesOneRuleSet: no rule comes, goes or changes under an evaluation.
THEOREM MonitoringEvaluationSeesOneRuleSet == Spec => EvaluationSeesOneRuleSet
  <1>1. MInv => \A c \in Clients : pc[c] = "eval" => todo[c] \subseteq DOMAIN rules
    BY DEF MInv, OneRuleSet
  <1>2. ASSUME MInv, [Next]_vars
        PROVE  [(\E c \in Clients : pc[c] = "eval") => rules' = rules]_vars
    <2>1. ASSUME NEW c \in Clients, Writes(c) PROVE ~ \E d \in Clients : pc[d] = "eval"
      BY <1>2, <2>1, WritersAreAlone
    <2>2. ASSUME NEW c \in Clients, CallWriter(c) \/ CallReader(c) \/ Reads(c)
          PROVE  rules' = rules
      BY <1>2, <2>2, ReadStep DEF data
    <2> QED BY <1>2, <2>1, <2>2 DEF Next
  <1> QED BY <1>1, <1>2, MonitoringInvariant, PTL DEF Spec, EvaluationSeesOneRuleSet

\* FireAlert under the read lock (what the run mon_alerting finds, for every
\* number of clients): once an evaluation has come to a violated rule it stays
\* there, and no rule, alert or notification changes ever again.
THEOREM MonitoringFireBlocks ==
  Spec => [][\A c \in Clients : pc[c] = "fire" => pc'[c] = "fire" /\ UNCHANGED data]_vars
  <1>1. ASSUME MInv, [Next]_vars
        PROVE  [\A c \in Clients : pc[c] = "fire" => pc'[c] = "fire" /\ UNCHANGED data]_vars
    <2> SUFFICES ASSUME Next, NEW c \in Clients, pc[c] = "fire"
                 PROVE  pc'[c] = "fire" /\ UNCHANGED data
      BY <1>1
    <2>1. PICK d \in Clients : CallWriter(d) \/ CallReader(d) \/ Writes(d) \/ Reads(d)
      BY DEF Next
    <2>2. ~Writes(d)
      BY <1>1, WritersAreAlone
    <2>3. UNCHANGED data
      BY <1>1, <2>1, <2>2, ReadStep
    <2>4. pc'[c] = "fire"
      BY <1>1, <2>1, <2>2
      DEF CallWriter, CallReader, Reads, Look, EvaluateRules, EvaluateRule, EvaluateEnd,
          RUnlock, MInv, Locking
    <2> QED BY <2>3, <2>4
  <1> QED BY <1>1, MonitoringInvariant, PTL DEF Spec
=============================================================================
