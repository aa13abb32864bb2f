----------------------------- MODULE Monitoring -----------------------------
(***************************************************************************)
(* Alert rules and alerts (MonitoringService, internal/monitor).           *)
(*                                                                         *)
(* All methods work under one sync.RWMutex.  A method that takes the write *)
(* lock is one action; which method a client calls is chosen when it gets  *)
(* the lock.  EvaluateRules holds the read lock while it goes through the  *)
(* rules, and calls FireAlert, which asks for the write lock, from there.  *)
(*                                                                         *)
(* The mutex is Go's: a writer waits for the readers to leave, a waiting   *)
(* writer keeps new readers out, and a writer that leaves lets in all the  *)
(* readers that wait.                                                      *)
(* A definition X_Y is the mutation Y of X, used by no specification.      *)
(***************************************************************************)
EXTENDS Integers, Sequences

CONSTANTS Clients,    \* goroutines that call the service
          Exprs,      \* rule expressions, the keys of the metrics
          Metrics,    \* the metrics EvaluateRules may be given
          MaxRules,   \* bound: calls of CreateRule
          MaxAlerts   \* bound: alerts fired

\* A metric that is missing from the map reads as 0 (Evaluate).
ASSUME MonitoringAssumption ==
    /\ Metrics \subseteq [Exprs -> Int]
    /\ MaxRules \in Nat /\ MaxAlerts \in Nat

VARIABLES
  rules,     \* ms.rules: rule number -> rule
  created,   \* rules created so far
  alerts,    \* ms.alerts, in the order they fired; none is ever removed
  notified,  \* the alerts ms.notifications are about
  pc,        \* per client: "idle", "read" and "write" (waiting for the lock),
             \* "held" (has the read lock), "eval", "fire"
  readers,   \* the clients that hold the read lock
  todo,      \* EvaluateRules: the rules still to look at
  metrics    \* EvaluateRules: its argument

vars == <<rules, created, alerts, notified, pc, readers, todo, metrics>>
data == <<rules, created, alerts, notified>>

RuleIds  == 1..MaxRules
AlertIds == 1..MaxAlerts

Rule  == [expr : Exprs, enabled : BOOLEAN]
Alert == [rule : RuleIds, state : {"firing", "pending", "resolved"},
          status : {"active", "resolved", "silenced"}]

Zero == [e \in Exprs |-> 0]

Init ==
    /\ rules = <<>>
    /\ created = 0
    /\ alerts = <<>>
    /\ notified = {}
    /\ pc = [c \in Clients |-> "idle"]
    /\ readers = {}
    /\ todo = [c \in Clients |-> {}]
    /\ metrics = [c \in Clients |-> Zero]

-----------------------------------------------------------------------------
(* The lock *)

CallWriter(c) ==
    /\ pc[c] = "idle"
    /\ pc' = [pc EXCEPT ![c] = "write"]
    /\ UNCHANGED <<data, readers, todo, metrics>>

WriterWaits == \E c \in Clients : pc[c] \in {"write", "fire"}

\* RLock.
CallReader(c) ==
    /\ pc[c] = "idle"
    /\ IF WriterWaits
       THEN pc' = [pc EXCEPT ![c] = "read"] /\ readers' = readers
       ELSE pc' = [pc EXCEPT ![c] = "held"] /\ readers' = readers \cup {c}
    /\ UNCHANGED <<data, todo, metrics>>

\* RUnlock, and the return of the method.
RUnlock(c) ==
    /\ pc' = [pc EXCEPT ![c] = "idle"]
    /\ readers' = readers \ {c}

\* The write lock can be taken.
Free_Shared == TRUE
Free == readers = {}

\* Unlock, and the return of the method: FireAlert may return to EvaluateRules.
\* The readers that wait get the lock.
Unlock(c) ==
    /\ pc' = [x \in Clients |->
                 IF x = c THEN IF pc[c] = "fire" THEN "eval" ELSE "idle"
                 ELSE IF pc[x] = "read" THEN "held" ELSE pc[x]]
    /\ readers' = readers \cup {x \in Clients : pc[x] = "read"}

\* A method under the write lock that sets the data as e says.
Write(c, e) ==
    /\ pc[c] = "write" /\ Free
    /\ e
    /\ Unlock(c)
    /\ UNCHANGED <<todo, metrics>>

-----------------------------------------------------------------------------
(* The rules *)

CreateRule(c, e) ==
    Write(c, /\ created < MaxRules
             /\ created' = created + 1
             /\ rules' = [r \in DOMAIN rules \cup {created + 1} |->
                            IF r = created + 1 THEN [expr |-> e, enabled |-> TRUE]
                            ELSE rules[r]]
             /\ UNCHANGED <<alerts, notified>>)

\* The two optional fields that EvaluateRules looks at.
UpdateRule(c, r) ==
    Write(c, /\ r \in DOMAIN rules
             /\ \E new \in Rule : rules' = [rules EXCEPT ![r] = new]
             /\ UNCHANGED <<created, alerts, notified>>)

DeleteRule(c, r) ==
    Write(c, /\ r \in DOMAIN rules
             /\ rules' = [s \in DOMAIN rules \ {r} |-> rules[s]]
             /\ UNCHANGED <<created, alerts, notified>>)

\* The methods that take an id, given one that does not exist.
NotFound(c) == Write(c, UNCHANGED data)

-----------------------------------------------------------------------------
(* The alerts *)

\* rule.Enabled, and IsViolated of what Evaluate returns.
Violated(c, r) == rules[r].enabled /\ metrics[c][rules[r].expr] > 0

NewAlert(r) == [rule |-> r, state |-> "firing", status |-> "active"]

\* Called from outside, perhaps with a rule that has been deleted, or by
\* EvaluateRules, which goes on with the next rule.
FireAlert(c, r) ==
    /\ \/ pc[c] = "write" /\ r <= created
       \/ pc[c] = "fire" /\ r \in todo[c] /\ Violated(c, r)
    /\ Free
    /\ Len(alerts) < MaxAlerts
    /\ alerts' = Append(alerts, NewAlert(r))
    /\ Unlock(c)
    /\ todo' = [todo EXCEPT ![c] = @ \ {r}]
    /\ UNCHANGED <<rules, created, notified, metrics>>

ResolveAlert_StatusOnly(c, a) ==
    Write(c, /\ a \in DOMAIN alerts
             /\ alerts' = [alerts EXCEPT ![a].status = "resolved"]
             /\ UNCHANGED <<rules, created, notified>>)

ResolveAlert(c, a) ==
    Write(c, /\ a \in DOMAIN alerts
             /\ alerts' = [alerts EXCEPT ![a].status = "resolved", ![a].state = "resolved"]
             /\ UNCHANGED <<rules, created, notified>>)

SilenceAlert(c, a) ==
    Write(c, /\ a \in DOMAIN alerts
             /\ alerts' = [alerts EXCEPT ![a].status = "silenced"]
             /\ UNCHANGED <<rules, created, notified>>)

\* The alert need not exist.
SendNotification(c, a) ==
    Write(c, /\ notified' = notified \cup {a}
             /\ UNCHANGED <<rules, created, alerts>>)

-----------------------------------------------------------------------------
(* The readers *)

\* The methods that only look: GetRule, ListRules, GetAlert, ListAlerts and
\* GetActiveAlertCount.
Look(c) ==
    /\ pc[c] = "held"
    /\ RUnlock(c)
    /\ UNCHANGED <<data, todo, metrics>>

EvaluateRules(c, m) ==
    /\ pc[c] = "held"
    /\ pc' = [pc EXCEPT ![c] = "eval"]
    /\ todo' = [todo EXCEPT ![c] = DOMAIN rules]
    /\ metrics' = [metrics EXCEPT ![c] = m]
    /\ UNCHANGED <<data, readers>>

\* One turn of the loop; the map is ranged over in any order.
EvaluateRule(c, r) ==
    /\ pc[c] = "eval"
    /\ r \in todo[c]
    /\ \/ ~Violated(c, r) /\ todo' = [todo EXCEPT ![c] = @ \ {r}] /\ pc' = pc
       \/ Violated(c, r) /\ todo' = todo /\ pc' = [pc EXCEPT ![c] = "fire"]
    /\ UNCHANGED <<data, readers, metrics>>

EvaluateEnd_NoRUnlock(c) ==
    /\ pc[c] = "eval" /\ todo[c] = {}
    /\ pc' = [pc EXCEPT ![c] = "idle"]
    /\ metrics' = [metrics EXCEPT ![c] = Zero]
    /\ UNCHANGED <<data, todo, readers>>
EvaluateEnd(c) ==
    /\ pc[c] = "eval" /\ todo[c] = {}
    /\ RUnlock(c)
    /\ metrics' = [metrics EXCEPT ![c] = Zero]
    /\ UNCHANGED <<data, todo>>

-----------------------------------------------------------------------------
(* The specification *)

Writes(c) ==
    \/ \E e \in Exprs : CreateRule(c, e)
    \/ \E r \in RuleIds : UpdateRule(c, r) \/ DeleteRule(c, r) \/ FireAlert(c, r)
    \/ \E a \in AlertIds : ResolveAlert(c, a) \/ SilenceAlert(c, a) \/ SendNotification(c, a)
    \/ NotFound(c)

Reads(c) ==
    \/ Look(c)
    \/ \E m \in Metrics : EvaluateRules(c, m)
    \/ \E r \in RuleIds : EvaluateRule(c, r)
    \/ EvaluateEnd(c)

Next ==
    \E c \in Clients :
       CallWriter(c) \/ CallReader(c) \/ Writes(c) \/ Reads(c)

Spec == Init /\ [][Next]_vars

\* A goroutine that can run does, and a mutex does not starve a waiting writer.
\* Nobody has to call the service.
FairSpec ==
    /\ Spec
    /\ \A c \in Clients : WF_vars(Reads(c)) /\ SF_vars(Writes(c))

-----------------------------------------------------------------------------
(* Properties *)

\* Every variable has its type, and the readers the mutex counts are the clients
\* inside a method that has read-locked it.
TypeOK ==
    /\ created \in 0..MaxRules
    /\ DOMAIN rules \subseteq 1..created
    /\ \A r \in DOMAIN rules : rules[r] \in Rule
    /\ alerts \in Seq(Alert) /\ Len(alerts) <= MaxAlerts
    /\ notified \subseteq AlertIds
    /\ pc \in [Clients -> {"idle", "read", "write", "held", "eval", "fire"}]
    /\ readers = {c \in Clients : pc[c] \in {"held", "eval", "fire"}}
    /\ todo \in [Clients -> SUBSET RuleIds]
    /\ metrics \in [Clients -> Metrics \cup {Zero}]

\* GetActiveAlertCount counts by Status what ListAlerts filters by State, and
\* three methods set the two fields apart: whatever their order, an active alert
\* is still firing, and one with status resolved is in state resolved.
AlertsAreCoherent ==
    \A a \in DOMAIN alerts :
       /\ alerts[a].status = "active" => alerts[a].state = "firing"
       /\ alerts[a].status = "resolved" => alerts[a].state = "resolved"

\* EvaluateRules looks at one set of rules: no rule comes, goes or changes while
\* an evaluation runs, and the rules it has still to look at exist.
EvaluationSeesOneRuleSet ==
    /\ [](\A c \in Clients : pc[c] = "eval" => todo[c] \subseteq DOMAIN rules)
    /\ [][(\E c \in Clients : pc[c] = "eval") => rules' = rules]_vars

\* Every call of the service returns, unless an evaluation has come to fire an
\* alert: nothing else that clients do, in any order, blocks them.
CallsReturn ==
    \A c \in Clients :
       pc[c] # "idle" ~> pc[c] = "idle" \/ \E d \in Clients : pc[d] = "fire"

\* "实时告警评估" (CHANGELOG.md:57): an evaluation that finds a violated rule
\* goes on to fire its alert.
ViolationRaisesAlert == \A c \in Clients : pc[c] = "fire" ~> alerts # <<>>
=============================================================================
