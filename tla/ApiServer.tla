------------------------------ MODULE ApiServer ------------------------------
(***************************************************************************)
(* The API server's process (cmd/api-server), its handlers (internal/api)  *)
(* and the data services behind them (internal/service), as they write     *)
(* nodes, jobs, offers, orders, alerts and users.                          *)
(*                                                                         *)
(* A handler runs one SQL statement and answers.  Whatever can come        *)
(* between the two is here: the client hangs up and its request's context  *)
(* is done, the database goes away before the statement or just after it   *)
(* committed, the server drains, gives up draining or is killed.  Clients  *)
(* repeat what was not answered by calling again.                          *)
(*                                                                         *)
(* Of a record only its existence, its id and its status are kept.  The    *)
(* handlers of PUT hand the client's whole body to Updates, so that it can *)
(* set the columns id and deleted_at as well as the status.  Methods that  *)
(* only read change nothing and are left out.                              *)
(* A definition X_Y is the mutation Y of X, used by no specification.      *)
(***************************************************************************)
EXTENDS Integers, Sequences

CONSTANTS Clients,
          Ids,         \* ids of records, of whatever kind
          Statuses,    \* the statuses clients set with PUT
          NoId         \* the id of a record whose client leaves it to the server,
                       \* and of a PUT that does not set the id

Kinds == {"node", "job", "offer", "order", "alert", "user"}

ASSUME ApiAssumption == NoId \notin Ids

VARIABLES
  rows,       \* the tables: per id, the kind of record it is used for, and the record
  database,   \* the database answers
  server,     \* the process: "down", "serving", "draining" (srv.Shutdown)
  connected,  \* main's db is not nil
  call,       \* per client: its request, and then what its handler will answer
  records     \* history: the records inserted, in order: the id each was created with,
              \* the clients that were answered 201 for it, and whether a PUT ever
              \* gave it another id

process == <<server, connected>>
vars    == <<rows, database, process, call, records>>

\* The status a record is created with; an alert's is its default.
CreateStatus ==
    [k \in Kinds |-> IF k \in {"offer", "alert", "user"} THEN "active" ELSE "pending"]

Row == [kind : Kinds, life : {"none", "live", "deleted"},
        status : Statuses \cup {"pending", "active", "online", "cancelled", "deleted"},
        record : Nat]

Record == [id : Ids, answers : Nat, moved : BOOLEAN]

\* An id that is not in use; its row's record, 0, is none.
Unused(k) == [kind |-> k, life |-> "none", status |-> "pending", record |-> 0]

\* The routes that write, by kind of record.
Routes == [k \in Kinds |->
    CASE k = "node"  -> {"create", "update", "delete", "heartbeat"}
      [] k = "job"   -> {"create", "update", "delete", "stop"}
      [] k = "offer" -> {"create", "withdraw"}
      [] k = "alert" -> {"create", "update"}
      [] OTHER       -> {"create"}]

Ops == {"create", "update", "delete", "heartbeat", "stop", "withdraw"}

\* A request that is handled, with what its body sets, and the answers: 201 for a
\* record, and any other.
Body       == [status : Statuses, id : Ids \cup {NoId}, deleted : BOOLEAN]
Request    == [phase : {"handling"}, op : Ops, kind : Kinds, id : Ids \cup {NoId}, body : Body]
NoCall     == [phase |-> "idle"]
Created(r) == [phase |-> "created", record |-> r]
Answered   == [phase |-> "answered"]

Init ==
    /\ rows \in [Ids -> {Unused(k) : k \in Kinds}]
    /\ database = TRUE
    /\ server = "down"
    /\ connected = FALSE
    /\ call = [c \in Clients |-> NoCall]
    /\ records = <<>>

-----------------------------------------------------------------------------
(* Requests *)

\* A request whose route and id fit; a create may leave the id to the server.  A
\* user's id is the email address, of which there is one user at most.  Only PUT
\* sets the id or deleted_at, and an id that is used for another kind of record is
\* none of this table.
Send(c, op, k, i, body) ==
    /\ call[c].phase = "idle"
    /\ server = "serving"
    /\ op \in Routes[k]
    /\ IF i = NoId THEN op = "create" /\ k # "user" ELSE rows[i].kind = k
    /\ op # "update" => body.id = NoId /\ ~body.deleted
    /\ body.id # NoId => rows[body.id].kind = k
    /\ call' = [call EXCEPT ![c] = [phase |-> "handling", op |-> op, kind |-> k, id |-> i,
                                    body |-> body]]
    /\ UNCHANGED <<rows, database, process, records>>

Handling(c, op) == call[c].phase = "handling" /\ call[c].op = op

Becomes(c, answer) == call' = [call EXCEPT ![c] = answer]

\* 401, a body that does not bind, or a statement the database refuses.
Reject(c) ==
    /\ call[c].phase = "handling"
    /\ Becomes(c, Answered)
    /\ UNCHANGED <<rows, database, process, records>>

\* Without a database, WithContext panics on the nil *gorm.DB; gin.Recovery
\* answers 500.
Panic(c) ==
    /\ call[c].phase = "handling"
    /\ ~connected
    /\ Becomes(c, Answered)
    /\ UNCHANGED <<rows, database, process, records>>

\* A statement that fails because the database is away.
StatementFails(c) ==
    /\ call[c].phase = "handling"
    /\ connected /\ ~database
    /\ Becomes(c, Answered)
    /\ UNCHANGED <<rows, database, process, records>>

\* A statement commits, and the handler learns so unless the database goes away
\* just then.
Commit(c, answer) ==
    /\ connected /\ database
    /\ \/ Becomes(c, answer) /\ UNCHANGED database
       \/ Becomes(c, Answered) /\ database' = FALSE
    /\ UNCHANGED process

-----------------------------------------------------------------------------
(* The statements *)

\* An update or a deletion sees the rows that are not deleted.
Live_Unscoped(i) == rows[i].life # "none"
Live(i) == rows[i].life = "live"

Insert(i) ==
    /\ rows' = [rows EXCEPT ![i] = [kind |-> rows[i].kind, life |-> "live",
                                    status |-> CreateStatus[rows[i].kind],
                                    record |-> Len(records) + 1]]
    /\ records' = Append(records, [id |-> i, answers |-> 0, moved |-> FALSE])

\* No row has the id as its primary key, deleted rows included.
FreeKey_Upsert(i) == TRUE
FreeKey(i) == rows[i].life = "none"

\* Create with the client's id.
Create(c) ==
    /\ Handling(c, "create") /\ call[c].id # NoId
    /\ FreeKey(call[c].id)
    /\ Insert(call[c].id)
    /\ Commit(c, Created(Len(records) + 1))

\* The primary key is taken.
CreateRefused(c) ==
    /\ Handling(c, "create") /\ call[c].id # NoId
    /\ connected /\ database
    /\ ~FreeKey(call[c].id)
    /\ Becomes(c, Answered)
    /\ UNCHANGED <<rows, database, process, records>>

\* Create with an id from BeforeCreate: nobody uses it or has heard of it.
CreateUnnamed(c, i) ==
    /\ Handling(c, "create") /\ call[c].id = NoId /\ call[c].kind = rows[i].kind
    /\ rows[i].life = "none"
    /\ \A d \in Clients : call[d].phase = "handling" => call[d].id # i /\ call[d].body.id # i
    /\ Insert(i)
    /\ Commit(c, Created(Len(records) + 1))

\* UPDATE ... SET status = s: no row, no effect, and no error either.
SetStatus(c, s) ==
    /\ rows' = IF Live(call[c].id) THEN [rows EXCEPT ![call[c].id].status = s] ELSE rows
    /\ UNCHANGED records
    /\ Commit(c, Answered)

Stop(c)        == Handling(c, "stop") /\ SetStatus(c, "cancelled")
Heartbeat(c)   == Handling(c, "heartbeat") /\ SetStatus(c, "online")
DeleteOffer(c) == Handling(c, "withdraw") /\ SetStatus(c, "deleted")

\* The id the record of a PUT has afterwards.
NewId(c) == IF call[c].body.id = NoId THEN call[c].id ELSE call[c].body.id

\* The record moves to the id that is set, and may be deleted on the way.
Update(c) ==
    /\ Handling(c, "update")
    /\ Live(call[c].id)
    /\ NewId(c) = call[c].id \/ FreeKey(NewId(c))
    /\ LET row == rows[call[c].id] IN
       /\ rows' = [rows EXCEPT
             ![call[c].id] = Unused(row.kind),
             ![NewId(c)] = [row EXCEPT !.status = call[c].body.status,
                              !.life = IF call[c].body.deleted THEN "deleted" ELSE "live"]]
       /\ records' = IF NewId(c) = call[c].id THEN records
                     ELSE [records EXCEPT ![row.record].moved = TRUE]
    /\ Commit(c, Answered)

\* There is no row to update, which is no error, or its new key is taken.
UpdateNothing(c) ==
    /\ Handling(c, "update")
    /\ ~Live(call[c].id) \/ (NewId(c) # call[c].id /\ ~FreeKey(NewId(c)))
    /\ connected /\ database
    /\ Becomes(c, Answered)
    /\ UNCHANGED <<rows, database, process, records>>

\* A soft deletion: the row stays and keeps its key.
Delete(c) ==
    /\ Handling(c, "delete")
    /\ rows' = IF Live(call[c].id) THEN [rows EXCEPT ![call[c].id].life = "deleted"] ELSE rows
    /\ UNCHANGED records
    /\ Commit(c, Answered)

Statement(c) ==
    \/ Create(c) \/ CreateRefused(c) \/ \E i \in Ids : CreateUnnamed(c, i)
    \/ Update(c) \/ UpdateNothing(c) \/ Stop(c) \/ Heartbeat(c) \/ DeleteOffer(c) \/ Delete(c)

-----------------------------------------------------------------------------
(* Answers *)

\* The client has the answer; 201 for what it created.
Answer(c) ==
    /\ call[c].phase \in {"created", "answered"}
    /\ call' = [call EXCEPT ![c] = NoCall]
    /\ records' = IF call[c].phase = "created"
                  THEN [records EXCEPT ![call[c].record].answers = @ + 1] ELSE records
    /\ UNCHANGED <<rows, database, process>>

\* The client hangs up: no statement is run after that, and no answer arrives.
HangUp(c) ==
    /\ call[c].phase # "idle"
    /\ call' = [call EXCEPT ![c] = NoCall]
    /\ UNCHANGED <<rows, database, process, records>>

-----------------------------------------------------------------------------
(* The process and the database *)

\* gorm.Open pings the database; without it the server goes on with db = nil.
Start ==
    /\ server = "down"
    /\ server' = "serving"
    /\ connected' = database
    /\ UNCHANGED <<rows, database, call, records>>

\* A signal: srv.Shutdown takes no new connections.
Signal ==
    /\ server = "serving"
    /\ server' = "draining"
    /\ UNCHANGED <<rows, database, connected, call, records>>

\* The process ends, and the requests it had with it.
Gone ==
    /\ server' = "down"
    /\ connected' = FALSE
    /\ call' = [c \in Clients |-> NoCall]
    /\ UNCHANGED <<rows, database, records>>

\* Shutdown returns when no request is left, or after 30 seconds.
Exit == server = "draining" /\ Gone

Kill == server = "serving" /\ Gone

DatabaseDown ==
    /\ database
    /\ database' = FALSE
    /\ UNCHANGED <<rows, process, call, records>>

DatabaseUp ==
    /\ ~database
    /\ database' = TRUE
    /\ UNCHANGED <<rows, process, call, records>>

Next ==
    \/ \E c \in Clients :
          \/ \E j \in Ids, op \in Ops, i \in Ids \cup {NoId}, body \in Body :
                Send(c, op, rows[j].kind, i, body)
          \/ Reject(c) \/ Panic(c) \/ StatementFails(c) \/ Statement(c)
          \/ Answer(c) \/ HangUp(c)
    \/ Start \/ Signal \/ Exit \/ Kill
    \/ DatabaseDown \/ DatabaseUp

Spec == Init /\ [][Next]_vars

\* The server is started again when it is down, handlers run, and the database
\* comes back.  Nobody has to call, and nothing has to fail.
Fairness ==
    /\ WF_vars(Start) /\ WF_vars(Exit) /\ WF_vars(DatabaseUp)
    /\ \A c \in Clients : WF_vars(Panic(c) \/ StatementFails(c) \/ Statement(c) \/ Answer(c))

FairSpec == Spec /\ Fairness

-----------------------------------------------------------------------------
(* Properties *)

\* Every variable has its type; a request has ids of records of its kind only,
\* and requests are served only while there is a server.
TypeOK ==
    /\ rows \in [Ids -> Row]
    /\ database \in BOOLEAN
    /\ server \in {"down", "serving", "draining"}
    /\ connected \in BOOLEAN
    /\ call \in [Clients -> Request \cup {NoCall, Answered} \cup {Created(r) : r \in DOMAIN records}]
    /\ \A c \in Clients :
          /\ call[c] # NoCall => server # "down"
          /\ call[c] \in Request =>
                /\ call[c].op \in Routes[call[c].kind]
                /\ IF call[c].id = NoId THEN call[c].op = "create" /\ call[c].kind # "user"
                   ELSE rows[call[c].id].kind = call[c].kind
                /\ call[c].op # "update" => call[c].body.id = NoId
                /\ call[c].body.id # NoId => rows[call[c].body.id].kind = call[c].kind
    /\ records \in Seq(Record)

RowsOf(r) == {i \in Ids : rows[i].life # "none" /\ rows[i].record = r}

\* What a client was told is created exists, once, and was created for it alone:
\* whatever clients submit and update at once, or again after an answer was lost, or
\* after a record was deleted, and whatever fails, one client at most is answered
\* 201 for a record, and the record is in the table, under the id it was created
\* with unless a PUT gave it another.  So of all the clients that submit under one id
\* a second one is answered 201 only when a PUT has moved the first one's record.
AcknowledgedIsStored ==
    \A r \in DOMAIN records :
       /\ records[r].answers <= 1
       /\ records[r].answers = 1 =>
             \E i \in Ids : RowsOf(r) = {i} /\ (i = records[r].id \/ records[r].moved)

\* A deleted node or job stays as it was when it was deleted, and a withdrawn
\* offer stays withdrawn, whatever heartbeats, updates and repeated submissions
\* are still under way.
DeletedStaysDeleted ==
    [][\A i \in Ids :
          (rows[i].life = "deleted" \/ (rows[i].kind = "offer" /\ rows[i].status = "deleted"))
             => rows'[i] = rows[i]]_vars

\* {"status": "healthy"} (cmd/api-server/main.go:70): a server that says so while
\* the database is up gets to use it, unless one of them goes down.
HealthyServerConnects ==
    (server = "serving" /\ database) ~> (connected \/ ~database \/ server # "serving")
=============================================================================
