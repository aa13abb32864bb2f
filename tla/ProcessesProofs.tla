--------------------------- MODULE ProcessesProofs ---------------------------
(***************************************************************************)
(* Proofs about Processes, for any clients, ids and pod events and however *)
(* often the database and the server go down.                              *)
(*                                                                         *)
(* AInv follows every record from its insertion on: one row has it,        *)
(* whether or not anyone was told, and under its own id unless a PUT moved *)
(* it; and one answer 201 at most is given for it or on its way.           *)
(*                                                                         *)
(* The agent's status is true because of where main is when it sets it:    *)
(* Phases says what holds of the status and the goroutines at each point   *)
(* of main, and the type invariant what holds of the stream at each point  *)
(* of the watch loop.  Each process keeps its own invariant, and the       *)
(* other's with it.                                                        *)
(***************************************************************************)
EXTENDS Processes, SequenceTheorems, TLAPS

-----------------------------------------------------------------------------
(* The API server *)

Answers == {NoCall, Answered} \cup {Created(r) : r \in DOMAIN records}
Calls   == Request \cup Answers

\* An id that is not in use is as it was in the beginning.
Untouched == \A i \in Ids : rows[i].life = "none" => rows[i].status = "pending"

\* A row that is in use has a record.
Recorded == \A i \in Ids : rows[i].life # "none" => rows[i].record \in DOMAIN records

\* Row i has record r, no other row has, and a PUT moved it if its id is another.
Holds(r, i) ==
    /\ rows[i].life # "none" /\ rows[i].record = r
    /\ \A j \in Ids : rows[j].life # "none" /\ rows[j].record = r => j = i
    /\ i = records[r].id \/ records[r].moved

Kept == \A r \in DOMAIN records : \E i \in Ids : Holds(r, i)

AnsweredOnce == \A r \in DOMAIN records : records[r].answers <= 1

\* An answer 201 on its way is the first and the only one for its record.
OnTheWay ==
    \A c \in Clients : call[c].phase = "created" =>
        /\ records[call[c].record].answers = 0
        /\ \A d \in Clients : call[d].phase = "created" /\ call[d].record = call[c].record
                                 => d = c

AInv == TypeOK /\ Untouched /\ Recorded /\ Kept /\ AnsweredOnce /\ OnTheWay

\* The records are numbered from 1.
LEMMA RecordFacts ==
  ASSUME TypeOK
  PROVE  /\ records \in Seq(Record) /\ Len(records) \in Nat
         /\ DOMAIN records = 1..Len(records)
         /\ \A r \in DOMAIN records : records[r] \in Record
  BY LenProperties, ElementOfSeq DEF TypeOK

\* What the type invariant says of a call.
LEMMA CallFacts ==
  ASSUME NEW x \in Calls
  PROVE  /\ x.phase \in {"idle", "handling", "created", "answered"}
         /\ x.phase = "handling" => x \in Request
         /\ x.phase = "created" => x.record \in DOMAIN records
         /\ x \in Request => x.phase = "handling"
         /\ x.phase # "idle" => x # NoCall
         /\ x # NoCall => x.phase # "idle"
  BY DEF Calls, Answers, Request, NoCall, Answered, Created

\* A request that names a record names one of its kind; only a create names none,
\* and only an update sets an id.
LEMMA RequestFacts ==
  ASSUME TypeOK, NEW c \in Clients, call[c].phase = "handling"
  PROVE  /\ call[c] \in Request
         /\ call[c].op \in Routes[call[c].kind] /\ call[c].kind \in Kinds
         /\ call[c].op # "create" => call[c].id \in Ids
         /\ call[c].id # NoId => call[c].id \in Ids /\ rows[call[c].id].kind = call[c].kind
         /\ call[c].body \in Body
         /\ call[c].body.id # NoId =>
               call[c].body.id \in Ids /\ rows[call[c].body.id].kind = call[c].kind
  <1>1. call[c] \in Request
    BY CallFacts DEF TypeOK, Calls, Answers
  <1> QED BY <1>1 DEF TypeOK, Request, Body

LEMMA AInit == ASSUME Init PROVE AInv
  <1>1. records \in Seq(Record) /\ DOMAIN records = {}
    BY EmptySeq DEF Init
  <1>2. TypeOK
    <2>1. rows \in [Ids -> Row]
      BY DEF Init, Row, Unused
    <2>2. NoCall \notin Request
      BY DEF NoCall, Request
    <2> QED BY <1>1, <2>1, <2>2 DEF Init, TypeOK
  <1>3. Untouched /\ Recorded /\ Kept /\ AnsweredOnce /\ OnTheWay
    BY <1>1 DEF Init, Untouched, Recorded, Kept, AnsweredOnce, OnTheWay, NoCall, Unused
  <1> QED BY <1>2, <1>3 DEF AInv

-----------------------------------------------------------------------------
(* The parts that most steps disturb *)

\* The client c is answered, or done; the rows keep their kinds.
LEMMA AnswerTypes ==
  ASSUME TypeOK, NEW c \in Clients, NEW a \in Answers',
         call' = [call EXCEPT ![c] = a], call[c].phase # "idle",
         server' = server, connected' \in BOOLEAN, database' \in BOOLEAN,
         rows' \in [Ids -> Row], \A i \in Ids : rows'[i].kind = rows[i].kind,
         records' \in Seq(Record), DOMAIN records \subseteq DOMAIN records'
  PROVE  TypeOK'
  <1>1. call \in [Clients -> Calls] /\ Calls \subseteq Calls'
    BY DEF TypeOK, Calls, Answers
  <1>2. a \notin Request /\ server # "down"
    <2>1. server # "down"
      BY <1>1, CallFacts DEF TypeOK
    <2> QED BY <2>1 DEF Answers, NoCall, Answered, Created, Request
  <1>3. call' \in [Clients -> Calls'] /\ call'[c] = a
        /\ \A d \in Clients : d # c => call'[d] = call[d]
    BY <1>1 DEF Calls
  <1>4. ASSUME NEW d \in Clients
        PROVE  /\ call'[d] # NoCall => server' # "down"
               /\ call'[d] \in Request =>
                    /\ call'[d].op \in Routes[call'[d].kind]
                    /\ IF call'[d].id = NoId
                       THEN call'[d].op = "create" /\ call'[d].kind # "user"
                       ELSE rows'[call'[d].id].kind = call'[d].kind
                    /\ call'[d].op # "update" => call'[d].body.id = NoId
                    /\ call'[d].body.id # NoId =>
                          rows'[call'[d].body.id].kind = call'[d].kind
    <2>1. CASE d = c
      BY <2>1, <1>2, <1>3
    <2>2. CASE d # c
      <3>1. call'[d] = call[d]
        BY <1>3, <2>2
      <3>2. call[d] \in Request => call[d].id \in Ids \cup {NoId} /\ call[d].body \in Body
        BY DEF Request
      <3>3. call[d] \in Request => call[d].body.id \in Ids \cup {NoId}
        BY <3>2 DEF Body
      <3> QED BY <3>1, <3>2, <3>3, <1>2 DEF TypeOK
    <2> QED BY <2>1, <2>2
  <1> QED BY <1>3, <1>4 DEF TypeOK, Calls, Answers

\* No answer 201 comes up, and none is given.
LEMMA AnswersKept ==
  ASSUME AInv, NEW c \in Clients, NEW a \in {NoCall, Answered},
         call' = [call EXCEPT ![c] = a],
         DOMAIN records' = DOMAIN records,
         \A r \in DOMAIN records : records'[r].answers = records[r].answers
  PROVE  AnsweredOnce' /\ OnTheWay'
  <1>1. call \in [Clients -> Calls]
    BY DEF AInv, TypeOK, Calls, Answers
  <1>2. \A d \in Clients : call'[d].phase = "created" =>
           /\ d # c /\ call'[d] = call[d] /\ call[d].record \in DOMAIN records
    BY <1>1, CallFacts DEF NoCall, Answered
  <1> QED BY <1>2 DEF AInv, AnsweredOnce, OnTheWay

\* The rows in use and their records stay.
LEMMA RecordsKept ==
  ASSUME AInv, records' = records,
         \A i \in Ids : /\ rows'[i].record = rows[i].record
                        /\ rows[i].life = "none" <=> rows'[i].life = "none"
  PROVE  Recorded' /\ Kept'
  <1>1. \A r \in DOMAIN records, i \in Ids : Holds(r, i) => Holds(r, i)'
    BY DEF Holds
  <1> QED BY <1>1 DEF AInv, Recorded, Kept

\* Rows may change, but none comes or goes, and the client c has no answer 201.
LEMMA QuietStep ==
  ASSUME AInv, NEW c \in Clients, NEW a \in {NoCall, Answered}, call[c].phase # "idle",
         call' = [call EXCEPT ![c] = a], records' = records, server' = server,
         connected' \in BOOLEAN, database' \in BOOLEAN, rows' \in [Ids -> Row],
         \A i \in Ids : /\ rows'[i].kind = rows[i].kind /\ rows'[i].record = rows[i].record
                        /\ rows[i].life = "none" <=> rows'[i].life = "none"
                        /\ rows[i].life = "none" => rows'[i].status = rows[i].status
  PROVE  AInv'
  <1>1. TypeOK'
    <2>1. a \in Answers' /\ records' \in Seq(Record)
      BY DEF Answers, AInv, TypeOK
    <2> QED BY <2>1, AnswerTypes DEF AInv
  <1>2. Untouched'
    BY DEF AInv, Untouched
  <1> QED BY <1>1, <1>2, AnswersKept, RecordsKept DEF AInv

\* A statement that stores record i for the client c.
LEMMA InsertStep ==
  ASSUME AInv, NEW c \in Clients, NEW i \in Ids, call[c].phase = "handling",
         rows[i].life = "none", Insert(i), Commit(c, Created(Len(records) + 1))
  PROVE  AInv'
  <1> DEFINE new == [id |-> i, answers |-> 0, moved |-> FALSE]
  <1>0. PICK n : n = Len(records) + 1
    OBVIOUS
  <1>1. PICK a \in {Created(n), Answered} : call' = [call EXCEPT ![c] = a]
    BY <1>0 DEF Commit, Becomes
  <1>2. database' \in BOOLEAN /\ server' = server /\ connected' = connected
    BY DEF Commit, process, AInv, TypeOK
  <1>3. /\ rows' \in [Ids -> Row] /\ rows'[i].life = "live" /\ rows'[i].record = n
        /\ \A j \in Ids : rows'[j].kind = rows[j].kind /\ (j # i => rows'[j] = rows[j])
    <2>1. CreateStatus[rows[i].kind] \in {"pending", "active"} /\ n \in Nat
      BY <1>0, RecordFacts DEF CreateStatus, AInv, TypeOK, Row
    <2> QED BY <1>0, <2>1 DEF Insert, Row, AInv, TypeOK
  <1>4. /\ records' \in Seq(Record) /\ DOMAIN records' = 1..n
        /\ DOMAIN records = 1..(n - 1) /\ n \in Nat \ {0}
        /\ records'[n] = new /\ \A r \in DOMAIN records : records'[r] = records[r]
    <2>1. new \in Record /\ records' = Append(records, new)
      BY DEF Record, Insert
    <2> QED BY <1>0, <2>1, RecordFacts, LenProperties, AppendProperties DEF AInv
  <1>5. a \in Answers' /\ a.phase \in {"created", "answered"}
        /\ (a.phase = "created" => a.record = n)
    BY <1>1, <1>4 DEF Answers, Created, Answered
  <1>6. TypeOK'
    <2>1. /\ DOMAIN records \subseteq DOMAIN records' /\ connected' \in BOOLEAN
          /\ \A j \in Ids : rows'[j].kind = rows[j].kind
      BY <1>2, <1>3, <1>4 DEF AInv, TypeOK
    <2> QED BY <2>1, <1>1, <1>2, <1>3, <1>4, <1>5, AnswerTypes DEF AInv
  <1>7. Untouched' /\ Recorded' /\ AnsweredOnce'
    <2>1. \A r \in DOMAIN records' : r = n \/ r \in DOMAIN records
      BY <1>4
    <2>2. n \in DOMAIN records' /\ DOMAIN records \subseteq DOMAIN records'
      BY <1>4
    <2> QED BY <2>1, <2>2, <1>3, <1>4 DEF AInv, Untouched, Recorded, AnsweredOnce
  <1>8. Kept'
    <2>1. ASSUME NEW r \in DOMAIN records, NEW j \in Ids, Holds(r, j) PROVE Holds(r, j)'
      BY <2>1, <1>3, <1>4 DEF Holds
    <2>2. Holds(n, i)'
      BY <1>3, <1>4 DEF Holds, AInv, Recorded
    <2>3. \A r \in DOMAIN records' : r = n \/ r \in DOMAIN records
      BY <1>4
    <2> QED BY <2>1, <2>2, <2>3 DEF AInv, Kept
  <1>9. OnTheWay'
    <2>1. call \in [Clients -> Calls]
      BY DEF AInv, TypeOK, Calls, Answers
    <2>2. \A d \in Clients : d # c /\ call'[d].phase = "created" =>
             /\ call'[d] = call[d] /\ call[d].record \in DOMAIN records
             /\ call[d].record # n
      BY <2>1, <1>1, <1>4, CallFacts
    <2>3. call'[c].phase = "created" => call'[c].record = n
      BY <2>1, <1>1, <1>5
    <2> QED BY <2>2, <2>3, <1>4 DEF AInv, OnTheWay
  <1> QED BY <1>6, <1>7, <1>8, <1>9 DEF AInv

-----------------------------------------------------------------------------
(* The actions *)

\* What the statements on a stored record do to it.
LEMMA StatusStep ==
  ASSUME AInv, NEW c \in Clients, call[c].phase = "handling", call[c].id \in Ids,
         NEW s \in {"online", "cancelled", "deleted"}, SetStatus(c, s)
  PROVE  AInv'
  <1>1. rows \in [Ids -> Row] /\ database \in BOOLEAN
    BY DEF AInv, TypeOK
  <1>2. /\ rows' \in [Ids -> Row]
        /\ \A i \in Ids : /\ rows'[i].kind = rows[i].kind /\ rows'[i].record = rows[i].record
                          /\ rows[i].life = "none" <=> rows'[i].life = "none"
                          /\ rows[i].life = "none" => rows'[i].status = rows[i].status
    <2>1. CASE Live(call[c].id)
      BY <1>1, <2>1 DEF SetStatus, Live, Row
    <2>2. CASE ~Live(call[c].id)
      BY <1>1, <2>2 DEF SetStatus
    <2> QED BY <2>1, <2>2
  <1>3. call' = [call EXCEPT ![c] = Answered] /\ database' \in BOOLEAN
        /\ records' = records /\ server' = server /\ connected' \in BOOLEAN
    BY <1>1 DEF SetStatus, Commit, Becomes, process, AInv, TypeOK
  <1> QED BY <1>2, <1>3, QuietStep

LEMMA DeleteStep ==
  ASSUME AInv, NEW c \in Clients, call[c].id \in Ids, Delete(c)
  PROVE  AInv'
  <1>1. rows \in [Ids -> Row] /\ database \in BOOLEAN
    BY DEF AInv, TypeOK
  <1>2. /\ rows' \in [Ids -> Row]
        /\ \A i \in Ids : /\ rows'[i].kind = rows[i].kind /\ rows'[i].record = rows[i].record
                          /\ rows[i].life = "none" <=> rows'[i].life = "none"
                          /\ rows[i].life = "none" => rows'[i].status = rows[i].status
    <2>1. CASE Live(call[c].id)
      BY <1>1, <2>1 DEF Delete, Live, Row
    <2>2. CASE ~Live(call[c].id)
      BY <1>1, <2>2 DEF Delete
    <2> QED BY <2>1, <2>2
  <1>3. call' = [call EXCEPT ![c] = Answered] /\ database' \in BOOLEAN
        /\ records' = records /\ server' = server /\ connected' \in BOOLEAN
    BY <1>1 DEF Delete, Commit, Becomes, process, AInv, TypeOK
  <1> QED BY <1>2, <1>3, QuietStep DEF Delete, Handling

\* Where an update leaves the rows: the row at i, with another status, is at j, which
\* is i or was free, and i is free if it is not j.
LEMMA UpdatedRows ==
  ASSUME AInv, NEW c \in Clients, Update(c)
  PROVE  LET i == call[c].id  j == NewId(c) IN
         /\ i \in Ids /\ j \in Ids /\ rows[i].life = "live"
         /\ rows[j].kind = rows[i].kind /\ (j # i => rows[j].life = "none")
         /\ rows' \in [Ids -> Row]
         /\ rows'[j].kind = rows[i].kind /\ rows'[j].life # "none"
         /\ rows'[j].record = rows[i].record
         /\ i # j => rows'[i] = Unused(rows[i].kind)
         /\ \A k \in Ids \ {i, j} : rows'[k] = rows[k]
  <1> DEFINE i   == call[c].id
             j   == NewId(c)
             row == rows[i]
             new == [row EXCEPT !.status = call[c].body.status,
                                !.life = IF call[c].body.deleted THEN "deleted" ELSE "live"]
  <1>1. /\ call[c].phase = "handling" /\ call[c].op = "update"
        /\ Live(i) /\ (j = i \/ FreeKey(j))
        /\ rows' = [rows EXCEPT ![i] = Unused(row.kind), ![j] = new]
    BY DEF Update, Handling
  <1>2. /\ i \in Ids /\ i # NoId /\ rows[i].kind = call[c].kind
        /\ call[c].body.status \in Statuses /\ call[c].body.deleted \in BOOLEAN
    BY <1>1, RequestFacts, ApiAssumption DEF AInv, Body
  <1>3. j \in Ids /\ rows[j].kind = rows[i].kind
    BY <1>1, <1>2, RequestFacts DEF AInv, NewId
  <1>4. rows \in [Ids -> Row] /\ row \in Row
    BY <1>2 DEF AInv, TypeOK
  <1>5. /\ new \in Row /\ new.kind = row.kind /\ new.record = row.record
        /\ new.life # "none"
    BY <1>2, <1>4 DEF Row
  <1>6. Unused(row.kind) \in Row
    BY <1>4 DEF Row, Unused
  <1> HIDE DEF new, j
  <1>7. /\ rows' \in [Ids -> Row] /\ rows'[j] = new
        /\ i # j => rows'[i] = Unused(row.kind)
        /\ \A k \in Ids \ {i, j} : rows'[k] = rows[k]
    BY <1>1, <1>2, <1>3, <1>4, <1>5, <1>6
  <1> QED BY <1>1, <1>2, <1>3, <1>5, <1>7 DEF Live, FreeKey, j

\* The records after an update: the one that moves is marked.
LEMMA UpdatedRecords ==
  ASSUME AInv, NEW c \in Clients, Update(c)
  PROVE  LET r == rows[call[c].id].record IN
         /\ r \in DOMAIN records
         /\ records' \in Seq(Record) /\ DOMAIN records' = DOMAIN records
         /\ \A q \in DOMAIN records :
               /\ records'[q].answers = records[q].answers /\ records'[q].id = records[q].id
               /\ q # r \/ NewId(c) = call[c].id => records'[q].moved = records[q].moved
         /\ NewId(c) # call[c].id => records'[r].moved
  <1> DEFINE r   == rows[call[c].id].record
             new == [records[r] EXCEPT !.moved = TRUE]
  <1>1. r \in DOMAIN records
    BY UpdatedRows DEF AInv, Recorded
  <1>2. CASE NewId(c) = call[c].id
    BY <1>1, <1>2 DEF Update, AInv, TypeOK
  <1>3. CASE NewId(c) # call[c].id
    <2>1. records' = [records EXCEPT ![r] = new]
      BY <1>3 DEF Update
    <2>2. records[r] \in Record /\ r \in 1..Len(records)
      BY <1>1, RecordFacts DEF AInv
    <2>3. /\ new \in Record /\ new.moved /\ new.answers = records[r].answers
          /\ new.id = records[r].id
      BY <2>2 DEF Record
    <2> HIDE DEF new, r
    <2>4. /\ records' \in Seq(Record) /\ DOMAIN records' = DOMAIN records
          /\ \A q \in DOMAIN records : records'[q] = IF q = r THEN new ELSE records[q]
      BY <2>1, <2>2, <2>3, RecordFacts, ExceptSeq, LenProperties DEF AInv
    <2>5. records'[r].moved
      BY <1>1, <2>3, <2>4 DEF r
    <2> QED BY <1>1, <1>3, <2>3, <2>4, <2>5 DEF r
  <1> QED BY <1>2, <1>3

LEMMA UpdateStep ==
  ASSUME AInv, NEW c \in Clients, Update(c)
  PROVE  AInv'
  <1>0. PICK i, j, n : i = call[c].id /\ j = NewId(c) /\ n = rows[i].record
    OBVIOUS
  <1>1. /\ i \in Ids /\ j \in Ids /\ rows[i].life = "live"
        /\ rows[j].kind = rows[i].kind /\ (j # i => rows[j].life = "none")
        /\ rows' \in [Ids -> Row]
        /\ rows'[j].kind = rows[i].kind /\ rows'[j].life # "none" /\ rows'[j].record = n
        /\ i # j => rows'[i] = Unused(rows[i].kind)
        /\ \A k \in Ids \ {i, j} : rows'[k] = rows[k]
    BY <1>0, UpdatedRows
  <1>2. /\ n \in DOMAIN records
        /\ records' \in Seq(Record) /\ DOMAIN records' = DOMAIN records
        /\ \A q \in DOMAIN records :
              /\ records'[q].answers = records[q].answers /\ records'[q].id = records[q].id
              /\ q # n \/ j = i => records'[q].moved = records[q].moved
        /\ j # i => records'[n].moved
    BY <1>0, UpdatedRecords
  <1>3. /\ call' = [call EXCEPT ![c] = Answered] /\ call[c].phase = "handling"
        /\ database' \in BOOLEAN /\ server' = server /\ connected' \in BOOLEAN
    BY DEF Update, Handling, Commit, Becomes, process, AInv, TypeOK
  <1>4. \A k \in Ids : rows'[k].kind = rows[k].kind
    BY <1>1 DEF Unused
  <1>5. TypeOK'
    <2>1. Answered \in Answers'
      BY DEF Answers
    <2> QED BY <2>1, <1>1, <1>2, <1>3, <1>4, AnswerTypes DEF AInv
  <1>6. Untouched' /\ Recorded'
    BY <1>1, <1>2 DEF AInv, Untouched, Recorded, Unused
  <1>7. Kept'
    <2>1. Holds(n, i)
      BY <1>0, <1>1, <1>2 DEF AInv, Kept, Holds
    <2>2. Holds(n, j)'
      <3>1. \A k \in Ids : rows'[k].life # "none" /\ rows'[k].record = n => k = j
        BY <1>1, <2>1 DEF Holds, Unused
      <3>2. j = records'[n].id \/ records'[n].moved
        BY <1>2, <2>1 DEF Holds
      <3> QED BY <3>1, <3>2, <1>1 DEF Holds
    <2>3. ASSUME NEW r \in DOMAIN records, r # n, NEW k \in Ids, Holds(r, k)
          PROVE  Holds(r, k)'
      <3>1. k \notin {i, j} /\ rows'[k] = rows[k]
        BY <1>0, <1>1, <2>3 DEF Holds
      <3>2. \A l \in Ids : rows'[l].life # "none" /\ rows'[l].record = r => l = k
        BY <1>1, <2>3 DEF Holds, Unused
      <3> QED BY <3>1, <3>2, <1>2, <2>3 DEF Holds
    <2> QED BY <1>1, <1>2, <2>2, <2>3 DEF AInv, Kept
  <1> QED BY <1>2, <1>3, <1>5, <1>6, <1>7, AnswersKept DEF AInv

LEMMA StatementStep ==
  ASSUME AInv, NEW c \in Clients, Statement(c)
  PROVE  AInv'
  <1>1. CASE Create(c)
    <2>1. call[c].id \in Ids /\ call[c].phase = "handling"
      BY <1>1, RequestFacts DEF Create, Handling, AInv
    <2> QED BY <1>1, <2>1, InsertStep DEF Create, FreeKey
  <1>2. CASE CreateRefused(c) \/ UpdateNothing(c)
    BY <1>2, QuietStep
    DEF CreateRefused, UpdateNothing, Handling, Becomes, process, AInv, TypeOK
  <1>3. ASSUME NEW i \in Ids, CreateUnnamed(c, i) PROVE AInv'
    BY <1>3, InsertStep DEF CreateUnnamed, Handling
  <1>4. CASE Stop(c) \/ Heartbeat(c) \/ DeleteOffer(c)
    <2>1. call[c].phase = "handling" /\ call[c].op # "create"
      BY <1>4 DEF Stop, Heartbeat, DeleteOffer, Handling
    <2>2. call[c].id \in Ids
      BY <2>1, RequestFacts DEF AInv
    <2> QED BY <1>4, <2>1, <2>2, StatusStep DEF Stop, Heartbeat, DeleteOffer
  <1>5. CASE Delete(c)
    <2>1. call[c].id \in Ids
      BY <1>5, RequestFacts DEF Delete, Handling, AInv
    <2> QED BY <1>5, <2>1, DeleteStep
  <1>6. CASE Update(c)
    BY <1>6, UpdateStep
  <1> QED BY <1>1, <1>2, <1>3, <1>4, <1>5, <1>6 DEF Statement

LEMMA SendStep ==
  ASSUME AInv, NEW c \in Clients, NEW j \in Ids, NEW op \in Ops,
         NEW i \in Ids \cup {NoId}, NEW body \in Body, Send(c, op, rows[j].kind, i, body)
  PROVE  AInv'
  <1> DEFINE r == [phase |-> "handling", op |-> op, kind |-> rows[j].kind, id |-> i,
                   body |-> body]
  <1>1. call \in [Clients -> Calls] /\ rows[j].kind \in Kinds
    BY DEF AInv, TypeOK, Calls, Answers, Row
  <1>2. r \in Request /\ r.phase = "handling"
    BY <1>1 DEF Request
  <1>3. /\ call' \in [Clients -> Calls] /\ call'[c] = r
        /\ \A d \in Clients : d # c => call'[d] = call[d]
    BY <1>1, <1>2 DEF Send, Calls
  <1>4. UNCHANGED <<rows, database, server, connected, records>>
    BY DEF Send, process
  <1>5. TypeOK'
    <2>1. ASSUME NEW d \in Clients
          PROVE  /\ call'[d] # NoCall => server' # "down"
                 /\ call'[d] \in Request =>
                      /\ call'[d].op \in Routes[call'[d].kind]
                      /\ IF call'[d].id = NoId
                         THEN call'[d].op = "create" /\ call'[d].kind # "user"
                         ELSE rows'[call'[d].id].kind = call'[d].kind
                      /\ call'[d].op # "update" => call'[d].body.id = NoId
                      /\ call'[d].body.id # NoId =>
                            rows'[call'[d].body.id].kind = call'[d].kind
      <3>1. CASE d = c
        BY <3>1, <1>3, <1>4 DEF Send
      <3>2. CASE d # c
        BY <3>2, <1>3, <1>4 DEF AInv, TypeOK
      <3> QED BY <3>1, <3>2
    <2> QED BY <1>3, <1>4, <2>1 DEF AInv, TypeOK, Calls, Answers
  <1>6. Untouched' /\ AnsweredOnce'
    BY <1>4 DEF AInv, Untouched, AnsweredOnce
  <1>7. OnTheWay'
    <2>1. \A d \in Clients : call'[d].phase = "created" => d # c /\ call'[d] = call[d]
      BY <1>2, <1>3
    <2> QED BY <2>1, <1>4 DEF AInv, OnTheWay
  <1> QED BY <1>4, <1>5, <1>6, <1>7, RecordsKept DEF AInv

LEMMA AnswerStep ==
  ASSUME AInv, NEW c \in Clients, Answer(c)
  PROVE  AInv'
  <1>1. CASE call[c].phase = "answered"
    BY <1>1, QuietStep DEF Answer, process, AInv, TypeOK
  <1>2. CASE call[c].phase = "created"
    <2> DEFINE r   == call[c].record
               new == [records[r] EXCEPT !.answers = 1]
    <2>1. call \in [Clients -> Calls] /\ r \in DOMAIN records
      BY <1>2, CallFacts DEF AInv, TypeOK, Calls, Answers
    <2>2. /\ records[r].answers = 0
          /\ \A d \in Clients : call[d].phase = "created" /\ d # c => call[d].record # r
      BY <1>2 DEF AInv, OnTheWay
    <2>3. records' = [records EXCEPT ![r] = new]
      BY <1>2, <2>2 DEF Answer
    <2>4. records[r] \in Record /\ r \in 1..Len(records)
      BY <2>1, RecordFacts DEF AInv
    <2>5. /\ new \in Record /\ new.answers = 1 /\ new.id = records[r].id
          /\ new.moved = records[r].moved
      BY <2>4 DEF Record
    <2> HIDE DEF new, r
    <2>6. /\ records' \in Seq(Record) /\ DOMAIN records' = DOMAIN records
          /\ \A q \in DOMAIN records : records'[q] = IF q = r THEN new ELSE records[q]
      BY <2>3, <2>4, <2>5, RecordFacts, ExceptSeq, LenProperties DEF AInv
    <2>7. /\ call' = [call EXCEPT ![c] = NoCall]
          /\ UNCHANGED <<rows, database, server, connected>>
      BY DEF Answer, process
    <2>8. TypeOK'
      <3>1. NoCall \in Answers'
        BY DEF Answers
      <3> QED BY <1>2, <3>1, <2>6, <2>7, AnswerTypes DEF AInv, TypeOK
    <2>9. Untouched' /\ Recorded' /\ AnsweredOnce'
      BY <2>5, <2>6, <2>7 DEF AInv, Untouched, Recorded, AnsweredOnce
    <2>10. Kept'
      <3>1. \A q \in DOMAIN records, i \in Ids : Holds(q, i) => Holds(q, i)'
        BY <2>5, <2>6, <2>7 DEF Holds
      <3> QED BY <3>1, <2>6 DEF AInv, Kept
    <2>11. OnTheWay'
      <3>1. \A d \in Clients : call'[d].phase = "created" =>
               d # c /\ call'[d] = call[d] /\ call[d].record \in DOMAIN records \ {r}
        BY <2>1, <2>2, <2>7, CallFacts DEF NoCall
      <3> QED BY <3>1, <2>6 DEF AInv, OnTheWay
    <2> QED BY <2>8, <2>9, <2>10, <2>11 DEF AInv
  <1> QED BY <1>1, <1>2 DEF Answer

\* The process and the database come and go: no record and no answer does.
LEMMA ProcessStep ==
  ASSUME AInv, Start \/ Signal \/ Exit \/ Kill \/ DatabaseDown \/ DatabaseUp
  PROVE  AInv'
  <1>1. rows' = rows /\ records' = records
    BY DEF Start, Signal, Exit, Kill, Gone, DatabaseDown, DatabaseUp
  <1>2. Untouched' /\ Recorded' /\ Kept' /\ AnsweredOnce'
    BY <1>1, RecordsKept DEF AInv, Untouched, AnsweredOnce
  <1>3. CASE Start
    <2>1. \A c \in Clients : call[c] = NoCall
      BY <1>3 DEF Start, AInv, TypeOK
    <2>2. NoCall \notin Request /\ NoCall.phase = "idle"
      BY DEF NoCall, Request
    <2>3. TypeOK'
      BY <1>1, <1>3, <2>1, <2>2 DEF Start, AInv, TypeOK
    <2> QED BY <1>1, <1>2, <1>3, <2>3 DEF Start, AInv, OnTheWay
  <1>4. CASE Signal
    <2>1. TypeOK'
      BY <1>1, <1>4 DEF Signal, AInv, TypeOK
    <2> QED BY <1>1, <1>2, <1>4, <2>1 DEF Signal, AInv, OnTheWay
  <1>5. CASE Exit \/ Kill
    <2>1. /\ call' = [c \in Clients |-> NoCall] /\ database' = database
          /\ server' = "down" /\ connected' = FALSE
      BY <1>5 DEF Exit, Kill, Gone
    <2>2. NoCall \notin Request /\ NoCall.phase = "idle"
      BY DEF NoCall, Request
    <2>3. TypeOK'
      BY <1>1, <2>1, <2>2 DEF AInv, TypeOK
    <2> QED BY <1>2, <2>1, <2>2, <2>3 DEF AInv, OnTheWay
  <1>6. CASE DatabaseDown \/ DatabaseUp
    <2>1. UNCHANGED <<call, server, connected>> /\ database' \in BOOLEAN
      BY <1>6 DEF DatabaseDown, DatabaseUp, process
    <2>2. TypeOK'
      BY <1>1, <2>1 DEF AInv, TypeOK
    <2> QED BY <1>1, <1>2, <2>1, <2>2 DEF AInv, OnTheWay
  <1> QED BY <1>3, <1>4, <1>5, <1>6

LEMMA ANext == ASSUME AInv, [Next]_vars PROVE AInv'
  <1>1. ASSUME NEW c \in Clients, NEW j \in Ids, NEW op \in Ops,
               NEW i \in Ids \cup {NoId}, NEW body \in Body,
               Send(c, op, rows[j].kind, i, body)
        PROVE  AInv'
    BY <1>1, SendStep
  <1>2. ASSUME NEW c \in Clients,
               Reject(c) \/ Panic(c) \/ StatementFails(c) \/ HangUp(c)
        PROVE  AInv'
    <2>1. /\ call[c].phase # "idle" /\ UNCHANGED <<rows, database, server, connected, records>>
          /\ \E a \in {NoCall, Answered} : call' = [call EXCEPT ![c] = a]
      BY <1>2 DEF Reject, Panic, StatementFails, HangUp, Becomes, process
    <2> QED BY <2>1, QuietStep DEF AInv, TypeOK
  <1>3. ASSUME NEW c \in Clients, Statement(c) \/ Answer(c) PROVE AInv'
    BY <1>3, StatementStep, AnswerStep
  <1>4. CASE Start \/ Signal \/ Exit \/ Kill \/ DatabaseDown \/ DatabaseUp
    BY <1>4, ProcessStep
  <1>5. CASE UNCHANGED vars
    BY <1>5, RecordsKept
    DEF vars, process, AInv, TypeOK, Untouched, AnsweredOnce, OnTheWay
  <1> QED BY <1>1, <1>2, <1>3, <1>4, <1>5 DEF Next

\* Every reachable state satisfies the invariant.
THEOREM ApiInvariant == Spec => []AInv
  <1>1. Init => AInv
    BY AInit
  <1>2. AInv /\ [Next]_vars => AInv'
    BY ANext
  <1> QED BY <1>1, <1>2, PTL DEF Spec

-----------------------------------------------------------------------------
(* The node agent *)

LoopStates == {"none", "select", "report", "call", "recv", "handle", "ended"}

Phases ==
    /\ main \in {"starting", "spawning"} => status = "initializing"
    /\ main = "starting" => \A l \in Agent!Loops : loop[l] = "none"
    /\ main \in {"serving", "shutdown", "stopping", "waiting"} =>
          \A l \in Agent!Loops : loop[l] # "none"
    /\ main \in {"serving", "shutdown", "stopping"} => status = "running"
    /\ main = "waiting" => status \in {"running", "stopped"}
    /\ main = "exited" => \A l \in Agent!Loops : loop[l] \in {"none", "ended"}

\* The assumption on the bound.
LEMMA EventsBound == MaxEvents \in Nat
  BY ProcessesAssumption DEF Agent!AgentAssumption

NInv ==
    Agent!TypeOK /\ loop \in [Agent!Loops -> LoopStates] /\ Phases /\ Agent!StatusIsTrue

LEMMA NInit == ASSUME Agent!Init PROVE NInv
  <1>1. loop \in [Agent!Loops -> LoopStates] /\ \A l \in Agent!Loops : loop[l] = "none"
    BY DEF Agent!Init, LoopStates
  <1>2. Agent!TypeOK
    <2>1. 0 \in 0..MaxEvents
      BY EventsBound
    <2> QED BY <1>1, <2>1 DEF Agent!Init, Agent!TypeOK, Agent!Loops
  <1>3. Phases /\ Agent!StatusIsTrue
    BY <1>1 DEF Agent!Init, Phases, Agent!StatusIsTrue
  <1> QED BY <1>1, <1>2, <1>3 DEF NInv

-----------------------------------------------------------------------------
(* The actions *)

\* A goroutine that is running moves on; nothing else changes.
LEMMA LoopStep ==
  ASSUME NInv, NEW l \in Agent!Loops, NEW s \in LoopStates \ {"none"},
         loop[l] \notin {"none", "ended"}, loop' = [loop EXCEPT ![l] = s],
         l \in Agent!Tickers => s \in {"select", "report", "ended"} /\ stream' = stream,
         l = "watch" => /\ s \in {"select", "recv", "handle", "ended"}
                        /\ s = "ended" => stream' \in {"none", "left"},
         stream' \in {"none", "open", "ended", "left"}, events' \in 0..MaxEvents,
         UNCHANGED <<main, status, cancelled, stopped>>
  PROVE  NInv'
  <1>1. /\ loop' \in [Agent!Loops -> LoopStates] /\ loop'[l] = s
        /\ \A m \in Agent!Loops : m # l => loop'[m] = loop[m]
    BY DEF NInv
  <1>2. main # "exited" /\ status # "stopped"
    BY DEF NInv, Phases, Agent!StatusIsTrue
  <1>3. Agent!TypeOK'
    BY <1>1 DEF NInv, Agent!TypeOK, Agent!Loops, Agent!Tickers
  <1>4. Phases' /\ Agent!StatusIsTrue'
    BY <1>1, <1>2 DEF NInv, Phases, Agent!StatusIsTrue
  <1> QED BY <1>1, <1>3, <1>4 DEF NInv

\* The process is gone: goroutines that were started have ended, and left.
LEMMA ExitStep == ASSUME NInv, Agent!Exit PROVE NInv'
  <1>1. /\ main' = "exited" /\ status' = status
        /\ \A l \in Agent!Loops : loop'[l] = IF loop[l] = "none" THEN "none" ELSE "ended"
        /\ stream' = IF stream = "none" THEN "none" ELSE "left"
    BY DEF Agent!Exit
  <1>2. loop' \in [Agent!Loops -> LoopStates]
    BY DEF Agent!Exit, NInv, LoopStates
  <1>3. Agent!TypeOK'
    BY <1>1, EventsBound DEF Agent!Exit, NInv, Agent!TypeOK, Agent!Loops, Agent!Tickers
  <1>4. Phases' /\ Agent!StatusIsTrue'
    BY <1>1 DEF NInv, Phases, Agent!StatusIsTrue
  <1> QED BY <1>2, <1>3, <1>4 DEF NInv

LEMMA MainStep ==
  ASSUME NInv, Agent!Start \/ Agent!Started \/ Agent!Signal \/ Agent!Shutdown
         \/ Agent!StopClose \/ Agent!StopDone
  PROVE  NInv'
  <1>1. UNCHANGED <<loop, stream, events>>
    BY DEF Agent!Start, Agent!Started, Agent!Signal, Agent!Shutdown, Agent!StopClose,
           Agent!StopDone
  <1>2. Agent!TypeOK' /\ loop' \in [Agent!Loops -> LoopStates]
    BY <1>1 DEF Agent!Start, Agent!Started, Agent!Signal, Agent!Shutdown,
                Agent!StopClose, Agent!StopDone, NInv, Agent!TypeOK
  <1>3. Phases'
    BY <1>1 DEF Agent!Start, Agent!Started, Agent!Signal, Agent!Shutdown,
                Agent!StopClose, Agent!StopDone, NInv, Phases
  <1>4. Agent!StatusIsTrue'
    <2>1. CASE Agent!Started
      BY <1>1, <2>1 DEF Agent!Started, Agent!StatusIsTrue
    <2>2. CASE Agent!StopDone
      <3>1. \A l \in Agent!Loops : loop[l] = "ended"
        BY <2>2 DEF Agent!StopDone, Agent!AllDone
      <3>2. stream \in {"none", "left"}
        BY <3>1 DEF NInv, Agent!TypeOK, Agent!Loops
      <3> QED BY <1>1, <2>2, <3>1, <3>2 DEF Agent!StopDone, Agent!StatusIsTrue
    <2>3. CASE Agent!Start \/ Agent!Signal \/ Agent!Shutdown \/ Agent!StopClose
      BY <1>1, <2>3
      DEF Agent!Start, Agent!Signal, Agent!Shutdown, Agent!StopClose, NInv,
          Agent!StatusIsTrue
    <2> QED BY <2>1, <2>2, <2>3
  <1> QED BY <1>2, <1>3, <1>4 DEF NInv

\* The goroutines are started while the status is still "initializing".
LEMMA SpawnStep == ASSUME NInv, NEW l \in Agent!Loops, Agent!Spawn(l) PROVE NInv'
  <1> DEFINE s == IF l = "watch" THEN "call" ELSE "select"
  <1>1. /\ loop' \in [Agent!Loops -> LoopStates] /\ loop'[l] = s
        /\ \A m \in Agent!Loops : m # l => loop'[m] = loop[m]
    BY DEF Agent!Spawn, NInv, LoopStates
  <1>2. Agent!TypeOK'
    BY <1>1 DEF Agent!Spawn, NInv, Agent!TypeOK, Agent!Loops, Agent!Tickers
  <1>3. Phases' /\ Agent!StatusIsTrue'
    BY DEF Agent!Spawn, NInv, Phases, Agent!StatusIsTrue
  <1> QED BY <1>1, <1>2, <1>3 DEF NInv

LEMMA WatchStep == ASSUME NInv, Agent!Watch PROVE NInv'
  <1>1. "watch" \in Agent!Loops /\ "watch" \notin Agent!Tickers
    BY DEF Agent!Loops, Agent!Tickers
  <1>2. /\ stream \in {"none", "open", "ended", "left"} /\ events \in 0..MaxEvents
        /\ loop["watch"] = "call" => stream = "none"
    BY DEF NInv, Agent!TypeOK
  <1>3. CASE Agent!WatchOpen
    BY <1>1, <1>2, <1>3, LoopStep DEF Agent!WatchOpen, LoopStates
  <1>4. CASE Agent!WatchFails
    BY <1>1, <1>2, <1>4, LoopStep DEF Agent!WatchFails, LoopStates
  <1>5. CASE Agent!WatchSelect
    <2> loop["watch"] = "select" /\ 0 \in 0..MaxEvents
      BY <1>5, EventsBound DEF Agent!WatchSelect
    <2>1. CASE Agent!WatchLeave
      BY <1>1, <1>2, <2>1, LoopStep DEF Agent!WatchLeave, LoopStates
    <2>2. CASE ~Agent!WatchLeave
      BY <1>1, <1>2, <1>5, <2>2, LoopStep DEF Agent!WatchSelect, LoopStates
    <2> QED BY <2>1, <2>2
  <1>6. CASE Agent!WatchReceive
    <2>1. events' \in 0..MaxEvents
      BY <1>2, <1>6, EventsBound DEF Agent!WatchReceive
    <2> QED BY <1>1, <1>2, <1>6, <2>1, LoopStep DEF Agent!WatchReceive, LoopStates
  <1>7. CASE Agent!WatchClosed
    BY <1>1, <1>2, <1>7, EventsBound, LoopStep
    DEF Agent!WatchClosed, Agent!WatchLeave, LoopStates
  <1>8. CASE Agent!WatchHandle
    BY <1>1, <1>2, <1>8, LoopStep DEF Agent!WatchHandle, LoopStates
  <1> QED BY <1>3, <1>4, <1>5, <1>6, <1>7, <1>8 DEF Agent!Watch

LEMMA TickerStep ==
  ASSUME NInv, NEW l \in Agent!Tickers, Agent!Tick(l) \/ Agent!Report(l) \/ Agent!TickerEnd(l)
  PROVE  NInv'
  <1>1. l \in Agent!Loops /\ l # "watch"
    BY DEF Agent!Loops, Agent!Tickers
  <1>2. /\ stream \in {"none", "open", "ended", "left"} /\ events \in 0..MaxEvents
        /\ UNCHANGED <<main, status, cancelled, stopped, stream, events>>
    BY DEF NInv, Agent!TypeOK, Agent!Tick, Agent!Report, Agent!TickerEnd
  <1>3. PICK s \in {"select", "report", "ended"} : loop' = [loop EXCEPT ![l] = s]
    BY DEF Agent!Tick, Agent!Report, Agent!TickerEnd
  <1>4. loop[l] \notin {"none", "ended"}
    BY DEF Agent!Tick, Agent!Report, Agent!TickerEnd
  <1> QED BY <1>1, <1>2, <1>3, <1>4, LoopStep DEF LoopStates

LEMMA StreamStep == ASSUME NInv, Agent!PodEvent \/ Agent!StreamEnds PROVE NInv'
  <1>1. /\ UNCHANGED <<main, status, loop, cancelled, stopped>>
        /\ stream = "open" /\ stream' \in {"open", "ended"} /\ events' \in 0..MaxEvents
    BY EventsBound DEF Agent!PodEvent, Agent!StreamEnds, NInv, Agent!TypeOK
  <1>2. status # "stopped"
    BY <1>1 DEF NInv, Agent!StatusIsTrue
  <1>3. Agent!TypeOK' /\ loop' \in [Agent!Loops -> LoopStates]
    BY <1>1 DEF NInv, Agent!TypeOK
  <1>4. Phases' /\ Agent!StatusIsTrue'
    BY <1>1, <1>2 DEF NInv, Phases, Agent!StatusIsTrue
  <1> QED BY <1>3, <1>4 DEF NInv

LEMMA NNext == ASSUME NInv, [Agent!Next]_agentVars PROVE NInv'
  <1>1. CASE Agent!StartFails \/ Agent!SignalEarly \/ Agent!Return
    BY <1>1, ExitStep DEF Agent!StartFails, Agent!SignalEarly, Agent!Return
  <1>2. CASE Agent!Start \/ Agent!Started \/ Agent!Signal \/ Agent!Shutdown
             \/ Agent!StopClose \/ Agent!StopDone
    BY <1>2, MainStep
  <1>3. ASSUME NEW l \in Agent!Loops, Agent!Spawn(l) PROVE NInv'
    BY <1>3, SpawnStep
  <1>4. ASSUME NEW l \in Agent!Tickers, Agent!Tick(l) \/ Agent!Report(l) \/ Agent!TickerEnd(l)
        PROVE  NInv'
    BY <1>4, TickerStep
  <1>5. CASE Agent!Watch
    BY <1>5, WatchStep
  <1>6. CASE Agent!PodEvent \/ Agent!StreamEnds
    BY <1>6, StreamStep
  <1>7. CASE UNCHANGED agentVars
    BY <1>7 DEF agentVars, NInv, Agent!TypeOK, Phases, Agent!StatusIsTrue
  <1> QED BY <1>1, <1>2, <1>3, <1>4, <1>5, <1>6, <1>7 DEF Agent!Next, Agent!Main

-----------------------------------------------------------------------------
(* Both *)

PInv == AInv /\ NInv

\* A step of one process leaves the other's invariant alone.
LEMMA PNext == ASSUME PInv, [ProcessesNext]_processesVars PROVE PInv'
  <1>1. CASE ServerStep
    BY <1>1, ANext, NNext DEF PInv, ServerStep
  <1>2. CASE AgentStep
    BY <1>2, ANext, NNext DEF PInv, AgentStep
  <1>3. CASE UNCHANGED processesVars
    BY <1>3, ANext, NNext DEF PInv, processesVars
  <1> QED BY <1>1, <1>2, <1>3 DEF ProcessesNext

\* Every reachable state of the two processes satisfies both invariants.
THEOREM ProcessesInvariant == ProcessesSpec => []PInv
  <1>1. ProcessesInit => PInv
    BY AInit, NInit DEF ProcessesInit, PInv
  <1>2. PInv /\ [ProcessesNext]_processesVars => PInv'
    BY PNext
  <1> QED BY <1>1, <1>2, PTL DEF ProcessesSpec

-----------------------------------------------------------------------------
(* Results *)

\* TypeOK of both: requests are of the kind of the record they name, and are
\* served only while there is a server, whatever goes down when; no stream is left
\* open behind a watch loop that has ended.
THEOREM ProcessesTypesOK == ProcessesSpec => []ProcessesTypeOK
  <1>1. PInv => ProcessesTypeOK
    BY DEF PInv, AInv, NInv, ProcessesTypeOK
  <1> QED BY <1>1, ProcessesInvariant, PTL

\* StatusIsTrue: the agent is stopped only when all of its goroutines have ended
\* and left the stream, and running only from when all were started.
THEOREM ProcessesStatusIsTrue == ProcessesSpec => []StatusIsTrue
  <1>1. PInv => StatusIsTrue
    BY DEF PInv, NInv, StatusIsTrue
  <1> QED BY <1>1, ProcessesInvariant, PTL

\* AcknowledgedIsStored: one client at most is told that it created a record, and
\* the record is there and in one row, under its own id unless a PUT moved it, for
\* any number of clients, retries, outages and restarts.
THEOREM ApiAcknowledgedIsStored == Spec => []AcknowledgedIsStored
  <1>1. \A r \in DOMAIN records, i \in Ids : Holds(r, i) => RowsOf(r) = {i}
    BY DEF Holds, RowsOf
  <1>2. AInv => AcknowledgedIsStored
    BY <1>1 DEF AInv, Kept, AnsweredOnce, Holds, AcknowledgedIsStored
  <1> QED BY <1>2, ApiInvariant, PTL

\* A step leaves deleted records and withdrawn offers alone.
LEMMA DeletedStep ==
  ASSUME AInv, [Next]_vars, NEW i \in Ids,
         rows[i].life = "deleted" \/ (rows[i].kind = "offer" /\ rows[i].status = "deleted")
  PROVE  rows'[i] = rows[i]
  <1>1. rows \in [Ids -> Row] /\ rows[i].life # "none"
    BY DEF AInv, TypeOK, Untouched
  <1>2. ASSUME NEW c \in Clients, NEW s, SetStatus(c, s), call[c].phase = "handling",
               call[c].id = i => (rows[i].kind = "offer" => s = "deleted")
        PROVE  rows'[i] = rows[i]
    <2>1. CASE call[c].id = i /\ Live(i)
      <3>1. rows[i].status = "deleted" /\ s = "deleted"
        BY <1>2, <2>1 DEF Live
      <3>2. rows' = [rows EXCEPT ![i].status = "deleted"]
        BY <1>2, <2>1, <3>1 DEF SetStatus
      <3> QED BY <1>1, <3>1, <3>2 DEF Row
    <2>2. CASE ~(call[c].id = i /\ Live(i))
      BY <1>1, <1>2, <2>2 DEF SetStatus
    <2> QED BY <2>1, <2>2
  <1>3. ASSUME NEW c \in Clients, Statement(c) PROVE rows'[i] = rows[i]
    <2>1. call[c].phase = "handling"
      BY <1>3 DEF Statement, Create, CreateRefused, CreateUnnamed, Update, UpdateNothing,
                  Stop, Heartbeat, DeleteOffer, Delete, Handling
    <2>2. /\ call[c].op \in Routes[call[c].kind] /\ call[c].kind \in Kinds
          /\ call[c].id = i => call[c].kind = rows[i].kind
      BY <2>1, RequestFacts, ApiAssumption DEF AInv
    <2>3. CASE Create(c)
      <3>1. call[c].id # i
        BY <1>1, <2>3 DEF Create, FreeKey
      <3> QED BY <1>1, <2>3, <3>1 DEF Create, Insert
    <2>4. ASSUME NEW j \in Ids, CreateUnnamed(c, j) PROVE rows'[i] = rows[i]
      BY <1>1, <2>4 DEF CreateUnnamed, Insert
    <2>5. CASE Stop(c) \/ Heartbeat(c)
      <3>1. call[c].id = i => rows[i].kind # "offer"
        BY <2>2, <2>5 DEF Stop, Heartbeat, Handling, Routes
      <3> QED BY <3>1, <1>2, <2>1, <2>5 DEF Stop, Heartbeat
    <2>6. CASE DeleteOffer(c)
      BY <1>2, <2>1, <2>6 DEF DeleteOffer
    <2>7. CASE Delete(c)
      <3>1. call[c].id = i => rows[i].kind # "offer"
        BY <2>2, <2>7 DEF Delete, Handling, Routes
      <3> QED BY <1>1, <2>7, <3>1 DEF Delete, Live
    <2>8. CASE CreateRefused(c) \/ UpdateNothing(c)
      BY <2>8 DEF CreateRefused, UpdateNothing
    <2>9. CASE Update(c)
      <3>1. call[c].id = i => rows[i].kind # "offer" /\ rows[i].life = "live"
        BY <2>2, <2>9 DEF Update, Handling, Routes, Live
      <3>2. i \notin {call[c].id, NewId(c)}
        BY <1>1, <2>9, <3>1, UpdatedRows
      <3> QED BY <2>9, <3>2, UpdatedRows
    <2> QED BY <1>3, <2>3, <2>4, <2>5, <2>6, <2>7, <2>8, <2>9 DEF Statement
  <1>4. CASE \A c \in Clients : ~Statement(c)
    BY <1>4 DEF Next, Send, Reject, Panic, StatementFails, Answer, HangUp, Start, Signal,
                Exit,
                Kill, Gone, DatabaseDown, DatabaseUp, vars
  <1> QED BY <1>3, <1>4

\* DeletedStaysDeleted: nothing that is still under way when a record is deleted,
\* or an offer withdrawn, changes it or brings it back.
THEOREM ApiDeletedStaysDeleted == Spec => DeletedStaysDeleted
  <1>1. AInv /\ [Next]_vars =>
          [\A i \in Ids :
             (rows[i].life = "deleted" \/ (rows[i].kind = "offer" /\ rows[i].status = "deleted"))
                => rows'[i] = rows[i]]_vars
    BY DeletedStep
  <1> QED BY <1>1, ApiInvariant, PTL DEF Spec, DeletedStaysDeleted
=============================================================================
