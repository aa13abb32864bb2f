------------------------------ MODULE Benchmark ------------------------------
(***************************************************************************)
(* The benchmarks of nodes (BenchmarkService, internal/benchmark).         *)
(* RunBenchmark records a running benchmark and starts a goroutine that    *)
(* completes it while it holds the write lock.  Two readers do more than   *)
(* the lock covers: GetNodeRanking writes ranks into the score objects     *)
(* under the read lock, which other rankings hold at the same time, and    *)
(* GetCompositeScore reads the results after it has given the lock up.     *)
(*                                                                         *)
(* Nothing in the code fills in a result's Details, so calculateScore and  *)
(* calculateNodeScore take their default branches; they are kept as the    *)
(* constant FullScore and the operator OverallScore.  A benchmark's id is  *)
(* its position in "results", and a node's score object is named by the    *)
(* benchmark that made it.                                                 *)
(* A definition X_Y is the mutation Y of X, used by no specification.      *)
(***************************************************************************)
EXTENDS Integers, Sequences, FiniteSetsExt

CONSTANTS BenchNodes,     \* the nodes
          BenchTypes,     \* the types of benchmarks that are run
          Readers,        \* the callers of GetNodeRanking and GetCompositeScore
          Limits,         \* the limits given to GetNodeRanking
          MaxBenchmarks   \* bound: benchmarks started

BenchmarkAssumption ==
    /\ IsFiniteSet(BenchNodes) /\ MaxBenchmarks \in Nat
    /\ Limits \subseteq Int /\ 0 \in Limits

FullScore == 1000

\* The weight of a type in the composite score, in percent; a type that has none
\* ("composite") counts for nothing.
Weights == [cpu |-> 25, memory |-> 15, network |-> 15, gpu |-> 30, storage |-> 15]
Weight(type) == IF type \in DOMAIN Weights THEN Weights[type] ELSE 0

VARIABLES results,      \* bs.results
          nodeScores,   \* bs.nodeScores: node -> the benchmark whose score it has
          rank,         \* the field Rank of each score object
          waiting,      \* the benchmarks whose goroutines wait for the write lock
          executing,    \* the benchmark whose goroutine has it, or 0
          reader        \* what each caller of a reading method is doing

vars == <<results, nodeScores, rank, waiting, executing, reader>>

\* What is kept of a BenchmarkResult; no benchmark is ever pending or failed.
BenchmarkResult == [node : BenchNodes, type : BenchTypes,
                    status : {"running", "completed"}, score : {0, FullScore}]

Ids == 1..Len(results)

Idle == [op |-> "idle"]

\* The callers that may make another call; their last answer is still there.
Free(c) == reader[c].op \in {"idle", "ranked", "scored"}

\* The callers that hold the read lock.
Reading == {c \in Readers : reader[c].op \in {"locked", "ranking"}}

Init ==
    /\ results = <<>>
    /\ nodeScores = [n \in BenchNodes |-> 0]
    /\ rank = [b \in 1..MaxBenchmarks |-> 0]
    /\ waiting = {}
    /\ executing = 0
    /\ reader = [c \in Readers |-> Idle]

CanWrite_AmongReaders == executing = 0
CanWrite == executing = 0 /\ Reading = {}

\* RLock by a method m, "rank" or the node of a composite score: it waits while
\* a writer has the lock or waits for it.
RLock(c, m) ==
    /\ Free(c)
    /\ reader' = [reader EXCEPT ![c] =
                    [op |-> IF executing = 0 /\ waiting = {} THEN "locked" ELSE "blocked",
                     method |-> m]]
    /\ UNCHANGED <<results, nodeScores, rank, waiting, executing>>

\* A writer's Unlock lets in all readers that wait, before any other writer.
LetIn == [c \in Readers |->
            IF reader[c].op = "blocked" THEN [reader[c] EXCEPT !.op = "locked"] ELSE reader[c]]

RunBenchmark(n, type) ==
    /\ CanWrite
    /\ Len(results) < MaxBenchmarks
    /\ results' = Append(results, [node |-> n, type |-> type, status |-> "running",
                                   score |-> 0])
    /\ UNCHANGED <<nodeScores, rank, waiting, executing, reader>>

-----------------------------------------------------------------------------
(* executeBenchmark: the lock, two seconds of sleep, the status, the score, *)
(* and the node's new score object with the end of the lock.                *)

Touched(b) == [c \in Readers |->
                 IF reader[c].op = "composite" /\ b \in reader[c].listed
                 THEN [reader[c] EXCEPT !.raced = TRUE] ELSE reader[c]]

ExecuteCall(b) ==
    /\ results[b].status = "running" /\ b \notin waiting \cup {executing}
    /\ waiting' = waiting \cup {b}
    /\ UNCHANGED <<results, nodeScores, rank, executing, reader>>

ExecuteLock(b) ==
    /\ CanWrite
    /\ b \in waiting
    /\ waiting' = waiting \ {b}
    /\ executing' = b
    /\ UNCHANGED <<results, nodeScores, rank, reader>>

ExecuteComplete(b) ==
    /\ executing = b
    /\ results[b].status = "running"
    /\ results' = [results EXCEPT ![b].status = "completed"]
    /\ reader' = Touched(b)
    /\ UNCHANGED <<nodeScores, rank, waiting, executing>>

ExecuteScore(b) ==
    /\ executing = b
    /\ results[b].status = "completed" /\ results[b].score = 0
    /\ results' = [results EXCEPT ![b].score = FullScore]
    /\ UNCHANGED <<nodeScores, rank, waiting, executing, reader>>

ExecuteUnlock_Forgets(b) ==
    /\ executing = b
    /\ results[b].score # 0
    /\ nodeScores' = [nodeScores EXCEPT ![results[b].node] = b]
    /\ UNCHANGED <<results, rank, waiting, executing, reader>>

ExecuteUnlock(b) ==
    /\ executing = b
    /\ results[b].score # 0
    /\ nodeScores' = [nodeScores EXCEPT ![results[b].node] = b]
    /\ executing' = 0
    /\ reader' = LetIn
    /\ UNCHANGED <<results, rank, waiting>>

-----------------------------------------------------------------------------
(* GetNodeRanking *)

Scored == {nodeScores[n] : n \in BenchNodes} \ {0}

\* The score objects have no detail to be told apart by.
OverallScore(b) == 0

\* The exchange sort starts from the order of a map: it gives any order of the
\* objects in which the scores do not rise.
Rankings ==
    {p \in [1..Cardinality(Scored) -> Scored] :
        /\ {p[i] : i \in DOMAIN p} = Scored
        /\ \A i, k \in DOMAIN p : i < k => OverallScore(p[i]) >= OverallScore(p[k])}

\* "rewritten" remembers that another ranking gave a place of its own to an object
\* of this one, which shares them and, once returned, has no lock to protect them.
RankingStart(c) ==
    /\ reader[c].op = "locked" /\ reader[c].method = "rank"
    /\ \E p \in Rankings :
          reader' = [reader EXCEPT ![c] = [op |-> "ranking", order |-> p, next |-> 1,
                                           rewritten |-> FALSE]]
    /\ UNCHANGED <<results, nodeScores, rank, waiting, executing>>

\* Whether c has object b in its ranking, at another place than i.
Elsewhere(c, b, i) ==
    /\ reader[c].op \in {"ranking", "ranked"}
    /\ \E k \in DOMAIN reader[c].order : reader[c].order[k] = b /\ k # i

\* One iteration of the loop that numbers the objects.
RankingWrite(c) ==
    LET i == reader[c].next
        b == reader[c].order[i]
    IN  /\ reader[c].op = "ranking" /\ i <= Len(reader[c].order)
        /\ rank' = [rank EXCEPT ![b] = i]
        /\ reader' = [d \in Readers |->
                        IF d = c THEN [reader[c] EXCEPT !.next = i + 1]
                        ELSE IF Elsewhere(d, b, i) THEN [reader[d] EXCEPT !.rewritten = TRUE]
                        ELSE reader[d]]
        /\ UNCHANGED <<results, nodeScores, waiting, executing>>

\* The lock is given up and the first of the objects are returned, not copies.
RankingReturn(c, limit) ==
    LET order == reader[c].order
    IN  /\ reader[c].op = "ranking" /\ reader[c].next > Len(order)
        /\ reader' = [reader EXCEPT ![c] =
              [op |-> "ranked", rewritten |-> @.rewritten,
               order |-> IF limit > 0 /\ limit < Len(order) THEN SubSeq(order, 1, limit)
                         ELSE order]]
        /\ UNCHANGED <<results, nodeScores, rank, waiting, executing>>

-----------------------------------------------------------------------------
(* GetCompositeScore *)

\* ListResults, which gives the lock up; without a result GetCompositeScore fails.
\* "done" is what was completed by then, and "raced" remembers that a benchmark of
\* the list was completed later.
CompositeList(c) ==
    LET n      == reader[c].method
        listed == {b \in Ids : results[b].node = n}
    IN  /\ reader[c].op = "locked" /\ n \in BenchNodes
        /\ reader' = [reader EXCEPT ![c] =
              IF listed = {} THEN Idle
              ELSE [op |-> "composite", listed |-> listed, todo |-> listed, reading |-> 0,
                    total |-> 0, weight |-> 0, raced |-> FALSE,
                    done |-> {b \in listed : results[b].status = "completed"}]]
        /\ UNCHANGED <<results, nodeScores, rank, waiting, executing>>

CompositeStatus_CountsRunning(c, b) ==
    /\ reader[c].op = "composite" /\ reader[c].reading = 0
    /\ b \in reader[c].todo
    /\ reader' = [reader EXCEPT ![c].todo = @ \ {b}, ![c].reading = b]
    /\ UNCHANGED <<results, nodeScores, rank, waiting, executing>>

\* The status of one more result, read without the lock.
CompositeStatus(c, b) ==
    /\ reader[c].op = "composite" /\ reader[c].reading = 0
    /\ b \in reader[c].todo
    /\ reader' = [reader EXCEPT ![c].todo = @ \ {b},
                                ![c].reading = IF results[b].status = "completed" THEN b ELSE 0]
    /\ UNCHANGED <<results, nodeScores, rank, waiting, executing>>

\* The score of a completed result, read without the lock.
CompositeScore(c) ==
    /\ reader[c].op = "composite" /\ reader[c].reading # 0
    /\ LET r == results[reader[c].reading]
       IN  reader' = [reader EXCEPT ![c].reading = 0,
                                    ![c].total = @ + r.score * Weight(r.type),
                                    ![c].weight = @ + Weight(r.type)]
    /\ UNCHANGED <<results, nodeScores, rank, waiting, executing>>

\* The average is returned, or 0 when the weights add up to nothing: a float64, kept
\* as the two numbers that are divided.
CompositeReturn(c) ==
    /\ reader[c].op = "composite" /\ reader[c].reading = 0 /\ reader[c].todo = {}
    /\ reader' = [reader EXCEPT ![c] =
                    [op |-> "scored", done |-> @.done, raced |-> @.raced,
                     total |-> @.total, weight |-> @.weight]]
    /\ UNCHANGED <<results, nodeScores, rank, waiting, executing>>

-----------------------------------------------------------------------------

Execute(b) ==
    ExecuteCall(b) \/ ExecuteLock(b) \/ ExecuteComplete(b) \/ ExecuteScore(b) \/ ExecuteUnlock(b)

Rank(c) ==
    RankingStart(c) \/ RankingWrite(c) \/ \E limit \in Limits : RankingReturn(c, limit)

Composite(c) ==
    \/ CompositeList(c)
    \/ \E b \in Ids : CompositeStatus(c, b)
    \/ CompositeScore(c)
    \/ CompositeReturn(c)

Next ==
    \/ \E n \in BenchNodes, type \in BenchTypes : RunBenchmark(n, type)
    \/ \E b \in Ids : Execute(b)
    \/ \E c \in Readers :
          \/ \E m \in BenchNodes \cup {"rank"} : RLock(c, m)
          \/ Rank(c)
          \/ Composite(c)

Spec == Init /\ [][Next]_vars

\* Goroutines run, and sync.RWMutex passes over no writer for ever: it lets no
\* new reader in while one waits.  A caller is in one method at a time.
Fairness ==
    /\ \A b \in 1..MaxBenchmarks : SF_vars(b \in Ids /\ Execute(b))
    /\ \A c \in Readers : WF_vars(Rank(c) \/ Composite(c))

FairSpec == Spec /\ Fairness

-----------------------------------------------------------------------------
(* Properties *)

\* Every variable has its type; a node's score is that of a completed benchmark
\* of the node, and nobody holds the read lock beside a writer.
TypeOK ==
    /\ results \in Seq(BenchmarkResult)
    /\ \A n \in BenchNodes : LET b == nodeScores[n] IN
          b # 0 => /\ b \in Ids
                   /\ results[b].node = n /\ results[b].status = "completed"
    /\ rank \in [1..MaxBenchmarks -> 0..Cardinality(BenchNodes)]
    /\ executing \in {0} \cup Ids
    /\ waiting \subseteq {b \in Ids : results[b].status = "running"}
    /\ executing # 0 => Reading = {}

\* A ranking has every node's newest score until it is returned, whatever
\* benchmarks are started and completed meanwhile.  The ranks of the objects in an
\* answer, which it shares with all later rankings, are their places in it for as
\* long as no other ranking has given one of them another place, and never 0.
RankingIsConsistent ==
    \A c \in Readers :
       /\ reader[c].op = "ranking" =>
             {reader[c].order[i] : i \in DOMAIN reader[c].order} = Scored
       /\ reader[c].op = "ranked" =>
             \A i \in DOMAIN reader[c].order :
                /\ rank[reader[c].order[i]] \in 1..Cardinality(BenchNodes)
                /\ ~reader[c].rewritten => rank[reader[c].order[i]] = i

\* A composite score is the average of the completed benchmarks, FullScore, or 0
\* when none of them has a weight; one that is completed while it is computed may
\* drag it down, but never to nothing when there was a completed one before.
CompositeIsGrounded ==
    \A c \in Readers : reader[c].op = "scored" =>
       LET counted == {b \in reader[c].done : Weight(results[b].type) > 0}
       IN  /\ ~reader[c].raced =>
                 /\ reader[c].total = FullScore * reader[c].weight
                 /\ reader[c].weight > 0 <=> counted # {}
           /\ counted # {} => reader[c].total > 0 /\ reader[c].weight > 0

\* Every benchmark that was started is completed.
BenchmarksComplete ==
    \A b \in 1..MaxBenchmarks :
       (b \in Ids /\ results[b].status = "running")
          ~> (b \in Ids /\ results[b].status = "completed" /\ executing # b)
=============================================================================
