---------------------------- MODULE TxnWorkload ----------------------------
(***************************************************************************)
(* The concurrency workload that tests snapshot transactions,              *)
(* multi_statement_transaction_atomicity_isolation.js, with the two        *)
(* workloads that extend it by killing sessions and by repeated reads.     *)
(* Every thread runs the workload's state functions; update() pushes an    *)
(* entry to some documents in a transaction that withTxnAndAutoRetry()     *)
(* repeats until it commits, and checkConsistency() looks for the traces   *)
(* of a broken server in all documents.                                    *)
(*                                                                         *)
(* The server is not part of the repository.  It gives snapshot isolation, *)
(* or breaks one promise once (conf.fault).  A command takes effect, is    *)
(* answered, and makes its thread send the next request in one step: what  *)
(* the thread does in between is local to it.  The commit of writes takes  *)
(* two steps, because it may be interrupted while it awaits replication.   *)
(* A find with its getMores is one command.                                *)
(***************************************************************************)
EXTENDS Integers, Sequences, FiniteSets, SequencesExt, FiniteSetsExt

CONSTANTS Threads,           \* the tids of the worker threads
          Docs,              \* the _ids of the documents
          iterations,        \* of a thread's state machine, init included
          numReads,          \* by one call of repeatedRead()
          MaxRestarts,       \* bound on the transactions that start over
          MaxNetworkErrors   \* bound on the errors of the network

ASSUME TxnWorkloadAssumption ==
    /\ IsFiniteSet(Docs) /\ Cardinality(Docs) > 2 /\ iterations \in Nat \ {0}
    /\ numReads \in Nat \ {0} /\ MaxRestarts \in Nat
    /\ MaxNetworkErrors \in Nat

VARIABLES conf,      \* the workload, and the promise the server breaks
          thr,       \* the threads
          hist,      \* the committed databases, newest last
          srv,       \* the server's record of each session
          broken,    \* has the server broken its promise?
          errors,    \* network errors so far
          teardown   \* "no", then the verdict of the workload's teardown

vars == <<conf, thr, hist, srv, broken, errors, teardown>>

numDocs == Cardinality(Docs)
None == "none"

(***************************************************************************)
(* jstests/libs/cycle_detection.js.  A graph is the sequence of its edges  *)
(* in the order they were added.                                           *)
(***************************************************************************)
Nodes(edges) == FlattenSeq([i \in DOMAIN edges |-> edges[i]])

neighbors(edges, node) == SelectSeq(edges, LAMBDA e : e[1] = node)

(* Slip: the nodes that led to the cycle are part of the result too.       *)
UnshiftAlways(node, cycle) == <<node>> \o cycle

(* What a search returns when the edge (node, otherNode) led it to a cycle. *)
CloseLoop(node, cycle) ==
    IF cycle[1] = Last(cycle) THEN cycle ELSE <<node>> \o cycle

RECURSIVE doDepthFirstSearch(_, _, _, _)
doDepthFirstSearch(edges, state, node, i) ==
    LET others == neighbors(edges, node)
        other  == others[i][2]
        found  == doDepthFirstSearch(
                      edges, [state EXCEPT ![other] = "visitingInProgress"], other, 1)
    IN  IF i > Len(others)
        THEN [state |-> [state EXCEPT ![node] = "alreadyVisited"], cycle |-> <<>>]
        ELSE CASE state[other] = "alreadyVisited" ->
                      doDepthFirstSearch(edges, state, node, i + 1)
               [] state[other] = "visitingInProgress" ->
                      [state |-> state, cycle |-> <<node, other>>]
               [] OTHER ->
                      IF Len(found.cycle) > 1
                      THEN [found EXCEPT !.cycle = CloseLoop(node, @)]
                      ELSE doDepthFirstSearch(edges, found.state, node, i + 1)

findCycle(edges) ==
    LET Visit(node, acc) ==
            IF acc.cycle # <<>> \/ acc.state[node] = "alreadyVisited"
            THEN acc
            ELSE doDepthFirstSearch(
                     edges, [acc.state EXCEPT ![node] = "visitingInProgress"], node, 1)
    IN  FoldLeft(LAMBDA acc, node : Visit(node, acc),
                 [state |-> [n \in ToSet(Nodes(edges)) |-> "notYetVisited"],
                  cycle |-> <<>>],
                 Nodes(edges)).cycle

(***************************************************************************)
(* The checks on documents read: d[id] is the sequence of the entries      *)
(* pushed to document id.  The order field of an entry is op, the metadata *)
(* field is txnNum.                                                        *)
(***************************************************************************)
Pairs(s) == IF s = <<>> THEN <<>>
            ELSE [i \in 1 .. Len(s) - 1 |-> <<s[i].op, s[i + 1].op>>]

(* The documents come in the order ids, which the find leaves open.        *)
commitOrder(d, ids) == FlattenSeq([i \in 1 .. numDocs |-> Pairs(d[ids[i]])])

checkTransactionCommitOrder(d) == findCycle(commitOrder(d, SetToSeq(Docs))) = <<>>

Places(d) == {<<id, i>> \in Docs \X (1 .. 2 * Cardinality(Threads) * iterations) :
                 i \in DOMAIN d[id]}
Ops(d) == {d[p[1]][p[2]].op : p \in Places(d)}
updateCount(d, op) == Cardinality({p \in Places(d) : d[p[1]][p[2]].op = op})

checkNumUpdatedByEachTransaction(d) ==
    \A op \in Ops(d) : updateCount(d, op) = op.numUpdated

updatedDocsServerHistory(t, d) ==
    {[txnNum |-> d[p[1]][p[2]].txnNum, doc |-> p[1]] :
        p \in {q \in Places(d) : d[q[1]][q[2]].op.tid = t}}

checkWritesOfCommittedTxns(t, d) ==
    /\ updatedDocsServerHistory(t, d) = thr[t].updatedDocsClientHistory
    /\ Cardinality({p \in Places(d) : d[p[1]][p[2]].op.tid = t})
         = Cardinality(thr[t].updatedDocsClientHistory)   \* arrayEq() counts

(***************************************************************************)
(* The threads.  request is what the thread waits for: a command of the    *)
(* transaction that runs body, its commit, or the write concern of the     *)
(* commit.  checks counts the calls of checkConsistency() that the current *)
(* state function still makes.                                             *)
(***************************************************************************)
NewThread ==
    [currentState |-> None, i |-> 0, totalIteration |-> 0, iteration |-> 0,
     body |-> None, docIds |-> <<>>, committedTxnInfo |-> {}, documents |-> <<>>,
     reads |-> 0, request |-> None, interrupted |-> FALSE, txnNumber |-> 0,
     restarts |-> 0,
     updatedDocsClientHistory |-> {}, checks |-> 0, checked |-> FALSE,
     clusterTime |-> 1, end |-> None]

retryOnKilledSession == conf.workload = "kill_sessions"

transitions ==
    CASE conf.workload = "atomicity_isolation" ->
            [init |-> {"update", "checkConsistency"},
             update |-> {"update", "checkConsistency", "causalRead"},
             checkConsistency |-> {"update"}, causalRead |-> {"update"}]
      [] conf.workload = "kill_sessions" ->
            [init |-> {"update", "checkConsistency"},
             update |-> {"update", "checkConsistency", "killSession"},
             checkConsistency |-> {"update", "killSession"},
             killSession |-> {"update", "checkConsistency", "causalRead"},
             causalRead |-> {"update", "killSession"}]
      [] conf.workload = "repeated_reads" ->
            [init |-> {"update", "checkConsistency", "repeatedRead"},
             update |-> {"update", "checkConsistency", "repeatedRead"},
             checkConsistency |-> {"update", "repeatedRead"},
             repeatedRead |-> {"update", "repeatedRead"}]

Send(f, request) == [f EXCEPT !.request = request, !.interrupted = FALSE]

startTransaction(f) ==
    Send([f EXCEPT !.txnNumber = @ + 1, !.committedTxnInfo = {}, !.documents = <<>>,
                   !.reads = 0], "command")

Run(f, body) == startTransaction([f EXCEPT !.body = body])

(* The local variables of a state function end with it.                    *)
Forget(f) ==
    [Send(f, None) EXCEPT !.body = None, !.docIds = <<>>, !.committedTxnInfo = {},
                          !.documents = <<>>, !.reads = 0]

(* What follows a state function, or a call of checkConsistency().         *)
StateEnds(f) ==
    IF f.checks > 0 THEN Run([f EXCEPT !.checks = @ - 1], "check")
    ELSE [Forget(f) EXCEPT !.end = IF f.i = iterations THEN "done" ELSE None]

(* An assertion failed, or another error ended the thread.                 *)
Throws(f, end) == [Forget(f) EXCEPT !.end = end]

getDocIdsToUpdate ==
    {s \in UNION {[1 .. n -> Docs] : n \in 2 .. (numDocs + 1) \div 2} : IsInjective(s)}

(* Only the states that the base workload defines are wrapped, and init()  *)
(* sets the counter after the wrapper has read it.                         *)
Wrapped == {"update", "checkConsistency", "causalRead"}

(* Slip: one iteration too late.                                           *)
AfterLastIteration(f, state) ==
    IF state \notin Wrapped \/ f.totalIteration + 1 <= iterations THEN 0 ELSE 1

(* How many checks follow the state function.                              *)
checkConsistencyOnLastIteration(f, state) ==
    IF state \notin Wrapped \/ f.totalIteration + 1 < iterations THEN 0
    ELSE IF state = "causalRead" THEN 2 ELSE 1   \* its check is itself wrapped

Begin(f, state) ==
    [f EXCEPT !.currentState = state, !.i = @ + 1,
              !.totalIteration = CASE state = "init" -> 1
                                   [] state \in Wrapped -> @ + 1
                                   [] OTHER -> @,
              !.checks = (IF state = "checkConsistency" THEN 1 ELSE 0)
                         + checkConsistencyOnLastIteration(f, state)]

(* Slip: any network error lets the transaction start over.                *)
RetryOnAnyNetworkError(f, e, hasCommitTxnError) == e \in {"transient", "network"}

(* May the transaction start over?  The errors are "transient" (labelled   *)
(* TransientTransactionError), "network", and "Interrupted", which a       *)
(* killed session returns.                                                 *)
shouldRetryEntireTxnOnError(f, e, hasCommitTxnError) ==
    \/ e = "transient"
    \/ ~hasCommitTxnError /\ e = "network"
    \/ /\ ~hasCommitTxnError /\ e = "Interrupted"
       /\ retryOnKilledSession /\ f.body # "repeatedRead"

Retry(f, e, hasCommitTxnError) ==
    IF shouldRetryEntireTxnOnError(f, e, hasCommitTxnError)
    THEN startTransaction([f EXCEPT !.restarts = @ + 1]) ELSE Throws(f, "threw")

(* A command of the transaction has succeeded; found is what it read.      *)
CommandWorked(f, found) ==
    LET d == f.docIds[Cardinality(f.committedTxnInfo) + 1]
        g == [f EXCEPT !.committedTxnInfo = @ \cup {d}]
        h == [f EXCEPT !.documents = found, !.reads = @ + 1]
    IN  CASE f.body = "update" ->
               Send(g, IF Cardinality(g.committedTxnInfo) < Len(f.docIds)
                       THEN "command" ELSE "commit")
          [] f.body = "check" -> Send(h, "commit")
          [] f.body = "repeatedRead" ->
               IF f.reads > 0 /\ found # f.documents THEN Throws(f, "failed")
               ELSE Send(h, IF h.reads < numReads THEN "command" ELSE "commit")

(* withTxnAndAutoRetry() returns.                                          *)
Committed(t, f) ==
    CASE f.body = "update" ->
            StateEnds([f EXCEPT !.iteration = @ + 1,
                                !.updatedDocsClientHistory =
                                    @ \cup {[txnNum |-> f.txnNumber, doc |-> d] :
                                               d \in f.committedTxnInfo}])
      [] f.body = "repeatedRead" -> StateEnds(f)
      [] f.body = "check" ->
            IF /\ checkTransactionCommitOrder(f.documents)
               /\ checkNumUpdatedByEachTransaction(f.documents)
               /\ checkWritesOfCommittedTxns(t, f.documents)
            THEN StateEnds([f EXCEPT !.checked = TRUE])
            ELSE Throws(f, "failed")

Step(t, f) ==
    /\ thr' = [thr EXCEPT ![t] = f]
    /\ MapThenSumSet(LAMBDA u : thr'[u].restarts, Threads) <= MaxRestarts

(***************************************************************************)
(* The server (external).                                                  *)
(***************************************************************************)
NoTxn == [txn |-> 0, snap |-> 1, writes |-> {}, committed |-> 0]

Entry(t) == [op |-> [tid |-> t, iteration |-> thr[t].iteration,
                     numUpdated |-> Len(thr[t].docIds)],
             txnNum |-> thr[t].txnNumber]

Push(db, D, e) == [d \in Docs |-> IF d \in D THEN Append(db[d], e) ELSE db[d]]
Misplace(db, D, e) ==
    [d \in Docs |-> IF d \in D THEN Front(db[d]) \o <<e, Last(db[d])>> ELSE db[d]]

Fault(kind, db) ==
    /\ conf.fault = kind /\ ~broken
    /\ broken' = TRUE /\ hist' = Append(hist, db)

Abort(t, s) ==
    /\ srv' = [srv EXCEPT ![t] = [NoTxn EXCEPT !.committed = s.committed]]
    /\ \/ UNCHANGED <<hist, broken>>
       \/ s.writes # {} /\ Fault("uncommitted write", Push(Last(hist), s.writes, Entry(t)))

Commit(t) ==
    LET W == srv[t].writes
        db == Last(hist)
    IN  /\ srv' = [srv EXCEPT ![t] = [NoTxn EXCEPT !.committed = srv[t].txn]]
        /\ IF W = {} THEN UNCHANGED <<hist, broken>>
           ELSE \/ hist' = Append(hist, Push(db, W, Entry(t))) /\ UNCHANGED broken
                \/ Fault("lost commit", db)
                \/ \E D \in SUBSET W \ {{}, W} :
                      \/ Fault("torn commit", Push(db, D, Entry(t)))
                      \/ /\ \A d \in D : db[d] # <<>>
                         /\ Fault("missed conflict",
                                  Misplace(Push(db, W \ D, Entry(t)), D, Entry(t)))

(***************************************************************************)
(* The calls that withTxnAndAutoRetry() makes.                             *)
(***************************************************************************)

(* A command failed: the catch block aborts the transaction.               *)
CommandFails(t, s, e) == Abort(t, s) /\ Step(t, Retry(thr[t], e, FALSE))

(* The first command starts the transaction, on a snapshot that includes   *)
(* all that the causally consistent session has seen.                      *)
Command(t) ==
    LET f == thr[t]
        first == f.committedTxnInfo = {} /\ f.reads = 0
        d == f.docIds[Cardinality(f.committedTxnInfo) + 1]
    IN  /\ f.request = "command" /\ ~f.interrupted
        /\ \E snap \in IF first THEN f.clusterTime .. Len(hist) ELSE {srv[t].snap} :
             LET s == IF first
                      THEN [srv[t] EXCEPT !.txn = f.txnNumber, !.snap = snap, !.writes = {}]
                      ELSE srv[t]
                 conflict == /\ f.body = "update"
                             /\ \/ hist[snap][d] # Last(hist)[d]
                                \/ \E u \in Threads \ {t} : d \in srv[u].writes
             IN  IF s.txn # f.txnNumber \/ conflict
                 THEN CommandFails(t, s, "transient")
                 ELSE /\ Step(t, CommandWorked(f, hist[snap]))
                      /\ srv' = [srv EXCEPT ![t] = IF f.body = "update"
                                                   THEN [s EXCEPT !.writes = @ \cup {d}]
                                                   ELSE s]
                      /\ UNCHANGED <<hist, broken>>
        /\ UNCHANGED <<conf, errors, teardown>>

commitTransaction(t) ==
    LET f == thr[t]
    IN  /\ f.request = "commit" /\ ~f.interrupted
        /\ IF srv[t].txn = f.txnNumber
           THEN /\ Commit(t)
                /\ Step(t, IF f.body = "update"
                           THEN [Send(f, "await") EXCEPT !.clusterTime = Len(hist')]
                           ELSE Committed(t, f))
           ELSE /\ UNCHANGED <<hist, srv, broken>>
                /\ Step(t, IF srv[t].committed = f.txnNumber
                           THEN Committed(t, f) ELSE Retry(f, "transient", TRUE))
        /\ UNCHANGED <<conf, errors, teardown>>

CommitReturns(t) ==
    /\ thr[t].request = "await" /\ ~thr[t].interrupted
    /\ Step(t, Committed(t, thr[t]))
    /\ UNCHANGED <<conf, hist, srv, broken, errors, teardown>>

(* The session was killed under the command or the commit.                 *)
CommandInterrupted(t) ==
    /\ thr[t].interrupted /\ thr[t].request = "command"
    /\ CommandFails(t, srv[t], "Interrupted")
    /\ UNCHANGED <<conf, errors, teardown>>

commitTransactionWithKilledSessionRetries(t) ==
    LET f == thr[t]
    IN  /\ f.interrupted /\ f.request \in {"commit", "await"}
        /\ Step(t, IF retryOnKilledSession /\ f.body # "repeatedRead"
                   THEN Send(f, "commit") ELSE Retry(f, "Interrupted", TRUE))
        /\ UNCHANGED <<conf, hist, srv, broken, errors, teardown>>

(* The network fails, before a request arrives or with its answer.  When   *)
(* it fails under the abort as well, the error of the abort is thrown.     *)
NetworkError(t) ==
    /\ errors < MaxNetworkErrors /\ errors' = errors + 1 /\ conf.fault = "network"
    /\ \/ thr[t].request = "command" /\ CommandFails(t, srv[t], "network")
       \/ /\ thr[t].request = "command" /\ Step(t, Throws(thr[t], "threw"))
          /\ UNCHANGED <<hist, srv, broken>>
       \/ /\ thr[t].request \in {"commit", "await"}
          /\ Step(t, Retry(thr[t], "network", TRUE))
          /\ UNCHANGED <<hist, srv, broken>>
    /\ UNCHANGED <<conf, teardown>>

(***************************************************************************)
(* The state functions, as runFSM() calls them.                            *)
(***************************************************************************)
Starts(t, state) ==
    /\ thr[t].body = None /\ thr[t].end = None
    /\ state \in IF thr[t].i = 0 THEN {"init"} ELSE transitions[thr[t].currentState]

Calls(t, state, f) ==
    Starts(t, state) /\ Step(t, f) /\ UNCHANGED <<conf, hist, srv, broken, errors, teardown>>

init(t) == Calls(t, "init", StateEnds(Begin(thr[t], "init")))

update(t) ==
    \E docIds \in getDocIdsToUpdate :
        Calls(t, "update",
              Run([Begin(thr[t], "update") EXCEPT !.docIds = docIds], "update"))

checkConsistency(t) ==
    Calls(t, "checkConsistency", StateEnds(Begin(thr[t], "checkConsistency")))

(* Reads outside of a transaction and counts the documents.                *)
causalRead(t) == Calls(t, "causalRead", StateEnds(Begin(thr[t], "causalRead")))

repeatedRead(t) ==
    Calls(t, "repeatedRead", Run(Begin(thr[t], "repeatedRead"), "repeatedRead"))

(* Kills the session of a thread, which may be waiting for the server.     *)
killSession(t) ==
    /\ Starts(t, "killSession")
    /\ \E v \in Threads :
         /\ IF srv[v].txn # 0 THEN Abort(v, srv[v]) ELSE UNCHANGED <<hist, srv, broken>>
         /\ \E interrupted \in {FALSE, thr[v].request # None} :
              thr' = [[thr EXCEPT ![v].interrupted = @ \/ interrupted]
                         EXCEPT ![t] = StateEnds(Begin(thr[t], "killSession"))]
    /\ UNCHANGED <<conf, errors, teardown>>

(* The workload's teardown, after the threads, on a plain read.            *)
Teardown ==
    /\ teardown = "no" /\ \A t \in Threads : thr[t].end # None
    /\ teardown' = IF /\ checkTransactionCommitOrder(Last(hist))
                      /\ checkNumUpdatedByEachTransaction(Last(hist))
                   THEN "passed" ELSE "failed"
    /\ UNCHANGED <<conf, thr, hist, srv, broken, errors>>

(* The base workload meets each fault of the network and of the server,    *)
(* the two others run on a correct server.                                 *)
Faults == {"network", "uncommitted write", "lost commit", "torn commit", "missed conflict"}

Init ==
    /\ conf \in [workload : {"atomicity_isolation", "kill_sessions", "repeated_reads"},
                fault : {None}]
               \cup [workload : {"atomicity_isolation"}, fault : Faults]
    /\ thr = [t \in Threads |-> NewThread]
    /\ hist = <<[d \in Docs |-> <<>>]>>
    /\ srv = [t \in Threads |-> NoTxn]
    /\ broken = FALSE /\ errors = 0 /\ teardown = "no"

Thread(t) == \/ init(t) \/ update(t) \/ checkConsistency(t) \/ causalRead(t)
             \/ repeatedRead(t) \/ killSession(t)
             \/ Command(t) \/ commitTransaction(t) \/ CommitReturns(t)
             \/ CommandInterrupted(t) \/ commitTransactionWithKilledSessionRetries(t)

Next == (\E t \in Threads : Thread(t) \/ NetworkError(t)) \/ Teardown

(* Sound also for the documents, although the checks take them in one      *)
(* order: FindCycleExact shows that their verdict does not depend on it.   *)
Symmetry == Permutations(Threads) \cup Permutations(Docs)

Spec == Init /\ [][Next]_vars

-----------------------------------------------------------------------------
(***************************************************************************)
(* Properties.                                                             *)
(***************************************************************************)

(* No assertion of the workload fails on a server that gives snapshot      *)
(* isolation, whatever conflicts, killed sessions and network errors make  *)
(* withTxnAndAutoRetry() do: no transaction is applied twice, and what     *)
(* update() notes for a transaction number is what was committed under it. *)
NoFalseAlarm ==
    ~broken => teardown # "failed" /\ \A t \in Threads : thr[t].end # "failed"

Acknowledged ==
    UNION {{[tid |-> t, txnNum |-> h.txnNum] : h \in thr[t].updatedDocsClientHistory} :
              t \in Threads}

Order(s) == [i \in DOMAIN s |-> [tid |-> s[i].op.tid, txnNum |-> s[i].txnNum]]

(* When every thread is done and the teardown of the base workload passes, *)
(* the documents are what the acknowledged transactions leave when they    *)
(* run one after the other in some order, each with all of its writes and  *)
(* nothing besides: the anomalies (a), (b) and (c) of the file's header    *)
(* never go unnoticed.                                                     *)
PassMeansIsolated ==
    (teardown = "passed" /\ \A t \in Threads : thr[t].end = "done") =>
        \E order \in SetToSeqs(Acknowledged) :
            \A d \in Docs :
                Order(Last(hist)[d]) =
                    SelectSeq(order, LAMBDA x :
                        [txnNum |-> x.txnNum, doc |-> d]
                            \in thr[x.tid].updatedDocsClientHistory)

Cyclic(edges) ==
    \E N \in SUBSET ToSet(Nodes(edges)) \ {{}} :
        \A n \in N : \E m \in N : <<n, m>> \in ToSet(edges)

(* In whatever order the documents come, findCycle() returns nothing       *)
(* exactly when the graph of the commit orders that the teardown finds has *)
(* no cycle, and otherwise a closed path of at least two elements along    *)
(* edges of the graph, as its comment says.                                *)
FindCycleExact ==
    teardown # "no" =>
        \A ids \in SetToSeqs(Docs) :
            LET edges == commitOrder(Last(hist), ids)
                cycle == findCycle(edges)
            IN  /\ Cyclic(edges) <=> cycle # <<>>
                /\ cycle # <<>> =>
                     /\ Len(cycle) > 1 /\ cycle[1] = Last(cycle)
                     /\ \A i \in 1 .. Len(cycle) - 1 :
                           <<cycle[i], cycle[i + 1]>> \in ToSet(edges)

(* The comment on checkConsistencyOnLastIteration(): it "causes each thread *)
(* to run checkConsistency() before teardown".  It does not wrap the state  *)
(* functions that the two other workloads add, nor count their calls.       *)
EveryThreadChecks == \A t \in Threads : thr[t].end = "done" => thr[t].checked
============================================================================
