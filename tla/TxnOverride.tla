---------------------------- MODULE TxnOverride ----------------------------
(***************************************************************************)
(* jstests/libs/override_methods/network_error_and_txn_override.js: an     *)
(* override of runCommand that puts the commands of a test into            *)
(* transactions and retries them.  It is recursive: a commit, an abort, a  *)
(* create and the commands of a transaction that is run again enter the    *)
(* override from the top.  stack holds one frame for each runCommand that  *)
(* has not returned; the first is the one of the test.                     *)
(*                                                                         *)
(* A step is what happens between two calls.  The server is external: it   *)
(* is modelled from the responses the override tells apart.                *)
(***************************************************************************)
EXTENDS Integers, Sequences, SequencesExt, FiniteSets

CONSTANTS
    maxOpsInTransaction, kMaxNumRetries,
    MaxCommands,  \* bound: commands of the test
    MaxFaults     \* bound: failed or lost commands and failovers

ASSUME TxnOverrideAssumption ==
    /\ maxOpsInTransaction \in Nat \ {0} /\ kMaxNumRetries \in Nat
    /\ MaxCommands \in Nat /\ MaxFaults \in Nat

VARIABLES
    conf,                \* networkErrorAndTxnOverrideConfig
    issued,              \* the names of the test's commands so far
    stack, ops, txnNumber, inCommandNetworkErrorRetry, nonTxnAggCursorSet,
    acked,               \* history: inserts that returned ok and were not cleared since
    thrown,              \* history: None, or what kind of exception reached the test
    srv,                 \* the server
    faults

vars == <<conf, issued, stack, ops, txnNumber, inCommandNetworkErrorRetry,
          nonTxnAggCursorSet, acked, thrown, srv, faults>>

NoTxn == -1
None == "none"

Statements == {"insert", "find", "getMore"}
Kinds == Statements \cup {"aggregate", "create"}
CommitOrAbort == {"commit", "abort"}

Errors == {"fail", "retryable", "transient", "notSupported", "exists"}
Responses == Errors \cup {"ok", "writeConcernError"}
Exceptions == {"network", "networkTransient", "noHost", "other", "assertion"}

hasError(r) == r \in Errors

Frame == [cmd : Kinds \cup CommitOrAbort, id : Nat, txn : Int, start : BOOLEAN,
          pc : {"setup", "send", "got", "aborting", "creating", "retrying",
                "recommit", "clearing"},
          left : 0 .. kMaxNumRetries,                 \* numNetworkErrorRetries
          res : Responses \cup Exceptions \cup {None}, \* its own response
          ret : Responses \cup Exceptions \cup {None}, \* what its callee returned
          inCatch : BOOLEAN, retried : Int, i : Nat]   \* of retryEntireTransaction

TypeOK ==
    /\ conf \in [net : BOOLEAN, txn : BOOLEAN]
    /\ issued \in Seq(Kinds) /\ Len(issued) <= MaxCommands
    /\ stack \in Seq(Frame)
    /\ ops \in Seq([cmd : Statements, id : 1 .. MaxCommands, start : BOOLEAN])
    /\ txnNumber \in Int /\ inCommandNetworkErrorRetry \in BOOLEAN
    /\ nonTxnAggCursorSet \subseteq 1 .. MaxCommands /\ acked \subseteq 1 .. MaxCommands
    /\ thrown \in {None, "exception", "assertion"}
    /\ srv \in [num : Int, st : {"open", "committed", "aborted"}, done : Seq(Nat),
                tail : Seq(Nat), db : Seq(Nat), coll : BOOLEAN]
    /\ faults \in 0 .. MaxFaults

Init ==
    /\ conf \in [net : BOOLEAN, txn : BOOLEAN] /\ (conf.net \/ conf.txn)
    /\ issued = <<>> /\ stack = <<>> /\ ops = <<>> /\ txnNumber = -1
    /\ inCommandNetworkErrorRetry = FALSE /\ nonTxnAggCursorSet = {}
    /\ acked = {} /\ thrown = None
    /\ srv = [num |-> -1, st |-> "aborted", done |-> <<>>, tail |-> <<>>,
              db |-> <<>>, coll |-> FALSE]
    /\ faults = 0

(***************************************************************************)
(* The server.  done is what the open transaction has written, tail what a *)
(* commit has written that a failover can still roll back, db the rest.    *)
(***************************************************************************)
Live(f) == (f.txn = srv.num /\ srv.st = "open") \/ (f.start /\ f.txn > srv.num)

Aborted(s, n) == [s EXCEPT !.num = n, !.st = "aborted", !.done = <<>>]

Written(f) == IF f.cmd = "insert" THEN <<f.id>> ELSE <<>>

Statement(f) ==
    IF ~Live(f)
    THEN <<srv, IF srv.num > f.txn \/ (srv.num = f.txn /\ srv.st = "committed")
                THEN "fail" ELSE "transient">>
    ELSE IF f.cmd = "insert" /\ ~srv.coll
    THEN <<Aborted(srv, f.txn), "notSupported">>
    ELSE <<[srv EXCEPT !.num = f.txn, !.st = "open",
                       !.done = (IF f.txn = srv.num THEN @ ELSE <<>>) \o Written(f)], "ok">>

Commit(f) ==
    IF srv.num # f.txn THEN <<srv, IF srv.num > f.txn THEN "fail" ELSE "transient">>
    ELSE IF srv.st = "aborted" THEN <<srv, "transient">>
    ELSE <<[srv EXCEPT !.st = "committed", !.db = @ \o srv.tail \o srv.done,
                       !.tail = <<>>, !.done = <<>>], "ok">>

Abort(f) ==
    IF srv.num # f.txn \/ srv.st = "aborted" THEN <<srv, "transient">>
    ELSE IF srv.st = "committed" THEN <<srv, "fail">>
    ELSE <<Aborted(srv, f.txn), "ok">>

\* What the server does with a command when nothing disturbs it.
Handled(f) ==
    CASE f.cmd = "commit" -> Commit(f)
      [] f.cmd = "abort" -> Abort(f)
      [] f.txn # NoTxn -> Statement(f)
      [] f.cmd = "create" -> <<[srv EXCEPT !.coll = TRUE], IF srv.coll THEN "exists" ELSE "ok">>
      [] OTHER -> <<[srv EXCEPT !.db = @ \o Written(f), !.coll = @ \/ f.cmd = "insert"], "ok">>

\* A commit that is not on a majority yet.
Unstable(s, f) ==
    IF s.num = f.txn /\ s.st = "open"
    THEN [s EXCEPT !.st = "committed", !.tail = s.done, !.done = <<>>] ELSE s

\* A request or a response is lost, or the command is refused or interrupted.
Disturbed(f) ==
    LET killed == IF f.txn # NoTxn /\ Live(f) THEN Aborted(srv, f.txn) ELSE srv
    IN {<<s, "network">> : s \in {srv, Handled(f)[1]}}
       \cup {<<srv, "noHost">>}
       \cup CASE f.cmd = "commit" -> {<<Unstable(srv, f), e>> : e \in {"network", "writeConcernError"}}
                                     \cup {<<srv, "retryable">>, <<killed, "fail">>}
              [] f.cmd = "abort" -> {<<srv, "retryable">>}
              [] f.txn # NoTxn -> {<<s, "networkTransient">> : s \in {srv, Handled(f)[1]}}
                                  \cup {<<killed, e>> : e \in {"fail", "retryable", "transient"}}
              [] f.cmd = "create" -> {<<srv, "retryable">>, <<srv, "fail">>,
                                      <<[srv EXCEPT !.coll = TRUE], "writeConcernError">>}
              [] OTHER -> {<<srv, "retryable">>, <<srv, "fail">>}

\* The transaction that is open is lost, and a commit that is not on a majority.
Failover ==
    /\ faults < MaxFaults /\ faults' = faults + 1
    /\ srv.st = "open" \/ srv.tail # <<>>
    /\ srv' = [Aborted(srv, srv.num) EXCEPT !.tail = <<>>]
    /\ UNCHANGED <<conf, issued, stack, ops, txnNumber, inCommandNetworkErrorRetry,
                   nonTxnAggCursorSet, acked, thrown>>

Replicate ==
    /\ srv.tail # <<>>
    /\ srv' = [srv EXCEPT !.db = @ \o srv.tail, !.tail = <<>>]
    /\ UNCHANGED <<conf, issued, stack, ops, txnNumber, inCommandNetworkErrorRetry,
                   nonTxnAggCursorSet, acked, thrown, faults>>

----------------------------------------------------------------------------
Top == stack[Len(stack)]
WithTop(f) == [stack EXCEPT ![Len(stack)] = f]

\* A frame whose command setupTransactionCommand has given transaction number n.
NewFrame(cmd, id, start, n) ==
    [cmd |-> cmd, id |-> id, txn |-> n, start |-> start, pc |-> "send",
     left |-> IF conf.net /\ (n # NoTxn => cmd \in CommitOrAbort) THEN kMaxNumRetries ELSE 0,
     res |-> None, ret |-> None, inCatch |-> FALSE, retried |-> NoTxn, i |-> 0]

Call(f, pc, g) == stack' = Append(WithTop([f EXCEPT !.pc = pc, !.ret = None]), g)

canRetryNetworkErrorForCommand(f) == conf.net /\ (f.txn # NoTxn => f.cmd \in CommitOrAbort)

Ids(s) == {s[i].id : i \in DOMAIN s}

\* The test gets r.
Reached(r) ==
    CASE r = "assertion" -> r
      [] r \in Exceptions \ {"assertion"} /\ thrown = None -> "exception"
      [] OTHER -> thrown

\* The end of runCommandOverride, with a response or an exception.
Return(f, r) ==
    /\ inCommandNetworkErrorRetry' = FALSE
    /\ IF Len(stack) = 1
       THEN /\ stack' = <<>>
            /\ thrown' = Reached(r)
            /\ acked' = IF r = "ok" /\ f.cmd = "insert" THEN acked \cup {f.id} ELSE acked
       ELSE /\ stack' = [Front(stack) EXCEPT ![Len(stack) - 1].ret = r]
            /\ UNCHANGED <<thrown, acked>>

\* Slip: also for the commands of the override itself.
EndsAnyTransaction(r) == conf.txn /\ hasError(r) /\ ops # <<>>

\* An error that the test gets ends the transaction.
EndsTransaction(r) == conf.txn /\ Len(stack) = 1 /\ hasError(r) /\ ops # <<>>

\* runCommandOverrideBody has returned.
Finish(f, r) ==
    IF EndsTransaction(r)
    THEN /\ ops' = <<>> /\ acked' = acked \ Ids(ops)
         /\ Call([f EXCEPT !.res = r], "clearing", NewFrame("abort", f.id, FALSE, txnNumber))
         /\ UNCHANGED <<thrown, inCommandNetworkErrorRetry>>
    ELSE Return(f, r) /\ UNCHANGED ops

Resend(f, retry) ==
    /\ stack' = WithTop([f EXCEPT !.pc = "send", !.inCatch = FALSE])
    /\ inCommandNetworkErrorRetry' = (inCommandNetworkErrorRetry \/ retry)
    /\ UNCHANGED <<ops, acked, thrown>>

\* Slip: an error that is acceptable after a retry is retried as well.
ContinuesOnAcceptable(f, r) ==
    /\ canRetryNetworkErrorForCommand(f) /\ f.cmd # "insert"
    /\ r \in {"retryable", "writeConcernError", "exists"}

\* When shouldRetryWithNetworkErrorOverride returns kContinue.
Continues(f, r) ==
    /\ canRetryNetworkErrorForCommand(f) /\ f.cmd # "insert"
    /\ r \in {"retryable", "writeConcernError"}

\* shouldRetryWithNetworkErrorOverride: kContinue, an acceptable error, or the response.
Decide(f, r) ==
    /\ IF Continues(f, r)
       THEN Resend(f, FALSE)
       ELSE Finish(f, IF canRetryNetworkErrorForCommand(f) /\ f.cmd = "create" /\ r = "exists"
                      THEN "ok" ELSE r)
    /\ UNCHANGED txnNumber

retryEntireTransaction(f, inCatch) ==
    IF ops = <<>> THEN Return(f, "assertion") /\ UNCHANGED <<ops, txnNumber>>
    ELSE /\ txnNumber' = txnNumber + 1
         /\ Call([f EXCEPT !.inCatch = inCatch, !.retried = txnNumber + 1, !.i = 1], "retrying",
                 NewFrame(ops[1].cmd, ops[1].id, ops[1].start, txnNumber + 1))
         /\ UNCHANGED <<ops, acked, thrown, inCommandNetworkErrorRetry>>

\* The catch block: retryWithTxnOverrideException, then
\* shouldRetryWithNetworkExceptionOverride.
Caught(f, e) ==
    LET network == e \in {"network", "networkTransient"}
        whole == /\ conf.txn
                 /\ \/ e = "networkTransient" /\ f.cmd # "abort"
                    \/ conf.net /\ network /\ ~canRetryNetworkErrorForCommand(f)
        again == /\ canRetryNetworkErrorForCommand(f) /\ f.left > 0
                 /\ e = "noHost" \/ (network /\ f.cmd # "insert")
        throw == Return(f, e) /\ UNCHANGED <<ops, txnNumber>>
    IN IF f.inCatch THEN throw
       ELSE IF whole THEN retryEntireTransaction(f, TRUE)
       ELSE IF again
       THEN \/ Resend(IF network THEN [f EXCEPT !.left = @ - 1] ELSE f, TRUE) /\ UNCHANGED txnNumber
            \/ e = "noHost" /\ throw  \* after five minutes
       ELSE throw

----------------------------------------------------------------------------
(***************************************************************************)
(* The steps of the shell.                                                 *)
(***************************************************************************)
others == <<conf, issued, nonTxnAggCursorSet, srv, faults>>

\* continueTransaction of a command of the test, in a new transaction or in the current one.
Pushed(cmd, id, start) == [cmd |-> cmd, id |-> id, start |-> start]

\* Of the commands modelled, one is refused where network errors are retried.
validateCmdNetworkErrorCompatibility(cmd) == cmd # "getMore"

\* The test calls runCommand: validateCmdNetworkErrorCompatibility, then
\* setupTransactionCommand.  supportsTxn is what the latter finds out.
Issue(cmd, supportsTxn) ==
    LET id == Len(issued) + 1
        refused == \/ conf.net /\ ~validateCmdNetworkErrorCompatibility(cmd)
                   \/ conf.txn /\ supportsTxn /\ cmd = "getMore" /\ ops = <<>>
        fresh == ops = <<>>
        ends == ops # <<>> /\ (supportsTxn => cmd # "getMore" /\ Len(ops) >= maxOpsInTransaction)
    IN /\ stack = <<>> /\ Len(issued) < MaxCommands
       /\ issued' = Append(issued, cmd)
       /\ thrown' = IF refused THEN Reached("other") ELSE thrown
       /\ IF refused THEN UNCHANGED <<stack, ops, txnNumber>>
          ELSE IF conf.txn /\ ends
          THEN /\ stack' = <<[NewFrame(cmd, id, supportsTxn, NoTxn) EXCEPT !.pc = "setup"],
                             NewFrame("commit", id, FALSE, txnNumber)>>
               /\ UNCHANGED <<ops, txnNumber>>
          ELSE IF conf.txn /\ supportsTxn
          THEN /\ txnNumber' = IF fresh THEN txnNumber + 1 ELSE txnNumber
               /\ ops' = Append(ops, Pushed(cmd, id, fresh))
               /\ stack' = <<NewFrame(cmd, id, fresh, txnNumber')>>
          ELSE /\ stack' = <<NewFrame(cmd, id, FALSE, NoTxn)>>
               /\ UNCHANGED <<ops, txnNumber>>
       /\ UNCHANGED <<conf, inCommandNetworkErrorRetry, nonTxnAggCursorSet, acked, srv, faults>>

\* clientFunction.apply()
Send ==
    /\ stack # <<>> /\ Top.pc = "send"
    /\ \/ /\ stack' = WithTop([Top EXCEPT !.pc = "got", !.res = Handled(Top)[2]])
          /\ srv' = Handled(Top)[1]
          /\ UNCHANGED faults
       \/ /\ faults < MaxFaults /\ faults' = faults + 1
          /\ \E o \in Disturbed(Top) :
                /\ srv' = o[1]
                /\ stack' = WithTop([Top EXCEPT !.pc = "got", !.res = o[2]])
    /\ nonTxnAggCursorSet' = IF conf.txn /\ Top.cmd = "aggregate" /\ stack'[Len(stack)].res = "ok"
                             THEN nonTxnAggCursorSet \cup {Top.id} ELSE nonTxnAggCursorSet
    /\ UNCHANGED <<conf, issued, ops, txnNumber, inCommandNetworkErrorRetry, acked, thrown>>

\* The response or the exception of the command itself; the first part of
\* retryWithTxnOverride.
Got ==
    LET f == Top
    IN /\ stack # <<>> /\ Top.pc = "got"
       /\ IF f.res \in Exceptions THEN Caught(f, f.res)
          ELSE IF conf.txn /\ hasError(f.res) /\ f.cmd \notin CommitOrAbort /\ f.txn # NoTxn
          THEN /\ IF ops = <<>> THEN Return(f, "assertion")
                  ELSE /\ Call(f, "aborting", NewFrame("abort", f.id, FALSE, txnNumber))
                       /\ UNCHANGED <<acked, thrown, inCommandNetworkErrorRetry>>
               /\ UNCHANGED <<ops, txnNumber>>
          ELSE IF conf.txn /\ f.res = "transient" /\ f.cmd # "abort"
          THEN retryEntireTransaction(f, FALSE)
          ELSE Decide(f, f.res)
       /\ UNCHANGED others

\* A callee has returned to the frame on top.
Returned(pc) == stack # <<>> /\ Top.pc = pc /\ Top.ret # None

\* assert.commandWorked() of what a callee returned: the exception it causes.
Thrown(r) == IF r \in Exceptions THEN r ELSE "other"

\* setupTransactionCommand after commitTransaction.
Setup ==
    LET f == Top
    IN /\ Returned("setup")
       /\ IF f.ret = "ok"
          THEN /\ txnNumber' = IF f.start THEN txnNumber + 1 ELSE txnNumber
               /\ ops' = IF f.start THEN <<Pushed(f.cmd, f.id, TRUE)>> ELSE <<>>
               /\ stack' = <<NewFrame(f.cmd, f.id, f.start, IF f.start THEN txnNumber' ELSE NoTxn)>>
               /\ UNCHANGED <<acked, thrown, inCommandNetworkErrorRetry>>
          ELSE Return(f, Thrown(f.ret)) /\ UNCHANGED <<ops, txnNumber>>
       /\ UNCHANGED others

\* retryWithTxnOverride after abortTransaction.
AbortReturned ==
    LET f == Top
    IN /\ Returned("aborting")
       /\ IF f.ret \notin {"ok", "transient"} THEN Caught(f, Thrown(f.ret))
          ELSE IF f.cmd = "insert" /\ f.res = "notSupported"
          THEN /\ Call(f, "creating", NewFrame("create", f.id, FALSE, NoTxn))
               /\ UNCHANGED <<ops, txnNumber, acked, thrown, inCommandNetworkErrorRetry>>
          ELSE IF f.res = "transient" \/ (conf.net /\ f.res = "retryable")
          THEN retryEntireTransaction(f, FALSE)
          ELSE Decide(f, f.res)
       /\ UNCHANGED others

\* retryWithTxnOverride after createCollectionExplicitly.
CreateReturned ==
    /\ Returned("creating")
    /\ IF Top.ret = "ok" THEN retryEntireTransaction(Top, FALSE) ELSE Caught(Top, Thrown(Top.ret))
    /\ UNCHANGED others

\* Slip: a retry goes on although a retry below it has run all commands.
ReplayGoesOnAnyway(f, r) == ~hasError(r) /\ f.i < Len(ops)

\* Does the loop of retryEntireTransaction run another command?
ReplayGoesOn(f, r) == ~hasError(r) /\ txnNumber = f.retried /\ f.i < Len(ops)

\* The loop of retryEntireTransaction, and the commit after it.
OpReturned ==
    LET f == Top
        r == Top.ret
        next == ops[f.i + 1]
    IN /\ Returned("retrying")
       /\ IF r \in Exceptions THEN Caught(f, r)
          ELSE IF ReplayGoesOn(f, r)
          THEN /\ Call([f EXCEPT !.i = @ + 1], "retrying",
                       NewFrame(next.cmd, next.id, next.start, txnNumber))
               /\ UNCHANGED <<ops, txnNumber, acked, thrown, inCommandNetworkErrorRetry>>
          ELSE IF f.cmd = "commit" /\ ~hasError(r)
          THEN /\ Call([f EXCEPT !.res = r], "recommit", NewFrame("commit", f.id, FALSE, txnNumber))
               /\ UNCHANGED <<ops, txnNumber, acked, thrown, inCommandNetworkErrorRetry>>
          ELSE IF f.inCatch THEN Finish(f, r) /\ UNCHANGED txnNumber
          ELSE Decide(f, r)
       /\ UNCHANGED others

\* retryWithTxnOverride of a commit, after commitTransaction.
RecommitReturned ==
    /\ Returned("recommit")
    /\ IF Top.ret = "ok"
       THEN ops' = <<>> /\ Return(Top, Top.res) /\ UNCHANGED txnNumber
       ELSE Caught(Top, Thrown(Top.ret))
    /\ UNCHANGED others

\* runCommandOverride after clearOpsList and abortTransaction.
Cleared ==
    /\ Returned("clearing")
    /\ Return(Top, IF Top.ret \in {"ok", "transient"} THEN Top.res ELSE Thrown(Top.ret))
    /\ UNCHANGED <<ops, txnNumber>> /\ UNCHANGED others

Shell == Send \/ Got \/ Setup \/ AbortReturned \/ CreateReturned \/ OpReturned
         \/ RecommitReturned \/ Cleared

\* The test: any commands in any order, a getMore on a cursor it has opened.
Test ==
    \/ \E cmd \in Kinds \ {"getMore"} : Issue(cmd, cmd \in Statements)
    \/ \E c \in 1 .. Len(issued) :
          issued[c] \in {"find", "aggregate"} /\ Issue("getMore", c \notin nonTxnAggCursorSet)

Next == Test \/ Shell \/ Failover \/ Replicate

Spec == Init /\ [][Next]_vars

\* The shell is one thread; its test need not issue another command.
FairSpec == Spec /\ WF_vars(Shell)

----------------------------------------------------------------------------
(***************************************************************************)
(* What the override promises to a test.  The inserts of the transaction   *)
(* that is not durable yet are pending.                                    *)
(***************************************************************************)
Inserts(s) ==
    LET t == SelectSeq(s, LAMBDA op : op.cmd = "insert") IN [i \in DOMAIN t |-> t[i].id]

CommittedForGood == srv.num = txnNumber /\ srv.st = "committed" /\ srv.tail = <<>>

S == INSTANCE Session WITH
        Commands <- 1 .. MaxCommands,
        pending <- IF CommittedForGood THEN <<>> ELSE Inserts(ops),
        stored <- srv.db, acked <- acked, broken <- thrown # None

(* The override implements Session: through retries of single commands, of *)
(* whole transactions and of commits whose outcome is unknown, in nested   *)
(* calls, an insert that returned ok to the test is in the database once   *)
(* or in the transaction in progress, in the order of the test; it is lost *)
(* only when a later command of its transaction returns an error.          *)
KeepsSession == S!Spec

(* None of the override's assertions about its own state fails, at any     *)
(* depth of nesting, nor reaches the test: there are always commands to    *)
(* run again when a statement of a transaction has failed or a transaction *)
(* must be retried, a transaction that is committed or aborted has been    *)
(* started, and no command of the test finds the retry of another on.      *)
AssertionsHold ==
    /\ thrown # "assertion"
    /\ \A k \in DOMAIN stack :
          /\ stack[k].ret # "assertion" /\ stack[k].res # "assertion"
          /\ stack[k].cmd \in CommitOrAbort => stack[k].txn >= 0
    /\ stack = <<>> => ~inCommandNetworkErrorRetry

(* Every runCommand of the test returns or throws, however its retries     *)
(* nest: network errors use up kMaxNumRetries, and the responses that are  *)
(* retried without counting stop with the disturbance that causes them.    *)
CommandsReturn == (stack # <<>>) ~> (stack = <<>>)

=============================================================================
