------------------------- MODULE CompletenessProofs -------------------------
(***************************************************************************)
(* Proofs about Executor: no test is run by two jobs at once, none is lost *)
(* unless a job gives up, and none is run too often, for any number of     *)
(* jobs, tests, repetitions and Ctrl-C.                                    *)
(***************************************************************************)
EXTENDS ExecutorProofs

InSeq(q, e) == \E i \in DOMAIN q : q[i] = e

Distinct(q) == \A i, k \in DOMAIN q : i # k => q[i] # q[k]

Owned(e) == \E j \in Jobs : pc[j] \in Owning /\ held[j] = e

Satisfied(e) == e \in hist.ran /\ ~ShouldRequeue(elems[e])

Interrupting == \E j \in Jobs : pc[j] = "interrupt"

\* The threads that are still to look at the queue once more.
InLoop == {"none", "setup", "before_suite", "empty", "flag", "get", "exec", "requeue",
           "put", "interrupt"}

\* An element is queued, owned or satisfied until some thread gives up.
NothingLost ==
    Running /\ ~interruptFlag /\ ~Interrupting =>
        \A e \in Elems : InSeq(queue, e) \/ Owned(e) \/ Satisfied(e)

\* A thread that may requeue its element has run it.
RanBeforeRequeue == \A j \in Jobs : pc[j] \in {"requeue", "put"} => held[j] \in hist.ran

\* A queue that is not empty has a thread that will look at it.
QueueServed == Running /\ ~interruptFlag /\ queue # <<>> => \E j \in Jobs : pc[j] \in InLoop

\* Only an interrupt makes a thread drain the queue.
DrainFlagged ==
    \A j \in Jobs : pc[j] \in {"drain_empty", "drain_get", "drain_done"} => interruptFlag

\* The main thread starts the threads in turn, and waits for threads it did not
\* start only after a Ctrl-C.
AllStarted ==
    \A j \in Jobs :
        \/ main.pc = "start" /\ j < main.next
        \/ main.pc = "join"
        \/ main.pc = "thr_join" /\ ~main.user_interrupted
        => pc[j] # "none"

UserFlag == Running /\ main.user_interrupted => interruptFlag

Coverage ==
    NothingLost /\ RanBeforeRequeue /\ QueueServed /\ DrainFlagged /\ AllStarted /\ UserFlag

\* An element that may be run again was not run yet or asked to be requeued.
RunsJustified ==
    /\ \A e \in Elems :
        InSeq(queue, e) => elems[e].repeat_num = 0 \/ ShouldRequeue(elems[e])
    /\ \A j \in Jobs :
        pc[j] \in {"exec", "put"} =>
            elems[held[j]].repeat_num = 0 \/ ShouldRequeue(elems[held[j]])
    /\ RunsBounded

-----------------------------------------------------------------------------
(* Queues. *)

\* Taking the first element of a queue without duplicates removes just that.
LEMMA TailFacts ==
    ASSUME NEW q \in Seq(Elems), q # <<>>
    PROVE  /\ \A e : InSeq(q, e) => e = Head(q) \/ InSeq(Tail(q), e)
           /\ \A e : InSeq(Tail(q), e) => InSeq(q, e)
           /\ InSeq(q, Head(q))
           /\ Distinct(q) => Distinct(Tail(q)) /\ ~InSeq(Tail(q), Head(q))
<1>1. /\ Len(q) \in Nat \ {0} /\ DOMAIN q = 1 .. Len(q) /\ Head(q) = q[1]
      /\ DOMAIN Tail(q) = 1 .. Len(q) - 1
      /\ \A i \in 1 .. Len(q) - 1 : Tail(q)[i] = q[i + 1]
  OBVIOUS
<1>2. ASSUME NEW e, InSeq(q, e) PROVE e = Head(q) \/ InSeq(Tail(q), e)
  <2>1. PICK i \in 1 .. Len(q) : q[i] = e
    BY <1>1, <1>2 DEF InSeq
  <2>2. CASE i = 1
    BY <1>1, <2>1, <2>2
  <2>3. CASE i # 1
    <3>1. i - 1 \in 1 .. Len(q) - 1 /\ (i - 1) + 1 = i
      BY <1>1, <2>3
    <3> QED
      BY <1>1, <2>1, <3>1 DEF InSeq
  <2> QED
    BY <2>2, <2>3
<1>3. ASSUME NEW i \in 1 .. Len(q) - 1 PROVE i + 1 \in 1 .. Len(q) /\ i + 1 # 1
  BY <1>1
<1> QED
  BY <1>1, <1>2, <1>3 DEF InSeq, Distinct

\* Putting an element at the end of a queue adds just that.
LEMMA AppendFacts ==
    ASSUME NEW q \in Seq(Elems), NEW x \in Elems
    PROVE  /\ \A e : InSeq(Append(q, x), e) <=> e = x \/ InSeq(q, e)
           /\ Distinct(q) /\ ~InSeq(q, x) => Distinct(Append(q, x))
<1>1. /\ Len(q) \in Nat /\ DOMAIN q = 1 .. Len(q)
      /\ DOMAIN Append(q, x) = 1 .. Len(q) + 1
      /\ \A i \in 1 .. Len(q) : Append(q, x)[i] = q[i]
      /\ Append(q, x)[Len(q) + 1] = x
  OBVIOUS
<1>2. \A i : i \in 1 .. Len(q) + 1 <=> i \in 1 .. Len(q) \/ i = Len(q) + 1
  BY <1>1
<1> QED
  BY <1>1, <1>2 DEF InSeq, Distinct

\* The fresh queue holds each element once.
LEMMA TestQueueFacts == Distinct(MakeTestQueue) /\ \A e \in Elems : InSeq(MakeTestQueue, e)
  BY DEF MakeTestQueue, InSeq, Distinct

-----------------------------------------------------------------------------
(* Ownership. *)

\* Threads that only give up elements keep the owners apart.
LEMMA OwnersShrink ==
    ASSUME ElementOwnedOnce, queue' = queue,
           \A k \in Jobs : pc'[k] \in Owning => pc[k] \in Owning /\ held'[k] = held[k]
    PROVE  ElementOwnedOnce'
  BY DEF ElementOwnedOnce

\* A step of a Job thread hands each element to at most one owner.
LEMMA OwnershipJob ==
    ASSUME Counting, ElementOwnedOnce, NEW j \in Jobs, Job(j)
    PROVE  ElementOwnedOnce'
<1> USE DEF Counting, TypeOK, queueVars
<1>1. CASE SetupFixture(j)
  BY <1>1, OwnersShrink DEF SetupFixture, Owning
<1>2. CASE BeforeSuite(j) \/ AfterSuite(j) \/ CheckEmpty(j) \/ CheckFlag(j)
  BY <1>2, OwnersShrink
     DEF BeforeSuite, AfterSuite, CheckEmpty, CheckFlag, GoTo, AfterRun, Owning
<1>3. CASE GetNowait(j)
  <2>1. CASE queue # <<>>
    <3>1. /\ queue' = Tail(queue) /\ held' = [held EXCEPT ![j] = Head(queue)]
          /\ pc' = [pc EXCEPT ![j] = "exec"]
      BY <1>3, <2>1 DEF GetNowait, GoTo
    <3>2. /\ Distinct(Tail(queue)) /\ ~InSeq(Tail(queue), Head(queue))
          /\ \A e : InSeq(Tail(queue), e) => InSeq(queue, e)
          /\ InSeq(queue, Head(queue))
      BY <2>1, TailFacts DEF ElementOwnedOnce, Distinct
    <3>3. \A k \in Jobs : pc[k] \in Owning => ~InSeq(queue, held[k])
      BY DEF ElementOwnedOnce, InSeq
    <3>4. \A k \in Jobs : pc'[k] \in Owning =>
              ~InSeq(queue', held'[k]) /\ (k # j => pc[k] \in Owning /\ held'[k] = held[k])
      BY <3>1, <3>2, <3>3
    <3>5. \A k, l \in Jobs : k # l /\ pc'[k] \in Owning /\ pc'[l] \in Owning
              => held'[k] # held'[l]
      <4> SUFFICES ASSUME NEW k \in Jobs, NEW l \in Jobs, k # l,
                          pc'[k] \in Owning, pc'[l] \in Owning
                   PROVE  held'[k] # held'[l]
        OBVIOUS
      <4>1. CASE k = j
        BY <3>1, <3>2, <3>3, <3>4, <4>1
      <4>2. CASE l = j
        BY <3>1, <3>2, <3>3, <3>4, <4>2
      <4>3. CASE k # j /\ l # j
        BY <3>4, <4>3 DEF ElementOwnedOnce
      <4> QED
        BY <4>1, <4>2, <4>3
    <3> QED
      BY <3>1, <3>2, <3>4, <3>5 DEF ElementOwnedOnce, InSeq, Distinct
  <2>2. CASE queue = <<>>
    BY <1>3, <2>2, OwnersShrink DEF GetNowait, GoTo, Owning
  <2> QED
    BY <2>1, <2>2
<1>4. CASE ExecuteTest(j)
  BY <1>4, OwnersShrink DEF ExecuteTest, Owning
<1>5. CASE RequeueTest(j)
  BY <1>5, OwnersShrink DEF RequeueTest, GoTo, Owning
<1>6. CASE PutBack(j)
  <2>1. /\ queue' = Append(queue, held[j]) /\ pc[j] = "put"
        /\ pc' = [pc EXCEPT ![j] = "empty"] /\ held' = [held EXCEPT ![j] = NoElem]
    BY <1>6 DEF PutBack, GoTo
  <2>2. held[j] \in Elems /\ ~InSeq(queue, held[j]) /\ Distinct(queue)
    BY <2>1 DEF HeldElement, ElementOwnedOnce, InSeq, Distinct, Owning
  <2>3. /\ Distinct(queue')
        /\ \A e : InSeq(queue', e) <=> e = held[j] \/ InSeq(queue, e)
    BY <2>1, <2>2, AppendFacts
  <2>4. \A k \in Jobs : pc'[k] \in Owning =>
            k # j /\ pc[k] \in Owning /\ held'[k] = held[k]
    BY <2>1 DEF Owning
  <2>5. \A k \in Jobs : pc'[k] \in Owning => ~InSeq(queue', held'[k])
    BY <2>1, <2>3, <2>4 DEF ElementOwnedOnce, InSeq, Owning
  <2> QED
    BY <2>3, <2>4, <2>5 DEF ElementOwnedOnce, InSeq, Distinct
<1>7. CASE InterruptAllJobs(j)
  BY <1>7, OwnersShrink DEF InterruptAllJobs, GoTo, Owning
<1>8. CASE DrainCheck(j) \/ DrainDone(j)
  BY <1>8, OwnersShrink DEF DrainCheck, DrainDone, GoTo, AfterRun, Owning
<1>9. CASE DrainGet(j)
  <2>1. CASE queue # <<>>
    <3>1. /\ queue' = Tail(queue) /\ held' = held
          /\ \A k \in Jobs : pc'[k] \in Owning => pc[k] \in Owning
      BY <1>9, <2>1 DEF DrainGet, GoTo, Owning
    <3>2. /\ Distinct(Tail(queue))
          /\ \A e : InSeq(Tail(queue), e) => InSeq(queue, e)
      BY <2>1, TailFacts DEF ElementOwnedOnce, Distinct
    <3>3. \A k \in Jobs : pc'[k] \in Owning => ~InSeq(queue', held'[k])
      BY <3>1, <3>2 DEF ElementOwnedOnce, InSeq
    <3> QED
      BY <3>1, <3>2, <3>3 DEF ElementOwnedOnce, InSeq, Distinct
  <2>2. CASE queue = <<>>
    BY <1>9, <2>2, OwnersShrink DEF DrainGet, GoTo, AfterRun, Owning
  <2> QED
    BY <2>1, <2>2
<1>10. CASE TeardownFixture(j)
  BY <1>10, OwnersShrink DEF TeardownFixture, GoTo, Owning
<1> QED
  BY <1>1, <1>2, <1>3, <1>4, <1>5, <1>6, <1>7, <1>8, <1>9, <1>10 DEF Job

\* No test is run by two jobs at once, and none is queued while a job may still run
\* or requeue it.
THEOREM ElementOwnedOnceHolds == Spec => []ElementOwnedOnce
<1>1. Init => ElementOwnedOnce
  BY DEF Init, ElementOwnedOnce, Owning
<1>2. ASSUME Counting, ElementOwnedOnce, [Next]_vars PROVE ElementOwnedOnce'
  <2> USE DEF queueVars
  <2>1. CASE UNCHANGED vars
    BY <1>2, <2>1 DEF ElementOwnedOnce, vars
  <2>2. ASSUME NEW j \in Jobs, Job(j) PROVE ElementOwnedOnce'
    BY <1>2, <2>2, OwnershipJob
  <2>3. CASE BeginRepetition
    BY <2>3, TestQueueFacts DEF BeginRepetition, ElementOwnedOnce, Distinct, Owning
  <2>4. CASE StartThread
    <3>1. main.next \in Jobs
      BY <1>2, <2>4 DEF StartThread, Counting, StartOrder
    <3> QED
      BY <1>2, <2>4, <3>1, OwnersShrink DEF StartThread, Counting, TypeOK, Owning
  <2>5. CASE UNCHANGED <<queue, pc, held>>
    BY <1>2, <2>5 DEF ElementOwnedOnce
  <2>6. CASE LoopDone \/ JoinQueue \/ SetupFailed \/ RaiseUserInterrupt \/ EndRepetition
    BY <2>5, <2>6 DEF LoopDone, JoinQueue, SetupFailed, RaiseUserInterrupt, EndRepetition
  <2>7. CASE Finally \/ TeardownNext \/ TeardownDone \/ CtrlC
    BY <2>5, <2>7 DEF Finally, TeardownNext, TeardownDone, CtrlC, UserInterrupt,
                      InterruptThreadJoin, InterruptTeardown
  <2> QED
    BY <1>2, <2>1, <2>2, <2>3, <2>4, <2>6, <2>7 DEF Next, MainThread
<1> QED
  BY <1>1, <1>2, CountingInvariant, PTL DEF Spec

-----------------------------------------------------------------------------
(* Coverage. *)

Draining == {"drain_empty", "drain_get", "drain_done"}

\* A thread that moves on without touching the queue or an element of its own
\* loses nothing, if it gives up only with the flag set or the queue empty.
LEMMA PlainMove ==
    ASSUME TypeOK, Coverage, NEW j \in Jobs, NEW s \in JobStates \ Owning,
           pc[j] \notin Owning, s # "none", pc' = [pc EXCEPT ![j] = s],
           UNCHANGED <<queue, held, elems, hist, main>>,
           interruptFlag => interruptFlag',
           pc[j] = "interrupt" => interruptFlag',
           s \in InLoop \/ pc[j] \notin InLoop \/ queue = <<>> \/ interruptFlag',
           s \in Draining => interruptFlag'
    PROVE  Coverage'
<1>1. \A k \in Jobs : pc'[k] = IF k = j THEN s ELSE pc[k]
  BY DEF TypeOK
<1>2. NothingLost'
  <2> SUFFICES ASSUME Running, ~interruptFlag', ~Interrupting', NEW e \in Elems
               PROVE  InSeq(queue, e) \/ Owned(e)' \/ Satisfied(e)
    BY DEF NothingLost, Running, Satisfied, ShouldRequeue
  <2>1. ~Interrupting
    BY <1>1 DEF Interrupting
  <2>2. Owned(e) => Owned(e)'
    BY <1>1 DEF Owned
  <2> QED
    BY <2>1, <2>2 DEF Coverage, NothingLost
<1>3. RanBeforeRequeue'
  BY <1>1 DEF Coverage, RanBeforeRequeue, Owning
<1>4. QueueServed'
  BY <1>1 DEF Coverage, QueueServed, Running
<1>5. DrainFlagged' /\ AllStarted' /\ UserFlag'
  BY <1>1 DEF Coverage, DrainFlagged, Draining, AllStarted, UserFlag, Running
<1> QED
  BY <1>2, <1>3, <1>4, <1>5 DEF Coverage

\* A step of a Job thread loses no element.
LEMMA CoverageJob ==
    ASSUME Counting, Coverage, NEW j \in Jobs, Job(j)
    PROVE  Coverage'
<1> USE DEF Counting, queueVars, flagVars
<1>t. TypeOK /\ (AfterRun \in {"done", "teardown"})
  BY DEF AfterRun
<1>1. CASE SetupFixture(j)
  <2>1. PICK o \in FixtureOutcomes :
            /\ pc' = [pc EXCEPT ![j] = IF o = "pass" THEN "before_suite" ELSE "drain_empty"]
            /\ interruptFlag' = (interruptFlag \/ o # "pass")
    BY <1>1 DEF SetupFixture
  <2>2. pc[j] = "setup" /\ UNCHANGED <<queue, held, elems, hist, main>>
    BY <1>1 DEF SetupFixture
  <2>3. CASE o = "pass"
    BY <1>t, <2>1, <2>2, <2>3, PlainMove DEF Owning, InLoop, Draining, JobStates
  <2>4. CASE o # "pass"
    BY <1>t, <2>1, <2>2, <2>4, PlainMove DEF Owning, InLoop, Draining, JobStates
  <2> QED
    BY <2>3, <2>4
<1>2. CASE BeforeSuite(j)
  BY <1>t, <1>2, PlainMove DEF BeforeSuite, GoTo, Owning, InLoop, Draining, JobStates
<1>3. CASE AfterSuite(j)
  BY <1>t, <1>3, PlainMove DEF AfterSuite, GoTo, Owning, InLoop, Draining, JobStates
<1>4. CASE CheckEmpty(j)
  BY <1>t, <1>4, PlainMove DEF CheckEmpty, GoTo, Owning, InLoop, Draining, JobStates
<1>5. CASE CheckFlag(j)
  BY <1>t, <1>5, PlainMove DEF CheckFlag, GoTo, Owning, InLoop, Draining, JobStates
<1>6. CASE GetNowait(j)
  <2>1. CASE queue = <<>>
    BY <1>t, <1>6, <2>1, PlainMove DEF GetNowait, GoTo, Owning, InLoop, Draining, JobStates
  <2>2. CASE queue # <<>>
    <3>1. /\ pc[j] = "get" /\ pc' = [pc EXCEPT ![j] = "exec"]
          /\ held' = [held EXCEPT ![j] = Head(queue)] /\ queue' = Tail(queue)
          /\ UNCHANGED <<elems, interruptFlag, hist, main>>
      BY <1>6, <2>2 DEF GetNowait, GoTo
    <3>2. \A k \in Jobs : /\ pc'[k] = IF k = j THEN "exec" ELSE pc[k]
                          /\ held'[k] = IF k = j THEN Head(queue) ELSE held[k]
      BY <3>1 DEF TypeOK
    <3>3. \A e \in Elems : InSeq(queue, e) => e = Head(queue) \/ InSeq(queue', e)
      BY <2>2, <3>1, TailFacts DEF TypeOK
    <3>4. \A e \in Elems : InSeq(queue, e) \/ Owned(e) => InSeq(queue', e) \/ Owned(e)'
      BY <3>1, <3>2, <3>3 DEF Owned, Owning
    <3>5. NothingLost'
      <4>1. Interrupting => Interrupting'
        BY <3>1, <3>2 DEF Interrupting
      <4>2. \A e \in Elems : Satisfied(e)' <=> Satisfied(e)
        BY <3>1 DEF Satisfied, ShouldRequeue
      <4> QED
        BY <3>1, <3>4, <4>1, <4>2 DEF Coverage, NothingLost, Running
    <3>6. RanBeforeRequeue' /\ QueueServed' /\ DrainFlagged' /\ AllStarted' /\ UserFlag'
      BY <3>1, <3>2 DEF Coverage, RanBeforeRequeue, QueueServed, InLoop, DrainFlagged,
                        AllStarted, UserFlag, Running
    <3> QED
      BY <3>5, <3>6 DEF Coverage
  <2> QED
    BY <2>1, <2>2
<1>7. CASE ExecuteTest(j)
  <2>1. PICK o \in ExecOutcomes(FailFast), job_time \in 0 .. MaxTestTime :
            /\ pc' = [pc EXCEPT ![j] = IF o.stop THEN "interrupt" ELSE "requeue"]
            /\ held' = [held EXCEPT ![j] = IF o.stop THEN NoElem ELSE @]
            /\ elems' = [elems EXCEPT ![held[j]] = JobCompleted(@, job_time)]
            /\ hist' = [hist EXCEPT !.ran = IF o.ran THEN @ \cup {held[j]} ELSE @]
    BY <1>7 DEF ExecuteTest
  <2>2. pc[j] = "exec" /\ UNCHANGED <<queue, interruptFlag, main>>
    BY <1>7 DEF ExecuteTest
  <2>3. \A k \in Jobs : /\ pc'[k] = IF k = j THEN (IF o.stop THEN "interrupt" ELSE "requeue")
                                             ELSE pc[k]
                        /\ k # j => held'[k] = held[k]
                        /\ ~o.stop => held'[k] = held[k]
    BY <2>1 DEF TypeOK
  <2>4. hist.ran \subseteq hist'.ran /\ (o.ran => held[j] \in hist'.ran)
    BY <2>1 DEF TypeOK, History
  <2>5. ~o.stop => o.ran
    BY DEF ExecOutcomes
  <2>6. NothingLost'
    <3>1. CASE o.stop
      BY <2>3, <3>1 DEF NothingLost, Interrupting
    <3>2. CASE ~o.stop
      <4> SUFFICES ASSUME Running, ~interruptFlag, ~Interrupting', NEW e \in Elems
                   PROVE  InSeq(queue, e) \/ Owned(e)' \/ Satisfied(e)'
        BY <2>2 DEF NothingLost, Running
      <4>1. ~Interrupting
        BY <2>2, <2>3 DEF Interrupting
      <4>2. Owned(e) => Owned(e)'
        BY <2>3, <3>2 DEF Owned, Owning
      <4>3. CASE e = held[j]
        BY <2>3, <3>2, <4>3 DEF Owned, Owning
      <4>4. CASE e # held[j]
        <5>1. elems'[e] = elems[e]
          BY <2>1, <4>4 DEF TypeOK
        <5>2. Satisfied(e) => Satisfied(e)'
          BY <2>4, <5>1 DEF Satisfied, ShouldRequeue
        <5> QED
          BY <4>1, <4>2, <5>2 DEF Coverage, NothingLost
      <4> QED
        BY <4>3, <4>4
    <3> QED
      BY <3>1, <3>2
  <2>7. RanBeforeRequeue'
    BY <2>3, <2>4, <2>5 DEF Coverage, RanBeforeRequeue
  <2>8. QueueServed' /\ DrainFlagged' /\ AllStarted' /\ UserFlag'
    BY <2>2, <2>3 DEF Coverage, QueueServed, InLoop, DrainFlagged, AllStarted, UserFlag, Running
  <2> QED
    BY <2>6, <2>7, <2>8 DEF Coverage
<1>8. CASE RequeueTest(j)
  <2>1. /\ pc[j] = "requeue"
        /\ UNCHANGED <<queue, elems, interruptFlag, hist, main>>
    BY <1>8 DEF RequeueTest
  <2>2. \A k \in Jobs : k # j => pc'[k] = pc[k] /\ held'[k] = held[k]
    BY <1>8 DEF RequeueTest, GoTo, TypeOK
  <2>3. \/ pc'[j] = "put" /\ held'[j] = held[j]
        \/ pc'[j] = "empty" /\ ~MustPutBack(j)
    BY <1>8 DEF RequeueTest, GoTo, TypeOK
  <2>4. NothingLost'
    <3> SUFFICES ASSUME Running, ~interruptFlag, ~Interrupting', NEW e \in Elems
                 PROVE  InSeq(queue, e) \/ Owned(e)' \/ Satisfied(e)
      BY <2>1 DEF NothingLost, Running, Satisfied, ShouldRequeue
    <3>1. ~Interrupting
      BY <2>1, <2>2 DEF Interrupting
    <3>2. Owned(e) => Owned(e)' \/ (e = held[j] /\ ~MustPutBack(j))
      BY <2>2, <2>3 DEF Owned, Owning
    <3>3. e = held[j] /\ ~MustPutBack(j) => Satisfied(e)
      BY <2>1 DEF MustPutBack, Satisfied, Coverage, RanBeforeRequeue
    <3> QED
      BY <3>1, <3>2, <3>3 DEF Coverage, NothingLost
  <2>5. RanBeforeRequeue' /\ QueueServed' /\ DrainFlagged' /\ AllStarted' /\ UserFlag'
    BY <2>1, <2>2, <2>3 DEF Coverage, RanBeforeRequeue, QueueServed, InLoop, DrainFlagged,
                            AllStarted, UserFlag, Running
  <2> QED
    BY <2>4, <2>5 DEF Coverage
<1>9. CASE PutBack(j)
  <2>1. /\ pc[j] = "put" /\ queue' = Append(queue, held[j])
        /\ UNCHANGED <<elems, interruptFlag, hist, main>>
    BY <1>9 DEF PutBack, GoTo
  <2>2. /\ \A k \in Jobs : k # j => pc'[k] = pc[k] /\ held'[k] = held[k]
        /\ pc'[j] = "empty"
    BY <1>9 DEF PutBack, GoTo, TypeOK
  <2>3. held[j] \in Elems
    BY <2>1 DEF HeldElement, Owning
  <2>4. \A e \in Elems : InSeq(queue', e) <=> e = held[j] \/ InSeq(queue, e)
    BY <2>1, <2>3, AppendFacts DEF TypeOK
  <2>5. NothingLost'
    <3> SUFFICES ASSUME Running, ~interruptFlag, ~Interrupting', NEW e \in Elems
                 PROVE  InSeq(queue', e) \/ Owned(e)' \/ Satisfied(e)
      BY <2>1 DEF NothingLost, Running, Satisfied, ShouldRequeue
    <3>1. ~Interrupting
      BY <2>1, <2>2 DEF Interrupting
    <3>2. Owned(e) => Owned(e)' \/ e = held[j]
      BY <2>2 DEF Owned, Owning
    <3> QED
      BY <2>4, <3>1, <3>2 DEF Coverage, NothingLost
  <2>6. RanBeforeRequeue' /\ QueueServed' /\ DrainFlagged' /\ AllStarted' /\ UserFlag'
    BY <2>1, <2>2 DEF Coverage, RanBeforeRequeue, QueueServed, InLoop, DrainFlagged,
                      AllStarted, UserFlag, Running
  <2> QED
    BY <2>5, <2>6 DEF Coverage
<1>10. CASE InterruptAllJobs(j)
  BY <1>t, <1>10, PlainMove DEF InterruptAllJobs, GoTo, Owning, InLoop, Draining, JobStates
<1>d. pc[j] \in Draining => interruptFlag
  BY DEF Coverage, DrainFlagged, Draining
<1>11. CASE DrainCheck(j)
  BY <1>t, <1>d, <1>11, PlainMove DEF DrainCheck, GoTo, Owning, InLoop, Draining, JobStates
<1>12. CASE DrainDone(j)
  BY <1>t, <1>d, <1>12, PlainMove DEF DrainDone, GoTo, Owning, InLoop, Draining, JobStates
<1>13. CASE DrainGet(j)
  <2>1. /\ pc[j] = "drain_get" /\ UNCHANGED <<interruptFlag, held, hist, main>>
        /\ \A k \in Jobs : k # j => pc'[k] = pc[k]
        /\ pc'[j] \in {"drain_done", "done", "teardown"}
    BY <1>t, <1>13 DEF DrainGet, GoTo, TypeOK
  <2>2. interruptFlag'
    BY <1>d, <2>1 DEF Draining
  <2> QED
    BY <2>1, <2>2 DEF Coverage, NothingLost, RanBeforeRequeue, QueueServed, DrainFlagged,
                      AllStarted, UserFlag, Running
<1>14. CASE TeardownFixture(j)
  BY <1>t, <1>14, PlainMove DEF TeardownFixture, GoTo, Owning, InLoop, Draining, JobStates
<1> QED
  BY <1>1, <1>2, <1>3, <1>4, <1>5, <1>6, <1>7, <1>8, <1>9, <1>10, <1>11, <1>12, <1>13, <1>14
     DEF Job

\* A step of the main thread, or a Ctrl-C, loses no element.
LEMMA CoverageMain ==
    ASSUME Counting, Coverage, MainThread \/ CtrlC
    PROVE  Coverage'
<1> USE DEF Counting, TypeOK, queueVars, flagVars
<1>1. CASE BeginRepetition
  <2>1. /\ queue' = MakeTestQueue /\ pc' = [k \in Jobs |-> "none"]
        /\ main' = [main EXCEPT !.pc = "start", !.next = 1, !.user_interrupted = FALSE]
    BY <1>1 DEF BeginRepetition
  <2>2. main'.pc = "start" /\ main'.next = 1 /\ ~main'.user_interrupted
    BY <2>1 DEF Main
  <2>3. /\ \A e \in Elems : InSeq(queue', e)
        /\ 1 \in Jobs /\ \A k \in Jobs : pc'[k] = "none" /\ ~(k < 1)
    BY <2>1, TestQueueFacts, JobsExist DEF Jobs
  <2> QED
    BY <2>2, <2>3 DEF Coverage, NothingLost, RanBeforeRequeue, QueueServed, InLoop,
                      DrainFlagged, AllStarted, UserFlag, Running
<1>2. CASE StartThread
  <2>a. main.pc = "start" /\ main.next \in Jobs /\ pc[main.next] = "none"
    BY <1>2 DEF StartThread, StartOrder, Main, Jobs
  <2>b. UNCHANGED <<queue, held, elems, hist, interruptFlag>>
    BY <1>2 DEF StartThread
  <2>1. /\ main.pc = "start" /\ main.next \in Jobs /\ pc[main.next] = "none"
        /\ UNCHANGED <<queue, held, elems, hist, interruptFlag>>
        /\ main' = [main EXCEPT !.next = @ + 1, !.pc = IF IsLastThread THEN "join" ELSE @]
    BY <1>2, <2>a, <2>b DEF StartThread
  <2>2. PICK s \in {"before_suite", "setup"} : pc' = [pc EXCEPT ![main.next] = s]
    BY <1>2 DEF StartThread
  <2>3. \A k \in Jobs : pc'[k] = IF k = main.next THEN s ELSE pc[k]
    BY <2>1, <2>2
  <2>4. /\ main'.pc = IF main.next = NumJobsToStart THEN "join" ELSE "start"
        /\ main'.next = main.next + 1 /\ main'.user_interrupted = main.user_interrupted
    BY <2>1 DEF Main, IsLastThread
  <2>5. NothingLost'
    <3>1. (Interrupting => Interrupting') /\ \A e \in Elems : Owned(e) => Owned(e)'
      BY <2>1, <2>3 DEF Interrupting, Owned, Owning
    <3>2. \A e \in Elems : Satisfied(e)' <=> Satisfied(e)
      BY <2>1 DEF Satisfied, ShouldRequeue
    <3>3. Running
      BY <2>1 DEF Running
    <3> QED
      BY <2>1, <3>1, <3>2, <3>3 DEF Coverage, NothingLost
  <2>6. RanBeforeRequeue' /\ DrainFlagged'
    BY <2>1, <2>3 DEF Coverage, RanBeforeRequeue, DrainFlagged
  <2>7. QueueServed'
    BY <2>1, <2>3 DEF QueueServed, InLoop
  <2>8. AllStarted'
    BY <2>1, <2>3, <2>4 DEF Coverage, AllStarted, Jobs
  <2>9. UserFlag'
    BY <2>1, <2>4 DEF Coverage, UserFlag, Running
  <2> QED
    BY <2>5, <2>6, <2>7, <2>8, <2>9 DEF Coverage
<1>3. CASE JoinQueue
  <2>1. /\ main.pc = "join" /\ main' = [main EXCEPT !.pc = "thr_join"]
        /\ UNCHANGED <<queue, elems, interruptFlag, pc, held, hist>>
    BY <1>3 DEF JoinQueue
  <2>2. main'.pc = "thr_join" /\ main'.user_interrupted = main.user_interrupted
    BY <2>1 DEF Main
  <2> QED
    BY <2>1, <2>2 DEF Coverage, NothingLost, Interrupting, Owned, Satisfied, ShouldRequeue,
        RanBeforeRequeue, QueueServed, DrainFlagged, AllStarted, UserFlag, Running
<1>4. CASE UserInterrupt
  <2>1. main'.pc = "thr_join" /\ main'.user_interrupted
    BY <1>4 DEF UserInterrupt, Main
  <2>2. interruptFlag' /\ UNCHANGED <<pc, held, hist>>
    BY <1>4 DEF UserInterrupt
  <2> QED
    BY <2>1, <2>2 DEF Coverage, NothingLost, RanBeforeRequeue, QueueServed, DrainFlagged,
                      AllStarted, UserFlag, Running
<1>s. ASSUME main'.pc \in {"repeat", "finally", "teardown", "done"},
             UNCHANGED <<pc, held, interruptFlag>>, hist'.ran = hist.ran
      PROVE  Coverage'
  BY <1>s DEF Coverage, NothingLost, RanBeforeRequeue, QueueServed, DrainFlagged,
              AllStarted, UserFlag, Running
<1>5. CASE LoopDone
  BY <1>5, <1>s DEF LoopDone, Main
<1>6. CASE SetupFailed \/ RaiseUserInterrupt
  <2>1. hist'.ran = hist.ran
    BY <1>6 DEF SetupFailed, RaiseUserInterrupt, RecordTestEnd, History
  <2>2. main'.pc = "finally"
    BY <1>6 DEF SetupFailed, RaiseUserInterrupt, Main
  <2> QED
    BY <1>6, <1>s, <2>1, <2>2 DEF SetupFailed, RaiseUserInterrupt
<1>7. CASE EndRepetition
  <2>1. hist'.ran = hist.ran
    BY <1>7 DEF EndRepetition, RecordTestEnd, History
  <2>2. main'.pc \in {"finally", "repeat"}
    BY <1>7 DEF EndRepetition, Main
  <2> QED
    BY <1>7, <1>s, <2>1, <2>2 DEF EndRepetition
<1>8. CASE Finally \/ TeardownDone
  BY <1>8, <1>s DEF Finally, TeardownDone, Returned, Main
<1>9. CASE TeardownNext
  <2>1. main'.pc \in {"teardown", "done"}
    BY <1>9 DEF TeardownNext, FixtureOutcomes, Returned, Main
  <2>2. hist'.ran = hist.ran
    BY <1>9 DEF TeardownNext, FixtureOutcomes, History
  <2> QED
    BY <1>9, <1>s, <2>1, <2>2 DEF TeardownNext
<1>10. CASE InterruptThreadJoin
  BY <1>10, <1>s DEF InterruptThreadJoin, Main, History
<1>11. CASE InterruptTeardown
  BY <1>11, <1>s DEF InterruptTeardown, Returned, Main, History
<1> QED
  BY <1>1, <1>2, <1>3, <1>4, <1>5, <1>6, <1>7, <1>8, <1>9, <1>10, <1>11 DEF MainThread, CtrlC

\* Coverage is an invariant: until a thread gives up, every test is waiting, in
\* the hands of a job, or done with (_run and _requeue_test in job.py).
THEOREM CoverageInvariant == Spec => []Coverage
<1>1. Init => Coverage
  BY DEF Init, Coverage, NothingLost, RanBeforeRequeue, QueueServed, DrainFlagged,
         AllStarted, UserFlag, Running
<1>2. ASSUME Counting, Coverage, [Next]_vars PROVE Coverage'
  <2>1. CASE UNCHANGED vars
    BY <1>2, <2>1 DEF vars, queueVars, flagVars, Coverage, NothingLost, Interrupting, Owned,
        Satisfied, ShouldRequeue, RanBeforeRequeue, QueueServed, DrainFlagged, AllStarted,
        UserFlag, Running
  <2> QED
    BY <1>2, <2>1, CoverageJob, CoverageMain DEF Next
<1> QED
  BY <1>1, <1>2, CountingInvariant, PTL DEF Spec

\* A repetition that no job interrupted has run every test, as often as its
\* queue element asks for, and leaves nothing in the queue.
THEOREM CompleteUnlessInterruptedHolds == Spec => []CompleteUnlessInterrupted
<1>1. ASSUME Counting, Coverage PROVE CompleteUnlessInterrupted
  <2> SUFFICES ASSUME ThreadsJoined, ~interruptFlag
               PROVE  /\ queue = <<>> /\ unfinished = 0
                      /\ \A e \in Elems : e \in hist.ran /\ ~ShouldRequeue(elems[e])
    BY DEF CompleteUnlessInterrupted
  <2>1. Running /\ main.pc = "thr_join" /\ ~main.user_interrupted
    BY <1>1 DEF ThreadsJoined, Running, Coverage, UserFlag
  <2>2. \A j \in Jobs : pc[j] = "done"
    BY <1>1, <2>1 DEF ThreadsJoined, Coverage, AllStarted
  <2>3. queue = <<>>
    BY <1>1, <2>1, <2>2 DEF Coverage, QueueServed, InLoop
  <2>4. \A e \in Elems : Satisfied(e)
    BY <1>1, <2>1, <2>2, <2>3 DEF Coverage, NothingLost, Interrupting, Owned, Owning, InSeq
  <2>5. Holders = {}
    BY <2>2 DEF Holders, Holding
  <2>6. Cardinality(Holders) = 0
    BY <2>5, FS_EmptySet
  <2>7. unfinished = 0
    BY <1>1, <2>3, <2>6 DEF Counting, TypeOK, TaskAccounting
  <2> QED
    BY <2>3, <2>4, <2>7 DEF Satisfied
<1> QED
  BY <1>1, CountingInvariant, CoverageInvariant, PTL

-----------------------------------------------------------------------------
(* Repetitions. *)

MayRun(e) == elems[e].repeat_num = 0 \/ ShouldRequeue(elems[e])

\* An element that may be run again keeps within its bounds when it runs.
LEMMA OneMoreRun ==
    ASSUME NEW elem \in QueueElem, NEW t \in Nat, elem.repeat_num = 0 \/ ShouldRequeue(elem)
    PROVE  /\ ~IsRepeatTime => JobCompleted(elem, t).repeat_num <= 1
           /\ IsRepeatTime /\ NumRepeatTestsMax > 0 =>
                  JobCompleted(elem, t).repeat_num <= NumRepeatTestsMax
  BY RepeatAssumption
     DEF QueueElem, JobCompleted, ShouldRequeue, StillNeedMinimumRuns, HaveMaxRunsBeenSatisfied

\* A step of a Job thread runs only an element that may be run again.
LEMMA RunsJob ==
    ASSUME Counting, ElementOwnedOnce, RunsJustified, NEW j \in Jobs, Job(j)
    PROVE  RunsJustified'
<1> USE DEF Counting, queueVars
<1>k. ASSUME UNCHANGED elems,
             \A e \in Elems : InSeq(queue', e) => InSeq(queue, e) \/ MayRun(e),
             \A k \in Jobs : pc'[k] \in {"exec", "put"} =>
                 \/ pc[k] \in {"exec", "put"} /\ held'[k] = held[k]
                 \/ MayRun(held'[k])
      PROVE  RunsJustified'
  BY <1>k DEF RunsJustified, RunsBounded, MayRun, ShouldRequeue
<1>1. CASE ExecuteTest(j)
  <2>1. PICK job_time \in 0 .. MaxTestTime :
            elems' = [elems EXCEPT ![held[j]] = JobCompleted(@, job_time)]
    BY <1>1 DEF ExecuteTest
  <2>2. /\ pc[j] = "exec" /\ UNCHANGED queue /\ pc'[j] \notin {"exec", "put"}
        /\ \A k \in Jobs : k # j => pc'[k] = pc[k] /\ held'[k] = held[k]
    BY <1>1 DEF ExecuteTest, TypeOK
  <2>3. held[j] \in Elems
    BY <2>2 DEF HeldElement, Owning
  <2>4. \A e \in Elems : elems'[e] = IF e = held[j] THEN JobCompleted(elems[e], job_time)
                                                    ELSE elems[e]
    BY <2>1, <2>3 DEF TypeOK
  <2>5. \A e \in Elems : InSeq(queue, e) => e # held[j]
    BY <2>2 DEF ElementOwnedOnce, InSeq, Owning
  <2>6. \A k \in Jobs : pc'[k] \in {"exec", "put"} =>
            pc[k] \in {"exec", "put"} /\ held'[k] \in Elems /\ held'[k] # held[j]
                /\ held'[k] = held[k]
    BY <2>2 DEF ElementOwnedOnce, HeldElement, Owning
  <2>7. RunsBounded'
    <3>1. job_time \in Nat /\ elems[held[j]] \in QueueElem
      BY <2>3, RepeatAssumption DEF TypeOK
    <3>2. elems[held[j]].repeat_num = 0 \/ ShouldRequeue(elems[held[j]])
      BY <2>2 DEF RunsJustified
    <3>3. /\ ~IsRepeatTime => elems'[held[j]].repeat_num <= 1
          /\ IsRepeatTime /\ NumRepeatTestsMax > 0 =>
                 elems'[held[j]].repeat_num <= NumRepeatTestsMax
      BY <2>3, <2>4, <3>1, <3>2, OneMoreRun
    <3> QED
      BY <2>4, <3>3 DEF RunsJustified, RunsBounded
  <2> QED
    BY <2>2, <2>4, <2>5, <2>6, <2>7 DEF RunsJustified, ShouldRequeue
<1>2. CASE GetNowait(j)
  <2>1. CASE queue = <<>>
    BY <1>2, <1>k, <2>1 DEF GetNowait, GoTo, TypeOK
  <2>2. CASE queue # <<>>
    <3>1. /\ UNCHANGED elems /\ queue' = Tail(queue)
          /\ \A k \in Jobs : k # j => pc'[k] = pc[k] /\ held'[k] = held[k]
          /\ held'[j] = Head(queue)
      BY <1>2, <2>2 DEF GetNowait, GoTo, TypeOK
    <3>2. Head(queue) \in Elems /\ InSeq(queue, Head(queue))
          /\ \A e : InSeq(Tail(queue), e) => InSeq(queue, e)
      BY <2>2, TailFacts DEF TypeOK
    <3>3. MayRun(Head(queue))
      BY <3>2 DEF RunsJustified, MayRun
    <3> QED
      BY <1>k, <3>1, <3>2, <3>3
  <2> QED
    BY <2>1, <2>2
<1>3. CASE RequeueTest(j)
  <2>1. /\ UNCHANGED <<elems, queue>>
        /\ \A k \in Jobs : k # j => pc'[k] = pc[k] /\ held'[k] = held[k]
        /\ pc'[j] \in {"exec", "put"} => held'[j] = held[j] /\ MustPutBack(j)
    BY <1>3 DEF RequeueTest, GoTo, TypeOK
  <2> QED
    BY <1>k, <2>1 DEF MustPutBack, MayRun
<1>4. CASE PutBack(j)
  <2>1. /\ pc[j] = "put" /\ UNCHANGED elems /\ queue' = Append(queue, held[j])
        /\ \A k \in Jobs : k # j => pc'[k] = pc[k] /\ held'[k] = held[k]
        /\ pc'[j] = "empty"
    BY <1>4 DEF PutBack, GoTo, TypeOK
  <2>2. held[j] \in Elems /\ MayRun(held[j])
    BY <2>1 DEF HeldElement, Owning, RunsJustified, MayRun
  <2>3. \A e \in Elems : InSeq(queue', e) => InSeq(queue, e) \/ MayRun(e)
    BY <2>1, <2>2, AppendFacts DEF TypeOK
  <2> QED
    BY <1>k, <2>1, <2>3
<1>5. CASE DrainGet(j)
  <2>1. /\ UNCHANGED <<elems, held>>
        /\ \A k \in Jobs : pc'[k] \in {"exec", "put"} => pc'[k] = pc[k]
    BY <1>5 DEF DrainGet, GoTo, AfterRun, TypeOK
  <2>2. queue' = queue \/ (queue # <<>> /\ queue' = Tail(queue))
    BY <1>5 DEF DrainGet
  <2>3. \A e \in Elems : InSeq(queue', e) => InSeq(queue, e)
    BY <2>2, TailFacts DEF TypeOK
  <2> QED
    BY <1>k, <2>1, <2>3
<1>m. ASSUME UNCHANGED <<queue, elems, held>>,
             \A k \in Jobs : pc'[k] \in {"exec", "put"} => pc'[k] = pc[k]
      PROVE  RunsJustified'
  BY <1>k, <1>m
<1>6. CASE SetupFixture(j)
  BY <1>6, <1>m DEF SetupFixture, TypeOK
<1>7. CASE BeforeSuite(j) \/ AfterSuite(j) \/ CheckEmpty(j) \/ CheckFlag(j)
  BY <1>7, <1>m DEF BeforeSuite, AfterSuite, CheckEmpty, CheckFlag, GoTo, AfterRun, TypeOK
<1>8. CASE InterruptAllJobs(j) \/ DrainCheck(j) \/ DrainDone(j) \/ TeardownFixture(j)
  BY <1>8, <1>m DEF InterruptAllJobs, DrainCheck, DrainDone, TeardownFixture, GoTo, AfterRun,
                    TypeOK
<1> QED
  BY <1>1, <1>2, <1>3, <1>4, <1>5, <1>6, <1>7, <1>8 DEF Job

\* A test runs at most once, or at most num_repeat_tests_max times when the suite
\* repeats its tests for a time (queue_element.py).
THEOREM RunsBoundedHolds == Spec => []RunsBounded
<1>1. Init => RunsJustified
  BY RepeatAssumption DEF Init, RunsJustified, RunsBounded, NewQueueElem, InSeq
<1>2. ASSUME Counting, ElementOwnedOnce, RunsJustified, [Next]_vars PROVE RunsJustified'
  <2> USE DEF queueVars
  <2>1. ASSUME NEW j \in Jobs, Job(j) PROVE RunsJustified'
    BY <1>2, <2>1, RunsJob
  <2>2. CASE BeginRepetition
    BY <2>2, RepeatAssumption DEF BeginRepetition, RunsJustified, RunsBounded, NewQueueElem
  <2>3. ASSUME UNCHANGED <<queue, elems, held>>,
               \A k \in Jobs : pc'[k] \in {"exec", "put"} => pc'[k] = pc[k]
        PROVE  RunsJustified'
    BY <1>2, <2>3 DEF RunsJustified, RunsBounded, InSeq, ShouldRequeue
  <2>4. CASE StartThread
    <3>1. main.next \in Jobs
      BY <1>2, <2>4 DEF StartThread, Counting, StartOrder
    <3> QED
      BY <1>2, <2>3, <2>4, <3>1 DEF StartThread, Counting, TypeOK
  <2>5. CASE LoopDone \/ JoinQueue \/ SetupFailed \/ RaiseUserInterrupt \/ EndRepetition
    BY <2>3, <2>5 DEF LoopDone, JoinQueue, SetupFailed, RaiseUserInterrupt, EndRepetition
  <2>6. CASE Finally \/ TeardownNext \/ TeardownDone \/ CtrlC
    BY <2>3, <2>6 DEF Finally, TeardownNext, TeardownDone, CtrlC, UserInterrupt,
                      InterruptThreadJoin, InterruptTeardown
  <2>7. CASE UNCHANGED vars
    BY <2>3, <2>7 DEF vars
  <2> QED
    BY <1>2, <2>1, <2>2, <2>4, <2>5, <2>6, <2>7 DEF Next, MainThread
<1>3. RunsJustified => RunsBounded
  BY DEF RunsJustified
<1> QED
  BY <1>1, <1>2, <1>3, CountingInvariant, ElementOwnedOnceHolds, PTL DEF Spec

=============================================================================
