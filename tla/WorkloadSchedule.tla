-------------------------- MODULE WorkloadSchedule --------------------------
(***************************************************************************)
(* scheduleWorkloads() of fsm_libs/runner.js for the parallel and the      *)
(* composed mode: groups of workloads are cut from a shuffled list, and    *)
(* when the list has too few left, these go to the front and the others    *)
(* are shuffled again.  One step makes one group.                          *)
(***************************************************************************)
EXTENDS Naturals, Sequences, SequencesExt

CONSTANTS
    MaxWorkloads,  \* bound: the longest list of workloads
    MaxSubsetSize, \* bound: the largest executionOptions.subsetSize, which is above 1
    MaxNumSubsets  \* bound: the largest executionOptions.numSubsets that is specified

ASSUME WorkloadScheduleAssumption ==
    /\ MaxWorkloads \in Nat \ {0} /\ MaxSubsetSize \in Nat \ {0, 1}
    /\ MaxNumSubsets \in Nat

VARIABLES
    workloads,   \* the list, in its current order
    subsetSize,
    numSubsets,  \* executionOptions.numSubsets, 0 if it is not specified
    start,       \* where the next group begins; it ends at start + subsetSize
    made,        \* schedule.length
    count,       \* how often each workload is in the schedule
    gap          \* for how many groups it has been left out since

vars == <<workloads, subsetSize, numSubsets, start, made, count, gap>>

Members == 1 .. Len(workloads)

TypeOK ==
    /\ Members = ToSet(workloads)
    /\ Len(workloads) \in 1 .. MaxWorkloads /\ subsetSize \in 2 .. MaxSubsetSize
    /\ numSubsets \in 0 .. MaxNumSubsets
    /\ start \in 0 .. Len(workloads)
    /\ made \in Nat
    /\ count \in [Members -> Nat] /\ gap \in [Members -> Nat]

CeilDiv(a, b) == (a + b - 1) \div b

\* Slip: 0.5 for 2.5.
NumSubsetsTooFew ==
    IF numSubsets # 0 THEN numSubsets ELSE CeilDiv(Len(workloads), 2 * subsetSize)

\* By default Math.ceil(2.5 * workloads.length / subsetSize).
NumSubsets ==
    IF numSubsets # 0 THEN numSubsets ELSE CeilDiv(5 * Len(workloads), 2 * subsetSize)

\* The first shuffle is one of the orders; the names do not matter.
Init ==
    /\ \E n \in 1 .. MaxWorkloads :
          /\ workloads = [i \in 1 .. n |-> i]
          /\ count = [w \in 1 .. n |-> 0] /\ gap = [w \in 1 .. n |-> 0]
    /\ subsetSize \in 2 .. MaxSubsetSize /\ numSubsets \in 0 .. MaxNumSubsets
    /\ start = 0 /\ made = 0

\* The elements of a list from one index to before another, like slice().
Slice(list, from, to) == SubSeq(list, from + 1, IF to < Len(list) THEN to ELSE Len(list))

\* Slip: the workloads left over are shuffled with the others.
RefillShuffled(from) == SetToSeqs(ToSet(workloads))

\* The workloads that are left over come first, in their order.
Refill(from) ==
    {Slice(workloads, from, Len(workloads)) \o shuffled :
        shuffled \in SetToSeqs(ToSet(Slice(workloads, 0, from)))}

\* Slip: a list with too few left is not refilled before it is empty.
AddRestAsSubset ==
    LET subset == ToSet(Slice(workloads, start, start + subsetSize))
        next == start + subsetSize
    IN  /\ made < NumSubsets /\ made' = made + 1
        /\ count' = [w \in Members |-> count[w] + (IF w \in subset THEN 1 ELSE 0)]
        /\ gap' = [w \in Members |-> IF w \in subset THEN 0 ELSE gap[w] + 1]
        /\ IF next >= Len(workloads)
           THEN start' = 0 /\ workloads' \in Refill(next)
           ELSE start' = next /\ UNCHANGED workloads
        /\ UNCHANGED <<subsetSize, numSubsets>>

AddSubset ==
    LET subset == ToSet(Slice(workloads, start, start + subsetSize))
        next == start + subsetSize
    IN  /\ made < NumSubsets /\ made' = made + 1
        /\ count' = [w \in Members |-> count[w] + (IF w \in subset THEN 1 ELSE 0)]
        /\ gap' = [w \in Members |-> IF w \in subset THEN 0 ELSE gap[w] + 1]
        /\ IF next + subsetSize > Len(workloads)
           THEN start' = 0 /\ workloads' \in Refill(next)
           ELSE start' = next /\ UNCHANGED workloads
        /\ UNCHANGED <<subsetSize, numSubsets>>

Spec == Init /\ [][AddSubset]_vars

-----------------------------------------------------------------------------
\* Every group has the size that was asked for, or else all the workloads.
GroupsFull ==
    MapThenSumSet(LAMBDA w : count[w], Members)
        = made * (IF subsetSize < Len(workloads) THEN subsetSize ELSE Len(workloads))

\* No workload is left out for long, whatever the shuffles do: it is in one of the first
\* ceil(n / size) groups, and later in one of any 2 * ceil(n / size) - 1 groups that
\* follow each other (the refill of scheduleWorkloads()).
GapBounded ==
    LET round == CeilDiv(Len(workloads), subsetSize)
    IN  \A w \in Members : gap[w] <= IF count[w] = 0 THEN round - 1 ELSE 2 * round - 2

\* Every workload is in the schedule, unless executionOptions.numSubsets asks for fewer
\* groups than that takes; the default number of groups is never too small.
AllScheduled ==
    made = NumSubsets /\ (numSubsets = 0 \/ numSubsets >= CeilDiv(Len(workloads), subsetSize))
        => \A w \in Members : count[w] > 0

\* Each workload is scheduled once before any is scheduled again (the comment
\* above subsetSize).
OnceBeforeAgain == \A v, w \in Members : count[v] <= count[w] + 1

\* By default every workload is scheduled two or three times (the comment above
\* numSubsets).
TwoToThreeTimes == made = NumSubsets /\ numSubsets = 0 => \A w \in Members : count[w] \in 2 .. 3

=============================================================================
