------------------------------ MODULE Session ------------------------------
(***************************************************************************)
(* What a test may rely on when its inserts run in transactions it does    *)
(* not know of: an insert that returned ok is stored once, or is lost      *)
(* together with everything since the last commit because a later command  *)
(* returned an error.  Once an exception has reached the test all bets are *)
(* off.                                                                    *)
(***************************************************************************)
EXTENDS Integers, Sequences, Functions

CONSTANT Commands

VARIABLES
    stored,   \* the inserts that are in the database for good, in order
    pending,  \* those of the transaction in progress
    acked,    \* those that returned ok
    broken    \* an exception reached the test

vars == <<stored, pending, acked, broken>>

Init == stored = <<>> /\ pending = <<>> /\ acked = {} /\ broken = FALSE

Add(id) ==
    /\ id \notin Range(stored) \cup Range(pending)
    /\ pending' = Append(pending, id)
    /\ UNCHANGED <<stored, acked, broken>>

\* An insert outside of a transaction.
Store(id) ==
    /\ id \notin Range(stored) \cup Range(pending)
    /\ stored' = Append(stored, id)
    /\ UNCHANGED <<pending, acked, broken>>

Ack(id) ==
    /\ id \in Range(stored) \cup Range(pending)
    /\ acked' = acked \cup {id}
    /\ UNCHANGED <<stored, pending, broken>>

Commit ==
    /\ stored' = stored \o pending
    /\ pending' = <<>>
    /\ UNCHANGED <<acked, broken>>

\* A command returned an error.
Discard ==
    /\ pending' = <<>>
    /\ acked' = acked \ Range(pending)
    /\ UNCHANGED <<stored, broken>>

Throw == broken' = TRUE /\ (broken \/ UNCHANGED <<stored, pending, acked>>)

Next ==
    \/ \E id \in Commands : Add(id) \/ Store(id) \/ Ack(id)
    \/ Commit \/ Discard \/ Throw

Spec == Init /\ [][Next]_vars

(* Unless an exception reached the test: what runCommand said ok to is in  *)
(* the database or in the transaction in progress, and nothing is there    *)
(* twice, however often the override ran it.                               *)
ExactlyOnce ==
    \/ broken
    \/ /\ IsInjective(stored \o pending)
       /\ acked \subseteq Range(stored) \cup Range(pending)

=============================================================================
