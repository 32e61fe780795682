--------------------------- MODULE SessionProofs ---------------------------
(***************************************************************************)
(* Session stores every acknowledged insert exactly once, for any set of   *)
(* commands.  TxnOverride implements Session, so the theorem is what the   *)
(* override promises.                                                      *)
(***************************************************************************)
EXTENDS Session, TLAPS

(* The sequences are sequences as long as nothing was thrown.              *)
IInv ==
    \/ broken = TRUE
    \/ /\ stored \in Seq(Commands) /\ pending \in Seq(Commands)
       /\ IsInjective(stored \o pending)
       /\ acked \subseteq Range(stored) \cup Range(pending)

(* The elements of a sequence to which one was added.                      *)
LEMMA RangeAppend ==
    ASSUME NEW T, NEW s \in Seq(T), NEW e \in T
    PROVE  Range(Append(s, e)) = Range(s) \cup {e}
<1>1. DOMAIN Append(s, e) = 1 .. Len(s) + 1 /\ DOMAIN s = 1 .. Len(s) OBVIOUS
<1>2. ASSUME NEW x \in Range(Append(s, e)) PROVE x \in Range(s) \cup {e}
    BY <1>1 DEF Range
<1>3. Range(s) \subseteq Range(Append(s, e))
  <2> SUFFICES ASSUME NEW i \in 1 .. Len(s) PROVE s[i] \in Range(Append(s, e)) BY <1>1 DEF Range
  <2>1. Append(s, e)[i] = s[i] /\ i \in 1 .. Len(s) + 1 OBVIOUS
  <2> QED BY <1>1, <2>1 DEF Range
<1>4. e \in Range(Append(s, e))
  <2>1. Append(s, e)[Len(s) + 1] = e /\ Len(s) + 1 \in 1 .. Len(s) + 1 OBVIOUS
  <2> QED BY <1>1, <2>1 DEF Range
<1> QED BY <1>2, <1>3, <1>4

(* The elements of two sequences, one after the other.                     *)
LEMMA RangeConcat ==
    ASSUME NEW T, NEW s \in Seq(T), NEW t \in Seq(T)
    PROVE  Range(s \o t) = Range(s) \cup Range(t)
<1>1. /\ DOMAIN (s \o t) = 1 .. Len(s) + Len(t)
      /\ DOMAIN s = 1 .. Len(s) /\ DOMAIN t = 1 .. Len(t)
      /\ Len(s) \in Nat /\ Len(t) \in Nat OBVIOUS
<1>2. ASSUME NEW i \in 1 .. Len(s) + Len(t)
      PROVE  (s \o t)[i] \in Range(s) \cup Range(t)
  <2>1. CASE i <= Len(s) BY <1>1, <2>1 DEF Range
  <2>2. CASE i > Len(s)
    <3>1. (s \o t)[i] = t[i - Len(s)] /\ i - Len(s) \in 1 .. Len(t) BY <1>1, <2>2
    <3> QED BY <1>1, <3>1 DEF Range
  <2> QED BY <1>1, <2>1, <2>2
<1>3. ASSUME NEW i \in 1 .. Len(s) PROVE s[i] \in Range(s \o t)
  <2>1. (s \o t)[i] = s[i] /\ i \in 1 .. Len(s) + Len(t) BY <1>1
  <2> QED BY <1>1, <2>1 DEF Range
<1>4. ASSUME NEW i \in 1 .. Len(t) PROVE t[i] \in Range(s \o t)
  <2>1. (s \o t)[i + Len(s)] = t[i] /\ i + Len(s) \in 1 .. Len(s) + Len(t) BY <1>1
  <2> QED BY <1>1, <2>1 DEF Range
<1> QED BY <1>1, <1>2, <1>3, <1>4 DEF Range

(* A new element leaves a sequence without duplicates.                     *)
LEMMA AddedInjective ==
    ASSUME NEW T, NEW s \in Seq(T), NEW e \in T, IsInjective(s), e \notin Range(s),
           NEW u, u = Append(s, e)
    PROVE  IsInjective(u)
<1>1. DOMAIN u = 1 .. Len(s) + 1 /\ DOMAIN s = 1 .. Len(s) /\ Len(s) \in Nat OBVIOUS
<1>2. ASSUME NEW i \in 1 .. Len(s) PROVE u[i] = s[i] /\ s[i] # e BY <1>1 DEF Range
<1>3. u[Len(s) + 1] = e OBVIOUS
<1>4. ASSUME NEW a \in 1 .. Len(s) + 1, NEW b \in 1 .. Len(s) + 1, u[a] = u[b]
      PROVE  a = b
  <2>1. CASE a \in 1 .. Len(s) /\ b \in 1 .. Len(s) BY <1>1, <1>2, <1>4, <2>1 DEF IsInjective
  <2>2. CASE a = Len(s) + 1 /\ b \in 1 .. Len(s) BY <1>2, <1>3, <1>4, <2>2
  <2>3. CASE b = Len(s) + 1 /\ a \in 1 .. Len(s) BY <1>2, <1>3, <1>4, <2>3
  <2> QED BY <1>1, <2>1, <2>2, <2>3
<1> QED BY <1>1, <1>4 DEF IsInjective

(* So does one that is put between the first part and the second.          *)
LEMMA InsertInjective ==
    ASSUME NEW T, NEW s \in Seq(T), NEW t \in Seq(T), NEW e \in T,
           IsInjective(s \o t), e \notin Range(s) \cup Range(t)
    PROVE  IsInjective(Append(s, e) \o t)
<1> DEFINE u == Append(s, e) \o t
<1>1. /\ DOMAIN u = 1 .. Len(s) + 1 + Len(t) /\ DOMAIN (s \o t) = 1 .. Len(s) + Len(t)
      /\ DOMAIN s = 1 .. Len(s) /\ DOMAIN t = 1 .. Len(t)
      /\ Len(s) \in Nat /\ Len(t) \in Nat OBVIOUS
<1> SUFFICES ASSUME NEW a \in 1 .. Len(s) + 1 + Len(t), NEW b \in 1 .. Len(s) + 1 + Len(t),
                    u[a] = u[b]
             PROVE  a = b
    BY <1>1 DEF IsInjective
<1>2. ASSUME NEW i \in 1 .. Len(s) PROVE u[i] = (s \o t)[i] /\ u[i] # e BY <1>1 DEF Range
<1>3. u[Len(s) + 1] = e OBVIOUS
<1>4. ASSUME NEW i \in 1 .. Len(s) + 1 + Len(t), i > Len(s) + 1
      PROVE  u[i] = (s \o t)[i - 1] /\ u[i] # e
  <2>1. u[i] = t[i - Len(s) - 1] /\ i - Len(s) - 1 \in 1 .. Len(t) BY <1>1, <1>4
  <2>2. (s \o t)[i - 1] = t[i - Len(s) - 1] BY <1>1, <1>4
  <2> QED BY <1>1, <2>1, <2>2 DEF Range
<1>5. \A i, j \in 1 .. Len(s) + Len(t) : (s \o t)[i] = (s \o t)[j] => i = j BY <1>1 DEF IsInjective
<1> HIDE DEF u
<1> DEFINE Old(i) == IF i <= Len(s) THEN i ELSE i - 1
<1>6. ASSUME NEW i \in 1 .. Len(s) + 1 + Len(t), i # Len(s) + 1
      PROVE  u[i] = (s \o t)[Old(i)] /\ Old(i) \in 1 .. Len(s) + Len(t) /\ u[i] # e
    BY <1>1, <1>2, <1>4, <1>6
<1>7. CASE a # Len(s) + 1 /\ b # Len(s) + 1
  <2>1. Old(a) = Old(b) BY <1>5, <1>6, <1>7
  <2> QED BY <1>1, <1>7, <2>1
<1>8. CASE a = Len(s) + 1 \/ b = Len(s) + 1 BY <1>3, <1>6, <1>8
<1> QED BY <1>7, <1>8

(* A first part of a sequence without duplicates has none.                 *)
LEMMA PrefixInjective ==
    ASSUME NEW T, NEW s \in Seq(T), NEW t \in Seq(T), IsInjective(s \o t)
    PROVE  IsInjective(s)
<1>1. /\ DOMAIN (s \o t) = 1 .. Len(s) + Len(t) /\ DOMAIN s = 1 .. Len(s)
      /\ Len(s) \in Nat /\ Len(t) \in Nat OBVIOUS
<1>2. \A i \in 1 .. Len(s) : (s \o t)[i] = s[i] /\ i \in 1 .. Len(s) + Len(t) BY <1>1
<1> QED BY <1>1, <1>2 DEF IsInjective

(* Every step of a session keeps the invariant.                            *)
LEMMA NextPreserves == ASSUME IInv, [Next]_vars PROVE IInv'
<1>1. CASE UNCHANGED vars BY <1>1 DEF vars, IInv
<1>2. CASE Throw BY <1>2 DEF Throw, IInv
<1>3. CASE broken = TRUE /\ Next /\ ~Throw
    BY <1>3 DEF Next, Add, Store, Ack, Commit, Discard, IInv
<1>4. CASE broken # TRUE /\ Next /\ ~Throw
  <2>1. /\ stored \in Seq(Commands) /\ pending \in Seq(Commands)
        /\ IsInjective(stored \o pending)
        /\ acked \subseteq Range(stored) \cup Range(pending)
      BY <1>4 DEF IInv
  <2>2. ASSUME NEW id \in Commands, Add(id) PROVE IInv'
    <3>1. stored' = stored /\ acked' = acked /\ pending' = Append(pending, id)
          /\ id \notin Range(stored) \cup Range(pending)
        BY <2>2 DEF Add
    <3>2. stored \o pending \in Seq(Commands) /\ pending' \in Seq(Commands) BY <2>1, <3>1
    <3>3. stored' \o pending' = Append(stored \o pending, id) BY <2>1, <3>1
    <3>4. IsInjective(stored' \o pending')
      <4>1. id \notin Range(stored \o pending) BY <2>1, <3>1, RangeConcat
      <4> QED BY <2>1, <3>2, <3>3, <4>1, AddedInjective
    <3>5. Range(pending') = Range(pending) \cup {id} BY <2>1, <3>1, RangeAppend
    <3> QED BY <2>1, <3>1, <3>2, <3>4, <3>5 DEF IInv
  <2>3. ASSUME NEW id \in Commands, Store(id) PROVE IInv'
    <3>1. pending' = pending /\ acked' = acked /\ stored' = Append(stored, id)
          /\ id \notin Range(stored) \cup Range(pending)
        BY <2>3 DEF Store
    <3>2. stored' \in Seq(Commands) BY <2>1, <3>1
    <3>3. IsInjective(stored' \o pending') BY <2>1, <3>1, InsertInjective
    <3>4. Range(stored') = Range(stored) \cup {id} BY <2>1, <3>1, RangeAppend
    <3> QED BY <2>1, <3>1, <3>2, <3>3, <3>4 DEF IInv
  <2>4. ASSUME NEW id \in Commands, Ack(id) PROVE IInv'
    BY <2>1, <2>4 DEF Ack, IInv
  <2>5. CASE Commit
    <3>1. stored' = stored \o pending /\ pending' = <<>> /\ acked' = acked BY <2>5 DEF Commit
    <3>2. stored' \in Seq(Commands) /\ pending' \in Seq(Commands)
          /\ stored' \o pending' = stored \o pending
        BY <2>1, <3>1
    <3>3. Range(stored') = Range(stored) \cup Range(pending) BY <2>1, <3>1, RangeConcat
    <3> QED BY <2>1, <3>1, <3>2, <3>3 DEF IInv
  <2>6. CASE Discard
    <3>1. stored' = stored /\ pending' = <<>> /\ acked' = acked \ Range(pending)
        BY <2>6 DEF Discard
    <3>2. pending' \in Seq(Commands) /\ stored' \o pending' = stored BY <2>1, <3>1
    <3>3. IsInjective(stored) BY <2>1, PrefixInjective
    <3> QED BY <2>1, <3>1, <3>2, <3>3 DEF IInv
  <2> QED BY <1>4, <2>2, <2>3, <2>4, <2>5, <2>6 DEF Next
<1> QED BY <1>1, <1>2, <1>3, <1>4

(* What a test may rely on when the override puts its commands into        *)
(* transactions and runs them again: no acknowledged insert is missing,    *)
(* and none is there twice.                                                *)
THEOREM ExactlyOnceHolds == Spec => []ExactlyOnce
<1>1. Init => IInv
  <2> SUFFICES ASSUME Init PROVE IInv OBVIOUS
  <2>1. <<>> \in Seq(Commands) /\ <<>> \o <<>> = <<>> OBVIOUS
  <2>2. IsInjective(<<>>) BY DEF IsInjective
  <2> QED BY <2>1, <2>2 DEF Init, IInv
<1>2. IInv /\ [Next]_vars => IInv' BY NextPreserves
<1>3. IInv => ExactlyOnce BY DEF IInv, ExactlyOnce
<1> QED BY <1>1, <1>2, <1>3, PTL DEF Spec
=============================================================================
