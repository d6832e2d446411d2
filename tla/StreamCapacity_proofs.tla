----------------------- MODULE StreamCapacity_proofs -----------------------
(***************************************************************************)
(* Proofs about the admission of agent streams, for any requests,          *)
(* sessions, queue keys and budgets that the configuration allows.         *)
(*                                                                         *)
(* The inductive invariant CapacityInv adds to the properties that every   *)
(* counter is the number of leases it stands for (CountInv), which dial    *)
(* holds a lease or waits (DialInv), and that the sampling guard counts    *)
(* the announced samples of the current controller (SampleInv).  A step is *)
(* first reduced to what it does to the leases, the queues and the samples *)
(* (Footprint); each part of the invariant then follows from that.  Fair   *)
(* turns need TurnInv on top: where the scan comes to each queue.          *)
(***************************************************************************)
EXTENDS StreamCapacity, TLAPS, FiniteSetTheorems, SequenceTheorems

(* Counted(l, A, C, S): the requests of the classes C and the sessions S   *)
(* whose lease, in l, is in one of the states A.                           *)
Counted(l, A, C, S) ==
    {r \in Requests : l[r] \in A /\ class[r] \in C /\ sessionKey[r] \in S}

LeaseStates == Active \cup {"none", "released"}

(* What a lease of r in state v adds to such a count.                      *)
Weight(v, r, A, C, S) ==
    IF v \in A /\ class[r] \in C /\ sessionKey[r] \in S THEN 1 ELSE 0

-----------------------------------------------------------------------------
(* Sequences.                                                              *)

(* RemoveAt leaves out one element and keeps the order of the others.      *)
LEMMA RemoveAtElements ==
    ASSUME NEW S, NEW s \in Seq(S), NEW i \in 1..Len(s)
    PROVE  /\ RemoveAt(s, i) \in Seq(S)
           /\ Len(RemoveAt(s, i)) = Len(s) - 1
           /\ \A j \in 1..(Len(s) - 1) :
                 RemoveAt(s, i)[j] = IF j < i THEN s[j] ELSE s[j + 1]
<1> DEFINE a == SubSeq(s, 1, i - 1)
           b == SubSeq(s, i + 1, Len(s))
           t == a \o b
<1>0. Len(s) \in Nat /\ i \in Int /\ i >= 1 /\ i <= Len(s)
  BY LenProperties
<1>1. /\ a \in Seq(S) /\ Len(a) = i - 1
      /\ \A j \in 1..(i - 1) : a[j] = s[j]
  <2>1. \A j \in 1..(i - 1) : s[j] \in S
    BY <1>0, ElementOfSeq
  <2>2. i - 1 \in Int /\ 1 \in Int
    BY <1>0
  <2>3. /\ a \in Seq(S)
        /\ Len(a) = IF 1 <= i - 1 THEN (i - 1) - 1 + 1 ELSE 0
        /\ \A j \in 1..((i - 1) - 1 + 1) : a[j] = s[1 + j - 1]
    BY <2>1, <2>2, SubSeqProperties
  <2> QED
    BY <2>3, <1>0
<1>2. /\ b \in Seq(S) /\ Len(b) = Len(s) - i
      /\ \A j \in 1..(Len(s) - i) : b[j] = s[i + j]
  <2>1. \A j \in (i + 1)..Len(s) : s[j] \in S
    BY <1>0, ElementOfSeq
  <2>2. i + 1 \in Int /\ Len(s) \in Int
    BY <1>0
  <2>3. /\ b \in Seq(S)
        /\ Len(b) = IF i + 1 <= Len(s) THEN Len(s) - (i + 1) + 1 ELSE 0
        /\ \A j \in 1..(Len(s) - (i + 1) + 1) : b[j] = s[(i + 1) + j - 1]
    BY <2>1, <2>2, SubSeqProperties
  <2> QED
    BY <2>3, <1>0
<1>3. /\ t \in Seq(S)
      /\ Len(t) = Len(a) + Len(b)
      /\ \A j \in 1..(Len(a) + Len(b)) :
            t[j] = IF j <= Len(a) THEN a[j] ELSE b[j - Len(a)]
  BY <1>1, <1>2, ConcatProperties
<1>4. RemoveAt(s, i) = t
  BY DEF RemoveAt
<1> HIDE DEF a, b, t
<1>5. ASSUME NEW j \in 1..(Len(s) - 1)
      PROVE  t[j] = IF j < i THEN s[j] ELSE s[j + 1]
  <2>1. CASE j < i
    BY <2>1, <1>0, <1>1, <1>2, <1>3
  <2>2. CASE ~(j < i)
    <3>1. j - (i - 1) \in 1..(Len(s) - i) /\ j \in 1..(Len(a) + Len(b)) /\ ~(j <= Len(a))
      BY <2>2, <1>0, <1>1, <1>2
    <3>2. t[j] = b[j - (i - 1)]
      BY <3>1, <1>1, <1>3
    <3>3. b[j - (i - 1)] = s[i + (j - (i - 1))]
      BY <3>1, <1>2
    <3>4. i + (j - (i - 1)) = j + 1
      BY <1>0
    <3> QED
      BY <3>2, <3>3, <3>4, <2>2
  <2> QED
    BY <2>1, <2>2
<1>6. Len(t) = Len(s) - 1
  BY <1>0, <1>1, <1>2, <1>3
<1> QED
  BY <1>3, <1>4, <1>5, <1>6

(* From a sequence without repetitions it takes exactly its element.       *)
LEMMA RemoveAtSet ==
    ASSUME NEW S, NEW s \in Seq(S), NEW i \in 1..Len(s), IsInjective(s)
    PROVE  /\ IsInjective(RemoveAt(s, i))
           /\ ToSet(RemoveAt(s, i)) = ToSet(s) \ {s[i]}
<1> DEFINE t == RemoveAt(s, i)
<1>0. Len(s) \in Nat /\ DOMAIN s = 1..Len(s)
  BY LenProperties
<1>1. /\ t \in Seq(S) /\ Len(t) = Len(s) - 1
      /\ \A j \in 1..(Len(s) - 1) : t[j] = IF j < i THEN s[j] ELSE s[j + 1]
  BY RemoveAtElements
<1>2. DOMAIN t = 1..(Len(s) - 1)
  BY <1>1, LenProperties
<1> HIDE DEF t
<1>3. IsInjective(t)
  <2> SUFFICES ASSUME NEW m \in 1..(Len(s) - 1), NEW n \in 1..(Len(s) - 1), t[m] = t[n]
               PROVE  m = n
    BY <1>2 DEF IsInjective
  <2> DEFINE p(j) == IF j < i THEN j ELSE j + 1
  <2>1. p(m) \in 1..Len(s) /\ p(n) \in 1..Len(s)
    BY <1>0
  <2>2. t[m] = s[p(m)] /\ t[n] = s[p(n)]
    BY <1>1
  <2>3. p(m) = p(n)
    BY <2>1, <2>2, <1>0 DEF IsInjective
  <2> QED
    BY <2>3
<1>4. ASSUME NEW x \in ToSet(t) PROVE x \in ToSet(s) \ {s[i]}
  <2>1. PICK j \in 1..(Len(s) - 1) : x = t[j]
    BY <1>2 DEF ToSet
  <2> DEFINE p == IF j < i THEN j ELSE j + 1
  <2>2. p \in 1..Len(s) /\ p # i /\ i \in 1..Len(s)
    BY <1>0
  <2>3. x = s[p]
    BY <2>1, <1>1
  <2> HIDE DEF p
  <2>4. s[p] # s[i]
    BY <2>2, <1>0 DEF IsInjective
  <2> QED
    BY <2>2, <2>3, <2>4, <1>0 DEF ToSet
<1>5. ASSUME NEW x \in ToSet(s) \ {s[i]} PROVE x \in ToSet(t)
  <2>1. PICK j \in 1..Len(s) : x = s[j] /\ j # i
    BY <1>0 DEF ToSet
  <2>2. CASE j < i
    BY <2>1, <2>2, <1>0, <1>1, <1>2 DEF ToSet
  <2>3. CASE j > i
    <3>1. j - 1 \in 1..(Len(s) - 1) /\ t[j - 1] = s[j]
      BY <2>3, <1>0, <1>1
    <3> QED
      BY <3>1, <2>1, <1>2 DEF ToSet
  <2> QED
    BY <2>1, <2>2, <2>3, <1>0
<1> QED
  BY <1>3, <1>4, <1>5 DEF t

(* Append adds one element at the end.                                     *)
LEMMA AppendSet ==
    ASSUME NEW S, NEW s \in Seq(S), NEW x \in S
    PROVE  /\ Append(s, x) \in Seq(S)
           /\ Len(Append(s, x)) = Len(s) + 1
           /\ \A j \in 1..Len(s) : Append(s, x)[j] = s[j]
           /\ Append(s, x)[Len(s) + 1] = x
           /\ ToSet(Append(s, x)) = ToSet(s) \cup {x}
           /\ x \notin ToSet(s) /\ IsInjective(s) => IsInjective(Append(s, x))
<1> DEFINE t == Append(s, x)
<1>0. Len(s) \in Nat /\ DOMAIN s = 1..Len(s)
  BY LenProperties
<1>1. /\ t \in Seq(S) /\ Len(t) = Len(s) + 1
      /\ \A j \in 1..Len(s) : t[j] = s[j]
      /\ t[Len(s) + 1] = x
  OBVIOUS
<1>2. DOMAIN t = 1..(Len(s) + 1)
  BY <1>1, LenProperties
<1> HIDE DEF t
<1>3. ToSet(t) = ToSet(s) \cup {x}
  BY <1>0, <1>1, <1>2 DEF ToSet
<1>4. ASSUME x \notin ToSet(s), IsInjective(s) PROVE IsInjective(t)
  <2>1. \A j \in 1..Len(s) : s[j] # x
    BY <1>4, <1>0 DEF ToSet
  <2> SUFFICES ASSUME NEW m \in 1..(Len(s) + 1), NEW n \in 1..(Len(s) + 1), t[m] = t[n]
               PROVE  m = n
    BY <1>2 DEF IsInjective
  <2> QED
    BY <2>1, <1>4, <1>0, <1>1 DEF IsInjective
<1> QED
  BY <1>1, <1>3, <1>4 DEF t

(* One wrap of the cursor.                                                 *)
LEMMA Wrap ==
    ASSUME NEW n \in Nat \ {0}, NEW a \in 0..(n + n - 1)
    PROVE  a % n = IF a < n THEN a ELSE a - n
  OBVIOUS

-----------------------------------------------------------------------------
(* Counting.                                                               *)

(* A lease that changes its state changes the counts it belongs to by one. *)
LEMMA CountMoves ==
    ASSUME NEW l \in [Requests -> LeaseStates], NEW r \in Requests, NEW v, NEW A, NEW C, NEW S,
           IsFiniteSet(Counted(l, A, C, S)),
           NEW m, \A q \in Requests : m[q] = IF q = r THEN v ELSE l[q]
    PROVE  /\ IsFiniteSet(Counted(m, A, C, S))
           /\ Cardinality(Counted(m, A, C, S)) =
                 Cardinality(Counted(l, A, C, S))
                    + Weight(v, r, A, C, S)
                    - Weight(l[r], r, A, C, S)
<1> DEFINE X == Counted(l, A, C, S)
           Y == Counted(m, A, C, S)
           new == Weight(v, r, A, C, S)
           old == Weight(l[r], r, A, C, S)
<1> SUFFICES IsFiniteSet(Y) /\ Cardinality(Y) = Cardinality(X) + new - old
  OBVIOUS
<1>1. Cardinality(X) \in Nat
  BY FS_CardinalityType
<1>2. old = IF r \in X THEN 1 ELSE 0
  BY DEF Counted, Weight
<1>3. CASE v \in A /\ class[r] \in C /\ sessionKey[r] \in S
  <2>1. Y = X \cup {r}
    BY <1>3 DEF Counted
  <2>2. new = 1
    BY <1>3 DEF Weight
  <2>3. /\ IsFiniteSet(X \cup {r})
        /\ Cardinality(X \cup {r}) = IF r \in X THEN Cardinality(X) ELSE Cardinality(X) + 1
    BY FS_AddElement
  <2> HIDE DEF X, Y, new, old
  <2> QED
    BY <1>1, <1>2, <2>1, <2>2, <2>3
<1>4. CASE ~(v \in A /\ class[r] \in C /\ sessionKey[r] \in S)
  <2>1. Y = X \ {r}
    BY <1>4 DEF Counted
  <2>2. new = 0
    BY <1>4 DEF Weight
  <2>3. /\ IsFiniteSet(X \ {r})
        /\ Cardinality(X \ {r}) = IF r \in X THEN Cardinality(X) - 1 ELSE Cardinality(X)
    BY FS_RemoveElement
  <2> HIDE DEF X, Y, new, old
  <2> QED
    BY <1>1, <1>2, <2>1, <2>2, <2>3
<1> QED
  BY <1>3, <1>4

-----------------------------------------------------------------------------
(* The inductive invariant.                                                *)

PublicClasses == {"pooled", "oneshot"}

(* The manager's counters count the leases.                                *)
CountInv ==
    /\ IsFiniteSet(Counted(lease, Active, Classes, Sessions))
    /\ usedTotal = Cardinality(Counted(lease, Active, Classes, Sessions))
    /\ usedPublic = Cardinality(Counted(lease, Active, PublicClasses, Sessions))
    /\ usedPooled = Cardinality(Counted(lease, Active, {"pooled"}, Sessions))
    /\ usedControl = Cardinality(Counted(lease, Active, {"health"}, Sessions))
    /\ \A s \in Sessions :
          /\ totalBySession[s] = Cardinality(Counted(lease, Active, Classes, {s}))
          /\ publicBySession[s] = Cardinality(Counted(lease, Active, PublicClasses, {s}))
          /\ openingBySession[s] = Cardinality(Counted(lease, {"opening"}, Classes, {s}))
          /\ publicOpeningBySession[s] =
                Cardinality(Counted(lease, {"opening"}, PublicClasses, {s}))

CountTypeOK ==
    /\ usedTotal \in Nat /\ usedPublic \in Nat /\ usedPooled \in Nat /\ usedControl \in Nat
    /\ totalBySession \in [Sessions -> Nat]
    /\ publicBySession \in [Sessions -> Nat]
    /\ openingBySession \in [Sessions -> Nat]
    /\ publicOpeningBySession \in [Sessions -> Nat]

LeaseTypeOK == lease \in [Requests -> LeaseStates]

-----------------------------------------------------------------------------
(* The lease of r becomes v, and every counter follows.                    *)
CountsAs(r, v) ==
    LET to(C, s) == One(v \in Active /\ class[r] \in C /\ sessionKey[r] = s)
        from(C, s) == One(lease[r] \in Active /\ class[r] \in C /\ sessionKey[r] = s)
        opens(C, s) == One(v = "opening" /\ class[r] \in C /\ sessionKey[r] = s)
        opened(C, s) == One(lease[r] = "opening" /\ class[r] \in C /\ sessionKey[r] = s)
        s0 == sessionKey[r]
    IN
    /\ lease' = [lease EXCEPT ![r] = v]
    /\ usedTotal' = usedTotal + to(Classes, s0) - from(Classes, s0)
    /\ usedPublic' = usedPublic + to(PublicClasses, s0) - from(PublicClasses, s0)
    /\ usedPooled' = usedPooled + to({"pooled"}, s0) - from({"pooled"}, s0)
    /\ usedControl' = usedControl + to({"health"}, s0) - from({"health"}, s0)
    /\ totalBySession' =
          [s \in Sessions |-> totalBySession[s] + to(Classes, s) - from(Classes, s)]
    /\ publicBySession' =
          [s \in Sessions |-> publicBySession[s] + to(PublicClasses, s) - from(PublicClasses, s)]
    /\ openingBySession' =
          [s \in Sessions |-> openingBySession[s] + opens(Classes, s) - opened(Classes, s)]
    /\ publicOpeningBySession' =
          [s \in Sessions |->
              publicOpeningBySession[s] + opens(PublicClasses, s) - opened(PublicClasses, s)]

(* Every count is of a part of the active leases, and finite.              *)
LEMMA CountsFinite ==
    ASSUME CountInv, NEW A \in SUBSET Active, NEW C \in SUBSET Classes, NEW S \in SUBSET Sessions
    PROVE  IsFiniteSet(Counted(lease, A, C, S))
<1>1. Counted(lease, A, C, S) \in SUBSET Counted(lease, Active, Classes, Sessions)
  BY DEF Counted
<1> QED
  BY <1>1, FS_Subset DEF CountInv

(* Counters that follow the lease keep counting the leases.                *)
LEMMA CountStep ==
    ASSUME CountInv, CountTypeOK, LeaseTypeOK, NEW r \in Requests, NEW v, CountsAs(r, v)
    PROVE  CountInv' /\ CountTypeOK'
<1> USE DEF LeaseTypeOK
<1> DEFINE n == lease'
<1>0. n = [lease EXCEPT ![r] = v] /\ class[r] \in Classes /\ sessionKey[r] \in Sessions
  BY RequestAssumption DEF CountsAs
<1>1. ASSUME NEW A \in SUBSET Active, NEW C \in SUBSET Classes, NEW S \in SUBSET Sessions
      PROVE  /\ IsFiniteSet(Counted(n, A, C, S))
             /\ Cardinality(Counted(lease, A, C, S)) \in Nat
             /\ Cardinality(Counted(n, A, C, S)) \in Nat
             /\ Cardinality(Counted(n, A, C, S)) =
                   Cardinality(Counted(lease, A, C, S))
                      + Weight(v, r, A, C, S)
                      - Weight(lease[r], r, A, C, S)
  <2>1. IsFiniteSet(Counted(lease, A, C, S)) /\ lease \in [Requests -> LeaseStates]
    BY CountsFinite
  <2>0. \A q \in Requests : n[q] = IF q = r THEN v ELSE lease[q]
    BY <1>0, <2>1
  <2> HIDE DEF n
  <2>2. /\ IsFiniteSet(Counted(n, A, C, S))
        /\ Cardinality(Counted(n, A, C, S)) =
              Cardinality(Counted(lease, A, C, S))
                 + Weight(v, r, A, C, S)
                 - Weight(lease[r], r, A, C, S)
    BY <2>0, <2>1, CountMoves
  <2> QED
    BY <2>1, <2>2, FS_CardinalityType
<1>2. /\ Active \in SUBSET Active /\ {"opening"} \in SUBSET Active
      /\ Classes \in SUBSET Classes /\ PublicClasses \in SUBSET Classes
      /\ {"pooled"} \in SUBSET Classes /\ {"health"} \in SUBSET Classes
      /\ Sessions \in SUBSET Sessions
      /\ \A s \in Sessions : {s} \in SUBSET Sessions
  BY DEF Active, Classes, PublicClasses
<1> HIDE DEF n
<1>3. /\ IsFiniteSet(Counted(n, Active, Classes, Sessions))
      /\ usedTotal' = Cardinality(Counted(n, Active, Classes, Sessions))
      /\ usedTotal' \in Nat
  <2>1. /\ IsFiniteSet(Counted(n, Active, Classes, Sessions))
        /\ Cardinality(Counted(lease, Active, Classes, Sessions)) \in Nat
        /\ Cardinality(Counted(n, Active, Classes, Sessions)) \in Nat
        /\ Cardinality(Counted(n, Active, Classes, Sessions)) =
              Cardinality(Counted(lease, Active, Classes, Sessions))
                 + Weight(v, r, Active, Classes, Sessions) - Weight(lease[r], r, Active, Classes, Sessions)
    BY <1>1, <1>2
  <2> QED
    BY <1>0, <2>1 DEF CountsAs, CountInv, Weight, One
<1>4. /\ usedPublic' = Cardinality(Counted(n, Active, PublicClasses, Sessions))
      /\ usedPublic' \in Nat
  <2>1. /\ IsFiniteSet(Counted(n, Active, PublicClasses, Sessions))
        /\ Cardinality(Counted(lease, Active, PublicClasses, Sessions)) \in Nat
        /\ Cardinality(Counted(n, Active, PublicClasses, Sessions)) \in Nat
        /\ Cardinality(Counted(n, Active, PublicClasses, Sessions)) =
              Cardinality(Counted(lease, Active, PublicClasses, Sessions))
                 + Weight(v, r, Active, PublicClasses, Sessions) - Weight(lease[r], r, Active, PublicClasses, Sessions)
    BY <1>1, <1>2
  <2> QED
    BY <1>0, <2>1 DEF CountsAs, CountInv, Weight, One
<1>5. /\ usedPooled' = Cardinality(Counted(n, Active, {"pooled"}, Sessions))
      /\ usedPooled' \in Nat
  <2>1. /\ IsFiniteSet(Counted(n, Active, {"pooled"}, Sessions))
        /\ Cardinality(Counted(lease, Active, {"pooled"}, Sessions)) \in Nat
        /\ Cardinality(Counted(n, Active, {"pooled"}, Sessions)) \in Nat
        /\ Cardinality(Counted(n, Active, {"pooled"}, Sessions)) =
              Cardinality(Counted(lease, Active, {"pooled"}, Sessions))
                 + Weight(v, r, Active, {"pooled"}, Sessions) - Weight(lease[r], r, Active, {"pooled"}, Sessions)
    BY <1>1, <1>2
  <2> QED
    BY <1>0, <2>1 DEF CountsAs, CountInv, Weight, One
<1>6. /\ usedControl' = Cardinality(Counted(n, Active, {"health"}, Sessions))
      /\ usedControl' \in Nat
  <2>1. /\ IsFiniteSet(Counted(n, Active, {"health"}, Sessions))
        /\ Cardinality(Counted(lease, Active, {"health"}, Sessions)) \in Nat
        /\ Cardinality(Counted(n, Active, {"health"}, Sessions)) \in Nat
        /\ Cardinality(Counted(n, Active, {"health"}, Sessions)) =
              Cardinality(Counted(lease, Active, {"health"}, Sessions))
                 + Weight(v, r, Active, {"health"}, Sessions) - Weight(lease[r], r, Active, {"health"}, Sessions)
    BY <1>1, <1>2
  <2> QED
    BY <1>0, <2>1 DEF CountsAs, CountInv, Weight, One
<1>7. ASSUME NEW s \in Sessions
      PROVE  /\ totalBySession'[s] = Cardinality(Counted(n, Active, Classes, {s}))
             /\ totalBySession'[s] \in Nat
  <2>1. /\ IsFiniteSet(Counted(n, Active, Classes, {s}))
        /\ Cardinality(Counted(lease, Active, Classes, {s})) \in Nat
        /\ Cardinality(Counted(n, Active, Classes, {s})) \in Nat
        /\ Cardinality(Counted(n, Active, Classes, {s})) =
              Cardinality(Counted(lease, Active, Classes, {s}))
                 + Weight(v, r, Active, Classes, {s}) - Weight(lease[r], r, Active, Classes, {s})
    BY <1>1, <1>2
  <2> QED
    BY <1>0, <2>1 DEF CountsAs, CountInv, Weight, One
<1>8. ASSUME NEW s \in Sessions
      PROVE  /\ publicBySession'[s] = Cardinality(Counted(n, Active, PublicClasses, {s}))
             /\ publicBySession'[s] \in Nat
  <2>1. /\ IsFiniteSet(Counted(n, Active, PublicClasses, {s}))
        /\ Cardinality(Counted(lease, Active, PublicClasses, {s})) \in Nat
        /\ Cardinality(Counted(n, Active, PublicClasses, {s})) \in Nat
        /\ Cardinality(Counted(n, Active, PublicClasses, {s})) =
              Cardinality(Counted(lease, Active, PublicClasses, {s}))
                 + Weight(v, r, Active, PublicClasses, {s}) - Weight(lease[r], r, Active, PublicClasses, {s})
    BY <1>1, <1>2
  <2> QED
    BY <1>0, <2>1 DEF CountsAs, CountInv, Weight, One
<1>9. ASSUME NEW s \in Sessions
      PROVE  /\ openingBySession'[s] = Cardinality(Counted(n, {"opening"}, Classes, {s}))
             /\ openingBySession'[s] \in Nat
  <2>1. /\ IsFiniteSet(Counted(n, {"opening"}, Classes, {s}))
        /\ Cardinality(Counted(lease, {"opening"}, Classes, {s})) \in Nat
        /\ Cardinality(Counted(n, {"opening"}, Classes, {s})) \in Nat
        /\ Cardinality(Counted(n, {"opening"}, Classes, {s})) =
              Cardinality(Counted(lease, {"opening"}, Classes, {s}))
                 + Weight(v, r, {"opening"}, Classes, {s}) - Weight(lease[r], r, {"opening"}, Classes, {s})
    BY <1>1, <1>2
  <2> QED
    BY <1>0, <2>1 DEF CountsAs, CountInv, Weight, One
<1>10. ASSUME NEW s \in Sessions
       PROVE  /\ publicOpeningBySession'[s] =
                    Cardinality(Counted(n, {"opening"}, PublicClasses, {s}))
              /\ publicOpeningBySession'[s] \in Nat
  <2>1. /\ IsFiniteSet(Counted(n, {"opening"}, PublicClasses, {s}))
        /\ Cardinality(Counted(lease, {"opening"}, PublicClasses, {s})) \in Nat
        /\ Cardinality(Counted(n, {"opening"}, PublicClasses, {s})) \in Nat
        /\ Cardinality(Counted(n, {"opening"}, PublicClasses, {s})) =
              Cardinality(Counted(lease, {"opening"}, PublicClasses, {s}))
                 + Weight(v, r, {"opening"}, PublicClasses, {s}) - Weight(lease[r], r, {"opening"}, PublicClasses, {s})
    BY <1>1, <1>2
  <2> QED
    BY <1>0, <2>1 DEF CountsAs, CountInv, Weight, One
<1>11. CountInv'
  BY <1>3, <1>4, <1>5, <1>6, <1>7, <1>8, <1>9, <1>10 DEF CountInv, n
<1>12. CountTypeOK'
  <2>1. /\ totalBySession' = [s \in Sessions |-> totalBySession'[s]]
        /\ publicBySession' = [s \in Sessions |-> publicBySession'[s]]
        /\ openingBySession' = [s \in Sessions |-> openingBySession'[s]]
        /\ publicOpeningBySession' = [s \in Sessions |-> publicOpeningBySession'[s]]
    BY DEF CountsAs
  <2> QED
    BY <1>3, <1>4, <1>5, <1>6, <1>7, <1>8, <1>9, <1>10, <2>1 DEF CountTypeOK
<1> QED
  BY <1>11, <1>12

(* Adding and taking away one, as a function of the session.               *)
LEMMA SessionCounterMoves ==
    ASSUME NEW f \in [Sessions -> Nat], NEW s0 \in Sessions
    PROVE  /\ Increment(f, s0) = [s \in Sessions |-> f[s] + (IF s0 = s THEN 1 ELSE 0)]
           /\ f[s0] >= 1 =>
                 Decrement(f, s0) = [s \in Sessions |-> f[s] - (IF s0 = s THEN 1 ELSE 0)]
<1>1. ASSUME NEW s \in Sessions
      PROVE  /\ Increment(f, s0)[s] = f[s] + (IF s0 = s THEN 1 ELSE 0)
             /\ f[s0] >= 1 => Decrement(f, s0)[s] = f[s] - (IF s0 = s THEN 1 ELSE 0)
  BY DEF Increment, Decrement, AtLeastZero
<1>2. /\ Increment(f, s0) = [s \in Sessions |-> Increment(f, s0)[s]]
      /\ Decrement(f, s0) = [s \in Sessions |-> Decrement(f, s0)[s]]
  BY DEF Increment, Decrement
<1> QED
  BY <1>1, <1>2

(* A grant.                                                                *)
LEMMA GrantCounts ==
    ASSUME CountTypeOK, NEW r \in Requests, lease[r] \notin Active, Grant(r)
    PROVE  CountsAs(r, "opening")
<1>1. class[r] \in Classes /\ sessionKey[r] \in Sessions
  BY RequestAssumption
<1>2. /\ One(TRUE) = 1 /\ One(FALSE) = 0
      /\ "opening" \in Active /\ lease[r] # "opening"
  BY DEF One, Active
<1> QED
  <2>1. /\ lease' = [lease EXCEPT ![r] = "opening"]
        /\ usedTotal' = usedTotal + 1
        /\ usedPublic' = usedPublic + One(class[r] \in PublicClasses)
        /\ usedPooled' = usedPooled + One(class[r] \in {"pooled"})
        /\ usedControl' = usedControl + One(class[r] \in {"health"})
    BY <1>1 DEF Grant, Classes, PublicClasses, IsPublic, One
  <2>2. /\ totalBySession' =
              [s \in Sessions |-> totalBySession[s] + One(sessionKey[r] = s)]
        /\ openingBySession' =
              [s \in Sessions |-> openingBySession[s] + One(sessionKey[r] = s)]
    BY <1>1, SessionCounterMoves DEF Grant, CountTypeOK, One
  <2>3. /\ publicBySession' = [s \in Sessions |->
              publicBySession[s] + One(class[r] \in PublicClasses /\ sessionKey[r] = s)]
        /\ publicOpeningBySession' = [s \in Sessions |->
              publicOpeningBySession[s] + One(class[r] \in PublicClasses /\ sessionKey[r] = s)]
    <3>1. class[r] \in PublicClasses <=> IsPublic(class[r])
      BY <1>1 DEF Classes, PublicClasses, IsPublic
    <3> QED
      BY <1>1, <3>1, SessionCounterMoves DEF Grant, CountTypeOK, One
  <2> QED
    BY <1>1, <1>2, <2>1, <2>2, <2>3 DEF CountsAs, CountTypeOK, One

(* An active lease is counted, so no counter it belongs to is zero.        *)
LEMMA LeaseIsCounted ==
    ASSUME CountInv, NEW r \in Requests, NEW A \in SUBSET Active, NEW C \in SUBSET Classes,
           NEW S \in SUBSET Sessions, r \in Counted(lease, A, C, S)
    PROVE  Cardinality(Counted(lease, A, C, S)) >= 1
<1>1. IsFiniteSet(Counted(lease, A, C, S))
  BY CountsFinite
<1> QED
  BY <1>1, FS_EmptySet, FS_CardinalityType

(* An opening that ends.                                                   *)
LEMMA OpeningPositive ==
    ASSUME CountInv, CountTypeOK, NEW r \in Requests, lease[r] = "opening"
    PROVE  /\ openingBySession[sessionKey[r]] >= 1
           /\ IsPublic(class[r]) => publicOpeningBySession[sessionKey[r]] >= 1
<1>0. class[r] \in Classes /\ sessionKey[r] \in Sessions
  BY RequestAssumption
<1>1. {"opening"} \in SUBSET Active /\ PublicClasses \in SUBSET Classes
  BY DEF Active, PublicClasses, Classes
<1>2. Cardinality(Counted(lease, {"opening"}, Classes, {sessionKey[r]})) >= 1
  <2>1. r \in Counted(lease, {"opening"}, Classes, {sessionKey[r]})
    BY <1>0 DEF Counted
  <2> QED
    BY <1>0, <1>1, <2>1, LeaseIsCounted
<1>3. ASSUME IsPublic(class[r])
      PROVE  Cardinality(Counted(lease, {"opening"}, PublicClasses, {sessionKey[r]})) >= 1
  <2>1. r \in Counted(lease, {"opening"}, PublicClasses, {sessionKey[r]})
    BY <1>0, <1>3 DEF Counted, Classes, PublicClasses, IsPublic
  <2> QED
    BY <1>0, <1>1, <2>1, LeaseIsCounted
<1> QED
  BY <1>0, <1>2, <1>3 DEF CountInv

(* The same of the streams of its session.                                 *)
LEMMA ActivePositive ==
    ASSUME CountInv, CountTypeOK, NEW r \in Requests, lease[r] \in Active
    PROVE  /\ totalBySession[sessionKey[r]] >= 1
           /\ IsPublic(class[r]) => publicBySession[sessionKey[r]] >= 1
<1>0. class[r] \in Classes /\ sessionKey[r] \in Sessions
  BY RequestAssumption
<1>1. Active \in SUBSET Active /\ PublicClasses \in SUBSET Classes
  BY DEF PublicClasses, Classes
<1>2. Cardinality(Counted(lease, Active, Classes, {sessionKey[r]})) >= 1
  <2>1. r \in Counted(lease, Active, Classes, {sessionKey[r]})
    BY <1>0 DEF Counted
  <2> QED
    BY <1>0, <1>1, <2>1, LeaseIsCounted
<1>3. ASSUME IsPublic(class[r])
      PROVE  Cardinality(Counted(lease, Active, PublicClasses, {sessionKey[r]})) >= 1
  <2>1. r \in Counted(lease, Active, PublicClasses, {sessionKey[r]})
    BY <1>0, <1>3 DEF Counted, Classes, PublicClasses, IsPublic
  <2> QED
    BY <1>0, <1>1, <2>1, LeaseIsCounted
<1> QED
  BY <1>0, <1>2, <1>3 DEF CountInv

(* markLive, and markClosing of an opening or a live lease.                *)
LEMMA MarkCounts ==
    ASSUME CountInv, CountTypeOK, NEW r \in Requests, NEW v \in {"live", "closing"},
           lease[r] \in {"opening", "live"},
           lease' = [lease EXCEPT ![r] = v], LeavesOpening(r),
           UNCHANGED <<usedVars, publicBySession, totalBySession>>
    PROVE  CountsAs(r, v)
<1>1. class[r] \in Classes /\ sessionKey[r] \in Sessions
  BY RequestAssumption
<1>2. /\ v \in Active /\ v # "opening" /\ lease[r] \in Active
  BY DEF Active
<1>3. lease[r] = "opening" =>
         /\ openingBySession[sessionKey[r]] >= 1
         /\ IsPublic(class[r]) => publicOpeningBySession[sessionKey[r]] >= 1
  BY OpeningPositive
<1>4. /\ openingBySession' = [s \in Sessions |-> openingBySession[s]
             - One(lease[r] = "opening" /\ class[r] \in Classes /\ sessionKey[r] = s)]
      /\ publicOpeningBySession' = [s \in Sessions |-> publicOpeningBySession[s]
             - One(lease[r] = "opening" /\ class[r] \in PublicClasses /\ sessionKey[r] = s)]
  BY <1>1, <1>3 DEF LeavesOpening, ReleaseSessionOpening, Decrement, AtLeastZero, One,
     CountTypeOK, Classes, PublicClasses, IsPublic
<1> QED
  BY <1>1, <1>2, <1>4 DEF CountsAs, usedVars, CountTypeOK, One

(* release.                                                                *)
LEMMA ReleaseCounts ==
    ASSUME CountInv, CountTypeOK, NEW r \in Requests, lease[r] \in Active,
           lease' = [lease EXCEPT ![r] = "released"], LeavesOpening(r), ReturnBudgets(r)
    PROVE  CountsAs(r, "released")
<1>1. class[r] \in Classes /\ sessionKey[r] \in Sessions
  BY RequestAssumption
<1>2. "released" \notin Active
  BY DEF Active
<1>3. lease[r] = "opening" =>
         /\ openingBySession[sessionKey[r]] >= 1
         /\ IsPublic(class[r]) => publicOpeningBySession[sessionKey[r]] >= 1
  BY OpeningPositive
<1>4. /\ openingBySession' = [s \in Sessions |-> openingBySession[s]
             - One(lease[r] = "opening" /\ class[r] \in Classes /\ sessionKey[r] = s)]
      /\ publicOpeningBySession' = [s \in Sessions |-> publicOpeningBySession[s]
             - One(lease[r] = "opening" /\ class[r] \in PublicClasses /\ sessionKey[r] = s)]
  BY <1>1, <1>3 DEF LeavesOpening, ReleaseSessionOpening, Decrement, AtLeastZero, One,
     CountTypeOK, Classes, PublicClasses, IsPublic
<1>5. /\ totalBySession[sessionKey[r]] >= 1
      /\ IsPublic(class[r]) => publicBySession[sessionKey[r]] >= 1
  BY ActivePositive
<1>6. /\ totalBySession' = [s \in Sessions |-> totalBySession[s]
             - One(lease[r] \in Active /\ class[r] \in Classes /\ sessionKey[r] = s)]
      /\ publicBySession' = [s \in Sessions |-> publicBySession[s]
             - One(lease[r] \in Active /\ class[r] \in PublicClasses /\ sessionKey[r] = s)]
  <2>1. class[r] \in PublicClasses <=> IsPublic(class[r])
    BY <1>1 DEF Classes, PublicClasses, IsPublic
  <2>2. totalBySession' = Decrement(totalBySession, sessionKey[r])
    BY DEF ReturnBudgets
  <2>3. publicBySession' = IF IsPublic(class[r]) THEN Decrement(publicBySession, sessionKey[r])
                           ELSE publicBySession
    BY DEF ReturnBudgets
  <2>4. totalBySession' = [s \in Sessions |-> totalBySession[s]
             - One(lease[r] \in Active /\ class[r] \in Classes /\ sessionKey[r] = s)]
    <3>1. totalBySession' =
             [s \in Sessions |-> totalBySession[s] - (IF sessionKey[r] = s THEN 1 ELSE 0)]
      BY <1>1, <1>5, <2>2, SessionCounterMoves DEF CountTypeOK
    <3> QED
      BY <1>1, <3>1 DEF One
  <2>5. publicBySession' = [s \in Sessions |-> publicBySession[s]
             - One(lease[r] \in Active /\ class[r] \in PublicClasses /\ sessionKey[r] = s)]
    <3>1. CASE class[r] \in PublicClasses
      <4>1. publicBySession' =
               [s \in Sessions |-> publicBySession[s] - (IF sessionKey[r] = s THEN 1 ELSE 0)]
        BY <1>1, <1>5, <2>1, <2>3, <3>1, SessionCounterMoves DEF CountTypeOK
      <4> QED
        BY <1>1, <3>1, <4>1 DEF One
    <3>2. CASE class[r] \notin PublicClasses
      BY <1>1, <2>1, <2>3, <3>2 DEF One, CountTypeOK
    <3> QED
      BY <3>1, <3>2
  <2> QED
    BY <2>4, <2>5
<1>7. /\ usedTotal' = usedTotal - 1
      /\ usedPublic' = usedPublic - One(class[r] \in PublicClasses)
      /\ usedPooled' = usedPooled - One(class[r] \in {"pooled"})
      /\ usedControl' = usedControl - One(class[r] \in {"health"})
  BY <1>1 DEF ReturnBudgets, One, IsPublic, Classes, PublicClasses
<1> QED
  BY <1>1, <1>2, <1>4, <1>6, <1>7 DEF CountsAs, CountTypeOK, One

-----------------------------------------------------------------------------
(* The rest of the invariant: types, budgets, dials, queues and samples.   *)

DialTypeOK ==
    /\ mu \in {"free", "dispatch"}
    /\ pc \in [Requests -> DialPcs]
    /\ ctxDone \in SUBSET Requests
    /\ status \in [Requests -> {"none", "queued", "granted", "canceled"}]

RegTypeOK ==
    /\ sessionLimits \in [Sessions -> 0..Total]
    /\ everRegistered \in SUBSET Sessions

QueueTypeOK ==
    /\ queues \in [Keys -> Seq(Requests)]
    /\ queueKeys \in Seq(Keys)
    /\ nextQueueKey \in Nat /\ waiters \in Nat

AdaptTypeOK ==
    /\ controller \in 0..MaxController
    /\ newest \in Snapshots /\ snapshot \in Snapshots
    /\ sampling \in Nat
    /\ samp \in [Samplers -> {"none", "due", "read", "publish"}]
    /\ sample \in [Samplers -> [of : 0..MaxController, val : Snapshots]]

ExternalInv == external \in SUBSET Reservers /\ IsFiniteSet(external)

Types ==
    /\ DialTypeOK /\ LeaseTypeOK /\ CountTypeOK /\ RegTypeOK /\ QueueTypeOK /\ AdaptTypeOK
    /\ ExternalInv
    /\ passed \in [Requests -> SUBSET Keys]

(* No budget is exceeded, and the streams are public or control streams.   *)
BudgetInv ==
    /\ usedTotal = usedPublic + usedControl
    /\ usedTotal <= Total /\ usedPublic <= Public
    /\ usedPooled <= Pooled /\ usedControl <= Control
    /\ \A s \in Sessions :
          /\ openingBySession[s] <= MaxOpeningPerSession
          /\ publicOpeningBySession[s] <= PublicOpeningLimitPerSession
          /\ s \in registeredSessions => totalBySession[s] <= SessionLimit(s)

(* Where a dial is: who holds a lease, who is queued, whose session was    *)
(* never registered, and who is taking a sample.                           *)
Holds(r) == pc[r] \in {"holding", "giveback"} \/ (pc[r] = "waiting" /\ status[r] = "granted")

DialInv ==
    \A r \in Requests :
        /\ lease[r] \in Active <=> Holds(r)
        /\ status[r] = "queued" => pc[r] = "waiting"
        /\ pc[r] # "idle" => sessionKey[r] \in everRegistered
        /\ samp[r] # "none" => pc[r] \in {"tryLock", "lock"}

QueueInv == QueueConsistent /\ IsFiniteSet(Queued)

(* The sampling guard counts the announced samples of the controller.      *)
Announced ==
    {p \in Samplers : samp[p] \in {"read", "publish"} /\ sample[p].of = controller}

SampleInv ==
    /\ IsFiniteSet(Announced) /\ sampling = Cardinality(Announced)
    /\ \A p \in Samplers : samp[p] \in {"read", "publish"} => sample[p].of <= controller

-----------------------------------------------------------------------------
(* What a step may do to the leases, the queues and the samples.           *)

Grants(r) ==
    /\ lease[r] \notin Active /\ CanGrant(class[r], sessionKey[r])
    /\ Grant(r)

Marks(r) ==
    /\ lease[r] \in {"opening", "live"}
    /\ \E v \in {"live", "closing"} : lease' = [lease EXCEPT ![r] = v]
    /\ LeavesOpening(r)
    /\ UNCHANGED <<usedVars, publicBySession, totalBySession>>

Returns(r) ==
    /\ lease[r] \in Active
    /\ lease' = [lease EXCEPT ![r] = "released"]
    /\ LeavesOpening(r) /\ ReturnBudgets(r)

LeaseStep ==
    \/ UNCHANGED leaseVars
    \/ \E r \in Requests : (Grants(r) \/ Marks(r) \/ Returns(r)) /\ UNCHANGED regVars

Joins(r) ==
    /\ status[r] # "queued" /\ ClassEnabled(class[r]) /\ ~QueueFull(r)
    /\ Enqueue(r)
    /\ status' = [status EXCEPT ![r] = "queued"]

(* The waiter at place i of the queue at place m of the order goes.        *)
Leaves(m, i) ==
    LET k == queueKeys[m]
        left == RemoveAt(queues[k], i)
    IN
    /\ queues' = [queues EXCEPT ![k] = left]
    /\ waiters' = waiters - 1
    /\ \E x \in {"granted", "canceled"} : status' = [status EXCEPT ![queues[k][i]] = x]
    /\ \/ /\ left = <<>>
          /\ queueKeys' = RemoveAt(queueKeys, m)
          /\ \E c \in {m - 1, nextQueueKey} : nextQueueKey' = CursorWithout(c, m - 1)
       \/ /\ left # <<>>
          /\ queueKeys' = queueKeys
          /\ nextQueueKey' \in {m - 1, m % Len(queueKeys), nextQueueKey}

QueueStep ==
    \/ UNCHANGED <<queueVars, status>>
    \/ \E r \in Requests : Joins(r)
    \/ \E m \in 1..Len(queueKeys) : \E i \in 1..Len(queues[queueKeys[m]]) : Leaves(m, i)

SampleStep ==
    \/ UNCHANGED adaptVars
    \/ \E p \in Samplers : samp[p] \in {"none", "due"} /\ BeginSample(p)
    \/ \E p \in Samplers : \E l \in SampledLimits : \E f : SampleRead(p, l, f)
    \/ \E p \in Samplers : SamplePublish(p)
    \/ \E p \in Samplers : EnableAdaptiveMemory(p)

(* A queue the dispatcher looks at, and a waiter in it.                    *)
LEMMA QueuePlace ==
    ASSUME QueueTypeOK, QueueInv, NEW m \in 1..Len(queueKeys),
           NEW i \in 1..Len(queues[queueKeys[m]])
    PROVE  /\ Len(queueKeys) \in Nat /\ m - 1 \in 0..(Len(queueKeys) - 1)
           /\ queueKeys[m] \in Keys
           /\ queues[queueKeys[m]] \in Seq(Requests)
           /\ DOMAIN queues[queueKeys[m]] = 1..Len(queues[queueKeys[m]])
           /\ queues[queueKeys[m]][i] \in Requests
           /\ queueKey[queues[queueKeys[m]][i]] = queueKeys[m]
           /\ status[queues[queueKeys[m]][i]] = "queued"
<1>1. Len(queueKeys) \in Nat /\ queueKeys[m] \in Keys
  BY LenProperties, ElementOfSeq DEF QueueTypeOK
<1>2. queues[queueKeys[m]] \in Seq(Requests)
  BY <1>1 DEF QueueTypeOK
<1>3. DOMAIN queues[queueKeys[m]] = 1..Len(queues[queueKeys[m]])
  BY <1>2, LenProperties
<1>4. queues[queueKeys[m]][i] \in ToSet(queues[queueKeys[m]])
  BY <1>3 DEF ToSet
<1>5. queues[queueKeys[m]][i] \in
         {r \in Requests : queueKey[r] = queueKeys[m] /\ status[r] = "queued"}
  BY <1>1, <1>4 DEF QueueInv, QueueConsistent
<1> QED
  BY <1>1, <1>2, <1>3, <1>5

(* The scan starts at the cursor and wraps once.                           *)
LEMMA KeyIndexIs ==
    ASSUME QueueTypeOK, NEW j \in 0..(Len(queueKeys) - 1)
    PROVE  /\ Cursor \in 0..(Len(queueKeys) - 1)
           /\ KeyIndex(j) = IF Cursor + j < Len(queueKeys) THEN Cursor + j
                                                      ELSE (Cursor + j) - Len(queueKeys)
           /\ KeyIndex(j) \in 0..(Len(queueKeys) - 1)
           /\ KeyIndex(j) + 1 \in 1..Len(queueKeys)
<1>1. Len(queueKeys) \in Nat \ {0}
  BY LenProperties DEF QueueTypeOK
<1>2. Cursor \in 0..(Len(queueKeys) - 1)
  BY <1>1 DEF QueueTypeOK, Cursor
<1>3. (Cursor + j) % Len(queueKeys) = IF Cursor + j < Len(queueKeys) THEN Cursor + j
                                                      ELSE (Cursor + j) - Len(queueKeys)
  <2>1. Cursor + j \in 0..(Len(queueKeys) + Len(queueKeys) - 1)
    BY <1>1, <1>2
  <2>2. PICK n \in Nat \ {0} : n = Len(queueKeys)
    BY <1>1
  <2>3. PICK a \in 0..(n + n - 1) : a = Cursor + j
    BY <2>1, <2>2
  <2>4. a % n = IF a < n THEN a ELSE a - n
    BY Wrap
  <2> QED
    BY <2>2, <2>3, <2>4, Zenon
<1> HIDE DEF Cursor
<1> QED
  BY <1>1, <1>2, <1>3 DEF KeyIndex


-----------------------------------------------------------------------------
(* The limits are numbers.                                                 *)
LEMMA LimitTypes ==
    ASSUME AdaptTypeOK, ExternalInv
    PROVE  /\ Cardinality(external) \in Nat /\ snapshot.limit \in Nat
           /\ EffectiveAdmissionLimit =
                 IF Cardinality(external) > snapshot.limit THEN 0
                 ELSE snapshot.limit - Cardinality(external)
           /\ EffectiveAdmissionLimit \in Nat
           /\ ProtectedControl \in Nat /\ AdaptivePublicLimit \in Nat
<1>1. Cardinality(external) \in Nat
  BY FS_CardinalityType DEF ExternalInv
<1>2. snapshot.limit \in Nat
  BY DEF AdaptTypeOK, Snapshots
<1>3. EffectiveAdmissionLimit =
         IF Cardinality(external) > snapshot.limit THEN 0
         ELSE snapshot.limit - Cardinality(external)
  BY <1>1, <1>2 DEF EffectiveAdmissionLimit, AdmissionLimitWithExternal, AtLeastZero
<1>4. EffectiveAdmissionLimit \in Nat
  BY <1>1, <1>2, <1>3
<1>5. ProtectedControl \in Nat
  BY <1>4, ConfigAssumption, LimitAssumption DEF ProtectedControl, LesserOf, AtLeastZero
<1>6. AdaptivePublicLimit \in Nat
  BY <1>4, <1>5, ConfigAssumption DEF AdaptivePublicLimit, LesserOf, AtLeastZero
<1> QED
  BY <1>1, <1>2, <1>3, <1>4, <1>5, <1>6

(* What the limits of a session are.                                       *)
LEMMA SessionLimitTypes ==
    ASSUME RegTypeOK, NEW s \in Sessions
    PROVE  /\ SessionLimit(s) \in 1..Total
           /\ PublicSessionLimit(s) \in Int
           /\ PublicOpeningLimitPerSession \in Nat
<1>1. SessionLimit(s) \in 1..Total
  BY ConfigAssumption DEF RegTypeOK, SessionLimit
<1>2. PublicSessionLimit(s) \in Int
  BY ConfigAssumption DEF PublicSessionLimit
<1>3. PublicOpeningLimitPerSession \in Nat
  BY ConfigAssumption, LimitAssumption DEF PublicOpeningLimitPerSession, LesserOf
<1> QED
  BY <1>1, <1>2, <1>3

(* Without a constraint in the way a request may be granted.               *)
LEMMA UnblockedIsGrantable ==
    ASSUME CountTypeOK, RegTypeOK, AdaptTypeOK, ExternalInv,
           NEW c \in Classes, NEW s \in Sessions, BlockingConstraint(c, s) = "fair_turn"
    PROVE  CanGrant(c, s)
<1>1. /\ ~ResourcePressure(c)
      /\ ~(usedTotal >= Total)
      /\ ~(totalBySession[s] >= SessionLimit(s))
      /\ ~(IsPublic(c) /\ usedPublic >= Public)
      /\ ~(IsPublic(c) /\ publicBySession[s] >= PublicSessionLimit(s))
      /\ ~(c = "health" /\ usedControl >= Control)
      /\ ~OpeningLimited(c, s)
      /\ ~(c = "pooled" /\ usedPooled >= Pooled)
  BY DEF BlockingConstraint
<1>2. /\ SessionLimit(s) \in Int /\ PublicSessionLimit(s) \in Int
      /\ PublicOpeningLimitPerSession \in Int
      /\ EffectiveAdmissionLimit \in Int /\ AdaptivePublicLimit \in Int
      /\ controller \in Int
  BY SessionLimitTypes, LimitTypes DEF AdaptTypeOK
<1>3. /\ usedTotal \in Int /\ usedPublic \in Int /\ usedPooled \in Int /\ usedControl \in Int
      /\ totalBySession[s] \in Int /\ publicBySession[s] \in Int
      /\ openingBySession[s] \in Int /\ publicOpeningBySession[s] \in Int
  BY DEF CountTypeOK
<1>4. /\ Total \in Int /\ Public \in Int /\ Pooled \in Int /\ Control \in Int
      /\ MaxOpeningPerSession \in Int
  BY ConfigAssumption
<1>5. controller > 0 =>
         /\ usedTotal < EffectiveAdmissionLimit
         /\ IsPublic(c) => usedPublic < AdaptivePublicLimit
  BY <1>1, <1>2, <1>3, <1>4 DEF ResourcePressure
<1>6. /\ openingBySession[s] < MaxOpeningPerSession
      /\ IsPublic(c) => publicOpeningBySession[s] < PublicOpeningLimitPerSession
  BY <1>1, <1>2, <1>3, <1>4 DEF OpeningLimited
<1>7. /\ usedTotal < Total /\ totalBySession[s] < SessionLimit(s)
      /\ IsPublic(c) => usedPublic < Public /\ publicBySession[s] < PublicSessionLimit(s)
      /\ c = "pooled" => usedPooled < Pooled
      /\ c = "health" => usedControl < Control
  BY <1>1, <1>2, <1>3, <1>4
<1> QED
  BY <1>5, <1>6, <1>7 DEF CanGrant

-----------------------------------------------------------------------------
(* Every step is one of these.                                             *)
LEMMA PopLeaves ==
    ASSUME QueueTypeOK, QueueInv, NEW j \in 0..(Len(queueKeys) - 1), NEW i \in DOMAIN QueueAt(j),
           NEW advance \in BOOLEAN, PopQueueEntry(KeyIndex(j), i, advance),
           NEW x \in {"granted", "canceled"}, status' = [status EXCEPT ![QueueAt(j)[i]] = x]
    PROVE  /\ KeyIndex(j) + 1 \in 1..Len(queueKeys)
           /\ i \in 1..Len(queues[queueKeys[KeyIndex(j) + 1]])
           /\ Leaves(KeyIndex(j) + 1, i)
           /\ QueueAt(j)[i] \in Requests
           /\ queueKey[QueueAt(j)[i]] = queueKeys[KeyIndex(j) + 1]
           /\ status[QueueAt(j)[i]] = "queued"
<1> DEFINE m == KeyIndex(j) + 1
<1>1. m \in 1..Len(queueKeys) /\ KeyIndex(j) \in Nat /\ m - 1 = KeyIndex(j)
  BY KeyIndexIs
<1>2. queues[queueKeys[m]] \in Seq(Requests) /\ QueueAt(j) = queues[queueKeys[m]]
  BY <1>1, ElementOfSeq DEF QueueTypeOK, QueueAt
<1>3. i \in 1..Len(queues[queueKeys[m]])
  BY <1>2, LenProperties
<1>4. Leaves(m, i)
  BY <1>1, <1>2 DEF Leaves, PopQueueEntry, RemoveQueueKeyAt
<1> QED
  BY <1>1, <1>2, <1>3, <1>4, QueuePlace

(* removeWaiterLocked takes the waiter out of its queue.                   *)
LEMMA RemoveLeaves ==
    ASSUME QueueTypeOK, QueueInv, NEW r \in Requests, status[r] = "queued", RemoveWaiter(r),
           status' = [status EXCEPT ![r] = "canceled"]
    PROVE  \E m \in 1..Len(queueKeys) : \E i \in 1..Len(queues[queueKeys[m]]) :
              Leaves(m, i) /\ queues[queueKeys[m]][i] = r /\ queueKeys[m] = queueKey[r]
<1> DEFINE k == queueKey[r]
           i == CHOOSE n \in DOMAIN queues[k] : queues[k][n] = r
           m == CHOOSE n \in 1..Len(queueKeys) : queueKeys[n] = k
<1>1. k \in Keys
  BY RequestAssumption
<1>2. r \in ToSet(queues[k])
  BY <1>1 DEF QueueInv, QueueConsistent
<1>3. i \in DOMAIN queues[k] /\ queues[k][i] = r
  BY <1>2 DEF ToSet
<1>4. queues[k] \in Seq(Requests) /\ DOMAIN queues[k] = 1..Len(queues[k])
  BY <1>1, LenProperties DEF QueueTypeOK
<1>5. queues[k] # <<>>
  BY <1>3, <1>4
<1>6. k \in ToSet(queueKeys) /\ DOMAIN queueKeys = 1..Len(queueKeys) /\ Len(queueKeys) \in Nat
  BY <1>1, <1>5, LenProperties DEF QueueInv, QueueConsistent, QueueTypeOK
<1>7. m \in 1..Len(queueKeys) /\ queueKeys[m] = k
  BY <1>6 DEF ToSet
<1>8. /\ queues' = [queues EXCEPT ![k] = RemoveAt(queues[k], i)]
      /\ waiters' = waiters - 1
      /\ IF RemoveAt(queues[k], i) = <<>> THEN RemoveQueueKeyAt(m - 1, nextQueueKey)
                                          ELSE UNCHANGED <<queueKeys, nextQueueKey>>
  BY DEF RemoveWaiter
<1> HIDE DEF i, m
<1>9. (m - 1) + 1 = m
  BY <1>6, <1>7
<1>10. Leaves(m, i)
  BY <1>3, <1>7, <1>8, <1>9 DEF Leaves, RemoveQueueKeyAt
<1> QED
  BY <1>3, <1>4, <1>7, <1>10

(* Every step does one of these things to the leases, one to the queues    *)
(* and one to the samples.                                                 *)
LEMMA Footprint ==
    ASSUME Types, QueueInv, DialInv, [Next]_vars
    PROVE  LeaseStep /\ QueueStep /\ SampleStep
<1> USE DEF usedVars, sessionVars, leaseVars, regVars, queueVars, adaptVars
<1>0. CASE UNCHANGED vars
  BY <1>0 DEF vars, LeaseStep, QueueStep, SampleStep
<1>1. ASSUME NEW j \in 0..(Len(queueKeys) - 1), NEW i \in DOMAIN QueueAt(j), CancelWaiter(j, i),
             UNCHANGED <<pc, ctxDone, regVars, adaptVars, external>>
      PROVE  LeaseStep /\ QueueStep /\ SampleStep
  <2>1. QueueStep
    BY <1>1, PopLeaves DEF Types, CancelWaiter, QueueStep
  <2> QED
    BY <1>1, <2>1 DEF CancelWaiter, LeaseStep, SampleStep
<1>2. ASSUME NEW j \in 0..(Len(queueKeys) - 1), NEW i \in DOMAIN QueueAt(j), GrantWaiter(j, i),
             FirstActionable(j, i), UNCHANGED <<pc, ctxDone, regVars, adaptVars, external>>
      PROVE  LeaseStep /\ QueueStep /\ SampleStep
  <2> DEFINE r == QueueAt(j)[i]
  <2>1. QueueStep /\ r \in Requests /\ status[r] = "queued"
    BY <1>2, PopLeaves DEF Types, GrantWaiter, QueueStep
  <2>2. lease[r] \notin Active
    BY <2>1 DEF DialInv, Holds
  <2>3. Grants(r)
    BY <1>2, <2>2 DEF GrantWaiter, FirstActionable, Actionable, Grantable, Grants
  <2> HIDE DEF r
  <2> QED
    BY <1>2, <2>1, <2>3 DEF LeaseStep, SampleStep
<1>3. ASSUME DispatchEnds, UNCHANGED <<pc, ctxDone, regVars, adaptVars, external>>
      PROVE  LeaseStep /\ QueueStep /\ SampleStep
  BY <1>3 DEF DispatchEnds, LeaseStep, QueueStep, SampleStep
<1>4. ASSUME NEW p \in Samplers, NEW l \in SampledLimits, SampleRead(p, l, p \in Refreshers)
      PROVE  LeaseStep /\ QueueStep /\ SampleStep
  <2>1. SampleStep
    BY <1>4 DEF SampleStep
  <2> QED
    BY <1>4, <2>1 DEF SampleRead, LeaseStep, QueueStep
<1>5. ASSUME NEW p \in Samplers, SamplePublish(p)
      PROVE  LeaseStep /\ QueueStep /\ SampleStep
  <2>1. SampleStep
    BY <1>5 DEF SampleStep
  <2> QED
    BY <1>5, <2>1 DEF SamplePublish, LeaseStep, QueueStep
<1>6. ASSUME NEW p \in Refreshers, EnableAdaptiveMemory(p)
      PROVE  LeaseStep /\ QueueStep /\ SampleStep
  <2>1. SampleStep
    BY <1>6 DEF SampleStep, Samplers
  <2> QED
    BY <1>6, <2>1 DEF EnableAdaptiveMemory, LeaseStep, QueueStep
<1>7. ASSUME NEW p \in Refreshers, ForceRefresh(p)
      PROVE  LeaseStep /\ QueueStep /\ SampleStep
  <2>1. SampleStep
    BY <1>7 DEF ForceRefresh, SampleStep, Samplers
  <2> QED
    BY <1>7, <2>1 DEF ForceRefresh, LeaseStep, QueueStep
<1>8. ASSUME NEW e \in Reservers, Reserve(e) \/ Unreserve(e)
      PROVE  LeaseStep /\ QueueStep /\ SampleStep
  BY <1>8 DEF Reserve, Unreserve, LeaseStep, QueueStep, SampleStep
<1>9. ASSUME NEW s \in Sessions, UnregisterSession(s)
      PROVE  LeaseStep /\ QueueStep /\ SampleStep
  BY <1>9 DEF UnregisterSession, LeaseStep, QueueStep, SampleStep
<1>10. ASSUME NEW s \in Sessions, NEW l \in NegotiatedLimits, RegisterSession(s, l)
       PROVE  LeaseStep /\ QueueStep /\ SampleStep
  BY <1>10 DEF RegisterSession, LeaseStep, QueueStep, SampleStep
<1>11. ASSUME NEW r \in Requests, StartDial(r) \/ AcquireExpires(r) \/ Return(r) \/ ContextEnds(r)
       PROVE  LeaseStep /\ QueueStep /\ SampleStep
  BY <1>11 DEF StartDial, AcquireExpires, Return, ContextEnds, LeaseStep, QueueStep, SampleStep
<1>12. ASSUME NEW r \in Requests, Refresh(r)
       PROVE  LeaseStep /\ QueueStep /\ SampleStep
  <2>1. r \in Samplers /\ samp[r] = "none"
    BY <1>12 DEF Refresh, DialInv, Samplers
  <2>2. SampleStep
    BY <1>12, <2>1 DEF Refresh, SampleStep
  <2> QED
    BY <1>12, <2>2 DEF Refresh, LeaseStep, QueueStep
<1>13. ASSUME NEW r \in Requests, TryAcquire(r)
       PROVE  LeaseStep /\ QueueStep /\ SampleStep
  <2>1. QueueStep /\ SampleStep
    BY <1>13 DEF TryAcquire, QueueStep, SampleStep
  <2>2. ASSUME Grant(r), BlockingConstraint(class[r], sessionKey[r]) = "fair_turn",
               UNCHANGED regVars
        PROVE  LeaseStep
    <3>1. class[r] \in Classes /\ sessionKey[r] \in Sessions
      BY RequestAssumption
    <3>2. CanGrant(class[r], sessionKey[r])
      BY <2>2, <3>1, UnblockedIsGrantable DEF Types
    <3>3. lease[r] \notin Active
      BY <1>13 DEF TryAcquire, DialInv, Holds
    <3> QED
      BY <2>2, <3>2, <3>3 DEF LeaseStep, Grants
  <2>3. \/ UNCHANGED leaseVars
        \/ Grant(r) /\ BlockingConstraint(class[r], sessionKey[r]) = "fair_turn" /\ UNCHANGED regVars
    BY <1>13 DEF TryAcquire
  <2> QED
    BY <2>1, <2>2, <2>3 DEF LeaseStep
<1>14. ASSUME NEW r \in Requests, Acquire(r)
       PROVE  LeaseStep /\ QueueStep /\ SampleStep
  <2>1. lease[r] \notin Active /\ status[r] # "queued"
    BY <1>14 DEF Acquire, DialInv, Holds
  <2>2. SampleStep /\ UNCHANGED regVars
    BY <1>14 DEF Acquire, SampleStep
  <2>3. \/ UNCHANGED leaseVars /\ UNCHANGED <<queueVars, status>>
        \/ Grants(r) /\ UNCHANGED <<queueVars, status>>
        \/ UNCHANGED leaseVars /\ Joins(r)
    BY <1>14, <2>1 DEF Acquire, Grants, Joins
  <2> QED
    BY <2>2, <2>3 DEF LeaseStep, QueueStep
<1>15. ASSUME NEW r \in Requests, Abandon(r)
       PROVE  LeaseStep /\ QueueStep /\ SampleStep
  <2>1. QueueStep
    BY <1>15, RemoveLeaves DEF Abandon, Types, QueueStep
  <2> QED
    BY <1>15, <2>1 DEF Abandon, LeaseStep, SampleStep
<1>16. ASSUME NEW r \in Requests, MarkLive(r) \/ MarkClosing(r)
       PROVE  LeaseStep /\ QueueStep /\ SampleStep
  <2>1. Marks(r)
    BY <1>16 DEF MarkLive, MarkClosing, Marks, LeavesOpening
  <2> QED
    BY <1>16, <2>1 DEF MarkLive, MarkClosing, LeaseStep, QueueStep, SampleStep
<1>17. ASSUME NEW r \in Requests, Release(r)
       PROVE  LeaseStep /\ QueueStep /\ SampleStep
  <2>1. lease[r] \in Active
    BY <1>17 DEF Release, DialInv, Holds
  <2>2. Returns(r)
    BY <1>17, <2>1 DEF Release, Returns
  <2> QED
    BY <1>17, <2>2 DEF Release, LeaseStep, QueueStep, SampleStep
<1> QED
  BY <1>0, <1>1, <1>2, <1>3, <1>4, <1>5, <1>6, <1>7, <1>8, <1>9, <1>10, <1>11, <1>12, <1>13,
     <1>14, <1>15, <1>16, <1>17
     DEF Next, Dispatch, Sampling, Dial, Stream

-----------------------------------------------------------------------------
(* Budgets.                                                                *)

(* A lease step's counters follow it.                                      *)
LEMMA LeaseStepCounts ==
    ASSUME CountInv, CountTypeOK, NEW r \in Requests, Grants(r) \/ Marks(r) \/ Returns(r)
    PROVE  \/ CountsAs(r, "opening") /\ Grants(r)
           \/ /\ lease[r] \in Active
              /\ \E v \in {"live", "closing", "released"} : CountsAs(r, v)
<1>1. CASE Grants(r)
  BY <1>1, GrantCounts DEF Grants
<1>2. CASE Marks(r)
  <2>1. PICK v \in {"live", "closing"} : lease' = [lease EXCEPT ![r] = v]
    BY <1>2 DEF Marks
  <2>2. CountsAs(r, v)
    BY <1>2, <2>1, MarkCounts DEF Marks
  <2> QED
    BY <1>2, <2>2 DEF Marks, Active
<1>3. CASE Returns(r)
  BY <1>3, ReleaseCounts DEF Returns
<1> QED
  BY <1>1, <1>2, <1>3

(* The counters keep counting the leases.                                  *)
LEMMA CountNext ==
    ASSUME CountInv, CountTypeOK, LeaseTypeOK, LeaseStep
    PROVE  CountInv' /\ CountTypeOK' /\ LeaseTypeOK'
<1>1. CASE UNCHANGED leaseVars
  <2>1. UNCHANGED <<lease, usedTotal, usedPublic, usedPooled, usedControl, openingBySession,
                    publicOpeningBySession, publicBySession, totalBySession>>
    BY <1>1 DEF leaseVars, usedVars, sessionVars
  <2>2. CountInv'
    BY <2>1 DEF CountInv
  <2> QED
    BY <2>1, <2>2 DEF CountTypeOK, LeaseTypeOK
<1>2. ASSUME NEW r \in Requests, Grants(r) \/ Marks(r) \/ Returns(r)
      PROVE  CountInv' /\ CountTypeOK' /\ LeaseTypeOK'
  <2>1. PICK v \in {"opening", "live", "closing", "released"} : CountsAs(r, v)
    BY <1>2, LeaseStepCounts
  <2>2. LeaseTypeOK'
    BY <2>1 DEF CountsAs, LeaseTypeOK, LeaseStates, Active
  <2> QED
    BY <2>1, <2>2, CountStep
<1> QED
  BY <1>1, <1>2 DEF LeaseStep

(* A grant stays within the budgets.                                       *)
LEMMA GrantWithinBudgets ==
    ASSUME BudgetInv, CountTypeOK, RegTypeOK, NEW r \in Requests, lease[r] \notin Active,
           CountsAs(r, "opening"), CanGrant(class[r], sessionKey[r]), UNCHANGED regVars
    PROVE  BudgetInv'
<1> DEFINE s0 == sessionKey[r]
           p0 == One(class[r] \in PublicClasses)
<1>0. class[r] \in Classes /\ s0 \in Sessions
  BY RequestAssumption
<1>1. /\ "opening" \in Active /\ lease[r] # "opening"
  BY DEF Active
<1>2. /\ usedTotal' = usedTotal + 1
      /\ usedPublic' = usedPublic + p0
      /\ usedPooled' = usedPooled + One(class[r] = "pooled")
      /\ usedControl' = usedControl + One(class[r] = "health")
  BY <1>0, <1>1 DEF CountsAs, One, CountTypeOK
<1>3. \A s \in Sessions :
         /\ totalBySession'[s] = IF s = s0 THEN totalBySession[s] + 1 ELSE totalBySession[s]
         /\ openingBySession'[s] = IF s = s0 THEN openingBySession[s] + 1 ELSE openingBySession[s]
         /\ publicOpeningBySession'[s] =
               IF s = s0 /\ class[r] \in PublicClasses THEN publicOpeningBySession[s] + 1
               ELSE publicOpeningBySession[s]
  BY <1>0, <1>1 DEF CountsAs, One, CountTypeOK
<1>4. /\ usedTotal < Total
      /\ class[r] \in PublicClasses =>
            usedPublic < Public /\ publicOpeningBySession[s0] < PublicOpeningLimitPerSession
      /\ class[r] = "pooled" => usedPooled < Pooled
      /\ class[r] = "health" => usedControl < Control
      /\ totalBySession[s0] < SessionLimit(s0) /\ openingBySession[s0] < MaxOpeningPerSession
  BY DEF CanGrant, IsPublic, PublicClasses
<1>5. /\ usedTotal' = usedPublic' + usedControl'
      /\ usedTotal' <= Total /\ usedPublic' <= Public
      /\ usedPooled' <= Pooled /\ usedControl' <= Control
  BY <1>0, <1>2, <1>4, ConfigAssumption
     DEF BudgetInv, CountTypeOK, One, Classes, PublicClasses
<1>6. \A s \in Sessions : SessionLimit(s) \in Int /\ PublicOpeningLimitPerSession \in Int
  BY SessionLimitTypes
<1>7. \A s \in Sessions : totalBySession[s] \in Int /\ openingBySession[s] \in Int
                            /\ publicOpeningBySession[s] \in Int
  BY DEF CountTypeOK
<1>8. registeredSessions' = registeredSessions /\ \A s \in Sessions : SessionLimit(s)' = SessionLimit(s)
  BY DEF registeredSessions, SessionLimit, regVars
<1>9. ASSUME NEW s \in Sessions
      PROVE  /\ openingBySession'[s] <= MaxOpeningPerSession
             /\ publicOpeningBySession'[s] <= PublicOpeningLimitPerSession
             /\ s \in registeredSessions => totalBySession'[s] <= SessionLimit(s)
  BY <1>3, <1>4, <1>6, <1>7, ConfigAssumption DEF BudgetInv
<1>10. PublicOpeningLimitPerSession' = PublicOpeningLimitPerSession
  BY DEF PublicOpeningLimitPerSession
<1> QED
  BY <1>5, <1>8, <1>9, <1>10 DEF BudgetInv

(* Everything else that happens to an active lease only gives back.        *)
LEMMA GivesBackWithinBudgets ==
    ASSUME BudgetInv, CountTypeOK, CountTypeOK', RegTypeOK, NEW r \in Requests,
           lease[r] \in Active, NEW v \in {"live", "closing", "released"}, CountsAs(r, v),
           UNCHANGED regVars
    PROVE  BudgetInv'
<1>0. class[r] \in Classes /\ sessionKey[r] \in Sessions
  BY RequestAssumption
<1>1. v # "opening"
  OBVIOUS
<1>2. /\ usedTotal' = usedPublic' + usedControl'
      /\ usedTotal' <= usedTotal /\ usedPublic' <= usedPublic
      /\ usedPooled' <= usedPooled /\ usedControl' <= usedControl
  BY <1>0 DEF CountsAs, One, CountTypeOK, BudgetInv, Classes, PublicClasses
<1>3. \A s \in Sessions :
         /\ totalBySession'[s] <= totalBySession[s]
         /\ openingBySession'[s] <= openingBySession[s]
         /\ publicOpeningBySession'[s] <= publicOpeningBySession[s]
  BY <1>0, <1>1 DEF CountsAs, One, CountTypeOK
<1>6. \A s \in Sessions : SessionLimit(s) \in Int /\ PublicOpeningLimitPerSession \in Int
  BY SessionLimitTypes
<1>7. \A s \in Sessions :
         /\ totalBySession[s] \in Int /\ openingBySession[s] \in Int
         /\ publicOpeningBySession[s] \in Int
         /\ totalBySession'[s] \in Int /\ openingBySession'[s] \in Int
         /\ publicOpeningBySession'[s] \in Int
  BY DEF CountTypeOK
<1>8. registeredSessions' = registeredSessions /\ \A s \in Sessions : SessionLimit(s)' = SessionLimit(s)
  BY DEF registeredSessions, SessionLimit, regVars
<1>9. ASSUME NEW s \in Sessions
      PROVE  /\ openingBySession'[s] <= MaxOpeningPerSession
             /\ publicOpeningBySession'[s] <= PublicOpeningLimitPerSession
             /\ s \in registeredSessions => totalBySession'[s] <= SessionLimit(s)
  BY <1>3, <1>6, <1>7, ConfigAssumption DEF BudgetInv
<1>10. PublicOpeningLimitPerSession' = PublicOpeningLimitPerSession
  BY DEF PublicOpeningLimitPerSession
<1>11. /\ usedTotal' <= Total /\ usedPublic' <= Public
       /\ usedPooled' <= Pooled /\ usedControl' <= Control
  <2>1. /\ usedTotal <= Total /\ usedPublic <= Public
        /\ usedPooled <= Pooled /\ usedControl <= Control
    BY DEF BudgetInv
  <2>2. /\ usedTotal \in Nat /\ usedPublic \in Nat /\ usedPooled \in Nat /\ usedControl \in Nat
        /\ usedTotal' \in Nat /\ usedPublic' \in Nat /\ usedPooled' \in Nat /\ usedControl' \in Nat
    BY DEF CountTypeOK
  <2> QED
    <3>1. Total \in Nat /\ Public \in Nat /\ Pooled \in Nat /\ Control \in Nat
      BY ConfigAssumption
    <3>2. /\ usedTotal' <= usedTotal /\ usedPublic' <= usedPublic
          /\ usedPooled' <= usedPooled /\ usedControl' <= usedControl
      BY <1>2
    <3>3. \A a, b, c \in Nat : a <= b /\ b <= c => a <= c
      OBVIOUS
    <3> QED
      BY <2>1, <2>2, <3>1, <3>2, <3>3, Zenon
<1> QED
  BY <1>2, <1>11, <1>8, <1>9, <1>10 DEF BudgetInv

(* A session that registers has no streams yet: its dials come later.      *)
LEMMA NewSessionIsEmpty ==
    ASSUME CountInv, DialInv, NEW s \in Sessions, s \notin everRegistered
    PROVE  totalBySession[s] = 0
<1>1. Counted(lease, Active, Classes, {s}) = {}
  <2> SUFFICES ASSUME NEW r \in Counted(lease, Active, Classes, {s}) PROVE FALSE
    OBVIOUS
  <2>1. r \in Requests /\ lease[r] \in Active /\ sessionKey[r] = s
    BY DEF Counted
  <2>2. Holds(r)
    BY <2>1 DEF DialInv
  <2>3. pc[r] # "idle"
    BY <2>2 DEF Holds
  <2> QED
    BY <2>1, <2>3 DEF DialInv
<1> QED
  BY <1>1, FS_EmptySet DEF CountInv

(* Every step keeps the budgets.                                           *)
LEMMA BudgetNext ==
    ASSUME Types, CountInv, BudgetInv, DialInv, QueueInv, [Next]_vars
    PROVE  BudgetInv'
<1> USE DEF Types
<1>1. LeaseStep /\ CountTypeOK'
  BY Footprint, CountNext
<1>2. ASSUME NEW r \in Requests, Grants(r) \/ Marks(r) \/ Returns(r), UNCHANGED regVars
      PROVE  BudgetInv'
  <2>1. CASE CountsAs(r, "opening") /\ Grants(r)
    BY <1>2, <2>1, GrantWithinBudgets DEF Grants
  <2>2. ASSUME lease[r] \in Active, NEW v \in {"live", "closing", "released"}, CountsAs(r, v)
        PROVE  BudgetInv'
    BY <1>1, <1>2, <2>2, GivesBackWithinBudgets
  <2> QED
    BY <1>2, <2>1, <2>2, LeaseStepCounts
<1>3. CASE UNCHANGED <<leaseVars, regVars>>
  BY <1>3 DEF leaseVars, usedVars, sessionVars, regVars, BudgetInv, registeredSessions, SessionLimit,
     PublicOpeningLimitPerSession
<1>4. ASSUME NEW s \in Sessions, UnregisterSession(s) PROVE BudgetInv'
  <2>1. /\ UNCHANGED leaseVars
        /\ sessionLimits' = [sessionLimits EXCEPT ![s] = 0]
    BY <1>4 DEF UnregisterSession
  <2>2. \A t \in Sessions : t \in registeredSessions' =>
           t \in registeredSessions /\ SessionLimit(t)' = SessionLimit(t)
    BY <2>1 DEF registeredSessions, SessionLimit, RegTypeOK
  <2>3. PublicOpeningLimitPerSession' = PublicOpeningLimitPerSession
    BY DEF PublicOpeningLimitPerSession
  <2> QED
    BY <2>1, <2>2, <2>3 DEF leaseVars, usedVars, sessionVars, BudgetInv
<1>5. ASSUME NEW s \in Sessions, NEW l \in NegotiatedLimits, RegisterSession(s, l) PROVE BudgetInv'
  <2>1. /\ UNCHANGED leaseVars
        /\ sessionLimits' = [sessionLimits EXCEPT ![s] = l]
        /\ s \notin everRegistered
    BY <1>5 DEF RegisterSession
  <2>2. totalBySession[s] = 0
    BY <2>1, NewSessionIsEmpty
  <2>3. \A t \in Sessions \ {s} : t \in registeredSessions' =>
           t \in registeredSessions /\ SessionLimit(t)' = SessionLimit(t)
    BY <2>1 DEF registeredSessions, SessionLimit, RegTypeOK
  <2>4. SessionLimit(s)' \in Nat
    BY <2>1, LimitAssumption, ConfigAssumption DEF SessionLimit, RegTypeOK
  <2>5. PublicOpeningLimitPerSession' = PublicOpeningLimitPerSession
    BY DEF PublicOpeningLimitPerSession
  <2>6. \A t \in Sessions : t \in registeredSessions' => totalBySession'[t] <= SessionLimit(t)'
    <3> SUFFICES ASSUME NEW t \in Sessions, t \in registeredSessions'
                 PROVE  totalBySession'[t] <= SessionLimit(t)'
      OBVIOUS
    <3>1. CASE t = s
      BY <3>1, <2>1, <2>2, <2>4 DEF leaseVars, sessionVars
    <3>2. CASE t # s
      BY <3>2, <2>1, <2>3 DEF BudgetInv, leaseVars, sessionVars
    <3> QED
      BY <3>1, <3>2
  <2> QED
    BY <2>1, <2>5, <2>6 DEF leaseVars, usedVars, sessionVars, BudgetInv
<1>6. \/ UNCHANGED regVars
      \/ \E s \in Sessions : UnregisterSession(s)
      \/ \E s \in Sessions : \E l \in NegotiatedLimits : RegisterSession(s, l)
  BY DEF Next, vars, Dispatch, Sampling, SampleRead, SamplePublish, EnableAdaptiveMemory,
     ForceRefresh, Reserve, Unreserve, Dial, StartDial, Refresh, TryAcquire, AcquireExpires,
     Acquire, Return, Abandon, ContextEnds, Stream, MarkLive, MarkClosing, Release
<1> QED
  BY <1>1, <1>2, <1>3, <1>4, <1>5, <1>6 DEF LeaseStep

-----------------------------------------------------------------------------
(* Dials: types, and who holds a lease, who is queued, who samples.        *)
LEMMA DialNext ==
    ASSUME Types, QueueInv, DialInv, [Next]_vars
    PROVE  DialTypeOK' /\ DialInv'
<1> USE DEF usedVars, sessionVars, leaseVars, regVars, queueVars, adaptVars, Types, DialTypeOK,
            LeaseTypeOK, DialPcs, DialInv, Holds
<1>0. CASE UNCHANGED vars
  BY <1>0 DEF vars
<1>1. ASSUME NEW j \in 0..(Len(queueKeys) - 1), NEW i \in DOMAIN QueueAt(j), CancelWaiter(j, i),
             UNCHANGED <<pc, ctxDone, regVars, adaptVars, external>>
      PROVE  DialTypeOK' /\ DialInv'
  <2> DEFINE r == QueueAt(j)[i]
  <2>1. r \in Requests /\ status[r] = "queued" /\ status' = [status EXCEPT ![r] = "canceled"]
    BY <1>1, PopLeaves DEF CancelWaiter
  <2>2. UNCHANGED <<mu, leaseVars>>
    BY <1>1 DEF CancelWaiter
  <2> HIDE DEF r
  <2> QED
    BY <1>1, <2>1, <2>2
<1>2. ASSUME NEW j \in 0..(Len(queueKeys) - 1), NEW i \in DOMAIN QueueAt(j), GrantWaiter(j, i),
             UNCHANGED <<pc, ctxDone, regVars, adaptVars, external>>
      PROVE  DialTypeOK' /\ DialInv'
  <2> DEFINE r == QueueAt(j)[i]
  <2>1. r \in Requests /\ status[r] = "queued" /\ status' = [status EXCEPT ![r] = "granted"]
    BY <1>2, PopLeaves DEF GrantWaiter
  <2>2. UNCHANGED mu /\ lease' = [lease EXCEPT ![r] = "opening"]
    BY <1>2 DEF GrantWaiter, Grant
  <2>3. "opening" \in Active
    BY DEF Active
  <2> HIDE DEF r
  <2> QED
    BY <1>2, <2>1, <2>2, <2>3
<1>3. ASSUME DispatchEnds, UNCHANGED <<pc, ctxDone, regVars, adaptVars, external>>
      PROVE  DialTypeOK' /\ DialInv'
  BY <1>3 DEF DispatchEnds
<1>4. ASSUME NEW p \in Samplers, NEW l \in SampledLimits, SampleRead(p, l, p \in Refreshers)
      PROVE  DialTypeOK' /\ DialInv'
  <2>1. UNCHANGED <<mu, pc, ctxDone, status, lease, everRegistered>>
    BY <1>4 DEF SampleRead
  <2>2. \A q \in Requests : samp'[q] # "none" => samp[q] # "none"
    BY <1>4 DEF SampleRead, AdaptTypeOK, Samplers
  <2> QED
    BY <2>1, <2>2
<1>5. ASSUME NEW p \in Samplers, SamplePublish(p)
      PROVE  DialTypeOK' /\ DialInv'
  <2>1. UNCHANGED <<pc, ctxDone, status, lease, everRegistered>>
    BY <1>5 DEF SamplePublish
  <2>2. \A q \in Requests : samp'[q] # "none" => samp[q] # "none"
    BY <1>5 DEF SamplePublish, AdaptTypeOK, Samplers
  <2>3. mu' \in {"free", "dispatch"}
    BY <1>5 DEF SamplePublish, SampleEnds, StartsDispatch
  <2> QED
    BY <2>1, <2>2, <2>3
<1>6. ASSUME NEW p \in Refreshers, EnableAdaptiveMemory(p) \/ ForceRefresh(p)
      PROVE  DialTypeOK' /\ DialInv'
  <2>1. UNCHANGED <<mu, pc, ctxDone, status, lease, everRegistered>>
    BY <1>6 DEF EnableAdaptiveMemory, ForceRefresh
  <2>2. \A q \in Requests : samp'[q] = samp[q]
    BY <1>6, RequestAssumption DEF EnableAdaptiveMemory, ForceRefresh, BeginSample, AdaptTypeOK, Samplers
  <2> QED
    BY <2>1, <2>2
<1>8. ASSUME NEW e \in Reservers, Reserve(e) \/ Unreserve(e)
      PROVE  DialTypeOK' /\ DialInv'
  <2>1. UNCHANGED <<pc, ctxDone, status, lease, everRegistered, samp>>
    BY <1>8 DEF Reserve, Unreserve
  <2>2. mu' \in {"free", "dispatch"}
    BY <1>8 DEF Reserve, Unreserve, Dispatches, StartsDispatch
  <2> QED
    BY <2>1, <2>2
<1>9. ASSUME NEW s \in Sessions,
             UnregisterSession(s) \/ \E l \in NegotiatedLimits : RegisterSession(s, l)
      PROVE  DialTypeOK' /\ DialInv'
  <2>1. UNCHANGED <<pc, ctxDone, status, lease, samp>> /\ everRegistered \subseteq everRegistered'
    BY <1>9 DEF UnregisterSession, RegisterSession
  <2>2. mu' \in {"free", "dispatch"}
    BY <1>9 DEF UnregisterSession, RegisterSession, Dispatches, StartsDispatch
  <2> QED
    BY <2>1, <2>2
<1>11. ASSUME NEW r \in Requests, StartDial(r) \/ AcquireExpires(r) \/ Return(r)
       PROVE  DialTypeOK' /\ DialInv'
  <2>1. UNCHANGED <<mu, ctxDone, status, lease, everRegistered, samp>>
    BY <1>11 DEF StartDial, AcquireExpires, Return
  <2>2. PICK x \in DialPcs : pc' = [pc EXCEPT ![r] = x]
    BY <1>11 DEF StartDial, AcquireExpires, Return
  <2>3. /\ x \in {"holding", "giveback"} \/ (x = "waiting" /\ status[r] = "granted") <=> Holds(r)
        /\ status[r] # "queued" /\ sessionKey[r] \in everRegistered /\ samp[r] = "none"
    BY <1>11, <2>2 DEF StartDial, AcquireExpires, Return
  <2> QED
    BY <2>1, <2>2, <2>3
<1>12. ASSUME NEW r \in Requests, Refresh(r)
       PROVE  DialTypeOK' /\ DialInv'
  <2>1. UNCHANGED <<mu, ctxDone, status, lease, everRegistered>>
    BY <1>12 DEF Refresh
  <2>2. PICK x \in {"tryLock", "lock"} : pc' = [pc EXCEPT ![r] = x]
    BY <1>12 DEF Refresh
  <2>3. \A q \in Requests \ {r} : samp'[q] = samp[q]
    BY <1>12 DEF Refresh, BeginSample, AdaptTypeOK, Samplers
  <2>4. pc[r] \in {"try", "acquire"}
    BY <1>12 DEF Refresh
  <2> QED
    BY <2>1, <2>2, <2>3, <2>4
<1>13. ASSUME NEW r \in Requests, TryAcquire(r)
       PROVE  DialTypeOK' /\ DialInv'
  <2>1. /\ UNCHANGED <<mu, ctxDone, status, everRegistered, samp>>
        /\ pc[r] = "tryLock" /\ samp[r] = "none"
    BY <1>13 DEF TryAcquire, Admission
  <2>2. \/ pc' = [pc EXCEPT ![r] = "holding"] /\ lease' = [lease EXCEPT ![r] = "opening"]
        \/ lease' = lease /\ \E x \in {"acquire", "failed"} : pc' = [pc EXCEPT ![r] = x]
    BY <1>13 DEF TryAcquire, Grant
  <2>3. "opening" \in Active
    BY DEF Active
  <2> QED
    BY <2>1, <2>2, <2>3
<1>14. ASSUME NEW r \in Requests, Acquire(r)
       PROVE  DialTypeOK' /\ DialInv'
  <2>1. /\ UNCHANGED <<ctxDone, everRegistered, samp>>
        /\ pc[r] = "lock" /\ samp[r] = "none"
    BY <1>14 DEF Acquire, Admission
  <2>2. \/ /\ pc' = [pc EXCEPT ![r] = "holding"] /\ lease' = [lease EXCEPT ![r] = "opening"]
           /\ UNCHANGED <<mu, status>>
        \/ lease' = lease /\ pc' = [pc EXCEPT ![r] = "failed"] /\ UNCHANGED <<mu, status>>
        \/ /\ lease' = lease /\ pc' = [pc EXCEPT ![r] = "waiting"]
           /\ status' = [status EXCEPT ![r] = "queued"] /\ mu' \in {"free", "dispatch"}
    BY <1>14 DEF Acquire, Grant, StartsDispatch
  <2>3. "opening" \in Active
    BY DEF Active
  <2> QED
    BY <2>1, <2>2, <2>3
<1>15. ASSUME NEW r \in Requests, Abandon(r)
       PROVE  DialTypeOK' /\ DialInv'
  <2>1. /\ UNCHANGED <<ctxDone, lease, everRegistered, samp>>
        /\ pc[r] = "waiting" /\ status[r] = "queued"
        /\ pc' = [pc EXCEPT ![r] = "failed"] /\ status' = [status EXCEPT ![r] = "canceled"]
        /\ mu' \in {"free", "dispatch"}
    BY <1>15 DEF Abandon, StartsDispatch
  <2> QED
    BY <2>1
<1>16. ASSUME NEW r \in Requests, ContextEnds(r)
       PROVE  DialTypeOK' /\ DialInv'
  BY <1>16 DEF ContextEnds
<1>17. ASSUME NEW r \in Requests, MarkLive(r) \/ MarkClosing(r)
       PROVE  DialTypeOK' /\ DialInv'
  <2>1. /\ UNCHANGED <<pc, ctxDone, status, everRegistered, samp>>
        /\ pc[r] = "holding"
        /\ \E v \in {"live", "closing"} : lease' = [lease EXCEPT ![r] = v]
        /\ mu' \in {"free", "dispatch"}
    BY <1>17 DEF MarkLive, MarkClosing, Dispatches, StartsDispatch
  <2>2. "live" \in Active /\ "closing" \in Active
    BY DEF Active
  <2> QED
    BY <2>1, <2>2
<1>18. ASSUME NEW r \in Requests, Release(r)
       PROVE  DialTypeOK' /\ DialInv'
  <2>1. /\ UNCHANGED <<ctxDone, status, everRegistered, samp>>
        /\ pc[r] \in {"holding", "giveback"}
        /\ \E x \in {"failed", "ended"} : pc' = [pc EXCEPT ![r] = x]
        /\ lease' = [lease EXCEPT ![r] = "released"]
        /\ mu' \in {"free", "dispatch"}
    BY <1>18 DEF Release, Dispatches, StartsDispatch
  <2>2. "released" \notin Active
    BY DEF Active
  <2> QED
    BY <2>1, <2>2
<1> QED
  BY <1>0, <1>1, <1>2, <1>3, <1>4, <1>5, <1>6, <1>8, <1>9, <1>11, <1>12, <1>13,
     <1>14, <1>15, <1>16, <1>17, <1>18
     DEF Next, Dispatch, Sampling, Dial, Stream

-----------------------------------------------------------------------------
(* Samples.                                                                *)

(* A sampler that announces a sample, or ends one.                         *)
LEMMA SampleNext ==
    ASSUME AdaptTypeOK, SampleInv, SampleStep
    PROVE  AdaptTypeOK' /\ SampleInv'
<1>0. NoSample \in Snapshots
  BY LimitAssumption DEF NoSample, Snapshots
<1>1. CASE UNCHANGED adaptVars
  BY <1>1 DEF adaptVars, AdaptTypeOK, SampleInv, Announced
<1>2. ASSUME NEW p \in Samplers, samp[p] \in {"none", "due"}, BeginSample(p)
      PROVE  AdaptTypeOK' /\ SampleInv'
  <2>1. /\ samp' = [samp EXCEPT ![p] = "read"]
        /\ sample' = [sample EXCEPT ![p] = [of |-> controller, val |-> NoSample]]
        /\ sampling' = sampling + 1 /\ UNCHANGED <<controller, newest, snapshot>>
    BY <1>2 DEF BeginSample
  <2>2. AdaptTypeOK'
    BY <1>0, <2>1 DEF AdaptTypeOK
  <2>3. Announced' = Announced \cup {p} /\ p \notin Announced
    BY <1>2, <2>1 DEF Announced, AdaptTypeOK
  <2>4. IsFiniteSet(Announced') /\ sampling' = Cardinality(Announced')
    BY <2>1, <2>3, FS_AddElement DEF SampleInv
  <2>5. \A q \in Samplers : samp'[q] \in {"read", "publish"} => sample'[q].of <= controller'
    BY <2>1 DEF SampleInv, AdaptTypeOK
  <2> QED
    BY <2>2, <2>4, <2>5 DEF SampleInv
<1>3. ASSUME NEW p \in Samplers, NEW l \in SampledLimits, NEW f, SampleRead(p, l, f)
      PROVE  AdaptTypeOK' /\ SampleInv'
  <2>1. /\ samp[p] = "read" /\ samp' = [samp EXCEPT ![p] = "publish"]
        /\ UNCHANGED <<controller, snapshot, sampling>>
    BY <1>3 DEF SampleRead
  <2>3. newest' \in Snapshots
    BY <1>3, LimitAssumption DEF SampleRead, AdaptTypeOK, Snapshots
  <2>2. \E v \in Snapshots : sample' = [sample EXCEPT ![p].val = v]
    <3>1. \/ sample' = [sample EXCEPT ![p].val = newest']
          \/ sample' = [sample EXCEPT ![p].val = newest]
          \/ \E g \in 1..MaxGeneration : sample' = [sample EXCEPT ![p].val = [gen |-> g, limit |-> l]]
      BY <1>3 DEF SampleRead
    <3>2. \A g \in 1..MaxGeneration : [gen |-> g, limit |-> l] \in Snapshots
      BY LimitAssumption DEF Snapshots
    <3> QED
      BY <2>3, <3>1, <3>2 DEF AdaptTypeOK
  <2>4. AdaptTypeOK'
    BY <2>1, <2>2, <2>3 DEF AdaptTypeOK
  <2>5. \A q \in Samplers : sample'[q].of = sample[q].of
    BY <2>2 DEF AdaptTypeOK
  <2>6. Announced' = Announced
    BY <2>1, <2>5 DEF Announced, AdaptTypeOK
  <2> QED
    BY <2>1, <2>4, <2>5, <2>6 DEF SampleInv, AdaptTypeOK
<1>4. ASSUME NEW p \in Samplers, SamplePublish(p)
      PROVE  AdaptTypeOK' /\ SampleInv'
  <2>1. /\ samp[p] = "publish" /\ samp' = [samp EXCEPT ![p] = "none"]
        /\ sample' = [sample EXCEPT ![p] = [of |-> 0, val |-> NoSample]]
        /\ UNCHANGED <<controller, newest>>
    BY <1>4 DEF SamplePublish
  <2>2. Announced' = Announced \ {p}
    BY <2>1 DEF Announced, AdaptTypeOK
  <2>3. /\ IsFiniteSet(Announced')
        /\ Cardinality(Announced') = Cardinality(Announced) - (IF p \in Announced THEN 1 ELSE 0)
        /\ Cardinality(Announced') \in Nat
    BY <2>2, FS_RemoveElement, FS_CardinalityType DEF SampleInv
  <2>4. p \in Announced <=> sample[p].of = controller
    BY <2>1 DEF Announced
  <2>5. sampling' = Cardinality(Announced')
    BY <1>4, <2>3, <2>4, FS_CardinalityType DEF SamplePublish, SampleEnds, SampleInv
  <2>6. snapshot' \in Snapshots
    BY <1>4 DEF SamplePublish, SampleEnds, Published, AdaptTypeOK
  <2>7. AdaptTypeOK'
    BY <1>0, <2>1, <2>3, <2>5, <2>6, LimitAssumption DEF AdaptTypeOK
  <2>8. \A q \in Samplers : samp'[q] \in {"read", "publish"} => sample'[q].of <= controller'
    BY <2>1 DEF SampleInv, AdaptTypeOK
  <2> QED
    BY <2>3, <2>5, <2>7, <2>8 DEF SampleInv
<1>5. ASSUME NEW p \in Samplers, EnableAdaptiveMemory(p)
      PROVE  AdaptTypeOK' /\ SampleInv'
  <2>1. /\ controller < MaxController /\ controller' = controller + 1
        /\ newest' = NoSample /\ snapshot' = NoSample /\ sampling' = 0
        /\ samp' = [samp EXCEPT ![p] = "due"] /\ sample' = sample
    BY <1>5 DEF EnableAdaptiveMemory, adaptVars
  <2>2. AdaptTypeOK'
    BY <1>0, <2>1, LimitAssumption DEF AdaptTypeOK
  <2>3. \A q \in Samplers : samp'[q] \in {"read", "publish"} => sample'[q].of <= controller
    BY <2>1 DEF SampleInv, AdaptTypeOK
  <2>4. Announced' = {}
    BY <2>1, <2>3 DEF Announced, AdaptTypeOK
  <2>5. \A q \in Samplers : samp'[q] \in {"read", "publish"} => sample'[q].of <= controller'
    BY <2>1, <2>3 DEF AdaptTypeOK
  <2> QED
    BY <2>1, <2>2, <2>4, <2>5, FS_EmptySet DEF SampleInv
<1> QED
  BY <1>1, <1>2, <1>3, <1>4, <1>5 DEF SampleStep

-----------------------------------------------------------------------------
(* Queues.                                                                 *)

WaitingSet == {r \in Requests : status[r] = "queued"}

QueuesHoldWaiters ==
    \A k \in Keys :
        ToSet(queues[k]) = {r \in Requests : queueKey[r] = k /\ status[r] = "queued"}

(* The queues hold exactly the waiters that are queued.                    *)
LEMMA QueuedIsWaiting ==
    ASSUME QueuesHoldWaiters
    PROVE  Queued = WaitingSet
<1> USE DEF QueuesHoldWaiters
<1>1. ASSUME NEW r \in Queued PROVE r \in WaitingSet
  <2>1. PICK k \in Keys : r \in ToSet(queues[k])
    BY DEF Queued
  <2> QED
    BY <2>1 DEF WaitingSet
<1>2. ASSUME NEW r \in WaitingSet PROVE r \in Queued
  <2>1. queueKey[r] \in Keys /\ r \in Requests
    BY RequestAssumption DEF WaitingSet
  <2>2. r \in ToSet(queues[queueKey[r]])
    BY <2>1 DEF WaitingSet
  <2> QED
    BY <2>1, <2>2 DEF Queued
<1> QED
  BY <1>1, <1>2

(* What acquire's counts of the waiters are.                               *)
LEMMA WaiterCounts ==
    ASSUME QueueInv
    PROVE  /\ Queued = WaitingSet
           /\ IsFiniteSet(WaitingSet)
           /\ IsFiniteSet({r \in WaitingSet : class[r] = "health"})
           /\ HealthWaiters = Cardinality({r \in WaitingSet : class[r] = "health"})
           /\ waiters = Cardinality(WaitingSet)
           /\ waiters \in Nat /\ HealthWaiters \in Nat
<1>1. Queued = WaitingSet
  BY QueuedIsWaiting DEF QueueInv, QueueConsistent, QueuesHoldWaiters
<1>2. {r \in WaitingSet : class[r] = "health"} \in SUBSET WaitingSet
  OBVIOUS
<1>3. IsFiniteSet(WaitingSet) /\ IsFiniteSet({r \in WaitingSet : class[r] = "health"})
  BY <1>1, <1>2, FS_Subset DEF QueueInv
<1>4. /\ HealthWaiters = Cardinality({r \in WaitingSet : class[r] = "health"})
      /\ waiters = Cardinality(WaitingSet)
  BY <1>1 DEF QueueInv, QueueConsistent, HealthWaiters
<1> QED
  BY <1>1, <1>3, <1>4, FS_CardinalityType

(* A waiter that joins leaves the queues and their order consistent.       *)
LEMMA JoinKeepsQueues ==
    ASSUME QueueTypeOK, DialTypeOK, QueueInv, NEW r \in Requests, Joins(r)
    PROVE  QueueTypeOK' /\ QueueInv'
<1> DEFINE k == queueKey[r]
           q == Append(queues[k], r)
           H == {x \in WaitingSet : class[x] = "health"}
<1>0. k \in Keys /\ queues[k] \in Seq(Requests) /\ queueKeys \in Seq(Keys) /\ class[r] \in Classes
  BY RequestAssumption DEF QueueTypeOK
<1>1. /\ status' = [status EXCEPT ![r] = "queued"] /\ status[r] # "queued"
      /\ queues' = [queues EXCEPT ![k] = q]
      /\ queueKeys' = IF queues[k] = <<>> THEN Append(queueKeys, k) ELSE queueKeys
      /\ waiters' = waiters + 1 /\ nextQueueKey' = nextQueueKey
  BY DEF Joins, Enqueue
<1>2. /\ q \in Seq(Requests) /\ Len(q) = Len(queues[k]) + 1
      /\ ToSet(q) = ToSet(queues[k]) \cup {r}
      /\ r \notin ToSet(queues[k]) /\ IsInjective(queues[k]) => IsInjective(q)
  BY <1>0, AppendSet
<1>3. q # <<>> /\ Len(queues[k]) \in Nat
  <2>1. Len(queues[k]) \in Nat
    BY <1>0, LenProperties
  <2>2. q = <<>> => Len(q) = 0
    OBVIOUS
  <2> HIDE DEF q
  <2> QED
    BY <1>2, <2>1, <2>2
<1>4. r \notin ToSet(queues[k]) /\ IsInjective(queues[k])
  BY <1>0, <1>1 DEF QueueInv, QueueConsistent
<1> HIDE DEF q
<1>5. /\ queueKeys' \in Seq(Keys) /\ Len(queueKeys') >= Len(queueKeys)
      /\ IsInjective(queueKeys') /\ ToSet(queueKeys') = ToSet(queueKeys) \cup {k}
  <2>1. CASE queues[k] = <<>>
    <3>1. k \notin ToSet(queueKeys) /\ IsInjective(queueKeys)
      BY <2>1 DEF QueueInv, QueueConsistent
    <3>2. /\ Append(queueKeys, k) \in Seq(Keys)
          /\ Len(Append(queueKeys, k)) = Len(queueKeys) + 1
          /\ ToSet(Append(queueKeys, k)) = ToSet(queueKeys) \cup {k}
          /\ IsInjective(Append(queueKeys, k))
      BY <1>0, <3>1, AppendSet
    <3>3. Len(queueKeys) \in Nat
      BY <1>0, LenProperties
    <3> QED
      BY <1>1, <2>1, <3>2, <3>3
  <2>2. CASE queues[k] # <<>>
    <3>1. k \in ToSet(queueKeys) /\ IsInjective(queueKeys)
      BY <1>0, <2>2 DEF QueueInv, QueueConsistent
    <3>3. Len(queueKeys) \in Nat
      BY <1>0, LenProperties
    <3> QED
      BY <1>0, <1>1, <2>2, <3>1, <3>3
  <2> QED
    BY <2>1, <2>2
<1>6. QueueTypeOK'
  BY <1>0, <1>1, <1>2, <1>5 DEF QueueTypeOK
<1>7. ToSet(queueKeys') = {x \in Keys : queues'[x] # <<>>}
  BY <1>0, <1>1, <1>3, <1>5 DEF QueueInv, QueueConsistent, QueueTypeOK
<1>8. nextQueueKey' < Len(queueKeys') \/ nextQueueKey' = 0
  <2>1. Len(queueKeys) \in Nat /\ Len(queueKeys') \in Nat
    BY <1>0, <1>5, LenProperties
  <2> QED
    BY <1>1, <1>5, <2>1 DEF QueueInv, QueueConsistent, QueueTypeOK
<1>9. Len(q) <= MaxWaitersPerKey
  BY <1>2, <1>3, ConfigAssumption DEF Joins, QueueFull
<1>10. \A x \in Keys :
          /\ IsInjective(queues'[x]) /\ Len(queues'[x]) <= MaxWaitersPerKey
          /\ ToSet(queues'[x]) = {y \in Requests : queueKey[y] = x /\ status'[y] = "queued"}
  <2> SUFFICES ASSUME NEW x \in Keys
               PROVE  /\ IsInjective(queues'[x]) /\ Len(queues'[x]) <= MaxWaitersPerKey
                      /\ ToSet(queues'[x]) = {y \in Requests : queueKey[y] = x /\ status'[y] = "queued"}
    OBVIOUS
  <2>1. CASE x = k
    <3>1. queues'[x] = q
      BY <1>0, <1>1, <2>1 DEF QueueTypeOK
    <3>2. ToSet(q) = {y \in Requests : queueKey[y] = x /\ status'[y] = "queued"}
      BY <1>0, <1>1, <1>2, <2>1 DEF QueueInv, QueueConsistent, DialTypeOK
    <3> QED
      BY <1>2, <1>4, <1>9, <3>1, <3>2
  <2>2. CASE x # k
    <3>1. queues'[x] = queues[x]
      BY <1>0, <1>1, <2>2 DEF QueueTypeOK
    <3>2. {y \in Requests : queueKey[y] = x /\ status'[y] = "queued"} =
             {y \in Requests : queueKey[y] = x /\ status[y] = "queued"}
      BY <1>1, <2>2 DEF DialTypeOK
    <3> QED
      BY <3>1, <3>2 DEF QueueInv, QueueConsistent
  <2> QED
    BY <2>1, <2>2
<1>11. Queued' = WaitingSet'
  <2>1. QueuesHoldWaiters'
    BY <1>10 DEF QueuesHoldWaiters
  <2> QED
    <3>1. (Queued = WaitingSet)'
      BY <2>1, QueuedIsWaiting, PTL
    <3> QED
      BY <3>1
<1>12. /\ WaitingSet' = WaitingSet \cup {r} /\ r \notin WaitingSet
       /\ {x \in WaitingSet' : class[x] = "health"} =
             IF class[r] = "health" THEN H \cup {r} ELSE H
       /\ r \notin H
  BY <1>1 DEF WaitingSet, DialTypeOK
<1>13. /\ IsFiniteSet(WaitingSet) /\ IsFiniteSet(H)
       /\ HealthWaiters = Cardinality(H) /\ waiters = Cardinality(WaitingSet)
       /\ waiters \in Nat /\ HealthWaiters \in Nat
  BY WaiterCounts
<1>14. /\ IsFiniteSet(WaitingSet') /\ waiters' = Cardinality(WaitingSet')
  BY <1>1, <1>12, <1>13, FS_AddElement
<1>15. Cardinality({x \in WaitingSet' : class[x] = "health"}) =
          IF class[r] = "health" THEN HealthWaiters + 1 ELSE HealthWaiters
  BY <1>12, <1>13, FS_AddElement
<1>16. HealthWaiters' = IF class[r] = "health" THEN HealthWaiters + 1 ELSE HealthWaiters
  BY <1>11, <1>15 DEF HealthWaiters
<1>17. /\ class[r] = "health" => HealthWaiters < Control
       /\ class[r] # "health" => waiters - HealthWaiters < MaxWaiters
  <2>1. ClassEnabled(class[r]) /\ ~QueueFull(r)
    BY DEF Joins
  <2>2. class[r] = "health" => Control > 0
    BY <2>1 DEF ClassEnabled
  <2>3. IF class[r] = "health" THEN ~(HealthWaiters >= (IF Control < 1 THEN 1 ELSE Control))
        ELSE ~(waiters - HealthWaiters >= MaxWaiters)
    BY <2>1 DEF QueueFull
  <2> QED
    BY <1>13, <2>2, <2>3, ConfigAssumption
<1>18. waiters' - HealthWaiters' <= MaxWaiters /\ HealthWaiters' <= Control
  <2>1. waiters - HealthWaiters <= MaxWaiters /\ HealthWaiters <= Control
    BY DEF QueueInv, QueueConsistent
  <2>2. waiters' = waiters + 1 /\ MaxWaiters \in Int /\ Control \in Int
    BY <1>1, ConfigAssumption
  <2>3. CASE class[r] = "health"
    BY <1>13, <1>16, <1>17, <2>1, <2>2, <2>3
  <2>4. CASE class[r] # "health"
    BY <1>13, <1>16, <1>17, <2>1, <2>2, <2>4
  <2> QED
    BY <2>3, <2>4
<1> QED
  BY <1>5, <1>6, <1>7, <1>8, <1>10, <1>11, <1>14, <1>18 DEF QueueInv, QueueConsistent

(* A waiter that goes leaves the queues and their order consistent.        *)
LEMMA LeaveKeepsQueues ==
    ASSUME QueueTypeOK, DialTypeOK, QueueInv, NEW m \in 1..Len(queueKeys),
           NEW i \in 1..Len(queues[queueKeys[m]]), Leaves(m, i)
    PROVE  QueueTypeOK' /\ QueueInv'
<1> DEFINE k == queueKeys[m]
           r == queues[k][i]
           q == RemoveAt(queues[k], i)
           H == {x \in WaitingSet : class[x] = "health"}
<1>0. /\ k \in Keys /\ queues[k] \in Seq(Requests) /\ queueKeys \in Seq(Keys)
      /\ r \in Requests /\ queueKey[r] = k /\ status[r] = "queued"
      /\ Len(queueKeys) \in Nat
  BY QueuePlace DEF QueueTypeOK
<1>1. PICK v \in {"granted", "canceled"} :
         /\ status' = [status EXCEPT ![r] = v]
         /\ queues' = [queues EXCEPT ![k] = q]
         /\ waiters' = waiters - 1
  BY DEF Leaves
<1>2. /\ q \in Seq(Requests) /\ Len(q) = Len(queues[k]) - 1
      /\ ToSet(q) = ToSet(queues[k]) \ {r} /\ IsInjective(q)
  <2>1. IsInjective(queues[k])
    BY <1>0 DEF QueueInv, QueueConsistent
  <2> DEFINE p == queues[k]
  <2>2. p \in Seq(Requests) /\ i \in 1..Len(p) /\ IsInjective(p)
    BY <1>0, <2>1
  <2> HIDE DEF p
  <2>3. /\ RemoveAt(p, i) \in Seq(Requests) /\ Len(RemoveAt(p, i)) = Len(p) - 1
        /\ ToSet(RemoveAt(p, i)) = ToSet(p) \ {p[i]} /\ IsInjective(RemoveAt(p, i))
    BY <2>2, RemoveAtElements, RemoveAtSet
  <2> QED
    BY <2>3 DEF p
<1>3. \/ /\ q = <<>> /\ queueKeys' = RemoveAt(queueKeys, m)
         /\ \E c \in {m - 1, nextQueueKey} : nextQueueKey' = CursorWithout(c, m - 1)
      \/ /\ q # <<>> /\ queueKeys' = queueKeys
         /\ nextQueueKey' \in {m - 1, m % Len(queueKeys), nextQueueKey}
  BY DEF Leaves
<1> HIDE DEF q, k, r
<1>4. k = queueKeys[m]
  BY DEF k
<1>5. /\ queueKeys' \in Seq(Keys) /\ IsInjective(queueKeys')
      /\ Len(queueKeys') = IF q = <<>> THEN Len(queueKeys) - 1 ELSE Len(queueKeys)
      /\ ToSet(queueKeys') = IF q = <<>> THEN ToSet(queueKeys) \ {k} ELSE ToSet(queueKeys)
  <2>1. IsInjective(queueKeys)
    BY DEF QueueInv, QueueConsistent
  <2>2. /\ RemoveAt(queueKeys, m) \in Seq(Keys)
        /\ Len(RemoveAt(queueKeys, m)) = Len(queueKeys) - 1
        /\ ToSet(RemoveAt(queueKeys, m)) = ToSet(queueKeys) \ {queueKeys[m]}
        /\ IsInjective(RemoveAt(queueKeys, m))
    BY <1>0, <2>1, RemoveAtElements, RemoveAtSet
  <2> QED
    BY <1>0, <1>3, <1>4, <2>1, <2>2
<1>6. nextQueueKey' \in Nat /\ (nextQueueKey' < Len(queueKeys') \/ nextQueueKey' = 0)
  <2>1. CASE q = <<>>
    <3>1. PICK c \in {m - 1, nextQueueKey} : nextQueueKey' = CursorWithout(c, m - 1)
      BY <1>3, <2>1
    <3>2. c \in Nat
      BY <1>0, <3>1 DEF QueueTypeOK
    <3> QED
      BY <1>0, <1>5, <2>1, <3>1, <3>2 DEF CursorWithout
  <2>2. CASE q # <<>>
    <3>1. m % Len(queueKeys) = IF m < Len(queueKeys) THEN m ELSE 0
      <4>1. Len(queueKeys) \in Nat \ {0} /\ m \in 0..(Len(queueKeys) + Len(queueKeys) - 1)
        BY <1>0
      <4>2. m % Len(queueKeys) = IF m < Len(queueKeys) THEN m ELSE m - Len(queueKeys)
        BY <4>1, Wrap
      <4> QED
        BY <4>1, <4>2
    <3> QED
      BY <1>0, <1>3, <1>5, <2>2, <3>1 DEF QueueTypeOK, QueueInv, QueueConsistent
  <2> QED
    BY <2>1, <2>2
<1>7. ToSet(queueKeys') = {x \in Keys : queues'[x] # <<>>}
  <2>1. k \in ToSet(queueKeys)
    BY <1>0, <1>4, LenProperties DEF ToSet
  <2> QED
    BY <1>0, <1>1, <1>5, <2>1 DEF QueueInv, QueueConsistent, QueueTypeOK
<1>9. Len(q) <= MaxWaitersPerKey
  <2>1. Len(queues[k]) \in Nat /\ Len(queues[k]) <= MaxWaitersPerKey
    BY <1>0, LenProperties DEF QueueInv, QueueConsistent
  <2> QED
    BY <1>2, <2>1, ConfigAssumption
<1>10. \A x \in Keys :
          /\ IsInjective(queues'[x]) /\ Len(queues'[x]) <= MaxWaitersPerKey
          /\ ToSet(queues'[x]) = {y \in Requests : queueKey[y] = x /\ status'[y] = "queued"}
  <2> SUFFICES ASSUME NEW x \in Keys
               PROVE  /\ IsInjective(queues'[x]) /\ Len(queues'[x]) <= MaxWaitersPerKey
                      /\ ToSet(queues'[x]) = {y \in Requests : queueKey[y] = x /\ status'[y] = "queued"}
    OBVIOUS
  <2>1. CASE x = k
    <3>1. queues'[x] = q
      BY <1>0, <1>1, <2>1 DEF QueueTypeOK
    <3>2. ToSet(q) = {y \in Requests : queueKey[y] = x /\ status'[y] = "queued"}
      BY <1>0, <1>1, <1>2, <2>1 DEF QueueInv, QueueConsistent, DialTypeOK
    <3> QED
      BY <1>2, <1>9, <3>1, <3>2
  <2>2. CASE x # k
    <3>1. queues'[x] = queues[x]
      BY <1>0, <1>1, <2>2 DEF QueueTypeOK
    <3>2. {y \in Requests : queueKey[y] = x /\ status'[y] = "queued"} =
             {y \in Requests : queueKey[y] = x /\ status[y] = "queued"}
      BY <1>0, <1>1, <2>2 DEF DialTypeOK
    <3> QED
      BY <3>1, <3>2 DEF QueueInv, QueueConsistent
  <2> QED
    BY <2>1, <2>2
<1>11. Queued' = WaitingSet'
  <2>1. QueuesHoldWaiters'
    BY <1>10 DEF QueuesHoldWaiters
  <2> QED
    <3>1. (Queued = WaitingSet)'
      BY <2>1, QueuedIsWaiting, PTL
    <3> QED
      BY <3>1
<1>12. /\ WaitingSet' = WaitingSet \ {r} /\ r \in WaitingSet
       /\ {x \in WaitingSet' : class[x] = "health"} = H \ {r}
       /\ r \in H <=> class[r] = "health"
  BY <1>0, <1>1 DEF WaitingSet, DialTypeOK
<1>13. /\ IsFiniteSet(WaitingSet) /\ IsFiniteSet(H)
       /\ HealthWaiters = Cardinality(H) /\ waiters = Cardinality(WaitingSet)
       /\ waiters \in Nat /\ HealthWaiters \in Nat
  BY WaiterCounts
<1>14. /\ IsFiniteSet(WaitingSet') /\ waiters' = Cardinality(WaitingSet') /\ waiters' \in Nat
  <2>1. IsFiniteSet(WaitingSet') /\ Cardinality(WaitingSet') = Cardinality(WaitingSet) - 1
    BY <1>12, <1>13, FS_RemoveElement
  <2> QED
    BY <1>1, <1>13, <2>1, FS_CardinalityType
<1>15. Cardinality({x \in WaitingSet' : class[x] = "health"}) =
          IF class[r] = "health" THEN HealthWaiters - 1 ELSE HealthWaiters
  <2>1. Cardinality(H \ {r}) = IF r \in H THEN Cardinality(H) - 1 ELSE Cardinality(H)
    BY <1>13, FS_RemoveElement
  <2> HIDE DEF H
  <2> QED
    BY <1>12, <1>13, <2>1
<1>16. HealthWaiters' = IF class[r] = "health" THEN HealthWaiters - 1 ELSE HealthWaiters
  BY <1>11, <1>15 DEF HealthWaiters
<1>18. waiters' - HealthWaiters' <= MaxWaiters /\ HealthWaiters' <= Control
  BY <1>1, <1>13, <1>16, ConfigAssumption DEF QueueInv, QueueConsistent
<1>19. QueueTypeOK'
  BY <1>0, <1>1, <1>2, <1>5, <1>6, <1>14 DEF QueueTypeOK
<1> QED
  BY <1>5, <1>6, <1>7, <1>10, <1>11, <1>14, <1>18, <1>19 DEF QueueInv, QueueConsistent

(* Every step leaves the queues and their order consistent.                *)
LEMMA QueueNext ==
    ASSUME QueueTypeOK, DialTypeOK, QueueInv, QueueStep
    PROVE  QueueTypeOK' /\ QueueInv'
<1>1. CASE UNCHANGED <<queueVars, status>>
  <2>1. UNCHANGED <<queues, queueKeys, nextQueueKey, waiters, status>>
    BY <1>1 DEF queueVars
  <2>2. Queued' = Queued /\ HealthWaiters' = HealthWaiters
    BY <2>1 DEF Queued, HealthWaiters
  <2> QED
    BY <2>1, <2>2 DEF QueueTypeOK, QueueInv, QueueConsistent
<1> QED
  BY <1>1, JoinKeepsQueues, LeaveKeepsQueues DEF QueueStep

-----------------------------------------------------------------------------
(* Wakeups.                                                                *)

grantVars == <<controller, snapshot, external, leaseVars, sessionLimits, queues>>

(* What CanGrant depends on.                                               *)
LEMMA GrantableUnchanged ==
    ASSUME UNCHANGED grantVars
    PROVE  \A c, s : CanGrant(c, s)' <=> CanGrant(c, s)
  BY DEF grantVars, leaseVars, usedVars, sessionVars, CanGrant, IsPublic, EffectiveAdmissionLimit,
     AdmissionLimitWithExternal, AtLeastZero, AdaptivePublicLimit, ProtectedControl, LesserOf,
     SessionLimit, PublicSessionLimit, registeredSessions, HasPublicWaiterForOtherSession, Queued,
     PublicOpeningLimitPerSession

(* A step that touches nothing a grant depends on wakes nobody.            *)
LEMMA WakeQuiet ==
    ASSUME NoLostWakeup, UNCHANGED <<mu, sampling, grantVars>>
    PROVE  NoLostWakeup'
<1>1. \A c, s : CanGrant(c, s)' <=> CanGrant(c, s)
  BY GrantableUnchanged
<1>2. Queued' = Queued
  BY DEF Queued, grantVars
<1> QED
  BY <1>1, <1>2 DEF NoLostWakeup, Grantable

(* dispatchLocked starts unless nothing is queued or a sample is due.      *)
LEMMA WakeDispatch ==
    ASSUME QueueInv', NEW n, NEW w, StartsDispatch(n, w), sampling' = n, waiters' = w, w \in Nat
    PROVE  NoLostWakeup'
<1>1. CASE w = 0
  <2>1. waiters' = Cardinality(Queued') /\ IsFiniteSet(Queued')
    BY DEF QueueInv, QueueConsistent
  <2>2. Queued' = {}
    BY <1>1, <2>1, FS_EmptySet
  <2> QED
    BY <2>2 DEF NoLostWakeup
<1>2. CASE w # 0
  BY <1>2 DEF StartsDispatch, NoLostWakeup
<1> QED
  BY <1>1, <1>2

(* A full circle passes every queue.                                       *)
LEMMA ScanReachesAll ==
    ASSUME QueueTypeOK, QueueInv, NEW r \in Queued, Grantable(r)
    PROVE  waiters > 0 /\ \E j \in 0..(Len(queueKeys) - 1) : Acts(j)
<1> DEFINE k == queueKey[r]
<1>1. Queued = WaitingSet /\ waiters = Cardinality(WaitingSet) /\ IsFiniteSet(WaitingSet)
      /\ waiters \in Nat
  BY WaiterCounts
<1>2. r \in Requests /\ status[r] = "queued" /\ k \in Keys
  BY <1>1, RequestAssumption DEF WaitingSet
<1>3. waiters > 0
  BY <1>1, FS_EmptySet
<1>4. r \in ToSet(queues[k])
  BY <1>2 DEF QueueInv, QueueConsistent
<1>5. PICK i \in DOMAIN queues[k] : queues[k][i] = r
  BY <1>4 DEF ToSet
<1>6. queues[k] # <<>>
  BY <1>5
<1>7. k \in ToSet(queueKeys) /\ DOMAIN queueKeys = 1..Len(queueKeys) /\ Len(queueKeys) \in Nat
  BY <1>2, <1>6, LenProperties DEF QueueInv, QueueConsistent, QueueTypeOK
<1>8. PICK m \in 1..Len(queueKeys) : queueKeys[m] = k
  BY <1>7 DEF ToSet
<1> DEFINE j == IF m - 1 >= Cursor THEN m - 1 - Cursor ELSE m - 1 - Cursor + Len(queueKeys)
<1>9. 0 \in 0..(Len(queueKeys) - 1)
  BY <1>7, <1>8
<1>10. Cursor \in 0..(Len(queueKeys) - 1)
  BY <1>9, KeyIndexIs
<1>11. j \in 0..(Len(queueKeys) - 1)
  BY <1>7, <1>8, <1>10
<1>12. KeyIndex(j) = IF Cursor + j < Len(queueKeys) THEN Cursor + j
                     ELSE (Cursor + j) - Len(queueKeys)
  <2> HIDE DEF j
  <2> QED
    BY <1>11, KeyIndexIs
<1>13. KeyIndex(j) + 1 = m
  BY <1>7, <1>8, <1>10, <1>12
<1> HIDE DEF j
<1>14. QueueAt(j) = queues[k]
  BY <1>8, <1>13 DEF QueueAt
<1>15. Acts(j)
  BY <1>5, <1>14 DEF Acts, Actionable
<1> QED
  BY <1>3, <1>11, <1>15

(* A grant only makes it harder for the others.                            *)
LEMMA GrantTightens ==
    ASSUME CountTypeOK, RegTypeOK, AdaptTypeOK, ExternalInv, NEW r \in Requests, Grant(r),
           UNCHANGED <<controller, snapshot, external, sessionLimits, queues>>,
           NEW c \in Classes, NEW s \in Sessions, CanGrant(c, s)'
    PROVE  CanGrant(c, s)
<1>1. sessionKey[r] \in Sessions /\ class[r] \in Classes
  BY RequestAssumption
<1>2. /\ EffectiveAdmissionLimit' = EffectiveAdmissionLimit
      /\ AdaptivePublicLimit' = AdaptivePublicLimit
      /\ SessionLimit(s)' = SessionLimit(s)
      /\ PublicSessionLimit(s)' = PublicSessionLimit(s)
      /\ PublicOpeningLimitPerSession' = PublicOpeningLimitPerSession
  BY DEF EffectiveAdmissionLimit, AdmissionLimitWithExternal, AtLeastZero, AdaptivePublicLimit,
     ProtectedControl, LesserOf, SessionLimit, PublicSessionLimit, registeredSessions,
     HasPublicWaiterForOtherSession, Queued, PublicOpeningLimitPerSession
<1>3. /\ usedTotal <= usedTotal' /\ usedPublic <= usedPublic'
      /\ usedPooled <= usedPooled' /\ usedControl <= usedControl'
      /\ usedTotal' \in Int /\ usedPublic' \in Int /\ usedPooled' \in Int /\ usedControl' \in Int
  BY DEF Grant, One, CountTypeOK
<1>4. /\ totalBySession[s] <= totalBySession'[s] /\ totalBySession'[s] \in Int
      /\ openingBySession[s] <= openingBySession'[s] /\ openingBySession'[s] \in Int
      /\ publicBySession[s] <= publicBySession'[s] /\ publicBySession'[s] \in Int
      /\ publicOpeningBySession[s] <= publicOpeningBySession'[s]
      /\ publicOpeningBySession'[s] \in Int
  BY <1>1 DEF Grant, Increment, CountTypeOK
<1>5. /\ SessionLimit(s) \in Int /\ PublicSessionLimit(s) \in Int
      /\ PublicOpeningLimitPerSession \in Int
      /\ EffectiveAdmissionLimit \in Int /\ AdaptivePublicLimit \in Int
  BY SessionLimitTypes, LimitTypes
<1>6. /\ usedTotal \in Int /\ usedPublic \in Int /\ usedPooled \in Int /\ usedControl \in Int
      /\ totalBySession[s] \in Int /\ publicBySession[s] \in Int
      /\ openingBySession[s] \in Int /\ publicOpeningBySession[s] \in Int
  BY DEF CountTypeOK
<1>7. /\ controller > 0 =>
            /\ usedTotal' < EffectiveAdmissionLimit
            /\ IsPublic(c) => usedPublic' < AdaptivePublicLimit
      /\ usedTotal' < Total
      /\ totalBySession'[s] < SessionLimit(s)
      /\ openingBySession'[s] < MaxOpeningPerSession
      /\ IsPublic(c) =>
            /\ usedPublic' < Public
            /\ publicBySession'[s] < PublicSessionLimit(s)
            /\ publicOpeningBySession'[s] < PublicOpeningLimitPerSession
      /\ c = "pooled" => usedPooled' < Pooled
      /\ c = "health" => usedControl' < Control
  BY <1>2 DEF CanGrant, IsPublic
<1> QED
  BY <1>3, <1>4, <1>5, <1>6, <1>7, ConfigAssumption DEF CanGrant

(* What is withheld from public streams under an admission limit.          *)
Withheld(e) ==
    IF LesserOf(Control, DefaultControl) >= e THEN AtLeastZero(e - 1)
    ELSE LesserOf(Control, DefaultControl)

(* With a lower limit less is left for public streams.                     *)
LEMMA WithheldMonotone ==
    ASSUME NEW a \in Nat, NEW b \in Nat, a <= b
    PROVE  /\ Withheld(a) \in Nat /\ Withheld(a) <= a
           /\ a - Withheld(a) <= b - Withheld(b)
           /\ Withheld(a) <= Withheld(b)
<1>1. LesserOf(Control, DefaultControl) \in Nat
  BY ConfigAssumption, LimitAssumption DEF LesserOf
<1> QED
  BY <1>1 DEF Withheld, AtLeastZero

(* The adaptive public limit is what is left after what is withheld.       *)
LEMMA PublicLimitIs ==
    ASSUME AdaptTypeOK, ExternalInv
    PROVE  /\ ProtectedControl = Withheld(EffectiveAdmissionLimit)
           /\ EffectiveAdmissionLimit - ProtectedControl \in Nat
           /\ AdaptivePublicLimit = LesserOf(EffectiveAdmissionLimit - ProtectedControl, Public)
<1>1. ProtectedControl = Withheld(EffectiveAdmissionLimit)
  BY DEF ProtectedControl, Withheld
<1>2. EffectiveAdmissionLimit \in Nat
  BY LimitTypes
<1>3. /\ ProtectedControl \in Nat /\ ProtectedControl <= EffectiveAdmissionLimit
  BY <1>1, <1>2, WithheldMonotone
<1> QED
  BY <1>1, <1>2, <1>3 DEF AdaptivePublicLimit, AtLeastZero

(* An external owner leaves less to the streams.                           *)
LEMMA ReserveLowers ==
    ASSUME AdaptTypeOK, ExternalInv, NEW e, e \notin external, external' = external \cup {e},
           snapshot' = snapshot, AdaptTypeOK', ExternalInv'
    PROVE  /\ EffectiveAdmissionLimit' <= EffectiveAdmissionLimit
           /\ AdaptivePublicLimit' <= AdaptivePublicLimit
<1>1. Cardinality(external') = Cardinality(external) + 1
  BY FS_AddElement DEF ExternalInv
<1>2. /\ Cardinality(external) \in Nat /\ snapshot.limit \in Nat
      /\ EffectiveAdmissionLimit =
            IF Cardinality(external) > snapshot.limit THEN 0
            ELSE snapshot.limit - Cardinality(external)
      /\ EffectiveAdmissionLimit \in Nat
  BY LimitTypes
<1>3. /\ EffectiveAdmissionLimit' =
            IF Cardinality(external') > snapshot'.limit THEN 0
            ELSE snapshot'.limit - Cardinality(external')
      /\ EffectiveAdmissionLimit' \in Nat
  <2>1. (EffectiveAdmissionLimit =
            IF Cardinality(external) > snapshot.limit THEN 0
            ELSE snapshot.limit - Cardinality(external))'
    BY LimitTypes, PTL
  <2>2. (EffectiveAdmissionLimit \in Nat)'
    BY LimitTypes, PTL
  <2> QED
    BY <2>1, <2>2
<1>4. EffectiveAdmissionLimit' <= EffectiveAdmissionLimit
  BY <1>1, <1>2, <1>3
<1>5. /\ ProtectedControl = Withheld(EffectiveAdmissionLimit)
      /\ EffectiveAdmissionLimit - ProtectedControl \in Nat
      /\ AdaptivePublicLimit = LesserOf(EffectiveAdmissionLimit - ProtectedControl, Public)
  BY PublicLimitIs
<1>6. /\ ProtectedControl' = Withheld(EffectiveAdmissionLimit')
      /\ EffectiveAdmissionLimit' - ProtectedControl' \in Nat
      /\ AdaptivePublicLimit' = LesserOf(EffectiveAdmissionLimit' - ProtectedControl', Public)
  <2>1. (ProtectedControl = Withheld(EffectiveAdmissionLimit))'
    BY PublicLimitIs, PTL
  <2>2. (EffectiveAdmissionLimit - ProtectedControl \in Nat)'
    BY PublicLimitIs, PTL
  <2>3. (AdaptivePublicLimit = LesserOf(EffectiveAdmissionLimit - ProtectedControl, Public))'
    BY PublicLimitIs, PTL
  <2> QED
    BY <2>1, <2>2, <2>3 DEF Withheld, LesserOf, AtLeastZero
<1> DEFINE a == EffectiveAdmissionLimit'
           b == EffectiveAdmissionLimit
<1>7. a - Withheld(a) <= b - Withheld(b)
  <2>1. a \in Nat /\ b \in Nat /\ a <= b
    BY <1>2, <1>3, <1>4
  <2> HIDE DEF a, b
  <2> QED
    BY <2>1, WithheldMonotone
<1>8. EffectiveAdmissionLimit' - ProtectedControl' <= EffectiveAdmissionLimit - ProtectedControl
  BY <1>5, <1>6, <1>7
<1> QED
  BY <1>4, <1>5, <1>6, <1>8, ConfigAssumption DEF LesserOf

(* No step leaves a waiter behind that could be granted.                   *)
LEMMA WakeNext ==
    ASSUME Types, Types', QueueInv, QueueInv', DialInv, NoLostWakeup, [Next]_vars
    PROVE  NoLostWakeup'
<1> USE DEF usedVars, sessionVars, leaseVars, regVars, queueVars, adaptVars, grantVars
<1>00. /\ QueueTypeOK /\ QueueTypeOK' /\ AdaptTypeOK /\ AdaptTypeOK' /\ ExternalInv /\ ExternalInv'
       /\ CountTypeOK /\ RegTypeOK /\ waiters' \in Nat
  BY DEF Types, QueueTypeOK
<1>01. \A r \in Queued : class[r] \in Classes /\ sessionKey[r] \in Sessions
  BY WaiterCounts, RequestAssumption DEF WaitingSet
<1>0. CASE UNCHANGED vars
  BY <1>0, WakeQuiet DEF vars
<1>1. ASSUME mu = "dispatch", UNCHANGED mu PROVE NoLostWakeup'
  BY <1>1 DEF NoLostWakeup
<1>2. ASSUME DispatchEnds, UNCHANGED <<pc, ctxDone, regVars, adaptVars, external>>
      PROVE  NoLostWakeup'
  <2>1. UNCHANGED grantVars
    BY <1>2 DEF DispatchEnds
  <2>2. \A c, s : CanGrant(c, s)' <=> CanGrant(c, s)
    BY <2>1, GrantableUnchanged
  <2>3. Queued' = Queued
    BY <2>1 DEF Queued
  <2>4. \A r \in Queued : ~Grantable(r)
    BY <1>00, <1>2, ScanReachesAll DEF DispatchEnds
  <2> QED
    BY <2>2, <2>3, <2>4 DEF NoLostWakeup, Grantable
<1>3. ASSUME NEW p \in Samplers, NEW l \in SampledLimits, SampleRead(p, l, p \in Refreshers)
      PROVE  NoLostWakeup'
  BY <1>3, WakeQuiet DEF SampleRead
<1>4. ASSUME NEW p \in Samplers, SamplePublish(p)
      PROVE  NoLostWakeup'
  <2>1. CASE sample[p].of = controller
    <3>1. StartsDispatch(sampling - 1, waiters) /\ sampling' = sampling - 1 /\ waiters' = waiters
      BY <1>4, <2>1 DEF SamplePublish, SampleEnds
    <3> QED
      BY <1>00, <3>1, WakeDispatch DEF QueueTypeOK
  <2>2. CASE sample[p].of # controller
    BY <1>4, <2>2, WakeQuiet DEF SamplePublish
  <2> QED
    BY <2>1, <2>2
<1>5. ASSUME NEW p \in Refreshers, EnableAdaptiveMemory(p)
      PROVE  NoLostWakeup'
  <2>1. /\ controller' = controller + 1 /\ controller \in Nat
        /\ snapshot' = NoSample /\ UNCHANGED <<leaseVars, external>>
    BY <1>00, <1>5 DEF EnableAdaptiveMemory, AdaptTypeOK
  <2>2. EffectiveAdmissionLimit' = 0
    <3>1. Cardinality(external) \in Nat
      BY <1>00, LimitTypes
    <3> QED
      BY <2>1, <3>1 DEF EffectiveAdmissionLimit, AdmissionLimitWithExternal, AtLeastZero, NoSample
  <2>3. usedTotal' \in Nat /\ controller' > 0
    BY <1>00, <2>1 DEF CountTypeOK
  <2>4. \A c, s : ~CanGrant(c, s)'
    BY <2>2, <2>3 DEF CanGrant
  <2> QED
    BY <2>4 DEF NoLostWakeup, Grantable
<1>6. ASSUME NEW p, BeginSample(p)
      PROVE  NoLostWakeup'
  <2>1. sampling' # 0
    BY <1>00, <1>6 DEF BeginSample, AdaptTypeOK
  <2> QED
    BY <2>1 DEF NoLostWakeup
<1>7. ASSUME NEW e \in Reservers, Reserve(e)
      PROVE  NoLostWakeup'
  <2>1. /\ mu = "free" /\ sampling = 0 /\ controller > 0 /\ e \notin external
        /\ external' = external \cup {e} /\ UNCHANGED <<mu, leaseVars, regVars, queueVars, adaptVars>>
    BY <1>7 DEF Reserve
  <2>2. /\ EffectiveAdmissionLimit' <= EffectiveAdmissionLimit
        /\ AdaptivePublicLimit' <= AdaptivePublicLimit
    BY <1>00, <2>1, ReserveLowers
  <2>3. /\ EffectiveAdmissionLimit \in Nat /\ AdaptivePublicLimit \in Nat
        /\ usedTotal \in Nat /\ usedPublic \in Nat
    BY <1>00, LimitTypes DEF CountTypeOK
  <2>4. EffectiveAdmissionLimit' \in Nat /\ AdaptivePublicLimit' \in Nat
    <3>1. (EffectiveAdmissionLimit \in Nat)' /\ (AdaptivePublicLimit \in Nat)'
      BY <1>00, LimitTypes, PTL
    <3> QED
      BY <3>1
  <2>5. Queued' = Queued
    BY <2>1 DEF Queued
  <2>6. ASSUME NEW c \in Classes, NEW s \in Sessions, CanGrant(c, s)'
        PROVE  CanGrant(c, s)
    <3>1. /\ SessionLimit(s)' = SessionLimit(s)
          /\ PublicSessionLimit(s)' = PublicSessionLimit(s)
          /\ PublicOpeningLimitPerSession' = PublicOpeningLimitPerSession
      BY <2>1 DEF SessionLimit, PublicSessionLimit, registeredSessions, LesserOf,
         HasPublicWaiterForOtherSession, Queued, PublicOpeningLimitPerSession
    <3>2. /\ usedTotal < EffectiveAdmissionLimit'
          /\ IsPublic(c) => usedPublic < AdaptivePublicLimit'
      BY <2>1, <2>6 DEF CanGrant, IsPublic
    <3>3. /\ usedTotal < EffectiveAdmissionLimit
          /\ IsPublic(c) => usedPublic < AdaptivePublicLimit
      BY <2>2, <2>3, <2>4, <3>2
    <3> QED
      BY <2>1, <2>6, <3>1, <3>3 DEF CanGrant, IsPublic
  <2> QED
    BY <1>01, <2>1, <2>5, <2>6 DEF NoLostWakeup, Grantable
<1>8. ASSUME Dispatches, UNCHANGED <<sampling, waiters>>
      PROVE  NoLostWakeup'
  BY <1>00, <1>8, WakeDispatch DEF Dispatches
<1>9. ASSUME NEW r \in Requests, Grant(r),
             UNCHANGED <<mu, sampling, controller, snapshot, external, sessionLimits, queues>>
      PROVE  NoLostWakeup'
  <2>1. Queued' = Queued
    BY <1>9 DEF Queued
  <2>2. \A c \in Classes, s \in Sessions : CanGrant(c, s)' => CanGrant(c, s)
    BY <1>00, <1>9, GrantTightens
  <2> QED
    BY <1>01, <1>9, <2>1, <2>2 DEF NoLostWakeup, Grantable
<1>10. ASSUME NEW r \in Requests, StartDial(r) \/ AcquireExpires(r) \/ Return(r) \/ ContextEnds(r)
       PROVE  NoLostWakeup'
  BY <1>10, WakeQuiet DEF StartDial, AcquireExpires, Return, ContextEnds
<1>11. ASSUME NEW r \in Requests, Refresh(r)
       PROVE  NoLostWakeup'
  <2>1. BeginSample(r) \/ UNCHANGED <<mu, sampling, grantVars>>
    BY <1>11 DEF Refresh
  <2> QED
    BY <1>6, <2>1, WakeQuiet
<1>12. ASSUME NEW r \in Requests, TryAcquire(r)
       PROVE  NoLostWakeup'
  <2>1. /\ Grant(r) \/ UNCHANGED leaseVars
        /\ UNCHANGED <<mu, sampling, controller, snapshot, external, sessionLimits, queues>>
    BY <1>12 DEF TryAcquire
  <2> QED
    BY <1>9, <2>1, WakeQuiet
<1>13. ASSUME NEW r \in Requests, Acquire(r)
       PROVE  NoLostWakeup'
  <2>1. UNCHANGED <<sampling, controller, snapshot, external, sessionLimits>>
    BY <1>13 DEF Acquire
  <2>2. \/ UNCHANGED <<mu, leaseVars, queues>>
        \/ Grant(r) /\ UNCHANGED <<mu, queues>>
        \/ StartsDispatch(sampling, waiters + 1) /\ waiters' = waiters + 1
    BY <1>13 DEF Acquire, Enqueue
  <2>3. CASE StartsDispatch(sampling, waiters + 1) /\ waiters' = waiters + 1
    BY <1>00, <2>1, <2>3, WakeDispatch DEF QueueTypeOK
  <2> QED
    BY <1>9, <2>1, <2>2, <2>3, WakeQuiet
<1>14. ASSUME NEW r \in Requests, Abandon(r)
       PROVE  NoLostWakeup'
  <2>1. StartsDispatch(sampling, waiters - 1) /\ waiters' = waiters - 1 /\ sampling' = sampling
    BY <1>14 DEF Abandon, RemoveWaiter
  <2> QED
    BY <1>00, <2>1, WakeDispatch
<1>15. ASSUME Dispatch PROVE NoLostWakeup'
  <2>1. DispatchEnds \/ UNCHANGED mu
    BY <1>15 DEF Dispatch, CancelWaiter, GrantWaiter
  <2> QED
    BY <1>1, <1>2, <1>15, <2>1 DEF Dispatch
<1>16. ASSUME Sampling PROVE NoLostWakeup'
  BY <1>3, <1>4, <1>5, <1>6, <1>16 DEF Sampling, ForceRefresh
<1>17. ASSUME NEW r \in Requests, Stream(r) PROVE NoLostWakeup'
  BY <1>8, <1>17 DEF Stream, MarkLive, MarkClosing, Release
<1>18. ASSUME NEW s \in Sessions,
              UnregisterSession(s) \/ \E l \in NegotiatedLimits : RegisterSession(s, l)
       PROVE  NoLostWakeup'
  BY <1>8, <1>18 DEF UnregisterSession, RegisterSession
<1>19. ASSUME NEW e \in Reservers, Unreserve(e) PROVE NoLostWakeup'
  BY <1>8, <1>19 DEF Unreserve
<1> QED
  BY <1>0, <1>7, <1>10, <1>11, <1>12, <1>13, <1>14, <1>15, <1>16, <1>17, <1>18, <1>19
     DEF Next, Dial

-----------------------------------------------------------------------------
(* Sessions, external owners and the history variable.                     *)
LEMMA OtherTypesNext ==
    ASSUME Types, QueueTypeOK', QueueInv, [Next]_vars
    PROVE  RegTypeOK' /\ ExternalInv' /\ passed' \in [Requests -> SUBSET Keys]
<1> USE DEF usedVars, sessionVars, leaseVars, regVars, queueVars, adaptVars
<1>1. RegTypeOK'
  <2>1. CASE UNCHANGED regVars
    BY <2>1 DEF RegTypeOK, Types
  <2>2. ASSUME NEW s \in Sessions, UnregisterSession(s) PROVE RegTypeOK'
    BY <2>2, ConfigAssumption DEF UnregisterSession, RegTypeOK, Types
  <2>3. ASSUME NEW s \in Sessions, NEW l \in NegotiatedLimits, RegisterSession(s, l) PROVE RegTypeOK'
    BY <2>3, ConfigAssumption, LimitAssumption DEF RegisterSession, RegTypeOK, Types
  <2>4. \/ UNCHANGED regVars
        \/ \E s \in Sessions : UnregisterSession(s)
        \/ \E s \in Sessions : \E l \in NegotiatedLimits : RegisterSession(s, l)
    BY DEF Next, vars, Dispatch, Sampling, SampleRead, SamplePublish, EnableAdaptiveMemory,
       ForceRefresh, Reserve, Unreserve, Dial, StartDial, Refresh, TryAcquire, AcquireExpires,
       Acquire, Return, Abandon, ContextEnds, Stream, MarkLive, MarkClosing, Release
  <2> QED
    BY <2>1, <2>2, <2>3, <2>4
<1>2. ExternalInv'
  <2>1. CASE UNCHANGED external
    BY <2>1 DEF ExternalInv, Types
  <2>2. ASSUME NEW e \in Reservers, Reserve(e) PROVE ExternalInv'
    <3>1. external' = external \cup {e}
      BY <2>2 DEF Reserve
    <3> QED
      BY <3>1, FS_AddElement DEF ExternalInv, Types
  <2>3. ASSUME NEW e \in Reservers, Unreserve(e) PROVE ExternalInv'
    <3>1. external' = external \ {e}
      BY <2>3 DEF Unreserve
    <3> QED
      BY <3>1, FS_RemoveElement DEF ExternalInv, Types
  <2>4. \/ UNCHANGED external
        \/ \E e \in Reservers : Reserve(e)
        \/ \E e \in Reservers : Unreserve(e)
    BY DEF Next, vars, Dispatch, Sampling, SampleRead, SamplePublish, EnableAdaptiveMemory,
       ForceRefresh, UnregisterSession, RegisterSession, Dial, StartDial, Refresh, TryAcquire,
       AcquireExpires, Acquire, Return, Abandon, ContextEnds, Stream, MarkLive, MarkClosing, Release
  <2> QED
    BY <2>1, <2>2, <2>3, <2>4
<1>3. ToSet(queueKeys') \in SUBSET Keys
  BY ElementOfSeq, LenProperties DEF QueueTypeOK, ToSet
<1>4. passed \in [Requests -> SUBSET Keys]
  BY DEF Types
<1>5. \/ UNCHANGED passed
      \/ \E served : passed' = PassedOver(served)
      \/ \E r \in Requests : passed' = [passed EXCEPT ![r] = {}]
      \/ passed' = [q \in Requests |-> passed[q] \cap ToSet(queueKeys')]
  <2>1. ASSUME Dispatch PROVE UNCHANGED passed \/ \E served : passed' = PassedOver(served)
    BY <2>1 DEF Dispatch, CancelWaiter, GrantWaiter, DispatchEnds
  <2>2. ASSUME NEW r \in Requests, Acquire(r)
        PROVE  UNCHANGED passed \/ passed' = [passed EXCEPT ![r] = {}]
    BY <2>2 DEF Acquire
  <2>3. ASSUME NEW r \in Requests, Abandon(r)
        PROVE  passed' = [q \in Requests |-> passed[q] \cap ToSet(queueKeys')]
    BY <2>3 DEF Abandon
  <2> QED
    BY <2>1, <2>2, <2>3
       DEF Next, vars, Sampling, SampleRead, SamplePublish, EnableAdaptiveMemory,
       ForceRefresh, Reserve, Unreserve, UnregisterSession, RegisterSession, Dial, StartDial,
       Refresh, TryAcquire, AcquireExpires, Return, ContextEnds, Stream, MarkLive, MarkClosing,
       Release
<1>6. ASSUME NEW served, passed' = PassedOver(served)
      PROVE  passed' \in [Requests -> SUBSET Keys]
  BY <1>3, <1>6 DEF PassedOver
<1>7. passed' \in [Requests -> SUBSET Keys]
  BY <1>3, <1>4, <1>5, <1>6
<1> QED
  BY <1>1, <1>2, <1>7

-----------------------------------------------------------------------------
(* The inductive invariant of the manager.                                 *)
CapacityInv ==
    /\ Types /\ CountInv /\ BudgetInv /\ DialInv /\ QueueInv /\ SampleInv
    /\ NoLostWakeup

(* The manager starts empty.                                               *)
LEMMA InitCapacityInv ==
    ASSUME Init
    PROVE  CapacityInv
<1>0. IsFiniteSet({}) /\ Cardinality({}) = 0
  BY FS_EmptySet
<1>1. Types
  <2>1. NoSample \in Snapshots /\ 0 \in 0..MaxController
    BY LimitAssumption DEF NoSample, Snapshots
  <2>2. AdaptTypeOK
    BY <2>1 DEF Init, AdaptTypeOK
  <2>3. QueueTypeOK
    BY DEF Init, QueueTypeOK
  <2>4. DialTypeOK /\ LeaseTypeOK /\ CountTypeOK /\ ExternalInv /\ passed \in [Requests -> SUBSET Keys]
    BY <1>0 DEF Init, DialTypeOK, DialPcs, LeaseTypeOK, LeaseStates, CountTypeOK, ExternalInv
  <2>5. RegTypeOK
    BY ConfigAssumption DEF Init, RegTypeOK
  <2> QED
    BY <2>2, <2>3, <2>4, <2>5 DEF Types
<1>2. CountInv
  <2>1. \A A \in SUBSET Active : \A C, S : Counted(lease, A, C, S) = {}
    BY DEF Init, Counted, Active
  <2>2. Active \in SUBSET Active /\ {"opening"} \in SUBSET Active
    BY DEF Active
  <2> QED
    BY <1>0, <2>1, <2>2 DEF Init, CountInv
<1>3. BudgetInv
  <2>1. registeredSessions = {}
    BY DEF Init, registeredSessions
  <2>2. PublicOpeningLimitPerSession \in Nat
    BY ConfigAssumption, LimitAssumption DEF PublicOpeningLimitPerSession, LesserOf
  <2> QED
    BY <2>1, <2>2, ConfigAssumption DEF Init, BudgetInv
<1>4. DialInv
  BY RequestAssumption DEF Init, DialInv, Holds, Active, Samplers
<1>5. \A k \in Keys : queues[k] = <<>> /\ ToSet(queues[k]) = {} /\ IsInjective(queues[k])
  BY DEF Init, ToSet, IsInjective
<1>6. Queued = {} /\ HealthWaiters = 0
  <2>1. Queued = {}
    BY <1>5 DEF Queued
  <2>2. {r \in Queued : class[r] = "health"} = {}
    BY <2>1
  <2> QED
    BY <1>0, <2>1, <2>2 DEF HealthWaiters
<1>7. QueueInv
  <2>1. queueKeys = <<>> /\ ToSet(queueKeys) = {} /\ IsInjective(queueKeys)
    BY DEF Init, ToSet, IsInjective
  <2>2. \A k \in Keys : {r \in Requests : queueKey[r] = k /\ status[r] = "queued"} = {}
    BY DEF Init
  <2>3. \A k \in Keys : Len(queues[k]) <= MaxWaitersPerKey
    BY <1>5, ConfigAssumption
  <2>4. {k \in Keys : queues[k] # <<>>} = {}
    BY <1>5
  <2>5. nextQueueKey = 0 /\ waiters = 0
    BY DEF Init
  <2>6. waiters = Cardinality(Queued) /\ waiters - HealthWaiters <= MaxWaiters /\ HealthWaiters <= Control
    BY <1>0, <1>6, <2>5, ConfigAssumption
  <2> QED
    BY <1>0, <1>5, <1>6, <2>1, <2>2, <2>3, <2>4, <2>5, <2>6 DEF QueueInv, QueueConsistent
<1>8. SampleInv
  <2>1. Announced = {}
    BY DEF Init, Announced
  <2> QED
    BY <1>0, <2>1 DEF Init, SampleInv
<1>9. NoLostWakeup
  BY <1>6 DEF NoLostWakeup
<1> QED
  BY <1>1, <1>2, <1>3, <1>4, <1>7, <1>8, <1>9 DEF CapacityInv

(* Every step keeps it.                                                    *)
LEMMA NextCapacityInv ==
    ASSUME CapacityInv, [Next]_vars
    PROVE  CapacityInv'
<1>0. Types /\ CountInv /\ BudgetInv /\ DialInv /\ QueueInv /\ SampleInv /\ NoLostWakeup
  BY DEF CapacityInv
<1>1. /\ DialTypeOK /\ LeaseTypeOK /\ CountTypeOK /\ RegTypeOK /\ QueueTypeOK /\ AdaptTypeOK
      /\ ExternalInv
  BY <1>0 DEF Types
<1>2. LeaseStep /\ QueueStep /\ SampleStep
  BY <1>0, Footprint
<1>3. CountInv' /\ CountTypeOK' /\ LeaseTypeOK'
  BY <1>0, <1>1, <1>2, CountNext
<1>4. AdaptTypeOK' /\ SampleInv'
  BY <1>0, <1>1, <1>2, SampleNext
<1>5. QueueTypeOK' /\ QueueInv'
  BY <1>0, <1>1, <1>2, QueueNext
<1>6. DialTypeOK' /\ DialInv'
  BY <1>0, DialNext
<1>7. BudgetInv'
  BY <1>0, BudgetNext
<1>8. RegTypeOK' /\ ExternalInv' /\ passed' \in [Requests -> SUBSET Keys]
  BY <1>0, <1>5, OtherTypesNext
<1>9. Types'
  BY <1>3, <1>4, <1>5, <1>6, <1>8 DEF Types
<1>10. NoLostWakeup'
  BY <1>0, <1>5, <1>9, WakeNext
<1> QED
  BY <1>3, <1>4, <1>5, <1>6, <1>7, <1>9, <1>10 DEF CapacityInv

(* The inductive invariant holds: the manager's counters count the leases, *)
(* its budgets are kept, a lease has an owner, the round-robin order names *)
(* the non-empty queues, the guard counts the samples in flight, and no    *)
(* waiter that could be granted is left behind, whatever order leases are  *)
(* granted, marked and released in, samples are published in and contexts  *)
(* end in.                                                                 *)
THEOREM CapacityInvHolds == Spec => []CapacityInv
<1>1. Init => CapacityInv
  BY InitCapacityInv
<1>2. CapacityInv /\ [Next]_vars => CapacityInv'
  BY NextCapacityInv
<1> QED
  BY <1>1, <1>2, PTL DEF Spec

(* Every variable of the manager keeps its type.                           *)
THEOREM CapacityTypeCorrect == Spec => []TypeOK
<1>1. CapacityInv => TypeOK
  <2> SUFFICES ASSUME CapacityInv PROVE TypeOK
    OBVIOUS
  <2>1. Types
    BY DEF CapacityInv
  <2> QED
    BY <2>1 DEF Types, DialTypeOK, LeaseTypeOK, LeaseStates, CountTypeOK, RegTypeOK,
       QueueTypeOK, AdaptTypeOK, ExternalInv, TypeOK
<1> QED
  BY <1>1, CapacityInvHolds, PTL

(* Every active lease has an owner that will release it: acquire gives     *)
(* back the lease it was granted after its context ended.                  *)
THEOREM CapacityNoLeak == Spec => []NoLeak
<1>1. CapacityInv => NoLeak
  BY DEF CapacityInv, DialInv, Holds, NoLeak
<1> QED
  BY <1>1, CapacityInvHolds, PTL

(* The order of the queues, its cursor and the counts of the waiters are   *)
(* those of the queues (enqueueLocked, popQueueEntryLocked,                *)
(* removeWaiterLocked).                                                    *)
THEOREM CapacityQueuesConsistent == Spec => []QueueConsistent
<1>1. CapacityInv => QueueConsistent
  BY DEF CapacityInv, QueueInv
<1> QED
  BY <1>1, CapacityInvHolds, PTL

(* No wakeup is lost: whatever frees capacity or lowers the sampling guard *)
(* dispatches.                                                             *)
THEOREM CapacityNoLostWakeup == Spec => []NoLostWakeup
<1>1. CapacityInv => NoLostWakeup
  BY DEF CapacityInv
<1> QED
  BY <1>1, CapacityInvHolds, PTL

(* The budgets count the active leases and are never exceeded, in total    *)
(* and per session (validateInvariantsLocked).                             *)
THEOREM CapacityAccounting == Spec => []Accounting
<1>1. CapacityInv => Accounting
  <2> SUFFICES ASSUME CapacityInv PROVE Accounting
    OBVIOUS
  <2>0. CountInv /\ BudgetInv
    BY DEF CapacityInv
  <2>1. \A r \in Requests : class[r] \in Classes /\ sessionKey[r] \in Sessions
    BY RequestAssumption
  <2>2. \A r \in Requests : class[r] \in PublicClasses <=> IsPublic(class[r])
    BY <2>1 DEF Classes, PublicClasses, IsPublic
  <2>3. /\ Counted(lease, Active, Classes, Sessions) = {r \in Requests : lease[r] \in Active /\ TRUE}
        /\ Counted(lease, Active, {"pooled"}, Sessions) =
              {r \in Requests : lease[r] \in Active /\ class[r] = "pooled"}
        /\ Counted(lease, Active, {"health"}, Sessions) =
              {r \in Requests : lease[r] \in Active /\ class[r] = "health"}
    BY <2>1 DEF Counted
  <2>4. Counted(lease, Active, PublicClasses, Sessions) =
           {r \in Requests : lease[r] \in Active /\ IsPublic(class[r])}
    BY <2>1, <2>2 DEF Counted
  <2>5. ASSUME NEW s \in Sessions
        PROVE  /\ Counted(lease, Active, Classes, {s}) =
                     {r \in Requests : lease[r] \in Active /\ sessionKey[r] = s}
               /\ Counted(lease, Active, PublicClasses, {s}) =
                     {r \in Requests : lease[r] \in Active
                                          /\ (sessionKey[r] = s /\ IsPublic(class[r]))}
    BY <2>1, <2>2 DEF Counted
  <2>6. "opening" \in Active
    BY DEF Active
  <2>7. ASSUME NEW s \in Sessions
        PROVE  /\ Counted(lease, {"opening"}, Classes, {s}) =
                     {r \in Requests : lease[r] \in Active
                                          /\ (sessionKey[r] = s /\ lease[r] = "opening")}
               /\ Counted(lease, {"opening"}, PublicClasses, {s}) =
                     {r \in Requests : lease[r] \in Active
                                          /\ (/\ sessionKey[r] = s /\ lease[r] = "opening"
                                              /\ IsPublic(class[r]))}
    BY <2>1, <2>2, <2>6 DEF Counted
  <2>8. /\ usedTotal = Leases(LAMBDA r : TRUE)
        /\ usedPublic = Leases(LAMBDA r : IsPublic(class[r]))
        /\ usedPooled = Leases(LAMBDA r : class[r] = "pooled")
        /\ usedControl = Leases(LAMBDA r : class[r] = "health")
    BY <2>0, <2>3, <2>4 DEF CountInv, Leases
  <2>9. ASSUME NEW s \in Sessions
        PROVE  /\ totalBySession[s] = Leases(LAMBDA r : sessionKey[r] = s)
               /\ publicBySession[s] =
                     Leases(LAMBDA r : sessionKey[r] = s /\ IsPublic(class[r]))
               /\ openingBySession[s] =
                     Leases(LAMBDA r : sessionKey[r] = s /\ lease[r] = "opening")
               /\ publicOpeningBySession[s] =
                     Leases(LAMBDA r : /\ sessionKey[r] = s /\ lease[r] = "opening"
                                       /\ IsPublic(class[r]))
    BY <2>0, <2>5, <2>7 DEF CountInv, Leases
  <2> QED
    BY <2>0, <2>8, <2>9 DEF BudgetInv, Accounting
<1> QED
  BY <1>1, CapacityInvHolds, PTL

(* The openings of a session are those of its health probes and its public *)
(* ones, and are among its streams.                                        *)
LEMMA OpeningsSplit ==
    ASSUME CountInv, CountTypeOK, NEW s \in Sessions
    PROVE  /\ HealthOpenings(s) \in Nat
           /\ openingBySession[s] = publicOpeningBySession[s] + HealthOpenings(s)
           /\ openingBySession[s] <= totalBySession[s]
<1> DEFINE P == Counted(lease, {"opening"}, PublicClasses, {s})
           H == Counted(lease, {"opening"}, {"health"}, {s})
           O == Counted(lease, {"opening"}, Classes, {s})
           T == Counted(lease, Active, Classes, {s})
<1>1. /\ {"opening"} \in SUBSET Active /\ Active \in SUBSET Active
      /\ PublicClasses \in SUBSET Classes /\ {"health"} \in SUBSET Classes
      /\ Classes \in SUBSET Classes /\ {s} \in SUBSET Sessions
  BY DEF Active, PublicClasses, Classes
<1>2. IsFiniteSet(P) /\ IsFiniteSet(H) /\ IsFiniteSet(O) /\ IsFiniteSet(T)
  BY <1>1, CountsFinite
<1>3. O = P \cup H /\ P \cap H = {} /\ O \in SUBSET T
  BY <1>1 DEF Counted, Classes, PublicClasses, Active
<1>4. HealthOpenings(s) = Cardinality(H)
  <2>1. {r \in Requests : lease[r] \in Active
            /\ (sessionKey[r] = s /\ lease[r] = "opening" /\ class[r] = "health")} = H
    BY DEF Counted, Active
  <2> QED
    BY <2>1 DEF HealthOpenings, Leases
<1>5. /\ Cardinality(P) \in Nat /\ Cardinality(H) \in Nat
      /\ Cardinality(O) \in Nat /\ Cardinality(T) \in Nat
  BY <1>2, FS_CardinalityType
<1>6. Cardinality(O) <= Cardinality(T)
  BY <1>2, <1>3, FS_Subset
<1>7. Cardinality(P \cup H) = Cardinality(P) + Cardinality(H) - Cardinality(P \cap H)
  BY <1>2, FS_Union
<1>8. Cardinality(P \cap H) = 0
  BY <1>3, FS_EmptySet
<1>9. /\ openingBySession[s] = Cardinality(O) /\ publicOpeningBySession[s] = Cardinality(P)
      /\ totalBySession[s] = Cardinality(T)
  BY DEF CountInv
<1> HIDE DEF P, H, O, T
<1> QED
  BY <1>3, <1>4, <1>5, <1>6, <1>7, <1>8, <1>9

(* Public streams never keep a trusted health probe out: the budgets and   *)
(* the openings of a session that publicOpeningLimitPerSession withholds   *)
(* from public streams leave room for it.                                  *)
THEOREM CapacityHealthReserve == Spec => []HealthReserve
<1>1. CapacityInv => HealthReserve
  <2> SUFFICES ASSUME CapacityInv, NEW s \in Sessions,
                      controller = 0, MaxOpeningPerSession > 1, usedControl < Control,
                      totalBySession[s] < SessionLimit(s),
                      HealthOpenings(s) < LesserOf(LesserOf(Control, DefaultControl),
                                                   MaxOpeningPerSession - 1)
               PROVE  CanGrant("health", s)
    BY DEF HealthReserve
  <2>0. CountInv /\ CountTypeOK /\ BudgetInv /\ RegTypeOK
    BY DEF CapacityInv, Types
  <2>1. /\ HealthOpenings(s) \in Nat
        /\ openingBySession[s] = publicOpeningBySession[s] + HealthOpenings(s)
        /\ openingBySession[s] <= totalBySession[s]
    BY <2>0, OpeningsSplit
  <2>2. /\ usedTotal \in Nat /\ usedPublic \in Nat /\ usedControl \in Nat
        /\ openingBySession[s] \in Nat /\ publicOpeningBySession[s] \in Nat
        /\ totalBySession[s] \in Nat
    BY <2>0 DEF CountTypeOK
  <2>3. usedTotal < Total
    BY <2>0, <2>2, ConfigAssumption DEF BudgetInv
  <2>4. SessionLimit(s) \in Nat /\ SessionLimit(s) <= Total
    BY <2>0, ConfigAssumption DEF SessionLimit, RegTypeOK
  <2>5. publicOpeningBySession[s] <= PublicOpeningLimitPerSession
    BY <2>0 DEF BudgetInv
  <2>6. openingBySession[s] < MaxOpeningPerSession
    <3>1. CASE MaxOpeningPerSession >= Total
      BY <2>1, <2>2, <2>4, <3>1, ConfigAssumption
    <3>2. CASE ~(MaxOpeningPerSession >= Total)
      <4>1. PublicOpeningLimitPerSession = MaxOpeningPerSession
               - LesserOf(LesserOf(Control, DefaultControl), MaxOpeningPerSession - 1)
        BY <2>2, <3>2, ConfigAssumption DEF PublicOpeningLimitPerSession
      <4>2. LesserOf(LesserOf(Control, DefaultControl), MaxOpeningPerSession - 1) \in Int
        BY ConfigAssumption, LimitAssumption DEF LesserOf
      <4> QED
        BY <2>1, <2>2, <2>5, <4>1, <4>2, ConfigAssumption
    <3> QED
      BY <3>1, <3>2
  <2>7. ~IsPublic("health") /\ "health" # "pooled"
    BY DEF IsPublic
  <2> QED
    BY <2>3, <2>6, <2>7 DEF CanGrant
<1> QED
  BY <1>1, CapacityInvHolds, PTL

-----------------------------------------------------------------------------
(* The resources withheld for health probes.                               *)

(* What the external owners and a limit leave, in this state and the next. *)
LEMMA HeadroomIs ==
    ASSUME AdaptTypeOK, ExternalInv, CountTypeOK, BudgetInv
    PROVE  /\ EffectiveAdmissionLimit \in Nat
           /\ ProtectedControl = Withheld(EffectiveAdmissionLimit)
           /\ ControlHeadroom <=>
                 usedPublic <= EffectiveAdmissionLimit - Withheld(EffectiveAdmissionLimit)
<1>1. /\ EffectiveAdmissionLimit \in Nat
      /\ ProtectedControl = Withheld(EffectiveAdmissionLimit) /\ ProtectedControl \in Nat
  BY LimitTypes, PublicLimitIs
<1>2. /\ usedTotal = usedPublic + usedControl
      /\ usedTotal \in Nat /\ usedPublic \in Nat /\ usedControl \in Nat
  BY DEF BudgetInv, CountTypeOK
<1>3. ControlHeadroom <=> usedPublic <= EffectiveAdmissionLimit - ProtectedControl
  BY <1>1, <1>2 DEF ControlHeadroom
<1> QED
  BY <1>1, <1>3

(* A step that neither samples nor moves an external owner: a public grant *)
(* needs room below the public limit, everything else gives back.          *)
LEMMA LeaseKeepsHeadroom ==
    ASSUME Types, Types', CountInv, BudgetInv, BudgetInv', LeaseStep,
           controller > 0, ControlHeadroom, UNCHANGED <<snapshot, external>>
    PROVE  ControlHeadroom'
<1> DEFINE e == EffectiveAdmissionLimit
<1>0. /\ AdaptTypeOK /\ AdaptTypeOK' /\ ExternalInv /\ ExternalInv' /\ CountTypeOK /\ CountTypeOK'
  BY DEF Types
<1>1. /\ e \in Nat /\ ProtectedControl = Withheld(e)
      /\ ControlHeadroom <=> usedPublic <= e - Withheld(e)
  BY <1>0, HeadroomIs
<1>2. (ControlHeadroom <=>
          usedPublic <= EffectiveAdmissionLimit - Withheld(EffectiveAdmissionLimit))'
  BY <1>0, HeadroomIs, PTL
<1>3. EffectiveAdmissionLimit' = e
  BY DEF EffectiveAdmissionLimit, AdmissionLimitWithExternal, AtLeastZero
<1>4. ControlHeadroom' <=> usedPublic' <= e - Withheld(e)
  BY <1>2, <1>3 DEF Withheld, LesserOf, AtLeastZero
<1>5. usedPublic \in Nat /\ usedPublic' \in Nat /\ Withheld(e) \in Nat
  BY <1>0, <1>1, WithheldMonotone DEF CountTypeOK
<1>6. CASE UNCHANGED leaseVars
  BY <1>1, <1>4, <1>6 DEF leaseVars, usedVars
<1>7. ASSUME NEW r \in Requests, Grants(r) PROVE ControlHeadroom'
  <2>1. usedPublic' = usedPublic + One(IsPublic(class[r]))
    BY <1>7 DEF Grants, Grant
  <2>2. IsPublic(class[r]) => usedPublic < AdaptivePublicLimit
    BY <1>7 DEF Grants, CanGrant
  <2>3. AdaptivePublicLimit = LesserOf(e - Withheld(e), Public)
    BY <1>0, <1>1, PublicLimitIs
  <2>4. IsPublic(class[r]) => usedPublic < e - Withheld(e)
    BY <1>1, <1>5, <2>2, <2>3, ConfigAssumption DEF LesserOf
  <2>5. usedPublic' = IF IsPublic(class[r]) THEN usedPublic + 1 ELSE usedPublic
    BY <1>5, <2>1 DEF One
  <2> QED
    BY <1>1, <1>4, <1>5, <2>4, <2>5
<1>8. ASSUME NEW r \in Requests, Marks(r) PROVE ControlHeadroom'
  BY <1>1, <1>4, <1>8 DEF Marks, usedVars
<1>9. ASSUME NEW r \in Requests, Returns(r) PROVE ControlHeadroom'
  <2>1. usedPublic' = usedPublic - One(IsPublic(class[r]))
    BY <1>9 DEF Returns, ReturnBudgets
  <2>2. usedPublic' <= usedPublic
    BY <1>5, <2>1 DEF One
  <2> QED
    BY <1>1, <1>4, <1>5, <2>2
<1> QED
  BY <1>6, <1>7, <1>8, <1>9 DEF LeaseStep

(* An external owner that gives back leaves more; one that is admitted     *)
(* leaves what is withheld.                                                *)
LEMMA OwnersKeepHeadroom ==
    ASSUME Types, Types', BudgetInv, BudgetInv', ControlHeadroom, NEW o \in Reservers,
           Reserve(o) \/ Unreserve(o)
    PROVE  ControlHeadroom'
<1>0. /\ AdaptTypeOK /\ AdaptTypeOK' /\ ExternalInv /\ ExternalInv' /\ CountTypeOK /\ CountTypeOK'
  BY DEF Types
<1>1. UNCHANGED <<usedTotal, usedPublic, usedControl, snapshot>>
  BY DEF Reserve, Unreserve, leaseVars, usedVars, adaptVars
<1>2. PICK e \in Nat : e = EffectiveAdmissionLimit
  BY <1>0, LimitTypes
<1>3. (EffectiveAdmissionLimit \in Nat)'
  BY <1>0, LimitTypes, PTL
<1>4. PICK f \in Nat : f = EffectiveAdmissionLimit'
  BY <1>3
<1>5. (ControlHeadroom <=>
          usedPublic <= EffectiveAdmissionLimit - Withheld(EffectiveAdmissionLimit))'
  BY <1>0, HeadroomIs, PTL
<1>6. ControlHeadroom' <=> usedPublic <= f - Withheld(f)
  BY <1>1, <1>4, <1>5 DEF Withheld, LesserOf, AtLeastZero
<1>7. usedPublic <= e - Withheld(e) /\ ProtectedControl = Withheld(e)
  BY <1>0, <1>2, HeadroomIs
<1>8. /\ usedTotal = usedPublic + usedControl
      /\ usedTotal \in Nat /\ usedPublic \in Nat /\ usedControl \in Nat
      /\ Withheld(e) \in Nat /\ Withheld(f) \in Nat
  BY <1>0, <1>2, <1>4, WithheldMonotone DEF BudgetInv, CountTypeOK
<1>9. /\ Cardinality(external) \in Nat /\ Cardinality(external') \in Nat /\ snapshot.limit \in Nat
      /\ e = IF Cardinality(external) > snapshot.limit THEN 0
             ELSE snapshot.limit - Cardinality(external)
  BY <1>0, <1>2, LimitTypes, FS_CardinalityType DEF ExternalInv
<1>10. f = IF Cardinality(external') > snapshot.limit THEN 0
           ELSE snapshot.limit - Cardinality(external')
  <2>1. (EffectiveAdmissionLimit =
            IF Cardinality(external) > snapshot.limit THEN 0
            ELSE snapshot.limit - Cardinality(external))'
    BY <1>0, LimitTypes, PTL
  <2> QED
    BY <1>1, <1>4, <2>1
<1>11. CASE Unreserve(o)
  <2>1. external' = external \ {o} /\ o \in external
    BY <1>11 DEF Unreserve
  <2>2. Cardinality(external') <= Cardinality(external)
    BY <1>0, <1>9, <2>1, FS_RemoveElement DEF ExternalInv
  <2>3. e <= f
    BY <1>9, <1>10, <2>2
  <2>4. e - Withheld(e) <= f - Withheld(f)
    BY <2>3, WithheldMonotone
  <2> QED
    BY <1>6, <1>7, <1>8, <2>4
<1>12. CASE Reserve(o)
  <2>1. external' = external \cup {o} /\ o \notin external
    BY <1>12 DEF Reserve
  <2>2. Cardinality(external') = Cardinality(external) + 1
    BY <1>0, <2>1, FS_AddElement DEF ExternalInv
  <2>3. f <= e
    BY <1>9, <1>10, <2>2
  <2>4. AdmissionLimitWithExternal(external \cup {o}) >= usedTotal + AtLeastZero(ProtectedControl - usedControl)
    BY <1>12 DEF Reserve
  <2>5. AdmissionLimitWithExternal(external \cup {o}) =
           IF Cardinality(external') > snapshot.limit THEN -1
           ELSE snapshot.limit - Cardinality(external')
    BY <2>1 DEF AdmissionLimitWithExternal
  <2>6. AtLeastZero(ProtectedControl - usedControl) \in Nat
        /\ AtLeastZero(ProtectedControl - usedControl) >= Withheld(e) - usedControl
    BY <1>7, <1>8 DEF AtLeastZero
  <2>7. f >= usedTotal + AtLeastZero(ProtectedControl - usedControl)
    BY <1>8, <1>9, <1>10, <2>4, <2>5, <2>6
  <2>8. usedPublic <= f - Withheld(e)
    BY <1>8, <2>6, <2>7
  <2>9. Withheld(f) <= Withheld(e)
    BY <2>3, WithheldMonotone
  <2> QED
    BY <1>6, <1>8, <2>8, <2>9
<1> QED
  BY <1>11, <1>12

(* Once the headroom left covers what is withheld for health probes, no    *)
(* grant, reservation or release uses it up (canGrantLocked,               *)
(* tryReserveAdaptiveResourceMode); only a new sample may.                 *)
THEOREM CapacityReserveKept == Spec => ReserveKept
<1>1. CapacityInv /\ CapacityInv' /\ [Next]_vars => [KeepsReserve]_vars
  <2> SUFFICES ASSUME CapacityInv, CapacityInv', [Next]_vars, controller > 0, ControlHeadroom,
                      controller' = controller, snapshot' = snapshot
               PROVE  ControlHeadroom'
    BY DEF KeepsReserve
  <2>0. Types /\ Types' /\ CountInv /\ BudgetInv /\ BudgetInv' /\ QueueInv /\ DialInv
    BY DEF CapacityInv
  <2>1. \/ UNCHANGED external
        \/ \E e \in Reservers : Reserve(e)
        \/ \E e \in Reservers : Unreserve(e)
    BY DEF Next, vars, Dispatch, Sampling, SampleRead, SamplePublish, EnableAdaptiveMemory,
       ForceRefresh, UnregisterSession, RegisterSession, Dial, StartDial, Refresh, TryAcquire,
       AcquireExpires, Acquire, Return, Abandon, ContextEnds, Stream, MarkLive, MarkClosing, Release
  <2>2. LeaseStep
    BY <2>0, Footprint
  <2> QED
    BY <2>0, <2>1, <2>2, LeaseKeepsHeadroom, OwnersKeepHeadroom
<1> QED
  BY <1>1, CapacityInvHolds, PTL DEF Spec, ReserveKept

-----------------------------------------------------------------------------
(* Fair turns.                                                             *)

(* Where the scan that starts at cursor c comes to place x of n.           *)
Place(x, c, n) == IF x > c THEN x - (c + 1) ELSE (x + n) - (c + 1)

(* The scan comes to the queue of q before it comes to that of key k.      *)
Turn(q, k) ==
    \A x, y \in 1..Len(queueKeys) :
        queueKeys[x] = queueKey[q] /\ queueKeys[y] = k =>
            Place(x, nextQueueKey, Len(queueKeys)) < Place(y, nextQueueKey, Len(queueKeys))

(* A queue that was served while q could have been granted has its next    *)
(* turn after q's.                                                         *)
TurnInv ==
    \A q \in Requests : status[q] = "queued" =>
        \A k \in passed[q] : k \in ToSet(queueKeys) /\ Turn(q, k)

(* The cursor after the key at place d went.                               *)
Without(c, d, n) ==
    LET moved == IF d - 1 < c THEN c - 1 ELSE c
    IN  IF n - 1 = 0 \/ moved >= n - 1 THEN 0 ELSE moved

(* A queue that goes leaves the order of the others as it was.             *)
LEMMA RemovalKeepsTurns ==
    ASSUME NEW n \in Nat, NEW c \in 0..(n - 1), NEW d \in 1..n, NEW x \in 1..(n - 1),
           NEW y \in 1..(n - 1),
           Place(IF x < d THEN x ELSE x + 1, c, n) < Place(IF y < d THEN y ELSE y + 1, c, n)
    PROVE  Place(x, Without(c, d, n), n - 1) < Place(y, Without(c, d, n), n - 1)
  BY DEF Place, Without

(* A cursor that moves on to place d leaves the order of the queues from   *)
(* there on as it was.                                                     *)
LEMMA MoveKeepsTurns ==
    ASSUME NEW n \in Nat, NEW c \in 0..(n - 1), NEW d \in 1..n, NEW x \in 1..n, NEW y \in 1..n,
           Place(d, c, n) <= Place(x, c, n), Place(x, c, n) < Place(y, c, n)
    PROVE  Place(x, d - 1, n) < Place(y, d - 1, n)
  BY DEF Place

(* A cursor that moves past place d puts that queue last.                  *)
LEMMA AdvanceKeepsTurns ==
    ASSUME NEW n \in Nat, NEW c \in 0..(n - 1), NEW d \in 1..n, NEW x \in 1..n, NEW y \in 1..n,
           Place(d, c, n) <= Place(x, c, n), x # d,
           y = d \/ Place(x, c, n) < Place(y, c, n),
           NEW e, e = IF d < n THEN d ELSE 0
    PROVE  Place(x, e, n) < Place(y, e, n)
  BY DEF Place

(* The queue at place x is where the scan comes to it.                     *)
LEMMA PlaceIs ==
    ASSUME QueueTypeOK, QueueInv, NEW x \in 1..Len(queueKeys)
    PROVE  /\ Len(queueKeys) \in Nat \ {0}
           /\ nextQueueKey \in 0..(Len(queueKeys) - 1) /\ Cursor = nextQueueKey
           /\ Place(x, nextQueueKey, Len(queueKeys)) \in 0..(Len(queueKeys) - 1)
           /\ KeyIndex(Place(x, nextQueueKey, Len(queueKeys))) + 1 = x
<1> DEFINE n == Len(queueKeys)
           j == Place(x, nextQueueKey, n)
<1>1. n \in Nat \ {0}
  BY LenProperties DEF QueueTypeOK
<1>2. nextQueueKey \in 0..(n - 1)
  BY <1>1 DEF QueueInv, QueueConsistent, QueueTypeOK
<1>3. Cursor = nextQueueKey
  BY <1>1, <1>2 DEF Cursor
<1>4. j \in 0..(n - 1)
  BY <1>1, <1>2 DEF Place
<1>5. KeyIndex(j) = IF Cursor + j < n THEN Cursor + j ELSE (Cursor + j) - n
  BY <1>4, KeyIndexIs
<1>6. KeyIndex(j) + 1 = x
  BY <1>1, <1>2, <1>3, <1>5 DEF Place
<1> QED
  BY <1>1, <1>2, <1>3, <1>4, <1>6

(* The place of the queue at the j-th position of the scan.                *)
LEMMA ScanPlace ==
    ASSUME QueueTypeOK, QueueInv, NEW j \in 0..(Len(queueKeys) - 1)
    PROVE  /\ KeyIndex(j) + 1 \in 1..Len(queueKeys)
           /\ Place(KeyIndex(j) + 1, nextQueueKey, Len(queueKeys)) = j
<1> DEFINE n == Len(queueKeys)
           x == KeyIndex(j) + 1
<1>1. /\ x \in 1..n
      /\ KeyIndex(j) = IF Cursor + j < n THEN Cursor + j ELSE (Cursor + j) - n
  BY KeyIndexIs
<1>2. n \in Nat \ {0} /\ nextQueueKey \in 0..(n - 1) /\ Cursor = nextQueueKey
  BY <1>1, PlaceIs
<1>3. Place(x, nextQueueKey, n) = j
  BY <1>1, <1>2 DEF Place
<1> QED
  BY <1>1, <1>3

(* A waiter is in its queue, and its queue is in the order.                *)
LEMMA WaiterHasPlace ==
    ASSUME QueueTypeOK, QueueInv, NEW q \in Requests, status[q] = "queued"
    PROVE  /\ queueKey[q] \in ToSet(queueKeys)
           /\ \E i \in DOMAIN queues[queueKey[q]] : queues[queueKey[q]][i] = q
           /\ \E x \in 1..Len(queueKeys) : queueKeys[x] = queueKey[q]
<1>1. queueKey[q] \in Keys
  BY RequestAssumption
<1>2. q \in ToSet(queues[queueKey[q]])
  BY <1>1 DEF QueueInv, QueueConsistent
<1>3. PICK i \in DOMAIN queues[queueKey[q]] : queues[queueKey[q]][i] = q
  BY <1>2 DEF ToSet
<1>4. queues[queueKey[q]] # <<>>
  BY <1>3
<1>5. queueKey[q] \in ToSet(queueKeys)
  BY <1>1, <1>4 DEF QueueInv, QueueConsistent
<1>6. DOMAIN queueKeys = 1..Len(queueKeys)
  BY LenProperties DEF QueueTypeOK
<1> QED
  BY <1>3, <1>5, <1>6 DEF ToSet

(* The scan does not pass a waiter that could be granted.                  *)
LEMMA ScanStopsBefore ==
    ASSUME QueueTypeOK, QueueInv, NEW j \in 0..(Len(queueKeys) - 1), NEW i, FirstActionable(j, i),
           NEW q \in Requests, status[q] = "queued", Grantable(q),
           NEW x \in 1..Len(queueKeys), queueKeys[x] = queueKey[q]
    PROVE  j <= Place(x, nextQueueKey, Len(queueKeys))
<1> DEFINE m == Place(x, nextQueueKey, Len(queueKeys))
<1>1. m \in 0..(Len(queueKeys) - 1) /\ KeyIndex(m) + 1 = x
  BY PlaceIs
<1>2. QueueAt(m) = queues[queueKey[q]]
  BY <1>1 DEF QueueAt
<1>3. PICK p \in DOMAIN QueueAt(m) : QueueAt(m)[p] = q
  BY <1>2, WaiterHasPlace
<1>4. Acts(m)
  BY <1>3 DEF Acts, Actionable
<1>5. m \notin 0..(j - 1)
  BY <1>4 DEF FirstActionable
<1> HIDE DEF m
<1>6. m \in Int /\ j \in Int /\ m >= 0
  <2>1. Len(queueKeys) \in Nat
    BY LenProperties DEF QueueTypeOK
  <2> QED
    BY <1>1, <2>1
<1>7. j <= m
  BY <1>5, <1>6
<1> QED
  BY <1>7 DEF m

(* A queue that joins at the end leaves the order of the others as it was. *)
LEMMA JoinKeepsTurns ==
    ASSUME NEW n \in Nat, NEW c \in 0..(n - 1), NEW x \in 1..n, NEW y \in 1..n,
           Place(x, c, n) < Place(y, c, n)
    PROVE  Place(x, c, n + 1) < Place(y, c, n + 1)
  BY DEF Place

(* removeQueueKeyAtLocked keeps the turns of the queues that stay.         *)
LEMMA RemovedKeepsTurn ==
    ASSUME QueueTypeOK, QueueInv, NEW d \in 1..Len(queueKeys),
           queueKeys' = RemoveAt(queueKeys, d), NEW c \in 0..(Len(queueKeys) - 1),
           nextQueueKey' = CursorWithout(c, d - 1), NEW q, NEW k,
           \A x, y \in 1..Len(queueKeys) :
               queueKeys[x] = queueKey[q] /\ queueKeys[y] = k =>
                   Place(x, c, Len(queueKeys)) < Place(y, c, Len(queueKeys))
    PROVE  Turn(q, k)'
<1>1. PICK n \in Nat : n = Len(queueKeys)
  BY LenProperties DEF QueueTypeOK
<1>2. /\ Len(queueKeys') = n - 1
      /\ \A x \in 1..(n - 1) : queueKeys'[x] = IF x < d THEN queueKeys[x] ELSE queueKeys[x + 1]
  BY <1>1, RemoveAtElements DEF QueueTypeOK
<1>3. nextQueueKey' = Without(c, d, n)
  BY <1>1 DEF CursorWithout, Without
<1>4. ASSUME NEW x \in 1..(n - 1), NEW y \in 1..(n - 1),
             queueKeys'[x] = queueKey[q], queueKeys'[y] = k
      PROVE  Place(x, Without(c, d, n), n - 1) < Place(y, Without(c, d, n), n - 1)
  <2>1. PICK u \in 1..n : u = IF x < d THEN x ELSE x + 1
    BY <1>1
  <2>2. PICK v \in 1..n : v = IF y < d THEN y ELSE y + 1
    BY <1>1
  <2>3. queueKeys[u] = queueKey[q] /\ queueKeys[v] = k
    BY <1>2, <1>4, <2>1, <2>2
  <2>4. Place(u, c, n) < Place(v, c, n)
    BY <1>1, <2>3
  <2>5. c \in 0..(n - 1) /\ d \in 1..n
    BY <1>1
  <2>6. Place(IF x < d THEN x ELSE x + 1, c, n) < Place(IF y < d THEN y ELSE y + 1, c, n)
    BY <2>1, <2>2, <2>4
  <2> QED
    BY <2>5, <2>6, RemovalKeepsTurns
<1> QED
  BY <1>2, <1>3, <1>4 DEF Turn

(* A pass of the dispatcher keeps the turns, and gives the queue it serves *)
(* the last one.                                                           *)
LEMMA DispatchKeepsTurns ==
    ASSUME QueueTypeOK, QueueInv, TurnInv, NEW j \in 0..(Len(queueKeys) - 1), NEW i,
           FirstActionable(j, i), NEW advance \in BOOLEAN,
           PopQueueEntry(KeyIndex(j), i, advance),
           NEW served, served = IF advance THEN {queueKeys[KeyIndex(j) + 1]} ELSE {},
           passed' = PassedOver(served),
           \A q \in Requests : status'[q] = "queued" => status[q] = "queued"
    PROVE  TurnInv'
<1> SUFFICES ASSUME NEW q \in Requests, status'[q] = "queued", NEW k \in passed'[q]
             PROVE  k \in ToSet(queueKeys') /\ Turn(q, k)'
  BY DEF TurnInv
<1>0. PICK n \in Nat : n = Len(queueKeys)
  BY LenProperties DEF QueueTypeOK
<1>1. PICK d \in 1..n : d = KeyIndex(j) + 1
  BY <1>0, ScanPlace
<1>2. Place(d, nextQueueKey, n) = j /\ nextQueueKey \in 0..(n - 1)
  BY <1>0, <1>1, ScanPlace, PlaceIs
<1>3. /\ status[q] = "queued" /\ Grantable(q) /\ queueKey[q] \notin served
      /\ k \in passed[q] \cup served /\ k \in ToSet(queueKeys')
  <2>1. passed'[q] = IF status[q] = "queued" /\ Grantable(q) /\ queueKey[q] \notin served
                     THEN (passed[q] \cup served) \cap ToSet(queueKeys') ELSE {}
    BY DEF PassedOver
  <2> QED
    BY <2>1
<1>4. k \in passed[q] => Turn(q, k)
  BY <1>3 DEF TurnInv
<1>5. \A x \in 1..n : queueKeys[x] = queueKey[q] => Place(d, nextQueueKey, n) <= Place(x, nextQueueKey, n)
  BY <1>0, <1>2, <1>3, ScanStopsBefore
<1>6. CASE RemoveAt(queues[queueKeys[d]], i) = <<>>
  <2>1. queueKeys' = RemoveAt(queueKeys, d) /\ nextQueueKey' = CursorWithout(d - 1, d - 1)
    <3>1. RemoveQueueKeyAt(KeyIndex(j), KeyIndex(j))
      BY <1>1, <1>6 DEF PopQueueEntry
    <3>2. KeyIndex(j) = d - 1
      BY <1>0, <1>1, KeyIndexIs
    <3> QED
      BY <1>1, <3>1, <3>2 DEF RemoveQueueKeyAt
  <2>2. ToSet(queueKeys') = ToSet(queueKeys) \ {queueKeys[d]}
    BY <1>0, <2>1, RemoveAtSet DEF QueueTypeOK, QueueInv, QueueConsistent
  <2>3. k \in passed[q]
    BY <1>1, <1>3, <2>2
  <2>4. \A x, y \in 1..n : queueKeys[x] = queueKey[q] /\ queueKeys[y] = k =>
           Place(x, d - 1, n) < Place(y, d - 1, n)
    <3> SUFFICES ASSUME NEW x \in 1..n, NEW y \in 1..n, queueKeys[x] = queueKey[q], queueKeys[y] = k
                 PROVE  Place(x, d - 1, n) < Place(y, d - 1, n)
      OBVIOUS
    <3>1. Place(x, nextQueueKey, n) < Place(y, nextQueueKey, n)
      BY <1>0, <1>4, <2>3 DEF Turn
    <3> QED
      BY <1>2, <1>5, <3>1, MoveKeepsTurns
  <2>5. d \in 1..Len(queueKeys) /\ d - 1 \in 0..(Len(queueKeys) - 1)
    BY <1>0
  <2>6. Turn(q, k)'
    BY <1>0, <2>1, <2>4, <2>5, RemovedKeepsTurn
  <2> QED
    BY <1>3, <2>6
<1>7. CASE RemoveAt(queues[queueKeys[d]], i) # <<>>
  <2>1. /\ queueKeys' = queueKeys
        /\ nextQueueKey' = IF advance THEN (KeyIndex(j) + 1) % Len(queueKeys) ELSE KeyIndex(j)
    BY <1>1, <1>7 DEF PopQueueEntry
  <2>2. KeyIndex(j) = d - 1
    BY <1>0, <1>1, KeyIndexIs
  <2>3. d % n = IF d < n THEN d ELSE 0
    <3>1. n \in Nat \ {0} /\ d \in 0..(n + n - 1)
      BY <1>0
    <3>2. d % n = IF d < n THEN d ELSE d - n
      BY <3>1, Wrap
    <3> QED
      BY <3>1, <3>2
  <2>4. nextQueueKey' = IF advance THEN (IF d < n THEN d ELSE 0) ELSE d - 1
    BY <1>0, <1>1, <2>1, <2>2, <2>3
  <2>5. ASSUME NEW x \in 1..n, NEW y \in 1..n, queueKeys[x] = queueKey[q], queueKeys[y] = k
        PROVE  Place(x, nextQueueKey', n) < Place(y, nextQueueKey', n)
    <3>1. Place(d, nextQueueKey, n) <= Place(x, nextQueueKey, n)
      BY <1>5, <2>5
    <3>2. k \in passed[q] => Place(x, nextQueueKey, n) < Place(y, nextQueueKey, n)
      BY <1>0, <1>4, <2>5 DEF Turn
    <3>3. CASE advance
      <4>1. queueKey[q] # queueKeys[d] /\ (k \in passed[q] \/ k = queueKeys[d])
        BY <1>1, <1>3, <3>3
      <4>2. x # d
        BY <2>5, <4>1
      <4>3. k = queueKeys[d] => y = d
        <5>1. IsInjective(queueKeys) /\ DOMAIN queueKeys = 1..n
          BY <1>0, LenProperties DEF QueueInv, QueueConsistent, QueueTypeOK
        <5> QED
          BY <2>5, <5>1 DEF IsInjective
      <4>4. y = d \/ Place(x, nextQueueKey, n) < Place(y, nextQueueKey, n)
        BY <3>2, <4>1, <4>3
      <4>5. PICK e : e = IF d < n THEN d ELSE 0
        OBVIOUS
      <4>6. Place(x, e, n) < Place(y, e, n)
        BY <1>2, <3>1, <4>2, <4>4, <4>5, AdvanceKeepsTurns
      <4> QED
        BY <2>4, <3>3, <4>5, <4>6
    <3>4. CASE ~advance
      <4>1. k \in passed[q]
        BY <1>3, <3>4
      <4>2. Place(x, d - 1, n) < Place(y, d - 1, n)
        BY <1>2, <3>1, <3>2, <4>1, MoveKeepsTurns
      <4> QED
        BY <2>4, <3>4, <4>2
    <3> QED
      BY <3>3, <3>4
  <2>6. Turn(q, k)'
    BY <1>0, <2>1, <2>5 DEF Turn
  <2> QED
    BY <1>3, <2>6
<1> QED
  BY <1>6, <1>7

(* enqueueLocked keeps the turns.                                          *)
LEMMA EnqueueKeepsTurns ==
    ASSUME QueueTypeOK, QueueInv, TurnInv, NEW r \in Requests, Enqueue(r),
           status' = [status EXCEPT ![r] = "queued"], DialTypeOK,
           passed \in [Requests -> SUBSET Keys], passed' = [passed EXCEPT ![r] = {}]
    PROVE  TurnInv'
<1> SUFFICES ASSUME NEW q \in Requests, status'[q] = "queued", NEW k \in passed'[q]
             PROVE  k \in ToSet(queueKeys') /\ Turn(q, k)'
  BY DEF TurnInv
<1>1. q # r /\ status[q] = "queued" /\ k \in passed[q]
  BY DEF DialTypeOK
<1>2. k \in ToSet(queueKeys) /\ Turn(q, k)
  BY <1>1 DEF TurnInv
<1>3. PICK n \in Nat : n = Len(queueKeys)
  BY LenProperties DEF QueueTypeOK
<1>4. nextQueueKey' = nextQueueKey
  BY DEF Enqueue
<1>5. CASE queues[queueKey[r]] # <<>>
  <2>1. queueKeys' = queueKeys
    BY <1>5 DEF Enqueue
  <2> QED
    BY <1>2, <1>4, <2>1 DEF Turn
<1>6. CASE queues[queueKey[r]] = <<>>
  <2>1. queueKeys' = Append(queueKeys, queueKey[r]) /\ queueKey[r] \in Keys
    BY <1>6, RequestAssumption DEF Enqueue
  <2>2. /\ queueKeys' \in Seq(Keys) /\ Len(queueKeys') = n + 1 /\ queueKeys'[n + 1] = queueKey[r]
        /\ \A x \in 1..n : queueKeys'[x] = queueKeys[x]
    BY <1>3, <2>1, AppendProperties DEF QueueTypeOK
  <2>3. queueKey[r] \notin ToSet(queueKeys)
    BY <1>6, <2>1 DEF QueueInv, QueueConsistent
  <2>4. queueKey[q] \in ToSet(queueKeys)
    BY <1>1, WaiterHasPlace
  <2>5. DOMAIN queueKeys = 1..n /\ DOMAIN queueKeys' = 1..(n + 1)
    BY <1>3, <2>2, LenProperties DEF QueueTypeOK
  <2>6. k \in ToSet(queueKeys')
    BY <1>2, <1>3, <2>2, <2>5 DEF ToSet
  <2>7. ASSUME NEW x \in 1..(n + 1), NEW y \in 1..(n + 1),
               queueKeys'[x] = queueKey[q], queueKeys'[y] = k
        PROVE  Place(x, nextQueueKey, n + 1) < Place(y, nextQueueKey, n + 1)
    <3>1. x # n + 1 /\ y # n + 1
      BY <1>2, <2>2, <2>3, <2>4, <2>7
    <3>2. x \in 1..n /\ y \in 1..n
      BY <1>3, <3>1
    <3>3. queueKeys[x] = queueKey[q] /\ queueKeys[y] = k
      BY <2>2, <2>7, <3>2
    <3>4. Place(x, nextQueueKey, n) < Place(y, nextQueueKey, n)
      BY <1>2, <1>3, <3>2, <3>3 DEF Turn
    <3>5. nextQueueKey \in 0..(n - 1)
      BY <1>3, <3>2, PlaceIs
    <3> QED
      BY <3>2, <3>4, <3>5, JoinKeepsTurns
  <2>8. Turn(q, k)'
    BY <1>4, <2>2, <2>7 DEF Turn
  <2> QED
    BY <2>6, <2>8
<1> QED
  BY <1>5, <1>6

(* removeWaiterLocked keeps the turns.                                     *)
LEMMA RemoveKeepsTurns ==
    ASSUME QueueTypeOK, QueueInv, TurnInv, DialTypeOK, NEW r \in Requests, status[r] = "queued",
           RemoveWaiter(r), status' = [status EXCEPT ![r] = "canceled"],
           passed' = [q \in Requests |-> passed[q] \cap ToSet(queueKeys')]
    PROVE  TurnInv'
<1> SUFFICES ASSUME NEW q \in Requests, status'[q] = "queued", NEW k \in passed'[q]
             PROVE  k \in ToSet(queueKeys') /\ Turn(q, k)'
  BY DEF TurnInv
<1>1. status[q] = "queued" /\ k \in passed[q] /\ k \in ToSet(queueKeys')
  BY DEF DialTypeOK
<1>2. Turn(q, k)
  BY <1>1 DEF TurnInv
<1> DEFINE d == CHOOSE x \in 1..Len(queueKeys) : queueKeys[x] = queueKey[r]
           left == RemoveAt(queues[queueKey[r]],
                            CHOOSE i \in DOMAIN queues[queueKey[r]] : queues[queueKey[r]][i] = r)
<1>3. d \in 1..Len(queueKeys)
  BY WaiterHasPlace
<1>4. IF left = <<>> THEN RemoveQueueKeyAt(d - 1, nextQueueKey)
                     ELSE UNCHANGED <<queueKeys, nextQueueKey>>
  BY DEF RemoveWaiter
<1> HIDE DEF d, left
<1>5. CASE left = <<>>
  <2>1. Len(queueKeys) \in Nat /\ nextQueueKey \in 0..(Len(queueKeys) - 1) /\ (d - 1) + 1 = d
    BY <1>3, PlaceIs
  <2>2. queueKeys' = RemoveAt(queueKeys, d) /\ nextQueueKey' = CursorWithout(nextQueueKey, d - 1)
    BY <1>4, <1>5, <2>1 DEF RemoveQueueKeyAt
  <2>3. Turn(q, k)'
    BY <1>2, <1>3, <2>1, <2>2, RemovedKeepsTurn DEF Turn
  <2> QED
    BY <1>1, <2>3
<1>6. CASE left # <<>>
  BY <1>1, <1>2, <1>4, <1>6 DEF Turn
<1> QED
  BY <1>5, <1>6

(* Every step keeps the turns.                                             *)
LEMMA TurnNext ==
    ASSUME CapacityInv, TurnInv, [Next]_vars
    PROVE  TurnInv'
<1> USE DEF leaseVars, regVars, queueVars, adaptVars
<1>0. QueueTypeOK /\ QueueInv /\ DialTypeOK /\ DialInv /\ passed \in [Requests -> SUBSET Keys]
  BY DEF CapacityInv, Types
<1>1. ASSUME UNCHANGED <<status, queueKeys, nextQueueKey, passed>> PROVE TurnInv'
  <2>1. \A q, k : Turn(q, k)' <=> Turn(q, k)
    BY <1>1 DEF Turn
  <2> QED
    BY <1>1, <2>1 DEF TurnInv
<1>2. ASSUME NEW j \in 0..(Len(queueKeys) - 1), NEW i \in DOMAIN QueueAt(j), FirstActionable(j, i),
             CancelWaiter(j, i)
      PROVE  TurnInv'
  <2>1. /\ PopQueueEntry(KeyIndex(j), i, FALSE) /\ passed' = PassedOver({})
        /\ status' = [status EXCEPT ![QueueAt(j)[i]] = "canceled"]
    BY <1>2 DEF CancelWaiter
  <2>2. \A q \in Requests : status'[q] = "queued" => status[q] = "queued"
    BY <1>0, <2>1 DEF DialTypeOK
  <2>3. PICK advance \in BOOLEAN : advance = FALSE
    OBVIOUS
  <2>4. PICK served : served = {}
    OBVIOUS
  <2> QED
    BY <1>0, <1>2, <2>1, <2>2, <2>3, <2>4, DispatchKeepsTurns
<1>3. ASSUME NEW j \in 0..(Len(queueKeys) - 1), NEW i \in DOMAIN QueueAt(j), FirstActionable(j, i),
             GrantWaiter(j, i)
      PROVE  TurnInv'
  <2>1. /\ PopQueueEntry(KeyIndex(j), i, TRUE)
        /\ passed' = PassedOver({queueKeys[KeyIndex(j) + 1]})
        /\ status' = [status EXCEPT ![QueueAt(j)[i]] = "granted"]
    BY <1>3 DEF GrantWaiter
  <2>2. \A q \in Requests : status'[q] = "queued" => status[q] = "queued"
    BY <1>0, <2>1 DEF DialTypeOK
  <2>4. PICK served : served = {queueKeys[KeyIndex(j) + 1]}
    OBVIOUS
  <2> QED
    BY <1>0, <1>3, <2>1, <2>2, <2>4, DispatchKeepsTurns
<1>4. ASSUME Dispatch PROVE TurnInv'
  <2>1. CASE DispatchEnds
    BY <1>1, <2>1 DEF DispatchEnds
  <2> QED
    BY <1>2, <1>3, <1>4, <2>1 DEF Dispatch
<1>5. ASSUME NEW r \in Requests, Acquire(r) PROVE TurnInv'
  <2>1. \/ UNCHANGED <<status, queueKeys, nextQueueKey, passed>>
        \/ /\ Enqueue(r) /\ status' = [status EXCEPT ![r] = "queued"]
           /\ passed' = [passed EXCEPT ![r] = {}]
    BY <1>5 DEF Acquire
  <2> QED
    BY <1>0, <1>1, <2>1, EnqueueKeepsTurns
<1>6. ASSUME NEW r \in Requests, Abandon(r) PROVE TurnInv'
  <2>1. /\ status[r] = "queued" /\ RemoveWaiter(r) /\ status' = [status EXCEPT ![r] = "canceled"]
        /\ passed' = [q \in Requests |-> passed[q] \cap ToSet(queueKeys')]
    BY <1>6 DEF Abandon
  <2> QED
    BY <1>0, <2>1, RemoveKeepsTurns
<1>7. \/ UNCHANGED <<status, queueKeys, nextQueueKey, passed>>
      \/ Dispatch
      \/ \E r \in Requests : Acquire(r) \/ Abandon(r)
  BY DEF Next, vars, Sampling, SampleRead, SamplePublish, EnableAdaptiveMemory,
     ForceRefresh, Reserve, Unreserve, UnregisterSession, RegisterSession, Dial, StartDial,
     Refresh, TryAcquire, AcquireExpires, Return, ContextEnds, Stream, MarkLive, MarkClosing,
     Release
<1> QED
  BY <1>1, <1>4, <1>5, <1>6, <1>7

(* A waiter is granted by a pass of the dispatcher that has found it.      *)
LEMMA GrantedByDispatch ==
    ASSUME CapacityInv, [Next]_vars, NEW r \in Requests, Granted(r)
    PROVE  \E j \in 0..(Len(queueKeys) - 1) : \E i \in DOMAIN QueueAt(j) :
              FirstActionable(j, i) /\ QueueAt(j)[i] = r
<1>0. DialTypeOK
  BY DEF CapacityInv, Types
<1>1. status'[r] # status[r] /\ status'[r] = "granted"
  BY DEF Granted
<1>2. ASSUME NEW q \in Requests, Acquire(q) PROVE FALSE
  BY <1>0, <1>1, <1>2 DEF Acquire, DialTypeOK
<1>3. ASSUME NEW q \in Requests, Abandon(q) PROVE FALSE
  BY <1>0, <1>1, <1>3 DEF Abandon, DialTypeOK
<1>4. UNCHANGED status \/ Dispatch \/ \E q \in Requests : Acquire(q) \/ Abandon(q)
  BY DEF Next, vars, Sampling, SampleRead, SamplePublish, EnableAdaptiveMemory,
     ForceRefresh, Reserve, Unreserve, UnregisterSession, RegisterSession, Dial, StartDial,
     Refresh, TryAcquire, AcquireExpires, Return, ContextEnds, Stream, MarkLive, MarkClosing,
     Release
<1>5. Dispatch
  BY <1>1, <1>2, <1>3, <1>4
<1>6. PICK j \in 0..(Len(queueKeys) - 1) : \E i \in DOMAIN QueueAt(j) :
          FirstActionable(j, i) /\ (CancelWaiter(j, i) \/ GrantWaiter(j, i))
  BY <1>1, <1>5 DEF Dispatch, DispatchEnds
<1>7. PICK i \in DOMAIN QueueAt(j) :
         FirstActionable(j, i) /\ (CancelWaiter(j, i) \/ GrantWaiter(j, i))
  BY <1>6
<1>8. QueueAt(j)[i] = r
  BY <1>0, <1>1, <1>7 DEF CancelWaiter, GrantWaiter, DialTypeOK
<1> QED
  BY <1>7, <1>8

(* Fair turns: a waiter is granted before every later one of its queue     *)
(* that could be granted, and a queue that stayed non-empty is not served  *)
(* a second time while another one had, at every pass in between, a waiter *)
(* that could be granted (dispatchLocked, popQueueEntryLocked,             *)
(* removeQueueKeyAtLocked).                                                *)
THEOREM CapacityFairTurn == Spec => FairTurn
<1>1. Init => TurnInv
  BY DEF Init, TurnInv
<1>2. CapacityInv /\ TurnInv /\ [Next]_vars => TurnInv'
  BY TurnNext
<1>3. CapacityInv /\ TurnInv /\ [Next]_vars => [TakesTurns]_vars
  <2> SUFFICES ASSUME CapacityInv, TurnInv, [Next]_vars, NEW r \in Requests, Granted(r),
                      NEW q \in Requests \ {r}, status[q] = "queued", Grantable(q)
               PROVE  IF queueKey[q] = queueKey[r]
                      THEN \E i, j \in DOMAIN queues[queueKey[r]] :
                              /\ i < j /\ queues[queueKey[r]][i] = r
                              /\ queues[queueKey[r]][j] = q
                      ELSE queueKey[r] \notin passed[q]
    BY DEF TakesTurns, TakesTurn
  <2>0. QueueTypeOK /\ QueueInv
    BY DEF CapacityInv, Types
  <2> PICK j \in 0..(Len(queueKeys) - 1) :
         \E i \in DOMAIN QueueAt(j) : FirstActionable(j, i) /\ QueueAt(j)[i] = r
    BY GrantedByDispatch
  <2>1. PICK i \in DOMAIN QueueAt(j) : FirstActionable(j, i) /\ QueueAt(j)[i] = r
    OBVIOUS
  <2>2. PICK d \in 1..Len(queueKeys) : d = KeyIndex(j) + 1
    BY <2>0, ScanPlace
  <2>3. /\ Place(d, nextQueueKey, Len(queueKeys)) = j
        /\ QueueAt(j) = queues[queueKeys[d]]
    BY <2>0, <2>2, ScanPlace DEF QueueAt
  <2>4. queueKeys[d] \in Keys /\ queues[queueKeys[d]] \in Seq(Requests)
    BY <2>0, ElementOfSeq DEF QueueTypeOK
  <2>5. DOMAIN queues[queueKeys[d]] = 1..Len(queues[queueKeys[d]])
        /\ Len(queues[queueKeys[d]]) \in Nat
    BY <2>4, LenProperties
  <2>6. queueKey[r] = queueKeys[d]
    BY <2>0, <2>1, <2>3, <2>5, QueuePlace
  <2>7. CASE queueKey[q] = queueKey[r]
    <3>1. PICK p \in DOMAIN queues[queueKey[r]] : queues[queueKey[r]][p] = q
      BY <2>0, <2>7, WaiterHasPlace
    <3>2. i \in DOMAIN queues[queueKey[r]] /\ queues[queueKey[r]][i] = r
      BY <2>1, <2>3, <2>6
    <3>3. p \notin 1..(i - 1)
      BY <2>1, <2>3, <2>6, <3>1 DEF FirstActionable, Actionable
    <3>4. i \in Nat /\ p \in Nat /\ p >= 1 /\ p # i
      BY <2>5, <2>6, <3>1, <3>2
    <3>5. i < p
      BY <3>3, <3>4
    <3> QED
      BY <2>7, <3>1, <3>2, <3>5
  <2>8. CASE queueKey[q] # queueKey[r]
    <3>1. PICK x \in 1..Len(queueKeys) : queueKeys[x] = queueKey[q]
      BY <2>0, WaiterHasPlace
    <3>2. j <= Place(x, nextQueueKey, Len(queueKeys))
      BY <2>0, <2>1, <3>1, ScanStopsBefore
    <3>3. queueKey[r] \in passed[q] =>
             Place(x, nextQueueKey, Len(queueKeys)) < Place(d, nextQueueKey, Len(queueKeys))
      BY <2>6, <3>1 DEF TurnInv, Turn
    <3>4. Place(x, nextQueueKey, Len(queueKeys)) \in Int /\ j \in Int
      BY <2>0, PlaceIs
    <3> QED
      BY <2>3, <2>8, <3>2, <3>3, <3>4
  <2> QED
    BY <2>7, <2>8
<1> QED
  BY <1>1, <1>2, <1>3, CapacityInvHolds, PTL DEF Spec, FairTurn

-----------------------------------------------------------------------------
(* The newest sample.  Samples that are read and not yet published.        *)
Awaited == {p \in Samplers : samp[p] = "publish" /\ sample[p].of = controller}
NotNewer(s, t) == s.gen < t.gen \/ s = t

(* Nothing is newer than the controller's latest sample, which is in force *)
(* or on its way; a generation number names one sample of a controller.    *)
CurrentInv ==
    /\ NotNewer(snapshot, newest)
    /\ \A p \in Awaited : NotNewer(sample[p].val, newest)
    /\ snapshot = newest \/ \E p \in Awaited : sample[p].val = newest

(* Reading, publishing and replacing the controller keep that.             *)
LEMMA CurrentNext ==
    ASSUME AdaptTypeOK, SampleInv, CurrentInv, SampleStep
    PROVE  CurrentInv'
<1>0. /\ newest.gen \in Int /\ snapshot.gen \in Int
      /\ \A p \in Samplers : sample[p].val.gen \in Int
  BY LimitAssumption DEF AdaptTypeOK, Snapshots
<1>1. CASE UNCHANGED adaptVars
  BY <1>1 DEF adaptVars, CurrentInv, Awaited
<1>2. ASSUME NEW p \in Samplers, samp[p] \in {"none", "due"}, BeginSample(p)
      PROVE  CurrentInv'
  <2>1. /\ samp' = [samp EXCEPT ![p] = "read"]
        /\ sample' = [sample EXCEPT ![p] = [of |-> controller, val |-> NoSample]]
        /\ UNCHANGED <<controller, newest, snapshot>>
    BY <1>2 DEF BeginSample
  <2>2. Awaited' = Awaited /\ \A q \in Awaited : sample'[q] = sample[q]
    BY <1>2, <2>1 DEF Awaited, AdaptTypeOK
  <2> QED
    BY <2>1, <2>2 DEF CurrentInv, NotNewer
<1>3. ASSUME NEW p \in Samplers, NEW l \in SampledLimits, NEW f, SampleRead(p, l, f)
      PROVE  CurrentInv'
  <2>1. /\ samp[p] = "read" /\ samp' = [samp EXCEPT ![p] = "publish"]
        /\ UNCHANGED <<controller, snapshot>>
    BY <1>3 DEF SampleRead
  <2>2. ASSUME NEW v, sample' = [sample EXCEPT ![p].val = v]
        PROVE  /\ sample'[p].val = v /\ sample'[p].of = sample[p].of
               /\ \A q \in Samplers \ {p} : sample'[q] = sample[q]
               /\ Awaited' = Awaited \cup (IF sample[p].of = controller THEN {p} ELSE {})
               /\ p \notin Awaited
    <3>1. /\ sample'[p].val = v /\ sample'[p].of = sample[p].of
          /\ \A q \in Samplers \ {p} : sample'[q] = sample[q]
      BY <2>2 DEF AdaptTypeOK
    <3> QED
      BY <2>1, <3>1 DEF Awaited, AdaptTypeOK
  <2>3. CASE sample[p].of = controller /\ newest' = [gen |-> newest.gen + 1, limit |-> l]
             /\ sample' = [sample EXCEPT ![p].val = newest']
    <3>1. /\ sample'[p].val = newest' /\ Awaited' = Awaited \cup {p}
          /\ \A q \in Awaited : q \in Samplers /\ sample'[q] = sample[q]
      BY <2>2, <2>3 DEF Awaited
    <3>2. newest.gen < newest'.gen
      BY <1>0, <2>3
    <3>3. \A s : s.gen \in Int /\ NotNewer(s, newest) => s.gen < newest'.gen
      BY <1>0, <2>3 DEF NotNewer
    <3> QED
      BY <1>0, <2>1, <3>1, <3>2, <3>3 DEF CurrentInv, NotNewer
  <2>4. CASE sample[p].of = controller /\ newest' = newest
             /\ sample' = [sample EXCEPT ![p].val = newest]
    <3>1. /\ sample'[p].val = newest /\ Awaited' = Awaited \cup {p}
          /\ \A q \in Awaited : sample'[q] = sample[q]
      BY <2>2, <2>4 DEF Awaited
    <3> QED
      BY <2>1, <2>4, <3>1 DEF CurrentInv, NotNewer
  <2>5. ASSUME NEW g \in 1..MaxGeneration, sample[p].of # controller, newest' = newest,
               sample' = [sample EXCEPT ![p].val = [gen |-> g, limit |-> l]]
        PROVE  CurrentInv'
    <3>1. Awaited' = Awaited /\ \A q \in Awaited : sample'[q] = sample[q]
      BY <2>2, <2>5 DEF Awaited
    <3> QED
      BY <2>1, <2>5, <3>1 DEF CurrentInv, NotNewer
  <2> QED
    BY <1>3, <2>3, <2>4, <2>5 DEF SampleRead
<1>4. ASSUME NEW p \in Samplers, SamplePublish(p)
      PROVE  CurrentInv'
  <2>1. /\ samp[p] = "publish" /\ samp' = [samp EXCEPT ![p] = "none"]
        /\ sample' = [sample EXCEPT ![p] = [of |-> 0, val |-> NoSample]]
        /\ UNCHANGED <<controller, newest>>
    BY <1>4 DEF SamplePublish
  <2>2. Awaited' = Awaited \ {p} /\ \A q \in Awaited' : sample'[q] = sample[q]
    BY <2>1 DEF Awaited, AdaptTypeOK
  <2>3. CASE sample[p].of = controller
    <3>1. p \in Awaited /\ snapshot' = Published(p)
      BY <1>4, <2>1, <2>3 DEF SamplePublish, SampleEnds, Awaited
    <3>2. NotNewer(sample[p].val, newest) /\ NotNewer(snapshot, newest)
      BY <3>1 DEF CurrentInv
    <3>3. NotNewer(snapshot', newest)
      BY <3>1, <3>2 DEF Published
    <3>4. sample[p].val = newest \/ snapshot = newest => snapshot' = newest
      BY <1>0, <3>1, <3>2 DEF Published, NotNewer
    <3> QED
      BY <2>1, <2>2, <3>3, <3>4 DEF CurrentInv, NotNewer
  <2>4. CASE sample[p].of # controller
    <3>1. p \notin Awaited /\ snapshot' = snapshot
      BY <1>4, <2>4 DEF SamplePublish, Awaited
    <3> QED
      BY <2>1, <2>2, <3>1 DEF CurrentInv, NotNewer
  <2> QED
    BY <2>3, <2>4
<1>5. ASSUME NEW p \in Samplers, EnableAdaptiveMemory(p)
      PROVE  CurrentInv'
  <2>1. /\ controller' = controller + 1 /\ newest' = NoSample /\ snapshot' = NoSample
        /\ samp' = [samp EXCEPT ![p] = "due"] /\ sample' = sample
    BY <1>5 DEF EnableAdaptiveMemory
  <2>2. Awaited' = {}
    BY <2>1 DEF Awaited, AdaptTypeOK, SampleInv
  <2> QED
    BY <2>1, <2>2 DEF CurrentInv, NotNewer
<1> QED
  BY <1>1, <1>2, <1>3, <1>4, <1>5 DEF SampleStep

(* Admission works with the newest sample: whenever none is in flight, the *)
(* sample in force is the latest of the current controller, in whatever    *)
(* order its samples and those of replaced controllers completed           *)
(* (refreshAdaptiveCapacity, enableAdaptiveMemory).                        *)
THEOREM CapacitySampleCurrent == Spec => []SampleCurrent
<1>1. Init => CurrentInv
  BY DEF Init, CurrentInv, Awaited, NotNewer
<1>2. CapacityInv /\ CurrentInv /\ [Next]_vars => CurrentInv'
  <2> SUFFICES ASSUME CapacityInv, CurrentInv, [Next]_vars PROVE CurrentInv'
    OBVIOUS
  <2>1. Types /\ QueueInv /\ DialInv /\ SampleInv
    BY DEF CapacityInv
  <2>2. AdaptTypeOK /\ SampleStep
    BY <2>1, Footprint DEF Types
  <2> QED
    BY <2>1, <2>2, CurrentNext
<1>3. CapacityInv /\ CurrentInv => SampleCurrent
  <2> SUFFICES ASSUME CapacityInv, CurrentInv, sampling = 0 PROVE snapshot = newest
    BY DEF SampleCurrent
  <2>1. Announced = {}
    BY FS_EmptySet DEF CapacityInv, SampleInv
  <2>2. Awaited = {}
    BY <2>1 DEF Awaited, Announced
  <2> QED
    BY <2>2 DEF CurrentInv
<1> QED
  BY <1>1, <1>2, <1>3, CapacityInvHolds, PTL DEF Spec
=============================================================================
