---------------------------- MODULE TuiTilesProofs ----------------------------
(***************************************************************************)
(* Proofs about the tiles of the TUI, for any lists, filters, hosts and    *)
(* any bound on what is in flight.  The Docker tile: a confirmed action is *)
(* the one that was asked for and is told once; log streams follow the     *)
(* view; a stale list is overtaken.  The list tiles: the cursor stays on   *)
(* its row and clicks hit what is drawn.                                   *)
(* The logs view: its transcript is what the container wrote, for any cap, *)
(* window and chunks.                                                      *)
(***************************************************************************)
EXTENDS TuiDocker, TuiLists, DockerLogs, FiniteSetTheorems, SequenceTheorems,
        WellFoundedInduction, TLAPS

-----------------------------------------------------------------------------
(* Filtered rows.                                                          *)

UpTo(I, k) == {j \in I : j <= k}

\* Up to i there is one place more than up to i - 1, or as many.
LEMMA PlacesUpTo ==
    ASSUME NEW n \in Nat, NEW I \in SUBSET (1 .. n)
    PROVE  /\ \A k \in 0 .. n : Cardinality(UpTo(I, k)) \in Nat
           /\ Cardinality(UpTo(I, 0)) = 0 /\ UpTo(I, n) = I
           /\ \A i \in 1 .. n : Cardinality(UpTo(I, i))
                 = Cardinality(UpTo(I, i - 1)) + (IF i \in I THEN 1 ELSE 0)
<1>1. IsFiniteSet(1 .. n)
  BY FS_Interval
<1>2. IsFiniteSet(I)
  BY <1>1, FS_Subset
<1>3. ASSUME NEW k \in 0 .. n
      PROVE  IsFiniteSet(UpTo(I, k)) /\ Cardinality(UpTo(I, k)) \in Nat
  <2>1. UpTo(I, k) \in SUBSET I
    BY DEF UpTo
  <2>2. IsFiniteSet(UpTo(I, k))
    BY <1>2, <2>1, FS_Subset
  <2>3. QED
    BY <2>2, FS_CardinalityType
<1>4. \A j \in I : j \in Int /\ j >= 1 /\ j <= n
  <2>1. \A j \in 1 .. n : j \in Int /\ j >= 1 /\ j <= n
    OBVIOUS
  <2>2. QED
    BY <2>1
<1>5. UpTo(I, 0) = {} /\ UpTo(I, n) = I
  <2>1. \A j \in I : ~(j <= 0) /\ j <= n
    BY <1>4
  <2>2. QED
    BY <2>1, Zenon DEF UpTo
<1>6. Cardinality(UpTo(I, 0)) = 0
  BY <1>5, FS_EmptySet
<1>7. ASSUME NEW i \in 1 .. n
      PROVE  Cardinality(UpTo(I, i)) = Cardinality(UpTo(I, i - 1)) + (IF i \in I THEN 1 ELSE 0)
  <2>1. i - 1 \in 0 .. n
    OBVIOUS
  <2>2. CASE i \in I
    <3>1. UpTo(I, i) = UpTo(I, i - 1) \cup {i} /\ i \notin UpTo(I, i - 1)
      <4>1. \A j \in I : j <= i <=> j <= i - 1 \/ j = i
        BY <1>4
      <4>2. ~(i <= i - 1) /\ i <= i
        OBVIOUS
      <4>3. QED
        BY <2>2, <4>1, <4>2, Zenon DEF UpTo
    <3>2. IsFiniteSet(UpTo(I, i - 1))
      BY <1>3, <2>1
    <3>3. Cardinality(UpTo(I, i - 1) \cup {i}) = Cardinality(UpTo(I, i - 1)) + 1
      BY <3>1, <3>2, FS_AddElement
    <3>4. QED
      BY <2>2, <3>1, <3>3
  <2>3. CASE i \notin I
    <3>1. \A j \in I : j <= i <=> j <= i - 1
      BY <1>4, <2>3
    <3>2. UpTo(I, i) = UpTo(I, i - 1)
      BY <3>1 DEF UpTo
    <3>3. Cardinality(UpTo(I, i - 1)) \in Nat
      BY <1>3, <2>1
    <3>4. QED
      BY <2>3, <3>2, <3>3
  <2>4. QED
    BY <2>2, <2>3
<1>8. QED
  BY <1>3, <1>5, <1>6, <1>7

\* A set of naturals that is not empty has a least element.
LEMMA LeastOf ==
    ASSUME NEW N \in SUBSET Nat, N # {}
    PROVE  \E m \in N : \A k \in N : ~(k < m)
<1>1. PICK m \in N : \A k \in N : <<k, m>> \notin OpToRel(<, Nat)
  BY WFMin, NatLessThanWellFounded, Zenon
<1>2. QED
  BY <1>1, Zenon DEF OpToRel

\* Every rank up to the number of places is that of a place.
LEMMA KthOfPlaces ==
    ASSUME NEW n \in Nat, NEW I \in SUBSET (1 .. n), NEW k \in 1 .. Cardinality(I)
    PROVE  KthOf(I, k) \in I /\ Cardinality(UpTo(I, KthOf(I, k))) = k
<1> DEFINE N == {i \in 1 .. n : Cardinality(UpTo(I, i)) >= k}
<1>1. /\ \A i \in 0 .. n : Cardinality(UpTo(I, i)) \in Nat
      /\ Cardinality(UpTo(I, 0)) = 0 /\ UpTo(I, n) = I
      /\ \A i \in 1 .. n : Cardinality(UpTo(I, i))
            = Cardinality(UpTo(I, i - 1)) + (IF i \in I THEN 1 ELSE 0)
  BY PlacesUpTo
<1>2. Cardinality(I) \in Nat /\ k \in Int /\ k >= 1 /\ k <= Cardinality(I)
  <2>1. n \in 0 .. n
    OBVIOUS
  <2>2. QED
    BY <1>1, <2>1
<1>3. n \in 1 .. n
  BY <1>1, <1>2
<1>4. n \in N /\ N \in SUBSET Nat
  BY <1>1, <1>2, <1>3
<1>5. PICK i \in N : \A j \in N : ~(j < i)
  BY <1>4, LeastOf
<1>6. i \in 1 .. n /\ i - 1 \in 0 .. n /\ Cardinality(UpTo(I, i)) >= k
  OBVIOUS
<1>7. Cardinality(UpTo(I, i - 1)) \in Nat
  BY <1>1, <1>6
<1>8. Cardinality(UpTo(I, i - 1)) < k
  <2>1. CASE i = 1
    BY <1>1, <1>2, <2>1
  <2>2. CASE i # 1
    <3>1. i - 1 \in 1 .. n /\ i - 1 < i
      BY <1>6, <2>2
    <3>2. i - 1 \notin N
      BY <1>5, <3>1
    <3>3. QED
      BY <1>2, <1>7, <3>1, <3>2
  <2>3. QED
    BY <2>1, <2>2
<1>9. Cardinality(UpTo(I, i)) = Cardinality(UpTo(I, i - 1)) + (IF i \in I THEN 1 ELSE 0)
  BY <1>1, <1>6
<1>10. i \in I /\ Cardinality(UpTo(I, i)) = k
  <2>1. ~(Cardinality(UpTo(I, i - 1)) >= k)
    BY <1>2, <1>7, <1>8
  <2>2. i \in I
    BY <1>6, <1>7, <1>9, <2>1
  <2>3. QED
    BY <1>2, <1>6, <1>7, <1>8, <1>9, <2>2
<1>11. QED
  BY <1>10 DEF KthOf, UpTo

\* Filtered rows are a list of rows that pass, no longer than the whole.
LEMMA FilteredAreRows ==
    ASSUME NEW S, NEW rows \in Seq(S), NEW P
    PROVE  /\ FilterRows(rows, P) \in Seq(S)
           /\ \A k \in DOMAIN FilterRows(rows, P) :
                 FilterRows(rows, P)[k] \in Range(rows) \cap P
           /\ rows = <<>> => FilterRows(rows, P) = <<>>
<1> DEFINE I == PlacesOf(rows, P)
           n == Cardinality(I)
<1>1. Len(rows) \in Nat /\ DOMAIN rows = 1 .. Len(rows) /\ I \in SUBSET (1 .. Len(rows))
  BY DEF PlacesOf
<1>2. n \in Nat
  <2>1. IsFiniteSet(1 .. Len(rows))
    BY <1>1, FS_Interval
  <2>2. IsFiniteSet(I)
    BY <1>1, <2>1, FS_Subset
  <2>3. QED
    BY <2>2, FS_CardinalityType
<1>3. \A k \in 1 .. n : KthOf(I, k) \in I
  BY <1>1, KthOfPlaces
<1>4. \A i \in I : rows[i] \in S \cap P /\ rows[i] \in Range(rows)
  BY <1>1 DEF PlacesOf, Range
<1> HIDE DEF I
<1>5. FilterRows(rows, P) = [k \in 1 .. n |-> rows[KthOf(I, k)]]
  BY DEF FilterRows, I
<1> HIDE DEF n
<1>6. FilterRows(rows, P) \in [1 .. n -> S]
  BY <1>3, <1>4, <1>5
<1>7. FilterRows(rows, P) \in Seq(S)
  BY <1>2, <1>6
<1>8. \A k \in DOMAIN FilterRows(rows, P) : FilterRows(rows, P)[k] \in Range(rows) \cap P
  BY <1>3, <1>4, <1>5
<1>9. ASSUME rows = <<>> PROVE FilterRows(rows, P) = <<>>
  <2>1. I = {}
    BY <1>1, <1>9
  <2>2. n = 0
    BY <2>1, FS_EmptySet DEF n
  <2>3. DOMAIN FilterRows(rows, P) = 1 .. 0
    BY <1>5, <2>2
  <2>4. QED
    BY <1>7, <2>3
<1>10. QED
  BY <1>7, <1>8, <1>9

\* SetToSeq lists the elements of a finite set, each once.
LEMMA SetToSeqLists ==
    ASSUME NEW S, IsFiniteSet(S)
    PROVE  /\ SetToSeq(S) \in Seq(S) /\ Range(SetToSeq(S)) = S
           /\ \A i, j \in DOMAIN SetToSeq(S) : i # j => SetToSeq(S)[i] # SetToSeq(S)[j]
<1> DEFINE n == Cardinality(S)
<1>1. n \in Nat /\ ExistsBijection(1 .. n, S)
  BY FS_CardinalityType
<1>2. PICK f \in Bijection(1 .. n, S) : TRUE
  BY <1>1 DEF ExistsBijection
<1>3. f \in [1 .. n -> S] /\ IsInjective(f)
  BY <1>2 DEF Bijection, Injection
<1> DEFINE q == SetToSeq(S)
<1>4. q \in [1 .. n -> S] /\ IsInjective(q)
  BY <1>3 DEF SetToSeq
<1>5. q \in Injection(1 .. n, S)
  BY <1>4 DEF Injection
<1>6. IsFiniteSet(1 .. n) /\ Cardinality(1 .. n) = n
  BY <1>1, FS_Interval
<1>7. q \in Surjection(1 .. n, S)
  BY <1>5, <1>6, FS_Injection
<1>8. Range(q) = S
  BY <1>4, <1>7 DEF Surjection, Range
<1>9. QED
  BY <1>1, <1>4, <1>8 DEF IsInjective

-----------------------------------------------------------------------------
(* Queues.                                                                 *)

\* What is appended is in the queue with everything that was.
LEMMA AppendRange ==
    ASSUME NEW S, NEW q \in Seq(S), NEW m \in S
    PROVE  /\ Append(q, m) \in Seq(S) /\ Len(Append(q, m)) = Len(q) + 1
           /\ Append(q, m)[Len(q) + 1] = m
           /\ \A i \in DOMAIN q : Append(q, m)[i] = q[i]
           /\ Range(Append(q, m)) = Range(q) \cup {m}
<1>1. /\ Append(q, m) \in Seq(S) /\ Len(Append(q, m)) = Len(q) + 1
      /\ Append(q, m)[Len(q) + 1] = m
      /\ \A i \in DOMAIN q : Append(q, m)[i] = q[i]
  OBVIOUS
<1>2. DOMAIN Append(q, m) = DOMAIN q \cup {Len(q) + 1}
  OBVIOUS
<1>3. Range(Append(q, m)) = Range(q) \cup {m}
  BY <1>1, <1>2 DEF Range
<1>4. QED
  BY <1>1, <1>3

\* Two queues joined hold what either held, in this order.
LEMMA JoinRange ==
    ASSUME NEW S, NEW q \in Seq(S), NEW r \in Seq(S)
    PROVE  /\ q \o r \in Seq(S) /\ Len(q \o r) = Len(q) + Len(r)
           /\ \A i \in 1 .. Len(q) : (q \o r)[i] = q[i]
           /\ \A i \in 1 .. Len(r) : (q \o r)[Len(q) + i] = r[i]
           /\ Range(q \o r) = Range(q) \cup Range(r)
<1>1. /\ q \o r \in Seq(S) /\ Len(q \o r) = Len(q) + Len(r)
      /\ \A i \in 1 .. Len(q) : (q \o r)[i] = q[i]
      /\ \A i \in 1 .. Len(r) : (q \o r)[Len(q) + i] = r[i]
  OBVIOUS
<1>2. DOMAIN q = 1 .. Len(q) /\ DOMAIN r = 1 .. Len(r) /\ DOMAIN (q \o r) = 1 .. Len(q) + Len(r)
  BY <1>1
<1>3. Range(q \o r) \subseteq Range(q) \cup Range(r)
  <2>1. SUFFICES ASSUME NEW i \in 1 .. Len(q) + Len(r)
                 PROVE  (q \o r)[i] \in Range(q) \cup Range(r)
    BY <1>2 DEF Range
  <2>2. CASE i \in 1 .. Len(q)
    BY <1>1, <1>2, <2>2 DEF Range
  <2>3. CASE i \notin 1 .. Len(q)
    <3>1. i - Len(q) \in 1 .. Len(r) /\ Len(q) + (i - Len(q)) = i
      BY <2>3
    <3>2. (q \o r)[i] = r[i - Len(q)]
      BY <1>1, <3>1
    <3>3. QED
      BY <1>2, <3>1, <3>2 DEF Range
  <2>4. QED
    BY <2>2, <2>3
<1>4. Range(q) \subseteq Range(q \o r)
  BY <1>1, <1>2 DEF Range
<1>5. Range(r) \subseteq Range(q \o r)
  <2>1. \A i \in 1 .. Len(r) : Len(q) + i \in 1 .. Len(q) + Len(r)
    OBVIOUS
  <2>2. QED
    BY <1>1, <1>2, <2>1 DEF Range
<1>6. QED
  BY <1>1, <1>3, <1>4, <1>5

\* What is taken was in the queue, and the rest stays.
LEMMA TailRange ==
    ASSUME NEW S, NEW q \in Seq(S), q # <<>>
    PROVE  /\ Tail(q) \in Seq(S) /\ Len(Tail(q)) = Len(q) - 1 /\ Len(q) > 0
           /\ Head(q) = q[1] /\ Head(q) \in S /\ Head(q) \in Range(q)
           /\ \A i \in 1 .. Len(q) - 1 : Tail(q)[i] = q[i + 1] /\ i + 1 \in 1 .. Len(q)
           /\ Range(Tail(q)) \subseteq Range(q)
           /\ Range(q) = Range(Tail(q)) \cup {Head(q)}
<1>1. /\ Tail(q) \in Seq(S) /\ Len(Tail(q)) = Len(q) - 1 /\ Len(q) > 0
      /\ Head(q) = q[1] /\ Head(q) \in S
      /\ \A i \in 1 .. Len(q) - 1 : Tail(q)[i] = q[i + 1] /\ i + 1 \in 1 .. Len(q)
  OBVIOUS
<1>2. DOMAIN q = 1 .. Len(q) /\ DOMAIN Tail(q) = 1 .. Len(q) - 1
  BY <1>1
<1>3. Range(Tail(q)) \subseteq Range(q) /\ Head(q) \in Range(q)
  BY <1>1, <1>2 DEF Range
<1>4. Range(q) \subseteq Range(Tail(q)) \cup {Head(q)}
  <2>1. SUFFICES ASSUME NEW i \in 1 .. Len(q), i # 1
                 PROVE  q[i] \in Range(Tail(q))
    BY <1>1, <1>2 DEF Range
  <2>2. i - 1 \in 1 .. Len(q) - 1 /\ (i - 1) + 1 = i
    BY <2>1
  <2>3. q[i] = Tail(q)[i - 1]
    BY <1>1, <2>2
  <2>4. QED
    BY <1>2, <2>2, <2>3 DEF Range
<1>5. QED
  BY <1>1, <1>3, <1>4

\* The ids that the messages of type t in a queue carry.
IdsOf(q, t) == {m.id : m \in {n \in Range(q) : n.t = t}}

\* No two messages of type t carry the same id.
Distinct(q, t) == \A i, j \in DOMAIN q : i # j /\ q[i].t = t /\ q[j].t = t => q[i].id # q[j].id

LEMMA AppendIds ==
    ASSUME NEW S, NEW q \in Seq(S), NEW m \in S
    PROVE  \A t : /\ m.t = t => IdsOf(Append(q, m), t) = IdsOf(q, t) \cup {m.id}
                  /\ m.t # t => IdsOf(Append(q, m), t) = IdsOf(q, t)
<1>1. Range(Append(q, m)) = Range(q) \cup {m}
  BY AppendRange
<1>2. QED
  BY <1>1 DEF IdsOf

LEMMA JoinIds ==
    ASSUME NEW S, NEW q \in Seq(S), NEW r \in Seq(S)
    PROVE  \A t : IdsOf(q \o r, t) = IdsOf(q, t) \cup IdsOf(r, t)
<1>1. Range(q \o r) = Range(q) \cup Range(r)
  BY JoinRange
<1>2. QED
  BY <1>1 DEF IdsOf

LEMMA TailIds ==
    ASSUME NEW S, NEW q \in Seq(S), q # <<>>
    PROVE  \A t : /\ Head(q).t = t => IdsOf(q, t) = IdsOf(Tail(q), t) \cup {Head(q).id}
                  /\ Head(q).t # t => IdsOf(q, t) = IdsOf(Tail(q), t)
<1>1. Range(q) = Range(Tail(q)) \cup {Head(q)}
  BY TailRange
<1>2. QED
  BY <1>1 DEF IdsOf

LEMMA AppendDistinct ==
    ASSUME NEW S, NEW q \in Seq(S), NEW m \in S, NEW t, Distinct(q, t),
           m.t = t => m.id \notin IdsOf(q, t)
    PROVE  Distinct(Append(q, m), t)
<1> DEFINE p == Append(q, m)
<1>1. /\ p[Len(q) + 1] = m /\ \A i \in DOMAIN q : p[i] = q[i]
      /\ DOMAIN q = 1 .. Len(q) /\ DOMAIN p = 1 .. Len(q) + 1 /\ Len(q) \in Nat
  BY AppendRange
<1> HIDE DEF p
<1>2. \A i \in DOMAIN p : i \in DOMAIN q \/ i = Len(q) + 1
  BY <1>1
<1>3. \A i \in DOMAIN q : q[i].t = t => q[i].id \in IdsOf(q, t)
  BY DEF IdsOf, Range
<1>4. SUFFICES ASSUME NEW i \in DOMAIN p, NEW j \in DOMAIN p, i # j, p[i].t = t, p[j].t = t
               PROVE  p[i].id # p[j].id
  BY DEF Distinct, p
<1>5. CASE i \in DOMAIN q /\ j \in DOMAIN q
  BY <1>1, <1>4, <1>5 DEF Distinct
<1>6. CASE i \in DOMAIN q /\ j = Len(q) + 1
  BY <1>1, <1>3, <1>4, <1>6
<1>7. CASE j \in DOMAIN q /\ i = Len(q) + 1
  BY <1>1, <1>3, <1>4, <1>7
<1>8. QED
  BY <1>2, <1>4, <1>5, <1>6, <1>7

LEMMA JoinDistinct ==
    ASSUME NEW S, NEW q \in Seq(S), NEW r \in Seq(S), NEW t, Distinct(q, t), Distinct(r, t),
           \A i \in IdsOf(q, t) : i \notin IdsOf(r, t)
    PROVE  Distinct(q \o r, t)
<1> DEFINE p == q \o r
<1>1. /\ \A i \in 1 .. Len(q) : p[i] = q[i]
      /\ \A i \in 1 .. Len(r) : p[Len(q) + i] = r[i]
      /\ DOMAIN q = 1 .. Len(q) /\ DOMAIN r = 1 .. Len(r)
      /\ DOMAIN p = 1 .. Len(q) + Len(r) /\ Len(q) \in Nat /\ Len(r) \in Nat
  BY JoinRange
<1> HIDE DEF p
<1>2. \A i \in DOMAIN p : \/ i \in DOMAIN q
                          \/ i - Len(q) \in DOMAIN r /\ i = Len(q) + (i - Len(q))
  BY <1>1
<1>3. \A i \in DOMAIN p : \/ i \in DOMAIN q /\ p[i] = q[i]
                          \/ i - Len(q) \in DOMAIN r /\ p[i] = r[i - Len(q)]
  BY <1>1, <1>2
<1>4. /\ \A i \in DOMAIN q : q[i].t = t => q[i].id \in IdsOf(q, t)
      /\ \A i \in DOMAIN r : r[i].t = t => r[i].id \in IdsOf(r, t)
  BY DEF IdsOf, Range
<1>5. SUFFICES ASSUME NEW i \in DOMAIN p, NEW j \in DOMAIN p, i # j, p[i].t = t, p[j].t = t
               PROVE  p[i].id # p[j].id
  BY DEF Distinct, p
<1>6. CASE /\ i \in DOMAIN q /\ p[i] = q[i]
           /\ j \in DOMAIN q /\ p[j] = q[j]
  BY <1>5, <1>6 DEF Distinct
<1>7. CASE /\ i \in DOMAIN q /\ p[i] = q[i]
           /\ j - Len(q) \in DOMAIN r /\ p[j] = r[j - Len(q)]
  BY <1>4, <1>5, <1>7
<1>8. CASE /\ j \in DOMAIN q /\ p[j] = q[j]
           /\ i - Len(q) \in DOMAIN r /\ p[i] = r[i - Len(q)]
  BY <1>4, <1>5, <1>8
<1>9. CASE /\ i - Len(q) \in DOMAIN r /\ p[i] = r[i - Len(q)]
           /\ j - Len(q) \in DOMAIN r /\ p[j] = r[j - Len(q)]
  <2>1. i - Len(q) # j - Len(q)
    BY <1>1, <1>5
  <2>2. QED
    BY <1>5, <1>9, <2>1 DEF Distinct
<1>10. QED
  BY <1>3, <1>6, <1>7, <1>8, <1>9

LEMMA TailDistinct ==
    ASSUME NEW S, NEW q \in Seq(S), q # <<>>, NEW t, Distinct(q, t)
    PROVE  /\ Distinct(Tail(q), t)
           /\ Head(q).t = t => Head(q).id \notin IdsOf(Tail(q), t)
<1> DEFINE r == Tail(q)
<1>1. /\ Len(q) > 0 /\ Head(q) = q[1] /\ Len(q) \in Nat
      /\ \A i \in 1 .. Len(q) - 1 : r[i] = q[i + 1] /\ i + 1 \in 1 .. Len(q)
      /\ DOMAIN q = 1 .. Len(q) /\ DOMAIN r = 1 .. Len(q) - 1
  BY TailRange
<1> HIDE DEF r
<1>2. \A i \in DOMAIN r : i + 1 \in DOMAIN q /\ r[i] = q[i + 1] /\ i + 1 # 1 /\ i \in Int
  BY <1>1
<1>3. Distinct(r, t)
  <2>1. \A i, j \in DOMAIN r : i # j => i + 1 # j + 1
    BY <1>2
  <2>2. QED
    BY <1>2, <2>1 DEF Distinct
<1>4. ASSUME Head(q).t = t PROVE Head(q).id \notin IdsOf(r, t)
  <2>1. 1 \in DOMAIN q
    BY <1>1
  <2>2. \A i \in DOMAIN r : r[i].t = t => q[1].id # r[i].id
    BY <1>1, <1>2, <1>4, <2>1 DEF Distinct
  <2>3. QED
    BY <1>1, <2>2 DEF IdsOf, Range
<1>5. QED
  BY <1>3, <1>4 DEF r

\* No log stream is asked for after it was given up.
LogsFirst(q) ==
    \A i, j \in DOMAIN q : i < j /\ q[i].t = "unsub" /\ q[j].t = "logs" => q[i].id # q[j].id

LEMMA AppendLogsFirst ==
    ASSUME NEW S, NEW q \in Seq(S), NEW m \in S, LogsFirst(q),
           m.t = "logs" => m.id \notin IdsOf(q, "unsub")
    PROVE  LogsFirst(Append(q, m))
<1> DEFINE p == Append(q, m)
<1>1. /\ p[Len(q) + 1] = m /\ \A i \in DOMAIN q : p[i] = q[i]
      /\ DOMAIN q = 1 .. Len(q) /\ DOMAIN p = 1 .. Len(q) + 1 /\ Len(q) \in Nat
  BY AppendRange
<1> HIDE DEF p
<1>2. SUFFICES ASSUME NEW i \in DOMAIN p, NEW j \in DOMAIN p, i < j,
                      p[i].t = "unsub", p[j].t = "logs"
               PROVE  p[i].id # p[j].id
  BY DEF LogsFirst, p
<1>3. i \in DOMAIN q /\ p[i] = q[i]
  BY <1>1, <1>2
<1>4. CASE j \in DOMAIN q
  BY <1>1, <1>2, <1>3, <1>4 DEF LogsFirst
<1>5. CASE j = Len(q) + 1
  BY <1>1, <1>2, <1>3, <1>5 DEF IdsOf, Range
<1>6. QED
  BY <1>1, <1>4, <1>5

LEMMA JoinLogsFirst ==
    ASSUME NEW S, NEW q \in Seq(S), NEW r \in Seq(S), LogsFirst(q),
           \A m \in Range(r) : m.t # "logs"
    PROVE  LogsFirst(q \o r)
<1> DEFINE p == q \o r
<1>1. /\ \A i \in 1 .. Len(q) : p[i] = q[i]
      /\ \A i \in 1 .. Len(r) : p[Len(q) + i] = r[i]
      /\ DOMAIN q = 1 .. Len(q) /\ DOMAIN r = 1 .. Len(r)
      /\ DOMAIN p = 1 .. Len(q) + Len(r) /\ Len(q) \in Nat /\ Len(r) \in Nat
  BY JoinRange
<1> HIDE DEF p
<1>2. \A i \in DOMAIN p \ DOMAIN q : p[i].t # "logs"
  <2>1. TAKE i \in DOMAIN p \ DOMAIN q
  <2>2. i - Len(q) \in DOMAIN r /\ i = Len(q) + (i - Len(q))
    BY <1>1
  <2>3. p[i] = r[i - Len(q)]
    BY <1>1, <2>2
  <2>4. QED
    BY <2>2, <2>3 DEF Range
<1>3. SUFFICES ASSUME NEW i \in DOMAIN p, NEW j \in DOMAIN p, i < j,
                      p[i].t = "unsub", p[j].t = "logs"
               PROVE  p[i].id # p[j].id
  BY DEF LogsFirst, p
<1>4. j \in DOMAIN q
  BY <1>2, <1>3
<1>5. i \in DOMAIN q
  BY <1>1, <1>3, <1>4
<1>6. QED
  BY <1>1, <1>3, <1>4, <1>5 DEF LogsFirst

LEMMA TailLogsFirst ==
    ASSUME NEW S, NEW q \in Seq(S), q # <<>>, LogsFirst(q)
    PROVE  /\ LogsFirst(Tail(q))
           /\ Head(q).t = "unsub" => Head(q).id \notin IdsOf(Tail(q), "logs")
<1> DEFINE r == Tail(q)
<1>1. /\ Len(q) > 0 /\ Head(q) = q[1] /\ Len(q) \in Nat
      /\ \A i \in 1 .. Len(q) - 1 : r[i] = q[i + 1] /\ i + 1 \in 1 .. Len(q)
      /\ DOMAIN q = 1 .. Len(q) /\ DOMAIN r = 1 .. Len(q) - 1
  BY TailRange
<1> HIDE DEF r
<1>2. \A i \in DOMAIN r : i + 1 \in DOMAIN q /\ r[i] = q[i + 1] /\ 1 < i + 1 /\ i \in Int
  BY <1>1
<1>3. LogsFirst(r)
  <2>1. \A i, j \in DOMAIN r : i < j => i + 1 < j + 1
    BY <1>2
  <2>2. QED
    BY <1>2, <2>1 DEF LogsFirst
<1>4. ASSUME Head(q).t = "unsub" PROVE Head(q).id \notin IdsOf(r, "logs")
  <2>1. 1 \in DOMAIN q
    BY <1>1
  <2>2. \A i \in DOMAIN r : r[i].t = "logs" => q[1].id # r[i].id
    BY <1>1, <1>2, <1>4, <2>1 DEF LogsFirst
  <2>3. QED
    BY <1>1, <2>2 DEF IdsOf, Range
<1>5. QED
  BY <1>3, <1>4 DEF r

\* The list subscription is asked for host, or given up, somewhere in a queue.
IsSub(m, host) == m.t = "sub" /\ m.host = host
IsGivenUp(m) == m.t = "unsub" /\ m.id = ListSub
Asks(q, host) == \E m \in Range(q) : IsSub(m, host)
GivesUp(q) == \E m \in Range(q) : IsGivenUp(m)

\* Where it is given up it is asked for host after that; where it is asked for
\* another host it is given up after that.
EndsWith(q, host) ==
    \A i \in DOMAIN q :
        /\ IsGivenUp(q[i]) => \E j \in DOMAIN q : j > i /\ IsSub(q[j], host)
        /\ q[i].t = "sub" /\ q[i].host # host => \E j \in DOMAIN q : j > i /\ IsGivenUp(q[j])

LEMMA EndsWithAsks ==
    ASSUME NEW S, NEW q \in Seq(S), NEW host, EndsWith(q, host), GivesUp(q)
    PROVE  Asks(q, host)
<1>1. PICK i \in DOMAIN q : IsGivenUp(q[i])
  BY DEF GivesUp, Range
<1>2. PICK j \in DOMAIN q : IsSub(q[j], host)
  BY <1>1 DEF EndsWith
<1>3. QED
  BY <1>2 DEF Asks, Range

LEMMA AppendEndsWith ==
    ASSUME NEW S, NEW q \in Seq(S), NEW m \in S, NEW host, EndsWith(q, host),
           m.t \in {"act", "logs"} \/ (m.t = "unsub" /\ m.id # ListSub)
    PROVE  /\ EndsWith(Append(q, m), host)
           /\ \A h : Asks(Append(q, m), h) <=> Asks(q, h)
           /\ GivesUp(Append(q, m)) <=> GivesUp(q)
<1> DEFINE p == Append(q, m)
<1>1. /\ p[Len(q) + 1] = m /\ \A i \in DOMAIN q : p[i] = q[i]
      /\ DOMAIN q = 1 .. Len(q) /\ DOMAIN p = 1 .. Len(q) + 1 /\ Len(q) \in Nat
      /\ Range(p) = Range(q) \cup {m}
  BY AppendRange
<1> HIDE DEF p
<1>2. ~IsGivenUp(m) /\ m.t # "sub" /\ \A h : ~IsSub(m, h)
  BY DEF IsGivenUp, IsSub
<1>3. DOMAIN p = DOMAIN q \cup {Len(q) + 1}
  BY <1>1
<1>4. EndsWith(p, host)
  BY <1>1, <1>2, <1>3, Zenon DEF EndsWith
<1>5. /\ \A h : Asks(p, h) <=> Asks(q, h)
      /\ GivesUp(p) <=> GivesUp(q)
  BY <1>1, <1>2 DEF Asks, GivesUp
<1>6. QED
  BY <1>4, <1>5 DEF p

LEMMA TailEndsWith ==
    ASSUME NEW S, NEW q \in Seq(S), q # <<>>, NEW host, EndsWith(q, host)
    PROVE  /\ EndsWith(Tail(q), host)
           /\ IsGivenUp(Head(q)) => Asks(Tail(q), host)
           /\ Head(q).t = "sub" /\ Head(q).host # host => GivesUp(Tail(q))
           /\ \A h : Asks(q, h) /\ ~IsSub(Head(q), h) => Asks(Tail(q), h)
           /\ GivesUp(q) /\ ~IsGivenUp(Head(q)) => GivesUp(Tail(q))
<1> DEFINE r == Tail(q)
<1>1. /\ Len(q) > 0 /\ Head(q) = q[1] /\ Len(q) \in Nat
      /\ \A i \in 1 .. Len(q) - 1 : r[i] = q[i + 1] /\ i + 1 \in 1 .. Len(q)
      /\ DOMAIN q = 1 .. Len(q) /\ DOMAIN r = 1 .. Len(q) - 1
      /\ Range(q) = Range(r) \cup {Head(q)}
  BY TailRange
<1> HIDE DEF r
<1>2. \A i \in DOMAIN r : i + 1 \in DOMAIN q /\ r[i] = q[i + 1] /\ i \in Int
  BY <1>1
\* What is after place i of the queue is in the rest of it.
<1>3. \A i \in DOMAIN q : i > 1 => i - 1 \in DOMAIN r /\ q[i] = r[i - 1] /\ q[i] \in Range(r)
  <2>1. TAKE i \in DOMAIN q
  <2>2. HAVE i > 1
  <2>3. i - 1 \in 1 .. Len(q) - 1 /\ (i - 1) + 1 = i
    BY <1>1, <2>2
  <2>4. r[i - 1] = q[i] /\ i - 1 \in DOMAIN r
    BY <1>1, <2>3
  <2>5. QED
    BY <2>4 DEF Range
<1>4. EndsWith(r, host)
  <2>1. SUFFICES ASSUME NEW i \in DOMAIN r
                 PROVE  /\ IsGivenUp(r[i]) => \E j \in DOMAIN r : j > i /\ IsSub(r[j], host)
                        /\ r[i].t = "sub" /\ r[i].host # host
                              => \E j \in DOMAIN r : j > i /\ IsGivenUp(r[j])
    BY DEF EndsWith
  <2>2. i + 1 \in DOMAIN q /\ r[i] = q[i + 1] /\ i \in Int /\ i >= 1
    BY <1>1, <1>2
  <2>3. \A j \in DOMAIN q : j > i + 1 => j - 1 \in DOMAIN r /\ j - 1 > i /\ q[j] = r[j - 1]
    BY <1>1, <1>3, <2>2
  <2>4. /\ IsGivenUp(q[i + 1]) => \E j \in DOMAIN q : j > i + 1 /\ IsSub(q[j], host)
        /\ q[i + 1].t = "sub" /\ q[i + 1].host # host
              => \E j \in DOMAIN q : j > i + 1 /\ IsGivenUp(q[j])
    BY <2>2 DEF EndsWith
  <2>5. ASSUME IsGivenUp(r[i]) PROVE \E j \in DOMAIN r : j > i /\ IsSub(r[j], host)
    <3>1. PICK j \in DOMAIN q : j > i + 1 /\ IsSub(q[j], host)
      BY <2>2, <2>4, <2>5
    <3>2. QED
      BY <2>3, <3>1
  <2>6. ASSUME r[i].t = "sub", r[i].host # host
        PROVE  \E j \in DOMAIN r : j > i /\ IsGivenUp(r[j])
    <3>1. PICK j \in DOMAIN q : j > i + 1 /\ IsGivenUp(q[j])
      BY <2>2, <2>4, <2>6
    <3>2. QED
      BY <2>3, <3>1
  <2>7. QED
    BY <2>5, <2>6
<1>5. 1 \in DOMAIN q
  BY <1>1
<1>6. ASSUME IsGivenUp(Head(q)) PROVE Asks(r, host)
  <2>1. PICK j \in DOMAIN q : j > 1 /\ IsSub(q[j], host)
    BY <1>1, <1>5, <1>6 DEF EndsWith
  <2>2. QED
    BY <1>3, <2>1 DEF Asks
<1>7. ASSUME Head(q).t = "sub", Head(q).host # host PROVE GivesUp(r)
  <2>1. PICK j \in DOMAIN q : j > 1 /\ IsGivenUp(q[j])
    BY <1>1, <1>5, <1>7 DEF EndsWith
  <2>2. QED
    BY <1>3, <2>1 DEF GivesUp
<1>8. \A h : Asks(q, h) /\ ~IsSub(Head(q), h) => Asks(r, h)
  BY <1>1 DEF Asks
<1>9. GivesUp(q) /\ ~IsGivenUp(Head(q)) => GivesUp(r)
  BY <1>1 DEF GivesUp
<1>10. QED
  BY <1>4, <1>6, <1>7, <1>8, <1>9 DEF r

\* A retarget gives it up and asks for the new host last.
LEMMA RetargetEndsWith ==
    ASSUME NEW S, NEW q \in Seq(S), NEW a \in S, NEW b \in S, NEW host,
           IsGivenUp(a), IsSub(b, host)
    PROVE  LET p == Append(Append(q, a), b) IN EndsWith(p, host) /\ Asks(p, host)
<1> DEFINE u == Append(q, a)
           p == Append(u, b)
<1>1. /\ u[Len(q) + 1] = a /\ \A i \in DOMAIN q : u[i] = q[i]
      /\ Len(u) = Len(q) + 1 /\ Len(q) \in Nat /\ u \in Seq(S)
      /\ DOMAIN q = 1 .. Len(q) /\ DOMAIN u = 1 .. Len(q) + 1
  BY AppendRange
<1> HIDE DEF u
<1>2. /\ p[Len(u) + 1] = b /\ \A i \in DOMAIN u : p[i] = u[i]
      /\ DOMAIN p = 1 .. Len(u) + 1 /\ Range(p) = Range(u) \cup {b}
  BY <1>1, AppendRange
<1> HIDE DEF p
<1>3. Len(u) \in DOMAIN p /\ IsGivenUp(p[Len(u)])
  BY <1>1, <1>2
<1>4. Len(u) + 1 \in DOMAIN p /\ IsSub(p[Len(u) + 1], host)
  BY <1>1, <1>2
<1>5. \A i \in DOMAIN p : i < Len(u) \/ i = Len(u) \/ i = Len(u) + 1
  BY <1>1, <1>2
<1>6. ~IsGivenUp(b) /\ b.host = host /\ a.t # "sub"
  BY DEF IsGivenUp, IsSub
<1>7. ASSUME NEW i \in DOMAIN p
      PROVE  /\ IsGivenUp(p[i]) => \E j \in DOMAIN p : j > i /\ IsSub(p[j], host)
             /\ p[i].t = "sub" /\ p[i].host # host
                   => \E j \in DOMAIN p : j > i /\ IsGivenUp(p[j])
  <2>1. CASE i < Len(u)
    <3>1. i \in Int /\ Len(u) \in Int /\ Len(u) + 1 > i /\ Len(u) > i
      BY <1>1, <1>2, <2>1
    <3>2. QED
      BY <1>3, <1>4, <3>1
  <2>2. CASE i = Len(u)
    <3>1. p[i] = a /\ Len(u) + 1 > i
      BY <1>1, <1>2, <2>2
    <3>2. QED
      BY <1>4, <1>6, <3>1
  <2>3. CASE i = Len(u) + 1
    BY <1>2, <1>6, <2>3
  <2>4. QED
    BY <1>5, <2>1, <2>2, <2>3
<1>8. EndsWith(p, host)
  BY <1>7 DEF EndsWith
<1>9. Asks(p, host)
  BY <1>2 DEF Asks
<1>10. QED
  BY <1>8, <1>9 DEF p, u

\* What the daemon says of a host's list.
Tells(m) == m.t \in {"list", "gone"}
IsAnswer(m, host) == Tells(m) /\ m.host = host
IsAnswered(q, host) == \E m \in Range(q) : IsAnswer(m, host)

\* Whatever is said of another host, host's answer comes after it; but for what a
\* local forwarder says after its abort.
Overtaken(q, host) ==
    \A i \in DOMAIN q : Tells(q[i]) /\ q[i].host \notin {host, Aborted}
        => \E j \in DOMAIN q : j > i /\ IsAnswer(q[j], host)

LEMMA AppendOvertaken ==
    ASSUME NEW S, NEW q \in Seq(S), NEW m \in S, NEW host
    PROVE  /\ IsAnswered(q, host) => IsAnswered(Append(q, m), host)
           /\ IsAnswer(m, host) => Overtaken(Append(q, m), host) /\ IsAnswered(Append(q, m), host)
           /\ Overtaken(q, host) /\ (~Tells(m) \/ m.host = Aborted)
                 => Overtaken(Append(q, m), host)
<1> DEFINE p == Append(q, m)
<1>1. /\ p[Len(q) + 1] = m /\ \A i \in DOMAIN q : p[i] = q[i]
      /\ DOMAIN q = 1 .. Len(q) /\ DOMAIN p = 1 .. Len(q) + 1 /\ Len(q) \in Nat
      /\ Range(p) = Range(q) \cup {m}
  BY AppendRange
<1> HIDE DEF p
<1>2. IsAnswered(q, host) => IsAnswered(p, host)
  BY <1>1 DEF IsAnswered
<1>3. ASSUME IsAnswer(m, host) PROVE Overtaken(p, host) /\ IsAnswered(p, host)
  <2>1. Len(q) + 1 \in DOMAIN p /\ IsAnswer(p[Len(q) + 1], host)
    BY <1>1, <1>3
  <2>2. \A i \in DOMAIN p : i = Len(q) + 1 \/ Len(q) + 1 > i
    BY <1>1
  <2>3. Overtaken(p, host)
    BY <2>1, <2>2 DEF Overtaken, IsAnswer
  <2>4. QED
    BY <1>1, <1>3, <2>3 DEF IsAnswered
<1>4. ASSUME Overtaken(q, host), ~Tells(m) \/ m.host = Aborted PROVE Overtaken(p, host)
  <2>1. DOMAIN p = DOMAIN q \cup {Len(q) + 1}
    BY <1>1
  <2>2. QED
    BY <1>1, <1>4, <2>1, Zenon DEF Overtaken
<1>5. QED
  BY <1>2, <1>3, <1>4 DEF p

LEMMA JoinOvertaken ==
    ASSUME NEW S, NEW q \in Seq(S), NEW r \in Seq(S), NEW host,
           \A m \in Range(r) : ~Tells(m)
    PROVE  /\ IsAnswered(q, host) => IsAnswered(q \o r, host)
           /\ Overtaken(q, host) => Overtaken(q \o r, host)
<1> DEFINE p == q \o r
<1>1. /\ \A i \in 1 .. Len(q) : p[i] = q[i]
      /\ \A i \in 1 .. Len(r) : p[Len(q) + i] = r[i]
      /\ DOMAIN q = 1 .. Len(q) /\ DOMAIN r = 1 .. Len(r)
      /\ DOMAIN p = 1 .. Len(q) + Len(r) /\ Len(q) \in Nat /\ Len(r) \in Nat
      /\ Range(p) = Range(q) \cup Range(r)
  BY JoinRange
<1> HIDE DEF p
<1>2. \A i \in DOMAIN p \ DOMAIN q : ~Tells(p[i])
  <2>1. TAKE i \in DOMAIN p \ DOMAIN q
  <2>2. i - Len(q) \in DOMAIN r /\ i = Len(q) + (i - Len(q))
    BY <1>1
  <2>3. p[i] = r[i - Len(q)]
    BY <1>1, <2>2
  <2>4. QED
    BY <2>2, <2>3 DEF Range
<1>3. \A i \in DOMAIN q : i \in DOMAIN p /\ p[i] = q[i]
  BY <1>1
<1>4. Overtaken(q, host) => Overtaken(p, host)
  BY <1>2, <1>3, Zenon DEF Overtaken
<1>5. IsAnswered(q, host) => IsAnswered(p, host)
  BY <1>1 DEF IsAnswered
<1>6. QED
  BY <1>4, <1>5 DEF p

LEMMA TailOvertaken ==
    ASSUME NEW S, NEW q \in Seq(S), q # <<>>, NEW host
    PROVE  /\ Overtaken(q, host) => Overtaken(Tail(q), host)
           /\ Overtaken(q, host) /\ Tells(Head(q)) /\ Head(q).host \notin {host, Aborted}
                 => IsAnswered(Tail(q), host)
           /\ IsAnswered(q, host) /\ ~IsAnswer(Head(q), host) => IsAnswered(Tail(q), host)
<1> DEFINE r == Tail(q)
<1>1. /\ Len(q) > 0 /\ Head(q) = q[1] /\ Len(q) \in Nat
      /\ \A i \in 1 .. Len(q) - 1 : r[i] = q[i + 1] /\ i + 1 \in 1 .. Len(q)
      /\ DOMAIN q = 1 .. Len(q) /\ DOMAIN r = 1 .. Len(q) - 1
      /\ Range(q) = Range(r) \cup {Head(q)}
  BY TailRange
<1> HIDE DEF r
<1>2. \A i \in DOMAIN r : i + 1 \in DOMAIN q /\ r[i] = q[i + 1] /\ i \in Int
  BY <1>1
<1>3. \A i \in DOMAIN q : i > 1 => i - 1 \in DOMAIN r /\ q[i] = r[i - 1] /\ q[i] \in Range(r)
  <2>1. TAKE i \in DOMAIN q
  <2>2. HAVE i > 1
  <2>3. i - 1 \in 1 .. Len(q) - 1 /\ (i - 1) + 1 = i
    BY <1>1, <2>2
  <2>4. r[i - 1] = q[i] /\ i - 1 \in DOMAIN r
    BY <1>1, <2>3
  <2>5. QED
    BY <2>4 DEF Range
<1>4. ASSUME Overtaken(q, host) PROVE Overtaken(r, host)
  <2>1. SUFFICES ASSUME NEW i \in DOMAIN r, Tells(r[i]), r[i].host \notin {host, Aborted}
                 PROVE  \E j \in DOMAIN r : j > i /\ IsAnswer(r[j], host)
    BY DEF Overtaken
  <2>2. i + 1 \in DOMAIN q /\ r[i] = q[i + 1] /\ i \in Int /\ i >= 1
    BY <1>1, <1>2
  <2>3. \A j \in DOMAIN q : j > i + 1 => j - 1 \in DOMAIN r /\ j - 1 > i /\ q[j] = r[j - 1]
    BY <1>1, <1>3, <2>2
  <2>4. PICK j \in DOMAIN q : j > i + 1 /\ IsAnswer(q[j], host)
    BY <1>4, <2>1, <2>2 DEF Overtaken
  <2>5. QED
    BY <2>3, <2>4
<1>5. ASSUME Overtaken(q, host), Tells(Head(q)), Head(q).host \notin {host, Aborted}
      PROVE  IsAnswered(r, host)
  <2>1. 1 \in DOMAIN q
    BY <1>1
  <2>2. PICK j \in DOMAIN q : j > 1 /\ IsAnswer(q[j], host)
    BY <1>1, <1>5, <2>1 DEF Overtaken
  <2>3. QED
    BY <1>3, <2>2 DEF IsAnswered
<1>6. IsAnswered(q, host) /\ ~IsAnswer(Head(q), host) => IsAnswered(r, host)
  BY <1>1 DEF IsAnswered
<1>7. QED
  BY <1>4, <1>5, <1>6 DEF r

-----------------------------------------------------------------------------
(* The inductive invariant of the Docker tile.                             *)

Prompts == [kind : {"remove"}, c : Containers, host : Hosts]
LogsViews == [c : Containers, sub : Ids, ended : BOOLEAN]
Tasks == [id : Ids, host : Hosts]

SubRec == [t : {"sub"}, id : {ListSub}, host : Hosts]
UnsubRec == [t : {"unsub"}, id : {ListSub} \cup Ids]
LogsRec == [t : {"logs"}, id : Ids, host : Hosts]
ActRec == [t : {"act"}, id : Ids, host : Hosts, kind : {"stop", "remove", "reconnect"},
           c : {0} \cup Containers, asked : SUBSET Prompts]
CommandRec == SubRec \cup UnsubRec \cup LogsRec \cup ActRec

\* Who speaks of the list: a host, or a local forwarder after its abort.
Speakers == Hosts \cup {Aborted}
ListRec == [t : {"list"}, host : Speakers, rows : Lists]
GoneRec == [t : {"gone"}, host : Speakers]
EndRec == [t : {"end"}, id : Ids]
ResultRec == [t : {"result"}, id : Ids]
HostRec == [t : {"host"}, host : Hosts \ {Local}, up : BOOLEAN]
EventRec == ListRec \cup GoneRec \cup EndRec \cup ResultRec \cup HostRec

AtMostOne(S) == \A x, y \in S : x = y

\* A cursor that is on a row if there is one.
CursorOn(s, rows, f) ==
    s \in Nat \ {0} /\ (Visible(rows, f) # <<>> => s \in DOMAIN Visible(rows, f))

\* The tile by itself.  A prompt is about the current target: a retarget cancels it.
TileKept ==
    /\ focus \in {"docker", "other"} /\ target \in Hosts /\ typing \in BOOLEAN
    /\ shown \in [st : {"connecting", "available", "unavailable"}, host : Speakers,
                  rows : Lists \cup {<<>>}]
    /\ filter \in Filters /\ CursorOn(sel, shown.rows, filter)
    /\ picker \in {{}} \cup {{h} : h \in Hosts} /\ usable \subseteq Hosts \ {Local}
    /\ confirm \subseteq Prompts /\ AtMostOne(confirm) /\ \A p \in confirm : p.host = target
    /\ logs \subseteq LogsViews /\ AtMostOne(logs)

\* What is in flight and what the daemon does for this client.
WireKept ==
    /\ up \in Seq(CommandRec) /\ down \in Seq(EventRec)
    /\ nextId \in 1 .. MaxId + 1 /\ pending \subseteq Ids
    /\ lists \subseteq Hosts /\ late \in BOOLEAN
    /\ agents \subseteq Hosts \ {Local} /\ deaf \subseteq Hosts \ {Local}
    /\ streams \subseteq Tasks /\ IsFiniteSet(streams)
    /\ acts \subseteq Tasks /\ IsFiniteSet(acts)

TaskIds(S) == {s.id : s \in S}
ViewSubs == {l.sub : l \in logs}

\* alloc_sub_id: an id that is in use was handed out.
UsedIds == 0 .. nextId - 1
IdsKept ==
    /\ \A t \in {"unsub", "logs", "act"} : IdsOf(up, t) \subseteq UsedIds
    /\ \A t \in {"result", "end"} : IdsOf(down, t) \subseteq UsedIds
    /\ TaskIds(streams) \subseteq UsedIds /\ TaskIds(acts) \subseteq UsedIds
    /\ ViewSubs \subseteq UsedIds /\ pending \subseteq UsedIds

\* LogsAccounted in terms of ids, and what keeps it: the current view's stream is not
\* given up, and no stream is asked for after that.
StreamIds == TaskIds(streams) \cup IdsOf(up, "logs")
LogsKept ==
    /\ \A i \in StreamIds : i \in IdsOf(up, "unsub") \/ i \in ViewSubs
    /\ \A l \in logs : l.ended \/ l.sub \in StreamIds \/ l.sub \in IdsOf(down, "end")
    /\ \A i \in ViewSubs : i \notin IdsOf(up, "unsub")
    /\ LogsFirst(up)

\* An action is asked for, under way or answered, one of these and once; until its
\* answer is told nothing or the timeout is.
ActsKept ==
    /\ Distinct(up, "act") /\ Distinct(down, "result")
    /\ \A a, b \in acts : a.id = b.id => a = b
    /\ \A i \in IdsOf(up, "act") : i \notin TaskIds(acts) /\ i \notin IdsOf(down, "result")
    /\ \A i \in TaskIds(acts) : i \notin IdsOf(down, "result")
    /\ toasts \in [Ids -> {<<>>, <<"result">>, <<"timed out">>, <<"timed out", "result">>}]
    /\ \A i \in Ids : i >= nextId => toasts[i] = <<>>
    /\ \A i \in pending : toasts[i] = <<>>
    /\ \A i \in IdsOf(up, "act") \cup TaskIds(acts) \cup IdsOf(down, "result") :
          toasts[i] \in {<<>>, <<"timed out">>}

\* The target's list is served or asked for: if not, its answer is on its way back
\* behind whatever is still said of other hosts.
Coming == target \in lists \/ Asks(up, target)
ListKept ==
    /\ EndsWith(up, target)
    /\ \A h \in lists : h # target => GivesUp(up)
    /\ Coming \/ Overtaken(down, target)
    /\ shown.st = "connecting" \/ shown.host \notin {target, Aborted}
          => Coming \/ IsAnswered(down, target)

DInv == TileKept /\ WireKept /\ IdsKept /\ LogsKept /\ ActsKept /\ ListKept /\ ConfirmedAsAsked

-----------------------------------------------------------------------------
(* What the records say.                                                   *)

LEMMA CommandFields ==
    ASSUME NEW m \in CommandRec
    PROVE  /\ m.t \in {"sub", "unsub", "logs", "act"}
           /\ m.t = "sub" => m.host \in Hosts /\ m.id = ListSub
           /\ m.t = "unsub" => m.id \in {ListSub} \cup Ids /\ m = Unsub(m.id)
           /\ m.t = "logs" => m.id \in Ids /\ m.host \in Hosts
           /\ m.t = "act" => m.id \in Ids /\ m.host \in Hosts
<1>1. CASE m \in SubRec
  BY <1>1 DEF SubRec
<1>2. CASE m \in UnsubRec
  BY <1>2 DEF UnsubRec, Unsub
<1>3. CASE m \in LogsRec
  BY <1>3 DEF LogsRec
<1>4. CASE m \in ActRec
  BY <1>4 DEF ActRec
<1>5. QED
  BY <1>1, <1>2, <1>3, <1>4 DEF CommandRec

LEMMA EventFields ==
    ASSUME NEW m \in EventRec
    PROVE  /\ m.t \in {"list", "gone", "end", "result", "host"}
           /\ m.t = "list" => m.host \in Speakers /\ m.rows \in Lists
           /\ m.t = "gone" => m.host \in Speakers
           /\ m.t = "end" => m.id \in Ids /\ m = End(m.id)
           /\ m.t = "result" => m.id \in Ids /\ m = Result(m.id)
           /\ m.t = "host" => m.host \in Hosts \ {Local} /\ m.up \in BOOLEAN
<1>1. CASE m \in ListRec
  BY <1>1 DEF ListRec
<1>2. CASE m \in GoneRec
  BY <1>2 DEF GoneRec
<1>3. CASE m \in EndRec
  BY <1>3 DEF EndRec, End
<1>4. CASE m \in ResultRec
  BY <1>4 DEF ResultRec, Result
<1>5. CASE m \in HostRec
  BY <1>5 DEF HostRec
<1>6. QED
  BY <1>1, <1>2, <1>3, <1>4, <1>5 DEF EventRec

\* The messages that are sent.
LEMMA CommandsSent ==
    /\ \A i \in {ListSub} \cup Ids : Unsub(i) \in CommandRec /\ Unsub(i).t = "unsub"
                                     /\ Unsub(i).id = i
    /\ \A h \in Hosts : [t |-> "sub", id |-> ListSub, host |-> h] \in CommandRec
    /\ \A i \in Ids, h \in Hosts : [t |-> "logs", id |-> i, host |-> h] \in CommandRec
    /\ \A i \in Ids, h \in Hosts, k \in {"stop", "remove", "reconnect"},
          c \in {0} \cup Containers, asked \in SUBSET Prompts :
          [t |-> "act", id |-> i, host |-> h, kind |-> k, c |-> c, asked |-> asked] \in CommandRec
  BY DEF CommandRec, SubRec, UnsubRec, LogsRec, ActRec, Unsub

LEMMA EventsSent ==
    /\ \A h \in Speakers : Gone(h) \in EventRec /\ Gone(h).t = "gone" /\ Gone(h).host = h
    /\ \A h \in Speakers, l \in Lists : [t |-> "list", host |-> h, rows |-> l] \in EventRec
    /\ \A i \in Ids : End(i) \in EventRec /\ End(i).t = "end" /\ End(i).id = i
    /\ \A i \in Ids : Result(i) \in EventRec /\ Result(i).t = "result" /\ Result(i).id = i
    /\ Hosts \subseteq Speakers
    /\ \A h \in Hosts \ {Local}, b \in BOOLEAN : [t |-> "host", host |-> h, up |-> b] \in EventRec
  BY DEF EventRec, ListRec, GoneRec, EndRec, ResultRec, HostRec, Gone, End, Result, Speakers

\* The rows of a list of the engine that pass the filter.
LEMMA VisibleRowsOf ==
    ASSUME NEW rows \in Lists \cup {<<>>}, NEW f
    PROVE  /\ Visible(rows, f) \in Seq(Containers)
           /\ Len(Visible(rows, f)) \in Nat
           /\ DOMAIN Visible(rows, f) = 1 .. Len(Visible(rows, f))
           /\ Visible(rows, f) # <<>> => Len(Visible(rows, f)) # 0
           /\ rows = <<>> => Visible(rows, f) = <<>>
<1>1. rows \in Seq(Containers)
  <2>1. CASE rows = <<>>
    BY <2>1
  <2>2. CASE rows \in Lists
    <3>1. rows \in Seq(Range(rows)) /\ Range(rows) \subseteq Containers
      BY <2>2, TuiDockerConstants DEF Containers
    <3>2. QED
      BY <3>1
  <2>3. QED
    BY <2>1, <2>2
<1>2. Visible(rows, f) \in Seq(Containers) /\ (rows = <<>> => Visible(rows, f) = <<>>)
  BY <1>1, FilteredAreRows DEF Visible
<1>3. QED
  BY <1>2

\* clamp_selection puts the cursor on a row.
LEMMA ClampedIsOn ==
    ASSUME NEW rows \in Lists \cup {<<>>}, NEW f, sel \in Nat \ {0}
    PROVE  CursorOn(ClampedIn(rows, f), rows, f)
<1> DEFINE n == Len(Visible(rows, f))
<1>1. /\ n \in Nat /\ DOMAIN Visible(rows, f) = 1 .. n
      /\ Visible(rows, f) # <<>> => n # 0
  BY VisibleRowsOf
<1>2. ClampedIn(rows, f) = IF n = 0 THEN 1 ELSE IF sel > n THEN n ELSE sel
  BY DEF ClampedIn
<1> HIDE DEF n
<1>3. QED
  BY <1>1, <1>2 DEF CursorOn

\* So does the first row, and there is none in a list without rows.
LEMMA FirstIsOn ==
    ASSUME NEW rows \in Lists \cup {<<>>}, NEW f
    PROVE  CursorOn(1, rows, f)
<1>1. /\ Len(Visible(rows, f)) \in Nat /\ DOMAIN Visible(rows, f) = 1 .. Len(Visible(rows, f))
      /\ Visible(rows, f) # <<>> => Len(Visible(rows, f)) # 0
  BY VisibleRowsOf
<1>2. QED
  BY <1>1 DEF CursorOn

\* The row under the cursor is a container.
LEMMA SelectedIsContainer ==
    ASSUME TileKept, NEW c \in Selected
    PROVE  c \in Containers
<1>1. shown.rows \in Lists \cup {<<>>}
  BY DEF TileKept
<1>2. Visible(shown.rows, filter) \in Seq(Containers)
  BY <1>1, VisibleRowsOf
<1>3. sel \in DOMAIN VisibleRows /\ c = VisibleRows[sel]
  BY DEF Selected
<1>4. QED
  BY <1>2, <1>3 DEF VisibleRows

LEMMA InitDInv == Init => DInv
<1> SUFFICES ASSUME Init PROVE DInv
  OBVIOUS
<1> USE TuiDockerConstants
<1> DEFINE m == [t |-> "sub", id |-> ListSub, host |-> Local]
<1>1. Local \in Hosts /\ m \in CommandRec
  BY CommandsSent DEF Hosts, Local
<1>2. up = <<m>> /\ up \in Seq(CommandRec) /\ Range(up) = {m}
  <2>1. up = <<m>>
    BY DEF Init
  <2>2. up \in Seq(CommandRec)
    BY <1>1, <2>1
  <2>3. DOMAIN up = {1} /\ up[1] = m
    BY <2>1
  <2>4. QED
    BY <2>1, <2>2, <2>3 DEF Range
<1>3. Range(down) = {} /\ down = <<>> /\ DOMAIN down = {}
  <2>1. down = <<>> /\ DOMAIN down = {}
    BY DEF Init
  <2>2. QED
    BY <2>1 DEF Range
<1>4. TileKept
  <2>1. CursorOn(1, <<>>, 0)
    BY FirstIsOn
  <2>2. QED
    BY <1>1, <2>1 DEF Init, TileKept, AtMostOne, Speakers
<1>5. WireKept
  <2>1. /\ lists = {} /\ late \in BOOLEAN /\ deaf \subseteq Hosts \ {Local}
        /\ agents \subseteq Hosts \ {Local} /\ streams = {} /\ acts = {}
        /\ nextId = 1 /\ pending = {}
    BY DEF Init
  <2>2. QED
    BY <1>2, <1>3, <2>1, FS_EmptySet DEF WireKept
<1>6. \A t \in {"unsub", "logs", "act"} : IdsOf(up, t) = {}
  BY <1>2 DEF IdsOf
<1>7. IdsOf(down, "result") = {} /\ IdsOf(down, "end") = {}
  BY <1>3 DEF IdsOf
<1>8. TaskIds(streams) = {} /\ TaskIds(acts) = {} /\ ViewSubs = {} /\ pending = {}
  BY DEF Init, TaskIds, ViewSubs
<1>9. IdsKept
  BY <1>6, <1>7, <1>8 DEF IdsKept
<1>10. \A i \in DOMAIN up : i = 1 /\ up[i] = m
  BY <1>2
<1>11. LogsKept
  <2>1. LogsFirst(up)
    BY <1>10 DEF LogsFirst
  <2>2. logs = {}
    BY DEF Init
  <2>3. QED
    BY <1>6, <1>8, <2>1, <2>2 DEF LogsKept, StreamIds
<1>12. ActsKept
  <2>1. Distinct(up, "act") /\ Distinct(down, "result")
    BY <1>3, <1>10 DEF Distinct
  <2>2. acts = {} /\ toasts = [i \in Ids |-> <<>>]
    BY DEF Init
  <2>3. QED
    BY <1>6, <1>7, <1>8, <2>1, <2>2 DEF ActsKept
<1>13. ListKept
  <2>1. target = Local /\ lists = {}
    BY DEF Init
  <2>2. EndsWith(up, target)
    BY <1>10, <2>1 DEF EndsWith, IsGivenUp
  <2>3. Asks(up, target)
    BY <1>2, <2>1 DEF Asks, IsSub
  <2>4. QED
    BY <2>1, <2>2, <2>3 DEF ListKept, Coming
<1>14. ConfirmedAsAsked
  BY <1>10 DEF ConfirmedAsAsked
<1>15. QED
  BY <1>4, <1>5, <1>9, <1>11, <1>12, <1>13, <1>14 DEF DInv

-----------------------------------------------------------------------------
(* The tile by itself: keys, clicks, the tick, and what arrives.           *)

LEMMA TileStays ==
    ASSUME DInv, UNCHANGED <<focus, tileVars, picker, usable>>
    PROVE  TileKept'
  BY DEF DInv, TileKept, tileVars, viewVars, CursorOn, AtMostOne, Visible

LEMMA HeadOfDown ==
    ASSUME DInv, NEW t, Arrives(t)
    PROVE  /\ down \in Seq(EventRec) /\ down # <<>> /\ Head(down) \in EventRec
           /\ Head(down).t = t /\ down' = Tail(down)
  BY DEF DInv, WireKept, Arrives

LEMMA HeadOfUp ==
    ASSUME DInv, NEW t, Asked(t)
    PROVE  /\ up \in Seq(CommandRec) /\ up # <<>> /\ Head(up) \in CommandRec
           /\ Head(up).t = t /\ up' = Tail(up)
  BY DEF DInv, WireKept, Asked

LEMMA NavigateTile == ASSUME DInv, Navigate PROVE TileKept'
<1> DEFINE n == Len(VisibleRows)
<1>1. shown.rows \in Lists \cup {<<>>} /\ CursorOn(sel, shown.rows, filter)
  BY DEF DInv, TileKept
<1>2. n \in Nat /\ DOMAIN Visible(shown.rows, filter) = 1 .. n
      /\ (Visible(shown.rows, filter) # <<>> => n # 0)
  BY <1>1, VisibleRowsOf DEF VisibleRows
<1>3. sel' \in {IF sel > 1 THEN sel - 1 ELSE 1, IF sel < n THEN sel + 1 ELSE sel,
                1, IF n = 0 THEN 1 ELSE n}
  BY DEF Navigate
<1> HIDE DEF n
<1>4. sel \in Nat \ {0} /\ (n # 0 => sel \in 1 .. n)
  <2>1. ASSUME n # 0 PROVE Visible(shown.rows, filter) # <<>>
    BY <1>2, <2>1 DEF n, VisibleRows
  <2>2. QED
    BY <1>1, <1>2, <2>1 DEF CursorOn
<1>5. sel' \in Nat \ {0} /\ (n # 0 => sel' \in 1 .. n)
  BY <1>2, <1>3, <1>4
<1>6. CursorOn(sel', shown.rows, filter)
  BY <1>2, <1>5 DEF CursorOn
<1>7. QED
  BY <1>6 DEF Navigate, DInv, TileKept, AtMostOne, CursorOn, Visible

LEMMA FilterKeyTile == ASSUME DInv, FilterKey PROVE TileKept'
<1>1. shown.rows \in Lists \cup {<<>>} /\ CursorOn(sel, shown.rows, filter)
      /\ sel \in Nat \ {0} /\ filter \in Filters /\ typing \in BOOLEAN /\ 0 \in Filters
  BY TuiDockerConstants DEF DInv, TileKept, CursorOn
<1>2. \A f \in Filters : CursorOn(ClampedIn(shown.rows, f), shown.rows, f)
  BY <1>1, ClampedIsOn
<1>3. filter' \in Filters /\ typing' \in BOOLEAN /\ CursorOn(sel', shown.rows, filter')
  <2>1. CASE UNCHANGED <<filter, sel>> /\ typing' \in BOOLEAN
    BY <1>1, <2>1
  <2>2. CASE typing' = FALSE /\ filter' = 0 /\ sel' = ClampedIn(shown.rows, 0)
    BY <1>1, <1>2, <2>2
  <2>3. CASE /\ UNCHANGED typing /\ filter' \in {filter - 1, filter + 1} \cap Filters
             /\ sel' = ClampedIn(shown.rows, filter')
    BY <1>1, <1>2, <2>3
  <2>4. QED
    BY <2>1, <2>2, <2>3 DEF FilterKey
<1>4. UNCHANGED <<focus, target, shown, logs, confirm, picker, usable>>
  BY DEF FilterKey
<1>5. QED
  BY <1>3, <1>4 DEF DInv, TileKept, AtMostOne, CursorOn, Visible

\* Steps that touch the prompt, the focus or the picker and leave the rows alone.
LEMMA PromptTile ==
    ASSUME DInv, UNCHANGED <<target, viewVars, logs, usable>>,
           confirm' \subseteq Prompts, AtMostOne(confirm'), \A p \in confirm' : p.host = target,
           focus' \in {"docker", "other"}, picker' \in {{}} \cup {{h} : h \in Hosts}
    PROVE  TileKept'
  BY DEF DInv, TileKept, viewVars, CursorOn, AtMostOne, Visible

LEMMA KeysTile ==
    ASSUME DInv, \/ ActNow \/ Reconnect \/ BeginConfirm \/ ConfirmKey
                 \/ EnterLogs \/ LeaveLogs \/ OpenPicker \/ PickerKey
    PROVE  TileKept'
<1>1. CASE ActNow \/ Reconnect
  BY <1>1, TileStays DEF ActNow, Reconnect
<1>2. TileKept
  BY DEF DInv
<1>3. CASE BeginConfirm
  <2>1. PICK c \in Selected : confirm' = {[kind |-> "remove", c |-> c, host |-> target]}
    BY <1>3 DEF BeginConfirm
  <2>2. c \in Containers
    BY <1>2, SelectedIsContainer
  <2>3. /\ confirm' \subseteq Prompts /\ AtMostOne(confirm') /\ \A p \in confirm' : p.host = target
    BY <1>2, <2>1, <2>2 DEF Prompts, AtMostOne, TileKept
  <2>4. QED
    BY <1>2, <1>3, <2>3, PromptTile DEF BeginConfirm, TileKept
<1>4. CASE ConfirmKey
  BY <1>2, <1>4, PromptTile DEF ConfirmKey, TileKept, AtMostOne
<1>5. CASE EnterLogs
  <2>1. PICK c \in Selected : logs' = {[c |-> c, sub |-> nextId, ended |-> FALSE]}
    BY <1>5 DEF EnterLogs
  <2>2. c \in Containers /\ nextId \in Ids
    BY <1>2, <1>5, SelectedIsContainer DEF EnterLogs
  <2>3. logs' \subseteq LogsViews /\ AtMostOne(logs')
    BY <2>1, <2>2 DEF LogsViews, AtMostOne
  <2>4. QED
    BY <1>2, <1>5, <2>3 DEF EnterLogs, TileKept, viewVars, CursorOn, AtMostOne, Visible
<1>6. CASE LeaveLogs
  BY <1>2, <1>6 DEF LeaveLogs, TileKept, viewVars, CursorOn, AtMostOne, Visible
<1>7. CASE OpenPicker
  BY <1>2, <1>7, PromptTile DEF OpenPicker, TileKept, tileVars
<1>8. CASE PickerKey
  <2>1. picker' \in {{}} \cup {{h} : h \in Hosts}
    <3>1. CASE picker' = {}
      BY <3>1
    <3>2. CASE picker' # {}
      <4>1. PICK row \in picker : picker' \in {{row - 1}, {row + 1}, {Local}, {MaxHost}}
                                  /\ picker' \subseteq Hosts
        BY <1>8, <3>2 DEF PickerKey
      <4>2. QED
        BY <4>1
    <3>3. QED
      BY <3>1, <3>2
  <2>2. QED
    BY <1>2, <1>8, <2>1, PromptTile DEF PickerKey, TileKept, tileVars
<1>9. QED
  BY <1>1, <1>3, <1>4, <1>5, <1>6, <1>7, <1>8

LEMMA CommitTile == ASSUME DInv, CommitPicker PROVE TileKept'
<1>1. TileKept
  BY DEF DInv
<1>2. PICK row \in picker : (row = Local \/ row \in usable) /\ Retarget(row)
  BY DEF CommitPicker
<1>3. row \in Hosts /\ picker' = {}
  BY <1>1 DEF TileKept, CommitPicker
<1>4. CASE row = target
  BY <1>1, <1>2, <1>3, <1>4, PromptTile DEF CommitPicker, Retarget, TileKept, tileVars
<1>5. CASE row # target
  <2>1. /\ logs' = {} /\ confirm' = {} /\ target' = row /\ sel' = 1
        /\ shown' = [st |-> "connecting", host |-> row, rows |-> <<>>]
        /\ UNCHANGED <<filter, typing, focus, usable>>
    BY <1>2, <1>5 DEF Retarget, CommitPicker
  <2>2. CursorOn(sel', shown'.rows, filter')
    BY <2>1, FirstIsOn
  <2>3. QED
    BY <1>1, <1>3, <2>1, <2>2 DEF TileKept, CursorOn, AtMostOne, Visible, Speakers
<1>6. QED
  BY <1>4, <1>5

LEMMA OthersTile ==
    ASSUME DInv, MoveFocus \/ PaneTakesFocus \/ ClickRow \/ ConfirmExpires \/ ActionExpires
    PROVE  TileKept'
<1>1. TileKept
  BY DEF DInv
<1>2. CASE MoveFocus
  BY <1>1, <1>2, PromptTile DEF MoveFocus, TileKept, AtMostOne
<1>3. CASE PaneTakesFocus
  BY <1>1, <1>3, PromptTile DEF PaneTakesFocus, TileKept, tileVars
<1>4. CASE ClickRow
  <2>1. shown.rows \in Lists \cup {<<>>}
    BY <1>1 DEF TileKept
  <2>2. DOMAIN VisibleRows = 1 .. Len(VisibleRows)
    BY <2>1, VisibleRowsOf DEF VisibleRows
  <2>3. sel' \in DOMAIN Visible(shown.rows, filter)
    BY <1>4 DEF ClickRow, VisibleRows
  <2>4. sel' \in Nat \ {0}
    BY <2>2, <2>3 DEF VisibleRows
  <2>5. CursorOn(sel', shown.rows, filter)
    BY <2>3, <2>4 DEF CursorOn
  <2>6. QED
    BY <1>1, <1>4, <2>5 DEF ClickRow, TileKept, CursorOn, AtMostOne, Visible
<1>5. CASE ConfirmExpires
  BY <1>1, <1>5, PromptTile DEF ConfirmExpires, TileKept, AtMostOne
<1>6. CASE ActionExpires
  BY <1>6, TileStays DEF ActionExpires
<1>7. QED
  BY <1>2, <1>3, <1>4, <1>5, <1>6

LEMMA ReceiveTile == ASSUME DInv, Receive PROVE TileKept'
<1>1. TileKept
  BY DEF DInv
<1>2. CASE ContainerList
  <2>1. Head(down).host \in Speakers /\ Head(down).rows \in Lists
    BY <1>2, HeadOfDown, EventFields DEF ContainerList
  <2>2. sel \in Nat \ {0}
    BY <1>1 DEF TileKept, CursorOn
  <2>3. CursorOn(ClampedIn(Head(down).rows, filter), Head(down).rows, filter)
    BY <2>1, <2>2, ClampedIsOn
  <2>4. /\ shown' = [st |-> "available", host |-> Head(down).host, rows |-> Head(down).rows]
        /\ sel' = ClampedIn(Head(down).rows, filter)
        /\ UNCHANGED <<focus, target, filter, typing, logs, confirm, picker, usable>>
    BY <1>2 DEF ContainerList
  <2>5. CursorOn(sel', shown'.rows, filter)
    BY <2>3, <2>4
  <2>6. QED
    BY <1>1, <2>1, <2>4, <2>5 DEF TileKept, CursorOn, AtMostOne, Visible
<1>3. CASE DockerUnavailable
  <2>1. Head(down).host \in Speakers
    BY <1>3, HeadOfDown, EventFields DEF DockerUnavailable
  <2>2. /\ shown' = [st |-> "unavailable", host |-> Head(down).host, rows |-> <<>>]
        /\ sel' = 1
        /\ UNCHANGED <<focus, target, filter, typing, logs, confirm, picker, usable>>
    BY <1>3 DEF DockerUnavailable
  <2>3. CursorOn(1, <<>>, filter)
    BY FirstIsOn
  <2>4. QED
    BY <1>1, <2>1, <2>2, <2>3 DEF TileKept, CursorOn, AtMostOne, Visible
<1>4. CASE DockerStreamEnded
  <2>1. DEFINE tell(l) == IF l.sub = Head(down).id THEN [l EXCEPT !.ended = TRUE] ELSE l
  <2>2. logs' = {tell(l) : l \in logs}
    BY <1>4 DEF DockerStreamEnded
  <2>3. \A l \in logs : tell(l) \in LogsViews
    BY <1>1 DEF TileKept, LogsViews
  <2>4. logs' \subseteq LogsViews /\ AtMostOne(logs')
    <3>1. AtMostOne(logs)
      BY <1>1 DEF TileKept
    <3> HIDE DEF tell
    <3>2. QED
      BY <2>2, <2>3, <3>1 DEF AtMostOne
  <2>5. UNCHANGED <<focus, target, viewVars, confirm, picker, usable>>
    BY <1>4 DEF DockerStreamEnded
  <2>6. QED
    BY <1>1, <2>4, <2>5 DEF TileKept, viewVars, CursorOn, AtMostOne, Visible
<1>5. CASE ActionResult
  BY <1>5, TileStays DEF ActionResult
<1>6. CASE HostReport
  <2>1. Head(down).host \in Hosts \ {Local}
    BY <1>6, HeadOfDown, EventFields DEF HostReport
  <2>2. usable' \subseteq Hosts \ {Local}
    BY <1>1, <1>6, <2>1 DEF HostReport, TileKept
  <2>3. UNCHANGED <<focus, tileVars, picker>>
    BY <1>6 DEF HostReport
  <2>4. QED
    BY <1>1, <2>2, <2>3 DEF TileKept, tileVars, viewVars, CursorOn, AtMostOne, Visible
<1>7. QED
  BY <1>2, <1>3, <1>4, <1>5, <1>6 DEF Receive

LEMMA TileNext == DInv /\ [Next]_vars => TileKept'
<1> SUFFICES ASSUME DInv, [Next]_vars PROVE TileKept'
  OBVIOUS
<1>1. CASE Keys
  BY <1>1, NavigateTile, FilterKeyTile, KeysTile, CommitTile DEF Keys
<1>2. CASE MoveFocus \/ PaneTakesFocus \/ ClickRow \/ ConfirmExpires \/ ActionExpires
  BY <1>2, OthersTile
<1>3. CASE Receive
  BY <1>3, ReceiveTile
<1>4. ASSUME UNCHANGED tuiVars PROVE TileKept'
  BY <1>4, TileStays DEF tuiVars
<1>5. CASE Session
  BY <1>4, <1>5 DEF Session, DaemonSubscribes, DaemonStreams, DaemonUnsubscribes, DaemonActs
<1>6. CASE StreamEnds \/ ActionEnds
  BY <1>4, <1>6 DEF StreamEnds, ActionEnds
<1>7. CASE Agents
  BY <1>4, <1>7 DEF Agents, AgentRefuses, AgentLost, AgentShutDown, AgentFound, HostAnnounced
<1>8. CASE ForwardLate \/ ForwarderStops \/ \E h \in Hosts : ForwardList(h)
  BY <1>4, <1>8 DEF ForwardList, ForwardLate, ForwarderStops
<1>9. CASE UNCHANGED vars
  BY <1>4, <1>9 DEF vars
<1>10. QED
  BY <1>1, <1>2, <1>3, <1>5, <1>6, <1>7, <1>8, <1>9 DEF Next

-----------------------------------------------------------------------------
(* What the TUI sends.                                                     *)

\* A confirmed action is what its prompt asked.
AsAsked(m) == m.t = "act" /\ m.asked # {} => m.asked = {[kind |-> m.kind, c |-> m.c, host |-> m.host]}

LEMMA ConfirmedInRange == ConfirmedAsAsked <=> \A m \in Range(up) : AsAsked(m)
  BY DEF ConfirmedAsAsked, AsAsked, Range

\* The queues and everything that hangs on them.
LinkInv == WireKept /\ IdsKept /\ LogsKept /\ ActsKept /\ ListKept /\ ConfirmedAsAsked

LEMMA DInvParts == DInv <=> TileKept /\ LinkInv
  BY DEF DInv, LinkInv

\* A forwarder stops, a connection refuses requests.
LEMMA LinkIdles ==
    ASSUME DInv, late' \in BOOLEAN, agents' \subseteq agents,
           UNCHANGED <<target, shown, logs, nextId, pending, toasts, up, down,
                       lists, streams, acts, deaf>>
    PROVE  LinkInv'
<1>1. WireKept' /\ IdsKept'
  BY DEF DInv, WireKept, IdsKept, UsedIds, ViewSubs, TaskIds
<1>2. LogsKept' /\ ActsKept'
  BY DEF DInv, LogsKept, ActsKept, StreamIds, ViewSubs, TaskIds
<1>3. ListKept' /\ ConfirmedAsAsked'
  BY DEF DInv, ListKept, Coming, ConfirmedAsAsked
<1>4. QED
  BY <1>1, <1>2, <1>3 DEF LinkInv

LEMMA LinkRests ==
    ASSUME DInv, UNCHANGED <<target, shown, logs, nextId, pending, toasts, up, down, daemonVars>>
    PROVE  LinkInv'
<1>1. /\ late' \in BOOLEAN /\ agents' \subseteq agents
      /\ UNCHANGED <<target, shown, logs, nextId, pending, toasts, up, down,
                     lists, streams, acts, deaf>>
  BY DEF daemonVars, DInv, WireKept
<1>2. QED
  BY <1>1, LinkIdles

\* Steps that send, take or say nothing about log streams, about actions, or about
\* the list subscription.
LEMMA LogsStay ==
    ASSUME DInv, UNCHANGED <<logs, streams>>, LogsFirst(up)',
           IdsOf(up', "logs") = IdsOf(up, "logs"), IdsOf(up', "unsub") = IdsOf(up, "unsub"),
           IdsOf(down', "end") = IdsOf(down, "end")
    PROVE  LogsKept'
  BY DEF DInv, LogsKept, StreamIds, ViewSubs, TaskIds

LEMMA ActsStay ==
    ASSUME DInv, UNCHANGED <<acts, toasts, pending>>, nextId' \in {nextId, nextId + 1},
           Distinct(up', "act"), IdsOf(up', "act") = IdsOf(up, "act"),
           Distinct(down', "result"), IdsOf(down', "result") = IdsOf(down, "result")
    PROVE  ActsKept'
<1>1. \A i \in Ids : i >= nextId' => i >= nextId
  BY DEF DInv, WireKept, Ids
<1>2. QED
  BY <1>1 DEF DInv, ActsKept, TaskIds

LEMMA ListStays ==
    ASSUME DInv, UNCHANGED <<target, shown, lists>>, EndsWith(up', target),
           Asks(up, target) => Asks(up', target), GivesUp(up) => GivesUp(up'),
           Overtaken(down, target) => Overtaken(down', target),
           IsAnswered(down, target) => IsAnswered(down', target)
    PROVE  ListKept'
  BY DEF DInv, ListKept, Coming

\* An action goes out under an id of its own.
LEMMA OrdersLink ==
    ASSUME DInv, NEW m \in ActRec, nextId \in Ids, m.id = nextId, AsAsked(m),
           nextId' = nextId + 1, pending' = pending \cup {nextId}, up' = Append(up, m),
           UNCHANGED <<target, shown, logs, toasts, down, daemonVars>>
    PROVE  LinkInv'
<1>1. /\ m \in CommandRec /\ m.t = "act" /\ up \in Seq(CommandRec)
      /\ nextId \in Int /\ Ids \subseteq Int
      /\ UNCHANGED <<target, shown, logs, toasts, down,
                     lists, streams, acts, agents, late, deaf>>
  BY DEF DInv, WireKept, CommandRec, ActRec, Ids, daemonVars
<1>2. up' \in Seq(CommandRec) /\ Range(up') = Range(up) \cup {m}
  BY <1>1, AppendRange
<1>3. /\ IdsOf(up', "act") = IdsOf(up, "act") \cup {nextId}
      /\ IdsOf(up', "logs") = IdsOf(up, "logs")
      /\ IdsOf(up', "unsub") = IdsOf(up, "unsub")
  <2>1. up \in Seq(CommandRec) /\ m \in CommandRec
    BY <1>1
  <2>2. \A t : /\ m.t = t => IdsOf(Append(up, m), t) = IdsOf(up, t) \cup {m.id}
               /\ m.t # t => IdsOf(Append(up, m), t) = IdsOf(up, t)
    <3>1. Range(Append(up, m)) = Range(up) \cup {m}
      BY <2>1, AppendRange
    <3>2. QED
      BY <3>1, Zenon DEF IdsOf
  <2>3. QED
    BY <1>1, <2>2
<1>4. \A i \in IdsOf(up, "act") \cup IdsOf(down, "result") \cup TaskIds(acts) : i # nextId
  BY <1>1 DEF DInv, IdsKept, UsedIds
<1>5. WireKept'
  <2>1. nextId' \in 1 .. MaxId + 1 /\ pending' \subseteq Ids
    BY <1>1, TuiDockerConstants DEF DInv, WireKept, Ids
  <2>2. QED
    BY <1>1, <1>2, <2>1 DEF DInv, WireKept
<1>6. IdsKept'
  <2>1. UsedIds \subseteq UsedIds' /\ nextId \in UsedIds'
    BY <1>1, TuiDockerConstants DEF UsedIds, Ids
  <2>3. QED
    BY <1>1, <1>3, <2>1 DEF DInv, IdsKept, ViewSubs, TaskIds
<1>7. LogsKept'
  <2>1. LogsFirst(up')
    BY <1>1, AppendLogsFirst DEF DInv, LogsKept
  <2>2. QED
    BY <1>1, <1>3, <2>1, LogsStay
<1>8. ActsKept'
  <2>1. Distinct(up', "act")
    BY <1>1, <1>4, AppendDistinct DEF DInv, ActsKept
  <2>2. toasts[nextId] = <<>>
    <3>1. nextId >= nextId
      BY <1>1
    <3>2. \A i \in Ids : i >= nextId => toasts[i] = <<>>
      BY DEF DInv, ActsKept
    <3>3. QED
      BY <3>1, <3>2, Zenon
  <2>3. \A i \in Ids : i >= nextId' => i >= nextId
    BY <1>1
  <2>4. ActsKept /\ IdsOf(down', "result") = IdsOf(down, "result") /\ TaskIds(acts)' = TaskIds(acts)
    BY <1>1 DEF DInv, TaskIds
  <2>5. /\ \A i \in IdsOf(up', "act") : i \notin TaskIds(acts)' /\ i \notin IdsOf(down', "result")
        /\ \A i \in pending' : toasts'[i] = <<>>
        /\ \A i \in IdsOf(up', "act") \cup TaskIds(acts)' \cup IdsOf(down', "result") :
              toasts'[i] \in {<<>>, <<"timed out">>}
    BY <1>1, <1>3, <1>4, <2>2, <2>4 DEF ActsKept
  <2>6. QED
    BY <1>1, <2>1, <2>3, <2>4, <2>5 DEF ActsKept
<1>9. ListKept'
  <2>1. /\ EndsWith(up', target) /\ (Asks(up', target) <=> Asks(up, target))
        /\ GivesUp(up') <=> GivesUp(up)
    BY <1>1, AppendEndsWith DEF DInv, ListKept
  <2>2. QED
    BY <1>1, <2>1, ListStays
<1>10. ConfirmedAsAsked'
  BY <1>2, ConfirmedInRange DEF DInv, ConfirmedAsAsked, AsAsked, Range
<1>11. QED
  BY <1>5, <1>6, <1>7, <1>8, <1>9, <1>10 DEF LinkInv

LEMMA ActNowLink == ASSUME DInv, ActNow PROVE LinkInv'
<1>1. PICK c \in Selected : Dispatch("stop", c, {})
  BY DEF ActNow
<1>2. c \in Containers /\ target \in Hosts
  BY SelectedIsContainer DEF DInv, TileKept
<1> DEFINE m == [t |-> "act", id |-> nextId, host |-> target, kind |-> "stop", c |-> c, asked |-> {}]
<1>3. nextId \in Ids /\ up' = Append(up, m) /\ nextId' = nextId + 1
      /\ pending' = pending \cup {nextId}
  BY <1>1 DEF Dispatch
<1>4. m \in ActRec /\ m.id = nextId /\ AsAsked(m)
  BY <1>2, <1>3 DEF ActRec, AsAsked
<1> HIDE DEF m
<1>5. UNCHANGED <<target, shown, logs, toasts, down, daemonVars>>
  BY DEF ActNow, tileVars, viewVars
<1>6. QED
  BY <1>3, <1>4, <1>5, OrdersLink

LEMMA ReconnectLink == ASSUME DInv, Reconnect PROVE LinkInv'
<1> DEFINE m == [t |-> "act", id |-> nextId, host |-> Local, kind |-> "reconnect", c |-> 0,
                 asked |-> {}]
<1>1. nextId \in Ids /\ up' = Append(up, m) /\ nextId' = nextId + 1
      /\ pending' = pending \cup {nextId}
  BY DEF Reconnect
<1>2. Local \in Hosts
  BY TuiDockerConstants DEF Hosts, Local
<1>3. m \in ActRec /\ m.id = nextId /\ AsAsked(m)
  BY <1>1, <1>2 DEF ActRec, AsAsked
<1> HIDE DEF m
<1>4. UNCHANGED <<target, shown, logs, toasts, down, daemonVars>>
  BY DEF Reconnect, tileVars, viewVars
<1>5. QED
  BY <1>1, <1>3, <1>4, OrdersLink

LEMMA ConfirmKeyLink == ASSUME DInv, ConfirmKey PROVE LinkInv'
<1>1. UNCHANGED <<target, shown, logs, toasts, down, daemonVars>>
  BY DEF ConfirmKey, viewVars
<1>2. CASE UNCHANGED <<nextId, pending, up>>
  BY <1>1, <1>2, LinkRests
<1>3. ASSUME NEW p \in confirm, Dispatch(p.kind, p.c, confirm) PROVE LinkInv'
  <2>1. /\ p \in Prompts /\ p.host = target /\ target \in Hosts /\ confirm = {p}
        /\ confirm \in SUBSET Prompts
    BY <1>3 DEF DInv, TileKept, AtMostOne
  <2>2. p = [kind |-> p.kind, c |-> p.c, host |-> target] /\ p.kind = "remove" /\ p.c \in Containers
    BY <2>1 DEF Prompts
  <2> DEFINE m == [t |-> "act", id |-> nextId, host |-> target, kind |-> p.kind, c |-> p.c,
                   asked |-> confirm]
  <2>3. nextId \in Ids /\ up' = Append(up, m) /\ nextId' = nextId + 1
        /\ pending' = pending \cup {nextId}
    BY <1>3 DEF Dispatch
  <2>4. m \in ActRec /\ m.id = nextId
    BY <2>1, <2>2, <2>3 DEF ActRec
  <2>5. AsAsked(m)
    BY <2>1, <2>2 DEF AsAsked
  <2> HIDE DEF m
  <2>6. QED
    BY <1>1, <2>3, <2>4, <2>5, OrdersLink
<1>4. QED
  BY <1>2, <1>3 DEF ConfirmKey

LEMMA EnterLogsLink == ASSUME DInv, EnterLogs PROVE LinkInv'
<1>1. PICK c \in Selected :
         /\ logs' = {[c |-> c, sub |-> nextId, ended |-> FALSE]}
         /\ up' = Append(up, [t |-> "logs", id |-> nextId, host |-> target])
  BY DEF EnterLogs
<1> DEFINE m == [t |-> "logs", id |-> nextId, host |-> target]
<1>2. /\ nextId \in Ids /\ nextId' = nextId + 1 /\ logs = {}
      /\ UNCHANGED <<target, shown, pending, toasts, down,
                     lists, streams, acts, agents, late, deaf>>
  BY DEF EnterLogs, ListKeys, viewVars, daemonVars
<1>3. target \in Hosts /\ up \in Seq(CommandRec) /\ nextId \in Int /\ Ids \subseteq Int
  BY DEF DInv, TileKept, WireKept, Ids
<1>4. m \in CommandRec /\ m.t = "logs" /\ m.id = nextId /\ up' = Append(up, m)
  BY <1>1, <1>2, <1>3, CommandsSent
<1> HIDE DEF m
<1>5. up' \in Seq(CommandRec) /\ Range(up') = Range(up) \cup {m}
  BY <1>3, <1>4, AppendRange
<1>6. /\ IdsOf(up', "act") = IdsOf(up, "act")
      /\ IdsOf(up', "logs") = IdsOf(up, "logs") \cup {nextId}
      /\ IdsOf(up', "unsub") = IdsOf(up, "unsub")
  <2>1. up \in Seq(CommandRec) /\ m \in CommandRec
    BY <1>3, <1>4
  <2>2. \A t : /\ m.t = t => IdsOf(Append(up, m), t) = IdsOf(up, t) \cup {m.id}
               /\ m.t # t => IdsOf(Append(up, m), t) = IdsOf(up, t)
    BY <2>1, AppendIds
  <2>3. QED
    BY <1>3, <1>4, <2>2
<1>7. ViewSubs' = {nextId} /\ \A l \in logs' : l.sub = nextId
  BY <1>1 DEF ViewSubs
<1>8. \A i \in IdsOf(up, "unsub") : i # nextId
  BY <1>3 DEF DInv, IdsKept, UsedIds
<1>9. WireKept'
  <2>1. nextId' \in 1 .. MaxId + 1
    BY <1>2, TuiDockerConstants DEF Ids
  <2>2. QED
    BY <1>2, <1>5, <2>1 DEF DInv, WireKept
<1>10. IdsKept'
  <2>1. UsedIds \subseteq UsedIds' /\ nextId \in UsedIds'
    BY <1>2, <1>3, TuiDockerConstants DEF UsedIds, Ids
  <2>3. QED
    BY <1>2, <1>6, <1>7, <2>1 DEF DInv, IdsKept, TaskIds
<1>11. LogsKept'
  <2>1. LogsFirst(up')
    BY <1>3, <1>4, <1>8, AppendLogsFirst DEF DInv, LogsKept
  <2>2. \A i \in StreamIds : i \in IdsOf(up, "unsub")
    BY <1>2 DEF DInv, LogsKept, ViewSubs
  <2>3. StreamIds' = StreamIds \cup {nextId}
    BY <1>2, <1>6 DEF StreamIds, TaskIds
  <2>4. QED
    BY <1>6, <1>7, <1>8, <2>1, <2>2, <2>3 DEF LogsKept
<1>12. ActsKept'
  <2>1. Distinct(up', "act")
    BY <1>3, <1>4, AppendDistinct DEF DInv, ActsKept
  <2>2. QED
    BY <1>2, <1>6, <2>1, ActsStay DEF DInv, ActsKept
<1>13. ListKept'
  <2>1. /\ EndsWith(up', target) /\ (Asks(up', target) <=> Asks(up, target))
        /\ GivesUp(up') <=> GivesUp(up)
    BY <1>3, <1>4, AppendEndsWith DEF DInv, ListKept
  <2>2. QED
    BY <1>2, <2>1, ListStays
<1>14. ConfirmedAsAsked'
  <2>1. \A n \in Range(up) : AsAsked(n)
    BY ConfirmedInRange DEF DInv
  <2>2. \A n \in Range(up') : AsAsked(n)
    BY <1>4, <1>5, <2>1 DEF AsAsked
  <2>3. QED
    BY <2>2 DEF ConfirmedAsAsked, AsAsked, Range
<1>15. QED
  BY <1>9, <1>10, <1>11, <1>12, <1>13, <1>14 DEF LinkInv

LEMMA LeaveLogsLink == ASSUME DInv, LeaveLogs PROVE LinkInv'
<1>1. PICK l \in logs : up' = Append(up, Unsub(l.sub))
  BY DEF LeaveLogs
<1> DEFINE m == Unsub(l.sub)
<1>2. /\ logs' = {}
      /\ UNCHANGED <<target, shown, nextId, pending, toasts, down,
                     lists, streams, acts, agents, late, deaf>>
  BY DEF LeaveLogs, viewVars, daemonVars
<1>3. l.sub \in Ids /\ l.sub # ListSub /\ ViewSubs = {l.sub} /\ up \in Seq(CommandRec)
  BY DEF DInv, TileKept, WireKept, LogsViews, AtMostOne, ViewSubs, Ids, ListSub
<1>4. m \in CommandRec /\ m.t = "unsub" /\ m.id = l.sub /\ up' = Append(up, m)
  BY <1>1, <1>3, CommandsSent
<1> HIDE DEF m
<1>5. up' \in Seq(CommandRec) /\ Range(up') = Range(up) \cup {m}
  BY <1>3, <1>4, AppendRange
<1>6. /\ IdsOf(up', "act") = IdsOf(up, "act")
      /\ IdsOf(up', "logs") = IdsOf(up, "logs")
      /\ IdsOf(up', "unsub") = IdsOf(up, "unsub") \cup {l.sub}
  <2>1. up \in Seq(CommandRec) /\ m \in CommandRec
    BY <1>3, <1>4
  <2>2. \A t : /\ m.t = t => IdsOf(Append(up, m), t) = IdsOf(up, t) \cup {m.id}
               /\ m.t # t => IdsOf(Append(up, m), t) = IdsOf(up, t)
    BY <2>1, AppendIds
  <2>3. QED
    BY <1>4, <2>2
<1>7. ViewSubs' = {}
  BY <1>2 DEF ViewSubs
<1>8. WireKept'
  BY <1>2, <1>5 DEF DInv, WireKept
<1>9. IdsKept'
  <2>1. l.sub \in UsedIds /\ UsedIds' = UsedIds
    BY <1>2, <1>3 DEF DInv, IdsKept, UsedIds
  <2>2. QED
    BY <1>2, <1>6, <1>7, <2>1 DEF DInv, IdsKept, TaskIds
<1>10. LogsKept'
  <2>1. LogsFirst(up')
    BY <1>3, <1>4, AppendLogsFirst DEF DInv, LogsKept
  <2>2. \A i \in StreamIds : i \in IdsOf(up', "unsub")
    BY <1>3, <1>6 DEF DInv, LogsKept
  <2>3. StreamIds' = StreamIds
    BY <1>2, <1>6 DEF StreamIds, TaskIds
  <2>4. QED
    BY <1>2, <1>7, <2>1, <2>2, <2>3 DEF LogsKept
<1>11. ActsKept'
  <2>1. Distinct(up', "act")
    BY <1>3, <1>4, AppendDistinct DEF DInv, ActsKept
  <2>2. QED
    BY <1>2, <1>6, <2>1, ActsStay DEF DInv, ActsKept
<1>12. ListKept'
  <2>1. /\ EndsWith(up', target) /\ (Asks(up', target) <=> Asks(up, target))
        /\ GivesUp(up') <=> GivesUp(up)
    BY <1>3, <1>4, AppendEndsWith DEF DInv, ListKept
  <2>2. QED
    BY <1>2, <2>1, ListStays
<1>13. ConfirmedAsAsked'
  <2>1. \A n \in Range(up) : AsAsked(n)
    BY ConfirmedInRange DEF DInv
  <2>2. \A n \in Range(up') : AsAsked(n)
    BY <1>4, <1>5, <2>1 DEF AsAsked
  <2>3. QED
    BY <2>2 DEF ConfirmedAsAsked, AsAsked, Range
<1>14. QED
  BY <1>8, <1>9, <1>10, <1>11, <1>12, <1>13 DEF LinkInv

\* Two messages joined to a queue are appended one after the other.
LEMMA JoinTwo ==
    ASSUME NEW S, NEW q \in Seq(S), NEW a \in S, NEW b \in S
    PROVE  q \o <<a, b>> = Append(Append(q, a), b)
<1> DEFINE u == q \o <<a, b>>
           v == Append(Append(q, a), b)
<1>1. /\ u \in Seq(S) /\ v \in Seq(S) /\ Len(u) = Len(q) + 2 /\ Len(v) = Len(q) + 2
      /\ Len(q) \in Nat
  OBVIOUS
<1>2. /\ \A i \in 1 .. Len(q) : u[i] = q[i] /\ v[i] = q[i]
      /\ u[Len(q) + 1] = a /\ u[Len(q) + 2] = b
      /\ v[Len(q) + 1] = a /\ v[Len(q) + 2] = b
  OBVIOUS
<1> HIDE DEF u, v
<1>3. \A i \in 1 .. Len(q) + 2 : i \in 1 .. Len(q) \/ i = Len(q) + 1 \/ i = Len(q) + 2
  BY <1>1
<1>4. \A i \in 1 .. Len(q) + 2 : u[i] = v[i]
  BY <1>2, <1>3
<1>5. u = v
  BY <1>1, <1>4
<1>6. QED
  BY <1>5 DEF u, v

\* The view's stream, if there is one, is given up by one message.
LEMMA ViewGivenUp ==
    ASSUME DInv
    PROVE  LET r == SetToSeq({Unsub(l.sub) : l \in logs})
           IN  r \in Seq(CommandRec) /\ Range(r) = {Unsub(i) : i \in ViewSubs}
<1> DEFINE U == {Unsub(l.sub) : l \in logs}
<1>1. U = {Unsub(i) : i \in ViewSubs}
  BY DEF ViewSubs
<1>2. U \subseteq CommandRec
  BY CommandsSent DEF DInv, TileKept, LogsViews
<1>3. IsFiniteSet(U)
  <2>1. CASE logs = {}
    <3>1. U = {}
      BY <2>1
    <3>2. QED
      BY <3>1, FS_EmptySet
  <2>2. CASE logs # {}
    <3>1. PICK l \in logs : TRUE
      BY <2>2
    <3>2. logs = {l}
      BY DEF DInv, TileKept, AtMostOne
    <3>3. U = {Unsub(l.sub)}
      BY <3>2
    <3>4. QED
      BY <3>3, FS_Singleton
  <2>3. QED
    BY <2>1, <2>2
<1> HIDE DEF U
<1>4. SetToSeq(U) \in Seq(U) /\ Range(SetToSeq(U)) = U
  BY <1>3, SetToSeqLists
<1>5. SetToSeq(U) \in Seq(CommandRec)
  BY <1>2, <1>4
<1>6. QED
  BY <1>1, <1>4, <1>5 DEF U

\* A retarget gives up the view's stream and the list, and asks for the new target's.
LEMMA RetargetLink ==
    ASSUME DInv, NEW host \in Hosts, host # target, Retarget(host),
           UNCHANGED <<nextId, pending, toasts, down, daemonVars>>
    PROVE  LinkInv'
<1> DEFINE r == SetToSeq({Unsub(l.sub) : l \in logs})
           v == up \o r
           a == Unsub(ListSub)
           b == [t |-> "sub", id |-> ListSub, host |-> host]
           u == Append(v, a)
<1>1. up \in Seq(CommandRec) /\ r \in Seq(CommandRec) /\ Range(r) = {Unsub(i) : i \in ViewSubs}
  BY ViewGivenUp DEF DInv, WireKept
<1>2. /\ a \in CommandRec /\ a.t = "unsub" /\ a.id = ListSub
      /\ b \in CommandRec /\ b.t = "sub" /\ b.host = host
  BY CommandsSent
<1>3. /\ up' = v \o <<a, b>> /\ logs' = {} /\ target' = host
      /\ UNCHANGED <<nextId, pending, toasts, down, lists, streams, acts, agents, late, deaf>>
  BY DEF Retarget, daemonVars
<1>4. \A m \in Range(r) : m.t = "unsub" /\ m.id \in ViewSubs
  BY <1>1 DEF Unsub
<1>5. IdsOf(r, "unsub") = ViewSubs /\ IdsOf(r, "act") = {} /\ IdsOf(r, "logs") = {}
  <2>1. \A i \in ViewSubs : Unsub(i) \in Range(r) /\ Unsub(i).t = "unsub" /\ Unsub(i).id = i
    BY <1>1 DEF Unsub
  <2>2. IdsOf(r, "unsub") = ViewSubs
    BY <1>4, <2>1 DEF IdsOf
  <2>3. QED
    BY <1>4, <2>2 DEF IdsOf
<1> HIDE DEF r, a, b
<1>6. /\ v \in Seq(CommandRec) /\ Range(v) = Range(up) \cup Range(r)
  BY <1>1, JoinRange
<1>7. \A t : IdsOf(v, t) = IdsOf(up, t) \cup IdsOf(r, t)
  BY <1>1, JoinIds
<1>8. /\ Distinct(v, "act") /\ LogsFirst(v)
  <2>1. Distinct(r, "act")
    BY <1>4 DEF Distinct, Range
  <2>2. Distinct(up, "act") /\ LogsFirst(up)
    BY DEF DInv, ActsKept, LogsKept
  <2>3. Distinct(v, "act")
    BY <1>1, <1>5, <2>1, <2>2, JoinDistinct
  <2>4. \A m \in Range(r) : m.t # "logs"
    BY <1>4
  <2>5. LogsFirst(v)
    BY <1>1, <2>2, <2>4, JoinLogsFirst
  <2>6. QED
    BY <2>3, <2>5
<1> HIDE DEF v
<1>9. /\ u \in Seq(CommandRec) /\ Range(u) = Range(v) \cup {a}
  BY <1>2, <1>6, AppendRange
<1>10. \A t : /\ a.t = t => IdsOf(u, t) = IdsOf(v, t) \cup {a.id}
              /\ a.t # t => IdsOf(u, t) = IdsOf(v, t)
  <2>1. v \in Seq(CommandRec) /\ a \in CommandRec
    BY <1>2, <1>6
  <2>2. QED
    BY <2>1, AppendIds
<1>11. Distinct(u, "act") /\ LogsFirst(u)
  BY <1>2, <1>6, <1>8, AppendDistinct, AppendLogsFirst
<1>12. up' = Append(u, b)
  BY <1>2, <1>3, <1>6, JoinTwo
<1> HIDE DEF u
<1>13. /\ up' \in Seq(CommandRec) /\ Range(up') = Range(u) \cup {b}
  BY <1>2, <1>9, <1>12, AppendRange
<1>14. \A t : /\ b.t = t => IdsOf(up', t) = IdsOf(u, t) \cup {b.id}
              /\ b.t # t => IdsOf(up', t) = IdsOf(u, t)
  <2>1. u \in Seq(CommandRec) /\ b \in CommandRec
    BY <1>2, <1>9
  <2>2. \A t : /\ b.t = t => IdsOf(Append(u, b), t) = IdsOf(u, t) \cup {b.id}
               /\ b.t # t => IdsOf(Append(u, b), t) = IdsOf(u, t)
    BY <2>1, AppendIds
  <2>3. QED
    BY <1>12, <2>2
<1>15. Distinct(up', "act") /\ LogsFirst(up')
  BY <1>2, <1>9, <1>11, <1>12, AppendDistinct, AppendLogsFirst
<1>16. /\ IdsOf(up', "act") = IdsOf(up, "act")
       /\ IdsOf(up', "logs") = IdsOf(up, "logs")
       /\ IdsOf(up', "unsub") = IdsOf(up, "unsub") \cup ViewSubs \cup {ListSub}
  <2>1. /\ IdsOf(up', "act") = IdsOf(u, "act")
        /\ IdsOf(up', "logs") = IdsOf(u, "logs")
        /\ IdsOf(up', "unsub") = IdsOf(u, "unsub")
    BY <1>2, <1>14
  <2>2. /\ IdsOf(u, "act") = IdsOf(v, "act")
        /\ IdsOf(u, "logs") = IdsOf(v, "logs")
        /\ IdsOf(u, "unsub") = IdsOf(v, "unsub") \cup {ListSub}
    BY <1>2, <1>10
  <2>3. QED
    BY <1>5, <1>7, <2>1, <2>2
<1>17. ViewSubs' = {}
  BY <1>3 DEF ViewSubs
<1>18. WireKept'
  BY <1>3, <1>13 DEF DInv, WireKept
<1>19. IdsKept'
  <2>1. UsedIds' = UsedIds /\ ListSub \in UsedIds
    BY <1>3 DEF DInv, WireKept, UsedIds, ListSub
  <2>2. QED
    BY <1>3, <1>16, <1>17, <2>1 DEF DInv, IdsKept, TaskIds
<1>20. LogsKept'
  <2>1. \A i \in StreamIds : i \in IdsOf(up', "unsub")
    BY <1>16 DEF DInv, LogsKept
  <2>2. StreamIds' = StreamIds
    BY <1>3, <1>16 DEF StreamIds, TaskIds
  <2>3. QED
    BY <1>3, <1>15, <1>17, <2>1, <2>2 DEF LogsKept
<1>21. ActsKept'
  BY <1>3, <1>15, <1>16, ActsStay DEF DInv, ActsKept
<1>22. ListKept'
  <2>1. IsGivenUp(a) /\ IsSub(b, host)
    BY <1>2 DEF IsGivenUp, IsSub
  <2>2. EndsWith(up', host) /\ Asks(up', host)
    BY <1>2, <1>6, <1>12, <2>1, RetargetEndsWith DEF u
  <2>3. GivesUp(up')
    <3>1. a \in Range(up')
      BY <1>9, <1>13
    <3>2. QED
      BY <2>1, <3>1 DEF GivesUp
  <2>4. QED
    BY <1>3, <2>2, <2>3 DEF ListKept, Coming
<1>23. ConfirmedAsAsked'
  <2>1. \A n \in Range(up) : AsAsked(n)
    BY ConfirmedInRange DEF DInv
  <2>2. \A n \in Range(up') : n \in Range(up) \/ n.t # "act"
    BY <1>2, <1>4, <1>6, <1>9, <1>13
  <2>3. \A n \in Range(up') : AsAsked(n)
    BY <2>1, <2>2 DEF AsAsked
  <2>4. QED
    BY <2>3 DEF ConfirmedAsAsked, AsAsked, Range
<1>24. QED
  BY <1>18, <1>19, <1>20, <1>21, <1>22, <1>23 DEF LinkInv

LEMMA CommitLink == ASSUME DInv, CommitPicker PROVE LinkInv'
<1>1. PICK row \in picker : Retarget(row)
  BY DEF CommitPicker
<1>2. row \in Hosts /\ UNCHANGED <<nextId, pending, toasts, down, daemonVars>>
  BY DEF DInv, TileKept, CommitPicker
<1>3. CASE row = target
  <2>1. UNCHANGED <<tileVars, up>>
    BY <1>1, <1>3 DEF Retarget
  <2>2. QED
    BY <1>2, <2>1, LinkRests DEF tileVars, viewVars
<1>4. CASE row # target
  BY <1>1, <1>2, <1>4, RetargetLink
<1>5. QED
  BY <1>3, <1>4

\* The deadline of an action passes before its result is told.
LEMMA ActionExpiresLink == ASSUME DInv, ActionExpires PROVE LinkInv'
<1>1. PICK i \in pending : /\ pending' = pending \ {i}
                           /\ toasts' = [toasts EXCEPT ![i] = Append(@, "timed out")]
  BY DEF ActionExpires
<1>2. UNCHANGED <<target, shown, logs, nextId, up, down,
                  lists, streams, acts, agents, late, deaf>>
  BY DEF ActionExpires, tileVars, viewVars, daemonVars
<1>3. i \in Ids /\ toasts[i] = <<>> /\ i \in UsedIds /\ nextId \in Int /\ DOMAIN toasts = Ids
  <2>1. i \in Ids /\ nextId \in Int
    BY DEF DInv, WireKept
  <2>2. i \in UsedIds
    BY DEF DInv, IdsKept
  <2>3. toasts[i] = <<>> /\ DOMAIN toasts = Ids
    BY DEF DInv, ActsKept
  <2>4. QED
    BY <2>1, <2>2, <2>3
<1>4. toasts'[i] = <<"timed out">> /\ \A j \in Ids \ {i} : toasts'[j] = toasts[j]
  <2>1. Append(<<>>, "timed out") = <<"timed out">>
    OBVIOUS
  <2>2. QED
    BY <1>1, <1>3, <2>1
<1>5. WireKept' /\ IdsKept'
  BY <1>1, <1>2 DEF DInv, WireKept, IdsKept, UsedIds, ViewSubs, TaskIds
<1>6. LogsKept' /\ ListKept' /\ ConfirmedAsAsked'
  BY <1>2 DEF DInv, LogsKept, ListKept, Coming, ConfirmedAsAsked, StreamIds, ViewSubs, TaskIds
<1>7. ActsKept'
  <2> DEFINE Told == {<<>>, <<"result">>, <<"timed out">>, <<"timed out", "result">>}
  <2>1. ActsKept /\ toasts \in [Ids -> Told]
    BY DEF DInv, ActsKept
  <2>2. toasts' \in [Ids -> Told]
    BY <1>1, <1>3, <1>4, <2>1
  <2>3. ~(i >= nextId)
    BY <1>3 DEF UsedIds
  <2>4. \A j \in Ids : j >= nextId' => toasts'[j] = <<>>
    BY <1>2, <1>4, <2>1, <2>3 DEF ActsKept
  <2>5. \A j \in pending' : toasts'[j] = <<>>
    <3>1. \A j \in pending' : j \in pending /\ j # i /\ j \in Ids
      BY <1>1 DEF DInv, WireKept
    <3>2. QED
      BY <1>4, <2>1, <3>1 DEF ActsKept
  <2>6. \A j \in IdsOf(up, "act") \cup TaskIds(acts) \cup IdsOf(down, "result") :
           toasts'[j] \in {<<>>, <<"timed out">>}
    <3>1. IdsOf(up, "act") \cup TaskIds(acts) \cup IdsOf(down, "result") \subseteq Ids
      BY CommandFields, EventFields DEF DInv, WireKept, IdsOf, TaskIds, Tasks, Range
    <3>2. QED
      BY <1>4, <2>1, <3>1 DEF ActsKept
  <2>7. QED
    BY <1>2, <2>1, <2>2, <2>4, <2>5, <2>6 DEF ActsKept, TaskIds
<1>8. QED
  BY <1>5, <1>6, <1>7 DEF LinkInv

-----------------------------------------------------------------------------
(* What the TUI receives.                                                  *)

LEMMA Arrived ==
    ASSUME DInv, NEW t \in {"list", "gone", "end", "result", "host"}, Arrives(t)
    PROVE  /\ down' \in Seq(EventRec) /\ Distinct(down', "result")
           /\ \A k \in {"list", "gone", "end", "result", "host"} \ {t} :
                 IdsOf(down', k) = IdsOf(down, k)
           /\ IdsOf(down, t) = IdsOf(down', t) \cup {Head(down).id}
           /\ Overtaken(down, target) => Overtaken(down', target)
<1>1. /\ down \in Seq(EventRec) /\ down # <<>> /\ Head(down) \in EventRec
      /\ Head(down).t = t /\ down' = Tail(down)
  BY HeadOfDown
<1>2. down' \in Seq(EventRec)
  BY <1>1
<1>3. Distinct(down', "result")
  BY <1>1, TailDistinct DEF DInv, ActsKept
<1>4. \A k : /\ Head(down).t = k => IdsOf(down, k) = IdsOf(Tail(down), k) \cup {Head(down).id}
             /\ Head(down).t # k => IdsOf(down, k) = IdsOf(Tail(down), k)
  BY <1>1, TailIds
<1>5. Overtaken(down, target) => Overtaken(down', target)
  BY <1>1, TailOvertaken
<1>6. QED
  BY <1>1, <1>2, <1>3, <1>4, <1>5

LEMMA ShowsLink ==
    ASSUME DInv, NEW t \in {"list", "gone"}, Arrives(t),
           shown'.st # "connecting", shown'.host = Head(down).host,
           UNCHANGED <<target, logs, nextId, pending, toasts, up, daemonVars>>
    PROVE  LinkInv'
<1>1. UNCHANGED <<target, logs, nextId, pending, toasts, up,
                  lists, streams, acts, agents, late, deaf>>
  BY DEF daemonVars
<1>2. /\ down \in Seq(EventRec) /\ down # <<>> /\ Head(down).t = t /\ down' = Tail(down)
  BY HeadOfDown
<1>3. /\ down' \in Seq(EventRec) /\ Distinct(down', "result")
      /\ IdsOf(down', "end") = IdsOf(down, "end")
      /\ IdsOf(down', "result") = IdsOf(down, "result")
      /\ Overtaken(down, target) => Overtaken(down', target)
  BY Arrived
<1>4. WireKept' /\ IdsKept'
  BY <1>1, <1>3 DEF DInv, WireKept, IdsKept, UsedIds, ViewSubs, TaskIds
<1>5. LogsKept' /\ ActsKept'
  BY <1>1, <1>3, LogsStay, ActsStay DEF DInv, LogsKept, ActsKept
<1>6. ListKept'
  <2>1. /\ EndsWith(up', target') /\ \A h \in lists' : h # target' => GivesUp(up')
        /\ Coming' = Coming /\ (Coming \/ Overtaken(down, target))
    BY <1>1 DEF DInv, ListKept, Coming
  <2>2. ASSUME Overtaken(down, target), shown'.host \notin {target, Aborted}
        PROVE  IsAnswered(down', target)
    <3>1. Tells(Head(down)) /\ Head(down).host \notin {target, Aborted}
      BY <1>2, <2>2 DEF Tells
    <3>2. QED
      BY <1>2, <2>2, <3>1, TailOvertaken
  <2>3. QED
    BY <1>1, <1>3, <2>1, <2>2 DEF ListKept
<1>7. ConfirmedAsAsked'
  BY <1>1 DEF DInv, ConfirmedAsAsked
<1>8. QED
  BY <1>4, <1>5, <1>6, <1>7 DEF LinkInv

\* An event that is not about the list leaves its answers on their way.
LEMMA OtherArrives ==
    ASSUME DInv, NEW t \in {"end", "result", "host"}, Arrives(t),
           UNCHANGED <<target, shown, up, lists>>
    PROVE  ListKept' /\ ConfirmedAsAsked'
<1>1. /\ down \in Seq(EventRec) /\ down # <<>> /\ Head(down).t = t /\ down' = Tail(down)
  BY HeadOfDown
<1>2. ~IsAnswer(Head(down), target)
  BY <1>1 DEF IsAnswer, Tells
<1>3. /\ Overtaken(down, target) => Overtaken(down', target)
      /\ IsAnswered(down, target) => IsAnswered(down', target)
  BY <1>1, <1>2, TailOvertaken
<1>4. ListKept'
  BY <1>3, ListStays DEF DInv, ListKept
<1>5. ConfirmedAsAsked'
  BY DEF DInv, ConfirmedAsAsked
<1>6. QED
  BY <1>4, <1>5

LEMMA StreamEndedLink == ASSUME DInv, DockerStreamEnded PROVE LinkInv'
<1>1. /\ Arrives("end")
      /\ logs' = {IF l.sub = Head(down).id THEN [l EXCEPT !.ended = TRUE] ELSE l : l \in logs}
      /\ UNCHANGED <<target, shown, nextId, pending, toasts, up,
                     lists, streams, acts, agents, late, deaf>>
  BY DEF DockerStreamEnded, viewVars, daemonVars
<1>2. /\ down' \in Seq(EventRec) /\ Distinct(down', "result")
      /\ IdsOf(down, "end") = IdsOf(down', "end") \cup {Head(down).id}
      /\ IdsOf(down', "result") = IdsOf(down, "result")
  BY <1>1, Arrived
<1>3. \A l \in logs : l \in LogsViews
  BY DEF DInv, TileKept
<1>4. \A k \in logs' : \E l \in logs : /\ k.sub = l.sub /\ (l.ended => k.ended)
                                       /\ l.sub = Head(down).id => k.ended
  <2>1. SUFFICES ASSUME NEW l \in logs,
                        NEW k, k = IF l.sub = Head(down).id THEN [l EXCEPT !.ended = TRUE] ELSE l
                 PROVE  k.sub = l.sub /\ (l.ended => k.ended) /\ (l.sub = Head(down).id => k.ended)
    BY <1>1
  <2>2. QED
    BY <1>3, <2>1 DEF LogsViews
<1>5. ViewSubs' = ViewSubs
  <2>1. \A l \in logs : (IF l.sub = Head(down).id THEN [l EXCEPT !.ended = TRUE] ELSE l).sub = l.sub
    BY <1>3 DEF LogsViews
  <2>2. QED
    BY <1>1, <2>1 DEF ViewSubs
<1>6. WireKept'
  BY <1>1, <1>2 DEF DInv, WireKept
<1>7. IdsKept'
  BY <1>1, <1>2, <1>5 DEF DInv, IdsKept, UsedIds, TaskIds
<1>8. LogsKept'
  <2>1. StreamIds' = StreamIds
    BY <1>1 DEF StreamIds, TaskIds
  <2>2. \A k \in logs' : k.ended \/ k.sub \in StreamIds \/ k.sub \in IdsOf(down', "end")
    <3>1. TAKE k \in logs'
    <3>2. PICK l \in logs : /\ k.sub = l.sub /\ (l.ended => k.ended)
                            /\ l.sub = Head(down).id => k.ended
      BY <1>4
    <3>3. l.ended \/ l.sub \in StreamIds \/ l.sub \in IdsOf(down, "end")
      BY DEF DInv, LogsKept
    <3>4. QED
      BY <1>2, <3>2, <3>3
  <2>3. QED
    BY <1>1, <1>5, <2>1, <2>2 DEF DInv, LogsKept
<1>9. ActsKept'
  BY <1>1, <1>2, ActsStay DEF DInv, ActsKept
<1>10. QED
  BY <1>1, <1>6, <1>7, <1>8, <1>9, OtherArrives DEF LinkInv

LEMMA AppendToOne == ASSUME NEW a, NEW b PROVE Append(<<a>>, b) = <<a, b>>
<1> DEFINE u == Append(<<a>>, b)
           v == <<a, b>>
<1>1. u \in Seq({a, b}) /\ v \in Seq({a, b}) /\ Len(u) = 2 /\ Len(v) = 2
  <2>1. <<a>> \in Seq({a, b}) /\ Len(<<a>>) = 1
    OBVIOUS
  <2>2. QED
    BY <2>1
<1>2. u[1] = a /\ u[2] = b /\ v[1] = a /\ v[2] = b
  <2>1. <<a>> \in Seq({a, b}) /\ Len(<<a>>) = 1 /\ <<a>>[1] = a
    OBVIOUS
  <2>2. QED
    BY <2>1
<1> HIDE DEF u, v
<1>3. u = v
  BY <1>1, <1>2
<1>4. QED
  BY <1>3 DEF u, v

\* The result of an action is told once: it is behind at most a timeout.
LEMMA ActionResultLink == ASSUME DInv, ActionResult PROVE LinkInv'
<1> DEFINE i == Head(down).id
<1>1. /\ Arrives("result") /\ pending' = pending \ {i}
      /\ toasts' = [toasts EXCEPT ![i] = Append(@, "result")]
      /\ UNCHANGED <<target, shown, logs, nextId, up, lists, streams, acts, agents, late, deaf>>
  BY DEF ActionResult, tileVars, viewVars, daemonVars
<1>2. /\ down' \in Seq(EventRec) /\ Distinct(down', "result")
      /\ IdsOf(down', "end") = IdsOf(down, "end")
      /\ IdsOf(down, "result") = IdsOf(down', "result") \cup {i}
  BY <1>1, Arrived
<1>3. i \in Ids /\ i \notin IdsOf(down', "result")
  <2>1. /\ down \in Seq(EventRec) /\ down # <<>> /\ Head(down) \in EventRec
        /\ Head(down).t = "result" /\ down' = Tail(down)
    BY <1>1, HeadOfDown
  <2>2. Head(down).id \notin IdsOf(Tail(down), "result")
    BY <2>1, TailDistinct DEF DInv, ActsKept
  <2>3. QED
    BY <2>1, <2>2, EventFields
<1> HIDE DEF i
<1>4. /\ i \notin IdsOf(up, "act") /\ i \notin TaskIds(acts) /\ i \in UsedIds
      /\ toasts[i] \in {<<>>, <<"timed out">>}
  BY <1>2 DEF DInv, ActsKept, IdsKept
<1> DEFINE Told == {<<>>, <<"result">>, <<"timed out">>, <<"timed out", "result">>}
<1>5. toasts \in [Ids -> Told]
  BY DEF DInv, ActsKept
<1>6. toasts'[i] \in Told /\ \A j \in Ids \ {i} : toasts'[j] = toasts[j]
  <2>1. Append(<<>>, "result") = <<"result">>
    OBVIOUS
  <2>2. Append(<<"timed out">>, "result") = <<"timed out", "result">>
    BY AppendToOne
  <2>3. toasts'[i] = Append(toasts[i], "result")
    BY <1>1, <1>3, <1>5
  <2>4. \A j \in Ids \ {i} : toasts'[j] = toasts[j]
    BY <1>1, <1>3, <1>5
  <2>5. QED
    BY <1>4, <2>1, <2>2, <2>3, <2>4
<1>7. WireKept' /\ IdsKept'
  BY <1>1, <1>2 DEF DInv, WireKept, IdsKept, UsedIds, ViewSubs, TaskIds
<1>8. LogsKept'
  BY <1>1, <1>2, LogsStay DEF DInv, LogsKept
<1>9. ActsKept'
  <2>1. ActsKept
    BY DEF DInv
  <2>2. toasts' \in [Ids -> Told]
    BY <1>1, <1>3, <1>5, <1>6
  <2>3. nextId \in Int
    BY DEF DInv, WireKept
  <2>4. ~(i >= nextId)
    <3>1. i \in 0 .. nextId - 1
      BY <1>4 DEF UsedIds
    <3>2. QED
      BY <2>3, <3>1, Z3
  <2>5. \A j \in Ids : j >= nextId' => toasts'[j] = <<>>
    BY <1>1, <1>6, <2>1, <2>4 DEF ActsKept
  <2>6. \A j \in pending' : toasts'[j] = <<>>
    <3>1. \A j \in pending' : j \in pending /\ j # i /\ j \in Ids
      BY <1>1 DEF DInv, WireKept
    <3>2. QED
      BY <1>6, <2>1, <3>1 DEF ActsKept
  <2>7. \A j \in IdsOf(up, "act") \cup TaskIds(acts) \cup IdsOf(down', "result") :
           toasts'[j] \in {<<>>, <<"timed out">>}
    <3>1. \A j \in IdsOf(up, "act") \cup TaskIds(acts) \cup IdsOf(down', "result") :
             j # i /\ j \in Ids
      <4>1. IdsOf(up, "act") \cup TaskIds(acts) \cup IdsOf(down, "result") \subseteq Ids
        BY CommandFields, EventFields DEF DInv, WireKept, IdsOf, TaskIds, Tasks, Range
      <4>2. QED
        BY <1>2, <1>3, <1>4, <4>1
    <3>2. QED
      BY <1>2, <1>6, <2>1, <3>1 DEF ActsKept
  <2>8. QED
    BY <1>1, <1>2, <2>1, <2>2, <2>5, <2>6, <2>7 DEF ActsKept, TaskIds
<1>10. QED
  BY <1>1, <1>7, <1>8, <1>9, OtherArrives DEF LinkInv

LEMMA HostReportLink == ASSUME DInv, HostReport PROVE LinkInv'
<1>1. /\ Arrives("host")
      /\ UNCHANGED <<target, shown, logs, nextId, pending, toasts, up,
                     lists, streams, acts, agents, late, deaf>>
  BY DEF HostReport, tileVars, viewVars, daemonVars
<1>2. /\ down' \in Seq(EventRec) /\ Distinct(down', "result")
      /\ IdsOf(down', "end") = IdsOf(down, "end")
      /\ IdsOf(down', "result") = IdsOf(down, "result")
  BY <1>1, Arrived
<1>3. WireKept' /\ IdsKept'
  BY <1>1, <1>2 DEF DInv, WireKept, IdsKept, UsedIds, ViewSubs, TaskIds
<1>4. LogsKept' /\ ActsKept'
  BY <1>1, <1>2, LogsStay, ActsStay DEF DInv, LogsKept, ActsKept
<1>5. QED
  BY <1>1, <1>3, <1>4, OtherArrives DEF LinkInv

LEMMA ReceiveLink == ASSUME DInv, Receive PROVE LinkInv'
<1>1. CASE ContainerList
  <2>1. /\ Arrives("list") /\ shown'.st # "connecting" /\ shown'.host = Head(down).host
        /\ UNCHANGED <<target, logs, nextId, pending, toasts, up, daemonVars>>
    BY <1>1 DEF ContainerList
  <2>2. QED
    BY <2>1, ShowsLink
<1>2. CASE DockerUnavailable
  <2>1. /\ Arrives("gone") /\ shown'.st # "connecting" /\ shown'.host = Head(down).host
        /\ UNCHANGED <<target, logs, nextId, pending, toasts, up, daemonVars>>
    BY <1>2 DEF DockerUnavailable
  <2>2. QED
    BY <2>1, ShowsLink
<1>3. QED
  BY <1>1, <1>2, StreamEndedLink, ActionResultLink, HostReportLink DEF Receive


-----------------------------------------------------------------------------
(* The daemon's session takes a command.                                   *)

LEMMA Taken ==
    ASSUME DInv, NEW t \in {"sub", "unsub", "logs", "act"}, Asked(t)
    PROVE  /\ up' \in Seq(CommandRec) /\ Distinct(up', "act") /\ LogsFirst(up')
           /\ \A k \in {"sub", "unsub", "logs", "act"} \ {t} : IdsOf(up', k) = IdsOf(up, k)
           /\ IdsOf(up, t) = IdsOf(up', t) \cup {Head(up).id}
           /\ EndsWith(up', target) /\ ConfirmedAsAsked'
           /\ t \in {"logs", "act"} => /\ Asks(up, target) => Asks(up', target)
                                       /\ GivesUp(up) => GivesUp(up')
<1>1. /\ up \in Seq(CommandRec) /\ up # <<>> /\ Head(up) \in CommandRec
      /\ Head(up).t = t /\ up' = Tail(up)
  BY HeadOfUp
<1>2. up' \in Seq(CommandRec) /\ Range(up') \subseteq Range(up)
  BY <1>1, TailRange
<1>3. Distinct(up', "act")
  BY <1>1, TailDistinct DEF DInv, ActsKept
<1>4. LogsFirst(up')
  BY <1>1, TailLogsFirst DEF DInv, LogsKept
<1>5. \A k : /\ Head(up).t = k => IdsOf(up, k) = IdsOf(Tail(up), k) \cup {Head(up).id}
             /\ Head(up).t # k => IdsOf(up, k) = IdsOf(Tail(up), k)
  BY <1>1, TailIds
<1>6. EndsWith(up, target)
  BY DEF DInv, ListKept
<1>7. EndsWith(up', target)
  BY <1>1, <1>6, TailEndsWith
<1>8. ASSUME t \in {"logs", "act"}
      PROVE  (Asks(up, target) => Asks(up', target)) /\ (GivesUp(up) => GivesUp(up'))
  <2>1. ~IsSub(Head(up), target) /\ ~IsGivenUp(Head(up))
    BY <1>1, <1>8 DEF IsSub, IsGivenUp
  <2>2. QED
    BY <1>1, <1>6, <2>1, TailEndsWith
<1>9. ConfirmedAsAsked'
  <2>1. \A n \in Range(up) : AsAsked(n)
    BY ConfirmedInRange DEF DInv
  <2>2. \A n \in Range(up') : AsAsked(n)
    BY <1>2, <2>1
  <2>3. QED
    BY <2>2 DEF ConfirmedAsAsked, AsAsked, Range
<1>10. QED
  BY <1>1, <1>2, <1>3, <1>4, <1>5, <1>7, <1>8, <1>9

\* What is said of a stream or an action is behind what was said before.
LEMMA Said ==
    ASSUME DInv, NEW m \in EventRec, m.t \in {"end", "result", "host"}, down' = Append(down, m)
    PROVE  /\ down' \in Seq(EventRec)
           /\ \A t : /\ m.t = t => IdsOf(down', t) = IdsOf(down, t) \cup {m.id}
                     /\ m.t # t => IdsOf(down', t) = IdsOf(down, t)
           /\ m.t # "result" => Distinct(down', "result")
           /\ Overtaken(down, target) => Overtaken(down', target)
           /\ IsAnswered(down, target) => IsAnswered(down', target)
<1>1. down \in Seq(EventRec) /\ Distinct(down, "result")
  BY DEF DInv, WireKept, ActsKept
<1>2. Append(down, m) \in Seq(EventRec)
  BY <1>1, AppendRange
<1>3. \A t : /\ m.t = t => IdsOf(Append(down, m), t) = IdsOf(down, t) \cup {m.id}
             /\ m.t # t => IdsOf(Append(down, m), t) = IdsOf(down, t)
  <2>1. Range(Append(down, m)) = Range(down) \cup {m}
    BY <1>1, AppendRange
  <2>2. QED
    BY <2>1, Zenon DEF IdsOf
<1>4. m.t # "result" => Distinct(Append(down, m), "result")
  BY <1>1, AppendDistinct
<1>5. /\ Overtaken(down, target) => Overtaken(Append(down, m), target)
      /\ IsAnswered(down, target) => IsAnswered(Append(down, m), target)
  <2>1. ~Tells(m)
    BY DEF Tells
  <2>2. QED
    BY <1>1, <2>1, AppendOvertaken
<1>6. QED
  BY <1>2, <1>3, <1>4, <1>5

\* What is said of a list is not about streams or actions.
LEMMA SaidOfList ==
    ASSUME DInv, NEW m \in EventRec, Tells(m), down' = Append(down, m)
    PROVE  /\ down' \in Seq(EventRec) /\ Distinct(down', "result")
           /\ IdsOf(down', "end") = IdsOf(down, "end")
           /\ IdsOf(down', "result") = IdsOf(down, "result")
           /\ IsAnswered(down, target) => IsAnswered(down', target)
           /\ m.host = target => Overtaken(down', target) /\ IsAnswered(down', target)
           /\ m.host = Aborted /\ Overtaken(down, target) => Overtaken(down', target)
<1>1. /\ down \in Seq(EventRec) /\ Distinct(down, "result")
      /\ m.t # "end" /\ m.t # "result"
  BY DEF DInv, WireKept, ActsKept, Tells
<1>2. Append(down, m) \in Seq(EventRec)
  BY <1>1, AppendRange
<1>3. \A t : m.t # t => IdsOf(Append(down, m), t) = IdsOf(down, t)
  BY <1>1, AppendIds
<1>4. Distinct(Append(down, m), "result")
  BY <1>1, AppendDistinct
<1>5. /\ IsAnswered(down, target) => IsAnswered(Append(down, m), target)
      /\ m.host = target => /\ Overtaken(Append(down, m), target)
                            /\ IsAnswered(Append(down, m), target)
      /\ m.host = Aborted /\ Overtaken(down, target) => Overtaken(Append(down, m), target)
  BY <1>1, AppendOvertaken DEF IsAnswer
<1>6. QED
  BY <1>1, <1>2, <1>3, <1>4, <1>5

\* A subscription to another host than the target is given up by what is behind it.
LEMMA SubscribesLink == ASSUME DInv, DaemonSubscribes PROVE LinkInv'
<1> DEFINE host == Head(up).host
<1>1. /\ Asked("sub")
      /\ UNCHANGED <<target, shown, logs, nextId, pending, toasts,
                     streams, acts, agents, late, deaf>>
  BY DEF DaemonSubscribes, tuiVars, tileVars, viewVars
<1>2. /\ up \in Seq(CommandRec) /\ up # <<>> /\ Head(up) \in CommandRec
      /\ Head(up).t = "sub" /\ up' = Tail(up)
  BY <1>1, HeadOfUp
<1>3. host \in Hosts
  BY <1>2, CommandFields
<1>4. /\ up' \in Seq(CommandRec) /\ Distinct(up', "act") /\ LogsFirst(up')
      /\ IdsOf(up', "unsub") = IdsOf(up, "unsub") /\ IdsOf(up', "logs") = IdsOf(up, "logs")
      /\ IdsOf(up', "act") = IdsOf(up, "act")
      /\ EndsWith(up', target) /\ ConfirmedAsAsked'
  BY <1>1, Taken
<1>5. /\ host # target => GivesUp(up') /\ (Asks(up, target) => Asks(up', target))
      /\ GivesUp(up) => GivesUp(up')
  <2>1. EndsWith(up, target)
    BY DEF DInv, ListKept
  <2>2. ~IsGivenUp(Head(up)) /\ (host # target => ~IsSub(Head(up), target))
    BY <1>2 DEF IsGivenUp, IsSub
  <2>3. QED
    BY <1>2, <2>1, <2>2, TailEndsWith
<1>6. CASE Serves(host)
  <2>1. lists' = lists \cup {host} /\ UNCHANGED down
    BY <1>6 DEF DaemonSubscribes
  <2>2. WireKept'
    BY <1>1, <1>3, <1>4, <2>1 DEF DInv, WireKept
  <2>3. IdsKept'
    BY <1>1, <1>4, <2>1 DEF DInv, IdsKept, UsedIds, ViewSubs, TaskIds
  <2>4. LogsKept' /\ ActsKept'
    BY <1>1, <1>4, <2>1, LogsStay, ActsStay DEF DInv, ActsKept
  <2>5. ListKept'
    <3>1. \A h \in lists' : h # target => GivesUp(up')
      BY <1>5, <2>1 DEF DInv, ListKept
    <3>2. Coming => Coming'
      BY <1>1, <1>5, <2>1 DEF Coming
    <3>3. QED
      BY <1>1, <1>4, <2>1, <3>1, <3>2 DEF DInv, ListKept
  <2>6. QED
    BY <1>4, <2>2, <2>3, <2>4, <2>5 DEF LinkInv
<1>7. CASE ~Serves(host)
  <2>1. down' = Append(down, Gone(host)) /\ UNCHANGED lists
    BY <1>7 DEF DaemonSubscribes
  <2>2. Gone(host) \in EventRec /\ Gone(host).host = host /\ Tells(Gone(host))
    BY <1>3, EventsSent DEF Tells
  <2>3. /\ down' \in Seq(EventRec) /\ Distinct(down', "result")
        /\ IdsOf(down', "end") = IdsOf(down, "end")
        /\ IdsOf(down', "result") = IdsOf(down, "result")
        /\ IsAnswered(down, target) => IsAnswered(down', target)
        /\ host = target => Overtaken(down', target) /\ IsAnswered(down', target)
    BY <2>1, <2>2, SaidOfList
  <2>4. WireKept'
    BY <1>1, <1>4, <2>1, <2>3 DEF DInv, WireKept
  <2>5. IdsKept'
    BY <1>1, <1>4, <2>3 DEF DInv, IdsKept, UsedIds, ViewSubs, TaskIds
  <2>6. LogsKept' /\ ActsKept'
    BY <1>1, <1>4, <2>3, LogsStay, ActsStay
  <2>7. ListKept'
    <3>1. \A h \in lists' : h # target => GivesUp(up')
      BY <1>5, <2>1 DEF DInv, ListKept
    <3>2. ASSUME host # target PROVE Coming'
      <4>1. Asks(up', target)
        BY <1>4, <1>5, <3>2, EndsWithAsks
      <4>2. QED
        BY <1>1, <4>1 DEF Coming
    <3>3. CASE host = target
      BY <1>1, <1>4, <2>3, <3>1, <3>3 DEF ListKept
    <3>4. CASE host # target
      BY <1>1, <1>4, <3>1, <3>2, <3>4 DEF ListKept
    <3>5. QED
      BY <3>3, <3>4
  <2>8. QED
    BY <1>4, <2>4, <2>5, <2>6, <2>7 DEF LinkInv
<1>8. QED
  BY <1>6, <1>7

\* A log stream starts, or its end is on its way back.
LEMMA StreamsLink == ASSUME DInv, DaemonStreams PROVE LinkInv'
<1> DEFINE i == Head(up).id
           s == [id |-> i, host |-> Head(up).host]
<1>1. /\ Asked("logs")
      /\ UNCHANGED <<target, shown, logs, nextId, pending, toasts,
                     lists, acts, agents, late, deaf>>
  BY DEF DaemonStreams, tuiVars, tileVars, viewVars
<1>2. i \in Ids /\ s \in Tasks /\ s.id = i
  BY <1>1, HeadOfUp, CommandFields DEF Tasks
<1>3. /\ up' \in Seq(CommandRec) /\ Distinct(up', "act") /\ LogsFirst(up')
      /\ IdsOf(up', "unsub") = IdsOf(up, "unsub") /\ IdsOf(up', "act") = IdsOf(up, "act")
      /\ IdsOf(up, "logs") = IdsOf(up', "logs") \cup {i}
      /\ EndsWith(up', target) /\ ConfirmedAsAsked'
      /\ Asks(up, target) => Asks(up', target)
      /\ GivesUp(up) => GivesUp(up')
  BY <1>1, Taken
<1>4. \/ streams' = streams \cup {s} /\ UNCHANGED down
      \/ UNCHANGED streams /\ down' = Append(down, End(i))
  BY DEF DaemonStreams
<1> HIDE DEF s
<1>5. ViewSubs' = ViewSubs
  BY <1>1 DEF ViewSubs
<1>6. i \in UsedIds /\ UsedIds' = UsedIds
  BY <1>1, <1>3 DEF DInv, IdsKept, UsedIds
<1> HIDE DEF i
<1>7. CASE streams' = streams \cup {s} /\ UNCHANGED down
  <2>1. TaskIds(streams)' = TaskIds(streams) \cup {i}
    BY <1>2, <1>7 DEF TaskIds
  <2>2. StreamIds' = StreamIds
    BY <1>3, <2>1 DEF StreamIds
  <2>3. WireKept'
    <3>1. IsFiniteSet(streams \cup {s})
      BY FS_AddElement DEF DInv, WireKept
    <3>2. QED
      BY <1>1, <1>2, <1>3, <1>7, <3>1 DEF DInv, WireKept
  <2>4. IdsKept'
    BY <1>1, <1>3, <1>5, <1>6, <1>7, <2>1 DEF DInv, IdsKept, TaskIds
  <2>5. LogsKept'
    BY <1>1, <1>3, <1>5, <1>7, <2>2 DEF DInv, LogsKept
  <2>6. ActsKept'
    BY <1>1, <1>3, <1>7, ActsStay DEF DInv, ActsKept
  <2>7. ListKept'
    BY <1>1, <1>3, <1>7, ListStays
  <2>8. QED
    BY <1>3, <2>3, <2>4, <2>5, <2>6, <2>7 DEF LinkInv
<1>8. CASE UNCHANGED streams /\ down' = Append(down, End(i))
  <2>1. End(i) \in EventRec /\ End(i).t = "end" /\ End(i).id = i
    BY <1>2, EventsSent
  <2>2. /\ down' \in Seq(EventRec) /\ Distinct(down', "result")
        /\ IdsOf(down', "end") = IdsOf(down, "end") \cup {i}
        /\ IdsOf(down', "result") = IdsOf(down, "result")
        /\ Overtaken(down, target) => Overtaken(down', target)
        /\ IsAnswered(down, target) => IsAnswered(down', target)
    BY <1>8, <2>1, Said
  <2>3. StreamIds = StreamIds' \cup {i}
    BY <1>3, <1>8 DEF StreamIds, TaskIds
  <2>4. WireKept'
    BY <1>1, <1>3, <1>8, <2>2 DEF DInv, WireKept
  <2>5. IdsKept'
    BY <1>1, <1>3, <1>5, <1>6, <1>8, <2>2 DEF DInv, IdsKept, TaskIds
  <2>6. LogsKept'
    BY <1>1, <1>3, <1>5, <2>2, <2>3 DEF DInv, LogsKept
  <2>7. ActsKept'
    BY <1>1, <1>3, <2>2, ActsStay
  <2>8. ListKept'
    BY <1>1, <1>3, <2>2, ListStays
  <2>9. QED
    BY <1>3, <2>4, <2>5, <2>6, <2>7, <2>8 DEF LinkInv
<1>9. QED
  BY <1>4, <1>7, <1>8

\* A stream or the list is given up; a stream that is not the view's.
LEMMA UnsubscribesLink == ASSUME DInv, DaemonUnsubscribes PROVE LinkInv'
<1> DEFINE i == Head(up).id
<1>1. /\ Asked("unsub")
      /\ lists' = (IF i = ListSub THEN {} ELSE lists)
      /\ streams' = {s \in streams : s.id # i}
      /\ late' \in {late, late \/ Local \in lists}
      /\ UNCHANGED <<target, shown, logs, nextId, pending, toasts, down, acts, agents, deaf>>
  BY DEF DaemonUnsubscribes, tuiVars, tileVars, viewVars
<1>2. /\ up \in Seq(CommandRec) /\ up # <<>> /\ Head(up) \in CommandRec
      /\ Head(up).t = "unsub" /\ up' = Tail(up)
  BY <1>1, HeadOfUp
<1>3. /\ up' \in Seq(CommandRec) /\ Distinct(up', "act") /\ LogsFirst(up')
      /\ IdsOf(up', "logs") = IdsOf(up, "logs") /\ IdsOf(up', "act") = IdsOf(up, "act")
      /\ IdsOf(up, "unsub") = IdsOf(up', "unsub") \cup {i}
      /\ EndsWith(up', target) /\ ConfirmedAsAsked'
  BY <1>1, Taken
<1>4. i \notin IdsOf(up', "logs")
  BY <1>2, TailLogsFirst DEF DInv, LogsKept
<1>5. ViewSubs' = ViewSubs
  BY <1>1 DEF ViewSubs
<1>6. TaskIds(streams)' = TaskIds(streams) \ {i}
  BY <1>1 DEF TaskIds
<1>7. /\ i = ListSub => Asks(up', target)
      /\ i # ListSub => /\ Asks(up, target) => Asks(up', target)
                        /\ GivesUp(up) => GivesUp(up')
  <2>1. EndsWith(up, target)
    BY DEF DInv, ListKept
  <2>2. (i = ListSub <=> IsGivenUp(Head(up))) /\ ~IsSub(Head(up), target)
    BY <1>2 DEF IsGivenUp, IsSub
  <2>3. QED
    BY <1>2, <2>1, <2>2, TailEndsWith
<1> HIDE DEF i
<1>8. StreamIds' = StreamIds \ {i}
  BY <1>3, <1>4, <1>6 DEF StreamIds
<1>9. WireKept'
  <2>1. IsFiniteSet(streams') /\ streams' \subseteq streams
    <3>1. streams' \in SUBSET streams
      BY <1>1
    <3>2. QED
      BY <3>1, FS_Subset DEF DInv, WireKept
  <2>2. QED
    BY <1>1, <1>3, <2>1 DEF DInv, WireKept
<1>10. IdsKept'
  BY <1>1, <1>3, <1>5, <1>6 DEF DInv, IdsKept, UsedIds, TaskIds
<1>11. LogsKept'
  <2>1. \A l \in logs : l.sub # i
    BY <1>3 DEF DInv, LogsKept, ViewSubs
  <2>2. QED
    BY <1>1, <1>3, <1>5, <1>8, <2>1 DEF DInv, LogsKept
<1>12. ActsKept'
  BY <1>1, <1>3, ActsStay DEF DInv, ActsKept
<1>13. ListKept'
  <2>1. CASE i = ListSub
    BY <1>1, <1>3, <1>7, <2>1 DEF ListKept, Coming
  <2>2. CASE i # ListSub
    BY <1>1, <1>3, <1>7, <2>2, ListStays
  <2>3. QED
    BY <2>1, <2>2
<1>14. QED
  BY <1>3, <1>9, <1>10, <1>11, <1>12, <1>13 DEF LinkInv

\* An action is carried out, or its result is on its way back.
LEMMA ActsLink == ASSUME DInv, DaemonActs PROVE LinkInv'
<1> DEFINE i == Head(up).id
           a == [id |-> i, host |-> Head(up).host]
<1>1. /\ Asked("act")
      /\ UNCHANGED <<target, shown, logs, nextId, pending, toasts,
                     lists, streams, agents, late, deaf>>
  BY DEF DaemonActs, tuiVars, tileVars, viewVars
<1>2. /\ up \in Seq(CommandRec) /\ up # <<>> /\ Head(up) \in CommandRec
      /\ Head(up).t = "act" /\ up' = Tail(up)
  BY <1>1, HeadOfUp
<1>3. i \in Ids /\ a \in Tasks /\ a.id = i
  BY <1>2, CommandFields DEF Tasks
<1>4. /\ up' \in Seq(CommandRec) /\ Distinct(up', "act") /\ LogsFirst(up')
      /\ IdsOf(up', "unsub") = IdsOf(up, "unsub") /\ IdsOf(up', "logs") = IdsOf(up, "logs")
      /\ IdsOf(up, "act") = IdsOf(up', "act") \cup {i}
      /\ EndsWith(up', target) /\ ConfirmedAsAsked'
      /\ Asks(up, target) => Asks(up', target)
      /\ GivesUp(up) => GivesUp(up')
  BY <1>1, Taken
<1>5. i \notin IdsOf(up', "act")
  BY <1>2, TailDistinct DEF DInv, ActsKept
<1>6. \/ acts' = acts \cup {a} /\ UNCHANGED down
      \/ UNCHANGED acts /\ down' = Append(down, Result(i))
  BY DEF DaemonActs
<1> HIDE DEF a
<1>7. ViewSubs' = ViewSubs /\ TaskIds(streams)' = TaskIds(streams)
  BY <1>1 DEF ViewSubs
<1>8. i \in UsedIds /\ UsedIds' = UsedIds
  BY <1>1, <1>4 DEF DInv, IdsKept, UsedIds
<1>9. /\ i \notin TaskIds(acts) /\ i \notin IdsOf(down, "result")
      /\ toasts[i] \in {<<>>, <<"timed out">>}
  BY <1>4 DEF DInv, ActsKept
<1> HIDE DEF i
<1>10. CASE acts' = acts \cup {a} /\ UNCHANGED down
  <2>1. TaskIds(acts)' = TaskIds(acts) \cup {i}
    BY <1>3, <1>10 DEF TaskIds
  <2>2. WireKept'
    <3>1. IsFiniteSet(acts \cup {a})
      BY FS_AddElement DEF DInv, WireKept
    <3>2. QED
      BY <1>1, <1>3, <1>4, <1>10, <3>1 DEF DInv, WireKept
  <2>3. IdsKept'
    BY <1>1, <1>4, <1>7, <1>8, <1>10, <2>1 DEF DInv, IdsKept
  <2>4. LogsKept'
    BY <1>1, <1>4, <1>10, LogsStay
  <2>5. ActsKept'
    <3>1. ActsKept
      BY DEF DInv
    <3>2. \A b \in acts : b.id # i
      BY <1>9 DEF TaskIds
    <3>3. \A b, c \in acts' : b.id = c.id => b = c
      BY <1>3, <1>10, <3>1, <3>2 DEF ActsKept
    <3>4. /\ \A j \in IdsOf(up', "act") : j \notin TaskIds(acts)' /\ j \notin IdsOf(down', "result")
          /\ \A j \in TaskIds(acts)' : j \notin IdsOf(down', "result")
      BY <1>4, <1>5, <1>9, <1>10, <2>1, <3>1 DEF ActsKept
    <3>5. \A j \in IdsOf(up', "act") \cup TaskIds(acts)' \cup IdsOf(down', "result") :
             toasts'[j] \in {<<>>, <<"timed out">>}
      BY <1>1, <1>4, <1>9, <1>10, <2>1, <3>1 DEF ActsKept
    <3>6. QED
      BY <1>1, <1>4, <1>10, <3>1, <3>3, <3>4, <3>5 DEF ActsKept
  <2>6. ListKept'
    BY <1>1, <1>4, <1>10, ListStays
  <2>7. QED
    BY <1>4, <2>2, <2>3, <2>4, <2>5, <2>6 DEF LinkInv
<1>11. CASE UNCHANGED acts /\ down' = Append(down, Result(i))
  <2>1. Result(i) \in EventRec /\ Result(i).t = "result" /\ Result(i).id = i
    BY <1>3, EventsSent
  <2>2. /\ down' \in Seq(EventRec)
        /\ IdsOf(down', "end") = IdsOf(down, "end")
        /\ IdsOf(down', "result") = IdsOf(down, "result") \cup {i}
        /\ Overtaken(down, target) => Overtaken(down', target)
        /\ IsAnswered(down, target) => IsAnswered(down', target)
    BY <1>11, <2>1, Said
  <2>3. Distinct(down', "result")
    BY <1>9, <1>11, <2>1, AppendDistinct DEF DInv, WireKept, ActsKept
  <2>4. TaskIds(acts)' = TaskIds(acts)
    BY <1>11
  <2>5. WireKept'
    BY <1>1, <1>4, <1>11, <2>2 DEF DInv, WireKept
  <2>6. IdsKept'
    BY <1>1, <1>4, <1>7, <1>8, <2>2, <2>4 DEF DInv, IdsKept
  <2>7. LogsKept'
    BY <1>1, <1>4, <2>2, LogsStay
  <2>8. ActsKept'
    <3>1. ActsKept
      BY DEF DInv
    <3>2. /\ \A j \in IdsOf(up', "act") : j \notin TaskIds(acts)' /\ j \notin IdsOf(down', "result")
          /\ \A j \in TaskIds(acts)' : j \notin IdsOf(down', "result")
      BY <1>4, <1>5, <1>9, <2>2, <2>4, <3>1 DEF ActsKept
    <3>3. \A j \in IdsOf(up', "act") \cup TaskIds(acts)' \cup IdsOf(down', "result") :
             toasts'[j] \in {<<>>, <<"timed out">>}
      BY <1>1, <1>4, <1>9, <2>2, <2>4, <3>1 DEF ActsKept
    <3>4. QED
      BY <1>1, <1>4, <1>11, <2>3, <3>1, <3>2, <3>3 DEF ActsKept
  <2>9. ListKept'
    BY <1>1, <1>4, <2>2, ListStays
  <2>10. QED
    BY <1>4, <2>5, <2>6, <2>7, <2>8, <2>9 DEF LinkInv
<1>12. QED
  BY <1>6, <1>10, <1>11

-----------------------------------------------------------------------------
(* The daemon's forwarders and the agents speak.                           *)

\* A list that is still served for another host than the target is given up by
\* what is under way, and with it the target's is asked for.
LEMMA OthersAreGivenUp ==
    ASSUME DInv, NEW host \in lists
    PROVE  Coming
<1>1. CASE host = target
  BY <1>1 DEF Coming
<1>2. CASE host # target
  <2>1. GivesUp(up) /\ EndsWith(up, target) /\ up \in Seq(CommandRec)
    BY <1>2 DEF DInv, ListKept, WireKept
  <2>2. Asks(up, target)
    BY <2>1, EndsWithAsks
  <2>3. QED
    BY <2>2 DEF Coming
<1>3. QED
  BY <1>1, <1>2

LEMMA ReportsSent ==
    ASSUME NEW host \in Speakers, NEW m \in Reports(host)
    PROVE  m \in EventRec /\ Tells(m) /\ m.host = host
<1>1. CASE m = Gone(host)
  BY <1>1, EventsSent DEF Tells
<1>2. ASSUME NEW l \in Lists, m = [t |-> "list", host |-> host, rows |-> l]
      PROVE  m \in EventRec /\ Tells(m) /\ m.host = host
  BY <1>2, EventsSent DEF Tells
<1>3. QED
  BY <1>1, <1>2 DEF Reports

\* Forwarders report of the list and change nothing else.
LEMMA ReportLink ==
    ASSUME DInv, NEW host \in Speakers, NEW m \in Reports(host), down' = Append(down, m),
           host = Aborted \/ Coming,
           UNCHANGED <<target, shown, logs, nextId, pending, toasts, up, daemonVars>>
    PROVE  LinkInv'
<1>1. UNCHANGED <<target, shown, logs, nextId, pending, toasts, up,
                  lists, streams, acts, agents, late, deaf>>
  BY DEF daemonVars
<1>2. m \in EventRec /\ Tells(m) /\ m.host = host
  BY ReportsSent
<1>3. /\ down' \in Seq(EventRec) /\ Distinct(down', "result")
      /\ IdsOf(down', "end") = IdsOf(down, "end")
      /\ IdsOf(down', "result") = IdsOf(down, "result")
      /\ IsAnswered(down, target) => IsAnswered(down', target)
      /\ host = Aborted /\ Overtaken(down, target) => Overtaken(down', target)
  BY <1>2, SaidOfList
<1>4. WireKept'
  BY <1>1, <1>3 DEF DInv, WireKept
<1>5. IdsKept'
  BY <1>1, <1>3 DEF DInv, IdsKept, UsedIds, ViewSubs, TaskIds
<1>6. LogsKept' /\ ActsKept'
  BY <1>1, <1>3, LogsStay, ActsStay DEF DInv, LogsKept, ActsKept
<1>7. ListKept'
  <2>1. Coming' = Coming
    BY <1>1 DEF Coming
  <2>2. QED
    BY <1>1, <1>3, <2>1 DEF DInv, ListKept
<1>8. ConfirmedAsAsked'
  BY <1>1 DEF DInv, ConfirmedAsAsked
<1>9. QED
  BY <1>4, <1>5, <1>6, <1>7, <1>8 DEF LinkInv

LEMMA ForwardLink == ASSUME DInv, NEW host \in Hosts, ForwardList(host) PROVE LinkInv'
<1>1. /\ host \in lists /\ host \in Speakers
      /\ UNCHANGED <<target, shown, logs, nextId, pending, toasts, up, daemonVars>>
  BY DEF ForwardList, tuiVars, tileVars, viewVars, Speakers
<1>2. PICK m \in Reports(host) : down' = Append(down, m)
  BY DEF ForwardList
<1>3. Coming
  BY <1>1, OthersAreGivenUp
<1>4. QED
  BY <1>1, <1>2, <1>3, ReportLink

LEMMA ForwardLateLink == ASSUME DInv, ForwardLate PROVE LinkInv'
<1>1. /\ Aborted \in Speakers
      /\ UNCHANGED <<target, shown, logs, nextId, pending, toasts, up, daemonVars>>
  BY DEF ForwardLate, tuiVars, tileVars, viewVars, Speakers
<1>2. PICK m \in Reports(Aborted) : down' = Append(down, m)
  BY DEF ForwardLate
<1>3. QED
  BY <1>1, <1>2, ReportLink

LEMMA StreamEndsLink == ASSUME DInv, StreamEnds PROVE LinkInv'
<1>1. PICK s \in streams : streams' = streams \ {s} /\ down' = Append(down, End(s.id))
  BY DEF StreamEnds
<1>2. UNCHANGED <<target, shown, logs, nextId, pending, toasts, up,
                  lists, acts, agents, late, deaf>>
  BY DEF StreamEnds, tuiVars, tileVars, viewVars
<1>3. s.id \in Ids
  BY DEF DInv, WireKept, Tasks
<1>4. End(s.id) \in EventRec /\ End(s.id).t = "end" /\ End(s.id).id = s.id
  BY <1>3, EventsSent
<1>5. /\ down' \in Seq(EventRec) /\ Distinct(down', "result")
      /\ IdsOf(down', "end") = IdsOf(down, "end") \cup {s.id}
      /\ IdsOf(down', "result") = IdsOf(down, "result")
      /\ Overtaken(down, target) => Overtaken(down', target)
      /\ IsAnswered(down, target) => IsAnswered(down', target)
  BY <1>1, <1>4, Said
<1>6. TaskIds(streams) = TaskIds(streams)' \cup {s.id}
  BY <1>1 DEF TaskIds
<1>7. StreamIds = StreamIds' \cup {s.id}
  BY <1>2, <1>6 DEF StreamIds
<1>8. ViewSubs' = ViewSubs /\ UsedIds' = UsedIds
  BY <1>2 DEF ViewSubs, UsedIds
<1>9. WireKept'
  <2>1. IsFiniteSet(streams') /\ streams' \subseteq streams
    BY <1>1, FS_RemoveElement DEF DInv, WireKept
  <2>2. QED
    BY <1>2, <1>5, <2>1 DEF DInv, WireKept
<1>10. IdsKept'
  BY <1>2, <1>5, <1>6, <1>8 DEF DInv, IdsKept, TaskIds
<1>11. LogsKept'
  BY <1>2, <1>5, <1>7, <1>8 DEF DInv, LogsKept
<1>12. ActsKept'
  BY <1>2, <1>5, ActsStay DEF DInv, ActsKept
<1>13. ListKept'
  BY <1>2, <1>5, ListStays DEF DInv, ListKept
<1>14. ConfirmedAsAsked'
  BY <1>2 DEF DInv, ConfirmedAsAsked
<1>15. QED
  BY <1>9, <1>10, <1>11, <1>12, <1>13, <1>14 DEF LinkInv

\* An action has one result: no other is under way or answered under its id.
LEMMA ActionEndsLink == ASSUME DInv, ActionEnds PROVE LinkInv'
<1>1. PICK a \in acts : acts' = acts \ {a} /\ down' = Append(down, Result(a.id))
  BY DEF ActionEnds
<1>2. UNCHANGED <<target, shown, logs, nextId, pending, toasts, up,
                  lists, streams, agents, late, deaf>>
  BY DEF ActionEnds, tuiVars, tileVars, viewVars
<1>3. a.id \in Ids /\ a.id \in TaskIds(acts)
  BY DEF DInv, WireKept, Tasks, TaskIds
<1>4. Result(a.id) \in EventRec /\ Result(a.id).t = "result" /\ Result(a.id).id = a.id
  BY <1>3, EventsSent
<1>5. /\ down' \in Seq(EventRec)
      /\ IdsOf(down', "end") = IdsOf(down, "end")
      /\ IdsOf(down', "result") = IdsOf(down, "result") \cup {a.id}
      /\ Overtaken(down, target) => Overtaken(down', target)
      /\ IsAnswered(down, target) => IsAnswered(down', target)
  BY <1>1, <1>4, Said
<1>6. ActsKept
  BY DEF DInv
<1>7. Distinct(down', "result")
  BY <1>1, <1>3, <1>4, <1>6, AppendDistinct DEF DInv, WireKept, ActsKept
<1>8. TaskIds(acts)' = TaskIds(acts) \ {a.id}
  <2>1. \A b \in acts : b.id = a.id <=> b = a
    BY <1>6 DEF ActsKept
  <2>2. QED
    BY <1>1, <2>1 DEF TaskIds
<1>9. WireKept'
  <2>1. IsFiniteSet(acts') /\ acts' \subseteq acts
    BY <1>1, FS_RemoveElement DEF DInv, WireKept
  <2>2. QED
    BY <1>2, <1>5, <2>1 DEF DInv, WireKept
<1>10. IdsKept'
  <2>1. ViewSubs' = ViewSubs /\ UsedIds' = UsedIds /\ TaskIds(streams)' = TaskIds(streams)
    BY <1>2 DEF ViewSubs, UsedIds
  <2>2. a.id \in UsedIds
    BY <1>3 DEF DInv, IdsKept
  <2>3. QED
    BY <1>2, <1>5, <1>8, <2>1, <2>2 DEF DInv, IdsKept
<1>11. LogsKept'
  BY <1>2, <1>5, LogsStay DEF DInv, LogsKept
<1>12. ActsKept'
  <2>1. \A b, c \in acts' : b.id = c.id => b = c
    BY <1>1, <1>6 DEF ActsKept
  <2>2. /\ \A i \in IdsOf(up, "act") : i \notin TaskIds(acts)' /\ i \notin IdsOf(down', "result")
        /\ \A i \in TaskIds(acts)' : i \notin IdsOf(down', "result")
    BY <1>3, <1>5, <1>6, <1>8 DEF ActsKept
  <2>3. \A i \in IdsOf(up, "act") \cup TaskIds(acts)' \cup IdsOf(down', "result") :
           toasts[i] \in {<<>>, <<"timed out">>}
    BY <1>3, <1>5, <1>6, <1>8 DEF ActsKept
  <2>4. QED
    BY <1>2, <1>6, <1>7, <2>1, <2>2, <2>3 DEF ActsKept
<1>13. ListKept'
  BY <1>2, <1>5, ListStays DEF DInv, ListKept
<1>14. ConfirmedAsAsked'
  BY <1>2 DEF DInv, ConfirmedAsAsked
<1>15. QED
  BY <1>9, <1>10, <1>11, <1>12, <1>13, <1>14 DEF LinkInv

\* What the session routed through a lost agent is told of: each stream and each
\* action of its host, once.
LEMMA LostTasks ==
    ASSUME DInv, NEW S \in SUBSET Tasks, IsFiniteSet(S)
    PROVE  LET e == SetToSeq({End(s.id) : s \in S})
               r == SetToSeq({Result(s.id) : s \in S})
           IN  /\ e \in Seq(EventRec) /\ r \in Seq(EventRec)
               /\ IdsOf(e, "end") = TaskIds(S) /\ IdsOf(e, "result") = {}
               /\ IdsOf(r, "result") = TaskIds(S) /\ IdsOf(r, "end") = {}
               /\ \A m \in Range(e) \cup Range(r) : ~Tells(m)
               /\ Distinct(e, "result") /\ Distinct(r, "result")
<1> DEFINE E == {End(s.id) : s \in S}
           R == {Result(s.id) : s \in S}
<1>1. \A s \in S : s.id \in Ids
  BY DEF Tasks
<1>2. /\ E \subseteq EventRec /\ \A m \in E : m.t = "end" /\ ~Tells(m)
      /\ R \subseteq EventRec /\ \A m \in R : m.t = "result" /\ ~Tells(m)
  BY <1>1, EventsSent DEF Tells
<1>3. /\ {m.id : m \in E} = TaskIds(S) /\ {m.id : m \in R} = TaskIds(S)
      /\ \A m, n \in R : m.id = n.id => m = n
  BY <1>1, EventsSent DEF TaskIds
<1>4. IsFiniteSet(E)
  <2> DEFINE f == [s \in S |-> End(s.id)]
  <2>1. f \in Surjection(S, E)
    BY DEF Surjection
  <2>2. QED
    BY <2>1, FS_Surjection
<1>5. IsFiniteSet(R)
  <2> DEFINE f == [s \in S |-> Result(s.id)]
  <2>1. f \in Surjection(S, R)
    BY DEF Surjection
  <2>2. QED
    BY <2>1, FS_Surjection
<1> HIDE DEF E, R
<1> DEFINE e == SetToSeq(E)
           r == SetToSeq(R)
<1>6. e \in Seq(E) /\ Range(e) = E
  BY <1>4, SetToSeqLists
<1>7. /\ r \in Seq(R) /\ Range(r) = R
      /\ \A i, j \in DOMAIN r : i # j => r[i] # r[j]
  BY <1>5, SetToSeqLists
<1> HIDE DEF e, r
<1>8. e \in Seq(EventRec) /\ r \in Seq(EventRec)
  BY <1>2, <1>6, <1>7
<1>9. /\ IdsOf(e, "end") = TaskIds(S) /\ IdsOf(e, "result") = {}
  BY <1>2, <1>3, <1>6 DEF IdsOf
<1>10. /\ IdsOf(r, "result") = TaskIds(S) /\ IdsOf(r, "end") = {}
  BY <1>2, <1>3, <1>7 DEF IdsOf
<1>11. \A i \in DOMAIN e : e[i] \in E
  BY <1>6 DEF Range
<1>12. \A i \in DOMAIN r : r[i] \in R
  BY <1>7 DEF Range
<1>13. Distinct(e, "result")
  BY <1>2, <1>11 DEF Distinct
<1>14. Distinct(r, "result")
  BY <1>3, <1>7, <1>12 DEF Distinct
<1>15. \A m \in Range(e) \cup Range(r) : ~Tells(m)
  BY <1>2, <1>6, <1>7
<1>16. QED
  BY <1>8, <1>9, <1>10, <1>13, <1>14, <1>15 DEF e, r, E, R

LEMMA DrainLink ==
    ASSUME DInv, NEW host \in Hosts, Drain(host), late' = late,
           agents' \subseteq Hosts \ {Local}, deaf' \subseteq Hosts \ {Local},
           UNCHANGED <<target, shown, logs, nextId, pending, toasts, up>>
    PROVE  LinkInv'
<1> DEFINE lostStreams == {s \in streams : s.host = host}
           lostActs == {b \in acts : b.host = host}
           gone == IF host \in lists THEN <<Gone(host)>> ELSE <<>>
           e == SetToSeq({End(s.id) : s \in lostStreams})
           r == SetToSeq({Result(s.id) : s \in lostActs})
           v == down \o gone
           w == v \o e
<1>1. /\ down' = w \o r /\ lists' = lists \ {host} /\ late' = late
      /\ agents' \subseteq Hosts \ {Local} /\ deaf' \subseteq Hosts \ {Local}
      /\ streams' = {s \in streams : s.host # host}
      /\ acts' = {a \in acts : a.host # host}
      /\ UNCHANGED <<target, shown, logs, nextId, pending, toasts, up>>
  BY DEF Drain
<1>2. WireKept /\ IdsKept /\ LogsKept /\ ActsKept /\ ListKept
  BY DEF DInv
<1>3. /\ lostStreams \in SUBSET streams /\ lostStreams \in SUBSET Tasks /\ IsFiniteSet(lostStreams)
  BY <1>2, FS_Subset DEF WireKept
<1>4. /\ lostActs \in SUBSET acts /\ lostActs \in SUBSET Tasks /\ IsFiniteSet(lostActs)
  BY <1>2, FS_Subset DEF WireKept
<1>5. /\ streams' \in SUBSET streams /\ IsFiniteSet(streams')
      /\ acts' \in SUBSET acts /\ IsFiniteSet(acts')
  <2>1. streams' \in SUBSET streams /\ acts' \in SUBSET acts
    BY <1>1
  <2>2. QED
    BY <1>2, <2>1, FS_Subset DEF WireKept
<1>6. TaskIds(streams) = TaskIds(streams)' \cup TaskIds(lostStreams)
  BY <1>1 DEF TaskIds
<1>7. /\ TaskIds(acts)' \subseteq TaskIds(acts) /\ TaskIds(lostActs) \subseteq TaskIds(acts)
      /\ \A i \in TaskIds(acts)' : i \notin TaskIds(lostActs)
  BY <1>1, <1>2 DEF TaskIds, ActsKept
<1> HIDE DEF lostStreams, lostActs
<1>8. /\ e \in Seq(EventRec) /\ IdsOf(e, "end") = TaskIds(lostStreams)
      /\ IdsOf(e, "result") = {} /\ Distinct(e, "result")
      /\ \A m \in Range(e) : ~Tells(m)
  BY <1>3, LostTasks
<1>9. /\ r \in Seq(EventRec) /\ IdsOf(r, "result") = TaskIds(lostActs)
      /\ IdsOf(r, "end") = {} /\ Distinct(r, "result")
      /\ \A m \in Range(r) : ~Tells(m)
  BY <1>4, LostTasks
<1> HIDE DEF e, r
\* First the list.
<1>10. /\ v \in Seq(EventRec) /\ Distinct(v, "result")
       /\ IdsOf(v, "end") = IdsOf(down, "end") /\ IdsOf(v, "result") = IdsOf(down, "result")
       /\ IsAnswered(down, target) => IsAnswered(v, target)
       /\ host \notin lists => v = down
       /\ host \in lists /\ host = target => Overtaken(v, target) /\ IsAnswered(v, target)
  <2>1. down \in Seq(EventRec) /\ Distinct(down, "result")
    BY <1>2 DEF WireKept, ActsKept
  <2>2. CASE host \notin lists
    <3>1. v = down
      BY <2>1, <2>2
    <3>2. QED
      BY <2>1, <2>2, <3>1
  <2>3. CASE host \in lists
    <3>1. Gone(host) \in EventRec /\ Gone(host).t = "gone" /\ Gone(host).host = host
      BY EventsSent
    <3>2. v = Append(down, Gone(host))
      BY <2>1, <2>3, <3>1
    <3> HIDE DEF v
    <3>3. v \in Seq(EventRec)
      BY <2>1, <3>1, <3>2, AppendRange
    <3>4. Distinct(v, "result")
      BY <2>1, <3>1, <3>2, AppendDistinct
    <3>5. IdsOf(v, "end") = IdsOf(down, "end") /\ IdsOf(v, "result") = IdsOf(down, "result")
      BY <2>1, <3>1, <3>2, AppendIds
    <3>6. /\ IsAnswered(down, target) => IsAnswered(v, target)
          /\ host = target => Overtaken(v, target) /\ IsAnswered(v, target)
      <4>1. host = target => IsAnswer(Gone(host), target)
        BY <3>1 DEF IsAnswer, Tells
      <4>2. QED
        BY <2>1, <3>1, <3>2, <4>1, AppendOvertaken
    <3>7. QED
      BY <2>3, <3>3, <3>4, <3>5, <3>6
  <2>4. QED
    BY <2>2, <2>3
<1> HIDE DEF v
\* Then the streams and the actions.
<1>11. /\ w \in Seq(EventRec) /\ Distinct(w, "result")
       /\ IdsOf(w, "end") = IdsOf(down, "end") \cup TaskIds(lostStreams)
       /\ IdsOf(w, "result") = IdsOf(down, "result")
       /\ IsAnswered(v, target) => IsAnswered(w, target)
       /\ Overtaken(v, target) => Overtaken(w, target)
  <2>1. w \in Seq(EventRec)
    BY <1>8, <1>10, JoinRange
  <2>2. Distinct(w, "result")
    BY <1>8, <1>10, JoinDistinct
  <2>3. \A t : IdsOf(w, t) = IdsOf(v, t) \cup IdsOf(e, t)
    BY <1>8, <1>10, JoinIds
  <2>4. /\ IsAnswered(v, target) => IsAnswered(w, target)
        /\ Overtaken(v, target) => Overtaken(w, target)
    BY <1>8, <1>10, JoinOvertaken
  <2>5. QED
    BY <1>8, <1>10, <2>1, <2>2, <2>3, <2>4
<1> HIDE DEF w
<1>12. /\ down' \in Seq(EventRec) /\ Distinct(down', "result")
       /\ IdsOf(down', "end") = IdsOf(down, "end") \cup TaskIds(lostStreams)
       /\ IdsOf(down', "result") = IdsOf(down, "result") \cup TaskIds(lostActs)
       /\ IsAnswered(w, target) => IsAnswered(down', target)
       /\ Overtaken(w, target) => Overtaken(down', target)
  <2>1. w \o r \in Seq(EventRec)
    BY <1>9, <1>11, JoinRange
  <2>2. Distinct(w \o r, "result")
    <3>1. \A i \in IdsOf(w, "result") : i \notin IdsOf(r, "result")
      BY <1>2, <1>7, <1>9, <1>11 DEF ActsKept
    <3>2. QED
      BY <1>9, <1>11, <3>1, JoinDistinct
  <2>3. \A t : IdsOf(w \o r, t) = IdsOf(w, t) \cup IdsOf(r, t)
    BY <1>9, <1>11, JoinIds
  <2>4. /\ IsAnswered(w, target) => IsAnswered(w \o r, target)
        /\ Overtaken(w, target) => Overtaken(w \o r, target)
    BY <1>9, <1>11, JoinOvertaken
  <2>5. QED
    BY <1>1, <1>9, <1>11, <2>1, <2>2, <2>3, <2>4
<1>13. StreamIds = StreamIds' \cup TaskIds(lostStreams)
  BY <1>1, <1>6 DEF StreamIds
<1>14. ViewSubs' = ViewSubs /\ UsedIds' = UsedIds
  BY <1>1 DEF ViewSubs, UsedIds
<1>15. WireKept'
  BY <1>1, <1>2, <1>5, <1>12 DEF WireKept
<1>16. IdsKept'
  BY <1>1, <1>2, <1>6, <1>7, <1>12, <1>14 DEF IdsKept
<1>17. LogsKept'
  BY <1>1, <1>2, <1>12, <1>13, <1>14 DEF LogsKept
<1>18. ActsKept'
  <2>1. \A b, c \in acts' : b.id = c.id => b = c
    BY <1>2, <1>5 DEF ActsKept
  <2>2. /\ \A i \in IdsOf(up, "act") : i \notin TaskIds(acts)' /\ i \notin IdsOf(down', "result")
        /\ \A i \in TaskIds(acts)' : i \notin IdsOf(down', "result")
    BY <1>2, <1>7, <1>12 DEF ActsKept
  <2>3. \A i \in IdsOf(up, "act") \cup TaskIds(acts)' \cup IdsOf(down', "result") :
           toasts[i] \in {<<>>, <<"timed out">>}
    BY <1>2, <1>7, <1>12 DEF ActsKept
  <2>4. QED
    BY <1>1, <1>2, <1>12, <2>1, <2>2, <2>3 DEF ActsKept
<1>19. ListKept'
  <2>1. /\ EndsWith(up', target') /\ \A h \in lists' : h # target' => GivesUp(up')
    BY <1>1, <1>2 DEF ListKept
  <2>2. CASE host \notin lists
    <3>1. Coming' = Coming
      BY <1>1, <2>2 DEF Coming
    <3>2. QED
      BY <1>1, <1>2, <1>10, <1>11, <1>12, <2>1, <2>2, <3>1 DEF ListKept
  <2>3. CASE host \in lists /\ host = target
    BY <1>1, <1>10, <1>11, <1>12, <2>1, <2>3 DEF ListKept
  <2>4. CASE host \in lists /\ host # target
    <3>1. Coming
      BY <2>4, OthersAreGivenUp
    <3>2. Coming'
      BY <1>1, <2>4, <3>1 DEF Coming
    <3>3. QED
      BY <2>1, <3>2 DEF ListKept
  <2>5. QED
    BY <2>2, <2>3, <2>4
<1>20. ConfirmedAsAsked'
  BY <1>1 DEF DInv, ConfirmedAsAsked
<1>21. QED
  BY <1>15, <1>16, <1>17, <1>18, <1>19, <1>20 DEF LinkInv

LEMMA AgentsLink ==
    ASSUME DInv, NEW host \in Hosts,
           AgentRefuses(host) \/ AgentLost(host) \/ AgentShutDown(host) \/ AgentFound(host)
    PROVE  LinkInv'
<1>1. /\ UNCHANGED <<target, shown, logs, nextId, pending, toasts, up>>
      /\ UNCHANGED late /\ late \in BOOLEAN
      /\ agents \subseteq Hosts \ {Local} /\ deaf \subseteq Hosts \ {Local}
  BY DEF AgentRefuses, AgentLost, AgentShutDown, AgentFound, tuiVars, tileVars, viewVars,
         DInv, WireKept
<1>2. CASE AgentRefuses(host)
  <2>1. agents' \subseteq agents /\ UNCHANGED <<down, lists, streams, acts, deaf>>
    BY <1>2 DEF AgentRefuses
  <2>2. QED
    BY <1>1, <2>1, LinkIdles
<1>3. CASE AgentLost(host) \/ AgentShutDown(host) \/ AgentFound(host)
  <2>1. /\ Drain(host)
        /\ agents' \subseteq Hosts \ {Local} /\ deaf' \subseteq Hosts \ {Local}
    BY <1>1, <1>3 DEF AgentLost, AgentShutDown, AgentFound
  <2>2. QED
    BY <1>1, <2>1, DrainLink
<1>4. QED
  BY <1>2, <1>3

LEMMA AnnouncedLink == ASSUME DInv, NEW host \in Hosts, HostAnnounced(host) PROVE LinkInv'
<1> DEFINE m == [t |-> "host", host |-> host, up |-> host \in agents]
<1>1. /\ host # Local /\ down' = Append(down, m)
      /\ UNCHANGED <<target, shown, logs, nextId, pending, toasts, up,
                     lists, streams, acts, agents, late, deaf>>
  BY DEF HostAnnounced, tuiVars, tileVars, viewVars, daemonVars
<1>2. (host \in agents) \in BOOLEAN
  <2>1. CASE host \in agents
    <3>1. (host \in agents) = TRUE
      BY <2>1
    <3>2. QED
      BY <3>1
  <2>2. CASE host \notin agents
    <3>1. (host \in agents) = FALSE
      BY <2>2
    <3>2. QED
      BY <3>1
  <2>3. QED
    BY <2>1, <2>2
<1>3. m \in EventRec /\ m.t = "host"
  BY <1>1, <1>2, EventsSent
<1> HIDE DEF m
<1>4. /\ down' \in Seq(EventRec) /\ Distinct(down', "result")
      /\ IdsOf(down', "end") = IdsOf(down, "end")
      /\ IdsOf(down', "result") = IdsOf(down, "result")
      /\ Overtaken(down, target) => Overtaken(down', target)
      /\ IsAnswered(down, target) => IsAnswered(down', target)
  BY <1>1, <1>3, Said
<1>5. WireKept'
  BY <1>1, <1>4 DEF DInv, WireKept
<1>6. IdsKept'
  BY <1>1, <1>4 DEF DInv, IdsKept, UsedIds, ViewSubs, TaskIds
<1>7. LogsKept' /\ ActsKept'
  BY <1>1, <1>4, LogsStay, ActsStay DEF DInv, LogsKept, ActsKept
<1>8. ListKept' /\ ConfirmedAsAsked'
  BY <1>1, <1>4, ListStays DEF DInv, ListKept, ConfirmedAsAsked
<1>9. QED
  BY <1>5, <1>6, <1>7, <1>8 DEF LinkInv

-----------------------------------------------------------------------------
(* Every step.                                                             *)

\* Keys, clicks and the tick that move nothing but the tile.
LEMMA QuietLink ==
    ASSUME DInv, \/ Navigate \/ FilterKey \/ BeginConfirm \/ OpenPicker \/ PickerKey
                 \/ MoveFocus \/ PaneTakesFocus \/ ClickRow \/ ConfirmExpires
    PROVE  LinkInv'
<1>1. UNCHANGED <<target, shown, logs, nextId, pending, toasts, up, down, daemonVars>>
  BY DEF Navigate, FilterKey, BeginConfirm, OpenPicker, PickerKey, MoveFocus, PaneTakesFocus,
         ClickRow, ConfirmExpires, tileVars, viewVars
<1>2. QED
  BY <1>1, LinkRests

LEMMA LinkNext == DInv /\ [Next]_vars => LinkInv'
<1> SUFFICES ASSUME DInv, [Next]_vars PROVE LinkInv'
  OBVIOUS
<1>1. CASE Keys
  BY <1>1, QuietLink, ActNowLink, ReconnectLink, ConfirmKeyLink, EnterLogsLink, LeaveLogsLink,
     CommitLink DEF Keys
<1>2. CASE MoveFocus \/ PaneTakesFocus \/ ClickRow \/ ConfirmExpires \/ ActionExpires
  BY <1>2, QuietLink, ActionExpiresLink
<1>3. CASE Receive
  BY <1>3, ReceiveLink
<1>4. CASE Session
  BY <1>4, SubscribesLink, StreamsLink, UnsubscribesLink, ActsLink DEF Session
<1>5. CASE StreamEnds \/ ActionEnds
  BY <1>5, StreamEndsLink, ActionEndsLink
<1>6. CASE Agents
  BY <1>6, AgentsLink, AnnouncedLink DEF Agents
<1>7. CASE ForwardLate \/ \E h \in Hosts : ForwardList(h)
  BY <1>7, ForwardLateLink, ForwardLink
<1>8. CASE ForwarderStops
  <2>1. late' \in BOOLEAN /\ agents' \subseteq agents
        /\ UNCHANGED <<target, shown, logs, nextId, pending, toasts, up, down,
                       lists, streams, acts, deaf>>
    BY <1>8 DEF ForwarderStops, tuiVars, tileVars, viewVars
  <2>2. QED
    BY <2>1, LinkIdles
<1>9. CASE UNCHANGED vars
  BY <1>9, LinkRests DEF vars, tuiVars, tileVars, viewVars
<1>10. QED
  BY <1>1, <1>2, <1>3, <1>4, <1>5, <1>6, <1>7, <1>8, <1>9 DEF Next

LEMMA SpecDInv == Spec => []DInv
<1>1. DInv /\ [Next]_vars => DInv'
  <2>1. DInv /\ [Next]_vars => TileKept' /\ LinkInv'
    BY TileNext, LinkNext
  <2>2. TileKept' /\ LinkInv' => DInv'
    BY DEF DInv, LinkInv
  <2>3. QED
    BY <2>1, <2>2
<1>2. QED
  BY InitDInv, <1>1, PTL DEF Spec

-----------------------------------------------------------------------------
(* The Docker tile does what it says.                                      *)

\* The cursor of the list is on a row whenever there is one, a confirmed action is
\* the one its prompt asked for, and of each action the user is told once in time,
\* or first that it timed out and at most once more (clamp_selection,
\* handle_confirm_modal_key, sweep_expired, handle_docker_action_result).
THEOREM DockerInvHolds == Spec => []DockerInv
<1>1. DInv => DockerInv
  <2> SUFFICES ASSUME DInv PROVE DockerInv
    OBVIOUS
  <2>1. TypeOK
    <3>1. VisibleRows # <<>> => Selected # {}
      BY DEF DInv, TileKept, CursorOn, VisibleRows, Selected
    <3>2. QED
      BY <3>1 DEF DInv, TileKept, WireKept, TypeOK, Speakers
  <2>2. ToldInOrder
    BY DEF DInv, ActsKept, ToldInOrder
  <2>3. QED
    BY <2>1, <2>2 DEF DInv, DockerInv
<1>2. QED
  BY <1>1, SpecDInv, PTL

\* Log streams are neither leaked nor silent: once the commands under way are handled
\* the daemon streams to the current view and to nothing else, and a view whose stream
\* is over has been told or will be (try_enter_logs_view, leave_logs_view,
\* retarget_docker, forward_docker_logs, run_envelope_parser).
THEOREM LogsAreAccounted == Spec => []LogsAccounted
<1>1. DInv => LogsAccounted
  <2> SUFFICES ASSUME DInv PROVE LogsAccounted
    OBVIOUS
  <2>1. \A i : i \in IdsOf(up, "unsub") => \E j \in DOMAIN up : up[j] = Unsub(i)
    <3>1. SUFFICES ASSUME NEW i, i \in IdsOf(up, "unsub")
                   PROVE  \E j \in DOMAIN up : up[j] = Unsub(i)
      OBVIOUS
    <3>2. PICK j \in DOMAIN up : up[j].t = "unsub" /\ up[j].id = i
      BY <3>1 DEF IdsOf, Range
    <3>3. up[j] \in CommandRec
      BY DEF DInv, WireKept
    <3>4. QED
      BY <3>2, <3>3, CommandFields
  <2>2. \A i \in Ids : (\E j \in DOMAIN up : up[j].t = "logs" /\ up[j].id = i)
                          <=> i \in IdsOf(up, "logs")
    BY DEF IdsOf, Range
  <2>3. \A i : i \in IdsOf(down, "end") => \E j \in DOMAIN down : down[j] = End(i)
    <3>1. SUFFICES ASSUME NEW i, i \in IdsOf(down, "end")
                   PROVE  \E j \in DOMAIN down : down[j] = End(i)
      OBVIOUS
    <3>2. PICK j \in DOMAIN down : down[j].t = "end" /\ down[j].id = i
      BY <3>1 DEF IdsOf, Range
    <3>3. down[j] \in EventRec
      BY DEF DInv, WireKept
    <3>4. QED
      BY <3>2, <3>3, EventFields
  <2>4. \A l \in logs : l.sub \in Ids
    BY DEF DInv, TileKept, LogsViews
  <2> DEFINE Streaming == {s.id : s \in streams}
                 \cup {i \in Ids : \E j \in DOMAIN up : up[j].t = "logs" /\ up[j].id = i}
  <2>5. Streaming \subseteq StreamIds
    BY <2>2 DEF StreamIds, TaskIds
  <2>6. \A i \in StreamIds \cap Ids : i \in Streaming
    BY <2>2 DEF StreamIds, TaskIds
  <2> HIDE DEF Streaming
  <2>7. \A i \in Streaming : (~\E j \in DOMAIN up : up[j] = Unsub(i)) => \E l \in logs : l.sub = i
    BY <2>1, <2>5 DEF DInv, LogsKept, ViewSubs
  <2>8. \A l \in logs : l.ended \/ l.sub \in Streaming
                        \/ \E j \in DOMAIN down : down[j] = End(l.sub)
    BY <2>3, <2>4, <2>6 DEF DInv, LogsKept
  <2>9. QED
    BY <2>7, <2>8 DEF LogsAccounted, Streaming
<1>2. QED
  BY <1>1, SpecDInv, PTL

\* Retargeting reuses the subscription id, so the tile may show the old target's list
\* for a while; the new target's is then asked for, served or on its way back.  Only
\* what a local forwarder says after its abort can stay (retarget_docker,
\* handle_docker_event, route_remote_subscribe, handle_client's Unsubscribe).
THEOREM StaleListIsOvertaken == Spec => []StaleIsOvertaken
<1>1. DInv => StaleIsOvertaken
  <2> SUFFICES ASSUME DInv PROVE StaleIsOvertaken
    OBVIOUS
  <2>1. shown.st = "connecting" \/ shown.host \notin {target, Aborted}
           => Coming \/ IsAnswered(down, target)
    BY DEF DInv, ListKept
  <2>2. Asks(up, target) => \E i \in DOMAIN up : up[i].t = "sub" /\ up[i].host = target
    BY DEF Asks, IsSub, Range
  <2>3. IsAnswered(down, target)
           => \E i \in DOMAIN down : down[i].t \in {"list", "gone"} /\ down[i].host = target
    BY DEF IsAnswered, IsAnswer, Tells, Range
  <2>4. QED
    BY <2>1, <2>2, <2>3 DEF StaleIsOvertaken, Coming
<1>2. QED
  BY <1>1, SpecDInv, PTL

-----------------------------------------------------------------------------
(* The list tiles: the cursor.                                             *)

\* The rows that pass the filter of a view, which its cursor does not change.
LEMMA KeysOf ==
    ASSUME NEW w, w.rows \in Seq(RowKeys)
    PROVE  /\ VisibleKeys(w) \in Seq(RowKeys) /\ Len(VisibleKeys(w)) \in Nat
           /\ DOMAIN VisibleKeys(w) = 1 .. Len(VisibleKeys(w))
           /\ VisibleKeys(w) # <<>> <=> Len(VisibleKeys(w)) # 0
           /\ w.rows = <<>> => VisibleKeys(w) = <<>>
<1>1. VisibleKeys(w) \in Seq(RowKeys) /\ (w.rows = <<>> => VisibleKeys(w) = <<>>)
  BY FilteredAreRows DEF VisibleKeys
<1>2. QED
  BY <1>1

LEMMA SameKeys ==
    ASSUME NEW w, NEW x, x.rows = w.rows, x.filter = w.filter
    PROVE  VisibleKeys(x) = VisibleKeys(w)
  BY DEF VisibleKeys

\* A view as it is kept: its cursor is on a row if there is one, and it has rows
\* only after a list.
OnRow(w) == VisibleKeys(w) # <<>> => w.sel \in DOMAIN VisibleKeys(w)
KeptView(w) == w \in View /\ OnRow(w) /\ (w.st # "available" => w.rows = <<>>)

\* What moving the cursor changes of a view.
LEMMA CursorSet ==
    ASSUME NEW w \in View, NEW i \in Nat \ {0}
    PROVE  LET x == [w EXCEPT !.sel = i]
           IN  /\ x \in View /\ x.sel = i /\ x.st = w.st /\ x.rows = w.rows
               /\ x.filter = w.filter /\ x.typing = w.typing
               /\ VisibleKeys(x) = VisibleKeys(w)
<1> DEFINE x == [w EXCEPT !.sel = i]
<1>1. /\ x \in View /\ x.sel = i /\ x.st = w.st /\ x.rows = w.rows
      /\ x.filter = w.filter /\ x.typing = w.typing
  BY DEF View
<1> HIDE DEF x
<1>2. VisibleKeys(x) = VisibleKeys(w)
  BY <1>1, SameKeys
<1>3. QED
  BY <1>1, <1>2 DEF x

\* reanchor_selection ends on a row, and on the old key's if that is shown.
LEMMA ReanchoredIsOn ==
    ASSUME NEW w \in View, NEW key, w.st # "available" => w.rows = <<>>
    PROVE  LET x == Reanchored(w, key)
           IN  /\ KeptView(x) /\ x.st = w.st /\ x.rows = w.rows /\ x.filter = w.filter
               /\ x.typing = w.typing /\ VisibleKeys(x) = VisibleKeys(w)
               /\ w.st = "available" /\ PlaceOf(w, key) # {} => x.sel \in PlaceOf(w, key)
<1> DEFINE x == Reanchored(w, key)
           n == Len(VisibleKeys(w))
<1>1. w.rows \in Seq(RowKeys) /\ w.sel \in Nat \ {0}
  BY DEF View
<1>2. /\ n \in Nat /\ DOMAIN VisibleKeys(w) = 1 .. n
      /\ VisibleKeys(w) # <<>> <=> n # 0
  BY <1>1, KeysOf
<1> HIDE DEF n
<1>3. PICK i \in Nat \ {0} : /\ x = [w EXCEPT !.sel = i] /\ (n # 0 => i \in 1 .. n)
                             /\ w.st = "available" /\ PlaceOf(w, key) # {} => i \in PlaceOf(w, key)
  <2>1. CASE w.st # "available"
    <3>1. x = [w EXCEPT !.sel = 1]
      BY <2>1 DEF Reanchored
    <3>2. 1 \in Nat \ {0} /\ (n # 0 => 1 \in 1 .. n)
      BY <1>2
    <3> HIDE DEF x
    <3>3. QED
      BY <2>1, <3>1, <3>2
  <2>2. CASE w.st = "available" /\ PlaceOf(w, key) # {}
    <3> DEFINE i == CHOOSE i \in PlaceOf(w, key) : TRUE
    <3>1. i \in PlaceOf(w, key)
      BY <2>2
    <3>2. i \in 1 .. n
      BY <1>2, <3>1 DEF PlaceOf
    <3>3. x = [w EXCEPT !.sel = i]
      BY <2>2 DEF Reanchored
    <3> HIDE DEF i, x
    <3>4. QED
      BY <1>2, <3>1, <3>2, <3>3
  <2>3. CASE w.st = "available" /\ PlaceOf(w, key) = {}
    <3> DEFINE i == IF n = 0 THEN 1 ELSE IF w.sel > n THEN n ELSE w.sel
    <3>1. x = [w EXCEPT !.sel = i]
      BY <2>3 DEF Reanchored, n
    <3>2. i \in Nat \ {0} /\ (n # 0 => i \in 1 .. n)
      BY <1>1, <1>2
    <3> HIDE DEF i, x
    <3>3. QED
      BY <2>3, <3>1, <3>2
  <2>4. QED
    BY <2>1, <2>2, <2>3
<1> HIDE DEF x
<1>4. /\ x \in View /\ x.sel = i /\ x.st = w.st /\ x.rows = w.rows
      /\ x.filter = w.filter /\ x.typing = w.typing /\ VisibleKeys(x) = VisibleKeys(w)
  BY <1>3, CursorSet
<1>5. KeptView(x)
  BY <1>2, <1>3, <1>4 DEF KeptView, OnRow
<1>6. QED
  BY <1>3, <1>4, <1>5 DEF x

LEMMA MovedIsOn ==
    ASSUME NEW w, KeptView(w), NEW x \in Moved(w)
    PROVE  KeptView(x) /\ x.rows = w.rows /\ x.filter = w.filter
<1> DEFINE n == Len(VisibleKeys(w))
<1>1. w \in View /\ w.rows \in Seq(RowKeys) /\ w.sel \in Nat \ {0}
  BY DEF KeptView, View
<1>2. /\ n \in Nat /\ DOMAIN VisibleKeys(w) = 1 .. n
      /\ VisibleKeys(w) # <<>> <=> n # 0
  BY <1>1, KeysOf
<1>3. PICK i : /\ x = [w EXCEPT !.sel = i]
               /\ i \in {IF w.sel > 1 THEN w.sel - 1 ELSE 1,
                         IF w.sel < n THEN w.sel + 1 ELSE w.sel, 1, IF n = 0 THEN 1 ELSE n}
  BY DEF Moved
<1> HIDE DEF n
<1>4. n # 0 => w.sel \in 1 .. n
  BY <1>2 DEF KeptView, OnRow
<1>5. i \in Nat \ {0} /\ (n # 0 => i \in 1 .. n)
  BY <1>1, <1>2, <1>3, <1>4
<1>6. /\ x \in View /\ x.sel = i /\ x.st = w.st /\ x.rows = w.rows
      /\ x.filter = w.filter /\ VisibleKeys(x) = VisibleKeys(w)
  BY <1>1, <1>3, <1>5, CursorSet
<1>7. QED
  BY <1>2, <1>5, <1>6 DEF KeptView, OnRow

LEMMA TypingSet ==
    ASSUME NEW w, KeptView(w), NEW b \in BOOLEAN
    PROVE  LET x == [w EXCEPT !.typing = b]
           IN  KeptView(x) /\ x.rows = w.rows /\ x.filter = w.filter
<1> DEFINE x == [w EXCEPT !.typing = b]
<1>1. /\ x \in View /\ x.sel = w.sel /\ x.st = w.st /\ x.rows = w.rows
      /\ x.filter = w.filter
  BY DEF KeptView, View
<1> HIDE DEF x
<1>2. VisibleKeys(x) = VisibleKeys(w)
  BY <1>1, SameKeys
<1>3. QED
  BY <1>1, <1>2 DEF x, KeptView, OnRow

LEMMA FilteredIsOn ==
    ASSUME NEW w, KeptView(w), NEW x \in Filtered(w)
    PROVE  KeptView(x) /\ x.rows = w.rows
<1> DEFINE Typed(f) == [w EXCEPT !.filter = f]
           Under(f) == Reanchored(Typed(f), SelectedKey(Typed(f)))
<1>1. \A f \in FilterLengths : KeptView(Under(f)) /\ Under(f).rows = w.rows
  <2>1. TAKE f \in FilterLengths
  <2>2. /\ Typed(f) \in View /\ Typed(f).st = w.st /\ Typed(f).rows = w.rows
        /\ Typed(f).st # "available" => Typed(f).rows = <<>>
    BY DEF KeptView, View
  <2> HIDE DEF Typed
  <2>3. QED
    BY <2>2, ReanchoredIsOn
<1>2. \/ x = [w EXCEPT !.typing = FALSE]
      \/ x = [w EXCEPT !.typing = TRUE]
      \/ x = [Under(0) EXCEPT !.typing = FALSE]
      \/ \E f \in FilterLengths : x = Under(f)
  BY DEF Filtered
<1>3. 0 \in FilterLengths
  BY TuiListsConstants
<1> HIDE DEF Under
<1>4. CASE x = [w EXCEPT !.typing = FALSE] \/ x = [w EXCEPT !.typing = TRUE]
  BY <1>4, TypingSet
<1>5. CASE x = [Under(0) EXCEPT !.typing = FALSE]
  BY <1>1, <1>3, <1>5, TypingSet
<1>6. CASE \E f \in FilterLengths : x = Under(f)
  BY <1>1, <1>6
<1>7. QED
  BY <1>2, <1>4, <1>5, <1>6

-----------------------------------------------------------------------------
(* The inductive invariant of the list tiles.                              *)

ClickRec == [tile : {"ports", "fleet"}, row : Nat, key : SUBSET RowKeys]

ViewsKept ==
    /\ focused \in {"ports", "fleet", "other"} /\ active \in {"ports", "processes"}
    /\ view \in [Views -> View] /\ \A v \in Views : KeptView(view[v])

\* The first click on the Fleet tile knows the row it hit, until the rows are others.
KnowsRow(c) ==
    \/ c.key = {}
    \/ /\ c.row \in DOMAIN VisibleKeys(view["fleet"])
       /\ c.key = {VisibleKeys(view["fleet"])[c.row]}
ClicksKept ==
    /\ last \subseteq ClickRec /\ AtMostOne(last)
    /\ \A c \in last : c.tile = "fleet" => KnowsRow(c)
    /\ OpensWhatWasClicked

StatesKept ==
    /\ states \in [RowKeys -> States \cup {"none"}] /\ RowsHaveStates

LInv == ViewsKept /\ ClicksKept /\ StatesKept

LEMMA InitLInv == ListsInit => LInv
<1> SUFFICES ASSUME ListsInit PROVE LInv
  OBVIOUS
<1>1. Empty("connecting") \in View /\ KeptView(Empty("connecting"))
  <2> DEFINE w == Empty("connecting")
  <2>1. 0 \in FilterLengths
    BY TuiListsConstants
  <2>2. w \in View /\ w.rows = <<>> /\ w.rows \in Seq(RowKeys)
    BY <2>1 DEF Empty, View
  <2>3. VisibleKeys(w) = <<>>
    BY <2>2, KeysOf
  <2>4. QED
    BY <2>2, <2>3 DEF KeptView, OnRow
<1>2. ViewsKept
  BY <1>1 DEF ListsInit, ViewsKept
<1>3. ClicksKept
  BY DEF ListsInit, ClicksKept, AtMostOne, OpensWhatWasClicked
<1>4. StatesKept
  BY DEF ListsInit, StatesKept, RowsHaveStates, Empty, Range, Views
<1>5. QED
  BY <1>2, <1>3, <1>4 DEF LInv

\* One view changes to another that is as it should be.
LEMMA ViewChanges ==
    ASSUME ViewsKept, NEW v \in Views, NEW w, KeptView(w), view' = [view EXCEPT ![v] = w],
           focused' \in {"ports", "fleet", "other"}, UNCHANGED active
    PROVE  ViewsKept' /\ view'[v] = w /\ \A u \in Views \ {v} : view'[u] = view[u]
<1>1. w \in View
  BY DEF KeptView
<1>2. view' \in [Views -> View] /\ view'[v] = w /\ \A u \in Views \ {v} : view'[u] = view[u]
  BY <1>1 DEF ViewsKept
<1>3. \A u \in Views : KeptView(view'[u])
  BY <1>2 DEF ViewsKept
<1>4. QED
  BY <1>2, <1>3 DEF ViewsKept, KeptView, OnRow, VisibleKeys

\* Clicks are remembered while the rows of the Fleet tile stay, or are forgotten.
LEMMA ClicksStay ==
    ASSUME ClicksKept, UNCHANGED <<last, opened>>,
           VisibleKeys(view'["fleet"]) = VisibleKeys(view["fleet"])
    PROVE  ClicksKept'
<1>1. \A c \in last : KnowsRow(c) => KnowsRow(c)'
  <2>1. VisibleKeys(view["fleet"])' = VisibleKeys(view["fleet"])
    BY DEF VisibleKeys
  <2>2. QED
    BY <2>1 DEF KnowsRow
<1>2. QED
  BY <1>1 DEF ClicksKept, AtMostOne, OpensWhatWasClicked

LEMMA ClicksForgotten ==
    ASSUME ClicksKept, NEW v \in Views, Forgets(v), UNCHANGED opened,
           v # "fleet" => view'["fleet"] = view["fleet"]
    PROVE  ClicksKept'
<1>1. last' = {IF c.tile = TileOf(v) THEN [c EXCEPT !.key = {}] ELSE c : c \in last}
  BY DEF Forgets
<1>2. \A d \in last' : \E c \in last : d = IF c.tile = TileOf(v) THEN [c EXCEPT !.key = {}] ELSE c
  BY <1>1
<1>3. \A c \in last : c \in ClickRec
  BY DEF ClicksKept
<1>4. \A d \in last' : d \in ClickRec
  BY <1>2, <1>3 DEF ClickRec
<1>5. AtMostOne(last')
  BY <1>2 DEF ClicksKept, AtMostOne
<1>6. ASSUME NEW d \in last', d.tile = "fleet" PROVE KnowsRow(d)'
  <2>1. PICK c \in last : d = IF c.tile = TileOf(v) THEN [c EXCEPT !.key = {}] ELSE c
    BY <1>2
  <2>2. CASE c.tile = TileOf(v)
    BY <1>3, <2>1, <2>2 DEF KnowsRow, ClickRec
  <2>3. CASE c.tile # TileOf(v)
    <3>1. d = c /\ v # "fleet"
      BY <1>6, <2>1, <2>3 DEF TileOf
    <3>2. KnowsRow(c)
      BY <1>6, <3>1 DEF ClicksKept
    <3>3. VisibleKeys(view["fleet"])' = VisibleKeys(view["fleet"])
      BY <3>1 DEF VisibleKeys
    <3>4. QED
      BY <3>1, <3>2, <3>3 DEF KnowsRow
  <2>4. QED
    BY <2>2, <2>3
<1>7. QED
  BY <1>4, <1>5, <1>6 DEF ClicksKept, OpensWhatWasClicked, AtMostOne

LEMMA StatesStay ==
    ASSUME StatesKept, UNCHANGED states, view'["fleet"].rows = view["fleet"].rows
    PROVE  StatesKept'
  BY DEF StatesKept, RowsHaveStates

-----------------------------------------------------------------------------
(* Keys, retargets and clicks.                                             *)

LEMMA ViewKeyStep ==
    ASSUME LInv, NEW v \in Views, ViewKey(v)
    PROVE  LInv' /\ \A u \in Views : view'[u].rows = view[u].rows
<1>1. PICK w \in (IF view[v].typing THEN {} ELSE Moved(view[v])) \cup Filtered(view[v]) :
         /\ view' = [view EXCEPT ![v] = w]
         /\ IF w.filter = view[v].filter THEN UNCHANGED last ELSE Forgets(v)
  BY DEF ViewKey
<1>2. UNCHANGED <<focused, active, states, opened>>
  BY DEF ViewKey
<1>3. KeptView(view[v]) /\ focused \in {"ports", "fleet", "other"}
  BY DEF LInv, ViewsKept
<1>4. KeptView(w) /\ w.rows = view[v].rows
  <2>1. CASE w \in Moved(view[v])
    BY <1>3, <2>1, MovedIsOn
  <2>2. CASE w \in Filtered(view[v])
    BY <1>3, <2>2, FilteredIsOn
  <2>3. QED
    BY <1>1, <2>1, <2>2
<1>5. ViewsKept' /\ view'[v] = w /\ \A u \in Views \ {v} : view'[u] = view[u]
  BY <1>1, <1>2, <1>3, <1>4, ViewChanges DEF LInv
<1>6. ClicksKept'
  <2>1. CASE w.filter = view[v].filter
    <3>1. VisibleKeys(view'["fleet"]) = VisibleKeys(view["fleet"])
      BY <1>4, <1>5, <2>1, SameKeys DEF Views
    <3>2. QED
      BY <1>1, <1>2, <2>1, <3>1, ClicksStay DEF LInv
  <2>2. CASE w.filter # view[v].filter
    <3>1. v # "fleet" => view'["fleet"] = view["fleet"]
      BY <1>5 DEF Views
    <3>2. QED
      BY <1>1, <1>2, <2>2, <3>1, ClicksForgotten DEF LInv
  <2>3. QED
    BY <2>1, <2>2
<1>7. view'["fleet"].rows = view["fleet"].rows
  BY <1>4, <1>5 DEF Views
<1>8. QED
  BY <1>2, <1>4, <1>5, <1>6, <1>7, StatesStay DEF LInv

\* A view without rows, as a retarget or an unavailable engine leaves it.
LEMMA EmptiedIsOn ==
    ASSUME NEW w \in View, NEW st \in {"connecting", "unavailable"},
           NEW x, x = [w EXCEPT !.st = st, !.rows = <<>>, !.sel = 1]
    PROVE  KeptView(x) /\ x.rows = <<>> /\ VisibleKeys(x) = <<>>
<1>1. x.st = st /\ x.rows = <<>> /\ x.rows \in Seq(RowKeys)
  BY DEF View
<1>2. x \in View
  <2>1. x = [st |-> st, rows |-> <<>>, sel |-> 1, filter |-> w.filter, typing |-> w.typing]
    BY DEF View
  <2>2. w.filter \in FilterLengths /\ w.typing \in BOOLEAN
    BY DEF View
  <2>3. <<>> \in Seq(RowKeys) /\ 1 \in Nat \ {0}
    OBVIOUS
  <2>4. QED
    BY <2>1, <2>2, <2>3 DEF View
<1>3. VisibleKeys(x) = <<>>
  BY <1>1, KeysOf
<1>4. QED
  BY <1>1, <1>2, <1>3 DEF KeptView, OnRow

LEMMA RetargetStep ==
    ASSUME LInv, NEW v \in Views, v # "fleet", RetargetView(v)
    PROVE  /\ LInv' /\ VisibleKeys(view'[v]) = <<>>
           /\ \A u \in Views \ {v} : view'[u] = view[u]
<1> DEFINE w == [view[v] EXCEPT !.st = "connecting", !.rows = <<>>, !.sel = 1]
<1>1. view[v] \in View /\ view \in [Views -> View] /\ focused \in {"ports", "fleet", "other"}
  BY DEF LInv, ViewsKept
<1>2. KeptView(w) /\ VisibleKeys(w) = <<>>
  BY <1>1, EmptiedIsOn
<1>3. view' = [view EXCEPT ![v] = w]
  BY <1>1 DEF RetargetView
<1> HIDE DEF w
<1>4. UNCHANGED <<focused, active, states, last, opened>>
  BY DEF RetargetView, mouseVars
<1>5. ViewsKept' /\ view'[v] = w /\ \A u \in Views \ {v} : view'[u] = view[u]
  BY <1>1, <1>2, <1>3, <1>4, ViewChanges DEF LInv
<1>6. ClicksKept'
  <2>1. view'["fleet"] = view["fleet"]
    BY <1>5 DEF Views
  <2>2. QED
    BY <1>4, <2>1, ClicksStay DEF LInv
<1>7. view'["fleet"] = view["fleet"]
  BY <1>5 DEF Views
<1>8. QED
  BY <1>2, <1>4, <1>5, <1>6, <1>7, StatesStay DEF LInv

\* A click on a row selects it; a double click on a host opens a pane to the host
\* under the cursor, which is the one that the first click knows.
LEMMA ClickStep ==
    ASSUME LInv, NEW v \in Views, NEW y \in 1 .. Height, Click(v, y)
    PROVE  LInv' /\ \A u \in Views : view'[u].rows = view[u].rows
<1>1. /\ UNCHANGED <<active, states>> /\ focused' = TileOf(v)
      /\ focused' \in {"ports", "fleet", "other"}
      /\ view \in [Views -> View] /\ KeptView(view[v])
  BY DEF Click, TileOf, LInv, ViewsKept
<1>2. CASE UNCHANGED <<view, last, opened>>
  <2>1. ViewsKept'
    BY <1>1, <1>2 DEF LInv, ViewsKept, KeptView, OnRow, VisibleKeys
  <2>2. ClicksKept'
    BY <1>2, ClicksStay DEF LInv
  <2>3. QED
    BY <1>1, <1>2, <2>1, <2>2, StatesStay DEF LInv
<1>3. ASSUME NEW row \in ClickedRows(v, y),
             LET w == [view[v] EXCEPT !.sel = row] IN
             /\ view' = [view EXCEPT ![v] = w]
             /\ last' = {[tile |-> TileOf(v), row |-> row, key |-> SelectedKey(w)]}
             /\ \/ UNCHANGED opened
                \/ /\ v = "fleet" /\ IsDouble(v, row)
                   /\ \E c \in last, h \in SelectedKey(w) :
                         opened' = opened \cup {[first |-> c.key, host |-> h]}
      PROVE  LInv' /\ \A u \in Views : view'[u].rows = view[u].rows
  <2> DEFINE w == [view[v] EXCEPT !.sel = row]
             n == Len(VisibleKeys(view[v]))
             c1 == [tile |-> TileOf(v), row |-> row, key |-> SelectedKey(w)]
  <2>1. view[v] \in View /\ view[v].rows \in Seq(RowKeys)
    BY <1>1 DEF View
  <2>2. row \in DOMAIN VisibleKeys(view[v]) /\ row \in Nat \ {0}
    <3>1. row \in DOMAIN VisibleKeys(view[v])
      BY <1>3 DEF ClickedRows
    <3>2. DOMAIN VisibleKeys(view[v]) = 1 .. n /\ n \in Nat
      BY <2>1, KeysOf
    <3> HIDE DEF n
    <3>3. QED
      BY <3>1, <3>2
  <2>3. /\ w \in View /\ w.sel = row /\ w.st = view[v].st /\ w.rows = view[v].rows
        /\ VisibleKeys(w) = VisibleKeys(view[v])
    BY <2>1, <2>2, CursorSet
  <2>4. view' = [view EXCEPT ![v] = w] /\ last' = {c1}
    BY <1>3
  <2> HIDE DEF w
  <2>5. KeptView(w)
    BY <1>1, <2>2, <2>3 DEF KeptView, OnRow
  <2>6. ViewsKept' /\ view'[v] = w /\ \A u \in Views \ {v} : view'[u] = view[u]
    BY <1>1, <2>4, <2>5, ViewChanges DEF LInv
  <2>7. SelectedKey(w) = {VisibleKeys(w)[row]} /\ VisibleKeys(w)[row] \in RowKeys
    <3>1. VisibleKeys(w) \in Seq(RowKeys) /\ row \in DOMAIN VisibleKeys(w)
      BY <2>1, <2>2, <2>3, KeysOf
    <3>2. QED
      BY <2>3, <3>1 DEF SelectedKey
  <2>8. c1 \in ClickRec /\ c1.row = row /\ c1.tile = TileOf(v) /\ c1.key = {VisibleKeys(w)[row]}
    BY <2>2, <2>7 DEF ClickRec, TileOf
  <2> HIDE DEF c1
  <2>9. ASSUME NEW d \in last', d.tile = "fleet" PROVE KnowsRow(d)'
    <3>1. d.row = row /\ d.key = {VisibleKeys(w)[row]} /\ v = "fleet"
      BY <2>4, <2>8, <2>9 DEF TileOf
    <3>2. VisibleKeys(view["fleet"])' = VisibleKeys(w)
      BY <2>6, <3>1 DEF VisibleKeys
    <3>3. QED
      BY <2>2, <2>3, <3>1, <3>2 DEF KnowsRow
  <2>10. OpensWhatWasClicked'
    <3>1. OpensWhatWasClicked
      BY DEF LInv, ClicksKept
    <3>2. CASE UNCHANGED opened
      BY <3>1, <3>2 DEF OpensWhatWasClicked
    <3>3. ASSUME v = "fleet", IsDouble(v, row), NEW c \in last, NEW h \in SelectedKey(w),
                 opened' = opened \cup {[first |-> c.key, host |-> h]}
          PROVE  OpensWhatWasClicked'
      <4>1. c.tile = "fleet" /\ c.row = row
        BY <3>3 DEF IsDouble, LInv, ClicksKept, AtMostOne, TileOf
      <4>2. c.key = {} \/ c.key = {VisibleKeys(view["fleet"])[row]}
        BY <4>1 DEF LInv, ClicksKept, KnowsRow
      <4>3. h = VisibleKeys(view["fleet"])[row]
        BY <2>3, <2>7, <3>3
      <4>4. c.key \in {{}, {h}}
        BY <4>2, <4>3
      <4>5. QED
        BY <3>1, <3>3, <4>4 DEF OpensWhatWasClicked
    <3>4. QED
      BY <1>3, <3>2, <3>3 DEF w
  <2>11. ClicksKept'
    <3>1. last' \subseteq ClickRec /\ AtMostOne(last')
      BY <2>4, <2>8 DEF AtMostOne
    <3>2. QED
      BY <2>9, <2>10, <3>1 DEF ClicksKept, AtMostOne
  <2>12. view'["fleet"].rows = view["fleet"].rows
    BY <1>1, <2>3, <2>6 DEF Views
  <2>13. QED
    BY <1>1, <2>3, <2>6, <2>11, <2>12, StatesStay DEF LInv
<1>4. QED
  BY <1>2, <1>3 DEF Click

-----------------------------------------------------------------------------
(* Events.                                                                 *)

\* A list replaces the rows; the cursor is on the row it was on, if that is shown.
LEMMA RefreshedView ==
    ASSUME LInv, NEW v \in Views, NEW l \in RowLists, Refreshed(v, l), UNCHANGED <<focused, active, opened>>
    PROVE  /\ ViewsKept' /\ ClicksKept' /\ view'[v].rows = l
           /\ \A u \in Views \ {v} : view'[u] = view[u]
           /\ SelectedKey(view[v]) # {} /\ PlaceOf(view'[v], SelectedKey(view[v])) # {}
                 => SelectedKey(view'[v]) = SelectedKey(view[v])
<1> DEFINE w == [view[v] EXCEPT !.st = "available", !.rows = l]
           key == SelectedKey(view[v])
           x == Reanchored(w, key)
<1>1. view[v] \in View /\ view \in [Views -> View] /\ focused \in {"ports", "fleet", "other"}
  BY DEF LInv, ViewsKept
<1>2. w \in View /\ w.st = "available" /\ w.rows \in Seq(RowKeys) /\ w.rows = l
  <2>1. l \in Seq(RowKeys)
    BY TuiListsConstants
  <2>2. QED
    BY <1>1, <2>1 DEF View
<1>3. view' = [view EXCEPT ![v] = x] /\ Forgets(v)
  BY DEF Refreshed
<1> HIDE DEF w, key
<1>9. x.rows = l
  BY <1>2 DEF Reanchored, View
<1>4. /\ KeptView(x) /\ VisibleKeys(x) = VisibleKeys(w)
      /\ PlaceOf(w, key) # {} => x.sel \in PlaceOf(w, key)
  BY <1>2, ReanchoredIsOn
<1> HIDE DEF x
<1>5. ViewsKept' /\ view'[v] = x /\ \A u \in Views \ {v} : view'[u] = view[u]
  BY <1>1, <1>3, <1>4, ViewChanges DEF LInv
<1>6. ClicksKept'
  <2>1. v # "fleet" => view'["fleet"] = view["fleet"]
    BY <1>5 DEF Views
  <2>2. QED
    BY <1>3, <2>1, ClicksForgotten DEF LInv
<1>7. ASSUME key # {}, PlaceOf(x, key) # {} PROVE SelectedKey(x) = key
  <2>1. x.sel \in PlaceOf(x, key)
    BY <1>4, <1>7 DEF PlaceOf
  <2>2. x.sel \in DOMAIN VisibleKeys(x) /\ VisibleKeys(x)[x.sel] \in key
    BY <2>1 DEF PlaceOf
  <2>3. SelectedKey(x) = {VisibleKeys(x)[x.sel]}
    BY <2>2 DEF SelectedKey
  <2>4. \A k \in key : key = {k}
    BY DEF key, SelectedKey
  <2>5. QED
    BY <2>2, <2>3, <2>4
<1>8. QED
  BY <1>5, <1>6, <1>7, <1>9 DEF key

LEMMA ListStep ==
    ASSUME LInv, PortList \/ ProcessList
    PROVE  /\ LInv'
           /\ \A v \in Views :
                 \/ view'[v].rows = view[v].rows
                 \/ SelectedKey(view[v]) # {} /\ PlaceOf(view'[v], SelectedKey(view[v])) # {}
                       => SelectedKey(view'[v]) = SelectedKey(view[v])
<1>1. PICK v \in Views \ {"fleet"}, l \in RowLists : Refreshed(v, l)
  BY DEF PortList, ProcessList, Views
<1>2. UNCHANGED <<focused, active, states, opened>>
  BY DEF PortList, ProcessList
<1>3. /\ ViewsKept' /\ ClicksKept'
      /\ \A u \in Views \ {v} : view'[u] = view[u]
      /\ SelectedKey(view[v]) # {} /\ PlaceOf(view'[v], SelectedKey(view[v])) # {}
            => SelectedKey(view'[v]) = SelectedKey(view[v])
  BY <1>1, <1>2, RefreshedView
<1>4. view'["fleet"] = view["fleet"]
  BY <1>3 DEF Views
<1>5. QED
  BY <1>2, <1>3, <1>4, StatesStay DEF LInv

LEMMA UnavailableStep ==
    ASSUME LInv, Unavailable
    PROVE  /\ LInv'
           /\ \A u \in Views : view'[u] = view[u] \/ VisibleKeys(view'[u]) = <<>>
<1>1. PICK v \in {"ports", "processes"} :
         /\ view' = [view EXCEPT ![v].st = "unavailable", ![v].rows = <<>>, ![v].sel = 1]
         /\ Forgets(v)
  BY DEF Unavailable
<1> DEFINE w == [view[v] EXCEPT !.st = "unavailable", !.rows = <<>>, !.sel = 1]
<1>2. /\ v \in Views /\ v # "fleet" /\ view[v] \in View /\ view \in [Views -> View]
      /\ focused \in {"ports", "fleet", "other"}
  BY <1>1 DEF LInv, ViewsKept, Views
<1>3. KeptView(w) /\ VisibleKeys(w) = <<>>
  BY <1>2, EmptiedIsOn
<1>4. view' = [view EXCEPT ![v] = w]
  BY <1>1, <1>2
<1> HIDE DEF w
<1>5. UNCHANGED <<focused, active, states, opened>>
  BY DEF Unavailable
<1>6. ViewsKept' /\ view'[v] = w /\ \A u \in Views \ {v} : view'[u] = view[u]
  BY <1>2, <1>3, <1>4, <1>5, ViewChanges DEF LInv
<1>7. ClicksKept'
  <2>1. view'["fleet"] = view["fleet"]
    BY <1>2, <1>6 DEF Views
  <2>2. QED
    BY <1>1, <1>2, <1>5, <2>1, ClicksForgotten DEF LInv
<1>8. view'["fleet"] = view["fleet"]
  BY <1>2, <1>6 DEF Views
<1>9. QED
  BY <1>3, <1>5, <1>6, <1>7, <1>8, StatesStay DEF LInv

\* The list of hosts carries the states over, and gives one to every new row.
LEMMA HostListStep ==
    ASSUME LInv, HostList
    PROVE  /\ LInv'
           /\ \A v \in Views :
                 \/ view'[v].rows = view[v].rows
                 \/ SelectedKey(view[v]) # {} /\ PlaceOf(view'[v], SelectedKey(view[v])) # {}
                       => SelectedKey(view'[v]) = SelectedKey(view[v])
<1>1. PICK l \in RowLists :
         /\ Refreshed("fleet", l)
         /\ states' = [a \in RowKeys |-> IF a \notin Range(l) THEN "none"
                                         ELSE IF states[a] # "none" THEN states[a]
                                         ELSE "Disconnected"]
  BY DEF HostList
<1>2. UNCHANGED <<focused, active, opened>> /\ "fleet" \in Views
  BY DEF HostList, Views
<1>3. /\ ViewsKept' /\ ClicksKept' /\ view'["fleet"].rows = l
      /\ \A u \in Views \ {"fleet"} : view'[u] = view[u]
      /\ SelectedKey(view["fleet"]) # {} /\ PlaceOf(view'["fleet"], SelectedKey(view["fleet"])) # {}
            => SelectedKey(view'["fleet"]) = SelectedKey(view["fleet"])
  BY <1>1, <1>2, RefreshedView
<1>4. StatesKept'
  <2>1. states \in [RowKeys -> States \cup {"none"}]
    BY DEF LInv, StatesKept
  <2>2. states' \in [RowKeys -> States \cup {"none"}]
    BY <1>1, <2>1 DEF States
  <2>3. ASSUME NEW a \in Range(l) PROVE states'[a] # "none"
    <3>1. l \in Seq(RowKeys)
      BY TuiListsConstants
    <3>2. a \in RowKeys
      BY <3>1 DEF Range
    <3>3. QED
      BY <1>1, <3>2
  <2>4. QED
    BY <1>3, <2>2, <2>3 DEF StatesKept, RowsHaveStates
<1>5. QED
  BY <1>3, <1>4 DEF LInv

\* A host that is reported has a state.
LEMMA HostStateStep == ASSUME LInv, HostStateChanged PROVE LInv'
<1>1. PICK a \in RowKeys, s \in States : states' = [states EXCEPT ![a] = s]
  BY DEF HostStateChanged
<1>2. UNCHANGED <<focused, active, view, last, opened>>
  BY DEF HostStateChanged, mouseVars
<1>3. StatesKept'
  <2>1. states \in [RowKeys -> States \cup {"none"}] /\ RowsHaveStates
    BY DEF LInv, StatesKept
  <2>2. s # "none"
    BY DEF States
  <2>3. QED
    BY <1>1, <1>2, <2>1, <2>2 DEF StatesKept, RowsHaveStates
<1>4. ViewsKept'
  BY <1>2 DEF LInv, ViewsKept, KeptView, OnRow, VisibleKeys
<1>5. ClicksKept'
  BY <1>2, ClicksStay DEF LInv
<1>6. QED
  BY <1>3, <1>4, <1>5 DEF LInv

-----------------------------------------------------------------------------
(* What is drawn, and what a click on it hits.                             *)

BarLines(w) == IF w.typing \/ w.filter # 0 THEN 2 ELSE 1

\* Three sequences one after the other, the last of them one line that shows no row.
LEMMA Stacked ==
    ASSUME NEW top \in Seq(Nat), NEW mid \in Seq(Nat)
    PROVE  /\ \A i \in 1 .. Len(top) : (top \o mid \o <<0>>)[i] = top[i]
           /\ \A i \in 1 .. Len(mid) : (top \o mid \o <<0>>)[Len(top) + i] = mid[i]
           /\ (top \o mid \o <<0>>)[Len(top) + Len(mid) + 1] = 0
<1> DEFINE head == top \o mid
           help == <<0>>
<1>1. /\ head \in Seq(Nat) /\ Len(head) = Len(top) + Len(mid)
      /\ \A i \in 1 .. Len(top) : head[i] = top[i]
      /\ \A i \in 1 .. Len(mid) : head[Len(top) + i] = mid[i]
  OBVIOUS
<1>2. help \in Seq(Nat) /\ Len(help) = 1 /\ help[1] = 0
  OBVIOUS
<1> HIDE DEF head, help
<1>3. /\ \A i \in 1 .. Len(head) : (head \o help)[i] = head[i]
      /\ \A i \in 1 .. Len(help) : (head \o help)[Len(head) + i] = help[i]
  <2>1. head \in Seq(Nat) /\ help \in Seq(Nat)
    BY <1>1, <1>2
  <2>2. QED
    BY <2>1, JoinRange
<1>4. Len(top) \in Nat /\ Len(mid) \in Nat /\ 1 \in 1 .. Len(help)
  BY <1>2
<1>5. \A i \in 1 .. Len(top) : i \in 1 .. Len(head)
  BY <1>1, <1>4
<1>6. \A i \in 1 .. Len(mid) : Len(top) + i \in 1 .. Len(head)
  BY <1>1, <1>4
<1>7. (head \o help)[Len(head) + 1] = 0
  BY <1>2, <1>3, <1>4
<1>8. /\ \A i \in 1 .. Len(top) : (head \o help)[i] = top[i]
      /\ \A i \in 1 .. Len(mid) : (head \o help)[Len(top) + i] = mid[i]
      /\ (head \o help)[Len(top) + Len(mid) + 1] = 0
  BY <1>1, <1>3, <1>5, <1>6, <1>7
<1>9. QED
  BY <1>8 DEF head, help

\* A line of a tile: none of the body's on the bars and the help line.
LEMMA FramedLine ==
    ASSUME NEW w, NEW body \in Seq(Nat), NEW y \in 1 .. Height
    PROVE  Framed(w, body)[y] = IF /\ y > BarLines(w) /\ y < Height
                                   /\ y - BarLines(w) \in DOMAIN body
                                THEN body[y - BarLines(w)] ELSE 0
<1> DEFINE top == IF w.typing \/ w.filter # 0 THEN <<0, 0>> ELSE <<0>>
           T == BarLines(w)
           room == Height - Len(top) - 1
           mid == [i \in 1 .. room |-> IF i \in DOMAIN body THEN body[i] ELSE 0]
<1>1. /\ top \in Seq(Nat) /\ Len(top) = T /\ T \in {1, 2} /\ \A i \in 1 .. T : top[i] = 0
  <2>1. CASE w.typing \/ w.filter # 0
    <3>1. /\ <<0, 0>> \in Seq(Nat) /\ Len(<<0, 0>>) = 2 /\ \A i \in 1 .. 2 : <<0, 0>>[i] = 0
      OBVIOUS
    <3>2. top = <<0, 0>> /\ T = 2
      BY <2>1 DEF BarLines
    <3> HIDE DEF top, T
    <3>3. QED
      BY <3>1, <3>2
  <2>2. CASE ~(w.typing \/ w.filter # 0)
    <3>1. /\ <<0>> \in Seq(Nat) /\ Len(<<0>>) = 1 /\ \A i \in 1 .. 1 : <<0>>[i] = 0
      OBVIOUS
    <3>2. top = <<0>> /\ T = 1
      BY <2>2 DEF BarLines
    <3> HIDE DEF top, T
    <3>3. QED
      BY <3>1, <3>2
  <2>3. QED
    BY <2>1, <2>2
<1> DEFINE all == top \o mid \o <<0>>
<1>2. Framed(w, body) = all
  BY DEF Framed
<1> HIDE DEF top, T
<1>3. Height \in Nat /\ Height >= 4
  BY TuiListsConstants
<1>4. room \in Nat /\ room = Height - T - 1
  BY <1>1, <1>3
<1>5. /\ mid \in Seq(Nat) /\ Len(mid) = room
      /\ \A i \in 1 .. room : mid[i] = IF i \in DOMAIN body THEN body[i] ELSE 0
  <2>1. \A i \in DOMAIN body : body[i] \in Nat
    OBVIOUS
  <2> HIDE DEF room
  <2>2. mid \in [1 .. room -> Nat]
    BY <2>1
  <2>3. QED
    BY <1>4, <2>2
<1> HIDE DEF mid, room
<1>6. /\ \A i \in 1 .. Len(top) : all[i] = top[i]
      /\ \A i \in 1 .. Len(mid) : all[Len(top) + i] = mid[i]
      /\ all[Len(top) + Len(mid) + 1] = 0
  <2>1. top \in Seq(Nat) /\ mid \in Seq(Nat)
    BY <1>1, <1>5
  <2>2. QED
    BY <2>1, Stacked
<1> HIDE DEF all
<1>7. /\ \A i \in 1 .. T : all[i] = 0
      /\ \A i \in 1 .. room : all[T + i] = mid[i]
      /\ all[T + room + 1] = 0
  BY <1>1, <1>5, <1>6
<1>8. CASE y \in 1 .. T
  <2>1. ~(y > T)
    BY <1>1, <1>8
  <2>2. QED
    BY <1>2, <1>7, <1>8, <2>1 DEF T
<1>9. CASE y \in T + 1 .. Height - 1
  <2>1. y > T /\ y < Height /\ y - T \in 1 .. room /\ T + (y - T) = y
    BY <1>1, <1>3, <1>4, <1>9
  <2>2. all[y] = mid[y - T]
    BY <1>7, <2>1
  <2>3. QED
    BY <1>2, <1>5, <2>1, <2>2 DEF T
<1>10. CASE y = Height
  <2>1. y = T + room + 1 /\ ~(y < Height)
    BY <1>1, <1>3, <1>4, <1>10
  <2>2. QED
    BY <1>2, <1>7, <2>1
<1>11. y \in 1 .. T \/ y \in T + 1 .. Height - 1 \/ y = Height
  BY <1>1, <1>3
<1>12. QED
  BY <1>8, <1>9, <1>10, <1>11

\* The bodies of the tiles: row r is on line r of the Fleet's, after the header of
\* the others'.
LEMMA BodyLine ==
    ASSUME NEW w, w.rows \in Seq(RowKeys)
    PROVE  LET n == Len(VisibleKeys(w))
               b == IF VisibleKeys(w) = <<>> THEN <<>> ELSE <<0>> \o RowLines(w)
           IN  /\ RowLines(w) \in Seq(Nat) /\ DOMAIN RowLines(w) = 1 .. n
               /\ \A i \in 1 .. n : RowLines(w)[i] = i
               /\ b \in Seq(Nat) /\ DOMAIN b = (IF n = 0 THEN {} ELSE 1 .. n + 1)
               /\ \A i \in DOMAIN b : b[i] = i - 1
<1> DEFINE n == Len(VisibleKeys(w))
           r == RowLines(w)
           b == IF VisibleKeys(w) = <<>> THEN <<>> ELSE <<0>> \o r
<1>1. /\ n \in Nat /\ DOMAIN VisibleKeys(w) = 1 .. n
      /\ VisibleKeys(w) # <<>> <=> n # 0
  BY KeysOf
<1>2. r = [i \in 1 .. n |-> i]
  BY <1>1 DEF RowLines
<1> HIDE DEF n
<1>3. r \in Seq(Nat) /\ DOMAIN r = 1 .. n /\ Len(r) = n /\ \A i \in 1 .. n : r[i] = i
  <2>1. r \in [1 .. n -> Nat] /\ \A i \in 1 .. n : r[i] = i
    BY <1>2
  <2> HIDE DEF r
  <2>2. QED
    BY <1>1, <2>1
<1> HIDE DEF r
<1>4. b \in Seq(Nat) /\ DOMAIN b = (IF n = 0 THEN {} ELSE 1 .. n + 1)
      /\ \A i \in DOMAIN b : b[i] = i - 1
  <2>1. CASE n = 0
    <3>1. b = <<>>
      BY <1>1, <2>1
    <3> HIDE DEF b
    <3>2. QED
      BY <2>1, <3>1
  <2>2. CASE n # 0
    <3>1. b = <<0>> \o r
      BY <1>1, <2>2
    <3>2. <<0>> \in Seq(Nat) /\ Len(<<0>>) = 1 /\ <<0>>[1] = 0
      OBVIOUS
    <3>3. /\ <<0>> \o r \in Seq(Nat) /\ Len(<<0>> \o r) = 1 + n
          /\ (<<0>> \o r)[1] = 0 /\ \A i \in 1 .. n : (<<0>> \o r)[1 + i] = i
      BY <1>3, <3>2
    <3> HIDE DEF b
    <3>4. /\ b \in Seq(Nat) /\ DOMAIN b = 1 .. n + 1
          /\ b[1] = 0 /\ \A i \in 1 .. n : b[1 + i] = i
      BY <1>1, <3>1, <3>3
    <3>5. \A i \in 1 .. n + 1 : b[i] = i - 1
      <4>1. TAKE i \in 1 .. n + 1
      <4>2. CASE i = 1
        BY <3>4, <4>2
      <4>3. CASE i # 1
        <5>1. i - 1 \in 1 .. n /\ 1 + (i - 1) = i
          BY <1>1, <4>3
        <5>2. QED
          BY <3>4, <5>1
      <4>4. QED
        BY <4>2, <4>3
    <3>6. QED
      BY <2>2, <3>4, <3>5
  <2>3. QED
    BY <2>1, <2>2
<1>5. QED
  BY <1>3, <1>4 DEF n, r, b

LEMMA ClickHits == LInv => ClickHitsDrawnRow
<1> SUFFICES ASSUME LInv, NEW v \in Views, NEW y \in 1 .. Height
             PROVE  ClickedRows(v, y) = {Drawn(v)[y]} \ {0}
  BY DEF ClickHitsDrawnRow
<1> DEFINE w == view[v]
           n == Len(VisibleKeys(w))
           T == BarLines(w)
<1>1. KeptView(w) /\ w.rows \in Seq(RowKeys)
  BY DEF LInv, ViewsKept, KeptView, View
<1>2. /\ n \in Nat /\ DOMAIN VisibleKeys(w) = 1 .. n
      /\ VisibleKeys(w) # <<>> <=> n # 0
      /\ w.rows = <<>> => VisibleKeys(w) = <<>>
  BY <1>1, KeysOf
<1>3. T \in {1, 2} /\ Height \in Nat /\ Height >= 4 /\ y \in Int
  BY TuiListsConstants DEF BarLines
<1>4. ClickedRows(v, y) = {r \in 1 .. n : /\ r = y - (T + 1) + (IF v = "fleet" THEN 1 ELSE 0)
                                          /\ y >= T + 1 /\ y < Height}
  <2>1. T = IF FilterBar(v) THEN 2 ELSE 1
    BY DEF BarLines, FilterBar
  <2>2. 2 + (IF FilterBar(v) THEN 1 ELSE 0) = T + 1
    BY <2>1
  <2> HIDE DEF T
  <2>3. QED
    BY <1>2, <2>2 DEF ClickedRows
<1> DEFINE body == IF VisibleKeys(w) = <<>> THEN <<>> ELSE <<0>> \o RowLines(w)
<1>5. /\ RowLines(w) \in Seq(Nat) /\ DOMAIN RowLines(w) = 1 .. n
      /\ \A i \in 1 .. n : RowLines(w)[i] = i
      /\ body \in Seq(Nat) /\ DOMAIN body = (IF n = 0 THEN {} ELSE 1 .. n + 1)
      /\ \A i \in DOMAIN body : body[i] = i - 1
  BY <1>1, BodyLine
<1>6. CASE v \in {"ports", "processes"}
  <2>1. Drawn(v) = Framed(w, body)
    <3>1. CASE v = "ports"
      BY <3>1 DEF Drawn, PortsDrawn
    <3>2. CASE v = "processes"
      BY <3>2 DEF Drawn, ProcessesDrawn
    <3>3. QED
      BY <1>6, <3>1, <3>2
  <2> HIDE DEF body, w, n
  <2>2. Drawn(v)[y] = IF y > T /\ y < Height /\ y - T \in DOMAIN body THEN y - T - 1 ELSE 0
    <3>1. body \in Seq(Nat)
      BY <1>5
    <3>2. Framed(w, body)[y] = IF /\ y > BarLines(w) /\ y < Height
                                  /\ y - BarLines(w) \in DOMAIN body
                               THEN body[y - BarLines(w)] ELSE 0
      BY <3>1, FramedLine
    <3>3. Drawn(v)[y] = IF y > T /\ y < Height /\ y - T \in DOMAIN body THEN body[y - T] ELSE 0
      BY <2>1, <3>2 DEF T
    <3> HIDE DEF T
    <3>4. QED
      BY <1>5, <3>3
  <2> HIDE DEF T
  <2>3. v # "fleet"
    BY <1>6
  <2>4. \A r \in 1 .. n : (r = y - (T + 1) /\ y >= T + 1 /\ y < Height)
                            <=> (r = Drawn(v)[y] /\ r # 0)
    BY <1>2, <1>3, <1>5, <2>2
  <2>5. Drawn(v)[y] # 0 => Drawn(v)[y] \in 1 .. n
    <3>1. ASSUME Drawn(v)[y] # 0
          PROVE  Drawn(v)[y] = y - T - 1 /\ y - T \in DOMAIN body
      BY <2>2, <3>1
    <3>2. n # 0 => \A i \in 1 .. n + 1 : i - 1 # 0 => i - 1 \in 1 .. n
      BY <1>2
    <3>3. QED
      BY <1>5, <3>1, <3>2
  <2>6. \A r \in 1 .. n : r # 0
    OBVIOUS
  <2>7. y - (T + 1) + 0 = y - (T + 1)
    BY <1>3
  <2>8. ClickedRows(v, y) = {r \in 1 .. n : r = y - (T + 1) /\ y >= T + 1 /\ y < Height}
    BY <1>4, <2>3, <2>7
  <2>9. QED
    BY <2>4, <2>5, <2>6, <2>8
<1>7. CASE v = "fleet" /\ w.st = "connecting"
  <2>1. Drawn(v) = [i \in 1 .. Height |-> 0]
    BY <1>7 DEF Drawn, FleetDrawn
  <2>2. n = 0
    BY <1>1, <1>2, <1>7 DEF KeptView
  <2>3. 1 .. n = {}
    BY <2>2
  <2>4. ClickedRows(v, y) = {}
    BY <1>4, <2>3
  <2>5. QED
    BY <2>1, <2>4
<1>8. CASE v = "fleet" /\ w.st # "connecting"
  <2>1. Drawn(v) = Framed(w, RowLines(w))
    BY <1>8 DEF Drawn, FleetDrawn
  <2> HIDE DEF w, n
  <2>2. Drawn(v)[y] = IF y > T /\ y < Height /\ y - T \in 1 .. n THEN y - T ELSE 0
    <3>1. Framed(w, RowLines(w))[y] = IF /\ y > BarLines(w) /\ y < Height
                                         /\ y - BarLines(w) \in DOMAIN RowLines(w)
                                      THEN RowLines(w)[y - BarLines(w)] ELSE 0
      BY <1>5, FramedLine
    <3>2. Drawn(v)[y] = IF y > T /\ y < Height /\ y - T \in DOMAIN RowLines(w)
                        THEN RowLines(w)[y - T] ELSE 0
      BY <2>1, <3>1 DEF T
    <3> HIDE DEF T
    <3>3. QED
      BY <1>5, <3>2
  <2> HIDE DEF T
  <2>3. \A r \in 1 .. n : (r = y - T /\ y >= T + 1 /\ y < Height)
                            <=> (r = Drawn(v)[y] /\ r # 0)
    BY <1>2, <1>3, <2>2
  <2>4. Drawn(v)[y] # 0 => Drawn(v)[y] \in 1 .. n
    BY <2>2
  <2>5. y - (T + 1) + 1 = y - T
    BY <1>3
  <2>6. ClickedRows(v, y) = {r \in 1 .. n : r = y - T /\ y >= T + 1 /\ y < Height}
    BY <1>4, <1>8, <2>5
  <2>7. \A r \in 1 .. n : r # 0
    OBVIOUS
  <2>8. QED
    BY <2>3, <2>4, <2>6, <2>7
<1>9. QED
  BY <1>6, <1>7, <1>8 DEF Views

-----------------------------------------------------------------------------
(* Every step of the list tiles, and what they promise.                    *)

LEMMA FocusStep ==
    ASSUME LInv, ToggleKey \/ FocusTile \/ UNCHANGED listVars
    PROVE  LInv' /\ UNCHANGED view
<1>1. /\ UNCHANGED <<view, states, last, opened>>
      /\ focused' \in {"ports", "fleet", "other"} /\ active' \in {"ports", "processes"}
  BY DEF ToggleKey, FocusTile, listVars, mouseVars, LInv, ViewsKept
<1>2. ViewsKept'
  BY <1>1 DEF LInv, ViewsKept, KeptView, OnRow, VisibleKeys
<1>3. ClicksKept'
  BY <1>1, ClicksStay DEF LInv
<1>4. QED
  BY <1>1, <1>2, <1>3, StatesStay DEF LInv

\* Each step keeps the invariant, and of every view the rows, or shows none, or keeps
\* the cursor on the row it was on.
KeepsRow(v) ==
    \/ view'[v].rows = view[v].rows
    \/ VisibleKeys(view'[v]) = <<>>
    \/ SelectedKey(view[v]) # {} /\ PlaceOf(view'[v], SelectedKey(view[v])) # {}
          => SelectedKey(view'[v]) = SelectedKey(view[v])

LEMMA ListsStep == LInv /\ [ListsNext]_listVars => LInv' /\ \A v \in Views : KeepsRow(v)
<1> SUFFICES ASSUME LInv, [ListsNext]_listVars PROVE LInv' /\ \A v \in Views : KeepsRow(v)
  OBVIOUS
<1> USE DEF Views
<1>1. CASE PortsKey \/ ProcessesKey \/ FleetKey
  BY <1>1, ViewKeyStep DEF PortsKey, ProcessesKey, FleetKey, KeepsRow
<1>2. CASE ToggleKey \/ FocusTile \/ UNCHANGED listVars
  BY <1>2, FocusStep DEF KeepsRow
<1>3. CASE RetargetPorts \/ RetargetProcesses
  <2>1. PICK v \in Views : v # "fleet" /\ RetargetView(v)
    BY <1>3 DEF RetargetPorts, RetargetProcesses
  <2>2. /\ LInv' /\ VisibleKeys(view'[v]) = <<>>
        /\ \A u \in Views \ {v} : view'[u] = view[u]
    BY <2>1, RetargetStep
  <2>3. QED
    BY <2>2 DEF KeepsRow
<1>4. CASE \E v \in Views, y \in 1 .. Height : Click(v, y)
  BY <1>4, ClickStep DEF KeepsRow
<1>5. CASE PortList \/ ProcessList
  BY <1>5, ListStep DEF KeepsRow
<1>6. CASE Unavailable
  BY <1>6, UnavailableStep DEF KeepsRow
<1>7. CASE HostList
  BY <1>7, HostListStep DEF KeepsRow
<1>8. CASE HostStateChanged
  <2>1. UNCHANGED view
    BY <1>8 DEF HostStateChanged
  <2>2. QED
    BY <1>8, <2>1, HostStateStep DEF KeepsRow
<1>9. QED
  BY <1>1, <1>2, <1>3, <1>4, <1>5, <1>6, <1>7, <1>8 DEF ListsNext

LEMMA SpecLInv == ListsSpec => []LInv
  BY InitLInv, ListsStep, PTL DEF ListsSpec

\* The cursor of each list is on a row whenever there is one, and a click selects the
\* row that is drawn under it and no other line selects one (reanchor_selection,
\* dispatch_scope_click, render_ports_table, render_host_table).
THEOREM ListsInvHolds == ListsSpec => []ListsInv
<1>1. LInv => ListsInv
  <2>1. ASSUME LInv PROVE ListsTypeOK
    BY <2>1 DEF LInv, ViewsKept, StatesKept, KeptView, OnRow, ListsTypeOK, SelectedKey
  <2>2. QED
    BY <2>1, ClickHits DEF ListsInv
<1>2. QED
  BY <1>1, SpecLInv, PTL

\* A double click opens a pane to the host its first click selected, unless other
\* rows came in between (dispatch_scope_click).
THEOREM DoubleClickOpens == ListsSpec => []OpensWhatWasClicked
<1>1. LInv => OpensWhatWasClicked
  BY DEF LInv, ClicksKept
<1>2. QED
  BY <1>1, SpecLInv, PTL

\* A list that reorders, adds or drops rows never moves the cursor off a row that is
\* still shown (reanchor_selection).
THEOREM RefreshKeepsTheRow == ListsSpec => RefreshKeepsRow
<1>1. ASSUME LInv, [ListsNext]_listVars, NEW v \in Views,
             view'[v].rows # view[v].rows, SelectedKey(view[v]) # {},
             PlaceOf(view'[v], SelectedKey(view[v])) # {}
      PROVE  SelectedKey(view'[v]) = SelectedKey(view[v])
  <2>1. KeepsRow(v)
    BY <1>1, ListsStep
  <2>2. VisibleKeys(view'[v]) # <<>>
    BY <1>1 DEF PlaceOf
  <2>3. QED
    BY <1>1, <2>1, <2>2 DEF KeepsRow
<1>2. LInv /\ [ListsNext]_listVars =>
         [\A v \in Views :
            view'[v].rows # view[v].rows /\ SelectedKey(view[v]) # {}
               /\ PlaceOf(view'[v], SelectedKey(view[v])) # {}
            => SelectedKey(view'[v]) = SelectedKey(view[v])]_view
  BY <1>1
<1>3. QED
  BY <1>2, SpecLInv, PTL DEF ListsSpec, RefreshKeepsRow

-----------------------------------------------------------------------------
(* Places in order, of two sequences that are joined.                      *)

Rank(I, i) == Cardinality(UpTo(I, i))

LEMMA Ranks ==
    ASSUME NEW n \in Nat, NEW I \in SUBSET (1 .. n)
    PROVE  /\ IsFiniteSet(I) /\ Cardinality(I) \in Nat
           /\ \A i \in I : Rank(I, i) \in 1 .. Cardinality(I)
           /\ \A i, j \in I : i < j => Rank(I, i) < Rank(I, j)
<1>1. IsFiniteSet(1 .. n)
  BY FS_Interval
<1>2. IsFiniteSet(I)
  BY <1>1, FS_Subset
<1>3. Cardinality(I) \in Nat
  BY <1>2, FS_CardinalityType
<1>4. \A i \in I : i \in Int
  OBVIOUS
<1>5. ASSUME NEW i \in I
      PROVE  /\ IsFiniteSet(UpTo(I, i)) /\ Rank(I, i) \in Nat
             /\ Rank(I, i) <= Cardinality(I) /\ Rank(I, i) # 0
  <2>1. UpTo(I, i) \in SUBSET I
    BY DEF UpTo
  <2>2. IsFiniteSet(UpTo(I, i)) /\ Cardinality(UpTo(I, i)) <= Cardinality(I)
    BY <1>2, <2>1, FS_Subset
  <2>3. i \in UpTo(I, i)
    BY <1>4 DEF UpTo
  <2>4. Cardinality(UpTo(I, i)) # 0
    BY <2>2, <2>3, FS_EmptySet
  <2>5. QED
    BY <2>2, <2>4, FS_CardinalityType DEF Rank
<1>6. ASSUME NEW i \in I, NEW j \in I, i < j
      PROVE  Rank(I, i) < Rank(I, j)
  <2>1. UpTo(I, i) \in SUBSET (UpTo(I, j) \ {j}) /\ j \in UpTo(I, j)
    <3>1. /\ \A x \in I : x <= i => x <= j /\ x # j
          /\ j <= j
      BY <1>4, <1>6
    <3>2. QED
      BY <3>1, Zenon DEF UpTo
  <2>2. IsFiniteSet(UpTo(I, j) \ {j}) /\ Cardinality(UpTo(I, j) \ {j}) = Rank(I, j) - 1
    BY <1>5, <2>1, FS_RemoveElement DEF Rank
  <2>3. Rank(I, i) <= Rank(I, j) - 1
    BY <2>1, <2>2, FS_Subset DEF Rank
  <2>4. QED
    BY <1>5, <2>3
<1>7. QED
  BY <1>2, <1>3, <1>5, <1>6

\* The k-th place is the one of rank k.
LEMMA KthIs ==
    ASSUME NEW n \in Nat, NEW I \in SUBSET (1 .. n)
    PROVE  /\ \A k \in 1 .. Cardinality(I) : KthOf(I, k) \in I /\ Rank(I, KthOf(I, k)) = k
           /\ \A i \in I : KthOf(I, Rank(I, i)) = i
<1>1. \A k \in 1 .. Cardinality(I) : KthOf(I, k) \in I /\ Rank(I, KthOf(I, k)) = k
  BY KthOfPlaces DEF Rank
<1>2. ASSUME NEW i \in I PROVE KthOf(I, Rank(I, i)) = i
  <2> DEFINE c == KthOf(I, Rank(I, i))
  <2>1. c \in I /\ Rank(I, c) = Rank(I, i)
    BY <1>1, Ranks
  <2> HIDE DEF c
  <2>2. Rank(I, i) \in 1 .. Cardinality(I) /\ Cardinality(I) \in Nat
    BY Ranks
  <2>3. ~(i < c) /\ ~(c < i)
    <3>1. /\ i < c => Rank(I, i) < Rank(I, c)
          /\ c < i => Rank(I, c) < Rank(I, i)
      BY <2>1, Ranks
    <3>2. QED
      BY <2>1, <2>2, <3>1
  <2>4. i \in Int /\ c \in Int
    BY <2>1
  <2>5. c = i
    BY <2>3, <2>4
  <2>6. QED
    BY <2>5 DEF c
<1>3. QED
  BY <1>1, <1>2

\* Places up to m, and others shifted by m behind them.
Joined(I, m, J) == I \cup {m + j : j \in J}

LEMMA JoinedCard ==
    ASSUME NEW m \in Nat, NEW n \in Nat, NEW I \in SUBSET (1 .. m), NEW J \in SUBSET (1 .. n)
    PROVE  /\ Joined(I, m, J) \in SUBSET (1 .. m + n)
           /\ Cardinality(Joined(I, m, J)) = Cardinality(I) + Cardinality(J)
<1> DEFINE T == {m + j : j \in J}
           f == [j \in J |-> m + j]
<1>1. IsFiniteSet(I) /\ IsFiniteSet(J)
  BY Ranks
<1>2. \A i \in I : i \in 1 .. m
  OBVIOUS
<1>3. \A j \in J : j \in 1 .. n
  OBVIOUS
<1>4. f \in Bijection(J, T)
  <2>1. f \in [J -> T]
    OBVIOUS
  <2>2. \A a, b \in J : f[a] = f[b] => a = b
    BY <1>3
  <2>3. \A t \in T : \E j \in J : f[j] = t
    OBVIOUS
  <2>4. f \in Injection(J, T)
    BY <2>1, <2>2 DEF Injection, IsInjective
  <2>5. f \in Surjection(J, T)
    BY <2>1, <2>3 DEF Surjection
  <2>6. QED
    BY <2>4, <2>5 DEF Bijection
<1>5. IsFiniteSet(T) /\ Cardinality(T) = Cardinality(J)
  <2>1. ExistsBijection(J, T)
    BY <1>4 DEF ExistsBijection
  <2>2. QED
    BY <1>1, <2>1, FS_Bijection
<1>6. I \cap T = {}
  <2>1. \A i \in I, j \in J : i # m + j
    BY <1>2, <1>3
  <2>2. QED
    BY <2>1
<1>7. Cardinality(I \cap T) = 0
  BY <1>6, FS_EmptySet
<1>8. Cardinality(I \cup T) = Cardinality(I) + Cardinality(T) - Cardinality(I \cap T)
  BY <1>1, <1>5, FS_Union
<1>9. Cardinality(I) \in Nat /\ Cardinality(J) \in Nat
  BY Ranks
<1>10. Joined(I, m, J) = I \cup T
  BY DEF Joined
<1>11. I \cup T \in SUBSET (1 .. m + n)
  <2>1. \A i \in I : i \in 1 .. m + n
    BY <1>2
  <2>2. \A j \in J : m + j \in 1 .. m + n
    BY <1>3
  <2>3. QED
    BY <2>1, <2>2
<1> HIDE DEF T
<1>12. QED
  BY <1>5, <1>7, <1>8, <1>9, <1>10, <1>11

LEMMA JoinedKth ==
    ASSUME NEW m \in Nat, NEW n \in Nat, NEW I \in SUBSET (1 .. m), NEW J \in SUBSET (1 .. n)
    PROVE  /\ \A k \in 1 .. Cardinality(I) : KthOf(Joined(I, m, J), k) = KthOf(I, k)
           /\ \A k \in 1 .. Cardinality(J) :
                 KthOf(Joined(I, m, J), Cardinality(I) + k) = m + KthOf(J, k)
<1> DEFINE K == Joined(I, m, J)
<1>1. K \in SUBSET (1 .. m + n) /\ m + n \in Nat
  <2>1. K \in SUBSET (1 .. m + n)
    BY JoinedCard
  <2>2. m + n \in Nat
    OBVIOUS
  <2>3. QED
    BY <2>1, <2>2
<1>2. \A i \in I : i \in 1 .. m
  OBVIOUS
<1>3. \A j \in J : j \in 1 .. n
  OBVIOUS
<1>4. ASSUME NEW i \in I PROVE i \in K /\ Rank(K, i) = Rank(I, i)
  <2>1. \A j \in J : ~(m + j <= i)
    BY <1>2, <1>3
  <2>2. UpTo(K, i) = UpTo(I, i)
    BY <2>1 DEF UpTo, Joined
  <2>3. QED
    BY <2>2 DEF Rank, Joined
<1>5. ASSUME NEW j \in J
      PROVE  m + j \in K /\ Rank(K, m + j) = Cardinality(I) + Rank(J, j)
  <2>1. \A i \in I : i <= m + j
    BY <1>2, <1>3
  <2>2. \A x \in J : m + x <= m + j <=> x <= j
    BY <1>3
  <2>3. UpTo(K, m + j) = Joined(I, m, UpTo(J, j))
    BY <2>1, <2>2 DEF UpTo, Joined
  <2>4. UpTo(J, j) \in SUBSET (1 .. n)
    BY DEF UpTo
  <2>5. Cardinality(Joined(I, m, UpTo(J, j))) = Cardinality(I) + Cardinality(UpTo(J, j))
    BY <2>4, JoinedCard
  <2>6. m + j \in K
    BY DEF Joined
  <2>7. QED
    BY <2>3, <2>5, <2>6 DEF Rank
<1> HIDE DEF K
<1>6. ASSUME NEW k \in 1 .. Cardinality(I) PROVE KthOf(K, k) = KthOf(I, k)
  <2>1. KthOf(I, k) \in I /\ Rank(I, KthOf(I, k)) = k
    BY KthIs
  <2>2. KthOf(I, k) \in K /\ Rank(K, KthOf(I, k)) = k
    BY <1>4, <2>1
  <2>3. \A i \in K : KthOf(K, Rank(K, i)) = i
    BY <1>1, KthIs
  <2>4. QED
    BY <2>2, <2>3
<1>7. ASSUME NEW k \in 1 .. Cardinality(J)
      PROVE  KthOf(K, Cardinality(I) + k) = m + KthOf(J, k)
  <2>1. KthOf(J, k) \in J /\ Rank(J, KthOf(J, k)) = k
    BY KthIs
  <2>2. m + KthOf(J, k) \in K /\ Rank(K, m + KthOf(J, k)) = Cardinality(I) + k
    BY <1>5, <2>1
  <2>3. \A i \in K : KthOf(K, Rank(K, i)) = i
    BY <1>1, KthIs
  <2>4. QED
    BY <2>2, <2>3
<1>8. QED
  BY <1>6, <1>7 DEF K

LEMMA JoinPlaces ==
    ASSUME NEW S, NEW q \in Seq(S), NEW r \in Seq(S), NEW P
    PROVE  /\ PlacesOf(q, P) \in SUBSET (1 .. Len(q)) /\ PlacesOf(r, P) \in SUBSET (1 .. Len(r))
           /\ PlacesOf(q \o r, P) = Joined(PlacesOf(q, P), Len(q), PlacesOf(r, P))
<1>1. /\ DOMAIN q = 1 .. Len(q) /\ DOMAIN r = 1 .. Len(r)
      /\ DOMAIN (q \o r) = 1 .. Len(q) + Len(r) /\ Len(q) \in Nat /\ Len(r) \in Nat
  OBVIOUS
<1>2. /\ \A i \in 1 .. Len(q) : (q \o r)[i] = q[i]
      /\ \A i \in 1 .. Len(r) : (q \o r)[Len(q) + i] = r[i]
  OBVIOUS
<1>3. \A i \in 1 .. Len(q) + Len(r) : i \in 1 .. Len(q) \/ \E j \in 1 .. Len(r) : i = Len(q) + j
  <2>1. TAKE i \in 1 .. Len(q) + Len(r)
  <2>2. CASE i \in 1 .. Len(q)
    BY <2>2
  <2>3. CASE i \notin 1 .. Len(q)
    <3>1. i - Len(q) \in 1 .. Len(r) /\ i = Len(q) + (i - Len(q))
      BY <1>1, <2>3
    <3>2. QED
      BY <3>1
  <2>4. QED
    BY <2>2, <2>3
<1>4. /\ \A i \in 1 .. Len(q) : i \in 1 .. Len(q) + Len(r)
      /\ \A i \in 1 .. Len(r) : Len(q) + i \in 1 .. Len(q) + Len(r)
  BY <1>1
<1>5. ASSUME NEW i
      PROVE  i \in PlacesOf(q \o r, P) <=> i \in Joined(PlacesOf(q, P), Len(q), PlacesOf(r, P))
  <2>1. CASE i \in 1 .. Len(q)
    <3>1. \A j \in 1 .. Len(r) : i # Len(q) + j
      BY <1>1, <2>1
    <3>2. QED
      BY <1>1, <1>2, <1>4, <2>1, <3>1, Zenon DEF PlacesOf, Joined
  <2>2. CASE \E j \in 1 .. Len(r) : i = Len(q) + j
    <3>1. PICK j \in 1 .. Len(r) : i = Len(q) + j
      BY <2>2
    <3>2. i \notin 1 .. Len(q) /\ \A x \in 1 .. Len(r) : i = Len(q) + x => x = j
      BY <1>1, <3>1
    <3>3. i \in DOMAIN (q \o r) /\ (q \o r)[i] = r[j]
      BY <1>1, <1>2, <1>4, <3>1
    <3>4. i \in PlacesOf(q \o r, P) <=> j \in PlacesOf(r, P)
      BY <1>1, <3>3, Zenon DEF PlacesOf
    <3>5. i \in Joined(PlacesOf(q, P), Len(q), PlacesOf(r, P)) <=> j \in PlacesOf(r, P)
      BY <1>1, <3>1, <3>2, Zenon DEF PlacesOf, Joined
    <3>6. QED
      BY <3>4, <3>5
  <2>3. CASE i \notin 1 .. Len(q) /\ ~\E j \in 1 .. Len(r) : i = Len(q) + j
    BY <1>1, <1>3, <2>3, Zenon DEF PlacesOf, Joined
  <2>4. QED
    BY <2>1, <2>2, <2>3
<1>6. PlacesOf(q, P) \in SUBSET (1 .. Len(q)) /\ PlacesOf(r, P) \in SUBSET (1 .. Len(r))
  BY <1>1 DEF PlacesOf
<1>7. QED
  BY <1>5, <1>6

LEMMA SameSeq ==
    ASSUME NEW S, NEW q \in Seq(S), NEW r \in Seq(S), Len(q) = Len(r),
           \A i \in 1 .. Len(q) : q[i] = r[i]
    PROVE  q = r
OBVIOUS

LEMMA JoinedSeq ==
    ASSUME NEW S, NEW f \in Seq(S), NEW g \in Seq(S), NEW h \in Seq(S),
           Len(f) = Len(g) + Len(h),
           \A i \in 1 .. Len(g) : f[i] = g[i], \A k \in 1 .. Len(h) : f[Len(g) + k] = h[k]
    PROVE  f = g \o h
<1>1. Len(g) \in Nat /\ Len(h) \in Nat
  OBVIOUS
<1>2. /\ g \o h \in Seq(S) /\ Len(g \o h) = Len(g) + Len(h)
      /\ \A i \in 1 .. Len(g) + Len(h) : (g \o h)[i] = IF i <= Len(g) THEN g[i] ELSE h[i - Len(g)]
  BY ConcatProperties
<1>3. \A i \in 1 .. Len(g) + Len(h) : f[i] = (g \o h)[i]
  <2>1. TAKE i \in 1 .. Len(g) + Len(h)
  <2>2. CASE i <= Len(g)
    <3>1. i \in 1 .. Len(g)
      BY <1>1, <2>2
    <3>2. QED
      BY <1>2, <2>2, <3>1
  <2>3. CASE ~(i <= Len(g))
    <3>1. i - Len(g) \in 1 .. Len(h) /\ Len(g) + (i - Len(g)) = i
      BY <1>1, <2>3
    <3>2. QED
      BY <1>2, <2>3, <3>1
  <2>4. QED
    BY <2>2, <2>3
<1>4. QED
  BY <1>2, <1>3, SameSeq

LEMMA FilterIs ==
    ASSUME NEW S, NEW rows \in Seq(S), NEW P
    PROVE  LET I == PlacesOf(rows, P) IN
           /\ I \in SUBSET (1 .. Len(rows)) /\ Cardinality(I) \in Nat
           /\ FilterRows(rows, P) \in Seq(S) /\ Len(FilterRows(rows, P)) = Cardinality(I)
           /\ \A k \in 1 .. Cardinality(I) :
                 KthOf(I, k) \in 1 .. Len(rows) /\ FilterRows(rows, P)[k] = rows[KthOf(I, k)]
<1> DEFINE I == PlacesOf(rows, P)
           n == Cardinality(I)
<1>1. I \in SUBSET (1 .. Len(rows)) /\ Len(rows) \in Nat
  BY DEF PlacesOf
<1>2. n \in Nat
  BY <1>1, Ranks
<1>3. \A k \in 1 .. n : KthOf(I, k) \in I
  BY <1>1, KthIs
<1>4. FilterRows(rows, P) = [k \in 1 .. n |-> rows[KthOf(I, k)]]
  BY DEF FilterRows
<1>5. FilterRows(rows, P) \in Seq(S)
  BY FilteredAreRows
<1> HIDE DEF I, n
<1>6. Len(FilterRows(rows, P)) = n
  BY <1>2, <1>4, <1>5
<1>7. \A k \in 1 .. n : KthOf(I, k) \in 1 .. Len(rows) /\ FilterRows(rows, P)[k] = rows[KthOf(I, k)]
  BY <1>1, <1>3, <1>4
<1>8. QED
  BY <1>1, <1>2, <1>5, <1>6, <1>7 DEF I, n

\* Filtering agrees with joining: iter().filter(..) over one list after the other.
LEMMA FilterJoin ==
    ASSUME NEW S, NEW q \in Seq(S), NEW r \in Seq(S), NEW P
    PROVE  FilterRows(q \o r, P) = FilterRows(q, P) \o FilterRows(r, P)
<1> DEFINE I == PlacesOf(q, P)
           J == PlacesOf(r, P)
           K == PlacesOf(q \o r, P)
           a == Cardinality(I)
           b == Cardinality(J)
           fq == FilterRows(q, P)
           fr == FilterRows(r, P)
           f == FilterRows(q \o r, P)
<1>1. /\ q \o r \in Seq(S) /\ Len(q \o r) = Len(q) + Len(r)
      /\ \A i \in 1 .. Len(q) : (q \o r)[i] = q[i]
      /\ \A i \in 1 .. Len(r) : (q \o r)[Len(q) + i] = r[i]
      /\ Len(q) \in Nat /\ Len(r) \in Nat
  OBVIOUS
<1>2. I \in SUBSET (1 .. Len(q)) /\ J \in SUBSET (1 .. Len(r)) /\ K = Joined(I, Len(q), J)
  BY JoinPlaces
<1>3. /\ a \in Nat /\ fq \in Seq(S) /\ Len(fq) = a
      /\ \A k \in 1 .. a : KthOf(I, k) \in 1 .. Len(q) /\ fq[k] = q[KthOf(I, k)]
  BY FilterIs
<1>4. /\ b \in Nat /\ fr \in Seq(S) /\ Len(fr) = b
      /\ \A k \in 1 .. b : KthOf(J, k) \in 1 .. Len(r) /\ fr[k] = r[KthOf(J, k)]
  BY FilterIs
<1>5. /\ f \in Seq(S) /\ Len(f) = Cardinality(K)
      /\ \A k \in 1 .. Cardinality(K) : f[k] = (q \o r)[KthOf(K, k)]
  <2> DEFINE qr == q \o r
  <2>1. qr \in Seq(S)
    BY <1>1
  <2> HIDE DEF qr, I, J, a, b, fq, fr
  <2>2. /\ FilterRows(qr, P) \in Seq(S)
        /\ Len(FilterRows(qr, P)) = Cardinality(PlacesOf(qr, P))
        /\ \A k \in 1 .. Cardinality(PlacesOf(qr, P)) :
              FilterRows(qr, P)[k] = qr[KthOf(PlacesOf(qr, P), k)]
    BY <2>1, FilterIs
  <2>3. QED
    BY <2>2, Zenon DEF qr
<1>6. Cardinality(K) = a + b
  BY <1>1, <1>2, JoinedCard
<1>7. /\ \A k \in 1 .. a : KthOf(K, k) = KthOf(I, k)
      /\ \A k \in 1 .. b : KthOf(K, a + k) = Len(q) + KthOf(J, k)
  <2> HIDE DEF I, J, K
  <2>1. /\ \A k \in 1 .. Cardinality(I) : KthOf(Joined(I, Len(q), J), k) = KthOf(I, k)
        /\ \A k \in 1 .. Cardinality(J) :
              KthOf(Joined(I, Len(q), J), Cardinality(I) + k) = Len(q) + KthOf(J, k)
    BY <1>1, <1>2, JoinedKth
  <2>2. QED
    BY <1>2, <2>1
<1> HIDE DEF I, J, K, a, b, fq, fr, f
<1>8. \A k \in 1 .. a : f[k] = fq[k]
  <2>1. \A k \in 1 .. a : k \in 1 .. Cardinality(K)
    BY <1>3, <1>4, <1>6
  <2>2. QED
    BY <1>1, <1>3, <1>5, <1>7, <2>1
<1>9. \A k \in 1 .. b : f[a + k] = fr[k]
  <2>1. \A k \in 1 .. b : a + k \in 1 .. Cardinality(K)
    BY <1>3, <1>4, <1>6
  <2>2. \A k \in 1 .. b : f[a + k] = (q \o r)[Len(q) + KthOf(J, k)]
    BY <1>5, <1>7, <2>1
  <2>3. QED
    BY <1>1, <1>4, <2>2
<1>10. f = fq \o fr
  <2>1. /\ f \in Seq(S) /\ fq \in Seq(S) /\ fr \in Seq(S) /\ Len(f) = Len(fq) + Len(fr)
        /\ \A k \in 1 .. Len(fq) : f[k] = fq[k]
        /\ \A k \in 1 .. Len(fr) : f[Len(fq) + k] = fr[k]
    BY <1>3, <1>4, <1>5, <1>6, <1>8, <1>9
  <2>2. QED
    BY <2>1, JoinedSeq
<1>11. QED
  BY <1>10 DEF f, fq, fr

LEMMA FilterAll ==
    ASSUME NEW S, NEW rows \in Seq(S), NEW P, \A i \in 1 .. Len(rows) : rows[i] \in P
    PROVE  FilterRows(rows, P) = rows
<1> DEFINE n == Len(rows)
           I == PlacesOf(rows, P)
           f == FilterRows(rows, P)
<1>1. n \in Nat /\ DOMAIN rows = 1 .. n
  OBVIOUS
<1>2. I = 1 .. n
  BY <1>1 DEF PlacesOf
<1>3. Cardinality(I) = n
  BY <1>1, <1>2, FS_Interval
<1>4. \A k \in 1 .. n : Rank(I, k) = k
  <2>1. TAKE k \in 1 .. n
  <2>2. UpTo(I, k) = 1 .. k
    BY <1>1, <1>2 DEF UpTo
  <2>3. Cardinality(1 .. k) = k
    BY <1>1, FS_Interval
  <2>4. QED
    BY <2>2, <2>3 DEF Rank
<1>5. \A k \in 1 .. n : KthOf(I, k) = k
  <2>1. \A i \in I : KthOf(I, Rank(I, i)) = i
    BY <1>1, <1>2, KthIs
  <2>2. QED
    BY <1>2, <1>4, <2>1
<1>6. /\ f \in Seq(S) /\ Len(f) = Cardinality(I)
      /\ \A k \in 1 .. Cardinality(I) : f[k] = rows[KthOf(I, k)]
  BY FilterIs
<1> HIDE DEF n, I, f
<1>7. \A k \in 1 .. n : f[k] = rows[k]
  BY <1>3, <1>5, <1>6
<1>8. f = rows
  BY <1>3, <1>6, <1>7, SameSeq DEF n
<1>9. QED
  BY <1>8 DEF f

LEMMA FilterNone ==
    ASSUME NEW S, NEW rows \in Seq(S), NEW P, \A i \in 1 .. Len(rows) : rows[i] \notin P
    PROVE  FilterRows(rows, P) = <<>>
<1>1. PlacesOf(rows, P) = {}
  BY DEF PlacesOf
<1>2. Cardinality(PlacesOf(rows, P)) = 0
  BY <1>1, FS_EmptySet
<1>3. FilterRows(rows, P) \in Seq(S) /\ Len(FilterRows(rows, P)) = 0
  BY <1>2, FilterIs
<1>4. QED
  BY <1>3

\* What passes of a list depends on its rows only.
LEMMA FilterSame ==
    ASSUME NEW rows, NEW P, NEW Q, \A i \in DOMAIN rows : rows[i] \in P <=> rows[i] \in Q
    PROVE  FilterRows(rows, P) = FilterRows(rows, Q)
<1>1. PlacesOf(rows, P) = PlacesOf(rows, Q)
  BY DEF PlacesOf
<1>2. QED
  BY <1>1 DEF FilterRows

\* A piece of a sequence that stands at o in another one.
LEMMA PieceAt ==
    ASSUME NEW S, NEW s \in Seq(S), NEW t \in Seq(S), NEW o \in Nat,
           o + Len(t) <= Len(s), \A i \in 1 .. Len(t) : s[o + i] = t[i],
           NEW a \in Nat \ {0}, NEW z \in Nat, z <= Len(t)
    PROVE  SubSeq(s, o + a, o + z) = SubSeq(t, a, z)
<1> DEFINE p == SubSeq(s, o + a, o + z)
           r == SubSeq(t, a, z)
<1>1. o + a \in Int /\ o + z \in Int /\ Len(s) \in Nat /\ Len(t) \in Nat
  OBVIOUS
<1>2. \A i \in o + a .. o + z : s[i] \in S
  <2>1. \A i \in o + a .. o + z : i \in 1 .. Len(s)
    BY <1>1
  <2>2. QED
    BY <2>1
<1>3. \A i \in a .. z : t[i] \in S /\ s[o + i] = t[i]
  <2>1. \A i \in a .. z : i \in 1 .. Len(t)
    BY <1>1
  <2>2. QED
    BY <2>1
<1>4. /\ p \in Seq(S) /\ Len(p) = (IF o + a <= o + z THEN (o + z) - (o + a) + 1 ELSE 0)
      /\ \A i \in 1 .. (o + z) - (o + a) + 1 : p[i] = s[o + a + i - 1]
  BY <1>1, <1>2, SubSeqProperties
<1>5. /\ r \in Seq(S) /\ Len(r) = (IF a <= z THEN z - a + 1 ELSE 0)
      /\ \A i \in 1 .. z - a + 1 : r[i] = t[a + i - 1]
  <2>1. a \in Int /\ z \in Int /\ \A i \in a .. z : t[i] \in S
    BY <1>3
  <2>2. QED
    BY <2>1, SubSeqProperties
<1> HIDE DEF p, r
<1>6. /\ o + a <= o + z <=> a <= z
      /\ (o + z) - (o + a) + 1 = z - a + 1
      /\ Len(r) \in Nat /\ (a <= z \/ Len(r) = 0)
  BY <1>1, <1>5
<1>7. Len(p) = Len(r)
  BY <1>4, <1>5, <1>6
<1>8. \A i \in 1 .. Len(r) : p[i] = r[i]
  <2>1. TAKE i \in 1 .. Len(r)
  <2>2. /\ a <= z /\ Len(r) = z - a + 1 /\ i \in 1 .. z - a + 1
        /\ a + i - 1 \in a .. z /\ o + a + i - 1 = o + (a + i - 1)
    BY <1>5, <1>6
  <2>3. p[i] = s[o + a + i - 1] /\ r[i] = t[a + i - 1]
    BY <1>4, <1>5, <1>6, <2>2
  <2>4. QED
    BY <1>3, <2>2, <2>3
<1>9. p = r
  BY <1>4, <1>5, <1>7, <1>8, SameSeq
<1>10. QED
  BY <1>9 DEF p, r

-----------------------------------------------------------------------------
(* DockerLogs: the lines of a buffer.                                      *)

LEMMA EndsAre ==
    ASSUME NEW b \in Seq(Bytes)
    PROVE  /\ Ends(b) \in Seq(1 .. Len(b)) /\ Len(Ends(b)) \in Nat
           /\ Len(Ends(b)) = Cardinality(PlacesOf(b, {"nl"})) /\ DOMAIN Ends(b) = 1 .. Len(Ends(b))
           /\ \A k \in 1 .. Len(Ends(b)) :
                 /\ Ends(b)[k] = KthOf(PlacesOf(b, {"nl"}), k)
                 /\ Ends(b)[k] \in 1 .. Len(b) /\ b[Ends(b)[k]] = "nl"
           /\ \A i \in 1 .. Len(b) : b[i] = "nl" => \E k \in 1 .. Len(Ends(b)) : Ends(b)[k] = i
           /\ \A j, k \in 1 .. Len(Ends(b)) : Ends(b)[j] < Ends(b)[k] => j < k
           /\ \A j, k \in 1 .. Len(Ends(b)) : j < k => Ends(b)[j] < Ends(b)[k]
<1> DEFINE I == PlacesOf(b, {"nl"})
           n == Cardinality(I)
           e == Ends(b)
<1>1. /\ I \in SUBSET (1 .. Len(b)) /\ Len(b) \in Nat
      /\ \A i \in 1 .. Len(b) : i \in I <=> b[i] = "nl"
  BY DEF PlacesOf
<1>2. n \in Nat /\ \A i, j \in I : i < j => Rank(I, i) < Rank(I, j)
  BY <1>1, Ranks
<1>3. \A i \in I : Rank(I, i) \in 1 .. n
  BY <1>1, Ranks
<1>4. /\ \A k \in 1 .. n : KthOf(I, k) \in I /\ Rank(I, KthOf(I, k)) = k
      /\ \A i \in I : KthOf(I, Rank(I, i)) = i
  BY <1>1, KthIs
<1>5. e = [k \in 1 .. n |-> KthOf(I, k)]
  BY DEF Ends
<1> HIDE DEF I, n, e
<1>6. \A k \in 1 .. n : KthOf(I, k) \in 1 .. Len(b)
  BY <1>1, <1>4
<1>7. e \in Seq(1 .. Len(b)) /\ Len(e) = n /\ DOMAIN e = 1 .. n
  BY <1>2, <1>5, <1>6
<1>8. \A k \in 1 .. n : e[k] = KthOf(I, k) /\ e[k] \in I
  BY <1>4, <1>5
<1>9. \A k \in 1 .. n : e[k] \in 1 .. Len(b) /\ b[e[k]] = "nl"
  BY <1>1, <1>8
<1>10. \A i \in I : \E k \in 1 .. n : e[k] = i
  BY <1>3, <1>4, <1>8
<1>11. \A j, k \in 1 .. n : e[j] < e[k] => j < k
  BY <1>2, <1>4, <1>8
<1>12. ASSUME NEW j \in 1 .. n, NEW k \in 1 .. n, j < k
       PROVE  e[j] < e[k]
  <2>1. e[j] \in Int /\ e[k] \in Int /\ j \in Int /\ k \in Int
    BY <1>9
  <2>2. CASE e[k] < e[j]
    BY <1>11, <1>12, <2>1, <2>2
  <2>3. CASE e[k] = e[j]
    <3>1. Rank(I, e[k]) = k /\ Rank(I, e[j]) = j
      BY <1>4, <1>8
    <3>2. QED
      BY <1>12, <2>1, <2>3, <3>1
  <2>4. QED
    BY <2>1, <2>2, <2>3
<1>13. QED
  BY <1>1, <1>2, <1>7, <1>8, <1>9, <1>10, <1>11, <1>12 DEF I, n, e

LEMMA EndsJoin ==
    ASSUME NEW b \in Seq(Bytes), NEW d \in Seq(Bytes)
    PROVE  /\ Len(Ends(b \o d)) = Len(Ends(b)) + Len(Ends(d))
           /\ \A k \in 1 .. Len(Ends(b)) : Ends(b \o d)[k] = Ends(b)[k]
           /\ \A k \in 1 .. Len(Ends(d)) : Ends(b \o d)[Len(Ends(b)) + k] = Len(b) + Ends(d)[k]
<1> DEFINE I == PlacesOf(b, {"nl"})
           J == PlacesOf(d, {"nl"})
           v == b \o d
           K == PlacesOf(v, {"nl"})
           n == Len(Ends(b))
           m == Len(Ends(d))
<1>1. v \in Seq(Bytes) /\ Len(b) \in Nat /\ Len(d) \in Nat
  OBVIOUS
<1>2. I \in SUBSET (1 .. Len(b)) /\ J \in SUBSET (1 .. Len(d)) /\ K = Joined(I, Len(b), J)
  BY JoinPlaces
<1>3. n = Cardinality(I) /\ n \in Nat /\ \A k \in 1 .. n : Ends(b)[k] = KthOf(I, k)
  BY EndsAre
<1>4. m = Cardinality(J) /\ m \in Nat /\ \A k \in 1 .. m : Ends(d)[k] = KthOf(J, k)
  BY EndsAre
<1> HIDE DEF I, J, v, n, m
<1>5. Len(Ends(v)) = Cardinality(K) /\ \A k \in 1 .. Cardinality(K) : Ends(v)[k] = KthOf(K, k)
  BY <1>1, EndsAre
<1> HIDE DEF K
<1>6. Cardinality(Joined(I, Len(b), J)) = n + m
  BY <1>1, <1>2, <1>3, <1>4, JoinedCard
<1>7. /\ \A k \in 1 .. n : KthOf(Joined(I, Len(b), J), k) = KthOf(I, k)
      /\ \A k \in 1 .. m : KthOf(Joined(I, Len(b), J), n + k) = Len(b) + KthOf(J, k)
  <2>1. /\ \A k \in 1 .. Cardinality(I) : KthOf(Joined(I, Len(b), J), k) = KthOf(I, k)
        /\ \A k \in 1 .. Cardinality(J) :
              KthOf(Joined(I, Len(b), J), Cardinality(I) + k) = Len(b) + KthOf(J, k)
    BY <1>1, <1>2, JoinedKth
  <2>2. QED
    BY <1>3, <1>4, <2>1
<1>8. Len(Ends(v)) = n + m /\ \A k \in 1 .. n + m : Ends(v)[k] = KthOf(K, k)
  BY <1>2, <1>5, <1>6
<1>9. /\ \A k \in 1 .. n : k \in 1 .. n + m
      /\ \A k \in 1 .. m : n + k \in 1 .. n + m
  BY <1>3, <1>4
<1>10. \A k \in 1 .. n : Ends(v)[k] = Ends(b)[k]
  BY <1>2, <1>3, <1>7, <1>8, <1>9
<1>11. \A k \in 1 .. m : Ends(v)[n + k] = Len(b) + Ends(d)[k]
  BY <1>2, <1>4, <1>7, <1>8, <1>9
<1>12. QED
  BY <1>8, <1>10, <1>11 DEF v, n, m

\* The place of the last newline, or 0.
LastEnd(b) == IF Len(Ends(b)) = 0 THEN 0 ELSE Ends(b)[Len(Ends(b))]

\* What is after the last newline has none.
LEMMA RestIs ==
    ASSUME NEW b \in Seq(Bytes)
    PROVE  /\ LastEnd(b) \in 0 .. Len(b)
           /\ Rest(b) = SubSeq(b, LastEnd(b) + 1, Len(b))
           /\ Rest(b) \in Seq(Bytes \ {"nl"}) /\ Len(Rest(b)) = Len(b) - LastEnd(b)
           /\ \A i \in 1 .. Len(Rest(b)) : Rest(b)[i] = b[LastEnd(b) + i]
           /\ Len(Ends(Rest(b))) = 0
<1> DEFINE e == Ends(b)
           n == Len(e)
           l == LastEnd(b)
           r == Rest(b)
<1>1. e \in Seq(1 .. Len(b)) /\ n \in Nat /\ \A k \in 1 .. n : e[k] \in 1 .. Len(b)
  BY EndsAre
<1>2. \A i \in 1 .. Len(b) : b[i] = "nl" => \E k \in 1 .. n : e[k] = i
  BY EndsAre
<1>3. \A j, k \in 1 .. n : e[j] < e[k] => j < k
  BY EndsAre
<1>4. Len(b) \in Nat /\ \A i \in 1 .. Len(b) : b[i] \in Bytes
  OBVIOUS
<1>5. e = <<>> <=> n = 0
  BY <1>1
<1>6. l = IF n = 0 THEN 0 ELSE e[n]
  BY DEF LastEnd
<1>7. r = IF e = <<>> THEN b ELSE SubSeq(b, e[n] + 1, Len(b))
  BY DEF Rest, Last
<1> HIDE DEF e, n, l, r
<1>8. l \in 0 .. Len(b) /\ l \in Int
  BY <1>1, <1>4, <1>6
<1>9. r = SubSeq(b, l + 1, Len(b))
  <2>1. CASE n = 0
    <3>1. SubSeq(b, 1, Len(b)) = b
      BY SubSeqFull
    <3>2. l + 1 = 1
      BY <1>6, <2>1
    <3>3. QED
      BY <1>5, <1>7, <2>1, <3>1, <3>2
  <2>2. CASE n # 0
    BY <1>5, <1>6, <1>7, <2>2
  <2>3. QED
    BY <2>1, <2>2
<1>10. \A i \in l + 1 .. Len(b) : b[i] \in Bytes \ {"nl"}
  <2>1. SUFFICES ASSUME NEW i \in l + 1 .. Len(b), b[i] = "nl"
                 PROVE  FALSE
    BY <1>4, <1>8
  <2>2. i \in 1 .. Len(b) /\ i \in Int /\ l < i
    BY <1>4, <1>8
  <2>3. PICK k \in 1 .. n : e[k] = i
    BY <1>2, <2>1, <2>2
  <2>4. n # 0 /\ n \in 1 .. n /\ l = e[n]
    BY <1>1, <1>6, <2>3
  <2>5. n < k
    BY <1>3, <2>2, <2>3, <2>4
  <2>6. QED
    BY <1>1, <2>3, <2>5
<1>11. /\ r \in Seq(Bytes \ {"nl"})
       /\ Len(r) = IF l + 1 <= Len(b) THEN Len(b) - (l + 1) + 1 ELSE 0
       /\ \A i \in 1 .. Len(b) - (l + 1) + 1 : r[i] = b[(l + 1) + i - 1]
  <2>1. l + 1 \in Int /\ Len(b) \in Int
    BY <1>4, <1>8
  <2>2. QED
    BY <1>9, <1>10, <2>1, SubSeqProperties
<1>12. Len(r) = Len(b) - l /\ Len(r) \in Nat
  BY <1>4, <1>8, <1>11
<1>13. \A i \in 1 .. Len(r) : r[i] = b[l + i]
  <2>1. TAKE i \in 1 .. Len(r)
  <2>2. i \in 1 .. Len(b) - (l + 1) + 1 /\ (l + 1) + i - 1 = l + i
    BY <1>4, <1>8, <1>12
  <2>3. QED
    BY <1>11, <2>2
<1>14. Len(Ends(r)) = 0
  <2>1. r \in Seq(Bytes) /\ \A i \in 1 .. Len(r) : r[i] # "nl"
    BY <1>11
  <2>2. \A k \in 1 .. Len(Ends(r)) : Ends(r)[k] \in 1 .. Len(r) /\ r[Ends(r)[k]] = "nl"
    BY <2>1, EndsAre
  <2>3. Len(Ends(r)) \in Nat
    BY <2>1, EndsAre
  <2>4. QED
    BY <2>1, <2>2, <2>3
<1>15. QED
  BY <1>8, <1>9, <1>11, <1>12, <1>13, <1>14 DEF l, r

\* Where the i-th line of a buffer begins.
From(b, i) == IF i = 1 THEN 1 ELSE Ends(b)[i - 1] + 1

LEMMA TextIs ==
    ASSUME NEW raw \in Seq(Bytes \ {"nl"})
    PROVE  Text(raw) \in Seq(Bytes \ {"nl"})
<1>1. CASE raw # <<>>
  <2>1. Len(raw) - 1 \in Int /\ \A i \in 1 .. Len(raw) - 1 : i \in 1 .. Len(raw)
    BY <1>1
  <2>2. \A i \in 1 .. Len(raw) - 1 : raw[i] \in Bytes \ {"nl"}
    BY <2>1
  <2>3. Front(raw) \in Seq(Bytes \ {"nl"})
    BY <2>1, <2>2, SubSeqProperties DEF Front
  <2>4. QED
    BY <2>3 DEF Text
<1>2. CASE raw = <<>>
  BY <1>2 DEF Text
<1>3. QED
  BY <1>1, <1>2

LEMMA CompleteIs ==
    ASSUME NEW b \in Seq(Bytes)
    PROVE  /\ Complete(b) \in Seq(Seq(Bytes \ {"nl"})) /\ Len(Complete(b)) = Len(Ends(b))
           /\ \A i \in 1 .. Len(Ends(b)) :
                 /\ From(b, i) \in Nat \ {0} /\ Ends(b)[i] - 1 \in 0 .. Len(b)
                 /\ Complete(b)[i] = Text(SubSeq(b, From(b, i), Ends(b)[i] - 1))
<1> DEFINE e == Ends(b)
           n == Len(e)
           c == Complete(b)
           line(i) == SubSeq(b, From(b, i), e[i] - 1)
<1>1. n \in Nat /\ DOMAIN e = 1 .. n /\ \A k \in 1 .. n : e[k] \in 1 .. Len(b)
  BY EndsAre
<1>2. \A i \in 1 .. Len(b) : b[i] = "nl" => \E k \in 1 .. n : e[k] = i
  BY EndsAre
<1>3. \A j, k \in 1 .. n : e[j] < e[k] => j < k
  BY EndsAre
<1>4. Len(b) \in Nat /\ \A i \in 1 .. Len(b) : b[i] \in Bytes
  OBVIOUS
<1>5. c = [i \in DOMAIN e |-> Text(line(i))]
  BY DEF Complete, From
<1>6. \A i : From(b, i) = IF i = 1 THEN 1 ELSE e[i - 1] + 1
  BY DEF From
<1> HIDE DEF e, n, c
<1>7. ASSUME NEW i \in 1 .. n
      PROVE  From(b, i) \in Nat \ {0} /\ e[i] - 1 \in 0 .. Len(b)
  <2>1. i = 1 \/ i - 1 \in 1 .. n
    BY <1>1
  <2>2. \A k \in 1 .. n : e[k] \in Nat /\ e[k] - 1 \in 0 .. Len(b)
    BY <1>1, <1>4
  <2>3. QED
    BY <1>6, <2>1, <2>2
<1>8. ASSUME NEW i \in 1 .. n
      PROVE  line(i) \in Seq(Bytes \ {"nl"})
  <2>1. ASSUME NEW p \in From(b, i) .. e[i] - 1
        PROVE  b[p] \in Bytes \ {"nl"}
    <3>1. /\ p \in 1 .. Len(b) /\ p \in Int /\ p < e[i] /\ From(b, i) <= p
          /\ e[i] \in Int /\ i \in Int
      <4> DEFINE f == From(b, i)
                 x == e[i]
      <4>1. f \in Nat \ {0} /\ x \in 1 .. Len(b) /\ Len(b) \in Nat /\ p \in f .. x - 1
        BY <1>1, <1>4, <1>7
      <4>2. i \in Int
        OBVIOUS
      <4> HIDE DEF f, x
      <4>3. p \in 1 .. Len(b) /\ p \in Int /\ p < x /\ f <= p /\ x \in Int
        BY <4>1
      <4>4. QED
        BY <4>2, <4>3 DEF f, x
    <3>2. SUFFICES ASSUME b[p] = "nl" PROVE FALSE
      BY <1>4, <3>1
    <3>3. PICK k \in 1 .. n : e[k] = p
      BY <1>2, <3>1, <3>2
    <3>4. k < i /\ k \in Int
      BY <1>3, <3>1, <3>3
    <3>5. i # 1 /\ i - 1 \in 1 .. n /\ From(b, i) = e[i - 1] + 1 /\ k <= i - 1
      <4>1. n \in Nat /\ k \in 1 .. n /\ i \in 1 .. n /\ k < i
        BY <1>1, <3>4
      <4>2. i # 1 /\ i - 1 \in 1 .. n /\ k <= i - 1
        BY <4>1
      <4>3. From(b, i) = e[i - 1] + 1
        BY <1>6, <4>2
      <4>4. QED
        BY <4>2, <4>3
    <3>6. e[i - 1] < e[k] /\ e[i - 1] \in Int
      BY <1>1, <3>1, <3>3, <3>5
    <3>7. i - 1 < k
      BY <1>3, <3>3, <3>5, <3>6
    <3>8. QED
      BY <3>1, <3>4, <3>5, <3>7
  <2>2. From(b, i) \in Int /\ e[i] - 1 \in Int
    BY <1>7
  <2>3. QED
    BY <2>1, <2>2, SubSeqProperties
<1>9. \A i \in 1 .. n : Text(line(i)) \in Seq(Bytes \ {"nl"})
  BY <1>8, TextIs
<1> HIDE DEF line
<1>10. c \in Seq(Seq(Bytes \ {"nl"})) /\ Len(c) = n /\ \A i \in 1 .. n : c[i] = Text(line(i))
  <2> DEFINE T == Seq(Bytes \ {"nl"})
  <2>1. \A i \in 1 .. n : Text(line(i)) \in T
    BY <1>9
  <2> HIDE DEF T
  <2>2. c = [i \in 1 .. n |-> Text(line(i))]
    BY <1>1, <1>5
  <2>3. c \in Seq(T) /\ Len(c) = n
    BY <1>1, <2>1, <2>2
  <2>4. QED
    BY <2>2, <2>3 DEF T
<1>11. QED
  BY <1>7, <1>10 DEF c, n, e, line

\* Lines do not depend on where a stream is cut: of b and then d, they are those of b
\* and those of what b left and d.
LEMMA CompleteJoin ==
    ASSUME NEW b \in Seq(Bytes), NEW d \in Seq(Bytes)
    PROVE  /\ Rest(b) \o d \in Seq(Bytes)
           /\ Complete(b \o d) = Complete(b) \o Complete(Rest(b) \o d)
           /\ Rest(b \o d) = Rest(Rest(b) \o d)
<1> DEFINE e == LastEnd(b)
           r == Rest(b)
           v == b \o d
           w == r \o d
           n == Len(Ends(b))
           m == Len(Ends(d))
<1>1. /\ e \in 0 .. Len(b) /\ e \in Nat /\ r \in Seq(Bytes) /\ Len(r) = Len(b) - e /\ Len(Ends(r)) = 0
      /\ \A i \in 1 .. Len(r) : r[i] = b[e + i]
  <2>1. r \in Seq(Bytes \ {"nl"})
    BY RestIs
  <2>2. r \in Seq(Bytes)
    BY <2>1
  <2>3. Len(b) \in Nat
    OBVIOUS
  <2>4. QED
    BY <2>2, <2>3, RestIs
<1>2. /\ v \in Seq(Bytes) /\ Len(v) = Len(b) + Len(d) /\ Len(b) \in Nat /\ Len(d) \in Nat
      /\ \A i \in 1 .. Len(b) : v[i] = b[i]
      /\ \A i \in 1 .. Len(d) : v[Len(b) + i] = d[i]
  OBVIOUS
<1> HIDE DEF r
<1>3. /\ w \in Seq(Bytes) /\ Len(w) = Len(r) + Len(d)
      /\ \A i \in 1 .. Len(r) : w[i] = r[i]
      /\ \A i \in 1 .. Len(d) : w[Len(r) + i] = d[i]
  <2>1. /\ w \in Seq(Bytes) /\ Len(w) = Len(r) + Len(d)
        /\ \A i \in 1 .. Len(r) + Len(d) : w[i] = IF i <= Len(r) THEN r[i] ELSE d[i - Len(r)]
    BY <1>1, ConcatProperties
  <2>2. Len(r) \in Nat /\ Len(d) \in Nat
    BY <1>1, <1>2
  <2> HIDE DEF w
  <2>3. \A i \in 1 .. Len(r) : i \in 1 .. Len(r) + Len(d) /\ i <= Len(r)
    BY <2>2
  <2>4. \A i \in 1 .. Len(d) :
           Len(r) + i \in 1 .. Len(r) + Len(d) /\ ~(Len(r) + i <= Len(r)) /\ (Len(r) + i) - Len(r) = i
    BY <2>2
  <2>5. QED
    BY <2>1, <2>3, <2>4
<1>4. n \in Nat /\ m \in Nat /\ \A k \in 1 .. n : Ends(b)[k] \in 1 .. Len(b)
  BY EndsAre
<1>5. \A k \in 1 .. m : Ends(d)[k] \in 1 .. Len(d)
  BY EndsAre
<1>6. /\ Len(Ends(v)) = n + m
      /\ \A k \in 1 .. n : Ends(v)[k] = Ends(b)[k]
      /\ \A k \in 1 .. m : Ends(v)[n + k] = Len(b) + Ends(d)[k]
  BY EndsJoin
<1>7. Len(Ends(w)) = m /\ \A k \in 1 .. m : Ends(w)[k] = Len(r) + Ends(d)[k]
  <2>1. /\ Len(Ends(w)) = Len(Ends(r)) + Len(Ends(d))
        /\ \A k \in 1 .. Len(Ends(d)) : Ends(w)[Len(Ends(r)) + k] = Len(r) + Ends(d)[k]
    BY <1>1, EndsJoin
  <2>2. \A k \in 1 .. m : 0 + k = k
    BY <1>4
  <2>3. QED
    BY <1>1, <1>4, <2>1, <2>2
<1>8. e = IF n = 0 THEN 0 ELSE Ends(b)[n]
  BY DEF LastEnd
<1>9. LastEnd(v) = (IF n + m = 0 THEN 0 ELSE Ends(v)[n + m]) /\ LastEnd(w) = (IF m = 0 THEN 0 ELSE Ends(w)[m])
  BY <1>6, <1>7 DEF LastEnd
<1>10. /\ Complete(v) \in Seq(Seq(Bytes \ {"nl"})) /\ Len(Complete(v)) = n + m
       /\ \A i \in 1 .. n + m : Complete(v)[i] = Text(SubSeq(v, From(v, i), Ends(v)[i] - 1))
  BY <1>2, <1>6, CompleteIs
<1>11. /\ Complete(b) \in Seq(Seq(Bytes \ {"nl"})) /\ Len(Complete(b)) = n
       /\ \A i \in 1 .. n : /\ From(b, i) \in Nat \ {0} /\ Ends(b)[i] - 1 \in 0 .. Len(b)
                            /\ Complete(b)[i] = Text(SubSeq(b, From(b, i), Ends(b)[i] - 1))
  BY CompleteIs
<1>12. /\ Complete(w) \in Seq(Seq(Bytes \ {"nl"})) /\ Len(Complete(w)) = m
       /\ \A i \in 1 .. m : /\ From(w, i) \in Nat \ {0} /\ Ends(w)[i] - 1 \in 0 .. Len(w)
                            /\ Complete(w)[i] = Text(SubSeq(w, From(w, i), Ends(w)[i] - 1))
  BY <1>3, <1>7, CompleteIs
<1>13. Rest(v) = SubSeq(v, LastEnd(v) + 1, Len(v))
  BY <1>2, RestIs
<1>14. Rest(w) = SubSeq(w, LastEnd(w) + 1, Len(w)) /\ LastEnd(w) \in 0 .. Len(w)
  BY <1>3, RestIs
<1>15. /\ \A i : From(v, i) = IF i = 1 THEN 1 ELSE Ends(v)[i - 1] + 1
       /\ \A i : From(b, i) = IF i = 1 THEN 1 ELSE Ends(b)[i - 1] + 1
       /\ \A i : From(w, i) = IF i = 1 THEN 1 ELSE Ends(w)[i - 1] + 1
  BY DEF From
<1> HIDE DEF e, v, w, n, m
\* w stands in v, after the lines of b.
<1>16. /\ Len(v) = e + Len(w) /\ Len(w) \in Nat
       /\ \A i \in 1 .. Len(w) : v[e + i] = w[i]
  <2>1. Len(v) = e + Len(w) /\ Len(w) \in Nat /\ Len(r) \in Nat
    BY <1>1, <1>2, <1>3
  <2>2. ASSUME NEW i \in 1 .. Len(w)
        PROVE  v[e + i] = w[i]
    <3>1. CASE i \in 1 .. Len(r)
      <4>1. e + i \in 1 .. Len(b)
        BY <1>1, <1>2, <3>1
      <4>2. QED
        BY <1>1, <1>2, <1>3, <3>1, <4>1
    <3>2. CASE i \notin 1 .. Len(r)
      <4> DEFINE j == i - Len(r)
      <4>1. j \in 1 .. Len(d) /\ i = Len(r) + j /\ e + i = Len(b) + j
        BY <1>1, <1>2, <1>3, <2>1, <3>2
      <4> HIDE DEF j
      <4>2. v[Len(b) + j] = d[j] /\ w[Len(r) + j] = d[j]
        BY <1>2, <1>3, <4>1
      <4>3. QED
        BY <4>1, <4>2
    <3>3. QED
      BY <3>1, <3>2
  <2>3. QED
    BY <2>1, <2>2
<1>17. \A k \in 1 .. m : Ends(w)[k] \in 1 .. Len(w) /\ Ends(v)[n + k] = e + Ends(w)[k]
  <2>1. TAKE k \in 1 .. m
  <2>2. /\ Ends(d)[k] \in 1 .. Len(d) /\ Ends(w)[k] = Len(r) + Ends(d)[k]
        /\ Ends(v)[n + k] = Len(b) + Ends(d)[k]
    BY <1>5, <1>6, <1>7
  <2>3. e \in Int /\ Len(b) \in Int /\ Len(d) \in Int /\ Len(r) = Len(b) - e /\ e <= Len(b)
        /\ Len(w) = Len(r) + Len(d)
    BY <1>1, <1>2, <1>3
  <2>4. QED
    BY <2>2, <2>3
<1>18. e \in Nat /\ v \in Seq(Bytes) /\ w \in Seq(Bytes) /\ e + Len(w) <= Len(v)
  BY <1>1, <1>2, <1>3, <1>16
<1>19. ASSUME NEW a \in Nat \ {0}, NEW z \in Nat, z <= Len(w)
       PROVE  SubSeq(v, e + a, e + z) = SubSeq(w, a, z)
  <2>1. \A i \in 1 .. Len(w) : v[e + i] = w[i]
    BY <1>16
  <2>2. QED
    BY <1>18, <1>19, <2>1, PieceAt
<1>20. \A i \in 1 .. n : Complete(v)[i] = Complete(b)[i]
  <2>1. TAKE i \in 1 .. n
  <2>2. i \in 1 .. n + m /\ (i = 1 \/ i - 1 \in 1 .. n)
    BY <1>4
  <2>3. From(v, i) = From(b, i) /\ Ends(v)[i] = Ends(b)[i]
    BY <1>6, <1>15, <2>2
  <2> DEFINE a == From(b, i)
             z == Ends(b)[i] - 1
  <2>4. a \in Nat \ {0} /\ z \in Nat /\ z <= Len(b) /\ 0 + a = a /\ 0 + z = z
    BY <1>2, <1>11
  <2>5. 0 + Len(b) <= Len(v) /\ \A j \in 1 .. Len(b) : v[0 + j] = b[j]
    BY <1>2
  <2> HIDE DEF a, z
  <2>6. SubSeq(v, 0 + a, 0 + z) = SubSeq(b, a, z)
    BY <1>2, <2>4, <2>5, PieceAt
  <2>7. SubSeq(v, a, z) = SubSeq(b, a, z)
    BY <2>4, <2>6
  <2>8. QED
    BY <1>10, <1>11, <2>2, <2>3, <2>7 DEF a, z
<1>21. \A k \in 1 .. m : Complete(v)[n + k] = Complete(w)[k]
  <2>1. TAKE k \in 1 .. m
  <2> DEFINE a == From(w, k)
             z == Ends(w)[k] - 1
  <2>2. n + k \in 1 .. n + m
    BY <1>4
  <2>3. From(v, n + k) = e + a
    <3>1. CASE k = 1 /\ n = 0
      BY <1>8, <1>15, <3>1
    <3>2. CASE k = 1 /\ n # 0
      <4>1. n + k # 1 /\ (n + k) - 1 = n /\ n \in 1 .. n
        BY <1>4, <3>2
      <4>2. From(v, n + k) = Ends(b)[n] + 1
        BY <1>6, <1>15, <4>1
      <4>3. QED
        BY <1>8, <1>15, <3>2, <4>2
    <3>3. CASE k # 1
      <4>1. k - 1 \in 1 .. m /\ n + k # 1 /\ (n + k) - 1 = n + (k - 1)
        BY <1>4, <3>3
      <4>2. From(v, n + k) = Ends(v)[n + (k - 1)] + 1 /\ a = Ends(w)[k - 1] + 1
        BY <1>15, <3>3, <4>1
      <4>3. Ends(v)[n + (k - 1)] = e + Ends(w)[k - 1] /\ Ends(w)[k - 1] \in Int
        BY <1>17, <4>1
      <4>4. QED
        BY <1>1, <4>2, <4>3
    <3>4. QED
      BY <3>1, <3>2, <3>3
  <2>4. /\ a \in Nat \ {0} /\ z \in Nat /\ z <= Len(w) /\ Ends(v)[n + k] - 1 = e + z
    <3>1. a \in Nat \ {0} /\ z \in 0 .. Len(w)
      BY <1>12
    <3>2. Ends(w)[k] \in 1 .. Len(w) /\ Ends(v)[n + k] = e + Ends(w)[k]
      BY <1>17
    <3> HIDE DEF a
    <3>3. QED
      BY <1>16, <1>18, <3>1, <3>2
  <2>6. Complete(w)[k] = Text(SubSeq(w, a, z))
    BY <1>12
  <2> HIDE DEF a, z
  <2>7. SubSeq(v, e + a, e + z) = SubSeq(w, a, z)
    BY <2>4, <1>19
  <2>8. QED
    BY <1>10, <2>2, <2>3, <2>4, <2>6, <2>7
<1>22. Complete(v) = Complete(b) \o Complete(w)
  <2> DEFINE f == Complete(v)
             g == Complete(b)
             h == Complete(w)
             T == Seq(Bytes \ {"nl"})
  <2>1. f \in Seq(T) /\ g \in Seq(T) /\ h \in Seq(T) /\ Len(f) = n + m /\ Len(g) = n /\ Len(h) = m
    BY <1>10, <1>11, <1>12
  <2>2. (\A i \in 1 .. n : f[i] = g[i]) /\ \A k \in 1 .. m : f[n + k] = h[k]
    BY <1>20, <1>21
  <2> HIDE DEF f, g, h, T
  <2>3. f = g \o h
    BY <1>4, <2>1, <2>2, JoinedSeq
  <2>4. QED
    BY <2>3 DEF f, g, h
<1>23. Rest(v) = Rest(w)
  <2> DEFINE l == LastEnd(w)
  <2>1. LastEnd(v) = e + l /\ l \in Nat /\ l <= Len(w)
    <3>1. CASE m = 0
      <4>1. n + m = n
        BY <1>4, <3>1
      <4>2. n # 0 => n \in 1 .. n
        BY <1>4
      <4>3. QED
        BY <1>1, <1>6, <1>8, <1>9, <1>14, <1>16, <3>1, <4>1, <4>2
    <3>2. CASE m # 0
      <4>1. n + m # 0 /\ m \in 1 .. m
        BY <1>4, <3>2
      <4>2. QED
        BY <1>1, <1>9, <1>14, <1>16, <1>17, <3>2, <4>1
    <3>3. QED
      BY <3>1, <3>2
  <2> HIDE DEF l
  <2>2. l + 1 \in Nat \ {0} /\ (e + l) + 1 = e + (l + 1) /\ Len(w) \in Nat /\ Len(w) <= Len(w)
    BY <1>16, <1>18, <2>1
  <2>3. SubSeq(v, e + (l + 1), e + Len(w)) = SubSeq(w, l + 1, Len(w))
    BY <2>2, <1>19
  <2>4. QED
    BY <1>13, <1>14, <1>16, <2>1, <2>2, <2>3 DEF l
<1>24. QED
  BY <1>3, <1>22, <1>23 DEF v, w, r

-----------------------------------------------------------------------------
(* DockerLogs: the transcript.                                             *)

LEMMA OfTwo ==
    ASSUME NEW a \in Int, NEW b \in Int
    PROVE  /\ Min({a, b}) = IF a <= b THEN a ELSE b
           /\ Max({a, b}) = IF a >= b THEN a ELSE b
<1>1. Min({a, b}) = IF a <= b THEN a ELSE b
  <2> DEFINE m == IF a <= b THEN a ELSE b
  <2>1. m \in {a, b} /\ \A y \in {a, b} : m <= y
    OBVIOUS
  <2>2. \A x \in {a, b} : (\A y \in {a, b} : x <= y) => x = m
    OBVIOUS
  <2> HIDE DEF m
  <2>3. Min({a, b}) = m
    BY <2>1, <2>2 DEF Min
  <2>4. QED
    BY <2>3 DEF m
<1>2. Max({a, b}) = IF a >= b THEN a ELSE b
  <2> DEFINE m == IF a >= b THEN a ELSE b
  <2>1. m \in {a, b} /\ \A y \in {a, b} : m >= y
    OBVIOUS
  <2>2. \A x \in {a, b} : (\A y \in {a, b} : x >= y) => x = m
    OBVIOUS
  <2> HIDE DEF m
  <2>3. Max({a, b}) = m
    BY <2>1, <2>2 DEF Max
  <2>4. QED
    BY <2>3 DEF m
<1>3. QED
  BY <1>1, <1>2

Texts == Seq(Bytes \ {"nl"})
LinesOf(s) == {l \in LogLine : l.stream = s}

LEMMA OfIs ==
    ASSUME NEW s \in Streams, NEW texts \in Seq(Texts)
    PROVE  /\ Of(s, texts) \in Seq(LogLine) /\ Len(Of(s, texts)) = Len(texts)
           /\ \A i \in 1 .. Len(texts) : Of(s, texts)[i] = [stream |-> s, text |-> texts[i]]
           /\ \A i \in 1 .. Len(texts) : Of(s, texts)[i].stream = s
<1>1. Len(texts) \in Nat /\ DOMAIN texts = 1 .. Len(texts) /\ \A i \in 1 .. Len(texts) : texts[i] \in Texts
  OBVIOUS
<1>2. \A i \in 1 .. Len(texts) : [stream |-> s, text |-> texts[i]] \in LogLine
  BY <1>1 DEF LogLine, Texts
<1>3. Of(s, texts) = [i \in 1 .. Len(texts) |-> [stream |-> s, text |-> texts[i]]]
  BY <1>1 DEF Of
<1>4. Of(s, texts) \in Seq(LogLine) /\ Len(Of(s, texts)) = Len(texts)
  BY <1>1, <1>2, <1>3
<1>5. QED
  BY <1>3, <1>4

LEMMA OfJoin ==
    ASSUME NEW s \in Streams, NEW q \in Seq(Texts), NEW r \in Seq(Texts)
    PROVE  Of(s, q \o r) = Of(s, q) \o Of(s, r)
<1> DEFINE f == Of(s, q \o r)
           g == Of(s, q)
           h == Of(s, r)
<1>1. /\ q \o r \in Seq(Texts) /\ Len(q \o r) = Len(q) + Len(r) /\ Len(q) \in Nat /\ Len(r) \in Nat
      /\ \A i \in 1 .. Len(q) : (q \o r)[i] = q[i]
      /\ \A i \in 1 .. Len(r) : (q \o r)[Len(q) + i] = r[i]
  OBVIOUS
<1>2. /\ f \in Seq(LogLine) /\ Len(f) = Len(q) + Len(r)
      /\ \A i \in 1 .. Len(q) + Len(r) : f[i] = [stream |-> s, text |-> (q \o r)[i]]
  BY <1>1, OfIs
<1>3. /\ g \in Seq(LogLine) /\ Len(g) = Len(q)
      /\ \A i \in 1 .. Len(q) : g[i] = [stream |-> s, text |-> q[i]]
  BY OfIs
<1>4. /\ h \in Seq(LogLine) /\ Len(h) = Len(r)
      /\ \A i \in 1 .. Len(r) : h[i] = [stream |-> s, text |-> r[i]]
  BY OfIs
<1> HIDE DEF f, g, h
<1>5. /\ \A i \in 1 .. Len(q) : i \in 1 .. Len(q) + Len(r)
      /\ \A i \in 1 .. Len(r) : Len(q) + i \in 1 .. Len(q) + Len(r)
  BY <1>1
<1>6. \A i \in 1 .. Len(g) : f[i] = g[i]
  BY <1>1, <1>2, <1>3, <1>5
<1>7. \A i \in 1 .. Len(r) : f[Len(q) + i] = h[i]
  <2>1. \A i \in 1 .. Len(r) : f[Len(q) + i] = [stream |-> s, text |-> (q \o r)[Len(q) + i]]
    BY <1>2, <1>5
  <2>2. QED
    BY <1>1, <1>4, <2>1
<1>8. f = g \o h
  <2>1. Len(f) = Len(g) + Len(h) /\ \A i \in 1 .. Len(h) : f[Len(g) + i] = h[i]
    BY <1>2, <1>3, <1>4, <1>7
  <2>2. QED
    BY <1>2, <1>3, <1>4, <1>6, <2>1, JoinedSeq
<1>9. QED
  BY <1>8 DEF f, g, h

\* The lines of a stream, among lines of it only and among lines of the other.
LEMMA OfStream ==
    ASSUME NEW s \in Streams, NEW t \in Streams, NEW texts \in Seq(Texts)
    PROVE  FilterRows(Of(s, texts), LinesOf(t)) = IF s = t THEN Of(s, texts) ELSE <<>>
<1>1. /\ Of(s, texts) \in Seq(LogLine) /\ Len(Of(s, texts)) = Len(texts)
      /\ \A i \in 1 .. Len(texts) : Of(s, texts)[i].stream = s
  BY OfIs
<1>2. \A i \in 1 .. Len(Of(s, texts)) : Of(s, texts)[i] \in LinesOf(t) <=> s = t
  BY <1>1 DEF LinesOf
<1>3. CASE s = t
  BY <1>1, <1>2, <1>3, FilterAll
<1>4. CASE s # t
  BY <1>1, <1>2, <1>4, FilterNone
<1>5. QED
  BY <1>3, <1>4

LEMMA StreamOf ==
    ASSUME NEW q \in Seq(LogLine), NEW s
    PROVE  FilterRows(q, {l \in Range(q) : l.stream = s}) = FilterRows(q, LinesOf(s))
<1>1. \A i \in DOMAIN q : q[i] \in LogLine /\ q[i] \in Range(q)
  BY DEF Range
<1>2. \A i \in DOMAIN q : q[i] \in {l \in Range(q) : l.stream = s} <=> q[i] \in LinesOf(s)
  BY <1>1 DEF LinesOf
<1>3. QED
  BY <1>2, FilterSame

\* What is kept of the lines: the newest, up to the cap.
Kept(l, all) ==
    /\ Len(l) = Min({Len(all), MaxLines})
    /\ l = SubSeq(all, Len(all) - Len(l) + 1, Len(all))

LEMMA PushKeeps ==
    ASSUME DockerLogsConstants, lines \in Seq(LogLine), pushed \in Seq(LogLine), Kept(lines, pushed),
           NEW new \in Seq(LogLine), Push(new)
    PROVE  /\ pushed' = pushed \o new /\ pushed' \in Seq(LogLine)
           /\ lines' \in Seq(LogLine) /\ Len(lines') >= Len(lines) /\ Kept(lines', pushed')
<1> DEFINE p == Len(pushed)
           k == Len(lines)
           m == Len(new)
           l == lines \o new
           P == pushed \o new
           o == p - k
           l2 == lines'
<1>1. p \in Nat /\ k \in Nat /\ m \in Nat /\ MaxLines \in Nat \ {0}
  BY DEF DockerLogsConstants
<1>2. k = IF p <= MaxLines THEN p ELSE MaxLines
  <2>1. Min({p, MaxLines}) = IF p <= MaxLines THEN p ELSE MaxLines
    <3>1. p \in Int /\ MaxLines \in Int
      BY <1>1
    <3>2. QED
      BY <3>1, OfTwo, Zenon
  <2>2. QED
    BY <2>1 DEF Kept
<1>3. o \in Nat /\ p = o + k
  BY <1>1, <1>2
<1>4. \A i \in 1 .. k : lines[i] = pushed[o + i]
  <2>1. lines = SubSeq(pushed, o + 1, p)
    BY DEF Kept
  <2> HIDE DEF o
  <2>2. \A i \in o + 1 .. p : i \in 1 .. p
    BY <1>1, <1>3
  <2>3. o + 1 \in Int /\ p \in Int /\ \A i \in o + 1 .. p : pushed[i] \in LogLine
    BY <1>1, <1>3, <2>2
  <2>4. \A i \in 1 .. p - (o + 1) + 1 : SubSeq(pushed, o + 1, p)[i] = pushed[(o + 1) + i - 1]
    BY <2>3, SubSeqProperties
  <2> HIDE DEF p, k
  <2>5. \A i \in 1 .. k : i \in 1 .. p - (o + 1) + 1 /\ (o + 1) + i - 1 = o + i
    BY <1>1, <1>3
  <2>6. QED
    BY <2>1, <2>4, <2>5
<1>5. /\ l \in Seq(LogLine) /\ Len(l) = k + m
      /\ \A i \in 1 .. k + m : l[i] = IF i <= k THEN lines[i] ELSE new[i - k]
  BY ConcatProperties
<1>6. /\ P \in Seq(LogLine) /\ Len(P) = p + m
      /\ \A i \in 1 .. p + m : P[i] = IF i <= p THEN pushed[i] ELSE new[i - p]
  BY ConcatProperties
<1>7. l2 = (IF k + m > MaxLines THEN SubSeq(l, k + m - MaxLines + 1, k + m) ELSE l) /\ pushed' = P
  BY <1>5 DEF Push
<1> HIDE DEF p, k, m, l, P, o, l2
<1>8. \A i \in 1 .. Len(l) : P[o + i] = l[i]
  <2>1. TAKE i \in 1 .. Len(l)
  <2>2. i \in 1 .. k + m /\ o + i \in 1 .. p + m
    BY <1>1, <1>3, <1>5
  <2>3. CASE i <= k
    <3>1. i \in 1 .. k /\ o + i <= p
      BY <1>1, <1>3, <2>2, <2>3
    <3>2. QED
      BY <1>4, <1>5, <1>6, <2>2, <2>3, <3>1
  <2>4. CASE ~(i <= k)
    <3>1. ~(o + i <= p) /\ (o + i) - p = i - k
      BY <1>1, <1>3, <2>2, <2>4
    <3>2. QED
      BY <1>5, <1>6, <2>2, <2>4, <3>1
  <2>5. QED
    BY <2>3, <2>4
<1>9. o + Len(l) <= Len(P) /\ o + (k + m) = p + m
  <2>1. o + (k + m) = p + m /\ p + m \in Int /\ p + m <= p + m
    BY <1>1, <1>3
  <2>2. Len(l) = k + m /\ Len(P) = p + m
    BY <1>5, <1>6
  <2>3. QED
    BY <2>1, <2>2
<1>10. ASSUME NEW a \in Nat \ {0}, NEW z \in Nat, z <= Len(l)
       PROVE  SubSeq(P, o + a, o + z) = SubSeq(l, a, z)
  <2>1. P \in Seq(LogLine) /\ l \in Seq(LogLine) /\ o \in Nat /\ o + Len(l) <= Len(P)
    BY <1>3, <1>5, <1>6, <1>9
  <2>2. QED
    BY <1>8, <1>10, <2>1, PieceAt
<1>11. Min({p + m, MaxLines}) = IF p + m <= MaxLines THEN p + m ELSE MaxLines
  <2>1. p + m \in Int /\ MaxLines \in Int
    BY <1>1
  <2>2. QED
    BY <2>1, OfTwo, Zenon
<1>12. CASE k + m > MaxLines
  <2> DEFINE a == k + m - MaxLines + 1
  <2>1. a \in Nat \ {0} /\ k + m \in Nat /\ k + m <= Len(l) /\ o + a = p + m - MaxLines + 1
    BY <1>1, <1>3, <1>5, <1>12
  <2> HIDE DEF a
  <2>2. l2 = SubSeq(P, o + a, o + (k + m))
    BY <1>7, <1>10, <1>12, <2>1 DEF a
  <2>3. l2 = SubSeq(P, p + m - MaxLines + 1, p + m)
    BY <1>9, <2>1, <2>2
  <2>4. p + m - MaxLines + 1 \in Nat \ {0} /\ p + m \in Int /\ p + m - MaxLines + 1 \in Int
        /\ p + m - MaxLines + 1 <= p + m /\ (p + m) - (p + m - MaxLines + 1) + 1 = MaxLines
    BY <1>1, <1>3, <1>12
  <2>5. \A i \in p + m - MaxLines + 1 .. p + m : i \in 1 .. Len(P)
    BY <1>1, <1>6, <2>4
  <2>6. \A i \in p + m - MaxLines + 1 .. p + m : P[i] \in LogLine
    BY <1>6, <2>5
  <2>7. l2 \in Seq(LogLine) /\ Len(l2) = MaxLines
    BY <2>3, <2>4, <2>6, SubSeqProperties
  <2>8. Len(l2) >= k /\ Len(l2) = Min({Len(P), MaxLines})
    BY <1>1, <1>2, <1>3, <1>6, <1>11, <1>12, <2>7
  <2>9. Kept(l2, P)
    <3>1. Len(P) = p + m /\ Len(P) - Len(l2) + 1 = p + m - MaxLines + 1
      BY <1>1, <1>6, <2>7
    <3>2. l2 = SubSeq(P, Len(P) - Len(l2) + 1, Len(P))
      BY <2>3, <3>1, Zenon
    <3>3. QED
      BY <2>8, <3>2, Zenon DEF Kept
  <2>10. QED
    BY <1>6, <1>7, <2>7, <2>8, <2>9 DEF l2, P, k
<1>13. CASE ~(k + m > MaxLines)
  <2>1. l2 = l /\ l2 \in Seq(LogLine) /\ Len(l2) = k + m /\ Len(l2) >= k
    BY <1>1, <1>5, <1>7, <1>13
  <2>2. SubSeq(l, 1, Len(l)) = l
    BY <1>5, SubSeqFull
  <2>3. SubSeq(P, o + 1, o + (k + m)) = SubSeq(l, 1, k + m)
    <3>1. 1 \in Nat \ {0} /\ k + m \in Nat /\ k + m <= Len(l)
      BY <1>1, <1>5
    <3>2. QED
      BY <1>10, <3>1
  <2>4. o + 1 = (p + m) - (k + m) + 1
    BY <1>1, <1>3
  <2>5. l2 = SubSeq(P, (p + m) - (k + m) + 1, p + m)
    BY <1>5, <1>9, <2>1, <2>2, <2>3, <2>4
  <2>6. Len(l2) = Min({Len(P), MaxLines})
    BY <1>1, <1>2, <1>6, <1>11, <1>13, <2>1
  <2>7. Kept(l2, P)
    BY <1>6, <2>1, <2>5, <2>6 DEF Kept
  <2>8. QED
    BY <1>6, <1>7, <2>1, <2>7 DEF l2, P, k
<1>14. QED
  BY <1>12, <1>13

LogTypes ==
    /\ output \in [Streams -> Seq(Bytes)] /\ partial \in [Streams -> Seq(Bytes)]
    /\ lines \in Seq(LogLine) /\ pushed \in Seq(LogLine)
    /\ scroll \in Nat /\ tail \in BOOLEAN /\ ended \in BOOLEAN

\* What a stream without a newline holds back is what comes after its last one.
LogInv ==
    /\ LogTypes
    /\ ~ended => \A s \in Streams : partial[s] = Rest(output[s])
    /\ TranscriptIsOutput
    /\ scroll <= MaxOffset
    /\ ~ended => (tail <=> scroll = 0)

\* The lines a stream has had so far.
SoFar(s) == Of(s, Complete(output[s])
                  \o IF ended /\ Rest(output[s]) # <<>> THEN <<Rest(output[s])>> ELSE <<>>)

LEMMA TranscriptIs ==
    ASSUME LogTypes
    PROVE  TranscriptIsOutput <=>
              /\ \A s \in Streams : FilterRows(pushed, LinesOf(s)) = SoFar(s)
              /\ Kept(lines, pushed)
<1>1. \A s \in Streams :
         FilterRows(pushed, {l \in Range(pushed) : l.stream = s}) = FilterRows(pushed, LinesOf(s))
  BY StreamOf DEF LogTypes
<1>2. QED
  BY <1>1, Zenon DEF TranscriptIsOutput, SoFar, Kept

LEMMA LogInit ==
    ASSUME DockerLogsConstants, LogsInit
    PROVE  LogInv
<1>1. <<>> \in Seq(Bytes) /\ Len(<<>>) = 0 /\ \A i \in 1 .. 0 : FALSE
  OBVIOUS
<1>2. LogTypes
  <2>1. <<>> \in Seq(LogLine) /\ 0 \in Nat /\ TRUE \in BOOLEAN /\ FALSE \in BOOLEAN
    OBVIOUS
  <2>2. [s \in Streams |-> <<>>] \in [Streams -> Seq(Bytes)]
    BY <1>1
  <2>3. QED
    BY <2>1, <2>2, Zenon DEF LogsInit, LogTypes
<1>3. Len(Ends(<<>>)) = 0
  <2>1. /\ Len(Ends(<<>>)) \in Nat
        /\ \A k \in 1 .. Len(Ends(<<>>)) : Ends(<<>>)[k] \in 1 .. Len(<<>>)
    BY <1>1, EndsAre
  <2>2. QED
    BY <1>1, <2>1
<1>4. Complete(<<>>) = <<>>
  <2>1. Complete(<<>>) \in Seq(Texts) /\ Len(Complete(<<>>)) = 0
    BY <1>1, <1>3, CompleteIs DEF Texts
  <2>2. QED
    BY <2>1
<1>5. Rest(<<>>) = <<>>
  <2>1. /\ Rest(<<>>) \in Seq(Bytes \ {"nl"})
        /\ Len(Rest(<<>>)) = Len(<<>>) - LastEnd(<<>>) /\ LastEnd(<<>>) \in 0 .. Len(<<>>)
    BY <1>1, RestIs
  <2>2. QED
    BY <1>1, <2>1
<1>6. \A s \in Streams : partial[s] = Rest(output[s])
  BY <1>5 DEF LogsInit
<1>7. Kept(lines, pushed)
  <2>1. Min({0, MaxLines}) = 0
    BY OfTwo DEF DockerLogsConstants
  <2>2. lines = <<>> /\ pushed = <<>>
    BY DEF LogsInit
  <2>3. SubSeq(pushed, Len(pushed) - Len(lines) + 1, Len(pushed)) = <<>>
    BY <1>1, <2>2
  <2>4. QED
    BY <1>1, <2>1, <2>2, <2>3 DEF Kept
<1>8. ASSUME NEW s \in Streams
      PROVE  FilterRows(pushed, LinesOf(s)) = SoFar(s)
  <2>1. <<>> \in Seq(LogLine) /\ <<>> \in Seq(Texts) /\ <<>> \o <<>> = <<>>
    OBVIOUS
  <2>2. FilterRows(<<>>, LinesOf(s)) = <<>>
    BY <1>1, <2>1, FilterNone
  <2>3. Of(s, <<>>) = <<>>
    <3>1. Of(s, <<>>) \in Seq(LogLine) /\ Len(Of(s, <<>>)) = 0
      BY <1>1, <2>1, OfIs
    <3>2. QED
      BY <3>1
  <2>4. output[s] = <<>> /\ pushed = <<>> /\ ~ended
    BY DEF LogsInit
  <2>5. SoFar(s) = Of(s, <<>>)
    BY <1>4, <2>1, <2>4 DEF SoFar
  <2>6. QED
    BY <2>2, <2>3, <2>4, <2>5
<1>9. TranscriptIsOutput
  BY <1>2, <1>7, <1>8, TranscriptIs
<1>10. QED
  BY <1>2, <1>6, <1>9 DEF LogInv, LogsInit, MaxOffset

\* Pushing lines leaves the window where it was: there is room for it.
LEMMA PushScroll ==
    ASSUME LogTypes, lines' \in Seq(LogLine), Len(lines') >= Len(lines),
           scroll <= MaxOffset, scroll' = scroll
    PROVE  scroll' <= MaxOffset'
<1>1. Len(lines) \in Nat /\ Len(lines') \in Nat /\ scroll \in Nat
  BY DEF LogTypes
<1>2. (lines = <<>> <=> Len(lines) = 0) /\ (lines' = <<>> <=> Len(lines') = 0)
  BY DEF LogTypes
<1>3. QED
  BY <1>1, <1>2 DEF MaxOffset

\* Event::ContainerLog adds the lines that the chunk completes to those of its stream.
LEMMA ContainerLogStep ==
    ASSUME DockerLogsConstants, LogInv, NEW s \in Streams, ContainerLog(s)
    PROVE  LogInv'
<1>1. PICK n \in 1 .. MaxChunk : \E data \in [1 .. n -> Bytes] :
         output' = [output EXCEPT ![s] = @ \o data] /\ Ingest(s, data)
  BY DEF ContainerLog
<1>2. PICK data \in [1 .. n -> Bytes] :
         output' = [output EXCEPT ![s] = @ \o data] /\ Ingest(s, data)
  BY <1>1
<1>3. ~ended /\ ended' = ended /\ ~ended' /\ scroll' = scroll /\ tail' = tail
  BY DEF ContainerLog, scrollVars
<1>4. LogTypes /\ data \in Seq(Bytes)
  <2>1. n \in Nat
    BY DEF DockerLogsConstants
  <2>2. QED
    BY <2>1 DEF LogInv
<1> DEFINE o == output[s]
           w == Rest(o) \o data
           texts == Complete(w)
           new == Of(s, texts)
<1>5. /\ o \in Seq(Bytes) /\ o \o data \in Seq(Bytes)
      /\ \A t \in Streams : output[t] \in Seq(Bytes) /\ Rest(output[t]) = partial[t]
  <2>1. o \in Seq(Bytes)
    BY DEF LogInv, LogTypes
  <2>2. \A t \in Streams : output[t] \in Seq(Bytes)
    BY DEF LogInv, LogTypes
  <2>3. QED
    BY <1>3, <1>4, <2>1, <2>2 DEF LogInv
<1>6. Push(new) /\ partial' = [partial EXCEPT ![s] = Rest(w)]
  BY <1>2, <1>5 DEF Ingest
<1> HIDE DEF o
<1>7. w \in Seq(Bytes) /\ Complete(o \o data) = Complete(o) \o texts /\ Rest(o \o data) = Rest(w)
  BY <1>4, <1>5, CompleteJoin
<1>8. Complete(o) \in Seq(Texts)
  BY <1>5, CompleteIs DEF Texts
<1> HIDE DEF w
<1>9. texts \in Seq(Texts) /\ Rest(w) \in Seq(Bytes)
  <2>1. Rest(w) \in Seq(Bytes \ {"nl"})
    BY <1>7, RestIs
  <2>2. QED
    BY <1>7, <2>1, CompleteIs DEF Texts
<1> HIDE DEF texts
<1>10. new \in Seq(LogLine) /\ \A t \in Streams : FilterRows(new, LinesOf(t)) = IF s = t THEN new ELSE <<>>
  BY <1>9, OfIs, OfStream
<1>11. Of(s, Complete(o) \o texts) = Of(s, Complete(o)) \o new
  BY <1>8, <1>9, OfJoin
<1> HIDE DEF new
<1>12. lines \in Seq(LogLine) /\ pushed \in Seq(LogLine) /\ Kept(lines, pushed)
       /\ \A t \in Streams : FilterRows(pushed, LinesOf(t)) = SoFar(t)
  BY <1>4, TranscriptIs DEF LogInv, LogTypes
<1>13. /\ pushed' = pushed \o new /\ pushed' \in Seq(LogLine)
       /\ lines' \in Seq(LogLine) /\ Len(lines') >= Len(lines) /\ Kept(lines', pushed')
  BY <1>6, <1>10, <1>12, PushKeeps
<1>14. /\ output' \in [Streams -> Seq(Bytes)] /\ partial' \in [Streams -> Seq(Bytes)]
       /\ output'[s] = o \o data /\ partial'[s] = Rest(w)
       /\ \A t \in Streams \ {s} : output'[t] = output[t] /\ partial'[t] = partial[t]
  BY <1>2, <1>4, <1>5, <1>6, <1>9 DEF LogTypes, o
<1>15. LogTypes'
  <2>1. scroll' \in Nat /\ tail' \in BOOLEAN /\ ended' \in BOOLEAN
    BY <1>3, <1>4, Zenon DEF LogTypes
  <2>2. QED
    BY <1>13, <1>14, <2>1, Zenon DEF LogTypes
<1>16. \A t \in Streams : partial'[t] = Rest(output'[t])
  BY <1>5, <1>7, <1>14
<1>17. /\ \A t \in Streams : SoFar(t) = Of(t, Complete(output[t]))
       /\ \A t \in Streams : SoFar(t)' = Of(t, Complete(output'[t]))
  <2>1. \A t \in Streams : Complete(output[t]) \in Seq(Texts) /\ Complete(output'[t]) \in Seq(Texts)
    <3>1. \A t \in Streams : output[t] \in Seq(Bytes) /\ output'[t] \in Seq(Bytes)
      BY <1>5, <1>14
    <3>2. QED
      BY <3>1, CompleteIs DEF Texts
  <2>2. \A q \in Seq(Texts) : q \o <<>> = q
    BY ConcatEmptySeq
  <2>3. \A t \in Streams : Complete(output[t]) \o <<>> = Complete(output[t])
    BY <2>1, <2>2
  <2>4. \A t \in Streams : Complete(output'[t]) \o <<>> = Complete(output'[t])
    BY <2>1, <2>2
  <2>5. QED
    BY <1>3, <2>3, <2>4, Zenon DEF SoFar
<1>18. ASSUME NEW t \in Streams
       PROVE  FilterRows(pushed', LinesOf(t)) = SoFar(t)'
  <2>1. FilterRows(pushed \o new, LinesOf(t)) = FilterRows(pushed, LinesOf(t)) \o FilterRows(new, LinesOf(t))
    <3>1. pushed \in Seq(LogLine) /\ new \in Seq(LogLine)
      BY <1>10, <1>12
    <3>2. QED
      BY <3>1, FilterJoin
  <2>2. CASE t = s
    <3>1. FilterRows(pushed', LinesOf(t)) = Of(s, Complete(o)) \o new
      BY <1>10, <1>12, <1>13, <1>17, <2>1, <2>2 DEF o
    <3>2. SoFar(t)' = Of(s, Complete(o) \o texts)
      BY <1>7, <1>14, <1>17, <2>2
    <3>3. QED
      BY <1>11, <3>1, <3>2
  <2>3. CASE t # s
    <3>1. FilterRows(pushed, LinesOf(t)) \in Seq(LogLine)
      BY <1>12, FilterIs
    <3>2. FilterRows(pushed, LinesOf(t)) \o <<>> = FilterRows(pushed, LinesOf(t))
      BY <3>1, ConcatEmptySeq
    <3>3. FilterRows(pushed', LinesOf(t)) = SoFar(t)
      BY <1>10, <1>12, <1>13, <2>1, <2>3, <3>2
    <3>4. SoFar(t)' = SoFar(t)
      BY <1>14, <1>17, <2>3
    <3>5. QED
      BY <3>3, <3>4
  <2>4. QED
    BY <2>2, <2>3
<1>19. TranscriptIsOutput'
  <2>1. \A t \in Streams :
           FilterRows(pushed', {l \in Range(pushed') : l.stream = t}) = FilterRows(pushed', LinesOf(t))
    BY <1>13, StreamOf
  <2>2. QED
    BY <1>13, <1>18, <2>1, Zenon DEF TranscriptIsOutput, SoFar, Kept
<1>20. scroll' <= MaxOffset'
  BY <1>3, <1>4, <1>13, PushScroll DEF LogInv
<1>21. QED
  BY <1>3, <1>15, <1>16, <1>19, <1>20 DEF LogInv

\* What a stream holds back at its end is its last line.
HeldBack(s) == IF partial[s] = <<>> THEN <<>> ELSE <<partial[s]>>

\* Event::DockerStreamEnded adds what each stream held back to its lines.
LEMMA StreamEndedStep ==
    ASSUME DockerLogsConstants, LogInv, StreamEnded
    PROVE  LogInv'
<1> DEFINE tx(s) == HeldBack(s)
           new1 == Of("stdout", tx("stdout"))
           new2 == Of("stderr", tx("stderr"))
           new == new1 \o new2
<1>1. /\ ~ended /\ ended' = TRUE /\ tail' = FALSE /\ output' = output /\ scroll' = scroll
      /\ partial' = [s \in Streams |-> <<>>]
      /\ Push(Unterminated("stdout") \o Unterminated("stderr"))
  BY DEF StreamEnded
<1>2. /\ LogTypes /\ lines \in Seq(LogLine) /\ pushed \in Seq(LogLine) /\ Kept(lines, pushed)
      /\ \A t \in Streams : FilterRows(pushed, LinesOf(t)) = SoFar(t)
  BY TranscriptIs DEF LogInv, LogTypes
<1>3. \A t \in Streams : output[t] \in Seq(Bytes) /\ partial[t] = Rest(output[t])
  BY <1>1 DEF LogInv, LogTypes
<1>4. \A t \in Streams : partial[t] \in Texts /\ Complete(output[t]) \in Seq(Texts)
  <2>1. \A t \in Streams : Rest(output[t]) \in Seq(Bytes \ {"nl"})
    BY <1>3, RestIs
  <2>2. QED
    BY <1>3, <2>1, CompleteIs DEF Texts
<1>5. \A t \in Streams : tx(t) \in Seq(Texts)
  <2>1. \A x \in Texts : <<x>> \in Seq(Texts)
    OBVIOUS
  <2>2. <<>> \in Seq(Texts)
    OBVIOUS
  <2>3. QED
    BY <1>4, <2>1, <2>2, Zenon DEF HeldBack
<1>6. \A t \in Streams : Unterminated(t) = Of(t, tx(t))
  <2>1. ASSUME NEW t \in Streams PROVE Of(t, <<>>) = <<>>
    <3>1. <<>> \in Seq(Texts) /\ Len(<<>>) = 0
      OBVIOUS
    <3>2. Of(t, <<>>) \in Seq(LogLine) /\ Len(Of(t, <<>>)) = 0
      BY <3>1, OfIs
    <3>3. QED
      BY <3>2
  <2>2. QED
    BY <2>1, Zenon DEF Unterminated, HeldBack
<1>7. "stdout" \in Streams /\ "stderr" \in Streams /\ "stdout" # "stderr"
      /\ \A t \in Streams : t = "stdout" \/ t = "stderr"
  BY DEF Streams
<1> HIDE DEF tx
<1>8. /\ new1 \in Seq(LogLine)
      /\ \A t \in Streams : FilterRows(new1, LinesOf(t)) = IF "stdout" = t THEN new1 ELSE <<>>
  BY <1>5, <1>7, OfIs, OfStream
<1>9. /\ new2 \in Seq(LogLine)
      /\ \A t \in Streams : FilterRows(new2, LinesOf(t)) = IF "stderr" = t THEN new2 ELSE <<>>
  BY <1>5, <1>7, OfIs, OfStream
<1>10. Push(new)
  BY <1>1, <1>6, <1>7
<1> HIDE DEF new1, new2
<1>11. new \in Seq(LogLine)
  BY <1>8, <1>9
<1>12. ASSUME NEW t \in Streams
       PROVE  FilterRows(new, LinesOf(t)) = Of(t, tx(t))
  <2>1. FilterRows(new, LinesOf(t)) = FilterRows(new1, LinesOf(t)) \o FilterRows(new2, LinesOf(t))
    BY <1>8, <1>9, FilterJoin
  <2>2. new1 \o <<>> = new1 /\ <<>> \o new2 = new2
    BY <1>8, <1>9, ConcatEmptySeq
  <2>3. CASE t = "stdout"
    BY <1>7, <1>8, <1>9, <2>1, <2>2, <2>3 DEF new1
  <2>4. CASE t = "stderr"
    BY <1>7, <1>8, <1>9, <2>1, <2>2, <2>4 DEF new2
  <2>5. QED
    BY <1>7, <2>3, <2>4
<1> HIDE DEF new
<1>13. /\ pushed' = pushed \o new /\ pushed' \in Seq(LogLine)
       /\ lines' \in Seq(LogLine) /\ Len(lines') >= Len(lines) /\ Kept(lines', pushed')
  BY <1>2, <1>10, <1>11, PushKeeps
<1>14. LogTypes'
  <2>1. <<>> \in Seq(Bytes)
    OBVIOUS
  <2>2. partial' \in [Streams -> Seq(Bytes)]
    BY <1>1, <2>1
  <2>3. scroll' \in Nat /\ tail' \in BOOLEAN /\ ended' \in BOOLEAN /\ output' \in [Streams -> Seq(Bytes)]
    BY <1>1, <1>2 DEF LogTypes
  <2>4. QED
    BY <1>13, <2>2, <2>3, Zenon DEF LogTypes
<1>15. ASSUME NEW t \in Streams
       PROVE  FilterRows(pushed', LinesOf(t)) = SoFar(t)'
  <2>1. FilterRows(pushed \o new, LinesOf(t)) = FilterRows(pushed, LinesOf(t)) \o FilterRows(new, LinesOf(t))
    <3>1. pushed \in Seq(LogLine) /\ new \in Seq(LogLine)
      BY <1>2, <1>11
    <3>2. QED
      BY <3>1, FilterJoin
  <2>2. SoFar(t) = Of(t, Complete(output[t]))
    <3>1. Complete(output[t]) \o <<>> = Complete(output[t])
      BY <1>4, ConcatEmptySeq
    <3>2. QED
      BY <1>1, <3>1, Zenon DEF SoFar
  <2>3. SoFar(t)' = Of(t, Complete(output[t]) \o tx(t))
    BY <1>1, <1>3, Zenon DEF SoFar, tx, HeldBack
  <2>4. Of(t, Complete(output[t]) \o tx(t)) = Of(t, Complete(output[t])) \o Of(t, tx(t))
    BY <1>4, <1>5, OfJoin
  <2>5. QED
    BY <1>2, <1>12, <1>13, <2>1, <2>2, <2>3, <2>4
<1>16. TranscriptIsOutput'
  <2>1. \A t \in Streams :
           FilterRows(pushed', {l \in Range(pushed') : l.stream = t}) = FilterRows(pushed', LinesOf(t))
    BY <1>13, StreamOf
  <2>2. QED
    BY <1>13, <1>15, <2>1, Zenon DEF TranscriptIsOutput, SoFar, Kept
<1>17. scroll' <= MaxOffset'
  BY <1>1, <1>2, <1>13, PushScroll DEF LogInv
<1>18. QED
  BY <1>1, <1>14, <1>16, <1>17 DEF LogInv

-----------------------------------------------------------------------------
(* DockerLogs: the window.                                                 *)

LEMMA Offsets ==
    ASSUME LogInv
    PROVE  /\ MaxOffset \in Nat /\ Len(lines) \in Nat /\ scroll \in Nat /\ scroll <= MaxOffset
           /\ lines # <<>> => Len(lines) > 0 /\ MaxOffset = Len(lines) - 1
<1>1. Len(lines) \in Nat /\ (lines = <<>> <=> Len(lines) = 0) /\ scroll \in Nat
  BY DEF LogInv, LogTypes
<1>2. QED
  BY <1>1 DEF LogInv, MaxOffset

\* A key of the view moves the window and nothing else.
LEMMA LogsKeyStep ==
    ASSUME DockerLogsConstants, LogInv, LogsKey
    PROVE  LogInv'
<1>1. /\ output' = output /\ partial' = partial /\ lines' = lines /\ pushed' = pushed /\ ended' = ended
  BY DEF LogsKey, ScrollUp, ScrollDown, JumpToTail
<1>2. /\ MaxOffset \in Nat /\ scroll \in Nat /\ scroll <= MaxOffset
      /\ tail \in BOOLEAN /\ (~ended => (tail <=> scroll = 0))
  BY Offsets DEF LogInv, LogTypes
<1>3. \A n \in {1, Page} : n \in Nat \ {0}
  BY DEF DockerLogsConstants
<1>4. /\ scroll' \in Nat /\ scroll' <= MaxOffset
      /\ tail' \in BOOLEAN /\ (~ended => (tail' <=> scroll' = 0))
  <2>1. CASE ScrollUp
    <3>1. PICK n \in {1, Page} :
             scroll' = Min({scroll + n, MaxOffset}) /\ tail' = IF scroll' > 0 THEN FALSE ELSE tail
      BY <2>1 DEF ScrollUp
    <3>2. scroll' = IF scroll + n <= MaxOffset THEN scroll + n ELSE MaxOffset
      <4>1. scroll + n \in Int /\ MaxOffset \in Int
        BY <1>2, <1>3
      <4>2. QED
        BY <3>1, <4>1, OfTwo
    <3>3. /\ scroll' \in Nat /\ scroll' <= MaxOffset /\ (scroll' > 0 <=> scroll' # 0)
          /\ (scroll' = 0 => scroll = 0)
      BY <1>2, <1>3, <3>2
    <3>4. QED
      BY <1>2, <3>1, <3>3
  <2>2. CASE ScrollDown
    <3>1. PICK n \in {1, Page} :
             scroll' = Max({scroll - n, 0}) /\ tail' = IF scroll' = 0 THEN TRUE ELSE tail
      BY <2>2 DEF ScrollDown
    <3>2. scroll' = IF scroll - n >= 0 THEN scroll - n ELSE 0
      <4>1. scroll - n \in Int
        BY <1>2, <1>3
      <4>2. QED
        BY <3>1, <4>1, OfTwo
    <3>3. scroll' \in Nat /\ scroll' <= MaxOffset /\ (scroll' # 0 => scroll # 0)
      BY <1>2, <1>3, <3>2
    <3>4. QED
      BY <1>2, <3>1, <3>3
  <2>3. CASE JumpToTail
    BY <1>2, <2>3 DEF JumpToTail
  <2>4. QED
    BY <2>1, <2>2, <2>3 DEF LogsKey
<1>5. MaxOffset' = MaxOffset
  BY <1>1 DEF MaxOffset
<1>6. LogTypes'
  BY <1>1, <1>4 DEF LogInv, LogTypes
<1>7. TranscriptIsOutput'
  BY <1>1 DEF LogInv, TranscriptIsOutput
<1>8. QED
  BY <1>1, <1>4, <1>5, <1>6, <1>7 DEF LogInv

LEMMA LogStep ==
    ASSUME DockerLogsConstants, LogInv, [LogsNext]_logVars
    PROVE  LogInv'
<1>1. CASE LogsNext
  BY <1>1, ContainerLogStep, StreamEndedStep, LogsKeyStep DEF LogsNext
<1>2. CASE UNCHANGED logVars
  BY <1>2 DEF logVars, LogInv, LogTypes, TranscriptIsOutput, MaxOffset
<1>3. QED
  BY <1>1, <1>2

LEMMA WindowTold ==
    ASSUME DockerLogsConstants, LogInv
    PROVE  WindowTellsTail
<1> DEFINE total == Len(lines) + (IF ended THEN 1 ELSE 0)
           end == Max({total - scroll, 0})
           top == Max({end - Body, 0})
<1>1. SUFFICES ASSUME lines # <<>>
               PROVE  /\ Window \cap DOMAIN lines # {}
                      /\ ~ended => (tail <=> Len(lines) \in Window)
  BY DEF WindowTellsTail
<1>2. /\ Len(lines) \in Nat /\ Len(lines) > 0 /\ scroll \in Nat /\ scroll <= Len(lines) - 1
      /\ DOMAIN lines = 1 .. Len(lines) /\ (~ended => (tail <=> scroll = 0))
  BY <1>1, Offsets DEF LogInv, LogTypes
<1>3. Body \in Nat /\ Body >= 2
  BY DEF Body, DockerLogsConstants
<1>4. Window = top + 1 .. end
  BY DEF Window
<1> HIDE DEF top
<1>5. end = total - scroll /\ end \in Nat /\ end >= 1
  <2>1. total - scroll \in Int /\ 0 \in Int /\ total - scroll >= 0 /\ total - scroll >= 1
    BY <1>2
  <2> HIDE DEF total
  <2>2. Max({total - scroll, 0}) = IF total - scroll >= 0 THEN total - scroll ELSE 0
    BY <2>1, OfTwo, Zenon
  <2>3. QED
    BY <2>1, <2>2
<1> HIDE DEF end
<1>6. top \in Nat /\ top < end /\ (top + 1 < end \/ end = 1)
  <2>1. top = IF end - Body >= 0 THEN end - Body ELSE 0
    <3>1. end - Body \in Int /\ 0 \in Int
      BY <1>3, <1>5
    <3>2. Max({end - Body, 0}) = IF end - Body >= 0 THEN end - Body ELSE 0
      BY <3>1, OfTwo, Zenon
    <3>3. QED
      BY <3>2, Zenon DEF top
  <2>2. QED
    BY <1>3, <1>5, <2>1
<1>7. CASE ended
  <2>1. end = Len(lines) + 1 - scroll
    BY <1>2, <1>5, <1>7
  <2>2. end - 1 \in Window /\ end - 1 \in DOMAIN lines
    BY <1>2, <1>4, <1>5, <1>6, <2>1
  <2>3. QED
    BY <1>7, <2>2
<1>8. CASE ~ended
  <2>1. end = Len(lines) - scroll
    BY <1>2, <1>5, <1>8
  <2>2. end \in Window /\ end \in DOMAIN lines
    BY <1>2, <1>4, <1>5, <1>6, <2>1
  <2>3. Len(lines) \in Window <=> scroll = 0
    BY <1>2, <1>4, <1>5, <1>6, <2>1
  <2>4. QED
    BY <1>2, <1>8, <2>2, <2>3
<1>9. QED
  BY <1>7, <1>8

\* The transcript is the container's output wherever its chunks were cut, the cap takes
\* the oldest lines only, and the window stays on the lines and tells whether it follows
\* them (LogsView: ingest, end_stream, push_line, the scroll keys, render_transcript).
THEOREM TranscriptKept == LogsSpec => []LogsViewKept
<1>1. LogsInit => LogInv
  BY LogInit, DockerLogsConstants
<1>2. LogInv /\ [LogsNext]_logVars => LogInv'
  BY LogStep, DockerLogsConstants
<1>3. LogInv => LogsViewKept
  BY WindowTold, DockerLogsConstants DEF LogInv, LogTypes, LogsViewKept
<1>4. QED
  BY <1>1, <1>2, <1>3, PTL DEF LogsSpec
=============================================================================
