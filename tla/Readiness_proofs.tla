--------------------------- MODULE Readiness_proofs ---------------------------
(***************************************************************************)
(* What the lists of reads contain, and what the readiness walk computes,  *)
(* for any catalogs.                                                       *)
(***************************************************************************)
EXTENDS Readiness, TLAPS, FiniteSetTheorems, SequenceTheorems

-------------------------------------------------------------------------------
(* Lists.                                                                  *)

Below(places, p) == {q \in places : Before(q, p)}

(* The k-th of the places.                                                 *)
Ordered(places) ==
  [k \in 1..Cardinality(places) |->
     CHOOSE p \in places : Cardinality(Below(places, p)) = k - 1]

LEMMA BeforeIsOrder ==
  ASSUME NEW p \in Nat \X Nat, NEW q \in Nat \X Nat, NEW r \in Nat \X Nat
  PROVE  /\ ~Before(p, p)
         /\ Before(p, q) /\ Before(q, r) => Before(p, r)
         /\ p = q \/ Before(p, q) \/ Before(q, p)
         /\ ~(Before(p, q) /\ Before(q, p))
  <1>1. /\ p[1] \in Nat /\ p[2] \in Nat /\ q[1] \in Nat /\ q[2] \in Nat
        /\ r[1] \in Nat /\ r[2] \in Nat
        /\ p[1] = q[1] /\ p[2] = q[2] => p = q
    OBVIOUS
  <1>2. QED
    BY <1>1 DEF Before

(* The members of a finite set by their rank in an order of it.            *)
Lesser(order, members, p) == {q \in members : <<q, p>> \in order}

Ranked(order, members) ==
  [k \in 1..Cardinality(members) |->
     CHOOSE p \in members : Cardinality(Lesser(order, members, p)) = k - 1]

(* In a finite set with a strict order of its members, every rank is taken *)
(* once.                                                                   *)
LEMMA Ranking ==
  ASSUME NEW members, IsFiniteSet(members), NEW order,
         \A p, q, r \in members :
           /\ <<p, p>> \notin order
           /\ <<p, q>> \in order /\ <<q, r>> \in order => <<p, r>> \in order
           /\ p = q \/ <<p, q>> \in order \/ <<q, p>> \in order
           /\ ~(<<p, q>> \in order /\ <<q, p>> \in order)
  PROVE  LET n == Cardinality(members)
         IN /\ n \in Nat
            /\ Ranked(order, members) \in Bijection(1..n, members)
            /\ \A i, k \in 1..n :
                 i < k => <<Ranked(order, members)[i], Ranked(order, members)[k]>> \in order
  <1> DEFINE n == Cardinality(members)
             count == [p \in members |-> Cardinality(Lesser(order, members, p)) + 1]
  <1>1. n \in Nat
    BY FS_CardinalityType
  <1>2. ASSUME NEW p \in members
        PROVE  /\ IsFiniteSet(Lesser(order, members, p))
               /\ Cardinality(Lesser(order, members, p)) \in Nat
               /\ count[p] \in 1..n
    <2>1. Lesser(order, members, p) \in SUBSET members /\ p \notin Lesser(order, members, p)
      BY DEF Lesser
    <2>2. /\ IsFiniteSet(Lesser(order, members, p))
          /\ Cardinality(Lesser(order, members, p)) <= n
          /\ Cardinality(Lesser(order, members, p)) # n
      BY <2>1, FS_Subset
    <2>3. Cardinality(Lesser(order, members, p)) \in Nat
      BY <2>2, FS_CardinalityType
    <2> DEFINE below == Cardinality(Lesser(order, members, p))
    <2> HIDE DEF n, below
    <2>4. below + 1 \in 1..n
      <3>1. below \in Nat /\ below <= n /\ below # n
        BY <2>2, <2>3 DEF below
      <3>2. QED
        BY <1>1, <3>1
    <2>5. QED
      BY <2>2, <2>3, <2>4 DEF below
  <1>3. ASSUME NEW p \in members, NEW q \in members, <<p, q>> \in order
        PROVE  Cardinality(Lesser(order, members, p)) < Cardinality(Lesser(order, members, q))
    <2>1. /\ Lesser(order, members, p) \in SUBSET Lesser(order, members, q)
          /\ p \in Lesser(order, members, q) /\ p \notin Lesser(order, members, p)
      BY <1>3 DEF Lesser
    <2>2. /\ Cardinality(Lesser(order, members, p)) <= Cardinality(Lesser(order, members, q))
          /\ Cardinality(Lesser(order, members, p)) # Cardinality(Lesser(order, members, q))
      BY <1>2, <2>1, FS_Subset
    <2>3. QED
      BY <1>2, <2>2
  <1>4. ASSUME NEW p \in members, NEW q \in members, p # q
        PROVE  count[p] # count[q]
    <2>1. <<p, q>> \in order \/ <<q, p>> \in order
      BY <1>4
    <2>2. Cardinality(Lesser(order, members, p)) # Cardinality(Lesser(order, members, q))
      BY <1>2, <1>3, <2>1
    <2>3. QED
      BY <1>2, <2>2
  <1>5. count \in Injection(members, 1..n)
    BY <1>2, <1>4 DEF Injection, IsInjective
  <1>6. IsFiniteSet(1..n) /\ Cardinality(1..n) = n
    BY <1>1, FS_Interval
  <1>7. count \in Surjection(members, 1..n)
    BY <1>5, <1>6, FS_Injection
  <1>8. ASSUME NEW k \in 1..n
        PROVE  /\ Ranked(order, members)[k] \in members
               /\ Cardinality(Lesser(order, members, Ranked(order, members)[k])) = k - 1
    <2>1. PICK p \in members : count[p] = k
      BY <1>7 DEF Surjection
    <2>2. Cardinality(Lesser(order, members, p)) = k - 1
      BY <1>2, <2>1
    <2>3. QED
      BY <2>2 DEF Ranked
  <1> HIDE DEF n
  <1>9. DOMAIN Ranked(order, members) = 1..n
    BY DEF Ranked, n
  <1>10. \A i, k \in 1..n :
           i < k => <<Ranked(order, members)[i], Ranked(order, members)[k]>> \in order
    <2> TAKE i, k \in 1..n
    <2> HAVE i < k
    <2> DEFINE p == Ranked(order, members)[i]
               q == Ranked(order, members)[k]
    <2>1. p \in members /\ q \in members
      BY <1>8
    <2>2. <<q, p>> \notin order /\ p # q
      <3>1. Cardinality(Lesser(order, members, p)) < Cardinality(Lesser(order, members, q))
        BY <1>1, <1>8
      <3> HIDE DEF p, q
      <3>2. QED
        BY <1>2, <1>3, <2>1, <3>1
    <2>3. QED
      BY <2>1, <2>2
  <1>11. Ranked(order, members) \in [1..n -> members]
    <2>1. \A k \in 1..n : Ranked(order, members)[k] \in members
      BY <1>8
    <2>2. QED
      BY <1>9, <2>1 DEF Ranked, n
  <1>12. \A i, k \in 1..n : Ranked(order, members)[i] = Ranked(order, members)[k] => i = k
    <2>1. \A i \in 1..n : i = Cardinality(Lesser(order, members, Ranked(order, members)[i])) + 1
      BY <1>1, <1>8
    <2>2. QED
      BY <2>1
  <1>13. \A p \in members : \E k \in 1..n : Ranked(order, members)[k] = p
    <2> TAKE p \in members
    <2>1. PICK k \in 1..n : k = count[p]
      BY <1>2 DEF n
    <2>2. Cardinality(Lesser(order, members, Ranked(order, members)[k])) = Cardinality(Lesser(order, members, p))
      BY <1>1, <1>2, <1>8, <2>1
    <2>3. Ranked(order, members)[k] = p
      BY <1>4, <1>8, <2>2
    <2>4. QED
      BY <2>3
  <1>14. Ranked(order, members) \in Bijection(1..n, members)
    BY <1>11, <1>12, <1>13 DEF Bijection, Injection, Surjection, IsInjective
  <1>15. QED
    BY <1>1, <1>10, <1>14 DEF n

(* Every finite set of places has its order.                               *)
LEMMA OrderedPlaces ==
  ASSUME NEW places \in SUBSET (Nat \X Nat), IsFiniteSet(places)
  PROVE  LET n == Cardinality(places)
         IN /\ n \in Nat
            /\ Ordered(places) \in Bijection(1..n, places)
            /\ \A i, k \in 1..n :
                 i < k => Before(Ordered(places)[i], Ordered(places)[k])
  <1> DEFINE order == {pair \in places \X places : Before(pair[1], pair[2])}
  <1>1. \A p, q \in places : <<p, q>> \in order <=> Before(p, q)
    OBVIOUS
  <1>2. \A p \in places : Lesser(order, places, p) = Below(places, p)
    BY <1>1 DEF Lesser, Below
  <1>3. Ranked(order, places) = Ordered(places)
    <2> HIDE DEF order
    <2>1. \A k \in 1..Cardinality(places) :
            (CHOOSE p \in places : Cardinality(Lesser(order, places, p)) = k - 1) =
            (CHOOSE p \in places : Cardinality(Below(places, p)) = k - 1)
      BY <1>2
    <2>2. QED
      BY <2>1 DEF Ranked, Ordered
  <1> HIDE DEF order
  <1>4. \A p, q, r \in places :
           /\ <<p, p>> \notin order
           /\ <<p, q>> \in order /\ <<q, r>> \in order => <<p, r>> \in order
           /\ p = q \/ <<p, q>> \in order \/ <<q, p>> \in order
           /\ ~(<<p, q>> \in order /\ <<q, p>> \in order)
    BY <1>1, BeforeIsOrder
  <1> DEFINE n == Cardinality(places)
  <1>5. /\ n \in Nat
        /\ Ordered(places) \in Bijection(1..n, places)
        /\ \A i, k \in 1..n : i < k => <<Ordered(places)[i], Ordered(places)[k]>> \in order
    BY <1>3, <1>4, Ranking
  <1>6. \A k \in 1..n : Ordered(places)[k] \in places
    BY <1>5 DEF Bijection, Injection
  <1>7. QED
    BY <1>1, <1>5, <1>6

LEMMA PlacesFinite ==
  ASSUME NEW S, NEW seqs \in Seq(Seq(S))
  PROVE  /\ IsFiniteSet(Places(seqs))
         /\ Places(seqs) \in SUBSET (Nat \X Nat)
         /\ \A p \in Places(seqs) : At(seqs, p) \in S
  <1> DEFINE row == [i \in 1..Len(seqs) |-> {<<i, j>> : j \in DOMAIN seqs[i]}]
             all == {row[i] : i \in 1..Len(seqs)}
  <1>1. /\ DOMAIN seqs = 1..Len(seqs) /\ Len(seqs) \in Nat
        /\ \A i \in 1..Len(seqs) :
             seqs[i] \in Seq(S) /\ DOMAIN seqs[i] = 1..Len(seqs[i])
             /\ Len(seqs[i]) \in Nat
    BY LenProperties, ElementOfSeq
  <1>2. Places(seqs) = UNION all
    BY <1>1 DEF Places
  <1>3. ASSUME NEW i \in 1..Len(seqs)
        PROVE  IsFiniteSet(row[i])
    <2> DEFINE m == Len(seqs[i])
               f == [j \in 1..m |-> <<i, j>>]
    <2>1. m \in Nat /\ row[i] = {<<i, j>> : j \in 1..m}
      BY <1>1
    <2>2. IsFiniteSet(1..m)
      BY <2>1, FS_Interval
    <2>3. f \in Surjection(1..m, row[i])
      BY <2>1 DEF Surjection
    <2> HIDE DEF f, row, m
    <2>4. QED
      BY <2>2, <2>3, FS_Surjection
  <1>4. IsFiniteSet(all)
    <2>1. row \in Surjection(1..Len(seqs), all)
      BY DEF Surjection
    <2>2. IsFiniteSet(1..Len(seqs))
      BY <1>1, FS_Interval
    <2> HIDE DEF all, row
    <2>3. QED
      BY <2>1, <2>2, FS_Surjection
  <1>5. IsFiniteSet(UNION all)
    <2>1. \A T \in all : IsFiniteSet(T)
      BY <1>3
    <2> HIDE DEF all
    <2>2. QED
      BY <1>4, <2>1, FS_UNION
  <1>6. ASSUME NEW p \in Places(seqs)
        PROVE  p \in Nat \X Nat /\ At(seqs, p) \in S
    <2>1. PICK i \in 1..Len(seqs) : \E j \in DOMAIN seqs[i] : p = <<i, j>>
      BY <1>1 DEF Places
    <2>2. PICK j \in 1..Len(seqs[i]) : p = <<i, j>>
      BY <1>1, <2>1
    <2>3. seqs[i][j] \in S
      BY <1>1, <2>2, ElementOfSeq
    <2>4. i \in Nat /\ j \in Nat
      BY <1>1, <2>2
    <2>5. QED
      BY <2>2, <2>3, <2>4 DEF At
  <1>7. QED
    BY <1>2, <1>5, <1>6

(* A list of lists in the order of some of its places has what is there.   *)
LEMMA InOrderList ==
  ASSUME NEW S, NEW seqs \in Seq(Seq(S)), NEW places \in SUBSET Places(seqs)
  PROVE  /\ IsFiniteSet(places) /\ Cardinality(places) \in Nat
         /\ InOrder(seqs, places) \in Seq(S)
         /\ Len(InOrder(seqs, places)) = Cardinality(places)
         /\ \A k \in 1..Cardinality(places) :
              /\ Ordered(places)[k] \in places
              /\ InOrder(seqs, places)[k] = At(seqs, Ordered(places)[k])
         /\ Elements(InOrder(seqs, places)) = {At(seqs, p) : p \in places}
  <1> DEFINE n == Cardinality(places)
             list == InOrder(seqs, places)
  <1>1. IsFiniteSet(places) /\ places \in SUBSET (Nat \X Nat)
    BY PlacesFinite, FS_Subset
  <1>2. n \in Nat /\ Ordered(places) \in Bijection(1..n, places)
    BY <1>1, OrderedPlaces
  <1>3. /\ \A k \in 1..n : Ordered(places)[k] \in places
        /\ \A p \in places : \E k \in 1..n : Ordered(places)[k] = p
    BY <1>2 DEF Bijection, Injection, Surjection
  <1>4. list = [k \in 1..n |-> At(seqs, Ordered(places)[k])]
    BY DEF InOrder, Ordered, Below
  <1>5. \A p \in places : At(seqs, p) \in S
    BY PlacesFinite
  <1> HIDE DEF n, list
  <1>6. list \in [1..n -> S]
    BY <1>3, <1>4, <1>5
  <1>7. list \in Seq(S) /\ Len(list) = n /\ DOMAIN list = 1..n
    BY <1>2, <1>6
  <1>8. Elements(list) = {At(seqs, p) : p \in places}
    BY <1>3, <1>4, <1>7 DEF Elements
  <1>9. QED
    BY <1>1, <1>2, <1>3, <1>4, <1>7, <1>8 DEF n, list

(* What occurs in a list of lists.                                         *)
Occurring(seqs) == UNION {Elements(seqs[i]) : i \in DOMAIN seqs}

LEMMA OccurringPlaces ==
  ASSUME NEW seqs
  PROVE  {At(seqs, p) : p \in Places(seqs)} = Occurring(seqs)
  <1>1. ASSUME NEW i \in DOMAIN seqs, NEW j \in DOMAIN seqs[i]
        PROVE  <<i, j>> \in Places(seqs) /\ At(seqs, <<i, j>>) = seqs[i][j]
    BY DEF Places, At
  <1>2. ASSUME NEW p \in Places(seqs)
        PROVE  \E i \in DOMAIN seqs : \E j \in DOMAIN seqs[i] : p = <<i, j>>
    BY DEF Places
  <1>3. ASSUME NEW x \in Occurring(seqs)
        PROVE  x \in {At(seqs, p) : p \in Places(seqs)}
    <2>1. PICK i \in DOMAIN seqs : x \in Elements(seqs[i])
      BY DEF Occurring
    <2>2. PICK j \in DOMAIN seqs[i] : x = seqs[i][j]
      BY <2>1 DEF Elements
    <2>3. QED
      BY <1>1, <2>2
  <1>4. ASSUME NEW p \in Places(seqs)
        PROVE  At(seqs, p) \in Occurring(seqs)
    <2>1. PICK i \in DOMAIN seqs : \E j \in DOMAIN seqs[i] : p = <<i, j>>
      BY <1>2
    <2>2. PICK j \in DOMAIN seqs[i] : p = <<i, j>>
      BY <2>1
    <2>3. At(seqs, p) = seqs[i][j] /\ seqs[i][j] \in Elements(seqs[i])
      BY <1>1, <2>2 DEF Elements
    <2>4. QED
      BY <2>3 DEF Occurring
  <1>5. QED
    BY <1>3, <1>4

LEMMA JoinedList ==
  ASSUME NEW S, NEW seqs \in Seq(Seq(S))
  PROVE  /\ Joined(seqs) \in Seq(S)
         /\ Elements(Joined(seqs)) = Occurring(seqs)
  <1>1. QED
    BY OccurringPlaces, InOrderList DEF Joined

LEMMA UniqueList ==
  ASSUME NEW S, NEW seqs \in Seq(Seq(S))
  PROVE  /\ Unique(seqs) \in Seq(S)
         /\ Elements(Unique(seqs)) = Occurring(seqs)
         /\ IsInjective(Unique(seqs))
         /\ (seqs # <<>> /\ seqs[1] # <<>>) =>
              Unique(seqs) # <<>> /\ Unique(seqs)[1] = seqs[1][1]
  <1> DEFINE first == {p \in Places(seqs) : \A q \in Places(seqs) :
                         Before(q, p) => At(seqs, q) # At(seqs, p)}
             n == Cardinality(first)
  <1>1. /\ first \in SUBSET Places(seqs)
        /\ Places(seqs) \in SUBSET (Nat \X Nat) /\ IsFiniteSet(Places(seqs))
        /\ Unique(seqs) = InOrder(seqs, first)
    BY PlacesFinite DEF Unique
  <1>2. {At(seqs, p) : p \in Places(seqs)} = Occurring(seqs)
    BY OccurringPlaces
  <1>3. ASSUME NEW p \in Places(seqs)
        PROVE  \E q \in first : At(seqs, q) = At(seqs, p)
    <2> DEFINE same == {q \in Places(seqs) : At(seqs, q) = At(seqs, p)}
               m == Cardinality(same)
    <2>1. same \in SUBSET (Nat \X Nat) /\ IsFiniteSet(same) /\ p \in same
      BY <1>1, FS_Subset
    <2>2. /\ m \in Nat /\ Ordered(same) \in Bijection(1..m, same)
          /\ \A i, k \in 1..m : i < k => Before(Ordered(same)[i], Ordered(same)[k])
      BY <2>1, OrderedPlaces
    <2>3. /\ \A k \in 1..m : Ordered(same)[k] \in same
          /\ \A q \in same : \E k \in 1..m : Ordered(same)[k] = q
      BY <2>2 DEF Bijection, Injection, Surjection
    <2>4. 1 \in 1..m
      BY <2>1, <2>2, <2>3
    <2> DEFINE q == Ordered(same)[1]
    <2>5. q \in same /\ \A r \in same : ~Before(r, q)
      <3>1. q \in same
        BY <2>3, <2>4
      <3>2. ASSUME NEW r \in same PROVE ~Before(r, q)
        <4>1. PICK k \in 1..m : Ordered(same)[k] = r
          BY <2>3
        <4>2. k = 1 \/ 1 < k
          BY <2>2
        <4>3. r = q \/ Before(q, r)
          BY <2>2, <2>4, <4>1, <4>2
        <4>4. q \in Nat \X Nat /\ r \in Nat \X Nat
          BY <2>1, <3>1
        <4> HIDE DEF q
        <4>5. QED
          BY <4>3, <4>4, BeforeIsOrder
      <3>3. QED
        BY <3>1, <3>2
    <2>6. q \in first /\ At(seqs, q) = At(seqs, p)
      BY <2>5
    <2>7. QED
      BY <2>6
  <1>4. {At(seqs, p) : p \in first} = Occurring(seqs)
    BY <1>2, <1>3
  <1>5. ASSUME NEW p \in first, NEW q \in first, At(seqs, p) = At(seqs, q)
        PROVE  p = q
    <2>1. ~Before(p, q) /\ ~Before(q, p)
      BY <1>5
    <2>2. p \in Nat \X Nat /\ q \in Nat \X Nat
      BY <1>1
    <2>3. QED
      BY <2>1, <2>2, BeforeIsOrder
  <1>6. (seqs # <<>> /\ seqs[1] # <<>>) => <<1, 1>> \in first
    <2> HAVE seqs # <<>> /\ seqs[1] # <<>>
    <2>1. 1 \in DOMAIN seqs /\ 1 \in DOMAIN seqs[1]
      BY ElementOfSeq
    <2>2. <<1, 1>> \in Places(seqs)
      BY <2>1 DEF Places
    <2>3. ASSUME NEW q \in Places(seqs) PROVE ~Before(q, <<1, 1>>)
      <3>1. PICK i \in DOMAIN seqs : \E j \in DOMAIN seqs[i] : q = <<i, j>>
        BY DEF Places
      <3>2. PICK j \in DOMAIN seqs[i] : q = <<i, j>>
        BY <3>1
      <3>3. i \in Nat /\ i >= 1 /\ j \in Nat /\ j >= 1
        <4>1. seqs[i] \in Seq(S)
          BY ElementOfSeq
        <4>2. DOMAIN seqs = 1..Len(seqs) /\ DOMAIN seqs[i] = 1..Len(seqs[i])
          BY <4>1, LenProperties
        <4>3. QED
          BY <4>2
      <3>4. QED
        BY <3>2, <3>3 DEF Before
    <2>4. QED
      BY <2>2, <2>3
  <1> HIDE DEF first
  <1>7. /\ IsFiniteSet(first) /\ n \in Nat
        /\ Unique(seqs) \in Seq(S) /\ Len(Unique(seqs)) = n
        /\ \A k \in 1..n : /\ Ordered(first)[k] \in first
                           /\ Unique(seqs)[k] = At(seqs, Ordered(first)[k])
        /\ Elements(Unique(seqs)) = {At(seqs, p) : p \in first}
    BY <1>1, InOrderList
  <1>8. first \in SUBSET (Nat \X Nat)
    BY <1>1
  <1>9. /\ Ordered(first) \in Bijection(1..n, first)
        /\ \A i, k \in 1..n : i < k => Before(Ordered(first)[i], Ordered(first)[k])
    BY <1>7, <1>8, OrderedPlaces
  <1>10. IsInjective(Unique(seqs))
    <2>1. DOMAIN Unique(seqs) = 1..n
      BY <1>7, LenProperties
    <2>2. ASSUME NEW i \in 1..n, NEW k \in 1..n, Unique(seqs)[i] = Unique(seqs)[k]
          PROVE  i = k
      <3>1. Ordered(first)[i] = Ordered(first)[k]
        BY <1>5, <1>7, <2>2
      <3>2. QED
        BY <1>9, <3>1 DEF Bijection, Injection, IsInjective
    <2>3. QED
      BY <2>1, <2>2 DEF IsInjective
  <1>11. (seqs # <<>> /\ seqs[1] # <<>>) =>
           Unique(seqs) # <<>> /\ Unique(seqs)[1] = seqs[1][1]
    <2> HAVE seqs # <<>> /\ seqs[1] # <<>>
    <2>1. PICK k \in 1..n : Ordered(first)[k] = <<1, 1>>
      BY <1>6, <1>9 DEF Bijection, Surjection
    <2>2. 1 \in 1..n /\ (k = 1 \/ 1 < k)
      BY <1>7
    <2>3. ~Before(Ordered(first)[1], <<1, 1>>)
      <3>1. PICK i \in DOMAIN seqs : \E j \in DOMAIN seqs[i] :
                     Ordered(first)[1] = <<i, j>>
        BY <1>1, <1>7, <2>2 DEF Places
      <3>2. PICK j \in DOMAIN seqs[i] : Ordered(first)[1] = <<i, j>>
        BY <3>1
      <3>3. i \in Nat /\ i >= 1 /\ j \in Nat /\ j >= 1
        <4>1. seqs[i] \in Seq(S)
          BY ElementOfSeq
        <4>2. DOMAIN seqs = 1..Len(seqs) /\ DOMAIN seqs[i] = 1..Len(seqs[i])
          BY <4>1, LenProperties
        <4>3. QED
          BY <4>2
      <3>4. QED
        BY <3>2, <3>3 DEF Before
    <2>4. Ordered(first)[1] = <<1, 1>>
      BY <1>9, <2>1, <2>2, <2>3
    <2>5. Unique(seqs)[1] = seqs[1][1]
      BY <1>7, <2>2, <2>4 DEF At
    <2>6. Unique(seqs) # <<>>
      BY <1>7, <2>2
    <2>7. QED
      BY <2>5, <2>6
  <1>12. QED
    BY <1>4, <1>7, <1>10, <1>11

LEMMA ListElements ==
  ASSUME NEW S, NEW s \in Seq(S), NEW t \in Seq(S)
  PROVE  /\ s \o t \in Seq(S)
         /\ Elements(s \o t) = Elements(s) \union Elements(t)
         /\ Elements(s) \subseteq S
         /\ Elements(s) = {} <=> s = <<>>
         /\ s # <<>> => /\ Head(s) \in S /\ Tail(s) \in Seq(S)
                       /\ Elements(s) = {Head(s)} \union Elements(Tail(s))
  <1>1. /\ Len(s) \in Nat /\ DOMAIN s = 1..Len(s) /\ \A i \in 1..Len(s) : s[i] \in S
        /\ Len(t) \in Nat /\ DOMAIN t = 1..Len(t)
    BY ElementOfSeq, LenProperties
  <1>2. /\ s \o t \in Seq(S) /\ Len(s \o t) = Len(s) + Len(t)
        /\ \A i \in 1..Len(s \o t) :
             (s \o t)[i] = IF i <= Len(s) THEN s[i] ELSE t[i - Len(s)]
    BY ConcatProperties
  <1>3. Elements(s \o t) = Elements(s) \union Elements(t)
    <2>1. DOMAIN (s \o t) = 1..(Len(s) + Len(t))
      BY <1>2, LenProperties
    <2>2. ASSUME NEW i \in 1..Len(s)
          PROVE  i \in DOMAIN (s \o t) /\ (s \o t)[i] = s[i]
      BY <1>1, <1>2, <2>1
    <2>3. ASSUME NEW j \in 1..Len(t)
          PROVE  /\ Len(s) + j \in DOMAIN (s \o t)
                 /\ (s \o t)[Len(s) + j] = t[j]
      BY <1>1, <1>2, <2>1
    <2>4. ASSUME NEW i \in DOMAIN (s \o t)
          PROVE  \/ i \in 1..Len(s) /\ (s \o t)[i] = s[i]
                 \/ i - Len(s) \in 1..Len(t) /\ (s \o t)[i] = t[i - Len(s)]
      BY <1>1, <1>2, <2>1
    <2>5. ASSUME NEW x \in Elements(s \o t) PROVE x \in Elements(s) \union Elements(t)
      <3>1. PICK i \in DOMAIN (s \o t) : x = (s \o t)[i]
        BY DEF Elements
      <3>2. QED
        BY <1>1, <2>4, <3>1 DEF Elements
    <2>6. ASSUME NEW x \in Elements(s) PROVE x \in Elements(s \o t)
      <3>1. PICK i \in DOMAIN s : x = s[i]
        BY DEF Elements
      <3>2. QED
        BY <1>1, <2>2, <3>1 DEF Elements
    <2>7. ASSUME NEW x \in Elements(t) PROVE x \in Elements(s \o t)
      <3>1. PICK j \in DOMAIN t : x = t[j]
        BY DEF Elements
      <3>2. QED
        BY <1>1, <2>3, <3>1 DEF Elements
    <2>8. QED
      BY <2>5, <2>6, <2>7
  <1>4. Elements(s) \subseteq S
    BY <1>1 DEF Elements
  <1>5. Elements(s) = {} <=> s = <<>>
    <2>1. s = <<>> => Elements(s) = {}
      BY DEF Elements
    <2>2. s # <<>> => 1 \in DOMAIN s
      BY <1>1
    <2>3. QED
      BY <2>1, <2>2 DEF Elements
  <1>6. ASSUME s # <<>>
        PROVE  /\ Head(s) \in S /\ Tail(s) \in Seq(S)
               /\ Elements(s) = {Head(s)} \union Elements(Tail(s))
    <2>1. /\ Head(s) = s[1] /\ 1 \in DOMAIN s
          /\ Tail(s) \in Seq(S) /\ DOMAIN Tail(s) = 1..(Len(s) - 1)
          /\ \A i \in 1..(Len(s) - 1) : Tail(s)[i] = s[i + 1]
      BY <1>1, <1>6, HeadTailProperties, LenProperties
    <2>2. ASSUME NEW x \in Elements(s)
          PROVE  x \in {Head(s)} \union Elements(Tail(s))
      <3>1. PICK i \in 1..Len(s) : x = s[i]
        BY <1>1 DEF Elements
      <3>2. i = 1 \/ (i - 1 \in 1..(Len(s) - 1) /\ (i - 1) + 1 = i)
        BY <1>1
      <3>3. i # 1 => s[i] = Tail(s)[i - 1] /\ i - 1 \in DOMAIN Tail(s)
        BY <2>1, <3>2
      <3>4. QED
        BY <2>1, <3>1, <3>3 DEF Elements
    <2>3. ASSUME NEW x \in Elements(Tail(s)) PROVE x \in Elements(s)
      <3>1. PICK i \in 1..(Len(s) - 1) : x = Tail(s)[i]
        BY <2>1 DEF Elements
      <3>2. i + 1 \in DOMAIN s /\ x = s[i + 1]
        BY <1>1, <2>1, <3>1
      <3>3. QED
        BY <3>2 DEF Elements
    <2>4. Head(s) \in S /\ Head(s) \in Elements(s)
      BY <1>1, <2>1 DEF Elements
    <2>5. QED
      BY <2>1, <2>2, <2>3, <2>4
  <1>7. QED
    BY <1>2, <1>3, <1>4, <1>5, <1>6

-------------------------------------------------------------------------------
(* The rows of a catalog, and what a definition refers to.                 *)

LEMMA FoundRow ==
  ASSUME NEW cat, CatalogOK(cat)
  PROVE  /\ \A q \in QueryIds : \A row \in Found(cat, "query", q) :
              /\ row = cat.query[q]
              /\ row \in [tenant : Tenants, active : BOOLEAN, dataset : DatasetIds]
         /\ \A d \in DatasetIds : \A row \in Found(cat, "dataset", d) :
              /\ row = cat.dataset[d]
              /\ row \in [tenant : Tenants, active : BOOLEAN, key : Keys,
                          connection : OptionalConnection]
         /\ \A m \in MappingIds : \A row \in Found(cat, "mapping", m) :
              /\ row = cat.mapping[m]
              /\ row \in [tenant : Tenants, active : BOOLEAN, key : Keys,
                          connection : OptionalConnection]
         /\ \A c \in ConnectionIds : \A row \in Found(cat, "connection", c) :
              /\ row = cat.connection[c]
              /\ row \in [tenant : Tenants, protected : BOOLEAN]
         /\ \A b \in DashboardIds : \A row \in Found(cat, "dashboard", b) :
              /\ row = cat.dashboard[b]
              /\ row \in [tenant : Tenants, widgets : Widgets]
         /\ \A r \in ReportIds : \A row \in Found(cat, "report", r) :
              /\ row = cat.report[r]
              /\ row \in [tenant : Tenants, query : OptionalQuery,
                          dashboard : OptionalDashboard, blocks : Blocks]
  <1>1. ASSUME NEW table \in Tables, NEW id \in Ids[table],
               NEW row \in Found(cat, table, id)
        PROVE  row = cat[table][id] /\ row \in Rows[table]
    <2>1. cat[table][id] \in Rows[table] \union {None}
      BY DEF CatalogOK
    <2>2. QED
      BY <2>1 DEF Found
  <1>2. Tables = {"query", "dataset", "mapping", "connection", "dashboard", "report"}
    BY DEF Tables, Rows
  <1>3. /\ Ids["query"] = QueryIds /\ Ids["dataset"] = DatasetIds
        /\ Ids["mapping"] = MappingIds /\ Ids["connection"] = ConnectionIds
        /\ Ids["dashboard"] = DashboardIds /\ Ids["report"] = ReportIds
    BY DEF Ids
  <1>4. /\ Rows["query"] = [tenant : Tenants, active : BOOLEAN, dataset : DatasetIds]
        /\ Rows["dataset"] = [tenant : Tenants, active : BOOLEAN, key : Keys,
                              connection : OptionalConnection]
        /\ Rows["mapping"] = [tenant : Tenants, active : BOOLEAN, key : Keys,
                              connection : OptionalConnection]
        /\ Rows["connection"] = [tenant : Tenants, protected : BOOLEAN]
        /\ Rows["dashboard"] = [tenant : Tenants, widgets : Widgets]
        /\ Rows["report"] = [tenant : Tenants, query : OptionalQuery,
                             dashboard : OptionalDashboard, blocks : Blocks]
    BY DEF Rows
  <1>5. \A q \in QueryIds : \A row \in Found(cat, "query", q) :
           row = cat.query[q] /\ row \in Rows["query"]
    BY <1>1, <1>2, <1>3
  <1>6. \A d \in DatasetIds : \A row \in Found(cat, "dataset", d) :
           row = cat.dataset[d] /\ row \in Rows["dataset"]
    BY <1>1, <1>2, <1>3
  <1>7. \A m \in MappingIds : \A row \in Found(cat, "mapping", m) :
           row = cat.mapping[m] /\ row \in Rows["mapping"]
    BY <1>1, <1>2, <1>3
  <1>8. \A c \in ConnectionIds : \A row \in Found(cat, "connection", c) :
           row = cat.connection[c] /\ row \in Rows["connection"]
    BY <1>1, <1>2, <1>3
  <1>9. \A b \in DashboardIds : \A row \in Found(cat, "dashboard", b) :
           row = cat.dashboard[b] /\ row \in Rows["dashboard"]
    BY <1>1, <1>2, <1>3
  <1>10. \A r \in ReportIds : \A row \in Found(cat, "report", r) :
           row = cat.report[r] /\ row \in Rows["report"]
    BY <1>1, <1>2, <1>3
  <1>11. QED
    BY <1>4, <1>5, <1>6, <1>7, <1>8, <1>9, <1>10

LEMMA NoneIsNoId ==
  /\ None \notin QueryIds /\ None \notin DatasetIds /\ None \notin MappingIds
  /\ None \notin ConnectionIds /\ None \notin DashboardIds /\ None \notin ReportIds
  BY AbsenceAssumption DEF Tables, Rows, Ids

QueryReads == {Read("query", q) : q \in QueryIds}
DashboardReads == {Read("dashboard", b) : b \in DashboardIds}

LEMMA ReferenceList ==
  ASSUME NEW S, NEW table, NEW id, id # None => Read(table, id) \in S
  PROVE  /\ Reference(table, id) \in Seq(S)
         /\ Elements(Reference(table, id)) = {Read(table, x) : x \in {id} \ {None}}
  <1>1. CASE id = None
    <2>1. Reference(table, id) = <<>>
      BY <1>1 DEF Reference
    <2>2. QED
      BY <1>1, <2>1 DEF Elements
  <1>2. CASE id # None
    <2>1. /\ Reference(table, id) = <<Read(table, id)>>
          /\ {Read(table, x) : x \in {id} \ {None}} = {Read(table, id)}
      BY <1>2 DEF Reference
    <2>2. Elements(<<Read(table, id)>>) = {Read(table, id)}
      BY DEF Elements
    <2>3. QED
      BY <1>2, <2>1, <2>2
  <1>3. QED
    BY <1>1, <1>2

LEMMA WidgetReadsList ==
  ASSUME NEW widgets \in Widgets
  PROVE  /\ widgets \in Seq(OptionalQuery)
         /\ WidgetReads(widgets) \in Seq(QueryReads)
         /\ Elements(WidgetReads(widgets)) =
              {Read("query", q) : q \in Elements(widgets) \ {None}}
         /\ Elements(widgets) \subseteq OptionalQuery
  <1> DEFINE reads == [i \in DOMAIN widgets |-> Reference("query", widgets[i])]
  <1>1. /\ widgets \in Seq(OptionalQuery)
        /\ DOMAIN widgets = 1..Len(widgets) /\ Len(widgets) \in Nat
        /\ \A i \in DOMAIN widgets : widgets[i] \in QueryIds \union {None}
    BY WidgetsAssumption, ElementOfSeq, LenProperties DEF OptionalQuery
  <1>2. ASSUME NEW i \in DOMAIN widgets
        PROVE  /\ reads[i] \in Seq(QueryReads)
               /\ Elements(reads[i]) = {Read("query", x) : x \in {widgets[i]} \ {None}}
    <2>1. widgets[i] # None => Read("query", widgets[i]) \in QueryReads
      BY <1>1 DEF QueryReads
    <2>2. reads[i] = Reference("query", widgets[i])
      OBVIOUS
    <2>3. QED
      BY <2>1, <2>2, ReferenceList
  <1>3. DOMAIN reads = DOMAIN widgets
    OBVIOUS
  <1>4. reads \in Seq(Seq(QueryReads))
    <2> HIDE DEF reads
    <2>1. reads \in [1..Len(widgets) -> Seq(QueryReads)]
      <3>1. reads = [i \in 1..Len(widgets) |-> reads[i]]
        BY <1>1 DEF reads
      <3>2. QED
        BY <1>1, <1>2, <3>1
    <2>2. QED
      BY <1>1, <2>1
  <1>5. Occurring(reads) = {Read("query", q) : q \in Elements(widgets) \ {None}}
    <2> HIDE DEF reads
    <2>1. ASSUME NEW x \in Occurring(reads)
          PROVE  x \in {Read("query", q) : q \in Elements(widgets) \ {None}}
      <3>1. PICK i \in DOMAIN widgets : x \in Elements(reads[i])
        BY <1>3 DEF Occurring
      <3>2. widgets[i] # None /\ x = Read("query", widgets[i])
        BY <1>2, <3>1
      <3>3. QED
        BY <3>2 DEF Elements
    <2>2. ASSUME NEW q \in Elements(widgets) \ {None}
          PROVE  Read("query", q) \in Occurring(reads)
      <3>1. PICK i \in DOMAIN widgets : q = widgets[i]
        BY DEF Elements
      <3>2. Read("query", q) \in Elements(reads[i])
        BY <1>2, <3>1
      <3>3. QED
        BY <1>3, <3>2 DEF Occurring
    <2>3. QED
      BY <2>1, <2>2
  <1>6. WidgetReads(widgets) = Joined(reads)
    BY DEF WidgetReads
  <1> HIDE DEF reads
  <1>7. Elements(widgets) \subseteq OptionalQuery
    BY <1>1, ListElements
  <1>8. QED
    BY <1>1, <1>4, <1>5, <1>6, <1>7, JoinedList

Block == [query : OptionalQuery, dashboard : OptionalDashboard]

(* What a block refers to is its query, else its dashboard.                *)
LEMMA BlockReadsList ==
  ASSUME NEW block \in Block
  PROVE  /\ BlockReads(block) \in Seq(QueryReads \union DashboardReads)
         /\ Elements(BlockReads(block)) =
              {Read("query", q) : q \in {block.query} \ {None}} \union
              {Read("dashboard", b) : b \in {x \in {block.dashboard} \ {None} :
                                                block.query = None}}
  <1> DEFINE S == QueryReads \union DashboardReads
  <1>1. /\ block.query # None => Read("query", block.query) \in S
        /\ block.dashboard # None => Read("dashboard", block.dashboard) \in S
    BY DEF Block, OptionalQuery, OptionalDashboard, QueryReads, DashboardReads
  <1> HIDE DEF S
  <1>2. CASE block.query # None
    <2>1. /\ BlockReads(block) = Reference("query", block.query)
          /\ {x \in {block.dashboard} \ {None} : block.query = None} = {}
      BY <1>2 DEF BlockReads
    <2>2. /\ BlockReads(block) \in Seq(S)
          /\ Elements(BlockReads(block)) =
               {Read("query", q) : q \in {block.query} \ {None}}
      BY <1>1, <2>1, ReferenceList
    <2>3. QED
      BY <2>1, <2>2 DEF S
  <1>3. CASE block.query = None
    <2>1. /\ BlockReads(block) = Reference("dashboard", block.dashboard)
          /\ {block.query} \ {None} = {}
          /\ {x \in {block.dashboard} \ {None} : block.query = None} =
               {block.dashboard} \ {None}
      BY <1>3 DEF BlockReads
    <2>2. /\ BlockReads(block) \in Seq(S)
          /\ Elements(BlockReads(block)) =
               {Read("dashboard", b) : b \in {block.dashboard} \ {None}}
      BY <1>1, <2>1, ReferenceList
    <2>3. QED
      BY <2>1, <2>2 DEF S
  <1>4. QED
    BY <1>2, <1>3

(* What a report refers to.                                                *)
ReportQueries(report) ==
  ({report.query} \union {b.query : b \in Elements(report.blocks)}) \ {None}

ReportDashboards(report) ==
  ({report.dashboard} \union
   {b.dashboard : b \in {c \in Elements(report.blocks) : c.query = None}}) \ {None}

ReportRow == [tenant : Tenants, query : OptionalQuery,
              dashboard : OptionalDashboard, blocks : Blocks]

LEMMA ReportReadsList ==
  ASSUME NEW report \in ReportRow
  PROVE  /\ ReportReads(report) \in Seq(QueryReads \union DashboardReads)
         /\ Elements(ReportReads(report)) =
              {Read("query", q) : q \in ReportQueries(report)} \union
              {Read("dashboard", b) : b \in ReportDashboards(report)}
         /\ report.blocks \in Seq(Block)
         /\ ReportQueries(report) \subseteq QueryIds
         /\ ReportDashboards(report) \subseteq DashboardIds
  <1> DEFINE S == QueryReads \union DashboardReads
             blocks == report.blocks
             reads == [i \in DOMAIN blocks |-> BlockReads(blocks[i])]
  <1>1. /\ blocks \in Seq(Block)
        /\ DOMAIN blocks = 1..Len(blocks) /\ Len(blocks) \in Nat
        /\ \A i \in DOMAIN blocks : blocks[i] \in Block
    <2>1. blocks \in Seq(Block)
      BY BlocksAssumption DEF ReportRow, Block
    <2>2. QED
      BY <2>1, ElementOfSeq, LenProperties
  <1>2. /\ report.query # None => Read("query", report.query) \in S
        /\ report.dashboard # None => Read("dashboard", report.dashboard) \in S
    BY DEF ReportRow, OptionalQuery, OptionalDashboard, QueryReads, DashboardReads
  <1>3. DOMAIN reads = DOMAIN blocks /\ \A i \in DOMAIN blocks : reads[i] = BlockReads(blocks[i])
    OBVIOUS
  <1>4. ReportReads(report) = Reference("query", report.query)
                  \o Reference("dashboard", report.dashboard) \o Joined(reads)
    BY DEF ReportReads
  <1> HIDE DEF S, reads, blocks
  <1>5. \A i \in DOMAIN blocks : reads[i] \in Seq(S)
    BY <1>1, <1>3, BlockReadsList DEF S
  <1>6. reads \in Seq(Seq(S))
    <2>1. reads \in [1..Len(blocks) -> Seq(S)]
      <3>1. reads = [i \in 1..Len(blocks) |-> reads[i]]
        BY <1>1 DEF reads
      <3>2. QED
        BY <1>1, <1>5, <3>1
    <2>2. QED
      BY <1>1, <2>1
  <1>7. Joined(reads) \in Seq(S) /\ Elements(Joined(reads)) = Occurring(reads)
    BY <1>6, JoinedList
  <1> DEFINE own == Reference("query", report.query)
             board == Reference("dashboard", report.dashboard)
  <1>8. /\ own \in Seq(S)
        /\ Elements(own) = {Read("query", x) : x \in {report.query} \ {None}}
        /\ board \in Seq(S)
        /\ Elements(board) = {Read("dashboard", x) : x \in {report.dashboard} \ {None}}
    BY <1>2, ReferenceList
  <1> HIDE DEF own, board
  <1>9. /\ own \o board \in Seq(S)
        /\ Elements(own \o board) = Elements(own) \union Elements(board)
    BY <1>8, ListElements
  <1>10. /\ (own \o board) \o Joined(reads) \in Seq(S)
         /\ Elements((own \o board) \o Joined(reads)) =
              Elements(own) \union Elements(board) \union Occurring(reads)
    <2> DEFINE start == own \o board
               rest == Joined(reads)
    <2>1. start \in Seq(S) /\ rest \in Seq(S)
      BY <1>7, <1>9
    <2> HIDE DEF start, rest
    <2>2. /\ start \o rest \in Seq(S)
          /\ Elements(start \o rest) = Elements(start) \union Elements(rest)
      BY <2>1, ListElements
    <2>3. QED
      BY <1>7, <1>9, <2>2 DEF start, rest
  <1>11. ReportReads(report) = (own \o board) \o Joined(reads)
    <2>1. own = Reference("query", report.query)
      BY DEF own
    <2>2. board = Reference("dashboard", report.dashboard)
      BY DEF board
    <2>3. QED
      BY <1>4, <2>1, <2>2
  <1>12. Occurring(reads) =
           {Read("query", q) : q \in {b.query : b \in Elements(blocks)} \ {None}}
           \union {Read("dashboard", d) : d \in {b.dashboard : b \in
                     {c \in Elements(blocks) : c.query = None}} \ {None}}
    <2>1. ASSUME NEW x \in Occurring(reads)
          PROVE  \/ x \in {Read("query", q) : q \in {b.query : b \in Elements(blocks)} \ {None}}
                 \/ x \in {Read("dashboard", d) : d \in {b.dashboard : b \in
                     {c \in Elements(blocks) : c.query = None}} \ {None}}
      <3>1. PICK i \in DOMAIN blocks : x \in Elements(reads[i])
        BY <1>3 DEF Occurring
      <3>2. x \in Elements(BlockReads(blocks[i])) /\ blocks[i] \in Block
            /\ blocks[i] \in Elements(blocks)
        BY <1>1, <1>3, <3>1 DEF Elements
      <3>3. \/ blocks[i].query # None /\ x = Read("query", blocks[i].query)
            \/ /\ blocks[i].dashboard # None /\ blocks[i].query = None
               /\ x = Read("dashboard", blocks[i].dashboard)
        BY <3>2, BlockReadsList
      <3>4. QED
        BY <3>2, <3>3
    <2>2. ASSUME NEW b \in Elements(blocks), b.query # None
          PROVE  Read("query", b.query) \in Occurring(reads)
      <3>1. PICK i \in DOMAIN blocks : b = blocks[i]
        BY DEF Elements
      <3>2. Read("query", b.query) \in Elements(reads[i])
        BY <1>1, <1>3, <2>2, <3>1, BlockReadsList
      <3>3. QED
        BY <1>3, <3>2 DEF Occurring
    <2>3. ASSUME NEW b \in Elements(blocks), b.query = None, b.dashboard # None
          PROVE  Read("dashboard", b.dashboard) \in Occurring(reads)
      <3>1. PICK i \in DOMAIN blocks : b = blocks[i]
        BY DEF Elements
      <3>2. Read("dashboard", b.dashboard) \in Elements(reads[i])
        BY <1>1, <1>3, <2>3, <3>1, BlockReadsList
      <3>3. QED
        BY <1>3, <3>2 DEF Occurring
    <2>4. QED
      BY <2>1, <2>2, <2>3
  <1>13. Elements(ReportReads(report)) =
              {Read("query", q) : q \in ReportQueries(report)} \union
              {Read("dashboard", b) : b \in ReportDashboards(report)}
    <2> DEFINE inner == {b.query : b \in Elements(blocks)} \ {None}
               nested == {b.dashboard : b \in {c \in Elements(blocks) : c.query = None}}
                         \ {None}
               own1 == {report.query} \ {None}
               board1 == {report.dashboard} \ {None}
    <2>1. ReportQueries(report) = own1 \union inner
          /\ ReportDashboards(report) = board1 \union nested
      BY DEF ReportQueries, ReportDashboards, blocks
    <2>2. Elements(ReportReads(report)) =
            {Read("query", x) : x \in own1} \union {Read("dashboard", x) : x \in board1}
            \union ({Read("query", q) : q \in inner}
                    \union {Read("dashboard", d) : d \in nested})
      BY <1>8, <1>10, <1>11, <1>12
    <2> HIDE DEF inner, nested, own1, board1
    <2>3. {Read("query", q) : q \in own1 \union inner} =
            {Read("query", x) : x \in own1} \union {Read("query", q) : q \in inner}
      OBVIOUS
    <2>4. {Read("dashboard", b) : b \in board1 \union nested} =
            {Read("dashboard", x) : x \in board1}
            \union {Read("dashboard", d) : d \in nested}
      OBVIOUS
    <2>5. QED
      BY <2>1, <2>2, <2>3, <2>4
  <1>14. \A b \in Elements(blocks) : b \in Block
    BY <1>1 DEF Elements
  <1>15. ReportQueries(report) \subseteq QueryIds /\ ReportDashboards(report) \subseteq DashboardIds
    BY <1>14 DEF ReportQueries, ReportDashboards, Block, OptionalQuery, ReportRow,
                 OptionalDashboard, blocks
  <1>16. QED
    BY <1>1, <1>10, <1>11, <1>13, <1>15 DEF S, blocks

-------------------------------------------------------------------------------
(* What one read of the walk finds, and what it calls for.                 *)

FoundAt(cat, task) == Found(cat, task.table, task.id)

(* The codes of a task itself.                                             *)
Own(cat, task) ==
  CASE task.table = "query" ->
         Code(FoundAt(cat, task) = {}, "query_definition_not_found") \union
         Code(\E q \in FoundAt(cat, task) : ~q.active, "query_definition_not_active")
    [] task.table = "dataset" ->
         Code(FoundAt(cat, task) = {}, "dataset_not_found") \union
         Code(\E d \in FoundAt(cat, task) : ~d.active, "dataset_not_active")
    [] task.table = "mapping" ->
         Code(FoundMappings(cat, task.id) = {}, "field_mappings_missing") \union
         Code(\E m \in FoundMappings(cat, task.id) : ~cat.mapping[m].active,
              "field_mappings_incomplete")
    [] task.table = "dashboard" ->
         Code(FoundAt(cat, task) = {}, "dashboard_definition_not_found") \union
         Code(\E b \in FoundAt(cat, task) : b.widgets = <<>>,
              "dashboard_widgets_missing") \union
         Code(\E b \in FoundAt(cat, task) :
                b.widgets # <<>> /\ Elements(b.widgets) \subseteq {None},
              "dashboard_has_no_resolvable_queries") \union
         Code(\E b \in FoundAt(cat, task) : None \in Elements(b.widgets),
              "dashboard_widget_query_missing")
    [] task.table = "report" ->
         Code(FoundAt(cat, task) = {}, "report_definition_not_found") \union
         Code(\E r \in FoundAt(cat, task) :
                ReportQueries(r) = {} /\ ReportDashboards(r) = {},
              "report_has_no_resolvable_reference") \union
         Code(\E r \in FoundAt(cat, task) : \E b \in Elements(r.blocks) :
                b.query = None /\ b.dashboard = None,
              "report_block_reference_missing")

(* The tasks that a task calls for.                                        *)
Needs(cat, task) ==
  CASE task.table = "query" ->
         {Read("dataset", q.dataset) : q \in FoundAt(cat, task)}
    [] task.table = "dataset" ->
         {Read("mapping", d.key) : d \in FoundAt(cat, task)}
    [] task.table = "mapping" -> {}
    [] task.table = "dashboard" ->
         UNION {{Read("query", q) : q \in Elements(b.widgets) \ {None}} :
                  b \in FoundAt(cat, task)}
    [] task.table = "report" ->
         UNION {{Read("query", q) : q \in ReportQueries(r)} \union
                {Read("dashboard", b) : b \in ReportDashboards(r)} :
                  r \in FoundAt(cat, task)}

LEMMA TaskTables ==
  ASSUME NEW task \in Task
  PROVE  \/ task.table = "query" /\ task.id \in QueryIds /\ task = Read("query", task.id)
         \/ task.table = "dataset" /\ task.id \in DatasetIds /\ task = Read("dataset", task.id)
         \/ task.table = "mapping" /\ task.id \in Keys /\ task = Read("mapping", task.id)
         \/ /\ task.table = "dashboard" /\ task.id \in DashboardIds
            /\ task = Read("dashboard", task.id)
         \/ task.table = "report" /\ task.id \in ReportIds /\ task = Read("report", task.id)
  BY DEF Task, Definitions, Read

LEMMA ReadsAreTasks ==
  /\ QueryReads \subseteq Task /\ DashboardReads \subseteq Task
  /\ \A d \in DatasetIds : Read("dataset", d) \in Task
  /\ \A k \in Keys : Read("mapping", k) \in Task
  BY DEF QueryReads, DashboardReads, Task, Definitions

LEMMA OneTask ==
  ASSUME NEW task \in Task
  PROVE  <<task>> \in Seq(Task) /\ Elements(<<task>>) = {task}
         /\ <<>> \in Seq(Task) /\ Elements(<<>>) = {}
  BY DEF Elements

(* A step of the walk replaces a task by what it needs, and adds its codes.*)
LEMMA WalkStep ==
  ASSUME CatalogOK(catalog), todo \in Seq(Task), Evaluate
  PROVE  /\ todo # <<>>
         /\ \E reads \in Seq(Task), B \in SUBSET BlockerCodes, W \in SUBSET WarningCodes :
              /\ Continue(reads, B, W)
              /\ Elements(reads) = Needs(catalog, Head(todo))
              /\ Own(catalog, Head(todo)) = B \union W
  <1> DEFINE task == Head(todo)
             Ends(reads, B, W) ==
               /\ Elements(reads) = Needs(catalog, task)
               /\ Own(catalog, task) = B \union W
  <1>1. todo # <<>>
    BY DEF Evaluate, EvaluateQuery, EvaluateDataset, EvaluateMappings,
           EvaluateDashboard, EvaluateReport, Missing, Turn
  <1>2. task \in Task
    BY <1>1, ListElements
  <1>3. ASSUME NEW table, NEW code \in BlockerCodes, Missing(table, code),
               Own(catalog, task) = {code} \union {}, Needs(catalog, task) = {}
        PROVE  \E reads \in Seq(Task), B \in SUBSET BlockerCodes, W \in SUBSET WarningCodes :
                 Continue(reads, B, W) /\ Ends(reads, B, W)
    <2>1. Continue(<<>>, {code}, {})
      BY <1>3 DEF Missing
    <2>2. Ends(<<>>, {code}, {}) /\ <<>> \in Seq(Task)
      BY <1>2, <1>3, OneTask
    <2> HIDE DEF Ends
    <2>3. QED
      BY <1>3, <2>1, <2>2
  <1>4. CASE EvaluateQuery
    <2>1. task.table = "query" /\ task.id \in QueryIds
      BY <1>2, <1>4, TaskTables DEF EvaluateQuery, Missing, Turn
    <2>2. CASE Missing("query", "query_definition_not_found")
      <3>1. FoundAt(catalog, task) = {}
        BY <2>1, <2>2 DEF Missing, FoundAt
      <3>2. /\ Own(catalog, task) = {"query_definition_not_found"} \union {}
            /\ Needs(catalog, task) = {}
        BY <2>1, <3>1 DEF Own, Needs, Code
      <3>3. QED
        BY <1>1, <1>3, <2>2, <3>2 DEF BlockerCodes
    <2>3. ASSUME NEW query \in Found(catalog, "query", task.id),
                 Continue(<<Read("dataset", query.dataset)>>, {},
                          Code(~query.active, "query_definition_not_active"))
          PROVE  \E reads \in Seq(Task), B \in SUBSET BlockerCodes, W \in SUBSET WarningCodes :
                   Continue(reads, B, W) /\ Ends(reads, B, W)
      <3> DEFINE reads == <<Read("dataset", query.dataset)>>
                 W == Code(~query.active, "query_definition_not_active")
      <3>1. FoundAt(catalog, task) = {query} /\ query.dataset \in DatasetIds
        BY <2>1, FoundRow DEF FoundAt, Found
      <3>2. reads \in Seq(Task) /\ Elements(reads) = {Read("dataset", query.dataset)}
        BY <3>1, ReadsAreTasks, OneTask
      <3>3. Needs(catalog, task) = {Read("dataset", query.dataset)}
        BY <2>1, <3>1 DEF Needs
      <3>4. Own(catalog, task) = {} \union W
        BY <2>1, <3>1 DEF Own, Code
      <3>5. W \in SUBSET WarningCodes
        BY DEF Code, WarningCodes
      <3>6. Continue(reads, {}, W)
        BY <2>3
      <3> HIDE DEF reads, W
      <3>7. QED
        BY <3>2, <3>3, <3>4, <3>5, <3>6
    <2>4. QED
      BY <1>1, <1>4, <2>2, <2>3 DEF EvaluateQuery
  <1>5. CASE EvaluateDataset
    <2>1. task.table = "dataset" /\ task.id \in DatasetIds
      BY <1>2, <1>5, TaskTables DEF EvaluateDataset, Missing, Turn
    <2>2. CASE Missing("dataset", "dataset_not_found")
      <3>1. FoundAt(catalog, task) = {}
        BY <2>1, <2>2 DEF Missing, FoundAt
      <3>2. /\ Own(catalog, task) = {"dataset_not_found"} \union {}
            /\ Needs(catalog, task) = {}
        BY <2>1, <3>1 DEF Own, Needs, Code
      <3>3. QED
        BY <1>1, <1>3, <2>2, <3>2 DEF BlockerCodes
    <2>3. ASSUME NEW dataset \in Found(catalog, "dataset", task.id),
                 Continue(<<Read("mapping", dataset.key)>>, {},
                          Code(~dataset.active, "dataset_not_active"))
          PROVE  \E reads \in Seq(Task), B \in SUBSET BlockerCodes, W \in SUBSET WarningCodes :
                   Continue(reads, B, W) /\ Ends(reads, B, W)
      <3> DEFINE reads == <<Read("mapping", dataset.key)>>
                 W == Code(~dataset.active, "dataset_not_active")
      <3>1. FoundAt(catalog, task) = {dataset} /\ dataset.key \in Keys
        BY <2>1, FoundRow DEF FoundAt, Found
      <3>2. reads \in Seq(Task) /\ Elements(reads) = {Read("mapping", dataset.key)}
        BY <3>1, ReadsAreTasks, OneTask
      <3>3. Needs(catalog, task) = {Read("mapping", dataset.key)}
        BY <2>1, <3>1 DEF Needs
      <3>4. Own(catalog, task) = {} \union W
        BY <2>1, <3>1 DEF Own, Code
      <3>5. W \in SUBSET WarningCodes
        BY DEF Code, WarningCodes
      <3>6. Continue(reads, {}, W)
        BY <2>3
      <3> HIDE DEF reads, W
      <3>7. QED
        BY <3>2, <3>3, <3>4, <3>5, <3>6
    <2>4. QED
      BY <1>1, <1>5, <2>2, <2>3 DEF EvaluateDataset
  <1>6. CASE EvaluateMappings
    <2> DEFINE B == Code(FoundMappings(catalog, task.id) = {}, "field_mappings_missing")
               W == Code(\E m \in FoundMappings(catalog, task.id) :
                           ~catalog.mapping[m].active, "field_mappings_incomplete")
    <2>1. task.table = "mapping"
      BY <1>6 DEF EvaluateMappings, Turn
    <2>2. Continue(<<>>, B, W)
      BY <1>6 DEF EvaluateMappings
    <2>3. Own(catalog, task) = B \union W
      BY <2>1 DEF Own
    <2>4. Needs(catalog, task) = {} /\ Elements(<<>>) = {} /\ <<>> \in Seq(Task)
      BY <1>2, <2>1, OneTask DEF Needs
    <2>5. B \in SUBSET BlockerCodes /\ W \in SUBSET WarningCodes
      BY DEF Code, BlockerCodes, WarningCodes
    <2> HIDE DEF B, W
    <2>6. QED
      BY <1>1, <2>2, <2>3, <2>4, <2>5
  <1>7. CASE EvaluateDashboard
    <2>1. task.table = "dashboard" /\ task.id \in DashboardIds
      BY <1>2, <1>7, TaskTables DEF EvaluateDashboard, Missing, Turn
    <2>2. CASE Missing("dashboard", "dashboard_definition_not_found")
      <3>1. FoundAt(catalog, task) = {}
        BY <2>1, <2>2 DEF Missing, FoundAt
      <3>2. /\ Own(catalog, task) = {"dashboard_definition_not_found"} \union {}
            /\ Needs(catalog, task) = {}
        BY <2>1, <3>1 DEF Own, Needs, Code
      <3>3. QED
        BY <1>1, <1>3, <2>2, <3>2 DEF BlockerCodes
    <2>3. ASSUME NEW dashboard \in Found(catalog, "dashboard", task.id),
                 LET widgets == dashboard.widgets
                     reads == WidgetReads(widgets)
                 IN Continue(reads,
                      IF widgets = <<>> THEN {"dashboard_widgets_missing"}
                      ELSE Code(reads = <<>>, "dashboard_has_no_resolvable_queries"),
                      Code(\E i \in DOMAIN widgets : widgets[i] = None,
                           "dashboard_widget_query_missing"))
          PROVE  \E reads \in Seq(Task), B \in SUBSET BlockerCodes, W \in SUBSET WarningCodes :
                   Continue(reads, B, W) /\ Ends(reads, B, W)
      <3> DEFINE widgets == dashboard.widgets
                 reads == WidgetReads(widgets)
                 B == IF widgets = <<>> THEN {"dashboard_widgets_missing"}
                      ELSE Code(reads = <<>>, "dashboard_has_no_resolvable_queries")
                 W == Code(\E i \in DOMAIN widgets : widgets[i] = None,
                           "dashboard_widget_query_missing")
      <3>1. FoundAt(catalog, task) = {dashboard} /\ widgets \in Widgets
        BY <2>1, FoundRow DEF FoundAt, Found
      <3>2. Continue(reads, B, W)
        BY <2>3
      <3>3. /\ reads \in Seq(QueryReads)
            /\ Elements(reads) = {Read("query", q) : q \in Elements(widgets) \ {None}}
            /\ widgets \in Seq(OptionalQuery)
        BY <3>1, WidgetReadsList
      <3>4. reads \in Seq(Task)
        BY <3>3, ReadsAreTasks, ElementOfSeq, SeqDef
      <3>5. Needs(catalog, task) = Elements(reads)
        BY <2>1, <3>1, <3>3 DEF Needs
      <3>6. (reads = <<>>) <=> (Elements(widgets) \subseteq {None})
        <4>1. (reads = <<>>) <=> (Elements(reads) = {})
          BY <3>3, ListElements
        <4>2. QED
          BY <3>3, <4>1
      <3>7. (\E i \in DOMAIN widgets : widgets[i] = None) <=> (None \in Elements(widgets))
        BY DEF Elements
      <3>8. Own(catalog, task) = B \union W
        <4> HIDE DEF reads
        <4>1. Own(catalog, task) =
                Code(widgets = <<>>, "dashboard_widgets_missing") \union
                Code(widgets # <<>> /\ Elements(widgets) \subseteq {None},
                     "dashboard_has_no_resolvable_queries") \union
                Code(None \in Elements(widgets), "dashboard_widget_query_missing")
          BY <2>1, <3>1 DEF Own, Code
        <4>2. W = Code(None \in Elements(widgets), "dashboard_widget_query_missing")
          BY <3>7 DEF Code
        <4>3. B = Code(widgets = <<>>, "dashboard_widgets_missing") \union
                Code(widgets # <<>> /\ Elements(widgets) \subseteq {None},
                     "dashboard_has_no_resolvable_queries")
          BY <3>6 DEF Code
        <4> HIDE DEF B, W, widgets
        <4>4. QED
          BY <4>1, <4>2, <4>3
      <3>9. B \in SUBSET BlockerCodes /\ W \in SUBSET WarningCodes
        BY DEF Code, BlockerCodes, WarningCodes
      <3> HIDE DEF B, W, reads, widgets
      <3>10. QED
        BY <3>2, <3>4, <3>5, <3>8, <3>9
    <2>4. QED
      BY <1>1, <1>7, <2>2, <2>3 DEF EvaluateDashboard
  <1>8. CASE EvaluateReport
    <2>1. task.table = "report" /\ task.id \in ReportIds
      BY <1>2, <1>8, TaskTables DEF EvaluateReport, Missing, Turn
    <2>2. CASE Missing("report", "report_definition_not_found")
      <3>1. FoundAt(catalog, task) = {}
        BY <2>1, <2>2 DEF Missing, FoundAt
      <3>2. /\ Own(catalog, task) = {"report_definition_not_found"} \union {}
            /\ Needs(catalog, task) = {}
        BY <2>1, <3>1 DEF Own, Needs, Code
      <3>3. QED
        BY <1>1, <1>3, <2>2, <3>2 DEF BlockerCodes
    <2>3. ASSUME NEW report \in Found(catalog, "report", task.id),
                 Continue(ReportReads(report),
                   Code(ReportReads(report) = <<>>, "report_has_no_resolvable_reference"),
                   Code(\E i \in DOMAIN report.blocks : BlockReads(report.blocks[i]) = <<>>,
                        "report_block_reference_missing"))
          PROVE  \E reads \in Seq(Task), B \in SUBSET BlockerCodes, W \in SUBSET WarningCodes :
                   Continue(reads, B, W) /\ Ends(reads, B, W)
      <3> DEFINE reads == ReportReads(report)
                 blocks == report.blocks
                 B == Code(reads = <<>>, "report_has_no_resolvable_reference")
                 W == Code(\E i \in DOMAIN blocks : BlockReads(blocks[i]) = <<>>,
                           "report_block_reference_missing")
      <3>1. FoundAt(catalog, task) = {report} /\ report \in ReportRow
        BY <2>1, FoundRow DEF FoundAt, Found, ReportRow
      <3>2. Continue(reads, B, W)
        BY <2>3
      <3>3. /\ reads \in Seq(QueryReads \union DashboardReads)
            /\ Elements(reads) = {Read("query", q) : q \in ReportQueries(report)} \union
                 {Read("dashboard", b) : b \in ReportDashboards(report)}
            /\ blocks \in Seq(Block)
        BY <3>1, ReportReadsList
      <3>4. reads \in Seq(Task)
        BY <3>3, ReadsAreTasks, ElementOfSeq, SeqDef
      <3>5. Needs(catalog, task) = Elements(reads)
        BY <2>1, <3>1, <3>3 DEF Needs
      <3>6. (reads = <<>>) <=> (ReportQueries(report) = {} /\ ReportDashboards(report) = {})
        <4>1. (reads = <<>>) <=> (Elements(reads) = {})
          BY <3>3, ListElements
        <4> HIDE DEF reads
        <4>2. QED
          BY <3>3, <4>1
      <3>7. (\E i \in DOMAIN blocks : BlockReads(blocks[i]) = <<>>) <=>
              (\E b \in Elements(blocks) : b.query = None /\ b.dashboard = None)
        <4>1. ASSUME NEW b \in Elements(blocks)
              PROVE  BlockReads(b) = <<>> <=> (b.query = None /\ b.dashboard = None)
          <5>1. b \in Block
            BY <3>3, ElementOfSeq, LenProperties DEF Elements
          <5>2. (BlockReads(b) = <<>>) <=> (Elements(BlockReads(b)) = {})
            BY <5>1, BlockReadsList, ListElements
          <5>3. CASE b.query = None
            <6>1. Elements(BlockReads(b)) =
                    {Read("dashboard", x) : x \in {b.dashboard} \ {None}}
              BY <5>1, <5>3, BlockReadsList
            <6>2. QED
              BY <5>2, <5>3, <6>1
          <5>4. CASE b.query # None
            <6>1. Read("query", b.query) \in Elements(BlockReads(b))
              BY <5>1, <5>4, BlockReadsList
            <6>2. QED
              BY <5>2, <5>4, <6>1
          <5>5. QED
            BY <5>3, <5>4
        <4>2. QED
          BY <4>1 DEF Elements
      <3>8. Own(catalog, task) = B \union W
        <4> HIDE DEF reads
        <4>1. Own(catalog, task) =
                Code(ReportQueries(report) = {} /\ ReportDashboards(report) = {},
                     "report_has_no_resolvable_reference") \union
                Code(\E b \in Elements(blocks) : b.query = None /\ b.dashboard = None,
                     "report_block_reference_missing")
          BY <2>1, <3>1 DEF Own, Code
        <4>2. W = Code(\E b \in Elements(blocks) : b.query = None /\ b.dashboard = None,
                     "report_block_reference_missing")
          BY <3>7 DEF Code
        <4>3. B = Code(ReportQueries(report) = {} /\ ReportDashboards(report) = {},
                     "report_has_no_resolvable_reference")
          BY <3>6 DEF Code
        <4> HIDE DEF B, W, blocks
        <4>4. QED
          BY <4>1, <4>2, <4>3
      <3>9. B \in SUBSET BlockerCodes /\ W \in SUBSET WarningCodes
        BY DEF Code, BlockerCodes, WarningCodes
      <3> HIDE DEF B, W, reads, blocks
      <3>10. QED
        BY <3>2, <3>4, <3>5, <3>8, <3>9
    <2>4. QED
      BY <1>1, <1>8, <2>2, <2>3 DEF EvaluateReport
  <1>9. QED
    BY <1>4, <1>5, <1>6, <1>7, <1>8 DEF Evaluate

-------------------------------------------------------------------------------
(* All that a walk from some tasks on reaches, and what it finds there.    *)

NeedsOf(cat, tasks) == UNION {Needs(cat, t) : t \in tasks}

Reached(cat, tasks) ==
  LET second == NeedsOf(cat, tasks)
      third == NeedsOf(cat, second)
      fourth == NeedsOf(cat, third)
      fifth == NeedsOf(cat, fourth)
  IN tasks \union second \union third \union fourth \union fifth

Finds(cat, tasks) == UNION {Own(cat, t) : t \in Reached(cat, tasks)}

Clear(cat, tasks) ==
  \A t \in Reached(cat, tasks) : Own(cat, t) \intersect BlockerCodes = {}

TasksOn(tables) == {t \in Task : t.table \in tables}

LEMMA NeedsAreLower ==
  ASSUME NEW cat, CatalogOK(cat), NEW t \in Task
  PROVE  /\ Needs(cat, t) \subseteq TasksOn({"dashboard", "query", "dataset", "mapping"})
         /\ t.table # "report" =>
              Needs(cat, t) \subseteq TasksOn({"query", "dataset", "mapping"})
         /\ t.table \notin {"report", "dashboard"} =>
              Needs(cat, t) \subseteq TasksOn({"dataset", "mapping"})
         /\ t.table \in {"dataset", "mapping"} => Needs(cat, t) \subseteq TasksOn({"mapping"})
         /\ t.table = "mapping" => Needs(cat, t) = {}
  <1>1. CASE t.table = "query"
    <2>1. \A q \in FoundAt(cat, t) : q.dataset \in DatasetIds
      BY <1>1, TaskTables, FoundRow DEF FoundAt
    <2>2. Needs(cat, t) \subseteq TasksOn({"dataset"})
      BY <1>1, <2>1, ReadsAreTasks DEF Needs, TasksOn, Read
    <2>3. QED
      BY <1>1, <2>2 DEF TasksOn
  <1>2. CASE t.table = "dataset"
    <2>1. \A d \in FoundAt(cat, t) : d.key \in Keys
      BY <1>2, TaskTables, FoundRow DEF FoundAt
    <2>2. Needs(cat, t) \subseteq TasksOn({"mapping"})
      BY <1>2, <2>1, ReadsAreTasks DEF Needs, TasksOn, Read
    <2>3. QED
      BY <1>2, <2>2 DEF TasksOn
  <1>3. CASE t.table = "mapping"
    BY <1>3 DEF Needs
  <1>4. CASE t.table = "dashboard"
    <2>1. \A b \in FoundAt(cat, t) : Elements(b.widgets) \ {None} \subseteq QueryIds
      <3>1. \A b \in FoundAt(cat, t) : b.widgets \in Widgets
        BY <1>4, TaskTables, FoundRow DEF FoundAt
      <3>2. QED
        BY <3>1, WidgetReadsList DEF OptionalQuery
    <2>2. \A q \in QueryIds : Read("query", q) \in TasksOn({"query"})
      BY ReadsAreTasks DEF TasksOn, Read, QueryReads
    <2>3. Needs(cat, t) \subseteq TasksOn({"query"})
      BY <1>4, <2>1, <2>2 DEF Needs
    <2>4. QED
      BY <1>4, <2>3 DEF TasksOn
  <1>5. CASE t.table = "report"
    <2>1. \A r \in FoundAt(cat, t) : /\ ReportQueries(r) \subseteq QueryIds
                                    /\ ReportDashboards(r) \subseteq DashboardIds
      <3>1. \A r \in FoundAt(cat, t) : r \in ReportRow
        BY <1>5, TaskTables, FoundRow DEF FoundAt, ReportRow
      <3>2. QED
        BY <3>1, ReportReadsList
    <2>2. /\ \A q \in QueryIds : Read("query", q) \in TasksOn({"dashboard", "query"})
          /\ \A b \in DashboardIds : Read("dashboard", b) \in TasksOn({"dashboard", "query"})
      BY ReadsAreTasks DEF TasksOn, Read, QueryReads, DashboardReads
    <2>3. Needs(cat, t) \subseteq TasksOn({"dashboard", "query"})
      BY <1>5, <2>1, <2>2 DEF Needs
    <2>4. QED
      BY <1>5, <2>3 DEF TasksOn
  <1>6. QED
    BY <1>1, <1>2, <1>3, <1>4, <1>5, TaskTables

LEMMA NeedsOfUnion ==
  ASSUME NEW cat, NEW S, NEW T
  PROVE  NeedsOf(cat, S \union T) = NeedsOf(cat, S) \union NeedsOf(cat, T)
  BY DEF NeedsOf

(* Nothing is five reads away.                                             *)
LEMMA NothingBeyond ==
  ASSUME NEW cat, CatalogOK(cat), NEW T \in SUBSET Task
  PROVE  LET second == NeedsOf(cat, T)
             third == NeedsOf(cat, second)
             fourth == NeedsOf(cat, third)
             fifth == NeedsOf(cat, fourth)
         IN /\ second \subseteq Task /\ third \subseteq Task
            /\ fourth \subseteq Task /\ fifth \subseteq Task
            /\ NeedsOf(cat, fifth) = {}
  <1> DEFINE second == NeedsOf(cat, T)
             third == NeedsOf(cat, second)
             fourth == NeedsOf(cat, third)
             fifth == NeedsOf(cat, fourth)
  <1>1. second \subseteq TasksOn({"dashboard", "query", "dataset", "mapping"})
    BY NeedsAreLower DEF NeedsOf
  <1> HIDE DEF second
  <1>2. third \subseteq TasksOn({"query", "dataset", "mapping"})
    BY <1>1, NeedsAreLower DEF NeedsOf, TasksOn
  <1> HIDE DEF third
  <1>3. fourth \subseteq TasksOn({"dataset", "mapping"})
    BY <1>2, NeedsAreLower DEF NeedsOf, TasksOn
  <1> HIDE DEF fourth
  <1>4. fifth \subseteq TasksOn({"mapping"})
    BY <1>3, NeedsAreLower DEF NeedsOf, TasksOn
  <1> HIDE DEF fifth
  <1>5. NeedsOf(cat, fifth) = {}
    BY <1>4, NeedsAreLower DEF NeedsOf, TasksOn
  <1>6. QED
    BY <1>1, <1>2, <1>3, <1>4, <1>5 DEF TasksOn, second, third, fourth, fifth

LEMMA ReachedFrom ==
  ASSUME NEW cat, CatalogOK(cat), NEW t \in Task, NEW T \in SUBSET Task
  PROVE  Reached(cat, {t} \union T) = {t} \union Reached(cat, Needs(cat, t) \union T)
  <1> DEFINE N(S) == NeedsOf(cat, S)
             need == Needs(cat, t)
  <1>1. N({t}) = need
    BY DEF NeedsOf
  <1>2. N(N(N(N(need)))) = {}
    BY <1>1, NothingBeyond
  <1>3. \A A, B : N(A \union B) = N(A) \union N(B)
    BY NeedsOfUnion
  <1>4. Reached(cat, {t} \union T) =
          ({t} \union T) \union N({t} \union T) \union N(N({t} \union T))
          \union N(N(N({t} \union T))) \union N(N(N(N({t} \union T))))
    BY DEF Reached
  <1>5. Reached(cat, need \union T) =
          (need \union T) \union N(need \union T) \union N(N(need \union T))
          \union N(N(N(need \union T))) \union N(N(N(N(need \union T))))
    BY DEF Reached
  <1> HIDE DEF N, need
  <1>6. /\ N({t} \union T) = need \union N(T)
        /\ N(N({t} \union T)) = N(need) \union N(N(T))
        /\ N(N(N({t} \union T))) = N(N(need)) \union N(N(N(T)))
        /\ N(N(N(N({t} \union T)))) = N(N(N(need))) \union N(N(N(N(T))))
    <2>1. N({t} \union T) = need \union N(T)
      BY <1>1, <1>3
    <2>2. N(need \union N(T)) = N(need) \union N(N(T))
      BY <1>3
    <2>3. N(N(need) \union N(N(T))) = N(N(need)) \union N(N(N(T)))
      BY <1>3
    <2>4. N(N(N(need)) \union N(N(N(T)))) = N(N(N(need))) \union N(N(N(N(T))))
      BY <1>3
    <2>5. QED
      BY <2>1, <2>2, <2>3, <2>4
  <1>7. /\ N(need \union T) = N(need) \union N(T)
        /\ N(N(need \union T)) = N(N(need)) \union N(N(T))
        /\ N(N(N(need \union T))) = N(N(N(need))) \union N(N(N(T)))
        /\ N(N(N(N(need \union T)))) = N(N(N(N(T))))
    <2>1. N(need \union T) = N(need) \union N(T)
      BY <1>3
    <2>2. N(N(need) \union N(T)) = N(N(need)) \union N(N(T))
      BY <1>3
    <2>3. N(N(N(need)) \union N(N(T))) = N(N(N(need))) \union N(N(N(T)))
      BY <1>3
    <2>4. N(N(N(N(need))) \union N(N(N(T)))) = N(N(N(N(need)))) \union N(N(N(N(T))))
      BY <1>3
    <2>5. QED
      BY <1>2, <2>1, <2>2, <2>3, <2>4
  <1>8. Reached(cat, {t} \union T) = {t} \union Reached(cat, need \union T)
    BY <1>4, <1>5, <1>6, <1>7
  <1>9. QED
    BY <1>8 DEF need

IsUnion(set, one, other) == set = one \union other

LEMMA FindsFrom ==
  ASSUME NEW cat, CatalogOK(cat), NEW t \in Task, NEW T \in SUBSET Task,
         NEW before, IsUnion(before, {t}, T),
         NEW after, IsUnion(after, Needs(cat, t), T)
  PROVE  /\ IsUnion(Finds(cat, before), Own(cat, t), Finds(cat, after))
         /\ Clear(cat, before) <=>
              /\ Own(cat, t) \intersect BlockerCodes = {}
              /\ Clear(cat, after)
  <1>1. Reached(cat, {t} \union T) = {t} \union Reached(cat, Needs(cat, t) \union T)
    BY ReachedFrom
  <1>2. before = {t} \union T /\ after = Needs(cat, t) \union T
    BY DEF IsUnion
  <1>3. Reached(cat, before) = {t} \union Reached(cat, after)
    BY <1>1, <1>2
  <1>4. QED
    BY <1>3 DEF Finds, Clear, IsUnion

LEMMA NothingToFind ==
  ASSUME NEW cat
  PROVE  Reached(cat, {}) = {} /\ Finds(cat, {}) = {} /\ Clear(cat, {})
  <1>1. NeedsOf(cat, {}) = {}
    BY DEF NeedsOf
  <1>2. Reached(cat, {}) = {}
    BY <1>1 DEF Reached
  <1>3. QED
    BY <1>2 DEF Finds, Clear

-------------------------------------------------------------------------------
(* The mappings of a key.                                                  *)

Newer(ids, m) == {n \in ids : n > m}

Newest(ids) ==
  [k \in 1..Cardinality(ids) |->
     CHOOSE m \in ids : Cardinality(Newer(ids, m)) = k - 1]

LEMMA NewestList ==
  ASSUME NEW ids \in SUBSET Nat, IsFiniteSet(ids)
  PROVE  LET n == Cardinality(ids)
         IN /\ n \in Nat
            /\ Newest(ids) \in Bijection(1..n, ids)
            /\ \A i, k \in 1..n : i < k => Newest(ids)[i] > Newest(ids)[k]
  <1> DEFINE order == {pair \in ids \X ids : pair[1] > pair[2]}
  <1>1. \A m, n \in ids : <<m, n>> \in order <=> m > n
    OBVIOUS
  <1>2. \A m \in ids : Lesser(order, ids, m) = Newer(ids, m)
    BY <1>1 DEF Lesser, Newer
  <1>3. Ranked(order, ids) = Newest(ids)
    <2> HIDE DEF order
    <2>1. \A k \in 1..Cardinality(ids) :
            (CHOOSE m \in ids : Cardinality(Lesser(order, ids, m)) = k - 1) =
            (CHOOSE m \in ids : Cardinality(Newer(ids, m)) = k - 1)
      BY <1>2
    <2>2. QED
      BY <2>1 DEF Ranked, Newest
  <1> HIDE DEF order
  <1>4. \A p, q, r \in ids :
           /\ <<p, p>> \notin order
           /\ <<p, q>> \in order /\ <<q, r>> \in order => <<p, r>> \in order
           /\ p = q \/ <<p, q>> \in order \/ <<q, p>> \in order
           /\ ~(<<p, q>> \in order /\ <<q, p>> \in order)
    <2> TAKE p, q, r \in ids
    <2>1. p \in Nat /\ q \in Nat /\ r \in Nat
      OBVIOUS
    <2>2. QED
      BY <1>1, <2>1
  <1> DEFINE n == Cardinality(ids)
  <1>5. /\ n \in Nat
        /\ Newest(ids) \in Bijection(1..n, ids)
        /\ \A i, k \in 1..n : i < k => <<Newest(ids)[i], Newest(ids)[k]>> \in order
    <2> DEFINE list == Ranked(order, ids)
    <2>1. /\ Cardinality(ids) \in Nat
          /\ list \in Bijection(1..Cardinality(ids), ids)
          /\ \A i, k \in 1..Cardinality(ids) : i < k => <<list[i], list[k]>> \in order
      BY <1>4, Ranking
    <2>2. list = Newest(ids)
      BY <1>3
    <2> HIDE DEF list
    <2>3. QED
      BY <2>1, <2>2
  <1>6. \A k \in 1..n : Newest(ids)[k] \in ids
    BY <1>5 DEF Bijection, Injection
  <1>7. QED
    BY <1>1, <1>5, <1>6

(* A finite set of numbers that is not empty has a greatest member.        *)
LEMMA GreatestMember ==
  ASSUME NEW ids \in SUBSET Nat, IsFiniteSet(ids), ids # {}
  PROVE  \E top \in ids : \A m \in ids : m <= top
  <1> DEFINE n == Cardinality(ids)
             top == Newest(ids)[1]
  <1>1. /\ n \in Nat
        /\ Newest(ids) \in Bijection(1..n, ids)
        /\ \A i, k \in 1..n : i < k => Newest(ids)[i] > Newest(ids)[k]
    BY NewestList
  <1>2. /\ \A k \in 1..n : Newest(ids)[k] \in ids
        /\ \A m \in ids : \E k \in 1..n : Newest(ids)[k] = m
    BY <1>1 DEF Bijection, Injection, Surjection
  <1>3. 1 \in 1..n
    <2>1. PICK m \in ids : TRUE
      OBVIOUS
    <2>2. PICK k \in 1..n : Newest(ids)[k] = m
      BY <1>2
    <2> HIDE DEF n
    <2>3. QED
      BY <1>1, <2>2
  <1>4. ASSUME NEW m \in ids PROVE m <= top
    <2>1. PICK k \in 1..n : Newest(ids)[k] = m
      BY <1>2
    <2>2. k = 1 \/ 1 < k
      BY <1>1
    <2>3. top = m \/ top > m
      BY <1>1, <1>3, <2>1, <2>2
    <2>4. top \in Nat /\ m \in Nat
      BY <1>2, <1>3
    <2> HIDE DEF top
    <2>5. QED
      BY <2>3, <2>4
  <1>5. QED
    BY <1>2, <1>3, <1>4

Matching(cat, key) ==
  {m \in MappingIds : \E row \in Found(cat, "mapping", m) : row.key = key}

LEMMA MappingsOfKey ==
  ASSUME NEW cat, NEW key
  PROVE  /\ FoundMappings(cat, key) \subseteq Matching(cat, key)
         /\ FoundMappings(cat, key) = {} <=> Matching(cat, key) = {}
         /\ FoundMappings(cat, key) \subseteq MappingIds
         /\ FoundMappings(cat, key) \in SUBSET Nat
         /\ IsFiniteSet(FoundMappings(cat, key))
         /\ FoundMappings(cat, key) =
              {m \in Matching(cat, key) :
                 Cardinality({n \in Matching(cat, key) : n > m}) < MappingPage}
  <1> DEFINE matching == Matching(cat, key)
  <1>1. FoundMappings(cat, key) =
          {m \in matching : Cardinality({n \in matching : n > m}) < MappingPage}
    BY DEF FoundMappings, Matching
  <1>2. matching \in SUBSET MappingIds /\ matching \in SUBSET Nat /\ IsFiniteSet(matching)
    <2>1. matching \in SUBSET MappingIds
      BY DEF Matching
    <2> HIDE DEF matching
    <2>2. QED
      BY <2>1, MappingsAssumption, FS_Subset
  <1>3. matching # {} => FoundMappings(cat, key) # {}
    <2> HAVE matching # {}
    <2> HIDE DEF matching
    <2>1. PICK top \in matching : \A m \in matching : m <= top
      BY <1>2, GreatestMember
    <2>2. {n \in matching : n > top} = {}
      <3>1. ASSUME NEW n \in matching PROVE ~(n > top)
        <4>1. n \in Nat /\ top \in Nat /\ n <= top
          BY <1>2, <2>1
        <4>2. QED
          BY <4>1
      <3>2. QED
        BY <3>1
    <2>3. Cardinality({n \in matching : n > top}) = 0
      BY <2>2, FS_EmptySet
    <2>4. top \in FoundMappings(cat, key)
      BY <1>1, <2>3, MappingsAssumption
    <2>5. QED
      BY <2>4
  <1> HIDE DEF matching
  <1>4. FoundMappings(cat, key) \in SUBSET matching
    BY <1>1
  <1>5. IsFiniteSet(FoundMappings(cat, key))
    BY <1>2, <1>4, FS_Subset
  <1>6. QED
    BY <1>1, <1>2, <1>3, <1>4, <1>5 DEF matching

-------------------------------------------------------------------------------
(* A catalog that has grown: what was there has the same references.       *)

Grew(old, new) ==
  \A table \in Tables : \A id \in Ids[table] :
    old[table][id] # None => /\ new[table][id] # None
                             /\ SameReferences(old[table][id], new[table][id])

LEMMA GrownRow ==
  ASSUME NEW old, NEW new, CatalogOK(old), CatalogOK(new), Grew(old, new)
  PROVE  /\ \A q \in QueryIds : \A row \in Found(old, "query", q) :
              \E now \in Found(new, "query", q) : now.dataset = row.dataset
         /\ \A d \in DatasetIds : \A row \in Found(old, "dataset", d) :
              \E now \in Found(new, "dataset", d) :
                now.key = row.key /\ now.connection = row.connection
         /\ \A m \in MappingIds : \A row \in Found(old, "mapping", m) :
              \E now \in Found(new, "mapping", m) :
                now.key = row.key /\ now.connection = row.connection
         /\ \A b \in DashboardIds : \A row \in Found(old, "dashboard", b) :
              \E now \in Found(new, "dashboard", b) : now.widgets = row.widgets
         /\ \A r \in ReportIds : \A row \in Found(old, "report", r) :
              \E now \in Found(new, "report", r) :
                /\ now.query = row.query /\ now.dashboard = row.dashboard
                /\ now.blocks = row.blocks
         /\ \A c \in ConnectionIds :
              Found(old, "connection", c) # {} => Found(new, "connection", c) # {}
  <1>1. Tables = {"query", "dataset", "mapping", "connection", "dashboard", "report"}
    BY DEF Tables, Rows
  <1>2. /\ Ids["query"] = QueryIds /\ Ids["dataset"] = DatasetIds
        /\ Ids["mapping"] = MappingIds /\ Ids["connection"] = ConnectionIds
        /\ Ids["dashboard"] = DashboardIds /\ Ids["report"] = ReportIds
    BY DEF Ids
  <1>3. ASSUME NEW table \in Tables, NEW id \in Ids[table],
               NEW row \in Found(old, table, id),
               "tenant" \in DOMAIN row
        PROVE  /\ new[table][id] \in Found(new, table, id)
               /\ \A field \in DOMAIN row \ {"active", "protected"} :
                    new[table][id][field] = row[field]
    <2>1. row = old[table][id] /\ row # None /\ row.tenant = Tenant
      BY DEF Found
    <2>2. new[table][id] # None /\ SameReferences(row, new[table][id])
      BY <2>1 DEF Grew
    <2>3. new[table][id].tenant = Tenant
      BY <1>3, <2>1, <2>2 DEF SameReferences
    <2>4. QED
      BY <2>2, <2>3 DEF Found, SameReferences
  <1>4. ASSUME NEW q \in QueryIds, NEW row \in Found(old, "query", q)
        PROVE  \E now \in Found(new, "query", q) : now.dataset = row.dataset
    <2>1. DOMAIN row = {"tenant", "active", "dataset"}
      BY FoundRow
    <2>2. QED
      BY <1>1, <1>2, <1>3, <2>1
  <1>5. ASSUME NEW d \in DatasetIds, NEW row \in Found(old, "dataset", d)
        PROVE  \E now \in Found(new, "dataset", d) :
                 now.key = row.key /\ now.connection = row.connection
    <2>1. DOMAIN row = {"tenant", "active", "key", "connection"}
      BY FoundRow
    <2>2. QED
      BY <1>1, <1>2, <1>3, <2>1
  <1>6. ASSUME NEW m \in MappingIds, NEW row \in Found(old, "mapping", m)
        PROVE  \E now \in Found(new, "mapping", m) :
                 now.key = row.key /\ now.connection = row.connection
    <2>1. DOMAIN row = {"tenant", "active", "key", "connection"}
      BY FoundRow
    <2>2. QED
      BY <1>1, <1>2, <1>3, <2>1
  <1>7. ASSUME NEW b \in DashboardIds, NEW row \in Found(old, "dashboard", b)
        PROVE  \E now \in Found(new, "dashboard", b) : now.widgets = row.widgets
    <2>1. DOMAIN row = {"tenant", "widgets"}
      BY FoundRow
    <2>2. QED
      BY <1>1, <1>2, <1>3, <2>1
  <1>8. ASSUME NEW r \in ReportIds, NEW row \in Found(old, "report", r)
        PROVE  \E now \in Found(new, "report", r) :
                 /\ now.query = row.query /\ now.dashboard = row.dashboard
                 /\ now.blocks = row.blocks
    <2>1. DOMAIN row = {"tenant", "query", "dashboard", "blocks"}
      BY FoundRow
    <2>2. QED
      BY <1>1, <1>2, <1>3, <2>1
  <1>9. ASSUME NEW c \in ConnectionIds, NEW row \in Found(old, "connection", c)
        PROVE  Found(new, "connection", c) # {}
    <2>1. DOMAIN row = {"tenant", "protected"}
      BY FoundRow
    <2>2. QED
      BY <1>1, <1>2, <1>3, <2>1
  <1>10. QED
    BY <1>4, <1>5, <1>6, <1>7, <1>8, <1>9

(* All rows of a table have the same columns.                              *)
LEMMA SameColumns ==
  ASSUME NEW table \in Tables, NEW x \in Rows[table], NEW y \in Rows[table]
  PROVE  DOMAIN x = DOMAIN y /\ "tenant" \in DOMAIN x
  <1>1. CASE table = "query"
    <2>1. Rows[table] = [tenant : Tenants, active : BOOLEAN, dataset : DatasetIds]
      BY <1>1 DEF Rows
    <2>2. QED
      BY <2>1
  <1>2. CASE table = "dataset"
    <2>1. Rows[table] = [tenant : Tenants, active : BOOLEAN, key : Keys,
                              connection : OptionalConnection]
      BY <1>2 DEF Rows
    <2>2. QED
      BY <2>1
  <1>3. CASE table = "mapping"
    <2>1. Rows[table] = [tenant : Tenants, active : BOOLEAN, key : Keys,
                              connection : OptionalConnection]
      BY <1>3 DEF Rows
    <2>2. QED
      BY <2>1
  <1>4. CASE table = "connection"
    <2>1. Rows[table] = [tenant : Tenants, protected : BOOLEAN]
      BY <1>4 DEF Rows
    <2>2. QED
      BY <2>1
  <1>5. CASE table = "dashboard"
    <2>1. Rows[table] = [tenant : Tenants, widgets : Widgets]
      BY <1>5 DEF Rows
    <2>2. QED
      BY <2>1
  <1>6. CASE table = "report"
    <2>1. Rows[table] = [tenant : Tenants, query : OptionalQuery,
                              dashboard : OptionalDashboard, blocks : Blocks]
      BY <1>6 DEF Rows
    <2>2. QED
      BY <2>1
  <1>7. table \in {"query", "dataset", "mapping", "connection", "dashboard", "report"}
    BY DEF Tables, Rows
  <1>8. QED
    BY <1>1, <1>2, <1>3, <1>4, <1>5, <1>6, <1>7

LEMMA GrewIsOrder ==
  ASSUME NEW a, NEW b, NEW c, CatalogOK(a), CatalogOK(b), CatalogOK(c)
  PROVE  /\ Grew(a, a)
         /\ Grew(a, b) /\ Grew(b, c) => Grew(a, c)
  <1>1. Grew(a, a)
    BY DEF Grew, SameReferences
  <1>2. ASSUME Grew(a, b), Grew(b, c), NEW table \in Tables, NEW id \in Ids[table],
               a[table][id] # None
        PROVE  /\ c[table][id] # None
               /\ SameReferences(a[table][id], c[table][id])
    <2> DEFINE x == a[table][id]
               y == b[table][id]
               z == c[table][id]
    <2>1. y # None /\ SameReferences(x, y)
      BY <1>2 DEF Grew
    <2>2. z # None /\ SameReferences(y, z)
      BY <1>2, <2>1 DEF Grew
    <2>3. x \in Rows[table] /\ y \in Rows[table]
      <3>1. /\ a[table] \in [Ids[table] -> Rows[table] \union {None}]
            /\ b[table] \in [Ids[table] -> Rows[table] \union {None}]
        BY DEF CatalogOK
      <3>2. x \in Rows[table] \union {None} /\ y \in Rows[table] \union {None}
        BY <3>1
      <3> HIDE DEF x, y
      <3>3. QED
        BY <1>2, <2>1, <3>2 DEF x
    <2> HIDE DEF x, y, z
    <2>4. DOMAIN x = DOMAIN y
      BY <2>3, SameColumns
    <2>5. SameReferences(x, z)
      BY <2>1, <2>2, <2>4 DEF SameReferences
    <2>6. QED
      BY <2>2, <2>5 DEF x, z
  <1>3. QED
    BY <1>1, <1>2 DEF Grew

(* Where nothing blocks a task, nothing does once the catalog has grown.   *)
LEMMA GrownTask ==
  ASSUME NEW old, NEW new, CatalogOK(old), CatalogOK(new), Grew(old, new),
         NEW t \in Task, Own(old, t) \intersect BlockerCodes = {}
  PROVE  /\ Own(new, t) \intersect BlockerCodes = {}
         /\ Needs(new, t) = Needs(old, t)
  <1>1. CASE t.table = "query"
    <2>1. t.id \in QueryIds
      BY <1>1, TaskTables
    <2>2. "query_definition_not_found" \notin Own(old, t)
      BY DEF BlockerCodes
    <2>3. FoundAt(old, t) # {}
      BY <1>1, <2>2 DEF Own, Code
    <2>4. PICK row \in FoundAt(old, t) : TRUE
      BY <2>3
    <2>5. PICK now \in FoundAt(new, t) : now.dataset = row.dataset
      BY <1>1, <2>1, <2>4, GrownRow DEF FoundAt
    <2>6. FoundAt(old, t) = {row} /\ FoundAt(new, t) = {now}
      BY <2>4, <2>5 DEF FoundAt, Found
    <2>7. Needs(new, t) = Needs(old, t)
      BY <1>1, <2>5, <2>6 DEF Needs
    <2>8. Own(new, t) \subseteq {"query_definition_not_active"}
      BY <1>1, <2>6 DEF Own, Code
    <2>9. QED
      BY <2>7, <2>8 DEF BlockerCodes
  <1>2. CASE t.table = "dataset"
    <2>1. t.id \in DatasetIds
      BY <1>2, TaskTables
    <2>2. "dataset_not_found" \notin Own(old, t)
      BY DEF BlockerCodes
    <2>3. FoundAt(old, t) # {}
      BY <1>2, <2>2 DEF Own, Code
    <2>4. PICK row \in FoundAt(old, t) : TRUE
      BY <2>3
    <2>5. PICK now \in FoundAt(new, t) : now.key = row.key
      BY <1>2, <2>1, <2>4, GrownRow DEF FoundAt
    <2>6. FoundAt(old, t) = {row} /\ FoundAt(new, t) = {now}
      BY <2>4, <2>5 DEF FoundAt, Found
    <2>7. Needs(new, t) = Needs(old, t)
      BY <1>2, <2>5, <2>6 DEF Needs
    <2>8. Own(new, t) \subseteq {"dataset_not_active"}
      BY <1>2, <2>6 DEF Own, Code
    <2>9. QED
      BY <2>7, <2>8 DEF BlockerCodes
  <1>3. CASE t.table = "mapping"
    <2>1. "field_mappings_missing" \notin Own(old, t)
      BY DEF BlockerCodes
    <2>2. FoundMappings(old, t.id) # {}
      BY <1>3, <2>1 DEF Own, Code
    <2>3. PICK m \in MappingIds : \E row \in Found(old, "mapping", m) : row.key = t.id
      BY <2>2, MappingsOfKey DEF Matching
    <2>4. \E row \in Found(new, "mapping", m) : row.key = t.id
      BY <2>3, GrownRow
    <2>5. FoundMappings(new, t.id) # {}
      BY <2>4, MappingsOfKey DEF Matching
    <2>6. Own(new, t) \subseteq {"field_mappings_incomplete"}
      BY <1>3, <2>5 DEF Own, Code
    <2>7. Needs(new, t) = Needs(old, t)
      BY <1>3 DEF Needs
    <2>8. QED
      BY <2>6, <2>7 DEF BlockerCodes
  <1>4. CASE t.table = "dashboard"
    <2>1. t.id \in DashboardIds
      BY <1>4, TaskTables
    <2>2. /\ "dashboard_definition_not_found" \notin Own(old, t)
          /\ "dashboard_widgets_missing" \notin Own(old, t)
          /\ "dashboard_has_no_resolvable_queries" \notin Own(old, t)
      BY DEF BlockerCodes
    <2>3. /\ FoundAt(old, t) # {}
          /\ \A b \in FoundAt(old, t) :
               b.widgets # <<>> /\ ~(Elements(b.widgets) \subseteq {None})
      BY <1>4, <2>2 DEF Own, Code
    <2>4. PICK row \in FoundAt(old, t) : TRUE
      BY <2>3
    <2>5. PICK now \in FoundAt(new, t) : now.widgets = row.widgets
      BY <1>4, <2>1, <2>4, GrownRow DEF FoundAt
    <2>6. FoundAt(old, t) = {row} /\ FoundAt(new, t) = {now}
      BY <2>4, <2>5 DEF FoundAt, Found
    <2>7. Needs(new, t) = Needs(old, t)
      BY <1>4, <2>5, <2>6 DEF Needs
    <2>8. Own(new, t) \subseteq {"dashboard_widget_query_missing"}
      BY <1>4, <2>3, <2>5, <2>6 DEF Own, Code
    <2>9. QED
      BY <2>7, <2>8 DEF BlockerCodes
  <1>5. CASE t.table = "report"
    <2>1. t.id \in ReportIds
      BY <1>5, TaskTables
    <2>2. /\ "report_definition_not_found" \notin Own(old, t)
          /\ "report_has_no_resolvable_reference" \notin Own(old, t)
      BY DEF BlockerCodes
    <2>3. /\ FoundAt(old, t) # {}
          /\ \A r \in FoundAt(old, t) :
               ~(ReportQueries(r) = {} /\ ReportDashboards(r) = {})
      BY <1>5, <2>2 DEF Own, Code
    <2>4. PICK row \in FoundAt(old, t) : TRUE
      BY <2>3
    <2>5. PICK now \in FoundAt(new, t) :
            /\ now.query = row.query /\ now.dashboard = row.dashboard
            /\ now.blocks = row.blocks
      BY <1>5, <2>1, <2>4, GrownRow DEF FoundAt
    <2>6. FoundAt(old, t) = {row} /\ FoundAt(new, t) = {now}
      BY <2>4, <2>5 DEF FoundAt, Found
    <2>7. /\ ReportQueries(now) = ReportQueries(row)
          /\ ReportDashboards(now) = ReportDashboards(row)
      BY <2>5 DEF ReportQueries, ReportDashboards
    <2>8. Needs(new, t) = Needs(old, t)
      BY <1>5, <2>6, <2>7 DEF Needs
    <2>9. Own(new, t) \subseteq {"report_block_reference_missing"}
      BY <1>5, <2>3, <2>6, <2>7 DEF Own, Code
    <2>10. QED
      BY <2>8, <2>9 DEF BlockerCodes
  <1>6. QED
    BY <1>1, <1>2, <1>3, <1>4, <1>5, TaskTables

LEMMA GrownClear ==
  ASSUME NEW old, NEW new, CatalogOK(old), CatalogOK(new), Grew(old, new),
         NEW T \in SUBSET Task, Clear(old, T)
  PROVE  Clear(new, T)
  <1> DEFINE second == NeedsOf(old, T)
             third == NeedsOf(old, second)
             fourth == NeedsOf(old, third)
             fifth == NeedsOf(old, fourth)
             all == T \union second \union third \union fourth \union fifth
  <1>1. /\ second \subseteq Task /\ third \subseteq Task
        /\ fourth \subseteq Task /\ fifth \subseteq Task
    BY NothingBeyond
  <1>2. Reached(old, T) = all
    BY DEF Reached
  <1>3. \A t \in all : /\ Own(new, t) \intersect BlockerCodes = {}
                       /\ Needs(new, t) = Needs(old, t)
    <2> TAKE t \in all
    <2>1. t \in Task /\ Own(old, t) \intersect BlockerCodes = {}
      BY <1>1, <1>2 DEF Clear
    <2> HIDE DEF all
    <2>2. QED
      BY <2>1, GrownTask
  <1>4. \A S \in SUBSET all : NeedsOf(new, S) = NeedsOf(old, S)
    BY <1>3 DEF NeedsOf
  <1>5. /\ T \in SUBSET all /\ second \in SUBSET all /\ third \in SUBSET all
        /\ fourth \in SUBSET all
    OBVIOUS
  <1>6. /\ NeedsOf(new, T) = second /\ NeedsOf(new, second) = third
        /\ NeedsOf(new, third) = fourth /\ NeedsOf(new, fourth) = fifth
    <2> HIDE DEF all
    <2>1. QED
      BY <1>4, <1>5
  <1>7. Reached(new, T) = all
    <2> HIDE DEF second, third, fourth, fifth
    <2>1. QED
      BY <1>6 DEF Reached
  <1> HIDE DEF all
  <1>8. QED
    BY <1>3, <1>7 DEF Clear

-------------------------------------------------------------------------------
(* The invariant of the walk.  Left alone, what it has found and what it   *)
(* is still going to find are what there is to find.  While catalogs only  *)
(* grow, a definition that was clear when the walk began leaves nothing to *)
(* find; and as long as nothing blocks, whatever the catalog grows into,   *)
(* the definition is clear there if what is still to be read is.           *)
WalkInv ==
  /\ ReadinessTypeOK
  /\ initial \in Catalogs
  /\ edits = 0 =>
       blockers \union warnings \union Finds(catalog, Elements(todo))
         = Finds(catalog, {asked})
  /\ ~repointed => Grew(initial, catalog)
  /\ ~repointed /\ Clear(initial, {asked}) =>
       blockers = {} /\ Clear(initial, Elements(todo))
  /\ ~repointed /\ blockers = {} =>
       \A cat : CatalogOK(cat) /\ Grew(catalog, cat) /\ Clear(cat, Elements(todo))
                  => Clear(cat, {asked})

LEMMA AskedIsTask == Definitions \subseteq Task
  BY DEF Task

LEMMA WalkInvInit == ReadinessInit => WalkInv
  <1> SUFFICES ASSUME ReadinessInit PROVE WalkInv
    OBVIOUS
  <1>1. catalog \in Catalogs /\ CatalogOK(catalog) /\ initial = catalog
    BY CatalogsAssumption DEF ReadinessInit
  <1>2. asked \in Task /\ todo \in Seq(Task) /\ Elements(todo) = {asked}
    BY AskedIsTask, OneTask DEF ReadinessInit
  <1>3. ReadinessTypeOK
    <2>1. MaxEdits(initial) \in Nat
      BY <1>1, MaxEditsAssumption
    <2>2. edits \in 0..MaxEdits(initial)
      BY <2>1 DEF ReadinessInit
    <2>3. QED
      BY <1>1, <1>2, <2>2 DEF ReadinessTypeOK, ReadinessInit
  <1>4. Grew(initial, catalog)
    BY <1>1, GrewIsOrder
  <1>5. blockers = {} /\ warnings = {}
    BY DEF ReadinessInit
  <1>6. QED
    BY <1>1, <1>2, <1>3, <1>4, <1>5 DEF WalkInv

LEMMA WalkInvEvaluate == WalkInv /\ Evaluate => WalkInv'
  <1> SUFFICES ASSUME WalkInv, Evaluate PROVE WalkInv'
    OBVIOUS
  <1> DEFINE task == Head(todo)
             rest == Elements(Tail(todo))
  <1>1. /\ CatalogOK(catalog) /\ CatalogOK(initial) /\ todo \in Seq(Task)
        /\ blockers \subseteq BlockerCodes /\ warnings \subseteq WarningCodes
    BY DEF WalkInv, ReadinessTypeOK
  <1>2. todo # <<>>
    BY <1>1, WalkStep
  <1>3. PICK reads \in Seq(Task), B \in SUBSET BlockerCodes, W \in SUBSET WarningCodes :
          /\ Continue(reads, B, W)
          /\ Elements(reads) = Needs(catalog, task)
          /\ Own(catalog, task) = B \union W
    BY <1>1, WalkStep
  <1>4. /\ task \in Task /\ Tail(todo) \in Seq(Task)
        /\ Elements(todo) = {task} \union rest /\ rest \in SUBSET Task
    BY <1>1, <1>2, ListElements
  <1>5. /\ todo' = reads \o Tail(todo)
        /\ blockers' = blockers \union B /\ warnings' = warnings \union W
        /\ catalog' = catalog /\ asked' = asked /\ edits' = edits
        /\ initial' = initial /\ repointed' = repointed
    BY <1>3 DEF Continue
  <1> DEFINE need == Needs(catalog, task)
             tail == Tail(todo)
             now == {task} \union rest
             next == need \union rest
  <1>6. /\ todo' \in Seq(Task) /\ Elements(todo') = next
        /\ need \in SUBSET Task
    <2>1. tail \in Seq(Task) /\ rest = Elements(tail) /\ todo' = reads \o tail
      BY <1>4, <1>5
    <2>2. need = Elements(reads)
      BY <1>3
    <2> HIDE DEF tail, rest, need
    <2>3. /\ reads \o tail \in Seq(Task)
          /\ Elements(reads \o tail) = Elements(reads) \union Elements(tail)
          /\ Elements(reads) \subseteq Task
      BY <2>1, ListElements
    <2>4. QED
      BY <2>1, <2>2, <2>3
  <1>7. /\ task \in Task /\ rest \in SUBSET Task /\ Elements(todo) = now
        /\ need = Needs(catalog, task) /\ Own(catalog, task) = B \union W
    BY <1>3, <1>4
  <1>8. IsUnion(now, {task}, rest) /\ IsUnion(next, need, rest)
    BY DEF IsUnion
  <1> HIDE DEF task, rest, need, now, next, tail
  <1>9. ReadinessTypeOK'
    BY <1>5, <1>6 DEF WalkInv, ReadinessTypeOK, CatalogOK
  <1>10. edits' = 0 => blockers' \union warnings' \union Finds(catalog', Elements(todo'))
                         = Finds(catalog', {asked'})
    <2> HAVE edits' = 0
    <2>1. blockers \union warnings \union Finds(catalog, now) = Finds(catalog, {asked})
      BY <1>5, <1>7 DEF WalkInv
    <2>2. Finds(catalog, now) = Own(catalog, task) \union Finds(catalog, next)
      <3>1. IsUnion(Finds(catalog, now), Own(catalog, task), Finds(catalog, next))
        BY <1>1, <1>7, <1>8, FindsFrom
      <3>2. QED
        BY <3>1 DEF IsUnion
    <2>3. (blockers \union B) \union (warnings \union W) \union Finds(catalog, next)
            = Finds(catalog, {asked})
      BY <1>7, <2>1, <2>2
    <2>4. QED
      BY <1>5, <1>6, <2>3
  <1>11. (Own(catalog, task) \intersect BlockerCodes = {}) <=> (B = {})
    BY <1>7 DEF BlockerCodes, WarningCodes
  <1>12. ~repointed' /\ Clear(initial', {asked'}) =>
           blockers' = {} /\ Clear(initial', Elements(todo'))
    <2> HAVE ~repointed' /\ Clear(initial', {asked'})
    <2>1. /\ Grew(initial, catalog) /\ blockers = {}
          /\ Clear(initial, now)
      BY <1>5, <1>7 DEF WalkInv
    <2> DEFINE first == Needs(initial, task) \union rest
    <2>2. /\ Own(initial, task) \intersect BlockerCodes = {}
          /\ Clear(initial, first)
      <3>1. IsUnion(first, Needs(initial, task), rest)
        BY DEF IsUnion
      <3> HIDE DEF first
      <3>2. QED
        BY <1>1, <1>7, <1>8, <2>1, <3>1, FindsFrom
    <2>3. /\ Own(catalog, task) \intersect BlockerCodes = {}
          /\ Needs(catalog, task) = Needs(initial, task)
      BY <1>1, <1>7, <2>1, <2>2, GrownTask
    <2>4. B = {} /\ first = next
      BY <1>7, <1>8, <1>11, <2>3 DEF IsUnion
    <2> HIDE DEF first
    <2>5. QED
      BY <1>5, <1>6, <2>1, <2>2, <2>4
  <1>13. ASSUME ~repointed', blockers' = {}, NEW cat, CatalogOK(cat),
                Grew(catalog', cat), Clear(cat, Elements(todo'))
         PROVE  Clear(cat, {asked'})
    <2>1. blockers = {} /\ B = {} /\ Grew(catalog, cat) /\ ~repointed
      BY <1>5, <1>13
    <2>2. /\ Own(cat, task) \intersect BlockerCodes = {}
          /\ Needs(cat, task) = need
      BY <1>1, <1>7, <1>11, <1>13, <2>1, GrownTask
    <2>3. Clear(cat, next) /\ IsUnion(next, Needs(cat, task), rest)
      BY <1>6, <1>8, <1>13, <2>2
    <2>4. Clear(cat, now)
      BY <1>7, <1>8, <1>13, <2>2, <2>3, FindsFrom
    <2>5. Clear(cat, {asked})
      BY <1>7, <1>13, <2>1, <2>4 DEF WalkInv
    <2>6. QED
      BY <1>5, <2>5
  <1>14. /\ initial' \in Catalogs
         /\ ~repointed' => Grew(initial', catalog')
    BY <1>5 DEF WalkInv
  <1>15. QED
    BY <1>9, <1>10, <1>12, <1>13, <1>14 DEF WalkInv

(* What an edit does to the catalog.                                       *)
LEMMA EditStores ==
  ASSUME WalkInv, Edit
  PROVE  /\ CatalogOK(catalog') /\ UNCHANGED evaluation
         /\ edits' = edits + 1 /\ edits' \in 0..MaxEdits(initial) /\ edits' # 0
         /\ repointed' \in BOOLEAN /\ (repointed => repointed')
         /\ ~repointed' => Grew(catalog, catalog')
         /\ \A table \in Tables : \A id \in Ids[table] :
              catalog[table][id] # None =>
                /\ catalog'[table][id] # None
                /\ catalog'[table][id].tenant = catalog[table][id].tenant
  <1>1. CatalogOK(catalog) /\ repointed \in BOOLEAN /\ edits \in 0..MaxEdits(initial)
        /\ MaxEdits(initial) \in Nat
    BY MaxEditsAssumption DEF WalkInv, ReadinessTypeOK
  <1>2. PICK edit \in Edits :
          /\ Store(edit.table, edit.id, edit.row)
          /\ \/ /\ catalog[edit.table][edit.id] = None
                /\ UNCHANGED repointed
             \/ /\ catalog[edit.table][edit.id] # None
                /\ edit.row.tenant = catalog[edit.table][edit.id].tenant
                /\ repointed' = (repointed \/
                     ~SameReferences(catalog[edit.table][edit.id], edit.row))
    BY DEF Edit, CreateDefinition, UpdateDefinition
  <1> DEFINE table == edit.table
             id == edit.id
             row == edit.row
  <1>3. table \in Tables /\ id \in Ids[table] /\ row \in Rows[table] /\ row # None
    BY EditsAssumption, AbsenceAssumption
  <1>4. /\ catalog' = [catalog EXCEPT ![table][id] = row]
        /\ edits' = edits + 1 /\ edits < MaxEdits(initial) /\ UNCHANGED evaluation
    BY <1>2 DEF Store
  <1>5. edits' \in 0..MaxEdits(initial) /\ edits' # 0
    BY <1>1, <1>4
  <1>6. /\ DOMAIN catalog = Tables
        /\ catalog = [t \in Tables |-> catalog[t]]
        /\ \A t \in Tables : catalog[t] \in [Ids[t] -> Rows[t] \union {None}]
    BY <1>1 DEF CatalogOK
  <1> HIDE DEF table, id, row
  <1>7. /\ DOMAIN catalog' = Tables
        /\ catalog' = [t \in Tables |-> catalog'[t]]
        /\ \A t \in Tables : t # table => catalog'[t] = catalog[t]
        /\ catalog'[table] = [catalog[table] EXCEPT ![id] = row]
    BY <1>3, <1>4, <1>6
  <1>8. /\ catalog'[table] \in [Ids[table] -> Rows[table] \union {None}]
        /\ catalog'[table][id] = row
        /\ \A i \in Ids[table] : i # id => catalog'[table][i] = catalog[table][i]
    <2>1. catalog[table] \in [Ids[table] -> Rows[table] \union {None}]
      BY <1>3, <1>6
    <2>2. QED
      BY <1>3, <1>7, <2>1
  <1>9. CatalogOK(catalog')
    <2>1. \A t \in Tables : catalog'[t] \in [Ids[t] -> Rows[t] \union {None}]
      BY <1>6, <1>7, <1>8
    <2>2. catalog' \in [Tables -> {catalog'[t] : t \in Tables}]
      BY <1>7
    <2>3. QED
      BY <2>1, <2>2 DEF CatalogOK
  <1>10. ASSUME NEW t \in Tables, NEW i \in Ids[t], catalog[t][i] # None
         PROVE  /\ catalog'[t][i] # None
                /\ catalog'[t][i].tenant = catalog[t][i].tenant
                /\ ~repointed' => SameReferences(catalog[t][i], catalog'[t][i])
    <2>1. CASE t = table /\ i = id
      BY <1>2, <1>3, <1>8, <1>10, <2>1 DEF table, id, row
    <2>2. CASE ~(t = table /\ i = id)
      <3>1. catalog'[t][i] = catalog[t][i]
        BY <1>7, <1>8, <2>2
      <3>2. QED
        BY <1>10, <3>1 DEF SameReferences
    <2>3. QED
      BY <2>1, <2>2
  <1>11. repointed' \in BOOLEAN /\ (repointed => repointed')
    <2>1. CASE UNCHANGED repointed
      BY <1>1, <2>1
    <2>2. CASE repointed' = (repointed \/ ~SameReferences(catalog[table][id], row))
      <3>1. repointed' \in BOOLEAN
        BY <2>2
      <3>2. repointed => repointed'
        BY <2>2
      <3>3. QED
        BY <3>1, <3>2
    <2>3. QED
      BY <1>2, <2>1, <2>2 DEF table, id, row
  <1>12. ~repointed' => Grew(catalog, catalog')
    BY <1>10 DEF Grew
  <1>13. QED
    BY <1>4, <1>5, <1>9, <1>10, <1>11, <1>12

LEMMA WalkInvEdit == WalkInv /\ Edit => WalkInv'
  <1> SUFFICES ASSUME WalkInv, Edit PROVE WalkInv'
    OBVIOUS
  <1>1. /\ CatalogOK(catalog') /\ UNCHANGED evaluation
        /\ edits' \in 0..MaxEdits(initial) /\ edits' # 0
        /\ repointed' \in BOOLEAN /\ (repointed => repointed')
        /\ ~repointed' => Grew(catalog, catalog')
    BY EditStores
  <1>2. /\ todo' = todo /\ blockers' = blockers /\ warnings' = warnings
        /\ asked' = asked /\ initial' = initial
    BY <1>1 DEF evaluation
  <1>3. CatalogOK(catalog) /\ CatalogOK(initial) /\ initial \in Catalogs
    BY DEF WalkInv, ReadinessTypeOK
  <1>4. ReadinessTypeOK'
    BY <1>1, <1>2 DEF WalkInv, ReadinessTypeOK, CatalogOK
  <1>5. ~repointed' => Grew(initial', catalog')
    BY <1>1, <1>2, <1>3, GrewIsOrder DEF WalkInv
  <1>6. ~repointed' /\ Clear(initial', {asked'}) =>
          blockers' = {} /\ Clear(initial', Elements(todo'))
    BY <1>1, <1>2 DEF WalkInv
  <1>7. ASSUME ~repointed', blockers' = {}, NEW cat, CatalogOK(cat),
               Grew(catalog', cat), Clear(cat, Elements(todo'))
        PROVE  Clear(cat, {asked'})
    <2>1. Grew(catalog, cat)
      BY <1>1, <1>3, <1>7, GrewIsOrder
    <2>2. QED
      BY <1>1, <1>2, <1>7, <2>1 DEF WalkInv
  <1>8. QED
    BY <1>1, <1>2, <1>3, <1>4, <1>5, <1>6, <1>7 DEF WalkInv

LEMMA WalkInvStutter == WalkInv /\ UNCHANGED readinessVars => WalkInv'
  <1> SUFFICES ASSUME WalkInv, UNCHANGED readinessVars PROVE WalkInv'
    OBVIOUS
  <1>1. /\ catalog' = catalog /\ todo' = todo /\ blockers' = blockers
        /\ warnings' = warnings /\ asked' = asked /\ initial' = initial
        /\ edits' = edits /\ repointed' = repointed
    BY DEF readinessVars, evaluation
  <1>2. QED
    BY <1>1 DEF WalkInv, ReadinessTypeOK, CatalogOK

-------------------------------------------------------------------------------
(* What the walk reaches and finds is what Blocking and Warning say.       *)

QueryTasks(ids) == {Read("query", q) : q \in ids}
DatasetTasks(ids) == {Read("dataset", d) : d \in ids}
MappingTasks(keys) == {Read("mapping", k) : k \in keys}
DashboardTasks(ids) == {Read("dashboard", b) : b \in ids}

DatasetsOf(cat, ids) == {q.dataset : q \in Here(cat, "query", ids)}
KeysOf(cat, ids) == {d.key : d \in Here(cat, "dataset", ids)}
QueriesOf(cat, ids) ==
  (UNION {Elements(b.widgets) : b \in Here(cat, "dashboard", ids)}) \ {None}

LEMMA HereFound ==
  ASSUME NEW cat, NEW table, NEW ids
  PROVE  /\ \A row : row \in Here(cat, table, ids) <=>
                       \E id \in ids : row \in Found(cat, table, id)
         /\ Gone(cat, table, ids) <=> \E id \in ids : Found(cat, table, id) = {}
         /\ \A id : Here(cat, table, {id}) = Found(cat, table, id)
  <1>1. \A row : row \in Here(cat, table, ids) <=>
                   \E id \in ids : row \in Found(cat, table, id)
    BY DEF Here, Found
  <1>2. \A id : Here(cat, table, {id}) = Found(cat, table, id)
    BY DEF Here, Found
  <1>3. QED
    BY <1>1, <1>2 DEF Gone

LEMMA NeedsByTable ==
  ASSUME NEW cat
  PROVE  /\ \A ids : NeedsOf(cat, QueryTasks(ids)) = DatasetTasks(DatasetsOf(cat, ids))
         /\ \A ids : NeedsOf(cat, DatasetTasks(ids)) = MappingTasks(KeysOf(cat, ids))
         /\ \A keys : NeedsOf(cat, MappingTasks(keys)) = {}
         /\ \A ids : NeedsOf(cat, DashboardTasks(ids)) = QueryTasks(QueriesOf(cat, ids))
         /\ NeedsOf(cat, {}) = {}
         /\ \A a, b : DatasetsOf(cat, a \union b) = DatasetsOf(cat, a) \union DatasetsOf(cat, b)
         /\ \A a, b : KeysOf(cat, a \union b) = KeysOf(cat, a) \union KeysOf(cat, b)
  <1>1. ASSUME NEW ids
        PROVE  NeedsOf(cat, QueryTasks(ids)) = DatasetTasks(DatasetsOf(cat, ids))
    <2>1. \A x : x \in NeedsOf(cat, QueryTasks(ids)) <=>
                   \E q \in ids : x \in Needs(cat, Read("query", q))
      BY DEF NeedsOf, QueryTasks
    <2>2. ASSUME NEW q \in ids
          PROVE  \A x : x \in Needs(cat, Read("query", q)) <=>
                   \E row \in Found(cat, "query", q) : x = Read("dataset", row.dataset)
      BY DEF Needs, Read, FoundAt
    <2>3. \A x : x \in DatasetTasks(DatasetsOf(cat, ids)) <=>
                   \E q \in ids : \E row \in Found(cat, "query", q) :
                      x = Read("dataset", row.dataset)
      BY HereFound DEF DatasetTasks, DatasetsOf
    <2>4. \A x : x \in NeedsOf(cat, QueryTasks(ids)) <=>
                   x \in DatasetTasks(DatasetsOf(cat, ids))
      BY <2>1, <2>2, <2>3
    <2>5. QED
      BY <2>4
  <1>2. ASSUME NEW ids
        PROVE  NeedsOf(cat, DatasetTasks(ids)) = MappingTasks(KeysOf(cat, ids))
    <2>1. \A x : x \in NeedsOf(cat, DatasetTasks(ids)) <=>
                   \E d \in ids : x \in Needs(cat, Read("dataset", d))
      BY DEF NeedsOf, DatasetTasks
    <2>2. ASSUME NEW d \in ids
          PROVE  \A x : x \in Needs(cat, Read("dataset", d)) <=>
                   \E row \in Found(cat, "dataset", d) : x = Read("mapping", row.key)
      BY DEF Needs, Read, FoundAt
    <2>3. \A x : x \in MappingTasks(KeysOf(cat, ids)) <=>
                   \E d \in ids : \E row \in Found(cat, "dataset", d) :
                      x = Read("mapping", row.key)
      BY HereFound DEF MappingTasks, KeysOf
    <2>4. \A x : x \in NeedsOf(cat, DatasetTasks(ids)) <=>
                   x \in MappingTasks(KeysOf(cat, ids))
      BY <2>1, <2>2, <2>3
    <2>5. QED
      BY <2>4
  <1>3. ASSUME NEW keys PROVE NeedsOf(cat, MappingTasks(keys)) = {}
    BY DEF NeedsOf, MappingTasks, Needs, Read
  <1>4. ASSUME NEW ids
        PROVE  NeedsOf(cat, DashboardTasks(ids)) = QueryTasks(QueriesOf(cat, ids))
    <2>1. \A x : x \in NeedsOf(cat, DashboardTasks(ids)) <=>
                   \E b \in ids : x \in Needs(cat, Read("dashboard", b))
      BY DEF NeedsOf, DashboardTasks
    <2>2. ASSUME NEW b \in ids
          PROVE  \A x : x \in Needs(cat, Read("dashboard", b)) <=>
                   \E row \in Found(cat, "dashboard", b) :
                     \E q \in Elements(row.widgets) \ {None} : x = Read("query", q)
      BY DEF Needs, Read, FoundAt
    <2>3. \A x : x \in QueryTasks(QueriesOf(cat, ids)) <=>
                   \E b \in ids : \E row \in Found(cat, "dashboard", b) :
                     \E q \in Elements(row.widgets) \ {None} : x = Read("query", q)
      <3>1. \A q : q \in QueriesOf(cat, ids) <=>
                     \E b \in ids : \E row \in Found(cat, "dashboard", b) :
                       q \in Elements(row.widgets) \ {None}
        BY HereFound DEF QueriesOf
      <3>2. QED
        BY <3>1 DEF QueryTasks
    <2>4. \A x : x \in NeedsOf(cat, DashboardTasks(ids)) <=>
                   x \in QueryTasks(QueriesOf(cat, ids))
      BY <2>1, <2>2, <2>3
    <2>5. QED
      BY <2>4
  <1>5. NeedsOf(cat, {}) = {}
    BY DEF NeedsOf
  <1>6. \A a, b : DatasetsOf(cat, a \union b) = DatasetsOf(cat, a) \union DatasetsOf(cat, b)
    BY HereFound DEF DatasetsOf
  <1>7. \A a, b : KeysOf(cat, a \union b) = KeysOf(cat, a) \union KeysOf(cat, b)
    BY HereFound DEF KeysOf
  <1>8. QED
    BY <1>1, <1>2, <1>3, <1>4, <1>5, <1>6, <1>7

LEMMA NeedsOfJoint ==
  ASSUME NEW cat, NEW set, NEW a, NEW b, IsUnion(set, a, b)
  PROVE  IsUnion(NeedsOf(cat, set), NeedsOf(cat, a), NeedsOf(cat, b))
  BY DEF IsUnion, NeedsOf

(* The tasks of a definition, by table.                                    *)
LEMMA ReachedByTable ==
  ASSUME NEW cat, CatalogOK(cat), NEW d \in Definitions
  PROVE  LET boards == ReachedDashboards(cat, d)
             queries == ReachedQueries(cat, d)
             datasets == DatasetsOf(cat, queries)
         IN Reached(cat, {d}) =
              {d} \union DashboardTasks(boards) \union QueryTasks(queries)
              \union DatasetTasks(datasets) \union MappingTasks(KeysOf(cat, datasets))
  <1> DEFINE N(S) == NeedsOf(cat, S)
             DS(Q) == DatasetsOf(cat, Q)
             KS(S) == KeysOf(cat, S)
             boards == ReachedDashboards(cat, d)
             queries == ReachedQueries(cat, d)
             none == {}
             start == {d}
             one == {d.id}
             all == start \union DashboardTasks(boards) \union QueryTasks(queries)
              \union DatasetTasks(DS(queries)) \union MappingTasks(KS(DS(queries)))
  <1>1. Reached(cat, start) = start \union N(start) \union N(N(start))
                              \union N(N(N(start))) \union N(N(N(N(start))))
    BY DEF Reached
  <1>2. /\ \A ids : N(QueryTasks(ids)) = DatasetTasks(DS(ids))
        /\ \A ids : N(DatasetTasks(ids)) = MappingTasks(KS(ids))
        /\ \A keys : N(MappingTasks(keys)) = none
        /\ \A ids : N(DashboardTasks(ids)) = QueryTasks(QueriesOf(cat, ids))
        /\ N(none) = none
    BY NeedsByTable
  <1>3. \A table : /\ Here(cat, table, {}) = {}
                   /\ \A id : Here(cat, table, {id}) = Found(cat, table, id)
    <2>1. \A table : Here(cat, table, {}) = {}
      BY DEF Here
    <2>2. QED
      BY <2>1, HereFound
  <1>4. CASE d.table = "query"
    <2>1. d = Read("query", d.id)
      BY <1>4, AskedIsTask, TaskTables
    <2>2. boards = none
      BY <1>4 DEF ReachedDashboards
    <2>3. queries = one
      <3>1. Here(cat, "dashboard", boards) = {}
        BY <1>3, <2>2
      <3>2. queries = one \union ((UNION {Elements(b.widgets) : b \in Here(cat, "dashboard", boards)}) \ {None})
        BY <1>4 DEF ReachedQueries
      <3>3. QED
        BY <3>1, <3>2
    <2>4. start = QueryTasks(one) /\ DashboardTasks(none) = none
      BY <2>1 DEF QueryTasks, DashboardTasks
    <2> HIDE DEF N, DS, KS, boards, queries, none, start, one
    <2>5. N(start) = DatasetTasks(DS(one))
      BY <1>2, <2>4
    <2>6. N(N(start)) = MappingTasks(KS(DS(one)))
      BY <1>2, <2>5
    <2>7. N(N(N(start))) = none
      BY <1>2, <2>6
    <2>8. N(N(N(N(start)))) = none
      BY <1>2, <2>7
    <2>9. Reached(cat, start) = start \union DatasetTasks(DS(one))
                                      \union MappingTasks(KS(DS(one)))
      BY <1>1, <2>5, <2>6, <2>7, <2>8 DEF none
    <2>10. all = start \union DatasetTasks(DS(one)) \union MappingTasks(KS(DS(one)))
      <3>1. /\ QueryTasks(queries) = start /\ DashboardTasks(boards) = none
            /\ DS(queries) = DS(one)
        BY <2>2, <2>3, <2>4
      <3>2. QED
        BY <3>1 DEF none
    <2>11. QED
      BY <2>9, <2>10 DEF boards, queries, DS, KS, start
  <1>5. CASE d.table = "dashboard"
    <2>1. d = Read("dashboard", d.id)
      BY <1>5, AskedIsTask, TaskTables
    <2>2. boards = one
      BY <1>5 DEF ReachedDashboards
    <2>3. queries = QueriesOf(cat, one)
      <3>1. queries = (UNION {Elements(b.widgets) : b \in Here(cat, "dashboard", boards)}) \ {None}
        BY <1>5 DEF ReachedQueries
      <3> HIDE DEF one, boards
      <3>2. QED
        BY <2>2, <3>1 DEF QueriesOf
    <2>4. start = DashboardTasks(one)
      BY <2>1 DEF DashboardTasks
    <2> HIDE DEF N, DS, KS, boards, queries, none, start, one
    <2>5. N(start) = QueryTasks(queries)
      BY <1>2, <2>3, <2>4
    <2>6. N(N(start)) = DatasetTasks(DS(queries))
      BY <1>2, <2>5
    <2>7. N(N(N(start))) = MappingTasks(KS(DS(queries)))
      BY <1>2, <2>6
    <2>8. N(N(N(N(start)))) = none
      BY <1>2, <2>7
    <2>9. DashboardTasks(boards) = start
      BY <2>2, <2>4
    <2>10. Reached(cat, start) = all
      BY <1>1, <2>5, <2>6, <2>7, <2>8, <2>9 DEF none
    <2>11. QED
      BY <2>10 DEF boards, queries, DS, KS, start
  <1>6. CASE d.table = "report"
    <2> DEFINE own == UNION {ReportQueries(r) : r \in Found(cat, "report", d.id)}
               inner == QueriesOf(cat, boards)
    <2>1. d = Read("report", d.id)
      BY <1>6, AskedIsTask, TaskTables
    <2>2. boards = UNION {ReportDashboards(r) : r \in Found(cat, "report", d.id)}
      <3>1. boards = UNION {({r.dashboard} \union
               {b.dashboard : b \in {c \in Elements(r.blocks) : c.query = None}})
              \ {None} : r \in Here(cat, "report", {d.id})}
        BY <1>6 DEF ReachedDashboards
      <3>2. boards = UNION {ReportDashboards(r) : r \in Here(cat, "report", {d.id})}
        BY <3>1 DEF ReportDashboards
      <3>3. Here(cat, "report", {d.id}) = Found(cat, "report", d.id)
        BY <1>3
      <3> HIDE DEF boards
      <3>4. QED
        BY <3>2, <3>3
    <2>3. IsUnion(queries, inner, own)
      <3>1. queries = inner \union UNION {ReportQueries(r) : r \in Here(cat, "report", {d.id})}
        BY <1>6 DEF ReachedQueries, QueriesOf, ReportQueries
      <3>2. Here(cat, "report", {d.id}) = Found(cat, "report", d.id)
        BY <1>3
      <3> HIDE DEF queries, inner
      <3>3. QED
        BY <3>1, <3>2 DEF IsUnion
    <2> DEFINE first == QueryTasks(own) \union DashboardTasks(boards)
    <2>4. N(start) = first
      <3>1. N(start) = Needs(cat, d)
        BY DEF NeedsOf
      <3>2. \A x : x \in Needs(cat, d) <=>
               \E r \in Found(cat, "report", d.id) :
                  \/ \E q \in ReportQueries(r) : x = Read("query", q)
                  \/ \E b \in ReportDashboards(r) : x = Read("dashboard", b)
        BY <1>6 DEF Needs, FoundAt
      <3> HIDE DEF boards
      <3>3. \A x : x \in DashboardTasks(boards) <=>
               \E r \in Found(cat, "report", d.id) :
                  \E b \in ReportDashboards(r) : x = Read("dashboard", b)
        BY <2>2 DEF DashboardTasks
      <3>4. \A x : x \in QueryTasks(own) <=>
               \E r \in Found(cat, "report", d.id) :
                  \E q \in ReportQueries(r) : x = Read("query", q)
        BY DEF QueryTasks
      <3> HIDE DEF own
      <3>5. QED
        BY <3>1, <3>2, <3>3, <3>4
    <2> DEFINE second == DatasetTasks(DS(own)) \union QueryTasks(inner)
               third == MappingTasks(KS(DS(own))) \union DatasetTasks(DS(inner))
               fourth == MappingTasks(KS(DS(inner)))
    <2>5. /\ IsUnion(first, QueryTasks(own), DashboardTasks(boards))
          /\ IsUnion(second, DatasetTasks(DS(own)), QueryTasks(inner))
          /\ IsUnion(third, MappingTasks(KS(DS(own))), DatasetTasks(DS(inner)))
      BY DEF IsUnion
    <2>6. \A set, a, b : IsUnion(set, a, b) => IsUnion(N(set), N(a), N(b))
      BY NeedsOfJoint
    <2>7. \A ids : N(DashboardTasks(ids)) = QueryTasks(QueriesOf(cat, ids))
      BY <1>2
    <2>8. N(DashboardTasks(boards)) = QueryTasks(inner)
      BY <2>7
    <2> HIDE DEF N, DS, KS, boards, queries, own, inner, first, second, third, fourth,
                 start, none, one
    <2>9. N(N(start)) = second
      <3>1. IsUnion(N(first), DatasetTasks(DS(own)), QueryTasks(inner))
        BY <1>2, <2>5, <2>6, <2>8
      <3>2. N(first) = second
        BY <2>5, <3>1 DEF IsUnion
      <3>3. QED
        BY <2>4, <3>2
    <2>10. N(N(N(start))) = third
      <3>1. IsUnion(N(second), MappingTasks(KS(DS(own))), DatasetTasks(DS(inner)))
        BY <1>2, <2>5, <2>6
      <3>2. N(second) = third
        BY <2>5, <3>1 DEF IsUnion
      <3>3. QED
        BY <2>9, <3>2
    <2>11. N(N(N(N(start)))) = fourth
      <3>1. IsUnion(N(third), none, fourth)
        BY <1>2, <2>5, <2>6 DEF fourth
      <3>2. N(third) = fourth
        BY <3>1 DEF IsUnion, none
      <3>3. QED
        BY <2>10, <3>2
    <2>12. /\ \A x : x \in QueryTasks(queries) <=> x \in QueryTasks(inner) \/ x \in QueryTasks(own)
           /\ \A x : x \in DatasetTasks(DS(queries)) <=>
                 x \in DatasetTasks(DS(inner)) \/ x \in DatasetTasks(DS(own))
           /\ \A x : x \in MappingTasks(KS(DS(queries))) <=>
                 x \in MappingTasks(KS(DS(inner))) \/ x \in MappingTasks(KS(DS(own)))
      <3>1. \A q : q \in queries <=> q \in inner \/ q \in own
        BY <2>3 DEF IsUnion
      <3>2. \A x : x \in DS(queries) <=> x \in DS(inner) \/ x \in DS(own)
        BY <3>1, HereFound DEF DS, DatasetsOf
      <3>3. \A x : x \in KS(DS(queries)) <=> x \in KS(DS(inner)) \/ x \in KS(DS(own))
        BY <3>2, HereFound DEF KS, KeysOf
      <3>4. QED
        BY <3>1, <3>2, <3>3 DEF QueryTasks, DatasetTasks, MappingTasks
    <2>13. Reached(cat, start) = all
      <3>1. Reached(cat, start) = start \union first \union second \union third \union fourth
        BY <1>1, <2>4, <2>9, <2>10, <2>11
      <3>2. /\ \A x : x \in first <=> x \in QueryTasks(own) \/ x \in DashboardTasks(boards)
            /\ \A x : x \in second <=> x \in DatasetTasks(DS(own)) \/ x \in QueryTasks(inner)
            /\ \A x : x \in third <=> x \in MappingTasks(KS(DS(own)))
                                    \/ x \in DatasetTasks(DS(inner))
            /\ \A x : x \in fourth <=> x \in MappingTasks(KS(DS(inner)))
        BY <2>5 DEF IsUnion, fourth
      <3>3. QED
        BY <2>12, <3>1, <3>2
    <2>14. QED
      BY <2>13 DEF boards, queries, DS, KS, start
  <1>7. QED
    BY <1>4, <1>5, <1>6 DEF Definitions, Read

(* The codes of a task, one by one.                                        *)
LEMMA OwnCodes ==
  ASSUME NEW cat, NEW t \in Task
  PROVE  \A code : code \in Own(cat, t) <=>
    \/ /\ t.table = "query"
       /\ \/ code = "query_definition_not_found" /\ FoundAt(cat, t) = {}
          \/ code = "query_definition_not_active" /\ \E q \in FoundAt(cat, t) : ~q.active
    \/ /\ t.table = "dataset"
       /\ \/ code = "dataset_not_found" /\ FoundAt(cat, t) = {}
          \/ code = "dataset_not_active" /\ \E d \in FoundAt(cat, t) : ~d.active
    \/ /\ t.table = "mapping"
       /\ \/ code = "field_mappings_missing" /\ FoundMappings(cat, t.id) = {}
          \/ /\ code = "field_mappings_incomplete"
             /\ \E m \in FoundMappings(cat, t.id) : ~cat.mapping[m].active
    \/ /\ t.table = "dashboard"
       /\ \/ code = "dashboard_definition_not_found" /\ FoundAt(cat, t) = {}
          \/ /\ code = "dashboard_widgets_missing"
             /\ \E b \in FoundAt(cat, t) : b.widgets = <<>>
          \/ /\ code = "dashboard_has_no_resolvable_queries"
             /\ \E b \in FoundAt(cat, t) :
                  b.widgets # <<>> /\ Elements(b.widgets) \subseteq {None}
          \/ /\ code = "dashboard_widget_query_missing"
             /\ \E b \in FoundAt(cat, t) : None \in Elements(b.widgets)
    \/ /\ t.table = "report"
       /\ \/ code = "report_definition_not_found" /\ FoundAt(cat, t) = {}
          \/ /\ code = "report_has_no_resolvable_reference"
             /\ \E r \in FoundAt(cat, t) : ReportQueries(r) = {} /\ ReportDashboards(r) = {}
          \/ /\ code = "report_block_reference_missing"
             /\ \E r \in FoundAt(cat, t) : \E b \in Elements(r.blocks) :
                  b.query = None /\ b.dashboard = None
  <1>1. CASE t.table = "query"
    BY <1>1 DEF Own, Code
  <1>2. CASE t.table = "dataset"
    BY <1>2 DEF Own, Code
  <1>3. CASE t.table = "mapping"
    BY <1>3 DEF Own, Code
  <1>4. CASE t.table = "dashboard"
    BY <1>4 DEF Own, Code
  <1>5. CASE t.table = "report"
    BY <1>5 DEF Own, Code
  <1>6. QED
    BY <1>1, <1>2, <1>3, <1>4, <1>5, TaskTables

LEMMA PageMembers ==
  ASSUME NEW cat, NEW key, NEW m \in Matching(cat, key)
  PROVE  m \in FoundMappings(cat, key) <=>
           Cardinality({n \in Matching(cat, key) : n >= m}) <= MappingPage
  <1> DEFINE matching == Matching(cat, key)
             newer == {n \in matching : n > m}
             upto == {n \in matching : n >= m}
  <1>1. matching \in SUBSET MappingIds
    BY DEF Matching
  <1>2. matching \in SUBSET Nat /\ IsFiniteSet(matching) /\ m \in matching /\ m \in Nat
    BY <1>1, MappingsAssumption, FS_Subset
  <1>3. m \in FoundMappings(cat, key) <=> Cardinality(newer) < MappingPage
    BY <1>2, MappingsOfKey
  <1> HIDE DEF matching
  <1>4. IsFiniteSet(newer) /\ newer \in SUBSET matching
    BY <1>2, FS_Subset
  <1>5. upto = newer \union {m} /\ m \notin newer
    <2>1. \A n \in matching : n >= m <=> (n > m \/ n = m)
      BY <1>2
    <2>2. ~(m > m)
      BY <1>2
    <2>3. QED
      BY <1>2, <2>1, <2>2
  <1> HIDE DEF newer, upto
  <1>6. Cardinality(upto) = Cardinality(newer) + 1 /\ Cardinality(newer) \in Nat
    BY <1>4, <1>5, FS_AddElement, FS_CardinalityType
  <1>7. Cardinality(newer) < MappingPage <=> Cardinality(upto) <= MappingPage
    BY <1>6, MappingsAssumption
  <1>8. QED
    BY <1>3, <1>7 DEF upto, matching

(* What a definition reaches is of the right kind.                         *)
LEMMA ReachedKinds ==
  ASSUME NEW cat, CatalogOK(cat), NEW d \in Definitions
  PROVE  /\ ReachedDashboards(cat, d) \subseteq DashboardIds
         /\ ReachedQueries(cat, d) \subseteq QueryIds
         /\ DatasetsOf(cat, ReachedQueries(cat, d)) \subseteq DatasetIds
         /\ KeysOf(cat, DatasetsOf(cat, ReachedQueries(cat, d))) \subseteq Keys
  <1> DEFINE boards == ReachedDashboards(cat, d)
             queries == ReachedQueries(cat, d)
  <1>1. \/ d.table = "query" /\ d.id \in QueryIds
        \/ d.table = "dashboard" /\ d.id \in DashboardIds
        \/ d.table = "report" /\ d.id \in ReportIds
    BY DEF Definitions, Read
  <1>2. ASSUME NEW r \in Here(cat, "report", {d.id}), d.table = "report"
        PROVE  ReportQueries(r) \subseteq QueryIds /\ ReportDashboards(r) \subseteq DashboardIds
    <2>1. r \in Found(cat, "report", d.id) /\ d.id \in ReportIds
      BY <1>1, <1>2, HereFound
    <2>2. r \in ReportRow
      BY <2>1, FoundRow DEF ReportRow
    <2>3. QED
      BY <2>2, ReportReadsList
  <1>3. boards \subseteq DashboardIds
    <2>1. CASE d.table = "report"
      <3>1. \A b : b \in boards <=> \E r \in Here(cat, "report", {d.id}) : b \in ReportDashboards(r)
        BY <2>1 DEF ReachedDashboards, ReportDashboards
      <3>2. QED
        BY <1>2, <2>1, <3>1
    <2>2. QED
      BY <1>1, <2>1 DEF ReachedDashboards
  <1>4. QueriesOf(cat, boards) \subseteq QueryIds
    <2>1. ASSUME NEW b \in boards, NEW row \in Found(cat, "dashboard", b)
          PROVE  Elements(row.widgets) \ {None} \subseteq QueryIds
      <3>1. row.widgets \in Seq(OptionalQuery)
        BY <1>3, <2>1, FoundRow, WidgetsAssumption
      <3>2. Elements(row.widgets) \subseteq OptionalQuery
        BY <3>1, ListElements
      <3>3. QED
        BY <3>2 DEF OptionalQuery
    <2>2. QED
      BY <2>1, HereFound DEF QueriesOf
  <1>5. queries \subseteq QueryIds
    <2>1. \A q : q \in queries <=>
             \/ d.table = "query" /\ q = d.id
             \/ q \in QueriesOf(cat, boards)
             \/ d.table = "report" /\ \E r \in Here(cat, "report", {d.id}) : q \in ReportQueries(r)
      BY DEF ReachedQueries, QueriesOf, ReportQueries
    <2>2. QED
      BY <1>1, <1>2, <1>4, <2>1
  <1> HIDE DEF boards, queries
  <1>6. DatasetsOf(cat, queries) \subseteq DatasetIds
    BY <1>5, HereFound, FoundRow DEF DatasetsOf
  <1>7. KeysOf(cat, DatasetsOf(cat, queries)) \subseteq Keys
    BY <1>6, HereFound, FoundRow DEF KeysOf
  <1>8. QED
    BY <1>3, <1>5, <1>6, <1>7 DEF boards, queries

(* The codes of all tasks of a table, one by one.                          *)
LEMMA CodesOfTasks ==
  ASSUME NEW cat, CatalogOK(cat), NEW code
  PROVE  /\ \A ids \in SUBSET QueryIds :
              (\E t \in QueryTasks(ids) : code \in Own(cat, t)) <=>
                \/ code = "query_definition_not_found" /\ Gone(cat, "query", ids)
                \/ code = "query_definition_not_active"
                   /\ \E q \in Here(cat, "query", ids) : ~q.active
         /\ \A ids \in SUBSET DatasetIds :
              (\E t \in DatasetTasks(ids) : code \in Own(cat, t)) <=>
                \/ code = "dataset_not_found" /\ Gone(cat, "dataset", ids)
                \/ code = "dataset_not_active"
                   /\ \E s \in Here(cat, "dataset", ids) : ~s.active
         /\ \A keys \in SUBSET Keys :
              (\E t \in MappingTasks(keys) : code \in Own(cat, t)) <=>
                \/ code = "field_mappings_missing"
                   /\ \E k \in keys : FoundMappings(cat, k) = {}
                \/ code = "field_mappings_incomplete"
                   /\ \E k \in keys : \E m \in FoundMappings(cat, k) : ~cat.mapping[m].active
         /\ \A ids \in SUBSET DashboardIds :
              (\E t \in DashboardTasks(ids) : code \in Own(cat, t)) <=>
                \/ code = "dashboard_definition_not_found" /\ Gone(cat, "dashboard", ids)
                \/ code = "dashboard_widgets_missing"
                   /\ \E b \in Here(cat, "dashboard", ids) : b.widgets = <<>>
                \/ code = "dashboard_has_no_resolvable_queries"
                   /\ \E b \in Here(cat, "dashboard", ids) :
                        b.widgets # <<>> /\ Elements(b.widgets) = {None}
                \/ code = "dashboard_widget_query_missing"
                   /\ \E b \in Here(cat, "dashboard", ids) : None \in Elements(b.widgets)
  <1>1. ASSUME NEW ids \in SUBSET QueryIds
        PROVE  (\E t \in QueryTasks(ids) : code \in Own(cat, t)) <=>
                 \/ code = "query_definition_not_found" /\ Gone(cat, "query", ids)
                 \/ code = "query_definition_not_active"
                    /\ \E q \in Here(cat, "query", ids) : ~q.active
    <2>1. ASSUME NEW q \in ids
          PROVE  code \in Own(cat, Read("query", q)) <=>
                   \/ code = "query_definition_not_found" /\ Found(cat, "query", q) = {}
                   \/ /\ code = "query_definition_not_active"
                      /\ \E row \in Found(cat, "query", q) : ~row.active
      BY DEF Own, Read, FoundAt, Code
    <2>2. (\E t \in QueryTasks(ids) : code \in Own(cat, t)) <=>
            \E q \in ids : code \in Own(cat, Read("query", q))
      BY DEF QueryTasks
    <2>3. QED
      BY <2>1, <2>2, HereFound
  <1>2. ASSUME NEW ids \in SUBSET DatasetIds
        PROVE  (\E t \in DatasetTasks(ids) : code \in Own(cat, t)) <=>
                 \/ code = "dataset_not_found" /\ Gone(cat, "dataset", ids)
                 \/ code = "dataset_not_active"
                    /\ \E s \in Here(cat, "dataset", ids) : ~s.active
    <2>1. ASSUME NEW s \in ids
          PROVE  code \in Own(cat, Read("dataset", s)) <=>
                   \/ code = "dataset_not_found" /\ Found(cat, "dataset", s) = {}
                   \/ /\ code = "dataset_not_active"
                      /\ \E row \in Found(cat, "dataset", s) : ~row.active
      BY DEF Own, Read, FoundAt, Code
    <2>2. (\E t \in DatasetTasks(ids) : code \in Own(cat, t)) <=>
            \E s \in ids : code \in Own(cat, Read("dataset", s))
      BY DEF DatasetTasks
    <2>3. QED
      BY <2>1, <2>2, HereFound
  <1>3. ASSUME NEW keys \in SUBSET Keys
        PROVE  (\E t \in MappingTasks(keys) : code \in Own(cat, t)) <=>
                 \/ code = "field_mappings_missing"
                    /\ \E k \in keys : FoundMappings(cat, k) = {}
                 \/ code = "field_mappings_incomplete"
                    /\ \E k \in keys : \E m \in FoundMappings(cat, k) : ~cat.mapping[m].active
    <2>1. ASSUME NEW k \in keys
          PROVE  code \in Own(cat, Read("mapping", k)) <=>
                   \/ code = "field_mappings_missing" /\ FoundMappings(cat, k) = {}
                   \/ /\ code = "field_mappings_incomplete"
                      /\ \E m \in FoundMappings(cat, k) : ~cat.mapping[m].active
      BY DEF Own, Read, Code
    <2>2. (\E t \in MappingTasks(keys) : code \in Own(cat, t)) <=>
            \E k \in keys : code \in Own(cat, Read("mapping", k))
      BY DEF MappingTasks
    <2>3. QED
      BY <2>1, <2>2
  <1>4. ASSUME NEW ids \in SUBSET DashboardIds
        PROVE  (\E t \in DashboardTasks(ids) : code \in Own(cat, t)) <=>
                 \/ code = "dashboard_definition_not_found" /\ Gone(cat, "dashboard", ids)
                 \/ code = "dashboard_widgets_missing"
                    /\ \E b \in Here(cat, "dashboard", ids) : b.widgets = <<>>
                 \/ code = "dashboard_has_no_resolvable_queries"
                    /\ \E b \in Here(cat, "dashboard", ids) :
                         b.widgets # <<>> /\ Elements(b.widgets) = {None}
                 \/ code = "dashboard_widget_query_missing"
                    /\ \E b \in Here(cat, "dashboard", ids) : None \in Elements(b.widgets)
    <2>1. ASSUME NEW b \in ids
          PROVE  code \in Own(cat, Read("dashboard", b)) <=>
                   \/ code = "dashboard_definition_not_found" /\ Found(cat, "dashboard", b) = {}
                   \/ /\ code = "dashboard_widgets_missing"
                      /\ \E row \in Found(cat, "dashboard", b) : row.widgets = <<>>
                   \/ /\ code = "dashboard_has_no_resolvable_queries"
                      /\ \E row \in Found(cat, "dashboard", b) :
                           row.widgets # <<>> /\ Elements(row.widgets) \subseteq {None}
                   \/ /\ code = "dashboard_widget_query_missing"
                      /\ \E row \in Found(cat, "dashboard", b) : None \in Elements(row.widgets)
      BY DEF Own, Read, FoundAt, Code
    <2>2. (\E t \in DashboardTasks(ids) : code \in Own(cat, t)) <=>
            \E b \in ids : code \in Own(cat, Read("dashboard", b))
      BY DEF DashboardTasks
    <2>3. ASSUME NEW row \in Here(cat, "dashboard", ids), row.widgets # <<>>
          PROVE  Elements(row.widgets) \subseteq {None} <=> Elements(row.widgets) = {None}
      <3>1. row.widgets \in Seq(OptionalQuery)
        BY HereFound, FoundRow, WidgetsAssumption
      <3>2. Elements(row.widgets) # {}
        BY <2>3, <3>1, ListElements
      <3>3. QED
        BY <3>2
    <2>4. /\ \A row : row \in Here(cat, "dashboard", ids) <=>
                       \E b \in ids : row \in Found(cat, "dashboard", b)
          /\ Gone(cat, "dashboard", ids) <=> \E b \in ids : Found(cat, "dashboard", b) = {}
      BY HereFound
    <2>5. (\E b \in ids : \E row \in Found(cat, "dashboard", b) : row.widgets = <<>>)
             <=> \E b \in Here(cat, "dashboard", ids) : b.widgets = <<>>
      BY <2>4, Zenon
    <2>6. (\E b \in ids : \E row \in Found(cat, "dashboard", b) :
             None \in Elements(row.widgets))
             <=> \E b \in Here(cat, "dashboard", ids) : None \in Elements(b.widgets)
      BY <2>4, Zenon
    <2>7. (\E b \in ids : \E row \in Found(cat, "dashboard", b) :
             row.widgets # <<>> /\ Elements(row.widgets) \subseteq {None})
            <=> \E b \in Here(cat, "dashboard", ids) :
                  b.widgets # <<>> /\ Elements(b.widgets) = {None}
      <3>1. (\E b \in ids : \E row \in Found(cat, "dashboard", b) :
               row.widgets # <<>> /\ Elements(row.widgets) \subseteq {None})
              <=> \E b \in Here(cat, "dashboard", ids) :
                    b.widgets # <<>> /\ Elements(b.widgets) \subseteq {None}
        BY <2>4, Zenon
      <3>2. QED
        BY <2>3, <3>1, Zenon
    <2>8. (\E b \in ids : code \in Own(cat, Read("dashboard", b))) <=>
            \/ code = "dashboard_definition_not_found"
               /\ \E b \in ids : Found(cat, "dashboard", b) = {}
            \/ code = "dashboard_widgets_missing"
               /\ \E b \in ids : \E row \in Found(cat, "dashboard", b) : row.widgets = <<>>
            \/ code = "dashboard_has_no_resolvable_queries"
               /\ \E b \in ids : \E row \in Found(cat, "dashboard", b) :
                    row.widgets # <<>> /\ Elements(row.widgets) \subseteq {None}
            \/ code = "dashboard_widget_query_missing"
               /\ \E b \in ids : \E row \in Found(cat, "dashboard", b) :
                    None \in Elements(row.widgets)
      BY <2>1
    <2>9. QED
      BY <2>2, <2>4, <2>5, <2>6, <2>7, <2>8, Zenon
  <1>5. QED
    BY <1>1, <1>2, <1>3, <1>4

(* The codes of the report that is evaluated, if it is one.                *)
CodeOfReport(cat, d, code) ==
  /\ d.table = "report"
  /\ \/ code = "report_definition_not_found" /\ Gone(cat, "report", {d.id})
     \/ /\ code = "report_has_no_resolvable_reference"
        /\ ~Gone(cat, "report", {d.id})
        /\ ReachedDashboards(cat, d) = {} /\ ReachedQueries(cat, d) = {}
     \/ /\ code = "report_block_reference_missing"
        /\ \E r \in Here(cat, "report", {d.id}) :
             \E b \in Elements(r.blocks) : b.query = None /\ b.dashboard = None

LEMMA CodesOfReport ==
  ASSUME NEW cat, CatalogOK(cat), NEW d \in Definitions, d.table = "report", NEW code
  PROVE  code \in Own(cat, d) <=> CodeOfReport(cat, d, code)
  <1> DEFINE found == Found(cat, "report", d.id)
             boards == ReachedDashboards(cat, d)
             queries == ReachedQueries(cat, d)
  <1>1. code \in Own(cat, d) <=>
          \/ code = "report_definition_not_found" /\ found = {}
          \/ /\ code = "report_has_no_resolvable_reference"
             /\ \E r \in found : ReportQueries(r) = {} /\ ReportDashboards(r) = {}
          \/ /\ code = "report_block_reference_missing"
             /\ \E r \in found : \E b \in Elements(r.blocks) :
                  b.query = None /\ b.dashboard = None
    BY OwnCodes DEF FoundAt, Task
  <1>2. Here(cat, "report", {d.id}) = found
        /\ (Gone(cat, "report", {d.id}) <=> found = {})
    BY HereFound DEF Gone
  <1>3. \A r, s \in found : r = s
    BY DEF Found
  <1>4. \A b : b \in boards <=> \E r \in found : b \in ReportDashboards(r)
    BY <1>2 DEF ReachedDashboards, ReportDashboards
  <1>5. \A q : q \in queries <=>
          q \in QueriesOf(cat, boards) \/ \E r \in found : q \in ReportQueries(r)
    BY <1>2 DEF ReachedQueries, QueriesOf, ReportQueries
  <1>6. boards = {} => QueriesOf(cat, boards) = {}
    BY HereFound DEF QueriesOf
  <1> HIDE DEF found, boards, queries
  <1>7. (\E r \in found : ReportQueries(r) = {} /\ ReportDashboards(r) = {})
          <=> found # {} /\ boards = {} /\ queries = {}
    <2>1. ASSUME NEW r \in found, ReportQueries(r) = {}, ReportDashboards(r) = {}
          PROVE  boards = {} /\ queries = {}
      <3>1. boards = {}
        BY <1>3, <1>4, <2>1
      <3>2. QED
        BY <1>3, <1>5, <1>6, <2>1, <3>1
    <2>2. ASSUME NEW r \in found, boards = {}, queries = {}
          PROVE  ReportQueries(r) = {} /\ ReportDashboards(r) = {}
      BY <1>4, <1>5, <2>2
    <2>3. QED
      BY <2>1, <2>2
  <1>8. CodeOfReport(cat, d, code) <=>
          \/ code = "report_definition_not_found" /\ found = {}
          \/ /\ code = "report_has_no_resolvable_reference"
             /\ found # {} /\ boards = {} /\ queries = {}
          \/ /\ code = "report_block_reference_missing"
             /\ \E r \in found : \E b \in Elements(r.blocks) :
                  b.query = None /\ b.dashboard = None
    BY <1>2 DEF CodeOfReport, boards, queries
  <1>9. QED
    BY <1>1, <1>7, <1>8

(* The walk finds, code by code, what the tasks of each table give.        *)
LEMMA FindsByTable ==
  ASSUME NEW cat, CatalogOK(cat), NEW d \in Definitions, NEW code
  PROVE  LET boards == ReachedDashboards(cat, d)
             queries == ReachedQueries(cat, d)
             datasets == DatasetsOf(cat, queries)
         IN code \in Finds(cat, {d}) <=>
              \/ CodeOfReport(cat, d, code)
              \/ \E t \in DashboardTasks(boards) : code \in Own(cat, t)
              \/ \E t \in QueryTasks(queries) : code \in Own(cat, t)
              \/ \E t \in DatasetTasks(datasets) : code \in Own(cat, t)
              \/ \E t \in MappingTasks(KeysOf(cat, datasets)) : code \in Own(cat, t)
  <1> DEFINE boards == ReachedDashboards(cat, d)
             queries == ReachedQueries(cat, d)
             datasets == DatasetsOf(cat, queries)
             keys == KeysOf(cat, datasets)
             start == {d}
  <1>1. Reached(cat, start) =
          start \union DashboardTasks(boards) \union QueryTasks(queries)
          \union DatasetTasks(datasets) \union MappingTasks(keys)
    BY ReachedByTable
  <1>2. d.table # "report" => d \in DashboardTasks(boards) \union QueryTasks(queries)
    <2>1. CASE d.table = "dashboard"
      BY <2>1 DEF ReachedDashboards, DashboardTasks, Definitions, Read
    <2>2. CASE d.table = "query"
      BY <2>2 DEF ReachedQueries, QueryTasks, Definitions, Read
    <2>3. QED
      BY <2>1, <2>2 DEF Definitions, Read
  <1>3. d.table = "report" => (code \in Own(cat, d) <=> CodeOfReport(cat, d, code))
    BY CodesOfReport
  <1>4. d.table # "report" => ~CodeOfReport(cat, d, code)
    BY DEF CodeOfReport
  <1>5. d \in start /\ \A t \in start : t = d
    OBVIOUS
  <1> HIDE DEF boards, queries, datasets, keys, start
  <1>6. code \in Finds(cat, start) <=> \E t \in Reached(cat, start) : code \in Own(cat, t)
    BY DEF Finds
  <1>7. code \in Finds(cat, start) <=>
              \/ CodeOfReport(cat, d, code)
              \/ \E t \in DashboardTasks(boards) : code \in Own(cat, t)
              \/ \E t \in QueryTasks(queries) : code \in Own(cat, t)
              \/ \E t \in DatasetTasks(datasets) : code \in Own(cat, t)
              \/ \E t \in MappingTasks(keys) : code \in Own(cat, t)
    BY <1>1, <1>2, <1>3, <1>4, <1>5, <1>6
  <1>8. QED
    BY <1>7 DEF boards, queries, datasets, keys, start

(* ... and that is what Blocking and Warning say of the catalog.           *)
LEMMA FindsAreCodes ==
  ASSUME NEW cat, CatalogOK(cat), NEW d \in Definitions
  PROVE  /\ Finds(cat, {d}) = Blocking(cat, d) \union Warning(cat, d)
         /\ Blocking(cat, d) \subseteq BlockerCodes
         /\ Warning(cat, d) \subseteq WarningCodes
         /\ BlockerCodes \intersect WarningCodes = {}
  <1> DEFINE boards == ReachedDashboards(cat, d)
             queries == ReachedQueries(cat, d)
             datasets == DatasetsOf(cat, queries)
             keys == KeysOf(cat, datasets)
             incomplete == \E k \in keys : \E m \in FoundMappings(cat, k) : ~cat.mapping[m].active
             missing == \E k \in keys : FoundMappings(cat, k) = {}
             incomplete2 ==
               LET listed(key) == {m \in MappingIds : Here(cat, "mapping", {m}) # {}
                                         /\ cat.mapping[m].key = key}
               IN \E s \in Here(cat, "dataset", datasets) : \E m \in listed(s.key) :
                   /\ ~cat.mapping[m].active
                   /\ Cardinality({n \in listed(s.key) : n >= m}) <= MappingPage
             missing2 ==
               LET mappings == Here(cat, "mapping", MappingIds)
               IN \E k \in keys : \A m \in mappings : m.key # k
  <1>1. \A k \in keys : FoundMappings(cat, k) = {} <=>
                          \A m \in Here(cat, "mapping", MappingIds) : m.key # k
    <2>1. ASSUME NEW k
          PROVE  Matching(cat, k) = {} <=>
                   \A m \in Here(cat, "mapping", MappingIds) : m.key # k
      BY HereFound DEF Matching
    <2>2. QED
      BY <2>1, MappingsOfKey
  <1>2. missing <=> missing2
    BY <1>1
  <1>3. incomplete <=> incomplete2
    <2>1. ASSUME NEW k
          PROVE  {m \in MappingIds : Here(cat, "mapping", {m}) # {}
                                     /\ cat.mapping[m].key = k} = Matching(cat, k)
      <3>1. ASSUME NEW m \in MappingIds
            PROVE  (Here(cat, "mapping", {m}) # {} /\ cat.mapping[m].key = k)
                     <=> \E row \in Found(cat, "mapping", m) : row.key = k
        <4>1. Here(cat, "mapping", {m}) = Found(cat, "mapping", m)
          BY HereFound
        <4>2. \A row \in Found(cat, "mapping", m) : row = cat.mapping[m]
          BY FoundRow
        <4>3. QED
          BY <4>1, <4>2
      <3>2. QED
        BY <3>1 DEF Matching
    <2>2. incomplete2 <=>
            \E s \in Here(cat, "dataset", datasets) : \E m \in Matching(cat, s.key) :
              /\ ~cat.mapping[m].active
              /\ Cardinality({n \in Matching(cat, s.key) : n >= m}) <= MappingPage
      BY <2>1
    <2>3. ASSUME NEW k
          PROVE  (\E m \in Matching(cat, k) :
                   /\ ~cat.mapping[m].active
                   /\ Cardinality({n \in Matching(cat, k) : n >= m}) <= MappingPage)
                 <=> \E m \in FoundMappings(cat, k) : ~cat.mapping[m].active
      <3>1. FoundMappings(cat, k) \subseteq Matching(cat, k)
        BY MappingsOfKey
      <3>2. \A m \in Matching(cat, k) :
              m \in FoundMappings(cat, k) <=>
                Cardinality({n \in Matching(cat, k) : n >= m}) <= MappingPage
        BY PageMembers
      <3>3. QED
        BY <3>1, <3>2, Zenon
    <2>4. keys = {s.key : s \in Here(cat, "dataset", datasets)}
      BY DEF KeysOf
    <2> HIDE DEF datasets, keys, incomplete2
    <2>5. incomplete2 <=> \E s \in Here(cat, "dataset", datasets) :
                            \E m \in FoundMappings(cat, s.key) : ~cat.mapping[m].active
      BY <2>2, <2>3, Zenon
    <2>6. (\E k \in keys : \E m \in FoundMappings(cat, k) : ~cat.mapping[m].active)
            <=> \E s \in Here(cat, "dataset", datasets) :
                            \E m \in FoundMappings(cat, s.key) : ~cat.mapping[m].active
      BY <2>4
    <2>7. QED
      BY <2>5, <2>6
  <1>4. /\ boards \in SUBSET DashboardIds /\ queries \in SUBSET QueryIds
        /\ datasets \in SUBSET DatasetIds /\ keys \in SUBSET Keys
    BY ReachedKinds
  <1>5. ASSUME NEW code
        PROVE  code \in Blocking(cat, d) <=>
          \/ CodeOfReport(cat, d, code) /\ code # "report_block_reference_missing"
          \/ code = "dashboard_definition_not_found" /\ Gone(cat, "dashboard", boards)
          \/ code = "dashboard_widgets_missing"
             /\ \E b \in Here(cat, "dashboard", boards) : b.widgets = <<>>
          \/ code = "dashboard_has_no_resolvable_queries"
             /\ \E b \in Here(cat, "dashboard", boards) :
                  b.widgets # <<>> /\ Elements(b.widgets) = {None}
          \/ code = "query_definition_not_found" /\ Gone(cat, "query", queries)
          \/ code = "dataset_not_found" /\ Gone(cat, "dataset", datasets)
          \/ code = "field_mappings_missing" /\ missing2
    BY DEF Blocking, Code, CodeOfReport, DatasetsOf, KeysOf
  <1>6. ASSUME NEW code
        PROVE  code \in Warning(cat, d) <=>
          \/ CodeOfReport(cat, d, code) /\ code = "report_block_reference_missing"
          \/ code = "dashboard_widget_query_missing"
             /\ \E b \in Here(cat, "dashboard", boards) : None \in Elements(b.widgets)
          \/ code = "query_definition_not_active"
             /\ \E q \in Here(cat, "query", queries) : ~q.active
          \/ code = "dataset_not_active"
             /\ \E s \in Here(cat, "dataset", datasets) : ~s.active
          \/ code = "field_mappings_incomplete" /\ incomplete2
    BY DEF Warning, Code, CodeOfReport, DatasetsOf
  <1> HIDE DEF boards, queries, datasets, keys, missing, missing2, incomplete, incomplete2
  <1>7. ASSUME NEW code
        PROVE  code \in Finds(cat, {d}) <=>
                 code \in Blocking(cat, d) \/ code \in Warning(cat, d)
    <2>1. code \in Finds(cat, {d}) <=>
              \/ CodeOfReport(cat, d, code)
              \/ \E t \in DashboardTasks(boards) : code \in Own(cat, t)
              \/ \E t \in QueryTasks(queries) : code \in Own(cat, t)
              \/ \E t \in DatasetTasks(datasets) : code \in Own(cat, t)
              \/ \E t \in MappingTasks(keys) : code \in Own(cat, t)
      BY FindsByTable DEF boards, queries, datasets, keys
    <2>2. (\E t \in MappingTasks(keys) : code \in Own(cat, t)) <=>
                \/ code = "field_mappings_missing" /\ missing
                \/ code = "field_mappings_incomplete" /\ incomplete
      BY <1>4, CodesOfTasks DEF missing, incomplete
    <2>3. (\E t \in QueryTasks(queries) : code \in Own(cat, t)) <=>
                \/ code = "query_definition_not_found" /\ Gone(cat, "query", queries)
                \/ code = "query_definition_not_active"
                   /\ \E q \in Here(cat, "query", queries) : ~q.active
      BY <1>4, CodesOfTasks
    <2>4. (\E t \in DatasetTasks(datasets) : code \in Own(cat, t)) <=>
                \/ code = "dataset_not_found" /\ Gone(cat, "dataset", datasets)
                \/ code = "dataset_not_active"
                   /\ \E s \in Here(cat, "dataset", datasets) : ~s.active
      BY <1>4, CodesOfTasks
    <2>5. (\E t \in DashboardTasks(boards) : code \in Own(cat, t)) <=>
                \/ code = "dashboard_definition_not_found" /\ Gone(cat, "dashboard", boards)
                \/ code = "dashboard_widgets_missing"
                   /\ \E b \in Here(cat, "dashboard", boards) : b.widgets = <<>>
                \/ code = "dashboard_has_no_resolvable_queries"
                   /\ \E b \in Here(cat, "dashboard", boards) :
                        b.widgets # <<>> /\ Elements(b.widgets) = {None}
                \/ code = "dashboard_widget_query_missing"
                   /\ \E b \in Here(cat, "dashboard", boards) : None \in Elements(b.widgets)
      BY <1>4, CodesOfTasks
    <2>6. QED
      BY <1>2, <1>3, <1>5, <1>6, <2>1, <2>2, <2>3, <2>4, <2>5, Zenon
  <1>8. Blocking(cat, d) \subseteq BlockerCodes
    BY <1>5 DEF CodeOfReport, BlockerCodes
  <1>9. Warning(cat, d) \subseteq WarningCodes
    BY <1>6 DEF CodeOfReport, WarningCodes
  <1>10. BlockerCodes \intersect WarningCodes = {}
    BY DEF BlockerCodes, WarningCodes
  <1>11. QED
    BY <1>7, <1>8, <1>9, <1>10

LEMMA ClearIsReady ==
  ASSUME NEW cat, CatalogOK(cat), NEW d \in Definitions
  PROVE  Clear(cat, {d}) <=> Blocking(cat, d) = {}
  <1>1. Clear(cat, {d}) <=> Finds(cat, {d}) \intersect BlockerCodes = {}
    BY DEF Clear, Finds
  <1>2. QED
    BY <1>1, FindsAreCodes

(* The invariant gives what the walk promises.                             *)
LEMMA WalkInvMatches == WalkInv => WalkMatchesCatalog /\ GrowthDoesNotMislead
  <1> SUFFICES ASSUME WalkInv
               PROVE  WalkMatchesCatalog /\ GrowthDoesNotMislead
    OBVIOUS
  <1>1. /\ CatalogOK(catalog) /\ CatalogOK(initial) /\ asked \in Definitions
        /\ blockers \subseteq BlockerCodes /\ warnings \subseteq WarningCodes
    BY DEF WalkInv, ReadinessTypeOK
  <1>2. Done => Elements(todo) = {}
    BY DEF Done, Elements
  <1>3. WalkMatchesCatalog
    <2>1. SUFFICES ASSUME Done, edits = 0
                   PROVE  blockers = Blocking(catalog, asked) /\ warnings = Warning(catalog, asked)
      BY DEF WalkMatchesCatalog
    <2>2. blockers \union warnings = Finds(catalog, {asked})
      BY <1>2, <2>1, NothingToFind DEF WalkInv
    <2>3. blockers \union warnings = Blocking(catalog, asked) \union Warning(catalog, asked)
      BY <1>1, <2>2, FindsAreCodes
    <2>4. /\ Blocking(catalog, asked) \subseteq BlockerCodes
          /\ Warning(catalog, asked) \subseteq WarningCodes
          /\ BlockerCodes \intersect WarningCodes = {}
      BY <1>1, FindsAreCodes
    <2>5. QED
      BY <1>1, <2>3, <2>4
  <1>4. GrowthDoesNotMislead
    <2>1. SUFFICES ASSUME Done, ~repointed
                   PROVE  /\ blockers = {} => Blocking(catalog, asked) = {}
                          /\ blockers # {} => Blocking(initial, asked) # {}
      BY DEF GrowthDoesNotMislead
    <2>2. blockers = {} => Clear(catalog, {asked})
      <3>1. Grew(catalog, catalog) /\ Clear(catalog, Elements(todo))
        BY <1>1, <1>2, <2>1, NothingToFind, GrewIsOrder
      <3>2. blockers = {} =>
              \A cat : CatalogOK(cat) /\ Grew(catalog, cat) /\ Clear(cat, Elements(todo))
                        => Clear(cat, {asked})
        BY <2>1 DEF WalkInv
      <3>3. QED
        BY <1>1, <3>1, <3>2, Zenon
    <2>3. Clear(initial, {asked}) => blockers = {}
      BY <2>1 DEF WalkInv
    <2>4. QED
      BY <1>1, <2>2, <2>3, ClearIsReady
  <1>5. QED
    BY <1>3, <1>4

===============================================================================
