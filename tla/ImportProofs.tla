----------------------------- MODULE ImportProofs -----------------------------
(***************************************************************************)
(* What holds of the reading of any file made of any dictionaries: nothing *)
(* is passed over in silence, the pages and rows are those of the file, and*)
(* what comes of them in the form has its types.                           *)
(***************************************************************************)
EXTENDS Import, TLAPS, FiniteSetTheorems, SequenceTheorems, WellFoundedInduction

(***************************************************************************)
(* Sequences by rank: every rank up to the number of elements is taken by  *)
(* one of them.                                                            *)
(***************************************************************************)
Orders(precedes, S) ==
    /\ \A i \in S : <<i, i>> \notin precedes
    /\ \A i, j, k \in S : <<i, j>> \in precedes /\ <<j, k>> \in precedes => <<i, k>> \in precedes
    /\ \A i, j \in S : i # j => <<i, j>> \in precedes \/ <<j, i>> \in precedes

Lower(i, S, precedes) == {j \in S : <<j, i>> \in precedes}

LEMMA RankRises ==
    ASSUME NEW S, IsFiniteSet(S), NEW precedes, Orders(precedes, S),
           NEW i \in S, NEW j \in S, <<i, j>> \in precedes
    PROVE  /\ Cardinality(Lower(i, S, precedes)) \in Nat
           /\ Cardinality(Lower(j, S, precedes)) \in Nat
           /\ Cardinality(Lower(i, S, precedes)) < Cardinality(Lower(j, S, precedes))
<1>1. Lower(i, S, precedes) \subseteq Lower(j, S, precedes)
    BY Zenon DEF Lower, Orders
<1>2. i \in Lower(j, S, precedes) /\ i \notin Lower(i, S, precedes)
    BY Zenon DEF Lower, Orders
<1>3. IsFiniteSet(Lower(j, S, precedes))
    BY FS_Subset, Zenon DEF Lower
<1>4. /\ IsFiniteSet(Lower(i, S, precedes))
      /\ Cardinality(Lower(i, S, precedes)) <= Cardinality(Lower(j, S, precedes))
      /\ Cardinality(Lower(j, S, precedes)) = Cardinality(Lower(i, S, precedes))
            => Lower(j, S, precedes) = Lower(i, S, precedes)
    BY <1>1, <1>3, FS_Subset
<1>5. Cardinality(Lower(i, S, precedes)) \in Nat /\ Cardinality(Lower(j, S, precedes)) \in Nat
    BY <1>3, <1>4, FS_CardinalityType
<1> QED
    BY <1>2, <1>4, <1>5

LEMMA EveryRankTaken ==
    ASSUME NEW S, IsFiniteSet(S), NEW precedes, Orders(precedes, S)
    PROVE  /\ Cardinality(S) \in Nat
           /\ \A i \in S : Cardinality(Lower(i, S, precedes)) \in 0 .. Cardinality(S) - 1
           /\ \A k \in 1 .. Cardinality(S) : \E i \in S : Cardinality(Lower(i, S, precedes)) = k - 1
<1> DEFINE n == Cardinality(S)
           T == 0 .. n - 1
           f == [i \in S |-> Cardinality(Lower(i, S, precedes))]
<1>1. n \in Nat
    BY FS_CardinalityType
<1>2. ASSUME NEW i \in S PROVE Cardinality(Lower(i, S, precedes)) \in T
    <2>1. Lower(i, S, precedes) \subseteq S \ {i}
        BY Zenon DEF Lower, Orders
    <2>2. IsFiniteSet(S \ {i}) /\ Cardinality(S \ {i}) = n - 1
        BY FS_RemoveElement
    <2>3. IsFiniteSet(Lower(i, S, precedes)) /\ Cardinality(Lower(i, S, precedes)) <= n - 1
        BY <2>1, <2>2, FS_Subset
    <2>4. Cardinality(Lower(i, S, precedes)) \in Nat
        BY <2>3, FS_CardinalityType
    <2> QED
        BY <1>1, <2>3, <2>4
<1>3. IsFiniteSet(T) /\ Cardinality(T) = n
    <2>1. n - 1 \in Int /\ 0 \in Int
        BY <1>1
    <2>2. IsFiniteSet(T) /\ Cardinality(T) = IF 0 > n - 1 THEN 0 ELSE (n - 1) - 0 + 1
        BY <2>1, FS_Interval
    <2> QED
        BY <1>1, <2>2
<1>4. f \in [S -> T]
    BY <1>2
<1>5. \A i, j \in S : f[i] = f[j] => i = j
    <2> SUFFICES ASSUME NEW i \in S, NEW j \in S, i # j PROVE f[i] # f[j]
        OBVIOUS
    <2>1. <<i, j>> \in precedes \/ <<j, i>> \in precedes
        BY DEF Orders
    <2> QED
        BY <2>1, RankRises
<1>6. f \in Injection(S, T)
    BY <1>4, <1>5 DEF Injection, IsInjective
<1>7. f \in Surjection(S, T)
    BY <1>3, <1>6, FS_Injection
<1>8. \A k \in T : \E i \in S : f[i] = k
    BY <1>7 DEF Surjection
<1> HIDE DEF f
<1>9. \A k \in 1 .. n : \E i \in S : Cardinality(Lower(i, S, precedes)) = k - 1
    <2> SUFFICES ASSUME NEW k \in 1 .. n PROVE \E i \in S : Cardinality(Lower(i, S, precedes)) = k - 1
        OBVIOUS
    <2>1. k - 1 \in T
        BY <1>1
    <2>2. PICK i \in S : f[i] = k - 1
        BY <1>8, <2>1
    <2> QED
        BY <2>2 DEF f
<1> QED
    BY <1>1, <1>2, <1>9

LEMMA InRanks ==
    ASSUME NEW S, IsFiniteSet(S), NEW precedes, Orders(precedes, S)
    PROVE  LET e == Enumerated(S, precedes)
           IN  /\ Cardinality(S) \in Nat
               /\ DOMAIN e = 1 .. Cardinality(S)
               /\ \A k \in DOMAIN e : e[k] \in S
               /\ \A k, l \in DOMAIN e : k < l => <<e[k], e[l]>> \in precedes
               /\ \A i \in S : \E k \in DOMAIN e : e[k] = i
<1> DEFINE n == Cardinality(S)
           e == Enumerated(S, precedes)
           rank(i) == Cardinality(Lower(i, S, precedes))
<1>1. /\ n \in Nat
      /\ \A i \in S : rank(i) \in 0 .. n - 1
      /\ \A k \in 1 .. n : \E i \in S : rank(i) = k - 1
    BY EveryRankTaken
<1>2. e = [k \in 1 .. n |-> CHOOSE i \in S : rank(i) = k - 1]
    BY DEF Enumerated, Lower
<1>3. \A i, j \in S : <<i, j>> \in precedes => rank(i) < rank(j)
    BY RankRises
<1> HIDE DEF e, rank, n
<1>4. DOMAIN e = 1 .. n
    BY <1>2
<1>5. \A k \in 1 .. n : e[k] \in S /\ rank(e[k]) = k - 1
    BY <1>1, <1>2
<1>6. \A i, j \in S : i = j \/ <<i, j>> \in precedes \/ <<j, i>> \in precedes
    BY Zenon DEF Orders
<1>7. ASSUME NEW k \in 1 .. n, NEW l \in 1 .. n, k < l PROVE <<e[k], e[l]>> \in precedes
    <2>1. rank(e[k]) < rank(e[l]) /\ e[k] \in S /\ e[l] \in S
        BY <1>1, <1>5, <1>7
    <2>2. rank(e[k]) \in Int /\ rank(e[l]) \in Int
        BY <1>1, <1>5
    <2>3. e[k] # e[l] /\ <<e[l], e[k]>> \notin precedes
        BY <1>3, <2>1, <2>2
    <2> QED
        BY <1>6, <2>1, <2>3
<1>8. ASSUME NEW i \in S PROVE \E k \in 1 .. n : e[k] = i
    <2>1. rank(i) \in 0 .. n - 1
        BY <1>1
    <2> DEFINE k == rank(i) + 1
    <2>2. k \in 1 .. n
        BY <1>1, <2>1
    <2>3. rank(e[k]) = rank(i) /\ e[k] \in S
        BY <1>5, <2>1, <2>2
    <2> HIDE DEF k
    <2>4. e[k] = i
        <3>1. ~(rank(e[k]) < rank(i)) /\ ~(rank(i) < rank(e[k]))
            BY <2>1, <2>3
        <3> QED
            BY <1>3, <1>6, <2>3, <3>1
    <2> QED
        BY <2>2, <2>4
<1> QED
    BY <1>1, <1>4, <1>5, <1>7, <1>8 DEF e, n

(***************************************************************************)
(* Lists, and what is in them.                                             *)
(***************************************************************************)
LEMMA ListsAre ==
    ASSUME NEW s, IsList(s)
    PROVE  Len(s) \in Nat /\ DOMAIN s = 1 .. Len(s)
BY DEF IsList

LEMMA AListOf ==
    ASSUME NEW n \in Nat, NEW s, s = [k \in 1 .. n |-> s[k]]
    PROVE  IsList(s) /\ Len(s) = n /\ DOMAIN s = 1 .. n
<1>1. s \in [1 .. n -> ToSet(s)]
    BY DEF ToSet
<1>2. s \in Seq(ToSet(s))
    BY <1>1, SeqDef
<1>3. DOMAIN s = 1 .. n /\ DOMAIN s = 1 .. Len(s) /\ Len(s) \in Nat
    BY <1>1, <1>2
<1>4. Len(s) = n
    BY <1>1, <1>2, <1>3
<1> QED
    BY <1>2, <1>3, <1>4 DEF IsList

LEMMA NothingListed == IsList(<<>>) /\ ToSet(<<>>) = {} /\ Len(<<>>) = 0
BY DEF IsList, ToSet

LEMMA EmptyList == ASSUME NEW s, IsList(s) PROVE (s = <<>> <=> Len(s) = 0) /\ (s = <<>> <=> ToSet(s) = {})
<1>1. s \in Seq(ToSet(s))
    BY DEF IsList
<1>2. s = <<>> <=> Len(s) = 0
    BY <1>1
<1>3. ASSUME s # <<>> PROVE s[1] \in ToSet(s)
    BY <1>1, <1>3 DEF ToSet
<1> QED
    BY <1>2, <1>3, NothingListed

LEMMA ListAppended ==
    ASSUME NEW s, IsList(s), NEW e
    PROVE  /\ IsList(Append(s, e)) /\ Len(Append(s, e)) = Len(s) + 1
           /\ ToSet(Append(s, e)) = ToSet(s) \union {e}
           /\ \A k \in 1 .. Len(s) : Append(s, e)[k] = s[k]
           /\ Append(s, e)[Len(s) + 1] = e
<1> DEFINE T == ToSet(s) \union {e}
           t == Append(s, e)
<1>1. s \in Seq(T) /\ e \in T
    BY DEF IsList
<1>2. /\ t \in Seq(T) /\ Len(t) = Len(s) + 1
      /\ \A k \in 1 .. Len(s) : t[k] = s[k]
      /\ t[Len(s) + 1] = e
    BY <1>1
<1>3. DOMAIN s = 1 .. Len(s) /\ DOMAIN t = 1 .. Len(s) + 1 /\ Len(s) \in Nat
    BY <1>1, <1>2
<1> HIDE DEF t
<1>4. ToSet(t) = T
    BY <1>2, <1>3 DEF ToSet
<1> QED
    BY <1>2, <1>4 DEF IsList, t

LEMMA ListTaken ==
    ASSUME NEW s, IsList(s), s # <<>>
    PROVE  /\ IsList(Tail(s)) /\ Len(Tail(s)) = Len(s) - 1
           /\ Head(s) = s[1]
           /\ \A k \in 1 .. Len(s) - 1 : Tail(s)[k] = s[k + 1]
           /\ ToSet(s) = {Head(s)} \union ToSet(Tail(s))
<1> DEFINE t == Tail(s)
<1>1. s \in Seq(ToSet(s)) /\ Len(s) \in Nat /\ Len(s) > 0 /\ DOMAIN s = 1 .. Len(s)
    BY DEF IsList
<1>2. /\ t \in Seq(ToSet(s)) /\ Len(t) = Len(s) - 1
      /\ Head(s) = s[1]
      /\ \A k \in 1 .. Len(s) - 1 : t[k] = s[k + 1]
    BY <1>1
<1>3. DOMAIN t = 1 .. Len(s) - 1
    BY <1>2
<1>4. \A k \in DOMAIN s : k = 1 \/ k - 1 \in DOMAIN t
    BY <1>1, <1>3
<1>5. \A k \in DOMAIN t : k + 1 \in DOMAIN s
    BY <1>1, <1>3
<1> HIDE DEF t
<1>6. ToSet(s) = {Head(s)} \union ToSet(t)
    <2>1. ASSUME NEW x \in ToSet(s) PROVE x = Head(s) \/ x \in ToSet(t)
        <3>1. PICK k \in DOMAIN s : x = s[k]
            BY DEF ToSet
        <3>2. CASE k = 1
            BY <1>2, <3>1, <3>2
        <3>3. CASE k # 1
            <4>1. k - 1 \in DOMAIN t /\ k - 1 \in 1 .. Len(s) - 1 /\ (k - 1) + 1 = k
                BY <1>1, <1>3, <1>4, <3>3
            <4>2. t[k - 1] = x
                BY <1>2, <3>1, <4>1
            <4> QED
                BY <4>1, <4>2 DEF ToSet
        <3> QED
            BY <3>2, <3>3
    <2>2. ASSUME NEW x \in ToSet(t) PROVE x \in ToSet(s)
        <3>1. PICK k \in DOMAIN t : x = t[k]
            BY DEF ToSet
        <3>2. k + 1 \in DOMAIN s /\ s[k + 1] = x
            BY <1>2, <1>3, <1>5, <3>1
        <3> QED
            BY <3>2 DEF ToSet
    <2>3. Head(s) \in ToSet(s)
        BY <1>1, <1>2 DEF ToSet
    <2> QED
        BY <2>1, <2>2, <2>3
<1>7. t = [k \in 1 .. Len(s) - 1 |-> t[k]]
    BY <1>2, <1>3
<1>8. Len(s) - 1 \in Nat
    BY <1>1
<1>9. IsList(t)
    BY <1>7, <1>8, AListOf
<1> QED
    BY <1>2, <1>6, <1>9 DEF t

LEMMA ListsJoined ==
    ASSUME NEW s, IsList(s), NEW t, IsList(t)
    PROVE  /\ IsList(s \o t) /\ Len(s \o t) = Len(s) + Len(t)
           /\ ToSet(s \o t) = ToSet(s) \union ToSet(t)
<1> DEFINE T == ToSet(s) \union ToSet(t)
           u == s \o t
<1>1. s \in Seq(T) /\ t \in Seq(T)
    BY DEF IsList
<1>2. /\ u \in Seq(T) /\ Len(u) = Len(s) + Len(t)
      /\ \A k \in 1 .. Len(s) : u[k] = s[k]
      /\ \A k \in 1 .. Len(t) : u[Len(s) + k] = t[k]
    BY <1>1
<1>3. /\ DOMAIN s = 1 .. Len(s) /\ DOMAIN t = 1 .. Len(t) /\ DOMAIN u = 1 .. Len(s) + Len(t)
      /\ Len(s) \in Nat /\ Len(t) \in Nat
    BY <1>1, <1>2
<1> HIDE DEF u
<1>4. T \subseteq ToSet(u)
    <2>1. ASSUME NEW k \in DOMAIN s PROVE s[k] \in ToSet(u)
        BY <1>2, <1>3 DEF ToSet
    <2>2. ASSUME NEW k \in DOMAIN t PROVE t[k] \in ToSet(u)
        <3>1. Len(s) + k \in DOMAIN u
            BY <1>3
        <3> QED
            BY <1>2, <1>3, <3>1 DEF ToSet
    <2> QED
        BY <2>1, <2>2 DEF ToSet
<1>5. ToSet(u) \subseteq T
    BY <1>2 DEF ToSet
<1>6. IsList(u)
    BY <1>2, <1>4, <1>5 DEF IsList
<1> QED
    BY <1>2, <1>4, <1>5, <1>6 DEF u

LEMMA EnumeratedList ==
    ASSUME NEW S, IsFiniteSet(S), NEW precedes, Orders(precedes, S)
    PROVE  LET e == Enumerated(S, precedes)
           IN  /\ IsList(e) /\ Len(e) = Cardinality(S) /\ ToSet(e) = S
               /\ \A k, l \in DOMAIN e : k < l => <<e[k], e[l]>> \in precedes
<1> DEFINE e == Enumerated(S, precedes)
           n == Cardinality(S)
<1>1. /\ n \in Nat
      /\ DOMAIN e = 1 .. n
      /\ \A k \in DOMAIN e : e[k] \in S
      /\ \A k, l \in DOMAIN e : k < l => <<e[k], e[l]>> \in precedes
      /\ \A i \in S : \E k \in DOMAIN e : e[k] = i
    BY InRanks
<1>2. e = [k \in 1 .. n |-> e[k]]
    <2> DEFINE at(k) == CHOOSE i \in S : Cardinality({j \in S : <<j, i>> \in precedes}) = k - 1
    <2>1. e = [k \in 1 .. n |-> at(k)]
        BY DEF Enumerated
    <2> HIDE DEF at, e
    <2> QED
        BY <2>1
<1> HIDE DEF e, n
<1>3. IsList(e) /\ Len(e) = n
    BY <1>1, <1>2, AListOf
<1>4. ToSet(e) = S
    BY <1>1 DEF ToSet
<1> QED
    BY <1>1, <1>3, <1>4 DEF e, n

LEMMA InOrderList ==
    ASSUME NEW S, IsFiniteSet(S), S \subseteq Int
    PROVE  LET e == InOrder(S)
           IN  /\ IsList(e) /\ Len(e) = Cardinality(S) /\ ToSet(e) = S
               /\ \A k, l \in DOMAIN e : k < l => e[k] < e[l]
<1> DEFINE precedes == {p \in S \X S : p[1] < p[2]}
<1>1. \A i, j \in S : <<i, j>> \in precedes <=> i < j
    OBVIOUS
<1> HIDE DEF precedes
<1>2. Orders(precedes, S)
    BY <1>1 DEF Orders
<1> DEFINE e == Enumerated(S, precedes)
<1>3. /\ IsList(e) /\ Len(e) = Cardinality(S) /\ ToSet(e) = S
      /\ \A k, l \in DOMAIN e : k < l => <<e[k], e[l]>> \in precedes
    BY <1>2, EnumeratedList, Zenon
<1>4. InOrder(S) = e
    BY DEF InOrder, precedes
<1> HIDE DEF e
<1>5. \A k \in DOMAIN e : e[k] \in S
    BY <1>3 DEF ToSet
<1>6. \A k, l \in DOMAIN e : k < l => e[k] < e[l]
    BY <1>1, <1>3, <1>5
<1> QED
    BY <1>3, <1>4, <1>6

LEMMA FinitePlaces == ASSUME NEW s, IsList(s), NEW P, P \subseteq DOMAIN s PROVE IsFiniteSet(P) /\ P \subseteq Int
<1>1. DOMAIN s = 1 .. Len(s) /\ Len(s) \in Nat
    BY ListsAre
<1>2. IsFiniteSet(1 .. Len(s))
    BY <1>1, FS_Interval
<1>3. IsFiniteSet(P)
    BY <1>1, <1>2, FS_Subset
<1> QED
    BY <1>1, <1>3

LEMMA AtPlaces ==
    ASSUME NEW s, IsList(s), NEW P, P \subseteq DOMAIN s
    PROVE  IsList(At(s, P)) /\ ToSet(At(s, P)) = {s[k] : k \in P}
<1> DEFINE order == InOrder(P)
           t == At(s, P)
<1>1. IsList(order) /\ ToSet(order) = P
    BY FinitePlaces, InOrderList
<1>2. Len(order) \in Nat /\ DOMAIN order = 1 .. Len(order)
    BY <1>1, ListsAre
<1>3. t = [k \in DOMAIN order |-> s[order[k]]]
    BY DEF At
<1> HIDE DEF t, order
<1>4. IsList(t)
    <2>1. t = [k \in 1 .. Len(order) |-> t[k]]
        BY <1>2, <1>3
    <2> QED
        BY <1>2, <2>1, AListOf
<1>5. ToSet(t) = {s[k] : k \in P}
    BY <1>1, <1>3 DEF ToSet
<1> QED
    BY <1>4, <1>5 DEF t

(* Texts, from the top of the page.                                        *)
Placed(list) ==
    \A k \in DOMAIN list : list[k].x \in Int /\ list[k].y \in Int /\ list[k].size \in Int

Descending(list) == \A k, l \in DOMAIN list : k < l => list[k].y >= list[l].y

(* Sorted, the texts come down the page, and none is added.                *)
LEMMA HigherFirst ==
    ASSUME NEW s, IsList(s), Placed(s)
    PROVE  LET t == SortedBy(s, Higher)
           IN  IsList(t) /\ ToSet(t) \subseteq ToSet(s) /\ Len(t) = Len(s) /\ Descending(t)
<1> DEFINE D == DOMAIN s
           before(i, j) == Higher(s[i], s[j]) \/ (~Higher(s[j], s[i]) /\ i < j)
           precedes == {p \in D \X D : \/ Higher(s[p[1]], s[p[2]])
                                       \/ ~Higher(s[p[2]], s[p[1]]) /\ p[1] < p[2]}
           order == Enumerated(D, precedes)
           t == [k \in D |-> s[order[k]]]
<1>1. SortedBy(s, Higher) = t
    BY DEF SortedBy
<1>2. Len(s) \in Nat /\ D = 1 .. Len(s)
    BY ListsAre
<1>3. \A i, j \in D : <<i, j>> \in precedes <=> before(i, j)
    OBVIOUS
<1>4. \A i, j \in D : before(i, j) => s[i].y >= s[j].y
    BY DEF Placed, Higher
<1>5. Orders(precedes, D)
    <2>1. \A i \in D : ~before(i, i)
        BY <1>2 DEF Placed, Higher
    <2>2. \A i, j \in D : i # j => before(i, j) \/ before(j, i)
        BY <1>2 DEF Placed, Higher
    <2>3. \A i, j, k \in D : before(i, j) /\ before(j, k) => before(i, k)
        BY <1>2 DEF Placed, Higher
    <2> HIDE DEF precedes, before
    <2> QED
        BY <1>3, <2>1, <2>2, <2>3 DEF Orders
<1>6. IsFiniteSet(D)
    BY FinitePlaces
<1> HIDE DEF precedes, before
<1>7. /\ IsList(order) /\ Len(order) = Cardinality(D) /\ ToSet(order) = D
      /\ \A k, l \in DOMAIN order : k < l => <<order[k], order[l]>> \in precedes
    BY <1>5, <1>6, EnumeratedList, Zenon
<1>8. Cardinality(D) = Len(s)
    <2>1. Cardinality(1 .. Len(s)) = IF 1 > Len(s) THEN 0 ELSE Len(s) - 1 + 1
        BY <1>2, FS_Interval
    <2> QED
        BY <1>2, <2>1
<1>9. DOMAIN order = D
    BY <1>2, <1>7, <1>8, ListsAre
<1> HIDE DEF order
<1>10. \A k \in D : order[k] \in D
    BY <1>7, <1>9 DEF ToSet
<1>11. IsList(t) /\ Len(t) = Len(s)
    <2>1. t = [k \in 1 .. Len(s) |-> t[k]]
        BY <1>2
    <2> HIDE DEF t
    <2> QED
        BY <1>2, <2>1, AListOf
<1>12. ToSet(t) \subseteq ToSet(s)
    BY <1>10 DEF ToSet
<1>13. Descending(t)
    <2> SUFFICES ASSUME NEW k \in D, NEW l \in D, k < l PROVE s[order[k]].y >= s[order[l]].y
        BY DEF Descending
    <2>1. before(order[k], order[l])
        BY <1>3, <1>7, <1>9, <1>10
    <2> QED
        BY <1>4, <1>10, <2>1
<1> QED
    BY <1>1, <1>11, <1>12, <1>13

(***************************************************************************)
(* What the reader has in hand: dictionaries by number, values of the tree *)
(* to visit, and pages whose content is in the file.                       *)
(***************************************************************************)
Kept ==
    /\ document \in Documents /\ scanned \in 0 .. Len(document.entries)
    /\ IsFiniteSet(DOMAIN objects) /\ DOMAIN objects \subseteq Int
    /\ \A n \in DOMAIN objects : objects[n] \in Dictionaries

InFile(list, file) == IsList(list) /\ \A c \in ToSet(list) : c.ref \in DOMAIN file

ToVisit == IsList(pending) /\ \A frame \in ToSet(pending) : IsValue(frame.value)

Found ==
    /\ IsList(pages) /\ page \in 0 .. Len(pages)
    /\ \A p \in ToSet(pages) : InFile(p.contents, objects)

Staged ==
    /\ stage \in Stages
    /\ stage \in {"objects", "tree"} => page = 0
    /\ stage = "objects" => pages = <<>>
    /\ stage = "content" => page >= 1 /\ InFile(streams, objects)

InHand == Kept /\ ToVisit /\ Found /\ Staged

LEMMA DictionaryIs ==
    ASSUME Kept, NEW v, IsValue(v) PROVE Dictionary(v) \in Dictionaries \union {Absent}
<1>1. CASE IsRef(v)
    <2>1. CASE v.ref \in DOMAIN objects
        <3>1. Resolve(v) = [direct |-> objects[v.ref]] /\ objects[v.ref] \in Dictionaries
            BY <1>1, <2>1 DEF Resolve, Kept
        <3> QED
            BY <3>1 DEF Dictionary
    <2>2. CASE v.ref \notin DOMAIN objects
        BY <1>1, <2>2 DEF Resolve, Dictionary
    <2> QED
        BY <2>1, <2>2
<1>2. CASE ~IsRef(v)
    <2>1. Resolve(v) = v
        BY <1>2 DEF Resolve
    <2> QED
        BY <2>1 DEF Dictionary, IsValue, IsDirect
<1> QED
    BY <1>1, <1>2

LEMMA ArrayIs ==
    ASSUME NEW v, IsArray(Resolve(v)), IsValue(v) PROVE Resolve(v) = v /\ IsArray(v) /\ IsList(v.array)
<1>1. ~IsRef(v)
    <2> SUFFICES ASSUME IsRef(v) PROVE FALSE
        OBVIOUS
    <2>1. v.ref \in DOMAIN objects
        BY DEF Resolve, IsArray
    <2>2. Resolve(v) = [direct |-> objects[v.ref]]
        BY <2>1 DEF Resolve
    <2>3. "array" \notin DOMAIN Resolve(v)
        BY <2>2
    <2> QED
        BY <2>3 DEF IsArray
<1> QED
    BY <1>1 DEF Resolve, IsValue

LEMMA Dictionaried ==
    ASSUME NEW d \in Dictionaries
    PROVE  /\ d # Absent
           /\ IsValue(d.pages) /\ IsValue(d.kids) /\ IsValue(d.contents)
           /\ IsArray(d.kids) => \A kid \in ToSet(d.kids.array) : IsValue(kid)
BY DocumentsAssumption DEF ToSet

LEMMA ContentsListed ==
    ASSUME NEW d \in Dictionaries
    PROVE  InFile(ContentObjects(d), objects)
<1> DEFINE held == Resolve(d.contents)
           values == IF IsArray(held) THEN held.array ELSE <<d.contents>>
<1>1. IsList(values)
    <2>1. CASE IsArray(held)
        BY <2>1, ArrayIs, Dictionaried
    <2>2. IsList(<<d.contents>>)
        BY DEF IsList, ToSet
    <2> QED
        BY <2>1, <2>2
<1> HIDE DEF values
<1> DEFINE P == {k \in DOMAIN values : IsRef(values[k]) /\ values[k].ref \in DOMAIN objects}
<1>2. IsList(At(values, P)) /\ ToSet(At(values, P)) = {values[k] : k \in P}
    BY <1>1, AtPlaces
<1>3. ContentObjects(d) = At(values, P)
    BY DEF ContentObjects, values
<1>4. \A c \in {values[k] : k \in P} : c.ref \in DOMAIN objects
    OBVIOUS
<1> HIDE DEF P
<1> QED
    BY <1>2, <1>3, <1>4 DEF InFile

LEMMA NumbersListed ==
    ASSUME Kept, NEW type
    PROVE  /\ IsList(Numbered(type))
           /\ ToSet(Numbered(type)) = {n \in DOMAIN objects : objects[n].type = type}
           /\ \A k, l \in DOMAIN Numbered(type) : k < l => Numbered(type)[k] < Numbered(type)[l]
<1> DEFINE S == {n \in DOMAIN objects : objects[n].type = type}
<1>1. IsFiniteSet(S) /\ S \subseteq Int
    BY FS_Subset DEF Kept
<1> HIDE DEF S
<1>2. Numbered(type) = InOrder(S)
    BY DEF Numbered, S
<1> QED
    BY <1>1, <1>2, InOrderList DEF S

LEMMA PageListed ==
    ASSUME NEW d \in Dictionaries, NEW resources PROVE InFile(PageOf(d, resources).contents, objects)
BY ContentsListed DEF PageOf

LEMMA KidsListed ==
    ASSUME NEW d \in Dictionaries, IsArray(Resolve(d.kids)), NEW resources, NEW depth
    PROVE  LET kids == Resolve(d.kids)
               frames == [k \in DOMAIN kids.array |-> Frame(kids.array[k], resources, depth)]
           IN  /\ IsList(frames)
               /\ ToSet(frames) = {Frame(kid, resources, depth) : kid \in ToSet(kids.array)}
               /\ \A kid \in ToSet(kids.array) : IsValue(kid)
<1> DEFINE list == Resolve(d.kids).array
           frames == [k \in DOMAIN list |-> Frame(list[k], resources, depth)]
<1>1. IsList(list) /\ \A kid \in ToSet(list) : IsValue(kid)
    BY ArrayIs, Dictionaried
<1>2. Len(list) \in Nat /\ DOMAIN list = 1 .. Len(list)
    BY <1>1, ListsAre
<1> HIDE DEF list
<1>3. frames = [k \in 1 .. Len(list) |-> frames[k]]
    BY <1>2
<1>4. IsList(frames)
    BY <1>2, <1>3, AListOf
<1>5. ToSet(frames) = {Frame(kid, resources, depth) : kid \in ToSet(list)}
    BY DEF ToSet
<1> QED
    BY <1>1, <1>4, <1>5 DEF list

LEMMA EntriesAre ==
    ASSUME NEW d \in Documents
    PROVE  /\ Len(d.entries) \in Nat /\ DOMAIN d.entries = 1 .. Len(d.entries)
           /\ \A k \in 1 .. Len(d.entries) :
                 d.entries[k].num \in Int /\ d.entries[k].object \in Dictionaries \union {Absent}
<1>1. IsList(d.entries)
    BY DocumentsAssumption
<1>2. Len(d.entries) \in Nat /\ DOMAIN d.entries = 1 .. Len(d.entries)
    BY <1>1, ListsAre
<1> QED
    BY <1>2, DocumentsAssumption

LEMMA BeginsInHand == ASSUME ImportInit PROVE InHand
<1>1. /\ document \in Documents /\ stage = "objects" /\ scanned = 0 /\ objects = <<>>
      /\ pending = <<>> /\ pages = <<>> /\ page = 0
    BY Zenon DEF ImportInit, Init
<1>2. DOMAIN objects = {}
    BY <1>1
<1>3. Len(document.entries) \in Nat
    BY <1>1, EntriesAre
<1>4. Kept
    BY <1>1, <1>2, <1>3, FS_EmptySet DEF Kept
<1>5. ToVisit /\ Found
    BY <1>1, NothingListed DEF ToVisit, Found
<1>6. Staged
    BY <1>1 DEF Staged, Stages
<1> QED
    BY <1>4, <1>5, <1>6 DEF InHand

LEMMA KeptOnScan == ASSUME InHand, ScanObject PROVE Kept'
<1> DEFINE entry == document.entries[scanned + 1]
<1> USE DEF InHand
<1>1. /\ scanned + 1 \in 1 .. Len(document.entries)
      /\ entry.num \in Int /\ entry.object \in Dictionaries \union {Absent}
    BY EntriesAre DEF Kept, ScanObject
<1>2. document' = document /\ document' \in Documents /\ scanned' \in 0 .. Len(document'.entries)
    BY <1>1, EntriesAre DEF Kept, ScanObject, After
<1>3. CASE entry.num \in DOMAIN objects \/ entry.object = Absent
    <2>1. objects' = objects
        BY <1>3 DEF ScanObject
    <2> QED
        BY <1>2, <2>1 DEF Kept
<1>4. CASE ~(entry.num \in DOMAIN objects \/ entry.object = Absent)
    <2>1. objects' = [n \in DOMAIN objects \union {entry.num} |->
                         IF n = entry.num THEN entry.object ELSE objects[n]]
        BY <1>4 DEF ScanObject
    <2> HIDE DEF entry
    <2>2. DOMAIN objects' = DOMAIN objects \union {entry.num}
        BY <2>1
    <2>3. IsFiniteSet(DOMAIN objects')
        BY <2>2, FS_AddElement DEF Kept
    <2>4. \A n \in DOMAIN objects' : objects'[n] \in Dictionaries
        BY <1>1, <1>4, <2>1 DEF Kept
    <2> QED
        BY <1>1, <1>2, <2>2, <2>3, <2>4 DEF Kept
<1> QED
    BY <1>3, <1>4

LEMMA VisitInHand == ASSUME InHand, Visit PROVE InHand'
<1> DEFINE frame == Head(pending)
           node == IF frame.depth > MaxDepth THEN Absent ELSE Dictionary(frame.value)
           resources == ResourcesOf(node, frame.resources)
           kids == Resolve(node.kids)
           frames == [k \in DOMAIN kids.array |-> Frame(kids.array[k], resources, frame.depth + 1)]
<1>1. stage = "tree" /\ pending # <<>> /\ UNCHANGED <<document, stage, scanned, objects, page>>
    BY DEF Visit
<1>2. /\ IsList(pending) /\ IsList(Tail(pending)) /\ ToSet(Tail(pending)) \subseteq ToSet(pending)
      /\ frame \in ToSet(pending)
    BY <1>1, ListTaken DEF InHand, ToVisit
<1>3. node \in Dictionaries \union {Absent}
    <2>1. IsValue(frame.value)
        BY <1>2 DEF InHand, ToVisit
    <2> QED
        BY <2>1, DictionaryIs DEF InHand
<1>4. Kept' /\ Staged'
    BY <1>1 DEF InHand, Kept, Staged
<1>5. page = 0 /\ page' = 0
    BY <1>1 DEF InHand, Staged
<1>6. ToVisit' /\ Found'
    <2>1. CASE pending' = Tail(pending) /\ pages' = pages
        BY <1>1, <1>2, <2>1 DEF InHand, ToVisit, Found
    <2>2. CASE node # Absent /\ pending' = Tail(pending) /\ pages' = Append(pages, PageOf(node, resources))
        <3>1. InFile(PageOf(node, resources).contents, objects)
            BY <1>3, <2>2, PageListed
        <3> DEFINE new == PageOf(node, resources)
        <3> HIDE DEF new, node, resources
        <3>2. IsList(pages) /\ Len(pages) \in Nat
            BY ListsAre DEF InHand, Found
        <3>3. IsList(pages') /\ ToSet(pages') = ToSet(pages) \union {new} /\ Len(pages') \in Nat
            BY <2>2, <3>2, ListAppended, ListsAre DEF new
        <3>4. Found'
            BY <1>1, <1>5, <3>1, <3>3 DEF InHand, Found, new
        <3> QED
            BY <1>2, <2>2, <3>4 DEF InHand, ToVisit
    <2>3. CASE /\ node # Absent /\ pages' = pages
               /\ pending' = (IF ~IsArray(kids) THEN <<>> ELSE frames) \o Tail(pending)
        <3> DEFINE new == IF ~IsArray(kids) THEN <<>> ELSE frames
        <3>1. IsList(new) /\ \A f \in ToSet(new) : IsValue(f.value)
            <4>1. CASE ~IsArray(kids)
                BY <4>1, NothingListed
            <4>2. CASE IsArray(kids)
                <5>1. node \in Dictionaries
                    BY <1>3, <2>3
                <5>2. /\ IsList(frames)
                      /\ ToSet(frames) = {Frame(kid, resources, frame.depth + 1) : kid \in ToSet(kids.array)}
                      /\ \A kid \in ToSet(kids.array) : IsValue(kid)
                    <6> HIDE DEF node, resources, frame
                    <6> QED
                        BY <4>2, <5>1, KidsListed
                <5> HIDE DEF node, resources, frame, kids, frames
                <5> QED
                    BY <4>2, <5>2 DEF Frame
            <4> QED
                BY <4>1, <4>2
        <3>2. pending' = new \o Tail(pending)
            BY <2>3
        <3> HIDE DEF new
        <3>3. IsList(pending') /\ ToSet(pending') = ToSet(new) \union ToSet(Tail(pending))
            BY <1>2, <3>1, <3>2, ListsJoined
        <3>4. ToVisit'
            BY <1>2, <3>1, <3>3 DEF InHand, ToVisit
        <3> QED
            BY <1>1, <2>3, <3>4 DEF InHand, Found
    <2> QED
        BY <2>1, <2>2, <2>3 DEF Visit
<1> QED
    BY <1>4, <1>6 DEF InHand

LEMMA CollectInHand == ASSUME InHand, CollectPages PROVE InHand'
<1>1. stage = "objects" /\ UNCHANGED <<document, scanned, objects, pages, page>>
    BY DEF CollectPages
<1>2. Kept' /\ Found'
    BY <1>1 DEF InHand, Kept, Found
<1>3. Staged'
    BY <1>1 DEF CollectPages, InHand, Staged, Stages
<1>4. ToVisit'
    <2>1. CASE pending' = <<>>
        BY <2>1, NothingListed DEF ToVisit
    <2>2. CASE /\ Numbered("Catalog") # <<>>
               /\ pending' = <<Frame(objects[Head(Numbered("Catalog"))].pages, Absent, 0)>>
        <3>1. IsList(Numbered("Catalog")) /\ ToSet(Numbered("Catalog")) \subseteq DOMAIN objects
            BY NumbersListed DEF InHand
        <3>2. Head(Numbered("Catalog")) \in DOMAIN objects
            BY <2>2, <3>1, ListTaken
        <3> DEFINE d == objects[Head(Numbered("Catalog"))]
        <3>3. d \in Dictionaries
            BY <3>2 DEF InHand, Kept
        <3>4. IsValue(d.pages)
            BY <3>3, Dictionaried
        <3>5. pending' = <<Frame(d.pages, Absent, 0)>>
            BY <2>2
        <3> HIDE DEF d
        <3>6. IsList(pending') /\ ToSet(pending') = {Frame(d.pages, Absent, 0)}
            BY <3>5 DEF IsList, ToSet
        <3> QED
            BY <3>4, <3>6 DEF ToVisit, Frame
    <2> QED
        BY <2>1, <2>2 DEF CollectPages
<1> QED
    BY <1>2, <1>3, <1>4 DEF InHand

LEMMA StraysListed ==
    ASSUME Kept
    PROVE  LET strays == Numbered("Page")
               found == [k \in DOMAIN strays |-> PageOf(objects[strays[k]], objects[strays[k]].resources)]
           IN  /\ IsList(found) /\ (strays # <<>> => found # <<>>)
               /\ \A p \in ToSet(found) : InFile(p.contents, objects)
<1> DEFINE strays == Numbered("Page")
           new(n) == PageOf(objects[n], objects[n].resources)
           found == [k \in DOMAIN strays |-> new(strays[k])]
<1>1. IsList(strays) /\ \A n \in ToSet(strays) : n \in DOMAIN objects
    BY NumbersListed
<1>2. Len(strays) \in Nat /\ DOMAIN strays = 1 .. Len(strays)
    BY <1>1, ListsAre
<1>3. \A n \in ToSet(strays) : InFile(new(n).contents, objects)
    BY <1>1, PageListed DEF Kept
<1> HIDE DEF strays, new
<1>4. IsList(found) /\ Len(found) = Len(strays)
    <2>1. found = [k \in 1 .. Len(strays) |-> found[k]]
        BY <1>2
    <2> HIDE DEF found
    <2> QED
        BY <1>2, <2>1, AListOf
<1>5. \A p \in ToSet(found) : InFile(p.contents, objects)
    BY <1>3 DEF ToSet
<1>6. strays # <<>> => found # <<>>
    <2> HIDE DEF found
    <2> QED
        BY <1>1, <1>4, EmptyList
<1> QED
    BY <1>4, <1>5, <1>6 DEF strays, new

LEMMA TreeReadInHand == ASSUME InHand, TreeRead PROVE InHand'
<1> DEFINE strays == Numbered("Page")
           found == [k \in DOMAIN strays |-> PageOf(objects[strays[k]], objects[strays[k]].resources)]
<1>1. stage = "tree" /\ stage' = "pages" /\ UNCHANGED <<document, scanned, objects, page, pending>>
    BY DEF TreeRead
<1>2. pages' = IF pages # <<>> THEN pages ELSE found
    BY DEF TreeRead
<1>3. IsList(found) /\ \A p \in ToSet(found) : InFile(p.contents, objects)
    BY StraysListed DEF InHand
<1> HIDE DEF found
<1>4. page = 0
    BY <1>1 DEF InHand, Staged
<1>5. Found'
    <2>1. CASE pages' = pages
        BY <1>1, <2>1 DEF InHand, Found
    <2>2. CASE pages' = found
        <3>1. Len(found) \in Nat
            BY <1>3, ListsAre
        <3> QED
            BY <1>1, <1>3, <1>4, <2>2, <3>1 DEF Found
    <2> QED
        BY <1>2, <2>1, <2>2
<1> QED
    BY <1>1, <1>5 DEF InHand, Kept, ToVisit, Staged, Stages

LEMMA StaysInHand == ASSUME InHand, [Next]_vars PROVE InHand'
<1> USE DEF InHand
<1>1. CASE UNCHANGED reader
    BY <1>1 DEF reader, Kept, ToVisit, Found, Staged
<1>2. CASE Refuse
    BY <1>2 DEF Refuse, Kept, ToVisit, Found, Staged, Stages
<1>3. CASE ScanObject
    <2>1. stage = "objects" /\ UNCHANGED <<stage, pending, page, pages>>
        BY <1>3, Zenon DEF ScanObject
    <2>2. pages = <<>>
        BY <2>1 DEF Staged
    <2>3. Found'
        BY <2>1, <2>2, NothingListed DEF Found
    <2> QED
        BY <1>3, <2>1, <2>3, KeptOnScan DEF ToVisit, Staged
<1>4. CASE CollectPages
    BY <1>4, CollectInHand
<1>5. CASE Visit
    BY <1>5, VisitInHand
<1>6. CASE TreeRead
    BY <1>6, TreeReadInHand
<1>7. CASE OpenPage
    <2>1. /\ stage = "pages" /\ page < Len(pages) /\ page' = page + 1 /\ stage' = "content"
          /\ streams' = pages[page + 1].contents
          /\ UNCHANGED <<document, scanned, objects, pending, pages>>
        BY <1>7, Zenon DEF OpenPage
    <2>2. IsList(pages) /\ Len(pages) \in Nat /\ DOMAIN pages = 1 .. Len(pages)
        BY ListsAre DEF Found
    <2>3. page \in Nat /\ page + 1 \in 1 .. Len(pages)
        BY <2>1, <2>2 DEF Found
    <2>4. pages[page + 1] \in ToSet(pages)
        BY <2>2, <2>3 DEF ToSet
    <2>5. InFile(streams, objects)'
        BY <2>1, <2>4 DEF Found, InFile
    <2> QED
        BY <2>1, <2>3, <2>5 DEF Kept, ToVisit, Found, Staged, Stages
<1>8. CASE OpenStream
    <2>1. /\ stage = "content" /\ streams # <<>> /\ streams' = Tail(streams)
          /\ UNCHANGED <<document, stage, scanned, objects, pending, pages, page>>
        BY <1>8, Zenon DEF OpenStream
    <2>2. IsList(streams') /\ ToSet(streams') \subseteq ToSet(streams)
        BY <2>1, ListTaken DEF Staged, InFile
    <2>3. InFile(streams, objects)'
        BY <2>1, <2>2 DEF Staged, InFile
    <2> QED
        BY <2>1, <2>3 DEF Kept, ToVisit, Found, Staged
<1>9. CASE Operate
    BY <1>9 DEF Operate, Kept, ToVisit, Found, Staged
<1>10. CASE ClosePage
    BY <1>10 DEF ClosePage, Kept, ToVisit, Found, Staged, Stages
<1>11. CASE PutItem
    BY <1>11 DEF PutItem, Kept, ToVisit, Found, Staged
<1>12. CASE KeepRows
    BY <1>12 DEF KeepRows, Kept, ToVisit, Found, Staged, Stages
<1>13. CASE Finish
    BY <1>13 DEF Finish, Kept, ToVisit, Found, Staged, Stages
<1> QED
    BY <1>1, <1>2, <1>3, <1>4, <1>5, <1>6, <1>7, <1>8, <1>9, <1>10, <1>11, <1>12, <1>13
    DEF Next, vars, Reading, ReaderStep, Parse, Correct, SaveReceipt, Refused, Recorded, NotWritten

(***************************************************************************)
(* Nothing is passed over in silence.  What could not be read of a page    *)
(* that was begun is said, or still owed.                                  *)
(***************************************************************************)
Owed(k, c) == stage = "content" /\ k = page /\ c \in ToSet(streams)

StreamsSaid ==
    \A k \in 1 .. page : \A c \in ToSet(pages[k].contents) :
        CannotDecode(objects[c.ref]) => "stream" \in problems \/ Owed(k, c)

EmptySaid ==
    /\ stage \notin {"objects", "tree"} /\ pages = <<>> => problems # {}
    /\ stage = "done" => page = Len(pages) /\ (rows = <<>> => problems # {})

Spoken == StreamsSaid /\ EmptySaid

LEMMA BeginsSpoken == ASSUME ImportInit PROVE Spoken
<1>1. stage = "objects" /\ page = 0
    BY Zenon DEF ImportInit, Init
<1> QED
    BY <1>1 DEF Spoken, StreamsSaid, EmptySaid

LEMMA SameStreams ==
    ASSUME StreamsSaid, UNCHANGED <<objects, pages, page>>, problems \subseteq problems',
           \A k \in 1 .. page : \A c : Owed(k, c) => "stream" \in problems' \/ Owed(k, c)'
    PROVE  StreamsSaid'
<1> SUFFICES ASSUME NEW k \in 1 .. page, NEW c \in ToSet(pages[k].contents), CannotDecode(objects[c.ref])
             PROVE  "stream" \in problems' \/ Owed(k, c)'
    <2>1. StreamsSaid' <=> \A k \in 1 .. page : \A c \in ToSet(pages[k].contents) :
                CannotDecode(objects[c.ref]) => "stream" \in problems' \/ Owed(k, c)'
        BY DEF StreamsSaid, CannotDecode
    <2> QED
        BY <2>1
<1> QED
    BY DEF StreamsSaid

LEMMA RefuseSpoken == ASSUME InHand, Refuse PROVE Spoken'
<1>1. stage = "objects" /\ stage' = "done" /\ UNCHANGED <<page, pages>> /\ problems' # {}
    BY DEF Refuse
<1>2. page = 0 /\ pages = <<>>
    BY <1>1 DEF InHand, Staged
<1>3. StreamsSaid'
    BY <1>1, <1>2 DEF StreamsSaid
<1> QED
    BY <1>1, <1>2, <1>3 DEF Spoken, EmptySaid

LEMMA CollectSpoken == ASSUME InHand, CollectPages PROVE Spoken'
<1>1. /\ stage = "objects" /\ UNCHANGED <<page, pages>>
      /\ \/ stage' = "tree"
         \/ stage' = "done" /\ problems' # {}
    BY DEF CollectPages
<1>2. page = 0 /\ pages = <<>>
    BY <1>1 DEF InHand, Staged
<1>3. StreamsSaid'
    BY <1>1, <1>2 DEF StreamsSaid
<1> QED
    BY <1>1, <1>2, <1>3 DEF Spoken, EmptySaid

LEMMA TreeReadSpoken == ASSUME InHand, TreeRead PROVE Spoken'
<1>1. /\ stage = "tree" /\ stage' = "pages" /\ UNCHANGED page
      /\ pages = <<>> => problems' # {}
      /\ pages # <<>> => pages' = pages
    BY DEF TreeRead, IfSo
<1>2. page = 0
    BY <1>1 DEF InHand, Staged
<1>3. StreamsSaid'
    BY <1>1, <1>2 DEF StreamsSaid
<1> QED
    BY <1>1, <1>3 DEF Spoken, EmptySaid

LEMMA OpenPageSpoken == ASSUME InHand, Spoken, OpenPage PROVE Spoken'
<1>1. /\ stage = "pages" /\ page < Len(pages) /\ page' = page + 1 /\ stage' = "content"
      /\ streams' = pages[page + 1].contents
      /\ UNCHANGED <<objects, pages>>
    BY Zenon DEF OpenPage
<1>2. problems \subseteq problems'
    BY Zenon DEF OpenPage
<1>3. Len(pages) \in Nat /\ page \in Nat /\ page' \in 1 .. Len(pages)
    BY <1>1, ListsAre DEF InHand, Found
<1>4. StreamsSaid'
    <2>1. \A k \in 1 .. page : \A c \in ToSet(pages[k].contents) :
                CannotDecode(objects[c.ref]) => "stream" \in problems'
        BY <1>1, <1>2 DEF Spoken, StreamsSaid, Owed
    <2>3. \A k \in 1 .. page' : k \in 1 .. page \/ k = page'
        BY <1>1, <1>3
    <2>4. StreamsSaid' <=> \A k \in 1 .. page' : \A c \in ToSet(pages[k].contents) :
                CannotDecode(objects[c.ref]) => "stream" \in problems' \/ Owed(k, c)'
        BY <1>1 DEF StreamsSaid, CannotDecode
    <2>5. \A k, c : k = page' /\ c \in ToSet(pages[k].contents) => Owed(k, c)'
        BY <1>1 DEF Owed
    <2> QED
        BY <2>1, <2>3, <2>4, <2>5
<1> QED
    BY <1>1, <1>2, <1>4 DEF Spoken, EmptySaid

LEMMA OpenStreamSpoken == ASSUME InHand, Spoken, OpenStream PROVE Spoken'
<1>1. /\ stage = "content" /\ streams # <<>> /\ streams' = Tail(streams)
      /\ UNCHANGED <<stage, objects, pages, page, rows>>
      /\ problems \subseteq problems'
      /\ CannotDecode(objects[Head(streams).ref]) => "stream" \in problems'
    BY DEF OpenStream, IfSo
<1>2. IsList(streams) /\ ToSet(streams) = {Head(streams)} \union ToSet(Tail(streams))
    BY <1>1, ListTaken DEF InHand, Staged, InFile
<1>3. StreamsSaid'
    <2> SUFFICES ASSUME NEW k \in 1 .. page, NEW c \in ToSet(pages[k].contents), CannotDecode(objects[c.ref])
                 PROVE  "stream" \in problems' \/ Owed(k, c)'
        <3>1. StreamsSaid' <=> \A k \in 1 .. page : \A c \in ToSet(pages[k].contents) :
                    CannotDecode(objects[c.ref]) => "stream" \in problems' \/ Owed(k, c)'
            BY <1>1 DEF StreamsSaid, CannotDecode
        <3> QED
            BY <3>1
    <2>1. "stream" \in problems \/ Owed(k, c)
        BY DEF Spoken, StreamsSaid
    <2>2. CASE Owed(k, c) /\ c = Head(streams)
        BY <1>1, <2>2
    <2>3. CASE Owed(k, c) /\ c \in ToSet(Tail(streams))
        BY <1>1, <2>3 DEF Owed
    <2> QED
        BY <1>1, <1>2, <2>1, <2>2, <2>3 DEF Owed
<1> QED
    BY <1>1, <1>3 DEF Spoken, EmptySaid

LEMMA StaysSpoken == ASSUME InHand, Spoken, [Next]_vars PROVE Spoken'
<1>1. CASE UNCHANGED reader
    <2>1. UNCHANGED <<objects, pages, page, problems, stage, streams, rows>>
        BY <1>1, Zenon DEF reader
    <2>2. \A k \in 1 .. page : \A c : Owed(k, c) => Owed(k, c)'
        BY <2>1 DEF Owed
    <2> QED
        BY <2>1, <2>2, SameStreams DEF Spoken, EmptySaid
<1>2. CASE Refuse
    BY <1>2, RefuseSpoken
<1>3. CASE ScanObject
    <2>1. stage = "objects" /\ UNCHANGED <<stage, page>>
        BY <1>3, Zenon DEF ScanObject
    <2>2. page = 0
        BY <2>1 DEF InHand, Staged
    <2> QED
        BY <2>1, <2>2 DEF Spoken, StreamsSaid, EmptySaid
<1>4. CASE CollectPages
    BY <1>4, CollectSpoken
<1>5. CASE Visit
    <2>1. stage = "tree" /\ UNCHANGED <<stage, page>>
        BY <1>5, Zenon DEF Visit
    <2>2. page = 0
        BY <2>1 DEF InHand, Staged
    <2> QED
        BY <2>1, <2>2 DEF Spoken, StreamsSaid, EmptySaid
<1>6. CASE TreeRead
    BY <1>6, TreeReadSpoken
<1>7. CASE OpenPage
    BY <1>7, OpenPageSpoken
<1>8. CASE OpenStream
    BY <1>8, OpenStreamSpoken
<1>9. CASE Operate
    <2>1. UNCHANGED <<objects, pages, page, stage, streams, rows>> /\ problems \subseteq problems' /\ stage = "content"
        BY <1>9, Zenon DEF Operate
    <2>2. \A k \in 1 .. page : \A c : Owed(k, c) => Owed(k, c)'
        BY <2>1 DEF Owed
    <2> QED
        BY <2>1, <2>2, SameStreams DEF Spoken, EmptySaid
<1>10. CASE ClosePage
    <2>1. UNCHANGED <<objects, pages, page, problems>> /\ streams = <<>> /\ stage = "content" /\ stage' = "rows"
        BY <1>10, Zenon DEF ClosePage
    <2>2. \A k \in 1 .. page : \A c : ~Owed(k, c)
        BY <2>1, NothingListed DEF Owed
    <2> QED
        BY <2>1, <2>2, SameStreams DEF Spoken, EmptySaid
<1>11. CASE PutItem
    <2>1. UNCHANGED <<objects, pages, page, problems, stage, streams>> /\ stage = "rows"
        BY <1>11, Zenon DEF PutItem
    <2>2. \A k \in 1 .. page : \A c : ~Owed(k, c)
        BY <2>1 DEF Owed
    <2> QED
        BY <2>1, <2>2, SameStreams DEF Spoken, EmptySaid
<1>12. CASE KeepRows
    <2>1. UNCHANGED <<objects, pages, page, problems>> /\ stage = "rows" /\ stage' = "pages"
        BY <1>12, Zenon DEF KeepRows
    <2>2. \A k \in 1 .. page : \A c : ~Owed(k, c)
        BY <2>1 DEF Owed
    <2> QED
        BY <2>1, <2>2, SameStreams DEF Spoken, EmptySaid
<1>13. CASE Finish
    <2>1. /\ UNCHANGED <<objects, pages, page, rows>> /\ stage = "pages" /\ stage' = "done"
          /\ problems \subseteq problems' /\ page = Len(pages)
          /\ pages # <<>> /\ rows = <<>> => problems' # {}
        BY <1>13 DEF Finish, IfSo
    <2>2. \A k \in 1 .. page : \A c : ~Owed(k, c)
        BY <2>1 DEF Owed
    <2> QED
        BY <2>1, <2>2, SameStreams DEF Spoken, EmptySaid
<1> QED
    BY <1>1, <1>2, <1>3, <1>4, <1>5, <1>6, <1>7, <1>8, <1>9, <1>10, <1>11, <1>12, <1>13
    DEF Next, vars, Reading, ReaderStep, Parse, Correct, SaveReceipt, Refused, Recorded, NotWritten

(* A document that gave no text, or a page whose content could not be      *)
(* inflated, is never handed over in silence, whatever the file holds      *)
(* (pdf.rs, extract_pdf_text).                                             *)
THEOREM NothingPassedOver == Spec => []SilenceSaid
<1>1. ImportInit => InHand /\ Spoken
    BY BeginsInHand, BeginsSpoken
<1>2. InHand /\ Spoken /\ [Next]_vars => (InHand /\ Spoken)'
    BY StaysInHand, StaysSpoken
<1>3. ASSUME InHand, Spoken PROVE SilenceSaid
    <2> SUFFICES ASSUME stage = "done"
                 PROVE  /\ rows = <<>> => problems # {}
                        /\ \A k \in DOMAIN pages : \A c \in ToSet(pages[k].contents) :
                              CannotDecode(objects[c.ref]) => "stream" \in problems
        BY DEF SilenceSaid
    <2>1. page = Len(pages) /\ DOMAIN pages = 1 .. page
        BY <1>3, ListsAre DEF InHand, Found, Spoken, EmptySaid
    <2>2. \A k \in DOMAIN pages : \A c : ~Owed(k, c)
        BY DEF Owed
    <2> QED
        BY <1>3, <2>1, <2>2 DEF Spoken, StreamsSaid, EmptySaid
<1> QED
    BY <1>1, <1>2, <1>3, PTL DEF Spec

(***************************************************************************)
(* Texts and where they stand.                                             *)
(***************************************************************************)
Point(p) == p.x \in Int /\ p.y \in Int
IsPoint(p) == DOMAIN p = {"x", "y"} /\ Point(p)

Located(g) ==
    /\ DOMAIN g = {"font", "size", "leading", "ctm", "tm", "tlm", "saved"}
    /\ g.size \in Int /\ g.leading \in Int
    /\ IsPoint(g.ctm) /\ IsPoint(g.tm) /\ IsPoint(g.tlm)
    /\ IsList(g.saved) /\ \A p \in ToSet(g.saved) : IsPoint(p)

LEMMA OriginIs == IsPoint(Origin)
BY DEF IsPoint, Point, Origin

LEMMA MovedIs == ASSUME NEW p, IsPoint(p), NEW x \in Int, NEW y \in Int PROVE IsPoint(Moved(p, x, y))
BY DEF IsPoint, Point, Moved

LEMMA FreshLocated == Located(Fresh)
<1>1. IsList(<<>>) /\ ToSet(<<>>) = {}
    BY NothingListed
<1> QED
    BY <1>1, OriginIs DEF Located, Fresh

LEMMA LineMoved ==
    ASSUME NEW g, Located(g), NEW x \in Int, NEW y \in Int PROVE Located(MoveLine(g, x, y))
<1>1. IsPoint(Moved(g.tlm, x, y))
    BY MovedIs DEF Located
<1> DEFINE m == Moved(g.tlm, x, y)
<1>2. MoveLine(g, x, y) = [g EXCEPT !.tlm = m, !.tm = m]
    BY DEF MoveLine
<1> HIDE DEF m
<1> QED
    BY <1>1, <1>2 DEF Located, m

LEMMA StaysLocated == ASSUME NEW g, Located(g), NEW o, IsOperator(o) PROVE Located(AfterOperator(g, o))
<1> DEFINE after == AfterOperator(g, o)
<1>0. o.x \in Int /\ o.y \in Int /\ -o.y \in Int /\ -g.leading \in Int /\ 0 \in Int
    BY DEF IsOperator, Located
<1>1. CASE o.op = "q"
    <2>1. after = [g EXCEPT !.saved = <<g.ctm>> \o g.saved]
        BY <1>1 DEF AfterOperator
    <2>2. IsList(<<g.ctm>>) /\ ToSet(<<g.ctm>>) = {g.ctm}
        BY DEF IsList, ToSet
    <2> DEFINE s == <<g.ctm>> \o g.saved
    <2>3. IsList(s) /\ ToSet(s) = {g.ctm} \union ToSet(g.saved)
        BY <2>2, ListsJoined DEF Located
    <2> HIDE DEF s
    <2>4. after = [g EXCEPT !.saved = s]
        BY <2>1 DEF s
    <2> HIDE DEF after
    <2> QED
        BY <2>3, <2>4 DEF Located, after
<1>2. CASE o.op = "Q" /\ g.saved = <<>>
    <2>1. after = [g EXCEPT !.ctm = Origin]
        BY <1>2 DEF AfterOperator
    <2> QED
        BY <2>1, OriginIs DEF Located
<1>3. CASE o.op = "Q" /\ g.saved # <<>>
    <2> DEFINE first == Head(g.saved)
               rest == Tail(g.saved)
    <2>1. after = [g EXCEPT !.ctm = first, !.saved = rest]
        BY <1>3 DEF AfterOperator
    <2>2. IsList(rest) /\ ToSet(g.saved) = {first} \union ToSet(rest)
        BY <1>3, ListTaken DEF Located
    <2> HIDE DEF first, rest, after
    <2> QED
        BY <2>1, <2>2 DEF Located, after
<1>4. CASE o.op = "cm"
    <2> DEFINE m == Moved(g.ctm, o.x, o.y)
    <2>1. after = [g EXCEPT !.ctm = m]
        BY <1>4 DEF AfterOperator
    <2>2. IsPoint(m)
        BY <1>0, MovedIs DEF Located
    <2> HIDE DEF m, after
    <2> QED
        BY <2>1, <2>2 DEF Located, after
<1>5. CASE o.op = "BT"
    <2>1. after = [g EXCEPT !.tm = Origin, !.tlm = Origin]
        BY <1>5 DEF AfterOperator
    <2> QED
        BY <2>1, OriginIs DEF Located
<1>6. CASE o.op = "Tf"
    <2>1. after = [g EXCEPT !.font = o.name, !.size = o.x]
        BY <1>6 DEF AfterOperator
    <2> QED
        BY <1>0, <2>1 DEF Located
<1>7. CASE o.op = "TL"
    <2>1. after = [g EXCEPT !.leading = o.x]
        BY <1>7 DEF AfterOperator
    <2> QED
        BY <1>0, <2>1 DEF Located
<1>8. CASE o.op = "Td"
    <2>1. after = MoveLine(g, o.x, o.y)
        BY <1>8 DEF AfterOperator
    <2> QED
        BY <1>0, <2>1, LineMoved
<1>9. CASE o.op = "TD"
    <2> DEFINE m == MoveLine(g, o.x, o.y)
    <2>1. after = [m EXCEPT !.leading = -o.y]
        BY <1>9 DEF AfterOperator
    <2>2. Located(m)
        BY <1>0, LineMoved
    <2> HIDE DEF m, after
    <2> QED
        BY <1>0, <2>1, <2>2 DEF Located, after
<1>10. CASE o.op = "Tm"
    <2> DEFINE m == Moved(Origin, o.x, o.y)
    <2>1. after = [g EXCEPT !.tm = m, !.tlm = m]
        BY <1>10 DEF AfterOperator
    <2>2. IsPoint(m)
        BY <1>0, MovedIs, OriginIs
    <2> HIDE DEF m, after
    <2> QED
        BY <2>1, <2>2 DEF Located, after
<1>11. CASE o.op \in {"T*", "'", "\""}
    <2>1. after = MoveLine(g, 0, -g.leading)
        BY <1>11 DEF AfterOperator
    <2> QED
        BY <1>0, <2>1, LineMoved
<1>12. CASE o.op \notin {"q", "Q", "cm", "BT", "Tf", "TL", "Td", "TD", "Tm", "T*", "'", "\""}
    <2>1. after = g
        BY <1>12 DEF AfterOperator
    <2> QED
        BY <2>1
<1> QED
    BY <1>1, <1>2, <1>3, <1>4, <1>5, <1>6, <1>7, <1>8, <1>9, <1>10, <1>11, <1>12

IsText(item) == Point(item) /\ item.size \in Int

LEMMA TextsShown ==
    ASSUME NEW g, Located(g), NEW o, IsOperator(o)
    PROVE  IsList(Shown(g, o)) /\ \A item \in ToSet(Shown(g, o)) : IsText(item)
<1> DEFINE decoder == IF Undeclared(g) THEN Latin ELSE fonts[g.font]
           item(k) == [x |-> g.ctm.x + g.tm.x, y |-> g.ctm.y + g.tm.y,
                       size |-> IF g.size > 0 THEN g.size ELSE 100,
                       text |-> Decode(decoder, o.strings[k])]
           placed == [k \in DOMAIN o.strings |-> item(k)]
           P == {k \in DOMAIN placed : placed[k].text # <<>>}
<1>1. Shown(g, o) = At(placed, P)
    BY DEF Shown
<1> HIDE DEF decoder
<1>2. \A k : IsText(item(k))
    BY DEF IsText, Point, IsPoint, Located
<1> HIDE DEF item
<1>3. IsList(o.strings)
    BY DEF IsOperator
<1>4. Len(o.strings) \in Nat /\ DOMAIN o.strings = 1 .. Len(o.strings)
    BY <1>3, ListsAre
<1>5. IsList(placed)
    <2>1. placed = [k \in 1 .. Len(o.strings) |-> placed[k]]
        BY <1>4
    <2> HIDE DEF placed
    <2> QED
        BY <1>4, <2>1, AListOf
<1>6. \A k \in P : IsText(placed[k])
    BY <1>2
<1>7. P \subseteq DOMAIN placed
    OBVIOUS
<1> HIDE DEF placed, P
<1>8. IsList(At(placed, P)) /\ ToSet(At(placed, P)) = {placed[k] : k \in P}
    BY <1>5, <1>7, AtPlaces
<1> QED
    BY <1>1, <1>6, <1>8

(***************************************************************************)
(* Lines.                                                                  *)
(***************************************************************************)
IsLine(line) ==
    /\ line.y \in Int /\ line.size \in Int /\ IsList(line.members)
    /\ DOMAIN line = {"y", "size", "members"}
    /\ \A a \in ToSet(line.members) :
          a.y \in Int /\ a.y <= line.y /\ line.y - a.y <= RowTolerance(line.size)

(* What a line holds stands higher than any line after it.                 *)
Lined(list) ==
    /\ IsList(list)
    /\ \A k \in DOMAIN list : IsLine(list[k])
    /\ \A k, j \in DOMAIN list : k < j => \A a \in ToSet(list[k].members) : a.y > list[j].y

LEMMA Tolerance ==
    ASSUME NEW m \in Int, NEW n \in Int
    PROVE  /\ RowTolerance(m) \in Int /\ RowTolerance(m) <= 35 /\ RowTolerance(m) >= 20
           /\ m <= n => RowTolerance(m) <= RowTolerance(n)
<1>1. \A k \in Int : RowTolerance(k) = LET t == (k * 45) \div 100
                                      IN  IF t < 20 THEN 20 ELSE IF t > 35 THEN 35 ELSE t
    BY DEF RowTolerance, Between
<1>2. m <= n => (m * 45) \div 100 <= (n * 45) \div 100
    OBVIOUS
<1>3. (m * 45) \div 100 \in Int /\ (n * 45) \div 100 \in Int
    OBVIOUS
<1> QED
    BY <1>1, <1>2, <1>3

LEMMA NoLines == Lined(<<>>)
BY NothingListed DEF Lined

LEMMA ToldApart ==
    ASSUME NEW list, Lined(list), NEW k \in DOMAIN list, NEW j \in DOMAIN list,
           NEW a \in ToSet(list[k].members), NEW b \in ToSet(list[j].members)
    PROVE  /\ k = j => Distance(a.y, b.y) <= 35
           /\ a.y = b.y => k = j
<1>1. IsLine(list[k]) /\ IsLine(list[j]) /\ IsList(list)
    BY DEF Lined
<1>2. /\ list[k].y \in Int /\ a.y \in Int /\ a.y <= list[k].y
      /\ list[j].y \in Int /\ b.y \in Int /\ b.y <= list[j].y
      /\ list[k].y - a.y <= 35 /\ list[j].y - b.y <= 35
    <2>1. \A line : IsLine(line) => RowTolerance(line.size) \in Int /\ RowTolerance(line.size) <= 35
        BY Tolerance DEF IsLine
    <2> QED
        BY <1>1, <2>1 DEF IsLine
<1>3. k = j => Distance(a.y, b.y) <= 35
    BY <1>2 DEF Distance
<1>4. k \in Int /\ j \in Int
    BY <1>1, ListsAre
<1>5. k < j => a.y > list[j].y
    BY DEF Lined
<1>6. j < k => b.y > list[k].y
    BY DEF Lined
<1> QED
    BY <1>2, <1>3, <1>4, <1>5, <1>6

LEMMA LineBegun ==
    ASSUME NEW list, Lined(list), NEW item, IsText(item),
           \A k \in DOMAIN list : \A a \in ToSet(list[k].members) : a.y > item.y
    PROVE  Lined(Append(list, NewRow(item)))
<1> DEFINE new == NewRow(item)
           more == Append(list, new)
<1>1. IsList(list) /\ Len(list) \in Nat /\ DOMAIN list = 1 .. Len(list)
    BY ListsAre DEF Lined
<1>2. /\ IsList(more) /\ Len(more) = Len(list) + 1
      /\ \A k \in 1 .. Len(list) : more[k] = list[k]
      /\ more[Len(list) + 1] = new
    BY <1>1, ListAppended
<1>3. DOMAIN more = 1 .. Len(list) + 1
    BY <1>2, ListsAre
<1>4. IsLine(new) /\ new.y = item.y
    <2>1. IsList(<<item>>) /\ ToSet(<<item>>) = {item}
        BY DEF IsList, ToSet
    <2>2. new.y = item.y /\ new.size = item.size /\ new.members = <<item>> /\ DOMAIN new = {"y", "size", "members"}
        BY DEF NewRow
    <2>3. RowTolerance(item.size) \in Int /\ RowTolerance(item.size) >= 20 /\ item.y \in Int /\ item.size \in Int
        BY Tolerance DEF IsText, Point
    <2> HIDE DEF new
    <2> QED
        BY <2>1, <2>2, <2>3 DEF IsLine
<1> HIDE DEF new, more
<1>5. \A k \in DOMAIN more : (k \in DOMAIN list /\ more[k] = list[k]) \/ (k = Len(list) + 1 /\ more[k] = new)
    BY <1>1, <1>2, <1>3
<1>6. \A k \in DOMAIN more : IsLine(more[k])
    BY <1>4, <1>5 DEF Lined
<1>7. ASSUME NEW k \in DOMAIN more, NEW j \in DOMAIN more, k < j, NEW a \in ToSet(more[k].members)
      PROVE  a.y > more[j].y
    <2>1. k \in DOMAIN list /\ more[k] = list[k]
        BY <1>1, <1>3, <1>5, <1>7
    <2>2. CASE j \in DOMAIN list /\ more[j] = list[j]
        BY <1>7, <2>1, <2>2 DEF Lined
    <2>3. CASE j = Len(list) + 1 /\ more[j] = new
        BY <1>4, <1>7, <2>1, <2>3
    <2> QED
        BY <1>5, <2>2, <2>3
<1> QED
    BY <1>2, <1>6, <1>7 DEF Lined, more, new

LEMMA LineLengthened ==
    ASSUME NEW list, Lined(list), list # <<>>, NEW item, IsText(item),
           \A k \in DOMAIN list : item.y <= list[k].y,
           Joins(Last(list), item)
    PROVE  /\ Lined(PutOn(list, item))
           /\ \A k \in DOMAIN PutOn(list, item) :
                 k \in DOMAIN list /\ PutOn(list, item)[k].y = list[k].y
<1> DEFINE row == Last(list)
           n == Len(list)
           longer == [row EXCEPT !.members = Append(@, item),
                                 !.size = IF item.size > @ THEN item.size ELSE @]
           more == Append(Front(list), longer)
<1>1. more = PutOn(list, item)
    BY DEF PutOn
<1>2. IsList(list) /\ n \in Nat /\ DOMAIN list = 1 .. n /\ n # 0 /\ row = list[n] /\ n \in DOMAIN list
    BY ListsAre, EmptyList DEF Lined, Last
<1>3. IsLine(row) /\ item.y <= row.y
    BY <1>2 DEF Lined
<1>4. IsList(Front(list)) /\ Len(Front(list)) = n - 1 /\ \A k \in 1 .. n - 1 : Front(list)[k] = list[k]
    <2> DEFINE f == Front(list)
    <2>1. f = [k \in 1 .. n - 1 |-> list[k]]
        BY <1>2 DEF Front
    <2>2. f = [k \in 1 .. n - 1 |-> f[k]] /\ n - 1 \in Nat
        BY <1>2, <2>1
    <2>3. \A k \in 1 .. n - 1 : f[k] = list[k]
        BY <2>1
    <2> HIDE DEF f
    <2>4. IsList(f) /\ Len(f) = n - 1
        BY <2>2, AListOf
    <2> QED
        BY <2>3, <2>4 DEF f
<1>5. IsLine(longer) /\ longer.y = row.y /\ ToSet(longer.members) = ToSet(row.members) \union {item}
    <2> DEFINE members == Append(row.members, item)
               size == IF item.size > row.size THEN item.size ELSE row.size
    <2>1. IsList(members) /\ ToSet(members) = ToSet(row.members) \union {item}
        BY <1>3, ListAppended DEF IsLine
    <2>2. size \in Int /\ size >= row.size /\ item.y \in Int /\ row.size \in Int /\ row.y \in Int
        BY <1>3 DEF IsLine, IsText, Point
    <2>3. longer = [row EXCEPT !.members = members, !.size = size]
        OBVIOUS
    <2>4. RowTolerance(row.size) <= RowTolerance(size) /\ RowTolerance(size) \in Int /\ RowTolerance(row.size) \in Int
        BY <2>2, Tolerance
    <2>5. row.y - item.y <= RowTolerance(row.size)
        BY <1>3, <2>2 DEF Joins, Distance
    <2> HIDE DEF members, size, longer, row
    <2>6. longer.y = row.y /\ longer.members = members /\ longer.size = size /\ DOMAIN longer = {"y", "size", "members"}
        BY <1>3, <2>3 DEF IsLine
    <2>7. \A a \in ToSet(row.members) : a.y \in Int /\ a.y <= row.y /\ row.y - a.y <= RowTolerance(size)
        BY <1>3, <2>2, <2>4 DEF IsLine
    <2>8. item.y <= row.y /\ row.y - item.y <= RowTolerance(size)
        BY <1>3, <2>2, <2>4, <2>5
    <2> QED
        BY <2>1, <2>2, <2>6, <2>7, <2>8 DEF IsLine
<1> DEFINE front == Front(list)
<1>6. \A b : b \in ToSet(longer.members) => b \in ToSet(row.members) \/ b = item
    BY <1>5
<1> HIDE DEF longer, row, front
<1>7. /\ IsList(more) /\ Len(more) = n
      /\ \A k \in 1 .. n - 1 : more[k] = list[k]
      /\ more[n] = longer
    <2>1. IsList(front) /\ Len(front) = n - 1 /\ \A k \in 1 .. n - 1 : front[k] = list[k]
        BY <1>4 DEF front
    <2> DEFINE g == Append(front, longer)
    <2>2. /\ IsList(g) /\ Len(g) = Len(front) + 1
          /\ \A k \in 1 .. Len(front) : g[k] = front[k]
          /\ g[Len(front) + 1] = longer
        BY <2>1, ListAppended
    <2> HIDE DEF g
    <2>3. IsList(g) /\ Len(g) = n /\ (\A k \in 1 .. n - 1 : g[k] = list[k]) /\ g[n] = longer
        BY <1>2, <2>1, <2>2
    <2> QED
        BY <2>3 DEF g, front
<1> HIDE DEF more, n
<1>8. DOMAIN more = 1 .. n
    BY <1>7, ListsAre
<1>9. \A k \in 1 .. n : k \in 1 .. n - 1 \/ k = n
    <2>1. n \in Nat
        BY <1>2
    <2> QED
        BY <2>1
<1>10. \A k \in DOMAIN more : k \in DOMAIN list /\ more[k].y = list[k].y
    BY <1>2, <1>5, <1>7, <1>8, <1>9
<1>11. \A k \in DOMAIN more : IsLine(more[k])
    <2>1. \A k \in 1 .. n - 1 : k \in DOMAIN list
        BY <1>2
    <2> QED
        BY <1>5, <1>7, <1>8, <1>9, <2>1 DEF Lined
<1>12. ASSUME NEW k \in DOMAIN more, NEW j \in DOMAIN more, k < j, NEW a \in ToSet(more[k].members)
       PROVE  a.y > more[j].y
    <2>1. k \in 1 .. n - 1
        <3>1. n \in Nat
            BY <1>2
        <3> QED
            BY <3>1, <1>8, <1>12
    <2>2. a \in ToSet(list[k].members)
        BY <1>7, <1>12, <2>1
    <2>3. a.y > list[j].y
        BY <1>2, <1>8, <1>12, <2>2 DEF Lined
    <2> QED
        BY <1>10, <2>3
<1> QED
    BY <1>1, <1>7, <1>10, <1>11, <1>12 DEF Lined

(* A text no higher than the lines keeps them apart, on a line or below.   *)
LEMMA PutOnLined ==
    ASSUME NEW list, Lined(list), NEW item, IsText(item),
           \A k \in DOMAIN list : item.y <= list[k].y
    PROVE  /\ Lined(PutOn(list, item))
           /\ \A k \in DOMAIN PutOn(list, item) :
                 \/ PutOn(list, item)[k].y = item.y
                 \/ k \in DOMAIN list /\ PutOn(list, item)[k].y = list[k].y
<1> DEFINE more == Append(list, NewRow(item))
<1>1. CASE list # <<>> /\ Joins(Last(list), item)
    BY <1>1, LineLengthened
<1>2. CASE list = <<>> \/ ~Joins(Last(list), item)
    <2>1. PutOn(list, item) = more
        BY <1>2 DEF PutOn
    <2>2. IsList(list) /\ Len(list) \in Nat /\ DOMAIN list = 1 .. Len(list)
        BY ListsAre DEF Lined
    <2>3. ASSUME NEW k \in DOMAIN list, NEW a \in ToSet(list[k].members) PROVE a.y > item.y
        <3> DEFINE n == Len(list)
        <3>1. n \in DOMAIN list /\ list # <<>> /\ Last(list) = list[n]
            BY <2>2, <2>3 DEF Last
        <3>2. CASE k = n
            <4> DEFINE row == list[n]
            <4>1. IsLine(row) /\ ~Joins(row, item) /\ item.y <= row.y /\ a \in ToSet(row.members)
                BY <1>2, <3>1, <3>2 DEF Lined
            <4> HIDE DEF row
            <4>2. /\ row.y \in Int /\ item.y \in Int /\ a.y \in Int /\ RowTolerance(row.size) \in Int
                  /\ row.y - a.y <= RowTolerance(row.size)
                BY <4>1, Tolerance DEF IsLine, IsText, Point
            <4>3. row.y - item.y > RowTolerance(row.size)
                BY <4>1, <4>2 DEF Joins, Distance
            <4> QED
                BY <4>2, <4>3
        <3>3. CASE k # n
            <4>1. k < n
                BY <2>2, <3>3
            <4>2. a.y > list[n].y /\ item.y <= list[n].y /\ IsLine(list[n]) /\ IsLine(list[k])
                BY <2>3, <3>1, <4>1 DEF Lined
            <4>3. list[n].y \in Int /\ a.y \in Int /\ item.y \in Int
                BY <4>2 DEF IsLine, IsText, Point
            <4> QED
                BY <4>2, <4>3
        <3> QED
            BY <3>2, <3>3
    <2>4. Lined(more)
        BY <2>3, LineBegun
    <2>5. /\ Len(more) = Len(list) + 1 /\ IsList(more)
          /\ \A k \in 1 .. Len(list) : more[k] = list[k]
          /\ more[Len(list) + 1] = NewRow(item)
        BY <2>2, ListAppended
    <2>6. NewRow(item).y = item.y
        BY DEF NewRow
    <2> HIDE DEF more
    <2>7. DOMAIN more = 1 .. Len(list) + 1
        BY <2>5, ListsAre
    <2> QED
        BY <2>1, <2>2, <2>4, <2>5, <2>6, <2>7
<1> QED
    BY <1>1, <1>2

(* The content of a page in hand, and the lines made of it: what is still  *)
(* to be put on them stands no higher than any of them.                    *)
InLine ==
    /\ Located(graphics)
    /\ IsList(program) /\ \A o \in ToSet(program) : IsOperator(o)
    /\ IsList(items) /\ \A item \in ToSet(items) : IsText(item)
    /\ Lined(lines)
    /\ stage = "rows" =>
          /\ Descending(items)
          /\ \A item \in ToSet(items) : \A k \in DOMAIN lines : item.y <= lines[k].y

LEMMA BeginsInLine == ASSUME ImportInit PROVE InLine
<1>1. stage = "objects" /\ graphics = Fresh /\ program = <<>> /\ items = <<>> /\ lines = <<>>
    BY Zenon DEF ImportInit, Init
<1> QED
    BY <1>1, FreshLocated, NothingListed, NoLines DEF InLine

LEMMA OpenStreamInLine == ASSUME InHand, InLine, OpenStream PROVE InLine'
<1> DEFINE object == objects[Head(streams).ref]
<1>1. /\ stage = "content" /\ streams # <<>> /\ graphics' = Fresh
      /\ program' = <<>> \/ (object.stream # Absent /\ program' = object.stream.program)
      /\ UNCHANGED <<stage, items, lines>>
    BY DEF OpenStream
<1>2. object \in Dictionaries
    <2>1. InFile(streams, objects)
        BY <1>1 DEF InHand, Staged
    <2>2. Head(streams).ref \in DOMAIN objects
        BY <1>1, <2>1, ListTaken DEF InFile
    <2> QED
        BY <2>2 DEF InHand, Kept
<1>3. IsList(program') /\ \A o \in ToSet(program') : IsOperator(o)
    <2>1. CASE program' = <<>>
        BY <2>1, NothingListed
    <2>2. CASE object.stream # Absent /\ program' = object.stream.program
        BY <1>2, <2>2, DocumentsAssumption DEF ToSet
    <2> QED
        BY <1>1, <2>1, <2>2
<1>4. stage' # "rows"
    BY <1>1
<1> QED
    BY <1>1, <1>3, <1>4, FreshLocated DEF InLine

LEMMA OperateInLine == ASSUME InHand, InLine, Operate PROVE InLine'
<1> DEFINE o == Head(program)
           after == AfterOperator(graphics, o)
           shown == Shown(after, o)
<1>1. /\ stage = "content" /\ program # <<>> /\ graphics' = after /\ items' = items \o shown
      /\ program' = Tail(program) /\ UNCHANGED <<stage, lines>>
    BY Zenon DEF Operate
<1>2. IsList(program') /\ ToSet(program') \subseteq ToSet(program) /\ o \in ToSet(program)
    BY <1>1, ListTaken DEF InLine
<1>3. IsOperator(o)
    BY <1>2 DEF InLine
<1>4. Located(after)
    BY <1>3, StaysLocated DEF InLine
<1> HIDE DEF after, o
<1>5. IsList(shown) /\ \A item \in ToSet(shown) : IsText(item)
    BY <1>3, <1>4, TextsShown
<1> HIDE DEF shown
<1>6. IsList(items') /\ ToSet(items') = ToSet(items) \union ToSet(shown)
    BY <1>1, <1>5, ListsJoined DEF InLine
<1> QED
    BY <1>1, <1>2, <1>4, <1>5, <1>6 DEF InLine

LEMMA ClosePageInLine == ASSUME InHand, InLine, ClosePage PROVE InLine'
<1>1. items' = SortedBy(items, Higher) /\ lines' = <<>> /\ UNCHANGED <<graphics, program>>
    BY DEF ClosePage
<1>2. IsList(items) /\ Placed(items)
    BY DEF InLine, Placed, IsText, Point, ToSet
<1>3. IsList(items') /\ ToSet(items') \subseteq ToSet(items) /\ Descending(items')
    BY <1>1, <1>2, HigherFirst
<1>4. DOMAIN lines' = {}
    BY <1>1
<1> QED
    BY <1>1, <1>3, <1>4, NoLines DEF InLine

LEMMA PutItemInLine == ASSUME InHand, InLine, PutItem PROVE InLine'
<1> DEFINE item == Head(items)
           more == PutOn(lines, item)
<1>1. /\ stage = "rows" /\ items # <<>> /\ items' = Tail(items) /\ lines' = more
      /\ UNCHANGED <<stage, graphics, program>>
    BY Zenon DEF PutItem
<1>2. /\ IsList(items) /\ IsList(Tail(items)) /\ Len(Tail(items)) = Len(items) - 1
      /\ item = items[1]
      /\ \A k \in 1 .. Len(items) - 1 : Tail(items)[k] = items[k + 1]
      /\ ToSet(items) = {item} \union ToSet(Tail(items))
    BY <1>1, ListTaken DEF InLine
<1>3. /\ Len(items) \in Nat /\ DOMAIN items = 1 .. Len(items) /\ Len(items) # 0
      /\ DOMAIN Tail(items) = 1 .. Len(items) - 1
    BY <1>1, <1>2, ListsAre, EmptyList
<1>4. IsText(item) /\ \A k \in DOMAIN lines : item.y <= lines[k].y
    BY <1>1, <1>2 DEF InLine
<1>5. Descending(items)
    BY <1>1 DEF InLine
<1> DEFINE rest == Tail(items)
<1>6. Descending(rest) /\ \A next \in ToSet(rest) : next.y <= item.y
    <2>1. \A k \in DOMAIN rest : rest[k] = items[k + 1] /\ k + 1 \in DOMAIN items /\ 1 \in DOMAIN items /\ k \in Int /\ 1 < k + 1
        BY <1>2, <1>3
    <2> HIDE DEF rest
    <2>2. \A k, l \in DOMAIN rest : k < l => k + 1 < l + 1
        BY <2>1
    <2>3. Descending(rest)
        BY <1>5, <2>1, <2>2 DEF Descending
    <2>4. \A k \in DOMAIN rest : items[1].y >= rest[k].y
        BY <1>5, <2>1 DEF Descending
    <2>5. \A next \in ToSet(rest) : item.y >= next.y
        BY <1>2, <2>4 DEF ToSet
    <2>6. \A next \in ToSet(rest) : next.y \in Int /\ item.y \in Int
        BY <1>2, <1>4 DEF InLine, IsText, Point, rest
    <2> QED
        BY <2>3, <2>5, <2>6
<1> HIDE DEF item
<1>7. /\ Lined(more)
      /\ \A k \in DOMAIN more : more[k].y = item.y \/ (k \in DOMAIN lines /\ more[k].y = lines[k].y)
    BY <1>4, PutOnLined DEF InLine
<1> HIDE DEF more
<1>8. \A next \in ToSet(rest) : \A k \in DOMAIN lines : next.y <= lines[k].y
    BY <1>1, <1>2 DEF InLine
<1>9. \A next \in ToSet(rest) : \A k \in DOMAIN more : next.y <= more[k].y
    BY <1>6, <1>7, <1>8
<1>10. IsList(rest) /\ \A next \in ToSet(rest) : IsText(next)
    BY <1>2 DEF InLine
<1> HIDE DEF rest
<1>11. items' = rest
    BY <1>1 DEF rest
<1> QED
    BY <1>1, <1>6, <1>7, <1>9, <1>10, <1>11 DEF InLine

LEMMA StaysInLine == ASSUME InHand, InLine, [Next]_vars PROVE InLine'
<1>1. CASE UNCHANGED reader
    BY <1>1 DEF reader, InLine
<1>2. CASE Refuse
    <2>1. stage' = "done" /\ UNCHANGED <<graphics, program, items, lines>>
        BY <1>2, Zenon DEF Refuse
    <2> QED
        BY <2>1 DEF InLine
<1>3. CASE ScanObject
    <2>1. UNCHANGED <<stage, graphics, program, items, lines>>
        BY <1>3, Zenon DEF ScanObject
    <2> QED
        BY <2>1 DEF InLine
<1>4. CASE CollectPages
    <2>1. stage' # "rows" /\ UNCHANGED <<graphics, program, items, lines>>
        BY <1>4 DEF CollectPages
    <2> QED
        BY <2>1 DEF InLine
<1>5. CASE Visit
    <2>1. UNCHANGED <<stage, graphics, program, items, lines>>
        BY <1>5, Zenon DEF Visit
    <2> QED
        BY <2>1 DEF InLine
<1>6. CASE TreeRead
    <2>1. stage' = "pages" /\ UNCHANGED <<graphics, program, items, lines>>
        BY <1>6, Zenon DEF TreeRead
    <2> QED
        BY <2>1 DEF InLine
<1>7. CASE OpenPage
    <2>1. stage' = "content" /\ items' = <<>> /\ UNCHANGED <<graphics, program, lines>>
        BY <1>7, Zenon DEF OpenPage
    <2> QED
        BY <2>1, NothingListed DEF InLine
<1>8. CASE OpenStream
    BY <1>8, OpenStreamInLine
<1>9. CASE Operate
    BY <1>9, OperateInLine
<1>10. CASE ClosePage
    BY <1>10, ClosePageInLine
<1>11. CASE PutItem
    BY <1>11, PutItemInLine
<1>12. CASE KeepRows
    <2>1. stage' = "pages" /\ UNCHANGED <<graphics, program, items, lines>>
        BY <1>12, Zenon DEF KeepRows
    <2> QED
        BY <2>1 DEF InLine
<1>13. CASE Finish
    <2>1. stage' = "done" /\ UNCHANGED <<graphics, program, items, lines>>
        BY <1>13, Zenon DEF Finish
    <2> QED
        BY <2>1 DEF InLine
<1> QED
    BY <1>1, <1>2, <1>3, <1>4, <1>5, <1>6, <1>7, <1>8, <1>9, <1>10, <1>11, <1>12, <1>13
    DEF Next, vars, Reading, ReaderStep, Parse, Correct, SaveReceipt, Refused, Recorded, NotWritten

LEMMA InLineApart == ASSUME InLine PROVE LinesApart
BY ToldApart DEF InLine, LinesApart

(***************************************************************************)
(* The tree of the pages.                                                  *)
(***************************************************************************)
Depths == 0 .. MaxDepth
Place(frame) == <<frame.value, frame.resources>>
PendingAt(depth) == {Place(frame) : frame \in {f \in ToSet(pending) : f.depth = depth}}

(* grown[d] are the places at a depth that were visited.                   *)
GrownAs(grown) ==
    /\ DOMAIN grown = Depths
    /\ grown[0] \union PendingAt(0) = Roots
    /\ \A depth \in Depths : depth # 0 => grown[depth] \union PendingAt(depth) = Below(grown[depth - 1])
    /\ ToSet(pages) = PagesOf(UNION {grown[depth] : depth \in Depths})

Grown ==
    stage = "tree" =>
        /\ \A frame \in ToSet(pending) : frame.depth \in Nat
        /\ Catalogs = {} => pages = <<>>
        /\ Catalogs = {} => pending = <<>>
        /\ Catalogs # {} => \E grown : GrownAs(grown)

LEMMA DepthsAre ==
    /\ 0 \in Depths
    /\ \A d \in Depths : d \in Nat /\ (d # 0 => d - 1 \in Depths)
    /\ \A d \in Nat : d <= MaxDepth <=> d \in Depths
BY MaxDepthAssumption DEF Depths

(* The levels are the only sequence of sets that begins at the roots and   *)
(* goes on with what hangs from the last.                                  *)
LEMMA LevelsGrown ==
    ASSUME NEW grown, DOMAIN grown = Depths, grown = [d \in Depths |-> grown[d]],
           grown[0] = Roots, \A d \in Depths : d # 0 => grown[d] = Below(grown[d - 1])
    PROVE  \A d \in Depths : Level[d] = grown[d]
<1> DEFINE Fits(level) == level = [depth \in 0 .. MaxDepth |-> IF depth = 0 THEN Roots ELSE Below(level[depth - 1])]
<1>1. Fits(grown)
    BY DepthsAre DEF Depths
<1>2. Level = CHOOSE level : Fits(level)
    BY DEF Level
<1>3. Fits(Level)
    <2> HIDE DEF Fits
    <2> QED
        BY <1>1, <1>2
<1>4. \A d \in Depths : Level[d] = IF d = 0 THEN Roots ELSE Below(Level[d - 1])
    <2> DEFINE level == Level
    <2>1. level = [depth \in 0 .. MaxDepth |-> IF depth = 0 THEN Roots ELSE Below(level[depth - 1])]
        BY <1>3
    <2> HIDE DEF level, Fits
    <2>2. \A d \in Depths : level[d] = IF d = 0 THEN Roots ELSE Below(level[d - 1])
        BY <2>1 DEF Depths
    <2> QED
        BY <2>2 DEF level
<1> HIDE DEF Fits
<1> DEFINE wrong == {d \in Depths : Level[d] # grown[d]}
<1>5. ASSUME wrong # {} PROVE FALSE
    <2>0. PICK m \in wrong : \A d \in wrong : ~(d < m)
        <3> DEFINE less == {p \in Nat \X Nat : p[1] < p[2]}
        <3>1. IsWellFoundedOn(less, Nat)
            BY NatLessThanWellFounded DEF OpToRel
        <3>2. wrong \subseteq Nat
            BY DepthsAre
        <3> HIDE DEF less, wrong
        <3>3. PICK m \in wrong : \A d \in wrong : <<d, m>> \notin less
            BY <1>5, <3>1, <3>2, WFMin
        <3>4. \A d \in wrong : ~(d < m)
            BY <3>2, <3>3 DEF less
        <3> QED
            BY <3>4
    <2>1. m \in Depths /\ Level[m] # grown[m]
        OBVIOUS
    <2>2. m # 0
        BY <1>4, <2>1, DepthsAre
    <2>3. m - 1 \in Depths /\ m - 1 \in Nat /\ m - 1 < m
        BY <2>1, <2>2, DepthsAre
    <2>4. Level[m - 1] = grown[m - 1]
        BY <2>0, <2>3
    <2> QED
        BY <1>4, <2>1, <2>2, <2>4
<1> QED
    BY <1>5

(* The root is the Catalog of the lowest number.                           *)
LEMMA FirstCatalog ==
    ASSUME Kept, Catalogs # {}
    PROVE  /\ Numbered("Catalog") # <<>>
           /\ Roots = {<<objects[Head(Numbered("Catalog"))].pages, Absent>>}
<1> DEFINE list == Numbered("Catalog")
<1>1. /\ IsList(list) /\ ToSet(list) = Catalogs
      /\ \A k, l \in DOMAIN list : k < l => list[k] < list[l]
    BY NumbersListed DEF Catalogs
<1> HIDE DEF list
<1>2. list # <<>>
    BY <1>1, EmptyList
<1>3. Len(list) \in Nat /\ Len(list) # 0 /\ DOMAIN list = 1 .. Len(list) /\ Head(list) = list[1]
    BY <1>1, <1>2, ListsAre, EmptyList, ListTaken
<1>4. Catalogs \subseteq Int
    BY DEF Catalogs, Kept
<1>5. list[1] \in Catalogs /\ \A m \in Catalogs : list[1] <= m
    <2>1. \A k \in DOMAIN list : k = 1 \/ 1 < k
        BY <1>3
    <2>2. \A k \in DOMAIN list : list[k] \in Catalogs /\ list[k] \in Int
        BY <1>1, <1>4 DEF ToSet
    <2>3. \A k \in DOMAIN list : list[1] <= list[k]
        BY <1>1, <1>3, <2>1, <2>2
    <2> QED
        BY <1>1, <1>3, <2>2, <2>3 DEF ToSet
<1>6. Min(Catalogs) = list[1]
    <2>1. \A m \in Catalogs : (\A n \in Catalogs : m <= n) => m = list[1]
        <3> TAKE m \in Catalogs
        <3> HAVE \A n \in Catalogs : m <= n
        <3>1. m \in Int /\ list[1] \in Int
            BY <1>4, <1>5
        <3>2. m <= list[1] /\ list[1] <= m
            BY <1>5
        <3> QED
            BY <3>1, <3>2
    <2>2. Min(Catalogs) \in Catalogs /\ \A n \in Catalogs : Min(Catalogs) <= n
        <3>1. \E m \in Catalogs : \A n \in Catalogs : m <= n
            BY <1>5
        <3>2. Min(Catalogs) = CHOOSE m \in Catalogs : \A n \in Catalogs : m <= n
            BY DEF Min
        <3> QED
            BY <3>1, <3>2
    <2> QED
        BY <2>1, <2>2
<1> QED
    BY <1>2, <1>3, <1>6 DEF Roots, list

LEMMA BelowMore ==
    /\ Below({}) = {}
    /\ \A S, p : Below(S \union {p}) = Below(S) \union Hung(p)
BY DEF Below

LEMMA PagesMore ==
    /\ PagesOf({}) = {}
    /\ \A S, p : PagesOf(S \union {p}) = PagesOf(S) \union (IF HoldsPage(p) THEN {PageAt(p)} ELSE {})
BY DEF PagesOf

LEMMA CollectGrown == ASSUME InHand, CollectPages PROVE Grown'
<1> SUFFICES ASSUME stage' = "tree" PROVE Grown'
    BY DEF Grown
<1>1. /\ stage = "objects" /\ UNCHANGED <<objects, pages>>
      /\ pending' = IF Numbered("Catalog") = <<>> THEN <<>>
                    ELSE <<Frame(objects[Head(Numbered("Catalog"))].pages, Absent, 0)>>
    BY DEF CollectPages
<1>2. pages' = <<>>
    BY <1>1 DEF InHand, Staged
<1>3. Catalogs' = Catalogs /\ Roots' = Roots
    BY <1>1 DEF Catalogs, Roots
<1>4. CASE Catalogs = {}
    <2>1. IsList(Numbered("Catalog")) /\ ToSet(Numbered("Catalog")) = Catalogs
        BY NumbersListed DEF InHand, Catalogs
    <2>2. pending' = <<>>
        BY <1>1, <1>4, <2>1, EmptyList
    <2> QED
        BY <1>2, <1>3, <1>4, <2>2, NothingListed DEF Grown
<1>5. CASE Catalogs # {}
    <2> DEFINE root == objects[Head(Numbered("Catalog"))].pages
    <2>1. pending' = <<Frame(root, Absent, 0)>> /\ Roots = {<<root, Absent>>}
        BY <1>1, <1>5, FirstCatalog DEF InHand
    <2> HIDE DEF root
    <2>2. ToSet(pending') = {Frame(root, Absent, 0)}
        BY <2>1 DEF ToSet
    <2> DEFINE grown == [d \in Depths |-> {}]
    <2>3. PendingAt(0)' = Roots
        BY <2>1, <2>2 DEF PendingAt, Place, Frame
    <2>4. \A d \in Depths : d # 0 => PendingAt(d)' = {}
        BY <2>2 DEF PendingAt, Frame
    <2>5. Below({})' = {} /\ PagesOf({})' = {}
        BY DEF Below, PagesOf
    <2>6. ToSet(pages') = {}
        BY <1>2, NothingListed
    <2>7. UNION {grown[d] : d \in Depths} = {}
        OBVIOUS
    <2>8. /\ grown[0] = {} /\ DOMAIN grown = Depths
          /\ \A d \in Depths : grown[d] = {} /\ (d # 0 => grown[d - 1] = {})
        BY DepthsAre
    <2> HIDE DEF grown
    <2>9. GrownAs(grown)'
        BY <1>3, <2>3, <2>4, <2>5, <2>6, <2>7, <2>8 DEF GrownAs
    <2>10. \A frame \in ToSet(pending') : frame.depth \in Nat
        BY <2>2 DEF Frame
    <2> QED
        BY <1>3, <1>5, <2>9, <2>10 DEF Grown
<1> QED
    BY <1>4, <1>5

LEMMA TreeStays ==
    ASSUME objects' = objects
    PROVE  /\ Catalogs' = Catalogs /\ Roots' = Roots
           /\ \A S : Below(S)' = Below(S)
           /\ \A S : PagesOf(S)' = PagesOf(S)
<1>1. \A v : Resolve(v)' = Resolve(v)
    BY DEF Resolve
<1>2. \A v : Dictionary(v)' = Dictionary(v)
    BY <1>1 DEF Dictionary
<1>3. \A p : Hung(p)' = Hung(p)
    BY <1>1, <1>2 DEF Hung
<1>4. \A d : ContentObjects(d)' = ContentObjects(d)
    BY <1>1 DEF ContentObjects
<1>5. \A p : HoldsPage(p)' = HoldsPage(p) /\ PageAt(p)' = PageAt(p)
    BY <1>2, <1>4 DEF HoldsPage, PageAt
<1> QED
    BY <1>3, <1>5 DEF Catalogs, Roots, Below, PagesOf

LEMMA PlacesOfFrames ==
    ASSUME NEW kids, NEW resources, NEW depth
    PROVE  {Place(f) : f \in {Frame(kid, resources, depth) : kid \in kids}} = {<<kid, resources>> : kid \in kids}
<1> DEFINE F == {Frame(kid, resources, depth) : kid \in kids}
           P == {<<kid, resources>> : kid \in kids}
<1>1. \A kid : Place(Frame(kid, resources, depth)) = <<kid, resources>>
    BY DEF Place, Frame
<1>2. ASSUME NEW f \in F PROVE Place(f) \in P
    BY <1>1
<1>3. ASSUME NEW p \in P PROVE \E f \in F : p = Place(f)
    <2>1. PICK kid \in kids : p = <<kid, resources>>
        BY <1>3
    <2>2. Frame(kid, resources, depth) \in F
        OBVIOUS
    <2> QED
        BY <1>1, <2>1, <2>2
<1> HIDE DEF F, P
<1>4. {Place(f) : f \in F} = P
    BY <1>2, <1>3
<1> QED
    BY <1>4 DEF F, P

(* What a turn of the walk does, said of sets.                             *)
LEMMA VisitDoes ==
    ASSUME InHand, Visit
    PROVE  LET frame == Head(pending)
               place == Place(frame)
               rest == ToSet(Tail(pending))
           IN  /\ ToSet(pending) = {frame} \union rest
               /\ \E new :
                     /\ ToSet(pending') = new \union rest
                     /\ IF frame.depth > MaxDepth THEN new = {}
                        ELSE /\ {Place(f) : f \in new} = Hung(place)
                             /\ \A f \in new : f.depth = frame.depth + 1
               /\ ToSet(pages') = ToSet(pages) \union
                     (IF ~(frame.depth > MaxDepth) /\ HoldsPage(place) THEN {PageAt(place)} ELSE {})
<1> DEFINE frame == Head(pending)
           place == Place(frame)
           rest == Tail(pending)
           deep == frame.depth > MaxDepth
           node == IF frame.depth > MaxDepth THEN Absent ELSE Dictionary(frame.value)
           resources == ResourcesOf(node, frame.resources)
           kids == Resolve(node.kids)
           frames == [k \in DOMAIN kids.array |-> Frame(kids.array[k], resources, frame.depth + 1)]
<1>1. pending # <<>>
    BY DEF Visit
<1>2. IsList(pending) /\ IsList(rest) /\ ToSet(pending) = {frame} \union ToSet(rest)
    BY <1>1, ListTaken DEF InHand, ToVisit
<1>3. place[1] = frame.value /\ place[2] = frame.resources
    BY DEF Place
<1>4. node \in Dictionaries \union {Absent}
    <2>1. IsValue(frame.value)
        BY <1>2 DEF InHand, ToVisit
    <2> QED
        BY <2>1, DictionaryIs DEF InHand
<1>5. IsList(pages)
    BY DEF InHand, Found
<1>6. ~deep => node = Dictionary(place[1])
    BY <1>3
<1>7. deep => node = Absent
    OBVIOUS
<1>8. node # Absent => ~deep /\ resources = Nearest(node, place[2])
    BY <1>3, <1>7 DEF ResourcesOf, Nearest
<1>9. CASE node = Absent /\ pending' = rest /\ pages' = pages
    <2>1. ~deep => Hung(place) = {} /\ ~HoldsPage(place)
        BY <1>6, <1>9 DEF Hung, HoldsPage, IsArray
    <2> HIDE DEF node, place, deep
    <2>2. ToSet(pending') = {} \union ToSet(rest) /\ {Place(f) : f \in {}} = {}
        BY <1>9
    <2> QED
        BY <1>2, <1>9, <2>1, <2>2 DEF deep, place
<1>10. CASE /\ node # Absent /\ node.type = "Page" /\ pending' = rest
            /\ pages' = Append(pages, PageOf(node, resources))
    <2>1. PageOf(node, resources) = PageAt(place)
        BY <1>6, <1>8, <1>10 DEF PageOf, PageAt
    <2>2. Hung(place) = {} /\ HoldsPage(place) /\ ~deep
        BY <1>6, <1>8, <1>10 DEF Hung, HoldsPage
    <2> HIDE DEF node, place, deep, resources
    <2>3. ToSet(pages') = ToSet(pages) \union {PageAt(place)}
        BY <1>5, <1>10, <2>1, ListAppended
    <2>4. ToSet(pending') = {} \union ToSet(rest) /\ {Place(f) : f \in {}} = {}
        BY <1>10
    <2> QED
        BY <1>2, <2>2, <2>3, <2>4 DEF deep, place
<1>11. CASE /\ node # Absent /\ node.type # "Page" /\ pages' = pages
            /\ pending' = (IF ~IsArray(kids) THEN <<>> ELSE frames) \o rest
    <2>1. ~HoldsPage(place) /\ ~deep
        BY <1>6, <1>8, <1>11 DEF HoldsPage
    <2> DEFINE new == IF ~IsArray(kids) THEN <<>> ELSE frames
    <2>2. /\ IsList(new) /\ {Place(f) : f \in ToSet(new)} = Hung(place)
          /\ \A f \in ToSet(new) : f.depth = frame.depth + 1
        <3>1. CASE ~IsArray(kids)
            <4>1. Hung(place) = {}
                BY <1>6, <1>8, <1>11, <3>1 DEF Hung
            <4> QED
                BY <3>1, <4>1, NothingListed
        <3>2. CASE IsArray(kids)
            <4>1. node \in Dictionaries
                BY <1>4, <1>11
            <4>2. /\ IsList(frames)
                  /\ ToSet(frames) = {Frame(kid, resources, frame.depth + 1) : kid \in ToSet(kids.array)}
                <5> HIDE DEF node, resources, frame
                <5> QED
                    BY <3>2, <4>1, KidsListed
            <4>3. Hung(place) = {<<kids.array[k], resources>> : k \in DOMAIN kids.array}
                BY <1>6, <1>8, <1>11, <3>2 DEF Hung
            <4>4. Hung(place) = {<<kid, resources>> : kid \in ToSet(kids.array)}
                <5> HIDE DEF node, resources, frame, kids, place
                <5> QED
                    BY <4>3 DEF ToSet
            <4>5. new = frames
                BY <3>2
            <4> HIDE DEF node, resources, frame, kids, place, frames, new
            <4>6. {Place(f) : f \in ToSet(frames)} = Hung(place)
                BY <4>2, <4>4, PlacesOfFrames
            <4>7. \A f \in ToSet(frames) : f.depth = frame.depth + 1
                BY <4>2 DEF Frame
            <4> QED
                BY <4>2, <4>5, <4>6, <4>7
        <3> QED
            BY <3>1, <3>2
    <2>3. pending' = new \o rest
        BY <1>11
    <2> HIDE DEF new, place, deep, node, frame
    <2>4. ToSet(pending') = ToSet(new) \union ToSet(rest)
        BY <1>2, <2>2, <2>3, ListsJoined
    <2> QED
        BY <1>2, <1>11, <2>1, <2>2, <2>4 DEF deep, place, frame
<1> QED
    BY <1>9, <1>10, <1>11 DEF Visit

(* One place of the tree moves from those to visit to those visited, and   *)
(* what hangs from it is to be visited.                                    *)
LEMMA PendingMoves ==
    ASSUME NEW all, NEW frame, NEW rest, all = {frame} \union rest,
           NEW after, NEW new, after = new \union rest, NEW d
    PROVE  LET at(S) == {Place(g) : g \in {f \in S : f.depth = d}}
           IN  /\ at(all) = at(rest) \union (IF frame.depth = d THEN {Place(frame)} ELSE {})
               /\ (\A f \in new : f.depth = d) => at(after) = at(rest) \union {Place(g) : g \in new}
               /\ (\A f \in new : f.depth # d) => at(after) = at(rest)
<1> DEFINE at(S) == {Place(g) : g \in {f \in S : f.depth = d}}
<1>1. \A S, T : at(S \union T) = at(S) \union at(T)
    OBVIOUS
<1>2. at({frame}) = IF frame.depth = d THEN {Place(frame)} ELSE {}
    OBVIOUS
<1>3. (\A f \in new : f.depth = d) => at(new) = {Place(g) : g \in new}
    OBVIOUS
<1>4. (\A f \in new : f.depth # d) => at(new) = {}
    OBVIOUS
<1> HIDE DEF at
<1>5. at(all) = at(rest) \union (IF frame.depth = d THEN {Place(frame)} ELSE {})
    BY <1>1, <1>2
<1>6. at(after) = at(new) \union at(rest)
    BY <1>1
<1> QED
    BY <1>3, <1>4, <1>5, <1>6 DEF at

LEMMA VisitGrown == ASSUME InHand, Grown, Visit PROVE Grown'
<1> DEFINE frame == Head(pending)
           place == Place(frame)
           n == frame.depth
           rest == ToSet(Tail(pending))
           restAt(d) == {Place(g) : g \in {f \in rest : f.depth = d}}
<1>1. stage = "tree" /\ pending # <<>> /\ objects' = objects
    BY DEF Visit
<1>2. /\ Catalogs' = Catalogs /\ Roots' = Roots
      /\ \A S : Below(S)' = Below(S)
      /\ \A S : PagesOf(S)' = PagesOf(S)
    BY <1>1, TreeStays
<1>3. /\ \A f \in ToSet(pending) : f.depth \in Nat
      /\ Catalogs # {}
      /\ \E grown : GrownAs(grown)
    BY <1>1 DEF Grown
<1>4. PICK grown : GrownAs(grown)
    BY <1>3
<1>5. ToSet(pending) = {frame} \union rest
    BY VisitDoes
<1>6. PICK new :
          /\ ToSet(pending') = new \union rest
          /\ IF n > MaxDepth THEN new = {}
             ELSE /\ {Place(f) : f \in new} = Hung(place)
                  /\ \A f \in new : f.depth = n + 1
    BY VisitDoes
<1>7. ToSet(pages') = ToSet(pages) \union
          (IF ~(n > MaxDepth) /\ HoldsPage(place) THEN {PageAt(place)} ELSE {})
    BY VisitDoes
<1>8. n \in Nat /\ \A f \in rest : f.depth \in Nat
    BY <1>3, <1>5
<1> HIDE DEF frame, place, n, rest
<1>9. \A f \in ToSet(pending') : f.depth \in Nat
    BY <1>6, <1>8
<1>10. \A d : PendingAt(d) = restAt(d) \union (IF n = d THEN {place} ELSE {})
    BY <1>5, PendingMoves DEF PendingAt, n, place
<1>11. \A d : (\A f \in new : f.depth # d) => PendingAt(d)' = restAt(d)
    BY <1>5, <1>6, PendingMoves DEF PendingAt
<1>12. \A d : (\A f \in new : f.depth = d) => PendingAt(d)' = restAt(d) \union {Place(g) : g \in new}
    BY <1>5, <1>6, PendingMoves DEF PendingAt
<1> HIDE DEF restAt
<1>13. CASE n > MaxDepth
    <2>1. \A d \in Depths : n # d
        BY <1>8, <1>13, MaxDepthAssumption DEF Depths
    <2>2. \A d \in Depths : PendingAt(d)' = PendingAt(d)
        BY <1>6, <1>10, <1>11, <1>13, <2>1
    <2>3. ToSet(pages') = ToSet(pages)
        BY <1>7, <1>13
    <2>4. GrownAs(grown)'
        BY <1>2, <1>4, <2>2, <2>3, DepthsAre DEF GrownAs
    <2> QED
        BY <1>2, <1>3, <1>9, <2>4 DEF Grown
<1>14. CASE ~(n > MaxDepth)
    <2> PICK visited : visited = [d \in Depths |-> IF d = n THEN grown[d] \union {place} ELSE grown[d]]
        OBVIOUS
    <2>0. MaxDepth \in Nat
        BY MaxDepthAssumption
    <2>1. n \in Depths /\ n + 1 # 0 /\ n + 1 # n /\ n + 1 \in Nat
        BY <1>8, <1>14, <2>0, DepthsAre
    <2>2. /\ DOMAIN visited = Depths
          /\ visited[n] = grown[n] \union {place}
          /\ \A d \in Depths : d # n => visited[d] = grown[d]
        BY <2>1
    <2>3. \A d \in Depths : d # n + 1 => visited[d] \union PendingAt(d)' = grown[d] \union PendingAt(d)
        <3> TAKE d \in Depths
        <3> HAVE d # n + 1
        <3>1. PendingAt(d)' = restAt(d)
            BY <1>6, <1>11, <1>14
        <3>2. PendingAt(d) = restAt(d) \union (IF n = d THEN {place} ELSE {})
            BY <1>10
        <3>3. CASE d = n
            BY <2>2, <3>1, <3>2, <3>3
        <3>4. CASE d # n
            BY <2>2, <3>1, <3>2, <3>4
        <3> QED
            BY <3>3, <3>4
    <2>4. \A d \in Depths : d = n + 1 =>
            visited[d] \union PendingAt(d)' = (grown[d] \union PendingAt(d)) \union Hung(place)
        <3> TAKE d \in Depths
        <3> HAVE d = n + 1
        <3>0. (\A f \in new : f.depth = d) /\ {Place(g) : g \in new} = Hung(place)
            BY <1>6, <1>14
        <3>1. PendingAt(d)' = restAt(d) \union {Place(g) : g \in new}
            BY <1>12, <3>0
        <3>2. PendingAt(d) = restAt(d)
            BY <1>10, <2>1
        <3>3. visited[d] = grown[d]
            BY <2>1, <2>2
        <3> QED
            BY <3>0, <3>1, <3>2, <3>3
    <2>5. visited[0] \union PendingAt(0)' = Roots
        BY <1>4, <2>1, <2>3, DepthsAre DEF GrownAs
    <2>6. ASSUME NEW d \in Depths, d # 0 PROVE visited[d] \union PendingAt(d)' = Below(visited[d - 1])
        <3>1. d - 1 \in Depths /\ d \in Nat /\ grown[d] \union PendingAt(d) = Below(grown[d - 1])
            BY <1>4, <2>6, DepthsAre DEF GrownAs
        <3>2. CASE d = n + 1
            <4>1. d - 1 = n
                BY <2>1, <3>2, <1>8
            <4>2. Below(visited[n]) = Below(grown[n]) \union Hung(place)
                BY <2>2, BelowMore
            <4>3. visited[d] \union PendingAt(d)' = (grown[d] \union PendingAt(d)) \union Hung(place)
                BY <2>4, <3>2
            <4>4. grown[d] \union PendingAt(d) = Below(grown[n])
                BY <3>1, <4>1
            <4>5. visited[d - 1] = visited[n]
                BY <4>1
            <4> QED
                BY <4>2, <4>3, <4>4, <4>5
        <3>3. CASE d # n + 1
            <4>1. d - 1 # n
                BY <1>8, <3>1, <3>3
            <4>2. visited[d - 1] = grown[d - 1]
                BY <2>2, <3>1, <4>1
            <4> QED
                BY <2>3, <3>1, <3>3, <4>2
        <3> QED
            BY <3>2, <3>3
    <2>7. UNION {visited[d] : d \in Depths} = (UNION {grown[d] : d \in Depths}) \union {place}
        <3>1. \A x : (\E d \in Depths : x \in visited[d]) <=> (\E d \in Depths : x \in grown[d]) \/ x = place
            BY <2>1, <2>2
        <3> QED
            BY <3>1
    <2>8. ToSet(pages') = PagesOf(UNION {visited[d] : d \in Depths})
        <3> DEFINE S == UNION {grown[d] : d \in Depths}
        <3>1. ToSet(pages) = PagesOf(S)
            BY <1>4 DEF GrownAs
        <3> HIDE DEF S
        <3>2. PagesOf(S \union {place}) = PagesOf(S) \union (IF HoldsPage(place) THEN {PageAt(place)} ELSE {})
            BY PagesMore
        <3>3. ToSet(pages') = PagesOf(S \union {place})
            BY <1>7, <1>14, <3>1, <3>2
        <3> QED
            BY <2>7, <3>3 DEF S
    <2>9. GrownAs(visited)'
        BY <1>2, <2>2, <2>5, <2>6, <2>8 DEF GrownAs
    <2> QED
        BY <1>2, <1>3, <1>9, <2>9 DEF Grown
<1> QED
    BY <1>13, <1>14

LEMMA BeginsGrown == ASSUME ImportInit PROVE Grown
<1>1. stage = "objects"
    BY Zenon DEF ImportInit, Init
<1> QED
    BY <1>1 DEF Grown

LEMMA TreeRests == ASSUME Grown, UNCHANGED <<stage, objects, pending, pages>> PROVE Grown'
<1>1. /\ Catalogs' = Catalogs /\ Roots' = Roots
      /\ \A S : Below(S)' = Below(S)
      /\ \A S : PagesOf(S)' = PagesOf(S)
    BY TreeStays
<1>2. ASSUME NEW grown, GrownAs(grown) PROVE GrownAs(grown)'
    <2>1. \A d : PendingAt(d)' = PendingAt(d)
        BY DEF PendingAt
    <2> QED
        BY <1>1, <1>2, <2>1 DEF GrownAs
<1> QED
    BY <1>1, <1>2 DEF Grown

LEMMA StaysGrown == ASSUME InHand, Grown, [Next]_vars PROVE Grown'
<1>1. CASE UNCHANGED reader
    <2>1. UNCHANGED <<stage, objects, pending, pages>>
        BY <1>1, Zenon DEF reader
    <2> QED
        BY <2>1, TreeRests
<1>2. CASE CollectPages
    BY <1>2, CollectGrown
<1>3. CASE Visit
    BY <1>3, VisitGrown
<1>4. CASE ReaderStep /\ ~CollectPages /\ ~Visit
    <2>1. Refuse => stage' # "tree"
        BY Zenon DEF Refuse
    <2>2. ScanObject => stage' # "tree"
        BY Zenon DEF ScanObject
    <2>3. TreeRead => stage' # "tree"
        BY Zenon DEF TreeRead
    <2>4. OpenPage => stage' # "tree"
        BY Zenon DEF OpenPage
    <2>5. OpenStream => stage' # "tree"
        BY Zenon DEF OpenStream
    <2>6. Operate => stage' # "tree"
        BY Zenon DEF Operate
    <2>7. ClosePage => stage' # "tree"
        BY Zenon DEF ClosePage
    <2>8. PutItem => stage' # "tree"
        BY Zenon DEF PutItem
    <2>9. KeepRows => stage' # "tree"
        BY Zenon DEF KeepRows
    <2>10. Finish => stage' # "tree"
        BY Zenon DEF Finish
    <2>11. stage' # "tree"
        BY <1>4, <2>1, <2>2, <2>3, <2>4, <2>5, <2>6, <2>7, <2>8, <2>9, <2>10 DEF ReaderStep
    <2> QED
        BY <2>11 DEF Grown
<1> QED
    BY <1>1, <1>2, <1>3, <1>4
    DEF Next, vars, Reading, Parse, Correct, SaveReceipt, Refused, Recorded, NotWritten

(* When nothing is left to visit, what was visited is the tree.            *)
LEMMA GrownInherits == ASSUME Grown PROVE PagesInherit
<1> SUFFICES ASSUME stage = "tree", pending = <<>>, pages # <<>>
             PROVE  ToSet(pages) = PagesOf(UNION {Level[depth] : depth \in 0 .. MaxDepth})
    BY DEF PagesInherit
<1>1. PICK grown : GrownAs(grown)
    BY DEF Grown
<1>2. \A d : PendingAt(d) = {}
    BY NothingListed DEF PendingAt
<1> PICK visited : visited = [d \in Depths |-> grown[d]]
    OBVIOUS
<1>3. /\ DOMAIN visited = Depths /\ visited = [d \in Depths |-> visited[d]]
      /\ \A d \in Depths : visited[d] = grown[d] /\ (d # 0 => visited[d - 1] = grown[d - 1])
    BY DepthsAre
<1>4. visited[0] = Roots /\ \A d \in Depths : d # 0 => visited[d] = Below(visited[d - 1])
    BY <1>1, <1>2, <1>3, DepthsAre DEF GrownAs
<1>5. \A d \in Depths : Level[d] = visited[d]
    BY <1>3, <1>4, LevelsGrown
<1>6. {Level[d] : d \in Depths} = {grown[d] : d \in Depths}
    BY <1>3, <1>5
<1> QED
    BY <1>1, <1>6 DEF GrownAs, Depths

(* The pages read of a tree of any shape are those it holds, with what they*)
(* inherit (pdf.rs, collect_pages); and texts on one baseline share a row, *)
(* which no text joins from further off than the tolerance (items_to_rows).*)
THEOREM TextIsFaithful == Spec => []TextFaithful
<1>1. ImportInit => InHand /\ InLine /\ Grown
    BY BeginsInHand, BeginsInLine, BeginsGrown
<1>2. InHand /\ InLine /\ Grown /\ [Next]_vars => (InHand /\ InLine /\ Grown)'
    BY StaysInHand, StaysInLine, StaysGrown
<1>3. InLine /\ Grown => TextFaithful
    BY InLineApart, GrownInherits DEF TextFaithful
<1> QED
    BY <1>1, <1>2, <1>3, PTL DEF Spec

(***************************************************************************)
(* Amounts.  The texts in the reader's hands, up to the rows, are lists of *)
(* tokens of which none is an amount below zero.                           *)
(***************************************************************************)
LEMMA LeastOf ==
    ASSUME NEW S, S \subseteq Nat, S # {}
    PROVE  /\ Min(S) \in S
           /\ \E m \in S : \A d \in S : m <= d
<1> DEFINE less == {p \in Nat \X Nat : p[1] < p[2]}
<1>1. IsWellFoundedOn(less, Nat)
    BY NatLessThanWellFounded DEF OpToRel
<1>2. PICK m \in S : \A d \in S : <<d, m>> \notin less
    <2> HIDE DEF less
    <2> QED
        BY <1>1, WFMin
<1>3. ASSUME NEW d \in S PROVE m <= d
    <2>1. <<d, m>> \notin less /\ d \in Nat /\ m \in Nat
        BY <1>2
    <2> QED
        BY <2>1
<1> QED
    BY <1>3 DEF Min

LEMMA MostOf ==
    ASSUME NEW n \in Nat, NEW S, S \subseteq 1 .. n, S # {} PROVE Max(S) \in S
<1> DEFINE T == {n - x : x \in S}
<1>1. T \subseteq Nat /\ T # {}
    <2>1. \A x \in S : x \in Int /\ x <= n /\ n - x \in Nat
        OBVIOUS
    <2>2. PICK x \in S : TRUE
        OBVIOUS
    <2>3. n - x \in T
        OBVIOUS
    <2> QED
        BY <2>1, <2>3
<1>2. PICK t \in T : \A d \in T : t <= d
    <2> HIDE DEF T
    <2> QED
        BY <1>1, LeastOf
<1>3. PICK m \in S : t = n - m
    BY <1>2
<1>4. ASSUME NEW x \in S PROVE m >= x
    <2>1. n - x \in T /\ n - m <= n - x
        BY <1>2, <1>3
    <2>2. m \in Int /\ x \in Int
        OBVIOUS
    <2> QED
        BY <2>1, <2>2
<1> HIDE DEF T
<1>5. \E x \in S : \A y \in S : x >= y
    BY <1>4
<1> QED
    BY <1>5 DEF Max

LEMMA TokenLists ==
    ASSUME NEW T, NEW s
    PROVE  s \in Seq(T) <=> IsList(s) /\ ToSet(s) \subseteq T
<1>1. ASSUME s \in Seq(T) PROVE IsList(s) /\ ToSet(s) \subseteq T
    <2>1. Len(s) \in Nat /\ s \in [1 .. Len(s) -> T]
        BY <1>1
    <2>2. s = [k \in 1 .. Len(s) |-> s[k]]
        BY <2>1
    <2>3. IsList(s)
        BY <2>1, <2>2, AListOf
    <2> QED
        BY <2>1, <2>3 DEF ToSet
<1>2. ASSUME IsList(s), ToSet(s) \subseteq T PROVE s \in Seq(T)
    BY <1>2 DEF IsList
<1> QED
    BY <1>1, <1>2

(* Texts strung together are a text of their tokens.                       *)
Strings(f, texts, T, m) ==
    /\ f \in [0 .. m -> Seq(T)]
    /\ f[0] = <<>>
    /\ \A n \in 1 .. m : f[n] = f[n - 1] \o texts[n].text

LEMMA StringsExist ==
    ASSUME NEW texts, Len(texts) \in Nat, NEW T,
           \A k \in 1 .. Len(texts) : texts[k].text \in Seq(T)
    PROVE  \E f : Strings(f, texts, T, Len(texts))
<1> DEFINE wrong == {m \in 0 .. Len(texts) : ~\E f : Strings(f, texts, T, m)}
<1>1. ASSUME wrong # {} PROVE FALSE
    <2>1. PICK m \in wrong : \A d \in wrong : m <= d
        <3>1. wrong \subseteq Nat
            OBVIOUS
        <3> HIDE DEF wrong
        <3> QED
            BY <1>1, <3>1, LeastOf
    <2>2. m # 0
        <3>1. Strings([n \in 0 .. 0 |-> <<>>], texts, T, 0)
            BY DEF Strings
        <3> QED
            BY <3>1
    <2>3. m \in 1 .. Len(texts) /\ m - 1 \in 0 .. Len(texts) /\ m - 1 \notin wrong
        BY <2>1, <2>2
    <2>4. PICK f : Strings(f, texts, T, m - 1)
        BY <2>3
    <2> DEFINE more == f[m - 1] \o texts[m].text
               g == [n \in 0 .. m |-> IF n = m THEN more ELSE f[n]]
    <2>5. more \in Seq(T)
        <3>1. f[m - 1] \in Seq(T) /\ texts[m].text \in Seq(T)
            BY <2>3, <2>4 DEF Strings
        <3> QED
            BY <3>1
    <2>6. \A n \in 1 .. m : (n = m \/ n \in 1 .. m - 1) /\ n - 1 # m /\ n - 1 \in 0 .. m - 1 /\ n \in 0 .. m
        BY <2>3
    <2>7. Strings(g, texts, T, m)
        <3>1. f \in [0 .. m - 1 -> Seq(T)] /\ f[0] = <<>> /\ \A n \in 1 .. m - 1 : f[n] = f[n - 1] \o texts[n].text
            BY <2>4 DEF Strings
        <3>2. \A n \in 0 .. m : n = m \/ n \in 0 .. m - 1
            BY <2>3
        <3> HIDE DEF more
        <3>3. g \in [0 .. m -> Seq(T)]
            BY <2>5, <3>1, <3>2
        <3>4. g[0] = <<>>
            BY <2>3, <3>1
        <3>5. ASSUME NEW n \in 1 .. m PROVE g[n] = g[n - 1] \o texts[n].text
            <4>1. g[n - 1] = f[n - 1]
                BY <2>6
            <4>2. CASE n = m
                BY <2>6, <4>1, <4>2 DEF more
            <4>3. CASE n # m
                BY <2>6, <3>1, <4>1, <4>3
            <4> QED
                BY <4>2, <4>3
        <3> QED
            BY <3>3, <3>4, <3>5 DEF Strings
    <2> QED
        BY <2>1, <2>7
<1> QED
    BY <1>1

LEMMA StrungTogether ==
    ASSUME NEW texts, Len(texts) \in Nat, NEW T,
           \A k \in 1 .. Len(texts) : texts[k].text \in Seq(T)
    PROVE  Strung(texts) \in Seq(T)
<1> DEFINE N == Len(texts)
           Fits(upTo) == upTo = [k \in 0 .. Len(texts) |-> IF k = 0 THEN <<>> ELSE upTo[k - 1] \o texts[k].text]
           g == CHOOSE upTo : Fits(upTo)
<1>1. PICK f : Strings(f, texts, T, N)
    BY StringsExist
<1>2. Fits(f)
    <2>1. f = [n \in 0 .. N |-> f[n]]
        BY <1>1 DEF Strings
    <2>2. ASSUME NEW n \in 0 .. N PROVE f[n] = IF n = 0 THEN <<>> ELSE f[n - 1] \o texts[n].text
        <3>1. f[0] = <<>> /\ \A k \in 1 .. N : f[k] = f[k - 1] \o texts[k].text
            BY <1>1 DEF Strings
        <3>2. n = 0 \/ n \in 1 .. N
            OBVIOUS
        <3> QED
            BY <3>1, <3>2
    <2> QED
        BY <2>1, <2>2
<1>3. Strung(texts) = g[N]
    BY DEF Strung
<1>4. Fits(g)
    <2> HIDE DEF Fits
    <2> QED
        BY <1>2
<1>5. \A n \in 0 .. N : g[n] = IF n = 0 THEN <<>> ELSE g[n - 1] \o texts[n].text
    <2> HIDE DEF g
    <2>1. g = [n \in 0 .. N |-> IF n = 0 THEN <<>> ELSE g[n - 1] \o texts[n].text]
        BY <1>4
    <2> QED
        BY <2>1
<1> HIDE DEF g, Fits
<1> DEFINE wrong == {n \in 0 .. N : g[n] \notin Seq(T)}
<1>6. ASSUME wrong # {} PROVE FALSE
    <2>1. PICK m \in wrong : \A d \in wrong : m <= d
        <3>1. wrong \subseteq Nat
            OBVIOUS
        <3> HIDE DEF wrong
        <3> QED
            BY <1>6, <3>1, LeastOf
    <2>2. m # 0
        <3>1. g[0] = <<>>
            BY <1>5
        <3>2. <<>> \in Seq(T)
            OBVIOUS
        <3> QED
            BY <2>1, <3>1, <3>2
    <2>3. m \in 1 .. N /\ m - 1 \in 0 .. N /\ m - 1 \notin wrong
        BY <2>1, <2>2
    <2>4. g[m - 1] \in Seq(T) /\ texts[m].text \in Seq(T) /\ g[m] = g[m - 1] \o texts[m].text
        BY <1>5, <2>2, <2>3
    <2>5. g[m] \in Seq(T)
        BY <2>4
    <2> QED
        BY <2>5
<1> QED
    BY <1>3, <1>6

LEMMA FiguredTexts ==
    ASSUME NEW s, FiguredText(s), NEW t, FiguredText(t)
    PROVE  FiguredText(s \o t)
BY ListsJoined DEF FiguredText

LEMMA NothingFigured == FiguredText(<<>>)
BY NothingListed DEF FiguredText

(* Sorted from left to right, none is added.                               *)
LEMMA LeftFirst ==
    ASSUME NEW s, IsList(s), Placed(s)
    PROVE  LET t == SortedBy(s, Lefter)
           IN  IsList(t) /\ ToSet(t) \subseteq ToSet(s) /\ Len(t) = Len(s)
<1> DEFINE D == DOMAIN s
           before(i, j) == Lefter(s[i], s[j]) \/ (~Lefter(s[j], s[i]) /\ i < j)
           precedes == {p \in D \X D : \/ Lefter(s[p[1]], s[p[2]])
                                       \/ ~Lefter(s[p[2]], s[p[1]]) /\ p[1] < p[2]}
           order == Enumerated(D, precedes)
           t == [k \in D |-> s[order[k]]]
<1>1. SortedBy(s, Lefter) = t
    BY DEF SortedBy
<1>2. Len(s) \in Nat /\ D = 1 .. Len(s)
    BY ListsAre
<1>3. \A i, j \in D : <<i, j>> \in precedes <=> before(i, j)
    OBVIOUS
<1>4. Orders(precedes, D)
    <2>1. \A i \in D : ~before(i, i)
        BY <1>2 DEF Placed, Lefter
    <2>2. \A i, j \in D : i # j => before(i, j) \/ before(j, i)
        BY <1>2 DEF Placed, Lefter
    <2>3. \A i, j, k \in D : before(i, j) /\ before(j, k) => before(i, k)
        BY <1>2 DEF Placed, Lefter
    <2> HIDE DEF precedes, before
    <2> QED
        BY <1>3, <2>1, <2>2, <2>3 DEF Orders
<1>5. IsFiniteSet(D)
    BY FinitePlaces
<1> HIDE DEF precedes, before
<1>6. IsList(order) /\ Len(order) = Cardinality(D) /\ ToSet(order) = D
    BY <1>4, <1>5, EnumeratedList, Zenon
<1>7. Cardinality(D) = Len(s)
    <2>1. Cardinality(1 .. Len(s)) = IF 1 > Len(s) THEN 0 ELSE Len(s) - 1 + 1
        BY <1>2, FS_Interval
    <2> QED
        BY <1>2, <2>1
<1>8. DOMAIN order = D
    BY <1>2, <1>6, <1>7, ListsAre
<1> HIDE DEF order
<1>9. \A k \in D : order[k] \in D
    BY <1>6, <1>8 DEF ToSet
<1>10. IsList(t) /\ Len(t) = Len(s)
    <2>1. t = [k \in 1 .. Len(s) |-> t[k]]
        BY <1>2
    <2> HIDE DEF t
    <2> QED
        BY <1>2, <2>1, AListOf
<1>11. ToSet(t) \subseteq ToSet(s)
    BY <1>9 DEF ToSet
<1> QED
    BY <1>1, <1>10, <1>11

FiguredItem(item) == IsText(item) /\ FiguredText(item.text)

LEMMA RowFigured ==
    ASSUME NEW line, IsList(line.members), \A item \in ToSet(line.members) : FiguredItem(item)
    PROVE  FiguredText(RowOf(line))
<1> DEFINE members == line.members
           sorted == SortedBy(members, Lefter)
           T == UNION {ToSet(item.text) : item \in ToSet(members)}
<1>1. Placed(members)
    BY DEF Placed, FiguredItem, IsText, Point, ToSet
<1>2. IsList(sorted) /\ ToSet(sorted) \subseteq ToSet(members)
    BY <1>1, LeftFirst
<1>3. RowOf(line) = Strung(sorted)
    BY DEF RowOf
<1> HIDE DEF sorted, members
<1>4. Len(sorted) \in Nat /\ DOMAIN sorted = 1 .. Len(sorted)
    BY <1>2, ListsAre
<1>5. ASSUME NEW k \in 1 .. Len(sorted) PROVE sorted[k].text \in Seq(T)
    <2>1. sorted[k] \in ToSet(members)
        BY <1>2, <1>4 DEF ToSet
    <2>2. IsList(sorted[k].text)
        BY <2>1 DEF members, FiguredItem, FiguredText
    <2>3. ToSet(sorted[k].text) \subseteq T
        BY <2>1
    <2> HIDE DEF T
    <2> QED
        BY <2>2, <2>3, TokenLists
<1>6. \A t \in T : Figured(t)
    <2> SUFFICES ASSUME NEW t \in T PROVE Figured(t)
        OBVIOUS
    <2>1. PICK item \in ToSet(members) : t \in ToSet(item.text)
        OBVIOUS
    <2> QED
        BY <2>1 DEF members, FiguredItem, FiguredText
<1> HIDE DEF T
<1>7. RowOf(line) \in Seq(T)
    BY <1>3, <1>4, <1>5, StrungTogether
<1> QED
    BY <1>6, <1>7, TokenLists DEF FiguredText

(* What a decoder makes of a string of the file.                           *)
Decodes(decoder) == decoder.kind \in {"CMap", "Silent", "Cp1252"}

LEMMA DecodersDecode ==
    ASSUME NEW resources
    PROVE  LET table == CollectFonts(resources) IN \A name \in DOMAIN table : Decodes(table[name])
<1>1. \A font : Decodes(BuildFontDecoder(font))
    BY DEF Decodes, BuildFontDecoder, Decoder
<1> DEFINE held == Dictionary(resources)
           table == IF held = Absent THEN Absent ELSE Dictionary(held.font)
<1>2. CollectFonts(resources) = IF table = Absent THEN <<>>
                                ELSE [name \in DOMAIN table.fonts |-> BuildFontDecoder(Dictionary(table.fonts[name]))]
    BY Zenon DEF CollectFonts
<1> HIDE DEF table
<1>3. CASE table = Absent
    BY <1>2, <1>3
<1>4. CASE table # Absent
    BY <1>1, <1>2, <1>4
<1> QED
    BY <1>3, <1>4

LEMMA DecodedFigured ==
    ASSUME NEW decoder, Decodes(decoder), NEW string, FiguredText(string.tokens)
    PROVE  FiguredText(Decode(decoder, string))
<1> DEFINE tokens == IF string.wide = decoder.wide THEN string.tokens ELSE <<Glyphs>>
           P == {k \in DOMAIN tokens : tokens[k] \in decoder.known}
<1>1. FiguredText(<<Glyphs>>)
    <2>1. IsList(<<Glyphs>>) /\ ToSet(<<Glyphs>>) = {Glyphs}
        BY DEF IsList, ToSet
    <2> QED
        BY <2>1, FiguresAssumption DEF FiguredText
<1>2. FiguredText(At(tokens, P))
    <2>1. IsList(tokens) /\ \A t \in ToSet(tokens) : Figured(t)
        BY <1>1 DEF FiguredText
    <2>2. P \subseteq DOMAIN tokens
        OBVIOUS
    <2> HIDE DEF P, tokens
    <2>3. IsList(At(tokens, P)) /\ ToSet(At(tokens, P)) = {tokens[k] : k \in P}
        BY <2>1, <2>2, AtPlaces
    <2>4. {tokens[k] : k \in P} \subseteq ToSet(tokens)
        BY <2>2 DEF ToSet
    <2> QED
        BY <2>1, <2>3, <2>4 DEF FiguredText
<1>3. CASE decoder.kind = "Silent"
    BY <1>3, NothingFigured DEF Decode
<1>4. CASE decoder.kind = "CMap"
    BY <1>2, <1>4 DEF Decode
<1>5. CASE decoder.kind = "Cp1252"
    BY <1>1, <1>5 DEF Decode
<1> QED
    BY <1>3, <1>4, <1>5 DEF Decodes

FiguredOperator(o) == \A string \in ToSet(o.strings) : FiguredText(string.tokens)

LEMMA FiguredShown ==
    ASSUME NEW g, Located(g), NEW o, IsOperator(o), FiguredOperator(o),
           \A name \in DOMAIN fonts : Decodes(fonts[name])
    PROVE  \A item \in ToSet(Shown(g, o)) : FiguredText(item.text)
<1> DEFINE decoder == IF Undeclared(g) THEN Latin ELSE fonts[g.font]
           item(k) == [x |-> g.ctm.x + g.tm.x, y |-> g.ctm.y + g.tm.y,
                       size |-> IF g.size > 0 THEN g.size ELSE 100,
                       text |-> Decode(decoder, o.strings[k])]
           placed == [k \in DOMAIN o.strings |-> item(k)]
           P == {k \in DOMAIN placed : placed[k].text # <<>>}
<1>1. Shown(g, o) = At(placed, P)
    BY DEF Shown
<1>2. Decodes(decoder)
    BY DEF Undeclared, Latin, Decoder, Decodes
<1> HIDE DEF decoder
<1>3. ASSUME NEW k \in DOMAIN o.strings PROVE FiguredText(item(k).text)
    <2>1. FiguredText(o.strings[k].tokens)
        BY DEF FiguredOperator, ToSet
    <2>2. item(k).text = Decode(decoder, o.strings[k])
        OBVIOUS
    <2> HIDE DEF item
    <2> QED
        BY <1>2, <2>1, <2>2, DecodedFigured
<1> HIDE DEF item
<1>4. Len(o.strings) \in Nat /\ DOMAIN o.strings = 1 .. Len(o.strings)
    BY ListsAre DEF IsOperator
<1>5. IsList(placed)
    <2>1. placed = [k \in 1 .. Len(o.strings) |-> placed[k]]
        BY <1>4
    <2> HIDE DEF placed
    <2> QED
        BY <1>4, <2>1, AListOf
<1>6. \A k \in P : FiguredText(placed[k].text)
    BY <1>3
<1>7. P \subseteq DOMAIN placed
    OBVIOUS
<1> HIDE DEF placed, P
<1>8. ToSet(At(placed, P)) = {placed[k] : k \in P}
    BY <1>5, <1>7, AtPlaces
<1> QED
    BY <1>1, <1>6, <1>8

FiguredLines(list) == \A k \in DOMAIN list : \A item \in ToSet(list[k].members) : FiguredItem(item)

InFigures ==
    /\ \A name \in DOMAIN fonts : Decodes(fonts[name])
    /\ \A o \in ToSet(program) : FiguredOperator(o)
    /\ \A item \in ToSet(items) : FiguredText(item.text)
    /\ FiguredLines(lines)
    /\ IsList(rows) /\ \A row \in ToSet(rows) : FiguredText(row)

LEMMA BeginsInFigures == ASSUME ImportInit PROVE InFigures
<1>1. fonts = <<>> /\ program = <<>> /\ items = <<>> /\ lines = <<>> /\ rows = <<>>
    BY Zenon DEF ImportInit, Init
<1> QED
    BY <1>1, NothingListed DEF InFigures, FiguredLines

LEMMA OpenStreamInFigures == ASSUME InHand, InFigures, OpenStream PROVE InFigures'
<1> DEFINE object == objects[Head(streams).ref]
<1>1. /\ stage = "content" /\ streams # <<>>
      /\ program' = <<>> \/ (object.stream # Absent /\ program' = object.stream.program)
      /\ UNCHANGED <<fonts, items, lines, rows>>
    BY DEF OpenStream
<1>2. object \in Dictionaries
    <2>1. InFile(streams, objects)
        BY <1>1 DEF InHand, Staged
    <2>2. Head(streams).ref \in DOMAIN objects
        BY <1>1, <2>1, ListTaken DEF InFile
    <2> QED
        BY <2>2 DEF InHand, Kept
<1>3. \A o \in ToSet(program') : FiguredOperator(o)
    <2>1. CASE program' = <<>>
        BY <2>1, NothingListed
    <2>2. CASE object.stream # Absent /\ program' = object.stream.program
        <3> HIDE DEF object
        <3> QED
            BY <1>2, <2>2, FiguresAssumption DEF ToSet, FiguredOperator
    <2> QED
        BY <1>1, <2>1, <2>2
<1> QED
    BY <1>1, <1>3 DEF InFigures

LEMMA OperateInFigures == ASSUME InLine, InFigures, Operate PROVE InFigures'
<1> DEFINE o == Head(program)
           after == AfterOperator(graphics, o)
           shown == Shown(after, o)
<1>1. /\ program # <<>> /\ items' = items \o shown
      /\ program' = Tail(program) /\ UNCHANGED <<fonts, lines, rows>>
    BY Zenon DEF Operate
<1>2. ToSet(program') \subseteq ToSet(program) /\ o \in ToSet(program)
    BY <1>1, ListTaken DEF InLine
<1>3. IsOperator(o) /\ FiguredOperator(o)
    BY <1>2 DEF InLine, InFigures
<1>4. Located(after)
    BY <1>3, StaysLocated DEF InLine
<1> HIDE DEF after, o
<1>5. IsList(shown)
    BY <1>3, <1>4, TextsShown
<1>6. \A item \in ToSet(shown) : FiguredText(item.text)
    BY <1>3, <1>4, FiguredShown DEF InFigures
<1> HIDE DEF shown
<1>7. ToSet(items') = ToSet(items) \union ToSet(shown)
    BY <1>1, <1>5, ListsJoined DEF InLine
<1> QED
    BY <1>1, <1>2, <1>6, <1>7 DEF InFigures

LEMMA ClosePageInFigures == ASSUME InLine, InFigures, ClosePage PROVE InFigures'
<1>1. items' = SortedBy(items, Higher) /\ lines' = <<>> /\ UNCHANGED <<fonts, program, rows>>
    BY DEF ClosePage
<1>2. IsList(items) /\ Placed(items)
    BY DEF InLine, Placed, IsText, Point, ToSet
<1>3. ToSet(items') \subseteq ToSet(items)
    BY <1>1, <1>2, HigherFirst
<1>4. DOMAIN lines' = {}
    BY <1>1
<1> QED
    BY <1>1, <1>3, <1>4 DEF InFigures, FiguredLines

(* A text joins the members of one line.                                   *)
LEMMA FiguredPut ==
    ASSUME NEW list, Lined(list), FiguredLines(list), NEW item, FiguredItem(item)
    PROVE  FiguredLines(PutOn(list, item))
<1> DEFINE n == Len(list)
<1>1. IsList(list) /\ n \in Nat /\ DOMAIN list = 1 .. n
    BY ListsAre DEF Lined
<1>2. CASE list = <<>> \/ ~Joins(Last(list), item)
    <2> DEFINE new == NewRow(item)
               more == Append(list, new)
    <2>1. PutOn(list, item) = more
        BY <1>2 DEF PutOn
    <2>2. /\ IsList(more) /\ Len(more) = n + 1
          /\ \A k \in 1 .. n : more[k] = list[k]
          /\ more[n + 1] = new
        BY <1>1, ListAppended
    <2>3. ToSet(new.members) = {item}
        BY DEF NewRow, ToSet
    <2> HIDE DEF new, more
    <2>4. DOMAIN more = 1 .. n + 1
        BY <2>2, ListsAre
    <2>5. \A k \in 1 .. n + 1 : k \in 1 .. n \/ k = n + 1
        BY <1>1
    <2>6. ASSUME NEW k \in 1 .. n + 1, NEW a \in ToSet(more[k].members) PROVE FiguredItem(a)
        <3>1. CASE k \in 1 .. n
            <4>1. more[k] = list[k] /\ k \in DOMAIN list
                BY <1>1, <2>2, <3>1
            <4> QED
                BY <2>6, <4>1 DEF FiguredLines
        <3>2. CASE k = n + 1
            BY <2>2, <2>3, <2>6, <3>2
        <3> QED
            BY <2>5, <3>1, <3>2
    <2> QED
        BY <2>1, <2>4, <2>6 DEF FiguredLines
<1>3. CASE list # <<>> /\ Joins(Last(list), item)
    <2> DEFINE row == Last(list)
               longer == [row EXCEPT !.members = Append(@, item),
                                     !.size = IF item.size > @ THEN item.size ELSE @]
               front == Front(list)
               more == Append(front, longer)
    <2>1. PutOn(list, item) = more
        BY <1>3 DEF PutOn
    <2>2. n # 0 /\ row = list[n] /\ n \in DOMAIN list
        BY <1>1, <1>3, EmptyList DEF Last
    <2>3. IsList(front) /\ Len(front) = n - 1 /\ \A k \in 1 .. n - 1 : front[k] = list[k]
        <3>1. front = [k \in 1 .. n - 1 |-> list[k]]
            BY <1>1, <2>2 DEF Front
        <3>2. front = [k \in 1 .. n - 1 |-> front[k]] /\ n - 1 \in Nat
            BY <1>1, <2>2, <3>1
        <3>3. \A k \in 1 .. n - 1 : front[k] = list[k]
            BY <3>1
        <3> HIDE DEF front, n
        <3> QED
            BY <3>2, <3>3, AListOf
    <2>4. ToSet(longer.members) = ToSet(row.members) \union {item}
        <3>1. IsLine(row)
            BY <2>2 DEF Lined
        <3> DEFINE members == Append(row.members, item)
        <3>2. ToSet(members) = ToSet(row.members) \union {item}
            BY <3>1, ListAppended DEF IsLine
        <3> HIDE DEF row, members
        <3>3. longer.members = members
            BY <3>1 DEF IsLine, members
        <3> QED
            BY <3>2, <3>3
    <2>5. \A a \in ToSet(row.members) : FiguredItem(a)
        BY <2>2 DEF FiguredLines
    <2>6. /\ IsList(more) /\ Len(more) = Len(front) + 1
          /\ \A k \in 1 .. Len(front) : more[k] = front[k]
          /\ more[Len(front) + 1] = longer
        <3> HIDE DEF front, longer
        <3> QED
            BY <2>3, ListAppended
    <2> HIDE DEF more, longer, front, row
    <2>7. DOMAIN more = 1 .. n
        <3>1. DOMAIN more = 1 .. Len(more) /\ Len(more) = n
            BY <1>1, <2>3, <2>6, ListsAre
        <3> QED
            BY <3>1
    <2>8. \A k \in 1 .. n : (k \in 1 .. n - 1 /\ k \in 1 .. Len(front)) \/ k = Len(front) + 1
        <3>1. n \in Nat /\ Len(front) = n - 1
            BY <1>1, <2>3
        <3>2. \A k \in 1 .. n : k \in 1 .. n - 1 \/ k = (n - 1) + 1
            <4> HIDE DEF n
            <4> QED
                BY <3>1
        <3> QED
            BY <3>1, <3>2
    <2>9. ASSUME NEW k \in 1 .. n, NEW a \in ToSet(more[k].members) PROVE FiguredItem(a)
        <3>1. CASE k \in 1 .. n - 1 /\ k \in 1 .. Len(front)
            <4>1. more[k] = list[k] /\ k \in DOMAIN list
                BY <1>1, <2>3, <2>6, <3>1
            <4> QED
                BY <2>9, <4>1 DEF FiguredLines
        <3>2. CASE k = Len(front) + 1
            BY <2>4, <2>5, <2>6, <2>9, <3>2
        <3> QED
            BY <2>8, <3>1, <3>2
    <2> QED
        BY <2>1, <2>7, <2>9 DEF FiguredLines
<1> QED
    BY <1>2, <1>3

LEMMA PutItemInFigures == ASSUME InLine, InFigures, PutItem PROVE InFigures'
<1> DEFINE item == Head(items)
<1>1. /\ items # <<>> /\ items' = Tail(items) /\ lines' = PutOn(lines, item)
      /\ UNCHANGED <<fonts, program, rows>>
    BY Zenon DEF PutItem
<1>2. IsList(items) /\ ToSet(items) = {item} \union ToSet(Tail(items))
    BY <1>1, ListTaken DEF InLine
<1>3. FiguredItem(item)
    BY <1>2 DEF InLine, InFigures, FiguredItem
<1> HIDE DEF item
<1>4. FiguredLines(PutOn(lines, item))
    BY <1>3, FiguredPut DEF InLine, InFigures
<1> QED
    BY <1>1, <1>2, <1>4 DEF InFigures

LEMMA KeepRowsInFigures == ASSUME InLine, InFigures, KeepRows PROVE InFigures'
<1> DEFINE more == [k \in DOMAIN lines |-> RowOf(lines[k])]
<1>1. rows' = rows \o more /\ UNCHANGED <<fonts, program, items, lines>>
    BY Zenon DEF KeepRows
<1>2. IsList(lines) /\ Len(lines) \in Nat /\ DOMAIN lines = 1 .. Len(lines)
    BY ListsAre DEF InLine, Lined
<1>3. ASSUME NEW k \in DOMAIN lines PROVE FiguredText(RowOf(lines[k]))
    <2>1. IsList(lines[k].members)
        BY DEF InLine, Lined, IsLine
    <2>2. \A item \in ToSet(lines[k].members) : FiguredItem(item)
        BY DEF InFigures, FiguredLines
    <2> QED
        BY <2>1, <2>2, RowFigured
<1>4. IsList(more)
    <2>1. more = [k \in 1 .. Len(lines) |-> more[k]]
        BY <1>2
    <2> HIDE DEF more
    <2> QED
        BY <1>2, <2>1, AListOf
<1>5. \A row \in ToSet(more) : FiguredText(row)
    BY <1>3 DEF ToSet
<1> HIDE DEF more
<1>6. IsList(rows') /\ ToSet(rows') = ToSet(rows) \union ToSet(more)
    BY <1>1, <1>4, ListsJoined DEF InFigures
<1> QED
    BY <1>1, <1>5, <1>6 DEF InFigures

LEMMA StaysInFigures == ASSUME InHand, InLine, InFigures, [Next]_vars PROVE InFigures'
<1>1. CASE UNCHANGED <<fonts, program, items, lines, rows>>
    BY <1>1 DEF InFigures, FiguredLines
<1>2. CASE UNCHANGED reader
    <2>1. UNCHANGED <<fonts, program, items, lines, rows>>
        BY <1>2, Zenon DEF reader
    <2> QED
        BY <1>1, <2>1
<1>3. CASE Refuse
    <2>1. UNCHANGED <<fonts, program, items, lines, rows>>
        BY <1>3, Zenon DEF Refuse
    <2> QED
        BY <1>1, <2>1
<1>4. CASE ScanObject
    <2>1. UNCHANGED <<fonts, program, items, lines, rows>>
        BY <1>4, Zenon DEF ScanObject
    <2> QED
        BY <1>1, <2>1
<1>5. CASE CollectPages
    <2>1. UNCHANGED <<fonts, program, items, lines, rows>>
        BY <1>5, Zenon DEF CollectPages
    <2> QED
        BY <1>1, <2>1
<1>6. CASE Visit
    <2>1. UNCHANGED <<fonts, program, items, lines, rows>>
        BY <1>6, Zenon DEF Visit
    <2> QED
        BY <1>1, <2>1
<1>7. CASE TreeRead
    <2>1. UNCHANGED <<fonts, program, items, lines, rows>>
        BY <1>7, Zenon DEF TreeRead
    <2> QED
        BY <1>1, <2>1
<1>8. CASE OpenPage
    <2>1. /\ fonts' = CollectFonts(pages[page + 1].resources) /\ items' = <<>>
          /\ UNCHANGED <<program, lines, rows>>
        BY <1>8, Zenon DEF OpenPage
    <2>2. \A name \in DOMAIN fonts' : Decodes(fonts'[name])
        BY <2>1, DecodersDecode
    <2> QED
        BY <2>1, <2>2, NothingListed DEF InFigures, FiguredLines
<1>9. CASE OpenStream
    BY <1>9, OpenStreamInFigures
<1>10. CASE Operate
    BY <1>10, OperateInFigures
<1>11. CASE ClosePage
    BY <1>11, ClosePageInFigures
<1>12. CASE PutItem
    BY <1>12, PutItemInFigures
<1>13. CASE KeepRows
    BY <1>13, KeepRowsInFigures
<1>14. CASE Finish
    <2>1. UNCHANGED <<fonts, program, items, lines, rows>>
        BY <1>14, Zenon DEF Finish
    <2> QED
        BY <1>1, <2>1
<1> QED
    BY <1>2, <1>3, <1>4, <1>5, <1>6, <1>7, <1>8, <1>9, <1>10, <1>11, <1>12, <1>13, <1>14
    DEF Next, vars, Reading, ReaderStep, Parse, Correct, SaveReceipt, Refused, Recorded, NotWritten

(***************************************************************************)
(* What is read of the rows.                                               *)
(***************************************************************************)
LEMMA AmountsRead ==
    ASSUME NEW row, FiguredText(row) PROVE LastAmount(row) \in Nat \union {None}
<1> DEFINE S == MoneyTokens(row)
<1>1. Len(row) \in Nat /\ DOMAIN row = 1 .. Len(row)
    BY ListsAre DEF FiguredText
<1>2. \A i \in S : i \in DOMAIN row /\ row[i].kind \in {"amount", "percent"}
    BY DEF MoneyTokens, OfKind
<1>3. CASE S = {}
    BY <1>3 DEF LastAmount
<1>4. CASE S # {}
    <2> HIDE DEF S
    <2>1. S \subseteq 1 .. Len(row)
        BY <1>1, <1>2
    <2>2. Max(S) \in S
        BY <1>1, <1>4, <2>1, MostOf
    <2>3. Figured(row[Max(S)])
        BY <1>2, <2>2 DEF FiguredText, ToSet
    <2>4. row[Max(S)].n \in Nat
        BY <1>2, <2>2, <2>3 DEF Figured
    <2> QED
        BY <1>4, <2>4 DEF LastAmount, S
<1> QED
    BY <1>3, <1>4

FiguredRows(list) == IsList(list) /\ \A row \in ToSet(list) : FiguredText(row)

LEMMA LabelledRead ==
    ASSUME NEW list, FiguredRows(list), NEW labels, DOMAIN labels \subseteq Nat
    PROVE  AmountForLabel(list, labels) \in Nat \union {None}
<1> DEFINE found(k) == {i \in DOMAIN list : Labelled(list[i], labels[k]) /\ LastAmount(list[i]) # None}
           tried == {k \in DOMAIN labels : found(k) # {}}
           k == Min(tried)
           i == Min(found(k))
<1>1. AmountForLabel(list, labels) = IF tried = {} THEN None ELSE LastAmount(list[i])
    BY DEF AmountForLabel
<1>2. CASE tried = {}
    BY <1>1, <1>2
<1>3. CASE tried # {}
    <2>1. k \in tried
        <3>1. tried \subseteq Nat
            OBVIOUS
        <3> HIDE DEF tried
        <3> QED
            BY <1>3, <3>1, LeastOf
    <2>2. found(k) # {}
        BY <2>1
    <2>3. DOMAIN list \subseteq Nat
        BY ListsAre DEF FiguredRows
    <2>4. found(k) \subseteq Nat
        BY <2>3
    <2>5. i \in found(k)
        <3> HIDE DEF found
        <3> QED
            BY <2>2, <2>4, LeastOf
    <2> HIDE DEF k
    <2>6. i \in DOMAIN list
        BY <2>5
    <2> HIDE DEF i
    <2>7. FiguredText(list[i])
        BY <2>6 DEF FiguredRows, ToSet
    <2>8. LastAmount(list[i]) \in Nat \union {None}
        BY <2>7, AmountsRead
    <2> QED
        BY <1>1, <1>3, <2>8
<1> QED
    BY <1>2, <1>3

LEMMA FiguresRead ==
    ASSUME NEW list, FiguredRows(list)
    PROVE  \A figure \in {"base", "iva", "stamp", "total", "retention", "net"} :
              Figures(list)[figure] \in Nat \union {None}
<1> DEFINE read(labels) == AmountForLabel(list, labels)
<1>1. \A labels : DOMAIN labels \subseteq Nat => read(labels) \in Nat \union {None}
    BY LabelledRead
<1> HIDE DEF read
<1>2. \A a, b, c : DOMAIN << a, b, c >> \subseteq Nat
    OBVIOUS
<1>3. \A a, b : DOMAIN << a, b >> \subseteq Nat
    OBVIOUS
<1>4. \A a, b, c, d : DOMAIN << a, b, c, d >> \subseteq Nat
    OBVIOUS
<1>5. \A a, b, c, d, e, f : DOMAIN << a, b, c, d, e, f >> \subseteq Nat
    OBVIOUS
<1>6. Figures(list) =
    [base |-> read(<< <<"valor", "iliquido">>, <<"total", "iliquido">>,
                 <<"base", "de", "incidencia">>, <<"valor", "sem", "iva">>, <<"subtotal">>,
                 <<"valor", "tributavel">> >>),
     iva |-> read(<< <<"iva">>, <<"total", "de", "iva">>, <<"valor", "iva">> >>),
     stamp |-> read(<< <<"imposto", "do", "selo">>, <<"selo">> >>),
     total |-> read(<< <<"total", "do", "documento">>, <<"total", "da", "fatura">>,
                 <<"total">> >>),
     retention |-> read(<< <<"retencao", "na", "fonte", "irs">>,
                 <<"retencao", "na", "fonte">>, <<"retencao", "irs">>, <<"valor", "irs">> >>),
     net |-> read(<< <<"total", "a", "pagar">>, <<"total", "a", "receber">>,
                 <<"liquido", "a", "pagar">> >>)]
    BY DEF Figures, read
<1> DEFINE p == << <<"valor", "iliquido">>, <<"total", "iliquido">>,
                 <<"base", "de", "incidencia">>, <<"valor", "sem", "iva">>, <<"subtotal">>,
                 <<"valor", "tributavel">> >>
           q == << <<"iva">>, <<"total", "de", "iva">>, <<"valor", "iva">> >>
           r == << <<"imposto", "do", "selo">>, <<"selo">> >>
           s == << <<"total", "do", "documento">>, <<"total", "da", "fatura">>,
                 <<"total">> >>
           t == << <<"retencao", "na", "fonte", "irs">>,
                 <<"retencao", "na", "fonte">>, <<"retencao", "irs">>, <<"valor", "irs">> >>
           u == << <<"total", "a", "pagar">>, <<"total", "a", "receber">>,
                 <<"liquido", "a", "pagar">> >>
<1>7. /\ DOMAIN p \subseteq Nat /\ DOMAIN q \subseteq Nat /\ DOMAIN r \subseteq Nat
      /\ DOMAIN s \subseteq Nat /\ DOMAIN t \subseteq Nat /\ DOMAIN u \subseteq Nat
    BY <1>2, <1>3, <1>4, <1>5, Zenon
<1>8. Figures(list) = [base |-> read(p), iva |-> read(q), stamp |-> read(r), total |-> read(s),
                       retention |-> read(t), net |-> read(u)]
    BY <1>6
<1> HIDE DEF p, q, r, s, t, u
<1> QED
    BY <1>1, <1>7, <1>8

LEMMA ScaledNat ==
    ASSUME NEW n \in Nat, NEW d \in Nat, d # 0 PROVE RoundScaled(n, d) \in Nat
<1>1. CASE n = 0
    BY <1>1 DEF RoundScaled, Truncated, Sign, Magnitude
<1>2. CASE n # 0
    <2> DEFINE m == n + d \div 2
    <2>1. m \in Nat /\ m > 0
        BY <1>2
    <2>2. RoundScaled(n, d) = m \div d
        BY <1>2, <2>1 DEF RoundScaled, Truncated, Sign, Magnitude
    <2> HIDE DEF m
    <2> QED
        BY <2>1, <2>2
<1> QED
    BY <1>1, <1>2

LEMMA RateRead ==
    ASSUME NEW list, NEW base \in Nat \union {None}, NEW iva \in Nat \union {None}
    PROVE  OnlyRate(VatRates(list, base, iva)) \in Nat \union {None}
<1> DEFINE rates == VatRates(list, base, iva)
           printed == UNION {RateBefore(First(list[i], "percent")) :
            i \in {j \in DOMAIN list : HoldsAny(list[j], {<<"taxa">>, <<"iva">>})
                                       /\ OfKind(list[j], "percent") # {}}}
<1>1. \A percent : RateBefore(percent) \subseteq {100}
    BY DEF RateBefore
<1>2. printed \subseteq {100}
    <2> SUFFICES ASSUME NEW r \in printed PROVE r = 100
        OBVIOUS
    <2>1. \E i : r \in RateBefore(First(list[i], "percent"))
        OBVIOUS
    <2> QED
        BY <1>1, <2>1
<1>3. rates = IF printed # {} THEN printed
              ELSE IF base = None \/ iva = None THEN {}
              ELSE IF base <= 0 THEN {} ELSE {RoundScaled(iva * 10000, base)}
    BY DEF VatRates
<1> HIDE DEF printed, rates
<1>4. rates \subseteq Nat
    <2>1. CASE printed # {}
        <3>1. 100 \in Nat
            OBVIOUS
        <3>2. rates = printed
            BY <1>3, <2>1
        <3> QED
            BY <1>2, <3>1, <3>2
    <2>3. CASE printed = {} /\ (base = None \/ iva = None)
        <3>1. rates = {}
            BY <1>3, <2>3
        <3> QED
            BY <3>1
    <2>2. CASE base \in Nat /\ iva \in Nat /\ base # None /\ iva # None /\ printed = {}
        <3>1. CASE base <= 0
            BY <1>3, <2>2, <3>1
        <3>2. CASE ~(base <= 0)
            <4>1. iva * 10000 \in Nat /\ base # 0
                BY <2>2, <3>2
            <4>2. RoundScaled(iva * 10000, base) \in Nat
                BY <2>2, <4>1, ScaledNat
            <4> QED
                BY <1>3, <2>2, <3>2, <4>2
        <3> QED
            BY <3>1, <3>2
    <2> QED
        BY <2>1, <2>2, <2>3
<1>5. Cardinality(rates) = 1 => rates # {}
    BY FS_EmptySet
<1> DEFINE only == CHOOSE r \in rates : TRUE
<1>6. rates # {} => only \in rates
    BY Zenon
<1>7. OnlyRate(rates) = IF Cardinality(rates) = 1 THEN only ELSE None
    BY DEF OnlyRate
<1> HIDE DEF only
<1>8. OnlyRate(rates) \in Nat \union {None}
    BY <1>4, <1>5, <1>6, <1>7
<1> QED
    BY <1>8 DEF rates

LEMMA RateOfDraft ==
    ASSUME NEW list, FiguredRows(list), NEW unread
    PROVE  ParseReceipt(list, unread).rate \in Nat \union {None}
<1> DEFINE rate == OnlyRate(VatRates(list, Figures(list).base, Figures(list).iva))
<1>1. ParseReceipt(list, unread).rate = rate
    BY DEF ParseReceipt
<1>2. Figures(list).base \in Nat \union {None} /\ Figures(list).iva \in Nat \union {None}
    BY FiguresRead
<1>3. rate \in Nat \union {None}
    BY <1>2, RateRead
<1> QED
    BY <1>1, <1>3

Countries == CountryCodes \union {"PT"}

Chosen(typed, country) == country \in Countries \/ (typed > 0 /\ country \in TypedInto["country"])

LEMMA CountryOfForm ==
    ASSUME NEW list, NEW unread
    PROVE  LET read == FormRead(ParseReceipt(list, unread))
           IN  "country" \in DOMAIN read /\ read.country \in Countries
<1> DEFINE parsed == ParseReceipt(list, unread)
<1>1. \A customer : CountryHint(customer) \in CountryCodes \union {"PT", None}
    BY DEF CountryHint
<1>2. \E customer : parsed.country = CountryHint(customer)
    <2>1. parsed.country = CountryHint(PartyFrom(Section(list, "customer")))
        BY DEF ParseReceipt
    <2> QED
        BY <2>1
<1> HIDE DEF parsed
<1>3. "country" \in DOMAIN FormRead(parsed) /\ FormRead(parsed).country = Or(parsed.country, "PT")
    BY DEF FormRead
<1> QED
    BY <1>1, <1>2, <1>3 DEF Or, Countries, parsed

(***************************************************************************)
(* Types: what is kept has been looked at, the walk is never deeper than   *)
(* it may be, and of the form only what the draft or a hand put there.     *)
(***************************************************************************)
LookedAt(n) == {document.entries[k].num : k \in 1 .. n}

Shallow == \A frame \in ToSet(pending) : frame.depth \in 0 .. MaxDepth + 1

InReader == DOMAIN objects \subseteq LookedAt(scanned) /\ Shallow /\ problems \subseteq ReaderProblems

InForm ==
    /\ draft = None \/ draft.rate \in Nat \union {None}
    /\ form = None \/ ("country" \in DOMAIN form /\ Chosen(edits, form.country) /\ book = <<>>)
    /\ book = <<>> \/ Len(book) = 1
    /\ edits \in 0 .. MaxEdits

LEMMA BeginsTyped == ASSUME ImportInit PROVE InReader /\ InForm
<1>1. /\ objects = <<>> /\ pending = <<>> /\ problems = IfSo(document.objectStreams, "object streams")
      /\ draft = None /\ form = None /\ book = <<>> /\ edits = 0
    BY Zenon DEF ImportInit, Init
<1>2. DOMAIN objects = {}
    <2>1. objects = <<>>
        BY <1>1
    <2> QED
        BY <2>1
<1>3. Shallow
    BY <1>1, NothingListed DEF Shallow
<1>4. problems \subseteq ReaderProblems
    BY <1>1 DEF IfSo, ReaderProblems
<1>5. InForm
    <2>1. 0 \in 0 .. MaxEdits
        BY EditsAssumption
    <2>2. draft = None /\ form = None /\ book = <<>> /\ edits = 0
        BY <1>1
    <2> QED
        BY <2>1, <2>2, Zenon DEF InForm
<1> QED
    BY <1>2, <1>3, <1>4, <1>5 DEF InReader

LEMMA ScanInReader == ASSUME InHand, InReader, ScanObject PROVE InReader'
<1> DEFINE entry == document.entries[scanned + 1]
<1>1. /\ scanned < Len(document.entries) /\ scanned' = scanned + 1
      /\ UNCHANGED <<document, pending, problems>>
    BY Zenon DEF ScanObject, After
<1>2. scanned \in Nat
    BY DEF InHand, Kept
<1>3. DOMAIN objects' \subseteq DOMAIN objects \union {entry.num}
    <2>1. CASE objects' = objects
        BY <2>1
    <2>2. CASE objects' = [n \in DOMAIN objects \union {entry.num} |->
                              IF n = entry.num THEN entry.object ELSE objects[n]]
        BY <2>2
    <2> QED
        BY <2>1, <2>2 DEF ScanObject
<1>4. entry.num \in LookedAt(scanned + 1) /\ LookedAt(scanned) \subseteq LookedAt(scanned + 1)
    <2>1. scanned + 1 \in 1 .. scanned + 1 /\ 1 .. scanned \subseteq 1 .. scanned + 1
        BY <1>2
    <2> QED
        BY <2>1 DEF LookedAt
<1>5. DOMAIN objects' \subseteq LookedAt(scanned')
    BY <1>1, <1>3, <1>4 DEF InReader
<1>6. LookedAt(scanned)' = LookedAt(scanned')
    BY <1>1 DEF LookedAt
<1> HIDE DEF entry
<1> QED
    BY <1>1, <1>5, <1>6 DEF InReader, Shallow

LEMMA CollectInReader == ASSUME InHand, InReader, CollectPages PROVE InReader'
<1>1. UNCHANGED <<document, objects, scanned>>
    BY Zenon DEF CollectPages
<1>2. LookedAt(scanned)' = LookedAt(scanned)
    BY <1>1 DEF LookedAt
<1>3. problems' \subseteq ReaderProblems
    <2>1. problems' = {"no objects"} \/ problems' = problems
        BY Zenon DEF CollectPages
    <2> QED
        BY <2>1 DEF InReader, ReaderProblems
<1>4. Shallow'
    <2>1. CASE pending' = <<>>
        BY <2>1, NothingListed DEF Shallow
    <2>2. CASE \E value : pending' = <<Frame(value, Absent, 0)>>
        <3>1. PICK value : pending' = <<Frame(value, Absent, 0)>>
            BY <2>2
        <3> DEFINE frame == Frame(value, Absent, 0)
        <3>2. frame.depth = 0
            BY DEF Frame
        <3> HIDE DEF frame
        <3>3. ToSet(pending') = {frame}
            BY <3>1 DEF ToSet, frame
        <3> QED
            BY <3>2, <3>3, MaxDepthAssumption DEF Shallow
    <2> QED
        BY <2>1, <2>2 DEF CollectPages
<1> QED
    BY <1>1, <1>2, <1>3, <1>4 DEF InReader

LEMMA VisitInReader == ASSUME InHand, InReader, Visit PROVE InReader'
<1> DEFINE frame == Head(pending)
           rest == ToSet(Tail(pending))
<1>1. UNCHANGED <<document, objects, scanned, problems>>
    BY Zenon DEF Visit
<1>2. LookedAt(scanned)' = LookedAt(scanned)
    BY <1>1 DEF LookedAt
<1>3. ToSet(pending) = {frame} \union rest
    BY VisitDoes
<1>4. PICK new :
        /\ ToSet(pending') = new \union rest
        /\ IF frame.depth > MaxDepth THEN new = {}
           ELSE \A f \in new : f.depth = frame.depth + 1
    BY VisitDoes
<1>5. frame.depth \in 0 .. MaxDepth + 1 /\ \A f \in rest : f.depth \in 0 .. MaxDepth + 1
    BY <1>3 DEF InReader, Shallow
<1> HIDE DEF frame, rest
<1>6. ASSUME NEW f \in new PROVE f.depth \in 0 .. MaxDepth + 1
    BY <1>4, <1>5, <1>6, MaxDepthAssumption
<1>7. Shallow'
    BY <1>4, <1>5, <1>6 DEF Shallow
<1> QED
    BY <1>1, <1>2, <1>7 DEF InReader

LEMMA StaysInReader == ASSUME InHand, InReader, [Next]_vars PROVE InReader'
<1>1. CASE UNCHANGED <<document, objects, scanned, pending>> /\ problems' \subseteq ReaderProblems
    <2>1. LookedAt(scanned)' = LookedAt(scanned)
        BY <1>1 DEF LookedAt
    <2> QED
        BY <1>1, <2>1 DEF InReader, Shallow
<1>2. CASE UNCHANGED reader
    <2>1. UNCHANGED <<document, objects, scanned, pending, problems>>
        BY <1>2, Zenon DEF reader
    <2> QED
        BY <1>1, <2>1 DEF InReader
<1>3. \A condition : \A problem \in ReaderProblems : IfSo(condition, problem) \subseteq ReaderProblems
    BY DEF IfSo
<1>4. CASE Refuse
    <2>1. UNCHANGED <<document, objects, scanned, pending>>
        BY <1>4, Zenon DEF Refuse
    <2>2. problems' \subseteq ReaderProblems
        BY <1>4 DEF Refuse, ReaderProblems
    <2> QED
        BY <1>1, <2>1, <2>2
<1>5. CASE TreeRead
    <2>1. UNCHANGED <<document, objects, scanned, pending>>
        BY <1>5, Zenon DEF TreeRead
    <2>2. \E a, b : problems' = problems \union IfSo(a, "page tree") \union IfSo(b, "no pages")
        BY <1>5, Zenon DEF TreeRead
    <2>3. problems' \subseteq ReaderProblems
        BY <2>2, <1>3 DEF InReader, ReaderProblems
    <2> QED
        BY <1>1, <2>1, <2>3
<1>6. CASE /\ UNCHANGED <<document, objects, scanned, pending>>
           /\ \E a : \E problem \in ReaderProblems : problems' = problems \union IfSo(a, problem)
    <2>1. problems' \subseteq ReaderProblems
        BY <1>3, <1>6 DEF InReader
    <2> QED
        BY <1>1, <1>6, <2>1
<1>7. {"font without a map", "stream", "undeclared font", "no text"} \subseteq ReaderProblems
    BY DEF ReaderProblems
<1>8. CASE OpenPage
    <2>1. UNCHANGED <<document, objects, scanned, pending>>
        BY <1>8, Zenon DEF OpenPage
    <2>2. \E a : problems' = problems \union IfSo(a, "font without a map")
        BY <1>8, Zenon DEF OpenPage
    <2> QED
        BY <1>6, <1>7, <2>1, <2>2
<1>9. CASE OpenStream
    <2>1. UNCHANGED <<document, objects, scanned, pending>>
        BY <1>9, Zenon DEF OpenStream
    <2>2. \E a : problems' = problems \union IfSo(a, "stream")
        BY <1>9, Zenon DEF OpenStream
    <2> QED
        BY <1>6, <1>7, <2>1, <2>2
<1>10. CASE Operate
    <2>1. UNCHANGED <<document, objects, scanned, pending>>
        BY <1>10, Zenon DEF Operate
    <2>2. \E a : problems' = problems \union IfSo(a, "undeclared font")
        BY <1>10, Zenon DEF Operate
    <2> QED
        BY <1>6, <1>7, <2>1, <2>2
<1>11. CASE Finish
    <2>1. UNCHANGED <<document, objects, scanned, pending>>
        BY <1>11, Zenon DEF Finish
    <2>2. \E a : problems' = problems \union IfSo(a, "no text")
        BY <1>11, Zenon DEF Finish
    <2> QED
        BY <1>6, <1>7, <2>1, <2>2
<1>12. CASE ClosePage \/ PutItem \/ KeepRows
    <2>1. UNCHANGED <<document, objects, scanned, pending, problems>>
        BY <1>12, Zenon DEF ClosePage, PutItem, KeepRows
    <2> QED
        BY <1>1, <2>1 DEF InReader
<1> QED
    BY <1>2, <1>4, <1>5, <1>8, <1>9, <1>10, <1>11, <1>12, ScanInReader, CollectInReader, VisitInReader
    DEF Next, vars, Reading, ReaderStep, Parse, Correct, SaveReceipt, Refused, Recorded, NotWritten

LEMMA ParseInForm == ASSUME InFigures, InForm, Parse PROVE InForm'
<1>1. /\ book = <<>> /\ draft' = ParseReceipt(rows, problems) /\ form' = FormRead(draft')
      /\ UNCHANGED <<edits, book>>
    BY Zenon DEF Parse
<1>2. draft'.rate \in Nat \union {None}
    BY <1>1, RateOfDraft DEF InFigures, FiguredRows
<1>3. "country" \in DOMAIN form' /\ form'.country \in Countries
    BY <1>1, CountryOfForm
<1>4. Chosen(edits', form'.country)
    BY <1>3 DEF Chosen
<1> QED
    BY <1>1, <1>2, <1>3, <1>4 DEF InForm

LEMMA CorrectInForm == ASSUME InForm, Correct PROVE InForm'
<1>1. form # None /\ edits < MaxEdits /\ edits' = edits + 1 /\ UNCHANGED <<draft, book>>
    BY Zenon DEF Correct
<1>2. PICK field \in DOMAIN TypedInto : \E typed \in TypedInto[field] : form' = [form EXCEPT ![field] = typed]
    BY Zenon DEF Correct
<1>3. PICK typed \in TypedInto[field] : form' = [form EXCEPT ![field] = typed]
    BY <1>2
<1>4. "country" \in DOMAIN form /\ Chosen(edits, form.country) /\ book = <<>>
    BY <1>1 DEF InForm
<1>5. "country" \in DOMAIN form' /\ form'.country = IF field = "country" THEN typed ELSE form.country
    BY <1>3, <1>4
<1>6. edits' \in 0 .. MaxEdits /\ edits' > 0
    BY <1>1, EditsAssumption DEF InForm
<1>7. Chosen(edits', form'.country)
    <2>1. CASE field = "country"
        BY <1>3, <1>5, <1>6, <2>1 DEF Chosen
    <2>2. CASE field # "country"
        BY <1>4, <1>5, <1>6, <2>2 DEF Chosen
    <2> QED
        BY <2>1, <2>2
<1> QED
    BY <1>1, <1>4, <1>5, <1>6, <1>7 DEF InForm

LEMMA StaysInForm == ASSUME InFigures, InForm, [Next]_vars PROVE InForm'
<1>1. CASE UNCHANGED <<draft, form, edits, book>>
    BY <1>1 DEF InForm
<1>2. CASE Recorded
    <2> DEFINE new == Result.invoice
    <2>1. /\ form # None /\ draft' = None /\ form' = None /\ book' = Append(book, new) /\ edits' = edits
        BY <1>2, Zenon DEF Recorded
    <2>2. book = <<>>
        BY <2>1 DEF InForm
    <2> HIDE DEF new
    <2>3. Len(book') = 1
        BY <2>1, <2>2, NothingListed, ListAppended
    <2> QED
        BY <2>1, <2>3 DEF InForm
<1>3. CASE Reading \/ Refused \/ NotWritten \/ UNCHANGED vars
    <2>1. UNCHANGED <<draft, form, edits, book>>
        BY <1>3, Zenon DEF Reading, Refused, NotWritten, vars, import
    <2> QED
        BY <1>1, <2>1
<1> QED
    BY <1>2, <1>3, ParseInForm, CorrectInForm DEF Next, SaveReceipt

(* Whatever the file is made of and whatever is typed, the walk of its     *)
(* tree goes no deeper than collect_pages lets it, the rate of the draft   *)
(* is one that can be applied or none, the form has a country that only    *)
(* who types can take from it (Form::read), and a document is recorded at  *)
(* most once (save_receipt).                                               *)
THEOREM ImportWellFormed == Spec => []TypeOK
<1>1. ImportInit => InHand /\ InLine /\ InFigures /\ InReader /\ InForm
    BY BeginsInHand, BeginsInLine, BeginsInFigures, BeginsTyped
<1>2. InHand /\ InLine /\ InFigures /\ InReader /\ InForm /\ [Next]_vars
        => (InHand /\ InLine /\ InFigures /\ InReader /\ InForm)'
    BY StaysInHand, StaysInLine, StaysInFigures, StaysInReader, StaysInForm
<1>3. InHand /\ InReader /\ InForm => TypeOK
    <2> SUFFICES ASSUME InHand, InReader, InForm PROVE TypeOK
        OBVIOUS
    <2>1. \A k \in DOMAIN pending : pending[k].depth \in 0 .. MaxDepth + 1
        BY DEF InReader, Shallow, ToSet
    <2>2. Len(book) <= 1
        <3>1. book = <<>> \/ Len(book) = 1
            BY DEF InForm
        <3>2. CASE book = <<>>
            <4>1. Len(book) = 0
                BY <3>2, NothingListed
            <4> QED
                BY <4>1
        <3>3. CASE Len(book) = 1
            BY <3>3
        <3> QED
            BY <3>1, <3>2, <3>3
    <2>3. \/ form = None
          \/ form.country \in CountryCodes \union {"PT"}
          \/ edits > 0 /\ form.country \in TypedInto["country"]
        BY DEF InForm, Chosen, Countries
    <2>4. DOMAIN objects \subseteq {document.entries[k].num : k \in 1 .. scanned}
        BY DEF InReader, LookedAt
    <2>5. stage \in Stages /\ scanned \in 0 .. Len(document.entries) /\ page \in 0 .. Len(pages)
        BY DEF InHand, Kept, Found, Staged
    <2>6. problems \subseteq ReaderProblems /\ (draft = None \/ draft.rate \in Nat \union {None}) /\ edits \in 0 .. MaxEdits
        BY DEF InReader, InForm
    <2> HIDE DEF InHand, InReader, InForm
    <2> QED
        BY <2>1, <2>2, <2>3, <2>4, <2>5, <2>6 DEF TypeOK
<1> QED
    BY <1>1, <1>2, <1>3, PTL DEF Spec
===============================================================================
