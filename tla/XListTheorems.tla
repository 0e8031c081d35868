---------------------------- MODULE XListTheorems ----------------------------
(***************************************************************************)
(* What the operators of XList do to a list: which nodes are left, that    *)
(* none is there twice, and that the order of stamps survives.             *)
(***************************************************************************)
EXTENDS XList, SequenceTheorems, FiniteSetTheorems, WellFoundedInduction, TLAPS

(* Unlinking the node at position k moves those behind it one place up. *)
LEMMA UnlinkAt ==
    ASSUME NEW S, NEW l \in Seq(S), NEW k \in 1..Len(l)
    PROVE  /\ RemoveAt(l, k) \in Seq(S)
           /\ Len(RemoveAt(l, k)) = Len(l) - 1
           /\ \A i \in 1..Len(l)-1 :
                RemoveAt(l, k)[i] = IF i < k THEN l[i] ELSE l[i+1]
  <1> DEFINE a == SubSeq(l, 1, k-1)
             b == SubSeq(l, k+1, Len(l))
  <1>1. a \in Seq(S) /\ Len(a) = k-1 /\ \A i \in 1..k-1 : a[i] = l[i]
    OBVIOUS
  <1>2. b \in Seq(S) /\ Len(b) = Len(l)-k /\ \A i \in 1..Len(l)-k : b[i] = l[k+i]
    OBVIOUS
  <1>3. RemoveAt(l, k) = a \o b
    BY DEF RemoveAt
  <1> HIDE DEF a, b
  <1>4. /\ a \o b \in Seq(S)
        /\ Len(a \o b) = Len(a) + Len(b)
        /\ \A i \in 1..Len(a)+Len(b) :
             (a \o b)[i] = IF i <= Len(a) THEN a[i] ELSE b[i - Len(a)]
    BY <1>1, <1>2, ConcatProperties
  <1>5. ASSUME NEW i \in 1..Len(l)-1
        PROVE  (a \o b)[i] = IF i < k THEN l[i] ELSE l[i+1]
    <2>1. CASE i < k
      BY <1>1, <1>2, <1>4, <2>1
    <2>2. CASE ~(i < k)
      <3>1. (a \o b)[i] = b[i-(k-1)]
        BY <1>1, <1>2, <1>4, <2>2
      <3>2. i-(k-1) \in 1..Len(l)-k /\ k + (i-(k-1)) = i+1
        BY <2>2
      <3> QED
        BY <3>1, <3>2, <1>2, <2>2
    <2> QED
      BY <2>1, <2>2
  <1> QED
    BY <1>1, <1>2, <1>3, <1>4, <1>5

(* What is left of l stands in the order it had there. *)
LEMMA UnlinkKeepsOrder ==
    ASSUME NEW S, NEW l \in Seq(S), NEW k \in 1..Len(l)
    PROVE  \A i, j \in 1..Len(l)-1 : i < j =>
             \E p, q \in 1..Len(l) :
               p < q /\ RemoveAt(l, k)[i] = l[p] /\ RemoveAt(l, k)[j] = l[q]
  <1> SUFFICES ASSUME NEW i \in 1..Len(l)-1, NEW j \in 1..Len(l)-1, i < j
               PROVE  \E p, q \in 1..Len(l) :
                        p < q /\ RemoveAt(l, k)[i] = l[p]
                              /\ RemoveAt(l, k)[j] = l[q]
    OBVIOUS
  <1> DEFINE r == RemoveAt(l, k)
             p == IF i < k THEN i ELSE i+1
             q == IF j < k THEN j ELSE j+1
  <1>1. r[i] = l[p] /\ r[j] = l[q]
    <2>1. r[i] = IF i < k THEN l[i] ELSE l[i+1]
      BY UnlinkAt
    <2>2. r[j] = IF j < k THEN l[j] ELSE l[j+1]
      BY UnlinkAt
    <2> QED
      BY <2>1, <2>2
  <1>2. p \in 1..Len(l) /\ q \in 1..Len(l) /\ p < q
    OBVIOUS
  <1> QED
    BY <1>1, <1>2

(* In a list that has x at position k and nowhere else, x is unlinked there. *)
LEMMA RemoveFirstIsAt ==
    ASSUME NEW S, NEW l \in Seq(S), IsInjective(l),
           NEW x, NEW k \in 1..Len(l), l[k] = x
    PROVE  RemoveFirst(l, x) = RemoveAt(l, k)
  <1> DEFINE I == {i \in 1..Len(l) : l[i] = x}
  <1>1. I = {k}
    BY DEF IsInjective
  <1>2. Min(I) = k
    BY <1>1 DEF Min
  <1>3. SelectInSeq(l, LAMBDA v : v = x) = k
    BY <1>1, <1>2 DEF SelectInSeq
  <1> QED
    BY <1>3 DEF RemoveFirst

(* A node that is unlinked is gone, the others stay, each once. *)
LEMMA RemoveFirstProperties ==
    ASSUME NEW S, NEW l \in Seq(S), IsInjective(l), NEW x
    PROVE  /\ RemoveFirst(l, x) \in Seq(S)
           /\ IsInjective(RemoveFirst(l, x))
           /\ ToSet(RemoveFirst(l, x)) = ToSet(l) \ {x}
  <1>1. CASE x \notin ToSet(l)
    <2>1. RemoveFirst(l, x) = l
      BY <1>1 DEF RemoveFirst, ToSet
    <2> QED
      BY <1>1, <2>1
  <1>2. CASE x \in ToSet(l)
    <2>1. PICK k \in 1..Len(l) : l[k] = x
      BY <1>2 DEF ToSet
    <2> DEFINE r == RemoveAt(l, k)
    <2>2. RemoveFirst(l, x) = r
      BY <2>1, RemoveFirstIsAt
    <2>3. /\ r \in Seq(S)
          /\ Len(r) = Len(l) - 1
          /\ \A i \in 1..Len(l)-1 : r[i] = IF i < k THEN l[i] ELSE l[i+1]
      BY UnlinkAt
    <2>3a. \A i, j \in 1..Len(l)-1 : i < j =>
             \E p, q \in 1..Len(l) : p < q /\ r[i] = l[p] /\ r[j] = l[q]
      BY UnlinkKeepsOrder
    <2> HIDE DEF r
    <2>4. ASSUME NEW i \in 1..Len(r), NEW j \in 1..Len(r), i < j
          PROVE  r[i] # r[j]
      <3>0. i \in 1..Len(l)-1 /\ j \in 1..Len(l)-1
        BY <2>3
      <3>1. PICK p, q \in 1..Len(l) : p < q /\ r[i] = l[p] /\ r[j] = l[q]
        BY <2>4, <3>0, <2>3a
      <3> QED
        BY <3>1 DEF IsInjective
    <2>4a. IsInjective(r)
      BY <2>3, <2>4 DEF IsInjective
    <2>5. ToSet(r) \subseteq ToSet(l) \ {x}
      BY <2>1, <2>3 DEF ToSet, IsInjective
    <2>6. ToSet(l) \ {x} \subseteq ToSet(r)
      <3>1. SUFFICES ASSUME NEW j \in 1..Len(l), j # k
                     PROVE  \E i \in 1..Len(r) : l[j] = r[i]
        <4>1. ToSet(r) = {r[i] : i \in 1..Len(r)}
          BY <2>3 DEF ToSet
        <4>2. ToSet(l) = {l[i] : i \in 1..Len(l)}
          BY DEF ToSet
        <4> QED
          BY <2>1, <4>1, <4>2
      <3>2. CASE j < k
        BY <2>3, <3>2
      <3>3. CASE j > k
        <4>1. j-1 \in 1..Len(r) /\ ~(j-1 < k) /\ (j-1)+1 = j
          BY <2>3, <3>3
        <4>2. r[j-1] = l[j]
          BY <2>3, <4>1
        <4> QED
          BY <4>1, <4>2
      <3> QED
        BY <3>1, <3>2, <3>3
    <2> QED
      BY <2>2, <2>3, <2>4a, <2>5, <2>6
  <1> QED
    BY <1>1, <1>2

(* Unlinking keeps the order of stamps. *)
LEMMA RemoveFirstSorted ==
    ASSUME NEW S, NEW l \in Seq(S), IsInjective(l), NEW x,
           NEW stamp, SortedBy(l, stamp)
    PROVE  SortedBy(RemoveFirst(l, x), stamp)
  <1>1. CASE x \notin ToSet(l)
    BY <1>1 DEF RemoveFirst, ToSet
  <1>2. CASE x \in ToSet(l)
    <2>1. PICK k \in 1..Len(l) : l[k] = x
      BY <1>2 DEF ToSet
    <2> DEFINE r == RemoveAt(l, k)
    <2>2. RemoveFirst(l, x) = r
      BY <2>1, RemoveFirstIsAt
    <2>3. /\ r \in Seq(S)
          /\ Len(r) = Len(l) - 1
          /\ \A i \in 1..Len(l)-1 : r[i] = IF i < k THEN l[i] ELSE l[i+1]
      BY UnlinkAt
    <2>3a. \A i, j \in 1..Len(l)-1 : i < j =>
             \E p, q \in 1..Len(l) : p < q /\ r[i] = l[p] /\ r[j] = l[q]
      BY UnlinkKeepsOrder
    <2> HIDE DEF r
    <2>4. ASSUME NEW i \in 1..Len(r), NEW j \in 1..Len(r), i < j
          PROVE  stamp[r[i]] <= stamp[r[j]]
      <3>0. i \in 1..Len(l)-1 /\ j \in 1..Len(l)-1
        BY <2>3
      <3>1. PICK p, q \in 1..Len(l) : p < q /\ r[i] = l[p] /\ r[j] = l[q]
        BY <2>4, <3>0, <2>3a
      <3> QED
        BY <3>1 DEF SortedBy
    <2> QED
      BY <2>2, <2>3, <2>4 DEF SortedBy
  <1> QED
    BY <1>1, <1>2

(* Only the stamps of the nodes of the list matter. *)
LEMMA SortedByAgree ==
    ASSUME NEW S, NEW l \in Seq(S), NEW stamp, SortedBy(l, stamp),
           NEW stamp2, \A x \in ToSet(l) : stamp2[x] = stamp[x]
    PROVE  SortedBy(l, stamp2)
  BY DEF SortedBy, ToSet

(* A node that is grabbed is in the list once, behind the others. *)
LEMMA GrabTailProperties ==
    ASSUME NEW S, NEW l \in Seq(S), IsInjective(l), NEW x \in S
    PROVE  /\ GrabTail(l, x) \in Seq(S)
           /\ IsInjective(GrabTail(l, x))
           /\ ToSet(GrabTail(l, x)) = ToSet(l) \union {x}
  <1> DEFINE r == RemoveFirst(l, x)
  <1>1. r \in Seq(S) /\ IsInjective(r) /\ ToSet(r) = ToSet(l) \ {x}
    BY RemoveFirstProperties
  <1> HIDE DEF r
  <1>2. /\ Append(r, x) \in Seq(S)
        /\ Len(Append(r, x)) = Len(r) + 1
        /\ \A i \in 1..Len(r) : Append(r, x)[i] = r[i]
        /\ Append(r, x)[Len(r) + 1] = x
    BY <1>1
  <1>3. \A i \in 1..Len(r) : r[i] # x
    <2>1. \A i \in 1..Len(r) : r[i] \in ToSet(r)
      BY <1>1 DEF ToSet
    <2> QED
      BY <1>1, <2>1
  <1>4. IsInjective(Append(r, x))
    BY <1>1, <1>2, <1>3 DEF IsInjective
  <1>5. ToSet(Append(r, x)) = ToSet(r) \union {x}
    BY <1>1, <1>2 DEF ToSet
  <1> QED
    BY <1>1, <1>2, <1>4, <1>5 DEF GrabTail, r

(* A node whose new stamp is the latest may go to the tail. *)
LEMMA GrabTailSorted ==
    ASSUME NEW S, NEW l \in Seq(S), IsInjective(l), NEW x \in S,
           NEW stamp, SortedBy(l, stamp),
           NEW stamp2, \A y \in ToSet(l) \ {x} : stamp2[y] = stamp[y],
           \A y \in ToSet(l) \ {x} : stamp2[y] <= stamp2[x]
    PROVE  SortedBy(GrabTail(l, x), stamp2)
  <1> DEFINE r == RemoveFirst(l, x)
  <1>1. r \in Seq(S) /\ ToSet(r) = ToSet(l) \ {x}
    BY RemoveFirstProperties
  <1>2. SortedBy(r, stamp2)
    <2>1. SortedBy(r, stamp)
      BY RemoveFirstSorted
    <2> QED
      BY <1>1, <2>1, SortedByAgree
  <1> HIDE DEF r
  <1>3. /\ Append(r, x) \in Seq(S)
        /\ Len(Append(r, x)) = Len(r) + 1
        /\ \A i \in 1..Len(r) : Append(r, x)[i] = r[i]
        /\ Append(r, x)[Len(r) + 1] = x
    BY <1>1
  <1>4. \A i \in 1..Len(r) : stamp2[r[i]] <= stamp2[x]
    <2>1. \A i \in 1..Len(r) : r[i] \in ToSet(r)
      BY <1>1 DEF ToSet
    <2> QED
      BY <1>1, <2>1
  <1>5. SortedBy(Append(r, x), stamp2)
    BY <1>1, <1>2, <1>3, <1>4 DEF SortedBy
  <1> QED
    BY <1>5 DEF GrabTail, r

(* Every set of positions has a least one. *)
LEMMA LeastPosition ==
    ASSUME NEW I, I \subseteq Nat, I # {}
    PROVE  Min(I) \in I /\ \A i \in I : Min(I) <= i
  <1>1. PICK m \in I : \A i \in I : ~(<<i, m>> \in OpToRel(<, Nat))
    BY NatLessThanWellFounded, WFMin
  <1>2. ASSUME NEW i \in I
        PROVE  m <= i
    <2>1. i < m => <<i, m>> \in OpToRel(<, Nat)
      <3>1. <<i, m>> \in Nat \X Nat
        OBVIOUS
      <3> QED
        BY <3>1, Zenon DEF OpToRel
    <2>2. ~(<<i, m>> \in OpToRel(<, Nat))
      BY <1>1
    <2>3. ~(i < m)
      BY <2>1, <2>2
    <2> QED
      BY <2>3
  <1> QED
    BY <1>2 DEF Min

(* Popping stops at the first node that is not stale, if there is one. *)
LEMMA FirstOutsideProperties ==
    ASSUME NEW S, NEW l \in Seq(S), NEW Stale
    PROVE  \/ /\ FirstOutside(l, Stale) = 0
              /\ \A i \in 1..Len(l) : l[i] \in Stale
           \/ /\ FirstOutside(l, Stale) \in 1..Len(l)
              /\ l[FirstOutside(l, Stale)] \notin Stale
              /\ \A i \in 1..FirstOutside(l, Stale)-1 : l[i] \in Stale
  <1> DEFINE I == {i \in 1..Len(l) : l[i] \notin Stale}
  <1>1. FirstOutside(l, Stale) = IF I # {} THEN Min(I) ELSE 0
    BY DEF FirstOutside, SelectInSeq
  <1>2. CASE I = {}
    BY <1>1, <1>2
  <1>3. CASE I # {}
    <2>0. I \subseteq Nat
      OBVIOUS
    <2>1. Min(I) \in I /\ \A i \in I : Min(I) <= i
      <3> HIDE DEF I
      <3> QED
        BY <1>3, <2>0, LeastPosition
    <2>2. FirstOutside(l, Stale) = Min(I)
      BY <1>1, <1>3
    <2> HIDE DEF I
    <2> DEFINE k == FirstOutside(l, Stale)
    <2>3. k \in 1..Len(l) /\ l[k] \notin Stale
      BY <2>1, <2>2 DEF I
    <2>4. \A i \in 1..Len(l) : i < k => l[i] \in Stale
      BY <2>1, <2>2 DEF I
    <2> HIDE DEF k
    <2>5. \A i \in 1..k-1 : l[i] \in Stale
      BY <2>3, <2>4
    <2> QED
      BY <2>3, <2>5 DEF k
  <1> QED
    BY <1>2, <1>3

(* What PopHead leaves is a tail of the list, what it takes is stale. *)
LEMMA PopHeadWhileIsTail ==
    ASSUME NEW S, NEW l \in Seq(S), NEW Stale
    PROVE  \E k \in 1..Len(l)+1 :
             LET p == PopHeadWhile(l, Stale)
             IN  /\ p \in Seq(S)
                 /\ Len(p) = Len(l) + 1 - k
                 /\ \A i \in 1..Len(p) : p[i] = l[k+i-1]
                 /\ \A i \in 1..k-1 : l[i] \in Stale
                 /\ k <= Len(l) => l[k] \notin Stale
  <1> DEFINE p == PopHeadWhile(l, Stale)
             f == FirstOutside(l, Stale)
  <1>1. CASE f = 0
    <2>1. \A i \in 1..Len(l) : l[i] \in Stale
      BY <1>1, FirstOutsideProperties
    <2>2. p = << >>
      BY <1>1 DEF PopHeadWhile
    <2>3. WITNESS Len(l)+1 \in 1..Len(l)+1
    <2> QED
      BY <2>1, <2>2
  <1>2. CASE f # 0
    <2>1. f \in 1..Len(l) /\ l[f] \notin Stale /\ \A i \in 1..f-1 : l[i] \in Stale
      BY <1>2, FirstOutsideProperties
    <2>2. p = SubSeq(l, f, Len(l))
      BY <1>2 DEF PopHeadWhile
    <2> HIDE DEF p, f
    <2>3. /\ p \in Seq(S)
          /\ Len(p) = Len(l) + 1 - f
          /\ \A i \in 1..Len(p) : p[i] = l[f+i-1]
      BY <2>1, <2>2, SubSeqProperties
    <2>4. f \in 1..Len(l)+1
      BY <2>1
    <2> QED
      BY <2>1, <2>3, <2>4 DEF p
  <1> QED
    BY <1>1, <1>2

(* PopHead keeps nodes of the list, each once, and takes only stale ones. *)
LEMMA PopHeadWhileProperties ==
    ASSUME NEW S, NEW l \in Seq(S), IsInjective(l), NEW Stale
    PROVE  /\ PopHeadWhile(l, Stale) \in Seq(S)
           /\ IsInjective(PopHeadWhile(l, Stale))
           /\ ToSet(PopHeadWhile(l, Stale)) \subseteq ToSet(l)
           /\ ToSet(l) \ ToSet(PopHeadWhile(l, Stale)) \subseteq Stale
  <1> DEFINE p == PopHeadWhile(l, Stale)
  <1>1. PICK k \in 1..Len(l)+1 :
          /\ p \in Seq(S)
          /\ Len(p) = Len(l) + 1 - k
          /\ \A i \in 1..Len(p) : p[i] = l[k+i-1]
          /\ \A i \in 1..k-1 : l[i] \in Stale
    BY PopHeadWhileIsTail
  <1> HIDE DEF p
  <1>2. \A i \in 1..Len(p) : k+i-1 \in 1..Len(l)
    BY <1>1
  <1>3. IsInjective(p)
    <2>1. SUFFICES ASSUME NEW i \in 1..Len(p), NEW j \in 1..Len(p), p[i] = p[j]
                   PROVE  i = j
      BY <1>1 DEF IsInjective
    <2>2. l[k+i-1] = l[k+j-1]
      BY <1>1, <2>1
    <2>3. k+i-1 = k+j-1
      BY <1>2, <2>2 DEF IsInjective
    <2> QED
      BY <2>3
  <1>4. ToSet(p) \subseteq ToSet(l)
    BY <1>1, <1>2 DEF ToSet
  <1>5. ToSet(l) \ ToSet(p) \subseteq Stale
    <2>1. SUFFICES ASSUME NEW j \in 1..Len(l), l[j] \notin ToSet(p)
                   PROVE  l[j] \in Stale
      BY DEF ToSet
    <2>2. CASE j < k
      BY <1>1, <2>2
    <2>3. CASE j >= k
      <3>1. j-k+1 \in 1..Len(p) /\ k+(j-k+1)-1 = j
        BY <1>1, <2>3
      <3>2. p[j-k+1] = l[j]
        BY <1>1, <3>1
      <3>3. p[j-k+1] \in ToSet(p)
        BY <1>1, <3>1 DEF ToSet
      <3> QED
        BY <2>1, <3>2, <3>3
    <2> QED
      BY <2>2, <2>3
  <1> QED
    BY <1>1, <1>3, <1>4, <1>5 DEF p

(* What is left of a list in stamp order is in stamp order. *)
LEMMA PopHeadWhileSorted ==
    ASSUME NEW S, NEW l \in Seq(S), NEW stamp, SortedBy(l, stamp), NEW Stale
    PROVE  SortedBy(PopHeadWhile(l, Stale), stamp)
  <1> DEFINE p == PopHeadWhile(l, Stale)
  <1>1. PICK k \in 1..Len(l)+1 :
          /\ p \in Seq(S)
          /\ Len(p) = Len(l) + 1 - k
          /\ \A i \in 1..Len(p) : p[i] = l[k+i-1]
    <2>1. \E k \in 1..Len(l)+1 :
            /\ p \in Seq(S)
            /\ Len(p) = Len(l) + 1 - k
            /\ \A i \in 1..Len(p) : p[i] = l[k+i-1]
            /\ \A i \in 1..k-1 : l[i] \in Stale
            /\ k <= Len(l) => l[k] \notin Stale
      BY PopHeadWhileIsTail
    <2> HIDE DEF p
    <2> QED
      BY <2>1
  <1> HIDE DEF p
  <1>2. ASSUME NEW i \in 1..Len(p), NEW j \in 1..Len(p), i < j
        PROVE  stamp[p[i]] <= stamp[p[j]]
    <2>1. /\ k+i-1 \in DOMAIN l
          /\ k+j-1 \in DOMAIN l
          /\ k+i-1 < k+j-1
      BY <1>1, <1>2
    <2>2. stamp[l[k+i-1]] <= stamp[l[k+j-1]]
      BY <2>1 DEF SortedBy
    <2> QED
      BY <1>1, <2>2
  <1>3. SortedBy(p, stamp)
    BY <1>1, <1>2 DEF SortedBy
  <1> QED
    BY <1>3 DEF p

(* In a list in stamp order, popping at the head finds every node stamped by
   t: what is left has later stamps. *)
LEMMA PopHeadWhileComplete ==
    ASSUME NEW S, NEW l \in Seq(S),
           NEW stamp \in [S -> Int], SortedBy(l, stamp),
           NEW t \in Int,
           NEW Stale, \A x \in S : x \notin Stale => stamp[x] > t
    PROVE  \A x \in ToSet(PopHeadWhile(l, Stale)) : stamp[x] > t
  <1> DEFINE p == PopHeadWhile(l, Stale)
  <1>1. PICK k \in 1..Len(l)+1 :
          /\ p \in Seq(S)
          /\ Len(p) = Len(l) + 1 - k
          /\ \A i \in 1..Len(p) : p[i] = l[k+i-1]
          /\ k <= Len(l) => l[k] \notin Stale
    BY PopHeadWhileIsTail
  <1> HIDE DEF p
  <1>2. ASSUME NEW i \in 1..Len(p)
        PROVE  stamp[p[i]] > t
    <2>1. /\ k \in DOMAIN l /\ l[k] \in S /\ l[k] \notin Stale
          /\ k+i-1 \in DOMAIN l /\ l[k+i-1] \in S
          /\ k <= k+i-1
      BY <1>1, <1>2
    <2>2. stamp[l[k]] > t
      BY <2>1
    <2>3. stamp[l[k]] <= stamp[l[k+i-1]]
      <3>1. CASE i = 1
        <4>1. k+i-1 = k
          BY <3>1
        <4> QED
          BY <2>1, <4>1
      <3>2. CASE i # 1
        <4>1. k < k+i-1
          BY <3>2
        <4> QED
          BY <2>1, <4>1 DEF SortedBy
      <3> QED
        BY <3>1, <3>2
    <2>4. stamp[l[k]] \in Int /\ stamp[l[k+i-1]] \in Int
      BY <2>1
    <2>5. stamp[l[k+i-1]] > t
      BY <2>2, <2>3, <2>4
    <2> QED
      BY <1>1, <2>5
  <1>3. \A x \in ToSet(p) : stamp[x] > t
    BY <1>1, <1>2 DEF ToSet
  <1> QED
    BY <1>3 DEF p

(* A node that comes from elsewhere makes the list one longer. *)
LEMMA GrabNewProperties ==
    ASSUME NEW S, NEW l \in Seq(S), NEW x \in S, x \notin ToSet(l)
    PROVE  /\ GrabTail(l, x) = Append(l, x)
           /\ Len(GrabTail(l, x)) = Len(l) + 1
  <1>1. RemoveFirst(l, x) = l
    BY DEF RemoveFirst, ToSet
  <1> QED
    BY <1>1 DEF GrabTail

(* The head is taken off. *)
LEMMA HeadTailOfInjective ==
    ASSUME NEW S, NEW l \in Seq(S), IsInjective(l), l # << >>
    PROVE  /\ Head(l) \in S
           /\ Head(l) \in ToSet(l)
           /\ Tail(l) \in Seq(S)
           /\ IsInjective(Tail(l))
           /\ ToSet(Tail(l)) = ToSet(l) \ {Head(l)}
           /\ Len(Tail(l)) = Len(l) - 1
  <1> DEFINE t == Tail(l)
  <1>1. /\ Len(l) \in Nat \ {0}
        /\ Head(l) = l[1] /\ l[1] \in S
        /\ t \in Seq(S) /\ Len(t) = Len(l) - 1
        /\ \A i \in 1..Len(l)-1 : t[i] = l[i+1]
    BY HeadTailProperties
  <1> HIDE DEF t
  <1>2. IsInjective(t)
    BY <1>1 DEF IsInjective
  <1>3. ToSet(t) \subseteq ToSet(l) \ {l[1]}
    <2> SUFFICES ASSUME NEW i \in 1..Len(l)-1
                 PROVE  l[i+1] \in ToSet(l) /\ l[i+1] # l[1]
      BY <1>1 DEF ToSet
    <2> QED
      BY <1>1 DEF IsInjective, ToSet
  <1>4. ToSet(l) \ {l[1]} \subseteq ToSet(t)
    <2> SUFFICES ASSUME NEW i \in 1..Len(l), i # 1
                 PROVE  l[i] \in ToSet(t)
      BY <1>1 DEF ToSet
    <2>1. i-1 \in 1..Len(t) /\ l[i] = t[i-1]
      BY <1>1
    <2> QED
      BY <1>1, <2>1 DEF ToSet
  <1>5. Head(l) \in ToSet(l)
    BY <1>1 DEF ToSet
  <1> QED
    BY <1>1, <1>2, <1>3, <1>4, <1>5 DEF t

(* There is a function that obeys the recursion of Left up to n. *)
LeftIsDefined(S, l, R, n) ==
    \E g \in [0..n -> Seq(S)] :
      \A i \in 0..n : g[i] = IF i = 0 THEN << >>
                             ELSE IF l[i] \in R THEN g[i-1] ELSE Append(g[i-1], l[i])

(* The recursion of Left is well founded. *)
LEMMA LeftExists ==
    ASSUME NEW S, NEW l \in Seq(S), NEW R
    PROVE  \A n \in 0..Len(l) : LeftIsDefined(S, l, R, n)
  <1> DEFINE Has(n) == LeftIsDefined(S, l, R, n)
             I == {n \in 0..Len(l) : ~Has(n)}
  <1>1. SUFFICES ASSUME I # {}
                 PROVE  FALSE
    OBVIOUS
  <1> DEFINE m == Min(I)
  <1>2. m \in I /\ \A i \in I : m <= i
    <2>1. I \subseteq Nat
      OBVIOUS
    <2> HIDE DEF I
    <2> QED
      BY <1>1, <2>1, LeastPosition
  <1> HIDE DEF m
  <1>3. m # 0
    <2> DEFINE e == [i \in 0..0 |-> << >>]
    <2>1. e \in [0..0 -> Seq(S)]
      OBVIOUS
    <2>2. \A i \in 0..0 : i = 0 /\ e[i] = << >>
      OBVIOUS
    <2> HIDE DEF e
    <2>3. Has(0)
      BY <2>1, <2>2 DEF LeftIsDefined
    <2> QED
      BY <1>2, <2>3
  <1>4. m \in 1..Len(l) /\ m-1 \in 0..Len(l) /\ Has(m-1)
    <2> HIDE DEF Has
    <2>1. m \in 0..Len(l) /\ m \in 1..Len(l) /\ m-1 \in 0..Len(l) /\ ~(m <= m-1)
      BY <1>2, <1>3
    <2> HIDE DEF I
    <2>2. m-1 \notin I
      BY <1>2, <2>1
    <2> USE DEF I
    <2> QED
      BY <2>1, <2>2
  <1>5. PICK g \in [0..m-1 -> Seq(S)] :
          \A i \in 0..m-1 : g[i] = IF i = 0 THEN << >>
                                   ELSE IF l[i] \in R THEN g[i-1] ELSE Append(g[i-1], l[i])
    BY <1>4 DEF LeftIsDefined
  <1> DEFINE h == [i \in 0..m |-> IF i = m THEN (IF l[m] \in R THEN g[m-1]
                                                 ELSE Append(g[m-1], l[m]))
                                  ELSE g[i]]
  <1>6. h \in [0..m -> Seq(S)]
    <2>1. l[m] \in S /\ g[m-1] \in Seq(S) /\ Append(g[m-1], l[m]) \in Seq(S)
      BY <1>4
    <2>2. \A i \in 0..m : i # m => i \in 0..m-1
      BY <1>4
    <2> QED
      BY <2>1, <2>2
  <1>7. \A i \in 0..m : h[i] = IF i = 0 THEN << >>
                               ELSE IF l[i] \in R THEN h[i-1] ELSE Append(h[i-1], l[i])
    <2> SUFFICES ASSUME NEW i \in 0..m
                 PROVE  h[i] = IF i = 0 THEN << >>
                               ELSE IF l[i] \in R THEN h[i-1] ELSE Append(h[i-1], l[i])
      OBVIOUS
    <2>1. CASE i = m
      <3>1. h[m-1] = g[m-1]
        BY <1>4
      <3> QED
        BY <1>4, <2>1, <3>1
    <2>2. CASE i # m
      <3>1. i \in 0..m-1 /\ h[i] = g[i]
        BY <2>2, <1>4
      <3>2. i # 0 => h[i-1] = g[i-1]
        BY <2>2, <1>4
      <3> QED
        BY <1>5, <3>1, <3>2
    <2> QED
      BY <2>1, <2>2
  <1> HIDE DEF h
  <1>8. Has(m)
    BY <1>6, <1>7 DEF LeftIsDefined
  <1> QED
    BY <1>2, <1>8

(* So Left is that function. *)
LEMMA LeftProperties ==
    ASSUME NEW S, NEW l \in Seq(S), NEW R
    PROVE  /\ Left(l, R)[0] = << >>
           /\ \A n \in 1..Len(l) :
                Left(l, R)[n] = IF l[n] \in R THEN Left(l, R)[n-1]
                                ELSE Append(Left(l, R)[n-1], l[n])
  <1> DEFINE Is(f) == f = [n \in 0..Len(l) |->
                             IF n = 0 THEN << >>
                             ELSE IF l[n] \in R THEN f[n-1] ELSE Append(f[n-1], l[n])]
  <1>1. PICK g \in [0..Len(l) -> Seq(S)] :
          \A i \in 0..Len(l) : g[i] = IF i = 0 THEN << >>
                                      ELSE IF l[i] \in R THEN g[i-1] ELSE Append(g[i-1], l[i])
    <2>1. LeftIsDefined(S, l, R, Len(l))
      BY LeftExists
    <2> QED
      BY <2>1 DEF LeftIsDefined
  <1>2. Is(g)
    BY <1>1
  <1>3. Left(l, R) = CHOOSE f : Is(f)
    BY DEF Left
  <1> HIDE DEF Is
  <1>4. Is(Left(l, R))
    BY <1>2, <1>3
  <1> DEFINE f == Left(l, R)
  <1>5. f = [n \in 0..Len(l) |-> IF n = 0 THEN << >>
                                 ELSE IF l[n] \in R THEN f[n-1] ELSE Append(f[n-1], l[n])]
    BY <1>4 DEF Is
  <1> HIDE DEF f
  <1> SUFFICES /\ f[0] = << >>
               /\ \A n \in 1..Len(l) : f[n] = IF l[n] \in R THEN f[n-1]
                                              ELSE Append(f[n-1], l[n])
    BY DEF f
  <1>6. f[0] = << >>
    <2>1. 0 \in 0..Len(l)
      OBVIOUS
    <2> QED
      BY <1>5, <2>1
  <1>7. ASSUME NEW n \in 1..Len(l)
        PROVE  f[n] = IF l[n] \in R THEN f[n-1] ELSE Append(f[n-1], l[n])
    <2>1. n \in 0..Len(l) /\ n # 0
      OBVIOUS
    <2> QED
      BY <1>5, <2>1, Zenon
  <1> QED
    BY <1>6, <1>7

(* The nodes of R are gone from the list, the others are left, each once and in
   the order they had. *)
LEMMA WithoutProperties ==
    ASSUME NEW S, NEW l \in Seq(S), IsInjective(l), NEW R
    PROVE  /\ Without(l, R) \in Seq(S)
           /\ IsInjective(Without(l, R))
           /\ ToSet(Without(l, R)) = ToSet(l) \ R
           /\ \A stamp : SortedBy(l, stamp) => SortedBy(Without(l, R), stamp)
  <1> DEFINE f == Left(l, R)
             Good(n) == /\ f[n] \in Seq(S)
                        /\ IsInjective(f[n])
                        /\ ToSet(f[n]) = {l[i] : i \in 1..n} \ R
                        /\ \A stamp : SortedBy(l, stamp) => SortedBy(f[n], stamp)
             I == {n \in 0..Len(l) : ~Good(n)}
  <1>1. /\ f[0] = << >>
        /\ \A n \in 1..Len(l) : f[n] = IF l[n] \in R THEN f[n-1] ELSE Append(f[n-1], l[n])
    BY LeftProperties
  <1> HIDE DEF f
  <1>2. Good(0)
    <2>1. << >> \in Seq(S) /\ IsInjective(<< >>) /\ ToSet(<< >>) = {}
      BY DEF IsInjective, ToSet
    <2>1a. \A stamp : SortedBy(<< >>, stamp)
      BY DEF SortedBy
    <2>2. {l[i] : i \in 1..0} = {}
      OBVIOUS
    <2> QED
      BY <1>1, <2>1, <2>1a, <2>2
  <1>3. ASSUME NEW n \in 1..Len(l), Good(n-1)
        PROVE  Good(n)
    <2>1. {l[i] : i \in 1..n} = {l[i] : i \in 1..n-1} \union {l[n]}
      OBVIOUS
    <2>2. CASE l[n] \in R
      BY <1>1, <1>3, <2>1, <2>2
    <2>3. CASE l[n] \notin R
      <3>1. f[n-1] \in Seq(S) /\ l[n] \in S /\ IsInjective(f[n-1])
        BY <1>3
      <3>2. l[n] \notin ToSet(f[n-1])
        <4>1. \A i \in 1..n-1 : l[i] # l[n]
          BY DEF IsInjective
        <4> QED
          BY <1>3, <4>1
      <3> HIDE DEF Good
      <3>3. /\ Append(f[n-1], l[n]) \in Seq(S)
            /\ IsInjective(Append(f[n-1], l[n]))
            /\ ToSet(Append(f[n-1], l[n])) = ToSet(f[n-1]) \union {l[n]}
        <4> DEFINE a == f[n-1]
                   x == l[n]
        <4> HIDE DEF a, x
        <4>1. a \in Seq(S) /\ x \in S /\ IsInjective(a) /\ x \notin ToSet(a)
          BY <3>1, <3>2 DEF a, x
        <4>2. GrabTail(a, x) = Append(a, x)
          BY <4>1, GrabNewProperties
        <4>3. /\ GrabTail(a, x) \in Seq(S)
              /\ IsInjective(GrabTail(a, x))
              /\ ToSet(GrabTail(a, x)) = ToSet(a) \union {x}
          BY <4>1, GrabTailProperties
        <4> QED
          BY <4>2, <4>3 DEF a, x
      <3>4. f[n] = Append(f[n-1], l[n])
        BY <1>1, <2>3
      <3>5. ToSet(f[n-1]) = {l[i] : i \in 1..n-1} \ R
        BY <1>3 DEF Good
      <3>6. ASSUME NEW stamp, SortedBy(l, stamp)
            PROVE  SortedBy(Append(f[n-1], l[n]), stamp)
        <4> DEFINE a == f[n-1]
                   x == l[n]
        <4>1. \A i \in 1..n-1 : stamp[l[i]] <= stamp[l[n]]
          BY <3>6 DEF SortedBy
        <4>2. \A y \in ToSet(a) \ {x} : stamp[y] <= stamp[x]
          BY <3>5, <4>1
        <4>3. SortedBy(a, stamp)
          BY <1>3, <3>6 DEF Good
        <4>4. a \in Seq(S) /\ x \in S /\ IsInjective(a) /\ x \notin ToSet(a)
          BY <3>1, <3>2
        <4> HIDE DEF a, x
        <4>5. GrabTail(a, x) = Append(a, x)
          BY <4>4, GrabNewProperties
        <4>6. SortedBy(GrabTail(a, x), stamp)
          BY <4>2, <4>3, <4>4, GrabTailSorted
        <4> QED
          BY <4>5, <4>6 DEF a, x
      <3>7. ToSet(f[n]) = {l[i] : i \in 1..n} \ R
        BY <2>1, <2>3, <3>3, <3>4, <3>5
      <3> QED
        BY <3>3, <3>4, <3>6, <3>7 DEF Good
    <2> QED
      BY <2>2, <2>3
  <1> HIDE DEF Good
  <1>4. I = {}
    <2>1. SUFFICES ASSUME I # {}
                   PROVE  FALSE
      OBVIOUS
    <2>2. Min(I) \in I /\ \A i \in I : Min(I) <= i
      <3>1. I \subseteq Nat
        OBVIOUS
      <3> HIDE DEF I
      <3> QED
        BY <2>1, <3>1, LeastPosition
    <2>3. Min(I) \in 0..Len(l) /\ ~Good(Min(I)) /\ Min(I) # 0
      BY <1>2, <2>2
    <2>4. Min(I) \in 1..Len(l) /\ Min(I)-1 \in 0..Len(l)
      BY <2>3
    <2>5. Good(Min(I)-1)
      BY <2>2, <2>4
    <2> QED
      BY <1>3, <2>3, <2>4, <2>5
  <1>5. Good(Len(l))
    <2>1. Len(l) \in 0..Len(l)
      OBVIOUS
    <2> QED
      BY <1>4, <2>1
  <1>6. ToSet(l) = {l[i] : i \in 1..Len(l)}
    BY DEF ToSet
  <1> QED
    BY <1>5, <1>6 DEF Good, Without, f
(* Two lists without a node in common, one behind the other. *)
LEMMA ConcatInjective ==
    ASSUME NEW S, NEW l \in Seq(S), NEW k \in Seq(S),
           IsInjective(l), IsInjective(k), ToSet(l) \intersect ToSet(k) = {}
    PROVE  /\ l \o k \in Seq(S)
           /\ IsInjective(l \o k)
           /\ ToSet(l \o k) = ToSet(l) \union ToSet(k)
  <1> DEFINE c == l \o k
  <1>1. /\ c \in Seq(S)
        /\ Len(c) = Len(l) + Len(k)
        /\ \A i \in 1..Len(l) + Len(k) : c[i] = IF i <= Len(l) THEN l[i] ELSE k[i - Len(l)]
    BY ConcatProperties
  <1> HIDE DEF c
  <1>2. /\ \A i \in 1..Len(l) : c[i] = l[i]
        /\ \A i \in 1..Len(k) : c[Len(l) + i] = k[i]
    <2>1. ASSUME NEW i \in 1..Len(l)
          PROVE  c[i] = l[i]
      BY <1>1
    <2>2. ASSUME NEW i \in 1..Len(k)
          PROVE  c[Len(l) + i] = k[i]
      <3>1. Len(l) + i \in 1..Len(l) + Len(k) /\ ~(Len(l) + i <= Len(l))
        OBVIOUS
      <3>2. Len(l) + i - Len(l) = i
        OBVIOUS
      <3> QED
        BY <1>1, <3>1, <3>2
    <2> QED
      BY <2>1, <2>2
  <1>3. ToSet(c) = ToSet(l) \union ToSet(k)
    <2>1. ToSet(c) \subseteq ToSet(l) \union ToSet(k)
      <3> SUFFICES ASSUME NEW i \in 1..Len(c)
                   PROVE  c[i] \in ToSet(l) \union ToSet(k)
        BY <1>1 DEF ToSet
      <3>1. CASE i <= Len(l)
        BY <1>1, <3>1 DEF ToSet
      <3>2. CASE i > Len(l)
        <4>1. i - Len(l) \in 1..Len(k) /\ c[i] = k[i - Len(l)]
          BY <1>1, <3>2
        <4> QED
          BY <4>1 DEF ToSet
      <3> QED
        BY <3>1, <3>2
    <2>2. ToSet(l) \subseteq ToSet(c)
      BY <1>1, <1>2 DEF ToSet
    <2>3. ToSet(k) \subseteq ToSet(c)
      <3> SUFFICES ASSUME NEW i \in 1..Len(k)
                   PROVE  k[i] \in ToSet(c)
        BY DEF ToSet
      <3>1. Len(l) + i \in 1..Len(c) /\ c[Len(l) + i] = k[i]
        BY <1>1, <1>2
      <3> QED
        BY <1>1, <3>1 DEF ToSet
    <2> QED
      BY <2>1, <2>2, <2>3
  <1>4. IsInjective(c)
    <2> SUFFICES ASSUME NEW i \in 1..Len(c), NEW j \in 1..Len(c), i < j
                 PROVE  c[i] # c[j]
      BY <1>1 DEF IsInjective
    <2>1. CASE j <= Len(l)
      BY <1>1, <2>1 DEF IsInjective
    <2>2. CASE i > Len(l)
      <3>1. /\ i - Len(l) \in 1..Len(k) /\ j - Len(l) \in 1..Len(k)
            /\ i - Len(l) # j - Len(l)
        BY <1>1, <2>2
      <3> QED
        BY <1>1, <2>2, <3>1 DEF IsInjective
    <2>3. CASE i <= Len(l) /\ j > Len(l)
      <3>1. i \in 1..Len(l) /\ j - Len(l) \in 1..Len(k)
        BY <1>1, <2>3
      <3>2. c[i] = l[i] /\ c[j] = k[j - Len(l)]
        BY <1>1, <2>3
      <3>3. c[i] \in ToSet(l) /\ c[j] \in ToSet(k)
        BY <3>1, <3>2 DEF ToSet
      <3> QED
        BY <3>3
    <2> QED
      BY <2>1, <2>2, <2>3
  <1> QED
    BY <1>1, <1>3, <1>4 DEF c

(* It is in stamp order if both lists are and no stamp of the first is later
   than one of the second. *)
LEMMA ConcatSorted ==
    ASSUME NEW S, NEW l \in Seq(S), NEW k \in Seq(S), NEW stamp,
           SortedBy(l, stamp), SortedBy(k, stamp),
           \A x \in ToSet(l), y \in ToSet(k) : stamp[x] <= stamp[y]
    PROVE  SortedBy(l \o k, stamp)
  <1> DEFINE c == l \o k
  <1>1. /\ c \in Seq(S)
        /\ Len(c) = Len(l) + Len(k)
        /\ \A i \in 1..Len(l) + Len(k) : c[i] = IF i <= Len(l) THEN l[i] ELSE k[i - Len(l)]
    BY ConcatProperties
  <1> HIDE DEF c
  <1>2. ASSUME NEW i \in 1..Len(c), NEW j \in 1..Len(c), i < j
        PROVE  stamp[c[i]] <= stamp[c[j]]
    <2>1. CASE j <= Len(l)
      <3>1. i \in 1..Len(l) /\ j \in 1..Len(l) /\ c[i] = l[i] /\ c[j] = l[j]
        BY <1>1, <1>2, <2>1
      <3> QED
        BY <1>2, <3>1 DEF SortedBy
    <2>2. CASE i > Len(l)
      <3>1. /\ i - Len(l) \in 1..Len(k) /\ j - Len(l) \in 1..Len(k)
            /\ i - Len(l) < j - Len(l)
        BY <1>1, <1>2, <2>2
      <3>2. c[i] = k[i - Len(l)] /\ c[j] = k[j - Len(l)]
        BY <1>1, <1>2, <2>2
      <3> QED
        BY <3>1, <3>2 DEF SortedBy
    <2>3. CASE i <= Len(l) /\ j > Len(l)
      <3>1. i \in 1..Len(l) /\ j - Len(l) \in 1..Len(k)
        BY <1>1, <2>3
      <3>2. c[i] = l[i] /\ c[j] = k[j - Len(l)]
        BY <1>1, <2>3
      <3>3. c[i] \in ToSet(l) /\ c[j] \in ToSet(k)
        BY <3>1, <3>2 DEF ToSet
      <3> QED
        BY <3>3
    <2> QED
      BY <2>1, <2>2, <2>3
  <1>3. SortedBy(c, stamp)
    BY <1>1, <1>2 DEF SortedBy
  <1> QED
    BY <1>3 DEF c

(* What PopHead takes are the nodes that it does not leave, each once. *)
LEMMA PoppedProperties ==
    ASSUME NEW S, NEW l \in Seq(S), IsInjective(l), NEW Stale
    PROVE  LET popped == SubSeq(l, 1, Len(l) - Len(PopHeadWhile(l, Stale)))
           IN  /\ popped \in Seq(S)
               /\ IsInjective(popped)
               /\ ToSet(popped) = ToSet(l) \ ToSet(PopHeadWhile(l, Stale))
  <1> DEFINE p == PopHeadWhile(l, Stale)
             a == SubSeq(l, 1, Len(l) - Len(p))
  <1>1. PICK k \in 1..Len(l)+1 :
          /\ p \in Seq(S)
          /\ Len(p) = Len(l) + 1 - k
          /\ \A i \in 1..Len(p) : p[i] = l[k+i-1]
    <2>1. \E k \in 1..Len(l)+1 :
            /\ p \in Seq(S)
            /\ Len(p) = Len(l) + 1 - k
            /\ \A i \in 1..Len(p) : p[i] = l[k+i-1]
            /\ \A i \in 1..k-1 : l[i] \in Stale
            /\ k <= Len(l) => l[k] \notin Stale
      BY PopHeadWhileIsTail
    <2> HIDE DEF p
    <2> QED
      BY <2>1
  <1> HIDE DEF p
  <1>2. /\ a \in Seq(S)
        /\ Len(a) = k - 1
        /\ \A i \in 1..k-1 : a[i] = l[i]
    <2>1. Len(l) - Len(p) = k - 1
      BY <1>1
    <2>2. \A i \in 1..k-1 : i \in 1..Len(l) /\ l[i] \in S
      BY <1>1
    <2> QED
      BY <1>1, <2>1, <2>2, SubSeqProperties
  <1> HIDE DEF a
  <1>3. IsInjective(a)
    BY <1>2 DEF IsInjective
  <1>4. ToSet(a) = ToSet(l) \ ToSet(p)
    <2>1. ASSUME NEW i \in 1..k-1
          PROVE  l[i] \in ToSet(l) \ ToSet(p)
      <3>1. \A j \in 1..Len(p) : p[j] # l[i]
        <4> SUFFICES ASSUME NEW j \in 1..Len(p)
                     PROVE  p[j] # l[i]
          OBVIOUS
        <4>1. k+j-1 \in 1..Len(l) /\ i \in 1..Len(l) /\ k+j-1 # i
          BY <1>1
        <4> QED
          BY <1>1, <4>1 DEF IsInjective
      <3> QED
        BY <1>1, <3>1 DEF ToSet
    <2>2. ASSUME NEW i \in 1..Len(l), l[i] \notin ToSet(p)
          PROVE  i \in 1..k-1
      <3> SUFFICES ASSUME i >= k
                   PROVE  FALSE
        OBVIOUS
      <3>1. i-k+1 \in 1..Len(p) /\ k+(i-k+1)-1 = i
        BY <1>1
      <3>2. p[i-k+1] = l[i]
        BY <1>1, <3>1
      <3> QED
        BY <1>1, <2>2, <3>1, <3>2 DEF ToSet
    <2>3. ToSet(a) = {l[i] : i \in 1..k-1}
      BY <1>2 DEF ToSet
    <2>4. ToSet(l) = {l[i] : i \in 1..Len(l)}
      BY DEF ToSet
    <2>5. ToSet(a) \subseteq ToSet(l) \ ToSet(p)
      BY <2>1, <2>3
    <2>6. ToSet(l) \ ToSet(p) \subseteq ToSet(a)
      BY <2>2, <2>3, <2>4
    <2> QED
      BY <2>5, <2>6
  <1> QED
    BY <1>2, <1>3, <1>4 DEF a, p

(* A list is as long as it has nodes. *)
LEMMA LengthOfInjective ==
    ASSUME NEW S, NEW l \in Seq(S), IsInjective(l)
    PROVE  IsFiniteSet(ToSet(l)) /\ Cardinality(ToSet(l)) = Len(l)
  <1>1. l \in Bijection(1..Len(l), ToSet(l))
    <2>1. l \in [1..Len(l) -> ToSet(l)]
      BY DEF ToSet
    <2>2. \A i, j \in 1..Len(l) : l[i] = l[j] => i = j
      BY DEF IsInjective
    <2>3. \A x \in ToSet(l) : \E i \in 1..Len(l) : l[i] = x
      BY DEF ToSet
    <2> QED
      BY <2>1, <2>2, <2>3 DEF Bijection, Injection, Surjection
  <1>2. IsFiniteSet(1..Len(l)) /\ Cardinality(1..Len(l)) = Len(l)
    <2>1. Len(l) \in Nat
      OBVIOUS
    <2> QED
      BY <2>1, FS_Interval
  <1>3. ExistsBijection(1..Len(l), ToSet(l))
    BY <1>1 DEF ExistsBijection
  <1> QED
    BY <1>2, <1>3, FS_Bijection

=============================================================================
