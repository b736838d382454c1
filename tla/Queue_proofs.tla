---------------------------- MODULE Queue_proofs ----------------------------
(* What the queue operations do to the members, the order and the head.    *)
EXTENDS Queue, SequenceTheorems, FiniteSetTheorems, NaturalsInduction, WellFoundedInduction, TLAPS

\* An element is in the set of a queue when it stands at some position.
LEMMA MemberPosition ==
  ASSUME NEW S, NEW q \in Seq(S)
  PROVE  /\ \A x : x \in ToSet(q) <=> \E i \in 1..Len(q) : q[i] = x
         /\ ToSet(q) \subseteq S
         /\ q = <<>> <=> ToSet(q) = {}
         /\ q # <<>> => Head(q) \in ToSet(q) /\ Head(q) = q[1] /\ Len(q) >= 1
<1>1. DOMAIN q = 1..Len(q) /\ Len(q) \in Nat
  BY LenProperties
<1>2. \A x : x \in ToSet(q) <=> \E i \in 1..Len(q) : q[i] = x
  BY <1>1 DEF ToSet
<1>3. ToSet(q) \subseteq S
  BY <1>2, ElementOfSeq
<1>4. q # <<>> => Head(q) = q[1] /\ Len(q) >= 1
  BY <1>1, EmptySeq
<1>5. q = <<>> => ToSet(q) = {}
  BY <1>2, EmptySeq
<1>6. q # <<>> => Head(q) \in ToSet(q)
  <2>1. q # <<>> => 1 \in 1..Len(q)
    BY <1>1, <1>4
  <2>. QED  BY <1>2, <1>4, <2>1
<1>. QED
  BY <1>2, <1>3, <1>4, <1>5, <1>6

\* Injectivity of a sequence, by positions.
LEMMA InjectivePositions ==
  ASSUME NEW S, NEW q \in Seq(S)
  PROVE  IsInjective(q) <=> \A i, j \in 1..Len(q) : q[i] = q[j] => i = j
BY LenProperties DEF IsInjective

\* QueInsert puts a new element at the end.
LEMMA QueInsertProperties ==
  ASSUME NEW S, NEW q \in Seq(S), NEW t \in S
  PROVE  /\ QueInsert(q, t) \in Seq(S)
         /\ QueInsert(q, t) # <<>>
         /\ ToSet(QueInsert(q, t)) = ToSet(q) \cup {t}
         /\ IsInjective(q) /\ t \notin ToSet(q) => IsInjective(QueInsert(q, t))
         /\ Head(QueInsert(q, t)) = IF q = <<>> THEN t ELSE Head(q)
<1>. DEFINE r == Append(q, t)
<1>1. /\ r \in Seq(S) /\ r # <<>> /\ Len(r) = Len(q) + 1 /\ Len(q) \in Nat
      /\ \A i \in 1..Len(q) : r[i] = q[i]
      /\ r[Len(q) + 1] = t
  BY AppendProperties, LenProperties
<1>2. ToSet(r) = ToSet(q) \cup {t}
  <2>1. \A x : x \in ToSet(r) <=> \E i \in 1..Len(q)+1 : r[i] = x
    BY <1>1, MemberPosition
  <2>2. \A x : x \in ToSet(q) <=> \E i \in 1..Len(q) : q[i] = x
    BY MemberPosition
  <2>. QED  BY <1>1, <2>1, <2>2
<1>3. IsInjective(q) /\ t \notin ToSet(q) => IsInjective(r)
  <2>. SUFFICES ASSUME IsInjective(q), t \notin ToSet(q),
                       NEW i \in 1..Len(r), NEW j \in 1..Len(r), r[i] = r[j]
                PROVE  i = j
    BY <1>1, InjectivePositions
  <2>1. \A k \in 1..Len(q) : q[k] # t
    BY MemberPosition
  <2>2. \A k, m \in 1..Len(q) : q[k] = q[m] => k = m
    BY InjectivePositions
  <2>. QED  BY <1>1, <2>1, <2>2
<1>4. Head(r) = IF q = <<>> THEN t ELSE Head(q)
  BY <1>1, MemberPosition, EmptySeq
<1>. QED  BY <1>1, <1>2, <1>3, <1>4 DEF QueInsert

\* QueInsertTop puts a new element in front.
LEMMA QueInsertTopProperties ==
  ASSUME NEW S, NEW q \in Seq(S), NEW t \in S
  PROVE  /\ QueInsertTop(q, t) \in Seq(S)
         /\ QueInsertTop(q, t) # <<>>
         /\ ToSet(QueInsertTop(q, t)) = ToSet(q) \cup {t}
         /\ IsInjective(q) /\ t \notin ToSet(q) => IsInjective(QueInsertTop(q, t))
         /\ Head(QueInsertTop(q, t)) = t
<1>. DEFINE r == <<t>> \o q
<1>0. <<t>> \in Seq(S) /\ Len(<<t>>) = 1 /\ <<t>>[1] = t
  OBVIOUS
<1>1. /\ r \in Seq(S) /\ Len(r) = Len(q) + 1 /\ Len(q) \in Nat
      /\ r[1] = t
      /\ \A i \in 1..Len(q) : r[i + 1] = q[i]
      /\ \A i \in 2..Len(r) : r[i] = q[i - 1] /\ i - 1 \in 1..Len(q)
  BY <1>0, ConcatProperties, LenProperties
<1>2. ToSet(r) = ToSet(q) \cup {t}
  <2>1. \A x : x \in ToSet(r) <=> \E i \in 1..Len(q)+1 : r[i] = x
    BY <1>1, MemberPosition
  <2>2. \A x : x \in ToSet(q) <=> \E i \in 1..Len(q) : q[i] = x
    BY MemberPosition
  <2>3. ASSUME NEW x \in ToSet(r) PROVE x \in ToSet(q) \cup {t}
    BY <1>1, <2>1, <2>2
  <2>4. ASSUME NEW x \in ToSet(q) PROVE x \in ToSet(r)
    <3>1. PICK i \in 1..Len(q) : q[i] = x
      BY <2>2
    <3>. QED  BY <1>1, <2>1, <3>1
  <2>5. t \in ToSet(r)
    BY <1>1, <2>1
  <2>. QED  BY <2>3, <2>4, <2>5
<1>3. IsInjective(q) /\ t \notin ToSet(q) => IsInjective(r)
  <2>. SUFFICES ASSUME IsInjective(q), t \notin ToSet(q),
                       NEW i \in 1..Len(r), NEW j \in 1..Len(r), r[i] = r[j]
                PROVE  i = j
    BY <1>1, InjectivePositions
  <2>1. \A k \in 1..Len(q) : q[k] # t
    BY MemberPosition
  <2>2. \A k, m \in 1..Len(q) : q[k] = q[m] => k = m
    BY InjectivePositions
  <2>. QED  BY <1>1, <2>1, <2>2
<1>4. r # <<>> /\ Head(r) = t
  BY <1>1, EmptySeq, MemberPosition
<1>. QED  BY <1>1, <1>2, <1>3, <1>4 DEF QueInsertTop

\* RemoveAt closes the gap at position k.
LEMMA RemoveAtProperties ==
  ASSUME NEW S, NEW q \in Seq(S), NEW k \in 1..Len(q)
  PROVE  /\ RemoveAt(q, k) \in Seq(S)
         /\ Len(RemoveAt(q, k)) = Len(q) - 1
         /\ \A i \in 1..Len(q)-1 : RemoveAt(q, k)[i] = IF i < k THEN q[i] ELSE q[i + 1]
<1>. DEFINE a == SubSeq(q, 1, k - 1)
            b == SubSeq(q, k + 1, Len(q))
<1>1. Len(q) \in Nat /\ \A i \in 1..Len(q) : q[i] \in S
  BY LenProperties, ElementOfSeq
<1>2. /\ a \in Seq(S) /\ Len(a) = k - 1
      /\ \A i \in 1..k-1 : a[i] = q[i]
  <2>1. 1 \in Int /\ k - 1 \in Int /\ \A i \in 1..k-1 : q[i] \in S
    BY <1>1
  <2>2. /\ a \in Seq(S)
        /\ Len(a) = IF 1 <= k - 1 THEN k - 1 - 1 + 1 ELSE 0
        /\ \A i \in 1 .. k-1-1+1 : a[i] = q[1+i-1]
    BY <2>1, SubSeqProperties
  <2>. QED  BY <1>1, <2>2
<1>3. /\ b \in Seq(S) /\ Len(b) = Len(q) - k
      /\ \A i \in 1..Len(q)-k : b[i] = q[k + i]
  <2>1. k + 1 \in Int /\ Len(q) \in Int /\ \A i \in k+1..Len(q) : q[i] \in S
    BY <1>1
  <2>2. /\ b \in Seq(S)
        /\ Len(b) = IF k + 1 <= Len(q) THEN Len(q) - (k + 1) + 1 ELSE 0
        /\ \A i \in 1 .. Len(q) - (k + 1) + 1 : b[i] = q[k + 1 + i - 1]
    BY <2>1, SubSeqProperties
  <2>. QED  BY <1>1, <2>2
<1>. HIDE DEF a, b
<1>4. /\ a \o b \in Seq(S)
      /\ Len(a \o b) = Len(q) - 1
      /\ \A i \in 1..Len(q)-1 : (a \o b)[i] = IF i <= k - 1 THEN a[i] ELSE b[i - (k - 1)]
  <2>1. /\ a \o b \in Seq(S)
        /\ Len(a \o b) = Len(a) + Len(b)
        /\ \A i \in 1..Len(a) + Len(b) :
              (a \o b)[i] = IF i <= Len(a) THEN a[i] ELSE b[i - Len(a)]
    BY <1>2, <1>3, ConcatProperties
  <2>2. Len(a) + Len(b) = Len(q) - 1
    BY <1>1, <1>2, <1>3
  <2>. QED  BY <1>2, <2>1, <2>2
<1>5. ASSUME NEW i \in 1..Len(q)-1
      PROVE  (a \o b)[i] = IF i < k THEN q[i] ELSE q[i + 1]
  <2>1. CASE i < k
    <3>1. i \in 1..k-1 /\ i <= k - 1
      BY <2>1, <1>1
    <3>. QED  BY <2>1, <3>1, <1>2, <1>4
  <2>2. CASE ~(i < k)
    <3>1. i - (k - 1) \in 1..Len(q)-k /\ ~(i <= k - 1) /\ k + (i - (k - 1)) = i + 1
      BY <1>1, <2>2
    <3>2. b[i - (k - 1)] = q[k + (i - (k - 1))]
      BY <3>1, <1>3
    <3>. QED  BY <2>2, <3>1, <3>2, <1>4
  <2>. QED  BY <2>1, <2>2
<1>. QED  BY <1>4, <1>5 DEF RemoveAt, a, b

\* QueRemove takes exactly one element out of a queue without repetitions.
LEMMA QueRemoveProperties ==
  ASSUME NEW S, NEW q \in Seq(S), NEW t, IsInjective(q)
  PROVE  /\ QueRemove(q, t) \in Seq(S)
         /\ ToSet(QueRemove(q, t)) = ToSet(q) \ {t}
         /\ IsInjective(QueRemove(q, t))
         /\ q # <<>> /\ Head(q) # t =>
              QueRemove(q, t) # <<>> /\ Head(QueRemove(q, t)) = Head(q)
<1>1. CASE t \notin ToSet(q)
  <2>1. QueRemove(q, t) = q
    BY <1>1, MemberPosition DEF QueRemove
  <2>. QED  BY <1>1, <2>1
<1>2. CASE t \in ToSet(q)
  <2>. DEFINE k == PositionOf(q, t)
              r == QueRemove(q, t)
  <2>1. \E i \in 1..Len(q) : q[i] = t
    BY <1>2, MemberPosition
  <2>2. k \in 1..Len(q) /\ q[k] = t
    BY <2>1 DEF PositionOf
  <2>3. r = RemoveAt(q, k)
    BY <2>1 DEF QueRemove
  <2>. HIDE DEF k
  <2>4. Len(q) \in Nat /\ \A i, j \in 1..Len(q) : q[i] = q[j] => i = j
    BY LenProperties, InjectivePositions
  <2>5. /\ r \in Seq(S) /\ Len(r) = Len(q) - 1
        /\ \A i \in 1..Len(q)-1 : r[i] = IF i < k THEN q[i] ELSE q[i + 1]
    BY <2>2, <2>3, RemoveAtProperties
  <2>. HIDE DEF r
  <2>6. ToSet(r) = ToSet(q) \ {t}
    <3>1. ASSUME NEW x \in ToSet(r) PROVE x \in ToSet(q) \ {t}
      <4>1. PICK i \in 1..Len(r) : r[i] = x
        BY <2>5, MemberPosition
      <4>2. CASE i < k
        <5>1. x = q[i] /\ i \in 1..Len(q) /\ i # k  BY <4>1, <4>2, <2>4, <2>5
        <5>. QED  BY <5>1, <2>2, <2>4, MemberPosition
      <4>3. CASE ~(i < k)
        <5>1. x = q[i + 1] /\ i + 1 \in 1..Len(q) /\ i + 1 # k
          BY <4>1, <4>3, <2>2, <2>4, <2>5
        <5>. QED  BY <5>1, <2>2, <2>4, MemberPosition
      <4>. QED  BY <4>2, <4>3
    <3>2. ASSUME NEW x \in ToSet(q) \ {t} PROVE x \in ToSet(r)
      <4>1. PICK i \in 1..Len(q) : q[i] = x
        BY MemberPosition
      <4>2. i # k  BY <4>1, <2>2
      <4>3. CASE i < k
        <5>1. i \in 1..Len(r) /\ r[i] = x  BY <4>1, <4>3, <2>2, <2>4, <2>5
        <5>. QED  BY <5>1, <2>5, MemberPosition
      <4>4. CASE i > k
        <5>1. i - 1 \in 1..Len(r) /\ r[i - 1] = x  BY <4>1, <4>4, <2>2, <2>4, <2>5
        <5>. QED  BY <5>1, <2>5, MemberPosition
      <4>. QED  BY <4>2, <4>3, <4>4, <2>2, <2>4
    <3>. QED  BY <3>1, <3>2
  <2>7. IsInjective(r)
    <3>. SUFFICES ASSUME NEW i \in 1..Len(r), NEW j \in 1..Len(r), r[i] = r[j]
                  PROVE  i = j
      BY <2>5, InjectivePositions
    <3>1. i \in Int /\ j \in Int /\ i \in 1..Len(q)-1 /\ j \in 1..Len(q)-1
      BY <2>4, <2>5
    <3>2. (IF i < k THEN q[i] ELSE q[i + 1]) = (IF j < k THEN q[j] ELSE q[j + 1])
      BY <3>1, <2>5
    <3>. QED  BY <3>1, <3>2, <2>2, <2>4
  <2>8. q # <<>> /\ Head(q) # t => r # <<>> /\ Head(r) = Head(q)
    <3>. SUFFICES ASSUME q # <<>>, Head(q) # t PROVE r # <<>> /\ Head(r) = Head(q)
      OBVIOUS
    <3>1. Head(q) = q[1]  BY MemberPosition
    <3>2. k > 1  BY <3>1, <2>2
    <3>3. Len(r) >= 1 /\ r[1] = q[1]  BY <3>2, <2>2, <2>4, <2>5
    <3>4. r # <<>>  BY <3>3, <2>5, EmptySeq
    <3>. QED  BY <3>1, <3>3, <3>4, <2>5, MemberPosition
  <2>. QED  BY <2>5, <2>6, <2>7, <2>8 DEF r
<1>. QED  BY <1>1, <1>2

\* QueRemoveNext takes the head.
LEMMA QueRemoveNextProperties ==
  ASSUME NEW S, NEW q \in Seq(S), q # <<>>, IsInjective(q)
  PROVE  /\ QueRemoveNext(q) \in Seq(S)
         /\ ToSet(QueRemoveNext(q)) = ToSet(q) \ {Head(q)}
         /\ IsInjective(QueRemoveNext(q))
         /\ Head(q) \in ToSet(q) /\ Head(q) \in S
<1>. DEFINE r == Tail(q)
<1>1. Len(q) \in Nat /\ \A i, j \in 1..Len(q) : q[i] = q[j] => i = j
  BY LenProperties, InjectivePositions
<1>2. /\ r \in Seq(S) /\ Len(r) = Len(q) - 1
      /\ \A i \in 1..Len(r) : r[i] = q[i + 1]
  BY HeadTailProperties
<1>3. Head(q) = q[1] /\ Head(q) \in ToSet(q) /\ Len(q) >= 1 /\ ToSet(q) \subseteq S
  BY MemberPosition
<1>. HIDE DEF r
<1>4. ToSet(r) = ToSet(q) \ {Head(q)}
  <2>1. ASSUME NEW x \in ToSet(r) PROVE x \in ToSet(q) \ {Head(q)}
    <3>1. PICK i \in 1..Len(r) : r[i] = x  BY <1>2, MemberPosition
    <3>2. i + 1 \in 1..Len(q) /\ q[i + 1] = x /\ i + 1 # 1  BY <3>1, <1>1, <1>2
    <3>3. 1 \in 1..Len(q)  BY <1>1, <1>3
    <3>. QED  BY <3>2, <3>3, <1>1, <1>3, MemberPosition
  <2>2. ASSUME NEW x \in ToSet(q) \ {Head(q)} PROVE x \in ToSet(r)
    <3>1. PICK i \in 1..Len(q) : q[i] = x  BY MemberPosition
    <3>2. i - 1 \in 1..Len(r) /\ r[i - 1] = x  BY <3>1, <1>1, <1>2, <1>3
    <3>. QED  BY <3>2, <1>2, MemberPosition
  <2>. QED  BY <2>1, <2>2
<1>5. IsInjective(r)
  <2>. SUFFICES ASSUME NEW i \in 1..Len(r), NEW j \in 1..Len(r), r[i] = r[j]
                PROVE  i = j
    BY <1>2, InjectivePositions
  <2>1. i + 1 \in 1..Len(q) /\ j + 1 \in 1..Len(q) /\ q[i + 1] = q[j + 1]
    BY <1>1, <1>2
  <2>. QED  BY <2>1, <1>1
<1>. QED  BY <1>2, <1>3, <1>4, <1>5 DEF QueRemoveNext, r

-----------------------------------------------------------------------------
(* Natural numbers: least members and induction over a set of them.        *)

\* A set of natural numbers has a least member.
LEMMA LeastMember ==
  ASSUME NEW I \in SUBSET Nat, I # {}
  PROVE  \E m \in I : \A j \in I : m <= j
<1>. DEFINE less == {ss \in Nat \X Nat : ss[1] < ss[2]}
<1>1. IsWellFoundedOn(less, Nat)
  BY NatLessThanWellFounded DEF OpToRel
<1>. HIDE DEF less
<1>2. PICK m \in I : \A j \in I : ~(<<j, m>> \in less)
  BY <1>1, WFMin
<1>3. ASSUME NEW j \in I PROVE m <= j
  <2>1. j \in Nat /\ m \in Nat
    OBVIOUS
  <2>2. <<j, m>> \in less <=> j < m
    BY <2>1 DEF less
  <2>. QED  BY <1>2, <2>1, <2>2
<1>. QED  BY <1>3

\* Min of the positions that a search finds.
LEMMA MinPosition ==
  ASSUME NEW I \in SUBSET Nat, I # {}
  PROVE  Min(I) \in I /\ \A j \in I : Min(I) <= j
<1>1. \E m \in I : \A j \in I : m <= j
  BY LeastMember
<1>. QED  BY <1>1 DEF Min

\* Induction: a set with 0 and the successor of each of its members has all
\* natural numbers.
LEMMA SetInduction ==
  ASSUME NEW P, 0 \in P, \A n \in Nat : n \in P => n + 1 \in P
  PROVE  Nat \subseteq P
<1>. SUFFICES ASSUME Nat \ P # {} PROVE FALSE
  OBVIOUS
<1>1. PICK m \in Nat \ P : \A j \in Nat \ P : m <= j
  <2>1. Nat \ P \in SUBSET Nat
    OBVIOUS
  <2>. QED  BY <2>1, LeastMember
<1>2. m # 0
  BY <1>1
<1>3. m - 1 \in Nat /\ m - 1 \in P
  BY <1>1, <1>2
<1>4. (m - 1) + 1 \in P
  BY <1>3
<1>. QED  BY <1>1, <1>4

-----------------------------------------------------------------------------
(* Queues that are kept in the order of a key.                             *)

Sorted(q, key) == \A i, j \in 1..Len(q) : i < j => key[q[i]] <= key[q[j]]

\* InsertAt opens a gap at position k.
LEMMA InsertAtProperties ==
  ASSUME NEW S, NEW q \in Seq(S), NEW k \in 1..Len(q), NEW t \in S
  PROVE  /\ InsertAt(q, k, t) \in Seq(S)
         /\ Len(InsertAt(q, k, t)) = Len(q) + 1
         /\ \A i \in 1..Len(q)+1 :
               InsertAt(q, k, t)[i] = IF i < k THEN q[i] ELSE IF i = k THEN t ELSE q[i - 1]
<1>. DEFINE a == SubSeq(q, 1, k - 1)
            b == SubSeq(q, k, Len(q))
            c == a \o <<t>>
<1>1. Len(q) \in Nat /\ \A i \in 1..Len(q) : q[i] \in S
  BY LenProperties, ElementOfSeq
<1>2. /\ a \in Seq(S) /\ Len(a) = k - 1
      /\ \A i \in 1..k-1 : a[i] = q[i]
  <2>1. 1 \in Int /\ k - 1 \in Int /\ \A i \in 1..k-1 : q[i] \in S
    BY <1>1
  <2>2. /\ a \in Seq(S)
        /\ Len(a) = IF 1 <= k - 1 THEN k - 1 - 1 + 1 ELSE 0
        /\ \A i \in 1 .. k-1-1+1 : a[i] = q[1+i-1]
    BY <2>1, SubSeqProperties
  <2>. QED  BY <1>1, <2>2
<1>3. /\ b \in Seq(S) /\ Len(b) = Len(q) - k + 1
      /\ \A i \in 1..Len(q)-k+1 : b[i] = q[k + i - 1]
  <2>1. k \in Int /\ Len(q) \in Int /\ \A i \in k..Len(q) : q[i] \in S
    BY <1>1
  <2>2. /\ b \in Seq(S)
        /\ Len(b) = IF k <= Len(q) THEN Len(q) - k + 1 ELSE 0
        /\ \A i \in 1 .. Len(q) - k + 1 : b[i] = q[k + i - 1]
    BY <2>1, SubSeqProperties
  <2>. QED  BY <1>1, <2>2
<1>. HIDE DEF a, b
<1>4. c \in Seq(S) /\ Len(c) = k /\ \A i \in 1..k : c[i] = IF i < k THEN q[i] ELSE t
  <2>1. <<t>> \in Seq(S) /\ Len(<<t>>) = 1 /\ <<t>>[1] = t
    OBVIOUS
  <2>2. /\ c \in Seq(S) /\ Len(c) = Len(a) + 1
        /\ \A i \in 1..Len(a) + 1 : c[i] = IF i <= Len(a) THEN a[i] ELSE <<t>>[i - Len(a)]
    BY <2>1, <1>2, ConcatProperties
  <2>. QED  BY <1>1, <1>2, <2>1, <2>2
<1>. HIDE DEF c
<1>5. /\ c \o b \in Seq(S) /\ Len(c \o b) = Len(q) + 1
      /\ \A i \in 1..Len(q)+1 : (c \o b)[i] = IF i <= k THEN c[i] ELSE b[i - k]
  <2>1. /\ c \o b \in Seq(S) /\ Len(c \o b) = Len(c) + Len(b)
        /\ \A i \in 1..Len(c) + Len(b) : (c \o b)[i] = IF i <= Len(c) THEN c[i] ELSE b[i - Len(c)]
    BY <1>3, <1>4, ConcatProperties
  <2>2. Len(c) + Len(b) = Len(q) + 1
    BY <1>1, <1>3, <1>4
  <2>. QED  BY <1>4, <2>1, <2>2
<1>6. ASSUME NEW i \in 1..Len(q)+1
      PROVE  (c \o b)[i] = IF i < k THEN q[i] ELSE IF i = k THEN t ELSE q[i - 1]
  <2>1. CASE i <= k
    BY <1>1, <1>4, <1>5, <2>1
  <2>2. CASE ~(i <= k)
    <3>1. i - k \in 1..Len(q)-k+1 /\ k + (i - k) - 1 = i - 1
      BY <1>1, <2>2
    <3>2. b[i - k] = q[k + (i - k) - 1]
      BY <1>3, <3>1
    <3>. QED  BY <1>1, <1>5, <2>2, <3>1, <3>2
  <2>. QED  BY <2>1, <2>2
<1>. QED  BY <1>5, <1>6 DEF InsertAt, a, b, c

\* Where the search for the first larger key stops, or the end.
Place(q, key, t) ==
    LET I == {i \in 1..Len(q) : key[q[i]] > key[t]} IN IF I # {} THEN Min(I) ELSE 0

PutAt(q, i, t) == IF i = 0 THEN Append(q, t) ELSE InsertAt(q, i, t)

\* Inserting a new element in front of the first larger key keeps the order.
LEMMA SortedInsert ==
  ASSUME NEW S, NEW q \in Seq(S), NEW key \in [S -> Int], NEW t \in S,
         t \notin ToSet(q), IsInjective(q), Sorted(q, key)
  PROVE  LET r == PutAt(q, Place(q, key, t), t)
         IN  r \in Seq(S) /\ ToSet(r) = ToSet(q) \cup {t} /\ IsInjective(r) /\ Sorted(r, key)
<1>. DEFINE I == {i \in 1..Len(q) : key[q[i]] > key[t]}
            r == PutAt(q, Place(q, key, t), t)
            k == IF I # {} THEN Min(I) ELSE Len(q) + 1
<1>1. Len(q) \in Nat /\ (\A i \in 1..Len(q) : q[i] \in S) /\ I \in SUBSET Nat
  BY LenProperties, ElementOfSeq
<1>2. /\ k \in 1..Len(q)+1
      /\ \A i \in 1..Len(q) : i < k => key[q[i]] <= key[t]
      /\ k <= Len(q) => key[q[k]] > key[t]
  <2>1. CASE I = {}
    BY <1>1, <2>1
  <2>2. CASE I # {}
    <3>1. k \in I /\ \A j \in I : k <= j
      BY <1>1, <2>2, MinPosition
    <3>. HIDE DEF k
    <3>2. k \in 1..Len(q) /\ key[q[k]] > key[t]
      BY <3>1
    <3>3. ASSUME NEW i \in 1..Len(q), i < k PROVE key[q[i]] <= key[t]
      <4>1. i \notin I
        BY <1>1, <3>1, <3>2, <3>3
      <4>2. ~(key[q[i]] > key[t]) /\ key[q[i]] \in Int /\ key[t] \in Int
        BY <1>1, <4>1
      <4>. QED  BY <4>2
    <3>. QED  BY <1>1, <3>2, <3>3
  <2>. QED  BY <2>1, <2>2
<1>3. /\ r \in Seq(S) /\ Len(r) = Len(q) + 1
      /\ \A i \in 1..Len(q)+1 : r[i] = IF i < k THEN q[i] ELSE IF i = k THEN t ELSE q[i - 1]
  <2>1. CASE I = {}
    <3>1. r = Append(q, t) /\ k = Len(q) + 1
      BY <2>1 DEF PutAt, Place
    <3>. HIDE DEF r, k, I
    <3>2. /\ Append(q, t) \in Seq(S) /\ Len(Append(q, t)) = Len(q) + 1
          /\ \A i \in 1..Len(q) : Append(q, t)[i] = q[i]
          /\ Append(q, t)[Len(q) + 1] = t
      BY AppendProperties
    <3>. QED  BY <1>1, <3>1, <3>2
  <2>2. CASE I # {}
    <3>1. k \in I /\ k = Min(I)
      BY <1>1, <2>2, MinPosition
    <3>2. Place(q, key, t) = k
      BY <2>2, <3>1 DEF Place
    <3>. HIDE DEF k
    <3>3. k \in 1..Len(q) /\ k # 0
      BY <1>1, <3>1
    <3>4. r = InsertAt(q, k, t)
      BY <3>2, <3>3 DEF PutAt
    <3>. HIDE DEF r, I
    <3>5. /\ InsertAt(q, k, t) \in Seq(S)
          /\ Len(InsertAt(q, k, t)) = Len(q) + 1
          /\ \A i \in 1..Len(q)+1 :
                InsertAt(q, k, t)[i] = IF i < k THEN q[i] ELSE IF i = k THEN t ELSE q[i - 1]
      BY <3>3, InsertAtProperties
    <3>. QED  BY <3>4, <3>5
  <2>. QED  BY <2>1, <2>2
<1>. HIDE DEF r, k, I
<1>4. \A i, j \in 1..Len(q) : q[i] = q[j] => i = j
  BY InjectivePositions
<1>5. \A i \in 1..Len(q) : q[i] # t
  BY MemberPosition
<1>6. ToSet(r) = ToSet(q) \cup {t}
  <2>1. ASSUME NEW x \in ToSet(r) PROVE x \in ToSet(q) \cup {t}
    <3>1. PICK i \in 1..Len(r) : r[i] = x
      BY <1>3, MemberPosition
    <3>2. CASE i = k
      BY <1>3, <3>1, <3>2
    <3>3. CASE i # k
      <4>1. q[IF i < k THEN i ELSE i - 1] = x /\ (IF i < k THEN i ELSE i - 1) \in 1..Len(q)
        BY <1>1, <1>2, <1>3, <3>1, <3>3
      <4>. QED  BY <4>1, MemberPosition
    <3>. QED  BY <3>2, <3>3
  <2>2. ASSUME NEW x \in ToSet(q) PROVE x \in ToSet(r)
    <3>1. PICK j \in 1..Len(q) : q[j] = x
      BY MemberPosition
    <3>2. r[IF j < k THEN j ELSE j + 1] = x /\ (IF j < k THEN j ELSE j + 1) \in 1..Len(r)
      BY <1>1, <1>2, <1>3, <3>1
    <3>. QED  BY <1>3, <3>2, MemberPosition
  <2>3. t \in ToSet(r)
    <3>1. r[k] = t /\ k \in 1..Len(r)
      BY <1>1, <1>2, <1>3
    <3>. QED  BY <1>3, <3>1, MemberPosition
  <2>. QED  BY <2>1, <2>2, <2>3
<1>7. IsInjective(r)
  <2>. SUFFICES ASSUME NEW i \in 1..Len(r), NEW j \in 1..Len(r), r[i] = r[j] PROVE i = j
    BY <1>3, InjectivePositions
  <2>1. i \in Int /\ j \in Int /\ k \in Int /\ i \in 1..Len(q)+1 /\ j \in 1..Len(q)+1
    BY <1>1, <1>2, <1>3
  <2>2. \A n \in 1..Len(q)+1 : /\ n < k => n \in 1..Len(q) /\ r[n] = q[n]
                               /\ n = k => r[n] = t
                               /\ n > k => n - 1 \in 1..Len(q) /\ r[n] = q[n - 1]
    BY <1>1, <1>2, <1>3
  <2>3. CASE i = k \/ j = k
    <3>1. ASSUME NEW m \in 1..Len(q)+1, r[m] = t PROVE m = k
      <4>1. ~(m < k) /\ ~(m > k)
        BY <1>5, <2>2, <3>1
      <4>2. m \in Int
        BY <1>1
      <4>. QED  BY <2>1, <4>1, <4>2
    <3>2. r[k] = t
      BY <1>2, <1>3
    <3>3. r[i] = t /\ r[j] = t
      BY <2>3, <3>2
    <3>. QED  BY <2>1, <3>1, <3>3
  <2>4. CASE i # k /\ j # k
    <3>. DEFINE a == IF i < k THEN i ELSE i - 1
                b == IF j < k THEN j ELSE j - 1
    <3>1. a \in 1..Len(q) /\ q[a] = r[i]
      <4>1. i < k \/ i > k
        BY <2>1, <2>4
      <4>2. i < k => a = i
        OBVIOUS
      <4>3. i > k => a = i - 1
        BY <2>1
      <4>. HIDE DEF a
      <4>. QED  BY <2>1, <2>2, <4>1, <4>2, <4>3
    <3>2. b \in 1..Len(q) /\ q[b] = r[j]
      <4>1. j < k \/ j > k
        BY <2>1, <2>4
      <4>2. j < k => b = j
        OBVIOUS
      <4>3. j > k => b = j - 1
        BY <2>1
      <4>. HIDE DEF b
      <4>. QED  BY <2>1, <2>2, <4>1, <4>2, <4>3
    <3>3. a = b
      <4>. HIDE DEF a, b
      <4>. QED  BY <1>4, <3>1, <3>2
    <3>. QED  BY <2>1, <2>4, <3>3
  <2>. QED  BY <2>3, <2>4
<1>8. Sorted(r, key)
  <2>. SUFFICES ASSUME NEW i \in 1..Len(r), NEW j \in 1..Len(r), i < j
                PROVE  key[r[i]] <= key[r[j]]
    BY DEF Sorted
  <2>1. \A a, b \in 1..Len(q) : a < b => key[q[a]] <= key[q[b]]
    BY DEF Sorted
  <2>2. \A a \in 1..Len(q) : key[q[a]] \in Int
    BY <1>1
  <2>3. key[t] \in Int /\ i \in Int /\ j \in Int /\ k \in Int
    BY <1>1, <1>2
  <2>4. CASE j < k
    <3>1. r[i] = q[i] /\ r[j] = q[j] /\ i \in 1..Len(q) /\ j \in 1..Len(q)
      BY <1>1, <1>2, <1>3, <2>3, <2>4
    <3>. QED  BY <2>1, <3>1
  <2>5. CASE j = k
    <3>1. r[i] = q[i] /\ r[j] = t /\ i \in 1..Len(q)
      BY <1>1, <1>2, <1>3, <2>3, <2>5
    <3>. QED  BY <1>2, <2>3, <2>5, <3>1
  <2>6. CASE j > k
    <3>1. r[j] = q[j - 1] /\ j - 1 \in 1..Len(q) /\ k <= j - 1 /\ k \in 1..Len(q)
      BY <1>1, <1>2, <1>3, <2>3, <2>6
    <3>2. key[t] < key[q[k]] /\ key[q[k]] <= key[q[j - 1]]
      <4>1. k = j - 1 \/ k < j - 1
        BY <2>3, <3>1
      <4>. QED  BY <1>2, <2>1, <2>2, <2>3, <3>1, <4>1
    <3>3. key[t] < key[r[j]]
      BY <2>2, <2>3, <3>1, <3>2
    <3>4. CASE i < k
      <4>1. r[i] = q[i] /\ i \in 1..Len(q) /\ i < j - 1
        BY <1>1, <1>2, <1>3, <2>3, <2>6, <3>4
      <4>. QED  BY <2>1, <3>1, <4>1
    <3>5. CASE i = k
      BY <1>1, <1>2, <1>3, <2>2, <2>3, <3>1, <3>3, <3>5
    <3>6. CASE i > k
      <4>1. r[i] = q[i - 1] /\ i - 1 \in 1..Len(q) /\ i - 1 < j - 1
        <5>1. i \in 1..Len(q)+1 /\ ~(i < k) /\ i # k /\ i > 1
          BY <1>1, <1>2, <1>3, <2>3, <3>6
        <5>. QED  BY <1>1, <1>3, <2>3, <5>1
      <4>. QED  BY <2>1, <3>1, <4>1
    <3>. QED  BY <2>3, <3>4, <3>5, <3>6
  <2>. QED  BY <2>3, <2>4, <2>5, <2>6
<1>. QED  BY <1>3, <1>6, <1>7, <1>8 DEF r

\* Removing an element keeps the order of the others.
LEMMA QueRemoveSorted ==
  ASSUME NEW S, NEW q \in Seq(S), NEW key, NEW t, Sorted(q, key)
  PROVE  Sorted(QueRemove(q, t), key)
<1>1. CASE \E i \in 1..Len(q) : q[i] = t
  <2>. DEFINE k == PositionOf(q, t)
              r == RemoveAt(q, k)
  <2>1. k \in 1..Len(q) /\ Len(q) \in Nat
    BY <1>1, LenProperties DEF PositionOf
  <2>. HIDE DEF k
  <2>2. Len(r) = Len(q) - 1 /\ \A i \in 1..Len(q)-1 : r[i] = IF i < k THEN q[i] ELSE q[i + 1]
    BY <2>1, RemoveAtProperties
  <2>. HIDE DEF r
  <2>3. ASSUME NEW i \in 1..Len(r), NEW j \in 1..Len(r), i < j
        PROVE  key[r[i]] <= key[r[j]]
    <3>1. \E a, b \in 1..Len(q) : a < b /\ r[i] = q[a] /\ r[j] = q[b]
      <4>. DEFINE a == IF i < k THEN i ELSE i + 1
                  b == IF j < k THEN j ELSE j + 1
      <4>1. a \in 1..Len(q) /\ b \in 1..Len(q) /\ a < b
        BY <2>1, <2>2, <2>3
      <4>2. r[i] = q[a] /\ r[j] = q[b]
        BY <2>1, <2>2
      <4>. QED  BY <4>1, <4>2
    <3>. QED  BY <3>1 DEF Sorted
  <2>4. QueRemove(q, t) = r
    BY <1>1 DEF QueRemove, r, k
  <2>. QED  BY <2>3, <2>4 DEF Sorted
<1>2. CASE ~(\E i \in 1..Len(q) : q[i] = t)
  BY <1>2 DEF QueRemove
<1>. QED  BY <1>1, <1>2

\* Taking the head of a queue keeps the order of the others.
LEMMA TailSorted ==
  ASSUME NEW S, NEW q \in Seq(S), NEW key, q # <<>>, Sorted(q, key)
  PROVE  Sorted(Tail(q), key)
<1>1. Len(q) \in Nat /\ Len(Tail(q)) = Len(q) - 1 /\ \A i \in 1..Len(Tail(q)) : Tail(q)[i] = q[i + 1]
  BY HeadTailProperties, LenProperties
<1>2. ASSUME NEW i \in 1..Len(Tail(q)), NEW j \in 1..Len(Tail(q)), i < j
      PROVE  key[Tail(q)[i]] <= key[Tail(q)[j]]
  <2>1. i + 1 \in 1..Len(q) /\ j + 1 \in 1..Len(q) /\ i + 1 < j + 1
    BY <1>1, <1>2
  <2>. QED  BY <1>1, <2>1 DEF Sorted
<1>. QED  BY <1>2 DEF Sorted

\* The order depends on the order of the keys of the members only.
LEMMA SortedSameOrder ==
  ASSUME NEW S, NEW q \in Seq(S), NEW key, NEW key2, Sorted(q, key),
         \A x, y \in ToSet(q) : key[x] <= key[y] => key2[x] <= key2[y]
  PROVE  Sorted(q, key2)
<1>1. \A i \in 1..Len(q) : q[i] \in ToSet(q)
  BY MemberPosition
<1>. QED  BY <1>1 DEF Sorted

\* The head of an ordered queue has the smallest key.
LEMMA SortedHead ==
  ASSUME NEW S, NEW q \in Seq(S), NEW key \in [S -> Int], q # <<>>, Sorted(q, key)
  PROVE  \A x \in ToSet(q) : key[Head(q)] <= key[x]
<1>. SUFFICES ASSUME NEW x \in ToSet(q) PROVE key[Head(q)] <= key[x]
  OBVIOUS
<1>1. PICK i \in 1..Len(q) : q[i] = x
  BY MemberPosition
<1>2. Head(q) = q[1] /\ Len(q) \in Nat /\ Len(q) >= 1 /\ x \in S
  BY MemberPosition, LenProperties
<1>3. CASE i = 1
  BY <1>1, <1>2, <1>3
<1>4. CASE i # 1
  <2>1. 1 \in 1..Len(q) /\ 1 < i
    BY <1>2, <1>4
  <2>. QED  BY <1>1, <1>2, <2>1 DEF Sorted
<1>. QED  BY <1>3, <1>4

\* A queue without t stays as it is when t is removed; and in a queue without
\* repetitions the removal of the head leaves the tail.
LEMMA QueRemoveHead ==
  ASSUME NEW S, NEW q \in Seq(S), NEW t, IsInjective(q)
  PROVE  /\ t \notin ToSet(q) => QueRemove(q, t) = q
         /\ q # <<>> => QueRemove(q, Head(q)) = Tail(q)
<1>1. t \notin ToSet(q) => QueRemove(q, t) = q
  BY MemberPosition DEF QueRemove
<1>2. ASSUME q # <<>> PROVE QueRemove(q, Head(q)) = Tail(q)
  <2>1. Head(q) = q[1] /\ Len(q) \in Nat /\ Len(q) >= 1 /\ 1 \in 1..Len(q)
    BY <1>2, MemberPosition, LenProperties
  <2>2. \A i \in 1..Len(q) : q[i] = q[1] => i = 1
    BY <2>1, InjectivePositions
  <2>3. PositionOf(q, Head(q)) = 1
    BY <2>1, <2>2 DEF PositionOf
  <2>4. QueRemove(q, Head(q)) = RemoveAt(q, 1)
    BY <2>1, <2>3 DEF QueRemove
  <2>5. /\ RemoveAt(q, 1) \in Seq(S) /\ Len(RemoveAt(q, 1)) = Len(q) - 1
        /\ \A i \in 1..Len(q)-1 : RemoveAt(q, 1)[i] = q[i + 1]
    <3>1. \A i \in 1..Len(q)-1 : ~(i < 1)
      BY <2>1
    <3>. QED  BY <2>1, <3>1, RemoveAtProperties
  <2>6. Tail(q) \in Seq(S) /\ Len(Tail(q)) = Len(q) - 1 /\ \A i \in 1..Len(Tail(q)) : Tail(q)[i] = q[i + 1]
    BY <1>2, HeadTailProperties
  <2>7. RemoveAt(q, 1) = Tail(q)
    BY <2>5, <2>6, SeqEqual
  <2>. QED  BY <2>4, <2>7
<1>. QED  BY <1>1, <1>2

-----------------------------------------------------------------------------
(* Functions that are defined by recursion over 0..N.                      *)

Recursion(N, V, base, step) == N \in Nat /\ base \in V /\ step \in [(1..N) \X V -> V]

Solves(g, N, V, base, step) ==
    g \in [0..N -> V] /\ g[0] = base /\ \A n \in 1..N : g[n] = step[<<n, g[n - 1]>>]

\* There is a function that starts with base and goes on with step.
LEMMA RecursionExists ==
  ASSUME NEW N, NEW V, NEW base, NEW step, Recursion(N, V, base, step)
  PROVE  \E g : Solves(g, N, V, base, step)
<1>0. N \in Nat /\ base \in V /\ step \in [(1..N) \X V -> V]
  BY DEF Recursion
<1>. USE <1>0
<1>. DEFINE Good(k, g) == g[0] = base /\ \A n \in 1..k : g[n] = step[<<n, g[n - 1]>>]
            P == {k \in Nat : k <= N => \E g \in [0..k -> V] : Good(k, g)}
<1>1. 0 \in P
  <2>. DEFINE g == [n \in 0..0 |-> base]
  <2>1. g \in [0..0 -> V] /\ Good(0, g)
    OBVIOUS
  <2>. QED  BY <2>1
<1>2. ASSUME NEW k \in Nat, k \in P  PROVE k + 1 \in P
  <2>. SUFFICES ASSUME k + 1 <= N  PROVE \E g \in [0..k + 1 -> V] : Good(k + 1, g)
    OBVIOUS
  <2>1. PICK f \in [0..k -> V] : Good(k, f)
    BY <1>2
  <2>2. step[<<k + 1, f[k]>>] \in V
    <3>1. f[k] \in V /\ k + 1 \in 1..N
      OBVIOUS
    <3>. QED  BY <3>1
  <2>. DEFINE g == [n \in 0..k + 1 |-> IF n = k + 1 THEN step[<<k + 1, f[k]>>] ELSE f[n]]
  <2>3. g \in [0..k + 1 -> V]
    <3>1. ASSUME NEW n \in 0..k + 1  PROVE g[n] \in V
      <4>1. n # k + 1 => n \in 0..k
        OBVIOUS
      <4>. QED  BY <2>2, <4>1
    <3>. QED  BY <3>1
  <2>4. g[0] = base
    <3>1. 0 \in 0..k + 1 /\ 0 # k + 1
      OBVIOUS
    <3>. QED  BY <2>1, <3>1
  <2>5. ASSUME NEW n \in 1..k + 1  PROVE g[n] = step[<<n, g[n - 1]>>]
    <3>1. n - 1 \in 0..k + 1 /\ n - 1 # k + 1 /\ n \in 0..k + 1
      OBVIOUS
    <3>2. g[n - 1] = f[n - 1]
      BY <3>1
    <3>3. CASE n = k + 1
      <4>1. n - 1 = k /\ g[n] = step[<<k + 1, f[k]>>]
        BY <3>1, <3>3
      <4>. QED  BY <3>2, <3>3, <4>1
    <3>4. CASE n # k + 1
      <4>1. n \in 1..k /\ g[n] = f[n]
        BY <3>1, <3>4
      <4>. QED  BY <2>1, <3>2, <4>1
    <3>. QED  BY <3>3, <3>4
  <2>. HIDE DEF g
  <2>. QED  BY <2>3, <2>4, <2>5
<1>. HIDE DEF P
<1>3. Nat \subseteq P
  BY <1>1, <1>2, SetInduction
<1>4. N \in P
  BY <1>3
<1>. QED  BY <1>4 DEF P, Solves

-----------------------------------------------------------------------------
(* A queue from which a set of members is removed.                         *)

\* The steps of the removal.
Remaining(q, S, g) ==
    /\ g[0] = <<>>
    /\ \A n \in 1..Len(q) : g[n] = IF q[n] \in S THEN g[n - 1] ELSE Append(g[n - 1], q[n])

\* Without is the last of the steps.
LEMMA WithoutSteps ==
  ASSUME NEW T, NEW q \in Seq(T), NEW S
  PROVE  \E g \in [0..Len(q) -> Seq(T)] : Remaining(q, S, g) /\ Without(q, S) = g[Len(q)]
<1>. DEFINE N == Len(q)
            step == [p \in (1..N) \X Seq(T) |-> IF q[p[1]] \in S THEN p[2] ELSE Append(p[2], q[p[1]])]
            left == CHOOSE left : left = [n \in 0..N |-> IF n = 0 THEN <<>>
                                                ELSE IF q[n] \in S THEN left[n - 1]
                                                ELSE Append(left[n - 1], q[n])]
<1>1. N \in Nat /\ \A n \in 1..N : q[n] \in T
  BY LenProperties, ElementOfSeq
<1>2. step \in [(1..N) \X Seq(T) -> Seq(T)]
  <2>1. ASSUME NEW p \in (1..N) \X Seq(T)  PROVE step[p] \in Seq(T)
    <3>1. p[2] \in Seq(T) /\ q[p[1]] \in T
      BY <1>1
    <3>2. Append(p[2], q[p[1]]) \in Seq(T)
      BY <3>1, AppendProperties
    <3>. QED  BY <3>1, <3>2
  <2>. QED  BY <2>1
<1>3. <<>> \in Seq(T)
  OBVIOUS
<1>. HIDE DEF N, step
<1>4. PICK g : Solves(g, N, Seq(T), <<>>, step)
  <2>1. Recursion(N, Seq(T), <<>>, step)
    BY <1>1, <1>2, <1>3 DEF Recursion
  <2>. QED  BY <2>1, RecursionExists
<1>5. ASSUME NEW n \in 1..N
      PROVE  g[n] = IF q[n] \in S THEN g[n - 1] ELSE Append(g[n - 1], q[n])
  <2>1. n - 1 \in 0..N
    BY <1>1
  <2>2. g[n - 1] \in Seq(T)
    BY <1>4, <2>1 DEF Solves
  <2>. DEFINE p == <<n, g[n - 1]>>
  <2>3. p \in (1..N) \X Seq(T) /\ p[1] = n /\ p[2] = g[n - 1]
    BY <2>2
  <2>. HIDE DEF p
  <2>4. step[p] = IF q[p[1]] \in S THEN p[2] ELSE Append(p[2], q[p[1]])
    BY <2>3 DEF step
  <2>5. g[n] = step[p]
    BY <1>4 DEF p, Solves
  <2>. QED  BY <2>3, <2>4, <2>5
<1>6. g = [n \in 0..N |-> IF n = 0 THEN <<>> ELSE IF q[n] \in S THEN g[n - 1]
                                            ELSE Append(g[n - 1], q[n])]
  <2>. DEFINE h == [n \in 0..N |-> IF n = 0 THEN <<>> ELSE IF q[n] \in S THEN g[n - 1]
                                               ELSE Append(g[n - 1], q[n])]
  <2>0. g \in [0..N -> Seq(T)]
    BY <1>4 DEF Solves
  <2>1. ASSUME NEW n \in 0..N  PROVE g[n] = h[n]
    <3>1. n = 0 \/ n \in 1..N
      BY <1>1
    <3>. QED  BY <3>1, <1>4, <1>5 DEF Solves
  <2>. QED  BY <2>0, <2>1
<1>7. left = [n \in 0..N |-> IF n = 0 THEN <<>> ELSE IF q[n] \in S THEN left[n - 1]
                                               ELSE Append(left[n - 1], q[n])]
  BY <1>6, Zenon
<1>8. Without(q, S) = left[N]
  BY Zenon DEF Without, N
<1>. HIDE DEF left
<1>9. left[0] = <<>> /\ \A n \in 1..N : left[n] = IF q[n] \in S THEN left[n - 1]
                                                ELSE Append(left[n - 1], q[n])
  <2>1. 0 \in 0..N /\ \A n \in 1..N : n \in 0..N /\ n # 0
    BY <1>1
  <2>. QED  BY <1>7, <2>1
<1>10. \A n \in 0..N : left[n] \in Seq(T)
  <2>. DEFINE P == {n \in Nat : n <= N => left[n] \in Seq(T)}
  <2>1. 0 \in P
    BY <1>3, <1>9
  <2>2. ASSUME NEW n \in Nat, n \in P  PROVE n + 1 \in P
    <3>. SUFFICES ASSUME n + 1 <= N  PROVE left[n + 1] \in Seq(T)
      OBVIOUS
    <3>1. n + 1 \in 1..N /\ (n + 1) - 1 = n /\ left[n] \in Seq(T)
      BY <1>1, <2>2
    <3>2. left[n + 1] = IF q[n + 1] \in S THEN left[n] ELSE Append(left[n], q[n + 1])
      BY <1>9, <3>1
    <3>3. q[n + 1] \in T
      BY <1>1, <3>1
    <3>. QED  BY <3>1, <3>2, <3>3, AppendProperties
  <2>. HIDE DEF P
  <2>3. Nat \subseteq P
    BY <2>1, <2>2, SetInduction
  <2>. QED  BY <2>3, <1>1 DEF P
<1>11. left \in [0..N -> Seq(T)]
  BY <1>7, <1>10
<1>. QED  BY <1>8, <1>9, <1>11 DEF N, Remaining

\* r holds what is not in S of the first n members of q, at the positions m.
Embeds(r, q, S, n, m) ==
    /\ m \in [1..Len(r) -> 1..n] /\ Len(r) <= n
    /\ \A i \in 1..Len(r) : r[i] = q[m[i]] /\ q[m[i]] \notin S
    /\ \A i, j \in 1..Len(r) : i < j => m[i] < m[j]
    /\ \A k \in 1..n : q[k] \notin S => \E i \in 1..Len(r) : m[i] = k

\* What is left stands in the queue it came from.
LEMMA WithoutEmbeds ==
  ASSUME NEW T, NEW q \in Seq(T), NEW S
  PROVE  Without(q, S) \in Seq(T) /\ \E m : Embeds(Without(q, S), q, S, Len(q), m)
<1>1. PICK g \in [0..Len(q) -> Seq(T)] : Remaining(q, S, g) /\ Without(q, S) = g[Len(q)]
  BY WithoutSteps
<1>2. Len(q) \in Nat /\ \A n \in 1..Len(q) : q[n] \in T
  BY LenProperties, ElementOfSeq
<1>. DEFINE P == {n \in Nat : n <= Len(q) => \E m : Embeds(g[n], q, S, n, m)}
<1>3. 0 \in P
  <2>1. g[0] = <<>> /\ Len(g[0]) = 0
    BY <1>1 DEF Remaining
  <2>2. Embeds(g[0], q, S, 0, [i \in 1..0 |-> 0])
    BY <2>1 DEF Embeds
  <2>. QED  BY <2>2
<1>4. ASSUME NEW n \in Nat, n \in P  PROVE n + 1 \in P
  <2>. SUFFICES ASSUME n + 1 <= Len(q)  PROVE \E m : Embeds(g[n + 1], q, S, n + 1, m)
    OBVIOUS
  <2>1. n <= Len(q) /\ n \in 0..Len(q) /\ n + 1 \in 1..Len(q) /\ (n + 1) - 1 = n
    BY <1>2
  <2>2. PICK m : Embeds(g[n], q, S, n, m)
    BY <1>4, <2>1
  <2>3. g[n + 1] = IF q[n + 1] \in S THEN g[n] ELSE Append(g[n], q[n + 1])
    BY <1>1, <2>1 DEF Remaining
  <2>. DEFINE r == g[n]
  <2>4. r \in Seq(T) /\ q[n + 1] \in T /\ Len(r) \in Nat
    BY <1>1, <1>2, <2>1, LenProperties
  <2>. HIDE DEF r
  <2>5. Embeds(r, q, S, n, m)
    BY <2>2 DEF r
  <2>6. CASE q[n + 1] \in S
    <3>1. Embeds(r, q, S, n + 1, m)
      <4>1. m \in [1..Len(r) -> 1..n + 1] /\ Len(r) <= n + 1
        BY <2>4, <2>5 DEF Embeds
      <4>2. \A k \in 1..n + 1 : q[k] \notin S => \E i \in 1..Len(r) : m[i] = k
        <5>1. \A k \in 1..n + 1 : k \in 1..n \/ k = n + 1
          OBVIOUS
        <5>. QED  BY <2>5, <2>6, <5>1 DEF Embeds
      <4>. QED  BY <2>5, <4>1, <4>2 DEF Embeds
    <3>. QED  BY <2>3, <2>6, <3>1 DEF r
  <2>7. CASE q[n + 1] \notin S
    <3>. DEFINE s == Append(r, q[n + 1])
                L == Len(r)
                w == [i \in 1..L + 1 |-> IF i = L + 1 THEN n + 1 ELSE m[i]]
    <3>1. /\ Len(s) = L + 1 /\ s[L + 1] = q[n + 1]
          /\ \A i \in 1..L : s[i] = r[i]
      BY <2>4, AppendProperties
    <3>2. /\ L \in Nat /\ L <= n /\ m \in [1..L -> 1..n]
          /\ \A i \in 1..L : r[i] = q[m[i]] /\ q[m[i]] \notin S
          /\ \A i, j \in 1..L : i < j => m[i] < m[j]
          /\ \A k \in 1..n : q[k] \notin S => \E i \in 1..L : m[i] = k
      BY <2>4, <2>5 DEF Embeds
    <3>. HIDE DEF L, s
    <3>3. \A i \in 1..L + 1 : i = L + 1 \/ i \in 1..L
      BY <3>2
    <3>4. w \in [1..L + 1 -> 1..n + 1]
      <4>1. ASSUME NEW i \in 1..L + 1  PROVE w[i] \in 1..n + 1
        <5>1. i \in 1..L => m[i] \in 1..n
          BY <3>2
        <5>. QED  BY <3>3, <5>1
      <4>. QED  BY <4>1
    <3>5. \A i \in 1..L : i \in 1..L + 1 /\ i # L + 1 /\ w[i] = m[i] /\ m[i] \in 1..n
      BY <3>2
    <3>6. w[L + 1] = n + 1 /\ L + 1 \in 1..L + 1
      BY <3>2
    <3>. HIDE DEF w
    <3>7. \A i \in 1..L + 1 : s[i] = q[w[i]] /\ q[w[i]] \notin S
      BY <2>7, <3>1, <3>2, <3>3, <3>5, <3>6
    <3>8. ASSUME NEW i \in 1..L + 1, NEW j \in 1..L + 1, i < j  PROVE w[i] < w[j]
      <4>1. i \in 1..L
        BY <3>2, <3>8
      <4>2. CASE j = L + 1
        BY <4>1, <4>2, <3>5, <3>6
      <4>3. CASE j \in 1..L
        BY <4>1, <4>3, <3>2, <3>5, <3>8
      <4>. QED  BY <4>2, <4>3, <3>3
    <3>9. ASSUME NEW k \in 1..n + 1, q[k] \notin S  PROVE \E i \in 1..L + 1 : w[i] = k
      <4>1. CASE k = n + 1
        BY <4>1, <3>6
      <4>2. CASE k \in 1..n
        BY <4>2, <3>2, <3>5, <3>9
      <4>. QED  BY <4>1, <4>2
    <3>10. Embeds(s, q, S, n + 1, w)
      <4>1. L + 1 <= n + 1
        BY <3>2
      <4>. QED  BY <3>1, <3>4, <3>7, <3>8, <3>9, <4>1 DEF Embeds
    <3>. QED  BY <2>3, <2>7, <3>10 DEF r, s
  <2>. QED  BY <2>6, <2>7
<1>. HIDE DEF P
<1>5. Nat \subseteq P
  BY <1>3, <1>4, SetInduction
<1>6. \E m : Embeds(g[Len(q)], q, S, Len(q), m)
  BY <1>2, <1>5 DEF P
<1>7. g[Len(q)] \in Seq(T)
  BY <1>2
<1>. QED  BY <1>1, <1>6, <1>7

\* The members that are left, each of them once, in their order.
LEMMA WithoutProperties ==
  ASSUME NEW T, NEW q \in Seq(T), NEW S
  PROVE  /\ Without(q, S) \in Seq(T)
         /\ Len(Without(q, S)) <= Len(q)
         /\ ToSet(Without(q, S)) = ToSet(q) \ S
         /\ IsInjective(q) => IsInjective(Without(q, S))
         /\ \A key : Sorted(q, key) => Sorted(Without(q, S), key)
<1>. DEFINE r == Without(q, S)
<1>1. r \in Seq(T)
  BY WithoutEmbeds
<1>2. PICK m : Embeds(r, q, S, Len(q), m)
  BY WithoutEmbeds
<1>. HIDE DEF r
<1>3. Len(q) \in Nat /\ Len(r) \in Nat
  BY <1>1, LenProperties
<1>4. /\ \A i \in 1..Len(r) : m[i] \in 1..Len(q) /\ r[i] = q[m[i]] /\ q[m[i]] \notin S
      /\ \A i, j \in 1..Len(r) : i < j => m[i] < m[j]
      /\ \A k \in 1..Len(q) : q[k] \notin S => \E i \in 1..Len(r) : m[i] = k
      /\ Len(r) <= Len(q)
  BY <1>2 DEF Embeds
<1>5. ToSet(r) = ToSet(q) \ S
  <2>1. \A x : x \in ToSet(r) <=> \E i \in 1..Len(r) : r[i] = x
    BY <1>1, MemberPosition
  <2>2. \A x : x \in ToSet(q) <=> \E i \in 1..Len(q) : q[i] = x
    BY MemberPosition
  <2>3. ASSUME NEW x \in ToSet(r)  PROVE x \in ToSet(q) \ S
    <3>1. PICK i \in 1..Len(r) : r[i] = x
      BY <2>1
    <3>. QED  BY <1>4, <2>2, <3>1
  <2>4. ASSUME NEW x \in ToSet(q), x \notin S  PROVE x \in ToSet(r)
    <3>1. PICK k \in 1..Len(q) : q[k] = x
      BY <2>2
    <3>2. PICK i \in 1..Len(r) : m[i] = k
      BY <1>4, <2>4, <3>1
    <3>. QED  BY <1>4, <2>1, <3>1, <3>2
  <2>. QED  BY <2>3, <2>4
<1>6. IsInjective(q) => IsInjective(r)
  <2>. SUFFICES ASSUME IsInjective(q), NEW i \in 1..Len(r), NEW j \in 1..Len(r), r[i] = r[j]
                PROVE  i = j
    BY <1>1, InjectivePositions
  <2>1. m[i] = m[j]
    BY <1>4, InjectivePositions
  <2>2. m[i] \in 1..Len(q) /\ m[j] \in 1..Len(q)
    BY <1>4
  <2>3. ~(i < j) /\ ~(j < i)
    BY <1>3, <1>4, <2>1, <2>2
  <2>. QED  BY <1>3, <2>3
<1>7. ASSUME NEW key, Sorted(q, key)  PROVE Sorted(r, key)
  BY <1>4, <1>7 DEF Sorted
<1>. QED  BY <1>1, <1>4, <1>5, <1>6, <1>7 DEF r

-----------------------------------------------------------------------------
(* Sums over a set, taken in any order.                                    *)

\* Some member of s.
PickOf(s) == CHOOSE x \in s : TRUE

\* What the sum over s is, given that over the other sets.
SumStep(w, h, s) == IF s = {} THEN 0 ELSE w[PickOf(s)] + h[s \ {PickOf(s)}]

\* h gives the sums over all subsets of D.
Sums(w, D, h) == h \in [SUBSET D -> Int] /\ \A s \in SUBSET D : h[s] = SumStep(w, h, s)

\* The member that is picked, and the size of the rest.
LEMMA PickSmaller ==
  ASSUME NEW s, IsFiniteSet(s), s # {}, NEW x \in s
  PROVE  /\ PickOf(s) \in s
         /\ IsFiniteSet(s \ {x}) /\ Cardinality(s \ {x}) = Cardinality(s) - 1
         /\ Cardinality(s) \in Nat /\ Cardinality(s) > 0
<1>1. PickOf(s) \in s
  BY Zenon DEF PickOf
<1>2. Cardinality(s) \in Nat /\ Cardinality(s) # 0
  BY FS_CardinalityType, FS_EmptySet
<1>3. IsFiniteSet(s \ {x}) /\ Cardinality(s \ {x}) = Cardinality(s) - 1
  BY FS_RemoveElement
<1>. QED  BY <1>1, <1>2, <1>3

\* There is such a function.
LEMMA SumsExist ==
  ASSUME NEW D, IsFiniteSet(D), NEW w, \A t \in D : w[t] \in Int
  PROVE  \E h : Sums(w, D, h)
<1>. DEFINE Upto(n, h) == \A s \in SUBSET D : Cardinality(s) <= n => h[s] = SumStep(w, h, s)
            P == {n \in Nat : \E h \in [SUBSET D -> Int] : Upto(n, h)}
<1>0. \A s \in SUBSET D : IsFiniteSet(s) /\ Cardinality(s) \in Nat /\ Cardinality(s) <= Cardinality(D)
  BY FS_Subset, FS_CardinalityType
<1>1. 0 \in P
  <2>. DEFINE h == [s \in SUBSET D |-> 0]
  <2>1. \A s \in SUBSET D : Cardinality(s) <= 0 => s = {}
    BY <1>0, FS_EmptySet
  <2>2. Upto(0, h)
    BY <2>1 DEF SumStep
  <2>3. h \in [SUBSET D -> Int]
    OBVIOUS
  <2>. HIDE DEF h, Upto
  <2>. QED  BY <2>2, <2>3
<1>2. ASSUME NEW n \in Nat, n \in P  PROVE n + 1 \in P
  <2>1. PICK h \in [SUBSET D -> Int] : Upto(n, h)
    BY <1>2
  <2>. DEFINE g == [s \in SUBSET D |-> SumStep(w, h, s)]
  <2>2. g \in [SUBSET D -> Int]
    <3>1. ASSUME NEW s \in SUBSET D  PROVE SumStep(w, h, s) \in Int
      <4>1. s # {} => PickOf(s) \in s
        BY <1>0, PickSmaller
      <4>2. s # {} => w[PickOf(s)] \in Int /\ h[s \ {PickOf(s)}] \in Int
        BY <4>1
      <4>. QED  BY <4>2 DEF SumStep
    <3>. QED  BY <3>1
  <2>3. ASSUME NEW s \in SUBSET D, Cardinality(s) <= n + 1
        PROVE  g[s] = SumStep(w, g, s)
    <3>1. CASE s = {}
      BY <3>1 DEF SumStep
    <3>2. CASE s # {}
      <4>. DEFINE r == s \ {PickOf(s)}
      <4>1. PickOf(s) \in s
        BY <1>0, <3>2, PickSmaller
      <4>2. r \in SUBSET D /\ Cardinality(r) <= n
        BY <1>0, <2>3, <3>2, <4>1, PickSmaller
      <4>3. h[r] = g[r]
        BY <2>1, <4>2
      <4>4. g[s] = SumStep(w, h, s)
        OBVIOUS
      <4>. QED  BY <3>2, <4>3, <4>4 DEF SumStep
    <3>. QED  BY <3>1, <3>2
  <2>. HIDE DEF g
  <2>4. Upto(n + 1, g)
    BY <2>3
  <2>. QED  BY <2>2, <2>4
<1>. HIDE DEF P
<1>3. Nat \subseteq P
  BY <1>1, <1>2, SetInduction
<1>4. Cardinality(D) \in P
  BY <1>3, FS_CardinalityType
<1>5. PICK h \in [SUBSET D -> Int] : Upto(Cardinality(D), h)
  BY <1>4 DEF P
<1>. QED  BY <1>0, <1>5 DEF Sums

\* The sums over the subsets do not depend on the larger set.
LEMMA SumsAgree ==
  ASSUME NEW D, IsFiniteSet(D), NEW w, NEW h, Sums(w, D, h), NEW E \in SUBSET D, NEW g, Sums(w, E, g)
  PROVE  \A s \in SUBSET E : h[s] = g[s]
<1>. DEFINE P == {n \in Nat : \A s \in SUBSET E : Cardinality(s) <= n => h[s] = g[s]}
<1>0. \A s \in SUBSET E : IsFiniteSet(s) /\ Cardinality(s) \in Nat /\ Cardinality(s) <= Cardinality(D)
  BY FS_Subset, FS_CardinalityType
<1>h. /\ \A s \in SUBSET E : h[s] = SumStep(w, h, s)
      /\ \A s \in SUBSET E : g[s] = SumStep(w, g, s)
  BY DEF Sums
<1>1. 0 \in P
  <2>1. \A s \in SUBSET E : Cardinality(s) <= 0 => s = {}
    BY <1>0, FS_EmptySet
  <2>2. h[{}] = 0 /\ g[{}] = 0
    BY <1>h DEF SumStep
  <2>. QED  BY <2>1, <2>2
<1>2. ASSUME NEW n \in Nat, n \in P  PROVE n + 1 \in P
  <2>. SUFFICES ASSUME NEW s \in SUBSET E, Cardinality(s) <= n + 1
                PROVE  h[s] = g[s]
    OBVIOUS
  <2>1. CASE s = {}
    BY <1>h, <2>1 DEF SumStep
  <2>2. CASE s # {}
    <3>1. PICK y \in s : y = PickOf(s)
      BY <1>0, <2>2, PickSmaller
    <3>2. s \ {y} \in SUBSET E /\ Cardinality(s \ {y}) <= n
      BY <1>0, <2>2, PickSmaller
    <3>3. h[s \ {y}] = g[s \ {y}]
      BY <1>2, <3>2
    <3>. QED  BY <1>h, <2>2, <3>1, <3>3 DEF SumStep
  <2>. QED  BY <2>1, <2>2
<1>. HIDE DEF P
<1>3. Nat \subseteq P
  BY <1>1, <1>2, SetInduction
<1>4. Cardinality(D) \in P
  BY <1>3, FS_CardinalityType
<1>. QED  BY <1>0, <1>4 DEF P

\* Any member may be taken out first.
LEMMA SumsExchange ==
  ASSUME NEW D, IsFiniteSet(D), NEW w, \A t \in D : w[t] \in Int, NEW h, Sums(w, D, h)
  PROVE  \A s \in SUBSET D, x \in D : x \in s => h[s] = w[x] + h[s \ {x}]
<1>. DEFINE Good(s) == \A x \in s : h[s] = w[x] + h[s \ {x}]
            P == {n \in Nat : \A s \in SUBSET D : Cardinality(s) <= n => Good(s)}
<1>0. \A s \in SUBSET D : IsFiniteSet(s) /\ Cardinality(s) \in Nat /\ Cardinality(s) <= Cardinality(D)
  BY FS_Subset, FS_CardinalityType
<1>h. h \in [SUBSET D -> Int] /\ \A s \in SUBSET D : h[s] = SumStep(w, h, s)
  BY DEF Sums
<1>1. 0 \in P
  BY <1>0, FS_EmptySet
<1>2. ASSUME NEW n \in Nat, n \in P  PROVE n + 1 \in P
  <2>. SUFFICES ASSUME NEW s \in SUBSET D, Cardinality(s) <= n + 1, NEW x \in s
                PROVE  h[s] = w[x] + h[s \ {x}]
    OBVIOUS
  <2>1. PICK y \in s : y = PickOf(s)
    BY <1>0, PickSmaller
  <2>2. h[s] = w[y] + h[s \ {y}]
    BY <1>h, <2>1 DEF SumStep
  <2>3. CASE x = y
    BY <2>2, <2>3
  <2>4. CASE x # y
    <3>. DEFINE r == s \ {y}
                u == s \ {x}
    <3>1. r \in SUBSET D /\ x \in r /\ Cardinality(r) <= n /\ u \in SUBSET D /\ y \in u /\ Cardinality(u) <= n
      BY <1>0, <2>4, PickSmaller
    <3>2. h[r] = w[x] + h[r \ {x}] /\ h[u] = w[y] + h[u \ {y}]
      BY <1>2, <3>1
    <3>3. r \ {x} = u \ {y} /\ r \ {x} \in SUBSET D
      OBVIOUS
    <3>4. h[r \ {x}] \in Int /\ w[x] \in Int /\ w[y] \in Int
      BY <1>h, <3>3
    <3>. HIDE DEF r, u
    <3>5. h[s] = w[y] + h[r] /\ h[r] = w[x] + h[r \ {x}] /\ h[u] = w[y] + h[r \ {x}]
      BY <2>2, <3>2, <3>3 DEF r
    <3>6. h[s] = w[x] + h[u]
      BY <3>4, <3>5
    <3>. QED  BY <3>6 DEF u
  <2>. QED  BY <2>3, <2>4
<1>. HIDE DEF P
<1>3. Nat \subseteq P
  BY <1>1, <1>2, SetInduction
<1>4. Cardinality(D) \in P
  BY <1>3, FS_CardinalityType
<1>. QED  BY <1>0, <1>4 DEF P

-----------------------------------------------------------------------------
(* Members served in front, and the order of the others.                   *)

\* Of q the members in S are served: those in front.
FirstServed(q, S) ==
    /\ S \subseteq ToSet(q)
    /\ \A i, j \in 1..Len(q) : q[i] \in S /\ q[j] \notin S => i < j

\* A loop that ends at the first member it does not serve.
LEMMA ServesInTurn ==
  ASSUME NEW T, NEW q \in Seq(T), IsInjective(q), NEW f, f[0].freed = {}, ~f[0].stop,
         \A n \in 1..Len(q) : \/ f[n].freed = f[n - 1].freed /\ f[n].stop
                              \/ ~f[n - 1].stop /\ f[n].freed = f[n - 1].freed \cup {q[n]}
  PROVE  FirstServed(q, f[Len(q)].freed)
<1>. DEFINE N == Len(q)
            Good(n) == /\ \A x \in f[n].freed : \E i \in 1..n : q[i] = x
                       /\ ~f[n].stop => \A i \in 1..n : q[i] \in f[n].freed
                       /\ \A i, j \in 1..N : q[i] \in f[n].freed /\ q[j] \notin f[n].freed => i < j
            P == {n \in Nat : n <= N => Good(n)}
<1>1. N \in Nat /\ \A i, j \in 1..N : q[i] = q[j] => i = j
  BY LenProperties, InjectivePositions
<1>2. 0 \in P
  OBVIOUS
<1>3. ASSUME NEW n \in Nat, n \in P  PROVE n + 1 \in P
  <2>. SUFFICES ASSUME n + 1 <= N  PROVE Good(n + 1)
    OBVIOUS
  <2>1. Good(n) /\ n + 1 \in 1..N /\ (n + 1) - 1 = n
    BY <1>1, <1>3
  <2>2. \/ f[n + 1].freed = f[n].freed /\ f[n + 1].stop
        \/ ~f[n].stop /\ f[n + 1].freed = f[n].freed \cup {q[n + 1]}
    BY <2>1
  <2>3. \A i \in 1..n : i \in 1..n + 1
    OBVIOUS
  <2>4. CASE f[n + 1].freed = f[n].freed /\ f[n + 1].stop
    BY <2>1, <2>3, <2>4
  <2>5. CASE ~f[n].stop /\ f[n + 1].freed = f[n].freed \cup {q[n + 1]}
    <3>. DEFINE S == f[n + 1].freed
    <3>1. \A x \in S : \E i \in 1..n + 1 : q[i] = x
      BY <2>1, <2>3, <2>5
    <3>2. \A i \in 1..n + 1 : q[i] \in S
      <4>1. \A i \in 1..n + 1 : i \in 1..n \/ i = n + 1
        OBVIOUS
      <4>. QED  BY <2>1, <2>5, <4>1
    <3>. HIDE DEF S
    <3>3. ASSUME NEW i \in 1..N, NEW j \in 1..N, q[i] \in S, q[j] \notin S  PROVE i < j
      <4>1. PICK l \in 1..n + 1 : q[l] = q[i]
        BY <3>1, <3>3
      <4>2. l \in 1..N
        BY <1>1, <2>1
      <4>3. i = l /\ ~(j \in 1..n + 1)
        BY <1>1, <3>2, <3>3, <4>1, <4>2
      <4>. QED  BY <1>1, <4>3
    <3>. QED  BY <3>1, <3>2, <3>3 DEF S
  <2>. QED  BY <2>2, <2>4, <2>5
<1>. HIDE DEF P
<1>4. Nat \subseteq P
  BY <1>2, <1>3, SetInduction
<1>5. Good(N)
  BY <1>1, <1>4 DEF P
<1>6. f[N].freed \subseteq ToSet(q)
  BY <1>5, MemberPosition
<1>. QED  BY <1>5, <1>6 DEF FirstServed

\* The place of a member.
LEMMA PlaceOf ==
  ASSUME NEW S, NEW p \in Seq(S), IsInjective(p), NEW i \in 1..Len(p)
  PROVE  PositionOf(p, p[i]) = i
<1>1. \A j \in 1..Len(p) : p[j] = p[i] => j = i
  BY InjectivePositions
<1>. QED  BY <1>1 DEF PositionOf

\* q keeps the order of the queue p.
InOrderOf(q, p) ==
    /\ ToSet(q) \subseteq ToSet(p)
    /\ \A i, j \in 1..Len(q) : i < j => PositionOf(p, q[i]) < PositionOf(p, q[j])

\* A queue keeps its own order, and so does what is left when a member leaves.
LEMMA RemoveInOrder ==
  ASSUME NEW T, NEW p \in Seq(T), IsInjective(p), NEW t
  PROVE  InOrderOf(p, p) /\ InOrderOf(QueRemove(p, t), p)
<1>0. Len(p) \in Nat /\ \A i \in 1..Len(p) : PositionOf(p, p[i]) = i /\ p[i] \in ToSet(p)
  BY PlaceOf, LenProperties, MemberPosition
<1>1. InOrderOf(p, p)
  BY <1>0 DEF InOrderOf
<1>2. CASE t \notin ToSet(p)
  BY <1>1, <1>2, QueRemoveHead
<1>3. CASE t \in ToSet(p)
  <2>. DEFINE k == PositionOf(p, t)
              r == RemoveAt(p, k)
              m(i) == IF i < k THEN i ELSE i + 1
  <2>1. k \in 1..Len(p) /\ QueRemove(p, t) = r
    <3>1. \E i \in 1..Len(p) : p[i] = t
      BY <1>3, MemberPosition
    <3>. QED  BY <3>1, <1>0 DEF QueRemove
  <2>. HIDE DEF k
  <2>2. /\ r \in Seq(T) /\ Len(r) = Len(p) - 1
        /\ \A i \in 1..Len(p) - 1 : r[i] = IF i < k THEN p[i] ELSE p[i + 1]
    BY <2>1, RemoveAtProperties
  <2>. HIDE DEF r
  <2>3. \A i \in 1..Len(r) : m(i) \in 1..Len(p) /\ r[i] = p[m(i)]
    BY <1>0, <2>1, <2>2
  <2>4. \A i, j \in 1..Len(r) : i < j => m(i) < m(j)
    BY <1>0, <2>1, <2>2
  <2>5. \A i, j \in 1..Len(r) : i < j => PositionOf(p, r[i]) < PositionOf(p, r[j])
    <3>. HIDE DEF m
    <3>. QED  BY <1>0, <2>3, <2>4
  <2>6. ToSet(r) \subseteq ToSet(p)
    BY <2>1, QueRemoveProperties
  <2>. QED  BY <1>1, <2>1, <2>5, <2>6 DEF InOrderOf
<1>. QED  BY <1>2, <1>3

-----------------------------------------------------------------------------
(* A new member between those that stay in front and the others.           *)

\* The first member that a loop leaves is the first of the queue it leaves.
LEMMA WithoutHead ==
  ASSUME NEW T, NEW q \in Seq(T), NEW S, NEW j \in 1..Len(q), q[j] \notin S,
         \A i \in 1..Len(q) : i < j => q[i] \in S
  PROVE  Head(Without(q, S)) = q[j]
<1>. DEFINE r == Without(q, S)
<1>1. r \in Seq(T)
  BY WithoutEmbeds
<1>2. PICK m : Embeds(r, q, S, Len(q), m)
  BY WithoutEmbeds
<1>. HIDE DEF r
<1>3. Len(q) \in Nat /\ Len(r) \in Nat
  BY <1>1, LenProperties
<1>4. /\ \A i \in 1..Len(r) : m[i] \in 1..Len(q) /\ r[i] = q[m[i]] /\ q[m[i]] \notin S
      /\ \A i, k \in 1..Len(r) : i < k => m[i] < m[k]
  BY <1>2 DEF Embeds
<1>5. PICK i \in 1..Len(r) : m[i] = j
  BY <1>2 DEF Embeds
<1>6. 1 \in 1..Len(r) /\ ~(m[1] < j)
  BY <1>3, <1>4, <1>5
<1>7. ~(1 < i)
  BY <1>3, <1>4, <1>5, <1>6
<1>8. i = 1
  BY <1>3, <1>7
<1>9. r # <<>> /\ Head(r) = r[1]
  BY <1>1, <1>6
<1>. QED  BY <1>4, <1>5, <1>8, <1>9 DEF r

\* q with m behind its first n members.
PutBehind(q, n, m) ==
    [i \in 1..Len(q) + 1 |-> IF i <= n THEN q[i] ELSE IF i = n + 1 THEN m ELSE q[i - 1]]

\* The members of S are those behind the first n.
Splits(q, n, S) == /\ n \in 0..Len(q)
                   /\ \A i \in 1..Len(q) : q[i] \in S <=> i > n

\* What is left of a queue whose last members are removed.
LEMMA WithoutLast ==
  ASSUME NEW T, NEW q \in Seq(T), NEW n, NEW S, Splits(q, n, S)
  PROVE  Without(q, S) = SubSeq(q, 1, n)
<1>. DEFINE N == Len(q)
            End(j) == IF j <= n THEN j ELSE n
<1>1. N \in Nat /\ n \in 0..N
  BY DEF Splits
<1>2. PICK g : Remaining(q, S, g) /\ Without(q, S) = g[N]
  BY WithoutSteps
<1>. DEFINE P == {j \in Nat : j <= N => g[j] = SubSeq(q, 1, End(j))}
<1>3. 0 \in P
  <2>1. g[0] = <<>> /\ SubSeq(q, 1, 0) = <<>> /\ End(0) = 0
    BY <1>1, <1>2, SubSeqEmpty DEF Remaining
  <2>. QED  BY <2>1
<1>4. ASSUME NEW j \in Nat, j \in P  PROVE j + 1 \in P
  <2>. SUFFICES ASSUME j + 1 <= N  PROVE g[j + 1] = SubSeq(q, 1, End(j + 1))
    OBVIOUS
  <2>1. g[j + 1] = IF q[j + 1] \in S THEN g[j] ELSE Append(g[j], q[j + 1])
    BY <1>1, <1>2 DEF Remaining
  <2>2. g[j] = SubSeq(q, 1, End(j))
    BY <1>1, <1>4
  <2>3. CASE j + 1 <= n
    <3>1. q[j + 1] \notin S /\ End(j) = j /\ End(j + 1) = j + 1
      BY <1>1, <2>3 DEF Splits
    <3>2. SubSeq(q, 1, j + 1) = SubSeq(q, 1, j) \o <<q[j + 1]>>
      <4>1. 1 \in 1..Len(q) /\ j + 1 \in 1..Len(q) /\ j + 1 - 1 = j
        BY <1>1
      <4>. QED  BY <4>1, SubSeqRecursiveSecond
    <3>3. Append(SubSeq(q, 1, j), q[j + 1]) = SubSeq(q, 1, j) \o <<q[j + 1]>>
      <4>1. \A i \in 1..j : q[i] \in T
        BY <1>1, ElementOfSeq
      <4>2. SubSeq(q, 1, j) \in Seq(T)
        BY <4>1, SubSeqProperties
      <4>3. q[j + 1] \in T
        BY <1>1, ElementOfSeq
      <4>. QED  BY <4>2, <4>3, AppendIsConcat
    <3>. QED  BY <2>1, <2>2, <3>1, <3>2, <3>3
  <2>4. CASE ~(j + 1 <= n)
    <3>1. q[j + 1] \in S /\ End(j) = n /\ End(j + 1) = n
      BY <1>1, <2>4 DEF Splits
    <3>. QED  BY <2>1, <2>2, <3>1
  <2>. QED  BY <2>3, <2>4
<1>5. Nat \subseteq P
  <2>. HIDE DEF P
  <2>. QED  BY <1>3, <1>4, SetInduction
<1>6. N \in P /\ End(N) = n
  <2>1. End(N) = n
    BY <1>1
  <2>. HIDE DEF P
  <2>. QED  BY <1>1, <1>5, <2>1
<1>7. N <= N
  BY <1>1
<1>8. g[N] = SubSeq(q, 1, End(N))
  <2>. HIDE DEF End, N
  <2>. QED  BY <1>6, <1>7
<1>. QED  BY <1>2, <1>6, <1>8

\* What is left of a queue whose first members are removed.
LEMMA WithoutFirst ==
  ASSUME NEW T, NEW q \in Seq(T), NEW n \in 0..Len(q), NEW S,
         \A i \in 1..Len(q) : q[i] \in S <=> i <= n
  PROVE  Without(q, S) = SubSeq(q, n + 1, Len(q))
<1>. DEFINE N == Len(q)
<1>1. N \in Nat /\ n \in 0..N
  OBVIOUS
<1>2. PICK g : Remaining(q, S, g) /\ Without(q, S) = g[N]
  BY WithoutSteps
<1>. DEFINE P == {j \in Nat : j <= N => g[j] = SubSeq(q, n + 1, j)}
<1>3. 0 \in P
  <2>1. g[0] = <<>> /\ SubSeq(q, n + 1, 0) = <<>>
    BY <1>1, <1>2, SubSeqEmpty DEF Remaining
  <2>. QED  BY <2>1
<1>4. ASSUME NEW j \in Nat, j \in P  PROVE j + 1 \in P
  <2>. SUFFICES ASSUME j + 1 <= N  PROVE g[j + 1] = SubSeq(q, n + 1, j + 1)
    OBVIOUS
  <2>1. g[j + 1] = IF q[j + 1] \in S THEN g[j] ELSE Append(g[j], q[j + 1])
    BY <1>1, <1>2 DEF Remaining
  <2>2. g[j] = SubSeq(q, n + 1, j)
    BY <1>1, <1>4
  <2>3. CASE j + 1 <= n
    <3>1. q[j + 1] \in S
      BY <1>1, <2>3
    <3>2. SubSeq(q, n + 1, j) = <<>> /\ SubSeq(q, n + 1, j + 1) = <<>>
      BY <1>1, <2>3, SubSeqEmpty
    <3>. QED  BY <2>1, <2>2, <3>1, <3>2
  <2>4. CASE ~(j + 1 <= n)
    <3>1. q[j + 1] \notin S
      BY <1>1, <2>4
    <3>2. SubSeq(q, n + 1, j + 1) = SubSeq(q, n + 1, j) \o <<q[j + 1]>>
      <4>1. n + 1 \in 1..Len(q) /\ j + 1 \in n + 1..Len(q) /\ j + 1 - 1 = j
        BY <1>1, <2>4
      <4>. QED  BY <4>1, SubSeqRecursiveSecond
    <3>3. Append(SubSeq(q, n + 1, j), q[j + 1]) = SubSeq(q, n + 1, j) \o <<q[j + 1]>>
      <4>1. \A i \in n + 1..j : q[i] \in T
        BY <1>1, ElementOfSeq
      <4>2. SubSeq(q, n + 1, j) \in Seq(T)
        BY <1>1, <4>1, SubSeqProperties
      <4>3. q[j + 1] \in T
        BY <1>1, ElementOfSeq
      <4>. QED  BY <4>2, <4>3, AppendIsConcat
    <3>. QED  BY <2>1, <2>2, <3>1, <3>2, <3>3
  <2>. QED  BY <2>3, <2>4
<1>5. Nat \subseteq P
  <2>. HIDE DEF P
  <2>. QED  BY <1>3, <1>4, SetInduction
<1>6. N \in P /\ N <= N
  <2>. HIDE DEF P
  <2>. QED  BY <1>1, <1>5
<1>. QED  BY <1>2, <1>6

\* Between the members that stay in front and those that stay behind.
LEMMA BetweenThem ==
  ASSUME NEW T, NEW q \in Seq(T), NEW n, NEW m \in T, NEW S, NEW R, Splits(q, n, S),
         \A k \in T : k \in R <=> k \notin S
  PROVE  /\ Without(q, S) \o <<m>> \o Without(q, R) = PutBehind(q, n, m)
         /\ PutBehind(q, n, m) \in Seq(T)
<1>1. /\ n \in 0..Len(q) /\ Len(q) \in Nat
      /\ \A i \in 1..Len(q) : q[i] \in T
      /\ \A i \in 1..Len(q) : q[i] \in R <=> i <= n
  BY ElementOfSeq, LenProperties DEF Splits
<1>2. Without(q, S) = SubSeq(q, 1, n)
  BY WithoutLast
<1>3. Without(q, R) = SubSeq(q, n + 1, Len(q))
  BY <1>1, WithoutFirst
<1>4. /\ SubSeq(q, 1, n) \in Seq(T) /\ Len(SubSeq(q, 1, n)) = n
      /\ \A i \in 1..n : SubSeq(q, 1, n)[i] = q[i]
  <2>1. \A i \in 1..n : q[i] \in T
    BY <1>1
  <2>2. /\ SubSeq(q, 1, n) \in Seq(T) /\ Len(SubSeq(q, 1, n)) = IF 1 <= n THEN n - 1 + 1 ELSE 0
        /\ \A i \in 1..n - 1 + 1 : SubSeq(q, 1, n)[i] = q[1 + i - 1]
    BY ONLY <1>1, <2>1, SubSeqProperties
  <2>. QED  BY <1>1, <2>2
<1>5. /\ SubSeq(q, n + 1, Len(q)) \in Seq(T) /\ Len(SubSeq(q, n + 1, Len(q))) = Len(q) - n
      /\ \A i \in 1..Len(q) - n : SubSeq(q, n + 1, Len(q))[i] = q[n + i]
  <2>1. \A i \in n + 1..Len(q) : q[i] \in T
    BY <1>1
  <2>2. /\ SubSeq(q, n + 1, Len(q)) \in Seq(T)
        /\ Len(SubSeq(q, n + 1, Len(q))) = IF n + 1 <= Len(q) THEN Len(q) - (n + 1) + 1 ELSE 0
        /\ \A i \in 1..Len(q) - (n + 1) + 1 : SubSeq(q, n + 1, Len(q))[i] = q[n + 1 + i - 1]
    BY ONLY <1>1, <2>1, SubSeqProperties
  <2>. QED  BY <1>1, <2>2
<1>. DEFINE a == SubSeq(q, 1, n)
            b == SubSeq(q, n + 1, Len(q))
            r == a \o <<m>> \o b
<1>. HIDE DEF a, b
<1>6. /\ r \in Seq(T) /\ Len(r) = Len(q) + 1
      /\ \A i \in 1..Len(q) + 1 : r[i] = IF i <= n THEN a[i] ELSE IF i = n + 1 THEN m ELSE b[i - n - 1]
  <2>1. <<m>> \in Seq(T) /\ Len(<<m>>) = 1 /\ <<m>>[1] = m
    OBVIOUS
  <2>2. /\ a \o <<m>> \in Seq(T) /\ Len(a \o <<m>>) = n + 1
        /\ \A i \in 1..n + 1 : (a \o <<m>>)[i] = IF i <= n THEN a[i] ELSE <<m>>[i - n]
    <3>1. a \in Seq(T) /\ <<m>> \in Seq(T)
      BY <1>4, <2>1 DEF a
    <3>2. /\ a \o <<m>> \in Seq(T) /\ Len(a \o <<m>>) = Len(a) + Len(<<m>>)
          /\ \A i \in 1..Len(a) + Len(<<m>>) : (a \o <<m>>)[i] = IF i <= Len(a) THEN a[i] ELSE <<m>>[i - Len(a)]
      BY ONLY <3>1, ConcatProperties
    <3>3. Len(a) = n /\ Len(<<m>>) = 1
      BY <1>4, <2>1 DEF a
    <3>. QED  BY ONLY <3>2, <3>3
  <2>3. \A i \in 1..n + 1 : (a \o <<m>>)[i] = IF i <= n THEN a[i] ELSE m
    BY <1>1, <2>1, <2>2
  <2>. DEFINE c == a \o <<m>>
  <2>. HIDE DEF c
  <2>4. c \in Seq(T) /\ Len(c) = n + 1 /\ b \in Seq(T) /\ Len(b) = Len(q) - n
    BY <1>5, <2>2 DEF c, b
  <2>5. /\ c \o b \in Seq(T) /\ Len(c \o b) = n + 1 + (Len(q) - n)
        /\ \A i \in 1..n + 1 + (Len(q) - n) : (c \o b)[i] = IF i <= n + 1 THEN c[i] ELSE b[i - (n + 1)]
    <3>1. c \in Seq(T) /\ b \in Seq(T)
      BY <2>4
    <3>2. /\ c \o b \in Seq(T) /\ Len(c \o b) = Len(c) + Len(b)
          /\ \A i \in 1..Len(c) + Len(b) : (c \o b)[i] = IF i <= Len(c) THEN c[i] ELSE b[i - Len(c)]
      BY ONLY <3>1, ConcatProperties
    <3>. QED  BY ONLY <2>4, <3>2
  <2>6. Len(q) + 1 = n + 1 + (Len(q) - n) /\ \A i \in Nat : i - (n + 1) = i - n - 1
    BY <1>1
  <2>7. ASSUME NEW i \in 1..Len(q) + 1
        PROVE  (c \o b)[i] = IF i <= n THEN a[i] ELSE IF i = n + 1 THEN m ELSE b[i - n - 1]
    <3>1. (c \o b)[i] = IF i <= n + 1 THEN c[i] ELSE b[i - n - 1]
      BY <2>5, <2>6
    <3>2. i <= n + 1 => c[i] = IF i <= n THEN a[i] ELSE m
      <4>1. i <= n + 1 => i \in 1..n + 1
        BY <1>1
      <4>2. \A j \in 1..n + 1 : c[j] = IF j <= n THEN a[j] ELSE m
        BY ONLY <2>3 DEF c
      <4>. QED  BY ONLY <4>1, <4>2
    <3>. QED  BY <1>1, <3>1, <3>2
  <2>. QED  BY <2>5, <2>6, <2>7 DEF c
<1>7. \A i \in 1..Len(q) + 1 : r[i] = IF i <= n THEN q[i] ELSE IF i = n + 1 THEN m ELSE q[i - 1]
  <2>. SUFFICES ASSUME NEW i \in 1..Len(q) + 1
                PROVE  r[i] = IF i <= n THEN q[i] ELSE IF i = n + 1 THEN m ELSE q[i - 1]
    OBVIOUS
  <2>1. i <= n => a[i] = q[i]
    BY <1>1, <1>4 DEF a
  <2>2. i > n + 1 => b[i - n - 1] = q[i - 1]
    <3>1. SUFFICES ASSUME i > n + 1  PROVE b[i - n - 1] = q[i - 1]
      OBVIOUS
    <3>2. i - n - 1 \in 1..Len(q) - n /\ n + (i - n - 1) = i - 1
      BY <1>1, <3>1
    <3>. QED  BY <1>5, <3>2 DEF b
  <2>. HIDE DEF r
  <2>. QED  BY <1>1, <1>6, <2>1, <2>2
<1>8. r = PutBehind(q, n, m)
  <2>1. r = [i \in 1..Len(q) + 1 |-> r[i]]
    <3>. HIDE DEF r
    <3>. QED  BY <1>6, LenProperties
  <2>. HIDE DEF r
  <2>. QED  BY <1>7, <2>1 DEF PutBehind
<1>. QED  BY <1>2, <1>3, <1>6, <1>8 DEF a, b

\* A new member of a list.
LEMMA InsertedMember ==
  ASSUME NEW T, NEW q \in Seq(T), IsInjective(q), NEW n \in 0..Len(q), NEW m \in T, m \notin ToSet(q)
  PROVE  LET r == PutBehind(q, n, m)
         IN  /\ r \in Seq(T) /\ Len(r) = Len(q) + 1 /\ IsInjective(r)
             /\ \A i \in 1..Len(r) : r[i] = IF i <= n THEN q[i] ELSE IF i = n + 1 THEN m ELSE q[i - 1]
<1>. DEFINE r == PutBehind(q, n, m)
            N == Len(q)
<1>1. /\ N \in Nat /\ n \in 0..N
      /\ \A i \in 1..N : q[i] \in T /\ q[i] # m
      /\ \A i, j \in 1..N : q[i] = q[j] => i = j
  BY ElementOfSeq, LenProperties, MemberPosition, InjectivePositions
<1>2. \A i \in 1..N + 1 : r[i] = IF i <= n THEN q[i] ELSE IF i = n + 1 THEN m ELSE q[i - 1]
  BY DEF PutBehind
<1>3. r \in Seq(T) /\ Len(r) = N + 1
  <2>1. ASSUME NEW i \in 1..N + 1
        PROVE  (IF i <= n THEN q[i] ELSE IF i = n + 1 THEN m ELSE q[i - 1]) \in T
    BY <1>1
  <2>2. r \in [1..N + 1 -> T] /\ N + 1 \in Nat
    BY <1>1, <2>1 DEF PutBehind
  <2>3. r \in Seq(T)
    BY <2>2, SeqDef
  <2>4. DOMAIN r = 1..Len(r) /\ Len(r) \in Nat
    BY <2>3, LenProperties
  <2>. HIDE DEF r, N
  <2>5. 1..Len(r) = 1..N + 1
    BY <2>2, <2>4
  <2>. QED  BY <2>2, <2>3, <2>4, <2>5
<1>4. ASSUME NEW i \in 1..N + 1, NEW j \in 1..N + 1, r[i] = r[j]  PROVE i = j
  <2>. HIDE DEF r
  <2>. QED  BY <1>1, <1>2, <1>4
<1>5. IsInjective(r)
  <2>. HIDE DEF r
  <2>. QED  BY <1>3, <1>4, InjectivePositions
<1>. QED  BY <1>2, <1>3, <1>5

-----------------------------------------------------------------------------
(* Numbers in rising order.                                                *)

\* Numbers in the order of themselves.
Ident == [n \in Nat |-> n]

\* The addresses of q rise.
Rising(q) == q \in Seq(Nat) /\ IsInjective(q) /\ Sorted(q, Ident)

\* b is the next address after a.
Adjacent(A, a, b) == a \in A /\ b \in A /\ a < b /\ \A c \in A : c <= a \/ b <= c

\* What Rising says of the positions.
LEMMA RisingPositions ==
  ASSUME NEW q, Rising(q)
  PROVE  /\ q \in Seq(Nat) /\ Len(q) \in Nat /\ ToSet(q) \subseteq Nat
         /\ \A i \in 1..Len(q) : q[i] \in Nat /\ q[i] \in ToSet(q)
         /\ \A x \in ToSet(q) : \E i \in 1..Len(q) : q[i] = x
         /\ \A i, j \in 1..Len(q) : q[i] < q[j] <=> i < j
         /\ \A i, j \in 1..Len(q) : q[i] = q[j] => i = j
<1>1. /\ q \in Seq(Nat) /\ Len(q) \in Nat /\ ToSet(q) \subseteq Nat
      /\ \A i \in 1..Len(q) : q[i] \in Nat /\ q[i] \in ToSet(q)
      /\ \A x \in ToSet(q) : \E i \in 1..Len(q) : q[i] = x
  BY MemberPosition, LenProperties, ElementOfSeq DEF Rising
<1>2. \A i, j \in 1..Len(q) : q[i] = q[j] => i = j
  BY <1>1, InjectivePositions DEF Rising
<1>3. \A i, j \in 1..Len(q) : i < j => q[i] <= q[j]
  BY <1>1 DEF Rising, Sorted, Ident
<1>4. ASSUME NEW i \in 1..Len(q), NEW j \in 1..Len(q)
      PROVE  q[i] < q[j] <=> i < j
  <2>1. q[i] \in Nat /\ q[j] \in Nat
    BY <1>1
  <2>2. i < j => q[i] <= q[j] /\ q[i] # q[j]
    BY <1>2, <1>3
  <2>3. j < i => q[j] <= q[i]
    BY <1>3
  <2>4. i = j => q[i] = q[j]
    OBVIOUS
  <2>. QED  BY <2>1, <2>2, <2>3, <2>4
<1>. QED  BY <1>1, <1>2, <1>4

\* One address is taken out.
LEMMA RisingRemove ==
  ASSUME NEW q, Rising(q), NEW a
  PROVE  Rising(QueRemove(q, a)) /\ ToSet(QueRemove(q, a)) = ToSet(q) \ {a}
BY QueRemoveProperties, QueRemoveSorted DEF Rising

\* Where an address stands.
LEMMA PlaceRising ==
  ASSUME NEW q, Rising(q), NEW a \in ToSet(q)
  PROVE  PositionOf(q, a) \in 1..Len(q) /\ q[PositionOf(q, a)] = a
BY RisingPositions DEF PositionOf

\* The piece after a, unless a is the last, and the one in front.
LEMMA Neighbours ==
  ASSUME NEW q, Rising(q), NEW a \in ToSet(q)
  PROVE  LET i == PositionOf(q, a)
         IN  /\ (\E z \in ToSet(q) : a < z) => i + 1 \in 1..Len(q) /\ Adjacent(ToSet(q), a, q[i + 1])
             /\ i = 1 => \A z \in ToSet(q) : a <= z
             /\ i # 1 => Adjacent(ToSet(q), q[i - 1], a)
<1>. DEFINE i == PositionOf(q, a)
            N == Len(q)
<1>1. i \in 1..N /\ q[i] = a
  BY PlaceRising
<1>. HIDE DEF i
<1>2. /\ N \in Nat /\ ToSet(q) \subseteq Nat
      /\ \A j \in 1..N : q[j] \in Nat /\ q[j] \in ToSet(q)
      /\ \A x \in ToSet(q) : \E j \in 1..N : q[j] = x
      /\ \A j, l \in 1..N : q[j] < q[l] <=> j < l
      /\ \A j, l \in 1..N : q[j] = q[l] => j = l
  BY RisingPositions
<1>3. ASSUME NEW z \in ToSet(q), a < z
      PROVE  i + 1 \in 1..N /\ Adjacent(ToSet(q), a, q[i + 1])
  <2>1. PICK j \in 1..N : q[j] = z
    BY <1>2
  <2>2. i < j
    BY <1>1, <1>2, <1>3, <2>1
  <2>3. i + 1 \in 1..N /\ i < i + 1
    BY <1>1, <1>2, <2>2
  <2>4. ASSUME NEW c \in ToSet(q)
        PROVE  c <= a \/ q[i + 1] <= c
    <3>1. PICK l \in 1..N : q[l] = c
      BY <1>2
    <3>2. ~(i < l /\ l < i + 1)
      BY <1>1
    <3>3. q[l] \in Nat /\ q[i] \in Nat /\ q[i + 1] \in Nat
      BY <1>1, <1>2, <2>3
    <3>4. ~(q[i] < q[l]) \/ ~(q[l] < q[i + 1])
      BY <1>1, <1>2, <2>3, <3>2
    <3>. QED  BY <1>1, <3>1, <3>3, <3>4
  <2>5. a < q[i + 1] /\ q[i + 1] \in ToSet(q)
    BY <1>1, <1>2, <2>3
  <2>. QED  BY <2>3, <2>4, <2>5 DEF Adjacent
<1>4. ASSUME i = 1, NEW z \in ToSet(q)  PROVE a <= z
  <2>1. PICK j \in 1..N : q[j] = z
    BY <1>2
  <2>2. ~(j < i) /\ q[j] \in Nat /\ q[i] \in Nat
    BY <1>1, <1>2, <1>4
  <2>3. ~(q[j] < q[i])
    BY <1>1, <1>2, <2>2
  <2>. QED  BY <1>1, <2>1, <2>2, <2>3
<1>5. ASSUME i # 1  PROVE Adjacent(ToSet(q), q[i - 1], a)
  <2>1. i - 1 \in 1..N /\ i - 1 < i
    BY <1>1, <1>2, <1>5
  <2>2. ASSUME NEW c \in ToSet(q)
        PROVE  c <= q[i - 1] \/ a <= c
    <3>1. PICK l \in 1..N : q[l] = c
      BY <1>2
    <3>2. ~(i - 1 < l /\ l < i)
      BY <1>1
    <3>3. q[l] \in Nat /\ q[i] \in Nat /\ q[i - 1] \in Nat
      BY <1>1, <1>2, <2>1
    <3>4. ~(q[i - 1] < q[l]) \/ ~(q[l] < q[i])
      BY <1>1, <1>2, <2>1, <3>2
    <3>. QED  BY <1>1, <3>1, <3>3, <3>4
  <2>3. q[i - 1] < a /\ q[i - 1] \in ToSet(q)
    BY <1>1, <1>2, <2>1
  <2>. QED  BY <2>2, <2>3 DEF Adjacent
<1>. QED  BY <1>3, <1>4, <1>5 DEF i

\* A new address behind a.
LEMMA RisingInsert ==
  ASSUME NEW q, Rising(q), NEW a \in ToSet(q), NEW new \in Nat, NEW b, Adjacent(ToSet(q), a, b),
         a < new, new < b
  PROVE  LET r == InsertAt(q, PositionOf(q, a) + 1, new)
         IN  Rising(r) /\ ToSet(r) = ToSet(q) \cup {new}
<1>. DEFINE i == PositionOf(q, a)
            N == Len(q)
<1>1. i \in 1..N /\ q[i] = a
  BY PlaceRising
<1>2. /\ q \in Seq(Nat) /\ N \in Nat /\ ToSet(q) \subseteq Nat
      /\ \A j \in 1..N : q[j] \in Nat /\ q[j] \in ToSet(q)
      /\ \A x \in ToSet(q) : \E j \in 1..N : q[j] = x
      /\ \A j, l \in 1..N : q[j] < q[l] <=> j < l
  BY RisingPositions
<1>3. i + 1 \in 1..N
  BY Neighbours DEF Adjacent
<1>4. PICK k \in 1..N : k = i + 1
  BY <1>3
<1>5. \A j \in 1..N : /\ j < k => q[j] < new
                      /\ ~(j < k) => new < q[j]
  <2>. SUFFICES ASSUME NEW j \in 1..N  PROVE (j < k => q[j] < new) /\ (~(j < k) => new < q[j])
    OBVIOUS
  <2>1. q[j] \in Nat /\ q[j] \in ToSet(q) /\ a \in Nat /\ b \in Nat
    BY <1>2 DEF Adjacent
  <2>. HIDE DEF i
  <2>2. j < k => ~(a < q[j])
    BY <1>1, <1>2, <1>4
  <2>3. ~(j < k) => a < q[j]
    BY <1>1, <1>2, <1>4
  <2>4. q[j] <= a \/ b <= q[j]
    BY <2>1 DEF Adjacent
  <2>. QED  BY <1>1, <2>1, <2>2, <2>3, <2>4
<1>6. PICK r : r = InsertAt(q, k, new)
  OBVIOUS
<1>7. /\ r \in Seq(Nat) /\ Len(r) = N + 1
      /\ \A j \in 1..N + 1 : r[j] = IF j < k THEN q[j] ELSE IF j = k THEN new ELSE q[j - 1]
  <2>1. q \in Seq(Nat) /\ k \in 1..Len(q)
    BY <1>2
  <2>. HIDE DEF N, i
  <2>0. PICK S : S = Nat
    OBVIOUS
  <2>3. q \in Seq(S) /\ new \in S
    BY <2>0, <2>1
  <2>2. /\ InsertAt(q, k, new) \in Seq(S)
        /\ Len(InsertAt(q, k, new)) = Len(q) + 1
        /\ \A j \in 1..Len(q)+1 :
              InsertAt(q, k, new)[j] = IF j < k THEN q[j] ELSE IF j = k THEN new ELSE q[j - 1]
    BY <2>1, <2>3, InsertAtProperties
  <2>. QED  BY <1>6, <2>0, <2>2 DEF N
<1>. HIDE DEF i, N
<1>8. \A j \in 1..N + 1 : /\ j < k => j \in 1..N /\ r[j] = q[j]
                          /\ j = k => r[j] = new
                          /\ k < j => j - 1 \in 1..N /\ ~(j - 1 < k) /\ r[j] = q[j - 1]
  BY <1>2, <1>4, <1>7
<1>9. \A j \in 1..N + 1 : r[j] \in Nat
  BY <1>7, ElementOfSeq
<1>10. ASSUME NEW j \in 1..N + 1, NEW l \in 1..N + 1, j < l
       PROVE  r[j] < r[l]
  <2>1. CASE l < k
    <3>1. j < k
      BY <1>2, <1>4, <1>10, <2>1
    <3>. QED  BY <1>2, <1>8, <1>10, <2>1, <3>1
  <2>2. CASE l = k
    <3>1. j < k
      BY <1>10, <2>2
    <3>. QED  BY <1>5, <1>8, <2>2, <3>1
  <2>3. CASE k < l
    <3>1. l - 1 \in 1..N /\ ~(l - 1 < k) /\ r[l] = q[l - 1]
      BY <1>8, <2>3
    <3>2. CASE j < k
      <4>1. j \in 1..N /\ r[j] = q[j] /\ j < l - 1
        BY <1>2, <1>4, <1>8, <3>1, <3>2
      <4>. QED  BY <1>2, <3>1, <4>1
    <3>3. CASE j = k
      BY <1>5, <1>8, <3>1, <3>3
    <3>4. CASE k < j
      <4>1. j - 1 \in 1..N /\ r[j] = q[j - 1] /\ j - 1 < l - 1
        BY <1>8, <1>10, <3>4
      <4>. QED  BY <1>2, <3>1, <4>1
    <3>. QED  BY <1>4, <3>2, <3>3, <3>4
  <2>. QED  BY <1>4, <2>1, <2>2, <2>3
<1>11. IsInjective(r)
  <2>. SUFFICES ASSUME NEW j \in 1..N + 1, NEW l \in 1..N + 1, r[j] = r[l]  PROVE j = l
    BY <1>7, InjectivePositions
  <2>1. r[j] \in Nat /\ r[l] \in Nat /\ ~(r[j] < r[l]) /\ ~(r[l] < r[j])
    BY <1>9
  <2>2. ~(j < l) /\ ~(l < j)
    BY <1>10, <2>1
  <2>. QED  BY <1>2, <2>2
<1>12. Sorted(r, Ident)
  <2>1. \A j, l \in 1..N + 1 : j < l => r[j] <= r[l]
    BY <1>9, <1>10
  <2>. QED  BY <1>7, <1>9, <2>1 DEF Sorted, Ident
<1>13. ToSet(r) = ToSet(q) \cup {new}
  <2>1. \A x : x \in ToSet(r) <=> \E j \in 1..N + 1 : r[j] = x
    BY <1>7, MemberPosition
  <2>2. ASSUME NEW x \in ToSet(r)  PROVE x \in ToSet(q) \cup {new}
    <3>1. PICK j \in 1..N + 1 : r[j] = x
      BY <2>1
    <3>2. j < k \/ j = k \/ k < j
      BY <1>4
    <3>. QED  BY <1>2, <1>8, <3>1, <3>2
  <2>3. new \in ToSet(r)
    <3>1. k \in 1..N + 1
      BY <1>2, <1>4
    <3>. QED  BY <1>8, <2>1, <3>1
  <2>4. ASSUME NEW x \in ToSet(q)  PROVE x \in ToSet(r)
    <3>1. PICK l \in 1..N : q[l] = x
      BY <1>2
    <3>2. CASE l < k
      <4>1. l \in 1..N + 1
        BY <1>2
      <4>. QED  BY <1>8, <2>1, <3>1, <3>2, <4>1
    <3>3. CASE ~(l < k)
      <4>1. l + 1 \in 1..N + 1 /\ k < l + 1 /\ (l + 1) - 1 = l
        BY <1>2, <1>4, <3>3
      <4>. QED  BY <1>8, <2>1, <3>1, <4>1
    <3>. QED  BY <3>2, <3>3
  <2>. QED  BY <2>2, <2>3, <2>4
<1>. QED  BY <1>4, <1>6, <1>7, <1>11, <1>12, <1>13 DEF Rising, i

-----------------------------------------------------------------------------
(* Places in a ring of W words.                                            *)

\* A place on the second turn of a ring of W words.
LEMMA RingTurn ==
  ASSUME NEW W \in Nat \ {0}, NEW i \in 0..2 * W - 1
  PROVE  i % W = (IF i < W THEN i ELSE i - W) /\ i % W \in 0..W - 1
OBVIOUS

\* A message that fits by its bytes fits by its words.
LEMMA WordsFit ==
  ASSUME NEW H \in Nat \ {0}, NEW s \in Nat \ {0}, NEW r \in Nat, NEW c \in Nat,
         r * H < s + H, H + s <= c * H
  PROVE  r + 1 <= c
<1>1. (r + 1) * H = r * H + H
  OBVIOUS
<1>2. (r + 1) * H < (c + 1) * H
  <2>1. (c + 1) * H = c * H + H
    OBVIOUS
  <2>. QED  BY <1>1, <2>1
<1>. QED  BY <1>2

\* How far a place is behind the tail.
LEMMA BehindTail ==
  ASSUME NEW W \in Nat \ {0}, NEW h \in 0..W - 1, NEW u \in 0..W - 1, NEW o \in 0..W - 1
  PROVE  /\ (h + o) % W \in 0..W - 1
         /\ (((h + o) % W) - ((h + u) % W) + W) % W = IF u <= o THEN o - u ELSE o - u + W
<1>1. h + o \in 0..2 * W - 1 /\ h + u \in 0..2 * W - 1
  OBVIOUS
<1>r. ASSUME NEW z \in 0..2 * W - 1
      PROVE  z % W = (IF z < W THEN z ELSE z - W) /\ z % W \in 0..W - 1
  BY ONLY W \in Nat \ {0}, z \in 0..2 * W - 1, RingTurn
<1>. DEFINE x == (h + o) % W
            y == (h + u) % W
<1>2. /\ x = (IF h + o < W THEN h + o ELSE h + o - W) /\ x \in 0..W - 1
      /\ y = (IF h + u < W THEN h + u ELSE h + u - W) /\ y \in 0..W - 1
  <2>1. PICK a \in 0..2 * W - 1 : a = h + o
    BY <1>1
  <2>2. PICK b \in 0..2 * W - 1 : b = h + u
    BY <1>1
  <2>3. /\ a % W = (IF a < W THEN a ELSE a - W) /\ a % W \in 0..W - 1
        /\ b % W = (IF b < W THEN b ELSE b - W) /\ b % W \in 0..W - 1
    BY <1>r
  <2>. QED  BY ONLY <2>1, <2>2, <2>3
<1>. HIDE DEF x, y
<1>3. x - y + W \in 0..2 * W - 1
  BY <1>2
<1>4. (x - y + W) % W = IF x - y + W < W THEN x - y + W ELSE x - y + W - W
  <2>1. PICK a \in 0..2 * W - 1 : a = x - y + W
    BY <1>3
  <2>2. a % W = IF a < W THEN a ELSE a - W
    BY <1>r
  <2>. QED  BY <1>2, <2>1, <2>2
<1>5. (x - y + W) % W = IF u <= o THEN o - u ELSE o - u + W
  BY <1>2, <1>4
<1>. QED  BY <1>2, <1>5 DEF x, y

\* Two steps along the ring are one.
LEMMA TwoSteps ==
  ASSUME NEW W \in Nat \ {0}, NEW h \in 0..W - 1, NEW u \in 0..W, NEW n \in 0..W, u + n <= W
  PROVE  (((h + u) % W) + n) % W = (h + (u + n)) % W
<1>1. h + u \in 0..2 * W - 1 /\ h + (u + n) \in 0..2 * W - 1
  OBVIOUS
<1>r. ASSUME NEW z \in 0..2 * W - 1
      PROVE  z % W = (IF z < W THEN z ELSE z - W) /\ z % W \in 0..W - 1
  BY ONLY W \in Nat \ {0}, z \in 0..2 * W - 1, RingTurn
<1>. DEFINE x == (h + u) % W
<1>2. /\ x = (IF h + u < W THEN h + u ELSE h + u - W) /\ x \in 0..W - 1
      /\ (h + (u + n)) % W = IF h + (u + n) < W THEN h + (u + n) ELSE h + (u + n) - W
  <2>1. PICK a \in 0..2 * W - 1 : a = h + u
    BY <1>1
  <2>2. PICK b \in 0..2 * W - 1 : b = h + (u + n)
    BY <1>1
  <2>3. /\ a % W = (IF a < W THEN a ELSE a - W) /\ a % W \in 0..W - 1
        /\ b % W = (IF b < W THEN b ELSE b - W)
    BY <1>r
  <2>. QED  BY ONLY <2>1, <2>2, <2>3
<1>. HIDE DEF x
<1>3. x + n \in 0..2 * W - 1
  BY <1>2
<1>4. (x + n) % W = IF x + n < W THEN x + n ELSE x + n - W
  <2>1. PICK a \in 0..2 * W - 1 : a = x + n
    BY <1>3
  <2>2. a % W = IF a < W THEN a ELSE a - W
    BY <1>r
  <2>. QED  BY <1>2, <2>1, <2>2
<1>5. (x + n) % W = (h + (u + n)) % W
  BY <1>2, <1>4
<1>. QED  BY <1>5 DEF x

\* A multiple of the word size in words.
LEMMA WholeWords ==
  ASSUME NEW n \in Nat, NEW H \in Nat \ {0}
  PROVE  (n * H) \div H = n
<1>1. n * H \in Nat
  OBVIOUS
<1>2. PICK a \in Nat : a = n * H
  BY <1>1
<1>3. PICK d \in Nat : d = a \div H
  OBVIOUS
<1>4. d * H <= a /\ a < (d + 1) * H
  BY <1>3
<1>5. d <= n
  <2>1. d * H <= n * H
    BY <1>2, <1>4
  <2>2. ASSUME d >= n + 1  PROVE FALSE
    <3>1. (d - n) * H >= H
      BY <2>2
    <3>2. d * H = n * H + (d - n) * H
      OBVIOUS
    <3>. QED  BY <1>1, <2>1, <3>1, <3>2
  <2>. QED  BY <2>2
<1>6. n <= d
  <2>2. ASSUME n >= d + 1  PROVE FALSE
    <3>1. (n - (d + 1)) * H >= 0
      BY <2>2
    <3>2. n * H = (d + 1) * H + (n - (d + 1)) * H
      OBVIOUS
    <3>. QED  BY <1>2, <1>4, <3>1, <3>2
  <2>. QED  BY <2>2
<1>. QED  BY <1>2, <1>3, <1>5, <1>6

-----------------------------------------------------------------------------
(* The length of a list without repetitions.                               *)

\* Different numbers below n, none of which is b.
LEMMA FreeListLength ==
  ASSUME NEW n \in Nat, NEW b \in 0..n - 1, NEW q \in Seq(Nat), IsInjective(q), ToSet(q) \subseteq 0..n - 1,
         b \notin ToSet(q)
  PROVE  Len(q) <= n - 1
<1>. DEFINE S == (0..n - 1) \ {b}
<1>1. Len(q) \in Nat /\ \A i \in 1..Len(q) : q[i] \in S
  BY MemberPosition
<1>2. IsFiniteSet(0..n - 1) /\ Cardinality(0..n - 1) = n
  BY FS_Interval
<1>3. IsFiniteSet(S) /\ Cardinality(S) = n - 1
  BY <1>2, FS_RemoveElement
<1>. HIDE DEF S
<1>4. Cardinality(1..Len(q)) = Len(q)
  <2>1. 1 \in Int /\ Len(q) \in Int
    BY <1>1
  <2>2. Cardinality(1..Len(q)) = IF 1 > Len(q) THEN 0 ELSE Len(q) - 1 + 1
    BY <2>1, FS_Interval
  <2>. QED  BY <1>1, <2>2
<1>. DEFINE f == [i \in 1..Len(q) |-> q[i]]
<1>5. f \in Injection(1..Len(q), S)
  BY <1>1, InjectivePositions DEF Injection
<1>6. Cardinality(1..Len(q)) <= Cardinality(S)
  BY <1>3, <1>5, FS_Injection
<1>. QED  BY <1>3, <1>4, <1>6

=============================================================================
