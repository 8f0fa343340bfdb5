------------------------------ MODULE DataLemmas ------------------------------
(***************************************************************************)
(* What the proofs need of data: least and greatest members of sets,       *)
(* queues that hold nothing twice, results that are merged.  Where it is   *)
(* an induction, it is a least counterexample: a nonempty set has a        *)
(* minimal member of a well-founded relation (WFMin).                      *)
(***************************************************************************)
EXTENDS SequencesExt, FiniteSetTheorems, SequenceTheorems, WellFoundedInduction,
        Merging, TLAPS

(* A nonempty set of naturals has a least member.                           *)
LEMMA Smallest ==
    ASSUME NEW S \in SUBSET Nat, S # {}
    PROVE  \E m \in S : \A n \in S : m <= n
<1> DEFINE R == OpToRel(<, Nat)
<1>1. IsWellFoundedOn(R, Nat)
  BY NatLessThanWellFounded
<1>2. \A x, y \in Nat : x < y => <<x, y>> \in R
  BY DEF OpToRel
<1> HIDE DEF R
<1>3. PICK m \in S : \A n \in S : <<n, m>> \notin R
  BY <1>1, WFMin, Zenon
<1>4. ASSUME NEW n \in S PROVE m <= n
  <2>1. m \in Nat /\ n \in Nat
    OBVIOUS
  <2>2. ~ (n < m)
    BY <1>2, <1>3, <2>1
  <2> QED
    BY <2>1, <2>2
<1> QED
  BY <1>4

(* A finite nonempty set of integers has a greatest member: of the sets of  *)
(* those above each of its members, one is minimal, and that one is empty.  *)
LEMMA Greatest ==
    ASSUME NEW S \in SUBSET Int, IsFiniteSet(S), S # {}
    PROVE  \E m \in S : \A n \in S : n <= m
<1> DEFINE R == StrictSubsetOrdering(S)
           Above(m) == {n \in S : n > m}
           A == {Above(m) : m \in S}
<1>1. IsWellFoundedOn(R, SUBSET S)
  BY FS_StrictSubsetOrderingWellFounded, FS_FiniteSubsetsOfFinite
<1>2. A \subseteq SUBSET S /\ A # {}
  OBVIOUS
<1>3. \E x \in A : \A y \in A : <<y, x>> \notin R
  <2> HIDE DEF A, R
  <2> QED
    BY <1>1, <1>2, WFMin, Zenon
<1>4. PICK m \in S : \A k \in S : <<Above(k), Above(m)>> \notin R
  BY <1>3
<1>5. ASSUME NEW n \in S, n > m PROVE FALSE
  <2>1. ASSUME NEW k \in S, k > n PROVE k > m
    <3>1. k \in Int /\ n \in Int /\ m \in Int
      OBVIOUS
    <3> QED
      BY <1>5, <2>1, <3>1
  <2>2. Above(n) \subseteq Above(m)
    BY <2>1
  <2>3. n \in Above(m) /\ n \notin Above(n)
    BY <1>5
  <2>4. <<Above(n), Above(m)>> \in R
    BY <2>2, <2>3 DEF StrictSubsetOrdering
  <2> QED
    BY <1>4, <2>4
<1>6. ASSUME NEW n \in S PROVE n <= m
  <2>1. n \in Int /\ m \in Int /\ ~ (n > m)
    BY <1>5
  <2> QED
    BY <2>1
<1> QED
  BY <1>6

(* Min of a nonempty set of naturals is its least member.                   *)
LEMMA MinIsLeast ==
    ASSUME NEW S \in SUBSET Nat, S # {}
    PROVE  Min(S) \in S /\ \A n \in S : Min(S) <= n
BY Smallest DEF Min

(* Max of a finite nonempty set of integers is its greatest member.         *)
LEMMA MaxIsGreatest ==
    ASSUME NEW S \in SUBSET Int, IsFiniteSet(S), S # {}
    PROVE  Max(S) \in S /\ \A n \in S : n <= Max(S)
BY Greatest DEF Max

-----------------------------------------------------------------------------
(* A queue holds nothing twice.                                             *)
Single(queue) ==
    \A i, j \in 1..Len(queue) : queue[i] = queue[j] => i = j

Among(s, queue) == \E i \in 1..Len(queue) : queue[i] = s

(* Who was not in the line is in it once after a push (store.py, RPUSH).    *)
LEMMA AppendKeepsSingle ==
    ASSUME NEW S, NEW q \in Seq(S), NEW s \in S, Single(q), ~ Among(s, q)
    PROVE  Append(q, s) \in Seq(S) /\ Single(Append(q, s))
           /\ \A t : Among(t, Append(q, s)) <=> Among(t, q) \/ t = s
<1>1. /\ Append(q, s) \in Seq(S)
      /\ Len(Append(q, s)) = Len(q) + 1
      /\ \A i \in 1..Len(q) : Append(q, s)[i] = q[i]
      /\ Append(q, s)[Len(q) + 1] = s
  BY AppendProperties
<1>2. Len(q) \in Nat
  BY LenProperties
<1> QED
  BY <1>1, <1>2 DEF Single, Among

(* LREM 1: of a queue that holds nothing twice, what it took out is gone.   *)
LEMMA RemoveFirstIs ==
    ASSUME NEW S, NEW q \in Seq(S), NEW s, Single(q)
    PROVE  RemoveFirst(q, s) \in Seq(S) /\ Single(RemoveFirst(q, s))
           /\ ~ Among(s, RemoveFirst(q, s))
           /\ \A t : Among(t, RemoveFirst(q, s)) => Among(t, q)
<1>0. Len(q) \in Nat /\ q \in [1..Len(q) -> S]
  BY LenProperties
<1>1. CASE ~ Among(s, q)
  BY <1>1 DEF RemoveFirst, Among
<1>2. CASE Among(s, q)
  <2> DEFINE I == {i \in 1..Len(q) : q[i] = s}
             m == Min(I)
             a == SubSeq(q, 1, m - 1)
             b == SubSeq(q, m + 1, Len(q))
  <2>1. I \in SUBSET Nat /\ I # {}
    BY <1>0, <1>2 DEF Among
  <2>2. RemoveFirst(q, s) = a \o b
    BY <1>2, <2>1 DEF RemoveFirst, RemoveAt, SelectInSeq, Among
  <2>3. m \in 1..Len(q) /\ q[m] = s
    <3>1. m \in I
      BY <2>1, MinIsLeast
    <3> QED
      BY <3>1
  <2> HIDE DEF m, I
  <2>4. /\ a \in Seq(S) /\ Len(a) = m - 1
        /\ \A i \in 1..(m - 1) : a[i] = q[i]
    <3>1. (\A i \in 1..(m - 1) : q[i] \in S) /\ m - 1 \in Int /\ 1 \in Int
      BY <1>0, <2>3
    <3>2. /\ a \in Seq(S)
          /\ Len(a) = (IF 1 <= m - 1 THEN (m - 1) - 1 + 1 ELSE 0)
          /\ \A i \in 1..((m - 1) - 1 + 1) : a[i] = q[1 + i - 1]
      BY <3>1, SubSeqProperties
    <3> HIDE DEF a
    <3> QED
      BY <1>0, <2>3, <3>2
  <2>5. /\ b \in Seq(S) /\ Len(b) = Len(q) - m
        /\ \A i \in 1..(Len(q) - m) : b[i] = q[m + i]
    <3>1. /\ \A i \in (m + 1)..Len(q) : q[i] \in S
          /\ m + 1 \in Int /\ Len(q) \in Int
      BY <1>0, <2>3
    <3>2. /\ b \in Seq(S)
          /\ Len(b) = (IF m + 1 <= Len(q) THEN Len(q) - (m + 1) + 1 ELSE 0)
          /\ \A i \in 1..(Len(q) - (m + 1) + 1) : b[i] = q[(m + 1) + i - 1]
      BY <3>1, SubSeqProperties
    <3> HIDE DEF b
    <3>3. Len(b) = Len(q) - m
      <4>1. m \in Int /\ Len(q) \in Int /\ m <= Len(q)
        BY <1>0, <2>3
      <4>2. (IF m + 1 <= Len(q) THEN Len(q) - (m + 1) + 1 ELSE 0) = Len(q) - m
        BY ONLY <4>1
      <4> QED
        BY <3>2, <4>2
    <3>4. ASSUME NEW i \in 1..(Len(q) - m) PROVE b[i] = q[m + i]
      <4>1. i \in 1..(Len(q) - (m + 1) + 1) /\ (m + 1) + i - 1 = m + i
        BY <1>0, <2>3
      <4> QED
        BY <3>2, <4>1
    <3> QED
      BY <3>2, <3>3, <3>4
  <2> HIDE DEF a, b
  <2>6. /\ a \o b \in Seq(S)
        /\ Len(a \o b) = Len(q) - 1
        /\ \A i \in 1..(Len(q) - 1) :
              (a \o b)[i] = IF i <= m - 1 THEN q[i] ELSE q[i + 1]
    <3>1. /\ a \o b \in Seq(S)
          /\ Len(a \o b) = Len(a) + Len(b)
          /\ \A i \in 1..(Len(a) + Len(b)) :
                (a \o b)[i] = IF i <= Len(a) THEN a[i] ELSE b[i - Len(a)]
      BY <2>4, <2>5, ConcatProperties
    <3>2. Len(a) = m - 1 /\ Len(b) = Len(q) - m /\ m \in Int /\ Len(q) \in Int
      BY <1>0, <2>3, <2>4, <2>5
    <3>3. Len(a) + Len(b) = Len(q) - 1
      BY <3>2
    <3>4. ASSUME NEW i \in 1..(Len(q) - 1)
          PROVE  (a \o b)[i] = IF i <= m - 1 THEN q[i] ELSE q[i + 1]
      <4>1. (a \o b)[i] = IF i <= m - 1 THEN a[i] ELSE b[i - (m - 1)]
        BY <3>1, <3>2, <3>3
      <4>2. CASE i <= m - 1
        BY <2>4, <3>2, <4>1, <4>2
      <4>3. CASE ~(i <= m - 1)
        <5>1. i - (m - 1) \in 1..(Len(q) - m) /\ m + (i - (m - 1)) = i + 1
          BY <3>2, <4>3
        <5> QED
          BY <2>5, <4>1, <4>3, <5>1
      <4> QED
        BY <4>2, <4>3
    <3> QED
      BY <3>1, <3>3, <3>4
  <2>7. Single(a \o b)
    <3> SUFFICES ASSUME NEW i \in 1..(Len(q) - 1), NEW j \in 1..(Len(q) - 1),
                        (a \o b)[i] = (a \o b)[j]
                 PROVE  i = j
      BY <2>6 DEF Single
    <3> DEFINE At(k) == IF k <= m - 1 THEN k ELSE k + 1
    <3>1. At(i) \in 1..Len(q) /\ At(j) \in 1..Len(q)
      BY <1>0, <2>3
    <3>2. q[At(i)] = q[At(j)]
      BY <2>6
    <3>3. At(i) = At(j)
      BY <3>1, <3>2 DEF Single
    <3> QED
      BY <1>0, <2>3, <3>3
  <2>8. \A t : Among(t, a \o b) => Among(t, q) /\ t # s
    <3> SUFFICES ASSUME NEW i \in 1..(Len(q) - 1)
                 PROVE  Among((a \o b)[i], q) /\ (a \o b)[i] # s
      BY <2>6 DEF Among
    <3> DEFINE k == IF i <= m - 1 THEN i ELSE i + 1
    <3>1. k \in 1..Len(q) /\ k # m /\ (a \o b)[i] = q[k]
      BY <1>0, <2>3, <2>6
    <3> QED
      BY <2>3, <3>1 DEF Among, Single
  <2> QED
    BY <2>2, <2>6, <2>7, <2>8
<1> QED
  BY <1>1, <1>2

-----------------------------------------------------------------------------
(* A name keeps the value of the first that has it.                         *)
LEMMA NamesOfMerged ==
    \A f, g, c : c \in DOMAIN (f ++ g) <=> c \in DOMAIN f \/ c \in DOMAIN g
BY DEF ++

(* Where two results name the same thing, the first one counts.             *)
LEMMA FirstIsKept ==
    \A f, g, c : c \in DOMAIN f => (f ++ g)[c] = f[c]
BY DEF ++

(* What only the second result names is taken from it.                      *)
LEMMA SecondIsAdded ==
    \A f, g, c : c \in DOMAIN g /\ c \notin DOMAIN f => (f ++ g)[c] = g[c]
BY DEF ++

=============================================================================
