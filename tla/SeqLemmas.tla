------------------------------- MODULE SeqLemmas -------------------------------
(***************************************************************************)
(* Facts about the two operations on lists that the models use: appending  *)
(* an entry at the tail and detaching the entry at an index; and that a    *)
(* set of numbers has a least one, the form in which the proofs do         *)
(* inductions.                                                             *)
(***************************************************************************)
EXTENDS Integers, Sequences, SequencesExt, SequenceTheorems, WellFoundedInduction, TLAPS

(* Detaching an entry leaves the others in their order.                    *)
LEMMA RemoveAtEntries ==
    ASSUME NEW S, NEW s \in Seq(S), NEW i \in 1 .. Len(s)
    PROVE  /\ RemoveAt(s, i) \in Seq(S)
           /\ Len(RemoveAt(s, i)) = Len(s) - 1
           /\ \A j \in 1 .. Len(s) - 1 :
                RemoveAt(s, i)[j] = IF j < i THEN s[j] ELSE s[j + 1]
  <1> DEFINE a == SubSeq(s, 1, i - 1)
  <1> DEFINE b == SubSeq(s, i + 1, Len(s))
  <1>1. Len(s) \in Nat /\ i \in Int
    OBVIOUS
  <1>2. /\ a \in Seq(S) /\ Len(a) = i - 1
        /\ \A j \in 1 .. i - 1 : a[j] = s[j]
    BY <1>1
  <1>3. /\ b \in Seq(S) /\ Len(b) = Len(s) - i
        /\ \A j \in 1 .. Len(s) - i : b[j] = s[i + j]
    BY <1>1
  <1>4. RemoveAt(s, i) = a \o b
    BY DEF RemoveAt
  <1> HIDE DEF a, b
  <1>5. /\ a \o b \in Seq(S)
        /\ Len(a \o b) = Len(a) + Len(b)
        /\ \A j \in 1 .. Len(a) + Len(b) :
             (a \o b)[j] = IF j <= Len(a) THEN a[j] ELSE b[j - Len(a)]
    BY <1>2, <1>3, ConcatProperties
  <1>6. Len(a) + Len(b) = Len(s) - 1
    BY <1>1, <1>2, <1>3
  <1>7. ASSUME NEW j \in 1 .. Len(s) - 1
        PROVE  (a \o b)[j] = IF j < i THEN s[j] ELSE s[j + 1]
    <2>1. (a \o b)[j] = IF j <= Len(a) THEN a[j] ELSE b[j - Len(a)]
      BY <1>5, <1>6
    <2>2. j \in Int
      OBVIOUS
    <2>3. CASE j < i
      <3>1. j <= Len(a) /\ j \in 1 .. i - 1
        BY <2>2, <2>3, <1>1, <1>2
      <3>2. a[j] = s[j]
        BY <3>1, <1>2
      <3> QED BY <2>1, <2>3, <3>1, <3>2
    <2>4. CASE ~(j < i)
      <3> DEFINE k == j - Len(a)
      <3>1. /\ ~(j <= Len(a)) /\ k \in 1 .. Len(s) - i /\ i + k = j + 1
        BY <2>2, <2>4, <1>1, <1>2
      <3>2. b[k] = s[i + k]
        BY <3>1, <1>3
      <3> QED BY <2>1, <2>4, <3>1, <3>2
    <2> QED BY <2>3, <2>4
  <1>8. \A j \in 1 .. Len(s) - 1 : (a \o b)[j] = IF j < i THEN s[j] ELSE s[j + 1]
    BY <1>7
  <1> QED BY <1>4, <1>5, <1>6, <1>8

(* What detaching an entry does to the set of the entries of a list in     *)
(* which no entry is linked twice.                                         *)
LEMMA RemoveAtRange ==
    ASSUME NEW S, NEW s \in Seq(S), NEW i \in 1 .. Len(s), IsInjective(s)
    PROVE  /\ IsInjective(RemoveAt(s, i))
           /\ Range(RemoveAt(s, i)) = Range(s) \ {s[i]}
  <1> DEFINE t == RemoveAt(s, i)
  <1> DEFINE from(j) == IF j < i THEN j ELSE j + 1
  <1>1. /\ Len(s) \in Nat /\ i \in Int /\ DOMAIN s = 1 .. Len(s)
    OBVIOUS
  <1>2. /\ t \in Seq(S) /\ Len(t) = Len(s) - 1
        /\ \A j \in 1 .. Len(s) - 1 : t[j] = IF j < i THEN s[j] ELSE s[j + 1]
    BY RemoveAtEntries
  <1>3. DOMAIN t = 1 .. Len(s) - 1
    BY <1>1, <1>2
  <1> HIDE DEF t
  <1>4. \A j \in DOMAIN t : t[j] = s[from(j)]
    BY <1>2, <1>3
  <1>5. \A j \in DOMAIN t : from(j) \in DOMAIN s
    BY <1>1, <1>3
  <1>6. \A j \in DOMAIN t : from(j) # i
    BY <1>1, <1>3
  <1>7. \A j, k \in DOMAIN t : from(j) = from(k) => j = k
    BY <1>1, <1>3
  <1>8. \A m \in DOMAIN s : m # i => \E j \in DOMAIN t : from(j) = m
    <2> TAKE m \in DOMAIN s
    <2> HAVE m # i
    <2>1. m \in Int
      BY <1>1
    <2>2. CASE m < i
      BY <1>1, <1>3, <2>1, <2>2
    <2>3. CASE ~(m < i)
      <3>1. m - 1 \in DOMAIN t /\ from(m - 1) = m
        BY <1>1, <1>3, <2>1, <2>3
      <3> QED BY <3>1
    <2> QED BY <2>2, <2>3
  <1>9. \A m, n \in DOMAIN s : s[m] = s[n] => m = n
    BY DEF IsInjective
  <1> HIDE DEF from
  <1>10. IsInjective(t)
    BY <1>4, <1>5, <1>7, <1>9 DEF IsInjective
  <1>11. Range(t) = Range(s) \ {s[i]}
    <2>1. ASSUME NEW x \in Range(t) PROVE x \in Range(s) \ {s[i]}
      BY <1>1, <1>4, <1>5, <1>6, <1>9 DEF Range
    <2>2. ASSUME NEW x \in Range(s) \ {s[i]} PROVE x \in Range(t)
      BY <1>4, <1>8 DEF Range
    <2> QED BY <2>1, <2>2
  <1> QED BY <1>10, <1>11 DEF t

(* What appending an entry does to the set of the entries.                 *)
LEMMA AppendRange ==
    ASSUME NEW S, NEW s \in Seq(S), NEW e \in S
    PROVE  /\ Append(s, e) \in Seq(S)
           /\ Len(Append(s, e)) = Len(s) + 1
           /\ Range(Append(s, e)) = Range(s) \cup {e}
           /\ IsInjective(s) /\ e \notin Range(s) => IsInjective(Append(s, e))
  <1> DEFINE t == Append(s, e)
  <1>1. Len(s) \in Nat /\ DOMAIN s = 1 .. Len(s)
    OBVIOUS
  <1>2. /\ t \in Seq(S) /\ Len(t) = Len(s) + 1
        /\ \A j \in 1 .. Len(s) : t[j] = s[j]
        /\ t[Len(s) + 1] = e
    BY AppendProperties
  <1>3. DOMAIN t = 1 .. Len(s) + 1
    BY <1>1, <1>2
  <1> HIDE DEF t
  <1>4. \A j \in DOMAIN t : j \in DOMAIN s \/ j = Len(s) + 1
    BY <1>1, <1>3
  <1>5. \A j \in DOMAIN s : j \in DOMAIN t /\ t[j] = s[j]
    BY <1>1, <1>2, <1>3
  <1>6. Len(s) + 1 \in DOMAIN t /\ t[Len(s) + 1] = e
    BY <1>1, <1>2, <1>3
  <1>7. Range(t) = Range(s) \cup {e}
    BY <1>4, <1>5, <1>6 DEF Range
  <1>8. IsInjective(s) /\ e \notin Range(s) => IsInjective(t)
    BY <1>4, <1>5, <1>6 DEF IsInjective, Range
  <1> QED BY <1>2, <1>7, <1>8 DEF t

(* The same by the index each entry had: no entry moves past another one.  *)
LEMMA RemoveAtIndices ==
    ASSUME NEW S, NEW s \in Seq(S), NEW i \in 1 .. Len(s)
    PROVE  \E was \in [DOMAIN RemoveAt(s, i) -> DOMAIN s \ {i}] :
             /\ \A j \in DOMAIN RemoveAt(s, i) :
                  RemoveAt(s, i)[j] = s[was[j]] /\ (j >= i <=> was[j] >= i)
             /\ \A j, k \in DOMAIN RemoveAt(s, i) : j < k <=> was[j] < was[k]
             /\ \A k \in DOMAIN s \ {i} : \E j \in DOMAIN RemoveAt(s, i) : was[j] = k
  <1> DEFINE t == RemoveAt(s, i)
  <1> DEFINE n == Len(s)
  <1>1. /\ n \in Nat /\ DOMAIN s = 1 .. n /\ i \in Int
        /\ DOMAIN t = 1 .. n - 1
        /\ \A j \in 1 .. n - 1 : t[j] = IF j < i THEN s[j] ELSE s[j + 1]
    <2>1. /\ t \in Seq(S) /\ Len(t) = n - 1
          /\ \A j \in 1 .. n - 1 : t[j] = IF j < i THEN s[j] ELSE s[j + 1]
      BY RemoveAtEntries
    <2>2. n \in Nat /\ DOMAIN s = 1 .. n /\ i \in Int
      OBVIOUS
    <2> HIDE DEF t
    <2>3. DOMAIN t = 1 .. n - 1
      BY <2>1
    <2> QED BY <2>1, <2>2, <2>3
  <1> HIDE DEF t, n
  <1> DEFINE was == [j \in 1 .. n - 1 |-> IF j < i THEN j ELSE j + 1]
  <1>2. \A j \in 1 .. n - 1 : was[j] = IF j < i THEN j ELSE j + 1
    OBVIOUS
  <1>3. was \in [1 .. n - 1 -> (1 .. n) \ {i}]
    BY <1>1
  <1> HIDE DEF was
  <1>4. \A j \in 1 .. n - 1 : t[j] = s[was[j]] /\ (j >= i <=> was[j] >= i)
    BY <1>1, <1>2
  <1>5. \A j, k \in 1 .. n - 1 : j < k <=> was[j] < was[k]
    BY <1>1, <1>2
  <1>6. ASSUME NEW k \in (1 .. n) \ {i} PROVE \E j \in 1 .. n - 1 : was[j] = k
    <2>1. CASE k < i
      <3>1. k \in 1 .. n - 1 /\ was[k] = k
        BY <1>1, <1>2, <2>1
      <3> QED BY <3>1
    <2>2. CASE k > i
      <3>1. k - 1 \in 1 .. n - 1 /\ ~(k - 1 < i) /\ (k - 1) + 1 = k
        BY <1>1, <2>2
      <3>2. was[k - 1] = k
        BY <1>2, <3>1
      <3> QED BY <3>1, <3>2
    <2> QED BY <1>1, <2>1, <2>2
  <1>7. /\ was \in [DOMAIN t -> DOMAIN s \ {i}]
        /\ \A j \in DOMAIN t : t[j] = s[was[j]] /\ (j >= i <=> was[j] >= i)
        /\ \A j, k \in DOMAIN t : j < k <=> was[j] < was[k]
        /\ \A k \in DOMAIN s \ {i} : \E j \in DOMAIN t : was[j] = k
    BY <1>1, <1>3, <1>4, <1>5, <1>6
  <1> QED BY <1>7, Zenon DEF t

(* A set of natural numbers has a least element.                           *)
LEMMA LeastNumber ==
    ASSUME NEW T, T \subseteq Nat, T # {}
    PROVE  \E n \in T : \A m \in T : n <= m
  <1> DEFINE Less == {e \in Nat \X Nat : e[1] < e[2]}
  <1>1. Less = OpToRel(<, Nat)
    BY Zenon DEF OpToRel
  <1>2. IsWellFoundedOn(Less, Nat)
    BY <1>1, NatLessThanWellFounded, Zenon
  <1>3. PICK n \in T : \A m \in T : <<m, n>> \notin Less
    <2> HIDE DEF Less
    <2> QED BY <1>2, WFMin
  <1>4. ASSUME NEW m \in T PROVE n <= m
    <2>1. n \in Nat /\ m \in Nat
      OBVIOUS
    <2>2. ~(m < n)
      <3>1. <<m, n>> \in Nat \X Nat /\ <<m, n>>[1] = m /\ <<m, n>>[2] = n
        BY <2>1
      <3> QED BY <3>1, <1>3
    <2> QED BY <2>1, <2>2
  <1> QED BY <1>4
================================================================================
