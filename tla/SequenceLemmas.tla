--------------------------- MODULE SequenceLemmas ---------------------------
(***************************************************************************)
(* What the proofs of several components need to know of sequences, of     *)
(* what is in them, and of the least of a set of numbers.                  *)
(***************************************************************************)
EXTENDS Integers, FiniteSets, SequencesExt,
        FunctionTheorems, FiniteSetTheorems, SequenceTheorems, WellFoundedInduction, TLAPS

\* A set of numbers that is not empty has a least one.
LEMMA LeastNumber ==
  ASSUME NEW S \in SUBSET Nat, S # {}
  PROVE  Min(S) \in S /\ \A n \in S : Min(S) <= n
<1> DEFINE less == {ss \in Nat \X Nat : ss[1] < ss[2]}
<1>1. IsWellFoundedOn(less, Nat)
  BY NatLessThanWellFounded DEF OpToRel
<1>2. PICK m \in S : \A n \in S : ~ (<<n, m>> \in less)
  <2> HIDE DEF less
  <2> QED BY <1>1, WFMin
<1>3. \A n \in S : m <= n
  <2> SUFFICES ASSUME NEW n \in S, n < m PROVE FALSE
    OBVIOUS
  <2>1. <<n, m>> \in Nat \X Nat
    OBVIOUS
  <2> QED BY <1>2, <2>1
<1> QED BY <1>3 DEF Min

\* Numbers up to a bound, if there are any, have a greatest.
LEMMA GreatestNumber ==
  ASSUME NEW n \in Nat, NEW S \in SUBSET (1 .. n), S # {}
  PROVE  \E m \in S : \A i \in S : i <= m
<1> DEFINE T == {n - i : i \in S}
<1>1. T \in SUBSET Nat /\ T # {}
  <2>1. \A i \in 1 .. n : n - i \in Nat
    OBVIOUS
  <2>2. \A i \in S : n - i \in Nat
    BY <2>1
  <2>3. PICK i \in S : TRUE
    OBVIOUS
  <2>4. n - i \in T
    BY <2>3
  <2> QED BY <2>2, <2>4
<1> HIDE DEF T
<1>2. Min(T) \in T /\ \A k \in T : Min(T) <= k
  BY <1>1, LeastNumber
<1>3. PICK m \in S : Min(T) = n - m
  BY <1>2 DEF T
<1>4. \A i \in S : n - i \in T
  BY DEF T
<1>5. \A i \in S : n - m <= n - i
  BY <1>2, <1>3, <1>4
<1>6. \A a, b \in 1 .. n : n - a <= n - b => b <= a
  OBVIOUS
<1> QED BY <1>5, <1>6

\* A sequence is one over what is in it.
LEMMA SeqOwn ==
  ASSUME NEW U, NEW s \in Seq(U)
  PROVE  s \in Seq(ToSet(s))
<1>1. Len(s) \in Nat /\ DOMAIN s = 1 .. Len(s) /\ s = [i \in 1 .. Len(s) |-> s[i]]
  OBVIOUS
<1>2. \A i \in 1 .. Len(s) : s[i] \in ToSet(s)
  BY <1>1 DEF ToSet
<1>3. s \in [1 .. Len(s) -> ToSet(s)]
  BY <1>1, <1>2
<1> QED BY <1>1, <1>3

\* What is left when the first element is taken.
LEMMA ToSetTail ==
  ASSUME NEW s, s \in Seq(ToSet(s)), s # <<>>
  PROVE  /\ ToSet(s) = {Head(s)} \cup ToSet(Tail(s))
         /\ Tail(s) \in Seq(ToSet(Tail(s)))
<1>1. /\ Len(s) \in Nat \ {0} /\ DOMAIN s = 1 .. Len(s)
      /\ Tail(s) \in Seq(ToSet(s)) /\ Len(Tail(s)) = Len(s) - 1
      /\ DOMAIN Tail(s) = 1 .. Len(s) - 1
      /\ \A i \in 1 .. Len(s) - 1 : Tail(s)[i] = s[i + 1]
  OBVIOUS
<1>2. \A i \in 1 .. Len(s) : i = 1 \/ i - 1 \in 1 .. Len(s) - 1
  BY <1>1
<1>3. ASSUME NEW x \in ToSet(s) PROVE x = Head(s) \/ x \in ToSet(Tail(s))
  <2>1. PICK i \in 1 .. Len(s) : x = s[i]
    BY <1>1, <1>3 DEF ToSet
  <2>2. CASE i = 1
    BY <2>1, <2>2
  <2>3. CASE i # 1
    <3>1. i - 1 \in 1 .. Len(s) - 1 /\ Tail(s)[i - 1] = x
      BY <1>1, <2>1, <2>3
    <3> QED BY <1>1, <3>1 DEF ToSet
  <2> QED BY <2>2, <2>3
<1>4. Head(s) \in ToSet(s)
  BY <1>1 DEF ToSet
<1>5. \A i \in 1 .. Len(s) - 1 : Tail(s)[i] \in ToSet(s)
  BY <1>1 DEF ToSet
<1>6. ToSet(Tail(s)) \subseteq ToSet(s)
  BY <1>1, <1>5 DEF ToSet
<1>7. Tail(s) \in Seq(ToSet(Tail(s)))
  BY <1>1, SeqOwn
<1> QED BY <1>3, <1>4, <1>6, <1>7

\* What is in two sequences put together.
LEMMA ToSetConcat ==
  ASSUME NEW s, s \in Seq(ToSet(s)), NEW t, t \in Seq(ToSet(t))
  PROVE  /\ ToSet(s \o t) = ToSet(s) \cup ToSet(t)
         /\ s \o t \in Seq(ToSet(s \o t))
<1> DEFINE U == ToSet(s) \cup ToSet(t)
<1>1. s \in Seq(U) /\ t \in Seq(U)
  OBVIOUS
<1> HIDE DEF U
<1>2. /\ Len(s) \in Nat /\ Len(t) \in Nat /\ DOMAIN s = 1 .. Len(s) /\ DOMAIN t = 1 .. Len(t)
      /\ s \o t \in Seq(U) /\ Len(s \o t) = Len(s) + Len(t)
      /\ DOMAIN (s \o t) = 1 .. Len(s) + Len(t)
      /\ \A i \in 1 .. Len(s) + Len(t) :
           (s \o t)[i] = IF i <= Len(s) THEN s[i] ELSE t[i - Len(s)]
  BY <1>1
<1>3. \A i \in 1 .. Len(s) : i \in 1 .. Len(s) + Len(t) /\ (s \o t)[i] = s[i]
  BY <1>2
<1>4. \A i \in 1 .. Len(t) : i + Len(s) \in 1 .. Len(s) + Len(t) /\ (s \o t)[i + Len(s)] = t[i]
  BY <1>2
<1>5. ToSet(s) \subseteq ToSet(s \o t)
  BY <1>2, <1>3 DEF ToSet
<1>6. ToSet(t) \subseteq ToSet(s \o t)
  BY <1>2, <1>4 DEF ToSet
<1>7. ToSet(s \o t) \subseteq U
  BY <1>2 DEF ToSet
<1>8. s \o t \in Seq(ToSet(s \o t))
  BY <1>2, SeqOwn
<1> QED BY <1>5, <1>6, <1>7, <1>8 DEF U

\* A finite set made a sequence is all in it.
LEMMA ToSetSetToSeq ==
  ASSUME NEW S, IsFiniteSet(S)
  PROVE  ToSet(SetToSeq(S)) = S /\ SetToSeq(S) \in Seq(S)
<1> DEFINE n == Cardinality(S)
           f == SetToSeq(S)
<1>1. n \in Nat /\ ExistsBijection(1 .. n, S)
  BY FS_CardinalityType
<1>2. PICK g : g \in Bijection(1 .. n, S)
  BY <1>1, Fun_ExistsBij
<1>3. g \in [1 .. n -> S] /\ \A a, b \in 1 .. n : g[a] = g[b] => a = b
  BY <1>2, Fun_BijectionProperties
<1>4. IsInjective(g)
  BY <1>3 DEF IsInjective
<1>5. f \in [1 .. n -> S] /\ IsInjective(f)
  BY <1>3, <1>4 DEF SetToSeq
<1> HIDE DEF f
<1>6. f \in Injection(1 .. n, S)
  BY <1>5 DEF Injection
<1>7. Cardinality(1 .. n) = Cardinality(S)
  BY <1>1, FS_Interval
<1>8. f \in Surjection(1 .. n, S)
  <2> HIDE DEF n
  <2> QED BY <1>6, <1>7, FS_Injection
<1>9. \A t \in S : \E i \in 1 .. n : f[i] = t
  BY <1>8 DEF Surjection
<1>10. ToSet(f) = S
  BY <1>5, <1>9 DEF ToSet
<1>11. f \in Seq(S)
  BY <1>1, <1>5
<1> QED BY <1>10, <1>11 DEF f

\* What a sequence holds once an element has been put behind the others.
LEMMA ToSetAppend ==
  ASSUME NEW s, s \in Seq(ToSet(s)), NEW e
  PROVE  /\ ToSet(Append(s, e)) = ToSet(s) \cup {e}
         /\ Append(s, e) \in Seq(ToSet(Append(s, e)))
<1> DEFINE U == ToSet(s) \cup {e}
<1>1. s \in Seq(U) /\ e \in U
  OBVIOUS
<1> HIDE DEF U
<1>2. /\ Len(s) \in Nat /\ DOMAIN s = 1 .. Len(s)
      /\ Append(s, e) \in Seq(U) /\ DOMAIN Append(s, e) = 1 .. Len(s) + 1
      /\ \A i \in 1 .. Len(s) : Append(s, e)[i] = s[i]
      /\ Append(s, e)[Len(s) + 1] = e
  BY <1>1
<1>3. ASSUME NEW x \in ToSet(s) PROVE x \in ToSet(Append(s, e))
  <2>1. PICK i \in 1 .. Len(s) : s[i] = x
    BY <1>2, <1>3 DEF ToSet
  <2> QED BY <1>2, <2>1 DEF ToSet
<1>4. ASSUME NEW x \in ToSet(Append(s, e)) PROVE x \in ToSet(s) \cup {e}
  <2>1. PICK i \in 1 .. Len(s) + 1 : Append(s, e)[i] = x
    BY <1>2, <1>4 DEF ToSet
  <2> QED BY <1>2, <2>1 DEF ToSet
<1>5. e \in ToSet(Append(s, e))
  <2>1. Len(s) + 1 \in 1 .. Len(s) + 1
    BY <1>2
  <2> QED BY <1>2, <2>1 DEF ToSet
<1>6. ToSet(Append(s, e)) = U
  BY <1>3, <1>4, <1>5 DEF U
<1> QED BY <1>2, <1>6 DEF U

-----------------------------------------------------------------------------
(***************************************************************************)
(* Prefixes, as paths of a tree have them.                                 *)
(***************************************************************************)

LEMMA SubSeqUpTo ==
  ASSUME NEW U, NEW s \in Seq(U), NEW k \in 0 .. Len(s)
  PROVE  /\ SubSeq(s, 1, k) \in Seq(U) /\ Len(SubSeq(s, 1, k)) = k
         /\ \A i \in 1 .. k : SubSeq(s, 1, k)[i] = s[i]
<1>1. Len(s) \in Nat /\ \A i \in 1 .. k : s[i] \in U
  OBVIOUS
<1> QED BY <1>1, SubSeqProperties

\* A prefix is the same sequence as far as it goes.
LEMMA PrefixMeans ==
  ASSUME NEW U, NEW p \in Seq(U), NEW s \in Seq(U)
  PROVE  IsPrefix(p, s) <=> Len(p) <= Len(s) /\ \A i \in 1 .. Len(p) : p[i] = s[i]
<1>1. Len(p) \in Nat /\ Len(s) \in Nat /\ SubSeq(p, 1, Len(p)) = p
  OBVIOUS
<1>2. CASE Len(p) <= Len(s)
  <2>1. /\ SubSeq(s, 1, Len(p)) \in Seq(U) /\ Len(SubSeq(s, 1, Len(p))) = Len(p)
        /\ \A i \in 1 .. Len(p) : SubSeq(s, 1, Len(p))[i] = s[i]
    BY <1>1, <1>2, SubSeqUpTo
  <2>2. p = SubSeq(s, 1, Len(p)) <=> \A i \in 1 .. Len(p) : p[i] = SubSeq(s, 1, Len(p))[i]
    BY <1>1, <2>1
  <2> QED BY <1>1, <1>2, <2>1, <2>2 DEF IsPrefix
<1>3. CASE ~(Len(p) <= Len(s))
  BY <1>3 DEF IsPrefix
<1> QED BY <1>2, <1>3

\* Prefixes of prefixes; and of two prefixes of one, one is of the other.
LEMMA PrefixOrder ==
  ASSUME NEW U, NEW p \in Seq(U), NEW q \in Seq(U), NEW s \in Seq(U)
  PROVE  /\ IsPrefix(p, p)
         /\ IsPrefix(p, q) /\ IsPrefix(q, s) => IsPrefix(p, s)
         /\ IsPrefix(p, q) /\ IsPrefix(q, p) => p = q
         /\ IsPrefix(p, s) /\ IsPrefix(q, s) => IsPrefix(p, q) \/ IsPrefix(q, p)
         /\ IsPrefix(p, q) /\ p # q => Len(p) < Len(q)
<1>1. Len(p) \in Nat /\ Len(q) \in Nat /\ Len(s) \in Nat /\ <<>> \in Seq(U)
  OBVIOUS
<1>2. \A a, b \in Seq(U) :
         IsPrefix(a, b) <=> Len(a) <= Len(b) /\ \A i \in 1 .. Len(a) : a[i] = b[i]
  BY PrefixMeans
<1>3. IsPrefix(p, p)
  BY <1>1, <1>2
<1>4. ASSUME IsPrefix(p, q), IsPrefix(q, s)
      PROVE  IsPrefix(p, s)
  BY <1>1, <1>2, <1>4
<1>5. ASSUME IsPrefix(p, q), Len(p) = Len(q)
      PROVE  p = q
  <2>1. \A i \in 1 .. Len(p) : p[i] = q[i]
    BY <1>2, <1>5
  <2> QED BY <1>1, <1>5, <2>1
<1>6. IsPrefix(p, q) /\ IsPrefix(q, p) => p = q
  BY <1>1, <1>2, <1>5
<1>7. ASSUME IsPrefix(p, s), IsPrefix(q, s)
      PROVE  IsPrefix(p, q) \/ IsPrefix(q, p)
  <2>1. /\ \A i \in 1 .. Len(p) : p[i] = s[i]
        /\ \A i \in 1 .. Len(q) : q[i] = s[i]
    BY <1>2, <1>7
  <2>2. CASE Len(p) <= Len(q)
    BY <1>1, <1>2, <2>1, <2>2
  <2>3. CASE Len(q) <= Len(p)
    BY <1>1, <1>2, <2>1, <2>3
  <2> QED BY <1>1, <2>2, <2>3
<1>8. IsPrefix(p, q) /\ p # q => Len(p) < Len(q)
  BY <1>1, <1>2, <1>5
<1> QED BY <1>3, <1>4, <1>6, <1>7, <1>8

\* What is left of a sequence behind its first k elements.
LEMMA RestOf ==
  ASSUME NEW U, NEW s \in Seq(U), NEW k \in Nat, k <= Len(s)
  PROVE  /\ SubSeq(s, k + 1, Len(s)) \in Seq(U)
         /\ Len(SubSeq(s, k + 1, Len(s))) = Len(s) - k
         /\ \A i \in 1 .. Len(s) - k : SubSeq(s, k + 1, Len(s))[i] = s[k + i]
OBVIOUS

\* The rest of s behind p, put behind q instead; and back again.
Behind(p, q, s) == q \o SubSeq(s, Len(p) + 1, Len(s))

LEMMA MovedBehind ==
  ASSUME NEW U, NEW p \in Seq(U), NEW q \in Seq(U), NEW s \in Seq(U), IsPrefix(p, s)
  PROVE  /\ Behind(p, q, s) \in Seq(U) /\ IsPrefix(q, Behind(p, q, s))
         /\ Len(Behind(p, q, s)) = Len(q) + Len(s) - Len(p)
         /\ \A i \in 1 .. Len(s) - Len(p) : Behind(p, q, s)[Len(q) + i] = s[Len(p) + i]
         /\ Behind(q, p, Behind(p, q, s)) = s
<1> DEFINE m == Behind(p, q, s)
<1>1. /\ Len(p) \in Nat /\ Len(q) \in Nat /\ Len(s) \in Nat /\ Len(p) <= Len(s)
      /\ \A i \in 1 .. Len(p) : p[i] = s[i]
  BY PrefixMeans
<1>0. m = q \o SubSeq(s, Len(p) + 1, Len(s))
  BY DEF Behind
<1> HIDE DEF m
<1> DEFINE r == SubSeq(s, Len(p) + 1, Len(s))
<1>2. /\ r \in Seq(U) /\ Len(r) = Len(s) - Len(p)
      /\ \A i \in 1 .. Len(s) - Len(p) : r[i] = s[Len(p) + i]
  BY <1>1, RestOf
<1>3. /\ m \in Seq(U) /\ Len(m) = Len(q) + (Len(s) - Len(p))
      /\ \A i \in 1 .. Len(q) : m[i] = q[i]
      /\ \A i \in 1 .. Len(s) - Len(p) : m[Len(q) + i] = r[i]
  <2>1. m = q \o r
    BY <1>0
  <2> HIDE DEF r
  <2>2. /\ q \o r \in Seq(U) /\ Len(q \o r) = Len(q) + Len(r)
        /\ \A i \in 1 .. Len(q) + Len(r) :
             (q \o r)[i] = IF i <= Len(q) THEN q[i] ELSE r[i - Len(q)]
    BY <1>1, <1>2, ConcatProperties
  <2>3. \A i \in 1 .. Len(q) : (q \o r)[i] = q[i]
    BY <1>1, <1>2, <2>2
  <2>4. ASSUME NEW i \in 1 .. Len(s) - Len(p)
        PROVE  (q \o r)[Len(q) + i] = r[i]
    <3>1. Len(q) + i \in 1 .. Len(q) + Len(r) /\ ~(Len(q) + i <= Len(q))
          /\ Len(q) + i - Len(q) = i
      BY <1>1, <1>2
    <3> QED BY <2>2, <3>1
  <2> QED BY <1>1, <1>2, <2>1, <2>2, <2>3, <2>4
<1>4. IsPrefix(q, m)
  <2> HIDE DEF r
  <2>1. Len(q) <= Len(m)
    BY <1>1, <1>3
  <2> QED BY <1>3, <2>1, PrefixMeans
<1> DEFINE t == SubSeq(m, Len(q) + 1, Len(m))
<1>5. /\ t \in Seq(U) /\ Len(t) = Len(s) - Len(p)
      /\ \A i \in 1 .. Len(s) - Len(p) : t[i] = m[Len(q) + i]
  <2> HIDE DEF r, t
  <2>1. /\ Len(m) - Len(q) = Len(s) - Len(p) /\ m \in Seq(U)
        /\ Len(q) \in Nat /\ Len(q) <= Len(m)
    BY <1>1, <1>3
  <2> USE DEF t
  <2>2. t \in Seq(U) /\ Len(t) = Len(m) - Len(q)
        /\ \A i \in 1 .. Len(m) - Len(q) : t[i] = m[Len(q) + i]
    BY <2>1, RestOf
  <2> HIDE DEF t
  <2> QED BY <2>1, <2>2
<1>6. p \o t = s
  <2> HIDE DEF t, r
  <2>1. /\ p \o t \in Seq(U) /\ Len(p \o t) = Len(s)
        /\ \A i \in 1 .. Len(s) : (p \o t)[i] = IF i <= Len(p) THEN p[i] ELSE t[i - Len(p)]
    BY <1>1, <1>5, ConcatProperties
  <2>2. ASSUME NEW i \in 1 .. Len(s)
        PROVE  (p \o t)[i] = s[i]
    <3>1. CASE i <= Len(p)
      BY <1>1, <2>1, <3>1
    <3>2. CASE ~(i <= Len(p))
      <4>1. i - Len(p) \in 1 .. Len(s) - Len(p) /\ Len(p) + (i - Len(p)) = i
        BY <1>1, <3>2
      <4>2. t[i - Len(p)] = s[i]
        BY <4>1, <1>2, <1>3, <1>5
      <4> QED BY <2>1, <3>2, <4>2
    <3> QED BY <3>1, <3>2
  <2> QED BY <2>1, <2>2, SeqEqual
<1>7. \A i \in 1 .. Len(s) - Len(p) : m[Len(q) + i] = s[Len(p) + i]
  BY <1>2, <1>3
<1>8. Behind(q, p, m) = s
  BY <1>6 DEF Behind
<1> QED BY <1>1, <1>3, <1>4, <1>7, <1>8 DEF m
==============================================================================
