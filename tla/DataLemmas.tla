----------------------------- MODULE DataLemmas -----------------------------
(***************************************************************************)
(* Least and greatest numbers, and induction, over numbers and sequences,  *)
(* stated of sets; the ends of sequences; sequences made of sets and of    *)
(* sequences, member by member.                                            *)
(***************************************************************************)
EXTENDS Integers, SequencesExt, FiniteSetTheorems, SequenceTheorems, WellFoundedInduction, TLAPS

(* The intervals 1 .. n of the numbers n in S are finite sets, so one of   *)
(* them has no other inside it.                                            *)
LEMMA Least ==
  ASSUME NEW S \in SUBSET Nat, S # {}
  PROVE  \E m \in S : \A n \in S : m <= n
<1> DEFINE Below == {1 .. n : n \in S}
           R     == StrictSubsetOrdering(Nat)
           F     == FiniteSubsetsOf(Nat)
<1>1. IsWellFoundedOn(R, F)
  BY FS_StrictSubsetOrderingWellFounded
<1>2. Below \subseteq F /\ Below # {}
  <2>1. ASSUME NEW n \in S PROVE 1 .. n \in F
    <3>1. n \in Int /\ 1 \in Int /\ 1 .. n \in SUBSET Nat
      OBVIOUS
    <3>2. IsFiniteSet(1 .. n)
      BY <3>1, FS_Interval
    <3> QED
      BY <3>1, <3>2 DEF FiniteSubsetsOf
  <2> HIDE DEF F
  <2> QED
    BY <2>1
<1>3. \E T \in Below : \A U \in Below : <<U, T>> \notin R
  <2> HIDE DEF Below, R, F
  <2> QED
    BY <1>1, <1>2, WFMin
<1>4. PICK m \in S : \A n \in S : <<1 .. n, 1 .. m>> \notin R
  BY <1>3
<1>5. ASSUME NEW n \in S, n < m PROVE FALSE
  <2>1. m \in 1 .. m /\ m \notin 1 .. n /\ 1 .. n \subseteq 1 .. m
    BY <1>5
  <2>2. <<1 .. n, 1 .. m>> \in R
    <3> DEFINE A == 1 .. n
               B == 1 .. m
    <3>1. A \in SUBSET Nat /\ B \in SUBSET Nat /\ A \subseteq B /\ A # B
      BY <2>1
    <3> HIDE DEF A, B
    <3>2. <<A, B>> \in StrictSubsetOrdering(Nat)
      BY <3>1 DEF StrictSubsetOrdering
    <3> QED
      BY <3>2 DEF A, B
  <2> QED
    BY <1>4, <2>2
<1> QED
  BY <1>4, <1>5

LEMMA MinIs ==
  ASSUME NEW S \in SUBSET Nat, S # {}
  PROVE  Min(S) \in S /\ \A n \in S : Min(S) <= n
BY Least DEF Min

LEMMA MaxIs ==
  ASSUME NEW k \in Nat, NEW S \in SUBSET (1 .. k), S # {}
  PROVE  Max(S) \in S /\ \A n \in S : n <= Max(S)
<1> DEFINE T == {k - n : n \in S}
<1>1. T \in SUBSET Nat /\ T # {}
  <2>1. \A n \in S : n \in 1 .. k
    OBVIOUS
  <2>2. \A n \in S : k - n \in Nat
    BY <2>1
  <2> QED
    BY <2>2
<1>2. PICK m \in T : \A n \in T : m <= n
  BY <1>1, Least
<1>3. PICK x \in S : m = k - x
  OBVIOUS
<1>4. ASSUME NEW n \in S PROVE n <= x
  <2>1. k - n \in T
    OBVIOUS
  <2>2. m <= k - n
    BY <1>2, <2>1
  <2> QED
    BY <1>3, <2>2
<1> QED
  BY <1>4 DEF Max

(* The least number that is not in S would have a predecessor that is.     *)
LEMMA Induction ==
  ASSUME NEW S, 0 \in S, \A n \in Nat : n \in S => n + 1 \in S
  PROVE  Nat \subseteq S
<1> SUFFICES ASSUME Nat \ S # {} PROVE FALSE
  OBVIOUS
<1>1. PICK m \in Nat \ S : \A n \in Nat \ S : m <= n
  BY Least
<1>2. m - 1 \in Nat /\ m - 1 \notin Nat \ S
  BY <1>1
<1> QED
  BY <1>2

-----------------------------------------------------------------------------
(* Sequences.                                                              *)

(* What is left of a sequence after its first k members.                   *)
LEMMA RestIs ==
  ASSUME NEW T, NEW s \in Seq(T), NEW k \in 0 .. Len(s)
  PROVE  /\ SubSeq(s, k + 1, Len(s)) \in Seq(T) /\ Len(SubSeq(s, k + 1, Len(s))) = Len(s) - k
         /\ \A i \in 1 .. Len(s) - k : SubSeq(s, k + 1, Len(s))[i] = s[k + i]
<1>1. Len(s) \in Nat /\ k \in Nat /\ k + 1 \in Int /\ Len(s) \in Int
  BY LenProperties
<1>2. \A i \in k + 1 .. Len(s) : s[i] \in T
  BY <1>1, ElementOfSeq
<1>3. /\ SubSeq(s, k + 1, Len(s)) \in Seq(T)
      /\ Len(SubSeq(s, k + 1, Len(s))) = IF k + 1 <= Len(s) THEN Len(s) - (k + 1) + 1 ELSE 0
      /\ \A i \in 1 .. Len(s) - (k + 1) + 1 : SubSeq(s, k + 1, Len(s))[i] = s[k + 1 + i - 1]
  BY <1>1, <1>2, SubSeqProperties
<1> DEFINE r == SubSeq(s, k + 1, Len(s))
<1> HIDE DEF r
<1>4. Len(r) = Len(s) - k
  BY <1>1, <1>3 DEF r
<1>5. ASSUME NEW i \in 1 .. Len(s) - k PROVE r[i] = s[k + i]
  <2>1. i \in 1 .. Len(s) - (k + 1) + 1 /\ k + 1 + i - 1 = k + i
    BY <1>1
  <2> QED
    BY <1>3, <2>1 DEF r
<1> QED
  BY <1>3, <1>4, <1>5 DEF r

(* What is left after k and then b members is left after k + b.            *)
LEMMA RestOfRest ==
  ASSUME NEW T, NEW s \in Seq(T), NEW k \in 0 .. Len(s), NEW b \in 0 .. Len(s) - k
  PROVE  SubSeq(SubSeq(s, k + 1, Len(s)), b + 1, Len(s) - k) = SubSeq(s, k + b + 1, Len(s))
<1> DEFINE r == SubSeq(s, k + 1, Len(s))
           u == SubSeq(r, b + 1, Len(r))
           v == SubSeq(s, k + b + 1, Len(s))
<1>1. Len(s) \in Nat /\ k \in Nat /\ b \in Nat /\ k + b \in 0 .. Len(s)
  BY LenProperties
<1>2. r \in Seq(T) /\ Len(r) = Len(s) - k /\ \A i \in 1 .. Len(s) - k : r[i] = s[k + i]
  BY RestIs
<1>3. v \in Seq(T) /\ Len(v) = Len(s) - (k + b) /\ \A i \in 1 .. Len(s) - (k + b) : v[i] = s[(k + b) + i]
  BY <1>1, RestIs
<1> HIDE DEF r, v
<1>4. u \in Seq(T) /\ Len(u) = Len(r) - b /\ \A i \in 1 .. Len(r) - b : u[i] = r[b + i]
  BY <1>1, <1>2, RestIs
<1> HIDE DEF u
<1>5. Len(u) = Len(v)
  BY <1>1, <1>2, <1>3, <1>4
<1>6. ASSUME NEW i \in 1 .. Len(u) PROVE u[i] = v[i]
  <2>1. /\ i \in 1 .. Len(r) - b /\ b + i \in 1 .. Len(s) - k /\ i \in 1 .. Len(s) - (k + b)
        /\ k + (b + i) = (k + b) + i
    BY <1>1, <1>2, <1>4
  <2> QED
    BY <1>2, <1>3, <1>4, <2>1
<1>7. u = v
  BY <1>3, <1>4, <1>5, <1>6, SeqEqual
<1> QED
  BY <1>2, <1>7 DEF r, u, v

(* A sequence of a few members, and one with one more in front.            *)
LEMMA SeqOfThree ==
  ASSUME NEW S, NEW x \in S, NEW y \in S, NEW z \in S
  PROVE  <<x, y>> \in Seq(S) /\ <<x, y, z>> \in Seq(S)
OBVIOUS

LEMMA OneMore ==
  ASSUME NEW T, NEW x \in T, NEW s \in Seq(T)
  PROVE  /\ <<x>> \o s \in Seq(T) /\ Len(<<x>> \o s) = 1 + Len(s)
         /\ (<<x>> \o s)[1] = x
         /\ \A j \in 1 .. Len(s) : (<<x>> \o s)[1 + j] = s[j]
<1>1. <<x>> \in Seq(T) /\ Len(<<x>>) = 1 /\ <<x>>[1] = x /\ Len(s) \in Nat
  BY LenProperties
<1>2. /\ <<x>> \o s \in Seq(T) /\ Len(<<x>> \o s) = 1 + Len(s)
      /\ \A i \in 1 .. 1 + Len(s) : (<<x>> \o s)[i] = IF i <= 1 THEN <<x>>[i] ELSE s[i - 1]
  BY <1>1, ConcatProperties
<1>3. 1 \in 1 .. 1 + Len(s) /\ \A j \in 1 .. Len(s) : 1 + j \in 1 .. 1 + Len(s) /\ ~(1 + j <= 1) /\ (1 + j) - 1 = j
  BY <1>1
<1> QED
  BY <1>1, <1>2, <1>3

(* A sequence whose members are the first of another is a prefix of it.    *)
LEMMA PrefixIs ==
  ASSUME NEW T, NEW s \in Seq(T), NEW U, NEW t \in Seq(U), Len(s) <= Len(t),
         \A i \in 1 .. Len(s) : s[i] = t[i]
  PROVE  IsPrefix(s, t)
<1>1. Len(s) \in Nat /\ Len(t) \in Nat
  BY LenProperties
<1>2. s \in Seq(U)
  <2>1. \A i \in 1 .. Len(s) : s[i] \in U
    BY <1>1, ElementOfSeq
  <2>2. s \in [1 .. Len(s) -> U]
    BY <2>1, LenProperties
  <2> QED
    BY <1>1, <2>2
<1>3. \A i \in 1 .. Len(s) : s[i] \in U /\ t[i] \in U
  BY <1>1, <1>2, ElementOfSeq
<1>4. SubSeq(s, 1, Len(s)) = s
  BY <1>2, SubSeqFull
<1>5. /\ SubSeq(t, 1, Len(s)) \in Seq(U)
      /\ Len(SubSeq(t, 1, Len(s))) = IF 1 <= Len(s) THEN Len(s) - 1 + 1 ELSE 0
      /\ \A i \in 1 .. Len(s) - 1 + 1 : SubSeq(t, 1, Len(s))[i] = t[1 + i - 1]
  BY <1>1, <1>3, SubSeqProperties
<1>6. Len(SubSeq(t, 1, Len(s))) = Len(s)
  BY <1>1, <1>5
<1>7. ASSUME NEW i \in 1 .. Len(s) PROVE SubSeq(t, 1, Len(s))[i] = s[i]
  <2>1. i \in 1 .. Len(s) - 1 + 1 /\ 1 + i - 1 = i
    BY <1>1
  <2> QED
    BY <1>5, <2>1
<1>8. SubSeq(t, 1, Len(s)) = s
  BY <1>2, <1>5, <1>6, <1>7, SeqEqual
<1> QED
  BY <1>4, <1>8 DEF IsPrefix

(* What is left of a sequence is an end of it.                             *)
LEMMA RestIsSuffix ==
  ASSUME NEW T, NEW s \in Seq(T), NEW k \in 0 .. Len(s)
  PROVE  IsSuffix(SubSeq(s, k + 1, Len(s)), s)
<1>1. PICK n \in Nat : n = Len(s)
  BY LenProperties
<1> DEFINE r == SubSeq(s, k + 1, Len(s))
           a == Reverse(r)
           b == Reverse(s)
<1>2. r \in Seq(T) /\ Len(r) = n - k /\ \A i \in 1 .. n - k : r[i] = s[k + i]
  BY <1>1, RestIs
<1> HIDE DEF r
<1>3. a \in Seq(T) /\ Len(a) = n - k /\ \A i \in 1 .. n - k : a[i] = r[(n - k - i) + 1]
  <2>1. n - k \in Nat /\ \A i \in 1 .. n - k : (n - k - i) + 1 \in 1 .. n - k
    BY <1>1
  <2>2. \A i \in 1 .. n - k : r[(n - k - i) + 1] \in T
    BY <1>2, <2>1, ElementOfSeq
  <2>3. a = [i \in 1 .. n - k |-> r[(n - k - i) + 1]]
    BY <1>2 DEF Reverse
  <2>4. a \in [1 .. n - k -> T]
    BY <2>2, <2>3
  <2> QED
    BY <2>1, <2>3, <2>4
<1>4. b \in Seq(T) /\ Len(b) = n /\ \A i \in 1 .. n : b[i] = s[(n - i) + 1]
  <2>1. \A i \in 1 .. n : (n - i) + 1 \in 1 .. n
    OBVIOUS
  <2>2. \A i \in 1 .. n : s[(n - i) + 1] \in T
    BY <1>1, <2>1, ElementOfSeq
  <2>3. b = [i \in 1 .. n |-> s[(n - i) + 1]]
    BY <1>1 DEF Reverse
  <2>4. b \in [1 .. n -> T]
    BY <2>2, <2>3
  <2> QED
    BY <2>3, <2>4
<1> HIDE DEF a, b
<1>5. ASSUME NEW i \in 1 .. n - k PROVE a[i] = b[i]
  <2>1. (n - k - i) + 1 \in 1 .. n - k /\ k + ((n - k - i) + 1) = (n - i) + 1 /\ i \in 1 .. n
    BY <1>1
  <2> QED
    BY <1>2, <1>3, <1>4, <2>1
<1>6. Len(a) <= Len(b)
  BY <1>1, <1>3, <1>4
<1>7. IsPrefix(a, b)
  BY <1>3, <1>4, <1>5, <1>6, PrefixIs
<1> QED
  BY <1>7 DEF IsSuffix, a, b, r

(* SetToSeq lists each member of a finite set once.                        *)
LEMMA SetIsListed ==
  ASSUME NEW S, IsFiniteSet(S)
  PROVE  /\ SetToSeq(S) \in Seq(S) /\ Len(SetToSeq(S)) = Cardinality(S)
         /\ \A i, j \in DOMAIN SetToSeq(S) : SetToSeq(S)[i] = SetToSeq(S)[j] => i = j
         /\ ToSet(SetToSeq(S)) = S
<1> DEFINE n == Cardinality(S)
<1>1. n \in Nat /\ ExistsBijection(1 .. n, S)
  BY FS_CardinalityType
<1>2. PICK f : f \in Injection(1 .. n, S)
  BY <1>1 DEF ExistsBijection, Bijection
<1>3. \E g \in [1 .. n -> S] : IsInjective(g)
  BY <1>2 DEF Injection
<1>4. SetToSeq(S) \in [1 .. n -> S] /\ IsInjective(SetToSeq(S))
  BY <1>3 DEF SetToSeq
<1> DEFINE s == SetToSeq(S)
<1> HIDE DEF s
<1>5. s \in Injection(1 .. n, S)
  BY <1>4 DEF Injection, s
<1>6. Cardinality(1 .. n) = n
  <2>1. n \in Int /\ 1 \in Int
    BY <1>1
  <2>2. Cardinality(1 .. n) = IF 1 > n THEN 0 ELSE n - 1 + 1
    BY <2>1, FS_Interval
  <2> QED
    BY <1>1, <2>2
<1>7. s \in Surjection(1 .. n, S)
  BY <1>5, <1>6, FS_Injection
<1>8. s \in Seq(S) /\ Len(s) = n /\ DOMAIN s = 1 .. n
  BY <1>1, <1>4 DEF s
<1>9. ToSet(s) = S
  BY <1>4, <1>7, <1>8 DEF ToSet, Surjection, s
<1> QED
  BY <1>4, <1>8, <1>9 DEF s, IsInjective

(* A set that has the empty sequence, and with every sequence the longer   *)
(* ones, has them all.                                                     *)
LEMMA SeqInduction ==
  ASSUME NEW T, NEW S, <<>> \in S, \A s \in Seq(T), x \in T : s \in S => Append(s, x) \in S
  PROVE  Seq(T) \subseteq S
<1> DEFINE N == {n \in Nat : \A s \in Seq(T) : Len(s) = n => s \in S}
<1>1. 0 \in N
  BY EmptySeq, LenProperties
<1>2. ASSUME NEW n \in Nat, n \in N PROVE n + 1 \in N
  <2> SUFFICES ASSUME NEW s \in Seq(T), Len(s) = n + 1 PROVE s \in S
    OBVIOUS
  <2>1. s # <<>>
    <3>1. Len(<<>>) = 0 /\ n + 1 # 0
      OBVIOUS
    <3> QED
      BY <3>1
  <2>2. PICK r \in Seq(T), x \in T : s = Append(r, x)
    BY <2>1, SequenceEmptyOrAppend
  <2>3. Len(r) = n
    <3>1. Len(r) \in Nat /\ Len(s) = Len(r) + 1
      BY <2>2, LenProperties, AppendProperties
    <3> QED
      BY <3>1
  <2> QED
    BY <1>2, <2>2, <2>3
<1>3. Nat \subseteq N
  <2> HIDE DEF N
  <2> QED
    BY <1>1, <1>2, Induction
<1> QED
  BY <1>3, LenProperties

LEMMA AppendToLast ==
  ASSUME NEW T, NEW s \in Seq(T), NEW t \in Seq(T), NEW x \in T
  PROVE  s \o Append(t, x) = Append(s \o t, x)
<1>1. <<x>> \in Seq(T) /\ s \o t \in Seq(T)
  BY ConcatProperties
<1>2. Append(t, x) = t \o <<x>> /\ Append(s \o t, x) = (s \o t) \o <<x>>
  BY <1>1, AppendIsConcat
<1>3. (s \o t) \o <<x>> = s \o (t \o <<x>>)
  BY <1>1, ConcatAssociative
<1> QED
  BY <1>2, <1>3

(* How FlattenSeq concatenates, from the left.                             *)
Unrolls(f, ss) == f = [i \in 1 .. Len(ss) |-> IF i = 1 THEN ss[i] ELSE f[i - 1] \o ss[i]]

LEMMA UnrollsSomehow ==
  ASSUME NEW T, NEW ss \in Seq(Seq(T))
  PROVE  \E f \in [1 .. Len(ss) -> Seq(T)] : Unrolls(f, ss)
<1> DEFINE S == {tt \in Seq(Seq(T)) : \E f \in [1 .. Len(tt) -> Seq(T)] : Unrolls(f, tt)}
<1>1. <<>> \in S
  <2>1. [i \in {} |-> <<>>] \in [1 .. Len(<<>>) -> Seq(T)] /\ Unrolls([i \in {} |-> <<>>], <<>>)
    BY DEF Unrolls
  <2> QED
    BY <2>1, EmptySeq
<1>2. ASSUME NEW tt \in Seq(Seq(T)), NEW s \in Seq(T), tt \in S PROVE Append(tt, s) \in S
  <2>1. PICK g \in [1 .. Len(tt) -> Seq(T)] : Unrolls(g, tt)
    BY <1>2
  <2> DEFINE n == Len(tt)
             a == Append(tt, s)
             f == [i \in 1 .. n + 1 |->
                     IF i <= n THEN g[i] ELSE IF n = 0 THEN s ELSE g[n] \o s]
  <2>2. /\ n \in Nat /\ a \in Seq(Seq(T)) /\ Len(a) = n + 1
        /\ \A i \in 1 .. n : a[i] = tt[i] /\ a[n + 1] = s
        /\ a[n + 1] = s
    BY LenProperties, AppendProperties
  <2> HIDE DEF n, a
  <2>3. \A i \in 1 .. n + 1 : f[i] \in Seq(T)
    <3>1. n # 0 => g[n] \o s \in Seq(T)
      <4>1. n # 0 => g[n] \in Seq(T)
        <5>1. g \in [1 .. n -> Seq(T)]
          BY DEF n
        <5>2. n # 0 => n \in 1 .. n
          BY <2>2
        <5> QED
          BY <5>1, <5>2
      <4> QED
        BY <4>1, ConcatProperties
    <3>2. \A i \in 1 .. n : g[i] \in Seq(T)
      BY DEF n
    <3> QED
      BY <2>2, <3>1, <3>2
  <2>4. ASSUME NEW i \in 1 .. n + 1 PROVE f[i] = IF i = 1 THEN a[i] ELSE f[i - 1] \o a[i]
    <3>1. CASE i <= n
      <4>1. i \in 1 .. n /\ (i # 1 => i - 1 \in 1 .. n)
        BY <2>2, <3>1
      <4>2. g[i] = IF i = 1 THEN tt[i] ELSE g[i - 1] \o tt[i]
        BY <2>1, <4>1 DEF Unrolls, n
      <4>3. f[i] = g[i] /\ a[i] = tt[i] /\ (i # 1 => f[i - 1] = g[i - 1])
        BY <2>2, <4>1
      <4> HIDE DEF f
      <4> QED
        BY <4>2, <4>3
    <3>2. CASE i = n + 1 /\ n = 0
      <4>1. f[i] = s /\ a[i] = s /\ i = 1
        BY <2>2, <3>2
      <4> QED
        BY <4>1
    <3>3. CASE i = n + 1 /\ n # 0
      <4>1. f[i] = g[n] \o s /\ a[i] = s /\ i # 1 /\ i - 1 = n /\ f[n] = g[n]
        BY <2>2, <3>3
      <4> HIDE DEF f
      <4> QED
        BY <4>1
    <3> QED
      BY <2>2, <3>1, <3>2, <3>3
  <2>5. f \in [1 .. n + 1 -> Seq(T)]
    BY <2>3
  <2>6. Unrolls(f, a)
    <3>1. f = [i \in 1 .. n + 1 |-> f[i]]
      OBVIOUS
    <3> HIDE DEF f
    <3> QED
      BY <2>2, <2>4, <3>1 DEF Unrolls
  <2> HIDE DEF f
  <2> QED
    BY <2>2, <2>5, <2>6 DEF a
<1>3. Seq(Seq(T)) \subseteq S
  <2> HIDE DEF S
  <2> QED
    BY <1>1, <1>2, SeqInduction
<1> QED
  BY <1>3

LEMMA FlattenIs ==
  ASSUME NEW T, NEW ss \in Seq(Seq(T)), ss # <<>>
  PROVE  \E f : Unrolls(f, ss) /\ FlattenSeq(ss) = f[Len(ss)]
<1>1. \E f : Unrolls(f, ss)
  BY UnrollsSomehow
<1>2. Len(ss) # 0
  BY EmptySeq
<1> DEFINE u == CHOOSE f : f = [i \in 1 .. Len(ss) |-> IF i = 1 THEN ss[i] ELSE f[i - 1] \o ss[i]]
<1>3. FlattenSeq(ss) = u[Len(ss)]
  BY <1>2 DEF FlattenSeq
<1>4. Unrolls(u, ss)
  BY <1>1 DEF Unrolls
<1> QED
  BY <1>3, <1>4

(* The longer sequence is flattened as the shorter one, and then further.  *)
LEMMA FlattenAppend ==
  ASSUME NEW T, NEW ss \in Seq(Seq(T)), NEW s \in Seq(T)
  PROVE  FlattenSeq(Append(ss, s)) = FlattenSeq(ss) \o s
<1> DEFINE a == Append(ss, s)
           n == Len(ss)
<1>1. /\ n \in Nat /\ a \in Seq(Seq(T)) /\ a # <<>> /\ Len(a) = n + 1
      /\ \A i \in 1 .. n : a[i] = ss[i]
      /\ a[n + 1] = s
  BY LenProperties, AppendProperties
<1> HIDE DEF a, n
<1>2. PICK f : Unrolls(f, a) /\ FlattenSeq(a) = f[n + 1]
  BY <1>1, FlattenIs
<1>3. \A i \in 1 .. n + 1 : f[i] = IF i = 1 THEN a[i] ELSE f[i - 1] \o a[i]
  BY <1>1, <1>2 DEF Unrolls
<1>4. CASE ss = <<>>
  <2>1. n = 0 /\ FlattenSeq(ss) = <<>>
    BY <1>4, EmptySeq DEF n, FlattenSeq
  <2>2. f[1] = a[1] /\ a[1] = s
    BY <1>1, <1>3, <2>1
  <2> QED
    BY <1>2, <2>1, <2>2, ConcatEmptySeq DEF a
<1>5. CASE ss # <<>>
  <2>1. PICK g : Unrolls(g, ss) /\ FlattenSeq(ss) = g[n]
    BY <1>5, FlattenIs DEF n
  <2>2. \A i \in 1 .. n : g[i] = IF i = 1 THEN ss[i] ELSE g[i - 1] \o ss[i]
    BY <2>1 DEF Unrolls, n
  <2>3. n # 0
    BY <1>5, EmptySeq DEF n
  <2> DEFINE N == {k \in Nat : k \in 1 .. n => f[k] = g[k]}
  <2>4. 0 \in N
    OBVIOUS
  <2>5. ASSUME NEW k \in Nat, k \in N PROVE k + 1 \in N
    <3> SUFFICES ASSUME k + 1 \in 1 .. n PROVE f[k + 1] = g[k + 1]
      OBVIOUS
    <3>1. k + 1 \in 1 .. n + 1 /\ (k + 1) - 1 = k /\ (k + 1 # 1 => k \in 1 .. n)
      BY <1>1
    <3>2. k + 1 # 1 => f[k] = g[k]
      BY <2>5, <3>1
    <3>3. f[k + 1] = IF k + 1 = 1 THEN a[k + 1] ELSE f[k] \o a[k + 1]
      BY <1>3, <3>1
    <3>4. g[k + 1] = IF k + 1 = 1 THEN ss[k + 1] ELSE g[k] \o ss[k + 1]
      BY <2>2, <3>1
    <3>5. a[k + 1] = ss[k + 1]
      BY <1>1
    <3> QED
      BY <3>2, <3>3, <3>4, <3>5
  <2>6. Nat \subseteq N
    <3> HIDE DEF N
    <3> QED
      BY <2>4, <2>5, Induction
  <2>7. n \in 1 .. n /\ n + 1 \in 1 .. n + 1 /\ n + 1 # 1 /\ (n + 1) - 1 = n
    BY <1>1, <2>3
  <2>8. f[n] = g[n]
    BY <1>1, <2>6, <2>7
  <2>9. f[n + 1] = f[n] \o a[n + 1]
    BY <1>3, <2>7
  <2> QED
    BY <1>1, <1>2, <2>1, <2>8, <2>9 DEF a
<1> QED
  BY <1>4, <1>5

LEMMA FlattenType ==
  ASSUME NEW T, NEW ss \in Seq(Seq(T))
  PROVE  FlattenSeq(ss) \in Seq(T)
<1> DEFINE S == {tt \in Seq(Seq(T)) : FlattenSeq(tt) \in Seq(T)}
<1>1. <<>> \in S
  <2>1. FlattenSeq(<<>>) = <<>>
    BY DEF FlattenSeq
  <2> QED
    BY <2>1, EmptySeq
<1>2. ASSUME NEW tt \in Seq(Seq(T)), NEW s \in Seq(T), tt \in S PROVE Append(tt, s) \in S
  <2>1. FlattenSeq(Append(tt, s)) = FlattenSeq(tt) \o s /\ Append(tt, s) \in Seq(Seq(T))
    BY FlattenAppend, AppendProperties
  <2> QED
    BY <1>2, <2>1, ConcatProperties
<1>3. Seq(Seq(T)) \subseteq S
  <2> HIDE DEF S
  <2> QED
    BY <1>1, <1>2, SeqInduction
<1> QED
  BY <1>3

(* A sequence made of another, member by member.                           *)
Map(F, s)      == [i \in DOMAIN s |-> F[s[i]]]
Takes(F, V, W) == F \in [V -> W]

LEMMA MapIsSeq ==
  ASSUME NEW V, NEW W, NEW F, Takes(F, V, W), NEW s \in Seq(V)
  PROVE  Map(F, s) \in Seq(W) /\ Len(Map(F, s)) = Len(s)
<1>1. PICK n \in Nat : n = Len(s) /\ DOMAIN s = 1 .. n
  BY LenProperties
<1>2. \A i \in 1 .. n : s[i] \in V
  BY <1>1, ElementOfSeq
<1>3. Map(F, s) \in [1 .. n -> W]
  BY <1>1, <1>2 DEF Map, Takes
<1> QED
  BY <1>1, <1>3

LEMMA MapAppend ==
  ASSUME NEW V, NEW W, NEW F, Takes(F, V, W), NEW s \in Seq(V), NEW x \in V
  PROVE  Map(F, Append(s, x)) = Append(Map(F, s), F[x])
<1> DEFINE n == Len(s)
           a == Append(s, x)
           b == Append(Map(F, s), F[x])
<1>1. /\ n \in Nat /\ DOMAIN s = 1 .. n /\ a \in Seq(V) /\ DOMAIN a = 1 .. n + 1 /\ Len(a) = n + 1
      /\ \A i \in 1 .. n : a[i] = s[i]
      /\ a[n + 1] = x
  BY LenProperties, AppendProperties
<1>2. Map(F, a) \in Seq(W) /\ Len(Map(F, a)) = n + 1
  <2> HIDE DEF a, b, n
  <2> QED
    BY <1>1, MapIsSeq
<1>3. /\ b \in Seq(W) /\ Len(b) = n + 1 /\ b[n + 1] = F[x]
      /\ \A i \in 1 .. n : b[i] = Map(F, s)[i]
  <2>1. Map(F, s) \in Seq(W) /\ Len(Map(F, s)) = n
    BY MapIsSeq
  <2>2. F[x] \in W
    BY DEF Takes
  <2> QED
    BY <2>1, <2>2, AppendProperties
<1> HIDE DEF a, b, n
<1>4. \A i \in 1 .. n + 1 : Map(F, a)[i] = b[i]
  <2>1. \A i \in 1 .. n : Map(F, a)[i] = F[s[i]] /\ Map(F, s)[i] = F[s[i]]
    BY <1>1 DEF Map
  <2>2. Map(F, a)[n + 1] = F[x]
    BY <1>1 DEF Map
  <2> QED
    BY <1>1, <1>3, <2>1, <2>2
<1> QED
  BY <1>2, <1>3, <1>4, SeqEqual DEF a, b

LEMMA FlattenMap ==
  ASSUME NEW V, NEW T, NEW F, Takes(F, V, Seq(T)), NEW s \in Seq(V)
  PROVE  /\ FlattenSeq(Map(F, s)) \in Seq(T)
         /\ \A x \in V : FlattenSeq(Map(F, Append(s, x))) = FlattenSeq(Map(F, s)) \o F[x]
<1>1. Map(F, s) \in Seq(Seq(T))
  BY MapIsSeq
<1>2. ASSUME NEW x \in V
      PROVE  FlattenSeq(Map(F, Append(s, x))) = FlattenSeq(Map(F, s)) \o F[x]
  <2>1. F[x] \in Seq(T)
    BY DEF Takes
  <2>2. Map(F, Append(s, x)) = Append(Map(F, s), F[x])
    BY MapAppend
  <2>3. FlattenSeq(Append(Map(F, s), F[x])) = FlattenSeq(Map(F, s)) \o F[x]
    BY <1>1, <2>1, FlattenAppend
  <2> QED
    BY <2>2, <2>3
<1> QED
  BY <1>1, <1>2, FlattenType

=============================================================================
