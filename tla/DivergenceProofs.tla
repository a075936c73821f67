-------------------------- MODULE DivergenceProofs --------------------------
(***************************************************************************)
(* What sorting, the last session and the first divergence are, for every  *)
(* sequence of events and every set of receipts.                           *)
(***************************************************************************)
EXTENDS Divergence, DataLemmas, SequenceTheorems, FiniteSetTheorems, TLAPS

(* What the algorithms rely on: events and receipts have times, and a      *)
(* verifier takes time.                                                    *)
Timed(E)     == \A e \in E : e.at \in Nat
Verified(rs) == \A r \in rs : /\ r.start \in Nat /\ r.finish \in Nat /\ r.check \in Nat
                              /\ r.start < r.finish

Ordered(es) == \A i, j \in DOMAIN es : i <= j => es[i].at <= es[j].at

Roots(es) == {i \in DOMAIN es : es[i].root}

-----------------------------------------------------------------------------
(* Sorted: places are a permutation of 1 .. Len(es).                       *)

(* The events before i.                                                    *)
Ahead(es, i) == {j \in DOMAIN es : Earlier(es, j, i)}

LEMMA PlaceType ==
  ASSUME NEW E, Timed(E), NEW es \in Seq(E), NEW i \in DOMAIN es
  PROVE  /\ IsFiniteSet(Ahead(es, i))
         /\ Cardinality(Ahead(es, i)) \in Nat
         /\ Place(es, i) = Cardinality(Ahead(es, i)) + 1
         /\ Place(es, i) \in 1 .. Len(es)
<1> DEFINE n == Len(es)
<1>1. n \in Nat /\ DOMAIN es = 1 .. n
  OBVIOUS
<1>2. IsFiniteSet(1 .. n) /\ Cardinality(1 .. n) = n
  <2>1. 1 \in Int /\ n \in Int
    BY <1>1
  <2>2. IsFiniteSet(1 .. n) /\ Cardinality(1 .. n) = IF 1 > n THEN 0 ELSE n - 1 + 1
    BY <2>1, FS_Interval
  <2> QED
    BY <1>1, <2>2
<1>3. es[i].at \in Nat
  BY DEF Timed
<1>4. Ahead(es, i) \in SUBSET ((1 .. n) \ {i})
  BY <1>1, <1>3 DEF Ahead, Earlier
<1>5. IsFiniteSet((1 .. n) \ {i}) /\ Cardinality((1 .. n) \ {i}) = n - 1
  <2> DEFINE N == 1 .. n
  <2>1. i \in N
    BY <1>1
  <2> HIDE DEF N
  <2>2. IsFiniteSet(N \ {i}) /\ Cardinality(N \ {i}) = Cardinality(N) - 1
    BY <1>2, <2>1, FS_RemoveElement DEF N
  <2> QED
    BY <1>2, <2>2 DEF N
<1>6. IsFiniteSet(Ahead(es, i)) /\ Cardinality(Ahead(es, i)) <= n - 1
  BY <1>4, <1>5, FS_Subset
<1>7. Cardinality(Ahead(es, i)) \in Nat
  BY <1>6, FS_CardinalityType
<1> QED
  BY <1>1, <1>6, <1>7 DEF Place, Ahead

LEMMA PlacesDiffer ==
  ASSUME NEW E, Timed(E), NEW es \in Seq(E),
         NEW i \in DOMAIN es, NEW j \in DOMAIN es, Earlier(es, i, j)
  PROVE  Place(es, i) < Place(es, j)
<1>1. \A k \in DOMAIN es : es[k].at \in Nat /\ k \in Nat
  BY DEF Timed
<1>2. Ahead(es, i) \in SUBSET Ahead(es, j) /\ i \in Ahead(es, j) /\ i \notin Ahead(es, i)
  BY <1>1 DEF Ahead, Earlier
<1>3. /\ Cardinality(Ahead(es, i)) <= Cardinality(Ahead(es, j))
      /\ Cardinality(Ahead(es, i)) # Cardinality(Ahead(es, j))
  BY <1>2, PlaceType, FS_Subset
<1> QED
  BY <1>3, PlaceType

LEMMA PlacesArePermuted ==
  ASSUME NEW E, Timed(E), NEW es \in Seq(E)
  PROVE  /\ \A i, j \in DOMAIN es : Place(es, i) = Place(es, j) => i = j
         /\ \A k \in DOMAIN es : \E i \in DOMAIN es : Place(es, i) = k
<1> DEFINE D == DOMAIN es
           f == [i \in D |-> Place(es, i)]
<1>1. IsFiniteSet(D)
  BY FS_Interval, Len(es) \in Nat, D = 1 .. Len(es)
<1>2. ASSUME NEW i \in D, NEW j \in D, i # j PROVE Place(es, i) # Place(es, j)
  <2>1. es[i].at \in Nat /\ es[j].at \in Nat /\ i \in Nat /\ j \in Nat
    BY DEF Timed
  <2>2. Earlier(es, i, j) \/ Earlier(es, j, i)
    BY <1>2, <2>1 DEF Earlier
  <2>3. Place(es, i) \in Nat /\ Place(es, j) \in Nat
    BY PlaceType
  <2> QED
    BY <2>2, <2>3, PlacesDiffer
<1>3. f \in Injection(D, D)
  <2>1. \A i \in D : Place(es, i) \in D
    BY PlaceType
  <2> QED
    BY <1>2, <2>1 DEF Injection, IsInjective
<1>4. f \in Surjection(D, D)
  <2> HIDE DEF f, D
  <2> QED
    BY <1>1, <1>3, FS_Injection
<1> QED
  BY <1>2, <1>4 DEF Surjection

(* sort.SliceStable: the same events, in the order of time.                *)
LEMMA SortedSorts ==
  ASSUME NEW E, Timed(E), NEW es \in Seq(E)
  PROVE  /\ Sorted(es) \in Seq(E)
         /\ Len(Sorted(es)) = Len(es)
         /\ Members(Sorted(es)) = Members(es)
         /\ Ordered(Sorted(es))
<1> DEFINE D == DOMAIN es
           at(k) == CHOOSE i \in D : Place(es, i) = k
<1>1. /\ \A i, j \in D : Place(es, i) = Place(es, j) => i = j
      /\ \A k \in D : \E i \in D : Place(es, i) = k
  BY PlacesArePermuted
<1>2. \A k \in D : at(k) \in D /\ Place(es, at(k)) = k
  BY <1>1
<1>3. \A i \in D : Place(es, i) \in D /\ at(Place(es, i)) = i
  <2>1. \A i \in D : Place(es, i) \in D
    BY PlaceType
  <2> QED
    BY <1>1, <1>2, <2>1
<1>4. Sorted(es) = [k \in D |-> es[at(k)]]
  BY DEF Sorted
<1>5. D = 1 .. Len(es) /\ Len(es) \in Nat /\ \A k \in D : es[k] \in E
  OBVIOUS
<1> HIDE DEF at, D
<1>6. Sorted(es) \in [1 .. Len(es) -> E]
  BY <1>2, <1>4, <1>5
<1>7. Sorted(es) \in Seq(E) /\ Len(Sorted(es)) = Len(es) /\ DOMAIN Sorted(es) = D
  BY <1>5, <1>6
<1>8. Members(Sorted(es)) = Members(es)
  BY <1>2, <1>3, <1>4, <1>7 DEF Members, D
<1>9. ASSUME NEW k \in D, NEW l \in D, k <= l PROVE Sorted(es)[k].at <= Sorted(es)[l].at
  <2>1. es[at(k)].at \in Nat /\ es[at(l)].at \in Nat
    BY <1>2, <1>5 DEF Timed
  <2>2. CASE es[at(l)].at < es[at(k)].at
    <3>1. Earlier(es, at(l), at(k))
      BY <2>2 DEF Earlier
    <3>2. Place(es, at(l)) < Place(es, at(k))
      BY <1>2, <3>1, PlacesDiffer DEF D
    <3> QED
      BY <1>2, <1>5, <1>9, <3>2
  <2> QED
    BY <1>4, <2>1, <2>2
<1> QED
  BY <1>7, <1>8, <1>9 DEF Ordered

-----------------------------------------------------------------------------
(* LatestSession                                                           *)

(* incident.go:156: all of the events if none is a root, else those from   *)
(* the last root on.                                                       *)
LEMMA SessionIsTail ==
  ASSUME NEW E, NEW es \in Seq(E)
  PROVE  /\ LatestSession(es) \in Seq(E)
         /\ Roots(es) = {} => LatestSession(es) = es
         /\ Roots(es) # {} =>
              \E m \in Roots(es) :
                /\ \A i \in Roots(es) : i <= m
                /\ Len(LatestSession(es)) = Len(es) - m + 1
                /\ \A i \in 1 .. Len(es) - m + 1 : LatestSession(es)[i] = es[m + i - 1]
<1>1. CASE Roots(es) = {}
  BY <1>1 DEF LatestSession, Roots
<1>2. CASE Roots(es) # {}
  <2>1. Roots(es) \in SUBSET (1 .. Len(es)) /\ Len(es) \in Nat
    BY DEF Roots
  <2>2. Max(Roots(es)) \in Roots(es) /\ \A i \in Roots(es) : i <= Max(Roots(es))
    BY <1>2, <2>1, MaxIs
  <2> DEFINE m == Max(Roots(es))
  <2>3. LatestSession(es) = SubSeq(es, m, Len(es))
    BY <1>2 DEF LatestSession, Roots
  <2>4. m \in Roots(es) /\ \A i \in Roots(es) : i <= m
    BY <2>2
  <2>5. m \in 1 .. Len(es)
    BY <2>1, <2>4
  <2> HIDE DEF m
  <2>6. \A i \in m .. Len(es) : es[i] \in E
    BY <2>5
  <2>7. /\ SubSeq(es, m, Len(es)) \in Seq(E)
        /\ Len(SubSeq(es, m, Len(es))) = Len(es) - m + 1
        /\ \A i \in 1 .. Len(es) - m + 1 : SubSeq(es, m, Len(es))[i] = es[m + i - 1]
    BY <2>1, <2>5, <2>6, SubSeqProperties
  <2> QED
    BY <1>2, <2>3, <2>4, <2>7
<1> QED
  BY <1>1, <1>2

LEMMA SessionIsOrdered ==
  ASSUME NEW E, NEW es \in Seq(E), Timed(E), Ordered(es)
  PROVE  Ordered(LatestSession(es))
<1>1. CASE Roots(es) = {}
  BY <1>1, SessionIsTail
<1>2. CASE Roots(es) # {}
  <2> DEFINE s == LatestSession(es)
  <2>1. PICK m \in Roots(es) :
          /\ Len(s) = Len(es) - m + 1
          /\ \A i \in 1 .. Len(es) - m + 1 : s[i] = es[m + i - 1]
    BY <1>2, SessionIsTail
  <2>2. s \in Seq(E) /\ m \in 1 .. Len(es) /\ Len(es) \in Nat
    BY SessionIsTail DEF Roots
  <2> HIDE DEF s
  <2>3. ASSUME NEW i \in DOMAIN s, NEW j \in DOMAIN s, i <= j PROVE s[i].at <= s[j].at
    <3>1. i \in 1 .. Len(es) - m + 1 /\ j \in 1 .. Len(es) - m + 1
      BY <2>1, <2>2
    <3>2. m + i - 1 \in DOMAIN es /\ m + j - 1 \in DOMAIN es /\ m + i - 1 <= m + j - 1
      BY <2>2, <2>3, <3>1
    <3>3. es[m + i - 1].at <= es[m + j - 1].at
      BY <3>2 DEF Ordered
    <3> QED
      BY <2>1, <3>1, <3>3
  <2> QED
    BY <2>3 DEF Ordered, s
<1> QED
  BY <1>1, <1>2

(* incident.go:156: whatever order the events of a ledger are in, its      *)
(* timeline has the last root of a session, nothing that happened before a *)
(* root, and everything that happened after all of them.                   *)
THEOREM LastSessionIsKept ==
  ASSUME NEW E, Timed(E), NEW es \in Seq(E)
  PROVE  LET read     == Members(es)
             roots    == {e \in read : e.root}
             timeline == Members(LatestSession(Sorted(es)))
         IN /\ {e \in read : \A r \in roots : r.at < e.at} \subseteq timeline
            /\ \A e \in timeline, r \in roots : r.at <= e.at
            /\ roots # {} => roots \cap timeline # {}
<1> DEFINE s        == Sorted(es)
           read     == Members(es)
           roots    == {e \in read : e.root}
           timeline == Members(LatestSession(s))
<1>1. s \in Seq(E) /\ Members(s) = read /\ Ordered(s)
  BY SortedSorts
<1>2. /\ DOMAIN s = 1 .. Len(s) /\ Len(s) \in Nat
      /\ \A i \in DOMAIN s : s[i] \in E /\ s[i].at \in Nat
  BY <1>1 DEF Timed
<1> HIDE DEF s
<1>3. read = {s[i] : i \in DOMAIN s}
  BY <1>1 DEF Members
<1>4. \A r \in roots : \E j \in Roots(s) : r = s[j]
  BY <1>3 DEF Roots
<1>5. CASE Roots(s) = {}
  <2>1. roots = {} /\ timeline = read
    BY <1>1, <1>4, <1>5, SessionIsTail
  <2> QED
    BY <2>1 DEF s
<1>6. CASE Roots(s) # {}
  <2>1. PICK m \in Roots(s) :
          /\ \A i \in Roots(s) : i <= m
          /\ Len(LatestSession(s)) = Len(s) - m + 1
          /\ \A i \in 1 .. Len(s) - m + 1 : LatestSession(s)[i] = s[m + i - 1]
    BY <1>1, <1>6, SessionIsTail
  <2>2. m \in 1 .. Len(s)
    BY <1>2 DEF Roots
  <2>3. timeline = {s[i] : i \in m .. Len(s)}
    <3>1. DOMAIN LatestSession(s) = 1 .. Len(s) - m + 1
      BY <1>1, <2>1, SessionIsTail
    <3>2. \A i \in 1 .. Len(s) - m + 1 : m + i - 1 \in m .. Len(s)
      BY <1>2, <2>2
    <3>3. \A i \in m .. Len(s) : i - m + 1 \in 1 .. Len(s) - m + 1 /\ m + (i - m + 1) - 1 = i
      BY <1>2, <2>2
    <3>4. \A i \in m .. Len(s) : LatestSession(s)[i - m + 1] = s[i]
      BY <2>1, <3>3
    <3>5. timeline = {LatestSession(s)[i] : i \in 1 .. Len(s) - m + 1}
      BY <3>1 DEF Members
    <3>6. \A e \in timeline : \E i \in m .. Len(s) : e = s[i]
      BY <2>1, <3>2, <3>5
    <3>7. \A i \in m .. Len(s) : s[i] \in timeline
      BY <3>3, <3>4, <3>5
    <3> HIDE DEF timeline
    <3> QED
      BY <3>6, <3>7
  <2>4. s[m] \in roots /\ s[m] \in timeline
    BY <1>2, <1>3, <2>2, <2>3 DEF Roots
  <2>5. ASSUME NEW i \in DOMAIN s, s[m].at < s[i].at PROVE s[i] \in timeline
    <3>1. ~(i <= m)
      BY <1>1, <1>2, <2>2, <2>5 DEF Ordered
    <3> QED
      BY <1>2, <2>2, <2>3, <3>1
  <2>6. ASSUME NEW i \in m .. Len(s), NEW j \in Roots(s) PROVE s[j].at <= s[i].at
    <3>1. j <= i /\ j \in DOMAIN s /\ i \in DOMAIN s
      BY <1>2, <2>1, <2>2 DEF Roots
    <3> QED
      BY <1>1, <3>1 DEF Ordered
  <2>7. {e \in read : \A r \in roots : r.at < e.at} \subseteq timeline
    BY <1>3, <2>4, <2>5
  <2>8. \A e \in timeline, r \in roots : r.at <= e.at
    BY <1>4, <2>3, <2>6
  <2> QED
    BY <2>4, <2>7, <2>8 DEF s
<1> QED
  BY <1>5, <1>6

-----------------------------------------------------------------------------
(* locateDivergence                                                        *)

(* failures[0] is a failure that finished first.                           *)
LEMMA FirstFails ==
  ASSUME NEW rs, Verified(rs), Failures(rs) # {}
  PROVE  /\ FirstFailure(rs) \in Failures(rs)
         /\ \A q \in Failures(rs) : FirstFailure(rs).finish <= q.finish
<1> DEFINE Fs == Failures(rs)
           T  == {r.finish : r \in Fs}
<1>1. \A r \in Fs : r.finish \in Nat /\ r.check \in Nat
  BY DEF Verified, Failures
<1>2. PICK t \in T : \A u \in T : t <= u
  <2>1. T \in SUBSET Nat /\ T # {}
    BY <1>1
  <2> QED
    BY <2>1, Least
<1> DEFINE C == {r.check : r \in {q \in Fs : q.finish = t}}
<1>3. PICK c \in C : \A d \in C : c <= d
  <2>1. C \in SUBSET Nat /\ C # {}
    BY <1>1, <1>2
  <2> QED
    BY <2>1, Least
<1>4. PICK r \in Fs : r.finish = t /\ r.check = c
  BY <1>3
<1>5. ASSUME NEW q \in Fs PROVE r.finish < q.finish \/ (r.finish = q.finish /\ r.check <= q.check)
  <2>1. t <= q.finish /\ (q.finish = t => c <= q.check)
    BY <1>2, <1>3
  <2> QED
    BY <1>1, <1>4, <2>1
<1>6. /\ FirstFailure(rs) \in Fs
      /\ \A q \in Fs : \/ FirstFailure(rs).finish < q.finish
                       \/ FirstFailure(rs).finish = q.finish /\ FirstFailure(rs).check <= q.check
  BY <1>4, <1>5 DEF FirstFailure
<1> QED
  BY <1>1, <1>6

(* The last event before, and the first after, a check that took time are  *)
(* found by place, and are the latest and the earliest by time.            *)
LEMMA EnclosingIs ==
  ASSUME NEW E, Timed(E), NEW es \in Seq(E), Ordered(es),
         NEW r, r.start \in Nat, r.finish \in Nat, r.start < r.finish
  PROVE  LET before == Before(Members(es), r)
             after  == After(Members(es), r)
         IN /\ before = {} \/ after = {} => Enclosing(es, r) = [from |-> {}, to |-> {}]
            /\ before # {} /\ after # {} =>
                 \E e \in before, f \in after :
                   /\ Enclosing(es, r) = [from |-> {e.id}, to |-> {f.id}]
                   /\ \A g \in before : g.at <= e.at
                   /\ \A g \in after : f.at <= g.at
<1> DEFINE B      == {i \in DOMAIN es : es[i].at <= r.start}
           A      == {i \in DOMAIN es : es[i].at >= r.finish}
           before == Before(Members(es), r)
           after  == After(Members(es), r)
<1>1. /\ DOMAIN es = 1 .. Len(es) /\ Len(es) \in Nat
      /\ \A i \in DOMAIN es : es[i].at \in Nat
  BY DEF Timed
<1>2. before = {es[i] : i \in B} /\ after = {es[i] : i \in A}
  BY DEF Before, After, Members
<1>3. CASE B = {} \/ A = {}
  <2>1. Enclosing(es, r) = [from |-> {}, to |-> {}]
    BY <1>3 DEF Enclosing
  <2> QED
    BY <1>2, <1>3, <2>1
<1>4. CASE B # {} /\ A # {}
  <2>1. Max(B) \in B /\ \A i \in B : i <= Max(B)
    BY <1>1, <1>4, MaxIs
  <2>2. Min(A) \in A /\ \A i \in A : Min(A) <= i
    <3>1. A \in SUBSET Nat
      BY <1>1
    <3> QED
      BY <1>4, <3>1, MinIs
  <2> DEFINE x == Max(B)
             y == Min(A)
  <2>3. x < y
    <3>1. es[x].at < es[y].at
      BY <1>1, <2>1, <2>2
    <3>2. ~(y <= x)
      BY <1>1, <2>1, <2>2, <3>1 DEF Ordered
    <3> QED
      BY <1>1, <2>1, <2>2, <3>2
  <2>4. Enclosing(es, r) = [from |-> {es[x].id}, to |-> {es[y].id}]
    BY <1>4, <2>3 DEF Enclosing
  <2>5. x \in B /\ y \in A /\ (\A i \in B : i <= x) /\ (\A i \in A : y <= i)
    BY <2>1, <2>2
  <2> HIDE DEF x, y
  <2>6. \A i \in B : es[i].at <= es[x].at
    BY <1>1, <2>5 DEF Ordered
  <2>7. \A i \in A : es[y].at <= es[i].at
    BY <1>1, <2>5 DEF Ordered
  <2>8. es[x] \in before /\ es[y] \in after
    BY <1>2, <2>5
  <2>9. (\A g \in before : g.at <= es[x].at) /\ (\A g \in after : es[y].at <= g.at)
    BY <1>2, <2>6, <2>7
  <2> QED
    BY <2>4, <2>8, <2>9
<1> QED
  BY <1>3, <1>4

(* README.md:400: of events in the order of time, locateDivergence finds   *)
(* the earliest that is tied to a failing check, else the narrowest window *)
(* around the failing check that finished first, and "unlocated" only if   *)
(* there is neither.                                                       *)
THEOREM LocateIsEarliest ==
  ASSUME NEW E, Timed(E), NEW es \in Seq(E), Ordered(es),
         NEW rs, Verified(rs)
  PROVE  EarliestSupported(Members(es), rs, Locate(es, rs))
<1> DEFINE M    == Members(es)
           hits == {i \in DOMAIN es : \E r \in rs : Associated(es[i], r)}
           d    == Locate(es, rs)
           r    == FirstFailure(rs)
           w    == Enclosing(es, r)
<1>1. DOMAIN es = 1 .. Len(es) /\ Len(es) \in Nat
  OBVIOUS
<1>2. Tied(M, rs) = {es[i] : i \in hits}
  BY DEF Tied, Members
<1>3. CASE hits # {}
  <2>1. Min(hits) \in hits /\ \A i \in hits : Min(hits) <= i
    <3>1. hits \in SUBSET Nat
      BY <1>1
    <3> QED
      BY <1>3, <3>1, MinIs
  <2>2. d = At("exact_event", {es[Min(hits)].id}, {}, {})
    BY <1>3 DEF Locate
  <2>3. PICK x \in hits : (\A i \in hits : x <= i) /\ d = At("exact_event", {es[x].id}, {}, {})
    BY <2>1, <2>2
  <2>4. \A i \in hits : es[x].at <= es[i].at
    BY <1>1, <2>3 DEF Ordered
  <2>5. es[x] \in Tied(M, rs) /\ \A f \in Tied(M, rs) : es[x].at <= f.at
    BY <1>2, <2>4
  <2> HIDE DEF hits, d
  <2> QED
    BY <2>3, <2>5 DEF EarliestSupported, At, d
<1>4. CASE hits = {} /\ Failures(rs) = {}
  <2>1. d = At("unlocated", {}, {}, {})
    BY <1>4 DEF Locate
  <2>2. Tied(M, rs) = {}
    BY <1>2, <1>4
  <2> HIDE DEF hits, d
  <2> QED
    BY <1>4, <2>1, <2>2 DEF EarliestSupported, At, d
<1>5. CASE hits = {} /\ Failures(rs) # {}
  <2>1. Tied(M, rs) = {}
    BY <1>2, <1>5
  <2>2. r \in Failures(rs) /\ \A q \in Failures(rs) : r.finish <= q.finish
    BY <1>5, FirstFails
  <2>3. r.start \in Nat /\ r.finish \in Nat /\ r.start < r.finish
    BY <2>2 DEF Failures, Verified
  <2>4. d = IF w.from # {} \/ w.to # {} THEN At("time_window", {}, w.from, w.to)
            ELSE At("unlocated", {}, {}, {})
    BY <1>5 DEF Locate
  <2> HIDE DEF hits, d, r
  <2>5. CASE Before(M, r) = {} \/ After(M, r) = {}
    <3>1. w = [from |-> {}, to |-> {}]
      BY <2>3, <2>5, EnclosingIs
    <3>2. d = At("unlocated", {}, {}, {})
      BY <2>4, <3>1
    <3> QED
      BY <2>1, <2>2, <2>5, <3>2 DEF EarliestSupported, At, d
  <2>6. CASE Before(M, r) # {} /\ After(M, r) # {}
    <3>1. PICK e \in Before(M, r), f \in After(M, r) :
            /\ w = [from |-> {e.id}, to |-> {f.id}]
            /\ \A g \in Before(M, r) : g.at <= e.at
            /\ \A g \in After(M, r) : f.at <= g.at
      BY <2>3, <2>6, EnclosingIs
    <3>2. d = At("time_window", {}, {e.id}, {f.id})
      BY <2>4, <3>1
    <3> QED
      BY <2>1, <2>2, <3>1, <3>2 DEF EarliestSupported, At, d
  <2> QED
    BY <2>5, <2>6
<1> QED
  BY <1>3, <1>4, <1>5

=============================================================================
