---------------------------- MODULE UpdaterProofs ----------------------------
(***************************************************************************)
(* The safety of the updater for every game version, every set of replies  *)
(* and every interleaving of the two threads.                              *)
(*                                                                         *)
(* None of the properties is inductive: the status that the main thread    *)
(* sees is written by the worker, the callbacks travel through the queue,  *)
(* and the changelog through a third variable.  IInv ties them together:   *)
(* what the worker has already done (its pc) determines which callbacks    *)
(* are told or queued, and in which order they can still be told.          *)
(*                                                                         *)
(* Before that, what the comparisons of versions promise to those who mix  *)
(* them: the check asks one whether there is an update, another what the   *)
(* changelog describes, and the page about the game a third.               *)
(***************************************************************************)
EXTENDS Updater, SequenceTheorems, WellFoundedInduction, NaturalsInduction, TLAPS

(* The comparisons of versions.                                            *)

Signs == {-1, 0, 1}

LEMMA LeastElement ==
  ASSUME NEW S, S \subseteq Nat, S # {}
  PROVE  \E x \in S : \A y \in S : x <= y
<1> DEFINE R == {ss \in Nat \X Nat : ss[1] < ss[2]}
<1>1. IsWellFoundedOn(R, Nat)
  BY NatLessThanWellFounded, Zenon DEF OpToRel
<1>2. \A x, y \in Nat : y < x => <<y, x>> \in R
  BY SMT
<1> HIDE DEF R
<1>3. PICK x \in S : \A y \in S : ~(<<y, x>> \in R)
  BY <1>1, WFMin, Zenon
<1>4. \A y \in S : ~(y < x)
  BY <1>2, <1>3, Zenon
<1>5. \A y \in S : x <= y
  BY <1>4
<1> QED BY <1>5

(* r: how many elements both sequences have.                               *)
Shorter(r, m, n) == r \in Nat /\ r <= m /\ r <= n /\ (r = m \/ r = n)

(* The first place with a difference decides, or there is none.            *)
Decided(c, r, m, n) ==
  \/ (\A k \in 1..r : c[k] = 0) /\ FirstDifference(c, m, n) = binary_comparison(m, n)
  \/ \E k \in 1..r : /\ c[k] # 0 /\ \A j \in 1..(k - 1) : c[j] = 0
                     /\ FirstDifference(c, m, n) = c[k]

LEMMA FirstDecides ==
  ASSUME NEW m \in Nat, NEW n \in Nat, NEW r \in Nat, NEW c \in [1..r -> Signs]
  PROVE  Decided(c, r, m, n)
<1> DEFINE differ == {k \in DOMAIN c : c[k] # 0}
           least  == CHOOSE k \in differ : \A j \in differ : k <= j
<1>1. DOMAIN c = 1..r /\ differ \subseteq 1..r
  OBVIOUS
<1>2. CASE differ = {}
  BY <1>1, <1>2 DEF FirstDifference, Decided
<1>3. CASE differ # {}
  <2>1. FirstDifference(c, m, n) = c[least]
    BY <1>3 DEF FirstDifference
  <2>2. \E k \in differ : \A j \in differ : k <= j
    <3>1. differ \subseteq Nat
      BY <1>1
    <3> HIDE DEF differ
    <3> QED BY <1>3, <3>1, LeastElement, Zenon
  <2>3. least \in differ /\ \A j \in differ : least <= j
    <3> HIDE DEF differ
    <3> QED BY <2>2
  <2> HIDE DEF least
  <2>4. least \in 1..r /\ c[least] # 0
    BY <1>1, <2>3
  <2>5. ASSUME NEW j \in 1..(least - 1) PROVE c[j] = 0
    <3>1. j \in 1..r /\ ~(least <= j)
      BY <2>4
    <3> QED BY <1>1, <2>3, <3>1
  <2> QED BY <2>1, <2>4, <2>5 DEF Decided
<1> QED BY <1>2, <1>3

(* Below: the first difference is one where the first sequence is lower or *)
(* has ended.                                                              *)
Below(c, m, n) ==
  \E k \in 1..n : /\ k <= m + 1 /\ \A j \in 1..(k - 1) : c[j] = 0
                  /\ k <= m => c[k] = -1

Same(c, m, n) == m = n /\ \A k \in 1..m : c[k] = 0

LEMMA FirstDifferenceIs ==
  ASSUME NEW m \in Nat, NEW n \in Nat, NEW r, Shorter(r, m, n), NEW c \in [1..r -> Signs]
  PROVE  /\ FirstDifference(c, m, n) \in Signs
         /\ FirstDifference(c, m, n) = 0 <=> Same(c, m, n)
         /\ FirstDifference(c, m, n) = -1 <=> Below(c, m, n)
<1> DEFINE v == FirstDifference(c, m, n)
<1>1. \/ (\A k \in 1..r : c[k] = 0) /\ v = binary_comparison(m, n)
      \/ \E k \in 1..r : c[k] # 0 /\ (\A j \in 1..(k - 1) : c[j] = 0) /\ v = c[k]
  <2>1. r \in Nat
    BY DEF Shorter
  <2>2. Decided(c, r, m, n)
    BY <2>1, FirstDecides, Zenon
  <2> QED BY <2>2 DEF Decided
<1> HIDE DEF v
<1>2. CASE (\A k \in 1..r : c[k] = 0) /\ v = binary_comparison(m, n)
  <2>1. v \in Signs /\ (v = 0 <=> m = n) /\ (v = -1 <=> m < n)
    BY <1>2 DEF binary_comparison, Signs
  <2>2. v = 0 <=> Same(c, m, n)
    BY <1>2, <2>1 DEF Same, Shorter
  <2>3. m < n => Below(c, m, n)
    <3> SUFFICES ASSUME m < n PROVE Below(c, m, n)
      OBVIOUS
    <3>1. m + 1 \in 1..n /\ r = m
      BY DEF Shorter
    <3>2. \A j \in 1..((m + 1) - 1) : c[j] = 0
      BY <1>2, <3>1
    <3>3. ~(m + 1 <= m) /\ m + 1 <= m + 1
      OBVIOUS
    <3> QED BY <3>1, <3>2, <3>3 DEF Below
  <2>4. Below(c, m, n) => m < n
    <3> SUFFICES ASSUME NEW k \in 1..n, k <= m + 1, k <= m => c[k] = -1
                 PROVE  m < n
      BY DEF Below
    <3>1. ~(k \in 1..r)
      <4>1. k \in 1..r => k <= m
        BY DEF Shorter
      <4> QED BY <1>2, <4>1
    <3> QED BY <3>1 DEF Shorter
  <2> QED BY <2>1, <2>2, <2>3, <2>4 DEF v
<1>3. ASSUME NEW k \in 1..r, c[k] # 0, \A j \in 1..(k - 1) : c[j] = 0, v = c[k]
      PROVE  v \in Signs /\ (v = 0 <=> Same(c, m, n)) /\ (v = -1 <=> Below(c, m, n))
  <2>1. k \in 1..m /\ k \in 1..n /\ r \in Nat
    BY DEF Shorter
  <2>2. v \in Signs /\ v # 0
    BY <1>3
  <2>3. ~Same(c, m, n)
    BY <1>3, <2>1 DEF Same
  <2>4. v = -1 => Below(c, m, n)
    <3>1. k <= m + 1
      BY <2>1
    <3> QED BY <1>3, <2>1, <3>1 DEF Below
  <2>5. Below(c, m, n) => v = -1
    <3> SUFFICES ASSUME NEW i \in 1..n, i <= m + 1, \A j \in 1..(i - 1) : c[j] = 0,
                        i <= m => c[i] = -1
                 PROVE  v = -1
      BY DEF Below
    <3>1. CASE i < k
      <4>1. i \in 1..(k - 1) /\ i <= m
        BY <2>1, <3>1
      <4> QED BY <1>3, <4>1
    <3>2. CASE i > k
      <4>1. k \in 1..(i - 1)
        BY <2>1, <3>2
      <4> QED BY <1>3, <4>1
    <3>3. CASE i = k
      BY <1>3, <2>1, <3>3
    <3> QED BY <2>1, <3>1, <3>2, <3>3
  <2> QED BY <2>2, <2>3, <2>4, <2>5
<1> QED BY <1>1, <1>2, <1>3 DEF v

(* Seen from the other side.                                               *)
LEMMA FirstDifferenceSwaps ==
  ASSUME NEW m \in Nat, NEW n \in Nat, NEW r \in Nat,
         NEW c \in [1..r -> Signs], NEW d \in [1..r -> Signs], \A k \in 1..r : d[k] = 0 - c[k]
  PROVE  FirstDifference(d, n, m) = 0 - FirstDifference(c, m, n)
<1>0. Decided(c, r, m, n) /\ Decided(d, r, n, m)
  BY FirstDecides, Zenon
<1>1. \/ /\ \A k \in 1..r : c[k] = 0
         /\ FirstDifference(c, m, n) = binary_comparison(m, n)
      \/ \E k \in 1..r : /\ c[k] # 0 /\ \A j \in 1..(k - 1) : c[j] = 0
                         /\ FirstDifference(c, m, n) = c[k]
  BY <1>0 DEF Decided
<1>2. \/ /\ \A k \in 1..r : d[k] = 0
         /\ FirstDifference(d, n, m) = binary_comparison(n, m)
      \/ \E k \in 1..r : /\ d[k] # 0 /\ \A j \in 1..(k - 1) : d[j] = 0
                         /\ FirstDifference(d, n, m) = d[k]
  BY <1>0 DEF Decided
<1>3. \A k \in 1..r : c[k] \in Signs /\ (c[k] = 0 <=> d[k] = 0)
  BY DEF Signs
<1>4. CASE \A k \in 1..r : c[k] = 0
  <2>1. \A k \in 1..r : d[k] = 0
    BY <1>3, <1>4
  <2>2. FirstDifference(c, m, n) = binary_comparison(m, n)
    BY <1>1, <1>4
  <2>3. FirstDifference(d, n, m) = binary_comparison(n, m)
    BY <1>2, <2>1
  <2> QED BY <2>2, <2>3 DEF binary_comparison
<1>5. CASE ~ \A k \in 1..r : c[k] = 0
  <2>1. PICK k \in 1..r : /\ c[k] # 0 /\ \A j \in 1..(k - 1) : c[j] = 0
                          /\ FirstDifference(c, m, n) = c[k]
    BY <1>1, <1>5
  <2>2. PICK i \in 1..r : /\ d[i] # 0 /\ \A j \in 1..(i - 1) : d[j] = 0
                          /\ FirstDifference(d, n, m) = d[i]
    BY <1>2, <1>3, <1>5
  <2>3. c[i] # 0 /\ d[k] # 0
    BY <1>3, <2>1, <2>2
  <2>4. ~(i < k) /\ ~(k < i)
    <3>1. i < k => i \in 1..(k - 1)
      OBVIOUS
    <3>2. k < i => k \in 1..(i - 1)
      OBVIOUS
    <3> QED BY <2>1, <2>2, <2>3, <3>1, <3>2
  <2>5. i = k
    BY <2>4
  <2> QED BY <2>1, <2>2, <2>5
<1> QED BY <1>4, <1>5

(* u and v compare a first value with a second and the second with a third *)
(* (at most equal), w the first with the third.                            *)
Follows(w, u, v) == u # 1 /\ v # 1 => w = IF u = 0 THEN v ELSE -1

(* Three sequences of lengths m, n and p: c, d and e compare the first and *)
(* the second, the second and the third, the first and the third.          *)
LEMMA FirstDifferenceTransitive ==
  ASSUME NEW m \in Nat, NEW n \in Nat, NEW p \in Nat,
         NEW r, NEW s, NEW t, Shorter(r, m, n), Shorter(s, n, p), Shorter(t, m, p),
         NEW c \in [1..r -> Signs], NEW d \in [1..s -> Signs], NEW e \in [1..t -> Signs],
         \A k \in Nat : k \in 1..r /\ k \in 1..s /\ k \in 1..t => Follows(e[k], c[k], d[k])
  PROVE  Follows(FirstDifference(e, m, p), FirstDifference(c, m, n), FirstDifference(d, n, p))
<1> SUFFICES ASSUME FirstDifference(c, m, n) # 1, FirstDifference(d, n, p) # 1
             PROVE  FirstDifference(e, m, p) = IF FirstDifference(c, m, n) = 0
                                               THEN FirstDifference(d, n, p) ELSE -1
  BY DEF Follows
<1>1. /\ FirstDifference(c, m, n) = 0 <=> Same(c, m, n)
      /\ FirstDifference(c, m, n) = -1 <=> Below(c, m, n)
      /\ FirstDifference(c, m, n) \in Signs
  BY FirstDifferenceIs
<1>2. /\ FirstDifference(d, n, p) = 0 <=> Same(d, n, p)
      /\ FirstDifference(d, n, p) = -1 <=> Below(d, n, p)
      /\ FirstDifference(d, n, p) \in Signs
  BY FirstDifferenceIs
<1>3. /\ FirstDifference(e, m, p) = 0 <=> Same(e, m, p)
      /\ FirstDifference(e, m, p) = -1 <=> Below(e, m, p)
  BY FirstDifferenceIs
<1>4. r \in Nat /\ s \in Nat /\ t \in Nat
  BY DEF Shorter
<1>5. \A k \in Nat : (k \in 1..r <=> k \in 1..m /\ k \in 1..n)
                     /\ (k \in 1..s <=> k \in 1..n /\ k \in 1..p)
                     /\ (k \in 1..t <=> k \in 1..m /\ k \in 1..p)
  BY DEF Shorter
<1>6. ASSUME NEW k \in Nat, k \in 1..m, k \in 1..n, k \in 1..p, c[k] # 1, d[k] # 1
      PROVE  e[k] = IF c[k] = 0 THEN d[k] ELSE -1
  BY <1>5, <1>6 DEF Follows
<1>7. CASE Same(c, m, n) /\ Same(d, n, p)
  <2>1. m = n /\ n = p
    BY <1>7 DEF Same
  <2>2. \A k \in 1..m : e[k] = 0
    <3> TAKE k \in 1..m
    <3>1. k \in Nat /\ k \in 1..n /\ k \in 1..p /\ c[k] = 0 /\ d[k] = 0
      BY <1>7, <2>1 DEF Same
    <3> QED BY <1>6, <3>1
  <2> QED BY <1>1, <1>2, <1>3, <1>7, <2>1, <2>2 DEF Same
<1>8. ASSUME NEW k \in 1..p, k <= m + 1, \A j \in 1..(k - 1) : e[j] = 0, k <= m => e[k] = -1
      PROVE  FirstDifference(e, m, p) = -1
  BY <1>3, <1>8 DEF Below
<1>9. CASE Same(c, m, n) /\ Below(d, n, p)
  <2>1. PICK k \in 1..p : /\ k <= n + 1 /\ \A j \in 1..(k - 1) : d[j] = 0
                          /\ k <= n => d[k] = -1
    BY <1>9 DEF Below
  <2>2. m = n /\ \A j \in 1..m : c[j] = 0
    BY <1>9 DEF Same
  <2>3. \A j \in 1..(k - 1) : e[j] = 0
    <3> TAKE j \in 1..(k - 1)
    <3>1. j \in Nat /\ j \in 1..m /\ j \in 1..n /\ j \in 1..p
      BY <2>1, <2>2
    <3>2. c[j] = 0 /\ d[j] = 0
      BY <2>1, <2>2, <3>1
    <3> QED BY <1>6, <3>1, <3>2
  <2>4. k <= m => e[k] = -1
    <3> SUFFICES ASSUME k <= m PROVE e[k] = -1
      OBVIOUS
    <3>1. k \in Nat /\ k \in 1..m /\ k \in 1..n
      BY <2>2
    <3>2. c[k] = 0 /\ d[k] = -1
      BY <2>1, <2>2, <3>1
    <3> QED BY <1>6, <3>1, <3>2
  <2>5. FirstDifference(e, m, p) = -1
    BY <1>8, <2>1, <2>2, <2>3, <2>4
  <2> QED BY <1>1, <1>2, <1>9, <2>5
<1>10. CASE Below(c, m, n) /\ Same(d, n, p)
  <2>1. PICK k \in 1..n : /\ k <= m + 1 /\ \A j \in 1..(k - 1) : c[j] = 0
                          /\ k <= m => c[k] = -1
    BY <1>10 DEF Below
  <2>2. n = p /\ \A j \in 1..n : d[j] = 0
    BY <1>10 DEF Same
  <2>3. \A j \in 1..(k - 1) : e[j] = 0
    <3> TAKE j \in 1..(k - 1)
    <3>1. j \in Nat /\ j \in 1..m /\ j \in 1..n /\ j \in 1..p
      BY <2>1, <2>2
    <3>2. c[j] = 0 /\ d[j] = 0
      BY <2>1, <2>2, <3>1
    <3> QED BY <1>6, <3>1, <3>2
  <2>4. k <= m => e[k] = -1
    <3> SUFFICES ASSUME k <= m PROVE e[k] = -1
      OBVIOUS
    <3>1. k \in Nat /\ k \in 1..m /\ k \in 1..p
      BY <2>2
    <3>2. c[k] = -1 /\ d[k] = 0
      BY <2>1, <2>2, <3>1
    <3> QED BY <1>6, <3>1, <3>2
  <2>5. FirstDifference(e, m, p) = -1
    BY <1>8, <2>1, <2>2, <2>3, <2>4
  <2>6. FirstDifference(c, m, n) # 0
    BY <1>1, <1>10
  <2> QED BY <2>5, <2>6
<1>11. CASE Below(c, m, n) /\ Below(d, n, p)
  <2>1. PICK k \in 1..n : /\ k <= m + 1 /\ \A j \in 1..(k - 1) : c[j] = 0
                          /\ k <= m => c[k] = -1
    BY <1>11 DEF Below
  <2>2. PICK i \in 1..p : /\ i <= n + 1 /\ \A j \in 1..(i - 1) : d[j] = 0
                          /\ i <= n => d[i] = -1
    BY <1>11 DEF Below
  <2>3. ASSUME NEW h \in 1..p, h <= k, h <= i, NEW j \in 1..(h - 1) PROVE e[j] = 0
    <3>1. j \in Nat /\ j \in 1..m /\ j \in 1..n /\ j \in 1..p /\ j \in 1..(k - 1) /\ j \in 1..(i - 1)
      BY <2>1, <2>3
    <3>2. c[j] = 0 /\ d[j] = 0
      BY <2>1, <2>2, <3>1
    <3> QED BY <1>6, <3>1, <3>2
  <2>4. ASSUME k <= i PROVE FirstDifference(e, m, p) = -1
    <3>1. k \in 1..p /\ k \in Nat
      BY <2>4
    <3>2. k <= m => e[k] = -1
      <4> SUFFICES ASSUME k <= m PROVE e[k] = -1
        OBVIOUS
      <4>1. k \in 1..m /\ c[k] = -1
        BY <2>1
      <4>2. d[k] # 1
        <5>1. CASE k = i
          BY <2>2, <5>1
        <5>2. CASE k < i
          <6>1. k \in 1..(i - 1)
            BY <5>2
          <6> QED BY <2>2, <6>1
        <5> QED BY <2>4, <5>1, <5>2
      <4> QED BY <1>6, <3>1, <4>1, <4>2
    <3>3. \A j \in 1..(k - 1) : e[j] = 0
      BY <2>3, <2>4, <3>1
    <3> QED BY <1>8, <2>1, <3>1, <3>2, <3>3
  <2>5. ASSUME i < k PROVE FirstDifference(e, m, p) = -1
    <3>1. i \in 1..n /\ i \in 1..m /\ i \in 1..(k - 1)
      BY <2>1, <2>5
    <3>2. c[i] = 0 /\ d[i] = -1
      BY <2>1, <2>2, <3>1
    <3>3. i \in Nat /\ e[i] = -1
      <4>1. i \in Nat
        OBVIOUS
      <4> QED BY <1>6, <3>1, <3>2, <4>1
    <3>4. \A j \in 1..(i - 1) : e[j] = 0
      BY <2>3, <2>5
    <3>5. i <= m + 1
      BY <3>1
    <3> QED BY <1>8, <3>3, <3>4, <3>5
  <2>6. FirstDifference(e, m, p) = -1
    <3>1. k <= i \/ i < k
      OBVIOUS
    <3> QED BY <2>4, <2>5, <3>1
  <2>7. FirstDifference(c, m, n) # 0
    BY <1>1, <1>11
  <2> QED BY <2>6, <2>7
<1> QED BY <1>1, <1>2, <1>7, <1>9, <1>10, <1>11 DEF Signs

(* How many elements two sequences both have.                              *)
Both(r, x, y) == Shorter(r, Len(x), Len(y)) /\ DOMAIN x \cap DOMAIN y = 1..r

LEMMA BothHave ==
  ASSUME NEW S, NEW x \in Seq(S), NEW y \in Seq(S)
  PROVE  \E r \in Nat : Both(r, x, y)
<1> DEFINE m == Len(x)
           n == Len(y)
<1>1. m \in Nat /\ n \in Nat /\ DOMAIN x = 1..m /\ DOMAIN y = 1..n
  OBVIOUS
<1> SUFFICES \E r \in Nat : Shorter(r, m, n) /\ DOMAIN x \cap DOMAIN y = 1..r
  BY DEF Both
<1> HIDE DEF m, n
<1>2. CASE m <= n
  <2>1. 1..m \cap 1..n = 1..m
    BY <1>1, <1>2
  <2> QED BY <1>1, <1>2, <2>1 DEF Shorter
<1>3. CASE n <= m
  <2>1. 1..m \cap 1..n = 1..n
    BY <1>1, <1>3
  <2> QED BY <1>1, <1>3, <2>1 DEF Shorter
<1> QED BY <1>1, <1>2, <1>3

LEMMA IntegersAreOrdered ==
  ASSUME NEW x \in Int, NEW y \in Int, NEW z \in Int
  PROVE  /\ binary_comparison(x, y) \in Signs
         /\ binary_comparison(y, x) = 0 - binary_comparison(x, y)
         /\ binary_comparison(x, y) = 0 <=> x = y
         /\ Follows(binary_comparison(x, z), binary_comparison(x, y), binary_comparison(y, z))
  BY DEF binary_comparison, Signs, Follows

(* Words: as in a dictionary.                                              *)
LEMMA WordsCompare ==
  ASSUME NEW x \in Seq(Nat), NEW y \in Seq(Nat)
  PROVE  /\ compare_words(x, y) \in Signs
         /\ compare_words(y, x) = 0 - compare_words(x, y)
         /\ compare_words(x, y) = 0 <=> x = y
<1> DEFINE m == Len(x)
           n == Len(y)
<1>0. PICK r \in Nat : Both(r, x, y)
  BY BothHave
<1>1. Shorter(r, m, n) /\ DOMAIN x \cap DOMAIN y = 1..r
  BY <1>0 DEF Both
<1> DEFINE c == [k \in 1..r |-> binary_comparison(x[k], y[k])]
           d == [k \in 1..r |-> binary_comparison(y[k], x[k])]
<1>2. /\ compare_words(x, y) = FirstDifference(c, m, n)
      /\ compare_words(y, x) = FirstDifference(d, n, m)
  <2>1. DOMAIN y \cap DOMAIN x = 1..r
    BY <1>1
  <2> QED BY <1>1, <2>1 DEF compare_words
<1>3. m \in Nat /\ n \in Nat /\ DOMAIN x = 1..m /\ DOMAIN y = 1..n
  OBVIOUS
<1>4. ASSUME NEW k \in 1..r PROVE x[k] \in Nat /\ y[k] \in Nat
  <2>1. k \in DOMAIN x /\ k \in DOMAIN y
    BY <1>1
  <2> QED BY <2>1
<1>5. c \in [1..r -> Signs] /\ d \in [1..r -> Signs]
  BY <1>4, IntegersAreOrdered
<1>6. \A k \in 1..r : d[k] = 0 - c[k] /\ (c[k] = 0 <=> x[k] = y[k])
  BY <1>4, IntegersAreOrdered
<1>7. Same(c, m, n) <=> x = y
  <2>1. ASSUME Same(c, m, n) PROVE x = y
    <3>1. m = n /\ r = m
      BY <1>1, <2>1 DEF Same, Shorter
    <3>2. \A k \in 1..m : x[k] = y[k]
      BY <1>6, <2>1, <3>1 DEF Same
    <3>3. Len(x) = Len(y) /\ \A k \in 1..Len(x) : x[k] = y[k]
      BY <3>1, <3>2
    <3> HIDE DEF m, n, c, d
    <3> QED BY <3>3, SeqEqual
  <2>2. ASSUME x = y PROVE Same(c, m, n)
    <3>1. m = n /\ r = m
      BY <1>1, <1>3, <2>2 DEF Shorter
    <3>2. \A k \in 1..m : c[k] = 0
      BY <1>6, <2>2, <3>1
    <3> QED BY <3>1, <3>2 DEF Same
  <2> QED BY <2>1, <2>2
<1> HIDE DEF m, n, c, d
<1>8. FirstDifference(c, m, n) \in Signs /\ (FirstDifference(c, m, n) = 0 <=> Same(c, m, n))
  BY <1>1, <1>3, <1>5, FirstDifferenceIs
<1>9. FirstDifference(d, n, m) = 0 - FirstDifference(c, m, n)
  BY <1>1, <1>3, <1>5, <1>6, FirstDifferenceSwaps
<1> QED BY <1>2, <1>7, <1>8, <1>9

LEMMA WordsFollow ==
  ASSUME NEW x \in Seq(Nat), NEW y \in Seq(Nat), NEW z \in Seq(Nat)
  PROVE  Follows(compare_words(x, z), compare_words(x, y), compare_words(y, z))
<1> DEFINE m == Len(x)
           n == Len(y)
           p == Len(z)
<1>0. /\ \E r \in Nat : Both(r, x, y)
      /\ \E r \in Nat : Both(r, y, z)
      /\ \E r \in Nat : Both(r, x, z)
  BY BothHave, Zenon
<1>1. PICK r \in Nat : Shorter(r, m, n) /\ DOMAIN x \cap DOMAIN y = 1..r
  BY <1>0 DEF Both
<1>2. PICK s \in Nat : Shorter(s, n, p) /\ DOMAIN y \cap DOMAIN z = 1..s
  BY <1>0 DEF Both
<1>3. PICK t \in Nat : Shorter(t, m, p) /\ DOMAIN x \cap DOMAIN z = 1..t
  BY <1>0 DEF Both
<1> DEFINE c == [k \in 1..r |-> binary_comparison(x[k], y[k])]
           d == [k \in 1..s |-> binary_comparison(y[k], z[k])]
           e == [k \in 1..t |-> binary_comparison(x[k], z[k])]
<1>4. /\ compare_words(x, y) = FirstDifference(c, m, n)
      /\ compare_words(y, z) = FirstDifference(d, n, p)
      /\ compare_words(x, z) = FirstDifference(e, m, p)
  BY <1>1, <1>2, <1>3 DEF compare_words
<1>5. m \in Nat /\ n \in Nat /\ p \in Nat
  OBVIOUS
<1>6. /\ \A k \in 1..r : x[k] \in Nat /\ y[k] \in Nat
      /\ \A k \in 1..s : y[k] \in Nat /\ z[k] \in Nat
      /\ \A k \in 1..t : x[k] \in Nat /\ z[k] \in Nat
  <2>1. /\ \A k \in DOMAIN x : x[k] \in Nat
        /\ \A k \in DOMAIN y : y[k] \in Nat
        /\ \A k \in DOMAIN z : z[k] \in Nat
    OBVIOUS
  <2> HIDE DEF m, n, p
  <2> QED BY <1>1, <1>2, <1>3, <2>1
<1>7. c \in [1..r -> Signs] /\ d \in [1..s -> Signs] /\ e \in [1..t -> Signs]
  BY <1>6, IntegersAreOrdered
<1>8. \A k \in Nat : k \in 1..r /\ k \in 1..s /\ k \in 1..t => Follows(e[k], c[k], d[k])
  BY <1>6, IntegersAreOrdered
<1> HIDE DEF m, n, p, c, d, e
<1>9. Follows(FirstDifference(e, m, p), FirstDifference(c, m, n), FirstDifference(d, n, p))
  BY <1>1, <1>2, <1>3, <1>5, <1>7, <1>8, FirstDifferenceTransitive, Zenon
<1> QED BY <1>4, <1>9

(* Two identifiers that count as one: the same number, however it is       *)
(* spelled, or the same word.                                              *)
SameIdentifier(x, y) ==
  x.isnum = y.isnum /\ IF x.isnum THEN x.num = y.num ELSE x.text = y.text

LEMMA IdentifiersCompare ==
  ASSUME NEW x \in Identifier, NEW y \in Identifier
  PROVE  /\ compare_identifier(x, y) \in Signs
         /\ compare_identifier(y, x) = 0 - compare_identifier(x, y)
         /\ compare_identifier(x, y) = 0 <=> SameIdentifier(x, y)
<1>1. /\ x.text \in Seq(Nat) /\ x.isnum \in BOOLEAN /\ x.num \in Int
      /\ y.text \in Seq(Nat) /\ y.isnum \in BOOLEAN /\ y.num \in Int
  BY DEF Identifier
<1>2. CASE x.isnum /\ y.isnum
  BY <1>1, <1>2, IntegersAreOrdered DEF compare_identifier, SameIdentifier
<1>3. CASE ~x.isnum /\ ~y.isnum
  BY <1>1, <1>3, WordsCompare DEF compare_identifier, SameIdentifier
<1>4. CASE x.isnum /\ ~y.isnum
  <2>1. x.isnum # y.isnum /\ ~SameIdentifier(x, y)
    BY <1>4, Zenon DEF SameIdentifier
  <2>2. compare_identifier(x, y) = -1 /\ compare_identifier(y, x) = 1
    BY <1>4, <2>1, Zenon DEF compare_identifier
  <2> QED BY <2>1, <2>2 DEF Signs
<1>5. CASE ~x.isnum /\ y.isnum
  <2>1. x.isnum # y.isnum /\ ~SameIdentifier(x, y)
    BY <1>5, Zenon DEF SameIdentifier
  <2>2. compare_identifier(x, y) = 1 /\ compare_identifier(y, x) = -1
    BY <1>5, <2>1, Zenon DEF compare_identifier
  <2> QED BY <2>1, <2>2 DEF Signs
<1> QED BY <1>2, <1>3, <1>4, <1>5

LEMMA IdentifiersFollow ==
  ASSUME NEW x \in Identifier, NEW y \in Identifier, NEW z \in Identifier
  PROVE  Follows(compare_identifier(x, z), compare_identifier(x, y), compare_identifier(y, z))
<1>1. /\ x.text \in Seq(Nat) /\ x.isnum \in BOOLEAN /\ x.num \in Int
      /\ y.text \in Seq(Nat) /\ y.isnum \in BOOLEAN /\ y.num \in Int
      /\ z.text \in Seq(Nat) /\ z.isnum \in BOOLEAN /\ z.num \in Int
  BY DEF Identifier
<1>2. CASE x.isnum /\ y.isnum /\ z.isnum
  BY <1>1, <1>2, IntegersAreOrdered DEF compare_identifier
<1>3. CASE ~x.isnum /\ ~y.isnum /\ ~z.isnum
  BY <1>1, <1>3, WordsFollow DEF compare_identifier
<1>4. CASE x.isnum # y.isnum \/ y.isnum # z.isnum
  <2>1. compare_identifier(x, y) \in Signs /\ compare_identifier(y, z) \in Signs
    BY IdentifiersCompare
  <2>2. CASE x.isnum /\ ~y.isnum
    BY <1>1, <2>1, <2>2 DEF compare_identifier, Follows, Signs
  <2>3. CASE ~x.isnum /\ y.isnum
    BY <1>1, <2>1, <2>3 DEF compare_identifier, Follows, Signs
  <2>4. CASE x.isnum /\ y.isnum /\ ~z.isnum
    BY <1>1, <2>1, <2>4 DEF compare_identifier, Follows, Signs
  <2>5. CASE ~x.isnum /\ ~y.isnum /\ z.isnum
    BY <1>1, <2>1, <2>5 DEF compare_identifier, Follows, Signs
  <2> QED BY <1>1, <1>4, <2>2, <2>3, <2>4, <2>5
<1> QED BY <1>1, <1>2, <1>3, <1>4

(* Two tags that count as one.                                             *)
Alike(s, t) == Len(s) = Len(t) /\ \A k \in 1..Len(s) : SameIdentifier(s[k], t[k])

(* Tags: identifier by identifier, and no tag after all others.            *)
LEMMA TagsCompare ==
  ASSUME NEW x \in Tags, NEW y \in Tags
  PROVE  /\ compare_prerelease(x, y) \in Signs
         /\ compare_prerelease(y, x) = 0 - compare_prerelease(x, y)
         /\ compare_prerelease(x, y) = 0 <=> Alike(x, y)
<1> DEFINE m == Len(x)
           n == Len(y)
<1>0. x \in Seq(Identifier) /\ y \in Seq(Identifier)
  BY DEF Tags
<1>1. m \in Nat /\ n \in Nat /\ DOMAIN x = 1..m /\ DOMAIN y = 1..n
  BY <1>0
<1>2. (x = NULL <=> m = 0) /\ (y = NULL <=> n = 0)
  BY <1>0, EmptySeq DEF NULL
<1>3. CASE x = NULL \/ y = NULL
  <2>1. compare_prerelease(x, y) \in Signs /\ compare_prerelease(y, x) = 0 - compare_prerelease(x, y)
    BY <1>3 DEF compare_prerelease, Signs
  <2>2. compare_prerelease(x, y) = 0 <=> x = NULL /\ y = NULL
    BY <1>3 DEF compare_prerelease
  <2>3. m = n <=> x = NULL /\ y = NULL
    <3> HIDE DEF m, n
    <3> QED BY <1>1, <1>2, <1>3
  <2>4. m = 0 => \A k \in 1..m : SameIdentifier(x[k], y[k])
    <3> HIDE DEF m
    <3> QED OBVIOUS
  <2>5. Alike(x, y) <=> m = n
    BY <1>2, <2>3, <2>4 DEF Alike
  <2> QED BY <2>1, <2>2, <2>3, <2>5
<1>4. CASE x # NULL /\ y # NULL
  <2>0. PICK r \in Nat : Both(r, x, y)
    BY <1>0, BothHave, Zenon
  <2>1. Shorter(r, m, n) /\ DOMAIN x \cap DOMAIN y = 1..r
    BY <2>0 DEF Both
  <2> DEFINE c == [k \in 1..r |-> compare_identifier(x[k], y[k])]
             d == [k \in 1..r |-> compare_identifier(y[k], x[k])]
  <2>2. /\ compare_prerelease(x, y) = FirstDifference(c, m, n)
        /\ compare_prerelease(y, x) = FirstDifference(d, n, m)
    <3>1. DOMAIN y \cap DOMAIN x = 1..r
      BY <2>1
    <3> QED BY <1>4, <2>1, <3>1 DEF compare_prerelease
  <2>3. \A k \in 1..r : x[k] \in Identifier /\ y[k] \in Identifier
    <3>1. (\A k \in DOMAIN x : x[k] \in Identifier) /\ (\A k \in DOMAIN y : y[k] \in Identifier)
      BY <1>0
    <3> HIDE DEF m, n
    <3> QED BY <2>1, <3>1
  <2>4. c \in [1..r -> Signs] /\ d \in [1..r -> Signs]
    BY <2>3, IdentifiersCompare
  <2>5. \A k \in 1..r : d[k] = 0 - c[k] /\ (c[k] = 0 <=> SameIdentifier(x[k], y[k]))
    BY <2>3, IdentifiersCompare
  <2>6. Same(c, m, n) <=> Alike(x, y)
    <3> SUFFICES ASSUME m = n PROVE (\A k \in 1..m : c[k] = 0) <=> Alike(x, y)
      BY DEF Same, Alike
    <3>1. r = m
      BY <2>1 DEF Shorter
    <3>2. (\A k \in 1..m : c[k] = 0) <=> \A k \in 1..m : SameIdentifier(x[k], y[k])
      <4> HIDE DEF c, m, n
      <4> QED BY <2>5, <3>1
    <3> QED BY <3>2 DEF Alike
  <2> HIDE DEF m, n, c, d
  <2>7. FirstDifference(c, m, n) \in Signs /\ (FirstDifference(c, m, n) = 0 <=> Same(c, m, n))
    BY <1>1, <2>1, <2>4, FirstDifferenceIs
  <2>8. FirstDifference(d, n, m) = 0 - FirstDifference(c, m, n)
    BY <1>1, <2>1, <2>4, <2>5, FirstDifferenceSwaps
  <2> QED BY <2>2, <2>6, <2>7, <2>8
<1> QED BY <1>3, <1>4

LEMMA TagsFollow ==
  ASSUME NEW x \in Tags, NEW y \in Tags, NEW z \in Tags
  PROVE  Follows(compare_prerelease(x, z), compare_prerelease(x, y), compare_prerelease(y, z))
<1>0. x \in Seq(Identifier) /\ y \in Seq(Identifier) /\ z \in Seq(Identifier)
  BY DEF Tags
<1>1. compare_prerelease(x, y) \in Signs /\ compare_prerelease(y, z) \in Signs
  BY TagsCompare
<1>2. CASE x = NULL \/ y = NULL \/ z = NULL
  <2>1. CASE x = NULL
    BY <1>1, <2>1 DEF compare_prerelease, Follows, Signs
  <2>2. CASE x # NULL /\ y = NULL
    BY <1>1, <2>2 DEF compare_prerelease, Follows, Signs
  <2>3. CASE x # NULL /\ y # NULL /\ z = NULL
    BY <1>1, <2>3 DEF compare_prerelease, Follows, Signs
  <2> QED BY <1>2, <2>1, <2>2, <2>3
<1>3. CASE x # NULL /\ y # NULL /\ z # NULL
  <2> DEFINE m == Len(x)
             n == Len(y)
             p == Len(z)
  <2>0. /\ \E r \in Nat : Both(r, x, y)
        /\ \E r \in Nat : Both(r, y, z)
        /\ \E r \in Nat : Both(r, x, z)
    BY <1>0, BothHave, Zenon
  <2>1. PICK r \in Nat : Shorter(r, m, n) /\ DOMAIN x \cap DOMAIN y = 1..r
    BY <2>0 DEF Both
  <2>2. PICK s \in Nat : Shorter(s, n, p) /\ DOMAIN y \cap DOMAIN z = 1..s
    BY <2>0 DEF Both
  <2>3. PICK t \in Nat : Shorter(t, m, p) /\ DOMAIN x \cap DOMAIN z = 1..t
    BY <2>0 DEF Both
  <2> DEFINE c == [k \in 1..r |-> compare_identifier(x[k], y[k])]
             d == [k \in 1..s |-> compare_identifier(y[k], z[k])]
             e == [k \in 1..t |-> compare_identifier(x[k], z[k])]
  <2>4. /\ compare_prerelease(x, y) = FirstDifference(c, m, n)
        /\ compare_prerelease(y, z) = FirstDifference(d, n, p)
        /\ compare_prerelease(x, z) = FirstDifference(e, m, p)
    BY <1>3, <2>1, <2>2, <2>3 DEF compare_prerelease
  <2>5. m \in Nat /\ n \in Nat /\ p \in Nat
    BY <1>0
  <2>6. /\ \A k \in 1..r : x[k] \in Identifier /\ y[k] \in Identifier
        /\ \A k \in 1..s : y[k] \in Identifier /\ z[k] \in Identifier
        /\ \A k \in 1..t : x[k] \in Identifier /\ z[k] \in Identifier
    <3>1. /\ \A k \in DOMAIN x : x[k] \in Identifier
          /\ \A k \in DOMAIN y : y[k] \in Identifier
          /\ \A k \in DOMAIN z : z[k] \in Identifier
      BY <1>0
    <3> HIDE DEF m, n, p
    <3> QED BY <2>1, <2>2, <2>3, <3>1
  <2>7. c \in [1..r -> Signs] /\ d \in [1..s -> Signs] /\ e \in [1..t -> Signs]
    BY <2>6, IdentifiersCompare
  <2>8. \A k \in Nat : k \in 1..r /\ k \in 1..s /\ k \in 1..t => Follows(e[k], c[k], d[k])
    BY <2>6, IdentifiersFollow
  <2> HIDE DEF m, n, p, c, d, e
  <2>9. Follows(FirstDifference(e, m, p), FirstDifference(c, m, n), FirstDifference(d, n, p))
    BY <2>1, <2>2, <2>3, <2>5, <2>7, <2>8, FirstDifferenceTransitive, Zenon
  <2> QED BY <2>4, <2>9
<1> QED BY <1>2, <1>3

(* The numbers alone.                                                      *)
LEMMA NumbersAreOrdered ==
  ASSUME NEW x \in Version, NEW y \in Version, NEW z \in Version
  PROVE  /\ semver_compare_version(x, y) \in {-1, 0, 1}
         /\ semver_compare_version(x, y) = 1 <=> semver_compare_version(y, x) = -1
         /\ semver_compare_version(x, y) = 0
              <=> x.major = y.major /\ x.minor = y.minor /\ x.patch = y.patch
         /\ Follows(semver_compare_version(x, z), semver_compare_version(x, y),
                    semver_compare_version(y, z))
  BY DEF Version, semver_compare_version, binary_comparison, Follows

LEMMA CompareIsOrdered ==
  ASSUME NEW x \in Version, NEW y \in Version
  PROVE  /\ semver_compare(x, y) \in {-1, 0, 1}
         /\ semver_compare(x, y) = 1 <=> semver_compare(y, x) = -1
<1>1. x.tag \in Tags /\ y.tag \in Tags
  BY DEF Version
<1>2. /\ compare_prerelease(x.tag, y.tag) \in Signs
      /\ compare_prerelease(y.tag, x.tag) = 0 - compare_prerelease(x.tag, y.tag)
  BY <1>1, TagsCompare
<1>3. /\ semver_compare_version(x, y) \in {-1, 0, 1}
      /\ semver_compare_version(y, x) \in {-1, 0, 1}
      /\ semver_compare_version(x, y) = 1 <=> semver_compare_version(y, x) = -1
      /\ semver_compare_version(y, x) = 1 <=> semver_compare_version(x, y) = -1
  BY NumbersAreOrdered
<1> QED BY <1>2, <1>3 DEF semver_compare, Signs

(* <= puts all versions in an order: any two are comparable, it is         *)
(* transitive, and only those are <= each other that have the same numbers *)
(* and tags that count as one, such as 1.0.0-rc.1 and 1.0.0-rc.01.  Hence  *)
(* the changelog, which ends at the first release that is <= the game      *)
(* (CGameUpdater.cpp:361), leaves out none that is not, when the releases  *)
(* come from the newest to the oldest.                                     *)
THEOREM LeqIsATotalPreorder ==
  ASSUME NEW x \in Version, NEW y \in Version, NEW z \in Version
  PROVE  /\ Leq(x, y) \/ Leq(y, x)
         /\ Leq(x, y) /\ Leq(y, z) => Leq(x, z)
         /\ Leq(x, y) /\ Leq(y, x)
              <=> /\ x.major = y.major /\ x.minor = y.minor /\ x.patch = y.patch
                  /\ Alike(x.tag, y.tag)
<1>1. x.tag \in Tags /\ y.tag \in Tags /\ z.tag \in Tags
  BY DEF Version
<1>2. Leq(x, y) \/ Leq(y, x)
  BY CompareIsOrdered DEF Leq
<1>3. Leq(x, y) /\ Leq(y, x)
        <=> /\ x.major = y.major /\ x.minor = y.minor /\ x.patch = y.patch
            /\ Alike(x.tag, y.tag)
  <2>1. Leq(x, y) /\ Leq(y, x) <=> semver_compare(x, y) = 0
    BY CompareIsOrdered DEF Leq
  <2>2. semver_compare(x, y) = 0
          <=> semver_compare_version(x, y) = 0 /\ compare_prerelease(x.tag, y.tag) = 0
    BY DEF semver_compare
  <2>3. compare_prerelease(x.tag, y.tag) = 0 <=> Alike(x.tag, y.tag)
    BY <1>1, TagsCompare
  <2>4. semver_compare_version(x, y) = 0
          <=> x.major = y.major /\ x.minor = y.minor /\ x.patch = y.patch
    BY NumbersAreOrdered
  <2> QED BY <2>1, <2>2, <2>3, <2>4
<1>4. ASSUME Leq(x, y), Leq(y, z) PROVE Leq(x, z)
  <2>1. /\ compare_prerelease(x.tag, y.tag) \in Signs /\ compare_prerelease(y.tag, z.tag) \in Signs
        /\ Follows(compare_prerelease(x.tag, z.tag), compare_prerelease(x.tag, y.tag),
                   compare_prerelease(y.tag, z.tag))
    BY <1>1, TagsCompare, TagsFollow
  <2>2. /\ semver_compare_version(x, y) \in {-1, 0, 1} /\ semver_compare_version(y, z) \in {-1, 0, 1}
        /\ Follows(semver_compare_version(x, z), semver_compare_version(x, y),
                   semver_compare_version(y, z))
    BY NumbersAreOrdered
  <2> QED BY <1>4, <2>1, <2>2 DEF Leq, semver_compare, Follows, Signs
<1> QED BY <1>2, <1>3, <1>4

(* A release that the game is not >= to is not <= the game: an update that *)
(* is announced (CGameUpdater.cpp:336) is described (361), and it is > the *)
(* game for the page about it (CAboutSubOptions.cpp:180).                  *)
THEOREM AnnouncedUpdatesAreNewer ==
  ASSUME NEW game \in Version, NEW v \in Version, ~Geq(game, v)
  PROVE  ~Leq(v, game) /\ Gt(v, game) /\ Lt(game, v)
  BY CompareIsOrdered DEF Geq, Leq, Gt, Lt

(* Where no "dev" is involved all three agree, both ways.                  *)
THEOREM ReleasesAgree ==
  ASSUME NEW game \in Version, NEW v \in Version, ~IsDev(game.tag), ~IsDev(v.tag)
  PROVE  /\ Gt(v, game) <=> ~Geq(game, v)
         /\ Gt(v, game) <=> ~Leq(v, game)
<1>1. ~DevAhead(v, game) /\ ~DevAhead(game, v)
  BY DEF DevAhead
<1> QED BY <1>1, CompareIsOrdered DEF Gt, Geq, Leq

(* A "dev" build of the game is >= a later version of its own number, the  *)
(* release without a tag among them, for the updater, which is then up to  *)
(* date; but that version is > the build for the page, which shows an      *)
(* update, and it is not <= the build for the changelog, which describes   *)
(* it among the news of a later release.                                   *)
THEOREM DevBuildsDisagree ==
  ASSUME NEW game \in Version, NEW v \in Version, IsDev(game.tag),
         v.tag = NULL \/ compare_prerelease(v.tag, game.tag) = 1,
         semver_compare_version(game, v) = 0
  PROVE  Geq(game, v) /\ Gt(v, game) /\ ~Leq(v, game)
<1>1. semver_compare_version(v, game) = 0
  BY NumbersAreOrdered
<1>2. game.tag # NULL
  BY DEF IsDev, NULL, Version, Tags
<1>3. semver_compare(v, game) = 1
  BY <1>1, <1>2 DEF semver_compare, compare_prerelease
<1> QED BY <1>1, <1>3 DEF Gt, Geq, Leq, DevAhead

(* And a "dev" version is > itself.                                        *)
COROLLARY DevIsAboveItself ==
  ASSUME NEW v \in Version, IsDev(v.tag)
  PROVE  Gt(v, v) /\ Eq(v, v)
<1>1. semver_compare_version(v, v) = 0
  BY NumbersAreOrdered
<1>2. compare_prerelease(v.tag, v.tag) = 0
  <2>1. v.tag \in Tags
    BY DEF Version
  <2> QED BY <2>1, TagsCompare DEF Signs
<1> QED BY <1>1, <1>2 DEF Gt, Eq, DevAhead, semver_compare

-----------------------------------------------------------------------------
(* The two threads.                                                        *)

Queued(c) == \E i \in DOMAIN m_CmdQueue : m_CmdQueue[i] = c
Only(C)   == \A i \in DOMAIN m_CmdQueue : m_CmdQueue[i] \in C

BeforeAnswer == {"start", "perform", "publish", "upToDate", "tellUpToDate", "announce"}
AfterAnnounce == {"stopCheck", "changelog"}
Finished == {"cleanup", "done"}

(* What the worker's pc says of the status.                                *)
StatusInv ==
  /\ wpc = "start" => m_iUpdateStatus = "NONE"
  /\ wpc \in {"perform", "publish", "upToDate", "announce", "stopCheck", "changelog",
              "catch"} => m_iUpdateStatus = "LOADING_RELEASES"
  /\ wpc = "tellUpToDate" => m_iUpdateStatus = "UP_TO_DATE"
  /\ wpc = "tellError" => m_iUpdateStatus = "ERROR_EXCEPTION"
  /\ wpc \in Finished => m_iUpdateStatus # "NONE"

(* What it says of the callbacks, told and queued.                         *)
AnswerInv ==
  /\ wpc \in BeforeAnswer => told = <<>> /\ Only({"log"})
  /\ wpc \in AfterAnnounce =>
       /\ Only({"log", "updateFound"})
       /\ \/ told = <<"updateFound">> /\ Only({"log"})
          \/ told = <<>> /\ Queued("updateFound")
  /\ wpc \in {"catch", "tellError"} =>
       /\ Only({"log", "updateFound"})
       /\ told \in {<<>>, <<"updateFound">>}
  /\ wpc = "none" => Only({})

(* What may still be told: a queued callback is preceded in the queue and  *)
(* in the history only by what UpdateCheck allows before it.               *)
AllowedAt(i) ==
  /\ m_CmdQueue[i] = "upToDate" =>
       /\ told = <<>> /\ m_iUpdateStatus = "UP_TO_DATE"
       /\ \A j \in DOMAIN m_CmdQueue : j # i => m_CmdQueue[j] = "log"
  /\ m_CmdQueue[i] = "updateFound" =>
       /\ told = <<>> /\ m_iUpdateStatus \notin {"NONE", "UP_TO_DATE"}
       /\ \A j \in DOMAIN m_CmdQueue :
            /\ j < i => m_CmdQueue[j] = "log"
            /\ j > i => m_CmdQueue[j] \in {"log", "error"}
  /\ m_CmdQueue[i] = "error" =>
       /\ m_iUpdateStatus = "ERROR_EXCEPTION"
       /\ told \in {<<>>, <<"updateFound">>}
       /\ \A j \in DOMAIN m_CmdQueue :
            /\ j < i => m_CmdQueue[j] \in {"log", "updateFound"}
            /\ j > i => m_CmdQueue[j] = "log"

QueueInv == \A i \in DOMAIN m_CmdQueue : AllowedAt(i)

(* The version and the changelog the worker publishes.                     *)
VersionInv ==
  /\ wpc \in {"publish", "upToDate", "tellUpToDate", "announce", "stopCheck", "changelog"}
       => m_jReleases \in Seq(Release) /\ m_jReleases # <<>> /\ m_jReleases[1] \in Version
  /\ wpc \in {"upToDate", "tellUpToDate", "announce", "stopCheck", "changelog"}
       => m_LatestVersion = m_jReleases[1]
  /\ wpc \in {"announce", "stopCheck", "changelog"} => Newer(m_LatestVersion)
  /\ wpc # "none" /\ m_iUpdateStatus \in {"UP_TO_DATE", "UPDATE_FOUND"}
       => m_LatestVersion = m_jReleases[1]

ChangeLogInv ==
  /\ workerChangeLog # {} =>
       /\ wpc \in Finished
       /\ m_LatestVersion \in workerChangeLog /\ m_LatestVersion = m_jReleases[1]
       /\ \A v \in workerChangeLog : Newer(v)
       /\ m_iUpdateStatus = IF m_ChangeLog = {} THEN "LOADING_RELEASES" ELSE "UPDATE_FOUND"
       /\ \/ told = <<"updateFound">>
          \/ told = <<>> /\ Queued("updateFound")
  /\ m_ChangeLog # {} => m_iUpdateStatus = "UPDATE_FOUND" /\ (mpc = "off" \/ m_ChangeLog = workerChangeLog)
  /\ m_iUpdateStatus = "UPDATE_FOUND" =>
       /\ m_ChangeLog # {} /\ m_LatestVersion \in m_ChangeLog
       /\ \A v \in m_ChangeLog : Newer(v)

(* Where the main thread is.                                               *)
MainInv ==
  /\ mpc \in {"frame", "join", "free"} => wpc # "none"
  /\ mpc = "off" => wpc = "none"
  /\ wpc = "none" /\ mpc # "off" => m_iUpdateStatus = "NONE" /\ told = <<>>
  /\ mpc = "free" \/ (mpc = "frame" /\ deleting # "no") => wpc = "done"
  /\ mpc = "idle" => deleting = "no"

IInv ==
  TypeOK /\ StatusInv /\ AnswerInv /\ QueueInv /\ VersionInv /\ ChangeLogInv /\ MainInv

-----------------------------------------------------------------------------
(* What parses is a version, and so is the default one.                    *)
LEMMA ReleasesAreVersions ==
  NoVersion \in Version /\ Release \ {BadTag} = Version
<1>1. NoVersion \in Version
  <2>1. NULL \in Seq(Identifier)
    BY DEF NULL
  <2> QED BY <2>1 DEF NoVersion, Version, Tags
<1>2. BadTag.major \notin Nat
  BY DEF BadTag, NoVersion
<1>3. BadTag \notin Version
  BY <1>2 DEF Version
<1> QED BY <1>1, <1>3 DEF Release

(* The initial state.                                                      *)
LEMMA InitInv == Init => IInv
  <1> SUFFICES ASSUME Init PROVE IInv
    OBVIOUS
  <1>1. TypeOK
    <2>1. callbackId \in [Listeners -> Int]
      BY DEF Init
    <2>2. m_cbCheckFinished \in Seq(Listeners \cup {NoOne})
      BY DEF Init, Listeners
    <2>3. /\ m_CmdQueue \in Seq(Commands) /\ printed \in Seq(Version)
          /\ told \in Seq(Callbacks)
      BY DEF Init
    <2>4. QED
      BY <2>1, <2>2, <2>3, ReleasesAreVersions DEF Init, TypeOK, Statuses, Settled
  <1>2. StatusInv /\ AnswerInv /\ QueueInv
    BY DEF Init, StatusInv, AnswerInv, QueueInv, AllowedAt, Only, Queued, Finished,
           BeforeAnswer, AfterAnnounce
  <1>3. VersionInv /\ ChangeLogInv /\ MainInv
    BY DEF Init, VersionInv, ChangeLogInv, MainInv, Queued, Finished
  <1>4. QED
    BY <1>1, <1>2, <1>3 DEF IInv

(* A push adds the given command behind those already in the queue.        *)
LEMMA PushOne ==
  ASSUME TypeOK, NEW c \in Commands, Push(<<c>>)
  PROVE  /\ m_CmdQueue' \in Seq(Commands)
         /\ Len(m_CmdQueue') = Len(m_CmdQueue) + 1
         /\ DOMAIN m_CmdQueue' = 1..(Len(m_CmdQueue) + 1)
         /\ DOMAIN m_CmdQueue = 1..Len(m_CmdQueue)
         /\ Len(m_CmdQueue) \in Nat
         /\ \A i \in DOMAIN m_CmdQueue : m_CmdQueue'[i] = m_CmdQueue[i]
         /\ m_CmdQueue'[Len(m_CmdQueue) + 1] = c
  BY DEF TypeOK, Push

LEMMA PushLogs ==
  ASSUME TypeOK, Push(<<"log", "log">>)
  PROVE  /\ m_CmdQueue' \in Seq(Commands)
         /\ DOMAIN m_CmdQueue' = 1..(Len(m_CmdQueue) + 2)
         /\ DOMAIN m_CmdQueue = 1..Len(m_CmdQueue)
         /\ Len(m_CmdQueue) \in Nat
         /\ \A i \in DOMAIN m_CmdQueue : m_CmdQueue'[i] = m_CmdQueue[i]
         /\ m_CmdQueue'[Len(m_CmdQueue) + 1] = "log"
         /\ m_CmdQueue'[Len(m_CmdQueue) + 2] = "log"
  BY DEF TypeOK, Push, Commands

(* The changelog of a list whose newest release is newer than the game.    *)
LEMMA ShownFacts ==
  ASSUME NEW list \in Seq(Release), list # <<>>, Newer(list[1])
  PROVE  /\ Shown(list) \subseteq Version
         /\ list[1] \in Shown(list)
         /\ \A v \in Shown(list) : Newer(v)
  <1>1. 1 \in DOMAIN list /\ Reached(list, 1)
    BY ConstantsOK DEF Reached
  <1>2. Shown(list) \subseteq Version /\ \A v \in Shown(list) : Newer(v)
    BY ReleasesAreVersions DEF Shown, Newer
  <1>3. QED
    BY <1>1, <1>2 DEF Shown

(* One lemma per action of the worker.                                     *)
LEMMA WorkerStartStep == ASSUME IInv, WorkerStart PROVE IInv'
  <1> USE DEF IInv, WorkerStart, At, WorkerUnchanged, slots, notif
  <1>1. TypeOK'
    BY PushLogs, ConstantsOK DEF TypeOK, Statuses, Settled, Commands, Callbacks
  <1>2. StatusInv' /\ MainInv'
    BY DEF StatusInv, MainInv, Finished
  <1>3. AnswerInv'
    BY PushLogs, <1>1
       DEF AnswerInv, QueueInv, AllowedAt, Only, Queued, BeforeAnswer, AfterAnnounce,
           Finished, Commands, Callbacks
  <1>4. QueueInv'
    BY PushLogs, <1>1
       DEF AnswerInv, QueueInv, AllowedAt, StatusInv, Only, Queued, BeforeAnswer,
           AfterAnnounce, Finished, Commands, Callbacks
  <1>5. VersionInv'
    BY ConstantsOK DEF VersionInv, StatusInv, Finished
  <1>6. ChangeLogInv'
    BY PushLogs, <1>1
       DEF ChangeLogInv, AnswerInv, StatusInv, Only, Queued, BeforeAnswer,
           AfterAnnounce, Finished, Commands, Callbacks
  <1>7. QED
    BY <1>1, <1>2, <1>3, <1>4, <1>5, <1>6 DEF IInv

LEMMA PerformStep == ASSUME IInv, Perform PROVE IInv'
  <1> USE DEF IInv, Perform, At, WorkerUnchanged, slots, notif
  <1>1. TypeOK'
    BY ConstantsOK DEF TypeOK, Statuses, Settled, Commands, Callbacks
  <1>2. StatusInv' /\ MainInv'
    BY DEF StatusInv, MainInv, Finished
  <1>3. AnswerInv'
    BY <1>1
       DEF AnswerInv, QueueInv, AllowedAt, Only, Queued, BeforeAnswer, AfterAnnounce,
           Finished, Commands, Callbacks
  <1>4. QueueInv'
    BY <1>1
       DEF AnswerInv, QueueInv, AllowedAt, StatusInv, Only, Queued, BeforeAnswer,
           AfterAnnounce, Finished, Commands, Callbacks
  <1>5. VersionInv'
    <2>1. wpc' = "publish" =>
            m_jReleases' \in Seq(Release) /\ m_jReleases' # <<>> /\ m_jReleases'[1] \in Version
      BY ConstantsOK, ReleasesAreVersions DEF IInv, Perform, Unusable
    <2> QED BY <2>1
       DEF IInv, Perform, WorkerUnchanged, VersionInv, StatusInv, Finished
  <1>6. ChangeLogInv'
    BY <1>1
       DEF ChangeLogInv, AnswerInv, StatusInv, Only, Queued, BeforeAnswer,
           AfterAnnounce, Finished, Commands, Callbacks
  <1>7. QED
    BY <1>1, <1>2, <1>3, <1>4, <1>5, <1>6 DEF IInv

LEMMA PublishLatestStep == ASSUME IInv, PublishLatest PROVE IInv'
  <1> USE DEF IInv, PublishLatest, At, WorkerUnchanged, slots, notif
  <1>1. TypeOK'
    <2>1. m_jReleases[1] \in Version
      BY DEF IInv, PublishLatest, VersionInv
    <2>2. QED
      BY <2>1, PushLogs DEF IInv, PublishLatest, WorkerUnchanged, slots, notif, TypeOK
  <1>2. StatusInv' /\ MainInv'
    BY DEF StatusInv, MainInv, Finished
  <1>3. AnswerInv'
    BY PushLogs, <1>1
       DEF AnswerInv, QueueInv, AllowedAt, Only, Queued, BeforeAnswer, AfterAnnounce,
           Finished, Commands, Callbacks
  <1>4. QueueInv'
    BY PushLogs, <1>1
       DEF AnswerInv, QueueInv, AllowedAt, StatusInv, Only, Queued, BeforeAnswer,
           AfterAnnounce, Finished, Commands, Callbacks
  <1>5. VersionInv'
    <2>1. m_jReleases[1] \in Version
      BY DEF IInv, PublishLatest, VersionInv
    <2>2. wpc' = "announce" => Newer(m_jReleases[1])
      <3>1. m_jReleases[1] # BadTag
        BY <2>1, ReleasesAreVersions
      <3> QED BY <2>1, <3>1, ConstantsOK, AnnouncedUpdatesAreNewer DEF PublishLatest, Newer
    <2> QED BY <2>1, <2>2
       DEF IInv, PublishLatest, WorkerUnchanged, VersionInv, StatusInv, Finished
  <1>6. ChangeLogInv'
    BY PushLogs, <1>1
       DEF ChangeLogInv, AnswerInv, StatusInv, Only, Queued, BeforeAnswer,
           AfterAnnounce, Finished, Commands, Callbacks
  <1>7. QED
    BY <1>1, <1>2, <1>3, <1>4, <1>5, <1>6 DEF IInv

LEMMA SetUpToDateStep == ASSUME IInv, SetUpToDate PROVE IInv'
  <1> USE DEF IInv, SetUpToDate, At, WorkerUnchanged, slots, notif
  <1>1. TypeOK'
    BY PushOne, ConstantsOK DEF TypeOK, Statuses, Settled, Commands, Callbacks
  <1>2. StatusInv' /\ MainInv'
    BY DEF StatusInv, MainInv, Finished
  <1>3. AnswerInv'
    BY PushOne, <1>1
       DEF AnswerInv, QueueInv, AllowedAt, Only, Queued, BeforeAnswer, AfterAnnounce,
           Finished, Commands, Callbacks
  <1>4. QueueInv'
    BY PushOne, <1>1
       DEF AnswerInv, QueueInv, AllowedAt, StatusInv, Only, Queued, BeforeAnswer,
           AfterAnnounce, Finished, Commands, Callbacks
  <1>5. VersionInv'
    BY ConstantsOK DEF VersionInv, StatusInv, Finished
  <1>6. ChangeLogInv'
    BY PushOne, <1>1
       DEF ChangeLogInv, AnswerInv, StatusInv, Only, Queued, BeforeAnswer,
           AfterAnnounce, Finished, Commands, Callbacks
  <1>7. QED
    BY <1>1, <1>2, <1>3, <1>4, <1>5, <1>6 DEF IInv

LEMMA TellUpToDateStep == ASSUME IInv, TellUpToDate PROVE IInv'
  <1> USE DEF IInv, TellUpToDate, At, WorkerUnchanged, slots, notif
  <1>1. TypeOK'
    BY PushOne, ConstantsOK DEF TypeOK, Statuses, Settled, Commands, Callbacks
  <1>2. StatusInv' /\ MainInv'
    BY DEF StatusInv, MainInv, Finished
  <1>3. AnswerInv'
    BY PushOne, <1>1
       DEF AnswerInv, QueueInv, AllowedAt, Only, Queued, BeforeAnswer, AfterAnnounce,
           Finished, Commands, Callbacks
  <1>4. QueueInv'
    BY PushOne, <1>1
       DEF AnswerInv, QueueInv, AllowedAt, StatusInv, Only, Queued, BeforeAnswer,
           AfterAnnounce, Finished, Commands, Callbacks
  <1>5. VersionInv'
    BY ConstantsOK DEF VersionInv, StatusInv, Finished
  <1>6. ChangeLogInv'
    BY PushOne, <1>1
       DEF ChangeLogInv, AnswerInv, StatusInv, Only, Queued, BeforeAnswer,
           AfterAnnounce, Finished, Commands, Callbacks
  <1>7. QED
    BY <1>1, <1>2, <1>3, <1>4, <1>5, <1>6 DEF IInv

LEMMA AnnounceStep == ASSUME IInv, Announce PROVE IInv'
  <1> USE DEF IInv, Announce, At, WorkerUnchanged, slots, notif
  <1>1. TypeOK'
    BY PushOne, ConstantsOK DEF TypeOK, Statuses, Settled, Commands, Callbacks
  <1>2. StatusInv' /\ MainInv'
    BY DEF StatusInv, MainInv, Finished
  <1>3. AnswerInv'
    BY PushOne, <1>1, SMTT(60)
       DEF AnswerInv, QueueInv, AllowedAt, Only, Queued, BeforeAnswer, AfterAnnounce,
           Finished, Commands, Callbacks
  <1>4. QueueInv'
    BY PushOne, <1>1, SMTT(60)
       DEF AnswerInv, QueueInv, AllowedAt, StatusInv, Only, Queued, BeforeAnswer,
           AfterAnnounce, Finished, Commands, Callbacks
  <1>5. VersionInv'
    BY ConstantsOK DEF VersionInv, StatusInv, Finished
  <1>6. ChangeLogInv'
    BY PushOne, <1>1
       DEF ChangeLogInv, AnswerInv, StatusInv, Only, Queued, BeforeAnswer,
           AfterAnnounce, Finished, Commands, Callbacks
  <1>7. QED
    BY <1>1, <1>2, <1>3, <1>4, <1>5, <1>6 DEF IInv

LEMMA StopCheckStep == ASSUME IInv, StopCheck PROVE IInv'
  <1> USE DEF IInv, StopCheck, At, WorkerUnchanged, slots, notif
  <1>1. TypeOK'
    BY PushOne, ConstantsOK DEF TypeOK, Statuses, Settled, Commands, Callbacks
  <1>2. StatusInv' /\ MainInv'
    BY DEF StatusInv, MainInv, Finished
  <1>3. AnswerInv'
    <2>1. told' = told
      BY DEF StopCheck, WorkerUnchanged
    <2>2. CASE m_bStopThread
      BY <2>1, <2>2 DEF StopCheck, AnswerInv, BeforeAnswer, AfterAnnounce
    <2>3. CASE ~m_bStopThread
      <3>1. Push(<<"log">>) /\ wpc' = "changelog" /\ wpc = "stopCheck"
        BY <2>3 DEF StopCheck
      <3>2. (Only({"log"}) => Only({"log"})')
            /\ (Only({"log", "updateFound"}) => Only({"log", "updateFound"})')
            /\ (Queued("updateFound") => Queued("updateFound")')
        BY <3>1, PushOne DEF IInv, Only, Queued, Commands
      <3>3. QED
        BY <2>1, <3>1, <3>2 DEF IInv, AnswerInv, BeforeAnswer, AfterAnnounce
    <2>4. QED
      BY <2>2, <2>3
  <1>4. QueueInv'
    BY PushOne, <1>1
       DEF AnswerInv, QueueInv, AllowedAt, StatusInv, Only, Queued, BeforeAnswer,
           AfterAnnounce, Finished, Commands, Callbacks
  <1>5. VersionInv'
    BY ConstantsOK DEF VersionInv, StatusInv, Finished
  <1>6. ChangeLogInv'
    BY PushOne, <1>1
       DEF ChangeLogInv, AnswerInv, StatusInv, Only, Queued, BeforeAnswer,
           AfterAnnounce, Finished, Commands, Callbacks
  <1>7. QED
    BY <1>1, <1>2, <1>3, <1>4, <1>5, <1>6 DEF IInv

LEMMA GenerateChangeLogStep == ASSUME IInv, GenerateChangeLog PROVE IInv'
  <1> USE DEF IInv, GenerateChangeLog, At, WorkerUnchanged, slots, notif
  <1>0. /\ m_jReleases \in Seq(Release) /\ m_jReleases # <<>>
        /\ m_LatestVersion = m_jReleases[1] /\ Newer(m_jReleases[1])
    BY DEF IInv, GenerateChangeLog, VersionInv
  <1>1. TypeOK'
    BY <1>0, ShownFacts
       DEF IInv, GenerateChangeLog, WorkerUnchanged, slots, notif, TypeOK
  <1>2. StatusInv' /\ MainInv'
    BY DEF StatusInv, MainInv, Finished
  <1>3. AnswerInv'
    BY <1>1
       DEF AnswerInv, QueueInv, AllowedAt, Only, Queued, BeforeAnswer, AfterAnnounce,
           Finished, Commands, Callbacks
  <1>4. QueueInv'
    BY <1>1
       DEF AnswerInv, QueueInv, AllowedAt, StatusInv, Only, Queued, BeforeAnswer,
           AfterAnnounce, Finished, Commands, Callbacks
  <1>5. VersionInv'
    BY ConstantsOK DEF VersionInv, StatusInv, Finished
  <1>6. ChangeLogInv'
    <2>1. m_iUpdateStatus = "LOADING_RELEASES" /\ m_ChangeLog = {} /\ workerChangeLog = {}
      BY DEF IInv, GenerateChangeLog, StatusInv, ChangeLogInv, Finished
    <2>2. told = <<"updateFound">> \/ (told = <<>> /\ Queued("updateFound"))
      BY DEF IInv, GenerateChangeLog, AnswerInv, AfterAnnounce
    <2>3. UNCHANGED <<told, m_CmdQueue, m_iUpdateStatus, m_ChangeLog, m_LatestVersion,
                      m_jReleases>>
      BY DEF GenerateChangeLog, WorkerUnchanged
    <2>4. CASE Throws(m_jReleases)
      BY <2>1, <2>3, <2>4 DEF GenerateChangeLog, ChangeLogInv
    <2>5. CASE ~Throws(m_jReleases)
      <3>1. wpc' = "cleanup" /\ workerChangeLog' = Shown(m_jReleases)
        BY <2>5 DEF GenerateChangeLog
      <3>2. QED
        BY <1>0, <2>1, <2>2, <2>3, <3>1, ShownFacts DEF ChangeLogInv, Finished, Queued
    <2>6. QED
      BY <2>4, <2>5
  <1>7. QED
    BY <1>1, <1>2, <1>3, <1>4, <1>5, <1>6 DEF IInv

LEMMA SetErrorStep == ASSUME IInv, SetError PROVE IInv'
  <1> USE DEF IInv, SetError, At, WorkerUnchanged, slots, notif
  <1>1. TypeOK'
    BY PushOne, ConstantsOK DEF TypeOK, Statuses, Settled, Commands, Callbacks
  <1>2. StatusInv' /\ MainInv'
    BY DEF StatusInv, MainInv, Finished
  <1>3. AnswerInv'
    BY PushOne, <1>1
       DEF AnswerInv, QueueInv, AllowedAt, Only, Queued, BeforeAnswer, AfterAnnounce,
           Finished, Commands, Callbacks
  <1>4. QueueInv'
    BY PushOne, <1>1, SMTT(60)
       DEF AnswerInv, QueueInv, AllowedAt, StatusInv, Only, Queued, BeforeAnswer,
           AfterAnnounce, Finished, Commands, Callbacks
  <1>5. VersionInv'
    BY ConstantsOK DEF VersionInv, StatusInv, Finished
  <1>6. ChangeLogInv'
    BY PushOne, <1>1
       DEF ChangeLogInv, AnswerInv, StatusInv, Only, Queued, BeforeAnswer,
           AfterAnnounce, Finished, Commands, Callbacks
  <1>7. QED
    BY <1>1, <1>2, <1>3, <1>4, <1>5, <1>6 DEF IInv

LEMMA TellErrorStep == ASSUME IInv, TellError PROVE IInv'
  <1> USE DEF IInv, TellError, At, WorkerUnchanged, slots, notif
  <1>1. TypeOK'
    BY PushOne, ConstantsOK DEF TypeOK, Statuses, Settled, Commands, Callbacks
  <1>2. StatusInv' /\ MainInv'
    BY DEF StatusInv, MainInv, Finished
  <1>3. AnswerInv'
    BY PushOne, <1>1
       DEF AnswerInv, QueueInv, AllowedAt, Only, Queued, BeforeAnswer, AfterAnnounce,
           Finished, Commands, Callbacks
  <1>4. QueueInv'
    <2>1. /\ Push(<<"error">>) /\ told' = told /\ m_iUpdateStatus' = m_iUpdateStatus
          /\ m_iUpdateStatus = "ERROR_EXCEPTION" /\ told \in {<<>>, <<"updateFound">>}
          /\ Only({"log", "updateFound"})
      BY DEF IInv, TellError, At, WorkerUnchanged, StatusInv, AnswerInv
    <2>2. /\ DOMAIN m_CmdQueue' = 1..(Len(m_CmdQueue) + 1)
          /\ DOMAIN m_CmdQueue = 1..Len(m_CmdQueue) /\ Len(m_CmdQueue) \in Nat
          /\ \A i \in DOMAIN m_CmdQueue : m_CmdQueue'[i] = m_CmdQueue[i]
          /\ m_CmdQueue'[Len(m_CmdQueue) + 1] = "error"
      BY <2>1, PushOne DEF IInv, Commands, Callbacks
    <2>3. \A i \in DOMAIN m_CmdQueue : m_CmdQueue'[i] \in {"log", "updateFound"}
      BY <2>1, <2>2 DEF Only
    <2>4. ASSUME NEW i \in DOMAIN m_CmdQueue, m_CmdQueue[i] = "updateFound"
          PROVE  /\ told = <<>>
                 /\ \A j \in DOMAIN m_CmdQueue : j < i => m_CmdQueue[j] = "log"
                 /\ \A j \in DOMAIN m_CmdQueue : j > i => m_CmdQueue[j] \in {"log", "error"}
      BY <2>4 DEF IInv, QueueInv, AllowedAt
    <2>5. SUFFICES ASSUME NEW i \in DOMAIN m_CmdQueue' PROVE AllowedAt(i)'
      BY DEF QueueInv, AllowedAt
    <2>6. CASE i = Len(m_CmdQueue) + 1
      BY <2>1, <2>2, <2>3, <2>6 DEF AllowedAt
    <2>7. CASE i \in DOMAIN m_CmdQueue
      BY <2>1, <2>2, <2>3, <2>4, <2>7 DEF AllowedAt
    <2>8. QED
      BY <2>2, <2>6, <2>7
  <1>5. VersionInv'
    BY ConstantsOK DEF VersionInv, StatusInv, Finished
  <1>6. ChangeLogInv'
    BY PushOne, <1>1
       DEF ChangeLogInv, AnswerInv, StatusInv, Only, Queued, BeforeAnswer,
           AfterAnnounce, Finished, Commands, Callbacks
  <1>7. QED
    BY <1>1, <1>2, <1>3, <1>4, <1>5, <1>6 DEF IInv

LEMMA WorkerFinishStep == ASSUME IInv, WorkerFinish PROVE IInv'
  <1> USE DEF IInv, WorkerFinish, At, WorkerUnchanged, slots, notif
  <1>1. TypeOK'
    BY PushOne, ConstantsOK, ZenonT(60) DEF TypeOK, Statuses, Settled, Commands, Callbacks
  <1>2. StatusInv' /\ MainInv'
    BY DEF StatusInv, MainInv, Finished
  <1>3. AnswerInv'
    BY PushOne, <1>1
       DEF AnswerInv, QueueInv, AllowedAt, Only, Queued, BeforeAnswer, AfterAnnounce,
           Finished, Commands, Callbacks
  <1>4. QueueInv'
    BY PushOne, <1>1
       DEF AnswerInv, QueueInv, AllowedAt, StatusInv, Only, Queued, BeforeAnswer,
           AfterAnnounce, Finished, Commands, Callbacks
  <1>5. VersionInv'
    BY ConstantsOK DEF VersionInv, StatusInv, Finished
  <1>6. ChangeLogInv'
    BY PushOne, <1>1
       DEF ChangeLogInv, AnswerInv, StatusInv, Only, Queued, BeforeAnswer,
           AfterAnnounce, Finished, Commands, Callbacks
  <1>7. QED
    BY <1>1, <1>2, <1>3, <1>4, <1>5, <1>6 DEF IInv

-----------------------------------------------------------------------------
(* Taking the first command off the queue runs its callbacks at most once  *)
(* and leaves a queue whose callbacks may still be told.                   *)
LEMMA ProcessCommandInv ==
  ASSUME IInv, ProcessCommand, wpc # "none", mpc' = "frame",
         mpc = "idle" \/ (mpc = "join" /\ wpc = "done"),
         UNCHANGED <<updater, wpc, m_bStopThread, workerChangeLog, m_jReleases, slots,
                     m_bUpdatesChecked, m_bIsActive>>
  PROVE  IInv'
  <1>1. CASE m_CmdQueue = <<>>
    <2>1. UNCHANGED <<updater, worker, slots, notif, told>>
      BY <1>1 DEF ProcessCommand, worker, notif
    <2>2. QED
      BY <2>1
         DEF IInv, TypeOK, StatusInv, AnswerInv, Only, Queued, QueueInv, AllowedAt,
             VersionInv, ChangeLogInv, MainInv, updater, worker, slots, notif
  <1>2. CASE m_CmdQueue # <<>>
    <2> DEFINE cmd == Head(m_CmdQueue)
    <2>1. /\ m_CmdQueue' = Tail(m_CmdQueue) /\ cmd = m_CmdQueue[1]
          /\ told' = IF cmd \in Callbacks THEN Append(told, cmd) ELSE told
          /\ m_CmdQueue \in Seq(Commands) /\ told \in Seq(Callbacks)
      BY <1>2 DEF ProcessCommand, IInv, TypeOK
    <2>2. /\ m_CmdQueue' \in Seq(Commands) /\ cmd \in Commands
          /\ Len(m_CmdQueue) \in Nat /\ Len(m_CmdQueue) >= 1
          /\ DOMAIN m_CmdQueue = 1..Len(m_CmdQueue)
          /\ DOMAIN m_CmdQueue' = 1..(Len(m_CmdQueue) - 1)
          /\ \A i \in DOMAIN m_CmdQueue' : m_CmdQueue'[i] = m_CmdQueue[i + 1]
      BY <1>2, <2>1
    <2>3. AllowedAt(1) /\ \A i \in DOMAIN m_CmdQueue' : AllowedAt(i + 1)
      BY <2>2 DEF IInv, QueueInv
    <2>4. /\ m_iUpdateStatus' = m_iUpdateStatus /\ m_LatestVersion' = m_LatestVersion
          /\ m_ChangeLog' = m_ChangeLog /\ deleting' = deleting /\ wpc' = wpc
          /\ workerChangeLog' = workerChangeLog /\ m_jReleases' = m_jReleases
      BY DEF updater
    <2>5. TypeOK'
      <3>1. printed' \in Seq(Version) /\ m_bIsNotified' \in BOOLEAN
        <4>1. GetLatestVersion \in Version
          BY ReleasesAreVersions DEF IInv, TypeOK, GetLatestVersion
        <4>2. /\ printed' = printed \/ printed' = Append(printed, GetLatestVersion)
              /\ m_bIsNotified' \in {TRUE, m_bIsNotified}
          BY <1>2 DEF ProcessCommand, Notify
        <4>3. printed \in Seq(Version) /\ m_bIsNotified \in BOOLEAN
          BY DEF IInv, TypeOK
        <4>4. printed' \in Seq(Version)
          BY <4>1, <4>2, <4>3
        <4>5. m_bIsNotified' \in BOOLEAN
          BY <4>2, <4>3, Zenon
        <4>6. QED
          BY <4>4, <4>5
      <3>2. told' \in Seq(Callbacks)
        BY <2>1
      <3>3. QED
        BY <2>2, <3>1, <3>2 DEF IInv, TypeOK, updater, slots
    <2>6. StatusInv' /\ VersionInv' /\ MainInv'
      BY <2>4 DEF IInv, StatusInv, VersionInv, MainInv, Finished
    <2>9. cmd = "updateFound" => told = <<>> /\ told' = <<"updateFound">>
      <3>1. SUFFICES ASSUME cmd = "updateFound" PROVE told = <<>> /\ told' = <<"updateFound">>
        OBVIOUS
      <3>2. told = <<>>
        BY <2>1, <2>3, <3>1 DEF AllowedAt
      <3>3. told' = Append(told, cmd)
        BY <2>1, <3>1 DEF Callbacks
      <3>4. QED
        BY <3>1, <3>2, <3>3
    <2>7. QueueInv'
      <3>1. SUFFICES ASSUME NEW i \in DOMAIN m_CmdQueue' PROVE AllowedAt(i)'
        BY DEF QueueInv
      <3>2. /\ i + 1 \in DOMAIN m_CmdQueue /\ i + 1 # 1 /\ i + 1 > 1 /\ i \in Nat
            /\ AllowedAt(i + 1) /\ m_CmdQueue'[i] = m_CmdQueue[i + 1]
        BY <2>2, <2>3
      <3>3. CASE cmd = "log"
        <4>1. told' = told
          BY <2>1, <3>3 DEF Callbacks
        <4>2. \A j \in DOMAIN m_CmdQueue' :
                /\ j + 1 \in DOMAIN m_CmdQueue /\ m_CmdQueue'[j] = m_CmdQueue[j + 1]
                /\ (j < i <=> j + 1 < i + 1) /\ (j > i <=> j + 1 > i + 1)
                /\ (j # i <=> j + 1 # i + 1)
          BY <2>2, <3>2
        <4>3. QED
          BY <2>4, <3>2, <4>1, <4>2 DEF AllowedAt
      <3>4. CASE cmd \in {"upToDate", "error"}
        <4>1. m_CmdQueue'[i] = "log"
          BY <2>1, <2>2, <2>3, <3>2, <3>4 DEF AllowedAt
        <4>2. QED
          BY <4>1 DEF AllowedAt
      <3>5. CASE cmd = "updateFound"
        <4>1. told = <<>> /\ told' = <<"updateFound">>
          BY <2>9, <3>5
        <4>2. m_CmdQueue'[i] \in {"log", "error"}
          BY <2>1, <2>2, <2>3, <3>2, <3>5 DEF AllowedAt
        <4>3. \A j \in DOMAIN m_CmdQueue' :
                /\ j + 1 \in DOMAIN m_CmdQueue /\ m_CmdQueue'[j] = m_CmdQueue[j + 1]
                /\ (j < i <=> j + 1 < i + 1) /\ (j > i <=> j + 1 > i + 1)
          BY <2>2, <3>2
        <4>4. QED
          BY <2>4, <3>2, <4>1, <4>2, <4>3 DEF AllowedAt
      <3>6. QED
        BY <2>2, <3>3, <3>4, <3>5 DEF Commands, Callbacks
    <2>8. \A C : Only(C) => Only(C)' /\ cmd \in C
      BY <2>1, <2>2 DEF Only
    <2>13. \/ told' = told /\ (Queued("updateFound") => Queued("updateFound")')
           \/ cmd = "updateFound" /\ told' = <<"updateFound">>
           \/ cmd \in {"upToDate", "error"} /\ ~Queued("updateFound")
      <3>1. CASE cmd = "log"
        <4>1. told' = told
          BY <2>1, <3>1 DEF Callbacks
        <4>2. ASSUME NEW k \in DOMAIN m_CmdQueue, m_CmdQueue[k] = "updateFound"
              PROVE  k - 1 \in DOMAIN m_CmdQueue' /\ m_CmdQueue'[k - 1] = "updateFound"
          BY <2>1, <2>2, <3>1, <4>2
        <4>3. QED
          BY <4>1, <4>2 DEF Queued
      <3>2. CASE cmd = "updateFound"
        BY <2>9, <3>2
      <3>3. CASE cmd \in {"upToDate", "error"}
        <4>1. \A j \in DOMAIN m_CmdQueue : j # 1 => m_CmdQueue[j] = "log"
          BY <2>1, <2>2, <2>3, <3>3 DEF AllowedAt
        <4>2. ~Queued("updateFound")
          BY <2>1, <2>2, <3>3, <4>1 DEF Queued
        <4>3. QED
          BY <3>3, <4>2
      <3>4. QED
        BY <2>2, <3>1, <3>2, <3>3 DEF Commands, Callbacks
    <2>14. Only({"log"}) => told' = told
      BY <2>1, <2>8 DEF Callbacks
    <2>10. AnswerInv'
      <3>1. CASE wpc \in BeforeAnswer
        BY <2>4, <2>8, <2>14, <3>1 DEF IInv, AnswerInv, BeforeAnswer, AfterAnnounce
      <3>2. CASE wpc \in AfterAnnounce
        <4>1. Only({"log", "updateFound"})' /\ cmd \in {"log", "updateFound"}
          BY <2>8, <3>2 DEF IInv, AnswerInv
        <4>2. CASE told = <<"updateFound">> /\ Only({"log"})
          BY <2>4, <2>8, <2>14, <3>2, <4>1, <4>2
             DEF AnswerInv, BeforeAnswer, AfterAnnounce
        <4>3. CASE told = <<>> /\ Queued("updateFound") /\ cmd = "log"
          BY <2>4, <2>13, <3>2, <4>1, <4>3 DEF AnswerInv, BeforeAnswer, AfterAnnounce
        <4>4. CASE cmd = "updateFound"
          <5>1. Only({"log"})'
            BY <2>1, <2>2, <2>3, <4>1, <4>4 DEF AllowedAt, Only
          <5>2. QED
            BY <2>4, <2>9, <3>2, <4>1, <4>4, <5>1
               DEF AnswerInv, BeforeAnswer, AfterAnnounce
        <4>5. QED
          BY <3>2, <4>1, <4>2, <4>3, <4>4 DEF IInv, AnswerInv
      <3>3. CASE wpc \in {"catch", "tellError"}
        <4>1. Only({"log", "updateFound"})' /\ cmd \in {"log", "updateFound"}
          BY <2>8, <3>3 DEF IInv, AnswerInv
        <4>2. told' \in {<<>>, <<"updateFound">>}
          BY <2>9, <2>13, <3>3, <4>1 DEF IInv, AnswerInv
        <4>3. QED
          BY <2>4, <3>3, <4>1, <4>2 DEF AnswerInv, BeforeAnswer, AfterAnnounce
      <3>4. CASE wpc \in Finished
        BY <2>4, <3>4 DEF AnswerInv, BeforeAnswer, AfterAnnounce, Finished
      <3>5. QED
        BY <3>1, <3>2, <3>3, <3>4
           DEF IInv, TypeOK, BeforeAnswer, AfterAnnounce, Finished
    <2>11. ChangeLogInv'
      <3>1. CASE workerChangeLog = {}
        BY <2>4, <3>1 DEF IInv, ChangeLogInv, MainInv
      <3>2. CASE workerChangeLog # {}
        <4>1. m_iUpdateStatus \notin {"UP_TO_DATE", "ERROR_EXCEPTION"}
          BY <3>2 DEF IInv, ChangeLogInv
        <4>2. cmd \notin {"upToDate", "error"}
          BY <2>1, <2>3, <4>1 DEF AllowedAt
        <4>3. told' = <<"updateFound">> \/ (told' = <<>> /\ Queued("updateFound")')
          BY <2>13, <3>2, <4>2 DEF IInv, ChangeLogInv
        <4>4. QED
          BY <2>4, <3>2, <4>3 DEF IInv, ChangeLogInv, MainInv
      <3>3. QED
        BY <3>1, <3>2
    <2>12. QED
      BY <2>5, <2>6, <2>7, <2>10, <2>11 DEF IInv
  <1>3. QED
    BY <1>1, <1>2

LEMMA FrameStep == ASSUME IInv, Frame PROVE IInv'
  BY ProcessCommandInv DEF Frame

LEMMA JoinStep == ASSUME IInv, Join PROVE IInv'
  BY ProcessCommandInv DEF Join

LEMMA TakeChangeLogStep == ASSUME IInv, TakeChangeLog PROVE IInv'
  <1> USE DEF IInv, TakeChangeLog, worker, slots, notif
  <1>1. TypeOK'
    <2>1. m_ChangeLog' \in SUBSET Version /\ m_iUpdateStatus' \in Statuses
      BY DEF TypeOK, Statuses, Settled
    <2>2. mpc' \in {"idle", "frame", "join", "free", "off"}
      OBVIOUS
    <2>3. QED
      BY <2>1, <2>2 DEF TypeOK
  <1>2. StatusInv'
    BY DEF StatusInv, ChangeLogInv, Finished
  <1>3. AnswerInv'
    BY DEF AnswerInv, Only, Queued
  <1>4. QueueInv'
    BY DEF QueueInv, AllowedAt, ChangeLogInv
  <1>5. VersionInv'
    BY DEF VersionInv, ChangeLogInv
  <1>6. ChangeLogInv'
    BY DEF ChangeLogInv, Queued
  <1>7. MainInv'
    BY DEF MainInv
  <1>8. QED
    BY <1>1, <1>2, <1>3, <1>4, <1>5, <1>6, <1>7

(* A new worker has told nothing, queued nothing and published nothing.    *)
LEMMA StartCheckInv ==
  ASSUME IInv, StartCheck, TypeOK' PROVE IInv'
  BY DEF IInv, StartCheck, StatusInv, AnswerInv, QueueInv, VersionInv, ChangeLogInv,
         MainInv, Only, Queued, BeforeAnswer, AfterAnnounce, Finished

LEMMA StopWorkerInv ==
  ASSUME IInv, NEW why \in {"restart", "quit"}, StopWorker(why), wpc # "none", TypeOK'
  PROVE  IInv'
  BY DEF IInv, StopWorker, StatusInv, AnswerInv, QueueInv, AllowedAt, VersionInv,
         ChangeLogInv, MainInv, Only, Queued, BeforeAnswer, AfterAnnounce, Finished

(* Opening and closing a page touches the callback slots only.             *)
LEMMA SlotsStep ==
  ASSUME IInv, TypeOK', UNCHANGED <<updater, worker, mpc, told>>
  PROVE  IInv'
  BY DEF IInv, updater, worker, StatusInv, AnswerInv, QueueInv, AllowedAt, VersionInv,
         ChangeLogInv, MainInv, Only, Queued

LEMMA UpdaterTypes ==
  ASSUME TypeOK, StartCheck \/ \E why \in {"restart", "quit"} : StopWorker(why)
  PROVE  /\ m_iUpdateStatus' \in Statuses /\ m_LatestVersion' \in Version
         /\ m_ChangeLog' \in SUBSET Version /\ workerChangeLog' \in SUBSET Version
         /\ m_jReleases' \in ReleaseLists \cup {<<>>}
         /\ deleting' \in {"no", "restart", "quit"}
         /\ mpc' \in {"idle", "frame", "join", "free", "off"}
         /\ wpc' \in {"none", "start", "perform", "publish", "upToDate", "tellUpToDate",
                      "announce", "stopCheck", "changelog", "catch", "tellError",
                      "cleanup", "done"}
         /\ m_CmdQueue' \in Seq(Commands) /\ m_bStopThread' \in BOOLEAN
         /\ told' \in Seq(Callbacks)
  <1>1. CASE StartCheck
    <2>1. m_CmdQueue' \in Seq(Commands) /\ told' \in Seq(Callbacks)
      BY <1>1 DEF StartCheck
    <2>2. QED
      BY <1>1, <2>1, ReleasesAreVersions DEF StartCheck, Statuses
  <1>2. CASE \E why \in {"restart", "quit"} : StopWorker(why)
    BY <1>2 DEF StopWorker, TypeOK
  <1>3. QED
    BY <1>1, <1>2

LEMMA CheckCommandStep == ASSUME IInv, CheckCommand PROVE IInv'
  <1>1. StartCheck \/ (StopWorker("restart") /\ wpc # "none")
    BY DEF CheckCommand, CheckForUpdates
  <1>2. UNCHANGED <<slots, notif>>
    BY DEF CheckCommand
  <1>3. TypeOK'
    BY <1>1, <1>2, UpdaterTypes DEF IInv, TypeOK, slots, notif
  <1>4. QED
    BY <1>1, <1>3, StartCheckInv, StopWorkerInv

LEMMA AutoCheckStep == ASSUME IInv, AutoCheck PROVE IInv'
  <1>0. /\ m_bIsActive' \in BOOLEAN /\ m_bUpdatesChecked' \in BOOLEAN
        /\ UNCHANGED <<slots, m_bIsNotified, printed>>
    BY DEF AutoCheck
  <1>1. CASE m_bIsActive'
    <2>1. StartCheck \/ (StopWorker("restart") /\ wpc # "none")
      BY <1>1 DEF AutoCheck, CheckForUpdates
    <2>2. TypeOK'
      BY <1>0, <2>1, UpdaterTypes DEF IInv, TypeOK, slots
    <2>3. QED
      BY <2>1, <2>2, StartCheckInv, StopWorkerInv
  <1>2. CASE ~m_bIsActive'
    <2>1. UNCHANGED <<updater, worker, mpc, told>>
      BY <1>2 DEF AutoCheck
    <2>2. TypeOK'
      BY <1>0, <2>1 DEF IInv, TypeOK, updater, worker, slots
    <2>3. QED
      BY <2>1, <2>2, SlotsStep
  <1>3. QED
    BY <1>1, <1>2

LEMMA FreeStep == ASSUME IInv, Free PROVE IInv'
  <1>0. UNCHANGED <<slots, notif>>
    BY DEF Free
  <1>1. CASE deleting = "restart"
    <2>1. TypeOK'
      BY <1>0, <1>1, UpdaterTypes DEF Free, IInv, TypeOK, slots, notif
    <2>2. QED
      BY <1>1, <2>1, StartCheckInv DEF Free
  <1>2. CASE deleting # "restart"
    <2>0. m_CmdQueue' \in Seq(Commands)
      BY <1>2 DEF Free
    <2>1. TypeOK'
      BY <1>0, <1>2, <2>0 DEF Free, IInv, TypeOK, slots, notif
    <2>2. QED
      BY <1>2, <2>1
         DEF IInv, Free, StatusInv, AnswerInv, QueueInv, VersionInv, ChangeLogInv,
             MainInv, Only, BeforeAnswer, AfterAnnounce, Finished
  <1>3. QED
    BY <1>1, <1>2

LEMMA RemoveCallbackTypes ==
  ASSUME TypeOK, NEW l \in Listeners, RemoveCallback(l)
  PROVE  /\ m_cbCheckFinished' \in Seq(Listeners \cup {NoOne})
         /\ callbackId' \in [Listeners -> Int]
  <1>1. callbackId' \in [Listeners -> Int]
    BY DEF TypeOK, RemoveCallback
  <1>2. m_cbCheckFinished' \in Seq(Listeners \cup {NoOne})
    <2> DEFINE S == Listeners \cup {NoOne}
    <2>1. m_cbCheckFinished \in Seq(S) /\ NoOne \in S
      BY DEF TypeOK
    <2>2. m_cbCheckFinished' = [m_cbCheckFinished EXCEPT ![callbackId[l] + 1] = NoOne]
      BY DEF RemoveCallback
    <2>5. m_cbCheckFinished \in [1..Len(m_cbCheckFinished) -> S] /\ Len(m_cbCheckFinished) \in Nat
      BY <2>1, LenProperties
    <2>6. m_cbCheckFinished' \in [1..Len(m_cbCheckFinished) -> S]
      BY <2>1, <2>2, <2>5
    <2>3. m_cbCheckFinished' \in Seq(S)
      BY <2>5, <2>6, IsASeq
    <2>4. QED
      BY <2>3 DEF S
  <1>3. QED
    BY <1>1, <1>2

LEMMA PageStep ==
  ASSUME IInv, NEW p \in Pages, OpenPage(p) \/ ClosePage(p) PROVE IInv'
  <1>0. p \in Listeners
    BY DEF Listeners
  <1>1. CASE OpenPage(p)
    <2>1. TypeOK'
      BY <1>0, <1>1 DEF IInv, TypeOK, OpenPage, AddCallback, updater, worker, notif
    <2>2. QED
      BY <1>1, <2>1, SlotsStep DEF OpenPage
  <1>2. CASE ClosePage(p)
    <2>1. TypeOK'
      BY <1>0, <1>2, RemoveCallbackTypes
         DEF IInv, TypeOK, ClosePage, updater, worker, notif
    <2>2. QED
      BY <1>2, <2>1, SlotsStep DEF ClosePage
  <1>3. QED
    BY <1>1, <1>2

LEMMA ShutdownStep == ASSUME IInv, Shutdown PROVE IInv'
  <1>0. Notif \in Listeners
    BY DEF Listeners
  <1>1. TypeOK'
    BY <1>0, RemoveCallbackTypes
       DEF IInv, TypeOK, Shutdown, StopWorker, updater, worker, notif
  <1>2. CASE wpc = "none"
    BY <1>1, <1>2
       DEF Shutdown, IInv, updater, worker, StatusInv, AnswerInv, QueueInv, AllowedAt,
           VersionInv, ChangeLogInv, MainInv, Only, Queued
  <1>3. CASE wpc # "none"
    BY <1>1, <1>3, StopWorkerInv DEF Shutdown
  <1>4. QED
    BY <1>2, <1>3

-----------------------------------------------------------------------------
LEMMA InvStep == IInv /\ [Next]_vars => IInv'
  <1> SUFFICES ASSUME IInv, [Next]_vars PROVE IInv'
    OBVIOUS
  <1>1. CASE Worker
    BY <1>1, WorkerStartStep, PerformStep, PublishLatestStep, SetUpToDateStep,
       TellUpToDateStep, AnnounceStep, StopCheckStep, GenerateChangeLogStep,
       SetErrorStep, TellErrorStep, WorkerFinishStep
       DEF Worker
  <1>2. CASE Main
    BY <1>2, FrameStep, TakeChangeLogStep, CheckCommandStep, AutoCheckStep, JoinStep,
       FreeStep, ShutdownStep, PageStep
       DEF Main
  <1>3. CASE UNCHANGED vars
    <2>1. TypeOK'
      BY <1>3 DEF IInv, TypeOK, vars, updater, worker, slots, notif
    <2>2. QED
      BY <1>3, <2>1, SlotsStep DEF vars
  <1>4. QED
    BY <1>1, <1>2, <1>3 DEF Next, Off

(* The inductive invariant holds of every reachable state.                 *)
THEOREM InvariantHolds == Spec => []IInv
  BY InitInv, InvStep, PTL DEF Spec

(* Every variable keeps its type.                                          *)
THEOREM TypeCorrect == Spec => []TypeOK
  <1>1. IInv => TypeOK
    BY DEF IInv
  <1>2. QED
    BY <1>1, InvariantHolds, PTL

(* GetLatestVersion never reads m_LatestVersion while the worker may still *)
(* write it, and what it reads is the newest release of the reply.         *)
THEOREM LatestVersionIsReadSafely == Spec => []LatestVersionReadSafe
  <1>1. IInv => LatestVersionReadSafe
    BY DEF IInv, LatestVersionReadSafe, StatusInv, VersionInv
  <1>2. QED
    BY <1>1, InvariantHolds, PTL

(* An update found is complete: its changelog is there, describes the      *)
(* newest release, and its announcement was told or is on its way.         *)
THEOREM FoundUpdatesAreComplete == Spec => []FoundIsComplete
  <1>1. IInv => FoundIsComplete
    <2> SUFFICES ASSUME IInv, m_iUpdateStatus = "UPDATE_FOUND" PROVE FoundIsComplete
      BY DEF FoundIsComplete
    <2>1. m_LatestVersion \in m_ChangeLog /\ \A v \in m_ChangeLog : Newer(v)
      BY DEF IInv, ChangeLogInv
    <2>2. mpc = "off" \/ workerChangeLog # {}
      BY DEF IInv, ChangeLogInv
    <2>3. DOMAIN m_CmdQueue = 1..Len(m_CmdQueue)
      BY DEF IInv, TypeOK
    <2>4. QED
      BY <2>1, <2>2, <2>3 DEF IInv, ChangeLogInv, FoundIsComplete, Queued
  <1>2. QED
    BY <1>1, InvariantHolds, PTL

-----------------------------------------------------------------------------
(* The updater implements UpdateCheck: a step of either thread is a step   *)
(* of the abstract check or leaves what its users see unchanged.           *)
LEMMA ProcessCommandTells ==
  ASSUME IInv, ProcessCommand, m_iUpdateStatus' = m_iUpdateStatus
  PROVE  [UC!Next]_(UC!vars)
  <1>1. CASE told' = told
    BY <1>1 DEF UC!vars
  <1>2. CASE told' # told
    <2> DEFINE cmd == Head(m_CmdQueue)
    <2>1. m_CmdQueue # <<>> /\ cmd \in Callbacks /\ told' = Append(told, cmd)
      BY <1>2 DEF ProcessCommand
    <2>2. 1 \in DOMAIN m_CmdQueue /\ m_CmdQueue[1] = cmd
      BY <2>1 DEF IInv, TypeOK
    <2>3. AllowedAt(1)
      BY <2>2 DEF IInv, QueueInv
    <2>4. UC!MayTell(cmd)
      BY <2>1, <2>2, <2>3 DEF AllowedAt, UC!MayTell, Callbacks
    <2>5. UC!Tell(cmd) /\ cmd \in UC!Callbacks
      BY <2>1, <2>4 DEF UC!Tell, UC!Callbacks, Callbacks
    <2>6. QED
      BY <2>5 DEF UC!Next
  <1>3. QED
    BY <1>1, <1>2

LEMMA RefinementStep == IInv /\ [Next]_vars => [UC!Next]_(UC!vars)
  <1> SUFFICES ASSUME IInv, [Next]_vars PROVE [UC!Next]_(UC!vars)
    OBVIOUS
  <1>1. CASE WorkerStart
    BY <1>1 DEF WorkerStart, At, WorkerUnchanged, IInv, StatusInv, UC!Next, UC!Load
  <1>2. CASE SetUpToDate \/ SetError
    <2>1. m_iUpdateStatus = "LOADING_RELEASES" /\ told' = told
          /\ m_iUpdateStatus' \in UC!Settled
      BY <1>2
         DEF SetUpToDate, SetError, At, WorkerUnchanged, IInv, StatusInv, UC!Settled
    <2>2. QED
      BY <2>1 DEF UC!Next, UC!Settle
  <1>3. CASE TakeChangeLog
    <2>1. UNCHANGED <<m_iUpdateStatus, told>> \/ UC!Settle
      BY <1>3 DEF TakeChangeLog, IInv, ChangeLogInv, UC!Settle, UC!Settled
    <2>2. QED
      BY <2>1 DEF UC!Next, UC!vars
  <1>4. CASE Frame \/ Join
    BY <1>4, ProcessCommandTells DEF Frame, Join, updater
  <1>5. CASE CheckCommand \/ AutoCheck \/ Free \/ Shutdown
    <2>1. UNCHANGED <<m_iUpdateStatus, told>> \/ UC!Restart
      BY <1>5
         DEF CheckCommand, AutoCheck, Free, Shutdown, CheckForUpdates, StartCheck,
             StopWorker, updater, UC!Restart
    <2>2. QED
      BY <2>1 DEF UC!Next, UC!vars
  <1>6. CASE \/ Perform \/ PublishLatest \/ TellUpToDate \/ Announce \/ StopCheck
             \/ GenerateChangeLog \/ TellError \/ WorkerFinish
    <2>1. UNCHANGED <<m_iUpdateStatus, told>>
      BY <1>6
         DEF Perform, PublishLatest, TellUpToDate, Announce, StopCheck,
             GenerateChangeLog, TellError, WorkerFinish, WorkerUnchanged
    <2>2. QED
      BY <2>1 DEF UC!vars
  <1>7. CASE Off \/ UNCHANGED vars \/ \E p \in Pages : OpenPage(p) \/ ClosePage(p)
    <2>1. UNCHANGED <<m_iUpdateStatus, told>>
      BY <1>7 DEF Off, vars, OpenPage, ClosePage, updater
    <2>2. QED
      BY <2>1 DEF UC!vars
  <1>8. QED
    BY <1>1, <1>2, <1>3, <1>4, <1>5, <1>6, <1>7 DEF Next, Worker, Main

(* The updater keeps the promise of CGameUpdater.h: one settled status per *)
(* check, and only the callbacks that status allows, each at most once.    *)
THEOREM UpdaterImplementsUpdateCheck == Spec => ImplementsUpdateCheck
  <1>1. Init => UC!Init
    BY DEF Init, UC!Init
  <1>2. QED
    BY <1>1, RefinementStep, InvariantHolds, PTL
       DEF Spec, ImplementsUpdateCheck, UC!Spec

-----------------------------------------------------------------------------
(* Callback ids: with the range of the ids the property is inductive.      *)
SlotInv ==
  /\ TypeOK
  /\ \A l \in Listeners : callbackId[l] \in -1..(Len(m_cbCheckFinished) - 1)
  /\ IdsNameTheirSlots

LEMMA AddCallbackSlots ==
  ASSUME SlotInv, NEW l \in Listeners, callbackId[l] = -1, AddCallback(l), TypeOK'
  PROVE  SlotInv'
  <1> DEFINE n == Len(m_cbCheckFinished)
  <1>1. /\ n \in Nat /\ Len(m_cbCheckFinished') = n + 1
        /\ \A i \in 1..n : m_cbCheckFinished'[i] = m_cbCheckFinished[i]
        /\ m_cbCheckFinished'[n + 1] = l
    BY DEF SlotInv, TypeOK, AddCallback
  <1>2. callbackId'[l] = n /\ \A x \in Listeners \ {l} : callbackId'[x] = callbackId[x]
    BY DEF SlotInv, TypeOK, AddCallback
  <1>3. \A x \in Listeners : callbackId[x] \in -1..(n - 1)
    BY DEF SlotInv
  <1>4. \A x \in Listeners : \A i \in 1..n : m_cbCheckFinished[i] = x <=> callbackId[x] = i - 1
    BY DEF SlotInv, IdsNameTheirSlots
  <1>5. \A x \in Listeners : callbackId'[x] \in -1..(Len(m_cbCheckFinished') - 1)
    BY <1>1, <1>2, <1>3
  <1>6. ASSUME NEW x \in Listeners, NEW i \in 1..Len(m_cbCheckFinished')
        PROVE  m_cbCheckFinished'[i] = x <=> callbackId'[x] = i - 1
    <2>1. CASE i = n + 1
      BY <1>1, <1>2, <1>3, <2>1
    <2>2. CASE i \in 1..n
      BY <1>1, <1>2, <1>4, <2>2
    <2>3. QED
      BY <1>1, <2>1, <2>2
  <1>7. QED
    BY <1>5, <1>6 DEF SlotInv, IdsNameTheirSlots

LEMMA RemoveCallbackSlots ==
  ASSUME SlotInv, NEW l \in Listeners, callbackId[l] # -1, RemoveCallback(l), TypeOK'
  PROVE  SlotInv'
  <1> DEFINE n == Len(m_cbCheckFinished)
             k == callbackId[l] + 1
  <1>1. k \in 1..n /\ n \in Nat /\ DOMAIN m_cbCheckFinished = 1..n
    BY DEF SlotInv, TypeOK
  <1>2. m_cbCheckFinished' = [m_cbCheckFinished EXCEPT ![k] = NoOne]
    BY DEF RemoveCallback
  <1>3. /\ m_cbCheckFinished \in Seq(Listeners \cup {NoOne})
        /\ NoOne \in Listeners \cup {NoOne}
    BY DEF SlotInv, TypeOK
  <1>4. /\ Len(m_cbCheckFinished') = n
        /\ \A i \in 1..n : m_cbCheckFinished'[i] = IF i = k THEN NoOne ELSE m_cbCheckFinished[i]
    BY <1>1, <1>2, <1>3, ExceptSeq
  <1>5. callbackId'[l] = -1 /\ \A x \in Listeners \ {l} : callbackId'[x] = callbackId[x]
    BY DEF SlotInv, TypeOK, RemoveCallback
  <1>6. \A x \in Listeners : callbackId[x] \in -1..(n - 1)
    BY DEF SlotInv
  <1>7. \A x \in Listeners : \A i \in 1..n : m_cbCheckFinished[i] = x <=> callbackId[x] = i - 1
    BY DEF SlotInv, IdsNameTheirSlots
  <1>8. \A x \in Listeners : callbackId'[x] \in -1..(Len(m_cbCheckFinished') - 1)
    BY <1>1, <1>4, <1>5, <1>6
  <1>9. ASSUME NEW x \in Listeners, NEW i \in 1..Len(m_cbCheckFinished')
        PROVE  m_cbCheckFinished'[i] = x <=> callbackId'[x] = i - 1
    <2>1. CASE i = k
      <3>1. m_cbCheckFinished'[i] # x
        BY <1>1, <1>4, <2>1, ConstantsOK
      <3>2. callbackId'[x] # i - 1
        <4>1. m_cbCheckFinished[k] = l
          BY <1>1, <1>6, <1>7
        <4>2. x # l => callbackId[x] # k - 1
          BY <1>1, <1>7, <4>1
        <4>3. QED
          BY <1>1, <1>5, <2>1, <4>2
      <3>3. QED
        BY <3>1, <3>2
    <2>2. CASE i # k
      <3>1. m_cbCheckFinished'[i] = x <=> callbackId[x] = i - 1
        BY <1>4, <1>7, <2>2
      <3>2. CASE x = l
        BY <1>1, <1>4, <1>5, <2>2, <3>1, <3>2
      <3>3. CASE x # l
        BY <1>5, <3>1, <3>3
      <3>4. QED
        BY <3>2, <3>3
    <2>3. QED
      BY <2>1, <2>2
  <1>10. QED
    BY <1>8, <1>9 DEF SlotInv, IdsNameTheirSlots

LEMMA SlotStep == SlotInv /\ [Next]_vars /\ TypeOK' => SlotInv'
  <1> SUFFICES ASSUME SlotInv, [Next]_vars, TypeOK' PROVE SlotInv'
    OBVIOUS
  <1>1. CASE UNCHANGED slots
    BY <1>1 DEF SlotInv, IdsNameTheirSlots, slots
  <1>2. CASE Shutdown
    <2>1. Notif \in Listeners /\ callbackId[Notif] # -1 /\ RemoveCallback(Notif)
      BY <1>2 DEF Shutdown, Listeners
    <2>2. QED
      BY <2>1, RemoveCallbackSlots
  <1>3. ASSUME NEW p \in Pages, OpenPage(p) \/ ClosePage(p) PROVE SlotInv'
    <2>1. p \in Listeners
      BY DEF Listeners
    <2>2. QED
      BY <1>3, <2>1, AddCallbackSlots, RemoveCallbackSlots DEF OpenPage, ClosePage
  <1>4. [Next]_vars => \/ UNCHANGED slots \/ Shutdown
                       \/ \E p \in Pages : OpenPage(p) \/ ClosePage(p)
    BY DEF Next, Worker, Main, Off, vars, WorkerStart, Perform, PublishLatest,
           SetUpToDate, TellUpToDate, Announce, StopCheck, GenerateChangeLog, SetError,
           TellError, WorkerFinish, WorkerUnchanged, Frame, TakeChangeLog, CheckCommand,
           AutoCheck, Join, Free
  <1>5. QED
    BY <1>1, <1>2, <1>3, <1>4

(* RemoveCheckFinishedCallback always empties the caller's own slot.       *)
THEOREM CallbackIdsStayValid == Spec => []IdsNameTheirSlots
  <1>1. Init => SlotInv
    <2> SUFFICES ASSUME Init PROVE SlotInv
      OBVIOUS
    <2>1. TypeOK
      BY InitInv DEF IInv
    <2>2. m_cbCheckFinished = <<Notif>>
          /\ callbackId = [l \in Listeners |-> IF l = Notif THEN 0 ELSE -1]
      BY DEF Init
    <2>3. QED
      BY <2>1, <2>2 DEF SlotInv, IdsNameTheirSlots
  <1>2. SlotInv => IdsNameTheirSlots
    BY DEF SlotInv
  <1>3. QED
    BY <1>1, <1>2, SlotStep, TypeCorrect, PTL DEF Spec
============================================================================
