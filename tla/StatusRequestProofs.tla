-------------------------- MODULE StatusRequestProofs --------------------------
(***************************************************************************)
(* The ids of the scoreboard and what is kept from the console, for any    *)
(* number of slots and players, and any number of answers that are late,   *)
(* repeated, split or cut off by a change of level.                        *)
(*                                                                         *)
(* Neither property is inductive: what the client will do wrong is already *)
(* on the wire.  IdInv follows every slot's occupants along the wire, from *)
(* the engine's table to the server's: a slot passes from one player to    *)
(* the next through nobody, and whoever leaves has been announced, with no *)
(* row about him after that.  HiddenInv says which texts follow each other *)
(* on the wire, and which of them the client is about to read.             *)
(***************************************************************************)
EXTENDS StatusRequest, FiniteSetTheorems, TLAPS

Anyone == Players \cup {NoPlayer}

(* No change of s, and no row about p, among the texts i to k - 1 of w.    *)
Unchanged(w, s, i, k) == \A m \in i..(k - 1) : w[m].kind = "info" => w[m].slot # s
Unlisted(w, p, i, k)  == \A m \in i..(k - 1) : w[m].kind = "row" => w[m].who # p

(* The client's table nm says that p occupies s once it has read what      *)
(* precedes the k-th text of w.                                            *)
Occupies(w, nm, p, s, k) ==
  \/ p = nm[s] /\ Unchanged(w, s, 1, k)
  \/ \E i \in 1..(k - 1) : w[i] = Info(s, p) /\ Unchanged(w, s, i + 1, k)

(* By then p is known to have left s: it is yet to be read that he         *)
(* dropped, or was, and the id g[s] is not his, or was overlooked.         *)
Announced(w, g, ms, p, s, k) ==
  \/ \E i \in 1..(k - 1) :
       w[i] = Dropped(p) /\ Unchanged(w, s, i + 1, k) /\ Unlisted(w, p, i + 1, k)
  \/ /\ Unchanged(w, s, 1, k) /\ Unlisted(w, p, 1, k)
     /\ g[s] # p \/ <<s, p>> \in ms

(* So that q may take his place.                                           *)
MayFollow(w, nm, g, ms, q, s, k) ==
  \A p \in Anyone : Occupies(w, nm, p, s, k) =>
    IF q = NoPlayer THEN p # NoPlayer /\ Announced(w, g, ms, p, s, k) ELSE p = NoPlayer

Follows(q, s, k) == MayFollow(wire, names, g_PlayerSteamId, missed, q, s, k)

End == Len(wire) + 1

RosterInv ==
  \A s, t \in Slots : roster[s] # NoPlayer /\ roster[s] = roster[t] => s = t

WireInv == \A k \in 1..Len(wire) : wire[k].kind = "info" => Follows(wire[k].who, wire[k].slot, k)

(* At the end of the wire the client's table is the server's, but for the  *)
(* change that is not broadcast yet.                                       *)
Pending(s) == lag # <<>> /\ lag[1].slot = s

EndInv ==
  /\ \A s \in Slots, p \in Anyone : ~Pending(s) /\ Occupies(wire, names, p, s, End) => p = roster[s]
  /\ Len(lag) <= 1
  /\ \A s \in Slots : Pending(s) =>
       /\ lag[1].who = roster[s]
       /\ Follows(roster[s], s, End)
       /\ roster[s] = NoPlayer =>
            \A p \in Anyone : Occupies(wire, names, p, s, End) =>
              \A t \in Slots : roster[t] # p

IdInv == IdsOfOccupants /\ RosterInv /\ WireInv /\ EndInv

(* An answer comes in one piece: what each of its texts is followed by.    *)
InAnswer(x) == x.kind \in {"hostname", "map", "header", "row", "rest"}

Precedes(x, y) ==
  /\ x.kind = "hostname" => y.kind = "map"
  /\ x.kind = "map" => y = Header(TRUE)
  /\ x.kind = "row" /\ ~x.nl => y.kind = "rest"
  /\ x.kind \in {"header", "rest"} \/ (x.kind = "row" /\ x.nl) => y.kind \in {"row", "end"}

WellFormed(w) ==
  \A k \in 1..Len(w) : InAnswer(w[k]) =>
    /\ w[k].kind = "header" => w[k].nl
    /\ k < Len(w) /\ Precedes(w[k], w[k + 1])
    /\ \E j \in (k + 1)..Len(w) : w[j].kind = "end"

(* As long as answers are in time and the level goes on: there is none on  *)
(* the way a second after the request, and the client is in step with the  *)
(* one it reads.                                                           *)
InTime == slow = 0 /\ levels = 0

NextIs(kinds) == wire # <<>> /\ str.kind \in kinds

StepInv ==
  InTime =>
    /\ ~recent => ~Answering
    /\ m_iStatusRequestState = "ANSWER_RECEIVED" => NextIs({"map", "header"})
    /\ m_iStatusRequestState = "PROCESSING" => NextIs({"row", "rest", "end"})
    /\ processingUserRow <=> m_iStatusRequestState = "PROCESSING" /\ NextIs({"rest"})

HiddenInv == WellFormed(wire) /\ StepInv

AskedInv == asked <= IF recent THEN slow + 1 ELSE slow

LEMMA Least ==
  ASSUME NEW S, S \subseteq Nat, S # {}
  PROVE  \E x \in S : \A y \in S : x <= y
<1> DEFINE R == {ss \in Nat \X Nat : ss[1] < ss[2]}
<1>1. IsWellFoundedOn(R, Nat)
  BY NatLessThanWellFounded, Zenon DEF OpToRel
<1>2. \A x, y \in Nat : y < x => <<y, x>> \in R
  BY SMT
<1> HIDE DEF R
<1>3. PICK x \in S : \A y \in S : ~(<<y, x>> \in R)
  BY <1>1, WFMin, Zenon
<1>4. \A y \in S : ~(y < x)
  BY <1>2, <1>3, Zenon
<1>5. \A y \in S : x <= y
  BY <1>4
<1> QED BY <1>5

-----------------------------------------------------------------------------
(* The slots by their rank.                                                *)

Upto(S, s) == {t \in S : t <= s}

LEMMA RanksAreFull ==
  ASSUME NEW S \in SUBSET Nat, IsFiniteSet(S)
  PROVE  /\ \A s \in S : Cardinality(Upto(S, s)) \in 1..Cardinality(S)
         /\ \A s, t \in S : Cardinality(Upto(S, s)) = Cardinality(Upto(S, t)) => s = t
         /\ \A i \in 1..Cardinality(S) : \E s \in S : Cardinality(Upto(S, s)) = i
<1> DEFINE rank == [s \in S |-> Cardinality(Upto(S, s))]
           n == Cardinality(S)
<1>1. n \in Nat
  BY FS_CardinalityType
<1>2. \A s \in S : IsFiniteSet(Upto(S, s)) /\ Cardinality(Upto(S, s)) \in Nat /\ s \in Upto(S, s)
  <2> SUFFICES ASSUME NEW s \in S
               PROVE  IsFiniteSet(Upto(S, s)) /\ Cardinality(Upto(S, s)) \in Nat /\ s \in Upto(S, s)
    OBVIOUS
  <2>1. Upto(S, s) \in SUBSET S /\ s \in Upto(S, s)
    BY DEF Upto
  <2> QED BY <2>1, FS_Subset, FS_CardinalityType
<1>3. ASSUME NEW s \in S PROVE Cardinality(Upto(S, s)) \in 1..n
  <2>1. Upto(S, s) \in SUBSET S
    BY DEF Upto
  <2>2. Cardinality(Upto(S, s)) <= n
    BY <2>1, FS_Subset
  <2>3. Cardinality(Upto(S, s)) # 0
    BY <1>2, FS_EmptySet
  <2> QED BY <1>1, <1>2, <2>2, <2>3
<1>4. ASSUME NEW s \in S, NEW t \in S, s < t PROVE Cardinality(Upto(S, s)) < Cardinality(Upto(S, t))
  <2> s \in Nat /\ t \in Nat /\ \A x \in S : x \in Nat
    OBVIOUS
  <2>0. \A x \in Upto(S, s) : x \in Upto(S, t)
    BY <1>4 DEF Upto
  <2>1. Upto(S, s) \in SUBSET Upto(S, t) /\ t \notin Upto(S, s) /\ t \in Upto(S, t)
    <3>1. Upto(S, s) \in SUBSET Upto(S, t)
      BY <2>0
    <3> QED BY <1>4, <3>1 DEF Upto
  <2>2. /\ Cardinality(Upto(S, s)) <= Cardinality(Upto(S, t))
        /\ Cardinality(Upto(S, s)) # Cardinality(Upto(S, t))
    BY <1>2, <2>1, FS_Subset
  <2> QED BY <1>2, <2>2
<1>5. ASSUME NEW s \in S, NEW t \in S, Cardinality(Upto(S, s)) = Cardinality(Upto(S, t))
      PROVE  s = t
  <2>1. s \in Nat /\ t \in Nat /\ Cardinality(Upto(S, s)) \in Nat
    BY <1>2
  <2>2. ~(s < t) /\ ~(t < s)
    BY <1>4, <1>5, <2>1
  <2> QED BY <2>1, <2>2
<1>6. rank \in Injection(S, 1..n)
  BY <1>3, <1>5 DEF Injection, IsInjective
<1>7. IsFiniteSet(1..n) /\ Cardinality(1..n) = n
  BY <1>1, FS_Interval
<1>8. rank \in Surjection(S, 1..n)
  BY <1>6, <1>7, FS_Injection
<1>9. \A i \in 1..n : \E s \in S : Cardinality(Upto(S, s)) = i
  BY <1>8 DEF Surjection
<1> QED BY <1>3, <1>5, <1>9

LEMMA NthIsOccupied ==
  /\ Present \in Nat /\ Present <= MAX_PLAYERS
  /\ \A i \in 1..Present : Nth(i) \in Occupied(roster)
  /\ \A i, j \in 1..Present : Nth(i) = Nth(j) => i = j
  /\ \A s \in Occupied(roster) : \E i \in 1..Present : Nth(i) = s
<1> DEFINE S == Occupied(roster)
<1>1. S \in SUBSET Slots /\ S \in SUBSET Nat /\ MAX_PLAYERS \in Nat
  BY StatusConstantsOK DEF Occupied, Slots
<1>2. IsFiniteSet(Slots) /\ Cardinality(Slots) = MAX_PLAYERS
  BY StatusConstantsOK, FS_Interval DEF Slots
<1>3. IsFiniteSet(S) /\ Cardinality(S) <= MAX_PLAYERS /\ Cardinality(S) \in Nat
  BY <1>1, <1>2, FS_Subset, FS_CardinalityType
<1>4. \A s : Upto(S, s) = {t \in S : t <= s}
  BY DEF Upto
<1> HIDE DEF S
<1>5. /\ \A s \in S : Cardinality(Upto(S, s)) \in 1..Cardinality(S)
      /\ \A s, t \in S : Cardinality(Upto(S, s)) = Cardinality(Upto(S, t)) => s = t
      /\ \A i \in 1..Cardinality(S) : \E s \in S : Cardinality(Upto(S, s)) = i
  BY <1>1, <1>3, RanksAreFull
<1>6. \A i : Nth(i) = CHOOSE s \in S : Cardinality(Upto(S, s)) = i
  BY <1>4 DEF Nth, S, Upto
<1>7. \A i \in 1..Cardinality(S) : Nth(i) \in S /\ Cardinality(Upto(S, Nth(i))) = i
  BY <1>5, <1>6
<1>8. \A s \in S : Nth(Cardinality(Upto(S, s))) = s
  BY <1>5, <1>7
<1>9. Present = Cardinality(S) /\ S = Occupied(roster)
  BY DEF Present, S
<1> QED BY <1>3, <1>5, <1>7, <1>8, <1>9

-----------------------------------------------------------------------------
(* The texts.                                                              *)

LEMMA OneMore ==
  ASSUME NEW T, NEW x \in Seq(T), NEW y \in Seq(T)
  PROVE  Len(y) = 1 =>
           Len(x \o y) = Len(x) + 1 /\ Len(x) \in Nat /\ (x \o y)[Len(x) + 1] = y[1]
<1>1. /\ Len(x \o y) = Len(x) + Len(y) /\ Len(x) \in Nat
      /\ \A k \in 1..Len(y) : (x \o y)[k + Len(x)] = y[k]
  OBVIOUS
<1>2. 1 + Len(x) = Len(x) + 1
  BY <1>1
<1>3. Len(y) = 1 => (x \o y)[1 + Len(x)] = y[1]
  BY <1>1
<1> QED BY <1>1, <1>2, <1>3

LEMMA TextsByKind ==
  ASSUME NEW x \in Text \cup Broadcast
  PROVE  /\ x.kind \in {"header", "row", "rest", "print", "hostname", "map", "end", "dropped", "info"}
         /\ x.kind = "header" => x.nl \in BOOLEAN /\ x = Header(x.nl)
         /\ x.kind = "row" => x.who \in Players /\ x.nl \in BOOLEAN
         /\ x.kind = "dropped" => x.who \in Players /\ x = Dropped(x.who) /\ x.nl = TRUE
         /\ x.kind = "info" => x.slot \in Slots /\ x.who \in Anyone /\ x = Info(x.slot, x.who)
         /\ x.kind \in {"rest", "print", "hostname", "map", "end"} => x.nl = TRUE
         /\ x.kind # "info" <=> x \in Text
         /\ x.kind = "info" <=> x \in Broadcast
  BY DEF Text, Broadcast, Header, Row, Rest, Unrelated, Other, Dropped, Info, Anyone

(* The rows of an answer, one text or two for each who is there.           *)
LEMMA RowsOfTheRoster ==
  ASSUME NEW split \in BOOLEAN, roster \in [Slots -> Anyone]
  PROVE  LET m == Len(Rows(split))
         IN  /\ Rows(split) \in Seq(Text)
             /\ \A k \in 1..m :
                  \/ Rows(split)[k] = Rest
                  \/ \E s \in Occupied(roster), i \in Slots : Rows(split)[k] = Row(roster[s], i, ~split)
             /\ m > 0 => Rows(split)[1].kind = "row"
             /\ \A k \in 1..m : Rows(split)[k].kind = "row" /\ ~Rows(split)[k].nl =>
                  k < m /\ Rows(split)[k + 1].kind = "rest"
             /\ \A k \in 1..(m - 1) :
                  Rows(split)[k].kind = "rest" \/ (Rows(split)[k].kind = "row" /\ Rows(split)[k].nl)
                    => Rows(split)[k + 1].kind = "row"
<1> DEFINE RowOf(i) == Row(roster[Nth(i)], i, ~split)
<1>1. Present \in Nat /\ \A i \in 1..Present : Nth(i) \in Occupied(roster) /\ i \in Slots
  BY NthIsOccupied, StatusConstantsOK DEF Slots
<1>2. \A i \in 1..Present : RowOf(i).kind = "row" /\ RowOf(i).nl = ~split /\ RowOf(i) \in Text
  <2> SUFFICES ASSUME NEW i \in 1..Present
               PROVE  RowOf(i).kind = "row" /\ RowOf(i).nl = ~split /\ RowOf(i) \in Text
    OBVIOUS
  <2>1. roster[Nth(i)] \in Players /\ i \in Slots /\ (~split) \in BOOLEAN
    BY <1>1 DEF Occupied, Anyone
  <2>2. \A p \in Players, j \in Slots, nl \in BOOLEAN : Row(p, j, nl) \in Text
    BY DEF Row, Text
  <2>3. RowOf(i) \in Text
    BY <2>1, <2>2, Zenon
  <2> QED BY <2>3 DEF Row
<1>3. \A i \in 1..Present : \E s \in Occupied(roster), j \in Slots : RowOf(i) = Row(roster[s], j, ~split)
  BY <1>1
<1>4. Rest \in Text /\ Rest.kind = "rest"
  BY DEF Rest, Text
<1> DEFINE R == Rows(split)
<1>5. CASE ~split
  <2>1. R = [k \in 1..Present |-> RowOf(k)]
    BY <1>5 DEF Rows
  <2> HIDE DEF RowOf, R
  <2>2. R \in Seq(Text) /\ Len(R) = Present /\ \A k \in 1..Present : R[k] = RowOf(k)
    BY <1>1, <1>2, <2>1
  <2>3. \A k \in 1..Present :
          /\ R[k].kind = "row" /\ R[k].nl = TRUE
          /\ \E s \in Occupied(roster), i \in Slots : R[k] = Row(roster[s], i, ~split)
    BY <1>2, <1>3, <1>5, <2>2, ZenonT(60)
  <2> QED BY <1>1, <2>2, <2>3 DEF R
<1>6. CASE split
  <2>1. R = [k \in 1..(2 * Present) |-> IF k % 2 = 1 THEN RowOf((k + 1) \div 2) ELSE Rest]
    BY <1>6 DEF Rows
  <2> HIDE DEF RowOf, R
  <2>2. \A k \in 1..(2 * Present) : k % 2 = 1 => (k + 1) \div 2 \in 1..Present
    BY <1>1
  <2>3. /\ R \in Seq(Text) /\ Len(R) = 2 * Present
        /\ \A k \in 1..(2 * Present) : R[k] = IF k % 2 = 1 THEN RowOf((k + 1) \div 2) ELSE Rest
    BY <1>1, <1>2, <1>4, <2>1, <2>2
  <2>4. \A k \in 1..(2 * Present) :
          /\ k % 2 = 1 => R[k].kind = "row" /\ R[k].nl = FALSE
          /\ k % 2 # 1 => R[k].kind = "rest"
          /\ \/ R[k] = Rest
             \/ \E s \in Occupied(roster), i \in Slots : R[k] = Row(roster[s], i, ~split)
    BY <1>2, <1>3, <1>4, <1>6, <2>2, <2>3
  <2>5. \A k \in 1..(2 * Present) : /\ k % 2 = 1 => k < 2 * Present /\ (k + 1) % 2 # 1
                                    /\ k % 2 # 1 => (k + 1) % 2 = 1
    BY <1>1
  <2> QED BY <1>1, <2>3, <2>4, <2>5 DEF R
<1> QED BY <1>5, <1>6

(* An answer: no change and no departure, rows about those who are there,  *)
(* and each text followed by what it should be.                            *)
LEMMA AnswerOfTheRoster ==
  ASSUME NEW split \in BOOLEAN, roster \in [Slots -> Anyone]
  PROVE  LET a == Answer(split)
         IN  /\ a \in Seq(Text) /\ Len(a) >= 4
             /\ a[Len(a)].kind = "end"
             /\ \A k \in 1..Len(a) : a[k].kind \notin {"info", "dropped"}
             /\ \A k \in 1..Len(a) : a[k].kind = "header" => a[k].nl
             /\ \A k \in 1..Len(a) : a[k].kind = "row" => \E s \in Occupied(roster) : a[k].who = roster[s]
             /\ \A k \in 1..(Len(a) - 1) : a[k].kind # "end" /\ Precedes(a[k], a[k + 1])
<1> DEFINE R == Rows(split)
           m == Len(R)
           a == Answer(split)
           first == <<Other("hostname"), Other("map"), Header(TRUE)>>
           last  == <<Other("end")>>
<1>1. /\ R \in Seq(Text) /\ m \in Nat
      /\ \A k \in 1..m :
           \/ R[k] = Rest
           \/ \E s \in Occupied(roster), i \in Slots : R[k] = Row(roster[s], i, ~split)
      /\ m > 0 => R[1].kind = "row"
      /\ \A k \in 1..m : R[k].kind = "row" /\ ~R[k].nl => k < m /\ R[k + 1].kind = "rest"
      /\ \A k \in 1..(m - 1) :
           R[k].kind = "rest" \/ (R[k].kind = "row" /\ R[k].nl) => R[k + 1].kind = "row"
  BY RowsOfTheRoster
<1>2. first \in Seq(Text) /\ last \in Seq(Text)
  <2>1. Other("hostname") \in Text /\ Other("map") \in Text /\ Other("end") \in Text
    BY DEF Text
  <2>3. Header(TRUE) \in Text
    <3>1. \A nl \in BOOLEAN : Header(nl) \in Text
      BY DEF Text, Header
    <3> QED BY <3>1, Zenon
  <2>2. \A x, y, z \in Text : <<x, y, z>> \in Seq(Text) /\ <<x>> \in Seq(Text)
    OBVIOUS
  <2> QED BY <2>1, <2>2, <2>3
<1>3. a = (first \o R) \o last
  BY DEF Answer
<1>4. Len(first) = 3 /\ Len(last) = 1
  OBVIOUS
<1>5. /\ first[1].kind = "hostname" /\ first[2].kind = "map" /\ first[3] = Header(TRUE)
      /\ last[1].kind = "end"
  BY DEF Other
<1> HIDE DEF R, m, a, first, last
<1>6. /\ a \in Seq(Text) /\ Len(a) = m + 4
      /\ a[1] = first[1] /\ a[2] = first[2] /\ a[3] = first[3]
      /\ \A k \in 1..m : a[k + 3] = R[k]
      /\ a[m + 4] = last[1]
  <2> DEFINE b == first \o R
  <2>0. R \in Seq(Text) /\ Len(R) = m /\ m \in Nat
    BY <1>1 DEF m
  <2>1. /\ b \in Seq(Text) /\ Len(b) = m + 3
        /\ \A k \in 1..3 : b[k] = first[k]
        /\ \A k \in 1..m : b[k + 3] = R[k]
    <3>1. /\ b \in Seq(Text) /\ Len(b) = Len(first) + Len(R)
          /\ \A k \in 1..Len(first) : b[k] = first[k]
          /\ \A k \in 1..Len(R) : b[k + Len(first)] = R[k]
      <4>1. first \in Seq(Text) /\ R \in Seq(Text)
        BY <1>2, <2>0
      <4> QED BY <4>1
    <3> HIDE DEF b
    <3> QED BY <1>4, <2>0, <3>1
  <2> HIDE DEF b
  <2>2. /\ b \o last \in Seq(Text) /\ Len(b \o last) = m + 4
        /\ \A k \in 1..(m + 3) : (b \o last)[k] = b[k]
        /\ (b \o last)[m + 4] = last[1]
    <3>1. /\ b \o last \in Seq(Text) /\ Len(b \o last) = Len(b) + Len(last)
          /\ \A k \in 1..Len(b) : (b \o last)[k] = b[k]
          /\ \A k \in 1..Len(last) : (b \o last)[k + Len(b)] = last[k]
      <4>1. b \in Seq(Text) /\ last \in Seq(Text)
        BY <1>2, <2>1
      <4> QED BY <4>1
    <3>2. (b \o last)[1 + (m + 3)] = last[1]
      BY <1>4, <2>1, <3>1
    <3>3. 1 + (m + 3) = m + 4 /\ (m + 3) + 1 = m + 4
      BY <2>0
    <3> QED BY <1>4, <2>1, <3>1, <3>2, <3>3
  <2>3. a = b \o last
    BY <1>3 DEF b
  <2> QED BY <2>0, <2>1, <2>2, <2>3
<1>7. ASSUME NEW k \in 1..m
      PROVE  /\ R[k].kind \in {"row", "rest"}
             /\ R[k].kind = "row" => \E s \in Occupied(roster) : R[k].who = roster[s]
  <2>1. CASE R[k] = Rest
    BY <2>1 DEF Rest
  <2>2. ASSUME NEW s \in Occupied(roster), NEW i \in Slots, R[k] = Row(roster[s], i, ~split)
        PROVE  R[k].kind = "row" /\ R[k].who = roster[s]
    BY <2>2 DEF Row
  <2> QED BY <1>1, <2>1, <2>2
<1>8. \A k \in 1..(m + 4) : k \in 1..3 \/ k = m + 4 \/ (k - 3 \in 1..m /\ a[k] = R[k - 3])
  BY <1>1, <1>6
<1>9. \A k \in 1..(m + 4) :
        /\ a[k].kind \notin {"info", "dropped"}
        /\ a[k].kind = "header" => a[k].nl
        /\ a[k].kind = "row" => \E s \in Occupied(roster) : a[k].who = roster[s]
        /\ k < m + 4 => a[k].kind # "end"
  <2> SUFFICES ASSUME NEW k \in 1..(m + 4)
               PROVE  /\ a[k].kind \notin {"info", "dropped"}
                      /\ a[k].kind = "header" => a[k].nl
                      /\ a[k].kind = "row" => \E s \in Occupied(roster) : a[k].who = roster[s]
                      /\ k < m + 4 => a[k].kind # "end"
    OBVIOUS
  <2>1. CASE k \in 1..3
    <3>1. k = 1 \/ k = 2 \/ k = 3
      BY <2>1
    <3> QED BY <1>5, <1>6, <3>1 DEF Header
  <2>2. CASE k = m + 4
    BY <1>1, <1>5, <1>6, <2>2
  <2>3. CASE k - 3 \in 1..m /\ a[k] = R[k - 3]
    BY <1>7, <2>3
  <2> QED BY <1>8, <2>1, <2>2, <2>3
<1>10. \A k \in 1..(m + 3) : Precedes(a[k], a[k + 1])
  <2> SUFFICES ASSUME NEW k \in 1..(m + 3) PROVE Precedes(a[k], a[k + 1])
    OBVIOUS
  <2>1. CASE k \in 1..2
    BY <1>1, <1>5, <1>6, <2>1 DEF Precedes, Header
  <2>2. CASE k = 3
    <3>1. a[4].kind \in {"row", "end"}
      BY <1>1, <1>5, <1>6
    <3> QED BY <1>5, <1>6, <2>2, <3>1 DEF Precedes, Header
  <2>3. CASE k > 3
    <3>1. k - 3 \in 1..m /\ a[k] = R[k - 3]
      BY <1>1, <1>8, <2>3
    <3>2. CASE k = m + 3
      <4>1. a[k + 1].kind = "end" /\ k - 3 = m
        BY <1>1, <1>5, <1>6, <3>2
      <4>2. R[m].kind = "row" \/ R[m].kind = "rest"
        BY <1>1, <1>7, <3>1, <4>1
      <4>3. R[m].kind = "row" => R[m].nl
        BY <1>1, <3>1, <4>1
      <4> QED BY <3>1, <4>1, <4>2, <4>3 DEF Precedes
    <3>3. CASE k < m + 3
      <4>1. k - 3 \in 1..(m - 1) /\ a[k + 1] = R[k - 3 + 1]
        BY <1>1, <1>6, <3>1, <3>3, SMTT(60)
      <4>2. R[k - 3].kind \in {"row", "rest"}
        BY <1>7, <3>1
      <4> QED BY <1>1, <3>1, <4>1, <4>2 DEF Precedes
    <3> QED BY <1>1, <3>2, <3>3
  <2> QED BY <1>1, <2>1, <2>2, <2>3
<1>11. m \in Nat
  BY <1>1
<1>12. (m + 4) - 1 = m + 3 /\ m + 4 >= 4
  BY <1>11
<1>13. a[Len(a)].kind = "end"
  BY <1>5, <1>6
<1>14. /\ \A k \in 1..Len(a) : a[k].kind \notin {"info", "dropped"}
       /\ \A k \in 1..Len(a) : a[k].kind = "header" => a[k].nl
       /\ \A k \in 1..Len(a) : a[k].kind = "row" => \E s \in Occupied(roster) : a[k].who = roster[s]
  <2>1. Len(a) = m + 4
    BY <1>6
  <2> QED BY <1>9, <2>1, Zenon
<1>15. \A k \in 1..(Len(a) - 1) : a[k].kind # "end" /\ Precedes(a[k], a[k + 1])
  <2>1. Len(a) - 1 = m + 3
    BY <1>6, <1>11
  <2>2. ASSUME NEW k \in 1..(m + 3)
        PROVE  a[k].kind # "end" /\ Precedes(a[k], a[k + 1])
    <3>1. k \in 1..(m + 4) /\ k < m + 4
      BY <1>11
    <3>2. a[k].kind # "end"
      BY <1>9, <3>1, Zenon
    <3> QED BY <1>10, <3>2, Zenon
  <2> QED BY <2>1, <2>2, Zenon
<1>16. a \in Seq(Text) /\ Len(a) >= 4
  BY <1>6, <1>12
<1> QED BY <1>13, <1>14, <1>15, <1>16, Zenon DEF a

LEMMA AnswersAreWellFormed ==
  ASSUME NEW split \in BOOLEAN, roster \in [Slots -> Anyone]
  PROVE  WellFormed(Answer(split))
<1> DEFINE a == Answer(split)
<1>1. /\ a \in Seq(Text) /\ Len(a) >= 4
      /\ a[Len(a)].kind = "end"
      /\ \A k \in 1..Len(a) : a[k].kind = "header" => a[k].nl
      /\ \A k \in 1..(Len(a) - 1) : a[k].kind # "end" /\ Precedes(a[k], a[k + 1])
  BY AnswerOfTheRoster
<1> HIDE DEF a
<1>2. Len(a) \in Nat
  BY <1>1
<1>3. \A k \in 1..Len(a) : InAnswer(a[k]) => k # Len(a) /\ k \in 1..(Len(a) - 1)
  BY <1>1, <1>2 DEF InAnswer
<1>4. \A k \in 1..Len(a) : k # Len(a) => Len(a) \in (k + 1)..Len(a)
  BY <1>2
<1>5. WellFormed(a)
  BY <1>1, <1>2, <1>3, <1>4 DEF WellFormed
<1> QED BY <1>5 DEF a

(* Texts that are put behind others, and those that are left when the      *)
(* first is read, are as well formed as before.                            *)
LEMMA WellFormedTogether ==
  ASSUME NEW T, NEW w \in Seq(T), NEW a \in Seq(T), WellFormed(w), WellFormed(a)
  PROVE  WellFormed(w \o a)
<1> DEFINE b == w \o a
<1>1. /\ b \in Seq(T) /\ Len(b) = Len(w) + Len(a) /\ Len(w) \in Nat /\ Len(a) \in Nat
      /\ \A k \in 1..Len(w) : b[k] = w[k]
      /\ \A k \in 1..Len(a) : b[k + Len(w)] = a[k]
  OBVIOUS
<1> HIDE DEF b
<1> SUFFICES ASSUME NEW k \in 1..Len(b), InAnswer(b[k])
             PROVE  /\ b[k].kind = "header" => b[k].nl
                    /\ k < Len(b) /\ Precedes(b[k], b[k + 1])
                    /\ \E j \in (k + 1)..Len(b) : b[j].kind = "end"
  BY DEF WellFormed, b
<1>2. CASE k <= Len(w)
  <2>1. k \in 1..Len(w) /\ b[k] = w[k]
    BY <1>1, <1>2
  <2>2. PICK j \in (k + 1)..Len(w) : w[j].kind = "end"
    BY <2>1 DEF WellFormed
  <2>3. /\ w[k].kind = "header" => w[k].nl
        /\ k < Len(w) /\ Precedes(w[k], w[k + 1])
    BY <2>1 DEF WellFormed
  <2>4. b[k + 1] = w[k + 1] /\ b[j] = w[j] /\ j \in (k + 1)..Len(b) /\ k < Len(b)
    BY <1>1, <2>1, <2>2, <2>3
  <2> QED BY <2>1, <2>2, <2>3, <2>4
<1>3. CASE k > Len(w)
  <2> DEFINE i == k - Len(w)
  <2>1. i \in 1..Len(a) /\ k = i + Len(w) /\ b[k] = a[i]
    BY <1>1, <1>3, SMTT(60)
  <2> HIDE DEF i
  <2>2. PICK j \in (i + 1)..Len(a) : a[j].kind = "end"
    BY <2>1 DEF WellFormed
  <2>3. /\ a[i].kind = "header" => a[i].nl
        /\ i < Len(a) /\ Precedes(a[i], a[i + 1])
    BY <2>1 DEF WellFormed
  <2>4. i + 1 \in 1..Len(a) /\ (i + 1) + Len(w) = k + 1 /\ k < Len(b)
    BY <1>1, <2>1, <2>3, SMTT(60)
  <2>5. b[k + 1] = a[i + 1]
    BY <1>1, <2>4
  <2>6. j \in 1..Len(a) /\ b[j + Len(w)] = a[j] /\ j + Len(w) \in (k + 1)..Len(b)
    BY <1>1, <2>1, <2>2
  <2> QED BY <2>1, <2>2, <2>3, <2>4, <2>5, <2>6
<1> QED BY <1>1, <1>2, <1>3

LEMMA WellFormedTail ==
  ASSUME NEW T, NEW w \in Seq(T), w # <<>>, WellFormed(w)
  PROVE  WellFormed(Tail(w))
<1> DEFINE b == Tail(w)
<1>1. /\ Len(w) \in Nat /\ Len(w) >= 1 /\ Len(b) = Len(w) - 1
      /\ \A k \in 1..Len(b) : b[k] = w[k + 1]
  OBVIOUS
<1> HIDE DEF b
<1> SUFFICES ASSUME NEW k \in 1..Len(b), InAnswer(b[k])
             PROVE  /\ b[k].kind = "header" => b[k].nl
                    /\ k < Len(b) /\ Precedes(b[k], b[k + 1])
                    /\ \E j \in (k + 1)..Len(b) : b[j].kind = "end"
  BY DEF WellFormed, b
<1>2. k + 1 \in 1..Len(w) /\ b[k] = w[k + 1]
  BY <1>1
<1>3. /\ w[k + 1].kind = "header" => w[k + 1].nl
      /\ k + 1 < Len(w) /\ Precedes(w[k + 1], w[(k + 1) + 1])
      /\ \E j \in ((k + 1) + 1)..Len(w) : w[j].kind = "end"
  BY <1>2 DEF WellFormed
<1>4. PICK j \in ((k + 1) + 1)..Len(w) : w[j].kind = "end"
  BY <1>3
<1>5. /\ k + 1 \in 1..Len(b) /\ b[k + 1] = w[(k + 1) + 1]
      /\ j - 1 \in (k + 1)..Len(b) /\ b[j - 1] = w[j]
  BY <1>1, <1>2, <1>3, <1>4
<1> QED BY <1>1, <1>2, <1>3, <1>4, <1>5

-----------------------------------------------------------------------------
(* Types.                                                                  *)

TypeInv == TypeOK /\ AskedInv

LEMMA HeadAndTail ==
  ASSUME wire \in Seq(Text \cup Broadcast), wire # <<>>
  PROVE  /\ str \in Text \cup Broadcast /\ str = wire[1]
         /\ Tail(wire) \in Seq(Text \cup Broadcast) /\ Len(Tail(wire)) = Len(wire) - 1
         /\ \A k \in 1..Len(Tail(wire)) : Tail(wire)[k] = wire[k + 1]
         /\ Len(wire) \in Nat /\ Len(wire) >= 1
  BY DEF str

LEMMA SlotsOfRows ==
  ASSUME TypeOK, NEW row
  PROVE  SlotOf(row) # 0 =>
           SlotOf(row) \in listed /\ names[SlotOf(row)] = row.who
<1> DEFINE named == {s \in listed : names[s] = row.who}
<1>1. named \subseteq Nat
  <2>1. \A s \in listed : s \in Nat
    BY StatusConstantsOK DEF TypeOK, Slots
  <2> QED BY <2>1
<1>2. ASSUME named # {} PROVE \E s \in named : \A t \in named : s <= t
  <2> HIDE DEF named
  <2> QED BY <1>1, <1>2, Least
<1>3. SlotOf(row) # 0 => SlotOf(row) \in named
  BY <1>2, Zenon DEF SlotOf
<1> QED BY <1>3

LEMMA TypeInit == Init => TypeInv
<1> SUFFICES ASSUME Init PROVE TypeInv
  OBVIOUS
<1>1. (CHOOSE p \in Players : TRUE) \in Players
  BY StatusConstantsOK
<1>2. roster \in [Slots -> Players \cup {NoPlayer}]
  BY <1>1 DEF Init
<1>3. lag \in Seq(Broadcast) /\ wire \in Seq(Text \cup Broadcast)
  BY DEF Init
<1>4. /\ asked \in 0..(MaxSlow + 1) /\ slow \in 0..MaxSlow /\ joins \in 0..MaxJoins
      /\ levels \in 0..MaxLevels /\ prints \in 0..MaxPrints
      /\ asked = 0 /\ slow = 0
  BY StatusConstantsOK DEF Init
<1>5. AskedInv
  BY <1>4 DEF AskedInv
<1>6. processingUserRow \in BOOLEAN /\ recent \in BOOLEAN
  BY DEF Init
<1>7. /\ m_iStatusRequestState \in States /\ listed \subseteq Slots /\ missed \subseteq (Slots \X Players)
      /\ g_PlayerSteamId \in [Slots -> Players \cup {NoPlayer}] /\ names = roster
  BY DEF Init, States
<1> QED BY <1>2, <1>3, <1>4, <1>5, <1>6, <1>7 DEF TypeInv, TypeOK

(* The client's request, whichever of its two callers makes it.            *)
LEMMA TypeSend ==
  ASSUME TypeInv, SendStatusRequest \/ UNCHANGED <<m_iStatusRequestState, recent, asked>>,
         slow' = slow
  PROVE  /\ m_iStatusRequestState' \in States /\ recent' \in BOOLEAN
         /\ asked' \in 0..(MaxSlow + 1) /\ AskedInv'
<1> USE DEF TypeInv, TypeOK, AskedInv, States
<1>1. CASE UNCHANGED <<m_iStatusRequestState, recent, asked>>
  BY <1>1
<1>2. CASE SendStatusRequest
  <2>1. asked \in Nat /\ slow \in Nat /\ slow <= MaxSlow /\ MaxSlow \in Nat
    BY StatusConstantsOK
  <2>2. CASE recent
    BY <1>2, <2>2 DEF SendStatusRequest
  <2>3. CASE ~recent
    <3>1. m_iStatusRequestState' = "SENT" /\ recent' = TRUE /\ asked' = asked + 1
      BY <1>2, <2>3 DEF SendStatusRequest
    <3>2. asked <= slow
      BY <2>3
    <3> QED BY <2>1, <3>1, <3>2
  <2> QED BY <2>2, <2>3
<1> QED BY <1>1, <1>2

LEMMA TypeRead ==
  ASSUME TypeInv, ReadIdle \/ ReadSent \/ ReadAnswer \/ ReadTable \/ ReadInfo
  PROVE  TypeInv'
<1> USE DEF TypeInv, TypeOK, AskedInv
<1>1. wire # <<>> /\ wire' = Tail(wire) /\ UNCHANGED <<recent, server, asked, bounds>>
  BY DEF ReadIdle, ReadSent, ReadAnswer, ReadTable, ReadInfo, Reads, client
<1>2. /\ str \in Text \cup Broadcast /\ wire' \in Seq(Text \cup Broadcast)
      /\ str.kind = "row" => str.who \in Players
      /\ str.kind = "dropped" => str.who \in Players
      /\ str.kind = "info" => str.slot \in Slots /\ str.who \in Anyone
      /\ str.kind # "info" => str.nl \in BOOLEAN
  <2>1. str \in Text \cup Broadcast /\ Tail(wire) \in Seq(Text \cup Broadcast)
    BY <1>1, HeadAndTail
  <2> QED BY <1>1, <2>1, TextsByKind
<1>3. Overlooks => missed' \subseteq (Slots \X Players)
  BY <1>2 DEF Overlooks
<1>4. CASE ReadIdle
  BY <1>1, <1>2, <1>4 DEF ReadIdle, Occupied, server, bounds, Reads
<1>5. CASE ReadSent
  BY <1>1, <1>2, <1>3, <1>5 DEF ReadSent, server, bounds, table, States
<1>6. CASE ReadAnswer
  <2>1. processingUserRow' \in BOOLEAN
    BY <1>2, <1>6, Zenon DEF ReadAnswer
  <2> QED BY <1>1, <1>2, <1>3, <1>6, <2>1 DEF ReadAnswer, server, bounds, table, States
<1>7. CASE ReadTable
  <2>1. processingUserRow' \in BOOLEAN
    <3>1. str.nl \in BOOLEAN
      BY <1>2, <1>7 DEF ReadTable, Reads
    <3> QED BY <1>7, <3>1, Zenon DEF ReadTable, RowPending
  <2>2. g_PlayerSteamId' \in [Slots -> Players \cup {NoPlayer}]
    BY <1>2, <1>7 DEF ReadTable, IdIn
  <2>3. m_iStatusRequestState' \in States
    BY <1>7 DEF ReadTable, States
  <2> QED BY <1>1, <1>3, <1>7, <2>1, <2>2, <2>3 DEF ReadTable, server, bounds, table
<1>8. CASE ReadInfo
  BY <1>1, <1>2, <1>8 DEF ReadInfo, server, bounds, client, Anyone
<1> QED BY <1>4, <1>5, <1>6, <1>7, <1>8

LEMMA TypeAsk ==
  ASSUME TypeInv, Update \/ FullUpdate \/ (\E s \in Slots : GetPlayerInfo(s)) \/ Second
  PROVE  TypeInv'
<1>1. CASE Update
  <2>1. /\ m_iStatusRequestState' \in States /\ recent' \in BOOLEAN
        /\ asked' \in 0..(MaxSlow + 1) /\ AskedInv'
    BY <1>1, TypeSend DEF Update, bounds
  <2>2. listed' \subseteq Slots
    BY <1>1 DEF Update, Occupied
  <2> QED BY <1>1, <2>1, <2>2 DEF Update, TypeInv, TypeOK, server, bounds
<1>2. CASE FullUpdate
  <2>1. /\ m_iStatusRequestState' \in States /\ recent' \in BOOLEAN
        /\ asked' \in 0..(MaxSlow + 1) /\ AskedInv'
    BY <1>2, TypeSend DEF FullUpdate, bounds
  <2>2. listed' \subseteq Slots
    BY <1>2 DEF FullUpdate, Occupied
  <2> QED BY <1>2, <2>1, <2>2 DEF FullUpdate, TypeInv, TypeOK, server, bounds
<1>3. CASE Second
  <2>1. slow \in Nat /\ MaxSlow \in Nat /\ asked \in Nat /\ asked <= slow + 1
    BY StatusConstantsOK DEF TypeInv, TypeOK, AskedInv
  <2>2. slow' \in 0..MaxSlow /\ asked' <= slow' /\ ~recent'
    <3>1. CASE Answering
      BY <1>3, <2>1, <3>1 DEF Second
    <3>2. CASE ~Answering
      <4>1. asked = 0
        BY <2>1, <3>2 DEF Answering
      <4> QED BY <1>3, <2>1, <3>2, <4>1 DEF Second
    <3> QED BY <3>1, <3>2
  <2>3. recent' \in BOOLEAN
    BY <1>3 DEF Second
  <2> QED BY <1>3, <2>2, <2>3 DEF Second, TypeInv, TypeOK, AskedInv, server, table
<1>4. CASE \E s \in Slots : GetPlayerInfo(s)
  <2>1. PICK s \in Slots : GetPlayerInfo(s)
    BY <1>4
  <2>2. listed' \subseteq Slots
    BY <2>1 DEF GetPlayerInfo, TypeInv, TypeOK
  <2> QED BY <2>1, <2>2 DEF GetPlayerInfo, TypeInv, TypeOK, AskedInv, client, server, bounds
<1> QED BY <1>1, <1>2, <1>3, <1>4

(* What the server adds to the wire.                                       *)
LEMMA WireGrows ==
  ASSUME TypeInv, HostStatus \/ Leave \/ EndFrame \/ PrintOther
  PROVE  \E a \in Seq(Text \cup Broadcast) :
           /\ wire' = wire \o a /\ WellFormed(a)
           /\ HostStatus \/ \A k \in 1..Len(a) : a[k].kind # "end"
<1> DEFINE T == Text \cup Broadcast
<1>1. wire \in Seq(T) /\ lag \in Seq(T) /\ roster \in [Slots -> Anyone]
  <2>1. \A q \in Seq(Broadcast) : q \in Seq(T)
    OBVIOUS
  <2> QED BY <2>1 DEF TypeInv, TypeOK, Anyone
<1>2. \A x \in T : Append(wire, x) = wire \o <<x>> /\ <<x>> \in Seq(T)
  BY <1>1
<1>0. \A x \in T : ~InAnswer(x) => WellFormed(<<x>>)
  BY DEF WellFormed
<1>3. CASE HostStatus
  <2>1. PICK split \in BOOLEAN : wire' = wire \o Answer(split)
    BY <1>3 DEF HostStatus
  <2>2. Answer(split) \in Seq(Text)
    BY <1>1, AnswerOfTheRoster
  <2>3. Answer(split) \in Seq(T)
    BY <2>2
  <2>4. WellFormed(Answer(split))
    BY <1>1, AnswersAreWellFormed
  <2> QED BY <1>3, <2>1, <2>3, <2>4
<1>4. CASE Leave
  <2>1. PICK s \in Occupied(roster) : wire' = Append(wire, Dropped(roster[s]))
    BY <1>4 DEF Leave
  <2>2. roster[s] \in Players
    BY <1>1 DEF Occupied, Anyone
  <2>3. Dropped(roster[s]) \in T
    BY <2>2 DEF Text
  <2> DEFINE x == Dropped(roster[s])
  <2>4. ~InAnswer(x) /\ x.kind # "end"
    BY DEF Dropped, InAnswer
  <2> HIDE DEF x
  <2>5. \A k \in 1..Len(<<x>>) : <<x>>[k].kind # "end"
    BY <2>4
  <2> QED BY <1>0, <1>2, <2>1, <2>3, <2>4, <2>5 DEF x
<1>5. CASE EndFrame
  <2>1. \A k \in 1..Len(lag) : lag[k].kind = "info"
    <3>1. lag \in Seq(Broadcast) /\ \A x \in Broadcast : x.kind = "info"
      BY DEF TypeInv, TypeOK, Broadcast, Info
    <3> QED BY <3>1
  <2>2. WellFormed(lag)
    BY <2>1 DEF WellFormed, InAnswer
  <2> QED BY <1>1, <1>5, <2>1, <2>2 DEF EndFrame
<1>6. CASE PrintOther
  <2>1. Unrelated \in T
    BY DEF Text
  <2> DEFINE x == Unrelated
  <2>2. ~InAnswer(x) /\ x.kind # "end"
    BY DEF Unrelated, Other, InAnswer
  <2> HIDE DEF x
  <2>3. \A k \in 1..Len(<<x>>) : <<x>>[k].kind # "end"
    BY <2>2
  <2>4. wire' = Append(wire, x)
    BY <1>6 DEF PrintOther, x
  <2> QED BY <1>0, <1>2, <2>1, <2>2, <2>3, <2>4 DEF x
<1> QED BY <1>3, <1>4, <1>5, <1>6

LEMMA TypeServe ==
  ASSUME TypeInv, Server \/ Initialize
  PROVE  TypeInv'
<1> USE DEF TypeInv, TypeOK
<1>0. \A p \in Anyone, s \in Slots : Info(s, p) \in Broadcast
  BY DEF Broadcast, Anyone
<1>1. wire' \in Seq(Text \cup Broadcast)
  <2>1. CASE HostStatus \/ Leave \/ EndFrame \/ PrintOther
    <3>1. PICK a \in Seq(Text \cup Broadcast) : wire' = wire \o a
      BY <2>1, WireGrows
    <3>2. wire \in Seq(Text \cup Broadcast)
      OBVIOUS
    <3> HIDE DEF TypeInv, TypeOK
    <3> QED BY <3>1, <3>2
  <2>2. CASE Join
    BY <2>2 DEF Join
  <2>3. CASE Initialize
    <3>1. Present \in Nat /\ \A i \in 1..Present : Nth(i) \in Slots /\ roster[Nth(i)] \in Anyone
      BY NthIsOccupied DEF Occupied, Anyone
    <3>2. \A i \in 1..Present : Info(Nth(i), roster[Nth(i)]) \in Text \cup Broadcast
      BY <1>0, <3>1
    <3> QED BY <2>3, <3>1, <3>2 DEF Initialize
  <2> QED BY <2>1, <2>2, <2>3 DEF Server
<1>2. lag' \in Seq(Broadcast) /\ roster' \in [Slots -> Players \cup {NoPlayer}]
  <2>1. CASE Join
    BY <1>0, <2>1 DEF Join, Anyone
  <2>2. CASE Leave
    <3>1. PICK s \in Occupied(roster) : /\ roster' = [roster EXCEPT ![s] = NoPlayer]
                                        /\ lag' = Append(lag, Info(s, NoPlayer))
      BY <2>2 DEF Leave
    <3>2. s \in Slots /\ Info(s, NoPlayer) \in Broadcast
      BY <1>0 DEF Occupied, Anyone
    <3> QED BY <3>1, <3>2
  <2>3. CASE HostStatus \/ EndFrame \/ PrintOther \/ Initialize
    <3>1. <<>> \in Seq(Broadcast)
      OBVIOUS
    <3> QED BY <2>3, <3>1 DEF HostStatus, EndFrame, PrintOther, Initialize, server
  <2> QED BY <2>1, <2>2, <2>3 DEF Server
<1>3. /\ m_iStatusRequestState' \in States /\ processingUserRow' \in BOOLEAN /\ recent' \in BOOLEAN
      /\ g_PlayerSteamId' \in [Slots -> Players \cup {NoPlayer}]
      /\ names' \in [Slots -> Players \cup {NoPlayer}] /\ listed' \subseteq Slots
      /\ missed' \subseteq (Slots \X Players)
  <2>1. CASE Server
    BY <2>1 DEF Server, HostStatus, Join, Leave, EndFrame, PrintOther, client, table
  <2>2. CASE Initialize
    BY <2>2 DEF Initialize, States
  <2> QED BY <2>1, <2>2
<1>4. /\ joins' \in 0..MaxJoins /\ levels' \in 0..MaxLevels /\ prints' \in 0..MaxPrints
      /\ slow' \in 0..MaxSlow /\ slow' = slow
  <2>1. CASE Join
    BY <2>1, StatusConstantsOK DEF Join
  <2>2. CASE PrintOther
    BY <2>2, StatusConstantsOK DEF PrintOther
  <2>3. CASE Initialize
    BY <2>3, StatusConstantsOK DEF Initialize
  <2>4. CASE HostStatus \/ Leave \/ EndFrame
    BY <2>4 DEF HostStatus, Leave, EndFrame, bounds
  <2> QED BY <2>1, <2>2, <2>3, <2>4 DEF Server
<1>5. asked' \in 0..(MaxSlow + 1) /\ asked' <= asked
  <2>1. asked \in 0..(MaxSlow + 1) /\ MaxSlow \in Nat
    BY StatusConstantsOK
  <2>2. CASE HostStatus
    BY <2>1, <2>2 DEF HostStatus
  <2>3. CASE Initialize
    BY <2>1, <2>3 DEF Initialize
  <2>4. CASE Join \/ Leave \/ EndFrame \/ PrintOther
    BY <2>1, <2>4 DEF Join, Leave, EndFrame, PrintOther
  <2> QED BY <2>2, <2>3, <2>4 DEF Server
<1>6. AskedInv'
  <2>1. asked \in Nat /\ asked' \in Nat /\ slow \in Nat /\ slow' \in Nat
    BY <1>4, <1>5
  <2>2. CASE Server
    <3>1. recent' = recent
      BY <2>2 DEF Server, HostStatus, Join, Leave, EndFrame, PrintOther, client
    <3> QED BY <1>4, <1>5, <2>1, <3>1 DEF AskedInv
  <2>3. CASE Initialize
    BY <2>1, <2>3 DEF Initialize, AskedInv
  <2> QED BY <2>2, <2>3
<1> QED BY <1>1, <1>2, <1>3, <1>4, <1>5, <1>6

LEMMA TypeStep == TypeInv /\ [Next]_vars => TypeInv'
<1> SUFFICES ASSUME TypeInv, [Next]_vars PROVE TypeInv'
  OBVIOUS
<1>1. CASE UNCHANGED vars
  BY <1>1 DEF vars, client, table, server, bounds, TypeInv, TypeOK, AskedInv
<1>2. CASE Next
  BY <1>2, TypeRead, TypeAsk, TypeServe DEF Next, Client
<1> QED BY <1>1, <1>2

LEMMA TypeHolds == Spec => []TypeInv
  BY TypeInit, TypeStep, PTL DEF Spec

(* What the typing of the state says holds: the texts on the wire are      *)
(* texts of the server, whoever comes and goes; the id that SvcPrint reads *)
(* from a row is one; and no more requests are on their way than answers   *)
(* can be slow, and one.                                                   *)
THEOREM TypeCorrect == Spec => []TypeOK
<1>1. TypeInv => TypeOK
  BY DEF TypeInv
<1> QED BY <1>1, TypeHolds, PTL

-----------------------------------------------------------------------------
(* What is kept from the console.                                          *)

LEMMA HiddenInit == Init => HiddenInv
  BY DEF Init, HiddenInv, WellFormed, StepInv, InTime, NextIs, Answering

(* An answer that is begun has an end.                                     *)
LEMMA BegunHasEnd ==
  ASSUME TypeInv, WellFormed(wire), NextIs({"hostname", "map", "header", "row", "rest", "end"})
  PROVE  Answering
<1>1. Len(wire) \in Nat /\ Len(wire) >= 1 /\ str = wire[1] /\ DOMAIN wire = 1..Len(wire)
  BY HeadAndTail DEF NextIs, TypeInv, TypeOK
<1>2. CASE str.kind = "end"
  BY <1>1, <1>2 DEF Answering
<1>3. CASE InAnswer(str)
  <2>1. PICK j \in (1 + 1)..Len(wire) : wire[j].kind = "end"
    BY <1>1, <1>3 DEF WellFormed
  <2> QED BY <1>1, <2>1 DEF Answering
<1> QED BY <1>2, <1>3 DEF NextIs, InAnswer

(* So that a second after the request no answer is being read.             *)
LEMMA NoAnswerLate ==
  ASSUME TypeInv, HiddenInv, InTime, ~recent
  PROVE  /\ m_iStatusRequestState \in {"IDLE", "SENT"} /\ processingUserRow = FALSE
         /\ ~Answering
<1>1. ~Answering
  BY DEF HiddenInv, StepInv
<1>2. ~NextIs({"map", "header"}) /\ ~NextIs({"row", "rest", "end"}) /\ ~NextIs({"rest"})
  BY <1>1, BegunHasEnd DEF HiddenInv, NextIs
<1> QED BY <1>1, <1>2 DEF HiddenInv, StepInv, TypeInv, TypeOK, States

LEMMA HiddenAsk ==
  ASSUME TypeInv, HiddenInv, Update \/ FullUpdate \/ (\E s \in Slots : GetPlayerInfo(s)) \/ Second
  PROVE  HiddenInv'
<1>1. UNCHANGED <<wire, processingUserRow, levels>> /\ WellFormed(wire)'
  BY DEF Update, FullUpdate, GetPlayerInfo, Second, bounds, client, HiddenInv
<1>2. ASSUME InTime'
      PROVE  /\ ~recent' => ~Answering'
             /\ m_iStatusRequestState' = "ANSWER_RECEIVED" => NextIs({"map", "header"})
             /\ m_iStatusRequestState' = "PROCESSING" => NextIs({"row", "rest", "end"})
             /\ processingUserRow <=> m_iStatusRequestState' = "PROCESSING" /\ NextIs({"rest"})
  <2>1. CASE Second
    <3>1. slow \in Nat /\ slow' = 0 /\ levels = 0 /\ recent
      BY <1>2, <2>1 DEF Second, InTime, TypeInv, TypeOK
    <3>2. ~Answering /\ slow = 0
      BY <2>1, <3>1 DEF Second
    <3>3. InTime
      BY <3>1, <3>2 DEF InTime
    <3> QED BY <1>1, <2>1, <3>2, <3>3 DEF Second, HiddenInv, StepInv, Answering
  <2>2. CASE Update \/ FullUpdate \/ \E s \in Slots : GetPlayerInfo(s)
    <3>1. InTime /\ (SendStatusRequest \/ UNCHANGED <<m_iStatusRequestState, recent, asked>>)
      BY <1>2, <2>2 DEF Update, FullUpdate, GetPlayerInfo, InTime, bounds, client
    <3>2. CASE UNCHANGED <<m_iStatusRequestState, recent, asked>>
      BY <1>1, <3>1, <3>2 DEF HiddenInv, StepInv, Answering
    <3>3. CASE SendStatusRequest /\ recent
      BY <1>1, <3>1, <3>3 DEF HiddenInv, StepInv, Answering, SendStatusRequest
    <3>4. CASE SendStatusRequest /\ ~recent
      BY <1>1, <3>1, <3>4, NoAnswerLate DEF SendStatusRequest
    <3> QED BY <3>1, <3>2, <3>3, <3>4
  <2> QED BY <2>1, <2>2
<1>3. \A kinds : NextIs(kinds)' <=> NextIs(kinds)
  BY <1>1 DEF NextIs, str
<1> QED BY <1>1, <1>2, <1>3 DEF HiddenInv, StepInv

LEMMA HiddenServe ==
  ASSUME TypeInv, HiddenInv, Server
  PROVE  HiddenInv'
<1>1. UNCHANGED <<m_iStatusRequestState, processingUserRow, recent, slow, levels>>
  BY DEF Server, HostStatus, Join, Leave, EndFrame, PrintOther, client, bounds
<1>2. /\ WellFormed(wire) /\ wire \in Seq(Text \cup Broadcast)
      /\ asked \in Nat /\ (asked > 0 \/ ~HostStatus) /\ (asked' = asked \/ HostStatus)
  BY DEF HiddenInv, TypeInv, TypeOK, Server, HostStatus, Join, Leave, EndFrame, PrintOther
<1>3. PICK a \in Seq(Text \cup Broadcast) :
        /\ wire' = wire \o a /\ WellFormed(a)
        /\ HostStatus \/ \A k \in 1..Len(a) : a[k].kind # "end"
  <2>1. CASE Join
    <3>1. wire' = wire \o <<>> /\ <<>> \in Seq(Text \cup Broadcast)
      BY <1>2, <2>1 DEF Join
    <3> DEFINE e == <<>>
    <3>2. Len(e) = 0
      OBVIOUS
    <3> HIDE DEF e
    <3>3. WellFormed(e) /\ \A k \in 1..Len(e) : e[k].kind # "end"
      BY <3>2 DEF WellFormed
    <3> QED BY <3>1, <3>3 DEF e
  <2>2. CASE HostStatus \/ Leave \/ EndFrame \/ PrintOther
    BY <2>2, WireGrows
  <2> QED BY <2>1, <2>2 DEF Server
<1>4. WellFormed(wire)'
  BY <1>2, <1>3, WellFormedTogether
<1>5. ASSUME ~Answering PROVE ~Answering'
  <2>1. ~HostStatus /\ asked' = asked /\ asked = 0
    BY <1>2, <1>5 DEF Answering
  <2>2. \A k \in 1..Len(wire) : wire[k].kind # "end"
    BY <1>2, <1>5 DEF Answering
  <2>3. /\ DOMAIN (wire \o a) = 1..(Len(wire) + Len(a)) /\ Len(wire) \in Nat /\ Len(a) \in Nat
        /\ \A k \in 1..Len(wire) : (wire \o a)[k] = wire[k]
        /\ \A k \in 1..Len(a) : (wire \o a)[k + Len(wire)] = a[k]
    BY <1>2
  <2>4. ASSUME NEW i \in DOMAIN (wire \o a) PROVE (wire \o a)[i].kind # "end"
    <3>1. CASE i <= Len(wire)
      BY <2>2, <2>3, <3>1
    <3>2. CASE i > Len(wire)
      <4>1. i - Len(wire) \in 1..Len(a) /\ (i - Len(wire)) + Len(wire) = i
        BY <2>3, <3>2
      <4>2. (wire \o a)[i] = a[i - Len(wire)]
        BY <2>3, <4>1
      <4> QED BY <1>3, <2>1, <4>1, <4>2
    <3> QED BY <2>3, <3>1, <3>2
  <2> QED BY <1>3, <2>1, <2>4 DEF Answering
<1>6. \A kinds : wire # <<>> => (NextIs(kinds)' <=> NextIs(kinds))
  <2>1. wire # <<>> => wire \o a # <<>> /\ Head(wire \o a) = Head(wire)
    BY <1>2
  <2> QED BY <1>3, <2>1 DEF NextIs, str
<1>7. \A kinds : NextIs(kinds) => wire # <<>>
  BY DEF NextIs
<1>8. InTime' <=> InTime
  BY <1>1 DEF InTime
<1> QED BY <1>1, <1>4, <1>5, <1>6, <1>7, <1>8 DEF HiddenInv, StepInv

LEMMA HiddenLevel ==
  ASSUME TypeInv, Initialize
  PROVE  HiddenInv'
<1>1. levels' # 0
  BY DEF Initialize, TypeInv, TypeOK
<1>2. Present \in Nat /\ wire' = [i \in 1..Present |-> Info(Nth(i), roster[Nth(i)])]
  BY NthIsOccupied DEF Initialize
<1>3. \A k \in 1..Len(wire') : ~InAnswer(wire'[k])
  BY <1>2 DEF Info, InAnswer
<1> QED BY <1>1, <1>3 DEF HiddenInv, StepInv, InTime, WellFormed

LEMMA HiddenRead ==
  ASSUME TypeInv, HiddenInv, ReadIdle \/ ReadSent \/ ReadAnswer \/ ReadTable \/ ReadInfo
  PROVE  HiddenInv'
<1>1. wire # <<>> /\ wire' = Tail(wire) /\ UNCHANGED <<recent, asked, slow, levels>>
  BY DEF ReadIdle, ReadSent, ReadAnswer, ReadTable, ReadInfo, Reads, client, bounds
<1>2. WellFormed(wire)' /\ wire \in Seq(Text \cup Broadcast)
  BY <1>1, WellFormedTail DEF HiddenInv, TypeInv, TypeOK
<1>3. /\ str \in Text \cup Broadcast /\ str = wire[1] /\ Len(wire) \in Nat /\ Len(wire) >= 1
      /\ Len(wire') = Len(wire) - 1 /\ \A k \in 1..Len(wire') : wire'[k] = wire[k + 1]
      /\ wire' \in Seq(Text \cup Broadcast)
  BY <1>1, <1>2, HeadAndTail
<1>4. \A kinds : NextIs(kinds) <=> str.kind \in kinds
  BY <1>1 DEF NextIs
<1>5. ASSUME InAnswer(str)
      PROVE  wire' # <<>> /\ Precedes(str, str') /\ (str.kind = "header" => str.nl)
  <2>1. 1 < Len(wire) /\ Precedes(wire[1], wire[1 + 1]) /\ (wire[1].kind = "header" => wire[1].nl)
    BY <1>3, <1>5 DEF HiddenInv, WellFormed
  <2>2. Len(wire') >= 1 /\ wire'[1] = wire[2] /\ wire' # <<>> /\ str' = wire'[1]
    BY <1>3, <2>1 DEF str
  <2> QED BY <1>3, <2>1, <2>2
<1>6. ASSUME ~Answering PROVE ~Answering'
  <2>1. \A k \in 1..Len(wire) : wire[k].kind # "end"
    BY <1>2, <1>6 DEF Answering
  <2>2. \A k \in 1..Len(wire') : k + 1 \in 1..Len(wire)
    BY <1>3
  <2>3. DOMAIN wire' = 1..Len(wire')
    BY <1>3
  <2> QED BY <1>1, <1>3, <1>6, <2>1, <2>2, <2>3 DEF Answering
<1>7. ASSUME InTime
      PROVE  /\ m_iStatusRequestState' = "ANSWER_RECEIVED" => NextIs({"map", "header"})'
             /\ m_iStatusRequestState' = "PROCESSING" => NextIs({"row", "rest", "end"})'
             /\ processingUserRow' <=> m_iStatusRequestState' = "PROCESSING" /\ NextIs({"rest"})'
  <2> DEFINE state == m_iStatusRequestState
  <2>0. /\ state = "ANSWER_RECEIVED" => str.kind \in {"map", "header"}
        /\ state = "PROCESSING" => str.kind \in {"row", "rest", "end"}
        /\ processingUserRow <=> state = "PROCESSING" /\ str.kind = "rest"
        /\ state \in States /\ processingUserRow \in BOOLEAN
    BY <1>4, <1>7 DEF HiddenInv, StepInv, TypeInv, TypeOK
  <2>1. CASE ReadIdle
    BY <2>0, <2>1 DEF ReadIdle, Reads
  <2>2. CASE ReadInfo
    BY <2>0, <2>2 DEF ReadInfo, client, States
  <2>3. CASE ReadSent
    <3>1. ~processingUserRow' /\ state' # "PROCESSING"
      BY <2>0, <2>3 DEF ReadSent, Reads
    <3>2. state' = "ANSWER_RECEIVED" => str.kind = "hostname"
      BY <2>3 DEF ReadSent
    <3>3. str.kind = "hostname" => NextIs({"map", "header"})'
      BY <1>5 DEF InAnswer, Precedes, NextIs
    <3> QED BY <3>1, <3>2, <3>3
  <2>4. CASE ReadAnswer
    <3>1. str.kind \in {"map", "header"} /\ ~processingUserRow
      BY <2>0, <2>4 DEF ReadAnswer, Reads
    <3>2. CASE str.kind = "map"
      <4>1. state' = "ANSWER_RECEIVED" /\ str.nl = TRUE
        BY <1>3, <2>4, <3>2, TextsByKind DEF ReadAnswer, LooksLikeRow
      <4>2. ~processingUserRow'
        BY <2>4, <3>1, <4>1 DEF ReadAnswer
      <4>3. NextIs({"map", "header"})'
        BY <1>5, <3>2 DEF InAnswer, Precedes, NextIs, Header
      <4> QED BY <4>1, <4>2, <4>3
    <3>3. CASE str.kind = "header"
      <4>1. state' = "PROCESSING" /\ str.nl
        BY <1>5, <2>4, <3>3 DEF ReadAnswer, LooksLikeRow, InAnswer
      <4>2. ~processingUserRow'
        BY <2>4, <3>1, <4>1 DEF ReadAnswer
      <4>3. NextIs({"row", "end"})'
        BY <1>5, <3>3 DEF InAnswer, Precedes, NextIs
      <4> QED BY <4>1, <4>2, <4>3 DEF NextIs
    <3> QED BY <3>1, <3>2, <3>3
  <2>5. CASE ReadTable
    <3>1. str.kind \in {"row", "rest", "end"} /\ (processingUserRow <=> str.kind = "rest")
      BY <2>0, <2>5 DEF ReadTable, Reads
    <3>2. CASE str.kind = "row"
      <4>1. state' = "PROCESSING" /\ (processingUserRow' <=> ~str.nl)
        BY <2>5, <3>1, <3>2 DEF ReadTable, LooksLikeRow, RowPending
      <4>2. CASE str.nl
        BY <1>5, <3>2, <4>1, <4>2 DEF InAnswer, Precedes, NextIs
      <4>3. CASE ~str.nl
        BY <1>5, <3>2, <4>1, <4>3 DEF InAnswer, Precedes, NextIs
      <4> QED BY <4>2, <4>3
    <3>3. CASE str.kind = "rest"
      <4>1. str.nl = TRUE
        BY <1>3, <3>3, TextsByKind
      <4>2. state' = "PROCESSING" /\ ~processingUserRow'
        BY <2>5, <3>1, <3>3, <4>1 DEF ReadTable, LooksLikeRow, RowPending
      <4>3. NextIs({"row", "end"})'
        BY <1>5, <3>3 DEF InAnswer, Precedes, NextIs
      <4> QED BY <4>2, <4>3 DEF NextIs
    <3>4. CASE str.kind = "end"
      BY <2>5, <3>1, <3>4 DEF ReadTable, LooksLikeRow, RowPending
    <3> QED BY <3>1, <3>2, <3>3, <3>4
  <2> QED BY <2>1, <2>2, <2>3, <2>4, <2>5
<1>8. InTime' <=> InTime
  BY <1>1 DEF InTime
<1> QED BY <1>1, <1>2, <1>6, <1>7, <1>8 DEF HiddenInv, StepInv

LEMMA HiddenStep == TypeInv /\ HiddenInv /\ [Next]_vars => HiddenInv'
<1> SUFFICES ASSUME TypeInv, HiddenInv, [Next]_vars PROVE HiddenInv'
  OBVIOUS
<1>1. CASE UNCHANGED vars
  BY <1>1 DEF vars, client, table, server, bounds, HiddenInv, WellFormed, StepInv, InTime,
              Answering, NextIs, str
<1>2. CASE Next
  BY <1>2, HiddenRead, HiddenAsk, HiddenServe, HiddenLevel DEF Next, Client
<1> QED BY <1>1, <1>2

(* As long as answers are in time and the level goes on, what SvcPrint     *)
(* keeps from the console is answers: no other text and no departure is    *)
(* read in the two states in which it does so, wherever the server prints  *)
(* them and however the rows are split.                                    *)
THEOREM OnlyAnswersAreHidden == Spec => []OnlyAnswersHidden
<1>1. TypeInv /\ HiddenInv => OnlyAnswersHidden
  BY DEF HiddenInv, StepInv, InTime, NextIs, OnlyAnswersHidden
<1> QED BY <1>1, TypeHolds, HiddenInit, HiddenStep, PTL DEF Spec

-----------------------------------------------------------------------------
(* Whose ids are shown.                                                    *)

(* What precedes a text decides what it may be.                            *)
LEMMA PrefixDecides ==
  ASSUME NEW w, NEW v, NEW k \in Nat, \A m \in 1..(k - 1) : v[m] = w[m],
         NEW nm, NEW g, NEW ms, NEW s
  PROVE  /\ \A p : Occupies(v, nm, p, s, k) => Occupies(w, nm, p, s, k)
         /\ \A p : Announced(w, g, ms, p, s, k) => Announced(v, g, ms, p, s, k)
         /\ \A q : MayFollow(w, nm, g, ms, q, s, k) => MayFollow(v, nm, g, ms, q, s, k)
<1>1. \A i \in 1..k : Unchanged(v, s, i, k) <=> Unchanged(w, s, i, k)
  BY DEF Unchanged
<1>2. \A p : \A i \in 1..k : Unlisted(v, p, i, k) <=> Unlisted(w, p, i, k)
  BY DEF Unlisted
<1>3. \A i \in 1..(k - 1) : i + 1 \in 1..k
  OBVIOUS
<1>0. k > 0 => 1 \in 1..k
  OBVIOUS
<1>9. k = 0 => /\ Unchanged(v, s, 1, k) /\ Unchanged(w, s, 1, k)
               /\ \A p : Unlisted(v, p, 1, k) /\ Unlisted(w, p, 1, k)
  BY DEF Unchanged, Unlisted
<1>4. ASSUME NEW p, Occupies(v, nm, p, s, k) PROVE Occupies(w, nm, p, s, k)
  <2>1. CASE p = nm[s] /\ Unchanged(v, s, 1, k)
    BY <1>0, <1>1, <1>9, <2>1 DEF Occupies
  <2>2. ASSUME NEW i \in 1..(k - 1), v[i] = Info(s, p), Unchanged(v, s, i + 1, k)
        PROVE  w[i] = Info(s, p) /\ Unchanged(w, s, i + 1, k)
    BY <1>1, <1>3, <2>2
  <2> QED BY <1>4, <2>1, <2>2 DEF Occupies
<1>5. ASSUME NEW p, Announced(w, g, ms, p, s, k) PROVE Announced(v, g, ms, p, s, k)
  <2>1. ASSUME NEW i \in 1..(k - 1), w[i] = Dropped(p), Unchanged(w, s, i + 1, k),
               Unlisted(w, p, i + 1, k)
        PROVE  v[i] = Dropped(p) /\ Unchanged(v, s, i + 1, k) /\ Unlisted(v, p, i + 1, k)
    BY <1>1, <1>2, <1>3, <2>1
  <2>2. CASE Unchanged(w, s, 1, k) /\ Unlisted(w, p, 1, k) /\ (g[s] # p \/ <<s, p>> \in ms)
    <3>1. Unchanged(v, s, 1, k) /\ Unlisted(v, p, 1, k)
      BY <1>0, <1>1, <1>2, <1>9, <2>2
    <3> QED BY <2>2, <3>1 DEF Announced
  <2> QED BY <1>5, <2>1, <2>2 DEF Announced
<1> QED BY <1>4, <1>5 DEF MayFollow

(* Texts that say nothing of s leave it as it was.                         *)
LEMMA GrownUnchanged ==
  ASSUME NEW T, NEW w \in Seq(T), NEW a \in Seq(T), NEW nm, NEW p, NEW s,
         \A k \in 1..Len(a) : a[k].kind = "info" => a[k].slot # s,
         Occupies(w \o a, nm, p, s, Len(w \o a) + 1)
  PROVE  Occupies(w, nm, p, s, Len(w) + 1)
<1> DEFINE b == w \o a
<1>1. /\ Len(b) = Len(w) + Len(a) /\ Len(w) \in Nat /\ Len(a) \in Nat
      /\ \A k \in 1..Len(w) : b[k] = w[k]
      /\ \A k \in 1..Len(a) : b[k + Len(w)] = a[k]
  OBVIOUS
<1>2. Occupies(b, nm, p, s, Len(b) + 1)
  OBVIOUS
<1> HIDE DEF b
<1>3. CASE p = nm[s] /\ Unchanged(b, s, 1, Len(b) + 1)
  <2>1. Unchanged(w, s, 1, Len(w) + 1)
    BY <1>1, <1>3 DEF Unchanged
  <2> QED BY <1>3, <2>1 DEF Occupies
<1>4. ASSUME NEW i \in 1..((Len(b) + 1) - 1), b[i] = Info(s, p), Unchanged(b, s, i + 1, Len(b) + 1)
      PROVE  Occupies(w, nm, p, s, Len(w) + 1)
  <2>1. CASE i <= Len(w)
    <3>1. i \in 1..((Len(w) + 1) - 1) /\ w[i] = Info(s, p)
      BY <1>1, <1>4, <2>1
    <3>2. Unchanged(w, s, i + 1, Len(w) + 1)
      BY <1>1, <1>4, <2>1 DEF Unchanged
    <3> QED BY <3>1, <3>2 DEF Occupies
  <2>2. CASE i > Len(w)
    <3>1. i - Len(w) \in 1..Len(a) /\ (i - Len(w)) + Len(w) = i
      BY <1>1, <2>2
    <3>2. a[i - Len(w)] = Info(s, p)
      BY <1>1, <1>4, <3>1
    <3>3. Info(s, p).kind = "info" /\ Info(s, p).slot = s
      BY DEF Info
    <3> QED BY <3>1, <3>2, <3>3
  <2> QED BY <1>1, <2>1, <2>2
<1> QED BY <1>2, <1>3, <1>4 DEF Occupies

LEMMA GrownAnnounced ==
  ASSUME NEW T, NEW w \in Seq(T), NEW a \in Seq(T), NEW g, NEW ms, NEW p, NEW s,
         \A k \in 1..Len(a) : a[k].kind = "info" => a[k].slot # s,
         \A k \in 1..Len(a) : a[k].kind = "row" => a[k].who # p,
         Announced(w, g, ms, p, s, Len(w) + 1)
  PROVE  Announced(w \o a, g, ms, p, s, Len(w \o a) + 1)
<1> DEFINE b == w \o a
<1>1. /\ Len(b) = Len(w) + Len(a) /\ Len(w) \in Nat /\ Len(a) \in Nat
      /\ \A k \in 1..Len(w) : b[k] = w[k]
      /\ \A k \in 1..Len(a) : b[k + Len(w)] = a[k]
  OBVIOUS
<1> HIDE DEF b
<1> SUFFICES Announced(b, g, ms, p, s, Len(b) + 1)
  BY DEF b
<1>2. \A k \in 1..Len(b) : k \in 1..Len(w) \/ (k - Len(w) \in 1..Len(a) /\ (k - Len(w)) + Len(w) = k)
  BY <1>1
<1>3. ASSUME NEW k \in 1..Len(b)
      PROVE  \/ k \in 1..Len(w) /\ b[k] = w[k]
             \/ /\ b[k].kind = "info" => b[k].slot # s
                /\ b[k].kind = "row" => b[k].who # p
  <2>1. CASE k \in 1..Len(w)
    BY <1>1, <2>1
  <2>2. CASE k - Len(w) \in 1..Len(a) /\ (k - Len(w)) + Len(w) = k
    <3>1. b[k] = a[k - Len(w)]
      BY <1>1, <2>2
    <3> QED BY <2>2, <3>1
  <2> QED BY <1>2, <2>1, <2>2
<1>4. ASSUME NEW i \in 1..(Len(w) + 1)
      PROVE  /\ Unchanged(w, s, i, Len(w) + 1) => Unchanged(b, s, i, Len(b) + 1)
             /\ Unlisted(w, p, i, Len(w) + 1) => Unlisted(b, p, i, Len(b) + 1)
  BY <1>1, <1>3 DEF Unchanged, Unlisted
<1>5. ASSUME NEW i \in 1..((Len(w) + 1) - 1), w[i] = Dropped(p), Unchanged(w, s, i + 1, Len(w) + 1),
             Unlisted(w, p, i + 1, Len(w) + 1)
      PROVE  Announced(b, g, ms, p, s, Len(b) + 1)
  <2>1. i \in 1..((Len(b) + 1) - 1) /\ b[i] = Dropped(p) /\ i + 1 \in 1..(Len(w) + 1)
    BY <1>1, <1>5
  <2>2. Unchanged(b, s, i + 1, Len(b) + 1) /\ Unlisted(b, p, i + 1, Len(b) + 1)
    BY <1>4, <1>5, <2>1
  <2> QED BY <2>1, <2>2 DEF Announced
<1>6. CASE /\ Unchanged(w, s, 1, Len(w) + 1) /\ Unlisted(w, p, 1, Len(w) + 1)
           /\ g[s] # p \/ <<s, p>> \in ms
  <2>1. 1 \in 1..(Len(w) + 1)
    BY <1>1
  <2>2. Unchanged(b, s, 1, Len(b) + 1) /\ Unlisted(b, p, 1, Len(b) + 1)
    BY <1>4, <1>6, <2>1
  <2> QED BY <1>6, <2>2 DEF Announced
<1> QED BY <1>5, <1>6 DEF Announced

(* Reading the first text x of w leaves v, which says the same of every    *)
(* slot as w did: if x is a change, through the client's table.            *)
LEMMA ReadOccupies ==
  ASSUME NEW w, NEW v, NEW k \in Nat \ {0}, \A m \in 1..(k - 1) : v[m] = w[m + 1],
         NEW nm, NEW n1, NEW p, NEW s,
         w[1].kind = "info" => n1[s] = IF w[1].slot = s THEN w[1].who ELSE nm[s],
         w[1].kind = "info" => w[1] = Info(w[1].slot, w[1].who),
         w[1].kind # "info" => n1[s] = nm[s],
         Occupies(v, n1, p, s, k)
  PROVE  Occupies(w, nm, p, s, k + 1)
<1>1. ASSUME NEW i \in 1..k, Unchanged(v, s, i, k) PROVE Unchanged(w, s, i + 1, k + 1)
  <2> SUFFICES ASSUME NEW m \in (i + 1)..((k + 1) - 1), w[m].kind = "info" PROVE w[m].slot # s
    BY DEF Unchanged
  <2>1. m - 1 \in i..(k - 1) /\ m - 1 \in 1..(k - 1) /\ (m - 1) + 1 = m
    OBVIOUS
  <2>2. v[m - 1] = w[m]
    BY <2>1
  <2> QED BY <1>1, <2>1, <2>2 DEF Unchanged
<1>2. CASE p = n1[s] /\ Unchanged(v, s, 1, k)
  <2>1. Unchanged(w, s, 2, k + 1)
    BY <1>1, <1>2
  <2>2. CASE w[1].kind = "info" /\ w[1].slot = s
    <3>1. w[1] = Info(s, p) /\ 1 \in 1..((k + 1) - 1)
      BY <1>2, <2>2
    <3>2. Unchanged(w, s, 1 + 1, k + 1)
      BY <2>1
    <3> QED BY <3>1, <3>2 DEF Occupies
  <2>3. CASE w[1].kind = "info" => w[1].slot # s
    <3>1. p = nm[s]
      BY <1>2, <2>3
    <3>2. Unchanged(w, s, 1, k + 1)
      BY <2>1, <2>3 DEF Unchanged
    <3> QED BY <3>1, <3>2 DEF Occupies
  <2> QED BY <2>2, <2>3
<1>3. ASSUME NEW i \in 1..(k - 1), v[i] = Info(s, p), Unchanged(v, s, i + 1, k)
      PROVE  Occupies(w, nm, p, s, k + 1)
  <2>1. i + 1 \in 1..k /\ i + 1 \in 1..((k + 1) - 1) /\ w[i + 1] = Info(s, p)
    BY <1>3
  <2>2. Unchanged(w, s, (i + 1) + 1, k + 1)
    BY <1>1, <1>3, <2>1
  <2> QED BY <2>1, <2>2 DEF Occupies
<1> QED BY <1>2, <1>3 DEF Occupies

(* What was announced still is, if a departure that is read takes the id   *)
(* away or is remembered as overlooked, and only rows bring an id back.    *)
LEMMA ReadAnnounced ==
  ASSUME NEW w, NEW v, NEW k \in Nat \ {0}, \A m \in 1..(k - 1) : v[m] = w[m + 1],
         NEW n1, NEW g, NEW g1, NEW ms, NEW ms1, NEW p, NEW s,
         w[1] = Dropped(p) /\ n1[s] = p => g1[s] # p \/ <<s, p>> \in ms1,
         ~(w[1].kind = "row" /\ w[1].who = p) /\ (g[s] # p \/ <<s, p>> \in ms)
           => g1[s] # p \/ <<s, p>> \in ms1,
         Occupies(v, n1, p, s, k),
         Announced(w, g, ms, p, s, k + 1)
  PROVE  Announced(v, g1, ms1, p, s, k)
<1>1. ASSUME NEW i \in 1..k
      PROVE  /\ Unchanged(w, s, i + 1, k + 1) => Unchanged(v, s, i, k)
             /\ Unlisted(w, p, i + 1, k + 1) => Unlisted(v, p, i, k)
  <2>1. \A m \in i..(k - 1) : m + 1 \in (i + 1)..((k + 1) - 1) /\ v[m] = w[m + 1]
    OBVIOUS
  <2> QED BY <2>1 DEF Unchanged, Unlisted
<1>2. 1 \in 1..k /\ 1 + 1 = 2
  OBVIOUS
<1>3. ASSUME NEW i \in 1..((k + 1) - 1), w[i] = Dropped(p), Unchanged(w, s, i + 1, k + 1),
             Unlisted(w, p, i + 1, k + 1)
      PROVE  Announced(v, g1, ms1, p, s, k)
  <2>1. CASE i = 1
    <3>1. Unchanged(v, s, 1, k) /\ Unlisted(v, p, 1, k) /\ w[1] = Dropped(p)
      BY <1>1, <1>2, <1>3, <2>1
    <3>2. p = n1[s]
      <4>1. ASSUME NEW j \in 1..(k - 1), v[j] = Info(s, p) PROVE FALSE
        <5>1. v[j].kind = "info" /\ v[j].slot = s
          BY <4>1 DEF Info
        <5> QED BY <3>1, <5>1 DEF Unchanged
      <4> QED BY <4>1 DEF Occupies
    <3> QED BY <3>1, <3>2 DEF Announced
  <2>2. CASE i > 1
    <3>1. i - 1 \in 1..(k - 1) /\ (i - 1) + 1 = i /\ i \in 1..k
      BY <2>2
    <3>2. v[i - 1] = Dropped(p)
      BY <1>3, <3>1
    <3>3. Unchanged(v, s, (i - 1) + 1, k) /\ Unlisted(v, p, (i - 1) + 1, k)
      BY <1>1, <1>3, <3>1
    <3> QED BY <3>1, <3>2, <3>3 DEF Announced
  <2> QED BY <2>1, <2>2
<1>4. CASE /\ Unchanged(w, s, 1, k + 1) /\ Unlisted(w, p, 1, k + 1)
           /\ g[s] # p \/ <<s, p>> \in ms
  <2>1. Unchanged(w, s, 2, k + 1) /\ Unlisted(w, p, 2, k + 1)
    BY <1>4 DEF Unchanged, Unlisted
  <2>2. Unchanged(v, s, 1, k) /\ Unlisted(v, p, 1, k)
    BY <1>1, <1>2, <2>1
  <2>3. ~(w[1].kind = "row" /\ w[1].who = p)
    BY <1>4 DEF Unlisted
  <2>4. g1[s] # p \/ <<s, p>> \in ms1
    BY <1>4, <2>3
  <2> QED BY <2>2, <2>4 DEF Announced
<1> QED BY <1>3, <1>4 DEF Announced

(* What each of the client's readings does to the ids.                     *)
LEMMA ReadIds ==
  ASSUME TypeInv, IdsOfOccupants, ReadIdle \/ ReadSent \/ ReadAnswer \/ ReadTable, NEW s \in Slots
  PROVE  /\ g_PlayerSteamId'[s] # NoPlayer =>
              g_PlayerSteamId'[s] = names[s] \/ <<s, g_PlayerSteamId'[s]>> \in missed'
         /\ \A p : str = Dropped(p) /\ names[s] = p => g_PlayerSteamId'[s] # p \/ <<s, p>> \in missed'
         /\ \A p \in Players :
              ~(str.kind = "row" /\ str.who = p) /\ (g_PlayerSteamId[s] # p \/ <<s, p>> \in missed)
                => g_PlayerSteamId'[s] # p \/ <<s, p>> \in missed'
<1> DEFINE g == g_PlayerSteamId
<1>0. /\ wire # <<>> /\ str.kind # "info"
      /\ g \in [Slots -> Anyone] /\ names \in [Slots -> Anyone] /\ listed \subseteq Slots
      /\ g[s] # NoPlayer => g[s] = names[s] \/ <<s, g[s]>> \in missed
  BY DEF ReadIdle, ReadSent, ReadAnswer, ReadTable, Reads, TypeInv, TypeOK, IdsOfOccupants, Anyone
<1>1. str \in Text \cup Broadcast
  BY <1>0, HeadAndTail DEF TypeInv, TypeOK
<1>2. /\ \A p : str = Dropped(p) => str.kind = "dropped" /\ str.who = p
      /\ str.kind = "dropped" => str.who \in Players
      /\ str.kind = "row" => str.who \in Players
  <2>1. \A p : Dropped(p).kind = "dropped" /\ Dropped(p).who = p
    BY DEF Dropped
  <2> QED BY <1>1, <2>1, TextsByKind
<1>3. NoPlayer \notin Players
  BY StatusConstantsOK
<1>4. CASE ReadIdle
  <2>1. missed' = missed
    BY <1>4 DEF ReadIdle
  <2>2. CASE str.kind = "dropped"
    <3>1. g'[s] = IF names[s] = str.who THEN NoPlayer ELSE g[s]
      BY <1>4, <2>2 DEF ReadIdle
    <3>2. str.who # NoPlayer
      BY <1>2, <1>3, <2>2
    <3>3. ASSUME NEW p \in Players, g[s] # p \/ <<s, p>> \in missed
          PROVE  g'[s] # p \/ <<s, p>> \in missed
      BY <1>3, <3>1, <3>3
    <3> QED BY <1>0, <1>2, <2>1, <3>1, <3>2, <3>3
  <2>3. CASE str.kind # "dropped"
    <3>1. g' = g
      BY <1>4, <2>3 DEF ReadIdle
    <3> QED BY <1>0, <1>2, <2>1, <2>3, <3>1
  <2> QED BY <2>2, <2>3
<1>5. ASSUME Overlooks
      PROVE  /\ missed \subseteq missed'
             /\ \A p : str = Dropped(p) => g[s] # p \/ <<s, p>> \in missed'
  <2>1. CASE str.kind = "dropped"
    <3>1. g[s] = str.who => <<s, str.who>> \in missed'
      BY <1>5, <2>1 DEF Overlooks
    <3> QED BY <1>2, <1>5, <2>1, <3>1 DEF Overlooks
  <2>2. CASE str.kind # "dropped"
    BY <1>2, <1>5, <2>2 DEF Overlooks
  <2> QED BY <2>1, <2>2
<1>6. CASE ReadSent \/ ReadAnswer
  <2>1. g' = g /\ Overlooks
    BY <1>6 DEF ReadSent, ReadAnswer
  <2> QED BY <1>0, <1>5, <2>1
<1>7. CASE ReadTable
  <2>1. Overlooks
    BY <1>7 DEF ReadTable
  <2>2. CASE str.kind = "row"
    <3>1. g'[s] = IF s = SlotOf(str) THEN str.who ELSE g[s]
      BY <1>7, <2>2 DEF ReadTable, IdIn
    <3>2. s = SlotOf(str) => names[s] = str.who
      <4>1. s # 0
        BY StatusConstantsOK DEF Slots
      <4> QED BY <4>1, SlotsOfRows DEF TypeInv
    <3>3. \A p : str # Dropped(p)
      BY <1>2, <2>2
    <3>4. CASE s = SlotOf(str)
      BY <2>2, <3>1, <3>2, <3>3, <3>4
    <3>5. CASE s # SlotOf(str)
      BY <1>0, <1>5, <2>1, <3>1, <3>3, <3>5
    <3> QED BY <3>4, <3>5
  <2>3. CASE str.kind # "row"
    <3>1. g' = g
      BY <1>7, <2>3 DEF ReadTable
    <3> QED BY <1>0, <1>5, <2>1, <3>1
  <2> QED BY <2>2, <2>3
<1> QED BY <1>4, <1>6, <1>7

LEMMA IdRead ==
  ASSUME TypeInv, IdInv, ReadIdle \/ ReadSent \/ ReadAnswer \/ ReadTable
  PROVE  IdInv'
<1>0. /\ wire # <<>> /\ str.kind # "info" /\ wire' = Tail(wire) /\ UNCHANGED <<names, roster, lag>>
  BY DEF ReadIdle, ReadSent, ReadAnswer, ReadTable, Reads, table, server
<1>1. /\ str = wire[1] /\ Len(wire) \in Nat /\ Len(wire) >= 1
      /\ Len(wire') = Len(wire) - 1 /\ \A k \in 1..Len(wire') : wire'[k] = wire[k + 1]
      /\ \A k \in 1..Len(wire) : wire[k].kind = "info" => wire[k].slot \in Slots
  <2>1. wire \in Seq(Text \cup Broadcast)
    BY DEF TypeInv, TypeOK
  <2>2. \A k \in 1..Len(wire) : wire[k] \in Text \cup Broadcast
    BY <2>1
  <2> QED BY <1>0, <2>1, <2>2, HeadAndTail, TextsByKind
<1>2. ASSUME NEW s \in Slots, NEW k \in 1..(Len(wire') + 1), NEW p \in Anyone,
             Occupies(wire', names', p, s, k)
      PROVE  Occupies(wire, names, p, s, k + 1)
  <2>1. k \in Nat \ {0} /\ \A m \in 1..(k - 1) : wire'[m] = wire[m + 1]
    BY <1>1
  <2> QED BY <1>0, <1>1, <1>2, <2>1, ReadOccupies
<1>3. ASSUME NEW s \in Slots, NEW k \in 1..(Len(wire') + 1), NEW q, Follows(q, s, k + 1)
      PROVE  MayFollow(wire', names', g_PlayerSteamId', missed', q, s, k)
  <2> SUFFICES ASSUME NEW p \in Anyone, Occupies(wire', names', p, s, k)
               PROVE  IF q = NoPlayer
                      THEN p # NoPlayer /\ Announced(wire', g_PlayerSteamId', missed', p, s, k)
                      ELSE p = NoPlayer
    BY DEF MayFollow
  <2>1. Occupies(wire, names, p, s, k + 1)
    BY <1>2
  <2>2. IF q = NoPlayer
        THEN p # NoPlayer /\ Announced(wire, g_PlayerSteamId, missed, p, s, k + 1)
        ELSE p = NoPlayer
    BY <1>3, <2>1 DEF Follows, MayFollow
  <2>3. CASE q = NoPlayer
    <3>1. k \in Nat \ {0} /\ \A m \in 1..(k - 1) : wire'[m] = wire[m + 1]
      BY <1>1
    <3>2. p \in Players
      BY <2>2, <2>3 DEF Anyone
    <3>3. /\ wire[1] = Dropped(p) /\ names'[s] = p => g_PlayerSteamId'[s] # p \/ <<s, p>> \in missed'
          /\ ~(wire[1].kind = "row" /\ wire[1].who = p) /\ (g_PlayerSteamId[s] # p \/ <<s, p>> \in missed)
               => g_PlayerSteamId'[s] # p \/ <<s, p>> \in missed'
      BY <1>0, <1>1, <3>2, ReadIds DEF IdInv
    <3>4. Announced(wire, g_PlayerSteamId, missed, p, s, k + 1)
      BY <2>2, <2>3
    <3>5. Announced(wire', g_PlayerSteamId', missed', p, s, k)
      BY <3>1, <3>3, <3>4, ReadAnnounced
    <3> QED BY <2>2, <2>3, <3>5
  <2> QED BY <2>2, <2>3
<1>4. IdsOfOccupants'
  BY <1>0, ReadIds DEF IdsOfOccupants, IdInv
<1>5. RosterInv'
  BY <1>0 DEF RosterInv, IdInv
<1>6. WireInv'
  <2> SUFFICES ASSUME NEW k \in 1..Len(wire'), wire'[k].kind = "info"
               PROVE  MayFollow(wire', names', g_PlayerSteamId', missed', wire'[k].who, wire'[k].slot, k)
    BY DEF WireInv, Follows
  <2>1. k + 1 \in 1..Len(wire) /\ wire'[k] = wire[k + 1] /\ k \in 1..(Len(wire') + 1)
    BY <1>1
  <2>2. Follows(wire[k + 1].who, wire[k + 1].slot, k + 1) /\ wire[k + 1].slot \in Slots
    BY <1>1, <2>1 DEF IdInv, WireInv
  <2> QED BY <1>3, <2>1, <2>2
<1>7. EndInv'
  <2>1. Len(wire') + 1 \in 1..(Len(wire') + 1) /\ (Len(wire') + 1) + 1 = Len(wire) + 1
    BY <1>1
  <2>2. \A s : Pending(s)' <=> Pending(s)
    BY <1>0 DEF Pending
  <2>3. \A s \in Slots, p \in Anyone :
          Occupies(wire', names', p, s, Len(wire') + 1) => Occupies(wire, names, p, s, Len(wire) + 1)
    BY <1>2, <2>1
  <2>4. ASSUME NEW s \in Slots, Pending(s)
        PROVE  MayFollow(wire', names', g_PlayerSteamId', missed', roster'[s], s, Len(wire') + 1)
    <3>1. Follows(roster'[s], s, (Len(wire') + 1) + 1)
      BY <1>0, <2>1, <2>4 DEF IdInv, EndInv, End
    <3> QED BY <1>3, <2>1, <3>1
  <2> QED BY <1>0, <2>2, <2>3, <2>4 DEF IdInv, EndInv, Follows, End
<1> QED BY <1>4, <1>5, <1>6, <1>7 DEF IdInv

LEMMA IdReadInfo ==
  ASSUME TypeInv, IdInv, ReadInfo
  PROVE  IdInv'
<1>0. /\ wire # <<>> /\ str.kind = "info" /\ wire' = Tail(wire)
      /\ names' = [names EXCEPT ![str.slot] = str.who]
      /\ UNCHANGED <<g_PlayerSteamId, missed, roster, lag>>
  BY DEF ReadInfo, client, server
<1>1. /\ str = wire[1] /\ Len(wire) \in Nat /\ Len(wire) >= 1
      /\ Len(wire') = Len(wire) - 1 /\ \A k \in 1..Len(wire') : wire'[k] = wire[k + 1]
      /\ str \in Text \cup Broadcast
  BY <1>0, HeadAndTail DEF TypeInv, TypeOK
<1>2. /\ str.slot \in Slots /\ str.who \in Anyone /\ wire[1] = Info(str.slot, str.who)
      /\ names \in [Slots -> Anyone] /\ g_PlayerSteamId \in [Slots -> Anyone]
  BY <1>0, <1>1, TextsByKind DEF TypeInv, TypeOK, Anyone
<1>3. \A s \in Slots : names'[s] = IF wire[1].slot = s THEN wire[1].who ELSE names[s]
  BY <1>0, <1>1, <1>2
<1>4. \A k \in 1..Len(wire) : wire[k].kind = "info" => wire[k].slot \in Slots
  <2>1. \A k \in 1..Len(wire) : wire[k] \in Text \cup Broadcast
    BY DEF TypeInv, TypeOK
  <2> QED BY <2>1, TextsByKind
<1>5. ASSUME NEW s \in Slots, NEW k \in 1..(Len(wire') + 1), NEW p \in Anyone,
             Occupies(wire', names', p, s, k)
      PROVE  Occupies(wire, names, p, s, k + 1)
  <2>1. k \in Nat \ {0} /\ \A m \in 1..(k - 1) : wire'[m] = wire[m + 1]
    BY <1>1
  <2>2. wire[1].kind = "info" /\ wire[1] = Info(wire[1].slot, wire[1].who)
    BY <1>0, <1>1, <1>2
  <2> QED BY <1>3, <1>5, <2>1, <2>2, ReadOccupies
<1>6. ASSUME NEW s \in Slots, NEW k \in 1..(Len(wire') + 1), NEW q, Follows(q, s, k + 1)
      PROVE  MayFollow(wire', names', g_PlayerSteamId, missed, q, s, k)
  <2> SUFFICES ASSUME NEW p \in Anyone, Occupies(wire', names', p, s, k)
               PROVE  IF q = NoPlayer
                      THEN p # NoPlayer /\ Announced(wire', g_PlayerSteamId, missed, p, s, k)
                      ELSE p = NoPlayer
    BY DEF MayFollow
  <2>1. Occupies(wire, names, p, s, k + 1)
    BY <1>5
  <2>2. IF q = NoPlayer
        THEN p # NoPlayer /\ Announced(wire, g_PlayerSteamId, missed, p, s, k + 1)
        ELSE p = NoPlayer
    BY <1>6, <2>1 DEF Follows, MayFollow
  <2>3. CASE q = NoPlayer
    <3>1. k \in Nat \ {0} /\ \A m \in 1..(k - 1) : wire'[m] = wire[m + 1]
      BY <1>1
    <3>2. wire[1] # Dropped(p)
      BY <1>0, <1>1 DEF Dropped
    <3>3. Announced(wire, g_PlayerSteamId, missed, p, s, k + 1)
      BY <2>2, <2>3
    <3>4. Announced(wire', g_PlayerSteamId, missed, p, s, k)
      BY <3>1, <3>2, <3>3, ReadAnnounced
    <3> QED BY <2>2, <2>3, <3>4
  <2> QED BY <2>2, <2>3
(* The change that is read: the slot's id is that of no other player.      *)
<1>7. IdsOfOccupants'
  <2> SUFFICES ASSUME NEW s \in Slots, g_PlayerSteamId[s] # NoPlayer
               PROVE  g_PlayerSteamId[s] = names'[s] \/ <<s, g_PlayerSteamId[s]>> \in missed
    BY <1>0 DEF IdsOfOccupants
  <2>1. g_PlayerSteamId[s] = names[s] \/ <<s, g_PlayerSteamId[s]>> \in missed
    BY DEF IdInv, IdsOfOccupants
  <2>2. CASE str.slot # s
    BY <1>1, <1>3, <2>1, <2>2
  <2>3. CASE str.slot = s /\ g_PlayerSteamId[s] = names[s]
    <3>1. Follows(str.who, s, 1)
      BY <1>0, <1>1, <2>3 DEF IdInv, WireInv
    <3>2. Occupies(wire, names, names[s], s, 1) /\ names[s] \in Anyone
      BY <1>2 DEF Occupies, Unchanged
    <3>3. Announced(wire, g_PlayerSteamId, missed, names[s], s, 1)
      BY <2>3, <3>1, <3>2 DEF Follows, MayFollow
    <3>4. g_PlayerSteamId[s] # names[s] \/ <<s, names[s]>> \in missed
      BY <3>3 DEF Announced
    <3> QED BY <2>3, <3>4
  <2> QED BY <2>1, <2>2, <2>3
<1>8. RosterInv'
  BY <1>0 DEF RosterInv, IdInv
<1>9. WireInv'
  <2> SUFFICES ASSUME NEW k \in 1..Len(wire'), wire'[k].kind = "info"
               PROVE  MayFollow(wire', names', g_PlayerSteamId', missed', wire'[k].who, wire'[k].slot, k)
    BY DEF WireInv, Follows
  <2>1. k + 1 \in 1..Len(wire) /\ wire'[k] = wire[k + 1] /\ k \in 1..(Len(wire') + 1)
    BY <1>1
  <2>2. Follows(wire[k + 1].who, wire[k + 1].slot, k + 1) /\ wire[k + 1].slot \in Slots
    BY <1>4, <2>1 DEF IdInv, WireInv
  <2> QED BY <1>0, <1>6, <2>1, <2>2
<1>10. EndInv'
  <2>1. Len(wire') + 1 \in 1..(Len(wire') + 1) /\ (Len(wire') + 1) + 1 = Len(wire) + 1
    BY <1>1
  <2>2. \A s : Pending(s)' <=> Pending(s)
    BY <1>0 DEF Pending
  <2>3. \A s \in Slots, p \in Anyone :
          Occupies(wire', names', p, s, Len(wire') + 1) => Occupies(wire, names, p, s, Len(wire) + 1)
    BY <1>5, <2>1
  <2>4. ASSUME NEW s \in Slots, Pending(s)
        PROVE  MayFollow(wire', names', g_PlayerSteamId, missed, roster[s], s, Len(wire') + 1)
    <3>1. Follows(roster[s], s, (Len(wire') + 1) + 1)
      BY <2>1, <2>4 DEF IdInv, EndInv, End
    <3> QED BY <1>6, <2>1, <3>1
  <2> QED BY <1>0, <2>2, <2>3, <2>4 DEF IdInv, EndInv, Follows, End
<1> QED BY <1>7, <1>8, <1>9, <1>10 DEF IdInv

(* What the server adds to the wire leaves what it says of the wire's      *)
(* texts so far.                                                           *)
LEMMA WireInvGrows ==
  ASSUME TypeInv, WireInv, UNCHANGED <<names, g_PlayerSteamId, missed>>,
         NEW a \in Seq(Text \cup Broadcast), wire' = wire \o a,
         \A k \in 1..Len(a) : a[k].kind = "info" =>
           Follows(a[k].who, a[k].slot, End) /\ k = 1
  PROVE  WireInv'
<1>1. wire \in Seq(Text \cup Broadcast)
  BY DEF TypeInv, TypeOK
<1>2. /\ Len(wire') = Len(wire) + Len(a) /\ Len(wire) \in Nat /\ Len(a) \in Nat
      /\ \A k \in 1..Len(wire) : wire'[k] = wire[k]
      /\ \A k \in 1..Len(a) : wire'[k + Len(wire)] = a[k]
  BY <1>1
<1> SUFFICES ASSUME NEW k \in 1..Len(wire'), wire'[k].kind = "info"
             PROVE  MayFollow(wire', names, g_PlayerSteamId, missed, wire'[k].who, wire'[k].slot, k)
  BY DEF WireInv, Follows
<1>3. k <= Len(wire) + 1 => k \in Nat /\ \A m \in 1..(k - 1) : wire'[m] = wire[m]
  BY <1>2
<1>4. CASE k <= Len(wire)
  <2>1. k \in 1..Len(wire) /\ wire'[k] = wire[k]
    BY <1>2, <1>4
  <2>2. MayFollow(wire, names, g_PlayerSteamId, missed, wire'[k].who, wire'[k].slot, k)
    BY <2>1 DEF WireInv, Follows
  <2>3. k \in Nat /\ \A m \in 1..(k - 1) : wire'[m] = wire[m]
    BY <1>2, <1>3, <1>4
  <2> QED BY <2>2, <2>3, PrefixDecides, Zenon
<1>5. CASE k > Len(wire)
  <2>1. k - Len(wire) \in 1..Len(a) /\ (k - Len(wire)) + Len(wire) = k
    BY <1>2, <1>5
  <2>2. wire'[k] = a[k - Len(wire)]
    BY <1>2, <2>1
  <2>3. Follows(wire'[k].who, wire'[k].slot, End) /\ k - Len(wire) = 1
    BY <2>1, <2>2
  <2>4. k = Len(wire) + 1
    BY <1>2, <2>3
  <2>5. MayFollow(wire, names, g_PlayerSteamId, missed, wire'[k].who, wire'[k].slot, k)
    BY <2>3, <2>4 DEF Follows, End
  <2>6. k \in Nat /\ \A m \in 1..(k - 1) : wire'[m] = wire[m]
    BY <1>2, <1>3, <2>4
  <2> QED BY <2>5, <2>6, PrefixDecides, Zenon
<1> QED BY <1>2, <1>4, <1>5

(* Texts that are printed amid a frame: none changes a slot, and rows are  *)
(* about those who are there.                                              *)
LEMMA IdPrint ==
  ASSUME TypeInv, IdInv, UNCHANGED <<names, g_PlayerSteamId, missed, roster, lag>>,
         NEW a \in Seq(Text \cup Broadcast), wire' = wire \o a,
         \A k \in 1..Len(a) : a[k].kind # "info",
         \A k \in 1..Len(a) : a[k].kind = "row" => \E s \in Slots : a[k].who = roster[s]
  PROVE  IdInv'
<1>1. IdsOfOccupants' /\ RosterInv'
  BY DEF IdInv, IdsOfOccupants, RosterInv
<1>2. WireInv'
  BY WireInvGrows DEF IdInv
<1>3. wire \in Seq(Text \cup Broadcast)
  BY DEF TypeInv, TypeOK
<1>4. ASSUME NEW s \in Slots, NEW p, Occupies(wire', names, p, s, Len(wire') + 1)
      PROVE  Occupies(wire, names, p, s, Len(wire) + 1)
  BY <1>3, <1>4, GrownUnchanged
<1>5. ASSUME NEW s \in Slots, Pending(s)
      PROVE  MayFollow(wire', names, g_PlayerSteamId, missed, roster[s], s, Len(wire') + 1)
  <2> SUFFICES ASSUME NEW p \in Anyone, Occupies(wire', names, p, s, Len(wire') + 1)
               PROVE  IF roster[s] = NoPlayer
                      THEN p # NoPlayer /\ Announced(wire', g_PlayerSteamId, missed, p, s, Len(wire') + 1)
                      ELSE p = NoPlayer
    BY DEF MayFollow
  <2>1. Occupies(wire, names, p, s, Len(wire) + 1)
    BY <1>4
  <2>2. /\ MayFollow(wire, names, g_PlayerSteamId, missed, roster[s], s, Len(wire) + 1)
        /\ roster[s] = NoPlayer => \A t \in Slots : roster[t] # p
    BY <1>5, <2>1 DEF IdInv, EndInv, Follows, End
  <2>3. CASE roster[s] = NoPlayer
    <3>1. Announced(wire, g_PlayerSteamId, missed, p, s, Len(wire) + 1) /\ p # NoPlayer
      BY <2>1, <2>2, <2>3 DEF MayFollow
    <3>2. \A k \in 1..Len(a) : a[k].kind = "row" => a[k].who # p
      BY <2>2, <2>3
    <3>3. Announced(wire', g_PlayerSteamId, missed, p, s, Len(wire') + 1)
      BY <1>3, <3>1, <3>2, GrownAnnounced
    <3> QED BY <2>3, <3>1, <3>3
  <2>4. CASE roster[s] # NoPlayer
    BY <2>1, <2>2, <2>4 DEF MayFollow
  <2> QED BY <2>3, <2>4
<1>6. \A s : Pending(s)' <=> Pending(s)
  BY DEF Pending
<1>7. EndInv'
  BY <1>4, <1>5, <1>6 DEF IdInv, EndInv, Follows, End
<1> QED BY <1>1, <1>2, <1>7 DEF IdInv

LEMMA IdHostStatus ==
  ASSUME TypeInv, IdInv, HostStatus \/ PrintOther
  PROVE  IdInv'
<1>1. UNCHANGED <<names, g_PlayerSteamId, missed, roster, lag>>
  BY DEF HostStatus, PrintOther, client, table, server
<1>2. wire \in Seq(Text \cup Broadcast) /\ roster \in [Slots -> Anyone]
  BY DEF TypeInv, TypeOK, Anyone
<1>3. CASE HostStatus
  <2>1. PICK split \in BOOLEAN : wire' = wire \o Answer(split)
    BY <1>3 DEF HostStatus
  <2> DEFINE a == Answer(split)
  <2>2. /\ a \in Seq(Text)
        /\ \A k \in 1..Len(a) : a[k].kind \notin {"info", "dropped"}
        /\ \A k \in 1..Len(a) : a[k].kind = "row" => \E s \in Occupied(roster) : a[k].who = roster[s]
    BY <1>2, AnswerOfTheRoster
  <2>3. wire' = wire \o a
    BY <2>1
  <2> HIDE DEF a
  <2>4. a \in Seq(Text \cup Broadcast)
    BY <2>2
  <2>5. /\ \A k \in 1..Len(a) : a[k].kind # "info"
        /\ \A k \in 1..Len(a) : a[k].kind = "row" => \E s \in Slots : a[k].who = roster[s]
    BY <2>2 DEF Occupied
  <2> QED BY <1>1, <2>3, <2>4, <2>5, IdPrint
<1>4. CASE PrintOther
  <2> DEFINE a == <<Unrelated>>
  <2>1. Unrelated \in Text \cup Broadcast /\ Unrelated.kind = "print"
    BY DEF Text, Unrelated, Other
  <2>2. a \in Seq(Text \cup Broadcast) /\ Len(a) = 1 /\ a[1] = Unrelated
    BY <2>1
  <2>3. wire' = wire \o a
    BY <1>2, <1>4, <2>1 DEF PrintOther
  <2> HIDE DEF a
  <2>4. \A k \in 1..Len(a) : a[k].kind # "info" /\ a[k].kind # "row"
    BY <2>1, <2>2
  <2> QED BY <1>1, <2>2, <2>3, <2>4, IdPrint
<1> QED BY <1>3, <1>4

(* A player joins: the slot had nobody at the end of the wire.             *)
LEMMA IdJoin ==
  ASSUME TypeInv, IdInv, Join
  PROVE  IdInv'
<1>1. /\ UNCHANGED <<names, g_PlayerSteamId, missed, wire>> /\ lag = <<>>
      /\ roster \in [Slots -> Anyone] /\ NoPlayer \notin Players
  BY StatusConstantsOK DEF Join, client, table, TypeInv, TypeOK, Anyone
<1>2. PICK z \in Slots, r \in Players :
        /\ roster[z] = NoPlayer /\ \A t \in Slots : roster[t] # r
        /\ roster' = [roster EXCEPT ![z] = r]
        /\ lag' = Append(lag, Info(z, r))
  BY DEF Join
<1>3. /\ lag' = <<Info(z, r)>> /\ Len(lag') = 1 /\ lag' # <<>>
      /\ lag'[1].slot = z /\ lag'[1].who = r
  BY <1>1, <1>2 DEF Info
<1>4. \A s \in Slots : roster'[s] = IF s = z THEN r ELSE roster[s]
  BY <1>1, <1>2
<1>5. \A s \in Slots, p \in Anyone : Occupies(wire, names, p, s, Len(wire) + 1) => p = roster[s]
  BY <1>1 DEF IdInv, EndInv, Pending, End
<1>6. IdsOfOccupants'
  BY <1>1 DEF IdInv, IdsOfOccupants
<1>7. RosterInv'
  BY <1>2, <1>4 DEF IdInv, RosterInv
<1>8. WireInv'
  BY <1>1 DEF IdInv, WireInv, Follows
<1>9. MayFollow(wire, names, g_PlayerSteamId, missed, r, z, Len(wire) + 1)
  BY <1>1, <1>2, <1>5 DEF MayFollow
<1>10. EndInv'
  <2>1. \A s : Pending(s)' <=> s = z
    BY <1>3 DEF Pending
  <2>2. r # NoPlayer /\ roster'[z] = r
    BY <1>1, <1>4
  <2> QED BY <1>1, <1>3, <1>4, <1>5, <1>9, <2>1, <2>2 DEF EndInv, Follows, End
<1> QED BY <1>6, <1>7, <1>8, <1>10 DEF IdInv

(* A player leaves: it is announced, and no row will be about him.         *)
LEMMA IdLeave ==
  ASSUME TypeInv, IdInv, Leave
  PROVE  IdInv'
<1>1. /\ UNCHANGED <<names, g_PlayerSteamId, missed>> /\ lag = <<>>
      /\ roster \in [Slots -> Anyone] /\ wire \in Seq(Text \cup Broadcast)
  BY DEF Leave, client, table, TypeInv, TypeOK, Anyone
<1>2. PICK z \in Occupied(roster) :
        /\ roster' = [roster EXCEPT ![z] = NoPlayer]
        /\ wire' = Append(wire, Dropped(roster[z]))
        /\ lag' = Append(lag, Info(z, NoPlayer))
  BY DEF Leave
<1>3. /\ lag' = <<Info(z, NoPlayer)>> /\ Len(lag') = 1 /\ lag' # <<>>
      /\ lag'[1].slot = z /\ lag'[1].who = NoPlayer
  BY <1>1, <1>2 DEF Info
<1>4. z \in Slots /\ roster[z] \in Players /\ roster[z] # NoPlayer
  BY <1>1, <1>2 DEF Occupied, Anyone
<1>5. \A s \in Slots : roster'[s] = IF s = z THEN NoPlayer ELSE roster[s]
  BY <1>1, <1>2
<1> DEFINE x == Dropped(roster[z])
           a == <<x>>
<1>6. x \in Text \cup Broadcast /\ x.kind = "dropped"
  <2>1. x \in Text
    BY <1>4 DEF Text
  <2> QED BY <2>1 DEF Dropped
<1>7. wire' = wire \o a /\ a \in Seq(Text \cup Broadcast) /\ Len(a) = 1 /\ a[1] = x
  BY <1>1, <1>2, <1>6
<1> HIDE DEF a
<1>8. Len(wire') = Len(wire) + 1 /\ Len(wire) \in Nat /\ wire'[Len(wire) + 1] = Dropped(roster[z])
  BY <1>1, <1>2, <1>6
<1>9. \A k \in 1..Len(a) : a[k].kind # "info"
  BY <1>6, <1>7
<1>10. ASSUME NEW s \in Slots, NEW p \in Anyone, Occupies(wire', names, p, s, Len(wire') + 1)
       PROVE  p = roster[s]
  <2>1. Occupies(wire, names, p, s, Len(wire) + 1)
    BY <1>1, <1>7, <1>9, <1>10, GrownUnchanged
  <2> QED BY <1>1, <2>1 DEF IdInv, EndInv, Pending, End
<1>11. IdsOfOccupants'
  BY <1>1 DEF IdInv, IdsOfOccupants
<1>12. RosterInv'
  BY <1>5 DEF IdInv, RosterInv
<1>13. WireInv'
  BY <1>1, <1>7, <1>9, WireInvGrows DEF IdInv
<1>14. Announced(wire', g_PlayerSteamId, missed, roster[z], z, Len(wire') + 1)
  <2>1. /\ Unchanged(wire', z, (Len(wire) + 1) + 1, Len(wire') + 1)
        /\ Unlisted(wire', roster[z], (Len(wire) + 1) + 1, Len(wire') + 1)
    BY <1>8 DEF Unchanged, Unlisted
  <2>2. Len(wire) + 1 \in 1..((Len(wire') + 1) - 1)
    BY <1>8
  <2> QED BY <1>8, <2>1, <2>2 DEF Announced
<1>15. MayFollow(wire', names, g_PlayerSteamId, missed, NoPlayer, z, Len(wire') + 1)
  BY <1>4, <1>10, <1>14 DEF MayFollow
<1>16. \A t \in Slots : roster'[t] # roster[z]
  BY <1>4, <1>5 DEF IdInv, RosterInv
<1>17. EndInv'
  <2>1. \A s : Pending(s)' <=> s = z
    BY <1>3 DEF Pending
  <2>2. roster'[z] = NoPlayer
    BY <1>4, <1>5
  <2>3. \A p \in Anyone : Occupies(wire', names, p, z, Len(wire') + 1) => \A t \in Slots : roster'[t] # p
    BY <1>4, <1>10, <1>16
  <2> QED BY <1>1, <1>3, <1>5, <1>10, <1>15, <2>1, <2>2, <2>3 DEF EndInv, Follows, End
<1> QED BY <1>11, <1>12, <1>13, <1>17 DEF IdInv

(* The frame ends: the change that was pending is the last text.           *)
LEMMA IdEndFrame ==
  ASSUME TypeInv, IdInv, EndFrame
  PROVE  IdInv'
<1>1. /\ UNCHANGED <<names, g_PlayerSteamId, missed, roster>>
      /\ lag # <<>> /\ lag' = <<>> /\ wire' = wire \o lag
      /\ lag \in Seq(Broadcast) /\ wire \in Seq(Text \cup Broadcast) /\ Len(lag) <= 1
  BY DEF EndFrame, client, table, TypeInv, TypeOK, IdInv, EndInv
<1>2. Len(lag) = 1 /\ lag[1] \in Broadcast /\ lag \in Seq(Text \cup Broadcast)
  <2>1. \A q \in Seq(Broadcast) : q \in Seq(Text \cup Broadcast)
    OBVIOUS
  <2>2. Len(lag) \in Nat /\ Len(lag) # 0
    BY <1>1
  <2>0. Len(lag) <= 1
    BY <1>1
  <2>3. Len(lag) = 1
    <3>1. \A n \in Nat : n <= 1 /\ n # 0 => n = 1
      OBVIOUS
    <3> QED BY <2>0, <2>2, <3>1, Zenon
  <2> QED BY <1>1, <2>1, <2>3
<1> DEFINE z == lag[1].slot
<1>3. /\ z \in Slots /\ lag[1].kind = "info" /\ lag[1] = Info(z, lag[1].who) /\ Pending(z)
      /\ lag[1].who = roster[z]
  <2>1. z \in Slots /\ lag[1].kind = "info" /\ lag[1] = Info(z, lag[1].who)
    BY <1>2, TextsByKind
  <2> QED BY <1>1, <2>1 DEF Pending, IdInv, EndInv
<1>4. Follows(roster[z], z, End)
  BY <1>3 DEF IdInv, EndInv
<1> HIDE DEF z
<1>5. /\ Len(wire') = Len(wire) + 1 /\ Len(wire) \in Nat /\ wire'[Len(wire) + 1] = lag[1]
      /\ lag[1].slot = z
  <2>1. /\ Len(wire \o lag) = Len(wire) + 1 /\ Len(wire) \in Nat
        /\ (wire \o lag)[Len(wire) + 1] = lag[1]
    <3>1. wire \in Seq(Text \cup Broadcast) /\ lag \in Seq(Text \cup Broadcast) /\ Len(lag) = 1
      BY <1>1, <1>2
    <3> QED BY <3>1, OneMore, Zenon
  <2> QED BY <1>1, <2>1 DEF z
<1>6. \A k \in 1..Len(lag) : k = 1
  BY <1>2
<1>7. IdsOfOccupants' /\ RosterInv'
  BY <1>1 DEF IdInv, IdsOfOccupants, RosterInv
<1>8. WireInv'
  BY <1>1, <1>2, <1>3, <1>4, <1>5, <1>6, WireInvGrows DEF IdInv
<1>9. ASSUME NEW s \in Slots, NEW p \in Anyone, Occupies(wire', names, p, s, Len(wire') + 1)
      PROVE  p = roster[s]
  <2>1. CASE s # z
    <3>1. \A k \in 1..Len(lag) : lag[k].kind = "info" => lag[k].slot # s
      BY <1>5, <1>6, <2>1
    <3>2. Occupies(wire, names, p, s, Len(wire) + 1)
      BY <1>1, <1>2, <1>9, <3>1, GrownUnchanged
    <3>3. ~Pending(s)
      BY <1>5, <2>1 DEF Pending
    <3> QED BY <3>2, <3>3 DEF IdInv, EndInv, End
  <2>2. CASE s = z
    <3>1. ASSUME NEW i \in 1..(Len(wire) + 1), Unchanged(wire', s, i, Len(wire') + 1) PROVE FALSE
      <4>1. Len(wire) + 1 \in i..((Len(wire') + 1) - 1)
        BY <1>5
      <4> QED BY <1>3, <1>5, <2>2, <3>1, <4>1 DEF Unchanged
    <3>2. ~Unchanged(wire', s, 1, Len(wire') + 1)
      BY <1>5, <3>1
    <3>3. PICK i \in 1..((Len(wire') + 1) - 1) :
            wire'[i] = Info(s, p) /\ Unchanged(wire', s, i + 1, Len(wire') + 1)
      BY <1>9, <3>2 DEF Occupies
    <3>4. i \in 1..(Len(wire) + 1) /\ i + 1 \notin 1..(Len(wire) + 1)
      BY <1>5, <3>1, <3>3
    <3>5. i = Len(wire) + 1
      BY <1>5, <3>4
    <3>6. Info(s, p) = Info(z, roster[z])
      BY <1>3, <1>5, <3>3, <3>5
    <3> QED BY <2>2, <3>6 DEF Info
  <2> QED BY <2>1, <2>2
<1>10. EndInv'
  <2>1. \A s : ~Pending(s)'
    BY <1>1 DEF Pending
  <2>2. Len(lag') = 0
    BY <1>1
  <2> QED BY <1>1, <1>9, <2>1, <2>2 DEF EndInv, End
<1> QED BY <1>7, <1>8, <1>10 DEF IdInv

(* A level starts: the table is sent anew, every slot once.                *)
LEMMA IdInitialize ==
  ASSUME TypeInv, IdInv, Initialize
  PROVE  IdInv'
<1>1. /\ roster' = roster /\ lag' = <<>> /\ missed' = {}
      /\ names' = [s \in Slots |-> NoPlayer] /\ g_PlayerSteamId' = [s \in Slots |-> NoPlayer]
      /\ wire' = [i \in 1..Present |-> Info(Nth(i), roster[Nth(i)])]
      /\ roster \in [Slots -> Anyone]
  BY DEF Initialize, TypeInv, TypeOK, Anyone
<1>2. /\ Present \in Nat
      /\ \A i \in 1..Present : Nth(i) \in Occupied(roster)
      /\ \A i, j \in 1..Present : Nth(i) = Nth(j) => i = j
      /\ \A s \in Occupied(roster) : \E i \in 1..Present : Nth(i) = s
  BY NthIsOccupied
<1>3. /\ Len(wire') = Present
      /\ \A i \in 1..Present : /\ wire'[i] = Info(Nth(i), roster[Nth(i)])
                               /\ wire'[i].kind = "info" /\ wire'[i].slot = Nth(i)
                               /\ wire'[i].who = roster[Nth(i)]
  <2> DEFINE w == [i \in 1..Present |-> Info(Nth(i), roster[Nth(i)])]
  <2>1. wire' = w
    BY <1>1
  <2>2. \A i \in 1..Present : w[i] = Info(Nth(i), roster[Nth(i)])
    OBVIOUS
  <2>3. Len(w) = Present
    BY <1>2
  <2> HIDE DEF w
  <2> QED BY <2>1, <2>2, <2>3 DEF Info
<1>4. \A i \in 1..Present : Nth(i) \in Slots /\ roster[Nth(i)] # NoPlayer
  BY <1>2 DEF Occupied
<1>5. ASSUME NEW s \in Slots, NEW p, NEW k \in 1..(Present + 1), Occupies(wire', names', p, s, k)
      PROVE  \/ p = NoPlayer /\ \A i \in 1..(k - 1) : Nth(i) # s
             \/ \E i \in 1..(k - 1) : Nth(i) = s /\ p = roster[s]
  <2>1. \A i \in 1..(k - 1) : i \in 1..Present
    BY <1>2
  <2>2. CASE p = names'[s] /\ Unchanged(wire', s, 1, k)
    <3>1. p = NoPlayer
      BY <1>1, <2>2
    <3>2. \A i \in 1..(k - 1) : Nth(i) # s
      BY <1>3, <2>1, <2>2 DEF Unchanged
    <3> QED BY <3>1, <3>2
  <2>3. ASSUME NEW i \in 1..(k - 1), wire'[i] = Info(s, p)
        PROVE  Nth(i) = s /\ p = roster[s]
    <3>1. Info(s, p).slot = s /\ Info(s, p).who = p
      BY DEF Info
    <3> QED BY <1>3, <2>1, <2>3, <3>1
  <2> QED BY <1>5, <2>2, <2>3 DEF Occupies
<1>6. IdsOfOccupants'
  BY <1>1 DEF IdsOfOccupants
<1>7. RosterInv'
  BY <1>1 DEF RosterInv, IdInv
<1>8. WireInv'
  <2> SUFFICES ASSUME NEW k \in 1..Present, NEW p \in Anyone, Occupies(wire', names', p, Nth(k), k)
               PROVE  roster[Nth(k)] # NoPlayer /\ p = NoPlayer
    BY <1>3 DEF WireInv, Follows, MayFollow
  <2>1. k \in 1..(Present + 1) /\ Nth(k) \in Slots
    BY <1>2, <1>4
  <2>2. \A i \in 1..(k - 1) : i \in 1..Present /\ i # k
    BY <1>2
  <2>3. \A i \in 1..(k - 1) : Nth(i) # Nth(k)
    BY <1>2, <2>2
  <2> QED BY <1>4, <1>5, <2>1, <2>3
<1>9. EndInv'
  <2>1. ASSUME NEW s \in Slots, NEW p \in Anyone, Occupies(wire', names', p, s, Present + 1)
        PROVE  p = roster[s]
    <3>1. Present + 1 \in 1..(Present + 1) /\ (Present + 1) - 1 = Present
      BY <1>2
    <3>2. CASE p = NoPlayer /\ \A i \in 1..Present : Nth(i) # s
      BY <1>2, <3>2 DEF Occupied
    <3> QED BY <1>5, <2>1, <3>1, <3>2
  <2>2. \A s : ~Pending(s)'
    BY <1>1 DEF Pending
  <2>3. Len(lag') = 0
    BY <1>1
  <2>4. \A s \in Slots, p \in Anyone : Occupies(wire', names', p, s, Len(wire') + 1) => p = roster'[s]
    BY <1>1, <1>3, <2>1
  <2> QED BY <2>2, <2>3, <2>4 DEF EndInv, End
<1> QED BY <1>6, <1>7, <1>8, <1>9 DEF IdInv

LEMMA IdSame ==
  ASSUME IdInv, UNCHANGED <<g_PlayerSteamId, names, roster, lag, wire, missed>>
  PROVE  IdInv'
  BY DEF IdInv, IdsOfOccupants, RosterInv, WireInv, EndInv, Follows, End, Pending

LEMMA IdInit == Init => IdInv
<1> SUFFICES ASSUME Init PROVE IdInv
  OBVIOUS
<1>1. /\ lag = <<>> /\ wire = <<>> /\ names = roster /\ Len(wire) = 0 /\ Len(lag) = 0
      /\ \A s \in Slots : roster[s] # NoPlayer => s = 1
      /\ \A s \in Slots : g_PlayerSteamId[s] = NoPlayer
  BY DEF Init
<1>2. IdsOfOccupants
  BY <1>1 DEF IdsOfOccupants
<1>3. RosterInv /\ WireInv
  BY <1>1 DEF RosterInv, WireInv
<1>4. \A s : ~Pending(s)
  BY <1>1 DEF Pending
<1>5. \A s \in Slots, p \in Anyone : Occupies(wire, names, p, s, End) => p = roster[s]
  <2>1. End = 1 /\ 1..(1 - 1) = {}
    BY <1>1 DEF End
  <2> QED BY <1>1, <2>1 DEF Occupies
<1>6. EndInv
  BY <1>1, <1>4, <1>5 DEF EndInv
<1> QED BY <1>2, <1>3, <1>6 DEF IdInv

LEMMA IdStep == TypeInv /\ IdInv /\ [Next]_vars => IdInv'
<1> SUFFICES ASSUME TypeInv, IdInv, [Next]_vars PROVE IdInv'
  OBVIOUS
<1>1. CASE UNCHANGED vars \/ Update \/ FullUpdate \/ (\E s \in Slots : GetPlayerInfo(s)) \/ Second
  <2>1. UNCHANGED <<g_PlayerSteamId, names, roster, lag, wire, missed>>
    BY <1>1 DEF vars, client, table, server, bounds, Update, FullUpdate, GetPlayerInfo, Second
  <2> QED BY <2>1, IdSame
<1>2. CASE ReadIdle \/ ReadSent \/ ReadAnswer \/ ReadTable
  BY <1>2, IdRead
<1>3. CASE ReadInfo \/ Initialize
  BY <1>3, IdReadInfo, IdInitialize
<1>4. CASE Server
  BY <1>4, IdHostStatus, IdJoin, IdLeave, IdEndFrame DEF Server
<1> QED BY <1>1, <1>2, <1>3, <1>4 DEF Next, Client

(* The id that is shown for a slot is that of the player the engine's      *)
(* table has there, or one whose departure SvcPrint read and overlooked    *)
(* while a request was under way: whoever comes and goes, and however many *)
(* answers are late, repeated, split, or read in the wrong state.          *)
THEOREM IdsBelongToOccupants == Spec => []IdsOfOccupants
<1>1. IdInv => IdsOfOccupants
  BY DEF IdInv
<1> QED BY <1>1, TypeHolds, IdInit, IdStep, PTL DEF Spec
=============================================================================
