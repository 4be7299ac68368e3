----------------------------- MODULE HudTimerProofs -----------------------------
(***************************************************************************)
(* What the HUD timer parses is one answer in full, for any sizes, any     *)
(* number of parts, and any losses, duplicates and delays.                 *)
(*                                                                         *)
(* When the last part arrives the code knows only how many it has got.     *)
(* The invariant says what they are: the set of parts received has as many *)
(* members as the count says, each is in its place of the buffer and from  *)
(* the answer m_iResponceID (but for the front, which a stray challenge    *)
(* may have overwritten), and whatever else of that answer is on its way   *)
(* agrees with them on how many there are.                                 *)
(***************************************************************************)
EXTENDS HudTimer, FiniteSetTheorems, TLAPS

(* The parts of answers that may still be received.                        *)
Flying == (net \cup {inbox[k] : k \in DOMAIN inbox}) \cap Part

NetInv ==
  /\ \A p \in Flying : p.part < p.of
  /\ \A p, q \in Flying : p.id = q.id => p.of = q.of

(* The place of a part received holds that part.                           *)
Held(i) ==
  LET b == m_szPacketBuffer[i]
  IN  /\ b \in Part /\ b.id = m_iResponceID /\ b.part = i /\ i < b.of /\ b.of > 1
      /\ \A p \in Flying : p.id = m_iResponceID => p.of = b.of

LastIn == \E i \in m_iReceivedPackets : m_szPacketBuffer[i] \in Part
                                        /\ m_szPacketBuffer[i].of = i + 1

Counted == m_iReceivedPacketsCount = Cardinality(m_iReceivedPackets)

MergeInv ==
  g_eRulesRequestStatus \in Awaiting =>
    /\ \A i \in m_iReceivedPackets : Held(i) \/ (i = 0 /\ m_szPacketBuffer[0] = Challenge)
    /\ \A i, j \in m_iReceivedPackets :
         m_szPacketBuffer[i] \in Part /\ m_szPacketBuffer[j] \in Part
           => m_szPacketBuffer[i].of = m_szPacketBuffer[j].of
    /\ m_iReceivedSize + (IF LastIn THEN PartSize - LastSize ELSE 0)
         >= m_iReceivedPacketsCount * PartSize

IInv == TypeOK /\ Counted /\ NetInv /\ MergeInv

-----------------------------------------------------------------------------
(* Datagrams.                                                              *)

(* A challenge, a part of an answer and a request are never the same.      *)
LEMMA KindsDiffer ==
  /\ Challenge \notin Part /\ Nothing \notin Part /\ Challenge # Nothing
  /\ Ask(TRUE) \notin Part /\ Ask(FALSE) \notin Part
  /\ Ask(TRUE) # Challenge /\ Ask(FALSE) # Challenge
<1>1. /\ Challenge.kind = "challenge" /\ Nothing.kind = "nothing"
      /\ Ask(TRUE).kind = "request" /\ Ask(FALSE).kind = "request"
  BY DEF Challenge, Nothing, Ask
<1>2. \A p \in Part : p.kind = "rules"
  BY DEF Part
<1> QED BY <1>1, <1>2

LEMMA PartFields ==
  ASSUME NEW p \in Part
  PROVE  /\ p.kind = "rules" /\ p.id \in Ids /\ p.part \in 0..(MaxParts - 1)
         /\ p.of \in 1..MaxParts /\ p.limit \in 0..MaxChanges /\ p.left \in 0..MaxChanges
  BY DEF Part

LEMMA Sizes == PartSize \in Nat \ {0} /\ LastSize \in 1..PartSize /\ LastSize \in Nat
               /\ MaxParts \in Nat \ {0} /\ ChallengeSize \in Nat
  BY TimerConstantsOK DEF ChallengeSize

LEMMA PayloadIsNat == ASSUME NEW p \in Part PROVE PayloadSize(p) \in Nat
  BY Sizes DEF PayloadSize

(* The datagram at the head of the socket.                                 *)
LEMMA TakeFacts ==
  ASSUME TypeOK, NEW p, Take(p)
  PROVE  /\ p \in Part \cup {Challenge}
         /\ p \in Part => p \in Flying
         /\ inbox' \in Seq(Part \cup {Challenge})
         /\ \A k \in DOMAIN inbox' : \E j \in DOMAIN inbox : inbox'[k] = inbox[j]
         /\ g_eRulesRequestStatus \in Awaiting
<1>1. inbox \in Seq(Part \cup {Challenge}) /\ inbox # <<>> /\ p = Head(inbox)
      /\ inbox' = Tail(inbox) /\ g_eRulesRequestStatus \in Awaiting
  BY DEF TypeOK, Take
<1>2. p = inbox[1] /\ 1 \in DOMAIN inbox /\ p \in Part \cup {Challenge}
  BY <1>1
<1>3. \A k \in DOMAIN inbox' : k + 1 \in DOMAIN inbox /\ inbox'[k] = inbox[k + 1]
  BY <1>1
<1>4. inbox' \in Seq(Part \cup {Challenge})
  BY <1>1
<1> QED BY <1>1, <1>2, <1>3, <1>4 DEF Flying

(* Fewer parts on their way disturb nothing.                               *)
LEMMA FlyingShrinks ==
  ASSUME NEW new, net' \subseteq net \cup new, new \cap Part = {},
         \A k \in DOMAIN inbox' : (\E j \in DOMAIN inbox : inbox'[k] = inbox[j]) \/ inbox'[k] \in net
  PROVE  Flying' \subseteq Flying
  BY DEF Flying

LEMMA TakeShrinks ==
  ASSUME TypeOK, NEW p, Take(p), net' \subseteq net \cup {Ask(TRUE)}
  PROVE  Flying' \subseteq Flying
<1>1. \A k \in DOMAIN inbox' : \E j \in DOMAIN inbox : inbox'[k] = inbox[j]
  BY TakeFacts
<1>2. {Ask(TRUE)} \cap Part = {}
  BY KindsDiffer
<1> QED BY <1>1, <1>2, FlyingShrinks

(* Nothing new under way: NetInv stays.                                    *)
LEMMA NetInvKept == ASSUME NetInv, Flying' \subseteq Flying PROVE NetInv'
  BY DEF NetInv

(* The buffer is as it was: MergeInv stays.                                *)
LEMMA MergeInvKept ==
  ASSUME MergeInv, Flying' \subseteq Flying, UNCHANGED merge,
         g_eRulesRequestStatus' \in Awaiting => g_eRulesRequestStatus \in Awaiting
  PROVE  MergeInv'
<1> SUFFICES ASSUME g_eRulesRequestStatus' \in Awaiting PROVE MergeInv'
  BY DEF MergeInv
<1>1. UNCHANGED <<m_iResponceID, m_iReceivedPackets, m_iReceivedPacketsCount,
                  m_iReceivedSize, m_szPacketBuffer>>
  BY DEF merge
<1>2. \A i : Held(i) => Held(i)'
  BY <1>1 DEF Held
<1>3. LastIn' <=> LastIn
  BY <1>1 DEF LastIn
<1> QED BY <1>1, <1>2, <1>3 DEF MergeInv

-----------------------------------------------------------------------------
(* A part is added to the answer.                                          *)

(* The places received, a set whose size is counted, are finitely many.    *)
LEMMA ReceivedFinite ==
  ASSUME TypeOK
  PROVE  IsFiniteSet(m_iReceivedPackets) /\ Cardinality(m_iReceivedPackets) \in 0..MaxParts
<1>1. IsFiniteSet(0..(MaxParts - 1)) /\ Cardinality(0..(MaxParts - 1)) = MaxParts
  BY Sizes, FS_Interval
<1>2. m_iReceivedPackets \subseteq 0..(MaxParts - 1)
  BY DEF TypeOK
<1>3. IsFiniteSet(m_iReceivedPackets) /\ Cardinality(m_iReceivedPackets) <= MaxParts
  BY <1>1, <1>2, FS_Subset
<1> QED BY <1>3, FS_CardinalityType, Sizes

(* A part whose place was free adds one to the count.                      *)
LEMMA CountAdded ==
  ASSUME TypeOK, Counted, NEW p, AddPart(p)
  PROVE  Counted' /\ m_iReceivedPacketsCount' = m_iReceivedPacketsCount + 1
         /\ m_iReceivedPacketsCount \in Nat
<1>1. /\ m_iReceivedPackets' = m_iReceivedPackets \cup {p.part}
      /\ m_iReceivedPacketsCount' = m_iReceivedPacketsCount + 1
      /\ p.part \notin m_iReceivedPackets
  BY DEF AddPart, Wanted
<1>2. Cardinality(m_iReceivedPackets') = Cardinality(m_iReceivedPackets) + 1
  BY <1>1, ReceivedFinite, FS_AddElement
<1> QED BY <1>1, <1>2 DEF Counted, TypeOK

(* What the buffer holds after it.                                         *)
LEMMA HeldAfterAdd ==
  ASSUME IInv, NEW p, AddPart(p)
  PROVE  /\ Flying' \subseteq Flying
         /\ \A i \in m_iReceivedPackets :
              /\ i # p.part /\ m_szPacketBuffer'[i] = m_szPacketBuffer[i]
              /\ Held(i) => Held(i)' /\ m_szPacketBuffer[i].of = p.of
         /\ m_szPacketBuffer'[p.part] = p /\ Held(p.part)'
<1>1. /\ Take(p) /\ p \in Part /\ p.of > 1 /\ Wanted(p)
      /\ m_iResponceID' = p.id /\ net' = net
      /\ m_szPacketBuffer' = [m_szPacketBuffer EXCEPT ![p.part] = p]
  BY DEF AddPart
<1>2. Flying' \subseteq Flying /\ p \in Flying
  BY <1>1, TakeFacts, TakeShrinks DEF IInv
<1>3. p.part \in DOMAIN m_szPacketBuffer /\ p.part < p.of
  BY <1>1, <1>2, PartFields DEF IInv, TypeOK, NetInv
<1>4. m_szPacketBuffer'[p.part] = p
  BY <1>1, <1>3 DEF IInv, TypeOK
<1>5. Held(p.part)'
  BY <1>1, <1>2, <1>3, <1>4 DEF Held, IInv, NetInv
<1>6. ASSUME NEW i \in m_iReceivedPackets
      PROVE  /\ i # p.part /\ m_szPacketBuffer'[i] = m_szPacketBuffer[i]
             /\ Held(i) => Held(i)' /\ m_szPacketBuffer[i].of = p.of
  <2>1. i # p.part /\ p.id = m_iResponceID
    BY <1>1, <1>6 DEF Wanted
  <2>2. m_szPacketBuffer'[i] = m_szPacketBuffer[i]
    BY <1>1, <2>1, <1>6 DEF IInv, TypeOK
  <2>3. Held(i) => m_szPacketBuffer[i].of = p.of
    BY <1>2, <2>1 DEF Held
  <2>4. Held(i) => Held(i)'
    BY <1>1, <1>2, <2>1, <2>2 DEF Held
  <2> QED BY <2>1, <2>2, <2>3, <2>4
<1> QED BY <1>2, <1>4, <1>5, <1>6

(* What AddPart does to the set of places received.                        *)
LEMMA PlacesAfterAdd ==
  ASSUME IInv, NEW p, AddPart(p)
  PROVE  \A i \in m_iReceivedPackets' :
           /\ Held(i)' \/ (i = 0 /\ m_szPacketBuffer'[0] = Challenge)
           /\ m_szPacketBuffer'[i] \in Part => m_szPacketBuffer'[i].of = p.of
           /\ i < p.of
<1>1. /\ m_iReceivedPackets' = m_iReceivedPackets \cup {p.part}
      /\ p \in Part /\ p.of > 1 /\ g_eRulesRequestStatus \in Awaiting
  BY DEF AddPart, Take
<1>2. /\ \A i \in m_iReceivedPackets :
           Held(i) \/ (i = 0 /\ m_szPacketBuffer[0] = Challenge)
  BY <1>1 DEF IInv, MergeInv
<1>3. p.part < p.of
  BY HeldAfterAdd DEF Held
<1>4. ASSUME NEW i \in m_iReceivedPackets
      PROVE  /\ Held(i)' \/ (i = 0 /\ m_szPacketBuffer'[0] = Challenge)
             /\ m_szPacketBuffer'[i] \in Part => m_szPacketBuffer'[i].of = p.of
             /\ i < p.of
  <2>1. CASE Held(i)
    BY <2>1, HeldAfterAdd DEF Held
  <2>2. CASE i = 0 /\ m_szPacketBuffer[0] = Challenge
    BY <1>1, <2>2, HeldAfterAdd, KindsDiffer, PartFields
  <2> QED BY <1>2, <2>1, <2>2
<1> QED BY <1>1, <1>3, <1>4, HeldAfterAdd

(* The buffer's size keeps covering the parts in it.                       *)
LEMMA SizeAfterAdd ==
  ASSUME IInv, NEW p, AddPart(p)
  PROVE  m_iReceivedSize' + (IF LastIn' THEN PartSize - LastSize ELSE 0)
           >= m_iReceivedPacketsCount' * PartSize
<1> DEFINE c == m_iReceivedPacketsCount
           d == PartSize - LastSize
<1>1. /\ m_iReceivedPackets' = m_iReceivedPackets \cup {p.part} /\ p.part \notin m_iReceivedPackets
      /\ m_iReceivedSize' = m_iReceivedSize + PayloadSize(p)
      /\ p \in Part /\ g_eRulesRequestStatus \in Awaiting
  BY DEF AddPart, Take, Wanted
<1>2. m_iReceivedSize + (IF LastIn THEN d ELSE 0) >= c * PartSize
  BY <1>1 DEF IInv, MergeInv
<1>3. c \in Nat /\ c' = c + 1 /\ m_iReceivedSize \in Nat /\ d \in Nat /\ PartSize \in Nat
  BY CountAdded, Sizes DEF IInv, TypeOK
<1>4. (c + 1) * PartSize = c * PartSize + PartSize /\ c * PartSize \in Nat
  BY <1>3
<1>5. LastIn => LastIn'
  BY <1>1, HeldAfterAdd DEF LastIn
<1>6. CASE p.part = p.of - 1
  <2>1. LastIn'
    <3>1. p.part \in m_iReceivedPackets' /\ m_szPacketBuffer'[p.part] = p
      BY <1>1, HeldAfterAdd
    <3>2. p.of = p.part + 1
      BY <1>1, <1>6, PartFields
    <3> QED BY <1>1, <3>1, <3>2 DEF LastIn
  <2>2. ~LastIn
    <3> SUFFICES ASSUME NEW i \in m_iReceivedPackets, m_szPacketBuffer[i] \in Part,
                        m_szPacketBuffer[i].of = i + 1
                 PROVE FALSE
      BY DEF LastIn
    <3>1. Held(i)
      BY <1>1, KindsDiffer DEF IInv, MergeInv
    <3>2. p.of = i + 1 /\ i # p.part /\ i \in Int
      BY <3>1, HeldAfterAdd DEF IInv, TypeOK
    <3> QED BY <1>1, <1>6, <3>2, PartFields
  <2>3. PayloadSize(p) = LastSize
    BY <1>6 DEF PayloadSize
  <2> QED BY <1>1, <1>2, <1>3, <1>4, <2>1, <2>2, <2>3, Sizes
<1>7. CASE p.part # p.of - 1
  <2>1. PayloadSize(p) = PartSize
    BY <1>7 DEF PayloadSize
  <2> QED BY <1>1, <1>2, <1>3, <1>4, <1>5, <2>1, Sizes
<1> QED BY <1>6, <1>7

(* After AddPart all places hold parts of the one answer.                  *)
LEMMA MergeAfterAdd ==
  ASSUME IInv, NEW p, AddPart(p)
  PROVE  MergeInv'
<1>1. \A i, j \in m_iReceivedPackets' :
        m_szPacketBuffer'[i] \in Part /\ m_szPacketBuffer'[j] \in Part
          => m_szPacketBuffer'[i].of = m_szPacketBuffer'[j].of
  BY PlacesAfterAdd
<1> QED BY <1>1, PlacesAfterAdd, SizeAfterAdd DEF MergeInv

(* With as many parts as the answer has, the buffer holds the answer.      *)
LEMMA WholePlaces ==
  ASSUME IInv, NEW p, AddPart(p), m_iReceivedPacketsCount' >= p.of,
         m_szPacketBuffer'[0].kind = "rules"
  PROVE  /\ Cardinality(m_iReceivedPackets') = p.of
         /\ p.of - 1 \in 0..(p.of - 1)
         /\ \A i \in 0..(p.of - 1) :
              /\ m_szPacketBuffer'[i] \in Part
              /\ m_szPacketBuffer'[i].id = m_iResponceID'
              /\ m_szPacketBuffer'[i].part = i /\ m_szPacketBuffer'[i].of = p.of
<1> DEFINE R == m_iReceivedPackets'
           n == p.of
<1>1. /\ R = m_iReceivedPackets \cup {p.part} /\ p \in Part
      /\ n \in 1..MaxParts /\ n \in Nat /\ p.part \in 0..(MaxParts - 1)
  BY PartFields, Sizes DEF AddPart
<1>2. R \subseteq 0..(n - 1)
  <2> SUFFICES ASSUME NEW i \in R PROVE i \in 0..(n - 1)
    OBVIOUS
  <2>1. i < n
    BY PlacesAfterAdd
  <2>2. i \in 0..(MaxParts - 1)
    BY <1>1 DEF IInv, TypeOK
  <2> HIDE DEF R, n
  <2> QED BY <1>1, <2>1, <2>2, Sizes
<1>3. IsFiniteSet(0..(n - 1)) /\ Cardinality(0..(n - 1)) = n
  <2> HIDE DEF n
  <2>1. 0 \in Int /\ n - 1 \in Int /\ ~(0 > n - 1) /\ (n - 1) - 0 + 1 = n
    BY <1>1, Sizes
  <2> QED BY <2>1, FS_Interval
<1>4. Cardinality(R) <= n /\ Cardinality(R) \in Nat
  BY <1>2, <1>3, FS_Subset, FS_CardinalityType
<1>5. Cardinality(R) = m_iReceivedPacketsCount' /\ m_iReceivedPacketsCount' \in Nat
  BY CountAdded DEF Counted, IInv
<1>6. Cardinality(R) = n
  BY <1>1, <1>4, <1>5
<1>7. R = 0..(n - 1)
  BY <1>2, <1>3, <1>6, FS_Subset
<1>8. m_szPacketBuffer'[0] # Challenge
  BY DEF Challenge
<1>9. ASSUME NEW i \in 0..(n - 1)
      PROVE  /\ m_szPacketBuffer'[i] \in Part
             /\ m_szPacketBuffer'[i].id = m_iResponceID'
             /\ m_szPacketBuffer'[i].part = i /\ m_szPacketBuffer'[i].of = n
  BY <1>7, <1>8, <1>9, PlacesAfterAdd DEF Held
<1>10. n - 1 \in 0..(n - 1)
  BY <1>1, Sizes
<1> QED BY <1>6, <1>9, <1>10

(* If AddPart completes the count, the buffer is the answer in full.       *)
LEMMA WholeAfterAdd ==
  ASSUME IInv, NEW p, AddPart(p), m_iReceivedPacketsCount' >= p.of,
         m_szPacketBuffer'[0].kind = "rules"
  PROVE  WholeAnswer'
<1> DEFINE n == p.of
<1>1. p \in Part /\ n \in 1..MaxParts /\ n \in Nat
  BY PartFields, Sizes DEF AddPart
<1>2. m_iReceivedPacketsCount' = n
  BY WholePlaces, CountAdded DEF Counted, IInv
<1>3. \A i \in 0..(n - 1) :
        /\ m_szPacketBuffer'[i] \in Part
        /\ m_szPacketBuffer'[i].id = m_iResponceID'
        /\ m_szPacketBuffer'[i].part = i /\ m_szPacketBuffer'[i].of = n
  BY WholePlaces
<1>4. m_iReceivedSize' >= (n - 1) * PartSize + LastSize
  <2>1. m_iReceivedSize' + (IF LastIn' THEN PartSize - LastSize ELSE 0) >= n * PartSize
    BY <1>2, SizeAfterAdd
  <2>2. n * PartSize = (n - 1) * PartSize + PartSize /\ (n - 1) * PartSize \in Nat
    BY <1>1, Sizes
  <2>3. m_iReceivedSize' \in Nat
    <3>1. m_iReceivedSize' = m_iReceivedSize + PayloadSize(p)
      BY DEF AddPart
    <3> QED BY <1>1, <3>1, PayloadIsNat DEF IInv, TypeOK
  <2> QED BY <2>1, <2>2, <2>3, Sizes
<1>5. \A i \in 0..(n - 1) : m_szPacketBuffer'[i].kind = "rules"
  BY <1>3, PartFields
<1>6. m_iResponceID' \in Ids
  BY <1>1, PartFields DEF AddPart
<1> QED BY <1>1, <1>3, <1>4, <1>5, <1>6 DEF WholeAnswer

(* So has a single datagram.                                               *)
LEMMA WholeSingle ==
  ASSUME IInv, NEW p, TakeSingle(p)
  PROVE  WholeAnswer'
<1>1. /\ p \in Part /\ p.of = 1 /\ Take(p)
      /\ m_szPacketBuffer' = [m_szPacketBuffer EXCEPT ![0] = p]
      /\ m_iReceivedSize' = m_iReceivedSize + PayloadSize(p)
  BY DEF TakeSingle
<1>2. p \in Flying
  BY <1>1, TakeFacts DEF IInv
<1>3. p.part = 0 /\ p.kind = "rules" /\ p.id \in Ids
  BY <1>1, <1>2, PartFields, Sizes DEF IInv, NetInv
<1>4. 0 \in DOMAIN m_szPacketBuffer
  BY Sizes DEF IInv, TypeOK
<1>5. m_szPacketBuffer'[0] = p
  BY <1>1, <1>4 DEF IInv, TypeOK
<1>6. m_iReceivedSize' >= LastSize
  BY <1>1, <1>3, Sizes DEF PayloadSize, IInv, TypeOK
<1>7. (1 - 1) * PartSize + LastSize = LastSize
  BY Sizes
<1>8. 1 \in 1..MaxParts /\ \A i \in 0..(1 - 1) : i = 0
  BY Sizes
<1> QED BY <1>1, <1>3, <1>5, <1>6, <1>7, <1>8 DEF WholeAnswer

-----------------------------------------------------------------------------
(* Steps of the client.                                                    *)

LEMMA InitIInv == Init => IInv
<1> SUFFICES ASSUME Init PROVE IInv
  OBVIOUS
<1> USE DEF Init
<1>1. TypeOK
  <2>1. m_szPacketBuffer \in [0..(MaxParts - 1) -> Part \cup {Challenge, Nothing}]
    OBVIOUS
  <2>2. m_iReceivedPacketsCount \in 0..MaxParts /\ m_flEndTime \in -1..MaxChanges
    BY Sizes, TimerConstantsOK
  <2>3. /\ rules \in 0..MaxChanges /\ timeleft \in 0..MaxChanges
        /\ faults \in 0..MaxFaults
        /\ breaks \in 0..MaxBreaks
    BY TimerConstantsOK
  <2>4. inbox \in Seq(Part \cup {Challenge})
    OBVIOUS
  <2> QED BY <2>1, <2>2, <2>3, <2>4 DEF TypeOK, Statuses, Awaiting
<1>2. Counted
  BY FS_EmptySet DEF Counted
<1>3. Flying = {}
  BY DEF Flying
<1>4. NetInv
  BY <1>3 DEF NetInv
<1>5. MergeInv
  BY DEF MergeInv, Awaiting
<1> QED BY <1>1, <1>2, <1>4, <1>5 DEF IInv

LEMMA SendRequestStep == ASSUME IInv, SendRequest PROVE IInv'
<1> USE DEF SendRequest
<1>1. Flying' \subseteq Flying
  <2>1. \A k \in DOMAIN inbox' : FALSE
    OBVIOUS
  <2>2. {Ask(FALSE)} \cap Part = {} /\ net' \subseteq net \cup {Ask(FALSE)}
    BY KindsDiffer
  <2> QED BY <2>1, <2>2, FlyingShrinks
<1>2. TypeOK'
  <2>1. inbox' = <<>> /\ inbox' \in Seq(Part \cup {Challenge})
    OBVIOUS
  <2>2. net' \subseteq Datagram
    BY DEF IInv, TypeOK, Datagram
  <2>3. m_iReceivedPacketsCount' \in 0..MaxParts /\ m_iReceivedSize' \in Nat
    BY Sizes
  <2> QED BY <2>1, <2>2, <2>3 DEF IInv, TypeOK, Statuses, Awaiting, shown, server, bounds
<1>3. Counted'
  BY FS_EmptySet DEF Counted
<1>4. MergeInv'
  <2>1. ~LastIn' /\ m_iReceivedSize' = 0 /\ m_iReceivedPacketsCount' * PartSize = 0
    BY Sizes DEF LastIn
  <2> QED BY <2>1 DEF MergeInv
<1> QED BY <1>1, <1>2, <1>3, <1>4, NetInvKept DEF IInv

LEMMA EchoChallengeStep == ASSUME IInv, EchoChallenge PROVE IInv'
<1>1. Take(Challenge) /\ net' = net \cup {Ask(TRUE)} /\ UNCHANGED <<merge, shown>>
      /\ g_eRulesRequestStatus' = "SOCKET_AWAITING_ANSWER" /\ m_flNextSyncTime' = "now"
  BY DEF EchoChallenge
<1>2. /\ Flying' \subseteq Flying /\ inbox' \in Seq(Part \cup {Challenge})
      /\ g_eRulesRequestStatus \in Awaiting
  BY <1>1, TakeShrinks, TakeFacts DEF IInv
<1>3. TypeOK'
  BY <1>1, <1>2 DEF IInv, TypeOK, Take, Statuses, Awaiting, Datagram, merge, shown, server, bounds
<1>4. Counted'
  BY <1>1 DEF IInv, Counted, merge
<1> QED BY <1>1, <1>2, <1>3, <1>4, NetInvKept, MergeInvKept DEF IInv

LEMMA StrayChallengeStep == ASSUME IInv, StrayChallenge PROVE IInv'
<1>1. /\ Take(Challenge)
      /\ m_szPacketBuffer' = [m_szPacketBuffer EXCEPT ![0] = Challenge]
      /\ m_iReceivedSize' = m_iReceivedSize + ChallengeSize
      /\ UNCHANGED <<g_eRulesRequestStatus, m_flNextSyncTime, m_iResponceID,
                     m_iReceivedPackets, m_iReceivedPacketsCount, shown, net>>
  BY DEF StrayChallenge
<1>2. /\ Flying' \subseteq Flying /\ inbox' \in Seq(Part \cup {Challenge})
      /\ g_eRulesRequestStatus \in Awaiting
  BY <1>1, TakeShrinks, TakeFacts DEF IInv
<1>3. /\ m_iReceivedSize' \in Nat
      /\ m_szPacketBuffer' \in [0..(MaxParts - 1) -> Part \cup {Challenge, Nothing}]
  BY <1>1, Sizes DEF IInv, TypeOK
<1>4. TypeOK'
  BY <1>1, <1>2, <1>3 DEF IInv, TypeOK, Take, shown, server, bounds
<1>5. Counted'
  BY <1>1 DEF IInv, Counted
<1>6. /\ m_szPacketBuffer'[0] = Challenge
      /\ \A i \in m_iReceivedPackets : i # 0 => m_szPacketBuffer'[i] = m_szPacketBuffer[i]
  BY <1>1, Sizes DEF IInv, TypeOK
<1>7. \A i \in m_iReceivedPackets : i # 0 => (Held(i) => Held(i)')
  BY <1>1, <1>2, <1>6 DEF Held
<1>8. LastIn => LastIn'
  <2> SUFFICES ASSUME NEW i \in m_iReceivedPackets, m_szPacketBuffer[i] \in Part,
                      m_szPacketBuffer[i].of = i + 1
               PROVE LastIn'
    BY DEF LastIn
  <2>1. Held(i)
    BY <1>2, KindsDiffer DEF IInv, MergeInv
  <2>2. i # 0
    BY <2>1 DEF Held
  <2> QED BY <1>1, <1>6, <2>2 DEF LastIn
<1>9. /\ \A i \in m_iReceivedPackets : Held(i) \/ (i = 0 /\ m_szPacketBuffer[0] = Challenge)
      /\ \A i, j \in m_iReceivedPackets :
           m_szPacketBuffer[i] \in Part /\ m_szPacketBuffer[j] \in Part
             => m_szPacketBuffer[i].of = m_szPacketBuffer[j].of
      /\ m_iReceivedSize + (IF LastIn THEN PartSize - LastSize ELSE 0)
           >= m_iReceivedPacketsCount * PartSize
  BY <1>2 DEF IInv, MergeInv
<1>10. \A i \in m_iReceivedPackets' : Held(i)' \/ (i = 0 /\ m_szPacketBuffer'[0] = Challenge)
  BY <1>1, <1>6, <1>7, <1>9
<1>11. \A i, j \in m_iReceivedPackets' :
         m_szPacketBuffer'[i] \in Part /\ m_szPacketBuffer'[j] \in Part
           => m_szPacketBuffer'[i].of = m_szPacketBuffer'[j].of
  BY <1>1, <1>6, <1>9, KindsDiffer
<1>12. m_iReceivedSize' + (IF LastIn' THEN PartSize - LastSize ELSE 0)
         >= m_iReceivedPacketsCount' * PartSize
  <2>1. m_iReceivedPacketsCount * PartSize \in Int /\ m_iReceivedSize \in Nat
    BY Sizes DEF IInv, TypeOK
  <2> QED BY <1>1, <1>8, <1>9, <2>1, Sizes
<1>13. MergeInv'
  BY <1>10, <1>11, <1>12 DEF MergeInv
<1> QED BY <1>2, <1>4, <1>5, <1>13, NetInvKept DEF IInv

(* The rules are parsed: what is shown has its type.                       *)
LEMMA SyncTypes ==
  ASSUME TypeOK, NEW buffer, NEW of, Sync(buffer, of), buffer[0] \in Part, buffer[of - 1] \in Part
  PROVE  /\ g_eRulesRequestStatus' = "SOCKET_IDLE" /\ m_flNextSyncTime' = "future"
         /\ m_flSynced' \in BOOLEAN /\ m_bDelayTimeleftReading' \in BOOLEAN
         /\ m_flEndTime' \in -1..MaxChanges
<1>1. buffer[0].limit \in 0..MaxChanges /\ buffer[of - 1].left \in 0..MaxChanges
  BY PartFields
<1>2. m_flEndTime' \in -1..MaxChanges
  BY <1>1, TimerConstantsOK DEF Sync
<1> QED BY <1>2 DEF Sync

LEMMA TakeSingleStep == ASSUME IInv, NEW p, TakeSingle(p) PROVE IInv'
<1>1. /\ Take(p) /\ p \in Part
      /\ m_szPacketBuffer' = [m_szPacketBuffer EXCEPT ![0] = p]
      /\ m_iReceivedSize' = m_iReceivedSize + PayloadSize(p)
      /\ Sync(m_szPacketBuffer', 1)
      /\ UNCHANGED <<m_iResponceID, m_iReceivedPackets, m_iReceivedPacketsCount, net>>
  BY DEF TakeSingle
<1>2. Flying' \subseteq Flying /\ inbox' \in Seq(Part \cup {Challenge})
  BY <1>1, TakeShrinks, TakeFacts DEF IInv
<1>3. /\ m_iReceivedSize' \in Nat
      /\ m_szPacketBuffer' \in [0..(MaxParts - 1) -> Part \cup {Challenge, Nothing}]
      /\ m_szPacketBuffer'[0] = p
  BY <1>1, Sizes, PayloadIsNat DEF IInv, TypeOK
<1>4. /\ g_eRulesRequestStatus' = "SOCKET_IDLE" /\ m_flNextSyncTime' = "future"
      /\ m_flSynced' \in BOOLEAN /\ m_bDelayTimeleftReading' \in BOOLEAN
      /\ m_flEndTime' \in -1..MaxChanges
  <2>1. 1 - 1 = 0
    OBVIOUS
  <2> QED BY <1>1, <1>3, <2>1, SyncTypes DEF IInv
<1>5. TypeOK'
  BY <1>1, <1>2, <1>3, <1>4 DEF IInv, TypeOK, Take, Statuses, server, bounds
<1>6. Counted' /\ MergeInv'
  BY <1>1, <1>4 DEF IInv, Counted, MergeInv, Awaiting
<1> QED BY <1>2, <1>5, <1>6, NetInvKept DEF IInv

LEMMA DropPartStep == ASSUME IInv, NEW p, DropPart(p) PROVE IInv'
<1>1. Take(p) /\ Wait /\ UNCHANGED <<merge, net>>
  BY DEF DropPart
<1>2. /\ Flying' \subseteq Flying /\ inbox' \in Seq(Part \cup {Challenge})
      /\ g_eRulesRequestStatus \in Awaiting
  BY <1>1, TakeShrinks, TakeFacts DEF IInv
<1>3. TypeOK'
  BY <1>1, <1>2 DEF IInv, TypeOK, Take, Wait, Statuses, Awaiting, merge, shown, server, bounds
<1>4. Counted'
  BY <1>1 DEF IInv, Counted, merge
<1> QED BY <1>1, <1>2, <1>3, <1>4, NetInvKept, MergeInvKept DEF IInv

LEMMA AddPartStep == ASSUME IInv, NEW p, AddPart(p) PROVE IInv'
<1>1. /\ Take(p) /\ p \in Part /\ net' = net
      /\ m_iResponceID' = p.id
      /\ m_iReceivedPackets' = m_iReceivedPackets \cup {p.part}
      /\ m_iReceivedSize' = m_iReceivedSize + PayloadSize(p)
      /\ m_szPacketBuffer' = [m_szPacketBuffer EXCEPT ![p.part] = p]
      /\ IF m_iReceivedPacketsCount' >= p.of /\ m_szPacketBuffer'[0].kind = "rules"
           THEN Sync(m_szPacketBuffer', p.of) ELSE Wait
  BY DEF AddPart
<1>2. Flying' \subseteq Flying /\ inbox' \in Seq(Part \cup {Challenge})
  BY <1>1, TakeShrinks, TakeFacts DEF IInv
<1>3. /\ m_iReceivedSize' \in Nat /\ m_iResponceID' \in Ids \cup {NoId}
      /\ m_iReceivedPackets' \subseteq 0..(MaxParts - 1)
      /\ m_szPacketBuffer' \in [0..(MaxParts - 1) -> Part \cup {Challenge, Nothing}]
  <2>1. p.part \in 0..(MaxParts - 1) /\ p.id \in Ids
    BY <1>1, PartFields
  <2>2. m_iReceivedSize' \in Nat
    BY <1>1, PayloadIsNat DEF IInv, TypeOK
  <2>3. m_iResponceID' \in Ids \cup {NoId} /\ m_iReceivedPackets' \subseteq 0..(MaxParts - 1)
    BY <1>1, <2>1 DEF IInv, TypeOK
  <2>4. m_szPacketBuffer' \in [0..(MaxParts - 1) -> Part \cup {Challenge, Nothing}]
    BY <1>1, <2>1 DEF IInv, TypeOK
  <2> QED BY <2>2, <2>3, <2>4
<1>4. m_iReceivedPacketsCount' \in 0..MaxParts
  <2>1. IsFiniteSet(m_iReceivedPackets') /\ Cardinality(m_iReceivedPackets') <= MaxParts
    <3>1. IsFiniteSet(0..(MaxParts - 1)) /\ Cardinality(0..(MaxParts - 1)) = MaxParts
      BY Sizes, FS_Interval
    <3>2. m_iReceivedPackets' \in SUBSET (0..(MaxParts - 1))
      BY <1>3
    <3>3. /\ IsFiniteSet(m_iReceivedPackets')
          /\ Cardinality(m_iReceivedPackets') <= Cardinality(0..(MaxParts - 1))
      BY <3>1, <3>2, FS_Subset
    <3> QED BY <3>1, <3>3
  <2> QED BY <2>1, CountAdded, FS_CardinalityType, Sizes DEF Counted, IInv
<1>5. /\ g_eRulesRequestStatus' \in {"SOCKET_IDLE", "SOCKET_AWAITING_ANSWER"}
      /\ m_flNextSyncTime' \in {"future", "now", "old"}
      /\ m_flSynced' \in BOOLEAN /\ m_bDelayTimeleftReading' \in BOOLEAN
      /\ m_flEndTime' \in -1..MaxChanges
  <2>1. CASE m_iReceivedPacketsCount' >= p.of /\ m_szPacketBuffer'[0].kind = "rules"
    <3>1. WholeAnswer'
      BY <2>1, WholeAfterAdd
    <3>2. p.of - 1 \in 0..(MaxParts - 1) /\ 0 \in 0..(MaxParts - 1)
      BY <1>1, PartFields, Sizes
    <3>3. m_szPacketBuffer'[0] \in Part
      BY <1>3, <2>1, <3>2 DEF Challenge, Nothing
    <3>4. m_szPacketBuffer'[p.of - 1] \in Part
      BY <2>1, WholePlaces
    <3> QED BY <1>1, <2>1, <3>3, <3>4, SyncTypes DEF IInv
  <2>2. CASE ~(m_iReceivedPacketsCount' >= p.of /\ m_szPacketBuffer'[0].kind = "rules")
    BY <1>1, <2>2 DEF Wait, IInv, TypeOK, shown
  <2> QED BY <2>1, <2>2
<1>6. TypeOK'
  BY <1>1, <1>2, <1>3, <1>4, <1>5 DEF IInv, TypeOK, Take, Statuses, Awaiting, server, bounds
<1> QED BY <1>2, <1>6, CountAdded, MergeAfterAdd, NetInvKept DEF IInv

(* The socket is closed.                                                   *)
LEMMA CloseSocketInv ==
  ASSUME IInv, CloseSocket, UNCHANGED <<m_iReceivedPackets, m_iReceivedPacketsCount>>
  PROVE  Counted' /\ NetInv' /\ MergeInv'
<1>1. Flying' = {}
  BY DEF CloseSocket, Flying
<1> QED BY <1>1 DEF CloseSocket, IInv, Counted, NetInv, MergeInv, Awaiting

(* Steps that abandon the query, or start a new level.                     *)
LEMMA BreakSteps ==
  ASSUME IInv, Disconnected \/ VidInit
  PROVE  IInv'
<1>1. breaks' \in 0..MaxBreaks /\ UNCHANGED faults
  BY TimerConstantsOK DEF Disconnected, VidInit, Break, IInv, TypeOK
<1>2. CloseSocket /\ UNCHANGED <<m_iReceivedPackets, m_iReceivedPacketsCount>>
  BY DEF Disconnected, VidInit, merge
<1>3. inbox' \in Seq(Part \cup {Challenge}) /\ net' \subseteq Datagram
      /\ g_eRulesRequestStatus' \in Statuses
  BY <1>2 DEF CloseSocket, Statuses
<1>4. CASE Disconnected
  <2>1. TypeOK'
    BY <1>1, <1>3, <1>4 DEF Disconnected, IInv, TypeOK, merge, shown, server
  <2> QED BY <1>2, <2>1, CloseSocketInv DEF IInv
<1>5. CASE VidInit
  <2>1. m_flEndTime' \in -1..MaxChanges /\ m_iReceivedSize' \in Nat
    BY <1>5, TimerConstantsOK DEF VidInit
  <2>2. TypeOK'
    BY <1>1, <1>3, <1>5, <2>1 DEF VidInit, IInv, TypeOK
  <2> QED BY <1>2, <2>2, CloseSocketInv DEF IInv
<1> QED BY <1>4, <1>5

(* Steps that send and receive nothing.                                    *)
LEMMA QuietStep ==
  ASSUME IInv, TypeOK', UNCHANGED <<g_eRulesRequestStatus, merge, inbox, net>>
  PROVE  IInv'
<1>1. Flying' \subseteq Flying
  BY DEF Flying
<1>2. Counted'
  BY DEF IInv, Counted, merge
<1> QED BY <1>1, <1>2, NetInvKept, MergeInvKept DEF IInv

LEMMA QuietSteps ==
  ASSUME IInv, \/ SyncOff \/ DoResync \/ Elapse \/ (\E on \in BOOLEAN : SetSync(on))
               \/ ChangeLimit \/ TimeleftFollows \/ UNCHANGED vars
  PROVE  IInv'
<1> USE DEF IInv
<1>1. CASE SyncOff
  <2>1. TypeOK'
    BY <1>1 DEF SyncOff, TypeOK, merge, server, bounds
  <2> QED BY <1>1, <2>1, QuietStep DEF SyncOff
<1>2. CASE DoResync
  <2>1. TypeOK'
    BY <1>2 DEF DoResync, TypeOK, merge, bounds
  <2> QED BY <1>2, <2>1, QuietStep DEF DoResync
<1>3. CASE Elapse
  <2>1. faults' \in 0..MaxFaults
    BY <1>3, TimerConstantsOK DEF Elapse, TypeOK
  <2>2. TypeOK'
    BY <1>3, <2>1 DEF Elapse, TypeOK, merge, shown, server
  <2> QED BY <1>3, <2>2, QuietStep DEF Elapse
<1>4. ASSUME NEW on \in BOOLEAN, SetSync(on) PROVE IInv'
  <2>1. breaks' \in 0..MaxBreaks /\ UNCHANGED faults
    BY <1>4, TimerConstantsOK DEF SetSync, Break, TypeOK
  <2>2. TypeOK'
    BY <1>4, <2>1 DEF SetSync, TypeOK, merge, shown, server
  <2> QED BY <1>4, <2>2, QuietStep DEF SetSync
<1>5. CASE ChangeLimit
  <2>1. rules' \in 0..MaxChanges
    BY <1>5, TimerConstantsOK DEF ChangeLimit, TypeOK
  <2>2. TypeOK'
    BY <1>5, <2>1 DEF ChangeLimit, TypeOK, merge, shown, bounds
  <2> QED BY <1>5, <2>2, QuietStep DEF ChangeLimit
<1>6. CASE TimeleftFollows
  <2>1. TypeOK'
    BY <1>6 DEF TimeleftFollows, TypeOK, merge, shown, bounds
  <2> QED BY <1>6, <2>1, QuietStep DEF TimeleftFollows
<1>7. CASE UNCHANGED vars
  <2>1. TypeOK'
    BY <1>7 DEF vars, TypeOK, merge, shown, server, bounds
  <2> QED BY <1>7, <2>1, QuietStep DEF vars
<1> QED BY <1>1, <1>2, <1>3, <1>4, <1>5, <1>6, <1>7

-----------------------------------------------------------------------------
(* Steps of the network and of the server.                                 *)

LEMMA ArrivesTypes ==
  ASSUME TypeOK, NEW d, NEW new \in SUBSET Datagram, Arrives(d, new), inbox' \in Seq(Part \cup {Challenge})
  PROVE  TypeOK' /\ net' \subseteq net \cup new
<1>1. faults' \in 0..MaxFaults /\ net' \subseteq net \cup new
  BY TimerConstantsOK DEF Arrives, TypeOK
<1>2. net' \subseteq Datagram
  BY <1>1 DEF TypeOK
<1> QED BY <1>1, <1>2 DEF Arrives, TypeOK, merge, shown, server

LEMMA DeliverStep == ASSUME IInv, NEW d \in net, Deliver(d) PROVE IInv'
<1>1. d \notin {Ask(TRUE), Ask(FALSE)} /\ inbox' = Append(inbox, d) /\ Arrives(d, {})
  BY DEF Deliver
<1>2. d \in Part \cup {Challenge}
  BY <1>1 DEF IInv, TypeOK, Datagram
<1>3. /\ inbox \in Seq(Part \cup {Challenge}) /\ inbox' \in Seq(Part \cup {Challenge})
      /\ \A k \in DOMAIN inbox' : (\E j \in DOMAIN inbox : inbox'[k] = inbox[j]) \/ inbox'[k] \in net
  <2>1. inbox \in Seq(Part \cup {Challenge}) /\ inbox' \in Seq(Part \cup {Challenge})
    BY <1>1, <1>2 DEF IInv, TypeOK
  <2>2. \A k \in DOMAIN inbox' : (k \in DOMAIN inbox /\ inbox'[k] = inbox[k]) \/ inbox'[k] = d
    BY <1>1, <2>1, <1>2
  <2> QED BY <2>1, <2>2
<1>4. TypeOK' /\ net' \subseteq net \cup {}
  BY <1>1, <1>3, ArrivesTypes DEF IInv
<1>5. Flying' \subseteq Flying
  <2>1. {Ask(TRUE)} \cap Part = {} /\ net' \subseteq net \cup {Ask(TRUE)}
    BY <1>4, KindsDiffer
  <2> QED BY <1>3, <2>1, FlyingShrinks
<1>6. UNCHANGED <<g_eRulesRequestStatus, merge>>
  BY <1>1 DEF Arrives
<1>7. Counted'
  BY <1>6 DEF IInv, Counted, merge
<1> QED BY <1>4, <1>5, <1>6, <1>7, NetInvKept, MergeInvKept DEF IInv

LEMMA LoseStep == ASSUME IInv, NEW d \in net, Lose(d) PROVE IInv'
<1>1. faults' \in 0..MaxFaults /\ net' \subseteq Datagram /\ net' \subseteq net
  BY TimerConstantsOK DEF Lose, IInv, TypeOK
<1>2. TypeOK'
  BY <1>1 DEF Lose, IInv, TypeOK, merge, shown, server
<1>3. Flying' \subseteq Flying
  BY <1>1 DEF Lose, Flying
<1>4. Counted' /\ UNCHANGED <<g_eRulesRequestStatus, merge>>
  BY DEF Lose, IInv, Counted, merge
<1> QED BY <1>2, <1>3, <1>4, NetInvKept, MergeInvKept DEF IInv

(* The id of an answer is that of nothing else that is still on its way or *)
(* being put together.                                                     *)
LEMMA NewAnswer ==
  ASSUME TypeOK, NEW id \in Ids \ IdsInUse
  PROVE  /\ RulesAnswer(id) \subseteq Part
         /\ \A p \in RulesAnswer(id) : p.id = id /\ p.of = Parts[rules] /\ p.part < p.of
         /\ \A p \in Flying : p.id # id
         /\ id # m_iResponceID
<1>1. Parts[rules] \in 1..MaxParts /\ Parts[rules] \in Nat /\ MaxParts \in Nat
  BY TimerConstantsOK, Sizes DEF TypeOK
<1>2. \A i \in 0..(Parts[rules] - 1) : i \in 0..(MaxParts - 1) /\ i < Parts[rules]
  BY <1>1
<1>3. RulesAnswer(id) \subseteq Part
  <2> SUFFICES ASSUME NEW i \in 0..(Parts[rules] - 1)
               PROVE  [kind |-> "rules", id |-> id, part |-> i, of |-> Parts[rules],
                       limit |-> rules, left |-> timeleft] \in Part
    BY DEF RulesAnswer
  <2> QED BY <1>1, <1>2 DEF Part, TypeOK
<1>4. \A p \in RulesAnswer(id) : p.id = id /\ p.of = Parts[rules] /\ p.part < p.of
  BY <1>2 DEF RulesAnswer
<1>5. \A p \in Flying : p.id \in IdsInUse
  BY DEF Flying, IdsInUse
<1>6. m_iResponceID \in IdsInUse
  BY DEF IdsInUse
<1> QED BY <1>3, <1>4, <1>5, <1>6

(* The server answers a request.                                           *)
LEMMA ReplyStep == ASSUME IInv, NEW r \in net, Reply(r) PROVE IInv'
<1>1. inbox' = inbox /\ inbox \in Seq(Part \cup {Challenge})
  BY DEF Reply, IInv, TypeOK
<1>2. ASSUME NEW id \in Ids \ IdsInUse, Arrives(r, RulesAnswer(id)) PROVE IInv'
  <2> DEFINE new == RulesAnswer(id)
  <2>1. /\ new \subseteq Part
        /\ \A p \in new : p.id = id /\ p.of = Parts[rules] /\ p.part < p.of
        /\ \A p \in Flying : p.id # id
        /\ id # m_iResponceID
    BY <1>2, NewAnswer DEF IInv
  <2> HIDE DEF new
  <2>2. TypeOK' /\ net' \subseteq net \cup new
    <3>1. new \in SUBSET Datagram
      BY <2>1 DEF Datagram
    <3> QED BY <1>1, <1>2, <3>1, ArrivesTypes DEF IInv, new
  <2>3. Flying' \subseteq Flying \cup new
    BY <1>1, <2>1, <2>2 DEF Flying
  <2>4. NetInv'
    BY <2>1, <2>3 DEF IInv, NetInv
  <2>5. UNCHANGED <<g_eRulesRequestStatus, m_iResponceID, m_iReceivedPackets,
                    m_iReceivedPacketsCount, m_iReceivedSize, m_szPacketBuffer>>
    BY <1>2 DEF Arrives, merge
  <2>6. \A i : Held(i) => Held(i)'
    BY <2>1, <2>3, <2>5 DEF Held
  <2>7. LastIn' <=> LastIn
    BY <2>5 DEF LastIn
  <2>8. MergeInv'
    BY <2>5, <2>6, <2>7 DEF IInv, MergeInv
  <2>9. Counted'
    BY <2>5 DEF IInv, Counted
  <2> QED BY <2>2, <2>4, <2>8, <2>9 DEF IInv
<1>3. CASE Arrives(r, {Challenge})
  <2>1. TypeOK' /\ net' \subseteq net \cup {Challenge}
    <3>1. {Challenge} \in SUBSET Datagram
      BY DEF Datagram
    <3> QED BY <1>1, <1>3, <3>1, ArrivesTypes DEF IInv
  <2>2. Flying' \subseteq Flying
    <3>1. {Challenge} \cap Part = {}
      BY KindsDiffer
    <3> QED BY <1>1, <2>1, <3>1, FlyingShrinks
  <2>3. UNCHANGED <<g_eRulesRequestStatus, merge>>
    BY <1>3 DEF Arrives
  <2>4. Counted'
    BY <2>3 DEF IInv, Counted, merge
  <2> QED BY <2>1, <2>2, <2>3, <2>4, NetInvKept, MergeInvKept DEF IInv
<1> QED BY <1>2, <1>3 DEF Reply

-----------------------------------------------------------------------------
LEMMA ReceiveStep == ASSUME IInv, Receive PROVE IInv'
  BY EchoChallengeStep, StrayChallengeStep, TakeSingleStep, DropPartStep, AddPartStep DEF Receive

LEMMA StepIInv == IInv /\ [Next]_vars => IInv'
<1> SUFFICES ASSUME IInv, [Next]_vars PROVE IInv'
  OBVIOUS
<1>1. CASE SendRequest \/ Receive
  BY <1>1, SendRequestStep, ReceiveStep
<1>2. CASE Disconnected \/ VidInit
  BY <1>2, BreakSteps
<1>3. CASE \E d \in net : Reply(d) \/ Deliver(d) \/ Lose(d)
  BY <1>3, ReplyStep, DeliverStep, LoseStep
<1> QED BY <1>1, <1>2, <1>3, QuietSteps DEF Next

(* The invariant holds, for all sizes of answers, sets of ids and bounds.  *)
THEOREM InvariantHolds == Spec => []IInv
  BY InitIInv, StepIInv, PTL DEF Spec

(* Every variable of the timer keeps its type: parts are never counted     *)
(* twice, nor beyond the places of the buffer.                             *)
THEOREM TypeCorrect == Spec => []TypeOK
<1>1. IInv => TypeOK
  BY DEF IInv
<1> QED BY <1>1, InvariantHolds, PTL

(* Whatever is lost, late, doubled or stray, the rules are read from a     *)
(* buffer that holds one answer of the server in full.                     *)
THEOREM WholeAnswersAreParsed == Spec => ParsesWholeAnswers
<1>1. IInv /\ [Next]_vars => [Parsed => WholeAnswer']_vars
  <2> SUFFICES ASSUME IInv, Next, Parsed PROVE WholeAnswer'
    OBVIOUS
  <2>1. /\ g_eRulesRequestStatus \in Awaiting /\ g_eRulesRequestStatus' = "SOCKET_IDLE"
        /\ g_eRulesRequestStatus' # g_eRulesRequestStatus
    BY DEF Parsed, Awaiting
  <2>2. CASE Receive
    <3>1. ~EchoChallenge /\ ~StrayChallenge /\ \A p : ~DropPart(p)
      BY <2>1 DEF EchoChallenge, StrayChallenge, DropPart, Wait
    <3>2. ASSUME NEW p, AddPart(p) PROVE WholeAnswer'
      <4>1. m_iReceivedPacketsCount' >= p.of /\ m_szPacketBuffer'[0].kind = "rules"
        BY <2>1, <3>2 DEF AddPart, Wait
      <4> QED BY <3>2, <4>1, WholeAfterAdd
    <3> QED BY <2>2, <3>1, <3>2, WholeSingle DEF Receive
  <2>3. ~SendRequest /\ ~Disconnected /\ ~VidInit
    BY <2>1 DEF SendRequest, Disconnected, VidInit, CloseSocket
  <2>4. ~(\/ SyncOff \/ DoResync \/ Elapse \/ (\E on \in BOOLEAN : SetSync(on))
          \/ ChangeLimit \/ TimeleftFollows)
    BY <2>1 DEF SyncOff, DoResync, Elapse, SetSync, ChangeLimit, TimeleftFollows
  <2>5. ~(\E d \in net : Reply(d) \/ Deliver(d) \/ Lose(d))
    BY <2>1 DEF Reply, Deliver, Lose, Arrives
  <2> QED BY <2>2, <2>3, <2>4, <2>5 DEF Next
<1> QED BY <1>1, InvariantHolds, PTL DEF Spec, ParsesWholeAnswers
=============================================================================
