------------------------------ MODULE SquadProofs ------------------------------
(***************************************************************************)
(* Proofs about Squad, for any monsters, groups, slots and sizes of a      *)
(* squad.                                                                  *)
(*                                                                         *)
(* SquadsAreConsistent needs to know of the corpses too: a leader who has  *)
(* not been killed leads, whoever names him.  SlotsAreHeld needs that one  *)
(* who has not started yet leads nobody and has no slots, neither taken    *)
(* nor his own, and that a corpse in a squad holds none, for it will not   *)
(* vacate one in time.                                                     *)
(***************************************************************************)
EXTENDS Squad, TLAPS

MySlots == {bits_NO_SLOT, bits_SLOT_SQUAD_SPLIT} \cup {{s} : s \in Slots}

Linked == \A m \in Monsters :
  /\ m_hSquadLeader[m] \in edicts \cup {NULL} /\ m_hSquadMember[m] \subseteq edicts
  /\ m \notin edicts => m_hSquadLeader[m] = NULL

LeadersLead == \A m \in Monsters :
  m_hSquadLeader[m] \notin killed \cup {NULL} => IsLeader(m_hSquadLeader[m])

Fresh == \A l \in waiting \cup unborn :
  /\ m_afSquadSlots[l] = bits_NO_SLOT /\ m_iMySlot[l] = bits_NO_SLOT
  /\ \A m \in Monsters : m_hSquadLeader[m] # l

CorpsesHoldNone == \A m \in killed :
  InSquad(m) /\ IsLeader(m_hSquadLeader[m]) /\ m_hSquadLeader[m] \notin spoilt
    => m_iMySlot[m] \cap Slots = {}

LinksInv == Linked /\ LeadersLead /\ SquadsAreConsistent
SlotsInv == Fresh /\ SlotsAreHeld /\ CorpsesHoldNone
IInv     == TypeOK /\ LinksInv /\ SlotsInv

-----------------------------------------------------------------------------
(* Slots.                                                                  *)

LEMMA SlotNumbers == Slots \subseteq Int /\ 10 \notin Slots /\ NULL \notin Monsters
  BY SquadConstantsOK DEF Slots

LEMMA OneOrNone ==
  ASSUME NEW taken, NEW wants \in SUBSET Slots, Available(taken, wants) # {}
  PROVE  \E s \in Slots : s \notin taken /\ Available(taken, wants) = {s}
<1>1. PICK s : s \in Available(taken, wants)
  OBVIOUS
<1>2. s \in Slots /\ s \notin taken /\ s \in wants
  BY <1>1 DEF Available
<1>3. ASSUME NEW t \in Available(taken, wants) PROVE t = s
  <2>1. t \in wants /\ t \notin taken /\ t <= s /\ s <= t
    BY <1>1, <1>2, <1>3 DEF Available
  <2>2. t \in Int /\ s \in Int
    BY <2>1, <1>2, SlotNumbers
  <2> QED BY <2>1, <2>2
<1> QED BY <1>1, <1>2, <1>3

LEMMA LeaderType ==
  ASSUME TypeOK, NEW m \in Monsters
  PROVE  /\ MySquadLeader(m) \in Monsters
         /\ InSquad(m) => MySquadLeader(m) = m_hSquadLeader[m] /\ m_hSquadLeader[m] \in Monsters
BY DEF TypeOK, MySquadLeader, InSquad

(* OccupySlot leaves the slots alone, or takes one that is free.           *)
LEMMA Occupied ==
  ASSUME TypeOK, NEW m \in Monsters, NEW wants \in Wants, NEW slots, NEW mine,
         OccupySlot(m, wants, slots, mine)
  PROVE  \/ /\ m_afSquadSlots' = slots
            /\ \E q \in {mine, bits_SLOT_SQUAD_SPLIT} :
                 (q = mine \/ InSquad(m)) /\ m_iMySlot' = [m_iMySlot EXCEPT ![m] = q]
         \/ /\ InSquad(m)
            /\ \E s \in Slots :
                 /\ s \notin slots[m_hSquadLeader[m]]
                 /\ m_afSquadSlots' = [slots EXCEPT ![m_hSquadLeader[m]] = @ \cup {s}]
                 /\ m_iMySlot' = [m_iMySlot EXCEPT ![m] = {s}]
<1> DEFINE l == MySquadLeader(m)
           Open(i) == Available(slots[l], wants[i])
           opened == {i \in DOMAIN wants : Open(i) # {}}
<1>1. CASE wants = <<>> \/ ~InSquad(m)
  BY <1>1 DEF OccupySlot
<1>2. CASE ~(wants = <<>> \/ ~InSquad(m)) /\ SquadEnemySplit(m)'
  BY <1>2 DEF OccupySlot
<1>3. CASE ~(wants = <<>> \/ ~InSquad(m)) /\ ~SquadEnemySplit(m)' /\ opened = {}
  BY <1>3 DEF OccupySlot
<1>4. CASE ~(wants = <<>> \/ ~InSquad(m)) /\ ~SquadEnemySplit(m)' /\ opened # {}
  <2>1. PICK i \in opened : /\ m_afSquadSlots' = [slots EXCEPT ![l] = @ \cup Open(i)]
                            /\ m_iMySlot' = [m_iMySlot EXCEPT ![m] = Open(i)]
    BY <1>4 DEF OccupySlot
  <2>2. i \in DOMAIN wants /\ Open(i) # {}
    OBVIOUS
  <2>3. wants[i] \in SUBSET Slots
    BY <2>2 DEF Wants, Slots
  <2>4. PICK s \in Slots : s \notin slots[l] /\ Open(i) = {s}
    BY <2>2, <2>3, OneOrNone
  <2>5. InSquad(m) /\ l = m_hSquadLeader[m]
    BY <1>4, LeaderType
  <2> QED BY <2>1, <2>4, <2>5
<1> QED BY <1>1, <1>2, <1>3, <1>4

LEMMA VacatedType ==
  ASSUME TypeOK, NEW m \in Monsters
  PROVE  /\ Vacated(m) \in [Monsters -> SUBSET Slots] /\ Mine(m) \in MySlots
         /\ ~InSquad(m) => Vacated(m) = m_afSquadSlots /\ Mine(m) = m_iMySlot[m]
         /\ InSquad(m) => /\ Mine(m) = bits_NO_SLOT
                          /\ Vacated(m) = [m_afSquadSlots EXCEPT ![m_hSquadLeader[m]] = @ \ m_iMySlot[m]]
BY LeaderType DEF TypeOK, Vacated, Mine, MySlots

LEMMA OccupiedType ==
  ASSUME TypeOK, NEW m \in Monsters, NEW wants \in Wants, NEW slots \in [Monsters -> SUBSET Slots],
         NEW mine \in MySlots, OccupySlot(m, wants, slots, mine)
  PROVE  m_afSquadSlots' \in [Monsters -> SUBSET Slots] /\ m_iMySlot' \in [Monsters -> MySlots]
<1>1. m_iMySlot \in [Monsters -> MySlots] /\ bits_SLOT_SQUAD_SPLIT \in MySlots
  BY DEF TypeOK, MySlots
<1>2. CASE m_afSquadSlots' = slots /\ \E q \in {mine, bits_SLOT_SQUAD_SPLIT} :
                                        m_iMySlot' = [m_iMySlot EXCEPT ![m] = q]
  BY <1>1, <1>2
<1>3. ASSUME InSquad(m), NEW s \in Slots,
             m_afSquadSlots' = [slots EXCEPT ![m_hSquadLeader[m]] = @ \cup {s}],
             m_iMySlot' = [m_iMySlot EXCEPT ![m] = {s}]
      PROVE  m_afSquadSlots' \in [Monsters -> SUBSET Slots] /\ m_iMySlot' \in [Monsters -> MySlots]
  <2>1. {s} \in MySlots
    BY DEF MySlots
  <2>2. m_iMySlot' \in [Monsters -> MySlots]
    BY <1>1, <1>3, <2>1
  <2>3. m_afSquadSlots' \in [Monsters -> SUBSET Slots]
    BY <1>3
  <2> QED BY <2>2, <2>3
<1> QED BY <1>2, <1>3, Occupied

LEMMA RecruitsFree ==
  ASSUME NEW m \in Monsters, NEW R \in Recruits(m)
  PROVE  R \subseteq edicts \ {m} /\ \A x \in R : ~InSquad(x)
<1> DEFINE eligible == {x \in edicts \ {m} : ~InSquad(x) /\ (x \in named <=> m \in named)}
<1>1. R \subseteq eligible
  BY DEF Recruits
<1> QED BY <1>1

-----------------------------------------------------------------------------
(* Types.                                                                  *)

LEMMA InitType == Init => TypeOK
BY DEF Init, TypeOK, bits_NO_SLOT

(* Steps of a schedule, and those that only turn to an enemy.              *)
LEMMA ScheduleTypes ==
  ASSUME TypeOK, NEW m \in Monsters, NEW wants \in Wants, NEW seeing,
         MaintainSchedule(m, seeing, wants)
  PROVE  TypeOK'
<1>1. m_afSquadSlots' \in [Monsters -> SUBSET Slots] /\ m_iMySlot' \in [Monsters -> MySlots]
  BY VacatedType, OccupiedType DEF MaintainSchedule
<1>2. m_hEnemy' \in [Monsters -> Enemies \cup {NULL}]
  BY DEF MaintainSchedule, SquadMakeEnemy, TypeOK
<1> QED BY <1>1, <1>2 DEF MaintainSchedule, TypeOK, MySlots, life, links

LEMMA SetScheduleTypes == ASSUME TypeOK, NEW m \in Monsters, SetSchedule(m) PROVE TypeOK'
<1>1. <<Grenade>> \in Wants /\ m_iMySlot[m] \in MySlots /\ m_afSquadSlots \in [Monsters -> SUBSET Slots]
  BY DEF Wants, TypeOK, MySlots
<1>2. m_afSquadSlots' \in [Monsters -> SUBSET Slots] /\ m_iMySlot' \in [Monsters -> MySlots]
  BY <1>1, OccupiedType DEF SetSchedule
<1>3. spoilt' \subseteq Monsters
  BY LeaderType DEF SetSchedule, TypeOK
<1> QED BY <1>2, <1>3 DEF SetSchedule, TypeOK, MySlots, life, links

LEMMA LinkTypes ==
  ASSUME TypeOK, NEW l \in Monsters, NEW m \in Monsters, SquadRemove(l, m)
  PROVE  m_hSquadLeader' \in [Monsters -> Monsters \cup {NULL}] /\ m_hSquadMember' \in [Monsters -> SUBSET Monsters]
BY LeaderType DEF TypeOK, SquadRemove

LEMMA KilledTypes == ASSUME TypeOK, NEW m \in Monsters, Killed(m) PROVE TypeOK'
<1>1. m_afSquadSlots' \in [Monsters -> SUBSET Slots] /\ m_iMySlot' \in [Monsters -> MySlots]
  BY VacatedType DEF Killed, TypeOK, MySlots
<1>2. m_hSquadLeader' \in [Monsters -> Monsters \cup {NULL}] /\ m_hSquadMember' \in [Monsters -> SUBSET Monsters]
  BY LinkTypes, LeaderType DEF Killed, TypeOK, links
<1> QED BY <1>1, <1>2 DEF Killed, TypeOK, MySlots

LEMMA StartTypes == ASSUME TypeOK, NEW m \in Monsters, StartMonster(m) PROVE TypeOK'
<1>1. CASE UNCHANGED <<links, spoilt>>
  BY <1>1 DEF StartMonster, TypeOK, links, bits
<1>2. ASSUME NEW R \in Recruits(m), SquadRecruit(m, R), R # {} PROVE TypeOK'
  <2>1. R \subseteq Monsters
    BY RecruitsFree DEF TypeOK
  <2>2. /\ m_hSquadLeader' \in [Monsters -> Monsters \cup {NULL}]
        /\ m_hSquadMember' \in [Monsters -> SUBSET Monsters] /\ spoilt' \subseteq Monsters
    BY <1>2, <2>1 DEF SquadRecruit, TypeOK
  <2> QED BY <2>2 DEF StartMonster, TypeOK, bits
<1> QED BY <1>1, <1>2 DEF StartMonster, SquadRecruit

LEMMA RemoveTypes == ASSUME TypeOK, NEW m \in Monsters, Remove(m) PROVE TypeOK'
<1>1. m_afSquadSlots' \in [Monsters -> SUBSET Slots] /\ m_iMySlot' \in [Monsters -> MySlots]
  BY DEF Remove, TypeOK, MySlots, bits_NO_SLOT
<1>2. /\ m_hSquadLeader' \in [Monsters -> Monsters \cup {NULL}]
      /\ m_hSquadMember' \in [Monsters -> SUBSET Monsters]
      /\ m_hEnemy' \in [Monsters -> Enemies \cup {NULL}]
  BY DEF Remove, TypeOK
<1>3. spoilt' \subseteq Monsters
  BY LeaderType DEF Remove, TypeOK
<1> QED BY <1>1, <1>2, <1>3 DEF Remove, TypeOK, MySlots

LEMMA DieTypes == ASSUME TypeOK, NEW m \in Monsters, Die(m) PROVE TypeOK'
<1>1. m_afSquadSlots' \in [Monsters -> SUBSET Slots] /\ m_iMySlot' \in [Monsters -> MySlots]
  BY VacatedType DEF Die, TypeOK, MySlots
<1> QED BY <1>1 DEF Die, TypeOK, MySlots, links

LEMMA TypeStep == TypeOK /\ [Next]_vars => TypeOK'
<1> SUFFICES ASSUME TypeOK, [Next]_vars PROVE TypeOK'
  OBVIOUS
<1>1. ASSUME NEW m \in Monsters, Spawn(m) PROVE TypeOK'
  BY <1>1 DEF Spawn, TypeOK, links, bits
<1>2. ASSUME NEW m \in Monsters, NEW e \in Enemies \cup {NULL}, GetEnemy(m, e) PROVE TypeOK'
  BY <1>2 DEF GetEnemy, TypeOK, life, links, bits
<1>3. ASSUME NEW e \in Enemies, EnemyGone(e) PROVE TypeOK'
  BY <1>3 DEF EnemyGone, TypeOK, life, links, bits
<1>4. CASE Restore
  BY <1>4 DEF Restore, TypeOK, life, links, bits_NO_SLOT
<1>5. CASE UNCHANGED vars
  BY <1>5 DEF vars, TypeOK, life, links, bits
<1> QED BY <1>1, <1>2, <1>3, <1>4, <1>5, ScheduleTypes, SetScheduleTypes, KilledTypes, StartTypes,
           RemoveTypes, DieTypes DEF Next

-----------------------------------------------------------------------------
(* Leaders and members.                                                    *)

LEMMA LinksKept ==
  ASSUME LinksInv, UNCHANGED <<edicts, killed, m_hSquadLeader, m_hSquadMember>>
  PROVE  LinksInv'
BY DEF LinksInv, Linked, LeadersLead, SquadsAreConsistent, IsLeader, Listed

LEMMA StartLinks == ASSUME TypeOK, LinksInv, NEW m \in Monsters, StartMonster(m) PROVE LinksInv'
<1>1. UNCHANGED <<edicts, killed>>
  BY DEF StartMonster
<1>2. CASE UNCHANGED links
  BY <1>1, <1>2, LinksKept DEF links
<1>3. ASSUME ~InSquad(m), NEW R \in Recruits(m), SquadRecruit(m, R), R # {} PROVE LinksInv'
  <2>1. R \subseteq edicts \ {m} /\ \A x \in R : m_hSquadLeader[x] = NULL
    BY RecruitsFree DEF InSquad
  <2>2. /\ \A x \in Monsters : m_hSquadLeader'[x] = IF x \in R \cup {m} THEN m ELSE m_hSquadLeader[x]
        /\ \A x \in Monsters : m_hSquadMember'[x] = IF x = m THEN m_hSquadMember[m] \cup R
                                                              ELSE m_hSquadMember[x]
    BY <1>3 DEF SquadRecruit, TypeOK
  <2>3. m \in edicts /\ m_hSquadLeader[m] = NULL /\ m # NULL /\ edicts \subseteq Monsters
    BY <1>3, SlotNumbers DEF StartMonster, TypeOK, InSquad
  <2>4. Linked'
    BY <1>1, <2>1, <2>2, <2>3 DEF LinksInv, Linked
  <2>5. LeadersLead'
    BY <1>1, <2>1, <2>2, <2>3 DEF LinksInv, Linked, LeadersLead, IsLeader
  <2>6. SquadsAreConsistent'
    <3> SUFFICES ASSUME NEW x \in edicts \ killed
                 PROVE  /\ m_hSquadLeader'[x] \notin killed \cup {NULL} =>
                             /\ m_hSquadLeader'[m_hSquadLeader'[x]] = m_hSquadLeader'[x]
                             /\ x \in m_hSquadMember'[m_hSquadLeader'[x]] \cup {m_hSquadLeader'[x]}
                        /\ \A n \in Monsters : x \in m_hSquadMember'[n] => m_hSquadLeader'[x] = n
      BY <1>1 DEF SquadsAreConsistent, IsLeader, Listed
    <3> DEFINE l == m_hSquadLeader[x]
    <3>1. /\ l \notin killed \cup {NULL} => m_hSquadLeader[l] = l /\ x \in m_hSquadMember[l] \cup {l}
          /\ \A n \in Monsters : x \in m_hSquadMember[n] => l = n
      BY DEF LinksInv, SquadsAreConsistent, IsLeader, Listed
    <3>2. x \in Monsters /\ l \in Monsters \cup {NULL}
      BY <2>3 DEF TypeOK
    <3>3. CASE x \in R \cup {m}
      <4>1. l = NULL /\ m_hSquadLeader'[x] = m /\ m_hSquadLeader'[m] = m
        BY <2>1, <2>2, <2>3, <3>2, <3>3
      <4>2. \A n \in Monsters : x \notin m_hSquadMember[n]
        BY <3>1, <4>1, SlotNumbers
      <4> QED BY <2>2, <3>2, <3>3, <4>1, <4>2
    <3>4. CASE x \notin R \cup {m}
      <4>1. m_hSquadLeader'[x] = l
        BY <2>2, <3>2, <3>4
      <4>2. \A n \in Monsters : x \in m_hSquadMember'[n] => l = n
        BY <2>2, <3>1, <3>4
      <4>3. l \notin killed \cup {NULL} => l \notin R \cup {m}
        BY <2>1, <2>3, <3>1
      <4> QED BY <2>2, <3>1, <3>2, <4>1, <4>2, <4>3
    <3> QED BY <3>3, <3>4
  <2> QED BY <2>4, <2>5, <2>6 DEF LinksInv
<1> QED BY <1>2, <1>3 DEF StartMonster, SquadRecruit

(* A monster's squad, when he is killed: l is his leader.                  *)
LEMMA KilledLinks == ASSUME TypeOK, LinksInv, NEW m \in Monsters, Killed(m) PROVE LinksInv'
<1>1. edicts' = edicts /\ killed' = killed \cup {m} /\ m \in edicts
  BY DEF Killed
<1>2. CASE ~InSquad(m)
  <2>1. UNCHANGED <<m_hSquadLeader, m_hSquadMember>>
    BY <1>2 DEF Killed, links
  <2> QED BY <1>1, <2>1 DEF LinksInv, Linked, LeadersLead, SquadsAreConsistent, IsLeader, Listed
<1>3. CASE InSquad(m)
  <2> DEFINE l == m_hSquadLeader[m]
             ll == MySquadLeader(l)
  <2>1. l \in Monsters /\ l = MySquadLeader(m) /\ SquadRemove(l, m) /\ l # NULL
    BY <1>3, LeaderType DEF Killed, InSquad
  <2>2. ll \in Monsters /\ (m_hSquadLeader[l] # NULL => ll = m_hSquadLeader[l])
                        /\ (m_hSquadLeader[l] = NULL => ll = l)
    BY <2>1, LeaderType DEF MySquadLeader, InSquad
  <2>3. LeadersLead /\ SquadsAreConsistent /\ Linked
    BY DEF LinksInv
  <2>4. \A x \in Monsters : m_hSquadLeader[x] \notin killed \cup {NULL} =>
                              m_hSquadLeader[m_hSquadLeader[x]] = m_hSquadLeader[x]
    BY <2>3 DEF LeadersLead, IsLeader
  <2>5. \A x \in edicts \ killed :
          /\ m_hSquadLeader[x] \notin killed \cup {NULL} =>
               x \in m_hSquadMember[m_hSquadLeader[x]] \cup {m_hSquadLeader[x]}
          /\ \A n \in Monsters : x \in m_hSquadMember[n] => m_hSquadLeader[x] = n
    BY <2>3 DEF SquadsAreConsistent, Listed
  <2>6. \A x \in Monsters : /\ m_hSquadLeader[x] \in edicts \cup {NULL}
                            /\ m_hSquadMember[x] \subseteq edicts
                            /\ x \notin edicts => m_hSquadLeader[x] = NULL
    BY <2>3 DEF Linked
  <2>7. edicts \subseteq Monsters
    BY DEF TypeOK
  <2> SUFFICES ASSUME TRUE
               PROVE  /\ \A x \in Monsters :
                           /\ m_hSquadLeader'[x] \in edicts \cup {NULL} /\ m_hSquadMember'[x] \subseteq edicts
                           /\ x \notin edicts => m_hSquadLeader'[x] = NULL
                           /\ m_hSquadLeader'[x] \notin killed \cup {m, NULL} =>
                                m_hSquadLeader'[m_hSquadLeader'[x]] = m_hSquadLeader'[x]
                      /\ \A x \in edicts \ (killed \cup {m}) :
                           /\ m_hSquadLeader'[x] \notin killed \cup {m, NULL} =>
                                x \in m_hSquadMember'[m_hSquadLeader'[x]] \cup {m_hSquadLeader'[x]}
                           /\ \A n \in Monsters : x \in m_hSquadMember'[n] => m_hSquadLeader'[x] = n
    BY <1>1, <2>7 DEF LinksInv, Linked, LeadersLead, SquadsAreConsistent, IsLeader, Listed
  <2>8. CASE m = ll
    <3>1. /\ \A x \in Monsters : m_hSquadLeader'[x] = IF x \in m_hSquadMember[l] \cup {m} THEN NULL
                                                      ELSE m_hSquadLeader[x]
          /\ \A x \in Monsters : m_hSquadMember'[x] = IF x = l THEN {} ELSE m_hSquadMember[x]
      BY <2>1, <2>8 DEF SquadRemove, TypeOK
    <3>2. m_hSquadLeader[l] = m
      BY <1>3, <2>2, <2>8 DEF InSquad
    <3>3. ASSUME NEW y \in edicts \ (killed \cup {m}), y \in m_hSquadMember[l] \cup {m}
          PROVE  m_hSquadLeader[y] # y
      <4>1. m_hSquadLeader[y] = l
        BY <2>1, <2>5, <3>3
      <4> QED BY <3>2, <3>3, <4>1
    <3>4. ASSUME NEW x \in Monsters, m_hSquadLeader'[x] \notin killed \cup {m, NULL}
          PROVE  /\ m_hSquadLeader'[x] = m_hSquadLeader[x]
                 /\ m_hSquadLeader'[m_hSquadLeader[x]] = m_hSquadLeader[x]
                 /\ m_hSquadLeader[m_hSquadLeader[x]] = m_hSquadLeader[x]
      <4> DEFINE lx == m_hSquadLeader[x]
      <4>1. m_hSquadLeader'[x] = lx /\ lx \in edicts /\ lx \notin killed \cup {m, NULL}
        BY <2>6, <3>1, <3>4
      <4>2. m_hSquadLeader[lx] = lx
        BY <2>4, <4>1
      <4>3. lx \notin m_hSquadMember[l] \cup {m}
        BY <3>3, <4>1, <4>2
      <4> QED BY <2>7, <3>1, <4>1, <4>2, <4>3
    <3>5. ASSUME NEW x \in edicts \ (killed \cup {m})
          PROVE  /\ m_hSquadLeader'[x] \notin killed \cup {m, NULL} =>
                      x \in m_hSquadMember'[m_hSquadLeader'[x]] \cup {m_hSquadLeader'[x]}
                 /\ \A n \in Monsters : x \in m_hSquadMember'[n] => m_hSquadLeader'[x] = n
      <4>1. ASSUME m_hSquadLeader'[x] \notin killed \cup {m, NULL}
            PROVE  x \in m_hSquadMember'[m_hSquadLeader'[x]] \cup {m_hSquadLeader'[x]}
        <5>1. m_hSquadLeader'[x] = m_hSquadLeader[x] /\ m_hSquadLeader[m_hSquadLeader[x]] = m_hSquadLeader[x]
          BY <2>7, <3>4, <4>1
        <5>2. m_hSquadLeader[x] # l
          BY <3>2, <4>1, <5>1
        <5>3. m_hSquadLeader[x] \in Monsters
          BY <2>6, <2>7, <4>1, <5>1
        <5> QED BY <2>5, <3>1, <4>1, <5>1, <5>2, <5>3
      <4>2. ASSUME NEW n \in Monsters, x \in m_hSquadMember'[n] PROVE m_hSquadLeader'[x] = n
        <5>1. n # l /\ m_hSquadLeader[x] = n
          BY <2>5, <3>1, <4>2
        <5>2. x \notin m_hSquadMember[l] \cup {m}
          BY <2>1, <2>5, <5>1
        <5> QED BY <2>7, <3>1, <5>1, <5>2
      <4> QED BY <4>1, <4>2
    <3>6. \A x \in Monsters : /\ m_hSquadLeader'[x] \in edicts \cup {NULL} /\ m_hSquadMember'[x] \subseteq edicts
                              /\ x \notin edicts => m_hSquadLeader'[x] = NULL
      BY <2>6, <3>1
    <3> QED BY <3>4, <3>5, <3>6
  <2>9. CASE m # ll
    <3>1. /\ \A x \in Monsters : m_hSquadLeader'[x] = IF x = m THEN NULL ELSE m_hSquadLeader[x]
          /\ \A x \in Monsters : m_hSquadMember'[x] = IF x = ll THEN m_hSquadMember[x] \ {l}
                                                               ELSE m_hSquadMember[x]
      BY <2>1, <2>2, <2>9 DEF SquadRemove, TypeOK
    <3>2. ASSUME NEW x \in Monsters, m_hSquadLeader'[x] \notin killed \cup {m, NULL}
          PROVE  /\ m_hSquadLeader'[x] = m_hSquadLeader[x]
                 /\ m_hSquadLeader[m_hSquadLeader[x]] = m_hSquadLeader[x]
                 /\ m_hSquadLeader'[m_hSquadLeader[x]] = m_hSquadLeader[x]
      BY <2>4, <2>6, <2>7, <3>1, <3>2
    <3>3. ASSUME NEW x \in edicts \ (killed \cup {m}), m_hSquadLeader'[x] \notin killed \cup {m, NULL}
          PROVE  x \in m_hSquadMember'[m_hSquadLeader'[x]] \cup {m_hSquadLeader'[x]}
      <4>1. m_hSquadLeader'[x] = m_hSquadLeader[x] /\ m_hSquadLeader[x] \in Monsters
        BY <2>6, <2>7, <3>2, <3>3
      <4>2. x \in m_hSquadMember[m_hSquadLeader[x]] \cup {m_hSquadLeader[x]}
        BY <2>5, <3>3, <4>1
      <4>3. CASE x # l
        BY <3>1, <4>1, <4>2, <4>3
      <4>4. CASE x = l
        <5>1. m_hSquadLeader[x] = x
          BY <2>1, <2>4, <3>3, <4>4
        <5> QED BY <4>1, <5>1
      <4> QED BY <4>3, <4>4
    <3>4. ASSUME NEW x \in edicts \ (killed \cup {m}), NEW n \in Monsters, x \in m_hSquadMember'[n]
          PROVE  m_hSquadLeader'[x] = n
      BY <2>5, <2>7, <3>1, <3>4
    <3>5. \A x \in Monsters : /\ m_hSquadLeader'[x] \in edicts \cup {NULL} /\ m_hSquadMember'[x] \subseteq edicts
                              /\ x \notin edicts => m_hSquadLeader'[x] = NULL
      BY <2>6, <3>1
    <3> QED BY <3>2, <3>3, <3>4, <3>5
  <2> QED BY <2>8, <2>9
<1> QED BY <1>2, <1>3

LEMMA RemoveLinks == ASSUME TypeOK, LinksInv, NEW m \in Monsters, Remove(m) PROVE LinksInv'
<1>1. edicts' = edicts \ {m} /\ killed' = killed \ {m}
  BY DEF Remove
<1>2. /\ \A x \in Monsters : m_hSquadLeader'[x] = IF x = m \/ m_hSquadLeader[x] = m THEN NULL
                                                  ELSE m_hSquadLeader[x]
      /\ \A x \in Monsters : m_hSquadMember'[x] = IF x = m THEN {} ELSE m_hSquadMember[x] \ {m}
  BY DEF Remove
<1>3. edicts \subseteq Monsters
  BY DEF TypeOK
<1>4. Linked'
  BY <1>1, <1>2 DEF LinksInv, Linked
<1>5. LeadersLead'
  BY <1>1, <1>2, <1>3 DEF LinksInv, Linked, LeadersLead, IsLeader
<1>6. SquadsAreConsistent'
  <2> SUFFICES ASSUME NEW x \in edicts \ killed, x # m
               PROVE  /\ m_hSquadLeader'[x] \notin killed' \cup {NULL} =>
                           /\ m_hSquadLeader'[m_hSquadLeader'[x]] = m_hSquadLeader'[x]
                           /\ x \in m_hSquadMember'[m_hSquadLeader'[x]] \cup {m_hSquadLeader'[x]}
                      /\ \A n \in Monsters : x \in m_hSquadMember'[n] => m_hSquadLeader'[x] = n
    BY <1>1 DEF SquadsAreConsistent, IsLeader, Listed
  <2> DEFINE l == m_hSquadLeader[x]
  <2>1. /\ l \notin killed \cup {NULL} => m_hSquadLeader[l] = l /\ x \in m_hSquadMember[l] \cup {l}
        /\ \A n \in Monsters : x \in m_hSquadMember[n] => l = n
    BY DEF LinksInv, SquadsAreConsistent, IsLeader, Listed
  <2>2. x \in Monsters /\ l \in Monsters \cup {NULL}
    BY <1>3 DEF TypeOK
  <2>3. CASE l = m
    <3>1. m_hSquadLeader'[x] = NULL
      BY <1>2, <2>2, <2>3
    <3>2. \A n \in Monsters : x \in m_hSquadMember'[n] => n # m /\ x \in m_hSquadMember[n]
      BY <1>2
    <3> QED BY <2>1, <2>3, <3>1, <3>2
  <2>4. CASE l # m
    <3>1. m_hSquadLeader'[x] = l
      BY <1>2, <2>2, <2>4
    <3>2. l \notin killed' \cup {NULL} => l \in Monsters /\ l \notin killed \cup {NULL}
      BY <1>1, <2>2, <2>4
    <3> QED BY <1>2, <2>1, <2>4, <3>1, <3>2
  <2> QED BY <2>3, <2>4
<1> QED BY <1>4, <1>5, <1>6 DEF LinksInv

LEMMA SpawnLinks == ASSUME TypeOK, LinksInv, NEW m \in Monsters, Spawn(m) PROVE LinksInv'
<1>1. /\ edicts' = edicts \cup {m} /\ UNCHANGED <<killed, m_hSquadLeader, m_hSquadMember>>
      /\ m \notin edicts /\ edicts \subseteq Monsters
  BY DEF Spawn, links, TypeOK
<1>2. Linked'
  BY <1>1 DEF LinksInv, Linked
<1>3. LeadersLead'
  BY <1>1 DEF LinksInv, LeadersLead, IsLeader
<1>4. SquadsAreConsistent'
  BY <1>1 DEF LinksInv, Linked, SquadsAreConsistent, IsLeader, Listed
<1> QED BY <1>2, <1>3, <1>4 DEF LinksInv

LEMMA LinksStep == TypeOK /\ LinksInv /\ [Next]_vars => LinksInv'
<1> SUFFICES ASSUME TypeOK, LinksInv, [Next]_vars PROVE LinksInv'
  OBVIOUS
<1>1. CASE UNCHANGED <<edicts, killed, m_hSquadLeader, m_hSquadMember>>
  BY <1>1, LinksKept
<1> QED BY <1>1, StartLinks, KilledLinks, RemoveLinks, SpawnLinks
        DEF Next, Die, SetSchedule, GetEnemy, MaintainSchedule, EnemyGone, Restore, vars, life, links

-----------------------------------------------------------------------------
(* Slots taken and held: the two states of SlotsAreHeld, member by member. *)

LEMMA HeldNow ==
  ASSUME SlotsAreHeld, NEW l \in Monsters, l \notin spoilt, IsLeader(l), NEW s \in Slots
  PROVE  /\ s \in m_afSquadSlots[l] =>
              \E x \in Monsters : m_hSquadLeader[x] = l /\ s \in m_iMySlot[x]
         /\ \A x \in Monsters : m_hSquadLeader[x] = l /\ s \in m_iMySlot[x] =>
              /\ s \in m_afSquadSlots[l]
              /\ \A n \in Monsters : m_hSquadLeader[n] = l /\ s \in m_iMySlot[n] => n = x
BY DEF SlotsAreHeld

LEMMA HeldNext ==
  ASSUME ASSUME NEW l \in Monsters, l \notin spoilt', m_hSquadLeader'[l] = l, NEW s \in Slots
         PROVE  /\ s \in m_afSquadSlots'[l] =>
                     \E x \in Monsters : m_hSquadLeader'[x] = l /\ s \in m_iMySlot'[x]
                /\ \A x \in Monsters : m_hSquadLeader'[x] = l /\ s \in m_iMySlot'[x] =>
                     /\ s \in m_afSquadSlots'[l]
                     /\ \A n \in Monsters : m_hSquadLeader'[n] = l /\ s \in m_iMySlot'[n] => n = x
  PROVE  SlotsAreHeld'
BY DEF SlotsAreHeld, IsLeader, Slots

(* What the others of a squad hold is taken, and nothing else, once m has  *)
(* vacated his slot.                                                       *)
LEMMA HeldByOthers ==
  ASSUME TypeOK, SlotsAreHeld, NEW m \in Monsters,
         NEW l \in Monsters, l \notin spoilt, IsLeader(l), NEW s \in Slots
  PROVE  /\ s \in Vacated(m)[l] =>
              \E x \in Monsters \ {m} : m_hSquadLeader[x] = l /\ s \in m_iMySlot[x]
         /\ \A x \in Monsters \ {m} : m_hSquadLeader[x] = l /\ s \in m_iMySlot[x] =>
              /\ s \in Vacated(m)[l]
              /\ \A n \in Monsters : m_hSquadLeader[n] = l /\ s \in m_iMySlot[n] => n = x
<1>1. m_afSquadSlots \in [Monsters -> SUBSET Slots] /\ l # NULL
  BY SlotNumbers DEF TypeOK
<1>2. CASE InSquad(m) /\ m_hSquadLeader[m] = l
  <2>1. Vacated(m)[l] = m_afSquadSlots[l] \ m_iMySlot[m]
    BY <1>1, <1>2, VacatedType
  <2> QED BY <1>2, <2>1, HeldNow
<1>3. CASE ~(InSquad(m) /\ m_hSquadLeader[m] = l)
  <2>1. Vacated(m)[l] = m_afSquadSlots[l]
    BY <1>1, <1>3, VacatedType, LeaderType
  <2>2. m_hSquadLeader[m] # l
    BY <1>1, <1>3 DEF InSquad
  <2> QED BY <2>1, <2>2, HeldNow
<1> QED BY <1>2, <1>3

LEMMA SlotsKept ==
  ASSUME SlotsInv, UNCHANGED <<unborn, waiting, killed, m_hSquadLeader, bits, spoilt>>
  PROVE  SlotsInv'
BY DEF SlotsInv, Fresh, SlotsAreHeld, CorpsesHoldNone, IsLeader, InSquad, bits, Slots, bits_NO_SLOT

LEMMA VacatedFresh ==
  ASSUME TypeOK, Fresh, NEW m \in Monsters,
         unborn' = unborn, waiting' \subseteq waiting
  PROVE  /\ \A l \in waiting \cup unborn :
              /\ Vacated(m)[l] = bits_NO_SLOT
              /\ l = m => Mine(m) = bits_NO_SLOT
         /\ /\ m_hSquadLeader' = m_hSquadLeader /\ m_afSquadSlots' = Vacated(m)
            /\ \A x \in Monsters : m_iMySlot'[x] = IF x = m THEN Mine(m) ELSE m_iMySlot[x]
            => Fresh'
<1>1. \A l \in waiting \cup unborn : l \in Monsters
  BY DEF TypeOK
<1>2. ASSUME NEW l \in waiting \cup unborn
      PROVE  Vacated(m)[l] = bits_NO_SLOT /\ (l = m => Mine(m) = bits_NO_SLOT)
  BY <1>1, <1>2, VacatedType DEF Fresh, TypeOK, bits_NO_SLOT
<1> QED BY <1>1, <1>2 DEF Fresh, bits_NO_SLOT

LEMMA StartSlots ==
  ASSUME TypeOK, SlotsInv, NEW m \in Monsters, StartMonster(m)
  PROVE  SlotsInv'
<1>1. /\ UNCHANGED <<unborn, killed, m_afSquadSlots, m_iMySlot>> /\ waiting' = waiting \ {m}
      /\ m \in waiting /\ m \notin unborn
  BY DEF StartMonster, bits, TypeOK
<1>2. CASE UNCHANGED <<links, spoilt>>
  <2>1. Fresh'
    BY <1>1, <1>2 DEF SlotsInv, Fresh, links, bits_NO_SLOT
  <2> QED BY <1>1, <1>2, <2>1
          DEF SlotsInv, SlotsAreHeld, CorpsesHoldNone, IsLeader, InSquad, links, Slots
<1>3. ASSUME ~InSquad(m), NEW R \in Recruits(m), SquadRecruit(m, R), R # {} PROVE SlotsInv'
  <2>1. R \subseteq Monsters \ {m} /\ \A x \in R : m_hSquadLeader[x] = NULL
    BY RecruitsFree DEF InSquad, TypeOK
  <2>2. /\ \A x \in Monsters : m_hSquadLeader'[x] = IF x \in R \cup {m} THEN m ELSE m_hSquadLeader[x]
        /\ spoilt' = spoilt \cup {l \in {m} : \E x \in R : m_iMySlot[x] \cap Slots # {}}
    BY <1>3 DEF SquadRecruit, TypeOK
  <2>3. /\ m_afSquadSlots[m] = {} /\ m_iMySlot[m] = {} /\ m # NULL /\ NULL \notin Monsters
        /\ \A x \in Monsters : m_hSquadLeader[x] # m
    BY <1>1, SlotNumbers DEF SlotsInv, Fresh, bits_NO_SLOT
  <2>4. Fresh'
    BY <1>1, <2>2 DEF SlotsInv, Fresh, bits_NO_SLOT
  <2>5. m \notin spoilt' => \A x \in R \cup {m} : m_iMySlot[x] \cap Slots = {}
    BY <2>2, <2>3
  <2>6. SlotsAreHeld'
    <3>1. ASSUME NEW l \in Monsters, l \notin spoilt', m_hSquadLeader'[l] = l, NEW s \in Slots
          PROVE  /\ s \in m_afSquadSlots'[l] =>
                      \E x \in Monsters : m_hSquadLeader'[x] = l /\ s \in m_iMySlot'[x]
                 /\ \A x \in Monsters : m_hSquadLeader'[x] = l /\ s \in m_iMySlot'[x] =>
                      /\ s \in m_afSquadSlots'[l]
                      /\ \A n \in Monsters : m_hSquadLeader'[n] = l /\ s \in m_iMySlot'[n] => n = x
      <4>1. CASE l = m
        BY <1>1, <2>2, <2>3, <2>5, <3>1, <4>1
      <4>2. CASE l # m
        <5>1. \A x \in Monsters : m_hSquadLeader'[x] = l <=> m_hSquadLeader[x] = l
          BY <1>3, <2>1, <2>2, <2>3, <4>2 DEF InSquad
        <5>2. IsLeader(l) /\ l \notin spoilt
          BY <2>2, <3>1, <5>1 DEF IsLeader
        <5> QED BY <1>1, <5>1, <5>2, HeldNow DEF SlotsInv
      <4> QED BY <4>1, <4>2
    <3> QED BY <3>1, HeldNext
  <2>7. CorpsesHoldNone'
    <3> SUFFICES ASSUME NEW x \in killed, m_hSquadLeader'[x] # NULL,
                        m_hSquadLeader'[m_hSquadLeader'[x]] = m_hSquadLeader'[x],
                        m_hSquadLeader'[x] \notin spoilt'
                 PROVE  m_iMySlot[x] \cap Slots = {}
      BY <1>1 DEF CorpsesHoldNone, InSquad, IsLeader, Slots
    <3>1. x \in Monsters
      BY DEF TypeOK
    <3>2. CASE x \in R \cup {m}
      BY <2>2, <2>5, <3>1, <3>2
    <3>3. CASE x \notin R \cup {m}
      <4>1. m_hSquadLeader'[x] = m_hSquadLeader[x] /\ m_hSquadLeader[x] \in Monsters \ {m}
        BY <2>2, <2>3, <3>1, <3>3 DEF TypeOK
      <4>2. m_hSquadLeader[m_hSquadLeader[x]] = m_hSquadLeader[x]
        BY <2>2, <4>1
      <4> QED BY <2>2, <4>1, <4>2 DEF SlotsInv, CorpsesHoldNone, InSquad, IsLeader
    <3> QED BY <3>2, <3>3
  <2> QED BY <2>4, <2>6, <2>7 DEF SlotsInv
<1> QED BY <1>2, <1>3 DEF StartMonster, SquadRecruit

LEMMA DieSlots == ASSUME TypeOK, SlotsInv, NEW m \in Monsters, Die(m) PROVE SlotsInv'
<1>1. /\ UNCHANGED <<unborn, waiting, killed, m_hSquadLeader, spoilt>> /\ m_afSquadSlots' = Vacated(m)
      /\ \A x \in Monsters : m_iMySlot'[x] = IF x = m THEN Mine(m) ELSE m_iMySlot[x]
  BY DEF Die, links, TypeOK
<1>2. Fresh'
  BY <1>1, VacatedFresh DEF SlotsInv
<1>3. SlotsAreHeld'
  <2>1. ASSUME NEW l \in Monsters, l \notin spoilt', m_hSquadLeader'[l] = l, NEW s \in Slots
        PROVE  /\ s \in m_afSquadSlots'[l] =>
                    \E x \in Monsters : m_hSquadLeader'[x] = l /\ s \in m_iMySlot'[x]
               /\ \A x \in Monsters : m_hSquadLeader'[x] = l /\ s \in m_iMySlot'[x] =>
                    /\ s \in m_afSquadSlots'[l]
                    /\ \A n \in Monsters : m_hSquadLeader'[n] = l /\ s \in m_iMySlot'[n] => n = x
    <3>1. l \notin spoilt /\ IsLeader(l)
      BY <1>1, <2>1 DEF IsLeader
    <3>2. m_hSquadLeader[m] = l => m_iMySlot'[m] = {}
      BY <1>1, <2>1, VacatedType, SlotNumbers DEF InSquad, bits_NO_SLOT
    <3> QED BY <1>1, <3>1, <3>2, HeldByOthers DEF SlotsInv
  <2> QED BY <2>1, HeldNext
<1>4. CorpsesHoldNone'
  <2>1. ASSUME NEW x \in killed, InSquad(x) PROVE m_iMySlot'[x] = m_iMySlot[x] \/ m_iMySlot'[x] = {}
    BY <1>1, <2>1, VacatedType DEF TypeOK, bits_NO_SLOT
  <2> QED BY <1>1, <2>1 DEF SlotsInv, CorpsesHoldNone, InSquad, IsLeader, Slots
<1> QED BY <1>2, <1>3, <1>4 DEF SlotsInv

(* Whoever is killed has vacated his slot, and so has nobody else of those *)
(* that his squad then forgets, unless the squad is no more.               *)
LEMMA KilledSlots ==
  ASSUME TypeOK, LinksInv, SlotsInv, NEW m \in Monsters, Killed(m)
  PROVE  SlotsInv'
<1>1. /\ UNCHANGED <<unborn, spoilt>> /\ killed' = killed \cup {m} /\ m \in edicts
      /\ waiting' \subseteq waiting
      /\ m_afSquadSlots' = Vacated(m)
      /\ \A x \in Monsters : m_iMySlot'[x] = IF x = m THEN Mine(m) ELSE m_iMySlot[x]
  BY DEF Killed, TypeOK
<1>2. /\ m_hSquadLeader'[m] = NULL /\ NULL \notin Monsters
      /\ \A x \in Monsters : m_hSquadLeader'[x] \in {NULL, m_hSquadLeader[x]}
  <2>1. CASE ~InSquad(m)
    BY <2>1, SlotNumbers DEF Killed, links, InSquad
  <2>2. CASE InSquad(m)
    BY <2>2, SlotNumbers, LeaderType DEF Killed, SquadRemove, TypeOK
  <2> QED BY <2>1, <2>2
<1>3. ASSUME NEW l \in Monsters, l \notin spoilt, m_hSquadLeader'[l] = l,
             NEW x \in Monsters \ {m}, m_hSquadLeader[x] = l, m_iMySlot[x] \cap Slots # {}
      PROVE  m_hSquadLeader'[x] = l
  <2>1. m_hSquadLeader[l] = l /\ l # m /\ l # NULL
    BY <1>2, <1>3
  <2>2. x \notin killed /\ x \in edicts
    BY <1>2, <1>3, <2>1 DEF SlotsInv, CorpsesHoldNone, InSquad, IsLeader, LinksInv, Linked
  <2>3. \A n \in Monsters : x \in m_hSquadMember[n] => n = l
    BY <1>3, <2>2 DEF LinksInv, SquadsAreConsistent
  <2>4. CASE ~InSquad(m)
    BY <1>3, <2>4 DEF Killed, links
  <2>5. CASE InSquad(m)
    <3> DEFINE k == m_hSquadLeader[m]
    <3>1. k \in Monsters /\ SquadRemove(k, m)
      BY <2>5, LeaderType DEF Killed
    <3>2. CASE m = MySquadLeader(k)
      <4>1. m_hSquadLeader'[x] = IF x \in m_hSquadMember[k] \cup {m} THEN NULL ELSE m_hSquadLeader[x]
        BY <3>1, <3>2 DEF SquadRemove
      <4>2. k # l
        BY <2>1, <3>2 DEF MySquadLeader, InSquad
      <4> QED BY <1>3, <2>3, <3>1, <4>1, <4>2
    <3>3. CASE m # MySquadLeader(k)
      BY <1>3, <3>1, <3>3 DEF SquadRemove, TypeOK
    <3> QED BY <3>2, <3>3
  <2> QED BY <2>4, <2>5
<1>4. Fresh'
  <2>1. \A l \in waiting \cup unborn : l \in Monsters
    BY DEF TypeOK
  <2>2. \A l \in waiting \cup unborn : /\ Vacated(m)[l] = bits_NO_SLOT /\ m_iMySlot'[l] = bits_NO_SLOT
    <3>1. \A l \in waiting \cup unborn :
            Vacated(m)[l] = bits_NO_SLOT /\ (l = m => Mine(m) = bits_NO_SLOT)
      BY <1>1, VacatedFresh DEF SlotsInv
    <3>2. \A l \in waiting \cup unborn : m_iMySlot[l] = bits_NO_SLOT
      BY DEF SlotsInv, Fresh
    <3> QED BY <1>1, <2>1, <3>1, <3>2
  <2> QED BY <1>1, <1>2, <2>1, <2>2 DEF SlotsInv, Fresh, bits_NO_SLOT
<1>5. SlotsAreHeld'
  <2>1. ASSUME NEW l \in Monsters, l \notin spoilt', m_hSquadLeader'[l] = l, NEW s \in Slots
        PROVE  /\ s \in m_afSquadSlots'[l] =>
                    \E x \in Monsters : m_hSquadLeader'[x] = l /\ s \in m_iMySlot'[x]
               /\ \A x \in Monsters : m_hSquadLeader'[x] = l /\ s \in m_iMySlot'[x] =>
                    /\ s \in m_afSquadSlots'[l]
                    /\ \A n \in Monsters : m_hSquadLeader'[n] = l /\ s \in m_iMySlot'[n] => n = x
    <3>1. l \notin spoilt /\ IsLeader(l)
      BY <1>1, <1>2, <2>1 DEF IsLeader
    <3>2. \A x \in Monsters : m_hSquadLeader'[x] = l => x # m /\ m_hSquadLeader[x] = l
      BY <1>2, <2>1
    <3>3. \A x \in Monsters \ {m} : m_hSquadLeader[x] = l /\ s \in m_iMySlot[x] => m_hSquadLeader'[x] = l
      BY <1>3, <2>1, <3>1
    <3> QED BY <1>1, <3>1, <3>2, <3>3, HeldByOthers DEF SlotsInv
  <2> QED BY <2>1, HeldNext
<1>6. CorpsesHoldNone'
  <2> SUFFICES ASSUME NEW x \in killed \cup {m}, m_hSquadLeader'[x] # NULL,
                      m_hSquadLeader'[m_hSquadLeader'[x]] = m_hSquadLeader'[x],
                      m_hSquadLeader'[x] \notin spoilt
               PROVE  m_iMySlot'[x] \cap Slots = {}
    BY <1>1 DEF CorpsesHoldNone, InSquad, IsLeader, Slots
  <2>1. x \in Monsters /\ x # m /\ m_hSquadLeader'[x] = m_hSquadLeader[x] /\ m_hSquadLeader[x] \in Monsters
    BY <1>2 DEF TypeOK
  <2>2. m_hSquadLeader[m_hSquadLeader[x]] = m_hSquadLeader[x]
    BY <1>2, <2>1
  <2> QED BY <1>1, <2>1, <2>2 DEF SlotsInv, CorpsesHoldNone, InSquad, IsLeader
<1> QED BY <1>4, <1>5, <1>6 DEF SlotsInv

(* The step of a schedule: m takes what is free, or nothing, after he has  *)
(* vacated his slot.                                                       *)
LEMMA ScheduleSlots ==
  ASSUME TypeOK, SlotsInv, NEW m \in Monsters, NEW wants \in Wants, NEW seeing,
         MaintainSchedule(m, seeing, wants)
  PROVE  SlotsInv'
<1>1. /\ UNCHANGED <<unborn, waiting, killed, m_hSquadLeader, spoilt>>
      /\ m \in edicts /\ m \notin waiting \cup killed \cup unborn
      /\ OccupySlot(m, wants, Vacated(m), Mine(m))
  BY DEF MaintainSchedule, Thinking, life, links, TypeOK
<1>2. Vacated(m) \in [Monsters -> SUBSET Slots] /\ m_iMySlot \in [Monsters -> MySlots] /\ NULL \notin Monsters
  BY VacatedType, SlotNumbers DEF TypeOK, MySlots
<1>3. InSquad(m) => m_hSquadLeader[m] \in Monsters /\ Mine(m) = {}
  BY LeaderType, VacatedType DEF bits_NO_SLOT
<1>4. bits_SLOT_SQUAD_SPLIT \cap Slots = {}
  BY SlotNumbers DEF bits_SLOT_SQUAD_SPLIT
<1>5. /\ \A x \in Monsters : x # m => m_iMySlot'[x] = m_iMySlot[x]
      /\ \A l \in Monsters : ~(InSquad(m) /\ l = m_hSquadLeader[m]) => m_afSquadSlots'[l] = Vacated(m)[l]
  BY <1>1, <1>2, Occupied
<1>6. InSquad(m) =>
        \/ m_afSquadSlots'[m_hSquadLeader[m]] = Vacated(m)[m_hSquadLeader[m]] /\ m_iMySlot'[m] \cap Slots = {}
        \/ \E s \in Slots : /\ s \notin Vacated(m)[m_hSquadLeader[m]] /\ m_iMySlot'[m] = {s}
                            /\ m_afSquadSlots'[m_hSquadLeader[m]] = Vacated(m)[m_hSquadLeader[m]] \cup {s}
  BY <1>1, <1>2, <1>3, <1>4, Occupied
<1>7. Fresh'
  <2>1. \A l \in waiting \cup unborn : l \in Monsters /\ l # m /\ m_hSquadLeader[m] # l
    BY <1>1 DEF SlotsInv, Fresh, TypeOK
  <2>2. \A l \in waiting \cup unborn : Vacated(m)[l] = bits_NO_SLOT
    BY <1>1, VacatedFresh DEF SlotsInv
  <2> QED BY <1>1, <1>5, <2>1, <2>2 DEF SlotsInv, Fresh, bits_NO_SLOT
<1>8. SlotsAreHeld'
  <2>1. ASSUME NEW l \in Monsters, l \notin spoilt', m_hSquadLeader'[l] = l, NEW s \in Slots
        PROVE  /\ s \in m_afSquadSlots'[l] =>
                    \E x \in Monsters : m_hSquadLeader'[x] = l /\ s \in m_iMySlot'[x]
               /\ \A x \in Monsters : m_hSquadLeader'[x] = l /\ s \in m_iMySlot'[x] =>
                    /\ s \in m_afSquadSlots'[l]
                    /\ \A n \in Monsters : m_hSquadLeader'[n] = l /\ s \in m_iMySlot'[n] => n = x
    <3>1. l \notin spoilt /\ IsLeader(l)
      BY <1>1, <2>1 DEF IsLeader
    <3> DEFINE Others == {x \in Monsters \ {m} : m_hSquadLeader[x] = l /\ s \in m_iMySlot[x]}
    <3>2. /\ s \in Vacated(m)[l] <=> Others # {}
          /\ \A x, n \in Others : n = x
      BY <3>1, HeldByOthers DEF SlotsInv
    <3>3. \A x \in Monsters \ {m} : (m_hSquadLeader'[x] = l /\ s \in m_iMySlot'[x]) <=> x \in Others
      BY <1>1, <1>5
    <3>4. CASE InSquad(m) /\ l = m_hSquadLeader[m]
      <4>1. CASE m_afSquadSlots'[l] = Vacated(m)[l] /\ m_iMySlot'[m] \cap Slots = {}
        <5>1. s \notin m_iMySlot'[m]
          BY <4>1
        <5> QED BY <3>2, <3>3, <4>1, <5>1
      <4>2. ASSUME NEW t \in Slots, t \notin Vacated(m)[l], m_iMySlot'[m] = {t},
                   m_afSquadSlots'[l] = Vacated(m)[l] \cup {t}
            PROVE  /\ s \in m_afSquadSlots'[l] =>
                        \E x \in Monsters : m_hSquadLeader'[x] = l /\ s \in m_iMySlot'[x]
                   /\ \A x \in Monsters : m_hSquadLeader'[x] = l /\ s \in m_iMySlot'[x] =>
                        /\ s \in m_afSquadSlots'[l]
                        /\ \A n \in Monsters : m_hSquadLeader'[n] = l /\ s \in m_iMySlot'[n] => n = x
        <5>1. m_hSquadLeader'[m] = l
          BY <1>1, <3>4
        <5>2. CASE s = t
          <6>1. Others = {}
            BY <3>2, <4>2, <5>2
          <6> QED BY <3>3, <4>2, <5>1, <5>2, <6>1
        <5>3. CASE s # t
          BY <3>2, <3>3, <4>2, <5>3
        <5> QED BY <5>2, <5>3
      <4> QED BY <1>6, <3>4, <4>1, <4>2
    <3>5. CASE ~(InSquad(m) /\ l = m_hSquadLeader[m])
      <4>1. m_hSquadLeader'[m] # l /\ m_afSquadSlots'[l] = Vacated(m)[l]
        BY <1>1, <1>2, <1>5, <3>5 DEF InSquad
      <4> QED BY <3>2, <3>3, <4>1
    <3> QED BY <3>4, <3>5
  <2> QED BY <2>1, HeldNext
<1>9. CorpsesHoldNone'
  <2>1. \A x \in killed : x \in Monsters /\ x # m
    BY <1>1 DEF TypeOK
  <2> QED BY <1>1, <1>5, <2>1 DEF SlotsInv, CorpsesHoldNone, InSquad, IsLeader, Slots
<1> QED BY <1>7, <1>8, <1>9 DEF SlotsInv

(* TASK_SET_SCHEDULE: only the squad of one who changes his slot is spoilt. *)
LEMMA SetScheduleSlots == ASSUME TypeOK, SlotsInv, NEW m \in Monsters, SetSchedule(m) PROVE SlotsInv'
<1>1. /\ UNCHANGED <<unborn, waiting, killed, m_hSquadLeader>> /\ InSquad(m)
      /\ m \in edicts /\ m \notin waiting \cup killed \cup unborn
      /\ OccupySlot(m, <<Grenade>>, m_afSquadSlots, m_iMySlot[m]) /\ <<Grenade>> \in Wants
  BY DEF SetSchedule, Thinking, life, links, TypeOK, Wants
<1>2. /\ m_afSquadSlots \in [Monsters -> SUBSET Slots] /\ NULL \notin Monsters
      /\ m_hSquadLeader[m] \in Monsters /\ MySquadLeader(m) = m_hSquadLeader[m]
  BY <1>1, LeaderType, SlotNumbers DEF TypeOK
<1>3. bits_SLOT_SQUAD_SPLIT \cap Slots = {}
  BY SlotNumbers DEF bits_SLOT_SQUAD_SPLIT
<1>4. /\ \A x \in Monsters : x # m => m_iMySlot'[x] = m_iMySlot[x]
      /\ \A l \in Monsters : l # m_hSquadLeader[m] => m_afSquadSlots'[l] = m_afSquadSlots[l]
  <2>1. m_iMySlot \in [Monsters -> MySlots]
    BY DEF TypeOK, MySlots
  <2> QED BY <1>1, <1>2, <2>1, Occupied
<1>5. \/ m_afSquadSlots' = m_afSquadSlots /\ m_iMySlot'[m] = m_iMySlot[m]
      \/ m_afSquadSlots' = m_afSquadSlots /\ m_iMySlot'[m] \cap Slots = {}
      \/ \E s \in Slots : /\ s \notin m_afSquadSlots[m_hSquadLeader[m]] /\ m_iMySlot'[m] = {s}
                          /\ m_afSquadSlots'[m_hSquadLeader[m]] = m_afSquadSlots[m_hSquadLeader[m]] \cup {s}
  <2>1. m_iMySlot \in [Monsters -> MySlots]
    BY DEF TypeOK, MySlots
  <2> QED BY <1>1, <1>2, <1>3, <2>1, Occupied
<1>6. /\ spoilt \subseteq spoilt'
      /\ m_hSquadLeader[m] \notin spoilt' /\ m_iMySlot'[m] # m_iMySlot[m] => m_iMySlot[m] \cap Slots = {}
  BY <1>1, <1>2 DEF SetSchedule, Holds
<1>7. Fresh'
  <2>1. \A l \in waiting \cup unborn : l \in Monsters /\ l # m /\ m_hSquadLeader[m] # l
    BY <1>1 DEF SlotsInv, Fresh, TypeOK
  <2> QED BY <1>1, <1>4, <2>1 DEF SlotsInv, Fresh, bits_NO_SLOT
<1>8. SlotsAreHeld'
  <2>1. ASSUME NEW l \in Monsters, l \notin spoilt', m_hSquadLeader'[l] = l, NEW s \in Slots
        PROVE  /\ s \in m_afSquadSlots'[l] =>
                    \E x \in Monsters : m_hSquadLeader'[x] = l /\ s \in m_iMySlot'[x]
               /\ \A x \in Monsters : m_hSquadLeader'[x] = l /\ s \in m_iMySlot'[x] =>
                    /\ s \in m_afSquadSlots'[l]
                    /\ \A n \in Monsters : m_hSquadLeader'[n] = l /\ s \in m_iMySlot'[n] => n = x
    <3> DEFINE Holding == {x \in Monsters : m_hSquadLeader[x] = l /\ s \in m_iMySlot[x]}
    <3>1. /\ s \in m_afSquadSlots[l] <=> Holding # {}
          /\ \A x, n \in Holding : n = x
      BY <1>1, <1>6, <2>1, HeldNow DEF SlotsInv, IsLeader
    <3>2. \A x \in Monsters \ {m} : (m_hSquadLeader'[x] = l /\ s \in m_iMySlot'[x]) <=> x \in Holding
      BY <1>1, <1>4
    <3>3. CASE m_hSquadLeader[m] # l
      BY <1>1, <1>4, <3>1, <3>2, <3>3
    <3>4. CASE m_hSquadLeader[m] = l /\ m_iMySlot'[m] = m_iMySlot[m] /\ m_afSquadSlots' = m_afSquadSlots
      BY <1>1, <3>1, <3>2, <3>4
    <3>5. CASE /\ m_hSquadLeader[m] = l /\ m_iMySlot'[m] # m_iMySlot[m]
               /\ m_afSquadSlots' = m_afSquadSlots /\ m_iMySlot'[m] \cap Slots = {}
      <4>1. m \notin Holding /\ s \notin m_iMySlot'[m]
        BY <1>6, <2>1, <3>5
      <4> QED BY <3>1, <3>2, <3>5, <4>1
    <3>6. ASSUME m_hSquadLeader[m] = l, NEW t \in Slots, t \notin m_afSquadSlots[l], m_iMySlot'[m] = {t},
                 m_afSquadSlots'[l] = m_afSquadSlots[l] \cup {t}
          PROVE  /\ s \in m_afSquadSlots'[l] =>
                      \E x \in Monsters : m_hSquadLeader'[x] = l /\ s \in m_iMySlot'[x]
                 /\ \A x \in Monsters : m_hSquadLeader'[x] = l /\ s \in m_iMySlot'[x] =>
                      /\ s \in m_afSquadSlots'[l]
                      /\ \A n \in Monsters : m_hSquadLeader'[n] = l /\ s \in m_iMySlot'[n] => n = x
      <4>1. m \notin Holding
        <5>1. CASE m_iMySlot'[m] = m_iMySlot[m]
          <6>1. s = t => s \notin m_afSquadSlots[l]
            BY <3>6
          <6> QED BY <3>1, <3>6, <5>1, <6>1
        <5>2. CASE m_iMySlot'[m] # m_iMySlot[m]
          BY <1>6, <2>1, <3>6, <5>2
        <5> QED BY <5>1, <5>2
      <4>2. m_hSquadLeader'[m] = l
        BY <1>1, <3>6
      <4>3. CASE s = t
        <5>1. Holding = {}
          BY <3>1, <3>6, <4>3
        <5> QED BY <3>2, <3>6, <4>2, <4>3, <5>1
      <4>4. CASE s # t
        BY <3>1, <3>2, <3>6, <4>1, <4>4
      <4> QED BY <4>3, <4>4
    <3> QED BY <1>5, <3>3, <3>4, <3>5, <3>6
  <2> QED BY <2>1, HeldNext
<1>9. CorpsesHoldNone'
  <2>1. \A x \in killed : x \in Monsters /\ x # m
    BY <1>1 DEF TypeOK
  <2> QED BY <1>1, <1>4, <1>6, <2>1 DEF SlotsInv, CorpsesHoldNone, InSquad, IsLeader, Slots
<1> QED BY <1>7, <1>8, <1>9 DEF SlotsInv

(* A monster is removed: the squad of one that held a slot is spoilt.      *)
LEMMA RemoveSlots == ASSUME TypeOK, SlotsInv, NEW m \in Monsters, Remove(m) PROVE SlotsInv'
<1>1. /\ unborn' = unborn /\ waiting' = waiting \ {m} /\ killed' = killed \ {m}
      /\ spoilt' = (spoilt \cup {l \in {MySquadLeader(m)} : Holds(m)}) \ {m}
  BY DEF Remove
<1>2. \A x \in Monsters :
        /\ m_hSquadLeader'[x] = IF x = m \/ m_hSquadLeader[x] = m THEN NULL ELSE m_hSquadLeader[x]
        /\ m_afSquadSlots'[x] = IF x = m THEN {} ELSE m_afSquadSlots[x]
        /\ m_iMySlot'[x] = IF x = m THEN {} ELSE m_iMySlot[x]
  BY DEF Remove, TypeOK, bits_NO_SLOT
<1>3. NULL \notin Monsters /\ \A x \in waiting \cup unborn \cup killed : x \in Monsters
  BY SlotNumbers DEF TypeOK
<1>4. Fresh'
  BY <1>1, <1>2, <1>3 DEF SlotsInv, Fresh, bits_NO_SLOT
<1>5. ASSUME NEW l \in Monsters, l \notin spoilt', m_hSquadLeader'[l] = l
      PROVE  /\ l # m /\ l \notin spoilt /\ m_hSquadLeader[l] = l
             /\ m_hSquadLeader[m] = l => m_iMySlot[m] \cap Slots = {}
  <2>1. l # m /\ m_hSquadLeader[l] = l
    BY <1>2, <1>3, <1>5
  <2>2. l \notin spoilt
    BY <1>1, <1>5, <2>1
  <2>3. m_hSquadLeader[m] = l => InSquad(m) /\ MySquadLeader(m) = l
    BY <1>3 DEF InSquad, MySquadLeader
  <2>4. m_hSquadLeader[m] = l => ~Holds(m)
    BY <1>1, <1>5, <2>1, <2>3
  <2> QED BY <2>1, <2>2, <2>3, <2>4 DEF Holds
<1>6. SlotsAreHeld'
  <2>1. ASSUME NEW l \in Monsters, l \notin spoilt', m_hSquadLeader'[l] = l, NEW s \in Slots
        PROVE  /\ s \in m_afSquadSlots'[l] =>
                    \E x \in Monsters : m_hSquadLeader'[x] = l /\ s \in m_iMySlot'[x]
               /\ \A x \in Monsters : m_hSquadLeader'[x] = l /\ s \in m_iMySlot'[x] =>
                    /\ s \in m_afSquadSlots'[l]
                    /\ \A n \in Monsters : m_hSquadLeader'[n] = l /\ s \in m_iMySlot'[n] => n = x
    <3>1. l # m /\ l \notin spoilt /\ IsLeader(l) /\ m_afSquadSlots'[l] = m_afSquadSlots[l]
      BY <1>2, <1>5, <2>1 DEF IsLeader
    <3>2. \A x \in Monsters : (m_hSquadLeader'[x] = l /\ s \in m_iMySlot'[x])
                                <=> (m_hSquadLeader[x] = l /\ s \in m_iMySlot[x])
      <4>1. m_hSquadLeader[m] = l => s \notin m_iMySlot[m]
        BY <1>5, <2>1
      <4> QED BY <1>2, <1>3, <3>1, <4>1
    <3> QED BY <3>1, <3>2, HeldNow DEF SlotsInv
  <2> QED BY <2>1, HeldNext
<1>7. CorpsesHoldNone'
  <2> SUFFICES ASSUME NEW x \in killed, x # m, m_hSquadLeader'[x] # NULL,
                      m_hSquadLeader'[m_hSquadLeader'[x]] = m_hSquadLeader'[x],
                      m_hSquadLeader'[x] \notin spoilt'
               PROVE  m_iMySlot'[x] \cap Slots = {}
    BY <1>1 DEF CorpsesHoldNone, InSquad, IsLeader, Slots
  <2>1. x \in Monsters /\ m_hSquadLeader'[x] = m_hSquadLeader[x] /\ m_hSquadLeader[x] \in Monsters
    BY <1>2, <1>3 DEF TypeOK
  <2>2. m_hSquadLeader[x] \notin spoilt /\ m_hSquadLeader[m_hSquadLeader[x]] = m_hSquadLeader[x]
    BY <1>5, <2>1
  <2> QED BY <1>2, <2>1, <2>2 DEF SlotsInv, CorpsesHoldNone, InSquad, IsLeader
<1> QED BY <1>4, <1>6, <1>7 DEF SlotsInv

LEMMA SpawnSlots == ASSUME TypeOK, SlotsInv, NEW m \in Monsters, Spawn(m) PROVE SlotsInv'
<1>1. /\ UNCHANGED <<killed, m_hSquadLeader, m_afSquadSlots, m_iMySlot, spoilt>>
      /\ waiting' \cup unborn' \subseteq waiting \cup unborn
  BY DEF Spawn, links, bits
<1>2. Fresh'
  BY <1>1 DEF SlotsInv, Fresh, bits_NO_SLOT
<1> QED BY <1>1, <1>2 DEF SlotsInv, SlotsAreHeld, CorpsesHoldNone, IsLeader, InSquad, Slots

(* A saved game: where nobody holds a slot, none should be taken.          *)
LEMMA RestoreSlots == ASSUME TypeOK, SlotsInv, Restore PROVE SlotsInv'
<1>1. /\ UNCHANGED <<unborn, waiting, killed, m_hSquadLeader, m_iMySlot>>
      /\ \A x \in Monsters : m_afSquadSlots'[x] = {}
      /\ \A l \in Monsters \ spoilt', x \in Monsters : m_hSquadLeader[x] = l => ~Holds(x)
  BY DEF Restore, life, links, bits_NO_SLOT
<1>2. \A x \in waiting \cup unborn \cup killed : x \in Monsters
  BY DEF TypeOK
<1>3. NULL \notin Monsters
  BY SlotNumbers
<1>4. \A l \in Monsters \ spoilt', x \in Monsters : m_hSquadLeader[x] = l => m_iMySlot[x] \cap Slots = {}
  BY <1>1, <1>3 DEF Holds, InSquad
<1>5. Fresh'
  BY <1>1, <1>2 DEF SlotsInv, Fresh, bits_NO_SLOT
<1>6. SlotsAreHeld'
  BY <1>1, <1>4 DEF SlotsAreHeld, IsLeader, Slots
<1>7. CorpsesHoldNone'
  <2> SUFFICES ASSUME NEW x \in killed, m_hSquadLeader[x] # NULL, m_hSquadLeader[x] \notin spoilt'
               PROVE  m_iMySlot[x] \cap Slots = {}
    BY <1>1 DEF CorpsesHoldNone, InSquad, IsLeader, Slots
  <2>1. x \in Monsters /\ m_hSquadLeader[x] \in Monsters
    BY <1>2 DEF TypeOK
  <2> QED BY <1>4, <2>1
<1> QED BY <1>5, <1>6, <1>7 DEF SlotsInv

LEMMA SlotsStep == TypeOK /\ LinksInv /\ SlotsInv /\ [Next]_vars => SlotsInv'
<1> SUFFICES ASSUME TypeOK, LinksInv, SlotsInv, [Next]_vars PROVE SlotsInv'
  OBVIOUS
<1>1. CASE UNCHANGED <<unborn, waiting, killed, m_hSquadLeader, bits, spoilt>>
  BY <1>1, SlotsKept
<1> QED BY <1>1, StartSlots, DieSlots, KilledSlots, ScheduleSlots, SetScheduleSlots, RemoveSlots,
           SpawnSlots, RestoreSlots
        DEF Next, GetEnemy, EnemyGone, vars, life, links

-----------------------------------------------------------------------------
LEMMA InitIInv == Init => IInv
<1> SUFFICES ASSUME Init PROVE IInv
  OBVIOUS
<1>1. LinksInv
  BY DEF Init, LinksInv, Linked, LeadersLead, SquadsAreConsistent, IsLeader, Listed
<1>2. SlotsInv
  BY SlotNumbers DEF Init, SlotsInv, Fresh, SlotsAreHeld, CorpsesHoldNone, IsLeader, InSquad, bits_NO_SLOT, Slots
<1> QED BY InitType, <1>1, <1>2 DEF IInv

(* The strengthening of the three invariants of a squad is inductive.      *)
THEOREM InvariantHolds == Spec => []IInv
<1>1. IInv /\ [Next]_vars => IInv'
  BY TypeStep, LinksStep, SlotsStep DEF IInv
<1> QED BY InitIInv, <1>1, PTL DEF Spec

(* Every variable keeps its type: in particular a monster never holds more *)
(* than one slot, whatever kinds of slots he asks for in turn.             *)
THEOREM TypeCorrect == Spec => []TypeOK
<1>1. IInv => TypeOK
  BY DEF IInv
<1> QED BY <1>1, InvariantHolds, PTL

(* The assertions of SquadRemove and SquadAdd hold for whoever has not     *)
(* been killed: his leader, unless killed, leads and lists him, and nobody *)
(* else lists him, however squads are formed, beheaded and formed again.   *)
THEOREM SquadsStayConsistent == Spec => []SquadsAreConsistent
<1>1. IInv => SquadsAreConsistent
  BY DEF IInv, LinksInv
<1> QED BY <1>1, InvariantHolds, PTL

(* No slot is lost and none is shared, in squads of any size and with any  *)
(* slots, except in the four ways that "spoilt" remembers.                 *)
THEOREM SlotsStayHeld == Spec => []SlotsAreHeld
<1>1. IInv => SlotsAreHeld
  BY DEF IInv, SlotsInv
<1> QED BY <1>1, InvariantHolds, PTL
================================================================================
