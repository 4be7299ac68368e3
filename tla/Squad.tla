---------------------------------- MODULE Squad ----------------------------------
(***************************************************************************)
(* Squads of monsters (dlls/squadmonster.cpp): how they are recruited,     *)
(* share attack slots and enemies, and lose their members, with the calls  *)
(* that the monsters' AI makes (schedule.cpp, hgrunt.cpp).  All monsters   *)
(* are of one class.  What is left of the AI is its choices: which enemy   *)
(* is seen, whether a schedule ends, what the next one wants.  Positions,  *)
(* among them the enemy's last known one, are left out, and so are targets *)
(* and targetnames, by which StartMonster would wake a monster that has    *)
(* been killed already.                                                    *)
(*                                                                         *)
(* An EHANDLE to an entity that is freed reads as NULL for ever after, so  *)
(* that Remove sets all handles to the entity to NULL at once.  A set of   *)
(* bits is a set.                                                          *)
(***************************************************************************)
EXTENDS Integers, Sequences, FiniteSets

CONSTANTS
  Monsters,             \* the monsters there may be
  Groups,               \* the sets that may be named as the map's one group
  Enemies,
  Engage, Grenade,      \* bits_SLOTS_HGRUNT_ENGAGE, bits_SLOTS_HGRUNT_GRENADE
  MAX_SQUAD_MEMBERS,    \* 5 in the code, the leader included
  NULL

Slots == Engage \cup Grenade
bits_NO_SLOT == {}
bits_SLOT_SQUAD_SPLIT == {10}

ASSUME SquadConstantsOK ==
  /\ Groups \subseteq SUBSET Monsters /\ NULL \notin Monsters \cup Enemies
  /\ Engage \subseteq 0..9 /\ Grenade \subseteq 0..9
  /\ MAX_SQUAD_MEMBERS \in Nat \ {0}

VARIABLES
  named,           \* those whose netname is that of the group
  unborn,          \* the monsters that have not been spawned yet
  edicts,          \* the monsters that exist
  waiting,         \* those whose next thought is MonsterInitThink
  killed,          \* those with bits_MEMORY_KILLED
  dead,            \* those with a deadflag, which a killed monster's next thought sets,
                   \* or his gibs
  m_hSquadLeader,
  m_hSquadMember,  \* the entities in the leader's array
  m_afSquadSlots,
  m_iMySlot,
  m_hEnemy,
  spoilt           \* history: leaders whose slots were mixed up, as told below

life   == <<named, unborn, edicts, waiting, killed, dead>>
links  == <<m_hSquadLeader, m_hSquadMember>>
bits   == <<m_afSquadSlots, m_iMySlot>>
vars   == <<life, links, bits, m_hEnemy, spoilt>>

Init ==
  /\ named \in Groups /\ unborn = Monsters /\ edicts = {} /\ waiting = {} /\ killed = {} /\ dead = {}
  /\ m_hSquadLeader = [m \in Monsters |-> NULL]
  /\ m_hSquadMember = [m \in Monsters |-> {}]
  /\ m_afSquadSlots = [m \in Monsters |-> bits_NO_SLOT]
  /\ m_iMySlot = [m \in Monsters |-> bits_NO_SLOT]
  /\ m_hEnemy = [m \in Monsters |-> NULL]
  /\ spoilt = {}

InSquad(m)       == m_hSquadLeader[m] # NULL
IsLeader(m)      == m_hSquadLeader[m] = m
MySquadLeader(m) == IF InSquad(m) THEN m_hSquadLeader[m] ELSE m

(* MySquadMember(i) of a leader, for all i: the last one is himself.       *)
Listed(l) == m_hSquadMember[l] \cup {l}

(* The slots that are lost to a squad, or taken by two, if m's is not      *)
(* vacated: the pseudo-slot of a split squad is never taken.               *)
Holds(m) == InSquad(m) /\ m_iMySlot[m] \cap Slots # {}

-----------------------------------------------------------------------------
(* Recruiting.                                                             *)

(* A group takes everyone of its name, alive or not; others take those of  *)
(* no name that they find near and can see, and that are not dead yet.     *)
Recruits(m) ==
  LET eligible == {x \in edicts \ {m} : ~InSquad(x) /\ (x \in named <=> m \in named)}
      fitting(R) == Cardinality(m_hSquadMember[m] \cup R) < MAX_SQUAD_MEMBERS
  IN  IF m \in named
        THEN IF fitting(eligible) THEN {eligible}
             ELSE {R \in SUBSET eligible :
                     Cardinality(m_hSquadMember[m] \cup R) = MAX_SQUAD_MEMBERS - 1}
        ELSE {R \in SUBSET (eligible \ dead) : fitting(R)}

SquadRecruit(m, R) ==
  IF R = {}  \* no single member squads
    THEN UNCHANGED <<links, spoilt>>
    ELSE /\ m_hSquadLeader' = [x \in Monsters |-> IF x \in R \cup {m} THEN m
                                                  ELSE m_hSquadLeader[x]]
         /\ m_hSquadMember' = [m_hSquadMember EXCEPT ![m] = @ \cup R]
         /\ spoilt' = spoilt \cup {l \in {m} : \E x \in R : m_iMySlot[x] \cap Slots # {}}

StartMonster(m) ==
  /\ m \in waiting
  /\ waiting' = waiting \ {m}
  /\ IF InSquad(m)
       THEN UNCHANGED <<links, spoilt>>
       ELSE \/ m \in named /\ UNCHANGED <<links, spoilt>>
            \/ \E R \in Recruits(m) : SquadRecruit(m, R)
  /\ UNCHANGED <<named, unborn, edicts, killed, dead, bits, m_hEnemy>>

-----------------------------------------------------------------------------
(* Slots.                                                                  *)

SquadEnemySplit(m) ==
  LET l == MySquadLeader(m)
  IN  \E x \in Listed(l) : m_hEnemy[x] # NULL /\ m_hEnemy[x] # m_hEnemy[l]

AvailableOfAny(taken, wants) == wants \ taken

(* The first bit of the desired ones that is not taken.                    *)
Available(taken, wants) ==
  {s \in wants \ taken : \A t \in wants \ taken : s <= t}

(* The calls of OccupySlot in one GetSchedule, which go on to the next     *)
(* kind of slot when one fails: "wants" holds their arguments.  The enemy  *)
(* is the one after this step's share of enemies.                          *)
OccupySlot(m, wants, slots, mine) ==
  LET l == MySquadLeader(m)
      Open(i) == Available(slots[l], wants[i])
      opened == {i \in DOMAIN wants : Open(i) # {}}
  IN  IF wants = <<>> \/ ~InSquad(m)
        THEN m_afSquadSlots' = slots /\ m_iMySlot' = [m_iMySlot EXCEPT ![m] = mine]
      ELSE IF SquadEnemySplit(m)'
        THEN /\ m_afSquadSlots' = slots
             /\ m_iMySlot' = [m_iMySlot EXCEPT ![m] = bits_SLOT_SQUAD_SPLIT]
      ELSE IF opened = {}
        THEN m_afSquadSlots' = slots /\ m_iMySlot' = [m_iMySlot EXCEPT ![m] = mine]
      ELSE \E i \in opened :
             /\ \A j \in opened : i <= j
             /\ m_afSquadSlots' = [slots EXCEPT ![l] = @ \cup Open(i)]
             /\ m_iMySlot' = [m_iMySlot EXCEPT ![m] = Open(i)]

(* VacateSlot: the squad's slots and m's own, afterwards.                  *)
Vacated(m) ==
  IF InSquad(m)
    THEN [m_afSquadSlots EXCEPT ![MySquadLeader(m)] = @ \ m_iMySlot[m]]
    ELSE m_afSquadSlots
Mine(m) == IF InSquad(m) THEN bits_NO_SLOT ELSE m_iMySlot[m]

-----------------------------------------------------------------------------
(* Thinking.                                                               *)

(* What GetSchedule of the grunts may ask for.                             *)
Wants == {<<>>, <<Engage>>, <<Grenade>>, <<Engage, Grenade>>, <<Grenade, Engage>>}

Thinking == edicts \ (waiting \cup killed)

(* GetEnemy, and what gives an enemy up: CheckEnemy, SetState.             *)
GetEnemy(m, e) ==
  /\ m \in edicts \ (waiting \cup dead)
  /\ m_hEnemy' = [m_hEnemy EXCEPT ![m] = e]
  /\ UNCHANGED <<life, links, bits, spoilt>>

Told(m) == IF InSquad(m) /\ m_hEnemy[m] # NULL
             THEN {x \in Listed(MySquadLeader(m)) : m_hEnemy[x] # m_hEnemy[m]} ELSE {}

(* SquadMakeEnemy: all but those that see another enemy get m's.           *)
SquadMakeEnemy(m, seeing) ==
  m_hEnemy' = [x \in Monsters |-> IF x \in Told(m) \ seeing THEN m_hEnemy[m] ELSE m_hEnemy[x]]

(* A schedule ends: ScheduleChange, GetIdealState, which tells the others  *)
(* of a new enemy unless m is in combat, and GetSchedule.  A killed        *)
(* monster's next one is to die, and sets its deadflag.                    *)
MaintainSchedule(m, seeing, wants) ==
  /\ m \in Thinking
  /\ SquadMakeEnemy(m, seeing)
  /\ UNCHANGED <<life, links, spoilt>>
  /\ OccupySlot(m, wants, Vacated(m), Mine(m))

Die(m) ==
  /\ m \in killed \ (waiting \cup dead)
  /\ dead' = dead \cup {m}
  /\ m_afSquadSlots' = Vacated(m)
  /\ m_iMySlot' = [m_iMySlot EXCEPT ![m] = Mine(m)]
  /\ UNCHANGED <<named, unborn, edicts, waiting, killed, links, m_hEnemy, spoilt>>

(* TASK_SET_SCHEDULE at the end of TossGrenadeCover, in hard mode: the     *)
(* schedule changes without a ScheduleChange, and the next may want        *)
(* another grenade slot while the first is not vacated.                    *)
SetSchedule(m) ==
  /\ m \in Thinking /\ InSquad(m)
  /\ m_iMySlot[m] \cap Grenade # {} \/ m_iMySlot[m] = bits_SLOT_SQUAD_SPLIT
  /\ UNCHANGED <<life, links, m_hEnemy>>
  /\ OccupySlot(m, <<Grenade>>, m_afSquadSlots, m_iMySlot[m])
  /\ spoilt' = spoilt \cup {l \in {MySquadLeader(m)} : Holds(m) /\ m_iMySlot'[m] # m_iMySlot[m]}

-----------------------------------------------------------------------------
(* Ends, and beginnings.                                                   *)

SquadRemoveKeepingArray(l, m) ==
  /\ m_hSquadLeader' = IF m = MySquadLeader(l)
       THEN [x \in Monsters |-> IF x \in m_hSquadMember[l] \cup {m} THEN NULL ELSE m_hSquadLeader[x]]
       ELSE [m_hSquadLeader EXCEPT ![m] = NULL]
  /\ m_hSquadMember' = m_hSquadMember

(* l->SquadRemove(m) forgets the members of a leader.  Of a member it      *)
(* forgets the leader, and looks for l itself in the leader's array.       *)
SquadRemove(l, m) ==
  IF m = MySquadLeader(l)
    THEN /\ m_hSquadLeader' = [x \in Monsters |-> IF x \in m_hSquadMember[l] \cup {m} THEN NULL
                                                  ELSE m_hSquadLeader[x]]
         /\ m_hSquadMember' = [m_hSquadMember EXCEPT ![l] = {}]
    ELSE /\ m_hSquadLeader' = [m_hSquadLeader EXCEPT ![m] = NULL]
         /\ m_hSquadMember' = [m_hSquadMember EXCEPT ![MySquadLeader(l)] = @ \ {l}]

KilledRemovedFirst(m) ==
  /\ m \in edicts
  /\ killed' = killed \cup {m}
  /\ \/ UNCHANGED <<waiting, dead>>
     \/ waiting' = waiting \ {m} /\ dead' = dead \cup {m}  \* CallGibMonster
  /\ UNCHANGED bits
  /\ IF InSquad(m) THEN SquadRemove(MySquadLeader(m), m) ELSE UNCHANGED links
  /\ UNCHANGED <<named, unborn, edicts, m_hEnemy, spoilt>>

(* Killed, which may be called again for a corpse.                         *)
Killed(m) ==
  /\ m \in edicts
  /\ killed' = killed \cup {m}
  /\ \/ UNCHANGED <<waiting, dead>>
     \/ waiting' = waiting \ {m} /\ dead' = dead \cup {m}  \* CallGibMonster
  /\ m_afSquadSlots' = Vacated(m)
  /\ m_iMySlot' = [m_iMySlot EXCEPT ![m] = Mine(m)]
  /\ IF InSquad(m) THEN SquadRemove(MySquadLeader(m), m) ELSE UNCHANGED links
  /\ UNCHANGED <<named, unborn, edicts, m_hEnemy, spoilt>>

(* Out of squadmonster.cpp's sight: a corpse fades, or a killtarget takes  *)
(* a monster of any kind away.                                             *)
Remove(m) ==
  /\ m \in edicts
  /\ named' = named /\ unborn' = unborn /\ edicts' = edicts \ {m} /\ waiting' = waiting \ {m}
  /\ killed' = killed \ {m} /\ dead' = dead \ {m}
  /\ m_hSquadLeader' = [x \in Monsters |-> IF x = m \/ m_hSquadLeader[x] = m THEN NULL
                                           ELSE m_hSquadLeader[x]]
  /\ m_hSquadMember' = [x \in Monsters |-> IF x = m THEN {} ELSE m_hSquadMember[x] \ {m}]
  /\ m_afSquadSlots' = [m_afSquadSlots EXCEPT ![m] = bits_NO_SLOT]
  /\ m_iMySlot' = [m_iMySlot EXCEPT ![m] = bits_NO_SLOT]
  /\ m_hEnemy' = [m_hEnemy EXCEPT ![m] = NULL]
  /\ spoilt' = (spoilt \cup {l \in {MySquadLeader(m)} : Holds(m)}) \ {m}

Spawn(m) ==
  /\ m \in unborn
  /\ named' = named /\ unborn' = unborn \ {m}
  /\ edicts' = edicts \cup {m} /\ waiting' = waiting \cup {m}
  /\ UNCHANGED <<killed, dead, links, bits, m_hEnemy, spoilt>>

(* An enemy is no more: all handles to it are NULL.                        *)
EnemyGone(e) ==
  /\ m_hEnemy' = [x \in Monsters |-> IF m_hEnemy[x] = e THEN NULL ELSE m_hEnemy[x]]
  /\ UNCHANGED <<life, links, bits, spoilt>>

(* A saved game is loaded: m_afSquadSlots is not saved, m_iMySlot is.      *)
Restore ==
  /\ m_afSquadSlots' = [m \in Monsters |-> bits_NO_SLOT]
  /\ spoilt' = {l \in Monsters : \E m \in Monsters : m_hSquadLeader[m] = l /\ Holds(m)}
  /\ UNCHANGED <<life, links, m_iMySlot, m_hEnemy>>

-----------------------------------------------------------------------------
Next ==
  \/ \E m \in Monsters :
       \/ StartMonster(m) \/ Die(m) \/ SetSchedule(m) \/ Killed(m) \/ Remove(m) \/ Spawn(m)
       \/ \E e \in Enemies \cup {NULL} : GetEnemy(m, e)
       \/ \E seeing \in SUBSET Told(m), wants \in Wants : MaintainSchedule(m, seeing, wants)
  \/ \E e \in Enemies : EnemyGone(e)
  \/ Restore

Spec == Init /\ [][Next]_vars

-----------------------------------------------------------------------------
(* Type correctness: a monster holds one slot at most.                     *)
TypeOK ==
  /\ named \in Groups
  /\ unborn \subseteq Monsters /\ edicts \subseteq Monsters \ unborn /\ waiting \subseteq edicts
  /\ killed \subseteq edicts /\ dead \subseteq killed
  /\ m_hSquadLeader \in [Monsters -> Monsters \cup {NULL}]
  /\ m_hSquadMember \in [Monsters -> SUBSET Monsters]
  /\ m_afSquadSlots \in [Monsters -> SUBSET Slots]
  /\ m_iMySlot \in [Monsters -> {bits_NO_SLOT, bits_SLOT_SQUAD_SPLIT} \cup {{s} : s \in Slots}]
  /\ m_hEnemy \in [Monsters -> Enemies \cup {NULL}]
  /\ spoilt \subseteq Monsters

(* The assertions of SquadRemove and SquadAdd, among those that are not    *)
(* killed: who has a leader has one that leads, and that lists him, and no *)
(* one else lists him, although corpses stay listed, may be recruited and  *)
(* may, when killed before they started, even lead.                        *)
SquadsAreConsistent ==
  \A m \in edicts \ killed :
    LET l == m_hSquadLeader[m]
    IN  /\ l \notin killed \cup {NULL} => IsLeader(l) /\ m \in Listed(l)
        /\ \A n \in Monsters : m \in m_hSquadMember[n] => l = n

(* A slot is taken for the squad while just one member holds it, so that   *)
(* none is lost and none is shared (OccupySlot, VacateSlot, Killed).  The  *)
(* code loses this in four ways only, which "spoilt" tells: a saved game   *)
(* is loaded while a slot is held, a recruit still holds a slot of the     *)
(* squad whose leader died, a holder is removed without having been        *)
(* killed, and TossGrenadeCover takes a second slot.                       *)
SlotsAreHeld ==
  \A l \in Monsters \ spoilt : IsLeader(l) =>
    LET Holders(s) == {m \in Monsters : m_hSquadLeader[m] = l /\ s \in m_iMySlot[m]}
    IN  \A s \in Slots : /\ s \in m_afSquadSlots[l] <=> Holders(s) # {}
                         /\ \A m, n \in Holders(s) : m = n

(* "SquadRemove(), remove pRemove from my squad" (squadmonster.cpp:142):   *)
(* only members are listed, and counted by SquadCount.                     *)
MembersBelong ==
  \A l, m \in Monsters : m \in m_hSquadMember[l] => m_hSquadLeader[m] = l
================================================================================
