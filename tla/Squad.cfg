SPECIFICATION Spec
CONSTANTS
  Monsters = {a, b, c}
  Groups = {{}, {a, b, c}}
  Enemies = {x}
  Engage = {0}
  Grenade = {2, 3}
  MAX_SQUAD_MEMBERS = 3
  NULL = NULL
SYMMETRY Symmetry
INVARIANTS TypeOK SquadsAreConsistent SlotsAreHeld
