SPECIFICATION Spec
CONSTANTS
  Slots = {s1, s2}
  Clients = {ann, bob}
  Muters = {ann}
  Bots = {bob}
  NoOne = NoOne
  Rules <- MCRules
  MaxDown = 2
  MaxUp = 1
  MaxJoins = 3
  MaxChanges = 2
  MaxLevels = 1
  MaxEvents = 9
PROPERTY UnsquelchedOnConnect
