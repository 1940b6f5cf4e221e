SPECIFICATION Spec
CONSTANTS
  s1 = s1
  s2 = s2
  Sessions = {s1, s2}
  Messages = {"m", "closer"}
  Trivial = {"closer"}
  Entries <- MCEntries
  Default <- MCDefault
  NoConfig = NoConfig
  NoSession = NoSession
  NoMessage = NoMessage
SYMMETRY Symmetry
INVARIANTS TypeOK ConfigFresh ThrottleIsOwn
PROPERTIES KillSwitchHonoured ReportsItsConfig AnswersConfig
