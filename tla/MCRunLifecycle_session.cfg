\* One session whose user clicks and interrupts at any moment.
CONSTANTS
  u = u
  v = v
  w = w
  NoRun = NoRun
  Run <- Three
  MaxAge = 2
  ValidationMayFail = TRUE
  UserMayInterrupt = TRUE
SPECIFICATION FairSpec
INVARIANTS
  TypeOK
  OneRequestPerSession
  AnswerIsLatest
PROPERTIES
  NeverDisabledForever
