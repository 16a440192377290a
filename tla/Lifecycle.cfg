\* Two requests at once, through every end of the process.
SPECIFICATION FairSpec
CONSTANT
  Requests = {r1, r2}
INVARIANTS
  UsersFindLiveParts
  ExitIsClean
PROPERTY
  SignalEndsTheProcess
\* The process ends.
CHECK_DEADLOCK FALSE
