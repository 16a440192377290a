\* One open dashboard when the signal comes.
SPECIFICATION FairSpec
CONSTANT
  Requests = {r1}
PROPERTY
  GracefulShutdown
\* The process ends.
CHECK_DEADLOCK FALSE
