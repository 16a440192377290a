\* Two clients, one of which may stall, channels of two payloads, one sample.
SPECIFICATION FairSpec
CONSTANTS
  Clients = {c1, c2}
  Stalled = {c1}
  Capacity = 2
  MaxSample = 1
INVARIANT
  NoSendOnClosed
PROPERTIES
  OnlyEarlyPayloadsGoBack
  PagesCatchUp
