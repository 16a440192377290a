\* Two tabs and one request, a channel, a secret at the boundary of the mask, a second
\* login and a failing query.
SPECIFICATION Spec
CONSTANTS
  Channels <- MCChannels
  Tabs = {t1, t2}
  Requests = {r1}
  Chars <- MCChars
  Secrets <- MCSecrets
  Texts = {"x"}
  MaxRules = 1
  MaxTokens = 2
  MaxFaults = 1
  Nil = Nil
SYMMETRY MCSymmetry
INVARIANTS
  MaskNeverStored
  SecretsStayMasked
  TablesTellTheirClick
PROPERTIES
  FreshSavesKeepTheRest
