\* A default rule and one created, toggled and deleted during evaluations, a failing
\* query and a crash, under the fairness of the schedulers.
SPECIFICATION FairSpec
CONSTANTS
  Conditions = {"cpu"}
  Containers = {}
  Services = {}
  ContainerInfos = {}
  ServiceInfos = {}
  RuleForms <- MCRuleForms
  Defaults <- MCDefaults
  StateCooldown = 1
  RecentLimit = 1
  MaxTime = 1
  MaxRules = 2
  MaxAlerts = 2
  MaxLives = 2
  MaxFaults = 1
  Nil = Nil
INVARIANTS
  CooldownRespected
  LateFiringBounded
  NoSilenceWithoutAlert
  RecentsComplete
  RowsNameTheirRule
PROPERTIES
  ImplementsLog
  AlertsReachTheCache
  LastingBreachIsReported
