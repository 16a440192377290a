\* One container and one service, no rules: the two passes, every listing, a crash.
SPECIFICATION Spec
CONSTANTS
  Conditions = {}
  Containers = {c1}
  Services = {s1}
  ContainerInfos <- MCContainerInfos
  ServiceInfos <- MCServiceInfos
  RuleForms = {}
  Defaults <- MCNoDefaults
  StateCooldown = 1
  RecentLimit = 2
  MaxTime = 1
  MaxRules = 0
  MaxAlerts = 2
  MaxLives = 2
  MaxFaults = 0
  Nil = Nil
INVARIANTS
  OutageCovered
PROPERTIES
  OneAlertPerOutage
