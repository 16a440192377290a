\* A crash between two of the default rules.
SPECIFICATION Spec
CONSTANTS
  Conditions = {"cpu", "ram"}
  Containers = {}
  Services = {}
  ContainerInfos = {}
  ServiceInfos = {}
  RuleForms = {}
  Defaults <- MCTwoDefaults
  StateCooldown = 2
  RecentLimit = 2
  MaxTime = 2
  MaxRules = 2
  MaxAlerts = 3
  MaxLives = 2
  MaxFaults = 0
  Nil = Nil
INVARIANT
  DefaultsSeeded
