\* A detail request, a change of the containers and one of the services, under
\* fairness.
SPECIFICATION FairMonitorsSpec
CONSTANTS
  Requests = {r1}
  MaxVersion = 1
  UnitsAt <- MCUnitsAt
  LoadWords = {"LOAD", "LOADER"}
INVARIANTS
  FlagMeansClient
  PanicsOnlyInARace
PROPERTIES
  PicksUpTheDaemon
  ContainersAreAFeed
  ServicesAreAFeed
  ServicesCatchUp
  StopsEnd
