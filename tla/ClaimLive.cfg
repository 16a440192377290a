\* The first payload that carries a partial.
SPECIFICATION TelSpec
CONSTANTS
  Snapshots <- MCSnapshots
  Zero = Zero
  capacity = 2
  Width = 5
  Unit = 2
  UnitNames = 1
  Speed = 1
  Loads = {1}
  HistoryPoints = 2
  ChartPoints = 2
  ChartWidth = 6
  MaxAge = 2
INVARIANT
  EventsCarryThePartials
