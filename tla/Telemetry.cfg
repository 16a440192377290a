\* A ring of three snapshots, a chart of two points, counters that go round at five.
SPECIFICATION FairTelSpec
CONSTANTS
  Snapshots <- MCSnapshots
  Zero = Zero
  capacity = 3
  Width = 5
  Unit = 2
  UnitNames = 1
  Speed = 1
  Loads = {1}
  HistoryPoints = 3
  ChartPoints = 2
  ChartWidth = 6
  MaxAge = 2
INVARIANTS
  HistoriesAreWritten
  ChartShowsTheNewest
  EventsKeepStep
PROPERTIES
  ImplementsWindow
  RatesAreTrue
  CardsComeBack
