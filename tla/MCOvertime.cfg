SPECIFICATION MCSpec
CONSTANTS
  Players = {"Ann", "Bob", "Cy"}
  Bots = {"Bob", "Cy"}
  Team <- MCTeam
  Absent = Absent
  Reseed = 1
  Capacity = 4
  StatLookback = 3
  WalkLimit = 4
  Inputs <- MCInputs
  Window = 2
  Debounce = 2
  Feeds = {"marks"}
PROPERTY OvertimeReportsTheTie
CHECK_DEADLOCK FALSE
