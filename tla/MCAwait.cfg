SPECIFICATION AwaitSpec
CONSTANTS
  MaxNest = 3
  MaxAsync = 4
  MaxNodes = 5
INVARIANTS AwaitTypeOK LegalPlaceAccepted FlatProgramsJudgedRight AwaitedIsAsync
