SPECIFICATION Spec
CONSTANTS
  mine = mine
  theirs = theirs
  twin = twin
  bodyP = bodyP
  bodyQ = bodyQ
  bodyR = bodyR
  planP = planP
  planQ = planQ
  r1 = r1
  r2 = r2
  job = job
  Parcels = {mine, theirs, twin}
  Merged = {theirs}
  Zoning = {mine, theirs}
  Coded = {mine, theirs}
  Recorded = {mine, theirs, twin}
  Body <- MCBody
  Title <- MCTitle
  Local <- MCLocal
  Within <- MCWithin
  Options = {"o"}
  NoName = NoName
  Requests = {r1}
  Job = job
  Sites <- MCTogether
  UseNames = {"house"}
  MaxRequests = 3
  MaxRuns = 0
  MaxFailures = 1
PROPERTY ChoicesSurviveLookup
CHECK_DEADLOCK FALSE
