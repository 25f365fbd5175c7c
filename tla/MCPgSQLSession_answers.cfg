CONSTANTS
  Known = {"d1"}
  Startups <- MCStartups
  Batches <- MCBatches
  QuerySizes = {12, 16, 20000000}
  Verdicts = {TRUE, FALSE}
  Cuts = {3, 8}
  MaxBatches = 2
SPECIFICATION FairSpec
INVARIANTS TypeOK EveryQueryJudged JudgedBySettings
PROPERTIES Answered
\* The session ends after its last batch.
CHECK_DEADLOCK FALSE
