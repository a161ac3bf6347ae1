\* A request, its follow-up and the follow-up of that; two files, one of them risky.
CONSTANTS
  Files = {"src", "api"}
  Risky = {"api"}
  Accesses = {TRUE, FALSE}
  Requests <- MCRequests
  MaxRuns = 3
  MaxPosts = 2
  ReviewBudget = 3
  AskBudget = 3
  BatchCap = 2
  ReviewRetries = 2
  Verdicts = {"FAIL"}
SPECIFICATION FairSpec
INVARIANTS
  AnswersAreServable
  EscalatesWithItsOwnBrief
  BuildsItsRequest
  CompletedIsVerified
PROPERTIES
  RunsEnd
\* An idle server with an empty queue waits for ever.
CHECK_DEADLOCK FALSE
