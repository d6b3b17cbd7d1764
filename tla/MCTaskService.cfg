\* max_retries is 3 in the code; one retry already lets every kind of failure
\* meet every other.
SPECIFICATION Spec
CONSTANTS
  Submissions = {s1}
  Workers = {w1, w2}
  Api = api
  Processes = {w1, w2, api}
  MaxRetries = 1
  MaxCrashes = 2
  MaxRestarts = 1
  NoMessage = NoMessage
INVARIANTS
  NoJobLost
  RunsBounded
  RunsOnceUnlessTrouble
PROPERTY JobsFinish
CHECK_DEADLOCK FALSE
