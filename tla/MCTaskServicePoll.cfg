\* The poll asks for the id of the job; the runs are saved under ids of their own.
SPECIFICATION Spec
CONSTANTS
  Submissions = {s1}
  Workers = {w1, w2}
  Api = api
  Processes = {w1, w2, api}
  MaxRetries = 1
  MaxCrashes = 2
  MaxRestarts = 1
  NoMessage = NoMessage
PROPERTY PollSettles
CHECK_DEADLOCK FALSE
