SPECIFICATION FairSpec
CONSTANTS
  Ids <- MCIds
  Emails = {"first", "second"}
  FirstAdmin = "first"
  Roles = {"manager", "admin"}
  Workers = {w1, w2}
  Calls = {c1, c2}
  MaxRestarts = 2
INVARIANTS
  Consistent

  FirstAdminSeeded
PROPERTIES
  RefusedForGood
  DirectoryFollowed
  WorkersStart
CHECK_DEADLOCK FALSE
