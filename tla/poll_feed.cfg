SPECIFICATION FairPollSpec
CONSTANTS
  PageSize = 2
  MaxRetries = 1
  Lifetime = 3
  Buffer = 1
  FirstIds = 3
  MaxIds = 5
  Appends = TRUE
  Updates = TRUE
  Closes = TRUE
  MaxDeficit = 1
  MaxFailures = 1
INVARIANTS PollTypeOK TokenOutlivesRequest EtagVouchesForLogged
PROPERTY LossEndsWithGrowth
