SPECIFICATION FairPollSpec
CONSTANTS
  PageSize = 2
  MaxRetries = 0
  Lifetime = 3
  Buffer = 1
  FirstIds = 3
  MaxIds = 3
  Appends = TRUE
  Updates = FALSE
  Closes = FALSE
  MaxDeficit = 1
  MaxFailures = 1
PROPERTY EveryEventLogged
