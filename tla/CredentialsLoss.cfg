SPECIFICATION CredentialsSpec
CONSTANTS
  Sessions = {cron, admin}
  Cron = cron
  MaxKeys = 2
  Loss = TRUE
INVARIANTS
  RestorableAfterLoss
CHECK_DEADLOCK FALSE
