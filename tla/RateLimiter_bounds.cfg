\* 3 requests per 3 ticks, 2 logins per 4; replies and, once per window, charges get lost.
SPECIFICATION FairSpec
CONSTANTS
  r1 = r1  r2 = r2
  Requests = {r1, r2}
  Logins = {r2}
  Limit <- MCLimit
  Interval <- MCInterval
  MaxRetries = 3
  RedisFails = TRUE
  MaxLosses = 1
INVARIANT TypeOK LessThanTwice
PROPERTY RefusedAtLimitOnly AdmitsAgain
