SPECIFICATION Spec
CONSTANTS
  Requests = {r1, r2}
  MaxRetries = 1
  Cooldowns = {0, 1}
  RetryAfters = {2}
INVARIANTS
  EachProviderOnce
  RefusalIsEarned
PROPERTIES
  DeepSeekReturns
