SPECIFICATION ApiSpec
CONSTANTS
  c1 = c1
  c2 = c2
  Calls = {c1, c2}
  MaxSends = 2
  Quota <- MCQuota
  Window = 2
INVARIANTS
  RefusalsAreDocumented
  AnswersAreTrue
  RetriesAreSafe
  TwiceTheLimitAtMost
