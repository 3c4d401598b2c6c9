\* Two emails of a merged conversation, two events, retries of both kinds,
\* one or two workers.
SPECIFICATION FairSpec
CONSTANTS
  e1 = e1
  e2 = e2
  s1 = s1
  s2 = s2
  w1 = w1
  w2 = w2
  Emails = {e1, e2}
  MergedInto <- Child
  SubOrder <- Order
  Policy <- Defaults
  Scenes <- FourScenes
  Clients = {c1}
  None = None
  MaxCopies = 1
  MaxRetries = 1
  MaxTrouble = 1
INVARIANTS
  OneIssuePerDelivery
  IssuesOfOwnEmail
PROPERTIES
  CompletedHasNoFailure
  RelaySettles
CHECK_DEADLOCK FALSE
