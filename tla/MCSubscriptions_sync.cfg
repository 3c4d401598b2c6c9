\* One or two Stripe subscriptions, webhooks in any order, all daily tasks.
SPECIFICATION FairSpec
CONSTANTS
  LastRemote = 2
  LastPeriod = 1
  pro = pro
  basic = basic
  Bought <- FirstPro
  PaidPlans = {pro, basic}
  Hooks = {h1}
  None = None
  MaxSubs = 3
  Scheduled = {"check", "backfill"}
  Scenes <- AllScenes
PROPERTIES
  PaidPlanIsPaid
  PaidInvoicesSettle
  ActiveIsServed
CHECK_DEADLOCK FALSE
