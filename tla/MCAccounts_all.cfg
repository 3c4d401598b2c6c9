\* The accounts, the share links of one email and the import of old settings.
SPECIFICATION WebSpec
CONSTANTS
  Tabs = {1, 2}
  MaxTime = 2
  MaxLinks = 3
  MaxWords = 4
  Scenes <- ScenesAndRest
  Emails = {"x", "y"}
  Names = {"ann", "ann1", "bob"}
  MaxUsers = 4
  Offers <- TheOffers
  AccountScenes <- TheAccountScenes
  Issues = {1, 2}
  Engines = {"jira", "feishu", "github"}
  ImportScenes <- TheImportScenes
  None = None
INVARIANTS
  OneUserPerEmail
  OneLiveLink
  ShownPasswordOpens
  HistoryOnce
PROPERTIES
  AccountsSurvive
  LinksEndForGood
CHECK_DEADLOCK FALSE
