\* Both fetches.
SPECIFICATION FairSpec
CONSTANTS
  None = None
  Mails = {1, 2, 3, 4, 5, 6, 7, 8, 9, 10, 11}
  Users = {u1, u2, u3, u4}
  u1 = u1
  u2 = u2
  u3 = u3
  u4 = u4
  ImapUsers <- TheImapUsers
  MailboxOf <- Boxes
  To <- Recipients
  Part <- Parts
  Sameness <- AsThemselves
  Dated = {1, 2, 3, 4, 6, 7, 8, 9, 10, 11}
  Readable = {1, 2, 3, 4, 5, 8, 9, 10, 11}
  Decodable = {1, 2, 3, 4, 5, 6, 7, 8, 9, 10}
  DefaultOf <- Defaults
  Deleting = {u2}
  Unread = {u4}
  Matching <- Filters
  Limited = {u3}
  Workers = {1, 2}
  MaxUndated = 2
  Scenes <- AllScenes
INVARIANTS
  SameMailOnce
PROPERTIES
  DeletionFollowsSave
  ServerMailIsSaved
  SavedMailGetsTask
CHECK_DEADLOCK FALSE
