\* Edits, syncs and purchases of two plans; or the merges of four emails.
SPECIFICATION CatalogSpec
CONSTANTS
  pro = pro
  basic = basic
  Plans = {pro, basic}
  Amounts = {1, 2}
  Config <- YamlAmount
  Users = {1}
  w1 = w1
  w2 = w2
  Workers = {w1, w2}
  Scenes <- ScenesAndRest
  None = None
  Mails = {1, 2, 3, 4}
  Manuals = {5}
  Mail <- FourMails
  Today = 6
  Long <- LongBodies
  Close <- Similar
  Inside <- LargePart
  Crews = {{w1}, {w2}, {w1, w2}}
  Budgets <- CrossingAndRest
SYMMETRY WorkersAlike
INVARIANTS
  OffersAreTrue
  OneCustomerPerUser
  NoCircle
  EvidenceAgrees
PROPERTIES
  SerialMergesKeepTogether
CHECK_DEADLOCK FALSE
