\* The three drivers, both parsers and the nodes of the workflow.
SPECIFICATION ContentsSpec
CONSTANTS
  File <- TheFiles
  Components = {"c1"}
  DefaultComponent = None
  Places = {1, 2}
  MaxIssues = 4
  Deliveries <- AllCases
  Contents = {"c1", "c2", "c3", "c4"}
  Names = {"a1", "a2"}
  Cids = {"id1", "id2"}
  Kinds <- TheKinds
  Alike <- TheAlike
  Mails <- TheMails
  MailScenes <- TheMailScenes
  MaxRuns = 3
  Images = {1, 2}
  Todos = {"t1", "t2"}
  MaxTodos = 3
  Letters <- TheLetters
  NodeScenes <- TheNodeScenes
  None = None
INVARIANTS
  IssueHasItsFiles
  OneArtifact
  TextShowsSavedImages
  
PROPERTIES
  StrangersUntouched
  
  ResultsSurvive
CHECK_DEADLOCK FALSE
