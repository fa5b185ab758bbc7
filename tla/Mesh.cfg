\* The example programs over a network that loses and duplicates.
SPECIFICATION FairSpec
CONSTANTS
  c1 = c1
  c2 = c2
  debugger = debugger
  Clients <- Asking
  Agents <- Serving
  Hub = Hub
  Nobody = Nobody
  Task <- Tasks
  Capabilities <- Offers
  MaxCopies = 1
  MaxRuns = 2
INVARIANTS
  TypeOK
  AnswersReachTheirAsker
  PendingExplained
PROPERTY
  AnsweredOnceCalm
