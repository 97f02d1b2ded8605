SPECIFICATION FairSpec
CONSTANTS
  Processes = {p}
  MaxVersions = 2
  \* the agent
  Turns = {t}
  MaxModelCalls = 2
  MaxToolCalls = 2
  \* the older pipeline
  n1 = n1
  n2 = n2
  Names = {n1, n2}
  Schemas <- TwoSchemas
  MaxFixes = 3
  NodeLimit = 25
  \* the services
  Objects = {a, b, c}
  MaxObjects = 2
  ToolRounds = 2
  MaxBatch = 2
  \* inferred plans
  FieldsOf <- MCFields
  TypeOf <- MCTypes
  Members <- MCMembers
  SourceOf <- MCSource
  Hive = {"warehouse"}
  Published = {"warehouse", "other"}
  Policied = {"a", "b", "c", "d", "y", "z"}
  Evidence <- MCEvidence
  TestWorlds <- MCWorlds
  Drafts <- MCDrafts
  \* programs of steps, texts and periods
  Ontologies <- MCOntologies
  StepDrafts <- MCStepDrafts
  TextRequests <- MCTexts
  QueryWorlds <- MCQueryWorlds
  Periodical <- MCPeriodical
  Calendar <- MCCalendar
  \* packages
  PackageDrafts <- DraftsOfPackages
  HandGraphs <- GraphsByHand
  ListingOrders <- MCOrders
  Clean <- MCClean
  Upper <- MCUpper
  SuffixOf <- MCSuffix
  BadNames = {"9 lives"}
  Credentials = {"password", "token"}
  MaxDepth = 3
  MaxNodes = 3
  MaxItems = 2
  MaxEdges = 5
  ScanTerms = 2
  ScanEdges = 3
INVARIANTS
  TypeOK
  DeliveredIsSound
  BudgetsHold
  ProgramsComputeTheirPlan
  QueriesMeanTheRequest
  PackageMeansDraft
PROPERTIES
  EveryRequestIsAnswered
\* When the request is answered, nothing is left to do.
CHECK_DEADLOCK FALSE
