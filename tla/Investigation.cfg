SPECIFICATION FairSpec
CONSTANTS
  NarratorTools = {"splunk_search", "splunk_nl_search"}
  IntelTools = {"lookup_kev", "other"}
  maxRounds = 2
  hecMaxAttempts = 4
  MaxCalls = 2
  MaxTechs = 1
  MaxChains = 2
INVARIANTS CallsAnswered WriteBackHonest
PROPERTIES ImplementsReports CatalogueAnswersAlike EveryChainJudged
\* The last chain has been judged.
CHECK_DEADLOCK FALSE
