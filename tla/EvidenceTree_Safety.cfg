CONSTANTS
  graphqlOrder = graphqlOrder
  databaseOrder = databaseOrder
  productPage = productPage
  checkoutJourney = checkoutJourney
  Absent = Absent
  Journal = Journal
  MaxRuns = 2
  Checks <- MCChecks
  KindOf <- MCKindOf
  WordsOf <- MCWordsOf
  Tasks <- MCTasks
SPECIFICATION TreeSpec
INVARIANTS
  ShelvesShowResults
  AnswersAreShelved
CHECK_DEADLOCK FALSE
