\* Two lives of a durable store, and a store with an event stream.
SPECIFICATION FairSpec
CONSTANT
  Deployments <- MCDeployments
INVARIANTS
  TypeOK
  DequeIsCurrent
  TableHoldsOutcomes
  DrainSavesDeque
  SubscriberIsCurrent
PROPERTIES
  OutcomesStay DropReturns
CHECK_DEADLOCK FALSE
