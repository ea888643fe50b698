SPECIFICATION FairSpec
CONSTANTS
  Requests = {r1, r2}
  Companion = r2
  Hooks <- MCLongLists
  Metered = 2
  MaxRetry = 2
ACTION_CONSTRAINT BriefCompanion
INVARIANTS
  HandlerIsGuarded
  RetryRepeatsOnlyCore
  FailuresAreContained
  OutgoingAppliedOnce
  InFlightExact
PROPERTY
  EveryRequestSettles
