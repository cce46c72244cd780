SPECIFICATION FairSpec
CONSTANTS
  Subscribers = {s1}
  Outcomes = {"succeeded"}
  MaxOpen = 2
  MaxTurns = 2
INVARIANTS
  TypeOK StreamsEndTogether NothingMissed RepeatsOnlyIfJoinedDuring
  OvertakenOnlyWhileOpen EndsWithOutcome RowFollowsHub SectionIsRecent
PROPERTIES ImplementsStream
CHECK_DEADLOCK FALSE
