\* Two runs, answers of two pieces, two crashes of the agent, two lost connections.
SPECIFICATION MCSpec
CONSTANTS
  MaxRuns = 2
  MaxText = 2
  MaxCrash = 2
  MaxDrops = 2
INVARIANTS RunInv ConversationInv
PROPERTIES FollowerEnds CancelEnds
CHECK_DEADLOCK FALSE
