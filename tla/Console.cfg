\* Two lines typed at the console, with the processes in every interleaving.
SPECIFICATION FairSpec
CONSTANTS
  CallsOf <- Commands
  Replies <- Parts
  MaxCommands = 2
  Blocks = 1
INVARIANTS
  RepliesAreShown
  AnswersFit
  CommandsInTurn
  TransferIsFollowed
PROPERTY
  EveryLineReturns
\* A console that has quit, or is at its prompt for good, has stopped.
CHECK_DEADLOCK FALSE
