SPECIFICATION MpSpec
CONSTANTS
  Name <- MCName
  Trees <- MCTrees
  Requests <- MCRequests
  Universe <- MCUniverse
  MaxLinks = 3
  GuestDir <- MCGuestDir
  Status <- MCStatus
  Zero <- MCZero
  Word <- MCWord
  MaxWords = 3
  NoStatus <- MCNoStatus
CHECK_DEADLOCK FALSE
INVARIANTS CoveredStaysBelow GuestSeesTheSame AnswerIsTheCommands UndisturbedIsAnswered
PROPERTIES RefusedIsOutside
