CONSTANTS
  Forms <- MCForms
  Endings <- MCEndings
  Starts <- MCStarts
  Looks <- MCLooks
  Near <- MCNear
  Moves <- MCMoves
  Horizon = 660
  MaxTouches = 2

INIT SchedulesInit
NEXT SchedulesNext
CHECK_DEADLOCK FALSE

INVARIANT InstallmentsKept
INVARIANT DuePagesAgree
PROPERTY ToldOnce
PROPERTY WaitingIsKept
