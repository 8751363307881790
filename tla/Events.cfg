SPECIFICATION Spec
CONSTANTS
  Slots <- MCSlots
  Users <- MCUsers
  NoUser = "none"
  First <- MCFirst
  Bills = {1, 2}
  BillForms <- MCForms
  Scenes <- MCScenes
  Caught = {"leave", "remove", "role", "update", "simplified", "edit", "merge"}
  MaxBetween = 1
INVARIANT NoEmptySpotOnCompleted
INVARIANT SimplifiedEvensOut
INVARIANT SettledIsMyNet
PROPERTY LockedUnlessRaced
CHECK_DEADLOCK FALSE
