SPECIFICATION Spec
CONSTANTS
  Users <- MCUsers
  Gone = Gone
  Inputs <- MCInputs
  Forms <- MCForms
  Creators = {1}
  Leavers = {2}
  Unlinkers = {3}
  AutoAccept = {2}
  AutoSync = {2}
  EventOwner = 1
  MaxChanges = 2
INVARIANT HoldersAreOnThePaper
INVARIANT StaleBooksAreTold
INVARIANT SyncedReadsInSync
CHECK_DEADLOCK FALSE
