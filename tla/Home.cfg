CONSTANTS
  Goals = {"car"}
  Wallets = {"cash"}
  SavingIds = {"e1", "e2", "e3", "e4"}
  Sums = {2}
  Targets = {3}
  Deposits <- cDeposits
  Rules <- cRules
  Starts <- cStarts
  Endings <- cEndings
  Amounts <- cAmounts
  Asks <- cAsks
  Days <- cDays
  Scopes <- cScopes
  Rows <- cRows
  Parent <- cParent
  MaxChanges = 3
  DateRules <- cDateRules
  Windows <- cWindows
  PeriodDays <- cPeriodDays
  Texts <- cTexts
  Legacy <- cLegacy
  RowIds = {"r1", "r2"}
  Turns = {"turn"}
  Taps = {"t1", "t2"}
  Submits = {"s1", "s2"}
  MaxBusy = 2
  MaxLosses = 1
  ListSets <- cLists
  Replies <- cReplies
  Users = {"ann", "bob", "cat"}
  People = {"ca", "cb", "cb2"}
  Owner <- cOwner
  Addresses <- cAddresses
  Notices = {"n1", "n2"}
  Entries = {"d1"}
  EntryOwner <- cEntryOwner
  Switches <- cSwitches
  LinkAsks = {"q1", "q2"}
  MaxEdits = 1
  CatIds = {"debt", "food", "sushi", "rent", "flat", "new"}
  CatNames = {"food", "sushi"}
  Seeded <- cSeeded
  FiledRows <- cFiledRows
  Orders <- cOrders
  CatCalls = {"k1", "k2"}
  MaxCalls = 3
  Persons = {"pa", "pb"}
  Chats = {"x", "y"}
  Updates = {"m1"}
  ChatOf <- cChatOf
  Logins = {"l1", "l2"}
  Registration = {TRUE, FALSE}
  MaxSteps = 5
  Datasets = {"recurring"}
  SourcesOf <- cSources
  Timed = {"rows"}
  ByDay = {"recurring"}
  Cells <- cCells
  Contents <- cContents
  MaxSavers = 2
  MaxSaves = 3
  SyncDays = 1
SPECIFICATION Spec
CHECK_DEADLOCK FALSE
INVARIANTS SavingsHold PeriodsHold CalendarHolds DraftsHold AnswersHold LinksHold TreeHolds NobodyLockedOut SyncHolds
