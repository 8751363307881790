CONSTANTS
  r1 = r1
  r2 = r2
  Slots = {1, 2}
  MaxTx = 3
  Plain = 1
  MaxIds = 6
  Requests = {r1, r2}
  MaxRequests = 3
  Nobody = Nobody
SPECIFICATION Spec
SYMMETRY Alike
CHECK_DEADLOCK FALSE
INVARIANTS RecordedOnceUnlessLinked OneToOne CyclesNeedSeveralRows
PROPERTIES DeletedTxSkips
