SPECIFICATION Spec
CONSTANTS
  Users <- MCUsers
  Entries = {1, 2, 3, 4, 5, 6}
  Txs = {1, 2, 3}
  Papers = {1, 2}
  Debtor <- MCDebtor
  Says <- MCSays
  Amounts = {1, 2}
  Dates = {1, 2}
  Holders = {"ann"}
  AutoAccept <- MCUsers
  Scenes <- MCScenes
 
INVARIANT PartnersMutual
INVARIANT StatementAddsUp
INVARIANT MirroredWhenPaidDown
CHECK_DEADLOCK FALSE
