------------------------------- MODULE MCDebts -------------------------------
(* Two users and two papers, one owed each way.  A behaviour is one user's   *)
(* book, one user's rows and transactions, or the pair's papers; the last    *)
(* scene is long enough for both debts of a paper to lose their last part.   *)
EXTENDS Debts, TLC

MCUsers == {"ann", "bee"}
MCDebtor == (1 :> "ann") @@ (2 :> "bee")
MCSays == (1 :> 2) @@ (2 :> 1)
asked(kinds, users, papers, dates, with, max) ==
  [kinds |-> kinds, users |-> users, papers |-> papers, dates |-> dates, with |-> with, max |-> max]
MCScenes == {
  asked({"book", "create", "repay"}, {"ann"}, {}, {1, 2}, {"none"}, 3),
  asked({"book", "rows", "delete_tx", "edit_tx"}, {"ann"}, {}, {1}, {"none", "link"}, 3),
  asked({"papers"}, MCUsers, {1, 2}, {1}, {"none"}, 3),
  asked({"papers", "links"}, MCUsers, {1}, {1}, {"tx"}, 3),
  asked({"papers", "links"}, MCUsers, {1}, {1}, {}, 6)}
=============================================================================
