------------------------------ MODULE MCPapers ------------------------------
(* Three users; 2 joins and claims by a switch, 3 does neither.             *)
EXTENDS Papers

f3(a, b, c) == [u \in {1, 2, 3} |-> CASE u = 1 -> a [] u = 2 -> b [] OTHER -> c]
form(type, mode, amount, on, share, paid) ==
  [type |-> type, mode |-> mode, amount |-> amount, on |-> on, share |-> share, paid |-> paid]

MCUsers == {1, 2, 3}
MCInputs == {
  form("expense", "equal", 10, {1, 2, 3}, f3(0, 0, 0), f3(10, 0, 0)),
  form("income", "equal", 9, {1, 2}, f3(0, 0, 0), f3(9, 0, 0))}
claim(payDebt, bookDebts, skipTx, wallet) ==
  [payDebt |-> payDebt, bookDebts |-> bookDebts, skipTx |-> skipTx, wallet |-> wallet]
MCForms == {claim(TRUE, TRUE, FALSE, TRUE), claim(FALSE, FALSE, FALSE, TRUE)}
=============================================================================
