------------------------------ MODULE MCEvents ------------------------------
(* Three rows, two users; a bill of three, one of one, a payback.  An event is asked    *)
(* for the requests of its life, or for those that settle it.               *)
EXTENDS Events

f3(a, b, c) == [s \in {1, 2, 3} |-> CASE s = 1 -> a [] s = 2 -> b [] OTHER -> c]
MCSlots == {1, 2, 3}
MCUsers == {"ann", "bee"}
MCFirst == <<1, "ann">>
dinner  == [type |-> "expense", amount |-> 9, share |-> f3(3, 3, 3), paid |-> f3(9, 0, 0)]
payback == [type |-> "payback", amount |-> 4, share |-> f3(4, 0, 0), paid |-> f3(0, 4, 0)]
alone   == [type |-> "expense", amount |-> 4, share |-> f3(4, 0, 0), paid |-> f3(4, 0, 0)]
MCForms == {dinner, payback, alone}
life == [kinds |-> {"update", "complete", "delete", "transfer", "leave", "remove", "role",
                    "email", "invite", "name", "merge", "edit"},
         slots |-> {1, 2}, bills |-> {1}, forms |-> {payback, alone}, auto |-> {}]
\* Settled by two, without merges; by the owner, with merges; by two, with merges and two
\* bills; by two, with merges and edits of one bill.
settle == [kinds |-> {"complete", "email", "name", "pairs", "simplified"},
           slots |-> {1, 2, 3}, bills |-> {1, 2}, forms |-> {dinner, payback}, auto |-> {"bee"}]
merged == [kinds |-> {"complete", "name", "merge", "pairs", "simplified"},
           slots |-> {1, 2, 3}, bills |-> {1, 2}, forms |-> {dinner, payback}, auto |-> {}]
linked == [kinds |-> {"complete", "email", "name", "merge", "pairs", "simplified"},
           slots |-> {2, 3}, bills |-> {1, 2}, forms |-> {dinner, payback}, auto |-> {"bee"}]
edited == [kinds |-> {"complete", "email", "name", "edit", "merge", "pairs", "simplified"},
           slots |-> {2, 3}, bills |-> {1}, forms |-> {dinner, payback}, auto |-> {"bee"}]
MCScenes == {life, settle, merged, linked, edited}
=============================================================================
