----------------------------- MODULE Categories -----------------------------
(***************************************************************************)
(* The tree of a user's categories (categories).  A category that is made  *)
(* or moved is checked against the tree with reads on the pool, and        *)
(* written by one statement later; a new order of many is checked on a     *)
(* list, and written by a statement for each in one transaction.  Nothing  *)
(* is locked in between.  What the database itself keeps is the index of   *)
(* names, the reference to the parent, and that nobody is their own        *)
(* parent.  Abstraction: the reads of one check are taken at one moment.   *)
(***************************************************************************)
EXTENDS Integers, Sequences, FiniteSets

CONSTANTS
  CatIds,       \* bound: the categories there may be
  CatNames,     \* bound: names, as the index compares them
  Seeded,       \* [id, name, type, system, up]: the categories a user begins with
  FiledRows,    \* the month's transactions: [id, cat]
  Orders,       \* bound: orders that are asked for, sequences of [id, up]
  CatCalls,     \* bound: requests in hand
  MaxCalls      \* bound: requests there are

\* A user begins with a tree of three levels at most; an order is a list of places; the month's rows
\* are finite in number, and a row is filed in a category there is, or in none.
ASSUME SeedsAreATree ==
  /\ "" \notin CatIds
  /\ \A s \in Seeded : /\ s.id \in CatIds /\ s.type \in {"expense", "income"} /\ s.system \in BOOLEAN
                       /\ s.up # "" => ~s.system /\ \E t \in Seeded :
                            /\ t.id = s.up /\ t.type = s.type /\ ~t.system
                            /\ t.up # "" => \E r \in Seeded : r.id = t.up /\ r.up = ""
  /\ \A s, t \in Seeded : s # t => s.id # t.id /\ (s.type = t.type /\ s.up = t.up => s.name # t.name)
ASSUME OrdersAreLists == \A puts \in Orders : puts \in Seq([id : CatIds, up : CatIds \cup {""}])
ASSUME RowsAreFiled ==
  /\ IsFiniteSet(FiledRows) /\ \A r \in FiledRows : r.cat \in {""} \cup {s.id : s \in Seeded}
  /\ \A r, s \in FiledRows : r.id = s.id => r = s

VARIABLES
  cat,          \* categories: [st, name, type, system, up]
  filed,        \* transactions.category_id
  calls,        \* [op, id, type, name, puts]: what a request will write
  overtaken,    \* history: a move was written while another placing was in hand, or a category that
                \* a new order moves lost its children while the order was
  called        \* bound: requests so far

catVars == <<cat, filed, calls, overtaken, called>>

maxDepth == 3
MaxHops  == 8       \* decorate, decorateMonth

NoCat  == [st |-> "none", name |-> "", type |-> "expense", system |-> FALSE, up |-> ""]
NoCall == [op |-> "idle", id |-> "", type |-> "expense", name |-> "", puts |-> <<>>]
NoTree == <<>>

LiveCat(c)   == cat[c].st = "live"
Ups          == [c \in CatIds |-> cat[c].up]
Under(c)     == {d \in CatIds : LiveCat(d) /\ cat[d].up = c}
FreeCall(q)  == called < MaxCalls /\ calls[q] = NoCall /\ \A p \in CatCalls : calls[p] = NoCall => q = CHOOSE r \in CatCalls : calls[r] = NoCall
Asked(q, call) == calls' = [calls EXCEPT ![q] = call] /\ called' = called + 1
Answered(q)  == calls' = [calls EXCEPT ![q] = NoCall] /\ called' = called

-----------------------------------------------------------------------------
(* What is read of the tree.                                               *)

\* What is above a category; above a root is nothing.
Above(up, c) == IF c = "" THEN "" ELSE up[c]

\* The category itself and what is above it, as far as anyone walks.
Chain(up, c) ==
  LET at[n \in 0..MaxHops] == IF n = 0 THEN c ELSE Above(up, at[n - 1])
  IN at

\* The tree as an order would have it: a category goes where it is put last.
Placed(up, puts) ==
  [c \in CatIds |->
     IF \E n \in DOMAIN puts : puts[n].id = c
     THEN puts[CHOOSE n \in DOMAIN puts : puts[n].id = c /\ \A m \in DOMAIN puts : puts[m].id = c => m <= n].up
     ELSE up[c]]

\* The levels down to it; what is deeper than the guard rail counts as one below it.
Level(up, c) == LET at == Chain(up, c) IN Cardinality({n \in 0..maxDepth : at[n] # ""})

\* The level a child of it has.
DepthFromParent(up) == 1 + Level(Ups, up)

IsDescendant(id, d) == LET at == Chain(Ups, d) IN \E n \in 0..MaxHops : at[n] = id

\* The walk down from a category comes back to it, and the one it looks for is not there.
NeverEnds(id, d) ==
  /\ ~IsDescendant(id, d)
  /\ LET at == Chain(Ups, id) IN \E n \in 1..MaxHops : at[n] = id

subtreeDepth(id) ==
  IF Under(id) = {} THEN 1 ELSE IF \A k \in Under(id) : Under(k) = {} THEN 2 ELSE 3

validParent(up, type) == up # "" => LiveCat(up) /\ cat[up].type = type /\ ~cat[up].system

\* The rows of the month in it and below it, by the walk up from each.
MonthRows(c) ==
  LET at == [r \in FiledRows |-> Chain(Ups, filed[r.id])]
  IN Cardinality({p \in FiledRows \X (0..MaxHops - 1) : at[p[1]][p[2]] = c})

-----------------------------------------------------------------------------
(* What the database keeps.                                                *)

\* idx_categories_name, categories_parent_id_fkey, chk_categories_no_self_parent.
Fits(tree, id, name, up) ==
  /\ up # id /\ (up # "" => tree[up].st = "live")
  /\ ~\E d \in CatIds \ {id} : tree[d].st = "live" /\ tree[d].type = tree[id].type
                               /\ tree[d].up = up /\ tree[d].name = name

\* The statements of a new order, one after the other; the index looks at each.
Ordered(puts) ==
  LET after[n \in 0..Len(puts)] ==
        IF n = 0 THEN cat
        ELSE IF /\ after[n - 1] # NoTree
                /\ after[n - 1][puts[n].id].st = "live"
                /\ Fits(after[n - 1], puts[n].id, after[n - 1][puts[n].id].name, puts[n].up)
             THEN [after[n - 1] EXCEPT ![puts[n].id].up = puts[n].up]
             ELSE NoTree
  IN after[Len(puts)]

\* A placing that goes below another category.
Places(q) == \E n \in DOMAIN calls[q].puts : calls[q].puts[n].up # ""
Moves(q)  == calls[q].op # "create" /\ Places(q)
Noted(q)  ==
  overtaken' = (overtaken \/ \E p \in CatCalls \ {q} : Places(p) /\ Places(q) /\ (Moves(p) \/ Moves(q)))

-----------------------------------------------------------------------------
(* The requests: what each is checked for, and what it writes.             *)

CreateCategory(q, c, type, name, up) ==
  /\ cat[c].st = "none" /\ \A p \in CatCalls : calls[p].id # c
  /\ validParent(up, type) /\ DepthFromParent(up) <= maxDepth
  /\ Asked(q, [op |-> "create", id |-> c, type |-> type, name |-> name, puts |-> <<[id |-> c, up |-> up]>>])
  /\ UNCHANGED <<cat, filed, overtaken>>

\* ... its row: the tree with it, if the database takes it.
WithNew(q) ==
  LET c   == calls[q].id
      row == [st |-> "live", name |-> calls[q].name, type |-> calls[q].type, system |-> FALSE, up |-> calls[q].puts[1].up]
  IN IF Fits([cat EXCEPT ![c] = row], c, row.name, row.up) THEN [cat EXCEPT ![c] = row] ELSE NoTree

\* Mutant: the category goes there alone.
MayMove_Alone(c, up) ==
  up # "" => validParent(up, cat[c].type) /\ ~IsDescendant(c, up) /\ DepthFromParent(up) <= maxDepth

\* A parent the category may be given: a root it always may.
MayMove(c, up) ==
  up # "" => /\ validParent(up, cat[c].type) /\ ~IsDescendant(c, up)
             /\ DepthFromParent(up) + subtreeDepth(c) <= maxDepth

\* A system category keeps its name and its place.
UpdateCategory(q, c, name, puts) ==
  /\ LiveCat(c) /\ ~cat[c].system
  /\ \A n \in DOMAIN puts : ~NeverEnds(c, puts[n].up) /\ MayMove(c, puts[n].up)
  /\ Asked(q, [op |-> "update", id |-> c, type |-> cat[c].type, name |-> name, puts |-> puts])
  /\ UNCHANGED <<cat, filed, overtaken>>

\* The walk for a cycle has met one that is there already: the request stays, and writes nothing.
UpdateNeverEnds(q, c, up) ==
  /\ LiveCat(c) /\ validParent(up, cat[c].type) /\ NeverEnds(c, up)
  /\ Asked(q, [NoCall EXCEPT !.op = "walking", !.id = c])
  /\ UNCHANGED <<cat, filed, overtaken>>

\* One statement: the fields that were named.
WithFields(q) ==
  LET c    == calls[q].id
      up   == IF calls[q].puts = <<>> THEN cat[c].up ELSE calls[q].puts[1].up
      name == IF calls[q].name = "" THEN cat[c].name ELSE calls[q].name
  IN IF LiveCat(c) /\ Fits(cat, c, name, up) THEN [cat EXCEPT ![c].name = name, ![c].up = up] ELSE NoTree

\* A new order that moves it, and others below others.
Rearranges(p, c) == calls[p].op = "reorder" /\ Places(p) /\ \E n \in DOMAIN calls[p].puts : calls[p].puts[n].id = c

\* Delete, up to ReparentChildren: one statement takes all of them a level up.
DeleteCategory(q, c) ==
  /\ LiveCat(c) /\ ~cat[c].system
  /\ \E tree \in {[d \in CatIds |-> IF LiveCat(d) /\ cat[d].up = c THEN [cat[d] EXCEPT !.up = cat[c].up] ELSE cat[d]]} :
       /\ \A d \in Under(c) : Fits(tree, d, tree[d].name, tree[d].up)
       /\ cat' = tree
  /\ Asked(q, [NoCall EXCEPT !.op = "delete", !.id = c])
  /\ overtaken' = (overtaken \/ \E p \in CatCalls : Rearranges(p, c))
  /\ UNCHANGED filed

\* HardDelete: a child that came since holds it.
Without(q) ==
  LET c == calls[q].id
  IN IF LiveCat(c) /\ Under(c) = {} THEN [cat EXCEPT ![c] = [NoCat EXCEPT !.st = "gone"]] ELSE NoTree

\* Reorder: the whole tree as it would be.
ReorderCategories(q, puts) ==
  /\ \A n \in DOMAIN puts :
       /\ LiveCat(puts[n].id) /\ (cat[puts[n].id].system => puts[n].up = "")
       /\ validParent(puts[n].up, cat[puts[n].id].type)
  /\ \E up \in {Placed(Ups, puts)} :
       /\ \A c \in CatIds : LiveCat(c) => Level(up, c) <= maxDepth
       /\ \A c, d \in CatIds : LiveCat(c) /\ LiveCat(d) /\ c # d /\ cat[c].type = cat[d].type /\ up[c] = up[d]
                               => cat[c].name # cat[d].name
  /\ Asked(q, [NoCall EXCEPT !.op = "reorder", !.puts = puts])
  /\ UNCHANGED <<cat, filed, overtaken>>

\* The tree a request leaves, if the database takes what it writes.
Result(q) ==
  CASE calls[q].op = "create"  -> WithNew(q)
    [] calls[q].op = "update"  -> WithFields(q)
    [] calls[q].op = "delete"  -> Without(q)
    [] calls[q].op = "reorder" -> Ordered(calls[q].puts)
    [] OTHER                   -> NoTree

\* A deleted category's transactions stay, without a category.
Writes(q) ==
  /\ Answered(q) /\ Noted(q)
  /\ \E tree \in {Result(q)} :
       /\ tree # NoTree /\ cat' = tree
       /\ filed' = [r \in DOMAIN filed |-> IF filed[r] # "" /\ tree[filed[r]].st = "gone" THEN "" ELSE filed[r]]

\* The database refuses, or the category is gone; of a delete the first statement stays.  Two new
\* orders may also wait for each other's rows, until the database ends one of them.
CallFails(q) ==
  /\ calls[q].op \in {"create", "update", "delete", "reorder"} /\ Answered(q)
  /\ \/ Result(q) = NoTree
     \/ calls[q].op = "reorder" /\ \E p \in CatCalls \ {q} : calls[p].op = "reorder"
  /\ UNCHANGED <<cat, filed, overtaken>>

-----------------------------------------------------------------------------
CategoriesInit ==
  /\ cat = [c \in CatIds |-> IF \E s \in Seeded : s.id = c
                             THEN LET s == CHOOSE s \in Seeded : s.id = c
                                  IN [st |-> "live", name |-> s.name, type |-> s.type, system |-> s.system, up |-> s.up]
                             ELSE NoCat]
  /\ filed = [i \in {r.id : r \in FiledRows} |-> (CHOOSE r \in FiledRows : r.id = i).cat]
  /\ calls = [q \in CatCalls |-> NoCall] /\ overtaken = FALSE /\ called = 0

CategoryAsks(q) ==
  /\ FreeCall(q)
  /\ \/ \E c \in CatIds :
          \/ \E type \in {"income", "expense"}, name \in CatNames, up \in CatIds \cup {""} : CreateCategory(q, c, type, name, up)
          \/ \E name \in CatNames : UpdateCategory(q, c, name, <<>>)
          \/ \E up \in CatIds \cup {""} : UpdateCategory(q, c, "", <<[id |-> c, up |-> up]>>)
          \/ \E up \in CatIds : UpdateNeverEnds(q, c, up)
          \/ DeleteCategory(q, c)
     \/ \E puts \in Orders : ReorderCategories(q, puts)

CategoriesNext ==
  \E q \in CatCalls :
    CategoryAsks(q) \/ Writes(q) \/ CallFails(q)

-----------------------------------------------------------------------------
CategoriesTypeOK ==
  /\ \A c \in CatIds : cat[c].st \in {"none", "live", "gone"} /\ cat[c].up \in CatIds \cup {""}
  /\ \A q \in CatCalls : calls[q].op \in {"idle", "create", "update", "delete", "reorder", "walking"}

\* Siblings of a type have different names; a parent is there, of the same type, and no system
\* category, which is a root itself.  While no move was written with another placing in hand, and
\* none of a new order's categories lost its children before the order was written, the tree has no
\* more than its three levels, no request walks it for ever, and what the month counts of its roots
\* and of the rows without a category is every row once.
TreeIsSound ==
  /\ CategoriesTypeOK
  /\ \A c, d \in CatIds : LiveCat(c) /\ LiveCat(d) /\ c # d /\ cat[c].type = cat[d].type /\ cat[c].up = cat[d].up
                          => cat[c].name # cat[d].name
  /\ \A c \in CatIds : LiveCat(c) => validParent(cat[c].up, cat[c].type) /\ (cat[c].system => cat[c].up = "")
  /\ ~overtaken =>
       /\ \A c \in CatIds : LiveCat(c) => Level(Ups, c) <= maxDepth
       /\ \A q \in CatCalls : calls[q].op # "walking"
       /\ LET counted == [c \in CatIds |-> IF Ups[c] = "" THEN MonthRows(c) ELSE 0]
              tops    == {p \in CatIds \X (1..Cardinality(FiledRows)) : p[2] <= counted[p[1]]}
          IN Cardinality(tops) + Cardinality({r \in DOMAIN filed : filed[r] = ""}) = Cardinality(FiledRows)
=============================================================================
