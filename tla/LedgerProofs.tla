---------------------------- MODULE LedgerProofs ----------------------------
(***************************************************************************)
(* The ledger's promises, proved for every number of wallets, users,       *)
(* requests and rows.                                                      *)
(*                                                                         *)
(* The inductive invariant is IInv of LedgerProps.  Each of its parts has  *)
(* a lemma per kind of step: a request that starts, takes a lock, commits  *)
(* or ends.  The theorems are at the end of the module.                    *)
(***************************************************************************)
EXTENDS LedgerProps, TLAPS, FiniteSetTheorems, WellFoundedInduction

-----------------------------------------------------------------------------
(* The sums of the ledger (PartialSums), for every number of rows.         *)
(* Induction over the rows is written as the least-number principle: a set *)
(* of naturals has a least element, so the set of rows up to which a fact  *)
(* fails is empty.                                                         *)

\* A set of naturals has a least element.
LEMMA NatMin ==
  ASSUME NEW T, T \subseteq Nat, T # {}
  PROVE  \E x \in T : \A y \in T : x <= y
<1> DEFINE upTo == {0 .. x : x \in T}
<1>1. ASSUME NEW x \in T PROVE 0 .. x \in FiniteSubsetsOf(Nat)
  <2>1. IsFiniteSet(0 .. x)
    <3>1. 0 \in Int /\ x \in Int
      OBVIOUS
    <3> QED BY <3>1, FS_Interval
  <2> QED BY <2>1 DEF FiniteSubsetsOf
<1>2. PICK X \in upTo : \A Y \in upTo : <<Y, X>> \notin StrictSubsetOrdering(Nat)
  <2>1. upTo \subseteq FiniteSubsetsOf(Nat) /\ upTo # {}
    BY <1>1
  <2> HIDE DEF upTo
  <2>2. IsWellFoundedOn(StrictSubsetOrdering(Nat), FiniteSubsetsOf(Nat))
    BY FS_StrictSubsetOrderingWellFounded
  <2> QED BY <2>1, <2>2, WFMin, Zenon
<1>3. PICK x \in T : X = 0 .. x
  OBVIOUS
<1>4. ASSUME NEW y \in T, y < x
      PROVE  <<0 .. y, 0 .. x>> \in StrictSubsetOrdering(Nat)
  <2>1. 0 .. y \in SUBSET Nat /\ 0 .. x \in SUBSET Nat /\ 0 .. y \subseteq 0 .. x
    BY <1>4
  <2>2. 0 .. y # 0 .. x
    BY <1>4
  <2> QED BY <2>1, <2>2 DEF StrictSubsetOrdering
<1>5. ASSUME NEW y \in T PROVE ~ (y < x)
  BY <1>2, <1>3, <1>4, <1>5
<1> QED BY <1>5

\* The recursive definition, as the choice it stands for.
LEMMA PartialSumsUnfold ==
  ASSUME NEW f
  PROVE  PartialSums(f) = CHOOSE s : s = [n \in 0 .. MaxRows |-> IF n = 0 THEN 0 ELSE s[n-1] + f[n]]
BY DEF PartialSums

\* g holds the running sums of f over 1 .. n.
IsSumTo(f, n, g) == g \in [0 .. n -> Int] /\ g[0] = 0 /\ \A k \in 1 .. n : g[k] = g[k-1] + f[k]

\* The running sums exist, start at 0 and grow by f, so the recursive
\* definition has the meaning it is written with.
LEMMA PartialSumsDef ==
  ASSUME NEW f \in [Rows -> Int]
  PROVE  /\ PartialSums(f) \in [0 .. MaxRows -> Int]
         /\ PartialSums(f)[0] = 0
         /\ \A n \in Rows : PartialSums(f)[n] = PartialSums(f)[n-1] + f[n]
<1> USE BoundsAssumption
<1> DEFINE Bad == {n \in 0 .. MaxRows : ~ \E g : IsSumTo(f, n, g)}
<1>1. Bad = {}
  <2> SUFFICES ASSUME Bad # {} PROVE FALSE
    OBVIOUS
  <2>1. PICK m \in Bad : \A n \in Bad : m <= n
    <3>1. Bad \subseteq Nat
      OBVIOUS
    <3> HIDE DEF Bad
    <3> QED BY <3>1, NatMin
  <2>2. CASE m = 0
    <3>1. IsSumTo(f, 0, [k \in 0 .. 0 |-> 0])
      BY DEF IsSumTo
    <3> QED BY <3>1, <2>1, <2>2
  <2>3. CASE m # 0
    <3>1. m - 1 \in 0 .. MaxRows /\ m - 1 \notin Bad
      BY <2>1, <2>3
    <3>2. PICK g : IsSumTo(f, m - 1, g)
      BY <3>1
    <3> DEFINE h == [k \in 0 .. m |-> IF k = m THEN g[m - 1] + f[m] ELSE g[k]]
    <3>3. f[m] \in Int
      BY <2>3 DEF Rows
    <3>4. h \in [0 .. m -> Int]
      BY <3>2, <3>3, <2>3 DEF IsSumTo
    <3>5. h[0] = 0
      BY <3>2, <2>3 DEF IsSumTo
    <3>6. \A k \in 1 .. m : h[k] = h[k-1] + f[k]
      BY <3>2, <2>3 DEF IsSumTo
    <3>7. IsSumTo(f, m, h)
      BY <3>4, <3>5, <3>6 DEF IsSumTo
    <3> QED BY <3>7, <2>1
  <2> QED BY <2>2, <2>3
<1>2. PICK g : IsSumTo(f, MaxRows, g)
  <2>1. MaxRows \in 0 .. MaxRows
    OBVIOUS
  <2> QED BY <1>1, <2>1
<1>3. g = [n \in 0 .. MaxRows |-> IF n = 0 THEN 0 ELSE g[n-1] + f[n]]
  BY <1>2 DEF IsSumTo
<1>4. PartialSums(f) = [n \in 0 .. MaxRows |-> IF n = 0 THEN 0 ELSE PartialSums(f)[n-1] + f[n]]
  <2> DEFINE sums(s) == s = [n \in 0 .. MaxRows |-> IF n = 0 THEN 0 ELSE s[n-1] + f[n]]
  <2>1. \E s : sums(s)
    BY <1>3
  <2>2. PartialSums(f) = CHOOSE s : sums(s)
    BY PartialSumsUnfold
  <2> HIDE DEF sums
  <2>3. sums(PartialSums(f))
    BY <2>1, <2>2
  <2> QED BY <2>3 DEF sums
<1>5. \A n \in 0 .. MaxRows : PartialSums(f)[n] = IF n = 0 THEN 0 ELSE PartialSums(f)[n-1] + f[n]
  BY <1>4
<1> DEFINE Odd == {n \in 0 .. MaxRows : PartialSums(f)[n] \notin Int}
<1>6. Odd = {}
  <2> SUFFICES ASSUME Odd # {} PROVE FALSE
    OBVIOUS
  <2>1. PICK m \in Odd : \A n \in Odd : m <= n
    <3>1. Odd \subseteq Nat
      OBVIOUS
    <3> HIDE DEF Odd
    <3> QED BY <3>1, NatMin
  <2>2. m # 0
    BY <1>5
  <2>3. m - 1 \in 0 .. MaxRows /\ m - 1 \notin Odd /\ f[m] \in Int
    BY <2>1, <2>2 DEF Rows
  <2> QED BY <1>5, <2>2, <2>3
<1>7. PartialSums(f) \in [0 .. MaxRows -> Int]
  BY <1>4, <1>6
<1> QED BY <1>5, <1>7 DEF Rows

\* A sum changes by what changed at i.
LEMMA SumUpdate ==
  ASSUME NEW f \in [Rows -> Int], NEW g \in [Rows -> Int], NEW i \in Rows,
         \A j \in Rows \ {i} : g[j] = f[j]
  PROVE  PartialSums(g)[MaxRows] = PartialSums(f)[MaxRows] + g[i] - f[i]
<1> USE BoundsAssumption
<1> DEFINE F == PartialSums(f)
           G == PartialSums(g)
           Bad == {n \in 0 .. MaxRows : G[n] # IF n < i THEN F[n] ELSE F[n] + g[i] - f[i]}
<1>1. /\ F \in [0 .. MaxRows -> Int] /\ F[0] = 0 /\ \A n \in Rows : F[n] = F[n-1] + f[n]
      /\ G \in [0 .. MaxRows -> Int] /\ G[0] = 0 /\ \A n \in Rows : G[n] = G[n-1] + g[n]
  BY PartialSumsDef
<1> HIDE DEF F, G
<1>2. Bad = {}
  <2> SUFFICES ASSUME Bad # {} PROVE FALSE
    OBVIOUS
  <2>1. PICK m \in Bad : \A n \in Bad : m <= n
    <3>1. Bad \subseteq Nat
      OBVIOUS
    <3> HIDE DEF Bad
    <3> QED BY <3>1, NatMin
  <2>2. m # 0
    BY <1>1 DEF Rows
  <2>3. m \in Rows /\ m - 1 \in 0 .. MaxRows /\ m - 1 \notin Bad
    BY <2>1, <2>2 DEF Rows
  <2>4. f[m] \in Int /\ g[m] \in Int /\ f[i] \in Int /\ g[i] \in Int /\ F[m-1] \in Int
    BY <1>1, <2>3
  <2>5. G[m] = G[m-1] + g[m] /\ F[m] = F[m-1] + f[m]
    BY <1>1, <2>3
  <2>6. CASE m = i
    BY <2>3, <2>4, <2>5, <2>6 DEF Rows
  <2>7. CASE m # i
    BY <2>3, <2>4, <2>5, <2>7 DEF Rows
  <2> QED BY <2>6, <2>7
<1>3. MaxRows \in 0 .. MaxRows /\ ~ (MaxRows < i)
  BY DEF Rows
<1>4. G[MaxRows] = F[MaxRows] + g[i] - f[i]
  BY <1>2, <1>3
<1> QED BY <1>4 DEF F, G

\* A sum of zeros is zero.
LEMMA SumOfZeros ==
  ASSUME NEW f \in [Rows -> Int], \A i \in Rows : f[i] = 0
  PROVE  PartialSums(f)[MaxRows] = 0
<1> USE BoundsAssumption
<1> DEFINE F == PartialSums(f)
           Bad == {n \in 0 .. MaxRows : F[n] # 0}
<1>1. F[0] = 0 /\ \A n \in Rows : F[n] = F[n-1] + f[n]
  BY PartialSumsDef
<1> HIDE DEF F
<1>2. Bad = {}
  <2> SUFFICES ASSUME Bad # {} PROVE FALSE
    OBVIOUS
  <2>1. PICK m \in Bad : \A n \in Bad : m <= n
    <3>1. Bad \subseteq Nat
      OBVIOUS
    <3> HIDE DEF Bad
    <3> QED BY <3>1, NatMin
  <2>2. m \in Rows /\ m - 1 \in 0 .. MaxRows /\ m - 1 \notin Bad
    BY <1>1, <2>1 DEF Rows
  <2> QED BY <1>1, <2>2
<1>3. F[MaxRows] = 0
  BY <1>2
<1> QED BY <1>3 DEF F
-----------------------------------------------------------------------------
(* The steps.                                                              *)

\* Edits and deletions turn a transaction into a transaction.
LEMMA RowTypes ==
  /\ NoRow \in Transaction
  /\ \A t \in Transaction : WalletsOf(t) \subseteq Wallets
  /\ \A t \in Transaction, w \in Wallets : signedDelta(t, w) \in Int
  /\ \A t \in Transaction, c \in UpdateRequest : UpdateRow(t, c) \in Transaction
  /\ \A t \in Transaction, w \in Wallets \cup {NoWallet} : WithoutWallet(t, w) \in Transaction
<1>1. NoRow \in Transaction
  BY DEF NoRow, Transaction
<1>2. \A t \in Transaction, w \in Wallets : signedDelta(t, w) \in Int
  BY DEF Transaction, signedDelta
<1>3. \A t \in Transaction : WalletsOf(t) \subseteq Wallets
  BY DEF Transaction, WalletsOf
<1>4. \A t \in Transaction, c \in UpdateRequest : UpdateRow(t, c) \in Transaction
  BY AmountsAssumption DEF UpdateRow, UpdateRequest, Transaction
<1>5. \A t \in Transaction, w \in Wallets \cup {NoWallet} : WithoutWallet(t, w) \in Transaction
  BY <1>1 DEF WithoutWallet, Transaction
<1> QED BY <1>1, <1>2, <1>3, <1>4, <1>5

\* What a request is made of is of its kind.
LEMMA RequestTypes ==
  /\ Idle \in Request
  /\ NoChange \in UpdateRequest
  /\ \A W \in SUBSET Wallets : WalletKeys(W) \in SUBSET Keys
  /\ \A i \in Rows : <<"row", i>> \in Keys
  /\ \A c \in UpdateRequest : Sent(c) \in SUBSET Wallets
  /\ \A t \in Transaction, c \in UpdateRequest :
       /\ EditLocks(t, c) \in SUBSET Wallets
       /\ OldWalletFirst(t, c) \in Wallets \cup {NoWallet}
  /\ \A t \in Transaction : linkedChanges(t) \subseteq UpdateRequest
<1>1. NoChange \in UpdateRequest
  BY DEF NoChange, UpdateRequest
<1>2. Idle \in Request
  BY <1>1, RowTypes DEF Idle, Request
<1>3. \A W \in SUBSET Wallets : WalletKeys(W) \in SUBSET Keys
  BY DEF WalletKeys, Keys
<1>4. \A i \in Rows : <<"row", i>> \in Keys
  BY DEF Keys
<1>5. \A c \in UpdateRequest : Sent(c) \in SUBSET Wallets
  BY DEF UpdateRequest, Sent
<1>6. \A t \in Transaction, c \in UpdateRequest : EditLocks(t, c) \in SUBSET Wallets
  BY <1>5, RowTypes DEF EditLocks
<1>7. ASSUME NEW t \in Transaction, NEW c \in UpdateRequest
      PROVE  OldWalletFirst(t, c) \in Wallets \cup {NoWallet}
  <2>1. WalletsOf(t) # {} => (CHOOSE w \in WalletsOf(t) : TRUE) \in WalletsOf(t)
    OBVIOUS
  <2> QED BY <2>1, RowTypes DEF OldWalletFirst
<1>8. ASSUME NEW t \in Transaction
      PROVE  linkedChanges(t) \subseteq UpdateRequest
  BY <1>1 DEF linkedChanges, NoChange, UpdateRequest
<1> QED BY <1>1, <1>2, <1>3, <1>4, <1>5, <1>6, <1>7, <1>8

-----------------------------------------------------------------------------
(* Types.                                                                  *)

\* The type invariant holds at the start.
LEMMA TypeInit == Init => TypeOK
<1> SUFFICES ASSUME Init PROVE TypeOK
  OBVIOUS
<1>1. rows \in [Rows -> Transaction]
  BY SeedsAssumption DEF Init, Tables
<1>2. \A w \in Wallets : LedgerSum(w) \in Int
  <2> SUFFICES ASSUME NEW w \in Wallets PROVE LedgerSum(w) \in Int
    OBVIOUS
  <2>1. [i \in Rows |-> signedDelta(rows[i], w)] \in [Rows -> Int]
    BY <1>1, RowTypes
  <2>2. MaxRows \in 0 .. MaxRows
    BY BoundsAssumption
  <2> QED BY <2>1, <2>2, PartialSumsDef DEF LedgerSum
<1> QED BY <1>1, <1>2, RequestTypes DEF Init, TypeOK

\* ... and is kept by a request that inserts a row,
LEMMA InsertType ==
  ASSUME TypeOK, NEW r \in Requests, NEW u \in Users, NEW t \in Transaction, Insert(r, u, t)
  PROVE  TypeOK'
<1>1. nextRow \in Rows /\ nextRow' \in 1 .. MaxRows + 1
  BY BoundsAssumption DEF Insert, Rows, TypeOK
<1>2. [Idle EXCEPT !.pc = "locking", !.op = "insert", !.user = u, !.row = nextRow,
                   !.old = t, !.need = WalletKeys(WalletsOf(t)),
                   !.gated = WalletsOf(t)] \in Request
  BY <1>1, RowTypes, RequestTypes DEF Request
<1> QED BY <1>1, <1>2 DEF Insert, Start, TypeOK

\* ... by every request that starts,
LEMMA BeginType ==
  ASSUME TypeOK, NEW r \in Requests, NEW u \in Users, Begin(r, u)
  PROVE  TypeOK'
<1>1. CASE createSingle(r, u)
  <2>1. PICK class \in {"plain", "onesided", "debt"}, dir \in {"out", "in"},
             a \in Amounts, w \in Wallets \cup {NoWallet} :
          Insert(r, u, single(class, dir, u, a, w))
    BY <1>1 DEF createSingle
  <2>2. single(class, dir, u, a, w) \in Transaction
    BY AmountsAssumption DEF single, Transaction, Classes, Dirs
  <2> QED BY <2>1, <2>2, InsertType
<1>2. CASE createTransfer(r, u)
  <2>1. PICK a \in Amounts, src \in Wallets, dst \in Wallets : Insert(r, u, transfer(u, a, src, dst))
    BY <1>2 DEF createTransfer
  <2>2. transfer(u, a, src, dst) \in Transaction
    BY AmountsAssumption DEF transfer, Transaction, Classes, Dirs
  <2> QED BY <2>1, <2>2, InsertType
<1>3. CASE AdjustBalance(r, u)
  <2>1. PICK w \in Wallets, new \in Amounts \cup {0} :
          /\ new # balance[w]
          /\ Insert(r, u, IF new > balance[w]
                            THEN single("system", "in", u, new - balance[w], w)
                            ELSE single("system", "out", u, balance[w] - new, w))
    BY <1>3 DEF AdjustBalance
  <2>2. (IF new > balance[w]
           THEN single("system", "in", u, new - balance[w], w)
           ELSE single("system", "out", u, balance[w] - new, w)) \in Transaction
    BY <2>1, AmountsAssumption DEF single, Transaction, Classes, Dirs, TypeOK
  <2> QED BY <2>1, <2>2, InsertType
<1>4. CASE updateRow(r, u)
  <2>1. PICK i \in Rows, c \in UpdateRequest, noted \in BOOLEAN :
          /\ nextRow' = nextRow
          /\ Start(r, [Idle EXCEPT !.pc = "locking", !.op = "edit", !.noted = noted, !.user = u,
                !.row = i, !.old = rows[i], !.change = c,
                !.need = WalletKeys(EditLocks(rows[i], c)) \cup {<<"row", i>>},
                !.gated = Sent(c), !.first = OldWalletFirst(rows[i], c)])
    BY <1>4 DEF updateRow
  <2>2. rows[i] \in Transaction
    BY DEF TypeOK
  <2>3. [Idle EXCEPT !.pc = "locking", !.op = "edit", !.noted = noted, !.user = u,
                !.row = i, !.old = rows[i], !.change = c,
                !.need = WalletKeys(EditLocks(rows[i], c)) \cup {<<"row", i>>},
                !.gated = Sent(c), !.first = OldWalletFirst(rows[i], c)] \in Request
    BY <2>2, RequestTypes DEF Request
  <2> QED BY <2>1, <2>3 DEF Start, TypeOK
<1>5. CASE deleteRow(r, u)
  <2>1. PICK i \in Rows :
          /\ nextRow' = nextRow
          /\ Start(r, [Idle EXCEPT !.pc = "locking", !.op = "delete", !.user = u, !.row = i,
                             !.old = rows[i],
                             !.need = WalletKeys(WalletsOf(rows[i])) \cup {<<"row", i>>}])
    BY <1>5 DEF deleteRow
  <2>2. rows[i] \in Transaction
    BY DEF TypeOK
  <2>3. [Idle EXCEPT !.pc = "locking", !.op = "delete", !.user = u, !.row = i,
                     !.old = rows[i],
                     !.need = WalletKeys(WalletsOf(rows[i])) \cup {<<"row", i>>}] \in Request
    BY <2>2, RowTypes, RequestTypes DEF Request
  <2> QED BY <2>1, <2>3 DEF Start, TypeOK
<1>6. CASE linkedWrite(r, u)
  <2>1. PICK i \in Rows : \E ch \in {"delete"} \X {NoChange} \cup {"edit"} \X linkedChanges(rows[i]) :
          /\ nextRow' = nextRow
          /\ Start(r, [Idle EXCEPT !.pc = "locking", !.op = ch[1], !.linked = TRUE, !.user = u,
                !.row = i, !.change = ch[2], !.need = {<<"row", i>>},
                !.gated = Sent(ch[2])])
    BY <1>6 DEF linkedWrite
  <2> PICK ch \in {"delete"} \X {NoChange} \cup {"edit"} \X linkedChanges(rows[i]) :
          /\ nextRow' = nextRow
          /\ Start(r, [Idle EXCEPT !.pc = "locking", !.op = ch[1], !.linked = TRUE, !.user = u,
                !.row = i, !.change = ch[2], !.need = {<<"row", i>>},
                !.gated = Sent(ch[2])])
    BY <2>1
  <2>2. ch[1] \in {"edit", "delete"} /\ ch[2] \in UpdateRequest
    BY RequestTypes DEF TypeOK
  <2>3. [Idle EXCEPT !.pc = "locking", !.op = ch[1], !.linked = TRUE, !.user = u,
                !.row = i, !.change = ch[2], !.need = {<<"row", i>>},
                !.gated = Sent(ch[2])] \in Request
    BY <2>2, RequestTypes DEF Request
  <2> QED BY <2>1, <2>3 DEF Start, TypeOK
<1>7. CASE dropWallet(r, u)
  <2>1. PICK w \in Wallets :
          /\ nextRow' = nextRow
          /\ Start(r, [Idle EXCEPT !.pc = "locking", !.op = "drop", !.user = u,
                             !.need = {<<"wallet", w>>}, !.first = w])
    BY <1>7 DEF dropWallet
  <2>2. [Idle EXCEPT !.pc = "locking", !.op = "drop", !.user = u,
                     !.need = {<<"wallet", w>>}, !.first = w] \in Request
    <3>1. {<<"wallet", w>>} \in SUBSET Keys
      BY DEF Keys
    <3> QED BY <3>1, RequestTypes DEF Request
  <2> QED BY <2>1, <2>2 DEF Start, TypeOK
<1> QED BY <1>1, <1>2, <1>3, <1>4, <1>5, <1>6, <1>7 DEF Begin

\* ... by one that takes a lock,
LEMMA LockType ==
  ASSUME TypeOK, NEW r \in Requests, LockAccountsForUpdate(r)
  PROVE  TypeOK'
<1>1. PICK k \in request[r].need :
        /\ holder' = [holder EXCEPT ![k] = r]
        /\ request' = [request EXCEPT ![r] = Locked(request[r], k)]
        /\ UNCHANGED <<rows, nextRow, balance, status, stale, begun, flips>>
  BY DEF LockAccountsForUpdate
<1> DEFINE q == request[r]
<1>2. q \in Request /\ k \in Keys
  BY DEF TypeOK, Request
<1>3. Locked(q, k) \in Request
  <2> HIDE DEF q
  <2>1. CASE q.linked /\ k[1] = "row"
    <3>1. k[2] \in Rows
      BY <1>2, <2>1 DEF Keys
    <3>2. rows[k[2]] \in Transaction
      BY <3>1 DEF TypeOK
    <3>3. WalletKeys(WalletsOf(rows[k[2]]) \cup Sent(q.change)) \in SUBSET Keys
      BY <1>2, <3>2, RowTypes, RequestTypes DEF Request
    <3>4. [q EXCEPT !.old = rows[k[2]],
                    !.need = WalletKeys(WalletsOf(rows[k[2]]) \cup Sent(q.change))] \in Request
      BY <1>2, <3>2, <3>3 DEF Request
    <3> QED BY <2>1, <3>4 DEF Locked
  <2>2. CASE ~ (q.linked /\ k[1] = "row") /\ q.op = "drop" /\ k[1] = "wallet"
    <3>1. {<<"row", i>> : i \in {x \in Rows : k[2] \in WalletsOf(rows[x])}} \in SUBSET Keys
      BY RequestTypes
    <3>2. [q EXCEPT !.need = {<<"row", i>> : i \in {x \in Rows : k[2] \in WalletsOf(rows[x])}}]
            \in Request
      BY <1>2, <3>1 DEF Request
    <3> QED BY <2>2, <3>2 DEF Locked
  <2>3. CASE ~ (q.linked /\ k[1] = "row") /\ ~ (q.op = "drop" /\ k[1] = "wallet")
    <3>1. [q EXCEPT !.need = q.need \ {k}] \in Request
      BY <1>2 DEF Request
    <3> QED BY <2>3, <3>1 DEF Locked
  <2> QED BY <2>1, <2>2, <2>3
<1> QED BY <1>1, <1>2, <1>3 DEF TypeOK

\* ... by one that ends (what a rollback, a victim and a commit share),
LEMMA FinishType ==
  ASSUME TypeOK, NEW r \in Requests, Finish(r)
  PROVE  /\ holder' \in [Keys -> Requests \cup {Nobody}]
         /\ request' \in [Requests -> Request]
BY RequestTypes DEF Finish, TypeOK

\* ... and by one that commits,
LEMMA CommitType ==
  ASSUME TypeOK, NEW r \in Requests,
         CommitInsert(r) \/ CommitUpdate(r) \/ CommitDelete(r) \/ CommitDrop(r)
  PROVE  TypeOK'
<1> DEFINE q == request[r]
<1>1. q \in Request /\ q.old \in Transaction /\ q.change \in UpdateRequest
  BY DEF TypeOK, Request
<1>2. \A w \in Wallets : balance[w] \in Int /\ signedDelta(q.old, w) \in Int
  BY <1>1, RowTypes DEF TypeOK
<1>3. CASE CommitInsert(r)
  <2>1. Finish(r) /\ UNCHANGED <<nextRow, status, stale, begun, flips>>
    BY <1>3 DEF CommitInsert
  <2>2. rows' = [rows EXCEPT ![q.row] = q.old]
        /\ balance' = [w \in Wallets |-> balance[w] + signedDelta(q.old, w)]
    BY <1>3 DEF CommitInsert, Write
  <2> HIDE DEF q
  <2>3. rows' \in [Rows -> Transaction]
    BY <1>1, <2>2 DEF TypeOK
  <2>4. balance' \in [Wallets -> Int]
    BY <1>2, <2>2
  <2> QED BY <2>1, <2>3, <2>4, FinishType DEF TypeOK
<1>4. CASE CommitUpdate(r)
  <2>1. Finish(r) /\ UNCHANGED <<nextRow, status, begun, flips>> /\ stale' \in BOOLEAN
    BY <1>4 DEF CommitUpdate, TypeOK
  <2>2. rows' = [rows EXCEPT ![q.row] = UpdateRow(rows[q.row], q.change)]
        /\ balance' = [w \in Wallets |-> balance[w]
             + (signedDelta(UpdateRow(q.old, q.change), w) - signedDelta(q.old, w))]
    BY <1>4 DEF CommitUpdate, Write
  <2> HIDE DEF q
  <2>3. rows' \in [Rows -> Transaction]
    <3>1. q.row \in Rows => UpdateRow(rows[q.row], q.change) \in Transaction
      BY <1>1, RowTypes DEF TypeOK
    <3> QED BY <2>2, <3>1 DEF TypeOK
  <2>4. \A w \in Wallets : signedDelta(UpdateRow(q.old, q.change), w) \in Int
    BY <1>1, RowTypes
  <2>5. balance' \in [Wallets -> Int]
    BY <1>2, <2>2, <2>4
  <2> QED BY <2>1, <2>3, <2>5, FinishType DEF TypeOK
<1>5. CASE CommitDelete(r)
  <2>1. Finish(r) /\ UNCHANGED <<nextRow, status, begun, flips>> /\ stale' \in BOOLEAN
    BY <1>5 DEF CommitDelete, TypeOK
  <2>2. rows' = [rows EXCEPT ![q.row] = NoRow]
        /\ balance' = [w \in Wallets |-> balance[w] + (0 - signedDelta(q.old, w))]
    BY <1>5 DEF CommitDelete, Write
  <2> HIDE DEF q
  <2>3. rows' \in [Rows -> Transaction]
    BY <2>2, RowTypes DEF TypeOK
  <2>4. balance' \in [Wallets -> Int]
    BY <1>2, <2>2
  <2> QED BY <2>1, <2>3, <2>4, FinishType DEF TypeOK
<1>6. CASE CommitDrop(r)
  <2>1. Finish(r) /\ UNCHANGED <<nextRow, stale, begun, flips>>
    BY <1>6 DEF CommitDrop
  <2>2. /\ rows' = [i \in Rows |-> WithoutWallet(rows[i], q.first)]
        /\ balance' = [balance EXCEPT ![q.first] = 0]
        /\ status' = [status EXCEPT ![q.first] = "gone"]
    BY <1>6 DEF CommitDrop
  <2>3. q.first \in Wallets \cup {NoWallet}
    BY <1>1 DEF Request
  <2> HIDE DEF q
  <2>4. rows' \in [Rows -> Transaction]
    BY <2>2, <2>3, RowTypes DEF TypeOK
  <2>5. balance' \in [Wallets -> Int]
    <3>1. 0 \in Int
      OBVIOUS
    <3>2. balance \in [Wallets -> Int]
      BY DEF TypeOK
    <3> QED BY <2>2, <3>1, <3>2, Zenon
  <2>6. status' \in [Wallets -> {"active", "archived", "gone"}]
    BY <2>2 DEF TypeOK
  <2> QED BY <2>1, <2>4, <2>5, <2>6, FinishType DEF TypeOK
<1> QED BY <1>3, <1>4, <1>5, <1>6

\* ... so by every step.
LEMMA TypeStep == TypeOK /\ [Next]_vars => TypeOK'
<1> SUFFICES ASSUME TypeOK, [Next]_vars PROVE TypeOK'
  OBVIOUS
<1>1. ASSUME NEW r \in Requests, NEW u \in Users, Begin(r, u) PROVE TypeOK'
  BY <1>1, BeginType
<1>2. ASSUME NEW r \in Requests, Proceed(r) PROVE TypeOK'
  <2>1. CASE LockAccountsForUpdate(r)
    BY <2>1, LockType
  <2>2. CASE Rollback(r)
    <3>1. Finish(r) /\ UNCHANGED <<rows, nextRow, balance, status, stale, begun, flips>>
      BY <2>2 DEF Rollback
    <3> QED BY <3>1, FinishType DEF TypeOK
  <2>3. CASE CommitInsert(r) \/ CommitUpdate(r) \/ CommitDelete(r) \/ CommitDrop(r)
    BY <2>3, CommitType
  <2> QED BY <1>2, <2>1, <2>2, <2>3 DEF Proceed
<1>3. ASSUME NEW r \in Requests, DeadlockVictim(r) PROVE TypeOK'
  <2>1. Finish(r) /\ UNCHANGED <<rows, nextRow, balance, status, stale, begun, flips>>
    BY <1>3 DEF DeadlockVictim
  <2> QED BY <2>1, FinishType DEF TypeOK
<1>4. ASSUME NEW w \in Wallets, Archive(w) \/ Restore(w) PROVE TypeOK'
  <2>1. \E to \in {"active", "archived"} :
          /\ status' = [status EXCEPT ![w] = to]
          /\ flips' = flips + 1
          /\ UNCHANGED <<rows, nextRow, balance, holder, request, stale, begun>>
    BY <1>4 DEF Archive, Restore, Flip
  <2> QED BY <2>1 DEF TypeOK
<1>5. CASE UNCHANGED vars
  BY <1>5 DEF vars, TypeOK
<1> QED BY <1>1, <1>2, <1>3, <1>4, <1>5 DEF Next

\* Every request, lock, row and balance is of its kind.
THEOREM TypeCorrect == Spec => []TypeOK
BY TypeInit, TypeStep, PTL DEF Spec

-----------------------------------------------------------------------------
(* A request that starts.                                                  *)

\* What a starting request must satisfy for Structure to survive it.
StartsSoundly(r, q) ==
  /\ q.row < nextRow'
  /\ q.op = "insert" =>
       /\ ~q.linked
       /\ q.row = nextRow
       /\ OneWallet(q.old)
       /\ TwoWallets(q.old)
       /\ q.gated = WalletsOf(q.old)
  /\ q.op # "insert" /\ q.row # 0 => q.row \in Rows /\ rows[q.row] # NoRow
  /\ q.op \in {"edit", "delete"} => q.row \in Rows
  /\ q.linked => /\ q.op \in {"edit", "delete"}
                 /\ \A i \in Rows : <<"row", i>> \in q.need => i = q.row
  /\ q.op = "edit" =>
       /\ rows[q.row].class # "system"
       /\ q.linked => rows[q.row].class # "transfer"
       /\ TwoWallets(UpdateRow(q.old, q.change))
       /\ q.gated = Sent(q.change)
  /\ q.op \in {"delete", "drop"} => q.gated = {}
  /\ \A w \in q.gated : \/ <<"wallet", w>> \in q.need
                        \/ q.linked /\ <<"row", q.row>> \in q.need
  /\ q.op = "drop" => /\ q.first \in Wallets
                      /\ q.need = {<<"wallet", q.first>>}

\* A request that starts soundly keeps Structure.
LEMMA StartStructure ==
  ASSUME TypeOK, Structure, NEW r \in Requests, NEW q \in Request, Start(r, q),
         nextRow' \in {nextRow, nextRow + 1}, nextRow' = nextRow => q.op # "insert",
         nextRow' = nextRow + 1 => nextRow \in Rows,
         StartsSoundly(r, q)
  PROVE  Structure'
<1>1. /\ request \in [Requests -> Request]
      /\ request' = [request EXCEPT ![r] = q]
      /\ UNCHANGED <<rows, holder, status>>
      /\ nextRow \in Nat
      /\ \A s \in Requests : request[s].row \in Nat
  BY DEF Start, TypeOK, Request, Rows
<1>2. InsertsAreNew'
  <2>1. \A i \in Rows : rows'[i] # NoRow => i < nextRow'
    BY <1>1 DEF Structure, InsertsAreNew, Rows
  <2>2. \A s \in Requests : request'[s].row < nextRow'
    BY <1>1 DEF Structure, InsertsAreNew, StartsSoundly
  <2>3. ASSUME NEW s \in Requests, request'[s].op = "insert"
        PROVE  /\ ~request'[s].linked
               /\ request'[s].row \in Rows
               /\ rows'[request'[s].row] = NoRow
               /\ \A t \in Requests \ {s} : request'[t].row # request'[s].row
               /\ OneWallet(request'[s].old)
               /\ TwoWallets(request'[s].old)
    <3>1. CASE s = r
      <4>1. request'[s] = q /\ q.op = "insert" /\ nextRow' = nextRow + 1
        BY <1>1, <2>3, <3>1
      <4>2. q.row = nextRow /\ nextRow \in Rows /\ rows[nextRow] = NoRow
        BY <1>1, <4>1 DEF Structure, InsertsAreNew, StartsSoundly, Rows
      <4>3. \A t \in Requests \ {s} : request'[t].row # q.row
        BY <1>1, <3>1, <4>2 DEF Structure, InsertsAreNew
      <4> QED BY <1>1, <4>1, <4>2, <4>3 DEF StartsSoundly
    <3>2. CASE s # r
      <4>1. request'[s] = request[s]
        BY <1>1, <3>2
      <4>2. request'[s].row # q.row
        BY <1>1, <2>3, <4>1 DEF Structure, InsertsAreNew, StartsSoundly, Rows
      <4>3. \A t \in Requests \ {s} : request'[t].row # request'[s].row
        BY <1>1, <2>3, <4>1, <4>2 DEF Structure, InsertsAreNew
      <4> QED BY <1>1, <2>3, <4>1, <4>3 DEF Structure, InsertsAreNew
    <3> QED BY <3>1, <3>2
  <2> QED BY <2>1, <2>2, <2>3 DEF InsertsAreNew
<1>3. EditsAreChecked'
  BY <1>1 DEF Structure, EditsAreChecked, StartsSoundly
<1>4. GatesHold'
  BY <1>1 DEF Structure, GatesHold, StartsSoundly
<1>5. DropsHoldTheWallet'
  BY <1>1 DEF Structure, DropsHoldTheWallet, StartsSoundly
<1> QED BY <1>2, <1>3, <1>4, <1>5 DEF Structure

\* A request that inserts a row gets an id nobody has, and gates its wallets.
LEMMA InsertStructure ==
  ASSUME TypeOK, Structure, NEW r \in Requests, NEW u \in Users, NEW t \in Transaction,
         Insert(r, u, t), OneWallet(t), TwoWallets(t)
  PROVE  Structure'
<1> DEFINE q == [Idle EXCEPT !.pc = "locking", !.op = "insert", !.user = u, !.row = nextRow,
                             !.old = t, !.need = WalletKeys(WalletsOf(t)),
                             !.gated = WalletsOf(t)]
<1>1. nextRow \in Rows /\ nextRow' = nextRow + 1 /\ Start(r, q)
  BY BoundsAssumption DEF Insert, Rows, TypeOK
<1>2. q \in Request
  BY <1>1, RowTypes, RequestTypes DEF Request
<1>3. /\ q.op = "insert" /\ q.row = nextRow /\ q.linked = FALSE /\ q.old = t
      /\ q.need = WalletKeys(WalletsOf(t)) /\ q.gated = WalletsOf(t)
  BY Zenon DEF Idle
<1> HIDE DEF q
<1>4. StartsSoundly(r, q)
  <2>1. q.row < nextRow'
    BY <1>1, <1>3 DEF Rows
  <2>2. \A w \in q.gated : <<"wallet", w>> \in q.need
    BY <1>3 DEF WalletKeys
  <2> QED BY <1>3, <2>1, <2>2 DEF StartsSoundly
<1>5. nextRow' \in {nextRow, nextRow + 1} /\ nextRow' # nextRow
  BY <1>1 DEF Rows
<1> QED BY <1>1, <1>2, <1>4, <1>5, StartStructure

\* Every request starts soundly.
LEMMA BeginStructure ==
  ASSUME TypeOK, Structure, NEW r \in Requests, NEW u \in Users, Begin(r, u)
  PROVE  Structure'
<1>0. nextRow \in Nat /\ \A i \in Rows : rows[i] \in Transaction /\ (rows[i] # NoRow => i < nextRow)
  BY DEF TypeOK, Structure, InsertsAreNew
<1>1. CASE createSingle(r, u)
  <2>1. PICK class \in {"plain", "onesided", "debt"}, dir \in {"out", "in"},
             a \in Amounts, w \in Wallets \cup {NoWallet} :
          Insert(r, u, single(class, dir, u, a, w))
    BY <1>1 DEF createSingle
  <2>2. single(class, dir, u, a, w) \in Transaction
    BY AmountsAssumption DEF single, Transaction, Classes, Dirs
  <2>3. OneWallet(single(class, dir, u, a, w)) /\ TwoWallets(single(class, dir, u, a, w))
    BY DEF single, OneWallet, TwoWallets
  <2> QED BY <2>1, <2>2, <2>3, InsertStructure
<1>2. CASE createTransfer(r, u)
  <2>1. PICK a \in Amounts, src \in Wallets, dst \in Wallets :
          src # dst /\ Insert(r, u, transfer(u, a, src, dst))
    BY <1>2 DEF createTransfer
  <2>2. transfer(u, a, src, dst) \in Transaction
    BY AmountsAssumption DEF transfer, Transaction, Classes, Dirs
  <2>3. OneWallet(transfer(u, a, src, dst)) /\ TwoWallets(transfer(u, a, src, dst))
    BY <2>1 DEF transfer, OneWallet, TwoWallets
  <2> QED BY <2>1, <2>2, <2>3, InsertStructure
<1>3. CASE AdjustBalance(r, u)
  <2>1. PICK w \in Wallets, new \in Amounts \cup {0} :
          /\ new # balance[w]
          /\ Insert(r, u, IF new > balance[w]
                            THEN single("system", "in", u, new - balance[w], w)
                            ELSE single("system", "out", u, balance[w] - new, w))
    BY <1>3 DEF AdjustBalance
  <2> DEFINE t == IF new > balance[w]
                    THEN single("system", "in", u, new - balance[w], w)
                    ELSE single("system", "out", u, balance[w] - new, w)
  <2>2. t \in Transaction
    BY <2>1, AmountsAssumption DEF single, Transaction, Classes, Dirs, TypeOK
  <2>3. OneWallet(t) /\ TwoWallets(t)
    BY DEF single, OneWallet, TwoWallets
  <2> QED BY <2>1, <2>2, <2>3, InsertStructure
<1>4. CASE updateRow(r, u)
  <2>1. PICK i \in Rows, c \in UpdateRequest, noted \in BOOLEAN :
          /\ nextRow' = nextRow
          /\ rows[i] # NoRow
          /\ checkLinkedEdit(u, rows[i], c)
          /\ Start(r, [Idle EXCEPT !.pc = "locking", !.op = "edit", !.noted = noted, !.user = u,
                !.row = i, !.old = rows[i], !.change = c,
                !.need = WalletKeys(EditLocks(rows[i], c)) \cup {<<"row", i>>},
                !.gated = Sent(c), !.first = OldWalletFirst(rows[i], c)])
    BY <1>4 DEF updateRow
  <2> DEFINE q == [Idle EXCEPT !.pc = "locking", !.op = "edit", !.noted = noted, !.user = u,
                !.row = i, !.old = rows[i], !.change = c,
                !.need = WalletKeys(EditLocks(rows[i], c)) \cup {<<"row", i>>},
                !.gated = Sent(c), !.first = OldWalletFirst(rows[i], c)]
  <2>2. q \in Request
    BY <1>0, RequestTypes DEF Request
  <2>3. /\ q.op = "edit" /\ q.row = i /\ q.linked = FALSE /\ q.old = rows[i] /\ q.change = c
        /\ q.need = WalletKeys(EditLocks(rows[i], c)) \cup {<<"row", i>>} /\ q.gated = Sent(c)
    BY Zenon DEF Idle
  <2>4. Start(r, q)
    BY <2>1
  <2> HIDE DEF q
  <2>5. rows[i].class # "system" /\ TwoWallets(UpdateRow(rows[i], c))
    BY <2>1 DEF checkLinkedEdit, TwoWallets, UpdateRow
  <2>6. Sent(c) \subseteq EditLocks(rows[i], c)
    BY DEF Sent, EditLocks
  <2>7. \A w \in q.gated : <<"wallet", w>> \in q.need
    BY <2>3, <2>6 DEF WalletKeys
  <2>8. i # 0
    BY DEF Rows
  <2>9. StartsSoundly(r, q)
    BY <1>0, <2>1, <2>3, <2>5, <2>7, <2>8 DEF StartsSoundly
  <2> QED BY <2>1, <2>2, <2>3, <2>4, <2>9, <1>0, StartStructure
<1>5. CASE deleteRow(r, u)
  <2>1. PICK i \in Rows :
          /\ nextRow' = nextRow
          /\ rows[i] # NoRow
          /\ Start(r, [Idle EXCEPT !.pc = "locking", !.op = "delete", !.user = u, !.row = i,
                             !.old = rows[i],
                             !.need = WalletKeys(WalletsOf(rows[i])) \cup {<<"row", i>>}])
    BY <1>5 DEF deleteRow
  <2> DEFINE q == [Idle EXCEPT !.pc = "locking", !.op = "delete", !.user = u, !.row = i,
                             !.old = rows[i],
                             !.need = WalletKeys(WalletsOf(rows[i])) \cup {<<"row", i>>}]
  <2>2. q \in Request
    BY <1>0, RowTypes, RequestTypes DEF Request
  <2>3. q.op = "delete" /\ q.row = i /\ q.linked = FALSE /\ q.gated = {}
    BY Zenon DEF Idle
  <2>4. Start(r, q)
    BY <2>1
  <2> HIDE DEF q
  <2>5. StartsSoundly(r, q)
    BY <1>0, <2>1, <2>3 DEF StartsSoundly
  <2> QED BY <2>1, <2>2, <2>3, <2>4, <2>5, <1>0, StartStructure
<1>6. CASE linkedWrite(r, u)
  <2>1. PICK i \in Rows :
          /\ nextRow' = nextRow
          /\ rows[i].author = u
          /\ rows[i].class # "system"
          /\ \E ch \in {"delete"} \X {NoChange} \cup {"edit"} \X linkedChanges(rows[i]) :
               Start(r, [Idle EXCEPT !.pc = "locking", !.op = ch[1], !.linked = TRUE, !.user = u,
                !.row = i, !.change = ch[2], !.need = {<<"row", i>>},
                !.gated = Sent(ch[2])])
    BY <1>6 DEF linkedWrite
  <2>2. PICK ch \in {"delete"} \X {NoChange} \cup {"edit"} \X linkedChanges(rows[i]) :
               Start(r, [Idle EXCEPT !.pc = "locking", !.op = ch[1], !.linked = TRUE, !.user = u,
                !.row = i, !.change = ch[2], !.need = {<<"row", i>>},
                !.gated = Sent(ch[2])])
    BY <2>1
  <2> DEFINE q == [Idle EXCEPT !.pc = "locking", !.op = ch[1], !.linked = TRUE, !.user = u,
                !.row = i, !.change = ch[2], !.need = {<<"row", i>>},
                !.gated = Sent(ch[2])]
  <2>3. /\ ch[1] \in {"edit", "delete"} /\ ch[2] \in UpdateRequest
        /\ ch[1] = "delete" => ch[2] = NoChange
        /\ ch[1] = "edit" => ch[2] \in linkedChanges(rows[i])
    BY <1>0, RequestTypes
  <2>4. q \in Request
    BY <2>3, RequestTypes DEF Request
  <2>5. /\ q.op = ch[1] /\ q.row = i /\ q.linked = TRUE /\ q.old = NoRow /\ q.change = ch[2]
        /\ q.need = {<<"row", i>>} /\ q.gated = Sent(ch[2])
    BY Zenon DEF Idle
  <2>6. Start(r, q)
    BY <2>2
  <2> HIDE DEF q
  <2>7. Sent(NoChange) = {}
    BY DEF Sent, NoChange
  <2>8. ch[1] = "edit" => rows[i].class # "transfer"
    BY <2>3 DEF linkedChanges
  <2>9. TwoWallets(UpdateRow(NoRow, ch[2]))
    BY DEF TwoWallets, UpdateRow, NoRow
  <2>10. rows[i] # NoRow
    BY <2>1, NobodyAssumption DEF NoRow
  <2>11. StartsSoundly(r, q)
    BY <1>0, <2>1, <2>3, <2>5, <2>7, <2>8, <2>9, <2>10 DEF StartsSoundly
  <2> QED BY <2>1, <2>3, <2>4, <2>5, <2>6, <2>11, <1>0, StartStructure
<1>7. CASE dropWallet(r, u)
  <2>1. PICK w \in Wallets :
          /\ nextRow' = nextRow
          /\ Start(r, [Idle EXCEPT !.pc = "locking", !.op = "drop", !.user = u,
                             !.need = {<<"wallet", w>>}, !.first = w])
    BY <1>7 DEF dropWallet
  <2> DEFINE q == [Idle EXCEPT !.pc = "locking", !.op = "drop", !.user = u,
                             !.need = {<<"wallet", w>>}, !.first = w]
  <2>2. q \in Request
    <3>1. {<<"wallet", w>>} \in SUBSET Keys
      BY DEF Keys
    <3> QED BY <3>1, RequestTypes DEF Request
  <2>3. /\ q.op = "drop" /\ q.row = 0 /\ q.linked = FALSE /\ q.gated = {}
        /\ q.need = {<<"wallet", w>>} /\ q.first = w
    BY Zenon DEF Idle
  <2>4. Start(r, q)
    BY <2>1
  <2> HIDE DEF q
  <2>5. 0 < nextRow
    BY DEF TypeOK
  <2>6. StartsSoundly(r, q)
    BY <2>1, <2>3, <2>5 DEF StartsSoundly
  <2> QED BY <2>1, <2>2, <2>3, <2>4, <2>6, <1>0, StartStructure
<1> QED BY <1>1, <1>2, <1>3, <1>4, <1>5, <1>6, <1>7 DEF Begin

-----------------------------------------------------------------------------
(* A request that takes a lock.                                            *)

\* A lock is taken with its gate, and nobody else's lock is lost.
LEMMA LockStructure ==
  ASSUME TypeOK, Structure, NEW r \in Requests, LockAccountsForUpdate(r)
  PROVE  Structure'
<1>1. PICK k \in request[r].need :
        /\ holder[k] = Nobody
        /\ LockServes(request[r], k)
        /\ holder' = [holder EXCEPT ![k] = r]
        /\ request' = [request EXCEPT ![r] = Locked(request[r], k)]
        /\ UNCHANGED <<rows, nextRow, balance, status, stale, begun, flips>>
  BY DEF LockAccountsForUpdate
<1> DEFINE q == request[r]
           p == Locked(q, k)
<1>2. q \in Request /\ k \in Keys
  BY DEF TypeOK, Request
<1>3. /\ p.op = q.op /\ p.row = q.row /\ p.linked = q.linked /\ p.change = q.change
      /\ p.gated = q.gated /\ p.first = q.first /\ p.pc = q.pc
      /\ ~q.linked => p.old = q.old
  BY <1>2, Zenon DEF Locked, Request
<1>4. q.linked /\ k[1] = "row" =>
        /\ k[2] \in Rows /\ k = <<"row", q.row>> /\ k[2] = q.row
        /\ p.old = rows[q.row]
        /\ p.need = WalletKeys(WalletsOf(rows[q.row]) \cup Sent(q.change))
  <2> SUFFICES ASSUME q.linked, k[1] = "row"
               PROVE  /\ k[2] \in Rows /\ k = <<"row", q.row>> /\ k[2] = q.row
                      /\ p.old = rows[q.row]
                      /\ p.need = WalletKeys(WalletsOf(rows[q.row]) \cup Sent(q.change))
    OBVIOUS
  <2>1. k[2] \in Rows /\ k = <<"row", k[2]>>
    BY <1>2 DEF Keys
  <2>2. k[2] = q.row
    BY <1>1, <2>1 DEF Structure, EditsAreChecked
  <2>3. /\ p.old = rows[k[2]]
        /\ p.need = WalletKeys(WalletsOf(rows[k[2]]) \cup Sent(q.change))
    BY <1>2, Zenon DEF Locked, Request
  <2> HIDE DEF p, q
  <2> QED BY <2>1, <2>2, <2>3
<1>5. ~ (q.linked /\ k[1] = "row") /\ q.op = "drop" /\ k[1] = "wallet" =>
        /\ p.old = q.old
        /\ p.need = {<<"row", i>> : i \in {x \in Rows : k[2] \in WalletsOf(rows[x])}}
  BY <1>2, Zenon DEF Locked, Request
<1>6. ~ (q.linked /\ k[1] = "row") /\ ~ (q.op = "drop" /\ k[1] = "wallet") =>
        p.old = q.old /\ p.need = q.need \ {k}
  BY <1>2, Zenon DEF Locked, Request
<1>7. /\ request \in [Requests -> Request] /\ holder \in [Keys -> Requests \cup {Nobody}]
      /\ request' = [request EXCEPT ![r] = p]
  BY <1>1 DEF TypeOK
<1>8. q = request[r]
  OBVIOUS
<1> HIDE DEF p, q
<1>9. \A s \in Requests : s # r => request'[s] = request[s]
  BY <1>7
<1>10. request'[r] = p
  BY <1>7
<1>11. \A s \in Requests : /\ request'[s].op = request[s].op
                           /\ request'[s].row = request[s].row
                           /\ request'[s].linked = request[s].linked
                           /\ ~request[s].linked => request'[s].old = request[s].old
  BY <1>3, <1>8, <1>9, <1>10
<1>12. InsertsAreNew'
  BY <1>1, <1>11 DEF Structure, InsertsAreNew
<1>13. EditsAreChecked'
  <2>1. p.linked => \A i \in Rows : <<"row", i>> \in p.need => i = p.row
    <3>1. CASE k[1] = "row"
      BY <1>3, <1>4, <3>1 DEF WalletKeys
    <3>2. CASE k[1] # "row" /\ ~ (q.op = "drop" /\ k[1] = "wallet")
      BY <1>3, <1>6, <1>8, <3>2 DEF Structure, EditsAreChecked
    <3>3. CASE k[1] # "row" /\ q.op = "drop"
      BY <1>3, <1>8, <3>3 DEF Structure, EditsAreChecked
    <3> QED BY <3>1, <3>2, <3>3
  <2>2. p.op = "edit" => TwoWallets(UpdateRow(p.old, p.change))
    <3>1. CASE q.linked /\ k[1] = "row"
      <4>1. q.op = "edit" => rows[q.row].class # "transfer"
        BY <1>8, <3>1 DEF Structure, EditsAreChecked
      <4> QED BY <1>3, <1>4, <3>1, <4>1 DEF TwoWallets, UpdateRow
    <3>2. CASE ~ (q.linked /\ k[1] = "row")
      BY <1>3, <1>6, <1>8, <3>2 DEF Structure, EditsAreChecked
    <3> QED BY <3>1, <3>2
  <2> QED BY <1>1, <1>3, <1>8, <1>9, <1>10, <2>1, <2>2 DEF Structure, EditsAreChecked
<1>14. GatesHold'
  <2>1. \A s \in Requests, w \in Wallets :
          holder[<<"wallet", w>>] = s => holder'[<<"wallet", w>>] = s
    <3>1. \A w \in Wallets : <<"wallet", w>> \in Keys
      BY DEF Keys
    <3> QED BY <1>1, <1>7, <3>1, NobodyAssumption
  <2>2. \A w \in Wallets : k = <<"wallet", w>> => holder'[<<"wallet", w>>] = r
    BY <1>1, <1>2, <1>7
  <2>3. ASSUME NEW s \in Requests, s # r, NEW w \in request'[s].gated
        PROVE  \/ <<"wallet", w>> \in request'[s].need
               \/ request'[s].linked /\ <<"row", request'[s].row>> \in request'[s].need
               \/ holder'[<<"wallet", w>>] = s /\ status'[w] = "active"
    <3>1. w \in Wallets
      BY <1>7, <1>9, <2>3 DEF Request
    <3> QED BY <1>1, <1>9, <2>1, <2>3, <3>1 DEF Structure, GatesHold
  <2>4. ASSUME NEW w \in p.gated
        PROVE  \/ <<"wallet", w>> \in p.need
               \/ p.linked /\ <<"row", p.row>> \in p.need
               \/ holder'[<<"wallet", w>>] = r /\ status'[w] = "active"
    <3>1. w \in Wallets /\ w \in q.gated
      BY <1>2, <1>3, <1>8 DEF Request
    <3>2. /\ q.op = "insert" => ~q.linked
          /\ q.op = "edit" => q.gated = Sent(q.change)
          /\ q.op \in {"delete", "drop"} => q.gated = {}
          /\ q.op \in {"insert", "edit", "delete", "drop"}
      BY <1>2, <1>8 DEF Structure, GatesHold, InsertsAreNew, Request
    <3>3. CASE q.linked /\ k[1] = "row"
      <4>1. w \in Sent(q.change)
        BY <3>1, <3>2, <3>3
      <4> QED BY <1>4, <3>3, <4>1 DEF WalletKeys
    <3>4. CASE ~ (q.linked /\ k[1] = "row")
      <4>1. p.need = q.need \ {k}
        BY <1>6, <3>1, <3>2, <3>4
      <4>2. CASE k = <<"wallet", w>>
        <5>1. status[w] = "active"
          BY <1>1, <1>8, <3>1, <4>2 DEF LockServes, GetAccountBalance
        <5> QED BY <1>1, <2>2, <3>1, <4>2, <5>1
      <4>3. CASE k # <<"wallet", w>>
        <5>1. \/ <<"wallet", w>> \in q.need
              \/ q.linked /\ <<"row", q.row>> \in q.need
              \/ holder[<<"wallet", w>>] = r /\ status[w] = "active"
          BY <1>8, <3>1 DEF Structure, GatesHold
        <5> QED BY <1>1, <1>3, <2>1, <3>1, <3>4, <4>1, <4>3, <5>1
      <4> QED BY <4>2, <4>3
    <3> QED BY <3>3, <3>4
  <2>5. /\ p.op = "insert" => p.gated = WalletsOf(p.old)
        /\ p.op = "edit" => p.gated = Sent(p.change)
        /\ p.op \in {"delete", "drop"} => p.gated = {}
    <3>1. /\ q.op = "insert" => ~q.linked /\ q.gated = WalletsOf(q.old)
          /\ q.op = "edit" => q.gated = Sent(q.change)
          /\ q.op \in {"delete", "drop"} => q.gated = {}
      BY <1>8 DEF Structure, GatesHold, InsertsAreNew
    <3> QED BY <1>3, <3>1
  <2>6. ASSUME NEW s \in Requests, s # r
        PROVE  /\ request'[s].op = "insert" => request'[s].gated = WalletsOf(request'[s].old)
               /\ request'[s].op = "edit" => request'[s].gated = Sent(request'[s].change)
               /\ request'[s].op \in {"delete", "drop"} => request'[s].gated = {}
    BY <1>9, <2>6 DEF Structure, GatesHold
  <2> QED BY <1>10, <2>3, <2>4, <2>5, <2>6 DEF GatesHold
<1>15. DropsHoldTheWallet'
  <2> SUFFICES ASSUME NEW s \in Requests, request'[s].op = "drop", request'[s].pc = "locking"
               PROVE  /\ request'[s].first \in Wallets
                      /\ \A w \in Wallets : <<"wallet", w>> \in request'[s].need => w = request'[s].first
                      /\ \/ <<"wallet", request'[s].first>> \in request'[s].need
                         \/ holder'[<<"wallet", request'[s].first>>] = s
    BY DEF DropsHoldTheWallet
  <2>1. /\ request[s].op = "drop" /\ request[s].pc = "locking"
        /\ request'[s].first = request[s].first
    BY <1>3, <1>8, <1>9, <1>10
  <2>2. /\ request[s].first \in Wallets
        /\ \A w \in Wallets : <<"wallet", w>> \in request[s].need => w = request[s].first
        /\ \/ <<"wallet", request[s].first>> \in request[s].need
           \/ holder[<<"wallet", request[s].first>>] = s
    BY <2>1 DEF Structure, DropsHoldTheWallet
  <2>3. <<"wallet", request[s].first>> \in Keys
    BY <2>2 DEF Keys
  <2>4. holder[<<"wallet", request[s].first>>] = s => holder'[<<"wallet", request[s].first>>] = s
    BY <1>1, <1>7, <2>3, NobodyAssumption
  <2>5. CASE s # r
    BY <1>9, <2>1, <2>2, <2>4, <2>5
  <2>6. CASE s = r /\ k[1] = "wallet"
    <3>1. ~q.linked
      BY <1>8, <2>1, <2>6 DEF Structure, EditsAreChecked
    <3>2. p.need = {<<"row", i>> : i \in {x \in Rows : k[2] \in WalletsOf(rows[x])}}
      BY <1>5, <1>8, <2>1, <2>6, <3>1
    <3>3. k = <<"wallet", request[s].first>>
      BY <1>1, <1>2, <1>8, <2>2, <2>6 DEF Keys
    <3>4. holder'[<<"wallet", request[s].first>>] = s
      BY <1>1, <1>7, <2>3, <2>6, <3>3
    <3> QED BY <1>10, <2>1, <2>2, <2>6, <3>2, <3>4
  <2>7. CASE s = r /\ k[1] # "wallet"
    <3>1. ~q.linked
      BY <1>8, <2>1, <2>7 DEF Structure, EditsAreChecked
    <3>2. p.need = q.need \ {k}
      BY <1>6, <2>7, <3>1
    <3> QED BY <1>8, <1>10, <2>1, <2>2, <2>4, <2>7, <3>2
  <2> QED BY <2>5, <2>6, <2>7
<1> QED BY <1>12, <1>13, <1>14, <1>15 DEF Structure
-----------------------------------------------------------------------------
(* A request that ends.                                                    *)

\* A request that ends breaks nobody else's checks, if it changed only its own
\* row (the class of a row never) and the status of a wallet it holds.
LEMMA EndStructure ==
  ASSUME TypeOK, Structure, NEW r \in Requests, Finish(r), nextRow' = nextRow,
         \A i \in Rows : rows'[i] # NoRow => i < nextRow,
         \A s \in Requests \ {r} : request[s].op = "insert" => rows'[request[s].row] = NoRow,
         \A s \in Requests \ {r} : request[s].op = "edit" =>
           rows'[request[s].row].class \in {rows[request[s].row].class, "none"},
         \A w \in Wallets : status'[w] = status[w] \/ holder[<<"wallet", w>>] = r
  PROVE  Structure'
<1>1. /\ \A s \in Requests \ {r} : request'[s] = request[s]
      /\ request'[r] = Idle
      /\ \A k \in Keys : holder'[k] = IF holder[k] = r THEN Nobody ELSE holder[k]
  BY DEF Finish, TypeOK
<1>2. /\ Idle.op = "drop" /\ Idle.pc = "idle" /\ Idle.row = 0 /\ Idle.linked = FALSE
      /\ Idle.gated = {} /\ Idle.need = {}
  BY DEF Idle
<1>3. nextRow \in Nat /\ 0 < nextRow
  BY DEF TypeOK
<1>4. \A w \in Wallets, s \in Requests \ {r} :
        holder[<<"wallet", w>>] = s => /\ holder'[<<"wallet", w>>] = s
                                       /\ status'[w] = status[w]
  <2>1. \A w \in Wallets : <<"wallet", w>> \in Keys
    BY DEF Keys
  <2> QED BY <1>1, <2>1
<1>5. InsertsAreNew'
  <2>1. \A s \in Requests : request'[s].row < nextRow'
    BY <1>1, <1>2, <1>3 DEF Structure, InsertsAreNew
  <2>2. ASSUME NEW s \in Requests, request'[s].op = "insert"
        PROVE  /\ ~request'[s].linked
               /\ request'[s].row \in Rows
               /\ rows'[request'[s].row] = NoRow
               /\ \A t \in Requests \ {s} : request'[t].row # request'[s].row
               /\ OneWallet(request'[s].old)
               /\ TwoWallets(request'[s].old)
    <3>1. s # r /\ request'[s] = request[s] /\ request[s].op = "insert"
      BY <1>1, <1>2, <2>2
    <3>2. request[s].row \in Rows
      BY <3>1 DEF Structure, InsertsAreNew
    <3>3. \A t \in Requests \ {s} : request'[t].row # request'[s].row
      BY <1>1, <1>2, <3>1, <3>2 DEF Structure, InsertsAreNew, Rows
    <3> QED BY <3>1, <3>2, <3>3 DEF Structure, InsertsAreNew
  <2> QED BY <2>1, <2>2 DEF InsertsAreNew
<1>6. EditsAreChecked'
  <2> SUFFICES ASSUME NEW s \in Requests
               PROVE  /\ request'[s].op \in {"edit", "delete"} => request'[s].row \in Rows
                      /\ request'[s].linked =>
                           /\ request'[s].op \in {"edit", "delete"}
                           /\ \A i \in Rows : <<"row", i>> \in request'[s].need => i = request'[s].row
                      /\ request'[s].op = "edit" =>
                           /\ rows'[request'[s].row].class # "system"
                           /\ request'[s].linked => rows'[request'[s].row].class # "transfer"
                           /\ TwoWallets(UpdateRow(request'[s].old, request'[s].change))
    BY DEF EditsAreChecked
  <2>1. CASE s = r
    BY <1>1, <1>2, <2>1
  <2>2. CASE s # r
    BY <1>1, <2>2 DEF Structure, EditsAreChecked
  <2> QED BY <2>1, <2>2
<1>7. GatesHold'
  <2> SUFFICES ASSUME NEW s \in Requests
               PROVE  /\ request'[s].op = "insert" => request'[s].gated = WalletsOf(request'[s].old)
                      /\ request'[s].op = "edit" => request'[s].gated = Sent(request'[s].change)
                      /\ request'[s].op \in {"delete", "drop"} => request'[s].gated = {}
                      /\ \A w \in request'[s].gated :
                           \/ <<"wallet", w>> \in request'[s].need
                           \/ request'[s].linked /\ <<"row", request'[s].row>> \in request'[s].need
                           \/ holder'[<<"wallet", w>>] = s /\ status'[w] = "active"
    BY DEF GatesHold
  <2>1. CASE s = r
    BY <1>1, <1>2, <2>1
  <2>2. CASE s # r
    <3>1. \A w \in request[s].gated : w \in Wallets
      BY DEF TypeOK, Request
    <3> QED BY <1>1, <1>4, <2>2, <3>1 DEF Structure, GatesHold
  <2> QED BY <2>1, <2>2
<1>8. DropsHoldTheWallet'
  BY <1>1, <1>2, <1>4 DEF Structure, DropsHoldTheWallet
<1> QED BY <1>5, <1>6, <1>7, <1>8 DEF Structure

\* Every commit does just that.
LEMMA CommitStructure ==
  ASSUME TypeOK, Structure, NEW r \in Requests,
         CommitInsert(r) \/ CommitUpdate(r) \/ CommitDelete(r) \/ CommitDrop(r)
  PROVE  Structure'
<1> DEFINE q == request[r]
<1>1. q \in Request /\ rows \in [Rows -> Transaction]
  BY DEF TypeOK
<1>2. Finish(r) /\ nextRow' = nextRow
  BY DEF CommitInsert, CommitUpdate, CommitDelete, CommitDrop
<1>3. \A s \in Requests : request[s].op = "insert" =>
        /\ request[s].row \in Rows
        /\ rows[request[s].row] = NoRow
        /\ \A t \in Requests \ {s} : request[t].row # request[s].row
  BY DEF Structure, InsertsAreNew
<1>4. /\ \A i \in Rows : rows[i] # NoRow => i < nextRow
      /\ \A s \in Requests : request[s].row < nextRow
      /\ \A s \in Requests : request[s].op = "edit" => request[s].row \in Rows
  BY DEF Structure, InsertsAreNew, EditsAreChecked
<1>5. NoRow.class = "none"
  BY DEF NoRow
<1>6. ASSUME NEW t, t.class \in {rows[q.row].class, "none"} \/ q.op = "insert",
             q.row \in Rows, q.op = "insert" \/ q.op = "edit" \/ q.op = "delete",
             rows' = [rows EXCEPT ![q.row] = t], status' = status
      PROVE  Structure'
  <2>1. \A i \in Rows : rows'[i] # NoRow => i < nextRow
    BY <1>1, <1>4, <1>6
  <2>2. \A i \in Rows \ {q.row} : rows'[i] = rows[i]
    BY <1>1, <1>6
  <2>3. \A s \in Requests \ {r} : request[s].op = "insert" => rows'[request[s].row] = NoRow
    BY <1>3, <2>2
  <2>4. ASSUME NEW s \in Requests \ {r}, request[s].op = "edit"
        PROVE  rows'[request[s].row].class \in {rows[request[s].row].class, "none"}
    <3>1. CASE request[s].row = q.row
      BY <1>1, <1>3, <1>6, <3>1
    <3>2. CASE request[s].row # q.row
      BY <1>4, <2>2, <2>4, <3>2
    <3> QED BY <3>1, <3>2
  <2> QED BY <1>2, <1>6, <2>1, <2>3, <2>4, EndStructure
<1>7. CASE CommitInsert(r)
  <2>1. q.op = "insert" /\ rows' = [rows EXCEPT ![q.row] = q.old] /\ status' = status
    BY <1>7 DEF CommitInsert, Write, Ready
  <2> QED BY <1>3, <1>6, <2>1
<1>8. CASE CommitUpdate(r)
  <2>1. /\ q.op = "edit" /\ status' = status
        /\ rows' = [rows EXCEPT ![q.row] = UpdateRow(rows[q.row], q.change)]
    BY <1>8 DEF CommitUpdate, Write, Ready
  <2>2. UpdateRow(rows[q.row], q.change).class = rows[q.row].class
    BY DEF UpdateRow
  <2> QED BY <1>4, <1>6, <2>1, <2>2
<1>9. CASE CommitDelete(r)
  <2>1. q.op = "delete" /\ status' = status /\ rows' = [rows EXCEPT ![q.row] = NoRow]
    BY <1>9 DEF CommitDelete, Write, Ready
  <2>2. q.row \in Rows
    BY <2>1 DEF Structure, EditsAreChecked
  <2> QED BY <1>5, <1>6, <2>1, <2>2
<1>10. CASE CommitDrop(r)
  <2>1. /\ q.op = "drop" /\ q.pc = "locking" /\ q.need = {}
        /\ rows' = [i \in Rows |-> WithoutWallet(rows[i], q.first)]
        /\ status' = [status EXCEPT ![q.first] = "gone"]
    BY <1>10 DEF CommitDrop, Ready
  <2>2. q.first \in Wallets /\ holder[<<"wallet", q.first>>] = r
    BY <2>1 DEF Structure, DropsHoldTheWallet
  <2>3. WalletsOf(NoRow) = {}
    BY DEF WalletsOf, NoRow
  <2>4. \A i \in Rows :
          /\ rows'[i].class \in {rows[i].class, "none"}
          /\ rows[i] = NoRow => rows'[i] = NoRow
    BY <1>5, <2>1, <2>3 DEF WithoutWallet
  <2>5. \A i \in Rows : rows'[i] # NoRow => i < nextRow
    BY <1>4, <2>4
  <2>6. \A s \in Requests \ {r} : request[s].op = "insert" => rows'[request[s].row] = NoRow
    BY <1>3, <2>4
  <2>7. \A s \in Requests \ {r} : request[s].op = "edit" =>
          rows'[request[s].row].class \in {rows[request[s].row].class, "none"}
    BY <1>4, <2>4
  <2>8. \A w \in Wallets : status'[w] = status[w] \/ holder[<<"wallet", w>>] = r
    BY <2>1, <2>2 DEF TypeOK
  <2> QED BY <1>2, <2>5, <2>6, <2>7, <2>8, EndStructure
<1> QED BY <1>7, <1>8, <1>9, <1>10

\* Structure is kept by every step: archive and restore wait for the wallet's lock.
LEMMA StructureStep == TypeOK /\ Structure /\ [Next]_vars => Structure'
<1> SUFFICES ASSUME TypeOK, Structure, [Next]_vars PROVE Structure'
  OBVIOUS
<1>1. ASSUME NEW r \in Requests, Finish(r), UNCHANGED <<rows, nextRow, status>> PROVE Structure'
  <2>1. \A i \in Rows : rows'[i] # NoRow => i < nextRow
    BY <1>1 DEF Structure, InsertsAreNew
  <2>2. \A s \in Requests \ {r} : request[s].op = "insert" => rows'[request[s].row] = NoRow
    BY <1>1 DEF Structure, InsertsAreNew
  <2> QED BY <1>1, <2>1, <2>2, EndStructure
<1>2. ASSUME NEW r \in Requests, NEW u \in Users, Begin(r, u) PROVE Structure'
  BY <1>2, BeginStructure
<1>3. ASSUME NEW r \in Requests, Proceed(r) PROVE Structure'
  <2>1. CASE LockAccountsForUpdate(r)
    BY <2>1, LockStructure
  <2>2. CASE Rollback(r)
    BY <1>1, <2>2 DEF Rollback
  <2>3. CASE CommitInsert(r) \/ CommitUpdate(r) \/ CommitDelete(r) \/ CommitDrop(r)
    BY <2>3, CommitStructure
  <2> QED BY <1>3, <2>1, <2>2, <2>3 DEF Proceed
<1>4. ASSUME NEW r \in Requests, DeadlockVictim(r) PROVE Structure'
  BY <1>1, <1>4 DEF DeadlockVictim
<1>5. ASSUME NEW w \in Wallets, Archive(w) \/ Restore(w) PROVE Structure'
  <2>1. /\ holder[<<"wallet", w>>] = Nobody
        /\ \E to : status' = [status EXCEPT ![w] = to]
        /\ UNCHANGED <<rows, nextRow, holder, request>>
    BY <1>5 DEF Archive, Restore, Flip
  <2>2. \A v \in Wallets, s \in Requests : holder[<<"wallet", v>>] = s => status'[v] = status[v]
    BY <2>1, NobodyAssumption DEF TypeOK
  <2>3. GatesHold'
    <3>1. \A s \in Requests : \A v \in request[s].gated : v \in Wallets
      BY DEF TypeOK, Request
    <3> QED BY <2>1, <2>2, <3>1 DEF Structure, GatesHold
  <2> QED BY <2>1, <2>3 DEF Structure, InsertsAreNew, EditsAreChecked, DropsHoldTheWallet
<1>6. CASE UNCHANGED vars
  BY <1>6 DEF vars, Structure, InsertsAreNew, EditsAreChecked, GatesHold, DropsHoldTheWallet
<1> QED BY <1>2, <1>3, <1>4, <1>5, <1>6 DEF Next

\* No request has started: Structure holds at the start.
LEMMA StructureInit == Init => Structure
<1> SUFFICES ASSUME Init PROVE Structure
  OBVIOUS
<1>1. /\ Idle.op = "drop" /\ Idle.pc = "idle" /\ Idle.row = 0 /\ Idle.linked = FALSE
      /\ Idle.gated = {} /\ Idle.need = {}
  BY DEF Idle
<1>2. \A r \in Requests : request[r] = Idle
  BY DEF Init
<1>3. 0 < nextRow /\ \A i \in Rows : rows[i] # NoRow => i < nextRow
  BY DEF Init
<1> QED BY <1>1, <1>2, <1>3
    DEF Structure, InsertsAreNew, EditsAreChecked, GatesHold, DropsHoldTheWallet
-----------------------------------------------------------------------------
(* The rows and their sums.                                                *)

\* Writing one row moves a wallet's ledger sum by what the row moved.
LEMMA LedgerSumUpdate ==
  ASSUME NEW i \in Rows, NEW t \in Transaction, NEW w \in Wallets,
         rows \in [Rows -> Transaction], rows' = [rows EXCEPT ![i] = t]
  PROVE  /\ LedgerSum(w) \in Int
         /\ LedgerSum(w)' = LedgerSum(w) + signedDelta(t, w) - signedDelta(rows[i], w)
<1> DEFINE f == [j \in Rows |-> signedDelta(rows[j], w)]
           g == [j \in Rows |-> signedDelta(rows'[j], w)]
<1>1. rows' \in [Rows -> Transaction]
  OBVIOUS
<1>2. f \in [Rows -> Int] /\ g \in [Rows -> Int]
  BY <1>1, RowTypes
<1>3. \A j \in Rows \ {i} : g[j] = f[j]
  OBVIOUS
<1>4. f[i] = signedDelta(rows[i], w) /\ g[i] = signedDelta(t, w)
  OBVIOUS
<1>5. LedgerSum(w) = PartialSums(f)[MaxRows] /\ LedgerSum(w)' = PartialSums(g)[MaxRows]
  BY DEF LedgerSum
<1> HIDE DEF f, g
<1>6. PartialSums(f)[MaxRows] \in Int
  <2>1. MaxRows \in 0 .. MaxRows
    BY BoundsAssumption
  <2> QED BY <1>2, <2>1, PartialSumsDef
<1> QED BY <1>2, <1>3, <1>4, <1>5, <1>6, SumUpdate

\* Deleting wallet w leaves rows sound, takes w's ledger to 0 and no other
\* wallet's anywhere.
LEMMA WithoutWalletSound ==
  ASSUME NEW t \in Transaction, NEW w \in Wallets, OneWallet(t)
  PROVE  /\ OneWallet(WithoutWallet(t, w))
         /\ TwoWallets(t) => TwoWallets(WithoutWallet(t, w))
         /\ signedDelta(WithoutWallet(t, w), w) = 0
         /\ \A v \in Wallets \ {w} : signedDelta(WithoutWallet(t, w), v) = signedDelta(t, v)
<1>1. NoWallet \notin Wallets
  BY WalletsAssumption DEF NoWallet
<1>2. t.amt \in Int
  BY DEF Transaction
<1>3. CASE w \notin WalletsOf(t)
  BY <1>1, <1>2, <1>3 DEF WithoutWallet, WalletsOf, signedDelta
<1>4. CASE w \in WalletsOf(t) /\ t.class = "system"
  <2>1. WithoutWallet(t, w) = NoRow
    BY <1>4 DEF WithoutWallet
  <2>2. OneWallet(NoRow) /\ TwoWallets(NoRow)
    BY DEF OneWallet, TwoWallets, NoRow
  <2>3. \A v \in Wallets : signedDelta(NoRow, v) = 0
    BY <1>1 DEF signedDelta, NoRow
  <2>4. \A v \in Wallets \ {w} : signedDelta(t, v) = 0
    BY <1>1, <1>4 DEF signedDelta, OneWallet, WalletsOf
  <2> QED BY <2>1, <2>2, <2>3, <2>4
<1>5. CASE w \in WalletsOf(t) /\ t.class # "system"
  <2>1. WithoutWallet(t, w) =
          [class |-> t.class, dir |-> t.dir, author |-> t.author, amt |-> t.amt,
           out |-> IF t.out = w THEN NoWallet ELSE t.out,
           in  |-> IF t.in = w THEN NoWallet ELSE t.in]
    BY <1>5 DEF WithoutWallet
  <2>2. OneWallet(WithoutWallet(t, w))
    BY <1>5, <2>1 DEF OneWallet
  <2>3. TwoWallets(WithoutWallet(t, w))
    BY <1>5, <2>1 DEF TwoWallets, WalletsOf
  <2>4. signedDelta(WithoutWallet(t, w), w) = 0
    BY <1>1, <1>2, <2>1 DEF signedDelta
  <2>5. \A v \in Wallets \ {w} : signedDelta(WithoutWallet(t, w), v) = signedDelta(t, v)
    BY <1>1, <1>2, <2>1 DEF signedDelta
  <2> QED BY <2>2, <2>3, <2>4, <2>5
<1> QED BY <1>3, <1>4, <1>5

\* A commit keeps the rows sound and, unless it was stale, the balances exact.
LEMMA CommitSound ==
  ASSUME TypeOK, Structure, RowsAreSound, FreshBalanceIsLedger, NEW r \in Requests,
         CommitInsert(r) \/ CommitUpdate(r) \/ CommitDelete(r) \/ CommitDrop(r)
  PROVE  RowsAreSound' /\ FreshBalanceIsLedger'
<1> DEFINE q == request[r]
<1>1. /\ q.old \in Transaction /\ q.change \in UpdateRequest
      /\ rows \in [Rows -> Transaction] /\ balance \in [Wallets -> Int]
  BY DEF TypeOK, Request
<1>2. NoRow \in Transaction /\ OneWallet(NoRow) /\ TwoWallets(NoRow)
  BY RowTypes DEF OneWallet, TwoWallets, NoRow
<1>3. \A w \in Wallets : signedDelta(NoRow, w) = 0
  BY WalletsAssumption DEF signedDelta, NoRow
<1>4. /\ \A i \in Rows : OneWallet(rows[i])
      /\ ~stale => /\ \A i \in Rows : TwoWallets(rows[i])
                   /\ \A w \in Wallets : balance[w] = LedgerSum(w)
  BY DEF RowsAreSound, FreshBalanceIsLedger, BalanceIsLedger
<1>5. ASSUME q.row \in Rows, NEW t \in Transaction, rows' = [rows EXCEPT ![q.row] = t],
             ~stale' => ~stale, OneWallet(t), ~stale' => TwoWallets(t),
             ~stale' => balance' = [w \in Wallets |->
               balance[w] + (signedDelta(t, w) - signedDelta(rows[q.row], w))]
      PROVE  RowsAreSound' /\ FreshBalanceIsLedger'
  <2>1. \A i \in Rows : rows'[i] = IF i = q.row THEN t ELSE rows[i]
    BY <1>1, <1>5
  <2>2. RowsAreSound'
    BY <1>4, <1>5, <2>1 DEF RowsAreSound
  <2>3. ASSUME ~stale', NEW w \in Wallets PROVE balance'[w] = LedgerSum(w)'
    <3>1. balance[w] = LedgerSum(w) /\ balance[w] \in Int
      BY <1>1, <1>4, <1>5, <2>3
    <3>2. balance'[w] = balance[w] + (signedDelta(t, w) - signedDelta(rows[q.row], w))
      BY <1>5, <2>3
    <3>3. LedgerSum(w)' = LedgerSum(w) + signedDelta(t, w) - signedDelta(rows[q.row], w)
      BY <1>1, <1>5, LedgerSumUpdate
    <3>4. signedDelta(t, w) \in Int /\ signedDelta(rows[q.row], w) \in Int
      BY <1>1, <1>5, RowTypes
    <3> QED BY <3>1, <3>2, <3>3, <3>4
  <2> QED BY <2>2, <2>3 DEF FreshBalanceIsLedger, BalanceIsLedger
<1>6. CASE CommitInsert(r)
  <2>1. /\ q.op = "insert" /\ rows' = [rows EXCEPT ![q.row] = q.old] /\ stale' = stale
        /\ balance' = [w \in Wallets |-> balance[w] + signedDelta(q.old, w)]
    BY <1>6 DEF CommitInsert, Write, Ready
  <2>2. q.row \in Rows /\ rows[q.row] = NoRow /\ OneWallet(q.old) /\ TwoWallets(q.old)
    BY <2>1 DEF Structure, InsertsAreNew
  <2>3. balance' = [w \in Wallets |->
               balance[w] + (signedDelta(q.old, w) - signedDelta(rows[q.row], w))]
    <3>1. \A w \in Wallets : signedDelta(q.old, w) - signedDelta(rows[q.row], w) = signedDelta(q.old, w)
      BY <1>1, <1>3, <2>2, RowTypes
    <3> QED BY <2>1, <3>1
  <2> HIDE DEF q
  <2> QED BY <1>1, <1>5, <2>1, <2>2, <2>3
<1>7. CASE CommitUpdate(r)
  <2>1. /\ q.op = "edit" /\ stale' = (stale \/ rows[q.row] # q.old)
        /\ rows' = [rows EXCEPT ![q.row] = UpdateRow(rows[q.row], q.change)]
        /\ balance' = [w \in Wallets |-> balance[w]
             + (signedDelta(UpdateRow(q.old, q.change), w) - signedDelta(q.old, w))]
    BY <1>7 DEF CommitUpdate, Write, Ready
  <2>2. /\ q.row \in Rows /\ rows[q.row].class # "system"
        /\ TwoWallets(UpdateRow(q.old, q.change))
    BY <2>1 DEF Structure, EditsAreChecked
  <2>3. UpdateRow(rows[q.row], q.change) \in Transaction
    BY <1>1, <2>2, RowTypes
  <2>4. OneWallet(UpdateRow(rows[q.row], q.change))
    BY <2>2 DEF OneWallet, UpdateRow
  <2>5. ~stale' => ~stale /\ rows[q.row] = q.old
    BY <2>1
  <2>6. ~stale' => TwoWallets(UpdateRow(rows[q.row], q.change))
    BY <2>2, <2>5
  <2>7. ~stale' => balance' = [w \in Wallets |-> balance[w]
             + (signedDelta(UpdateRow(rows[q.row], q.change), w) - signedDelta(rows[q.row], w))]
    BY <2>1, <2>5
  <2> HIDE DEF q
  <2> QED BY <1>5, <2>1, <2>2, <2>3, <2>4, <2>5, <2>6, <2>7
<1>8. CASE CommitDelete(r)
  <2>1. /\ q.op = "delete" /\ stale' = (stale \/ rows[q.row] # q.old)
        /\ rows' = [rows EXCEPT ![q.row] = NoRow]
        /\ balance' = [w \in Wallets |-> balance[w] + (0 - signedDelta(q.old, w))]
    BY <1>8 DEF CommitDelete, Write, Ready
  <2>2. q.row \in Rows
    BY <2>1 DEF Structure, EditsAreChecked
  <2>3. ~stale' => ~stale /\ rows[q.row] = q.old
    BY <2>1
  <2>4. ~stale' => balance' = [w \in Wallets |-> balance[w]
             + (signedDelta(NoRow, w) - signedDelta(rows[q.row], w))]
    BY <1>3, <2>1, <2>3
  <2> HIDE DEF q
  <2> QED BY <1>2, <1>5, <2>1, <2>2, <2>3, <2>4
<1>9. CASE CommitDrop(r)
  <2> DEFINE d == q.first
  <2>1. /\ q.op = "drop" /\ q.pc = "locking" /\ stale' = stale
        /\ rows' = [i \in Rows |-> WithoutWallet(rows[i], d)]
        /\ balance' = [balance EXCEPT ![d] = 0]
    BY <1>9 DEF CommitDrop, Ready
  <2>2. d \in Wallets
    BY <2>1 DEF Structure, DropsHoldTheWallet
  <2> HIDE DEF d, q
  <2>3. \A i \in Rows :
          /\ OneWallet(rows'[i])
          /\ TwoWallets(rows[i]) => TwoWallets(rows'[i])
          /\ signedDelta(rows'[i], d) = 0
          /\ \A v \in Wallets \ {d} : signedDelta(rows'[i], v) = signedDelta(rows[i], v)
    BY <1>1, <1>4, <2>1, <2>2, WithoutWalletSound
  <2>4. RowsAreSound'
    BY <1>4, <2>1, <2>3 DEF RowsAreSound
  <2>5. ASSUME ~stale', NEW w \in Wallets PROVE balance'[w] = LedgerSum(w)'
    <3>1. CASE w = d
      <4>1. balance'[w] = 0
        BY <1>1, <2>1, <3>1
      <4>2. LedgerSum(w)' = 0
        <5> DEFINE g == [i \in Rows |-> signedDelta(rows'[i], w)]
        <5>1. g \in [Rows -> Int] /\ \A i \in Rows : g[i] = 0
          BY <2>3, <3>1
        <5>2. LedgerSum(w)' = PartialSums(g)[MaxRows]
          BY DEF LedgerSum
        <5> HIDE DEF g
        <5> QED BY <5>1, <5>2, SumOfZeros
      <4> QED BY <4>1, <4>2
    <3>2. CASE w # d
      <4>1. balance'[w] = LedgerSum(w)
        BY <1>1, <1>4, <2>1, <2>5, <3>2
      <4>2. [i \in Rows |-> signedDelta(rows'[i], w)] = [i \in Rows |-> signedDelta(rows[i], w)]
        BY <2>3, <3>2
      <4>3. LedgerSum(w)' = LedgerSum(w)
        BY <4>2, Zenon DEF LedgerSum
      <4> QED BY <4>1, <4>3
    <3> QED BY <3>1, <3>2
  <2> QED BY <2>4, <2>5 DEF FreshBalanceIsLedger, BalanceIsLedger
<1> QED BY <1>6, <1>7, <1>8, <1>9
\* Only commits touch the rows and the balances.
LEMMA SoundStep ==
  TypeOK /\ Structure /\ RowsAreSound /\ FreshBalanceIsLedger /\ [Next]_vars
    => RowsAreSound' /\ FreshBalanceIsLedger'
<1> SUFFICES ASSUME TypeOK, Structure, RowsAreSound, FreshBalanceIsLedger, [Next]_vars
             PROVE  RowsAreSound' /\ FreshBalanceIsLedger'
  OBVIOUS
<1>1. ASSUME UNCHANGED <<rows, balance, stale>>
      PROVE  RowsAreSound' /\ FreshBalanceIsLedger'
  BY <1>1 DEF RowsAreSound, FreshBalanceIsLedger, BalanceIsLedger, LedgerSum
<1>2. ASSUME NEW r \in Requests, NEW u \in Users, Begin(r, u)
      PROVE  UNCHANGED <<rows, balance, stale>>
  BY <1>2 DEF Begin, createSingle, createTransfer, AdjustBalance, updateRow, deleteRow,
              linkedWrite, dropWallet, Insert, Start
<1>3. ASSUME NEW r \in Requests, Proceed(r)
      PROVE  \/ UNCHANGED <<rows, balance, stale>>
             \/ CommitInsert(r) \/ CommitUpdate(r) \/ CommitDelete(r) \/ CommitDrop(r)
  BY <1>3 DEF Proceed, LockAccountsForUpdate, Rollback
<1>4. ASSUME NEW r \in Requests, DeadlockVictim(r) PROVE UNCHANGED <<rows, balance, stale>>
  BY <1>4 DEF DeadlockVictim
<1>5. ASSUME NEW w \in Wallets, Archive(w) \/ Restore(w) PROVE UNCHANGED <<rows, balance, stale>>
  BY <1>5 DEF Archive, Restore, Flip
<1>6. UNCHANGED vars => UNCHANGED <<rows, balance, stale>>
  BY DEF vars
<1> QED BY <1>1, <1>2, <1>3, <1>4, <1>5, <1>6, CommitSound DEF Next

\* The first balances are the sums of the first rows.
LEMMA SoundInit ==
  ASSUME Init, \A i \in Rows : OneWallet(rows[i]) /\ TwoWallets(rows[i])
  PROVE  RowsAreSound /\ FreshBalanceIsLedger
BY DEF Init, RowsAreSound, FreshBalanceIsLedger, BalanceIsLedger

-----------------------------------------------------------------------------
(* The theorems.                                                           *)

\* IInv is an invariant of the ledger: it holds at the start and every step of
\* every handler keeps it.
THEOREM Inductive == Spec => []IInv
<1>1. Init => IInv
  BY TypeInit, StructureInit, SoundInit, SeedsAreSound DEF Init, IInv
<1>2. IInv /\ [Next]_vars => IInv'
  BY TypeStep, StructureStep, SoundStep DEF IInv
<1> QED BY <1>1, <1>2, PTL DEF Spec

\* What each request was checked for still holds when it writes: ids are given
\* once, gated wallets stay active, and a wallet is deleted under its own lock.
THEOREM RequestsAreChecked == Spec => []Structure
<1>1. IInv => Structure
  BY DEF IInv
<1> QED BY <1>1, Inductive, PTL

\* accounts.balance is the sum of the wallet's rows, for every number of
\* concurrent requests, until a write is committed from a row that changed after
\* its unlocked read.
THEOREM BalancesFollowTheRows == Spec => []FreshBalanceIsLedger
<1>1. IInv => FreshBalanceIsLedger
  BY DEF IInv
<1> QED BY <1>1, Inductive, PTL

\* Until then, the two wallets of a transfer differ: no edit, deletion or race
\* makes a transfer from a wallet to itself.
THEOREM TransfersMoveMoney == Spec => []FreshTransfersMoveMoney
<1>1. IInv => FreshTransfersMoveMoney
  BY DEF IInv, RowsAreSound, TwoWallets, FreshTransfersMoveMoney, WalletsOf
<1> QED BY <1>1, Inductive, PTL

\* No row enters an archived wallet, whatever was in flight when it was archived
\* (stale writes included): the gate is taken under the wallet's lock.
THEOREM ArchivedIsReadOnly == Spec => ArchivedTakesNothingIn
<1>1. ASSUME TypeOK, Structure, [Next]_vars, NEW w \in Wallets, status[w] = "archived"
      PROVE  RowsIn(w)' \subseteq RowsIn(w)
  <2>1. ASSUME UNCHANGED rows PROVE RowsIn(w)' \subseteq RowsIn(w)
    BY <2>1 DEF RowsIn
  <2>2. ASSUME NEW r \in Requests, request[r].need = {} PROVE w \notin request[r].gated
    BY <1>1, <2>2 DEF Structure, GatesHold
  <2>3. w # NoWallet
    BY WalletsAssumption DEF NoWallet
  <2>4. ASSUME NEW r \in Requests, NEW t, rows' = [rows EXCEPT ![request[r].row] = t],
               w \in WalletsOf(t) => w \in WalletsOf(rows[request[r].row])
        PROVE  RowsIn(w)' \subseteq RowsIn(w)
    BY <1>1, <2>4 DEF RowsIn, TypeOK
  <2>5. ASSUME NEW r \in Requests, CommitInsert(r) PROVE RowsIn(w)' \subseteq RowsIn(w)
    <3>1. w \notin WalletsOf(request[r].old)
      BY <1>1, <2>2, <2>5 DEF CommitInsert, Ready, Structure, GatesHold
    <3>2. rows' = [rows EXCEPT ![request[r].row] = request[r].old]
      BY <2>5 DEF CommitInsert, Write
    <3> QED BY <2>4, <3>1, <3>2
  <2>6. ASSUME NEW r \in Requests, CommitUpdate(r) PROVE RowsIn(w)' \subseteq RowsIn(w)
    <3> DEFINE t == UpdateRow(rows[request[r].row], request[r].change)
    <3>1. w \notin Sent(request[r].change)
      BY <1>1, <2>2, <2>6 DEF CommitUpdate, Ready, Structure, GatesHold
    <3>2. rows' = [rows EXCEPT ![request[r].row] = t]
      BY <2>6 DEF CommitUpdate, Write
    <3>3. w # Keep
      BY WalletsAssumption DEF Keep
    <3>4. w \in WalletsOf(t) => w \in WalletsOf(rows[request[r].row])
      BY <2>3, <3>1, <3>3 DEF WalletsOf, Sent, UpdateRow
    <3> QED BY <2>4, <3>2, <3>4
  <2>7. ASSUME NEW r \in Requests, CommitDelete(r) PROVE RowsIn(w)' \subseteq RowsIn(w)
    <3>1. w \notin WalletsOf(NoRow)
      BY <2>3 DEF WalletsOf, NoRow
    <3>2. rows' = [rows EXCEPT ![request[r].row] = NoRow]
      BY <2>7 DEF CommitDelete, Write
    <3> QED BY <2>4, <3>1, <3>2
  <2>8. ASSUME NEW r \in Requests, CommitDrop(r) PROVE RowsIn(w)' \subseteq RowsIn(w)
    <3>1. rows' = [i \in Rows |-> WithoutWallet(rows[i], request[r].first)]
      BY <2>8 DEF CommitDrop
    <3>2. \A t, v : w \in WalletsOf(WithoutWallet(t, v)) => w \in WalletsOf(t)
      BY <2>3 DEF WithoutWallet, WalletsOf, NoRow
    <3> QED BY <3>1, <3>2 DEF RowsIn
  <2>9. ASSUME NEW r \in Requests, Proceed(r) \/ DeadlockVictim(r)
        PROVE  RowsIn(w)' \subseteq RowsIn(w)
    BY <2>1, <2>5, <2>6, <2>7, <2>8, <2>9
    DEF Proceed, LockAccountsForUpdate, Rollback, DeadlockVictim
  <2>10. ASSUME NEW r \in Requests, NEW u \in Users, Begin(r, u) PROVE UNCHANGED rows
    BY <2>10 DEF Begin, createSingle, createTransfer, AdjustBalance, updateRow, deleteRow,
                 linkedWrite, dropWallet, Insert, Start
  <2>11. ASSUME NEW v \in Wallets, Archive(v) \/ Restore(v) PROVE UNCHANGED rows
    BY <2>11 DEF Archive, Restore, Flip
  <2> QED BY <1>1, <2>1, <2>9, <2>10, <2>11 DEF Next, vars
<1>2. TypeOK /\ Structure /\ [Next]_vars
        => [\A w \in Wallets : status[w] = "archived" => RowsIn(w)' \subseteq RowsIn(w)]_vars
  BY <1>1
<1>3. Init => TypeOK /\ Structure
  BY TypeInit, StructureInit
<1>4. TypeOK /\ Structure /\ [Next]_vars => TypeOK' /\ Structure'
  BY TypeStep, StructureStep
<1> QED BY <1>2, <1>3, <1>4, PTL DEF Spec, ArchivedTakesNothingIn

-----------------------------------------------------------------------------
(* Deadlocks, for every number of wallets, rows and requests.  A request   *)
(* that locks in the id order holds only locks that precede those it still *)
(* needs, so around a circle of such requests the locks would precede      *)
(* themselves.                                                             *)

\* The order of the locks: wallets by id, then rows by id.
Precedes(h, k) ==
  \/ h[1] = "wallet" /\ k[1] = "row"
  \/ h[1] = k[1] /\ h[2] < k[2]

\* A request that keeps to that order.
InOrder(q) == ~q.linked /\ ~q.noted /\ ~(q.op = "edit" /\ q.first # NoWallet)

HoldsNothing(r) == \A k \in Keys : holder[k] # r

\* Whoever keeps to the order holds only what precedes what it still needs.
LocksInOrder ==
  \A r \in Requests :
    /\ request[r].pc = "idle" => request[r].need = {} /\ HoldsNothing(r)
    /\ request[r].op \in {"insert", "delete"} => request[r].first = NoWallet
    /\ request[r].op = "drop" =>
         \/ \A k \in request[r].need : k[1] = "row"
         \/ HoldsNothing(r) /\ request[r].need = {<<"wallet", request[r].first>>}
    /\ InOrder(request[r]) =>
         \A h \in Keys, k \in request[r].need : holder[h] = r => Precedes(h, k)

-----------------------------------------------------------------------------
\* What a starting request must satisfy.
StartsInOrder(q) ==
  /\ q.pc = "locking"
  /\ q.op \in {"insert", "delete"} => q.first = NoWallet
  /\ q.op = "drop" => q.need = {<<"wallet", q.first>>}

\* Every request starts with no lock, and a known first one.
LEMMA BeginInOrder ==
  ASSUME NEW r \in Requests, NEW u \in Users, Begin(r, u)
  PROVE  /\ request[r].pc = "idle" /\ holder' = holder
         /\ \E q : StartsInOrder(q) /\ request' = [request EXCEPT ![r] = q]
<1>1. request[r].pc = "idle"
  BY DEF Begin
<1>2. ASSUME NEW q, Start(r, q), StartsInOrder(q)
      PROVE  holder' = holder /\ \E p : StartsInOrder(p) /\ request' = [request EXCEPT ![r] = p]
  BY <1>2 DEF Start
<1>3. ASSUME NEW t, Insert(r, u, t)
      PROVE  \E q : Start(r, q) /\ StartsInOrder(q)
  <2> DEFINE q == [Idle EXCEPT !.pc = "locking", !.op = "insert", !.user = u, !.row = nextRow,
                               !.old = t, !.need = WalletKeys(WalletsOf(t)),
                               !.gated = WalletsOf(t)]
  <2>1. Start(r, q)
    BY <1>3 DEF Insert
  <2>2. q.pc = "locking" /\ q.op = "insert" /\ q.first = NoWallet
    BY Zenon DEF Idle
  <2> HIDE DEF q
  <2> QED
    BY <2>1, <2>2 DEF StartsInOrder
<1>4. CASE createSingle(r, u) \/ createTransfer(r, u) \/ AdjustBalance(r, u)
  BY <1>1, <1>2, <1>3, <1>4 DEF createSingle, createTransfer, AdjustBalance
<1>5. CASE updateRow(r, u)
  <2>1. PICK i \in Rows, c \in UpdateRequest, noted \in BOOLEAN :
          Start(r, [Idle EXCEPT !.pc = "locking", !.op = "edit", !.noted = noted, !.user = u,
                !.row = i, !.old = rows[i], !.change = c,
                !.need = WalletKeys(EditLocks(rows[i], c)) \cup {<<"row", i>>},
                !.gated = Sent(c), !.first = OldWalletFirst(rows[i], c)])
    BY <1>5 DEF updateRow
  <2> DEFINE q == [Idle EXCEPT !.pc = "locking", !.op = "edit", !.noted = noted, !.user = u,
                !.row = i, !.old = rows[i], !.change = c,
                !.need = WalletKeys(EditLocks(rows[i], c)) \cup {<<"row", i>>},
                !.gated = Sent(c), !.first = OldWalletFirst(rows[i], c)]
  <2>2. Start(r, q) /\ q.pc = "locking" /\ q.op = "edit"
    BY <2>1, Zenon DEF Idle
  <2> HIDE DEF q
  <2> QED
    BY <1>1, <1>2, <2>2 DEF StartsInOrder
<1>6. CASE deleteRow(r, u)
  <2>1. PICK i \in Rows :
          Start(r, [Idle EXCEPT !.pc = "locking", !.op = "delete", !.user = u, !.row = i,
                !.old = rows[i],
                !.need = WalletKeys(WalletsOf(rows[i])) \cup {<<"row", i>>}])
    BY <1>6 DEF deleteRow
  <2> DEFINE q == [Idle EXCEPT !.pc = "locking", !.op = "delete", !.user = u, !.row = i,
                !.old = rows[i],
                !.need = WalletKeys(WalletsOf(rows[i])) \cup {<<"row", i>>}]
  <2>2. Start(r, q) /\ q.pc = "locking" /\ q.op = "delete" /\ q.first = NoWallet
    BY <2>1, Zenon DEF Idle
  <2> HIDE DEF q
  <2> QED
    BY <1>1, <1>2, <2>2 DEF StartsInOrder
<1>7. CASE linkedWrite(r, u)
  <2>0. PICK i \in Rows :
          \E ch \in {"delete"} \X {NoChange} \cup {"edit"} \X linkedChanges(rows[i]) :
            Start(r, [Idle EXCEPT !.pc = "locking", !.op = ch[1], !.linked = TRUE, !.user = u,
                  !.row = i, !.change = ch[2], !.need = {<<"row", i>>},
                  !.gated = Sent(ch[2])])
    BY <1>7 DEF linkedWrite
  <2>1. PICK ch \in {"delete"} \X {NoChange} \cup {"edit"} \X linkedChanges(rows[i]) :
          Start(r, [Idle EXCEPT !.pc = "locking", !.op = ch[1], !.linked = TRUE, !.user = u,
                !.row = i, !.change = ch[2], !.need = {<<"row", i>>},
                !.gated = Sent(ch[2])])
    BY <2>0
  <2> DEFINE q == [Idle EXCEPT !.pc = "locking", !.op = ch[1], !.linked = TRUE, !.user = u,
                !.row = i, !.change = ch[2], !.need = {<<"row", i>>},
                !.gated = Sent(ch[2])]
  <2>2. Start(r, q) /\ q.pc = "locking" /\ q.op = ch[1] /\ q.first = NoWallet
    BY <2>1, Zenon DEF Idle
  <2>3. ch[1] \in {"delete", "edit"}
    OBVIOUS
  <2> HIDE DEF q
  <2> QED
    BY <1>1, <1>2, <2>2, <2>3 DEF StartsInOrder
<1>8. CASE dropWallet(r, u)
  <2>1. PICK w \in Wallets :
          Start(r, [Idle EXCEPT !.pc = "locking", !.op = "drop", !.user = u,
                !.need = {<<"wallet", w>>}, !.first = w])
    BY <1>8 DEF dropWallet
  <2> DEFINE q == [Idle EXCEPT !.pc = "locking", !.op = "drop", !.user = u,
                !.need = {<<"wallet", w>>}, !.first = w]
  <2>2. Start(r, q) /\ q.pc = "locking" /\ q.op = "drop" /\ q.need = {<<"wallet", w>>} /\ q.first = w
    BY <2>1, Zenon DEF Idle
  <2> HIDE DEF q
  <2> QED
    BY <1>1, <1>2, <2>2 DEF StartsInOrder
<1> QED
  BY <1>4, <1>5, <1>6, <1>7, <1>8 DEF Begin

\* A request that starts keeps the order: it holds nothing yet.
LEMMA OrderBegin ==
  ASSUME TypeOK, LocksInOrder, NEW r \in Requests, NEW u \in Users, Begin(r, u)
  PROVE  LocksInOrder'
<1>1. request[r].pc = "idle" /\ holder' = holder /\ HoldsNothing(r)
  BY BeginInOrder DEF LocksInOrder
<1>2. PICK q : StartsInOrder(q) /\ request' = [request EXCEPT ![r] = q]
  BY BeginInOrder
<1>3. \A s \in Requests : HoldsNothing(s)' <=> HoldsNothing(s)
  BY <1>1 DEF HoldsNothing
<1>4. ASSUME NEW s \in Requests \ {r} PROVE request'[s] = request[s]
  BY <1>2
<1>5. request'[r] = q
  BY <1>2 DEF TypeOK
<1> QED
  BY <1>1, <1>2, <1>3, <1>4, <1>5 DEF LocksInOrder, StartsInOrder, HoldsNothing

\* A request that ends holds nothing.
LEMMA OrderEnd ==
  ASSUME TypeOK, LocksInOrder, NEW r \in Requests, Finish(r)
  PROVE  LocksInOrder'
<1>1. /\ \A s \in Requests \ {r} : request'[s] = request[s]
      /\ request'[r].need = {} /\ request'[r].op = "drop"
  BY DEF Finish, TypeOK, Idle
<1>2. \A k \in Keys : holder'[k] # r /\ (holder[k] # r => holder'[k] = holder[k]) /\ (holder[k] = r => holder'[k] = Nobody)
  BY NobodyAssumption DEF Finish
<1>3. HoldsNothing(r)' /\ \A s \in Requests \ {r} : HoldsNothing(s) => HoldsNothing(s)'
  BY <1>2, NobodyAssumption DEF HoldsNothing
<1>4. \A s \in Requests \ {r}, h \in Keys : holder'[h] = s => holder[h] = s
  BY <1>2, NobodyAssumption
<1> QED
  BY <1>1, <1>3, <1>4 DEF LocksInOrder

\* A lock that is next precedes every other its request still needs.
LEMMA NextPrecedes ==
  ASSUME TypeOK, LocksInOrder, NEW r \in Requests, InOrder(request[r]),
         NEW k \in request[r].need, NextLock(request[r], k), NEW j \in request[r].need, j # k
  PROVE  Precedes(k, j)
<1>1. k \in Keys /\ j \in Keys
  BY DEF TypeOK, Request
<1>2. /\ k[1] \in {"wallet", "row"} /\ j[1] \in {"wallet", "row"} /\ k[2] \in Nat /\ j[2] \in Nat
      /\ k[1] = "wallet" => k[2] # NoWallet
      /\ k = <<k[1], k[2]>> /\ j = <<j[1], j[2]>>
  BY <1>1, WalletsAssumption DEF Keys, Rows, NoWallet
<1>3. ~request[r].linked /\ ~request[r].noted /\ LockedBefore(request[r], k, j)
  BY DEF InOrder, NextLock
<1>4. request[r].op \in {"insert", "edit", "delete", "drop"}
  BY DEF TypeOK, Request
<1>5. CASE request[r].op = "drop"
  <2>1. k[1] = "row" \/ request[r].need = {<<"wallet", request[r].first>>}
    BY <1>5 DEF LocksInOrder
  <2> QED
    BY <1>2, <1>3, <2>1 DEF LockedBefore, Precedes
<1>6. CASE request[r].op # "drop"
  <2>1. request[r].first = NoWallet
    BY <1>4, <1>6 DEF LocksInOrder, InOrder
  <2> QED
    BY <1>2, <1>3, <2>1 DEF LockedBefore, Precedes
<1> QED
  BY <1>5, <1>6

\* Taking the next lock keeps the order.
LEMMA OrderLock ==
  ASSUME TypeOK, Structure, LocksInOrder, NEW r \in Requests, LockAccountsForUpdate(r)
  PROVE  LocksInOrder'
<1>1. PICK k \in request[r].need :
        /\ NextLock(request[r], k) /\ holder[k] = Nobody
        /\ holder' = [holder EXCEPT ![k] = r]
        /\ request' = [request EXCEPT ![r] = Locked(request[r], k)]
  BY DEF LockAccountsForUpdate
<1>2. k \in Keys /\ request[r] \in Request
  BY DEF TypeOK, Request
<1>3. ASSUME NEW s \in Requests \ {r}
      PROVE  request'[s] = request[s] /\ (HoldsNothing(s) => HoldsNothing(s)')
             /\ \A h \in Keys : holder'[h] = s => holder[h] = s
  BY <1>1, <1>2 DEF TypeOK, HoldsNothing
<1>4. \A h \in Keys : holder'[h] = r <=> holder[h] = r \/ h = k
  BY <1>1, <1>2 DEF TypeOK
<1> DEFINE q == request[r]
           p == request'[r]
<1>5. /\ p = Locked(q, k) /\ p.pc = q.pc /\ p.op = q.op /\ p.first = q.first /\ p.linked = q.linked
      /\ p.noted = q.noted
      /\ p.need = (IF q.linked /\ k[1] = "row"
                     THEN WalletKeys(WalletsOf(rows[k[2]]) \cup Sent(q.change))
                   ELSE IF q.op = "drop" /\ k[1] = "wallet"
                     THEN {<<"row", i>> : i \in {x \in Rows : k[2] \in WalletsOf(rows[x])}}
                   ELSE q.need \ {k})
  <2>1. p = Locked(q, k)
    BY <1>1 DEF TypeOK
  <2> HIDE DEF p
  <2> QED
    BY <1>2, <2>1 DEF Locked, Request
<1>6. q.pc # "idle"
  BY <1>1 DEF LocksInOrder
<1>7. q.op \in {"insert", "delete"} => q.first = NoWallet
  BY DEF LocksInOrder
<1>8. q.op = "drop" => \A j \in p.need : j[1] = "row"
  <2>1. q.op = "drop" => ~q.linked
    BY DEF Structure, EditsAreChecked
  <2>2. q.op = "drop" => \/ k[1] = "row" /\ \A j \in q.need : j[1] = "row"
                         \/ k[1] = "wallet" /\ q.need = {k}
    <3>1. ASSUME q.need = {<<"wallet", q.first>>} PROVE k[1] = "wallet" /\ q.need = {k}
      BY <1>1, <3>1
    <3>2. ASSUME \A j \in q.need : j[1] = "row" PROVE k[1] = "row"
      BY <1>1, <3>2
    <3>3. q.op = "drop" => (\A j \in q.need : j[1] = "row") \/ q.need = {<<"wallet", q.first>>}
      BY DEF LocksInOrder
    <3> HIDE DEF q
    <3> QED
      BY <3>1, <3>2, <3>3
  <2> HIDE DEF p, q
  <2> QED
    BY <1>5, <2>1, <2>2
<1>9. ASSUME InOrder(p), NEW h \in Keys, NEW j \in p.need, holder'[h] = r
      PROVE  Precedes(h, j)
  <2>1. InOrder(q) /\ ~q.linked
    BY <1>5, <1>9 DEF InOrder
  <2>2. CASE q.op = "drop" /\ k[1] = "wallet"
    <3>1. HoldsNothing(r)
      BY <1>1, <2>2 DEF LocksInOrder
    <3>2. h = k
      BY <1>4, <1>9, <3>1 DEF HoldsNothing
    <3> QED
      BY <1>8, <1>9, <2>2, <3>2 DEF Precedes
  <2>3. CASE ~(q.op = "drop" /\ k[1] = "wallet")
    <3>1. j \in q.need /\ j # k
      BY <1>5, <1>9, <2>1, <2>3
    <3>2. holder[h] = r => Precedes(h, j)
      BY <2>1, <3>1 DEF LocksInOrder
    <3>3. Precedes(k, j)
      BY <1>1, <2>1, <3>1, NextPrecedes
    <3> QED
      BY <1>4, <1>9, <3>2, <3>3
  <2> QED
    BY <2>2, <2>3
<1> HIDE DEF p, q
<1>10. ASSUME NEW s \in Requests
       PROVE  /\ request'[s].pc = "idle" => request'[s].need = {} /\ HoldsNothing(s)'
              /\ request'[s].op \in {"insert", "delete"} => request'[s].first = NoWallet
              /\ request'[s].op = "drop" =>
                   \/ \A j \in request'[s].need : j[1] = "row"
                   \/ HoldsNothing(s)' /\ request'[s].need = {<<"wallet", request'[s].first>>}
              /\ InOrder(request'[s]) =>
                   \A h \in Keys, j \in request'[s].need : holder'[h] = s => Precedes(h, j)
  <2>1. CASE s = r
    BY <1>5, <1>6, <1>7, <1>8, <1>9, <2>1 DEF p, q
  <2>2. CASE s # r
    BY <1>3, <2>2 DEF LocksInOrder
  <2> QED
    BY <2>1, <2>2
<1> QED
  BY <1>10 DEF LocksInOrder

LEMMA OrderStep == TypeOK /\ Structure /\ LocksInOrder /\ [Next]_vars => LocksInOrder'
<1> SUFFICES ASSUME TypeOK, Structure, LocksInOrder, [Next]_vars PROVE LocksInOrder'
  OBVIOUS
<1>1. ASSUME NEW r \in Requests, NEW u \in Users, Begin(r, u) PROVE LocksInOrder'
  BY <1>1, OrderBegin
<1>2. ASSUME NEW r \in Requests, Proceed(r) PROVE LocksInOrder'
  <2>1. CASE LockAccountsForUpdate(r)
    BY <2>1, OrderLock
  <2>2. CASE ~LockAccountsForUpdate(r)
    <3>1. Finish(r)
      BY <1>2, <2>2 DEF Proceed, Rollback, CommitInsert, CommitUpdate, CommitDelete, CommitDrop
    <3> QED
      BY <3>1, OrderEnd
  <2> QED
    BY <2>1, <2>2
<1>3. ASSUME NEW r \in Requests, DeadlockVictim(r) PROVE LocksInOrder'
  BY <1>3, OrderEnd DEF DeadlockVictim
<1>4. ASSUME NEW w \in Wallets, Archive(w) \/ Restore(w) PROVE LocksInOrder'
  <2>1. UNCHANGED <<holder, request>>
    BY <1>4 DEF Archive, Restore, Flip
  <2> QED
    BY <2>1 DEF LocksInOrder, HoldsNothing
<1>5. CASE UNCHANGED vars
  BY <1>5 DEF vars, LocksInOrder, HoldsNothing
<1> QED
  BY <1>1, <1>2, <1>3, <1>4, <1>5 DEF Next

LEMMA OrderInit == Init => LocksInOrder
<1> SUFFICES ASSUME Init PROVE LocksInOrder
  OBVIOUS
<1>1. \A r \in Requests : request[r] = Idle /\ HoldsNothing(r)
  BY NobodyAssumption DEF Init, HoldsNothing
<1>2. Idle.need = {} /\ Idle.op = "drop"
  BY DEF Idle
<1> QED
  BY <1>1, <1>2 DEF LocksInOrder

\* Whatever is in flight, a request that keeps to the order holds only locks that precede
\* those it still needs.
THEOREM LocksKeepTheirOrder == Spec => []LocksInOrder
BY OrderInit, OrderStep, TypeCorrect, RequestsAreChecked, PTL DEF Spec

-----------------------------------------------------------------------------
\* Keys that each have one of them before them: there are none.
LEMMA NoEndlessDescent ==
  ASSUME NEW K, K \subseteq Keys, \A k \in K : \E h \in K : Precedes(h, k)
  PROVE  K = {}
<1> DEFINE wallets == {w \in Wallets : <<"wallet", w>> \in K}
           rowIds == {i \in Rows : <<"row", i>> \in K}
<1>1. wallets \subseteq Nat /\ rowIds \subseteq Nat
  <2>1. Wallets \subseteq Nat /\ Rows \subseteq Nat
    BY WalletsAssumption, BoundsAssumption DEF Rows
  <2> QED
    BY <2>1
<1>2. \A h \in K : \/ h[1] = "wallet" /\ h[2] \in wallets /\ h = <<"wallet", h[2]>>
                   \/ h[1] = "row" /\ h[2] \in rowIds /\ h = <<"row", h[2]>>
  BY DEF Keys
<1>3. wallets = {}
  <2>1. ASSUME NEW w \in wallets PROVE \E v \in wallets : v < w
    <3>1. PICK h \in K : Precedes(h, <<"wallet", w>>)
      OBVIOUS
    <3> QED
      BY <1>2, <3>1 DEF Precedes
  <2> HIDE DEF wallets
  <2> SUFFICES ASSUME wallets # {} PROVE FALSE
    OBVIOUS
  <2>2. PICK x \in wallets : \A y \in wallets : x <= y
    BY <1>1, NatMin
  <2>3. PICK y \in wallets : y < x
    BY <2>1
  <2> QED
    BY <1>1, <2>2, <2>3
<1>4. rowIds = {}
  <2>1. ASSUME NEW i \in rowIds PROVE \E j \in rowIds : j < i
    <3>1. PICK h \in K : Precedes(h, <<"row", i>>)
      OBVIOUS
    <3> QED
      BY <1>2, <1>3, <3>1 DEF Precedes
  <2> HIDE DEF rowIds
  <2> SUFFICES ASSUME rowIds # {} PROVE FALSE
    OBVIOUS
  <2>2. PICK x \in rowIds : \A y \in rowIds : x <= y
    BY <1>1, NatMin
  <2>3. PICK y \in rowIds : y < x
    BY <2>1
  <2> QED
    BY <1>1, <2>2, <2>3
<1> QED
  BY <1>2, <1>3, <1>4

\* Requests never wait for each other in a circle unless one of them takes locks out of the
\* order: a single row that changes wallet, a linked write, or an edit that sends a private
\* note.
THEOREM DeadlocksNeedAnOutOfOrderLocker == Spec => []CyclesNeedAnOutOfOrderLocker
<1>1. TypeOK /\ LocksInOrder => CyclesNeedAnOutOfOrderLocker
  <2> SUFFICES ASSUME TypeOK, LocksInOrder, NEW S \in SUBSET Requests, WaitCycle(S),
                      \A r \in S : InOrder(request[r])
               PROVE  FALSE
    BY DEF CyclesNeedAnOutOfOrderLocker, InOrder
  <2> DEFINE waited(k) == \E r \in S : k \in request[r].need /\ holder[k] \in S
             K == {k \in Keys : waited(k)}
  <2>1. ASSUME NEW s \in S PROVE \E k \in K : holder[k] = s
    <3>1. PICK r \in S : Waits(r, s)
      BY DEF WaitCycle
    <3>2. PICK k \in request[r].need : holder[k] = s
      BY <3>1 DEF Waits
    <3> QED
      BY <3>2 DEF TypeOK, Request
  <2>2. ASSUME NEW k \in K PROVE \E h \in K : Precedes(h, k)
    <3>1. PICK r \in S : k \in request[r].need
      OBVIOUS
    <3>2. PICK h \in K : holder[h] = r
      BY <2>1
    <3> QED
      BY <3>1, <3>2 DEF LocksInOrder
  <2>3. K # {}
    BY <2>1 DEF WaitCycle
  <2> HIDE DEF K
  <2> QED
    BY <2>2, <2>3, NoEndlessDescent DEF K
<1> QED
  BY <1>1, TypeCorrect, LocksKeepTheirOrder, PTL
=============================================================================
