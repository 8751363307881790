------------------------- MODULE IdempotencyProofs --------------------------
(***************************************************************************)
(* The Idempotency-Key middleware keeps its promise, for any number of     *)
(* requests with the key and any bodies.  IInv is the inductive invariant: *)
(* its parts say who may hold the key's row, and what the row's answer     *)
(* tells of the saves that landed, before and after a lapse.               *)
(***************************************************************************)
EXTENDS Idempotency, TLAPS

\* An attempt is finished exactly when its client was answered (or lost).
Answered == \A a \in Attempts : pc[a] = "done" <=> answer[a] # "none"

\* A row that is there was claimed by an attempt which is past its claim.
Claimed == row # NoRow =>
  \E b \in Attempts : pc[b] \notin {"new", "claim", "lookup"} /\ row.hash = HashOf[b]

\* Requests run without the guarantee only after a storage error.
BareIsALapse == \A a \in Attempts : pc[a] = "bare" => "storage" \in lapses

Left == (\A a \in Attempts : answer[a] # "lost") /\ "storage" \notin lapses

\* What NoClaimLeftBehind says of the row.
NoneLeft == Running = {} /\ Left => row = NoRow \/ row.answer # None

\* Only what landed, or panicked, is stored.
Stored ==
  /\ row.answer # None => row.answer \in landed \cup panicked
  /\ \A a \in Attempts : pc[a] = "save" => a \in landed \cup panicked

Holders == {a \in Attempts : pc[a] \in {"takeOver", "run", "save", "release"}}

\* Until a claim is overtaken or expires, the row is about the request of
\* everyone who may write it, and of the answer it stores.
SameRequest == lapses \cap {"overtaken", "expired"} = {} =>
  /\ row # NoRow => \A a \in Holders : row.hash = HashOf[a]
  /\ row.answer # None => row.hash = HashOf[row.answer]

Quiet == lapses = {} /\ panicked = {}

\* While nothing went wrong: one attempt runs and holds the row ...
OneHolder == \A a \in Running :
  /\ pc[a] # "bare"
  /\ row # NoRow /\ row.answer = None
  /\ \A b \in Running : a = b

\* ... what landed is being saved, or is the row's answer ...
LandedKept == \A a \in landed : pc[a] = "save" \/ row.answer = a

\* ... and the row's answer is the one "ok" that was given.
OneOk ==
  /\ row.answer # None => row.answer \in landed /\ answer[row.answer] = "ok"
  /\ \A a \in Attempts : answer[a] = "ok" => row.answer = a
  /\ \A a \in Attempts : (pc[a] = "save" => a \in landed) /\ (pc[a] = "release" => a \notin landed)

Kept == Quiet => OneHolder /\ LandedKept /\ OneOk

IInv ==
  /\ TypeOK /\ Answered /\ Claimed
  /\ BareIsALapse /\ NoneLeft
  /\ Stored /\ ReplaysAreFaithful /\ SameRequest
  /\ Kept
-----------------------------------------------------------------------------
\* The types of the middleware's state.
LEMMA TypeKept == IInv /\ [Next]_vars => TypeOK'
<1> SUFFICES ASSUME IInv, [Next]_vars PROVE TypeOK'
  OBVIOUS
<1> USE HashOfAssumption, NoneAssumption, TicksAssumption DEF IInv, TypeOK, NoRow, Ages, Answers, PCs, Goto, Reply
<1>a. \A a \in Attempts : Overtakes(a) \subseteq Lapses
  BY DEF Overtakes, Lapses
<1>b. {"storage", "crash", "unstored", "unclaimed", "expired"} \subseteq Lapses
  BY DEF Lapses
<1>1. ASSUME NEW a \in Attempts, Send(a) PROVE TypeOK'
  BY <1>1 DEF Send
<1>2. ASSUME NEW a \in Attempts, claim(a) PROVE TypeOK'
  BY <1>2, <1>a, <1>b DEF claim
<1>3. ASSUME NEW a \in Attempts, lookup(a) PROVE TypeOK'
  BY <1>3, <1>a, <1>b DEF lookup
<1>4. ASSUME NEW a \in Attempts, takeOver(a) PROVE TypeOK'
  BY <1>4, <1>a, <1>b DEF takeOver
<1>5. ASSUME NEW a \in Attempts, handle(a) PROVE TypeOK'
  BY <1>5, <1>a, <1>b DEF handle
<1>6. ASSUME NEW a \in Attempts, handleBare(a) PROVE TypeOK'
  BY <1>6, <1>a, <1>b DEF handleBare
<1>7. ASSUME NEW a \in Attempts, save(a) PROVE TypeOK'
  BY <1>7, <1>a, <1>b DEF save
<1>8. ASSUME NEW a \in Attempts, release(a) PROVE TypeOK'
  BY <1>8, <1>a, <1>b DEF release
<1>9. ASSUME NEW a \in Attempts, StorageError(a) PROVE TypeOK'
  BY <1>9, <1>a, <1>b DEF StorageError
<1>10. ASSUME Crash PROVE TypeOK'
  BY <1>10, <1>a, <1>b DEF Crash
<1>11. ASSUME Age PROVE TypeOK'
  BY <1>11 DEF Age
<1>12. ASSUME clean PROVE TypeOK'
  BY <1>12, <1>a, <1>b DEF clean
<1>13. CASE UNCHANGED vars
  BY <1>13 DEF vars
<1> QED
  BY <1>1, <1>2, <1>3, <1>4, <1>5, <1>6, <1>7, <1>8, <1>9, <1>10, <1>11, <1>12, <1>13 DEF Next, Middleware

\* An attempt ends with its answer.

\* An attempt ends with its answer.

\* An attempt ends with its answer.

\* An attempt ends with its answer.

\* An attempt ends with its answer.

\* An attempt ends with its answer.
LEMMA AnsweredKept == IInv /\ [Next]_vars => Answered'
<1> SUFFICES ASSUME IInv, [Next]_vars PROVE Answered'
  OBVIOUS
<1> USE DEF IInv, TypeOK, Answered, PCs, Goto, Reply
<1>1. ASSUME NEW a \in Attempts, Send(a) PROVE Answered'
  BY <1>1 DEF Send
<1>2. ASSUME NEW a \in Attempts, claim(a) PROVE Answered'
  BY <1>2 DEF claim
<1>3. ASSUME NEW a \in Attempts, lookup(a) PROVE Answered'
  BY <1>3 DEF lookup
<1>4. ASSUME NEW a \in Attempts, takeOver(a) PROVE Answered'
  BY <1>4 DEF takeOver
<1>5. ASSUME NEW a \in Attempts, handle(a) PROVE Answered'
  BY <1>5 DEF handle
<1>6. ASSUME NEW a \in Attempts, handleBare(a) PROVE Answered'
  BY <1>6 DEF handleBare
<1>7. ASSUME NEW a \in Attempts, save(a) PROVE Answered'
  BY <1>7 DEF save
<1>8. ASSUME NEW a \in Attempts, release(a) PROVE Answered'
  BY <1>8 DEF release
<1>9. ASSUME NEW a \in Attempts, StorageError(a) PROVE Answered'
  BY <1>9 DEF StorageError
<1>10. ASSUME Crash PROVE Answered'
  BY <1>10 DEF Crash
<1>11. ASSUME Age PROVE Answered'
  BY <1>11 DEF Age
<1>12. ASSUME clean PROVE Answered'
  BY <1>12 DEF clean
<1>13. CASE UNCHANGED vars
  BY <1>13 DEF vars
<1> QED
  BY <1>1, <1>2, <1>3, <1>4, <1>5, <1>6, <1>7, <1>8, <1>9, <1>10, <1>11, <1>12, <1>13 DEF Next, Middleware

\* Only a claim makes a row, and who claimed never goes back.
LEMMA ClaimedKept == IInv /\ [Next]_vars => Claimed'
<1> SUFFICES ASSUME IInv, [Next]_vars PROVE Claimed'
  OBVIOUS
<1> USE HashOfAssumption, NoneAssumption DEF IInv, TypeOK, Claimed, PCs, Goto, Reply, NoRow
<1>1. ASSUME NEW a \in Attempts, Send(a) PROVE Claimed'
  BY <1>1 DEF Send
<1>2. ASSUME NEW a \in Attempts, claim(a) PROVE Claimed'
  BY <1>2 DEF claim
<1>3. ASSUME NEW a \in Attempts, lookup(a) PROVE Claimed'
  BY <1>3 DEF lookup
<1>4. ASSUME NEW a \in Attempts, takeOver(a) PROVE Claimed'
  BY <1>4 DEF takeOver
<1>5. ASSUME NEW a \in Attempts, handle(a) PROVE Claimed'
  BY <1>5 DEF handle
<1>6. ASSUME NEW a \in Attempts, handleBare(a) PROVE Claimed'
  BY <1>6 DEF handleBare
<1>7. ASSUME NEW a \in Attempts, save(a) PROVE Claimed'
  BY <1>7 DEF save
<1>8. ASSUME NEW a \in Attempts, release(a) PROVE Claimed'
  BY <1>8 DEF release
<1>9. ASSUME NEW a \in Attempts, StorageError(a) PROVE Claimed'
  BY <1>9 DEF StorageError
<1>10. ASSUME Crash PROVE Claimed'
  BY <1>10 DEF Crash
<1>11. ASSUME Age PROVE Claimed'
  BY <1>11 DEF Age
<1>12. ASSUME clean PROVE Claimed'
  BY <1>12 DEF clean
<1>13. CASE UNCHANGED vars
  BY <1>13 DEF vars
<1> QED
  BY <1>1, <1>2, <1>3, <1>4, <1>5, <1>6, <1>7, <1>8, <1>9, <1>10, <1>11, <1>12, <1>13 DEF Next, Middleware

\* The only way around the claim is a storage error.
LEMMA BareKept == IInv /\ [Next]_vars => BareIsALapse'
<1> SUFFICES ASSUME IInv, [Next]_vars PROVE BareIsALapse'
  OBVIOUS
<1> USE DEF IInv, TypeOK, BareIsALapse, PCs, Goto, Reply, Overtakes
<1>1. ASSUME NEW a \in Attempts, Send(a) PROVE BareIsALapse'
  BY <1>1 DEF Send
<1>2. ASSUME NEW a \in Attempts, claim(a) PROVE BareIsALapse'
  BY <1>2 DEF claim
<1>3. ASSUME NEW a \in Attempts, lookup(a) PROVE BareIsALapse'
  BY <1>3 DEF lookup
<1>4. ASSUME NEW a \in Attempts, takeOver(a) PROVE BareIsALapse'
  BY <1>4 DEF takeOver
<1>5. ASSUME NEW a \in Attempts, handle(a) PROVE BareIsALapse'
  BY <1>5 DEF handle
<1>6. ASSUME NEW a \in Attempts, handleBare(a) PROVE BareIsALapse'
  BY <1>6 DEF handleBare
<1>7. ASSUME NEW a \in Attempts, save(a) PROVE BareIsALapse'
  BY <1>7 DEF save
<1>8. ASSUME NEW a \in Attempts, release(a) PROVE BareIsALapse'
  BY <1>8 DEF release
<1>9. ASSUME NEW a \in Attempts, StorageError(a) PROVE BareIsALapse'
  BY <1>9 DEF StorageError
<1>10. ASSUME Crash PROVE BareIsALapse'
  BY <1>10 DEF Crash
<1>11. ASSUME Age PROVE BareIsALapse'
  BY <1>11 DEF Age
<1>12. ASSUME clean PROVE BareIsALapse'
  BY <1>12 DEF clean
<1>13. CASE UNCHANGED vars
  BY <1>13 DEF vars
<1> QED
  BY <1>1, <1>2, <1>3, <1>4, <1>5, <1>6, <1>7, <1>8, <1>9, <1>10, <1>11, <1>12, <1>13 DEF Next, Middleware

\* The last attempt to run leaves no claim behind, unless it was lost or could not write.
LEMMA NoneLeftKept == IInv /\ [Next]_vars => NoneLeft'
<1> SUFFICES ASSUME IInv, [Next]_vars PROVE NoneLeft'
  OBVIOUS
<1> USE HashOfAssumption, NoneAssumption DEF IInv, TypeOK, Answered, BareIsALapse, NoneLeft, Left, Running, PCs, Goto, Reply, NoRow
<1>1. ASSUME NEW a \in Attempts, Send(a) PROVE NoneLeft'
  BY <1>1 DEF Send
<1>2. ASSUME NEW a \in Attempts, claim(a) PROVE NoneLeft'
  BY <1>2 DEF claim
<1>3. ASSUME NEW a \in Attempts, lookup(a) PROVE NoneLeft'
  BY <1>3 DEF lookup
<1>4. ASSUME NEW a \in Attempts, takeOver(a) PROVE NoneLeft'
  BY <1>4 DEF takeOver
<1>5. ASSUME NEW a \in Attempts, handle(a) PROVE NoneLeft'
  BY <1>5 DEF handle
<1>6. ASSUME NEW a \in Attempts, handleBare(a) PROVE NoneLeft'
  BY <1>6 DEF handleBare
<1>7. ASSUME NEW a \in Attempts, save(a) PROVE NoneLeft'
  BY <1>7 DEF save
<1>8. ASSUME NEW a \in Attempts, release(a) PROVE NoneLeft'
  BY <1>8 DEF release
<1>9. ASSUME NEW a \in Attempts, StorageError(a) PROVE NoneLeft'
  BY <1>9 DEF StorageError
<1>10. ASSUME Crash PROVE NoneLeft'
  BY <1>10 DEF Crash
<1>11. ASSUME Age PROVE NoneLeft'
  BY <1>11 DEF Age
<1>12. ASSUME clean PROVE NoneLeft'
  BY <1>12 DEF clean
<1>13. CASE UNCHANGED vars
  BY <1>13 DEF vars
<1> QED
  BY <1>1, <1>2, <1>3, <1>4, <1>5, <1>6, <1>7, <1>8, <1>9, <1>10, <1>11, <1>12, <1>13 DEF Next, Middleware

\* An answer is stored by an attempt that landed or panicked.
LEMMA StoredKept == IInv /\ [Next]_vars => Stored'
<1> SUFFICES ASSUME IInv, [Next]_vars PROVE Stored'
  OBVIOUS
<1> USE NoneAssumption DEF IInv, TypeOK, Stored, PCs, Goto, Reply, NoRow
<1>1. ASSUME NEW a \in Attempts, Send(a) PROVE Stored'
  BY <1>1 DEF Send
<1>2. ASSUME NEW a \in Attempts, claim(a) PROVE Stored'
  BY <1>2 DEF claim
<1>3. ASSUME NEW a \in Attempts, lookup(a) PROVE Stored'
  BY <1>3 DEF lookup
<1>4. ASSUME NEW a \in Attempts, takeOver(a) PROVE Stored'
  BY <1>4 DEF takeOver
<1>5. ASSUME NEW a \in Attempts, handle(a) PROVE Stored'
  BY <1>5 DEF handle
<1>6. ASSUME NEW a \in Attempts, handleBare(a) PROVE Stored'
  BY <1>6 DEF handleBare
<1>7. ASSUME NEW a \in Attempts, save(a) PROVE Stored'
  BY <1>7 DEF save
<1>8. ASSUME NEW a \in Attempts, release(a) PROVE Stored'
  BY <1>8 DEF release
<1>9. ASSUME NEW a \in Attempts, StorageError(a) PROVE Stored'
  BY <1>9 DEF StorageError
<1>10. ASSUME Crash PROVE Stored'
  BY <1>10 DEF Crash
<1>11. ASSUME Age PROVE Stored'
  BY <1>11 DEF Age
<1>12. ASSUME clean PROVE Stored'
  BY <1>12 DEF clean
<1>13. CASE UNCHANGED vars
  BY <1>13 DEF vars
<1> QED
  BY <1>1, <1>2, <1>3, <1>4, <1>5, <1>6, <1>7, <1>8, <1>9, <1>10, <1>11, <1>12, <1>13 DEF Next, Middleware

\* No claim overtaken: whoever holds the row asks for what the row says.
LEMMA SameRequestKept == IInv /\ [Next]_vars => SameRequest'
<1> SUFFICES ASSUME IInv, [Next]_vars PROVE SameRequest'
  OBVIOUS
<1> USE HashOfAssumption, NoneAssumption DEF IInv, TypeOK, SameRequest, Holders, PCs, Goto, Reply, NoRow, Overtakes, Running
<1>1. ASSUME NEW a \in Attempts, Send(a) PROVE SameRequest'
  BY <1>1 DEF Send
<1>2. ASSUME NEW a \in Attempts, claim(a) PROVE SameRequest'
  BY <1>2 DEF claim
<1>3. ASSUME NEW a \in Attempts, lookup(a) PROVE SameRequest'
  BY <1>3 DEF lookup
<1>4. ASSUME NEW a \in Attempts, takeOver(a) PROVE SameRequest'
  BY <1>4 DEF takeOver
<1>5. ASSUME NEW a \in Attempts, handle(a) PROVE SameRequest'
  BY <1>5 DEF handle
<1>6. ASSUME NEW a \in Attempts, handleBare(a) PROVE SameRequest'
  BY <1>6 DEF handleBare
<1>7. ASSUME NEW a \in Attempts, save(a) PROVE SameRequest'
  BY <1>7 DEF save
<1>8. ASSUME NEW a \in Attempts, release(a) PROVE SameRequest'
  BY <1>8 DEF release
<1>9. ASSUME NEW a \in Attempts, StorageError(a) PROVE SameRequest'
  BY <1>9 DEF StorageError
<1>10. ASSUME Crash PROVE SameRequest'
  BY <1>10 DEF Crash
<1>11. ASSUME Age PROVE SameRequest'
  BY <1>11 DEF Age
<1>12. ASSUME clean PROVE SameRequest'
  BY <1>12 DEF clean
<1>13. CASE UNCHANGED vars
  BY <1>13 DEF vars
<1> QED
  BY <1>1, <1>2, <1>3, <1>4, <1>5, <1>6, <1>7, <1>8, <1>9, <1>10, <1>11, <1>12, <1>13 DEF Next, Middleware

\* A replay is of an answer that was stored for the same request.
LEMMA FaithfulKept == IInv /\ [Next]_vars => ReplaysAreFaithful'
<1> SUFFICES ASSUME IInv, [Next]_vars PROVE ReplaysAreFaithful'
  OBVIOUS
<1> USE HashOfAssumption, NoneAssumption DEF IInv, TypeOK, ReplaysAreFaithful, Stored, SameRequest, PCs, Goto, Reply, NoRow, Overtakes
<1>1. ASSUME NEW a \in Attempts, Send(a) PROVE ReplaysAreFaithful'
  BY <1>1 DEF Send
<1>2. ASSUME NEW a \in Attempts, claim(a) PROVE ReplaysAreFaithful'
  BY <1>2 DEF claim
<1>3. ASSUME NEW a \in Attempts, lookup(a) PROVE ReplaysAreFaithful'
  BY <1>3 DEF lookup
<1>4. ASSUME NEW a \in Attempts, takeOver(a) PROVE ReplaysAreFaithful'
  BY <1>4 DEF takeOver
<1>5. ASSUME NEW a \in Attempts, handle(a) PROVE ReplaysAreFaithful'
  BY <1>5 DEF handle
<1>6. ASSUME NEW a \in Attempts, handleBare(a) PROVE ReplaysAreFaithful'
  BY <1>6 DEF handleBare
<1>7. ASSUME NEW a \in Attempts, save(a) PROVE ReplaysAreFaithful'
  BY <1>7 DEF save
<1>8. ASSUME NEW a \in Attempts, release(a) PROVE ReplaysAreFaithful'
  BY <1>8 DEF release
<1>9. ASSUME NEW a \in Attempts, StorageError(a) PROVE ReplaysAreFaithful'
  BY <1>9 DEF StorageError
<1>10. ASSUME Crash PROVE ReplaysAreFaithful'
  BY <1>10 DEF Crash
<1>11. ASSUME Age PROVE ReplaysAreFaithful'
  BY <1>11 DEF Age
<1>12. ASSUME clean PROVE ReplaysAreFaithful'
  BY <1>12 DEF clean
<1>13. CASE UNCHANGED vars
  BY <1>13 DEF vars
<1> QED
  BY <1>1, <1>2, <1>3, <1>4, <1>5, <1>6, <1>7, <1>8, <1>9, <1>10, <1>11, <1>12, <1>13 DEF Next, Middleware

\* While nothing goes wrong, one attempt at a time holds the row.
LEMMA QuietKept == IInv /\ [Next]_vars => Kept'
<1> SUFFICES ASSUME IInv, [Next]_vars PROVE Kept'
  OBVIOUS
<1> USE HashOfAssumption, NoneAssumption DEF IInv, TypeOK, Answered, Claimed, Kept, Quiet, OneHolder, LandedKept, OneOk, PCs, Goto, Reply, NoRow, Overtakes, Running
<1>1. ASSUME NEW a \in Attempts, Send(a) PROVE Kept'
  BY <1>1 DEF Send
<1>2. ASSUME NEW a \in Attempts, claim(a) PROVE Kept'
  BY <1>2 DEF claim
<1>3. ASSUME NEW a \in Attempts, lookup(a) PROVE Kept'
  BY <1>3 DEF lookup
<1>4. ASSUME NEW a \in Attempts, takeOver(a) PROVE Kept'
  BY <1>4 DEF takeOver
<1>5. ASSUME NEW a \in Attempts, handle(a) PROVE Kept'
  BY <1>5 DEF handle
<1>6. ASSUME NEW a \in Attempts, handleBare(a) PROVE Kept'
  BY <1>6 DEF handleBare
<1>7. ASSUME NEW a \in Attempts, save(a) PROVE Kept'
  BY <1>7 DEF save
<1>8. ASSUME NEW a \in Attempts, release(a) PROVE Kept'
  BY <1>8 DEF release
<1>9. ASSUME NEW a \in Attempts, StorageError(a) PROVE Kept'
  BY <1>9 DEF StorageError
<1>10. ASSUME Crash PROVE Kept'
  BY <1>10 DEF Crash
<1>11. ASSUME Age PROVE Kept'
  BY <1>11 DEF Age
<1>12. ASSUME clean PROVE Kept'
  BY <1>12 DEF clean
<1>13. CASE UNCHANGED vars
  BY <1>13 DEF vars
<1> QED
  BY <1>1, <1>2, <1>3, <1>4, <1>5, <1>6, <1>7, <1>8, <1>9, <1>10, <1>11, <1>12, <1>13 DEF Next, Middleware

\* Every step keeps IInv.
LEMMA Step == IInv /\ [Next]_vars => IInv'
  BY TypeKept, AnsweredKept, ClaimedKept, BareKept, NoneLeftKept, StoredKept, SameRequestKept,
    FaithfulKept, QuietKept DEF IInv

\* IInv is inductive: it holds in every state of every behaviour.
THEOREM Inductive == Spec => []IInv
<1>1. Init => IInv
  BY NoneAssumption, TicksAssumption DEF Init, IInv, TypeOK, NoRow, PCs, Ages, Answers, Lapses,
    Answered, Claimed, BareIsALapse, NoneLeft, Left, Running, Stored, ReplaysAreFaithful,
    SameRequest, Holders, Kept, Quiet, OneHolder, LandedKept, OneOk
<1> QED
  BY <1>1, Step, PTL DEF Spec

\* idempotency.go:10: whatever is replayed was the answer of a save that landed (or panicked),
\* and of the request sent, until a claim is overtaken.
THEOREM Faithful == Spec => []ReplaysAreFaithful
<1>1. IInv => ReplaysAreFaithful
  BY DEF IInv
<1> QED
  BY <1>1, Inductive, PTL

\* No claim is left behind by any number of requests, without storage errors and crashes.
THEOREM NoneLeftBehind == Spec => []NoClaimLeftBehind
<1>1. IInv => NoClaimLeftBehind
  BY DEF IInv, NoneLeft, Left, NoClaimLeftBehind
<1> QED
  BY <1>1, Inductive, PTL

\* Every step of the middleware is a step of the promise, or changes nothing of it.
LEMMA StepKeepsPromise == IInv /\ [Next]_vars => [Once!Next]_(Once!vars)
<1> SUFFICES ASSUME IInv, [Next]_vars, ~(lapses' # {} \/ panicked' # {})
    PROVE [Once!Next]_(Once!vars)
  BY DEF Once!Next
<1> USE HashOfAssumption, NoneAssumption DEF IInv, TypeOK, Answered, Kept, Quiet, Once!vars, PCs, Goto, Reply
<1>q. CASE ~Quiet
  <2>1. lapses \subseteq lapses' /\ panicked \subseteq panicked'
    BY DEF Next, Middleware, Send, claim, lookup, takeOver, handle, handleBare, save, release,
      StorageError, Crash, Age, clean, vars, Overtakes
  <2> QED
    BY <1>q, <2>1
<1>k. CASE Quiet
  <2> SUFFICES [Once!Keeps]_(Once!vars)
    BY <1>k DEF Quiet, Once!Next
  <2> USE <1>k DEF OneHolder, LandedKept, OneOk, Running, Once!Waiting, Once!Answer
  <2>0. Quiet' /\ IInv'
    BY <1>k, Step DEF Quiet
  <2>1. ASSUME NEW a \in Attempts, Send(a) PROVE Once!Send(a)
    BY <2>1, <2>0 DEF Send, Once!Send
  <2>2. ASSUME NEW a \in Attempts, claim(a) PROVE UNCHANGED Once!vars
    BY <2>2 DEF claim
  <2>3. ASSUME NEW a \in Attempts, lookup(a)
        PROVE Once!Replay(a) \/ Once!Busy(a) \/ Once!Reused(a) \/ UNCHANGED Once!vars
    <3>1. CASE row = NoRow
      BY <2>3, <2>0, <3>1 DEF lookup
    <3>2. CASE row # NoRow /\ row.hash # HashOf[a]
      <4>1. PICK b \in Attempts : pc[b] # "new" /\ row.hash = HashOf[b]
        BY <3>2 DEF Claimed
      <4> QED
        BY <2>3, <3>2, <4>1 DEF lookup, Once!Reused
    <3>3. CASE row # NoRow /\ row.hash = HashOf[a] /\ row.answer # None
      <4>1. answer' = [answer EXCEPT ![a] = "replay"] /\ source' = [source EXCEPT ![a] = row.answer]
        BY <2>3, <3>3 DEF lookup
      <4>2. row.answer \in landed /\ HashOf[row.answer] = HashOf[a] /\ answer[row.answer] = "ok"
        BY <3>3, <1>k DEF SameRequest
      <4>3. a \in Once!Waiting /\ landed' = landed /\ {c \in Attempts : pc'[c] # "new"} = {c \in Attempts : pc[c] # "new"}
        BY <2>3 DEF lookup
      <4>4. Once!Replay(a)
        BY <4>1, <4>2, <4>3 DEF Once!Replay
      <4> QED
        BY <4>4
    <3>4. CASE row # NoRow /\ row.hash = HashOf[a] /\ row.answer = None
      <4>1. PICK b \in Attempts : pc[b] \notin {"new", "claim", "lookup"} /\ row.hash = HashOf[b]
        BY <3>4 DEF Claimed
      <4> QED
        BY <2>3, <3>4, <4>1 DEF lookup, Once!Busy
    <3> QED
      BY <3>1, <3>2, <3>3, <3>4
  <2>4. ASSUME NEW a \in Attempts, takeOver(a) PROVE UNCHANGED Once!vars
    BY <2>4 DEF takeOver
  <2>5. ASSUME NEW a \in Attempts, handle(a) PROVE Once!Land(a) \/ UNCHANGED Once!vars
    BY <2>5, <2>0 DEF handle, Once!Land
  <2>7. ASSUME NEW a \in Attempts, save(a) PROVE Once!Ok(a)
    BY <2>7, <2>0 DEF save, Once!Ok
  <2>8. ASSUME NEW a \in Attempts, release(a) PROVE Once!Fail(a)
    BY <2>8, <2>0 DEF release, Once!Fail
  <2>10. ASSUME Crash PROVE Once!Lose
    BY <2>10, <2>0 DEF Crash, Once!Lose
  <2>6. ASSUME NEW a \in Attempts, handleBare(a) \/ StorageError(a) PROVE FALSE
    BY <2>6, <2>0 DEF handleBare, StorageError
  <2>9. ASSUME Age \/ clean \/ UNCHANGED vars PROVE UNCHANGED Once!vars
    BY <2>9 DEF Age, clean, vars
  <2> QED
    BY <2>1, <2>2, <2>3, <2>4, <2>5, <2>6, <2>7, <2>8, <2>9, <2>10 DEF Next, Middleware, Once!Keeps
<1> QED
  BY <1>q, <1>k

\* The middleware implements its promise, for any requests and bodies: one attempt lands and
\* every answer tells the truth about it, until a lapse.
THEOREM KeepsPromise == Spec => SavesOnce
<1>1. Init => Once!Init
  BY DEF Init, Once!Init
<1> QED
  BY <1>1, Inductive, StepKeepsPromise, PTL DEF Spec, SavesOnce, Once!Spec

=============================================================================
