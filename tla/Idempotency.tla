---------------------------- MODULE Idempotency -----------------------------
(***************************************************************************)
(* The Idempotency-Key middleware (internal/platform/idempotency).         *)
(*                                                                         *)
(* One (user, key) pair: its row of idempotency_keys and the requests that *)
(* carry the key.  The claim, the lookup, the take-over and the save or    *)
(* release are statements of their own on the pool, and the handler runs   *)
(* between them, so requests interleave at every one of them.              *)
(*                                                                         *)
(* The row's age is what the code reads from created_at: younger than      *)
(* abandonedAfter (1 minute), older, or past its retention (24 hours).     *)
(***************************************************************************)
EXTENDS Naturals, FiniteSets

CONSTANTS
  Attempts,    \* requests sent with the key: a save and its retries
  Hashes,      \* sha256(method, uri, body): the distinct requests sent
  HashOf,      \* [Attempts -> Hashes]
  MaxTicks,    \* bound: age steps of the row
  None         \* no attempt, no hash

ASSUME HashOfAssumption == HashOf \in [Attempts -> Hashes]
ASSUME NoneAssumption   == None \notin Attempts /\ None \notin Hashes
ASSUME TicksAssumption  == MaxTicks \in Nat

Ages == {"fresh", "abandoned", "expired"}

\* Answers a client can get.  "replay": the stored one.  "lost": none.
Answers == {"none", "ok", "failed", "replay", "reused422", "inProgress409", "lost"}

\* Why a save may land twice in spite of its key.
Lapses == {"storage",    \* a storage error: the request ran without the guarantee
           "crash",      \* the process died between the handler's commit and the save
           "unstored",   \* landed, but the answer was not a storable 2xx
           "overtaken",  \* claimed or taken over while another attempt still ran
           "unclaimed",  \* the claim it lost to was released before it looked: no row
           "expired"}    \* the key outlived its retention

NoRow == [hash |-> None, answer |-> None, age |-> "fresh"]

VARIABLES
  row,      \* the row of the key; answer: the attempt whose answer is stored (None: running)
  pc,       \* where each attempt is in the middleware
  answer,   \* what each attempt's client got
  source,   \* for a replay: the attempt whose stored answer it was
  landed,   \* attempts whose handler committed its writes
  panicked, \* attempts whose handler panicked
  lapses,   \* history: which exceptions happened
  ticks

vars == <<row, pc, answer, source, landed, panicked, lapses, ticks>>

PCs == {"new", "claim", "lookup", "takeOver", "run", "bare", "save", "release", "done"}

\* Attempts whose handler may still commit, or whose answer may still be stored.
Running == {b \in Attempts : pc[b] \in {"takeOver", "run", "bare", "save", "release"}}

Init ==
  /\ row = NoRow
  /\ pc = [a \in Attempts |-> "new"]
  /\ answer = [a \in Attempts |-> "none"]
  /\ source = [a \in Attempts |-> None]
  /\ landed = {}
  /\ panicked = {}
  /\ lapses = {}
  /\ ticks = 0

Goto(a, where) == pc' = [pc EXCEPT ![a] = where]

Reply(a, what) == Goto(a, "done") /\ answer' = [answer EXCEPT ![a] = what]

\* a goes on to run while another attempt may still run or store its answer.
Overtakes(a) == IF Running \ {a} # {} THEN lapses \cup {"overtaken"} ELSE lapses

\* The client sends the save, or sends it again.
Send(a) ==
  /\ pc[a] = "new"
  /\ Goto(a, "claim")
  /\ UNCHANGED <<row, answer, source, landed, panicked, lapses, ticks>>

\* Mutant: every request with the key claims it.
claim_NoConflict(a) ==
  /\ pc[a] = "claim"
  /\ row' = [hash |-> HashOf[a], answer |-> None, age |-> "fresh"]
  /\ Goto(a, "run")
  /\ UNCHANGED <<answer, source, landed, panicked, lapses, ticks>>

\* INSERT .. ON CONFLICT DO NOTHING.
claim(a) ==
  /\ pc[a] = "claim"
  /\ IF row = NoRow
       THEN /\ row' = [hash |-> HashOf[a], answer |-> None, age |-> "fresh"]
            /\ Goto(a, "run")
            /\ lapses' = Overtakes(a)
       ELSE Goto(a, "lookup") /\ UNCHANGED <<row, lapses>>
  /\ UNCHANGED <<answer, source, landed, panicked, ticks>>

\* A storage error never blocks the request: it runs without the guarantee.
StorageError(a) ==
  /\ pc[a] \in {"claim", "lookup"}
  /\ Goto(a, "bare")
  /\ lapses' = lapses \cup {"storage"}
  /\ UNCHANGED <<row, answer, source, landed, panicked, ticks>>

\* Mutant: the lookup does not compare the requests.
lookup_NoHash(a) ==
  /\ pc[a] = "lookup"
  /\ row # NoRow
  /\ row.answer # None
  /\ Reply(a, "replay")
  /\ source' = [source EXCEPT ![a] = row.answer]
  /\ UNCHANGED <<row, landed, panicked, lapses, ticks>>

\* SELECT the row the claim ran into, and decide.
lookup(a) ==
  /\ pc[a] = "lookup"
  /\ \/ /\ row = NoRow                     \* deleted between the two calls
        /\ Goto(a, "run")
        /\ lapses' = lapses \cup {"unclaimed"}
        /\ UNCHANGED <<answer, source>>
     \/ /\ row # NoRow
        /\ row.hash # HashOf[a]
        /\ Reply(a, "reused422")
        /\ UNCHANGED <<source, lapses>>
     \/ /\ row # NoRow
        /\ row.hash = HashOf[a]
        /\ row.answer # None
        /\ Reply(a, "replay")
        /\ source' = [source EXCEPT ![a] = row.answer]
        /\ UNCHANGED lapses
     \/ /\ row # NoRow
        /\ row.hash = HashOf[a]
        /\ row.answer = None
        /\ row.age = "fresh"
        /\ Reply(a, "inProgress409")
        /\ UNCHANGED <<source, lapses>>
     \/ /\ row # NoRow
        /\ row.hash = HashOf[a]
        /\ row.answer = None
        /\ row.age # "fresh"
        /\ Goto(a, "takeOver")
        /\ lapses' = Overtakes(a)
        /\ UNCHANGED <<answer, source>>
  /\ UNCHANGED <<row, landed, panicked, ticks>>

\* UPDATE created_at of the row, if it still has no answer; then run, whatever
\* the UPDATE found.
takeOver(a) ==
  /\ pc[a] = "takeOver"
  /\ row' = IF row # NoRow /\ row.answer = None THEN [row EXCEPT !.age = "fresh"] ELSE row
  /\ Goto(a, "run")
  /\ lapses' = Overtakes(a)
  /\ UNCHANGED <<answer, source, landed, panicked, ticks>>

\* The handler: it commits and answers 2xx, fails without writing, commits but
\* answers no storable 2xx (a read after the commit failed, or more than
\* maxStored bytes), or panics before its commit.  gin's Status() is 200 until
\* something is written, so a panic looks like an empty 200 to the deferred save.
handle(a) ==
  /\ pc[a] = "run"
  /\ \/ landed' = landed \cup {a} /\ Goto(a, "save") /\ UNCHANGED <<panicked, lapses>>
     \/ Goto(a, "release") /\ UNCHANGED <<landed, panicked, lapses>>
     \/ /\ landed' = landed \cup {a}
        /\ lapses' = lapses \cup {"unstored"}
        /\ Goto(a, "release")
        /\ UNCHANGED panicked
     \/ panicked' = panicked \cup {a} /\ Goto(a, "save") /\ UNCHANGED <<landed, lapses>>
  /\ UNCHANGED <<row, answer, source, ticks>>

\* The handler of a request that runs without the guarantee.
handleBare(a) ==
  /\ pc[a] = "bare"
  /\ \/ landed' = landed \cup {a} /\ Reply(a, "ok")
     \/ Reply(a, "failed") /\ UNCHANGED landed
  /\ UNCHANGED <<row, source, panicked, lapses, ticks>>

\* UPDATE the row, whoever claimed it; an error is only logged.
save(a) ==
  /\ pc[a] = "save"
  /\ \/ /\ row' = IF row = NoRow THEN row ELSE [row EXCEPT !.answer = a]
        /\ UNCHANGED lapses
     \/ lapses' = lapses \cup {"storage"} /\ UNCHANGED row
  /\ Reply(a, IF a \in panicked THEN "failed" ELSE "ok")
  /\ UNCHANGED <<source, landed, panicked, ticks>>

\* Mutant: a failed save keeps its claim.
release_Keeps(a) ==
  /\ pc[a] = "release"
  /\ Reply(a, "failed")
  /\ UNCHANGED <<row, source, landed, panicked, lapses, ticks>>

\* DELETE the row if it has no answer, whoever claimed it.
release(a) ==
  /\ pc[a] = "release"
  /\ \/ /\ row' = IF row.answer = None THEN NoRow ELSE row
        /\ UNCHANGED lapses
     \/ lapses' = lapses \cup {"storage"} /\ UNCHANGED row
  /\ Reply(a, "failed")
  /\ UNCHANGED <<source, landed, panicked, ticks>>

\* The server dies and restarts: every attempt in it is gone, the row stays.
Crash ==
  /\ Running # {}
  /\ pc' = [a \in Attempts |-> IF pc[a] = "new" THEN "new" ELSE "done"]
  /\ answer' = [a \in Attempts |->
       IF pc[a] = "new" \/ answer[a] # "none" THEN answer[a] ELSE "lost"]
  /\ lapses' = IF \E a \in Running : a \in landed THEN lapses \cup {"crash"} ELSE lapses
  /\ UNCHANGED <<row, source, landed, panicked, ticks>>

\* Time passes for the row.
Age ==
  /\ row # NoRow
  /\ ticks < MaxTicks
  /\ row.age # "expired"
  /\ row' = [row EXCEPT !.age = IF @ = "fresh" THEN "abandoned" ELSE "expired"]
  /\ ticks' = ticks + 1
  /\ UNCHANGED <<pc, answer, source, landed, panicked, lapses>>

\* DELETE the rows past their retention, answered or not.
clean ==
  /\ row # NoRow
  /\ row.age = "expired"
  /\ row' = NoRow
  /\ lapses' = lapses \cup {"expired"}
  /\ UNCHANGED <<pc, answer, source, landed, panicked, ticks>>

Middleware(a) ==
  \/ claim(a) \/ lookup(a) \/ takeOver(a) \/ handle(a) \/ handleBare(a) \/ save(a) \/ release(a)

Next ==
  \/ \E a \in Attempts : Send(a) \/ Middleware(a) \/ StorageError(a)
  \/ Crash
  \/ Age
  \/ clean

Spec == Init /\ [][Next]_vars

-----------------------------------------------------------------------------
\* Type invariant.
TypeOK ==
  /\ row \in [hash : Hashes \cup {None}, answer : Attempts \cup {None}, age : Ages]
  /\ pc \in [Attempts -> PCs]
  /\ answer \in [Attempts -> Answers]
  /\ source \in [Attempts -> Attempts \cup {None}]
  /\ landed \subseteq Attempts
  /\ panicked \subseteq Attempts
  /\ lapses \subseteq Lapses
  /\ ticks \in 0 .. MaxTicks

\* The promise to the client (SaveOnce): one attempt lands and every answer tells the truth
\* about it, until one of the named lapses happens or a handler panics.
Once == INSTANCE SaveOnce WITH
  sent   <- {a \in Attempts : pc[a] # "new"},
  got    <- answer,
  waived <- lapses # {} \/ panicked # {}

\* The middleware keeps that promise: the list of lapses is complete.
SavesOnce == Once!Spec

\* idempotency.go:10, "A non-2xx answer is never stored": an answer that is replayed is one
\* of a save that landed, for handlers that do not panic; and of the request that was sent,
\* as long as no claim was overtaken.
ReplaysAreFaithful ==
  \A a \in Attempts : source[a] # None =>
    /\ source[a] \in landed \cup panicked
    /\ lapses \cap {"overtaken", "expired"} = {} => HashOf[source[a]] = HashOf[a]

\* Without storage errors and crashes no claim is left behind: when nothing
\* runs, the row is gone or holds an answer.
NoClaimLeftBehind ==
  TypeOK /\ (Running = {} /\ (\A a \in Attempts : answer[a] # "lost") /\ "storage" \notin lapses
    => row = NoRow \/ row.answer # None)
=============================================================================
