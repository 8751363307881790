------------------------------ MODULE SaveOnce ------------------------------
(***************************************************************************)
(* What the Idempotency-Key header promises a client, without the key's    *)
(* row: of all the requests sent with one key, one lands, and each answer  *)
(* tells the truth about it.  The promise holds until it is waived (an     *)
(* exception the middleware knows of); after that anything may happen.     *)
(*                                                                         *)
(* Idempotency.tla implements this specification: see SavesOnce there.     *)
(***************************************************************************)
CONSTANTS
  Attempts,   \* requests sent with the key
  HashOf,     \* what each of them asks for
  None

VARIABLES
  sent,       \* the attempts sent so far
  landed,     \* those that took effect
  got,        \* what each client was answered
  source,     \* for a replay: whose answer it was
  waived      \* the promise no longer holds

vars == <<sent, landed, got, source, waived>>

Waiting == {a \in sent : got[a] = "none"}

Init ==
  /\ sent = {}
  /\ landed = {}
  /\ got = [a \in Attempts |-> "none"]
  /\ source = [a \in Attempts |-> None]
  /\ waived = FALSE

Send(a) ==
  /\ a \notin sent
  /\ sent' = sent \cup {a}
  /\ UNCHANGED <<landed, got, source>>

\* The first attempt that takes effect is the last.
Land(a) ==
  /\ a \in Waiting
  /\ landed = {}
  /\ landed' = {a}
  /\ UNCHANGED <<sent, got, source>>

Answer(a, what) ==
  /\ a \in Waiting
  /\ got' = [got EXCEPT ![a] = what]
  /\ UNCHANGED <<sent, landed>>

\* "ok" means this attempt took effect.
Ok(a) == a \in landed /\ Answer(a, "ok") /\ UNCHANGED source

\* "failed" means nothing took effect, so the client may send the save again.
Fail(a) == landed = {} /\ Answer(a, "failed") /\ UNCHANGED source

\* A replay repeats the answer of the attempt that took effect, to a client
\* that asked for the same.
Replay(a) ==
  \E b \in landed :
    /\ HashOf[b] = HashOf[a]
    /\ got[b] = "ok"
    /\ Answer(a, "replay")
    /\ source' = [source EXCEPT ![a] = b]

\* "in progress" is never said once an attempt was told that it landed.
Busy(a) ==
  /\ \E b \in sent \ {a} : HashOf[b] = HashOf[a]
  /\ \A b \in Attempts : got[b] # "ok"
  /\ Answer(a, "inProgress409")
  /\ UNCHANGED source

\* The key is taken by another request.
Reused(a) ==
  /\ \E b \in sent : HashOf[b] # HashOf[a]
  /\ Answer(a, "reused422")
  /\ UNCHANGED source

\* The server dies: nobody who waits is answered.
Lose ==
  /\ Waiting # {}
  /\ got' = [a \in Attempts |-> IF a \in Waiting THEN "lost" ELSE got[a]]
  /\ UNCHANGED <<sent, landed, source>>

Keeps ==
  \/ \E a \in Attempts :
       Send(a) \/ Land(a) \/ Ok(a) \/ Fail(a) \/ Replay(a) \/ Busy(a) \/ Reused(a)
  \/ Lose

Next == waived' = TRUE \/ (~waived /\ waived' = FALSE /\ Keeps)

Spec == Init /\ [][Next]_vars
=============================================================================
