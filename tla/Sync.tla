--------------------------------- MODULE Sync ---------------------------------
(***************************************************************************)
(* What an app keeps of a user's data, and how it learns that the data has *)
(* changed (sync).  Each dataset has a fingerprint over the tables it is   *)
(* read from: of a table with updated_at the newest one and the number of  *)
(* rows, of another its content and the number of rows, and today's date   *)
(* where the data depends on it.  The app sends the fingerprints it has,   *)
(* and gets the sets that differ; every write is answered with the         *)
(* fingerprints after it.  updated_at is the time a transaction began.     *)
(* The due check that a sync begins with is one of the writes.             *)
(* Abstraction: two contents never have one hash.                          *)
(***************************************************************************)
EXTENDS Integers, FiniteSets

CONSTANTS
  Datasets,
  SourcesOf,    \* sources: of each dataset, the tables it is read from
  Timed,        \* the tables with updated_at (byTime)
  ByDay,        \* byDay: the datasets that depend on today
  Cells,        \* bound: the rows there may be, <<table, row>>
  Contents,     \* bound: of each row what it may say, naturals above 0
  MaxSavers,    \* bound: writing transactions in hand
  MaxSaves,     \* bound: writes there are
  SyncDays      \* bound: days, from 0

ASSUME SyncBounds == MaxSaves \in Nat /\ SyncDays \in Nat
ASSUME CellsAreFew == IsFiniteSet(Cells) /\ \A c \in Cells : Contents[c] \subseteq Nat \ {0}
ASSUME SetsHaveSources == \A d \in Datasets : SourcesOf[d] # {}

VARIABLES
  stored,       \* the tables: of each row [at, says]
  savers,       \* the transactions in hand, each by the time it began
  now,          \* the time: one tick for each transaction
  dayNow,
  device,       \* what the app holds of each dataset: [v, body]
  stale,        \* the datasets the app has been told are not as it holds them
  sync,         \* a POST /sync: [on, v, load, got]
  moved,        \* history: datasets written since the fingerprints of the sync in hand
  excused       \* history: datasets whose fingerprint may hide a write from the app

syncVars == <<stored, savers, now, dayNow, device, stale, sync, moved, excused>>

NoCell   == [at |-> 0, says |-> 0]
NoSync   == [on |-> FALSE, v |-> <<>>, load |-> {}, got |-> <<>>]
Nothing  == [v |-> [stamps |-> <<>>, day |-> 0], body |-> [rows |-> <<>>, day |-> 0]]

RowsOf(t) == {c \in Cells : c[1] = t}
There(t)  == {c \in RowsOf(t) : stored[c].at > 0}
Wanted    == {Datasets, stale}                      \* no names are all of them (resolveWant)
Read(d)   == UNION {RowsOf(t) : t \in SourcesOf[d]}
DayOf(d)  == IF d \in ByDay THEN dayNow ELSE 0
Newest(t) == CHOOSE n \in 0 .. now : /\ \A c \in There(t) : stored[c].at <= n
                                     /\ n = 0 \/ \E c \in There(t) : stored[c].at = n

-----------------------------------------------------------------------------
\* Mutant: the newest time alone.
Stamp_NoCount(t) == IF t \in Timed THEN <<Newest(t), {}>> ELSE <<0, {<<c, stored[c].says>> : c \in There(t)}>>

\* A table's part of a fingerprint.  The hashes of a content hold its number of rows.
Stamp(t) ==
  IF t \in Timed THEN <<Newest(t), Cardinality(There(t))>>
  ELSE <<0, {<<c, stored[c].says>> : c \in There(t)}>>

Fingerprint(d) == [stamps |-> [t \in SourcesOf[d] |-> Stamp(t)], day |-> DayOf(d)]

\* What the dataset's loader answers.
Body(d) == [rows |-> [c \in Read(d) |-> stored[c].says], day |-> DayOf(d)]

-----------------------------------------------------------------------------
(* Writes, of the user and of others.                                      *)

SaveBegins ==
  /\ now < MaxSaves /\ Cardinality(savers) < MaxSavers
  /\ now' = now + 1 /\ savers' = savers \cup {now'}
  /\ UNCHANGED <<stored, dayNow, device, stale, sync, moved, excused>>

\* A row is made, changed or deleted (0).  Its updated_at is NOW() (the default, and set_timestamp):
\* the time the transaction began.  A write is late when one that began after it is there already.
SaveCommits(began, c, says) ==
  /\ says # stored[c].says
  /\ savers' = savers \ {began}
  /\ stored' = [stored EXCEPT ![c] = IF says = 0 THEN NoCell ELSE [at |-> began, says |-> says]]
  /\ \E users \in {{d \in Datasets : c[1] \in SourcesOf[d]}} :
       /\ moved' = IF sync.on THEN moved \cup users ELSE moved
       /\ excused' = IF says # 0 /\ c[1] \in Timed /\ began < Newest(c[1]) THEN excused \cup users ELSE excused
  /\ UNCHANGED <<now, dayNow, device, sync>>

\* The middleware: the user's own write is answered with the fingerprints after it, unless they
\* fail; another's write, or an answer that is lost, tells the app nothing.
Stamped(told) == stale' = IF told THEN {d \in Datasets : device[d].v # Fingerprint(d)'} ELSE stale

NewDay ==
  /\ dayNow < SyncDays /\ dayNow' = dayNow + 1
  /\ UNCHANGED <<stored, savers, now, device, stale, sync, moved, excused>>

-----------------------------------------------------------------------------
(* POST /sync.                                                             *)

\* The fingerprints, in one query, and which of the wanted sets are to be loaded.
SyncAsked ==
  /\ ~sync.on /\ moved' = {}
  /\ \E want \in Wanted :
       /\ want # {}
       /\ \E v \in {[d \in Datasets |-> Fingerprint(d)]} :
            sync' = [on |-> TRUE, v |-> v, load |-> {d \in want : device[d].v # v[d]}, got |-> <<>>]
  /\ UNCHANGED <<stored, savers, now, dayNow, device, stale, excused>>

\* loadAll: each set by itself, in any order; one that fails or takes too long is left out.
Loaded(d) ==
  /\ d \in sync.load
  /\ \E got \in {<<>>, Body(d)} :
       sync' = [sync EXCEPT !.load = @ \ {d},
                            !.got = [e \in DOMAIN @ \cup {d} |-> IF e = d THEN got ELSE @[e]]]
  /\ UNCHANGED <<stored, savers, now, dayNow, device, stale, moved, excused>>

\* The answer: each set that was loaded, with the fingerprint from before it was.
SyncAnswers ==
  /\ sync.on /\ sync.load = {} /\ sync' = NoSync /\ moved' = {}
  /\ \E new \in {{d \in DOMAIN sync.got : sync.got[d] # <<>>}} :
       /\ device' = [d \in Datasets |-> IF d \in new THEN [v |-> sync.v[d], body |-> sync.got[d]] ELSE device[d]]
       /\ stale' = {d \in Datasets \ new : device[d].v # sync.v[d]}
       /\ excused' = (excused \ new) \cup (new \cap moved)
  /\ UNCHANGED <<stored, savers, now, dayNow>>

SyncLost ==
  /\ sync.on /\ sync' = NoSync /\ moved' = {}
  /\ UNCHANGED <<stored, savers, now, dayNow, device, stale, excused>>

-----------------------------------------------------------------------------
SyncInit ==
  /\ stored = [c \in Cells |-> NoCell] /\ savers = {}
  /\ now = 0 /\ dayNow = 0 /\ device = [d \in Datasets |-> Nothing] /\ stale = {}
  /\ sync = NoSync /\ moved = {} /\ excused = {}

SyncNext ==
  \/ SaveBegins
  \/ \E began \in savers, c \in Cells, told \in BOOLEAN : \E says \in Contents[c] \cup {0} :
       SaveCommits(began, c, says) /\ Stamped(told)
  \/ \E d \in Datasets : Loaded(d)
  \/ NewDay \/ SyncAsked \/ SyncAnswers \/ SyncLost

-----------------------------------------------------------------------------
SyncTypeOK ==
  /\ stale \subseteq Datasets /\ sync.load \subseteq Datasets /\ now \in 0 .. MaxSaves
  /\ savers \subseteq 1 .. now
  /\ \A c \in Cells : stored[c].at <= now

\* "Every change a screen can make to a dataset must move that dataset's fingerprint"
\* (sync_test.go:211): an app whose fingerprint is the server's holds what the server has, however
\* writes, days and syncs follow each other; unless a write landed after one that began later, or
\* while the set was on its way.
SameStampSameData ==
  /\ SyncTypeOK
  /\ \A d \in Datasets : device[d].v = Fingerprint(d) => device[d].body = Body(d) \/ d \in excused
=============================================================================
