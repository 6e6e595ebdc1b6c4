----------------------------- MODULE TmdbCache -----------------------------
(***************************************************************************)
(* The caches in front of TMDB.  Data is kept in Redis, where it may       *)
(* vanish at any time, and in the table tmdb_cache, where it stays; images *)
(* are kept as files.  Readers fill the caches, for most kinds of data     *)
(* under a lock of the process; a job loads the defaults, another copies   *)
(* Redis into the table, and an admin clears everything.                   *)
(*                                                                         *)
(* Steps end where the code awaits.  A value is the version of TMDB's data *)
(* it was taken from.                                                      *)
(***************************************************************************)
EXTENDS Integers

CONSTANTS
    Key, Kind,      \* what is cached, and as which kind
    Default,        \* the keys refresh_defaults loads
    Session,        \* requests and jobs that can be in flight
    MaxVersion,     \* bound on the changes at TMDB
    Flaky           \* whether Redis may fail to answer or to store

Kinds == {"discover", "genres", "companies", "detail", "image"}

ASSUME CacheAssumption ==
    /\ Kind \in [Key -> Kinds]
    /\ Default \subseteq {k \in Key : Kind[k] \in {"discover", "genres", "companies"}}
    /\ MaxVersion \in Nat \ {0} /\ Flaky \in BOOLEAN

Nothing == -1       \* no entry
Empty   == 0        \* an entry without results
Value   == Nothing .. MaxVersion

VARIABLES
    tmdb,           \* the version TMDB answers with (external)
    redis,          \* entries under tmdb:data:
    row,            \* rows of tmdb_cache, or files of images
    holder,         \* holders of the lock of a key, at most one
    session,        \* what is in flight
    mixed,          \* history: a job overlapped with other work
    behind,         \* history: keys of which Redis did not take, or not lose, its entry,
                    \* and keys a reader had in hand when their rows were cleared
    cleared         \* history: the version at the last clear that reached a key

vars == <<tmdb, redis, row, holder, session, mixed, behind, cleared>>

\* What a request or a job in flight knows
View == [op   : {"none", "read", "refresh", "persist", "clear"},
         pc   : {"idle", "look", "row", "prime", "wait", "fetch", "store", "write",
                 "upsert", "redis", "files"},
         key  : SUBSET Key, got : Value, todo : SUBSET Key,
         copy : {<<>>} \cup [Key -> Value]]

Idle == [op |-> "none", pc |-> "idle", key |-> {}, got |-> Nothing, todo |-> {}, copy |-> <<>>]

\* Person and detail pages are read and filled without a lock.
Locked(k) == Kind[k] # "detail"
InRedis(k) == Kind[k] # "image"

\* Data whose fetcher turns a failure into an empty list that is cached
WrapsFailure(k) == Kind[k] \in {"genres", "companies"}

\* _should_refresh_cached_payload
ShouldRefresh(k, v) == Kind[k] = "genres" /\ v = Empty

-----------------------------------------------------------------------------
(* Sessions *)

Busy == {x \in Session : session[x] # Idle}

\* Readers disturb neither each other nor a clear; jobs may disturb everything.
Harmless(op, y) ==
    \/ op = "read" /\ session[y].op \in {"read", "clear"}
    \/ op = "clear" /\ session[y].op = "read"

Begin(x, s) ==
    /\ x \notin Busy
    /\ session' = [session EXCEPT ![x] = s]
    /\ mixed' = (mixed \/ \E y \in Busy : ~Harmless(s.op, y))

\* Keys whose data somebody has asked for, or is about to put into a layer
InHand == {k \in Key : \E x \in Session : /\ k \in session[x].key
                                         /\ session[x].pc \in {"prime", "fetch", "store", "write"}}

At(x, pc, k) == session[x].pc = pc /\ k \in session[x].key
GoTo(x, pc, v) == session' = [session EXCEPT ![x].pc = pc, ![x].got = v]

\* Faulty: a failing fetch leaves the lock behind.
ReleaseAnswered(x) ==
    holder' = [k \in Key |-> IF session[x].pc = "fetch" THEN holder[k] ELSE holder[k] \ {x}]

Release(x) == holder' = [k \in Key |-> holder[k] \ {x}]

\* A reader has its answer; refresh_defaults takes the next of its keys.
Finish(x) ==
    \/ /\ session[x].todo = {}
       /\ session' = [session EXCEPT ![x] = Idle]
       /\ Release(x)
    \/ /\ \E k \in session[x].todo :
              session' = [session EXCEPT ![x].pc = "fetch", ![x].key = {k}, ![x].got = Nothing,
                                         ![x].todo = @ \ {k}]
       /\ UNCHANGED holder

\* What was found is the answer, or else has to be fetched, under the lock.
Consider(x, k, v) ==
    IF v # Nothing /\ ~ShouldRefresh(k, v) THEN Finish(x)
    ELSE /\ GoTo(x, IF Locked(k) /\ x \notin holder[k] THEN "wait" ELSE "fetch", Nothing)
         /\ UNCHANGED holder

-----------------------------------------------------------------------------
(* Reading and filling: get_or_set_cached_data, the pages and the images *)

Read(x, k) ==
    /\ Begin(x, [Idle EXCEPT !.op = "read", !.pc = "look", !.key = {k}])
    /\ UNCHANGED <<tmdb, redis, row, holder, behind, cleared>>

Look(x, k) ==
    /\ At(x, "look", k) /\ InRedis(k)
    /\ \/ /\ redis[k] # Nothing
          /\ Consider(x, k, redis[k])
       \/ /\ redis[k] = Nothing \/ Flaky
          /\ GoTo(x, "row", Nothing) /\ UNCHANGED holder
    /\ UNCHANGED <<tmdb, redis, row, mixed, behind, cleared>>

ReadRow(x, k) ==
    /\ At(x, "row", k)
    /\ IF row[k] # Nothing
       THEN GoTo(x, "prime", row[k]) /\ UNCHANGED holder
       ELSE Consider(x, k, row[k])
    /\ UNCHANGED <<tmdb, redis, row, mixed, behind, cleared>>

\* An image is looked for among the files.
LookForFile(x, k) ==
    /\ At(x, "look", k) /\ ~InRedis(k)
    /\ Consider(x, k, row[k])
    /\ UNCHANGED <<tmdb, redis, row, mixed, behind, cleared>>

\* set_json reports a failure to nobody.
Prime(x, k) ==
    /\ At(x, "prime", k)
    /\ \/ redis' = [redis EXCEPT ![k] = session[x].got]
       \/ Flaky /\ UNCHANGED redis
    /\ Consider(x, k, session[x].got)
    /\ UNCHANGED <<tmdb, row, mixed, behind, cleared>>

\* Faulty: the cache is not looked up again under the lock.
AcquireAndFetch(x, k) ==
    /\ At(x, "wait", k)
    /\ holder[k] = {}
    /\ holder' = [holder EXCEPT ![k] = {x}]
    /\ GoTo(x, "fetch", Nothing)
    /\ UNCHANGED <<tmdb, redis, row, mixed, behind, cleared>>

Acquire(x, k) ==
    /\ At(x, "wait", k)
    /\ holder[k] = {}
    /\ holder' = [holder EXCEPT ![k] = {x}]
    /\ GoTo(x, "look", Nothing)
    /\ UNCHANGED <<tmdb, redis, row, mixed, behind, cleared>>

Fetched(x, k) ==
    /\ At(x, "fetch", k)
    /\ GoTo(x, "store", tmdb)
    /\ UNCHANGED <<tmdb, redis, row, holder, mixed, behind, cleared>>

\* No answer of TMDB: lists that wrap the failure are stored empty, for
\* everything else nothing is stored.
FetchFailed(x, k) ==
    /\ At(x, "fetch", k)
    /\ IF WrapsFailure(k)
       THEN GoTo(x, "store", Empty) /\ UNCHANGED holder
       ELSE Finish(x)
    /\ UNCHANGED <<tmdb, redis, row, mixed, behind, cleared>>

\* A series without all of its episodes is the answer, and is not stored.
FetchedInPart(x, k) ==
    /\ At(x, "fetch", k) /\ Kind[k] = "detail"
    /\ Finish(x)
    /\ UNCHANGED <<tmdb, redis, row, mixed, behind, cleared>>

\* _set_cache commits the row first.
Store(x, k) ==
    /\ At(x, "store", k) /\ InRedis(k)
    /\ row' = [row EXCEPT ![k] = session[x].got]
    /\ GoTo(x, "write", session[x].got)
    /\ UNCHANGED <<tmdb, redis, holder, mixed, behind, cleared>>

StoreFile(x, k) ==
    /\ At(x, "store", k) /\ ~InRedis(k)
    /\ row' = [row EXCEPT ![k] = session[x].got]
    /\ Finish(x)
    /\ UNCHANGED <<tmdb, redis, mixed, behind, cleared>>

\* Faulty: Redis keeps an entry it has.
WriteIfAbsent(x, k) ==
    /\ At(x, "write", k)
    /\ redis' = [redis EXCEPT ![k] = IF @ = Nothing THEN session[x].got ELSE @]
    /\ Finish(x)
    /\ UNCHANGED <<tmdb, row, mixed, behind, cleared>>

Write(x, k) ==
    /\ At(x, "write", k)
    /\ \/ /\ redis' = [redis EXCEPT ![k] = session[x].got]
          /\ behind' = IF session[x].op = "refresh" THEN behind \ {k} ELSE behind
       \/ /\ Flaky /\ UNCHANGED redis
          /\ behind' = IF redis[k] = Nothing THEN behind ELSE behind \cup {k}
    /\ Finish(x)
    /\ UNCHANGED <<tmdb, row, mixed, cleared>>

\* An exception, a client that hangs up: the lock is released, nothing undone.
Raise(x) ==
    /\ x \in Busy
    /\ session' = [session EXCEPT ![x] = Idle]
    /\ behind' = behind \cup {k \in Key : /\ redis[k] # Nothing
                                          /\ At(x, "write", k) \/ session[x].pc = "redis"}
    /\ Release(x)
    /\ UNCHANGED <<tmdb, redis, row, mixed, cleared>>

-----------------------------------------------------------------------------
(* The jobs and the admin *)

\* refresh_defaults fetches and stores whatever the caches hold, without locks.
Refresh(x) ==
    /\ \E k \in Default :
           Begin(x, [Idle EXCEPT !.op = "refresh", !.pc = "fetch", !.key = {k},
                                 !.todo = Default \ {k}])
    /\ UNCHANGED <<tmdb, redis, row, holder, behind, cleared>>

\* sync_redis_cache_to_db reads Redis and then writes the rows.
Snapshot(x) ==
    /\ Begin(x, [Idle EXCEPT !.op = "persist", !.pc = "upsert", !.copy = redis])
    /\ UNCHANGED <<tmdb, redis, row, holder, behind, cleared>>

Upsert(x) ==
    /\ session[x].pc = "upsert"
    /\ row' = [k \in Key |-> IF session[x].copy[k] = Nothing THEN row[k] ELSE session[x].copy[k]]
    /\ session' = [session EXCEPT ![x] = Idle]
    /\ behind' = {}
    /\ UNCHANGED <<tmdb, redis, holder, mixed, cleared>>

\* Faulty: Redis is cleared before the rows, which readers copy back to it.
ClearRowsLate(x) ==
    /\ Begin(x, [Idle EXCEPT !.op = "clear", !.pc = "redis", !.key = InHand, !.got = tmdb])
    /\ redis' = [k \in Key |-> Nothing]
    /\ row' = row /\ behind' = behind \cup InHand
    /\ UNCHANGED <<tmdb, holder, cleared>>

\* _reset_tmdb_caches: clear_cache commits the deletion of the rows, then
\* empties Redis, then come the files, then the defaults are loaded again.  Its
\* keys are those it does not reach: what readers have in hand, what Redis keeps.
ClearRows(x) ==
    /\ Begin(x, [Idle EXCEPT !.op = "clear", !.pc = "redis", !.key = InHand, !.got = tmdb])
    /\ row' = [k \in Key |-> IF InRedis(k) THEN Nothing ELSE row[k]]
    /\ behind' = behind \cup InHand
    /\ UNCHANGED <<tmdb, redis, holder, cleared>>

\* delete_prefix reports a failure to nobody, either.
ClearRedis(x) ==
    /\ session[x].pc = "redis"
    /\ \/ /\ redis' = [k \in Key |-> Nothing]
          /\ behind' = behind \cap InHand
          /\ GoTo(x, "files", session[x].got)
       \/ /\ Flaky /\ UNCHANGED redis
          /\ \E kept \in {{k \in Key : redis[k] # Nothing}} :
                 /\ behind' = behind \cup kept
                 /\ session' = [session EXCEPT ![x].pc = "files", ![x].key = @ \cup kept]
    /\ UNCHANGED <<tmdb, row, holder, mixed, cleared>>

ClearFiles(x) ==
    /\ session[x].pc = "files"
    /\ row' = [k \in Key |-> IF InRedis(k) THEN row[k] ELSE Nothing]
    /\ cleared' = [k \in Key |-> IF mixed \/ k \in session[x].key THEN cleared[k] ELSE session[x].got]
    /\ \/ session' = [session EXCEPT ![x] = Idle] /\ UNCHANGED mixed
       \/ \E k \in Default :
             /\ session' = [session EXCEPT ![x] = [Idle EXCEPT !.op = "refresh", !.pc = "fetch",
                                                               !.key = {k}, !.todo = Default \ {k}]]
             /\ mixed' = (mixed \/ Busy # {x})
    /\ UNCHANGED <<tmdb, redis, holder, behind>>

Evict(k) ==
    /\ redis[k] # Nothing
    /\ redis' = [redis EXCEPT ![k] = Nothing]
    /\ behind' = behind \ ({k} \ InHand)
    /\ UNCHANGED <<tmdb, row, holder, session, mixed, cleared>>

\* TMDB changes, or the admin points the backend to another one.
Change ==
    /\ tmdb < MaxVersion
    /\ tmdb' = tmdb + 1
    /\ UNCHANGED <<redis, row, holder, session, mixed, behind, cleared>>

-----------------------------------------------------------------------------
Init ==
    /\ tmdb = 1
    /\ redis = [k \in Key |-> Nothing] /\ row = [k \in Key |-> Nothing]
    /\ holder = [k \in Key |-> {}]
    /\ session = [x \in Session |-> Idle]
    /\ mixed = FALSE /\ behind = {} /\ cleared = [k \in Key |-> 1]

Go(x, k) ==
    \/ Look(x, k) \/ LookForFile(x, k) \/ ReadRow(x, k) \/ Prime(x, k)
    \/ Fetched(x, k) \/ FetchFailed(x, k) \/ FetchedInPart(x, k)
    \/ Store(x, k) \/ StoreFile(x, k) \/ Write(x, k)

Job(x) == Refresh(x) \/ Snapshot(x) \/ Upsert(x) \/ ClearRows(x) \/ ClearRedis(x) \/ ClearFiles(x)

Next ==
    \/ \E x \in Session, k \in Key : Read(x, k) \/ Go(x, k) \/ Acquire(x, k)
    \/ \E x \in Session : Raise(x) \/ Job(x)
    \/ \E k \in Key : Evict(k)
    \/ Change

Spec == Init /\ [][Next]_vars

\* The event loop runs what is ready, TMDB answers or the request times out
\* (15 s), and asyncio.Lock serves those who wait in their order.
Fairness ==
    \A x \in Session :
        /\ WF_vars(Upsert(x) \/ ClearRedis(x) \/ ClearFiles(x) \/ \E k \in Key : Go(x, k))
        /\ SF_vars(\E k \in Key : Acquire(x, k))

FairSpec == Spec /\ Fairness

-----------------------------------------------------------------------------
(* Properties *)

Storing(k) == \E x \in Session : session[x].pc \in {"store", "write"} /\ k \in session[x].key

\* An entry v of key k is a version TMDB had; a failure is stored as an empty
\* list only by the kinds that wrap it (_wrap_results).
Entry(k, v) == v \in Nothing .. tmdb /\ (v = Empty => WrapsFailure(k))

\* Each operation has its steps, at one key or at none.
Shape(s) ==
    \/ s = Idle
    \/ /\ s.op = "read" /\ s.todo = {}
       /\ s.pc \in {"look", "row", "wait", "fetch"} => s.got = Nothing
       /\ s.pc = "prime" => s.got # Nothing
       /\ \E k \in Key :
              /\ s.key = {k}
              /\ s.pc \in {"look", "wait", "fetch", "store"}
                           \cup IF InRedis(k) THEN {"row", "prime", "write"} ELSE {}
    \/ /\ s.op = "refresh" /\ s.todo \subseteq Default
       /\ \E k \in Default : s.key = {k} /\ s.pc \in {"fetch", "store", "write"}
    \/ s.op = "persist" /\ s.pc = "upsert" /\ s.key = {} /\ s.copy \in [Key -> Value]
    \/ s.op = "clear" /\ s.pc \in {"redis", "files"} /\ s.got > Empty

\* Entries are in range, also those in the hands of sessions, and a lock has
\* one holder, which reads.
TypeOK ==
    /\ tmdb \in 1 .. MaxVersion /\ cleared \in [Key -> 1 .. tmdb]
    /\ mixed \in BOOLEAN /\ behind \subseteq Key
    /\ session \in [Session -> View]
    /\ redis = [k \in Key |-> redis[k]] /\ row = [k \in Key |-> row[k]]
    /\ holder = [k \in Key |-> holder[k]]
    /\ \A k \in Key :
           /\ Entry(k, redis[k]) /\ Entry(k, row[k])
           /\ redis[k] = Nothing \/ InRedis(k)
           /\ holder[k] \subseteq {x \in Busy : session[x].op = "read" /\ session[x].key = {k}}
           /\ \A x, y \in holder[k] : x = y
    /\ \A x \in Session :
           /\ Shape(session[x])
           /\ session[x].got <= tmdb
           /\ \A k \in session[x].key :
                  session[x].pc \in {"prime", "store", "write"} => Entry(k, session[x].got)
           /\ session[x].op = "persist" => \A k \in Key : Entry(k, session[x].copy[k])

\* However many readers miss at the same time, each asks TMDB only while there
\* is nothing to answer with: the lookup under the lock (get_or_set_cached_data,
\* proxy_tmdb_image) sees what the reader before it has stored.  Genre lists are
\* excepted: an empty one that a reader still had in hand may come back to Redis
\* after it was replaced, and is fetched once more.
FetchIsNeeded ==
    \A x \in Session, k \in Key :
        ~mixed /\ Locked(k) /\ session[x].op = "read" /\ At(x, "fetch", k)
            => row[k] = Nothing \/ Kind[k] = "genres"

\* Once nobody is storing an entry, Redis has what the table has, or nothing.
\* It may differ where Redis failed to take or to delete its entry, or a
\* process was stopped before it could (_set_cache, delete_prefix), and where
\* the caches were cleared while a reader had the key in hand; until Redis
\* forgets the entry, or a job writes both layers.  Jobs that overlap with other
\* work are excepted, so are genre lists, for the reason given above, and pages
\* that are filled without a lock, where of two readers each may win one layer.
LayersAgree ==
    \A k \in Key \ behind :
        /\ ~mixed /\ Kind[k] \in {"discover", "companies"} /\ ~Storing(k)
        /\ \A x \in Session : session[x].pc # "redis"
        => redis[k] \in {Nothing, row[k]}

\* Nothing that was cached before an admin cleared the caches is found after,
\* also when readers were served in between: the rows go before Redis
\* (clear_cache).  A clear does not reach the keys that readers have asked for
\* or have in hand when it begins, which they store after it, nor those Redis
\* fails to delete (delete_prefix).
ClearedStaysCleared ==
    ~mixed => \A k \in Key : \A v \in {redis[k], row[k]} : v > Empty => v >= cleared[k]

\* Readers of locked kinds fetch and store under the lock; jobs are alone.
SessionsApart ==
    /\ \A x \in Session, k \in Key :
           /\ session[x].op = "read" /\ k \in session[x].key /\ Locked(k)
           /\ session[x].pc \in {"fetch", "store", "write"}
           => x \in holder[k]
    /\ ~mixed => \A x, y \in Busy :
           x # y => session[x].op = "read" \/ (session[x].op = "clear" /\ session[y].op = "read")

Fixed(k) == Kind[k] \in {"discover", "companies", "image"}

\* What readers found in the rows and what they have stored is still there, so
\* that Redis gets it, too; a clear has emptied Redis when it comes to files.
RowsStand ==
    ~mixed =>
        /\ \A x \in Session, k \in Key :
               /\ k \in session[x].key /\ Fixed(k)
               /\ k \notin behind \/ session[x].op = "refresh"
               =>
               /\ session[x].op = "read" /\ session[x].pc = "store" => row[k] = Nothing
               /\ session[x].pc = "prime" => row[k] = session[x].got /\ row[k] # Nothing
               /\ session[x].pc = "write" => row[k] = session[x].got
        /\ \A x \in Session, k \in Key :
               session[x].op = "persist" => redis[k] \in {Nothing, session[x].copy[k]}
        /\ \A k \in Key \ behind : Fixed(k) /\ InRedis(k) =>
               \/ redis[k] \in {Nothing, row[k]}
               \/ \E x \in Session : session[x].pc = "redis"
               \/ \E x \in Session : session[x].op = "refresh" /\ At(x, "write", k)

\* What is in flight was read after the last clear that reached its key, and
\* after the one going on if that reaches it.
NothingOlderInFlight ==
    ~mixed =>
        /\ \A x \in Session :
               /\ \A k \in session[x].key : session[x].got > Empty => session[x].got >= cleared[k]
               /\ session[x].op = "persist" =>
                      \A k \in Key : session[x].copy[k] > Empty => session[x].copy[k] >= cleared[k]
        /\ \A x \in Session : session[x].op = "clear" =>
               /\ \A k \in Key : session[x].got >= cleared[k]
               /\ \A y \in Session : \A k \in session[y].key \ session[x].key :
                      session[y].got > Empty => session[y].got >= session[x].got
               /\ \A k \in Key \ session[x].key : InRedis(k) =>
                      /\ row[k] > Empty => row[k] >= session[x].got
                      /\ session[x].pc = "files" /\ redis[k] > Empty => redis[k] >= session[x].got

\* The inductive invariant.
CacheInvariant ==
    /\ TypeOK /\ SessionsApart
    /\ FetchIsNeeded
    /\ LayersAgree /\ RowsStand
    /\ ClearedStaysCleared /\ NothingOlderInFlight

\* Every request and job in flight comes to its end: no lock is left behind by
\* a fetch that fails or a client that hangs up.
AllAreServed == \A x \in Session : x \in Busy ~> x \notin Busy

=============================================================================
