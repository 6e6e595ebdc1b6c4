-------------------------- MODULE TmdbCacheProofs --------------------------
(***************************************************************************)
(* The caches in front of TMDB for any number of keys, of requests and of  *)
(* jobs: where the layers may differ, that readers fetch only what is      *)
(* missing, and what a clear reaches.                                      *)
(***************************************************************************)
EXTENDS TmdbCache, TLAPS

(* The invariant, session by session.                                      *)

Typed(s) ==
    /\ s \in View /\ Shape(s)
    /\ s.got <= tmdb
    /\ \A k \in s.key : s.pc \in {"prime", "store", "write"} => Entry(k, s.got)
    /\ s.op = "persist" => \A k \in Key : Entry(k, s.copy[k])

Owned(x) ==
    \A k \in session[x].key :
        session[x].op = "read" /\ Locked(k) /\ session[x].pc \in {"fetch", "store", "write"}
            => x \in holder[k]

\* What session s goes by is what the caches have.
Backed(s) ==
    /\ \A k \in s.key :
           /\ s.op = "read" /\ Locked(k) /\ s.pc = "fetch" => row[k] = Nothing \/ Kind[k] = "genres"
           /\ Fixed(k) /\ (k \notin behind \/ s.op = "refresh") =>
                 /\ s.op = "read" /\ s.pc = "store" => row[k] = Nothing
                 /\ s.pc = "prime" => row[k] = s.got /\ row[k] # Nothing
                 /\ s.pc = "write" => row[k] = s.got
    /\ s.op = "persist" => \A k \in Key : redis[k] \in {Nothing, s.copy[k]}

Fresh(v, since) == v > Empty => v >= since

\* What session s has in hand is no older than the last clear that reached it.
FreshView(s) ==
    /\ \A k \in s.key : Fresh(s.got, cleared[k])
    /\ s.op = "persist" => \A k \in Key : Fresh(s.copy[k], cleared[k])

\* It is no older than clear c, which is going on and reaches its key.
Past(s, c) == \A k \in s.key \ c.key : Fresh(s.got, c.got)

\* What readers may find is no older than a clear s that is going on.
FreshCaches(s) ==
    s.op = "clear" =>
        /\ \A k \in Key : s.got >= cleared[k]
        /\ \A k \in Key \ s.key : InRedis(k) =>
               /\ Fresh(row[k], s.got)
               /\ s.pc = "files" => Fresh(redis[k], s.got)

Apart(s, t) == s.op = "read" \/ (s.op = "clear" /\ t.op = "read")

Layered(k) ==
    Fixed(k) /\ InRedis(k) /\ k \notin behind =>
        \/ redis[k] \in {Nothing, row[k]}
        \/ \E x \in Session : session[x].pc = "redis"
        \/ \E x \in Session : session[x].op = "refresh" /\ At(x, "write", k)

\* The types of everything but the sessions
Plain ==
    /\ tmdb \in 1 .. MaxVersion /\ cleared \in [Key -> 1 .. tmdb]
    /\ mixed \in BOOLEAN /\ behind \subseteq Key
    /\ redis = [k \in Key |-> redis[k]] /\ row = [k \in Key |-> row[k]]
    /\ \A k \in Key :
           /\ Entry(k, redis[k]) /\ Entry(k, row[k])
           /\ redis[k] = Nothing \/ InRedis(k)

Locks ==
    /\ holder = [k \in Key |-> holder[k]]
    /\ \A k \in Key :
           /\ holder[k] \subseteq {x \in Busy : session[x].op = "read" /\ session[x].key = {k}}
           /\ \A x, y \in holder[k] : x = y

Sessions ==
    /\ session = [x \in Session |-> session[x]]
    /\ \A x \in Session : Typed(session[x])

Quiet ==
    /\ \A x, y \in Busy : x # y => Apart(session[x], session[y])
    /\ \A x \in Session : Backed(session[x]) /\ FreshView(session[x]) /\ FreshCaches(session[x])
    /\ \A x, y \in Session : session[x].op = "clear" => Past(session[y], session[x])
    /\ \A k \in Key : Layered(k) /\ Fresh(redis[k], cleared[k]) /\ Fresh(row[k], cleared[k])

Parts ==
    /\ Plain /\ Locks /\ Sessions
    /\ \A x \in Session : Owned(x)
    /\ ~mixed => Quiet

LEMMA Shapes ==
    ASSUME NEW s, Shape(s)
    PROVE  /\ s.op = "none" <=> s = Idle
           /\ s.op \in {"none", "read", "refresh", "persist", "clear"}
           /\ s.pc \in {"redis", "files"} <=> s.op = "clear"
           /\ s.pc = "upsert" <=> s.op = "persist"
           /\ s.pc \in {"look", "row", "prime", "wait"} => s.op = "read"
           /\ s.pc \in {"fetch", "store", "write"} => s.op \in {"read", "refresh"}
           /\ s.op = "read" => s.todo = {} /\ \E k \in Key : s.key = {k}
           /\ s.op = "refresh" => \E k \in Default : s.key = {k}
           /\ s.op = "read" /\ s.pc \in {"look", "row", "wait", "fetch"} => s.got = Nothing
BY DEF Shape, Idle

LEMMA PartsSuffice == Parts => CacheInvariant
<1> SUFFICES ASSUME Parts PROVE CacheInvariant
    OBVIOUS
<1>1. TypeOK
    BY DEF Parts, Plain, Locks, Sessions, Typed, TypeOK
<1>2. SessionsApart
    BY DEF Parts, Owned, Quiet, Apart, SessionsApart
<1>3. FetchIsNeeded /\ RowsStand
    BY DEF Parts, Quiet, Backed, Layered, FetchIsNeeded, RowsStand, At
<1>4. ClearedStaysCleared /\ NothingOlderInFlight
    BY DEF Parts, Quiet, FreshView, FreshCaches, Past, Fresh, ClearedStaysCleared, NothingOlderInFlight
<1>5. LayersAgree
    <2>1. \A x \in Session : session[x].pc = "redis" => session[x].op = "clear"
        BY <1>1, Shapes DEF TypeOK
    <2> QED BY <1>3, <2>1 DEF RowsStand, LayersAgree, Storing, At, Fixed, InRedis
<1> QED BY <1>1, <1>2, <1>3, <1>4, <1>5 DEF CacheInvariant

LEMMA InParts == CacheInvariant => Parts
<1> SUFFICES ASSUME CacheInvariant PROVE Parts
    OBVIOUS
<1>1. Plain /\ Locks /\ Sessions
    BY DEF CacheInvariant, TypeOK, Plain, Locks, Sessions, Typed
<1>2. \A x \in Session : Owned(x)
    BY <1>1 DEF CacheInvariant, SessionsApart, Owned, Sessions, Typed, View
<1>3. ASSUME ~mixed PROVE Quiet
    <2>1. \A x, y \in Busy : x # y => Apart(session[x], session[y])
        BY <1>3 DEF CacheInvariant, SessionsApart, Apart
    <2>2. \A x \in Session : Backed(session[x])
        BY <1>1, <1>3 DEF CacheInvariant, FetchIsNeeded, RowsStand, Backed, At, Sessions, Typed, View
    <2>3. /\ \A x \in Session : FreshView(session[x]) /\ FreshCaches(session[x])
          /\ \A x, y \in Session : session[x].op = "clear" => Past(session[y], session[x])
          /\ \A k \in Key : Fresh(redis[k], cleared[k]) /\ Fresh(row[k], cleared[k])
        BY <1>3 DEF CacheInvariant, ClearedStaysCleared, NothingOlderInFlight, FreshView, FreshCaches, Past, Fresh
    <2>4. \A k \in Key : Layered(k)
        BY <1>3 DEF CacheInvariant, RowsStand, Layered
    <2> QED BY <2>1, <2>2, <2>3, <2>4 DEF Quiet
<1> QED BY <1>1, <1>2, <1>3 DEF Parts

LEMMA PartsKept ==
    ASSUME Parts' PROVE CacheInvariant'
BY PartsSuffice, PTL

-----------------------------------------------------------------------------
(* Steps of a session.                                                     *)

\* Session x goes on to what new says, and may take or leave the lock.
Moves(x, new) ==
    /\ session' = [session EXCEPT ![x] = new]
    /\ Typed(new)
    /\ holder' = [k \in Key |-> holder'[k]]
    /\ \A k \in Key :
           /\ holder[k] \ {x} \subseteq holder'[k] /\ holder'[k] \subseteq holder[k] \cup {x}
           /\ x \in holder'[k] => holder'[k] = {x} /\ new.op = "read" /\ new.key = {k}
    /\ \A k \in new.key :
           new.op = "read" /\ Locked(k) /\ new.pc \in {"fetch", "store", "write"} => x \in holder'[k]

LEMMA MovedTypes ==
    ASSUME Parts, NEW x \in Session, NEW new, Moves(x, new), UNCHANGED <<tmdb>>, Plain'
    PROVE  /\ Plain' /\ Locks' /\ Sessions' /\ \A y \in Session : Owned(y)'
           /\ session'[x] = new
           /\ \A y \in Session \ {x} : session'[y] = session[y]
           /\ Busy' \subseteq Busy \cup {x}
<1>1. /\ session'[x] = new
      /\ \A y \in Session \ {x} : session'[y] = session[y]
      /\ session' = [y \in Session |-> session'[y]]
    BY DEF Parts, Sessions, Moves
<1>2. Sessions'
    <2>1. \A y \in Session : Typed(session'[y])
        BY <1>1 DEF Moves, Parts, Sessions
    <2>2. \A y \in Session : Typed(session[y])'
        BY <2>1 DEF Typed, Entry, Shape, View, InRedis, WrapsFailure, Value, Idle
    <2> QED BY <1>1, <2>2 DEF Sessions
<1>3. \A y \in Session \ {x} : (y \in Busy' <=> y \in Busy)
    BY <1>1 DEF Busy
<1>4. Locks'
    <2> SUFFICES ASSUME NEW k \in Key
                 PROVE  /\ \A y \in holder'[k] : y \in Busy' /\ session'[y].op = "read" /\ session'[y].key = {k}
                        /\ \A y, z \in holder'[k] : y = z
        BY DEF Moves, Locks
    <2>1. \A y \in holder'[k] : y # x => y \in holder[k]
        BY DEF Moves
    <2>2. x \in holder'[k] => x \in Busy'
        BY <1>1 DEF Moves, Busy, Idle
    <2>3. \A y \in holder[k] : y \in Busy /\ session[y].op = "read" /\ session[y].key = {k} /\ y \in Session
        BY DEF Parts, Locks, Busy
    <2>4. \A y \in holder[k], z \in holder[k] : y = z
        BY DEF Parts, Locks
    <2>5. x \in holder'[k] => holder'[k] = {x} /\ session'[x].op = "read" /\ session'[x].key = {k}
        BY <1>1 DEF Moves
    <2> QED BY <1>1, <1>3, <2>1, <2>2, <2>3, <2>4, <2>5
<1>5. \A y \in Session : Owned(y)'
    <2> SUFFICES ASSUME NEW y \in Session, NEW k \in session'[y].key, session'[y].op = "read",
                        Locked(k), session'[y].pc \in {"fetch", "store", "write"}
                 PROVE  y \in holder'[k]
        BY DEF Owned, Locked
    <2>1. k \in Key
        BY <1>2 DEF Sessions, Typed, View
    <2>2. CASE y = x
        BY <1>1, <2>2 DEF Moves
    <2>3. CASE y # x
        <3>1. y \in holder[k]
            BY <1>1, <2>3 DEF Parts, Owned
        <3> QED BY <2>1, <2>3, <3>1 DEF Moves
    <2> QED BY <2>2, <2>3
<1>6. Busy' \subseteq Busy \cup {x}
    BY <1>3 DEF Busy
<1> QED BY <1>1, <1>2, <1>4, <1>5, <1>6

\* It does not begin or go over to something else.
Proceeds(x, new) == Moves(x, new) /\ (new = Idle \/ new.op = session[x].op)

\* It leaves nothing between the layers that it alone could set right.
LeavesNothing(x) ==
    \A k \in Key \ behind' :
        session[x].pc = "redis" \/ (session[x].op = "refresh" /\ At(x, "write", k)) => redis[k] = Nothing

LEMMA IdleFacts ==
    /\ Idle.op = "none" /\ Idle.pc = "idle" /\ Idle.key = {} /\ Idle.got = Nothing /\ Idle.todo = {}
    /\ Shape(Idle) /\ Idle \in View
BY CacheAssumption DEF Idle, Shape, View, Value, Nothing

LEMMA OthersStand ==
    ASSUME Parts, ~mixed, NEW x \in Session, NEW new, Proceeds(x, new),
           \A y \in Session \ {x} : session'[y] = session[y],
           session'[x] = new, Busy' \subseteq Busy \cup {x}
    PROVE  \A y, z \in Busy' : y # z => Apart(session'[y], session'[z])
<1>1. \A y \in Busy' : y \in Busy /\ session'[y].op = session[y].op
    <2> SUFFICES ASSUME NEW y \in Busy' PROVE y \in Busy /\ session'[y].op = session[y].op
        OBVIOUS
    <2>1. CASE y # x
        BY <2>1 DEF Busy
    <2>2. CASE y = x
        BY <2>2, IdleFacts, Shapes DEF Busy, Proceeds, Moves, Typed
    <2> QED BY <2>1, <2>2
<1> QED BY <1>1 DEF Parts, Quiet, Apart

\* What the caches then are suits everyone.
LEMMA ProceedKeeps ==
    ASSUME Parts, NEW x \in Session, NEW new, Proceeds(x, new), UNCHANGED <<tmdb, cleared>>, Plain',
           ~mixed' => /\ ~mixed /\ new.op # "clear"
                      /\ FreshView(new)
                      /\ \A y \in Session : session[y].op = "clear" => Past(new, session[y])
                      /\ Backed(new)'
                      /\ \A y \in Session \ {x} : Backed(session[y])' /\ FreshCaches(session[y])'
                      /\ \A k \in Key : Layered(k)' /\ Fresh(redis'[k], cleared[k]) /\ Fresh(row'[k], cleared[k])
    PROVE  CacheInvariant'
<1>1. Moves(x, new)
    BY DEF Proceeds
<1>2. /\ Locks' /\ Sessions' /\ \A y \in Session : Owned(y)'
      /\ session'[x] = new /\ Busy' \subseteq Busy \cup {x}
      /\ \A y \in Session \ {x} : session'[y] = session[y]
    BY <1>1, MovedTypes
<1>3. ASSUME ~mixed' PROVE Quiet'
    <2>1. \A y, z \in Busy' : y # z => Apart(session'[y], session'[z])
        BY <1>2, <1>3, OthersStand
    <2>2. new.op # "clear"
        BY <1>3
    <2>3. \A y \in Session : Backed(session[y])'
        BY <1>2, <1>3 DEF Backed
    <2>4. \A y \in Session : FreshView(session[y])' /\ FreshCaches(session[y])'
        <3>1. \A y \in Session : FreshView(session'[y])
            BY <1>2, <1>3 DEF Parts, Quiet
        <3>2. FreshCaches(session[x])'
            BY <1>2, <2>2 DEF FreshCaches
        <3> QED BY <1>3, <3>1, <3>2 DEF FreshView, Fresh
    <2>5. \A y, z \in Session : session'[y].op = "clear" => Past(session'[z], session'[y])
        BY <1>2, <1>3, <2>2 DEF Parts, Quiet
    <2>6. \A k \in Key : Layered(k)' /\ Fresh(redis'[k], cleared'[k]) /\ Fresh(row'[k], cleared'[k])
        BY <1>3
    <2> QED BY <2>1, <2>3, <2>4, <2>5, <2>6 DEF Quiet, Fresh, Past, Apart
<1>4. Parts'
    BY <1>2, <1>3 DEF Parts
<1> QED BY <1>4, PartsKept

\* A session goes on with what it has in hand, and the caches stay as they are.
LEMMA AdvanceKeeps ==
    ASSUME Parts, NEW x \in Session, NEW new, Proceeds(x, new),
           UNCHANGED <<tmdb, redis, row, cleared>>, mixed' \in BOOLEAN,
           behind \subseteq behind', behind' \subseteq Key,
           ~mixed' => /\ ~mixed /\ LeavesNothing(x) /\ new.op # "clear"
                      /\ Backed(new) /\ FreshView(new)
                      /\ \A y \in Session : session[y].op = "clear" => Past(new, session[y])
    PROVE  CacheInvariant'
<1>1. Plain'
    BY DEF Parts, Plain, Entry
<1>2. /\ session'[x] = new
      /\ \A y \in Session \ {x} : session'[y] = session[y]
    BY DEF Proceeds, Moves, Parts, Sessions
<1>3. ASSUME ~mixed'
      PROVE  /\ Backed(new)'
             /\ \A y \in Session \ {x} : Backed(session[y])' /\ FreshCaches(session[y])'
             /\ \A k \in Key : Layered(k)' /\ Fresh(redis'[k], cleared[k]) /\ Fresh(row'[k], cleared[k])
    <2>1. Backed(new)'
        BY <1>3 DEF Backed, Locked, Fixed
    <2>2. ASSUME NEW y \in Session \ {x} PROVE Backed(session[y])' /\ FreshCaches(session[y])'
        <3>1. Backed(session'[y]) /\ FreshCaches(session'[y])
            BY <1>2, <1>3 DEF Parts, Quiet
        <3> QED BY <3>1 DEF Backed, FreshCaches, Fresh, Locked, Fixed, InRedis
    <2>3. ASSUME NEW k \in Key PROVE Layered(k)' /\ Fresh(redis'[k], cleared[k]) /\ Fresh(row'[k], cleared[k])
        <3>1. Layered(k) /\ Fresh(redis'[k], cleared[k]) /\ Fresh(row'[k], cleared[k])
            BY <1>3 DEF Parts, Quiet
        <3>2. CASE redis[k] \in {Nothing, row[k]}
            BY <3>1, <3>2 DEF Layered
        <3>3. CASE redis[k] \notin {Nothing, row[k]} /\ k \notin behind'
            <4>1. k \in Key \ behind' /\ k \notin behind /\ redis[k] # Nothing
                BY <3>3
            <4>2. session[x].pc # "redis" /\ ~(session[x].op = "refresh" /\ At(x, "write", k))
                BY <1>3, <4>1 DEF LeavesNothing
            <4>3. \A y \in Session :
                     /\ session[y].pc = "redis" => session'[y].pc = "redis"
                     /\ session[y].op = "refresh" /\ At(y, "write", k)
                            => session'[y].op = "refresh" /\ At(y, "write", k)'
                BY <1>2, <4>2 DEF At
            <4> QED BY <3>1, <4>1, <4>3 DEF Layered, Fixed, InRedis
        <3> QED BY <3>1, <3>2, <3>3 DEF Layered
    <2> QED BY <2>1, <2>2, <2>3
<1> QED BY <1>1, <1>3, ProceedKeeps

LEMMA Filling ==
    ASSUME Parts, NEW x \in Session, NEW k \in session[x].key,
           session[x].op # "clear" \/ session[x].pc \notin {"redis", "files"}
    PROVE  /\ k \in Key /\ session[x] \in View /\ Typed(session[x]) /\ Owned(x)
           /\ session[x].key = {k} /\ session[x].op \in {"read", "refresh"}
           /\ session[x].pc \in {"look", "row", "prime", "wait"} => session[x].op = "read"
           /\ session[x].pc \in {"row", "prime", "write"} => InRedis(k)
           /\ session[x].op = "read" => session[x].todo = {}
           /\ session[x].op = "refresh" => InRedis(k) /\ k \in Default
           /\ session[x].op # "read" => \A j \in Key : x \notin holder[j]
<1>1. session[x] \in View /\ Typed(session[x]) /\ Owned(x) /\ Shape(session[x])
    BY DEF Parts, Sessions, Typed
<1>2. session[x].op \in {"read", "refresh"}
    BY <1>1, Shapes DEF Shape, Idle
<1>3. /\ k \in Key /\ session[x].key = {k}
      /\ session[x].pc \in {"look", "row", "prime", "wait"} => session[x].op = "read"
      /\ session[x].op = "read" => session[x].todo = {}
    BY <1>1, <1>2, Shapes DEF View
<1>4. session[x].op = "refresh" => k \in Default /\ InRedis(k)
    <2>1. session[x].op = "refresh" => k \in Default
        BY <1>1, <1>3, Shapes
    <2> QED BY <2>1, CacheAssumption DEF InRedis
<1>5. session[x].pc \in {"row", "prime", "write"} => InRedis(k)
    <2>1. CASE session[x].op = "read"
        <3>1. PICK j \in Key :
                  /\ session[x].key = {j}
                  /\ session[x].pc \in {"look", "wait", "fetch", "store"}
                                      \cup IF InRedis(j) THEN {"row", "prime", "write"} ELSE {}
            BY <1>1, <2>1 DEF Shape, Idle
        <3>2. j = k
            BY <1>3, <3>1
        <3> QED BY <3>1, <3>2
    <2> QED BY <1>2, <1>4, <2>1
<1>6. session[x].op # "read" => \A j \in Key : x \notin holder[j]
    BY DEF Parts, Locks
<1> QED BY <1>1, <1>2, <1>3, <1>4, <1>5, <1>6

\* Jobs are alone, and readers have readers and a clear beside them.
LEMMA Company ==
    ASSUME Parts, ~mixed, NEW x \in Session, NEW y \in Session \ {x}
    PROVE  /\ session[x].op = "read" => session[y].op \in {"none", "read", "clear"}
           /\ session[x].op \in {"refresh", "persist"} => session[y] = Idle
<1>1. Shape(session[x]) /\ Shape(session[y])
    BY DEF Parts, Sessions, Typed
<1>2. session[x].op # "none" /\ session[y].op # "none"
          => Apart(session[x], session[y]) /\ Apart(session[y], session[x])
    BY IdleFacts DEF Parts, Quiet, Busy
<1> QED BY <1>1, <1>2, Shapes DEF Apart

LEMMA RedisFilled ==
    ASSUME Parts, NEW x \in Session, NEW new, Proceeds(x, new), NEW k \in Key, InRedis(k),
           At(x, "prime", k) \/ At(x, "write", k),
           redis' = [redis EXCEPT ![k] = session[x].got], UNCHANGED <<tmdb, row, cleared, mixed>>,
           behind' = behind \/ (session[x].op = "refresh" /\ behind' = behind \ {k}),
           new.op # "refresh" \/ new.pc = "fetch",
           ~mixed' => /\ Backed(new) /\ FreshView(new) /\ new.op \notin {"persist", "clear"}
                      /\ \A y \in Session : session[y].op = "clear" => Past(new, session[y])
    PROVE  CacheInvariant'
<1>1. /\ session'[x] = new
      /\ \A y \in Session \ {x} : session'[y] = session[y]
      /\ session[x].op \in {"read", "refresh"}
      /\ Entry(k, session[x].got)
    BY Shapes DEF Proceeds, Moves, Parts, Sessions, Typed, At
<1>2. /\ redis' = [j \in Key |-> redis'[j]]
      /\ redis'[k] = session[x].got /\ \A j \in Key \ {k} : redis'[j] = redis[j]
    BY DEF Parts, Plain
<1>3. Plain'
    BY <1>1, <1>2 DEF Parts, Plain, Entry, InRedis, WrapsFailure
<1>4. ASSUME ~mixed
      PROVE  /\ Backed(new)'
             /\ \A y \in Session \ {x} : Backed(session[y])' /\ FreshCaches(session[y])'
             /\ \A j \in Key : Layered(j)' /\ Fresh(redis'[j], cleared[j]) /\ Fresh(row'[j], cleared[j])
    <2>1. Backed(new)'
        <3>1. CASE behind' = behind
            BY <1>4, <3>1 DEF Backed, Locked, Fixed
        <3>2. CASE session[x].op = "refresh"
            <4>1. new.op # "read" /\ new.pc \notin {"prime", "write"} /\ new.op # "persist"
                BY <1>4, <3>2, IdleFacts DEF Proceeds
            <4> QED BY <4>1 DEF Backed
        <3> QED BY <3>1, <3>2
    <2>2. ASSUME NEW y \in Session \ {x} PROVE Backed(session[y])' /\ FreshCaches(session[y])'
        <3>1. session[y].op # "persist"
            BY <1>1, <1>4, Company, IdleFacts
        <3>2. Backed(session'[y]) /\ FreshCaches(session'[y])
            BY <1>1, <1>4 DEF Parts, Quiet
        <3>3. session[y].op = "clear" => k \in session[y].key \/ Fresh(session[x].got, session[y].got)
            BY <1>1, <1>4 DEF Parts, Quiet, Past, At
        <3>4. Backed(session[y])'
            <4>1. CASE behind' = behind
                BY <1>1, <3>1, <3>2, <4>1 DEF Backed, Locked, Fixed
            <4>2. CASE session[x].op = "refresh"
                <5>1. session'[y] = Idle
                    BY <1>1, <1>4, <4>2, Company
                <5> QED BY <5>1, IdleFacts DEF Backed
            <4> QED BY <4>1, <4>2
        <3>5. FreshCaches(session[y])'
            BY <1>1, <1>2, <3>2, <3>3 DEF FreshCaches, Fresh, InRedis
        <3> QED BY <3>4, <3>5
    <2>3. ASSUME NEW j \in Key PROVE Layered(j)' /\ Fresh(redis'[j], cleared[j]) /\ Fresh(row'[j], cleared[j])
        <3>1. Layered(j) /\ Fresh(redis'[j], cleared[j]) /\ Fresh(row'[j], cleared[j])
            BY <1>2, <1>4 DEF Parts, Quiet, FreshView, At
        <3>2. CASE j = k
            <4>1. Fixed(k) /\ k \notin behind' => row[k] = session[x].got
                BY <1>4 DEF Parts, Quiet, Backed, At
            <4> QED BY <1>2, <3>1, <3>2, <4>1 DEF Layered, Fixed, InRedis
        <3>3. CASE j # k
            <4>1. session[x].pc # "redis" /\ ~At(x, "write", j)
                BY <3>3, Shapes DEF Parts, Sessions, Typed, At
            <4>2. \A y \in Session :
                     /\ session[y].pc = "redis" => session'[y].pc = "redis"
                     /\ session[y].op = "refresh" /\ At(y, "write", j)
                            => session'[y].op = "refresh" /\ At(y, "write", j)'
                BY <1>1, <4>1 DEF At
            <4> QED BY <1>2, <3>1, <3>3, <4>2 DEF Layered, Fixed, InRedis
        <3> QED BY <3>2, <3>3
    <2> QED BY <2>1, <2>2, <2>3
<1> QED BY <1>1, <1>3, <1>4, ProceedKeeps

LEMMA RowFilled ==
    ASSUME Parts, NEW x \in Session, NEW new, Proceeds(x, new), NEW k \in Key, At(x, "store", k),
           row' = [row EXCEPT ![k] = session[x].got], UNCHANGED <<tmdb, redis, cleared, behind, mixed>>,
           \/ new = Idle /\ ~InRedis(k)
           \/ /\ new.op = session[x].op /\ new.pc = "write" /\ new.key = {k}
              /\ new.got = session[x].got
    PROVE  CacheInvariant'
<1>1. /\ session'[x] = new
      /\ \A y \in Session \ {x} : session'[y] = session[y]
      /\ session[x].op \in {"read", "refresh"} /\ session[x].key = {k}
      /\ Entry(k, session[x].got)
    BY Shapes DEF Proceeds, Moves, Parts, Sessions, Typed, At
<1>2. /\ row' = [j \in Key |-> row'[j]]
      /\ row'[k] = session[x].got /\ \A j \in Key \ {k} : row'[j] = row[j]
    BY DEF Parts, Plain
<1>3. Plain'
    BY <1>1, <1>2 DEF Parts, Plain, Entry, InRedis, WrapsFailure
<1>4. ASSUME ~mixed
      PROVE  /\ Backed(new)' /\ FreshView(new)
             /\ \A y \in Session : session[y].op = "clear" => Past(new, session[y])
             /\ \A y \in Session \ {x} : Backed(session[y])' /\ FreshCaches(session[y])'
             /\ \A j \in Key : Layered(j)' /\ Fresh(redis'[j], cleared[j]) /\ Fresh(row'[j], cleared[j])
    <2>1. /\ Backed(session[x]) /\ FreshView(session[x])
          /\ \A y \in Session : session[y].op = "clear" => Past(session[x], session[y])
        BY <1>4 DEF Parts, Quiet
    <2>2. Backed(new)'
        BY <1>1, <1>2, IdleFacts DEF Backed, Fixed
    <2>3. /\ FreshView(new)
          /\ \A y \in Session : session[y].op = "clear" => Past(new, session[y])
        BY <1>1, <2>1, IdleFacts DEF FreshView, Past, Fresh, Nothing, Empty
    <2>4. ASSUME NEW y \in Session \ {x} PROVE Backed(session[y])' /\ FreshCaches(session[y])'
        <3>1. Backed(session'[y]) /\ FreshCaches(session'[y])
            BY <1>1, <1>4 DEF Parts, Quiet
        <3>2. FreshCaches(session[y])'
            BY <1>1, <1>2, <2>1, <3>1 DEF FreshCaches, Past, Fresh, InRedis
        <3>3. session[y].op \notin {"persist", "refresh"}
            BY <1>1, <1>4, Company, IdleFacts
        <3>4. CASE k \notin session[y].key
            <4>1. \A j \in session[y].key : row'[j] = row[j]
                BY <1>2, <3>4 DEF Parts, Sessions, Typed, View
            <4>2. Backed(session[y])'
                BY <1>1, <3>1, <3>3, <4>1 DEF Backed, Locked, Fixed
            <4> QED BY <3>2, <4>2
        <3>5. CASE k \in session[y].key
            <4>0. CASE session[y].op = "clear"
                <5>1. session[y].pc \notin {"prime", "write"}
                    BY <4>0, Shapes DEF Parts, Sessions, Typed
                <5>2. Backed(session[y])'
                    BY <1>1, <4>0, <5>1 DEF Backed
                <5> QED BY <3>2, <5>2
            <4> SUFFICES ASSUME session[y].op # "clear"
                         PROVE  Backed(session[y])' /\ FreshCaches(session[y])'
                BY <4>0
            <4>1. session[y].op = "read" /\ session[y].key = {k} /\ session[x].op = "read"
                BY <1>1, <1>4, <3>3, <3>5, Shapes, Filling, Company, IdleFacts
            <4>2. Locked(k) => session[y].pc \notin {"fetch", "store", "write"}
                BY <1>1, <4>1 DEF Parts, Owned, Locks, At
            <4>3. Fixed(k) => Locked(k)
                BY DEF Fixed, Locked
            <4>4. Fixed(k) /\ k \notin behind => row[k] = Nothing
                BY <1>1, <2>1, <4>1 DEF Backed, At
            <4>5. Fixed(k) /\ k \notin behind => session[y].pc # "prime"
                BY <1>1, <3>1, <4>1, <4>4 DEF Backed
            <4>6. session'[y] = session[y] /\ session[y].op # "persist" /\ \A j \in session[y].key : j = k
                BY <1>1, <4>1
            <4>7. Backed(session[y])'
                BY <4>1, <4>2, <4>3, <4>5, <4>6 DEF Backed, Locked, Fixed
            <4> QED BY <3>2, <4>7
        <3> QED BY <3>2, <3>4, <3>5
    <2>5. ASSUME NEW j \in Key PROVE Layered(j)' /\ Fresh(redis'[j], cleared[j]) /\ Fresh(row'[j], cleared[j])
        <3>1. Layered(j) /\ Fresh(redis'[j], cleared[j]) /\ Fresh(row'[j], cleared[j])
            BY <1>1, <1>2, <1>4, <2>1 DEF Parts, Quiet, FreshView
        <3>2. session[x].pc # "redis" /\ ~At(x, "write", j)
            BY Shapes DEF Parts, Sessions, Typed, At
        <3>3. \A y \in Session :
                 /\ session[y].pc = "redis" => session'[y].pc = "redis"
                 /\ session[y].op = "refresh" /\ At(y, "write", j)
                        => session'[y].op = "refresh" /\ At(y, "write", j)'
            BY <1>1, <3>2 DEF At
        <3>4. CASE j # k \/ ~Fixed(k) \/ ~InRedis(k)
            BY <1>2, <3>1, <3>3, <3>4 DEF Layered, Fixed, InRedis
        <3>5. CASE j = k /\ Fixed(k) /\ InRedis(k)
            <4>1. CASE session[x].op = "refresh"
                BY <1>1, <3>1, <3>5, <4>1 DEF Layered, At
            <4>2. CASE session[x].op = "read"
                <5>1. k \notin behind => row[k] = Nothing
                    BY <1>1, <2>1, <3>5, <4>2 DEF Backed, At
                <5> QED BY <1>2, <3>1, <3>3, <3>5, <5>1 DEF Layered, Fixed, InRedis
            <4> QED BY <1>1, <4>1, <4>2
        <3> QED BY <3>4, <3>5
    <2> QED BY <2>2, <2>3, <2>4, <2>5
<1>5. new.op # "clear"
    BY <1>1, IdleFacts
<1> QED BY <1>3, <1>4, <1>5, ProceedKeeps

-----------------------------------------------------------------------------
(* The ways to go on.                                                      *)

LEMMA EndMoves ==
    ASSUME Parts, NEW x \in Session, session' = [session EXCEPT ![x] = Idle], Release(x)
    PROVE  Proceeds(x, Idle)
<1>1. Typed(Idle)
    BY IdleFacts DEF Typed, Parts, Plain, Nothing
<1>2. Moves(x, Idle)
    BY <1>1, IdleFacts DEF Moves, Release
<1> QED BY <1>2 DEF Proceeds

\* x has come to its end, or refresh_defaults goes on with the next of its keys.
Finished(x, new) ==
    \/ new = Idle
    \/ /\ session[x].op = "refresh" /\ new.op = "refresh"
       /\ new.pc = "fetch" /\ new.got = Nothing

LEMMA FinishMoves ==
    ASSUME Parts, NEW x \in Session, NEW k \in session[x].key, Finish(x),
           session[x].op # "clear" \/ session[x].pc \notin {"redis", "files"}
    PROVE  \E new \in View : Proceeds(x, new) /\ Finished(x, new)
<1>1. CASE session' = [session EXCEPT ![x] = Idle] /\ Release(x)
    BY <1>1, EndMoves, IdleFacts DEF Finished
<1>2. ASSUME NEW j \in session[x].todo, UNCHANGED holder,
             session' = [session EXCEPT ![x].pc = "fetch", ![x].key = {j}, ![x].got = Nothing,
                                        ![x].todo = @ \ {j}]
      PROVE  \E new \in View : Proceeds(x, new) /\ Finished(x, new)
    <2> DEFINE new == [session[x] EXCEPT !.pc = "fetch", !.key = {j}, !.got = Nothing, !.todo = @ \ {j}]
    <2>1. /\ session[x] \in View /\ session[x].op = "refresh"
          /\ \A i \in Key : x \notin holder[i]
          /\ Nothing <= tmdb /\ Nothing \in Value
        BY <1>2, Filling, CacheAssumption DEF Typed, Parts, Plain, Nothing, Value
    <2>2. session[x].todo \subseteq Default
        BY <2>1 DEF Parts, Sessions, Typed, Shape, Idle
    <2>3. /\ session' = [session EXCEPT ![x] = new]
          /\ new \in View /\ new.op = "refresh" /\ new.pc = "fetch" /\ new.got = Nothing
          /\ new.key = {j} /\ new.todo \subseteq Default /\ j \in Default
        BY <1>2, <2>1, <2>2, CacheAssumption DEF View, Parts, Sessions
    <2> HIDE DEF new
    <2>4. Typed(new)
        BY <2>1, <2>3 DEF Typed, Shape
    <2>5. Moves(x, new)
        BY <1>2, <2>1, <2>3, <2>4 DEF Moves, Parts, Locks
    <2> QED BY <2>1, <2>3, <2>5 DEF Proceeds, Finished
<1> QED BY <1>1, <1>2 DEF Finish

\* The step to at key k, with v in hand, is one session x may take.
MayGo(x, k, to, v) ==
    /\ session[x].op # "clear" \/ session[x].pc \notin {"redis", "files"}
    /\ to = "prime" => v # Nothing
    /\ to \in {"look", "row", "prime", "wait", "fetch", "store", "write"}
    /\ session[x].op = "refresh" => to \in {"fetch", "store", "write"}
    /\ to \in {"row", "prime", "write"} => InRedis(k)
    /\ v \in Value /\ v <= tmdb
    /\ to \in {"look", "row", "wait", "fetch"} => v = Nothing
    /\ to \in {"prime", "store", "write"} => Entry(k, v)
    /\ session[x].op = "read" /\ Locked(k) /\ to \in {"fetch", "store", "write"} => x \in holder[k]

Went(x, k, to, v, new) ==
    /\ Proceeds(x, new)
    /\ new.op = session[x].op /\ new.pc = to /\ new.key = {k} /\ new.got = v

LEMMA GoToMoves ==
    ASSUME Parts, NEW x \in Session, NEW k \in session[x].key,
           NEW to, NEW v, MayGo(x, k, to, v), UNCHANGED holder, GoTo(x, to, v)
    PROVE  \E new \in View : Went(x, k, to, v, new)
<1> DEFINE new == [session[x] EXCEPT !.pc = to, !.got = v]
<1>1. /\ session[x] \in View /\ session[x].key = {k} /\ session[x].op \in {"read", "refresh"}
      /\ Shape(session[x])
      /\ session[x].op = "read" => session[x].todo = {}
      /\ session[x].op = "refresh" => k \in Default
      /\ session[x].op # "read" => \A j \in Key : x \notin holder[j]
    BY Filling DEF Typed, MayGo
<1>2. /\ session' = [session EXCEPT ![x] = new] /\ new \in View
      /\ new.op = session[x].op /\ new.pc = to /\ new.key = {k} /\ new.got = v
      /\ new.todo = session[x].todo
    BY <1>1 DEF GoTo, MayGo, View, Parts, Sessions
<1>3. session[x].op = "refresh" => session[x].todo \subseteq Default
    BY <1>1 DEF Shape, Idle
<1> HIDE DEF new
<1>4. Shape(new)
    <2>1. CASE session[x].op = "read"
        <3>1. new.pc \in {"look", "wait", "fetch", "store"}
                           \cup IF InRedis(k) THEN {"row", "prime", "write"} ELSE {}
            BY <1>2 DEF MayGo
        <3>2. /\ k \in Key /\ new.op = "read" /\ new.todo = {} /\ new.key = {k}
              /\ new.pc \in {"look", "row", "wait", "fetch"} => new.got = Nothing
              /\ new.pc = "prime" => new.got # Nothing
            BY <1>1, <1>2, <2>1, Filling DEF MayGo
        <3> QED BY <3>1, <3>2 DEF Shape
    <2>2. CASE session[x].op = "refresh"
        BY <1>1, <1>2, <1>3, <2>2 DEF Shape, MayGo
    <2> QED BY <1>1, <2>1, <2>2
<1>5. Typed(new)
    BY <1>1, <1>2, <1>4 DEF Typed, MayGo
<1>6. \A j \in Key : x \in holder[j] => session[x].op = "read" /\ j = k /\ holder[j] = {x}
    BY <1>1 DEF Parts, Locks
<1>7. holder' = holder /\ holder = [j \in Key |-> holder[j]]
    BY DEF Parts, Locks
<1>8. Moves(x, new)
    BY <1>2, <1>5, <1>6, <1>7 DEF Moves, MayGo
<1> QED BY <1>2, <1>8 DEF Proceeds, Went

\* What a reader of key k does with v
Reconsidered(k, v, new) ==
    \/ new = Idle
    \/ /\ new.op = "read" /\ new.pc \in {"wait", "fetch"} /\ new.key = {k}
       /\ new.got = Nothing
       /\ v = Nothing \/ Kind[k] = "genres"

LEMMA ConsiderMoves ==
    ASSUME Parts, NEW x \in Session, NEW k \in session[x].key,
           session[x].op = "read", NEW v, Consider(x, k, v)
    PROVE  \E new \in View :
              /\ Proceeds(x, new)
              /\ Reconsidered(k, v, new)
<1>2. CASE v # Nothing /\ ~ShouldRefresh(k, v)
    BY <1>2, FinishMoves DEF Consider, Reconsidered, Finished
<1>3. CASE ~(v # Nothing /\ ~ShouldRefresh(k, v))
    <2>1. v = Nothing \/ Kind[k] = "genres"
        BY <1>3 DEF ShouldRefresh
    <2>2. PICK to \in {"wait", "fetch"} :
              /\ GoTo(x, to, Nothing) /\ UNCHANGED holder
              /\ Locked(k) /\ to = "fetch" => x \in holder[k]
        BY <1>3 DEF Consider
    <2>3. Nothing \in Value /\ Nothing <= tmdb
        BY CacheAssumption DEF Nothing, Value, Parts, Plain
    <2>5. MayGo(x, k, to, Nothing)
        BY <2>2, <2>3 DEF MayGo
    <2>4. PICK new \in View : Went(x, k, to, Nothing, new)
        BY <2>2, <2>5, GoToMoves
    <2> QED BY <2>1, <2>4 DEF Reconsidered, Went
<1> QED BY <1>2, <1>3

-----------------------------------------------------------------------------
(* Readers: looking, waiting and fetching.                                 *)

\* What session x goes on with suits the caches.
Suits(new) ==
    /\ Backed(new) /\ FreshView(new) /\ new.op \notin {"persist", "clear"}
    /\ \A y \in Session : session[y].op = "clear" => Past(new, session[y])

LEMMA IdleSuits == Suits(Idle)
BY IdleFacts DEF Suits, Backed, FreshView, Past, Fresh, Nothing, Empty

LEMMA Considered ==
    ASSUME NEW k \in Key, NEW v, NEW new,
           Reconsidered(k, v, new),
           v = Nothing /\ Fixed(k) => row[k] = Nothing
    PROVE  Suits(new)
<1>1. CASE new = Idle
    BY <1>1, IdleSuits
<1>2. CASE new.op = "read" /\ new.pc \in {"wait", "fetch"} /\ new.key = {k} /\ new.got = Nothing
           /\ (v = Nothing \/ Kind[k] = "genres")
    <2>1. Locked(k) => Fixed(k) \/ Kind[k] = "genres"
        BY CacheAssumption DEF Locked, Fixed, Kinds
    <2>2. Backed(new)
        BY <1>2, <2>1 DEF Backed
    <2> QED BY <1>2, <2>2 DEF Suits, FreshView, Past, Fresh, Nothing, Empty
<1> QED BY <1>1, <1>2 DEF Reconsidered

LEMMA ConsiderKeeps ==
    ASSUME Parts, NEW x \in Session, NEW k \in session[x].key,
           session[x].op = "read", NEW v, Consider(x, k, v),
           ~mixed /\ v = Nothing /\ Fixed(k) => row[k] = Nothing,
           UNCHANGED <<tmdb, redis, row, mixed, behind, cleared>>
    PROVE  CacheInvariant'
<1>1. PICK new \in View :
          /\ Proceeds(x, new)
          /\ Reconsidered(k, v, new)
    BY ConsiderMoves
<1>2. ~mixed => Suits(new)
    BY <1>1, Considered, Filling
<1>3. session[x].op = "read" /\ mixed' \in BOOLEAN /\ behind' \subseteq Key
    BY Filling DEF Parts, Plain
<1>4. LeavesNothing(x)
    BY <1>3, Filling, Shapes DEF LeavesNothing, Typed
<1> QED BY <1>1, <1>2, <1>3, <1>4, AdvanceKeeps DEF Suits

\* A step of one session to another of its steps.
LEMMA GoToKeeps ==
    ASSUME Parts, NEW x \in Session, NEW k \in session[x].key, session[x].pc # "write",
           NEW to, NEW v, MayGo(x, k, to, v), to # "write",
           GoTo(x, to, v), UNCHANGED <<tmdb, redis, row, holder, mixed, behind, cleared>>,
           ~mixed => /\ Fresh(v, cleared[k])
                     /\ \A y \in Session : session[y].op = "clear"
                            => k \in session[y].key \/ Fresh(v, session[y].got)
                     /\ session[x].op = "read" =>
                           /\ to = "fetch" /\ Locked(k) => row[k] = Nothing \/ Kind[k] = "genres"
                           /\ to = "store" /\ Fixed(k) => row[k] = Nothing \/ k \in behind
                           /\ to = "prime" => row[k] = v /\ v # Nothing
    PROVE  CacheInvariant'
<1>1. PICK new \in View : Went(x, k, to, v, new)
    BY GoToMoves
<1>2. /\ session[x].op \in {"read", "refresh"} /\ mixed' \in BOOLEAN
      /\ to = "prime" => session[x].op = "read"
    BY Filling DEF MayGo, Parts, Plain
<1>3. LeavesNothing(x) /\ behind' \subseteq Key
    <2>1. session[x].pc # "redis"
        BY <1>2, Filling, Shapes DEF Typed
    <2> QED BY <2>1 DEF LeavesNothing, At, Parts, Plain
<1>4. ~mixed => Backed(new) /\ FreshView(new)
    BY <1>1, <1>2 DEF Went, Backed, FreshView
<1>5. ~mixed => \A y \in Session : session[y].op = "clear" => Past(new, session[y])
    BY <1>1 DEF Went, Past
<1> QED BY <1>1, <1>2, <1>3, <1>4, <1>5, AdvanceKeeps DEF Went

LEMMA VersionFacts ==
    ASSUME Parts
    PROVE  /\ Nothing \in Value /\ Empty \in Value /\ tmdb \in Value
           /\ Nothing <= tmdb /\ Empty <= tmdb
           /\ \A k \in Key : redis[k] \in Value /\ redis[k] <= tmdb /\ row[k] \in Value /\ row[k] <= tmdb
           /\ \A k \in Key : Entry(k, tmdb) /\ Entry(k, Nothing) /\ (WrapsFailure(k) => Entry(k, Empty))
           /\ \A v \in {Nothing, Empty} : \A w : Fresh(v, w)
           /\ \A k \in Key : Fresh(tmdb, cleared[k])
           /\ \A y \in Session : Fresh(tmdb, session[y].got)
           /\ mixed \in BOOLEAN /\ behind \subseteq Key
<1>1. /\ tmdb \in 1 .. MaxVersion /\ \A k \in Key : cleared[k] \in 1 .. tmdb
      /\ MaxVersion \in Nat /\ mixed \in BOOLEAN /\ behind \subseteq Key
    BY CacheAssumption DEF Parts, Plain
<1>2. \A k \in Key : redis[k] \in Nothing .. tmdb /\ row[k] \in Nothing .. tmdb
    BY DEF Parts, Plain, Entry
<1>3. \A y \in Session : session[y].got <= tmdb /\ session[y].got \in Value
    BY DEF Parts, Sessions, Typed, View
<1> QED BY <1>1, <1>2, <1>3 DEF Value, Nothing, Empty, Entry, Fresh

LEMMA LookKeeps ==
    ASSUME Parts, NEW x \in Session, NEW k \in Key, Look(x, k) \/ LookForFile(x, k)
    PROVE  CacheInvariant'
<1>1. At(x, "look", k) /\ UNCHANGED <<tmdb, redis, row, mixed, behind, cleared>>
    BY DEF Look, LookForFile
<1>2. k \in session[x].key /\ session[x].pc = "look" /\ session[x].op = "read"
    BY <1>1, Filling DEF At
<1>3. CASE redis[k] # Nothing /\ Consider(x, k, redis[k])
    BY <1>1, <1>2, <1>3, ConsiderKeeps
<1>4. CASE InRedis(k) /\ GoTo(x, "row", Nothing) /\ UNCHANGED holder
    <2>1. MayGo(x, k, "row", Nothing)
        BY <1>2, <1>4, VersionFacts DEF MayGo
    <2> QED BY <1>1, <1>2, <1>4, <2>1, GoToKeeps, VersionFacts
<1>5. CASE Consider(x, k, row[k])
    BY <1>1, <1>2, <1>5, ConsiderKeeps
<1> QED BY <1>3, <1>4, <1>5 DEF Look, LookForFile

LEMMA ReadRowKeeps ==
    ASSUME Parts, NEW x \in Session, NEW k \in Key, ReadRow(x, k)
    PROVE  CacheInvariant'
<1>1. At(x, "row", k) /\ UNCHANGED <<tmdb, redis, row, mixed, behind, cleared>>
    BY DEF ReadRow
<1>2. k \in session[x].key /\ session[x].pc = "row" /\ InRedis(k) /\ session[x].op = "read"
    BY <1>1, Filling DEF At
<1>3. CASE row[k] # Nothing /\ GoTo(x, "prime", row[k]) /\ UNCHANGED holder
    <2>1. ~mixed => /\ Fresh(row[k], cleared[k])
                    /\ \A y \in Session : session[y].op = "clear"
                           => k \in session[y].key \/ Fresh(row[k], session[y].got)
        BY <1>2 DEF Parts, Quiet, FreshCaches
    <2>2. MayGo(x, k, "prime", row[k])
        BY <1>2, <1>3, VersionFacts DEF Parts, Plain, MayGo
    <2> QED BY <1>1, <1>2, <1>3, <2>1, <2>2, GoToKeeps
<1>4. CASE row[k] = Nothing /\ Consider(x, k, row[k])
    BY <1>1, <1>2, <1>4, ConsiderKeeps
<1> QED BY <1>3, <1>4 DEF ReadRow

LEMMA PrimeKeeps ==
    ASSUME Parts, NEW x \in Session, NEW k \in Key, Prime(x, k)
    PROVE  CacheInvariant'
<1> DEFINE v == session[x].got
<1>1. At(x, "prime", k) /\ Consider(x, k, v) /\ UNCHANGED <<tmdb, row, mixed, behind, cleared>>
    BY DEF Prime
<1>2. k \in session[x].key /\ session[x].pc = "prime" /\ InRedis(k) /\ session[x].op = "read"
    BY <1>1, Filling DEF At
<1>3. v # Nothing
    BY <1>2 DEF Parts, Sessions, Typed, Shape, Idle
<1>4. CASE redis' = [redis EXCEPT ![k] = v]
    <2> HIDE DEF v
    <2>1. PICK new \in View : Proceeds(x, new) /\ Reconsidered(k, v, new)
        BY <1>1, <1>2, ConsiderMoves
    <2>2. ~mixed => Suits(new)
        BY <1>3, <2>1, Considered
    <2>3. new.op # "refresh" \/ new.pc = "fetch"
        BY <2>1, IdleFacts DEF Reconsidered
    <2> QED BY <1>1, <1>2, <1>4, <2>1, <2>2, <2>3, RedisFilled DEF Suits, v
<1>5. CASE UNCHANGED redis
    BY <1>1, <1>2, <1>3, <1>5, ConsiderKeeps
<1> QED BY <1>4, <1>5 DEF Prime

LEMMA AcquireKeeps ==
    ASSUME Parts, NEW x \in Session, NEW k \in Key, Acquire(x, k)
    PROVE  CacheInvariant'
<1> DEFINE new == [session[x] EXCEPT !.pc = "look", !.got = Nothing]
<1>1. /\ k \in session[x].key /\ session[x].pc = "wait" /\ holder[k] = {}
      /\ holder' = [holder EXCEPT ![k] = {x}] /\ GoTo(x, "look", Nothing)
      /\ UNCHANGED <<tmdb, redis, row, mixed, behind, cleared>>
    BY DEF Acquire, At
<1>2. /\ session[x] \in View /\ session[x].op = "read" /\ session[x].key = {k}
      /\ session[x].todo = {}
    BY <1>1, Filling
<1>3. /\ session' = [session EXCEPT ![x] = new] /\ new \in View
      /\ new.op = "read" /\ new.pc = "look" /\ new.key = {k} /\ new.got = Nothing /\ new.todo = {}
    BY <1>1, <1>2, VersionFacts DEF GoTo, View, Parts, Sessions
<1> HIDE DEF new
<1>4. Typed(new)
    BY <1>3, VersionFacts DEF Typed, Shape
<1>5. Proceeds(x, new)
    <2>1. \A j \in Key \ {k} : x \notin holder[j]
        BY <1>2 DEF Parts, Locks
    <2>2. /\ holder' = [j \in Key |-> holder'[j]]
          /\ holder'[k] = {x} /\ \A j \in Key \ {k} : holder'[j] = holder[j]
        BY <1>1 DEF Parts, Locks
    <2> QED BY <1>1, <1>2, <1>3, <1>4, <2>1, <2>2 DEF Proceeds, Moves
<1>6. Backed(new) /\ FreshView(new) /\ \A y \in Session : Past(new, session[y])
    BY <1>3, VersionFacts DEF Backed, FreshView, Past
<1>7. LeavesNothing(x) /\ mixed' \in BOOLEAN /\ behind' \subseteq Key
    BY <1>1, <1>2, VersionFacts DEF LeavesNothing
<1> QED BY <1>1, <1>3, <1>5, <1>6, <1>7, AdvanceKeeps

LEMMA FinishedSuits ==
    ASSUME Parts, ~mixed, NEW x \in Session, NEW new, Finished(x, new)
    PROVE  Suits(new)
<1>1. CASE new = Idle
    BY <1>1, IdleSuits
<1>2. CASE new.op = "refresh" /\ new.pc = "fetch" /\ new.got = Nothing
    BY <1>2, VersionFacts DEF Suits, Backed, FreshView, Past
<1> QED BY <1>1, <1>2 DEF Finished

LEMMA FinishKeeps ==
    ASSUME Parts, NEW x \in Session, NEW k \in session[x].key, session[x].pc # "write", Finish(x),
           session[x].op # "clear" \/ session[x].pc \notin {"redis", "files"},
           UNCHANGED <<tmdb, redis, row, mixed, behind, cleared>>
    PROVE  CacheInvariant'
<1>1. PICK new \in View : Proceeds(x, new) /\ Finished(x, new)
    BY FinishMoves
<1>2. ~mixed => Suits(new)
    BY <1>1, FinishedSuits
<1>3. LeavesNothing(x) /\ mixed' \in BOOLEAN /\ behind' \subseteq Key
    BY Filling, Shapes, VersionFacts DEF LeavesNothing, At, Typed
<1> QED BY <1>1, <1>2, <1>3, AdvanceKeeps DEF Suits

LEMMA FetchKeeps ==
    ASSUME Parts, NEW x \in Session, NEW k \in Key,
           Fetched(x, k) \/ FetchFailed(x, k) \/ FetchedInPart(x, k)
    PROVE  CacheInvariant'
<1>1. /\ k \in session[x].key /\ session[x].pc = "fetch"
      /\ UNCHANGED <<tmdb, redis, row, mixed, behind, cleared>>
    BY DEF Fetched, FetchFailed, FetchedInPart, At
<1>2. CASE Finish(x)
    BY <1>1, <1>2, FinishKeeps
<1>3. ASSUME NEW v \in {Empty, tmdb}, v = Empty => WrapsFailure(k), GoTo(x, "store", v), UNCHANGED holder
      PROVE  CacheInvariant'
    <2>1. MayGo(x, k, "store", v)
        <3>1. v \in Value /\ v <= tmdb /\ Entry(k, v)
            <4>1. CASE v = Empty
                <5>1. WrapsFailure(k)
                    BY <1>3, <4>1
                <5> QED BY <4>1, <5>1, VersionFacts
            <4>2. CASE v = tmdb
                BY <4>2, VersionFacts DEF Entry
            <4> QED BY <4>1, <4>2
        <3>2. session[x].op = "read" /\ Locked(k) => x \in holder[k]
            BY <1>1, Filling DEF Owned
        <3> QED BY <1>1, <3>1, <3>2 DEF MayGo
    <2>2. /\ Fresh(v, cleared[k])
          /\ \A y \in Session : Fresh(v, session[y].got)
        BY <1>3, VersionFacts
    <2>3. ~mixed /\ session[x].op = "read" /\ Fixed(k) => row[k] = Nothing \/ k \in behind
        BY <1>1 DEF Parts, Quiet, Backed, Fixed, Locked
    <2> QED BY <1>1, <1>3, <2>1, <2>2, <2>3, GoToKeeps
<1>4. tmdb # Empty
    BY DEF Parts, Plain, Empty
<1> QED BY <1>2, <1>3, <1>4 DEF Fetched, FetchFailed, FetchedInPart

LEMMA StoreKeeps ==
    ASSUME Parts, NEW x \in Session, NEW k \in Key, Store(x, k) \/ StoreFile(x, k)
    PROVE  CacheInvariant'
<1>1. /\ k \in session[x].key /\ session[x].pc = "store" /\ At(x, "store", k)
      /\ row' = [row EXCEPT ![k] = session[x].got]
      /\ UNCHANGED <<tmdb, redis, mixed, behind, cleared>>
    BY DEF Store, StoreFile, At
<1>2. CASE Store(x, k)
    <2>1. InRedis(k) /\ GoTo(x, "write", session[x].got) /\ UNCHANGED holder
        BY <1>2 DEF Store
    <2>2. MayGo(x, k, "write", session[x].got)
        BY <1>1, <2>1, Filling DEF MayGo, Owned, Typed, View
    <2>3. PICK new \in View : Went(x, k, "write", session[x].got, new)
        BY <1>1, <2>1, <2>2, GoToMoves
    <2> QED BY <1>1, <2>3, RowFilled DEF Went
<1>3. CASE StoreFile(x, k)
    <2>1. PICK new \in View : Proceeds(x, new) /\ Finished(x, new)
        BY <1>1, <1>3, FinishMoves DEF StoreFile
    <2>2. new = Idle /\ ~InRedis(k)
        BY <1>1, <1>3, <2>1, Filling DEF StoreFile, Finished
    <2> QED BY <1>1, <2>1, <2>2, RowFilled
<1> QED BY <1>2, <1>3

LEMMA WriteKeeps ==
    ASSUME Parts, NEW x \in Session, NEW k \in Key, Write(x, k)
    PROVE  CacheInvariant'
<1>1. /\ k \in session[x].key /\ session[x].pc = "write" /\ At(x, "write", k) /\ Finish(x)
      /\ UNCHANGED <<tmdb, row, mixed, cleared>>
    BY DEF Write, At
<1>2. PICK new \in View : Proceeds(x, new) /\ Finished(x, new)
    BY <1>1, FinishMoves
<1>3. ~mixed => Suits(new)
    BY <1>2, FinishedSuits
<1>4. InRedis(k) /\ session[x].key = {k} /\ session[x].op \in {"read", "refresh"}
    BY <1>1, Filling
<1>5. CASE /\ redis' = [redis EXCEPT ![k] = session[x].got]
           /\ behind' = IF session[x].op = "refresh" THEN behind \ {k} ELSE behind
    <2>1. new.op # "refresh" \/ new.pc = "fetch"
        BY <1>2, IdleFacts DEF Finished
    <2>2. behind' = behind \/ (session[x].op = "refresh" /\ behind' = behind \ {k})
        BY <1>5
    <2> QED BY <1>1, <1>2, <1>3, <1>4, <1>5, <2>1, <2>2, RedisFilled DEF Suits
<1>6. CASE UNCHANGED redis /\ behind' = IF redis[k] = Nothing THEN behind ELSE behind \cup {k}
    <2>1. mixed' \in BOOLEAN /\ behind \subseteq behind' /\ behind' \subseteq Key
        BY <1>1, <1>6, VersionFacts
    <2>2. k \notin behind' => redis[k] = Nothing
        BY <1>6
    <2>3. LeavesNothing(x)
        BY <1>1, <1>4, <2>2 DEF LeavesNothing, At
    <2> QED BY <1>1, <1>2, <1>3, <1>6, <2>1, <2>3, AdvanceKeeps DEF Suits
<1> QED BY <1>5, <1>6 DEF Write

LEMMA RaiseKeeps ==
    ASSUME Parts, NEW x \in Session, Raise(x)
    PROVE  CacheInvariant'
<1>1. /\ Proceeds(x, Idle) /\ UNCHANGED <<tmdb, redis, row, mixed, cleared>>
    BY EndMoves DEF Raise
<1>2. mixed' \in BOOLEAN /\ behind \subseteq behind' /\ behind' \subseteq Key
    BY VersionFacts DEF Raise
<1>3. LeavesNothing(x)
    BY DEF Raise, LeavesNothing
<1>4. Idle.op # "clear"
    BY IdleFacts
<1> QED BY <1>1, <1>2, <1>3, <1>4, IdleSuits, AdvanceKeeps DEF Suits

-----------------------------------------------------------------------------
(* Requests and jobs begin.                                                *)

LEMMA BeginMoves ==
    ASSUME Parts, NEW x \in Session, NEW new, Begin(x, new), Typed(new), UNCHANGED holder,
           new.op = "read" => new.pc = "look"
    PROVE  /\ Moves(x, new) /\ session[x] = Idle
           /\ mixed' \in BOOLEAN
           /\ ~mixed' => ~mixed /\ \A y \in Busy : Harmless(new.op, y)
<1>1. session[x] = Idle /\ session' = [session EXCEPT ![x] = new]
    BY DEF Begin, Busy
<1>2. \A k \in Key : x \notin holder[k]
    BY <1>1 DEF Parts, Locks, Busy
<1>3. holder' = [k \in Key |-> holder'[k]]
    BY DEF Parts, Locks
<1>4. Moves(x, new)
    BY <1>1, <1>2, <1>3 DEF Moves
<1>5. mixed' \in BOOLEAN /\ (~mixed' => ~mixed /\ \A y \in Busy : Harmless(new.op, y))
    BY DEF Begin
<1> QED BY <1>1, <1>4, <1>5

LEMMA BeginKeeps ==
    ASSUME Parts, NEW x \in Session, NEW new, Begin(x, new), Typed(new),
           new.op = "read" => new.pc = "look", new.op # "clear",
           UNCHANGED <<tmdb, redis, row, holder, behind, cleared>>,
           ~mixed => Backed(new) /\ FreshView(new), new.got = Nothing
    PROVE  CacheInvariant'
<1>1. /\ Moves(x, new) /\ session[x] = Idle /\ mixed' \in BOOLEAN
      /\ ~mixed' => ~mixed /\ \A y \in Busy : Harmless(new.op, y)
    BY BeginMoves
<1>2. Plain'
    BY <1>1 DEF Parts, Plain, Entry
<1>3. /\ Locks' /\ Sessions' /\ \A y \in Session : Owned(y)'
      /\ session'[x] = new /\ Busy' \subseteq Busy \cup {x}
      /\ \A y \in Session \ {x} : session'[y] = session[y]
    BY <1>1, <1>2, MovedTypes
<1>4. ASSUME ~mixed' PROVE Quiet'
    <2>1. \A y, z \in Busy' : y # z => Apart(session'[y], session'[z])
        <3>1. \A y, z \in Busy : y # z => Apart(session[y], session[z])
            BY <1>1, <1>4 DEF Parts, Quiet
        <3>2. \A y \in Busy : Apart(new, session[y]) /\ Apart(session[y], new)
            BY <1>1, <1>4 DEF Harmless, Apart
        <3>3. \A y \in Busy' \ {x} : y \in Busy /\ y \in Session \ {x}
            BY <1>3 DEF Busy
        <3> QED BY <1>3, <3>1, <3>2, <3>3
    <2>2. ASSUME NEW y \in Session
          PROVE  Backed(session[y])' /\ FreshView(session[y])' /\ FreshCaches(session[y])'
        <3>1. Backed(session'[y]) /\ FreshView(session'[y]) /\ FreshCaches(session'[y])
            BY <1>1, <1>3, <1>4 DEF Parts, Quiet, FreshCaches
        <3> QED BY <3>1 DEF Backed, FreshView, FreshCaches, Fresh, Locked, Fixed, InRedis
    <2>3. \A y, z \in Session : session'[y].op = "clear" => Past(session'[z], session'[y])
        <3>1. \A c : Past(new, c)
            BY VersionFacts DEF Past
        <3> QED BY <1>1, <1>3, <1>4, <3>1 DEF Parts, Quiet
    <2>4. ASSUME NEW k \in Key PROVE Layered(k)' /\ Fresh(redis'[k], cleared'[k]) /\ Fresh(row'[k], cleared'[k])
        <3>1. Layered(k) /\ Fresh(redis'[k], cleared'[k]) /\ Fresh(row'[k], cleared'[k])
            BY <1>1, <1>4 DEF Parts, Quiet
        <3>2. \A y \in Session :
                 /\ session[y].pc = "redis" => session'[y].pc = "redis"
                 /\ session[y].op = "refresh" /\ At(y, "write", k)
                        => session'[y].op = "refresh" /\ At(y, "write", k)'
            BY <1>1, <1>3, IdleFacts DEF At
        <3> QED BY <3>1, <3>2 DEF Layered, Fixed, InRedis
    <2> QED BY <2>1, <2>2, <2>3, <2>4 DEF Quiet, Fresh, Past, Apart
<1>5. Parts'
    BY <1>2, <1>3, <1>4 DEF Parts
<1> QED BY <1>5, PartsKept

LEMMA ReadKeeps ==
    ASSUME Parts, NEW x \in Session, NEW k \in Key, Read(x, k)
    PROVE  CacheInvariant'
<1> DEFINE new == [Idle EXCEPT !.op = "read", !.pc = "look", !.key = {k}]
<1>1. Begin(x, new) /\ UNCHANGED <<tmdb, redis, row, holder, behind, cleared>>
    BY DEF Read
<1>2. /\ new \in View /\ new.op = "read" /\ new.pc = "look" /\ new.key = {k}
      /\ new.got = Nothing /\ new.todo = {}
    BY VersionFacts DEF Idle, View
<1> HIDE DEF new
<1>3. Typed(new)
    BY <1>2, VersionFacts DEF Typed, Shape
<1>4. Backed(new) /\ FreshView(new)
    BY <1>2, VersionFacts DEF Backed, FreshView
<1> QED BY <1>1, <1>2, <1>3, <1>4, BeginKeeps

LEMMA Refreshing ==
    ASSUME Parts, NEW k \in Default
    PROVE  LET new == [Idle EXCEPT !.op = "refresh", !.pc = "fetch", !.key = {k}, !.todo = Default \ {k}]
           IN  /\ Typed(new) /\ new.op = "refresh" /\ new.pc = "fetch" /\ new.key = {k}
               /\ new.got = Nothing
<1> DEFINE new == [Idle EXCEPT !.op = "refresh", !.pc = "fetch", !.key = {k}, !.todo = Default \ {k}]
<1>1. /\ new \in View /\ new.op = "refresh" /\ new.pc = "fetch" /\ new.key = {k}
      /\ new.got = Nothing /\ new.todo \subseteq Default
    BY VersionFacts, CacheAssumption DEF Idle, View
<1> HIDE DEF new
<1>2. Typed(new)
    BY <1>1, VersionFacts DEF Typed, Shape
<1> QED BY <1>1, <1>2 DEF new

LEMMA RefreshKeeps ==
    ASSUME Parts, NEW x \in Session, Refresh(x)
    PROVE  CacheInvariant'
<1>1. PICK k \in Default :
          Begin(x, [Idle EXCEPT !.op = "refresh", !.pc = "fetch", !.key = {k}, !.todo = Default \ {k}])
    BY DEF Refresh
<1> DEFINE new == [Idle EXCEPT !.op = "refresh", !.pc = "fetch", !.key = {k}, !.todo = Default \ {k}]
<1>2. /\ Begin(x, new) /\ UNCHANGED <<tmdb, redis, row, holder, behind, cleared>>
    BY <1>1 DEF Refresh
<1>3. Typed(new) /\ new.op = "refresh" /\ new.pc = "fetch" /\ new.key = {k} /\ new.got = Nothing
    BY Refreshing
<1> HIDE DEF new
<1>4. Backed(new) /\ FreshView(new)
    BY <1>3, VersionFacts DEF Backed, FreshView
<1> QED BY <1>2, <1>3, <1>4, BeginKeeps

LEMMA SnapshotKeeps ==
    ASSUME Parts, NEW x \in Session, Snapshot(x)
    PROVE  CacheInvariant'
<1> DEFINE new == [Idle EXCEPT !.op = "persist", !.pc = "upsert", !.copy = redis]
<1>1. Begin(x, new) /\ UNCHANGED <<tmdb, redis, row, holder, behind, cleared>>
    BY DEF Snapshot
<1>2. redis \in [Key -> Value]
    BY VersionFacts DEF Parts, Plain
<1>3. /\ new \in View /\ new.op = "persist" /\ new.pc = "upsert" /\ new.key = {}
      /\ new.got = Nothing /\ new.copy = redis
    BY <1>2, VersionFacts DEF Idle, View
<1> HIDE DEF new
<1>4. Typed(new)
    BY <1>2, <1>3, VersionFacts DEF Typed, Shape, Parts, Plain
<1>5. ~mixed => Backed(new) /\ FreshView(new)
    BY <1>3, VersionFacts DEF Backed, FreshView, Parts, Quiet
<1> QED BY <1>1, <1>3, <1>4, <1>5, BeginKeeps

-----------------------------------------------------------------------------
(* The jobs' writes and the clear.                                         *)

LEMMA UpsertKeeps ==
    ASSUME Parts, NEW x \in Session, Upsert(x)
    PROVE  CacheInvariant'
<1>1. /\ session[x].pc = "upsert" /\ session' = [session EXCEPT ![x] = Idle]
      /\ row' = [k \in Key |-> IF session[x].copy[k] = Nothing THEN row[k] ELSE session[x].copy[k]]
      /\ behind' = {} /\ UNCHANGED <<tmdb, redis, holder, mixed, cleared>>
    BY DEF Upsert
<1>2. session[x].op = "persist" /\ Typed(session[x])
    BY <1>1, Shapes DEF Parts, Sessions, Typed
<1>3. \A k \in Key : x \notin holder[k]
    BY <1>2 DEF Parts, Locks
<1>4. Proceeds(x, Idle)
    <2>1. Typed(Idle)
        BY IdleFacts DEF Typed, Parts, Plain, Nothing
    <2>2. holder' = [k \in Key |-> holder'[k]]
        BY <1>1 DEF Parts, Locks
    <2> QED BY <1>1, <1>3, <2>1, <2>2, IdleFacts DEF Proceeds, Moves
<1>5. \A k \in Key : Entry(k, session[x].copy[k])
    BY <1>2 DEF Typed
<1>6. Plain'
    BY <1>1, <1>5 DEF Parts, Plain, Entry, WrapsFailure, InRedis
<1>7. /\ session'[x] = Idle
      /\ \A y \in Session \ {x} : session'[y] = session[y]
    BY <1>1 DEF Parts, Sessions
<1>8. ASSUME ~mixed
      PROVE  /\ Backed(Idle)'
             /\ \A y \in Session \ {x} : Backed(session[y])' /\ FreshCaches(session[y])'
             /\ \A k \in Key : Layered(k)' /\ Fresh(redis'[k], cleared[k]) /\ Fresh(row'[k], cleared[k])
    <2>1. Backed(Idle)'
        BY IdleFacts DEF Backed, Idle
    <2>2. \A y \in Session \ {x} : session'[y] = Idle
        BY <1>2, <1>7, <1>8, Company
    <2>3. \A y \in Session \ {x} : Backed(session[y])' /\ FreshCaches(session[y])'
        BY <2>2, IdleFacts DEF Backed, FreshCaches
    <2>4. ASSUME NEW k \in Key PROVE Layered(k)' /\ Fresh(redis'[k], cleared[k]) /\ Fresh(row'[k], cleared[k])
        <3>1. /\ redis[k] \in {Nothing, session[x].copy[k]} /\ Fresh(session[x].copy[k], cleared[k])
              /\ Fresh(redis[k], cleared[k]) /\ Fresh(row[k], cleared[k])
            BY <1>2, <1>8 DEF Parts, Quiet, Backed, FreshView
        <3> QED BY <1>1, <3>1 DEF Layered
    <2> QED BY <2>1, <2>3, <2>4
<1>9. FreshView(Idle) /\ \A y \in Session : Past(Idle, session[y])
    BY IdleFacts DEF FreshView, Past
<1> QED BY <1>1, <1>4, <1>6, <1>8, <1>9, IdleFacts, ProceedKeeps

LEMMA ClearRowsKeeps ==
    ASSUME Parts, NEW x \in Session, ClearRows(x)
    PROVE  CacheInvariant'
<1> DEFINE new == [Idle EXCEPT !.op = "clear", !.pc = "redis", !.key = InHand, !.got = tmdb]
<1>1. /\ Begin(x, new)
      /\ row' = [k \in Key |-> IF InRedis(k) THEN Nothing ELSE row[k]]
      /\ behind' = behind \cup InHand
      /\ UNCHANGED <<tmdb, redis, holder, cleared>>
    BY DEF ClearRows
<1>0. InHand \subseteq Key
    BY DEF InHand
<1>2. /\ new \in View /\ new.op = "clear" /\ new.pc = "redis" /\ new.key = InHand /\ new.got = tmdb
    BY <1>0, VersionFacts DEF Idle, View
<1> HIDE DEF new
<1>3. Typed(new)
    BY <1>2, VersionFacts DEF Typed, Shape, Parts, Plain, Empty
<1>4. /\ Moves(x, new) /\ session[x] = Idle /\ mixed' \in BOOLEAN
      /\ ~mixed' => ~mixed /\ \A y \in Busy : Harmless(new.op, y)
    BY <1>1, <1>2, <1>3, BeginMoves
<1>5. Plain'
    BY <1>0, <1>1, <1>4, VersionFacts DEF Parts, Plain, Entry, WrapsFailure, InRedis
<1>6. /\ Locks' /\ Sessions' /\ \A y \in Session : Owned(y)'
      /\ session'[x] = new /\ Busy' \subseteq Busy \cup {x}
      /\ \A y \in Session \ {x} : session'[y] = session[y]
    BY <1>1, <1>4, <1>5, MovedTypes
<1>7. ASSUME ~mixed' PROVE Quiet'
    <2>1. ~mixed /\ \A y \in Busy : session[y].op = "read"
        BY <1>2, <1>4, <1>7 DEF Harmless
    <2>2. \A y \in Session \ {x} : session[y] = Idle \/ session[y].op = "read"
        BY <2>1 DEF Busy
    <2>3. \A y, z \in Busy' : y # z => Apart(session'[y], session'[z])
        <3>1. \A y \in Busy' \ {x} : session'[y].op = "read"
            BY <1>6, <2>1 DEF Busy
        <3>2. session'[x].op = "clear"
            BY <1>2, <1>6
        <3> QED BY <3>1, <3>2 DEF Apart
    <2>4. ASSUME NEW y \in Session \ {x} PROVE Backed(session[y])' /\ FreshView(session[y])'
        <3>1. Backed(session[y]) /\ FreshView(session[y]) /\ session'[y] = session[y]
            BY <1>6, <2>1 DEF Parts, Quiet
        <3>2. session[y].op \notin {"persist", "refresh"}
            BY <2>2, IdleFacts
        <3>3. FreshView(session[y])'
            BY <1>1, <3>1 DEF FreshView, Fresh
        <3>4. session[y].key \subseteq Key
            BY DEF Parts, Sessions, Typed, View
        <3>5. \A k \in session[y].key : k \notin behind' => session[y].pc \notin {"prime", "store", "write"}
            BY <1>1, <3>4 DEF InHand
        <3>6. \A k \in session[y].key : row[k] = Nothing => row'[k] = Nothing
            BY <1>1, <3>4
        <3>7. Backed(session[y])'
            BY <3>1, <3>2, <3>5, <3>6 DEF Backed, Locked, Fixed
        <3> QED BY <3>3, <3>7
    <2>5. Backed(session[x])' /\ FreshView(session[x])'
        <3>1. \A k \in Key : Fresh(tmdb, cleared'[k])
            BY <1>1, VersionFacts
        <3> QED BY <1>0, <1>2, <1>6, <3>1 DEF Backed, FreshView, Fresh
    <2>6. ASSUME NEW y \in Session PROVE FreshCaches(session[y])'
        <3>1. CASE y # x
            BY <1>6, <2>2, <3>1, IdleFacts DEF FreshCaches
        <3>2. CASE y = x
            <4>1. \A k \in Key : tmdb >= cleared'[k]
                BY <1>1 DEF Parts, Plain
            <4>2. \A k \in Key : InRedis(k) => row'[k] = Nothing
                BY <1>1
            <4>3. session'[x].got = tmdb /\ session'[x].pc = "redis"
                BY <1>2, <1>6
            <4> QED BY <3>2, <4>1, <4>2, <4>3 DEF FreshCaches, Fresh, InRedis, Nothing, Empty
        <3> QED BY <3>1, <3>2
    <2>7. \A y, z \in Session : session'[y].op = "clear" => Past(session'[z], session'[y])
        <3>1. \A y \in Session : session'[y].op = "clear" => y = x
            BY <1>6, <2>2, IdleFacts
        <3>2. ASSUME NEW z \in Session \ {x} PROVE Past(session'[z], new)
            <4>1. CASE session[z] = Idle
                BY <1>6, <4>1, IdleFacts DEF Past
            <4>2. CASE session[z].op = "read"
                <5>1. /\ session[z].key \subseteq Key
                      /\ session[z].pc \in {"look", "row", "wait", "fetch"} => session[z].got = Nothing
                      /\ session[z].pc \in {"look", "row", "prime", "wait", "fetch", "store", "write"}
                    BY <4>2, Shapes DEF Parts, Sessions, Typed, View, Shape, Idle
                <5>2. \A k \in session[z].key \ new.key : session[z].pc \notin {"prime", "store", "write"}
                    BY <1>2, <5>1 DEF InHand
                <5> QED BY <1>6, <5>1, <5>2, VersionFacts DEF Past
            <4> QED BY <2>2, <4>1, <4>2
        <3>3. Past(new, new)
            BY DEF Past
        <3> QED BY <1>6, <3>1, <3>2, <3>3
    <2>8. \A k \in Key : Layered(k)'
        BY <1>2, <1>6 DEF Layered
    <2>9. \A k \in Key : Fresh(redis'[k], cleared'[k]) /\ Fresh(row'[k], cleared'[k])
        BY <1>1, <2>1, VersionFacts DEF Parts, Quiet
    <2> QED BY <2>3, <2>4, <2>5, <2>6, <2>7, <2>8, <2>9 DEF Quiet, Fresh, Past, Apart
<1>8. Parts'
    BY <1>5, <1>6, <1>7 DEF Parts
<1> QED BY <1>8, PartsKept

\* A clear has readers beside it.
LEMMA ClearCompany ==
    ASSUME Parts, ~mixed, NEW x \in Session, session[x].op = "clear", NEW y \in Session \ {x}
    PROVE  session[y] = Idle \/ session[y].op = "read"
<1>1. session[x] # Idle
    BY IdleFacts
<1> QED BY <1>1 DEF Parts, Quiet, Busy, Apart

\* A clear has come to the files: what Redis has kept, it knows of.
LEMMA ComesToFiles ==
    ASSUME Parts, NEW x \in Session, session[x].pc = "redis", NEW kept \in SUBSET Key,
           NEW new \in View, session' = [session EXCEPT ![x] = new],
           new.op = session[x].op, new.pc = "files", new.key = session[x].key \cup kept,
           new.got = session[x].got,
           UNCHANGED <<tmdb, row, holder, mixed, cleared>>,
           redis' = [k \in Key |-> redis'[k]], behind' \subseteq Key,
           \A k \in Key : redis'[k] = Nothing \/ (redis'[k] = redis[k] /\ k \in kept /\ k \in behind'),
           behind \subseteq behind' \cup (Key \ InHand)
    PROVE  CacheInvariant'
<1>1. session' = [session EXCEPT ![x] = new]
    OBVIOUS
<1>2. /\ session[x].op = "clear" /\ Typed(session[x]) /\ session[x] \in View
      /\ session[x].got > Empty
    BY Shapes DEF Parts, Sessions, Typed, Shape, Idle
<1>3. /\ new \in View /\ new.op = "clear" /\ new.pc = "files" /\ new.key = session[x].key \cup kept
      /\ new.got = session[x].got
    BY <1>2
<1>4. Typed(new)
    BY <1>2, <1>3 DEF Typed, Shape
<1>5. Moves(x, new)
    <2>1. \A k \in Key : x \notin holder[k]
        BY <1>2 DEF Parts, Locks
    <2>2. holder' = [k \in Key |-> holder'[k]]
        BY DEF Parts, Locks
    <2> QED BY <1>1, <1>3, <1>4, <2>1, <2>2 DEF Moves
<1>6. Plain'
    BY VersionFacts DEF Parts, Plain, Entry, WrapsFailure, InRedis
<1>7. /\ Locks' /\ Sessions' /\ \A y \in Session : Owned(y)'
      /\ session'[x] = new /\ Busy' \subseteq Busy \cup {x}
      /\ \A y \in Session \ {x} : session'[y] = session[y]
    BY <1>5, <1>6, MovedTypes
<1>8. ASSUME ~mixed PROVE Quiet'
    <2>1. \A y, z \in Busy' : y # z => Apart(session'[y], session'[z])
        <3>1. \A y \in Busy' : y \in Busy /\ session'[y].op = session[y].op
            BY <1>2, <1>3, <1>7, IdleFacts DEF Busy
        <3> QED BY <1>8, <3>1 DEF Parts, Quiet, Apart
    <2>2. ASSUME NEW y \in Session PROVE Backed(session[y])'
        <3>1. CASE y = x
            BY <1>3, <1>7, <3>1 DEF Backed
        <3>2. CASE y # x
            <4>1. session[y].op \notin {"persist", "refresh"}
                BY <1>2, <1>8, <3>2, ClearCompany, IdleFacts
            <4>2. Backed(session[y]) /\ session'[y] = session[y]
                BY <1>7, <1>8, <3>2 DEF Parts, Quiet
            <4>3. session[y].key \subseteq Key
                BY DEF Parts, Sessions, Typed, View
            <4>4. \A k \in session[y].key :
                     k \notin behind' => k \notin behind \/ session[y].pc \notin {"prime", "store", "write"}
                BY <4>3 DEF InHand
            <4> QED BY <4>1, <4>2, <4>4 DEF Backed, Locked, Fixed
        <3> QED BY <3>1, <3>2
    <2>3. ASSUME NEW y \in Session PROVE FreshView(session[y])'
        <3>1. CASE y = x
            <4>1. \A k \in Key : Fresh(session[x].got, cleared[k])
                BY <1>2, <1>8 DEF Parts, Quiet, FreshCaches, Fresh
            <4>2. new.key \subseteq Key
                BY <1>3 DEF View
            <4> QED BY <1>3, <1>7, <3>1, <4>1, <4>2 DEF FreshView, Fresh
        <3>2. CASE y # x
            <4>1. FreshView(session'[y])
                BY <1>7, <1>8, <3>2 DEF Parts, Quiet
            <4> QED BY <4>1 DEF FreshView, Fresh
        <3> QED BY <3>1, <3>2
    <2>4. ASSUME NEW y \in Session PROVE FreshCaches(session[y])'
        <3>1. FreshCaches(session[y])
            BY <1>8 DEF Parts, Quiet
        <3>2. CASE y = x
            <4>1. \A k \in Key \ new.key : redis'[k] = Nothing /\ k \notin session[x].key
                BY <1>3
            <4> QED BY <1>2, <1>3, <1>7, <3>1, <3>2, <4>1, VersionFacts DEF FreshCaches, Fresh, InRedis
        <3>3. CASE y # x
            BY <1>2, <1>7, <1>8, <3>3, ClearCompany, IdleFacts DEF FreshCaches
        <3> QED BY <3>2, <3>3
    <2>5. \A y, z \in Session : session'[y].op = "clear" => Past(session'[z], session'[y])
        <3>1. \A y \in Session \ {x} : session'[y].op # "clear"
            BY <1>2, <1>7, <1>8, ClearCompany, IdleFacts
        <3>2. \A z \in Session \ {x} : Past(session[z], session[x])
            BY <1>2, <1>8 DEF Parts, Quiet
        <3>3. \A z \in Session \ {x} : Past(session'[z], new)
            BY <1>3, <1>7, <3>2 DEF Past
        <3>4. Past(new, new)
            BY DEF Past
        <3> QED BY <1>7, <3>1, <3>3, <3>4
    <2>6. \A k \in Key : Layered(k)'
        BY DEF Layered
    <2>7. \A k \in Key : Fresh(redis'[k], cleared'[k]) /\ Fresh(row'[k], cleared'[k])
        BY <1>8, VersionFacts DEF Parts, Quiet
    <2> QED BY <2>1, <2>2, <2>3, <2>4, <2>5, <2>6, <2>7 DEF Quiet, Fresh, Past, Apart
<1>9. Parts'
    BY <1>6, <1>7, <1>8 DEF Parts
<1> QED BY <1>9, PartsKept

LEMMA ClearRedisKeeps ==
    ASSUME Parts, NEW x \in Session, ClearRedis(x)
    PROVE  CacheInvariant'
<1>1. /\ session[x].pc = "redis" /\ behind \subseteq Key
      /\ UNCHANGED <<tmdb, row, holder, mixed, cleared>>
      /\ session[x] \in View
    BY VersionFacts DEF ClearRedis, Parts, Sessions, Typed
<1>2. CASE /\ redis' = [k \in Key |-> Nothing] /\ behind' = behind \cap InHand
           /\ GoTo(x, "files", session[x].got)
    <2> DEFINE new == [session[x] EXCEPT !.pc = "files", !.got = session[x].got]
    <2>1. /\ new \in View /\ new.op = session[x].op /\ new.pc = "files"
          /\ new.key = session[x].key \cup {} /\ new.got = session[x].got
          /\ session' = [session EXCEPT ![x] = new]
        BY <1>1, <1>2 DEF GoTo, View, Parts, Sessions
    <2> HIDE DEF new
    <2>2. {} \in SUBSET Key
        OBVIOUS
    <2> QED BY <1>1, <1>2, <2>1, <2>2, ComesToFiles
<1>3. ASSUME UNCHANGED redis,
             NEW kept, kept = {k \in Key : redis[k] # Nothing}, behind' = behind \cup kept,
             session' = [session EXCEPT ![x].pc = "files", ![x].key = @ \cup kept]
      PROVE  CacheInvariant'
    <2> DEFINE new == [session[x] EXCEPT !.pc = "files", !.key = session[x].key \cup kept]
    <2>1. /\ new \in View /\ new.op = session[x].op /\ new.pc = "files"
          /\ new.key = session[x].key \cup kept /\ new.got = session[x].got
          /\ session' = [session EXCEPT ![x] = new]
        BY <1>1, <1>3 DEF View, Parts, Sessions
    <2> HIDE DEF new
    <2>2. redis' = [k \in Key |-> redis'[k]] /\ kept \in SUBSET Key
        BY <1>3 DEF Parts, Plain
    <2> QED BY <1>1, <1>3, <2>1, <2>2, ComesToFiles
<1> QED BY <1>2, <1>3 DEF ClearRedis

LEMMA ClearFilesKeeps ==
    ASSUME Parts, NEW x \in Session, ClearFiles(x)
    PROVE  CacheInvariant'
<1>1. /\ session[x].pc = "files"
      /\ row' = [k \in Key |-> IF InRedis(k) THEN row[k] ELSE Nothing]
      /\ cleared' = [k \in Key |-> IF mixed \/ k \in session[x].key THEN cleared[k] ELSE session[x].got]
      /\ UNCHANGED <<tmdb, redis, holder, behind>>
    BY DEF ClearFiles
<1>2. /\ session[x].op = "clear" /\ Typed(session[x]) /\ session[x].got > Empty
      /\ session[x].got \in Value /\ session[x].got <= tmdb
    BY <1>1, Shapes DEF Parts, Sessions, Typed, Shape, Idle, View
<1>3. PICK new :
          /\ session' = [session EXCEPT ![x] = new] /\ Typed(new) /\ new.got = Nothing
          /\ new.op \in {"none", "refresh"} /\ new.pc \in {"idle", "fetch"}
          /\ mixed' \in BOOLEAN
          /\ ~mixed' => ~mixed /\ (new = Idle \/ Busy = {x})
    <2>1. CASE session' = [session EXCEPT ![x] = Idle] /\ UNCHANGED mixed
        <3>1. Typed(Idle)
            BY IdleFacts DEF Typed, Parts, Plain, Nothing
        <3> QED BY <2>1, <3>1, IdleFacts, VersionFacts
    <2>2. ASSUME NEW k \in Default, mixed' = (mixed \/ Busy # {x}),
                 session' = [session EXCEPT ![x] = [Idle EXCEPT !.op = "refresh", !.pc = "fetch",
                                                                !.key = {k}, !.todo = Default \ {k}]]
          PROVE  \E new :
                     /\ session' = [session EXCEPT ![x] = new] /\ Typed(new) /\ new.got = Nothing
                     /\ new.op \in {"none", "refresh"} /\ new.pc \in {"idle", "fetch"}
                     /\ mixed' \in BOOLEAN
                     /\ ~mixed' => ~mixed /\ (new = Idle \/ Busy = {x})
        <3> DEFINE new == [Idle EXCEPT !.op = "refresh", !.pc = "fetch", !.key = {k}, !.todo = Default \ {k}]
        <3>1. Typed(new) /\ new.op = "refresh" /\ new.pc = "fetch" /\ new.got = Nothing
            BY Refreshing
        <3>2. session' = [session EXCEPT ![x] = new]
            BY <2>2
        <3> HIDE DEF new
        <3>3. mixed' \in BOOLEAN /\ (~mixed' => ~mixed /\ Busy = {x})
            BY <2>2
        <3> QED BY <3>1, <3>2, <3>3
    <2> QED BY <2>1, <2>2 DEF ClearFiles
<1>4. cleared' \in [Key -> 1 .. tmdb]
    BY <1>1, <1>2 DEF Parts, Plain, Value, Nothing, Empty
<1>5. Plain'
    BY <1>1, <1>3, <1>4, VersionFacts DEF Parts, Plain, Entry, WrapsFailure, InRedis
<1>6. Moves(x, new)
    <2>1. \A k \in Key : x \notin holder[k]
        BY <1>2 DEF Parts, Locks
    <2>2. holder' = [k \in Key |-> holder'[k]]
        BY <1>1 DEF Parts, Locks
    <2> QED BY <1>1, <1>3, <2>1, <2>2 DEF Moves
<1>7. /\ Locks' /\ Sessions' /\ \A y \in Session : Owned(y)'
      /\ session'[x] = new /\ Busy' \subseteq Busy \cup {x}
      /\ \A y \in Session \ {x} : session'[y] = session[y]
    BY <1>1, <1>5, <1>6, MovedTypes
<1>8. ASSUME ~mixed' PROVE Quiet'
    <2>1. /\ ~mixed /\ (new = Idle \/ Busy = {x})
          /\ \A k \in Key : cleared'[k] = IF k \in session[x].key THEN cleared[k] ELSE session[x].got
        BY <1>1, <1>3, <1>8
    <2>2. \A y \in Session \ {x} : session[y] = Idle \/ session[y].op = "read"
        BY <1>2, <2>1, ClearCompany
    <2>3. \A y, z \in Busy' : y # z => Apart(session'[y], session'[z])
        <3>1. CASE new = Idle
            <4>1. \A y \in Busy' : y \in Busy /\ y \in Session \ {x} /\ session'[y] = session[y]
                BY <1>7, <3>1 DEF Busy
            <4> QED BY <2>1, <4>1 DEF Parts, Quiet
        <3>2. CASE Busy = {x}
            BY <1>7, <3>2
        <3> QED BY <2>1, <3>1, <3>2
    <2>4. \A y \in Session : session'[y].op # "clear" /\ session'[y].op # "persist"
        BY <1>3, <1>7, <2>2, IdleFacts
    <2>5. \A y \in Session : FreshView(session[y])' /\ FreshCaches(session[y])'
        <3>1. \A y \in Session \ {x} : Past(session[y], session[x]) /\ FreshView(session[y])
            BY <1>2, <2>1 DEF Parts, Quiet
        <3>2. \A y \in Session : session'[y].key \subseteq Key
            BY <1>7 DEF Sessions, Typed, View
        <3>3. \A y \in Session \ {x} : \A k \in session'[y].key : Fresh(session'[y].got, cleared'[k])
            BY <1>7, <2>1, <3>1, <3>2 DEF Past, FreshView
        <3>4. \A k \in session'[x].key : Fresh(session'[x].got, cleared'[k])
            BY <1>3, <1>7, VersionFacts
        <3> QED BY <2>4, <3>3, <3>4 DEF FreshView, FreshCaches, Fresh
    <2>6. ASSUME NEW y \in Session PROVE Backed(session[y])'
        <3>1. CASE y = x
            BY <1>3, <1>7, <2>4, <3>1 DEF Backed
        <3>2. CASE y # x
            <4>1. Backed(session[y]) /\ session'[y] = session[y]
                BY <1>7, <2>1, <3>2 DEF Parts, Quiet
            <4>2. \A k \in session[y].key :
                     /\ k \in Key
                     /\ InRedis(k) => row'[k] = row[k]
                     /\ ~InRedis(k) => row'[k] = Nothing /\ session[y].pc \notin {"prime", "write"}
                BY <1>1, <2>2, <3>2, IdleFacts, Filling
            <4> QED BY <1>1, <2>4, <4>1, <4>2 DEF Backed, Locked, Fixed
        <3> QED BY <3>1, <3>2
    <2>7. ASSUME NEW k \in Key PROVE Layered(k)' /\ Fresh(redis'[k], cleared'[k]) /\ Fresh(row'[k], cleared'[k])
        <3>1. Layered(k) /\ FreshCaches(session[x])
            BY <2>1 DEF Parts, Quiet
        <3>2. Fresh(redis'[k], cleared'[k]) /\ Fresh(row'[k], cleared'[k])
            <4>1. CASE InRedis(k)
                BY <1>1, <1>2, <2>1, <3>1, <4>1 DEF FreshCaches, Parts, Quiet
            <4>2. CASE ~InRedis(k)
                BY <1>1, <4>2, VersionFacts DEF Parts, Plain
            <4> QED BY <4>1, <4>2
        <3>3. \A y \in Session :
                 /\ session[y].pc = "redis" => session'[y].pc = "redis"
                 /\ session[y].op = "refresh" /\ At(y, "write", k)
                        => session'[y].op = "refresh" /\ At(y, "write", k)'
            BY <1>1, <1>2, <1>7 DEF At
        <3>4. Layered(k)'
            BY <1>1, <3>1, <3>3 DEF Layered, Fixed, InRedis
        <3> QED BY <3>2, <3>4
    <2> QED BY <2>3, <2>4, <2>5, <2>6, <2>7 DEF Quiet, Fresh, Apart
<1>9. Parts'
    BY <1>5, <1>7, <1>8 DEF Parts
<1> QED BY <1>9, PartsKept

-----------------------------------------------------------------------------
(* Redis and TMDB on their own.                                            *)

LEMMA EvictKeeps ==
    ASSUME Parts, NEW k \in Key, Evict(k)
    PROVE  CacheInvariant'
<1>1. /\ redis' = [redis EXCEPT ![k] = Nothing]
      /\ behind' = behind \ ({k} \ InHand)
      /\ UNCHANGED <<tmdb, row, holder, session, mixed, cleared>>
    BY DEF Evict
<1>2. /\ redis' = [j \in Key |-> redis'[j]]
      /\ redis'[k] = Nothing /\ \A j \in Key \ {k} : redis'[j] = redis[j]
    BY <1>1 DEF Parts, Plain
<1>3. Plain'
    BY <1>1, <1>2, VersionFacts DEF Parts, Plain, Entry, WrapsFailure, InRedis
<1>4. Locks' /\ Sessions' /\ \A y \in Session : Owned(y)'
    BY <1>1 DEF Parts, Locks, Sessions, Owned, Busy, Typed, Entry
<1>5. ASSUME ~mixed PROVE Quiet'
    <2>1. Quiet
        BY <1>5 DEF Parts
    <2>2. \A y, z \in Busy' : y # z => Apart(session'[y], session'[z])
        BY <1>1, <2>1 DEF Quiet, Busy
    <2>3. ASSUME NEW y \in Session PROVE Backed(session[y])'
        <3>1. Backed(session[y]) /\ session'[y] = session[y]
            BY <1>1, <2>1 DEF Quiet
        <3>2. \A j \in session[y].key :
                 /\ j \in Key
                 /\ session[y].op = "refresh" \/ j \notin behind' =>
                       \/ j \notin behind \/ session[y].op = "refresh"
                       \/ session[y].pc \notin {"prime", "store", "write"}
            BY <1>1 DEF InHand, Parts, Sessions, Typed, View
        <3>3. session[y].op = "persist" => \A j \in Key : redis'[j] \in {Nothing, session[y].copy[j]}
            BY <1>2, <3>1 DEF Backed
        <3> QED BY <1>1, <3>1, <3>2, <3>3 DEF Backed, Locked, Fixed
    <2>4. \A y \in Session : FreshView(session[y])' /\ FreshCaches(session[y])'
        BY <1>1, <1>2, <2>1 DEF Quiet, FreshView, FreshCaches, Fresh, Nothing, Empty
    <2>5. \A y, z \in Session : session'[y].op = "clear" => Past(session'[z], session'[y])
        BY <1>1, <2>1 DEF Quiet
    <2>6. \A j \in Key : Layered(j)'
        BY <1>1, <1>2, <2>1 DEF Quiet, Layered, At
    <2>7. \A j \in Key : Fresh(redis'[j], cleared'[j]) /\ Fresh(row'[j], cleared'[j])
        BY <1>1, <1>2, <2>1, VersionFacts DEF Quiet
    <2> QED BY <2>2, <2>3, <2>4, <2>5, <2>6, <2>7 DEF Quiet, Fresh, Past, Apart
<1>6. Parts'
    BY <1>1, <1>3, <1>4, <1>5 DEF Parts
<1> QED BY <1>6, PartsKept

LEMMA ChangeKeeps ==
    ASSUME Parts, Change
    PROVE  CacheInvariant'
<1>1. /\ tmdb < MaxVersion /\ tmdb' = tmdb + 1
      /\ UNCHANGED <<redis, row, holder, session, mixed, behind, cleared>>
    BY DEF Change
<1>2. tmdb \in 1 .. MaxVersion /\ cleared \in [Key -> 1 .. tmdb] /\ MaxVersion \in Nat
    BY CacheAssumption DEF Parts, Plain
<1>3. tmdb' \in 1 .. MaxVersion /\ cleared' \in [Key -> 1 .. tmdb']
    BY <1>1, <1>2
<1>4. \A k \in Key : \A v : Entry(k, v) => Entry(k, v)'
    BY <1>1, <1>2 DEF Entry, WrapsFailure, Nothing
<1>5. Plain'
    BY <1>1, <1>3, <1>4 DEF Parts, Plain
<1>6. Locks' /\ \A y \in Session : Owned(y)'
    BY <1>1 DEF Parts, Locks, Owned, Busy
<1>7. Sessions'
    <2>1. \A y \in Session : session[y] \in View /\ Typed(session[y])
        BY DEF Parts, Sessions, Typed
    <2>2. \A y \in Session : session[y].got <= tmdb' /\ session[y].key \subseteq Key
        BY <1>1, <1>2, <2>1 DEF Typed, View, Value, Nothing
    <2> QED BY <1>1, <1>4, <2>1, <2>2 DEF Parts, Sessions, Typed
<1>8. ~mixed => Quiet'
    BY <1>1 DEF Parts, Quiet, Busy, Backed, FreshView, FreshCaches, Past, Fresh, Layered, At
<1>9. Parts'
    BY <1>1, <1>5, <1>6, <1>7, <1>8 DEF Parts
<1> QED BY <1>9, PartsKept

-----------------------------------------------------------------------------

LEMMA InitCaches == Init => CacheInvariant
<1> SUFFICES ASSUME Init PROVE CacheInvariant
    OBVIOUS
<1>1. /\ \A k \in Key : redis[k] = Nothing /\ row[k] = Nothing
      /\ redis = [k \in Key |-> redis[k]] /\ row = [k \in Key |-> row[k]]
    BY DEF Init
<1>2. Plain
    <2>1. tmdb = 1 /\ cleared = [k \in Key |-> 1]
        BY DEF Init
    <2>2. mixed \in BOOLEAN /\ behind \subseteq Key
        BY DEF Init
    <2>3. tmdb \in 1 .. MaxVersion /\ cleared \in [Key -> 1 .. tmdb]
        BY <2>1, CacheAssumption
    <2>4. Nothing \in Nothing .. tmdb /\ Nothing # Empty
        BY <2>1 DEF Nothing, Empty
    <2> QED BY <1>1, <2>2, <2>3, <2>4 DEF Plain, Entry
<1>3. \A x \in Session : session[x] = Idle
    BY DEF Init
<1>4. Busy = {}
    BY <1>3 DEF Busy
<1>5. Locks
    BY DEF Init, Locks
<1>6. Sessions
    <2>1. Typed(Idle)
        BY <1>2, IdleFacts DEF Typed, Plain, Nothing
    <2> QED BY <1>3, <2>1 DEF Init, Sessions
<1>7. \A x \in Session : Owned(x)
    BY <1>3, IdleFacts DEF Owned
<1>8. Quiet
    <2>1. \A x \in Session : Backed(session[x]) /\ FreshView(session[x]) /\ FreshCaches(session[x])
        BY <1>3, IdleFacts DEF Backed, FreshView, FreshCaches, Fresh, Nothing, Empty
    <2>2. \A x, y \in Session : session[x].op # "clear"
        BY <1>3, IdleFacts
    <2>3. \A w : Fresh(Nothing, w)
        BY DEF Fresh, Nothing, Empty
    <2>4. \A k \in Key : Layered(k)
        BY <1>1 DEF Layered
    <2> QED BY <1>4, <1>1, <2>1, <2>2, <2>3, <2>4 DEF Quiet
<1>9. Parts
    BY <1>2, <1>5, <1>6, <1>7, <1>8 DEF Parts
<1> QED BY <1>9, PartsSuffice

LEMMA NextKeeps == CacheInvariant /\ [Next]_vars => CacheInvariant'
<1> SUFFICES ASSUME CacheInvariant, [Next]_vars PROVE CacheInvariant'
    OBVIOUS
<1>1. Parts
    BY InParts
<1>2. ASSUME NEW x \in Session, NEW k \in Key, Read(x, k) \/ Go(x, k) \/ Acquire(x, k)
      PROVE  CacheInvariant'
    BY <1>1, <1>2, ReadKeeps, AcquireKeeps, LookKeeps, ReadRowKeeps, PrimeKeeps, FetchKeeps,
       StoreKeeps, WriteKeeps DEF Go
<1>3. ASSUME NEW x \in Session, Raise(x) \/ Job(x)
      PROVE  CacheInvariant'
    BY <1>1, <1>3, RaiseKeeps, RefreshKeeps, SnapshotKeeps, UpsertKeeps, ClearRowsKeeps,
       ClearRedisKeeps, ClearFilesKeeps DEF Job
<1>4. ASSUME NEW k \in Key, Evict(k)
      PROVE  CacheInvariant'
    BY <1>1, <1>4, EvictKeeps
<1>5. CASE Change
    BY <1>1, <1>5, ChangeKeeps
<1>6. CASE UNCHANGED vars
    BY <1>6 DEF vars, CacheInvariant, TypeOK, SessionsApart, FetchIsNeeded, LayersAgree, RowsStand,
       ClearedStaysCleared, NothingOlderInFlight, Busy, Entry, At, Storing
<1> QED BY <1>2, <1>3, <1>4, <1>5, <1>6 DEF Next

\* Whatever the keys, readers and jobs, with Redis failing at any time: locked
\* data is fetched under its lock and only while there is nothing to answer
\* with, and what is in flight and in the caches fits together
\* (get_or_set_cached_data, _set_cache, clear_cache).
THEOREM CachesStayConsistent == Spec => []CacheInvariant
BY InitCaches, NextKeeps, PTL DEF Spec

\* Redis has what the table has, or nothing, once nobody is storing an entry:
\* for category pages and company lists, as long as jobs overlap with nothing,
\* and but for the keys where a write or a deletion in Redis failed or was cut
\* off, or that a reader had in hand when they were cleared (_set_cache commits
\* the row and then writes Redis; clear_cache).
THEOREM LayersAlwaysAgree == Spec => []LayersAgree
<1>1. CacheInvariant => LayersAgree
    BY DEF CacheInvariant
<1> QED BY <1>1, CachesStayConsistent, PTL

\* A reader of data with a lock asks TMDB only while there is nothing to answer
\* with, genre lists excepted (the second lookup in get_or_set_cached_data).
THEOREM FetchesAreNeeded == Spec => []FetchIsNeeded
<1>1. CacheInvariant => FetchIsNeeded
    BY DEF CacheInvariant
<1> QED BY <1>1, CachesStayConsistent, PTL

\* What an admin cleared is not found again, however many readers were served
\* while the clear went on (clear_cache deletes the rows before Redis): as long
\* as jobs overlap with nothing, and but for the keys that readers had asked for
\* or in hand when it began and those that Redis failed to delete.
THEOREM ClearedIsGone == Spec => []ClearedStaysCleared
<1>1. CacheInvariant => ClearedStaysCleared
    BY DEF CacheInvariant
<1> QED BY <1>1, CachesStayConsistent, PTL

=============================================================================
