---------------------------- MODULE TileLoading ----------------------------
(***************************************************************************)
(* How the client loads tiles of dzz.by: the cache, the slots and the      *)
(* queue of frontend/src/dzz/tiles.js, the tile layer and its prefetch,    *)
(* and the pool that captures an area (frontend/src/map/map.js).           *)
(*                                                                         *)
(* JavaScript runs a promise's continuations before the next event: the    *)
(* waiters that were woken go first, then callers come with new events.    *)
(***************************************************************************)
EXTENDS Naturals, Sequences, FiniteSets, SequencesExt

CONSTANTS
  Urls,           \* tiles
  Loads,          \* the calls of dzzEnsureTileBlob that can be under way
  MaxInflight,    \* DZZ_MAX_INFLIGHT
  CacheMax,       \* DZZ_TILE_CACHE_MAX
  PrefetchSlots,  \* DZZ_PREFETCH_SLOTS
  PoolLimit       \* the workers of runPool

TilesAssumption ==
  /\ {MaxInflight, CacheMax, PrefetchSlots, PoolLimit} \subseteq Nat \ {0}
  /\ IsFiniteSet(Urls) /\ IsFiniteSet(Loads)

VARIABLES
  cache,     \* tileCache, oldest first
  inflight,  \* inflight
  queue,     \* queue: who waits for a slot
  woken,     \* who was given one and has not gone on
  loads,     \* the calls: where they are, which tile, for whom
  capture    \* the tiles that runPool has not begun

vars == <<cache, inflight, queue, woken, loads, capture>>

Idle == [pc |-> "idle"]

(* prefetchBusy and the workers of runPool are the calls made for them.    *)
Room(whom, limit) == Cardinality({c \in Loads : loads[c] # Idle /\ loads[c].for = whom}) < limit

Init ==
  /\ cache = <<>> /\ inflight = 0 /\ queue = <<>> /\ woken = <<>>
  /\ loads = [c \in Loads |-> Idle] /\ capture = <<>>

Cached(url) == Contains(cache, url)

(* rememberBlob: the oldest tile goes.                                     *)
Remembered(url) ==
  LET kept == Append(SelectSeq(cache, LAMBDA u : u # url), url)
  IN  IF Len(kept) > CacheMax THEN Tail(kept) ELSE kept

(* dzzEnsureTileBlob up to the first await.                                *)
Ensure(c, url, whom) ==
  /\ woken = <<>> /\ loads[c] = Idle
  /\ IF Cached(url) THEN UNCHANGED <<loads, inflight, queue>>
     ELSE IF inflight >= MaxInflight
     THEN /\ loads' = [loads EXCEPT ![c] = [pc |-> "queued", url |-> url, for |-> whom]]
          /\ queue' = Append(queue, c)
          /\ UNCHANGED inflight
     ELSE /\ loads' = [loads EXCEPT ![c] = [pc |-> "asking", url |-> url, for |-> whom]]
          /\ inflight' = inflight + 1
          /\ UNCHANGED queue
  /\ UNCHANGED <<cache, woken>>

(* createTile.                                                             *)
Show(c, url) == Ensure(c, url, "layer") /\ UNCHANGED capture

(* dzzPrefetch of one neighbour, once a tile is on the screen.             *)
Prefetch(c, url) ==
  /\ Cached(url) \/ Room("prefetch", PrefetchSlots)
  /\ Ensure(c, url, "prefetch") /\ UNCHANGED capture

(* captureAreaAsBlob begins, and a worker of runPool takes the next job.   *)
Capture ==
  /\ capture = <<>> /\ Room("capture", 1) /\ woken = <<>>
  /\ \E jobs \in SetToSeqs(Urls) : capture' = jobs
  /\ UNCHANGED <<cache, inflight, queue, woken, loads>>

TakeJob(c) ==
  /\ capture # <<>> /\ Room("capture", PoolLimit)
  /\ Ensure(c, Head(capture), "capture")
  /\ capture' = Tail(capture)

(* withInflight after its await; the tile may have come in the meantime.   *)
Wake ==
  /\ woken # <<>>
  /\ woken' = Tail(woken)
  /\ inflight' = inflight + 1
  /\ loads' = [loads EXCEPT ![Head(woken)].pc =
                 IF Cached(loads[Head(woken)].url) THEN "leaving" ELSE "asking"]
  /\ UNCHANGED <<cache, queue, capture>>

(* The finally of withInflight.                                            *)
Release(c) ==
  /\ inflight' = inflight - 1
  /\ queue' = IF queue = <<>> THEN queue ELSE Tail(queue)
  /\ woken' = IF queue = <<>> THEN woken ELSE Append(woken, Head(queue))
  /\ loads' = [loads EXCEPT ![c] = Idle]

(* Mutant: the next waiter is woken only when a tile came.                 *)
FailedSilently(c) ==
  /\ inflight' = inflight - 1 /\ loads' = [loads EXCEPT ![c] = Idle]
  /\ UNCHANGED <<cache, queue, woken, capture>>

Failed(c) == Release(c) /\ UNCHANGED <<cache, capture>>

(* The answer: a tile, an empty one that is not kept, or an error.         *)
Arrive(c) ==
  /\ woken = <<>> /\ loads[c].pc = "asking"
  /\ \/ Failed(c)
     \/ /\ cache' = Remembered(loads[c].url)
        /\ Release(c) /\ UNCHANGED capture

Leave(c) == loads[c].pc = "leaving" /\ Failed(c)

(* clearDzzTileCache.                                                      *)
Clear == woken = <<>> /\ cache' = <<>> /\ UNCHANGED <<inflight, queue, woken, loads, capture>>

Next ==
  \/ Wake \/ Capture \/ Clear
  \/ \E c \in Loads : \/ TakeJob(c) \/ Arrive(c) \/ Leave(c)
                      \/ \E url \in Urls : Show(c, url) \/ Prefetch(c, url)

Spec == Init /\ [][Next]_vars

-----------------------------------------------------------------------------
(* Properties                                                              *)

(* The calls that wait for an answer of dzz.by, and those with a slot.      *)
Asking == {c \in Loads : loads[c].pc = "asking"}
Holding == {c \in Loads : loads[c].pc \in {"asking", "leaving"}}

(* dzz.by is never asked for more than DZZ_MAX_INFLIGHT tiles at once: a   *)
(* newcomer does not take the slot that a waiter was woken for.  And       *)
(* nobody waits for a slot that is free, whatever fails.                   *)
SlotsAreUsed ==
  /\ Cardinality(Asking) <= MaxInflight
  /\ queue # <<>> => Cardinality(Holding) + Len(woken) = MaxInflight

=============================================================================
