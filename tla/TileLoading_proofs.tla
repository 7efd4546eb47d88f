------------------------- MODULE TileLoading_proofs -------------------------
(* The slots for tiles are neither exceeded nor left idle, for any number  *)
(* of calls, tiles and slots.                                              *)
EXTENDS MCImagery, FiniteSetTheorems, SequenceTheorems, TLAPS

Entry == [pc : {"queued", "asking", "leaving"}, url : Urls, for : {"layer", "prefetch", "capture"}]

Shape ==
  /\ loads \in [Loads -> Entry \union {Idle}]
  /\ capture \in Seq(Urls)
  /\ queue \in Seq(Loads) /\ woken \in Seq(Loads)
  /\ inflight \in Nat

(* Those that wait, the next one first: nobody is in it twice.             *)
Line == woken \o queue

LineIsQueued ==
  /\ \A n \in 1..Len(Line) : loads[Line[n]].pc = "queued"
  /\ \A m, n \in 1..Len(Line) : Line[m] = Line[n] => m = n

(* The counter of tiles.js counts those with a slot.                       *)
CounterIsTrue == inflight = Cardinality(Holding)

SlotsAreGiven ==
  /\ inflight + Len(woken) <= MaxInflight
  /\ queue # <<>> => inflight + Len(woken) = MaxInflight

IInv == Shape /\ LineIsQueued /\ CounterIsTrue /\ SlotsAreGiven

-----------------------------------------------------------------------------
LEMMA HoldingIsFinite ==
  ASSUME TilesAssumption
  PROVE  /\ IsFiniteSet(Holding) /\ Cardinality(Holding) \in Nat
         /\ Cardinality(Asking) \in Nat /\ Cardinality(Asking) <= Cardinality(Holding)
<1>1. IsFiniteSet(Loads) /\ Holding \in SUBSET Loads /\ Asking \in SUBSET Holding
  BY DEF TilesAssumption, Holding, Asking
<1>. HIDE DEF Holding, Asking
<1>2. IsFiniteSet(Holding)
  BY <1>1, FS_Subset
<1>3. IsFiniteSet(Asking) /\ Cardinality(Asking) <= Cardinality(Holding)
  BY <1>1, <1>2, FS_Subset
<1>. QED BY <1>2, <1>3, FS_CardinalityType

LEMMA InvariantImplies ==
  ASSUME TilesAssumption, IInv
  PROVE  SlotsAreUsed
<1>1. /\ Cardinality(Asking) \in Nat /\ Cardinality(Holding) \in Nat
      /\ Cardinality(Asking) <= Cardinality(Holding)
  BY HoldingIsFinite
<1>2. Len(woken) \in Nat /\ MaxInflight \in Nat /\ inflight = Cardinality(Holding)
  BY DEF IInv, Shape, TilesAssumption, CounterIsTrue
<1>. QED BY <1>1, <1>2 DEF IInv, SlotsAreGiven, SlotsAreUsed

LEMMA InitInvariant ==
  ASSUME TilesAssumption, Init
  PROVE  IInv
<1>1. Shape /\ LineIsQueued
  BY DEF Init, Shape, LineIsQueued, Line
<1>2. Holding = {}
  BY DEF Init, Holding, Idle
<1>3. CounterIsTrue
  BY <1>2, FS_EmptySet DEF Init, CounterIsTrue
<1>4. SlotsAreGiven
  BY DEF Init, SlotsAreGiven, TilesAssumption
<1>. QED BY <1>1, <1>3, <1>4 DEF IInv

(* How the line moves: a waiter is woken, goes on, or comes.               *)
LEMMA Waking ==
  ASSUME NEW S, NEW w \in Seq(S), NEW q \in Seq(S), q # <<>>
  PROVE  Append(w, Head(q)) \o Tail(q) = w \o q
<1>1. Tail(q) \in Seq(S) /\ Len(Tail(q)) = Len(q) - 1 /\ Len(q) \in Nat /\ Len(q) > 0 /\ Head(q) = q[1]
  BY HeadTailProperties
<1>2. Append(w, Head(q)) \in Seq(S) /\ Len(Append(w, Head(q))) = Len(w) + 1
  BY HeadTailProperties, AppendProperties
<1>. DEFINE a == Append(w, Head(q)) \o Tail(q)
            b == w \o q
<1>3. a \in Seq(S) /\ b \in Seq(S) /\ Len(a) = Len(b)
  BY <1>1, <1>2, ConcatProperties
<1>4. ASSUME NEW n \in 1..Len(b) PROVE a[n] = b[n]
  BY <1>1, <1>2, <1>4
<1>. HIDE DEF a, b
<1>5. a = b
  BY <1>3, <1>4, SeqEqual
<1>. QED BY <1>5 DEF a, b

LEMMA GoingOn ==
  ASSUME NEW S, NEW w \in Seq(S), NEW q \in Seq(S), w # <<>>
  PROVE  /\ Len(Tail(w) \o q) = Len(w \o q) - 1
         /\ \A n \in 1..Len(Tail(w) \o q) : n + 1 \in 1..Len(w \o q) /\ (Tail(w) \o q)[n] = (w \o q)[n + 1]
<1>1. Tail(w) \in Seq(S) /\ Len(Tail(w)) = Len(w) - 1 /\ Len(w) \in Nat /\ Len(w) > 0 /\ Len(q) \in Nat
  BY HeadTailProperties
<1>2. Len(Tail(w) \o q) = Len(w) - 1 + Len(q) /\ Len(w \o q) = Len(w) + Len(q)
  BY <1>1
<1>. QED BY <1>1, <1>2

-----------------------------------------------------------------------------
(* A tile is asked for: from the cache, in a free slot, or in the line.     *)
LEMMA EnsureInvariant ==
  ASSUME TilesAssumption, IInv, NEW c \in Loads, NEW url \in Urls,
         NEW whom \in {"layer", "prefetch", "capture"}, Ensure(c, url, whom), capture' \in Seq(Urls)
  PROVE  IInv'
<1>. USE DEF IInv
<1>1. woken = <<>> /\ woken' = <<>> /\ Len(woken) = 0 /\ queue \in Seq(Loads) /\ inflight \in Nat /\ MaxInflight \in Nat
  BY DEF Ensure, Shape, TilesAssumption
<1>2. Line = queue /\ Line' = queue'
  BY <1>1 DEF Line, Shape, Ensure
<1>3. CASE UNCHANGED <<loads, inflight, queue>>
  BY <1>1, <1>3 DEF Shape, LineIsQueued, Line, CounterIsTrue, Holding, SlotsAreGiven
<1>4. CASE /\ loads' = [loads EXCEPT ![c] = [pc |-> "queued", url |-> url, for |-> whom]]
           /\ queue' = Append(queue, c) /\ inflight' = inflight /\ inflight >= MaxInflight
  <2>1. Shape'
    BY <1>1, <1>4 DEF Shape, Entry
  <2>2. \A n \in 1..Len(queue) : queue[n] \in Loads /\ loads[queue[n]].pc = "queued" /\ queue[n] # c
    BY <1>1, <1>2 DEF LineIsQueued, Ensure, Idle
  <2>3. ASSUME NEW n \in 1..Len(queue')
        PROVE  \/ n \in 1..Len(queue) /\ queue'[n] = queue[n]
               \/ n = Len(queue) + 1 /\ queue'[n] = c
    BY <1>1, <1>4, <2>3
  <2>4. \A d \in Loads : d # c => loads'[d] = loads[d]
    BY <1>4 DEF Shape
  <2>5. loads'[c].pc = "queued"
    BY <1>4 DEF Shape
  <2>6. LineIsQueued'
    <3>1. \A n \in 1..Len(queue') : loads'[queue'[n]].pc = "queued"
      BY <2>2, <2>3, <2>4, <2>5
    <3>2. ASSUME NEW m \in 1..Len(queue'), NEW n \in 1..Len(queue'), queue'[m] = queue'[n]
          PROVE  m = n
      BY <1>2, <2>2, <2>3, <3>2 DEF LineIsQueued
    <3>. QED BY <1>2, <3>1, <3>2 DEF LineIsQueued
  <2>7. Holding' = Holding
    BY <2>4, <2>5 DEF Holding, Ensure, Idle
  <2>8. CounterIsTrue'
    BY <1>4, <2>7 DEF CounterIsTrue
  <2>9. SlotsAreGiven'
    BY <1>1, <1>4 DEF SlotsAreGiven
  <2>. QED BY <2>1, <2>6, <2>8, <2>9
<1>5. CASE /\ loads' = [loads EXCEPT ![c] = [pc |-> "asking", url |-> url, for |-> whom]]
           /\ inflight' = inflight + 1 /\ queue' = queue /\ ~(inflight >= MaxInflight)
  <2>1. Shape'
    BY <1>1, <1>5 DEF Shape, Entry
  <2>2. queue = <<>>
    BY <1>1, <1>5 DEF SlotsAreGiven
  <2>3. LineIsQueued'
    BY <1>2, <1>5, <2>2 DEF LineIsQueued
  <2>4. \A d \in Loads : d # c => loads'[d] = loads[d]
    BY <1>5 DEF Shape
  <2>5. loads'[c].pc = "asking" /\ loads[c].pc = "idle"
    BY <1>5 DEF Shape, Ensure, Idle
  <2>6. Holding' = Holding \union {c} /\ c \notin Holding
    BY <2>4, <2>5 DEF Holding
  <2>7. CounterIsTrue'
    BY <1>1, <1>5, <2>6, HoldingIsFinite, FS_AddElement DEF CounterIsTrue
  <2>8. SlotsAreGiven'
    BY <1>1, <1>5, <2>2 DEF SlotsAreGiven
  <2>. QED BY <2>1, <2>3, <2>7, <2>8
<1>. QED BY <1>3, <1>4, <1>5 DEF Ensure

(* The waiter that was woken goes on.                                       *)
LEMMA WakeInvariant ==
  ASSUME TilesAssumption, IInv, Wake
  PROVE  IInv'
<1>. USE DEF IInv
<1>. DEFINE c == Head(woken)
<1>1. /\ woken \in Seq(Loads) /\ woken # <<>> /\ woken' = Tail(woken) /\ queue' = queue /\ queue \in Seq(Loads)
      /\ c \in Loads /\ c = woken[1] /\ Len(woken) \in Nat /\ Len(woken) > 0 /\ Tail(woken) \in Seq(Loads)
      /\ Len(woken') = Len(woken) - 1 /\ inflight \in Nat /\ MaxInflight \in Nat
  BY HeadTailProperties DEF Wake, Shape, TilesAssumption
<1>2. 1 \in 1..Len(Line) /\ c = Line[1] /\ Len(Line) \in Nat
  BY <1>1 DEF Line
<1>3. loads[c].pc = "queued"
  BY <1>2 DEF LineIsQueued
<1>. HIDE DEF c
<1>4. loads[c] \in Entry
  BY <1>1, <1>3 DEF Shape, Idle
<1>5. PICK pc \in {"asking", "leaving"} : loads' = [loads EXCEPT ![c].pc = pc]
  BY DEF Wake, c
<1>6. [loads[c] EXCEPT !.pc = pc] \in Entry /\ [loads[c] EXCEPT !.pc = pc].pc = pc
  BY <1>4 DEF Entry
<1>7. loads'[c].pc = pc /\ \A d \in Loads : d # c => loads'[d] = loads[d]
  BY <1>1, <1>5, <1>6 DEF Shape
<1>8. Shape'
  BY <1>1, <1>5, <1>6 DEF Shape, Wake
<1>9. LineIsQueued'
  <2>1. Len(Line') = Len(Line) - 1 /\ \A n \in 1..Len(Line') : n + 1 \in 1..Len(Line) /\ Line'[n] = Line[n + 1]
    BY <1>1, GoingOn DEF Line
  <2>2. ASSUME NEW n \in 1..Len(Line') PROVE Line'[n] \in Loads /\ Line'[n] # c
    <3>1. Line \in Seq(Loads)
      BY <1>1 DEF Line
    <3>2. n + 1 \in 1..Len(Line) /\ Line'[n] = Line[n + 1] /\ n + 1 # 1
      BY <1>2, <2>1
    <3>. QED BY <1>2, <3>1, <3>2 DEF LineIsQueued
  <2>3. \A n \in 1..Len(Line') : loads'[Line'[n]].pc = "queued"
    BY <1>7, <2>1, <2>2 DEF LineIsQueued
  <2>4. ASSUME NEW m \in 1..Len(Line'), NEW n \in 1..Len(Line'), Line'[m] = Line'[n] PROVE m = n
    <3>1. m + 1 = n + 1
      BY <2>1, <2>4 DEF LineIsQueued
    <3>. QED BY <1>2, <2>1, <3>1
  <2>. QED BY <2>3, <2>4 DEF LineIsQueued
<1>10. Holding' = Holding \union {c} /\ c \notin Holding
  BY <1>1, <1>3, <1>5, <1>7 DEF Holding
<1>11. CounterIsTrue'
  BY <1>10, HoldingIsFinite, FS_AddElement DEF CounterIsTrue, Wake
<1>12. SlotsAreGiven'
  <2>1. inflight' = inflight + 1
    BY DEF Wake
  <2>. QED BY <1>1, <2>1 DEF SlotsAreGiven
<1>. QED BY <1>8, <1>9, <1>11, <1>12

(* A call gives its slot to the line.                                       *)
LEMMA ReleaseInvariant ==
  ASSUME TilesAssumption, IInv, NEW c \in Holding, Release(c), capture' = capture
  PROVE  IInv'
<1>. USE DEF IInv
<1>1. /\ c \in Loads /\ loads[c].pc \in {"asking", "leaving"} /\ queue \in Seq(Loads) /\ woken \in Seq(Loads)
      /\ inflight \in Nat /\ MaxInflight \in Nat
  BY DEF Holding, Shape, TilesAssumption
<1>2. Holding' = Holding \ {c}
  BY <1>1 DEF Holding, Release, Shape, Idle
<1>3. CounterIsTrue' /\ inflight' \in Nat
  <2>1. Cardinality(Holding') = Cardinality(Holding) - 1 /\ Cardinality(Holding') \in Nat
    <3>1. IsFiniteSet(Holding)
      BY HoldingIsFinite
    <3>2. IsFiniteSet(Holding \ {c}) /\ Cardinality(Holding \ {c}) = Cardinality(Holding) - 1
      BY <3>1, FS_RemoveElement
    <3>. QED BY <1>2, <3>2, FS_CardinalityType
  <2>. QED BY <2>1 DEF CounterIsTrue, Release
<1>4. \A d \in Loads : d # c => loads'[d] = loads[d]
  BY <1>1 DEF Release, Shape
<1>5. Line' = Line /\ queue' \in Seq(Loads) /\ woken' \in Seq(Loads)
  <2>1. CASE queue = <<>>
    BY <1>1, <2>1 DEF Release, Line
  <2>2. CASE queue # <<>>
    BY <1>1, <2>2, Waking, HeadTailProperties, AppendProperties DEF Release, Line
  <2>. QED BY <2>1, <2>2
<1>6. Shape'
  BY <1>1, <1>3, <1>5 DEF Shape, Release
<1>7. LineIsQueued'
  <2>1. Line \in Seq(Loads)
    BY <1>1 DEF Line
  <2>2. \A n \in 1..Len(Line) : Line[n] \in Loads /\ Line[n] # c
    BY <1>1, <2>1 DEF LineIsQueued
  <2>. QED BY <1>4, <1>5, <2>2 DEF LineIsQueued
<1>8. SlotsAreGiven'
  <2>1. CASE queue = <<>>
    BY <1>1, <2>1 DEF Release, SlotsAreGiven
  <2>2. CASE queue # <<>>
    <3>1. Len(woken') = Len(woken) + 1 /\ inflight' = inflight - 1 /\ Len(woken) \in Nat
      BY <1>1, <2>2, HeadTailProperties, AppendProperties DEF Release
    <3>. QED BY <1>1, <2>2, <3>1 DEF SlotsAreGiven
  <2>. QED BY <2>1, <2>2
<1>. QED BY <1>3, <1>6, <1>7, <1>8

LEMMA InvariantStays ==
  ASSUME TilesAssumption, IInv, [Next]_vars
  PROVE  IInv'
<1>1. CASE Wake
  BY <1>1, WakeInvariant
<1>2. CASE Capture \/ Clear
  <2>1. UNCHANGED <<inflight, queue, woken, loads>>
    BY <1>2 DEF Capture, Clear
  <2>2. capture' \in Seq(Urls)
    <3>1. CASE Capture
      <4>1. Cardinality(Urls) \in Nat
        BY FS_CardinalityType DEF TilesAssumption
      <4>2. PICK jobs \in SetToSeqs(Urls) : capture' = jobs
        BY <3>1 DEF Capture
      <4>3. jobs \in [1..Cardinality(Urls) -> Urls]
        BY <4>2 DEF SetToSeqs
      <4>. QED BY <4>1, <4>2, <4>3
    <3>2. CASE Clear
      BY <3>2 DEF Clear, IInv, Shape
    <3>. QED BY <1>2, <3>1, <3>2
  <2>. QED BY <2>1, <2>2 DEF IInv, Shape, LineIsQueued, Line, CounterIsTrue, Holding, SlotsAreGiven
<1>3. ASSUME NEW c \in Loads, TakeJob(c) PROVE IInv'
  <2>1. Head(capture) \in Urls /\ Tail(capture) \in Seq(Urls)
    BY <1>3, HeadTailProperties DEF TakeJob, IInv, Shape
  <2>. QED BY <1>3, <2>1, EnsureInvariant DEF TakeJob
<1>4. ASSUME NEW c \in Loads, Arrive(c) \/ Leave(c) PROVE IInv'
  <2>1. c \in Holding /\ Release(c) /\ capture' = capture
    BY <1>4 DEF Arrive, Leave, Failed, Holding
  <2>. QED BY <2>1, ReleaseInvariant
<1>5. ASSUME NEW c \in Loads, NEW url \in Urls, Show(c, url) \/ Prefetch(c, url) PROVE IInv'
  <2>1. capture' \in Seq(Urls)
    BY <1>5 DEF Show, Prefetch, IInv, Shape
  <2>. QED BY <1>5, <2>1, EnsureInvariant DEF Show, Prefetch
<1>6. CASE UNCHANGED vars
  BY <1>6 DEF vars, IInv, Shape, LineIsQueued, Line, CounterIsTrue, Holding, SlotsAreGiven
<1>. QED BY <1>1, <1>2, <1>3, <1>4, <1>5, <1>6 DEF Next

(* However tiles are asked for, come, fail or are found in the cache while  *)
(* they wait, dzz.by is not asked for more than DZZ_MAX_INFLIGHT at once,   *)
(* and withInflight of tiles.js leaves no slot free while somebody waits.   *)
THEOREM SlotsAlwaysUsed ==
  ASSUME TilesAssumption
  PROVE  Spec => []SlotsAreUsed
<1>1. Init => IInv
  BY InitInvariant
<1>2. IInv /\ [Next]_vars => IInv'
  BY InvariantStays
<1>3. IInv => SlotsAreUsed
  BY InvariantImplies
<1>. QED BY <1>1, <1>2, <1>3, PTL DEF Spec

-----------------------------------------------------------------------------
(* The sum with the connection to dzz.by                                    *)

Client ==
  [app : BOOLEAN, polling : BOOLEAN, basemap : {"satellite", "dzz"}, connected : BOOLEAN,
   failing : BOOLEAN, tilesFailing : BOOLEAN, timer : BOOLEAN, missed : BOOLEAN]

Call ==
  [pc : {"idle", "sent", "answered", "restoring", "confirming", "closing"}, sid : Nat,
   answer : {"none", "yes", "no", "ok", "error", "denied", "lost"}, left : Nat]

PanelShape == client \in Client /\ calls \in [D!Calls -> Call] /\ cookie \in Nat

(* The panel only looks for tiles that tiles.js counts as failing, and what *)
(* tiles.js counts it looks for, unless it was told that all is well.       *)
Counts(c) == (c.tilesFailing => c.failing) /\ (c.failing => c.missed \/ c.tilesFailing)

(* A check is scheduled or under way.                                       *)
Looking(c, table) == c.timer \/ \E k \in D!Checks : table[k] # D!Idle

Watched(c, table) ==
  c.failing /\ ~c.missed /\ c.connected => Looking(c, table)

WatchInv == PanelShape /\ Counts(client) /\ Watched(client, calls)

-----------------------------------------------------------------------------
(* What the panel does to its variables                                     *)

LEMMA ConnectedKeeps ==
  ASSUME NEW c \in Client, NEW yes \in BOOLEAN, NEW table, Counts(c), Watched(c, table)
  PROVE  /\ D!Connected(c, yes) \in Client
         /\ Counts(D!Connected(c, yes)) /\ Watched(D!Connected(c, yes), table)
BY DEF D!Connected, Client, Counts, Watched, Looking

LEMMA StoppedKeeps ==
  ASSUME NEW c \in Client, NEW table, NEW new, Counts(c)
  PROVE  D!Stopped(c) \in Client /\ Counts(D!Stopped(c)) /\ Watched(D!Stopped(c), new)
BY DEF D!Stopped, Client, Counts, Watched, Looking

LEMMA ScheduledKeeps ==
  ASSUME NEW c \in Client, NEW new, Counts(c)
  PROVE  D!Scheduled(c) \in Client /\ Counts(D!Scheduled(c)) /\ Watched(D!Scheduled(c), new)
BY DEF D!Scheduled, Client, Counts, Watched, Looking

(* The listeners, after an outcome that is news.                            *)
LEMMA ReportedKeeps ==
  ASSUME NEW c \in Client, NEW ok \in BOOLEAN, NEW reason, NEW table,
         Counts(c), Watched(c, table)
  PROVE  /\ D!Reported(c, ok, reason) \in Client
         /\ Counts(D!Reported(c, ok, reason)) /\ Watched(D!Reported(c, ok, reason), table)
<1>1. CASE ok = ~c.failing
  BY <1>1 DEF D!Reported
<1>2. CASE ok /\ c.failing
  BY <1>2 DEF D!Reported, D!Stopped, Client, Counts, Watched, Looking
<1>3. CASE ~ok /\ ~c.failing
  <2>1. ~c.tilesFailing
    BY <1>3 DEF Counts
  <2>. QED
    BY <1>3, <2>1 DEF D!Reported, D!Scheduled, Client, Counts, Watched, Looking
<1>. QED
  BY <1>1, <1>2, <1>3 DEF Client

(* A step that ends no check leaves it under way.                           *)
LEMMA ChecksGoOn ==
  ASSUME NEW c, NEW table, NEW new, Watched(c, table),
         \A k \in D!Checks : table[k] # D!Idle => new[k] # D!Idle
  PROVE  Watched(c, new)
BY DEF Watched, Looking

-----------------------------------------------------------------------------
(* The steps                                                                *)

(* A request that is sent, or joined if it is under way.                    *)
LEMMA SentSound ==
  ASSUME NEW table \in [D!Calls -> Call], NEW n \in D!Calls, NEW sid \in Nat, NEW left \in Nat
  PROVE  D!Sent(table, n, sid, left) \in [D!Calls -> Call] /\ D!Sent(table, n, sid, left)[n] # D!Idle
BY DEF D!Sent, Call, D!Idle

LEMMA JoinedSound ==
  ASSUME NEW table \in [D!Calls -> Call], NEW n \in D!Calls, NEW sid \in Nat
  PROVE  /\ D!Joined(table, n, sid) \in [D!Calls -> Call]
         /\ \A k \in D!Calls : table[k] # D!Idle => D!Joined(table, n, sid)[k] # D!Idle
BY DEF D!Joined, D!Sent, Call, D!Idle

(* What is asked anew, and what waits.                                      *)
LEMMA TableSound ==
  ASSUME NEW table \in [D!Calls -> Call], NEW n \in D!Calls, NEW sid \in Nat, NEW left \in Nat
  PROVE  /\ D!Sent(table, n, sid, left) \in [D!Calls -> Call]
         /\ D!Joined(table, n, sid) \in [D!Calls -> Call]
         /\ D!Finished(table, n) \in [D!Calls -> Call]
         /\ \A pc \in {"restoring", "confirming", "closing"} : D!Waits(table, n, pc) \in [D!Calls -> Call]
         /\ \A k \in D!Calls : table[k] # D!Idle =>
              D!Sent(table, n, sid, left)[k] # D!Idle /\ D!Joined(table, n, sid)[k] # D!Idle
         /\ D!Sent(table, n, sid, left)[n] # D!Idle
         /\ \A k \in D!Calls \ {n} : D!Finished(table, n)[k] = table[k]
         /\ \A k \in D!Calls \ {n}, pc \in {"restoring", "confirming", "closing"} :
              D!Waits(table, n, pc)[k] = table[k]
<1>1. D!Idle \in Call
  BY DEF D!Idle, Call, D!NoSid
<1>2. D!Sent(table, n, sid, left) \in [D!Calls -> Call] /\ D!Sent(table, n, sid, left)[n] # D!Idle
  BY SentSound
<1>3. \A k \in D!Calls : table[k] # D!Idle => D!Sent(table, n, sid, left)[k] # D!Idle
  BY <1>2 DEF D!Sent
<1>4. D!Joined(table, n, sid) \in [D!Calls -> Call]
      /\ \A k \in D!Calls : table[k] # D!Idle => D!Joined(table, n, sid)[k] # D!Idle
  BY JoinedSound
<1>5. D!Finished(table, n) \in [D!Calls -> Call]
      /\ \A k \in D!Calls \ {n} : D!Finished(table, n)[k] = table[k]
  BY <1>1 DEF D!Finished
<1>6. ASSUME NEW pc \in {"restoring", "confirming", "closing"}
      PROVE  D!Waits(table, n, pc) \in [D!Calls -> Call]
             /\ \A k \in D!Calls \ {n} : D!Waits(table, n, pc)[k] = table[k]
  BY <1>6 DEF D!Waits, Call
<1>. QED
  BY <1>2, <1>3, <1>4, <1>5, <1>6

LEMMA ReplySound ==
  ASSUME calls \in [D!Calls -> Call], NEW n \in D!Calls,
         NEW what \in {"yes", "no", "ok", "error", "denied", "lost"}, D!Reply(n, what)
  PROVE  /\ calls' \in [D!Calls -> Call]
         /\ \A k \in D!Calls : calls[k] # D!Idle => calls'[k] # D!Idle
BY DEF D!Reply, Call, D!Idle

LEMMA NamedCalls ==
  ASSUME D!DzzAssumption
  PROVE  /\ D!Checks \subseteq D!Calls /\ Tiles \subseteq D!Calls /\ D!Single \subseteq D!Calls
         /\ Tiles \intersect D!Checks = {} /\ D!Single \intersect D!Checks = {}
         /\ {"status", "restore", "connect", "disconnect", "basemap"} = D!Single
BY DEF D!DzzAssumption, D!Calls, D!Checks, D!Single

LEMMA ServeWatched ==
  ASSUME D!DzzAssumption, WatchInv, NEW n \in D!Calls, D!Serve(n)
  PROVE  WatchInv'
<1>1. calls' \in [D!Calls -> Call] /\ \A k \in D!Calls : calls[k] # D!Idle => calls'[k] # D!Idle
  <2>1. CASE D!ServeStatus(n)
    BY <2>1, ReplySound DEF D!ServeStatus, WatchInv, PanelShape
  <2>2. CASE D!ServeTile(n)
    BY <2>2, ReplySound DEF D!ServeTile, WatchInv, PanelShape
  <2>3. CASE D!ServeDisconnect(n)
    BY <2>3, ReplySound DEF D!ServeDisconnect, WatchInv, PanelShape
  <2>4. CASE D!ServeConnect(n) /\ upstream # "online"
    BY <2>4, ReplySound DEF D!ServeConnect, WatchInv, PanelShape
  <2>5. CASE D!ServeConnect(n) /\ upstream = "online"
    <3>1. PICK sid \in D!Sids :
            calls' = [calls EXCEPT ![n] = [@ EXCEPT !.pc = "answered", !.answer = "ok", !.sid = sid]]
      BY <2>5 DEF D!ServeConnect
    <3>2. sid \in Nat
      BY DEF D!Sids, D!DzzAssumption
    <3>. QED
      BY <3>1, <3>2 DEF WatchInv, PanelShape, Call, D!Idle
  <2>. QED
    BY <2>1, <2>2, <2>3, <2>4, <2>5 DEF D!Serve
<1>. QED
  BY <1>1, ChecksGoOn, NamedCalls DEF D!Serve, WatchInv, PanelShape

LEMMA PollWatched ==
  ASSUME D!DzzAssumption, WatchInv, D!Poll
  PROVE  WatchInv'
<1>1. "status" \in D!Calls /\ 0 \in Nat
  BY DEF D!Calls, D!Single
<1>2. calls' \in [D!Calls -> Call] /\ \A k \in D!Calls : calls[k] # D!Idle => calls'[k] # D!Idle
  BY <1>1, TableSound DEF D!Poll, WatchInv, PanelShape
<1>. QED
  BY <1>2, NamedCalls, ChecksGoOn DEF D!Poll, WatchInv, PanelShape

LEMMA WantWatched ==
  ASSUME D!DzzAssumption, WatchInv, NEW t \in Tiles, D!Want(t)
  PROVE  WatchInv'
<1>1. Attempts \in Nat
  BY DEF D!DzzAssumption
<1>. QED
  BY <1>1, TableSound, NamedCalls, ChecksGoOn DEF D!Want, WatchInv, PanelShape, D!Kept

(* The answers that tell the panel whether there is a connection.           *)
LEMMA StatusWatched ==
  ASSUME D!DzzAssumption, WatchInv, D!StatusArrives
  PROVE  WatchInv'
<1>1. {"status", "restore"} \subseteq D!Calls \ D!Checks /\ 0 \in Nat
  BY DEF D!Calls, D!Single, D!Checks
<1>2. /\ calls \in [D!Calls -> Call] /\ cookie \in Nat /\ cookie' = cookie
      /\ client \in Client /\ Counts(client) /\ Watched(client, calls)
  BY DEF D!StatusArrives, WatchInv, PanelShape
<1>3. CASE calls["status"].answer = "yes" /\ ~client.connected
  <2>. DEFINE waiting == D!Waits(calls, "status", "confirming")
  <2>1. waiting \in [D!Calls -> Call] /\ \A k \in D!Checks : waiting[k] = calls[k]
    BY <1>1, <1>2, TableSound, NamedCalls
  <2>2. calls' = D!Joined(waiting, "restore", cookie) /\ client' = client
    BY <1>3 DEF D!StatusArrives
  <2>. HIDE DEF waiting
  <2>3. calls' \in [D!Calls -> Call] /\ \A k \in D!Checks : waiting[k] # D!Idle => calls'[k] # D!Idle
    BY <1>1, <1>2, <2>1, <2>2, TableSound, NamedCalls
  <2>. QED
    BY <1>2, <2>1, <2>2, <2>3, ChecksGoOn DEF WatchInv, PanelShape
<1>4. CASE ~(calls["status"].answer = "yes" /\ ~client.connected)
  <2>1. calls' \in [D!Calls -> Call] /\ \A k \in D!Checks : calls'[k] = calls[k]
    BY <1>1, <1>2, <1>4, TableSound, NamedCalls DEF D!StatusArrives
  <2>2. client' = client \/ \E yes \in BOOLEAN : client' = D!Connected(client, yes)
    BY <1>4 DEF D!StatusArrives
  <2>3. client' \in Client /\ Counts(client') /\ Watched(client', calls)
    BY <1>2, <2>2, ConnectedKeeps
  <2>. QED
    BY <1>2, <2>1, <2>3, ChecksGoOn DEF WatchInv, PanelShape
<1>. QED
  BY <1>3, <1>4

LEMMA RestoreWatched ==
  ASSUME D!DzzAssumption, WatchInv, D!RestoreArrives
  PROVE  WatchInv'
<1>. DEFINE yes == calls["restore"].answer = "yes"
            again == {t \in D!Restoring : yes /\ calls[t].left > 1}
            told == IF calls["restore"].answer = "lost" THEN client ELSE D!Connected(client, yes)
            shown == IF calls["basemap"].pc = "idle" THEN told
                     ELSE [told EXCEPT !.basemap = IF yes THEN "dzz" ELSE "satellite"]
            after == IF D!Restoring = again THEN shown
                     ELSE D!Reported(shown, FALSE, IF yes THEN "network" ELSE "session")
            confirming == calls["status"].pc = "confirming"
<1>1. /\ calls \in [D!Calls -> Call] /\ cookie \in Nat /\ cookie' = cookie
      /\ client \in Client /\ Counts(client) /\ Watched(client, calls)
  BY DEF D!RestoreArrives, WatchInv, PanelShape
<1>2. told \in Client /\ Counts(told) /\ Watched(told, calls)
  BY <1>1, ConnectedKeeps
<1>3. shown \in Client /\ Counts(shown) /\ Watched(shown, calls)
  <2>. HIDE DEF told
  <2>. QED BY <1>2 DEF Client, Counts, Watched, Looking
<1>4. after \in Client /\ Counts(after) /\ Watched(after, calls)
  <2>. HIDE DEF shown
  <2>. QED BY <1>3, ReportedKeeps
<1>5. client' = IF confirming THEN D!Connected(after, TRUE) ELSE after
  BY DEF D!RestoreArrives
<1>6. client' \in Client /\ Counts(client') /\ Watched(client', calls)
  <2>. HIDE DEF after
  <2>. QED BY <1>4, <1>5, ConnectedKeeps
<1>7. calls' = [n \in D!Calls |->
           IF n \in again THEN [D!Idle EXCEPT !.pc = "sent", !.sid = cookie, !.left = calls[n].left - 1]
           ELSE IF n \in D!Restoring \union {"restore", "basemap"} \/ (n = "status" /\ confirming)
           THEN D!Idle
           ELSE calls[n]]
  BY DEF D!RestoreArrives
<1>8. calls' \in [D!Calls -> Call]
  <2>1. D!Idle \in Call
    BY DEF D!Idle, Call, D!NoSid
  <2>2. ASSUME NEW n \in again
        PROVE  [D!Idle EXCEPT !.pc = "sent", !.sid = cookie, !.left = calls[n].left - 1] \in Call
    <3>1. n \in D!Calls /\ calls[n] \in Call /\ calls[n].left > 1
      BY <1>1, NamedCalls DEF D!Restoring
    <3>2. calls[n].left \in Nat /\ calls[n].left - 1 \in Nat
      BY <3>1 DEF Call
    <3>. QED BY <1>1, <3>2 DEF D!Idle, Call
  <2>. HIDE DEF again, confirming
  <2>. QED BY <1>1, <1>7, <2>1, <2>2
<1>9. \A k \in D!Checks : calls'[k] = calls[k]
  <2>1. \A k \in D!Checks : k \notin D!Restoring /\ k \notin D!Single /\ k \in D!Calls
    BY NamedCalls DEF D!Restoring
  <2>2. again \subseteq D!Restoring
    OBVIOUS
  <2>. HIDE DEF again, confirming
  <2>. QED BY <1>7, <2>1, <2>2 DEF D!Single
<1>. QED
  BY <1>1, <1>6, <1>8, <1>9, ChecksGoOn DEF WatchInv, PanelShape

(* The outcome of a tile, or its next attempt.                              *)
LEMMA TileWatched ==
  ASSUME D!DzzAssumption, WatchInv, NEW t \in Tiles, D!TileArrives(t)
  PROVE  WatchInv'
<1>1. /\ calls \in [D!Calls -> Call] /\ cookie \in Nat /\ cookie' = cookie
      /\ client \in Client /\ Counts(client) /\ Watched(client, calls)
      /\ t \in D!Calls \ D!Checks /\ "restore" \in D!Calls \ D!Checks
  BY NamedCalls DEF D!TileArrives, WatchInv, PanelShape
<1>2. \/ client' = client \/ client' = D!Reported(client, TRUE, "none")
      \/ client' = D!Reported(client, FALSE, "network")
  BY DEF D!TileArrives
<1>3. client' \in Client /\ Counts(client') /\ Watched(client', calls)
  BY <1>1, <1>2, ReportedKeeps
<1>4. calls' \in [D!Calls -> Call] /\ \A k \in D!Checks : calls[k] # D!Idle => calls'[k] # D!Idle
  <2>1. CASE calls' = D!Finished(calls, t)
    <3>1. 0 \in Nat /\ \A k \in D!Checks : k \in D!Calls \ {t}
      BY <1>1, NamedCalls
    <3>. QED BY <1>1, <2>1, <3>1, TableSound
  <2>2. CASE calls' = D!Sent(calls, t, cookie, calls[t].left - 1) /\ calls[t].left > 1
    <3>1. calls[t].left - 1 \in Nat
      BY <1>1, <2>2 DEF Call
    <3>. QED BY <1>1, <2>2, <3>1, TableSound, NamedCalls
  <2>3. CASE calls' = D!Joined(D!Waits(calls, t, "restoring"), "restore", cookie)
    <3>. DEFINE waiting == D!Waits(calls, t, "restoring")
    <3>1. waiting \in [D!Calls -> Call] /\ \A k \in D!Checks : waiting[k] = calls[k]
      BY <1>1, TableSound, NamedCalls
    <3>2. calls' = D!Joined(waiting, "restore", cookie)
      BY <2>3
    <3>. HIDE DEF waiting
    <3>. QED BY <1>1, <3>1, <3>2, TableSound, NamedCalls
  <2>. QED BY <2>1, <2>2, <2>3 DEF D!TileArrives
<1>. QED
  BY <1>1, <1>3, <1>4, ChecksGoOn DEF WatchInv, PanelShape

(* The timer is over: the panel asks, unless it does not look any more.     *)
LEMMA RecoveryWatched ==
  ASSUME D!DzzAssumption, WatchInv, D!RecoveryFires
  PROVE  WatchInv'
<1>1. /\ calls \in [D!Calls -> Call] /\ cookie \in Nat /\ cookie' = cookie
      /\ client \in Client /\ Counts(client) /\ Watched(client, calls)
      /\ client' = [client EXCEPT !.timer = FALSE]
  BY DEF D!RecoveryFires, WatchInv, PanelShape
<1>2. client' \in Client /\ Counts(client')
  BY <1>1 DEF Client, Counts
<1>3. CASE client.tilesFailing /\ client.connected
  <2>1. PICK k \in D!Checks : calls' = D!Sent(calls, k, cookie, 0)
    BY <1>3 DEF D!RecoveryFires
  <2>2. calls' \in [D!Calls -> Call] /\ calls'[k] # D!Idle
    <3>1. k \in D!Calls /\ 0 \in Nat
      BY NamedCalls
    <3>. QED BY <1>1, <2>1, <3>1, SentSound
  <2>. QED
    BY <1>1, <1>2, <2>2 DEF WatchInv, PanelShape, Watched, Looking
<1>4. CASE ~(client.tilesFailing /\ client.connected)
  <2>1. calls' = calls
    BY <1>4 DEF D!RecoveryFires
  <2>2. client.failing /\ ~client.missed => ~client.connected
    BY <1>1, <1>4 DEF Counts
  <2>3. Watched(client', calls)
    BY <1>1, <2>2 DEF Watched, Client
  <2>. QED
    BY <1>1, <1>2, <2>1, <2>3 DEF WatchInv, PanelShape
<1>. QED
  BY <1>3, <1>4

(* A check ends with the news that all is well, or with the next check.     *)
LEMMA CheckWatched ==
  ASSUME D!DzzAssumption, WatchInv, NEW k \in D!Checks, D!CheckArrives(k)
  PROVE  WatchInv'
<1>1. calls' \in [D!Calls -> Call] /\ cookie' \in Nat
  BY TableSound, NamedCalls DEF D!CheckArrives, WatchInv, PanelShape
<1>2. client' = D!Stopped(client) \/ client' = D!Scheduled(client)
  BY DEF D!CheckArrives
<1>. QED
  BY <1>1, <1>2, StoppedKeeps, ScheduledKeeps DEF WatchInv, PanelShape

(* What the user asked for has been done, or not.                           *)
LEMMA CommandWatched ==
  ASSUME D!DzzAssumption, WatchInv, D!ConnectArrives \/ D!DisconnectArrives \/ D!Close
  PROVE  WatchInv'
<1>1. /\ calls \in [D!Calls -> Call] /\ cookie \in Nat
      /\ client \in Client /\ Counts(client) /\ Watched(client, calls)
      /\ {"connect", "disconnect", "status"} \subseteq D!Calls \ D!Checks
      /\ calls["connect"].sid \in Nat
  BY NamedCalls DEF WatchInv, PanelShape, Call
<1>. DEFINE finished == D!Finished(calls, "connect")
            closing == D!Waits(calls, "disconnect", "closing")
<1>2. /\ finished \in [D!Calls -> Call] /\ \A k \in D!Checks : finished[k] = calls[k]
      /\ D!Finished(calls, "disconnect") \in [D!Calls -> Call]
      /\ \A k \in D!Checks : D!Finished(calls, "disconnect")[k] = calls[k]
      /\ closing \in [D!Calls -> Call] /\ \A k \in D!Checks : closing[k] = calls[k]
  BY <1>1, TableSound, NamedCalls
<1>3. /\ cookie' \in Nat
      /\ \/ calls' \in {finished, D!Finished(calls, "disconnect")}
         \/ \E table \in {finished, closing} : calls' = D!Joined(table, "status", cookie')
  <2>1. CASE D!ConnectArrives
    BY <1>1, <2>1 DEF D!ConnectArrives
  <2>2. CASE D!DisconnectArrives
    <3>1. CASE calls["disconnect"].answer = "ok"
      <4>1. cookie' = 0 /\ calls' = D!Joined(closing, "status", cookie')
        BY <2>2, <3>1 DEF D!DisconnectArrives, D!NoSid
      <4>. QED BY <4>1
    <3>2. CASE calls["disconnect"].answer # "ok"
      <4>1. cookie' = cookie /\ calls' = D!Finished(calls, "disconnect")
        BY <2>2, <3>2 DEF D!DisconnectArrives
      <4>. QED BY <1>1, <4>1
    <3>. QED BY <3>1, <3>2
  <2>3. CASE D!Close
    BY <1>1, <2>3 DEF D!Close
  <2>. QED BY <2>1, <2>2, <2>3
<1>. HIDE DEF finished, closing
<1>4. calls' \in [D!Calls -> Call] /\ \A k \in D!Checks : calls[k] # D!Idle => calls'[k] # D!Idle
  <2>1. CASE calls' \in {finished, D!Finished(calls, "disconnect")}
    BY <1>2, <2>1
  <2>2. ASSUME NEW table \in {finished, closing}, calls' = D!Joined(table, "status", cookie')
        PROVE  calls' \in [D!Calls -> Call] /\ \A k \in D!Checks : calls[k] # D!Idle => calls'[k] # D!Idle
    <3>1. table \in [D!Calls -> Call] /\ \A k \in D!Checks : table[k] = calls[k]
      BY <1>2
    <3>2. "status" \in D!Calls /\ D!Checks \subseteq D!Calls
      BY <1>1, NamedCalls
    <3>. QED BY <1>3, <2>2, <3>1, <3>2, JoinedSound
  <2>. QED BY <1>3, <2>1, <2>2
<1>5. client' \in Client /\ Counts(client') /\ Watched(client', calls)
  <2>1. CASE D!ConnectArrives
    <3>. DEFINE told == D!Connected(client, TRUE)
    <3>1. told \in Client /\ Counts(told) /\ Watched(told, calls)
      BY <1>1, ConnectedKeeps
    <3>2. client' = D!Connected(client, FALSE) \/ client' = [told EXCEPT !.basemap = "dzz"]
      BY <2>1 DEF D!ConnectArrives
    <3>. HIDE DEF told
    <3>3. CASE client' = [told EXCEPT !.basemap = "dzz"]
      BY <3>1, <3>3 DEF Client, Counts, Watched, Looking
    <3>. QED BY <1>1, <3>2, <3>3, ConnectedKeeps
  <2>2. CASE D!DisconnectArrives
    <3>1. client' = client \/ client' = D!Stopped(D!Connected(client, FALSE))
      BY <2>2 DEF D!DisconnectArrives
    <3>. QED BY <1>1, <3>1, ConnectedKeeps, StoppedKeeps
  <2>3. CASE D!Close
    <3>1. client' = [client EXCEPT !.basemap = "satellite"]
      BY <2>3 DEF D!Close
    <3>. QED BY <1>1, <3>1 DEF Client, Counts, Watched, Looking
  <2>. QED BY <2>1, <2>2, <2>3
<1>. QED
  BY <1>1, <1>3, <1>4, <1>5, ChecksGoOn DEF WatchInv, PanelShape

LEMMA UserWatched ==
  ASSUME D!DzzAssumption, WatchInv, D!User
  PROVE  WatchInv'
<1>1. /\ calls \in [D!Calls -> Call] /\ cookie \in Nat /\ cookie' = cookie /\ 0 \in Nat
      /\ client \in Client /\ Counts(client) /\ Watched(client, calls)
      /\ {"connect", "disconnect", "basemap", "restore"} \subseteq D!Calls \ D!Checks
  BY NamedCalls DEF D!User, WatchInv, PanelShape
<1>2. CASE D!Logout
  <2>. DEFINE gone == D!Stopped(D!Connected(client, FALSE))
  <2>1. gone \in Client /\ Counts(gone) /\ Watched(gone, calls)
    BY <1>1, ConnectedKeeps, StoppedKeeps
  <2>2. calls' = calls /\ client' = [gone EXCEPT !.app = FALSE, !.polling = ~D!Free("status")]
    BY <1>2 DEF D!Logout
  <2>. HIDE DEF gone
  <2>3. client' \in Client /\ Counts(client') /\ Watched(client', calls)
    BY <2>1, <2>2 DEF Client, Counts, Watched, Looking, D!Free
  <2>. QED BY <1>1, <2>2, <2>3 DEF WatchInv, PanelShape
<1>3. CASE D!Login
  <2>. DEFINE waiting == D!Waits(calls, "basemap", "restoring")
  <2>1. waiting \in [D!Calls -> Call] /\ \A k \in D!Checks : waiting[k] = calls[k]
    BY <1>1, TableSound, NamedCalls
  <2>2. calls' = D!Joined(waiting, "restore", cookie)
        /\ client' = [client EXCEPT !.app = TRUE, !.polling = TRUE]
    BY <1>3 DEF D!Login
  <2>. HIDE DEF waiting
  <2>3. calls' \in [D!Calls -> Call] /\ \A k \in D!Checks : calls[k] # D!Idle => calls'[k] # D!Idle
    BY <1>1, <2>1, <2>2, TableSound, NamedCalls
  <2>4. client' \in Client /\ Counts(client') /\ Watched(client', calls)
    BY <1>1, <2>2 DEF Client, Counts, Watched, Looking
  <2>. QED BY <1>1, <2>3, <2>4, ChecksGoOn DEF WatchInv, PanelShape
<1>4. ASSUME NEW n \in D!Calls, D!Command(n) PROVE WatchInv'
  <2>1. calls' = D!Sent(calls, n, cookie, 0)
    BY <1>4 DEF D!Command
  <2>2. calls' \in [D!Calls -> Call] /\ \A k \in D!Calls : calls[k] # D!Idle => calls'[k] # D!Idle
    BY <1>1, <2>1, TableSound
  <2>. QED BY <1>1, <1>4, <2>2, NamedCalls, ChecksGoOn DEF D!Command, WatchInv, PanelShape
<1>. QED
  BY <1>2, <1>3, <1>4 DEF D!User

(* A restart and a loss are answers that did not come.                      *)
LEMMA WorldWatched ==
  ASSUME D!DzzAssumption, WatchInv, D!World
  PROVE  WatchInv'
<1>1. calls \in [D!Calls -> Call] /\ client' = client /\ cookie' = cookie
  BY DEF D!World, WatchInv, PanelShape
<1>2. calls' \in [D!Calls -> Call] /\ \A k \in D!Calls : calls[k] # D!Idle => calls'[k] # D!Idle
  <2>1. CASE D!Restart
    <3>1. ASSUME NEW n \in D!Calls
          PROVE  /\ [calls[n] EXCEPT !.pc = "answered", !.answer = "lost"] \in Call
                 /\ [calls[n] EXCEPT !.pc = "answered", !.answer = "lost"] # D!Idle
      BY <1>1 DEF Call, D!Idle
    <3>. QED BY <1>1, <2>1, <3>1 DEF D!Restart
  <2>2. CASE D!Expire \/ D!Turn
    BY <1>1, <2>2 DEF D!Expire, D!Turn
  <2>3. CASE D!Lose
    BY <1>1, <2>3, ReplySound DEF D!Lose
  <2>. QED BY <2>1, <2>2, <2>3 DEF D!World
<1>. QED
  BY <1>1, <1>2, ChecksGoOn, NamedCalls DEF WatchInv, PanelShape

-----------------------------------------------------------------------------
LEMMA WatchStarts ==
  ASSUME D!DzzAssumption, D!Init
  PROVE  WatchInv
BY DEF D!Init, WatchInv, PanelShape, Client, Call, D!Idle, D!NoSid, Counts, Watched

LEMMA WatchGoesOn ==
  ASSUME D!DzzAssumption, WatchInv, [D!Next]_D!vars
  PROVE  WatchInv'
<1>1. CASE UNCHANGED D!vars
  BY <1>1 DEF D!vars, WatchInv, PanelShape, Watched, Looking
<1>2. CASE D!Arrives
  BY <1>2, StatusWatched, RestoreWatched, CommandWatched, RecoveryWatched, CheckWatched, TileWatched
     DEF D!Arrives
<1>. QED
  BY <1>1, <1>2, PollWatched, ServeWatched, WantWatched, UserWatched, WorldWatched DEF D!Next

(* While tiles.js counts a failure and the panel believes in the connection,*)
(* scheduleRecoveryCheck has a timer or a check is under way:               *)
(* FailureIsWatched of the run, in every behaviour of the sum.              *)
THEOREM FailureIsAlwaysWatched == SpecMC => []FailureIsWatched
<1>1. InitMC => WatchInv
  BY MCImageryAssumption, WatchStarts DEF InitMC
<1>2. WatchInv /\ [NextMC]_<<part, vars, connection>> => WatchInv'
  <2>1. [NextMC]_<<part, vars, connection>> => [D!Next]_D!vars
    BY DEF NextMC, connection, D!vars, D!server
  <2>. QED BY <2>1, MCImageryAssumption, WatchGoesOn
<1>3. WatchInv => FailureIsWatched
  BY DEF WatchInv, Counts, Watched, Looking, FailureIsWatched, D!FailureIsWatched, D!Free
<1>. QED
  BY <1>1, <1>2, <1>3, PTL DEF SpecMC
=============================================================================
