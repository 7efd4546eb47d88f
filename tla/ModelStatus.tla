----------------------------- MODULE ModelStatus -----------------------------
(***************************************************************************)
(* What a user is told about the models: the processes of the Celery pool  *)
(* that load the weights and publish the outcome in Redis (workers.py),    *)
(* the API that reads it and pings the worker (health_store.py), and the   *)
(* pill of the client, painted by polls that may overlap (runner.js).      *)
(*                                                                         *)
(* One worker at a time: k8s replaces it with strategy Recreate.           *)
(***************************************************************************)
EXTENDS Naturals

CONSTANTS
  Children,   \* processes of the pool
  Codes,      \* the models
  MaxTurns    \* a bound on what happens to the world: faults, restarts, events

VARIABLES
  worker,     \* the main process of the worker: "up", "down"
  child,      \* the processes of the pool and the models each has loaded
  key,        \* agrovision:ml:health
  author,     \* the process that wrote it last, for the properties
  astray,     \* processes whose last publication failed or that were killed, for the properties
  online, polling,
  asks,       \* refreshMlHealth, from the timer and from an event
  pill,
  turns

vars == <<worker, child, key, author, astray, online, polling, asks, pill, turns>>

Nothing == [status |-> "none", models |-> {}]
Off == [pc |-> "off", models |-> {}]
Loading == [status |-> "loading", models |-> {}]
Unavailable == [status |-> "unavailable", models |-> {}]

(* ModelRuntime.health.                                                    *)
Health(models) == [status |-> IF models = {} THEN "unavailable" ELSE "ready", models |-> models]

NoAsk == [pc |-> "free", value |-> Nothing]

Init ==
  /\ worker = "down" /\ child = [c \in Children |-> Off]
  /\ key = Nothing /\ author = {} /\ astray = {}
  /\ online = TRUE /\ polling = FALSE
  /\ asks = [a \in {"timer", "event"} |-> NoAsk]
  /\ pill = Unavailable
  /\ turns = 0

Turn == turns < MaxTurns /\ turns' = turns + 1

client == <<online, polling, asks, pill>>

-----------------------------------------------------------------------------
(* The worker                                                              *)

(* _publish: a failure is logged and forgotten.                            *)
Publish(c, payload) ==
  \/ key' = payload /\ author' = {c} /\ astray' = astray \ {c} /\ UNCHANGED turns
  \/ Turn /\ astray' = astray \union {c} /\ UNCHANGED <<key, author>>

StartWorker ==
  /\ worker = "down" /\ Turn
  /\ worker' = "up"
  /\ UNCHANGED <<child, key, author, astray, client>>

(* _load_weights, before ...                                               *)
Boot(c) ==
  /\ worker = "up" /\ child[c] = Off
  /\ child' = [child EXCEPT ![c] = [pc |-> "loading", models |-> {}]]
  /\ Publish(c, Loading)
  /\ UNCHANGED <<worker, client>>

(* Mutant: the outcome is published only when every model could be loaded. *)
ReportAll(c) ==
  /\ child[c].pc = "loading"
  /\ \E models \in SUBSET Codes :
       /\ child' = [child EXCEPT ![c] = [pc |-> "up", models |-> models]]
       /\ IF models = Codes THEN Publish(c, Health(models)) ELSE UNCHANGED <<key, author, astray, turns>>
  /\ UNCHANGED <<worker, client>>

(* ... and after load_models, which loads what it can.                     *)
Report(c) ==
  /\ child[c].pc = "loading"
  /\ \E models \in SUBSET Codes :
       /\ child' = [child EXCEPT ![c] = [pc |-> "up", models |-> models]]
       /\ Publish(c, Health(models))
  /\ UNCHANGED <<worker, client>>

(* A process of the pool is killed, or does not load in time: the pool     *)
(* replaces it.                                                            *)
Die(c) ==
  /\ child[c] # Off /\ Turn
  /\ child' = [child EXCEPT ![c] = Off]
  /\ astray' = astray \union {c}
  /\ UNCHANGED <<worker, key, author, client>>

Down == worker = "up" /\ Turn /\ worker' = "down" /\ child' = [c \in Children |-> Off]

(* A shutdown clears the key, whoever wrote it, if Redis can be reached.   *)
Stop ==
  /\ Down
  /\ \/ key' = Nothing /\ author' = {} /\ astray' = {}
     \/ astray' = Children /\ UNCHANGED <<key, author>>
  /\ UNCHANGED client

Kill ==
  /\ Down
  /\ astray' = Children
  /\ UNCHANGED <<key, author, client>>

-----------------------------------------------------------------------------
(* The API: get_ml_health reads the key, then pings the worker.            *)

service == <<worker, child, key, author, astray>>

ReadKey(a) ==
  /\ asks[a].pc = "sent"
  /\ asks' = [asks EXCEPT ![a] =
       IF key = Nothing THEN [pc |-> "answered", value |-> Unavailable]
       ELSE [pc |-> "read", value |-> key]]
  /\ UNCHANGED <<service, online, polling, pill, turns>>

Ping(a) ==
  /\ asks[a].pc = "read"
  /\ asks' = [asks EXCEPT ![a] =
       [pc |-> "answered", value |-> IF worker = "up" THEN asks[a].value ELSE Unavailable]]
  /\ UNCHANGED <<service, online, polling, pill, turns>>

-----------------------------------------------------------------------------
(* The client                                                              *)

(* mlPillState.                                                            *)
Pill(value) == IF value.status \in {"loading", "ready"} THEN value ELSE Unavailable

Offline == [status |-> "offline", models |-> {}]

(* refreshMlHealth asks only with a connection.                            *)
Refresh(a, on) ==
  \/ on /\ asks[a] = NoAsk /\ asks' = [asks EXCEPT ![a].pc = "sent"] /\ UNCHANGED pill
  \/ ~on /\ pill' = Offline /\ UNCHANGED asks

(* Mutant: the timer is stopped once the models are ready.                 *)
TickUntilReady ==
  /\ polling /\ pill.status # "ready" /\ Refresh("timer", online)
  /\ UNCHANGED <<service, online, polling, turns>>

(* setInterval, every 30 s; an answer is awaited for ten.                  *)
Tick ==
  /\ polling /\ Refresh("timer", online)
  /\ UNCHANGED <<service, online, polling, turns>>

(* The answer is painted, whichever request it belongs to.                 *)
Paint(a) ==
  /\ asks[a].pc = "answered"
  /\ pill' = Pill(asks[a].value)
  /\ asks' = [asks EXCEPT ![a] = NoAsk]
  /\ UNCHANGED <<service, online, polling, turns>>

(* No answer, or none in time.                                             *)
Lose(a) ==
  /\ asks[a].pc # "free" /\ (online => Turn) /\ (~online => UNCHANGED turns)
  /\ pill' = IF online THEN Unavailable ELSE Offline
  /\ asks' = [asks EXCEPT ![a] = NoAsk]
  /\ UNCHANGED <<service, online, polling>>

(* startMlHealthPolling and stopMlHealthPolling, at login and logout: the  *)
(* listeners stay.                                                         *)
Poll ==
  /\ Turn
  /\ \/ ~polling /\ polling' = TRUE /\ Refresh("event", online)
     \/ polling /\ polling' = FALSE /\ UNCHANGED <<asks, pill>>
  /\ UNCHANGED <<service, online>>

(* online, offline and visibilitychange.                                   *)
Event ==
  /\ Turn
  /\ online' \in BOOLEAN /\ Refresh("event", online')
  /\ UNCHANGED <<service, polling>>

-----------------------------------------------------------------------------
Asking(a) == ReadKey(a) \/ Ping(a) \/ Paint(a)

Next ==
  \/ StartWorker \/ Stop \/ Kill \/ Tick \/ Poll \/ Event
  \/ \E c \in Children : Boot(c) \/ Report(c) \/ Die(c)
  \/ \E a \in {"timer", "event"} : Asking(a) \/ Lose(a)

(* Loading ends, the timer fires and every request is answered or given up.*)
Fairness ==
  /\ \A c \in Children : WF_vars(Boot(c)) /\ WF_vars(Report(c))
  /\ WF_vars(Tick)
  /\ \A a \in {"timer", "event"} : WF_vars(Asking(a) \/ Lose(a))

-----------------------------------------------------------------------------
(* Properties                                                              *)

(* The status in Redis is what its author has come to, never that of       *)
(* another life of the worker, and it is there once one has published (the *)
(* signals of workers.py); but for a process that was killed or could not  *)
(* publish.                                                                *)
KeyIsTrue ==
  /\ \A c \in author \ astray :
       key = IF child[c].pc = "loading" THEN Loading ELSE Health(child[c].models)
  /\ key = Nothing => \A c \in Children : child[c] # Off => c \in astray

Answer == IF key = Nothing \/ worker = "down" THEN Unavailable ELSE Pill(key)

(* When the world has come to rest, a client that polls shows what the API *)
(* knows, whatever answers have overtaken each other or were lost.         *)
HealthIsTold == <>[](polling => pill = IF online THEN Answer ELSE Offline)

=============================================================================
