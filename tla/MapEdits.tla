------------------------------ MODULE MapEdits ------------------------------
(***************************************************************************)
(* Editing the map in the web client: the tracked edits of layers/ops.js,  *)
(* the undo stack of map/undo.js, the client's copy of the map and the id  *)
(* aliases of layers/store.js, and the handlers of layers_service that     *)
(* answer the requests.                                                    *)
(*                                                                         *)
(* Everything the client does is a list of requests, sent one after the    *)
(* other: Serve is the handler of the first of them, one transaction, and  *)
(* Take is the client going on with the answer.  Three agents do so side   *)
(* by side: the map tools, whose edits go through a queue, the layers      *)
(* panel, which does not use that queue, and undo/redo.                    *)
(*                                                                         *)
(* A restored object, layer or folder has a new id.  Ids are numbers, in   *)
(* the order of creation.  A geometry is a model value; crop stands for    *)
(* the attributes of an object that are edited without history.            *)
(***************************************************************************)
EXTENDS Integers, Sequences, FiniteSets

CONSTANTS
  Geoms,        \* geometries
  Kinds,        \* the kinds of edits that are made
  MaxId,        \* a bound on the ids the server gives out
  MaxEvents,    \* a bound on the edits, with and without history, and on the
                \* requests that fail without an effect, taken together
  MaxStack,     \* MAX, the length of the undo stack
  Overlap       \* whether an agent may begin before the others have ended

AllKinds == {"create", "patch", "delete", "merge", "move", "deleteLayer", "deleteFolder"}

ASSUME MapEditsAssumption ==
  /\ Geoms # {} /\ Kinds \subseteq AllKinds /\ Overlap \in BOOLEAN
  /\ MaxId \in Nat /\ MaxId >= 5 /\ MaxStack \in Nat \ {0}
  /\ MaxEvents \in Nat

Ids == 1..MaxId

None == 0

Agents == {"tool", "panel", "undo"}

VARIABLES
  server,    \* layers, folders and objects in the database
  store,     \* layers, folders and objectIndex of the client
  alias,     \* idAlias
  fresh,     \* the next id
  stack, cursor,
  act,       \* what each agent is doing
  listed,    \* what loadMapData has received so far
  events,    \* how many edits and refusals there were
  versions,  \* history: the map before the oldest entry and after each entry
  frayed,    \* history: which kind of run was given up half way
  blurred    \* history: attributes without history may differ from versions

vars == <<server, store, alias, fresh, stack, cursor, act, listed,
          events, versions, frayed, blurred>>

-----------------------------------------------------------------------------
(* Maps                                                                    *)

Put(f, i, v) == [j \in DOMAIN f \union {i} |-> IF j = i THEN v ELSE f[j]]

Drop(f, S) == [j \in DOMAIN f \ S |-> f[j]]

InLayer(m, l) == {i \in DOMAIN m.objects : m.objects[i].layer = l}

InFolder(part, f) == {i \in DOMAIN part : part[i].folder = f}

(* Layer 1 is a standard layer, layer 2 a user's one with both objects.    *)
StartMap ==
  [layers  |-> [l \in {1, 2} |-> IF l = 1 THEN [folder |-> None, visible |-> TRUE]
                                          ELSE [folder |-> 3, visible |-> FALSE]],
   folders |-> [f \in {3} |-> [visible |-> FALSE]],
   objects |-> [o \in {4, 5} |->
     [layer |-> 2, geom |-> CHOOSE g \in Geoms : TRUE, crop |-> o = 4,
      folder |-> IF o = 5 THEN 3 ELSE None]]]

Standard == {1}

(* resolveId: a restored thing always has a greater id than the old one.   *)
Resolve(i) ==
  LET newest[j \in Ids] == IF alias[j] = None THEN j ELSE newest[alias[j]]
  IN  IF i = None THEN None ELSE newest[i]

-----------------------------------------------------------------------------
(* Requests.  id is what the request is about, to the layer, folder or     *)
(* second object that it names, flag a Boolean attribute; the client goes  *)
(* on when a lenient one fails.                                            *)

Request(do, id, to, geom, flag) ==
  [do |-> do, id |-> id, to |-> to, geom |-> geom, flag |-> flag, lenient |-> FALSE]

Plain(do, id, to) == Request(do, id, to, None, FALSE)

Lenient(r) == [r EXCEPT !.lenient = TRUE]

Resolved(r) == [r EXCEPT !.id = Resolve(@), !.to = Resolve(@)]

Creations == {"addObject", "createLayer", "createFolder"}

(* The 404, 403 and 409 of layers_service.                                 *)
Accepts(m, r) ==
  /\ r.do \in {"setGeom", "setLayer", "setCrop", "deleteObject", "merge", "objectTo", "moveObject"}
       => r.id \in DOMAIN m.objects
  /\ r.do \in {"patchLayer", "deleteLayer", "layerTo", "moveLayer", "listObjects"}
       => r.id \in DOMAIN m.layers
  /\ r.do \in {"patchFolder", "deleteFolder"} => r.id \in DOMAIN m.folders
  /\ r.do \in {"addObject", "setLayer"} => r.to \in DOMAIN m.layers
  /\ r.do \in {"patchLayer", "layerTo", "moveLayer", "objectTo", "moveObject"}
       => r.to \in DOMAIN m.folders \union {None}
  /\ r.do = "deleteLayer" => r.id \notin Standard
  /\ r.do = "merge" => /\ r.to \in DOMAIN m.objects
                       /\ m.objects[r.id].layer = m.objects[r.to].layer

(* With the same object named twice, it is the one that is deleted.        *)
MergedMap(m, r) ==
  [m EXCEPT !.objects = Drop([@ EXCEPT ![r.id].geom = r.geom], {r.to})]

(* The refresh of the object that is kept fails if it was deleted.         *)
FailsAfterwards(r) == r.do = "merge" /\ r.id = r.to

(* Mutant: the objects keep the folder that is deleted.                    *)
WithoutFolderKept(m, f) ==
  [m EXCEPT !.folders = Drop(@, {f}),
            !.layers = [l \in DOMAIN @ |-> IF @[l].folder = f THEN [@[l] EXCEPT !.folder = None] ELSE @[l]]]

WithoutFolder(m, f) ==
  [m EXCEPT !.folders = Drop(@, {f}),
            !.layers = [l \in DOMAIN @ |-> IF @[l].folder = f THEN [@[l] EXCEPT !.folder = None] ELSE @[l]],
            !.objects = [o \in DOMAIN @ |-> IF @[o].folder = f THEN [@[o] EXCEPT !.folder = None] ELSE @[o]]]

WithoutLayer(m, l) ==
  [m EXCEPT !.layers = Drop(@, {l}), !.objects = Drop(@, InLayer(m, l))]

(* The map after the handler of r, new being the id it gives out.          *)
After(m, r, new) ==
  CASE r.do = "addObject" ->
         [m EXCEPT !.objects = Put(@, new,
            [layer |-> r.to, geom |-> r.geom, crop |-> FALSE, folder |-> None])]
    [] r.do = "setGeom"      -> [m EXCEPT !.objects[r.id].geom = r.geom]
    [] r.do = "setLayer"     -> [m EXCEPT !.objects[r.id].layer = r.to]
    [] r.do = "setCrop"      -> [m EXCEPT !.objects[r.id].crop = r.flag]
    [] r.do = "deleteObject" -> [m EXCEPT !.objects = Drop(@, {r.id})]
    [] r.do = "merge"        -> MergedMap(m, r)
    [] r.do = "createLayer"  ->
         [m EXCEPT !.layers = Put(@, new, [folder |-> None, visible |-> TRUE])]
    [] r.do = "patchLayer"   ->
         [m EXCEPT !.layers[r.id] =
            [folder |-> IF r.to = None THEN @.folder ELSE r.to, visible |-> @.visible /\ ~r.flag]]
    [] r.do = "deleteLayer"  -> WithoutLayer(m, r.id)
    [] r.do = "createFolder" -> [m EXCEPT !.folders = Put(@, new, [visible |-> TRUE])]
    [] r.do = "patchFolder"  -> [m EXCEPT !.folders[r.id].visible = ~r.flag]
    [] r.do = "deleteFolder" -> WithoutFolder(m, r.id)
    [] r.do \in {"layerTo", "moveLayer"}   -> [m EXCEPT !.layers[r.id].folder = r.to]
    [] r.do \in {"objectTo", "moveObject"} -> [m EXCEPT !.objects[r.id].folder = r.to]
    [] OTHER -> m

(* upsertObject: an object of a layer the client does not know is ignored. *)
Upsert(m, i, o) ==
  IF o.layer \in DOMAIN m.layers THEN [m EXCEPT !.objects = Put(@, i, o)] ELSE m

(* What the *OnServer functions of the store do with the answer.  The      *)
(* requests that undo sends past the store, and those of loadMapData,      *)
(* leave it as it is.                                                      *)
Shown(r, reply) ==
  CASE r.do \in {"addObject", "setGeom", "setLayer", "setCrop"} ->
         Upsert(store, reply.id, reply.map.objects[reply.id])
    [] r.do = "deleteObject" -> [store EXCEPT !.objects = Drop(@, {r.id})]
    [] r.do = "merge"        ->
         Upsert([store EXCEPT !.objects = Drop(@, {r.to})], r.id, reply.map.objects[r.id])
    [] r.do = "deleteLayer"  -> WithoutLayer(store, r.id)
    [] r.do = "deleteFolder" -> WithoutFolder(store, r.id)
    [] r.do = "moveLayer" /\ r.id \in DOMAIN store.layers ->
         [store EXCEPT !.layers[r.id].folder = r.to]
    [] r.do = "moveObject" /\ r.id \in DOMAIN store.objects ->
         [store EXCEPT !.objects[r.id].folder = r.to]
    [] OTHER -> store

-----------------------------------------------------------------------------
(* ops.js: the entries of the undo stack and what undoing them sends       *)

Item(i) ==
  [id |-> i, layer |-> store.objects[i].layer, geom |-> store.objects[i].geom,
   crop |-> store.objects[i].crop, folder |-> store.objects[i].folder]

Ascending(S) == CHOOSE q \in [1..Cardinality(S) -> S] :
                  \A m, n \in 1..Cardinality(S) : m < n => q[m] < q[n]

Items(S) == [n \in 1..Cardinality(S) |-> Item(Ascending(S)[n])]

When(condition, r) == IF condition THEN <<r>> ELSE <<>>

(* restoreSnapshot.                                                        *)
Restore(item) ==
     <<Request("addObject", item.id, item.layer, item.geom, FALSE)>>
  \o When(item.crop, Request("setCrop", item.id, None, None, TRUE))
  \o When(item.folder # None, Lenient(Plain("moveObject", item.id, item.folder)))

RestoreAll(items) ==
  LET upTo[n \in 0..Len(items)] == IF n = 0 THEN <<>> ELSE upTo[n - 1] \o Restore(items[n])
  IN  upTo[Len(items)]

(* Mutant: the map is not loaded again.                                    *)
ReloadNothing == <<>>

Reload == <<Plain("listLayers", None, None)>>

UndoSteps(e) ==
  CASE e.kind = "create" -> <<Plain("deleteObject", e.id, None)>>
    [] e.kind = "patch"  -> <<Request("setGeom", e.id, None, e.before, FALSE)>>
    [] e.kind = "delete" -> RestoreAll(e.items)
    [] e.kind = "merge"  ->
         <<Request("setGeom", e.id, None, e.before, FALSE)>> \o Restore(e.dropped)
    [] e.kind = "move"   -> <<Plain("setLayer", e.id, e.from)>>
    [] e.kind = "deleteLayer" ->
            <<Plain("createLayer", e.id, None)>>
         \o When(e.folder # None \/ ~e.visible,
                 Lenient(Request("patchLayer", e.id, e.folder, None, ~e.visible)))
         \o Reload
         \o RestoreAll(e.items)
    [] e.kind = "deleteFolder" ->
            <<Plain("createFolder", e.id, None)>>
         \o When(~e.visible, Lenient(Request("patchFolder", e.id, None, None, TRUE)))
         \o [n \in DOMAIN e.layers |-> Lenient(Plain("layerTo", e.layers[n], e.id))]
         \o [n \in DOMAIN e.objects |-> Lenient(Plain("objectTo", e.objects[n], e.id))]
         \o Reload

Deletions(items) == [n \in DOMAIN items |-> Plain("deleteObject", items[n].id, None)]

RedoSteps(e) ==
  CASE e.kind = "create" -> <<Request("addObject", e.id, e.layer, e.geom, FALSE)>>
    [] e.kind = "patch"  -> <<Request("setGeom", e.id, None, e.after, FALSE)>>
    [] e.kind = "delete" -> Deletions(e.items)
    [] e.kind = "merge"  -> <<Request("merge", e.id, e.dropped.id, e.geom, FALSE)>>
    [] e.kind = "move"   -> <<Plain("setLayer", e.id, e.to)>>
    [] e.kind = "deleteLayer"  -> <<Plain("deleteLayer", e.id, None)>>
    [] e.kind = "deleteFolder" -> <<Plain("deleteFolder", e.id, None)>>

-----------------------------------------------------------------------------
(* The *Tracked functions: the entry each would push, as the client's copy *)
(* of the map is now.  What they send first is what redo sends.            *)

Creates ==
  [kind : {"create"}, id : {None}, layer : DOMAIN store.layers, geom : Geoms]

Patches ==
  {e \in [kind : {"patch"}, id : DOMAIN store.objects, before : Geoms, after : Geoms] :
     e.before = store.objects[e.id].geom /\ e.after # e.before}

(* Objects are selected within one layer.                                  *)
Selections == {S \in SUBSET DOMAIN store.objects :
                 \E l \in DOMAIN store.layers : S # {} /\ S \subseteq InLayer(store, l)}

Deletes == {[kind |-> "delete", items |-> Items(S)] : S \in Selections}

Merges ==
  {[kind |-> "merge", id |-> m[1], before |-> store.objects[m[1]].geom, dropped |-> Item(m[2]), geom |-> m[3]] :
     m \in {t \in (DOMAIN store.objects) \X (DOMAIN store.objects) \X Geoms :
              t[1] # t[2] /\ store.objects[t[1]].layer = store.objects[t[2]].layer}}

Moves ==
  {e \in [kind : {"move"}, id : DOMAIN store.objects, from : DOMAIN store.layers, to : DOMAIN store.layers] :
     e.from = store.objects[e.id].layer /\ e.to # e.from}

LayerDeletes ==
  {[kind |-> "deleteLayer", id |-> l, folder |-> store.layers[l].folder,
    visible |-> store.layers[l].visible, items |-> Items(InLayer(store, l))] :
     l \in DOMAIN store.layers \ Standard}

FolderDeletes ==
  {[kind |-> "deleteFolder", id |-> f, visible |-> store.folders[f].visible,
    layers |-> Ascending(InFolder(store.layers, f)),
    objects |-> Ascending(InFolder(store.objects, f))] : f \in DOMAIN store.folders}

(* deleteObjectFromList deletes one object, the map tools a selection.     *)
Edits(a) ==
  {e \in IF a = "tool" THEN Creates \union Patches \union Deletes \union Merges \union Moves
         ELSE {d \in Deletes : Len(d.items) = 1} \union LayerDeletes \union FolderDeletes :
     e.kind \in Kinds}

(* What the panel changes without history: the crop of an object, and the  *)
(* folder of an object or a layer (the longer reassignments of the panel   *)
(* are sequences of these).                                                *)
Filings(do, part) ==
  {Plain(do, f[1], f[2]) :
     f \in {p \in (DOMAIN part) \X (DOMAIN store.folders \union {None}) : part[p[1]].folder # p[2]}}

Tweaks ==
       {Request("setCrop", o, None, None, ~store.objects[o].crop) : o \in DOMAIN store.objects}
  \union Filings("moveObject", store.objects)
  \union Filings("moveLayer", store.layers)

-----------------------------------------------------------------------------
NoReply == [why |-> "none"]

Resting == [doing |-> "nothing", todo |-> <<>>, entry |-> None, reply |-> NoReply, effect |-> FALSE]

Idle(a) == act[a].doing = "nothing"

Quiet == \A a \in Agents : Idle(a)

NothingListed == [layers |-> <<>>, folders |-> <<>>, objects |-> <<>>]

Doing(what, entry, todo) ==
  [Resting EXCEPT !.doing = what, !.entry = entry, !.todo = todo]

MayBegin(a) == Idle(a) /\ (Overlap \/ Quiet)

(* The logical map: everything under its oldest id.                        *)
Origin(i) ==
  LET oldest[j \in Ids] == IF \E k \in Ids : alias[k] = j
                           THEN oldest[CHOOSE k \in Ids : alias[k] = j] ELSE j
  IN  IF i = None THEN None ELSE oldest[i]

Logical(part) ==
  LET current == {i \in DOMAIN part : alias[i] = None}
  IN  [r \in {Origin(i) : i \in current} |-> part[Resolve(r)]]

Content ==
  LET Filed(part) == [r \in DOMAIN part |-> [part[r] EXCEPT !.folder = Origin(@)]]
  IN  [layers  |-> Filed(Logical(server.layers)),
       folders |-> Logical(server.folders),
       objects |-> LET o == Filed(Logical(server.objects))
                   IN  [r \in DOMAIN o |-> [o[r] EXCEPT !.layer = Origin(@)]]]

Init ==
  /\ server = StartMap /\ store = StartMap
  /\ alias = [i \in Ids |-> None]
  /\ fresh = 6
  /\ stack = <<>> /\ cursor = -1
  /\ act = [a \in Agents |-> Resting]
  /\ listed = NothingListed
  /\ events = 0
  /\ versions = <<StartMap>>
  /\ frayed = "no" /\ blurred = FALSE

Edit(a) ==
  /\ a \in {"tool", "panel"} /\ MayBegin(a)
  /\ events < MaxEvents
  /\ \E e \in Edits(a) : act' = [act EXCEPT ![a] = Doing("edit", e, RedoSteps(e))]
  /\ events' = events + 1
  /\ UNCHANGED <<server, store, alias, fresh, stack, cursor, listed,
                 versions, frayed, blurred>>

Tweak ==
  /\ MayBegin("panel")
  /\ events < MaxEvents
  /\ \E r \in Tweaks : act' = [act EXCEPT !["panel"] = Doing("tweak", None, <<r>>)]
  /\ events' = events + 1
  /\ UNCHANGED <<server, store, alias, fresh, stack, cursor, listed,
                 versions, frayed, blurred>>

(* run: busy keeps out a second one.  An index outside of the stack makes  *)
(* run fail before it has done anything.                                   *)
Press(direction) ==
  /\ MayBegin("undo")
  /\ IF direction = "undo" THEN cursor >= 0 ELSE cursor < Len(stack) - 1
  /\ LET index == IF direction = "undo" THEN cursor + 1 ELSE cursor + 2
     IN  /\ index \in 1..Len(stack)
         /\ act' = [act EXCEPT !["undo"] =
              Doing(direction, stack[index],
                    IF direction = "undo" THEN UndoSteps(stack[index]) ELSE RedoSteps(stack[index]))]
  /\ UNCHANGED <<server, store, alias, fresh, stack, cursor, listed, events,
                 versions, frayed, blurred>>

(* A segmentation result was published: the history is forgotten.          *)
Clear ==
  /\ Overlap \/ Quiet
  /\ stack # <<>>
  /\ stack' = <<>> /\ cursor' = -1
  /\ versions' = <<Content>>
  /\ UNCHANGED <<server, store, alias, fresh, act, listed, events, frayed, blurred>>

-----------------------------------------------------------------------------
(* Requests and answers                                                    *)

Runs == {"undo", "redo"}

(* Undo and redo resolve the ids when they send a request; an edit sends   *)
(* the ids it has seen, and loadMapData those it was given.                *)
Sent(a) ==
  LET r == Head(act[a].todo)
  IN  IF act[a].doing \in Runs /\ r.do # "listObjects" THEN Resolved(r) ELSE r

Reply(a, why, id, map) ==
  act' = [act EXCEPT ![a].reply = [why |-> why, id |-> id, map |-> map],
                     ![a].effect = @ \/ why \in {"ok", "failed"}]

(* A handler of layers_service, one transaction.                           *)
Serve(a) ==
  /\ act[a].todo # <<>> /\ act[a].reply.why = "none"
  /\ LET r == Sent(a)
         id == IF r.do \in Creations THEN fresh ELSE r.id
     IN  IF Accepts(server, r)
         THEN /\ id <= MaxId
              /\ server' = After(server, r, id)
              /\ fresh' = IF r.do \in Creations THEN fresh + 1 ELSE fresh
              /\ Reply(a, IF FailsAfterwards(r) THEN "failed" ELSE "ok", id, server')
         ELSE /\ Reply(a, "missing", None, None)
              /\ UNCHANGED <<server, fresh>>
  /\ UNCHANGED <<store, alias, stack, cursor, listed, events,
                 versions, frayed, blurred>>

(* The request does not arrive, or the server cannot serve it.             *)
Refuse(a) ==
  /\ act[a].todo # <<>> /\ act[a].reply.why = "none"
  /\ events < MaxEvents
  /\ events' = events + 1
  /\ Reply(a, "refused", None, None)
  /\ UNCHANGED <<server, store, alias, fresh, stack, cursor, listed,
                 versions, frayed, blurred>>

(* pushUndo.                                                               *)
Push(entry) ==
  LET kept == SubSeq(stack, 1, IF cursor + 1 <= Len(stack) THEN cursor + 1 ELSE Len(stack))
      past == SubSeq(versions, 1, Len(kept) + 1)
      full == Len(kept) = MaxStack
  IN  /\ stack' = Append(IF full THEN Tail(kept) ELSE kept, entry)
      /\ versions' = Append(IF full THEN Tail(past) ELSE past, Content)
      /\ cursor' = Len(stack') - 1

(* Mutant: only objects leave an alias.                                    *)
AliasedObject(a, r) ==
  IF r.do = "addObject" /\ r.id # None THEN [alias EXCEPT ![r.id] = act[a].reply.id] ELSE alias

(* aliasId: what was recreated takes the place of what it was.             *)
Aliased(a, r) ==
  IF r.do \in Creations /\ r.id # None THEN [alias EXCEPT ![r.id] = act[a].reply.id] ELSE alias

(* loadMapData: the layers and folders, then the objects of each layer;    *)
(* the map is replaced with the last answer.                               *)
Listing(a, r) ==
  IF r.do = "listLayers"
  THEN /\ listed' = [act[a].reply.map EXCEPT !.objects = <<>>]
       /\ store' = store
  ELSE LET m == act[a].reply.map
           objects == [o \in DOMAIN listed.objects \union InLayer(m, r.id) |->
                         IF o \in InLayer(m, r.id) THEN m.objects[o] ELSE listed.objects[o]]
           last == Len(act[a].todo) = 1 \/ act[a].todo[2].do # "listObjects"
       IN  /\ listed' = IF last THEN NothingListed ELSE [listed EXCEPT !.objects = objects]
           /\ store' = IF last THEN [listed EXCEPT !.objects = objects] ELSE store

Listings(S) == [n \in 1..Cardinality(S) |-> Plain("listObjects", Ascending(S)[n], None)]

(* What remains to be sent once the answer to r is there.                  *)
Rest(a, r) ==
  (IF r.do = "listLayers" /\ act[a].reply.why = "ok" THEN Listings(DOMAIN act[a].reply.map.layers)
   ELSE <<>>)
  \o Tail(act[a].todo)

Failures == {"missing", "refused", "failed"}

Proceeds(a) == act[a].reply.why = "ok" \/ (act[a].reply.why \in Failures /\ Head(act[a].todo).lenient)

(* run, after the entry's function has ended; the cursor is read now.      *)
Moved == IF act["undo"].doing = "undo" THEN cursor - 1 ELSE cursor + 1

Finish(a) ==
  CASE act[a].doing = "edit" ->
         /\ Push(IF act[a].entry.kind = "create"
                 THEN [act[a].entry EXCEPT !.id = act[a].reply.id] ELSE act[a].entry)
    [] act[a].doing \in Runs -> cursor' = Moved /\ UNCHANGED <<stack, versions>>
    [] OTHER -> UNCHANGED <<stack, cursor, versions>>

Take(a) ==
  /\ Proceeds(a)
  /\ LET r == Sent(a)
         ok == act[a].reply.why = "ok"
         rest == Rest(a, r)
     IN  /\ alias' = IF ok THEN Aliased(a, r) ELSE alias
         /\ IF ok /\ r.do \in {"listLayers", "listObjects"} THEN Listing(a, r)
            ELSE store' = (IF ok THEN Shown(r, act[a].reply) ELSE store) /\ listed' = listed
         /\ IF rest = <<>>
            THEN act' = [act EXCEPT ![a] = Resting] /\ Finish(a)
            ELSE /\ act' = [act EXCEPT ![a].todo = rest, ![a].reply = NoReply]
                 /\ UNCHANGED <<stack, cursor, versions>>
         /\ blurred' = (blurred \/ ~ok \/ act[a].doing = "tweak")
  /\ UNCHANGED <<server, fresh, events, frayed>>

(* Mutant: nothing is pushed for the objects that were deleted.            *)
GiveUpEditSilently(a) ==
  /\ act[a].doing \in {"edit", "tweak"}
  /\ act[a].reply.why \in Failures
  /\ act' = [act EXCEPT ![a] = Resting]
  /\ UNCHANGED <<server, store, alias, fresh, stack, cursor, listed, events,
                 versions, frayed, blurred>>

(* An edit fails; deleteTracked pushes what it had deleted by then.        *)
GiveUpEdit(a) ==
  /\ act[a].doing \in {"edit", "tweak"}
  /\ act[a].reply.why \in Failures
  /\ act' = [act EXCEPT ![a] = Resting]
  /\ IF act[a].effect
     THEN Push([act[a].entry EXCEPT !.items = SubSeq(@, 1, Len(@) - Len(act[a].todo))])
     ELSE UNCHANGED <<stack, cursor, versions>>
  /\ UNCHANGED <<server, store, alias, fresh, listed, events, frayed, blurred>>

(* Mutant: the cursor moves although the run has failed.                   *)
GiveUpRunAndMove ==
  /\ act["undo"].reply.why \in Failures
  /\ ~Head(act["undo"].todo).lenient
  /\ frayed' = IF act["undo"].effect /\ frayed # "redo" THEN act["undo"].doing ELSE frayed
  /\ act' = [act EXCEPT !["undo"] = Resting]
  /\ cursor' = Moved
  /\ listed' = NothingListed
  /\ UNCHANGED <<server, store, alias, fresh, stack, events, versions, blurred>>

(* The catch of run: the cursor stays.                                     *)
GiveUpRun ==
  /\ act["undo"].reply.why \in Failures
  /\ ~Head(act["undo"].todo).lenient
  /\ frayed' = IF act["undo"].effect /\ frayed # "redo" THEN act["undo"].doing ELSE frayed
  /\ act' = [act EXCEPT !["undo"] = Resting]
  /\ listed' = NothingListed
  /\ UNCHANGED <<server, store, alias, fresh, stack, cursor, events,
                 versions, blurred>>

Step(a) == Serve(a) \/ Refuse(a) \/ Take(a) \/ GiveUpEdit(a)

Next ==
  \/ \E a \in {"tool", "panel"} : Edit(a)
  \/ Tweak
  \/ \E direction \in Runs : Press(direction)
  \/ Clear
  \/ \E a \in Agents : Step(a)
  \/ GiveUpRun

Spec == Init /\ [][Next]_vars

-----------------------------------------------------------------------------
(* Properties                                                              *)

(* The maps are well-formed: what an object or a layer refers to exists.   *)
MapType(m) ==
  /\ DOMAIN m.layers \union DOMAIN m.folders \union DOMAIN m.objects \subseteq Ids
  /\ \A l \in DOMAIN m.layers : m.layers[l] \in [folder : DOMAIN m.folders \union {None}, visible : BOOLEAN]
  /\ \A f \in DOMAIN m.folders : m.folders[f] \in [visible : BOOLEAN]
  /\ \A o \in DOMAIN m.objects :
       m.objects[o] \in [layer : DOMAIN m.layers, geom : Geoms, crop : BOOLEAN,
                         folder : DOMAIN m.folders \union {None}]

TypeOK ==
  /\ MapType(server)
  /\ \A i \in Ids : alias[i] = None \/ alias[i] \in (i + 1)..(fresh - 1)
  /\ fresh \in 6..(MaxId + 1)
  /\ Len(stack) <= MaxStack /\ cursor \in -1..(Len(stack) - 1)
  /\ Len(versions) = Len(stack) + 1
  /\ \A a \in Agents : act[a].doing \in {"nothing", "edit", "tweak"} \union Runs
  /\ frayed \in {"no"} \union Runs /\ blurred \in BOOLEAN

(* Two maps agree on which layers, folders and objects there are, on the   *)
(* layer of each object and on its geometry.                               *)
SameShape(m, n) ==
  /\ DOMAIN m.layers = DOMAIN n.layers
  /\ DOMAIN m.folders = DOMAIN n.folders
  /\ DOMAIN m.objects = DOMAIN n.objects
  /\ \A o \in DOMAIN m.objects :
       m.objects[o].layer = n.objects[o].layer /\ m.objects[o].geom = n.objects[o].geom

(* Everything on the server is the newest form of something.               *)
NothingTwice ==
  \A i \in DOMAIN server.layers \union DOMAIN server.folders \union DOMAIN server.objects :
    alias[i] = None

(* Whatever edits were made, refused, undone and redone: the map is what   *)
(* it was when the cursor first stood here, under other ids, and nothing   *)
(* is there twice.  Attributes without history agree too until one of them *)
(* was edited.                                                             *)
HistoryIsExact ==
  Quiet /\ frayed = "no" =>
    /\ NothingTwice
    /\ SameShape(Content, versions[cursor + 2])
    /\ ~blurred => Content = versions[cursor + 2]

(* Between two actions the client shows what the server has, although it   *)
(* applies every answer by itself.                                         *)
StoreIsCurrent == Quiet /\ frayed = "no" => store = server

(* No request of an edit, an undo or a redo asks for something that is     *)
(* gone: the aliases lead to the newest id.                                *)
NothingIsMissing ==
  frayed = "no" => \A a \in Agents : act[a].reply.why \notin {"missing", "failed"}

(* An undo that is given up half way may leave things on the map that the  *)
(* next attempt creates once more, but no object is lost by it.            *)
FailedUndoLosesNothing ==
  Quiet /\ frayed # "redo" =>
    DOMAIN versions[cursor + 2].objects \subseteq {Origin(i) : i \in DOMAIN server.objects}

(* What mergeTracked and mergeObjectsOnServer say of the server: it keeps  *)
(* the first object.                                                       *)
MergeKeepsTheFirst ==
  \A a \in Agents :
    act[a].reply.why \in {"ok", "failed"} /\ Head(act[a].todo).do = "merge"
      => Sent(a).id \in DOMAIN act[a].reply.map.objects

(* What the confirmation of a deletion promises ("can be undone"): while   *)
(* objects are deleted, Ctrl+Z still reaches their deletion; a deletion    *)
(* that redo would repeat has been undone.                                 *)
DeletionsCanBeUndone ==
  Quiet /\ frayed = "no" /\ cursor + 2 \in 1..Len(stack) /\ stack[cursor + 2].kind = "delete" =>
    \A n \in 1..Len(stack[cursor + 2].items) :
      Resolve(stack[cursor + 2].items[n].id) \in DOMAIN server.objects
=============================================================================
