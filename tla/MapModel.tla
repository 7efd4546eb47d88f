------------------------------ MODULE MapModel ------------------------------
(***************************************************************************)
(* The client's model of the map, layers/store.js: the layers, the folders *)
(* and what is shown, the commands of the layers panel that change them on *)
(* the server one request after another, and the loads that replace the    *)
(* whole model.  Nothing puts these commands in order: several can be      *)
(* under way, and a load beside them.                                      *)
(*                                                                         *)
(* Objects are there to be shown: their shapes, names and edits are in     *)
(* MapEdits and MapTools.  The name and the colour of a layer stand for    *)
(* what a PATCH may change without changing what is shown.                 *)
(***************************************************************************)
EXTENDS Integers, Sequences, FiniteSets, SequencesExt, FiniteSetsExt, TLC

CONSTANTS
  LayerOf,      \* the layer of each object
  MaxLayers, MaxFolders,   \* bounds on the ids the server gives out
  MaxCommands,  \* a bound on the commands
  MaxLoads      \* a bound on the calls of loadMapData

Objects == DOMAIN LayerOf

MapModelAssumption ==
  /\ Objects \subseteq Nat /\ IsFiniteSet(Objects) /\ {MaxLayers, MaxFolders, MaxCommands, MaxLoads} \subseteq Nat
  /\ \A o \in Objects : LayerOf[o] \in 1..MaxLayers

None == 0

VARIABLES
  server,    \* layers, folders and the folder that each object is in by itself
  model,     \* the client's copy
  listed,    \* the ids of the client's array of layers
  shown,     \* the objects that are on the map
  epoch,     \* the number of loads that have replaced the model
  commands,  \* those under way
  loads,     \* those under way; the last one called has seq = calls
  given, calls,
  excused,   \* history: the copy may be out of date
  unseen     \* history: the layers that were switched with their folder since the map was redrawn

vars == <<server, model, listed, shown, epoch, commands, loads, given, calls, excused, unseen>>

client == <<model, listed, shown, epoch>>

-----------------------------------------------------------------------------
(* Reading a model (or the database)                                       *)

(* objectFolderId, isRecordVisible                                         *)
HomeFolder(m, o) ==
  IF m.layers[LayerOf[o]].folder # None THEN m.layers[LayerOf[o]].folder ELSE m.own[o]

Visible(m) ==
  {o \in DOMAIN m.own : /\ m.layers[LayerOf[o]].on
                        /\ HomeFolder(m, o) \in DOMAIN m.folders => m.folders[HomeFolder(m, o)]}

Inside(m, f) == {l \in DOMAIN m.layers : m.layers[l].folder = f}

Put(f, k, v) == [x \in DOMAIN f \union {k} |-> IF x = k THEN v ELSE f[x]]

Drop(f, S) == [x \in DOMAIN f \ S |-> f[x]]

Ascending(S) ==
  CHOOSE f \in [1..Cardinality(S) -> S] : \A m, n \in DOMAIN f : m < n => f[m] < f[n]

(* The elements of q that are in S, in their order.                        *)
Only(q, S) ==
  LET kept == Ascending({i \in DOMAIN q : q[i] \in S}) IN [n \in DOMAIN kept |-> q[kept[n]]]

WithoutLayer(m, l) ==
  [m EXCEPT !.layers = Drop(@, {l}), !.own = Drop(@, {o \in DOMAIN @ : LayerOf[o] = l})]

(* The layers and objects of a folder that is deleted stay.                *)
WithoutFolder(m, f) ==
  [layers  |-> [l \in DOMAIN m.layers |-> IF m.layers[l].folder = f THEN [m.layers[l] EXCEPT !.folder = None]
                                          ELSE m.layers[l]],
   folders |-> Drop(m.folders, {f}),
   own     |-> [o \in DOMAIN m.own |-> IF m.own[o] = f THEN None ELSE m.own[o]]]

-----------------------------------------------------------------------------
(* A command is a sequence of requests.  A request is sent unless what it  *)
(* would do is done; layer is a layer or an object, folder may be None.    *)

Request(do, layer, folder, on) == [do |-> do, layer |-> layer, folder |-> folder, on |-> on]

(* held: the epoch of the layer or folder that the code keeps a reference  *)
(* to; about: what the command is about.                                   *)
Command(requests, about) ==
  [requests |-> requests, served |-> FALSE, held |-> epoch, about |-> about,
   keeps |-> {}, folder |-> None]

Needed(m, r) ==
  CASE r.do = "patchLayer"   -> r.layer \in DOMAIN m.layers => m.layers[r.layer].on # r.on
    [] r.do = "keepObject"   -> r.layer \in DOMAIN m.own => m.own[r.layer] = None
    [] r.do = "detachObject" -> r.layer \in DOMAIN m.own /\ m.own[r.layer] # None
    [] OTHER -> TRUE

(* What is left of a command once its next request is sent.                *)
Remaining(m, requests) ==
  LET due == {i \in DOMAIN requests : Needed(m, requests[i])}
  IN  IF due = {} THEN <<>> ELSE SubSeq(requests, Min(due), Len(requests))

Objs(m, l) == {o \in DOMAIN m.own : LayerOf[o] = l}

Requests(do, S, folder, on) ==
  [i \in 1..Cardinality(S) |-> Request(do, SetToSeq(S)[i], folder, on)]

(* Mutant: the layer goes first.                                           *)
AssignAtOnce(m, o, f) ==
  LET l == LayerOf[o]
      home == m.layers[l].folder
  IN  (IF home = None THEN <<>> ELSE <<Request("detachLayer", l, home, TRUE)>>)
      \o <<Request("putObject", o, f, TRUE)>>

(* assignObjectToFolder: the other objects first, then the layer goes.     *)
Assign(m, o, f) ==
  LET l == LayerOf[o]
      home == m.layers[l].folder
      free == <<Request("detachLayer", l, home, TRUE)>>
      last == IF f # None THEN <<Request("putObject", o, f, TRUE)>>
              ELSE <<Request("detachObject", o, None, TRUE)>>
  IN  IF home = None THEN last
      ELSE Requests("keepObject", Objs(m, l) \ {o}, home, TRUE) \o free \o last

(* Layers and folders, and what the panel can ask for.                     *)
Ls(S) == {<<"layer", l>> : l \in S}
Fs(S) == {<<"folder", f>> : f \in S}

One(do, layer, folder, on, about) == Command(<<Request(do, layer, folder, on)>>, about)

Adding(f) ==
  Command(<<Request("addLayer", None, None, TRUE)>>
          \o (IF f = None THEN <<>> ELSE <<Request("intoFolder", None, f, TRUE)>>), Fs({f} \ {None}))

(* The layer, if it has a folder of its own, and then each object that has.*)
Freeing(l) ==
  LET home == model.layers[l].folder
  IN  Command((IF home = None THEN <<>> ELSE <<Request("detachLayer", l, home, TRUE)>>)
              \o Requests("detachObject", Objs(model, l), None, TRUE), Ls({l}) \union Fs(DOMAIN model.folders))

Assigning(o, f) ==
  LET home == model.layers[LayerOf[o]].folder
  IN  [Command(Assign(model, o, f), Ls({LayerOf[o]}) \union Fs(DOMAIN model.folders)) EXCEPT
         !.folder = home,
         !.keeps = {p \in Objs(model, LayerOf[o]) \ {o} : model.own[p] \in {None, home}}]

(* Of a layer, and of a folder.                                            *)
OfLayer(l) ==
  {One("showLayer", l, None, ~model.layers[l].on, Ls({l})), One("editLayer", l, None, TRUE, Ls({l})),
   One("dropLayer", l, None, TRUE, Ls({l})), Freeing(l)}
  \union {One("putLayer", l, f, TRUE, Ls({l}) \union Fs({f})) : f \in DOMAIN model.folders}

OfFolder(f) ==
  {One("editFolder", None, f, model.folders[f], Fs({f})),
   One("dropFolder", None, f, TRUE, Fs({f}) \union Ls(DOMAIN model.layers)),
   One("showFolder", None, f, ~model.folders[f], Fs({f}) \union Ls(Inside(model, f)))}

Asked ==
  (UNION {OfLayer(l) : l \in DOMAIN model.layers}) \union (UNION {OfFolder(f) : f \in DOMAIN model.folders})
  \union {One("addFolder", None, None, TRUE, {})}
  \union {Adding(f) : f \in DOMAIN model.folders \union {None}}
  \union (UNION {{Assigning(o, f) : f \in DOMAIN model.folders \union {None}} : o \in DOMAIN model.own})

-----------------------------------------------------------------------------
(* The client's copy changes, and the map is redrawn (applyVisibility).    *)

Becomes(m) == model' = m /\ shown' = Visible(m) /\ unseen' = {} /\ UNCHANGED epoch

Switched(m, l, on) == IF l \in DOMAIN m.layers THEN [m EXCEPT !.layers[l].on = on] ELSE m

(* A click in the panel; setLayerVisibility switches at once.              *)
Start(c) ==
  LET left == Remaining(model, c.requests)
      r == Head(left)
  IN  /\ given < MaxCommands /\ given' = given + 1
      /\ left # <<>>
      /\ commands' = Append(commands, [c EXCEPT !.requests = left])
      /\ excused' = (excused \/ \E i \in DOMAIN commands : commands[i].about \intersect c.about # {})
      /\ IF r.do = "showLayer" THEN Becomes(Switched(model, r.layer, r.on))
         ELSE UNCHANGED <<model, shown, unseen, epoch>>
      /\ UNCHANGED <<server, listed, loads, calls>>

-----------------------------------------------------------------------------
(* The server                                                              *)

Accepts(r) ==
  /\ r.do \in {"showLayer", "editLayer", "patchLayer", "putLayer", "dropLayer", "detachLayer", "intoFolder"}
       => r.layer \in DOMAIN server.layers
  /\ r.do \in {"keepObject", "detachObject", "putObject"} => r.layer \in DOMAIN server.own
  /\ r.do \in {"editFolder", "showFolder", "dropFolder", "putLayer", "keepObject", "putObject", "intoFolder"}
       => r.folder \in DOMAIN server.folders

(* A new row has an id that nobody has seen.                               *)
NewId(r) ==
  Max({0} \union IF r.do = "addLayer" THEN DOMAIN server.layers \union DOMAIN model.layers \union ToSet(LayerOf)
                ELSE DOMAIN server.folders \union DOMAIN model.folders) + 1

Done(m, r, new) ==
  CASE r.do \in {"showLayer", "patchLayer"} -> Switched(m, r.layer, r.on)
    [] r.do \in {"putLayer", "intoFolder"}  -> [m EXCEPT !.layers[r.layer].folder = r.folder]
    [] r.do = "detachLayer" -> [m EXCEPT !.layers[r.layer].folder = None]
    [] r.do \in {"keepObject", "putObject"} -> [m EXCEPT !.own[r.layer] = r.folder]
    [] r.do = "detachObject" -> [m EXCEPT !.own[r.layer] = None]
    [] r.do = "dropLayer"  -> WithoutLayer(m, r.layer)
    [] r.do = "dropFolder" -> WithoutFolder(m, r.folder)
    [] r.do = "addLayer"   -> [m EXCEPT !.layers = Put(@, new, [on |-> TRUE, folder |-> None])]
    [] r.do = "addFolder"  -> [m EXCEPT !.folders = Put(@, new, TRUE)]
    [] r.do = "showFolder" -> [m EXCEPT !.folders[r.folder] = r.on]
    [] OTHER -> m

(* PATCH /layers/{id} and PATCH /folders/{id} answer with the whole row.   *)
Answer(m, r, new) ==
  CASE r.do \in {"editLayer", "intoFolder"} ->
         [r EXCEPT !.on = m.layers[r.layer].on, !.folder = m.layers[r.layer].folder]
    [] r.do = "editFolder" -> [r EXCEPT !.on = m.folders[r.folder]]
    [] r.do = "addLayer"   -> [r EXCEPT !.layer = new]
    [] r.do = "addFolder"  -> [r EXCEPT !.folder = new]
    [] OTHER -> r

(* What a load that is reading has read, or a reference that is no longer  *)
(* part of the copy, may miss this change.                                 *)
Serve(i) ==
  LET c == commands[i]
      r == Head(c.requests)
      new == NewId(r)
  IN  /\ ~c.served /\ Accepts(r)
      /\ r.do = "addLayer" => new <= MaxLayers
      /\ r.do = "addFolder" => new <= MaxFolders
      /\ server' = Done(server, r, new)
      /\ commands' = [commands EXCEPT ![i].served = TRUE, ![i].requests[1] = Answer(server', r, new)]
      /\ loads' = [k \in DOMAIN loads |-> [loads[k] EXCEPT !.dirty = TRUE]]
      /\ excused' = (excused \/ c.held # epoch)
      /\ UNCHANGED <<client, given, calls, unseen>>

-----------------------------------------------------------------------------
(* The answers                                                             *)

(* A new layer is added to the copy when its command has ended.            *)
Creates(r, last) == r.do = "intoFolder" \/ (r.do = "addLayer" /\ last)

(* The copy m with the answer to the request r, which is the last one of   *)
(* its command or not.  If a load has brought what is new already, the     *)
(* arrays have it twice, and what is found is the first.                   *)
Learnt(m, r, last) ==
  CASE r.do = "editLayer" /\ r.layer \in DOMAIN m.layers ->
         [m EXCEPT !.layers[r.layer] = [on |-> r.on, folder |-> r.folder]]
    [] r.do = "patchLayer" -> Switched(m, r.layer, r.on)
    [] r.do \in {"putLayer", "detachLayer"} /\ r.layer \in DOMAIN m.layers ->
         [m EXCEPT !.layers[r.layer].folder = IF r.do = "putLayer" THEN r.folder ELSE None]
    [] r.do \in {"keepObject", "putObject", "detachObject"} /\ r.layer \in DOMAIN m.own ->
         [m EXCEPT !.own[r.layer] = IF r.do = "detachObject" THEN None ELSE r.folder]
    [] r.do = "dropLayer"  -> WithoutLayer(m, r.layer)
    [] r.do = "dropFolder" -> WithoutFolder(m, r.folder)
    [] r.do \in {"editFolder", "showFolder"} /\ r.folder \in DOMAIN m.folders ->
         [m EXCEPT !.folders[r.folder] = r.on]
    [] r.do = "addFolder" /\ r.folder \notin DOMAIN m.folders -> [m EXCEPT !.folders = Put(@, r.folder, TRUE)]
    [] Creates(r, last) /\ r.layer \notin DOMAIN m.layers ->
         [m EXCEPT !.layers = Put(@, r.layer, [on |-> r.on, folder |-> r.folder])]
    [] OTHER -> m

(* What is written into a reference to a layer or folder that a load has   *)
(* replaced is not seen.                                                   *)
Forgotten(c, r) == c.held # epoch /\ r.do \in {"editLayer", "editFolder", "showFolder", "patchLayer"}

(* setFolderVisibility goes on with the layers that are in the folder now. *)
Following(m, c, r) ==
  IF r.do = "showFolder"
  THEN [c EXCEPT !.requests = Requests("patchLayer", Inside(m, r.folder), None, r.on), !.held = epoch]
  ELSE [c EXCEPT !.requests = [k \in 1..(Len(@) - 1) |->
                                 IF r.do = "addLayer" THEN [@[k + 1] EXCEPT !.layer = r.layer] ELSE @[k + 1]]]

(* Creating and deleting do not redraw the map, nor does the answer to the *)
(* switch of a layer; a folder's switch does when it has begun and ended.  *)
Redraws(r, left) ==
  \/ r.do \in {"editLayer", "putLayer", "detachLayer", "keepObject", "putObject", "detachObject",
              "editFolder", "showFolder", "dropFolder"}
  \/ r.do = "patchLayer" /\ left = <<>>

Arrive(i) ==
  LET c == commands[i]
      r == Head(c.requests)
      m == IF Forgotten(c, r) THEN model ELSE Learnt(model, r, Len(c.requests) = 1)
      next == Following(m, c, r)
      left == Remaining(m, next.requests)
  IN  /\ c.served
      /\ IF Redraws(r, left) THEN Becomes(m)
         ELSE /\ model' = m /\ UNCHANGED epoch
              /\ shown' = {o \in shown : r.do = "dropLayer" => LayerOf[o] # r.layer}
              /\ unseen' = unseen \union (IF r.do = "patchLayer" THEN {r.layer} ELSE {})
      /\ listed' = IF Creates(r, Len(c.requests) = 1) THEN Append(listed, r.layer)
                   ELSE Only(listed, DOMAIN m.layers)
      /\ commands' = IF left = <<>> THEN RemoveAt(commands, i)
                     ELSE [commands EXCEPT ![i] = [next EXCEPT !.requests = left, !.served = FALSE]]
      /\ UNCHANGED <<server, loads, given, calls, excused>>

(* Mutant: the switch stays as it was set.                                 *)
NotRolledBack(c, r) == model

(* The request is refused, or it or its answer is lost: the command ends.  *)
RolledBack(c, r) ==
  IF r.do = "showLayer" /\ c.held = epoch THEN Switched(model, r.layer, ~r.on) ELSE model

Fail(i) ==
  LET c == commands[i]
      r == Head(c.requests)
  IN  /\ commands' = RemoveAt(commands, i)
      /\ excused' = (excused \/ c.served \/ r.do = "intoFolder")
      /\ IF r.do = "showLayer" THEN Becomes(RolledBack(c, r))
         ELSE UNCHANGED <<model, shown, epoch, unseen>>
      /\ UNCHANGED <<server, listed, loads, given, calls>>

-----------------------------------------------------------------------------
(* Loads: the layers, the folders and the objects of each layer are read   *)
(* one after another.                                                      *)

LoadMapData ==
  /\ calls < MaxLoads /\ calls' = calls + 1
  /\ loads' = Append(loads, [seq |-> calls', layers |-> <<>>, folders |-> <<>>, own |-> <<>>,
                            todo |-> <<<<"layers", None>>>>, dirty |-> FALSE])
  /\ UNCHANGED <<server, client, commands, given, excused, unseen>>

Read(k) ==
  LET load == loads[k]
      what == Head(load.todo)
  IN  /\ load.todo # <<>>
      /\ \/ /\ what[1] = "layers"
            /\ loads' = [loads EXCEPT ![k].layers = server.layers, ![k].dirty = FALSE,
                                      ![k].todo = <<<<"folders", None>>>>]
         \/ /\ what[1] = "folders"
            /\ loads' = [loads EXCEPT ![k].folders = server.folders,
                                      ![k].todo = SetToSeq(Ls(DOMAIN load.layers))]
         \/ /\ what[1] = "layer" /\ what[2] \in DOMAIN server.layers
            /\ loads' = [loads EXCEPT ![k].todo = Tail(@),
                         ![k].own = [o \in DOMAIN @ \union Objs(server, what[2]) |->
                                       IF o \in DOMAIN @ THEN @[o] ELSE server.own[o]]]
      /\ UNCHANGED <<server, client, commands, given, calls, excused, unseen>>

(* Mutant: whichever load comes back.                                      *)
AnyLoad(load) == TRUE

(* Only the load that was called last.                                     *)
Latest(load) == load.seq = calls

Install(k) ==
  LET load == loads[k]
      m == [layers |-> load.layers, folders |-> load.folders, own |-> load.own]
  IN  /\ load.todo = <<>>
      /\ loads' = RemoveAt(loads, k)
      /\ IF Latest(load)
         THEN /\ model' = m /\ shown' = Visible(m) /\ unseen' = {}
              /\ listed' = SetToSeq(DOMAIN m.layers) /\ epoch' = epoch + 1
              /\ excused' = IF load.seq = calls THEN load.dirty \/ commands # <<>> ELSE excused
         ELSE UNCHANGED <<client, unseen, excused>>
      /\ UNCHANGED <<server, commands, given, calls>>

FailLoad(k) ==
  /\ loads' = RemoveAt(loads, k)
  /\ UNCHANGED <<server, client, commands, given, calls, excused, unseen>>

-----------------------------------------------------------------------------
Begin ==
  [layers  |-> [l \in {LayerOf[o] : o \in Objects} |-> [on |-> TRUE, folder |-> None]],
   folders |-> [f \in {1} |-> TRUE], own |-> [o \in Objects |-> None]]

(* These layers are in the folder, which is shown or hidden with them.     *)
Sorted(S, on) ==
  [layers  |-> [l \in DOMAIN Begin.layers |-> IF l \in S THEN [on |-> on, folder |-> 1] ELSE Begin.layers[l]],
   folders |-> [f \in {1} |-> on], own |-> Begin.own]

Init ==
  /\ \E S \in SUBSET DOMAIN Begin.layers, on \in BOOLEAN : server = Sorted(S, on)
  /\ model = server /\ listed = SetToSeq(DOMAIN server.layers) /\ shown = Visible(server) /\ epoch = 0
  /\ commands = <<>> /\ loads = <<>> /\ given = 0 /\ calls = 0
  /\ excused = FALSE /\ unseen = {}

Next ==
  \/ \E c \in Asked : Start(c)
  \/ \E i \in DOMAIN commands : Serve(i) \/ Arrive(i) \/ Fail(i)
  \/ LoadMapData
  \/ \E k \in DOMAIN loads : Read(k) \/ Install(k) \/ FailLoad(k)

Spec == Init /\ [][Next]_vars

-----------------------------------------------------------------------------
(* Properties                                                              *)

(* When nothing is under way the copy is what the server has, whatever was *)
(* refused and however the loads came back; unless an answer was lost, two *)
(* commands about the same thing overlapped, or a command overlapped with  *)
(* a load; and then the next load puts it right.                           *)
CopyAgrees ==
  commands = <<>> /\ loads = <<>> /\ ~excused =>
    model = server /\ ToSet(listed) = DOMAIN model.layers /\ Len(listed) = Cardinality(DOMAIN model.layers)

(* "Shown on the map: its layer is on and the folder it is in is not       *)
(* hidden" (store.js:141), and nothing is that is gone; except for layers  *)
(* that were switched with their folder, until the switching has ended or, *)
(* if it fails in the middle, the map is next redrawn.                     *)
ShownAgrees ==
  /\ shown \subseteq DOMAIN model.own
  /\ \A o \in Objects : LayerOf[o] \notin unseen => (o \in shown) = (o \in Visible(model))

(* "When its whole layer sits in a folder, the other objects keep that     *)
(* folder object by object first, so only this one moves" (panel.js:264):  *)
(* at no point do the others leave it, whatever fails, unless they are in  *)
(* another folder by themselves.                                           *)
OthersStay ==
  \A i \in DOMAIN commands :
    commands[i].keeps # {} /\ commands[i].folder # None /\ ~excused =>
      \A o \in commands[i].keeps : HomeFolder(server, o) = commands[i].folder

ModelAgrees == CopyAgrees /\ ShownAgrees /\ OthersStay

=============================================================================
