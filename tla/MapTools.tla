------------------------------ MODULE MapTools ------------------------------
(***************************************************************************)
(* The drawing tools of the map in the web client, map/tools.js: the tool  *)
(* that is active and the modes on top of it, the selection and its        *)
(* outlines, the drafts, the marks, and the chain of promises through      *)
(* which every edit made with a tool goes to the server.                   *)
(*                                                                         *)
(* The handlers of the browser's events are functions of ui, the module's  *)
(* variables; what they queue runs later, when the selection, the chosen   *)
(* layer and the objects may be different ones.  A shape is the set of the *)
(* strokes that it consists of.  Edits made outside the tools (the layers  *)
(* panel, undo) are Elsewhere; that they overwrite a shape is left to      *)
(* MapEdits, whose undo does not use this chain.                           *)
(***************************************************************************)
EXTENDS Integers, Sequences, FiniteSets, SequencesExt

CONSTANTS
  Layers,       \* the user's layers
  Home,         \* the layer of each object that is there at first
  Points,       \* those of them that are points
  MaxId,        \* a bound on the ids the server gives out
  MaxTasks,     \* a bound on the edits that are queued
  MaxMarks,     \* a bound on the marks of ruler, compass and text
  MaxElsewhere  \* a bound on the edits made elsewhere and on lost answers

MapToolsAssumption ==
  /\ Home \in Seq(Layers) /\ Points \subseteq DOMAIN Home
  /\ {MaxId, MaxTasks, MaxMarks, MaxElsewhere} \subseteq Nat /\ Len(Home) <= MaxId

None == 0
Nothing == -1     \* no stroke is being drawn; None is a stroke without a target

Drawing == {"freehand", "polygon"}
Buttons == {"select", "ruler", "compass", "text"}

VARIABLES
  ui,        \* active, selected, mergeActive, createSession, ... of tools.js
  records,   \* objectIndex: the client's objects
  hidden,    \* the layers that are switched off
  server,    \* the objects in the database
  queue,     \* the tasks chained to opChain that have not begun
  flight,    \* the requests of tasks that have begun
  tasks, elsewhere,
  applied,   \* history: the strokes the user was told of, for each object
  mixed,     \* history: one of the objects selected has changed its layer
  late       \* history: the answer to a merge replaced a newer selection

vars == <<ui, records, hidden, server, queue, flight, tasks, elsewhere, applied, mixed, late>>

-----------------------------------------------------------------------------
(* The state of the tools and what the handlers do to it                   *)

StartUi ==
  [active |-> "select", merge |-> FALSE, session |-> FALSE, mode |-> "none",
   selected |-> <<>>, outlined |-> {}, ruler |-> FALSE, compass |-> FALSE,
   points |-> 0, stroke |-> Nothing, circle |-> FALSE,
   marks |-> {}, hovered |-> None, picked |-> None, layer |-> Home[1]]

Selected(u) == ToSet(u.selected)

SelectOnly(u, ids) == [u EXCEPT !.selected = ids, !.outlined = ToSet(ids)]

Cleared(u) == SelectOnly(u, <<>>)

Unpicked(u) == [u EXCEPT !.picked = None]

Ascending(S) ==
  CHOOSE f \in [1..Cardinality(S) -> S] : \A m, n \in DOMAIN f : m < n => f[m] < f[n]

(* The elements of q that are in S, in their order.                        *)
Only(q, S) ==
  LET kept == Ascending({i \in DOMAIN q : q[i] \in S}) IN [n \in DOMAIN kept |-> q[kept[n]]]

Deselected(u, o) ==
  [u EXCEPT !.selected = Only(@, ToSet(@) \ {o}), !.outlined = @ \ {o}]

Added(u, o) == [u EXCEPT !.selected = Append(@, o), !.outlined = @ \union {o}]

SameLayer(u, o) ==
  \A s \in Selected(u) : s \in DOMAIN records /\ records[s].layer = records[o].layer

(* Mutant: an object of another layer joins the selection.                 *)
FeatureJoins(u, o, multi) ==
  IF ~multi THEN Unpicked(SelectOnly(u, <<o>>))
  ELSE IF o \in Selected(u) THEN Deselected(u, o) ELSE Unpicked(Added(u, o))

Feature(u, o, multi) ==
  IF multi /\ o \in Selected(u) THEN Deselected(u, o)
  ELSE Unpicked(IF multi /\ SameLayer(u, o) THEN Added(u, o) ELSE SelectOnly(u, <<o>>))

(* In the merge mode: no more than two, of one layer.                      *)
Toggled(u, o) ==
  IF o \in Selected(u) THEN Deselected(u, o)
  ELSE IF Len(u.selected) < 2 /\ (u.selected # <<>> => records[u.selected[1]].layer = records[o].layer)
       THEN Added(u, o) ELSE u

(* What remains selected when these objects are on the map.                *)
Rebuilt(u, there) == SelectOnly(u, Only(u.selected, there))

Visible(known, off) == {o \in DOMAIN known : known[o].layer \notin off}

Deactivated(u) ==
  [u EXCEPT !.stroke = Nothing, !.points = 0, !.ruler = FALSE, !.compass = FALSE]

MergeCancelled(u) == IF u.merge THEN [Cleared(u) EXCEPT !.merge = FALSE] ELSE u

ToolSet(u, t) ==
  [Deactivated(IF t = "select" THEN u ELSE MergeCancelled(u)) EXCEPT
     !.session = FALSE, !.active = t, !.mode = "none"]

Cancelled(u) == ToolSet([MergeCancelled(u) EXCEPT !.circle = FALSE], "select")

(* startFreehandEdit and startPolygonDrawing leave ruler and compass alone.*)
Drawn(u, m) ==
  [u EXCEPT !.stroke = Nothing, !.points = 0, !.mode = m,
            !.active = IF m = "polygon" THEN "polygon" ELSE "freehand"]

ModeSet(u, m) == Drawn(u, IF u.session /\ m # "polygon" THEN "create" ELSE m)

DrawingEnded(u) == IF u.active \in Drawing THEN Deactivated(u) ELSE u

(* startCreateArea, startPolygonMode and startManualConnectMode            *)
Starting(u, m) ==
  ModeSet([Cleared(DrawingEnded(u)) EXCEPT !.merge = FALSE, !.session = m # "connect"], m)

Editing(u) ==
  ModeSet([u EXCEPT !.merge = FALSE, !.session = FALSE,
                    !.layer = records[u.selected[1]].layer], "brush")

Merging(u) ==
  ToolSet([Cleared(IF u.active \in Drawing THEN Cancelled(u) ELSE u) EXCEPT !.merge = TRUE], "select")

Reset(u) ==
  [Cleared(Cancelled(u)) EXCEPT !.marks = {}, !.hovered = None, !.picked = None]

-----------------------------------------------------------------------------
(* Events of the browser that leave the queue alone                        *)

Becomes(u, mixes, lags) ==
  /\ ui' = u
  /\ mixed' = (mixes /\ Len(u.selected) > 1)
  /\ late'  = (lags /\ u.outlined # Selected(u))

Show(u) ==
  /\ Becomes(u, mixed, late)
  /\ UNCHANGED <<records, hidden, server, queue, flight, tasks, elsewhere, applied>>

ObjectClick(o, multi) ==
  /\ ui.active = "select" /\ o \in Visible(records, hidden)
  /\ Show(IF ui.merge THEN Toggled(ui, o)
          ELSE IF ~multi /\ ui.selected = <<o>> THEN Editing(ui)
          ELSE Feature(Unpicked(ui), o, multi))

SelectFromList(o) ==
  /\ o \in DOMAIN records
  /\ Show(Feature(IF ui.active = "select" THEN ui ELSE ToolSet(ui, "select"), o, FALSE))

(* registerOverlay                                                         *)
Marked(u) ==
  LET free == 1..MaxMarks \ u.marks
  IN  [u EXCEPT !.marks = @ \union (IF free = {} THEN {} ELSE {CHOOSE i \in free : TRUE})]

(* A click on the map also closes the popup of the compass.                *)
MapClick ==
  LET u == [ui EXCEPT !.circle = FALSE]
  IN  \/ ui.active = "select"  /\ Show(Unpicked(Cleared(u)))
      \/ ui.active = "ruler"   /\ Show([IF ui.ruler THEN Marked(u) ELSE u EXCEPT !.ruler = ~@])
      \/ ui.active = "compass" /\ Show([IF ui.compass THEN Marked(u) ELSE u EXCEPT
                                          !.compass = ~@, !.circle = ui.compass])
      \/ ui.active = "text"    /\ Show(Marked(u))
      \/ ui.active = "polygon" /\ ui.points < 3 /\ Show([u EXCEPT !.points = @ + 1])

Hover == \E m \in ui.marks \union {None} : m # ui.hovered /\ Show([ui EXCEPT !.hovered = m])

PickMark ==
  /\ ui.active = "select"
  /\ \E m \in ui.marks : Show([Cleared(ui) EXCEPT !.picked = m])

Without(u, m) ==
  [u EXCEPT !.marks = @ \ {m}, !.hovered = IF @ = m THEN None ELSE @,
            !.picked = IF @ = m THEN None ELSE @]

(* Delete: the mark under the cursor, or the objects (see DeleteSelected), *)
(* or the mark that was picked, or the last one.                           *)
DeleteMark ==
  \E m \in ui.marks :
    /\ IF ui.hovered # None THEN m = ui.hovered
       ELSE ui.selected = <<>> /\ (ui.picked # None => m = ui.picked)
    /\ Show(Without(ui, m))

PenDown ==
  /\ ui.active = "freehand" /\ ui.stroke = Nothing
  /\ \/ ui.mode \in {"create", "connect"} /\ Show([ui EXCEPT !.stroke = None])
     \/ /\ ui.mode \in {"brush", "eraser"} /\ Len(ui.selected) = 1
        /\ ui.selected[1] \notin Points
        /\ Show([ui EXCEPT !.stroke = ui.selected[1]])

Toolbar ==
  \/ \E t \in Buttons : Show(ToolSet(ui, t))
  \/ Show(Cancelled(ui))
  \/ Show(Merging(ui))
  \/ Show(MergeCancelled(ui))
  \/ \E m \in {"brush", "polygon", "connect"} : Show(Starting(ui, m))
  \/ Len(ui.selected) = 1 /\ Show(Editing(ui))
  \/ /\ ui.active \in Drawing /\ ui.mode # "connect"
     /\ \E m \in {"brush", "eraser", "polygon"} :
          (m = "eraser" => ~ui.session) /\ Show(ModeSet(ui, m))
  \/ Show(Reset(ui))

-----------------------------------------------------------------------------
(* Events that queue a task.  Its number, n, is that of its stroke.        *)

Task(do, ids, layer) == [do |-> do, ids |-> ids, layer |-> layer, n |-> tasks + 1]

Queue(task, u) ==
  /\ tasks < MaxTasks
  /\ tasks' = tasks + 1 /\ queue' = Append(queue, task) /\ Becomes(u, mixed, late)
  /\ UNCHANGED <<records, hidden, server, flight, elsewhere, applied>>

(* The layer of a stroke is not noted: it is read when the stroke is saved.*)
PenUp ==
  /\ ui.stroke # Nothing
  /\ \/ Show([ui EXCEPT !.stroke = Nothing])
     \/ Queue(Task(ui.mode, IF ui.stroke = None THEN <<>> ELSE <<ui.stroke>>, None),
              [ui EXCEPT !.stroke = Nothing])

(* Enter, a double click or the first point.                               *)
FinishPolygon(u) ==
  /\ ui.active = "polygon" /\ ui.points = 3
  /\ Queue(Task("polygon", IF ~ui.session /\ Len(ui.selected) = 1 THEN ui.selected ELSE <<>>, ui.layer),
           [u EXCEPT !.points = 0])

FinishEdit ==
  \/ FinishPolygon(ToolSet(ui, "select"))
  \/ ui.active \in Drawing /\ ui.points < 3 /\ Show(ToolSet(ui, "select"))

ChooseLayer(l) ==
  /\ ui.active \in Drawing
  /\ LET u == [ui EXCEPT !.layer = l]
         moves == ~ui.session /\ ui.mode # "connect" /\ Len(ui.selected) = 1
                    /\ records[ui.selected[1]].layer # l
     IN  IF moves THEN Queue(Task("move", ui.selected, l), u) ELSE Show(u)

DeleteSelected ==
  /\ ui.hovered = None /\ ui.selected # <<>>
  /\ Queue(Task("delete", ui.selected, None), ui)

(* Ctrl+M, or the button of the merge mode, which does not compare layers. *)
MergeSelected ==
  /\ Len(ui.selected) = 2
  /\ ui.merge \/ records[ui.selected[1]].layer = records[ui.selected[2]].layer
  /\ Queue(Task("merge", ui.selected, None), ui)

CircleAction ==
  /\ ui.circle
  /\ \/ Queue(Task("circle", <<>>, ui.layer), [ui EXCEPT !.circle = FALSE])
     \/ Len(ui.selected) = 1 /\ Queue(Task("eraser", ui.selected, None), [ui EXCEPT !.circle = FALSE])

-----------------------------------------------------------------------------
(* The tasks: a request each, or one for each object that is deleted       *)

(* loses: the strokes that are given up; selects: the command selects the  *)
(* object that comes of it.                                                *)
Request(do, ids, layer, shape) ==
  [do |-> do, ids |-> ids, layer |-> layer, shape |-> shape, loses |-> {}, selects |-> FALSE, served |-> FALSE]

Shape(o) == records[o].shape

(* Mutant: a task does not wait for the one before.                        *)
AtOnce == TRUE

MayRun == flight = <<>>

(* keepLargestPart: what does not touch the largest part may be dropped.   *)
Kept(parts) == {UNION together : together \in SUBSET parts \ {{}}}

Discarded(parts, S) == (UNION parts) \ S

Reshaping(do, ids, shape, lost) == [Request(do, ids, None, shape) EXCEPT !.loses = lost]

(* A request that makes these parts one object, or what is kept of them.   *)
Joining(do, ids, parts) == {Reshaping(do, ids, S, Discarded(parts, S)) : S \in Kept(parts)}

Adding(t, layer) == {Request("add", <<>>, layer, {t.n})}

Growing(t, o) == Joining("patch", <<o>>, {Shape(o), {t.n}})

Near == {o \in Visible(records, hidden) \ Points : records[o].layer = ui.layer}

Bridging(t, o, p) ==
  IF o = p THEN Growing(t, o) ELSE Joining("merge", <<o, p>>, {Shape(o), Shape(p), {t.n}})

Connecting(t) == UNION {Bridging(t, o, p) : o \in Near, p \in Near}

(* mergeSelectedPolygons; the merge of a line that connects selects nothing. *)
MergingTwo(ids) ==
  {[r EXCEPT !.selects = TRUE] : r \in Joining("merge", ids, {Shape(ids[1]), Shape(ids[2])})}

Erasing(ids) == {Reshaping("patch", ids, Shape(ids[1]) \ {s}, {s}) : s \in Shape(ids[1])}

(* What the task at the head of the queue may ask for; {} if it gives up.  *)
Requests(t) ==
  IF t.do = "create" THEN Adding(t, ui.layer)
  ELSE IF t.do = "connect" THEN Connecting(t)
  ELSE IF t.ids = <<>> THEN Adding(t, t.layer)
  ELSE IF t.do = "delete" THEN {Request("delete", t.ids, None, {})}
  ELSE IF ~(ToSet(t.ids) \subseteq DOMAIN records) THEN {}
  ELSE IF t.do \in {"brush", "polygon"} THEN Growing(t, t.ids[1])
  ELSE IF t.do = "move" THEN {Request("move", t.ids, t.layer, {})}
  ELSE IF ToSet(t.ids) \intersect Points # {} THEN {}
  ELSE IF t.do = "eraser" THEN Erasing(t.ids)
  ELSE MergingTwo(t.ids)

Run ==
  /\ MayRun /\ queue # <<>>
  /\ \/ \E r \in Requests(Head(queue)) :
          /\ flight' = Append(flight, r)
          /\ Becomes(IF r.do \in {"merge", "delete"} THEN Cleared(ui) ELSE ui, mixed, late)
     \/ UNCHANGED <<flight, ui, mixed, late>>     \* nothing would be left of the shape
  /\ queue' = Tail(queue)
  /\ UNCHANGED <<records, hidden, server, tasks, elsewhere, applied>>

Put(f, o, v) == [p \in DOMAIN f \union {o} |-> IF p = o THEN v ELSE f[p]]

Drop(f, S) == [p \in DOMAIN f \ S |-> f[p]]

Accepts(r) ==
  /\ ToSet(IF r.do = "delete" THEN <<r.ids[1]>> ELSE r.ids) \subseteq DOMAIN server
  /\ r.do = "merge" => server[r.ids[1]].layer = server[r.ids[2]].layer

(* The objects after r is served, o being what it is about.                *)
Served(r, o) ==
  CASE r.do = "add"    -> Put(server, o, [layer |-> r.layer, shape |-> r.shape])
    [] r.do = "patch"  -> [server EXCEPT ![o].shape = r.shape]
    [] r.do = "move"   -> [server EXCEPT ![o].layer = r.layer]
    [] r.do = "merge"  -> Drop([server EXCEPT ![o].shape = r.shape], {r.ids[2]})
    [] r.do = "delete" -> Drop(server, {o})

NewId == 1 + Cardinality(DOMAIN applied)

Replaced(i, r) == [flight EXCEPT ![i] = r]

(* An object that is added gets a new id; the answer is the whole object.  *)
Serve(i) ==
  LET r == flight[i]
      o == IF r.do = "add" THEN NewId ELSE r.ids[1]
      answer == IF r.do = "delete" THEN r
                ELSE [r EXCEPT !.layer = server'[o].layer, !.shape = server'[o].shape,
                               !.ids = IF r.do = "add" THEN <<o>> ELSE @]
  IN  /\ ~r.served /\ Accepts(r) /\ o <= MaxId
      /\ server' = Served(r, o)
      /\ flight' = Replaced(i, [answer EXCEPT !.served = TRUE])
      /\ applied' = IF r.do = "add" THEN Put(applied, o, {}) ELSE applied
      /\ UNCHANGED <<ui, records, hidden, queue, tasks, elsewhere, mixed, late>>

(* The request is refused; or it is lost, or its answer: what has become of *)
(* the shape is then not what the user was told.                           *)
Fail(i) ==
  LET r == flight[i]
  IN  /\ IF r.served \/ Accepts(r)
         THEN elsewhere < MaxElsewhere /\ elsewhere' = elsewhere + 1
         ELSE UNCHANGED elsewhere
      /\ flight' = RemoveAt(flight, i)
      /\ applied' = [o \in DOMAIN applied |->
                       IF r.served /\ o = r.ids[1] /\ o \in DOMAIN server
                       THEN applied[o] \intersect server[o].shape ELSE applied[o]]
      /\ UNCHANGED <<ui, records, hidden, server, queue, tasks, mixed, late>>

(* Mutant: every merge selects its result.                                 *)
AnyMergeResulting(u, r) ==
  IF r.do # "merge" THEN u
  ELSE IF u.merge THEN [u EXCEPT !.selected = <<r.ids[1]>>, !.outlined = @ \union {r.ids[1]}]
  ELSE Unpicked(SelectOnly(u, <<r.ids[1]>>))

(* A merge of the selected objects selects its result: in the merge mode   *)
(* by assigning to selected, so that the outline of what was selected      *)
(* meanwhile stays.                                                        *)
Resulting(u, r) ==
  IF ~r.selects THEN u
  ELSE IF u.merge THEN [u EXCEPT !.selected = <<r.ids[1]>>, !.outlined = @ \union {r.ids[1]}]
  ELSE Unpicked(SelectOnly(u, <<r.ids[1]>>))

(* What the user takes to be saved once the edit is announced as done.     *)
Told(r) ==
  LET joined == IF r.do = "merge" THEN applied[r.ids[2]] ELSE {}
  IN  IF r.do = "delete" THEN applied
      ELSE [applied EXCEPT ![r.ids[1]] = (@ \union joined \union r.shape) \ r.loses]

(* The answer puts the server's object in place of the client's.           *)
Taken(r) ==
  CASE r.do = "delete" -> Drop(records, {r.ids[1]})
    [] OTHER -> Drop(Put(records, r.ids[1], [layer |-> r.layer, shape |-> r.shape]),
                     IF r.do = "merge" THEN {r.ids[2]} ELSE {})

(* A deletion of several objects goes on with the next one.                *)
Take(i) ==
  LET r == flight[i]
      u == Rebuilt(ui, Visible(records', hidden))
  IN  /\ r.served
      /\ records' = Taken(r)
      /\ applied' = Told(r)
      /\ Becomes(Resulting(u, r),
                 mixed \/ \E s \in Selected(u) : s \in DOMAIN records /\ records[s].layer # records'[s].layer,
                 late \/ (r.selects /\ u.merge))
      /\ flight' = IF r.do = "delete" /\ Len(r.ids) > 1
                   THEN Replaced(i, [r EXCEPT !.ids = Tail(@), !.served = FALSE])
                   ELSE RemoveAt(flight, i)
      /\ UNCHANGED <<hidden, server, queue, tasks, elsewhere>>

(* The panel, or undo, deletes an object, or switches a layer.  Undo also  *)
(* clears the selection.                                                   *)
Elsewhere ==
  /\ elsewhere < MaxElsewhere /\ elsewhere' = elsewhere + 1
  /\ \/ \E o \in DOMAIN records \intersect DOMAIN server :
          records' = Drop(records, {o}) /\ server' = Drop(server, {o}) /\ UNCHANGED hidden
     \/ \E l \in Layers : hidden' = SymDiff(hidden, {l}) /\ UNCHANGED <<records, server>>
  /\ \E u \in {Rebuilt(ui, Visible(records', hidden')), Cleared(ui)} : Becomes(u, mixed, late)
  /\ UNCHANGED <<queue, flight, tasks, applied>>

-----------------------------------------------------------------------------
StartObjects == [o \in DOMAIN Home |-> [layer |-> Home[o], shape |-> {}]]

Init ==
  /\ ui = StartUi /\ records = StartObjects /\ server = StartObjects /\ hidden = {}
  /\ queue = <<>> /\ flight = <<>> /\ tasks = 0 /\ elsewhere = 0
  /\ applied = [o \in DOMAIN Home |-> {}] /\ mixed = FALSE /\ late = FALSE

Browser ==
  \/ \E o \in 1..MaxId, multi \in BOOLEAN : ObjectClick(o, multi)
  \/ \E o \in 1..MaxId : SelectFromList(o)
  \/ MapClick \/ Hover \/ PickMark \/ DeleteMark \/ PenDown \/ Toolbar
  \/ PenUp \/ FinishPolygon(ui) \/ FinishEdit \/ DeleteSelected \/ MergeSelected \/ CircleAction
  \/ \E l \in Layers : ChooseLayer(l)

Next ==
  \/ Browser \/ Run \/ Elsewhere
  \/ \E i \in DOMAIN flight : Serve(i) \/ Fail(i) \/ Take(i)

Spec == Init /\ [][Next]_vars

-----------------------------------------------------------------------------
(* Properties                                                              *)

(* The modes fit the active tool: a merge is prepared with the selection   *)
(* tool and has at most two objects; only a drawing mode is a session, and *)
(* only in a session is "create" the mode; a draft is its tool's, except   *)
(* that those of ruler and compass survive into a drawing mode.            *)
ModesAgree ==
  /\ ui.merge => ui.active = "select" /\ Len(ui.selected) <= 2
  /\ ui.session => ui.active \in Drawing
  /\ (ui.active = "freehand") = (ui.mode \in {"create", "brush", "eraser", "connect"})
  /\ (ui.active = "polygon") = (ui.mode = "polygon")
  /\ ui.active = "freehand" => ui.session = (ui.mode = "create")
  /\ ui.stroke # Nothing => ui.active = "freehand"
  /\ ui.points > 0 => ui.active = "polygon"
  /\ ui.ruler => ui.active \in Drawing \union {"ruler"}
  /\ ui.compass => ui.active \in Drawing \union {"compass"}

(* "object ids, all from one layer" (tools.js:56): the objects selected are *)
(* there, are different and of one layer, unless one has just changed its  *)
(* layer; they are outlined, and nothing that is gone is; and no other     *)
(* object is outlined, unless the answer to a merge of selected objects    *)
(* came in the merge mode after another click.                             *)
SelectionAgrees ==
  /\ Selected(ui) \subseteq ui.outlined /\ ui.outlined \subseteq DOMAIN records
  /\ Cardinality(Selected(ui)) = Len(ui.selected)
  /\ ~mixed => \A o, p \in Selected(ui) : records[o].layer = records[p].layer
  /\ ~late => ui.outlined = Selected(ui)

(* Whatever the user does in whatever order while edits are under way, the *)
(* tools, the modes and the selection stay in agreement.                   *)
ToolsAgree == ModesAgree /\ SelectionAgrees

(* "Server edits run one after another, so each stroke starts from the     *)
(* saved result of the previous one" (tools.js:89): what the user was told *)
(* is part of an object is part of it in the database, as soon as there is *)
(* no answer about it under way.                                           *)
StrokesStay ==
  \A o \in DOMAIN server :
    (\A i \in DOMAIN flight : flight[i].served => o \notin ToSet(flight[i].ids))
      => applied[o] \subseteq server[o].shape

=============================================================================
