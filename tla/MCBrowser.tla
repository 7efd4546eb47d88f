------------------------------ MODULE MCBrowser ------------------------------
(* Three parts of the web client, one in a behaviour: the drawing tools,    *)
(* once with every tool and an edit that does not begin and once with the   *)
(* edits that areas are drawn and merged with; the model of the map; and    *)
(* the runs of snapshots.                                                   *)
EXTENDS SnapshotRun

CONSTANTS
  Layers, Home, Points, MaxId, MaxTasks, MaxMarks, MaxElsewhere,
  MaxLayers, MaxFolders, MaxCommands, MaxLoads

VARIABLES part,
  ui, records, hidden, server, queue, flight, queued, elsewhere, applied, mixed, late,
  copied, model, listed, shown, epoch, commands, loads, given, calls, excused, unseen

tools == <<ui, records, hidden, server, queue, flight, queued, elsewhere, applied, mixed, late>>
map == <<copied, model, listed, shown, epoch, commands, loads, given, calls, excused, unseen>>

MCHome == <<1, 1, 2>>
Found == {<<1, 1, 2>>}
Chosen == {{}, {1}}

T == INSTANCE MapTools WITH tasks <- queued
M == INSTANCE MapModel WITH server <- copied, LayerOf <- Home

ASSUME MCBrowserAssumption == M!MapModelAssumption /\ T!MapToolsAssumption

(* One layer in the folder, or none, or both of them hidden with it.        *)
Maps == {M!Sorted(S, TRUE) : S \in {{}, {1}, {2}}} \union {M!Sorted({1, 2}, FALSE)}

InitMC ==
  /\ part \in {"tools", "edits", "map", "snapshots"}
  /\ Init /\ M!Init /\ T!Init
  /\ copied \in IF part = "map" THEN Maps ELSE {M!Begin}

(* The tools with one edit, which does not begin, or the edits of areas.    *)
Within ==
  IF part = "tools" THEN flight' = <<>> /\ queued' <= 1 /\ (queued' # queued => ui.circle)
  ELSE ui'.active \notin {"ruler", "compass", "text"} /\ hidden' = {}

NextMC ==
  /\ UNCHANGED part
  /\ \/ part \in {"tools", "edits"} /\ T!Next /\ Within /\ UNCHANGED <<map, vars>>
     \/ part = "map" /\ M!Next /\ calls' + given' <= 3 /\ UNCHANGED <<vars, tools>>
     \/ part = "snapshots" /\ Next /\ drawn' + Len(runs') <= 2 /\ UNCHANGED <<tools, map>>

SpecMC == InitMC /\ [][NextMC]_<<part, vars, tools, map>>

ToolsAgree == T!ToolsAgree
StrokesStay == T!StrokesStay
ModelAgrees == M!ModelAgrees

=============================================================================
