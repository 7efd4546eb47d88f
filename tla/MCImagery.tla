----------------------------- MODULE MCImagery -----------------------------
(* The loading of tiles, or the connection to dzz.by: the two share no     *)
(* state, and a behaviour is one of either.                                *)
EXTENDS TileLoading

CONSTANTS Tiles, Attempts, MaxSids, MaxCommands, MaxTurns

VARIABLES part, sessions, file, issued, upstream, cookie, client, calls, commands, turns

connection == <<sessions, file, issued, upstream, cookie, client, calls, commands, turns>>

D == INSTANCE DzzConnection

ASSUME MCImageryAssumption == TilesAssumption /\ D!DzzAssumption

InitMC == part \in {"connection", "loading"} /\ Init /\ D!Init

NextMC ==
  /\ UNCHANGED part
  /\ \/ part = "connection" /\ D!Next /\ UNCHANGED vars
     \/ part = "loading" /\ Next /\ UNCHANGED connection

SpecMC == InitMC /\ [][NextMC]_<<part, vars, connection>> /\ (part = "connection" => D!Fairness)

FailureIsWatched == D!FailureIsWatched
PanelAgrees == D!PanelAgrees

===========================================================================
