----------------------------- MODULE MCMapEdits -----------------------------
(* Small instances of MapEdits for TLC.                                    *)
EXTENDS MapEdits

CONSTANTS g1, g2

MCGeoms == {g1, g2}

MCAllKinds == {"create", "patch", "delete", "merge", "move", "deleteLayer", "deleteFolder"}

(* What the overlap of a deletion with an undo needs.                      *)
MCFewKinds == {"create", "delete"}
=============================================================================
