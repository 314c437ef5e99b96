------------------------- MODULE MCToolboxLifecycle -------------------------
(* Small instances of ToolboxLifecycle. *)
EXTENDS ToolboxLifecycle

CONSTANTS s1, h1, h2

OneSession == {s1}
OneHandler == {h1}
TwoHandlers == {h1, h2}
TwoStamps == 1..2
=============================================================================
