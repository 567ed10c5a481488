---------------------------- MODULE MCToolRegistry ----------------------------
(* Instances of ToolRegistry for TLC. *)
EXTENDS ToolRegistry

\* map and map_ext: disconnecting the first one matches the tools of the second.
Map_Ext == {<<"map", "map_ext">>}
=============================================================================
