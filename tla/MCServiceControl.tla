--------------------------- MODULE MCServiceControl ---------------------------
(* Instances of ServiceControl for TLC. *)
EXTENDS ServiceControl
=============================================================================
