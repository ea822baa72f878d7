--------------------------- MODULE MCEventStream ---------------------------
(* The event plane for TLC.                                            *)
EXTENDS EventStream

=============================================================================
