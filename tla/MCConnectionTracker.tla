------------------------- MODULE MCConnectionTracker -------------------------
(* Two addresses share three sockets in a process that tracks one address. *)
EXTENDS ConnectionTracker
=============================================================================
