---------------------------- MODULE MCClientSync ----------------------------
(* One page, a board of two cards and a second game.                        *)
EXTENDS ClientSync
=============================================================================
