-------------------------- MODULE MCEncodeSession ---------------------------
(* Two sessions.  The first has two slots, so that two frames can be in      *)
(* flight and pass each other; the second shares the deferred releases.      *)
EXTENDS EncodeSession, TLC

CONSTANTS s1, s2

MCSlotCount == (s1 :> 2) @@ (s2 :> 1)
=============================================================================
