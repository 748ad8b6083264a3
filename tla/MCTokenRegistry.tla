-------------------------- MODULE MCTokenRegistry --------------------------
(* Three handlers and a single token string, so that grants collide; a token  *)
(* outlives one tick of the clock.                                            *)
EXTENDS TokenRegistry
=============================================================================
