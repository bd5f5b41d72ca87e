---------------------------- MODULE MCDecoderPool ----------------------------
(***************************************************************************)
(* Three requests of two kinds and a pool that is resized up to three      *)
(* times.                                                                  *)
(***************************************************************************)
EXTENDS DecoderPool

MCKinds == {[count |-> 1, malformed |-> FALSE], [count |-> 2, malformed |-> TRUE]}

MCPoolSizes == {0, 1, 2}
=============================================================================
