--------------------------- MODULE MCLearnQueue ----------------------------
(* LearnQueue with three greps for two patterns and a queue of two lines.  *)
EXTENDS LearnQueue
=============================================================================
