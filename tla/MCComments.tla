----------------------------- MODULE MCComments -----------------------------
(* Instances of CommentQueue for TLC: two comments and one comment command *)
(* beside the loop, as model values.                                       *)
EXTENDS CommentQueue

CONSTANTS c1, c2, cmd
=============================================================================
