---------------------------- MODULE MCScheduler ----------------------------
(***************************************************************************)
(* Instances of Scheduler for TLC: the sets of model answers, and the      *)
(* symmetry of the request slots.                                          *)
(***************************************************************************)
EXTENDS Scheduler, TLC

(* Everything a model can answer. *)
EveryReply == AnyReply

(* One answer for every thing an agent can bring about, and one failure. *)
FruitfulReply ==
    {"notJson", "owner", "description", "proposal", "advance", "close",
     "activity"}

(* And the draft without a text, which the table refuses.                   *)
LosingReply == FruitfulReply \cup {"textlessActivity"}

CallSymmetry == Permutations(Calls)

=============================================================================
