------------------------------ MODULE MCBeside ------------------------------
(* Instance of Orchestrate for TLC in which commands overlap the loop: one  *)
(* subplanner, which may be tried twice.                                    *)
EXTENDS Orchestrate, TLC

CONSTANT build

OneName == {build}
OneInOrder == <<build>>
OneKind == build :> "subplanner"
OneVerifies == build :> build
OnePushes == build :> {"other"}
OnePlan == {build :> [dependsOn |-> {}, maxAttempts |-> 2]}
TwoAgents == build :> 2

FourCommands == {"spawn", "respawn", "cancel", "kill"} \X {build}

=============================================================================
