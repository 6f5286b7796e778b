-------------------------- MODULE MCOrchestrate --------------------------
(* Instances of Orchestrate for TLC: a subplanner and the verifier of it.  *)
EXTENDS Orchestrate, TLC

CONSTANTS build, check

TwoNames == {build, check}
TwoInOrder == <<build, check>>
TwoKinds == (build :> "subplanner") @@ (check :> "verifier")
TwoVerifies == (build :> build) @@ (check :> build)
TwoPushes == (build :> {"planned", "other"}) @@ (check :> {"none"})

\* Two attempts for build and no limit for check; or build alone.
Def(deps, max) == [dependsOn |-> deps, maxAttempts |-> max]
Both == (build :> Def({}, 2)) @@ (check :> Def({}, 0))
Alone == build :> Def({}, 2)
TwoPlans == {Both, Alone}

FewAgents == (build :> 2) @@ (check :> 1)

SixCommands == {<<"spawn", build>>, <<"respawn", build>>, <<"cascade", build>>,
                <<"cancel", build>>, <<"kill", build>>, <<"kill", NoTask>>}

=============================================================================
