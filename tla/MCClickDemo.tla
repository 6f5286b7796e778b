---------------------------- MODULE MCClickDemo ----------------------------
(* An instance of ClickDemo for TLC: the one company that is seeded        *)
(* unconverted, and one that is seeded with an opportunity.                *)
EXTENDS ClickDemo, TLC

CONSTANTS fresh, sold

TwoSeedStages == (fresh :> NoStage) @@ (sold :> "quote")
=============================================================================
