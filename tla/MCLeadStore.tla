---------------------------- MODULE MCLeadStore ----------------------------
(* An instance of LeadStore for TLC: two seeded companies and two others,  *)
(* which share a slug.                                                     *)
EXTENDS LeadStore, TLC

CONSTANTS fresh, sold, acme, acne

FourCompanies == {fresh, sold, acme, acne}
TwoSeeds == <<fresh, sold>>
ThreeSlugs == (fresh :> "f") @@ (sold :> "s") @@ (acme :> "ac") @@ (acne :> "ac")

R(c, complete) == [company |-> c, complete |-> complete]
TwoFiles == {<<R(acme, TRUE), R(acne, TRUE), R(acme, TRUE)>>,
             <<R(sold, TRUE), R(acne, FALSE), R(acne, TRUE)>>}

\* A lead keeps its name, or is given that of another company.
AnyName == [c \in FourCompanies |-> {c, sold, acme}]
=============================================================================
