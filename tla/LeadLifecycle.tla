--------------------------- MODULE LeadLifecycle ---------------------------
(***************************************************************************)
(* What the console promises about a lead, without agents, requests, runs  *)
(* or crashes: its timeline only grows; an entry that asks for a decision  *)
(* stays open until a person of the right role grants or refuses it or     *)
(* abandons the lead; and a grant is what converts the lead, sends its     *)
(* drafts or closes its opportunity.  Scheduler implements it.             *)
(***************************************************************************)
EXTENDS Naturals, Sequences

CONSTANTS
    Leads,         \* leads of the database
    MidStages,     \* stages anyone may set
    ClosedStages,  \* stages only a granted entry sets
    NoOpp          \* stage of a lead that is not converted

VARIABLES
    stage,     \* stage of each lead's opportunity, or NoOpp
    drafts,    \* texts to be sent, in creation order
    timeline   \* entries about all leads, in creation order

vars == <<stage, drafts, timeline>>

Entry(l, kind, target, status) ==
    [lead |-> l, kind |-> kind, stage |-> target, status |-> status,
     decidedBy |-> "nobody"]

Open(h) == timeline[h].status = "pending"

Deciders(h) ==
    IF timeline[h].kind = "confirm-win-loss" THEN {"manager"}
                                             ELSE {"sales", "manager"}

Init ==
    /\ stage \in [Leads -> MidStages \cup ClosedStages \cup {NoOpp}]
    /\ drafts = <<>>
    /\ timeline = <<>>

(* The stage goes to one of these; without an opportunity nothing changes.  *)
MovesTo(l, targets) ==
    IF stage[l] = NoOpp THEN UNCHANGED stage
    ELSE \E target \in targets : stage' = [stage EXCEPT ![l] = target]

(* An agent fails, or it did what needs no decision.                        *)
Report(l) ==
    /\ \/ /\ timeline' = Append(timeline, Entry(l, "none", "none", "failed"))
          /\ UNCHANGED stage
       \/ /\ timeline' = Append(timeline, Entry(l, "none", "none", "effective"))
          /\ UNCHANGED stage \/ MovesTo(l, MidStages)
    /\ UNCHANGED drafts

Ask(l) ==
    \/ /\ timeline' =
             Append(timeline, Entry(l, "confirm-convert", "none", "pending"))
       /\ UNCHANGED <<stage, drafts>>
    \/ /\ stage[l] # NoOpp
       /\ timeline' =
             Append(timeline, Entry(l, "confirm-send", "none", "pending"))
       /\ drafts' = Append(drafts, [lead |-> l, effective |-> FALSE])
       /\ UNCHANGED stage
    \/ /\ \E target \in ClosedStages :
             timeline' = Append(timeline, Entry(l, "confirm-win-loss", target,
                                                "pending"))
       /\ UNCHANGED <<stage, drafts>>

Move(l) ==
    /\ stage[l] # NoOpp
    /\ MovesTo(l, MidStages)
    /\ UNCHANGED <<drafts, timeline>>

(* What the granted entry asked for comes true in the same step.            *)
Effect(l, kind, target) ==
    \/ /\ kind = "confirm-convert"
       /\ stage' = IF stage[l] = NoOpp THEN [stage EXCEPT ![l] = "need"]
                                       ELSE stage
       /\ UNCHANGED drafts
    \/ /\ kind = "confirm-send"
       /\ drafts' = [d \in DOMAIN drafts |->
                       IF drafts[d].lead = l
                       THEN [drafts[d] EXCEPT !.effective = TRUE]
                       ELSE drafts[d]]
       /\ UNCHANGED stage
    \/ /\ kind = "confirm-win-loss"
       /\ MovesTo(l, {target})
       /\ UNCHANGED drafts

Grant(h) ==
    /\ Open(h)
    /\ \E role \in Deciders(h) :
          timeline' = [timeline EXCEPT ![h].status = "effective",
                                       ![h].decidedBy = role]
    /\ Effect(timeline[h].lead, timeline[h].kind, timeline[h].stage)

Refuse(h) ==
    /\ Open(h)
    /\ \E role \in Deciders(h) :
          timeline' = [timeline EXCEPT ![h].status = "rejected",
                                       ![h].decidedBy = role]
    /\ UNCHANGED <<stage, drafts>>

(* All open entries of the lead, and nothing else, are given up.            *)
Abandon(l) ==
    /\ timeline' = [h \in DOMAIN timeline |->
                      IF timeline[h].lead = l /\ Open(h)
                      THEN [timeline[h] EXCEPT !.status = "aborted"]
                      ELSE timeline[h]]
    /\ UNCHANGED <<stage, drafts>>

Next ==
    \/ \E l \in Leads : Report(l) \/ Ask(l) \/ Move(l) \/ Abandon(l)
    \/ \E h \in DOMAIN timeline : Grant(h) \/ Refuse(h)

Spec == Init /\ [][Next]_vars

=============================================================================
