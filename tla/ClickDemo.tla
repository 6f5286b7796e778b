------------------------------ MODULE ClickDemo ------------------------------
(***************************************************************************)
(* The click prototype of the funnel (apps/web-demo): a reducer over the   *)
(* state of one browser tab, and the timers that stand for the agents.     *)
(*                                                                         *)
(* A click is reduced, rendered and its effects run before the next one.   *)
(* A timer's update is rendered later: until then other timers may fire,   *)
(* and the effect that arms the timers still knows the earlier queue.      *)
(***************************************************************************)
EXTENDS Naturals, Sequences, FiniteSets

CONSTANTS
    Leads,          \* the seeded companies
    SeedStage,      \* SeedStage[l]: the stage it is seeded with, or NoStage
    MaxHandoffs     \* bound: a click that appends a handoff finds fewer

MidStages == {"open", "quote", "talk"}
ClosedStages == {"won", "lost"}
NoStage == "nostage"
Stages == MidStages \cup ClosedStages

ASSUME SeedAssumption == SeedStage \in [Leads -> Stages \cup {NoStage}]
ASSUME BoundAssumption == MaxHandoffs \in Nat

VARIABLES
    role,       \* the role the user has chosen
    status,     \* status[l]: "new" or "converted"
    stage,      \* stage[l] of its opportunity, or NoStage without one
    accounts,   \* accounts[l]: how many accounts it has
    calls,      \* calls[l]: how many phone activities
    handoffs,   \* the timeline of all leads
    pending,    \* pendingArrival: the agent a lead waits for, or NoAgent
    armed,      \* the leads whose timer runs
    due,        \* the timers, which were armed together, have run out
    key         \* pendingArrivalKey when the timers were armed

data == <<status, stage, accounts, calls, handoffs>>
timers == <<armed, due, key>>
vars == <<role, data, pending, timers>>

Roles == {"sales", "manager", "viewer"}
NoAgent == "none"
Queued == {"lead-intake", "pipeline", "followup"}
Agents == Queued \cup {"orchestrator"}
Kinds == {"none", "convert", "send", "close"}

Handoff == [lead : Leads, agent : Agents, status : {"pending", "effective", "rejected"},
            kind : Kinds, stage : Stages \cup {NoStage}]

TypeOK ==
    /\ role \in Roles
    /\ status \in [Leads -> {"new", "converted"}]
    /\ stage \in [Leads -> Stages \cup {NoStage}]
    /\ accounts \in [Leads -> Nat] /\ calls \in [Leads -> Nat]
    /\ handoffs \in Seq(Handoff)
    /\ pending \in [Leads -> Queued \cup {NoAgent}]
    /\ armed \subseteq Leads /\ due \in BOOLEAN
    /\ key \in [Leads -> Queued \cup {NoAgent}]

Init ==
    /\ role = "sales"
    /\ status = [l \in Leads |-> IF SeedStage[l] = NoStage THEN "new" ELSE "converted"]
    /\ stage = SeedStage
    /\ accounts = [l \in Leads |-> IF SeedStage[l] = NoStage THEN 0 ELSE 1]
    /\ calls = [l \in Leads |-> 0]
    /\ handoffs = <<>>
    /\ pending = [l \in Leads |-> NoAgent]
    /\ armed = {} /\ due = FALSE /\ key = [l \in Leads |-> NoAgent]

CanMutate == role # "viewer"

CanConfirm(kind) == IF kind = "close" THEN role = "manager" ELSE kind # "none" /\ CanMutate

Awaits(i, l) == handoffs[i].lead = l /\ handoffs[i].status = "pending"

(* Mutant of SliceBusy: only the queue is looked at. *)
SliceBusy_QueueOnly(l) == pending[l] # NoAgent

SliceBusy(l) == pending[l] # NoAgent \/ \E i \in DOMAIN handoffs : Awaits(i, l)

MakeHandoff(l, agent, state, kind, to) ==
    handoffs' = Append(handoffs, [lead |-> l, agent |-> agent, status |-> state,
                                  kind |-> kind, stage |-> to])

Waiting == {l \in Leads : pending[l] # NoAgent}

-----------------------------------------------------------------------------
(* The effect that arms the timers.                                        *)

(* Mutant of PendingArrivalKey: the leads without the agent they wait for. *)
PendingArrivalKey_LeadsOnly(queue) ==
    [l \in Leads |-> IF queue[l] = NoAgent THEN NoAgent ELSE "lead-intake"]

\* What React compares to decide whether the effect runs again.
PendingArrivalKey(queue) == queue

(* Mutant of Rearm: the effect has no dependencies. *)
Rearm_EveryRender ==
    /\ key' = PendingArrivalKey(pending')
    /\ armed' = {l \in Leads : pending'[l] # NoAgent}
    /\ due' = FALSE

\* When the key has changed, every timer is cleared and one is set for each lead
\* that waits.
Rearm ==
    IF PendingArrivalKey(pending') = key
    THEN UNCHANGED timers
    ELSE /\ key' = PendingArrivalKey(pending')
         /\ armed' = {l \in Leads : pending'[l] # NoAgent}
         /\ due' = FALSE

Render ==
    /\ PendingArrivalKey(pending) # key
    /\ UNCHANGED <<role, data, pending>>
    /\ Rearm

Elapse ==
    /\ armed # {} /\ ~due
    /\ due' = TRUE
    /\ UNCHANGED <<role, data, pending, armed, key>>

Drop(l) == pending' = [pending EXCEPT ![l] = NoAgent]

\* arrive: what the agent hands over, and who is next.
Arrive(l) ==
    /\ CASE pending[l] = "lead-intake" ->
              /\ MakeHandoff(l, "lead-intake", "effective", "none", NoStage)
              /\ pending' = [pending EXCEPT ![l] = "pipeline"]
         [] pending[l] = "pipeline" ->
              MakeHandoff(l, "pipeline", "pending", "convert", NoStage) /\ Drop(l)
         [] pending[l] = "followup" ->
              MakeHandoff(l, "followup", "pending", "send", NoStage) /\ Drop(l)
    /\ UNCHANGED <<status, stage, accounts, calls>>

\* A timer fires; its lead may have stopped waiting.
Fire(l) ==
    /\ due /\ l \in armed
    /\ IF pending[l] = NoAgent THEN UNCHANGED <<data, pending>> ELSE Arrive(l)
    /\ armed' = armed \ {l}
    /\ UNCHANGED <<role, due, key>>

-----------------------------------------------------------------------------
(* Clicks.                                                                 *)

SetRole(r) == role' = r /\ UNCHANGED <<data, pending>> /\ Rearm

(* Mutant of StartSlice: also for a lead that is converted. *)
StartSlice_Converted(l) ==
    /\ CanMutate /\ ~SliceBusy(l) /\ Len(handoffs) < MaxHandoffs
    /\ MakeHandoff(l, "orchestrator", "effective", "none", NoStage)
    /\ pending' = [pending EXCEPT ![l] = "lead-intake"]
    /\ UNCHANGED <<role, status, stage, accounts, calls>>
    /\ Rearm

StartSlice(l) ==
    /\ CanMutate /\ ~SliceBusy(l) /\ status[l] = "new" /\ Len(handoffs) < MaxHandoffs
    /\ MakeHandoff(l, "orchestrator", "effective", "none", NoStage)
    /\ pending' = [pending EXCEPT ![l] = "lead-intake"]
    /\ UNCHANGED <<role, status, stage, accounts, calls>>
    /\ Rearm

Decide(i, word) == handoffs' = [handoffs EXCEPT ![i].status = word]

MayDecide(i) == handoffs[i].status = "pending" /\ CanConfirm(handoffs[i].kind)

\* applyConvert: nothing for a lead that is converted.
ConfirmConvert(i) ==
    /\ MayDecide(i) /\ handoffs[i].kind = "convert"
    /\ Decide(i, "effective")
    /\ LET l == handoffs[i].lead IN
       IF status[l] = "converted" THEN UNCHANGED <<status, stage, accounts, pending>>
       ELSE /\ status' = [status EXCEPT ![l] = "converted"]
            /\ stage' = [stage EXCEPT ![l] = "open"]
            /\ accounts' = [accounts EXCEPT ![l] = @ + 1]
            /\ pending' = [pending EXCEPT ![l] = "followup"]
    /\ UNCHANGED <<role, calls>>
    /\ Rearm

ConfirmSend(i) ==
    /\ MayDecide(i) /\ handoffs[i].kind = "send"
    /\ Decide(i, "effective")
    /\ LET l == handoffs[i].lead IN
       IF stage[l] = NoStage THEN UNCHANGED <<calls, pending>>
       ELSE calls' = [calls EXCEPT ![l] = @ + 1] /\ Drop(l)
    /\ UNCHANGED <<role, status, stage, accounts>>
    /\ Rearm

ConfirmWinLoss(i) ==
    /\ MayDecide(i) /\ handoffs[i].kind = "close"
    /\ Decide(i, "effective")
    /\ LET l == handoffs[i].lead IN
       stage' = IF stage[l] = NoStage THEN stage ELSE [stage EXCEPT ![l] = handoffs[i].stage]
    /\ UNCHANGED <<role, status, accounts, calls, pending>>
    /\ Rearm

Reject(i) ==
    /\ MayDecide(i)
    /\ Decide(i, "rejected") /\ Drop(handoffs[i].lead)
    /\ UNCHANGED <<role, status, stage, accounts, calls>>
    /\ Rearm

AbortLead(l) ==
    /\ CanMutate
    /\ Drop(l)
    /\ UNCHANGED <<role, data>>
    /\ Rearm

AdvanceStage(l, to) ==
    /\ CanMutate /\ stage[l] # NoStage /\ ~SliceBusy(l)
    /\ IF to \in ClosedStages
       THEN /\ Len(handoffs) < MaxHandoffs
            /\ MakeHandoff(l, "pipeline", "pending", "close", to)
            /\ UNCHANGED stage
       ELSE stage' = [stage EXCEPT ![l] = to] /\ UNCHANGED handoffs
    /\ UNCHANGED <<role, status, accounts, calls, pending>>
    /\ Rearm

-----------------------------------------------------------------------------
Click ==
    \/ \E r \in Roles : SetRole(r)
    \/ \E l \in Leads : StartSlice(l) \/ AbortLead(l)
    \/ \E l \in Leads, to \in Stages : AdvanceStage(l, to)
    \/ \E i \in DOMAIN handoffs :
           ConfirmConvert(i) \/ ConfirmSend(i) \/ ConfirmWinLoss(i) \/ Reject(i)

Timer == Elapse \/ \E l \in Leads : Fire(l)

Next == Click \/ Timer \/ Render

\* Time passes, a timer that has run out fires, and React renders what changed.
Spec == Init /\ [][Next]_vars /\ WF_vars(Elapse) /\ WF_vars(Render)
             /\ \A l \in Leads : WF_vars(Fire(l))

-----------------------------------------------------------------------------
(* What must hold.                                                         *)

Count(l, kind, word) ==
    Cardinality({i \in DOMAIN handoffs :
                    handoffs[i].lead = l /\ handoffs[i].kind = kind /\ handoffs[i].status = word})

\* A lead waits for one thing at a time, an agent or a decision, also after an
\* abort, which clears the queue and leaves a decision pending.
OneStepAtATime ==
    \A l \in Leads :
        /\ \A i, j \in DOMAIN handoffs : Awaits(i, l) /\ Awaits(j, l) => i = j
        /\ pending[l] # NoAgent => ~\E i \in DOMAIN handoffs : Awaits(i, l)

\* Once the tab is rendered, the leads that wait for an agent are those whose
\* timer runs: the effect is skipped when the key is the same, and a timer that
\* was cleared or has fired comes back only with another key.
EveryWaitTimed == PendingArrivalKey(pending) = key => armed = Waiting

\* The three objects and the calls of a lead are those its decisions brought, once
\* each, and the follow-up comes after the conversion.
ObjectsMatchDecisions ==
    \A l \in Leads :
        /\ accounts[l] = Count(l, "convert", "effective")
                         + (IF SeedStage[l] = NoStage THEN 0 ELSE 1)
        /\ accounts[l] = (IF status[l] = "converted" THEN 1 ELSE 0)
        /\ calls[l] = Count(l, "send", "effective")
        /\ status[l] = "converted" <=> stage[l] # NoStage
        /\ pending[l] \in {"lead-intake", "pipeline"} => status[l] = "new"
        /\ pending[l] = "followup" \/ (\E i \in DOMAIN handoffs :
                                          handoffs[i].lead = l /\ handoffs[i].agent = "followup")
               => Count(l, "convert", "effective") = 1

\* An opportunity is won or lost only by a manager, on a proposal that waited.
ClosedByManager ==
    [][\A l \in Leads : stage'[l] # stage[l] /\ stage'[l] \in ClosedStages =>
           /\ role = "manager"
           /\ \E i \in DOMAIN handoffs : Awaits(i, l) /\ handoffs[i].stage = stage'[l]]_vars

\* An agent a lead waits for arrives, unless the wait is ended.
ArrivalComes == \A l \in Leads : \A agent \in Queued : pending[l] = agent ~> pending[l] # agent
=============================================================================
