--------------------------- MODULE ClickDemoProofs ---------------------------
(***************************************************************************)
(* What holds of ClickDemo for every set of companies, every seed and any  *)
(* length of the timelines: the proofs.                                    *)
(***************************************************************************)
EXTENDS ClickDemo, FiniteSetTheorems, TLAPS

-----------------------------------------------------------------------------
(* The inductive invariant.                                                *)

HasDecision(l) == \E i \in DOMAIN handoffs : Awaits(i, l)
OneDecision(l) == \A i, j \in DOMAIN handoffs : Awaits(i, l) /\ Awaits(j, l) => i = j

\* The parts of TypeOK.
DataOK ==
    /\ role \in Roles
    /\ status \in [Leads -> {"new", "converted"}]
    /\ stage \in [Leads -> Stages \cup {NoStage}]
    /\ accounts \in [Leads -> Nat] /\ calls \in [Leads -> Nat]
    /\ handoffs \in Seq(Handoff)
    /\ pending \in [Leads -> Queued \cup {NoAgent}]
TimersOK == due \in BOOLEAN /\ key \in [Leads -> Queued \cup {NoAgent}]

\* A timer runs for the leads that wait for the agent they waited for when the
\* timers were armed.
Armed == armed = {l \in Leads : pending[l] = key[l] /\ pending[l] # NoAgent}

\* Between a timer and the render, a lead has moved on in one of two ways.
Moved ==
    \A l \in Leads : pending[l] # key[l] =>
        \/ pending[l] = "pipeline" /\ key[l] = "lead-intake"
        \/ pending[l] = NoAgent /\ HasDecision(l)

FollowupConverted ==
    \A l \in Leads : pending[l] = "followup" \/ key[l] = "followup" => status[l] = "converted"

Single == \A l \in Leads : OneDecision(l) /\ (pending[l] # NoAgent => ~HasDecision(l))

IInv == DataOK /\ TimersOK /\ Armed /\ Moved /\ FollowupConverted /\ Single

(* The invariant gives the type invariant and the two that TLC checks.      *)
LEMMA Consequences ==
    ASSUME IInv PROVE TypeOK /\ EveryWaitTimed /\ OneStepAtATime
<1>1. TypeOK
  BY DEF IInv, DataOK, TimersOK, Armed, TypeOK
<1>2. EveryWaitTimed
  BY DEF IInv, DataOK, TimersOK, Armed, EveryWaitTimed, PendingArrivalKey, Waiting
<1>3. OneStepAtATime
  BY DEF IInv, Single, OneStepAtATime, OneDecision, HasDecision
<1>4. QED
  BY <1>1, <1>2, <1>3

-----------------------------------------------------------------------------
(* The timeline.                                                           *)

(* A handoff that is appended waits for a decision only if it is pending,   *)
(* and the others wait as before.                                           *)
LEMMA Appended ==
    ASSUME DataOK, NEW l \in Leads, NEW agent \in Agents, NEW word \in {"pending", "effective"},
           NEW kind \in Kinds, NEW to \in Stages \cup {NoStage},
           MakeHandoff(l, agent, word, kind, to)
    PROVE  /\ handoffs' \in Seq(Handoff)
           /\ \A m \in Leads : HasDecision(m)' <=> HasDecision(m) \/ (m = l /\ word = "pending")
           /\ \A m \in Leads : OneDecision(m) /\ (m = l /\ word = "pending" => ~HasDecision(m))
                                   => OneDecision(m)'
<1> DEFINE new == [lead |-> l, agent |-> agent, status |-> word, kind |-> kind, stage |-> to]
<1>1. handoffs \in Seq(Handoff) /\ new \in Handoff /\ handoffs' = Append(handoffs, new)
  BY DEF DataOK, Handoff, MakeHandoff
<1> HIDE DEF new
<1>n. PICK n \in Nat : n = Len(handoffs) + 1
  BY <1>1
<1>2. /\ handoffs' \in Seq(Handoff)
      /\ n \notin DOMAIN handoffs
      /\ DOMAIN handoffs' = DOMAIN handoffs \cup {n}
      /\ \A i \in DOMAIN handoffs : handoffs'[i] = handoffs[i]
      /\ handoffs'[n] = new
  BY <1>1, <1>n
<1>3. \A m \in Leads : \A i \in DOMAIN handoffs : Awaits(i, m)' <=> Awaits(i, m)
  BY <1>2 DEF Awaits
<1>4. \A m \in Leads : Awaits(n, m)' <=> m = l /\ word = "pending"
  <2>1. new.lead = l /\ new.status = word
    BY DEF new
  <2>2. QED
    BY <1>2, <2>1 DEF Awaits
<1>5. \A i : i \in DOMAIN handoffs' <=> i \in DOMAIN handoffs \/ i = n
  BY <1>2
<1> HIDE DEF Awaits
<1>6. \A m \in Leads : HasDecision(m)' <=> HasDecision(m) \/ (m = l /\ word = "pending")
  BY <1>3, <1>4, <1>5 DEF HasDecision
<1>7. ASSUME NEW m \in Leads, OneDecision(m), m = l /\ word = "pending" => ~HasDecision(m)
      PROVE  OneDecision(m)'
  BY <1>3, <1>4, <1>5, <1>7 DEF OneDecision, HasDecision
<1>8. QED
  BY <1>2, <1>6, <1>7

(* A decision takes the only handoff of its lead that waited.               *)
LEMMA Decided ==
    ASSUME DataOK, NEW i \in DOMAIN handoffs, NEW word \in {"effective", "rejected"},
           handoffs[i].status = "pending", OneDecision(handoffs[i].lead), Decide(i, word)
    PROVE  /\ handoffs' \in Seq(Handoff)
           /\ handoffs[i].lead \in Leads /\ HasDecision(handoffs[i].lead)
           /\ \A m \in Leads : HasDecision(m)' <=> HasDecision(m) /\ m # handoffs[i].lead
           /\ \A m \in Leads : OneDecision(m) => OneDecision(m)'
<1> DEFINE old == handoffs[i]
           new == [old EXCEPT !.status = word]
<1>1. handoffs \in Seq(Handoff) /\ old \in Handoff
  BY DEF DataOK
<1>2. new \in Handoff /\ new.lead = old.lead /\ new.status = word
  BY <1>1 DEF Handoff
<1>3. handoffs' = [handoffs EXCEPT ![i] = new]
  BY DEF Decide
<1> HIDE DEF new
<1>4. /\ handoffs' \in Seq(Handoff)
      /\ DOMAIN handoffs' = DOMAIN handoffs
      /\ handoffs'[i] = new
      /\ \A j \in DOMAIN handoffs : j # i => handoffs'[j] = handoffs[j]
  BY <1>1, <1>2, <1>3
<1>5. old.lead \in Leads
  BY <1>1 DEF Handoff
<1>6. Awaits(i, old.lead)
  BY DEF Awaits
<1>7. \A m \in Leads : ~Awaits(i, m)'
  BY <1>2, <1>4 DEF Awaits
<1>8. \A m \in Leads : \A j \in DOMAIN handoffs : j # i => (Awaits(j, m)' <=> Awaits(j, m))
  BY <1>4 DEF Awaits
<1>9. \A m \in Leads : Awaits(i, m) => m = old.lead
  BY DEF Awaits
<1>10. \A m \in Leads : OneDecision(m) => OneDecision(m)'
  BY <1>4, <1>7, <1>8 DEF OneDecision
<1>11. HasDecision(old.lead)
  BY <1>6 DEF HasDecision
<1>12. ASSUME NEW m \in Leads
       PROVE  HasDecision(m)' <=> HasDecision(m) /\ m # old.lead
  <2>1. CASE m = old.lead
    <3>1. \A j \in DOMAIN handoffs : Awaits(j, m) => j = i
      BY <1>6, <2>1 DEF OneDecision
    <3>2. QED
      BY <1>4, <1>7, <1>8, <2>1, <3>1 DEF HasDecision
  <2>2. CASE m # old.lead
    BY <1>4, <1>7, <1>8, <1>9, <2>2 DEF HasDecision
  <2>3. QED
    BY <2>1, <2>2
<1>13. QED
  BY <1>4, <1>5, <1>10, <1>11, <1>12

-----------------------------------------------------------------------------
(* Clicks and timers.                                                      *)

(* A click arms the timers of exactly the leads that wait, provided it gives *)
(* no lead back the agent its key still names.                              *)
LEMMA Clicked ==
    ASSUME IInv, DataOK', Rearm,
           \A l \in Leads : pending'[l] = key[l] => pending[l] = key[l],
           \A l \in Leads : OneDecision(l)',
           \A l \in Leads : pending'[l] # NoAgent => ~HasDecision(l)',
           \A l \in Leads : pending'[l] = "followup" => status'[l] = "converted"
    PROVE  IInv'
<1>1. key' = pending' /\ due' \in BOOLEAN /\ armed' = {l \in Leads : pending'[l] # NoAgent}
  <2>1. CASE pending' = key
    <3>1. UNCHANGED timers
      BY <2>1 DEF Rearm, PendingArrivalKey
    <3>2. \A l \in Leads : pending[l] = key[l]
      BY <2>1
    <3>3. QED
      BY <2>1, <3>1, <3>2 DEF timers, IInv, Armed, TimersOK
  <2>2. CASE pending' # key
    BY <2>2 DEF Rearm, PendingArrivalKey
  <2>3. QED
    BY <2>1, <2>2
<1>2. TimersOK'
  BY <1>1 DEF TimersOK, DataOK
<1>3. Armed' /\ Moved'
  BY <1>1 DEF Armed, Moved
<1>4. FollowupConverted'
  BY <1>1 DEF FollowupConverted
<1>5. Single'
  BY DEF Single
<1>6. QED
  BY <1>2, <1>3, <1>4, <1>5 DEF IInv

(* A click that leaves the queue and the timeline alone.                    *)
LEMMA QueueKept ==
    ASSUME IInv, DataOK', Rearm, UNCHANGED <<pending, handoffs>>,
           \A l \in Leads : status[l] = "converted" => status'[l] = "converted"
    PROVE  IInv'
<1>1. \A l \in Leads : (OneDecision(l)' <=> OneDecision(l)) /\ (HasDecision(l)' <=> HasDecision(l))
  BY DEF OneDecision, HasDecision, Awaits
<1>2. \A l \in Leads : pending'[l] = "followup" => status'[l] = "converted"
  BY DEF IInv, FollowupConverted
<1>3. QED
  BY <1>1, <1>2, Clicked DEF IInv, Single

(* A click that appends a handoff for a lead that waits for nothing.        *)
LEMMA StartSliceStep ==
    ASSUME IInv, NEW l \in Leads, StartSlice(l) PROVE IInv'
<1>1. /\ DataOK /\ pending[l] = NoAgent /\ ~HasDecision(l)
      /\ MakeHandoff(l, "orchestrator", "effective", "none", NoStage)
      /\ pending' = [pending EXCEPT ![l] = "lead-intake"]
      /\ UNCHANGED <<role, status, stage, accounts, calls>> /\ Rearm
  BY DEF IInv, StartSlice, SliceBusy, HasDecision
<1>2. "orchestrator" \in Agents /\ "none" \in Kinds /\ NoStage \in Stages \cup {NoStage}
  BY DEF Agents, Kinds
<1>3. /\ handoffs' \in Seq(Handoff)
      /\ \A m \in Leads : HasDecision(m)' <=> HasDecision(m)
      /\ \A m \in Leads : OneDecision(m) => OneDecision(m)'
  BY <1>1, <1>2, Appended
<1>4. DataOK'
  BY <1>1, <1>3 DEF DataOK, Queued
<1>5. \A m \in Leads : pending'[m] = key[m] => pending[m] = key[m]
  BY <1>1 DEF IInv, DataOK, Moved, NoAgent
<1>6. \A m \in Leads : pending'[m] # NoAgent => ~HasDecision(m)'
  BY <1>1, <1>3 DEF IInv, DataOK, Single
<1>7. \A m \in Leads : pending'[m] = "followup" => status'[m] = "converted"
  BY <1>1 DEF IInv, DataOK, FollowupConverted
<1>8. \A m \in Leads : OneDecision(m)'
  BY <1>3 DEF IInv, Single
<1>9. QED
  BY <1>1, <1>4, <1>5, <1>6, <1>7, <1>8, Clicked

LEMMA AdvanceStageStep ==
    ASSUME IInv, NEW l \in Leads, NEW to \in Stages, AdvanceStage(l, to) PROVE IInv'
<1>1. CASE to \in ClosedStages
  <2>1. /\ DataOK /\ pending[l] = NoAgent /\ ~HasDecision(l)
        /\ MakeHandoff(l, "pipeline", "pending", "close", to)
        /\ UNCHANGED <<role, status, stage, accounts, calls, pending>> /\ Rearm
    BY <1>1 DEF IInv, AdvanceStage, SliceBusy, HasDecision
  <2>2. "pipeline" \in Agents /\ "close" \in Kinds /\ to \in Stages \cup {NoStage}
    BY DEF Agents, Queued, Kinds
  <2>3. /\ handoffs' \in Seq(Handoff)
        /\ \A m \in Leads : HasDecision(m)' <=> HasDecision(m) \/ m = l
        /\ \A m \in Leads : OneDecision(m)'
    BY <2>1, <2>2, Appended DEF IInv, Single
  <2>4. DataOK'
    BY <2>1, <2>3 DEF DataOK
  <2>5. \A m \in Leads : pending'[m] # NoAgent => ~HasDecision(m)'
    BY <2>1, <2>3 DEF IInv, Single
  <2>6. \A m \in Leads : pending'[m] = "followup" => status'[m] = "converted"
    BY <2>1 DEF IInv, FollowupConverted
  <2>7. QED
    BY <2>1, <2>3, <2>4, <2>5, <2>6, Clicked
<1>2. CASE to \notin ClosedStages
  <2>1. /\ stage' = [stage EXCEPT ![l] = to]
        /\ UNCHANGED <<role, status, accounts, calls, pending, handoffs>> /\ Rearm
    BY <1>2 DEF AdvanceStage
  <2>2. DataOK'
    BY <2>1 DEF IInv, DataOK
  <2>3. QED
    BY <2>1, <2>2, QueueKept
<1>3. QED
  BY <1>1, <1>2

LEMMA SetRoleStep ==
    ASSUME IInv, NEW r \in Roles, SetRole(r) PROVE IInv'
<1>1. DataOK'
  BY DEF IInv, DataOK, SetRole, data
<1>2. QED
  BY <1>1, QueueKept DEF SetRole, data

(* An abort ends the wait for an agent and leaves a decision.               *)
LEMMA AbortLeadStep ==
    ASSUME IInv, NEW l \in Leads, AbortLead(l) PROVE IInv'
<1>1. pending' = [pending EXCEPT ![l] = NoAgent] /\ UNCHANGED <<role, data>> /\ Rearm
  BY DEF AbortLead, Drop
<1>2. DataOK'
  BY <1>1 DEF IInv, DataOK, data
<1>3. \A m \in Leads : (OneDecision(m)' <=> OneDecision(m)) /\ (HasDecision(m)' <=> HasDecision(m))
  BY <1>1 DEF OneDecision, HasDecision, Awaits, data
<1>4. \A m \in Leads : pending'[m] = key[m] => pending[m] = key[m]
  BY <1>1 DEF IInv, DataOK, Moved, NoAgent
<1>5. \A m \in Leads : pending'[m] # NoAgent => ~HasDecision(m)'
  BY <1>1, <1>3 DEF IInv, DataOK, Single
<1>6. \A m \in Leads : pending'[m] = "followup" => status'[m] = "converted"
  BY <1>1 DEF IInv, DataOK, FollowupConverted, data, NoAgent
<1>7. QED
  BY <1>1, <1>2, <1>3, <1>4, <1>5, <1>6, Clicked DEF IInv, Single

(* A decision after which its lead waits for no agent.                      *)
LEMMA DecisionEnds ==
    ASSUME IInv, NEW i \in DOMAIN handoffs, NEW word \in {"effective", "rejected"},
           handoffs[i].status = "pending", Decide(i, word), Rearm,
           UNCHANGED <<role, status, accounts>>,
           stage' \in [Leads -> Stages \cup {NoStage}], calls' \in [Leads -> Nat],
           pending' = pending \/ Drop(handoffs[i].lead)
    PROVE  IInv'
<1> DEFINE l == handoffs[i].lead
<1>0. handoffs[i] \in Handoff
  BY DEF IInv, DataOK
<1>1. l \in Leads
  BY <1>0 DEF Handoff
<1>2. OneDecision(l)
  BY <1>1 DEF IInv, Single
<1>3. /\ handoffs' \in Seq(Handoff)
      /\ HasDecision(l)
      /\ \A m \in Leads : HasDecision(m)' <=> HasDecision(m) /\ m # l
      /\ \A m \in Leads : OneDecision(m) => OneDecision(m)'
  BY <1>2, Decided DEF IInv
<1>4. pending[l] = NoAgent
  BY <1>1, <1>3 DEF IInv, Single
<1>5. pending' = pending
  BY <1>1, <1>4 DEF Drop, IInv, DataOK
<1>6. DataOK'
  BY <1>3, <1>5 DEF IInv, DataOK
<1>7. \A m \in Leads : pending'[m] # NoAgent => ~HasDecision(m)'
  BY <1>3, <1>5 DEF IInv, Single
<1>8. \A m \in Leads : pending'[m] = "followup" => status'[m] = "converted"
  BY <1>5 DEF IInv, FollowupConverted
<1>9. \A m \in Leads : OneDecision(m)'
  BY <1>3 DEF IInv, Single
<1>10. QED
  BY <1>5, <1>6, <1>7, <1>8, <1>9, Clicked

LEMMA DecisionSteps ==
    ASSUME IInv, NEW i \in DOMAIN handoffs, ConfirmSend(i) \/ ConfirmWinLoss(i) \/ Reject(i)
    PROVE  IInv'
<1> DEFINE l == handoffs[i].lead
<1>0. handoffs[i] \in Handoff
  BY DEF IInv, DataOK
<1>1. l \in Leads /\ handoffs[i].stage \in Stages \cup {NoStage}
  BY <1>0 DEF Handoff
<1>2. handoffs[i].status = "pending" /\ Rearm /\ UNCHANGED <<role, status, accounts>>
  BY DEF ConfirmSend, ConfirmWinLoss, Reject, MayDecide
<1>3. Decide(i, "effective") \/ Decide(i, "rejected")
  BY DEF ConfirmSend, ConfirmWinLoss, Reject
<1>4. stage' \in [Leads -> Stages \cup {NoStage}]
  BY <1>1 DEF IInv, DataOK, ConfirmSend, ConfirmWinLoss, Reject
<1>5. calls' \in [Leads -> Nat]
  BY <1>1 DEF IInv, DataOK, ConfirmSend, ConfirmWinLoss, Reject
<1>6. pending' = pending \/ Drop(handoffs[i].lead)
  BY DEF ConfirmSend, ConfirmWinLoss, Reject
<1>7. QED
  BY <1>2, <1>3, <1>4, <1>5, <1>6, DecisionEnds

(* A conversion makes its lead wait for the follow-up.                      *)
LEMMA ConfirmConvertStep ==
    ASSUME IInv, NEW i \in DOMAIN handoffs, ConfirmConvert(i) PROVE IInv'
<1> DEFINE l == handoffs[i].lead
<1>0. handoffs[i] \in Handoff
  BY DEF IInv, DataOK
<1>1. l \in Leads
  BY <1>0 DEF Handoff
<1>2. /\ handoffs[i].status = "pending" /\ Decide(i, "effective") /\ Rearm
      /\ UNCHANGED <<role, calls>>
  BY DEF ConfirmConvert, MayDecide
<1>3. CASE status[l] = "converted"
  <2>1. UNCHANGED <<status, stage, accounts, pending>>
    BY <1>3 DEF ConfirmConvert
  <2>2. stage' \in [Leads -> Stages \cup {NoStage}] /\ calls' \in [Leads -> Nat]
    BY <1>2, <2>1 DEF IInv, DataOK
  <2>3. QED
    BY <1>2, <2>1, <2>2, DecisionEnds
<1>4. CASE status[l] # "converted"
  <2>1. /\ status' = [status EXCEPT ![l] = "converted"]
        /\ stage' = [stage EXCEPT ![l] = "open"]
        /\ accounts' = [accounts EXCEPT ![l] = accounts[l] + 1]
        /\ pending' = [pending EXCEPT ![l] = "followup"]
    BY <1>4 DEF ConfirmConvert
  <2>2. /\ handoffs' \in Seq(Handoff)
        /\ \A m \in Leads : HasDecision(m)' <=> HasDecision(m) /\ m # l
        /\ \A m \in Leads : OneDecision(m) => OneDecision(m)'
    BY <1>1, <1>2, Decided DEF IInv, Single
  <2>3. accounts' \in [Leads -> Nat]
    BY <1>1, <2>1 DEF IInv, DataOK
  <2>4. /\ status' \in [Leads -> {"new", "converted"}]
        /\ stage' \in [Leads -> Stages \cup {NoStage}]
        /\ pending' \in [Leads -> Queued \cup {NoAgent}]
    BY <1>1, <2>1 DEF IInv, DataOK, Stages, MidStages, Queued
  <2>5. DataOK'
    BY <1>2, <2>2, <2>3, <2>4 DEF IInv, DataOK
  <2>6. \A m \in Leads : pending'[m] = key[m] => pending[m] = key[m]
    BY <1>1, <1>4, <2>1 DEF IInv, DataOK, FollowupConverted
  <2>7. \A m \in Leads : pending'[m] # NoAgent => ~HasDecision(m)'
    BY <1>1, <2>1, <2>2 DEF IInv, DataOK, Single
  <2>8. \A m \in Leads : pending'[m] = "followup" => status'[m] = "converted"
    BY <1>1, <2>1 DEF IInv, DataOK, FollowupConverted
  <2>9. \A m \in Leads : OneDecision(m)'
    BY <2>2 DEF IInv, Single
  <2>10. QED
    BY <1>2, <2>5, <2>6, <2>7, <2>8, <2>9, Clicked
<1>5. QED
  BY <1>3, <1>4

LEMMA ClickStep ==
    ASSUME IInv, Click PROVE IInv'
<1>1. ASSUME NEW r \in Roles, SetRole(r) PROVE IInv'
  BY <1>1, SetRoleStep
<1>2. ASSUME NEW l \in Leads, StartSlice(l) PROVE IInv'
  BY <1>2, StartSliceStep
<1>3. ASSUME NEW l \in Leads, AbortLead(l) PROVE IInv'
  BY <1>3, AbortLeadStep
<1>4. ASSUME NEW l \in Leads, NEW to \in Stages, AdvanceStage(l, to) PROVE IInv'
  BY <1>4, AdvanceStageStep
<1>5. ASSUME NEW i \in DOMAIN handoffs, ConfirmConvert(i) PROVE IInv'
  BY <1>5, ConfirmConvertStep
<1>6. ASSUME NEW i \in DOMAIN handoffs, ConfirmSend(i) \/ ConfirmWinLoss(i) \/ Reject(i)
      PROVE  IInv'
  BY <1>6, DecisionSteps
<1>7. QED
  BY <1>1, <1>2, <1>3, <1>4, <1>5, <1>6 DEF Click

(* A timer fires for a lead that still waits for the agent of its key.      *)
LEMMA FireStep ==
    ASSUME IInv, NEW l \in Leads, Fire(l) PROVE IInv'
<1>1. /\ pending[l] = key[l] /\ pending[l] # NoAgent /\ ~HasDecision(l) /\ OneDecision(l)
      /\ Arrive(l)
      /\ armed' = armed \ {l} /\ UNCHANGED <<role, due, key, status, stage, accounts, calls>>
  BY DEF IInv, Armed, Single, Fire, Arrive
<1>2. DataOK
  BY DEF IInv
<1>3. CASE pending[l] = "lead-intake"
  <2>1. /\ MakeHandoff(l, "lead-intake", "effective", "none", NoStage)
        /\ pending' = [pending EXCEPT ![l] = "pipeline"]
    BY <1>1, <1>3 DEF Arrive
  <2>2. "lead-intake" \in Agents /\ "none" \in Kinds /\ NoStage \in Stages \cup {NoStage}
    BY DEF Agents, Queued, Kinds
  <2>3. /\ handoffs' \in Seq(Handoff)
        /\ \A m \in Leads : HasDecision(m)' <=> HasDecision(m)
        /\ \A m \in Leads : OneDecision(m) => OneDecision(m)'
    BY <1>2, <2>1, <2>2, Appended
  <2>4. DataOK' /\ TimersOK'
    BY <1>1, <2>1, <2>3 DEF IInv, DataOK, TimersOK, Queued
  <2>5. Armed'
    BY <1>1, <1>3, <2>1 DEF IInv, DataOK, Armed
  <2>6. Moved'
    BY <1>1, <1>3, <2>1, <2>3 DEF IInv, DataOK, Moved
  <2>7. FollowupConverted'
    BY <1>1, <1>3, <2>1 DEF IInv, DataOK, FollowupConverted
  <2>8. Single'
    BY <1>1, <2>1, <2>3 DEF IInv, DataOK, Single
  <2>9. QED
    BY <2>4, <2>5, <2>6, <2>7, <2>8 DEF IInv
<1>4. CASE pending[l] \in {"pipeline", "followup"}
  <2>1. PICK agent \in Agents, kind \in Kinds : MakeHandoff(l, agent, "pending", kind, NoStage)
    BY <1>1, <1>4 DEF Arrive, Agents, Queued, Kinds
  <2>2. pending' = [pending EXCEPT ![l] = NoAgent]
    BY <1>1, <1>4 DEF Arrive, Drop
  <2>3. /\ handoffs' \in Seq(Handoff)
        /\ \A m \in Leads : HasDecision(m)' <=> HasDecision(m) \/ m = l
        /\ \A m \in Leads : OneDecision(m)'
    BY <1>1, <1>2, <2>1, Appended DEF IInv, Single
  <2>4. DataOK' /\ TimersOK'
    BY <1>1, <2>2, <2>3 DEF IInv, DataOK, TimersOK
  <2>5. Armed'
    BY <1>1, <2>2 DEF IInv, DataOK, Armed
  <2>6. Moved'
    BY <1>1, <2>2, <2>3 DEF IInv, DataOK, Moved
  <2>7. FollowupConverted'
    BY <1>1, <2>2 DEF IInv, DataOK, FollowupConverted, NoAgent
  <2>8. Single'
    BY <1>1, <2>2, <2>3 DEF IInv, DataOK, Single
  <2>9. QED
    BY <2>4, <2>5, <2>6, <2>7, <2>8 DEF IInv
<1>5. QED
  BY <1>1, <1>2, <1>3, <1>4 DEF DataOK, Queued

(* React renders what the timers changed.                                   *)
LEMMA RenderStep ==
    ASSUME IInv, Render PROVE IInv'
<1>1. DataOK' /\ Rearm /\ UNCHANGED <<pending, handoffs, status>>
  BY DEF IInv, DataOK, Render, data
<1>2. QED
  BY <1>1, QueueKept

LEMMA ElapseStep ==
    ASSUME IInv, Elapse PROVE IInv'
<1>1. UNCHANGED <<role, data, pending, armed, key>> /\ due' = TRUE
  BY DEF Elapse
<1>2. \A l \in Leads : (OneDecision(l)' <=> OneDecision(l)) /\ (HasDecision(l)' <=> HasDecision(l))
  BY <1>1 DEF OneDecision, HasDecision, Awaits, data
<1>3. QED
  BY <1>1, <1>2 DEF IInv, DataOK, TimersOK, Armed, Moved, FollowupConverted, Single, data

LEMMA StepKept ==
    ASSUME IInv, [Next]_vars PROVE IInv'
<1>1. CASE UNCHANGED vars
  <2>1. \A l \in Leads : (OneDecision(l)' <=> OneDecision(l)) /\ (HasDecision(l)' <=> HasDecision(l))
    BY <1>1 DEF OneDecision, HasDecision, Awaits, vars, data
  <2>2. QED
    BY <1>1, <2>1 DEF IInv, DataOK, TimersOK, Armed, Moved, FollowupConverted, Single,
                      vars, data, timers
<1>2. CASE Click
  BY <1>2, ClickStep
<1>3. CASE Elapse
  BY <1>3, ElapseStep
<1>4. ASSUME NEW l \in Leads, Fire(l) PROVE IInv'
  BY <1>4, FireStep
<1>5. CASE Render
  BY <1>5, RenderStep
<1>6. QED
  BY <1>1, <1>2, <1>3, <1>4, <1>5 DEF Next, Timer

LEMMA InitKept == Init => IInv
<1> SUFFICES ASSUME Init PROVE IInv
  OBVIOUS
<1>1. DataOK
  BY SeedAssumption DEF Init, DataOK, Roles, NoAgent
<1>2. TimersOK /\ Armed /\ Moved
  BY DEF Init, TimersOK, Armed, Moved
<1>3. FollowupConverted
  BY DEF Init, FollowupConverted, NoAgent
<1>4. Single
  BY DEF Init, Single, OneDecision, HasDecision
<1>5. QED
  BY <1>1, <1>2, <1>3, <1>4 DEF IInv

-----------------------------------------------------------------------------
(* The theorems.                                                           *)

(* The invariant holds of every behaviour.                                  *)
THEOREM Inductive == Spec => []IInv
<1>1. Init => IInv
  BY InitKept
<1>2. IInv /\ [Next]_vars => IInv'
  BY StepKept
<1>3. QED
  BY <1>1, <1>2, PTL DEF Spec

(* The state has its type: machine.ts builds no other value.                *)
THEOREM TypeCorrect == Spec => []TypeOK
<1>1. IInv => TypeOK
  BY Consequences
<1>2. QED
  BY <1>1, Inductive, PTL

(* The effect of App.tsx never leaves a lead without its timer, and no timer *)
(* without its lead.                                                        *)
THEOREM TimersMatchQueue == Spec => []EveryWaitTimed
<1>1. IInv => EveryWaitTimed
  BY Consequences
<1>2. QED
  BY <1>1, Inductive, PTL

(* A lead of the prototype waits for one agent or one decision at a time.   *)
THEOREM WaitsOnce == Spec => []OneStepAtATime
<1>1. IInv => OneStepAtATime
  BY Consequences
<1>2. QED
  BY <1>1, Inductive, PTL

(* Won and lost come from a manager's decision alone.                       *)
LEMMA ClosingStep ==
    ASSUME IInv, [Next]_vars, NEW l \in Leads, stage'[l] # stage[l], stage'[l] \in ClosedStages
    PROVE  role = "manager" /\ \E i \in DOMAIN handoffs : Awaits(i, l) /\ handoffs[i].stage = stage'[l]
<1>1. stage' # stage
  OBVIOUS
<1>2. DataOK
  BY DEF IInv
<1>3. ASSUME NEW i \in DOMAIN handoffs, ConfirmWinLoss(i)
      PROVE  role = "manager" /\ Awaits(i, l) /\ handoffs[i].stage = stage'[l]
  <2>1. stage' = [stage EXCEPT ![handoffs[i].lead] = handoffs[i].stage]
    BY <1>1, <1>3 DEF ConfirmWinLoss
  <2>2. handoffs[i].lead = l /\ handoffs[i].stage = stage'[l]
    BY <1>2, <2>1 DEF DataOK
  <2>3. handoffs[i].status = "pending" /\ role = "manager"
    BY <1>3 DEF ConfirmWinLoss, MayDecide, CanConfirm
  <2>4. QED
    BY <2>2, <2>3 DEF Awaits
<1>4. ASSUME NEW i \in DOMAIN handoffs, ConfirmConvert(i) PROVE FALSE
  <2>1. stage' = [stage EXCEPT ![handoffs[i].lead] = "open"]
    BY <1>1, <1>4 DEF ConfirmConvert
  <2>2. QED
    BY <1>2, <2>1 DEF DataOK, ClosedStages
<1>5. ASSUME NEW m \in Leads, NEW to \in Stages, AdvanceStage(m, to) PROVE FALSE
  <2>1. to \notin ClosedStages /\ stage' = [stage EXCEPT ![m] = to]
    BY <1>1, <1>5 DEF AdvanceStage
  <2>2. QED
    BY <1>2, <2>1 DEF DataOK
<1>6. \E i \in DOMAIN handoffs : ConfirmWinLoss(i)
  BY <1>1, <1>4, <1>5 DEF Next, Click, Timer, vars, data, SetRole, StartSlice, AbortLead, ConfirmSend,
     Reject, Elapse, Fire, Arrive, Render
<1>7. QED
  BY <1>3, <1>6

THEOREM ClosingIsManaged == Spec => ClosedByManager
<1>1. IInv /\ [Next]_vars =>
        \A l \in Leads : stage'[l] # stage[l] /\ stage'[l] \in ClosedStages =>
           /\ role = "manager"
           /\ \E i \in DOMAIN handoffs : Awaits(i, l) /\ handoffs[i].stage = stage'[l]
  BY ClosingStep
<1>2. QED
  BY <1>1, Inductive, PTL DEF Spec, ClosedByManager

-----------------------------------------------------------------------------
(* The objects of a lead and the decisions that brought them.              *)

Matching(l, kind, word) ==
    {i \in DOMAIN handoffs :
        handoffs[i].lead = l /\ handoffs[i].kind = kind /\ handoffs[i].status = word}

\* The follow-up agent has handed something over.
FollowedUp(l) ==
    \E i \in DOMAIN handoffs : handoffs[i].lead = l /\ handoffs[i].agent = "followup"

\* What the machine's agents propose: a conversion waits only for a lead that is
\* new, a call is the follow-up's, a closing names the stage it closes at.
Proposed ==
    \A i \in DOMAIN handoffs :
        /\ handoffs[i].kind = "convert" /\ handoffs[i].status = "pending"
               => status[handoffs[i].lead] = "new"
        /\ handoffs[i].kind = "send" => handoffs[i].agent = "followup"
        /\ handoffs[i].kind = "close" => handoffs[i].stage \in ClosedStages

Books == ObjectsMatchDecisions /\ Proposed

(* The decisions are counted by a natural number: a timeline is finite.     *)
LEMMA Counted ==
    ASSUME DataOK, NEW l, NEW kind, NEW word
    PROVE  /\ IsFiniteSet(Matching(l, kind, word))
           /\ Count(l, kind, word) = Cardinality(Matching(l, kind, word))
           /\ Count(l, kind, word) \in Nat
<1>1. handoffs \in Seq(Handoff)
  BY DEF DataOK
<1>2. DOMAIN handoffs = 1 .. Len(handoffs) /\ Len(handoffs) \in Nat
  BY <1>1
<1>3. IsFiniteSet(DOMAIN handoffs)
  BY <1>2, FS_Interval
<1>4. IsFiniteSet(Matching(l, kind, word))
  BY <1>3, FS_Subset DEF Matching
<1>5. Count(l, kind, word) = Cardinality(Matching(l, kind, word))
  BY DEF Count, Matching
<1>6. QED
  BY <1>4, <1>5, FS_CardinalityType

(* A handoff that is appended counts for its lead, as what it is.           *)
LEMMA AppendCounts ==
    ASSUME DataOK, NEW l \in Leads, NEW agent \in Agents, NEW word \in {"pending", "effective"},
           NEW kind \in Kinds, NEW to \in Stages \cup {NoStage},
           MakeHandoff(l, agent, word, kind, to)
    PROVE  /\ \A m \in Leads, k \in Kinds :
                ~(m = l /\ k = kind /\ word = "effective")
                    => Count(m, k, "effective")' = Count(m, k, "effective")
           /\ \A m \in Leads : FollowedUp(m)' <=> FollowedUp(m) \/ (m = l /\ agent = "followup")
           /\ \A i \in DOMAIN handoffs' :
                \/ i \in DOMAIN handoffs /\ handoffs'[i] = handoffs[i]
                \/ handoffs'[i] = [lead |-> l, agent |-> agent, status |-> word,
                                   kind |-> kind, stage |-> to]
<1> DEFINE new == [lead |-> l, agent |-> agent, status |-> word, kind |-> kind, stage |-> to]
<1>1. handoffs \in Seq(Handoff) /\ new \in Handoff /\ handoffs' = Append(handoffs, new)
  BY DEF DataOK, Handoff, MakeHandoff
<1>2. new.lead = l /\ new.agent = agent /\ new.status = word /\ new.kind = kind
  OBVIOUS
<1> HIDE DEF new
<1>n. PICK n \in Nat : n = Len(handoffs) + 1
  BY <1>1
<1>3. /\ n \notin DOMAIN handoffs
      /\ DOMAIN handoffs' = DOMAIN handoffs \cup {n}
      /\ \A i \in DOMAIN handoffs : handoffs'[i] = handoffs[i]
      /\ handoffs'[n] = new
  BY <1>1, <1>n
<1>4. ASSUME NEW m \in Leads, NEW k \in Kinds, ~(m = l /\ k = kind /\ word = "effective")
      PROVE  Count(m, k, "effective")' = Count(m, k, "effective")
  <2>1. Matching(m, k, "effective")' = Matching(m, k, "effective")
    BY <1>2, <1>3, <1>4 DEF Matching
  <2>2. QED
    BY <2>1 DEF Count, Matching
<1>5. ASSUME NEW m \in Leads
      PROVE  FollowedUp(m)' <=> FollowedUp(m) \/ (m = l /\ agent = "followup")
  BY <1>2, <1>3 DEF FollowedUp
<1>6. \A i \in DOMAIN handoffs' :
          (i \in DOMAIN handoffs /\ handoffs'[i] = handoffs[i]) \/ handoffs'[i] = new
  BY <1>3
<1>7. QED
  BY <1>4, <1>5, <1>6 DEF new

(* A decision counts once more for the lead and kind of its handoff, if it  *)
(* is a confirmation, and for nothing else.                                 *)
LEMMA DecisionCounts ==
    ASSUME DataOK, NEW i \in DOMAIN handoffs, NEW word \in {"effective", "rejected"},
           handoffs[i].status = "pending", Decide(i, word)
    PROVE  /\ \A m \in Leads, k \in Kinds :
                Count(m, k, "effective")' =
                    IF handoffs[i].lead = m /\ handoffs[i].kind = k /\ word = "effective"
                    THEN Count(m, k, "effective") + 1
                    ELSE Count(m, k, "effective")
           /\ \A m \in Leads : FollowedUp(m)' <=> FollowedUp(m)
           /\ DOMAIN handoffs' = DOMAIN handoffs
           /\ \A j \in DOMAIN handoffs :
                /\ handoffs'[j].lead = handoffs[j].lead /\ handoffs'[j].kind = handoffs[j].kind
                /\ handoffs'[j].agent = handoffs[j].agent /\ handoffs'[j].stage = handoffs[j].stage
                /\ handoffs'[j].status = IF j = i THEN word ELSE handoffs[j].status
<1> DEFINE old == handoffs[i]
           new == [old EXCEPT !.status = word]
<1>1. handoffs \in Seq(Handoff) /\ old \in Handoff
  BY DEF DataOK
<1>2. /\ new.lead = old.lead /\ new.status = word /\ new.kind = old.kind
      /\ new.agent = old.agent /\ new.stage = old.stage
  BY <1>1 DEF Handoff
<1>3. handoffs' = [handoffs EXCEPT ![i] = new]
  BY DEF Decide
<1> HIDE DEF new
<1>4. /\ DOMAIN handoffs' = DOMAIN handoffs
      /\ handoffs'[i] = new
      /\ \A j \in DOMAIN handoffs : j # i => handoffs'[j] = handoffs[j]
  BY <1>1, <1>3
<1>5. ASSUME NEW m \in Leads, NEW k \in Kinds,
             ~(handoffs[i].lead = m /\ handoffs[i].kind = k /\ word = "effective")
      PROVE  Count(m, k, "effective")' = Count(m, k, "effective")
  <2>1. Matching(m, k, "effective")' = Matching(m, k, "effective")
    BY <1>2, <1>4, <1>5 DEF Matching
  <2>2. QED
    BY <2>1 DEF Count, Matching
<1>6. ASSUME NEW m \in Leads, NEW k \in Kinds,
             handoffs[i].lead = m, handoffs[i].kind = k, word = "effective"
      PROVE  Count(m, k, "effective")' = Count(m, k, "effective") + 1
  <2>1. Matching(m, k, "effective")' = Matching(m, k, "effective") \cup {i}
    BY <1>2, <1>4, <1>6 DEF Matching
  <2>2. i \notin Matching(m, k, "effective")
    BY DEF Matching
  <2>3. /\ IsFiniteSet(Matching(m, k, "effective"))
        /\ Count(m, k, "effective") = Cardinality(Matching(m, k, "effective"))
    BY Counted
  <2>4. Count(m, k, "effective")' = Cardinality(Matching(m, k, "effective")')
    BY DEF Count, Matching
  <2>5. QED
    BY <2>1, <2>2, <2>3, <2>4, FS_AddElement
<1>7. \A m \in Leads : FollowedUp(m)' <=> FollowedUp(m)
  BY <1>2, <1>4 DEF FollowedUp
<1>8. QED
  BY <1>2, <1>4, <1>5, <1>6, <1>7

\* The objects and the calls of one lead.
ObjectsOf(l) ==
    /\ accounts[l] = Count(l, "convert", "effective")
                     + (IF SeedStage[l] = NoStage THEN 0 ELSE 1)
    /\ accounts[l] = (IF status[l] = "converted" THEN 1 ELSE 0)
    /\ calls[l] = Count(l, "send", "effective")
    /\ status[l] = "converted" <=> stage[l] # NoStage
    /\ pending[l] \in {"lead-intake", "pipeline"} => status[l] = "new"
    /\ pending[l] = "followup" \/ FollowedUp(l) => Count(l, "convert", "effective") = 1

LEMMA Objects == ObjectsMatchDecisions <=> \A l \in Leads : ObjectsOf(l)
BY DEF ObjectsMatchDecisions, ObjectsOf, FollowedUp

(* A step that leaves the timeline alone and takes no opportunity away: a   *)
(* stage among the stages, an aborted wait, a timer, a render.              *)
LEMMA BooksKept ==
    ASSUME IInv, Books, UNCHANGED <<status, accounts, calls, handoffs>>,
           \A l \in Leads : stage'[l] # NoStage <=> stage[l] # NoStage,
           \A l \in Leads : pending'[l] \in {pending[l], NoAgent}
    PROVE  Books'
<1>1. \A l \in Leads, k \in Kinds : Count(l, k, "effective")' = Count(l, k, "effective")
  BY DEF Count
<1>2. \A l \in Leads : FollowedUp(l)' <=> FollowedUp(l)
  BY DEF FollowedUp
<1>3. ASSUME NEW l \in Leads PROVE ObjectsOf(l)'
  <2>1. /\ Count(l, "convert", "effective")' = Count(l, "convert", "effective")
        /\ Count(l, "send", "effective")' = Count(l, "send", "effective")
    BY <1>1 DEF Kinds
  <2>2. ObjectsOf(l)
    BY Objects DEF Books
  <2>3. QED
    BY <1>2, <2>1, <2>2 DEF ObjectsOf, NoAgent
<1>4. Proposed'
  BY DEF Books, Proposed
<1>5. ObjectsMatchDecisions'
  BY <1>3 DEF ObjectsMatchDecisions, ObjectsOf, FollowedUp
<1>6. QED
  BY <1>4, <1>5 DEF Books

(* An agent hands something over, or the user starts it: no decision is     *)
(* made, and what comes next is the agent's or nobody's.                    *)
LEMMA BooksAppended ==
    ASSUME IInv, Books, NEW l \in Leads, NEW agent \in Agents,
           NEW word \in {"pending", "effective"}, NEW kind \in Kinds,
           NEW to \in Stages \cup {NoStage}, NEW next \in Queued \cup {NoAgent},
           MakeHandoff(l, agent, word, kind, to), UNCHANGED <<status, stage, accounts, calls>>,
           pending' = [pending EXCEPT ![l] = next],
           word = "effective" => kind = "none",
           kind = "convert" => status[l] = "new",
           kind = "send" => agent = "followup",
           kind = "close" => to \in ClosedStages,
           agent = "followup" => pending[l] = "followup",
           next # "followup", next # NoAgent => status[l] = "new"
    PROVE  Books'
<1> DEFINE new == [lead |-> l, agent |-> agent, status |-> word, kind |-> kind, stage |-> to]
<1>0. DataOK
  BY DEF IInv
<1>1. /\ \A m \in Leads, k \in Kinds :
            ~(m = l /\ k = kind /\ word = "effective")
                => Count(m, k, "effective")' = Count(m, k, "effective")
      /\ \A m \in Leads : FollowedUp(m)' <=> FollowedUp(m) \/ (m = l /\ agent = "followup")
      /\ \A i \in DOMAIN handoffs' :
            (i \in DOMAIN handoffs /\ handoffs'[i] = handoffs[i]) \/ handoffs'[i] = new
  BY <1>0, AppendCounts
<1>2. new.lead = l /\ new.agent = agent /\ new.status = word /\ new.kind = kind /\ new.stage = to
  OBVIOUS
<1> HIDE DEF new
<1>3. ASSUME NEW m \in Leads PROVE ObjectsOf(m)'
  <2>1. /\ Count(m, "convert", "effective")' = Count(m, "convert", "effective")
        /\ Count(m, "send", "effective")' = Count(m, "send", "effective")
    BY <1>1 DEF Kinds
  <2>2. ObjectsOf(m)
    BY Objects DEF Books
  <2>3. FollowedUp(m)' => FollowedUp(m) \/ pending[m] = "followup"
    BY <1>1
  <2>4. pending'[m] = pending[m] \/ (m = l /\ pending'[m] = next)
    BY <1>0 DEF DataOK
  <2>5. pending'[m] = "followup" => pending[m] = "followup"
    BY <2>4
  <2>6. pending'[m] \in {"lead-intake", "pipeline"} => status[m] = "new"
    BY <2>2, <2>4 DEF ObjectsOf, NoAgent
  <2>7. QED
    BY <2>1, <2>2, <2>3, <2>5, <2>6 DEF ObjectsOf
<1>4. Proposed'
  <2>1. ASSUME NEW i \in DOMAIN handoffs'
        PROVE  /\ handoffs'[i].kind = "convert" /\ handoffs'[i].status = "pending"
                      => status'[handoffs'[i].lead] = "new"
               /\ handoffs'[i].kind = "send" => handoffs'[i].agent = "followup"
               /\ handoffs'[i].kind = "close" => handoffs'[i].stage \in ClosedStages
    <3>1. CASE i \in DOMAIN handoffs /\ handoffs'[i] = handoffs[i]
      BY <3>1 DEF Books, Proposed
    <3>2. CASE handoffs'[i] = new
      BY <1>2, <3>2
    <3>3. QED
      BY <1>1, <3>1, <3>2
  <2>2. QED
    BY <2>1 DEF Proposed
<1>5. ObjectsMatchDecisions'
  BY <1>3 DEF ObjectsMatchDecisions, ObjectsOf, FollowedUp
<1>6. QED
  BY <1>4, <1>5 DEF Books

(* A user confirms a call or a closing, or rejects: what is decided counts  *)
(* as the call it makes, and a conversion is confirmed elsewhere.           *)
LEMMA BooksDecided ==
    ASSUME IInv, Books, NEW i \in DOMAIN handoffs,
           ConfirmSend(i) \/ ConfirmWinLoss(i) \/ Reject(i)
    PROVE  Books'
<1> DEFINE l == handoffs[i].lead
<1>0. DataOK /\ handoffs[i] \in Handoff
  BY DEF IInv, DataOK
<1>1. l \in Leads /\ handoffs[i].kind \in Kinds
  BY <1>0 DEF Handoff
<1>2. handoffs[i].status = "pending" /\ UNCHANGED <<status, accounts>>
  BY DEF ConfirmSend, ConfirmWinLoss, Reject, MayDecide
<1>3. PICK word \in {"effective", "rejected"} :
        /\ Decide(i, word)
        /\ word = "effective" => handoffs[i].kind \in {"send", "close"}
  BY DEF ConfirmSend, ConfirmWinLoss, Reject
<1>4. /\ \A m \in Leads, k \in Kinds :
            Count(m, k, "effective")' =
                IF l = m /\ handoffs[i].kind = k /\ word = "effective"
                THEN Count(m, k, "effective") + 1 ELSE Count(m, k, "effective")
      /\ \A m \in Leads : FollowedUp(m)' <=> FollowedUp(m)
      /\ DOMAIN handoffs' = DOMAIN handoffs
      /\ \A j \in DOMAIN handoffs :
            /\ handoffs'[j].lead = handoffs[j].lead /\ handoffs'[j].kind = handoffs[j].kind
            /\ handoffs'[j].agent = handoffs[j].agent /\ handoffs'[j].stage = handoffs[j].stage
            /\ handoffs'[j].status = IF j = i THEN word ELSE handoffs[j].status
  BY <1>0, <1>2, <1>3, DecisionCounts
<1>5. \A m \in Leads : ObjectsOf(m)
  BY Objects DEF Books
<1>6. \A m \in Leads : Count(m, "convert", "effective")' = Count(m, "convert", "effective")
  BY <1>3, <1>4 DEF Kinds
<1>7. \A m \in Leads : pending'[m] \in {pending[m], NoAgent}
  BY <1>0, <1>1 DEF DataOK, ConfirmSend, ConfirmWinLoss, Reject, Drop
<1>8. \A m \in Leads : stage'[m] # NoStage <=> stage[m] # NoStage
  <2>1. CASE ConfirmWinLoss(i)
    <3>1. handoffs[i].stage \in ClosedStages
      BY <2>1 DEF ConfirmWinLoss, Books, Proposed
    <3>2. handoffs[i].stage # NoStage
      BY <3>1 DEF ClosedStages, NoStage
    <3>3. QED
      BY <1>0, <1>1, <2>1, <3>2 DEF DataOK, ConfirmWinLoss
  <2>2. CASE ConfirmSend(i) \/ Reject(i)
    BY <2>2 DEF ConfirmSend, Reject
  <2>3. QED
    BY <2>1, <2>2
<1>9. \A m \in Leads : calls'[m] = Count(m, "send", "effective")'
  <2>0. \A m \in Leads : calls[m] = Count(m, "send", "effective")
    BY <1>5 DEF ObjectsOf
  <2>1. CASE ConfirmSend(i)
    <3>1. handoffs[i].kind = "send" /\ Decide(i, "effective")
      BY <2>1 DEF ConfirmSend
    <3>2. word = "effective"
      BY <1>0, <1>3, <3>1 DEF Decide, DataOK, Handoff
    <3>3. handoffs[i].agent = "followup"
      BY <3>1 DEF Books, Proposed
    <3>4. FollowedUp(l)
      BY <3>3 DEF FollowedUp
    <3>5. Count(l, "convert", "effective") = 1
      BY <1>1, <1>5, <3>4 DEF ObjectsOf
    <3>6. accounts[l] # 0
      BY <1>1, <1>5, <3>5 DEF ObjectsOf
    <3>7. status[l] = "converted" /\ stage[l] # NoStage
      BY <1>1, <1>5, <3>6 DEF ObjectsOf
    <3>8. calls' = [calls EXCEPT ![l] = calls[l] + 1]
      BY <2>1, <3>7 DEF ConfirmSend
    <3>9. \A m \in Leads : Count(m, "send", "effective")' =
              IF m = l THEN Count(m, "send", "effective") + 1 ELSE Count(m, "send", "effective")
      BY <1>4, <3>1, <3>2 DEF Kinds
    <3>10. QED
      BY <1>0, <1>1, <2>0, <3>8, <3>9 DEF DataOK
  <2>2. CASE ConfirmWinLoss(i) \/ Reject(i)
    <3>1. calls' = calls
      BY <2>2 DEF ConfirmWinLoss, Reject
    <3>2. ~(handoffs[i].kind = "send" /\ word = "effective")
      BY <1>0, <1>3, <2>2 DEF ConfirmWinLoss, Reject, Decide, DataOK, Handoff
    <3>3. \A m \in Leads : Count(m, "send", "effective")' = Count(m, "send", "effective")
      BY <1>4, <3>2 DEF Kinds
    <3>4. QED
      BY <2>0, <3>1, <3>3
  <2>3. QED
    BY <2>1, <2>2
<1>10. ASSUME NEW m \in Leads PROVE ObjectsOf(m)'
  BY <1>2, <1>4, <1>5, <1>6, <1>7, <1>8, <1>9 DEF ObjectsOf, NoAgent
<1>11. Proposed'
  BY <1>2, <1>4 DEF Books, Proposed
<1>12. ObjectsMatchDecisions'
  BY <1>10 DEF ObjectsMatchDecisions, ObjectsOf, FollowedUp
<1>13. QED
  BY <1>11, <1>12 DEF Books

(* A conversion is confirmed: its lead was new, so this decision is the one *)
(* that brought its objects.                                                *)
LEMMA BooksConverted ==
    ASSUME IInv, Books, NEW i \in DOMAIN handoffs, ConfirmConvert(i) PROVE Books'
<1> DEFINE l == handoffs[i].lead
<1>0. DataOK /\ handoffs[i] \in Handoff
  BY DEF IInv, DataOK
<1>1. l \in Leads
  BY <1>0 DEF Handoff
<1>2. /\ handoffs[i].status = "pending" /\ handoffs[i].kind = "convert" /\ Decide(i, "effective")
      /\ UNCHANGED calls
  BY DEF ConfirmConvert, MayDecide
<1>3. status[l] = "new"
  BY <1>2 DEF Books, Proposed
<1>4. /\ status' = [status EXCEPT ![l] = "converted"]
      /\ stage' = [stage EXCEPT ![l] = "open"]
      /\ accounts' = [accounts EXCEPT ![l] = accounts[l] + 1]
      /\ pending' = [pending EXCEPT ![l] = "followup"]
  BY <1>3 DEF ConfirmConvert
<1>5. /\ \A m \in Leads, k \in Kinds :
            Count(m, k, "effective")' =
                IF l = m /\ handoffs[i].kind = k /\ "effective" = "effective"
                THEN Count(m, k, "effective") + 1 ELSE Count(m, k, "effective")
      /\ \A m \in Leads : FollowedUp(m)' <=> FollowedUp(m)
      /\ DOMAIN handoffs' = DOMAIN handoffs
      /\ \A j \in DOMAIN handoffs :
            /\ handoffs'[j].lead = handoffs[j].lead /\ handoffs'[j].kind = handoffs[j].kind
            /\ handoffs'[j].agent = handoffs[j].agent /\ handoffs'[j].stage = handoffs[j].stage
            /\ handoffs'[j].status = IF j = i THEN "effective" ELSE handoffs[j].status
  <2>1. "effective" \in {"effective", "rejected"}
    OBVIOUS
  <2>2. QED
    BY <1>0, <1>2, <2>1, DecisionCounts
<1>6. \A m \in Leads : ObjectsOf(m)
  BY Objects DEF Books
<1>7. \A m \in Leads : Count(m, "send", "effective")' = Count(m, "send", "effective")
  BY <1>2, <1>5 DEF Kinds
<1>8. \A m \in Leads : Count(m, "convert", "effective")' =
          IF m = l THEN Count(m, "convert", "effective") + 1 ELSE Count(m, "convert", "effective")
  BY <1>2, <1>5 DEF Kinds
<1>9. \A m \in Leads : Count(m, "convert", "effective") \in Nat
  BY <1>0, Counted
<1>10. Count(l, "convert", "effective") = 0 /\ accounts[l] = 0 /\ SeedStage[l] = NoStage
  BY <1>1, <1>3, <1>6, <1>9 DEF ObjectsOf
<1>11. ASSUME NEW m \in Leads, m = l PROVE ObjectsOf(m)'
  <2>1. status'[m] = "converted" /\ stage'[m] = "open" /\ accounts'[m] = 1 /\ pending'[m] = "followup"
    BY <1>0, <1>1, <1>4, <1>10, <1>11 DEF DataOK
  <2>2. Count(m, "convert", "effective")' = 1
    BY <1>8, <1>10, <1>11
  <2>3. calls'[m] = Count(m, "send", "effective")'
    BY <1>2, <1>6, <1>7 DEF ObjectsOf
  <2>4. QED
    BY <1>10, <1>11, <2>1, <2>2, <2>3 DEF ObjectsOf, NoStage
<1>12. ASSUME NEW m \in Leads, m # l PROVE ObjectsOf(m)'
  <2>1. /\ status'[m] = status[m] /\ stage'[m] = stage[m] /\ accounts'[m] = accounts[m]
        /\ pending'[m] = pending[m] /\ calls'[m] = calls[m]
    BY <1>0, <1>1, <1>2, <1>4, <1>12 DEF DataOK
  <2>2. QED
    BY <1>5, <1>6, <1>7, <1>8, <1>12, <2>1 DEF ObjectsOf
<1>13. Proposed'
  <2>1. ASSUME NEW j \in DOMAIN handoffs, handoffs[j].kind = "convert",
               handoffs[j].status = "pending", j # i
        PROVE  status'[handoffs[j].lead] = "new"
    <3>0. handoffs[j] \in Handoff
      BY <1>0, <2>1 DEF DataOK
    <3>1. handoffs[j].lead \in Leads
      BY <3>0 DEF Handoff
    <3>2. Awaits(i, l) /\ Awaits(j, handoffs[j].lead)
      BY <1>2, <2>1 DEF Awaits
    <3>3. handoffs[j].lead # l
      BY <1>1, <2>1, <3>2 DEF IInv, Single, OneDecision
    <3>4. status[handoffs[j].lead] = "new"
      BY <2>1 DEF Books, Proposed
    <3>5. QED
      BY <1>0, <1>4, <3>1, <3>3, <3>4 DEF DataOK
  <2>2. QED
    BY <1>5, <2>1 DEF Books, Proposed
<1>14. ObjectsMatchDecisions'
  BY <1>11, <1>12 DEF ObjectsMatchDecisions, ObjectsOf, FollowedUp
<1>15. QED
  BY <1>13, <1>14 DEF Books

LEMMA BooksStep ==
    ASSUME IInv, Books, [Next]_vars PROVE Books'
<1>0. DataOK
  BY DEF IInv
<1>1. ASSUME NEW r \in Roles, SetRole(r) PROVE Books'
  BY <1>1, BooksKept DEF SetRole, data
<1>2. ASSUME NEW l \in Leads, StartSlice(l) PROVE Books'
  <2>1. /\ status[l] = "new" /\ MakeHandoff(l, "orchestrator", "effective", "none", NoStage)
        /\ pending' = [pending EXCEPT ![l] = "lead-intake"]
        /\ UNCHANGED <<status, stage, accounts, calls>>
    BY <1>2 DEF StartSlice
  <2>2. /\ "orchestrator" \in Agents /\ "none" \in Kinds /\ NoStage \in Stages \cup {NoStage}
        /\ "lead-intake" \in Queued \cup {NoAgent}
    BY DEF Agents, Queued, Kinds
  <2>3. QED
    BY <2>1, <2>2, BooksAppended
<1>3. ASSUME NEW l \in Leads, AbortLead(l) PROVE Books'
  <2>1. \A m \in Leads : pending'[m] \in {pending[m], NoAgent}
    BY <1>0, <1>3 DEF AbortLead, Drop, DataOK
  <2>2. QED
    BY <1>3, <2>1, BooksKept DEF AbortLead, data
<1>4. ASSUME NEW l \in Leads, NEW to \in Stages, AdvanceStage(l, to) PROVE Books'
  <2>1. CASE to \in ClosedStages
    <3>1. /\ MakeHandoff(l, "pipeline", "pending", "close", to)
          /\ pending' = [pending EXCEPT ![l] = pending[l]]
          /\ pending[l] \in Queued \cup {NoAgent} /\ pending[l] = NoAgent
          /\ UNCHANGED <<status, stage, accounts, calls>>
      BY <1>0, <1>4, <2>1 DEF AdvanceStage, SliceBusy, DataOK
    <3>2. "pipeline" \in Agents /\ "close" \in Kinds /\ to \in Stages \cup {NoStage}
      BY DEF Agents, Queued, Kinds
    <3>3. QED
      BY <2>1, <3>1, <3>2, BooksAppended DEF NoAgent
  <2>2. CASE to \notin ClosedStages
    <3>1. \A m \in Leads : stage'[m] # NoStage <=> stage[m] # NoStage
      BY <1>0, <1>4, <2>2 DEF AdvanceStage, DataOK, Stages, MidStages, ClosedStages, NoStage
    <3>2. QED
      BY <1>4, <2>2, <3>1, BooksKept DEF AdvanceStage
  <2>3. QED
    BY <2>1, <2>2
<1>5. ASSUME NEW i \in DOMAIN handoffs, ConfirmConvert(i) PROVE Books'
  BY <1>5, BooksConverted
<1>6. ASSUME NEW i \in DOMAIN handoffs, ConfirmSend(i) \/ ConfirmWinLoss(i) \/ Reject(i)
      PROVE  Books'
  BY <1>6, BooksDecided
<1>7. CASE Elapse
  BY <1>7, BooksKept DEF Elapse, data
<1>8. ASSUME NEW l \in Leads, Fire(l) PROVE Books'
  <2>1. pending[l] # NoAgent /\ Arrive(l) /\ UNCHANGED <<status, stage, accounts, calls>>
    BY <1>8 DEF IInv, Armed, Fire, Arrive
  <2>2. ObjectsOf(l)
    BY Objects DEF Books
  <2>3. CASE pending[l] = "lead-intake"
    <3>1. /\ MakeHandoff(l, "lead-intake", "effective", "none", NoStage)
          /\ pending' = [pending EXCEPT ![l] = "pipeline"]
          /\ status[l] = "new"
      BY <2>1, <2>2, <2>3 DEF Arrive, ObjectsOf
    <3>2. /\ "lead-intake" \in Agents /\ "none" \in Kinds /\ NoStage \in Stages \cup {NoStage}
          /\ "pipeline" \in Queued \cup {NoAgent}
      BY DEF Agents, Queued, Kinds
    <3>3. QED
      BY <2>1, <3>1, <3>2, BooksAppended
  <2>4. CASE pending[l] = "pipeline"
    <3>1. /\ MakeHandoff(l, "pipeline", "pending", "convert", NoStage)
          /\ pending' = [pending EXCEPT ![l] = NoAgent]
          /\ status[l] = "new"
      BY <2>1, <2>2, <2>4 DEF Arrive, Drop, ObjectsOf
    <3>2. /\ "pipeline" \in Agents /\ "convert" \in Kinds /\ NoStage \in Stages \cup {NoStage}
          /\ NoAgent \in Queued \cup {NoAgent} /\ NoAgent # "followup"
      BY DEF Agents, Queued, Kinds, NoAgent
    <3>3. QED
      BY <2>1, <3>1, <3>2, BooksAppended
  <2>5. CASE pending[l] = "followup"
    <3>1. /\ MakeHandoff(l, "followup", "pending", "send", NoStage)
          /\ pending' = [pending EXCEPT ![l] = NoAgent]
      BY <2>1, <2>5 DEF Arrive, Drop
    <3>2. /\ "followup" \in Agents /\ "send" \in Kinds /\ NoStage \in Stages \cup {NoStage}
          /\ NoAgent \in Queued \cup {NoAgent} /\ NoAgent # "followup"
      BY DEF Agents, Queued, Kinds, NoAgent
    <3>3. QED
      BY <2>1, <2>5, <3>1, <3>2, BooksAppended
  <2>6. QED
    BY <1>0, <2>1, <2>3, <2>4, <2>5 DEF DataOK, Queued
<1>9. CASE Render
  BY <1>9, BooksKept DEF Render, data
<1>10. CASE UNCHANGED vars
  BY <1>10, BooksKept DEF vars, data
<1>11. QED
  BY <1>1, <1>2, <1>3, <1>4, <1>5, <1>6, <1>7, <1>8, <1>9, <1>10 DEF Next, Click, Timer

LEMMA BooksOpened == ASSUME Init PROVE Books
<1>1. DataOK
  BY InitKept DEF IInv
<1>2. ASSUME NEW l \in Leads, NEW kind \in Kinds PROVE Count(l, kind, "effective") = 0
  <2>1. Matching(l, kind, "effective") = {}
    BY DEF Init, Matching
  <2>2. QED
    BY <1>1, <2>1, Counted, FS_EmptySet
<1>3. ASSUME NEW l \in Leads PROVE ObjectsOf(l)
  <2>1. Count(l, "convert", "effective") = 0 /\ Count(l, "send", "effective") = 0
    BY <1>2 DEF Kinds
  <2>2. ~FollowedUp(l) /\ pending[l] = NoAgent /\ calls[l] = 0
    BY DEF Init, FollowedUp
  <2>3. QED
    BY <2>1, <2>2 DEF Init, ObjectsOf, NoAgent
<1>4. Proposed
  BY DEF Init, Proposed
<1>5. QED
  BY <1>3, <1>4, Objects DEF Books

(* The three objects of a lead and its calls are those its confirmed         *)
(* decisions brought, once each: machine.ts converts no lead twice, and no   *)
(* confirmation of it is without its object.                                 *)
THEOREM ObjectsAreDecided == Spec => []ObjectsMatchDecisions
<1>1. Init => Books
  BY BooksOpened
<1>2. IInv /\ Books /\ [Next]_vars => Books'
  BY BooksStep
<1>3. Books => ObjectsMatchDecisions
  BY DEF Books
<1>4. QED
  BY <1>1, <1>2, <1>3, Inductive, PTL DEF Spec
=============================================================================
