-------------------------- MODULE SchedulerProofs --------------------------
(***************************************************************************)
(* What holds of Scheduler for every set of leads and request slots, every *)
(* set of model answers and every bound: the proofs.                       *)
(***************************************************************************)
EXTENDS Scheduler, FiniteSetTheorems, TLAPS

(* Sequences built or changed row by row keep their row type.               *)
LEMMA MappedRows ==
    ASSUME NEW S, NEW s \in Seq(S), NEW t,
           t = [i \in DOMAIN s |-> t[i]],
           \A i \in DOMAIN s : t[i] \in S
    PROVE  t \in Seq(S) /\ Len(t) = Len(s) /\ DOMAIN t = DOMAIN s
<1>1. DOMAIN s = 1 .. Len(s) /\ Len(s) \in Nat
  OBVIOUS
<1>2. t \in [1 .. Len(s) -> S]
  BY <1>1
<1> QED
  BY <1>1, <1>2

LEMMA AppendedRow ==
    ASSUME NEW S, NEW s \in Seq(S), NEW row \in S
    PROVE  /\ Append(s, row) \in Seq(S)
           /\ Len(Append(s, row)) = Len(s) + 1
           /\ DOMAIN Append(s, row) = DOMAIN s \cup {Len(s) + 1}
           /\ \A i \in DOMAIN s : Append(s, row)[i] = s[i]
           /\ Append(s, row)[Len(s) + 1] = row
  OBVIOUS

(* A busy slot holds a waiting request. *)
LEMMA BusySlot ==
    ASSUME TypeOK, NEW c \in Calls, calls[c] # Idle
    PROVE  /\ calls[c] \in Waiting
           /\ calls[c].lead \in Leads
           /\ calls[c].agent \in Agents
           /\ calls[c].stopped \in BOOLEAN
  BY DEF TypeOK, Waiting

LEMMA InitTypeOK == Init => TypeOK
<1> SUFFICES ASSUME Init PROVE TypeOK
  OBVIOUS
<1>1. PICK seeded \in SUBSET Leads :
        /\ leads = [l \in Leads |->
                      [status |-> IF l \in seeded THEN "converted" ELSE "new",
                       owned |-> l \in seeded, lastActivity |-> "seed"]]
        /\ accounts = seeded
        /\ opps \in [Leads -> Targets \cup {NoOpp}]
  BY DEF Init
<1>2. leads \in [Leads -> LeadRow]
  <2>1. \A l \in Leads : (l \in seeded) \in BOOLEAN
    OBVIOUS
  <2> QED
    BY <1>1, <2>1 DEF LeadRow, LastActivities
<1>3. opps \in [Leads -> Stages \cup {NoOpp}]
  BY <1>1, TargetsAssumption
<1> QED
  BY <1>1, <1>2, <1>3 DEF Init, TypeOK

-----------------------------------------------------------------------------
(* What the writing operators keep *)

LEMMA RecordRunType ==
    ASSUME TypeOK, NEW l \in Leads, NEW agent \in Agents,
           NEW status \in {"ended", "failed"}, RecordRun(l, agent, status)
    PROVE  /\ runs' \in Seq(RunRow)
           /\ Len(runs') = Len(runs) + 1
<1>1. [lead |-> l, agent |-> agent, status |-> status] \in RunRow
  BY DEF RunRow
<1> QED
  BY <1>1, AppendedRow DEF TypeOK, RecordRun

LEMMA HandoffType ==
    ASSUME TypeOK, NEW l \in Leads, NEW agent \in Agents,
           NEW status \in HandoffStatuses \ {"running"}
    PROVE  Handoff(l, agent, status) \in HandoffRow
<1>1. Len(runs) + 1 \in Nat
  BY DEF TypeOK
<1> QED
  BY <1>1 DEF Handoff, HandoffRow, Payloads

LEMMA InsertHandoffType ==
    ASSUME TypeOK, NEW row \in HandoffRow, InsertHandoff(row)
    PROVE  handoffs' \in Seq(HandoffRow)
  BY AppendedRow DEF TypeOK, InsertHandoff

LEMMA SetLastActivityType ==
    ASSUME TypeOK, NEW l \in Leads, NEW text \in LastActivities,
           SetLastActivity(l, text)
    PROVE  leads' \in [Leads -> LeadRow]
  BY DEF TypeOK, SetLastActivity, LeadRow

LEMMA SetStageType ==
    ASSUME TypeOK, NEW l \in Leads, NEW stage \in Stages, SetStage(l, stage)
    PROVE  opps' \in [Leads -> Stages \cup {NoOpp}]
  BY DEF TypeOK, SetStage

LEMMA ReturnType ==
    ASSUME TypeOK, NEW c \in Calls, Return(c)
    PROVE  calls' \in [Calls -> Waiting \cup {Idle}]
  BY DEF TypeOK, Return

LEMMA AwaitType ==
    ASSUME NEW l \in Leads
    PROVE  /\ \A agent \in Agents : Await(l, agent) \in Waiting
           /\ FromPipeline(l) \in Waiting \cup {Idle}
           /\ FromIntake(l) \in Waiting \cup {Idle}
           /\ FromOrchestrator(l) \in Waiting \cup {Idle}
<1>1. \A agent \in Agents : Await(l, agent) \in Waiting
  BY DEF Await, Waiting
<1> QED
  BY <1>1 DEF FromPipeline, FromIntake, FromOrchestrator, Agents

LEMMA ContinueType ==
    ASSUME TypeOK, NEW c \in Calls, calls[c] # Idle,
           NEW next \in Waiting \cup {Idle}, Continue(c, next)
    PROVE  calls' \in [Calls -> Waiting \cup {Idle}]
<1>1. next # Idle => [next EXCEPT !.stopped = calls[c].stopped] \in Waiting
  BY BusySlot DEF Waiting
<1> QED
  BY <1>1 DEF TypeOK, Continue

LEMMA DispatchFailsType ==
    ASSUME TypeOK, NEW c \in Calls, calls[c] # Idle,
           NEW status \in {"ended", "failed"}, DispatchFails(c, status),
           audits' \in Seq(Agents)
    PROVE  TypeOK'
<1> DEFINE l == calls[c].lead
           agent == calls[c].agent
<1>1. l \in Leads /\ agent \in Agents
  BY BusySlot
<1>2. runs' \in Seq(RunRow)
  BY <1>1, RecordRunType DEF DispatchFails
<1>3. handoffs' \in Seq(HandoffRow)
  BY <1>1, HandoffType, InsertHandoffType DEF DispatchFails, HandoffStatuses
<1>4. calls' \in [Calls -> Waiting \cup {Idle}]
  BY ReturnType DEF DispatchFails
<1> QED
  BY <1>2, <1>3, <1>4 DEF DispatchFails, TypeOK

LEMMA MarkDoneType ==
    ASSUME TypeOK, NEW h \in DOMAIN handoffs, NEW role \in UserRoles,
           NEW status \in HandoffStatuses \ {"running"},
           handoffs' = [handoffs EXCEPT ![h].status = status,
                                        ![h].decidedBy = role]
    PROVE  handoffs' \in Seq(HandoffRow)
<1>1. \A i \in DOMAIN handoffs : handoffs[i] \in HandoffRow
  BY DEF TypeOK
<1>2. \A i \in DOMAIN handoffs : handoffs'[i] \in HandoffRow
  BY <1>1 DEF HandoffRow
<1>3. handoffs' = [i \in DOMAIN handoffs |-> handoffs'[i]]
  OBVIOUS
<1>4. handoffs \in Seq(HandoffRow)
  BY DEF TypeOK
<1> QED
  BY <1>2, <1>3, <1>4, MappedRows

LEMMA MarkStoppedType ==
    ASSUME TypeOK, NEW l \in Leads, MarkStopped(l)
    PROVE  calls' \in [Calls -> Waiting \cup {Idle}]
<1>1. \A c \in Calls : calls'[c] \in Waiting \cup {Idle}
  BY BusySlot DEF MarkStopped, Waiting, TypeOK
<1> QED
  BY <1>1 DEF MarkStopped

-----------------------------------------------------------------------------
(* Type correctness *)

(* An answer that records a run and hands in one row for the lead. *)
LEMMA HandedInType ==
    ASSUME TypeOK, NEW c \in Calls, calls[c] # Idle, NEW row \in HandoffRow,
           RecordRun(calls[c].lead, calls[c].agent, "ended"),
           InsertHandoff(row),
           UNCHANGED <<accounts, audits>>,
           leads' \in [Leads -> LeadRow],
           opps' \in [Leads -> Stages \cup {NoOpp}],
           activities' \in Seq(ActivityRow),
           calls' \in [Calls -> Waiting \cup {Idle}]
    PROVE  TypeOK'
<1>1. runs' \in Seq(RunRow)
  BY BusySlot, RecordRunType
<1>2. handoffs' \in Seq(HandoffRow)
  BY InsertHandoffType
<1> QED
  BY <1>1, <1>2 DEF TypeOK

LEMMA AnswerTypeOK ==
    ASSUME TypeOK, NEW c \in Calls, Answer(c)
    PROVE  TypeOK'
<1> DEFINE l == calls[c].lead
           agent == calls[c].agent
<1>0. calls[c] # Idle
  BY DEF Answer, RunnerThrows, AnswerUnusable, AnswerDenied, AnswerUnfit,
         AnswerOwner, AnswerStranger, AnswerDescription, AnswerProposal,
         AnswerAdvance, AnswerClose, AnswerActivity, AnswerTextless
<1>1. l \in Leads /\ agent \in Agents
  BY <1>0, BusySlot
<1>2. ASSUME ApplyThrows(c) PROVE TypeOK'
  BY <1>1, <1>2, RecordRunType, ReturnType DEF ApplyThrows, TypeOK
<1>3. \A status \in {"effective", "pending"} :
         Handoff(l, agent, status) \in HandoffRow
  BY <1>1, HandoffType DEF HandoffStatuses
<1>4. CASE RunnerThrows(c)
  BY <1>4, ReturnType DEF RunnerThrows, TypeOK
<1>5. CASE AnswerUnusable(c)
  <2>1. audits' \in Seq(Agents)
    BY <1>5 DEF AnswerUnusable, TypeOK
  <2> QED
    BY <1>0, <1>5, <2>1, DispatchFailsType DEF AnswerUnusable
<1>6. CASE AnswerDenied(c)
  <2>1. audits' \in Seq(Agents)
    BY <1>1, <1>6, AppendedRow DEF AnswerDenied, TypeOK
  <2> QED
    BY <1>0, <1>6, <2>1, DispatchFailsType DEF AnswerDenied
<1>7. CASE AnswerUnfit(c)
  <2>1. audits' \in Seq(Agents)
    BY <1>7 DEF AnswerUnfit, TypeOK
  <2> QED
    BY <1>0, <1>7, <2>1, DispatchFailsType DEF AnswerUnfit
<1>8. CASE AnswerOwner(c)
  <2>1. leads' \in [Leads -> LeadRow]
    <3>1. leads[l] \in LeadRow
      BY <1>1 DEF TypeOK
    <3>2. [leads[l] EXCEPT !.owned = TRUE, !.lastActivity = "assigned"]
            \in LeadRow
      BY <3>1 DEF LeadRow, LastActivities
    <3>3. leads' = [leads EXCEPT ![l] =
                      [leads[l] EXCEPT !.owned = TRUE,
                                       !.lastActivity = "assigned"]]
      BY <1>1, <1>8 DEF AnswerOwner, TypeOK
    <3> QED
      BY <1>1, <3>2, <3>3 DEF TypeOK
  <2>2. calls' \in [Calls -> Waiting \cup {Idle}]
    BY <1>0, <1>1, <1>8, AwaitType, ContinueType DEF AnswerOwner
  <2> QED
    BY <1>0, <1>3, <1>8, <2>1, <2>2, HandedInType DEF AnswerOwner, TypeOK
<1>9. CASE AnswerDescription(c)
  <2>1. leads' \in [Leads -> LeadRow]
    BY <1>1, <1>9, SetLastActivityType DEF AnswerDescription, LastActivities
  <2>2. calls' \in [Calls -> Waiting \cup {Idle}]
    BY <1>0, <1>1, <1>9, AwaitType, ContinueType DEF AnswerDescription
  <2> QED
    BY <1>0, <1>3, <1>9, <2>1, <2>2, HandedInType
       DEF AnswerDescription, TypeOK
<1>10. CASE AnswerProposal(c)
  <2>1. PICK reply \in Replies :
          InsertHandoff([Handoff(l, "pipeline", "pending") EXCEPT
                            !.kind = "confirm-convert",
                            !.payload = PayloadOf(reply)])
    BY <1>10 DEF AnswerProposal
  <2>2. [Handoff(l, "pipeline", "pending") EXCEPT
            !.kind = "confirm-convert", !.payload = PayloadOf(reply)]
          \in HandoffRow
    BY <1>3, <1>10 DEF AnswerProposal, HandoffRow, HitlKinds, PayloadOf,
                      Payloads
  <2>3. leads' \in [Leads -> LeadRow]
    BY <1>1, <1>10, SetLastActivityType DEF AnswerProposal, LastActivities
  <2> QED
    BY <1>0, <1>10, <2>1, <2>2, <2>3, HandedInType, ReturnType
       DEF AnswerProposal, TypeOK
<1>11. CASE AnswerAdvance(c)
  <2>1. opps' \in [Leads -> Stages \cup {NoOpp}]
    BY <1>1, <1>11, SetStageType DEF AnswerAdvance, Stages
  <2> QED
    BY <1>0, <1>3, <1>11, <2>1, HandedInType, ReturnType
       DEF AnswerAdvance, TypeOK
<1>12. CASE AnswerClose(c)
  <2>1. PICK stage \in ClosedStages :
          InsertHandoff([Handoff(l, "pipeline", "pending") EXCEPT
                            !.kind = "confirm-win-loss", !.stage = stage])
    BY <1>12 DEF AnswerClose
  <2>2. [Handoff(l, "pipeline", "pending") EXCEPT
            !.kind = "confirm-win-loss", !.stage = stage] \in HandoffRow
    BY <1>3, <1>12 DEF AnswerClose, HandoffRow, HitlKinds, Stages
  <2> QED
    BY <1>0, <1>12, <2>1, <2>2, HandedInType, ReturnType
       DEF AnswerClose, TypeOK
<1>13. CASE AnswerActivity(c)
  <2>1. [Handoff(l, "followup", "pending") EXCEPT !.kind = "confirm-send"]
          \in HandoffRow
    BY <1>3, <1>13 DEF AnswerActivity, HandoffRow, HitlKinds
  <2>2. leads' \in [Leads -> LeadRow]
    BY <1>1, <1>13, SetLastActivityType DEF AnswerActivity, LastActivities
  <2>3. [lead |-> l, effective |-> FALSE, handoff |-> Len(handoffs) + 1]
          \in ActivityRow
    BY <1>1 DEF ActivityRow, TypeOK
  <2>4. activities' \in Seq(ActivityRow)
    BY <1>13, <2>3, AppendedRow DEF AnswerActivity, TypeOK
  <2> QED
    BY <1>0, <1>13, <2>1, <2>2, <2>4, HandedInType, ReturnType
       DEF AnswerActivity, TypeOK
<1>14. CASE AnswerStranger(c)
  BY <1>2, <1>14 DEF AnswerStranger
<1>15. CASE AnswerTextless(c)
  BY <1>2, <1>15 DEF AnswerTextless
<1> QED
  BY <1>4, <1>5, <1>6, <1>7, <1>8, <1>9, <1>10, <1>11, <1>12, <1>13, <1>14,
     <1>15 DEF Answer

LEMMA DecisionTypeOK ==
    ASSUME TypeOK, NEW h \in DOMAIN handoffs, NEW role \in Roles,
           Decide(h, role)
    PROVE  TypeOK'
<1> DEFINE l == handoffs[h].lead
<1>1. handoffs[h] \in HandoffRow /\ l \in Leads /\ role \in UserRoles
  <2>1. handoffs[h] \in HandoffRow
    BY DEF TypeOK
  <2> QED
    BY <2>1, RolesAssumption DEF HandoffRow
<1>2. \A status \in {"effective", "rejected"} :
         handoffs' = [handoffs EXCEPT ![h].status = status,
                                      ![h].decidedBy = role]
           => handoffs' \in Seq(HandoffRow)
  BY <1>1, MarkDoneType DEF HandoffStatuses
<1>3. ASSUME NEW c \in Calls, ConfirmConvert(c, h, role) PROVE TypeOK'
  <2>1. accounts' \subseteq Leads /\ opps' \in [Leads -> Stages \cup {NoOpp}]
    BY <1>1, <1>3 DEF ConfirmConvert, ApplyConvert, TypeOK, Stages, MidStages
  <2>2. leads' \in [Leads -> LeadRow]
    <3>1. CASE leads[l].status = "converted"
      BY <1>3, <3>1 DEF ConfirmConvert, ApplyConvert, TypeOK
    <3>2. CASE leads[l].status # "converted"
      <4>1. [leads[l] EXCEPT !.status = "converted",
                             !.lastActivity = "converted"] \in LeadRow
        <5>1. leads[l] \in LeadRow
          BY <1>1 DEF TypeOK
        <5> QED
          BY <5>1 DEF LeadRow, LastActivities
      <4>2. leads' = [leads EXCEPT ![l] =
                        [leads[l] EXCEPT !.status = "converted",
                                         !.lastActivity = "converted"]]
        BY <1>1, <1>3, <3>2 DEF ConfirmConvert, ApplyConvert, TypeOK
      <4> QED
        BY <1>1, <4>1, <4>2 DEF TypeOK
    <3> QED
      BY <3>1, <3>2
  <2>3. calls' \in [Calls -> Waiting \cup {Idle}]
    BY <1>1, <1>3, AwaitType DEF ConfirmConvert, Agents, TypeOK
  <2> QED
    BY <1>2, <1>3, <2>1, <2>2, <2>3 DEF ConfirmConvert, MarkDone, TypeOK
<1>4. CASE ConfirmConvertThrows(h, role)
  BY <1>1, <1>4 DEF ConfirmConvertThrows, TypeOK
<1>5. CASE ConfirmSend(h, role)
  <2>1. leads' \in [Leads -> LeadRow]
    BY <1>1, <1>5, SetLastActivityType DEF ConfirmSend, LastActivities
  <2>2. activities' \in Seq(ActivityRow)
    <3>1. activities \in Seq(ActivityRow)
      BY DEF TypeOK
    <3>2. \A a \in DOMAIN activities : activities[a] \in ActivityRow
      BY <3>1
    <3>3. \A a \in DOMAIN activities : activities'[a] \in ActivityRow
      BY <1>5, <3>2 DEF ConfirmSend, ActivityRow
    <3>4. activities' = [a \in DOMAIN activities |-> activities'[a]]
      BY <1>5 DEF ConfirmSend
    <3> QED
      BY <3>1, <3>3, <3>4, MappedRows
  <2> QED
    BY <1>2, <1>5, <2>1, <2>2 DEF ConfirmSend, MarkDone, TypeOK
<1>6. CASE ConfirmWinLoss(h, role)
  <2>1. handoffs[h].stage \in ClosedStages
    BY <1>1, <1>6 DEF ConfirmWinLoss, MayDecide, HandoffRow
  <2>2. leads' \in [Leads -> LeadRow]
    BY <1>1, <1>6, <2>1, SetLastActivityType
       DEF ConfirmWinLoss, LastActivities, ClosedStages
  <2>3. opps' \in [Leads -> Stages \cup {NoOpp}]
    BY <1>1, <1>6, <2>1, SetStageType DEF ConfirmWinLoss, Stages
  <2> QED
    BY <1>2, <1>6, <2>2, <2>3 DEF ConfirmWinLoss, MarkDone, TypeOK
<1>7. CASE Reject(h, role)
  <2>1. leads' \in [Leads -> LeadRow]
    BY <1>1, <1>7, SetLastActivityType DEF Reject, LastActivities
  <2>2. calls' \in [Calls -> Waiting \cup {Idle}]
    BY <1>1, <1>7, MarkStoppedType DEF Reject
  <2> QED
    BY <1>2, <1>7, <2>1, <2>2 DEF Reject, TypeOK
<1> QED
  BY <1>3, <1>4, <1>5, <1>6, <1>7 DEF Decide

LEMMA RequestTypeOK ==
    ASSUME TypeOK, NEW l \in Leads, NEW role \in Roles,
           \/ \E c \in Calls : Ingest(c, l, role)
           \/ ClearQueue(l)
           \/ \E stage \in Targets : AdvanceStage(l, stage, role)
    PROVE  TypeOK'
<1>1. CASE \E c \in Calls : Ingest(c, l, role)
  BY <1>1, AwaitType DEF Ingest, TypeOK
<1>2. CASE ClearQueue(l)
  <2>1. leads' \in [Leads -> LeadRow]
    BY <1>2, SetLastActivityType DEF ClearQueue, LastActivities
  <2>2. calls' \in [Calls -> Waiting \cup {Idle}]
    BY <1>2, MarkStoppedType DEF ClearQueue
  <2>3. handoffs' \in Seq(HandoffRow)
    <3>1. handoffs \in Seq(HandoffRow)
      BY DEF TypeOK
    <3>2. \A h \in DOMAIN handoffs : handoffs[h] \in HandoffRow
      BY <3>1
    <3>3. \A h \in DOMAIN handoffs : handoffs'[h] \in HandoffRow
      BY <1>2, <3>2 DEF ClearQueue, HandoffRow, HandoffStatuses
    <3>4. handoffs' = [h \in DOMAIN handoffs |-> handoffs'[h]]
      BY <1>2 DEF ClearQueue
    <3> QED
      BY <3>1, <3>3, <3>4, MappedRows
  <2> QED
    BY <1>2, <2>1, <2>2, <2>3 DEF ClearQueue, TypeOK
<1>3. ASSUME NEW stage \in Targets, AdvanceStage(l, stage, role)
      PROVE  TypeOK'
  <2>1. stage \in Stages
    BY TargetsAssumption
  <2>2. CASE stage \in ClosedStages /\ ~(stage \in MidStages)
    <3>1. [Handoff(l, "pipeline", "pending") EXCEPT
              !.kind = "confirm-win-loss", !.stage = stage] \in HandoffRow
      <4>1. Handoff(l, "pipeline", "pending") \in HandoffRow
        BY HandoffType DEF Agents, HandoffStatuses
      <4> QED
        BY <2>1, <2>2, <4>1 DEF HandoffRow, HitlKinds
    <3>2. handoffs' \in Seq(HandoffRow)
      BY <1>3, <2>2, <3>1, InsertHandoffType DEF AdvanceStage
    <3>3. runs' \in Seq(RunRow)
      BY <1>3, <2>2, RecordRunType DEF AdvanceStage, Agents
    <3>4. leads' \in [Leads -> LeadRow]
      BY <1>3, <2>2, SetLastActivityType DEF AdvanceStage, LastActivities
    <3> QED
      BY <1>3, <2>2, <3>2, <3>3, <3>4 DEF AdvanceStage, TypeOK
  <2>3. CASE stage \in MidStages /\ ~(stage \in ClosedStages)
    <3>1. leads' \in [Leads -> LeadRow]
      BY <1>3, <2>3, SetLastActivityType DEF AdvanceStage, LastActivities
    <3>2. opps' \in [Leads -> Stages \cup {NoOpp}]
      BY <1>3, <2>1, <2>3, SetStageType DEF AdvanceStage
    <3> QED
      BY <1>3, <2>3, <3>1, <3>2 DEF AdvanceStage, TypeOK
  <2> QED
    BY <2>1, <2>2, <2>3 DEF Stages, MidStages, ClosedStages
<1> QED
  BY <1>1, <1>2, <1>3

LEMMA RunLead ==
    ASSUME TypeOK, NEW r \in DOMAIN runs
    PROVE  runs[r].lead \in Leads
<1>1. runs[r] \in RunRow
  BY DEF TypeOK
<1> QED
  BY <1>1 DEF RunRow

LEMMA NextTypeOK == TypeOK /\ [Next]_vars => TypeOK'
<1> SUFFICES ASSUME TypeOK, [Next]_vars PROVE TypeOK'
  OBVIOUS
<1>1. CASE \E c \in Calls : Answer(c)
  BY <1>1, AnswerTypeOK
<1>2. ASSUME NEW role \in Roles, NEW l \in Leads,
             \/ \E c \in Calls : Ingest(c, l, role)
             \/ AbortLead(l, role)
             \/ \E stage \in Targets : AdvanceStage(l, stage, role)
      PROVE  TypeOK'
  BY <1>2, RequestTypeOK DEF AbortLead
<1>3. ASSUME NEW role \in Roles, NEW h \in DOMAIN handoffs, Decide(h, role)
      PROVE  TypeOK'
  BY <1>3, DecisionTypeOK
<1>4. ASSUME NEW role \in Roles, NEW r \in DOMAIN runs, AbortRun(r, role)
      PROVE  TypeOK'
  BY <1>4, RunLead, RequestTypeOK DEF AbortRun
<1>5. CASE Crash
  BY <1>5 DEF Crash, TypeOK
<1>6. CASE UNCHANGED vars
  BY <1>6 DEF vars, TypeOK
<1> QED
  BY <1>1, <1>2, <1>3, <1>4, <1>5, <1>6 DEF Next

(* Every column of every table keeps to its enumeration, and a win or loss  *)
(* handoff always proposes a closing stage, whatever the model answers.     *)
THEOREM TypeCorrect == Spec => []TypeOK
<1>1. Init => TypeOK
  BY InitTypeOK
<1>2. TypeOK /\ [Next]_vars => TypeOK'
  BY NextTypeOK
<1> QED
  BY <1>1, <1>2, PTL DEF Spec

-----------------------------------------------------------------------------
(* The history of handoffs and runs *)

LEMMA AppendKeeps ==
    ASSUME NEW S, NEW s \in Seq(S), NEW row
    PROVE  \A i \in DOMAIN s :
             i \in DOMAIN Append(s, row) /\ Append(s, row)[i] = s[i]
  OBVIOUS

LEMMA InsertKeepsRows ==
    ASSUME TypeOK, NEW row, InsertHandoff(row)
    PROVE  RowsKept
<1>1. handoffs \in Seq(HandoffRow)
  BY DEF TypeOK
<1> QED
  BY <1>1, AppendKeeps DEF InsertHandoff, RowsKept

LEMMA RecordKeepsRuns ==
    ASSUME TypeOK, NEW l, NEW agent, NEW status, RecordRun(l, agent, status)
    PROVE  RunsKept
<1>1. runs \in Seq(RunRow)
  BY DEF TypeOK
<1> QED
  BY <1>1, AppendKeeps DEF RecordRun, RunsKept

LEMMA DecidingKeepsRows ==
    ASSUME TypeOK, NEW h \in DOMAIN handoffs, NEW role,
           NEW status \in {"effective", "rejected"},
           handoffs[h].status = "pending",
           handoffs' = [handoffs EXCEPT ![h].status = status,
                                        ![h].decidedBy = role]
    PROVE  RowsKept
<1>1. DOMAIN handoffs' = DOMAIN handoffs
  OBVIOUS
<1>2. handoffs[h] \in HandoffRow
  BY DEF TypeOK
<1>3. handoffs'[h] = [handoffs[h] EXCEPT !.status = status, !.decidedBy = role]
  OBVIOUS
<1>4. handoffs'[h].status = status /\ handoffs'[h].decidedBy = role
  BY <1>2, <1>3 DEF HandoffRow
<1>5. \A i \in DOMAIN handoffs : i # h => handoffs'[i] = handoffs[i]
  OBVIOUS
<1> QED
  BY <1>1, <1>3, <1>4, <1>5 DEF RowsKept

LEMMA ClearingKeepsRows ==
    ASSUME TypeOK, NEW l, ClearQueue(l)
    PROVE  RowsKept
<1> SUFFICES ASSUME NEW h \in DOMAIN handoffs, h \in Queued(l)
             PROVE  /\ handoffs[h].status = "pending"
                    /\ handoffs'[h].status = "aborted"
                    /\ handoffs'[h] =
                         [handoffs[h] EXCEPT
                            !.status = handoffs'[h].status,
                            !.decidedBy = handoffs'[h].decidedBy]
  BY DEF ClearQueue, RowsKept
<1>1. handoffs[h] \in HandoffRow
  BY DEF TypeOK
<1>2. handoffs[h].status = "pending"
  BY <1>1 DEF Queued, HandoffRow
<1>3. handoffs'[h] = [handoffs[h] EXCEPT !.status = "aborted"]
  BY DEF ClearQueue
<1>4. /\ handoffs'[h].status = "aborted"
      /\ handoffs'[h].decidedBy = handoffs[h].decidedBy
  BY <1>1, <1>3 DEF HandoffRow
<1>5. [handoffs[h] EXCEPT !.status = "aborted"] =
      [handoffs[h] EXCEPT !.status = "aborted",
                          !.decidedBy = handoffs[h].decidedBy]
  BY <1>1 DEF HandoffRow
<1> QED
  BY <1>2, <1>3, <1>4, <1>5

LEMMA AnswerKeepsHistory ==
    ASSUME TypeOK, NEW c \in Calls, Answer(c)
    PROVE  RowsKept /\ RunsKept
<1>1. UNCHANGED handoffs => RowsKept
  BY DEF RowsKept
<1>2. UNCHANGED runs => RunsKept
  BY DEF RunsKept
<1>3. ASSUME NEW status, DispatchFails(c, status) PROVE RowsKept /\ RunsKept
  BY <1>3, InsertKeepsRows, RecordKeepsRuns DEF DispatchFails
<1>4. CASE RunnerThrows(c)
  BY <1>1, <1>2, <1>4 DEF RunnerThrows
<1>5. CASE AnswerUnusable(c) \/ AnswerDenied(c) \/ AnswerUnfit(c)
  BY <1>3, <1>5 DEF AnswerUnusable, AnswerDenied, AnswerUnfit
<1>6. CASE AnswerStranger(c) \/ AnswerTextless(c)
  BY <1>1, <1>6, RecordKeepsRuns
     DEF AnswerStranger, AnswerTextless, ApplyThrows
<1>7. CASE AnswerOwner(c)
  BY <1>7, InsertKeepsRows, RecordKeepsRuns DEF AnswerOwner
<1>8. CASE AnswerDescription(c)
  BY <1>8, InsertKeepsRows, RecordKeepsRuns DEF AnswerDescription
<1>9. CASE AnswerProposal(c)
  BY <1>9, InsertKeepsRows, RecordKeepsRuns DEF AnswerProposal
<1>10. CASE AnswerAdvance(c)
  BY <1>10, InsertKeepsRows, RecordKeepsRuns DEF AnswerAdvance
<1>11. CASE AnswerClose(c)
  BY <1>11, InsertKeepsRows, RecordKeepsRuns DEF AnswerClose
<1>12. CASE AnswerActivity(c)
  BY <1>12, InsertKeepsRows, RecordKeepsRuns DEF AnswerActivity
<1> QED
  BY <1>4, <1>5, <1>6, <1>7, <1>8, <1>9, <1>10, <1>11, <1>12 DEF Answer

LEMMA DecisionKeepsHistory ==
    ASSUME TypeOK, NEW h \in DOMAIN handoffs, NEW role, Decide(h, role)
    PROVE  RowsKept /\ RunsKept
<1>1. UNCHANGED runs => RunsKept
  BY DEF RunsKept
<1>2. ASSUME NEW c, ConfirmConvert(c, h, role) PROVE RowsKept /\ RunsKept
  BY <1>1, <1>2, DecidingKeepsRows DEF ConfirmConvert, MayDecide, MarkDone
<1>3. CASE ConfirmConvertThrows(h, role)
  BY <1>3 DEF ConfirmConvertThrows, RowsKept, RunsKept
<1>4. CASE ConfirmSend(h, role)
  BY <1>1, <1>4, DecidingKeepsRows DEF ConfirmSend, MayDecide, MarkDone
<1>5. CASE ConfirmWinLoss(h, role)
  BY <1>1, <1>5, DecidingKeepsRows DEF ConfirmWinLoss, MayDecide, MarkDone
<1>6. CASE Reject(h, role)
  BY <1>1, <1>6, DecidingKeepsRows DEF Reject, MayDecide
<1> QED
  BY <1>2, <1>3, <1>4, <1>5, <1>6 DEF Decide

LEMMA NextKeepsHistory ==
    ASSUME TypeOK, [Next]_vars
    PROVE  RowsKept /\ RunsKept
<1>0. UNCHANGED <<handoffs, runs>> => RowsKept /\ RunsKept
  BY DEF RowsKept, RunsKept
<1>1. CASE \E c \in Calls : Answer(c)
  BY <1>1, AnswerKeepsHistory
<1>2. ASSUME NEW l, ClearQueue(l) PROVE RowsKept /\ RunsKept
  BY <1>2, ClearingKeepsRows DEF ClearQueue, RunsKept
<1>3. ASSUME NEW c, NEW l, NEW role, Ingest(c, l, role)
      PROVE  RowsKept /\ RunsKept
  BY <1>0, <1>3 DEF Ingest
<1>4. ASSUME NEW l, NEW stage, NEW role, AdvanceStage(l, stage, role)
      PROVE  RowsKept /\ RunsKept
  BY <1>0, <1>4, InsertKeepsRows, RecordKeepsRuns DEF AdvanceStage
<1>5. ASSUME NEW role, NEW h \in DOMAIN handoffs, Decide(h, role)
      PROVE  RowsKept /\ RunsKept
  BY <1>5, DecisionKeepsHistory
<1>6. CASE Crash
  BY <1>0, <1>6 DEF Crash
<1>7. CASE UNCHANGED vars
  BY <1>0, <1>7 DEF vars
<1> QED
  BY <1>1, <1>2, <1>3, <1>4, <1>5, <1>6, <1>7 DEF Next, AbortLead, AbortRun

(* The timeline is append-only and a decision on a handoff is final, for    *)
(* any number of racing confirm, reject and abort requests and late answers.*)
THEOREM HistoryIsKept == Spec => HistoryKept
<1>1. TypeOK /\ [Next]_vars => [RowsKept /\ RunsKept]_vars
  BY NextKeepsHistory
<1> QED
  BY <1>1, TypeCorrect, PTL DEF Spec, HistoryKept

-----------------------------------------------------------------------------
(* Handoffs and runs *)

(* The step inserts no handoff. *)
NothingInserted == DOMAIN handoffs' = DOMAIN handoffs

LEMMA KeepsRunOfHandoff ==
    ASSUME TypeOK, RunOfHandoff, RowsKept, RunsKept, NothingInserted
    PROVE  RunOfHandoff'
<1>1. \A h \in DOMAIN handoffs : /\ handoffs'[h].run = handoffs[h].run
                                 /\ handoffs'[h].lead = handoffs[h].lead
                                 /\ handoffs'[h].agent = handoffs[h].agent
  <2> TAKE h \in DOMAIN handoffs
  <2>1. handoffs[h] \in HandoffRow
    BY DEF TypeOK
  <2> QED
    BY <2>1 DEF RowsKept, HandoffRow
<1>2. \A h \in DOMAIN handoffs :
        handoffs[h].status = "failed" => handoffs'[h] = handoffs[h]
  BY DEF RowsKept
<1> QED
  BY <1>1, <1>2 DEF RunOfHandoff, RunsKept, NothingInserted

(* A run and its handoff are added together, under a run id not yet in use. *)
LEMMA AddsRunOfHandoff ==
    ASSUME TypeOK, RunOfHandoff, RunsKept,
           NEW l \in Leads, NEW agent \in Agents,
           NEW status \in {"ended", "failed"}, RecordRun(l, agent, status),
           NEW row, InsertHandoff(row),
           row.lead = l, row.agent = agent, row.run = Len(runs) + 1,
           status = "failed" => row.status = "failed"
    PROVE  RunOfHandoff'
<1> DEFINE r == Len(runs) + 1
           n == Len(handoffs) + 1
           run == [lead |-> l, agent |-> agent, status |-> status]
<1>1. run \in RunRow
  BY DEF RunRow
<1>2. DOMAIN runs' = DOMAIN runs \cup {r} /\ runs'[r] = run
  BY <1>1, AppendedRow DEF TypeOK, RecordRun
<1>3. /\ DOMAIN handoffs' = DOMAIN handoffs \cup {n}
      /\ handoffs'[n] = row
      /\ \A h \in DOMAIN handoffs : handoffs'[h] = handoffs[h]
  BY DEF TypeOK, InsertHandoff
<1>4. r \notin DOMAIN runs
  BY DEF TypeOK
<1>5. \A h \in DOMAIN handoffs : handoffs[h].run # r
  BY <1>4 DEF RunOfHandoff
<1> HIDE DEF r, n
<1>6. \A h \in DOMAIN handoffs' :
        LET s == handoffs'[h].run IN
        /\ s \in DOMAIN runs'
        /\ runs'[s].lead = handoffs'[h].lead
        /\ runs'[s].agent = handoffs'[h].agent
        /\ runs'[s].status = "failed" => handoffs'[h].status = "failed"
  <2> TAKE h \in DOMAIN handoffs'
  <2>1. CASE h \in DOMAIN handoffs
    BY <1>3, <2>1 DEF RunOfHandoff, RunsKept
  <2>2. CASE h = n
    <3>1. handoffs'[h] = row /\ row.run = r
      BY <1>3, <2>2 DEF r
    <3> QED
      BY <1>2, <3>1
  <2> QED
    BY <1>3, <2>1, <2>2
<1>7. \A h1, h2 \in DOMAIN handoffs' :
        handoffs'[h1].run = handoffs'[h2].run => h1 = h2
  <2>1. row.run = r
    BY DEF r
  <2> QED
    BY <1>3, <1>5, <2>1 DEF RunOfHandoff
<1> QED
  BY <1>6, <1>7 DEF RunOfHandoff

(* The row is a handoff of this agent's run, the next to be recorded. *)
IsOfNewRun(row, l, agent) ==
    row.lead = l /\ row.agent = agent /\ row.run = Len(runs) + 1

(* Handoff and each of its variants is such a row. *)
LEMMA HandoffFields ==
    ASSUME NEW l, NEW agent, NEW status
    PROVE  LET plain == Handoff(l, agent, status)
           IN  /\ IsOfNewRun(plain, l, agent)
               /\ plain.status = status
               /\ \A kind : IsOfNewRun([plain EXCEPT !.kind = kind], l, agent)
               /\ \A kind, stage :
                     IsOfNewRun([plain EXCEPT !.kind = kind, !.stage = stage],
                                l, agent)
               /\ \A kind, payload :
                     IsOfNewRun([plain EXCEPT !.kind = kind,
                                              !.payload = payload], l, agent)
  BY DEF Handoff, IsOfNewRun

LEMMA AnswerRunOfHandoff ==
    ASSUME TypeOK, RunOfHandoff, NEW c \in Calls, Answer(c)
    PROVE  RunOfHandoff'
<1> DEFINE l == calls[c].lead
           agent == calls[c].agent
<1>0. RowsKept /\ RunsKept
  BY AnswerKeepsHistory
<1>1. calls[c] # Idle
  BY DEF Answer, RunnerThrows, AnswerUnusable, AnswerDenied, AnswerUnfit,
         AnswerOwner, AnswerStranger, AnswerDescription, AnswerProposal,
         AnswerAdvance, AnswerClose, AnswerActivity, AnswerTextless
<1>2. l \in Leads /\ agent \in Agents
  BY <1>1, BusySlot
<1>3. UNCHANGED handoffs => NothingInserted
  BY DEF NothingInserted
<1>4. ASSUME NEW status \in {"ended", "failed"}, DispatchFails(c, status)
      PROVE  RunOfHandoff'
  <2> DEFINE row == Handoff(l, agent, "failed")
  <2>1. InsertHandoff(row) /\ RecordRun(l, agent, status)
    BY <1>4 DEF DispatchFails
  <2>2. IsOfNewRun(row, l, agent) /\ row.status = "failed"
    BY DEF Handoff, IsOfNewRun
  <2> HIDE DEF row
  <2> QED
    BY <1>0, <1>2, <2>1, <2>2, AddsRunOfHandoff DEF IsOfNewRun
<1>5. ASSUME NEW row, InsertHandoff(row), RecordRun(l, agent, "ended"),
             IsOfNewRun(row, l, agent)
      PROVE  RunOfHandoff'
  BY <1>0, <1>2, <1>5, AddsRunOfHandoff DEF IsOfNewRun
<1>6. CASE RunnerThrows(c) \/ AnswerStranger(c) \/ AnswerTextless(c)
  BY <1>0, <1>3, <1>6, KeepsRunOfHandoff
     DEF RunnerThrows, AnswerStranger, AnswerTextless, ApplyThrows
<1>7. CASE AnswerUnusable(c) \/ AnswerDenied(c) \/ AnswerUnfit(c)
  BY <1>4, <1>7 DEF AnswerUnusable, AnswerDenied, AnswerUnfit
<1>8. CASE AnswerOwner(c)
  <2> DEFINE row == Handoff(l, "orchestrator", "effective")
  <2>1. InsertHandoff(row) /\ RecordRun(l, agent, "ended")
    BY <1>8 DEF AnswerOwner
  <2>2. IsOfNewRun(row, l, agent)
    BY <1>8, HandoffFields DEF AnswerOwner
  <2> HIDE DEF row
  <2> QED
    BY <1>5, <2>1, <2>2
<1>9. CASE AnswerDescription(c)
  <2> DEFINE row == Handoff(l, "lead-intake", "effective")
  <2>1. InsertHandoff(row) /\ RecordRun(l, agent, "ended")
    BY <1>9 DEF AnswerDescription
  <2>2. IsOfNewRun(row, l, agent)
    BY <1>9, HandoffFields DEF AnswerDescription
  <2> HIDE DEF row
  <2> QED
    BY <1>5, <2>1, <2>2
<1>10. CASE AnswerProposal(c)
  <2>1. PICK reply :
          InsertHandoff([Handoff(l, "pipeline", "pending") EXCEPT
                            !.kind = "confirm-convert",
                            !.payload = PayloadOf(reply)])
    BY <1>10 DEF AnswerProposal
  <2> DEFINE row == [Handoff(l, "pipeline", "pending") EXCEPT
                            !.kind = "confirm-convert",
                            !.payload = PayloadOf(reply)]
  <2>2. InsertHandoff(row) /\ RecordRun(l, agent, "ended")
    BY <1>10, <2>1 DEF AnswerProposal
  <2>3. IsOfNewRun(row, l, agent)
    BY <1>10, HandoffFields DEF AnswerProposal
  <2> HIDE DEF row
  <2> QED
    BY <1>5, <2>2, <2>3
<1>11. CASE AnswerAdvance(c)
  <2> DEFINE row == Handoff(l, "pipeline", "effective")
  <2>1. InsertHandoff(row) /\ RecordRun(l, agent, "ended")
    BY <1>11 DEF AnswerAdvance
  <2>2. IsOfNewRun(row, l, agent)
    BY <1>11, HandoffFields DEF AnswerAdvance
  <2> HIDE DEF row
  <2> QED
    BY <1>5, <2>1, <2>2
<1>12. CASE AnswerClose(c)
  <2>1. PICK stage :
          InsertHandoff([Handoff(l, "pipeline", "pending") EXCEPT
                            !.kind = "confirm-win-loss", !.stage = stage])
    BY <1>12 DEF AnswerClose
  <2> DEFINE row == [Handoff(l, "pipeline", "pending") EXCEPT
                            !.kind = "confirm-win-loss", !.stage = stage]
  <2>2. InsertHandoff(row) /\ RecordRun(l, agent, "ended")
    BY <1>12, <2>1 DEF AnswerClose
  <2>3. IsOfNewRun(row, l, agent)
    BY <1>12, HandoffFields DEF AnswerClose
  <2> HIDE DEF row
  <2> QED
    BY <1>5, <2>2, <2>3
<1>13. CASE AnswerActivity(c)
  <2> DEFINE row == [Handoff(l, "followup", "pending") EXCEPT
                            !.kind = "confirm-send"]
  <2>1. InsertHandoff(row) /\ RecordRun(l, agent, "ended")
    BY <1>13 DEF AnswerActivity
  <2>2. IsOfNewRun(row, l, agent)
    BY <1>13, HandoffFields DEF AnswerActivity
  <2> HIDE DEF row
  <2> QED
    BY <1>5, <2>1, <2>2
<1> QED
  BY <1>6, <1>7, <1>8, <1>9, <1>10, <1>11, <1>12, <1>13 DEF Answer

LEMMA NextRunOfHandoff ==
    ASSUME TypeOK, RunOfHandoff, [Next]_vars
    PROVE  RunOfHandoff'
<1>0. RowsKept /\ RunsKept
  BY NextKeepsHistory
<1>1. NothingInserted => RunOfHandoff'
  BY <1>0, KeepsRunOfHandoff
<1>2. UNCHANGED handoffs => NothingInserted
  BY DEF NothingInserted
<1>3. CASE \E c \in Calls : Answer(c)
  BY <1>3, AnswerRunOfHandoff
<1>4. ASSUME NEW l, ClearQueue(l) PROVE NothingInserted
  BY <1>4 DEF ClearQueue, NothingInserted
<1>5. ASSUME NEW c, NEW l, NEW role, Ingest(c, l, role) PROVE NothingInserted
  BY <1>2, <1>5 DEF Ingest
<1>6. ASSUME NEW l \in Leads, NEW stage, NEW role, AdvanceStage(l, stage, role)
      PROVE  RunOfHandoff'
  <2>1. CASE UNCHANGED handoffs
    BY <1>1, <1>2, <2>1
  <2>2. CASE ~UNCHANGED handoffs
    <3> DEFINE row == [Handoff(l, "pipeline", "pending") EXCEPT
                         !.kind = "confirm-win-loss", !.stage = stage]
    <3>1. InsertHandoff(row) /\ RecordRun(l, "pipeline", "ended")
      BY <1>6, <2>2 DEF AdvanceStage
    <3>2. IsOfNewRun(row, l, "pipeline")
      BY HandoffFields
    <3> HIDE DEF row
    <3> QED
      BY <1>0, <3>1, <3>2, AddsRunOfHandoff DEF Agents, IsOfNewRun
  <2> QED
    BY <2>1, <2>2
<1>7. ASSUME NEW role, NEW h \in DOMAIN handoffs, Decide(h, role)
      PROVE  NothingInserted
  BY <1>7 DEF Decide, ConfirmConvert, ConfirmConvertThrows, ConfirmSend,
              ConfirmWinLoss, Reject, MarkDone, NothingInserted
<1>8. CASE Crash \/ UNCHANGED vars
  BY <1>1, <1>2, <1>8 DEF Crash, vars
<1> QED
  BY <1>1, <1>3, <1>4, <1>5, <1>6, <1>7, <1>8 DEF Next, AbortLead, AbortRun

(* Every handoff belongs to a run of its own, of its lead and agent, and a  *)
(* failed run never shows as anything but a failure.                        *)
THEOREM OneRunEach == Spec => []RunOfHandoff
<1>1. Init => RunOfHandoff
  BY DEF Init, RunOfHandoff
<1>2. TypeOK /\ RunOfHandoff /\ [Next]_vars => RunOfHandoff'
  BY NextRunOfHandoff
<1> QED
  BY <1>1, <1>2, TypeCorrect, PTL DEF Spec

-----------------------------------------------------------------------------
(* Status and objects *)

(* The step converts no lead and gives or takes no opportunity. *)
SameObjects ==
    /\ \A k \in Leads : leads'[k].status = leads[k].status
    /\ \A k \in Leads : opps'[k] = NoOpp <=> opps[k] = NoOpp
    /\ accounts \subseteq accounts'

LEMMA SetLastActivityKeeps ==
    ASSUME TypeOK, NEW l \in Leads, NEW text, SetLastActivity(l, text)
    PROVE  \A k \in Leads : leads'[k].status = leads[k].status
<1>1. leads[l] \in LeadRow
  BY DEF TypeOK
<1>2. [leads[l] EXCEPT !.lastActivity = text].status = leads[l].status
  BY <1>1 DEF LeadRow
<1> QED
  BY <1>2 DEF TypeOK, SetLastActivity

LEMMA SetStageKeeps ==
    ASSUME TypeOK, NEW l \in Leads, NEW stage \in Stages, SetStage(l, stage)
    PROVE  \A k \in Leads : opps'[k] = NoOpp <=> opps[k] = NoOpp
  BY NullAssumption DEF TypeOK, SetStage

LEMMA AnswerSameObjects ==
    ASSUME TypeOK, NEW c \in Calls, Answer(c)
    PROVE  SameObjects
<1> DEFINE l == calls[c].lead
<1>0. UNCHANGED <<leads, opps, accounts>> => SameObjects
  BY DEF SameObjects
<1>1. calls[c] # Idle => l \in Leads
  BY BusySlot
<1>2. CASE RunnerThrows(c)
  BY <1>0, <1>2 DEF RunnerThrows
<1>3. CASE AnswerUnusable(c) \/ AnswerDenied(c) \/ AnswerUnfit(c)
  BY <1>0, <1>3 DEF AnswerUnusable, AnswerDenied, AnswerUnfit, DispatchFails
<1>4. CASE AnswerStranger(c) \/ AnswerTextless(c)
  BY <1>0, <1>4 DEF AnswerStranger, AnswerTextless, ApplyThrows
<1>5. CASE AnswerOwner(c)
  <2>1. leads[l] \in LeadRow
    BY <1>1, <1>5 DEF AnswerOwner, TypeOK
  <2>2. [leads[l] EXCEPT !.owned = TRUE, !.lastActivity = "assigned"].status
          = leads[l].status
    BY <2>1 DEF LeadRow
  <2>3. leads' = [leads EXCEPT ![l] =
                    [leads[l] EXCEPT !.owned = TRUE,
                                     !.lastActivity = "assigned"]]
    BY <1>1, <1>5 DEF AnswerOwner, TypeOK
  <2> QED
    BY <1>1, <1>5, <2>2, <2>3 DEF AnswerOwner, SameObjects, TypeOK
<1>6. CASE AnswerDescription(c)
  BY <1>1, <1>6, SetLastActivityKeeps DEF AnswerDescription, SameObjects
<1>7. CASE AnswerProposal(c)
  BY <1>1, <1>7, SetLastActivityKeeps DEF AnswerProposal, SameObjects
<1>8. CASE AnswerAdvance(c)
  BY <1>1, <1>8, SetStageKeeps DEF AnswerAdvance, SameObjects, Stages
<1>9. CASE AnswerClose(c)
  BY <1>0, <1>9 DEF AnswerClose
<1>10. CASE AnswerActivity(c)
  BY <1>1, <1>10, SetLastActivityKeeps DEF AnswerActivity, SameObjects
<1> QED
  BY <1>2, <1>3, <1>4, <1>5, <1>6, <1>7, <1>8, <1>9, <1>10 DEF Answer

(* What a step does to the objects: nothing, or the whole conversion of one *)
(* lead under the confirmation of its handoff.                              *)
Converts(c, h, role) ==
    /\ ConfirmConvert(c, h, role)
    /\ leads[handoffs[h].lead].status # "converted"

LEMMA DecisionObjects ==
    ASSUME TypeOK, NEW h \in DOMAIN handoffs, NEW role, Decide(h, role)
    PROVE  SameObjects \/ \E c \in Calls : Converts(c, h, role)
<1> DEFINE l == handoffs[h].lead
<1>1. handoffs[h] \in HandoffRow
  BY DEF TypeOK
<1>2. l \in Leads
  BY <1>1 DEF HandoffRow
<1>3. ASSUME NEW c \in Calls, ConfirmConvert(c, h, role), ~Converts(c, h, role)
      PROVE  SameObjects
  BY <1>3 DEF ConfirmConvert, Converts, ApplyConvert, SameObjects
<1>4. CASE ConfirmConvertThrows(h, role)
  BY <1>4 DEF ConfirmConvertThrows, SameObjects
<1>5. CASE ConfirmSend(h, role)
  BY <1>2, <1>5, SetLastActivityKeeps DEF ConfirmSend, SameObjects
<1>6. CASE ConfirmWinLoss(h, role)
  <2>1. handoffs[h].stage \in Stages
    BY <1>1, <1>6 DEF ConfirmWinLoss, MayDecide, HandoffRow, Stages
  <2> QED
    BY <1>2, <1>6, <2>1, SetLastActivityKeeps, SetStageKeeps
       DEF ConfirmWinLoss, SameObjects
<1>7. CASE Reject(h, role)
  BY <1>2, <1>7, SetLastActivityKeeps DEF Reject, SameObjects
<1> QED
  BY <1>3, <1>4, <1>5, <1>6, <1>7 DEF Decide

LEMMA NextObjects ==
    ASSUME TypeOK, [Next]_vars
    PROVE  \/ SameObjects
           \/ \E c \in Calls, h \in DOMAIN handoffs, role \in Roles :
                 Converts(c, h, role)
<1>0. UNCHANGED <<leads, opps, accounts>> => SameObjects
  BY DEF SameObjects
<1>1. CASE \E c \in Calls : Answer(c)
  BY <1>1, AnswerSameObjects
<1>2. ASSUME NEW l \in Leads, ClearQueue(l) PROVE SameObjects
  BY <1>2, SetLastActivityKeeps DEF ClearQueue, SameObjects
<1>3. ASSUME NEW c, NEW l, NEW role, Ingest(c, l, role) PROVE SameObjects
  BY <1>0, <1>3 DEF Ingest
<1>4. ASSUME NEW l \in Leads, NEW stage \in Targets, NEW role,
             AdvanceStage(l, stage, role)
      PROVE  SameObjects
  <2>1. stage \in Stages
    BY TargetsAssumption
  <2> QED
    BY <1>4, <2>1, SetLastActivityKeeps, SetStageKeeps
       DEF AdvanceStage, SameObjects
<1>5. ASSUME NEW role \in Roles, NEW h \in DOMAIN handoffs, Decide(h, role)
      PROVE  SameObjects \/ \E c \in Calls : Converts(c, h, role)
  BY <1>5, DecisionObjects
<1>6. CASE Crash
  BY <1>0, <1>6 DEF Crash
<1>7. CASE UNCHANGED vars
  BY <1>0, <1>7 DEF vars
<1>8. ASSUME NEW role \in Roles, NEW r \in DOMAIN runs, AbortRun(r, role)
      PROVE  SameObjects
  BY <1>2, <1>8, RunLead DEF AbortRun
<1> QED
  BY <1>1, <1>2, <1>3, <1>4, <1>5, <1>6, <1>7, <1>8 DEF Next, AbortLead

LEMMA ConvertsObjects ==
    ASSUME TypeOK, NEW c, NEW h \in DOMAIN handoffs, NEW role,
           Converts(c, h, role)
    PROVE  LET l == handoffs[h].lead IN
           /\ l \in Leads
           /\ leads'[l].status = "converted"
           /\ opps'[l] # NoOpp
           /\ accounts' = accounts \cup {l}
           /\ \A k \in Leads \ {l} : /\ leads'[k] = leads[k]
                                     /\ opps'[k] = opps[k]
<1> DEFINE l == handoffs[h].lead
<1>1. handoffs[h] \in HandoffRow
  BY DEF TypeOK
<1>2. l \in Leads /\ leads[l] \in LeadRow
  BY <1>1 DEF HandoffRow, TypeOK
<1>3. [leads[l] EXCEPT !.status = "converted",
                       !.lastActivity = "converted"].status = "converted"
  BY <1>2 DEF LeadRow
<1>4. leads' = [leads EXCEPT ![l] =
                  [leads[l] EXCEPT !.status = "converted",
                                   !.lastActivity = "converted"]]
  BY <1>2 DEF Converts, ConfirmConvert, ApplyConvert, TypeOK
<1>5. opps' = [opps EXCEPT ![l] = "need"] /\ accounts' = accounts \cup {l}
  BY DEF Converts, ConfirmConvert, ApplyConvert
<1>6. NoOpp # "need"
  BY NullAssumption DEF Stages, MidStages
<1> QED
  BY <1>2, <1>3, <1>4, <1>5, <1>6 DEF TypeOK

LEMMA NextObjectsMatch ==
    ASSUME TypeOK, ObjectsMatchStatus, [Next]_vars
    PROVE  ObjectsMatchStatus'
<1>1. CASE SameObjects
  BY <1>1 DEF SameObjects, ObjectsMatchStatus
<1>2. ASSUME NEW c \in Calls, NEW h \in DOMAIN handoffs, NEW role \in Roles,
             Converts(c, h, role)
      PROVE  ObjectsMatchStatus'
  BY <1>2, ConvertsObjects DEF ObjectsMatchStatus
<1> QED
  BY <1>1, <1>2, NextObjects

LEMMA InitObjectsMatch == Init => ObjectsMatchStatus
  BY DEF Init, ObjectsMatchStatus

(* A lead is converted exactly when it has its opportunity, and then it has *)
(* its account, under any interleaving of requests, answers and crashes.    *)
THEOREM ObjectsMatch == Spec => []ObjectsMatchStatus
<1>1. TypeOK /\ ObjectsMatchStatus /\ [Next]_vars => ObjectsMatchStatus'
  BY NextObjectsMatch
<1> QED
  BY <1>1, InitObjectsMatch, TypeCorrect, PTL DEF Spec

-----------------------------------------------------------------------------
(* Who converts and who closes *)

LEMMA MarkDoneConfirms ==
    ASSUME TypeOK, NEW h \in DOMAIN handoffs, NEW role, NEW roles, NEW kind,
           MayDecide(h, kind, role), role \in roles, MarkDone(h, role)
    PROVE  h \in Rows(handoffs[h].lead) /\ ConfirmedNow(h, kind, roles)
<1>1. handoffs[h] \in HandoffRow
  BY DEF TypeOK
<1>2. handoffs'[h] = [handoffs[h] EXCEPT !.status = "effective",
                                         !.decidedBy = role]
  BY DEF MarkDone
<1>3. handoffs'[h].status = "effective" /\ handoffs'[h].decidedBy = role
  BY <1>1, <1>2 DEF HandoffRow
<1> QED
  BY <1>3 DEF Rows, ConfirmedNow, MayDecide

LEMMA NextConversionByHuman ==
    ASSUME TypeOK, [Next]_vars, NEW l \in Leads,
           leads'[l].status # leads[l].status
    PROVE  /\ leads'[l].status = "converted"
           /\ \E h \in Rows(l) :
                 ConfirmedNow(h, "confirm-convert", {"sales", "manager"})
<1>1. PICK c \in Calls, h \in DOMAIN handoffs, role \in Roles :
        Converts(c, h, role)
  BY NextObjects DEF SameObjects
<1>2. handoffs[h].lead = l /\ leads'[l].status = "converted"
  BY <1>1, ConvertsObjects
<1>3. role \in {"sales", "manager"}
  BY <1>1 DEF Converts, ConfirmConvert, MayDecide, CanConfirm
<1> QED
  BY <1>1, <1>2, <1>3, MarkDoneConfirms DEF Converts, ConfirmConvert

(* A lead is converted only in the step in which sales or a manager         *)
(* confirms a pending conversion of that very lead, and never back.         *)
THEOREM HumanConverts == Spec => ConversionByHuman
<1> DEFINE Body == \A l \in Leads :
             leads'[l].status # leads[l].status =>
                /\ leads'[l].status = "converted"
                /\ \E h \in Rows(l) :
                     ConfirmedNow(h, "confirm-convert", {"sales", "manager"})
<1>1. TypeOK /\ [Next]_vars => [Body]_vars
  BY NextConversionByHuman
<1> QED
  BY <1>1, TypeCorrect, PTL DEF Spec, ConversionByHuman

LEMMA DisjointStages == MidStages \cap ClosedStages = {}
  BY DEF MidStages, ClosedStages

LEMMA SetStageOnly ==
    ASSUME TypeOK, NEW l \in Leads, NEW k \in Leads, NEW stage,
           SetStage(k, stage), opps'[l] # opps[l]
    PROVE  l = k /\ opps'[l] = stage
  BY DEF TypeOK, SetStage

LEMMA NextCloseByManager ==
    ASSUME TypeOK, [Next]_vars, NEW l \in Leads,
           opps'[l] \in ClosedStages, opps'[l] # opps[l]
    PROVE  \E h \in Rows(l) :
             /\ ConfirmedNow(h, "confirm-win-loss", {"manager"})
             /\ handoffs[h].stage = opps'[l]
<1>0. ASSUME NEW k \in Leads, NEW stage \in MidStages, SetStage(k, stage)
      PROVE  FALSE
  BY <1>0, SetStageOnly, DisjointStages
<1>1. ASSUME NEW c \in Calls, Answer(c) PROVE FALSE
  BY <1>0, <1>1, BusySlot
     DEF Answer, RunnerThrows, AnswerUnusable, AnswerDenied, AnswerUnfit,
         AnswerOwner, AnswerStranger, AnswerDescription, AnswerProposal,
         AnswerAdvance, AnswerClose, AnswerActivity, AnswerTextless,
         ApplyThrows, DispatchFails
<1>2. ASSUME NEW k, ClearQueue(k) PROVE FALSE
  BY <1>2 DEF ClearQueue
<1>3. ASSUME NEW c, NEW k, NEW role, Ingest(c, k, role) PROVE FALSE
  BY <1>3 DEF Ingest
<1>4. ASSUME NEW k \in Leads, NEW stage, NEW role, AdvanceStage(k, stage, role)
      PROVE  FALSE
  BY <1>0, <1>4 DEF AdvanceStage
<1>5. ASSUME NEW role \in Roles, NEW h \in DOMAIN handoffs, Decide(h, role)
      PROVE  /\ h \in Rows(l)
             /\ ConfirmedNow(h, "confirm-win-loss", {"manager"})
             /\ handoffs[h].stage = opps'[l]
  <2>1. handoffs[h].lead \in Leads
    <3>1. handoffs[h] \in HandoffRow
      BY DEF TypeOK
    <3> QED
      BY <3>1 DEF HandoffRow
  <2>2. ASSUME NEW c \in Calls, ConfirmConvert(c, h, role) PROVE FALSE
    BY <2>2 DEF ConfirmConvert, ApplyConvert, TypeOK, ClosedStages
  <2>3. ConfirmWinLoss(h, role)
    BY <1>5, <2>2 DEF Decide, ConfirmConvertThrows, ConfirmSend, Reject
  <2>4. handoffs[h].lead = l /\ handoffs[h].stage = opps'[l]
    BY <2>1, <2>3, SetStageOnly DEF ConfirmWinLoss
  <2>5. role \in {"manager"}
    BY <2>3 DEF ConfirmWinLoss, MayDecide, CanConfirm
  <2> QED
    BY <2>3, <2>4, <2>5, MarkDoneConfirms DEF ConfirmWinLoss
<1>6. ~Crash /\ ~UNCHANGED vars
  BY DEF Crash, vars
<1> QED
  BY <1>1, <1>2, <1>3, <1>4, <1>5, <1>6, RunLead
     DEF Next, AbortLead, AbortRun

(* An opportunity becomes won or lost only in the step in which a manager   *)
(* confirms the handoff that proposed just that stage for it: no model      *)
(* answer and no sales request closes it.                                   *)
THEOREM ManagerCloses == Spec => CloseByManager
<1> DEFINE Body == \A l \in Leads :
             opps'[l] \in ClosedStages /\ opps'[l] # opps[l] =>
                \E h \in Rows(l) :
                   /\ ConfirmedNow(h, "confirm-win-loss", {"manager"})
                   /\ handoffs[h].stage = opps'[l]
<1>1. TypeOK /\ [Next]_vars => [Body]_vars
  BY NextCloseByManager
<1> QED
  BY <1>1, TypeCorrect, PTL DEF Spec, CloseByManager

-----------------------------------------------------------------------------
(* Who sends *)

LEMMA AnswerSendsNothing ==
    ASSUME TypeOK, NEW c \in Calls, Answer(c), NEW a \in DOMAIN activities
    PROVE  activities'[a] = activities[a]
<1>1. CASE AnswerActivity(c)
  BY <1>1, AppendKeeps DEF AnswerActivity, TypeOK
<1>2. CASE ~AnswerActivity(c)
  BY <1>2 DEF Answer, RunnerThrows, AnswerUnusable, AnswerDenied, AnswerUnfit,
       AnswerOwner, AnswerStranger, AnswerDescription, AnswerProposal,
       AnswerAdvance, AnswerClose, AnswerTextless, ApplyThrows, DispatchFails
<1> QED
  BY <1>1, <1>2

LEMMA NextSendByHuman ==
    ASSUME TypeOK, [Next]_vars, NEW a \in DOMAIN activities,
           activities'[a].effective # activities[a].effective
    PROVE  /\ activities'[a].effective
           /\ \E h \in Rows(activities[a].lead) :
                 ConfirmedNow(h, "confirm-send", {"sales", "manager"})
<1>0. activities[a] \in ActivityRow
  BY DEF TypeOK
<1>1. ASSUME NEW c \in Calls, Answer(c) PROVE FALSE
  BY <1>1, AnswerSendsNothing
<1>2. ASSUME NEW l, ClearQueue(l) PROVE FALSE
  BY <1>2 DEF ClearQueue
<1>3. ASSUME NEW c, NEW l, NEW role, Ingest(c, l, role) PROVE FALSE
  BY <1>3 DEF Ingest
<1>4. ASSUME NEW l, NEW stage, NEW role, AdvanceStage(l, stage, role)
      PROVE  FALSE
  BY <1>4 DEF AdvanceStage
<1>5. ASSUME NEW role \in Roles, NEW h \in DOMAIN handoffs, Decide(h, role)
      PROVE  /\ activities'[a].effective
             /\ h \in Rows(activities[a].lead)
             /\ ConfirmedNow(h, "confirm-send", {"sales", "manager"})
  <2>1. ConfirmSend(h, role)
    BY <1>5 DEF Decide, ConfirmConvert, ConfirmConvertThrows, ConfirmWinLoss,
                Reject
  <2>2. /\ activities[a].lead = handoffs[h].lead
        /\ activities'[a] = [activities[a] EXCEPT !.effective = TRUE]
    BY <2>1 DEF ConfirmSend
  <2>3. activities'[a].effective
    BY <1>0, <2>2 DEF ActivityRow
  <2>4. role \in {"sales", "manager"}
    BY <2>1 DEF ConfirmSend, MayDecide, CanConfirm
  <2> QED
    BY <2>1, <2>2, <2>3, <2>4, MarkDoneConfirms DEF ConfirmSend
<1>6. ~Crash /\ ~UNCHANGED vars
  BY DEF Crash, vars
<1> QED
  BY <1>1, <1>2, <1>3, <1>4, <1>5, <1>6 DEF Next, AbortLead, AbortRun

(* An activity becomes effective only in the step in which sales or a       *)
(* manager confirms a send for its lead, and is never taken back.           *)
THEOREM HumanSends == Spec => SendByHuman
<1> DEFINE Body == \A a \in DOMAIN activities :
             activities'[a].effective # activities[a].effective =>
                /\ activities'[a].effective
                /\ \E h \in Rows(activities[a].lead) :
                     ConfirmedNow(h, "confirm-send", {"sales", "manager"})
<1>1. TypeOK /\ [Next]_vars => [Body]_vars
  BY NextSendByHuman
<1> QED
  BY <1>1, TypeCorrect, PTL DEF Spec, SendByHuman

(* Conversions, closings and sends take effect only by the person who may   *)
(* decide them, whatever interleaves.                                       *)
THEOREM EffectsAreDecided == Spec => EffectsByHuman
  BY HumanConverts, ManagerCloses, HumanSends, PTL DEF EffectsByHuman

-----------------------------------------------------------------------------
(* The order of the agents *)

(* What makes it right that an agent works on a lead. *)
Entitled(l, agent) ==
    /\ agent \in {"lead-intake", "pipeline"} => HasEffective(l, "orchestrator")
    /\ agent = "pipeline" => HasEffective(l, "lead-intake")
    /\ agent = "followup" => leads[l].status = "converted" /\ ConvertConfirmed(l)

(* Effective rows stay, so what an agent was entitled to it keeps.          *)
LEMMA EffectiveStays ==
    ASSUME RowsKept, NEW h \in DOMAIN handoffs,
           handoffs[h].status = "effective"
    PROVE  h \in DOMAIN handoffs' /\ handoffs'[h] = handoffs[h]
  BY DEF RowsKept

LEMMA HasEffectiveStays ==
    ASSUME RowsKept, NEW l, NEW agent, HasEffective(l, agent)
    PROVE  HasEffective(l, agent)'
  BY EffectiveStays DEF HasEffective, Rows

LEMMA ConvertConfirmedStays ==
    ASSUME RowsKept, NEW l, ConvertConfirmed(l)
    PROVE  ConvertConfirmed(l)'
  BY EffectiveStays DEF ConvertConfirmed, Rows

LEMMA ConvertedStays ==
    ASSUME TypeOK, [Next]_vars, NEW l \in Leads,
           leads[l].status = "converted"
    PROVE  leads'[l].status = "converted"
  BY NextConversionByHuman

LEMMA EntitledStays ==
    ASSUME TypeOK, [Next]_vars, NEW l \in Leads, NEW agent,
           Entitled(l, agent)
    PROVE  Entitled(l, agent)'
<1>1. RowsKept
  BY NextKeepsHistory
<1> QED
  BY <1>1, HasEffectiveStays, ConvertConfirmedStays, ConvertedStays
     DEF Entitled

(* Where the slots come from: a waiting request keeps its lead and agent,   *)
(* or it waits for an agent that is entitled to the lead by now.            *)
SlotEntitled(c) ==
    calls'[c] # Idle =>
        \/ /\ calls[c] # Idle
           /\ calls'[c].lead = calls[c].lead
           /\ calls'[c].agent = calls[c].agent
        \/ \E l \in Leads, agent \in Agents :
              /\ calls'[c].lead = l
              /\ calls'[c].agent = agent
              /\ Entitled(l, agent)'

LEMMA AwaitFields ==
    ASSUME NEW l, NEW agent
    PROVE  Await(l, agent).lead = l /\ Await(l, agent).agent = agent
  BY DEF Await

LEMMA OtherSlots ==
    ASSUME NEW c \in Calls, NEW d \in Calls, c # d, TypeOK,
           Return(c) \/ \E next : Continue(c, next)
    PROVE  SlotEntitled(d)
  BY DEF Return, Continue, SlotEntitled, TypeOK

LEMMA ReturnEntitled ==
    ASSUME TypeOK, NEW c \in Calls, Return(c), NEW d \in Calls
    PROVE  SlotEntitled(d)
  BY DEF TypeOK, Return, SlotEntitled

(* A request that goes on: from orchestrator to what FromIntake says, from  *)
(* lead-intake to what FromPipeline says.                                   *)
LEMMA ContinueEntitled ==
    ASSUME TypeOK, NEW c \in Calls, NEW l \in Leads, NEW agent \in Agents,
           calls[c] # Idle, Entitled(l, agent)',
           Continue(c, Await(l, agent))
    PROVE  SlotEntitled(c)
<1>1. Await(l, agent) \in Waiting
  BY AwaitType
<1>2. CASE Await(l, agent) = Idle
  BY <1>2 DEF Continue, SlotEntitled, TypeOK
<1>3. CASE Await(l, agent) # Idle
  <2>1. calls'[c] = [Await(l, agent) EXCEPT !.stopped = calls[c].stopped]
    BY <1>3 DEF Continue, TypeOK
  <2>2. calls'[c].lead = l /\ calls'[c].agent = agent
    BY <1>1, <2>1, AwaitFields DEF Waiting
  <2> QED
    BY <2>2 DEF SlotEntitled
<1> QED
  BY <1>2, <1>3

LEMMA ContinueIdle ==
    ASSUME TypeOK, NEW c \in Calls, Continue(c, Idle)
    PROVE  SlotEntitled(c)
  BY DEF Continue, SlotEntitled, TypeOK

LEMMA GoesOnFromIntake ==
    ASSUME TypeOK, NEW c \in Calls, NEW l \in Leads, calls[c] # Idle,
           RowsKept, HasEffective(l, "orchestrator")',
           Continue(c, FromIntake(l))
    PROVE  SlotEntitled(c)
<1>1. CASE ~HasEffective(l, "lead-intake")
  <2>1. Entitled(l, "lead-intake")'
    BY DEF Entitled
  <2> QED
    BY <1>1, <2>1, ContinueEntitled DEF FromIntake, Agents
<1>2. CASE HasEffective(l, "lead-intake")
  <2>1. Entitled(l, "pipeline")'
    BY <1>2, HasEffectiveStays DEF Entitled
  <2> QED
    BY <1>2, <2>1, ContinueEntitled, ContinueIdle
       DEF FromIntake, FromPipeline, Agents
<1> QED
  BY <1>1, <1>2

LEMMA GoesOnFromPipeline ==
    ASSUME TypeOK, NEW c \in Calls, NEW l \in Leads, calls[c] # Idle,
           HasEffective(l, "orchestrator")', HasEffective(l, "lead-intake")',
           Continue(c, FromPipeline(l))
    PROVE  SlotEntitled(c)
<1>1. Entitled(l, "pipeline")'
  BY DEF Entitled
<1> QED
  BY <1>1, ContinueEntitled, ContinueIdle DEF FromPipeline, Agents

LEMMA InsertedEffective ==
    ASSUME TypeOK, NEW l \in Leads, NEW agent \in Agents,
           InsertHandoff(Handoff(l, agent, "effective"))
    PROVE  HasEffective(l, agent)'
<1> DEFINE row == Handoff(l, agent, "effective")
           n == Len(handoffs) + 1
<1>1. row \in HandoffRow
  BY HandoffType DEF HandoffStatuses
<1>2. handoffs \in Seq(HandoffRow)
  BY DEF TypeOK
<1>3. n \in DOMAIN handoffs' /\ handoffs'[n] = row
  BY <1>1, <1>2, AppendedRow DEF InsertHandoff
<1>4. row.lead = l /\ row.agent = agent /\ row.status = "effective"
  BY DEF Handoff
<1> QED
  BY <1>3, <1>4 DEF HasEffective, Rows

LEMMA AnswerEntitled ==
    ASSUME TypeOK, AgentOrder, NEW c \in Calls, Answer(c), NEW d \in Calls
    PROVE  SlotEntitled(d)
<1>0. RowsKept
  BY AnswerKeepsHistory
<1>1. CASE Return(c)
  BY <1>1, ReturnEntitled
<1>2. CASE AnswerOwner(c)
  <2> DEFINE l == calls[c].lead
  <2>1. PICK k \in Leads : k = l
    BY <1>2, BusySlot DEF AnswerOwner
  <2>2. HasEffective(k, "orchestrator")'
    BY <1>2, <2>1, InsertedEffective DEF AnswerOwner, Agents
  <2>3. Continue(c, FromIntake(k)) /\ calls[c] # Idle
    BY <1>2, <2>1 DEF AnswerOwner
  <2> QED
    BY <1>0, <2>2, <2>3, GoesOnFromIntake, OtherSlots
<1>3. CASE AnswerDescription(c)
  <2> DEFINE l == calls[c].lead
  <2>1. PICK k \in Leads : k = l
    BY <1>3, BusySlot DEF AnswerDescription
  <2>2. HasEffective(k, "lead-intake")'
    BY <1>3, <2>1, InsertedEffective DEF AnswerDescription, Agents
  <2>3. HasEffective(k, "orchestrator")
    BY <1>3, <2>1 DEF AnswerDescription, AgentOrder, InFlight
  <2>4. HasEffective(k, "orchestrator")'
    BY <1>0, <2>3, HasEffectiveStays
  <2>5. Continue(c, FromPipeline(k)) /\ calls[c] # Idle
    BY <1>3, <2>1 DEF AnswerDescription
  <2> QED
    BY <2>2, <2>4, <2>5, GoesOnFromPipeline, OtherSlots
<1> QED
  BY <1>1, <1>2, <1>3
     DEF Answer, RunnerThrows, AnswerUnusable, AnswerDenied, AnswerUnfit,
         AnswerStranger, AnswerProposal, AnswerAdvance, AnswerClose,
         AnswerActivity, AnswerTextless, ApplyThrows, DispatchFails

LEMMA KeptSlots ==
    ASSUME UNCHANGED calls, NEW d \in Calls
    PROVE  SlotEntitled(d)
  BY DEF SlotEntitled

LEMMA StoppedSlots ==
    ASSUME TypeOK, NEW l, MarkStopped(l), NEW d \in Calls
    PROVE  SlotEntitled(d)
<1>1. CASE calls[d] # Idle
  <2>1. calls[d] \in Waiting
    BY <1>1, BusySlot
  <2>2. /\ [calls[d] EXCEPT !.stopped = TRUE].lead = calls[d].lead
        /\ [calls[d] EXCEPT !.stopped = TRUE].agent = calls[d].agent
    BY <2>1 DEF Waiting
  <2> QED
    BY <1>1, <2>2 DEF MarkStopped, SlotEntitled
<1>2. CASE calls[d] = Idle
  BY <1>2 DEF MarkStopped, SlotEntitled
<1> QED
  BY <1>1, <1>2

LEMMA AwaitingSlot ==
    ASSUME TypeOK, NEW c \in Calls, NEW l \in Leads, NEW agent \in Agents,
           Entitled(l, agent)',
           calls' = [calls EXCEPT ![c] = Await(l, agent)],
           NEW d \in Calls
    PROVE  SlotEntitled(d)
  BY AwaitFields DEF SlotEntitled, TypeOK

LEMMA IngestEntitled ==
    ASSUME TypeOK, NEW c \in Calls, NEW l \in Leads, NEW role,
           Ingest(c, l, role), NEW d \in Calls
    PROVE  SlotEntitled(d)
<1>1. RowsKept
  BY DEF Ingest, RowsKept
<1>2. HasEffective(l, "orchestrator") => HasEffective(l, "orchestrator")'
  BY <1>1, HasEffectiveStays
<1>3. HasEffective(l, "lead-intake") => HasEffective(l, "lead-intake")'
  BY <1>1, HasEffectiveStays
<1>4. CASE FromOrchestrator(l) = Await(l, "orchestrator")
  <2>1. Entitled(l, "orchestrator")'
    BY DEF Entitled
  <2> QED
    BY <1>4, <2>1, AwaitingSlot DEF Ingest, Agents
<1>5. CASE /\ HasEffective(l, "orchestrator")
           /\ FromOrchestrator(l) = Await(l, "lead-intake")
  <2>1. Entitled(l, "lead-intake")'
    BY <1>2, <1>5 DEF Entitled
  <2> QED
    BY <1>5, <2>1, AwaitingSlot DEF Ingest, Agents
<1>6. CASE /\ HasEffective(l, "orchestrator")
           /\ HasEffective(l, "lead-intake")
           /\ FromOrchestrator(l) = Await(l, "pipeline")
  <2>1. Entitled(l, "pipeline")'
    BY <1>2, <1>3, <1>6 DEF Entitled
  <2> QED
    BY <1>6, <2>1, AwaitingSlot DEF Ingest, Agents
<1>7. CASE FromOrchestrator(l) = Idle
  BY <1>7 DEF Ingest, SlotEntitled, TypeOK
<1> QED
  BY <1>4, <1>5, <1>6, <1>7 DEF FromOrchestrator, FromIntake, FromPipeline

LEMMA DecisionEntitled ==
    ASSUME TypeOK, ObjectsMatchStatus, NEW h \in DOMAIN handoffs,
           NEW role \in Roles, Decide(h, role), NEW d \in Calls
    PROVE  SlotEntitled(d)
<1>1. ASSUME NEW c \in Calls, ConfirmConvert(c, h, role)
      PROVE  SlotEntitled(d)
  <2>1. PICK l \in Leads : l = handoffs[h].lead
    <3>1. handoffs[h] \in HandoffRow
      BY DEF TypeOK
    <3> QED
      BY <3>1 DEF HandoffRow
  <2>2. leads'[l].status = "converted"
    BY <1>1, <2>1, ConvertsObjects DEF Converts, ConfirmConvert, ApplyConvert
  <2>3. ConvertConfirmed(l)'
    <3>1. h \in DOMAIN handoffs'
      BY <1>1 DEF ConfirmConvert, MarkDone
    <3>2. handoffs'[h] = [handoffs[h] EXCEPT !.status = "effective",
                                             !.decidedBy = role]
      BY <1>1 DEF ConfirmConvert, MarkDone
    <3>3. handoffs[h] \in HandoffRow
      BY DEF TypeOK
    <3>4. /\ handoffs'[h].lead = l
          /\ handoffs'[h].kind = "confirm-convert"
          /\ handoffs'[h].status = "effective"
      BY <1>1, <2>1, <3>2, <3>3 DEF ConfirmConvert, MayDecide, HandoffRow
    <3> QED
      BY <3>1, <3>4 DEF ConvertConfirmed, Rows
  <2>4. Entitled(l, "followup")'
    BY <2>2, <2>3 DEF Entitled
  <2> QED
    BY <1>1, <2>1, <2>4, AwaitingSlot DEF ConfirmConvert, Agents
<1>2. CASE \/ ConfirmConvertThrows(h, role)
           \/ ConfirmSend(h, role)
           \/ ConfirmWinLoss(h, role)
  BY <1>2, KeptSlots DEF ConfirmConvertThrows, ConfirmSend, ConfirmWinLoss
<1>3. CASE Reject(h, role)
  BY <1>3, StoppedSlots DEF Reject
<1> QED
  BY <1>1, <1>2, <1>3 DEF Decide

LEMMA NextEntitled ==
    ASSUME TypeOK, ObjectsMatchStatus, AgentOrder, [Next]_vars,
           NEW d \in Calls
    PROVE  SlotEntitled(d)
<1>1. CASE \E c \in Calls : Answer(c)
  BY <1>1, AnswerEntitled
<1>2. ASSUME NEW l, ClearQueue(l) PROVE SlotEntitled(d)
  BY <1>2, StoppedSlots DEF ClearQueue
<1>3. ASSUME NEW c \in Calls, NEW l \in Leads, NEW role, Ingest(c, l, role)
      PROVE  SlotEntitled(d)
  BY <1>3, IngestEntitled
<1>4. ASSUME NEW l, NEW stage, NEW role, AdvanceStage(l, stage, role)
      PROVE  SlotEntitled(d)
  BY <1>4, KeptSlots DEF AdvanceStage
<1>5. ASSUME NEW role \in Roles, NEW h \in DOMAIN handoffs, Decide(h, role)
      PROVE  SlotEntitled(d)
  BY <1>5, DecisionEntitled
<1>6. CASE Crash
  BY <1>6 DEF Crash, SlotEntitled
<1>7. CASE UNCHANGED vars
  BY <1>7, KeptSlots DEF vars
<1> QED
  BY <1>1, <1>2, <1>3, <1>4, <1>5, <1>6, <1>7 DEF Next, AbortLead, AbortRun

LEMMA NextAgentOrder ==
    ASSUME TypeOK, ObjectsMatchStatus, AgentOrder, [Next]_vars
    PROVE  AgentOrder'
<1> SUFFICES ASSUME NEW d \in Calls, NEW l, NEW agent,
                    calls'[d] # Idle, calls'[d].lead = l, calls'[d].agent = agent
             PROVE  Entitled(l, agent)'
  BY DEF AgentOrder, Entitled, InFlight
<1>1. CASE /\ calls[d] # Idle
           /\ calls'[d].lead = calls[d].lead
           /\ calls'[d].agent = calls[d].agent
  <2>1. Entitled(l, agent)
    BY <1>1 DEF AgentOrder, Entitled, InFlight
  <2>2. l \in Leads
    BY <1>1, BusySlot
  <2> QED
    BY <2>1, <2>2, EntitledStays
<1> QED
  BY <1>1, NextEntitled DEF SlotEntitled

LEMMA InitAgentOrder == Init => AgentOrder
  BY DEF Init, AgentOrder, InFlight

(* An agent works on a lead only over the effective handoffs of its         *)
(* predecessors, and followup only on a converted lead whose conversion a   *)
(* person confirmed: across re-ingests, aborts, late answers and restarts.  *)
THEOREM AgentsInOrder == Spec => []AgentOrder
<1>1. TypeOK /\ ObjectsMatchStatus /\ AgentOrder /\ [Next]_vars => AgentOrder'
  BY NextAgentOrder
<1> QED
  BY <1>1, InitAgentOrder, ObjectsMatch, TypeCorrect, PTL DEF Spec


-----------------------------------------------------------------------------
(* What an answer brings                                                    *)

(* The step says nothing on any banner, or one of texts on the lead's.      *)
Banner(l, texts) ==
    \A k \in Leads : \/ leads'[k].lastActivity = leads[k].lastActivity
                     \/ k = l /\ leads'[k].lastActivity \in texts

(* A visible failure; a step done; a question for a person, on a proposal,  *)
(* a closing or a draft.                                                    *)
BringsFailure(c, row) ==
    /\ row.status = "failed" /\ row.kind = "none"
    /\ Return(c)
    /\ UNCHANGED <<leads, accounts, opps, activities>>

BringsStep(c, row) ==
    /\ row.status = "effective" /\ row.kind = "none"
    /\ \/ row.agent = "orchestrator" /\ Continue(c, FromIntake(row.lead))
       \/ row.agent = "lead-intake" /\ Continue(c, FromPipeline(row.lead))
       \/ row.agent = "pipeline" /\ Return(c)
    /\ Banner(row.lead, {"assigned", "filed"})
    /\ UNCHANGED <<accounts, activities>>

BringsQuestion(c, row) ==
    /\ row.status = "pending" /\ row.agent = "pipeline"
    /\ \/ /\ row.kind = "confirm-convert"
          /\ Banner(row.lead, {"convertPending"})
       \/ /\ row.kind = "confirm-win-loss"
          /\ Banner(row.lead, {})
    /\ Return(c)
    /\ UNCHANGED <<accounts, activities>>

BringsDraft(c, row) ==
    /\ row.status = "pending" /\ row.agent = "followup"
    /\ row.kind = "confirm-send"
    /\ activities' = Append(activities, [lead |-> row.lead, effective |-> FALSE,
                                         handoff |-> Len(handoffs) + 1])
    /\ Banner(row.lead, {"sendPending"})
    /\ Return(c)
    /\ UNCHANGED accounts

(* The answer hands in one row of the awaited agent, with the run recorded. *)
Brings(c, row) ==
    /\ InsertHandoff(row)
    /\ IsOfNewRun(row, calls[c].lead, calls[c].agent)
    /\ \E status \in {"ended", "failed"} :
          RecordRun(calls[c].lead, calls[c].agent, status)
    /\ \/ BringsFailure(c, row) \/ BringsStep(c, row)
       \/ BringsQuestion(c, row) \/ BringsDraft(c, row)

(* Or nothing, when something throws on the way, with the run recorded when *)
(* it is the write of orchestrator or followup that the tables refuse.      *)
BringsNothing(c) ==
    /\ Return(c)
    /\ UNCHANGED <<leads, accounts, opps, activities, handoffs>>
    /\ \/ UNCHANGED runs
       \/ /\ calls[c].agent \in {"orchestrator", "followup"}
          /\ RecordRun(calls[c].lead, calls[c].agent, "ended")

LEMMA SetLastActivityBanner ==
    ASSUME TypeOK, NEW l \in Leads, NEW text, SetLastActivity(l, text)
    PROVE  Banner(l, {text})
<1>1. leads[l] \in LeadRow
  BY DEF TypeOK
<1>2. [leads[l] EXCEPT !.lastActivity = text].lastActivity = text
  BY <1>1 DEF LeadRow
<1> QED
  BY <1>2 DEF TypeOK, SetLastActivity, Banner

LEMMA AnswerBusy ==
    ASSUME NEW c \in Calls, Answer(c)
    PROVE  calls[c] # Idle
  BY DEF Answer, RunnerThrows, AnswerUnusable, AnswerDenied, AnswerUnfit,
         AnswerOwner, AnswerStranger, AnswerDescription, AnswerProposal,
         AnswerAdvance, AnswerClose, AnswerActivity, AnswerTextless

LEMMA FailureBrought ==
    ASSUME TypeOK, NEW c \in Calls, calls[c] # Idle,
           NEW status \in {"ended", "failed"}, DispatchFails(c, status)
    PROVE  \E row \in HandoffRow : Brings(c, row)
<1> DEFINE row == Handoff(calls[c].lead, calls[c].agent, "failed")
<1>1. row \in HandoffRow
  BY BusySlot, HandoffType DEF HandoffStatuses
<1>2. /\ IsOfNewRun(row, calls[c].lead, calls[c].agent)
      /\ row.status = "failed" /\ row.kind = "none" /\ row.payload = "none"
  BY DEF Handoff, IsOfNewRun
<1>3. /\ InsertHandoff(row) /\ Return(c)
      /\ RecordRun(calls[c].lead, calls[c].agent, status)
      /\ UNCHANGED <<leads, accounts, opps, activities>>
  BY DEF DispatchFails
<1> HIDE DEF row
<1>4. Brings(c, row)
  BY <1>2, <1>3 DEF Brings, BringsFailure
<1> QED
  BY <1>1, <1>4

(* Every answer brings one row or nothing.                                  *)
LEMMA AnswerBrings ==
    ASSUME TypeOK, NEW c \in Calls, Answer(c)
    PROVE  BringsNothing(c) \/ \E row \in HandoffRow : Brings(c, row)
<1> DEFINE l == calls[c].lead
           agent == calls[c].agent
<1>0. calls[c] # Idle
  BY AnswerBusy
<1>1. l \in Leads /\ agent \in Agents /\ leads[l] \in LeadRow
  BY <1>0, BusySlot DEF TypeOK
<1>2. Len(runs) + 1 \in Nat
  BY DEF TypeOK
<1>3. CASE RunnerThrows(c) \/ AnswerStranger(c) \/ AnswerTextless(c)
  BY <1>3 DEF RunnerThrows, AnswerStranger, AnswerTextless, ApplyThrows,
              BringsNothing
<1>4. CASE AnswerUnusable(c) \/ AnswerDenied(c) \/ AnswerUnfit(c)
  BY <1>0, <1>4, FailureBrought DEF AnswerUnusable, AnswerDenied, AnswerUnfit
<1>5. CASE AnswerOwner(c)
  <2> DEFINE row == Handoff(l, "orchestrator", "effective")
  <2>1. /\ row \in HandoffRow /\ IsOfNewRun(row, l, agent)
        /\ row.status = "effective" /\ row.kind = "none" /\ row.payload = "none"
        /\ row.agent = "orchestrator" /\ row.lead = l
    BY <1>1, <1>5, HandoffType
       DEF AnswerOwner, Handoff, IsOfNewRun, HandoffStatuses
  <2>2. Banner(l, {"assigned", "filed"})
    <3>1. [leads[l] EXCEPT !.owned = TRUE,
                           !.lastActivity = "assigned"].lastActivity = "assigned"
      BY <1>1 DEF LeadRow
    <3>2. leads' = [leads EXCEPT ![l] = [leads[l] EXCEPT !.owned = TRUE,
                                               !.lastActivity = "assigned"]]
      BY <1>1, <1>5 DEF AnswerOwner, TypeOK
    <3> QED
      BY <1>1, <3>1, <3>2 DEF TypeOK, Banner
  <2>3. /\ InsertHandoff(row) /\ RecordRun(l, agent, "ended")
        /\ Continue(c, FromIntake(l)) /\ UNCHANGED <<accounts, activities>>
    BY <1>5 DEF AnswerOwner
  <2> HIDE DEF row
  <2>4. Brings(c, row)
    BY <2>1, <2>2, <2>3 DEF Brings, BringsStep
  <2> QED
    BY <2>1, <2>4
<1>6. CASE AnswerDescription(c)
  <2> DEFINE row == Handoff(l, "lead-intake", "effective")
  <2>1. /\ row \in HandoffRow /\ IsOfNewRun(row, l, agent)
        /\ row.status = "effective" /\ row.kind = "none" /\ row.payload = "none"
        /\ row.agent = "lead-intake" /\ row.lead = l
    BY <1>1, <1>6, HandoffType
       DEF AnswerDescription, Handoff, IsOfNewRun, HandoffStatuses
  <2>2. Banner(l, {"assigned", "filed"})
    <3>1. Banner(l, {"filed"})
      BY <1>1, <1>6, SetLastActivityBanner DEF AnswerDescription
    <3> QED
      BY <3>1 DEF Banner
  <2>3. /\ InsertHandoff(row) /\ RecordRun(l, agent, "ended")
        /\ Continue(c, FromPipeline(l)) /\ UNCHANGED <<accounts, activities>>
    BY <1>6 DEF AnswerDescription
  <2> HIDE DEF row
  <2>4. Brings(c, row)
    BY <2>1, <2>2, <2>3 DEF Brings, BringsStep
  <2> QED
    BY <2>1, <2>4
<1>7. CASE AnswerProposal(c)
  <2>1. PICK reply \in Replies \cap (ProposalReplies \ {"englishProposal"}) :
          InsertHandoff([Handoff(l, "pipeline", "pending") EXCEPT
                            !.kind = "confirm-convert",
                            !.payload = PayloadOf(reply)])
    BY <1>7 DEF AnswerProposal
  <2> DEFINE row == [Handoff(l, "pipeline", "pending") EXCEPT
                            !.kind = "confirm-convert",
                            !.payload = PayloadOf(reply)]
  <2>2. row \in HandoffRow
    BY <1>1, <1>2 DEF Handoff, HandoffRow, Agents, HandoffStatuses, HitlKinds,
                      Payloads, PayloadOf
  <2>3. /\ IsOfNewRun(row, l, agent)
        /\ row.status = "pending" /\ row.kind = "confirm-convert"
        /\ row.agent = "pipeline" /\ row.lead = l
    BY <1>7 DEF AnswerProposal, Handoff, IsOfNewRun
  <2>4. Banner(l, {"convertPending"})
    BY <1>1, <1>7, SetLastActivityBanner DEF AnswerProposal
  <2>5. /\ InsertHandoff(row) /\ RecordRun(l, agent, "ended")
        /\ Return(c) /\ UNCHANGED <<accounts, activities>>
    BY <1>7, <2>1 DEF AnswerProposal
  <2> HIDE DEF row
  <2>6. Brings(c, row)
    BY <2>3, <2>4, <2>5 DEF Brings, BringsQuestion
  <2> QED
    BY <2>2, <2>6
<1>8. CASE AnswerAdvance(c)
  <2> DEFINE row == Handoff(l, "pipeline", "effective")
  <2>1. /\ row \in HandoffRow /\ IsOfNewRun(row, l, agent)
        /\ row.status = "effective" /\ row.kind = "none" /\ row.payload = "none"
        /\ row.agent = "pipeline" /\ row.lead = l
    BY <1>1, <1>8, HandoffType
       DEF AnswerAdvance, Handoff, IsOfNewRun, HandoffStatuses
  <2>2. Banner(l, {"assigned", "filed"})
    BY <1>8 DEF AnswerAdvance, Banner
  <2>3. /\ InsertHandoff(row) /\ RecordRun(l, agent, "ended")
        /\ Return(c) /\ UNCHANGED <<accounts, activities>>
    BY <1>8 DEF AnswerAdvance
  <2> HIDE DEF row
  <2>4. Brings(c, row)
    BY <2>1, <2>2, <2>3 DEF Brings, BringsStep
  <2> QED
    BY <2>1, <2>4
<1>9. CASE AnswerClose(c)
  <2>1. PICK stage \in ClosedStages \cap Targets :
          InsertHandoff([Handoff(l, "pipeline", "pending") EXCEPT
                            !.kind = "confirm-win-loss", !.stage = stage])
    BY <1>9 DEF AnswerClose
  <2> DEFINE row == [Handoff(l, "pipeline", "pending") EXCEPT
                            !.kind = "confirm-win-loss", !.stage = stage]
  <2>2. row \in HandoffRow
    BY <1>1, <1>2 DEF Handoff, HandoffRow, Agents, HandoffStatuses, HitlKinds,
                      Payloads, Stages
  <2>3. /\ IsOfNewRun(row, l, agent)
        /\ row.status = "pending" /\ row.kind = "confirm-win-loss"
        /\ row.payload = "none"
        /\ row.agent = "pipeline" /\ row.lead = l
    BY <1>9 DEF AnswerClose, Handoff, IsOfNewRun
  <2>4. Banner(l, {})
    BY <1>9 DEF AnswerClose, Banner
  <2>5. /\ InsertHandoff(row) /\ RecordRun(l, agent, "ended")
        /\ Return(c)
        /\ UNCHANGED <<accounts, activities>>
    BY <1>9, <2>1 DEF AnswerClose
  <2> HIDE DEF row
  <2>6. Brings(c, row)
    BY <2>3, <2>4, <2>5 DEF Brings, BringsQuestion
  <2> QED
    BY <2>2, <2>6
<1>10. CASE AnswerActivity(c)
  <2> DEFINE row == [Handoff(l, "followup", "pending") EXCEPT
                            !.kind = "confirm-send"]
  <2>1. row \in HandoffRow
    BY <1>1, <1>2 DEF Handoff, HandoffRow, Agents, HandoffStatuses, HitlKinds,
                      Payloads
  <2>2. /\ IsOfNewRun(row, l, agent)
        /\ row.status = "pending" /\ row.kind = "confirm-send"
        /\ row.payload = "none"
        /\ row.agent = "followup" /\ row.lead = l
    BY <1>10 DEF AnswerActivity, Handoff, IsOfNewRun
  <2>3. Banner(l, {"sendPending"})
    BY <1>1, <1>10, SetLastActivityBanner DEF AnswerActivity
  <2>4. /\ InsertHandoff(row) /\ RecordRun(l, agent, "ended")
        /\ Return(c) /\ UNCHANGED accounts
        /\ activities' = Append(activities,
                            [lead |-> row.lead, effective |-> FALSE,
                             handoff |-> Len(handoffs) + 1])
    BY <1>10, <2>2 DEF AnswerActivity
  <2> HIDE DEF row
  <2>5. Brings(c, row)
    BY <2>2, <2>3, <2>4 DEF Brings, BringsDraft
  <2> QED
    BY <2>1, <2>5
<1> QED
  BY <1>3, <1>4, <1>5, <1>6, <1>7, <1>8, <1>9, <1>10 DEF Answer

(* Where the row goes that is inserted.                                     *)
LEMMA InsertedRow ==
    ASSUME TypeOK, NEW row \in HandoffRow, InsertHandoff(row)
    PROVE  /\ Len(handoffs') = Len(handoffs) + 1
           /\ DOMAIN handoffs' = DOMAIN handoffs \cup {Len(handoffs) + 1}
           /\ \A h \in DOMAIN handoffs : handoffs'[h] = handoffs[h]
           /\ handoffs'[Len(handoffs) + 1] = row
           /\ Len(handoffs) + 1 \notin DOMAIN handoffs
           /\ Len(handoffs) \in Nat
  BY AppendedRow DEF TypeOK, InsertHandoff

LEMMA InsertedHasEffective ==
    ASSUME TypeOK, NEW row \in HandoffRow, InsertHandoff(row), NEW l, NEW agent
    PROVE  HasEffective(l, agent)' <=>
              \/ HasEffective(l, agent)
              \/ row.lead = l /\ row.agent = agent /\ row.status = "effective"
  BY InsertedRow DEF HasEffective, Rows

LEMMA InsertedQueued ==
    ASSUME TypeOK, NEW row \in HandoffRow, InsertHandoff(row), NEW l,
           row.status # "pending" \/ row.lead # l
    PROVE  Queued(l)' = Queued(l)
<1>1. row.status # "running"
  BY DEF HandoffRow
<1> QED
  BY <1>1, InsertedRow DEF Queued, Rows

(* What a slot waits for after it went on.                                  *)
LEMMA Continued ==
    ASSUME TypeOK, NEW c \in Calls, calls[c] # Idle,
           NEW next \in Waiting \cup {Idle}, Continue(c, next)
    PROVE  /\ \A d \in Calls \ {c} : calls'[d] = calls[d]
           /\ next = Idle => calls'[c] = Idle
           /\ next # Idle => /\ calls'[c].lead = next.lead
                             /\ calls'[c].agent = next.agent
<1>1. \A d \in Calls \ {c} : calls'[d] = calls[d]
  BY DEF Continue, TypeOK
<1>2. CASE next = Idle
  BY <1>1, <1>2 DEF Continue, TypeOK
<1>3. CASE next # Idle
  <2>1. calls'[c] = [next EXCEPT !.stopped = calls[c].stopped]
    BY <1>3 DEF Continue, TypeOK
  <2> QED
    BY <1>1, <1>3, <2>1 DEF Waiting
<1> QED
  BY <1>2, <1>3

LEMMA Returned ==
    ASSUME TypeOK, NEW c \in Calls, Return(c)
    PROVE  calls'[c] = Idle /\ \A d \in Calls \ {c} : calls'[d] = calls[d]
  BY DEF Return, TypeOK

(* Rows changed in place leave their number.                                *)
LEMMA LenMapped ==
    ASSUME TypeOK, NEW l, ClearQueue(l)
    PROVE  Len(handoffs') = Len(handoffs) /\ DOMAIN handoffs' = DOMAIN handoffs
<1> DEFINE S == {handoffs'[h] : h \in DOMAIN handoffs}
<1>1. handoffs \in Seq(HandoffRow)
  BY DEF TypeOK
<1>2. handoffs' \in [1 .. Len(handoffs) -> S]
  BY <1>1 DEF ClearQueue
<1> QED
  BY <1>1, <1>2 DEF ClearQueue

(* What a stage change inserts: the row of a closing, for a person to       *)
(* decide; or nothing.                                                      *)
AsksToClose(l, row) ==
    /\ InsertHandoff(row)
    /\ IsOfNewRun(row, l, "pipeline")
    /\ row.status = "pending" /\ row.kind = "confirm-win-loss"
    /\ row.payload = "none"
    /\ RecordRun(l, "pipeline", "ended")
    /\ Banner(l, {"closePending"})
    /\ Queued(l) = {}
    /\ UNCHANGED <<opps, activities, calls>>

LEMMA AdvanceAsks ==
    ASSUME TypeOK, NEW l \in Leads, NEW stage \in Targets, NEW role,
           AdvanceStage(l, stage, role)
    PROVE  \/ UNCHANGED <<runs, handoffs>> /\ Banner(l, {"advanced"})
           \/ \E row \in HandoffRow : AsksToClose(l, row)
<1>1. CASE stage \in ClosedStages
  <2> DEFINE row == [Handoff(l, "pipeline", "pending") EXCEPT
                       !.kind = "confirm-win-loss", !.stage = stage]
  <2>1. /\ InsertHandoff(row) /\ RecordRun(l, "pipeline", "ended")
        /\ SetLastActivity(l, "closePending") /\ Queued(l) = {}
        /\ UNCHANGED <<opps, activities, calls>>
    BY <1>1, DisjointStages DEF AdvanceStage, SliceBusy
  <2>2. Len(runs) + 1 \in Nat
    BY DEF TypeOK
  <2>3. row \in HandoffRow
    BY <1>1, <2>2 DEF Handoff, HandoffRow, Agents, HandoffStatuses, HitlKinds,
                      Payloads, Stages
  <2>4. /\ IsOfNewRun(row, l, "pipeline")
        /\ row.status = "pending" /\ row.kind = "confirm-win-loss"
        /\ row.payload = "none"
    BY DEF Handoff, IsOfNewRun
  <2> HIDE DEF row
  <2> QED
    BY <2>1, <2>3, <2>4, SetLastActivityBanner DEF AsksToClose
<1>2. CASE stage \notin ClosedStages
  BY <1>2, SetLastActivityBanner DEF AdvanceStage
<1> QED
  BY <1>1, <1>2

-----------------------------------------------------------------------------
(* A failure stops its request                                              *)

(* The step adds no row and takes no waiting request to another agent.      *)
NoNewAgent ==
    /\ Len(handoffs') = Len(handoffs)
    /\ \A c \in InFlight : calls'[c] # Idle => calls'[c].agent = calls[c].agent

(* Or it adds one that no agent brought, and leaves the requests alone.     *)
AskedByPerson ==
    /\ Len(handoffs') = Len(handoffs) + 1
    /\ handoffs'[Len(handoffs')].status # "failed"
    /\ UNCHANGED calls

FailureStopped ==
    LET added == handoffs'[Len(handoffs')] IN
    /\ Len(handoffs') > Len(handoffs) /\ added.status = "failed" =>
         /\ UNCHANGED <<leads, accounts, opps, activities>>
         /\ \E c \in InFlight : calls'[c] = Idle
    /\ \A c \in InFlight :
         calls'[c] # Idle /\ calls'[c].agent # calls[c].agent =>
            /\ Len(handoffs') > Len(handoffs)
            /\ added.agent = calls[c].agent
            /\ added.lead = calls[c].lead
            /\ added.status = "effective"

LEMMA NoNewAgentStops == ASSUME TypeOK, NoNewAgent PROVE FailureStopped
<1>1. Len(handoffs) \in Nat
  BY DEF TypeOK
<1> QED
  BY <1>1 DEF NoNewAgent, FailureStopped

LEMMA AskedStops == ASSUME TypeOK, AskedByPerson PROVE FailureStopped
  BY DEF AskedByPerson, FailureStopped

LEMMA BringsStops ==
    ASSUME TypeOK, NEW c \in Calls, calls[c] # Idle,
           NEW row \in HandoffRow, Brings(c, row)
    PROVE  FailureStopped
<1>1. /\ Len(handoffs') > Len(handoffs)
      /\ handoffs'[Len(handoffs')] = row
      /\ row.lead = calls[c].lead /\ row.agent = calls[c].agent
  BY InsertedRow DEF Brings, IsOfNewRun
<1>2. CASE BringsFailure(c, row)
  BY <1>1, <1>2, Returned DEF BringsFailure, FailureStopped, InFlight
<1>3. CASE BringsStep(c, row)
  <2>1. row.lead \in Leads
    BY DEF HandoffRow
  <2>2. \A d \in Calls \ {c} : calls'[d] = calls[d]
    BY <1>3, <2>1, AwaitType, Continued, Returned DEF BringsStep
  <2> QED
    BY <1>1, <1>3, <2>2 DEF BringsStep, FailureStopped, InFlight
<1>4. CASE BringsQuestion(c, row) \/ BringsDraft(c, row)
  BY <1>1, <1>4, Returned
     DEF BringsQuestion, BringsDraft, FailureStopped, InFlight
<1> QED
  BY <1>2, <1>3, <1>4 DEF Brings

LEMMA StoppedAgents ==
    ASSUME TypeOK, NEW l, MarkStopped(l)
    PROVE  \A c \in InFlight : calls'[c].agent = calls[c].agent
<1> TAKE c \in InFlight
<1>1. c \in Calls /\ calls[c] \in Waiting
  BY BusySlot DEF InFlight
<1>2. [calls[c] EXCEPT !.stopped = TRUE].agent = calls[c].agent
  BY <1>1 DEF Waiting
<1> QED
  BY <1>1, <1>2 DEF MarkStopped

LEMMA NextFailureStops ==
    ASSUME TypeOK, [Next]_vars
    PROVE  FailureStopped
<1>1. ASSUME NEW c \in Calls, Answer(c) PROVE FailureStopped
  <2>1. CASE BringsNothing(c)
    <3>1. NoNewAgent
      BY <2>1, Returned DEF BringsNothing, NoNewAgent, InFlight
    <3> QED
      BY <3>1, NoNewAgentStops
  <2> QED
    BY <1>1, <2>1, AnswerBrings, AnswerBusy, BringsStops
<1>2. ASSUME NEW l, ClearQueue(l) PROVE FailureStopped
  <2>1. Len(handoffs') = Len(handoffs)
    BY <1>2, LenMapped DEF ClearQueue
  <2>2. NoNewAgent
    BY <1>2, <2>1, StoppedAgents DEF ClearQueue, NoNewAgent
  <2> QED
    BY <2>2, NoNewAgentStops
<1>3. ASSUME NEW c \in Calls, NEW l, NEW role, Ingest(c, l, role)
      PROVE  FailureStopped
  <2>1. NoNewAgent
    BY <1>3 DEF Ingest, NoNewAgent, InFlight, TypeOK
  <2> QED
    BY <2>1, NoNewAgentStops
<1>4. ASSUME NEW l \in Leads, NEW stage \in Targets, NEW role,
             AdvanceStage(l, stage, role)
      PROVE  FailureStopped
  <2>1. UNCHANGED calls
    BY <1>4 DEF AdvanceStage
  <2>2. CASE UNCHANGED handoffs
    BY <2>1, <2>2, NoNewAgentStops DEF NoNewAgent
  <2>3. ASSUME NEW row \in HandoffRow, AsksToClose(l, row)
        PROVE  FailureStopped
    BY <2>1, <2>3, InsertedRow, AskedStops DEF AsksToClose, AskedByPerson
  <2> QED
    BY <1>4, <2>2, <2>3, AdvanceAsks
<1>5. ASSUME NEW role, NEW h \in DOMAIN handoffs, Decide(h, role)
      PROVE  FailureStopped
  <2>1. Len(handoffs') = Len(handoffs)
    BY <1>5 DEF Decide, ConfirmConvert, ConfirmConvertThrows, ConfirmSend,
                ConfirmWinLoss, Reject, MarkDone
  <2>2. ASSUME NEW c \in Calls, ConfirmConvert(c, h, role) PROVE NoNewAgent
    BY <2>1, <2>2 DEF ConfirmConvert, NoNewAgent, InFlight, TypeOK
  <2>3. CASE Reject(h, role)
    BY <2>1, <2>3, StoppedAgents, NoNewAgentStops DEF Reject, NoNewAgent
  <2>4. CASE \/ ConfirmConvertThrows(h, role) \/ ConfirmSend(h, role)
             \/ ConfirmWinLoss(h, role)
    BY <2>1, <2>4, NoNewAgentStops
       DEF ConfirmConvertThrows, ConfirmSend, ConfirmWinLoss, NoNewAgent
  <2> QED
    BY <1>5, <2>2, <2>3, <2>4, NoNewAgentStops DEF Decide
<1>6. CASE Crash \/ UNCHANGED vars
  BY <1>6, NoNewAgentStops DEF Crash, vars, NoNewAgent, InFlight
<1> QED
  BY <1>1, <1>2, <1>3, <1>4, <1>5, <1>6 DEF Next, AbortLead, AbortRun

(* A failed handoff ends its request and comes with no business write, and  *)
(* a request reaches its next agent only over an effective handoff of the   *)
(* one before, for any answers and interleavings.                           *)
THEOREM FailuresStop == Spec => FailureStops
<1>1. TypeOK /\ [Next]_vars => [FailureStopped]_vars
  BY NextFailureStops
<1> QED
  BY <1>1, TypeCorrect, PTL DEF Spec, FailureStops, FailureStopped

-----------------------------------------------------------------------------
(* What a step does to the timeline                                         *)

(* No row is added, and no row takes effect.                                *)
Grants(h) ==
    /\ handoffs[h].status = "pending"
    /\ handoffs'[h].status = "effective"
    /\ \A i \in DOMAIN handoffs : i # h => handoffs'[i] = handoffs[i]

NothingGranted ==
    \A h \in DOMAIN handoffs :
        handoffs'[h].status = "effective" => handoffs[h].status = "effective"

(* One pending row takes effect, with what it is about: a conversion, a     *)
(* send, or the closing of an opportunity.                                  *)
GrantsEffect(h, role) ==
    /\ MarkDone(h, role)
    /\ Grants(h)
    /\ \/ \E c \in Calls : ConfirmConvert(c, h, role)
       \/ ConfirmSend(h, role)
       \/ ConfirmWinLoss(h, role)

LEMMA MarkDoneGrants ==
    ASSUME TypeOK, NEW h \in DOMAIN handoffs, NEW role, MarkDone(h, role),
           handoffs[h].status = "pending"
    PROVE  Grants(h)
<1>1. handoffs[h] \in HandoffRow
  BY DEF TypeOK
<1>2. handoffs'[h] = [handoffs[h] EXCEPT !.status = "effective",
                                         !.decidedBy = role]
  BY DEF MarkDone
<1>3. handoffs'[h].status = "effective"
  BY <1>1, <1>2 DEF HandoffRow
<1> QED
  BY <1>3 DEF Grants, MarkDone

LEMMA RejectedNotGranted ==
    ASSUME TypeOK, NEW h \in DOMAIN handoffs, NEW role, Reject(h, role)
    PROVE  NothingGranted
<1>1. handoffs[h] \in HandoffRow
  BY DEF TypeOK
<1>2. handoffs'[h] = [handoffs[h] EXCEPT !.status = "rejected",
                                         !.decidedBy = role]
  BY DEF Reject
<1>3. handoffs'[h].status = "rejected"
  BY <1>1, <1>2 DEF HandoffRow
<1> QED
  BY <1>3 DEF Reject, NothingGranted

LEMMA ClearedNotGranted ==
    ASSUME TypeOK, NEW l, ClearQueue(l)
    PROVE  NothingGranted
<1> SUFFICES ASSUME NEW h \in DOMAIN handoffs, h \in Queued(l)
             PROVE  handoffs'[h].status # "effective"
  BY DEF ClearQueue, NothingGranted
<1>1. handoffs[h] \in HandoffRow
  BY DEF TypeOK
<1>2. handoffs'[h] = [handoffs[h] EXCEPT !.status = "aborted"]
  BY DEF ClearQueue
<1>3. handoffs'[h].status = "aborted"
  BY <1>1, <1>2 DEF HandoffRow
<1> QED
  BY <1>3

(* No row is added or takes effect, and nothing else takes effect.          *)
Keeps ==
    /\ DOMAIN handoffs' = DOMAIN handoffs
    /\ NothingGranted
    /\ SameObjects
    /\ UNCHANGED activities

LEMMA DecisionTimeline ==
    ASSUME TypeOK, NEW h \in DOMAIN handoffs, NEW role \in Roles,
           Decide(h, role)
    PROVE  /\ DOMAIN handoffs' = DOMAIN handoffs
           /\ \/ NothingGranted /\ UNCHANGED activities
              \/ GrantsEffect(h, role)
<1>1. CASE ConfirmConvertThrows(h, role)
  BY <1>1 DEF ConfirmConvertThrows, NothingGranted
<1>2. CASE Reject(h, role)
  BY <1>2, RejectedNotGranted DEF Reject
<1>3. CASE \/ \E c \in Calls : ConfirmConvert(c, h, role)
           \/ ConfirmSend(h, role) \/ ConfirmWinLoss(h, role)
  <2>1. MarkDone(h, role) /\ handoffs[h].status = "pending"
    BY <1>3 DEF ConfirmConvert, ConfirmSend, ConfirmWinLoss, MayDecide
  <2>2. DOMAIN handoffs' = DOMAIN handoffs
    BY <2>1 DEF MarkDone
  <2> QED
    BY <1>3, <2>1, <2>2, MarkDoneGrants DEF GrantsEffect
<1> QED
  BY <1>1, <1>2, <1>3 DEF Decide

(* Every step leaves the timeline its length and grants nothing, or grants  *)
(* one row, or adds one, brought by an agent or asked for by a person.      *)
LEMMA NextTimeline ==
    ASSUME TypeOK, [Next]_vars
    PROVE  \/ Keeps
           \/ /\ DOMAIN handoffs' = DOMAIN handoffs
              /\ \E h \in DOMAIN handoffs, role \in Roles : GrantsEffect(h, role)
           \/ \E c \in Calls, row \in HandoffRow :
                 /\ calls[c] # Idle /\ Brings(c, row) /\ SameObjects
           \/ \E l \in Leads, row \in HandoffRow :
                 AsksToClose(l, row) /\ HasOpportunity(l) /\ SameObjects
<1> DEFINE Quiet == /\ DOMAIN handoffs' = DOMAIN handoffs
                    /\ NothingGranted
                    /\ UNCHANGED activities
<1>0. UNCHANGED <<handoffs, activities>> => Quiet
  BY DEF NothingGranted
<1>1. CASE \E c \in Calls : Answer(c)
  BY <1>1, <1>0, AnswerBrings, AnswerBusy, AnswerSameObjects
     DEF BringsNothing, Keeps
<1>2. ASSUME NEW l, ClearQueue(l) PROVE Quiet
  BY <1>2, LenMapped, ClearedNotGranted DEF ClearQueue
<1>3. ASSUME NEW c, NEW l, NEW role, Ingest(c, l, role) PROVE Quiet
  BY <1>0, <1>3 DEF Ingest
<1>4. ASSUME NEW l \in Leads, NEW stage \in Targets, NEW role,
             AdvanceStage(l, stage, role)
      PROVE  \/ Quiet
             \/ \E row \in HandoffRow :
                   AsksToClose(l, row) /\ HasOpportunity(l) /\ SameObjects
  <2>1. HasOpportunity(l) /\ UNCHANGED <<accounts, activities>>
    BY <1>4 DEF AdvanceStage
  <2>2. \A k \in Leads : leads'[k].status = leads[k].status
    BY <1>4, SetLastActivityKeeps DEF AdvanceStage
  <2>3. \A row : AsksToClose(l, row) => SameObjects
    BY <2>1, <2>2 DEF AsksToClose, SameObjects
  <2> QED
    BY <1>0, <1>4, <2>1, <2>3, AdvanceAsks
<1>5. ASSUME NEW role \in Roles, NEW h \in DOMAIN handoffs, Decide(h, role)
      PROVE  \/ Quiet
             \/ DOMAIN handoffs' = DOMAIN handoffs /\ GrantsEffect(h, role)
  BY <1>5, DecisionTimeline
<1>6. ASSUME Crash \/ UNCHANGED vars PROVE Quiet
  BY <1>0, <1>6 DEF Crash, vars
<1>7. ASSUME NEW c \in Calls, NEW h \in DOMAIN handoffs, NEW role \in Roles,
             Converts(c, h, role)
      PROVE  ~NothingGranted
  <2>1. MarkDone(h, role) /\ handoffs[h].status = "pending"
    BY <1>7 DEF Converts, ConfirmConvert, MayDecide
  <2> QED
    BY <2>1, MarkDoneGrants DEF Grants, NothingGranted
<1>8. Quiet => Keeps
  BY <1>7, NextObjects DEF Keeps
<1> HIDE DEF Quiet
<1> QED
  BY <1>1, <1>2, <1>3, <1>4, <1>5, <1>6, <1>8 DEF Next, AbortLead, AbortRun

(* What a row keeps when it is decided.                                     *)
LEMMA DecidedRow ==
    ASSUME TypeOK, RowsKept, NEW h \in DOMAIN handoffs
    PROVE  /\ handoffs'[h].lead = handoffs[h].lead
           /\ handoffs'[h].agent = handoffs[h].agent
           /\ handoffs'[h].kind = handoffs[h].kind
           /\ handoffs'[h].payload = handoffs[h].payload
           /\ handoffs'[h].run = handoffs[h].run
           /\ handoffs'[h].status = "pending" => handoffs[h].status = "pending"
           /\ handoffs'[h].status # "running"
<1>1. handoffs[h] \in HandoffRow
  BY DEF TypeOK
<1> QED
  BY <1>1 DEF RowsKept, HandoffRow

-----------------------------------------------------------------------------
(* What a refused or unfit answer leaves behind                             *)

LEMMA NextRunsVisible ==
    ASSUME TypeOK, RunsVisible, [Next]_vars
    PROVE  RunsVisible'
<1>0. RowsKept /\ RunsKept
  BY NextKeepsHistory
<1>9. \A h \in DOMAIN handoffs :
         h \in DOMAIN handoffs' /\ handoffs'[h].run = handoffs[h].run
  BY <1>0, DecidedRow DEF RowsKept
<1>1. ASSUME UNCHANGED runs PROVE RunsVisible'
  BY <1>1, <1>9 DEF RunsVisible
<1>2. ASSUME NEW row \in HandoffRow, NEW l, NEW agent, NEW status,
             InsertHandoff(row), IsOfNewRun(row, l, agent),
             RecordRun(l, agent, status)
      PROVE  RunsVisible'
  <2>1. DOMAIN runs' = DOMAIN runs \cup {Len(runs) + 1}
    BY <1>2 DEF RecordRun, TypeOK
  <2>2. \E h \in DOMAIN handoffs' : handoffs'[h].run = Len(runs) + 1
    BY <1>2, InsertedRow DEF IsOfNewRun
  <2> QED
    BY <1>0, <1>9, <2>1, <2>2 DEF RunsVisible, RunsKept
<1>3. ASSUME NEW c \in Calls, BringsNothing(c) PROVE RunsVisible'
  <2>1. ASSUME NEW l, NEW agent \in {"orchestrator", "followup"},
               RecordRun(l, agent, "ended")
        PROVE  RunsVisible'
    <3>1. DOMAIN runs' = DOMAIN runs \cup {Len(runs) + 1}
      BY <2>1 DEF RecordRun, TypeOK
    <3>2. /\ runs'[Len(runs) + 1].status = "ended"
          /\ runs'[Len(runs) + 1].agent = agent
      BY <2>1 DEF RecordRun, TypeOK
    <3> QED
      BY <1>0, <1>9, <3>1, <3>2 DEF RunsVisible, RunsKept
  <2> QED
    BY <1>1, <1>3, <2>1 DEF BringsNothing
<1>4. ASSUME NEW c \in Calls, Answer(c) PROVE RunsVisible'
  BY <1>2, <1>3, <1>4, AnswerBrings DEF Brings
<1>5. ASSUME NEW l \in Leads, NEW stage \in Targets, NEW role,
             AdvanceStage(l, stage, role)
      PROVE  RunsVisible'
  BY <1>1, <1>2, <1>5, AdvanceAsks DEF AsksToClose
<1>6. ASSUME NEW role, NEW h, Decide(h, role) PROVE UNCHANGED runs
  BY <1>6 DEF Decide, ConfirmConvert, ConfirmConvertThrows, ConfirmSend,
              ConfirmWinLoss, Reject
<1>7. ASSUME NEW c, NEW l, NEW role, Ingest(c, l, role) \/ ClearQueue(l)
      PROVE  UNCHANGED runs
  BY <1>7 DEF Ingest, ClearQueue
<1>8. CASE Crash \/ UNCHANGED vars
  BY <1>1, <1>8 DEF Crash, vars
<1> QED
  BY <1>1, <1>4, <1>5, <1>6, <1>7, <1>8 DEF Next, AbortLead, AbortRun

(* Every recorded run shows as a handoff, but the one whose own write the   *)
(* tables refused, for any answers, interleaving, number of requests,       *)
(* aborts and crashes (dispatch, applyJson, R1).                            *)
THEOREM RunsShow == Spec => []RunsVisible
<1>1. Init => RunsVisible
  BY DEF Init, RunsVisible
<1>2. TypeOK /\ RunsVisible /\ [Next]_vars => RunsVisible'
  BY NextRunsVisible
<1> QED
  BY <1>1, <1>2, TypeCorrect, PTL DEF Spec

(* Whom the kinds of handoff are from.                                      *)
KindsByAgent ==
    \A h \in DOMAIN handoffs :
        /\ handoffs[h].kind = "none" => handoffs[h].status # "pending"
        /\ handoffs[h].kind \in {"confirm-convert", "confirm-win-loss"}
              => handoffs[h].agent = "pipeline"
        /\ handoffs[h].kind = "confirm-send" => handoffs[h].agent = "followup"

LEMMA NextKindsByAgent ==
    ASSUME TypeOK, KindsByAgent, [Next]_vars
    PROVE  KindsByAgent'
<1>0. RowsKept
  BY NextKeepsHistory
<1>1. ASSUME NEW row \in HandoffRow, InsertHandoff(row),
             row.kind = "none" => row.status # "pending",
             row.kind \in {"confirm-convert", "confirm-win-loss"}
                => row.agent = "pipeline",
             row.kind = "confirm-send" => row.agent = "followup"
      PROVE  KindsByAgent'
  BY <1>1, InsertedRow DEF KindsByAgent
<1>2. DOMAIN handoffs' = DOMAIN handoffs => KindsByAgent'
  BY <1>0, DecidedRow DEF KindsByAgent
<1>3. ASSUME NEW c, NEW row \in HandoffRow, Brings(c, row) PROVE KindsByAgent'
  BY <1>1, <1>3 DEF Brings, BringsFailure, BringsStep, BringsQuestion,
                    BringsDraft
<1>4. ASSUME NEW l, NEW row \in HandoffRow, AsksToClose(l, row)
      PROVE  KindsByAgent'
  BY <1>1, <1>4 DEF AsksToClose, IsOfNewRun
<1> QED
  BY <1>2, <1>3, <1>4, NextTimeline DEF Keeps

LEMMA KindsInvariant == Spec => []KindsByAgent
<1>1. Init => KindsByAgent
  BY DEF Init, KindsByAgent
<1>2. TypeOK /\ KindsByAgent /\ [Next]_vars => KindsByAgent'
  BY NextKindsByAgent
<1> QED
  BY <1>1, <1>2, TypeCorrect, PTL DEF Spec

(* An effective conversion is of a converted lead.                          *)
ConversionsDone ==
    \A h \in DOMAIN handoffs :
        /\ handoffs[h].kind = "confirm-convert"
        /\ handoffs[h].status = "effective"
        => leads[handoffs[h].lead].status = "converted"

LEMMA NextConversionsDone ==
    ASSUME TypeOK, KindsByAgent, ConversionsDone, [Next]_vars
    PROVE  ConversionsDone'
<1>0. RowsKept
  BY NextKeepsHistory
<1>1. \A h \in DOMAIN handoffs : handoffs[h].lead \in Leads
  <2> TAKE h \in DOMAIN handoffs
  <2>1. handoffs[h] \in HandoffRow
    BY DEF TypeOK
  <2> QED
    BY <2>1 DEF HandoffRow
<1>2. \A h \in DOMAIN handoffs :
         leads[handoffs[h].lead].status = "converted" =>
            leads'[handoffs'[h].lead].status = "converted"
  BY <1>0, <1>1, ConvertedStays, DecidedRow
<1>3. ASSUME Keeps PROVE ConversionsDone'
  BY <1>0, <1>2, <1>3, DecidedRow DEF ConversionsDone, Keeps, NothingGranted
<1>4. ASSUME NEW h \in DOMAIN handoffs, NEW role \in Roles,
             DOMAIN handoffs' = DOMAIN handoffs, GrantsEffect(h, role)
      PROVE  ConversionsDone'
  <2>1. handoffs[h].kind = "confirm-convert" =>
           leads'[handoffs'[h].lead].status = "converted"
    <3>1. ASSUME NEW c \in Calls, ConfirmConvert(c, h, role)
          PROVE  leads'[handoffs[h].lead].status = "converted"
      BY <3>1, ConvertsObjects DEF Converts, ConfirmConvert, ApplyConvert
    <3>2. CASE ConfirmSend(h, role) \/ ConfirmWinLoss(h, role)
      BY <3>2 DEF ConfirmSend, ConfirmWinLoss, MayDecide
    <3> QED
      BY <1>0, <1>4, <3>1, <3>2, DecidedRow DEF GrantsEffect
  <2>2. \A i \in DOMAIN handoffs : i # h => handoffs'[i] = handoffs[i]
    BY <1>4 DEF GrantsEffect, Grants
  <2> QED
    BY <1>0, <1>2, <1>4, <2>1, <2>2, DecidedRow DEF ConversionsDone
<1>5. ASSUME NEW row \in HandoffRow, InsertHandoff(row),
             ~(row.kind = "confirm-convert" /\ row.status = "effective")
      PROVE  ConversionsDone'
  BY <1>2, <1>5, InsertedRow DEF ConversionsDone
<1>6. ASSUME NEW c \in Calls, NEW row \in HandoffRow, Brings(c, row)
      PROVE  ConversionsDone'
  BY <1>5, <1>6 DEF Brings, BringsFailure, BringsStep, BringsQuestion,
                    BringsDraft
<1>7. ASSUME NEW l \in Leads, NEW row \in HandoffRow, AsksToClose(l, row)
      PROVE  ConversionsDone'
  BY <1>5, <1>7 DEF AsksToClose
<1> QED
  BY <1>3, <1>4, <1>6, <1>7, NextTimeline

LEMMA ConversionsInvariant == Spec => []ConversionsDone
<1>1. Init => ConversionsDone
  BY DEF Init, ConversionsDone
<1>2. TypeOK /\ KindsByAgent /\ ConversionsDone /\ [Next]_vars
      => ConversionsDone'
  BY NextConversionsDone
<1> QED
  BY <1>1, <1>2, TypeCorrect, KindsInvariant, PTL DEF Spec

(* Whatever pipeline answers, a lead that is not converted can be proposed  *)
(* for conversion again unless pipeline moved or closed its stage: no other *)
(* pipeline handoff of it is effective (Q1, applyJson).                     *)
THEOREM ProposalsStayOpen == Spec => []ProposalStaysOpen
<1>1. TypeOK /\ KindsByAgent /\ ConversionsDone => ProposalStaysOpen
  <2> SUFFICES ASSUME TypeOK, KindsByAgent, ConversionsDone,
                      NEW l \in Leads, NEW h \in Rows(l),
                      leads[l].status = "new",
                      handoffs[h].agent = "pipeline",
                      handoffs[h].status = "effective"
               PROVE  handoffs[h].kind \in {"none", "confirm-win-loss"}
    BY DEF ProposalStaysOpen
  <2>1. handoffs[h] \in HandoffRow /\ handoffs[h].lead = l
    BY DEF Rows, TypeOK
  <2>2. handoffs[h].kind # "confirm-send"
    BY DEF Rows, KindsByAgent
  <2>3. handoffs[h].kind # "confirm-convert"
    BY <2>1 DEF Rows, ConversionsDone
  <2> QED
    BY <2>1, <2>2, <2>3 DEF HandoffRow, HitlKinds
<1> QED
  BY <1>1, TypeCorrect, KindsInvariant, ConversionsInvariant, PTL

LEMMA NextNothingBeforeConversion ==
    ASSUME TypeOK, NothingBeforeConversion, [Next]_vars, ConversionsDone'
    PROVE  NothingBeforeConversion'
<1>0. RowsKept
  BY NextKeepsHistory
<1>1. ASSUME NEW l \in Leads, leads'[l].status = "new"
      PROVE  leads[l].status = "new"
  <2>1. leads[l] \in LeadRow
    BY DEF TypeOK
  <2> QED
    BY <1>1, <2>1, ConvertedStays DEF LeadRow
<1>2. ASSUME NEW l \in accounts, leads'[l].status = "new"
      PROVE  \E h \in Rows(l)' : /\ handoffs'[h].kind = "confirm-convert"
                                 /\ handoffs'[h].payload = "untitled"
                                 /\ handoffs'[h].status # "effective"
  <2>1. l \in Leads
    BY DEF TypeOK
  <2>2. PICK h \in Rows(l) : /\ handoffs[h].kind = "confirm-convert"
                             /\ handoffs[h].payload = "untitled"
    BY <1>1, <1>2, <2>1 DEF NothingBeforeConversion
  <2>3. h \in DOMAIN handoffs /\ h \in Rows(l)'
    BY <1>0, DecidedRow DEF Rows, RowsKept
  <2>4. /\ handoffs'[h].kind = "confirm-convert"
        /\ handoffs'[h].payload = "untitled"
        /\ handoffs'[h].lead = l
    BY <1>0, <2>2, <2>3, DecidedRow DEF Rows
  <2>5. handoffs'[h].status # "effective"
    BY <1>2, <2>3, <2>4 DEF ConversionsDone, Rows
  <2> QED
    BY <2>3, <2>4, <2>5
<1>3. ASSUME \A l \in accounts' : leads'[l].status = "new" => l \in accounts
      PROVE  NothingBeforeConversion'
  BY <1>2, <1>3 DEF NothingBeforeConversion
<1>4. UNCHANGED accounts => NothingBeforeConversion'
  BY <1>3
<1>5. ASSUME NEW c \in Calls, Answer(c) PROVE UNCHANGED accounts
  BY <1>5 DEF Answer, RunnerThrows, AnswerUnusable, AnswerDenied, AnswerUnfit,
              AnswerOwner, AnswerStranger, AnswerDescription, AnswerProposal,
              AnswerAdvance, AnswerClose, AnswerActivity, AnswerTextless,
              ApplyThrows, DispatchFails
<1>6. ASSUME NEW role, NEW h \in DOMAIN handoffs, Decide(h, role)
      PROVE  NothingBeforeConversion'
  <2> DEFINE l == handoffs[h].lead
  <2>1. handoffs[h] \in HandoffRow
    BY DEF TypeOK
  <2>2. l \in Leads /\ leads[l] \in LeadRow
    BY <2>1 DEF HandoffRow, TypeOK
  <2>3. ASSUME ConfirmConvertThrows(h, role), l \notin accounts
        PROVE  NothingBeforeConversion'
    <3>1. handoffs[h].payload = "untitled" /\ handoffs[h].status = "pending"
          /\ handoffs[h].kind = "confirm-convert"
      BY <2>2, <2>3 DEF ConfirmConvertThrows, DraftComplete, Convertible,
                        MayDecide, LeadRow
    <3>2. accounts' = accounts \cup {l} /\ UNCHANGED handoffs
      BY <2>3 DEF ConfirmConvertThrows
    <3>3. h \in Rows(l)'
      BY <3>2 DEF Rows
    <3> QED
      BY <1>2, <3>1, <3>2, <3>3 DEF NothingBeforeConversion
  <2>4. ASSUME ConfirmConvertThrows(h, role), l \in accounts
        PROVE  UNCHANGED accounts
    BY <2>4 DEF ConfirmConvertThrows
  <2>5. ASSUME NEW c \in Calls, Converts(c, h, role)
        PROVE  NothingBeforeConversion'
    BY <1>3, <2>5, ConvertsObjects
  <2>6. ASSUME NEW c \in Calls, ConfirmConvert(c, h, role),
               ~Converts(c, h, role)
        PROVE  UNCHANGED accounts
    BY <2>6 DEF ConfirmConvert, Converts, ApplyConvert
  <2>7. CASE ConfirmSend(h, role) \/ ConfirmWinLoss(h, role) \/ Reject(h, role)
    BY <1>4, <2>7 DEF ConfirmSend, ConfirmWinLoss, Reject
  <2> QED
    BY <1>4, <1>6, <2>3, <2>4, <2>5, <2>6, <2>7 DEF Decide
<1>7. ASSUME NEW c, NEW l, NEW stage, NEW role,
             \/ Ingest(c, l, role) \/ ClearQueue(l)
             \/ AdvanceStage(l, stage, role)
      PROVE  UNCHANGED accounts
  BY <1>7 DEF Ingest, ClearQueue, AdvanceStage
<1>8. CASE Crash \/ UNCHANGED vars
  BY <1>4, <1>8 DEF Crash, vars
<1> QED
  BY <1>4, <1>5, <1>6, <1>7, <1>8 DEF Next, AbortLead, AbortRun

(* The account of a lead that is not converted is left by a proposal        *)
(* without a contact title, still on its timeline and never effective, for  *)
(* any answers, interleaving and roles (applyConvert).                      *)
THEOREM NoHalfConversion == Spec => []NothingBeforeConversion
<1>1. Init => NothingBeforeConversion
  <2> SUFFICES ASSUME Init PROVE \A l \in accounts : leads[l].status # "new"
    BY DEF NothingBeforeConversion
  <2>1. PICK seeded \in SUBSET Leads :
           /\ leads = [l \in Leads |->
                        [status |-> IF l \in seeded THEN "converted" ELSE "new",
                         owned |-> l \in seeded, lastActivity |-> "seed"]]
           /\ accounts = seeded
    BY DEF Init
  <2> QED
    BY <2>1
<1>2. /\ TypeOK /\ NothingBeforeConversion /\ [Next]_vars /\ ConversionsDone'
      => NothingBeforeConversion'
  BY NextNothingBeforeConversion
<1> QED
  BY <1>1, <1>2, TypeCorrect, ConversionsInvariant, PTL DEF Spec

-----------------------------------------------------------------------------
(* What holds when the console waits for each answer                        *)

SendRow(h) == handoffs[h].kind = "confirm-send"

(* While a request is out, nothing of its lead waits for a person, and what *)
(* it asks the agent for is not there yet.                                  *)
Undisturbed ==
    /\ \A c, d \in InFlight : c = d
    /\ \A c \in InFlight :
         LET l == calls[c].lead
             agent == calls[c].agent
         IN  /\ Queued(l) = {}
             /\ agent # "followup" => /\ leads[l].status = "new"
                                      /\ ~HasEffective(l, agent)
             /\ agent = "followup" => \A h \in Rows(l) : ~SendRow(h)

(* A conversion waits only on a new lead pipeline is not done with, a draft *)
(* comes only after pipeline.                                               *)
Progress ==
    \A h \in DOMAIN handoffs :
        LET l == handoffs[h].lead IN
        /\ handoffs[h].kind = "confirm-convert" /\ handoffs[h].status = "pending"
              => leads[l].status = "new" /\ ~HasEffective(l, "pipeline")
        /\ SendRow(h) => HasEffective(l, "pipeline")

(* Of a lead one row waits for a person, and one draft was ever asked for.  *)
OneAtATime ==
    \A h1, h2 \in DOMAIN handoffs :
        /\ handoffs[h1].lead = handoffs[h2].lead
        /\ \/ handoffs[h1].status = "pending" /\ handoffs[h2].status = "pending"
           \/ SendRow(h1) /\ SendRow(h2)
        => h1 = h2

(* An activity is of the draft it was inserted with.                        *)
DraftsOwned ==
    \A a \in DOMAIN activities :
        LET h == activities[a].handoff IN
        /\ h \in DOMAIN handoffs
        /\ SendRow(h)
        /\ handoffs[h].lead = activities[a].lead
        /\ activities[a].effective => handoffs[h].status = "effective"

TimelineInv == Progress /\ OneAtATime /\ DraftsOwned /\ EffectiveOnce

LockInv == TypeOK /\ AgentOrder /\ KindsByAgent /\ Undisturbed /\ TimelineInv

LEMMA RowOfLead ==
    ASSUME TypeOK, NEW h \in DOMAIN handoffs
    PROVE  /\ handoffs[h] \in HandoffRow
           /\ handoffs[h].lead \in Leads
           /\ handoffs[h].status # "running"
<1>1. handoffs[h] \in HandoffRow
  BY DEF TypeOK
<1> QED
  BY <1>1 DEF HandoffRow

LEMMA WaitingRows ==
    ASSUME TypeOK, NEW l
    PROVE  Queued(l) = {h \in Rows(l) : handoffs[h].status = "pending"}
  BY RowOfLead DEF Queued, Rows

(* Nothing takes effect: what is effective is what was.                     *)
LEMMA KeptEffective ==
    ASSUME TypeOK, RowsKept, DOMAIN handoffs' = DOMAIN handoffs,
           NothingGranted, NEW l, NEW agent
    PROVE  HasEffective(l, agent)' <=> HasEffective(l, agent)
  BY HasEffectiveStays, DecidedRow DEF NothingGranted, HasEffective, Rows

LEMMA KeepsTimelineInv ==
    ASSUME TypeOK, TimelineInv, RowsKept, Keeps
    PROVE  TimelineInv'
<1>1. \A h \in DOMAIN handoffs :
         /\ handoffs[h].lead \in Leads
         /\ handoffs'[h].lead = handoffs[h].lead
         /\ handoffs'[h].agent = handoffs[h].agent
         /\ handoffs'[h].kind = handoffs[h].kind
         /\ handoffs'[h].status = "pending" => handoffs[h].status = "pending"
         /\ handoffs'[h].status = "effective" <=> handoffs[h].status = "effective"
  BY RowOfLead, DecidedRow, EffectiveStays DEF Keeps, NothingGranted
<1>2. DOMAIN handoffs' = DOMAIN handoffs /\ UNCHANGED activities
  BY DEF Keeps
<1>3. Progress'
  BY <1>1, <1>2, KeptEffective
     DEF Keeps, SameObjects, TimelineInv, Progress, SendRow
<1>4. OneAtATime'
  BY <1>1, <1>2 DEF TimelineInv, OneAtATime, SendRow
<1>5. DraftsOwned'
  BY <1>1, <1>2 DEF TimelineInv, DraftsOwned, SendRow
<1>6. EffectiveOnce'
  BY <1>1, <1>2 DEF TimelineInv, EffectiveOnce, Rows
<1> QED
  BY <1>3, <1>4, <1>5, <1>6 DEF TimelineInv

LEMMA GrantsTimelineInv ==
    ASSUME TypeOK, TimelineInv, KindsByAgent, RowsKept,
           NEW h \in DOMAIN handoffs, NEW role \in Roles,
           DOMAIN handoffs' = DOMAIN handoffs, GrantsEffect(h, role)
    PROVE  TimelineInv'
<1> DEFINE l == handoffs[h].lead
<1>1. \A i \in DOMAIN handoffs :
         /\ handoffs[i].lead \in Leads
         /\ handoffs'[i].lead = handoffs[i].lead
         /\ handoffs'[i].agent = handoffs[i].agent
         /\ handoffs'[i].kind = handoffs[i].kind
  BY RowOfLead, DecidedRow
<1>2. /\ handoffs[h].status = "pending" /\ handoffs'[h].status = "effective"
      /\ \A i \in DOMAIN handoffs : i # h => handoffs'[i] = handoffs[i]
  BY DEF GrantsEffect, Grants
<1>3. \A k \in Leads \ {l} : leads'[k].status = leads[k].status
  <2>1. Decide(h, role)
    BY DEF GrantsEffect, Decide
  <2>2. SameObjects \/ \E c \in Calls : Converts(c, h, role)
    BY <2>1, DecisionObjects
  <2> QED
    BY <2>2, ConvertsObjects DEF SameObjects
<1>4. \A k, agent : k # l => (HasEffective(k, agent)' <=> HasEffective(k, agent))
  BY <1>1, <1>2 DEF HasEffective, Rows
<1>5. Progress'
  <2>1. \A i \in DOMAIN handoffs :
           handoffs'[i].status = "pending" => handoffs[i].lead # l
    BY <1>1, <1>2 DEF TimelineInv, OneAtATime
  <2> QED
    BY <1>1, <1>2, <1>3, <1>4, <2>1, HasEffectiveStays
       DEF TimelineInv, Progress, SendRow
<1>6. OneAtATime'
  BY <1>1, <1>2 DEF TimelineInv, OneAtATime, SendRow
<1>7. DraftsOwned'
  <2>1. CASE UNCHANGED activities
    BY <1>1, <1>2, <2>1 DEF TimelineInv, DraftsOwned, SendRow
  <2>2. CASE ConfirmSend(h, role)
    <3>1. SendRow(h)
      BY <2>2 DEF ConfirmSend, MayDecide, SendRow
    <3>2. \A a \in DOMAIN activities :
             activities[a].lead = l => activities[a].handoff = h
      BY <3>1 DEF TimelineInv, DraftsOwned, OneAtATime
    <3>3. DOMAIN activities' = DOMAIN activities
      BY <2>2 DEF ConfirmSend
    <3>4. \A a \in DOMAIN activities :
             /\ activities'[a].lead = activities[a].lead
             /\ activities'[a].handoff = activities[a].handoff
             /\ activities[a].lead # l => activities'[a] = activities[a]
      <4> TAKE a \in DOMAIN activities
      <4>1. activities[a] \in ActivityRow
        BY DEF TypeOK
      <4> QED
        BY <2>2, <4>1 DEF ConfirmSend, ActivityRow
    <3> QED
      BY <1>1, <1>2, <3>1, <3>2, <3>3, <3>4
         DEF TimelineInv, DraftsOwned, SendRow
  <2> QED
    BY <2>1, <2>2 DEF GrantsEffect, ConfirmConvert, ConfirmWinLoss
<1>8. EffectiveOnce'
  <2>1. ASSUME NEW i \in DOMAIN handoffs, i # h, handoffs[i].lead = l,
               handoffs[i].status = "effective",
               handoffs[i].agent = handoffs[h].agent,
               handoffs[i].kind = handoffs[h].kind,
               handoffs[h].kind \in {"none", "confirm-convert", "confirm-send"}
        PROVE  FALSE
    <3>1. CASE handoffs[h].kind = "none"
      BY <1>2, <3>1 DEF KindsByAgent
    <3>2. CASE handoffs[h].kind = "confirm-convert"
      BY <1>2, <2>1, <3>2
         DEF KindsByAgent, TimelineInv, Progress, HasEffective, Rows
    <3>3. CASE handoffs[h].kind = "confirm-send"
      BY <2>1, <3>3 DEF TimelineInv, OneAtATime, SendRow
    <3> QED
      BY <2>1, <3>1, <3>2, <3>3
  <2> QED
    BY <1>1, <1>2, <2>1 DEF TimelineInv, EffectiveOnce, Rows
<1> QED
  BY <1>5, <1>6, <1>7, <1>8 DEF TimelineInv

(* What a row added to the timeline leaves of it: the rows of its lead that *)
(* wait make room for it before.                                            *)
LEMMA InsertedTimelineInv ==
    ASSUME TypeOK, TimelineInv, KindsByAgent, SameObjects,
           NEW row \in HandoffRow, InsertHandoff(row),
           Queued(row.lead) = {},
           row.kind = "confirm-convert" /\ row.status = "pending" =>
              /\ leads[row.lead].status = "new"
              /\ ~HasEffective(row.lead, "pipeline"),
           row.kind = "confirm-send" =>
              /\ row.status = "pending"
              /\ HasEffective(row.lead, "pipeline")
              /\ \A h \in Rows(row.lead) : ~SendRow(h),
           row.status = "effective" =>
              row.kind = "none" /\ ~HasEffective(row.lead, row.agent)
    PROVE  Progress' /\ OneAtATime' /\ EffectiveOnce'
<1> DEFINE n == Len(handoffs) + 1
<1>1. /\ DOMAIN handoffs' = DOMAIN handoffs \cup {n}
      /\ \A h \in DOMAIN handoffs : handoffs'[h] = handoffs[h]
      /\ handoffs'[n] = row /\ n \notin DOMAIN handoffs
  BY InsertedRow
<1>2. \A h \in DOMAIN handoffs : handoffs[h].lead \in Leads
  BY RowOfLead
<1>3. row.lead \in Leads
  BY DEF HandoffRow
<1>4. \A h \in DOMAIN handoffs :
         handoffs[h].lead = row.lead => handoffs[h].status # "pending"
  BY WaitingRows DEF Rows
<1>5. \A l, agent :
         HasEffective(l, agent)' <=>
            \/ HasEffective(l, agent)
            \/ row.lead = l /\ row.agent = agent /\ row.status = "effective"
  BY InsertedHasEffective
<1> HIDE DEF n
<1>6. Progress'
  <2>1. ASSUME NEW h \in DOMAIN handoffs, NEW l, l = handoffs[h].lead
        PROVE  /\ handoffs[h].kind = "confirm-convert"
                  /\ handoffs[h].status = "pending" =>
                     leads'[l].status = "new" /\ ~HasEffective(l, "pipeline")'
               /\ handoffs[h].kind = "confirm-send" => HasEffective(l, "pipeline")'
    <3>1. /\ handoffs[h].kind = "confirm-convert" /\ handoffs[h].status = "pending"
                => leads[l].status = "new" /\ ~HasEffective(l, "pipeline")
          /\ handoffs[h].kind = "confirm-send" => HasEffective(l, "pipeline")
      BY <2>1 DEF TimelineInv, Progress, SendRow
    <3>2. leads'[l].status = leads[l].status
      BY <1>2, <2>1 DEF SameObjects
    <3> QED
      BY <1>4, <1>5, <2>1, <3>1, <3>2
  <2>2. /\ row.kind = "confirm-convert" /\ row.status = "pending" =>
              leads'[row.lead].status = "new" /\ ~HasEffective(row.lead, "pipeline")'
        /\ row.kind = "confirm-send" => HasEffective(row.lead, "pipeline")'
    BY <1>3, <1>5 DEF SameObjects
  <2> QED
    BY <1>1, <2>1, <2>2 DEF Progress, SendRow
<1>7. OneAtATime'
  BY <1>1, <1>4 DEF TimelineInv, OneAtATime, SendRow, Rows
<1>8. EffectiveOnce'
  BY <1>1 DEF TimelineInv, EffectiveOnce, HasEffective, Rows
<1> QED
  BY <1>6, <1>7, <1>8

LEMMA InsertedKeepsDrafts ==
    ASSUME TypeOK, DraftsOwned, NEW row \in HandoffRow, InsertHandoff(row),
           UNCHANGED activities
    PROVE  DraftsOwned'
  BY InsertedRow DEF DraftsOwned, SendRow

(* An answer comes to a lead nothing waits on, and is what was not there.   *)
LEMMA BringsTimelineInv ==
    ASSUME LockInv, SameObjects, NEW c \in Calls, calls[c] # Idle,
           NEW row \in HandoffRow, Brings(c, row)
    PROVE  TimelineInv'
<1> USE DEF LockInv
<1>1. /\ InsertHandoff(row)
      /\ row.lead = calls[c].lead /\ row.agent = calls[c].agent
  BY DEF Brings, IsOfNewRun
<1>2. c \in InFlight
  BY DEF InFlight
<1>3. Queued(row.lead) = {}
  BY <1>1, <1>2 DEF Undisturbed
<1>4. CASE BringsFailure(c, row)
  <2>1. Progress' /\ OneAtATime' /\ EffectiveOnce'
    BY <1>1, <1>3, <1>4, InsertedTimelineInv DEF BringsFailure
  <2>2. DraftsOwned'
    BY <1>1, <1>4, InsertedKeepsDrafts DEF BringsFailure, TimelineInv
  <2> QED
    BY <2>1, <2>2 DEF TimelineInv
<1>5. CASE BringsStep(c, row)
  <2>1. row.agent # "followup" /\ row.status = "effective" /\ row.kind = "none"
    BY <1>5 DEF BringsStep
  <2>2. ~HasEffective(row.lead, row.agent)
    BY <1>1, <1>2, <2>1 DEF Undisturbed
  <2>3. Progress' /\ OneAtATime' /\ EffectiveOnce'
    BY <1>1, <1>3, <2>1, <2>2, InsertedTimelineInv
  <2>4. DraftsOwned'
    BY <1>1, <1>5, InsertedKeepsDrafts DEF BringsStep, TimelineInv
  <2> QED
    BY <2>3, <2>4 DEF TimelineInv
<1>6. CASE BringsQuestion(c, row)
  <2>1. /\ row.agent = "pipeline" /\ row.status = "pending"
        /\ row.kind # "confirm-send"
    BY <1>6 DEF BringsQuestion
  <2>2. leads[row.lead].status = "new" /\ ~HasEffective(row.lead, "pipeline")
    BY <1>1, <1>2, <2>1 DEF Undisturbed
  <2>3. Progress' /\ OneAtATime' /\ EffectiveOnce'
    BY <1>1, <1>3, <2>1, <2>2, InsertedTimelineInv
  <2>4. DraftsOwned'
    BY <1>1, <1>6, InsertedKeepsDrafts DEF BringsQuestion, TimelineInv
  <2> QED
    BY <2>3, <2>4 DEF TimelineInv
<1>7. CASE BringsDraft(c, row)
  <2>1. /\ row.agent = "followup" /\ row.status = "pending"
        /\ row.kind = "confirm-send"
    BY <1>7 DEF BringsDraft
  <2>2. \A h \in Rows(row.lead) : ~SendRow(h)
    BY <1>1, <1>2, <2>1 DEF Undisturbed
  <2>3. HasEffective(row.lead, "pipeline")
    <3>1. ConvertConfirmed(row.lead)
      BY <1>1, <1>2, <2>1 DEF AgentOrder
    <3> QED
      BY <3>1 DEF ConvertConfirmed, KindsByAgent, HasEffective, Rows
  <2>4. Progress' /\ OneAtATime' /\ EffectiveOnce'
    BY <1>1, <1>3, <2>1, <2>2, <2>3, InsertedTimelineInv
  <2>5. DraftsOwned'
    <3> DEFINE draft == [lead |-> row.lead, effective |-> FALSE,
                         handoff |-> Len(handoffs) + 1]
    <3>1. Len(handoffs) + 1 \in Nat /\ row.lead \in Leads
      BY <1>1, InsertedRow DEF HandoffRow
    <3>2. draft \in ActivityRow
      BY <3>1 DEF ActivityRow
    <3>3. /\ DOMAIN activities' = DOMAIN activities \cup {Len(activities) + 1}
          /\ \A a \in DOMAIN activities : activities'[a] = activities[a]
          /\ activities'[Len(activities) + 1] = draft
      BY <1>7, <3>2, AppendedRow DEF BringsDraft, TypeOK
    <3> QED
      BY <1>1, <2>1, <3>3, InsertedRow DEF TimelineInv, DraftsOwned, SendRow
  <2> QED
    BY <2>4, <2>5 DEF TimelineInv
<1> QED
  BY <1>4, <1>5, <1>6, <1>7 DEF Brings

LEMMA NextTimelineInv ==
    ASSUME LockInv, [Next]_vars
    PROVE  TimelineInv'
<1> USE DEF LockInv
<1>0. RowsKept
  BY NextKeepsHistory
<1>1. ASSUME NEW l \in Leads, NEW row \in HandoffRow, AsksToClose(l, row),
             SameObjects
      PROVE  TimelineInv'
  <2>1. /\ InsertHandoff(row) /\ row.lead = l /\ Queued(l) = {}
        /\ row.kind = "confirm-win-loss" /\ row.status = "pending"
        /\ UNCHANGED activities
    BY <1>1 DEF AsksToClose, IsOfNewRun
  <2>2. Progress' /\ OneAtATime' /\ EffectiveOnce'
    BY <1>1, <2>1, InsertedTimelineInv
  <2>3. DraftsOwned'
    BY <2>1, InsertedKeepsDrafts DEF TimelineInv
  <2> QED
    BY <2>2, <2>3 DEF TimelineInv
<1> QED
  BY <1>0, <1>1, NextTimeline, KeepsTimelineInv, GrantsTimelineInv,
     BringsTimelineInv

(* The console is free: no request is out, and none is after the step, save *)
(* the one the step starts.                                                 *)
LEMMA Undisturbable == InFlight' = {} => Undisturbed'
  BY DEF Undisturbed

LEMMA FreeConsole ==
    ASSUME TypeOK, ConsoleLock, ConsoleFree
    PROVE  /\ \A c \in Calls : calls[c] = Idle
           /\ UNCHANGED calls => InFlight' = {}
           /\ \A l : MarkStopped(l) => InFlight' = {}
  BY DEF ConsoleFree, InFlight, MarkStopped

(* The step a request goes on to is not done.                               *)
LEMMA StepsLeft ==
    ASSUME NEW l
    PROVE  /\ FromPipeline(l) # Idle =>
                 /\ FromPipeline(l) = Await(l, "pipeline")
                 /\ ~HasEffective(l, "pipeline")
           /\ FromIntake(l) # Idle =>
                 \E agent \in {"lead-intake", "pipeline"} :
                    /\ FromIntake(l) = Await(l, agent)
                    /\ ~HasEffective(l, agent)
           /\ FromOrchestrator(l) # Idle =>
                 \E agent \in {"orchestrator", "lead-intake", "pipeline"} :
                    /\ FromOrchestrator(l) = Await(l, agent)
                    /\ ~HasEffective(l, agent)
  BY DEF FromPipeline, FromIntake, FromOrchestrator

(* An answer sends its request on to a step that is not done, or home.      *)
LEMMA BringsUndisturbed ==
    ASSUME LockInv, SameObjects, NEW c \in Calls, calls[c] # Idle,
           NEW row \in HandoffRow, Brings(c, row)
    PROVE  Undisturbed'
<1> USE DEF LockInv
<1>1. /\ InsertHandoff(row)
      /\ row.lead = calls[c].lead /\ row.agent = calls[c].agent
      /\ row.lead \in Leads
  BY DEF Brings, IsOfNewRun, HandoffRow
<1>2. InFlight = {c}
  BY DEF InFlight, Undisturbed
<1>3. \A d \in Calls \ {c} : calls[d] = Idle
  BY <1>2 DEF InFlight
<1>4. ASSUME Return(c) PROVE Undisturbed'
  <2>1. InFlight' = {}
    BY <1>3, <1>4, Returned DEF InFlight
  <2> QED
    BY <2>1, Undisturbable
<1>5. ASSUME row.status = "effective",
             NEW next \in Waiting \cup {Idle}, Continue(c, next),
             next # Idle =>
                \E agent \in {"lead-intake", "pipeline"} :
                   /\ row.agent # agent /\ row.agent # "followup"
                   /\ next = Await(row.lead, agent)
                   /\ ~HasEffective(row.lead, agent)
      PROVE  Undisturbed'
  <2>1. CASE next = Idle
    <3>1. InFlight' = {}
      BY <1>3, <1>5, <2>1, Continued DEF InFlight
    <3> QED
      BY <3>1, Undisturbable
  <2>2. CASE next # Idle
    <3>1. PICK agent \in {"lead-intake", "pipeline"} :
            /\ row.agent # agent /\ row.agent # "followup"
            /\ next = Await(row.lead, agent)
            /\ ~HasEffective(row.lead, agent)
      BY <1>5, <2>2
    <3>2. /\ InFlight' \subseteq {c}
          /\ calls'[c].lead = row.lead /\ calls'[c].agent = agent
      BY <1>3, <1>5, <2>2, <3>1, Continued, AwaitFields DEF InFlight
    <3>3. Queued(row.lead)' = {}
      BY <1>1, <1>2, <1>5, InsertedQueued DEF Undisturbed
    <3>4. leads'[row.lead].status = "new"
      BY <1>1, <1>2, <3>1 DEF Undisturbed, SameObjects
    <3>5. ~HasEffective(row.lead, agent)'
      BY <1>1, <3>1, InsertedHasEffective
    <3> QED
      BY <3>2, <3>3, <3>4, <3>5 DEF Undisturbed
  <2> QED
    BY <2>1, <2>2
<1>6. CASE BringsStep(c, row)
  <2>1. ASSUME row.agent = "orchestrator", Continue(c, FromIntake(row.lead))
        PROVE  Undisturbed'
    BY <1>1, <1>5, <1>6, <2>1, AwaitType, StepsLeft DEF BringsStep
  <2>2. ASSUME row.agent = "lead-intake", Continue(c, FromPipeline(row.lead))
        PROVE  Undisturbed'
    BY <1>1, <1>5, <1>6, <2>2, AwaitType, StepsLeft DEF BringsStep
  <2> QED
    BY <1>4, <1>6, <2>1, <2>2 DEF BringsStep
<1> QED
  BY <1>4, <1>6 DEF Brings, BringsFailure, BringsQuestion, BringsDraft

(* An ingest starts where nothing waits, at a step that is not done.        *)
LEMMA IngestUndisturbed ==
    ASSUME LockInv, ConsoleLock, NEW c \in Calls, NEW l \in Leads, NEW role,
           Ingest(c, l, role)
    PROVE  Undisturbed'
<1> USE DEF LockInv
<1>1. \A d \in Calls : calls[d] = Idle
  BY FreeConsole DEF Ingest
<1>2. /\ calls' = [calls EXCEPT ![c] = FromOrchestrator(l)]
      /\ leads[l].status = "new" /\ Queued(l) = {}
      /\ UNCHANGED <<leads, handoffs>>
  BY DEF Ingest, SliceBusy
<1>3. calls'[c] = FromOrchestrator(l) /\ InFlight' \subseteq {c}
  BY <1>1, <1>2 DEF TypeOK, InFlight
<1>4. CASE FromOrchestrator(l) = Idle
  BY <1>3, <1>4, Undisturbable DEF InFlight
<1>5. CASE FromOrchestrator(l) # Idle
  <2>1. PICK agent \in {"orchestrator", "lead-intake", "pipeline"} :
          calls'[c] = Await(l, agent) /\ ~HasEffective(l, agent)
    BY <1>3, <1>5, StepsLeft
  <2>2. calls'[c].lead = l /\ calls'[c].agent = agent
    BY <2>1, AwaitFields
  <2>3. Queued(l)' = {} /\ ~HasEffective(l, agent)' /\ leads'[l].status = "new"
    BY <1>2, <2>1 DEF Queued, HasEffective, Rows
  <2> QED
    BY <1>3, <2>1, <2>2, <2>3 DEF Undisturbed
<1> QED
  BY <1>4, <1>5

(* A confirmed conversion starts followup on a lead that has no draft yet   *)
(* and on which the confirmed row was the only one to wait.                 *)
LEMMA ConfirmUndisturbed ==
    ASSUME LockInv, ConsoleLock, NEW c \in Calls, NEW h \in DOMAIN handoffs,
           NEW role, ConfirmConvert(c, h, role)
    PROVE  Undisturbed'
<1> USE DEF LockInv
<1> DEFINE l == handoffs[h].lead
<1>1. \A d \in Calls : calls[d] = Idle
  BY FreeConsole DEF ConfirmConvert
<1>2. /\ calls' = [calls EXCEPT ![c] = Await(l, "followup")]
      /\ MarkDone(h, role)
      /\ handoffs[h].status = "pending" /\ handoffs[h].kind = "confirm-convert"
  BY DEF ConfirmConvert, MayDecide
<1>3. /\ InFlight' \subseteq {c}
      /\ calls'[c].lead = l /\ calls'[c].agent = "followup"
  BY <1>1, <1>2, AwaitFields DEF TypeOK, InFlight
<1>4. RowsKept /\ DOMAIN handoffs' = DOMAIN handoffs
  BY <1>2, DecisionKeepsHistory DEF Decide, MarkDone
<1>5. \A i \in DOMAIN handoffs :
         /\ handoffs'[i].lead = handoffs[i].lead
         /\ handoffs'[i].kind = handoffs[i].kind
         /\ handoffs'[i].status # "running"
         /\ handoffs'[i].status = "pending" => handoffs[i].status = "pending"
  BY <1>4, DecidedRow
<1>6. handoffs'[h].status = "effective"
  BY <1>2, MarkDoneGrants DEF Grants
<1>7. \A i \in DOMAIN handoffs :
         handoffs'[i].lead = l => handoffs'[i].status # "pending"
  BY <1>2, <1>5, <1>6 DEF TimelineInv, OneAtATime
<1>8. \A i \in DOMAIN handoffs : handoffs[i].lead = l => ~SendRow(i)
  BY <1>2 DEF TimelineInv, Progress
<1>9. ASSUME NEW k, k = calls'[c].lead
      PROVE  Queued(k)' = {} /\ \A i \in Rows(k)' : ~SendRow(i)'
  BY <1>3, <1>4, <1>5, <1>7, <1>8, <1>9 DEF Queued, Rows, SendRow
<1> QED
  BY <1>3, <1>9 DEF Undisturbed

LEMMA NextUndisturbed ==
    ASSUME LockInv, ConsoleLock, [Next]_vars
    PROVE  Undisturbed'
<1> USE DEF LockInv
<1>1. ASSUME NEW c \in Calls, Answer(c) PROVE Undisturbed'
  <2>1. calls[c] # Idle /\ SameObjects
    BY <1>1, AnswerBusy, AnswerSameObjects
  <2>2. CASE BringsNothing(c)
    <3>1. InFlight' = {}
      BY <2>1, <2>2, Returned DEF BringsNothing, InFlight, Undisturbed
    <3> QED
      BY <3>1, Undisturbable
  <2> QED
    BY <1>1, <2>1, <2>2, AnswerBrings, BringsUndisturbed
<1>2. ASSUME ConsoleFree, UNCHANGED calls PROVE Undisturbed'
  BY <1>2, FreeConsole, Undisturbable
<1>3. ASSUME ConsoleFree, NEW l, MarkStopped(l) PROVE Undisturbed'
  BY <1>3, FreeConsole, Undisturbable
<1>4. ASSUME NEW l, NEW role, NEW stage, AdvanceStage(l, stage, role)
      PROVE  Undisturbed'
  BY <1>2, <1>4 DEF AdvanceStage
<1>5. ASSUME NEW l, ConsoleFree, ClearQueue(l) PROVE Undisturbed'
  BY <1>3, <1>5 DEF ClearQueue
<1>6. ASSUME NEW h \in DOMAIN handoffs, NEW role, Decide(h, role)
      PROVE  Undisturbed'
  <2>1. CASE \/ ConfirmConvertThrows(h, role) \/ ConfirmSend(h, role)
             \/ ConfirmWinLoss(h, role)
    BY <1>2, <2>1 DEF ConfirmConvertThrows, ConfirmSend, ConfirmWinLoss
  <2>2. CASE Reject(h, role)
    BY <1>3, <2>2 DEF Reject
  <2> QED
    BY <1>6, <2>1, <2>2, ConfirmUndisturbed DEF Decide
<1>7. CASE Crash
  BY <1>7, Undisturbable DEF Crash, InFlight
<1>8. CASE UNCHANGED vars
  BY <1>8 DEF vars, Undisturbed, InFlight, Queued, Rows, HasEffective, SendRow
<1> QED
  BY <1>1, <1>4, <1>5, <1>6, <1>7, <1>8, IngestUndisturbed
     DEF Next, AbortLead, AbortRun

-----------------------------------------------------------------------------
(* The banners while the console waits                                      *)

(* A row of that kind waits; the banner of k tells of nothing that is not.  *)
PendingOf(k, kind) ==
    \E h \in Rows(k) : handoffs[h].kind = kind /\ handoffs[h].status = "pending"

Truthful(k) ==
    LET text == leads[k].lastActivity IN
    /\ text = "convertPending" => PendingOf(k, "confirm-convert")
    /\ text = "sendPending" => PendingOf(k, "confirm-send")
    /\ text = "closePending" => PendingOf(k, "confirm-win-loss")

LEMMA BannersTruthful ==
    ASSUME TypeOK
    PROVE  BannerTrue <=> \A k \in Leads : Truthful(k)
<1>1. \A k, kind :
         (\E h \in Queued(k) : handoffs[h].kind = kind) <=> PendingOf(k, kind)
  BY WaitingRows DEF PendingOf
<1> QED
  BY <1>1 DEF BannerTrue, Truthful

(* A step that leaves the banner and what waits leaves it truthful.         *)
LEMMA TruthfulKept ==
    ASSUME RowsKept, TypeOK, NEW k \in Leads, Truthful(k),
           leads'[k].lastActivity = leads[k].lastActivity,
           \A h \in Rows(k) :
              handoffs[h].status = "pending" => handoffs'[h] = handoffs[h]
    PROVE  Truthful(k)'
<1>1. ASSUME NEW kind, PendingOf(k, kind) PROVE PendingOf(k, kind)'
  <2>1. PICK h \in Rows(k) :
          handoffs[h].kind = kind /\ handoffs[h].status = "pending"
    BY <1>1 DEF PendingOf
  <2>2. h \in DOMAIN handoffs' /\ handoffs'[h] = handoffs[h]
    BY <2>1 DEF RowsKept, Rows
  <2> QED
    BY <2>1, <2>2 DEF PendingOf, Rows
<1> QED
  BY <1>1 DEF Truthful

LEMMA QuietTruthful ==
    ASSUME NEW k \in Leads,
           leads'[k].lastActivity \notin
              {"convertPending", "sendPending", "closePending"}
    PROVE  Truthful(k)'
  BY DEF Truthful

(* SetLastActivity is heard.                                                *)
LEMMA SetLastActivitySays ==
    ASSUME TypeOK, NEW l \in Leads, NEW text, SetLastActivity(l, text)
    PROVE  /\ leads'[l].lastActivity = text
           /\ \A k \in Leads \ {l} : leads'[k] = leads[k]
<1>1. leads[l] \in LeadRow
  BY DEF TypeOK
<1>2. leads'[l] = [leads[l] EXCEPT !.lastActivity = text]
  BY DEF TypeOK, SetLastActivity
<1>3. leads'[l].lastActivity = text
  BY <1>1, <1>2 DEF LeadRow
<1> QED
  BY <1>3 DEF TypeOK, SetLastActivity

(* A row added for a lead whose banner it announces, or which stays.        *)
LEMMA InsertedTruthful ==
    ASSUME TypeOK, BannerTrue, NEW row \in HandoffRow, InsertHandoff(row),
           NEW texts, Banner(row.lead, texts),
           \A text \in texts :
              /\ text = "convertPending" => row.kind = "confirm-convert"
              /\ text = "sendPending" => row.kind = "confirm-send"
              /\ text = "closePending" => row.kind = "confirm-win-loss",
           row.kind # "none" => row.status = "pending"
    PROVE  \A k \in Leads : Truthful(k)'
<1> TAKE k \in Leads
<1>0. Truthful(k)
  BY BannersTruthful
<1>1. /\ \A h \in DOMAIN handoffs : handoffs'[h] = handoffs[h]
      /\ Len(handoffs) + 1 \in DOMAIN handoffs'
      /\ handoffs'[Len(handoffs) + 1] = row
  BY InsertedRow
<1>2. CASE leads'[k].lastActivity = leads[k].lastActivity
  <2>1. RowsKept
    BY InsertKeepsRows
  <2> QED
    BY <1>0, <1>1, <1>2, <2>1, TruthfulKept DEF Rows
<1>3. CASE k = row.lead /\ leads'[k].lastActivity \in texts
  BY <1>1, <1>3 DEF Truthful, PendingOf, Rows
<1> QED
  BY <1>2, <1>3 DEF Banner

LEMMA BringsTruthful ==
    ASSUME TypeOK, BannerTrue, NEW c \in Calls, NEW row \in HandoffRow,
           Brings(c, row)
    PROVE  \A k \in Leads : Truthful(k)'
<1>1. InsertHandoff(row)
  BY DEF Brings
<1>2. CASE BringsFailure(c, row)
  <2>1. Banner(row.lead, {})
    BY <1>2 DEF BringsFailure, Banner
  <2> QED
    BY <1>1, <1>2, <2>1, InsertedTruthful DEF BringsFailure
<1>3. CASE BringsStep(c, row)
  BY <1>1, <1>3, InsertedTruthful DEF BringsStep
<1>4. CASE BringsQuestion(c, row)
  BY <1>1, <1>4, InsertedTruthful DEF BringsQuestion
<1>5. CASE BringsDraft(c, row)
  <2>1. /\ Banner(row.lead, {"sendPending"})
        /\ row.kind = "confirm-send" /\ row.status = "pending"
    BY <1>5 DEF BringsDraft
  <2> QED
    BY <1>1, <2>1, InsertedTruthful
<1> QED
  BY <1>2, <1>3, <1>4, <1>5 DEF Brings

(* A lead whose own banner the step turns to something else, the rows of    *)
(* the others being as they were.                                           *)
LEMMA TurnedTruthful ==
    ASSUME TypeOK, BannerTrue, RowsKept, NEW l \in Leads,
           leads'[l].lastActivity \notin
              {"convertPending", "sendPending", "closePending"},
           \A k \in Leads \ {l} :
              leads'[k].lastActivity = leads[k].lastActivity,
           \A h \in DOMAIN handoffs :
              handoffs[h].lead # l => handoffs'[h] = handoffs[h]
    PROVE  \A k \in Leads : Truthful(k)'
<1> TAKE k \in Leads
<1>1. CASE k = l
  BY <1>1, QuietTruthful
<1>2. CASE k # l
  BY <1>2, BannersTruthful, TruthfulKept DEF Rows
<1> QED
  BY <1>1, <1>2

LEMMA DecisionTruthful ==
    ASSUME LockInv, BannerTrue, RowsKept, NEW h \in DOMAIN handoffs, NEW role,
           Decide(h, role)
    PROVE  \A k \in Leads : Truthful(k)'
<1> USE DEF LockInv
<1> DEFINE l == handoffs[h].lead
<1>0. handoffs[h] \in HandoffRow /\ l \in Leads
  BY RowOfLead
<1>1. CASE ConfirmConvertThrows(h, role)
  BY <1>1, BannersTruthful, TruthfulKept DEF ConfirmConvertThrows
<1>2. ASSUME NEW text, SetLastActivity(l, text),
             text \notin {"convertPending", "sendPending", "closePending"},
             \A i \in DOMAIN handoffs : i # h => handoffs'[i] = handoffs[i]
      PROVE  \A k \in Leads : Truthful(k)'
  BY <1>0, <1>2, SetLastActivitySays, TurnedTruthful
<1>3. CASE ConfirmSend(h, role)
  BY <1>2, <1>3 DEF ConfirmSend, MarkDone
<1>4. CASE ConfirmWinLoss(h, role)
  <2>1. handoffs[h].stage \in ClosedStages
    BY <1>0, <1>4 DEF ConfirmWinLoss, MayDecide, HandoffRow
  <2>2. handoffs[h].stage \notin
           {"convertPending", "sendPending", "closePending"}
    BY <2>1 DEF ClosedStages
  <2> QED
    BY <1>2, <1>4, <2>2 DEF ConfirmWinLoss, MarkDone
<1>5. CASE Reject(h, role)
  BY <1>2, <1>5 DEF Reject
<1>6. ASSUME NEW c \in Calls, ConfirmConvert(c, h, role)
      PROVE  \A k \in Leads : Truthful(k)'
  <2>1. leads[l].status = "new"
    BY <1>6 DEF ConfirmConvert, MayDecide, TimelineInv, Progress
  <2>2. leads' = [leads EXCEPT ![l] =
                    [leads[l] EXCEPT !.status = "converted",
                                     !.lastActivity = "converted"]]
    BY <1>0, <1>6, <2>1 DEF ConfirmConvert, ApplyConvert, TypeOK
  <2>3. leads[l] \in LeadRow
    BY <1>0 DEF TypeOK
  <2>4. [leads[l] EXCEPT !.status = "converted",
                         !.lastActivity = "converted"].lastActivity = "converted"
    BY <2>3 DEF LeadRow
  <2>5. /\ leads'[l].lastActivity = "converted"
        /\ \A k \in Leads \ {l} : leads'[k] = leads[k]
    BY <1>0, <2>2, <2>4 DEF TypeOK
  <2>6. \A i \in DOMAIN handoffs : i # h => handoffs'[i] = handoffs[i]
    BY <1>6 DEF ConfirmConvert, MarkDone
  <2> HIDE DEF l
  <2>7. \A i \in DOMAIN handoffs :
           handoffs[i].lead # l => handoffs'[i] = handoffs[i]
    BY <2>6 DEF l
  <2> QED
    BY <1>0, <2>5, <2>7, TurnedTruthful
<1> QED
  BY <1>1, <1>3, <1>4, <1>5, <1>6 DEF Decide

LEMMA NextBannerTrue ==
    ASSUME LockInv, BannerTrue, [Next]_vars
    PROVE  BannerTrue'
<1> USE DEF LockInv
<1>0. RowsKept
  BY NextKeepsHistory
<1> SUFFICES \A k \in Leads : Truthful(k)'
  BY DEF BannerTrue, Truthful, PendingOf, Queued
<1>1. ASSUME UNCHANGED <<leads, handoffs>>
      PROVE  \A k \in Leads : Truthful(k)'
  BY <1>0, <1>1, BannersTruthful, TruthfulKept
<1>2. ASSUME NEW c \in Calls, Answer(c)
      PROVE  \A k \in Leads : Truthful(k)'
  BY <1>1, <1>2, AnswerBrings, BringsTruthful DEF BringsNothing
<1>3. ASSUME NEW l \in Leads, ClearQueue(l)
      PROVE  \A k \in Leads : Truthful(k)'
  <2>1. /\ leads'[l].lastActivity = "aborted"
        /\ \A k \in Leads \ {l} : leads'[k] = leads[k]
    BY <1>3, SetLastActivitySays DEF ClearQueue
  <2>2. \A h \in DOMAIN handoffs :
           handoffs[h].lead # l => handoffs'[h] = handoffs[h]
    BY <1>3 DEF ClearQueue, Queued, Rows
  <2> QED
    BY <1>0, <2>1, <2>2, TurnedTruthful
<1>4. ASSUME NEW c, NEW l, NEW role, Ingest(c, l, role)
      PROVE  UNCHANGED <<leads, handoffs>>
  BY <1>4 DEF Ingest
<1>5. ASSUME NEW l \in Leads, NEW stage \in Targets, NEW role,
             AdvanceStage(l, stage, role)
      PROVE  \A k \in Leads : Truthful(k)'
  <2>1. CASE UNCHANGED handoffs /\ Banner(l, {"advanced"})
    BY <1>0, <2>1, BannersTruthful, TruthfulKept, QuietTruthful DEF Banner
  <2>2. ASSUME NEW row \in HandoffRow, AsksToClose(l, row)
        PROVE  \A k \in Leads : Truthful(k)'
    <3>1. /\ InsertHandoff(row) /\ Banner(row.lead, {"closePending"})
          /\ row.kind = "confirm-win-loss" /\ row.status = "pending"
      BY <2>2 DEF AsksToClose, IsOfNewRun
    <3> QED
      BY <3>1, InsertedTruthful
  <2> QED
    BY <1>5, <2>1, <2>2, AdvanceAsks
<1>6. CASE Crash \/ UNCHANGED vars
  BY <1>1, <1>6 DEF Crash, vars
<1> QED
  BY <1>0, <1>1, <1>2, <1>3, <1>4, <1>5, <1>6, DecisionTruthful, RunLead
     DEF Next, AbortLead, AbortRun

-----------------------------------------------------------------------------
(* The properties of the console that waits                                 *)

LEMMA InitLockInv == Init => Undisturbed /\ TimelineInv /\ BannerTrue
<1> SUFFICES ASSUME Init PROVE Undisturbed /\ TimelineInv /\ BannerTrue
  OBVIOUS
<1>1. Undisturbed
  BY DEF Init, Undisturbed, InFlight
<1>2. TimelineInv
  BY DEF Init, TimelineInv, Progress, OneAtATime, DraftsOwned, EffectiveOnce,
         Rows
<1>3. BannerTrue
  BY DEF Init, BannerTrue
<1> QED
  BY <1>1, <1>2, <1>3

LEMMA LockInvariant ==
    ASSUME ConsoleLock
    PROVE  Spec => [](LockInv /\ BannerTrue)
<1>1. /\ TypeOK /\ AgentOrder /\ KindsByAgent /\ Undisturbed /\ TimelineInv
      /\ BannerTrue /\ [Next]_vars
      => Undisturbed' /\ TimelineInv' /\ BannerTrue'
  BY NextUndisturbed, NextTimelineInv, NextBannerTrue DEF LockInv
<1>2. TypeOK /\ AgentOrder /\ KindsByAgent /\ Undisturbed /\ TimelineInv
      => LockInv
  BY DEF LockInv
<1> QED
  BY <1>1, <1>2, InitLockInv, TypeCorrect, AgentsInOrder, KindsInvariant, PTL
     DEF Spec

(* With one console that waits for each answer, at most one handoff of a    *)
(* lead waits for a person: over any number of ingests, failed runs,        *)
(* rejections, aborts and restarts (sliceBusy).                             *)
THEOREM OneWaits ==
    ASSUME ConsoleLock
    PROVE  Spec => []OnePending
<1>1. ASSUME TypeOK, OneAtATime, NEW l PROVE Cardinality(Queued(l)) <= 1
  <2>1. \A h1, h2 \in Queued(l) : h1 = h2
    BY <1>1, WaitingRows DEF OneAtATime, Rows
  <2>2. Queued(l) = {} \/ \E h : Queued(l) = {h}
    BY <2>1
  <2>3. \A h : Cardinality({h}) = 1
    BY FS_Singleton
  <2>4. Cardinality({}) = 0
    BY FS_EmptySet
  <2>5. Cardinality(Queued(l)) \in {0, 1}
    BY <2>2, <2>3, <2>4
  <2> QED
    BY <2>5
<1>2. LockInv => OnePending
  BY <1>1 DEF LockInv, TimelineInv, OnePending
<1> QED
  BY <1>2, LockInvariant, PTL

(* With such a console the four kinds of handoff become effective at most   *)
(* once each for a lead (Q1, R1).                                           *)
THEOREM StepsOnce ==
    ASSUME ConsoleLock
    PROVE  Spec => []EffectiveOnce
<1>1. LockInv => EffectiveOnce
  BY DEF LockInv, TimelineInv
<1> QED
  BY <1>1, LockInvariant, PTL

(* With such a console no confirmation sends a draft but its own.           *)
THEOREM OwnDraftSent ==
    ASSUME ConsoleLock
    PROVE  Spec => []SendsOwnDraft
<1>1. LockInv => SendsOwnDraft
  BY DEF LockInv, TimelineInv, DraftsOwned, SendsOwnDraft
<1> QED
  BY <1>1, LockInvariant, PTL

(* With such a console a banner announces a pending decision only while     *)
(* there is one of that kind (the lastActivity texts).                      *)
THEOREM BannersTrue ==
    ASSUME ConsoleLock
    PROVE  Spec => []BannerTrue
  BY LockInvariant, PTL
=============================================================================
