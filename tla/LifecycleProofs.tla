-------------------------- MODULE LifecycleProofs --------------------------
(***************************************************************************)
(* Scheduler implements LeadLifecycle: every step of a request, an agent   *)
(* or a crash is a step of the lifecycle of a lead or leaves it alone.     *)
(***************************************************************************)
EXTENDS SchedulerProofs, SequenceTheorems

(* The rows of Timeline and Drafts. *)
EntryRow == [lead : Leads, kind : HitlKinds \cup {"none"},
             stage : Stages \cup {"none"}, status : HandoffStatuses,
             decidedBy : UserRoles \cup {"nobody"}]

DraftRow == [lead : Leads, effective : BOOLEAN]

LEMMA AppendedTo ==
    ASSUME NEW S, NEW s \in Seq(S), NEW row \in S
    PROVE  Append(s, row) = [i \in DOMAIN s \cup {Len(s) + 1} |->
                               IF i = Len(s) + 1 THEN row ELSE s[i]]
<1> DEFINE n == Len(s) + 1
           t == Append(s, row)
<1>1. DOMAIN s = 1 .. Len(s) /\ Len(s) \in Nat
  OBVIOUS
<1>2. t \in [1 .. n -> S] /\ DOMAIN s \cup {n} = 1 .. n
  <2>1. t \in Seq(S) /\ Len(t) = n
    BY AppendedRow
  <2>2. t \in [1 .. Len(t) -> S]
    BY <2>1, LenProperties
  <2> QED
    BY <1>1, <2>1, <2>2
<1>3. t[n] = row /\ \A i \in DOMAIN s : t[i] = s[i] /\ i # n
  BY <1>1
<1> HIDE DEF t, n
<1>4. t = [i \in DOMAIN s \cup {n} |-> t[i]]
  BY <1>2
<1>5. \A i \in DOMAIN s \cup {n} : t[i] = IF i = n THEN row ELSE s[i]
  BY <1>3
<1>6. t = [i \in DOMAIN s \cup {n} |-> IF i = n THEN row ELSE s[i]]
  BY <1>4, <1>5
<1> QED
  BY <1>6 DEF t, n

LEMMA RowByRow ==
    ASSUME NEW S, NEW n \in Nat, NEW f \in [1 .. n -> S]
    PROVE  f \in Seq(S) /\ Len(f) = n
  OBVIOUS

LEMMA MappedType ==
    ASSUME TypeOK
    PROVE  /\ Timeline \in Seq(EntryRow)
           /\ Len(Timeline) = Len(handoffs)
           /\ DOMAIN Timeline = DOMAIN handoffs
           /\ Drafts \in Seq(DraftRow)
           /\ Len(Drafts) = Len(activities)
           /\ DOMAIN Drafts = DOMAIN activities
<1>1. \A h \in DOMAIN handoffs : Timeline[h] \in EntryRow
  <2> TAKE h \in DOMAIN handoffs
  <2>1. handoffs[h] \in HandoffRow
    BY DEF TypeOK
  <2> QED
    BY <2>1 DEF Timeline, EntryRow, HandoffRow
<1>2. \A a \in DOMAIN activities : Drafts[a] \in DraftRow
  <2> TAKE a \in DOMAIN activities
  <2>1. activities[a] \in ActivityRow
    BY DEF TypeOK
  <2> QED
    BY <2>1 DEF Drafts, DraftRow, ActivityRow
<1>3. DOMAIN Timeline = 1 .. Len(handoffs) /\ Len(handoffs) \in Nat
  BY DEF TypeOK, Timeline
<1>4. DOMAIN Drafts = 1 .. Len(activities) /\ Len(activities) \in Nat
  BY DEF TypeOK, Drafts
<1>5. Timeline \in [1 .. Len(handoffs) -> EntryRow]
  BY <1>1, <1>3 DEF Timeline
<1>6. Drafts \in [1 .. Len(activities) -> DraftRow]
  BY <1>2, <1>4 DEF Drafts
<1>7. Timeline \in Seq(EntryRow) /\ Len(Timeline) = Len(handoffs)
  BY <1>3, <1>5, RowByRow
<1>8. Drafts \in Seq(DraftRow) /\ Len(Drafts) = Len(activities)
  BY <1>4, <1>6, RowByRow
<1> QED
  BY <1>7, <1>8 DEF Timeline, Drafts

(* An inserted handoff is an entry appended to the timeline. *)
LEMMA InsertedEntry ==
    ASSUME TypeOK, NEW row \in HandoffRow, InsertHandoff(row)
    PROVE  Timeline' = Append(Timeline,
                              [lead |-> row.lead, kind |-> row.kind,
                               stage |-> row.stage, status |-> row.status,
                               decidedBy |-> row.decidedBy])
<1> DEFINE entry == [lead |-> row.lead, kind |-> row.kind,
                     stage |-> row.stage, status |-> row.status,
                     decidedBy |-> row.decidedBy]
           n == Len(handoffs) + 1
<1>1. /\ DOMAIN handoffs' = DOMAIN handoffs \cup {n}
      /\ handoffs'[n] = row
      /\ \A h \in DOMAIN handoffs : handoffs'[h] = handoffs[h]
      /\ n \notin DOMAIN handoffs
  BY DEF TypeOK, InsertHandoff
<1>2. entry \in EntryRow
  BY DEF EntryRow, HandoffRow
<1>3. Append(Timeline, entry) =
        [h \in DOMAIN handoffs \cup {n} |->
           IF h = n THEN entry ELSE Timeline[h]]
  BY <1>2, MappedType, AppendedTo
<1>4. Timeline' = [h \in DOMAIN handoffs \cup {n} |->
                     IF h = n THEN entry ELSE Timeline[h]]
  BY <1>1 DEF Timeline
<1> QED
  BY <1>3, <1>4

(* An inserted activity is a draft appended to the drafts. *)
LEMMA InsertedDraft ==
    ASSUME TypeOK, NEW row \in ActivityRow,
           activities' = Append(activities, row)
    PROVE  Drafts' = Append(Drafts, [lead |-> row.lead,
                                     effective |-> row.effective])
<1> DEFINE draft == [lead |-> row.lead, effective |-> row.effective]
           n == Len(activities) + 1
<1>1. /\ DOMAIN activities' = DOMAIN activities \cup {n}
      /\ activities'[n] = row
      /\ \A a \in DOMAIN activities : activities'[a] = activities[a]
      /\ n \notin DOMAIN activities
  BY DEF TypeOK
<1>2. draft \in DraftRow
  BY DEF DraftRow, ActivityRow
<1>3. Append(Drafts, draft) =
        [a \in DOMAIN activities \cup {n} |->
           IF a = n THEN draft ELSE Drafts[a]]
  BY <1>2, MappedType, AppendedTo
<1>4. Drafts' = [a \in DOMAIN activities \cup {n} |->
                   IF a = n THEN draft ELSE Drafts[a]]
  BY <1>1 DEF Drafts
<1> QED
  BY <1>3, <1>4

(* A decided handoff is a decided entry. *)
LEMMA DecidedEntry ==
    ASSUME TypeOK, NEW h \in DOMAIN handoffs, NEW status, NEW role,
           handoffs' = [handoffs EXCEPT ![h].status = status,
                                        ![h].decidedBy = role]
    PROVE  Timeline' = [Timeline EXCEPT ![h].status = status,
                                        ![h].decidedBy = role]
<1>1. handoffs[h] \in HandoffRow
  BY DEF TypeOK
<1>2. DOMAIN handoffs' = DOMAIN handoffs
  OBVIOUS
<1>3. /\ handoffs'[h].status = status
      /\ handoffs'[h].decidedBy = role
      /\ handoffs'[h].lead = handoffs[h].lead
      /\ handoffs'[h].kind = handoffs[h].kind
      /\ handoffs'[h].stage = handoffs[h].stage
  BY <1>1 DEF HandoffRow
<1>4. \A k \in DOMAIN handoffs : k # h => handoffs'[k] = handoffs[k]
  OBVIOUS
<1> QED
  BY <1>2, <1>3, <1>4 DEF Timeline

LEMMA KeptTimeline == UNCHANGED handoffs => UNCHANGED Timeline
  BY DEF Timeline

LEMMA KeptDrafts == UNCHANGED activities => UNCHANGED Drafts
  BY DEF Drafts

-----------------------------------------------------------------------------
(* What a request writes, as a step of the lifecycle *)

(* A stage is set as Move and Report set it. *)
LEMMA SetStageMoves ==
    ASSUME NEW l \in Leads, NEW stage, NEW targets, stage \in targets,
           SetStage(l, stage)
    PROVE  Life!MovesTo(l, targets)
  BY DEF SetStage, Life!MovesTo

LEMMA Reported ==
    ASSUME TypeOK, NEW l \in Leads, NEW agent \in Agents,
           NEW status \in {"effective", "failed"},
           InsertHandoff(Handoff(l, agent, status)),
           UNCHANGED activities,
           \/ UNCHANGED opps
           \/ status = "effective" /\ \E stage \in MidStages : SetStage(l, stage)
    PROVE  Life!Next
<1> DEFINE row == Handoff(l, agent, status)
<1>1. row \in HandoffRow
  BY HandoffType DEF HandoffStatuses
<1>2. Timeline' = Append(Timeline, Life!Entry(l, "none", "none", status))
  <2>1. [lead |-> row.lead, kind |-> row.kind, stage |-> row.stage,
         status |-> row.status, decidedBy |-> row.decidedBy]
          = Life!Entry(l, "none", "none", status)
    BY DEF Handoff, Life!Entry
  <2> HIDE DEF row
  <2> QED
    BY <1>1, <2>1, InsertedEntry DEF row
<1>3. UNCHANGED opps \/ Life!MovesTo(l, MidStages)
  BY SetStageMoves
<1>4. status = "failed" => UNCHANGED opps
  OBVIOUS
<1>5. Life!Report(l)
  BY <1>2, <1>3, <1>4, KeptDrafts DEF Life!Report
<1> QED
  BY <1>5 DEF Life!Next

LEMMA AskedEntry ==
    ASSUME TypeOK, NEW l \in Leads, NEW agent \in Agents,
           NEW row \in HandoffRow, InsertHandoff(row),
           row.lead = l, row.status = "pending", row.decidedBy = "nobody"
    PROVE  Timeline' = Append(Timeline,
                              Life!Entry(l, row.kind, row.stage, "pending"))
  BY InsertedEntry DEF Life!Entry

(* Proposals, drafts and closings, each as its branch of Ask. *)
LEMMA AskedConvert ==
    ASSUME TypeOK, NEW l \in Leads, NEW payload \in Payloads,
           InsertHandoff([Handoff(l, "pipeline", "pending") EXCEPT
                             !.kind = "confirm-convert", !.payload = payload]),
           UNCHANGED <<opps, activities>>
    PROVE  Life!Next
<1> DEFINE row == [Handoff(l, "pipeline", "pending") EXCEPT
                      !.kind = "confirm-convert", !.payload = payload]
<1>1. /\ row \in HandoffRow /\ row.lead = l
      /\ row.kind = "confirm-convert" /\ row.stage = "none"
      /\ row.status = "pending" /\ row.decidedBy = "nobody"
  <2>1. Len(runs) + 1 \in Nat
    BY DEF TypeOK
  <2> QED
    BY <2>1 DEF Handoff, HandoffRow, Agents, HandoffStatuses, HitlKinds,
                Stages, Payloads
<1>2. InsertHandoff(row)
  OBVIOUS
<1> HIDE DEF row
<1>3. Timeline' = Append(Timeline, Life!Entry(l, "confirm-convert", "none",
                                              "pending"))
  BY <1>1, <1>2, AskedEntry DEF Agents
<1>4. Life!Ask(l)
  BY <1>3, KeptDrafts DEF Life!Ask
<1> QED
  BY <1>4 DEF Life!Next

LEMMA AskedClose ==
    ASSUME TypeOK, NEW l \in Leads, NEW target \in ClosedStages,
           InsertHandoff([Handoff(l, "pipeline", "pending") EXCEPT
                             !.kind = "confirm-win-loss", !.stage = target]),
           UNCHANGED <<opps, activities>>
    PROVE  Life!Next
<1> DEFINE row == [Handoff(l, "pipeline", "pending") EXCEPT
                      !.kind = "confirm-win-loss", !.stage = target]
<1>1. /\ row \in HandoffRow /\ row.lead = l
      /\ row.kind = "confirm-win-loss" /\ row.stage = target
      /\ row.status = "pending" /\ row.decidedBy = "nobody"
  <2>1. Len(runs) + 1 \in Nat
    BY DEF TypeOK
  <2> QED
    BY <2>1 DEF Handoff, HandoffRow, Agents, HandoffStatuses, HitlKinds,
                Stages, Payloads
<1>2. InsertHandoff(row)
  OBVIOUS
<1> HIDE DEF row
<1>3. Timeline' = Append(Timeline, Life!Entry(l, "confirm-win-loss", target,
                                              "pending"))
  BY <1>1, <1>2, AskedEntry DEF Agents
<1>4. Life!Ask(l)
  BY <1>3, KeptDrafts DEF Life!Ask
<1> QED
  BY <1>4 DEF Life!Next

LEMMA AskedSend ==
    ASSUME TypeOK, NEW l \in Leads, HasOpportunity(l),
           activities' = Append(activities, [lead |-> l, effective |-> FALSE,
                                             handoff |-> Len(handoffs) + 1]),
           InsertHandoff([Handoff(l, "followup", "pending") EXCEPT
                             !.kind = "confirm-send"]),
           UNCHANGED opps
    PROVE  Life!Next
<1> DEFINE row == [Handoff(l, "followup", "pending") EXCEPT
                      !.kind = "confirm-send"]
           draft == [lead |-> l, effective |-> FALSE,
                     handoff |-> Len(handoffs) + 1]
<1>1. /\ row \in HandoffRow /\ row.lead = l
      /\ row.kind = "confirm-send" /\ row.stage = "none"
      /\ row.status = "pending" /\ row.decidedBy = "nobody"
  <2>1. Len(runs) + 1 \in Nat
    BY DEF TypeOK
  <2> QED
    BY <2>1 DEF Handoff, HandoffRow, Agents, HandoffStatuses, HitlKinds,
                Stages, Payloads
<1>2. InsertHandoff(row)
  OBVIOUS
<1>3. draft \in ActivityRow /\ draft.lead = l /\ draft.effective = FALSE
  <2>1. Len(handoffs) + 1 \in Nat
    BY DEF TypeOK
  <2> QED
    BY <2>1 DEF ActivityRow
<1>4. activities' = Append(activities, draft)
  OBVIOUS
<1> HIDE DEF row, draft
<1>5. Timeline' = Append(Timeline, Life!Entry(l, "confirm-send", "none",
                                              "pending"))
  BY <1>1, <1>2, AskedEntry DEF Agents
<1>6. Drafts' = Append(Drafts, [lead |-> l, effective |-> FALSE])
  BY <1>3, <1>4, InsertedDraft
<1>7. Life!Ask(l)
  BY <1>5, <1>6 DEF Life!Ask, HasOpportunity
<1> QED
  BY <1>7 DEF Life!Next

(* What the lifecycle does not show. *)
Unseen == UNCHANGED <<opps, activities, handoffs>>

LEMMA UnseenStutters == Unseen => UNCHANGED Life!vars
  BY KeptDrafts, KeptTimeline DEF Unseen, Life!vars

LEMMA AnswerLives ==
    ASSUME TypeOK, NEW c \in Calls, Answer(c)
    PROVE  Life!Next \/ Unseen
<1> DEFINE l == calls[c].lead
           agent == calls[c].agent
<1>1. calls[c] # Idle
  BY DEF Answer, RunnerThrows, AnswerUnusable, AnswerDenied, AnswerUnfit,
         AnswerOwner, AnswerStranger, AnswerDescription, AnswerProposal,
         AnswerAdvance, AnswerClose, AnswerActivity, AnswerTextless
<1>2. l \in Leads /\ agent \in Agents
  BY <1>1, BusySlot
<1>3. ASSUME NEW status, DispatchFails(c, status)
      PROVE  Life!Next
  <2>1. /\ InsertHandoff(Handoff(l, agent, "failed"))
        /\ UNCHANGED <<opps, activities>>
    BY <1>3 DEF DispatchFails
  <2> QED
    BY <1>2, <2>1, Reported
<1>4. CASE RunnerThrows(c) \/ AnswerStranger(c) \/ AnswerTextless(c)
  BY <1>4 DEF RunnerThrows, AnswerStranger, AnswerTextless, ApplyThrows, Unseen
<1>5. CASE AnswerUnusable(c) \/ AnswerDenied(c) \/ AnswerUnfit(c)
  BY <1>3, <1>5 DEF AnswerUnusable, AnswerDenied, AnswerUnfit
<1>6. CASE AnswerOwner(c)
  <2>1. /\ InsertHandoff(Handoff(l, "orchestrator", "effective"))
        /\ UNCHANGED <<opps, activities>>
    BY <1>6 DEF AnswerOwner
  <2> QED
    BY <1>2, <2>1, Reported DEF Agents
<1>7. CASE AnswerDescription(c)
  <2>1. /\ InsertHandoff(Handoff(l, "lead-intake", "effective"))
        /\ UNCHANGED <<opps, activities>>
    BY <1>7 DEF AnswerDescription
  <2> QED
    BY <1>2, <2>1, Reported DEF Agents
<1>8. CASE AnswerProposal(c)
  <2>1. PICK reply \in Replies :
          InsertHandoff([Handoff(l, "pipeline", "pending") EXCEPT
                            !.kind = "confirm-convert",
                            !.payload = PayloadOf(reply)])
    BY <1>8 DEF AnswerProposal
  <2>2. PayloadOf(reply) \in Payloads
    BY DEF PayloadOf, Payloads
  <2>3. UNCHANGED <<opps, activities>>
    BY <1>8 DEF AnswerProposal
  <2> QED
    BY <1>2, <2>1, <2>2, <2>3, AskedConvert
<1>9. CASE AnswerAdvance(c)
  <2>1. PICK stage \in MidStages : SetStage(l, stage)
    BY <1>9 DEF AnswerAdvance
  <2>2. /\ InsertHandoff(Handoff(l, "pipeline", "effective"))
        /\ UNCHANGED activities
    BY <1>9 DEF AnswerAdvance
  <2> QED
    BY <1>2, <2>1, <2>2, Reported DEF Agents
<1>10. CASE AnswerClose(c)
  <2>1. PICK stage \in ClosedStages :
          InsertHandoff([Handoff(l, "pipeline", "pending") EXCEPT
                            !.kind = "confirm-win-loss", !.stage = stage])
    BY <1>10 DEF AnswerClose
  <2>2. UNCHANGED <<opps, activities>>
    BY <1>10 DEF AnswerClose
  <2> QED
    BY <1>2, <2>1, <2>2, AskedClose
<1>11. CASE AnswerActivity(c)
  BY <1>2, <1>11, AskedSend DEF AnswerActivity
<1> QED
  BY <1>4, <1>5, <1>6, <1>7, <1>8, <1>9, <1>10, <1>11 DEF Answer

(* The handoff as the lifecycle sees it. *)
LEMMA SeenEntry ==
    ASSUME TypeOK, NEW h \in DOMAIN handoffs
    PROVE  /\ h \in DOMAIN Timeline
           /\ Timeline[h].lead = handoffs[h].lead
           /\ Timeline[h].kind = handoffs[h].kind
           /\ Timeline[h].stage = handoffs[h].stage
           /\ Timeline[h].status = handoffs[h].status
  BY DEF Timeline

LEMMA DecisionLives ==
    ASSUME TypeOK, ObjectsMatchStatus, NEW h \in DOMAIN handoffs,
           NEW role \in Roles, Decide(h, role)
    PROVE  Life!Next \/ Unseen
<1> DEFINE l == handoffs[h].lead
<1>1. handoffs[h] \in HandoffRow /\ l \in Leads
  <2>1. handoffs[h] \in HandoffRow
    BY DEF TypeOK
  <2> QED
    BY <2>1 DEF HandoffRow
<1>2. ASSUME NEW kind, MayDecide(h, kind, role), kind = handoffs[h].kind
      PROVE  Life!Open(h) /\ role \in Life!Deciders(h)
  BY <1>2, SeenEntry DEF MayDecide, CanConfirm, Life!Open, Life!Deciders
<1>3. ASSUME NEW kind, MayDecide(h, kind, role), MarkDone(h, role),
             Life!Effect(Timeline[h].lead, Timeline[h].kind, Timeline[h].stage)
      PROVE  Life!Next
  <2>1. Life!Open(h) /\ role \in Life!Deciders(h)
    BY <1>2, <1>3 DEF MayDecide
  <2>2. Timeline' = [Timeline EXCEPT ![h].status = "effective",
                                     ![h].decidedBy = role]
    BY <1>3, DecidedEntry DEF MarkDone
  <2>3. Life!Grant(h)
    BY <1>3, <2>1, <2>2 DEF Life!Grant
  <2> QED
    BY <2>3, SeenEntry DEF Life!Next
<1>4. ASSUME NEW c \in Calls, ConfirmConvert(c, h, role)
      PROVE  Life!Next
  <2>1. opps' = IF opps[l] = NoOpp THEN [opps EXCEPT ![l] = "need"] ELSE opps
    <3>1. leads[l].status = "converted" <=> opps[l] # NoOpp
      BY <1>1 DEF ObjectsMatchStatus
    <3> QED
      BY <1>4, <3>1 DEF ConfirmConvert, ApplyConvert
  <2>2. UNCHANGED Drafts
    BY <1>4, KeptDrafts DEF ConfirmConvert
  <2>3. MayDecide(h, "confirm-convert", role) /\ MarkDone(h, role)
    BY <1>4 DEF ConfirmConvert
  <2>4. Life!Effect(Timeline[h].lead, Timeline[h].kind, Timeline[h].stage)
    BY <2>1, <2>2, <2>3, SeenEntry DEF Life!Effect, MayDecide
  <2> QED
    BY <1>3, <2>3, <2>4
<1>5. CASE ConfirmConvertThrows(h, role)
  BY <1>5 DEF ConfirmConvertThrows, Unseen
<1>6. CASE ConfirmSend(h, role)
  <2>1. Drafts' = [d \in DOMAIN Drafts |->
                     IF Drafts[d].lead = l
                     THEN [Drafts[d] EXCEPT !.effective = TRUE]
                     ELSE Drafts[d]]
    <3>1. \A a \in DOMAIN activities : activities[a] \in ActivityRow
      BY DEF TypeOK
    <3>2. activities' = [a \in DOMAIN activities |->
                           IF activities[a].lead = l
                           THEN [activities[a] EXCEPT !.effective = TRUE]
                           ELSE activities[a]]
      BY <1>6 DEF ConfirmSend
    <3>3. \A a \in DOMAIN activities :
            /\ activities'[a].lead = activities[a].lead
            /\ activities'[a].effective =
                  IF activities[a].lead = l THEN TRUE ELSE activities[a].effective
      BY <3>1, <3>2 DEF ActivityRow
    <3>4. DOMAIN activities' = DOMAIN activities
      BY <3>2
    <3> QED
      BY <3>3, <3>4 DEF Drafts
  <2>2. UNCHANGED opps /\ MayDecide(h, "confirm-send", role) /\ MarkDone(h, role)
    BY <1>6 DEF ConfirmSend
  <2>3. Life!Effect(Timeline[h].lead, Timeline[h].kind, Timeline[h].stage)
    BY <2>1, <2>2, SeenEntry DEF Life!Effect, MayDecide
  <2> QED
    BY <1>3, <2>2, <2>3
<1>7. CASE ConfirmWinLoss(h, role)
  <2>1. Life!MovesTo(l, {handoffs[h].stage})
    BY <1>1, <1>7, SetStageMoves DEF ConfirmWinLoss
  <2>2. /\ UNCHANGED activities
        /\ MayDecide(h, "confirm-win-loss", role)
        /\ MarkDone(h, role)
    BY <1>7 DEF ConfirmWinLoss
  <2>3. Life!Effect(Timeline[h].lead, Timeline[h].kind, Timeline[h].stage)
    BY <2>1, <2>2, SeenEntry, KeptDrafts DEF Life!Effect, MayDecide
  <2> QED
    BY <1>3, <2>2, <2>3
<1>8. CASE Reject(h, role)
  <2>1. Timeline' = [Timeline EXCEPT ![h].status = "rejected",
                                     ![h].decidedBy = role]
    BY <1>8, DecidedEntry DEF Reject
  <2>2. Life!Open(h) /\ role \in Life!Deciders(h)
    BY <1>2, <1>8 DEF Reject
  <2>3. Life!Refuse(h)
    BY <1>8, <2>1, <2>2, KeptDrafts DEF Reject, Life!Refuse
  <2> QED
    BY <2>3, SeenEntry DEF Life!Next
<1> QED
  BY <1>4, <1>5, <1>6, <1>7, <1>8 DEF Decide

LEMMA ClearingLives ==
    ASSUME TypeOK, NEW l \in Leads, ClearQueue(l)
    PROVE  Life!Next
<1>1. \A h \in DOMAIN handoffs : handoffs[h] \in HandoffRow
  BY DEF TypeOK
<1>2. \A h \in DOMAIN handoffs :
        h \in Queued(l) <=> Timeline[h].lead = l /\ Life!Open(h)
  BY <1>1, SeenEntry DEF Queued, Rows, Life!Open, HandoffRow
<1>3. /\ DOMAIN handoffs' = DOMAIN handoffs
      /\ \A h \in DOMAIN handoffs :
            handoffs'[h] = IF h \in Queued(l)
                           THEN [handoffs[h] EXCEPT !.status = "aborted"]
                           ELSE handoffs[h]
  BY DEF ClearQueue
<1>4. \A h \in DOMAIN handoffs :
        /\ handoffs'[h].lead = handoffs[h].lead
        /\ handoffs'[h].kind = handoffs[h].kind
        /\ handoffs'[h].stage = handoffs[h].stage
        /\ handoffs'[h].decidedBy = handoffs[h].decidedBy
        /\ handoffs'[h].status = IF h \in Queued(l) THEN "aborted"
                                                    ELSE handoffs[h].status
  BY <1>1, <1>3 DEF HandoffRow
<1>5. Timeline' = [h \in DOMAIN Timeline |->
                     IF h \in Queued(l)
                     THEN [Timeline[h] EXCEPT !.status = "aborted"]
                     ELSE Timeline[h]]
  BY <1>3, <1>4 DEF Timeline
<1>6. Timeline' = [h \in DOMAIN Timeline |->
                     IF Timeline[h].lead = l /\ Life!Open(h)
                     THEN [Timeline[h] EXCEPT !.status = "aborted"]
                     ELSE Timeline[h]]
  BY <1>2, <1>5, MappedType
<1>7. Life!Abandon(l)
  BY <1>6, KeptDrafts DEF Life!Abandon, ClearQueue
<1> QED
  BY <1>7 DEF Life!Next

LEMMA NextLives ==
    ASSUME TypeOK, ObjectsMatchStatus, [Next]_vars
    PROVE  Life!Next \/ UNCHANGED Life!vars
<1>1. CASE \E c \in Calls : Answer(c)
  BY <1>1, AnswerLives, UnseenStutters
<1>2. ASSUME NEW l \in Leads, ClearQueue(l) PROVE Life!Next
  BY <1>2, ClearingLives
<1>3. ASSUME NEW c, NEW l, NEW role, Ingest(c, l, role) PROVE Unseen
  BY <1>3 DEF Ingest, Unseen
<1>4. ASSUME NEW l \in Leads, NEW stage, NEW role, AdvanceStage(l, stage, role)
      PROVE  Life!Next
  <2>1. UNCHANGED activities /\ HasOpportunity(l)
    BY <1>4 DEF AdvanceStage
  <2>2. CASE stage \in MidStages
    <3>1. SetStage(l, stage) /\ UNCHANGED handoffs
      BY <1>4, <2>2, DisjointStages DEF AdvanceStage
    <3>2. Life!Move(l)
      BY <2>1, <2>2, <3>1, SetStageMoves, KeptDrafts, KeptTimeline
         DEF Life!Move, HasOpportunity
    <3> QED
      BY <3>2 DEF Life!Next
  <2>3. CASE stage \in ClosedStages
    <3>1. /\ InsertHandoff([Handoff(l, "pipeline", "pending") EXCEPT
                               !.kind = "confirm-win-loss", !.stage = stage])
          /\ UNCHANGED opps
      BY <1>4, <2>3, DisjointStages DEF AdvanceStage
    <3> QED
      BY <2>1, <2>3, <3>1, AskedClose
  <2> QED
    BY <1>4, <2>2, <2>3 DEF AdvanceStage
<1>5. ASSUME NEW role \in Roles, NEW h \in DOMAIN handoffs, Decide(h, role)
      PROVE  Life!Next \/ Unseen
  BY <1>5, DecisionLives
<1>6. CASE Crash \/ UNCHANGED vars
  BY <1>6, UnseenStutters DEF Crash, vars, Unseen
<1> QED
  BY <1>1, <1>2, <1>3, <1>4, <1>5, <1>6, RunLead, UnseenStutters
     DEF Next, AbortLead, AbortRun

(* Scheduler keeps the promises of LeadLifecycle.                           *)
THEOREM Implements == Spec => Lifecycle
<1>1. Init => Life!Init
  <2> SUFFICES ASSUME Init PROVE Life!Init
    OBVIOUS
  <2>1. opps \in [Leads -> MidStages \cup ClosedStages \cup {NoOpp}]
    BY InitTypeOK DEF TypeOK, Stages
  <2>2. Timeline = <<>> /\ Drafts = <<>>
    BY DEF Init, Timeline, Drafts
  <2> QED
    BY <2>1, <2>2 DEF Life!Init
<1>2. TypeOK /\ ObjectsMatchStatus /\ [Next]_vars => [Life!Next]_(Life!vars)
  BY NextLives
<1> QED
  BY <1>1, <1>2, TypeCorrect, ObjectsMatch, PTL DEF Spec, Lifecycle, Life!Spec

=============================================================================
