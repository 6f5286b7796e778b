----------------------------- MODULE Scheduler -----------------------------
(***************************************************************************)
(* The sales-agent scheduler of packages/harness/src/scheduler.ts as the   *)
(* HTTP API drives it.  An HTTP request runs on Node's single thread over  *)
(* a synchronous SQLite driver, so everything between two awaits is one    *)
(* atomic step; the only await of the scheduler is the model call          *)
(* (runner.run) inside dispatch.  A request that waits there is a busy     *)
(* slot of `calls`; other requests run meanwhile.  A crash loses the slots *)
(* and keeps the tables.                                                   *)
(*                                                                         *)
(* Words of the code and their names here:                                 *)
(*   lead status      new = 新线索, converted = 已转化                     *)
(*   handoff status   pending = 待确认, running = 进行中, effective =      *)
(*                    已生效, rejected = 已拒绝, aborted = 已中止,         *)
(*                    failed = 失败                                        *)
(*   run status       ended = 已结束, failed = 失败                        *)
(*   stage            need = 需求确认, quote = 方案报价, talk = 谈判,      *)
(*                    won = 赢单, lost = 丢单                              *)
(***************************************************************************)
EXTENDS Naturals, Sequences, FiniteSets

CONSTANTS
    Leads,        \* leads of the database
    Calls,        \* slots for requests that wait for a model answer
    Idle,         \* the content of a free slot
    NoOpp,        \* a lead without a row in opportunities
    Replies,      \* the answers the model may give, a subset of AnyReply
    MaxRuns,      \* bound on agent_runs rows: new requests stop there
    ConsoleLock,  \* one console tab, whose busy flag holds back its controls
    Crashes,      \* the process may crash and restart
    Roles,        \* the roles its users hold
    Targets       \* the stages its users, agents and seed rows use

Agents == {"orchestrator", "lead-intake", "pipeline", "followup"}
MidStages == {"need", "quote", "talk"}
ClosedStages == {"won", "lost"}
Stages == MidStages \cup ClosedStages
HandoffStatuses ==
    {"running", "pending", "effective", "rejected", "aborted", "failed"}
HitlKinds == {"confirm-convert", "confirm-send", "confirm-win-loss"}
UserRoles == {"sales", "manager", "viewer"}

(* What a model answer can be, as far as the scheduler tells answers apart: *)
(* the runner rejects; it reports failure; the text holds no JSON object    *)
(* with a summary; the object declares a write to a table outside the       *)
(* agent's list or claims the converted status; it names an owner that is,  *)
(* or is not, in users; it only describes the lead; it proposes a           *)
(* conversion (complete, without contactTitle, without a name, without a    *)
(* Chinese stage); it asks for a stage (middle, closing, unknown); it       *)
(* drafts an activity (sound, without text, of an unknown type).            *)
StageReplies == {"advance", "close", "unknownStage"}
ProposalReplies ==
    {"proposal", "untitledProposal", "partialProposal", "englishProposal"}
UnusableReplies == {"runFailed", "notJson"}
AnyReply ==
    {"throws", "foreignWrite", "owner", "stranger", "description",
     "activity", "textlessActivity", "untypedActivity"}
        \cup UnusableReplies \cup StageReplies \cup ProposalReplies

ASSUME RepliesAssumption == Replies \subseteq AnyReply
ASSUME BoundAssumption == MaxRuns \in Nat
ASSUME SwitchAssumption == ConsoleLock \in BOOLEAN /\ Crashes \in BOOLEAN
ASSUME RolesAssumption == Roles \subseteq UserRoles
ASSUME TargetsAssumption == Targets \subseteq Stages
ASSUME NullAssumption == NoOpp \notin Stages

VARIABLES
    leads,       \* the columns of leads the scheduler reads or writes
    accounts,    \* leads that have a row in accounts
    opps,        \* stage of the lead's row in opportunities, or NoOpp
    activities,  \* follow-up drafts, in creation order
    handoffs,    \* rows of handoffs, in creation order
    runs,        \* rows of agent_runs, each with its token_ledger row
    audits,      \* agents of the acl-deny rows of audit_events
    calls        \* requests in flight

vars == <<leads, accounts, opps, activities, handoffs, runs, audits, calls>>

LastActivities ==
    {"seed", "assigned", "filed", "convertPending", "converted",
     "sendPending", "sent", "closePending", "won", "lost", "advanced",
     "rejected", "aborted"}

Payloads == {"complete", "untitled", "partial", "none"}

LeadRow == [status : {"new", "converted"}, owned : BOOLEAN,
            lastActivity : LastActivities]

(* No code writes the status running.  A win or loss handoff proposes a     *)
(* closing stage.  decidedBy is history: the role that confirmed or         *)
(* rejected the row.                                                        *)
HandoffRow ==
    {row \in [lead : Leads, agent : Agents,
              status : HandoffStatuses \ {"running"},
              kind : HitlKinds \cup {"none"}, stage : Stages \cup {"none"},
              payload : Payloads, run : Nat,
              decidedBy : UserRoles \cup {"nobody"}] :
        row.kind = "confirm-win-loss" => row.stage \in ClosedStages}

(* handoff is history: the row inserted together with the draft. *)
ActivityRow == [lead : Leads, effective : BOOLEAN, handoff : Nat]

RunRow == [lead : Leads, agent : Agents, status : {"ended", "failed"}]

(* stopped is history: the lead was aborted, or a handoff of it rejected,   *)
(* while the request waited.                                                *)
Waiting == [lead : Leads, agent : Agents, stopped : BOOLEAN]

TypeOK ==
    /\ leads \in [Leads -> LeadRow]
    /\ accounts \subseteq Leads
    /\ opps \in [Leads -> Stages \cup {NoOpp}]
    /\ activities \in Seq(ActivityRow)
    /\ handoffs \in Seq(HandoffRow)
    /\ runs \in Seq(RunRow)
    /\ audits \in Seq(Agents)
    /\ calls \in [Calls -> Waiting \cup {Idle}]

(* A fresh lead, or one of the seeded converted leads at any stage.  The    *)
(* seeded activities are already effective and the seeded handoff is        *)
(* already decided, so no operation reads or changes them; they are left    *)
(* out.                                                                     *)
Init ==
    /\ \E seeded \in SUBSET Leads :
         /\ leads = [l \in Leads |->
                       [status |-> IF l \in seeded THEN "converted" ELSE "new",
                        owned |-> l \in seeded, lastActivity |-> "seed"]]
         /\ accounts = seeded
         /\ opps \in [Leads -> Targets \cup {NoOpp}]
         /\ \A l \in Leads : l \in seeded <=> opps[l] # NoOpp
    /\ activities = <<>>
    /\ handoffs = <<>>
    /\ runs = <<>>
    /\ audits = <<>>
    /\ calls = [c \in Calls |-> Idle]

-----------------------------------------------------------------------------
(* Reading the tables *)

CanMutate(role) == role # "viewer"

(* Mutant of CanConfirm: sales may close an opportunity too. *)
CanConfirm_SalesCloses(role, kind) == role \in {"sales", "manager"}

CanConfirm(role, kind) ==
    IF kind = "confirm-win-loss" THEN role = "manager"
                                 ELSE role \in {"sales", "manager"}

Rows(l) == {h \in DOMAIN handoffs : handoffs[h].lead = l}

(* Mutant of Queued: the status filter is missing. *)
Queued_AnyStatus(l) == Rows(l)

Queued(l) == {h \in Rows(l) : handoffs[h].status \in {"pending", "running"}}

(* Mutant of SliceBusy: the check is skipped. *)
SliceBusy_Never(l) == FALSE

SliceBusy(l) == Queued(l) # {}

(* Mutant of HasEffective: steps already done are not recognised. *)
HasEffective_Never(l, agent) == FALSE

HasEffective(l, agent) ==
    \E h \in Rows(l) :
        handoffs[h].agent = agent /\ handoffs[h].status = "effective"

HasOpportunity(l) == opps[l] # NoOpp

InFlight == {c \in Calls : calls[c] # Idle}

(* The console holds its controls back while one of its requests is out. *)
ConsoleFree == ConsoleLock => InFlight = {}

(* The dispatches still to come in the requests in flight, at most: three   *)
(* from orchestrator on, two from lead-intake on, one from the others.      *)
Ahead(agents) == Cardinality({c \in InFlight : calls[c].agent \in agents})
Reserved ==
    Ahead(Agents) + Ahead({"orchestrator", "lead-intake"})
                  + Ahead({"orchestrator"})

(* The run bound: a request starts only when its n dispatches fit besides   *)
(* those, so that no answer is ever refused for lack of room.               *)
RoomFor(n) == Len(runs) + Reserved + n <= MaxRuns

Await(l, agent) == [lead |-> l, agent |-> agent, stopped |-> FALSE]

(* The agents of an ingest in their order, the effective ones skipped: the  *)
(* content of the slot of the request at the point that follows.            *)
FromPipeline(l) ==
    IF HasEffective(l, "pipeline") THEN Idle ELSE Await(l, "pipeline")
FromIntake(l) ==
    IF HasEffective(l, "lead-intake") THEN FromPipeline(l)
                                      ELSE Await(l, "lead-intake")
(* Mutant of FromOrchestrator: the first step is taken for done. *)
FromOrchestrator_Skipped(l) == FromIntake(l)

FromOrchestrator(l) ==
    IF HasEffective(l, "orchestrator") THEN FromIntake(l)
                                       ELSE Await(l, "orchestrator")

-----------------------------------------------------------------------------
(* Writing the tables *)

RecordRun(l, agent, status) ==
    runs' = Append(runs, [lead |-> l, agent |-> agent, status |-> status])

(* The handoff of the run that the same step records. *)
Handoff(l, agent, status) ==
    [lead |-> l, agent |-> agent, status |-> status, kind |-> "none",
     stage |-> "none", payload |-> "none", run |-> Len(runs) + 1,
     decidedBy |-> "nobody"]

InsertHandoff(row) == handoffs' = Append(handoffs, row)

SetLastActivity(l, text) ==
    leads' = [leads EXCEPT ![l].lastActivity = text]

(* Mutant of MarkDone: the handoff is not marked. *)
MarkDone_Forgotten(h, role) == UNCHANGED handoffs

MarkDone(h, role) ==
    handoffs' = [handoffs EXCEPT ![h].status = "effective",
                                 ![h].decidedBy = role]

Return(c) == calls' = [calls EXCEPT ![c] = Idle]

(* The request goes on to what its slot waits for next. *)
Continue(c, next) ==
    calls' = [calls EXCEPT ![c] =
                IF next = Idle THEN Idle
                ELSE [next EXCEPT !.stopped = calls[c].stopped]]

-----------------------------------------------------------------------------
(* The answer of the model: dispatch from its await on, and applyJson *)

(* Tables declared outside the agent's list; for lead-intake also the       *)
(* converted status, a stage or a proposal; for followup a stage; for       *)
(* orchestrator a proposal.                                                 *)
IllegalWrites(agent, reply) ==
    \/ reply = "foreignWrite"
    \/ agent = "lead-intake" /\ reply \in StageReplies \cup ProposalReplies
    \/ agent = "followup" /\ reply \in StageReplies
    \/ agent = "orchestrator" /\ reply \in ProposalReplies

(* The answers that reach applyJson. *)
Applied(agent) ==
    {reply \in Replies \ (UnusableReplies \cup {"throws"}) :
        ~IllegalWrites(agent, reply)}

(* Mutant of DispatchFails: the request goes on after the failure. *)
DispatchFails_GoesOn(c, runStatus) ==
    LET l == calls[c].lead
        agent == calls[c].agent
    IN  /\ RecordRun(l, agent, runStatus)
        /\ InsertHandoff(Handoff(l, agent, "failed"))
        /\ Continue(c, IF agent = "orchestrator" THEN FromIntake(l) ELSE Idle)
        /\ UNCHANGED <<leads, accounts, opps, activities>>

(* Mutant of DispatchFails: no handoff is inserted. *)
DispatchFails_Silent(c, runStatus) ==
    /\ RecordRun(calls[c].lead, calls[c].agent, runStatus)
    /\ Return(c)
    /\ UNCHANGED <<leads, accounts, opps, activities, handoffs>>

(* The run and a failed handoff are recorded, the request ends. *)
DispatchFails(c, runStatus) ==
    LET l == calls[c].lead
        agent == calls[c].agent
    IN  /\ RecordRun(l, agent, runStatus)
        /\ InsertHandoff(Handoff(l, agent, "failed"))
        /\ Return(c)
        /\ UNCHANGED <<leads, accounts, opps, activities>>

(* A statement of applyJson throws after the run is recorded. *)
ApplyThrows(c) ==
    /\ RecordRun(calls[c].lead, calls[c].agent, "ended")
    /\ Return(c)
    /\ UNCHANGED <<leads, accounts, opps, activities, handoffs, audits>>

(* The runner itself throws: dispatch records nothing. *)
RunnerThrows(c) ==
    /\ calls[c] # Idle
    /\ "throws" \in Replies
    /\ Return(c)
    /\ UNCHANGED <<leads, accounts, opps, activities, handoffs, runs, audits>>

AnswerUnusable(c) ==
    /\ calls[c] # Idle
    /\ UnusableReplies \cap Replies # {}
    /\ DispatchFails(c, "failed")
    /\ UNCHANGED audits

AnswerDenied(c) ==
    /\ calls[c] # Idle
    /\ \E reply \in Replies : IllegalWrites(calls[c].agent, reply)
    /\ DispatchFails(c, "failed")
    /\ audits' = Append(audits, calls[c].agent)

(* No owner; a proposal without a Chinese stage, an unknown stage, or       *)
(* neither; no typed activity, or no opportunity to attach it to.           *)
Unfit(agent, l, reply) ==
    \/ agent = "orchestrator" /\ reply \notin {"owner", "stranger"}
    \/ agent = "pipeline" /\ reply \notin
          (ProposalReplies \ {"englishProposal"}) \cup {"advance", "close"}
    \/ agent = "followup" /\ \/ reply \notin {"activity", "textlessActivity"}
                             \/ ~HasOpportunity(l)

AnswerUnfit(c) ==
    /\ calls[c] # Idle
    /\ \E reply \in Applied(calls[c].agent) :
          Unfit(calls[c].agent, calls[c].lead, reply)
    /\ DispatchFails(c, "ended")
    /\ UNCHANGED audits

AnswerOwner(c) ==
    LET l == calls[c].lead IN
    /\ calls[c] # Idle
    /\ calls[c].agent = "orchestrator"
    /\ "owner" \in Replies
    /\ RecordRun(l, "orchestrator", "ended")
    /\ leads' = [leads EXCEPT ![l].owned = TRUE,
                              ![l].lastActivity = "assigned"]
    /\ InsertHandoff(Handoff(l, "orchestrator", "effective"))
    /\ Continue(c, FromIntake(l))
    /\ UNCHANGED <<accounts, opps, activities, audits>>

(* The owner is not in users: the foreign key refuses the update. *)
AnswerStranger(c) ==
    /\ calls[c] # Idle
    /\ calls[c].agent = "orchestrator"
    /\ "stranger" \in Replies
    /\ ApplyThrows(c)

(* lead-intake accepts every object that is not denied: a field it lacks    *)
(* keeps its old value.                                                     *)
AnswerDescription(c) ==
    LET l == calls[c].lead IN
    /\ calls[c] # Idle
    /\ calls[c].agent = "lead-intake"
    /\ Applied("lead-intake") # {}
    /\ RecordRun(l, "lead-intake", "ended")
    /\ SetLastActivity(l, "filed")
    /\ InsertHandoff(Handoff(l, "lead-intake", "effective"))
    /\ Continue(c, FromPipeline(l))
    /\ UNCHANGED <<accounts, opps, activities, audits>>

PayloadOf(reply) ==
    CASE reply = "proposal" -> "complete"
      [] reply = "untitledProposal" -> "untitled"
      [] OTHER -> "partial"

AnswerProposal(c) ==
    LET l == calls[c].lead IN
    /\ calls[c] # Idle
    /\ calls[c].agent = "pipeline"
    /\ \E reply \in Replies \cap (ProposalReplies \ {"englishProposal"}) :
          InsertHandoff([Handoff(l, "pipeline", "pending") EXCEPT
                            !.kind = "confirm-convert",
                            !.payload = PayloadOf(reply)])
    /\ RecordRun(l, "pipeline", "ended")
    /\ SetLastActivity(l, "convertPending")
    /\ Return(c)
    /\ UNCHANGED <<accounts, opps, activities, audits>>

(* UPDATE opportunities SET stage WHERE lead_id: no row, no change. *)
SetStage(l, stage) ==
    opps' = IF opps[l] = NoOpp THEN opps ELSE [opps EXCEPT ![l] = stage]

AnswerAdvance(c) ==
    LET l == calls[c].lead IN
    /\ calls[c] # Idle
    /\ calls[c].agent = "pipeline"
    /\ "advance" \in Replies
    /\ \E stage \in MidStages \cap Targets : SetStage(l, stage)
    /\ RecordRun(l, "pipeline", "ended")
    /\ InsertHandoff(Handoff(l, "pipeline", "effective"))
    /\ Return(c)
    /\ UNCHANGED <<leads, accounts, activities, audits>>

AnswerClose(c) ==
    LET l == calls[c].lead IN
    /\ calls[c] # Idle
    /\ calls[c].agent = "pipeline"
    /\ "close" \in Replies
    /\ \E stage \in ClosedStages \cap Targets :
          InsertHandoff([Handoff(l, "pipeline", "pending") EXCEPT
                            !.kind = "confirm-win-loss", !.stage = stage])
    /\ RecordRun(l, "pipeline", "ended")
    /\ Return(c)
    /\ UNCHANGED <<leads, accounts, opps, activities, audits>>

AnswerActivity(c) ==
    LET l == calls[c].lead IN
    /\ calls[c] # Idle
    /\ calls[c].agent = "followup"
    /\ "activity" \in Replies
    /\ HasOpportunity(l)
    /\ RecordRun(l, "followup", "ended")
    /\ activities' = Append(activities, [lead |-> l, effective |-> FALSE,
                                         handoff |-> Len(handoffs) + 1])
    /\ InsertHandoff([Handoff(l, "followup", "pending") EXCEPT
                         !.kind = "confirm-send"])
    /\ SetLastActivity(l, "sendPending")
    /\ Return(c)
    /\ UNCHANGED <<accounts, opps, audits>>

(* The column activities.text refuses a missing text. *)
AnswerTextless(c) ==
    /\ calls[c] # Idle
    /\ calls[c].agent = "followup"
    /\ "textlessActivity" \in Replies
    /\ HasOpportunity(calls[c].lead)
    /\ ApplyThrows(c)

Answer(c) ==
    \/ RunnerThrows(c) \/ AnswerUnusable(c) \/ AnswerDenied(c)
    \/ AnswerUnfit(c) \/ AnswerOwner(c) \/ AnswerStranger(c)
    \/ AnswerDescription(c) \/ AnswerProposal(c) \/ AnswerAdvance(c)
    \/ AnswerClose(c) \/ AnswerActivity(c) \/ AnswerTextless(c)

-----------------------------------------------------------------------------
(* The requests of the users *)

Ingest(c, l, role) ==
    /\ ConsoleFree
    /\ RoomFor(3)
    /\ calls[c] = Idle
    /\ CanMutate(role)
    /\ leads[l].status = "new"
    /\ ~SliceBusy(l)
    /\ calls' = [calls EXCEPT ![c] = FromOrchestrator(l)]
    /\ UNCHANGED <<leads, accounts, opps, activities, handoffs, runs, audits>>

MayDecide(h, kind, role) ==
    /\ handoffs[h].status = "pending"
    /\ handoffs[h].kind = kind
    /\ CanConfirm(role, kind)

(* Mutant of ApplyConvert: the lead keeps its status. *)
ApplyConvert_NoStatus(l) ==
    IF leads[l].status = "converted"
    THEN UNCHANGED <<leads, accounts, opps>>
    ELSE /\ accounts' = accounts \cup {l}
         /\ opps' = [opps EXCEPT ![l] = "need"]
         /\ SetLastActivity(l, "converted")

(* applyConvert: nothing on a converted lead; else the account, the contact *)
(* and the opportunity are inserted and the lead is converted.              *)
ApplyConvert(l) ==
    IF leads[l].status = "converted"
    THEN UNCHANGED <<leads, accounts, opps>>
    ELSE /\ accounts' = accounts \cup {l}
         /\ opps' = [opps EXCEPT ![l] = "need"]
         /\ leads' = [leads EXCEPT ![l].status = "converted",
                                   ![l].lastActivity = "converted"]

(* The inserts of applyConvert succeed: lead_id is unique in accounts, and  *)
(* contacts.title refuses a missing title.                                  *)
Convertible(h) ==
    \/ leads[handoffs[h].lead].status = "converted"
    \/ handoffs[h].lead \notin accounts /\ handoffs[h].payload = "complete"

(* Mutant of DraftComplete: the names are not checked. *)
DraftComplete_Unchecked(h) == TRUE

(* A draft without a name is refused before anything is written. *)
DraftComplete(h) == handoffs[h].payload \in {"complete", "untitled"}

ConfirmConvert(c, h, role) ==
    /\ ConsoleFree
    /\ RoomFor(1)
    /\ calls[c] = Idle
    /\ MayDecide(h, "confirm-convert", role)
    /\ DraftComplete(h)
    /\ Convertible(h)
    /\ ApplyConvert(handoffs[h].lead)
    /\ MarkDone(h, role)
    /\ calls' = [calls EXCEPT ![c] = Await(handoffs[h].lead, "followup")]
    /\ UNCHANGED <<activities, runs, audits>>

(* applyConvert throws half way: the account row stays, the handoff stays   *)
(* pending.                                                                 *)
ConfirmConvertThrows(h, role) ==
    /\ ConsoleFree
    /\ MayDecide(h, "confirm-convert", role)
    /\ DraftComplete(h)
    /\ ~Convertible(h)
    /\ accounts' = accounts \cup {handoffs[h].lead}
    /\ UNCHANGED <<leads, opps, activities, handoffs, runs, audits, calls>>

ConfirmSend(h, role) ==
    LET l == handoffs[h].lead IN
    /\ ConsoleFree
    /\ MayDecide(h, "confirm-send", role)
    /\ activities' = [a \in DOMAIN activities |->
                        IF activities[a].lead = l
                        THEN [activities[a] EXCEPT !.effective = TRUE]
                        ELSE activities[a]]
    /\ SetLastActivity(l, "sent")
    /\ MarkDone(h, role)
    /\ UNCHANGED <<accounts, opps, runs, audits, calls>>

ConfirmWinLoss(h, role) ==
    LET l == handoffs[h].lead IN
    /\ ConsoleFree
    /\ MayDecide(h, "confirm-win-loss", role)
    /\ SetStage(l, handoffs[h].stage)
    /\ SetLastActivity(l, handoffs[h].stage)
    /\ MarkDone(h, role)
    /\ UNCHANGED <<accounts, activities, runs, audits, calls>>

(* History only: the requests in flight for the lead are marked. *)
MarkStopped(l) ==
    calls' = [c \in Calls |->
                IF calls[c] # Idle /\ calls[c].lead = l
                THEN [calls[c] EXCEPT !.stopped = TRUE] ELSE calls[c]]

(* Mutant of Reject: the handoff is marked done. *)
Reject_MarksDone(h, role) ==
    /\ ConsoleFree
    /\ MayDecide(h, handoffs[h].kind, role)
    /\ MarkDone(h, role)
    /\ SetLastActivity(handoffs[h].lead, "rejected")
    /\ MarkStopped(handoffs[h].lead)
    /\ UNCHANGED <<accounts, opps, activities, runs, audits>>

Reject(h, role) ==
    /\ ConsoleFree
    /\ MayDecide(h, handoffs[h].kind, role)
    /\ handoffs' = [handoffs EXCEPT ![h].status = "rejected",
                                    ![h].decidedBy = role]
    /\ SetLastActivity(handoffs[h].lead, "rejected")
    /\ MarkStopped(handoffs[h].lead)
    /\ UNCHANGED <<accounts, opps, activities, runs, audits>>

(* Mutant of ClearQueue: the banner is left as it is. *)
ClearQueue_OldBanner(l) ==
    /\ handoffs' = [h \in DOMAIN handoffs |->
                      IF h \in Queued(l)
                      THEN [handoffs[h] EXCEPT !.status = "aborted"]
                      ELSE handoffs[h]]
    /\ MarkStopped(l)
    /\ UNCHANGED <<leads, accounts, opps, activities, runs, audits>>

(* Every queued handoff of the lead, and only those, become aborted. *)
ClearQueue(l) ==
    /\ handoffs' = [h \in DOMAIN handoffs |->
                      IF h \in Queued(l)
                      THEN [handoffs[h] EXCEPT !.status = "aborted"]
                      ELSE handoffs[h]]
    /\ SetLastActivity(l, "aborted")
    /\ MarkStopped(l)
    /\ UNCHANGED <<accounts, opps, activities, runs, audits>>

AbortLead(l, role) ==
    /\ ConsoleFree
    /\ CanMutate(role)
    /\ ClearQueue(l)

AbortRun(r, role) ==
    /\ ConsoleFree
    /\ CanMutate(role)
    /\ ClearQueue(runs[r].lead)

(* The sales path of a stage change: a middle stage at once, a closing one  *)
(* by a handoff for the manager, under a run without tokens.                *)
AdvanceStage(l, stage, role) ==
    /\ ConsoleFree
    /\ CanMutate(role)
    /\ HasOpportunity(l)
    /\ ~SliceBusy(l)
    /\ \/ /\ stage \in ClosedStages
          /\ RoomFor(1)
          /\ RecordRun(l, "pipeline", "ended")
          /\ InsertHandoff([Handoff(l, "pipeline", "pending") EXCEPT
                              !.kind = "confirm-win-loss", !.stage = stage])
          /\ SetLastActivity(l, "closePending")
          /\ UNCHANGED opps
       \/ /\ stage \in MidStages
          /\ SetStage(l, stage)
          /\ SetLastActivity(l, "advanced")
          /\ UNCHANGED <<runs, handoffs>>
    /\ UNCHANGED <<accounts, activities, audits, calls>>

(* The process dies and starts again: the tables stay, the requests do not. *)
Crash ==
    /\ Crashes
    /\ InFlight # {}
    /\ calls' = [c \in Calls |-> Idle]
    /\ UNCHANGED <<leads, accounts, opps, activities, handoffs, runs, audits>>

Decide(h, role) ==
    \/ \E c \in Calls : ConfirmConvert(c, h, role)
    \/ ConfirmConvertThrows(h, role)
    \/ ConfirmSend(h, role)
    \/ ConfirmWinLoss(h, role)
    \/ Reject(h, role)

Next ==
    \/ \E c \in Calls : Answer(c)
    \/ \E role \in Roles :
         \/ \E l \in Leads :
              \/ \E c \in Calls : Ingest(c, l, role)
              \/ AbortLead(l, role)
              \/ \E stage \in Targets : AdvanceStage(l, stage, role)
         \/ \E h \in DOMAIN handoffs : Decide(h, role)
         \/ \E r \in DOMAIN runs : AbortRun(r, role)
    \/ Crash

Spec == Init /\ [][Next]_vars

(* Mutant of FairSpec: the runner has no timeout, a model call may hang. *)
FairSpec_NoTimeout == Spec /\ WF_vars(FALSE)

(* Every model call returns: the default runner gives up after 60 seconds.  *)
FairSpec == Spec /\ \A c \in Calls : WF_vars(Answer(c))

-----------------------------------------------------------------------------
(* Safety under any interleaving *)

(* A lead is converted exactly when it has its opportunity, and then it has *)
(* its account: the three objects and the status never part, whatever late  *)
(* answers, double confirmations and crashes do (applyConvert).             *)
ObjectsMatchStatus ==
    \A l \in Leads :
        /\ leads[l].status = "converted" <=> opps[l] # NoOpp
        /\ leads[l].status = "converted" => l \in accounts

ConvertConfirmed(l) ==
    \E h \in Rows(l) : /\ handoffs[h].kind = "confirm-convert"
                        /\ handoffs[h].status = "effective"

(* An agent works on a lead only after its predecessors are effective, and  *)
(* followup only after a confirmed conversion: the order of ingestLead and  *)
(* confirmHandoff, kept across re-ingests, aborts and crashes.              *)
AgentOrder ==
    \A c \in InFlight :
        LET l == calls[c].lead
            agent == calls[c].agent
        IN  /\ agent \in {"lead-intake", "pipeline"}
                  => HasEffective(l, "orchestrator")
            /\ agent = "pipeline" => HasEffective(l, "lead-intake")
            /\ agent = "followup" => /\ leads[l].status = "converted"
                                     /\ ConvertConfirmed(l)

(* Every handoff belongs to a run of its own, of the same lead and agent;   *)
(* a failed run has only a failed handoff (persistRun, insertHandoff, R1).  *)
RunOfHandoff ==
    /\ \A h \in DOMAIN handoffs :
          LET r == handoffs[h].run IN
          /\ r \in DOMAIN runs
          /\ runs[r].lead = handoffs[h].lead
          /\ runs[r].agent = handoffs[h].agent
          /\ runs[r].status = "failed" => handoffs[h].status = "failed"
    /\ \A h1, h2 \in DOMAIN handoffs :
          handoffs[h1].run = handoffs[h2].run => h1 = h2

RowsKept ==
    \A h \in DOMAIN handoffs :
        /\ h \in DOMAIN handoffs'
        /\ \/ handoffs'[h] = handoffs[h]
           \/ /\ handoffs[h].status = "pending"
              /\ handoffs'[h].status \in {"effective", "rejected", "aborted"}
              /\ handoffs'[h] = [handoffs[h] EXCEPT
                                   !.status = handoffs'[h].status,
                                   !.decidedBy = handoffs'[h].decidedBy]

RunsKept == \A r \in DOMAIN runs : r \in DOMAIN runs' /\ runs'[r] = runs[r]

(* Handoff rows and runs are never deleted or relabelled; a status changes  *)
(* only from pending to a decision, and a decision is final, whichever of   *)
(* two racing confirm, reject and abort requests comes second.              *)
HistoryKept == [][RowsKept /\ RunsKept]_vars

(* In this step one of roles confirms a pending handoff of l of this kind.  *)
ConfirmedNow(h, kind, roles) ==
    /\ handoffs[h].kind = kind
    /\ handoffs[h].status = "pending"
    /\ handoffs'[h].status = "effective"
    /\ handoffs'[h].decidedBy \in roles

(* A lead is converted only by a person who confirms a pending conversion   *)
(* of it, and a conversion is never undone.                                 *)
ConversionByHuman ==
    [][\A l \in Leads :
         leads'[l].status # leads[l].status =>
            /\ leads'[l].status = "converted"
            /\ \E h \in Rows(l) :
                  ConfirmedNow(h, "confirm-convert", {"sales", "manager"})]_vars

(* An opportunity is won or lost only by a manager who confirms a handoff   *)
(* that proposed just that, whoever else moves the stage meanwhile.         *)
CloseByManager ==
    [][\A l \in Leads :
         opps'[l] \in ClosedStages /\ opps'[l] # opps[l] =>
            \E h \in Rows(l) :
               /\ ConfirmedNow(h, "confirm-win-loss", {"manager"})
               /\ handoffs[h].stage = opps'[l]]_vars

(* An activity becomes effective only when a person confirms a send for its *)
(* own lead, and stays effective.                                           *)
SendByHuman ==
    [][\A a \in DOMAIN activities :
         activities'[a].effective # activities[a].effective =>
            /\ activities'[a].effective
            /\ \E h \in Rows(activities[a].lead) :
                  ConfirmedNow(h, "confirm-send", {"sales", "manager"})]_vars

(* Nothing a customer sees takes effect but by the person who may decide    *)
(* it: conversions, closings and sends (confirmHandoff, canConfirm).        *)
EffectsByHuman == ConversionByHuman /\ CloseByManager /\ SendByHuman

(* A failed handoff ends its request and comes with no business write, and  *)
(* a request reaches its next agent only over an effective handoff (R3).    *)
FailureStops ==
    [][LET added == handoffs'[Len(handoffs')] IN
       /\ Len(handoffs') > Len(handoffs) /\ added.status = "failed" =>
            /\ UNCHANGED <<leads, accounts, opps, activities>>
            /\ \E c \in InFlight : calls'[c] = Idle
       /\ \A c \in InFlight :
            calls'[c] # Idle /\ calls'[c].agent # calls[c].agent =>
               /\ Len(handoffs') > Len(handoffs)
               /\ added.agent = calls[c].agent
               /\ added.lead = calls[c].lead
               /\ added.status = "effective"]_vars

-----------------------------------------------------------------------------
(* What the console promises: the implementation of LeadLifecycle *)

(* The handoffs without the agents and runs that brought them. *)
Timeline ==
    [h \in DOMAIN handoffs |->
        [lead |-> handoffs[h].lead, kind |-> handoffs[h].kind,
         stage |-> handoffs[h].stage, status |-> handoffs[h].status,
         decidedBy |-> handoffs[h].decidedBy]]

Drafts ==
    [a \in DOMAIN activities |->
        [lead |-> activities[a].lead, effective |-> activities[a].effective]]

Life == INSTANCE LeadLifecycle
            WITH stage <- opps, drafts <- Drafts, timeline <- Timeline

(* Every step of a request, an agent or a crash is, for the lead, a step of *)
(* its lifecycle or no step: agents only report and ask, and a grant takes  *)
(* effect in the very step that decides it, with everything it asked for    *)
(* and nothing else (applyJson, confirmHandoff, abortRun).                  *)
Lifecycle == Life!Spec

-----------------------------------------------------------------------------
(* Safety when the console waits for each answer (ConsoleLock) *)

(* At most one handoff of a lead waits for a person: what sliceBusy is for. *)
OnePending == \A l \in Leads : Cardinality(Queued(l)) <= 1

(* A lead is assigned, filed and converted at most once: the four kinds of  *)
(* handoff appear once each, in order, over re-ingests, rejections, failed  *)
(* runs and restarts (Q1, R1).                                              *)
EffectiveOnce ==
    \A l \in Leads : \A h1, h2 \in Rows(l) :
        /\ handoffs[h1].status = "effective"
        /\ handoffs[h2].status = "effective"
        /\ handoffs[h1].agent = handoffs[h2].agent
        /\ handoffs[h1].kind = handoffs[h2].kind
        /\ handoffs[h1].kind \in {"none", "confirm-convert", "confirm-send"}
        => h1 = h2

(* An effective activity was confirmed itself: no confirmation sends a      *)
(* draft whose own handoff is open, rejected or aborted.                    *)
SendsOwnDraft ==
    \A a \in DOMAIN activities :
        activities[a].effective =>
            handoffs[activities[a].handoff].status = "effective"

(* The banner of the lead announces a pending decision only while there is  *)
(* one of that kind (the lastActivity texts).                               *)
BannerTrue ==
    \A l \in Leads :
        LET says(text) == leads[l].lastActivity = text
            waits(kind) == \E h \in Queued(l) : handoffs[h].kind = kind
        IN  /\ says("convertPending") => waits("confirm-convert")
            /\ says("sendPending") => waits("confirm-send")
            /\ says("closePending") => waits("confirm-win-loss")

(* Only a proposal without a contact title leaves something of a conversion *)
(* behind: a lead with an account that is not converted has such a proposal *)
(* on its timeline, which no later confirmation makes effective             *)
(* (applyConvert, whose inserts no transaction holds together; a crash      *)
(* between them is in SliceWrites).                                         *)
NothingBeforeConversion ==
    \A l \in accounts :
        leads[l].status = "new" =>
            \E h \in Rows(l) : /\ handoffs[h].kind = "confirm-convert"
                                /\ handoffs[h].payload = "untitled"
                                /\ handoffs[h].status # "effective"

(* A recorded run without a handoff is one whose own write the tables       *)
(* refused, of orchestrator or followup: lead-intake and pipeline always    *)
(* show what they did, and a failed run always shows (R3).                  *)
RunsVisible ==
    \A r \in DOMAIN runs :
        \/ \E h \in DOMAIN handoffs : handoffs[h].run = r
        \/ runs[r].status = "ended" /\ runs[r].agent \in {"orchestrator", "followup"}

(* A conversion that did not happen can be asked for again: of a lead that  *)
(* is not converted no pipeline handoff is effective but one that moved or  *)
(* closed the stage it does not have, which applyJson accepts of any lead   *)
(* and after which ingestLead skips pipeline for good.                      *)
ProposalStaysOpen ==
    \A l \in Leads : \A h \in Rows(l) :
        /\ leads[l].status = "new"
        /\ handoffs[h].agent = "pipeline"
        /\ handoffs[h].status = "effective"
        => handoffs[h].kind \in {"none", "confirm-win-loss"}

-----------------------------------------------------------------------------
(* What the documents say and the code does not keep *)

(* After an abort or a rejection of a lead, a request that was in flight    *)
(* for it appends nothing but a failure.                                    *)
StoppedAppendsNothing ==
    [][\A c \in InFlight :
         /\ calls[c].stopped
         /\ calls'[c] # calls[c]
         /\ Len(handoffs') > Len(handoffs)
         => handoffs'[Len(handoffs')].status = "failed"]_vars

(* A confirmed conversion brings a follow-up handoff, be it a draft or a    *)
(* visible failure: a step that fails shows on the timeline (R3).  Under    *)
(* FairSpec.                                                                *)
FollowupArrives ==
    \A l \in Leads :
        ConvertConfirmed(l) ~>
            \E h \in Rows(l) : handoffs[h].agent = "followup"

-----------------------------------------------------------------------------
(* Liveness, under FairSpec *)

(* Every request returns, however many agents it has to wait for.           *)
RequestsReturn == \A c \in Calls : calls[c] # Idle ~> calls[c] = Idle

=============================================================================
