----------------------------- MODULE SliceWrites -----------------------------
(***************************************************************************)
(* The writes of the scheduler, statement by statement.                    *)
(*                                                                         *)
(* No request opens a transaction: every row and every update commits by   *)
(* itself, and the process may die between any two of them.  Scheduler     *)
(* takes what runs between two awaits as one step and interleaves requests *)
(* instead; here one lead is served, one request after the other, and one  *)
(* action is one statement.  Roles are left to Scheduler: a request here   *)
(* is one whose role may make it and whose draft is complete.  So are the  *)
(* banners of last_activity.                                               *)
(***************************************************************************)
EXTENDS Naturals, Sequences, FiniteSets

CONSTANTS
    MaxRuns,    \* bound: a request that starts a run finds fewer than these
    MaxCrashes  \* bound: crashes

ASSUME BoundsAssumption == MaxRuns \in Nat /\ MaxCrashes \in Nat

VARIABLES
    runs,       \* agent_runs; booked: the run has its token_ledger row
    handoffs,   \* the timeline of the lead
    lead,       \* its row: converted, and the fields two agents fill in
    objects,    \* which of its account, contact and opportunity are there
    stage,      \* of the opportunity
    activities, \* of the opportunity: the column effective
    denials,    \* audit_events of refused writes
    at,         \* the statement the process is at
    job,        \* what it is doing
    crashes

rows == <<runs, handoffs, lead, objects, stage, activities, denials>>
vars == <<rows, at, job, crashes>>

Agents == {"orchestrator", "lead-intake", "pipeline", "followup"}
Intake == {"orchestrator", "lead-intake"}
MidStages == {"open", "quote", "talk"}
ClosedStages == {"won", "lost"}
NoStage == "nostage"
Stages == MidStages \cup ClosedStages \cup {NoStage}
Statuses == {"pending", "effective", "rejected", "aborted", "failed"}
Kinds == {"none", "convert", "send", "close", "denied"}

Row == [run : Nat, agent : Agents, status : Statuses, kind : Kinds, stage : Stages]
Objects == {"account", "contact", "opportunity"}

\* Where a request of the console or the answer of a model begins, the writes
\* after the pair of run and ledger row, and those of a decision.
Places == {"idle", "await", "run", "token", "audit", "owner", "describe", "stage", "draft",
           "handoff", "next", "account", "contact", "opportunity", "convert", "send", "done",
           "followup", "reject", "abort"}

\* row is the handoff to come, tokens what its call cost, after the statement
\* that follows the ledger row, then the one that follows a stage, target the
\* handoff a decision is about.
Job == [row : Row, tokens : {0, 1}, target : Nat, then : {"idle", "handoff", "done"},
        after : {"idle", "audit", "owner", "describe", "stage", "draft", "handoff"}]

NoRow == [run |-> 0, agent |-> "pipeline", status |-> "failed", kind |-> "none", stage |-> NoStage]
NoJob == [row |-> NoRow, tokens |-> 0, after |-> "idle", then |-> "idle", target |-> 0]

TypeOK ==
    /\ runs \in Seq([tokens : {0, 1}, booked : BOOLEAN])
    /\ handoffs \in Seq(Row)
    /\ lead \in [converted : BOOLEAN, owner : BOOLEAN, described : BOOLEAN]
    /\ objects \subseteq Objects
    /\ stage \in Stages
    /\ activities \in Seq(BOOLEAN)
    /\ denials \in Nat
    /\ at \in Places /\ job \in Job
    /\ crashes \in 0 .. MaxCrashes

Init ==
    /\ runs = <<>> /\ handoffs = <<>>
    /\ lead = [converted |-> FALSE, owner |-> FALSE, described |-> FALSE]
    /\ objects = {} /\ stage = NoStage /\ activities = <<>> /\ denials = 0
    /\ at = "idle" /\ job = NoJob /\ crashes = 0

HasEffective(agent) ==
    \E i \in DOMAIN handoffs : handoffs[i].agent = agent /\ handoffs[i].status = "effective"
SliceBusy == \E i \in DOMAIN handoffs : handoffs[i].status = "pending"
Converted == "opportunity" \in objects

-----------------------------------------------------------------------------
(* dispatch: the call, and what its answer writes.                         *)

Call(agent) ==
    /\ at' = "await"
    /\ job' = [NoJob EXCEPT !.row = [NoRow EXCEPT !.agent = agent], !.tokens = 1]

(* Mutant of Continue: an ingest starts over. *)
Continue_FromStart ==
    IF HasEffective("pipeline") THEN at' = "idle" /\ job' = NoJob
    ELSE IF job.row.agent = "orchestrator" THEN Call("lead-intake")
    ELSE IF job.row.agent = "lead-intake" THEN Call("pipeline")
    ELSE Call("orchestrator")

\* The first step that has no effective handoff yet.
Continue ==
    IF ~HasEffective("orchestrator") THEN Call("orchestrator")
    ELSE IF ~HasEffective("lead-intake") THEN Call("lead-intake")
    ELSE IF ~HasEffective("pipeline") THEN Call("pipeline")
    ELSE at' = "idle" /\ job' = NoJob

\* Once the row of the run and its ledger row are written: first, then a handoff.
Answers(agent, first, then, status, kind, to) ==
    /\ at = "await" /\ job.row.agent = agent
    /\ at' = "run"
    /\ job' = [job EXCEPT !.after = first, !.then = then,
                          !.row = [run |-> 0, agent |-> agent, status |-> status,
                                   kind |-> kind, stage |-> to]]
    /\ UNCHANGED <<rows, crashes>>

\* A call that fails, text that is no JSON, an answer that does not fit.
Fails(agent) == Answers(agent, "handoff", "idle", "failed", "none", NoStage)
Denied(agent) == Answers(agent, "audit", "idle", "failed", "denied", NoStage)

Owner == Answers("orchestrator", "owner", "idle", "effective", "none", NoStage)
Description == Answers("lead-intake", "describe", "idle", "effective", "none", NoStage)
Proposal == Answers("pipeline", "handoff", "idle", "pending", "convert", NoStage)
Advance(to) == Answers("pipeline", "stage", "handoff", "effective", "none", to)
Close(to) == Answers("pipeline", "handoff", "idle", "pending", "close", to)
Draft == Converted /\ Answers("followup", "draft", "idle", "pending", "send", NoStage)

Answer ==
    \/ \E agent \in Agents : Fails(agent) \/ Denied(agent)
    \/ Owner \/ Description \/ Proposal \/ Draft
    \/ \E to \in MidStages : Advance(to)
    \/ \E to \in ClosedStages : Close(to)

-----------------------------------------------------------------------------
(* Requests of the console.                                                *)

Request == at = "idle"

Ingest ==
    /\ Request /\ Len(runs) < MaxRuns
    /\ ~lead.converted /\ ~SliceBusy
    /\ Continue
    /\ UNCHANGED <<rows, crashes>>

Pending(i, kind) == handoffs[i].status = "pending" /\ handoffs[i].kind = kind

Decide(i, first, then) ==
    /\ at' = first
    /\ job' = [NoJob EXCEPT !.target = i, !.then = then,
                            !.row = [NoRow EXCEPT !.kind = handoffs[i].kind,
                                                  !.stage = handoffs[i].stage]]
    /\ UNCHANGED <<rows, crashes>>

\* applyConvert writes nothing for a lead that is converted.
ConfirmConvert(i) ==
    /\ Request /\ Pending(i, "convert") /\ Len(runs) < MaxRuns
    /\ Decide(i, IF lead.converted THEN "done" ELSE "account", "idle")

ConfirmSend(i) ==
    /\ Request /\ Pending(i, "send")
    /\ Decide(i, IF Converted THEN "send" ELSE "done", "idle")

ConfirmWinLoss(i) == Request /\ Pending(i, "close") /\ Decide(i, "stage", "done")

RejectHandoff(i) ==
    /\ Request /\ handoffs[i].status = "pending"
    /\ Decide(i, "reject", "idle")

AbortLead ==
    /\ Request
    /\ at' = "abort" /\ job' = NoJob
    /\ UNCHANGED <<rows, crashes>>

AdvanceStage(to) ==
    /\ Request /\ Converted /\ ~SliceBusy
    /\ IF to \in ClosedStages
       THEN /\ Len(runs) < MaxRuns
            /\ at' = "run"
            /\ job' = [NoJob EXCEPT !.after = "handoff",
                                    !.row = [NoRow EXCEPT !.status = "pending", !.kind = "close",
                                                          !.stage = to]]
       ELSE at' = "stage" /\ job' = [NoJob EXCEPT !.row = [NoRow EXCEPT !.stage = to]]
    /\ UNCHANGED <<rows, crashes>>

-----------------------------------------------------------------------------
(* The statements.                                                         *)

Goes(to) == at' = to /\ UNCHANGED job
Ends == at' = "idle" /\ job' = NoJob

\* persistRun.
RunRow ==
    /\ at = "run"
    /\ runs' = Append(runs, [tokens |-> job.tokens, booked |-> FALSE])
    /\ at' = "token" /\ job' = [job EXCEPT !.row.run = Len(runs) + 1]
    /\ UNCHANGED <<handoffs, lead, objects, stage, activities, denials, crashes>>

(* Mutant of TokenRow: a run without tokens gets no ledger row. *)
TokenRow_Charged ==
    /\ at = "token"
    /\ runs' = [runs EXCEPT ![job.row.run].booked = (job.tokens > 0)]
    /\ Goes(job.after)
    /\ UNCHANGED <<handoffs, lead, objects, stage, activities, denials, crashes>>

TokenRow ==
    /\ at = "token"
    /\ runs' = [runs EXCEPT ![job.row.run].booked = TRUE]
    /\ Goes(job.after)
    /\ UNCHANGED <<handoffs, lead, objects, stage, activities, denials, crashes>>

AuditRow ==
    /\ at = "audit"
    /\ denials' = denials + 1
    /\ Goes("handoff")
    /\ UNCHANGED <<runs, handoffs, lead, objects, stage, activities, crashes>>

\* Insert, then the next step of an ingest.
HandoffRow ==
    /\ at = "handoff"
    /\ handoffs' = Append(handoffs, job.row)
    /\ IF job.row.agent \in Intake /\ job.row.status = "effective" THEN Goes("next") ELSE Ends
    /\ UNCHANGED <<runs, lead, objects, stage, activities, denials, crashes>>

NextStep == at = "next" /\ Continue /\ UNCHANGED <<rows, crashes>>

LeadFields ==
    /\ \/ at = "owner" /\ lead' = [lead EXCEPT !.owner = TRUE]
       \/ at = "describe" /\ lead' = [lead EXCEPT !.described = TRUE]
    /\ Goes("handoff")
    /\ UNCHANGED <<runs, handoffs, objects, stage, activities, denials, crashes>>

\* The update names no row of a lead without an opportunity.
StageField ==
    /\ at = "stage"
    /\ stage' = IF Converted THEN job.row.stage ELSE stage
    /\ IF job.then = "idle" THEN Ends ELSE Goes(job.then)
    /\ UNCHANGED <<runs, handoffs, lead, objects, activities, denials, crashes>>

DraftRow ==
    /\ at = "draft"
    /\ activities' = Append(activities, FALSE)
    /\ Goes("handoff")
    /\ UNCHANGED <<runs, handoffs, lead, objects, stage, denials, crashes>>

\* applyConvert: three rows, each of which names the one before, and the status.
ObjectRow(object, then) ==
    /\ at = object /\ object \notin objects
    /\ objects' = objects \cup {object}
    /\ stage' = IF object = "opportunity" THEN "open" ELSE stage
    /\ Goes(then)
    /\ UNCHANGED <<runs, handoffs, lead, activities, denials, crashes>>

(* Mutant of ConvertLead: the status first, then the rows. *)
ConvertLead_First ==
    /\ \/ at = "account" /\ ~lead.converted /\ UNCHANGED <<at, job>>
       \/ at = "convert" /\ Goes("done")
    /\ lead' = [lead EXCEPT !.converted = TRUE]
    /\ UNCHANGED <<runs, handoffs, objects, stage, activities, denials, crashes>>

ConvertLead ==
    /\ at = "convert"
    /\ lead' = [lead EXCEPT !.converted = TRUE]
    /\ Goes("done")
    /\ UNCHANGED <<runs, handoffs, objects, stage, activities, denials, crashes>>

SendDrafts ==
    /\ at = "send"
    /\ activities' = [i \in DOMAIN activities |-> TRUE]
    /\ Goes("done")
    /\ UNCHANGED <<runs, handoffs, lead, objects, stage, denials, crashes>>

MarkDone ==
    /\ at = "done"
    /\ handoffs' = [handoffs EXCEPT ![job.target].status = "effective"]
    /\ IF job.row.kind = "convert" THEN Goes("followup") ELSE Ends
    /\ UNCHANGED <<runs, lead, objects, stage, activities, denials, crashes>>

Followup == at = "followup" /\ Call("followup") /\ UNCHANGED <<rows, crashes>>

Reject ==
    /\ at = "reject"
    /\ handoffs' = [handoffs EXCEPT ![job.target].status = "rejected"]
    /\ Ends
    /\ UNCHANGED <<runs, lead, objects, stage, activities, denials, crashes>>

ClearQueue ==
    /\ at = "abort"
    /\ handoffs' = [i \in DOMAIN handoffs |->
                       IF handoffs[i].status = "pending"
                       THEN [handoffs[i] EXCEPT !.status = "aborted"] ELSE handoffs[i]]
    /\ Ends
    /\ UNCHANGED <<runs, lead, objects, stage, activities, denials, crashes>>

\* accounts.lead_id is unique; the database refuses what an answer may bring: an
\* owner who is no user, a draft without text, a contact without title.
Throws ==
    /\ \/ at = "account" /\ "account" \in objects
       \/ at \in {"owner", "draft", "contact"}
    /\ Ends
    /\ UNCHANGED <<rows, crashes>>

\* The process dies; a request in hand is not taken up again.
Crash ==
    /\ at # "idle" /\ crashes < MaxCrashes
    /\ crashes' = crashes + 1
    /\ Ends
    /\ UNCHANGED rows

-----------------------------------------------------------------------------
Statement ==
    \/ RunRow \/ TokenRow \/ AuditRow \/ HandoffRow \/ NextStep
    \/ LeadFields \/ StageField \/ DraftRow
    \/ ObjectRow("account", "contact") \/ ObjectRow("contact", "opportunity")
    \/ ObjectRow("opportunity", "convert") \/ ConvertLead
    \/ SendDrafts \/ MarkDone \/ Followup \/ Reject \/ ClearQueue
    \/ Throws

Requests ==
    \/ Ingest \/ AbortLead
    \/ \E i \in DOMAIN handoffs :
           ConfirmConvert(i) \/ ConfirmSend(i) \/ ConfirmWinLoss(i) \/ RejectHandoff(i)
    \/ \E to \in MidStages \cup ClosedStages : AdvanceStage(to)

Next == Requests \/ Answer \/ Statement \/ Crash

Spec == Init /\ [][Next]_vars

-----------------------------------------------------------------------------
(* What must hold.                                                         *)

\* usageBreakdown: what the runs cost, and what the ledger says they cost.
RunSum == Cardinality({i \in DOMAIN runs : runs[i].tokens = 1})
LedgerSum == Cardinality({i \in DOMAIN runs : runs[i].tokens = 1 /\ runs[i].booked})

\* The total of the console is the sum of the runs whenever a request is done.
LedgerExact == at = "idle" => LedgerSum = RunSum

\* What a crash can take from the ledger: one row each, besides the row the
\* process is about to write. Refused writes, failed calls and rejections take none.
Unbooked == {i \in DOMAIN runs : ~runs[i].booked}
LedgerLossBounded ==
    Cardinality(Unbooked) <= crashes + (IF at = "token" THEN 1 ELSE 0)

\* A handoff says effective only after the rows it claims were written, wherever
\* the process died: an owner, a description, all three objects with the status,
\* the drafts sent. A refusal is shown only once it is in the audit.
EffectiveIsWritten ==
    /\ HasEffective("orchestrator") => lead.owner
    /\ HasEffective("lead-intake") => lead.described
    /\ lead.converted => objects = Objects
    /\ \A i \in DOMAIN handoffs : handoffs[i].status = "effective" =>
           /\ handoffs[i].kind = "convert" => lead.converted
           /\ handoffs[i].kind = "send" => \A k \in DOMAIN activities : activities[k]
    /\ Cardinality({i \in DOMAIN handoffs : handoffs[i].kind = "denied"}) <= denials

\* Over any crashes and retries: each step of an ingest takes effect once, one
\* decision waits, and no run id is used by two handoffs.
ResumesOnce ==
    \A i, j \in DOMAIN handoffs : i # j =>
        /\ handoffs[i].run # handoffs[j].run
        /\ handoffs[i].status = "pending" => handoffs[j].status # "pending"
        /\ handoffs[i].agent = handoffs[j].agent /\ handoffs[i].agent \in Intake =>
               "effective" \notin {handoffs[i].status} \cap {handoffs[j].status}
=============================================================================
