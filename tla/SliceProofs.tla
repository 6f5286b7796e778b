----------------------------- MODULE SliceProofs -----------------------------
(***************************************************************************)
(* What holds of SliceWrites for any number of runs and of crashes: the    *)
(* proofs.                                                                 *)
(***************************************************************************)
EXTENDS SliceWrites, FiniteSetTheorems, TLAPS

Rec == [tokens : {0, 1}, booked : BOOLEAN]

\* The parts of TypeOK.
RowsOK ==
    /\ runs \in Seq(Rec) /\ handoffs \in Seq(Row)
    /\ lead \in [converted : BOOLEAN, owner : BOOLEAN, described : BOOLEAN]
    /\ objects \subseteq Objects /\ stage \in Stages
    /\ activities \in Seq(BOOLEAN) /\ denials \in Nat
PlaceOK == at \in Places /\ job \in Job

\* The process is about to write the ledger row of a run that has none.
Owing == at = "token" => job.row.run \in DOMAIN runs /\ ~runs[job.row.run].booked

Slack == crashes + (IF at = "token" THEN 1 ELSE 0)
Loss == IsFiniteSet(Unbooked) /\ Cardinality(Unbooked) <= Slack

IInv == RowsOK /\ PlaceOK /\ crashes \in 0 .. MaxCrashes /\ Owing /\ Loss

LEMMA Consequences == ASSUME IInv PROVE TypeOK /\ LedgerLossBounded
  BY DEF IInv, RowsOK, PlaceOK, Rec, Loss, Slack, TypeOK, LedgerLossBounded

-----------------------------------------------------------------------------
(* Where the process goes.                                                 *)

(* No job is the job of a process at rest.                                  *)
LEMMA Resting == NoJob \in Job /\ NoRow \in Row
  BY DEF NoJob, NoRow, Job, Row, Agents, Statuses, Kinds, Stages, NoStage

(* A call is awaited with the agent it asks.                                *)
LEMMA CallType ==
    ASSUME NEW agent \in Agents, Call(agent)
    PROVE  at' = "await" /\ job' \in Job
  BY Resting DEF Call, NoJob, NoRow, Job, Row, Agents, Statuses, Kinds, Stages, NoStage

LEMMA ContinueType ==
    ASSUME Continue PROVE at' \in {"idle", "await"} /\ job' \in Job
  BY CallType, Resting DEF Continue, Agents

(* A request or an answer leaves the rows, so it leaves what is owed.       *)
LEMMA RowsKept ==
    ASSUME IInv, PlaceOK', at' # "token", at # "token", UNCHANGED <<rows, crashes>>
    PROVE  IInv'
<1>1. RowsOK'
  BY DEF IInv, RowsOK, rows
<1>2. Unbooked' = Unbooked /\ Slack' = Slack
  BY DEF Unbooked, Slack, rows
<1>3. Loss'
  BY <1>2 DEF IInv, Loss
<1>4. QED
  BY <1>1, <1>3 DEF IInv, Owing

(* A statement that writes neither a run nor a ledger row.                  *)
LEMMA LedgerKept ==
    ASSUME IInv, RowsOK', PlaceOK', at' # "token", at # "token", UNCHANGED <<runs, crashes>>
    PROVE  IInv'
<1>1. Unbooked' = Unbooked /\ Slack' = Slack
  BY DEF Unbooked, Slack
<1>2. Loss'
  BY <1>1 DEF IInv, Loss
<1>3. QED
  BY <1>2 DEF IInv, Owing

(* The process is not on its way to a ledger row after Goes or Ends.        *)
LEMMA JobFields ==
    ASSUME PlaceOK
    PROVE  /\ job.after \in Places \ {"token"} /\ job.then \in Places \ {"token"}
           /\ job.row \in Row /\ job.tokens \in {0, 1} /\ job.target \in Nat
  BY DEF PlaceOK, Job, Places

LEMMA EndsType == ASSUME Ends PROVE PlaceOK' /\ at' # "token"
  BY Resting DEF Ends, PlaceOK, Places

LEMMA GoesType ==
    ASSUME PlaceOK, NEW to \in Places \ {"token"}, Goes(to) PROVE PlaceOK' /\ at' # "token"
  BY DEF Goes, PlaceOK

-----------------------------------------------------------------------------
(* Answers and requests.                                                   *)

LEMMA AnswersStep ==
    ASSUME IInv, NEW agent \in Agents, NEW first, NEW then, NEW word \in Statuses,
           NEW kind \in Kinds, NEW to \in Stages,
           first \in {"idle", "audit", "owner", "describe", "stage", "draft", "handoff"},
           then \in {"idle", "handoff", "done"},
           Answers(agent, first, then, word, kind, to)
    PROVE  IInv'
<1> DEFINE row == [run |-> 0, agent |-> agent, status |-> word, kind |-> kind, stage |-> to]
<1>1. row \in Row
  BY DEF Row
<1> HIDE DEF row
<1>2. /\ at = "await" /\ at' = "run" /\ UNCHANGED <<rows, crashes>>
      /\ job' = [job EXCEPT !.after = first, !.then = then, !.row = row]
  BY DEF Answers, row
<1>3. job' \in Job
  BY <1>1, <1>2 DEF IInv, PlaceOK, Job
<1>4. PlaceOK'
  BY <1>2, <1>3 DEF PlaceOK, Places
<1>5. QED
  BY <1>2, <1>4, RowsKept

LEMMA AnswerStep ==
    ASSUME IInv, Answer PROVE IInv'
<1> USE DEF Agents, Statuses, Kinds, Stages, MidStages, ClosedStages
<1>1. ASSUME NEW agent \in Agents, Fails(agent) \/ Denied(agent) PROVE IInv'
  BY <1>1, AnswersStep DEF Fails, Denied
<1>2. CASE Owner \/ Description \/ Proposal \/ Draft
  BY <1>2, AnswersStep DEF Owner, Description, Proposal, Draft
<1>3. ASSUME NEW to \in MidStages, Advance(to) PROVE IInv'
  BY <1>3, AnswersStep DEF Advance
<1>4. ASSUME NEW to \in ClosedStages, Close(to) PROVE IInv'
  BY <1>4, AnswersStep DEF Close
<1>5. QED
  BY <1>1, <1>2, <1>3, <1>4 DEF Answer

(* A decision takes the kind and the stage of the handoff it is about.      *)
LEMMA DecideStep ==
    ASSUME IInv, at = "idle", NEW i \in DOMAIN handoffs, NEW first, NEW then,
           first \in Places \ {"token"}, then \in {"idle", "handoff", "done"},
           Decide(i, first, then)
    PROVE  IInv'
<1> DEFINE row == [NoRow EXCEPT !.kind = handoffs[i].kind, !.stage = handoffs[i].stage]
<1>1. handoffs[i] \in Row
  BY DEF IInv, RowsOK
<1>2. row \in Row
  BY <1>1, Resting DEF Row
<1> HIDE DEF row
<1>3. /\ at' = first /\ UNCHANGED <<rows, crashes>>
      /\ job' = [NoJob EXCEPT !.target = i, !.then = then, !.row = row]
  BY DEF Decide, row
<1>4. i \in Nat
  BY DEF IInv, RowsOK
<1>5. job' \in Job
  BY <1>2, <1>3, <1>4, Resting DEF Job
<1>6. PlaceOK'
  BY <1>3, <1>5 DEF PlaceOK
<1>7. QED
  BY <1>3, <1>6, RowsKept

LEMMA AdvanceStageStep ==
    ASSUME IInv, NEW to \in MidStages \cup ClosedStages, AdvanceStage(to) PROVE IInv'
<1>1. to \in Stages
  BY DEF Stages
<1>2. NoRow \in Row /\ NoJob \in Job
  BY Resting
<1>3. job' \in Job /\ at' \in {"run", "stage"}
  <2>1. CASE to \in ClosedStages
    <3>1. [NoRow EXCEPT !.status = "pending", !.kind = "close", !.stage = to] \in Row
      BY <1>1, <1>2 DEF Row, Statuses, Kinds
    <3>2. QED
      BY <1>2, <2>1, <3>1 DEF AdvanceStage, Job
  <2>2. CASE to \notin ClosedStages
    <3>1. [NoRow EXCEPT !.stage = to] \in Row
      BY <1>1, <1>2 DEF Row
    <3>2. QED
      BY <1>2, <2>2, <3>1 DEF AdvanceStage, Job
  <2>3. QED
    BY <2>1, <2>2
<1>4. PlaceOK' /\ at' # "token"
  BY <1>3 DEF PlaceOK, Places
<1>5. at # "token" /\ UNCHANGED <<rows, crashes>>
  BY DEF AdvanceStage, Request
<1>6. QED
  BY <1>4, <1>5, RowsKept

LEMMA RequestStep ==
    ASSUME IInv, Requests PROVE IInv'
<1>1. CASE Ingest
  <2>1. Continue /\ UNCHANGED <<rows, crashes>> /\ at # "token"
    BY <1>1 DEF Ingest, Request
  <2>2. PlaceOK' /\ at' # "token"
    BY <2>1, ContinueType DEF PlaceOK, Places
  <2>3. QED
    BY <2>1, <2>2, RowsKept
<1>2. CASE AbortLead
  <2>1. PlaceOK' /\ at' # "token"
    BY <1>2, Resting DEF AbortLead, PlaceOK, Places
  <2>2. QED
    BY <1>2, <2>1, RowsKept DEF AbortLead, Request
<1>3. ASSUME NEW i \in DOMAIN handoffs,
             ConfirmConvert(i) \/ ConfirmSend(i) \/ ConfirmWinLoss(i) \/ RejectHandoff(i)
      PROVE  IInv'
  <2>1. at = "idle"
    BY <1>3 DEF ConfirmConvert, ConfirmSend, ConfirmWinLoss, RejectHandoff, Request
  <2>2. PICK first \in {"done", "account", "send", "stage", "reject"}, then \in {"idle", "done"} :
            Decide(i, first, then)
    BY <1>3 DEF ConfirmConvert, ConfirmSend, ConfirmWinLoss, RejectHandoff
  <2>3. QED
    BY <2>1, <2>2, DecideStep DEF Places
<1>4. ASSUME NEW to \in MidStages \cup ClosedStages, AdvanceStage(to) PROVE IInv'
  BY <1>4, AdvanceStageStep
<1>5. QED
  BY <1>1, <1>2, <1>3, <1>4 DEF Requests

-----------------------------------------------------------------------------
(* The two statements of persistRun.                                       *)

(* A new run is the one more that is not booked.                            *)
LEMMA RunRowStep ==
    ASSUME IInv, RunRow PROVE IInv'
<1> DEFINE new == [tokens |-> job.tokens, booked |-> FALSE]
<1>1. /\ at = "run" /\ at' = "token" /\ runs' = Append(runs, new)
      /\ job' = [job EXCEPT !.row.run = Len(runs) + 1]
      /\ UNCHANGED <<handoffs, lead, objects, stage, activities, denials, crashes>>
  BY DEF RunRow
<1>2. new \in Rec /\ new.booked = FALSE
  BY JobFields DEF IInv, Rec
<1> HIDE DEF new
<1>3. PICK n \in Nat : n = Len(runs) + 1
  BY DEF IInv, RowsOK
<1>4. /\ runs' \in Seq(Rec) /\ n \notin DOMAIN runs /\ DOMAIN runs' = DOMAIN runs \cup {n}
      /\ \A i \in DOMAIN runs : runs'[i] = runs[i]
      /\ runs'[n] = new
  BY <1>1, <1>2, <1>3 DEF IInv, RowsOK
<1>5. RowsOK'
  BY <1>1, <1>4 DEF IInv, RowsOK
<1>6. job'.row.run = n /\ job' \in Job
  <2>1. job.row \in Row /\ job \in Job
    BY JobFields DEF IInv, PlaceOK
  <2>2. [job.row EXCEPT !.run = n] \in Row /\ [job.row EXCEPT !.run = n].run = n
    BY <2>1 DEF Row
  <2>3. job' = [job EXCEPT !.row = [job.row EXCEPT !.run = n]]
    BY <1>1, <1>3
  <2>4. QED
    BY <2>1, <2>2, <2>3 DEF Job
<1>7. PlaceOK'
  BY <1>1, <1>6 DEF PlaceOK, Places
<1>8. Owing'
  BY <1>2, <1>4, <1>6 DEF Owing
<1>9. Unbooked' = Unbooked \cup {n} /\ n \notin Unbooked
  BY <1>2, <1>4 DEF Unbooked
<1>10. IsFiniteSet(Unbooked') /\ Cardinality(Unbooked') = Cardinality(Unbooked) + 1
  BY <1>9, FS_AddElement DEF IInv, Loss
<1>11. Cardinality(Unbooked) \in Nat /\ crashes \in Nat /\ Cardinality(Unbooked) <= crashes
  BY <1>1, FS_CardinalityType, BoundsAssumption DEF IInv, Loss, Slack
<1>12. Slack' = crashes + 1
  BY <1>1 DEF Slack
<1>13. Loss'
  BY <1>10, <1>11, <1>12 DEF Loss
<1>14. QED
  BY <1>1, <1>5, <1>7, <1>8, <1>13 DEF IInv

(* Its ledger row makes it one less.                                        *)
LEMMA TokenRowStep ==
    ASSUME IInv, TokenRow PROVE IInv'
<1>1. PICK n : n = job.row.run
  OBVIOUS
<1>2. at = "token" /\ n \in DOMAIN runs /\ ~runs[n].booked
  BY <1>1 DEF IInv, Owing, TokenRow
<1> DEFINE new == [runs[n] EXCEPT !.booked = TRUE]
<1>3. runs[n] \in Rec
  BY <1>2 DEF IInv, RowsOK
<1>4. new \in Rec /\ new.booked = TRUE
  BY <1>3 DEF Rec
<1>5. /\ runs' = [runs EXCEPT ![n] = new] /\ Goes(job.after)
      /\ UNCHANGED <<handoffs, lead, objects, stage, activities, denials, crashes>>
  BY <1>1 DEF TokenRow
<1> HIDE DEF new
<1>6. /\ runs' \in Seq(Rec) /\ DOMAIN runs' = DOMAIN runs /\ runs'[n] = new
      /\ \A i \in DOMAIN runs : i # n => runs'[i] = runs[i]
  BY <1>2, <1>4, <1>5 DEF IInv, RowsOK
<1>7. RowsOK'
  BY <1>5, <1>6 DEF IInv, RowsOK
<1>8. PlaceOK' /\ at' # "token"
  BY <1>5, JobFields, GoesType DEF IInv
<1>9. n \in Unbooked /\ Unbooked' = Unbooked \ {n}
  BY <1>2, <1>4, <1>6 DEF Unbooked
<1>10. IsFiniteSet(Unbooked') /\ Cardinality(Unbooked') = Cardinality(Unbooked) - 1
  BY <1>9, FS_RemoveElement DEF IInv, Loss
<1>11. Cardinality(Unbooked) \in Nat /\ crashes \in Nat /\ Cardinality(Unbooked) <= crashes + 1
  BY <1>2, FS_CardinalityType, BoundsAssumption DEF IInv, Loss, Slack
<1>12. Slack' = crashes
  BY <1>5, <1>8, <1>11 DEF Slack
<1>13. Loss'
  BY <1>10, <1>11, <1>12 DEF Loss
<1>14. QED
  BY <1>5, <1>7, <1>8, <1>13 DEF IInv, Owing

(* A crash adds itself to what may be missing.                              *)
LEMMA CrashStep ==
    ASSUME IInv, Crash PROVE IInv'
<1>1. crashes' = crashes + 1 /\ crashes < MaxCrashes /\ Ends /\ UNCHANGED rows
  BY DEF Crash
<1>2. crashes \in Nat /\ crashes' \in 0 .. MaxCrashes
  BY <1>1, BoundsAssumption DEF IInv
<1>3. PlaceOK' /\ at' # "token"
  BY <1>1, EndsType
<1>4. RowsOK'
  BY <1>1 DEF IInv, RowsOK, rows
<1>5. Unbooked' = Unbooked
  BY <1>1 DEF Unbooked, rows
<1>6. Cardinality(Unbooked) \in Nat /\ Cardinality(Unbooked) <= crashes + 1
  BY <1>2, FS_CardinalityType DEF IInv, Loss, Slack
<1>7. Slack' = crashes + 1
  BY <1>1, <1>2, <1>3 DEF Slack
<1>8. Loss'
  BY <1>5, <1>6, <1>7 DEF IInv, Loss
<1>9. QED
  BY <1>2, <1>3, <1>4, <1>8 DEF IInv, Owing

-----------------------------------------------------------------------------
(* The other statements.                                                   *)

(* The status of one handoff is overwritten, or that of none.               *)
LEMMA StatusType ==
    ASSUME handoffs \in Seq(Row), NEW i, NEW word \in Statuses
    PROVE  [handoffs EXCEPT ![i].status = word] \in Seq(Row)
<1>1. CASE i \in DOMAIN handoffs
  <2> DEFINE new == [handoffs[i] EXCEPT !.status = word]
  <2>1. handoffs[i] \in Row
    BY <1>1
  <2>2. new \in Row
    BY <2>1 DEF Row
  <2> HIDE DEF new
  <2>3. [handoffs EXCEPT ![i] = new] \in Seq(Row)
    BY <1>1, <2>2
  <2>4. QED
    BY <2>3 DEF new
<1>2. CASE i \notin DOMAIN handoffs
  <2>1. [handoffs EXCEPT ![i].status = word] = handoffs
    BY <1>2
  <2>2. QED
    BY <2>1
<1>3. QED
  BY <1>1, <1>2

LEMMA HandoffStatements ==
    ASSUME IInv, HandoffRow \/ MarkDone \/ Reject \/ ClearQueue
    PROVE  RowsOK'
<1>1. handoffs \in Seq(Row) /\ job.row \in Row
  BY JobFields DEF IInv, RowsOK
<1>2. handoffs' \in Seq(Row)
  <2>1. CASE HandoffRow
    BY <1>1, <2>1 DEF HandoffRow
  <2>2. CASE MarkDone
    BY <1>1, <2>2, StatusType DEF MarkDone, Statuses
  <2>3. CASE Reject
    BY <1>1, <2>3, StatusType DEF Reject, Statuses
  <2>4. CASE ClearQueue
    <3> DEFINE aborted(i) == IF handoffs[i].status = "pending"
                             THEN [handoffs[i] EXCEPT !.status = "aborted"] ELSE handoffs[i]
    <3>1. \A i \in DOMAIN handoffs : aborted(i) \in Row
      <4> TAKE i \in DOMAIN handoffs
      <4>1. handoffs[i] \in Row
        BY <1>1
      <4>2. [handoffs[i] EXCEPT !.status = "aborted"] \in Row
        BY <4>1 DEF Row, Statuses
      <4>3. QED
        BY <4>1, <4>2
    <3>2. handoffs' = [i \in DOMAIN handoffs |-> aborted(i)]
      BY <2>4 DEF ClearQueue
    <3> HIDE DEF aborted
    <3>3. DOMAIN handoffs = 1 .. Len(handoffs) /\ Len(handoffs) \in Nat
      BY <1>1
    <3>4. QED
      BY <3>1, <3>2, <3>3
  <2>5. QED
    BY <2>1, <2>2, <2>3, <2>4
<1>3. UNCHANGED <<runs, lead, objects, stage, activities, denials>>
  BY DEF HandoffRow, MarkDone, Reject, ClearQueue
<1>4. QED
  BY <1>2, <1>3 DEF IInv, RowsOK

LEMMA FieldStatements ==
    ASSUME IInv, AuditRow \/ LeadFields \/ StageField \/ DraftRow \/ ConvertLead \/ SendDrafts
    PROVE  RowsOK'
<1>1. RowsOK /\ job.row \in Row
  BY JobFields DEF IInv
<1>2. CASE AuditRow
  BY <1>1, <1>2 DEF AuditRow, RowsOK
<1>3. CASE LeadFields \/ ConvertLead
  BY <1>1, <1>3 DEF LeadFields, ConvertLead, RowsOK
<1>4. CASE StageField
  <2>1. job.row.stage \in Stages
    BY <1>1 DEF Row
  <2>2. QED
    BY <1>1, <1>4, <2>1 DEF StageField, RowsOK
<1>5. CASE DraftRow
  BY <1>1, <1>5 DEF DraftRow, RowsOK
<1>6. CASE SendDrafts
  <2>1. activities' = [i \in 1 .. Len(activities) |-> TRUE] /\ Len(activities) \in Nat
    BY <1>1, <1>6 DEF SendDrafts, RowsOK
  <2>2. activities' \in Seq(BOOLEAN)
    BY <2>1
  <2>3. QED
    BY <1>1, <1>6, <2>2 DEF SendDrafts, RowsOK
<1>7. QED
  BY <1>2, <1>3, <1>4, <1>5, <1>6

LEMMA ObjectStatement ==
    ASSUME IInv, NEW object \in Objects, NEW then, ObjectRow(object, then) PROVE RowsOK'
  BY DEF IInv, RowsOK, ObjectRow, Objects, Stages, MidStages

(* None of them leads to the ledger row but the row of the run.             *)
LEMMA StatementStep ==
    ASSUME IInv, Statement PROVE IInv'
<1> USE DEF Places
<1>0. PlaceOK /\ RowsOK
  BY DEF IInv
<1>1. CASE RunRow
  BY <1>1, RunRowStep
<1>2. CASE TokenRow
  BY <1>2, TokenRowStep
<1>3. CASE HandoffRow \/ MarkDone \/ Reject \/ ClearQueue
  <2>1. (\E to \in {"next", "followup"} : Goes(to)) \/ Ends
    BY <1>3 DEF HandoffRow, MarkDone, Reject, ClearQueue
  <2>2. PlaceOK' /\ at' # "token"
    BY <1>0, <2>1, GoesType, EndsType
  <2>3. at # "token" /\ UNCHANGED <<runs, crashes>>
    BY <1>3 DEF HandoffRow, MarkDone, Reject, ClearQueue
  <2>4. QED
    BY <1>3, <2>2, <2>3, HandoffStatements, LedgerKept
<1>4. CASE AuditRow \/ LeadFields \/ StageField \/ DraftRow \/ ConvertLead \/ SendDrafts
  <2>1. (\E to \in {"handoff", "done", job.then} : Goes(to)) \/ Ends
    BY <1>4 DEF AuditRow, LeadFields, StageField, DraftRow, ConvertLead, SendDrafts
  <2>2. PlaceOK' /\ at' # "token"
    BY <1>0, <2>1, JobFields, GoesType, EndsType
  <2>3. at # "token" /\ UNCHANGED <<runs, crashes>>
    BY <1>4 DEF AuditRow, LeadFields, StageField, DraftRow, ConvertLead, SendDrafts
  <2>4. QED
    BY <1>4, <2>2, <2>3, FieldStatements, LedgerKept
<1>5. ASSUME NEW object \in Objects, NEW then \in {"contact", "opportunity", "convert"},
             ObjectRow(object, then)
      PROVE  IInv'
  <2>1. PlaceOK' /\ at' # "token"
    BY <1>0, <1>5, GoesType DEF ObjectRow
  <2>2. at # "token" /\ UNCHANGED <<runs, crashes>>
    BY <1>5 DEF ObjectRow, Objects
  <2>3. QED
    BY <1>5, <2>1, <2>2, ObjectStatement, LedgerKept
<1>6. CASE NextStep
  <2>1. PlaceOK' /\ at' # "token"
    BY <1>6, ContinueType DEF NextStep, PlaceOK
  <2>2. QED
    BY <1>6, <2>1, RowsKept DEF NextStep
<1>7. CASE Followup
  <2>1. PlaceOK' /\ at' # "token"
    BY <1>7, CallType DEF Followup, PlaceOK, Agents
  <2>2. QED
    BY <1>7, <2>1, RowsKept DEF Followup
<1>8. CASE Throws
  <2>1. at # "token" /\ Ends /\ UNCHANGED <<rows, crashes>>
    BY <1>8 DEF Throws
  <2>2. QED
    BY <2>1, EndsType, RowsKept
<1>9. QED
  BY <1>1, <1>2, <1>3, <1>4, <1>5, <1>6, <1>7, <1>8 DEF Statement, Objects

-----------------------------------------------------------------------------
(* The theorems.                                                           *)

LEMMA InitKept == Init => IInv
<1> SUFFICES ASSUME Init PROVE IInv
  OBVIOUS
<1>1. RowsOK /\ PlaceOK
  BY Resting DEF Init, RowsOK, PlaceOK, Objects, Stages, Places
<1>2. Unbooked = {}
  BY DEF Init, Unbooked
<1>3. Loss
  BY <1>2, FS_EmptySet DEF Init, Loss, Slack
<1>4. QED
  BY <1>1, <1>3, BoundsAssumption DEF Init, IInv, Owing

LEMMA StepKept == IInv /\ [Next]_vars => IInv'
<1> SUFFICES ASSUME IInv, [Next]_vars PROVE IInv'
  OBVIOUS
<1>1. CASE UNCHANGED vars
  <2>1. Unbooked' = Unbooked /\ Slack' = Slack
    BY <1>1 DEF vars, rows, Unbooked, Slack
  <2>2. Loss' /\ Owing'
    BY <1>1, <2>1 DEF vars, rows, IInv, Loss, Owing
  <2>3. QED
    BY <1>1, <2>2 DEF vars, rows, IInv, RowsOK, PlaceOK
<1>2. CASE Requests
  BY <1>2, RequestStep
<1>3. CASE Answer
  BY <1>3, AnswerStep
<1>4. CASE Statement
  BY <1>4, StatementStep
<1>5. CASE Crash
  BY <1>5, CrashStep
<1>6. QED
  BY <1>1, <1>2, <1>3, <1>4, <1>5 DEF Next

(* The invariant holds of every behaviour.                                  *)
THEOREM Inductive == Spec => []IInv
<1>1. QED
  BY InitKept, StepKept, PTL DEF Spec

(* The rows and the place of the process have their types.                  *)
THEOREM TypeCorrect == Spec => []TypeOK
<1>1. IInv => TypeOK
  BY Consequences
<1>2. QED
  BY <1>1, Inductive, PTL

(* However many runs there are, token_ledger lacks at most one row for each  *)
(* crash, besides the row that persistRun is about to insert.               *)
THEOREM LedgerLoss == Spec => []LedgerLossBounded
<1>1. IInv => LedgerLossBounded
  BY Consequences
<1>2. QED
  BY <1>1, Inductive, PTL

-----------------------------------------------------------------------------
(* What a request has done where it stands.                                *)

\* A row is on its way to the timeline; a request that will add one.
Bringing ==
    \/ at \in {"run", "token", "audit", "owner", "describe", "draft", "handoff"}
    \/ at = "stage" /\ job.then = "handoff"
Working == Bringing \/ at \in {"await", "next", "followup"}

\* A decision about a row of the timeline is being carried out.
Converting == {"account", "contact", "opportunity", "convert"}
Deciding ==
    \/ at \in Converting \cup {"send", "done", "reject"}
    \/ at = "stage" /\ job.then = "done"

\* The statement that comes before the handoff of such a row.
Before(agent, word, kind) ==
    IF kind = "denied" THEN "audit"
    ELSE IF kind = "send" THEN "draft"
    ELSE IF word # "effective" THEN "handoff"
    ELSE IF agent = "orchestrator" THEN "owner"
    ELSE IF agent = "lead-intake" THEN "describe" ELSE "stage"

Fits(agent, word, kind) ==
    /\ word = "pending" => kind \in {"convert", "close", "send"}
    /\ kind \in {"convert", "close"} => agent = "pipeline"
    /\ kind = "send" => agent = "followup"
RowFits(row) == Fits(row.agent, row.status, row.kind)
StatementOf(row) == Before(row.agent, row.status, row.kind)

Sent == \E i \in DOMAIN handoffs : handoffs[i].kind = "send"

\* The agent may be asked: followup once pipeline is done and no draft was ever
\* brought, the others once each.
Entitled(agent) ==
    IF agent = "followup" THEN HasEffective("pipeline") /\ ~Sent ELSE ~HasEffective(agent)

TimelineInv ==
    \A i \in DOMAIN handoffs :
        /\ RowFits(handoffs[i])
        /\ handoffs[i].run \in DOMAIN runs
        /\ Pending(i, "convert") => ~HasEffective("pipeline")
        /\ handoffs[i].kind = "send" => HasEffective("pipeline") /\ Converted

\* Nothing waits while a row is to come; what is decided waits; who is asked may be.
QueueInv == Working => ~SliceBusy
ChoiceInv == Deciding => job.target \in DOMAIN handoffs /\ Pending(job.target, job.row.kind)
AskedInv ==
    /\ at = "await" => Entitled(job.row.agent)
    /\ at = "followup" => Entitled("followup")

\* The row that comes was asked for, has a run of its own, and passes its statement.
ComingInv ==
    Bringing =>
        /\ RowFits(job.row)
        /\ job.row.status = "effective" => job.row.kind = "none" /\ job.row.agent # "followup"
        /\ job.row.status = "effective" \/ job.row.kind \in {"convert", "send"} =>
               Entitled(job.row.agent)
        /\ job.row.kind = "send" => Converted
        /\ at # "run" => /\ job.row.run \in DOMAIN runs
                         /\ \A i \in DOMAIN handoffs : handoffs[i].run # job.row.run
        /\ at \in {"run", "token"} => /\ job.after = StatementOf(job.row)
                                      /\ job.after = "stage" => job.then = "handoff"
        /\ at \notin {"run", "token", "handoff"} => at = StatementOf(job.row)
        /\ at = "handoff" /\ job.row.status = "effective" =>
               /\ job.row.agent = "orchestrator" => lead.owner
               /\ job.row.agent = "lead-intake" => lead.described

\* The statements of a decision that are behind.
DoneInv ==
    /\ at \in Converting => job.row.kind = "convert"
    /\ at = "contact" => "account" \in objects
    /\ at = "opportunity" => {"account", "contact"} \subseteq objects
    /\ at = "convert" => objects = Objects
    /\ at = "send" => job.row.kind = "send"
    /\ at = "stage" /\ job.then = "done" => job.row.kind = "close"
    /\ at = "done" /\ job.row.kind = "convert" => lead.converted
    /\ at = "done" /\ job.row.kind = "send" => \A k \in DOMAIN activities : activities[k]

JobInv == QueueInv /\ ChoiceInv /\ AskedInv /\ ComingInv /\ DoneInv

\* A refusal on the timeline, or about to be, has its audit event.
DeniedRows == {i \in DOMAIN handoffs : handoffs[i].kind = "denied"}
AuditInv ==
    /\ IsFiniteSet(DeniedRows)
    /\ Cardinality(DeniedRows)
          + (IF at = "handoff" /\ job.row.kind = "denied" THEN 1 ELSE 0) <= denials

\* The rows that are written, as far as EffectiveIsWritten is not about denials.
WrittenInv ==
    /\ HasEffective("orchestrator") => lead.owner
    /\ HasEffective("lead-intake") => lead.described
    /\ lead.converted => objects = Objects
    /\ \A i \in DOMAIN handoffs : handoffs[i].status = "effective" =>
           /\ handoffs[i].kind = "convert" => lead.converted
           /\ handoffs[i].kind = "send" => \A k \in DOMAIN activities : activities[k]

Sound == IInv /\ TimelineInv /\ JobInv /\ AuditInv /\ WrittenInv /\ ResumesOnce

LEMMA SoundIsWritten == ASSUME Sound PROVE EffectiveIsWritten
<1>1. /\ Cardinality(DeniedRows) \in Nat /\ denials \in Nat
      /\ Cardinality(DeniedRows)
            + (IF at = "handoff" /\ job.row.kind = "denied" THEN 1 ELSE 0) <= denials
  BY FS_CardinalityType DEF Sound, AuditInv, IInv, RowsOK
<1>2. Cardinality(DeniedRows) <= denials
  BY <1>1
<1>3. QED
  BY <1>2 DEF Sound, WrittenInv, EffectiveIsWritten, DeniedRows

(* The timeline as it was.                                                  *)
LEMMA SameTimeline ==
    ASSUME UNCHANGED handoffs
    PROVE  /\ SliceBusy' <=> SliceBusy
           /\ \A agent : HasEffective(agent)' <=> HasEffective(agent)
           /\ \A agent : Entitled(agent)' <=> Entitled(agent)
           /\ \A i, kind : Pending(i, kind)' <=> Pending(i, kind)
           /\ DeniedRows' = DeniedRows
           /\ ResumesOnce => ResumesOnce'
  BY DEF SliceBusy, HasEffective, Entitled, Sent, Pending, DeniedRows, ResumesOnce

LEMMA TimelineKept ==
    ASSUME TimelineInv, UNCHANGED handoffs, DOMAIN runs \subseteq DOMAIN runs',
           objects \subseteq objects'
    PROVE  TimelineInv'
  BY SameTimeline DEF TimelineInv, Converted

(* The process at rest, or about to clear the queue, has nothing in hand.   *)
LEMMA AtRest ==
    ASSUME at' \in {"idle", "abort"} PROVE JobInv'
  BY DEF JobInv, QueueInv, ChoiceInv, AskedInv, ComingInv, DoneInv, Working, Bringing,
         Deciding, Converting

(* A step of a request or of a model: only the request is elsewhere.        *)
LEMMA OnlyJob ==
    ASSUME Sound, IInv', UNCHANGED rows, JobInv',
           at' = "handoff" => job'.row.kind # "denied"
    PROVE  Sound'
<1>1. UNCHANGED <<runs, handoffs, lead, objects, stage, activities, denials>>
  BY DEF rows
<1>2. TimelineInv' /\ ResumesOnce'
  BY <1>1, SameTimeline, TimelineKept DEF Sound
<1>3. WrittenInv'
  BY <1>1, SameTimeline DEF Sound, WrittenInv
<1>4. AuditInv'
  <2>1. Cardinality(DeniedRows) \in Nat /\ denials \in Nat
    BY FS_CardinalityType DEF Sound, AuditInv, IInv, RowsOK
  <2>2. QED
    BY <1>1, <2>1, SameTimeline DEF Sound, AuditInv
<1>5. QED
  BY <1>2, <1>3, <1>4 DEF Sound

-----------------------------------------------------------------------------
(* Where calls, answers and decisions begin.                               *)

LEMMA CallAsks ==
    ASSUME NEW agent, Call(agent)
    PROVE  at' = "await" /\ job'.row.agent = agent
  BY DEF Call, NoJob, NoRow

LEMMA ContinueAsks ==
    ASSUME Continue
    PROVE  \/ at' = "idle"
           \/ at' = "await" /\ Entitled(job'.row.agent)
<1>1. \A agent \in {"orchestrator", "lead-intake", "pipeline"} :
         Call(agent) /\ ~HasEffective(agent) => at' = "await" /\ Entitled(job'.row.agent)
  BY CallAsks DEF Entitled
<1>2. QED
  BY <1>1 DEF Continue

LEMMA AskingSound ==
    ASSUME Sound, UNCHANGED rows, ~SliceBusy,
           at' = "await", Entitled(job'.row.agent)
    PROVE  JobInv'
<1>1. UNCHANGED handoffs
  BY DEF rows
<1>2. ~SliceBusy' /\ Entitled(job.row.agent)'
  BY <1>1, SameTimeline
<1>3. QED
  BY <1>2 DEF JobInv, QueueInv, ChoiceInv, AskedInv, ComingInv, DoneInv, Working, Bringing,
              Deciding, Converting

LEMMA AnswersSound ==
    ASSUME Sound, NEW agent \in Agents, NEW first, NEW then, NEW word, NEW kind, NEW to,
           Answers(agent, first, then, word, kind, to),
           first = Before(agent, word, kind), first = "stage" => then = "handoff",
           Fits(agent, word, kind), kind = "send" => Converted,
           word = "effective" => kind = "none" /\ agent # "followup"
    PROVE  JobInv'
<1> DEFINE row == [run |-> 0, agent |-> agent, status |-> word, kind |-> kind, stage |-> to]
<1>1. /\ at = "await" /\ job.row.agent = agent /\ at' = "run" /\ UNCHANGED rows
      /\ job' = [job EXCEPT !.after = first, !.then = then, !.row = row]
  BY DEF Answers
<1>2. job'.after = first /\ job'.then = then /\ job'.row = row
  BY <1>1 DEF Sound, IInv, PlaceOK, Job
<1>3. row.agent = agent /\ row.status = word /\ row.kind = kind
  OBVIOUS
<1> HIDE DEF row
<1>4. UNCHANGED <<handoffs, objects>>
  BY <1>1 DEF rows
<1>5. ~SliceBusy' /\ Entitled(agent)' /\ (Converted' <=> Converted)
  BY <1>1, <1>4, SameTimeline DEF Sound, JobInv, QueueInv, AskedInv, Working, Converted
<1>6. ComingInv'
  BY <1>1, <1>2, <1>3, <1>5 DEF ComingInv, RowFits, StatementOf
<1>7. QueueInv' /\ ChoiceInv' /\ AskedInv' /\ DoneInv'
  BY <1>1, <1>5 DEF QueueInv, ChoiceInv, AskedInv, DoneInv, Deciding, Converting
<1>8. QED
  BY <1>6, <1>7 DEF JobInv

LEMMA AnswerSound ==
    ASSUME Sound, Answer PROVE Sound'
<1> USE DEF Agents, Before, Fits
<1>1. ASSUME NEW agent \in Agents, Fails(agent) PROVE JobInv'
  BY <1>1, AnswersSound DEF Fails
<1>2. ASSUME NEW agent \in Agents, Denied(agent) PROVE JobInv'
  BY <1>2, AnswersSound DEF Denied
<1>3. ASSUME Owner PROVE JobInv'
  BY <1>3, AnswersSound DEF Owner
<1>4. ASSUME Description PROVE JobInv'
  BY <1>4, AnswersSound DEF Description
<1>5. ASSUME Proposal PROVE JobInv'
  BY <1>5, AnswersSound DEF Proposal
<1>6. ASSUME Draft PROVE JobInv'
  BY <1>6, AnswersSound DEF Draft
<1>7. ASSUME NEW to \in MidStages, Advance(to) PROVE JobInv'
  BY <1>7, AnswersSound DEF Advance
<1>8. ASSUME NEW to \in ClosedStages, Close(to) PROVE JobInv'
  BY <1>8, AnswersSound DEF Close
<1>9. JobInv'
  BY <1>1, <1>2, <1>3, <1>4, <1>5, <1>6, <1>7, <1>8 DEF Answer
<1>10. at' = "run" /\ UNCHANGED rows
  BY DEF Answer, Fails, Denied, Owner, Description, Proposal, Draft, Advance, Close, Answers
<1>11. IInv'
  BY AnswerStep DEF Sound
<1>12. QED
  BY <1>9, <1>10, <1>11, OnlyJob

(* A decision is about a row that waits.                                    *)
LEMMA DecideSound ==
    ASSUME Sound, NEW i \in DOMAIN handoffs, NEW kind, Pending(i, kind),
           NEW first, NEW then \in {"idle", "done"}, Decide(i, first, then),
           \/ first = "account" /\ kind = "convert"
           \/ first = "done" /\ kind = "convert" /\ lead.converted
           \/ first = "send" /\ kind = "send"
           \/ first = "stage" /\ kind = "close"
           \/ first = "reject"
    PROVE  JobInv'
<1>1. /\ at' = first /\ UNCHANGED rows
      /\ job'.target = i /\ job'.then = then /\ job'.row.kind = handoffs[i].kind
  BY DEF Decide, NoJob, NoRow
<1>2. job'.row.kind = kind
  BY <1>1 DEF Pending
<1>3. UNCHANGED <<handoffs, lead, objects, activities>>
  BY <1>1 DEF rows
<1>4. ChoiceInv'
  BY <1>1, <1>2, <1>3, SameTimeline DEF ChoiceInv
<1>5. QueueInv' /\ AskedInv' /\ ComingInv'
  BY <1>1 DEF QueueInv, AskedInv, ComingInv, Working, Bringing
<1>6. DoneInv'
  BY <1>1, <1>2, <1>3 DEF DoneInv, Converting
<1>7. QED
  BY <1>4, <1>5, <1>6 DEF JobInv

(* A stage the console moves: at once, or by a row of its own.              *)
LEMMA AdvanceStageSound ==
    ASSUME Sound, NEW to \in MidStages \cup ClosedStages, AdvanceStage(to) PROVE JobInv'
<1>1. UNCHANGED rows /\ ~SliceBusy
  BY DEF AdvanceStage
<1>2. ~SliceBusy'
  BY <1>1, SameTimeline DEF rows
<1>3. CASE to \in ClosedStages
  <2>1. /\ at' = "run" /\ job'.after = "handoff"
        /\ job'.row.status = "pending" /\ job'.row.kind = "close" /\ job'.row.agent = "pipeline"
    <3> DEFINE row == [NoRow EXCEPT !.status = "pending", !.kind = "close", !.stage = to]
    <3>1. row.status = "pending" /\ row.kind = "close" /\ row.agent = "pipeline"
      BY DEF NoRow
    <3>2. at' = "run" /\ job' = [NoJob EXCEPT !.after = "handoff", !.row = row]
      BY <1>3 DEF AdvanceStage
    <3> HIDE DEF row
    <3>3. job'.after = "handoff" /\ job'.row = row
      BY <3>2 DEF NoJob
    <3>4. QED
      BY <3>1, <3>2, <3>3
  <2>2. QED
    BY <1>2, <2>1 DEF JobInv, QueueInv, ChoiceInv, AskedInv, ComingInv, DoneInv, Deciding,
                      Converting, RowFits, Fits, StatementOf, Before
<1>4. CASE to \notin ClosedStages
  <2>1. at' = "stage" /\ job'.then = "idle"
    BY <1>4 DEF AdvanceStage, NoJob
  <2>2. QED
    BY <2>1 DEF JobInv, QueueInv, ChoiceInv, AskedInv, ComingInv, DoneInv, Working, Bringing,
                Deciding, Converting
<1>5. QED
  BY <1>3, <1>4

LEMMA RequestSound ==
    ASSUME Sound, Requests PROVE Sound'
<1>1. UNCHANGED rows /\ at' # "handoff"
  <2>1. CASE Ingest
    BY <2>1, ContinueAsks DEF Ingest
  <2>2. CASE ~Ingest
    BY <2>2 DEF Requests, AbortLead, ConfirmConvert, ConfirmSend, ConfirmWinLoss, RejectHandoff,
                Decide, AdvanceStage
  <2>3. QED
    BY <2>1, <2>2
<1>2. ASSUME Ingest PROVE JobInv'
  BY <1>1, <1>2, ContinueAsks, AskingSound, AtRest DEF Ingest
<1>3. ASSUME AbortLead PROVE JobInv'
  BY <1>3, AtRest DEF AbortLead
<1>4. ASSUME NEW i \in DOMAIN handoffs,
             ConfirmConvert(i) \/ ConfirmSend(i) \/ ConfirmWinLoss(i) \/ RejectHandoff(i)
      PROVE  JobInv'
  <2>1. CASE ConfirmConvert(i)
    BY <2>1, DecideSound DEF ConfirmConvert
  <2>2. CASE ConfirmSend(i)
    <3>1. Converted
      BY <2>2 DEF ConfirmSend, Pending, Sound, TimelineInv
    <3>2. QED
      BY <2>2, <3>1, DecideSound DEF ConfirmSend
  <2>3. CASE ConfirmWinLoss(i)
    BY <2>3, DecideSound DEF ConfirmWinLoss
  <2>4. CASE RejectHandoff(i)
    <3>1. Pending(i, handoffs[i].kind)
      BY <2>4 DEF RejectHandoff, Pending
    <3>2. QED
      BY <2>4, <3>1, DecideSound DEF RejectHandoff
  <2>5. QED
    BY <1>4, <2>1, <2>2, <2>3, <2>4
<1>5. JobInv'
  BY <1>2, <1>3, <1>4, AdvanceStageSound DEF Requests
<1>6. IInv'
  BY RequestStep DEF Sound
<1>7. QED
  BY <1>1, <1>5, <1>6, OnlyJob

(* The end of a request; the next step of an ingest, and followup.          *)
LEMMA PassingSound ==
    ASSUME Sound, NextStep \/ Followup \/ Throws \/ Crash PROVE Sound'
<1>1. UNCHANGED rows
  BY DEF NextStep, Followup, Throws, Crash
<1>2. JobInv' /\ at' # "handoff"
  <2>1. CASE NextStep
    <3>1. ~SliceBusy
      BY <2>1 DEF NextStep, Sound, JobInv, QueueInv, Working
    <3>2. QED
      BY <1>1, <2>1, <3>1, ContinueAsks, AskingSound, AtRest DEF NextStep
  <2>2. CASE Followup
    <3>1. ~SliceBusy /\ Entitled("followup")
      BY <2>2 DEF Followup, Sound, JobInv, QueueInv, AskedInv, Working
    <3>2. at' = "await" /\ job'.row.agent = "followup"
      BY <2>2, CallAsks DEF Followup
    <3>3. QED
      BY <1>1, <3>1, <3>2, AskingSound
  <2>3. CASE Throws \/ Crash
    BY <2>3, AtRest DEF Throws, Crash, Ends
  <2>4. QED
    BY <2>1, <2>2, <2>3
<1>3. IInv'
  BY StatementStep, CrashStep DEF Sound, Statement
<1>4. QED
  BY <1>1, <1>2, <1>3, OnlyJob

-----------------------------------------------------------------------------
(* The statements that leave the timeline.                                 *)

(* A row comes closer: to the statement before it, or past that.            *)
LEMMA Onward ==
    ASSUME Sound, UNCHANGED <<handoffs, job>>, DOMAIN runs \subseteq DOMAIN runs',
           objects \subseteq objects', Bringing, at # "run",
           \/ at' = "handoff"
           \/ at' = StatementOf(job.row) /\ (at' = "stage" => job.then = "handoff"),
           at' = "handoff" /\ job.row.status = "effective" =>
               /\ job.row.agent = "orchestrator" => lead'.owner
               /\ job.row.agent = "lead-intake" => lead'.described
    PROVE  JobInv'
<1>1. at' \in {"audit", "owner", "describe", "draft", "stage", "handoff"}
  BY DEF StatementOf, Before
<1>2. /\ ComingInv /\ ~SliceBusy
  BY DEF Sound, JobInv, QueueInv, Working
<1>3. ~SliceBusy' /\ \A agent : Entitled(agent) => Entitled(agent)'
  BY <1>2, SameTimeline
<1>4. Converted => Converted'
  BY DEF Converted
<1>5. ComingInv'
  BY <1>1, <1>2, <1>3, <1>4 DEF ComingInv
<1>6. QueueInv' /\ ChoiceInv' /\ AskedInv' /\ DoneInv'
  BY <1>1, <1>3 DEF QueueInv, ChoiceInv, AskedInv, DoneInv, Deciding, Converting
<1>7. QED
  BY <1>5, <1>6 DEF JobInv

LEMMA AuditKept ==
    ASSUME Sound, UNCHANGED handoffs, denials' = denials,
           at' = "handoff" => job'.row.kind # "denied"
    PROVE  AuditInv'
<1>1. Cardinality(DeniedRows) \in Nat /\ denials \in Nat
  BY FS_CardinalityType DEF Sound, AuditInv, IInv, RowsOK
<1>2. QED
  BY <1>1, SameTimeline DEF Sound, AuditInv

LEMMA RunRowSound ==
    ASSUME Sound, RunRow PROVE Sound'
<1>1. /\ at = "run" /\ at' = "token" /\ job' = [job EXCEPT !.row.run = Len(runs) + 1]
      /\ UNCHANGED <<handoffs, lead, objects, stage, activities, denials, crashes>>
  BY DEF RunRow
<1>2. PICK n \in Nat : n = Len(runs) + 1
  BY DEF Sound, IInv, RowsOK
<1>3. n \notin DOMAIN runs /\ DOMAIN runs' = DOMAIN runs \cup {n}
  BY <1>2 DEF Sound, IInv, RowsOK, RunRow
<1>4. /\ job'.after = job.after /\ job'.then = job.then
      /\ job'.row.run = n /\ job'.row.kind = job.row.kind
      /\ job'.row.status = job.row.status /\ job'.row.agent = job.row.agent
  <2>1. job \in Job /\ job.row \in Row
    BY JobFields DEF Sound, IInv, PlaceOK
  <2>2. job' = [job EXCEPT !.row = [job.row EXCEPT !.run = n]]
    BY <1>1, <1>2
  <2>3. QED
    BY <2>1, <2>2 DEF Job, Row
<1>5. TimelineInv' /\ ResumesOnce'
  BY <1>1, <1>3, SameTimeline, TimelineKept DEF Sound
<1>6. WrittenInv'
  BY <1>1, SameTimeline DEF Sound, WrittenInv
<1>7. AuditInv'
  BY <1>1, AuditKept
<1>8. ComingInv /\ ~SliceBusy /\ Bringing
  BY <1>1 DEF Sound, JobInv, QueueInv, Working, Bringing
<1>9. ~SliceBusy' /\ (Converted' <=> Converted)
         /\ \A agent : Entitled(agent) => Entitled(agent)'
  BY <1>1, <1>8, SameTimeline DEF Converted
<1>10. \A i \in DOMAIN handoffs : handoffs[i].run # n
  BY <1>3 DEF Sound, TimelineInv
<1>11. ComingInv'
  BY <1>1, <1>3, <1>4, <1>8, <1>9, <1>10 DEF ComingInv, RowFits, StatementOf
<1>12. QueueInv' /\ ChoiceInv' /\ AskedInv' /\ DoneInv'
  BY <1>1, <1>9 DEF QueueInv, ChoiceInv, AskedInv, DoneInv, Deciding, Converting
<1>13. IInv'
  BY RunRowStep DEF Sound
<1>14. QED
  BY <1>5, <1>6, <1>7, <1>11, <1>12, <1>13 DEF Sound, JobInv

(* The statements between the ledger row and the handoff.                   *)
LEMMA FieldsSound ==
    ASSUME Sound, TokenRow \/ AuditRow \/ LeadFields \/ DraftRow PROVE Sound'
<1> USE DEF StatementOf, Before
<1>1. /\ UNCHANGED <<handoffs, objects, job>>
      /\ DOMAIN runs' = DOMAIN runs
      /\ lead'.converted = lead.converted
      /\ lead.owner => lead'.owner
      /\ lead.described => lead'.described
      /\ Bringing /\ at # "run" /\ ComingInv
  <2>1. UNCHANGED <<handoffs, objects, job>>
    BY DEF TokenRow, AuditRow, LeadFields, DraftRow, Goes
  <2>2. DOMAIN runs' = DOMAIN runs
    BY DEF TokenRow, AuditRow, LeadFields, DraftRow
  <2>3. /\ lead'.converted = lead.converted
        /\ lead.owner => lead'.owner
        /\ lead.described => lead'.described
    BY DEF TokenRow, AuditRow, LeadFields, DraftRow, Sound, IInv, RowsOK
  <2>4. Bringing /\ at # "run"
    BY DEF TokenRow, AuditRow, LeadFields, DraftRow, Bringing
  <2>5. QED
    BY <2>1, <2>2, <2>3, <2>4 DEF Sound, JobInv
<1>2. TimelineInv' /\ ResumesOnce'
  BY <1>1, SameTimeline, TimelineKept DEF Sound
<1>3. CASE TokenRow
  <2>1. /\ at = "token" /\ at' = StatementOf(job.row)
        /\ at' = "stage" => job.then = "handoff"
        /\ UNCHANGED <<lead, activities, denials>>
    BY <1>1, <1>3 DEF TokenRow, Goes, ComingInv
  <2>2. at' = "handoff" => job.row.status # "effective" /\ job.row.kind # "denied"
    BY <2>1
  <2>3. JobInv'
    BY <1>1, <2>1, <2>2, Onward
  <2>4. WrittenInv' /\ AuditInv'
    BY <1>1, <2>1, <2>2, SameTimeline, AuditKept DEF Sound, WrittenInv
  <2>5. QED
    BY <1>2, <1>3, <2>3, <2>4, StatementStep DEF Sound, Statement
<1>4. CASE AuditRow
  <2>1. /\ at = "audit" /\ at' = "handoff" /\ denials' = denials + 1
        /\ UNCHANGED <<lead, activities>>
    BY <1>4 DEF AuditRow, Goes
  <2>2. job.row.kind = "denied"
    BY <1>1, <2>1 DEF ComingInv
  <2>3. JobInv'
    BY <1>1, <2>1, <2>2, Onward DEF ComingInv
  <2>4. WrittenInv'
    BY <1>1, <2>1, SameTimeline DEF Sound, WrittenInv
  <2>5. AuditInv'
    <3>1. Cardinality(DeniedRows) \in Nat /\ denials \in Nat
      BY FS_CardinalityType DEF Sound, AuditInv, IInv, RowsOK
    <3>2. QED
      BY <1>1, <2>1, <2>2, <3>1, SameTimeline DEF Sound, AuditInv
  <2>6. QED
    BY <1>2, <1>4, <2>3, <2>4, <2>5, StatementStep DEF Sound, Statement
<1>5. CASE LeadFields
  <2>1. at \in {"owner", "describe"} /\ at' = "handoff" /\ UNCHANGED <<activities, denials>>
    BY <1>5 DEF LeadFields, Goes
  <2>2. at = StatementOf(job.row) /\ job.row.kind # "denied"
    BY <1>1, <2>1 DEF ComingInv
  <2>3. /\ job.row.agent = "orchestrator" => lead'.owner
        /\ job.row.agent = "lead-intake" => lead'.described
    BY <1>5, <2>1, <2>2 DEF LeadFields, Sound, IInv, RowsOK
  <2>4. JobInv'
    BY <1>1, <2>1, <2>3, Onward
  <2>5. WrittenInv' /\ AuditInv'
    BY <1>1, <2>1, <2>2, SameTimeline, AuditKept DEF Sound, WrittenInv
  <2>6. QED
    BY <1>2, <1>5, <2>4, <2>5, StatementStep DEF Sound, Statement
<1>6. CASE DraftRow
  <2>1. at = "draft" /\ at' = "handoff" /\ UNCHANGED <<lead, denials>>
    BY <1>6 DEF DraftRow, Goes
  <2>2. job.row.kind = "send"
    BY <1>1, <2>1 DEF ComingInv
  <2>3. ~Sent
    BY <1>1, <2>2 DEF ComingInv, RowFits, Fits, Entitled
  <2>4. JobInv'
    BY <1>1, <2>1, <2>2, Onward DEF ComingInv
  <2>5. WrittenInv' /\ AuditInv'
    BY <1>1, <2>1, <2>2, <2>3, SameTimeline, AuditKept DEF Sound, WrittenInv, Sent
  <2>6. QED
    BY <1>2, <1>6, <2>4, <2>5, StatementStep DEF Sound, Statement
<1>7. QED
  BY <1>3, <1>4, <1>5, <1>6

(* The statements of a stage, a conversion and a send.                      *)
LEMMA StageFieldSound ==
    ASSUME Sound, StageField PROVE Sound'
<1>1. /\ at = "stage" /\ UNCHANGED <<runs, handoffs, lead, objects, activities, denials>>
      /\ at' = job.then \/ at' = "idle"
      /\ at' # "idle" => UNCHANGED job
  BY DEF StageField, Goes, Ends
<1>2. at' \in {"idle", "handoff", "done"}
  BY <1>1 DEF Sound, IInv, PlaceOK, Job
<1>3. TimelineInv' /\ ResumesOnce' /\ WrittenInv'
  BY <1>1, SameTimeline, TimelineKept DEF Sound, WrittenInv
<1>4. ASSUME at' = "handoff"
      PROVE  JobInv' /\ job'.row.kind # "denied"
  <2>1. Bringing /\ UNCHANGED job
    BY <1>1, <1>4 DEF Bringing
  <2>2. StatementOf(job.row) = "stage"
    BY <1>1, <2>1 DEF Sound, JobInv, ComingInv
  <2>3. job.row.kind # "denied" /\ job.row.agent \notin {"orchestrator", "lead-intake"}
    BY <2>2 DEF StatementOf, Before
  <2>4. QED
    BY <1>1, <1>4, <2>1, <2>3, Onward
<1>5. ASSUME at' = "done" PROVE JobInv'
  <2>1. job.then = "done" /\ UNCHANGED job
    BY <1>1, <1>5
  <2>2. /\ job.target \in DOMAIN handoffs /\ Pending(job.target, job.row.kind)
        /\ job.row.kind = "close"
    BY <1>1, <2>1 DEF Sound, JobInv, ChoiceInv, DoneInv, Deciding
  <2>3. QED
    BY <1>1, <1>5, <2>1, <2>2, SameTimeline
       DEF JobInv, QueueInv, ChoiceInv, AskedInv, ComingInv, DoneInv, Working, Bringing,
           Converting
<1>6. JobInv' /\ AuditInv'
  BY <1>1, <1>2, <1>4, <1>5, AtRest, AuditKept
<1>7. IInv'
  BY StatementStep DEF Sound, Statement
<1>8. QED
  BY <1>3, <1>6, <1>7 DEF Sound

(* Within a decision: the row that is decided stays the same.               *)
LEMMA DecisionGoesOn ==
    ASSUME Sound, UNCHANGED <<handoffs, job>>, Deciding, at \notin {"done", "reject"},
           at' \in Converting \cup {"done"}, DoneInv'
    PROVE  JobInv' /\ at' # "handoff"
<1>1. job.target \in DOMAIN handoffs /\ Pending(job.target, job.row.kind)
  BY DEF Sound, JobInv, ChoiceInv
<1>2. ChoiceInv'
  BY <1>1, SameTimeline DEF ChoiceInv
<1>3. QED
  BY <1>2 DEF JobInv, QueueInv, AskedInv, ComingInv, Working, Bringing, Converting

LEMMA DecisionStatements ==
    ASSUME Sound,
           \/ ObjectRow("account", "contact") \/ ObjectRow("contact", "opportunity")
           \/ ObjectRow("opportunity", "convert") \/ ConvertLead \/ SendDrafts
    PROVE  Sound'
<1>1. /\ UNCHANGED <<runs, handoffs, job, denials>> /\ objects \subseteq objects'
      /\ Deciding /\ at \notin {"done", "reject"}
      /\ at' \in Converting \cup {"done"}
      /\ DoneInv /\ TimelineInv /\ WrittenInv /\ objects \subseteq Objects
  BY DEF ObjectRow, ConvertLead, SendDrafts, Goes, Deciding, Converting, Sound, JobInv, IInv,
         RowsOK
<1>2. DoneInv' /\ WrittenInv'
  <2>1. CASE \/ ObjectRow("account", "contact") \/ ObjectRow("contact", "opportunity")
             \/ ObjectRow("opportunity", "convert")
    <3>1. UNCHANGED <<lead, activities>> /\ objects' = objects \cup {at} /\ at \in Objects
          /\ objects' \subseteq Objects
      BY <1>1, <2>1 DEF ObjectRow, Objects
    <3>2. DoneInv'
      BY <1>1, <2>1, <3>1 DEF ObjectRow, Goes, DoneInv, Converting, Objects
    <3>3. WrittenInv'
      BY <1>1, <3>1, SameTimeline DEF WrittenInv
    <3>4. QED
      BY <3>2, <3>3
  <2>2. CASE ConvertLead
    <3>1. /\ at = "convert" /\ at' = "done" /\ objects' = objects /\ objects = Objects
          /\ job.row.kind = "convert"
          /\ UNCHANGED activities
      BY <1>1, <2>2 DEF ConvertLead, Goes, DoneInv, Converting
    <3>2. lead'.converted /\ lead'.owner = lead.owner /\ lead'.described = lead.described
      BY <2>2 DEF ConvertLead, Sound, IInv, RowsOK
    <3>3. DoneInv'
      BY <1>1, <3>1, <3>2 DEF DoneInv, Converting
    <3>4. WrittenInv'
      BY <1>1, <3>1, <3>2, SameTimeline DEF WrittenInv
    <3>5. QED
      BY <3>3, <3>4
  <2>3. CASE SendDrafts
    <3>1. /\ at = "send" /\ at' = "done" /\ job.row.kind = "send"
          /\ \A k \in DOMAIN activities' : activities'[k]
          /\ UNCHANGED <<lead, objects>>
      BY <1>1, <2>3 DEF SendDrafts, Goes, DoneInv
    <3>2. DoneInv'
      BY <1>1, <3>1 DEF DoneInv, Converting
    <3>3. WrittenInv'
      BY <1>1, <3>1, SameTimeline DEF WrittenInv
    <3>4. QED
      BY <3>2, <3>3
  <2>4. QED
    BY <2>1, <2>2, <2>3
<1>3. TimelineInv' /\ ResumesOnce'
  BY <1>1, SameTimeline, TimelineKept DEF Sound
<1>4. JobInv' /\ AuditInv'
  BY <1>1, <1>2, DecisionGoesOn, AuditKept
<1>5. IInv'
  BY StatementStep DEF Sound, Statement
<1>6. QED
  BY <1>2, <1>3, <1>4, <1>5 DEF Sound

-----------------------------------------------------------------------------
(* The statements that write the timeline.                                 *)

LEMMA HandoffRowSound ==
    ASSUME Sound, HandoffRow PROVE Sound'
<1> DEFINE row == job.row
<1>1. PICK n \in Nat : n = Len(handoffs) + 1
  BY DEF Sound, IInv, RowsOK
<1>2. /\ at = "handoff" /\ handoffs' = Append(handoffs, row)
      /\ UNCHANGED <<runs, lead, objects, stage, activities, denials, crashes>>
      /\ \/ row.agent \in Intake /\ row.status = "effective" /\ at' = "next" /\ UNCHANGED job
         \/ at' = "idle"
  BY DEF HandoffRow, Goes, Ends
<1>3. row \in Row
  BY JobFields DEF Sound, IInv
<1>4. PICK new : new = row
  OBVIOUS
<1>5. /\ n \notin DOMAIN handoffs /\ DOMAIN handoffs' = DOMAIN handoffs \cup {n}
      /\ \A i \in DOMAIN handoffs : handoffs'[i] = handoffs[i]
      /\ handoffs'[n] = new
  BY <1>1, <1>2, <1>3, <1>4 DEF Sound, IInv, RowsOK
<1>6. /\ RowFits(new)
      /\ new.status = "effective" => new.kind = "none" /\ new.agent # "followup"
      /\ new.status = "effective" \/ new.kind \in {"convert", "send"} => Entitled(new.agent)
      /\ new.kind = "send" => Converted
      /\ new.run \in DOMAIN runs
      /\ \A i \in DOMAIN handoffs : handoffs[i].run # new.run
      /\ new.status = "effective" => /\ new.agent = "orchestrator" => lead.owner
                                     /\ new.agent = "lead-intake" => lead.described
  BY <1>2, <1>4 DEF Sound, JobInv, ComingInv, Bringing
<1>7. \A i \in DOMAIN handoffs : handoffs[i].status # "pending"
  BY <1>2 DEF Sound, JobInv, QueueInv, Working, Bringing, SliceBusy
<1>8. \A agent : HasEffective(agent)' <=>
                    \/ HasEffective(agent)
                    \/ new.agent = agent /\ new.status = "effective"
  BY <1>5 DEF HasEffective
<1>9. /\ new.kind = "convert" => new.agent = "pipeline" /\ ~HasEffective("pipeline")
      /\ new.kind = "send" => HasEffective("pipeline")
      /\ new.status = "effective" => ~HasEffective(new.agent)
  BY <1>6 DEF Entitled, RowFits, Fits
<1>10. TimelineInv'
  <2>1. TimelineInv
    BY DEF Sound
  <2>2. \A i \in DOMAIN handoffs :
           /\ RowFits(handoffs'[i]) /\ handoffs'[i].run \in DOMAIN runs'
           /\ ~Pending(i, "convert")'
           /\ handoffs'[i].kind = "send" => HasEffective("pipeline")' /\ Converted'
    BY <1>2, <1>5, <1>7, <1>8, <2>1 DEF TimelineInv, Pending, Converted
  <2>3. /\ RowFits(handoffs'[n]) /\ handoffs'[n].run \in DOMAIN runs'
        /\ handoffs'[n].kind = "send" => HasEffective("pipeline")' /\ Converted'
    BY <1>2, <1>5, <1>6, <1>8, <1>9 DEF Converted
  <2>4. Pending(n, "convert")' => ~HasEffective("pipeline")'
    BY <1>5, <1>8, <1>9 DEF Pending
  <2>5. QED
    BY <1>5, <2>2, <2>3, <2>4 DEF TimelineInv
<1>11. ResumesOnce'
  <2>1. \A i \in DOMAIN handoffs :
           ~(/\ handoffs[i].agent = new.agent
             /\ handoffs[i].status = "effective" /\ new.status = "effective")
    BY <1>9 DEF HasEffective
  <2>2. QED
    BY <1>5, <1>6, <1>7, <2>1 DEF Sound, ResumesOnce
<1>12. WrittenInv'
  BY <1>2, <1>5, <1>6, <1>8 DEF Sound, WrittenInv
<1>13. AuditInv'
  <2>1. /\ IsFiniteSet(DeniedRows) /\ Cardinality(DeniedRows) \in Nat /\ denials \in Nat
        /\ Cardinality(DeniedRows) + (IF new.kind = "denied" THEN 1 ELSE 0) <= denials
    BY <1>2, <1>4, FS_CardinalityType DEF Sound, AuditInv, IInv, RowsOK
  <2>2. at' # "handoff" /\ denials' = denials
    BY <1>2
  <2>3. CASE new.kind = "denied"
    <3>1. DeniedRows' = DeniedRows \cup {n} /\ n \notin DeniedRows
      BY <1>5, <2>3 DEF DeniedRows
    <3>2. IsFiniteSet(DeniedRows') /\ Cardinality(DeniedRows') = Cardinality(DeniedRows) + 1
      BY <2>1, <3>1, FS_AddElement
    <3>3. QED
      BY <2>1, <2>2, <2>3, <3>2 DEF AuditInv
  <2>4. CASE new.kind # "denied"
    <3>1. DeniedRows' = DeniedRows
      BY <1>5, <2>4 DEF DeniedRows
    <3>2. QED
      BY <2>1, <2>2, <2>4, <3>1 DEF AuditInv
  <2>5. QED
    BY <2>3, <2>4
<1>14. JobInv'
  <2>1. CASE at' = "idle"
    BY <2>1, AtRest
  <2>2. CASE at' = "next" /\ new.status = "effective"
    <3>1. ~SliceBusy'
      BY <1>5, <1>7, <2>2 DEF SliceBusy
    <3>2. QED
      BY <2>2, <3>1 DEF JobInv, QueueInv, ChoiceInv, AskedInv, ComingInv, DoneInv, Bringing,
                        Deciding, Converting
  <2>3. QED
    BY <1>2, <1>4, <2>1, <2>2
<1>15. IInv'
  BY StatementStep DEF Sound, Statement
<1>16. QED
  BY <1>10, <1>11, <1>12, <1>13, <1>14, <1>15 DEF Sound

(* Only statuses change; no row starts to wait or takes effect.             *)
LEMMA Withdrawn ==
    ASSUME Sound, DOMAIN handoffs' = DOMAIN handoffs,
           \A i \in DOMAIN handoffs :
               /\ handoffs'[i].run = handoffs[i].run
               /\ handoffs'[i].agent = handoffs[i].agent
               /\ handoffs'[i].kind = handoffs[i].kind
               /\ handoffs'[i].status = "pending" => handoffs[i].status = "pending"
               /\ handoffs'[i].status = "effective" <=> handoffs[i].status = "effective",
           UNCHANGED <<runs, lead, objects, activities, denials>>, at' = "idle", IInv'
    PROVE  Sound'
<1>1. \A agent : HasEffective(agent)' <=> HasEffective(agent)
  BY DEF HasEffective
<1>2. TimelineInv'
  BY <1>1 DEF Sound, TimelineInv, RowFits, Fits, Pending, Converted
<1>3. ResumesOnce'
  BY DEF Sound, ResumesOnce
<1>4. WrittenInv'
  BY <1>1 DEF Sound, WrittenInv
<1>5. AuditInv'
  <2>1. DeniedRows' = DeniedRows
    BY DEF DeniedRows
  <2>2. Cardinality(DeniedRows) \in Nat /\ denials \in Nat
    BY FS_CardinalityType DEF Sound, AuditInv, IInv, RowsOK
  <2>3. QED
    BY <2>1, <2>2 DEF Sound, AuditInv
<1>6. QED
  BY <1>2, <1>3, <1>4, <1>5, AtRest DEF Sound

LEMMA WithdrawalSound ==
    ASSUME Sound, Reject \/ ClearQueue PROVE Sound'
<1>1. IInv'
  BY StatementStep DEF Sound, Statement
<1>2. \A i \in DOMAIN handoffs : handoffs[i] \in Row
  BY DEF Sound, IInv, RowsOK
<1>3. CASE Reject
  <2>1. /\ job.target \in DOMAIN handoffs
        /\ handoffs[job.target].status = "pending"
    BY <1>3 DEF Sound, JobInv, ChoiceInv, Deciding, Pending, Reject
  <2>2. handoffs' = [handoffs EXCEPT ![job.target] =
                        [handoffs[job.target] EXCEPT !.status = "rejected"]]
    BY <1>3 DEF Reject
  <2>3. /\ [handoffs[job.target] EXCEPT !.status = "rejected"].run = handoffs[job.target].run
        /\ [handoffs[job.target] EXCEPT !.status = "rejected"].agent = handoffs[job.target].agent
        /\ [handoffs[job.target] EXCEPT !.status = "rejected"].kind = handoffs[job.target].kind
        /\ [handoffs[job.target] EXCEPT !.status = "rejected"].status = "rejected"
    BY <1>2, <2>1 DEF Row
  <2>4. \A i \in DOMAIN handoffs :
           /\ handoffs'[i].run = handoffs[i].run
           /\ handoffs'[i].agent = handoffs[i].agent
           /\ handoffs'[i].kind = handoffs[i].kind
           /\ handoffs'[i].status = "pending" => handoffs[i].status = "pending"
           /\ handoffs'[i].status = "effective" <=> handoffs[i].status = "effective"
    BY <2>1, <2>2, <2>3
  <2>5. QED
    BY <1>1, <1>3, <2>2, <2>4, Withdrawn DEF Reject, Ends
<1>4. CASE ClearQueue
  <2>1. \A i \in DOMAIN handoffs :
           /\ handoffs'[i].run = handoffs[i].run
           /\ handoffs'[i].agent = handoffs[i].agent
           /\ handoffs'[i].kind = handoffs[i].kind
           /\ handoffs'[i].status = "pending" => handoffs[i].status = "pending"
           /\ handoffs'[i].status = "effective" <=> handoffs[i].status = "effective"
    <3> TAKE i \in DOMAIN handoffs
    <3>1. handoffs'[i] = IF handoffs[i].status = "pending"
                         THEN [handoffs[i] EXCEPT !.status = "aborted"] ELSE handoffs[i]
      BY <1>4 DEF ClearQueue
    <3>2. QED
      BY <1>2, <3>1 DEF Row
  <2>2. QED
    BY <1>1, <1>4, <2>1, Withdrawn DEF ClearQueue, Ends
<1>5. QED
  BY <1>3, <1>4

(* The decided row takes effect when what it is about was written.          *)
LEMMA MarkDoneSound ==
    ASSUME Sound, MarkDone PROVE Sound'
<1>1. PICK t : t = job.target
  OBVIOUS
<1>2. PICK kind : kind = job.row.kind
  OBVIOUS
<1>3. /\ at = "done" /\ t \in DOMAIN handoffs
      /\ handoffs[t].status = "pending" /\ handoffs[t].kind = kind
      /\ kind = "convert" => lead.converted
      /\ kind = "send" => \A k \in DOMAIN activities : activities[k]
  BY <1>1, <1>2 DEF MarkDone, Sound, JobInv, ChoiceInv, DoneInv, Deciding, Pending
<1>4. /\ handoffs' = [handoffs EXCEPT ![t] = [handoffs[t] EXCEPT !.status = "effective"]]
      /\ at' = IF kind = "convert" THEN "followup" ELSE "idle"
      /\ UNCHANGED <<runs, lead, objects, stage, activities, denials, crashes>>
  BY <1>1, <1>2 DEF MarkDone, Goes, Ends
<1>5. /\ [handoffs[t] EXCEPT !.status = "effective"].run = handoffs[t].run
      /\ [handoffs[t] EXCEPT !.status = "effective"].agent = handoffs[t].agent
      /\ [handoffs[t] EXCEPT !.status = "effective"].kind = handoffs[t].kind
      /\ [handoffs[t] EXCEPT !.status = "effective"].status = "effective"
  BY <1>3 DEF Sound, IInv, RowsOK, Row
<1>6. /\ DOMAIN handoffs' = DOMAIN handoffs
      /\ \A i \in DOMAIN handoffs :
            /\ handoffs'[i].run = handoffs[i].run
            /\ handoffs'[i].agent = handoffs[i].agent
            /\ handoffs'[i].kind = handoffs[i].kind
            /\ i # t => handoffs'[i] = handoffs[i]
      /\ handoffs'[t].status = "effective"
  BY <1>3, <1>4, <1>5
<1>7. \A i \in DOMAIN handoffs : i # t => handoffs[i].status # "pending"
  BY <1>3 DEF Sound, ResumesOnce
<1>8. /\ kind \in {"convert", "close", "send"}
      /\ handoffs[t].agent = IF kind = "send" THEN "followup" ELSE "pipeline"
  BY <1>3 DEF Sound, TimelineInv, RowFits, Fits
<1>9. \A agent : /\ HasEffective(agent) => HasEffective(agent)'
                 /\ HasEffective(agent)' => HasEffective(agent) \/ agent = handoffs[t].agent
  BY <1>3, <1>6 DEF HasEffective
<1>10. TimelineInv'
  <2>1. \A i \in DOMAIN handoffs : ~Pending(i, "convert")'
    BY <1>6, <1>7 DEF Pending
  <2>2. \A i \in DOMAIN handoffs : RowFits(handoffs'[i])
    BY <1>6, <1>8 DEF Sound, TimelineInv, RowFits, Fits
  <2>3. \A i \in DOMAIN handoffs :
           /\ handoffs'[i].run \in DOMAIN runs'
           /\ handoffs'[i].kind = "send" => HasEffective("pipeline")' /\ Converted'
    BY <1>4, <1>6, <1>9 DEF Sound, TimelineInv, Converted
  <2>4. QED
    BY <1>6, <2>1, <2>2, <2>3 DEF TimelineInv
<1>11. ResumesOnce'
  BY <1>6, <1>7, <1>8 DEF Sound, ResumesOnce, Intake
<1>12. WrittenInv'
  BY <1>3, <1>4, <1>6, <1>8, <1>9 DEF Sound, WrittenInv
<1>13. AuditInv'
  <2>1. DeniedRows' = DeniedRows
    BY <1>6 DEF DeniedRows
  <2>2. Cardinality(DeniedRows) \in Nat /\ denials \in Nat
    BY FS_CardinalityType DEF Sound, AuditInv, IInv, RowsOK
  <2>3. at' # "handoff"
    BY <1>4
  <2>4. QED
    BY <1>4, <2>1, <2>2, <2>3 DEF Sound, AuditInv
<1>14. JobInv'
  <2>1. CASE kind # "convert"
    BY <1>4, <2>1, AtRest
  <2>2. CASE kind = "convert"
    <3>1. ~SliceBusy'
      BY <1>6, <1>7 DEF SliceBusy
    <3>2. HasEffective("pipeline")'
      BY <1>3, <1>6, <1>8, <2>2 DEF HasEffective
    <3>3. ~HasEffective("pipeline")
      BY <1>3, <2>2 DEF Sound, TimelineInv, Pending
    <3>4. ~Sent'
      BY <1>6, <3>3 DEF Sound, TimelineInv, Sent
    <3>5. QED
      BY <1>4, <2>2, <3>1, <3>2, <3>4
         DEF JobInv, QueueInv, ChoiceInv, AskedInv, ComingInv, DoneInv, Entitled, Bringing,
             Deciding, Converting
  <2>3. QED
    BY <2>1, <2>2
<1>15. IInv'
  BY StatementStep DEF Sound, Statement
<1>16. QED
  BY <1>10, <1>11, <1>12, <1>13, <1>14, <1>15 DEF Sound

-----------------------------------------------------------------------------
(* What is effective was written, and resumed once.                        *)

LEMMA InitSound == Init => Sound
<1> SUFFICES ASSUME Init PROVE Sound
  OBVIOUS
<1>1. handoffs = <<>> /\ at = "idle" /\ denials = 0 /\ lead.converted = FALSE
  BY DEF Init
<1>2. TimelineInv /\ WrittenInv /\ ResumesOnce
  BY <1>1 DEF TimelineInv, WrittenInv, ResumesOnce, HasEffective
<1>3. JobInv
  BY <1>1 DEF JobInv, QueueInv, ChoiceInv, AskedInv, ComingInv, DoneInv, Working, Bringing,
              Deciding, Converting
<1>4. DeniedRows = {}
  BY <1>1 DEF DeniedRows
<1>5. AuditInv
  BY <1>1, <1>4, FS_EmptySet DEF AuditInv
<1>6. QED
  BY <1>2, <1>3, <1>5, InitKept DEF Sound

LEMMA StutterSound ==
    ASSUME Sound, UNCHANGED vars PROVE Sound'
<1>1. UNCHANGED <<runs, handoffs, lead, objects, activities, denials, at, job>>
  BY DEF vars, rows
<1>2. IInv'
  BY StepKept DEF Sound
<1>3. JobInv'
  BY <1>1, SameTimeline
     DEF Sound, JobInv, QueueInv, ChoiceInv, AskedInv, ComingInv, DoneInv, Working, Bringing,
         Deciding, Converted
<1>4. AuditInv'
  BY <1>1, SameTimeline DEF Sound, AuditInv
<1>5. QED
  BY <1>1, <1>2, <1>3, <1>4, SameTimeline, TimelineKept DEF Sound, WrittenInv

LEMMA StepSound == Sound /\ [Next]_vars => Sound'
<1> SUFFICES ASSUME Sound, [Next]_vars PROVE Sound'
  OBVIOUS
<1>1. CASE Statement
  BY <1>1, RunRowSound, FieldsSound, StageFieldSound, DecisionStatements, HandoffRowSound,
     MarkDoneSound, WithdrawalSound, PassingSound DEF Statement
<1>2. QED
  BY <1>1, RequestSound, AnswerSound, PassingSound, StutterSound DEF Next

LEMMA SoundInvariant == Spec => []Sound
<1>1. QED
  BY InitSound, StepSound, PTL DEF Spec

(* Wherever the process dies and however often: a handoff says effective     *)
(* only of what applyJson and applyConvert have written, and a refusal is    *)
(* shown only over its audit event.                                          *)
THEOREM WrittenFirst == Spec => []EffectiveIsWritten
<1>1. Sound => EffectiveIsWritten
  BY SoundIsWritten
<1>2. QED
  BY <1>1, SoundInvariant, PTL

(* Over any crashes and retries each step of ingestLead takes effect once,   *)
(* one decision waits, and no two handoffs are of one run.                   *)
THEOREM RetriesResume == Spec => []ResumesOnce
<1>1. Sound => ResumesOnce
  BY DEF Sound
<1>2. QED
  BY <1>1, SoundInvariant, PTL
=============================================================================
