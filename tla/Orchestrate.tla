---------------------------- MODULE Orchestrate ----------------------------
(***************************************************************************)
(* The orchestrate skill (src/.cursor/skills/orchestrate/scripts): a loop  *)
(* process spawns one cloud agent per task of plan.json, waits for its run *)
(* and keeps one row per task, in memory and in state.json.  Operators run *)
(* further processes (spawn, respawn, cancel, kill) that load the same     *)
(* file, change rows and write the whole file back.  Runs live in a cloud  *)
(* service and survive every process.                                      *)
(*                                                                         *)
(* One action is what a process does between two awaits; a crash may also  *)
(* hit between the two writes of a handoff.                                *)
(***************************************************************************)
EXTENDS Naturals, FiniteSets, Sequences

CONSTANTS
    Names,              \* task names
    Order,              \* the names in the order plan.json and state.json list them
    Kind,               \* Kind[t]: "worker", "subplanner" or "verifier"
    Verifies,           \* Verifies[v]: the task a verifier checks (for others: itself)
    Plans,              \* the contents plan.json may have
    Pushes,             \* Pushes[t]: the branches a run of t may name in the end
    NoTask,             \* no task at hand
    ExitOnError,        \* the loop's exitOnError option
    SpawnMaxAttempts,   \* tries of one spawn (three in the code)
    MaxAgents,          \* bound: MaxAgents[t] cloud agents of task t
    Commands,           \* the commands operators may give: <<command, task>>
    Shared,             \* bound: the plans under which a command and the loop may overlap
    MaxEvents           \* bound: starts of the loop, commands, edits and pulls together

ASSUME NamesAssumption ==
    /\ IsFiniteSet(Names) /\ NoTask \notin Names
    /\ Kind \in [Names -> {"worker", "subplanner", "verifier"}]
    /\ Verifies \in [Names -> Names]
    /\ Pushes \in [Names -> SUBSET {"planned", "other", "none"}]
    /\ Order \in Seq(Names)
    /\ {Order[i] : i \in DOMAIN Order} = Names
ASSUME PlansAssumption ==
    \A p \in Plans : \E S \in SUBSET Names :
        p \in [S -> [dependsOn : SUBSET Names, maxAttempts : Nat]]
ASSUME BoundsAssumption ==
    /\ ExitOnError \in BOOLEAN
    /\ SpawnMaxAttempts \in Nat \ {0} /\ MaxAgents \in [Names -> Nat]
    /\ MaxEvents \in Nat

VARIABLES
    plan,       \* plan.json
    disk,       \* state.json
    handoff,    \* handoff[t]: handoffs/<t>.md, the run it tells of and its end
    failure,    \* failure[t]: the run handoffs/<t>-failure.md tells of
    cloud,      \* cloud[t]: the agents ever created for t, oldest first
    cord,       \* the andon reaction on the kickoff message
    mem,        \* mem[p]: the state a process holds in memory
    ctl,        \* ctl[p]: where a process is
    wait,       \* wait[t]: the loop's waitAndHandoff of t
    planned,    \* the plan the loop in hand read when it started
    exit,       \* how the last loop ended
    spent,      \* how much of MaxEvents is used up
    heard       \* history: the cord is pulled, a poll saw it, and no command has
                \* put an older state over what the poll noted in state.json

files == <<disk, handoff, failure>>
procs == <<mem, ctl, wait, planned, exit>>
world == <<plan, cloud, cord, spent>>
vars == <<files, procs, world, heard>>

-----------------------------------------------------------------------------
(* Rows, agents, processes.                                                *)

Procs == {"loop", "command"}
Statuses == {"absent", "pending", "running", "handed-off", "error", "cancelled", "pruned"}
Failed == {"error", "cancelled", "pruned"}
Branches == {"planned", "other"}
Ends == {"finished", "error", "cancelled"}

\* A row of state.json.  run is the pair agentId and runId (0: both null),
\* path whether handoffPath is set; a row that does not exist is "absent".
Row == [status : Statuses, dependsOn : SUBSET Names, adHoc : BOOLEAN,
        attempts : Nat, run : Nat, branch : Branches,
        startingRef : {"base"} \cup Branches, path : BOOLEAN]

State == [rows : [Names -> Row], andon : BOOLEAN]

\* A cloud agent and its run: the ref it was cloned from, the branch its
\* handoff names ("none": neither body nor run name one) and, for the
\* properties, whether every process lost sight of it.
Agent == [phase : {"created", "live"} \cup Ends, ref : {"base"} \cup Branches,
          branch : Branches \cup {"none"}, lost : BOOLEAN]

Control == [pc : {"off", "recover", "poll", "scan", "create", "send", "backoff",
                  "decide", "sleep", "settle", "stop", "cancel"},
            cmd : {"none", "run", "spawn", "respawn", "cascade", "cancel", "kill"},
            task : Names \cup {NoTask},
            try : Nat,
            agent : Nat,
            todo : SUBSET Names,
            known : SUBSET Names]

Idle == [pc |-> "off", cmd |-> "none", task |-> NoTask, try |-> 0, agent |-> 0,
         todo |-> {}, known |-> {}]

\* waitAndHandoff: "wait" for the run, "probe" it after an error, "filed" when
\* the handoff is written and the row is not, "after" while it disposes of the
\* agent and measures.
Waiter == [pc : {"none", "wait", "probe", "filed", "after"}, run : Nat,
           end : Ends \cup {"none"}, branch : Branches]
NoWaiter == [pc |-> "none", run |-> 0, end |-> "none", branch |-> "planned"]

IsVerifier(t) == Kind[t] = "verifier"
Rank(t) == CHOOSE i \in DOMAIN Order : Order[i] = t
First(S) == CHOOSE t \in S : \A u \in S : Rank(t) <= Rank(u)
Present(rows) == {t \in Names : rows[t].status # "absent"}
With(rows, status) == {t \in Names : rows[t].status = status}

NormalizedDependsOn(p, t) ==
    p[t].dependsOn \cup (IF IsVerifier(t) THEN {Verifies[t]} ELSE {})

NoRow == [status |-> "absent", dependsOn |-> {}, adHoc |-> FALSE, attempts |-> 0,
          run |-> 0, branch |-> "planned", startingRef |-> "base", path |-> FALSE]

\* The starting ref of a verifier is the branch its target is planned to push.
InitialTaskState(deps, t, adHoc) ==
    [NoRow EXCEPT !.status = "pending", !.dependsOn = deps, !.adHoc = adHoc,
                  !.startingRef = IF IsVerifier(t) THEN "planned" ELSE "base"]

-----------------------------------------------------------------------------
(* Reading plan.json, reading and writing state.json.                      *)

\* Everything reachable from t by dependsOn of the plan.
Ancestors(p, t) ==
    LET up[k \in 0 .. Cardinality(Names)] ==
            IF k = 0 THEN NormalizedDependsOn(p, t)
            ELSE up[k - 1] \cup
                 UNION {NormalizedDependsOn(p, u) : u \in up[k - 1] \cap DOMAIN p}
    IN  up[Cardinality(Names)]

ValidPlan(p) ==
    /\ DOMAIN p # {}
    /\ \A t \in DOMAIN p :
        /\ IsVerifier(t) => Verifies[t] # t /\ Verifies[t] \in DOMAIN p
        /\ NormalizedDependsOn(p, t) \subseteq DOMAIN p
        /\ t \notin Ancestors(p, t)

(* Mutant of ReconcileStateWithPlan: a pruned task of the plan starts anew. *)
ReconcileStateWithPlan_PrunedAgain(rows, p) ==
    [t \in Names |->
        IF t \in DOMAIN p
        THEN IF rows[t].status \in {"absent", "pruned"}
             THEN InitialTaskState(NormalizedDependsOn(p, t), t, FALSE)
             ELSE IF rows[t].status = "pending"
             THEN [rows[t] EXCEPT !.dependsOn = NormalizedDependsOn(p, t)]
             ELSE rows[t]
        ELSE IF rows[t].status = "pending" /\ ~rows[t].adHoc
             THEN [rows[t] EXCEPT !.status = "pruned"]
             ELSE rows[t]]

\* reconcileStateWithPlan: rows for new tasks, dependencies of pending rows
\* from the plan, pending rows the plan no longer has are pruned.
ReconcileStateWithPlan(rows, p) ==
    [t \in Names |->
        IF t \in DOMAIN p
        THEN IF rows[t].status = "absent"
             THEN InitialTaskState(NormalizedDependsOn(p, t), t, FALSE)
             ELSE IF rows[t].status = "pending"
             THEN [rows[t] EXCEPT !.dependsOn = NormalizedDependsOn(p, t)]
             ELSE rows[t]
        ELSE IF rows[t].status = "pending" /\ ~rows[t].adHoc
             THEN [rows[t] EXCEPT !.status = "pruned"]
             ELSE rows[t]]

\* A target that pushed another branch than planned hands it to its verifiers.
ReconcileVerifierRefs(rows, p, targets) ==
    [v \in Names |->
        IF /\ v \in DOMAIN p /\ IsVerifier(v)
           /\ Verifies[v] \in targets
           /\ rows[Verifies[v]].branch = "other"
           /\ rows[v].status # "absent" /\ rows[v].startingRef = "planned"
        THEN [rows[v] EXCEPT !.startingRef = "other"]
        ELSE rows[v]]

Loaded(s, p) ==
    LET rows == ReconcileStateWithPlan(s.rows, p)
    IN  [s EXCEPT !.rows = ReconcileVerifierRefs(rows, p, With(rows, "handed-off"))]

\* touch and saveState: the whole memory of the process goes to the file.
Save(p, state) ==
    /\ mem' = [mem EXCEPT ![p] = state]
    /\ disk' = state

Touch(p, t, row) == Save(p, [mem[p] EXCEPT !.rows[t] = row])

\* logAttention appends a line and saves.
LogAttention(p) == Save(p, mem[p])

Goto(p, c) == ctl' = [ctl EXCEPT ![p] = c]

NoPlan == <<>>
Empty == [rows |-> [t \in Names |-> NoRow], andon |-> FALSE]

TypeOK ==
    /\ plan \in Plans /\ planned \in Plans \cup {NoPlan}
    /\ disk \in State
    /\ handoff \in [Names -> [run : Nat, end : Ends \cup {"none"}]]
    /\ failure \in [Names -> Nat]
    /\ cloud \in [Names -> Seq(Agent)]
    /\ cord \in BOOLEAN /\ heard \in BOOLEAN
    /\ mem \in [Procs -> State]
    /\ ctl \in [Procs -> Control]
    /\ wait \in [Names -> Waiter]
    /\ exit \in {"none", "done", "stuck", "error", "checkpoint"}
    /\ spent \in 0 .. MaxEvents

Init ==
    /\ plan \in {p \in Plans : ValidPlan(p)} /\ planned = NoPlan
    /\ disk = Empty
    /\ handoff = [t \in Names |-> [run |-> 0, end |-> "none"]]
    /\ failure = [t \in Names |-> 0]
    /\ cloud = [t \in Names |-> <<>>]
    /\ cord = FALSE /\ heard = FALSE
    /\ mem = [p \in Procs |-> Empty]
    /\ ctl = [p \in Procs |-> Idle]
    /\ wait = [t \in Names |-> NoWaiter]
    /\ exit = "none"
    /\ spent = 0

-----------------------------------------------------------------------------
(* spawnTask, by the loop or by the spawn command.                         *)

\* branchForTask refuses a worker or subplanner on another branch than planned.
BranchRefused(rows, t) == ~IsVerifier(t) /\ rows[t].branch = "other"

RefRefused(rows, t) == IsVerifier(t) /\ BranchRefused(rows, Verifies[t])

\* Building the prompt asks for the branch of the task, and a verifier's for the
\* branch of its target too; the text is data.
PromptRefused(rows, t) == BranchRefused(rows, t) \/ RefRefused(rows, t)

StartingRefForTask(rows, t) ==
    IF IsVerifier(t) THEN rows[Verifies[t]].branch ELSE rows[t].startingRef

(* Mutant of DepsSatisfied: a dependency that failed counts as satisfied. *)
DepsSatisfied_Ended(rows, t) ==
    \A d \in rows[t].dependsOn : rows[d].status \notin {"pending", "running"}

DepsSatisfied(rows, t) ==
    \A d \in rows[t].dependsOn : rows[d].status = "handed-off"

Replace(t, n, agent) == cloud' = [cloud EXCEPT ![t][n] = agent]

\* The process ends: what it held in memory is gone.
EndCommand ==
    /\ ctl' = [ctl EXCEPT !["command"] = Idle]
    /\ mem' = [mem EXCEPT !["command"] = Empty]

\* History only: a command may put an older state of the cord over the file.
StillHeard(p) == heard' = (heard /\ (p = "command" /\ disk.andon => disk'.andon))

\* Agent.create is called for the next try of the spawn of t.
Attempt(p, t, row, c) ==
    LET rows == [mem[p].rows EXCEPT ![t] = row]
    IN  /\ Touch(p, t, IF RefRefused(rows, t) THEN row
                       ELSE [row EXCEPT !.startingRef = StartingRefForTask(rows, t)])
        /\ Goto(p, [c EXCEPT !.pc = "create", !.task = t, !.try = @ + 1])

\* A try failed: back off, or give the task up with status error.
AttemptFails(p, row) ==
    LET t == ctl[p].task IN
    IF ctl[p].try < SpawnMaxAttempts
    THEN /\ Touch(p, t, row)
         /\ Goto(p, [ctl[p] EXCEPT !.pc = "backoff", !.agent = 0])
    ELSE /\ disk' = [mem[p] EXCEPT !.rows[t] = [row EXCEPT !.status = "error"]]
         /\ IF p = "loop"
            THEN /\ mem' = [mem EXCEPT ![p] = disk']
                 /\ Goto(p, [ctl[p] EXCEPT !.pc = "scan", !.task = NoTask, !.try = 0, !.agent = 0])
            ELSE EndCommand

CreateFails(p) ==
    /\ ctl[p].pc = "create"
    /\ AttemptFails(p, mem[p].rows[ctl[p].task])
    /\ StillHeard(p)
    /\ UNCHANGED <<handoff, failure, wait, planned, exit, world>>

\* The agent exists: the row is running before the prompt is built and sent,
\* its ids are recorded after.  Building the prompt may refuse the branch.
CreateReturns(p) ==
    LET t == ctl[p].task
        row == [mem[p].rows[t] EXCEPT !.status = "running", !.run = 0]
        agent == [phase |-> "created", ref |-> row.startingRef, branch |-> "none", lost |-> FALSE]
    IN  /\ ctl[p].pc = "create"
        /\ ~RefRefused(mem[p].rows, t)
        /\ Len(cloud[t]) < MaxAgents[t]
        /\ cloud' = [cloud EXCEPT ![t] = Append(@, agent)]
        /\ IF PromptRefused(mem[p].rows, t)
           THEN AttemptFails(p, row)
           ELSE /\ Touch(p, t, row)
                /\ Goto(p, [ctl[p] EXCEPT !.pc = "send", !.agent = Len(cloud[t]) + 1])
        /\ StillHeard(p)
        /\ UNCHANGED <<handoff, failure, wait, planned, exit, plan, cord, spent>>

BackoffEnds(p) ==
    LET t == ctl[p].task IN
    /\ ctl[p].pc = "backoff"
    /\ Attempt(p, t, mem[p].rows[t], ctl[p])
    /\ StillHeard(p)
    /\ UNCHANGED <<handoff, failure, wait, planned, exit, world>>

SendFails(p) ==
    LET t == ctl[p].task
        n == ctl[p].agent
    IN  /\ ctl[p].pc = "send"
        /\ Replace(t, n, [cloud[t][n] EXCEPT !.lost = TRUE])
        /\ AttemptFails(p, mem[p].rows[t])
        /\ StillHeard(p)
        /\ UNCHANGED <<handoff, failure, wait, planned, exit, plan, cord, spent>>

\* The ids are recorded; the loop starts to wait, the spawn command exits.
SendReturns(p) ==
    LET t == ctl[p].task
        n == ctl[p].agent
        row == [mem[p].rows[t] EXCEPT !.run = n]
    IN  /\ ctl[p].pc = "send"
        /\ cloud[t][n].phase # "created"
        /\ disk' = [mem[p] EXCEPT !.rows[t] = row]
        /\ IF p = "loop"
           THEN /\ mem' = [mem EXCEPT ![p] = disk']
                /\ Goto(p, [ctl[p] EXCEPT !.pc = "scan", !.task = NoTask, !.try = 0, !.agent = 0])
                /\ wait' = [wait EXCEPT ![t] = [NoWaiter EXCEPT !.pc = "wait", !.run = n]]
           ELSE EndCommand /\ UNCHANGED wait
        /\ StillHeard(p)
        /\ UNCHANGED <<handoff, failure, planned, exit, world>>

-----------------------------------------------------------------------------
(* The cloud.                                                              *)

\* The prompt of the spawn in hand reaches the service.
RunStarts(p) ==
    LET t == ctl[p].task
        n == ctl[p].agent
    IN  /\ ctl[p].pc = "send" /\ cloud[t][n].phase = "created"
        /\ Replace(t, n, [cloud[t][n] EXCEPT !.phase = "live"])
        /\ UNCHANGED <<plan, cord, spent, files, procs, heard>>

\* A run ends by itself, having pushed some branch.
RunEnds(t, n, end, branch) ==
    /\ cloud[t][n].phase = "live"
    /\ Replace(t, n, [cloud[t][n] EXCEPT !.phase = end, !.branch = branch])
    /\ UNCHANGED <<plan, cord, spent, files, procs, heard>>

-----------------------------------------------------------------------------
(* waitAndHandoff of the loop.                                             *)

L == mem["loop"]
C == mem["command"]
LoopAt(pc) == ctl["loop"].pc = pc
CommandAt(pc) == ctl["command"].pc = pc

\* Code that runs without an await keeps every other part of the loop out.
Synchronous == LoopAt("scan") \/ LoopAt("decide") \/ \E t \in Names : wait[t].pc = "filed"

AtWait(t, pc) == wait[t].pc = pc /\ ~Synchronous

ResolveRunBranch(t, n) ==
    IF cloud[t][n].branch = "none" THEN L.rows[t].branch ELSE cloud[t][n].branch

\* handoffs/<t>.md and handoffs/<t>-failure.md, each replaced as a whole.
HandoffFile(t, n, end) == handoff' = [handoff EXCEPT ![t] = [run |-> n, end |-> end]]
FailureHandoff(t, n) == failure' = [failure EXCEPT ![t] = n]

(* Mutant of WriteHandoff: the row is touched first, the file left for later. *)
WriteHandoff_NoFile(t, end) ==
    LET n == wait[t].run
        branch == ResolveRunBranch(t, n)
    IN  /\ handoff' = handoff
        /\ mem' = [mem EXCEPT !["loop"].rows[t].branch = branch]
        /\ wait' = [wait EXCEPT ![t] = [pc |-> "filed", run |-> n, end |-> end, branch |-> branch]]

\* The handoff file is written before the row is touched.
WriteHandoff(t, end) ==
    LET n == wait[t].run
        branch == ResolveRunBranch(t, n)
    IN  /\ HandoffFile(t, n, end)
        /\ mem' = [mem EXCEPT !["loop"].rows[t].branch = branch]
        /\ wait' = [wait EXCEPT ![t] = [pc |-> "filed", run |-> n, end |-> end, branch |-> branch]]

\* The run ended and its end reached us, by its stream or by the watchdog.
WaitReturns(t) ==
    /\ AtWait(t, "wait")
    /\ cloud[t][wait[t].run].phase \in {"finished", "cancelled"}
    /\ WriteHandoff(t, cloud[t][wait[t].run].phase)
    /\ UNCHANGED <<disk, failure, ctl, planned, exit, world, heard>>

\* wait says error: the run failed, or only the connection did.
WaitReturnsError(t) ==
    /\ AtWait(t, "wait")
    /\ wait' = [wait EXCEPT ![t].pc = "probe"]
    /\ UNCHANGED <<files, mem, ctl, planned, exit, world, heard>>

\* The run is asked for again: still running means wait again.
ProbeSaysRunning(t) ==
    /\ AtWait(t, "probe")
    /\ cloud[t][wait[t].run].phase = "live"
    /\ LogAttention("loop")
    /\ wait' = [wait EXCEPT ![t].pc = "wait"]
    /\ UNCHANGED <<handoff, failure, ctl, planned, exit, world, heard>>

ProbeSaysEnded(t) ==
    /\ AtWait(t, "probe")
    /\ cloud[t][wait[t].run].phase \in Ends
    /\ disk' = L
    /\ WriteHandoff(t, cloud[t][wait[t].run].phase)
    /\ UNCHANGED <<failure, ctl, planned, exit, world, heard>>

\* It cannot be asked: the error is accepted, whatever the run does.
ProbeFails(t) ==
    /\ AtWait(t, "probe")
    /\ disk' = L
    /\ WriteHandoff(t, "error")
    /\ Replace(t, wait[t].run, [cloud[t][wait[t].run] EXCEPT !.lost = TRUE])
    /\ UNCHANGED <<failure, ctl, planned, exit, plan, cord, spent, heard>>

(* Mutant of WaitThrows: the failure file is left out. *)
WaitThrows_NoFile(t) ==
    /\ wait[t].pc \in {"wait", "probe"} /\ ~Synchronous
    /\ Touch("loop", t, [L.rows[t] EXCEPT !.status = "error"])
    /\ Replace(t, wait[t].run, [cloud[t][wait[t].run] EXCEPT !.lost = TRUE])
    /\ wait' = [wait EXCEPT ![t].pc = "after", ![t].end = "error"]
    /\ UNCHANGED <<handoff, failure, ctl, planned, exit, plan, cord, spent, heard>>

\* wait itself throws: status error without a handoff, with a failure file.
WaitThrows(t) ==
    /\ wait[t].pc \in {"wait", "probe"} /\ ~Synchronous
    /\ Touch("loop", t, [L.rows[t] EXCEPT !.status = "error"])
    /\ FailureHandoff(t, wait[t].run)
    /\ Replace(t, wait[t].run, [cloud[t][wait[t].run] EXCEPT !.lost = TRUE])
    /\ wait' = [wait EXCEPT ![t].pc = "after", ![t].end = "error"]
    /\ UNCHANGED <<handoff, ctl, planned, exit, plan, cord, spent, heard>>

\* The row is touched; an unsuccessful end also leaves a failure file.
CommitHandoff(t) ==
    /\ wait[t].pc = "filed"
    /\ Touch("loop", t, [L.rows[t] EXCEPT
            !.status = IF wait[t].end = "finished" THEN "handed-off" ELSE "error",
            !.branch = wait[t].branch, !.path = TRUE])
    /\ IF wait[t].end = "finished" THEN UNCHANGED failure ELSE FailureHandoff(t, wait[t].run)
    /\ wait' = [wait EXCEPT ![t].pc = "after"]
    /\ UNCHANGED <<handoff, ctl, planned, exit, world, heard>>

\* checkWorkerMeasurements notes what it finds wrong, if anything, and a note
\* saves the state.
Measured(rows) ==
    \/ Save("loop", [L EXCEPT !.rows = rows])
    \/ rows = L.rows /\ UNCHANGED <<mem, disk>>

\* The agent is disposed of, verifiers learn the branch, and what was measured
\* and verified is noted.
FinishWait(t) ==
    LET rows == IF wait[t].end = "finished"
                THEN ReconcileVerifierRefs(L.rows, planned, {t})
                ELSE L.rows
    IN
    /\ AtWait(t, "after")
    /\ Measured(rows)
    /\ wait' = [wait EXCEPT ![t] = NoWaiter]
    /\ UNCHANGED <<handoff, failure, ctl, planned, exit, world, heard>>

-----------------------------------------------------------------------------
(* The loop: recover, then sweep until nothing can make progress.          *)

\* visit of pendingCouldStillSpawn: no task upstream failed or is missing.
\* A depth of more tasks than there are is a cycle.
CouldStillSpawn(rows) ==
    LET visit[k \in 0 .. Cardinality(Names)] ==
            IF k = 0 THEN {}
            ELSE {t \in Names : \A d \in rows[t].dependsOn :
                    /\ rows[d].status \notin Failed \cup {"absent"}
                    /\ rows[d].status = "handed-off" \/ d \in visit[k - 1]}
    IN  With(rows, "pending") \cap DOMAIN planned \cap visit[Cardinality(Names)]

(* Mutant of CanMakeProgress: pending tasks are forgotten. *)
CanMakeProgress_RunningOnly(rows) == With(rows, "running") # {}
CanMakeProgress(rows) == With(rows, "running") # {} \/ CouldStillSpawn(rows) # {}

NewErrors == With(L.rows, "error") \ ctl["loop"].known

\* The process exits: whatever it was waiting for is left alone.
Exit(how) ==
    /\ ctl' = [ctl EXCEPT !["loop"] = Idle]
    /\ mem' = [mem EXCEPT !["loop"] = Empty]
    /\ wait' = [t \in Names |-> NoWaiter]
    /\ planned' = NoPlan
    /\ exit' = how

\* load, and the first row to recover.
Boot ==
    LET state == Loaded(disk, plan) IN
    /\ LoopAt("off") /\ spent < MaxEvents
    /\ CommandAt("off") \/ plan \in Shared
    /\ spent' = spent + 1
    /\ ValidPlan(plan)
    /\ Save("loop", state)
    /\ Goto("loop", [Idle EXCEPT !.pc = "recover", !.cmd = "run",
                                 !.todo = With(state.rows, "running"),
                                 !.known = With(state.rows, "error")])
    /\ planned' = plan
    /\ exit' = "none"
    /\ UNCHANGED <<handoff, failure, wait, plan, cloud, cord, heard>>

Recovering(t) ==
    LoopAt("recover") /\ ctl["loop"].todo # {} /\ t = First(ctl["loop"].todo) /\ ~Synchronous

\* recordRecoverFailure: the row is an error, with a failure file.
RecoverFails(t) ==
    LET n == L.rows[t].run IN
    /\ Recovering(t)
    /\ Touch("loop", t, [L.rows[t] EXCEPT !.status = "error"])
    /\ FailureHandoff(t, n)
    /\ IF n = 0 THEN UNCHANGED cloud
       ELSE Replace(t, n, [cloud[t][n] EXCEPT !.lost = TRUE])
    /\ Goto("loop", [ctl["loop"] EXCEPT !.todo = @ \ {t}])
    /\ UNCHANGED <<handoff, wait, planned, exit, plan, cord, spent, heard>>

(* Mutant of RecoverReturns: the recovered run is not waited for. *)
RecoverReturns_Unwatched(t) ==
    /\ Recovering(t) /\ L.rows[t].run # 0
    /\ Goto("loop", [ctl["loop"] EXCEPT !.todo = @ \ {t}])
    /\ UNCHANGED <<files, mem, wait, planned, exit, world, heard>>

\* The run is found: wait for it again.
RecoverReturns(t) ==
    LET n == L.rows[t].run IN
    /\ Recovering(t) /\ n # 0
    /\ wait' = [wait EXCEPT ![t] = [NoWaiter EXCEPT !.pc = "wait", !.run = n]]
    /\ Goto("loop", [ctl["loop"] EXCEPT !.todo = @ \ {t}])
    /\ UNCHANGED <<files, mem, planned, exit, world, heard>>

Recovered ==
    /\ LoopAt("recover") /\ ctl["loop"].todo = {} /\ ~Synchronous
    /\ IF ExitOnError /\ NewErrors # {}
       THEN disk' = L /\ Exit("error")
       ELSE Goto("loop", [ctl["loop"] EXCEPT !.pc = "poll"]) /\ UNCHANGED <<disk, mem, wait, planned, exit>>
    /\ UNCHANGED <<handoff, failure, world, heard>>

\* Whether the kickoff message carries the reaction.
Snapshot == cord

\* The andon cord, polled once per sweep; when it is up no task is spawned.
StartSweep(andon) ==
    Goto("loop", IF andon THEN [ctl["loop"] EXCEPT !.pc = "decide", !.todo = {}]
                 ELSE [ctl["loop"] EXCEPT !.pc = "scan", !.todo = DOMAIN planned])

(* Mutant of PollReturns: what the poll saw stays in memory. *)
PollReturns_Unsaved ==
    /\ LoopAt("poll") /\ ~Synchronous
    /\ mem' = [mem EXCEPT !["loop"].andon = cord]
    /\ StartSweep(cord)
    /\ heard' = (cord /\ (L.andon => disk.andon))
    /\ UNCHANGED <<files, wait, planned, exit, world>>

PollReturns ==
    /\ LoopAt("poll") /\ ~Synchronous
    /\ IF L.andon # Snapshot THEN Save("loop", [L EXCEPT !.andon = Snapshot])
       ELSE Save("loop", L) \/ UNCHANGED <<mem, disk>>
    /\ StartSweep(Snapshot)
    /\ heard' = (Snapshot /\ (L.andon => disk.andon))
    /\ UNCHANGED <<handoff, failure, wait, planned, exit, world>>

\* The check failed: the state of the last one stands.
PollFails ==
    /\ LoopAt("poll") /\ ~Synchronous
    /\ LogAttention("loop")
    /\ StartSweep(L.andon)
    /\ UNCHANGED <<handoff, failure, wait, planned, exit, world, heard>>

Ready == {t \in ctl["loop"].todo :
            L.rows[t].status = "pending" /\ DepsSatisfied(L.rows, t)}

After(t) == {u \in ctl["loop"].todo : Rank(u) > Rank(t)}

\* The next ready task of the sweep: spawn it, or refuse it for its attempts.
Scan(t) ==
    LET row == L.rows[t]
        max == planned[t].maxAttempts
    IN  /\ LoopAt("scan") /\ Ready # {} /\ t = First(Ready)
        /\ IF max # 0 /\ row.attempts >= max
           THEN /\ Touch("loop", t, [row EXCEPT !.status = "error"])
                /\ Goto("loop", [ctl["loop"] EXCEPT !.todo = After(t)])
           ELSE Attempt("loop", t, [row EXCEPT !.attempts = @ + 1],
                        [ctl["loop"] EXCEPT !.todo = After(t)])
        /\ UNCHANGED <<handoff, failure, wait, planned, exit, world, heard>>

ScanEnds ==
    /\ LoopAt("scan") /\ Ready = {}
    /\ Goto("loop", [ctl["loop"] EXCEPT !.pc = "decide", !.todo = {}])
    /\ UNCHANGED <<files, mem, wait, planned, exit, world, heard>>

\* After a sweep: stop at a new error, sleep while progress is possible, or settle.
Decide ==
    /\ LoopAt("decide")
    /\ IF ExitOnError /\ NewErrors # {}
       THEN disk' = L /\ Exit("error")
       ELSE /\ Goto("loop", [ctl["loop"] EXCEPT !.pc =
                                IF CanMakeProgress(L.rows) THEN "sleep" ELSE "settle"])
            /\ UNCHANGED <<disk, mem, wait, planned, exit>>
    /\ UNCHANGED <<handoff, failure, world, heard>>

(* Mutant of Checkpoint: a sweep paused by the cord never gets to it. *)
Checkpoint_NotPaused ==
    /\ LoopAt("decide") /\ ~L.andon
    /\ ~(ExitOnError /\ NewErrors # {}) /\ CanMakeProgress(L.rows)
    /\ disk' = L /\ Exit("checkpoint")
    /\ UNCHANGED <<handoff, failure, world, heard>>

\* maxRuntimeSec have passed and there is work left: exit to be started again.
Checkpoint ==
    /\ LoopAt("decide")
    /\ ~(ExitOnError /\ NewErrors # {}) /\ CanMakeProgress(L.rows)
    /\ disk' = L /\ Exit("checkpoint")
    /\ UNCHANGED <<handoff, failure, world, heard>>

Wake ==
    /\ LoopAt("sleep") /\ ~Synchronous
    /\ Goto("loop", [ctl["loop"] EXCEPT !.pc = "poll"])
    /\ UNCHANGED <<files, mem, wait, planned, exit, world, heard>>

\* Every wait settled: note what stays pending, and exit.
Settle ==
    /\ LoopAt("settle") /\ \A t \in Names : wait[t] = NoWaiter
    /\ disk' = IF \E t \in With(L.rows, "pending") : \E d \in L.rows[t].dependsOn :
                        L.rows[d].status \in Failed \cup {"absent"}
               THEN L ELSE disk
    /\ Exit(IF \E t \in Names : L.rows[t].status \in {"error", "cancelled", "pending"}
            THEN "stuck" ELSE "done")
    /\ UNCHANGED <<handoff, failure, world, heard>>

-----------------------------------------------------------------------------
(* The operator's commands, each a process of its own.                     *)

\* Every command loads the workspace, which saves it, before it does anything:
\* start is what it finds, state what it makes of it before its first await.
StartCommand(cmd, t) ==
    /\ CommandAt("off") /\ spent < MaxEvents /\ <<cmd, t>> \in Commands
    /\ LoopAt("off") \/ plan \in Shared
    /\ ValidPlan(plan)
    /\ spent' = spent + 1
    /\ UNCHANGED <<handoff, failure, wait, planned, exit, plan, cloud, cord, heard>>

Found == Loaded(disk, plan)

\* The command ends at once, with this state saved.
EndsWith(state) == disk' = state /\ UNCHANGED <<mem, ctl>>

\* It goes on, with this state saved and in memory.
GoesOn(state, control) == Save("command", state) /\ Goto("command", control)

InlineTask(t) == InitialTaskState({}, t, TRUE)

\* spawn: a task of its own (ad hoc), or a pending one ahead of the loop.
SpawnCommand(t) ==
    LET row == Found.rows[t]
        new == IF row.status = "absent" THEN InlineTask(t) ELSE row
    IN  /\ StartCommand("spawn", t)
        /\ IF ~IsVerifier(t) /\ row.status \in {"absent", "pending"}
           THEN GoesOn([Found EXCEPT !.rows[t] = [new EXCEPT !.attempts = @ + 1]],
                       [Idle EXCEPT !.pc = "create", !.cmd = "spawn", !.task = t, !.try = 1])
           ELSE EndsWith(Found)

\* A subplanner that was tried before resumes from its own branch.
Respawned(row, t) ==
    [row EXCEPT !.status = "pending", !.run = 0, !.path = FALSE,
                !.startingRef = IF Kind[t] = "subplanner" /\ row.attempts > 0
                                THEN row.branch ELSE @]

RowAncestors(rows, t) ==
    LET up[k \in 0 .. Cardinality(Names)] ==
            IF k = 0 THEN rows[t].dependsOn
            ELSE up[k - 1] \cup UNION {rows[u].dependsOn : u \in up[k - 1]}
    IN  up[Cardinality(Names)]

(* Mutant of RespawnCommand: a running task may be respawned. *)
RespawnCommand_Running(t, cascade) ==
    LET rows == Found.rows
        again == {u \in With(rows, "pruned") : cascade /\ t \in RowAncestors(rows, u)}
    IN  /\ StartCommand(IF cascade THEN "cascade" ELSE "respawn", t)
        /\ IF rows[t].status \in {"absent", "handed-off"}
           THEN EndsWith(Found)
           ELSE EndsWith([Found EXCEPT !.rows = [u \in Names |->
                    IF u \in again \cup {t} THEN Respawned(rows[u], u) ELSE rows[u]]])

\* respawn: neither running nor handed off; cascade brings the pruned tasks
\* that depend on it back too.
RespawnCommand(t, cascade) ==
    LET rows == Found.rows
        again == {u \in With(rows, "pruned") : cascade /\ t \in RowAncestors(rows, u)}
    IN  /\ StartCommand(IF cascade THEN "cascade" ELSE "respawn", t)
        /\ IF rows[t].status \in {"absent", "running", "handed-off"}
           THEN EndsWith(Found)
           ELSE EndsWith([Found EXCEPT !.rows = [u \in Names |->
                    IF u \in again \cup {t} THEN Respawned(rows[u], u) ELSE rows[u]]])

\* cancel needs the ids of a run, whatever the status.
CancelCommand(t) ==
    /\ StartCommand("cancel", t)
    /\ IF Found.rows[t].run = 0 THEN EndsWith(Found)
       ELSE GoesOn(Found, [Idle EXCEPT !.pc = "cancel", !.cmd = "cancel", !.task = t])

\* The task and its pending or running dependents, through such dependents.
CascadeVictims(rows, t) ==
    LET open == With(rows, "pending") \cup With(rows, "running")
        down[k \in 0 .. Cardinality(Names)] ==
            IF k = 0 THEN {t}
            ELSE down[k - 1] \cup {u \in open : rows[u].dependsOn \cap down[k - 1] # {}}
    IN  IF rows[t].status = "absent" THEN {}
        ELSE {u \in Names : u \in down[Cardinality(Names)]}

\* kill: one task with its dependents, or every pending and running one.
KillCommand(t) ==
    /\ StartCommand("kill", t)
    /\ GoesOn(Found, [Idle EXCEPT !.pc = "stop", !.cmd = "kill", !.todo =
            IF t = NoTask THEN With(Found.rows, "pending") \cup With(Found.rows, "running")
            ELSE CascadeVictims(Found.rows, t)])

\* stopTask of the next victim: prune a pending row, cancel a running one.  They
\* come in the order of the file; a cascade goes level by level, which is the
\* same order when every level is listed before the next.
StopTask(t) ==
    LET row == C.rows[t]
        next == [ctl["command"] EXCEPT !.todo = @ \ {t}]
    IN  /\ CommandAt("stop") /\ ctl["command"].todo # {} /\ t = First(ctl["command"].todo)
        /\ \/ /\ row.status = "running" /\ row.run # 0
              /\ Goto("command", [next EXCEPT !.pc = "cancel", !.task = t])
              /\ UNCHANGED <<mem, disk>>
           \/ /\ row.status = "running" /\ row.run = 0
              /\ Touch("command", t, [row EXCEPT !.status = "error"])
              /\ Goto("command", next)
           \/ /\ row.status = "pending"
              /\ Touch("command", t, [row EXCEPT !.status = "pruned"])
              /\ Goto("command", next)
           \/ /\ row.status \notin {"running", "pending"}
              /\ Goto("command", next)
              /\ UNCHANGED <<mem, disk>>
        /\ StillHeard("command")
        /\ UNCHANGED <<handoff, failure, wait, planned, exit, world>>

StopEnds ==
    /\ CommandAt("stop") /\ ctl["command"].todo = {}
    /\ EndCommand
    /\ UNCHANGED <<files, wait, planned, exit, world, heard>>

\* cancel ends the command, kill goes on with the next victim.
NextVictim(row) ==
    LET t == ctl["command"].task IN
    IF ctl["command"].cmd = "cancel"
    THEN disk' = [C EXCEPT !.rows[t] = row] /\ EndCommand
    ELSE /\ Touch("command", t, row)
         /\ Goto("command", [ctl["command"] EXCEPT !.pc = "stop", !.task = NoTask])

\* run.cancel returned; a run that had ended is left as it is.
CancelReturns ==
    LET t == ctl["command"].task
        n == C.rows[t].run
    IN  /\ CommandAt("cancel")
        /\ IF cloud[t][n].phase = "live"
           THEN Replace(t, n, [cloud[t][n] EXCEPT !.phase = "cancelled"])
           ELSE UNCHANGED cloud
        /\ NextVictim([C.rows[t] EXCEPT !.status = "cancelled"])
        /\ StillHeard("command")
        /\ UNCHANGED <<handoff, failure, wait, planned, exit, plan, cord, spent>>

\* It threw, with or without effect: kill marks the row, cancel leaves it.
CancelFails ==
    LET t == ctl["command"].task
        n == C.rows[t].run
        kill == ctl["command"].cmd # "cancel"
    IN  /\ CommandAt("cancel")
        /\ \E landed \in BOOLEAN :
              Replace(t, n, [cloud[t][n] EXCEPT
                !.phase = IF landed /\ @ = "live" THEN "cancelled" ELSE @,
                !.lost = @ \/ kill])
        /\ IF kill THEN NextVictim([C.rows[t] EXCEPT !.status = "error"])
           ELSE EndCommand /\ UNCHANGED disk
        /\ StillHeard("command")
        /\ UNCHANGED <<handoff, failure, wait, planned, exit, plan, cord, spent>>

-----------------------------------------------------------------------------
(* Crashes, the planner and the operator's cord.                           *)

\* A process dies; a prompt on its way is not recorded anywhere.
LosePrompt(p) ==
    IF ctl[p].pc = "send"
    THEN Replace(ctl[p].task, ctl[p].agent, [cloud[ctl[p].task][ctl[p].agent] EXCEPT !.lost = TRUE])
    ELSE UNCHANGED cloud

LoopDies ==
    /\ ~LoopAt("off")
    /\ LosePrompt("loop")
    /\ ctl' = [ctl EXCEPT !["loop"] = Idle]
    /\ mem' = [mem EXCEPT !["loop"] = Empty]
    /\ wait' = [t \in Names |-> NoWaiter]
    /\ planned' = NoPlan
    /\ UNCHANGED <<files, exit, plan, cord, spent, heard>>

CommandDies ==
    /\ ~CommandAt("off")
    /\ LosePrompt("command")
    /\ EndCommand
    /\ UNCHANGED <<files, wait, planned, exit, plan, cord, spent, heard>>

EditPlan(p) ==
    /\ spent < MaxEvents /\ p # plan
    /\ plan' = p
    /\ spent' = spent + 1
    /\ UNCHANGED <<cloud, cord, files, procs, heard>>

PullCord ==
    /\ ~cord /\ spent < MaxEvents
    /\ cord' = TRUE
    /\ spent' = spent + 1
    /\ UNCHANGED <<plan, cloud, files, procs, heard>>

ReleaseCord ==
    /\ cord
    /\ cord' = FALSE /\ heard' = FALSE
    /\ UNCHANGED <<plan, cloud, spent, files, procs>>

-----------------------------------------------------------------------------
Spawning(p) ==
    CreateFails(p) \/ CreateReturns(p) \/ BackoffEnds(p) \/ SendFails(p) \/ SendReturns(p)

Waiting(t) ==
    \/ WaitReturns(t) \/ WaitReturnsError(t) \/ WaitThrows(t)
    \/ ProbeSaysRunning(t) \/ ProbeSaysEnded(t) \/ ProbeFails(t)
    \/ CommitHandoff(t) \/ FinishWait(t)

Reconciling ==
    \/ \E t \in Names : RecoverFails(t) \/ RecoverReturns(t) \/ Scan(t)
    \/ Recovered \/ PollReturns \/ PollFails \/ ScanEnds
    \/ Decide \/ Checkpoint \/ Wake \/ Settle

Operating ==
    \/ \E t \in Names :
        \/ SpawnCommand(t) \/ CancelCommand(t) \/ StopTask(t)
        \/ \E cascade \in BOOLEAN : RespawnCommand(t, cascade)
    \/ \E t \in Names \cup {NoTask} : KillCommand(t)
    \/ StopEnds \/ CancelReturns \/ CancelFails \/ CommandDies

Next ==
    \/ Boot \/ Reconciling \/ LoopDies
    \/ \E p \in Procs : Spawning(p) \/ RunStarts(p)
    \/ \E t \in Names : Waiting(t)
    \/ \E t \in Names : \E n \in DOMAIN cloud[t] :
        \E end \in {"finished", "error"}, branch \in Pushes[t] : RunEnds(t, n, end, branch)
    \/ Operating
    \/ \E p \in Plans : EditPlan(p)
    \/ PullCord \/ ReleaseCord

\* Every call of the loop to the cloud or to Slack is answered or fails, its
\* timers fire, a handoff it has begun is completed, and a loop that goes on and
\* on meets the end of its time.  No run has to end, no command has to be given
\* and no cord has to be released.
Fairness ==
    /\ WF_vars(Reconciling) /\ WF_vars(Spawning("loop")) /\ SF_vars(Checkpoint)
    /\ \A t \in Names : WF_vars(CommitHandoff(t) \/ FinishWait(t))

Spec == Init /\ [][Next]_vars /\ Fairness

-----------------------------------------------------------------------------
(* What must hold.                                                         *)

Spawns(p) == ctl[p].pc \in {"create", "send", "backoff"}
InHand(p, t) == Spawns(p) /\ ctl[p].task = t
Watched == {t \in Names : wait[t].pc \in {"wait", "probe", "filed"}}

\* Whoever finds a task handed off in state.json finds its handoff file, of the
\* run the row names and of a run that finished; waitAndHandoff's comment says
\* why it writes the file first.  A crash may leave the file without the row,
\* and plans, respawns and cancels go on in between.
HandedOffHasFile ==
    \A t \in With(disk.rows, "handed-off") :
        handoff[t] = [run |-> disk.rows[t].run, end |-> "finished"]

\* A loop that is up has an eye on exactly the rows it holds as running: each
\* is being recovered, waited for or in the middle of its spawn, and none is
\* waited for after it was settled.
RunningIsWatched ==
    ~LoopAt("off") =>
        With(L.rows, "running") \ {t \in Names : InHand("loop", t)} =
            Watched \cup (IF LoopAt("recover") THEN ctl["loop"].todo ELSE {})

\* Process p is up and its copy of the row of t has another status or run than
\* the file has: another process changed the row since p read or wrote it.
Behind(p, t) ==
    LET copy == mem[p].rows[t]
        row == disk.rows[t]
    IN  ctl[p].pc # "off" /\ <<copy.status, copy.run>> # <<row.status, row.run>>

\* A step of p alone, which puts its copy over a row it has not read: saveState
\* writes the whole memory of the process.  As long as no command runs beside
\* the loop there is no such step.
Overwrites(p, t) ==
    /\ Behind(p, t)
    /\ \A q \in Procs \ {p} : ctl'[q] = ctl[q] /\ mem'[q] = mem[q]

AtWork(t, n) == cloud[t][n].phase = "live" /\ ~cloud[t][n].lost
Sent(t, n) == \E p \in Procs : ctl[p].pc = "send" /\ ctl[p].task = t /\ ctl[p].agent = n
Named(t, n) == disk.rows[t].run = n \/ Sent(t, n)

\* An agent that works is the one its row names or one just being sent its prompt:
\* over any respawns, crashes, failures and restarts two agents work on a task
\* unknown to the planner only after a process has put its copy over the very
\* row that named one of them.  An agent is not counted once a call on it
\* failed or the process that was starting it died.
AgentsKeepNames ==
    [][\A t \in Names : \A n \in DOMAIN cloud'[t] :
        AtWork(t, n)' /\ ~Named(t, n)' =>
            \/ n \in DOMAIN cloud[t] /\ AtWork(t, n) /\ ~Named(t, n)
            \/ disk.rows[t].run = n /\ \E p \in Procs : Overwrites(p, t)]_vars

\* A verdict in state.json stands: a failed, cancelled or pruned task becomes
\* pending only by an operator's respawn, a task handed off is at most
\* cancelled by one, and nothing else takes either back but a process that puts
\* its copy over a verdict it has not read.
DecisionsStand ==
    [][\A t \in Names :
        LET was == disk.rows[t].status
            is == disk'.rows[t].status
        IN  was \in Failed \cup {"handed-off"} /\ is # was =>
            \/ was # "handed-off" /\ is = "pending" /\ spent' > spent /\ ctl' = ctl
            \/ is = "cancelled" /\ ctl["command"].cmd = "cancel"
            \/ \E p \in Procs : Overwrites(p, t)]_vars

\* Once a poll has seen the cord up, no loop starts an agent until it is
\* released: not after a poll that fails, nor after a crash and a restart, as
\* long as no command puts an older state over what the poll noted.
HeardCordHolds ==
    [][heard => \A t \in Names :
            InHand("loop", t) => Len(cloud'[t]) = Len(cloud[t])]_vars

\* A verifier's agent is cloned from a branch its target delivered: the loop,
\* which alone spawns verifiers, holds the target as handed off, and the run it
\* holds for it named that branch or none, whatever commands do meanwhile.
VerifierOnDeliveredBranch ==
    [][\A v \in Names : IsVerifier(v) /\ Len(cloud'[v]) > Len(cloud[v]) =>
        LET row == L.rows[Verifies[v]]
            ref == cloud'[v][Len(cloud'[v])].ref
        IN  /\ row.status = "handed-off"
            /\ cloud[Verifies[v]][row.run].branch \in {ref, "none"}]_vars

\* The exit on an error tells the planner to read handoffs/<task>-failure.md:
\* it is there, and of this very run, whenever the failed task had a run.
NewErrorsExplained ==
    ~LoopAt("off") => \A t \in NewErrors :
        L.rows[t].run # 0 => failure[t] = L.rows[t].run

\* A loop that gives up has no choice: nothing runs, and every task of its plan
\* that is left pending has a failed or missing task upstream, however far.
StuckForAReason ==
    LoopAt("settle") /\ wait = [t \in Names |-> NoWaiter] =>
        /\ With(L.rows, "running") = {}
        /\ \A t \in With(L.rows, "pending") \cap DOMAIN planned :
            \E u \in RowAncestors(L.rows, t) : L.rows[u].status \in Failed \cup {"absent"}

\* Every loop ends: with everything settled, at an error or at its checkpoint,
\* even if a run never ends or the cord stays up.
LoopEnds == ~LoopAt("off") ~> LoopAt("off")
=============================================================================
