# Verification of the sales-agent console (CRM-AI)

TLA+ models of the program in `src/`, TLC configurations that check them on
small instances, and TLAPS proofs of the properties that matter most for
every instance. `PROJECT.json` lists components, runs, mutants, the map from
definitions to source lines, findings, hazards and theorems.

    tlc -workers 2 -config concurrent.cfg MCScheduler.tla
    tlc -workers 2 -config orchestrate.cfg MCOrchestrate.tla
    tlapm SchedulerProofs.tla

Each section names its runs and their properties; section 10 is about the proof
modules `SchedulerProofs`, `LifecycleProofs`, `OrchestrateProofs`, `CommentProofs`,
`StoreProofs`, `SliceProofs`, `ClickDemoProofs` and `ConsoleProofs`.

## 1. Inventory

The program is a small CRM in which four model-backed agents hand work over in
a fixed order and people decide the risky steps.

| Component | State it keeps | Operations | Modelled in |
|---|---|---|---|
| Scheduler (`packages/harness/src/scheduler.ts`) | rows of `leads`, `accounts`, `contacts`, `opportunities`, `activities`, `handoffs`, `agent_runs`, `token_ledger`, `audit_events` | `ingestLead`, `confirmHandoff`, `rejectHandoff`, `abortRun`, `abortLead`, `advanceStage`; inside them `dispatch` and `applyJson` | `Scheduler` |
| Answer parsing and ACL (`parse-output.ts`, `domain/acl.ts`) | none | `parseAgentJson`, `agentMayWrite` | `Scheduler` (`AnyReply`, `IllegalWrites`) |
| Model runners (`qwen-runner.ts`, `cursor-runner.ts`, `scripted-runner.ts`, `select-runner.ts`) | a timer per call | `run` | `Scheduler` (`Answer`, fairness) |
| HTTP API (`apps/api`) | none of its own; requests in flight | one route per operation, errors to status codes | `Scheduler` (`Next`, `calls`, `Crash`) |
| Schema, enums, seed (`packages/domain`) | the tables and their constraints | `seed`, `migrate` | `Scheduler` (`Init`, row sets) |
| Token ledger and usage | `agent_runs`, `token_ledger` | `persistRun`, `usageTotals`, `usageBreakdown` | `SliceWrites` |
| CSV import, vectors, boot | `leads`, `vec_leads`, the database file | `importLeadsFromCsv`, `rebuildLeadVec`, `bootstrapFileDb`, `openRuntimeDb` | `LeadStore` |
| Web console (`apps/web`) | card, list, queue, busy flag | `run`, `refreshAll`, `handleImportFile` | `Console`; the busy flag beside the server: `Scheduler` (`ConsoleLock`) |
| Click prototype (`apps/web-demo`) | `DemoState`, one timer per awaited arrival | `reduce`, the timer effect | `ClickDemo` |
| Citations, evaluation catalogue, scripts, prompts, corpus, deployment | none | | not modelled: static data and text |
| Orchestrate skill (`.cursor/skills/orchestrate`): agent manager, loop, operator commands | `state.json`, `plan.json`, handoff files, the loop's memory, cloud runs | `load`, `spawnTask`, `waitAndHandoff`, `recoverRunning`, `stopTask`, `respawnTask`, `cancel`, andon | `Orchestrate` |
| Orchestrate skill: comment retry queue | the queue file | `postOrQueueComment`, `drainCommentRetryQueue` | `CommentQueue` |

How they interact. A console sends one HTTP request per user action. The
request runs on Node's single thread over a synchronous SQLite driver: what
lies between two `await`s is never interleaved with another request. The only
`await` of the scheduler is `runner.run` in `dispatch`. `ingestLead` awaits up
to three model calls in sequence (orchestrator, lead-intake, pipeline), each
skipped when its handoff is effective; `confirmHandoff` of a conversion awaits
one (followup). Everything else is synchronous. So a request is either
finished at once or a slot that waits for one agent's answer, while the rows
it read may change.

What is hard here:

* overlapping requests of one lead: `sliceBusy` and `hasEffective` read rows
  before the await and are not read again after it;
* answers that arrive after an abort, a rejection, a conversion or a crash;
* model answers of every quality: failed, not JSON, not permitted, incomplete
  in a way only a table constraint notices;
* several statements without a transaction: a constraint or a crash half way;
* racing decisions on one handoff by people of different roles;
* in the lead store: every statement commits by itself, and a crash may hit
  between any two of a boot, a rebuild or an import;
* in the orchestrate skill: a long-lived loop and short-lived operator commands
  write the same `state.json` and the same queue file, each the whole of what it
  read; cloud runs survive every process and their streams break off.

* in the console and the prototype: replies and timers meet a tab whose user has
  gone on since; nothing compares a reply with what is chosen when it comes.

What makes each component correct: the properties of sections 3 to 9. In a
sentence each: the scheduler moves a lead through its life only in order and only
by a person's decision; the orchestrate loop settles each task once, with its
handoff on file and nobody working unseen; the comment queue delivers or keeps
what is required; the lead store comes up whole after any crash; a crash between
two statements of the scheduler takes at most one row each from the ledger, and no handoff counts
before its rows are written; the console shows the lead that is open and gives its lock back;
the prototype's leads wait for one thing and get it.

These sentences have exceptions, which the properties state and the sections explain.
A crash inside `applyConvert` leaves a lead with an account that no confirmation can convert any more, and so
does a proposal without a title. A crash after `markDone`, or a follow-up answer the tables refuse, leaves a
converted lead whose follow-up nothing ever dispatches. Overlapping requests of one lead repeat steps.
Two processes of the orchestrate skill undo each other's writes of `state.json` and of the queue file.
A crash in the middle of the first seeding, and two leads of one company, end what the lead store promises.

## 2. Modules

| Module | Models |
|---|---|
| `Scheduler` | the scheduler and the requests in flight |
| `LeadLifecycle` | the abstract life of a lead: a timeline of entries that agents add to and people grant, refuse or abandon. No agents, requests, runs, crashes |
| `Orchestrate` | the agent manager, its loop, the operator's commands, the cloud |
| `CommentQueue` | the retry queue of required comments and the processes that drain it |
| `LeadStore` | the database file: boot, seed, vectors, CSV import |
| `SliceWrites` | the scheduler's writes for one lead, statement by statement, with crashes |
| `ClickDemo` | the click prototype: reducer and timers |
| `Console` | one console tab: the open lead, its card, the lock, the dialog |
| `MC...` | the instances: model values, answer sets, plans, files |
| `...Proofs` | theorems about the module of that name; `LifecycleProofs`: `Scheduler` implements `LeadLifecycle` |

`Scheduler` and `SliceWrites` are two cuts through the same functions: the first takes
what runs between two awaits as one step and interleaves requests and leads, the second
takes one request at a time to pieces. Both cuts at once, statements of interleaved
requests, do not exist in the code: a request's statements run to its next await.
`Console` takes the server for something that writes and answers. `Scheduler` and `LeadStore` share the table of leads but no step: the scheduler
uses a lead by its id, the store by its company, and only the rename by
lead-intake touches both (`AnswerDescription` there, `Rename` here). `Orchestrate`
and `CommentQueue` meet in one place: the loop drains the queue once a sweep
before it polls the cord (`loop.ts` 123-137), on a file of its own.

## 3. `Scheduler`

Variables are the tables, reduced to the columns the code branches on, and
`calls`, one slot per request that waits in `dispatch`. A slot holds the lead
and the agent whose answer is awaited. Rows of `handoffs`, `runs` and
`activities` are sequences in creation order, so an id is an index.
Three history fields exist for properties only and no action reads them:
`decidedBy` of a handoff, `handoff` of an activity, `stopped` of a slot.

| Action | Code |
|---|---|
| `Ingest` | `ingestLead` up to its first await |
| `Answer...` (12 actions) | `dispatch` after its await with `applyJson`, and the rest of `ingestLead` up to the next await |
| `ConfirmConvert`, `ConfirmSend`, `ConfirmWinLoss` | the three branches of `confirmHandoff` |
| `ConfirmConvertThrows` | `applyConvert` stopped by a table constraint |
| `Reject`, `AbortRun`, `AbortLead`, `AdvanceStage` | the functions of those names |
| `Crash` | the process ends and starts again over the same file |

A model answer is one of the classes the code can tell apart (`AnyReply`), chosen
freely at every call: the runner throws; failure; no JSON; a forbidden write; an
owner known or unknown to `users`; a description; a proposal that is complete,
lacks `contactTitle`, lacks a name, or has an English stage; a stage that is
middle, closing or unknown; an activity that is sound, has no text or an unknown
type. An answer an agent is not asked for is included: the code must cope.

Abstractions: texts, ids, timestamps, token amounts and the contact row (always
written between account and opportunity) are left out; `token_ledger` is part of
the `runs` row because nothing between the two inserts can stop but a crash,
which is taken for one step with them. The seeded activities and handoff are decided
already and never read by a guard that matters, so `Init` omits them. One step is
what runs between two awaits: a crash inside it is in `SliceWrites` (section 7).

### Runs

| Run | Instance | Shows |
|---|---|---|
| `concurrent` | 1 lead, 2 requests in flight, 6 runs, 3 roles, crashes | what holds under every interleaving: `ObjectsMatchStatus`, `AgentOrder`, `HistoryKept`, `EffectsByHuman`, `FailureStops`, and that the lead's life is that of `LeadLifecycle` (`Lifecycle`) |
| `serial` | 1 lead, console lock, every answer, crashes, 6 runs, fairness | what one console with its busy flag guarantees: `OnePending`, `EffectiveOnce`, `SendsOwnDraft`, `BannerTrue`; and, of every answer, what the refused ones leave: `NothingBeforeConversion`, `RunsVisible`, `ProposalStaysOpen`, `RequestsReturn` |
| `append_after_abort` | as `concurrent` without crashes and viewers | `StoppedAppendsNothing` fails: an answer is applied after an abort |
| `lost_followup` | as `serial`, the fruitful answers and the activity without text, no crash | `FollowupArrives` fails: the conversion is effective, the follow-up's run recorded, and no handoff of it ever written |

`OnePending`, `EffectiveOnce`, `SendsOwnDraft` and `BannerTrue` need the console lock. With two slots, no
lock and two requests `EffectiveOnce` and `OnePending` fail when two ingests of a lead overlap,
and `SendsOwnDraft` fails then too: one confirmation sends every draft of the lead.

Bounds. `MaxRuns` bounds the rows of `agent_runs`: a request starts only when all
the dispatches it may make still fit, so that no answer is ever refused for lack
of room and the bound only limits how many requests there are. Six runs are a
full life of a lead (three agents, followup, a closing) and one repetition or
failure, or two overlapping ingests. `concurrent` uses `FruitfulReply` (one answer for each
effect an agent can have and one failure); `serial` uses all of them. The request
slots are symmetric and interchangeable, and symmetry is used in no run with
liveness. Deadlock is checked in every run of this section: a user can always abort.

`ConsoleLock` states an assumption on the environment, not on the server: one
open console tab, whose `run` disables its controls while a request is out
(`apps/web/src/App.tsx` 190-214). A second tab, a reload or a proxy that times out
breaks it, and so does a file import (section 9), which is what `concurrent` is about. The properties of `serial` are
therefore promises of the console and the server together.

Three properties say what an answer that the code accepts and then trips over can leave,
and that nothing else leaves it. They need no lock and no instruction to the model. `NothingBeforeConversion`: a lead has an account without being
converted only if a proposal without `contactTitle` is on its timeline (it passes the check at
line 620, the account is inserted, the contact refused), and that proposal never becomes effective. (A crash between
the statements of `applyConvert` leaves the same and is in `SliceWrites`: here a crash comes between awaits.)
`RunsVisible`: a recorded run without a handoff has ended and is of orchestrator (an
unknown `ownerUserId`) or followup (an activity without text); a failed run and the other two agents always show.
`ProposalStaysOpen`: an effective pipeline handoff of a lead that is not converted moved or closed a
stage the lead does not have; rejections, failures, aborts and half-done conversions never close the way to a new
proposal. `FollowupArrives` is the promise of the contract that a step shows or fails visibly (`M2.md` 34,
`eval.md` 26), which the activity without text breaks (`scheduler.ts` 453-462).

Fairness. `FairSpec` adds weak fairness of `Answer` for every slot: the default
runner aborts its HTTP call after 60 seconds and turns every outcome into a result
(`qwen-runner.ts` 46-121). The optional Cursor runner has no timeout: `RequestsReturn` is
not claimed for it. No fairness is assumed of users. A crash between `markDone` and the answer
loses the follow-up as well; `lost_followup` does without crashes, so that the answer alone is to blame.

## 4. `Orchestrate`

Four groups of variables. The files: `plan`, `disk` (state.json), `handoff` and
`failure` (handoffs/\<task\>.md and \<task\>-failure.md, reduced to the run they tell
of). The processes: `mem`, the state the loop and a command each hold in memory,
`ctl`, where each is, `wait`, one `waitAndHandoff` per task, `planned`, the plan
the loop started with, `exit`. The world: `cloud`, every agent ever created for a
task with the phase of its run, `cord`, the andon reaction. `heard` is history, and
so is `lost` of an agent: that a call on it failed or a process died with it.

A step is what a process does between two awaits. Inside the loop, other parts
never run while one is synchronous (`Synchronous`). The two writes of a handoff, the file and
the row, are two steps, since a crash between them is what the order of the code is
for.

| Action | Code |
|---|---|
| `Boot`, `Recover...`, `Recovered` | `run`, `load` with its reconciliation, `recoverRunning` |
| `PollReturns`, `PollFails` | `drainEvents`: the cord, once per sweep |
| `Scan`, `ScanEnds` | `spawnReadyPending` and `spawnTask` up to `Agent.create` |
| `CreateReturns`, `CreateFails`, `SendReturns`, `SendFails`, `BackoffEnds` | `spawnTask` from await to await, for the loop and for the spawn command |
| `WaitReturns`, `WaitReturnsError`, `WaitThrows`, `Probe...`, `CommitHandoff`, `FinishWait` | `waitAndHandoff` with its watchdog and probe |
| `Decide`, `Checkpoint`, `Wake`, `Settle` | the end of a sweep: `exitOnErrorReturn`, `canMakeProgress`, `plannedCheckpointRestart`, `flagUnreachablePending` |
| `SpawnCommand`, `RespawnCommand`, `CancelCommand`, `KillCommand`, `StopTask`, `Cancel...` | `cli/task.ts` with `respawnTask`, `cancel`, `stopTask` |
| `LoopDies`, `CommandDies` | a process ends anywhere; files and cloud stay |
| `RunStarts`, `RunEnds` | the cloud service, from how the code uses it |
| `EditPlan`, `PullCord`, `ReleaseCord` | the planner and the operator |

Every save writes the whole memory of its process (`Save`), also the saves that only log
(`LogAttention`): this is what makes two processes overwrite each other.

| Run | Instance | Shows |
|---|---|---|
| `orchestrate` | a subplanner and its verifier, two plans (with and without the verifier), two agents for the one and one for the other, two tries of a spawn, six commands, three events | `HandedOffHasFile`, `RunningIsWatched`, `NewErrorsExplained`, `StuckForAReason`, `DecisionsStand`, `VerifierOnDeliveredBranch`, `LoopEnds` |
| `beside` | a subplanner, one plan, two agents, one try of a spawn, four commands that may overlap the loop, four events | `AgentsKeepNames`, `DecisionsStand`, `HeardCordHolds` |

Bounds. `MaxEvents` counts starts of the loop, commands, edits and pulls: three allow
a loop, a command or an edit on what it left, and a second loop, or a pull that
two loops meet; four allow two commands between or beside two loops. Crashes, dropped streams, failed calls and polls are not bounded.
`MaxAgents` bounds the cloud: two agents for a task are a respawn or a second try.
`Shared` says under which plans a command may overlap the loop: under none in `orchestrate`, to keep two tasks
and liveness within reach, always in `beside`. The code has no lock on `state.json`, and no theorem assumes one.

Commands beside the loop. `saveState` writes the whole memory of its process, so a process
may put its copy over a row that another changed since. `Overwrites(p, t)` is such a write: a step
of `p` alone while its copy of row `t` has another status or run than the file (`Behind`).
`DecisionsStand` and `AgentsKeepNames` say that this is the *only* way to take a verdict back
(a killed task is pending again, a cancelled one ends as an error) or to leave a living agent without its name;
with `kill` of a pending task beside the loop it does happen. An agent has its name when its row holds it, or
while a process sends it its prompt (`Sent`). It does not count once it is `lost`: a call on it failed,
or the process that was starting it died between `agent.send` and the recording of its
ids, after which nothing in the code can name it again. `HeardCordHolds` begins with the poll that sees the cord (`heard`);
of the rest of a sweep in which it is pulled nothing is claimed, as the code polls once per sweep. It ends
when the cord is released or a command puts an older state over what the poll noted (`StillHeard`). That overwrite takes a
pull, a loop, a command that loaded before its poll, a second loop and, with one task, a respawn that leaves it something to
spawn, which is beyond the four events of `beside`: it is the theorem that covers it (section 10). `VerifierOnDeliveredBranch` speaks of the loop's own rows, since the loop alone spawns verifiers.

Fairness. Weakly fair are the steps of the reconciling loop, those of a spawn it
has in hand, and the end of a wait whose run has ended, as a process that is up
goes on: its calls return or fail (the client has timeouts) and a sleep ends. The
runtime limit comes: `Checkpoint` is strongly fair, since it can only be taken at
the end of a sweep. Nothing is assumed of cloud runs, which may never end, nor of operators:
`LoopEnds` therefore rests on the checkpoint, as the code does.

What the model shows of the code besides. A task that pushed another branch than
planned can never be respawned (`BranchRefused`), and building its verifier's
prompt fails on the same check, so its verifier always ends in error
(`RefRefused`, `PromptRefused`). A spawn that fails and a cancel that fails leave no failure
file, which `NewErrorsExplained` therefore only claims for rows with a run. `cancel` works
on a row of any status that names a run and sets `cancelled`.

Left out: the verdict `waitAndHandoff` reads from a verifier's body (only that it may
save), a child planner's cached cord (`andon.ts` 111-154), branches of merge workers,
starting refs given in the plan, `kill --no-cascade`, `spawn --wait`, mirrors to
git and Slack, and the commands that only read. Ad-hoc tasks are in the module, not
in the instance. Code between two awaits is one step across processes too: two
operating-system processes could also interleave between the read and the write
of one `load`.

## 5. `CommentQueue`

`queue` is the file, reduced to the tries of each entry; an entry's id is its place in
`asked`, so the order of ids is the order of the file. `drain[p]` is what a process
knows while it posts: its view of the file, the entries it still has to try, and for a
command the entry of its own comment. `landed` is what Slack shows, and may hold more than the
processes know: a post may get through and yet fail or be cut by a crash. `answered`,
`told` and `raced` are history.

| Action | Code |
|---|---|
| `Comment` | `postOrQueueComment` of a required comment: `enqueueComment`, then a drain of one try |
| `Sweep` | `drainCommentRetryQueue` of the loop up to its first post |
| `PostReturns`, `PostFails` | the rest of the drain up to the next post, with the write of the file and the answer to the command |
| `Elapses` | a backoff is over |
| `Dies` | a process ends during a post |

| Run | Instance | Shows |
|---|---|---|
| `comments` | two comments, the loop and one command, two tries each, one crash | `NothingForgotten`, `AnsweredIsDone`, `EveryCommentSettles` |

Two comments are one that stands before another; two tries are one failure and
exhaustion; any number of commands may follow one another. A drain writes back its own view: when another process wrote
meanwhile, that is lost. `raced` marks this, and the properties claim nothing
after it: it is the one way for a comment to be lost, and a command to be told
"posted" of a comment that never landed (the comment at `comment-retry-queue.ts`
79-82 takes absence from the file for a delivery). Fairness: the loop sweeps while it is up and
a post of the loop is answered or fails (`loop.ts` 123-137, the client's retries are
bounded), and backoffs end. None is assumed of commands.

Left out: `best_effort` posts, of which nothing is kept; the check of the
destination, which fails as a post fails; file uploads.

## 6. `LeadStore`

`exists`, `leads`, `filed`, `vec` are the database file, its table of leads with
their companies, those lead-intake is done with, and the companies in `vec_leads`.
`pc` and `job` are the one process on it. Everything is synchronous, so nothing
interleaves; one step is one SQL statement, and `Crash` may come between any two.

| Action | Code |
|---|---|
| `Start`, `Reseed`, `Remove`, `Migrate`, `Seed`, `SeedEnds` | `openRuntimeDb`, the seed command, `bootstrapFileDb`, `migrate`, `seed` |
| `Drop`, `Create`, `Fill`, `FillThrows`, `Filled` | `rebuildLeadVec` |
| `Import`, `Insert`, `Skip`, `Imported` | `importLeadsFromCsv`, `csvLeadId` |
| `Rename` | an answer of lead-intake that names the company |
| `SearchSimilar` | a search, which rebuilds the vectors first |

| Run | Instance | Shows |
|---|---|---|
| `store` | two seeded companies and two others with one slug, two files (a row twice, a known company, an incomplete row), four requests, two crashes | `RestartRecovers`, `ServesWhole`, `ImportExact` |

Two crashes are one in a boot or an import and one in the restart after it;
four requests are an import, its repetition, a rename and a search.
Fairness: whoever runs the server starts it again when it is down, and a statement
returns; without the first the property would say nothing about what a start finds. `RestartRecovers` has one way out, two leads of one company: `company` is
the primary key of `vec_leads` and not unique in `leads`, and a lead may be renamed to the name of another,
after which no start succeeds. `ServesWhole` has one way out too: a crash in the
middle of seeding leaves a file the next start takes for a whole one. Both are in the statements of the properties,
and the hazards in `PROJECT.json` name the lines.

Left out: the other tables, the quoting rules of CSV, the distances of the vectors, and the
seed command run under a live server.

## 7. `SliceWrites`

One lead, one request after the other. `at` is the statement the process is at and `job`
what it carries: the handoff to come, the tokens of the call, the statement after the
ledger row, the target of a decision. A request or an answer only decides where to go
(`Ingest`, `Answer`, `Decide`, ...); each write is an action of its own:

| Action | Code |
|---|---|
| `RunRow`, `TokenRow` | the two inserts of `persistRun` |
| `AuditRow`, `HandoffRow` | `audit`, `insertHandoff` |
| `LeadFields`, `StageField`, `DraftRow` | the branches of `applyJson` |
| `ObjectRow`, `ConvertLead` | the inserts and the update of `applyConvert` |
| `MarkDone`, `Followup`, `SendDrafts`, `Reject`, `ClearQueue` | the writes of the decisions and aborts |
| `Throws` | a row is there already: `accounts.lead_id` and `opportunities.lead_id` are unique |
| `Crash` | the process dies before any of them, or while an answer is awaited |

| Run | Instance | Shows |
|---|---|---|
| `statements` | 5 runs, 2 crashes | `LedgerLossBounded`, `EffectiveIsWritten`, `ResumesOnce` |
| `ledger_after_crash` | the same, 1 crash | `LedgerExact` fails: a crash between run row and ledger row is never made good |

Five runs are the life of a lead (three agents, followup, a closing or a failure); two crashes are one in the middle of a
decision and one in its repetition. Roles and incomplete drafts are
left to `Scheduler`, banners (`last_activity`) too; a call costs one unit or
none, so prices and sums of amounts are out. Deadlock is checked.

## 8. `ClickDemo`

The reducer of `mock/machine.ts` over the timelines and objects of all leads, and the
effect of `App.tsx` 58-70 that arms one timer for each lead that waits. React's
order is part of the model: a click is reduced and rendered, and its effects have run, before anything else
(`Rearm` in every click); the update of a timer is rendered later (`Render`), so other
timers may fire and clicks may come between. All timers are armed together with one
delay, so they run out together (`Elapse`) and fire one by one (`Fire`).

| Run | Instance | Shows |
|---|---|---|
| `click_demo` | the company that is seeded unconverted and one that has an opportunity, 4 handoffs, all roles | `OneStepAtATime`, `EveryWaitTimed`, `ObjectsMatchDecisions`, `ArrivalComes` |

The mock data has one unconverted company, so two leads are each kind once; four handoffs
are a full slice up to the follow-up, or three with a closing of the other lead in between.
Fairness: time passes, a timer that has run out fires, React renders an update. `ArrivalComes`
needs the key of the effect: if every render armed the timers anew, a user who
clicks often enough would starve an arrival. Deadlock is checked.

## 9. `Console`

`Console` is one tab. `flights` are its async functions under way, each in a slot, with the
lead of the render they were made in; a step lies between two awaits. An effect refreshes
the page when the open lead or the role has changed, and is told to stop when they change again;
`run` takes the lock, sends a request, refreshes and gives the lock back; the CSV import reads
its file first and calls `run` then. `filed` counts the changes of a lead's rows on the server,
so a card is a lead and a count. Page and role can be changed at any time and are therefore
not variables: every button is at hand.

| Action | Code |
|---|---|
| `OpenLead`, `SetRole` | `openLead`, `setRolePersist` and the effect they cause |
| `Act`, `Ask`, `Yes`, `Cancel`, `HandleImportFile` | the buttons, the dialog, the file input |
| `TextRead`, `HealthReturns`, `RequestReturns`, `CardRead`, `CardArrives`, `Fails` | from await to await in `run`, the effect and `refreshAll` |
| `Write`, `LateEnds` | the server, also for a request that the proxy has given up |

| Run | Instance | Shows |
|---|---|---|
| `console` | two companies, two functions under way, one change each | `OneRunAtATime`, `CardSettles`, `LockEnds` |

Two functions are a run and the effect of another lead, or two of either, which is what
crossing takes. `CardSettles` holds of a fetch that had begun alone (`crossed`). Without that
condition it fails: the card of the lead left before replaces that of the one that is open, whose
timeline, filtered by lead, then reads as if it had no handoffs. `OneRunAtATime` has one way out,
`raced`: the import looks at the lock, reads its file and then takes the lock
whoever holds it (`App.tsx` 519-526). This also breaks `ConsoleLock`, so what `serial`
promises holds as long as no file is imported beside another request.
Fairness of `Awaited`: a request is answered, fails or is given up by the proxy after
300 seconds (`deploy/nginx.conf`), and a file is read. Nothing is assumed of the user.
Deadlock is checked. Left out: the list page with its filters, the search box, the pending and usage pages (they show what the
same refresh brought), notices, and a lost reply of an import that lands later.

Every property of every run is paired with a mutant of the code that TLC must refute
(`PROJECT.json`, "mutants"; the mutated operators stand next to the originals).
Type invariants are proved for every instance (section 10) and therefore in no run.
Deadlock is not checked in `orchestrate`, `comments` and `store`: those systems stop when the loop has ended, the queue is settled or the bounds are
used up.

## 10. Proofs

`SchedulerProofs` proves, for any set of leads, slots, roles, stages and answers,
any bound, with and without console lock and crashes:

| Theorem | Property |
|---|---|
| `TypeCorrect` | `TypeOK` |
| `HistoryIsKept` | `HistoryKept` |
| `ObjectsMatch` | `ObjectsMatchStatus` |
| `HumanConverts` | `ConversionByHuman` |
| `ManagerCloses` | `CloseByManager` |
| `HumanSends` | `SendByHuman` |
| `EffectsAreDecided` | `EffectsByHuman`, the three above together |
| `OneRunEach` | `RunOfHandoff` |
| `AgentsInOrder` | `AgentOrder` |
| `FailuresStop` | `FailureStops` |
| `OneWaits` | `OnePending`, under `ConsoleLock` |
| `StepsOnce` | `EffectiveOnce`, under `ConsoleLock` |
| `OwnDraftSent` | `SendsOwnDraft`, under `ConsoleLock` |
| `BannersTrue` | `BannerTrue`, under `ConsoleLock` |
| `RunsShow` | `RunsVisible` |
| `NoHalfConversion` | `NothingBeforeConversion` |
| `ProposalsStayOpen` | `ProposalStaysOpen` |
| `Implements` (in `LifecycleProofs`) | `Lifecycle` |

Assumptions: those named in `Scheduler`: the answers, roles and stages in use are
among those the code knows, the bound is a natural number, the switches are
Booleans, `NoOpp` is no stage.

Argument. `TypeOK` is inductive by itself, given that the row of a win or loss
handoff carries a closing stage: without that conjunct of `HandoffRow`, confirming
one could not be shown to write a stage. Action properties follow from `TypeOK`
and a case analysis over `Next`, in which most actions append to `handoffs` or
leave them alone; a lemma each says that appending keeps rows, and that a decision changes one
row from pending. `ObjectsMatchStatus` is inductive over `TypeOK`: only `ApplyConvert` touches
the status or creates an opportunity, and does both or nothing. `AgentOrder` needs
`HistoryKept` step-wise (an effective handoff stays effective), and that the continuation
operators `FromIntake` and `FromPipeline` name an agent whose predecessors are
effective at that point. `RunOfHandoff` is inductive over `TypeOK`: the run
recorded in the step of a new handoff has the next run id, which no earlier handoff
can carry because each one's run is in `DOMAIN runs`.

`FailureStops`, the three properties of what answers leave, and the four under `ConsoleLock` rest on one
classification of what an answer can do (`Brings`): record a failure, a question for a person, a draft, or an effective result that hands
the request on. `FailureStops` follows from it for every spec the module admits. With it, a
step leaves the timeline's decisions alone (`Keeps`), grants one
(`GrantsEffect`), adds a row for a call in flight (`Brings`) or asks to close (`AsksToClose`): `NextTimeline`. The
properties behind the console's busy flag share the inductive `LockInv`. Its heart
is `Undisturbed`: at most one request is out, nothing of its lead waits for a person, and what it
asks the agent for is not there yet. None of the four is inductive alone: that a
draft is sent once needs that a draft comes only after pipeline (`Progress`), which needs that
pipeline's conversion is decided only on a new lead, which needs that no second decision
waits (`OneAtATime`). `ConsoleLock` is what the console does, not the server (section 3);
the run `concurrent` does without it.

`RunsShow`, `NoHalfConversion` and `ProposalsStayOpen` hold for every answer and without the lock. An answer brings a
handoff for the run it records, or throws, which only orchestrator's and followup's can
(`AnswerBrings`, `BringsNothing`). A kind of handoff belongs to its agent (`KindsByAgent`) and an effective
conversion is of a converted lead (`ConversionsDone`), so what pipeline has effective on an unconverted lead is
neither a send nor a conversion. An account comes with its lead's conversion or from `ConfirmConvertThrows`, whose
proposal has no title; it stays on the timeline, and by `ConversionsDone` never becomes effective while the lead is
unconverted.

`Implements` maps `opps` to the stage, the handoffs without agent and run to the
timeline, and the activities without text and handoff to the drafts
(`Timeline`, `Drafts`). The initial states agree. An answer that fails or needs no
decision is a `Report`, one that needs a decision an `Ask`, a stage change by a
person a `Move`; the confirmations are `Grant`, a rejection `Refuse`, the two aborts
`Abandon`; starting a request, an answer that throws, a crash and a conversion
stopped by a constraint leave the lead alone. The step that needs more than `TypeOK`
is the confirmed conversion: that it leaves the opportunity of a converted lead alone,
and opens one otherwise, follows from `ObjectsMatchStatus`.

`OrchestrateProofs` proves, for any tasks, kinds, plans, branches, commands and bounds:

| Theorem | Property |
|---|---|
| `TypeCorrect` | `TypeOK` |
| `EveryRunWatched` | `RunningIsWatched` |
| `HeardCordStands` | `HeardCordHolds` |
| `HandoffsAreFiled` | `HandedOffHasFile` |
| `ErrorsExplained` | `NewErrorsExplained` |
| `AgentsStayNamed` | `AgentsKeepNames` |
| `VerdictsStand` | `DecisionsStand` |
| `VerifiersCloneDelivered` | `VerifierOnDeliveredBranch` |
| `StuckHasReason` | `StuckForAReason` |

All for every `Shared`: no theorem assumes that the loop and the commands keep apart.

`Typed` is `TypeOK` with what the steps rely on: the task and the agent a process has in
hand exist when it is at a call, a waiter's run exists, a row's run is one
of the agents of its task, and the rows to recover are among the rows. `WatchingNow` adds, for each
task, that a running row is watched, yet to be recovered or in hand, and never two of
them; that a row whose prompt is out is running; and that a loop that is down waits for nothing. It is
about the loop's memory alone, so a command beside the loop, which changes only
the file, cannot break it. `CordInv` adds that once a poll has seen the cord up (`heard`)
the file says so, a loop that is up holds it, and the loop is nowhere near a spawn. The lemma
`KeepsCord` says that a process which never changes its own idea of the cord keeps
`CordInv`, since a command that writes an older one ends `heard`; all steps but the poll, the start of a loop and a
command come under it.

`Filed` adds `FileInv`: what each process holds of a handed-off row agrees with the
handoff file (`RecInv`). A command that overlaps the loop may write back an older row, so that
row and file could part if the older row were handed off. `OrderInv` rules it out: the file
knows no handoff that the loop does not know, and a command none that the file
does not know, so whoever replaces a handoff file knows of no row that refers to
it. `WaitInv` and `ErrorInv` do the same for the waiters and for the failure files.

Where a process may write an old row over a newer one, nothing can be said of the file alone. `AgentInv`
therefore speaks of every copy of the rows, the file and the memory of each process that is up, however old: a run that a copy names
was started, and works no more once that copy has its row settled (`OverInv`). A run that has ended never comes back, so an old copy
stays true and may be put anywhere (`Settles`, `CopiesFollow`). Hence a respawn, which looks at its own copy, never
clears the name of a living agent from a row it has read; what remains is the write over one it has not, which is
`Overwrites`. `DoneInv` and `CancelInv` carry the same through the two writes of a handoff and the cancel of a command.
`BranchesInv` is made the same way: a copy that has a row handed off names a run which ended on that row's branch or
none (`BranchInv`, `FinishedInv`); a verifier in the loop's hand has its target handed off in the loop's rows (`SweepInv`),
which needs that its row waits for what plan and kind say (`DepsInv`); commands spawn none (`InlineInv`).

`StuckHasReason` rests on what the walks over the dependencies find. `Ancestors` and
`RowAncestors` are everything upstream and nothing else (`AncestorsMeans`, `RowAncestorsMeans`):
a set of names that only grows stands still after as many steps as there are names (`Closes`).
So along the dependencies of a valid plan, which has no cycle, the number of ancestors
falls (`AncestorsShrink`), and by induction on it a task with nothing failed or missing upstream
would be found by `CouldStillSpawn` (`NoProgressHasReason`): the depth it walks to is enough. `ReasonInv`
carries that from the decision to settle to the exit: meanwhile the loop only finishes waits, which changes
neither a status nor a dependency, and a command or an edit of the plan does not reach the loop's memory. The
inductions are over a set of numbers, with the least counterexample (`Inductive`): the library's induction
theorems take an operator, which the provers cannot instantiate.

`CommentProofs` proves, for any comments, commands, tries and crashes:

| Theorem | Property |
|---|---|
| `TypeCorrect` | `TypeOK` |
| `NothingIsForgotten` | `NothingForgotten` |
| `AnsweredStaysDone` | `AnsweredIsDone` |

Type correctness needs `TriesLeft`: an entry that is due has a try left, or the count could pass
the backoff table. The other two are inductive over that. Their lemma `PostStep` says
that a write which goes over no other's removes exactly the entry whose post was
answered, or none; `CommentStep` says that a command adds its comment to the file, and
that a new one has a new id.

`StoreProofs` proves, for any seed, files, renames and bounds:

| Theorem | Property |
|---|---|
| `TypeCorrect` | `TypeOK` |
| `ServedFilesAreWhole` | `ServesWhole` |
| `ImportsAreExact` | `ImportExact` |

One inductive invariant serves all three: `Placed` ties the statement to the job, `Whole` is
`ServesWhole` kept along a boot, and `Recorded` says that an import knows exactly the companies in
the table and has put in every complete row it has passed. That `csvLeadId` finds a free
number, and hence never overwrites a lead, is a lemma of its own: there are more numbers
than leads.

`SliceProofs` proves, for any number of runs and crashes:

| Theorem | Property |
|---|---|
| `TypeCorrect` | `TypeOK` |
| `LedgerLoss` | `LedgerLossBounded` |
| `WrittenFirst` | `EffectiveIsWritten` |
| `RetriesResume` | `ResumesOnce` |

The invariant counts: `Loss` bounds the number of runs without a ledger row by the crashes, plus one
while the process is at the ledger row, and `Owing` says that the run it is about to book
is one of them. The first insert adds one to both sides, the second takes one from both
(`RunRowStep`, `TokenRowStep`), a crash there turns the one owed into one lost, and
no other statement touches either (`LedgerKept`).

`WrittenFirst` and `RetriesResume` share the inductive `Sound`, which says of each place in the code what the request
there has written and is about to write (`ComingInv`, `DoneInv`), who may be asked (`AskedInv`)
and that nothing waits while a row is to come (`QueueInv`). A crash forgets the request and keeps
the rows, so what has to be shown is that rows alone are enough: that is why `TimelineInv`
and `WrittenInv` speak of nothing else. `AuditInv` counts refusals against audit events as `Owing` does runs.

`ClickDemoProofs` proves, for any companies, seed and length of the timelines:

| Theorem | Property |
|---|---|
| `TypeCorrect` | `TypeOK` |
| `TimersMatchQueue` | `EveryWaitTimed` |
| `WaitsOnce` | `OneStepAtATime` |
| `ClosingIsManaged` | `ClosedByManager` |
| `ObjectsAreDecided` | `ObjectsMatchDecisions` |

`EveryWaitTimed` speaks of rendered states only. `Armed` extends it to the states between a
timer and its render: a timer runs exactly for the leads that still wait for the agent
they waited for when the timers were armed. `Moved` says how a lead can have got elsewhere
meanwhile: on to pipeline, or to a decision. `Single` is `OneStepAtATime`, and
`FollowupConverted` keeps a new slice from meeting a follow-up. `Books` keeps objects and timeline in
step: deciding a row moves it from one count to another and a new row enters
one at most (`Counted`, `AppendCounts`, `DecisionCounts`); a conversion counts once because it waits only on a new
lead (`Proposed`), and a second is kept out by `Single`.

`ConsoleProofs` proves, for any leads and any number of functions under way:

| Theorem | Property |
|---|---|
| `TypeCorrect` | `TypeOK` |
| `OneRun` | `OneRunAtATime` |
| `CardIsCurrent` | `CardSettles` |

As long as no import has overtaken the lock, runs are equal, the lock is held exactly when
there is one, and never behind a dialog (`LockOK`); `Kinds` says which functions wait where, so that
an effect that is told to stop gives back no lock and only runs read files. `Alone` says that as long as nothing
has crossed what fetches the card, what is under way is the only flight, for the open lead, and a reply on its way
holds all the lead's changes (`Fetching`).

Only proved, since no run is needed to add to the proof: the type invariants, `RunOfHandoff`,
`ClosedByManager`.

Only model-checked: the liveness properties (`RequestsReturn`, `LoopEnds`,
`EveryCommentSettles`, `RestartRecovers`, `ArrivalComes`, `LockEnds`), which are out of the prover's
reach, as is `ENABLED`, and the three properties of the expected violations. Every safety invariant and action property of a passing run is a theorem.

## 11. Not modelled

Embedding arithmetic and distances (floating point), the JSON extraction from text,
the header, the quoting and the trimming of CSV files, prompt texts, HTML and styles, citations and the evaluation
catalogue (static tables), container configuration.

* Crashes between two statements while several requests are in flight: `Scheduler` has the
  requests, `SliceWrites` the statements; their product is too large for TLC.
* Prices and floating-point sums of the usage page.
* Texts of the console and the prototype beyond the sentences the properties quote.
* The rest of the orchestrate skill listed under "Left out" in sections 4 and 5.
  The skill is a development tool that ships with the repository and the program
  never loads it (`README.md`: the development layer does not enter the runtime path).
