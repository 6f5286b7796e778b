------------------------- MODULE OrchestrateProofs -------------------------
(***************************************************************************)
(* What holds of Orchestrate for every set of tasks, plans and commands    *)
(* and any bounds: the proofs.                                             *)
(***************************************************************************)
EXTENDS Orchestrate, FiniteSetTheorems, NaturalsInduction, WellFoundedInduction, TLAPS

-----------------------------------------------------------------------------
(* The invariant, by variable.                                             *)

\* The runs a state names were created.
KnownIn(s, cl) == s \in State /\ \A t \in Names : s.rows[t].run \in 0 .. Len(cl[t])

\* A process in a spawn or a cancel has a task at hand, and one that sends has
\* an agent to send to.
AtHand(c, cl) ==
    /\ c.pc \in {"create", "send", "backoff", "cancel"} => c.task \in Names
    /\ c.pc = "send" => c.agent \in DOMAIN cl[c.task]

StatesOK == KnownIn(disk, cloud) /\ mem \in [Procs -> State] /\ \A p \in Procs : KnownIn(mem[p], cloud)
CtlOK == ctl \in [Procs -> Control] /\ \A p \in Procs : AtHand(ctl[p], cloud)
WaitOK ==
    /\ wait \in [Names -> Waiter]
    /\ \A t \in Names : wait[t].pc # "none" => wait[t].run \in DOMAIN cloud[t]
CloudOK == cloud \in [Names -> Seq(Agent)]
FilesOK ==
    /\ handoff \in [Names -> [run : Nat, end : Ends \cup {"none"}]]
    /\ failure \in [Names -> Nat]
WorldOK ==
    /\ plan \in Plans /\ planned \in Plans \cup {NoPlan}
    /\ cord \in BOOLEAN /\ heard \in BOOLEAN
    /\ exit \in {"none", "done", "stuck", "error", "checkpoint"}
    /\ spent \in 0 .. MaxEvents

Typed == StatesOK /\ CtlOK /\ WaitOK /\ CloudOK /\ FilesOK /\ WorldOK

(* The parts are the whole. *)
LEMMA TypedTypeOK == Typed => TypeOK
  BY DEF Typed, StatesOK, CtlOK, WaitOK, CloudOK, FilesOK, WorldOK, TypeOK, KnownIn

-----------------------------------------------------------------------------
(* States, rows and plans.                                                 *)

(* The tasks of a plan and their dependencies are names. *)
LEMMA PlanType ==
    ASSUME NEW p \in Plans \cup {NoPlan}
    PROVE  /\ DOMAIN p \subseteq Names
           /\ \A t \in DOMAIN p : NormalizedDependsOn(p, t) \subseteq Names
<1>1. CASE p = NoPlan
  <2>1. DOMAIN p = {}
    BY <1>1 DEF NoPlan
  <2> QED
    BY <2>1
<1>2. CASE p \in Plans
  <2>1. PICK S \in SUBSET Names : p \in [S -> [dependsOn : SUBSET Names, maxAttempts : Nat]]
    BY <1>2, PlansAssumption
  <2>2. DOMAIN p = S /\ \A t \in S : p[t].dependsOn \subseteq Names
    BY <2>1
  <2>3. \A t \in Names : Verifies[t] \in Names
    BY NamesAssumption
  <2> QED
    BY <2>2, <2>3 DEF NormalizedDependsOn
<1> QED
  BY <1>1, <1>2

(* New rows are rows, of no run. *)
LEMMA NewRowType ==
    ASSUME NEW t \in Names, NEW deps \in SUBSET Names, NEW adHoc \in BOOLEAN
    PROVE  /\ InitialTaskState(deps, t, adHoc) \in Row /\ InitialTaskState(deps, t, adHoc).run = 0
           /\ InitialTaskState(deps, t, adHoc).status = "pending"
           /\ NoRow \in Row /\ NoRow.run = 0
  BY DEF InitialTaskState, NoRow, Row, Statuses, Branches

(* Changing one row of a state changes nothing else. *)
LEMMA RowChanged ==
    ASSUME NEW s \in State, NEW t \in Names, NEW row \in Row
    PROVE  /\ [s EXCEPT !.rows[t] = row] \in State
           /\ [s EXCEPT !.rows[t] = row].andon = s.andon
           /\ [s EXCEPT !.rows[t] = row].rows[t] = row
           /\ \A u \in Names \ {t} : [s EXCEPT !.rows[t] = row].rows[u] = s.rows[u]
  BY DEF State

LEMMA RowsChanged ==
    ASSUME NEW s \in State, NEW rows \in [Names -> Row]
    PROVE  /\ [s EXCEPT !.rows = rows] \in State
           /\ [s EXCEPT !.rows = rows].andon = s.andon
           /\ [s EXCEPT !.rows = rows].rows = rows
  BY DEF State

LEMMA EmptyType ==
    Empty \in State /\ (\A t \in Names : Empty.rows[t] = NoRow) /\ Empty.andon = FALSE
<1>1. NoRow \in Row
  BY DEF NoRow, Row, Statuses, Branches
<1> QED
  BY <1>1 DEF Empty, State

(* Reading the plan makes rows of rows, and names no run that was not named. *)
LEMMA ReconcileType ==
    ASSUME NEW rows \in [Names -> Row], NEW p \in Plans \cup {NoPlan}
    PROVE  LET R == ReconcileStateWithPlan(rows, p)
           IN  /\ R \in [Names -> Row]
               /\ \A t \in Names : R[t].run = rows[t].run \/ R[t].run = 0
<1> DEFINE R == ReconcileStateWithPlan(rows, p)
           new(t) == InitialTaskState(NormalizedDependsOn(p, t), t, FALSE)
<1>1. ASSUME NEW t \in Names
      PROVE  R[t] \in Row /\ (R[t].run = rows[t].run \/ R[t].run = 0)
  <2>1. rows[t] \in Row
    OBVIOUS
  <2>2. CASE t \in DOMAIN p
    <3>1. NormalizedDependsOn(p, t) \in SUBSET Names
      BY <2>2, PlanType
    <3>2. new(t) \in Row /\ new(t).run = 0
      BY <3>1, NewRowType
    <3>3. [rows[t] EXCEPT !.dependsOn = NormalizedDependsOn(p, t)] \in Row
          /\ [rows[t] EXCEPT !.dependsOn = NormalizedDependsOn(p, t)].run = rows[t].run
      BY <2>1, <3>1 DEF Row
    <3>4. R[t] = IF rows[t].status = "absent" THEN new(t)
                 ELSE IF rows[t].status = "pending"
                 THEN [rows[t] EXCEPT !.dependsOn = NormalizedDependsOn(p, t)]
                 ELSE rows[t]
      BY <2>2 DEF ReconcileStateWithPlan
    <3> HIDE DEF R, new
    <3> QED
      BY <2>1, <3>2, <3>3, <3>4
  <2>3. CASE t \notin DOMAIN p
    <3>1. [rows[t] EXCEPT !.status = "pruned"] \in Row
          /\ [rows[t] EXCEPT !.status = "pruned"].run = rows[t].run
      BY <2>1 DEF Row, Statuses
    <3>2. R[t] = IF rows[t].status = "pending" /\ ~rows[t].adHoc
                 THEN [rows[t] EXCEPT !.status = "pruned"] ELSE rows[t]
      BY <2>3 DEF ReconcileStateWithPlan
    <3> HIDE DEF R
    <3> QED
      BY <2>1, <3>1, <3>2
  <2> QED
    BY <2>2, <2>3
<1>2. R = [t \in Names |-> R[t]]
  BY DEF ReconcileStateWithPlan
<1> HIDE DEF R
<1>3. R \in [Names -> Row]
  BY <1>1, <1>2
<1> QED
  BY <1>1, <1>3 DEF R

(* Handing a branch on changes nothing but starting refs. *)
LEMMA VerifierRefsType ==
    ASSUME NEW rows \in [Names -> Row], NEW p, NEW targets
    PROVE  LET R == ReconcileVerifierRefs(rows, p, targets)
           IN  /\ R \in [Names -> Row]
               /\ \A t \in Names : R[t].run = rows[t].run /\ R[t].status = rows[t].status
<1> DEFINE R == ReconcileVerifierRefs(rows, p, targets)
<1>1. ASSUME NEW v \in Names
      PROVE  R[v] \in Row /\ R[v].run = rows[v].run /\ R[v].status = rows[v].status
  <2>1. rows[v] \in Row
    OBVIOUS
  <2>2. /\ [rows[v] EXCEPT !.startingRef = "other"] \in Row
        /\ [rows[v] EXCEPT !.startingRef = "other"].run = rows[v].run
        /\ [rows[v] EXCEPT !.startingRef = "other"].status = rows[v].status
    BY <2>1 DEF Row, Branches
  <2>3. R[v] = [rows[v] EXCEPT !.startingRef = "other"] \/ R[v] = rows[v]
    BY DEF ReconcileVerifierRefs
  <2> HIDE DEF R
  <2> QED
    BY <2>1, <2>2, <2>3
<1>2. R = [t \in Names |-> R[t]]
  BY DEF ReconcileVerifierRefs
<1> HIDE DEF R
<1>3. R \in [Names -> Row]
  BY <1>1, <1>2
<1> QED
  BY <1>1, <1>3 DEF R

(* What load makes of the file. *)
LEMMA LoadedType ==
    ASSUME NEW s, NEW cl, CloudOK, KnownIn(s, cloud), NEW p \in Plans \cup {NoPlan}
    PROVE  KnownIn(Loaded(s, p), cloud) /\ Loaded(s, p).andon = s.andon
<1> DEFINE A == ReconcileStateWithPlan(s.rows, p)
           B == ReconcileVerifierRefs(A, p, With(A, "handed-off"))
<1>1. s \in State /\ s.rows \in [Names -> Row]
  BY DEF KnownIn, State
<1>2. A \in [Names -> Row] /\ \A t \in Names : A[t].run = s.rows[t].run \/ A[t].run = 0
  BY <1>1, ReconcileType
<1> HIDE DEF A
<1>3. B \in [Names -> Row] /\ \A t \in Names : B[t].run = A[t].run
  BY <1>2, VerifierRefsType
<1>4. Loaded(s, p) = [s EXCEPT !.rows = B]
  BY DEF Loaded, A
<1> HIDE DEF B
<1>5. [s EXCEPT !.rows = B] \in State /\ [s EXCEPT !.rows = B].andon = s.andon
      /\ [s EXCEPT !.rows = B].rows = B
  BY <1>1, <1>3, RowsChanged
<1>6. \A t \in Names : Len(cloud[t]) \in Nat
  BY DEF CloudOK
<1>7. \A t \in Names : B[t].run \in 0 .. Len(cloud[t])
  BY <1>2, <1>3, <1>6 DEF KnownIn
<1> QED
  BY <1>4, <1>5, <1>7 DEF KnownIn

-----------------------------------------------------------------------------
(* The parts of a step.                                                    *)

\* Agents are added and changed, and none is forgotten.
Grows == CloudOK' /\ \A t \in Names : Len(cloud[t]) <= Len(cloud'[t])

LEMMA SameCloud ==
    ASSUME CloudOK, UNCHANGED cloud
    PROVE  Grows
<1>1. \A t \in Names : Len(cloud[t]) \in Nat
  BY DEF CloudOK
<1> QED
  BY <1>1 DEF Grows, CloudOK

LEMMA Replaced ==
    ASSUME CloudOK, NEW t \in Names, NEW n, NEW agent, Replace(t, n, agent),
           n \in DOMAIN cloud[t] => agent \in Agent
    PROVE  /\ Grows
           /\ \A u \in Names : Len(cloud'[u]) = Len(cloud[u])
           /\ n \in DOMAIN cloud[t] => cloud'[t][n] = agent
           /\ \A u \in Names : \A m \in DOMAIN cloud[u] :
                ~(u = t /\ m = n) => cloud'[u][m] = cloud[u][m]
<1>1. cloud[t] \in Seq(Agent)
  BY DEF CloudOK
<1>2. cloud' = [cloud EXCEPT ![t] = [cloud[t] EXCEPT ![n] = agent]]
  BY DEF Replace, CloudOK
<1> DEFINE s == [cloud[t] EXCEPT ![n] = agent]
<1>3. s \in Seq(Agent) /\ Len(s) = Len(cloud[t]) /\ Len(s) \in Nat
  <2>1. DOMAIN cloud[t] = 1 .. Len(cloud[t]) /\ Len(cloud[t]) \in Nat
        /\ \A i \in 1 .. Len(cloud[t]) : cloud[t][i] \in Agent
    BY <1>1
  <2>2. s \in [1 .. Len(cloud[t]) -> Agent]
    BY <2>1
  <2> QED
    BY <2>1, <2>2
<1>4. \A u \in Names : cloud'[u] = IF u = t THEN s ELSE cloud[u]
  BY <1>2 DEF CloudOK
<1>5. CloudOK'
  BY <1>2, <1>3 DEF CloudOK
<1>6. \A u \in Names : Len(cloud'[u]) = Len(cloud[u]) /\ Len(cloud[u]) \in Nat
  BY <1>3, <1>4 DEF CloudOK
<1>7. Grows
  BY <1>5, <1>6 DEF Grows
<1>8. \A m \in DOMAIN cloud[t] : s[m] = IF m = n THEN agent ELSE cloud[t][m]
  BY <1>1
<1> QED
  BY <1>4, <1>6, <1>7, <1>8

(* What was known stays known. *)
LEMMA StillKnown ==
    ASSUME CloudOK, Grows
    PROVE  /\ \A s : KnownIn(s, cloud) => KnownIn(s, cloud')
           /\ \A c : AtHand(c, cloud) => AtHand(c, cloud')
           /\ \A t \in Names : DOMAIN cloud[t] \subseteq DOMAIN cloud'[t]
<1>1. \A t \in Names : /\ Len(cloud[t]) \in Nat /\ Len(cloud'[t]) \in Nat
                       /\ Len(cloud[t]) <= Len(cloud'[t])
                       /\ DOMAIN cloud[t] = 1 .. Len(cloud[t])
                       /\ DOMAIN cloud'[t] = 1 .. Len(cloud'[t])
  BY DEF CloudOK, Grows
<1>2. \A t \in Names : /\ 0 .. Len(cloud[t]) \subseteq 0 .. Len(cloud'[t])
                       /\ DOMAIN cloud[t] \subseteq DOMAIN cloud'[t]
  BY <1>1
<1>3. ASSUME NEW s, KnownIn(s, cloud) PROVE KnownIn(s, cloud')
  BY <1>2, <1>3 DEF KnownIn
<1>4. ASSUME NEW c, AtHand(c, cloud) PROVE AtHand(c, cloud')
  BY <1>2, <1>4 DEF AtHand
<1> QED
  BY <1>2, <1>3, <1>4

(* What the processes and the file hold. *)
LEMMA StatesKept ==
    ASSUME StatesOK, CloudOK, Grows, UNCHANGED <<disk, mem>>
    PROVE  StatesOK'
  BY StillKnown DEF StatesOK

LEMMA StatesSet ==
    ASSUME StatesOK, CloudOK, Grows, NEW p \in Procs, NEW s, KnownIn(s, cloud'),
           mem' = [mem EXCEPT ![p] = s],
           disk' = disk \/ KnownIn(disk', cloud')
    PROVE  StatesOK'
<1>1. s \in State
  BY DEF KnownIn
<1>2. mem' \in [Procs -> State] /\ \A q \in Procs : mem'[q] = IF q = p THEN s ELSE mem[q]
  BY <1>1 DEF StatesOK
<1>3. \A q \in Procs : KnownIn(mem[q], cloud')
  BY StillKnown DEF StatesOK
<1>4. KnownIn(disk', cloud')
  BY StillKnown DEF StatesOK
<1> QED
  BY <1>2, <1>3, <1>4 DEF StatesOK

LEMMA FileSet ==
    ASSUME StatesOK, CloudOK, Grows, KnownIn(disk', cloud'), UNCHANGED mem
    PROVE  StatesOK'
  BY StillKnown DEF StatesOK

LEMMA EmptyKnown ==
    ASSUME CloudOK
    PROVE  KnownIn(Empty, cloud)
<1>1. \A t \in Names : Len(cloud[t]) \in Nat
  BY DEF CloudOK
<1>2. NoRow.run = 0
  BY DEF NoRow
<1> QED
  BY <1>1, <1>2, EmptyType DEF KnownIn

LEMMA RowKnown ==
    ASSUME NEW cl, NEW s, KnownIn(s, cl), NEW t \in Names, NEW row \in Row,
           row.run \in 0 .. Len(cl[t])
    PROVE  KnownIn([s EXCEPT !.rows[t] = row], cl)
<1>1. s \in State
  BY DEF KnownIn
<1> DEFINE n == [s EXCEPT !.rows[t] = row]
<1>2. n \in State /\ n.rows[t] = row /\ \A u \in Names \ {t} : n.rows[u] = s.rows[u]
  BY <1>1, RowChanged
<1> HIDE DEF n
<1>3. KnownIn(n, cl)
  BY <1>2 DEF KnownIn
<1> QED
  BY <1>3 DEF n

LEMMA RowsKnown ==
    ASSUME NEW cl, NEW s, KnownIn(s, cl), NEW rows \in [Names -> Row],
           \A t \in Names : rows[t].run \in 0 .. Len(cl[t])
    PROVE  KnownIn([s EXCEPT !.rows = rows], cl)
<1>1. s \in State
  BY DEF KnownIn
<1> DEFINE n == [s EXCEPT !.rows = rows]
<1>2. n \in State /\ n.rows = rows
  BY <1>1, RowsChanged
<1> HIDE DEF n
<1>3. KnownIn(n, cl)
  BY <1>2 DEF KnownIn
<1> QED
  BY <1>3 DEF n

(* Where the processes are. *)
LEMMA CtlKept ==
    ASSUME CtlOK, CloudOK, Grows, UNCHANGED ctl
    PROVE  CtlOK'
  BY StillKnown DEF CtlOK

LEMMA CtlSet ==
    ASSUME CtlOK, CloudOK, Grows, NEW p \in Procs, NEW c \in Control, AtHand(c, cloud'),
           Goto(p, c)
    PROVE  CtlOK'
<1>1. ctl' \in [Procs -> Control] /\ \A q \in Procs : ctl'[q] = IF q = p THEN c ELSE ctl[q]
  BY DEF CtlOK, Goto
<1>2. \A q \in Procs : AtHand(ctl[q], cloud')
  BY StillKnown DEF CtlOK
<1> QED
  BY <1>1, <1>2 DEF CtlOK

LEMMA IdleType == Idle \in Control /\ \A cl : AtHand(Idle, cl)
<1>1. Idle \in Control
  BY DEF Idle, Control
<1>2. Idle.pc = "off"
  BY DEF Idle
<1> QED
  BY <1>1, <1>2 DEF AtHand

(* What is waited for. *)
LEMMA WaitKept ==
    ASSUME WaitOK, CloudOK, Grows, UNCHANGED wait
    PROVE  WaitOK'
  BY StillKnown DEF WaitOK

LEMMA WaitSet ==
    ASSUME WaitOK, CloudOK, Grows, NEW t \in Names, NEW w \in Waiter,
           w.pc # "none" => w.run \in DOMAIN cloud'[t],
           wait' = [wait EXCEPT ![t] = w]
    PROVE  WaitOK'
<1>1. wait' \in [Names -> Waiter] /\ \A u \in Names : wait'[u] = IF u = t THEN w ELSE wait[u]
  BY DEF WaitOK
<1> QED
  BY <1>1, StillKnown DEF WaitOK

LEMMA WaitNone ==
    ASSUME wait' = [t \in Names |-> NoWaiter]
    PROVE  WaitOK'
<1>1. NoWaiter \in Waiter /\ NoWaiter.pc = "none"
  BY DEF NoWaiter, Waiter, Branches
<1> QED
  BY <1>1 DEF WaitOK

(* The files and the rest. *)
LEMMA FilesKept ==
    ASSUME FilesOK, UNCHANGED <<handoff, failure>>
    PROVE  FilesOK'
  BY DEF FilesOK

LEMMA WorldKept ==
    ASSUME WorldOK, UNCHANGED <<plan, planned, cord, exit, spent>>,
           heard' = heard \/ \E p \in Procs : StillHeard(p)
    PROVE  WorldOK'
<1>1. heard' \in BOOLEAN
  BY DEF StillHeard, WorldOK
<1> QED
  BY <1>1 DEF WorldOK

-----------------------------------------------------------------------------
(* Spawning.                                                               *)

LEMMA RowAt ==
    ASSUME Typed, NEW p \in Procs, NEW t \in Names
    PROVE  /\ mem[p].rows[t] \in Row
           /\ mem[p].rows[t].run \in 0 .. Len(cloud[t])
           /\ Len(cloud[t]) \in Nat /\ DOMAIN cloud[t] = 1 .. Len(cloud[t])
           /\ cloud[t] \in Seq(Agent)
           /\ KnownIn(mem[p], cloud) /\ mem[p] \in State
           /\ ctl[p] \in Control /\ AtHand(ctl[p], cloud)
           /\ wait[t] \in Waiter
           /\ wait[t].pc # "none" => wait[t].run \in DOMAIN cloud[t]
<1>1. mem[p] \in State /\ KnownIn(mem[p], cloud)
  BY DEF Typed, StatesOK
<1>2. mem[p].rows[t] \in Row /\ mem[p].rows[t].run \in 0 .. Len(cloud[t])
  BY <1>1 DEF KnownIn, State
<1>3. cloud[t] \in Seq(Agent)
  BY DEF Typed, CloudOK
<1> QED
  BY <1>1, <1>2, <1>3 DEF Typed, CtlOK, WaitOK

(* A command that ends, and a process that saves one row. *)
LEMMA CommandEnds ==
    ASSUME Typed, Grows, disk' = disk \/ KnownIn(disk', cloud'), EndCommand
    PROVE  StatesOK' /\ CtlOK'
<1>1. KnownIn(Empty, cloud)
  BY EmptyKnown DEF Typed
<1>2. KnownIn(Empty, cloud')
  BY <1>1, StillKnown DEF Typed
<1>3. "command" \in Procs
  BY DEF Procs
<1>4. StatesOK'
  BY <1>2, <1>3, StatesSet DEF EndCommand, Typed
<1>5. CtlOK'
  BY <1>3, IdleType, CtlSet DEF EndCommand, Goto, Typed
<1> QED
  BY <1>4, <1>5

LEMMA SaveType ==
    ASSUME Typed, Grows, NEW p \in Procs, NEW s, KnownIn(s, cloud'), Save(p, s)
    PROVE  StatesOK'
<1>1. disk' = s /\ mem' = [mem EXCEPT ![p] = s]
  BY DEF Save
<1>2. KnownIn(disk', cloud')
  BY <1>1
<1> QED
  BY <1>1, <1>2, StatesSet DEF Typed

LEMMA TouchType ==
    ASSUME Typed, Grows, NEW p \in Procs, NEW t \in Names, NEW row \in Row,
           row.run \in 0 .. Len(cloud'[t]), Touch(p, t, row)
    PROVE  StatesOK'
<1>1. KnownIn(mem[p], cloud')
  BY StillKnown DEF Typed, StatesOK
<1>2. KnownIn([mem[p] EXCEPT !.rows[t] = row], cloud')
  BY <1>1, RowKnown
<1> QED
  BY <1>2, SaveType DEF Touch

LEMMA SpawnControl ==
    ASSUME NEW c \in Control, NEW t \in Names
    PROVE  /\ \A todo \in SUBSET Names : \A k \in Nat :
                /\ [c EXCEPT !.todo = todo] \in Control
                /\ [[c EXCEPT !.todo = todo] EXCEPT !.pc = "create", !.task = t, !.try = k] \in Control
           /\ \A k \in Nat : [c EXCEPT !.pc = "create", !.task = t, !.try = k] \in Control
           /\ [c EXCEPT !.pc = "scan", !.task = NoTask, !.try = 0, !.agent = 0] \in Control
           /\ [c EXCEPT !.pc = "backoff", !.agent = 0] \in Control
           /\ \A n \in Nat : [c EXCEPT !.pc = "send", !.agent = n] \in Control
  BY DEF Control

LEMMA AttemptType ==
    ASSUME Typed, Grows, NEW p \in Procs, NEW t \in Names, NEW row \in Row,
           row.run \in 0 .. Len(cloud'[t]), NEW c \in Control, Attempt(p, t, row, c)
    PROVE  StatesOK' /\ CtlOK'
<1> DEFINE rows == [mem[p].rows EXCEPT ![t] = row]
           ref == StartingRefForTask(rows, t)
           sent == [row EXCEPT !.startingRef = ref]
           here == [c EXCEPT !.pc = "create", !.task = t, !.try = c.try + 1]
<1>1. mem[p] \in State /\ mem[p].rows \in [Names -> Row]
  BY RowAt DEF State
<1>2. rows \in [Names -> Row]
  BY <1>1
<1>3. Verifies[t] \in Names
  BY NamesAssumption
<1> HIDE DEF rows
<1>4. ref \in {"base"} \cup Branches
  <2>1. rows[t] \in Row /\ rows[Verifies[t]] \in Row
    BY <1>2, <1>3
  <2>2. rows[t].startingRef \in {"base"} \cup Branches
    BY <2>1 DEF Row
  <2>3. rows[Verifies[t]].branch \in Branches
    BY <2>1 DEF Row
  <2> QED
    BY <2>2, <2>3 DEF StartingRefForTask
<1> HIDE DEF ref
<1>5. sent \in Row /\ sent.run = row.run
  BY <1>4 DEF Row
<1> HIDE DEF sent
<1>6. Touch(p, t, IF RefRefused(rows, t) THEN row ELSE sent)
  BY DEF Attempt, sent, ref, rows
<1>7. StatesOK'
  BY <1>5, <1>6, TouchType
<1>8. here \in Control /\ here.pc = "create" /\ here.task = t
  <2>1. c.try + 1 \in Nat
    BY DEF Control
  <2>2. here \in Control
    BY <2>1, SpawnControl
  <2> QED
    BY <2>2 DEF Control
<1>9. Goto(p, here)
  BY DEF Attempt
<1> HIDE DEF here
<1>10. AtHand(here, cloud')
  BY <1>8 DEF AtHand
<1>11. CtlOK'
  BY <1>8, <1>9, <1>10, CtlSet DEF Typed
<1> QED
  BY <1>7, <1>11

LEMMA AttemptFailsType ==
    ASSUME Typed, Grows, NEW p \in Procs, ctl[p].task \in Names, NEW row \in Row,
           row.run \in 0 .. Len(cloud'[ctl[p].task]), AttemptFails(p, row)
    PROVE  StatesOK' /\ CtlOK'
<1> DEFINE t == ctl[p].task
           error == [row EXCEPT !.status = "error"]
           back == [ctl[p] EXCEPT !.pc = "backoff", !.agent = 0]
           scan == [ctl[p] EXCEPT !.pc = "scan", !.task = NoTask, !.try = 0, !.agent = 0]
<1>1. ctl[p] \in Control
  BY DEF Typed, CtlOK
<1>2. back \in Control /\ scan \in Control /\ back.pc = "backoff" /\ back.task = t /\ scan.pc = "scan"
  <2>1. back \in Control /\ scan \in Control
    BY <1>1, SpawnControl
  <2>2. back.pc = "backoff" /\ back.task = t /\ scan.pc = "scan"
    BY <1>1 DEF Control
  <2> QED
    BY <2>1, <2>2
<1>3. AtHand(back, cloud') /\ AtHand(scan, cloud')
  BY <1>2 DEF AtHand
<1>4. error \in Row /\ error.run = row.run
  BY DEF Row, Statuses
<1>5. KnownIn(mem[p], cloud')
  BY StillKnown DEF Typed, StatesOK
<1> HIDE DEF error, back, scan
<1>6. KnownIn([mem[p] EXCEPT !.rows[t] = error], cloud')
  BY <1>4, <1>5, RowKnown
<1>7. CASE ctl[p].try < SpawnMaxAttempts
  <2>1. Touch(p, t, row) /\ Goto(p, back)
    BY <1>7 DEF AttemptFails, back
  <2> QED
    BY <2>1, <1>2, <1>3, TouchType, CtlSet DEF Typed
<1>8. CASE ~(ctl[p].try < SpawnMaxAttempts)
  <2>1. /\ disk' = [mem[p] EXCEPT !.rows[t] = error]
        /\ IF p = "loop" THEN mem' = [mem EXCEPT ![p] = disk'] /\ Goto(p, scan) ELSE EndCommand
    BY <1>8 DEF AttemptFails, error, scan
  <2>2. KnownIn(disk', cloud')
    BY <2>1, <1>6
  <2>3. CASE p = "loop"
    <3>1. mem' = [mem EXCEPT ![p] = disk'] /\ Goto(p, scan)
      BY <2>1, <2>3
    <3> QED
      BY <3>1, <2>2, <1>2, <1>3, StatesSet, CtlSet DEF Typed
  <2>4. CASE p # "loop"
    BY <2>1, <2>2, <2>4, CommandEnds
  <2> QED
    BY <2>3, <2>4
<1> QED
  BY <1>7, <1>8

(* What a step that leaves the loop's waits and the files alone has to show. *)
LEMMA Together ==
    ASSUME Typed, Grows, StatesOK', CtlOK', WaitOK', FilesOK', WorldOK'
    PROVE  Typed'
  BY DEF Typed, Grows

LEMMA CreateFailsType == Typed /\ (\E p \in Procs : CreateFails(p)) => Typed'
<1> SUFFICES ASSUME Typed, NEW p \in Procs, CreateFails(p) PROVE Typed'
  OBVIOUS
<1>1. ctl[p].task \in Names
  BY DEF CreateFails, AtHand, Typed, CtlOK
<1>2. Grows
  BY SameCloud DEF CreateFails, world, Typed
<1>3. UNCHANGED cloud /\ mem[p].rows[ctl[p].task] \in Row
      /\ mem[p].rows[ctl[p].task].run \in 0 .. Len(cloud[ctl[p].task])
  BY <1>1, RowAt DEF CreateFails, world
<1>4. StatesOK' /\ CtlOK'
  BY <1>1, <1>2, <1>3, AttemptFailsType DEF CreateFails
<1>5. WaitOK' /\ FilesOK' /\ WorldOK'
  BY <1>2, WaitKept, FilesKept, WorldKept DEF CreateFails, world, Typed
<1> QED
  BY <1>2, <1>4, <1>5, Together

LEMMA CreateReturnsType == Typed /\ (\E p \in Procs : CreateReturns(p)) => Typed'
<1> SUFFICES ASSUME Typed, NEW p \in Procs, CreateReturns(p) PROVE Typed'
  OBVIOUS
<1> DEFINE t == ctl[p].task
           old == mem[p].rows[t]
           row == [old EXCEPT !.status = "running", !.run = 0]
           agent == [phase |-> "created", ref |-> row.startingRef, branch |-> "none", lost |-> FALSE]
           longer == Append(cloud[t], agent)
           send == [ctl[p] EXCEPT !.pc = "send", !.agent = Len(cloud[t]) + 1]
<1>1. t \in Names
  BY DEF CreateReturns, AtHand, Typed, CtlOK
<1>2. old \in Row /\ cloud[t] \in Seq(Agent) /\ Len(cloud[t]) \in Nat /\ ctl[p] \in Control
  BY <1>1, RowAt
<1>3. row \in Row /\ row.run = 0 /\ row.startingRef = old.startingRef
  BY <1>2 DEF Row, Statuses
<1>4. agent \in Agent
  <2>1. row.startingRef \in {"base"} \cup Branches
    BY <1>3 DEF Row
  <2> HIDE DEF row
  <2> QED
    BY <2>1 DEF Agent, Branches
<1>5. cloud' = [cloud EXCEPT ![t] = longer]
  BY <1>1 DEF CreateReturns, Typed, CloudOK
<1> HIDE DEF agent
<1>6. longer \in Seq(Agent) /\ Len(longer) = Len(cloud[t]) + 1
      /\ Len(cloud[t]) + 1 \in DOMAIN longer
  BY <1>2, <1>4
<1> HIDE DEF longer
<1>7. Grows
  <2>1. \A u \in Names : cloud'[u] = IF u = t THEN longer ELSE cloud[u]
    BY <1>5 DEF Typed, CloudOK
  <2>2. CloudOK'
    BY <1>5, <1>6 DEF Typed, CloudOK
  <2>3. \A u \in Names : Len(cloud[u]) \in Nat
    BY DEF Typed, CloudOK
  <2> QED
    BY <1>2, <1>6, <2>1, <2>2, <2>3 DEF Grows
<1>8. cloud'[t] = longer /\ 0 \in 0 .. Len(cloud'[t])
  BY <1>1, <1>2, <1>5, <1>6 DEF Typed, CloudOK
<1>9. StatesOK' /\ CtlOK'
  <2>1. CASE PromptRefused(mem[p].rows, t)
    <3>1. AttemptFails(p, row)
      BY <2>1 DEF CreateReturns
    <3> QED
      BY <1>1, <1>3, <1>7, <1>8, <3>1, AttemptFailsType
  <2>2. CASE ~PromptRefused(mem[p].rows, t)
    <3>1. Touch(p, t, row) /\ Goto(p, send)
      BY <2>2 DEF CreateReturns
    <3>2. send \in Control
      <4>1. Len(cloud[t]) + 1 \in Nat
        BY <1>2
      <4>2. \A n \in Nat : [ctl[p] EXCEPT !.pc = "send", !.agent = n] \in Control
        BY <1>1, <1>2, SpawnControl
      <4> QED
        BY <4>1, <4>2
    <3>3. send.agent \in DOMAIN cloud'[t] /\ send.task = t
      BY <1>2, <1>6, <1>8 DEF Control
    <3>4. AtHand(send, cloud')
      BY <1>1, <3>3 DEF AtHand
    <3> HIDE DEF send, row
    <3> QED
      BY <1>1, <1>3, <1>7, <1>8, <3>1, <3>2, <3>4, TouchType, CtlSet DEF Typed
  <2> QED
    BY <2>1, <2>2
<1>10. WaitOK' /\ FilesOK' /\ WorldOK'
  BY <1>7, WaitKept, FilesKept, WorldKept DEF CreateReturns, Typed
<1> QED
  BY <1>7, <1>9, <1>10, Together

LEMMA BackoffEndsType == Typed /\ (\E p \in Procs : BackoffEnds(p)) => Typed'
<1> SUFFICES ASSUME Typed, NEW p \in Procs, BackoffEnds(p) PROVE Typed'
  OBVIOUS
<1>1. ctl[p].task \in Names /\ ctl[p] \in Control
  BY DEF BackoffEnds, AtHand, Typed, CtlOK
<1>2. Grows /\ UNCHANGED cloud
  BY SameCloud DEF BackoffEnds, world, Typed
<1>3. StatesOK' /\ CtlOK'
  BY <1>1, <1>2, RowAt, AttemptType DEF BackoffEnds
<1>4. WaitOK' /\ FilesOK' /\ WorldOK'
  BY <1>2, WaitKept, FilesKept, WorldKept DEF BackoffEnds, world, Typed
<1> QED
  BY <1>2, <1>3, <1>4, Together

(* Agents change their phase or are lost. *)
LEMMA AgentChanged ==
    ASSUME Typed, NEW t \in Names, NEW n
    PROVE  /\ Replace(t, n, [cloud[t][n] EXCEPT !.lost = TRUE]) => Grows
           /\ \A phase \in {"created", "live"} \cup Ends :
                Replace(t, n, [cloud[t][n] EXCEPT !.phase = phase]) => Grows
           /\ \A end \in Ends, branch \in Branches \cup {"none"} :
                Replace(t, n, [cloud[t][n] EXCEPT !.phase = end, !.branch = branch]) => Grows
           /\ \A phase \in {"created", "live"} \cup Ends, lost \in BOOLEAN :
                Replace(t, n, [cloud[t][n] EXCEPT !.phase = phase, !.lost = lost]) => Grows
<1>1. n \in DOMAIN cloud[t] => cloud[t][n] \in Agent
  BY RowAt DEF Typed, CloudOK
<1> DEFINE a == cloud[t][n]
<1> HIDE DEF a
<1>2. ASSUME a \in Agent
      PROVE  /\ [a EXCEPT !.lost = TRUE] \in Agent
             /\ \A phase \in {"created", "live"} \cup Ends : [a EXCEPT !.phase = phase] \in Agent
             /\ \A end \in Ends, branch \in Branches \cup {"none"} :
                  [a EXCEPT !.phase = end, !.branch = branch] \in Agent
             /\ \A phase \in {"created", "live"} \cup Ends, lost \in BOOLEAN :
                  [a EXCEPT !.phase = phase, !.lost = lost] \in Agent
  BY <1>2 DEF Agent
<1>3. n \in DOMAIN cloud[t] =>
             /\ [a EXCEPT !.lost = TRUE] \in Agent
             /\ \A phase \in {"created", "live"} \cup Ends : [a EXCEPT !.phase = phase] \in Agent
             /\ \A end \in Ends, branch \in Branches \cup {"none"} :
                  [a EXCEPT !.phase = end, !.branch = branch] \in Agent
             /\ \A phase \in {"created", "live"} \cup Ends, lost \in BOOLEAN :
                  [a EXCEPT !.phase = phase, !.lost = lost] \in Agent
  BY <1>1, <1>2 DEF a
<1>4. ASSUME NEW agent, Replace(t, n, agent), n \in DOMAIN cloud[t] => agent \in Agent
      PROVE  Grows
  BY <1>4, Replaced DEF Typed
<1> QED
  BY <1>3, <1>4 DEF a

LEMMA SendFailsType == Typed /\ (\E p \in Procs : SendFails(p)) => Typed'
<1> SUFFICES ASSUME Typed, NEW p \in Procs, SendFails(p) PROVE Typed'
  OBVIOUS
<1> DEFINE t == ctl[p].task
           n == ctl[p].agent
<1>1. t \in Names
  BY DEF SendFails, AtHand, Typed, CtlOK
<1>2. Grows /\ \A u \in Names : Len(cloud'[u]) = Len(cloud[u])
  <2>1. Replace(t, n, [cloud[t][n] EXCEPT !.lost = TRUE])
    BY DEF SendFails
  <2>2. Grows
    BY <1>1, <2>1, AgentChanged
  <2>3. n \in DOMAIN cloud[t]
    BY DEF SendFails, AtHand, Typed, CtlOK
  <2>4. [cloud[t][n] EXCEPT !.lost = TRUE] \in Agent
    <3>1. cloud[t][n] \in Agent
      BY <1>1, <2>3, RowAt
    <3> QED
      BY <3>1 DEF Agent
  <2> QED
    BY <1>1, <2>1, <2>2, <2>4, Replaced DEF Typed
<1>3. mem[p].rows[t] \in Row /\ mem[p].rows[t].run \in 0 .. Len(cloud'[t])
  BY <1>1, <1>2, RowAt
<1>4. AttemptFails(p, mem[p].rows[t])
  BY DEF SendFails
<1>5. StatesOK' /\ CtlOK'
  BY <1>1, <1>2, <1>3, <1>4, AttemptFailsType
<1>6. WaitOK' /\ FilesOK' /\ WorldOK'
  BY <1>2, WaitKept, FilesKept, WorldKept DEF SendFails, Typed
<1> QED
  BY <1>2, <1>5, <1>6, Together

LEMMA SendReturnsType == Typed /\ (\E p \in Procs : SendReturns(p)) => Typed'
<1> SUFFICES ASSUME Typed, NEW p \in Procs, SendReturns(p) PROVE Typed'
  OBVIOUS
<1> DEFINE t == ctl[p].task
           n == ctl[p].agent
           row == [mem[p].rows[t] EXCEPT !.run = n]
           scan == [ctl[p] EXCEPT !.pc = "scan", !.task = NoTask, !.try = 0, !.agent = 0]
           w == [NoWaiter EXCEPT !.pc = "wait", !.run = n]
<1>1. t \in Names /\ n \in DOMAIN cloud[t]
  BY DEF SendReturns, AtHand, Typed, CtlOK
<1>2. Grows /\ UNCHANGED cloud
  BY SameCloud DEF SendReturns, world, Typed
<1>3. n \in 0 .. Len(cloud[t]) /\ n \in Nat
  BY <1>1, RowAt
<1>4. row \in Row /\ row.run = n
  <2>1. mem[p].rows[t] \in Row
    BY <1>1, RowAt
  <2> QED
    BY <1>3, <2>1 DEF Row
<1> HIDE DEF row
<1>5. KnownIn([mem[p] EXCEPT !.rows[t] = row], cloud')
  <2>1. KnownIn(mem[p], cloud')
    BY <1>1, <1>2, RowAt
  <2> QED
    BY <1>1, <1>2, <1>3, <1>4, <2>1, RowKnown
<1>6. disk' = [mem[p] EXCEPT !.rows[t] = row] /\ KnownIn(disk', cloud')
  BY <1>5 DEF SendReturns, row
<1>7. StatesOK' /\ CtlOK' /\ WaitOK'
  <2>1. CASE p = "loop"
    <3>1. mem' = [mem EXCEPT ![p] = disk'] /\ Goto(p, scan) /\ wait' = [wait EXCEPT ![t] = w]
      BY <2>1 DEF SendReturns
    <3>2. scan \in Control
      BY <1>1, RowAt, SpawnControl
    <3>3. scan.pc = "scan"
      BY <1>1, RowAt DEF Control
    <3>4. AtHand(scan, cloud')
      BY <3>3 DEF AtHand
    <3>5. w \in Waiter /\ w.run = n
      BY <1>3 DEF NoWaiter, Waiter, Branches
    <3> HIDE DEF scan, w
    <3>6. StatesOK'
      BY <3>1, <1>2, <1>6, StatesSet DEF Typed
    <3>7. CtlOK'
      BY <3>1, <3>2, <3>4, <1>2, CtlSet DEF Typed
    <3>8. WaitOK'
      BY <3>1, <3>5, <1>1, <1>2, WaitSet DEF Typed
    <3> QED
      BY <3>6, <3>7, <3>8
  <2>2. CASE p # "loop"
    <3>1. EndCommand /\ UNCHANGED wait
      BY <2>2 DEF SendReturns
    <3> QED
      BY <3>1, <1>2, <1>6, CommandEnds, WaitKept DEF Typed
  <2> QED
    BY <2>1, <2>2
<1>8. FilesOK' /\ WorldOK'
  BY FilesKept, WorldKept DEF SendReturns, world, Typed
<1> QED
  BY <1>2, <1>7, <1>8, Together

(* A step of the cloud changes agents alone. *)
LEMMA CloudStepType ==
    ASSUME Typed, Grows, UNCHANGED <<plan, cord, spent, files, procs, heard>>
    PROVE  Typed'
<1>1. StatesOK' /\ CtlOK' /\ WaitOK' /\ FilesOK' /\ WorldOK'
  BY StatesKept, CtlKept, WaitKept, FilesKept, WorldKept DEF Typed, files, procs
<1> QED
  BY <1>1, Together

LEMMA RunStartsType == Typed /\ (\E p \in Procs : RunStarts(p)) => Typed'
<1> SUFFICES ASSUME Typed, NEW p \in Procs, RunStarts(p) PROVE Typed'
  OBVIOUS
<1>1. ctl[p].task \in Names
  BY DEF RunStarts, AtHand, Typed, CtlOK
<1>2. Grows
  BY <1>1, AgentChanged DEF RunStarts
<1> QED
  BY <1>2, CloudStepType DEF RunStarts

LEMMA RunEndsType ==
    ASSUME Typed, NEW t \in Names, NEW n \in DOMAIN cloud[t],
           NEW end \in {"finished", "error"}, NEW branch \in Pushes[t],
           RunEnds(t, n, end, branch)
    PROVE  Typed'
<1>1. branch \in Branches \cup {"none"} /\ end \in Ends
  BY NamesAssumption DEF Branches, Ends
<1>2. Grows
  BY <1>1, AgentChanged DEF RunEnds
<1> QED
  BY <1>2, CloudStepType DEF RunEnds

-----------------------------------------------------------------------------
(* Waiting.                                                                *)

(* The row of a task that is waited for. *)
LEMMA Awaited ==
    ASSUME Typed, NEW t \in Names
    PROVE  /\ L \in State /\ KnownIn(L, cloud) /\ "loop" \in Procs
           /\ L.rows[t] \in Row /\ L.rows[t].run \in 0 .. Len(cloud[t])
           /\ wait[t] \in Waiter /\ wait[t].run \in Nat
           /\ wait[t].pc # "none" =>
                /\ wait[t].run \in DOMAIN cloud[t] /\ cloud[t][wait[t].run] \in Agent
<1>1. "loop" \in Procs
  BY DEF Procs
<1>2. wait[t].run \in Nat
  BY DEF Typed, WaitOK, Waiter
<1> QED
  BY <1>1, <1>2, RowAt DEF L

LEMMA WriteHandoffType ==
    ASSUME Typed, Grows, NEW t \in Names, NEW end \in Ends, wait[t].pc # "none",
           WriteHandoff(t, end), disk' = disk \/ disk' = L, UNCHANGED failure
    PROVE  StatesOK' /\ WaitOK' /\ FilesOK'
<1> DEFINE n == wait[t].run
           branch == ResolveRunBranch(t, n)
           row == [L.rows[t] EXCEPT !.branch = branch]
           w == [pc |-> "filed", run |-> n, end |-> end, branch |-> branch]
<1>1. n \in DOMAIN cloud[t] /\ cloud[t][n] \in Agent /\ n \in Nat /\ L.rows[t] \in Row
      /\ L.rows[t].run \in 0 .. Len(cloud[t]) /\ KnownIn(L, cloud) /\ "loop" \in Procs
      /\ L \in State
  BY Awaited
<1>2. branch \in Branches
  <2>1. cloud[t][n].branch \in Branches \cup {"none"} /\ L.rows[t].branch \in Branches
    BY <1>1 DEF Agent, Row
  <2> QED
    BY <2>1 DEF ResolveRunBranch
<1>3. mem' = [mem EXCEPT !["loop"] = [L EXCEPT !.rows[t] = row]]
  BY DEF WriteHandoff, L
<1>4. wait' = [wait EXCEPT ![t] = w] /\ HandoffFile(t, n, end)
  BY DEF WriteHandoff
<1> HIDE DEF branch
<1>5. row \in Row /\ row.run = L.rows[t].run
  BY <1>1, <1>2 DEF Row
<1>6. w \in Waiter /\ w.run = n
  BY <1>1, <1>2 DEF Waiter
<1> HIDE DEF row, w
<1>7. KnownIn(L, cloud') /\ row.run \in 0 .. Len(cloud'[t])
  <2>1. Len(cloud[t]) \in Nat /\ Len(cloud'[t]) \in Nat /\ Len(cloud[t]) <= Len(cloud'[t])
    BY DEF Grows, CloudOK, Typed
  <2> QED
    BY <1>1, <1>5, <2>1, StillKnown DEF Typed
<1>8. KnownIn([L EXCEPT !.rows[t] = row], cloud')
  BY <1>5, <1>7, RowKnown
<1>9. StatesOK'
  BY <1>1, <1>3, <1>7, <1>8, StatesSet DEF Typed
<1>10. WaitOK'
  <2>1. n \in DOMAIN cloud'[t]
    BY <1>1, StillKnown DEF Typed
  <2> QED
    BY <2>1, <1>4, <1>6, WaitSet DEF Typed
<1>11. FilesOK'
  <2>1. end \in Ends \cup {"none"}
    OBVIOUS
  <2> QED
    BY <1>1, <1>4, <2>1 DEF HandoffFile, FilesOK, Typed
<1> QED
  BY <1>9, <1>10, <1>11

LEMMA WaitReturnsType == Typed /\ (\E t \in Names : WaitReturns(t)) => Typed'
<1> SUFFICES ASSUME Typed, NEW t \in Names, WaitReturns(t) PROVE Typed'
  OBVIOUS
<1>1. Grows
  BY SameCloud DEF WaitReturns, world, Typed
<1>2. wait[t].pc # "none"
  BY DEF WaitReturns, AtWait
<1>3. cloud[t][wait[t].run].phase \in Ends
  BY DEF WaitReturns, Ends
<1>4. StatesOK' /\ WaitOK' /\ FilesOK'
  BY <1>1, <1>2, <1>3, WriteHandoffType DEF WaitReturns
<1>5. CtlOK' /\ WorldOK'
  BY <1>1, CtlKept, WorldKept DEF WaitReturns, world, Typed
<1> QED
  BY <1>1, <1>4, <1>5, Together

LEMMA ProbeSaysEndedType == Typed /\ (\E t \in Names : ProbeSaysEnded(t)) => Typed'
<1> SUFFICES ASSUME Typed, NEW t \in Names, ProbeSaysEnded(t) PROVE Typed'
  OBVIOUS
<1>1. Grows
  BY SameCloud DEF ProbeSaysEnded, world, Typed
<1>2. wait[t].pc # "none"
  BY DEF ProbeSaysEnded, AtWait
<1>3. StatesOK' /\ WaitOK' /\ FilesOK'
  BY <1>1, <1>2, WriteHandoffType DEF ProbeSaysEnded
<1>4. CtlOK' /\ WorldOK'
  BY <1>1, CtlKept, WorldKept DEF ProbeSaysEnded, world, Typed
<1> QED
  BY <1>1, <1>3, <1>4, Together

LEMMA ProbeFailsType == Typed /\ (\E t \in Names : ProbeFails(t)) => Typed'
<1> SUFFICES ASSUME Typed, NEW t \in Names, ProbeFails(t) PROVE Typed'
  OBVIOUS
<1>1. Grows
  BY AgentChanged DEF ProbeFails
<1>2. wait[t].pc # "none" /\ "error" \in Ends
  BY DEF ProbeFails, AtWait, Ends
<1>3. StatesOK' /\ WaitOK' /\ FilesOK'
  BY <1>1, <1>2, WriteHandoffType DEF ProbeFails
<1>4. CtlOK' /\ WorldOK'
  BY <1>1, CtlKept, WorldKept DEF ProbeFails, Typed
<1> QED
  BY <1>1, <1>3, <1>4, Together

LEMMA WaiterType ==
    ASSUME NEW w \in Waiter
    PROVE  /\ \A pc \in {"wait", "probe", "after"} :
                [w EXCEPT !.pc = pc] \in Waiter /\ [w EXCEPT !.pc = pc].run = w.run
           /\ [w EXCEPT !.pc = "after", !.end = "error"] \in Waiter
           /\ [w EXCEPT !.pc = "after", !.end = "error"].run = w.run
  BY DEF Waiter, Ends

LEMMA WaitReturnsErrorType == Typed /\ (\E t \in Names : WaitReturnsError(t)) => Typed'
<1> SUFFICES ASSUME Typed, NEW t \in Names, WaitReturnsError(t) PROVE Typed'
  OBVIOUS
<1>1. Grows
  BY SameCloud DEF WaitReturnsError, world, Typed
<1>2. UNCHANGED cloud /\ wait' = [wait EXCEPT ![t] = [wait[t] EXCEPT !.pc = "probe"]]
      /\ wait[t].pc # "none"
  BY DEF WaitReturnsError, AtWait, world
<1>3. WaitOK'
  BY <1>1, <1>2, Awaited, WaiterType, WaitSet DEF Typed
<1>4. StatesOK' /\ CtlOK' /\ FilesOK' /\ WorldOK'
  BY <1>1, StatesKept, CtlKept, FilesKept, WorldKept DEF WaitReturnsError, files, world, Typed
<1> QED
  BY <1>1, <1>3, <1>4, Together

LEMMA ProbeSaysRunningType == Typed /\ (\E t \in Names : ProbeSaysRunning(t)) => Typed'
<1> SUFFICES ASSUME Typed, NEW t \in Names, ProbeSaysRunning(t) PROVE Typed'
  OBVIOUS
<1>1. Grows
  BY SameCloud DEF ProbeSaysRunning, world, Typed
<1>2. UNCHANGED cloud /\ wait' = [wait EXCEPT ![t] = [wait[t] EXCEPT !.pc = "wait"]]
      /\ wait[t].pc # "none" /\ Save("loop", L)
  BY DEF ProbeSaysRunning, AtWait, world, LogAttention, L
<1>3. WaitOK'
  BY <1>1, <1>2, Awaited, WaiterType, WaitSet DEF Typed
<1>4. StatesOK'
  BY <1>1, <1>2, Awaited, SaveType
<1>5. CtlOK' /\ FilesOK' /\ WorldOK'
  BY <1>1, CtlKept, FilesKept, WorldKept DEF ProbeSaysRunning, world, Typed
<1> QED
  BY <1>1, <1>3, <1>4, <1>5, Together

(* A row settled, with a failure file or none. *)
LEMMA FailureFiled ==
    ASSUME Typed, NEW t \in Names, NEW n \in Nat, UNCHANGED handoff,
           FailureHandoff(t, n) \/ UNCHANGED failure
    PROVE  FilesOK'
  BY DEF Typed, FilesOK, FailureHandoff

LEMMA WaitThrowsType == Typed /\ (\E t \in Names : WaitThrows(t)) => Typed'
<1> SUFFICES ASSUME Typed, NEW t \in Names, WaitThrows(t) PROVE Typed'
  OBVIOUS
<1> DEFINE row == [L.rows[t] EXCEPT !.status = "error"]
           w == [wait[t] EXCEPT !.pc = "after", !.end = "error"]
<1>1. Grows
  BY AgentChanged DEF WaitThrows
<1>2. wait[t].pc # "none" /\ Touch("loop", t, row) /\ FailureHandoff(t, wait[t].run)
  BY DEF WaitThrows
<1>3. wait' = [wait EXCEPT ![t] = w]
  BY DEF WaitThrows
<1>4. row \in Row /\ row.run = L.rows[t].run
  BY Awaited DEF Row, Statuses
<1>5. w \in Waiter /\ w.run = wait[t].run
  BY Awaited, WaiterType
<1> HIDE DEF row, w
<1>6. Len(cloud[t]) \in Nat /\ Len(cloud'[t]) \in Nat /\ Len(cloud[t]) <= Len(cloud'[t])
  BY <1>1 DEF Grows, CloudOK, Typed
<1>7. StatesOK'
  <2>1. row.run \in 0 .. Len(cloud'[t]) /\ "loop" \in Procs
    BY <1>4, <1>6, Awaited
  <2> QED
    BY <2>1, <1>1, <1>2, <1>4, TouchType
<1>8. WaitOK'
  <2>1. w.run \in DOMAIN cloud'[t]
    BY <1>1, <1>2, <1>5, Awaited, StillKnown DEF Typed
  <2> QED
    BY <2>1, <1>1, <1>3, <1>5, WaitSet DEF Typed
<1>9. FilesOK'
  BY <1>2, Awaited, FailureFiled DEF WaitThrows
<1>10. CtlOK' /\ WorldOK'
  BY <1>1, CtlKept, WorldKept DEF WaitThrows, Typed
<1> QED
  BY <1>1, <1>7, <1>8, <1>9, <1>10, Together

LEMMA SettledRow ==
    ASSUME NEW row \in Row, NEW status \in Statuses, NEW branch \in Branches
    PROVE  /\ [row EXCEPT !.status = status, !.branch = branch, !.path = TRUE] \in Row
           /\ [row EXCEPT !.status = status, !.branch = branch, !.path = TRUE].run = row.run
  BY DEF Row

LEMMA CommitHandoffType == Typed /\ (\E t \in Names : CommitHandoff(t)) => Typed'
<1> SUFFICES ASSUME Typed, NEW t \in Names, CommitHandoff(t) PROVE Typed'
  OBVIOUS
<1> DEFINE status == IF wait[t].end = "finished" THEN "handed-off" ELSE "error"
           row == [L.rows[t] EXCEPT !.status = status, !.branch = wait[t].branch, !.path = TRUE]
           w == [wait[t] EXCEPT !.pc = "after"]
<1>1. Grows /\ UNCHANGED cloud
  BY SameCloud DEF CommitHandoff, world, Typed
<1>2. wait[t].pc # "none" /\ Touch("loop", t, row)
  BY DEF CommitHandoff
<1>3. wait' = [wait EXCEPT ![t] = w]
  BY DEF CommitHandoff
<1>4. row \in Row /\ row.run = L.rows[t].run
  <2>1. wait[t].branch \in Branches
    BY Awaited DEF Waiter
  <2>2. status \in Statuses
    BY DEF Statuses
  <2> HIDE DEF status
  <2>3. L.rows[t] \in Row
    BY Awaited
  <2> QED
    BY <2>1, <2>2, <2>3, SettledRow
<1>5. w \in Waiter /\ w.run = wait[t].run
  BY Awaited, WaiterType
<1> HIDE DEF row, w
<1>6. StatesOK'
  BY <1>1, <1>2, <1>4, Awaited, TouchType
<1>7. WaitOK'
  BY <1>1, <1>2, <1>3, <1>5, Awaited, WaitSet DEF Typed
<1>8. FilesOK'
  <2>1. FailureHandoff(t, wait[t].run) \/ UNCHANGED failure
    BY DEF CommitHandoff
  <2> QED
    BY <2>1, Awaited, FailureFiled DEF CommitHandoff
<1>9. CtlOK' /\ WorldOK'
  BY <1>1, CtlKept, WorldKept DEF CommitHandoff, world, Typed
<1> QED
  BY <1>1, <1>6, <1>7, <1>8, <1>9, Together

LEMMA FinishWaitType == Typed /\ (\E t \in Names : FinishWait(t)) => Typed'
<1> SUFFICES ASSUME Typed, NEW t \in Names, FinishWait(t) PROVE Typed'
  OBVIOUS
<1> DEFINE refs == ReconcileVerifierRefs(L.rows, planned, {t})
           rows == IF wait[t].end = "finished" THEN refs ELSE L.rows
<1>1. Grows /\ UNCHANGED cloud
  BY SameCloud DEF FinishWait, world, Typed
<1>2. Measured(rows)
  BY DEF FinishWait
<1>3. L.rows \in [Names -> Row]
  BY Awaited DEF State
<1>4. rows \in [Names -> Row] /\ \A u \in Names : rows[u].run = L.rows[u].run
  BY <1>3, VerifierRefsType
<1> HIDE DEF rows
<1>5. KnownIn([L EXCEPT !.rows = rows], cloud')
  <2>1. KnownIn(L, cloud')
    BY <1>1, Awaited
  <2>2. \A u \in Names : rows[u].run \in 0 .. Len(cloud'[u])
    BY <1>1, <1>4, Awaited
  <2> QED
    BY <1>4, <2>1, <2>2, RowsKnown
<1>6. StatesOK'
  BY <1>1, <1>2, <1>5, Awaited, SaveType, StatesKept DEF Measured, Typed
<1>7. WaitOK'
  <2>1. NoWaiter \in Waiter /\ NoWaiter.pc = "none"
    BY DEF NoWaiter, Waiter, Branches
  <2>2. wait' = [wait EXCEPT ![t] = NoWaiter]
    BY DEF FinishWait
  <2> QED
    BY <2>1, <2>2, <1>1, WaitSet DEF Typed
<1>8. CtlOK' /\ FilesOK' /\ WorldOK'
  BY <1>1, CtlKept, FilesKept, WorldKept DEF FinishWait, world, Typed
<1> QED
  BY <1>1, <1>6, <1>7, <1>8, Together

-----------------------------------------------------------------------------
(* The loop.                                                               *)

LEMMA LoopControl ==
    ASSUME Typed
    PROVE  LET c == ctl["loop"]
           IN  /\ c \in Control /\ c.todo \subseteq Names
               /\ \A pc \in {"poll", "sleep", "settle"} :
                    [c EXCEPT !.pc = pc] \in Control /\ [c EXCEPT !.pc = pc].pc = pc
               /\ \A S \in SUBSET Names :
                    /\ [c EXCEPT !.todo = S] \in Control
                    /\ [c EXCEPT !.todo = S].pc = c.pc /\ [c EXCEPT !.todo = S].task = c.task
                    /\ [c EXCEPT !.todo = S].agent = c.agent
                    /\ \A pc \in {"decide", "scan"} :
                        /\ [c EXCEPT !.pc = pc, !.todo = S] \in Control
                        /\ [c EXCEPT !.pc = pc, !.todo = S].pc = pc
<1>1. ctl["loop"] \in Control
  BY DEF Typed, CtlOK, Procs
<1> DEFINE c == ctl["loop"]
<1> HIDE DEF c
<1>2. c \in Control
  BY <1>1 DEF c
<1>3. \A pc \in {"poll", "sleep", "settle"} :
        [c EXCEPT !.pc = pc] \in Control /\ [c EXCEPT !.pc = pc].pc = pc
  BY <1>2 DEF Control
<1>4. \A S \in SUBSET Names :
        /\ [c EXCEPT !.todo = S] \in Control
        /\ [c EXCEPT !.todo = S].pc = c.pc /\ [c EXCEPT !.todo = S].task = c.task
        /\ [c EXCEPT !.todo = S].agent = c.agent
  BY <1>2 DEF Control
<1>5. \A S \in SUBSET Names : \A pc \in {"decide", "scan"} :
        /\ [c EXCEPT !.pc = pc, !.todo = S] \in Control
        /\ [c EXCEPT !.pc = pc, !.todo = S].pc = pc
  BY <1>2 DEF Control
<1>6. c.todo \subseteq Names
  BY <1>2 DEF Control
<1> QED
  BY <1>2, <1>3, <1>4, <1>5, <1>6 DEF c

(* An exit, with what is in memory saved or not. *)
LEMMA ExitType ==
    ASSUME Typed, UNCHANGED <<cloud, handoff, failure, plan, cord, heard, spent>>,
           disk' = disk \/ disk' = L,
           NEW how \in {"done", "stuck", "error", "checkpoint"}, Exit(how)
    PROVE  Typed'
<1>1. Grows
  BY SameCloud DEF Typed
<1>2. "loop" \in Procs /\ KnownIn(Empty, cloud') /\ KnownIn(L, cloud')
  BY EmptyKnown, Awaited DEF Typed, StatesOK, Procs, L
<1>3. StatesOK'
  BY <1>1, <1>2, StatesSet DEF Exit, Typed
<1>4. CtlOK'
  BY <1>1, <1>2, IdleType, CtlSet DEF Exit, Goto, Typed
<1>5. WaitOK'
  BY WaitNone DEF Exit
<1>6. FilesOK'
  BY FilesKept DEF Typed
<1>7. WorldOK'
  BY DEF Exit, WorldOK, Typed
<1> QED
  BY <1>1, <1>3, <1>4, <1>5, <1>6, <1>7, Together

LEMMA BootType == Typed /\ Boot => Typed'
<1> SUFFICES ASSUME Typed, Boot PROVE Typed'
  OBVIOUS
<1> DEFINE state == Loaded(disk, plan)
           c == [Idle EXCEPT !.pc = "recover", !.cmd = "run",
                             !.todo = With(state.rows, "running"),
                             !.known = With(state.rows, "error")]
<1>1. Grows /\ UNCHANGED cloud
  BY SameCloud DEF Boot, Typed
<1>2. KnownIn(state, cloud) /\ plan \in Plans
  BY LoadedType DEF Typed, StatesOK, WorldOK
<1>3. Save("loop", state) /\ Goto("loop", c) /\ "loop" \in Procs
  BY DEF Boot, Procs
<1>4. StatesOK'
  BY <1>1, <1>2, <1>3, SaveType
<1>5. c \in Control /\ c.pc = "recover"
  BY DEF Idle, Control, With
<1> HIDE DEF c
<1>6. AtHand(c, cloud')
  BY <1>5 DEF AtHand
<1>7. CtlOK'
  BY <1>1, <1>3, <1>5, <1>6, CtlSet DEF Typed
<1>8. WaitOK' /\ FilesOK'
  BY <1>1, WaitKept, FilesKept DEF Boot, Typed
<1>9. WorldOK'
  BY BoundsAssumption DEF Boot, WorldOK, Typed
<1> QED
  BY <1>1, <1>4, <1>7, <1>8, <1>9, Together

(* The loop has fewer rows left to recover. *)
LEMMA FewerToRecover ==
    ASSUME Typed, Grows, NEW t \in Names,
           Goto("loop", [ctl["loop"] EXCEPT !.todo = @ \ {t}])
    PROVE  CtlOK'
<1> DEFINE c == [ctl["loop"] EXCEPT !.todo = ctl["loop"].todo \ {t}]
<1>1. ctl["loop"].todo \ {t} \in SUBSET Names /\ "loop" \in Procs
  BY LoopControl DEF Procs
<1>2. c \in Control /\ c.pc = ctl["loop"].pc /\ c.task = ctl["loop"].task
      /\ c.agent = ctl["loop"].agent
  BY <1>1, LoopControl
<1>3. Goto("loop", c)
  BY DEF Goto
<1> HIDE DEF c
<1>4. AtHand(ctl["loop"], cloud')
  BY <1>1, StillKnown DEF Typed, CtlOK
<1>5. AtHand(c, cloud')
  BY <1>2, <1>4 DEF AtHand
<1> QED
  BY <1>1, <1>2, <1>3, <1>5, CtlSet DEF Typed

LEMMA RecoverFailsType == Typed /\ (\E t \in Names : RecoverFails(t)) => Typed'
<1> SUFFICES ASSUME Typed, NEW t \in Names, RecoverFails(t) PROVE Typed'
  OBVIOUS
<1> DEFINE n == L.rows[t].run
           row == [L.rows[t] EXCEPT !.status = "error"]
<1>1. Grows
  <2>1. UNCHANGED cloud \/ Replace(t, n, [cloud[t][n] EXCEPT !.lost = TRUE])
    BY DEF RecoverFails
  <2> QED
    BY <2>1, SameCloud, AgentChanged DEF Typed
<1>2. row \in Row /\ row.run = n /\ n \in Nat
  <2>1. L.rows[t] \in Row
    BY Awaited
  <2> QED
    BY <2>1 DEF Row, Statuses
<1>3. Touch("loop", t, row) /\ FailureHandoff(t, n)
  BY DEF RecoverFails
<1> HIDE DEF row
<1>4. row.run \in 0 .. Len(cloud'[t])
  <2>1. Len(cloud[t]) \in Nat /\ Len(cloud'[t]) \in Nat /\ Len(cloud[t]) <= Len(cloud'[t])
    BY <1>1 DEF Grows, CloudOK, Typed
  <2>2. n \in 0 .. Len(cloud[t])
    BY Awaited
  <2> QED
    BY <1>2, <2>1, <2>2
<1>5. StatesOK'
  BY <1>1, <1>2, <1>3, <1>4, Awaited, TouchType
<1>6. FilesOK'
  BY <1>2, <1>3, FailureFiled DEF RecoverFails
<1>7. CtlOK'
  BY <1>1, FewerToRecover DEF RecoverFails
<1>8. WaitOK' /\ WorldOK'
  BY <1>1, WaitKept, WorldKept DEF RecoverFails, Typed
<1> QED
  BY <1>1, <1>5, <1>6, <1>7, <1>8, Together

LEMMA RecoverReturnsType == Typed /\ (\E t \in Names : RecoverReturns(t)) => Typed'
<1> SUFFICES ASSUME Typed, NEW t \in Names, RecoverReturns(t) PROVE Typed'
  OBVIOUS
<1> DEFINE n == L.rows[t].run
           w == [NoWaiter EXCEPT !.pc = "wait", !.run = n]
<1>1. Grows /\ UNCHANGED cloud
  BY SameCloud DEF RecoverReturns, world, Typed
<1>2. n \in DOMAIN cloud[t] /\ n \in Nat
  <2>1. n \in 0 .. Len(cloud[t]) /\ n # 0 /\ Len(cloud[t]) \in Nat
    BY Awaited DEF RecoverReturns, Typed, CloudOK
  <2>2. DOMAIN cloud[t] = 1 .. Len(cloud[t])
    BY Awaited, RowAt
  <2> QED
    BY <2>1, <2>2
<1>3. w \in Waiter /\ w.run = n
  BY <1>2 DEF NoWaiter, Waiter, Branches
<1>4. wait' = [wait EXCEPT ![t] = w]
  BY DEF RecoverReturns
<1> HIDE DEF w
<1>5. WaitOK'
  BY <1>1, <1>2, <1>3, <1>4, WaitSet DEF Typed
<1>6. CtlOK'
  BY <1>1, FewerToRecover DEF RecoverReturns
<1>7. StatesOK' /\ FilesOK' /\ WorldOK'
  BY <1>1, StatesKept, FilesKept, WorldKept DEF RecoverReturns, files, world, Typed
<1> QED
  BY <1>1, <1>5, <1>6, <1>7, Together

(* The loop moves on without a word. *)
LEMMA LoopMovesOn ==
    ASSUME Typed, UNCHANGED <<cloud, files, mem, wait, planned, exit, plan, cord, spent, heard>>,
           \/ \E pc \in {"poll", "sleep", "settle"} : Goto("loop", [ctl["loop"] EXCEPT !.pc = pc])
           \/ Goto("loop", [ctl["loop"] EXCEPT !.pc = "decide", !.todo = {}])
    PROVE  Typed'
<1>1. Grows
  BY SameCloud DEF Typed
<1>2. PICK c \in Control : /\ c.pc \in {"poll", "sleep", "settle", "decide"}
                           /\ Goto("loop", c)
  BY LoopControl
<1>3. AtHand(c, cloud') /\ "loop" \in Procs
  BY <1>2 DEF AtHand, Procs
<1>4. CtlOK'
  BY <1>1, <1>2, <1>3, CtlSet DEF Typed
<1>5. StatesOK' /\ WaitOK' /\ FilesOK' /\ WorldOK'
  BY <1>1, StatesKept, WaitKept, FilesKept, WorldKept DEF files, Typed
<1> QED
  BY <1>1, <1>4, <1>5, Together

LEMMA RecoveredType == Typed /\ Recovered => Typed'
<1> SUFFICES ASSUME Typed, Recovered PROVE Typed'
  OBVIOUS
<1>1. CASE disk' = L /\ Exit("error")
  BY <1>1, ExitType DEF Recovered, world
<1>2. CASE Goto("loop", [ctl["loop"] EXCEPT !.pc = "poll"]) /\ UNCHANGED <<disk, mem, wait, planned, exit>>
  BY <1>2, LoopMovesOn DEF Recovered, world, files
<1> QED
  BY <1>1, <1>2 DEF Recovered

LEMMA DecideType == Typed /\ (Decide \/ Checkpoint \/ Wake) => Typed'
<1> SUFFICES ASSUME Typed, Decide \/ Checkpoint \/ Wake PROVE Typed'
  OBVIOUS
<1>1. CASE Decide
  <2>1. CASE disk' = L /\ Exit("error")
    BY <1>1, <2>1, ExitType DEF Decide, world
  <2>2. CASE /\ Goto("loop", [ctl["loop"] EXCEPT !.pc =
                                IF CanMakeProgress(L.rows) THEN "sleep" ELSE "settle"])
             /\ UNCHANGED <<disk, mem, wait, planned, exit>>
    <3>1. \E pc \in {"poll", "sleep", "settle"} : Goto("loop", [ctl["loop"] EXCEPT !.pc = pc])
      BY <2>2
    <3> QED
      BY <1>1, <2>2, <3>1, LoopMovesOn DEF Decide, world, files
  <2> QED
    BY <1>1, <2>1, <2>2 DEF Decide
<1>2. CASE Checkpoint
  BY <1>2, ExitType DEF Checkpoint, world
<1>3. CASE Wake
  BY <1>3, LoopMovesOn DEF Wake, world
<1> QED
  BY <1>1, <1>2, <1>3

LEMMA SettleType == Typed /\ Settle => Typed'
<1> SUFFICES ASSUME Typed, Settle PROVE Typed'
  OBVIOUS
<1> DEFINE how == IF \E t \in Names : L.rows[t].status \in {"error", "cancelled", "pending"}
                  THEN "stuck" ELSE "done"
<1>1. Exit(how) /\ (disk' = disk \/ disk' = L)
  BY DEF Settle
<1>2. how \in {"done", "stuck", "error", "checkpoint"}
  OBVIOUS
<1> HIDE DEF how
<1> QED
  BY <1>1, <1>2, ExitType DEF Settle, world

(* A sweep starts, or is skipped because of the cord. *)
LEMMA SweepStarts ==
    ASSUME Typed, NEW andon, StartSweep(andon)
    PROVE  \E c \in Control : c.pc \in {"decide", "scan"} /\ Goto("loop", c)
<1>1. DOMAIN planned \in SUBSET Names /\ {} \in SUBSET Names
  BY PlanType DEF Typed, WorldOK
<1>2. CASE andon
  <2>1. Goto("loop", [ctl["loop"] EXCEPT !.pc = "decide", !.todo = {}])
    BY <1>2 DEF StartSweep
  <2> QED
    BY <2>1, <1>1, LoopControl
<1>3. CASE ~andon
  <2>1. Goto("loop", [ctl["loop"] EXCEPT !.pc = "scan", !.todo = DOMAIN planned])
    BY <1>3 DEF StartSweep
  <2> QED
    BY <2>1, <1>1, LoopControl
<1> QED
  BY <1>2, <1>3

LEMMA StartSweepType ==
    ASSUME Typed, Grows, NEW andon, StartSweep(andon)
    PROVE  CtlOK'
<1>1. PICK c \in Control : c.pc \in {"decide", "scan"} /\ Goto("loop", c)
  BY SweepStarts
<1>2. AtHand(c, cloud') /\ "loop" \in Procs
  BY <1>1 DEF AtHand, Procs
<1> QED
  BY <1>1, <1>2, CtlSet DEF Typed

LEMMA PollType == Typed /\ (PollReturns \/ PollFails) => Typed'
<1> SUFFICES ASSUME Typed, PollReturns \/ PollFails PROVE Typed'
  OBVIOUS
<1>1. UNCHANGED cloud /\ UNCHANGED <<handoff, failure, wait, planned, exit, plan, cord, spent>>
  BY DEF PollReturns, PollFails, world
<1>2. Grows
  BY <1>1, SameCloud DEF Typed
<1>3. CtlOK'
  BY <1>2, StartSweepType DEF PollReturns, PollFails
<1>4. KnownIn(L, cloud') /\ KnownIn([L EXCEPT !.andon = Snapshot], cloud') /\ "loop" \in Procs
  <2>1. L \in State /\ Snapshot \in BOOLEAN /\ KnownIn(L, cloud) /\ "loop" \in Procs
    BY DEF Procs, Typed, StatesOK, L, Snapshot, WorldOK
  <2>2. [L EXCEPT !.andon = Snapshot] \in State /\ [L EXCEPT !.andon = Snapshot].rows = L.rows
    BY <2>1 DEF State
  <2> QED
    BY <1>1, <2>1, <2>2 DEF KnownIn
<1>5. StatesOK'
  <2>1. \/ Save("loop", L) \/ Save("loop", [L EXCEPT !.andon = Snapshot])
        \/ UNCHANGED <<mem, disk>>
    BY DEF PollReturns, PollFails, LogAttention, L
  <2> QED
    BY <1>2, <1>4, <2>1, SaveType, StatesKept DEF Typed
<1>6. WaitOK' /\ FilesOK'
  BY <1>1, <1>2, WaitKept, FilesKept DEF Typed
<1>7. WorldOK'
  <2>1. heard' = (Snapshot /\ (L.andon => disk.andon)) \/ heard' = heard
    BY DEF PollReturns, PollFails
  <2>2. heard' \in BOOLEAN
    BY <2>1 DEF Typed, WorldOK
  <2> QED
    BY <1>1, <2>2 DEF Typed, WorldOK
<1> QED
  BY <1>2, <1>3, <1>5, <1>6, <1>7, Together

LEMMA ScanType == Typed /\ (\E t \in Names : Scan(t)) => Typed'
<1> SUFFICES ASSUME Typed, NEW t \in Names, Scan(t) PROVE Typed'
  OBVIOUS
<1> DEFINE row == L.rows[t]
           error == [row EXCEPT !.status = "error"]
           next == [row EXCEPT !.attempts = row.attempts + 1]
           c == [ctl["loop"] EXCEPT !.todo = After(t)]
<1>1. Grows /\ UNCHANGED cloud
  BY SameCloud DEF Scan, world, Typed
<1>2. row \in Row /\ row.run \in 0 .. Len(cloud'[t]) /\ "loop" \in Procs
  BY <1>1, Awaited
<1>3. error \in Row /\ next \in Row /\ error.run = row.run /\ next.run = row.run
  BY <1>2 DEF Row, Statuses
<1>4. c \in Control /\ c.pc = "scan"
  <2>1. After(t) \in SUBSET Names
    BY LoopControl DEF After
  <2> QED
    BY <2>1, LoopControl DEF Scan, LoopAt
<1>5. \/ Touch("loop", t, error) /\ Goto("loop", c)
      \/ Attempt("loop", t, next, c)
  BY DEF Scan
<1> HIDE DEF error, next, c, row
<1>6. AtHand(c, cloud')
  BY <1>4 DEF AtHand
<1>7. StatesOK' /\ CtlOK'
  BY <1>1, <1>2, <1>3, <1>4, <1>5, <1>6, TouchType, CtlSet, AttemptType DEF Typed
<1>8. WaitOK' /\ FilesOK' /\ WorldOK'
  BY <1>1, WaitKept, FilesKept, WorldKept DEF Scan, world, Typed
<1> QED
  BY <1>1, <1>7, <1>8, Together

LEMMA ScanEndsType == Typed /\ ScanEnds => Typed'
  BY LoopMovesOn DEF ScanEnds, world

-----------------------------------------------------------------------------
(* The commands.                                                           *)

(* What a command finds. *)
LEMMA FoundType ==
    ASSUME Typed
    PROVE  /\ KnownIn(Found, cloud) /\ Found \in State /\ Found.rows \in [Names -> Row]
           /\ \A t \in Names : Found.rows[t] \in Row /\ Found.rows[t].run \in 0 .. Len(cloud[t])
           /\ "command" \in Procs
<1>1. KnownIn(Found, cloud)
  BY LoadedType DEF Found, Typed, StatesOK, WorldOK
<1> QED
  BY <1>1 DEF KnownIn, State, Procs

(* A command that ends at once or goes on from a control of its own. *)
LEMMA CommandStarts ==
    ASSUME Typed, NEW cmd, NEW t, StartCommand(cmd, t), NEW s, KnownIn(s, cloud),
           \/ EndsWith(s)
           \/ \E c \in Control : AtHand(c, cloud) /\ GoesOn(s, c)
    PROVE  Typed'
<1>1. Grows /\ UNCHANGED cloud
  BY SameCloud DEF StartCommand, Typed
<1>2. WaitOK' /\ FilesOK'
  BY <1>1, WaitKept, FilesKept DEF StartCommand, Typed
<1>3. WorldOK'
  BY BoundsAssumption DEF StartCommand, WorldOK, Typed
<1>4. StatesOK' /\ CtlOK'
  <2>1. CASE EndsWith(s)
    <3>1. disk' = s /\ UNCHANGED <<mem, ctl>>
      BY <2>1 DEF EndsWith
    <3>2. KnownIn(disk', cloud')
      BY <3>1, <1>1
    <3> QED
      BY <3>1, <3>2, <1>1, FileSet, CtlKept DEF Typed
  <2>2. ASSUME NEW c \in Control, AtHand(c, cloud), GoesOn(s, c)
        PROVE  StatesOK' /\ CtlOK'
    BY <1>1, <2>2, SaveType, CtlSet DEF GoesOn, Procs, Typed
  <2> QED
    BY <2>1, <2>2
<1> QED
  BY <1>1, <1>2, <1>3, <1>4, Together

LEMMA SpawnCommandType == Typed /\ (\E t \in Names : SpawnCommand(t)) => Typed'
<1> SUFFICES ASSUME Typed, NEW t \in Names, SpawnCommand(t) PROVE Typed'
  OBVIOUS
<1> DEFINE row == Found.rows[t]
           new == IF row.status = "absent" THEN InlineTask(t) ELSE row
           next == [new EXCEPT !.attempts = new.attempts + 1]
           s == [Found EXCEPT !.rows[t] = next]
           c == [Idle EXCEPT !.pc = "create", !.cmd = "spawn", !.task = t, !.try = 1]
<1>1. new \in Row /\ new.run \in 0 .. Len(cloud[t])
  <2>1. InlineTask(t) \in Row /\ InlineTask(t).run = 0
    BY NewRowType DEF InlineTask
  <2>2. Len(cloud[t]) \in Nat
    BY DEF Typed, CloudOK
  <2> QED
    BY <2>1, <2>2, FoundType
<1>2. StartCommand("spawn", t) /\ (EndsWith(Found) \/ GoesOn(s, c))
  BY DEF SpawnCommand
<1> HIDE DEF new
<1>3. next \in Row /\ next.run = new.run
  BY <1>1 DEF Row
<1> HIDE DEF next
<1>4. KnownIn(s, cloud)
  BY <1>1, <1>3, FoundType, RowKnown
<1>5. c \in Control /\ c.pc = "create" /\ c.task = t
  BY DEF Idle, Control
<1> HIDE DEF c, s
<1>6. AtHand(c, cloud)
  BY <1>5 DEF AtHand
<1> QED
  BY <1>2, <1>4, <1>5, <1>6, FoundType, CommandStarts

LEMMA RespawnedType ==
    ASSUME NEW row \in Row, NEW t
    PROVE  Respawned(row, t) \in Row /\ Respawned(row, t).run = 0
<1> DEFINE ref == IF Kind[t] = "subplanner" /\ row.attempts > 0 THEN row.branch ELSE row.startingRef
<1>1. ref \in {"base"} \cup Branches
  BY DEF Row
<1>2. Respawned(row, t) = [row EXCEPT !.status = "pending", !.run = 0, !.path = FALSE,
                                      !.startingRef = ref]
  BY DEF Respawned
<1> HIDE DEF ref
<1>3. [row EXCEPT !.status = "pending", !.run = 0, !.path = FALSE, !.startingRef = ref] \in Row
  BY <1>1 DEF Row, Statuses
<1>4. [row EXCEPT !.status = "pending", !.run = 0, !.path = FALSE, !.startingRef = ref].run = 0
  BY DEF Row
<1> QED
  BY <1>2, <1>3, <1>4

LEMMA RespawnCommandType ==
    Typed /\ (\E t \in Names : \E cascade \in BOOLEAN : RespawnCommand(t, cascade)) => Typed'
<1> SUFFICES ASSUME Typed, NEW t \in Names, NEW cascade \in BOOLEAN, RespawnCommand(t, cascade)
             PROVE  Typed'
  OBVIOUS
<1> DEFINE again == {u \in With(Found.rows, "pruned") : cascade /\ t \in RowAncestors(Found.rows, u)}
           rows == [u \in Names |-> IF u \in again \cup {t} THEN Respawned(Found.rows[u], u)
                                    ELSE Found.rows[u]]
           cmd == IF cascade THEN "cascade" ELSE "respawn"
<1>1. StartCommand(cmd, t) /\ (EndsWith(Found) \/ EndsWith([Found EXCEPT !.rows = rows]))
  BY DEF RespawnCommand
<1> HIDE DEF cmd
<1>2. \A u \in Names : Len(cloud[u]) \in Nat
  BY DEF Typed, CloudOK
<1> HIDE DEF again
<1>3. rows \in [Names -> Row] /\ \A u \in Names : rows[u].run \in 0 .. Len(cloud[u])
  BY <1>2, FoundType, RespawnedType
<1> HIDE DEF rows
<1>4. KnownIn([Found EXCEPT !.rows = rows], cloud)
  BY <1>3, FoundType, RowsKnown
<1> QED
  BY <1>1, <1>4, FoundType, CommandStarts

LEMMA CancelCommandType == Typed /\ (\E t \in Names : CancelCommand(t)) => Typed'
<1> SUFFICES ASSUME Typed, NEW t \in Names, CancelCommand(t) PROVE Typed'
  OBVIOUS
<1> DEFINE c == [Idle EXCEPT !.pc = "cancel", !.cmd = "cancel", !.task = t]
<1>1. StartCommand("cancel", t) /\ (EndsWith(Found) \/ GoesOn(Found, c))
  BY DEF CancelCommand
<1>2. c \in Control /\ c.pc = "cancel" /\ c.task = t
  BY DEF Idle, Control
<1> HIDE DEF c
<1>3. AtHand(c, cloud)
  BY <1>2 DEF AtHand
<1> QED
  BY <1>1, <1>2, <1>3, FoundType, CommandStarts

LEMMA KillCommandType == Typed /\ (\E t \in Names \cup {NoTask} : KillCommand(t)) => Typed'
<1> SUFFICES ASSUME Typed, NEW t \in Names \cup {NoTask}, KillCommand(t) PROVE Typed'
  OBVIOUS
<1> DEFINE todo == IF t = NoTask
                   THEN With(Found.rows, "pending") \cup With(Found.rows, "running")
                   ELSE CascadeVictims(Found.rows, t)
           c == [Idle EXCEPT !.pc = "stop", !.cmd = "kill", !.todo = todo]
<1>1. StartCommand("kill", t) /\ GoesOn(Found, c)
  BY DEF KillCommand
<1>2. todo \subseteq Names
  BY DEF With, CascadeVictims
<1> HIDE DEF todo
<1>3. c \in Control /\ c.pc = "stop"
  BY <1>2 DEF Idle, Control
<1> HIDE DEF c
<1>4. AtHand(c, cloud)
  BY <1>3 DEF AtHand
<1> QED
  BY <1>1, <1>3, <1>4, FoundType, CommandStarts

(* The command's own row and control. *)
LEMMA CommandRow ==
    ASSUME Typed, NEW t \in Names
    PROVE  /\ C \in State /\ KnownIn(C, cloud) /\ "command" \in Procs
           /\ C.rows[t] \in Row /\ C.rows[t].run \in 0 .. Len(cloud[t])
           /\ C.rows[t].run \in Nat
           /\ ctl["command"] \in Control
<1>1. "command" \in Procs
  BY DEF Procs
<1>2. C.rows[t] \in Row
  BY <1>1, RowAt DEF C
<1>3. C.rows[t].run \in Nat
  BY <1>2 DEF Row
<1> QED
  BY <1>1, <1>2, <1>3, RowAt DEF C

LEMMA StopControl ==
    ASSUME NEW c \in Control, NEW t \in Names
    PROVE  /\ [c EXCEPT !.todo = c.todo \ {t}] \in Control
           /\ [c EXCEPT !.todo = c.todo \ {t}].pc = c.pc
           /\ [[c EXCEPT !.todo = c.todo \ {t}] EXCEPT !.pc = "cancel", !.task = t] \in Control
           /\ [[c EXCEPT !.todo = c.todo \ {t}] EXCEPT !.pc = "cancel", !.task = t].pc = "cancel"
           /\ [[c EXCEPT !.todo = c.todo \ {t}] EXCEPT !.pc = "cancel", !.task = t].task = t
           /\ [c EXCEPT !.pc = "stop", !.task = NoTask] \in Control
           /\ [c EXCEPT !.pc = "stop", !.task = NoTask].pc = "stop"
  BY DEF Control

(* A row that gets another status is a row of the same run. *)
LEMMA StatusSet ==
    ASSUME NEW row \in Row, NEW status \in Statuses
    PROVE  [row EXCEPT !.status = status] \in Row /\ [row EXCEPT !.status = status].run = row.run
  BY DEF Row

LEMMA StopTaskType == Typed /\ (\E t \in Names : StopTask(t)) => Typed'
<1> SUFFICES ASSUME Typed, NEW t \in Names, StopTask(t) PROVE Typed'
  OBVIOUS
<1> DEFINE row == C.rows[t]
           next == [ctl["command"] EXCEPT !.todo = ctl["command"].todo \ {t}]
           cancel == [next EXCEPT !.pc = "cancel", !.task = t]
<1>1. Grows /\ UNCHANGED cloud
  BY SameCloud DEF StopTask, world, Typed
<1>2. PICK c \in Control : c.pc \in {"stop", "cancel"} /\ (c.pc = "cancel" => c.task = t)
                           /\ Goto("command", c)
  <2>1. Goto("command", next) \/ Goto("command", cancel)
    BY DEF StopTask
  <2>2. next \in Control /\ next.pc = "stop" /\ cancel \in Control /\ cancel.pc = "cancel"
        /\ cancel.task = t
    <3>1. ctl["command"].pc = "stop"
      BY DEF StopTask, CommandAt
    <3>2. ctl["command"] \in Control
      BY CommandRow
    <3>3. next \in Control /\ next.pc = ctl["command"].pc
      BY <3>2, StopControl
    <3> HIDE DEF next
    <3>4. cancel \in Control /\ cancel.pc = "cancel" /\ cancel.task = t
      BY <3>3 DEF Control
    <3> HIDE DEF cancel
    <3> QED
      BY <3>1, <3>3, <3>4
  <2> HIDE DEF next, cancel
  <2> QED
    BY <2>1, <2>2
<1>3. AtHand(c, cloud')
  BY <1>2 DEF AtHand
<1>4. CtlOK'
  BY <1>1, <1>2, <1>3, CommandRow, CtlSet DEF Typed
<1>5. StatesOK'
  <2>1. \/ UNCHANGED <<mem, disk>>
        \/ \E status \in {"error", "pruned"} :
              Touch("command", t, [row EXCEPT !.status = status])
    BY DEF StopTask
  <2>2. \A status \in {"error", "pruned"} :
            /\ [row EXCEPT !.status = status] \in Row
            /\ [row EXCEPT !.status = status].run \in 0 .. Len(cloud'[t])
    BY <1>1, CommandRow, StatusSet DEF Statuses
  <2> QED
    BY <1>1, <2>1, <2>2, CommandRow, StatesKept, TouchType DEF Typed
<1>6. WaitOK' /\ FilesOK' /\ WorldOK'
  <2>1. StillHeard("command") /\ "command" \in Procs
    BY DEF StopTask, Procs
  <2> QED
    BY <1>1, <2>1, WaitKept, FilesKept, WorldKept DEF StopTask, world, Typed
<1> QED
  BY <1>1, <1>4, <1>5, <1>6, Together

LEMMA StopEndsType == Typed /\ StopEnds => Typed'
<1> SUFFICES ASSUME Typed, StopEnds PROVE Typed'
  OBVIOUS
<1>1. Grows
  BY SameCloud DEF StopEnds, world, Typed
<1>2. StatesOK' /\ CtlOK' /\ WaitOK' /\ FilesOK' /\ WorldOK'
  BY <1>1, CommandEnds, WaitKept, FilesKept, WorldKept DEF StopEnds, files, world, Typed
<1> QED
  BY <1>1, <1>2, Together

LEMMA NextVictimType ==
    ASSUME Typed, Grows, NEW status \in Statuses, ctl["command"].task \in Names,
           NextVictim([C.rows[ctl["command"].task] EXCEPT !.status = status])
    PROVE  StatesOK' /\ CtlOK'
<1> DEFINE t == ctl["command"].task
           row == [C.rows[t] EXCEPT !.status = status]
           c == [ctl["command"] EXCEPT !.pc = "stop", !.task = NoTask]
<1>1. row \in Row /\ row.run \in 0 .. Len(cloud[t]) /\ "command" \in Procs /\ KnownIn(C, cloud)
  BY CommandRow, StatusSet
<1>2. Len(cloud[t]) \in Nat /\ Len(cloud'[t]) \in Nat /\ Len(cloud[t]) <= Len(cloud'[t])
  BY DEF Grows, CloudOK, Typed
<1>3. c \in Control /\ c.pc = "stop"
  BY CommandRow, StopControl
<1>4. \/ disk' = [C EXCEPT !.rows[t] = row] /\ EndCommand
      \/ Touch("command", t, row) /\ Goto("command", c)
  BY DEF NextVictim
<1> HIDE DEF row, c
<1>5. row.run \in 0 .. Len(cloud'[t])
  BY <1>1, <1>2
<1>6. AtHand(c, cloud')
  BY <1>3 DEF AtHand
<1>7. KnownIn([C EXCEPT !.rows[t] = row], cloud')
  BY <1>1, <1>5, StillKnown, RowKnown DEF Typed
<1>8. CASE disk' = [C EXCEPT !.rows[t] = row] /\ EndCommand
  <2>1. KnownIn(disk', cloud')
    BY <1>7, <1>8
  <2> QED
    BY <1>8, <2>1, CommandEnds
<1>9. CASE Touch("command", t, row) /\ Goto("command", c)
  BY <1>1, <1>3, <1>5, <1>6, <1>9, TouchType, CtlSet DEF Typed
<1> QED
  BY <1>4, <1>8, <1>9

LEMMA CancelReturnsType == Typed /\ (CancelReturns \/ CancelFails) => Typed'
<1> SUFFICES ASSUME Typed, CancelReturns \/ CancelFails PROVE Typed'
  OBVIOUS
<1> DEFINE t == ctl["command"].task
           n == C.rows[t].run
           a == cloud[t][n]
<1>1. t \in Names
  BY DEF CancelReturns, CancelFails, CommandAt, AtHand, Typed, CtlOK, Procs
<1>2. Grows
  <2>1. CASE CancelReturns
    <3>1. UNCHANGED cloud \/ Replace(t, n, [cloud[t][n] EXCEPT !.phase = "cancelled"])
      BY <2>1 DEF CancelReturns
    <3> QED
      BY <1>1, <3>1, SameCloud, AgentChanged DEF Ends, Typed
  <2>2. CASE CancelFails
    <3> DEFINE kill == ctl["command"].cmd # "cancel"
    <3>1. PICK landed \in BOOLEAN :
            Replace(t, n, [a EXCEPT
                !.phase = IF landed /\ a.phase = "live" THEN "cancelled" ELSE a.phase,
                !.lost = a.lost \/ kill])
      BY <2>2 DEF CancelFails
    <3> DEFINE b == [a EXCEPT
                !.phase = IF landed /\ a.phase = "live" THEN "cancelled" ELSE a.phase,
                !.lost = a.lost \/ kill]
    <3>2. n \in DOMAIN cloud[t] => a \in Agent
      BY <1>1, RowAt, CommandRow DEF Typed, CloudOK
    <3> HIDE DEF a
    <3>3. a \in Agent => b \in Agent
      BY DEF Agent, Ends
    <3>4. Replace(t, n, b)
      BY <3>1
    <3> HIDE DEF b
    <3> QED
      BY <1>1, <3>2, <3>3, <3>4, Replaced DEF Typed
  <2> QED
    BY <2>1, <2>2
<1>3. StatesOK' /\ CtlOK'
  <2>1. \/ \E status \in Statuses : NextVictim([C.rows[t] EXCEPT !.status = status])
        \/ EndCommand /\ UNCHANGED disk
    BY DEF CancelReturns, CancelFails, Statuses
  <2> QED
    BY <1>1, <1>2, <2>1, NextVictimType, CommandEnds
<1>4. WaitOK' /\ FilesOK' /\ WorldOK'
  <2>1. StillHeard("command") /\ "command" \in Procs
    BY DEF CancelReturns, CancelFails, Procs
  <2> QED
    BY <1>2, <2>1, WaitKept, FilesKept, WorldKept DEF CancelReturns, CancelFails, Typed
<1> QED
  BY <1>2, <1>3, <1>4, Together

-----------------------------------------------------------------------------
(* Crashes, plans, the cord, and the whole.                                *)

LEMMA LostPrompt ==
    ASSUME Typed, NEW p \in Procs, LosePrompt(p)
    PROVE  Grows
<1>1. ctl[p].pc = "send" => ctl[p].task \in Names
  BY DEF Typed, CtlOK, AtHand
<1> QED
  BY <1>1, SameCloud, AgentChanged DEF LosePrompt, Typed

LEMMA DiesType == Typed /\ (LoopDies \/ CommandDies) => Typed'
<1> SUFFICES ASSUME Typed, LoopDies \/ CommandDies PROVE Typed'
  OBVIOUS
<1>1. Grows
  BY LostPrompt DEF LoopDies, CommandDies, Procs
<1>2. CASE LoopDies
  <2>1. "loop" \in Procs /\ KnownIn(Empty, cloud')
    BY <1>1, EmptyKnown, StillKnown DEF Procs, Typed
  <2>2. StatesOK'
    BY <1>1, <1>2, <2>1, StatesSet DEF LoopDies, files, Typed
  <2>3. CtlOK'
    BY <1>1, <1>2, <2>1, IdleType, CtlSet DEF LoopDies, Goto, Typed
  <2>4. WaitOK'
    BY <1>2, WaitNone DEF LoopDies
  <2>5. FilesOK' /\ WorldOK'
    BY <1>2, FilesKept DEF LoopDies, files, Typed, WorldOK
  <2> QED
    BY <1>1, <2>2, <2>3, <2>4, <2>5, Together
<1>3. CASE CommandDies
  <2>1. StatesOK' /\ CtlOK'
    BY <1>1, <1>3, CommandEnds DEF CommandDies, files
  <2>2. WaitOK' /\ FilesOK' /\ WorldOK'
    BY <1>1, <1>3, WaitKept, FilesKept, WorldKept DEF CommandDies, files, Typed
  <2> QED
    BY <1>1, <2>1, <2>2, Together
<1> QED
  BY <1>2, <1>3

LEMMA OutsideType ==
    Typed /\ ((\E p \in Plans : EditPlan(p)) \/ PullCord \/ ReleaseCord) => Typed'
<1> SUFFICES ASSUME Typed, (\E p \in Plans : EditPlan(p)) \/ PullCord \/ ReleaseCord
             PROVE  Typed'
  OBVIOUS
<1>1. UNCHANGED <<cloud, files, procs>>
  BY DEF EditPlan, PullCord, ReleaseCord
<1>2. Grows
  BY <1>1, SameCloud DEF Typed
<1>3. StatesOK' /\ CtlOK' /\ WaitOK' /\ FilesOK'
  BY <1>1, <1>2, StatesKept, CtlKept, WaitKept, FilesKept DEF files, procs, Typed
<1>4. WorldOK'
  <2>1. UNCHANGED <<planned, exit>>
    BY <1>1 DEF procs
  <2>2. plan' \in Plans
    BY DEF EditPlan, PullCord, ReleaseCord, WorldOK, Typed
  <2>3. cord' \in BOOLEAN /\ heard' \in BOOLEAN
    BY DEF EditPlan, PullCord, ReleaseCord, WorldOK, Typed
  <2>4. spent' = spent \/ (spent < MaxEvents /\ spent' = spent + 1)
    BY DEF EditPlan, PullCord, ReleaseCord
  <2>5. spent' \in 0 .. MaxEvents
    BY <2>4, BoundsAssumption DEF WorldOK, Typed
  <2> QED
    BY <2>1, <2>2, <2>3, <2>5 DEF WorldOK, Typed
<1> QED
  BY <1>2, <1>3, <1>4, Together

LEMMA StutterType == Typed /\ UNCHANGED vars => Typed'
  BY DEF vars, files, procs, world, Typed, StatesOK, CtlOK, WaitOK, CloudOK, FilesOK, WorldOK,
         KnownIn, AtHand

LEMMA InitTyped == Init => Typed
<1> SUFFICES ASSUME Init PROVE Typed
  OBVIOUS
<1>1. CloudOK /\ \A t \in Names : Len(cloud[t]) = 0
  <2>1. <<>> \in Seq(Agent) /\ Len(<<>>) = 0
    OBVIOUS
  <2> QED
    BY <2>1 DEF Init, CloudOK
<1>2. StatesOK
  <2>1. KnownIn(Empty, cloud) /\ Empty \in State
    BY <1>1, EmptyKnown, EmptyType
  <2> QED
    BY <2>1 DEF Init, StatesOK
<1>3. CtlOK
  BY IdleType DEF Init, CtlOK
<1>4. WaitOK
  <2>1. NoWaiter \in Waiter /\ NoWaiter.pc = "none"
    BY DEF NoWaiter, Waiter, Branches
  <2> QED
    BY <2>1 DEF Init, WaitOK
<1>5. FilesOK
  BY DEF Init, FilesOK
<1>6. WorldOK
  <2>1. plan \in Plans /\ planned = NoPlan /\ cord = FALSE /\ heard = FALSE
        /\ exit = "none" /\ spent = 0
    BY DEF Init
  <2>2. spent \in 0 .. MaxEvents
    BY <2>1, BoundsAssumption
  <2> QED
    BY <2>1, <2>2 DEF WorldOK
<1> QED
  BY <1>1, <1>2, <1>3, <1>4, <1>5, <1>6 DEF Typed

(* No step leaves the types. *)
LEMMA NextTyped == Typed /\ [Next]_vars => Typed'
<1> SUFFICES ASSUME Typed, [Next]_vars PROVE Typed'
  OBVIOUS
<1>1. CASE Boot \/ LoopDies \/ PullCord \/ ReleaseCord \/ \E p \in Plans : EditPlan(p)
  BY <1>1, BootType, DiesType, OutsideType
<1>2. CASE Reconciling
  BY <1>2, RecoverFailsType, RecoverReturnsType, ScanType, RecoveredType, PollType,
     ScanEndsType, DecideType, SettleType DEF Reconciling
<1>3. CASE \E p \in Procs : Spawning(p) \/ RunStarts(p)
  BY <1>3, CreateFailsType, CreateReturnsType, BackoffEndsType, SendFailsType,
     SendReturnsType, RunStartsType DEF Spawning
<1>4. CASE \E t \in Names : Waiting(t)
  BY <1>4, WaitReturnsType, WaitReturnsErrorType, WaitThrowsType, ProbeSaysRunningType,
     ProbeSaysEndedType, ProbeFailsType, CommitHandoffType, FinishWaitType DEF Waiting
<1>5. CASE \E t \in Names : \E n \in DOMAIN cloud[t] :
        \E end \in {"finished", "error"}, branch \in Pushes[t] : RunEnds(t, n, end, branch)
  BY <1>5, RunEndsType
<1>6. CASE Operating
  BY <1>6, SpawnCommandType, CancelCommandType, StopTaskType, RespawnCommandType,
     KillCommandType, StopEndsType, CancelReturnsType, DiesType DEF Operating
<1>7. CASE UNCHANGED vars
  BY <1>7, StutterType
<1> QED
  BY <1>1, <1>2, <1>3, <1>4, <1>5, <1>6, <1>7 DEF Next

(* Whatever the plans, the commands and their overlap with a running loop:  *)
(* rows, agents, waits and files keep their shape.  Beyond TypeOK: a state  *)
(* names no run that was not created, a process in a spawn has a task and   *)
(* one that sends an agent, and a wait is for a run that exists.            *)
THEOREM TypeCorrect == Spec => []TypeOK
<1>1. Init => Typed
  BY InitTyped
<1>2. Typed /\ [Next]_vars => Typed'
  BY NextTyped
<1>3. Typed => TypeOK
  BY TypedTypeOK
<1> QED
  BY <1>1, <1>2, <1>3, PTL DEF Spec

-----------------------------------------------------------------------------
(* Every running row is watched.                                           *)

Watch == {"wait", "probe", "filed"}
Hand(c, t) == c.pc \in {"create", "send", "backoff"} /\ c.task = t

\* What the loop holds: running rows are watched, still to be recovered or in
\* hand; none is both watched and to be recovered; a row whose prompt is out is
\* running; a loop that is down waits for nothing.
Watching(rows, c, w) ==
    /\ c.pc # "off" => \A t \in Names :
        (rows[t].status = "running" /\ ~Hand(c, t)) <=>
            (w[t].pc \in Watch \/ (c.pc = "recover" /\ t \in c.todo))
    /\ c.pc = "recover" => \A t \in c.todo : w[t].pc \notin Watch
    /\ c.pc = "send" => rows[c.task].status = "running"
    /\ c.pc = "off" => \A t \in Names : w[t].pc = "none"

WatchingNow == Watching(L.rows, ctl["loop"], wait)

LEMMA WatchingMeans == Typed /\ WatchingNow => RunningIsWatched
<1> SUFFICES ASSUME Typed, WatchingNow, ctl["loop"].pc # "off"
             PROVE  With(L.rows, "running") \ {t \in Names : InHand("loop", t)} =
                      Watched \cup (IF LoopAt("recover") THEN ctl["loop"].todo ELSE {})
  BY DEF RunningIsWatched, LoopAt
<1>1. ctl["loop"].todo \subseteq Names
  BY LoopControl
<1>2. \A t \in Names : InHand("loop", t) <=> Hand(ctl["loop"], t)
  BY DEF InHand, Spawns, Hand
<1>3. \A t \in Names : (L.rows[t].status = "running" /\ ~InHand("loop", t)) <=>
            (wait[t].pc \in Watch \/ (LoopAt("recover") /\ t \in ctl["loop"].todo))
  BY <1>2 DEF WatchingNow, Watching, LoopAt
<1> QED
  BY <1>1, <1>3 DEF With, Watched, Watch

(* The first task of the file, of those in question, is one of them. *)
LEMMA FirstIn ==
    ASSUME NEW S \in SUBSET Names, S # {}
    PROVE  First(S) \in S
<1>1. \A t \in Names : Rank(t) \in Nat
  <2>1. ASSUME NEW t \in Names PROVE Rank(t) \in Nat
    <3>1. PICK i \in DOMAIN Order : Order[i] = t
      BY NamesAssumption
    <3>2. Rank(t) \in DOMAIN Order
      BY <3>1 DEF Rank
    <3>3. DOMAIN Order \subseteq Nat
      BY NamesAssumption
    <3> QED
      BY <3>2, <3>3
  <2> QED
    BY <2>1
<1> DEFINE ranks == {Rank(t) : t \in S}
<1>2. ranks # {} /\ ranks \subseteq Nat
  BY <1>1
<1> HIDE DEF ranks
<1>3. \E m \in ranks : \A n \in ranks : ~(<<n, m>> \in OpToRel(<, Nat))
  BY <1>2, NatLessThanWellFounded, WFMin
<1>4. PICK m \in ranks : \A n \in ranks : ~(n < m)
  BY <1>2, <1>3 DEF OpToRel
<1>5. PICK t \in S : Rank(t) = m
  BY <1>4 DEF ranks
<1>6. \A u \in S : Rank(t) <= Rank(u)
  <2>1. ASSUME NEW u \in S PROVE Rank(t) <= Rank(u)
    <3>1. Rank(u) \in ranks
      BY DEF ranks
    <3>2. ~(Rank(u) < Rank(t)) /\ Rank(u) \in Nat /\ Rank(t) \in Nat
      BY <1>1, <1>4, <1>5, <3>1
    <3> QED
      BY <3>2
  <2> QED
    BY <2>1
<1> QED
  BY <1>5, <1>6 DEF First

SameStatus == \A t \in Names : L'.rows[t].status = L.rows[t].status

LEMMA WatchingKept ==
    ASSUME Typed, WatchingNow, SameStatus, ctl'["loop"] = ctl["loop"],
           \A t \in Names : wait'[t].pc \in Watch <=> wait[t].pc \in Watch,
           \A t \in Names : wait[t].pc = "none" => wait'[t].pc = "none"
    PROVE  WatchingNow'
<1>1. /\ ctl["loop"].pc = "send" => ctl["loop"].task \in Names
      /\ ctl["loop"].todo \subseteq Names
  BY LoopControl DEF Typed, CtlOK, AtHand, Procs
<1> QED
  BY <1>1 DEF WatchingNow, Watching, SameStatus

(* A command changes its own memory and place, and leaves the loop alone. *)
LEMMA LoopAlone ==
    ASSUME Typed, WatchingNow, UNCHANGED wait,
           UNCHANGED mem \/ \E s : mem' = [mem EXCEPT !["command"] = s],
           UNCHANGED ctl \/ \E c : ctl' = [ctl EXCEPT !["command"] = c]
    PROVE  WatchingNow'
<1>1. mem'["loop"] = mem["loop"] /\ ctl'["loop"] = ctl["loop"]
  BY DEF Typed, StatesOK, CtlOK, Procs
<1>2. SameStatus
  BY <1>1 DEF SameStatus, L
<1> QED
  BY <1>1, <1>2, WatchingKept

LEMMA CommandLeavesLoop ==
    ASSUME Typed, WatchingNow, Operating \/ Spawning("command") \/ \E p \in Procs : RunStarts(p)
    PROVE  WatchingNow'
<1>1. CASE Operating
  <2>1. UNCHANGED wait
    BY <1>1 DEF Operating, SpawnCommand, CancelCommand, StopTask, RespawnCommand, KillCommand,
       StopEnds, CancelReturns, CancelFails, CommandDies, StartCommand
  <2>2. UNCHANGED mem \/ \E s : mem' = [mem EXCEPT !["command"] = s]
    BY <1>1 DEF Operating, SpawnCommand, CancelCommand, StopTask, RespawnCommand, KillCommand,
       StopEnds, CancelReturns, CancelFails, CommandDies, EndsWith, GoesOn, Save, Touch,
       EndCommand, NextVictim
  <2>3. UNCHANGED ctl \/ \E c : ctl' = [ctl EXCEPT !["command"] = c]
    BY <1>1 DEF Operating, SpawnCommand, CancelCommand, StopTask, RespawnCommand, KillCommand,
       StopEnds, CancelReturns, CancelFails, CommandDies, EndsWith, GoesOn, Goto,
       EndCommand, NextVictim
  <2> QED
    BY <2>1, <2>2, <2>3, LoopAlone
<1>2. CASE Spawning("command")
  <2>1. UNCHANGED wait
    BY <1>2 DEF Spawning, CreateFails, CreateReturns, BackoffEnds, SendFails, SendReturns
  <2>2. UNCHANGED mem \/ \E s : mem' = [mem EXCEPT !["command"] = s]
    BY <1>2 DEF Spawning, CreateFails, CreateReturns, BackoffEnds, SendFails, SendReturns,
       AttemptFails, Attempt, Touch, Save, EndCommand
  <2>3. UNCHANGED ctl \/ \E c : ctl' = [ctl EXCEPT !["command"] = c]
    BY <1>2 DEF Spawning, CreateFails, CreateReturns, BackoffEnds, SendFails, SendReturns,
       AttemptFails, Attempt, Goto, EndCommand
  <2> QED
    BY <2>1, <2>2, <2>3, LoopAlone
<1>3. CASE \E p \in Procs : RunStarts(p)
  BY <1>3, LoopAlone DEF RunStarts, procs
<1> QED
  BY <1>1, <1>2, <1>3

LEMMA OutsideLeavesLoop ==
    ASSUME Typed, WatchingNow,
           \/ \E t \in Names : \E n \in DOMAIN cloud[t] :
                \E end \in {"finished", "error"}, branch \in Pushes[t] : RunEnds(t, n, end, branch)
           \/ (\E p \in Plans : EditPlan(p)) \/ PullCord \/ ReleaseCord
           \/ UNCHANGED vars
    PROVE  WatchingNow'
<1>1. UNCHANGED procs
  BY DEF RunEnds, EditPlan, PullCord, ReleaseCord, vars
<1> QED
  BY <1>1, LoopAlone DEF procs

(* The loop touches one row. *)
LEMMA TouchedStatus ==
    ASSUME Typed, NEW t \in Names, NEW row,
           mem' = [mem EXCEPT !["loop"] = [L EXCEPT !.rows[t] = row]]
    PROVE  L'.rows[t] = row /\ \A u \in Names \ {t} : L'.rows[u] = L.rows[u]
<1> DEFINE n == [L EXCEPT !.rows[t] = row]
<1>0. L \in State
  BY Awaited
<1>1. n.rows[t] = row /\ \A u \in Names \ {t} : n.rows[u] = L.rows[u]
  BY <1>0 DEF State
<1> HIDE DEF n
<1>2. mem' = [mem EXCEPT !["loop"] = n]
  BY DEF n
<1>3. mem'["loop"] = n
  BY <1>2 DEF Typed, StatesOK, Procs
<1>4. L' = n
  BY <1>3 DEF L
<1> QED
  BY <1>1, <1>4

LEMMA NothingTouched ==
    ASSUME Typed, UNCHANGED mem \/ Save("loop", L)
    PROVE  SameStatus
<1>1. mem'["loop"] = mem["loop"]
  BY DEF Save, L, Typed, StatesOK, Procs
<1> QED
  BY <1>1 DEF SameStatus, L

(* Waiting: a handoff on its way is still watched, a settled row neither    *)
(* runs nor is watched.                                                     *)
LEMMA HandoffWatched ==
    ASSUME Typed, WatchingNow, NEW t \in Names, NEW end, wait[t].pc \in Watch,
           WriteHandoff(t, end), UNCHANGED ctl
    PROVE  WatchingNow'
<1> DEFINE branch == ResolveRunBranch(t, wait[t].run)
           row == [L.rows[t] EXCEPT !.branch = branch]
<1>1. mem' = [mem EXCEPT !["loop"] = [L EXCEPT !.rows[t] = row]]
  BY DEF WriteHandoff, L
<1>2. wait' = [wait EXCEPT ![t] = [pc |-> "filed", run |-> wait[t].run, end |-> end, branch |-> branch]]
  BY DEF WriteHandoff
<1> HIDE DEF branch
<1>3. row.status = L.rows[t].status
  BY Awaited DEF Row
<1> HIDE DEF row
<1>4. L'.rows[t] = row /\ \A u \in Names \ {t} : L'.rows[u] = L.rows[u]
  BY <1>1, TouchedStatus
<1>5. SameStatus
  BY <1>3, <1>4 DEF SameStatus
<1>6. \A u \in Names : wait'[u].pc = IF u = t THEN "filed" ELSE wait[u].pc
  BY <1>2 DEF Typed, WaitOK
<1> QED
  BY <1>5, <1>6, WatchingKept DEF Watch

LEMMA SettledUnwatched ==
    ASSUME Typed, WatchingNow, NEW t \in Names, wait[t].pc \in Watch,
           L'.rows[t].status # "running", \A u \in Names \ {t} : L'.rows[u] = L.rows[u],
           UNCHANGED ctl,
           \A u \in Names : wait'[u].pc = IF u = t THEN "after" ELSE wait[u].pc
    PROVE  WatchingNow'
<1> DEFINE c == ctl["loop"]
<1>1. (c.pc = "send" => c.task \in Names) /\ c.todo \subseteq Names
  BY LoopControl DEF Typed, CtlOK, AtHand, Procs
<1>2. c.pc # "off" /\ ~Hand(c, t) /\ (c.pc = "recover" => t \notin c.todo)
  BY DEF WatchingNow, Watching, Watch
<1>3. c.pc = "send" => c.task # t
  BY <1>2 DEF Hand
<1> QED
  BY <1>1, <1>2, <1>3 DEF WatchingNow, Watching, Watch

LEMMA WaitingWatched == Typed /\ WatchingNow /\ (\E t \in Names : Waiting(t)) => WatchingNow'
<1> SUFFICES ASSUME Typed, WatchingNow, NEW t \in Names, Waiting(t) PROVE WatchingNow'
  OBVIOUS
<1>1. CASE WaitReturns(t) \/ ProbeSaysEnded(t) \/ ProbeFails(t)
  BY <1>1, HandoffWatched DEF WaitReturns, ProbeSaysEnded, ProbeFails, AtWait, Watch
<1>2. CASE WaitReturnsError(t) \/ ProbeSaysRunning(t)
  <2>1. UNCHANGED mem \/ Save("loop", L)
    BY <1>2 DEF WaitReturnsError, ProbeSaysRunning, LogAttention, L
  <2>2. wait[t].pc \in Watch /\ ctl'["loop"] = ctl["loop"]
    BY <1>2 DEF WaitReturnsError, ProbeSaysRunning, AtWait, Watch
  <2>3. \E pc \in {"wait", "probe"} : wait' = [wait EXCEPT ![t] = [wait[t] EXCEPT !.pc = pc]]
    BY <1>2 DEF WaitReturnsError, ProbeSaysRunning
  <2>4. PICK pc \in {"wait", "probe"} : wait' = [wait EXCEPT ![t] = [wait[t] EXCEPT !.pc = pc]]
    BY <2>3
  <2>5. \A u \in Names : wait'[u].pc = IF u = t THEN pc ELSE wait[u].pc
    BY <2>4 DEF Typed, WaitOK, Waiter
  <2>6. SameStatus
    BY <2>1, NothingTouched
  <2> QED
    BY <2>2, <2>5, <2>6, WatchingKept DEF Watch
<1>3. CASE WaitThrows(t)
  <2> DEFINE row == [L.rows[t] EXCEPT !.status = "error"]
             w == [wait[t] EXCEPT !.pc = "after", !.end = "error"]
  <2>1. mem' = [mem EXCEPT !["loop"] = [L EXCEPT !.rows[t] = row]] /\ wait' = [wait EXCEPT ![t] = w]
    BY <1>3 DEF WaitThrows, Touch, Save, L
  <2>2. row \in Row /\ row.status = "error"
    BY Awaited DEF Row, Statuses
  <2>3. w.pc = "after"
    BY Awaited DEF Waiter
  <2> HIDE DEF row, w
  <2>4. L'.rows[t] = row /\ \A u \in Names \ {t} : L'.rows[u] = L.rows[u]
    BY <2>1, <2>2, TouchedStatus
  <2>5. \A u \in Names : wait'[u].pc = IF u = t THEN "after" ELSE wait[u].pc
    BY <2>1, <2>3 DEF Typed, WaitOK
  <2> QED
    BY <1>3, <2>2, <2>4, <2>5, SettledUnwatched DEF WaitThrows, Watch
<1>4. CASE CommitHandoff(t)
  <2> DEFINE status == IF wait[t].end = "finished" THEN "handed-off" ELSE "error"
             row == [L.rows[t] EXCEPT !.status = status, !.branch = wait[t].branch, !.path = TRUE]
             w == [wait[t] EXCEPT !.pc = "after"]
  <2>1. mem' = [mem EXCEPT !["loop"] = [L EXCEPT !.rows[t] = row]] /\ wait' = [wait EXCEPT ![t] = w]
    BY <1>4 DEF CommitHandoff, Touch, Save, L
  <2>2. row \in Row /\ row.status # "running"
    <3>1. wait[t].branch \in Branches
      BY Awaited DEF Waiter
    <3>2. status \in Statuses /\ status # "running"
      BY DEF Statuses
    <3> HIDE DEF status
    <3>3. L.rows[t] \in Row
      BY Awaited
    <3>4. row \in Row
      BY <3>1, <3>2, <3>3, SettledRow
    <3>5. row.status = status
      BY <3>3 DEF Row
    <3> QED
      BY <3>2, <3>4, <3>5
  <2>3. w.pc = "after"
    BY Awaited DEF Waiter
  <2> HIDE DEF row, w
  <2>4. L'.rows[t] = row /\ \A u \in Names \ {t} : L'.rows[u] = L.rows[u]
    BY <2>1, <2>2, TouchedStatus
  <2>5. \A u \in Names : wait'[u].pc = IF u = t THEN "after" ELSE wait[u].pc
    BY <2>1, <2>3 DEF Typed, WaitOK
  <2> QED
    BY <1>4, <2>2, <2>4, <2>5, SettledUnwatched DEF CommitHandoff, Watch
<1>5. CASE FinishWait(t)
  <2> DEFINE refs == ReconcileVerifierRefs(L.rows, planned, {t})
             rows == IF wait[t].end = "finished" THEN refs ELSE L.rows
             s == [L EXCEPT !.rows = rows]
  <2>1. Save("loop", s) \/ UNCHANGED mem
    BY <1>5 DEF FinishWait, Measured
  <2>2. L \in State /\ L.rows \in [Names -> Row]
    BY Awaited DEF State
  <2>3. rows \in [Names -> Row] /\ \A u \in Names : rows[u].status = L.rows[u].status
    BY <2>2, VerifierRefsType
  <2> HIDE DEF rows
  <2>4. s.rows = rows
    BY <2>2, <2>3, RowsChanged
  <2> HIDE DEF s
  <2>5. L' = s \/ L' = L
    BY <2>1 DEF Save, L, Typed, StatesOK, Procs
  <2>6. SameStatus
    BY <2>3, <2>4, <2>5 DEF SameStatus
  <2>7. wait[t].pc = "after" /\ ctl'["loop"] = ctl["loop"]
    BY <1>5 DEF FinishWait, AtWait
  <2>8. \A u \in Names : wait'[u].pc = IF u = t THEN "none" ELSE wait[u].pc
    BY <1>5 DEF FinishWait, NoWaiter, Typed, WaitOK
  <2> QED
    BY <2>6, <2>7, <2>8, WatchingKept DEF Watch
<1> QED
  BY <1>1, <1>2, <1>3, <1>4, <1>5 DEF Waiting

(* Spawning: the task in hand is not watched, and is watched when its ids   *)
(* are recorded.                                                            *)
LEMMA AttemptStatus ==
    ASSUME Typed, NEW t \in Names, NEW row \in Row, NEW c, Attempt("loop", t, row, c)
    PROVE  L'.rows[t].status = row.status /\ \A u \in Names \ {t} : L'.rows[u] = L.rows[u]
<1> DEFINE ref == StartingRefForTask([mem["loop"].rows EXCEPT ![t] = row], t)
           sent == [row EXCEPT !.startingRef = ref]
<1>1. \E r \in {row, sent} : mem' = [mem EXCEPT !["loop"] = [L EXCEPT !.rows[t] = r]]
  BY DEF Attempt, Touch, Save, L
<1>2. sent.status = row.status
  BY DEF Row
<1> HIDE DEF sent
<1>3. PICK r \in {row, sent} : mem' = [mem EXCEPT !["loop"] = [L EXCEPT !.rows[t] = r]]
  BY <1>1
<1>4. L'.rows[t] = r /\ \A u \in Names \ {t} : L'.rows[u] = L.rows[u]
  BY <1>3, TouchedStatus
<1> QED
  BY <1>2, <1>4

LEMMA AttemptFailsWatched ==
    ASSUME Typed, WatchingNow, ctl["loop"].pc \in {"create", "send"}, NEW row \in Row,
           AttemptFails("loop", row), UNCHANGED wait
    PROVE  WatchingNow'
<1> DEFINE c == ctl["loop"]
           t == ctl["loop"].task
           error == [row EXCEPT !.status = "error"]
           back == [ctl["loop"] EXCEPT !.pc = "backoff", !.agent = 0]
           scan == [ctl["loop"] EXCEPT !.pc = "scan", !.task = NoTask, !.try = 0, !.agent = 0]
<1>1. t \in Names /\ c \in Control
  BY DEF Typed, CtlOK, AtHand, Procs
<1>2. error.status = "error"
  BY DEF Row
<1>3. back.pc = "backoff" /\ back.task = t /\ scan.pc = "scan"
  BY <1>1 DEF Control
<1> HIDE DEF error
<1>4. \/ /\ mem' = [mem EXCEPT !["loop"] = [L EXCEPT !.rows[t] = row]]
         /\ ctl' = [ctl EXCEPT !["loop"] = back]
      \/ /\ mem' = [mem EXCEPT !["loop"] = [L EXCEPT !.rows[t] = error]]
         /\ ctl' = [ctl EXCEPT !["loop"] = scan]
  BY DEF AttemptFails, Touch, Save, Goto, L, error
<1> HIDE DEF back, scan
<1>5. CASE /\ mem' = [mem EXCEPT !["loop"] = [L EXCEPT !.rows[t] = row]]
           /\ ctl' = [ctl EXCEPT !["loop"] = back]
  <2>1. L'.rows[t] = row /\ \A u \in Names \ {t} : L'.rows[u] = L.rows[u]
    BY <1>1, <1>5, TouchedStatus
  <2>2. ctl'["loop"] = back
    BY <1>5 DEF Typed, CtlOK, Procs
  <2> QED
    BY <1>1, <1>3, <2>1, <2>2 DEF WatchingNow, Watching, Hand
<1>6. CASE /\ mem' = [mem EXCEPT !["loop"] = [L EXCEPT !.rows[t] = error]]
           /\ ctl' = [ctl EXCEPT !["loop"] = scan]
  <2>1. L'.rows[t] = error /\ \A u \in Names \ {t} : L'.rows[u] = L.rows[u]
    BY <1>1, <1>6, TouchedStatus
  <2>2. ctl'["loop"] = scan
    BY <1>6 DEF Typed, CtlOK, Procs
  <2> QED
    BY <1>1, <1>2, <1>3, <2>1, <2>2 DEF WatchingNow, Watching, Hand
<1> QED
  BY <1>4, <1>5, <1>6

LEMMA SpawningWatched == Typed /\ WatchingNow /\ Spawning("loop") => WatchingNow'
<1> SUFFICES ASSUME Typed, WatchingNow, Spawning("loop") PROVE WatchingNow'
  OBVIOUS
<1> DEFINE c == ctl["loop"]
           t == ctl["loop"].task
<1>1. c \in Control /\ c.pc \in {"create", "send", "backoff"} /\ t \in Names /\ mem["loop"].rows[t] \in Row
      /\ L = mem["loop"]
  <2>1. c.pc \in {"create", "send", "backoff"}
    BY DEF Spawning, CreateFails, CreateReturns, BackoffEnds, SendFails, SendReturns
  <2>2. c \in Control /\ t \in Names
    BY <2>1 DEF Typed, CtlOK, AtHand, Procs
  <2> QED
    BY <2>1, <2>2, Awaited DEF L
<1>2. CASE CreateFails("loop") \/ SendFails("loop")
  BY <1>1, <1>2, AttemptFailsWatched DEF CreateFails, SendFails
<1>3. CASE CreateReturns("loop")
  <2> DEFINE row == [mem["loop"].rows[t] EXCEPT !.status = "running", !.run = 0]
             send == [ctl["loop"] EXCEPT !.pc = "send", !.agent = Len(cloud[t]) + 1]
  <2>1. row \in Row /\ row.status = "running"
    BY <1>1 DEF Row, Statuses
  <2>2. send.pc = "send" /\ send.task = t
    BY <1>1 DEF Control
  <2>3. UNCHANGED wait /\ c.pc = "create"
        /\ \/ AttemptFails("loop", row)
           \/ /\ mem' = [mem EXCEPT !["loop"] = [L EXCEPT !.rows[t] = row]]
              /\ ctl' = [ctl EXCEPT !["loop"] = send]
    BY <1>3 DEF CreateReturns, Touch, Save, Goto, L
  <2> HIDE DEF row, send
  <2>4. CASE AttemptFails("loop", row)
    BY <2>1, <2>3, <2>4, AttemptFailsWatched
  <2>5. CASE /\ mem' = [mem EXCEPT !["loop"] = [L EXCEPT !.rows[t] = row]]
             /\ ctl' = [ctl EXCEPT !["loop"] = send]
    <3>1. L'.rows[t] = row /\ \A u \in Names \ {t} : L'.rows[u] = L.rows[u]
      BY <1>1, <2>5, TouchedStatus
    <3>2. ctl'["loop"] = send
      BY <2>5 DEF Typed, CtlOK, Procs
    <3> QED
      BY <1>1, <2>1, <2>2, <2>3, <3>1, <3>2 DEF WatchingNow, Watching, Hand
  <2> QED
    BY <2>3, <2>4, <2>5
<1>4. CASE BackoffEnds("loop")
  <2> DEFINE create == [ctl["loop"] EXCEPT !.pc = "create", !.task = t, !.try = ctl["loop"].try + 1]
  <2>1. Attempt("loop", t, mem["loop"].rows[t], c) /\ UNCHANGED wait /\ c.pc = "backoff"
    BY <1>4 DEF BackoffEnds
  <2>2. SameStatus
    BY <1>1, <2>1, AttemptStatus DEF SameStatus
  <2>3. create.pc = "create" /\ create.task = t
    BY <1>1 DEF Control
  <2>4. ctl' = [ctl EXCEPT !["loop"] = create]
    BY <2>1 DEF Attempt, Goto
  <2> HIDE DEF create
  <2>5. ctl'["loop"] = create
    BY <2>4 DEF Typed, CtlOK, Procs
  <2> QED
    BY <1>1, <2>1, <2>2, <2>3, <2>5 DEF WatchingNow, Watching, Hand, SameStatus
<1>5. CASE SendReturns("loop")
  <2> DEFINE row == [mem["loop"].rows[t] EXCEPT !.run = ctl["loop"].agent]
             scan == [ctl["loop"] EXCEPT !.pc = "scan", !.task = NoTask, !.try = 0, !.agent = 0]
             w == [NoWaiter EXCEPT !.pc = "wait", !.run = ctl["loop"].agent]
  <2>1. /\ mem' = [mem EXCEPT !["loop"] = [L EXCEPT !.rows[t] = row]]
        /\ ctl' = [ctl EXCEPT !["loop"] = scan]
        /\ wait' = [wait EXCEPT ![t] = w]
        /\ c.pc = "send"
    BY <1>5 DEF SendReturns, Goto, L
  <2>2. row.status = mem["loop"].rows[t].status
    BY <1>1 DEF Row
  <2>3. scan.pc = "scan" /\ w.pc = "wait"
    BY <1>1 DEF Control, NoWaiter
  <2> HIDE DEF row, scan, w
  <2>4. L'.rows[t] = row /\ \A u \in Names \ {t} : L'.rows[u] = L.rows[u]
    BY <1>1, <2>1, TouchedStatus
  <2>5. ctl'["loop"] = scan /\ \A u \in Names : wait'[u].pc = IF u = t THEN "wait" ELSE wait[u].pc
    BY <2>1, <2>3 DEF Typed, CtlOK, WaitOK, Procs
  <2> QED
    BY <1>1, <2>1, <2>2, <2>3, <2>4, <2>5 DEF WatchingNow, Watching, Hand, Watch
<1> QED
  BY <1>2, <1>3, <1>4, <1>5 DEF Spawning

(* The loop's own steps.                                                    *)
LEMMA DownWatchesNothing ==
    ASSUME Typed, Exit("error") \/ Exit("checkpoint") \/ Exit("stuck") \/ Exit("done") \/ LoopDies
    PROVE  WatchingNow'
<1>1. ctl'["loop"] = Idle /\ wait' = [t \in Names |-> NoWaiter]
  BY DEF Exit, LoopDies, Typed, CtlOK, Procs
<1>2. Idle.pc = "off" /\ NoWaiter.pc = "none"
  BY DEF Idle, NoWaiter
<1> QED
  BY <1>1, <1>2 DEF WatchingNow, Watching

LEMMA BetweenTasks ==
    ASSUME Typed, WatchingNow, SameStatus, UNCHANGED wait,
           ctl["loop"].pc \in {"recover", "poll", "scan", "decide", "sleep", "settle"},
           ctl["loop"].pc = "recover" => ctl["loop"].todo = {},
           ctl'["loop"].pc \in {"poll", "scan", "decide", "sleep", "settle"}
    PROVE  WatchingNow'
  BY DEF WatchingNow, Watching, Hand, SameStatus

LEMMA BootWatches == Typed /\ WatchingNow /\ Boot => WatchingNow'
<1> SUFFICES ASSUME Typed, WatchingNow, Boot PROVE WatchingNow'
  OBVIOUS
<1> DEFINE state == Loaded(disk, plan)
           c == [Idle EXCEPT !.pc = "recover", !.cmd = "run",
                             !.todo = With(state.rows, "running"),
                             !.known = With(state.rows, "error")]
<1>1. mem' = [mem EXCEPT !["loop"] = state] /\ ctl' = [ctl EXCEPT !["loop"] = c] /\ UNCHANGED wait
  BY DEF Boot, Save, Goto
<1>2. c.pc = "recover" /\ c.todo = With(state.rows, "running")
  BY DEF Idle
<1> HIDE DEF c, state
<1>3. L' = state /\ ctl'["loop"] = c
  BY <1>1 DEF L, Typed, StatesOK, CtlOK, Procs
<1>4. \A t \in Names : wait[t].pc = "none"
  BY DEF Boot, LoopAt, WatchingNow, Watching
<1> QED
  BY <1>1, <1>2, <1>3, <1>4 DEF WatchingNow, Watching, Hand, With, Watch

LEMMA RecoverWatches ==
    Typed /\ WatchingNow /\ (\E t \in Names : RecoverFails(t) \/ RecoverReturns(t)) => WatchingNow'
<1> SUFFICES ASSUME Typed, WatchingNow, NEW t \in Names, RecoverFails(t) \/ RecoverReturns(t)
             PROVE  WatchingNow'
  OBVIOUS
<1> DEFINE c == ctl["loop"]
           less == [ctl["loop"] EXCEPT !.todo = ctl["loop"].todo \ {t}]
<1>1. c.pc = "recover" /\ t \in c.todo /\ c.todo \subseteq Names
  <2>1. c.pc = "recover" /\ c.todo # {} /\ t = First(c.todo)
    BY DEF RecoverFails, RecoverReturns, Recovering, LoopAt
  <2>2. c.todo \in SUBSET Names
    BY LoopControl
  <2> QED
    BY <2>1, <2>2, FirstIn
<1>2. less.pc = "recover" /\ less.todo = c.todo \ {t}
  BY <1>1, LoopControl DEF Control
<1>3. ctl' = [ctl EXCEPT !["loop"] = less]
  BY DEF RecoverFails, RecoverReturns, Goto
<1> HIDE DEF less
<1>4. ctl'["loop"] = less
  BY <1>3 DEF Typed, CtlOK, Procs
<1>5. wait[t].pc \notin Watch /\ L.rows[t].status = "running"
  BY <1>1 DEF WatchingNow, Watching
<1>6. CASE RecoverFails(t)
  <2> DEFINE row == [L.rows[t] EXCEPT !.status = "error"]
  <2>1. mem' = [mem EXCEPT !["loop"] = [L EXCEPT !.rows[t] = row]] /\ UNCHANGED wait
    BY <1>6 DEF RecoverFails, Touch, Save, L
  <2>2. row.status = "error"
    BY Awaited DEF Row
  <2> HIDE DEF row
  <2>3. L'.rows[t] = row /\ \A u \in Names \ {t} : L'.rows[u] = L.rows[u]
    BY <2>1, TouchedStatus
  <2> QED
    BY <1>1, <1>2, <1>4, <1>5, <2>1, <2>2, <2>3 DEF WatchingNow, Watching, Hand
<1>7. CASE RecoverReturns(t)
  <2>1. SameStatus
    BY <1>7, NothingTouched DEF RecoverReturns
  <2>2. \A u \in Names : wait'[u].pc = IF u = t THEN "wait" ELSE wait[u].pc
    BY <1>7 DEF RecoverReturns, NoWaiter, Typed, WaitOK
  <2> QED
    BY <1>1, <1>2, <1>4, <1>5, <2>1, <2>2 DEF WatchingNow, Watching, Hand, SameStatus, Watch
<1> QED
  BY <1>6, <1>7

LEMMA ScanWatches == Typed /\ WatchingNow /\ (\E t \in Names : Scan(t)) => WatchingNow'
<1> SUFFICES ASSUME Typed, WatchingNow, NEW t \in Names, Scan(t) PROVE WatchingNow'
  OBVIOUS
<1> DEFINE row == L.rows[t]
           error == [row EXCEPT !.status = "error"]
           next == [row EXCEPT !.attempts = row.attempts + 1]
           c == [ctl["loop"] EXCEPT !.todo = After(t)]
           create == [c EXCEPT !.pc = "create", !.task = t, !.try = c.try + 1]
<1>1. ctl["loop"].pc = "scan" /\ UNCHANGED wait /\ row \in Row
      /\ \/ Touch("loop", t, error) /\ Goto("loop", c)
         \/ Attempt("loop", t, next, c)
  BY Awaited DEF Scan, LoopAt
<1>2. row.status = "pending"
  <2>1. Ready \in SUBSET Names /\ Ready # {} /\ t = First(Ready)
    BY LoopControl DEF Ready, Scan
  <2>2. t \in Ready
    BY <2>1, FirstIn
  <2> QED
    BY <2>2 DEF Ready
<1>3. error.status = "error" /\ next \in Row /\ next.status = "pending"
  BY <1>1, <1>2 DEF Row
<1>4. c \in Control /\ c.pc = "scan"
  <2>1. After(t) \in SUBSET Names
    BY LoopControl DEF After
  <2> QED
    BY <1>1, <2>1, LoopControl
<1> HIDE DEF error, next, c
<1>5. create.pc = "create" /\ create.task = t
  BY <1>4 DEF Control
<1> HIDE DEF row
<1>6. CASE Touch("loop", t, error) /\ Goto("loop", c)
  <2>1. L'.rows[t] = error /\ \A u \in Names \ {t} : L'.rows[u] = L.rows[u]
    BY <1>6, TouchedStatus DEF Touch, Save, L
  <2>2. ctl'["loop"] = c
    BY <1>6 DEF Goto, Typed, CtlOK, Procs
  <2> QED
    BY <1>1, <1>2, <1>3, <1>4, <2>1, <2>2 DEF WatchingNow, Watching, Hand, row
<1>7. CASE Attempt("loop", t, next, c)
  <2>1. L'.rows[t].status = "pending" /\ \A u \in Names \ {t} : L'.rows[u] = L.rows[u]
    BY <1>3, <1>7, AttemptStatus
  <2>2. ctl' = [ctl EXCEPT !["loop"] = create]
    BY <1>7 DEF Attempt, Goto
  <2> HIDE DEF create
  <2>3. ctl'["loop"] = create
    BY <2>2 DEF Typed, CtlOK, Procs
  <2> QED
    BY <1>1, <1>2, <1>5, <2>1, <2>3 DEF WatchingNow, Watching, Hand, row
<1> QED
  BY <1>1, <1>6, <1>7

LEMMA ReconcilingWatches == Typed /\ WatchingNow /\ Reconciling => WatchingNow'
<1> SUFFICES ASSUME Typed, WatchingNow, Reconciling PROVE WatchingNow'
  OBVIOUS
<1> DEFINE c == ctl["loop"]
<1>1. CASE \E t \in Names : RecoverFails(t) \/ RecoverReturns(t)
  BY <1>1, RecoverWatches
<1>2. CASE \E t \in Names : Scan(t)
  BY <1>2, ScanWatches
<1>3. CASE \/ \E how \in {"error", "checkpoint", "stuck", "done"} :
              Exit(how)
  BY <1>3, DownWatchesNothing
<1>4. CASE /\ Recovered \/ Decide \/ Wake
           /\ ~\E how \in {"error", "checkpoint", "stuck", "done"} : Exit(how)
  <2>1. UNCHANGED <<mem, wait>> /\ c.pc \in {"recover", "decide", "sleep"}
        /\ (c.pc = "recover" => c.todo = {})
    BY <1>4 DEF Recovered, Decide, Wake, LoopAt
  <2>2. \E pc \in {"poll", "sleep", "settle"} : Goto("loop", [ctl["loop"] EXCEPT !.pc = pc])
    BY <1>4 DEF Recovered, Decide, Wake
  <2>3. PICK pc \in {"poll", "sleep", "settle"} : Goto("loop", [ctl["loop"] EXCEPT !.pc = pc])
    BY <2>2
  <2>4. ctl'["loop"].pc = pc
    BY <2>3, LoopControl DEF Goto, Typed, CtlOK, Procs
  <2>5. SameStatus
    BY <2>1, NothingTouched
  <2> QED
    BY <2>1, <2>4, <2>5, BetweenTasks
<1>5. CASE ScanEnds
  <2>1. Goto("loop", [ctl["loop"] EXCEPT !.pc = "decide", !.todo = {}])
    BY <1>5 DEF ScanEnds
  <2>2. ctl'["loop"].pc = "decide"
    BY <2>1, LoopControl DEF Goto, Typed, CtlOK, Procs
  <2>3. SameStatus /\ c.pc = "scan" /\ UNCHANGED wait
    BY <1>5, NothingTouched DEF ScanEnds, LoopAt
  <2> QED
    BY <2>2, <2>3, BetweenTasks
<1>6. CASE PollReturns \/ PollFails
  <2>1. \E andon : StartSweep(andon)
    BY <1>6 DEF PollReturns, PollFails
  <2>2. PICK d \in Control : d.pc \in {"decide", "scan"} /\ Goto("loop", d)
    BY <2>1, SweepStarts
  <2>3. ctl'["loop"].pc \in {"decide", "scan"}
    BY <2>2 DEF Goto, Typed, CtlOK, Procs
  <2>4. SameStatus
    <3>1. Save("loop", L) \/ UNCHANGED mem \/ Save("loop", [L EXCEPT !.andon = Snapshot])
      BY <1>6 DEF PollReturns, PollFails, LogAttention, L
    <3>2. CASE Save("loop", [L EXCEPT !.andon = Snapshot])
      <4>1. [L EXCEPT !.andon = Snapshot].rows = L.rows
        BY Awaited DEF State
      <4>2. L' = [L EXCEPT !.andon = Snapshot]
        BY <3>2 DEF Save, L, Typed, StatesOK, Procs
      <4> QED
        BY <4>1, <4>2 DEF SameStatus
    <3> QED
      BY <3>1, <3>2, NothingTouched
  <2>5. c.pc = "poll" /\ UNCHANGED wait
    BY <1>6 DEF PollReturns, PollFails, LoopAt
  <2> QED
    BY <2>3, <2>4, <2>5, BetweenTasks
<1>7. CASE Checkpoint \/ Settle
  <2>1. \E how \in {"error", "checkpoint", "stuck", "done"} : Exit(how)
    BY <1>7 DEF Checkpoint, Settle
  <2> QED
    BY <2>1, <1>3
<1> QED
  BY <1>1, <1>2, <1>3, <1>4, <1>5, <1>6, <1>7 DEF Reconciling

LEMMA NextWatching == Typed /\ WatchingNow /\ [Next]_vars => WatchingNow'
<1> SUFFICES ASSUME Typed, WatchingNow, [Next]_vars PROVE WatchingNow'
  BY NextTyped
<1>1. CASE Boot \/ LoopDies
  BY <1>1, BootWatches, DownWatchesNothing
<1>2. CASE Reconciling
  BY <1>2, ReconcilingWatches
<1>3. CASE \E p \in Procs : Spawning(p) \/ RunStarts(p)
  BY <1>3, SpawningWatched, CommandLeavesLoop DEF Procs
<1>4. CASE \E t \in Names : Waiting(t)
  BY <1>4, WaitingWatched
<1>5. CASE Operating
  BY <1>5, CommandLeavesLoop
<1>6. CASE \/ \E t \in Names : \E n \in DOMAIN cloud[t] :
              \E end \in {"finished", "error"}, branch \in Pushes[t] : RunEnds(t, n, end, branch)
           \/ (\E p \in Plans : EditPlan(p)) \/ PullCord \/ ReleaseCord
           \/ UNCHANGED vars
  BY <1>6, OutsideLeavesLoop
<1> QED
  BY <1>1, <1>2, <1>3, <1>4, <1>5, <1>6 DEF Next

(* A loop that is up, started at any moment over any file and however the   *)
(* operators' commands overlap with it, has an eye on exactly the rows it   *)
(* holds as running (recoverRunning, spawnTask, waitAndHandoff).            *)
THEOREM EveryRunWatched == Spec => []RunningIsWatched
<1>1. Init => Typed /\ WatchingNow
  <2>1. Idle.pc = "off" /\ NoWaiter.pc = "none" /\ "loop" \in Procs
    BY DEF Idle, NoWaiter, Procs
  <2>2. Init => WatchingNow
    BY <2>1 DEF Init, WatchingNow, Watching
  <2> QED
    BY <2>2, InitTyped
<1>2. Typed /\ WatchingNow /\ [Next]_vars => Typed' /\ WatchingNow'
  BY NextTyped, NextWatching
<1>3. Typed /\ WatchingNow => RunningIsWatched
  BY WatchingMeans
<1> QED
  BY <1>1, <1>2, <1>3, PTL DEF Spec

-----------------------------------------------------------------------------
(* The cord, over any overlap of commands and loop.                        *)

Quiet == {"off", "recover", "poll", "decide", "sleep", "settle"}

\* Once the cord is heard, state.json and a loop that is up say so, and the loop
\* is nowhere near a spawn.
CordInv ==
    heard => /\ disk.andon = TRUE
             /\ ctl["loop"].pc \in Quiet
             /\ ctl["loop"].pc # "off" => mem["loop"].andon = TRUE

\* A process that is up puts at most what it holds of the cord in the file, and
\* holds the same afterwards.
Keeps(p) ==
    /\ ctl[p].pc # "off"
    /\ \A q \in Procs \ {p} : ctl'[q] = ctl[q] /\ mem'[q] = mem[q]
    /\ disk' = disk \/ disk'.andon = mem[p].andon
    /\ ctl'[p].pc = "off" \/ mem'[p].andon = mem[p].andon
    /\ StillHeard(p)

LEMMA KeepsCord ==
    ASSUME Typed, CordInv, NEW p \in Procs, Keeps(p), heard => ctl'["loop"].pc \in Quiet
    PROVE  CordInv'
<1>1. heard' => heard
  BY DEF Keeps, StillHeard
<1>2. CASE p = "loop"
  BY <1>1, <1>2 DEF CordInv, Keeps
<1>3. CASE p = "command"
  <2>1. /\ ctl'["loop"] = ctl["loop"] /\ mem'["loop"] = mem["loop"]
        /\ heard' /\ disk.andon => disk'.andon
    BY <1>3 DEF Keeps, StillHeard, Procs
  <2>2. disk'.andon = disk.andon \/ disk'.andon = mem[p].andon
    BY DEF Keeps
  <2>3. disk'.andon \in BOOLEAN
    <3>1. disk \in State /\ mem[p] \in State
      BY DEF Typed, StatesOK, KnownIn
    <3>2. disk.andon \in BOOLEAN /\ mem[p].andon \in BOOLEAN
      BY <3>1 DEF State
    <3> QED
      BY <2>2, <3>2
  <2> QED
    BY <1>1, <2>1, <2>3 DEF CordInv
<1> QED
  BY <1>2, <1>3 DEF Procs

(* Rows say nothing of the cord. *)
LEMMA RowsNoCord ==
    ASSUME NEW s \in State, NEW rows
    PROVE  [s EXCEPT !.rows = rows].andon = s.andon
  BY DEF State

LEMMA SaveKeeps ==
    ASSUME Typed, NEW p \in Procs, NEW s, s.andon = mem[p].andon, Save(p, s)
    PROVE  /\ disk'.andon = mem[p].andon /\ mem'[p].andon = mem[p].andon
           /\ \A q \in Procs \ {p} : mem'[q] = mem[q]
<1>1. disk' = s /\ mem' = [mem EXCEPT ![p] = s]
  BY DEF Save
<1> QED
  BY <1>1 DEF Typed, StatesOK

LEMMA TouchKeeps ==
    ASSUME Typed, NEW p \in Procs, NEW t, NEW row, Touch(p, t, row)
    PROVE  /\ disk'.andon = mem[p].andon /\ mem'[p].andon = mem[p].andon
           /\ \A q \in Procs \ {p} : mem'[q] = mem[q]
<1> DEFINE s == [mem[p] EXCEPT !.rows[t] = row]
<1>1. mem[p] \in State
  BY DEF Typed, StatesOK
<1>2. s.andon = mem[p].andon
  BY <1>1 DEF State
<1>3. Save(p, s)
  BY DEF Touch
<1> HIDE DEF s
<1> QED
  BY <1>2, <1>3, SaveKeeps

LEMMA OthersStay ==
    ASSUME Typed, NEW p \in Procs
    PROVE  /\ \A c : Goto(p, c) => ctl'[p] = c /\ \A q \in Procs \ {p} : ctl'[q] = ctl[q]
           /\ UNCHANGED ctl => \A q \in Procs : ctl'[q] = ctl[q]
           /\ UNCHANGED mem => \A q \in Procs : mem'[q] = mem[q]
           /\ Idle.pc = "off"
  BY DEF Goto, Typed, CtlOK, Idle

LEMMA EndKeeps ==
    ASSUME Typed, ctl["command"].pc # "off", EndCommand, StillHeard("command"),
           disk' = disk \/ disk'.andon = C.andon
    PROVE  Keeps("command") /\ ctl'["loop"] = ctl["loop"]
<1>1. ctl'["command"] = Idle /\ ctl'["loop"] = ctl["loop"] /\ mem'["loop"] = mem["loop"]
  BY DEF EndCommand, Typed, CtlOK, StatesOK, Procs
<1> QED
  BY <1>1 DEF Keeps, Procs, Idle, C

(* Spawning: no cord is heard, or it is a command that spawns. *)
LEMMA AttemptKeeps ==
    ASSUME Typed, NEW p \in Procs, NEW t, NEW row, NEW c, Attempt(p, t, row, c),
           ctl[p].pc # "off", StillHeard(p)
    PROVE  Keeps(p)
<1>1. \E r : Touch(p, t, r)
  BY DEF Attempt
<1>2. \E d : Goto(p, d)
  BY DEF Attempt
<1> QED
  BY <1>1, <1>2, TouchKeeps, OthersStay DEF Keeps

LEMMA AttemptFailsKeeps ==
    ASSUME Typed, NEW p \in Procs, NEW row, AttemptFails(p, row),
           ctl[p].pc # "off", StillHeard(p)
    PROVE  Keeps(p)
<1> DEFINE s == [mem[p] EXCEPT !.rows[ctl[p].task] = [row EXCEPT !.status = "error"]]
<1>1. mem[p] \in State
  BY DEF Typed, StatesOK
<1>2. s.andon = mem[p].andon
  BY <1>1 DEF State
<1>3. \/ Touch(p, ctl[p].task, row) /\ \E d : Goto(p, d)
      \/ Save(p, s) /\ \E d : Goto(p, d)
      \/ p # "loop" /\ disk' = s /\ EndCommand
  BY DEF AttemptFails, Save
<1> HIDE DEF s
<1>4. CASE Touch(p, ctl[p].task, row) /\ \E d : Goto(p, d)
  BY <1>4, TouchKeeps, OthersStay DEF Keeps
<1>5. CASE Save(p, s) /\ \E d : Goto(p, d)
  BY <1>2, <1>5, SaveKeeps, OthersStay DEF Keeps
<1>6. CASE p # "loop" /\ disk' = s /\ EndCommand
  BY <1>2, <1>6, EndKeeps DEF Procs, C
<1> QED
  BY <1>3, <1>4, <1>5, <1>6

LEMMA SpawningKeeps ==
    ASSUME Typed, NEW p \in Procs, Spawning(p)
    PROVE  Keeps(p)
<1>1. ctl[p].pc # "off" /\ StillHeard(p)
  BY DEF Spawning, CreateFails, CreateReturns, BackoffEnds, SendFails, SendReturns, world
<1>2. CASE CreateFails(p) \/ SendFails(p)
  BY <1>1, <1>2, AttemptFailsKeeps DEF CreateFails, SendFails
<1>3. CASE CreateReturns(p)
  <2>1. \/ \E row : AttemptFails(p, row)
        \/ (\E t, row : Touch(p, t, row)) /\ (\E c : Goto(p, c))
    BY <1>3 DEF CreateReturns
  <2> QED
    BY <1>1, <2>1, AttemptFailsKeeps, TouchKeeps, OthersStay DEF Keeps
<1>4. CASE BackoffEnds(p)
  BY <1>1, <1>4, AttemptKeeps DEF BackoffEnds
<1>5. CASE SendReturns(p)
  <2> DEFINE t == ctl[p].task
             row == [mem[p].rows[t] EXCEPT !.run = ctl[p].agent]
             s == [mem[p] EXCEPT !.rows[t] = row]
  <2>1. mem[p] \in State
    BY DEF Typed, StatesOK
  <2>2. s.andon = mem[p].andon
    BY <2>1 DEF State
  <2>3. /\ disk' = s
        /\ \/ mem' = [mem EXCEPT ![p] = disk'] /\ \E c : Goto(p, c)
           \/ p # "loop" /\ EndCommand
    BY <1>5 DEF SendReturns
  <2> HIDE DEF s
  <2>4. CASE mem' = [mem EXCEPT ![p] = disk'] /\ \E c : Goto(p, c)
    <3>1. Save(p, s)
      BY <2>3, <2>4 DEF Save
    <3> QED
      BY <1>1, <2>2, <2>4, <3>1, SaveKeeps, OthersStay DEF Keeps
  <2>5. CASE p # "loop" /\ EndCommand
    BY <1>1, <2>2, <2>3, <2>5, EndKeeps DEF Procs, C
  <2> QED
    BY <2>3, <2>4, <2>5
<1> QED
  BY <1>2, <1>3, <1>4, <1>5 DEF Spawning

(* What the loop does but polling leaves the history alone. *)
LEMMA LoopStillHears ==
    ASSUME Typed, UNCHANGED heard
    PROVE  StillHeard("loop")
  BY DEF Typed, WorldOK, StillHeard

LEMMA HandoffKeeps ==
    ASSUME Typed, ctl["loop"].pc # "off", NEW t \in Names, NEW end, WriteHandoff(t, end),
           disk' = disk \/ disk' = L, UNCHANGED <<ctl, heard>>
    PROVE  Keeps("loop")
<1> DEFINE row == [L.rows[t] EXCEPT !.branch = ResolveRunBranch(t, wait[t].run)]
           s == [L EXCEPT !.rows[t] = row]
<1>1. L \in State /\ "loop" \in Procs
  BY Awaited
<1>2. s.andon = L.andon
  BY <1>1 DEF State
<1>3. mem' = [mem EXCEPT !["loop"] = s]
  BY DEF WriteHandoff, L
<1> HIDE DEF s
<1>4. mem'["loop"] = s /\ \A q \in Procs \ {"loop"} : mem'[q] = mem[q]
  BY <1>1, <1>3 DEF Typed, StatesOK
<1> QED
  BY <1>2, <1>4, LoopStillHears DEF Keeps, L

LEMMA WaitingKeeps ==
    ASSUME Typed, WatchingNow, NEW t \in Names, Waiting(t)
    PROVE  Keeps("loop") /\ ctl' = ctl
<1>1. ctl["loop"].pc # "off"
  BY DEF Waiting, WaitReturns, WaitReturnsError, WaitThrows, ProbeSaysRunning, ProbeSaysEnded,
     ProbeFails, CommitHandoff, FinishWait, AtWait, WatchingNow, Watching
<1>2. ctl' = ctl /\ heard' = heard /\ StillHeard("loop") /\ "loop" \in Procs
  BY LoopStillHears DEF Waiting, WaitReturns, WaitReturnsError, WaitThrows, ProbeSaysRunning, ProbeSaysEnded,
     ProbeFails, CommitHandoff, FinishWait, world, Procs
<1>3. CASE WaitReturns(t) \/ ProbeSaysEnded(t) \/ ProbeFails(t)
  BY <1>1, <1>2, <1>3, HandoffKeeps DEF WaitReturns, ProbeSaysEnded, ProbeFails
<1>4. CASE WaitReturnsError(t)
  BY <1>1, <1>2, <1>4, OthersStay DEF WaitReturnsError, files, Keeps
<1>5. CASE WaitThrows(t) \/ CommitHandoff(t)
  <2>1. \E row : Touch("loop", t, row)
    BY <1>5 DEF WaitThrows, CommitHandoff
  <2> QED
    BY <1>1, <1>2, <2>1, TouchKeeps, OthersStay DEF Keeps
<1>6. CASE ProbeSaysRunning(t)
  BY <1>1, <1>2, <1>6, SaveKeeps, OthersStay DEF ProbeSaysRunning, LogAttention, Keeps
<1>7. CASE FinishWait(t)
  <2>1. \/ \E rows : Save("loop", [L EXCEPT !.rows = rows])
        \/ UNCHANGED <<mem, disk>>
    BY <1>7 DEF FinishWait, Measured
  <2>2. CASE UNCHANGED <<mem, disk>>
    BY <1>1, <1>2, <2>2, OthersStay DEF Keeps
  <2>3. CASE \E rows : Save("loop", [L EXCEPT !.rows = rows])
    <3>1. PICK rows : Save("loop", [L EXCEPT !.rows = rows])
      BY <2>3
    <3>2. [L EXCEPT !.rows = rows].andon = mem["loop"].andon
      BY Awaited, RowsNoCord DEF L
    <3> QED
      BY <1>1, <1>2, <3>1, <3>2, SaveKeeps, OthersStay DEF Keeps
  <2> QED
    BY <2>1, <2>2, <2>3
<1> QED
  BY <1>2, <1>3, <1>4, <1>5, <1>6, <1>7 DEF Waiting

LEMMA DownKeeps ==
    ASSUME Typed, ctl["loop"].pc # "off", UNCHANGED heard,
           disk' = disk \/ disk' = L,
           LoopDies \/ \E how : Exit(how)
    PROVE  Keeps("loop") /\ ctl'["loop"].pc = "off"
<1>1. /\ ctl' = [ctl EXCEPT !["loop"] = Idle] /\ mem' = [mem EXCEPT !["loop"] = Empty]
  BY DEF Exit, LoopDies
<1>2. /\ ctl'["loop"] = Idle /\ "loop" \in Procs
      /\ \A q \in Procs \ {"loop"} : ctl'[q] = ctl[q] /\ mem'[q] = mem[q]
  BY <1>1 DEF Typed, CtlOK, StatesOK, Procs
<1>3. Idle.pc = "off"
  BY DEF Idle
<1> QED
  BY <1>2, <1>3, LoopStillHears DEF Keeps, L

(* Every step of the loop but a poll that is answered. *)
LEMMA ReconcilingKeeps ==
    ASSUME Typed, CordInv, Reconciling, ~PollReturns
    PROVE  Keeps("loop") /\ (heard => ctl'["loop"].pc \in Quiet)
<1> DEFINE c == ctl["loop"]
<1>1. c.pc # "off" /\ heard' = heard /\ StillHeard("loop") /\ "loop" \in Procs
  BY LoopStillHears DEF Reconciling, RecoverFails, RecoverReturns, Recovering, Scan, Recovered, PollFails,
     ScanEnds, Decide, Checkpoint, Wake, Settle, LoopAt, world, Procs
<1>2. CASE \E t \in Names : RecoverFails(t) \/ RecoverReturns(t)
  <2>1. PICK t \in Names : RecoverFails(t) \/ RecoverReturns(t)
    BY <1>2
  <2>2. (\E row : Touch("loop", t, row)) \/ UNCHANGED <<mem, disk>>
    BY <2>1 DEF RecoverFails, RecoverReturns, files
  <2>3. Goto("loop", [ctl["loop"] EXCEPT !.todo = ctl["loop"].todo \ {t}]) /\ c.pc = "recover"
    BY <2>1 DEF RecoverFails, RecoverReturns, Recovering, LoopAt
  <2>4. ctl'["loop"].pc = "recover" /\ \A q \in Procs \ {"loop"} : ctl'[q] = ctl[q]
    <3>1. [ctl["loop"] EXCEPT !.todo = ctl["loop"].todo \ {t}].pc = c.pc
      BY LoopControl
    <3> QED
      BY <1>1, <2>3, <3>1, OthersStay
  <2> QED
    BY <1>1, <2>2, <2>4, TouchKeeps, OthersStay DEF Keeps, Quiet
<1>3. CASE \E t \in Names : Scan(t)
  <2>1. PICK t \in Names : Scan(t)
    BY <1>3
  <2>2. ~heard
    BY <2>1 DEF Scan, LoopAt, CordInv, Quiet
  <2>3. CASE \E row, d : Attempt("loop", t, row, d)
    BY <1>1, <2>2, <2>3, AttemptKeeps
  <2>4. CASE \E row, d : Touch("loop", t, row) /\ Goto("loop", d)
    BY <1>1, <2>2, <2>4, TouchKeeps, OthersStay DEF Keeps
  <2> QED
    BY <2>1, <2>3, <2>4 DEF Scan
<1>4. CASE (Recovered \/ Decide \/ Checkpoint \/ Settle) /\ \E how : Exit(how)
  <2>1. disk' = disk \/ disk' = L
    BY <1>4 DEF Recovered, Decide, Checkpoint, Settle
  <2> QED
    BY <1>1, <1>4, <2>1, DownKeeps DEF Quiet
<1>5. CASE Wake \/ ((Recovered \/ Decide) /\ ~\E how : Exit(how))
  <2>1. UNCHANGED <<mem, disk>>
    BY <1>5 DEF Recovered, Decide, Wake, files
  <2>2. \E pc \in {"poll", "sleep", "settle"} : Goto("loop", [ctl["loop"] EXCEPT !.pc = pc])
    BY <1>5 DEF Recovered, Decide, Wake
  <2>3. PICK pc \in {"poll", "sleep", "settle"} : Goto("loop", [ctl["loop"] EXCEPT !.pc = pc])
    BY <2>2
  <2>4. [ctl["loop"] EXCEPT !.pc = pc].pc = pc
    BY LoopControl
  <2>5. ctl'["loop"].pc = pc /\ \A q \in Procs \ {"loop"} : ctl'[q] = ctl[q]
    BY <1>1, <2>3, <2>4, OthersStay
  <2> QED
    BY <1>1, <2>1, <2>5, OthersStay DEF Keeps, Quiet
<1>6. CASE ScanEnds
  <2>1. ~heard /\ UNCHANGED <<mem, disk>>
    BY <1>6 DEF ScanEnds, LoopAt, CordInv, Quiet, files
  <2>2. \E d : Goto("loop", d)
    BY <1>6 DEF ScanEnds
  <2> QED
    BY <1>1, <2>1, <2>2, OthersStay DEF Keeps
<1>7. CASE PollFails
  <2>1. Save("loop", mem["loop"]) /\ StartSweep(L.andon)
    BY <1>7 DEF PollFails, LogAttention
  <2>2. PICK d \in Control : Goto("loop", d)
    BY <2>1, SweepStarts
  <2>3. Keeps("loop")
    BY <1>1, <2>1, <2>2, SaveKeeps, OthersStay DEF Keeps
  <2>4. ASSUME heard PROVE ctl'["loop"].pc \in Quiet
    <3>1. L.andon = TRUE
      BY <1>1, <2>4 DEF CordInv, L
    <3>2. Goto("loop", [ctl["loop"] EXCEPT !.pc = "decide", !.todo = {}])
      BY <2>1, <3>1 DEF StartSweep
    <3>3. [ctl["loop"] EXCEPT !.pc = "decide", !.todo = {}].pc = "decide"
      BY LoopControl
    <3> QED
      BY <1>1, <3>2, <3>3, OthersStay DEF Quiet
  <2> QED
    BY <2>3, <2>4
<1>8. CASE Checkpoint \/ Settle
  BY <1>4, <1>8 DEF Checkpoint, Settle
<1> QED
  BY <1>2, <1>3, <1>4, <1>5, <1>6, <1>7, <1>8 DEF Reconciling

LEMMA PollCord == Typed /\ CordInv /\ PollReturns => CordInv'
<1> SUFFICES ASSUME Typed, CordInv, PollReturns PROVE CordInv'
  OBVIOUS
<1> SUFFICES ASSUME heard' PROVE CordInv'
  BY DEF CordInv
<1>1. ctl["loop"].pc = "poll" /\ StartSweep(cord) /\ cord = TRUE /\ "loop" \in Procs
  BY DEF PollReturns, LoopAt, Snapshot, Typed, WorldOK, Procs
<1>2. L.andon = TRUE => disk.andon = TRUE
  BY DEF PollReturns, Typed, StatesOK, State
<1>3. disk'.andon = cord /\ mem'["loop"].andon = cord
  <2>1. CASE L.andon # cord
    <3> DEFINE s == [L EXCEPT !.andon = cord]
    <3>1. Save("loop", s)
      BY <2>1 DEF PollReturns, Snapshot
    <3>2. s.andon = cord
      BY Awaited DEF State
    <3> HIDE DEF s
    <3> QED
      BY <1>1, <3>1, <3>2 DEF Save, Typed, StatesOK
  <2>2. CASE L.andon = cord
    <3>1. Save("loop", mem["loop"]) \/ UNCHANGED <<mem, disk>>
      BY <2>2 DEF PollReturns, Snapshot, L
    <3> QED
      BY <1>1, <1>2, <2>2, <3>1, SaveKeeps DEF L
  <2> QED
    BY <2>1, <2>2
<1>4. ctl'["loop"].pc = "decide"
  <2>1. Goto("loop", [ctl["loop"] EXCEPT !.pc = "decide", !.todo = {}])
    BY <1>1 DEF StartSweep
  <2>2. [ctl["loop"] EXCEPT !.pc = "decide", !.todo = {}].pc = "decide"
    BY LoopControl
  <2> QED
    BY <1>1, <2>1, <2>2, OthersStay
<1> QED
  BY <1>1, <1>3, <1>4 DEF CordInv, Quiet

LEMMA BootCord ==
    ASSUME Typed, CordInv, Boot
    PROVE  CordInv'
<1> DEFINE state == Loaded(disk, plan)
<1>1. state.andon = disk.andon
  BY LoadedType DEF Typed, StatesOK, WorldOK
<1> HIDE DEF state
<1>2. disk' = state /\ mem' = [mem EXCEPT !["loop"] = state] /\ UNCHANGED heard
  BY DEF Boot, Save, state
<1>3. \E known, todo : Goto("loop", [Idle EXCEPT !.pc = "recover", !.cmd = "run",
                                                 !.todo = todo, !.known = known])
  BY DEF Boot
<1>4. PICK known, todo : Goto("loop", [Idle EXCEPT !.pc = "recover", !.cmd = "run",
                                                   !.todo = todo, !.known = known])
  BY <1>3
<1>5. [Idle EXCEPT !.pc = "recover", !.cmd = "run", !.todo = todo, !.known = known].pc = "recover"
  BY DEF Idle
<1>6. "loop" \in Procs
  BY DEF Procs
<1>7. ctl'["loop"].pc = "recover"
  BY <1>4, <1>5, <1>6, OthersStay
<1>8. mem'["loop"] = state
  BY <1>2, <1>6 DEF Typed, StatesOK
<1> QED
  BY <1>1, <1>2, <1>7, <1>8 DEF CordInv, Quiet

LEMMA BeginsCord ==
    ASSUME Typed, CordInv, NEW cmd, NEW t, StartCommand(cmd, t),
           NEW s, s.andon = disk.andon, EndsWith(s) \/ \E c : GoesOn(s, c)
    PROVE  CordInv'
<1>1. UNCHANGED heard
  BY DEF StartCommand
<1>2. CASE EndsWith(s)
  BY <1>1, <1>2 DEF EndsWith, CordInv
<1>3. CASE \E c : GoesOn(s, c)
  <2>1. PICK c : GoesOn(s, c)
    BY <1>3
  <2>2. disk' = s /\ mem' = [mem EXCEPT !["command"] = s] /\ ctl' = [ctl EXCEPT !["command"] = c]
    BY <2>1 DEF GoesOn, Save, Goto
  <2>3. mem'["loop"] = mem["loop"] /\ ctl'["loop"] = ctl["loop"]
    BY <2>2 DEF Typed, StatesOK, CtlOK, Procs
  <2> QED
    BY <1>1, <2>2, <2>3 DEF CordInv
<1> QED
  BY <1>2, <1>3

LEMMA CommandsCord ==
    ASSUME Typed, CordInv, Operating
    PROVE  CordInv'
<1>1. Found.andon = disk.andon /\ Found \in State
  BY LoadedType, FoundType DEF Found, Typed, StatesOK, WorldOK
<1>2. CASE \E t \in Names : SpawnCommand(t) \/ CancelCommand(t)
  <2>1. PICK t \in Names : SpawnCommand(t) \/ CancelCommand(t)
    BY <1>2
  <2>2. \E cmd, rows : /\ StartCommand(cmd, t)
                       /\ \/ EndsWith(Found)
                          \/ \E c : GoesOn(Found, c)
                          \/ \E c : GoesOn([Found EXCEPT !.rows = rows], c)
    BY <2>1 DEF SpawnCommand, CancelCommand
  <2> QED
    BY <1>1, <2>2, RowsNoCord, BeginsCord
<1>3. CASE \E t \in Names : \E cascade \in BOOLEAN : RespawnCommand(t, cascade)
  <2>1. PICK t \in Names, cascade \in BOOLEAN : RespawnCommand(t, cascade)
    BY <1>3
  <2>2. \E cmd, rows : /\ StartCommand(cmd, t)
                       /\ EndsWith(Found) \/ EndsWith([Found EXCEPT !.rows = rows])
    BY <2>1 DEF RespawnCommand
  <2> QED
    BY <1>1, <2>2, RowsNoCord, BeginsCord
<1>4. CASE \E t \in Names \cup {NoTask} : KillCommand(t)
  BY <1>1, <1>4, BeginsCord DEF KillCommand
<1>5. CASE (\E t \in Names : StopTask(t)) \/ StopEnds \/ CancelReturns \/ CancelFails \/ CommandDies
  <2>1. /\ ctl["command"].pc # "off" /\ "command" \in Procs
        /\ "loop" \in Procs \ {"command"}
    BY <1>5 DEF StopTask, StopEnds, CancelReturns, CancelFails, CommandDies, CommandAt, Procs
  <2>2. StillHeard("command")
    <3>1. CASE (\E t \in Names : StopTask(t)) \/ CancelReturns \/ CancelFails
      BY <3>1 DEF StopTask, CancelReturns, CancelFails
    <3>2. CASE StopEnds \/ CommandDies
      <4>1. UNCHANGED <<disk, heard>>
        BY <3>2 DEF StopEnds, CommandDies, files
      <4> QED
        BY <4>1 DEF Typed, WorldOK, StillHeard
    <3> QED
      BY <1>5, <3>1, <3>2
  <2>3. Keeps("command")
    <3>1. CASE \E t \in Names : StopTask(t)
      <4>1. PICK t \in Names : StopTask(t)
        BY <3>1
      <4>2. (\E row : Touch("command", t, row)) \/ UNCHANGED <<mem, disk>>
        BY <4>1 DEF StopTask
      <4>3. \E c : Goto("command", c)
        BY <4>1 DEF StopTask
      <4> QED
        BY <2>1, <2>2, <4>2, <4>3, TouchKeeps, OthersStay DEF Keeps
    <3>2. CASE StopEnds \/ CommandDies
      BY <2>1, <2>2, <3>2, EndKeeps DEF StopEnds, CommandDies, files
    <3>3. CASE CancelReturns \/ CancelFails
      <4> DEFINE t == ctl["command"].task
      <4>1. (\E row : NextVictim(row)) \/ (EndCommand /\ UNCHANGED disk)
        BY <3>3 DEF CancelReturns, CancelFails
      <4>2. CASE EndCommand /\ UNCHANGED disk
        BY <2>1, <2>2, <4>2, EndKeeps
      <4>3. ASSUME NEW row, NextVictim(row) PROVE Keeps("command")
        <5> DEFINE s == [C EXCEPT !.rows[t] = row]
        <5>1. s.andon = C.andon
          BY CommandRow DEF State, Typed, StatesOK, C, Procs
        <5>2. \/ disk' = s /\ EndCommand
              \/ Touch("command", t, row) /\ \E c : Goto("command", c)
          BY <4>3 DEF NextVictim
        <5> HIDE DEF s
        <5> QED
          BY <2>1, <2>2, <5>1, <5>2, EndKeeps, TouchKeeps, OthersStay DEF Keeps
      <4> QED
        BY <4>1, <4>2, <4>3
    <3> QED
      BY <1>5, <3>1, <3>2, <3>3
  <2>4. heard => ctl'["loop"].pc \in Quiet
    BY <2>1, <2>2, <2>3 DEF Keeps, CordInv
  <2> QED
    BY <2>1, <2>2, <2>3, <2>4, KeepsCord
<1> QED
  BY <1>2, <1>3, <1>4, <1>5 DEF Operating

LEMMA NextCord ==
    ASSUME Typed, WatchingNow, CordInv, [Next]_vars
    PROVE  CordInv'
<1>1. CASE Boot
  BY <1>1, BootCord
<1>2. CASE Reconciling
  BY <1>2, PollCord, ReconcilingKeeps, KeepsCord DEF Procs
<1>3. CASE LoopDies
  <2>1. ctl["loop"].pc # "off" /\ UNCHANGED heard /\ disk' = disk
    BY <1>3 DEF LoopDies, LoopAt, files
  <2> QED
    BY <1>3, <2>1, DownKeeps, KeepsCord DEF Procs, Quiet
<1>4. ASSUME NEW p \in Procs, Spawning(p) PROVE CordInv'
  <2>1. Keeps(p)
    BY <1>4, SpawningKeeps
  <2>2. heard => ctl'["loop"].pc \in Quiet
    <3>1. CASE p = "loop"
      <4>1. ctl["loop"].pc \in {"create", "send", "backoff"}
        BY <1>4, <3>1 DEF Spawning, CreateFails, CreateReturns, BackoffEnds, SendFails, SendReturns
      <4> QED
        BY <4>1 DEF CordInv, Quiet
    <3>2. CASE p # "loop"
      BY <2>1, <3>2 DEF Keeps, CordInv, Procs
    <3> QED
      BY <3>1, <3>2
  <2> QED
    BY <2>1, <2>2, KeepsCord
<1>5. ASSUME NEW t \in Names, Waiting(t) PROVE CordInv'
  <2>1. Keeps("loop") /\ ctl' = ctl
    BY <1>5, WaitingKeeps
  <2>2. heard => ctl'["loop"].pc \in Quiet
    BY <2>1 DEF CordInv
  <2> QED
    BY <2>1, <2>2, KeepsCord DEF Procs
<1>6. CASE Operating
  BY <1>6, CommandsCord
<1>7. CASE UNCHANGED <<files, procs>> /\ (heard' => heard)
  BY <1>7 DEF files, procs, CordInv
<1>8. ASSUME NEW p \in Procs, RunStarts(p) PROVE CordInv'
  BY <1>7, <1>8 DEF RunStarts
<1>9. ASSUME NEW t \in Names, NEW n \in DOMAIN cloud[t], NEW end \in {"finished", "error"},
             NEW branch \in Pushes[t], RunEnds(t, n, end, branch)
      PROVE  CordInv'
  BY <1>7, <1>9 DEF RunEnds
<1>10. ASSUME NEW p \in Plans, EditPlan(p) PROVE CordInv'
  BY <1>7, <1>10 DEF EditPlan
<1>11. CASE PullCord
  BY <1>7, <1>11 DEF PullCord
<1>12. CASE ReleaseCord
  <2>1. UNCHANGED <<files, procs>> /\ heard' = FALSE
    BY <1>12 DEF ReleaseCord
  <2> QED
    BY <1>7, <2>1
<1>13. CASE UNCHANGED vars
  BY <1>7, <1>13 DEF vars
<1> QED
  BY <1>1, <1>2, <1>3, <1>4, <1>5, <1>6, <1>8, <1>9, <1>10, <1>11, <1>12, <1>13 DEF Next

(* For all tasks, plans and bounds and however commands overlap the loop:   *)
(* once a poll has seen the cord up no agent is started by a loop until the *)
(* cord is released, over failed polls, crashes and restarts, as long as no *)
(* command puts an older state over what the poll noted (drainEvents,       *)
(* spawnReadyPending, saveState).                                           *)
THEOREM HeardCordStands == Spec => HeardCordHolds
<1> DEFINE IInv == Typed /\ WatchingNow /\ CordInv
           NoSpawn == heard => \A t \in Names :
                        InHand("loop", t) => Len(cloud'[t]) = Len(cloud[t])
<1>1. Init => IInv
  <2>1. Idle.pc = "off" /\ NoWaiter.pc = "none" /\ "loop" \in Procs /\ "command" \in Procs
    BY DEF Idle, NoWaiter, Procs
  <2>2. Init => WatchingNow
    BY <2>1 DEF Init, WatchingNow, Watching
  <2>3. Init => CordInv
    BY <2>1 DEF Init, CordInv, Quiet
  <2> QED
    BY <2>2, <2>3, InitTyped
<1>2. IInv /\ [Next]_vars => IInv'
  BY NextTyped, NextWatching, NextCord
<1>3. IInv => NoSpawn
  BY DEF CordInv, Quiet, InHand, Spawns
<1>4. HeardCordHolds <=> [][NoSpawn]_vars
  BY DEF HeardCordHolds
<1> HIDE DEF IInv, NoSpawn
<1> QED
  BY <1>1, <1>2, <1>3, <1>4, PTL DEF Spec
-----------------------------------------------------------------------------
(* What the rows say of the files, over any overlap of commands and loop.  *)

Up(p) == ctl[p].pc # "off"
Handed(s, t) == s.rows[t].status = "handed-off"
Told(t, n, end) == handoff[t] = [run |-> n, end |-> end]

\* A row handed off has its file, and one that is not yet running has no run.
Recorded(s, h) == \A t \in Names :
    /\ Handed(s, t) => h[t] = [run |-> s.rows[t].run, end |-> "finished"]
    /\ s.rows[t].status \in {"pending", "absent"} => s.rows[t].run = 0

RecInv == Recorded(disk, handoff) /\ \A p \in Procs : Up(p) => Recorded(mem[p], handoff)

\* No handoff is known to the file before the loop, or to a command before the
\* file: whoever replaces a handoff file knows of no row that refers to it.
OrderInv == \A t \in Names :
    /\ Up("loop") /\ Handed(disk, t) => Handed(L, t)
    /\ Up("command") /\ Handed(C, t) => Handed(disk, t)

HandInv == \A p \in Procs : \A t \in Names : InHand(p, t) =>
    /\ mem[p].rows[t].status \in {"pending", "running"} /\ mem[p].rows[t].run = 0
    /\ ctl[p].pc = "send" => mem[p].rows[t].status = "running"

\* The loop waits for the run its row names, and a handoff on its way is filed.
WaitInv == \A t \in Names :
    /\ wait[t].pc \in Watch => wait[t].run = L.rows[t].run
    /\ wait[t].pc = "filed" => Told(t, wait[t].run, wait[t].end)

ErrorInv == Up("loop") => \A t \in Names :
    L.rows[t].status = "error" /\ t \notin ctl["loop"].known /\ L.rows[t].run # 0
        => failure[t] = L.rows[t].run

FileInv == RecInv /\ OrderInv /\ HandInv /\ WaitInv /\ ErrorInv

\* A process writes one row, saves, and goes to c.
Writes(p, t, r, c) ==
    /\ disk' = [mem[p] EXCEPT !.rows[t] = r]
    /\ mem' = [mem EXCEPT ![p] = IF c.pc = "off" THEN Empty ELSE disk']
    /\ ctl' = [ctl EXCEPT ![p] = c]

LEMMA Wrote ==
    ASSUME Typed, NEW p \in Procs, NEW t \in Names, NEW r \in Row, NEW c, Writes(p, t, r, c)
    PROVE  /\ disk'.rows[t] = r /\ \A u \in Names \ {t} : disk'.rows[u] = mem[p].rows[u]
           /\ c.pc # "off" => mem'[p] = disk'
           /\ ctl'[p] = c
           /\ \A q \in Procs \ {p} : mem'[q] = mem[q] /\ ctl'[q] = ctl[q]
<1> DEFINE s == [mem[p] EXCEPT !.rows[t] = r]
<1>0. mem[p] \in State
  BY DEF Typed, StatesOK
<1>1. s.rows[t] = r /\ \A u \in Names \ {t} : s.rows[u] = mem[p].rows[u]
  BY <1>0, RowChanged
<1> HIDE DEF s
<1>2. disk' = s /\ mem' = [mem EXCEPT ![p] = IF c.pc = "off" THEN Empty ELSE disk']
      /\ ctl' = [ctl EXCEPT ![p] = c]
  BY DEF Writes, s
<1> QED
  BY <1>1, <1>2 DEF Typed, StatesOK, CtlOK

(* A process that is up writes a row that was not handed off; only the loop *)
(* writes one that is, and a handoff or failure file with it.               *)
LEMMA RowWritten ==
    ASSUME Typed, FileInv, NEW p \in Procs, Up(p), NEW t \in Names, NEW r \in Row, NEW c,
           Writes(p, t, r, c),
           \A u \in Names \ {t} : wait'[u] = wait[u] /\ failure'[u] = failure[u],
           p = "command" => UNCHANGED <<wait, failure>> /\ r.status # "handed-off",
           UNCHANGED handoff,
           r.status = "handed-off" => Told(t, r.run, "finished"),
           p = "loop" => mem[p].rows[t].status # "handed-off",
           r.status \in {"pending", "absent"} => r.run = 0,
           \A u \in Names : Hand(c, u) =>
                IF u = t THEN /\ r.status \in {"pending", "running"} /\ r.run = 0
                              /\ c.pc = "send" => r.status = "running"
                ELSE InHand(p, u) /\ c.pc = ctl[p].pc,
           p = "loop" =>
               /\ c.pc # "off" /\ c.known = ctl[p].known
               /\ wait'[t].pc \in Watch => wait'[t].run = r.run /\ wait'[t].pc # "filed"
               /\ r.status = "error" /\ t \notin c.known /\ r.run # 0 => failure'[t] = r.run
    PROVE  FileInv'
<1> USE DEF Up
<1>1. /\ disk'.rows[t] = r /\ \A u \in Names \ {t} : disk'.rows[u] = mem[p].rows[u]
      /\ c.pc # "off" => mem'[p] = disk'
      /\ ctl'[p] = c
      /\ \A q \in Procs \ {p} : mem'[q] = mem[q] /\ ctl'[q] = ctl[q]
  BY Wrote
<1>p. p = "loop" \/ p = "command"
  BY DEF Procs
<1>o. "loop" \in Procs /\ "command" \in Procs
  BY DEF Procs
<1>2. \A u \in Names :
         /\ Handed(disk', u) => Handed(mem[p], u) \/ (p = "loop" /\ u = t)
         /\ p = "loop" /\ Handed(mem[p], u) => Handed(disk', u)
  <2>1. ASSUME NEW u \in Names \ {t} PROVE Handed(disk', u) <=> Handed(mem[p], u)
    BY <1>1, <2>1 DEF Handed
  <2>2. p = "command" => ~Handed(disk', t)
    BY <1>1 DEF Handed
  <2>3. p = "loop" => ~Handed(mem[p], t)
    BY DEF Handed
  <2> QED
    BY <2>1, <2>2, <2>3, <1>p
<1>3. Recorded(disk', handoff)
  <2>1. ASSUME NEW u \in Names
        PROVE  /\ Handed(disk', u) => Told(u, disk'.rows[u].run, "finished")
               /\ disk'.rows[u].status \in {"pending", "absent"} => disk'.rows[u].run = 0
    <3>1. CASE u = t
      BY <1>1, <3>1, <1>p DEF Handed, Told
    <3>2. CASE u # t
      BY <1>1, <3>2 DEF FileInv, RecInv, Recorded, Handed, Told
    <3> QED
      BY <3>1, <3>2
  <2> QED
    BY <2>1 DEF Recorded, Told
<1>4. RecInv'
  <2>1. ASSUME NEW q \in Procs, Up(q)' PROVE Recorded(mem'[q], handoff)
    <3>1. CASE q = p
      <4>1. mem'[q] = disk'
        BY <1>1, <2>1, <3>1
      <4> QED
        BY <1>3, <4>1
    <3>2. CASE q # p
      <4>1. Recorded(mem[q], handoff) /\ mem'[q] = mem[q]
        BY <1>1, <2>1, <3>2 DEF FileInv, RecInv
      <4> QED
        BY <4>1
    <3> QED
      BY <3>1, <3>2
  <2> QED
    BY <1>3, <2>1 DEF RecInv
<1>5. OrderInv'
  <2>1. CASE p = "loop"
    <3>1. L' = disk' /\ C' = C /\ (ctl'["command"].pc # "off" <=> ctl["command"].pc # "off")
      BY <1>1, <1>o, <2>1 DEF L, C
    <3>2. \A u \in Names : Up("command") /\ Handed(C, u) => Handed(L, u)
      BY <2>1 DEF FileInv, OrderInv
    <3>3. \A u \in Names : Handed(L, u) => Handed(disk', u)
      BY <1>2, <2>1 DEF L
    <3>4. \A u \in Names : Handed(C, u)' <=> Handed(C, u)
      BY <3>1 DEF Handed
    <3>5. \A u \in Names : /\ Handed(disk, u)' => Handed(L, u)'
                           /\ Handed(disk, u)' <=> Handed(disk', u)
      BY <3>1 DEF Handed
    <3> QED
      BY <3>1, <3>2, <3>3, <3>4, <3>5 DEF OrderInv
  <2>2. CASE p = "command"
    <3>1. L' = L /\ (ctl'["command"].pc # "off" => C' = disk') /\ ctl'["loop"] = ctl["loop"]
      BY <1>1, <1>o, <2>2 DEF L, C
    <3>2. \A u \in Names : /\ Handed(L, u)' <=> Handed(L, u)
                           /\ Handed(disk, u)' => Handed(C, u)
      BY <1>2, <2>2, <3>1 DEF Handed, C
    <3>3. \A u \in Names : ctl'["command"].pc # "off" /\ Handed(C, u)' => Handed(disk, u)'
      BY <3>1 DEF Handed
    <3> QED
      BY <2>2, <3>1, <3>2, <3>3 DEF FileInv, OrderInv
  <2> QED
    BY <2>1, <2>2, <1>p
<1>6. HandInv'
  <2>1. ASSUME NEW q \in Procs, NEW u \in Names, InHand(q, u)'
        PROVE  /\ mem'[q].rows[u].status \in {"pending", "running"} /\ mem'[q].rows[u].run = 0
               /\ ctl'[q].pc = "send" => mem'[q].rows[u].status = "running"
    <3>1. CASE q = p
      <4>1. Hand(c, u) /\ c.pc # "off"
        BY <1>1, <2>1, <3>1 DEF InHand, Spawns, Hand
      <4>2. CASE u = t
        BY <1>1, <3>1, <4>1, <4>2
      <4>3. CASE u # t
        BY <1>1, <3>1, <4>1, <4>3 DEF FileInv, HandInv
      <4> QED
        BY <4>2, <4>3
    <3>2. CASE q # p
      BY <1>1, <2>1, <3>2 DEF FileInv, HandInv, InHand, Spawns
    <3> QED
      BY <3>1, <3>2
  <2> QED
    BY <2>1 DEF HandInv
<1>7. WaitInv' /\ ErrorInv'
  <2>1. CASE p = "loop"
    <3>1. L'.rows[t] = r /\ (\A u \in Names \ {t} : L'.rows[u] = L.rows[u])
          /\ ctl'["loop"].known = ctl["loop"].known
      BY <1>1, <2>1 DEF L
    <3>2. WaitInv'
      <4>1. ASSUME NEW u \in Names
            PROVE  /\ wait'[u].pc \in Watch => wait'[u].run = L'.rows[u].run
                   /\ wait'[u].pc = "filed" => Told(u, wait[u].run, wait[u].end)'
        <5>1. CASE u = t
          BY <2>1, <3>1, <5>1 DEF Watch
        <5>2. CASE u # t
          BY <3>1, <5>2 DEF FileInv, WaitInv, Told
        <5> QED
          BY <5>1, <5>2
      <4> QED
        BY <4>1 DEF WaitInv
    <3>3. ErrorInv'
      <4>1. ASSUME NEW u \in Names, L'.rows[u].status = "error", u \notin ctl'["loop"].known,
                   L'.rows[u].run # 0
            PROVE  failure'[u] = L'.rows[u].run
        <5>1. CASE u = t
          BY <1>1, <2>1, <3>1, <4>1, <5>1
        <5>2. CASE u # t
          BY <2>1, <3>1, <4>1, <5>2 DEF FileInv, ErrorInv
        <5> QED
          BY <5>1, <5>2
      <4> QED
        BY <4>1 DEF ErrorInv
    <3> QED
      BY <3>2, <3>3
  <2>2. CASE p = "command"
    <3>1. L' = L /\ ctl'["loop"] = ctl["loop"] /\ UNCHANGED <<wait, failure, handoff>>
      BY <1>1, <1>o, <2>2 DEF L
    <3> QED
      BY <3>1 DEF FileInv, WaitInv, ErrorInv, Told
  <2> QED
    BY <2>1, <2>2, <1>p
<1> QED
  BY <1>4, <1>5, <1>6, <1>7 DEF FileInv

\* Two states tell of the same runs, with the same verdicts.
Alike(s, u) == \A t \in Names :
    s.rows[t].status = u.rows[t].status /\ s.rows[t].run = u.rows[t].run

LEMMA AlikeRecorded ==
    ASSUME NEW s, NEW u, Alike(s, u)
    PROVE  /\ \A h : Recorded(u, h) => Recorded(s, h)
           /\ \A t \in Names : Handed(s, t) <=> Handed(u, t)
<1>1. \A t \in Names : Handed(s, t) <=> Handed(u, t)
  BY DEF Alike, Handed
<1> QED
  BY <1>1 DEF Alike, Recorded

(* A process saves what it holds, or goes on without: no verdict changes.   *)
(* The loop replaces the handoff files of running tasks only.               *)
LEMMA NothingDecided ==
    ASSUME Typed, FileInv, NEW p \in Procs, Up(p),
           disk' = disk \/ Alike(disk', mem[p]),
           Up(p)' => Alike(mem'[p], mem[p]),
           \A q \in Procs \ {p} : mem'[q] = mem[q] /\ ctl'[q] = ctl[q],
           \A t \in Names : InHand(p, t)' => InHand(p, t) /\ ctl'[p].pc = ctl[p].pc,
           UNCHANGED failure,
           p = "command" => UNCHANGED <<wait, handoff>>,
           p = "loop" =>
               /\ Up("loop")' => ctl'["loop"].known = ctl["loop"].known
               /\ \A t \in Names :
                    /\ handoff'[t] = handoff[t] \/ L.rows[t].status = "running"
                    /\ wait'[t].pc \in Watch => Up("loop")' /\ wait'[t].run = L.rows[t].run
                    /\ wait'[t].pc = "filed" => Told(t, wait[t].run, wait[t].end)'
    PROVE  FileInv'
<1> USE DEF Up
<1>p. p = "loop" \/ p = "command"
  BY DEF Procs
<1>o. "loop" \in Procs /\ "command" \in Procs
  BY DEF Procs
<1>1. \A t \in Names :
         /\ Handed(disk', t) => Handed(disk, t) \/ Handed(mem[p], t)
         /\ p = "loop" /\ Handed(disk, t) => Handed(mem[p], t)
         /\ p = "command" /\ Handed(mem[p], t) => Handed(disk, t)
         /\ p = "loop" /\ Handed(mem[p], t) => Handed(disk', t) \/ disk' = disk
  BY AlikeRecorded DEF FileInv, OrderInv, L, C
<1>2. ASSUME NEW s, Recorded(s, handoff), p = "loop" => \A t \in Names : Handed(s, t) => Handed(L, t)
      PROVE  Recorded(s, handoff')
  <2>1. ASSUME NEW t \in Names, Handed(s, t) PROVE handoff'[t] = handoff[t]
    BY <1>2, <1>p, <2>1 DEF Handed
  <2> QED
    BY <1>2, <2>1 DEF Recorded
<1>3. RecInv'
  <2>1. Recorded(mem[p], handoff) /\ Recorded(disk, handoff)
    BY DEF FileInv, RecInv
  <2>2. Recorded(mem[p], handoff') /\ Recorded(disk, handoff')
    BY <2>1, <1>1, <1>2 DEF L
  <2>3. Recorded(disk', handoff')
    BY <2>2, AlikeRecorded
  <2>4. ASSUME NEW q \in Procs, Up(q)' PROVE Recorded(mem'[q], handoff')
    <3>1. CASE q = p
      BY <2>2, <2>4, <3>1, AlikeRecorded
    <3>2. CASE q # p
      <4>1. Up(q) /\ mem'[q] = mem[q] /\ Recorded(mem[q], handoff)
        BY <2>4, <3>2 DEF FileInv, RecInv
      <4>2. p = "loop" => \A t \in Names : Handed(mem[q], t) => Handed(L, t)
        BY <1>1, <3>2, <4>1 DEF FileInv, OrderInv, C, L, Procs
      <4> QED
        BY <1>2, <4>1, <4>2
    <3> QED
      BY <3>1, <3>2
  <2> QED
    BY <2>3, <2>4 DEF RecInv
<1>4. OrderInv'
  <2>1. CASE p = "loop"
    <3>1. C' = C /\ (ctl'["command"].pc # "off" <=> ctl["command"].pc # "off") /\ L = mem[p]
      BY <1>o, <2>1 DEF L, C
    <3>2. \A t \in Names : /\ Up("loop")' => (Handed(L, t)' <=> Handed(L, t))
                           /\ Handed(C, t)' <=> Handed(C, t)
      BY <2>1, <3>1, AlikeRecorded DEF L, Handed
    <3>3. \A t \in Names : Handed(disk, t)' <=> Handed(disk', t)
      BY DEF Handed
    <3> QED
      BY <1>1, <2>1, <3>1, <3>2, <3>3 DEF FileInv, OrderInv
  <2>2. CASE p = "command"
    <3>1. L' = L /\ ctl'["loop"] = ctl["loop"] /\ C = mem[p]
      BY <1>o, <2>2 DEF L, C
    <3>2. \A t \in Names : /\ Up("command")' => (Handed(C, t)' <=> Handed(C, t))
                           /\ Handed(L, t)' <=> Handed(L, t)
      BY <2>2, <3>1, AlikeRecorded DEF C, Handed
    <3>3. \A t \in Names : Handed(disk, t)' <=> Handed(disk', t)
      BY DEF Handed
    <3>4. disk' = disk \/ \A t \in Names : Handed(disk', t) <=> Handed(C, t)
      BY <3>1, AlikeRecorded
    <3> QED
      BY <1>1, <2>2, <3>1, <3>2, <3>3, <3>4 DEF FileInv, OrderInv
  <2> QED
    BY <2>1, <2>2, <1>p
<1>5. HandInv'
  <2>1. ASSUME NEW q \in Procs, NEW t \in Names, InHand(q, t)'
        PROVE  /\ mem'[q].rows[t].status \in {"pending", "running"} /\ mem'[q].rows[t].run = 0
               /\ ctl'[q].pc = "send" => mem'[q].rows[t].status = "running"
    <3>1. ctl'[q].pc # "off"
      BY <2>1 DEF InHand, Spawns
    <3>2. CASE q = p
      BY <2>1, <3>1, <3>2 DEF FileInv, HandInv, Alike
    <3>3. CASE q # p
      BY <2>1, <3>3 DEF FileInv, HandInv, InHand, Spawns
    <3> QED
      BY <3>2, <3>3
  <2> QED
    BY <2>1 DEF HandInv
<1>6. WaitInv' /\ ErrorInv'
  <2>1. CASE p = "loop"
    <3>1. Up("loop")' => Alike(L', L) /\ ctl'["loop"].known = ctl["loop"].known
      BY <2>1 DEF L
    <3> QED
      BY <2>1, <3>1 DEF FileInv, WaitInv, ErrorInv, Alike
  <2>2. CASE p = "command"
    <3>1. L' = L /\ ctl'["loop"] = ctl["loop"] /\ UNCHANGED <<wait, failure, handoff>>
      BY <1>o, <2>2 DEF L
    <3> QED
      BY <3>1 DEF FileInv, WaitInv, ErrorInv, Told
  <2> QED
    BY <2>1, <2>2, <1>p
<1> QED
  BY <1>3, <1>4, <1>5, <1>6 DEF FileInv

(* Reading the plan gives a verdict on pending and missing rows only. *)
LEMMA ReconcileVerdicts ==
    ASSUME NEW rows \in [Names -> Row], NEW p \in Plans \cup {NoPlan}, NEW t \in Names
    PROVE  LET R == ReconcileStateWithPlan(rows, p)
           IN  \/ R[t].status = rows[t].status /\ R[t].run = rows[t].run
               \/ /\ rows[t].status \in {"absent", "pending"}
                  /\ R[t].status \in {"pending", "pruned"}
                  /\ R[t].run \in {0, rows[t].run}
<1> DEFINE R == ReconcileStateWithPlan(rows, p)
           new == InitialTaskState(NormalizedDependsOn(p, t), t, FALSE)
<1>1. rows[t] \in Row
  OBVIOUS
<1>2. CASE t \in DOMAIN p
  <2>1. NormalizedDependsOn(p, t) \in SUBSET Names
    BY <1>2, PlanType
  <2>2. new.status = "pending" /\ new.run = 0
    BY <2>1, NewRowType
  <2>3. [rows[t] EXCEPT !.dependsOn = NormalizedDependsOn(p, t)].run = rows[t].run
        /\ [rows[t] EXCEPT !.dependsOn = NormalizedDependsOn(p, t)].status = rows[t].status
    BY <1>1 DEF Row
  <2>4. R[t] = IF rows[t].status = "absent" THEN new
               ELSE IF rows[t].status = "pending"
               THEN [rows[t] EXCEPT !.dependsOn = NormalizedDependsOn(p, t)]
               ELSE rows[t]
    BY <1>2 DEF ReconcileStateWithPlan
  <2> HIDE DEF R, new
  <2>5. \/ R[t].status = rows[t].status /\ R[t].run = rows[t].run
        \/ /\ rows[t].status \in {"absent", "pending"}
           /\ R[t].status \in {"pending", "pruned"}
           /\ R[t].run \in {0, rows[t].run}
    BY <2>2, <2>3, <2>4
  <2> QED
    BY <2>5 DEF R
<1>3. CASE t \notin DOMAIN p
  <2>1. [rows[t] EXCEPT !.status = "pruned"].status = "pruned"
        /\ [rows[t] EXCEPT !.status = "pruned"].run = rows[t].run
    BY <1>1 DEF Row
  <2>2. R[t] = IF rows[t].status = "pending" /\ ~rows[t].adHoc
               THEN [rows[t] EXCEPT !.status = "pruned"] ELSE rows[t]
    BY <1>3 DEF ReconcileStateWithPlan
  <2> HIDE DEF R
  <2>3. \/ R[t].status = rows[t].status /\ R[t].run = rows[t].run
        \/ /\ rows[t].status \in {"absent", "pending"}
           /\ R[t].status \in {"pending", "pruned"}
           /\ R[t].run \in {0, rows[t].run}
    BY <2>1, <2>2
  <2> QED
    BY <2>3 DEF R
<1> QED
  BY <1>2, <1>3

(* A process that loads the file takes its handoffs as they are. *)
LEMMA LoadedVerdicts ==
    ASSUME Typed, NEW p \in Plans \cup {NoPlan}
    PROVE  \A t \in Names :
             LET s == Loaded(disk, p)
             IN  \/ /\ s.rows[t].status = disk.rows[t].status
                    /\ s.rows[t].run = disk.rows[t].run
                 \/ /\ disk.rows[t].status \in {"absent", "pending"}
                    /\ s.rows[t].status \in {"pending", "pruned"}
                    /\ s.rows[t].run \in {0, disk.rows[t].run}
<1> DEFINE A == ReconcileStateWithPlan(disk.rows, p)
           B == ReconcileVerifierRefs(A, p, With(A, "handed-off"))
<1>1. disk \in State /\ disk.rows \in [Names -> Row]
  BY DEF Typed, StatesOK, KnownIn, State
<1>2. A \in [Names -> Row]
  BY <1>1, ReconcileType
<1>3. \A t \in Names :
        \/ A[t].status = disk.rows[t].status /\ A[t].run = disk.rows[t].run
        \/ /\ disk.rows[t].status \in {"absent", "pending"}
           /\ A[t].status \in {"pending", "pruned"}
           /\ A[t].run \in {0, disk.rows[t].run}
  BY <1>1, ReconcileVerdicts
<1> HIDE DEF A
<1>4. B \in [Names -> Row] /\ \A t \in Names : B[t].run = A[t].run /\ B[t].status = A[t].status
  BY <1>2, VerifierRefsType
<1>5. Loaded(disk, p) = [disk EXCEPT !.rows = B]
  BY DEF Loaded, A
<1> HIDE DEF B
<1>6. Loaded(disk, p).rows = B
  BY <1>1, <1>4, <1>5, RowsChanged
<1> QED
  BY <1>3, <1>4, <1>6

LEMMA LoadedRecorded ==
    ASSUME Typed, FileInv, NEW p \in Plans \cup {NoPlan}
    PROVE  /\ Recorded(Loaded(disk, p), handoff)
           /\ \A t \in Names : Handed(Loaded(disk, p), t) <=> Handed(disk, t)
<1> DEFINE s == Loaded(disk, p)
<1>1. \A t \in Names :
        \/ s.rows[t].status = disk.rows[t].status /\ s.rows[t].run = disk.rows[t].run
        \/ /\ disk.rows[t].status \in {"absent", "pending"}
           /\ s.rows[t].status \in {"pending", "pruned"}
           /\ s.rows[t].run \in {0, disk.rows[t].run}
  BY LoadedVerdicts
<1> HIDE DEF s
<1>2. Recorded(disk, handoff)
  BY DEF FileInv, RecInv
<1>3. Recorded(s, handoff) /\ \A t \in Names : Handed(s, t) <=> Handed(disk, t)
  BY <1>1, <1>2 DEF Recorded, Handed
<1> QED
  BY <1>3 DEF s

(* A process that starts saves what it loaded, with nothing handed off that *)
(* was not and nothing taken back.                                          *)
LEMMA Started ==
    ASSUME Typed, FileInv, NEW p \in Procs, ~Up(p), NEW s, NEW c,
           p = "loop" => \A t \in Names : wait[t].pc \notin Watch,
           disk' = s, Recorded(s, handoff), \A t \in Names : Handed(s, t) <=> Handed(disk, t),
           \/ UNCHANGED <<mem, ctl>>
           \/ /\ mem' = [mem EXCEPT ![p] = s] /\ Goto(p, c)
              /\ c.pc # "send" /\ \A t \in Names : Hand(c, t) =>
                    s.rows[t].status \in {"pending", "running"} /\ s.rows[t].run = 0
              /\ p = "loop" => With(s.rows, "error") \subseteq c.known,
           UNCHANGED <<handoff, failure, wait>>
    PROVE  FileInv'
<1> USE DEF Up
<1>p. (p = "loop" \/ p = "command") /\ "loop" \in Procs /\ "command" \in Procs
  BY DEF Procs
<1>1. \A q \in Procs \ {p} : mem'[q] = mem[q] /\ ctl'[q] = ctl[q]
  BY DEF Typed, StatesOK, CtlOK, Goto
<1>2. \/ ctl'[p].pc = "off"
      \/ /\ mem'[p] = s /\ ctl'[p] = c
         /\ c.pc # "send" /\ \A t \in Names : Hand(c, t) =>
                    s.rows[t].status \in {"pending", "running"} /\ s.rows[t].run = 0
         /\ p = "loop" => With(s.rows, "error") \subseteq c.known
  BY DEF Typed, StatesOK, CtlOK, Goto
<1>3. RecInv'
  <2>1. ASSUME NEW q \in Procs, Up(q)' PROVE Recorded(mem'[q], handoff)
    <3>1. CASE q = p
      BY <1>2, <2>1, <3>1
    <3>2. CASE q # p
      BY <1>1, <2>1, <3>2 DEF FileInv, RecInv
    <3> QED
      BY <3>1, <3>2
  <2> QED
    BY <2>1 DEF RecInv
<1>4. OrderInv'
  <2>1. \A t \in Names : Handed(disk, t)' <=> Handed(disk, t)
    BY DEF Handed
  <2>2. CASE p = "loop"
    <3>1. C' = C /\ ctl'["command"] = ctl["command"] /\ (Up("loop")' => L' = s)
      BY <1>p, <1>1, <1>2, <2>2 DEF L, C
    <3>2. \A t \in Names : (Handed(C, t)' <=> Handed(C, t)) /\ (Up("loop")' => (Handed(L, t)' <=> Handed(s, t)))
      BY <3>1 DEF Handed
    <3> QED
      BY <2>1, <3>1, <3>2 DEF FileInv, OrderInv
  <2>3. CASE p = "command"
    <3>1. L' = L /\ ctl'["loop"] = ctl["loop"] /\ (Up("command")' => C' = s)
      BY <1>p, <1>1, <1>2, <2>3 DEF L, C
    <3>2. \A t \in Names : (Handed(L, t)' <=> Handed(L, t)) /\ (Up("command")' => (Handed(C, t)' <=> Handed(s, t)))
      BY <3>1 DEF Handed
    <3> QED
      BY <2>1, <3>1, <3>2 DEF FileInv, OrderInv
  <2> QED
    BY <2>2, <2>3, <1>p
<1>5. HandInv'
  <2>1. ASSUME NEW q \in Procs, NEW t \in Names, InHand(q, t)'
        PROVE  /\ mem'[q].rows[t].status \in {"pending", "running"} /\ mem'[q].rows[t].run = 0
               /\ ctl'[q].pc = "send" => mem'[q].rows[t].status = "running"
    <3>1. ctl'[q].pc # "off" /\ Hand(ctl'[q], t)
      BY <2>1 DEF InHand, Spawns, Hand
    <3>2. CASE q = p
      BY <1>2, <3>1, <3>2
    <3>3. CASE q # p
      BY <1>1, <2>1, <3>3 DEF FileInv, HandInv, InHand, Spawns
    <3> QED
      BY <3>2, <3>3
  <2> QED
    BY <2>1 DEF HandInv
<1>6. WaitInv' /\ ErrorInv'
  <2>1. CASE p = "loop"
    <3>1. Up("loop")' => L' = s /\ With(s.rows, "error") \subseteq ctl'["loop"].known
      BY <1>2, <2>1 DEF L
    <3>2. ErrorInv'
      BY <3>1 DEF ErrorInv, With
    <3>3. \A t \in Names : wait'[t].pc \notin Watch
      BY <2>1
    <3>4. WaitInv'
      BY <3>3 DEF WaitInv, Watch
    <3> QED
      BY <3>2, <3>4
  <2>2. CASE p = "command"
    <3>1. L' = L /\ ctl'["loop"] = ctl["loop"]
      BY <1>p, <1>1, <2>2 DEF L
    <3> QED
      BY <3>1 DEF FileInv, WaitInv, ErrorInv, Told
  <2> QED
    BY <2>1, <2>2, <1>p
<1> QED
  BY <1>3, <1>4, <1>5, <1>6 DEF FileInv

(* Waiting.  A run that is awaited is of a running row, and the loop is up. *)
LEMMA AwaitedRuns ==
    ASSUME Typed, WatchingNow, NEW t \in Names
    PROVE  /\ wait[t].pc # "none" => Up("loop")
           /\ wait[t].pc \in Watch => L.rows[t].status = "running" /\ ~Hand(ctl["loop"], t)
  BY DEF WatchingNow, Watching, Up, Watch

LEMMA LoopAlike ==
    ASSUME Typed, NEW s, Alike(s, L), mem' = [mem EXCEPT !["loop"] = s] \/ UNCHANGED mem
    PROVE  Alike(mem'["loop"], L) /\ mem'["command"] = mem["command"]
  BY DEF Typed, StatesOK, Procs, L, Alike

LEMMA HandoffFiled ==
    ASSUME Typed, WatchingNow, FileInv, NEW t \in Names, NEW end, wait[t].pc \in Watch,
           WriteHandoff(t, end), disk' = disk \/ disk' = L, UNCHANGED <<ctl, failure>>
    PROVE  FileInv'
<1> DEFINE branch == ResolveRunBranch(t, wait[t].run)
           row == [L.rows[t] EXCEPT !.branch = branch]
           s == [L EXCEPT !.rows[t] = row]
           w == [pc |-> "filed", run |-> wait[t].run, end |-> end, branch |-> branch]
<1>1. /\ mem' = [mem EXCEPT !["loop"] = s] /\ wait' = [wait EXCEPT ![t] = w]
      /\ handoff' = [handoff EXCEPT ![t] = [run |-> wait[t].run, end |-> end]]
  BY DEF WriteHandoff, HandoffFile, L
<1>2. w.pc = "filed" /\ w.run = wait[t].run /\ w.end = end
  OBVIOUS
<1> HIDE DEF branch
<1>3. row.status = L.rows[t].status /\ row.run = L.rows[t].run /\ L \in State
  BY Awaited DEF Row
<1> HIDE DEF row
<1>4. s.rows[t] = row /\ \A u \in Names \ {t} : s.rows[u] = L.rows[u]
  BY <1>3 DEF State
<1> HIDE DEF s, w
<1>5. Alike(s, L)
  BY <1>3, <1>4 DEF Alike
<1>6. Alike(mem'["loop"], L) /\ mem'["command"] = mem["command"]
  BY <1>1, <1>5, LoopAlike
<1>7. \A u \in Names : /\ wait'[u] = IF u = t THEN w ELSE wait[u]
                       /\ handoff'[u] = IF u = t THEN [run |-> wait[t].run, end |-> end] ELSE handoff[u]
  BY <1>1 DEF Typed, WaitOK, FilesOK
<1>8. Up("loop") /\ Up("loop")' /\ L.rows[t].status = "running" /\ "loop" \in Procs /\ ctl' = ctl
  BY AwaitedRuns DEF Up, Watch, Procs
<1>9. \A u \in Names :
        /\ handoff'[u] = handoff[u] \/ L.rows[u].status = "running"
        /\ wait'[u].pc \in Watch => wait'[u].run = L.rows[u].run
        /\ wait'[u].pc = "filed" => Told(u, wait[u].run, wait[u].end)'
  <2>1. ASSUME NEW u \in Names, u # t
        PROVE  /\ handoff'[u] = handoff[u]
               /\ wait'[u].pc \in Watch => wait'[u].run = L.rows[u].run
               /\ wait'[u].pc = "filed" => Told(u, wait[u].run, wait[u].end)'
    BY <1>7, <2>1 DEF FileInv, WaitInv, Told
  <2>2. /\ wait'[t].pc \in Watch => wait'[t].run = L.rows[t].run
        /\ Told(t, wait[t].run, wait[t].end)'
    BY <1>2, <1>7 DEF FileInv, WaitInv, Told
  <2> QED
    BY <1>8, <2>1, <2>2
<1>10. Alike(disk', mem["loop"]) \/ disk' = disk
  BY DEF Alike, L
<1>11. \A u \in Names : InHand("loop", u)' =>
        InHand("loop", u) /\ ctl'["loop"].pc = ctl["loop"].pc
  BY <1>8 DEF InHand, Spawns
<1>12. \A q \in Procs \ {"loop"} : mem'[q] = mem[q] /\ ctl'[q] = ctl[q]
  BY <1>6, <1>8 DEF Procs
<1> QED
  BY <1>6, <1>8, <1>9, <1>10, <1>11, <1>12, NothingDecided DEF L

(* The loop keeps its rows and its place, and waits for no other run. *)
LEMMA LoopGoesOn ==
    ASSUME Typed, FileInv, Up("loop"), NEW s, Alike(s, L),
           mem' = [mem EXCEPT !["loop"] = s] \/ UNCHANGED mem,
           disk' = disk \/ Alike(disk', L),
           UNCHANGED ctl \/ \E c : Goto("loop", c) /\ c.pc # "off" /\ c.known = ctl["loop"].known
                                  /\ \A t \in Names : Hand(c, t) => Hand(ctl["loop"], t) /\ c.pc = ctl["loop"].pc,
           \A t \in Names : \/ wait'[t].pc \in Watch => wait'[t].pc # "filed" /\ wait'[t].run = L.rows[t].run
                            \/ wait'[t] = wait[t],
           UNCHANGED <<handoff, failure>>
    PROVE  FileInv'
<1>1. Alike(mem'["loop"], L) /\ mem'["command"] = mem["command"]
  BY LoopAlike
<1>2. /\ ctl'["command"] = ctl["command"] /\ ctl'["loop"].pc # "off"
      /\ ctl'["loop"].known = ctl["loop"].known
      /\ \A t \in Names : Hand(ctl'["loop"], t) =>
            Hand(ctl["loop"], t) /\ ctl'["loop"].pc = ctl["loop"].pc
  BY DEF Goto, Typed, CtlOK, Up, Procs
<1>3. \A t \in Names : InHand("loop", t)' =>
        InHand("loop", t) /\ ctl'["loop"].pc = ctl["loop"].pc
  BY <1>2 DEF InHand, Spawns, Hand
<1>4. \A t \in Names :
        /\ wait'[t].pc \in Watch => wait'[t].run = L.rows[t].run
        /\ wait'[t].pc = "filed" => Told(t, wait[t].run, wait[t].end)'
  BY DEF FileInv, WaitInv, Told, Watch
<1>5. "loop" \in Procs /\ \A q \in Procs \ {"loop"} : mem'[q] = mem[q] /\ ctl'[q] = ctl[q]
  BY <1>1, <1>2 DEF Procs
<1>6. Up("loop")'
  BY <1>2 DEF Up
<1> QED
  BY <1>1, <1>2, <1>3, <1>4, <1>5, <1>6, NothingDecided DEF L

(* The loop touches one row, and stays where it is. *)
LEMMA LoopTouches ==
    ASSUME Typed, FileInv, Up("loop"), NEW t \in Names, NEW r \in Row, NEW c, NEW w,
           Touch("loop", t, r), ctl' = [ctl EXCEPT !["loop"] = c] \/ (UNCHANGED ctl /\ c = ctl["loop"]),
           c.pc # "off", c.known = ctl["loop"].known, \A u \in Names : Hand(c, u) => InHand("loop", u) /\ u # t /\ c.pc = ctl["loop"].pc,
           L.rows[t].status # "handed-off", r.run = L.rows[t].run,
           r.status \in {"handed-off", "error"},
           r.status = "handed-off" => Told(t, r.run, "finished"),
           wait' = [wait EXCEPT ![t] = w] \/ (UNCHANGED wait /\ w = wait[t]), w.pc \notin Watch,
           FailureHandoff(t, r.run) \/ (UNCHANGED failure /\ (r.status = "error" => r.run = 0 \/ t \in c.known)),
           UNCHANGED handoff
    PROVE  FileInv'
<1>1. "loop" \in Procs /\ ctl["loop"].pc # "off"
  BY DEF Procs, Up
<1>2. Writes("loop", t, r, c)
  <2>1. ctl' = [ctl EXCEPT !["loop"] = c]
    BY <1>1 DEF Typed, CtlOK
  <2> QED
    BY <2>1 DEF Touch, Save, Writes
<1>3. /\ \A u \in Names \ {t} : wait'[u] = wait[u] /\ failure'[u] = failure[u]
      /\ wait'[t] = w
      /\ failure'[t] = r.run \/ (r.status = "error" => r.run = 0 \/ t \in c.known)
  BY DEF FailureHandoff, Typed, WaitOK, FilesOK
<1>4. r.status = "handed-off" \/ r.status = "error"
  OBVIOUS
<1> QED
  BY <1>1, <1>2, <1>3, <1>4, RowWritten DEF L, Watch

LEMMA WaitingFiled == Typed /\ WatchingNow /\ FileInv /\ (\E t \in Names : Waiting(t)) => FileInv'
<1> SUFFICES ASSUME Typed, WatchingNow, FileInv, NEW t \in Names, Waiting(t) PROVE FileInv'
  OBVIOUS
<1>0. /\ wait[t].pc # "none" => Up("loop")
      /\ wait[t].pc \in Watch => /\ L.rows[t].status = "running" /\ ~Hand(ctl["loop"], t)
                                 /\ wait[t].run = L.rows[t].run
      /\ \A u \in Names : Hand(ctl["loop"], u) <=> InHand("loop", u)
  BY AwaitedRuns DEF FileInv, WaitInv, Hand, InHand, Spawns
<1>1. CASE WaitReturns(t) \/ ProbeSaysEnded(t) \/ ProbeFails(t)
  BY <1>1, HandoffFiled DEF WaitReturns, ProbeSaysEnded, ProbeFails, AtWait, Watch
<1>2. CASE WaitReturnsError(t) \/ ProbeSaysRunning(t)
  <2>1. wait[t].pc \in {"wait", "probe"} /\ UNCHANGED <<ctl, handoff, failure>>
    BY <1>2 DEF WaitReturnsError, ProbeSaysRunning, AtWait, files
  <2>2. /\ mem' = [mem EXCEPT !["loop"] = L] \/ UNCHANGED mem
        /\ disk' = L \/ disk' = disk
    BY <1>2 DEF WaitReturnsError, ProbeSaysRunning, LogAttention, Save, L, files
  <2>3. \E pc \in {"wait", "probe"} : wait' = [wait EXCEPT ![t] = [wait[t] EXCEPT !.pc = pc]]
    BY <1>2 DEF WaitReturnsError, ProbeSaysRunning
  <2>4. PICK pc \in {"wait", "probe"} : wait' = [wait EXCEPT ![t] = [wait[t] EXCEPT !.pc = pc]]
    BY <2>3
  <2>5. /\ wait'[t].pc = pc /\ wait'[t].run = wait[t].run
        /\ \A u \in Names \ {t} : wait'[u] = wait[u]
    BY <2>4 DEF Typed, WaitOK, Waiter
  <2>6. \A u \in Names : \/ wait'[u].pc # "filed" /\ wait'[u].run = L.rows[u].run
                         \/ wait'[u] = wait[u]
    BY <1>0, <2>1, <2>5 DEF Watch
  <2>7. Alike(L, L)
    BY DEF Alike
  <2> QED
    BY <1>0, <2>1, <2>2, <2>6, <2>7, LoopGoesOn
<1>3. CASE WaitThrows(t)
  <2> DEFINE row == [L.rows[t] EXCEPT !.status = "error"]
             w == [wait[t] EXCEPT !.pc = "after", !.end = "error"]
  <2>1. /\ Touch("loop", t, row) /\ wait' = [wait EXCEPT ![t] = w]
        /\ FailureHandoff(t, wait[t].run) /\ UNCHANGED <<ctl, handoff>>
        /\ wait[t].pc \in {"wait", "probe"}
    BY <1>3 DEF WaitThrows
  <2>2. row \in Row /\ row.status = "error" /\ row.run = L.rows[t].run
    BY Awaited DEF Row, Statuses
  <2>3. w.pc = "after"
    BY Awaited DEF Waiter
  <2> HIDE DEF row, w
  <2> QED
    BY <1>0, <2>1, <2>2, <2>3, LoopTouches DEF Watch, Up
<1>4. CASE CommitHandoff(t)
  <2> DEFINE status == IF wait[t].end = "finished" THEN "handed-off" ELSE "error"
             row == [L.rows[t] EXCEPT !.status = status, !.branch = wait[t].branch, !.path = TRUE]
             w == [wait[t] EXCEPT !.pc = "after"]
  <2>1. /\ Touch("loop", t, row) /\ wait' = [wait EXCEPT ![t] = w] /\ wait[t].pc = "filed"
        /\ IF wait[t].end = "finished" THEN UNCHANGED failure ELSE FailureHandoff(t, wait[t].run)
        /\ UNCHANGED <<ctl, handoff>>
    BY <1>4 DEF CommitHandoff
  <2>2. row \in Row /\ row.status = status /\ row.run = L.rows[t].run
    <3>1. wait[t].branch \in Branches
      BY Awaited DEF Waiter
    <3>2. status \in Statuses
      BY DEF Statuses
    <3> HIDE DEF status
    <3>3. L.rows[t] \in Row
      BY Awaited
    <3>4. row \in Row
      BY <3>1, <3>2, <3>3, SettledRow
    <3>5. row.status = status /\ row.run = L.rows[t].run
      BY <3>3 DEF Row
    <3> QED
      BY <3>4, <3>5
  <2>3. w.pc = "after"
    BY Awaited DEF Waiter
  <2>4. Told(t, wait[t].run, wait[t].end)
    BY <2>1 DEF FileInv, WaitInv
  <2> HIDE DEF row, w
  <2>5. CASE wait[t].end = "finished"
    BY <1>0, <2>1, <2>2, <2>3, <2>4, <2>5, LoopTouches DEF Watch, Up
  <2>6. CASE wait[t].end # "finished"
    BY <1>0, <2>1, <2>2, <2>3, <2>6, LoopTouches DEF Watch, Up
  <2> QED
    BY <2>5, <2>6
<1>5. CASE FinishWait(t)
  <2> DEFINE refs == ReconcileVerifierRefs(L.rows, planned, {t})
             rows == IF wait[t].end = "finished" THEN refs ELSE L.rows
             s == [L EXCEPT !.rows = rows]
  <2>1. Save("loop", s) \/ UNCHANGED <<mem, disk>>
    BY <1>5 DEF FinishWait, Measured
  <2>2. L \in State /\ L.rows \in [Names -> Row]
    BY Awaited DEF State
  <2>3. rows \in [Names -> Row]
        /\ \A u \in Names : rows[u].status = L.rows[u].status /\ rows[u].run = L.rows[u].run
    BY <2>2, VerifierRefsType
  <2> HIDE DEF rows
  <2>4. s.rows = rows
    BY <2>2, <2>3, RowsChanged
  <2> HIDE DEF s
  <2>5. Alike(s, L)
    BY <2>3, <2>4 DEF Alike
  <2>6. wait[t].pc = "after" /\ wait' = [wait EXCEPT ![t] = NoWaiter] /\ NoWaiter.pc = "none"
        /\ UNCHANGED <<ctl, handoff, failure>>
    BY <1>5 DEF FinishWait, AtWait, NoWaiter
  <2>7. wait'[t].pc \notin Watch /\ \A u \in Names \ {t} : wait'[u] = wait[u]
    BY <2>6 DEF Typed, WaitOK, Watch
  <2> QED
    BY <1>0, <2>1, <2>5, <2>6, <2>7, LoopGoesOn DEF Save
<1> QED
  BY <1>1, <1>2, <1>3, <1>4, <1>5 DEF Waiting

(* Spawning.  The task in hand is not watched, and has no run on record. *)
LEMMA InHandNow ==
    ASSUME Typed, WatchingNow, FileInv, NEW p \in Procs, ctl[p].pc \in {"create", "send", "backoff"}
    PROVE  LET t == ctl[p].task
           IN  /\ t \in Names /\ mem[p].rows[t] \in Row /\ ctl[p] \in Control
               /\ mem[p].rows[t].status \in {"pending", "running"} /\ mem[p].rows[t].run = 0
               /\ ctl[p].pc = "send" => mem[p].rows[t].status = "running"
               /\ p = "loop" => wait[t].pc \notin Watch
               /\ Up(p)
<1> DEFINE t == ctl[p].task
<1>1. t \in Names /\ mem[p].rows[t] \in Row /\ ctl[p] \in Control
  BY RowAt DEF Typed, CtlOK, AtHand
<1>2. InHand(p, t)
  BY DEF InHand, Spawns
<1>3. p = "loop" => wait[t].pc \notin Watch
  BY <1>1, AwaitedRuns DEF Hand
<1> QED
  BY <1>1, <1>2, <1>3 DEF FileInv, HandInv, Up

(* A spawn saves its one row, or ends. *)
LEMMA SpawnWrites ==
    ASSUME Typed, FileInv, NEW p \in Procs, Up(p), NEW t \in Names, NEW r \in Row, NEW c,
           Writes(p, t, r, c),
           mem[p].rows[t].status # "handed-off",
           p = "loop" => wait[t].pc \notin Watch /\ c.pc # "off" /\ c.known = ctl[p].known,
           r.status \in {"pending", "running", "error"}, r.run = 0,
           c.pc = "send" => r.status = "running",
           \A u \in Names : Hand(c, u) => u = t /\ r.status # "error",
           UNCHANGED <<wait, handoff, failure>>
    PROVE  FileInv'
<1>1. "running" # "handed-off" /\ "pending" # "handed-off" /\ "error" # "handed-off"
  OBVIOUS
<1>2. \A u \in Names : Hand(c, u) =>
        IF u = t THEN /\ r.status \in {"pending", "running"} /\ r.run = 0
                      /\ c.pc = "send" => r.status = "running"
        ELSE InHand(p, u) /\ c.pc = ctl[p].pc
  OBVIOUS
<1> QED
  BY <1>1, <1>2, RowWritten

LEMMA TryFailed ==
    ASSUME Typed, WatchingNow, FileInv, NEW p \in Procs, ctl[p].pc \in {"create", "send"},
           NEW row \in Row, row.status \in {"pending", "running"}, row.run = 0,
           AttemptFails(p, row), UNCHANGED <<wait, handoff, failure>>
    PROVE  FileInv'
<1> DEFINE t == ctl[p].task
           error == [row EXCEPT !.status = "error"]
           back == [ctl[p] EXCEPT !.pc = "backoff", !.agent = 0]
           scan == [ctl[p] EXCEPT !.pc = "scan", !.task = NoTask, !.try = 0, !.agent = 0]
<1>1. /\ t \in Names /\ ctl[p] \in Control /\ Up(p) /\ mem[p].rows[t].status # "handed-off"
      /\ p = "loop" => wait[t].pc \notin Watch
  BY InHandNow
<1>2. error \in Row /\ error.status = "error" /\ error.run = 0
  BY DEF Row, Statuses
<1>3. /\ back.pc = "backoff" /\ back.task = t /\ scan.pc = "scan" /\ Idle.pc = "off"
      /\ back.known = ctl[p].known /\ scan.known = ctl[p].known
  BY <1>1 DEF Control, Idle
<1>4. p # "loop" => p = "command"
  BY DEF Procs
<1> HIDE DEF error
<1>5. \/ Touch(p, t, row) /\ Goto(p, back)
      \/ /\ disk' = [mem[p] EXCEPT !.rows[t] = error]
         /\ IF p = "loop" THEN mem' = [mem EXCEPT ![p] = disk'] /\ Goto(p, scan)
                          ELSE EndCommand
  BY DEF AttemptFails, error
<1> HIDE DEF back, scan
<1>6. \/ Writes(p, t, row, back)
      \/ Writes(p, t, error, scan)
      \/ Writes(p, t, error, Idle) /\ p = "command"
  BY <1>3, <1>4, <1>5 DEF Writes, Touch, Save, Goto, EndCommand
<1>7. CASE Writes(p, t, row, back)
  BY <1>1, <1>3, <1>7, SpawnWrites DEF Hand
<1>8. CASE Writes(p, t, error, scan)
  BY <1>1, <1>2, <1>3, <1>8, SpawnWrites DEF Hand
<1>9. CASE Writes(p, t, error, Idle) /\ p = "command"
  BY <1>1, <1>2, <1>3, <1>9, SpawnWrites DEF Hand
<1> QED
  BY <1>6, <1>7, <1>8, <1>9

LEMMA TryStarted ==
    ASSUME Typed, FileInv, NEW p \in Procs, Up(p), NEW t \in Names, NEW row \in Row,
           mem[p].rows[t].status # "handed-off", p = "loop" => wait[t].pc \notin Watch,
           row.status \in {"pending", "running"}, row.run = 0,
           NEW c \in Control, c.known = ctl[p].known, Attempt(p, t, row, c),
           UNCHANGED <<wait, handoff, failure>>
    PROVE  FileInv'
<1> DEFINE rows == [mem[p].rows EXCEPT ![t] = row]
           sent == [row EXCEPT !.startingRef = StartingRefForTask(rows, t)]
           create == [c EXCEPT !.pc = "create", !.task = t, !.try = @ + 1]
<1>1. \E r \in {row, sent} : Touch(p, t, r) /\ Goto(p, create)
  <2>1. \/ Touch(p, t, row) /\ Goto(p, create)
        \/ Touch(p, t, sent) /\ Goto(p, create)
    BY DEF Attempt
  <2> QED
    BY <2>1
<1>2. create.pc = "create" /\ create.task = t /\ create.known = c.known
  BY DEF Control
<1>3. StartingRefForTask(rows, t) \in {"base"} \cup Branches
  <2>1. rows \in [Names -> Row] /\ Verifies[t] \in Names
    BY NamesAssumption DEF Typed, StatesOK, State
  <2> HIDE DEF rows
  <2>2. rows[Verifies[t]] \in Row /\ rows[t] \in Row
    BY <2>1
  <2> QED
    BY <2>2 DEF StartingRefForTask, Row
<1>4. sent \in Row /\ sent.status = row.status /\ sent.run = row.run
  BY <1>3 DEF Row
<1> HIDE DEF sent, create
<1>5. PICK r \in {row, sent} : Touch(p, t, r) /\ Goto(p, create)
  BY <1>1
<1>6. r \in Row /\ r.status = row.status /\ r.run = row.run
  BY <1>4
<1>7. Writes(p, t, r, create)
  BY <1>2, <1>5 DEF Writes, Touch, Save, Goto
<1> QED
  BY <1>2, <1>6, <1>7, SpawnWrites DEF Hand

LEMMA SpawningFiled ==
    ASSUME Typed, WatchingNow, FileInv, NEW p \in Procs, Spawning(p)
    PROVE  FileInv'
<1> DEFINE t == ctl[p].task
           n == ctl[p].agent
<1>1. /\ ctl[p].pc \in {"create", "send", "backoff"} /\ UNCHANGED <<handoff, failure>>
      /\ ~(SendReturns(p)) => UNCHANGED wait
  BY DEF Spawning, CreateFails, CreateReturns, BackoffEnds, SendFails, SendReturns
<1>2. /\ t \in Names /\ mem[p].rows[t] \in Row /\ ctl[p] \in Control
      /\ mem[p].rows[t].status \in {"pending", "running"} /\ mem[p].rows[t].run = 0
      /\ ctl[p].pc = "send" => mem[p].rows[t].status = "running"
      /\ p = "loop" => wait[t].pc \notin Watch
      /\ Up(p)
  BY <1>1, InHandNow
<1>3. CASE CreateFails(p)
  BY <1>1, <1>2, <1>3, TryFailed DEF CreateFails
<1>4. CASE CreateReturns(p)
  <2> DEFINE row == [mem[p].rows[t] EXCEPT !.status = "running", !.run = 0]
             send == [ctl[p] EXCEPT !.pc = "send", !.agent = Len(cloud[t]) + 1]
  <2>1. row \in Row /\ row.status = "running" /\ row.run = 0
    BY <1>2 DEF Row, Statuses
  <2>2. send.pc = "send" /\ send.task = t /\ send.known = ctl[p].known
    BY <1>2 DEF Control
  <2>3. UNCHANGED <<wait, handoff, failure>> /\ ctl[p].pc = "create"
        /\ \/ AttemptFails(p, row)
           \/ Touch(p, t, row) /\ Goto(p, send)
    BY <1>4 DEF CreateReturns
  <2> HIDE DEF row, send
  <2>4. CASE AttemptFails(p, row)
    BY <1>2, <2>1, <2>3, <2>4, TryFailed
  <2>5. CASE Touch(p, t, row) /\ Goto(p, send)
    <3>1. Writes(p, t, row, send)
      BY <2>2, <2>5 DEF Writes, Touch, Save, Goto
    <3> QED
      BY <1>2, <2>1, <2>2, <2>3, <3>1, SpawnWrites DEF Hand
  <2> QED
    BY <2>3, <2>4, <2>5
<1>5. CASE BackoffEnds(p)
  BY <1>1, <1>2, <1>5, TryStarted DEF BackoffEnds
<1>6. CASE SendFails(p)
  BY <1>1, <1>2, <1>6, TryFailed DEF SendFails
<1>7. CASE SendReturns(p)
  <2> DEFINE row == [mem[p].rows[t] EXCEPT !.run = n]
             scan == [ctl[p] EXCEPT !.pc = "scan", !.task = NoTask, !.try = 0, !.agent = 0]
             w == [NoWaiter EXCEPT !.pc = "wait", !.run = n]
  <2>1. row \in Row /\ row.status = "running" /\ row.run = n
    BY <1>1, <1>2, <1>7 DEF Row, Control, SendReturns
  <2>2. scan.pc = "scan" /\ scan.known = ctl[p].known /\ Idle.pc = "off" /\ w.pc = "wait" /\ w.run = n
    BY <1>2 DEF Control, Idle, NoWaiter
  <2>3. /\ disk' = [mem[p] EXCEPT !.rows[t] = row]
        /\ IF p = "loop"
           THEN /\ mem' = [mem EXCEPT ![p] = disk'] /\ Goto(p, scan) /\ wait' = [wait EXCEPT ![t] = w]
           ELSE EndCommand /\ UNCHANGED wait
    BY <1>7 DEF SendReturns
  <2> HIDE DEF row, scan, w
  <2>4. \A u \in Names : ~Hand(scan, u) /\ ~Hand(Idle, u)
    BY <2>2 DEF Hand
  <2>5. "running" \notin {"pending", "absent"} /\ "running" # "handed-off" /\ "running" # "error"
    OBVIOUS
  <2>6. CASE p = "loop"
    <3>1. Writes(p, t, row, scan)
      BY <2>2, <2>3, <2>6 DEF Writes, Goto
    <3>2. wait'[t] = w /\ \A u \in Names \ {t} : wait'[u] = wait[u] /\ failure'[u] = failure[u]
      BY <1>1, <1>2, <2>3, <2>6 DEF Typed, WaitOK
    <3>3. mem[p].rows[t].status # "handed-off"
      BY <1>2
    <3> QED
      BY <1>1, <1>2, <2>1, <2>2, <2>4, <2>5, <2>6, <3>1, <3>2, <3>3, RowWritten
  <2>7. CASE p = "command"
    <3>1. Writes(p, t, row, Idle)
      BY <2>2, <2>3, <2>7 DEF Writes, EndCommand
    <3>2. \A u \in Names \ {t} : wait'[u] = wait[u] /\ failure'[u] = failure[u]
      BY <1>1, <2>3, <2>7
    <3> QED
      BY <1>1, <1>2, <2>1, <2>2, <2>3, <2>4, <2>5, <2>7, <3>1, <3>2, RowWritten
  <2> QED
    BY <2>6, <2>7 DEF Procs
<1> QED
  BY <1>3, <1>4, <1>5, <1>6, <1>7 DEF Spawning

(* The loop.  One that ends leaves the file as it is, or as it sees it.     *)
LEMMA LoopStops ==
    ASSUME Typed, FileInv, Up("loop"), disk' = disk \/ disk' = L,
           ctl' = [ctl EXCEPT !["loop"] = Idle], mem' = [mem EXCEPT !["loop"] = Empty],
           wait' = [t \in Names |-> NoWaiter], UNCHANGED <<handoff, failure>>
    PROVE  FileInv'
<1>1. /\ "loop" \in Procs /\ ctl'["loop"] = Idle /\ Idle.pc = "off" /\ NoWaiter.pc = "none"
      /\ \A q \in Procs \ {"loop"} : mem'[q] = mem[q] /\ ctl'[q] = ctl[q]
  BY DEF Procs, Idle, NoWaiter, Typed, StatesOK, CtlOK
<1>2. ~Up("loop")' /\ \A t \in Names : ~InHand("loop", t)' /\ wait'[t].pc = "none"
  BY <1>1 DEF Up, InHand, Spawns
<1>3. disk' = disk \/ Alike(disk', mem["loop"])
  BY DEF Alike, L
<1>4. \A t \in Names : /\ wait'[t].pc \notin Watch /\ wait'[t].pc # "filed"
                       /\ handoff'[t] = handoff[t]
  BY <1>2 DEF Watch
<1> QED
  BY <1>1, <1>2, <1>3, <1>4, NothingDecided

LEMMA BootFiled == Typed /\ WatchingNow /\ FileInv /\ Boot => FileInv'
<1> SUFFICES ASSUME Typed, WatchingNow, FileInv, Boot PROVE FileInv'
  OBVIOUS
<1> DEFINE s == Loaded(disk, plan)
           c == [Idle EXCEPT !.pc = "recover", !.cmd = "run", !.todo = With(s.rows, "running"),
                             !.known = With(s.rows, "error")]
<1>1. /\ disk' = s /\ mem' = [mem EXCEPT !["loop"] = s] /\ Goto("loop", c)
      /\ UNCHANGED <<handoff, failure, wait>>
  BY DEF Boot, Save
<1>2. c.pc = "recover" /\ c.known = With(s.rows, "error")
  BY DEF Idle
<1>3. ~Up("loop") /\ "loop" \in Procs /\ \A t \in Names : wait[t].pc \notin Watch
  BY DEF Boot, LoopAt, WatchingNow, Watching, Watch, Up, Procs
<1>4. Recorded(s, handoff) /\ \A t \in Names : Handed(s, t) <=> Handed(disk, t)
  BY LoadedRecorded DEF Typed, WorldOK
<1>5. c.pc # "send" /\ (\A t \in Names : ~Hand(c, t)) /\ With(s.rows, "error") \subseteq c.known
  BY <1>2 DEF Hand
<1> HIDE DEF s, c
<1> QED
  BY <1>1, <1>3, <1>4, <1>5, Started

LEMMA RecoverFiled ==
    ASSUME Typed, WatchingNow, FileInv, NEW t \in Names, RecoverFails(t) \/ RecoverReturns(t)
    PROVE  FileInv'
<1> DEFINE c == ctl["loop"]
           less == [ctl["loop"] EXCEPT !.todo = ctl["loop"].todo \ {t}]
           row == [L.rows[t] EXCEPT !.status = "error"]
           w == [NoWaiter EXCEPT !.pc = "wait", !.run = L.rows[t].run]
<1>1. c.pc = "recover" /\ t \in c.todo
  <2>1. c.pc = "recover" /\ c.todo # {} /\ t = First(c.todo)
    BY DEF RecoverFails, RecoverReturns, Recovering, LoopAt
  <2>2. c.todo \in SUBSET Names
    BY LoopControl
  <2> QED
    BY <2>1, <2>2, FirstIn
<1>2. wait[t].pc \notin Watch /\ L.rows[t].status = "running"
  BY <1>1 DEF WatchingNow, Watching
<1>3. less.pc = "recover" /\ less.known = c.known
  BY <1>1, LoopControl DEF Control
<1>4. \A u \in Names : ~Hand(less, u)
  BY <1>3 DEF Hand
<1>5. Up("loop")
  BY <1>1 DEF Up
<1> HIDE DEF less
<1>6. CASE RecoverFails(t)
  <2>1. /\ Touch("loop", t, row) /\ FailureHandoff(t, L.rows[t].run) /\ Goto("loop", less)
        /\ UNCHANGED <<handoff, wait>>
    BY <1>6 DEF RecoverFails, less
  <2>2. row \in Row /\ row.status = "error" /\ row.run = L.rows[t].run
    BY Awaited DEF Row, Statuses
  <2> HIDE DEF row
  <2> QED
    BY <1>2, <1>3, <1>4, <1>5, <2>1, <2>2, LoopTouches DEF Goto
<1>7. CASE RecoverReturns(t)
  <2>1. /\ wait' = [wait EXCEPT ![t] = w] /\ Goto("loop", less)
        /\ UNCHANGED <<disk, mem, handoff, failure>>
    BY <1>7 DEF RecoverReturns, files, less
  <2>2. w.pc = "wait" /\ w.run = L.rows[t].run
    BY DEF NoWaiter
  <2> HIDE DEF w
  <2>3. wait'[t] = w /\ \A u \in Names \ {t} : wait'[u] = wait[u]
    BY <2>1 DEF Typed, WaitOK
  <2>4. Alike(L, L)
    BY DEF Alike
  <2> QED
    BY <1>3, <1>4, <1>5, <2>1, <2>2, <2>3, <2>4, LoopGoesOn
<1> QED
  BY <1>6, <1>7

LEMMA ScanFiled ==
    ASSUME Typed, WatchingNow, FileInv, NEW t \in Names, Scan(t)
    PROVE  FileInv'
<1> DEFINE row == L.rows[t]
           error == [row EXCEPT !.status = "error"]
           next == [row EXCEPT !.attempts = row.attempts + 1]
           c == [ctl["loop"] EXCEPT !.todo = After(t)]
<1>1. /\ ctl["loop"].pc = "scan" /\ UNCHANGED <<wait, handoff, failure>> /\ row \in Row
      /\ \/ Touch("loop", t, error) /\ Goto("loop", c)
         \/ Attempt("loop", t, next, c)
  BY Awaited DEF Scan, LoopAt
<1>2. row.status = "pending" /\ row.run = 0
  <2>1. Ready \in SUBSET Names /\ Ready # {} /\ t = First(Ready)
    BY LoopControl DEF Ready, Scan
  <2>2. t \in Ready
    BY <2>1, FirstIn
  <2>3. Recorded(L, handoff)
    BY <1>1 DEF FileInv, RecInv, Up, L, Procs
  <2> QED
    BY <2>2, <2>3 DEF Ready, Recorded
<1>3. /\ error \in Row /\ error.status = "error" /\ error.run = 0
      /\ next \in Row /\ next.status = "pending" /\ next.run = 0
  BY <1>1, <1>2 DEF Row, Statuses
<1>4. c \in Control /\ c.pc = "scan" /\ c.known = ctl["loop"].known
  <2>1. After(t) \in SUBSET Names
    BY LoopControl DEF After
  <2>2. ctl["loop"] \in Control
    BY LoopControl
  <2>3. c.known = ctl["loop"].known
    BY <2>2 DEF Control
  <2> QED
    BY <1>1, <2>1, <2>3, LoopControl
<1>5. Up("loop") /\ wait[t].pc \notin Watch /\ "loop" \in Procs
  BY <1>1, <1>2, AwaitedRuns DEF Up, Procs
<1>6. \A u \in Names : ~Hand(c, u)
  BY <1>4 DEF Hand
<1> HIDE DEF error, next, c
<1>7. CASE Touch("loop", t, error) /\ Goto("loop", c)
  BY <1>1, <1>2, <1>3, <1>4, <1>5, <1>6, <1>7, LoopTouches DEF Goto
<1>8. CASE Attempt("loop", t, next, c)
  BY <1>1, <1>2, <1>3, <1>4, <1>5, <1>8, TryStarted DEF L
<1> QED
  BY <1>1, <1>7, <1>8

LEMMA ReconcilingFiled == Typed /\ WatchingNow /\ FileInv /\ Reconciling => FileInv'
<1> SUFFICES ASSUME Typed, WatchingNow, FileInv, Reconciling PROVE FileInv'
  OBVIOUS
<1>0. Alike(L, L)
  BY DEF Alike
<1>1. CASE \E t \in Names : RecoverFails(t) \/ RecoverReturns(t)
  BY <1>1, RecoverFiled
<1>2. CASE \E t \in Names : Scan(t)
  BY <1>2, ScanFiled
<1>3. ASSUME Recovered \/ Decide \/ Checkpoint \/ Settle, \E how : Exit(how)
      PROVE  FileInv'
  <2>1. disk' = disk \/ disk' = L
    BY <1>3 DEF Recovered, Decide, Checkpoint, Settle
  <2>2. Up("loop") /\ UNCHANGED <<handoff, failure>>
    BY <1>3 DEF Recovered, Decide, Checkpoint, Settle, LoopAt, Up
  <2> QED
    BY <1>3, <2>1, <2>2, LoopStops DEF Exit
<1>4. ASSUME UNCHANGED <<mem, disk, wait, handoff, failure>>, ctl["loop"].pc # "off",
             NEW pc \in {"poll", "sleep", "settle", "decide"},
             \/ Goto("loop", [ctl["loop"] EXCEPT !.pc = pc])
             \/ Goto("loop", [ctl["loop"] EXCEPT !.pc = pc, !.todo = {}])
      PROVE  FileInv'
  <2>1. PICK c : /\ Goto("loop", c)
                 /\ \/ c = [ctl["loop"] EXCEPT !.pc = pc]
                    \/ c = [ctl["loop"] EXCEPT !.pc = pc, !.todo = {}]
    BY <1>4
  <2>2. c.pc = pc /\ c.known = ctl["loop"].known
    BY <2>1, LoopControl DEF Control
  <2>3. \A t \in Names : ~Hand(c, t)
    BY <2>2 DEF Hand
  <2> QED
    BY <1>0, <1>4, <2>1, <2>2, <2>3, LoopGoesOn DEF Up
<1>5. CASE Recovered
  BY <1>3, <1>4, <1>5 DEF Recovered, LoopAt
<1>6. CASE Decide
  <2> DEFINE on == IF CanMakeProgress(L.rows) THEN "sleep" ELSE "settle"
  <2>1. \/ Exit("error")
        \/ Goto("loop", [ctl["loop"] EXCEPT !.pc = on]) /\ UNCHANGED <<disk, mem, wait>>
    BY <1>6 DEF Decide
  <2>2. UNCHANGED <<handoff, failure>> /\ ctl["loop"].pc # "off"
    BY <1>6 DEF Decide, LoopAt
  <2>3. on \in {"poll", "sleep", "settle", "decide"}
    OBVIOUS
  <2> HIDE DEF on
  <2> QED
    BY <1>3, <1>4, <1>6, <2>1, <2>2, <2>3
<1>7. CASE Checkpoint
  BY <1>3, <1>7 DEF Checkpoint
<1>8. CASE Settle
  BY <1>3, <1>8 DEF Settle
<1>9. CASE Wake
  BY <1>4, <1>9 DEF Wake, LoopAt, files
<1>10. CASE ScanEnds
  BY <1>4, <1>10 DEF ScanEnds, LoopAt, files
<1>11. CASE PollReturns \/ PollFails
  <2>1. /\ ctl["loop"].pc = "poll" /\ UNCHANGED <<handoff, failure, wait>>
        /\ \E andon : StartSweep(andon)
    BY <1>11 DEF PollReturns, PollFails, LoopAt
  <2>2. PICK andon : StartSweep(andon)
    BY <2>1
  <2>3. \E c : Goto("loop", c) /\ c.pc \in {"decide", "scan"} /\ c.known = ctl["loop"].known
    <3>1. \E pc \in {"decide", "scan"} : \E S : Goto("loop", [ctl["loop"] EXCEPT !.pc = pc, !.todo = S])
      BY <2>2 DEF StartSweep
    <3>2. PICK pc \in {"decide", "scan"} : \E S : Goto("loop", [ctl["loop"] EXCEPT !.pc = pc, !.todo = S])
      BY <3>1
    <3>4. PICK S : Goto("loop", [ctl["loop"] EXCEPT !.pc = pc, !.todo = S])
      BY <3>2
    <3> DEFINE c == [ctl["loop"] EXCEPT !.pc = pc, !.todo = S]
    <3>3. c.pc = pc /\ c.known = ctl["loop"].known
      BY LoopControl DEF Control
    <3> QED
      BY <3>4, <3>3
  <2>4. PICK c : Goto("loop", c) /\ c.pc \in {"decide", "scan"} /\ c.known = ctl["loop"].known
    BY <2>3
  <2>5. \A t \in Names : ~Hand(c, t)
    BY <2>4 DEF Hand
  <2>6. \E s : /\ Alike(s, L)
               /\ mem' = [mem EXCEPT !["loop"] = s] \/ UNCHANGED mem
               /\ disk' = disk \/ disk' = s
    <3>1. [L EXCEPT !.andon = cord].rows = L.rows
      BY Awaited DEF State
    <3>2. Alike([L EXCEPT !.andon = cord], L)
      BY <3>1 DEF Alike
    <3>3. \E s \in {L, [L EXCEPT !.andon = cord]} : Save("loop", s) \/ UNCHANGED <<mem, disk>>
      BY <1>11 DEF PollReturns, PollFails, LogAttention, Snapshot, L
    <3> QED
      BY <1>0, <3>2, <3>3 DEF Save
  <2> QED
    BY <2>1, <2>4, <2>5, <2>6, LoopGoesOn DEF Up
<1> QED
  BY <1>1, <1>2, <1>5, <1>6, <1>7, <1>8, <1>9, <1>10, <1>11 DEF Reconciling

(* The commands.  One that starts hands nothing off and takes nothing back. *)
LEMMA FoundRecorded ==
    ASSUME Typed, FileInv
    PROVE  Recorded(Found, handoff) /\ \A t \in Names : Handed(Found, t) <=> Handed(disk, t)
  BY LoadedRecorded DEF Found, Typed, WorldOK

LEMMA CommandBegins ==
    ASSUME Typed, FileInv, NEW cmd, NEW t, StartCommand(cmd, t), NEW s, NEW c,
           Recorded(s, handoff), \A u \in Names : Handed(s, u) <=> Handed(disk, u),
           \/ EndsWith(s)
           \/ /\ GoesOn(s, c) /\ c.pc # "send"
              /\ \A u \in Names : Hand(c, u) =>
                    s.rows[u].status \in {"pending", "running"} /\ s.rows[u].run = 0
    PROVE  FileInv'
<1>1. "command" \in Procs /\ ~Up("command") /\ UNCHANGED <<handoff, failure, wait>>
  BY DEF Procs, Up, StartCommand, CommandAt
<1>2. disk' = s
  BY DEF EndsWith, GoesOn, Save
<1>3. \/ UNCHANGED <<mem, ctl>>
      \/ /\ mem' = [mem EXCEPT !["command"] = s] /\ Goto("command", c) /\ c.pc # "send"
         /\ \A u \in Names : Hand(c, u) =>
                    s.rows[u].status \in {"pending", "running"} /\ s.rows[u].run = 0
  BY DEF EndsWith, GoesOn, Save
<1>4. "command" # "loop"
  OBVIOUS
<1> QED
  BY <1>1, <1>2, <1>3, <1>4, Started

LEMMA SpawnCommandFiled ==
    ASSUME Typed, FileInv, NEW t \in Names, SpawnCommand(t)
    PROVE  FileInv'
<1> DEFINE row == Found.rows[t]
           new == IF row.status = "absent" THEN InlineTask(t) ELSE row
           next == [new EXCEPT !.attempts = new.attempts + 1]
           s == [Found EXCEPT !.rows[t] = next]
           c == [Idle EXCEPT !.pc = "create", !.cmd = "spawn", !.task = t, !.try = 1]
<1>1. /\ StartCommand("spawn", t)
      /\ EndsWith(Found) \/ (GoesOn(s, c) /\ row.status \in {"absent", "pending"})
  BY DEF SpawnCommand
<1>2. c.pc = "create" /\ c.task = t
  BY DEF Idle
<1>3. Recorded(Found, handoff) /\ \A u \in Names : Handed(Found, u) <=> Handed(disk, u)
  BY FoundRecorded
<1>4. ASSUME row.status \in {"absent", "pending"}
      PROVE  next \in Row /\ next.status = "pending" /\ next.run = 0
  <2>1. InlineTask(t) \in Row /\ InlineTask(t).run = 0 /\ InlineTask(t).status = "pending"
    BY NewRowType DEF InlineTask
  <2>2. row \in Row /\ row.run = 0
    BY <1>3, <1>4, FoundType DEF Recorded
  <2>3. new \in Row /\ new.run = 0 /\ new.status = "pending"
    BY <1>4, <2>1, <2>2
  <2> HIDE DEF new
  <2> QED
    BY <2>3 DEF Row
<1> HIDE DEF next
<1>5. ASSUME row.status \in {"absent", "pending"}
      PROVE  s.rows[t] = next /\ \A u \in Names \ {t} : s.rows[u] = Found.rows[u]
  BY <1>4, <1>5, FoundType, RowChanged
<1> HIDE DEF s
<1>6. ASSUME row.status \in {"absent", "pending"}
      PROVE  Recorded(s, handoff) /\ \A u \in Names : Handed(s, u) <=> Handed(disk, u)
  <2>1. \A u \in Names : Handed(s, u) <=> Handed(Found, u)
    BY <1>4, <1>5, <1>6 DEF Handed
  <2>2. ASSUME NEW u \in Names
        PROVE  /\ Handed(s, u) => handoff[u] = [run |-> s.rows[u].run, end |-> "finished"]
               /\ s.rows[u].status \in {"pending", "absent"} => s.rows[u].run = 0
    <3>1. CASE u = t
      BY <1>4, <1>5, <1>6, <3>1 DEF Handed
    <3>2. CASE u # t
      BY <1>3, <1>5, <1>6, <3>2 DEF Handed, Recorded
    <3> QED
      BY <3>1, <3>2
  <2> QED
    BY <1>3, <2>1, <2>2 DEF Recorded
<1> HIDE DEF c, row
<1>7. CASE EndsWith(Found)
  BY <1>1, <1>3, <1>7, CommandBegins
<1>8. CASE GoesOn(s, c) /\ row.status \in {"absent", "pending"}
  <2>1. \A u \in Names : Hand(c, u) =>
            s.rows[u].status \in {"pending", "running"} /\ s.rows[u].run = 0
    BY <1>2, <1>4, <1>5, <1>8 DEF Hand
  <2> QED
    BY <1>1, <1>2, <1>6, <1>8, <2>1, CommandBegins
<1> QED
  BY <1>1, <1>7, <1>8

LEMMA RespawnCommandFiled ==
    ASSUME Typed, FileInv, NEW t \in Names, NEW cascade \in BOOLEAN, RespawnCommand(t, cascade)
    PROVE  FileInv'
<1> DEFINE again == {u \in With(Found.rows, "pruned") : cascade /\ t \in RowAncestors(Found.rows, u)}
           rows == [u \in Names |-> IF u \in again \cup {t} THEN Respawned(Found.rows[u], u)
                                    ELSE Found.rows[u]]
           cmd == IF cascade THEN "cascade" ELSE "respawn"
           s == [Found EXCEPT !.rows = rows]
<1>1. /\ StartCommand(cmd, t)
      /\ \/ EndsWith(Found)
         \/ EndsWith(s) /\ Found.rows[t].status # "handed-off"
  BY DEF RespawnCommand
<1> HIDE DEF cmd
<1>2. Recorded(Found, handoff) /\ \A u \in Names : Handed(Found, u) <=> Handed(disk, u)
  BY FoundRecorded
<1>3. CASE EndsWith(Found)
  BY <1>1, <1>2, <1>3, CommandBegins
<1>4. CASE EndsWith(s) /\ Found.rows[t].status # "handed-off"
  <2>1. \A u \in again \cup {t} : u \in Names /\ ~Handed(Found, u)
    BY <1>4 DEF With, Handed
  <2> HIDE DEF again
  <2>2. \A u \in Names :
          /\ rows[u] \in Row
          /\ u \in again \cup {t} => rows[u].status = "pending" /\ rows[u].run = 0
          /\ u \notin again \cup {t} => rows[u] = Found.rows[u]
    <3>1. ASSUME NEW u \in Names
          PROVE  LET r == Respawned(Found.rows[u], u)
                 IN  r \in Row /\ r.run = 0 /\ r.status = "pending"
      <4>1. Found.rows[u] \in Row
        BY FoundType
      <4>2. Respawned(Found.rows[u], u).status = "pending"
        BY <4>1 DEF Respawned, Row
      <4> QED
        BY <4>1, <4>2, RespawnedType
    <3> QED
      BY <3>1, FoundType
  <2>3. rows \in [Names -> Row]
    BY <2>2
  <2> HIDE DEF rows
  <2>4. s.rows = rows
    BY <2>3, FoundType, RowsChanged
  <2> HIDE DEF s
  <2>5. \A u \in Names : Handed(s, u) <=> Handed(Found, u)
    BY <2>1, <2>2, <2>4 DEF Handed
  <2>6. Recorded(s, handoff)
    BY <1>2, <2>2, <2>4, <2>5 DEF Recorded, Handed
  <2> QED
    BY <1>1, <1>2, <1>4, <2>5, <2>6, CommandBegins
<1> QED
  BY <1>1, <1>3, <1>4

(* A command that is up goes on with what it holds, or marks one row.       *)
LEMMA CommandGoesOn ==
    ASSUME Typed, FileInv, Up("command"), NEW c, ctl' = [ctl EXCEPT !["command"] = c],
           \A t \in Names : ~Hand(c, t), UNCHANGED <<disk, handoff, failure, wait>>,
           UNCHANGED mem \/ (mem' = [mem EXCEPT !["command"] = Empty] /\ c.pc = "off")
    PROVE  FileInv'
<1>1. /\ "command" \in Procs /\ ctl'["command"] = c
      /\ \A q \in Procs \ {"command"} : mem'[q] = mem[q] /\ ctl'[q] = ctl[q]
  BY DEF Procs, Typed, StatesOK, CtlOK
<1>2. Up("command")' => Alike(mem'["command"], mem["command"])
  BY <1>1 DEF Up, Alike
<1>3. \A t \in Names : ~InHand("command", t)'
  BY <1>1 DEF InHand, Spawns, Hand
<1> QED
  BY <1>1, <1>2, <1>3, NothingDecided

LEMMA CommandMarks ==
    ASSUME Typed, FileInv, Up("command"), NEW t \in Names, NEW status \in {"error", "pruned", "cancelled"},
           NEW c, Writes("command", t, [C.rows[t] EXCEPT !.status = status], c),
           \A u \in Names : ~Hand(c, u), UNCHANGED <<handoff, failure, wait>>
    PROVE  FileInv'
<1> DEFINE r == [C.rows[t] EXCEPT !.status = status]
<1>1. r \in Row /\ r.status = status
  BY CommandRow DEF Row, Statuses
<1> HIDE DEF r
<1>2. Writes("command", t, r, c) /\ "command" \in Procs
  BY DEF r, Procs
<1> QED
  BY <1>1, <1>2, RowWritten

LEMMA StopTaskFiled ==
    ASSUME Typed, FileInv, NEW t \in Names, StopTask(t)
    PROVE  FileInv'
<1> DEFINE next == [ctl["command"] EXCEPT !.todo = ctl["command"].todo \ {t}]
           cancel == [next EXCEPT !.pc = "cancel", !.task = t]
<1>1. /\ ctl["command"].pc = "stop" /\ UNCHANGED <<handoff, failure, wait>>
      /\ \/ (Goto("command", cancel) \/ Goto("command", next)) /\ UNCHANGED <<mem, disk>>
         \/ \E status \in {"error", "pruned"} :
                Touch("command", t, [C.rows[t] EXCEPT !.status = status]) /\ Goto("command", next)
  BY DEF StopTask, CommandAt
<1>2. next.pc = "stop" /\ cancel.pc = "cancel"
  BY <1>1, CommandRow DEF Control
<1>3. Up("command") /\ \A u \in Names : ~Hand(next, u) /\ ~Hand(cancel, u)
  BY <1>1, <1>2 DEF Up, Hand
<1> HIDE DEF next, cancel
<1>4. CASE (Goto("command", cancel) \/ Goto("command", next)) /\ UNCHANGED <<mem, disk>>
  BY <1>1, <1>3, <1>4, CommandGoesOn DEF Goto
<1>5. ASSUME NEW status \in {"error", "pruned"},
             Touch("command", t, [C.rows[t] EXCEPT !.status = status]), Goto("command", next)
      PROVE  FileInv'
  <2>1. Writes("command", t, [C.rows[t] EXCEPT !.status = status], next)
    BY <1>2, <1>5 DEF Writes, Touch, Save, Goto
  <2> QED
    BY <1>1, <1>3, <2>1, CommandMarks
<1> QED
  BY <1>1, <1>4, <1>5

LEMMA CancelFiled ==
    ASSUME Typed, FileInv, CancelReturns \/ CancelFails
    PROVE  FileInv'
<1> DEFINE t == ctl["command"].task
           stop == [ctl["command"] EXCEPT !.pc = "stop", !.task = NoTask]
<1>1. /\ ctl["command"].pc = "cancel" /\ UNCHANGED <<handoff, failure, wait>>
      /\ \/ \E status \in {"cancelled", "error"} : NextVictim([C.rows[t] EXCEPT !.status = status])
         \/ EndCommand /\ UNCHANGED disk
  BY DEF CancelReturns, CancelFails, CommandAt
<1>2. t \in Names /\ Up("command")
  BY <1>1 DEF Typed, CtlOK, AtHand, Procs, Up
<1>3. stop.pc = "stop" /\ Idle.pc = "off"
  BY CommandRow, <1>2 DEF Control, Idle
<1>4. \A u \in Names : ~Hand(stop, u) /\ ~Hand(Idle, u)
  BY <1>3 DEF Hand
<1> HIDE DEF stop
<1>5. ASSUME NEW status \in {"cancelled", "error"}, NextVictim([C.rows[t] EXCEPT !.status = status])
      PROVE  FileInv'
  <2>1. \/ Writes("command", t, [C.rows[t] EXCEPT !.status = status], Idle)
        \/ Writes("command", t, [C.rows[t] EXCEPT !.status = status], stop)
    BY <1>3, <1>5 DEF NextVictim, EndCommand, Writes, Touch, Save, Goto, C, stop
  <2> QED
    BY <1>1, <1>2, <1>4, <2>1, CommandMarks
<1>6. CASE EndCommand /\ UNCHANGED disk
  BY <1>1, <1>2, <1>3, <1>4, <1>6, CommandGoesOn DEF EndCommand
<1> QED
  BY <1>1, <1>5, <1>6

LEMMA OperatingFiled == Typed /\ FileInv /\ Operating => FileInv'
<1> SUFFICES ASSUME Typed, FileInv, Operating PROVE FileInv'
  OBVIOUS
<1>0. Recorded(Found, handoff) /\ \A t \in Names : Handed(Found, t) <=> Handed(disk, t)
  BY FoundRecorded
<1>1. ASSUME NEW t \in Names, SpawnCommand(t) PROVE FileInv'
  BY <1>1, SpawnCommandFiled
<1>2. ASSUME NEW t \in Names, NEW cascade \in BOOLEAN, RespawnCommand(t, cascade) PROVE FileInv'
  BY <1>2, RespawnCommandFiled
<1>3. ASSUME NEW t \in Names, CancelCommand(t) PROVE FileInv'
  <2> DEFINE c == [Idle EXCEPT !.pc = "cancel", !.cmd = "cancel", !.task = t]
  <2>1. c.pc = "cancel"
    BY DEF Idle
  <2>2. StartCommand("cancel", t) /\ (EndsWith(Found) \/ GoesOn(Found, c))
    BY <1>3 DEF CancelCommand
  <2> HIDE DEF c
  <2> QED
    BY <1>0, <2>1, <2>2, CommandBegins DEF Hand
<1>4. ASSUME NEW t \in Names \cup {NoTask}, KillCommand(t) PROVE FileInv'
  <2>1. StartCommand("kill", t)
        /\ \E S : GoesOn(Found, [Idle EXCEPT !.pc = "stop", !.cmd = "kill", !.todo = S])
    BY <1>4 DEF KillCommand
  <2>2. PICK S : GoesOn(Found, [Idle EXCEPT !.pc = "stop", !.cmd = "kill", !.todo = S])
    BY <2>1
  <2> DEFINE c == [Idle EXCEPT !.pc = "stop", !.cmd = "kill", !.todo = S]
  <2>3. c.pc = "stop"
    BY DEF Idle
  <2>4. GoesOn(Found, c)
    BY <2>2
  <2> HIDE DEF c
  <2> QED
    BY <1>0, <2>1, <2>3, <2>4, CommandBegins DEF Hand
<1>5. ASSUME NEW t \in Names, StopTask(t) PROVE FileInv'
  BY <1>5, StopTaskFiled
<1>6. CASE StopEnds \/ CommandDies
  <2>1. /\ Up("command") /\ EndCommand /\ UNCHANGED <<disk, handoff, failure, wait>>
        /\ Idle.pc = "off"
    BY <1>6 DEF StopEnds, CommandDies, CommandAt, Up, files, Idle
  <2> QED
    BY <2>1, CommandGoesOn DEF EndCommand, Hand
<1>7. CASE CancelReturns \/ CancelFails
  BY <1>7, CancelFiled
<1> QED
  BY <1>1, <1>2, <1>3, <1>4, <1>5, <1>6, <1>7 DEF Operating

LEMMA NextFiled == Typed /\ WatchingNow /\ FileInv /\ [Next]_vars => FileInv'
<1> SUFFICES ASSUME Typed, WatchingNow, FileInv, [Next]_vars PROVE FileInv'
  OBVIOUS
<1>1. CASE Boot
  BY <1>1, BootFiled
<1>2. CASE Reconciling
  BY <1>2, ReconcilingFiled
<1>3. CASE LoopDies
  BY <1>3, LoopStops DEF LoopDies, LoopAt, Up, files
<1>4. CASE \E p \in Procs : Spawning(p)
  BY <1>4, SpawningFiled
<1>5. CASE \E t \in Names : Waiting(t)
  BY <1>5, WaitingFiled
<1>6. CASE Operating
  BY <1>6, OperatingFiled
<1>7. CASE UNCHANGED <<files, mem, ctl, wait>>
  BY <1>7 DEF files, FileInv, RecInv, OrderInv, HandInv, WaitInv, ErrorInv, Up, Handed, Told,
     InHand, Spawns, L, C
<1>8. CASE \/ \E p \in Procs : RunStarts(p)
           \/ \E t \in Names : \E n \in DOMAIN cloud[t] :
                \E end \in {"finished", "error"}, branch \in Pushes[t] : RunEnds(t, n, end, branch)
           \/ \E p \in Plans : EditPlan(p)
           \/ PullCord \/ ReleaseCord
           \/ UNCHANGED vars
  <2>1. UNCHANGED <<files, procs>>
    BY <1>8 DEF RunStarts, RunEnds, EditPlan, PullCord, ReleaseCord, vars
  <2> QED
    BY <1>7, <2>1 DEF procs
<1> QED
  BY <1>1, <1>2, <1>3, <1>4, <1>5, <1>6, <1>8 DEF Next

LEMMA InitFiled == Init => FileInv
<1> SUFFICES ASSUME Init PROVE FileInv
  OBVIOUS
<1>1. \A t \in Names : disk.rows[t] = NoRow /\ NoRow.status = "absent" /\ NoRow.run = 0
  BY EmptyType DEF Init, NoRow
<1>2. \A p \in Procs : ~Up(p) /\ \A t \in Names : ~InHand(p, t)
  BY DEF Init, Idle, Up, InHand, Spawns
<1>3. \A t \in Names : wait[t].pc = "none"
  BY DEF Init, NoWaiter
<1> QED
  BY <1>1, <1>2, <1>3 DEF FileInv, RecInv, Recorded, OrderInv, HandInv, WaitInv, ErrorInv,
     Handed, Watch, Procs

\* Typed, watched and filed: what every step keeps.
Filed == Typed /\ WatchingNow /\ FileInv

LEMMA FiledInductive == (Init => Filed) /\ (Filed /\ [Next]_vars => Filed')
<1>1. Init => WatchingNow
  BY DEF Init, WatchingNow, Watching, Idle, NoWaiter, Procs
<1> QED
  BY <1>1, InitTyped, InitFiled, NextTyped, NextWatching, NextFiled DEF Filed

(* For all tasks, plans and bounds, and over any overlap of commands with a *)
(* loop: a task handed off in state.json has its handoff file, of the run   *)
(* its row names (waitAndHandoff).                                          *)
THEOREM HandoffsAreFiled == Spec => []HandedOffHasFile
<1>1. Filed => HandedOffHasFile
  BY DEF Filed, FileInv, RecInv, Recorded, Handed, HandedOffHasFile, With
<1> QED
  BY <1>1, FiledInductive, PTL DEF Spec

(* Likewise: the error a loop stops at has its failure file, of that very   *)
(* run (recordRecoverFailure, waitAndHandoff).                              *)
THEOREM ErrorsExplained == Spec => []NewErrorsExplained
<1>1. Filed => NewErrorsExplained
  BY DEF Filed, FileInv, ErrorInv, NewErrorsExplained, NewErrors, With, LoopAt, Up
<1> QED
  BY <1>1, FiledInductive, PTL DEF Spec
-----------------------------------------------------------------------------
(* Agents and verdicts, over any overlap of commands and loop.             *)

Works(cl, t, n) == cl[t][n].phase = "live" /\ ~cl[t][n].lost
Sends(ct, t, n) == \E p \in Procs : ct[p].pc = "send" /\ ct[p].task = t /\ ct[p].agent = n

\* A run on record was started; once its row is settled it works no more.  This
\* holds of every copy of the rows, the file and what each process has in
\* memory, however old it is.
OverRow(cl, t, r) ==
    r.run # 0 => /\ cl[t][r.run].phase # "created"
                 /\ r.status # "running" => ~Works(cl, t, r.run)
OverIn(cl, s) == \A t \in Names : OverRow(cl, t, s.rows[t])
OverInv == OverIn(cloud, disk) /\ \A p \in Procs : Up(p) => OverIn(cloud, mem[p])

DoneInv == \A t \in Names : wait[t].pc = "filed" => ~Works(cloud, t, wait[t].run)

\* kill cancels a running task that names a run.
CancelInv == CommandAt("cancel") =>
    LET row == C.rows[ctl["command"].task]
    IN  row.run # 0 /\ (ctl["command"].cmd # "cancel" => row.status = "running")

AgentInv == OverInv /\ DoneInv /\ CancelInv

\* No agent starts to work, and none comes back: new ones are created, the
\* others end or are lost.
Settles == \A t \in Names : \A n \in DOMAIN cloud'[t] :
    IF n \in DOMAIN cloud[t]
    THEN /\ Works(cloud', t, n) => Works(cloud, t, n)
         /\ cloud'[t][n].phase = "created" => cloud[t][n].phase = "created"
         /\ cloud[t][n].phase \in Ends =>
              cloud'[t][n].phase = cloud[t][n].phase /\ cloud'[t][n].branch = cloud[t][n].branch
    ELSE cloud'[t][n].phase = "created"

\* What a step may make of a row: a verdict or none on a run that works no
\* more, no run, or the run of a prompt that was sent.
Follows(t, was, r) ==
    \/ r.run = was.run /\ (\/ r.status = was.status \/ r.status = "running"
                           \/ was.run = 0 \/ ~Works(cloud', t, was.run))
    \/ r.run = 0
    \/ r.status = "running" /\ cloud'[t][r.run].phase # "created"
AllFollow(s, u) == \A t \in Names : Follows(t, s.rows[t], u.rows[t])

\* A prompt on its way stays so, is lost or is on record.
Delivers == \A t \in Names : \A n \in DOMAIN cloud[t] : Sends(ctl, t, n) =>
    Sends(ctl', t, n) \/ ~Works(cloud', t, n) \/ disk'.rows[t].run = n

LEMMA OverFollows ==
    ASSUME Typed, CloudOK', Settles, NEW s, KnownIn(s, cloud), OverIn(cloud, s),
           NEW u, KnownIn(u, cloud'), AllFollow(s, u)
    PROVE  OverIn(cloud', u)
<1> SUFFICES ASSUME NEW t \in Names, u.rows[t].run # 0
             PROVE  /\ cloud'[t][u.rows[t].run].phase # "created"
                    /\ u.rows[t].status # "running" => ~Works(cloud', t, u.rows[t].run)
  BY DEF OverIn, OverRow
<1> DEFINE n == s.rows[t].run
           m == u.rows[t].run
<1>1. /\ n \in 0 .. Len(cloud[t]) /\ m \in 0 .. Len(cloud'[t])
      /\ Len(cloud[t]) \in Nat /\ Len(cloud'[t]) \in Nat
      /\ DOMAIN cloud[t] = 1 .. Len(cloud[t]) /\ DOMAIN cloud'[t] = 1 .. Len(cloud'[t])
  BY DEF Typed, KnownIn, CloudOK
<1>2. m \in DOMAIN cloud'[t] /\ (n # 0 => n \in DOMAIN cloud[t])
  BY <1>1
<1>3. Follows(t, s.rows[t], u.rows[t])
  BY DEF AllFollow
<1>4. CASE m = n
  <2>1. cloud[t][n].phase # "created" /\ (s.rows[t].status # "running" => ~Works(cloud, t, n))
    BY <1>4 DEF OverIn, OverRow
  <2>2. cloud'[t][n].phase # "created" /\ (Works(cloud', t, n) => Works(cloud, t, n))
    BY <1>2, <1>4, <2>1 DEF Settles
  <2> QED
    BY <1>3, <1>4, <2>1, <2>2 DEF Follows
<1>5. CASE m # n
  BY <1>3, <1>5 DEF Follows
<1> QED
  BY <1>4, <1>5

(* Every copy after a step follows a copy before it. *)
LEMMA CopiesFollow ==
    ASSUME Typed, Typed', OverInv, Settles, NEW s, KnownIn(s, cloud), OverIn(cloud, s),
           disk' = disk \/ AllFollow(s, disk'),
           \A q \in Procs : Up(q)' => (Up(q) /\ mem'[q] = mem[q]) \/ AllFollow(s, mem'[q])
    PROVE  OverInv'
<1>1. \A u : AllFollow(u, u)
  BY DEF AllFollow, Follows
<1>2. /\ CloudOK' /\ KnownIn(disk, cloud) /\ KnownIn(disk', cloud')
      /\ \A q \in Procs : KnownIn(mem[q], cloud) /\ KnownIn(mem'[q], cloud')
  BY DEF Typed, StatesOK
<1>3. OverIn(cloud', disk')
  <2>1. CASE disk' = disk
    BY <1>1, <1>2, <2>1, OverFollows DEF OverInv
  <2>2. CASE AllFollow(s, disk')
    BY <1>2, <2>2, OverFollows
  <2> QED
    BY <2>1, <2>2
<1>4. ASSUME NEW q \in Procs, Up(q)' PROVE OverIn(cloud', mem'[q])
  <2>1. CASE Up(q) /\ mem'[q] = mem[q]
    BY <1>1, <1>2, <2>1, OverFollows DEF OverInv
  <2>2. CASE AllFollow(s, mem'[q])
    BY <1>2, <2>2, OverFollows
  <2> QED
    BY <1>4, <2>1, <2>2
<1> QED
  BY <1>3, <1>4 DEF OverInv

(* Agents change one at a time. *)
LEMMA ReplaceSettles ==
    ASSUME Typed, NEW t \in Names, NEW n, NEW agent, Replace(t, n, agent),
           n \in DOMAIN cloud[t] =>
                /\ agent \in Agent
                /\ agent.phase = "live" /\ ~agent.lost => Works(cloud, t, n)
                /\ agent.phase = "created" => cloud[t][n].phase = "created"
                /\ cloud[t][n].phase \in Ends =>
                     agent.phase = cloud[t][n].phase /\ agent.branch = cloud[t][n].branch
    PROVE  Settles /\ (n \in DOMAIN cloud[t] => cloud'[t][n] = agent)
<1>1. /\ \A u \in Names : Len(cloud'[u]) = Len(cloud[u]) /\ Grows
      /\ n \in DOMAIN cloud[t] => cloud'[t][n] = agent
      /\ \A u \in Names : \A m \in DOMAIN cloud[u] :
                ~(u = t /\ m = n) => cloud'[u][m] = cloud[u][m]
  BY Replaced DEF Typed
<1>2. \A u \in Names : DOMAIN cloud'[u] = DOMAIN cloud[u]
  BY <1>1 DEF Grows, CloudOK, Typed
<1>3. ASSUME NEW u \in Names, NEW m \in DOMAIN cloud[u]
      PROVE  /\ Works(cloud', u, m) => Works(cloud, u, m)
             /\ cloud'[u][m].phase = "created" => cloud[u][m].phase = "created"
             /\ cloud[u][m].phase \in Ends =>
                  cloud'[u][m].phase = cloud[u][m].phase /\ cloud'[u][m].branch = cloud[u][m].branch
  <2>1. CASE u = t /\ m = n
    BY <1>1, <1>3, <2>1 DEF Works
  <2>2. CASE ~(u = t /\ m = n)
    BY <1>1, <1>3, <2>2 DEF Works
  <2> QED
    BY <2>1, <2>2
<1> QED
  BY <1>1, <1>2, <1>3 DEF Settles

LEMMA SameSettles ==
    ASSUME UNCHANGED cloud
    PROVE  Settles
  BY DEF Settles, Works

(* An agent that is lost, ends or is cancelled settles. *)
LEMMA AgentSettles ==
    ASSUME Typed, NEW t \in Names, NEW n
    PROVE  /\ Replace(t, n, [cloud[t][n] EXCEPT !.lost = TRUE]) =>
                Settles /\ (n \in DOMAIN cloud[t] => ~Works(cloud', t, n))
           /\ \A end \in Ends, branch \in Branches \cup {"none"} :
                /\ cloud[t][n].phase = "live"
                /\ Replace(t, n, [cloud[t][n] EXCEPT !.phase = end, !.branch = branch])
                => Settles
           /\ cloud[t][n].phase = "live" /\ Replace(t, n, [cloud[t][n] EXCEPT !.phase = "cancelled"]) =>
                Settles /\ (n \in DOMAIN cloud[t] => ~Works(cloud', t, n))
           /\ \A landed, kill \in BOOLEAN :
                Replace(t, n, [cloud[t][n] EXCEPT
                    !.phase = IF landed /\ @ = "live" THEN "cancelled" ELSE @,
                    !.lost = @ \/ kill]) =>
                Settles /\ (n \in DOMAIN cloud[t] /\ kill => ~Works(cloud', t, n))
<1>1. n \in DOMAIN cloud[t] => cloud[t][n] \in Agent
  BY RowAt DEF Typed, CloudOK
<1> DEFINE a == cloud[t][n]
<1>2. ASSUME NEW agent, Replace(t, n, agent),
             n \in DOMAIN cloud[t] =>
                /\ agent \in Agent
                /\ agent.phase = "live" /\ ~agent.lost => Works(cloud, t, n)
                /\ agent.phase = "created" => a.phase = "created"
                /\ a.phase \in Ends => agent.phase = a.phase /\ agent.branch = a.branch
      PROVE  Settles /\ (n \in DOMAIN cloud[t] /\ ~(agent.phase = "live" /\ ~agent.lost)
                            => ~Works(cloud', t, n))
  BY <1>2, ReplaceSettles DEF Works
<1>3. ASSUME Replace(t, n, [a EXCEPT !.lost = TRUE])
      PROVE  Settles /\ (n \in DOMAIN cloud[t] => ~Works(cloud', t, n))
  <2> DEFINE agent == [a EXCEPT !.lost = TRUE]
  <2>1. n \in DOMAIN cloud[t] =>
            /\ agent \in Agent /\ agent.lost = TRUE
            /\ agent.phase = a.phase /\ agent.branch = a.branch
    BY <1>1 DEF Agent
  <2> HIDE DEF agent
  <2>2. Replace(t, n, agent)
    BY <1>3 DEF agent
  <2> QED
    BY <1>2, <2>1, <2>2
<1>4. ASSUME NEW end \in Ends, NEW branch \in Branches \cup {"none"}, a.phase = "live",
             Replace(t, n, [a EXCEPT !.phase = end, !.branch = branch])
      PROVE  Settles
  <2> DEFINE agent == [a EXCEPT !.phase = end, !.branch = branch]
  <2>1. n \in DOMAIN cloud[t] => agent \in Agent /\ agent.phase = end
    BY <1>1 DEF Agent
  <2> HIDE DEF agent
  <2>2. Replace(t, n, agent)
    BY <1>4 DEF agent
  <2>3. end # "live" /\ end # "created" /\ a.phase \notin Ends
    BY <1>4 DEF Ends
  <2> QED
    BY <1>2, <2>1, <2>2, <2>3
<1>5. ASSUME a.phase = "live", Replace(t, n, [a EXCEPT !.phase = "cancelled"])
      PROVE  Settles /\ (n \in DOMAIN cloud[t] => ~Works(cloud', t, n))
  <2> DEFINE agent == [a EXCEPT !.phase = "cancelled"]
  <2>1. n \in DOMAIN cloud[t] => agent \in Agent /\ agent.phase = "cancelled"
    BY <1>1 DEF Agent, Ends
  <2> HIDE DEF agent
  <2>2. Replace(t, n, agent) /\ a.phase \notin Ends
    BY <1>5 DEF agent, Ends
  <2> QED
    BY <1>2, <2>1, <2>2
<1>6. ASSUME NEW landed \in BOOLEAN, NEW kill \in BOOLEAN,
             Replace(t, n, [a EXCEPT !.phase = IF landed /\ @ = "live" THEN "cancelled" ELSE @,
                                     !.lost = @ \/ kill])
      PROVE  Settles /\ (n \in DOMAIN cloud[t] /\ kill => ~Works(cloud', t, n))
  <2> DEFINE phase == IF landed /\ a.phase = "live" THEN "cancelled" ELSE a.phase
             agent == [a EXCEPT !.phase = phase, !.lost = a.lost \/ kill]
  <2>1. n \in DOMAIN cloud[t] =>
            /\ agent \in Agent /\ agent.phase = phase /\ agent.lost = (a.lost \/ kill)
            /\ agent.branch = a.branch
    BY <1>1 DEF Agent, Ends
  <2>2. /\ phase = "live" => a.phase = "live"
        /\ phase = "created" => a.phase = "created"
        /\ a.phase \in Ends => phase = a.phase
    BY DEF Ends
  <2>3. Replace(t, n, agent)
    BY <1>6
  <2> HIDE DEF agent, phase
  <2>4. n \in DOMAIN cloud[t] =>
            /\ agent.phase = "live" /\ ~agent.lost => Works(cloud, t, n)
            /\ agent.phase = "created" => a.phase = "created"
            /\ a.phase \in Ends => agent.phase = a.phase /\ agent.branch = a.branch
    BY <2>1, <2>2 DEF Works
  <2>5. n \in DOMAIN cloud[t] /\ kill => ~(agent.phase = "live" /\ ~agent.lost)
    BY <2>1
  <2> QED
    BY <1>2, <2>1, <2>3, <2>4, <2>5
<1> QED
  BY <1>3, <1>4, <1>5, <1>6

\* A process put its copy over a row it has not read.
Taken(t) == \E p \in Procs : Overwrites(p, t)

\* The step takes back no verdict but a respawn's or a cancel's.
VerdictsStay == \A t \in Names :
    LET was == disk.rows[t].status
        is == disk'.rows[t].status
    IN  was \in Failed \cup {"handed-off"} /\ is # was =>
        \/ was # "handed-off" /\ is = "pending" /\ spent' > spent /\ ctl' = ctl
        \/ is = "cancelled" /\ ctl["command"].cmd = "cancel"
        \/ Taken(t)

\* No agent that works loses its name.
NamesStay == \A t \in Names : \A n \in DOMAIN cloud'[t] :
    Works(cloud', t, n) /\ ~(disk'.rows[t].run = n \/ Sends(ctl', t, n)) =>
        \/ /\ n \in DOMAIN cloud[t] /\ Works(cloud, t, n)
           /\ ~(disk.rows[t].run = n \/ Sends(ctl, t, n))
        \/ disk.rows[t].run = n /\ Taken(t)

Stands == VerdictsStay /\ NamesStay

LEMMA NamesKept ==
    ASSUME Typed, Typed', Settles, Delivers,
           \A t \in Names : LET n == disk.rows[t].run
                            IN  Taken(t) \/ n = 0 \/ ~Works(cloud', t, n) \/ disk'.rows[t].run = n
    PROVE  NamesStay
<1> SUFFICES ASSUME NEW t \in Names, NEW n \in DOMAIN cloud'[t], Works(cloud', t, n),
                    disk'.rows[t].run # n, ~Sends(ctl', t, n)
             PROVE  \/ /\ n \in DOMAIN cloud[t] /\ Works(cloud, t, n)
                       /\ ~(disk.rows[t].run = n \/ Sends(ctl, t, n))
                    \/ disk.rows[t].run = n /\ Taken(t)
  BY DEF NamesStay
<1>1. n # 0
  BY DEF Typed, CloudOK
<1>2. n \in DOMAIN cloud[t] /\ Works(cloud, t, n)
  BY DEF Settles, Works
<1>3. ~Sends(ctl, t, n)
  BY <1>2 DEF Delivers
<1>4. disk.rows[t].run = n => Taken(t)
  BY <1>1
<1> QED
  BY <1>2, <1>3, <1>4

LEMMA AgentsKept ==
    ASSUME Typed, Typed', AgentInv, Settles, OverInv',
           \A t \in Names : wait'[t].pc = "filed" =>
                wait'[t] = wait[t] \/ ~Works(cloud', t, wait'[t].run),
           \/ CancelInv'
           \/ ctl'["command"] = ctl["command"] /\ (Up("command") => Alike(C', C))
    PROVE  AgentInv'
<1>3. DoneInv'
  <2>1. ASSUME NEW t \in Names, wait'[t].pc = "filed", wait'[t] = wait[t]
        PROVE  ~Works(cloud', t, wait'[t].run)
    <3>1. wait[t].run \in DOMAIN cloud[t] /\ wait'[t].run \in DOMAIN cloud'[t]
      BY <2>1 DEF Typed, WaitOK
    <3> QED
      BY <2>1, <3>1 DEF AgentInv, DoneInv, Settles
  <2> QED
    BY <2>1 DEF DoneInv
<1>4. CancelInv'
  <2>1. CASE ctl'["command"] = ctl["command"] /\ (Up("command") => Alike(C', C))
    <3>1. CommandAt("cancel") => ctl["command"].task \in Names
      BY DEF Typed, CtlOK, AtHand, Procs, CommandAt
    <3>2. CommandAt("cancel")' => CommandAt("cancel") /\ Alike(C', C)
      BY <2>1 DEF CommandAt, Up
    <3> QED
      BY <2>1, <3>1, <3>2 DEF AgentInv, CancelInv, Alike
  <2> QED
    BY <2>1
<1> QED
  BY <1>3, <1>4 DEF AgentInv

(* One process moves: what it sends is delivered, whatever it saves.        *)
LEMMA MoverDelivers ==
    ASSUME NEW p \in Procs, \A q \in Procs \ {p} : ctl'[q] = ctl[q],
           ctl[p].pc = "send" =>
                LET t == ctl[p].task
                    n == ctl[p].agent
                IN  \/ ctl'[p].pc = "send" /\ ctl'[p].task = t /\ ctl'[p].agent = n
                    \/ ~Works(cloud', t, n) \/ disk'.rows[t].run = n
    PROVE  Delivers
<1> SUFFICES ASSUME NEW t \in Names, NEW n \in DOMAIN cloud[t], Sends(ctl, t, n)
             PROVE  Sends(ctl', t, n) \/ ~Works(cloud', t, n) \/ disk'.rows[t].run = n
  BY DEF Delivers
<1>1. PICK q \in Procs : ctl[q].pc = "send" /\ ctl[q].task = t /\ ctl[q].agent = n
  BY DEF Sends
<1>2. CASE q = p
  BY <1>1, <1>2 DEF Sends
<1>3. CASE q # p
  BY <1>1, <1>3 DEF Sends
<1> QED
  BY <1>2, <1>3

(* A row that a process is not behind of is in the file as the process has it. *)
LEMMA NotBehind ==
    ASSUME NEW p \in Procs, Up(p), \A q \in Procs \ {p} : ctl'[q] = ctl[q] /\ mem'[q] = mem[q],
           NEW t \in Names
    PROVE  \/ Taken(t)
           \/ /\ mem[p].rows[t].status = disk.rows[t].status
              /\ mem[p].rows[t].run = disk.rows[t].run
  BY DEF Taken, Overwrites, Behind, Up

(* A process that is up saves what it holds, or does not.                   *)
LEMMA CalmStep ==
    ASSUME Typed, Typed', AgentInv, NEW p \in Procs, Up(p),
           \A q \in Procs \ {p} : mem'[q] = mem[q] /\ ctl'[q] = ctl[q],
           disk' = disk \/ Alike(disk', mem[p]),
           Up(p)' => Alike(mem'[p], mem[p]),
           Settles,
           ctl[p].pc = "send" => ctl'[p] = ctl[p] \/ ~Works(cloud', ctl[p].task, ctl[p].agent),
           \A t \in Names : wait'[t].pc = "filed" =>
                wait'[t] = wait[t] \/ ~Works(cloud', t, wait'[t].run),
           p = "command" => CancelInv'
    PROVE  AgentInv' /\ Stands
<1>1. \A t \in Names : \/ Taken(t)
                       \/ /\ disk'.rows[t].status = disk.rows[t].status
                          /\ disk'.rows[t].run = disk.rows[t].run
  BY NotBehind DEF Alike
<1>2. KnownIn(mem[p], cloud) /\ OverIn(cloud, mem[p])
  BY DEF Typed, StatesOK, AgentInv, OverInv
<1>3. OverInv'
  <2>1. disk' = disk \/ AllFollow(mem[p], disk')
    BY DEF Alike, AllFollow, Follows
  <2>2. ASSUME NEW q \in Procs, Up(q)'
        PROVE  (Up(q) /\ mem'[q] = mem[q]) \/ AllFollow(mem[p], mem'[q])
    <3>1. CASE q = p
      BY <2>2, <3>1 DEF Alike, AllFollow, Follows
    <3>2. CASE q # p
      BY <2>2, <3>2 DEF Up
    <3> QED
      BY <3>1, <3>2
  <2> QED
    BY <1>2, <2>1, <2>2, CopiesFollow DEF AgentInv
<1>4. Delivers
  BY MoverDelivers
<1>5. CancelInv' \/ (ctl'["command"] = ctl["command"] /\ C' = C)
  BY DEF C, Procs
<1>6. NamesStay
  BY <1>1, <1>4, NamesKept
<1>7. VerdictsStay
  BY <1>1 DEF VerdictsStay
<1>8. \A s : Alike(s, s)
  BY DEF Alike
<1> QED
  BY <1>3, <1>5, <1>6, <1>7, <1>8, AgentsKept DEF Stands

(* It writes one row.                                                       *)
LEMMA WriteStep ==
    ASSUME Typed, Typed', AgentInv, NEW p \in Procs, Up(p), NEW t \in Names, NEW r \in Row, NEW c,
           Writes(p, t, r, c), Settles,
           LET was == mem[p].rows[t]
           IN  \/ r.run = was.run /\ (r.status = "running" \/ was.run = 0 \/ ~Works(cloud', t, was.run))
               \/ r.run = 0 /\ was.run = 0
               \/ /\ was.run = 0 /\ r.status = "running"
                  /\ cloud'[t][r.run].phase # "created",
           ctl[p].pc = "send" =>
                \/ c.pc = "send" /\ c.task = ctl[p].task /\ c.agent = ctl[p].agent
                \/ ~Works(cloud', ctl[p].task, ctl[p].agent)
                \/ t = ctl[p].task /\ r.run = ctl[p].agent,
           \/ mem[p].rows[t].status \notin Failed \cup {"handed-off"}
           \/ r.status = "cancelled" /\ ctl["command"].cmd = "cancel",
           \A u \in Names : wait'[u].pc = "filed" =>
                wait'[u] = wait[u] \/ ~Works(cloud', u, wait'[u].run),
           p = "command" => c.pc # "cancel"
    PROVE  AgentInv' /\ Stands
<1>1. /\ disk'.rows[t] = r /\ \A u \in Names \ {t} : disk'.rows[u] = mem[p].rows[u]
      /\ c.pc # "off" => mem'[p] = disk'
      /\ ctl'[p] = c
      /\ \A q \in Procs \ {p} : mem'[q] = mem[q] /\ ctl'[q] = ctl[q]
  BY Wrote
<1>2. \A u \in Names : \/ Taken(u)
                       \/ /\ mem[p].rows[u].status = disk.rows[u].status
                          /\ mem[p].rows[u].run = disk.rows[u].run
  BY <1>1, NotBehind
<1>3. OverInv'
  <2>1. ASSUME NEW u \in Names PROVE Follows(u, mem[p].rows[u], disk'.rows[u])
    <3>1. CASE u = t
      BY <1>1, <3>1 DEF Follows
    <3>2. CASE u # t
      BY <1>1, <3>2 DEF Follows
    <3> QED
      BY <3>1, <3>2
  <2>2. AllFollow(mem[p], disk')
    BY <2>1 DEF AllFollow
  <2>3. ASSUME NEW q \in Procs, Up(q)'
        PROVE  (Up(q) /\ mem'[q] = mem[q]) \/ AllFollow(mem[p], mem'[q])
    <3>1. CASE q = p
      BY <1>1, <2>2, <2>3, <3>1 DEF Up
    <3>2. CASE q # p
      BY <1>1, <2>3, <3>2 DEF Up
    <3> QED
      BY <3>1, <3>2
  <2>4. KnownIn(mem[p], cloud) /\ OverIn(cloud, mem[p])
    BY DEF Typed, StatesOK, AgentInv, OverInv
  <2> QED
    BY <2>2, <2>3, <2>4, CopiesFollow DEF AgentInv
<1>4. Delivers
  BY <1>1, MoverDelivers
<1>5. CancelInv' \/ (ctl'["command"] = ctl["command"] /\ C' = C)
  <2>1. CASE p = "command"
    BY <1>1, <2>1 DEF CancelInv, CommandAt
  <2>2. CASE p # "command"
    BY <1>1, <2>2 DEF C, Procs
  <2> QED
    BY <2>1, <2>2
<1>6. NamesStay
  <2>1. ASSUME NEW u \in Names
        PROVE  LET n == disk.rows[u].run
               IN  Taken(u) \/ n = 0 \/ ~Works(cloud', u, n) \/ disk'.rows[u].run = n
    <3>1. CASE u = t
      BY <1>1, <1>2, <3>1
    <3>2. CASE u # t
      BY <1>1, <1>2, <3>2
    <3> QED
      BY <3>1, <3>2
  <2> QED
    BY <1>4, <2>1, NamesKept
<1>7. VerdictsStay
  BY <1>1, <1>2 DEF VerdictsStay
<1>8. \A s : Alike(s, s)
  BY DEF Alike
<1> QED
  BY <1>3, <1>5, <1>6, <1>7, <1>8, AgentsKept DEF Stands

(* Waiting.  A handoff is filed of a run that ended or is lost.             *)
LEMMA HandoffAlike ==
    ASSUME Typed, NEW t \in Names, NEW end, WriteHandoff(t, end)
    PROVE  /\ Alike(mem'["loop"], L)
           /\ wait'[t].run = wait[t].run /\ \A u \in Names \ {t} : wait'[u] = wait[u]
<1> DEFINE branch == ResolveRunBranch(t, wait[t].run)
           row == [L.rows[t] EXCEPT !.branch = branch]
           s == [L EXCEPT !.rows[t] = row]
           w == [pc |-> "filed", run |-> wait[t].run, end |-> end, branch |-> branch]
<1>1. mem' = [mem EXCEPT !["loop"] = s] /\ wait' = [wait EXCEPT ![t] = w]
  BY DEF WriteHandoff, L
<1>2. w.run = wait[t].run
  OBVIOUS
<1> HIDE DEF branch
<1>3. row.status = L.rows[t].status /\ row.run = L.rows[t].run /\ L \in State
  BY Awaited DEF Row
<1> HIDE DEF row
<1>4. s.rows[t] = row /\ \A u \in Names \ {t} : s.rows[u] = L.rows[u]
  BY <1>3 DEF State
<1> HIDE DEF s, w
<1>5. Alike(s, L)
  BY <1>3, <1>4 DEF Alike
<1>6. wait'[t] = w /\ \A u \in Names \ {t} : wait'[u] = wait[u]
  BY <1>1 DEF Typed, WaitOK
<1> QED
  BY <1>1, <1>2, <1>5, <1>6, LoopAlike

LEMMA WaitingAgents ==
    ASSUME Typed, Typed', WatchingNow, FileInv, AgentInv, NEW t \in Names, Waiting(t)
    PROVE  AgentInv' /\ Stands
<1> DEFINE n == wait[t].run
<1>1. /\ Up("loop") /\ "loop" \in Procs /\ ctl' = ctl
      /\ \A q \in Procs \ {"loop"} : mem'[q] = mem[q] /\ ctl'[q] = ctl[q]
  BY WaitingKeeps DEF Keeps, Up, Procs
<1>2. /\ wait[t].pc # "none" => n \in DOMAIN cloud[t]
      /\ wait[t].pc \in Watch => L.rows[t].status = "running" /\ L.rows[t].run = n
  BY Awaited, AwaitedRuns DEF FileInv, WaitInv
<1>3. CASE WaitReturns(t) \/ ProbeSaysEnded(t) \/ ProbeFails(t)
  <2>1. /\ wait[t].pc # "none"
        /\ disk' = disk \/ disk' = L
        /\ \E end : WriteHandoff(t, end)
    BY <1>3 DEF WaitReturns, ProbeSaysEnded, ProbeFails, AtWait
  <2>2. Settles /\ ~Works(cloud', t, n)
    <3>1. CASE WaitReturns(t) \/ ProbeSaysEnded(t)
      BY <3>1, SameSettles DEF WaitReturns, ProbeSaysEnded, Works, Ends, world
    <3>2. CASE ProbeFails(t)
      <4>1. Replace(t, n, [cloud[t][n] EXCEPT !.lost = TRUE])
        BY <3>2 DEF ProbeFails
      <4> QED
        BY <1>2, <2>1, <4>1, AgentSettles
    <3> QED
      BY <1>3, <3>1, <3>2
  <2>3. /\ Alike(mem'["loop"], L)
        /\ wait'[t].run = n /\ \A u \in Names \ {t} : wait'[u] = wait[u]
    BY <2>1, HandoffAlike
  <2>4. disk' = disk \/ Alike(disk', L)
    BY <2>1 DEF Alike
  <2> QED
    BY <1>1, <2>2, <2>3, <2>4, CalmStep DEF L
<1>4. ASSUME wait' = [wait EXCEPT ![t] = wait'[t]], wait'[t].pc # "filed", UNCHANGED cloud,
             NEW s, Alike(s, L), (Save("loop", s) \/ UNCHANGED <<mem, disk>>)
      PROVE  AgentInv' /\ Stands
  <2>1. \A u \in Names \ {t} : wait'[u] = wait[u]
    BY <1>4 DEF Typed, WaitOK
  <2>2. Alike(mem'["loop"], L)
    BY <1>4, LoopAlike DEF Save
  <2>3. disk' = disk \/ Alike(disk', L)
    BY <1>4 DEF Save
  <2>4. Settles
    BY <1>4, SameSettles
  <2> QED
    BY <1>1, <1>4, <2>1, <2>2, <2>3, <2>4, CalmStep DEF L
<1>5. Alike(L, L)
  BY DEF Alike
<1>6. CASE WaitReturnsError(t) \/ ProbeSaysRunning(t)
  <2>1. \E pc \in {"wait", "probe"} : wait' = [wait EXCEPT ![t] = [wait[t] EXCEPT !.pc = pc]]
    BY <1>6 DEF WaitReturnsError, ProbeSaysRunning
  <2>2. wait' = [wait EXCEPT ![t] = wait'[t]] /\ wait'[t].pc # "filed"
    BY <2>1 DEF Typed, WaitOK, Waiter
  <2>3. UNCHANGED cloud /\ (Save("loop", L) \/ UNCHANGED <<mem, disk>>)
    BY <1>6 DEF WaitReturnsError, ProbeSaysRunning, LogAttention, L, files, world
  <2> QED
    BY <1>4, <1>5, <2>2, <2>3
<1>7. CASE WaitThrows(t)
  <2> DEFINE row == [L.rows[t] EXCEPT !.status = "error"]
             w == [wait[t] EXCEPT !.pc = "after", !.end = "error"]
  <2>1. /\ Touch("loop", t, row) /\ wait' = [wait EXCEPT ![t] = w]
        /\ Replace(t, n, [cloud[t][n] EXCEPT !.lost = TRUE])
        /\ wait[t].pc \in {"wait", "probe"}
    BY <1>7 DEF WaitThrows
  <2>2. row \in Row /\ row.run = L.rows[t].run
    BY Awaited DEF Row, Statuses
  <2>3. w.pc = "after"
    BY Awaited DEF Waiter
  <2> HIDE DEF row, w
  <2>4. wait'[t].pc = "after" /\ \A u \in Names \ {t} : wait'[u] = wait[u]
    BY <2>1, <2>3 DEF Typed, WaitOK
  <2>5. Settles /\ ~Works(cloud', t, n)
    BY <1>2, <2>1, AgentSettles
  <2>6. Writes("loop", t, row, ctl["loop"])
    BY <1>1, <2>1 DEF Writes, Touch, Save, Up, Typed, CtlOK
  <2>7. L.rows[t].status = "running" /\ L.rows[t].run = n
    BY <1>2, <2>1 DEF Watch
  <2> QED
    BY <1>1, <2>2, <2>4, <2>5, <2>6, <2>7, WriteStep DEF L, Failed
<1>8. CASE CommitHandoff(t)
  <2> DEFINE status == IF wait[t].end = "finished" THEN "handed-off" ELSE "error"
             row == [L.rows[t] EXCEPT !.status = status, !.branch = wait[t].branch, !.path = TRUE]
             w == [wait[t] EXCEPT !.pc = "after"]
  <2>1. /\ Touch("loop", t, row) /\ wait' = [wait EXCEPT ![t] = w] /\ wait[t].pc = "filed"
        /\ UNCHANGED cloud
    BY <1>8 DEF CommitHandoff, world
  <2>2. row \in Row /\ row.run = L.rows[t].run
    <3>1. wait[t].branch \in Branches
      BY Awaited DEF Waiter
    <3>2. status \in Statuses
      BY DEF Statuses
    <3> HIDE DEF status
    <3>3. L.rows[t] \in Row
      BY Awaited
    <3>4. row \in Row
      BY <3>1, <3>2, <3>3, SettledRow
    <3>5. row.run = L.rows[t].run
      BY <3>3 DEF Row
    <3> QED
      BY <3>4, <3>5
  <2>3. w.pc = "after"
    BY Awaited DEF Waiter
  <2> HIDE DEF row, w
  <2>4. wait'[t].pc = "after" /\ \A u \in Names \ {t} : wait'[u] = wait[u]
    BY <2>1, <2>3 DEF Typed, WaitOK
  <2>5. Settles /\ ~Works(cloud', t, n)
    BY <2>1, SameSettles DEF AgentInv, DoneInv
  <2>6. Writes("loop", t, row, ctl["loop"])
    BY <1>1, <2>1 DEF Writes, Touch, Save, Up, Typed, CtlOK
  <2>7. L.rows[t].status = "running" /\ L.rows[t].run = n
    BY <1>2, <2>1 DEF Watch
  <2> QED
    BY <1>1, <2>2, <2>4, <2>5, <2>6, <2>7, WriteStep DEF L, Failed
<1>9. CASE FinishWait(t)
  <2> DEFINE refs == ReconcileVerifierRefs(L.rows, planned, {t})
             rows == IF wait[t].end = "finished" THEN refs ELSE L.rows
             s == [L EXCEPT !.rows = rows]
  <2>1. Save("loop", s) \/ UNCHANGED <<mem, disk>>
    BY <1>9 DEF FinishWait, Measured
  <2>2. L \in State /\ L.rows \in [Names -> Row]
    BY Awaited DEF State
  <2>3. rows \in [Names -> Row]
        /\ \A u \in Names : rows[u].status = L.rows[u].status /\ rows[u].run = L.rows[u].run
    BY <2>2, VerifierRefsType
  <2> HIDE DEF rows
  <2>4. s.rows = rows
    BY <2>2, <2>3, RowsChanged
  <2> HIDE DEF s
  <2>5. Alike(s, L)
    BY <2>3, <2>4 DEF Alike
  <2>6. wait' = [wait EXCEPT ![t] = NoWaiter] /\ NoWaiter.pc = "none" /\ UNCHANGED cloud
    BY <1>9 DEF FinishWait, NoWaiter, world
  <2>7. wait' = [wait EXCEPT ![t] = wait'[t]] /\ wait'[t].pc # "filed"
    BY <2>6 DEF Typed, WaitOK
  <2> QED
    BY <1>4, <2>1, <2>5, <2>6, <2>7
<1> QED
  BY <1>3, <1>6, <1>7, <1>8, <1>9 DEF Waiting

(* Spawning.  The row in hand has no run.                                   *)
LEMMA AppendSettles ==
    ASSUME Typed, NEW t \in Names, NEW agent \in Agent, agent.phase = "created",
           cloud' = [cloud EXCEPT ![t] = Append(@, agent)]
    PROVE  Settles
<1>1. cloud[t] \in Seq(Agent) /\ cloud' = [cloud EXCEPT ![t] = Append(cloud[t], agent)]
  BY DEF Typed, CloudOK
<1>2. \A u \in Names : cloud'[u] = IF u = t THEN Append(cloud[t], agent) ELSE cloud[u]
  BY <1>1 DEF Typed, CloudOK
<1>3. /\ DOMAIN Append(cloud[t], agent) = DOMAIN cloud[t] \cup {Len(cloud[t]) + 1}
      /\ \A n \in DOMAIN cloud[t] : Append(cloud[t], agent)[n] = cloud[t][n]
      /\ Append(cloud[t], agent)[Len(cloud[t]) + 1] = agent
  BY <1>1
<1>4. ASSUME NEW u \in Names, NEW n \in DOMAIN cloud'[u]
      PROVE  IF n \in DOMAIN cloud[u] THEN cloud'[u][n] = cloud[u][n]
             ELSE cloud'[u][n].phase = "created"
  <2>1. CASE u = t
    BY <1>2, <1>3, <1>4, <2>1
  <2>2. CASE u # t
    BY <1>2, <1>4, <2>2
  <2> QED
    BY <2>1, <2>2
<1> QED
  BY <1>4 DEF Settles, Works

LEMMA SpawnStep ==
    ASSUME Typed, Typed', WatchingNow, FileInv, AgentInv, NEW p \in Procs,
           ctl[p].pc \in {"create", "send", "backoff"},
           NEW r \in Row, r.run = 0, NEW c, Writes(p, ctl[p].task, r, c),
           Settles, ctl[p].pc = "send" => ~Works(cloud', ctl[p].task, ctl[p].agent),
           UNCHANGED wait, c.pc # "cancel"
    PROVE  AgentInv' /\ Stands
<1> DEFINE t == ctl[p].task
<1>1. /\ t \in Names /\ Up(p) /\ mem[p].rows[t].run = 0
      /\ mem[p].rows[t].status \notin Failed \cup {"handed-off"}
  BY InHandNow DEF Failed
<1> QED
  BY <1>1, WriteStep

LEMMA FailedTryAgents ==
    ASSUME Typed, Typed', WatchingNow, FileInv, AgentInv, NEW p \in Procs,
           ctl[p].pc \in {"create", "send"},
           NEW row \in Row, row.run = 0, AttemptFails(p, row),
           Settles, ctl[p].pc = "send" => ~Works(cloud', ctl[p].task, ctl[p].agent),
           UNCHANGED wait
    PROVE  AgentInv' /\ Stands
<1> DEFINE t == ctl[p].task
           error == [row EXCEPT !.status = "error"]
           back == [ctl[p] EXCEPT !.pc = "backoff", !.agent = 0]
           scan == [ctl[p] EXCEPT !.pc = "scan", !.task = NoTask, !.try = 0, !.agent = 0]
<1>1. ctl[p] \in Control
  BY InHandNow
<1>2. error \in Row /\ error.run = 0
  BY DEF Row, Statuses
<1>3. back.pc = "backoff" /\ scan.pc = "scan" /\ Idle.pc = "off"
  BY <1>1 DEF Control, Idle
<1>4. p # "loop" => p = "command"
  BY DEF Procs
<1> HIDE DEF error
<1>5. \/ Touch(p, t, row) /\ Goto(p, back)
      \/ /\ disk' = [mem[p] EXCEPT !.rows[t] = error]
         /\ IF p = "loop" THEN mem' = [mem EXCEPT ![p] = disk'] /\ Goto(p, scan)
                          ELSE EndCommand
  BY DEF AttemptFails, error
<1> HIDE DEF back, scan
<1>6. \/ Writes(p, t, row, back)
      \/ Writes(p, t, error, scan)
      \/ Writes(p, t, error, Idle)
  BY <1>3, <1>4, <1>5 DEF Writes, Touch, Save, Goto, EndCommand
<1>7. CASE Writes(p, t, row, back)
  BY <1>3, <1>7, SpawnStep
<1>8. CASE Writes(p, t, error, scan)
  BY <1>2, <1>3, <1>8, SpawnStep
<1>9. CASE Writes(p, t, error, Idle)
  BY <1>2, <1>3, <1>9, SpawnStep
<1> QED
  BY <1>6, <1>7, <1>8, <1>9

(* What Attempt writes, for whoever tries. *)
LEMMA AttemptWrites ==
    ASSUME Typed, NEW p \in Procs, NEW t \in Names, NEW row \in Row, NEW c \in Control,
           Attempt(p, t, row, c)
    PROVE  \E d : \E r \in Row :
             /\ Writes(p, t, r, d) /\ r.status = row.status /\ r.run = row.run
             /\ d.pc = "create" /\ d.task = t
<1> DEFINE rows == [mem[p].rows EXCEPT ![t] = row]
           sent == [row EXCEPT !.startingRef = StartingRefForTask(rows, t)]
           create == [c EXCEPT !.pc = "create", !.task = t, !.try = c.try + 1]
<1>1. \/ Touch(p, t, row) /\ Goto(p, create)
      \/ Touch(p, t, sent) /\ Goto(p, create)
  BY DEF Attempt
<1>2. create.pc = "create" /\ create.task = t
  BY DEF Control
<1>3. StartingRefForTask(rows, t) \in {"base"} \cup Branches
  <2>1. rows \in [Names -> Row] /\ Verifies[t] \in Names
    BY NamesAssumption DEF Typed, StatesOK, State
  <2> HIDE DEF rows
  <2>2. rows[Verifies[t]] \in Row /\ rows[t] \in Row
    BY <2>1
  <2> QED
    BY <2>2 DEF StartingRefForTask, Row
<1>4. sent \in Row /\ sent.status = row.status /\ sent.run = row.run
  BY <1>3 DEF Row
<1> HIDE DEF sent
<1>5. Writes(p, t, row, create) \/ Writes(p, t, sent, create)
  BY <1>1, <1>2 DEF Writes, Touch, Save, Goto
<1> QED
  BY <1>2, <1>4, <1>5

LEMMA SpawningAgents ==
    ASSUME Typed, Typed', WatchingNow, FileInv, AgentInv, NEW p \in Procs, Spawning(p)
    PROVE  AgentInv' /\ Stands
<1> DEFINE t == ctl[p].task
           n == ctl[p].agent
<1>1. ctl[p].pc \in {"create", "send", "backoff"} /\ (~(SendReturns(p)) => UNCHANGED wait)
  BY DEF Spawning, CreateFails, CreateReturns, BackoffEnds, SendFails, SendReturns
<1>2. /\ t \in Names /\ mem[p].rows[t] \in Row /\ ctl[p] \in Control
      /\ mem[p].rows[t].status \in {"pending", "running"} /\ mem[p].rows[t].run = 0
      /\ ctl[p].pc = "send" => mem[p].rows[t].status = "running"
      /\ p = "loop" => wait[t].pc \notin Watch
      /\ Up(p)
      /\ ctl[p].pc = "send" => n \in DOMAIN cloud[t]
  BY <1>1, InHandNow DEF Typed, CtlOK, AtHand
<1>3. CASE CreateFails(p)
  BY <1>1, <1>2, <1>3, FailedTryAgents, SameSettles DEF CreateFails, world
<1>4. CASE CreateReturns(p)
  <2> DEFINE row == [mem[p].rows[t] EXCEPT !.status = "running", !.run = 0]
             send == [ctl[p] EXCEPT !.pc = "send", !.agent = Len(cloud[t]) + 1]
             agent == [phase |-> "created", ref |-> row.startingRef, branch |-> "none", lost |-> FALSE]
  <2>1. row \in Row /\ row.run = 0
    BY <1>2 DEF Row, Statuses
  <2>2. send.pc = "send"
    BY <1>2 DEF Control
  <2>3. agent \in Agent /\ agent.phase = "created"
    BY <2>1 DEF Agent, Row
  <2>4. /\ UNCHANGED wait /\ ctl[p].pc = "create"
        /\ cloud' = [cloud EXCEPT ![t] = Append(@, agent)]
        /\ \/ AttemptFails(p, row)
           \/ Touch(p, t, row) /\ Goto(p, send)
    BY <1>4 DEF CreateReturns
  <2> HIDE DEF row, send, agent
  <2>5. Settles
    BY <1>2, <2>3, <2>4, AppendSettles
  <2>6. CASE AttemptFails(p, row)
    BY <2>1, <2>4, <2>5, <2>6, FailedTryAgents
  <2>7. CASE Touch(p, t, row) /\ Goto(p, send)
    <3>1. Writes(p, t, row, send)
      BY <2>2, <2>7 DEF Writes, Touch, Save, Goto
    <3> QED
      BY <2>1, <2>2, <2>4, <2>5, <3>1, SpawnStep
  <2> QED
    BY <2>4, <2>6, <2>7
<1>5. CASE BackoffEnds(p)
  <2>1. Attempt(p, t, mem[p].rows[t], ctl[p]) /\ UNCHANGED <<wait, cloud>> /\ ctl[p].pc = "backoff"
    BY <1>5 DEF BackoffEnds, world
  <2>2. \E d : \E r \in Row :
             /\ Writes(p, t, r, d) /\ r.status = mem[p].rows[t].status /\ r.run = mem[p].rows[t].run
             /\ d.pc = "create" /\ d.task = t
    BY <1>2, <2>1, AttemptWrites
  <2>3. PICK d : \E r \in Row :
             /\ Writes(p, t, r, d) /\ r.run = mem[p].rows[t].run /\ d.pc = "create"
    BY <2>2
  <2>4. PICK r \in Row : Writes(p, t, r, d) /\ r.run = mem[p].rows[t].run /\ d.pc = "create"
    BY <2>3
  <2>5. Settles
    BY <2>1, SameSettles
  <2> QED
    BY <1>1, <1>2, <1>5, <2>1, <2>4, <2>5, SpawnStep DEF BackoffEnds
<1>6. CASE SendFails(p)
  <2>1. /\ Replace(t, n, [cloud[t][n] EXCEPT !.lost = TRUE]) /\ ctl[p].pc = "send"
        /\ AttemptFails(p, mem[p].rows[t])
    BY <1>6 DEF SendFails
  <2>2. Settles /\ ~Works(cloud', t, n)
    BY <1>2, <2>1, AgentSettles
  <2> QED
    BY <1>1, <1>2, <1>6, <2>1, <2>2, FailedTryAgents DEF SendFails
<1>7. CASE SendReturns(p)
  <2> DEFINE row == [mem[p].rows[t] EXCEPT !.run = n]
             scan == [ctl[p] EXCEPT !.pc = "scan", !.task = NoTask, !.try = 0, !.agent = 0]
             w == [NoWaiter EXCEPT !.pc = "wait", !.run = n]
  <2>1. row \in Row /\ row.status = "running" /\ row.run = n
    BY <1>1, <1>2, <1>7 DEF Row, Control, SendReturns
  <2>2. scan.pc = "scan" /\ Idle.pc = "off" /\ w.pc = "wait"
    BY <1>2 DEF Control, Idle, NoWaiter
  <2>3. /\ disk' = [mem[p] EXCEPT !.rows[t] = row]
        /\ IF p = "loop"
           THEN /\ mem' = [mem EXCEPT ![p] = disk'] /\ Goto(p, scan) /\ wait' = [wait EXCEPT ![t] = w]
           ELSE EndCommand /\ UNCHANGED wait
        /\ ctl[p].pc = "send" /\ cloud[t][n].phase # "created" /\ UNCHANGED cloud
    BY <1>7 DEF SendReturns, world
  <2> HIDE DEF row, scan, w
  <2>4. Settles /\ cloud'[t][n].phase # "created"
    BY <2>3, SameSettles
  <2>5. \A u \in Names : wait'[u].pc = "filed" => wait'[u] = wait[u]
    BY <1>2, <2>2, <2>3 DEF Typed, WaitOK
  <2>6. Writes(p, t, row, scan) \/ Writes(p, t, row, Idle)
    BY <2>2, <2>3 DEF Writes, Goto, EndCommand, Procs
  <2>7. mem[p].rows[t].status \notin Failed \cup {"handed-off"}
    BY <1>2 DEF Failed
  <2>8. CASE Writes(p, t, row, scan)
    BY <1>2, <2>1, <2>2, <2>4, <2>5, <2>7, <2>8, WriteStep
  <2>9. CASE Writes(p, t, row, Idle)
    BY <1>2, <2>1, <2>2, <2>4, <2>5, <2>7, <2>9, WriteStep
  <2> QED
    BY <2>6, <2>8, <2>9
<1> QED
  BY <1>3, <1>4, <1>5, <1>6, <1>7 DEF Spawning

(* The loop goes on, or ends, with the verdicts it holds. *)
LEMMA LoopCalm ==
    ASSUME Typed, Typed', AgentInv, Up("loop"), NEW c, Goto("loop", c), NEW s, Alike(s, L),
           disk' = disk \/ disk' = s,
           \/ mem' = [mem EXCEPT !["loop"] = s] \/ UNCHANGED mem
           \/ c.pc = "off" /\ mem' = [mem EXCEPT !["loop"] = Empty],
           Settles,
           ctl["loop"].pc = "send" => ~Works(cloud', ctl["loop"].task, ctl["loop"].agent),
           \A t \in Names : wait'[t].pc = "filed" => wait'[t] = wait[t]
    PROVE  AgentInv' /\ Stands
<1>1. /\ "loop" \in Procs /\ ctl'["loop"] = c
      /\ \A q \in Procs \ {"loop"} : mem'[q] = mem[q] /\ ctl'[q] = ctl[q]
  BY DEF Goto, Typed, CtlOK, StatesOK, Procs
<1>2. Up("loop")' => Alike(mem'["loop"], L)
  BY <1>1 DEF Up, Typed, StatesOK, Alike, L
<1> QED
  BY <1>1, <1>2, CalmStep DEF L

LEMMA RecoveringAgents ==
    ASSUME Typed, Typed', WatchingNow, FileInv, AgentInv, NEW t \in Names,
           RecoverFails(t) \/ RecoverReturns(t)
    PROVE  AgentInv' /\ Stands
<1> DEFINE n == L.rows[t].run
           less == [ctl["loop"] EXCEPT !.todo = ctl["loop"].todo \ {t}]
           row == [L.rows[t] EXCEPT !.status = "error"]
           w == [NoWaiter EXCEPT !.pc = "wait", !.run = L.rows[t].run]
<1>1. ctl["loop"].pc = "recover" /\ t \in ctl["loop"].todo
  <2>1. ctl["loop"].pc = "recover" /\ ctl["loop"].todo # {} /\ t = First(ctl["loop"].todo)
    BY DEF RecoverFails, RecoverReturns, Recovering, LoopAt
  <2>2. ctl["loop"].todo \in SUBSET Names
    BY LoopControl
  <2> QED
    BY <2>1, <2>2, FirstIn
<1>2. L.rows[t].status = "running"
  BY <1>1 DEF WatchingNow, Watching
<1>3. less.pc = "recover"
  BY <1>1, LoopControl DEF Control
<1>4. Up("loop") /\ "loop" \in Procs
  BY <1>1 DEF Up, Procs
<1>5. n # 0 => n \in DOMAIN cloud[t]
  BY DEF Typed, StatesOK, KnownIn, CloudOK, L, Procs
<1> HIDE DEF less
<1>6. CASE RecoverFails(t)
  <2>1. /\ Touch("loop", t, row) /\ Goto("loop", less) /\ UNCHANGED wait
        /\ IF n = 0 THEN UNCHANGED cloud
           ELSE Replace(t, n, [cloud[t][n] EXCEPT !.lost = TRUE])
    BY <1>6 DEF RecoverFails, less
  <2>2. row \in Row /\ row.status = "error" /\ row.run = n
    BY Awaited DEF Row, Statuses
  <2> HIDE DEF row
  <2>3. Settles /\ (n = 0 \/ ~Works(cloud', t, n))
    <3>1. CASE n = 0
      BY <2>1, <3>1, SameSettles
    <3>2. CASE n # 0
      <4>1. Replace(t, n, [cloud[t][n] EXCEPT !.lost = TRUE])
        BY <2>1, <3>2
      <4> HIDE DEF n
      <4> QED
        BY <1>5, <3>2, <4>1, AgentSettles
    <3> QED
      BY <3>1, <3>2
  <2>4. Writes("loop", t, row, less)
    BY <1>3, <2>1 DEF Writes, Touch, Save, Goto
  <2> QED
    BY <1>1, <1>2, <1>4, <2>1, <2>2, <2>3, <2>4, WriteStep DEF L, Failed
<1>7. CASE RecoverReturns(t)
  <2>1. /\ wait' = [wait EXCEPT ![t] = w] /\ Goto("loop", less) /\ UNCHANGED <<disk, mem, cloud>>
    BY <1>7 DEF RecoverReturns, files, world, less
  <2>2. w.pc = "wait"
    BY DEF NoWaiter
  <2> HIDE DEF w
  <2>3. \A u \in Names : wait'[u].pc = "filed" => wait'[u] = wait[u]
    BY <2>1, <2>2 DEF Typed, WaitOK
  <2>4. Settles /\ Alike(L, L)
    BY <2>1, SameSettles DEF Alike
  <2> QED
    BY <1>1, <1>4, <2>1, <2>3, <2>4, LoopCalm
<1> QED
  BY <1>6, <1>7

LEMMA ScanAgents ==
    ASSUME Typed, Typed', WatchingNow, FileInv, AgentInv, NEW t \in Names, Scan(t)
    PROVE  AgentInv' /\ Stands
<1> DEFINE row == L.rows[t]
           error == [row EXCEPT !.status = "error"]
           next == [row EXCEPT !.attempts = row.attempts + 1]
           c == [ctl["loop"] EXCEPT !.todo = After(t)]
<1>1. /\ ctl["loop"].pc = "scan" /\ UNCHANGED <<wait, cloud>> /\ row \in Row
      /\ \/ Touch("loop", t, error) /\ Goto("loop", c)
         \/ Attempt("loop", t, next, c)
  BY Awaited DEF Scan, LoopAt, world
<1>2. row.status = "pending" /\ row.run = 0
  <2>1. Ready \in SUBSET Names /\ Ready # {} /\ t = First(Ready)
    BY LoopControl DEF Ready, Scan
  <2>2. t \in Ready
    BY <2>1, FirstIn
  <2>3. Recorded(L, handoff)
    BY <1>1 DEF FileInv, RecInv, Up, L, Procs
  <2> QED
    BY <2>2, <2>3 DEF Ready, Recorded
<1>3. /\ error \in Row /\ error.run = 0
      /\ next \in Row /\ next.run = 0
  BY <1>1, <1>2 DEF Row, Statuses
<1>4. c \in Control /\ c.pc = "scan"
  <2>1. After(t) \in SUBSET Names
    BY LoopControl DEF After
  <2> QED
    BY <1>1, <2>1, LoopControl
<1>5. Up("loop") /\ "loop" \in Procs /\ Settles
  BY <1>1, SameSettles DEF Up, Procs
<1> HIDE DEF error, next, c
<1>6. ASSUME NEW d, NEW r \in Row, Writes("loop", t, r, d), r.run = 0
      PROVE  AgentInv' /\ Stands
  BY <1>1, <1>2, <1>5, <1>6, WriteStep DEF L, Failed
<1>7. CASE Touch("loop", t, error) /\ Goto("loop", c)
  <2>1. Writes("loop", t, error, c)
    BY <1>4, <1>7 DEF Writes, Touch, Save, Goto
  <2> QED
    BY <1>3, <1>6, <2>1
<1>8. CASE Attempt("loop", t, next, c)
  <2>1. \E d : \E r \in Row :
             /\ Writes("loop", t, r, d) /\ r.status = next.status /\ r.run = next.run
             /\ d.pc = "create" /\ d.task = t
    BY <1>3, <1>4, <1>5, <1>8, AttemptWrites
  <2> QED
    BY <1>3, <1>6, <2>1
<1> QED
  BY <1>1, <1>7, <1>8

LEMMA ReconcilingAgents ==
    ASSUME Typed, Typed', WatchingNow, FileInv, AgentInv, Reconciling
    PROVE  AgentInv' /\ Stands
<1>0. Alike(L, L)
  BY DEF Alike
<1>1. CASE \E t \in Names : RecoverFails(t) \/ RecoverReturns(t)
  BY <1>1, RecoveringAgents
<1>2. CASE \E t \in Names : Scan(t)
  BY <1>2, ScanAgents
<1>3. ASSUME Recovered \/ Decide \/ Checkpoint \/ Settle, \E how : Exit(how)
      PROVE  AgentInv' /\ Stands
  <2>1. disk' = disk \/ disk' = L
    BY <1>3 DEF Recovered, Decide, Checkpoint, Settle
  <2>2. Up("loop") /\ UNCHANGED cloud /\ ctl["loop"].pc # "send"
    BY <1>3 DEF Recovered, Decide, Checkpoint, Settle, LoopAt, Up, world
  <2>3. /\ Goto("loop", Idle) /\ mem' = [mem EXCEPT !["loop"] = Empty] /\ Idle.pc = "off"
        /\ \A t \in Names : wait'[t].pc = "none"
    BY <1>3 DEF Exit, Goto, Idle, NoWaiter
  <2>4. Settles
    BY <2>2, SameSettles
  <2> QED
    BY <1>0, <2>1, <2>2, <2>3, <2>4, LoopCalm
<1>4. ASSUME UNCHANGED <<mem, disk, wait, cloud>>, ctl["loop"].pc \notin {"off", "send"},
             \E c : Goto("loop", c)
      PROVE  AgentInv' /\ Stands
  <2>1. Settles /\ Up("loop")
    BY <1>4, SameSettles DEF Up
  <2>2. PICK c : Goto("loop", c)
    BY <1>4
  <2> QED
    BY <1>0, <1>4, <2>1, <2>2, LoopCalm
<1>5. CASE Recovered
  BY <1>3, <1>4, <1>5 DEF Recovered, LoopAt, world
<1>6. CASE Decide
  BY <1>3, <1>4, <1>6 DEF Decide, LoopAt, world
<1>7. CASE Checkpoint
  BY <1>3, <1>7 DEF Checkpoint
<1>8. CASE Settle
  BY <1>3, <1>8 DEF Settle
<1>9. CASE Wake
  BY <1>4, <1>9 DEF Wake, LoopAt, files, world
<1>10. CASE ScanEnds
  BY <1>4, <1>10 DEF ScanEnds, LoopAt, files, world
<1>11. CASE PollReturns \/ PollFails
  <2>1. /\ ctl["loop"].pc = "poll" /\ UNCHANGED <<wait, cloud>>
        /\ \E andon : StartSweep(andon)
    BY <1>11 DEF PollReturns, PollFails, LoopAt, world
  <2>2. \E c : Goto("loop", c)
    BY <2>1, SweepStarts
  <2>3. PICK c : Goto("loop", c)
    BY <2>2
  <2>4. \E s : /\ Alike(s, L)
               /\ mem' = [mem EXCEPT !["loop"] = s] \/ UNCHANGED mem
               /\ disk' = disk \/ disk' = s
    <3>1. [L EXCEPT !.andon = cord].rows = L.rows
      BY Awaited DEF State
    <3>2. Alike([L EXCEPT !.andon = cord], L)
      BY <3>1 DEF Alike
    <3>3. \E s \in {L, [L EXCEPT !.andon = cord]} : Save("loop", s) \/ UNCHANGED <<mem, disk>>
      BY <1>11 DEF PollReturns, PollFails, LogAttention, Snapshot, L
    <3> QED
      BY <1>0, <3>2, <3>3 DEF Save
  <2>5. Up("loop") /\ Settles
    BY <2>1, SameSettles DEF Up
  <2> QED
    BY <2>1, <2>3, <2>4, <2>5, LoopCalm
<1> QED
  BY <1>1, <1>2, <1>5, <1>6, <1>7, <1>8, <1>9, <1>10, <1>11 DEF Reconciling

(* A process that starts takes the runs on record as they are, but for the  *)
(* rows a respawn brings back.                                              *)
LEMMA StartStep ==
    ASSUME Typed, Typed', FileInv, AgentInv, NEW p \in Procs, ~Up(p),
           NEW s, disk' = s, NEW c,
           \/ UNCHANGED <<mem, ctl>>
           \/ mem' = [mem EXCEPT ![p] = s] /\ Goto(p, c) /\ (p = "command" =>
                c.pc # "cancel" \/ (c.cmd = "cancel" /\ s.rows[c.task].run # 0)),
           UNCHANGED <<cloud, wait>>,
           \A t \in Names :
             \/ s.rows[t].status = disk.rows[t].status /\ s.rows[t].run = disk.rows[t].run
             \/ disk.rows[t].status \in {"absent", "pending"} /\ s.rows[t].run = 0
             \/ /\ disk.rows[t].status \in Failed /\ s.rows[t].status = "pending"
                /\ s.rows[t].run = 0 /\ spent' > spent /\ ctl' = ctl
    PROVE  AgentInv' /\ Stands
<1>1. \A q \in Procs \ {p} : mem'[q] = mem[q] /\ ctl'[q] = ctl[q]
  BY DEF Goto, Typed, CtlOK, StatesOK
<1>2. \/ ctl'[p].pc = "off"
      \/ /\ mem'[p] = s /\ ctl'[p] = c
         /\ p = "command" => c.pc # "cancel" \/ (c.cmd = "cancel" /\ s.rows[c.task].run # 0)
  BY DEF Goto, Typed, CtlOK, StatesOK, Up
<1>3. OverInv'
  <2>1. AllFollow(disk, disk')
    BY DEF AllFollow, Follows
  <2>2. ASSUME NEW q \in Procs, Up(q)'
        PROVE  (Up(q) /\ mem'[q] = mem[q]) \/ AllFollow(disk, mem'[q])
    <3>1. CASE q = p
      BY <1>2, <2>1, <2>2, <3>1 DEF Up
    <3>2. CASE q # p
      BY <1>1, <2>2, <3>2 DEF Up
    <3> QED
      BY <3>1, <3>2
  <2>3. KnownIn(disk, cloud) /\ OverIn(cloud, disk) /\ Settles
    BY SameSettles DEF Typed, StatesOK, AgentInv, OverInv
  <2> QED
    BY <2>1, <2>2, <2>3, CopiesFollow DEF AgentInv
<1>4. CancelInv' \/ (ctl'["command"] = ctl["command"] /\ C' = C)
  <2>1. CASE p = "command"
    BY <1>2, <2>1 DEF CancelInv, CommandAt, C
  <2>2. CASE p # "command"
    BY <1>1, <2>2 DEF C, Procs
  <2> QED
    BY <2>1, <2>2
<1>5. ASSUME NEW t \in Names
      PROVE  LET n == disk.rows[t].run
             IN  n = 0 \/ ~Works(cloud', t, n) \/ disk'.rows[t].run = n
  <2>1. disk.rows[t].status \in {"absent", "pending"} => disk.rows[t].run = 0
    BY DEF FileInv, RecInv, Recorded
  <2>2. disk.rows[t].run # 0 /\ disk.rows[t].status \in Failed =>
            ~Works(cloud', t, disk.rows[t].run)
    BY DEF AgentInv, OverInv, OverIn, OverRow, Failed, Works
  <2> QED
    BY <2>1, <2>2
<1>6. VerdictsStay
  BY DEF VerdictsStay, Failed
<1>7. Settles /\ Delivers
  <2>1. ctl[p].pc = "off"
    BY DEF Up
  <2> QED
    BY <1>1, <2>1, SameSettles, MoverDelivers
<1>8. NamesStay
  BY <1>5, <1>7, NamesKept
<1>9. \A u : Alike(u, u)
  BY DEF Alike
<1> QED
  BY <1>3, <1>4, <1>6, <1>7, <1>8, <1>9, AgentsKept DEF Stands

LEMMA BootAgents ==
    ASSUME Typed, Typed', FileInv, AgentInv, Boot
    PROVE  AgentInv' /\ Stands
<1> DEFINE s == Loaded(disk, plan)
           c == [Idle EXCEPT !.pc = "recover", !.cmd = "run", !.todo = With(s.rows, "running"),
                             !.known = With(s.rows, "error")]
<1>1. /\ disk' = s /\ mem' = [mem EXCEPT !["loop"] = s] /\ Goto("loop", c)
      /\ UNCHANGED <<cloud, wait>>
  BY DEF Boot, Save
<1>2. "loop" \in Procs /\ ~Up("loop")
  BY DEF Boot, LoopAt, Up, Procs
<1>3. \A t \in Names :
        \/ s.rows[t].status = disk.rows[t].status /\ s.rows[t].run = disk.rows[t].run
        \/ /\ disk.rows[t].status \in {"absent", "pending"}
           /\ s.rows[t].run \in {0, disk.rows[t].run}
  BY LoadedVerdicts DEF Typed, WorldOK
<1> HIDE DEF s, c
<1>4. \A t \in Names : disk.rows[t].status \in {"absent", "pending"} => disk.rows[t].run = 0
  BY DEF FileInv, RecInv, Recorded
<1>5. \A t \in Names :
             \/ s.rows[t].status = disk.rows[t].status /\ s.rows[t].run = disk.rows[t].run
             \/ disk.rows[t].status \in {"absent", "pending"} /\ s.rows[t].run = 0
  BY <1>3, <1>4
<1>6. "loop" # "command"
  OBVIOUS
<1> QED
  BY <1>1, <1>2, <1>5, <1>6, StartStep

LEMMA CommandStartsAgents ==
    ASSUME Typed, Typed', FileInv, AgentInv, NEW cmd, NEW t, StartCommand(cmd, t),
           NEW s, NEW c,
           \/ EndsWith(s)
           \/ GoesOn(s, c) /\ (c.pc # "cancel" \/ (c.cmd = "cancel" /\ s.rows[c.task].run # 0)),
           \A u \in Names :
             \/ s.rows[u].status = Found.rows[u].status /\ s.rows[u].run = Found.rows[u].run
             \/ Found.rows[u].status \in {"absent", "pending"} /\ s.rows[u].run = 0
             \/ /\ Found.rows[u].status \in Failed
                /\ s.rows[u].status = "pending" /\ s.rows[u].run = 0 /\ EndsWith(s)
    PROVE  AgentInv' /\ Stands
<1>1. "command" \in Procs /\ ~Up("command") /\ UNCHANGED <<cloud, wait>>
  BY DEF StartCommand, CommandAt, Up, Procs
<1>2. \A u \in Names :
        \/ Found.rows[u].status = disk.rows[u].status /\ Found.rows[u].run = disk.rows[u].run
        \/ /\ disk.rows[u].status \in {"absent", "pending"}
           /\ Found.rows[u].run \in {0, disk.rows[u].run}
  BY LoadedVerdicts DEF Typed, WorldOK, Found
<1>3. \A u \in Names : disk.rows[u].status \in {"absent", "pending"} => disk.rows[u].run = 0
  BY DEF FileInv, RecInv, Recorded
<1>4. spent' > spent
  BY BoundsAssumption DEF StartCommand, Typed, WorldOK
<1>5. EndsWith(s) => ctl' = ctl
  BY DEF EndsWith
<1>6. \A u \in Names :
             \/ s.rows[u].status = disk.rows[u].status /\ s.rows[u].run = disk.rows[u].run
             \/ disk.rows[u].status \in {"absent", "pending"} /\ s.rows[u].run = 0
             \/ /\ disk.rows[u].status \in Failed /\ s.rows[u].status = "pending"
                /\ s.rows[u].run = 0 /\ spent' > spent /\ ctl' = ctl
  BY <1>2, <1>3, <1>4, <1>5
<1>7. /\ disk' = s
      /\ \/ UNCHANGED <<mem, ctl>>
         \/ /\ mem' = [mem EXCEPT !["command"] = s] /\ Goto("command", c)
            /\ c.pc # "cancel" \/ (c.cmd = "cancel" /\ s.rows[c.task].run # 0)
  BY DEF EndsWith, GoesOn, Save
<1> QED
  BY <1>1, <1>6, <1>7, StartStep

LEMMA SpawnCommandAgents ==
    ASSUME Typed, Typed', FileInv, AgentInv, NEW t \in Names, SpawnCommand(t)
    PROVE  AgentInv' /\ Stands
<1> DEFINE row == Found.rows[t]
           new == IF row.status = "absent" THEN InlineTask(t) ELSE row
           next == [new EXCEPT !.attempts = new.attempts + 1]
           s == [Found EXCEPT !.rows[t] = next]
           c == [Idle EXCEPT !.pc = "create", !.cmd = "spawn", !.task = t, !.try = 1]
<1>1. /\ StartCommand("spawn", t)
      /\ EndsWith(Found) \/ (GoesOn(s, c) /\ row.status \in {"absent", "pending"})
  BY DEF SpawnCommand
<1>2. c.pc = "create"
  BY DEF Idle
<1>3. ASSUME row.status \in {"absent", "pending"}
      PROVE  next \in Row /\ next.run = 0
  <2>1. InlineTask(t) \in Row /\ InlineTask(t).run = 0
    BY NewRowType DEF InlineTask
  <2>2. row \in Row /\ row.run = 0
    BY <1>3, FoundType, FoundRecorded DEF Recorded
  <2>3. new \in Row /\ new.run = 0
    BY <2>1, <2>2
  <2> HIDE DEF new
  <2> QED
    BY <2>3 DEF Row
<1> HIDE DEF next
<1>4. ASSUME row.status \in {"absent", "pending"}
      PROVE  s.rows[t] = next /\ \A u \in Names \ {t} : s.rows[u] = Found.rows[u]
  BY <1>3, <1>4, FoundType, RowChanged
<1> HIDE DEF s, c
<1>5. CASE EndsWith(Found)
  BY <1>1, <1>5, CommandStartsAgents
<1>6. CASE GoesOn(s, c) /\ row.status \in {"absent", "pending"}
  <2>1. \A u \in Names :
             \/ s.rows[u].status = Found.rows[u].status /\ s.rows[u].run = Found.rows[u].run
             \/ Found.rows[u].status \in {"absent", "pending"} /\ s.rows[u].run = 0
    BY <1>3, <1>4, <1>6
  <2> QED
    BY <1>1, <1>2, <1>6, <2>1, CommandStartsAgents
<1> QED
  BY <1>1, <1>5, <1>6

LEMMA RespawnCommandAgents ==
    ASSUME Typed, Typed', FileInv, AgentInv, NEW t \in Names, NEW cascade \in BOOLEAN,
           RespawnCommand(t, cascade)
    PROVE  AgentInv' /\ Stands
<1> DEFINE again == {u \in With(Found.rows, "pruned") : cascade /\ t \in RowAncestors(Found.rows, u)}
           rows == [u \in Names |-> IF u \in again \cup {t} THEN Respawned(Found.rows[u], u)
                                    ELSE Found.rows[u]]
           cmd == IF cascade THEN "cascade" ELSE "respawn"
           s == [Found EXCEPT !.rows = rows]
<1>1. /\ StartCommand(cmd, t)
      /\ \/ EndsWith(Found)
         \/ EndsWith(s) /\ Found.rows[t].status \notin {"absent", "running", "handed-off"}
  BY DEF RespawnCommand
<1> HIDE DEF cmd
<1>2. CASE EndsWith(Found)
  BY <1>1, <1>2, CommandStartsAgents
<1>3. CASE EndsWith(s) /\ Found.rows[t].status \notin {"absent", "running", "handed-off"}
  <2>1. \A u \in again \cup {t} : u \in Names /\ Found.rows[u].status \in Failed \cup {"pending"}
    <3>1. Found.rows[t].status \in Statuses
      BY FoundType DEF Row
    <3> QED
      BY <1>3, <3>1 DEF With, Failed, Statuses
  <2> HIDE DEF again
  <2>2. \A u \in Names :
          /\ rows[u] \in Row
          /\ u \in again \cup {t} => rows[u].status = "pending" /\ rows[u].run = 0
          /\ u \notin again \cup {t} => rows[u] = Found.rows[u]
    <3>1. ASSUME NEW u \in Names
          PROVE  LET r == Respawned(Found.rows[u], u)
                 IN  r \in Row /\ r.run = 0 /\ r.status = "pending"
      <4>1. Found.rows[u] \in Row
        BY FoundType
      <4>2. Respawned(Found.rows[u], u).status = "pending"
        BY <4>1 DEF Respawned, Row
      <4> QED
        BY <4>1, <4>2, RespawnedType
    <3> QED
      BY <3>1, FoundType
  <2>3. rows \in [Names -> Row]
    BY <2>2
  <2> HIDE DEF rows
  <2>4. s.rows = rows
    BY <2>3, FoundType, RowsChanged
  <2> HIDE DEF s
  <2>5. \A u \in Names :
             \/ s.rows[u].status = Found.rows[u].status /\ s.rows[u].run = Found.rows[u].run
             \/ Found.rows[u].status \in {"absent", "pending"} /\ s.rows[u].run = 0
             \/ /\ Found.rows[u].status \in Failed
                /\ s.rows[u].status = "pending" /\ s.rows[u].run = 0 /\ EndsWith(s)
    BY <1>3, <2>1, <2>2, <2>4
  <2> QED
    BY <1>1, <1>3, <2>5, CommandStartsAgents
<1> QED
  BY <1>1, <1>2, <1>3

(* A command goes on or ends with what it holds, or marks one row of a run  *)
(* that works no more.                                                      *)
LEMMA CommandCalm ==
    ASSUME Typed, Typed', AgentInv, Up("command"), NEW c, Goto("command", c),
           UNCHANGED <<disk, wait>>,
           UNCHANGED mem \/ (c.pc = "off" /\ mem' = [mem EXCEPT !["command"] = Empty]),
           c.pc = "cancel" => LET row == C.rows[c.task]
                              IN  row.run # 0 /\ (c.cmd # "cancel" => row.status = "running"),
           Settles,
           ctl["command"].pc = "send" => ~Works(cloud', ctl["command"].task, ctl["command"].agent)
    PROVE  AgentInv' /\ Stands
<1>1. /\ "command" \in Procs /\ ctl'["command"] = c
      /\ \A q \in Procs \ {"command"} : mem'[q] = mem[q] /\ ctl'[q] = ctl[q]
  BY DEF Goto, Typed, CtlOK, StatesOK, Procs
<1>2. Up("command")' => Alike(mem'["command"], C)
  BY <1>1 DEF Up, Alike, C
<1>3. CancelInv'
  BY <1>1 DEF CancelInv, CommandAt, C
<1> QED
  BY <1>1, <1>2, <1>3, CalmStep DEF C

LEMMA CommandMarksAgents ==
    ASSUME Typed, Typed', AgentInv, Up("command"), ctl["command"].pc # "send", NEW t \in Names,
           NEW status \in {"error", "pruned", "cancelled"},
           NEW c, c.pc # "cancel", Writes("command", t, [C.rows[t] EXCEPT !.status = status], c),
           LET n == C.rows[t].run IN n = 0 \/ ~Works(cloud', t, n),
           \/ C.rows[t].status \in {"pending", "running"}
           \/ status = "cancelled" /\ ctl["command"].cmd = "cancel",
           Settles, UNCHANGED wait
    PROVE  AgentInv' /\ Stands
<1> DEFINE r == [C.rows[t] EXCEPT !.status = status]
<1>1. r \in Row /\ r.status = status /\ r.run = C.rows[t].run
  BY CommandRow DEF Row, Statuses
<1> HIDE DEF r
<1>2. Writes("command", t, r, c) /\ "command" \in Procs
  BY DEF r, Procs
<1> QED
  BY <1>1, <1>2, WriteStep DEF C, Failed

LEMMA StopTaskAgents ==
    ASSUME Typed, Typed', FileInv, AgentInv, NEW t \in Names, StopTask(t)
    PROVE  AgentInv' /\ Stands
<1> DEFINE row == C.rows[t]
           next == [ctl["command"] EXCEPT !.todo = ctl["command"].todo \ {t}]
           cancel == [next EXCEPT !.pc = "cancel", !.task = t]
<1>1. /\ ctl["command"].pc = "stop" /\ UNCHANGED <<wait, cloud>>
      /\ \/ /\ row.status = "running" /\ row.run # 0
            /\ Goto("command", cancel) /\ UNCHANGED <<mem, disk>>
         \/ Goto("command", next) /\ UNCHANGED <<mem, disk>>
         \/ /\ (row.status = "running" /\ row.run = 0) \/ row.status = "pending"
            /\ \E status \in {"error", "pruned"} : Touch("command", t, [row EXCEPT !.status = status])
            /\ Goto("command", next)
  BY DEF StopTask, CommandAt, world
<1>2. next.pc = "stop" /\ cancel.pc = "cancel" /\ cancel.task = t
  BY <1>1, CommandRow DEF Control
<1>3. Up("command") /\ Settles
  BY <1>1, SameSettles DEF Up
<1>4. row.status = "pending" => row.run = 0
  BY <1>3, CommandRow DEF FileInv, RecInv, Recorded, C
<1> HIDE DEF next, cancel
<1>5. CASE row.status = "running" /\ row.run # 0 /\ Goto("command", cancel) /\ UNCHANGED <<mem, disk>>
  BY <1>1, <1>2, <1>3, <1>5, CommandCalm
<1>6. CASE Goto("command", next) /\ UNCHANGED <<mem, disk>>
  BY <1>1, <1>2, <1>3, <1>6, CommandCalm
<1>7. ASSUME NEW status \in {"error", "pruned"},
             Touch("command", t, [row EXCEPT !.status = status]), Goto("command", next),
             row.run = 0, row.status \in {"pending", "running"}
      PROVE  AgentInv' /\ Stands
  <2>1. Writes("command", t, [C.rows[t] EXCEPT !.status = status], next)
    BY <1>2, <1>7 DEF Writes, Touch, Save, Goto
  <2> QED
    BY <1>1, <1>2, <1>3, <1>7, <2>1, CommandMarksAgents
<1> QED
  BY <1>1, <1>4, <1>5, <1>6, <1>7

LEMMA CancellingAgents ==
    ASSUME Typed, Typed', AgentInv, CancelReturns \/ CancelFails
    PROVE  AgentInv' /\ Stands
<1> DEFINE t == ctl["command"].task
           n == C.rows[t].run
           kill == ctl["command"].cmd # "cancel"
           stop == [ctl["command"] EXCEPT !.pc = "stop", !.task = NoTask]
<1>1. ctl["command"].pc = "cancel" /\ UNCHANGED wait
  BY DEF CancelReturns, CancelFails, CommandAt
<1>2. t \in Names /\ Up("command")
  BY <1>1 DEF Typed, CtlOK, AtHand, Procs, Up
<1>3. stop.pc = "stop" /\ Idle.pc = "off"
  BY CommandRow, <1>2 DEF Control, Idle
<1>4. n # 0 /\ (kill => C.rows[t].status = "running")
  BY <1>1 DEF AgentInv, CancelInv, CommandAt
<1>5. n \in DOMAIN cloud[t]
  BY <1>2, <1>4, CommandRow DEF Typed, CloudOK
<1> HIDE DEF stop, t, n
<1>6. ASSUME NEW status \in {"cancelled", "error"}, NextVictim([C.rows[t] EXCEPT !.status = status]),
             status = "error" => kill, Settles, ~Works(cloud', t, n)
      PROVE  AgentInv' /\ Stands
  <2>1. \/ Writes("command", t, [C.rows[t] EXCEPT !.status = status], Idle)
        \/ Writes("command", t, [C.rows[t] EXCEPT !.status = status], stop)
    BY <1>3, <1>6 DEF NextVictim, EndCommand, Writes, Touch, Save, Goto, C, stop, t
  <2> QED
    BY <1>1, <1>2, <1>3, <1>4, <1>6, <2>1, CommandMarksAgents DEF n
<1>7. CASE CancelReturns
  <2>1. /\ NextVictim([C.rows[t] EXCEPT !.status = "cancelled"])
        /\ IF cloud[t][n].phase = "live"
           THEN Replace(t, n, [cloud[t][n] EXCEPT !.phase = "cancelled"])
           ELSE UNCHANGED cloud
    BY <1>7 DEF CancelReturns, t, n
  <2>2. Settles /\ ~Works(cloud', t, n)
    <3>1. CASE cloud[t][n].phase = "live"
      BY <1>2, <1>5, <2>1, <3>1, AgentSettles
    <3>2. CASE cloud[t][n].phase # "live"
      BY <2>1, <3>2, SameSettles DEF Works
    <3> QED
      BY <3>1, <3>2
  <2> QED
    BY <1>6, <2>1, <2>2
<1>8. CASE CancelFails
  <2>1. PICK landed \in BOOLEAN :
              Replace(t, n, [cloud[t][n] EXCEPT
                !.phase = IF landed /\ @ = "live" THEN "cancelled" ELSE @,
                !.lost = @ \/ kill])
    BY <1>8 DEF CancelFails, t, n
  <2>2. kill \in BOOLEAN
    OBVIOUS
  <2>3. Settles /\ (kill => ~Works(cloud', t, n))
    BY <1>2, <1>5, <2>1, <2>2, AgentSettles
  <2>4. IF kill THEN NextVictim([C.rows[t] EXCEPT !.status = "error"])
        ELSE EndCommand /\ UNCHANGED disk
    BY <1>8 DEF CancelFails, t, n
  <2>5. CASE kill
    BY <1>6, <2>3, <2>4, <2>5
  <2>6. CASE ~kill
    <3>1. Goto("command", Idle) /\ mem' = [mem EXCEPT !["command"] = Empty] /\ UNCHANGED disk
      BY <2>4, <2>6 DEF EndCommand, Goto
    <3> QED
      BY <1>1, <1>2, <1>3, <2>3, <3>1, CommandCalm
  <2> QED
    BY <2>5, <2>6
<1> QED
  BY <1>7, <1>8

(* A process that dies loses the prompt it was sending. *)
LEMMA LosesAgent ==
    ASSUME Typed, NEW p \in Procs, LosePrompt(p)
    PROVE  Settles /\ (ctl[p].pc = "send" => ~Works(cloud', ctl[p].task, ctl[p].agent))
<1> DEFINE t == ctl[p].task
           n == ctl[p].agent
<1>1. CASE ctl[p].pc = "send"
  <2>1. t \in Names /\ n \in DOMAIN cloud[t]
    BY <1>1 DEF Typed, CtlOK, AtHand
  <2>2. Replace(t, n, [cloud[t][n] EXCEPT !.lost = TRUE])
    BY <1>1 DEF LosePrompt
  <2> HIDE DEF t, n
  <2>3. Settles /\ ~Works(cloud', t, n)
    BY <2>1, <2>2, AgentSettles
  <2> QED
    BY <2>3 DEF t, n
<1>2. CASE ctl[p].pc # "send"
  BY <1>2, SameSettles DEF LosePrompt
<1> QED
  BY <1>1, <1>2

LEMMA OperatingAgents ==
    ASSUME Typed, Typed', FileInv, AgentInv, Operating
    PROVE  AgentInv' /\ Stands
<1>1. ASSUME NEW t \in Names, SpawnCommand(t) PROVE AgentInv' /\ Stands
  BY <1>1, SpawnCommandAgents
<1>2. ASSUME NEW t \in Names, NEW cascade \in BOOLEAN, RespawnCommand(t, cascade)
      PROVE  AgentInv' /\ Stands
  BY <1>2, RespawnCommandAgents
<1>3. ASSUME NEW t \in Names, CancelCommand(t) PROVE AgentInv' /\ Stands
  <2> DEFINE c == [Idle EXCEPT !.pc = "cancel", !.cmd = "cancel", !.task = t]
  <2>1. c.task = t /\ c.cmd = "cancel"
    BY DEF Idle
  <2>2. StartCommand("cancel", t) /\ (EndsWith(Found) \/ (GoesOn(Found, c) /\ Found.rows[t].run # 0))
    BY <1>3 DEF CancelCommand
  <2> HIDE DEF c
  <2> QED
    BY <2>1, <2>2, CommandStartsAgents
<1>4. ASSUME NEW t \in Names \cup {NoTask}, KillCommand(t) PROVE AgentInv' /\ Stands
  <2>1. StartCommand("kill", t)
        /\ \E S : GoesOn(Found, [Idle EXCEPT !.pc = "stop", !.cmd = "kill", !.todo = S])
    BY <1>4 DEF KillCommand
  <2>2. PICK S : GoesOn(Found, [Idle EXCEPT !.pc = "stop", !.cmd = "kill", !.todo = S])
    BY <2>1
  <2> DEFINE c == [Idle EXCEPT !.pc = "stop", !.cmd = "kill", !.todo = S]
  <2>3. c.pc = "stop"
    BY DEF Idle
  <2>4. GoesOn(Found, c)
    BY <2>2
  <2> HIDE DEF c
  <2> QED
    BY <2>1, <2>3, <2>4, CommandStartsAgents
<1>5. ASSUME NEW t \in Names, StopTask(t) PROVE AgentInv' /\ Stands
  BY <1>5, StopTaskAgents
<1>6. CASE StopEnds \/ CommandDies
  <2>1. /\ Up("command") /\ EndCommand /\ UNCHANGED <<disk, wait>> /\ Idle.pc = "off"
    BY <1>6 DEF StopEnds, CommandDies, CommandAt, Up, files, Idle
  <2>2. /\ Settles
        /\ ctl["command"].pc = "send" => ~Works(cloud', ctl["command"].task, ctl["command"].agent)
    <3>1. CASE StopEnds
      BY <3>1, SameSettles DEF StopEnds, CommandAt, world
    <3>2. CASE CommandDies
      BY <3>2, LosesAgent DEF CommandDies, Procs
    <3> QED
      BY <1>6, <3>1, <3>2
  <2> QED
    BY <2>1, <2>2, CommandCalm DEF EndCommand, Goto
<1>7. CASE CancelReturns \/ CancelFails
  BY <1>7, CancellingAgents
<1> QED
  BY <1>1, <1>2, <1>3, <1>4, <1>5, <1>6, <1>7 DEF Operating

LEMMA RunStartsAgents ==
    ASSUME Typed, Typed', WatchingNow, FileInv, AgentInv, NEW p \in Procs, RunStarts(p)
    PROVE  AgentInv' /\ Stands
<1> DEFINE t == ctl[p].task
           n == ctl[p].agent
           agent == [cloud[t][n] EXCEPT !.phase = "live"]
<1>1. /\ ctl[p].pc = "send" /\ cloud[t][n].phase = "created"
      /\ Replace(t, n, agent) /\ UNCHANGED <<disk, mem, ctl, wait>>
  BY DEF RunStarts, files, procs
<1>2. t \in Names /\ n \in DOMAIN cloud[t] /\ Sends(ctl, t, n)
  BY <1>1 DEF Typed, CtlOK, AtHand, Sends
<1>3. cloud[t][n] \in Agent
  BY <1>2, RowAt DEF Typed, CloudOK
<1>4. agent \in Agent /\ agent.phase = "live"
  BY <1>3 DEF Agent
<1> HIDE DEF agent, t, n
<1>5. /\ cloud'[t][n] = agent
      /\ \A u \in Names : \A m \in DOMAIN cloud[u] : ~(u = t /\ m = n) => cloud'[u][m] = cloud[u][m]
      /\ \A u \in Names : DOMAIN cloud'[u] = DOMAIN cloud[u]
  <2>1. /\ \A u \in Names : Len(cloud'[u]) = Len(cloud[u]) /\ Grows
        /\ cloud'[t][n] = agent
        /\ \A u \in Names : \A m \in DOMAIN cloud[u] : ~(u = t /\ m = n) => cloud'[u][m] = cloud[u][m]
    BY <1>1, <1>2, <1>4, Replaced DEF Typed
  <2> QED
    BY <2>1 DEF Grows, CloudOK, Typed
<1>6. ASSUME NEW row, OverRow(cloud, t, row) PROVE row.run # n
  BY <1>1, <1>2, <1>6 DEF OverRow, Typed, CloudOK
<1>7. ASSUME NEW s, KnownIn(s, cloud), OverIn(cloud, s) PROVE OverIn(cloud', s)
  <2>1. ASSUME NEW u \in Names, s.rows[u].run # 0
        PROVE  cloud'[u][s.rows[u].run] = cloud[u][s.rows[u].run]
    <3>1. s.rows[u].run \in DOMAIN cloud[u]
      BY <1>7, <2>1 DEF KnownIn, Typed, CloudOK
    <3>2. ~(u = t /\ s.rows[u].run = n)
      BY <1>6, <1>7 DEF OverIn
    <3> QED
      BY <1>5, <3>1, <3>2
  <2> QED
    BY <1>7, <2>1 DEF OverIn, OverRow, Works
<1>8. OverInv' /\ CancelInv'
  <2>1. KnownIn(disk, cloud) /\ \A q \in Procs : KnownIn(mem[q], cloud)
    BY DEF Typed, StatesOK
  <2> QED
    BY <1>1, <1>7, <2>1 DEF AgentInv, OverInv, CancelInv, Up, CommandAt, C
<1>9. DoneInv'
  <2>1. ASSUME NEW u \in Names, wait[u].pc = "filed"
        PROVE  cloud'[u][wait[u].run] = cloud[u][wait[u].run]
    <3>1. wait[u].run \in DOMAIN cloud[u] /\ wait[u].run = L.rows[u].run /\ Up("loop")
      BY <2>1, AwaitedRuns DEF Typed, WaitOK, FileInv, WaitInv, Watch
    <3>2. OverRow(cloud, u, L.rows[u])
      BY <3>1 DEF AgentInv, OverInv, OverIn, L, Procs
    <3>3. ~(u = t /\ wait[u].run = n)
      BY <1>6, <3>1, <3>2
    <3> QED
      BY <1>5, <3>1, <3>3
  <2> QED
    BY <1>1, <2>1 DEF AgentInv, DoneInv, Works
<1>10. VerdictsStay
  BY <1>1 DEF VerdictsStay
<1>11. NamesStay
  <2>1. ASSUME NEW u \in Names, NEW m \in DOMAIN cloud'[u], Works(cloud', u, m), ~Sends(ctl', u, m)
        PROVE  m \in DOMAIN cloud[u] /\ Works(cloud, u, m)
    <3>1. m \in DOMAIN cloud[u]
      BY <1>5
    <3>2. ~(u = t /\ m = n)
      BY <1>1, <1>2, <2>1
    <3> QED
      BY <1>5, <2>1, <3>1, <3>2 DEF Works
  <2> QED
    BY <1>1, <2>1 DEF NamesStay
<1> QED
  BY <1>8, <1>9, <1>10, <1>11 DEF AgentInv, Stands

LEMMA NextAgents ==
    ASSUME Typed, WatchingNow, FileInv, AgentInv, [Next]_vars
    PROVE  AgentInv' /\ Stands
<1>0. Typed'
  BY NextTyped
<1>1. CASE Boot
  BY <1>0, <1>1, BootAgents
<1>2. CASE Reconciling
  BY <1>0, <1>2, ReconcilingAgents
<1>3. CASE LoopDies
  <2>1. /\ Goto("loop", Idle) /\ mem' = [mem EXCEPT !["loop"] = Empty] /\ Idle.pc = "off"
        /\ Up("loop") /\ disk' = disk /\ \A t \in Names : wait'[t].pc = "none"
    BY <1>3 DEF LoopDies, LoopAt, Up, Goto, Idle, NoWaiter, files
  <2>2. Settles /\ (ctl["loop"].pc = "send" => ~Works(cloud', ctl["loop"].task, ctl["loop"].agent))
    BY <1>3, LosesAgent DEF LoopDies, Procs
  <2>3. Alike(L, L)
    BY DEF Alike
  <2> QED
    BY <1>0, <2>1, <2>2, <2>3, LoopCalm
<1>4. ASSUME NEW p \in Procs, Spawning(p) PROVE AgentInv' /\ Stands
  BY <1>0, <1>4, SpawningAgents
<1>5. ASSUME NEW t \in Names, Waiting(t) PROVE AgentInv' /\ Stands
  BY <1>0, <1>5, WaitingAgents
<1>6. CASE Operating
  BY <1>0, <1>6, OperatingAgents
<1>7. ASSUME Settles, UNCHANGED <<files, procs>> PROVE AgentInv' /\ Stands
  <2>1. UNCHANGED <<disk, mem, ctl, wait>>
    BY <1>7 DEF files, procs
  <2>2. CancelInv'
    BY <2>1 DEF AgentInv, CancelInv, CommandAt, C
  <2>3. Delivers /\ VerdictsStay
    BY <2>1 DEF Delivers, VerdictsStay, Sends
  <2>4. NamesStay
    BY <1>0, <1>7, <2>1, <2>3, NamesKept
  <2>5. OverInv'
    <3>1. AllFollow(disk, disk)
      BY DEF AllFollow, Follows
    <3>2. KnownIn(disk, cloud) /\ OverIn(cloud, disk)
      BY DEF Typed, StatesOK, AgentInv, OverInv
    <3>3. \A q \in Procs : Up(q)' => Up(q) /\ mem'[q] = mem[q]
      BY <2>1 DEF Up
    <3> QED
      BY <1>0, <1>7, <2>1, <3>2, <3>3, CopiesFollow DEF AgentInv
  <2> QED
    BY <1>0, <1>7, <2>1, <2>2, <2>3, <2>4, <2>5, AgentsKept DEF Stands
<1>8. ASSUME NEW p \in Procs, RunStarts(p) PROVE AgentInv' /\ Stands
  BY <1>0, <1>8, RunStartsAgents
<1>9. ASSUME NEW t \in Names, NEW n \in DOMAIN cloud[t], NEW end \in {"finished", "error"},
             NEW branch \in Pushes[t], RunEnds(t, n, end, branch)
      PROVE  AgentInv' /\ Stands
  <2>1. end \in Ends /\ branch \in Branches \cup {"none"}
    BY NamesAssumption DEF Ends, Branches
  <2>2. cloud[t][n].phase = "live" /\ Replace(t, n, [cloud[t][n] EXCEPT !.phase = end, !.branch = branch])
    BY <1>9 DEF RunEnds
  <2>3. Settles
    BY <2>1, <2>2, AgentSettles
  <2> QED
    BY <1>7, <1>9, <2>3 DEF RunEnds
<1>10. CASE (\E p \in Plans : EditPlan(p)) \/ PullCord \/ ReleaseCord \/ UNCHANGED vars
  <2>1. UNCHANGED <<files, procs, cloud>>
    BY <1>10 DEF EditPlan, PullCord, ReleaseCord, vars, world
  <2> QED
    BY <1>7, <2>1, SameSettles
<1> QED
  BY <1>1, <1>2, <1>3, <1>4, <1>5, <1>6, <1>8, <1>9, <1>10 DEF Next

LEMMA InitAgents == Init => AgentInv
<1> SUFFICES ASSUME Init PROVE AgentInv
  OBVIOUS
<1>1. \A t \in Names : disk.rows[t].run = 0 /\ cloud[t] = <<>> /\ wait[t].pc = "none"
  BY EmptyType DEF Init, NoRow, NoWaiter
<1>2. \A p \in Procs : ctl[p].pc = "off"
  BY DEF Init, Idle
<1> QED
  BY <1>1, <1>2 DEF AgentInv, OverInv, OverIn, OverRow, DoneInv, CancelInv, Up, CommandAt, Procs

(* For all tasks, plans and bounds and over any overlap of commands with a  *)
(* loop: an agent that works, and that no call has failed on, is the one    *)
(* its row in state.json names or one just being sent its prompt.  It loses *)
(* that name only in a save that puts a copy of the row over one the saving *)
(* process has not read (spawnTask, respawnTask, recoverRunning, saveState).*)
THEOREM AgentsStayNamed == Spec => AgentsKeepNames
<1> DEFINE IInv == Filed /\ AgentInv
<1>1. Init => IInv
  BY FiledInductive, InitAgents
<1>2. IInv /\ [Next]_vars => IInv' /\ NamesStay
  BY FiledInductive, NextAgents DEF Filed, Stands
<1> DEFINE Keep == \A t \in Names : \A n \in DOMAIN cloud'[t] :
        AtWork(t, n)' /\ ~Named(t, n)' =>
            \/ n \in DOMAIN cloud[t] /\ AtWork(t, n) /\ ~Named(t, n)
            \/ disk.rows[t].run = n /\ \E p \in Procs : Overwrites(p, t)
<1>3. NamesStay => Keep
  BY DEF NamesStay, Named, Sent, Sends, AtWork, Works, Taken
<1>4. AgentsKeepNames <=> [][Keep]_vars
  BY DEF AgentsKeepNames
<1> HIDE DEF IInv, NamesStay, Keep
<1> QED
  BY <1>1, <1>2, <1>3, <1>4, PTL DEF Spec

(* Likewise: no step takes a verdict in state.json back, except a respawn,  *)
(* a cancel of a task that has ended, and a save that puts a copy of the    *)
(* row over one the saving process has not read (spawnTask, respawnTask,    *)
(* cancelTask, waitAndHandoff, saveState).                                  *)
THEOREM VerdictsStand == Spec => DecisionsStand
<1> DEFINE IInv == Filed /\ AgentInv
<1>1. Init => IInv
  BY FiledInductive, InitAgents
<1>2. IInv /\ [Next]_vars => IInv' /\ VerdictsStay
  BY FiledInductive, NextAgents DEF Filed, Stands
<1>3. DecisionsStand <=> [][VerdictsStay]_vars
  BY DEF DecisionsStand, VerdictsStay, Taken
<1> HIDE DEF IInv, VerdictsStay
<1> QED
  BY <1>1, <1>2, <1>3, PTL DEF Spec

-----------------------------------------------------------------------------
(* What a verifier is cloned from, over any overlap of commands and loop.  *)

\* The run a row names has ended, having pushed the row's branch or none.
Pushed(cl, t, n, branch) ==
    n \in DOMAIN cl[t] /\ cl[t][n].phase \in Ends /\ cl[t][n].branch \in {branch, "none"}

Delivered(s, cl) == \A t \in Names :
    Handed(s, t) => Pushed(cl, t, s.rows[t].run, s.rows[t].branch)

BranchInv == Delivered(disk, cloud) /\ \A p \in Procs : Up(p) => Delivered(mem[p], cloud)

FinishedInv == \A t \in Names : wait[t].pc = "filed" /\ wait[t].end = "finished" =>
    Pushed(cloud, t, wait[t].run, wait[t].branch)

\* A pending task of the plan waits for what the plan and its kind say.
DepsInv == Up("loop") => \A t \in DOMAIN planned :
    L.rows[t].status = "pending" => NormalizedDependsOn(planned, t) \subseteq L.rows[t].dependsOn

\* A sweep goes over the plan; a verifier it spawns has its target handed off,
\* and is created from the target's branch.
Swept(rows, c) ==
    /\ c.pc \in {"scan", "create", "send", "backoff"} => c.todo \subseteq DOMAIN planned
    /\ \A t \in Names : Hand(c, t) /\ IsVerifier(t) =>
        LET u == Verifies[t]
        IN  /\ rows[u].status = "handed-off"
            /\ c.pc = "create" => RefRefused(rows, t) \/ rows[t].startingRef = rows[u].branch

SweepInv == Up("loop") => Swept(L.rows, ctl["loop"])

\* Commands spawn no verifier.
InlineInv == \A t \in Names : Hand(ctl["command"], t) => ~IsVerifier(t)

BranchesInv == BranchInv /\ FinishedInv /\ DepsInv /\ SweepInv /\ InlineInv

\* What a run pushed stands.
PushesStand == \A t \in Names : \A n \in DOMAIN cloud[t] : cloud[t][n].phase \in Ends =>
    /\ n \in DOMAIN cloud'[t]
    /\ cloud'[t][n].phase = cloud[t][n].phase /\ cloud'[t][n].branch = cloud[t][n].branch

\* The new state hands off what the old one did, or what was delivered.
Carries(s, u) == \A t \in Names : Handed(s, t) =>
    \/ Handed(u, t) /\ s.rows[t].run = u.rows[t].run /\ s.rows[t].branch = u.rows[t].branch
    \/ Pushed(cloud', t, s.rows[t].run, s.rows[t].branch)

LEMMA DeliveredKept ==
    ASSUME PushesStand, NEW s, NEW u, Delivered(u, cloud), Carries(s, u)
    PROVE  Delivered(s, cloud')
<1>1. ASSUME NEW t \in Names, Handed(s, t)
      PROVE  Pushed(cloud', t, s.rows[t].run, s.rows[t].branch)
  <2>1. CASE Handed(u, t) /\ s.rows[t].run = u.rows[t].run /\ s.rows[t].branch = u.rows[t].branch
    BY <2>1 DEF Delivered, Pushed, PushesStand
  <2> QED
    BY <1>1, <2>1 DEF Carries
<1> QED
  BY <1>1 DEF Delivered

LEMMA CarriesItself ==
    ASSUME NEW s
    PROVE  Carries(s, s)
  BY DEF Carries

(* The loop goes on from s, or ends. *)
LEMMA LoopMoves ==
    ASSUME Typed, BranchesInv, Up("loop"), PushesStand, NEW s, Carries(s, L),
           mem'["command"] = mem["command"] /\ ctl'["command"] = ctl["command"],
           disk' \in {disk, L, s},
           Up("loop")' =>
                /\ L' = s /\ UNCHANGED planned /\ Swept(s.rows, ctl'["loop"])
                /\ \A t \in Names : s.rows[t].status = "pending" =>
                      L.rows[t].status = "pending" /\ s.rows[t].dependsOn = L.rows[t].dependsOn,
           \A t \in Names : wait'[t].pc = "filed" =>
                wait'[t] = wait[t] \/ Pushed(cloud', t, wait'[t].run, wait'[t].branch)
                \/ wait'[t].end # "finished"
    PROVE  BranchesInv'
<1>1. Delivered(s, cloud') /\ Delivered(L, cloud) /\ Carries(disk, disk) /\ Carries(L, L)
  BY DeliveredKept, CarriesItself DEF BranchesInv, BranchInv, L, Procs
<1>2. Delivered(disk', cloud')
  BY <1>1, DeliveredKept DEF BranchesInv, BranchInv
<1>3. Up("command") => Delivered(mem["command"], cloud')
  BY CarriesItself, DeliveredKept DEF BranchesInv, BranchInv, Procs
<1>4. BranchInv'
  BY <1>1, <1>2, <1>3 DEF BranchInv, Up, Procs, L
<1>5. FinishedInv'
  BY DEF BranchesInv, FinishedInv, Pushed, PushesStand
<1>6. DepsInv'
  <2>1. DOMAIN planned \subseteq Names
    BY PlanType DEF Typed, WorldOK
  <2> QED
    BY <2>1 DEF BranchesInv, DepsInv
<1>7. SweepInv'
  BY DEF SweepInv, Swept
<1>8. InlineInv'
  BY DEF BranchesInv, InlineInv
<1> QED
  BY <1>4, <1>5, <1>6, <1>7, <1>8 DEF BranchesInv

(* A command goes on from s, or ends. *)
LEMMA CommandMoves ==
    ASSUME Typed, BranchesInv, Up("command"), PushesStand, NEW s, Carries(s, C),
           mem'["loop"] = mem["loop"] /\ ctl'["loop"] = ctl["loop"],
           disk' = disk \/ disk' = s, Up("command")' => C' = s,
           \A t \in Names : Hand(ctl'["command"], t) => ~IsVerifier(t),
           UNCHANGED <<wait, planned>>
    PROVE  BranchesInv'
<1>1. Delivered(s, cloud') /\ Carries(disk, disk)
  BY DeliveredKept, CarriesItself DEF BranchesInv, BranchInv, C, Procs
<1>2. Delivered(disk', cloud')
  BY <1>1, DeliveredKept DEF BranchesInv, BranchInv
<1>3. Up("loop") => Delivered(mem["loop"], cloud')
  BY CarriesItself, DeliveredKept DEF BranchesInv, BranchInv, Procs
<1>4. BranchInv'
  BY <1>1, <1>2, <1>3 DEF BranchInv, Up, Procs, C
<1>5. FinishedInv'
  BY DEF BranchesInv, FinishedInv, Pushed, PushesStand
<1>6. DepsInv' /\ SweepInv' /\ InlineInv'
  BY DEF BranchesInv, DepsInv, SweepInv, Swept, InlineInv, Up, L
<1> QED
  BY <1>4, <1>5, <1>6 DEF BranchesInv

(* One row is written.  The row in hand is the only one that may be cloned. *)
LEMMA LoopWritesBranch ==
    ASSUME Typed, BranchesInv, Up("loop"), PushesStand, NEW t \in Names, NEW r \in Row, NEW c,
           Writes("loop", t, r, c), UNCHANGED planned, L.rows[t].status # "handed-off",
           r.status = "handed-off" => Pushed(cloud', t, r.run, r.branch),
           r.status = "pending" => L.rows[t].status = "pending" /\ r.dependsOn = L.rows[t].dependsOn,
           c.pc \in {"scan", "create", "send", "backoff"} => c.todo \subseteq DOMAIN planned,
           \A v \in Names : Hand(c, v) /\ IsVerifier(v) =>
                LET u == Verifies[v]
                IN  /\ Handed(L, u)
                    /\ c.pc = "create" => \/ RefRefused(L.rows, v)
                                          \/ (IF v = t THEN r ELSE L.rows[v]).startingRef = L.rows[u].branch,
           \A u \in Names : wait'[u].pc = "filed" => wait'[u] = wait[u]
    PROVE  BranchesInv'
<1>1. /\ disk'.rows[t] = r /\ \A u \in Names \ {t} : disk'.rows[u] = L.rows[u]
      /\ c.pc # "off" => mem'["loop"] = disk'
      /\ ctl'["loop"] = c
      /\ mem'["command"] = mem["command"] /\ ctl'["command"] = ctl["command"]
  <2>1. "loop" \in Procs /\ "command" \in Procs \ {"loop"}
    BY DEF Procs
  <2> QED
    BY <2>1, Wrote DEF L
<1>2. Carries(disk', L)
  BY <1>1 DEF Carries, Handed
<1>3. ASSUME NEW v \in Names, Hand(c, v), IsVerifier(v)
      PROVE  LET u == Verifies[v]
             IN  /\ disk'.rows[u].status = "handed-off"
                 /\ c.pc = "create" =>
                      RefRefused(disk'.rows, v) \/ disk'.rows[v].startingRef = disk'.rows[u].branch
  <2>1. Verifies[v] \in Names /\ Verifies[v] # t
    BY <1>3, NamesAssumption DEF Handed
  <2>2. disk'.rows[Verifies[v]] = L.rows[Verifies[v]]
    BY <1>1, <2>1
  <2>3. disk'.rows[v] = IF v = t THEN r ELSE L.rows[v]
    BY <1>1
  <2> QED
    BY <1>3, <2>2, <2>3 DEF Handed, RefRefused, BranchRefused
<1>4. Swept(disk'.rows, c)
  BY <1>3 DEF Swept
<1>5. \A u \in Names : disk'.rows[u].status = "pending" =>
                      L.rows[u].status = "pending" /\ disk'.rows[u].dependsOn = L.rows[u].dependsOn
  BY <1>1
<1>6. Up("loop")' => L' = disk'
  BY <1>1 DEF Up, L
<1> QED
  BY <1>1, <1>2, <1>4, <1>5, <1>6, LoopMoves

LEMMA CommandWritesBranch ==
    ASSUME Typed, BranchesInv, Up("command"), PushesStand, NEW t \in Names, NEW r \in Row, NEW c,
           Writes("command", t, r, c), r.status # "handed-off",
           \A v \in Names : Hand(c, v) => ~IsVerifier(v), UNCHANGED <<wait, planned>>
    PROVE  BranchesInv'
<1>1. /\ disk'.rows[t] = r /\ \A u \in Names \ {t} : disk'.rows[u] = C.rows[u]
      /\ c.pc # "off" => mem'["command"] = disk'
      /\ ctl'["command"] = c
      /\ mem'["loop"] = mem["loop"] /\ ctl'["loop"] = ctl["loop"]
  <2>1. "command" \in Procs /\ "loop" \in Procs \ {"command"}
    BY DEF Procs
  <2> QED
    BY <2>1, Wrote DEF C
<1>2. Carries(disk', C)
  BY <1>1 DEF Carries, Handed
<1>3. Up("command")' => C' = disk'
  BY <1>1 DEF Up, C
<1> QED
  BY <1>1, <1>2, <1>3, CommandMoves

(* What a run pushed stands in every step. *)
LEMMA SettledPushes ==
    ASSUME Settles, \A t \in Names : DOMAIN cloud[t] \subseteq DOMAIN cloud'[t]
    PROVE  PushesStand
  BY DEF Settles, PushesStand

\* No agent is created.
NoneNew == \A t \in Names : DOMAIN cloud'[t] = DOMAIN cloud[t]

LEMMA CalmPushes ==
    ASSUME Settles, NoneNew
    PROVE  PushesStand /\ NoneNew
  BY DEF Settles, PushesStand, NoneNew

LEMMA ReplaceDomain ==
    ASSUME Typed, NEW t \in Names, NEW n, NEW agent, Replace(t, n, agent)
    PROVE  NoneNew
<1>1. cloud' = [cloud EXCEPT ![t] = [cloud[t] EXCEPT ![n] = agent]]
  BY DEF Replace
<1>2. \A u \in Names : cloud'[u] = IF u = t THEN [cloud[t] EXCEPT ![n] = agent] ELSE cloud[u]
  BY <1>1 DEF Typed, CloudOK
<1> QED
  BY <1>2 DEF NoneNew

LEMMA NextPushes ==
    ASSUME Typed, [Next]_vars
    PROVE  PushesStand /\ (NoneNew \/ \E p \in Procs : CreateReturns(p))
<1> DEFINE Calm == PushesStand /\ NoneNew
<1>1. ASSUME UNCHANGED cloud PROVE Calm
  BY <1>1, SameSettles, CalmPushes DEF NoneNew
<1>2. ASSUME NEW t \in Names, NEW n, Replace(t, n, [cloud[t][n] EXCEPT !.lost = TRUE])
      PROVE  Calm
  <2>1. Settles
    BY <1>2, AgentSettles
  <2> QED
    BY <1>2, <2>1, ReplaceDomain, CalmPushes
<1>3. ASSUME NEW p \in Procs, LosePrompt(p) PROVE Calm
  <2>1. CASE ctl[p].pc = "send"
    BY <1>2, <1>3, <2>1 DEF LosePrompt, Typed, CtlOK, AtHand
  <2>2. CASE ctl[p].pc # "send"
    BY <1>1, <1>3, <2>2 DEF LosePrompt
  <2> QED
    BY <2>1, <2>2
<1>4. CASE Boot
  BY <1>1, <1>4 DEF Boot
<1>5. CASE Reconciling
  <2>1. ASSUME NEW t \in Names, RecoverFails(t) PROVE Calm
    BY <1>1, <1>2, <2>1 DEF RecoverFails
  <2>2. CASE UNCHANGED cloud
    BY <1>1, <2>2
  <2> QED
    BY <1>5, <2>1, <2>2 DEF Reconciling, RecoverReturns, Scan, Recovered, PollReturns, PollFails,
       ScanEnds, Decide, Checkpoint, Wake, Settle, world
<1>6. CASE LoopDies
  BY <1>3, <1>6 DEF LoopDies, Procs
<1>7. ASSUME NEW p \in Procs, Spawning(p) PROVE PushesStand /\ (NoneNew \/ CreateReturns(p))
  <2>1. CASE CreateReturns(p)
    <3> DEFINE t == ctl[p].task
               agent == [phase |-> "created", ref |-> mem[p].rows[t].startingRef,
                         branch |-> "none", lost |-> FALSE]
    <3>1. t \in Names /\ mem[p].rows[t] \in Row
      BY <2>1, RowAt DEF CreateReturns, Typed, CtlOK, AtHand
    <3>2. [mem[p].rows[t] EXCEPT !.status = "running", !.run = 0].startingRef = mem[p].rows[t].startingRef
      BY <3>1 DEF Row
    <3>3. cloud' = [cloud EXCEPT ![t] = Append(cloud[t], agent)]
      BY <2>1, <3>2 DEF CreateReturns
    <3>4. agent \in Agent /\ agent.phase = "created"
      BY <3>1 DEF Agent, Row
    <3>5. \A u \in Names : cloud'[u] = IF u = t THEN Append(cloud[t], agent) ELSE cloud[u]
      BY <3>3 DEF Typed, CloudOK
    <3>6. cloud[t] \in Seq(Agent)
      BY <3>1 DEF Typed, CloudOK
    <3> HIDE DEF agent, t
    <3>7. DOMAIN cloud[t] \subseteq DOMAIN Append(cloud[t], agent)
      BY <3>4, <3>6
    <3>8. Settles
      BY <3>1, <3>3, <3>4, AppendSettles
    <3> QED
      BY <2>1, <3>5, <3>7, <3>8, SettledPushes
  <2>2. CASE SendFails(p)
    BY <1>2, <2>2 DEF SendFails, Typed, CtlOK, AtHand
  <2>3. CASE CreateFails(p) \/ BackoffEnds(p) \/ SendReturns(p)
    BY <1>1, <2>3 DEF CreateFails, BackoffEnds, SendReturns, world
  <2> QED
    BY <1>7, <2>1, <2>2, <2>3 DEF Spawning
<1>8. ASSUME NEW p \in Procs, RunStarts(p) PROVE Calm
  <2> DEFINE t == ctl[p].task
             n == ctl[p].agent
             agent == [cloud[t][n] EXCEPT !.phase = "live"]
  <2>1. /\ t \in Names /\ cloud[t][n].phase = "created"
        /\ cloud' = [cloud EXCEPT ![t] = [cloud[t] EXCEPT ![n] = agent]]
    BY <1>8 DEF RunStarts, Replace, Typed, CtlOK, AtHand
  <2>2. \A u \in Names : cloud'[u] = IF u = t THEN [cloud[t] EXCEPT ![n] = agent] ELSE cloud[u]
    BY <2>1 DEF Typed, CloudOK
  <2> HIDE DEF agent, t, n
  <2>3. \A m \in DOMAIN cloud[t] : cloud[t][m].phase \in Ends => m # n
    BY <2>1 DEF Ends
  <2> QED
    BY <2>2, <2>3 DEF PushesStand, NoneNew
<1>9. ASSUME NEW t \in Names, Waiting(t) PROVE Calm
  <2>1. CASE ProbeFails(t) \/ WaitThrows(t)
    BY <1>2, <2>1 DEF ProbeFails, WaitThrows
  <2>2. CASE UNCHANGED cloud
    BY <1>1, <2>2
  <2> QED
    BY <1>9, <2>1, <2>2 DEF Waiting, WaitReturns, WaitReturnsError, ProbeSaysRunning, ProbeSaysEnded,
       CommitHandoff, FinishWait, world
<1>10. ASSUME NEW t \in Names, NEW n \in DOMAIN cloud[t], NEW end \in {"finished", "error"},
             NEW branch \in Pushes[t], RunEnds(t, n, end, branch)
      PROVE  Calm
  <2>1. end \in Ends /\ branch \in Branches \cup {"none"}
    BY NamesAssumption DEF Ends, Branches
  <2>2. cloud[t][n].phase = "live" /\ Replace(t, n, [cloud[t][n] EXCEPT !.phase = end, !.branch = branch])
    BY <1>10 DEF RunEnds
  <2>3. Settles
    BY <2>1, <2>2, AgentSettles
  <2> QED
    BY <2>2, <2>3, ReplaceDomain, CalmPushes
<1>11. CASE Operating
  <2>1. CASE CommandDies
    BY <1>3, <2>1 DEF CommandDies, Procs
  <2>2. CASE CancelReturns \/ CancelFails
    <3> DEFINE t == ctl["command"].task
               n == C.rows[t].run
               kill == ctl["command"].cmd # "cancel"
    <3>1. t \in Names
      BY <2>2 DEF CancelReturns, CancelFails, CommandAt, Typed, CtlOK, AtHand, Procs
    <3> HIDE DEF t, n
    <3>2. CASE CancelReturns
      <4>1. \/ cloud[t][n].phase = "live" /\ Replace(t, n, [cloud[t][n] EXCEPT !.phase = "cancelled"])
            \/ UNCHANGED cloud
        BY <3>2 DEF CancelReturns, t, n
      <4>2. CASE UNCHANGED cloud
        BY <1>1, <4>2
      <4>3. CASE cloud[t][n].phase = "live" /\ Replace(t, n, [cloud[t][n] EXCEPT !.phase = "cancelled"])
        <5>1. Settles
          BY <3>1, <4>3, AgentSettles
        <5> QED
          BY <3>1, <4>3, <5>1, ReplaceDomain, CalmPushes
      <4> QED
        BY <4>1, <4>2, <4>3
    <3>3. CASE CancelFails
      <4>1. PICK landed \in BOOLEAN :
              Replace(t, n, [cloud[t][n] EXCEPT
                !.phase = IF landed /\ @ = "live" THEN "cancelled" ELSE @,
                !.lost = @ \/ kill])
        BY <3>3 DEF CancelFails, t, n
      <4>2. kill \in BOOLEAN
        OBVIOUS
      <4>3. Settles
        BY <3>1, <4>1, <4>2, AgentSettles
      <4> QED
        BY <3>1, <4>1, <4>3, ReplaceDomain, CalmPushes
    <3> QED
      BY <2>2, <3>2, <3>3
  <2>3. CASE UNCHANGED cloud
    BY <1>1, <2>3
  <2> QED
    BY <1>11, <2>1, <2>2, <2>3 DEF Operating, SpawnCommand, CancelCommand, StopTask, RespawnCommand,
       KillCommand, StopEnds, StartCommand, world
<1>12. CASE (\E p \in Plans : EditPlan(p)) \/ PullCord \/ ReleaseCord \/ UNCHANGED vars
  BY <1>1, <1>12 DEF EditPlan, PullCord, ReleaseCord, vars, world
<1> QED
  BY <1>4, <1>5, <1>6, <1>7, <1>8, <1>9, <1>10, <1>11, <1>12 DEF Next

(* A sweep goes on as long as the row in hand and the handoffs stay. *)
LEMMA SweptKept ==
    ASSUME Typed, BranchesInv, Up("loop"), NEW s,
           \A u \in Names : Handed(L, u) => Handed(s, u) /\ s.rows[u].branch = L.rows[u].branch,
           \A v \in Names : Hand(ctl["loop"], v) =>
                \/ s.rows[v].startingRef = L.rows[v].startingRef
                \/ IsVerifier(v) /\ s.rows[v].startingRef = L.rows[Verifies[v]].branch
    PROVE  Swept(s.rows, ctl["loop"])
<1>1. Swept(L.rows, ctl["loop"])
  BY DEF BranchesInv, SweepInv
<1>2. ASSUME NEW v \in Names, Hand(ctl["loop"], v), IsVerifier(v)
      PROVE  LET u == Verifies[v]
             IN  /\ s.rows[u].status = "handed-off"
                 /\ ctl["loop"].pc = "create" =>
                        RefRefused(s.rows, v) \/ s.rows[v].startingRef = s.rows[u].branch
  <2>1. Verifies[v] \in Names
    BY NamesAssumption
  <2>2. Handed(L, Verifies[v])
    BY <1>1, <1>2, <2>1 DEF Swept, Handed
  <2>3. Handed(s, Verifies[v]) /\ s.rows[Verifies[v]].branch = L.rows[Verifies[v]].branch
    BY <2>1, <2>2
  <2>4. RefRefused(s.rows, v) <=> RefRefused(L.rows, v)
    BY <2>3 DEF RefRefused, BranchRefused
  <2> QED
    BY <1>1, <1>2, <2>1, <2>3, <2>4 DEF Swept, Handed
<1> QED
  BY <1>1, <1>2 DEF Swept

(* Verifiers learn the branch of their target, and nothing else changes. *)
LEMMA VerifierRefs ==
    ASSUME NEW rows \in [Names -> Row], NEW p, NEW S
    PROVE  \A t \in Names :
             LET r == ReconcileVerifierRefs(rows, p, S)[t]
             IN  /\ r.status = rows[t].status /\ r.run = rows[t].run
                 /\ r.branch = rows[t].branch /\ r.dependsOn = rows[t].dependsOn
                 /\ \/ r.startingRef = rows[t].startingRef
                    \/ IsVerifier(t) /\ r.startingRef = rows[Verifies[t]].branch
<1> DEFINE R == ReconcileVerifierRefs(rows, p, S)
<1>1. ASSUME NEW t \in Names
      PROVE  /\ R[t].status = rows[t].status /\ R[t].run = rows[t].run
             /\ R[t].branch = rows[t].branch /\ R[t].dependsOn = rows[t].dependsOn
             /\ \/ R[t].startingRef = rows[t].startingRef
                \/ IsVerifier(t) /\ R[t].startingRef = rows[Verifies[t]].branch
  <2> DEFINE r == [rows[t] EXCEPT !.startingRef = "other"]
  <2>1. /\ r.status = rows[t].status /\ r.run = rows[t].run
        /\ r.branch = rows[t].branch /\ r.dependsOn = rows[t].dependsOn
        /\ r.startingRef = "other"
    BY DEF Row
  <2>2. R[t] = rows[t] \/ (R[t] = r /\ IsVerifier(t) /\ rows[Verifies[t]].branch = "other")
    BY DEF ReconcileVerifierRefs
  <2> HIDE DEF R, r
  <2> QED
    BY <2>1, <2>2
<1> QED
  BY <1>1

(* Waiting. *)
LEMMA HandoffBranches ==
    ASSUME Typed, WatchingNow, BranchesInv, PushesStand, NEW t \in Names, NEW end,
           wait[t].pc \in Watch, WriteHandoff(t, end), disk' \in {disk, L},
           UNCHANGED <<ctl, planned>>,
           end = "finished" => UNCHANGED cloud /\ cloud[t][wait[t].run].phase \in Ends
    PROVE  BranchesInv'
<1> DEFINE n == wait[t].run
           branch == ResolveRunBranch(t, n)
           row == [L.rows[t] EXCEPT !.branch = branch]
           s == [L EXCEPT !.rows[t] = row]
           w == [pc |-> "filed", run |-> n, end |-> end, branch |-> branch]
<1>1. mem' = [mem EXCEPT !["loop"] = s] /\ wait' = [wait EXCEPT ![t] = w]
  BY DEF WriteHandoff, L
<1>2. end = "finished" => Pushed(cloud', t, n, branch)
  <2>1. n \in DOMAIN cloud[t]
    BY DEF Typed, WaitOK, Watch
  <2> QED
    BY <2>1 DEF Pushed, ResolveRunBranch
<1>3. w.pc = "filed" /\ w.run = n /\ w.end = end /\ w.branch = branch
  OBVIOUS
<1> HIDE DEF branch
<1>4. /\ row.status = L.rows[t].status /\ row.run = L.rows[t].run /\ L \in State
      /\ row.dependsOn = L.rows[t].dependsOn
      /\ L.rows[t].status = "running" /\ ~Hand(ctl["loop"], t) /\ Up("loop")
  BY Awaited, AwaitedRuns DEF Row, Watch
<1> HIDE DEF row
<1>5. s.rows[t] = row /\ \A u \in Names \ {t} : s.rows[u] = L.rows[u]
  BY <1>4 DEF State
<1> HIDE DEF s, w, n
<1>6. /\ wait'[t] = w /\ \A u \in Names \ {t} : wait'[u] = wait[u]
      /\ L' = s /\ mem'["command"] = mem["command"] /\ ctl'["command"] = ctl["command"]
  BY <1>1 DEF Typed, WaitOK, StatesOK, L, Procs
<1>7. Carries(s, L)
  BY <1>4, <1>5 DEF Carries, Handed
<1>8. /\ \A u \in Names : Handed(L, u) => Handed(s, u) /\ s.rows[u].branch = L.rows[u].branch
      /\ \A v \in Names : Hand(ctl["loop"], v) => s.rows[v].startingRef = L.rows[v].startingRef
  BY <1>4, <1>5 DEF Handed
<1>9. Swept(s.rows, ctl'["loop"])
  BY <1>4, <1>8, SweptKept
<1>10. \A u \in Names : s.rows[u].status = "pending" =>
                      L.rows[u].status = "pending" /\ s.rows[u].dependsOn = L.rows[u].dependsOn
  BY <1>4, <1>5
<1>11. \A u \in Names : wait'[u].pc = "filed" =>
                wait'[u] = wait[u] \/ Pushed(cloud', u, wait'[u].run, wait'[u].branch)
                \/ wait'[u].end # "finished"
  BY <1>2, <1>3, <1>6
<1> QED
  BY <1>4, <1>6, <1>7, <1>9, <1>10, <1>11, LoopMoves

LEMMA WaitingBranches ==
    ASSUME Typed, WatchingNow, FileInv, BranchesInv, PushesStand, NEW t \in Names, Waiting(t)
    PROVE  BranchesInv'
<1>1. Up("loop") /\ ctl' = ctl /\ UNCHANGED planned
  BY WaitingKeeps DEF Keeps, Up, Waiting, WaitReturns, WaitReturnsError, WaitThrows, ProbeSaysRunning,
     ProbeSaysEnded, ProbeFails, CommitHandoff, FinishWait
<1>2. wait[t].pc \in Watch => /\ L.rows[t].status = "running" /\ L.rows[t].run = wait[t].run
                              /\ ~Hand(ctl["loop"], t)
  BY AwaitedRuns DEF FileInv, WaitInv
<1>3. Swept(L.rows, ctl["loop"])
  BY <1>1 DEF BranchesInv, SweepInv
<1>4. CASE WaitReturns(t)
  BY <1>1, <1>4, HandoffBranches DEF WaitReturns, AtWait, Watch, world, Ends
<1>5. CASE ProbeSaysEnded(t)
  BY <1>1, <1>5, HandoffBranches DEF ProbeSaysEnded, AtWait, Watch, world
<1>6. CASE ProbeFails(t)
  BY <1>1, <1>6, HandoffBranches DEF ProbeFails, AtWait, Watch
<1>7. CASE WaitReturnsError(t) \/ ProbeSaysRunning(t)
  <2>1. \E pc \in {"wait", "probe"} : wait' = [wait EXCEPT ![t] = [wait[t] EXCEPT !.pc = pc]]
    BY <1>7 DEF WaitReturnsError, ProbeSaysRunning
  <2>2. \A u \in Names : wait'[u].pc = "filed" => wait'[u] = wait[u]
    BY <2>1 DEF Typed, WaitOK, Waiter
  <2>3. L' = L /\ mem'["command"] = mem["command"] /\ disk' \in {disk, L}
    BY <1>7 DEF WaitReturnsError, ProbeSaysRunning, LogAttention, Save, L, files, Typed, StatesOK, Procs
  <2> QED
    BY <1>1, <1>3, <2>2, <2>3, CarriesItself, LoopMoves
<1>8. ASSUME NEW row \in Row, Touch("loop", t, row), row.status # "pending", wait[t].pc \in Watch,
             row.status = "handed-off" => Pushed(cloud', t, row.run, row.branch),
             NEW w, wait' = [wait EXCEPT ![t] = w], w.pc = "after"
      PROVE  BranchesInv'
  <2>1. Writes("loop", t, row, ctl["loop"])
    BY <1>1, <1>8 DEF Writes, Touch, Save, Up, Typed, CtlOK
  <2>2. \A u \in Names : wait'[u].pc = "filed" => wait'[u] = wait[u]
    BY <1>8 DEF Typed, WaitOK
  <2>3. /\ ctl["loop"].pc \in {"scan", "create", "send", "backoff"} => ctl["loop"].todo \subseteq DOMAIN planned
        /\ \A v \in Names : Hand(ctl["loop"], v) /\ IsVerifier(v) =>
                LET u == Verifies[v]
                IN  /\ Handed(L, u)
                    /\ ctl["loop"].pc = "create" =>
                          RefRefused(L.rows, v) \/ L.rows[v].startingRef = L.rows[u].branch
    BY <1>3 DEF Swept, Handed
  <2>4. ~Hand(ctl["loop"], t) /\ L.rows[t].status # "handed-off"
    BY <1>2, <1>8
  <2> HIDE DEF L
  <2> QED
    BY <1>1, <1>8, <2>1, <2>2, <2>3, <2>4, LoopWritesBranch
<1>9. CASE WaitThrows(t)
  <2> DEFINE row == [L.rows[t] EXCEPT !.status = "error"]
             w == [wait[t] EXCEPT !.pc = "after", !.end = "error"]
  <2>1. Touch("loop", t, row) /\ wait' = [wait EXCEPT ![t] = w] /\ wait[t].pc \in Watch
    BY <1>9 DEF WaitThrows, Watch
  <2>2. row \in Row /\ row.status = "error"
    BY Awaited DEF Row, Statuses
  <2>3. w.pc = "after"
    BY Awaited DEF Waiter
  <2> HIDE DEF row, w
  <2> QED
    BY <1>8, <2>1, <2>2, <2>3
<1>10. CASE CommitHandoff(t)
  <2> DEFINE status == IF wait[t].end = "finished" THEN "handed-off" ELSE "error"
             row == [L.rows[t] EXCEPT !.status = status, !.branch = wait[t].branch, !.path = TRUE]
             w == [wait[t] EXCEPT !.pc = "after"]
  <2>1. /\ Touch("loop", t, row) /\ wait' = [wait EXCEPT ![t] = w] /\ wait[t].pc = "filed"
    BY <1>10 DEF CommitHandoff
  <2>2. row \in Row /\ row.run = L.rows[t].run /\ row.branch = wait[t].branch /\ row.status = status
    <3>1. wait[t].branch \in Branches
      BY Awaited DEF Waiter
    <3>2. status \in Statuses
      BY DEF Statuses
    <3> HIDE DEF status
    <3>3. L.rows[t] \in Row
      BY Awaited
    <3>4. row \in Row
      BY <3>1, <3>2, <3>3, SettledRow
    <3>5. row.run = L.rows[t].run /\ row.branch = wait[t].branch /\ row.status = status
      BY <3>3 DEF Row
    <3> QED
      BY <3>4, <3>5
  <2>3. w.pc = "after"
    BY Awaited DEF Waiter
  <2>4. status = "handed-off" => Pushed(cloud', t, wait[t].run, wait[t].branch)
    BY <2>1 DEF BranchesInv, FinishedInv, Pushed, PushesStand
  <2>5. status # "pending" /\ wait[t].pc \in Watch
    BY <2>1 DEF Watch
  <2> HIDE DEF row, w, status
  <2> QED
    BY <1>2, <1>8, <2>1, <2>2, <2>3, <2>4, <2>5
<1>11. CASE FinishWait(t)
  <2> DEFINE refs == ReconcileVerifierRefs(L.rows, planned, {t})
             rows == IF wait[t].end = "finished" THEN refs ELSE L.rows
             s == [L EXCEPT !.rows = rows]
  <2>1. Save("loop", s) \/ (rows = L.rows /\ UNCHANGED <<mem, disk>>)
    BY <1>11 DEF FinishWait, Measured
  <2>2. L \in State /\ L.rows \in [Names -> Row]
    BY Awaited DEF State
  <2>3. rows \in [Names -> Row]
    BY <2>2, VerifierRefsType
  <2>4. \A u \in Names :
             /\ rows[u].status = L.rows[u].status /\ rows[u].run = L.rows[u].run
             /\ rows[u].branch = L.rows[u].branch /\ rows[u].dependsOn = L.rows[u].dependsOn
             /\ \/ rows[u].startingRef = L.rows[u].startingRef
                \/ IsVerifier(u) /\ rows[u].startingRef = L.rows[Verifies[u]].branch
    BY <2>2, VerifierRefs
  <2> HIDE DEF rows
  <2>5. s.rows = rows /\ (rows = L.rows => s = L)
    BY <2>2, <2>3, RowsChanged DEF State
  <2> HIDE DEF s
  <2>6. L' = s /\ mem'["command"] = mem["command"] /\ disk' \in {disk, s}
    BY <2>1, <2>5 DEF Save, L, Typed, StatesOK, Procs
  <2>7. \A u \in Names : wait'[u].pc = "filed" => wait'[u] = wait[u]
    BY <1>11 DEF FinishWait, NoWaiter, Typed, WaitOK
  <2>8. Swept(s.rows, ctl["loop"])
    BY <1>1, <2>4, <2>5, SweptKept DEF Handed
  <2>9. Carries(s, L)
    BY <2>4, <2>5 DEF Carries, Handed
  <2> QED
    BY <1>1, <2>4, <2>5, <2>6, <2>7, <2>8, <2>9, LoopMoves
<1> QED
  BY <1>4, <1>5, <1>6, <1>7, <1>9, <1>10, <1>11 DEF Waiting

(* Spawning.  The branch to clone is set when the agent is asked for. *)
LEMMA SpawnBranches ==
    ASSUME Typed, WatchingNow, FileInv, BranchesInv, PushesStand, NEW p \in Procs,
           ctl[p].pc \in {"create", "send", "backoff"},
           NEW r \in Row, r.status # "handed-off",
           r.status = "pending" => mem[p].rows[ctl[p].task].status = "pending",
           r.dependsOn = mem[p].rows[ctl[p].task].dependsOn,
           NEW c, Writes(p, ctl[p].task, r, c), c.todo = ctl[p].todo \/ c.pc = "off",
           c.pc \in {"create", "send", "backoff"} => c.task = ctl[p].task,
           c.pc = "create" /\ p = "loop" /\ IsVerifier(ctl[p].task) =>
                \/ RefRefused(L.rows, ctl[p].task)
                \/ r.startingRef = L.rows[Verifies[ctl[p].task]].branch,
           UNCHANGED planned,
           p = "command" => UNCHANGED wait,
           \A u \in Names : wait'[u].pc = "filed" => wait'[u] = wait[u]
    PROVE  BranchesInv'
<1> DEFINE t == ctl[p].task
<1>1. /\ t \in Names /\ Up(p) /\ mem[p].rows[t].status \in {"pending", "running"}
      /\ Hand(ctl[p], t)
  BY InHandNow DEF Hand
<1>2. \A v \in Names : Hand(c, v) => v = t
  BY DEF Hand
<1>3. CASE p = "loop"
  <2>1. Swept(L.rows, ctl["loop"])
    BY <1>1, <1>3 DEF BranchesInv, SweepInv
  <2>2. c.pc \in {"scan", "create", "send", "backoff"} => c.todo \subseteq DOMAIN planned
    BY <1>3, <2>1 DEF Swept
  <2>3. \A v \in Names : Hand(c, v) /\ IsVerifier(v) =>
                LET u == Verifies[v]
                IN  /\ Handed(L, u)
                    /\ c.pc = "create" => \/ RefRefused(L.rows, v)
                                          \/ (IF v = t THEN r ELSE L.rows[v]).startingRef = L.rows[u].branch
    BY <1>1, <1>2, <1>3, <2>1 DEF Swept, Handed
  <2>4. /\ Writes("loop", t, r, c) /\ L.rows[t].status # "handed-off" /\ Up("loop")
        /\ r.status = "pending" => L.rows[t].status = "pending" /\ r.dependsOn = L.rows[t].dependsOn
    BY <1>1, <1>3 DEF L
  <2> HIDE DEF t
  <2> QED
    BY <1>1, <2>2, <2>3, <2>4, LoopWritesBranch
<1>4. CASE p = "command"
  <2>1. ~IsVerifier(t)
    BY <1>1, <1>4 DEF BranchesInv, InlineInv
  <2> QED
    BY <1>1, <1>2, <1>4, <2>1, CommandWritesBranch
<1> QED
  BY <1>3, <1>4 DEF Procs

LEMMA FailedTryBranches ==
    ASSUME Typed, WatchingNow, FileInv, BranchesInv, PushesStand, NEW p \in Procs,
           ctl[p].pc \in {"create", "send"},
           NEW row \in Row, row.status # "handed-off",
           row.status = "pending" => mem[p].rows[ctl[p].task].status = "pending",
           row.dependsOn = mem[p].rows[ctl[p].task].dependsOn, AttemptFails(p, row),
           UNCHANGED <<wait, planned>>
    PROVE  BranchesInv'
<1> DEFINE t == ctl[p].task
           error == [row EXCEPT !.status = "error"]
           back == [ctl[p] EXCEPT !.pc = "backoff", !.agent = 0]
           scan == [ctl[p] EXCEPT !.pc = "scan", !.task = NoTask, !.try = 0, !.agent = 0]
<1>1. ctl[p] \in Control
  BY InHandNow
<1>2. error \in Row /\ error.status = "error" /\ error.dependsOn = row.dependsOn
  BY DEF Row, Statuses
<1>3. /\ back.pc = "backoff" /\ back.task = t /\ back.todo = ctl[p].todo
      /\ scan.pc = "scan" /\ scan.todo = ctl[p].todo /\ Idle.pc = "off"
  BY <1>1 DEF Control, Idle
<1>4. p # "loop" => p = "command"
  BY DEF Procs
<1> HIDE DEF error
<1>5. \/ Touch(p, t, row) /\ Goto(p, back)
      \/ /\ disk' = [mem[p] EXCEPT !.rows[t] = error]
         /\ IF p = "loop" THEN mem' = [mem EXCEPT ![p] = disk'] /\ Goto(p, scan)
                          ELSE EndCommand
  BY DEF AttemptFails, error
<1> HIDE DEF back, scan
<1>6. \/ Writes(p, t, row, back)
      \/ Writes(p, t, error, scan)
      \/ Writes(p, t, error, Idle)
  BY <1>3, <1>4, <1>5 DEF Writes, Touch, Save, Goto, EndCommand
<1>7. CASE Writes(p, t, row, back)
  BY <1>3, <1>7, SpawnBranches
<1>8. CASE Writes(p, t, error, scan)
  BY <1>2, <1>3, <1>8, SpawnBranches
<1>9. CASE Writes(p, t, error, Idle)
  BY <1>2, <1>3, <1>9, SpawnBranches
<1> QED
  BY <1>6, <1>7, <1>8, <1>9

(* Attempt writes the branch of the target into a verifier's row, unless    *)
(* that branch is refused.                                                  *)
LEMMA AttemptBranches ==
    ASSUME Typed, NEW p \in Procs, NEW t \in Names, NEW row \in Row, NEW c \in Control,
           Attempt(p, t, row, c), Verifies[t] # t \/ ~IsVerifier(t)
    PROVE  \E d : \E r \in Row :
             /\ Writes(p, t, r, d) /\ r.status = row.status /\ r.dependsOn = row.dependsOn
             /\ d.pc = "create" /\ d.task = t /\ d.todo = c.todo
             /\ IsVerifier(t) => \/ RefRefused(mem[p].rows, t)
                                 \/ r.startingRef = mem[p].rows[Verifies[t]].branch
<1> DEFINE rows == [mem[p].rows EXCEPT ![t] = row]
           sent == [row EXCEPT !.startingRef = StartingRefForTask(rows, t)]
           create == [c EXCEPT !.pc = "create", !.task = t, !.try = c.try + 1]
<1>1. /\ Touch(p, t, IF RefRefused(rows, t) THEN row ELSE sent)
      /\ Goto(p, create)
  BY DEF Attempt
<1>2. create.pc = "create" /\ create.task = t /\ create.todo = c.todo
  BY DEF Control
<1>3. rows \in [Names -> Row] /\ Verifies[t] \in Names
  BY NamesAssumption DEF Typed, StatesOK, State
<1>4. IsVerifier(t) => rows[Verifies[t]] = mem[p].rows[Verifies[t]]
  BY <1>3 DEF Typed, StatesOK, State
<1> HIDE DEF rows
<1>5. StartingRefForTask(rows, t) \in {"base"} \cup Branches
  <2>1. rows[Verifies[t]] \in Row /\ rows[t] \in Row
    BY <1>3
  <2> QED
    BY <2>1 DEF StartingRefForTask, Row
<1>6. /\ sent \in Row /\ sent.status = row.status /\ sent.dependsOn = row.dependsOn
      /\ IsVerifier(t) => sent.startingRef = mem[p].rows[Verifies[t]].branch
  <2>1. sent.startingRef = StartingRefForTask(rows, t)
    BY DEF Row
  <2>2. sent \in Row /\ sent.status = row.status /\ sent.dependsOn = row.dependsOn
    BY <1>5 DEF Row
  <2> QED
    BY <1>4, <2>1, <2>2 DEF StartingRefForTask
<1> HIDE DEF sent, create
<1>7. RefRefused(rows, t) => IsVerifier(t) /\ RefRefused(mem[p].rows, t)
  BY <1>4 DEF RefRefused, BranchRefused
<1>8. CASE RefRefused(rows, t)
  <2>1. Writes(p, t, row, create)
    BY <1>1, <1>2, <1>8 DEF Writes, Touch, Save, Goto
  <2> QED
    BY <1>2, <1>7, <1>8, <2>1
<1>9. CASE ~RefRefused(rows, t)
  <2>1. Writes(p, t, sent, create)
    BY <1>1, <1>2, <1>9 DEF Writes, Touch, Save, Goto
  <2> QED
    BY <1>2, <1>6, <2>1
<1> QED
  BY <1>8, <1>9

LEMMA SpawningBranches ==
    ASSUME Typed, WatchingNow, FileInv, BranchesInv, PushesStand, NEW p \in Procs, Spawning(p)
    PROVE  BranchesInv'
<1> DEFINE t == ctl[p].task
           n == ctl[p].agent
<1>1. ctl[p].pc \in {"create", "send", "backoff"} /\ UNCHANGED planned
      /\ (~(SendReturns(p)) => UNCHANGED wait)
  BY DEF Spawning, CreateFails, CreateReturns, BackoffEnds, SendFails, SendReturns
<1>2. /\ t \in Names /\ mem[p].rows[t] \in Row /\ ctl[p] \in Control
      /\ mem[p].rows[t].status \in {"pending", "running"}
      /\ ctl[p].pc = "send" => mem[p].rows[t].status = "running"
      /\ p = "loop" => wait[t].pc \notin Watch
      /\ Up(p)
  BY <1>1, InHandNow
<1>3. CASE CreateFails(p) \/ SendFails(p)
  BY <1>1, <1>2, <1>3, FailedTryBranches DEF CreateFails, SendFails
<1>4. CASE CreateReturns(p)
  <2> DEFINE row == [mem[p].rows[t] EXCEPT !.status = "running", !.run = 0]
             send == [ctl[p] EXCEPT !.pc = "send", !.agent = Len(cloud[t]) + 1]
  <2>1. row \in Row /\ row.status = "running" /\ row.dependsOn = mem[p].rows[t].dependsOn
    BY <1>2 DEF Row, Statuses
  <2>2. send.pc = "send" /\ send.task = t /\ send.todo = ctl[p].todo
    BY <1>2 DEF Control
  <2>3. /\ UNCHANGED wait /\ ctl[p].pc = "create"
        /\ \/ AttemptFails(p, row)
           \/ Touch(p, t, row) /\ Goto(p, send)
    BY <1>4 DEF CreateReturns
  <2> HIDE DEF row, send
  <2>4. CASE AttemptFails(p, row)
    BY <1>1, <2>1, <2>3, <2>4, FailedTryBranches
  <2>5. CASE Touch(p, t, row) /\ Goto(p, send)
    <3>1. Writes(p, t, row, send)
      BY <2>2, <2>5 DEF Writes, Touch, Save, Goto
    <3> QED
      BY <1>1, <2>1, <2>2, <2>3, <3>1, SpawnBranches
  <2> QED
    BY <2>3, <2>4, <2>5
<1>5. CASE BackoffEnds(p)
  <2>1. Attempt(p, t, mem[p].rows[t], ctl[p]) /\ UNCHANGED wait /\ ctl[p].pc = "backoff"
    BY <1>5 DEF BackoffEnds
  <2>2. Verifies[t] # t \/ ~IsVerifier(t)
    <3>1. CASE p = "loop"
      <4>1. Swept(L.rows, ctl["loop"]) /\ Hand(ctl["loop"], t)
        BY <1>1, <1>2, <3>1 DEF BranchesInv, SweepInv, Hand
      <4> QED
        BY <1>2, <3>1, <4>1 DEF Swept, L
    <3>2. CASE p = "command"
      BY <1>1, <1>2, <3>2 DEF BranchesInv, InlineInv, Hand
    <3> QED
      BY <3>1, <3>2 DEF Procs
  <2>3. \E d : \E r \in Row :
             /\ Writes(p, t, r, d) /\ r.status = mem[p].rows[t].status
             /\ r.dependsOn = mem[p].rows[t].dependsOn
             /\ d.pc = "create" /\ d.task = t /\ d.todo = ctl[p].todo
             /\ IsVerifier(t) => \/ RefRefused(mem[p].rows, t)
                                 \/ r.startingRef = mem[p].rows[Verifies[t]].branch
    BY <1>2, <2>1, <2>2, AttemptBranches
  <2>4. PICK d : \E r \in Row :
             /\ Writes(p, t, r, d) /\ r.status = mem[p].rows[t].status
             /\ r.dependsOn = mem[p].rows[t].dependsOn
             /\ d.pc = "create" /\ d.task = t /\ d.todo = ctl[p].todo
             /\ IsVerifier(t) => \/ RefRefused(mem[p].rows, t)
                                 \/ r.startingRef = mem[p].rows[Verifies[t]].branch
    BY <2>3
  <2> QED
    BY <1>1, <1>2, <2>1, <2>4, SpawnBranches DEF L
<1>6. CASE SendReturns(p)
  <2> DEFINE row == [mem[p].rows[t] EXCEPT !.run = n]
             scan == [ctl[p] EXCEPT !.pc = "scan", !.task = NoTask, !.try = 0, !.agent = 0]
             w == [NoWaiter EXCEPT !.pc = "wait", !.run = n]
  <2>1. row \in Row /\ row.status = "running" /\ row.dependsOn = mem[p].rows[t].dependsOn
    BY <1>2, <1>6 DEF Row, Control, SendReturns
  <2>2. scan.pc = "scan" /\ scan.todo = ctl[p].todo /\ Idle.pc = "off" /\ w.pc = "wait"
    BY <1>2 DEF Control, Idle, NoWaiter
  <2>3. /\ disk' = [mem[p] EXCEPT !.rows[t] = row]
        /\ IF p = "loop"
           THEN /\ mem' = [mem EXCEPT ![p] = disk'] /\ Goto(p, scan) /\ wait' = [wait EXCEPT ![t] = w]
           ELSE EndCommand /\ UNCHANGED wait
    BY <1>6 DEF SendReturns
  <2> HIDE DEF row, scan, w
  <2>4. (\A u \in Names : wait'[u].pc = "filed" => wait'[u] = wait[u]) /\ (p = "command" => UNCHANGED wait)
    BY <1>2, <2>2, <2>3 DEF Typed, WaitOK
  <2>5. Writes(p, t, row, scan) \/ Writes(p, t, row, Idle)
    BY <2>2, <2>3 DEF Writes, Goto, EndCommand, Procs
  <2>6. CASE Writes(p, t, row, scan)
    BY <1>1, <2>1, <2>2, <2>4, <2>6, SpawnBranches
  <2>7. CASE Writes(p, t, row, Idle)
    BY <1>1, <2>1, <2>2, <2>4, <2>7, SpawnBranches
  <2> QED
    BY <2>5, <2>6, <2>7
<1> QED
  BY <1>3, <1>4, <1>5, <1>6 DEF Spawning

(* Reconciling.  The loop goes on with the rows it has, or ends. *)
LEMMA LoopRests ==
    ASSUME Typed, BranchesInv, Up("loop"), PushesStand, NEW c, Goto("loop", c),
           NEW s, s.rows = L.rows, disk' \in {disk, L, s},
           \/ mem' = [mem EXCEPT !["loop"] = s]
           \/ UNCHANGED mem /\ s = L
           \/ c.pc = "off" /\ mem' = [mem EXCEPT !["loop"] = Empty],
           c.pc # "off" => UNCHANGED planned,
           c.pc \notin {"create", "send", "backoff"},
           c.pc = "scan" => c.todo \subseteq DOMAIN planned,
           \A t \in Names : wait'[t].pc = "filed" => wait'[t] = wait[t]
    PROVE  BranchesInv'
<1>1. /\ ctl'["loop"] = c /\ mem'["command"] = mem["command"] /\ ctl'["command"] = ctl["command"]
      /\ c.pc # "off" => L' = s
  BY DEF Goto, Typed, CtlOK, StatesOK, Procs, L
<1>2. Carries(s, L)
  BY DEF Carries, Handed
<1>3. Swept(s.rows, c)
  BY DEF Swept, Hand
<1> QED
  BY <1>1, <1>2, <1>3, LoopMoves DEF Up

LEMMA RecoveringBranches ==
    ASSUME Typed, WatchingNow, BranchesInv, PushesStand, NEW t \in Names,
           RecoverFails(t) \/ RecoverReturns(t)
    PROVE  BranchesInv'
<1> DEFINE less == [ctl["loop"] EXCEPT !.todo = ctl["loop"].todo \ {t}]
           row == [L.rows[t] EXCEPT !.status = "error"]
           w == [NoWaiter EXCEPT !.pc = "wait", !.run = L.rows[t].run]
<1>1. ctl["loop"].pc = "recover" /\ t \in ctl["loop"].todo
  <2>1. ctl["loop"].pc = "recover" /\ ctl["loop"].todo # {} /\ t = First(ctl["loop"].todo)
    BY DEF RecoverFails, RecoverReturns, Recovering, LoopAt
  <2>2. ctl["loop"].todo \in SUBSET Names
    BY LoopControl
  <2> QED
    BY <2>1, <2>2, FirstIn
<1>2. L.rows[t].status = "running" /\ Up("loop")
  BY <1>1 DEF WatchingNow, Watching, Up
<1>3. less.pc = "recover"
  BY <1>1, LoopControl DEF Control
<1> HIDE DEF less
<1>4. CASE RecoverFails(t)
  <2>1. Touch("loop", t, row) /\ Goto("loop", less) /\ UNCHANGED <<wait, planned>>
    BY <1>4 DEF RecoverFails, less
  <2>2. row \in Row /\ row.status = "error"
    BY Awaited DEF Row, Statuses
  <2> HIDE DEF row
  <2>3. Writes("loop", t, row, less)
    BY <1>3, <2>1 DEF Writes, Touch, Save, Goto
  <2>4. \A v \in Names : ~Hand(less, v)
    BY <1>3 DEF Hand
  <2> QED
    BY <1>2, <1>3, <2>1, <2>2, <2>3, <2>4, LoopWritesBranch
<1>5. CASE RecoverReturns(t)
  <2>1. /\ wait' = [wait EXCEPT ![t] = w] /\ Goto("loop", less) /\ UNCHANGED <<disk, mem, planned>>
    BY <1>5 DEF RecoverReturns, files, less
  <2>2. w.pc = "wait"
    BY DEF NoWaiter
  <2> HIDE DEF w
  <2>3. \A u \in Names : wait'[u].pc = "filed" => wait'[u] = wait[u]
    BY <2>1, <2>2 DEF Typed, WaitOK
  <2> QED
    BY <1>2, <1>3, <2>1, <2>3, LoopRests
<1> QED
  BY <1>4, <1>5

LEMMA ScanBranches ==
    ASSUME Typed, BranchesInv, PushesStand, NEW t \in Names, Scan(t)
    PROVE  BranchesInv'
<1> DEFINE row == L.rows[t]
           error == [row EXCEPT !.status = "error"]
           next == [row EXCEPT !.attempts = row.attempts + 1]
           c == [ctl["loop"] EXCEPT !.todo = After(t)]
<1>1. /\ ctl["loop"].pc = "scan" /\ UNCHANGED <<wait, planned>> /\ row \in Row
      /\ \/ Touch("loop", t, error) /\ Goto("loop", c)
         \/ Attempt("loop", t, next, c)
  BY Awaited DEF Scan, LoopAt
<1>2. /\ row.status = "pending" /\ DepsSatisfied(L.rows, t) /\ t \in ctl["loop"].todo
  <2>1. Ready \in SUBSET Names /\ Ready # {} /\ t = First(Ready)
    BY LoopControl DEF Ready, Scan
  <2>2. t \in Ready
    BY <2>1, FirstIn
  <2> QED
    BY <2>2 DEF Ready
<1>3. /\ error \in Row /\ error.status = "error"
      /\ next \in Row /\ next.status = "pending" /\ next.dependsOn = row.dependsOn
  BY <1>1, <1>2 DEF Row, Statuses
<1>4. /\ c \in Control /\ c.pc = "scan" /\ c.todo = After(t) /\ After(t) \subseteq ctl["loop"].todo
  <2>1. After(t) \in SUBSET Names /\ After(t) \subseteq ctl["loop"].todo
    BY LoopControl DEF After
  <2>2. ctl["loop"] \in Control
    BY LoopControl
  <2>3. c.todo = After(t)
    BY <2>2 DEF Control
  <2> QED
    BY <1>1, <2>1, <2>3, LoopControl
<1>5. Up("loop") /\ "loop" \in Procs /\ ctl["loop"].todo \subseteq DOMAIN planned
  BY <1>1 DEF Up, Procs, BranchesInv, SweepInv, Swept
<1>6. IsVerifier(t) => Handed(L, Verifies[t]) /\ Verifies[t] # t
  <2>1. IsVerifier(t) => Verifies[t] \in NormalizedDependsOn(planned, t)
    BY DEF NormalizedDependsOn
  <2>2. NormalizedDependsOn(planned, t) \subseteq row.dependsOn
    BY <1>2, <1>5 DEF BranchesInv, DepsInv
  <2> QED
    BY <1>2, <2>1, <2>2 DEF DepsSatisfied, Handed
<1> HIDE DEF error, next, c
<1>7. CASE Touch("loop", t, error) /\ Goto("loop", c)
  <2>1. Writes("loop", t, error, c)
    BY <1>4, <1>7 DEF Writes, Touch, Save, Goto
  <2>2. \A v \in Names : ~Hand(c, v)
    BY <1>4 DEF Hand
  <2> QED
    BY <1>1, <1>2, <1>3, <1>4, <1>5, <2>1, <2>2, LoopWritesBranch
<1>8. CASE Attempt("loop", t, next, c)
  <2>1. \E d : \E r \in Row :
             /\ Writes("loop", t, r, d) /\ r.status = next.status /\ r.dependsOn = next.dependsOn
             /\ d.pc = "create" /\ d.task = t /\ d.todo = c.todo
             /\ IsVerifier(t) => \/ RefRefused(L.rows, t)
                                 \/ r.startingRef = L.rows[Verifies[t]].branch
    BY <1>3, <1>4, <1>5, <1>6, <1>8, AttemptBranches DEF L
  <2>2. PICK d : \E r \in Row :
             /\ Writes("loop", t, r, d) /\ r.status = next.status /\ r.dependsOn = next.dependsOn
             /\ d.pc = "create" /\ d.task = t /\ d.todo = c.todo
             /\ IsVerifier(t) => \/ RefRefused(L.rows, t)
                                 \/ r.startingRef = L.rows[Verifies[t]].branch
    BY <2>1
  <2>3. PICK r \in Row :
             /\ Writes("loop", t, r, d) /\ r.status = next.status /\ r.dependsOn = next.dependsOn
             /\ d.pc = "create" /\ d.task = t /\ d.todo = c.todo
             /\ IsVerifier(t) => \/ RefRefused(L.rows, t)
                                 \/ r.startingRef = L.rows[Verifies[t]].branch
    BY <2>2
  <2>4. \A v \in Names : Hand(d, v) => v = t
    BY <2>3 DEF Hand
  <2>5. d.todo \subseteq DOMAIN planned
    BY <1>4, <1>5, <2>3
  <2>6. \A v \in Names : Hand(d, v) /\ IsVerifier(v) =>
                LET u == Verifies[v]
                IN  /\ Handed(L, u)
                    /\ d.pc = "create" => \/ RefRefused(L.rows, v)
                                          \/ (IF v = t THEN r ELSE L.rows[v]).startingRef = L.rows[u].branch
    BY <1>6, <2>3, <2>4
  <2> QED
    BY <1>1, <1>2, <1>3, <1>5, <2>3, <2>5, <2>6, LoopWritesBranch
<1> QED
  BY <1>1, <1>7, <1>8

LEMMA ReconcilingBranches ==
    ASSUME Typed, WatchingNow, BranchesInv, PushesStand, Reconciling
    PROVE  BranchesInv'
<1>1. CASE \E t \in Names : RecoverFails(t) \/ RecoverReturns(t)
  BY <1>1, RecoveringBranches
<1>2. CASE \E t \in Names : Scan(t)
  BY <1>2, ScanBranches
<1>3. ASSUME Recovered \/ Decide \/ Checkpoint \/ Settle, \E how : Exit(how)
      PROVE  BranchesInv'
  <2>1. disk' \in {disk, L} /\ Up("loop")
    BY <1>3 DEF Recovered, Decide, Checkpoint, Settle, LoopAt, Up
  <2>2. /\ Goto("loop", Idle) /\ mem' = [mem EXCEPT !["loop"] = Empty] /\ Idle.pc = "off"
        /\ \A t \in Names : wait'[t].pc = "none"
    BY <1>3 DEF Exit, Goto, Idle, NoWaiter
  <2> QED
    BY <2>1, <2>2, LoopRests
<1>4. ASSUME UNCHANGED <<mem, disk, wait, planned>>, ctl["loop"].pc # "off", NEW c, Goto("loop", c),
             c.pc \in {"poll", "decide", "sleep", "settle"}
      PROVE  BranchesInv'
  BY <1>4, LoopRests DEF Up
<1>5. ASSUME UNCHANGED <<mem, disk, wait, planned>>, ctl["loop"].pc # "off",
             \E pc \in {"poll", "sleep", "settle"} : Goto("loop", [ctl["loop"] EXCEPT !.pc = pc])
      PROVE  BranchesInv'
  <2>1. PICK pc \in {"poll", "sleep", "settle"} : Goto("loop", [ctl["loop"] EXCEPT !.pc = pc])
    BY <1>5
  <2> DEFINE c == [ctl["loop"] EXCEPT !.pc = pc]
  <2>2. Goto("loop", c) /\ c.pc = pc
    BY <2>1, LoopControl
  <2> HIDE DEF c
  <2> QED
    BY <1>4, <1>5, <2>2
<1>6. CASE Recovered
  BY <1>3, <1>5, <1>6 DEF Recovered, LoopAt
<1>7. CASE Decide
  BY <1>3, <1>5, <1>7 DEF Decide, LoopAt
<1>8. CASE Checkpoint
  BY <1>3, <1>8 DEF Checkpoint
<1>9. CASE Settle
  BY <1>3, <1>9 DEF Settle
<1>10. CASE Wake
  BY <1>5, <1>10 DEF Wake, LoopAt, files
<1>11. CASE ScanEnds
  <2> DEFINE c == [ctl["loop"] EXCEPT !.pc = "decide", !.todo = {}]
  <2>1. Goto("loop", c) /\ UNCHANGED <<mem, disk, wait, planned>> /\ ctl["loop"].pc = "scan"
    BY <1>11 DEF ScanEnds, LoopAt, files
  <2>2. c.pc = "decide"
    BY LoopControl
  <2> HIDE DEF c
  <2> QED
    BY <1>4, <2>1, <2>2
<1>12. CASE PollReturns \/ PollFails
  <2>1. /\ ctl["loop"].pc = "poll" /\ UNCHANGED <<wait, planned>>
        /\ \E andon : StartSweep(andon)
    BY <1>12 DEF PollReturns, PollFails, LoopAt
  <2>2. \E c : /\ Goto("loop", c) /\ c.pc \in {"decide", "scan"}
               /\ c.todo \subseteq DOMAIN planned
    <3> DEFINE stop == [ctl["loop"] EXCEPT !.pc = "decide", !.todo = {}]
               scan == [ctl["loop"] EXCEPT !.pc = "scan", !.todo = DOMAIN planned]
    <3>1. Goto("loop", stop) \/ Goto("loop", scan)
      BY <2>1 DEF StartSweep
    <3>2. ctl["loop"] \in Control
      BY LoopControl
    <3>3. stop.pc = "decide" /\ stop.todo = {} /\ scan.pc = "scan" /\ scan.todo = DOMAIN planned
      BY <3>2 DEF Control
    <3> HIDE DEF stop, scan
    <3> QED
      BY <3>1, <3>3
  <2>3. PICK c : /\ Goto("loop", c) /\ c.pc \in {"decide", "scan"}
                 /\ c.todo \subseteq DOMAIN planned
    BY <2>2
  <2>4. \E s : /\ s.rows = L.rows
               /\ mem' = [mem EXCEPT !["loop"] = s] \/ (UNCHANGED mem /\ s = L)
               /\ disk' \in {disk, s}
    <3>1. [L EXCEPT !.andon = cord].rows = L.rows
      BY Awaited DEF State
    <3>2. \E s \in {L, [L EXCEPT !.andon = cord]} : Save("loop", s) \/ (UNCHANGED <<mem, disk>> /\ s = L)
      BY <1>12 DEF PollReturns, PollFails, LogAttention, Snapshot, L
    <3> QED
      BY <3>1, <3>2 DEF Save
  <2>5. Up("loop")
    BY <2>1 DEF Up
  <2> QED
    BY <2>1, <2>3, <2>4, <2>5, LoopRests
<1> QED
  BY <1>1, <1>2, <1>6, <1>7, <1>8, <1>9, <1>10, <1>11, <1>12 DEF Reconciling

(* A process that starts.  Reading the plan leaves handoffs alone and gives *)
(* the pending tasks of the plan what they wait for.                        *)
LEMMA ReconcileBranches ==
    ASSUME NEW rows \in [Names -> Row], NEW p, NEW t \in Names
    PROVE  LET r == ReconcileStateWithPlan(rows, p)[t]
           IN  /\ r.status = "handed-off" => r = rows[t]
               /\ t \in DOMAIN p /\ r.status = "pending" => r.dependsOn = NormalizedDependsOn(p, t)
<1> DEFINE r == ReconcileStateWithPlan(rows, p)[t]
           deps == NormalizedDependsOn(p, t)
           new == InitialTaskState(deps, t, FALSE)
           open == [rows[t] EXCEPT !.dependsOn = deps]
           pruned == [rows[t] EXCEPT !.status = "pruned"]
<1>1. rows[t] \in Row
  OBVIOUS
<1>2. /\ new.status = "pending" /\ new.dependsOn = deps
      /\ open.status = rows[t].status /\ open.dependsOn = deps
      /\ pruned.status = "pruned"
  BY <1>1 DEF InitialTaskState, NoRow, Row
<1>3. r = IF t \in DOMAIN p
          THEN IF rows[t].status = "absent" THEN new
               ELSE IF rows[t].status = "pending" THEN open ELSE rows[t]
          ELSE IF rows[t].status = "pending" /\ ~rows[t].adHoc THEN pruned ELSE rows[t]
  BY DEF ReconcileStateWithPlan
<1> HIDE DEF r, new, open, pruned, deps
<1>4. /\ r.status = "handed-off" => r = rows[t]
      /\ t \in DOMAIN p /\ r.status = "pending" => r.dependsOn = deps
  BY <1>2, <1>3
<1> QED
  BY <1>4 DEF r, deps

LEMMA LoadedBranches ==
    ASSUME Typed, NEW p \in Plans \cup {NoPlan}
    PROVE  LET s == Loaded(disk, p)
           IN  /\ Carries(s, disk)
               /\ \A t \in DOMAIN p : s.rows[t].status = "pending" =>
                    s.rows[t].dependsOn = NormalizedDependsOn(p, t)
<1> DEFINE A == ReconcileStateWithPlan(disk.rows, p)
           B == ReconcileVerifierRefs(A, p, With(A, "handed-off"))
           s == Loaded(disk, p)
<1>1. disk \in State /\ disk.rows \in [Names -> Row] /\ DOMAIN p \subseteq Names
  BY PlanType DEF Typed, StatesOK, KnownIn, State
<1>2. A \in [Names -> Row]
  BY <1>1, ReconcileType
<1>3. \A t \in Names :
        /\ A[t].status = "handed-off" => A[t] = disk.rows[t]
        /\ t \in DOMAIN p /\ A[t].status = "pending" => A[t].dependsOn = NormalizedDependsOn(p, t)
  BY <1>1, ReconcileBranches
<1> HIDE DEF A
<1>4. B \in [Names -> Row] /\ \A t \in Names :
        /\ B[t].status = A[t].status /\ B[t].run = A[t].run
        /\ B[t].branch = A[t].branch /\ B[t].dependsOn = A[t].dependsOn
  BY <1>2, VerifierRefsType, VerifierRefs
<1>5. s = [disk EXCEPT !.rows = B]
  BY DEF Loaded, A
<1> HIDE DEF B, s
<1>6. s.rows = B
  BY <1>1, <1>4, <1>5, RowsChanged
<1>7. Carries(s, disk)
  BY <1>3, <1>4, <1>6 DEF Carries, Handed
<1>8. \A t \in DOMAIN p : s.rows[t].status = "pending" =>
                    s.rows[t].dependsOn = NormalizedDependsOn(p, t)
  BY <1>1, <1>3, <1>4, <1>6
<1> QED
  BY <1>7, <1>8 DEF s

LEMMA BootBranches ==
    ASSUME Typed, BranchesInv, PushesStand, Boot
    PROVE  BranchesInv'
<1> DEFINE s == Loaded(disk, plan)
           c == [Idle EXCEPT !.pc = "recover", !.cmd = "run", !.todo = With(s.rows, "running"),
                             !.known = With(s.rows, "error")]
<1>1. /\ disk' = s /\ mem' = [mem EXCEPT !["loop"] = s] /\ Goto("loop", c)
      /\ UNCHANGED wait /\ planned' = plan
  BY DEF Boot, Save
<1>3. c.pc = "recover"
  BY DEF Idle
<1>4. /\ Carries(s, disk)
      /\ \A t \in DOMAIN plan : s.rows[t].status = "pending" =>
            s.rows[t].dependsOn = NormalizedDependsOn(plan, t)
  BY LoadedBranches DEF Typed, WorldOK
<1> HIDE DEF s, c
<1>5. /\ L' = s /\ ctl'["loop"] = c
      /\ mem'["command"] = mem["command"] /\ ctl'["command"] = ctl["command"]
  BY <1>1 DEF L, Goto, Typed, StatesOK, CtlOK, Procs
<1>6. Delivered(s, cloud') /\ (Up("command") => Delivered(mem["command"], cloud'))
  BY <1>4, CarriesItself, DeliveredKept DEF BranchesInv, BranchInv, Procs
<1>7. BranchInv'
  BY <1>1, <1>5, <1>6 DEF BranchInv, Up, Procs, L
<1>8. FinishedInv'
  BY <1>1 DEF BranchesInv, FinishedInv, Pushed, PushesStand
<1>9. DepsInv'
  BY <1>1, <1>4, <1>5 DEF DepsInv
<1>10. SweepInv'
  BY <1>3, <1>5 DEF SweepInv, Swept, Hand
<1>11. InlineInv'
  BY <1>5 DEF BranchesInv, InlineInv
<1> QED
  BY <1>7, <1>8, <1>9, <1>10, <1>11 DEF BranchesInv

(* Commands. *)
LEMMA CommandStartsBranches ==
    ASSUME Typed, BranchesInv, PushesStand, NEW cmd, NEW t, StartCommand(cmd, t),
           NEW s, NEW c, EndsWith(s) \/ GoesOn(s, c),
           \A v \in Names : Hand(c, v) => ~IsVerifier(v),
           \A u \in Names : Handed(s, u) => Handed(Found, u)
                /\ s.rows[u].run = Found.rows[u].run /\ s.rows[u].branch = Found.rows[u].branch
    PROVE  BranchesInv'
<1>1. ctl["command"].pc = "off" /\ UNCHANGED <<wait, planned>>
  BY DEF StartCommand, CommandAt
<1>2. /\ disk' = s /\ mem'["loop"] = mem["loop"] /\ ctl'["loop"] = ctl["loop"]
      /\ Up("command")' => C' = s /\ ctl'["command"] = c
  BY <1>1 DEF EndsWith, GoesOn, Save, Goto, C, Up, Typed, StatesOK, CtlOK, Procs
<1>3. Carries(Found, disk)
  BY LoadedBranches DEF Found, Typed, WorldOK
<1>4. Carries(s, disk)
  BY <1>3 DEF Carries
<1>5. Delivered(s, cloud') /\ (Up("loop") => Delivered(mem["loop"], cloud'))
  BY <1>4, CarriesItself, DeliveredKept DEF BranchesInv, BranchInv, Procs
<1>6. BranchInv'
  BY <1>2, <1>5 DEF BranchInv, Up, Procs, C
<1>7. FinishedInv'
  BY <1>1 DEF BranchesInv, FinishedInv, Pushed, PushesStand
<1>8. DepsInv' /\ SweepInv'
  BY <1>1, <1>2 DEF BranchesInv, DepsInv, SweepInv, Swept, Up, L
<1>9. InlineInv'
  BY <1>1, <1>2 DEF InlineInv, Hand, Up
<1> QED
  BY <1>6, <1>7, <1>8, <1>9 DEF BranchesInv

LEMMA SpawnCommandBranches ==
    ASSUME Typed, BranchesInv, PushesStand, NEW t \in Names, SpawnCommand(t)
    PROVE  BranchesInv'
<1> DEFINE row == Found.rows[t]
           new == IF row.status = "absent" THEN InlineTask(t) ELSE row
           next == [new EXCEPT !.attempts = new.attempts + 1]
           s == [Found EXCEPT !.rows[t] = next]
           c == [Idle EXCEPT !.pc = "create", !.cmd = "spawn", !.task = t, !.try = 1]
<1>1. /\ StartCommand("spawn", t)
      /\ \/ EndsWith(Found)
         \/ GoesOn(s, c) /\ row.status \in {"absent", "pending"} /\ ~IsVerifier(t)
  BY DEF SpawnCommand
<1>2. c.task = t /\ Idle.pc = "off"
  BY DEF Idle
<1>3. ASSUME row.status \in {"absent", "pending"}
      PROVE  next \in Row /\ next.status = "pending"
  <2>1. InlineTask(t) \in Row /\ InlineTask(t).status = "pending"
    BY NewRowType DEF InlineTask
  <2>2. row \in Row
    BY FoundType
  <2>3. new \in Row /\ new.status = "pending"
    BY <1>3, <2>1, <2>2
  <2> HIDE DEF new
  <2> QED
    BY <2>3 DEF Row
<1> HIDE DEF next
<1>4. ASSUME row.status \in {"absent", "pending"}
      PROVE  s.rows[t] = next /\ \A u \in Names \ {t} : s.rows[u] = Found.rows[u]
  BY <1>3, <1>4, FoundType, RowChanged
<1> HIDE DEF s, c
<1>5. CASE EndsWith(Found)
  <2>1. \A v \in Names : ~Hand(Idle, v)
    BY <1>2 DEF Hand
  <2> QED
    BY <1>1, <1>5, <2>1, CommandStartsBranches
<1>6. CASE GoesOn(s, c) /\ row.status \in {"absent", "pending"} /\ ~IsVerifier(t)
  <2>1. \A v \in Names : Hand(c, v) => ~IsVerifier(v)
    BY <1>2, <1>6 DEF Hand
  <2>2. \A u \in Names : Handed(s, u) => s.rows[u] = Found.rows[u]
    BY <1>3, <1>4, <1>6 DEF Handed
  <2> QED
    BY <1>1, <1>6, <2>1, <2>2, CommandStartsBranches DEF Handed
<1> QED
  BY <1>1, <1>5, <1>6

LEMMA RespawnCommandBranches ==
    ASSUME Typed, BranchesInv, PushesStand, NEW t \in Names, NEW cascade \in BOOLEAN,
           RespawnCommand(t, cascade)
    PROVE  BranchesInv'
<1> DEFINE again == {u \in With(Found.rows, "pruned") : cascade /\ t \in RowAncestors(Found.rows, u)}
           rows == [u \in Names |-> IF u \in again \cup {t} THEN Respawned(Found.rows[u], u)
                                    ELSE Found.rows[u]]
           cmd == IF cascade THEN "cascade" ELSE "respawn"
           s == [Found EXCEPT !.rows = rows]
<1>1. StartCommand(cmd, t) /\ (EndsWith(Found) \/ EndsWith(s))
  BY DEF RespawnCommand
<1> HIDE DEF cmd, again
<1>2. \A v \in Names : ~Hand(Idle, v)
  BY DEF Hand, Idle
<1>3. \A u \in Names : LET r == Respawned(Found.rows[u], u)
                       IN  r \in Row /\ r.status = "pending"
  <2>1. ASSUME NEW u \in Names
        PROVE  LET r == Respawned(Found.rows[u], u) IN r \in Row /\ r.status = "pending"
    <3>1. Found.rows[u] \in Row
      BY FoundType
    <3>2. Respawned(Found.rows[u], u).status = "pending"
      BY <3>1 DEF Respawned, Row
    <3> QED
      BY <3>1, <3>2, RespawnedType
  <2> QED
    BY <2>1
<1>4. /\ rows \in [Names -> Row]
      /\ \A u \in Names : rows[u].status = "handed-off" => rows[u] = Found.rows[u]
  BY <1>3, FoundType
<1> HIDE DEF rows
<1>5. s.rows = rows
  BY <1>4, FoundType, RowsChanged
<1> HIDE DEF s
<1>6. \A u \in Names : Handed(s, u) => s.rows[u] = Found.rows[u]
  BY <1>4, <1>5 DEF Handed
<1> QED
  BY <1>1, <1>2, <1>6, CommandStartsBranches DEF Handed

(* A command goes on with what it holds, or ends. *)
LEMMA CommandRests ==
    ASSUME Typed, BranchesInv, Up("command"), PushesStand, NEW c, Goto("command", c),
           c.pc \notin {"create", "send", "backoff"}, UNCHANGED <<disk, wait, planned>>,
           UNCHANGED mem \/ (c.pc = "off" /\ mem' = [mem EXCEPT !["command"] = Empty])
    PROVE  BranchesInv'
<1>1. /\ ctl'["command"] = c /\ mem'["loop"] = mem["loop"] /\ ctl'["loop"] = ctl["loop"]
      /\ c.pc # "off" => C' = C
  BY DEF Goto, Typed, CtlOK, StatesOK, Procs, C
<1>2. \A v \in Names : ~Hand(c, v)
  BY DEF Hand
<1> QED
  BY <1>1, <1>2, CarriesItself, CommandMoves DEF Up

LEMMA CommandMarksBranches ==
    ASSUME Typed, BranchesInv, Up("command"), PushesStand, NEW t \in Names,
           NEW status \in {"error", "pruned", "cancelled"},
           NEW c, c.pc \notin {"create", "send", "backoff"},
           Writes("command", t, [C.rows[t] EXCEPT !.status = status], c),
           UNCHANGED <<wait, planned>>
    PROVE  BranchesInv'
<1> DEFINE r == [C.rows[t] EXCEPT !.status = status]
<1>1. r \in Row /\ r.status = status
  BY CommandRow DEF Row, Statuses
<1>2. \A v \in Names : ~Hand(c, v)
  BY DEF Hand
<1> HIDE DEF r
<1>3. Writes("command", t, r, c)
  BY DEF r
<1> QED
  BY <1>1, <1>2, <1>3, CommandWritesBranch

LEMMA StopTaskBranches ==
    ASSUME Typed, BranchesInv, PushesStand, NEW t \in Names, StopTask(t)
    PROVE  BranchesInv'
<1> DEFINE row == C.rows[t]
           next == [ctl["command"] EXCEPT !.todo = ctl["command"].todo \ {t}]
           cancel == [next EXCEPT !.pc = "cancel", !.task = t]
<1>1. /\ ctl["command"].pc = "stop" /\ UNCHANGED <<wait, planned>>
      /\ \/ Goto("command", cancel) /\ UNCHANGED <<mem, disk>>
         \/ Goto("command", next) /\ UNCHANGED <<mem, disk>>
         \/ /\ \E status \in {"error", "pruned"} : Touch("command", t, [row EXCEPT !.status = status])
            /\ Goto("command", next)
  BY DEF StopTask, CommandAt
<1>2. next.pc = "stop" /\ cancel.pc = "cancel"
  BY <1>1, CommandRow DEF Control
<1>3. Up("command")
  BY <1>1 DEF Up
<1> HIDE DEF next, cancel
<1>4. CASE (Goto("command", cancel) \/ Goto("command", next)) /\ UNCHANGED <<mem, disk>>
  BY <1>1, <1>2, <1>3, <1>4, CommandRests
<1>5. ASSUME NEW status \in {"error", "pruned"},
             Touch("command", t, [row EXCEPT !.status = status]), Goto("command", next)
      PROVE  BranchesInv'
  <2>1. Writes("command", t, [C.rows[t] EXCEPT !.status = status], next)
    BY <1>2, <1>5 DEF Writes, Touch, Save, Goto
  <2> QED
    BY <1>1, <1>2, <1>3, <2>1, CommandMarksBranches
<1> QED
  BY <1>1, <1>4, <1>5

LEMMA CancellingBranches ==
    ASSUME Typed, BranchesInv, PushesStand, CancelReturns \/ CancelFails
    PROVE  BranchesInv'
<1> DEFINE t == ctl["command"].task
           stop == [ctl["command"] EXCEPT !.pc = "stop", !.task = NoTask]
<1>1. ctl["command"].pc = "cancel" /\ UNCHANGED <<wait, planned>>
  BY DEF CancelReturns, CancelFails, CommandAt
<1>2. t \in Names /\ Up("command")
  BY <1>1 DEF Typed, CtlOK, AtHand, Procs, Up
<1>3. stop.pc = "stop" /\ Idle.pc = "off"
  BY CommandRow, <1>2 DEF Control, Idle
<1> HIDE DEF stop, t
<1>4. ASSUME NEW status \in {"cancelled", "error"}, NextVictim([C.rows[t] EXCEPT !.status = status])
      PROVE  BranchesInv'
  <2>1. \/ Writes("command", t, [C.rows[t] EXCEPT !.status = status], Idle)
        \/ Writes("command", t, [C.rows[t] EXCEPT !.status = status], stop)
    BY <1>3, <1>4 DEF NextVictim, EndCommand, Writes, Touch, Save, Goto, C, stop, t
  <2> QED
    BY <1>1, <1>2, <1>3, <2>1, CommandMarksBranches
<1>5. \/ \E status \in {"cancelled", "error"} : NextVictim([C.rows[t] EXCEPT !.status = status])
      \/ EndCommand /\ UNCHANGED disk
  BY DEF CancelReturns, CancelFails, t
<1>6. CASE EndCommand /\ UNCHANGED disk
  BY <1>1, <1>2, <1>3, <1>6, CommandRests DEF EndCommand, Goto
<1> QED
  BY <1>4, <1>5, <1>6

LEMMA OperatingBranches ==
    ASSUME Typed, BranchesInv, PushesStand, Operating
    PROVE  BranchesInv'
<1>1. ASSUME NEW t \in Names, SpawnCommand(t) PROVE BranchesInv'
  BY <1>1, SpawnCommandBranches
<1>2. ASSUME NEW t \in Names, NEW cascade \in BOOLEAN, RespawnCommand(t, cascade)
      PROVE  BranchesInv'
  BY <1>2, RespawnCommandBranches
<1>3. ASSUME NEW t \in Names, CancelCommand(t) PROVE BranchesInv'
  <2> DEFINE c == [Idle EXCEPT !.pc = "cancel", !.cmd = "cancel", !.task = t]
  <2>1. \A v \in Names : ~Hand(c, v)
    BY DEF Idle, Hand
  <2>2. StartCommand("cancel", t) /\ (EndsWith(Found) \/ GoesOn(Found, c))
    BY <1>3 DEF CancelCommand
  <2> HIDE DEF c
  <2> QED
    BY <2>1, <2>2, CommandStartsBranches
<1>4. ASSUME NEW t \in Names \cup {NoTask}, KillCommand(t) PROVE BranchesInv'
  <2>1. StartCommand("kill", t)
        /\ \E S : GoesOn(Found, [Idle EXCEPT !.pc = "stop", !.cmd = "kill", !.todo = S])
    BY <1>4 DEF KillCommand
  <2>2. PICK S : GoesOn(Found, [Idle EXCEPT !.pc = "stop", !.cmd = "kill", !.todo = S])
    BY <2>1
  <2> DEFINE c == [Idle EXCEPT !.pc = "stop", !.cmd = "kill", !.todo = S]
  <2>3. \A v \in Names : ~Hand(c, v)
    BY DEF Idle, Hand
  <2>4. GoesOn(Found, c)
    BY <2>2
  <2> HIDE DEF c
  <2> QED
    BY <2>1, <2>3, <2>4, CommandStartsBranches
<1>5. ASSUME NEW t \in Names, StopTask(t) PROVE BranchesInv'
  BY <1>5, StopTaskBranches
<1>6. CASE StopEnds \/ CommandDies
  <2>1. Up("command") /\ EndCommand /\ UNCHANGED <<disk, wait, planned>> /\ Idle.pc = "off"
    BY <1>6 DEF StopEnds, CommandDies, CommandAt, Up, files, Idle
  <2> QED
    BY <2>1, CommandRests DEF EndCommand, Goto
<1>7. CASE CancelReturns \/ CancelFails
  BY <1>7, CancellingBranches
<1> QED
  BY <1>1, <1>2, <1>3, <1>4, <1>5, <1>6, <1>7 DEF Operating

LEMMA NextBranches ==
    ASSUME Filed, BranchesInv, [Next]_vars
    PROVE  BranchesInv'
<1>0. Typed /\ WatchingNow /\ FileInv /\ PushesStand
  BY NextPushes DEF Filed
<1>1. CASE Boot
  BY <1>0, <1>1, BootBranches
<1>2. CASE Reconciling
  BY <1>0, <1>2, ReconcilingBranches
<1>3. CASE LoopDies
  <2>1. /\ Goto("loop", Idle) /\ mem' = [mem EXCEPT !["loop"] = Empty] /\ Idle.pc = "off"
        /\ Up("loop") /\ disk' \in {disk, L} /\ \A t \in Names : wait'[t].pc = "none"
    BY <1>3 DEF LoopDies, LoopAt, Up, Goto, Idle, NoWaiter, files
  <2> QED
    BY <1>0, <2>1, LoopRests
<1>4. ASSUME NEW p \in Procs, Spawning(p) PROVE BranchesInv'
  BY <1>0, <1>4, SpawningBranches
<1>5. ASSUME NEW t \in Names, Waiting(t) PROVE BranchesInv'
  BY <1>0, <1>5, WaitingBranches
<1>6. CASE Operating
  BY <1>0, <1>6, OperatingBranches
<1>7. ASSUME UNCHANGED <<files, procs>> PROVE BranchesInv'
  <2>1. UNCHANGED <<disk, mem, ctl, wait, planned>>
    BY <1>7 DEF files, procs
  <2>2. ASSUME NEW s, Delivered(s, cloud) PROVE Delivered(s, cloud')
    BY <1>0, <2>2, CarriesItself, DeliveredKept
  <2>3. BranchInv'
    BY <2>1, <2>2 DEF BranchesInv, BranchInv, Up
  <2>4. FinishedInv'
    BY <1>0, <2>1 DEF BranchesInv, FinishedInv, Pushed, PushesStand
  <2>5. DepsInv' /\ SweepInv' /\ InlineInv'
    BY <2>1 DEF BranchesInv, DepsInv, SweepInv, Swept, InlineInv, Up, L
  <2> QED
    BY <2>3, <2>4, <2>5 DEF BranchesInv
<1>8. CASE \/ \E p \in Procs : RunStarts(p)
           \/ \E t \in Names : \E n \in DOMAIN cloud[t] :
                \E end \in {"finished", "error"}, branch \in Pushes[t] : RunEnds(t, n, end, branch)
           \/ \E p \in Plans : EditPlan(p)
           \/ PullCord \/ ReleaseCord \/ UNCHANGED vars
  BY <1>7, <1>8 DEF RunStarts, RunEnds, EditPlan, PullCord, ReleaseCord, vars
<1> QED
  BY <1>1, <1>2, <1>3, <1>4, <1>5, <1>6, <1>8 DEF Next

LEMMA InitBranches == Init => BranchesInv
<1> SUFFICES ASSUME Init PROVE BranchesInv
  OBVIOUS
<1>1. \A t \in Names : ~Handed(disk, t) /\ wait[t].pc = "none"
  BY DEF Init, Handed, Empty, NoRow, NoWaiter
<1>2. \A p \in Procs : ctl[p].pc = "off"
  BY DEF Init, Idle
<1>3. InlineInv
  BY <1>2 DEF InlineInv, Hand, Procs
<1> QED
  BY <1>1, <1>2, <1>3 DEF BranchesInv, BranchInv, Delivered, FinishedInv, DepsInv, SweepInv, Up, Procs

\* A new agent of a verifier is cloned from what its target delivered.
Cloned == \A v \in Names : IsVerifier(v) /\ Len(cloud'[v]) > Len(cloud[v]) =>
    LET row == L.rows[Verifies[v]]
        ref == cloud'[v][Len(cloud'[v])].ref
    IN  /\ row.status = "handed-off"
        /\ cloud[Verifies[v]][row.run].branch \in {ref, "none"}

LEMMA NextCloned ==
    ASSUME Filed, BranchesInv, [Next]_vars
    PROVE  Cloned
<1>1. Typed /\ CloudOK /\ CloudOK'
  BY NextTyped DEF Filed, Typed
<1>2. CASE NoneNew
  <2>1. ASSUME NEW v \in Names PROVE Len(cloud'[v]) = Len(cloud[v]) /\ Len(cloud[v]) \in Nat
    BY <1>1, <1>2 DEF NoneNew, CloudOK
  <2> QED
    BY <2>1 DEF Cloned
<1>3. ASSUME NEW p \in Procs, CreateReturns(p) PROVE Cloned
  <2> DEFINE t == ctl[p].task
             agent == [phase |-> "created", ref |-> mem[p].rows[t].startingRef,
                       branch |-> "none", lost |-> FALSE]
  <2>1. t \in Names /\ mem[p].rows[t] \in Row /\ ctl[p].pc = "create" /\ ~RefRefused(mem[p].rows, t)
    BY <1>1, <1>3, RowAt DEF CreateReturns, Typed, CtlOK, AtHand
  <2>2. [mem[p].rows[t] EXCEPT !.status = "running", !.run = 0].startingRef = mem[p].rows[t].startingRef
    BY <2>1 DEF Row
  <2>3. cloud' = [cloud EXCEPT ![t] = Append(cloud[t], agent)]
    BY <1>3, <2>2 DEF CreateReturns
  <2>4. agent.ref = mem[p].rows[t].startingRef /\ agent \in Agent
    BY <2>1 DEF Agent, Row
  <2> HIDE DEF agent
  <2>5. cloud'[t][Len(cloud'[t])] = agent
    BY <1>1, <2>1, <2>3, <2>4 DEF CloudOK
  <2>6. ASSUME NEW v \in Names, Len(cloud'[v]) > Len(cloud[v]) PROVE v = t
    BY <1>1, <2>3, <2>6 DEF CloudOK
  <2>7. Hand(ctl[p], t) /\ Up(p)
    BY <2>1 DEF Hand, Up
  <2> SUFFICES ASSUME IsVerifier(t)
               PROVE  LET row == L.rows[Verifies[t]]
                      IN  /\ row.status = "handed-off"
                          /\ cloud[Verifies[t]][row.run].branch \in {mem[p].rows[t].startingRef, "none"}
    BY <2>4, <2>5, <2>6 DEF Cloned
  <2>8. p = "loop"
    BY <2>1, <2>7 DEF BranchesInv, InlineInv, Procs
  <2> DEFINE u == Verifies[t]
  <2>9. u \in Names
    BY <2>1, NamesAssumption
  <2>10. L.rows[u].status = "handed-off" /\ L.rows[t].startingRef = L.rows[u].branch
    BY <2>1, <2>7, <2>8 DEF BranchesInv, SweepInv, Swept, L
  <2>11. Pushed(cloud, u, L.rows[u].run, L.rows[u].branch)
    BY <2>7, <2>8, <2>9, <2>10 DEF BranchesInv, BranchInv, Delivered, Handed, L
  <2> QED
    BY <2>8, <2>10, <2>11 DEF Pushed, L
<1> QED
  BY <1>1, <1>2, <1>3, NextPushes

(* For all tasks, plans, branches and bounds and over any overlap of        *)
(* commands with a loop: a verifier's agent is cloned from a branch its     *)
(* target delivered, the loop having it handed off (startingRefForTask,     *)
(* reconcileVerifierStartingRefs, spawnReadyPending).                       *)
THEOREM VerifiersCloneDelivered == Spec => VerifierOnDeliveredBranch
<1> DEFINE IInv == Filed /\ BranchesInv
<1>1. Init => IInv
  BY FiledInductive, InitBranches
<1>2. IInv /\ [Next]_vars => IInv' /\ Cloned
  BY FiledInductive, NextBranches, NextCloned DEF Filed
<1>3. VerifierOnDeliveredBranch <=> [][Cloned]_vars
  BY DEF VerifierOnDeliveredBranch, Cloned
<1> HIDE DEF IInv, Cloned
<1> QED
  BY <1>1, <1>2, <1>3, PTL DEF Spec

-----------------------------------------------------------------------------
(* Why the loop gives up: walks over the dependencies, and what they find. *)

(* Induction over the naturals, in first-order terms. *)
LEMMA Inductive ==
    ASSUME NEW G, 0 \in G, \A k \in Nat : k \in G => k + 1 \in G
    PROVE  \A k \in Nat : k \in G
<1> DEFINE Bad == Nat \ G
<1> SUFFICES ASSUME Bad # {} PROVE FALSE
  OBVIOUS
<1> HIDE DEF Bad
<1>1. \E m \in Bad : \A k \in Bad : ~(<<k, m>> \in OpToRel(<, Nat))
  BY NatLessThanWellFounded, WFMin DEF Bad
<1>2. PICK m \in Bad : \A k \in Bad : ~(k < m)
  BY <1>1 DEF OpToRel, Bad
<1>3. m \in Nat /\ m \notin G /\ m # 0
  BY DEF Bad
<1>4. m - 1 \in Nat /\ m - 1 < m /\ (m - 1) + 1 = m
  BY <1>3
<1>5. m - 1 \in G
  BY <1>2, <1>4 DEF Bad
<1> QED
  BY <1>3, <1>4, <1>5

(* A step can be taken any number of times. *)
Repeats(X, x, F, n, g) ==
    g \in [0 .. n -> X] /\ g[0] = x /\ \A k \in 1 .. n : g[k] = F[g[k - 1]]

LEMMA Iterates ==
    ASSUME NEW X, NEW x \in X, NEW F \in [X -> X], NEW n \in Nat
    PROVE  \E g : Repeats(X, x, F, n, g)
<1> USE DEF Repeats
<1> DEFINE Run(m) == {g \in [0 .. m -> X] : g[0] = x /\ \A k \in 1 .. m : g[k] = F[g[k - 1]]}
           G == {m \in Nat : Run(m) # {}}
<1>1. 0 \in G
  <2>1. [k \in 0 .. 0 |-> x] \in Run(0)
    OBVIOUS
  <2> QED
    BY <2>1
<1>2. ASSUME NEW m \in Nat, m \in G PROVE m + 1 \in G
  <2>1. PICK g : g \in Run(m)
    BY <1>2
  <2> DEFINE h == [k \in 0 .. m + 1 |-> IF k = m + 1 THEN F[g[m]] ELSE g[k]]
  <2>2. g[m] \in X /\ F[g[m]] \in X
    BY <2>1
  <2>3. h \in [0 .. m + 1 -> X] /\ h[0] = x
    BY <2>1, <2>2
  <2>4. ASSUME NEW k \in 1 .. m + 1 PROVE h[k] = F[h[k - 1]]
    <3>1. CASE k = m + 1
      <4>1. h[k] = F[g[m]] /\ k - 1 = m /\ h[m] = g[m]
        BY <3>1
      <4> QED
        BY <4>1
    <3>2. CASE k # m + 1
      <4>1. k \in 1 .. m /\ k - 1 \in 0 .. m
        BY <3>2
      <4>2. h[k] = g[k] /\ h[k - 1] = g[k - 1]
        BY <4>1
      <4> QED
        BY <2>1, <4>1, <4>2
    <3> QED
      BY <3>1, <3>2
  <2> HIDE DEF h
  <2>5. h \in Run(m + 1)
    BY <2>3, <2>4
  <2> QED
    BY <2>5
<1> HIDE DEF G
<1>3. n \in G
  BY <1>1, <1>2, Inductive
<1> QED
  BY <1>3 DEF G

\* up goes from B along D, as often as there are names; A is where that leads.
Chain(B, D, up) ==
    /\ up[0] = B
    /\ \A k \in 1 .. Cardinality(Names) : up[k] = up[k - 1] \cup UNION {D[u] : u \in up[k - 1]}
Upstream(B, D, A) ==
    /\ A \in SUBSET Names /\ B \subseteq A
    /\ \A u \in A : D[u] \subseteq A
    /\ \A S \in SUBSET Names : B \subseteq S /\ (\A u \in S : D[u] \subseteq S) => A \subseteq S

(* What only grows inside a finite set stands still after as many steps as  *)
(* the set has elements: it then holds the first things and whatever they   *)
(* lead to, and nothing else.                                               *)
LEMMA Closes ==
    ASSUME NEW B \in SUBSET Names, NEW D \in [Names -> SUBSET Names], NEW up, Chain(B, D, up)
    PROVE  Upstream(B, D, up[Cardinality(Names)])
<1> USE DEF Chain
<1> DEFINE n == Cardinality(Names)
           More(S) == UNION {D[u] : u \in S}
           Good(k) == /\ up[k] \in SUBSET Names /\ B \subseteq up[k]
                      /\ (k <= Cardinality(up[k]) \/ More(up[k]) \subseteq up[k])
<1>1. n \in Nat /\ IsFiniteSet(Names)
  BY NamesAssumption, FS_CardinalityType
<1>2. \A S \in SUBSET Names : IsFiniteSet(S) /\ Cardinality(S) \in Nat /\ More(S) \in SUBSET Names
  BY <1>1, FS_Subset, FS_CardinalityType
<1>3. \A k \in Nat : k + 1 <= n => up[k + 1] = up[k] \cup More(up[k])
  <2>1. ASSUME NEW k \in Nat, k + 1 <= n PROVE up[k + 1] = up[k] \cup More(up[k])
    <3>1. k + 1 \in 1 .. n /\ (k + 1) - 1 = k
      BY <1>1, <2>1
    <3> QED
      BY <3>1
  <2> QED
    BY <2>1
<1>4. \A S \in SUBSET Names : Cardinality(S) <= n /\ (n = Cardinality(S) => Names = S)
  BY <1>1, FS_Subset
<1>5. ASSUME NEW S, NEW u \in S PROVE D[u] \subseteq More(S)
  OBVIOUS
<1> HIDE DEF n, More
<1>6. \A k \in Nat : k <= n => Good(k)
  <2> DEFINE G == {k \in Nat : k <= n => Good(k)}
  <2>1. 0 \in G
    BY <1>2
  <2>2. ASSUME NEW k \in Nat, k \in G PROVE k + 1 \in G
    <3> SUFFICES ASSUME k + 1 <= n PROVE Good(k + 1)
      OBVIOUS
    <3>1. Good(k)
      BY <1>1, <2>2
    <3>2. up[k + 1] = up[k] \cup More(up[k]) /\ More(up[k]) \in SUBSET Names
      BY <1>2, <1>3, <3>1
    <3>3. CASE More(up[k]) \subseteq up[k]
      <4>1. up[k + 1] = up[k]
        BY <3>2, <3>3
      <4> QED
        BY <3>1, <3>3, <4>1
    <3>4. CASE ~(More(up[k]) \subseteq up[k])
      <4>1. up[k + 1] \in SUBSET Names /\ up[k] \in SUBSET up[k + 1] /\ up[k] # up[k + 1]
        BY <3>1, <3>2, <3>4
      <4>2. /\ Cardinality(up[k]) <= Cardinality(up[k + 1])
            /\ Cardinality(up[k]) # Cardinality(up[k + 1])
        BY <1>2, <4>1, FS_Subset
      <4>3. Cardinality(up[k]) \in Nat /\ Cardinality(up[k + 1]) \in Nat
        BY <1>2, <3>1, <4>1
      <4>4. k + 1 <= Cardinality(up[k + 1])
        BY <3>1, <3>4, <4>2, <4>3
      <4> QED
        BY <3>1, <4>1, <4>4
    <3> QED
      BY <3>3, <3>4
  <2> HIDE DEF G
  <2>3. \A k \in Nat : k \in G
    BY <2>1, <2>2, Inductive
  <2> QED
    BY <2>3 DEF G
<1>7. Good(n)
  BY <1>1, <1>6
<1>8. More(up[n]) \subseteq up[n]
  <2>1. CASE n <= Cardinality(up[n])
    <3>1. Cardinality(up[n]) \in Nat /\ Cardinality(up[n]) <= n
      BY <1>7, <1>2, <1>4
    <3>2. up[n] = Names
      BY <1>1, <1>7, <1>4, <2>1, <3>1
    <3> QED
      BY <1>7, <1>2, <3>2
  <2> QED
    BY <1>7, <2>1
<1>9. ASSUME NEW S \in SUBSET Names, B \subseteq S, \A u \in S : D[u] \subseteq S
      PROVE  up[n] \subseteq S
  <2> DEFINE G == {k \in Nat : k <= n => up[k] \subseteq S}
  <2>1. 0 \in G
    BY <1>9
  <2>2. ASSUME NEW k \in Nat, k \in G PROVE k + 1 \in G
    <3> SUFFICES ASSUME k + 1 <= n PROVE up[k + 1] \subseteq S
      OBVIOUS
    <3>1. up[k] \subseteq S
      BY <1>1, <2>2
    <3>2. More(up[k]) \subseteq S
      BY <1>9, <3>1 DEF More
    <3> QED
      BY <1>3, <3>1, <3>2
  <2> HIDE DEF G
  <2>3. n \in G
    BY <1>1, <2>1, <2>2, Inductive
  <2> QED
    BY <1>1, <2>3 DEF G
<1>10. \A u \in up[n] : D[u] \subseteq up[n]
  BY <1>5, <1>8
<1> QED
  BY <1>7, <1>9, <1>10 DEF n, Upstream

(* The chain exists. *)
LEMMA Chains ==
    ASSUME NEW B \in SUBSET Names, NEW D \in [Names -> SUBSET Names]
    PROVE  \E up : Chain(B, D, up) /\ \A k \in 0 .. Cardinality(Names) : up[k] \in SUBSET Names
<1> DEFINE X == SUBSET Names
           H == [S \in X |-> S \cup UNION {D[u] : u \in S}]
           n == Cardinality(Names)
<1>1. n \in Nat
  BY NamesAssumption, FS_CardinalityType
<1>2. H \in [X -> X] /\ B \in X
  OBVIOUS
<1>3. \A S \in X : H[S] = S \cup UNION {D[u] : u \in S}
  OBVIOUS
<1> HIDE DEF H, n, X
<1>4. PICK up : Repeats(X, B, H, n, up)
  BY <1>1, <1>2, Iterates
<1>5. up \in [0 .. n -> X] /\ up[0] = B /\ \A k \in 1 .. n : up[k] = H[up[k - 1]]
  BY <1>4 DEF Repeats
<1>6. ASSUME NEW k \in 1 .. n PROVE up[k] = up[k - 1] \cup UNION {D[u] : u \in up[k - 1]}
  <2>1. k - 1 \in 0 .. n
    BY <1>1
  <2>2. up[k - 1] \in X
    BY <1>5, <2>1
  <2> QED
    BY <1>3, <1>5, <2>2
<1> QED
  BY <1>5, <1>6 DEF n, X, Chain

DepsOf(rows) == [u \in Names |-> rows[u].dependsOn]

(* RowAncestors: what a row waits for, and whatever that waits for.         *)
LEMMA RowAncestorsMeans ==
    ASSUME NEW rows \in [Names -> Row], NEW t \in Names
    PROVE  Upstream(rows[t].dependsOn, DepsOf(rows), RowAncestors(rows, t))
<1> DEFINE n == Cardinality(Names)
           Def(up) == up = [k \in 0 .. n |->
                IF k = 0 THEN rows[t].dependsOn
                ELSE up[k - 1] \cup UNION {rows[u].dependsOn : u \in up[k - 1]}]
           chain == CHOOSE up : Def(up)
           B == rows[t].dependsOn
           D == DepsOf(rows)
<1>1. n \in Nat
  BY NamesAssumption, FS_CardinalityType
<1>2. RowAncestors(rows, t) = chain[n]
  BY DEF RowAncestors
<1>3. /\ B \in SUBSET Names /\ D \in [Names -> SUBSET Names]
      /\ \A u \in Names : D[u] = rows[u].dependsOn
  BY DEF Row, DepsOf
<1> HIDE DEF n, B, D
<1>4. \E g : Def(g)
  <2>1. PICK g : Chain(B, D, g) /\ \A k \in 0 .. n : g[k] \in SUBSET Names
    BY <1>3, Chains DEF n
  <2> DEFINE h == [k \in 0 .. n |-> g[k]]
  <2>2. ASSUME NEW k \in 0 .. n
        PROVE  h[k] = IF k = 0 THEN rows[t].dependsOn
                      ELSE h[k - 1] \cup UNION {rows[u].dependsOn : u \in h[k - 1]}
    <3>1. CASE k = 0
      BY <2>1, <3>1 DEF B, Chain
    <3>2. CASE k # 0
      <4>1. k \in 1 .. n /\ k - 1 \in 0 .. n
        BY <1>1, <3>2
      <4>2. g[k - 1] \in SUBSET Names
        BY <2>1, <4>1
      <4>3. UNION {rows[u].dependsOn : u \in g[k - 1]} = UNION {D[u] : u \in g[k - 1]}
        BY <1>3, <4>2
      <4>4. g[k] = g[k - 1] \cup UNION {D[u] : u \in g[k - 1]}
        BY <2>1, <4>1 DEF Chain, n
      <4> QED
        BY <3>2, <4>1, <4>3, <4>4
    <3> QED
      BY <3>1, <3>2
  <2>3. h = [k \in 0 .. n |-> h[k]]
    OBVIOUS
  <2> HIDE DEF h
  <2>4. Def(h)
    BY <2>2, <2>3
  <2> QED
    BY <2>4
<1>5. Def(chain)
  BY <1>4
<1> HIDE DEF chain
<1>6. \A k \in 0 .. n : chain[k] = IF k = 0 THEN rows[t].dependsOn
                ELSE chain[k - 1] \cup UNION {rows[u].dependsOn : u \in chain[k - 1]}
  BY <1>5
<1> HIDE DEF Def
<1>7. chain[0] = B
  <2>1. 0 \in 0 .. n
    BY <1>1
  <2>2. chain[0] = IF 0 = 0 THEN rows[t].dependsOn
                   ELSE chain[0 - 1] \cup UNION {rows[u].dependsOn : u \in chain[0 - 1]}
    BY <1>6, <2>1
  <2> QED
    BY <2>2 DEF B
<1>8. \A k \in Nat : k <= n => chain[k] \in SUBSET Names
  <2> DEFINE G == {k \in Nat : k <= n => chain[k] \in SUBSET Names}
  <2>1. 0 \in G
    BY <1>3, <1>7
  <2>2. ASSUME NEW k \in Nat, k \in G PROVE k + 1 \in G
    <3> SUFFICES ASSUME k + 1 <= n PROVE chain[k + 1] \in SUBSET Names
      OBVIOUS
    <3>1. k + 1 \in 0 .. n /\ (k + 1) - 1 = k /\ k + 1 # 0
      BY <1>1
    <3>2. chain[k] \in SUBSET Names
      BY <1>1, <2>2
    <3>3. chain[k + 1] = chain[k] \cup UNION {rows[u].dependsOn : u \in chain[k]}
      BY <1>6, <3>1
    <3> QED
      BY <1>3, <3>2, <3>3
  <2> HIDE DEF G
  <2>3. \A k \in Nat : k \in G
    BY <2>1, <2>2, Inductive
  <2> QED
    BY <2>3 DEF G
<1>9. ASSUME NEW k \in 1 .. n PROVE chain[k] = chain[k - 1] \cup UNION {D[u] : u \in chain[k - 1]}
  <2>1. k - 1 \in Nat /\ k - 1 <= n /\ k \in 0 .. n /\ k # 0
    BY <1>1
  <2>2. chain[k - 1] \in SUBSET Names
    BY <1>8, <2>1
  <2>3. UNION {rows[u].dependsOn : u \in chain[k - 1]} = UNION {D[u] : u \in chain[k - 1]}
    BY <1>3, <2>2
  <2> QED
    BY <1>6, <2>1, <2>3
<1>10. Chain(B, D, chain)
  BY <1>9, <1>7 DEF Chain, n
<1>11. Upstream(B, D, chain[n])
  BY <1>3, <1>10, Closes DEF n
<1> QED
  BY <1>2, <1>11 DEF B, D

PlanDeps(p) == [u \in Names |-> IF u \in DOMAIN p THEN NormalizedDependsOn(p, u) ELSE {}]

(* Ancestors: the same, by the plan. *)
LEMMA AncestorsMeans ==
    ASSUME NEW p \in Plans \cup {NoPlan}, NEW t \in DOMAIN p
    PROVE  Upstream(NormalizedDependsOn(p, t), PlanDeps(p), Ancestors(p, t))
<1> DEFINE n == Cardinality(Names)
           Def(up) == up = [k \in 0 .. n |->
                IF k = 0 THEN NormalizedDependsOn(p, t)
                ELSE up[k - 1] \cup UNION {NormalizedDependsOn(p, u) : u \in up[k - 1] \cap DOMAIN p}]
           chain == CHOOSE up : Def(up)
           B == NormalizedDependsOn(p, t)
           D == PlanDeps(p)
<1>1. n \in Nat
  BY NamesAssumption, FS_CardinalityType
<1>2. Ancestors(p, t) = chain[n]
  BY DEF Ancestors
<1>3. /\ B \in SUBSET Names /\ D \in [Names -> SUBSET Names]
      /\ \A u \in Names : D[u] = IF u \in DOMAIN p THEN NormalizedDependsOn(p, u) ELSE {}
  BY PlanType DEF PlanDeps
<1>4. ASSUME NEW S \in SUBSET Names
      PROVE  UNION {NormalizedDependsOn(p, u) : u \in S \cap DOMAIN p} = UNION {D[u] : u \in S}
  BY <1>3
<1> HIDE DEF n, B, D
<1>5. \E g : Def(g)
  <2>1. PICK g : Chain(B, D, g) /\ \A k \in 0 .. n : g[k] \in SUBSET Names
    BY <1>3, Chains DEF n
  <2> DEFINE h == [k \in 0 .. n |-> g[k]]
  <2>2. ASSUME NEW k \in 0 .. n
        PROVE  h[k] = IF k = 0 THEN NormalizedDependsOn(p, t)
                      ELSE h[k - 1] \cup UNION {NormalizedDependsOn(p, u) : u \in h[k - 1] \cap DOMAIN p}
    <3>1. CASE k = 0
      BY <2>1, <3>1 DEF B, Chain
    <3>2. CASE k # 0
      <4>1. k \in 1 .. n /\ k - 1 \in 0 .. n
        BY <1>1, <3>2
      <4>2. g[k - 1] \in SUBSET Names
        BY <2>1, <4>1
      <4>3. UNION {NormalizedDependsOn(p, u) : u \in g[k - 1] \cap DOMAIN p} = UNION {D[u] : u \in g[k - 1]}
        BY <1>3, <4>2
      <4>4. g[k] = g[k - 1] \cup UNION {D[u] : u \in g[k - 1]}
        BY <2>1, <4>1 DEF Chain, n
      <4> QED
        BY <3>2, <4>1, <4>3, <4>4
    <3> QED
      BY <3>1, <3>2
  <2>3. h = [k \in 0 .. n |-> h[k]]
    OBVIOUS
  <2> HIDE DEF h
  <2>4. Def(h)
    BY <2>2, <2>3
  <2> QED
    BY <2>4
<1>6. Def(chain)
  BY <1>5
<1> HIDE DEF chain
<1>7. \A k \in 0 .. n : chain[k] = IF k = 0 THEN NormalizedDependsOn(p, t)
                ELSE chain[k - 1] \cup UNION {NormalizedDependsOn(p, u) : u \in chain[k - 1] \cap DOMAIN p}
  BY <1>6
<1> HIDE DEF Def
<1>8. chain[0] = B
  <2>1. 0 \in 0 .. n
    BY <1>1
  <2>2. chain[0] = IF 0 = 0 THEN NormalizedDependsOn(p, t)
                   ELSE chain[0 - 1] \cup UNION {NormalizedDependsOn(p, u) : u \in chain[0 - 1] \cap DOMAIN p}
    BY <1>7, <2>1
  <2> QED
    BY <2>2 DEF B
<1>9. \A k \in Nat : k <= n => chain[k] \in SUBSET Names
  <2> DEFINE G == {k \in Nat : k <= n => chain[k] \in SUBSET Names}
  <2>1. 0 \in G
    BY <1>3, <1>8
  <2>2. ASSUME NEW k \in Nat, k \in G PROVE k + 1 \in G
    <3> SUFFICES ASSUME k + 1 <= n PROVE chain[k + 1] \in SUBSET Names
      OBVIOUS
    <3>1. k + 1 \in 0 .. n /\ (k + 1) - 1 = k /\ k + 1 # 0
      BY <1>1
    <3>2. chain[k] \in SUBSET Names
      BY <1>1, <2>2
    <3>3. chain[k + 1] = chain[k] \cup UNION {NormalizedDependsOn(p, u) : u \in chain[k] \cap DOMAIN p}
      BY <1>7, <3>1
    <3> QED
      BY <1>3, <3>2, <3>3
  <2> HIDE DEF G
  <2>3. \A k \in Nat : k \in G
    BY <2>1, <2>2, Inductive
  <2> QED
    BY <2>3 DEF G
<1>10. ASSUME NEW k \in 1 .. n PROVE chain[k] = chain[k - 1] \cup UNION {D[u] : u \in chain[k - 1]}
  <2>1. k - 1 \in Nat /\ k - 1 <= n /\ k \in 0 .. n /\ k # 0
    BY <1>1
  <2>2. chain[k - 1] \in SUBSET Names
    BY <1>9, <2>1
  <2>3. UNION {NormalizedDependsOn(p, u) : u \in chain[k - 1] \cap DOMAIN p} = UNION {D[u] : u \in chain[k - 1]}
    BY <1>3, <2>2
  <2> QED
    BY <1>7, <2>1, <2>3
<1>11. Chain(B, D, chain)
  BY <1>10, <1>8 DEF Chain, n
<1>12. Upstream(B, D, chain[n])
  BY <1>3, <1>11, Closes DEF n
<1> QED
  BY <1>2, <1>12 DEF B, D

\* visit, by the depth k that is left: none at none; else a task that depends on
\* nothing failed or missing, each handed off or one that could be spawned.
Visits(rows, n, v) ==
    /\ v[0] = {}
    /\ \A k \in Nat : k + 1 <= n => v[k + 1] = {t \in Names : \A d \in rows[t].dependsOn :
                    /\ rows[d].status \notin Failed \cup {"absent"}
                    /\ rows[d].status = "handed-off" \/ d \in v[k]}

LEMMA VisitMeans ==
    ASSUME NEW rows \in [Names -> Row]
    PROVE  \E v : /\ Visits(rows, Cardinality(Names), v)
                  /\ CouldStillSpawn(rows) =
                        With(rows, "pending") \cap DOMAIN planned \cap v[Cardinality(Names)]
<1> DEFINE n == Cardinality(Names)
           X == SUBSET Names
           H == [S \in X |-> {t \in Names : \A d \in rows[t].dependsOn :
                    /\ rows[d].status \notin Failed \cup {"absent"}
                    /\ rows[d].status = "handed-off" \/ d \in S}]
           Def(visit) == visit = [k \in 0 .. n |->
            IF k = 0 THEN {}
            ELSE {t \in Names : \A d \in rows[t].dependsOn :
                    /\ rows[d].status \notin Failed \cup {"absent"}
                    /\ rows[d].status = "handed-off" \/ d \in visit[k - 1]}]
           visit == CHOOSE visit : Def(visit)
<1>1. n \in Nat
  BY NamesAssumption, FS_CardinalityType
<1>2. CouldStillSpawn(rows) = With(rows, "pending") \cap DOMAIN planned \cap visit[n]
  BY DEF CouldStillSpawn
<1>3. H \in [X -> X] /\ {} \in X
  OBVIOUS
<1>4. \A S \in X : H[S] = {t \in Names : \A d \in rows[t].dependsOn :
                    /\ rows[d].status \notin Failed \cup {"absent"}
                    /\ rows[d].status = "handed-off" \/ d \in S}
  OBVIOUS
<1> HIDE DEF n, H, X
<1>5. PICK g : Repeats(X, {}, H, n, g)
  BY <1>1, <1>3, Iterates
<1>6. g \in [0 .. n -> X] /\ g[0] = {} /\ \A k \in 1 .. n : g[k] = H[g[k - 1]]
  BY <1>5 DEF Repeats
<1>7. Def(g)
  <2>1. ASSUME NEW k \in 0 .. n
        PROVE  g[k] = IF k = 0 THEN {} ELSE {t \in Names : \A d \in rows[t].dependsOn :
                    /\ rows[d].status \notin Failed \cup {"absent"}
                    /\ rows[d].status = "handed-off" \/ d \in g[k - 1]}
    <3>1. CASE k = 0
      BY <1>6, <3>1
    <3>2. CASE k # 0
      <4>1. k \in 1 .. n /\ k - 1 \in 0 .. n
        BY <1>1, <3>2
      <4>2. g[k - 1] \in X
        BY <1>6, <4>1
      <4>3. g[k] = H[g[k - 1]]
        BY <1>6, <4>1
      <4> QED
        BY <1>4, <3>2, <4>2, <4>3
    <3> QED
      BY <3>1, <3>2
  <2> DEFINE R == [k \in 0 .. n |->
            IF k = 0 THEN {}
            ELSE {t \in Names : \A d \in rows[t].dependsOn :
                    /\ rows[d].status \notin Failed \cup {"absent"}
                    /\ rows[d].status = "handed-off" \/ d \in g[k - 1]}]
  <2>2. \A k \in 0 .. n : g[k] = R[k]
    BY <2>1
  <2>3. DOMAIN g = 0 .. n /\ DOMAIN R = 0 .. n
    BY <1>6
  <2>4. R = [k \in 0 .. n |-> R[k]]
    OBVIOUS
  <2> HIDE DEF R
  <2>5. g = R
    BY <1>6, <2>2, <2>4
  <2> QED
    BY <2>5 DEF R
<1>8. Def(visit)
  BY <1>7
<1> HIDE DEF visit
<1>9. visit[0] = {}
  <2>1. 0 \in 0 .. n
    BY <1>1
  <2> QED
    BY <1>8, <2>1
<1>10. ASSUME NEW k \in Nat, k + 1 <= n
      PROVE  visit[k + 1] = {t \in Names : \A d \in rows[t].dependsOn :
                    /\ rows[d].status \notin Failed \cup {"absent"}
                    /\ rows[d].status = "handed-off" \/ d \in visit[k]}
  <2>1. k + 1 \in 0 .. n /\ k + 1 # 0 /\ (k + 1) - 1 = k
    BY <1>1, <1>10
  <2>2. visit[k + 1] = {t \in Names : \A d \in rows[t].dependsOn :
                    /\ rows[d].status \notin Failed \cup {"absent"}
                    /\ rows[d].status = "handed-off" \/ d \in visit[(k + 1) - 1]}
    BY <1>8, <2>1
  <2> QED
    BY <2>1, <2>2
<1>11. Visits(rows, n, visit)
  BY <1>9, <1>10 DEF Visits
<1> QED
  BY <1>2, <1>11 DEF n

(* A set that lacks one more is smaller. *)
LEMMA Smaller ==
    ASSUME NEW A \in SUBSET Names, NEW B \in SUBSET A, NEW x \in A \ B
    PROVE  Cardinality(A) \in Nat /\ Cardinality(B) \in Nat /\ Cardinality(B) < Cardinality(A)
<1>1. IsFiniteSet(A)
  BY NamesAssumption, FS_Subset
<1>2. IsFiniteSet(B) /\ Cardinality(B) <= Cardinality(A)
      /\ (Cardinality(A) = Cardinality(B) => A = B)
  BY <1>1, FS_Subset
<1>3. Cardinality(A) \in Nat /\ Cardinality(B) \in Nat
  BY <1>1, <1>2, FS_CardinalityType
<1>4. A # B
  OBVIOUS
<1> QED
  BY <1>2, <1>3, <1>4

(* What a task of a valid plan depends on has fewer ancestors. *)
LEMMA AncestorsShrink ==
    ASSUME NEW p \in Plans, ValidPlan(p), NEW x \in DOMAIN p, NEW d \in NormalizedDependsOn(p, x)
    PROVE  /\ d \in DOMAIN p
           /\ Cardinality(Ancestors(p, x)) \in Nat /\ Cardinality(Ancestors(p, d)) \in Nat
           /\ Cardinality(Ancestors(p, d)) < Cardinality(Ancestors(p, x))
<1> DEFINE D == PlanDeps(p)
<1>1. d \in DOMAIN p /\ d \notin Ancestors(p, d) /\ DOMAIN p \subseteq Names
  BY PlanType DEF ValidPlan
<1>2. D[d] = NormalizedDependsOn(p, d)
  BY <1>1 DEF PlanDeps
<1> HIDE DEF D
<1>3. Upstream(NormalizedDependsOn(p, x), D, Ancestors(p, x))
  BY AncestorsMeans DEF D
<1>4. Upstream(D[d], D, Ancestors(p, d))
  BY <1>1, <1>2, AncestorsMeans DEF D
<1>5. Ancestors(p, x) \in SUBSET Names /\ d \in Ancestors(p, x)
      /\ \A u \in Ancestors(p, x) : D[u] \subseteq Ancestors(p, x)
  BY <1>3 DEF Upstream
<1>6. Ancestors(p, d) \subseteq Ancestors(p, x)
  BY <1>4, <1>5 DEF Upstream
<1> QED
  BY <1>1, <1>5, <1>6, Smaller

(* The rows of a plan that stands as it was validated: where no progress can be *)
(* made, whatever is pending has a failed or missing task upstream.             *)
LEMMA NoProgressHasReason ==
    ASSUME planned \in Plans, ValidPlan(planned), NEW rows \in [Names -> Row],
           \A x \in DOMAIN planned : rows[x].status = "pending" =>
                rows[x].dependsOn = NormalizedDependsOn(planned, x),
           ~CanMakeProgress(rows), NEW t \in DOMAIN planned, rows[t].status = "pending"
    PROVE  \E u \in RowAncestors(rows, t) : rows[u].status \in Failed \cup {"absent"}
<1> SUFFICES ASSUME \A u \in RowAncestors(rows, t) : rows[u].status \notin Failed \cup {"absent"}
             PROVE  FALSE
  OBVIOUS
<1> DEFINE n == Cardinality(Names)
           A == RowAncestors(rows, t)
           Size(x) == Cardinality(Ancestors(planned, x))
<1>1. PICK v : /\ Visits(rows, n, v)
               /\ CouldStillSpawn(rows) = With(rows, "pending") \cap DOMAIN planned \cap v[n]
  BY VisitMeans
<1>2. DOMAIN planned \subseteq Names /\ n \in Nat /\ planned \in Plans \cup {NoPlan}
  BY NamesAssumption, FS_CardinalityType, PlanType
<1>3. \A u \in Names : rows[u].status # "running"
  BY DEF CanMakeProgress, With
<1>4. A \in SUBSET Names /\ \A x \in A \cup {t} : rows[x].dependsOn \subseteq A
  BY <1>2, RowAncestorsMeans DEF Upstream, DepsOf
<1> HIDE DEF A
<1>5. \A u \in A : rows[u].status \in {"pending", "handed-off"}
  BY <1>3, <1>4 DEF A, Row, Statuses, Failed
<1>6. \A x \in DOMAIN planned : \A d \in NormalizedDependsOn(planned, x) :
        d \in DOMAIN planned /\ Size(x) \in Nat /\ Size(d) \in Nat /\ Size(d) < Size(x)
  BY AncestorsShrink
<1>7. Size(t) \in Nat /\ Size(t) < n
  <2>1. t \in Names /\ t \notin Ancestors(planned, t) /\ Ancestors(planned, t) \in SUBSET Names
    BY <1>2, AncestorsMeans DEF ValidPlan, Upstream
  <2> QED
    BY <2>1, Smaller
<1> DEFINE Spawnable(k) == \A x \in (A \cup {t}) \cap DOMAIN planned :
                rows[x].status = "pending" /\ Size(x) \in Nat /\ Size(x) < k => x \in v[k]
           G == {k \in Nat : k <= n => Spawnable(k)}
<1> HIDE DEF Size, n
<1>8. 0 \in G
  BY <1>2
<1>9. ASSUME NEW k \in Nat, k \in G PROVE k + 1 \in G
  <2> SUFFICES ASSUME k + 1 <= n, NEW x \in (A \cup {t}) \cap DOMAIN planned,
                      rows[x].status = "pending", Size(x) \in Nat, Size(x) < k + 1
               PROVE  x \in v[k + 1]
    OBVIOUS
  <2>1. Spawnable(k)
    BY <1>2, <1>9
  <2> HIDE DEF G
  <2>2. v[k + 1] = {y \in Names : \A d \in rows[y].dependsOn :
                    /\ rows[d].status \notin Failed \cup {"absent"}
                    /\ rows[d].status = "handed-off" \/ d \in v[k]}
    BY <1>1 DEF Visits
  <2>3. ASSUME NEW d \in rows[x].dependsOn
        PROVE  /\ rows[d].status \notin Failed \cup {"absent"}
               /\ rows[d].status = "handed-off" \/ d \in v[k]
    <3>1. d \in A /\ d \in NormalizedDependsOn(planned, x)
      BY <1>4, <2>3
    <3>2. d \in DOMAIN planned /\ Size(d) \in Nat /\ Size(d) < Size(x)
      BY <1>6, <3>1
    <3>3. Size(d) < k
      BY <3>2
    <3>4. rows[d].status = "pending" => d \in v[k]
      BY <2>1, <3>1, <3>2, <3>3
    <3> QED
      BY <1>5, <3>1, <3>4 DEF A, Failed
  <2> QED
    BY <1>2, <2>2, <2>3
<1> HIDE DEF G
<1>10. n \in G
  BY <1>2, <1>8, <1>9, Inductive
<1>11. t \in v[n]
  BY <1>2, <1>7, <1>10 DEF G
<1> QED
  BY <1>1, <1>2, <1>11 DEF CanMakeProgress, With

(* RowAncestors depends on dependsOn alone. *)
LEMMA RowAncestorsSame ==
    ASSUME NEW rows \in [Names -> Row], NEW later \in [Names -> Row], NEW t \in Names,
           \A u \in Names : later[u].dependsOn = rows[u].dependsOn
    PROVE  RowAncestors(later, t) = RowAncestors(rows, t)
<1>1. DepsOf(later) = DepsOf(rows)
  BY DEF DepsOf
<1>2. Upstream(rows[t].dependsOn, DepsOf(rows), RowAncestors(rows, t))
  BY RowAncestorsMeans
<1>3. Upstream(rows[t].dependsOn, DepsOf(rows), RowAncestors(later, t))
  BY <1>1, RowAncestorsMeans
<1>4. ASSUME NEW A, NEW B, Upstream(rows[t].dependsOn, DepsOf(rows), A),
             Upstream(rows[t].dependsOn, DepsOf(rows), B)
      PROVE  A \subseteq B
  BY <1>4 DEF Upstream
<1>5. RowAncestors(rows, t) \subseteq RowAncestors(later, t)
  BY <1>2, <1>3, <1>4
<1>6. RowAncestors(later, t) \subseteq RowAncestors(rows, t)
  BY <1>2, <1>3, <1>4
<1> QED
  BY <1>5, <1>6

\* Each pending task of the plan has a failed or missing task upstream.
Blocked(rows, p) == \A t \in With(rows, "pending") \cap DOMAIN p :
    \E u \in RowAncestors(rows, t) : rows[u].status \in Failed \cup {"absent"}

\* A loop that is up goes by a valid plan, and its pending tasks wait for what
\* the plan says; one that settles has nothing running, and a reason to.
ReasonInv ==
    /\ Up("loop") =>
        /\ planned \in Plans /\ ValidPlan(planned)
        /\ \A t \in DOMAIN planned : L.rows[t].status = "pending" =>
              L.rows[t].dependsOn = NormalizedDependsOn(planned, t)
    /\ LoopAt("settle") => With(L.rows, "running") = {} /\ Blocked(L.rows, planned)

\* What the loop does to its rows: none becomes pending, none waits for others.
Lingers == UNCHANGED planned /\ \A t \in Names :
    /\ L'.rows[t].dependsOn = L.rows[t].dependsOn
    /\ L'.rows[t].status = "pending" => L.rows[t].status = "pending"

LEMMA ReasonKept ==
    ASSUME Typed, Typed', ReasonInv, Up("loop"), Lingers,
           LoopAt("settle")' => SameStatus /\ (LoopAt("settle") \/ ~CanMakeProgress(L.rows))
    PROVE  ReasonInv'
<1>1. DOMAIN planned \subseteq Names /\ L.rows \in [Names -> Row] /\ L'.rows \in [Names -> Row]
  <2>1. L \in State /\ L' \in State
    BY DEF Typed, StatesOK, Procs, L
  <2> QED
    BY <2>1, PlanType DEF State, Typed, WorldOK
<1>2. /\ planned' \in Plans /\ ValidPlan(planned')
      /\ \A t \in DOMAIN planned' : L'.rows[t].status = "pending" =>
              L'.rows[t].dependsOn = NormalizedDependsOn(planned', t)
  BY <1>1 DEF ReasonInv, Lingers
<1>3. ASSUME LoopAt("settle")'
      PROVE  With(L'.rows, "running") = {} /\ Blocked(L'.rows, planned')
  <2>1. \A t \in Names : L'.rows[t].status = L.rows[t].status
    BY <1>3 DEF SameStatus
  <2>2. With(L.rows, "running") = {} /\ Blocked(L.rows, planned)
    <3>1. CASE LoopAt("settle")
      BY <3>1 DEF ReasonInv
    <3>2. CASE ~CanMakeProgress(L.rows)
      <4>1. With(L.rows, "running") = {}
        BY <3>2 DEF CanMakeProgress
      <4>2. Blocked(L.rows, planned)
        BY <1>1, <3>2, NoProgressHasReason DEF ReasonInv, Blocked, With
      <4> QED
        BY <4>1, <4>2
    <3> QED
      BY <1>3, <3>1, <3>2
  <2>3. With(L'.rows, "running") = {}
    BY <2>1, <2>2 DEF With
  <2>4. ASSUME NEW t \in With(L'.rows, "pending") \cap DOMAIN planned
        PROVE  \E u \in RowAncestors(L'.rows, t) : L'.rows[u].status \in Failed \cup {"absent"}
    <3>1. t \in With(L.rows, "pending") /\ t \in Names
      BY <2>1 DEF With
    <3>2. RowAncestors(L'.rows, t) = RowAncestors(L.rows, t)
      BY <1>1, <3>1, RowAncestorsSame DEF Lingers
    <3>3. PICK u \in RowAncestors(L.rows, t) : L.rows[u].status \in Failed \cup {"absent"}
      BY <2>2, <2>4, <3>1 DEF Blocked
    <3>4. u \in Names
      BY <1>1, <3>1, RowAncestorsMeans DEF Upstream
    <3> QED
      BY <2>1, <3>2, <3>3, <3>4
  <2> QED
    BY <2>3, <2>4 DEF Blocked, Lingers
<1> QED
  BY <1>2, <1>3 DEF ReasonInv

LEMMA NothingLingers ==
    ASSUME Typed, UNCHANGED planned,
           UNCHANGED mem \/ Save("loop", L) \/ \E s : mem' = [mem EXCEPT !["command"] = s]
    PROVE  Lingers /\ SameStatus /\ L' = L
<1>1. mem'["loop"] = mem["loop"]
  BY DEF Save, L, Typed, StatesOK, Procs
<1> QED
  BY <1>1 DEF SameStatus, Lingers, L

LEMMA RowLingers ==
    ASSUME Typed, UNCHANGED planned, NEW t \in Names, NEW row,
           mem' = [mem EXCEPT !["loop"] = [L EXCEPT !.rows[t] = row]],
           row.dependsOn = L.rows[t].dependsOn,
           row.status = "pending" => L.rows[t].status = "pending"
    PROVE  Lingers
<1>1. L'.rows[t] = row /\ \A u \in Names \ {t} : L'.rows[u] = L.rows[u]
  BY TouchedStatus
<1> QED
  BY <1>1 DEF Lingers

(* Waiting. *)
LEMMA WaitingLingers ==
    ASSUME Typed, NEW t \in Names, Waiting(t)
    PROVE  Lingers /\ UNCHANGED ctl /\ wait[t].pc # "none" /\ (SameStatus \/ wait[t].pc \in Watch)
<1>1. UNCHANGED <<planned, ctl>> /\ wait[t].pc # "none"
  BY DEF Waiting, WaitReturns, WaitReturnsError, WaitThrows, ProbeSaysRunning, ProbeSaysEnded,
     ProbeFails, CommitHandoff, FinishWait, AtWait
<1>2. L \in State /\ L.rows[t] \in Row
  BY Awaited
<1>3. CASE WaitReturns(t) \/ ProbeSaysEnded(t) \/ ProbeFails(t)
  <2> DEFINE branch == ResolveRunBranch(t, wait[t].run)
             row == [L.rows[t] EXCEPT !.branch = branch]
  <2>1. mem' = [mem EXCEPT !["loop"] = [L EXCEPT !.rows[t] = row]] /\ wait[t].pc \in Watch
    BY <1>3 DEF WaitReturns, ProbeSaysEnded, ProbeFails, WriteHandoff, AtWait, Watch, L
  <2> HIDE DEF branch
  <2>2. row.status = L.rows[t].status /\ row.dependsOn = L.rows[t].dependsOn
    BY <1>2 DEF Row
  <2> HIDE DEF row
  <2> QED
    BY <1>1, <2>1, <2>2, RowLingers
<1>4. CASE WaitReturnsError(t) \/ ProbeSaysRunning(t)
  <2>1. UNCHANGED mem \/ Save("loop", L)
    BY <1>4 DEF WaitReturnsError, ProbeSaysRunning, LogAttention, L
  <2> QED
    BY <1>1, <2>1, NothingLingers
<1>5. CASE WaitThrows(t)
  <2> DEFINE row == [L.rows[t] EXCEPT !.status = "error"]
  <2>1. mem' = [mem EXCEPT !["loop"] = [L EXCEPT !.rows[t] = row]] /\ wait[t].pc \in Watch
    BY <1>5 DEF WaitThrows, Touch, Save, L, Watch
  <2>2. row.status = "error" /\ row.dependsOn = L.rows[t].dependsOn
    BY <1>2 DEF Row
  <2> HIDE DEF row
  <2> QED
    BY <1>1, <2>1, <2>2, RowLingers
<1>6. CASE CommitHandoff(t)
  <2> DEFINE status == IF wait[t].end = "finished" THEN "handed-off" ELSE "error"
             row == [L.rows[t] EXCEPT !.status = status, !.branch = wait[t].branch, !.path = TRUE]
  <2>1. mem' = [mem EXCEPT !["loop"] = [L EXCEPT !.rows[t] = row]] /\ wait[t].pc \in Watch
    BY <1>6 DEF CommitHandoff, Touch, Save, L, Watch
  <2>2. status # "pending"
    OBVIOUS
  <2> HIDE DEF status
  <2>3. row.status = status /\ row.dependsOn = L.rows[t].dependsOn
    BY <1>2 DEF Row
  <2> HIDE DEF row
  <2> QED
    BY <1>1, <2>1, <2>2, <2>3, RowLingers
<1>7. CASE FinishWait(t)
  <2> DEFINE refs == ReconcileVerifierRefs(L.rows, planned, {t})
             rows == IF wait[t].end = "finished" THEN refs ELSE L.rows
             s == [L EXCEPT !.rows = rows]
  <2>1. Save("loop", s) \/ UNCHANGED mem
    BY <1>7 DEF FinishWait, Measured
  <2>2. L \in State /\ L.rows \in [Names -> Row]
    BY Awaited DEF State
  <2>3. rows \in [Names -> Row] /\ \A u \in Names :
            rows[u].status = L.rows[u].status /\ rows[u].dependsOn = L.rows[u].dependsOn
    BY <2>2, VerifierRefsType, VerifierRefs
  <2> HIDE DEF rows
  <2>4. s.rows = rows
    BY <2>2, <2>3, RowsChanged
  <2> HIDE DEF s
  <2>5. L' = s \/ L' = L
    BY <2>1 DEF Save, L, Typed, StatesOK, Procs
  <2> QED
    BY <1>1, <2>3, <2>4, <2>5 DEF SameStatus, Lingers
<1> QED
  BY <1>1, <1>3, <1>4, <1>5, <1>6, <1>7 DEF Waiting

(* Spawning: the row in hand is counted, runs, is given its ids or fails. *)
LEMMA AttemptLingers ==
    ASSUME Typed, UNCHANGED planned, NEW t \in Names, NEW row \in Row, NEW c \in Control,
           Attempt("loop", t, row, c),
           row.dependsOn = L.rows[t].dependsOn,
           row.status = "pending" => L.rows[t].status = "pending"
    PROVE  Lingers /\ ctl'["loop"].pc = "create"
<1> DEFINE ref == StartingRefForTask([mem["loop"].rows EXCEPT ![t] = row], t)
           sent == [row EXCEPT !.startingRef = ref]
           create == [c EXCEPT !.pc = "create", !.task = t, !.try = c.try + 1]
<1>1. /\ \E r \in {row, sent} : mem' = [mem EXCEPT !["loop"] = [L EXCEPT !.rows[t] = r]]
      /\ ctl' = [ctl EXCEPT !["loop"] = create]
  BY DEF Attempt, Touch, Save, Goto, L
<1>2. sent.status = row.status /\ sent.dependsOn = row.dependsOn
  BY DEF Row
<1>3. create.pc = "create"
  BY DEF Control
<1> HIDE DEF sent, create
<1>4. PICK r \in {row, sent} : mem' = [mem EXCEPT !["loop"] = [L EXCEPT !.rows[t] = r]]
  BY <1>1
<1>5. r.status = row.status /\ r.dependsOn = row.dependsOn
  BY <1>2
<1>6. ctl'["loop"].pc = "create"
  BY <1>1, <1>3 DEF Typed, CtlOK, Procs
<1>7. Lingers
  BY <1>4, <1>5, RowLingers
<1> QED
  BY <1>6, <1>7

LEMMA FailedTryLingers ==
    ASSUME Typed, UNCHANGED planned, ctl["loop"].pc \in {"create", "send"}, NEW row \in Row,
           AttemptFails("loop", row),
           row.dependsOn = L.rows[ctl["loop"].task].dependsOn,
           row.status = "pending" => L.rows[ctl["loop"].task].status = "pending"
    PROVE  Lingers /\ ctl'["loop"].pc \in {"backoff", "scan"}
<1> DEFINE t == ctl["loop"].task
           error == [row EXCEPT !.status = "error"]
           back == [ctl["loop"] EXCEPT !.pc = "backoff", !.agent = 0]
           scan == [ctl["loop"] EXCEPT !.pc = "scan", !.task = NoTask, !.try = 0, !.agent = 0]
<1>1. t \in Names /\ ctl["loop"] \in Control
  BY DEF Typed, CtlOK, AtHand, Procs
<1>2. error.status = "error" /\ error.dependsOn = row.dependsOn
  BY DEF Row
<1>3. back.pc = "backoff" /\ scan.pc = "scan"
  BY <1>1 DEF Control
<1> HIDE DEF error
<1>4. \E r \in {row, error}, c \in {back, scan} :
          /\ mem' = [mem EXCEPT !["loop"] = [L EXCEPT !.rows[t] = r]]
          /\ ctl' = [ctl EXCEPT !["loop"] = c]
  BY DEF AttemptFails, Touch, Save, Goto, L, error
<1> HIDE DEF back, scan
<1>5. PICK r \in {row, error}, c \in {back, scan} :
          /\ mem' = [mem EXCEPT !["loop"] = [L EXCEPT !.rows[t] = r]]
          /\ ctl' = [ctl EXCEPT !["loop"] = c]
  BY <1>4
<1>6. r.dependsOn = L.rows[t].dependsOn /\ (r.status = "pending" => L.rows[t].status = "pending")
  BY <1>2
<1>7. Lingers
  BY <1>1, <1>5, <1>6, RowLingers
<1>8. ctl'["loop"] = c
  BY <1>5 DEF Typed, CtlOK, Procs
<1> QED
  BY <1>3, <1>7, <1>8

LEMMA SpawningLingers ==
    ASSUME Typed, Spawning("loop")
    PROVE  Lingers /\ Up("loop") /\ ctl'["loop"].pc # "settle"
<1> DEFINE c == ctl["loop"]
           t == ctl["loop"].task
<1>1. /\ c \in Control /\ c.pc \in {"create", "send", "backoff"} /\ t \in Names /\ L.rows[t] \in Row
      /\ L = mem["loop"] /\ UNCHANGED planned
  <2>1. c.pc \in {"create", "send", "backoff"} /\ UNCHANGED planned
    BY DEF Spawning, CreateFails, CreateReturns, BackoffEnds, SendFails, SendReturns
  <2>2. c \in Control /\ t \in Names
    BY <2>1 DEF Typed, CtlOK, AtHand, Procs
  <2> QED
    BY <2>1, <2>2, Awaited DEF L
<1>2. Up("loop")
  BY <1>1 DEF Up
<1>3. CASE CreateFails("loop") \/ SendFails("loop")
  <2>1. AttemptFails("loop", L.rows[t]) /\ c.pc \in {"create", "send"}
    BY <1>3 DEF CreateFails, SendFails, L
  <2> QED
    BY <1>1, <1>2, <2>1, FailedTryLingers
<1>4. CASE CreateReturns("loop")
  <2> DEFINE row == [mem["loop"].rows[t] EXCEPT !.status = "running", !.run = 0]
             send == [ctl["loop"] EXCEPT !.pc = "send", !.agent = Len(cloud[t]) + 1]
  <2>1. row \in Row /\ row.status = "running" /\ row.dependsOn = L.rows[t].dependsOn
    BY <1>1 DEF Row, Statuses
  <2>2. send.pc = "send"
    BY <1>1 DEF Control
  <2>3. c.pc = "create" /\ (\/ AttemptFails("loop", row)
                            \/ /\ mem' = [mem EXCEPT !["loop"] = [L EXCEPT !.rows[t] = row]]
                               /\ ctl' = [ctl EXCEPT !["loop"] = send])
    BY <1>4 DEF CreateReturns, Touch, Save, Goto, L
  <2> HIDE DEF row, send
  <2>4. CASE AttemptFails("loop", row)
    BY <1>1, <1>2, <2>1, <2>3, <2>4, FailedTryLingers
  <2>5. CASE /\ mem' = [mem EXCEPT !["loop"] = [L EXCEPT !.rows[t] = row]]
             /\ ctl' = [ctl EXCEPT !["loop"] = send]
    <3>1. Lingers
      BY <1>1, <2>1, <2>5, RowLingers
    <3>2. ctl'["loop"] = send
      BY <2>5 DEF Typed, CtlOK, Procs
    <3> QED
      BY <1>2, <2>2, <3>1, <3>2
  <2> QED
    BY <2>3, <2>4, <2>5
<1>5. CASE BackoffEnds("loop")
  <2>1. Attempt("loop", t, L.rows[t], c)
    BY <1>5 DEF BackoffEnds, L
  <2> QED
    BY <1>1, <1>2, <2>1, AttemptLingers
<1>6. CASE SendReturns("loop")
  <2> DEFINE row == [mem["loop"].rows[t] EXCEPT !.run = ctl["loop"].agent]
             scan == [ctl["loop"] EXCEPT !.pc = "scan", !.task = NoTask, !.try = 0, !.agent = 0]
  <2>1. /\ mem' = [mem EXCEPT !["loop"] = [L EXCEPT !.rows[t] = row]]
        /\ ctl' = [ctl EXCEPT !["loop"] = scan]
    BY <1>6 DEF SendReturns, Goto, L
  <2>2. row.status = L.rows[t].status /\ row.dependsOn = L.rows[t].dependsOn
    BY <1>1 DEF Row
  <2>3. scan.pc = "scan"
    BY <1>1 DEF Control
  <2> HIDE DEF row, scan
  <2>4. Lingers
    BY <1>1, <2>1, <2>2, RowLingers
  <2>5. ctl'["loop"] = scan
    BY <2>1 DEF Typed, CtlOK, Procs
  <2> QED
    BY <1>2, <2>3, <2>4, <2>5
<1> QED
  BY <1>3, <1>4, <1>5, <1>6 DEF Spawning

(* The loop's own steps: it settles from where no progress can be made. *)
LEMMA ReconcilingLingers ==
    ASSUME Typed, Reconciling
    PROVE  /\ Up("loop")
           /\ Up("loop")' => Lingers
           /\ LoopAt("settle")' => SameStatus /\ ~CanMakeProgress(L.rows)
<1>1. Up("loop")
  BY DEF Reconciling, RecoverFails, RecoverReturns, Recovering, Scan, Recovered, PollReturns,
     PollFails, ScanEnds, Decide, Checkpoint, Wake, Settle, LoopAt, Up
<1>2. CASE \E how \in {"error", "checkpoint", "stuck", "done"} : Exit(how)
  <2>1. ctl'["loop"] = Idle
    BY <1>2 DEF Exit, Typed, CtlOK, Procs
  <2> QED
    BY <1>1, <2>1 DEF Idle, Up, LoopAt
<1>3. CASE \E t \in Names : RecoverFails(t) \/ RecoverReturns(t)
  <2>1. PICK t \in Names : RecoverFails(t) \/ RecoverReturns(t)
    BY <1>3
  <2> DEFINE less == [ctl["loop"] EXCEPT !.todo = ctl["loop"].todo \ {t}]
             row == [L.rows[t] EXCEPT !.status = "error"]
  <2>2. UNCHANGED planned /\ ctl["loop"].pc = "recover" /\ ctl' = [ctl EXCEPT !["loop"] = less]
    BY <2>1 DEF RecoverFails, RecoverReturns, Recovering, Goto, LoopAt
  <2>3. ctl'["loop"].pc = "recover"
    BY <2>2, LoopControl DEF Typed, CtlOK, Procs, Control
  <2>4. UNCHANGED mem \/ mem' = [mem EXCEPT !["loop"] = [L EXCEPT !.rows[t] = row]]
    BY <2>1 DEF RecoverFails, RecoverReturns, Touch, Save, L
  <2>5. row.status = "error" /\ row.dependsOn = L.rows[t].dependsOn
    BY Awaited DEF Row
  <2> HIDE DEF row
  <2>6. Lingers
    BY <2>2, <2>4, <2>5, RowLingers, NothingLingers
  <2> QED
    BY <1>1, <2>3, <2>6 DEF LoopAt
<1>4. CASE \E t \in Names : Scan(t)
  <2>1. PICK t \in Names : Scan(t)
    BY <1>4
  <2> DEFINE row == L.rows[t]
             error == [row EXCEPT !.status = "error"]
             next == [row EXCEPT !.attempts = row.attempts + 1]
             c == [ctl["loop"] EXCEPT !.todo = After(t)]
  <2>2. ctl["loop"].pc = "scan" /\ UNCHANGED planned /\ row \in Row
        /\ (\/ Touch("loop", t, error) /\ Goto("loop", c)
            \/ Attempt("loop", t, next, c))
    BY <2>1, Awaited DEF Scan, LoopAt
  <2>3. /\ error.status = "error" /\ error.dependsOn = row.dependsOn
        /\ next \in Row /\ next.status = row.status /\ next.dependsOn = row.dependsOn
    BY <2>2 DEF Row
  <2>4. c \in Control /\ c.pc = "scan"
    <3>1. After(t) \in SUBSET Names
      BY LoopControl DEF After
    <3> QED
      BY <2>2, <3>1, LoopControl
  <2> HIDE DEF error, next, c
  <2>5. CASE Touch("loop", t, error) /\ Goto("loop", c)
    <3>1. mem' = [mem EXCEPT !["loop"] = [L EXCEPT !.rows[t] = error]] /\ ctl'["loop"] = c
      BY <2>5 DEF Touch, Save, Goto, L, Typed, CtlOK, Procs
    <3>2. Lingers
      BY <2>2, <2>3, <3>1, RowLingers
    <3> QED
      BY <1>1, <2>4, <3>1, <3>2 DEF LoopAt
  <2>6. CASE Attempt("loop", t, next, c)
    BY <1>1, <2>2, <2>3, <2>4, <2>6, AttemptLingers DEF LoopAt
  <2> QED
    BY <2>2, <2>5, <2>6
<1>5. CASE /\ Recovered \/ Wake \/ ScanEnds
           /\ ~\E how \in {"error", "checkpoint", "stuck", "done"} : Exit(how)
  <2>1. UNCHANGED <<mem, planned>>
    BY <1>5 DEF Recovered, Wake, ScanEnds
  <2>2. \/ Goto("loop", [ctl["loop"] EXCEPT !.pc = "poll"])
        \/ Goto("loop", [ctl["loop"] EXCEPT !.pc = "decide", !.todo = {}])
    BY <1>5 DEF Recovered, Wake, ScanEnds
  <2>3. ctl'["loop"].pc \in {"poll", "decide"}
    <3>1. CASE Goto("loop", [ctl["loop"] EXCEPT !.pc = "poll"])
      BY <3>1, LoopControl DEF Goto, Typed, CtlOK, Procs
    <3>2. CASE Goto("loop", [ctl["loop"] EXCEPT !.pc = "decide", !.todo = {}])
      BY <3>2, LoopControl DEF Goto, Typed, CtlOK, Procs
    <3> QED
      BY <2>2, <3>1, <3>2
  <2> QED
    BY <1>1, <2>1, <2>3, NothingLingers DEF LoopAt
<1>6. CASE Decide /\ ~\E how \in {"error", "checkpoint", "stuck", "done"} : Exit(how)
  <2>1. /\ UNCHANGED <<mem, planned>>
        /\ Goto("loop", [ctl["loop"] EXCEPT !.pc =
                            IF CanMakeProgress(L.rows) THEN "sleep" ELSE "settle"])
    BY <1>6 DEF Decide
  <2>2. Lingers /\ SameStatus
    BY <2>1, NothingLingers
  <2>3. CASE CanMakeProgress(L.rows)
    <3>1. Goto("loop", [ctl["loop"] EXCEPT !.pc = "sleep"])
      BY <2>1, <2>3
    <3>2. ctl'["loop"].pc = "sleep"
      BY <3>1, LoopControl DEF Goto, Typed, CtlOK, Procs
    <3> QED
      BY <1>1, <2>2, <3>2 DEF LoopAt
  <2> QED
    BY <1>1, <2>2, <2>3
<1>7. CASE PollReturns \/ PollFails
  <2>1. (\E andon : StartSweep(andon)) /\ UNCHANGED planned
    BY <1>7 DEF PollReturns, PollFails
  <2>2. PICK d \in Control : d.pc \in {"decide", "scan"} /\ Goto("loop", d)
    BY <2>1, SweepStarts
  <2>3. ctl'["loop"].pc \in {"decide", "scan"}
    BY <2>2 DEF Goto, Typed, CtlOK, Procs
  <2>4. Save("loop", L) \/ UNCHANGED mem \/ Save("loop", [L EXCEPT !.andon = Snapshot])
    BY <1>7 DEF PollReturns, PollFails, LogAttention, L
  <2>5. CASE Save("loop", [L EXCEPT !.andon = Snapshot])
    <3>1. [L EXCEPT !.andon = Snapshot].rows = L.rows
      BY Awaited DEF State
    <3>2. L' = [L EXCEPT !.andon = Snapshot]
      BY <2>5 DEF Save, L, Typed, StatesOK, Procs
    <3>3. Lingers
      BY <2>1, <3>1, <3>2 DEF Lingers
    <3> QED
      BY <1>1, <2>3, <3>3 DEF LoopAt
  <2> QED
    BY <1>1, <2>1, <2>3, <2>4, <2>5, NothingLingers DEF LoopAt
<1>8. CASE Checkpoint \/ Settle
  <2>1. \E how \in {"error", "checkpoint", "stuck", "done"} : Exit(how)
    BY <1>8 DEF Checkpoint, Settle
  <2> QED
    BY <1>2, <2>1
<1> QED
  BY <1>2, <1>3, <1>4, <1>5, <1>6, <1>7, <1>8 DEF Reconciling

(* The plan read at the start is valid, and load brings the rows up to it. *)
LEMMA BootReasons == Typed /\ Boot => ReasonInv'
<1> SUFFICES ASSUME Typed, Boot PROVE ReasonInv'
  OBVIOUS
<1> DEFINE s == Loaded(disk, plan)
           c == [Idle EXCEPT !.pc = "recover", !.cmd = "run", !.todo = With(s.rows, "running"),
                             !.known = With(s.rows, "error")]
<1>1. /\ mem' = [mem EXCEPT !["loop"] = s] /\ Goto("loop", c) /\ planned' = plan /\ ValidPlan(plan)
  BY DEF Boot, Save
<1>2. c.pc = "recover"
  BY DEF Idle
<1>3. plan \in Plans /\ \A t \in DOMAIN plan : s.rows[t].status = "pending" =>
            s.rows[t].dependsOn = NormalizedDependsOn(plan, t)
  BY LoadedBranches DEF Typed, WorldOK
<1> HIDE DEF s, c
<1>4. L' = s /\ ctl'["loop"] = c
  BY <1>1 DEF L, Goto, Typed, StatesOK, CtlOK, Procs
<1> QED
  BY <1>1, <1>2, <1>3, <1>4 DEF ReasonInv, LoopAt

LEMMA NextReasons ==
    ASSUME Typed, WatchingNow, ReasonInv, [Next]_vars
    PROVE  ReasonInv'
<1>1. Typed'
  BY NextTyped
<1>2. CASE Boot
  BY <1>2, BootReasons
<1>3. CASE Reconciling
  <2>1. CASE Up("loop")'
    BY <1>1, <1>3, <2>1, ReconcilingLingers, ReasonKept
  <2>2. CASE ~Up("loop")'
    BY <2>2 DEF ReasonInv, Up, LoopAt
  <2> QED
    BY <2>1, <2>2
<1>4. CASE LoopDies
  <2>1. ctl'["loop"].pc = "off"
    BY <1>4 DEF LoopDies, Typed, CtlOK, Procs, Idle
  <2> QED
    BY <2>1 DEF ReasonInv, Up, LoopAt
<1>5. CASE Spawning("loop")
  BY <1>1, <1>5, SpawningLingers, ReasonKept DEF LoopAt
<1>6. CASE \E t \in Names : Waiting(t)
  <2>1. PICK t \in Names : Waiting(t)
    BY <1>6
  <2>2. Lingers /\ UNCHANGED ctl /\ wait[t].pc # "none" /\ (SameStatus \/ wait[t].pc \in Watch)
    BY <2>1, WaitingLingers
  <2>3. Up("loop") /\ (wait[t].pc \in Watch => L.rows[t].status = "running")
    BY <2>2, AwaitedRuns
  <2>4. LoopAt("settle") => SameStatus
    BY <2>2, <2>3 DEF ReasonInv, With
  <2>5. LoopAt("settle")' => LoopAt("settle")
    BY <2>2 DEF LoopAt
  <2> QED
    BY <1>1, <2>2, <2>3, <2>4, <2>5, ReasonKept
<1>7. ASSUME UNCHANGED planned, UNCHANGED mem \/ \E s : mem' = [mem EXCEPT !["command"] = s],
             UNCHANGED ctl \/ \E c : ctl' = [ctl EXCEPT !["command"] = c]
      PROVE  ReasonInv'
  <2>1. ctl'["loop"] = ctl["loop"]
    BY <1>7 DEF Typed, CtlOK, Procs
  <2>2. L' = L
    BY <1>7, NothingLingers
  <2> QED
    BY <1>7, <2>1, <2>2 DEF ReasonInv, Up, LoopAt
<1>8. CASE Operating
  <2>1. UNCHANGED planned
    BY <1>8 DEF Operating, SpawnCommand, CancelCommand, StopTask, RespawnCommand, KillCommand,
       StopEnds, CancelReturns, CancelFails, CommandDies, StartCommand
  <2>2. UNCHANGED mem \/ \E s : mem' = [mem EXCEPT !["command"] = s]
    BY <1>8 DEF Operating, SpawnCommand, CancelCommand, StopTask, RespawnCommand, KillCommand,
       StopEnds, CancelReturns, CancelFails, CommandDies, EndsWith, GoesOn, Save, Touch,
       EndCommand, NextVictim
  <2>3. UNCHANGED ctl \/ \E c : ctl' = [ctl EXCEPT !["command"] = c]
    BY <1>8 DEF Operating, SpawnCommand, CancelCommand, StopTask, RespawnCommand, KillCommand,
       StopEnds, CancelReturns, CancelFails, CommandDies, EndsWith, GoesOn, Goto,
       EndCommand, NextVictim
  <2> QED
    BY <1>7, <2>1, <2>2, <2>3
<1>9. CASE Spawning("command")
  <2>1. UNCHANGED planned
    BY <1>9 DEF Spawning, CreateFails, CreateReturns, BackoffEnds, SendFails, SendReturns
  <2>2. UNCHANGED mem \/ \E s : mem' = [mem EXCEPT !["command"] = s]
    BY <1>9 DEF Spawning, CreateFails, CreateReturns, BackoffEnds, SendFails, SendReturns,
       AttemptFails, Attempt, Touch, Save, EndCommand
  <2>3. UNCHANGED ctl \/ \E c : ctl' = [ctl EXCEPT !["command"] = c]
    BY <1>9 DEF Spawning, CreateFails, CreateReturns, BackoffEnds, SendFails, SendReturns,
       AttemptFails, Attempt, Goto, EndCommand
  <2> QED
    BY <1>7, <2>1, <2>2, <2>3
<1>10. CASE \E p \in Procs : Spawning(p) \/ RunStarts(p)
  <2>1. CASE \E p \in Procs : RunStarts(p)
    BY <1>7, <2>1 DEF RunStarts, procs
  <2> QED
    BY <1>5, <1>9, <1>10, <2>1 DEF Procs
<1>11. CASE \/ \E t \in Names : \E n \in DOMAIN cloud[t] :
                \E end \in {"finished", "error"}, branch \in Pushes[t] : RunEnds(t, n, end, branch)
           \/ (\E p \in Plans : EditPlan(p)) \/ PullCord \/ ReleaseCord
           \/ UNCHANGED vars
  <2>1. UNCHANGED procs
    BY <1>11 DEF RunEnds, EditPlan, PullCord, ReleaseCord, vars
  <2> QED
    BY <1>7, <2>1 DEF procs
<1> QED
  BY <1>2, <1>3, <1>4, <1>6, <1>8, <1>10, <1>11 DEF Next

(* However commands and edits of the plan overlap with it, for all tasks,   *)
(* plans and bounds: when the loop settles and has nothing to wait for,     *)
(* nothing runs, and each task of its plan that is left pending has a       *)
(* failed or missing task upstream (canMakeProgress, pendingCouldStillSpawn,*)
(* which walk the dependencies, and validatePlan, which refuses cycles).    *)
THEOREM StuckHasReason == Spec => []StuckForAReason
<1> DEFINE IInv == Typed /\ WatchingNow /\ ReasonInv
<1>1. Init => IInv
  <2>1. Idle.pc = "off" /\ NoWaiter.pc = "none" /\ "loop" \in Procs
    BY DEF Idle, NoWaiter, Procs
  <2>2. Init => WatchingNow
    BY <2>1 DEF Init, WatchingNow, Watching
  <2>3. Init => ReasonInv
    BY <2>1 DEF Init, ReasonInv, Up, LoopAt
  <2> QED
    BY <2>2, <2>3, InitTyped
<1>2. IInv /\ [Next]_vars => IInv'
  BY NextTyped, NextWatching, NextReasons
<1>3. IInv => StuckForAReason
  BY DEF ReasonInv, StuckForAReason, Blocked
<1> HIDE DEF IInv
<1> QED
  BY <1>1, <1>2, <1>3, PTL DEF Spec
=============================================================================
