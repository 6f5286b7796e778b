---------------------------- MODULE ConsoleProofs ----------------------------
(***************************************************************************)
(* What holds of Console for every set of companies and any number of      *)
(* functions under way: the proofs.                                        *)
(***************************************************************************)
EXTENDS Console, FiniteSetTheorems, TLAPS

-----------------------------------------------------------------------------
(* The inductive invariant.                                                *)

\* Only effects ask for the health of the server, only runs read files and send
\* requests.
Kinds ==
    \A s \in Slots :
        /\ flights[s].at = "health" => flights[s].for = "effect"
        /\ flights[s].at \in {"text", "request"} => flights[s].for = "run"

\* The lock and the run it is for.
Single == \A s, t \in Runs : s = t
Held == busy <=> Runs # {}
LockOK == Single /\ Held /\ (ask => ~busy)

IInv == TypeOK /\ Kinds /\ (~raced => LockOK)

(* A lock that is for one run lets one be out at a time.                    *)
LEMMA Consequence == ASSUME IInv PROVE OneRunAtATime
<1>1. SUFFICES ASSUME ~raced PROVE Cardinality(Runs) <= 1
  BY DEF IInv, LockOK, Held, OneRunAtATime
<1>2. CASE Runs = {}
  BY <1>2, FS_EmptySet
<1>3. CASE Runs # {}
  <2>1. PICK s : s \in Runs
    BY <1>3
  <2>2. Runs = {s}
    BY <1>1, <2>1 DEF IInv, LockOK, Single
  <2>3. Cardinality({s}) = 1
    BY FS_Singleton
  <2>4. QED
    BY <2>2, <2>3
<1>4. QED
  BY <1>2, <1>3

-----------------------------------------------------------------------------
(* The steps.                                                              *)

(* The page that opens.                                                     *)
LEMMA Opened == ASSUME Init PROVE IInv
<1>1. PICK r \in Slots :
        flights = [i \in Slots |-> IF i = r THEN New("effect", "health") ELSE Idle]
  BY DEF Init
<1>2. New("effect", "health") \in Flight /\ Idle \in Flight
  BY HomeAssumption, BoundAssumption DEF Init, New, Flies, Idle, Flight, Places
<1>3. flights \in [Slots -> Flight] /\ card \in [lead : Leads, seen : 0 .. MaxWrites]
  BY <1>1, <1>2, HomeAssumption, BoundAssumption DEF Init
<1>4. Kinds /\ Runs = {}
  BY <1>1 DEF Kinds, Runs, Out, New, Flies, Idle
<1>5. TypeOK
  BY <1>3, HomeAssumption, BoundAssumption DEF Init, TypeOK
<1>6. QED
  BY <1>4, <1>5 DEF Init, IInv, LockOK, Single, Held

(* An effect begins: no run begins or ends.                                 *)
LEMMA EffectStep ==
    ASSUME IInv, NEW l \in Leads, leadId' \in Leads, Effect(l)
    PROVE  IInv'
<1> DEFINE told == [s \in Slots |-> [flights[s] EXCEPT !.live = @ /\ flights[s].for = "run"]]
           new == Flies("effect", l, "health")
<1>1. PICK r \in Free : flights' = [told EXCEPT ![r] = new]
  BY DEF Effect
<1>2. /\ new \in Flight /\ new.for = "effect" /\ new.at = "health"
      /\ told \in [Slots -> Flight]
      /\ \A s \in Slots : told[s].at = flights[s].at /\ told[s].for = flights[s].for
  <2>1. new \in Flight /\ new.for = "effect" /\ new.at = "health"
    BY BoundAssumption DEF Flies, Flight, Places
  <2>2. ASSUME NEW s \in Slots
        PROVE  told[s] \in Flight /\ told[s].at = flights[s].at /\ told[s].for = flights[s].for
    <3>1. flights[s] \in Flight
      BY DEF IInv, TypeOK
    <3> DEFINE live == flights[s].live /\ flights[s].for = "run"
    <3>2. live \in BOOLEAN /\ told[s] = [flights[s] EXCEPT !.live = live]
      OBVIOUS
    <3> HIDE DEF live, told
    <3>3. QED
      BY <3>1, <3>2 DEF Flight
  <2>3. QED
    BY <2>1, <2>2
<1> HIDE DEF told, new
<1>3. flights' \in [Slots -> Flight] /\ r \in Slots /\ flights[r].at = "none"
  BY <1>1, <1>2 DEF Free, Out
<1>4. TypeOK'
  BY <1>3 DEF IInv, TypeOK, Effect, Crosses, server, lock
<1>5. Kinds' /\ Runs' = Runs
  BY <1>1, <1>2, <1>3 DEF IInv, TypeOK, Kinds, Runs, Out
<1>6. QED
  BY <1>4, <1>5 DEF IInv, LockOK, Single, Held, Effect, lock

(* A run begins, behind the lock.                                           *)
LEMMA RunStep ==
    ASSUME IInv, Run, ~raced => ~busy, ask' = FALSE
    PROVE  IInv'
<1>1. PICK r \in Free : flights' = [flights EXCEPT ![r] = New("run", "request")]
  BY DEF Run
<1>2. /\ New("run", "request") \in Flight
      /\ New("run", "request").for = "run" /\ New("run", "request").at = "request"
  BY BoundAssumption DEF IInv, TypeOK, New, Flies, Flight, Places
<1>3. flights' \in [Slots -> Flight] /\ r \in Slots
  BY <1>1, <1>2 DEF Free, IInv, TypeOK
<1>4. TypeOK'
  BY <1>3 DEF IInv, TypeOK, Run, Crosses, server
<1>5. Kinds' /\ Runs' = Runs \cup {r}
  BY <1>1, <1>2, <1>3 DEF IInv, TypeOK, Kinds, Runs, Out, Free
<1>6. ~raced' => Runs' = {r} /\ busy' /\ ~ask'
  BY <1>5 DEF IInv, LockOK, Held, Run
<1>7. QED
  BY <1>4, <1>5, <1>6 DEF IInv, LockOK, Single, Held

(* A file is chosen: it is no run yet.                                      *)
LEMMA FileStep == ASSUME IInv, HandleImportFile PROVE IInv'
<1>1. PICK r \in Free : flights' = [flights EXCEPT ![r] = New("run", "text")]
  BY DEF HandleImportFile
<1>2. /\ New("run", "text") \in Flight
      /\ New("run", "text").for = "run" /\ New("run", "text").at = "text"
  BY BoundAssumption DEF IInv, TypeOK, New, Flies, Flight, Places
<1>3. flights' \in [Slots -> Flight] /\ r \in Slots
  BY <1>1, <1>2 DEF Free, IInv, TypeOK
<1>4. TypeOK'
  BY <1>3 DEF IInv, TypeOK, HandleImportFile, Crosses, server, lock
<1>5. Kinds' /\ Runs' = Runs
  BY <1>1, <1>2, <1>3 DEF IInv, TypeOK, Kinds, Runs, Out, Free
<1>6. QED
  BY <1>4, <1>5 DEF IInv, LockOK, Single, Held, HandleImportFile, lock

(* The text of the file is there: an import that finds the page free is the *)
(* one run, and another is noted as raced.                                  *)
LEMMA TextStep == ASSUME IInv, NEW s \in Slots, TextRead(s) PROVE IInv'
<1>1. /\ flights[s].at = "text" /\ flights[s].for = "run"
      /\ flights' = [flights EXCEPT ![s].at = "request"]
  BY DEF IInv, Kinds, TextRead, Goes
<1>2. TypeOK'
  BY <1>1 DEF IInv, TypeOK, TextRead, Flight, Places, server
<1>3. Kinds' /\ Runs' = Runs \cup {s}
  BY <1>1 DEF IInv, TypeOK, Kinds, Runs, Out, Flight
<1>4. ~raced' => Runs' = {s} /\ busy' /\ ~ask'
  BY <1>3 DEF IInv, LockOK, Held, TextRead, TypeOK
<1>5. QED
  BY <1>2, <1>3, <1>4 DEF IInv, LockOK, Single, Held

(* A flight goes on from one reply to the next.                             *)
LEMMA GoesStep ==
    ASSUME IInv, NEW s \in Slots, NEW at \in {"lists", "reply"}, NEW seen \in 0 .. MaxWrites,
           flights[s].at \in {"health", "request", "lists"},
           flights' = [flights EXCEPT ![s].at = at, ![s].seen = seen],
           UNCHANGED <<server, leadId, card, lock, crossed, raced>>
    PROVE  IInv'
<1>1. TypeOK'
  <2>1. flights[s] \in Flight
    BY DEF IInv, TypeOK
  <2>2. [flights[s] EXCEPT !.at = at, !.seen = seen] \in Flight
    BY <2>1 DEF Flight, Places
  <2>3. flights' \in [Slots -> Flight]
    BY <2>2 DEF IInv, TypeOK
  <2>4. QED
    BY <2>3 DEF IInv, TypeOK, server, lock
<1>2. Kinds' /\ Runs' = Runs
  BY DEF IInv, TypeOK, Kinds, Runs, Out, Flight
<1>3. QED
  BY <1>1, <1>2 DEF IInv, LockOK, Single, Held, lock

(* A flight ends, and with a run its lock.                                  *)
LEMMA EndStep ==
    ASSUME IInv, NEW s \in Slots, Ends(s),
           flights[s].at \in {"health", "request", "lists", "reply"},
           server' \in [Leads -> 0 .. MaxWrites] \X SUBSET Leads,
           card' \in [lead : Leads, seen : 0 .. MaxWrites], error' \in BOOLEAN,
           UNCHANGED <<leadId, ask, crossed, raced>>
    PROVE  IInv'
<1>1. /\ flights' = [flights EXCEPT ![s] = Idle] /\ Idle \in Flight /\ Idle.at = "none"
      /\ busy' = (busy /\ flights[s].for = "effect")
  BY HomeAssumption, BoundAssumption DEF Ends, Idle, Flies, Flight, Places
<1>2. TypeOK'
  BY <1>1 DEF IInv, TypeOK, server
<1>3. Kinds' /\ Runs' = Runs \ {s} /\ (s \in Runs <=> flights[s].for = "run")
  BY <1>1 DEF IInv, TypeOK, Kinds, Runs, Out
<1>4. ~raced => Runs' = (IF flights[s].for = "run" THEN {} ELSE Runs)
  BY <1>3 DEF IInv, LockOK, Single
<1>5. flights[s].for = "run" <=> flights[s].for # "effect"
  BY DEF IInv, TypeOK, Flight
<1>6. ~raced => LockOK'
  BY <1>1, <1>3, <1>4, <1>5 DEF IInv, LockOK, Single, Held
<1>7. QED
  BY <1>2, <1>3, <1>6 DEF IInv

(* A reply comes, or none.                                                  *)
LEMMA AwaitedStep == ASSUME IInv, NEW s \in Slots, Awaited(s) PROVE IInv'
<1>1. CASE TextRead(s)
  BY <1>1, TextStep
<1>2. CASE HealthReturns(s)
  <2>1. CASE flights[s].live
    <3>1. flights[s] \in Flight
      BY DEF IInv, TypeOK
    <3>2. flights' = [flights EXCEPT ![s].at = "lists", ![s].seen = flights[s].seen]
      BY <1>2, <2>1, <3>1 DEF HealthReturns, Goes, Flight
    <3>3. QED
      BY <1>2, <3>1, <3>2, GoesStep DEF HealthReturns, Flight
  <2>2. CASE ~flights[s].live
    <3>1. Ends(s)
      BY <1>2, <2>2 DEF IInv, TypeOK, Kinds, HealthReturns, Ends, lock
    <3>2. QED
      BY <1>2, <3>1, EndStep DEF IInv, TypeOK, HealthReturns, server, lock
  <2>3. QED
    BY <2>1, <2>2
<1>3. CASE RequestReturns(s)
  <2>1. flights[s] \in Flight
    BY DEF IInv, TypeOK
  <2>2. flights' = [flights EXCEPT ![s].at = "lists", ![s].seen = flights[s].seen]
    BY <1>3, <2>1 DEF RequestReturns, Goes, Flight
  <2>3. QED
    BY <1>3, <2>1, <2>2, GoesStep DEF RequestReturns, Flight
<1>4. CASE CardRead(s)
  <2>1. filed[flights[s].lead] \in 0 .. MaxWrites
    BY DEF IInv, TypeOK, Flight
  <2>2. QED
    BY <1>4, <2>1, GoesStep DEF CardRead
<1>5. CASE CardArrives(s)
  <2>1. card' \in [lead : Leads, seen : 0 .. MaxWrites] /\ error' \in BOOLEAN
    BY <1>5 DEF CardArrives, IInv, TypeOK, Flight
  <2>2. QED
    BY <1>5, <2>1, EndStep DEF CardArrives, IInv, TypeOK, server
<1>6. CASE Fails(s)
  <2>1. late' \subseteq Leads /\ error' \in BOOLEAN
    BY <1>6 DEF Fails, IInv, TypeOK, Flight
  <2>2. QED
    BY <1>6, <2>1, EndStep DEF Fails, IInv, TypeOK, server
<1>7. QED
  BY <1>1, <1>2, <1>3, <1>4, <1>5, <1>6 DEF Awaited

(* Only the dialog or the server moves.                                     *)
LEMMA OtherStep ==
    ASSUME IInv, NEW l \in Leads, Ask \/ Cancel \/ Write(l) \/ LateEnds(l)
    PROVE  IInv'
<1>1. Kinds' /\ Runs' = Runs
  BY DEF IInv, Kinds, Runs, Out, Ask, Cancel, Write, LateEnds
<1>2. TypeOK'
  <2>1. filed' \in [Leads -> 0 .. MaxWrites]
    BY BoundAssumption DEF IInv, TypeOK, Ask, Cancel, Write, LateEnds, server
  <2>2. QED
    BY <2>1 DEF IInv, TypeOK, Ask, Cancel, Write, LateEnds, server, lock
<1>3. ~raced => LockOK'
  BY <1>1 DEF IInv, LockOK, Single, Held, Ask, Cancel, Write, LateEnds, Controls, lock
<1>4. QED
  BY <1>1, <1>2, <1>3 DEF IInv, Ask, Cancel, Write, LateEnds

(* The invariant is inductive.                                              *)
THEOREM Inductive == Spec => []IInv
<1>1. Init => IInv
  BY Opened
<1>2. IInv /\ [Next]_vars => IInv'
  <2> SUFFICES ASSUME IInv, [Next]_vars PROVE IInv'
    OBVIOUS
  <2>1. ASSUME NEW l \in Leads, OpenLead(l) PROVE IInv'
    BY <2>1, EffectStep DEF OpenLead
  <2>2. CASE SetRole
    BY <2>2, EffectStep DEF SetRole, IInv, TypeOK
  <2>3. CASE Act
    <3>1. ask' = FALSE
      BY <2>3 DEF Act, Controls, IInv, TypeOK
    <3>2. QED
      BY <2>3, <3>1, RunStep DEF Act, Controls
  <2>4. CASE Yes
    BY <2>4, RunStep DEF Yes, IInv, LockOK
  <2>5. CASE HandleImportFile
    BY <2>5, FileStep
  <2>6. ASSUME NEW s \in Slots, Awaited(s) PROVE IInv'
    BY <2>6, AwaitedStep
  <2>7. ASSUME NEW l \in Leads, Ask \/ Cancel \/ Write(l) \/ LateEnds(l) PROVE IInv'
    BY <2>7, OtherStep
  <2>8. CASE UNCHANGED vars
    BY <2>8 DEF IInv, TypeOK, Kinds, LockOK, Single, Held, Runs, Out, vars, server, lock
  <2>9. Home \in Leads
    BY HomeAssumption
  <2>10. QED
    BY <2>1, <2>2, <2>3, <2>4, <2>5, <2>6, <2>7, <2>8, <2>9 DEF Next
<1>3. QED
  BY <1>1, <1>2, PTL DEF Spec

-----------------------------------------------------------------------------
(* What the tab holds always has its declared shape.                        *)
THEOREM TypeCorrect == Spec => []TypeOK
<1>1. IInv => TypeOK
  BY DEF IInv
<1>2. QED
  BY <1>1, Inductive, PTL

(* One run is out at a time and holds the lock until it ends, unless an     *)
(* import has overtaken the lock while its file was read.                   *)
THEOREM OneRun == Spec => []OneRunAtATime
<1>1. IInv => OneRunAtATime
  <2>1. SUFFICES ASSUME IInv PROVE OneRunAtATime
    OBVIOUS
  <2>2. QED
    BY <2>1, Consequence
<1>2. QED
  BY <1>1, Inductive, PTL

-----------------------------------------------------------------------------
(* The card, while nothing crosses what fetches it.                        *)

\* What is under way is the only flight, for the lead that is open, and told to
\* go on; a reply on its way holds all the changes of that lead.
Fetching ==
    \A s \in Out :
        /\ \A t \in Out : s = t
        /\ late = {} /\ flights[s].lead = leadId /\ flights[s].live
        /\ flights[s].at = "reply" => flights[s].seen = filed[leadId]

\* Nothing is under way and nothing failed: the card is up to date.
Shown == Out = {} /\ ~error => late = {} /\ card = [lead |-> leadId, seen |-> filed[leadId]]

Alone == ~crossed => Fetching /\ Shown

(* A function begins: if it begins alone, it is the one that is under way.  *)
LEMMA Begins ==
    ASSUME NEW r \in Slots, crossed' = (Out # {} \/ late # {}), UNCHANGED server,
           flights'[r].at \notin {"none", "reply"}, flights'[r].lead = leadId', flights'[r].live,
           \A s \in Slots : s # r => flights'[s].at = flights[s].at
    PROVE  Alone'
<1>1. SUFFICES ASSUME Out = {}, late = {} PROVE Fetching' /\ Shown'
  BY DEF Alone
<1>2. Out' = {r}
  BY <1>1 DEF Out
<1>3. QED
  BY <1>1, <1>2 DEF Fetching, Shown, server

(* A flight goes on: it stays the only one.                                 *)
LEMMA Continues ==
    ASSUME Alone, IInv, NEW s \in Out, NEW at \in {"request", "lists", "reply"},
           NEW seen \in 0 .. MaxWrites,
           at = "reply" => seen = filed[flights[s].lead],
           flights' = [flights EXCEPT ![s].at = at, ![s].seen = seen],
           UNCHANGED <<server, leadId, card, crossed>>
    PROVE  Alone'
<1>1. SUFFICES ASSUME ~crossed PROVE Fetching' /\ Shown'
  BY DEF Alone
<1>2. Fetching /\ s \in Slots
  BY <1>1 DEF Alone, Out
<1>3. flights[s] \in Flight /\ flights \in [Slots -> Flight]
  BY <1>2 DEF IInv, TypeOK
<1>4. /\ flights'[s].at = at /\ flights'[s].lead = flights[s].lead
      /\ flights'[s].live = flights[s].live /\ flights'[s].seen = seen
      /\ \A t \in Slots : t # s => flights'[t] = flights[t]
  BY <1>2, <1>3 DEF Flight
<1>5. Out = {s}
  BY <1>2 DEF Fetching
<1>6. Out' = {s}
  BY <1>2, <1>4, <1>5 DEF Out
<1>7. QED
  BY <1>2, <1>4, <1>5, <1>6 DEF Fetching, Shown, server

(* The last flight ends.                                                    *)
LEMMA Empties ==
    ASSUME Alone, ~crossed, IInv, NEW s \in Out, Ends(s)
    PROVE  Out' = {}
<1>1. Out = {s} /\ s \in Slots
  BY DEF Alone, Fetching, Out
<1>2. flights' = [flights EXCEPT ![s] = Idle] /\ Idle.at = "none"
  BY DEF Ends, Idle, Flies
<1>3. QED
  BY <1>1, <1>2 DEF IInv, TypeOK, Out

LEMMA AwaitedAlone ==
    ASSUME Alone, IInv, NEW s \in Slots, Awaited(s) PROVE Alone'
<1>0. flights[s] \in Flight /\ flights[s].seen \in 0 .. MaxWrites
  BY DEF IInv, TypeOK, Flight
<1>1. s \in Out
  BY DEF Out, Awaited, TextRead, HealthReturns, RequestReturns, CardRead, CardArrives, Fails
<1>2. SUFFICES ASSUME ~crossed PROVE Alone'
  BY DEF Alone, Awaited, TextRead, HealthReturns, RequestReturns, CardRead, CardArrives, Fails
<1>3. /\ late = {} /\ flights[s].lead = leadId /\ flights[s].live = TRUE
      /\ flights[s].at = "reply" => flights[s].seen = filed[leadId]
  BY <1>0, <1>1, <1>2 DEF Alone, Fetching, Flight
<1>4. CASE TextRead(s)
  <2>1. flights' = [flights EXCEPT ![s].at = "request", ![s].seen = flights[s].seen]
    BY <1>0, <1>4 DEF TextRead, Goes, Flight
  <2>2. QED
    BY <1>0, <1>1, <1>4, <2>1, Continues DEF TextRead
<1>5. CASE HealthReturns(s)
  <2>1. flights' = [flights EXCEPT ![s].at = "lists", ![s].seen = flights[s].seen]
    BY <1>0, <1>3, <1>5 DEF HealthReturns, Goes, Flight
  <2>2. QED
    BY <1>0, <1>1, <1>5, <2>1, Continues DEF HealthReturns
<1>6. CASE RequestReturns(s)
  <2>1. flights' = [flights EXCEPT ![s].at = "lists", ![s].seen = flights[s].seen]
    BY <1>0, <1>6 DEF RequestReturns, Goes, Flight
  <2>2. QED
    BY <1>0, <1>1, <1>6, <2>1, Continues DEF RequestReturns
<1>7. CASE CardRead(s)
  <2>1. filed[flights[s].lead] \in 0 .. MaxWrites
    BY <1>0 DEF IInv, TypeOK, Flight
  <2>2. QED
    BY <1>1, <1>7, <2>1, Continues DEF CardRead
<1>8. CASE CardArrives(s)
  <2>1. Out' = {}
    BY <1>1, <1>2, <1>8, Empties DEF CardArrives
  <2>2. card' = [lead |-> leadId, seen |-> filed[leadId]] /\ UNCHANGED <<server, leadId>>
    BY <1>3, <1>8 DEF CardArrives
  <2>3. QED
    BY <1>3, <2>1, <2>2 DEF Alone, Fetching, Shown, server
<1>9. CASE Fails(s)
  <2>1. Out' = {}
    BY <1>1, <1>2, <1>9, Empties DEF Fails
  <2>2. error'
    BY <1>3, <1>9 DEF Fails
  <2>3. QED
    BY <2>1, <2>2 DEF Alone, Fetching, Shown
<1>10. QED
  BY <1>4, <1>5, <1>6, <1>7, <1>8, <1>9 DEF Awaited

(* The server changes the rows of a lead for a request that is out, so      *)
(* before the reply of the card is.                                         *)
LEMMA ServerAlone ==
    ASSUME Alone, IInv, NEW l \in Leads, Write(l) \/ LateEnds(l) PROVE Alone'
<1>1. SUFFICES ASSUME ~crossed PROVE Fetching' /\ Shown'
  BY DEF Alone, Write, LateEnds
<1>2. Fetching /\ Shown
  BY <1>1 DEF Alone
<1>3. Out' = Out /\ UNCHANGED <<leadId, card, lock, flights>>
  BY DEF Out, Write, LateEnds
<1>4. CASE Out = {}
  <2>1. late # {}
    BY <1>4 DEF Write, LateEnds, Out
  <2>2. error'
    BY <1>2, <1>3, <1>4, <2>1 DEF Shown, lock
  <2>3. QED
    BY <1>3, <1>4, <2>2 DEF Fetching, Shown
<1>5. CASE Out # {}
  <2>1. late = {}
    BY <1>2, <1>5 DEF Fetching
  <2>2. Write(l) /\ \E s \in Slots : flights[s].at = "request" /\ flights[s].lead = l
    BY <2>1 DEF Write, LateEnds
  <2>3. PICK s \in Out : flights[s].at = "request"
    BY <2>2 DEF Out
  <2>4. Out = {s}
    BY <1>2, <2>3 DEF Fetching
  <2>5. Fetching'
    BY <1>2, <1>3, <2>1, <2>2, <2>3, <2>4 DEF Fetching, Write
  <2>6. QED
    BY <1>3, <1>5, <2>5 DEF Shown
<1>6. QED
  BY <1>4, <1>5

LEMMA AloneStep ==
    ASSUME Alone, IInv, [Next]_vars PROVE Alone'
<1>1. ASSUME NEW l \in Leads, l = leadId', Effect(l) PROVE Alone'
  <2> DEFINE told == [s \in Slots |-> [flights[s] EXCEPT !.live = @ /\ flights[s].for = "run"]]
  <2>1. PICK r \in Free : flights' = [told EXCEPT ![r] = Flies("effect", l, "health")]
    BY <1>1 DEF Effect
  <2>2. r \in Slots /\ flights'[r] = Flies("effect", l, "health")
    BY <2>1 DEF Free
  <2>3. ASSUME NEW s \in Slots, s # r PROVE flights'[s].at = flights[s].at
    <3>1. flights[s] \in Flight
      BY DEF IInv, TypeOK
    <3>2. flights'[s] = [flights[s] EXCEPT !.live = @ /\ flights[s].for = "run"]
      BY <2>1, <2>3
    <3>3. QED
      BY <3>1, <3>2 DEF Flight
  <2>4. QED
    BY <1>1, <2>2, <2>3, Begins DEF Flies, Effect, Crosses, server
<1>2. ASSUME NEW at \in {"request", "text"}, NEW r \in Free,
             flights' = [flights EXCEPT ![r] = New("run", at)],
             Crosses, UNCHANGED <<server, leadId>>
      PROVE  Alone'
  <2>1. r \in Slots /\ flights'[r] = New("run", at)
    BY <1>2 DEF Free, IInv, TypeOK
  <2>2. \A s \in Slots : s # r => flights'[s].at = flights[s].at
    BY <1>2 DEF IInv, TypeOK
  <2>3. QED
    BY <1>2, <2>1, <2>2, Begins DEF New, Flies, Crosses
<1>3. ASSUME NEW l \in Leads, OpenLead(l) PROVE Alone'
  BY <1>1, <1>3 DEF OpenLead
<1>4. CASE SetRole
  BY <1>1, <1>4 DEF SetRole, IInv, TypeOK
<1>5. CASE Act \/ Yes
  BY <1>2, <1>5 DEF Act, Yes, Run
<1>6. CASE HandleImportFile
  BY <1>2, <1>6 DEF HandleImportFile
<1>7. ASSUME NEW s \in Slots, Awaited(s) PROVE Alone'
  BY <1>7, AwaitedAlone
<1>8. ASSUME NEW l \in Leads, Write(l) \/ LateEnds(l) PROVE Alone'
  BY <1>8, ServerAlone
<1>9. CASE Ask \/ Cancel \/ UNCHANGED vars
  BY <1>9 DEF Ask, Cancel, vars, server, lock, Alone, Fetching, Shown, Out
<1>10. QED
  BY <1>3, <1>4, <1>5, <1>6, <1>7, <1>8, <1>9 DEF Next

LEMMA AloneAtFirst == ASSUME Init PROVE Alone
<1>1. PICK r \in Slots :
        flights = [i \in Slots |-> IF i = r THEN New("effect", "health") ELSE Idle]
  BY DEF Init
<1>2. Out = {r} /\ flights[r] = New("effect", "health")
  BY <1>1 DEF Out, New, Flies, Idle
<1>3. QED
  BY <1>2 DEF Init, Alone, Fetching, Shown, New, Flies

(* When all is answered, the card is of the lead that is open and shows its *)
(* rows as they are, if what fetched it had begun alone: nothing in App.tsx *)
(* but another function under way makes refreshAll show something else.     *)
THEOREM CardIsCurrent == Spec => []CardSettles
<1>1. Init => Alone
  BY AloneAtFirst
<1>2. IInv /\ Alone /\ [Next]_vars => Alone'
  BY AloneStep
<1>3. Alone => CardSettles
  BY DEF Alone, Shown, CardSettles, Settled
<1>4. QED
  BY <1>1, <1>2, <1>3, Inductive, PTL DEF Spec
=============================================================================
