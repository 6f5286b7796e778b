------------------------------- MODULE Console -------------------------------
(***************************************************************************)
(* One tab of the web console (apps/web): the lead that is open, the card  *)
(* the page shows of it, and the lock its buttons look at.                 *)
(*                                                                         *)
(* Every async function of the tab is a flight in a slot, and a step is    *)
(* what it does between two awaits.  Replies come in any order; what a     *)
(* function sets is not checked against what the user has chosen since.    *)
(* The page and the role are left out: both can be changed at any time, so *)
(* every button is at hand.                                                *)
(***************************************************************************)
EXTENDS Naturals, FiniteSets

CONSTANTS
    Leads, Home,        \* the companies, and the one that is open at first
    Slots,              \* bound: async functions under way
    MaxWrites           \* bound: changes of a lead's rows

ASSUME HomeAssumption == Home \in Leads
ASSUME BoundAssumption == MaxWrites \in Nat

VARIABLES
    filed,      \* filed[l]: how often the rows of l have changed on the server
    late,       \* leads whose request the server still works on, given up here
    leadId,     \* the lead that is open
    card,       \* the lead the card is of, and how many changes it shows
    busy, ask, error,   \* the lock, the dialog, the red line
    flights,    \* what is under way
    crossed, raced      \* history, for the properties: see below

server == <<filed, late>>
lock == <<busy, ask, error>>
vars == <<server, leadId, card, lock, flights, crossed, raced>>

\* Where a function waits: for the text of a chosen file, the health of the
\* server, its own request, the three lists of refreshAll, the reply of the card.
Places == {"none", "text", "health", "request", "lists", "reply"}

\* An effect is live until its dependencies change; a run has no such mark.
Flight == [for : {"effect", "run"}, lead : Leads, at : Places,
           seen : 0 .. MaxWrites, live : BOOLEAN]

Flies(for, lead, at) == [for |-> for, lead |-> lead, at |-> at, seen |-> 0, live |-> TRUE]
New(for, at) == Flies(for, leadId, at)
Idle == Flies("run", Home, "none")

TypeOK ==
    /\ filed \in [Leads -> 0 .. MaxWrites] /\ late \subseteq Leads
    /\ leadId \in Leads
    /\ card \in [lead : Leads, seen : 0 .. MaxWrites]
    /\ {busy, ask, error, crossed, raced} \subseteq BOOLEAN
    /\ flights \in [Slots -> Flight]

Out == {s \in Slots : flights[s].at # "none"}
Free == Slots \ Out

\* The function run is under way: it holds the lock until it is done.
Runs == {s \in Out : flights[s].for = "run" /\ flights[s].at # "text"}

\* The page opens with the effect of its first render under way.
Init ==
    /\ filed = [l \in Leads |-> 0] /\ late = {}
    /\ leadId = Home /\ card = [lead |-> Home, seen |-> 0]
    /\ busy = FALSE /\ ask = FALSE /\ error = FALSE
    /\ \E s \in Slots :
         flights = [i \in Slots |-> IF i = s THEN New("effect", "health") ELSE Idle]
    /\ crossed = FALSE /\ raced = FALSE

-----------------------------------------------------------------------------
(* Clicks.  The dialog covers the page.                                    *)

\* A function begins while another has not ended.
Crosses == crossed' = (Out # {} \/ late # {})

\* The effect of the render before is told to stop, that of this one begins.
Effect(l) ==
    LET told == [s \in Slots |-> [flights[s] EXCEPT !.live = @ /\ flights[s].for = "run"]]
    IN  /\ \E s \in Free :
             flights' = [told EXCEPT ![s] = Flies("effect", l, "health")]
        /\ Crosses
        /\ UNCHANGED <<server, card, lock, raced>>

OpenLead(l) == ~ask /\ l # leadId /\ leadId' = l /\ Effect(l)

\* Another role is another effect for the same lead.
SetRole == ~ask /\ Effect(leadId) /\ UNCHANGED leadId

\* run, up to its first await.
Run ==
    /\ busy' = TRUE /\ error' = FALSE
    /\ \E s \in Free : flights' = [flights EXCEPT ![s] = New("run", "request")]
    /\ Crosses
    /\ UNCHANGED <<server, leadId, card, raced>>

(* Mutant of Controls: the buttons of a handoff do not look at the lock. *)
Controls_Unlocked == ~ask

\* What the lock leaves enabled.
Controls == ~ask /\ ~busy

\* An intake, a confirmation, a stage, a similar search.
Act == Controls /\ Run /\ UNCHANGED ask

\* An abort, a rejection and a closing ask first; the answer looks at no lock.
Ask ==
    /\ Controls
    /\ ask' = TRUE
    /\ UNCHANGED <<server, leadId, card, busy, error, flights, crossed, raced>>

Yes == ask /\ ask' = FALSE /\ Run

Cancel ==
    /\ ask /\ ask' = FALSE
    /\ UNCHANGED <<server, leadId, card, busy, error, flights, crossed, raced>>

\* handleImportFile, up to the text of the file.
HandleImportFile ==
    /\ Controls
    /\ \E s \in Free : flights' = [flights EXCEPT ![s] = New("run", "text")]
    /\ Crosses
    /\ UNCHANGED <<server, leadId, card, lock, raced>>

-----------------------------------------------------------------------------
(* Flights.                                                                *)

Goes(s, at) == flights' = [flights EXCEPT ![s].at = at]

\* The import calls run whatever has happened while the file was read.
TextRead(s) ==
    /\ flights[s].at = "text"
    /\ Goes(s, "request")
    /\ busy' = TRUE /\ error' = FALSE
    /\ raced' = (raced \/ busy \/ ask)
    /\ UNCHANGED <<server, leadId, card, ask, crossed>>

\* A cancelled effect goes no further than the health of the server.
HealthReturns(s) ==
    /\ flights[s].at = "health"
    /\ IF flights[s].live THEN Goes(s, "lists") ELSE flights' = [flights EXCEPT ![s] = Idle]
    /\ UNCHANGED <<server, leadId, card, lock, crossed, raced>>

(* Mutant of RequestReturns: the page is not refreshed after the request. *)
RequestReturns_NoRefresh(s) ==
    /\ flights[s].at = "request"
    /\ flights' = [flights EXCEPT ![s] = Idle] /\ busy' = FALSE
    /\ UNCHANGED <<server, leadId, card, ask, error, crossed, raced>>

RequestReturns(s) ==
    /\ flights[s].at = "request"
    /\ Goes(s, "lists")
    /\ UNCHANGED <<server, leadId, card, lock, crossed, raced>>

\* refreshAll has its three lists and asks for the card of the lead it was made
\* for: the server reads the rows, the reply is on its way.
CardRead(s) ==
    /\ flights[s].at = "lists"
    /\ flights' = [flights EXCEPT ![s].at = "reply", ![s].seen = filed[flights[s].lead]]
    /\ UNCHANGED <<server, leadId, card, lock, crossed, raced>>

(* Mutant of Ends: only a run that succeeds gives the lock back. *)
Ends_Success(s) ==
    /\ flights' = [flights EXCEPT ![s] = Idle]
    /\ busy' = (busy /\ (error' \/ flights[s].for = "effect"))

\* The end of a flight; finally of run gives the lock back.
Ends(s) ==
    /\ flights' = [flights EXCEPT ![s] = Idle]
    /\ busy' = (busy /\ flights[s].for = "effect")

CardArrives(s) ==
    /\ flights[s].at = "reply"
    /\ card' = [lead |-> flights[s].lead, seen |-> flights[s].seen]
    /\ error' = (error /\ ~(flights[s].for = "effect" /\ flights[s].live))
    /\ Ends(s)
    /\ UNCHANGED <<server, leadId, ask, crossed, raced>>

\* A request fails, also when the proxy gives it up and the server goes on.
Fails(s) ==
    /\ flights[s].at \in {"health", "request", "lists", "reply"}
    /\ error' = (error \/ flights[s].live)
    /\ late' \in {late} \cup (IF flights[s].at = "request" THEN {late \cup {flights[s].lead}} ELSE {})
    /\ Ends(s)
    /\ UNCHANGED <<filed, leadId, card, ask, crossed, raced>>

Awaited(s) ==
    \/ TextRead(s) \/ HealthReturns(s) \/ RequestReturns(s)
    \/ CardRead(s) \/ CardArrives(s) \/ Fails(s)

-----------------------------------------------------------------------------
(* The server.                                                             *)

\* A request changes the rows of its lead, also when nobody waits any more.
Write(l) ==
    /\ filed[l] < MaxWrites
    /\ l \in late \/ \E s \in Slots : flights[s].at = "request" /\ flights[s].lead = l
    /\ filed' = [filed EXCEPT ![l] = @ + 1]
    /\ UNCHANGED <<late, leadId, card, lock, flights, crossed, raced>>

LateEnds(l) ==
    /\ l \in late /\ late' = late \ {l}
    /\ UNCHANGED <<filed, leadId, card, lock, flights, crossed, raced>>

-----------------------------------------------------------------------------
Next ==
    \/ \E l \in Leads : OpenLead(l) \/ Write(l) \/ LateEnds(l)
    \/ SetRole \/ Act \/ Ask \/ Yes \/ Cancel \/ HandleImportFile
    \/ \E s \in Slots : Awaited(s)

\* A request is answered, refused or given up by the proxy, and a file is read;
\* nothing is assumed of the user.
Spec == Init /\ [][Next]_vars /\ \A s \in Slots : WF_vars(Awaited(s))

-----------------------------------------------------------------------------
(* What must hold.                                                         *)

Settled == Out = {} /\ late = {} /\ ~error

\* One function run is out at a time (App.tsx run), and the lock is held exactly
\* while one is, also through the dialog, unless a file was still being read when
\* the page was locked or a dialog opened.
OneRunAtATime == ~raced => Cardinality(Runs) <= 1 /\ (busy <=> Runs # {}) /\ (ask => ~busy)

\* When all is answered, the card is of the lead that is open and shows all its
\* changes (App.tsx refreshAll), if the function that fetched it had begun alone.
CardSettles == Settled /\ ~crossed => card = [lead |-> leadId, seen |-> filed[leadId]]

\* The buttons come back, whether a run succeeds, fails or races (finally of run).
LockEnds == busy ~> ~busy

=============================================================================
