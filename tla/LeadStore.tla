------------------------------ MODULE LeadStore ------------------------------
(***************************************************************************)
(* The database file of the CRM: how it is created and seeded, how every   *)
(* start migrates it and rebuilds the vectors of the similar search, and   *)
(* the requests that change the set of companies: the CSV import and the   *)
(* rename by lead-intake.                                                  *)
(*                                                                         *)
(* All of this is synchronous in one process, so nothing interleaves; but  *)
(* every SQL statement commits by itself and a crash may hit between any   *)
(* two.  One action is one statement on leads or vec_leads.                *)
(***************************************************************************)
EXTENDS Naturals, Sequences, FiniteSets

CONSTANTS
    Companies,      \* company names
    Seeds,          \* the companies of the seed, in order; only the first is new
    SlugOf,         \* SlugOf[c]: the first letters of c, the stem of its lead's id
    CsvFiles,       \* the rows an import may bring: [company, complete]
    Names,          \* Names[c]: what lead-intake may call a lead of company c
    MaxRequests,    \* bound: imports, searches, renames and reseeds together
    MaxCrashes      \* bound: crashes

ASSUME SeedsAssumption ==
    /\ Seeds \in Seq(Companies)
    /\ \A i, j \in DOMAIN Seeds : Seeds[i] = Seeds[j] => i = j
ASSUME FilesAssumption ==
    /\ CsvFiles \subseteq Seq([company : Companies, complete : BOOLEAN])
    /\ Names \in [Companies -> SUBSET Companies]
ASSUME BoundsAssumption == MaxRequests \in Nat /\ MaxCrashes \in Nat

VARIABLES
    exists,     \* the file is there
    leads,      \* the table: leads[id] is the company; {} of ids before the seed
    filed,      \* ids of leads lead-intake is done with
    vec,        \* the companies in vec_leads, or NoTable
    pc,         \* the statement the process is at
    job,        \* what it is doing
    cut,        \* history: a crash cut the seeding of this file
    spent, crashes

store == <<exists, leads, filed, vec>>
bounds == <<spent, crashes>>
vars == <<store, pc, job, cut, bounds>>

NoTable == {"absent"}
Slugs == {SlugOf[c] : c \in Companies}
SeedId(i) == <<"seed", i>>
CsvId(c, n) == <<SlugOf[c], n>>

\* Why the process is where it is: "start" and "first" of the server,
\* "reseed" by the command, an "import" or a "search".
Doing(what) ==
    [for |-> what, file |-> <<>>, row |-> 0, existing |-> {}, seq |-> 0, todo |-> {}]
NoJob == Doing("none")

Booting == job.for \in {"first", "reseed"}
Twins == \E i, j \in DOMAIN leads : i # j /\ leads[i] = leads[j]

Places == {"down", "remove", "migrate", "seed", "drop", "create", "fill", "serve", "import"}

Job == [for : {"none", "start", "first", "reseed", "import", "search"},
        file : CsvFiles \cup {<<>>}, row : Nat, existing : SUBSET Companies, seq : Nat,
        todo : SUBSET DOMAIN leads]

TypeOK ==
    /\ exists \in BOOLEAN /\ cut \in BOOLEAN
    /\ DOMAIN leads \subseteq (Slugs \cup {"seed"}) \X Nat
    /\ leads \in [DOMAIN leads -> Companies]
    /\ filed \subseteq DOMAIN leads
    /\ vec = NoTable \/ vec \subseteq Companies
    /\ pc \in Places
    /\ job \in Job /\ job.row <= Len(job.file) + 1 /\ job.seq <= Len(job.file)
    /\ spent \in 0 .. MaxRequests /\ crashes \in 0 .. MaxCrashes

Init ==
    /\ exists = FALSE /\ leads = <<>> /\ filed = {} /\ vec = NoTable
    /\ pc = "down" /\ job = NoJob
    /\ cut = FALSE /\ spent = 0 /\ crashes = 0

At(here) == pc = here
Request == At("serve") /\ spent < MaxRequests /\ spent' = spent + 1 /\ UNCHANGED crashes

-----------------------------------------------------------------------------
(* openRuntimeDb of the server, bootstrapFileDb, the seed command.         *)

(* Mutant of Start: an existing file is not looked for. *)
Start_Again ==
    /\ At("down")
    /\ pc' = "migrate" /\ job' = Doing("start")
    /\ UNCHANGED <<store, cut, bounds>>

Start ==
    /\ At("down")
    /\ IF exists THEN pc' = "migrate" /\ job' = Doing("start")
                 ELSE pc' = "remove" /\ job' = Doing("first")
    /\ UNCHANGED <<store, cut, bounds>>

Reseed ==
    /\ At("down") /\ spent < MaxRequests
    /\ pc' = "remove" /\ job' = Doing("reseed")
    /\ spent' = spent + 1
    /\ UNCHANGED <<store, cut, crashes>>

\* Whatever file there is goes; opening creates an empty one.
Remove ==
    /\ At("remove")
    /\ exists' = TRUE /\ leads' = <<>> /\ filed' = {} /\ vec' = NoTable
    /\ cut' = FALSE
    /\ pc' = "migrate"
    /\ UNCHANGED <<job, bounds>>

\* CREATE TABLE IF NOT EXISTS, and a column that may be there already.
Migrate ==
    /\ At("migrate")
    /\ pc' = IF Booting THEN "seed" ELSE "drop"
    /\ UNCHANGED <<store, job, cut, bounds>>

Seeded == {SeedId(i) : i \in DOMAIN Seeds} \subseteq DOMAIN leads
Lead(id, c) == leads' = [i \in DOMAIN leads \cup {id} |-> IF i = id THEN c ELSE leads[i]]

\* The rows of the seed, one lead after the other.
Seed(i) ==
    /\ At("seed")
    /\ SeedId(i) \notin DOMAIN leads /\ \A j \in 1 .. i - 1 : SeedId(j) \in DOMAIN leads
    /\ Lead(SeedId(i), Seeds[i])
    /\ filed' = IF i = 1 THEN filed ELSE filed \cup {SeedId(i)}
    /\ UNCHANGED <<exists, vec, pc, job, cut, bounds>>

SeedEnds ==
    /\ At("seed") /\ Seeded
    /\ pc' = "drop"
    /\ UNCHANGED <<store, job, cut, bounds>>

-----------------------------------------------------------------------------
(* rebuildLeadVec.                                                         *)

\* What throws ends a start or the command, and a request with status 500.
Throws ==
    /\ pc' = IF job.for \in {"import", "search"} THEN "serve" ELSE "down"
    /\ job' = NoJob
    /\ UNCHANGED <<store, cut, bounds>>

(* Mutant of Drop: the table of an earlier rebuild is left. *)
Drop_Kept ==
    /\ At("drop")
    /\ pc' = "create"
    /\ UNCHANGED <<store, job, cut, bounds>>

Drop ==
    /\ At("drop")
    /\ vec' = NoTable
    /\ pc' = "create"
    /\ UNCHANGED <<exists, leads, filed, job, cut, bounds>>

\* CREATE would throw if the table were there; the leads are read right after it.
Create ==
    /\ At("create") /\ vec = NoTable
    /\ vec' = {}
    /\ pc' = "fill" /\ job' = [job EXCEPT !.todo = DOMAIN leads]
    /\ UNCHANGED <<exists, leads, filed, cut, bounds>>

\* company is the primary key of vec_leads.
Fill(id) ==
    /\ At("fill") /\ id \in job.todo /\ leads[id] \notin vec
    /\ vec' = vec \cup {leads[id]}
    /\ job' = [job EXCEPT !.todo = @ \ {id}]
    /\ UNCHANGED <<exists, leads, filed, pc, cut, bounds>>

FillThrows(id) == At("fill") /\ id \in job.todo /\ leads[id] \in vec /\ Throws

\* The first start opens what it has made as any other start; the command ends.
Filled ==
    /\ At("fill") /\ job.todo = {}
    /\ CASE job.for = "first" -> pc' = "migrate" /\ job' = [job EXCEPT !.for = "start"]
         [] job.for = "reseed"      -> pc' = "down" /\ job' = NoJob
         [] OTHER                   -> pc' = "serve" /\ job' = NoJob
    /\ UNCHANGED <<store, cut, bounds>>

-----------------------------------------------------------------------------
(* Requests.                                                               *)

\* lead-intake names a lead it has not done yet.
Rename(id, c) ==
    /\ Request
    /\ id \in DOMAIN leads \ filed /\ c \in Names[leads[id]]
    /\ leads' = [leads EXCEPT ![id] = c]
    /\ filed' = filed \cup {id}
    /\ UNCHANGED <<exists, vec, pc, job, cut>>

SearchSimilar ==
    /\ Request
    /\ pc' = "drop" /\ job' = Doing("search")
    /\ UNCHANGED <<store, cut>>

\* importLeadsFromCsv: the companies there are, read once.
Import(file) ==
    /\ Request
    /\ pc' = "import"
    /\ job' = [Doing("import") EXCEPT !.file = file, !.row = 1,
                                     !.existing = {leads[id] : id \in DOMAIN leads}]
    /\ UNCHANGED <<store, cut>>

HasRow == At("import") /\ job.row <= Len(job.file)
Row == job.file[job.row]

\* csvLeadId: the first number from seq on that is free.
FreeNumber(c, seq) ==
    CHOOSE n \in seq .. seq + Cardinality(DOMAIN leads) :
        /\ CsvId(c, n) \notin DOMAIN leads
        /\ \A m \in seq .. n - 1 : CsvId(c, m) \in DOMAIN leads

(* Mutant of Insert: the company is not added to those there are. *)
Insert_Forgotten ==
    /\ HasRow /\ Row.complete /\ Row.company \notin job.existing
    /\ Lead(CsvId(Row.company, FreeNumber(Row.company, job.seq + 1)), Row.company)
    /\ job' = [job EXCEPT !.row = @ + 1, !.seq = @ + 1]
    /\ UNCHANGED <<exists, filed, vec, pc, cut, bounds>>

Insert ==
    /\ HasRow /\ Row.complete /\ Row.company \notin job.existing
    /\ Lead(CsvId(Row.company, FreeNumber(Row.company, job.seq + 1)), Row.company)
    /\ job' = [job EXCEPT !.row = @ + 1, !.seq = @ + 1, !.existing = @ \cup {Row.company}]
    /\ UNCHANGED <<exists, filed, vec, pc, cut, bounds>>

\* A company there is, or a row without its required columns.
Skip ==
    /\ HasRow /\ (~Row.complete \/ Row.company \in job.existing)
    /\ job' = [job EXCEPT !.row = @ + 1]
    /\ UNCHANGED <<store, pc, cut, bounds>>

\* The vectors are rebuilt if any row was inserted, then the import answers.
Imported ==
    /\ At("import") /\ ~HasRow
    /\ IF job.seq > 0 THEN pc' = "drop" /\ UNCHANGED job
                      ELSE pc' = "serve" /\ job' = NoJob
    /\ UNCHANGED <<store, cut, bounds>>

\* The process dies between two statements.
Crash ==
    /\ ~At("down") /\ crashes < MaxCrashes
    /\ crashes' = crashes + 1
    /\ cut' = (cut \/ (Booting /\ exists /\ ~Seeded))
    /\ pc' = "down" /\ job' = NoJob
    /\ UNCHANGED <<store, spent>>

-----------------------------------------------------------------------------
Statement ==
    \/ Remove \/ Migrate \/ SeedEnds \/ Drop \/ Create \/ Filled
    \/ \E i \in DOMAIN Seeds : Seed(i)
    \/ \E id \in DOMAIN leads : Fill(id) \/ FillThrows(id)
    \/ Insert \/ Skip \/ Imported

Next ==
    \/ Start \/ Reseed \/ Statement \/ SearchSimilar \/ Crash
    \/ \E id \in DOMAIN leads, c \in Companies : Rename(id, c)
    \/ \E file \in CsvFiles : Import(file)

\* A server that is down is started again, and a statement returns.
Spec == Init /\ [][Next]_vars /\ WF_vars(Start) /\ WF_vars(Statement)

-----------------------------------------------------------------------------
(* What must hold.                                                         *)

\* Wherever a crash hits, the server comes up again, whatever is left of the
\* tables and vectors; only two leads of one name keep it down.
RestartRecovers == ~At("serve") ~> At("serve") \/ Twins

\* The file a server serves holds every lead of the seed, over crashes, restarts
\* and reseeds, unless a crash hit while that very file was being seeded: the
\* next start takes any file for a whole one.
ServesWhole == At("serve") => Seeded \/ cut

\* An import inserts no company that is there already, in the table or in the
\* same file, also when it repeats an import that crashed or failed halfway; and
\* when it ends, be it with status 500, every complete row of its file has its lead.
ImportExact ==
    [][/\ job.for = "import" =>
            \A id \in DOMAIN leads' \ DOMAIN leads : \A i \in DOMAIN leads : leads[i] # leads'[id]
       /\ job.for = "import" /\ pc' = "serve" =>
            \A r \in DOMAIN job.file : job.file[r].complete =>
                \E id \in DOMAIN leads : leads[id] = job.file[r].company]_vars
=============================================================================
