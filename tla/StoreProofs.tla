---------------------------- MODULE StoreProofs ----------------------------
(***************************************************************************)
(* What holds of LeadStore for every set of companies, every seed, every   *)
(* CSV file and any bounds: the proofs.                                    *)
(***************************************************************************)
EXTENDS LeadStore, FiniteSetTheorems, NaturalsInduction, WellFoundedInduction, TLAPS

-----------------------------------------------------------------------------
(* The inductive invariant.                                                *)

Table == {leads[id] : id \in DOMAIN leads}

\* Where the process can be with which job.
Placed ==
    /\ pc \in {"remove", "seed"} => Booting
    /\ pc \in {"down", "serve"} => job = NoJob
    /\ pc = "import" => job.for = "import" /\ job.seq < job.row
    /\ pc \notin {"down", "remove"} => exists
    /\ pc # "fill" => job.todo = {}
    /\ pc = "fill" => vec \subseteq Companies

\* ServesWhole, as it is kept while the process is on its way.
Whole == exists => Seeded \/ cut \/ (Booting /\ pc \in {"remove", "migrate", "seed"})

\* What an import knows is what the table holds, and the rows it has passed are
\* in the table.
Recorded ==
    /\ pc = "import" => job.existing = Table
    /\ job.for = "import" => \A r \in DOMAIN job.file :
            job.file[r].complete /\ (pc = "import" => r < job.row)
                => job.file[r].company \in Table

\* The parts of TypeOK.
TablesOK ==
    /\ exists \in BOOLEAN /\ cut \in BOOLEAN
    /\ DOMAIN leads \subseteq (Slugs \cup {"seed"}) \X Nat
    /\ leads \in [DOMAIN leads -> Companies]
    /\ filed \subseteq DOMAIN leads
    /\ vec = NoTable \/ vec \subseteq Companies
    /\ IsFiniteSet(DOMAIN leads)
JobOK == job \in Job /\ job.row <= Len(job.file) + 1 /\ job.seq <= Len(job.file)
BoundsOK == spent \in 0 .. MaxRequests /\ crashes \in 0 .. MaxCrashes

IInv == TablesOK /\ pc \in Places /\ JobOK /\ BoundsOK /\ Placed /\ Whole /\ Recorded

-----------------------------------------------------------------------------
(* Ids and companies of new leads.                                         *)

(* The number csvLeadId looks for exists, so it never takes the id of a lead *)
(* there is.                                                                *)
LEMMA FreeNumberIsFree ==
    ASSUME IsFiniteSet(DOMAIN leads), NEW c, NEW seq \in Nat
    PROVE  FreeNumber(c, seq) \in Nat /\ CsvId(c, FreeNumber(c, seq)) \notin DOMAIN leads
<1> DEFINE card == Cardinality(DOMAIN leads)
           N == seq .. seq + card
           T == {n \in N : CsvId(c, n) \notin DOMAIN leads}
<1>1. card \in Nat
  BY FS_CardinalityType
<1>2. T # {}
  <2> SUFFICES ASSUME \A n \in N : CsvId(c, n) \in DOMAIN leads
               PROVE  FALSE
    OBVIOUS
  <2> DEFINE f == [n \in N |-> CsvId(c, n)]
  <2>1. f \in [N -> DOMAIN leads]
    OBVIOUS
  <2>2. IsFiniteSet(N) /\ Cardinality(N) = card + 1
    BY <1>1, FS_Interval
  <2>3. Cardinality(DOMAIN leads) < Cardinality(N)
    BY <1>1, <2>2
  <2>4. \E x, y \in N : x # y /\ f[x] = f[y]
    <3> HIDE DEF f, N, card
    <3> QED
      BY <2>1, <2>2, <2>3, FS_PigeonHole
  <2> QED
    BY <2>4 DEF CsvId
<1>3. T \subseteq Nat
  BY <1>1
<1>4. PICK n \in T : \A m \in T : ~ <<m, n>> \in OpToRel(<, Nat)
  BY <1>2, <1>3, NatLessThanWellFounded, WFMin DEF OpToRel
<1>5. \A m \in T : ~ (m < n)
  BY <1>3, <1>4 DEF OpToRel
<1>6. /\ n \in N /\ CsvId(c, n) \notin DOMAIN leads
      /\ \A m \in seq .. n - 1 : CsvId(c, m) \in DOMAIN leads
  BY <1>1, <1>5
<1> HIDE DEF card
<1>7. FreeNumber(c, seq) \in N /\ CsvId(c, FreeNumber(c, seq)) \notin DOMAIN leads
  BY <1>6 DEF FreeNumber, card
<1> QED
  BY <1>1, <1>7

(* A lead with a new id is added, and the others stay. *)
LEMMA LeadAdded ==
    ASSUME TablesOK,
           NEW id \in (Slugs \cup {"seed"}) \X Nat, id \notin DOMAIN leads,
           NEW c \in Companies, Lead(id, c)
    PROVE  /\ DOMAIN leads' = DOMAIN leads \cup {id}
           /\ DOMAIN leads' \subseteq (Slugs \cup {"seed"}) \X Nat
           /\ leads' \in [DOMAIN leads' -> Companies]
           /\ IsFiniteSet(DOMAIN leads')
           /\ leads'[id] = c
           /\ \A i \in DOMAIN leads : leads'[i] = leads[i]
           /\ Table' = Table \cup {c}
<1>1. leads' = [i \in DOMAIN leads \cup {id} |-> IF i = id THEN c ELSE leads[i]]
  BY DEF Lead
<1>2. DOMAIN leads' = DOMAIN leads \cup {id} /\ leads'[id] = c
      /\ \A i \in DOMAIN leads : leads'[i] = leads[i]
  BY <1>1
<1>3. leads' \in [DOMAIN leads' -> Companies]
  BY <1>1 DEF TablesOK
<1>4. IsFiniteSet(DOMAIN leads')
  BY <1>2, FS_AddElement DEF TablesOK
<1>5. Table' = Table \cup {c}
  <2>1. ASSUME NEW x PROVE x \in Table' <=> x \in Table \cup {c}
    BY <1>2 DEF Table
  <2> QED
    BY <2>1
<1> QED
  BY <1>2, <1>3, <1>4, <1>5 DEF TablesOK

-----------------------------------------------------------------------------
(* The invariant is kept.                                                  *)

(* A job that has just begun. *)
LEMMA DoingType ==
    ASSUME NEW what \in {"none", "start", "first", "reseed", "import", "search"},
           NEW j, j = Doing(what)
    PROVE  /\ j \in Job /\ j.row <= Len(j.file) + 1 /\ j.seq <= Len(j.file)
           /\ j.for = what /\ j.todo = {} /\ j.file = <<>>
<1>1. /\ j.for = what /\ j.file = <<>> /\ j.row = 0 /\ j.seq = 0 /\ j.todo = {}
      /\ j \in Job
  BY DEF Doing, Job
<1>2. Len(<<>>) = 0
  OBVIOUS
<1> QED
  BY <1>1, <1>2

LEMMA InitIInv == Init => IInv
<1> SUFFICES ASSUME Init PROVE IInv
  OBVIOUS
<1>1. DOMAIN leads = {} /\ IsFiniteSet(DOMAIN leads)
  BY FS_EmptySet DEF Init
<1>2. TablesOK
  <2>1. leads \in [DOMAIN leads -> Companies]
    BY <1>1 DEF Init
  <2> QED
    BY <1>1, <2>1 DEF Init, TablesOK
<1>3. pc \in Places /\ BoundsOK
  BY BoundsAssumption DEF Init, Places, BoundsOK
<1>4. JobOK
  BY DoingType DEF Init, NoJob, JobOK
<1>5. Placed /\ Whole /\ Recorded
  BY DoingType DEF Init, NoJob, Placed, Whole, Recorded
<1> QED
  BY <1>2, <1>3, <1>4, <1>5 DEF IInv

(* What a step that leaves the tables alone owes the invariant. *)
LEMMA SameTables ==
    ASSUME UNCHANGED <<exists, leads, filed>>
    PROVE  /\ Table' = Table /\ Seeded' = Seeded /\ Job' = Job
           /\ TablesOK /\ cut' \in BOOLEAN /\ (vec' = NoTable \/ vec' \subseteq Companies)
                => TablesOK'
  BY DEF Table, Seeded, Job, TablesOK, NoTable

(* The start of the server and of the commands. *)
LEMMA StartKeeps ==
    ASSUME IInv, Start \/ Reseed
    PROVE  IInv'
<1>1. pc = "down" /\ UNCHANGED <<exists, leads, filed, vec, cut, crashes>>
  BY DEF Start, Reseed, At, bounds, store
<1>2. PICK what \in {"start", "first", "reseed"} :
        /\ job' = Doing(what)
        /\ \/ pc' = "migrate" /\ what = "start" /\ exists
           \/ pc' = "remove" /\ what # "start"
  BY DEF Start, Reseed
<1>3. TablesOK'
  BY <1>1, SameTables DEF IInv, TablesOK
<1>4. BoundsOK'
  <2>1. spent \in Nat /\ spent <= MaxRequests /\ crashes \in 0 .. MaxCrashes
    BY BoundsAssumption DEF IInv, BoundsOK
  <2>2. spent' = spent \/ (spent' = spent + 1 /\ spent < MaxRequests)
    BY DEF Start, Reseed, bounds
  <2>3. spent' \in 0 .. MaxRequests
    BY <2>1, <2>2, BoundsAssumption
  <2> QED
    BY <1>1, <2>1, <2>3 DEF BoundsOK
<1>5. JobOK'
  BY <1>1, <1>2, DoingType, SameTables DEF JobOK
<1>6. pc' \in Places /\ Placed'
  BY <1>1, <1>2, DoingType DEF Placed, Booting, Places
<1>7. Whole'
  BY <1>1, <1>2, DoingType, SameTables DEF IInv, Whole, Booting
<1>8. Recorded'
  BY <1>2, DoingType DEF Recorded
<1> QED
  BY <1>3, <1>4, <1>5, <1>6, <1>7, <1>8 DEF IInv

(* Removing the old file and opening a new one. *)
LEMMA RemoveKeeps ==
    ASSUME IInv, Remove
    PROVE  IInv'
<1>1. /\ pc = "remove" /\ Booting /\ pc' = "migrate" /\ job' = job /\ exists' = TRUE
      /\ leads' = <<>> /\ filed' = {} /\ vec' = NoTable /\ cut' = FALSE
      /\ UNCHANGED <<spent, crashes>> /\ job.todo = {}
  BY DEF IInv, Placed, Remove, At, bounds
<1>2. DOMAIN leads' = {}
  BY <1>1
<1>3. TablesOK'
  <2>1. leads' \in [DOMAIN leads' -> Companies] /\ IsFiniteSet(DOMAIN leads')
    BY <1>1, <1>2, FS_EmptySet
  <2>2. vec' = NoTable'
    BY <1>1 DEF NoTable
  <2> QED
    BY <1>1, <1>2, <2>1, <2>2 DEF TablesOK
<1>4. JobOK'
  BY <1>1 DEF IInv, JobOK, Job
<1>5. pc' \in Places /\ BoundsOK'
  BY <1>1 DEF IInv, Places, BoundsOK
<1>6. Placed' /\ Whole' /\ Recorded'
  BY <1>1 DEF Placed, Whole, Recorded, Booting
<1> QED
  BY <1>3, <1>4, <1>5, <1>6 DEF IInv

(* Statements that leave the tables of leads alone, and the job as it is. *)
LEMMA QuietKeeps ==
    ASSUME IInv, Migrate \/ SeedEnds \/ Drop
    PROVE  IInv'
<1>1. /\ UNCHANGED <<exists, leads, filed, job, cut, spent, crashes>>
      /\ vec' = vec \/ vec' = NoTable
  BY DEF Migrate, SeedEnds, Drop, store, bounds
<1>2. \/ pc = "migrate" /\ pc' = "seed" /\ Booting
      \/ pc = "migrate" /\ pc' = "drop" /\ ~Booting
      \/ pc = "seed" /\ pc' = "drop" /\ Seeded
      \/ pc = "drop" /\ pc' = "create"
  BY DEF Migrate, SeedEnds, Drop, At
<1>3. TablesOK'
  BY <1>1, SameTables DEF IInv, TablesOK
<1>4. JobOK' /\ BoundsOK'
  BY <1>1, SameTables DEF IInv, JobOK, BoundsOK
<1>5. pc' \in Places /\ Placed'
  BY <1>1, <1>2 DEF IInv, Placed, Booting, Places
<1>6. Whole'
  BY <1>1, <1>2, SameTables DEF IInv, Whole, Booting
<1>7. Recorded'
  BY <1>1, <1>2, SameTables DEF IInv, Recorded
<1> QED
  BY <1>3, <1>4, <1>5, <1>6, <1>7 DEF IInv

(* A lead of the seed is added. *)
LEMMA SeedKeeps ==
    ASSUME IInv, NEW i \in DOMAIN Seeds, Seed(i)
    PROVE  IInv'
<1>1. /\ pc = "seed" /\ SeedId(i) \notin DOMAIN leads /\ Lead(SeedId(i), Seeds[i])
      /\ filed' \subseteq filed \cup {SeedId(i)}
      /\ UNCHANGED <<exists, vec, pc, job, cut, spent, crashes>>
  BY DEF Seed, At, bounds
<1>2. SeedId(i) \in (Slugs \cup {"seed"}) \X Nat /\ Seeds[i] \in Companies
  BY SeedsAssumption DEF SeedId
<1>3. /\ DOMAIN leads' = DOMAIN leads \cup {SeedId(i)}
      /\ DOMAIN leads' \subseteq (Slugs \cup {"seed"}) \X Nat
      /\ leads' \in [DOMAIN leads' -> Companies]
      /\ IsFiniteSet(DOMAIN leads')
  BY <1>1, <1>2, LeadAdded DEF IInv
<1>4. TablesOK'
  <2>1. filed' \subseteq DOMAIN leads'
    BY <1>1, <1>3 DEF IInv, TablesOK
  <2> QED
    BY <1>1, <1>3, <2>1 DEF IInv, TablesOK, NoTable
<1>5. Booting /\ exists /\ job.todo = {}
  BY <1>1 DEF IInv, Placed
<1>6. JobOK' /\ BoundsOK'
  BY <1>1, <1>5 DEF IInv, JobOK, BoundsOK, Job
<1>7. pc' \in Places /\ Placed'
  BY <1>1 DEF IInv, Placed, Booting
<1>8. Whole' /\ Recorded'
  BY <1>1, <1>5 DEF Whole, Recorded, Booting
<1> QED
  BY <1>4, <1>6, <1>7, <1>8 DEF IInv

(* The table of vectors is created, and the leads to fill it with are read. *)
LEMMA CreateKeeps ==
    ASSUME IInv, Create
    PROVE  IInv'
<1>1. /\ pc = "create" /\ pc' = "fill" /\ vec' = {}
      /\ job' = [job EXCEPT !.todo = DOMAIN leads]
      /\ UNCHANGED <<exists, leads, filed, cut, spent, crashes>>
  BY DEF Create, At, bounds
<1>2. job \in Job
  BY DEF IInv, JobOK
<1>3. /\ job' \in Job /\ job'.for = job.for /\ job'.file = job.file /\ job'.row = job.row
      /\ job'.seq = job.seq
  BY <1>1, <1>2 DEF Job
<1>4. TablesOK'
  BY <1>1, SameTables DEF IInv, TablesOK
<1>5. JobOK' /\ BoundsOK'
  BY <1>1, <1>3, SameTables DEF IInv, JobOK, BoundsOK
<1>6. pc' \in Places /\ Placed'
  BY <1>1, <1>3 DEF IInv, Placed, Places
<1>7. Whole'
  BY <1>1, SameTables DEF IInv, Whole
<1>8. Recorded'
  BY <1>1, <1>3, SameTables DEF IInv, Recorded
<1> QED
  BY <1>4, <1>5, <1>6, <1>7, <1>8 DEF IInv

(* One vector is written. *)
LEMMA FillKeeps ==
    ASSUME IInv, NEW id \in DOMAIN leads, Fill(id)
    PROVE  IInv'
<1>1. /\ pc = "fill" /\ vec' = vec \cup {leads[id]} /\ leads[id] \notin vec
      /\ job' = [job EXCEPT !.todo = job.todo \ {id}]
      /\ UNCHANGED <<exists, leads, filed, pc, cut, spent, crashes>>
  BY DEF Fill, At, bounds
<1>2. job \in Job /\ leads[id] \in Companies
  BY DEF IInv, JobOK, TablesOK
<1>3. /\ job' \in Job /\ job'.for = job.for /\ job'.file = job.file /\ job'.row = job.row
      /\ job'.seq = job.seq
  BY <1>1, <1>2 DEF Job
<1>4. vec' \subseteq Companies
  BY <1>1, <1>2 DEF IInv, Placed
<1>5. TablesOK'
  BY <1>1, <1>4, SameTables DEF IInv, TablesOK
<1>6. JobOK' /\ BoundsOK'
  BY <1>1, <1>3, SameTables DEF IInv, JobOK, BoundsOK
<1>7. pc' \in Places /\ Placed'
  BY <1>1, <1>3, <1>4 DEF IInv, Placed
<1>8. Whole'
  BY <1>1, SameTables DEF IInv, Whole
<1>9. Recorded'
  BY <1>1, <1>3, SameTables DEF IInv, Recorded
<1> QED
  BY <1>5, <1>6, <1>7, <1>8, <1>9 DEF IInv

(* What a step owes when it ends the job and the server serves, or nothing runs. *)
LEMMA EndKeeps ==
    ASSUME IInv, UNCHANGED <<exists, leads, filed, vec, spent>>,
           pc' \in {"down", "serve"}, job' = NoJob, pc' = "serve" => exists,
           cut' \in BOOLEAN, BoundsOK',
           exists => Seeded \/ cut'
    PROVE  IInv'
<1>1. /\ job' \in Job /\ job'.row <= Len(job'.file) + 1 /\ job'.seq <= Len(job'.file)
      /\ job'.for = "none" /\ job'.todo = {} /\ job'.file = <<>>
  BY DoingType DEF NoJob
<1>2. TablesOK'
  BY SameTables DEF IInv, TablesOK
<1>3. JobOK'
  BY <1>1, SameTables DEF JobOK
<1>4. pc' \in Places /\ Placed'
  BY <1>1 DEF Placed, Places, NoJob
<1>5. Whole'
  BY SameTables DEF Whole
<1>6. Recorded'
  BY <1>1 DEF Recorded
<1> QED
  BY <1>2, <1>3, <1>4, <1>5, <1>6 DEF IInv

LEMMA ThrowsKeeps ==
    ASSUME IInv, NEW id \in DOMAIN leads, FillThrows(id)
    PROVE  IInv'
<1>1. /\ pc = "fill" /\ pc' \in {"down", "serve"} /\ job' = NoJob
      /\ UNCHANGED <<exists, leads, filed, vec, cut, spent, crashes>>
  BY DEF FillThrows, Throws, At, store, bounds
<1>2. exists /\ (Seeded \/ cut) /\ cut \in BOOLEAN
  BY <1>1 DEF IInv, Placed, Whole, TablesOK
<1> QED
  BY <1>1, <1>2, EndKeeps DEF IInv, BoundsOK

LEMMA FilledKeeps ==
    ASSUME IInv, Filled
    PROVE  IInv'
<1>1. /\ pc = "fill" /\ job.todo = {}
      /\ UNCHANGED <<exists, leads, filed, vec, cut, spent, crashes>>
  BY DEF Filled, At, store, bounds
<1>2. exists /\ (Seeded \/ cut) /\ cut \in BOOLEAN
  BY <1>1 DEF IInv, Placed, Whole, TablesOK
<1>3. CASE job.for # "first"
  <2>1. job' = NoJob /\ pc' \in {"down", "serve"}
    BY <1>3 DEF Filled
  <2> QED
    BY <1>1, <1>2, <2>1, EndKeeps DEF IInv, BoundsOK
<1>4. CASE job.for = "first"
  <2>1. pc' = "migrate" /\ job' = [job EXCEPT !.for = "start"]
    BY <1>4 DEF Filled
  <2>2. job \in Job
    BY DEF IInv, JobOK
  <2>3. /\ job' \in Job /\ job'.for = "start" /\ job'.file = job.file /\ job'.row = job.row
        /\ job'.seq = job.seq /\ job'.todo = {}
    BY <1>1, <2>1, <2>2 DEF Job
  <2>4. TablesOK'
    BY <1>1, SameTables DEF IInv, TablesOK
  <2>5. JobOK' /\ BoundsOK'
    BY <1>1, <2>3, SameTables DEF IInv, JobOK, BoundsOK
  <2>6. pc' \in Places /\ Placed' /\ Recorded'
    BY <1>1, <1>2, <2>1, <2>3 DEF Placed, Places, Recorded
  <2>7. Whole'
    BY <1>1, <1>2, SameTables DEF Whole
  <2> QED
    BY <2>4, <2>5, <2>6, <2>7 DEF IInv
<1> QED
  BY <1>3, <1>4

-----------------------------------------------------------------------------
(* Requests and crashes.                                                   *)

(* A request is counted. *)
LEMMA RequestCounts ==
    ASSUME IInv, Request
    PROVE  pc = "serve" /\ job = NoJob /\ exists /\ BoundsOK' /\ (Seeded \/ cut)
<1>1. pc = "serve" /\ spent < MaxRequests /\ spent' = spent + 1 /\ crashes' = crashes
  BY DEF Request, At
<1>2. BoundsOK'
  BY <1>1, BoundsAssumption DEF IInv, BoundsOK
<1> QED
  BY <1>1, <1>2 DEF IInv, Placed, Whole

LEMMA RenameKeeps ==
    ASSUME IInv, NEW id \in DOMAIN leads, NEW c \in Companies, Rename(id, c)
    PROVE  IInv'
<1>1. /\ Request /\ leads' = [leads EXCEPT ![id] = c] /\ filed' = filed \cup {id}
      /\ UNCHANGED <<exists, vec, pc, job, cut>>
  BY DEF Rename
<1>2. pc = "serve" /\ job = NoJob /\ exists /\ BoundsOK' /\ (Seeded \/ cut)
  BY <1>1, RequestCounts
<1>3. DOMAIN leads' = DOMAIN leads /\ leads' \in [DOMAIN leads -> Companies]
  BY <1>1 DEF IInv, TablesOK
<1>4. TablesOK'
  BY <1>1, <1>3 DEF IInv, TablesOK, NoTable
<1>5. JobOK'
  BY <1>1, <1>3 DEF IInv, JobOK, Job
<1>6. pc' \in Places /\ Placed'
  BY <1>1 DEF IInv, Placed, Booting, NoJob
<1>7. Whole'
  BY <1>1, <1>2, <1>3 DEF Whole, Seeded
<1>8. Recorded'
  <2>1. job.for = "none"
    BY <1>2, DoingType DEF NoJob
  <2> QED
    BY <1>1, <1>2, <2>1 DEF Recorded
<1> QED
  BY <1>2, <1>4, <1>5, <1>6, <1>7, <1>8 DEF IInv

LEMMA SearchKeeps ==
    ASSUME IInv, SearchSimilar
    PROVE  IInv'
<1>1. /\ Request /\ pc' = "drop" /\ job' = Doing("search")
      /\ UNCHANGED <<exists, leads, filed, vec, cut>>
  BY DEF SearchSimilar, store
<1>2. pc = "serve" /\ exists /\ BoundsOK' /\ (Seeded \/ cut)
  BY <1>1, RequestCounts
<1>3. /\ job' \in Job /\ job'.row <= Len(job'.file) + 1 /\ job'.seq <= Len(job'.file)
      /\ job'.for = "search" /\ job'.todo = {}
  BY <1>1, DoingType
<1>4. TablesOK'
  BY <1>1, SameTables DEF IInv, TablesOK
<1>5. JobOK'
  BY <1>1, <1>3, SameTables DEF JobOK
<1>6. pc' \in Places /\ Placed' /\ Recorded'
  BY <1>1, <1>2, <1>3 DEF Placed, Places, Recorded
<1>7. Whole'
  BY <1>1, <1>2, SameTables DEF Whole
<1> QED
  BY <1>2, <1>4, <1>5, <1>6, <1>7 DEF IInv

(* The import begins with the companies of the table and the first row. *)
LEMMA ImportKeeps ==
    ASSUME IInv, NEW file \in CsvFiles, Import(file)
    PROVE  IInv'
<1>1. /\ Request /\ pc' = "import"
      /\ job' = [Doing("import") EXCEPT !.file = file, !.row = 1, !.existing = Table]
      /\ UNCHANGED <<exists, leads, filed, vec, cut>>
  BY DEF Import, store, Table
<1>2. pc = "serve" /\ exists /\ BoundsOK' /\ (Seeded \/ cut)
  BY <1>1, RequestCounts
<1>3. Table \in SUBSET Companies
  BY DEF IInv, TablesOK, Table
<1>4. /\ job'.for = "import" /\ job'.file = file /\ job'.row = 1 /\ job'.seq = 0
      /\ job'.todo = {} /\ job'.existing = Table /\ job' \in Job
  BY <1>1, <1>3 DEF Doing, Job
<1>5. file \in Seq([company : Companies, complete : BOOLEAN])
  BY FilesAssumption
<1>6. Len(file) \in Nat /\ DOMAIN file = 1 .. Len(file)
  BY <1>5
<1>7. TablesOK'
  BY <1>1, SameTables DEF IInv, TablesOK
<1>8. JobOK'
  BY <1>1, <1>4, <1>6, SameTables DEF JobOK
<1>9. pc' \in Places /\ Placed'
  BY <1>1, <1>2, <1>4 DEF Placed, Places
<1>10. Whole'
  BY <1>1, <1>2, SameTables DEF Whole
<1>11. Recorded'
  BY <1>1, <1>4, <1>6, SameTables DEF Recorded
<1> QED
  BY <1>2, <1>7, <1>8, <1>9, <1>10, <1>11 DEF IInv

(* The row an import is at. *)
LEMMA RowType ==
    ASSUME IInv, HasRow
    PROVE  /\ pc = "import" /\ job.for = "import" /\ exists /\ job.todo = {}
           /\ job.row \in Nat /\ job.seq \in Nat /\ job.seq < job.row
           /\ Len(job.file) \in Nat /\ job.row <= Len(job.file) /\ job.row \in DOMAIN job.file
           /\ DOMAIN job.file = 1 .. Len(job.file)
           /\ Row = job.file[job.row] /\ Row.company \in Companies
           /\ job.existing = Table
<1>1. /\ pc = "import" /\ job.for = "import" /\ exists /\ job.todo = {}
      /\ job.seq < job.row /\ job.row <= Len(job.file) /\ job.existing = Table
  BY DEF HasRow, At, IInv, Placed, Recorded
<1>2. job.row \in Nat /\ job.seq \in Nat /\ job.file \in CsvFiles \cup {<<>>}
  BY DEF IInv, JobOK, Job
<1> DEFINE Rows == [company : Companies, complete : BOOLEAN]
<1>3. job.file \in Seq(Rows)
  <2>1. <<>> \in Seq(Rows)
    OBVIOUS
  <2>2. CsvFiles \subseteq Seq(Rows)
    BY FilesAssumption
  <2> HIDE DEF Rows
  <2> QED
    BY <1>2, <2>1, <2>2
<1>4. Len(job.file) \in Nat /\ DOMAIN job.file = 1 .. Len(job.file)
  BY <1>3
<1>5. job.row \in DOMAIN job.file
  BY <1>1, <1>2, <1>4
<1>6. job.file[job.row].company \in Companies
  <2>1. job.file[job.row] \in Rows
    <3> HIDE DEF Rows
    <3> QED
      BY <1>3, <1>5
  <2> QED
    BY <2>1
<1> QED
  BY <1>1, <1>2, <1>4, <1>5, <1>6 DEF Row

(* An inserted row takes a new id, so no lead is lost and its company counts *)
(* as known from then on.                                                   *)
LEMMA InsertKeeps ==
    ASSUME IInv, Insert
    PROVE  /\ IInv'
           /\ \A id \in DOMAIN leads' \ DOMAIN leads :
                \A i \in DOMAIN leads : leads[i] # leads'[id]
<1> DEFINE c == Row.company
           id == CsvId(c, FreeNumber(c, job.seq + 1))
<1>1. /\ HasRow /\ Row.complete /\ c \notin job.existing /\ Lead(id, c)
      /\ job' = [job EXCEPT !.row = job.row + 1, !.seq = job.seq + 1,
                            !.existing = job.existing \cup {c}]
      /\ UNCHANGED <<exists, filed, vec, pc, cut, spent, crashes>>
  BY DEF Insert, bounds
<1>2. /\ pc = "import" /\ job.for = "import" /\ exists /\ job.todo = {}
      /\ job.row \in Nat /\ job.seq \in Nat /\ job.seq < job.row
      /\ Len(job.file) \in Nat /\ job.row <= Len(job.file) /\ job.row \in DOMAIN job.file
      /\ DOMAIN job.file = 1 .. Len(job.file)
      /\ Row = job.file[job.row] /\ c \in Companies
      /\ job.existing = Table
  BY <1>1, RowType
<1>3. id \in (Slugs \cup {"seed"}) \X Nat /\ id \notin DOMAIN leads
  <2>1. FreeNumber(c, job.seq + 1) \in Nat /\ id \notin DOMAIN leads
    BY <1>2, FreeNumberIsFree DEF IInv, TablesOK
  <2> QED
    BY <1>2, <2>1 DEF CsvId, Slugs
<1> HIDE DEF c, id
<1>4. /\ DOMAIN leads' = DOMAIN leads \cup {id}
      /\ DOMAIN leads' \subseteq (Slugs \cup {"seed"}) \X Nat
      /\ leads' \in [DOMAIN leads' -> Companies]
      /\ IsFiniteSet(DOMAIN leads')
      /\ leads'[id] = c
      /\ Table' = Table \cup {c}
  BY <1>1, <1>2, <1>3, LeadAdded DEF IInv
<1>5. TablesOK'
  BY <1>1, <1>4 DEF IInv, TablesOK, NoTable
<1>6. job \in Job
  BY DEF IInv, JobOK
<1>7. /\ job'.for = "import" /\ job'.file = job.file /\ job'.row = job.row + 1
      /\ job'.seq = job.seq + 1 /\ job'.existing = Table' /\ job'.todo = {}
  BY <1>1, <1>2, <1>4, <1>6 DEF Job
<1>8. job' \in Job'
  <2>1. job.existing \cup {c} \in SUBSET Companies
    BY <1>2, <1>6 DEF Job
  <2>2. job.row + 1 \in Nat /\ job.seq + 1 \in Nat
    BY <1>2
  <2>3. job' \in Job
    BY <1>1, <1>6, <2>1, <2>2 DEF Job
  <2> QED
    BY <1>7, <2>3 DEF Job
<1>9. JobOK' /\ BoundsOK'
  BY <1>1, <1>2, <1>7, <1>8 DEF IInv, JobOK, BoundsOK
<1>10. pc' \in Places /\ Placed'
  BY <1>1, <1>2, <1>7 DEF IInv, Placed
<1>11. Whole'
  BY <1>1, <1>2, <1>4 DEF IInv, Whole, Seeded
<1>12. Recorded'
  <2> SUFFICES ASSUME NEW r \in DOMAIN job.file, job.file[r].complete, r < job.row + 1
               PROVE  job.file[r].company \in Table'
    BY <1>1, <1>2, <1>7 DEF Recorded
  <2>1. CASE r < job.row
    BY <1>2, <1>4, <2>1 DEF IInv, Recorded
  <2>2. CASE r = job.row
    BY <1>2, <1>4, <2>2 DEF c
  <2> QED
    BY <1>2, <2>1, <2>2
<1>13. \A i \in DOMAIN leads : leads[i] # leads'[id]
  BY <1>1, <1>2, <1>4 DEF Table
<1> QED
  BY <1>4, <1>5, <1>9, <1>10, <1>11, <1>12, <1>13 DEF IInv

(* A skipped row is incomplete, or its company has its lead. *)
LEMMA SkipKeeps ==
    ASSUME IInv, Skip
    PROVE  IInv'
<1>1. /\ HasRow /\ (~Row.complete \/ Row.company \in job.existing)
      /\ job' = [job EXCEPT !.row = job.row + 1]
      /\ UNCHANGED <<exists, leads, filed, vec, pc, cut, spent, crashes>>
  BY DEF Skip, store, bounds
<1>2. /\ pc = "import" /\ job.for = "import" /\ exists /\ job.todo = {}
      /\ job.row \in Nat /\ job.seq \in Nat /\ job.seq < job.row
      /\ Len(job.file) \in Nat /\ job.row <= Len(job.file) /\ job.row \in DOMAIN job.file
      /\ DOMAIN job.file = 1 .. Len(job.file)
      /\ Row = job.file[job.row]
      /\ job.existing = Table
  BY <1>1, RowType
<1>3. job \in Job /\ job.row + 1 \in Nat
  BY <1>2 DEF IInv, JobOK
<1>4. /\ job' \in Job /\ job'.for = "import" /\ job'.file = job.file
      /\ job'.row = job.row + 1 /\ job'.seq = job.seq /\ job'.existing = job.existing
      /\ job'.todo = {}
  BY <1>1, <1>2, <1>3 DEF Job
<1>5. TablesOK'
  BY <1>1, SameTables DEF IInv, TablesOK
<1>6. JobOK' /\ BoundsOK'
  BY <1>1, <1>2, <1>4, SameTables DEF IInv, JobOK, BoundsOK
<1>7. pc' \in Places /\ Placed'
  BY <1>1, <1>2, <1>4 DEF IInv, Placed
<1>8. Whole'
  BY <1>1, SameTables DEF IInv, Whole, Booting
<1>9. Recorded'
  <2> SUFFICES ASSUME NEW r \in DOMAIN job.file, job.file[r].complete, r < job.row + 1
               PROVE  job.file[r].company \in Table
    BY <1>1, <1>2, <1>4, SameTables DEF Recorded
  <2>1. CASE r < job.row
    BY <1>2, <2>1 DEF IInv, Recorded
  <2>2. CASE r = job.row
    BY <1>1, <1>2, <2>2
  <2> QED
    BY <1>2, <2>1, <2>2
<1> QED
  BY <1>5, <1>6, <1>7, <1>8, <1>9 DEF IInv

(* All rows are read: the vectors come next, or the import answers. *)
LEMMA ImportedKeeps ==
    ASSUME IInv, Imported
    PROVE  /\ IInv'
           /\ \A r \in DOMAIN job.file :
                job.file[r].complete => job.file[r].company \in Table
<1>1. pc = "import" /\ ~HasRow /\ UNCHANGED <<exists, leads, filed, vec, cut, spent, crashes>>
  BY DEF Imported, At, store, bounds
<1>2. /\ job.for = "import" /\ exists /\ job.todo = {} /\ job.row \in Nat
      /\ job.file \in CsvFiles \cup {<<>>}
  BY <1>1 DEF IInv, Placed, JobOK, Job
<1> DEFINE Rows == [company : Companies, complete : BOOLEAN]
<1>3. job.file \in Seq(Rows)
  <2>1. <<>> \in Seq(Rows)
    OBVIOUS
  <2>2. CsvFiles \subseteq Seq(Rows)
    BY FilesAssumption
  <2> HIDE DEF Rows
  <2> QED
    BY <1>2, <2>1, <2>2
<1>4. \A r \in DOMAIN job.file : r < job.row
  <2>1. Len(job.file) \in Nat /\ DOMAIN job.file = 1 .. Len(job.file)
    BY <1>3
  <2>2. Len(job.file) < job.row
    BY <1>1, <1>2, <2>1 DEF HasRow, At
  <2> QED
    BY <1>2, <2>1, <2>2
<1>5. \A r \in DOMAIN job.file : job.file[r].complete => job.file[r].company \in Table
  BY <1>1, <1>2, <1>4 DEF IInv, Recorded
<1>6. CASE job.seq > 0
  <2>1. pc' = "drop" /\ job' = job
    BY <1>6 DEF Imported
  <2>2. TablesOK'
    BY <1>1, SameTables DEF IInv, TablesOK
  <2>3. JobOK' /\ BoundsOK'
    BY <1>1, <2>1, SameTables DEF IInv, JobOK, BoundsOK
  <2>4. pc' \in Places /\ Placed'
    BY <1>1, <1>2, <2>1 DEF Placed, Places
  <2>5. Whole'
    BY <1>1, <2>1, SameTables DEF IInv, Whole
  <2>6. Recorded'
    BY <1>1, <1>5, <2>1, SameTables DEF Recorded
  <2> QED
    BY <1>5, <2>2, <2>3, <2>4, <2>5, <2>6 DEF IInv
<1>7. CASE ~ (job.seq > 0)
  <2>1. pc' = "serve" /\ job' = NoJob
    BY <1>7 DEF Imported
  <2>2. (Seeded \/ cut) /\ cut \in BOOLEAN
    BY <1>1, <1>2 DEF IInv, Whole, TablesOK
  <2>3. IInv'
    BY <1>1, <1>2, <2>1, <2>2, EndKeeps DEF IInv, BoundsOK
  <2> QED
    BY <1>5, <2>3
<1> QED
  BY <1>6, <1>7

(* A crash: a seeding that it cut short is remembered in cut. *)
LEMMA CrashKeeps ==
    ASSUME IInv, Crash
    PROVE  IInv'
<1>1. /\ pc' = "down" /\ job' = NoJob /\ crashes < MaxCrashes /\ crashes' = crashes + 1
      /\ cut' = (cut \/ (Booting /\ exists /\ ~Seeded))
      /\ UNCHANGED <<exists, leads, filed, vec, spent>>
  BY DEF Crash, store
<1>2. cut' \in BOOLEAN /\ (exists => Seeded \/ cut')
  BY <1>1 DEF IInv, Whole, TablesOK
<1>3. BoundsOK'
  BY <1>1, BoundsAssumption DEF IInv, BoundsOK
<1> QED
  BY <1>1, <1>2, <1>3, EndKeeps

LEMMA NextIInv ==
    ASSUME IInv, [Next]_vars
    PROVE  IInv'
<1>1. CASE UNCHANGED vars
  <2>1. UNCHANGED <<exists, leads, filed, vec, pc, job, cut, spent, crashes>>
    BY <1>1 DEF vars, store, bounds
  <2>2. TablesOK'
    BY <2>1, SameTables DEF IInv, TablesOK
  <2>3. JobOK' /\ BoundsOK' /\ pc' \in Places
    BY <2>1, SameTables DEF IInv, JobOK, BoundsOK
  <2>4. Placed' /\ Whole' /\ Recorded'
    BY <2>1, SameTables DEF IInv, Placed, Whole, Recorded, Booting
  <2> QED
    BY <2>2, <2>3, <2>4 DEF IInv
<1>2. CASE Statement
  BY <1>2, RemoveKeeps, QuietKeeps, SeedKeeps, CreateKeeps, FillKeeps, ThrowsKeeps,
     FilledKeeps, InsertKeeps, SkipKeeps, ImportedKeeps DEF Statement
<1>3. CASE Next /\ ~Statement
  BY <1>3, StartKeeps, RenameKeeps, SearchKeeps, ImportKeeps, CrashKeeps DEF Next
<1> QED
  BY <1>1, <1>2, <1>3

-----------------------------------------------------------------------------
(* What the properties say.                                                *)

(* Every table, job and bound has its type, and the numbers of an import stay *)
(* within its file, for any file, seed and crash.                           *)
THEOREM TypeCorrect == Spec => []TypeOK
<1>1. IInv => TypeOK
  BY DEF IInv, TablesOK, JobOK, BoundsOK, TypeOK
<1> QED
  BY <1>1, InitIInv, NextIInv, PTL DEF Spec

(* Whatever crashes, restarts and reseeds came before: a file that is served *)
(* holds the whole seed, unless a crash hit while it was being seeded.      *)
THEOREM ServedFilesAreWhole == Spec => []ServesWhole
<1>1. IInv => ServesWhole
  BY DEF IInv, Placed, Whole, ServesWhole, At
<1> QED
  BY <1>1, InitIInv, NextIInv, PTL DEF Spec

(* Only an import inserts while an import runs. *)
LEMMA OnlyInsertAdds ==
    ASSUME IInv, [Next]_vars, job.for = "import"
    PROVE  Insert \/ leads' = leads
<1>1. pc \notin {"remove", "seed", "serve", "down"}
  BY DoingType DEF IInv, Placed, Booting, NoJob
<1>2. CASE UNCHANGED vars
  BY <1>2 DEF vars, store
<1>3. CASE Statement
  BY <1>1, <1>3 DEF Statement, Remove, Migrate, SeedEnds, Drop, Create, Filled, Seed, Fill,
     FillThrows, Throws, Skip, Imported, At, store
<1>4. CASE Next /\ ~Statement
  BY <1>1, <1>4 DEF Next, Start, Reseed, SearchSimilar, Crash, Rename, Import, Request, At, store
<1> QED
  BY <1>2, <1>3, <1>4

(* An import adds exactly the companies of its complete rows that were not  *)
(* there, for any file, any slugs and ids, and after any crash.             *)
THEOREM ImportsAreExact == Spec => ImportExact
<1> DEFINE Adds == \A id \in DOMAIN leads' \ DOMAIN leads :
                        \A i \in DOMAIN leads : leads[i] # leads'[id]
           Done == \A r \in DOMAIN job.file : job.file[r].complete =>
                        \E id \in DOMAIN leads : leads[id] = job.file[r].company
           Exact == (job.for = "import" => Adds)
                    /\ (job.for = "import" /\ pc' = "serve" => Done)
<1>1. ASSUME IInv, [Next]_vars
      PROVE  Exact
  <2> SUFFICES ASSUME job.for = "import"
               PROVE  Adds /\ (pc' = "serve" => Done)
    OBVIOUS
  <2>1. Adds
    <3>1. CASE leads' = leads
      BY <3>1
    <3>2. CASE Insert
      BY <1>1, <3>2, InsertKeeps
    <3> QED
      BY <1>1, <3>1, <3>2, OnlyInsertAdds
  <2>2. ASSUME pc' = "serve" PROVE Done
    <3>1. CASE pc # "import"
      BY <1>1, <3>1 DEF IInv, Recorded, Table
    <3>2. CASE pc = "import"
      <4>1. Imported
        BY <1>1, <2>2, <3>2 DEF Next, Statement, Start, Reseed, Remove, Migrate, SeedEnds,
           Drop, Create, Filled, Seed, Fill, FillThrows, Insert, Skip, SearchSimilar, Crash,
           Rename, Import, Request, At, vars
      <4> QED
        BY <1>1, <4>1, ImportedKeeps DEF Table
    <3> QED
      BY <3>1, <3>2
  <2> QED
    BY <2>1, <2>2
<1>2. IInv /\ [Next]_vars => [Exact]_vars
  BY <1>1
<1> QED
  BY <1>2, InitIInv, NextIInv, PTL DEF Spec, ImportExact
=============================================================================
