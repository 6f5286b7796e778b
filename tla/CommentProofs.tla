--------------------------- MODULE CommentProofs ---------------------------
(***************************************************************************)
(* What holds of CommentQueue for every set of comments and commands, any  *)
(* number of tries and any bounds: the proofs.                             *)
(***************************************************************************)
EXTENDS CommentQueue, TLAPS, NaturalsInduction, WellFoundedInduction

-----------------------------------------------------------------------------
(* Helpers.                                                                *)

(* A nonempty set of ids has a lowest one. *)
LEMMA LowestIn ==
    ASSUME NEW S \in SUBSET Nat, S # {}
    PROVE  Lowest(S) \in S /\ \A m \in S : Lowest(S) <= m
<1>1. PICK n \in S : \A m \in S : ~ <<m, n>> \in OpToRel(<, Nat)
  BY NatLessThanWellFounded, WFMin DEF OpToRel
<1>2. \A m \in S : n <= m
  <2> TAKE m \in S
  <2>1. ~ (m < n)
    BY <1>1 DEF OpToRel
  <2> QED
    BY <2>1
<1> QED
  BY <1>2 DEF Lowest

(* The members of File, and that they remain so when more is queued. *)
LEMMA FileIs ==
    ASSUME NEW q
    PROVE  q \in File <=> DOMAIN q \subseteq Ids /\ q \in [DOMAIN q -> 0 .. MaxTries]
  BY DEF File

LEMMA FileGrows ==
    ASSUME Ids \subseteq Ids'
    PROVE  File \subseteq File'
<1>1. SUBSET Ids \subseteq SUBSET Ids'
  OBVIOUS
<1> QED
  BY <1>1 DEF File

(* What is due is in the file and has a try left. *)
LEMMA DueType ==
    ASSUME NEW q \in File
    PROVE  Due(q) \subseteq DOMAIN q /\ Due(q) \subseteq Ids
  BY FileIs DEF Due

(* A busy process posts an entry of its view. *)
LEMMA PostingType ==
    ASSUME TypeOK, NEW p \in Procs, Busy(p)
    PROVE  /\ Posting(p) \in drain[p].due
           /\ Posting(p) \in Ids
           /\ Posting(p) \in DOMAIN drain[p].view
           /\ drain[p].view \in File
           /\ drain[p].mine \in {0} \cup Ids
<1>1. drain[p].due \in SUBSET Ids
  BY DEF TypeOK
<1>2. Ids \subseteq Nat
  BY DEF TypeOK, Ids
<1>3. Posting(p) \in drain[p].due
  BY <1>1, <1>2, LowestIn DEF Posting, Busy
<1> QED
  BY <1>1, <1>3 DEF TypeOK

-----------------------------------------------------------------------------
(* Types.                                                                  *)

\* Only entries with a try left are due: with TypeOK, what makes the count of
\* tries stay within the backoff table.
TriesLeft == \A p \in Procs : \A n \in drain[p].due : drain[p].view[n] < MaxTries

Typed == TypeOK /\ TriesLeft

LEMMA InitTyped == Init => Typed
<1> SUFFICES ASSUME Init PROVE Typed
  OBVIOUS
<1>1. <<>> \in File
  <2>1. DOMAIN <<>> = {}
    OBVIOUS
  <2>2. <<>> \in [{} -> 0 .. MaxTries]
    OBVIOUS
  <2> QED
    BY <2>1, <2>2, FileIs DEF Init
<1>2. \A p \in Procs : drain[p] = Idle
  BY DEF Init
<1>3. drain \in [Procs -> [view : File, due : SUBSET Ids, mine : {0} \cup Ids]]
  BY <1>1 DEF Init, Idle
<1>4. \A p \in Procs : drain[p].due = {}
  BY <1>2 DEF Idle
<1>5. asked \in Seq(Comments) /\ crashes \in 0 .. MaxCrashes
  BY TriesAssumption DEF Init
<1> QED
  BY <1>1, <1>3, <1>4, <1>5 DEF Init, Typed, TypeOK, TriesLeft

(* A drain goes on, after an entry was taken out of the view or has failed. *)
LEMMA WriteTyped ==
    ASSUME Typed, NEW p \in Procs, Busy(p), NEW view \in File,
           DOMAIN drain[p].view \ {Posting(p)} \subseteq DOMAIN view,
           \A n \in DOMAIN view \ {Posting(p)} : view[n] = drain[p].view[n],
           Write(p, view), Say(p, view), UNCHANGED asked
    PROVE  /\ queue' \in File
           /\ drain' \in [Procs -> [view : File, due : SUBSET Ids, mine : {0} \cup Ids]]
           /\ \A q \in Procs : drain'[q].due \subseteq DOMAIN drain'[q].view
           /\ TriesLeft'
           /\ told' \subseteq Ids
           /\ raced' \in BOOLEAN
           /\ Ids' = Ids /\ File' = File
<1> DEFINE d == drain[p]
           n == Posting(p)
           e == Rest(p, view)
<1>1. /\ n \in d.due /\ n \in Ids /\ n \in DOMAIN d.view
      /\ d.view \in File /\ d.mine \in {0} \cup Ids
      /\ d \in [view : File, due : SUBSET Ids, mine : {0} \cup Ids]
      /\ d.due \subseteq DOMAIN d.view
  BY PostingType DEF Typed, TypeOK
<1>2. Ids' = Ids /\ File' = File
  BY DEF Ids, File
<1>3. <<>> \in File
  <2>1. DOMAIN <<>> = {} /\ <<>> \in [{} -> 0 .. MaxTries]
    OBVIOUS
  <2> QED
    BY <2>1, FileIs
<1>4. e \in [view : File, due : SUBSET Ids, mine : {0} \cup Ids]
  BY <1>1, <1>3 DEF Rest, Idle
<1>5. e.due \subseteq DOMAIN e.view
  <2>1. CASE d.due = {n}
    BY <2>1 DEF Rest, Idle
  <2>2. CASE d.due # {n}
    <3>1. e.view = view /\ e.due = d.due \ {n}
      BY <1>1, <2>2 DEF Rest
    <3> QED
      BY <1>1, <3>1
  <2> QED
    BY <2>1, <2>2
<1>6. \A m \in e.due : e.view[m] < MaxTries
  <2>1. CASE d.due = {n}
    BY <2>1 DEF Rest, Idle
  <2>2. CASE d.due # {n}
    <3>1. e.view = view /\ e.due = d.due \ {n}
      BY <1>1, <2>2 DEF Rest
    <3>2. \A m \in d.due : d.view[m] < MaxTries
      BY DEF Typed, TriesLeft
    <3> QED
      BY <1>1, <3>1, <3>2
  <2> QED
    BY <2>1, <2>2
<1>7. drain \in [Procs -> [view : File, due : SUBSET Ids, mine : {0} \cup Ids]]
  BY DEF Typed, TypeOK
<1>8. drain' = [drain EXCEPT ![p] = e]
  BY DEF Write
<1> HIDE DEF e
<1>9. drain' \in [Procs -> [view : File, due : SUBSET Ids, mine : {0} \cup Ids]]
  BY <1>4, <1>7, <1>8
<1>10. \A q \in Procs : drain'[q].due \subseteq DOMAIN drain'[q].view
  BY <1>5, <1>7, <1>8 DEF Typed, TypeOK
<1>11. TriesLeft'
  BY <1>6, <1>7, <1>8 DEF Typed, TriesLeft
<1>12. queue' \in File /\ raced' \in BOOLEAN
  BY DEF Write, Typed, TypeOK
<1>13. told' \subseteq Ids
  BY <1>1 DEF Say, Typed, TypeOK
<1> QED
  BY <1>2, <1>9, <1>10, <1>11, <1>12, <1>13

(* Without and Failed keep a view a file. *)
LEMMA WithoutType ==
    ASSUME NEW q \in File, NEW n \in DOMAIN q
    PROVE  /\ Without(q, n) \in File
           /\ DOMAIN Without(q, n) = DOMAIN q \ {n}
           /\ \A m \in DOMAIN q \ {n} : Without(q, n)[m] = q[m]
<1>1. DOMAIN q \subseteq Ids /\ q \in [DOMAIN q -> 0 .. MaxTries]
  BY FileIs
<1>2. Without(q, n) \in [DOMAIN q \ {n} -> 0 .. MaxTries]
  BY <1>1 DEF Without
<1> QED
  BY <1>1, <1>2, FileIs DEF Without

LEMMA FailedType ==
    ASSUME NEW q \in File, NEW n \in DOMAIN q, q[n] < MaxTries
    PROVE  /\ Failed(q, n) \in File
           /\ DOMAIN Failed(q, n) = DOMAIN q
           /\ \A m \in DOMAIN q \ {n} : Failed(q, n)[m] = q[m]
           /\ q[n] + 1 \in 1 .. MaxTries
<1>1. DOMAIN q \subseteq Ids /\ q \in [DOMAIN q -> 0 .. MaxTries]
  BY FileIs
<1>2. q[n] + 1 \in 1 .. MaxTries
  BY <1>1, TriesAssumption
<1>3. Failed(q, n) \in [DOMAIN q -> 0 .. MaxTries]
  BY <1>1, <1>2 DEF Failed
<1> QED
  BY <1>1, <1>2, <1>3, FileIs DEF Failed

(* What a comment command queues and begins with. *)
LEMMA CommentTyped ==
    ASSUME Typed, NEW p \in Commands, NEW c \in Comments, Comment(p, c)
    PROVE  Typed' /\ Ids \subseteq Ids' /\ DOMAIN queue \subseteq DOMAIN queue'
<1> DEFINE n == IF Same(c) = {} THEN Len(asked) + 1 ELSE Lowest(Same(c))
           q == [m \in DOMAIN queue \cup {n} |-> IF m \in DOMAIN queue THEN queue[m] ELSE 0]
           d == IF Due(q) = {} THEN Idle
                ELSE [view |-> q, due |-> {Lowest(Due(q))}, mine |-> n]
<1>1. asked \in Seq(Comments) /\ Ids = 1 .. Len(asked) /\ Len(asked) \in Nat
  BY DEF Typed, TypeOK, Ids
<1>2. DOMAIN queue \subseteq Ids /\ queue \in [DOMAIN queue -> 0 .. MaxTries]
  BY FileIs DEF Typed, TypeOK
<1>3. /\ asked' \in Seq(Comments) /\ Ids \subseteq Ids' /\ Ids' \subseteq Nat /\ n \in Ids'
  <2>1. CASE Same(c) = {}
    <3>1. asked' = Append(asked, c)
      BY <2>1 DEF Comment
    <3>2. asked' \in Seq(Comments) /\ Len(asked') = Len(asked) + 1 /\ Ids' = 1 .. Len(asked')
      BY <1>1, <3>1 DEF Ids
    <3> QED
      BY <1>1, <2>1, <3>2
  <2>2. CASE Same(c) # {}
    <3>1. asked' = asked
      BY <2>2 DEF Comment
    <3>2. Same(c) \in SUBSET Nat /\ Same(c) \subseteq Ids
      BY <1>1, <1>2 DEF Same
    <3>3. Lowest(Same(c)) \in Same(c)
      BY <2>2, <3>2, LowestIn
    <3> QED
      BY <1>1, <2>2, <3>1, <3>2, <3>3 DEF Ids
  <2> QED
    BY <2>1, <2>2
<1>4. File \subseteq File'
  BY <1>3, FileGrows
<1>5. queue' = q /\ drain' = [drain EXCEPT ![p] = d]
  BY DEF Comment
<1> HIDE DEF n
<1>6. q \in File' /\ DOMAIN q = DOMAIN queue \cup {n}
  <2>1. DOMAIN q \subseteq Ids' /\ q \in [DOMAIN q -> 0 .. MaxTries]
    BY <1>2, <1>3, TriesAssumption
  <2> QED
    BY <2>1, FileIs DEF File
<1> HIDE DEF q
<1>7. \A m \in Due(q) : m \in DOMAIN q /\ m \in Ids' /\ q[m] < MaxTries
  <2>1. DOMAIN q \subseteq Ids' /\ q \in [DOMAIN q -> 0 .. MaxTries]
    BY <1>6 DEF File
  <2> QED
    BY <2>1, TriesAssumption DEF Due, Exhausted
<1>8. <<>> \in File'
  <2>1. DOMAIN <<>> = {} /\ <<>> \in [{} -> 0 .. MaxTries]
    OBVIOUS
  <2> QED
    BY <2>1 DEF File
<1>9. /\ d \in [view : File', due : SUBSET Ids', mine : {0} \cup Ids']
      /\ d.due \subseteq DOMAIN d.view
      /\ \A m \in d.due : d.view[m] < MaxTries
  <2>1. CASE Due(q) = {}
    BY <2>1, <1>8 DEF Idle
  <2>2. CASE Due(q) # {}
    <3>1. Due(q) \in SUBSET Nat
      BY <1>3, <1>7
    <3>2. Lowest(Due(q)) \in Due(q)
      BY <2>2, <3>1, LowestIn
    <3> QED
      BY <2>2, <3>2, <1>3, <1>6, <1>7
  <2> QED
    BY <2>1, <2>2
<1> HIDE DEF d
<1>10. drain \in [Procs -> [view : File, due : SUBSET Ids, mine : {0} \cup Ids]]
  BY DEF Typed, TypeOK
<1>11. drain \in [Procs -> [view : File', due : SUBSET Ids', mine : {0} \cup Ids']]
  <2>1. SUBSET Ids \subseteq SUBSET Ids'
    BY <1>3
  <2>2. [view : File, due : SUBSET Ids, mine : {0} \cup Ids]
            \subseteq [view : File', due : SUBSET Ids', mine : {0} \cup Ids']
    BY <1>3, <1>4, <2>1
  <2> QED
    BY <1>10, <2>2
<1>12. drain' \in [Procs -> [view : File', due : SUBSET Ids', mine : {0} \cup Ids']]
  BY <1>5, <1>9, <1>11
<1>13. \A r \in Procs : drain'[r].due \subseteq DOMAIN drain'[r].view
  BY <1>5, <1>9, <1>11 DEF Typed, TypeOK
<1>14. TriesLeft'
  BY <1>5, <1>9, <1>11 DEF Typed, TriesLeft
<1>15. /\ waiting' = waiting /\ landed' = landed /\ answered' = answered
       /\ told' = told /\ raced' = raced /\ crashes' = crashes
  BY DEF Comment
<1> QED
  BY <1>3, <1>5, <1>6, <1>12, <1>13, <1>14, <1>15 DEF Typed, TypeOK

LEMMA NextTyped ==
    ASSUME Typed, [Next]_vars
    PROVE  Typed'
<1>0. /\ drain \in [Procs -> [view : File, due : SUBSET Ids, mine : {0} \cup Ids]]
      /\ asked \in Seq(Comments) /\ queue \in File
  BY DEF Typed, TypeOK
<1>1. CASE UNCHANGED vars
  BY <1>1 DEF vars, Typed, TypeOK, TriesLeft, File, Ids
<1>2. CASE Sweep
  <2> DEFINE d == [view |-> queue, due |-> Due(queue), mine |-> 0]
  <2>1. Ids' = Ids /\ File' = File /\ Loop \in Procs
    BY <1>2 DEF Sweep, Ids, File, Procs
  <2>2. Due(queue) \subseteq DOMAIN queue /\ Due(queue) \subseteq Ids
    BY <1>0, DueType
  <2>3. d \in [view : File, due : SUBSET Ids, mine : {0} \cup Ids]
    BY <1>0, <2>2
  <2>4. \A m \in Due(queue) : queue[m] < MaxTries
    <3>1. queue \in [DOMAIN queue -> 0 .. MaxTries]
      BY <1>0, FileIs
    <3> QED
      BY <3>1, TriesAssumption DEF Due, Exhausted
  <2>5. drain' = [drain EXCEPT ![Loop] = d]
    BY <1>2 DEF Sweep
  <2>6. drain' \in [Procs -> [view : File, due : SUBSET Ids, mine : {0} \cup Ids]]
    BY <1>0, <2>1, <2>3, <2>5
  <2>7. \A r \in Procs : drain'[r].due \subseteq DOMAIN drain'[r].view
    BY <1>0, <2>2, <2>5 DEF Typed, TypeOK
  <2>8. TriesLeft'
    BY <1>0, <2>4, <2>5 DEF Typed, TriesLeft
  <2> QED
    BY <1>2, <2>1, <2>6, <2>7, <2>8 DEF Sweep, Typed, TypeOK
<1>3. ASSUME NEW p \in Commands, NEW c \in Comments, Comment(p, c) PROVE Typed'
  BY <1>3, CommentTyped
<1>4. ASSUME NEW p \in Procs, PostReturns(p) PROVE Typed'
  <2> DEFINE n == Posting(p)
             view == Without(drain[p].view, n)
  <2>1. Busy(p) /\ Land(n) /\ answered' = answered \cup {n} /\ Write(p, view) /\ Say(p, view)
        /\ UNCHANGED <<asked, waiting, crashes>>
    BY <1>4 DEF PostReturns
  <2>2. n \in Ids /\ n \in DOMAIN drain[p].view /\ drain[p].view \in File
    BY <2>1, PostingType DEF Typed
  <2>3. /\ view \in File
        /\ DOMAIN drain[p].view \ {n} \subseteq DOMAIN view
        /\ \A m \in DOMAIN view \ {n} : view[m] = drain[p].view[m]
    BY <2>2, WithoutType
  <2> HIDE DEF n, view
  <2>4. landed' \subseteq Ids /\ answered' \subseteq Ids
    BY <2>1, <2>2 DEF Land, Typed, TypeOK
  <2> QED
    BY <2>1, <2>3, <2>4, WriteTyped DEF n, Typed, TypeOK
<1>5. ASSUME NEW p \in Procs, PostFails(p) PROVE Typed'
  <2> DEFINE n == Posting(p)
             view == Failed(drain[p].view, n)
  <2>1. Busy(p) /\ (Land(n) \/ UNCHANGED landed) /\ Write(p, view) /\ Say(p, view)
        /\ waiting' = waiting \cup {<<n, drain[p].view[n] + 1>>}
        /\ UNCHANGED <<asked, answered, crashes>>
    BY <1>5 DEF PostFails
  <2>2. n \in drain[p].due /\ n \in Ids /\ n \in DOMAIN drain[p].view /\ drain[p].view \in File
    BY <2>1, PostingType DEF Typed
  <2>3. drain[p].view[n] < MaxTries
    BY <2>2 DEF Typed, TriesLeft
  <2>4. /\ view \in File
        /\ DOMAIN drain[p].view \ {n} \subseteq DOMAIN view
        /\ \A m \in DOMAIN view \ {n} : view[m] = drain[p].view[m]
        /\ drain[p].view[n] + 1 \in 1 .. MaxTries
    BY <2>2, <2>3, FailedType
  <2> HIDE DEF n, view
  <2>5. landed' \subseteq Ids /\ waiting' \subseteq Ids \X (1 .. MaxTries)
    BY <2>1, <2>2, <2>4 DEF Land, Typed, TypeOK
  <2> QED
    BY <2>1, <2>4, <2>5, WriteTyped DEF n, Typed, TypeOK
<1>6. ASSUME NEW p \in Procs, Dies(p) PROVE Typed'
  <2>1. Ids' = Ids /\ File' = File /\ queue' = queue
    BY <1>6 DEF Dies, Ids, File
  <2>2. Posting(p) \in Ids
    BY <1>6, PostingType DEF Dies, Typed
  <2>3. <<>> \in File
    <3>1. DOMAIN <<>> = {} /\ <<>> \in [{} -> 0 .. MaxTries]
      OBVIOUS
    <3> QED
      BY <3>1, FileIs
  <2>4. Idle \in [view : File, due : SUBSET Ids, mine : {0} \cup Ids] /\ Idle.due = {}
    BY <2>3 DEF Idle
  <2>5. drain' = [drain EXCEPT ![p] = Idle]
    BY <1>6 DEF Dies
  <2>6. drain' \in [Procs -> [view : File, due : SUBSET Ids, mine : {0} \cup Ids]]
    BY <1>0, <2>4, <2>5
  <2>7. \A r \in Procs : drain'[r].due \subseteq DOMAIN drain'[r].view
    BY <1>0, <2>4, <2>5 DEF Typed, TypeOK
  <2>8. TriesLeft'
    BY <1>0, <2>4, <2>5 DEF Typed, TriesLeft
  <2>9. crashes' \in 0 .. MaxCrashes
    BY <1>6, TriesAssumption DEF Dies, Typed, TypeOK
  <2>10. landed' \subseteq Ids
    BY <1>6, <2>2 DEF Dies, Land, Typed, TypeOK
  <2> QED
    BY <1>6, <2>1, <2>6, <2>7, <2>8, <2>9, <2>10 DEF Dies, Typed, TypeOK
<1>7. ASSUME NEW w \in waiting, Elapses(w) PROVE Typed'
  BY <1>7 DEF Elapses, Typed, TypeOK, TriesLeft, File, Ids
<1> QED
  BY <1>1, <1>2, <1>3, <1>4, <1>5, <1>6, <1>7 DEF Next

(* Every entry, note and drain is of the comments queued, and no entry is   *)
(* tried more often than the backoff table has lines, in any order of       *)
(* posts, failures, crashes and commands.                                   *)
THEOREM TypeCorrect == Spec => []TypeOK
<1>1. Init => Typed
  BY InitTyped
<1>2. Typed /\ [Next]_vars => Typed'
  BY NextTyped
<1>3. Typed => TypeOK
  BY DEF Typed
<1> QED
  BY <1>1, <1>2, <1>3, PTL DEF Spec

-----------------------------------------------------------------------------
(* What the properties say.                                                *)

(* How a write changes the file when no other process wrote meanwhile: it   *)
(* loses at most the entry that was posted.                                 *)
LEMMA PostStep ==
    ASSUME Typed, NEW p \in Procs, PostReturns(p) \/ PostFails(p), ~raced'
    PROVE  /\ ~raced /\ Ids' = Ids
           /\ \/ /\ DOMAIN queue' = DOMAIN queue \ {Posting(p)}
                 /\ landed' = landed \cup {Posting(p)}
                 /\ answered' = answered \cup {Posting(p)}
              \/ /\ DOMAIN queue' = DOMAIN queue
                 /\ landed \subseteq landed' /\ answered' = answered
           /\ told' \ told \subseteq Ids \ DOMAIN queue'
<1> DEFINE n == Posting(p)
           q == drain[p].view
<1>1. Busy(p)
  BY DEF PostReturns, PostFails
<1>2. n \in drain[p].due /\ n \in DOMAIN q /\ q \in File /\ drain[p].mine \in {0} \cup Ids
  BY <1>1, PostingType DEF Typed
<1>3. q[n] < MaxTries
  BY <1>2 DEF Typed, TriesLeft
<1>4. Ids' = Ids
  BY DEF PostReturns, PostFails, Ids
<1>5. CASE PostReturns(p)
  <2>1. /\ Write(p, Without(q, n)) /\ Say(p, Without(q, n))
        /\ landed' = landed \cup {n} /\ answered' = answered \cup {n}
    BY <1>5 DEF PostReturns, Land
  <2>2. queue' = Without(q, n) /\ queue = q /\ ~raced
    BY <2>1 DEF Write
  <2>3. DOMAIN queue' = DOMAIN queue \ {n}
    BY <1>2, <2>2, WithoutType
  <2>4. told' \ told \subseteq Ids \ DOMAIN queue'
    BY <1>2, <2>1, <2>2 DEF Say
  <2> QED
    BY <1>4, <2>1, <2>2, <2>3, <2>4
<1>6. CASE PostFails(p)
  <2>1. /\ Write(p, Failed(q, n)) /\ Say(p, Failed(q, n))
        /\ landed \subseteq landed' /\ answered' = answered
    BY <1>6 DEF PostFails, Land
  <2>2. queue' = Failed(q, n) /\ queue = q /\ ~raced
    BY <2>1 DEF Write
  <2>3. DOMAIN queue' = DOMAIN queue
    BY <1>2, <1>3, <2>2, FailedType
  <2>4. told' \ told \subseteq Ids \ DOMAIN queue'
    BY <1>2, <2>1, <2>2 DEF Say
  <2> QED
    BY <1>4, <2>1, <2>2, <2>3, <2>4
<1> QED
  BY <1>5, <1>6

(* A comment command adds its comment to the file, and a new one has a new  *)
(* id.                                                                      *)
LEMMA CommentStep ==
    ASSUME Typed, NEW p \in Commands, NEW c \in Comments, Comment(p, c)
    PROVE  /\ UNCHANGED <<landed, answered, told, raced>>
           /\ DOMAIN queue \subseteq DOMAIN queue'
           /\ Ids' \ Ids \subseteq DOMAIN queue'
           /\ (DOMAIN queue' \ DOMAIN queue) \cap Ids = {}
<1> DEFINE n == IF Same(c) = {} THEN Len(asked) + 1 ELSE Lowest(Same(c))
<1>1. DOMAIN queue' = DOMAIN queue \cup {n}
  BY DEF Comment
<1>2. asked \in Seq(Comments) /\ Ids = 1 .. Len(asked) /\ Len(asked) \in Nat
  BY DEF Typed, TypeOK, Ids
<1>3. CASE Same(c) = {}
  <2>1. asked' = Append(asked, c)
    BY <1>3 DEF Comment
  <2>2. Ids' = 1 .. Len(asked) + 1
    BY <1>2, <2>1 DEF Ids
  <2> QED
    BY <1>1, <1>2, <1>3, <2>2 DEF Comment
<1>4. CASE Same(c) # {}
  <2>1. DOMAIN queue \subseteq Ids
    BY FileIs DEF Typed, TypeOK
  <2>2. Same(c) \in SUBSET Nat /\ Same(c) \subseteq DOMAIN queue
    BY <1>2, <2>1 DEF Same
  <2>3. Lowest(Same(c)) \in DOMAIN queue
    BY <1>4, <2>2, LowestIn
  <2>4. Ids' = Ids
    BY <1>4 DEF Comment, Ids
  <2> QED
    BY <1>1, <1>4, <2>3, <2>4 DEF Comment
<1> QED
  BY <1>3, <1>4

(* What the other steps leave alone. *)
LEMMA OtherStep ==
    ASSUME \/ UNCHANGED vars \/ Sweep
           \/ \E p \in Procs : Dies(p)
           \/ \E w \in waiting : Elapses(w)
    PROVE  /\ UNCHANGED <<asked, queue, answered, told, raced>> /\ Ids' = Ids
           /\ landed \subseteq landed'
  BY DEF vars, Sweep, Dies, Elapses, Land, Ids

(* No required comment is forgotten and no command lies: over any number of *)
(* commands, tries, crashes and lost answers, a comment is in the thread or  *)
(* in the file, as long as no two drains overlap in a write.                *)
THEOREM NothingIsForgotten == Spec => []NothingForgotten
<1>1. Init => NothingForgotten
  BY DEF Init, NothingForgotten, Ids
<1>2. ASSUME Typed, NothingForgotten, [Next]_vars
      PROVE  NothingForgotten'
  <2>1. ASSUME NEW p \in Procs, PostReturns(p) \/ PostFails(p) PROVE NothingForgotten'
    <3> SUFFICES ASSUME ~raced'
                 PROVE  Ids' \subseteq landed' \cup DOMAIN queue' /\ told' \subseteq landed'
      BY DEF NothingForgotten
    <3>1. /\ ~raced /\ Ids' = Ids
          /\ \/ /\ DOMAIN queue' = DOMAIN queue \ {Posting(p)}
                /\ landed' = landed \cup {Posting(p)}
             \/ /\ DOMAIN queue' = DOMAIN queue
                /\ landed \subseteq landed'
          /\ told' \ told \subseteq Ids \ DOMAIN queue'
      BY <1>2, <2>1, PostStep
    <3>2. Ids \subseteq landed \cup DOMAIN queue /\ told \subseteq landed
      BY <1>2, <3>1 DEF NothingForgotten
    <3> QED
      BY <3>1, <3>2
  <2>2. ASSUME NEW p \in Commands, NEW c \in Comments, Comment(p, c)
        PROVE  NothingForgotten'
    BY <1>2, <2>2, CommentStep DEF NothingForgotten
  <2>3. CASE \/ UNCHANGED vars \/ Sweep
             \/ \E p \in Procs : Dies(p)
             \/ \E w \in waiting : Elapses(w)
    BY <1>2, <2>3, OtherStep DEF NothingForgotten
  <2> QED
    BY <1>2, <2>1, <2>2, <2>3 DEF Next
<1>3. Init => Typed
  BY InitTyped
<1>4. Typed /\ [Next]_vars => Typed'
  BY NextTyped
<1> QED
  BY <1>1, <1>2, <1>3, <1>4, PTL DEF Spec

(* A comment whose post was answered is never posted again: no crash or      *)
(* failure brings it back into the file, as long as no two drains overlap in *)
(* a write.                                                                 *)
THEOREM AnsweredStaysDone == Spec => []AnsweredIsDone
<1>1. Init => AnsweredIsDone
  BY DEF Init, AnsweredIsDone
<1>2. ASSUME Typed, AnsweredIsDone, [Next]_vars
      PROVE  AnsweredIsDone'
  <2>1. ASSUME NEW p \in Procs, PostReturns(p) \/ PostFails(p) PROVE AnsweredIsDone'
    BY <1>2, <2>1, PostStep DEF AnsweredIsDone
  <2>2. ASSUME NEW p \in Commands, NEW c \in Comments, Comment(p, c)
        PROVE  AnsweredIsDone'
    <3>1. answered \subseteq Ids
      BY <1>2 DEF Typed, TypeOK
    <3> QED
      BY <1>2, <2>2, <3>1, CommentStep DEF AnsweredIsDone
  <2>3. CASE \/ UNCHANGED vars \/ Sweep
             \/ \E p \in Procs : Dies(p)
             \/ \E w \in waiting : Elapses(w)
    BY <1>2, <2>3, OtherStep DEF AnsweredIsDone
  <2> QED
    BY <1>2, <2>1, <2>2, <2>3 DEF Next
<1>3. Init => Typed
  BY InitTyped
<1>4. Typed /\ [Next]_vars => Typed'
  BY NextTyped
<1> QED
  BY <1>1, <1>2, <1>3, <1>4, PTL DEF Spec
=============================================================================
