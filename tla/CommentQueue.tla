---------------------------- MODULE CommentQueue ----------------------------
(***************************************************************************)
(* The retry queue of required Slack comments                              *)
(* (core/comment-retry-queue.ts of the orchestrate skill).  The loop of a  *)
(* workspace drains comment-retry-queue.json at every sweep, and every     *)
(* comment command appends to it and drains one try, each in a process of  *)
(* its own.  A drain reads the file once and writes its own view of it     *)
(* after every post.                                                       *)
(*                                                                         *)
(* One action is what a process does between two awaits.                   *)
(***************************************************************************)
EXTENDS Naturals, Sequences, FiniteSets

CONSTANTS
    Comments,       \* what may be commented: destination, body and sender
    Commands,       \* the comment commands that may run at once
    Loop,           \* the loop of the workspace
    MaxTries,       \* tries of one comment (the length of the backoff table)
    MaxAsked,       \* bound: required comments ever queued
    MaxCrashes      \* bound: processes that die in a post

ASSUME ProcsAssumption == Loop \notin Commands
ASSUME TriesAssumption ==
    MaxTries \in Nat \ {0} /\ MaxAsked \in Nat /\ MaxCrashes \in Nat

VARIABLES
    asked,      \* the comments queued so far; the n-th has id n
    queue,      \* the file: queue[n] is the tries of each entry n in it
    waiting,    \* <<n, tries>> whose nextAttemptAt is yet to come
    drain,      \* drain[p]: what a process knows while it posts
    landed,     \* ids Slack has shown in the thread
    answered,   \* history: ids whose post returned
    told,       \* history: ids whose command said "posted"
    raced,      \* history: a drain wrote over what another process had written
    crashes     \* how many processes died

vars == <<asked, queue, waiting, drain, landed, answered, told, raced, crashes>>

Procs == Commands \cup {Loop}
Ids == DOMAIN asked

\* view is the file as the drain knows it, due what it still has to try, mine
\* the entry of the command's own comment (0: none, for the loop).
Idle == [view |-> <<>>, due |-> {}, mine |-> 0]
Busy(p) == drain[p].due # {}

Lowest(S) == CHOOSE n \in S : \A m \in S : n <= m
Without(q, n) == [m \in DOMAIN q \ {n} |-> q[m]]
Exhausted(q, n) == q[n] >= MaxTries

\* What the file may say: the tries of some of the entries ever queued.
File == UNION {[S -> 0 .. MaxTries] : S \in SUBSET Ids}

TypeOK ==
    /\ asked \in Seq(Comments)
    /\ queue \in File
    /\ waiting \subseteq Ids \X (1 .. MaxTries)
    /\ drain \in [Procs -> [view : File, due : SUBSET Ids, mine : {0} \cup Ids]]
    /\ \A p \in Procs : drain[p].due \subseteq DOMAIN drain[p].view
    /\ landed \subseteq Ids /\ answered \subseteq Ids /\ told \subseteq Ids
    /\ raced \in BOOLEAN
    /\ crashes \in 0 .. MaxCrashes

Init ==
    /\ asked = <<>> /\ queue = <<>>
    /\ waiting = {}
    /\ drain = [p \in Procs |-> Idle]
    /\ landed = {} /\ answered = {} /\ told = {}
    /\ raced = FALSE
    /\ crashes = 0

-----------------------------------------------------------------------------
(* drainCommentRetryQueue up to its first post.                            *)

(* Mutant of Due: the first entry that cannot be tried ends the drain. *)
Due_HeadOnly(q) ==
    {n \in DOMAIN q : \A m \in DOMAIN q : m <= n =>
        ~Exhausted(q, m) /\ <<m, q[m]>> \notin waiting}

\* Entries are kept in the order they were queued.
Due(q) == {n \in DOMAIN q : ~Exhausted(q, n) /\ <<n, q[n]>> \notin waiting}

\* The loop tries all that is due.
Sweep ==
    /\ ~Busy(Loop) /\ Due(queue) # {}
    /\ drain' = [drain EXCEPT ![Loop] = [view |-> queue, due |-> Due(queue), mine |-> 0]]
    /\ UNCHANGED <<asked, queue, waiting, landed, answered, told, raced, crashes>>

\* An entry of the same comment that may still be tried.
Same(c) == {n \in DOMAIN queue : asked[n] = c /\ ~Exhausted(queue, n)}

\* enqueueComment, then one try of the oldest due entry; without one the
\* command ends at once and says "queued".
Comment(p, c) ==
    LET n == IF Same(c) = {} THEN Len(asked) + 1 ELSE Lowest(Same(c))
        q == [m \in DOMAIN queue \cup {n} |-> IF m \in DOMAIN queue THEN queue[m] ELSE 0]
    IN  /\ ~Busy(p)
        /\ IF Same(c) = {} THEN Len(asked) < MaxAsked /\ asked' = Append(asked, c)
                           ELSE UNCHANGED asked
        /\ queue' = q
        /\ drain' = [drain EXCEPT ![p] =
                IF Due(q) = {} THEN Idle
                ELSE [view |-> q, due |-> {Lowest(Due(q))}, mine |-> n]]
        /\ UNCHANGED <<waiting, landed, answered, told, raced, crashes>>

-----------------------------------------------------------------------------
(* The post returns or fails.                                              *)

Posting(p) == Lowest(drain[p].due)

\* What is left to do after this post.
Rest(p, view) ==
    IF drain[p].due = {Posting(p)} THEN Idle
    ELSE [view |-> view, due |-> drain[p].due \ {Posting(p)}, mine |-> drain[p].mine]

(* Mutant of Write: the file is only written when the drain is over. *)
Write_AtTheEnd(p, view) ==
    /\ queue' = IF drain[p].due = {Posting(p)} THEN view ELSE queue
    /\ raced' = (raced \/ queue # drain[p].view)
    /\ drain' = [drain EXCEPT ![p] = Rest(p, view)]

\* The file becomes the drain's view; whatever another process wrote meanwhile
\* is gone.
Write(p, view) ==
    /\ queue' = view
    /\ raced' = (raced \/ queue # drain[p].view)
    /\ drain' = [drain EXCEPT ![p] = Rest(p, view)]

\* What the command says: absent from the file means posted.
Say(p, view) ==
    told' = IF drain[p].mine # 0 /\ drain[p].mine \notin DOMAIN view
            THEN told \cup {drain[p].mine} ELSE told

\* The message is in the thread.
Land(n) == landed' = landed \cup {n}

PostReturns(p) ==
    LET n == Posting(p)
        view == Without(drain[p].view, n)
    IN  /\ Busy(p)
        /\ Land(n) /\ answered' = answered \cup {n}
        /\ Write(p, view) /\ Say(p, view)
        /\ UNCHANGED <<asked, waiting, crashes>>

(* Mutant of Failed: an exhausted entry is dropped. *)
Failed_Dropped(view, n) ==
    IF view[n] + 1 >= MaxTries THEN Without(view, n)
    ELSE [view EXCEPT ![n] = @ + 1]

\* One try more; at MaxTries the entry stays in the file as exhausted.
Failed(view, n) == [view EXCEPT ![n] = @ + 1]

\* The post threw, be it that the message got through or not.
PostFails(p) ==
    LET n == Posting(p)
        view == Failed(drain[p].view, n)
    IN  /\ Busy(p)
        /\ Land(n) \/ UNCHANGED landed
        /\ Write(p, view) /\ Say(p, view)
        /\ waiting' = waiting \cup {<<n, drain[p].view[n] + 1>>}
        /\ UNCHANGED <<asked, answered, crashes>>

\* A backoff is over.
Elapses(w) ==
    /\ w \in waiting
    /\ waiting' = waiting \ {w}
    /\ UNCHANGED <<asked, queue, drain, landed, answered, told, raced, crashes>>

\* A process dies in a post, be it that the message got through or not.
Dies(p) ==
    /\ Busy(p) /\ crashes < MaxCrashes
    /\ Land(Posting(p)) \/ UNCHANGED landed
    /\ drain' = [drain EXCEPT ![p] = Idle]
    /\ crashes' = crashes + 1
    /\ UNCHANGED <<asked, queue, waiting, answered, told, raced>>

Next ==
    \/ Sweep
    \/ \E p \in Commands, c \in Comments : Comment(p, c)
    \/ \E p \in Procs : PostReturns(p) \/ PostFails(p) \/ Dies(p)
    \/ \E w \in waiting : Elapses(w)

\* The loop sweeps while it is up, the client's retries are bounded, so a post
\* is answered or fails, and time passes.
Fairness ==
    /\ WF_vars(Sweep) /\ WF_vars(PostReturns(Loop) \/ PostFails(Loop))
    /\ \A n \in 1 .. MaxAsked, k \in 1 .. MaxTries : WF_vars(Elapses(<<n, k>>))

Spec == Init /\ [][Next]_vars /\ Fairness

-----------------------------------------------------------------------------
(* What must hold.                                                         *)

\* A required comment is in the thread or still in the file, if only as a
\* record that its tries are exhausted, and a command that says "posted"
\* ("absence means we landed") has told the truth, whoever did the posting;
\* tries, crashes and commands come in any order.  Only a write over another
\* process's write may lose a comment.
NothingForgotten ==
    raced \/ (Ids \subseteq landed \cup DOMAIN queue /\ told \subseteq landed)

\* A comment whose post was answered is in the file no more, so it is not posted
\* twice when its drain dies later on: the file is written after every post.
AnsweredIsDone == raced \/ answered \cap DOMAIN queue = {}

\* Every required comment lands or is given up on record, as long as the loop
\* goes on to sweep: no entry stands in the way of a later one.
EveryCommentSettles ==
    \A n \in 1 .. MaxAsked :
        n \in Ids ~> \/ raced \/ n \in landed
                     \/ n \in DOMAIN queue /\ Exhausted(queue, n)
=============================================================================
