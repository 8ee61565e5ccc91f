----------------------------- MODULE GoldenReview -----------------------------
(***************************************************************************)
(* The review of golden-set candidates (scripts/golden_review.py) over the *)
(* queue file that the service appends to (evaluation/closed_loop.py).     *)
(*                                                                         *)
(* The reviewer's session keeps the queue in memory and rewrites the whole *)
(* file after each decision; an accepted candidate is first appended to    *)
(* its category's golden file.  Writing a file truncates it first, so the  *)
(* service, or a crash, can come between.  A candidate is its question;    *)
(* answers, evidence and display are left out, so an edit is a "yes".      *)
(***************************************************************************)
EXTENDS Naturals, Sequences, FiniteSets, FiniteSetsExt

CONSTANTS
    Question,
    Category,
    CategoryOf,      \* the category of each candidate
    Queued,          \* questions that are queued in the beginning
    Captured,        \* questions the service may capture
    StatusChoice,    \* the values of --only-status in use
    Lowercases,      \* the prompter lower-cases what is typed (RealPrompter)
    MaxNumber,       \* bound: case numbers in the golden files to start with
    MaxSessions,     \* bound: review sessions
    MaxCrashes       \* bound: crashes of a session

ASSUME ReviewAssumption ==
    /\ CategoryOf \in [Question -> Category]
    /\ "seed" \notin Question
    /\ Queued \subseteq Question /\ IsFiniteSet(Queued) /\ Captured \subseteq Question
    /\ StatusChoice \subseteq {"pending", "flagged", "skipped", "accepted"}
    /\ Lowercases \in BOOLEAN
    /\ MaxNumber \in Nat /\ MaxSessions \in Nat /\ MaxCrashes \in Nat

VARIABLES
    queue,       \* the queue file: a sequence of candidates
    golden,      \* the golden files: for each category a set of cases
    torn,        \* categories whose golden file is truncated
    pc,          \* where the session is
    mem,         \* candidates, as loaded and decided in this session
    todo,        \* to_review: the positions of some of them, taken in ascending order
    pos,         \* the one presented last
    only,        \* only_status
    counts,      \* ReviewSummary: accepted, skipped, flagged, remaining
    approved,    \* history: questions the reviewer said yes to
    captured,    \* history: questions the service wrote to the queue
    persisted,   \* history: statuses of decided candidates a save completed
    sessions, crashes

files == <<queue, golden, torn>>
session == <<mem, todo, pos, only>>
history == <<approved, captured, persisted, sessions, crashes>>
vars == <<files, pc, session, counts, history>>

Status == {"pending", "accepted", "skipped", "flagged"}
Candidate == [question : Question, status : Status]
NoCounts == [accepted |-> 0, skipped |-> 0, flagged |-> 0, remaining |-> 0]

TypeOK ==
    /\ queue \in Seq(Candidate) /\ mem \in Seq(Candidate)
    /\ \A c \in Category : \A case \in golden[c] :
          case.number \in Nat \ {0} /\ case.question \in Question \cup {"seed"}
    /\ torn \subseteq Category
    /\ pc \in {"closed", "next", "ask", "confirm", "again", "write", "save", "saving", "failed"}
    /\ todo \subseteq DOMAIN mem
    /\ pos \in 0 .. Len(mem)
    /\ only \in Status
    /\ counts \in [accepted : Nat, skipped : Nat, flagged : Nat, remaining : Nat]
    /\ crashes \in 0 .. MaxCrashes

Init ==
    /\ queue \in {s \in [1 .. Cardinality(Queued) -> [question : Queued, status : {"pending"}]] :
                     \A j, k \in DOMAIN s : s[j] = s[k] => j = k}
    /\ golden \in [Category -> {{[number |-> n, question |-> "seed"] : n \in ns} :
                                    ns \in SUBSET (1 .. MaxNumber)}]
    /\ torn = {}
    /\ pc = "closed"
    /\ mem = << >> /\ todo = {} /\ pos = 0 /\ only = "pending"
    /\ counts = NoCounts
    /\ approved = {} /\ captured = {} /\ persisted = {}
    /\ sessions = 0 /\ crashes = 0

-----------------------------------------------------------------------------
\* The service

\* capture_query on a refusal: append the question unless it is in the queue.
Capture(q) ==
    /\ q \in Captured \ captured
    /\ \A k \in DOMAIN queue : queue[k].question # q
    /\ queue' = Append(queue, [question |-> q, status |-> "pending"])
    /\ captured' = captured \cup {q}
    /\ UNCHANGED <<golden, torn, pc, session, counts, approved, persisted, sessions, crashes>>

-----------------------------------------------------------------------------
\* The session

\* Fault: only the candidates to be reviewed are kept in memory.
StartChosenOnly ==
    /\ pc \in {"closed", "failed"}
    /\ sessions < MaxSessions
    /\ sessions' = sessions + 1
    /\ only' \in StatusChoice
    /\ mem' = LET Chosen(c) == c.status = only' IN SelectSeq(queue, Chosen)
    /\ todo' = DOMAIN mem'
    /\ pos' = 0
    /\ counts' = [NoCounts EXCEPT !.remaining = Cardinality(todo')]
    /\ pc' = "next"
    /\ UNCHANGED <<files, approved, captured, persisted, crashes>>

Start ==
    /\ pc \in {"closed", "failed"}
    /\ sessions < MaxSessions
    /\ sessions' = sessions + 1
    /\ only' \in StatusChoice
    /\ mem' = queue
    /\ todo' = {k \in DOMAIN queue : queue[k].status = only'}
    /\ pos' = 0
    /\ counts' = [NoCounts EXCEPT !.remaining = Cardinality(todo')]
    /\ pc' = "next"
    /\ UNCHANGED <<files, approved, captured, persisted, crashes>>

Remaining(candidates) == Cardinality({k \in DOMAIN candidates : candidates[k].status = only})

Close == pc' = "closed" /\ counts' = [counts EXCEPT !.remaining = Remaining(mem)]

\* Those of to_review that are still to be presented.
Open == {k \in todo : k > pos /\ mem[k].status = only}

Present ==
    /\ pc = "next"
    /\ Open # {}
    /\ pos' = Min(Open)
    /\ pc' = "ask"
    /\ UNCHANGED <<files, mem, todo, only, counts, history>>

Finish ==
    /\ pc = "next"
    /\ Open = {}
    /\ Close
    /\ UNCHANGED <<files, session, history>>

\* What run_review sees of the key: strip() keeps the case, RealPrompter does not.
Action(key) == IF Lowercases /\ key = "N" THEN "n" ELSE key

This == mem[pos]

\* Fault: a bulk skip is counted as one.
DecideCountingOne(positions, status, count) ==
    /\ mem' = [k \in DOMAIN mem |-> IF k \in positions THEN [mem[k] EXCEPT !.status = status] ELSE mem[k]]
    /\ counts' = [counts EXCEPT ![count] = @ + 1]
    /\ pc' = "save"
    /\ UNCHANGED <<files, todo, pos, only>>

\* The candidates at some positions get a status, which is saved next.
Decide(positions, status, count) ==
    /\ mem' = [k \in DOMAIN mem |-> IF k \in positions THEN [mem[k] EXCEPT !.status = status] ELSE mem[k]]
    /\ counts' = [counts EXCEPT ![count] = @ + Cardinality(positions)]
    /\ pc' = "save"
    /\ UNCHANGED <<files, todo, pos, only>>

\* _accept_candidate begins: the golden file is read, then truncated; a
\* truncated file does not parse, and the session ends with the exception.
BeginAccept ==
    LET c == CategoryOf[This.question]
    IN  /\ pc' = IF c \in torn THEN "failed" ELSE "write"
        /\ torn' = torn \cup {c}
        /\ approved' = approved \cup {This.question}
        /\ UNCHANGED <<queue, golden, session, counts>>

\* The keys of both prompts: "e" is a "y", anything unknown is skipped at the
\* first prompt and decides nothing at the second.
Key(key) ==
    \/ key = "y" /\ BeginAccept
    \/ key = "n" /\ Decide({pos}, "skipped", "skipped") /\ UNCHANGED approved
    \/ key = "f" /\ Decide({pos}, "flagged", "flagged") /\ UNCHANGED approved

Answer(key) ==
    /\ pc = "ask"
    /\ \/ Key(Action(key))
       \/ Action(key) = "other" /\ Decide({pos}, "skipped", "skipped") /\ UNCHANGED approved
       \/ Action(key) = "q" /\ Close /\ UNCHANGED <<files, session, approved>>
       \/ Action(key) = "N" /\ pc' = "confirm" /\ UNCHANGED <<files, session, counts, approved>>
    /\ UNCHANGED <<captured, persisted, sessions, crashes>>

\* to_review[i - 1:], the ones of this category.
Bulk == {k \in todo : k >= pos /\ CategoryOf[mem[k].question] = CategoryOf[This.question]}

ConfirmBulk ==
    /\ pc = "confirm"
    /\ Decide(Bulk, "skipped", "skipped")
    /\ UNCHANGED <<approved, captured, persisted, sessions, crashes>>

DeclineBulk ==
    /\ pc = "confirm"
    /\ pc' = "again"
    /\ UNCHANGED <<files, session, counts, approved, captured, persisted, sessions, crashes>>

\* The second prompt; "q" saves and presents nothing more.
AnswerAgain(key) ==
    /\ pc = "again"
    /\ \/ Key(key)
       \/ /\ key \in {"other", "N", "q"}
          /\ pos' = IF key = "q" THEN Len(mem) ELSE pos
          /\ pc' = "save"
          /\ UNCHANGED <<files, mem, todo, only, counts, approved>>
    /\ UNCHANGED <<captured, persisted, sessions, crashes>>

\* Fault: the number of cases is taken for the highest number.
NextNumberByCount(c) == Cardinality(golden[c]) + 1

\* next_id: one more than the highest number in the file.
NextNumber(c) == Max({0} \cup {case.number : case \in golden[c]}) + 1

\* Fault: the position among those to review is taken for one in the queue.
WriteGoldenByPosition ==
    LET place == Cardinality({k \in todo : k <= pos})
        q == mem[place].question
        c == CategoryOf[q]
    IN  /\ pc = "write"
        /\ golden' = [golden EXCEPT ![c] = @ \cup {[number |-> NextNumber(c), question |-> q]}]
        /\ torn' = torn \ {c}
        /\ mem' = [mem EXCEPT ![place].status = "accepted"]
        /\ counts' = [counts EXCEPT !.accepted = @ + 1]
        /\ pc' = "save"
        /\ UNCHANGED <<queue, todo, pos, only, history>>

\* The golden file is written, and the candidate is accepted in memory.
WriteGolden ==
    LET c == CategoryOf[This.question]
    IN  /\ pc = "write"
        /\ golden' = [golden EXCEPT ![c] =
                         @ \cup {[number |-> NextNumber(c), question |-> This.question]}]
        /\ torn' = torn \ {c}
        /\ mem' = [mem EXCEPT ![pos].status = "accepted"]
        /\ counts' = [counts EXCEPT !.accepted = @ + 1]
        /\ pc' = "save"
        /\ UNCHANGED <<queue, todo, pos, only, history>>

\* save_queue opens the file for writing ...
BeginSave ==
    /\ pc = "save"
    /\ queue' = << >>
    /\ pc' = "saving"
    /\ UNCHANGED <<golden, torn, session, counts, history>>

\* ... and writes what is in memory over whatever is there.
EndSave ==
    /\ pc = "saving"
    /\ queue' = mem
    /\ persisted' = {mem[k] : k \in {j \in DOMAIN mem : mem[j].status # "pending"}}
    /\ pc' = "next"
    /\ UNCHANGED <<golden, torn, session, counts, approved, captured, sessions, crashes>>

-----------------------------------------------------------------------------
\* The process dies.  A file it was writing holds some of the candidates, those
\* that reached the disk, or what the service appended since.
Crash ==
    /\ pc \notin {"closed", "failed"}
    /\ crashes < MaxCrashes
    /\ crashes' = crashes + 1
    /\ queue' \in IF pc = "saving" THEN {SubSeq(mem, 1, n) : n \in 0 .. Len(mem)} \cup {queue}
                  ELSE {queue}
    /\ pc' = "closed"
    /\ UNCHANGED <<golden, torn, session, counts, approved, captured, persisted, sessions>>

Next ==
    \/ \E q \in Question : Capture(q)
    \/ Start \/ Present \/ Finish
    \/ \E key \in {"y", "n", "f", "N", "q", "other"} : Answer(key) \/ AnswerAgain(key)
    \/ ConfirmBulk \/ DeclineBulk
    \/ WriteGolden \/ BeginSave \/ EndSave
    \/ Crash

Spec == Init /\ [][Next]_vars

-----------------------------------------------------------------------------
\* Properties

CasesOf(q) == UNION {{<<c, case>> : case \in {x \in golden[c] : x.question = q}} : c \in Category}

\* The two files agree whenever the session is between two decisions and none
\* has crashed: a candidate is marked accepted exactly if it has a case, and
\* has one case.
CasesMatchRows ==
    pc \in {"closed", "next"} /\ crashes = 0 =>
        \A k \in DOMAIN queue :
            Cardinality(CasesOf(queue[k].question)) = IF queue[k].status = "accepted" THEN 1 ELSE 0

\* The summary of a review of pending candidates that was not cut off by a crash
\* accounts for each of those it set out to review, also those a bulk skip
\* resolved early.  (In a review of skipped candidates a skip counts as skipped
\* and as remaining.)
CountsAgree ==
    pc = "closed" /\ only = "pending" /\ crashes = 0 =>
        counts.accepted + counts.skipped + counts.flagged + counts.remaining = Cardinality(todo)

KeepsDecisions == crashes = 0 => \A c \in persisted \ persisted' : c.status = only

\* A save never takes back a decision that an earlier save persisted, in this
\* session or another, except for candidates that are being reviewed again and
\* those that a crash took from the queue.
DecisionsKept == [][KeepsDecisions]_vars

\* Case numbers stay unique in each golden file, whatever numbers are missing,
\* and whatever sessions crash.
NumbersUnique ==
    \A c \in Category : \A a, b \in golden[c] : a.number = b.number => a = b

\* The human gate before the golden set is inviolable (ADR-0020): every case
\* added is one the reviewer said yes to, in its own category's file.
GateKept ==
    \A c \in Category : \A case \in golden[c] :
        case.question = "seed" \/ (case.question \in approved /\ CategoryOf[case.question] = c)

\* A crash keeps the progress that earlier decisions persisted: the comment on
\* the save after each decision.
ProgressKept ==
    pc = "closed" => \A c \in persisted : \E k \in DOMAIN queue : queue[k] = c
=============================================================================
