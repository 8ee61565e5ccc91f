------------------------------ MODULE StreamQuery ------------------------------
(***************************************************************************)
(* POST /query/stream (api/server.py query_stream, generator.py            *)
(* generate_stream) and the browser that reads it (static/app.js).         *)
(*                                                                         *)
(* A step of the server runs from one await or yield to the next.  Frames  *)
(* reach the browser in order; it may leave at any time, and the server    *)
(* learns of it later.  A delta of the answer is plain text or carries a   *)
(* citation marker.                                                        *)
(***************************************************************************)
EXTENDS Naturals, Sequences, SequencesExt

CONSTANTS
    MaxDeltas,    \* bound: deltas of one completion
    ClosedLoop    \* closed_loop_enabled

ASSUME StreamAssumption == MaxDeltas \in Nat /\ ClosedLoop \in BOOLEAN

Delta == {"text", "cite"}
Frame ==
    {"sources"} \X BOOLEAN \cup {"token"} \X (Delta \cup {"NO_INFO"})
        \cup {"done"} \X BOOLEAN \cup {<<"error", FALSE>>}

VARIABLES
    enabled,    \* settings.demo_enabled
    spent,      \* the request spent a slot of the daily cap
    pc,         \* where the handler and its generator are suspended
    passages,   \* "chunks" is not empty
    parts,      \* answer_parts
    consumed,   \* history: model calls that used tokens
    usage,      \* calls whose usage was recorded
    sent,       \* the frames yielded, in order
    read,       \* how many of them the browser has handled
    shown,      \* answerEl: the deltas of the answer it shows
    browser,    \* "reading" or "gone"
    total, errors, latencies, ttfts, tokens,   \* the Prometheus metrics
    captured    \* the question was added to the review queue

metrics == <<total, errors, latencies, ttfts, tokens>>
client == <<read, shown, browser>>
vars == <<enabled, spent, pc, passages, parts, consumed, usage, sent, client, metrics, captured>>

Active == {"retrieve", "generate", "stream", "tail", "finish", "failing"}

TypeOK ==
    /\ enabled \in BOOLEAN /\ spent \in BOOLEAN
    /\ pc \in {"arriving", "admitted", "rejected", "closed"} \cup Active
    /\ passages \in BOOLEAN
    /\ parts \in Seq(Delta \cup {"NO_INFO"})
    /\ consumed \in Nat /\ usage \in 0 .. consumed
    /\ sent \in Seq(Frame)
    /\ read \in 0 .. Len(sent)
    /\ shown \in Seq(Delta \cup {"NO_INFO"})
    /\ browser \in {"reading", "gone"}
    /\ {total, errors, latencies, ttfts} \subseteq {0, 1} /\ tokens \in Nat
    /\ captured \in BOOLEAN

Init ==
    /\ enabled \in BOOLEAN
    /\ spent = FALSE
    /\ pc = "arriving"
    /\ passages = FALSE
    /\ parts = << >>
    /\ consumed = 0 /\ usage = 0
    /\ sent = << >>
    /\ read = 0 /\ shown = << >>
    /\ browser = "reading"
    /\ total = 0 /\ errors = 0 /\ latencies = 0 /\ ttfts = 0 /\ tokens = 0
    /\ captured = FALSE

-----------------------------------------------------------------------------
\* Before the stream

Path == "/query/stream"

\* KillSwitchMiddleware and DailyCapMiddleware look at one path.
Killed(path) == path = "/query" /\ ~enabled
Charged(path) == path = "/query"

Arrive ==
    /\ pc = "arriving"
    /\ ~Killed(Path)
    /\ spent' = Charged(Path)
    /\ pc' = "admitted"
    /\ UNCHANGED <<enabled, passages, parts, consumed, usage, sent, client, metrics, captured>>

\* Credentials, body, rate limit, blank question, injection screen or a missing
\* collection: an ordinary JSON error, before any frame.
Reject ==
    /\ pc = "admitted"
    /\ pc' = "rejected"
    /\ UNCHANGED <<enabled, spent, passages, parts, consumed, usage, sent, client, metrics, captured>>

Open ==
    /\ pc = "admitted"
    /\ pc' = "retrieve"
    /\ UNCHANGED <<enabled, spent, passages, parts, consumed, usage, sent, client, metrics, captured>>

-----------------------------------------------------------------------------
\* The generator

Yield(event, data) == sent' = Append(sent, <<event, data>>)

\* The query is embedded, the passages are found, and their sources are sent.
Retrieve ==
    /\ pc = "retrieve"
    /\ passages' \in BOOLEAN
    /\ consumed' = consumed + 1
    /\ usage' = usage + 1
    /\ Yield("sources", passages')
    /\ pc' = "generate"
    /\ UNCHANGED <<enabled, spent, parts, client, metrics, captured>>

\* A delta is timed if it is the first, kept, and sent.
Emit(delta) ==
    /\ ttfts' = 1
    /\ parts' = Append(parts, delta)
    /\ Yield("token", delta)
    /\ UNCHANGED <<total, errors, latencies, tokens>>

\* Without passages the one delta is the refusal, and no call is made.
Fallback ==
    /\ pc = "generate"
    /\ ~passages
    /\ Emit("NO_INFO")
    /\ pc' = "finish"
    /\ UNCHANGED <<enabled, spent, passages, consumed, usage, client, captured>>

\* The completion begins to arrive.
Begin ==
    /\ pc = "generate"
    /\ passages
    /\ consumed' = consumed + 1
    /\ pc' = "stream"
    /\ UNCHANGED <<enabled, spent, passages, parts, usage, sent, client, metrics, captured>>

NextDelta ==
    /\ pc = "stream"
    /\ Len(parts) < MaxDeltas
    /\ \E delta \in Delta : Emit(delta)
    /\ UNCHANGED <<enabled, spent, pc, passages, consumed, usage, client, captured>>

\* The last chunk of a completion carries its usage, and no text.
UsageChunk ==
    /\ pc = "stream"
    /\ usage' = usage + 1
    /\ pc' = "tail"
    /\ UNCHANGED <<enabled, spent, passages, parts, consumed, sent, client, metrics, captured>>

EndOfStream ==
    /\ pc = "tail"
    /\ pc' = "finish"
    /\ UNCHANGED <<enabled, spent, passages, parts, consumed, usage, sent, client, metrics, captured>>

Awaiting == pc \in {"retrieve", "stream", "tail"} \/ (pc = "generate" /\ passages)

\* The call that fails may be the first, or fail after the embedding was paid.
MayHavePaid ==
    IF pc = "retrieve"
      THEN \E n \in {0, 1} : consumed' = consumed + n /\ usage' = usage + n
      ELSE UNCHANGED <<consumed, usage>>

\* Fault: the refusal becomes the answer, but no frame says so.
OpenAIFailsUntold ==
    /\ Awaiting
    /\ MayHavePaid
    /\ errors' = 1
    /\ parts' = <<"NO_INFO">>
    /\ passages' = FALSE
    /\ pc' = "finish"
    /\ UNCHANGED <<enabled, spent, sent, client, total, latencies, ttfts, tokens, captured>>

\* The model's client gives up: the answer becomes the refusal, with no
\* passages, and the refusal is sent as one more token.
OpenAIFails ==
    /\ Awaiting
    /\ MayHavePaid
    /\ errors' = 1
    /\ parts' = <<"NO_INFO">>
    /\ passages' = FALSE
    /\ Yield("token", "NO_INFO")
    /\ pc' = "finish"
    /\ UNCHANGED <<enabled, spent, client, total, latencies, ttfts, tokens, captured>>

\* Fault: the error is counted and logged, and no frame says so.
OtherFailsSilently ==
    /\ Awaiting
    /\ MayHavePaid
    /\ errors' = 1
    /\ pc' = "failing"
    /\ UNCHANGED <<enabled, spent, passages, parts, sent, client, total, latencies, ttfts, tokens,
                   captured>>

\* Anything else: an error frame.
OtherFails ==
    /\ Awaiting
    /\ MayHavePaid
    /\ errors' = 1
    /\ Yield("error", FALSE)
    /\ pc' = "failing"
    /\ UNCHANGED <<enabled, spent, passages, parts, client, total, latencies, ttfts, tokens, captured>>

\* Fault: the generator goes on after the error frame.
ReturnFallingThrough ==
    /\ pc = "failing"
    /\ latencies' = 1
    /\ total' = 1
    /\ Yield("done", FALSE)
    /\ pc' = "closed"
    /\ UNCHANGED <<enabled, spent, passages, parts, consumed, usage, client,
                   errors, ttfts, tokens, captured>>

\* "finally", then the return of the error path.
Return ==
    /\ pc = "failing"
    /\ latencies' = 1
    /\ pc' = "closed"
    /\ UNCHANGED <<enabled, spent, passages, parts, consumed, usage, sent, client,
                   total, errors, ttfts, tokens, captured>>

\* An answer that reads like a refusal is captured, unless its question is a
\* near-duplicate or cannot be written; an empty answer never is.
Capture ==
    captured' \in IF ClosedLoop /\ parts # << >> THEN BOOLEAN ELSE {FALSE}

\* "finally", then usage, citations, capture and the last frame.
Finish ==
    /\ pc = "finish"
    /\ latencies' = 1
    /\ total' = 1
    /\ tokens' = usage
    /\ Capture
    /\ Yield("done", passages /\ Contains(parts, "cite"))
    /\ pc' = "closed"
    /\ UNCHANGED <<enabled, spent, passages, parts, consumed, usage, client, errors, ttfts>>

\* Fault: the latency is observed only when the stream ends by itself.
CancelUntimed ==
    /\ browser = "gone"
    /\ pc \in Active
    /\ pc' = "closed"
    /\ UNCHANGED <<enabled, spent, passages, parts, consumed, usage, sent, client, metrics, captured>>

\* The server learns that the browser has gone: the generator is cancelled where
\* it is suspended, and only its "finally" runs.
Cancel ==
    /\ browser = "gone"
    /\ pc \in Active
    /\ latencies' = 1
    /\ pc' = "closed"
    /\ UNCHANGED <<enabled, spent, passages, parts, consumed, usage, sent, client,
                   total, errors, ttfts, tokens, captured>>

-----------------------------------------------------------------------------
\* The browser

\* The deltas are added to the answer as they come; the other frames have their
\* own places on the page.
ReadFrame ==
    /\ browser = "reading"
    /\ read < Len(sent)
    /\ read' = read + 1
    /\ shown' = IF sent[read'][1] = "token" THEN Append(shown, sent[read'][2]) ELSE shown
    /\ UNCHANGED <<enabled, spent, pc, passages, parts, consumed, usage, sent, browser,
                   metrics, captured>>

Leave ==
    /\ browser = "reading"
    /\ browser' = "gone"
    /\ UNCHANGED <<enabled, spent, pc, passages, parts, consumed, usage, sent, read, shown,
                   metrics, captured>>

Serve ==
    \/ Arrive \/ Reject \/ Open
    \/ Retrieve \/ Fallback \/ Begin \/ NextDelta \/ UsageChunk \/ EndOfStream
    \/ OpenAIFails \/ OtherFails \/ Return \/ Finish \/ Cancel

Next == Serve \/ ReadFrame \/ Leave

\* The event loop resumes the generator whenever its await returns, and the
\* browser's loop reads what has arrived.  Nothing makes a browser leave.
Spec == Init /\ [][Next]_vars /\ WF_vars(Serve) /\ WF_vars(ReadFrame)

-----------------------------------------------------------------------------
\* Properties

Event(k) == sent[k][1]
Terminal == {"done", "error"}
Handled == {sent[k] : k \in 1 .. read}

\* ADR-0031's protocol: sources come first or not at all, and the frame that
\* ends the stream is the only one of its kind and the last.
FrameOrder ==
    \A k \in DOMAIN sent :
        /\ Event(k) = "sources" => k = 1
        /\ Event(k) \in Terminal => k = Len(sent)

\* When the generator is gone, by its end, an error or a cancellation, it was
\* timed, and it was counted as a query exactly if it got to the last frame,
\* with the usage recorded until then.
OutcomeCounted ==
    pc = "closed" =>
        /\ latencies = 1
        /\ total = IF \E k \in DOMAIN sent : Event(k) = "done" THEN 1 ELSE 0
        /\ tokens = IF total = 1 THEN usage ELSE 0
        /\ (\E k \in DOMAIN sent : Event(k) = "error") => total = 0 /\ errors = 1

\* A browser that has the last frame shows exactly the answer the server parsed
\* the citations from or, if the model failed, before the first delta or in the
\* middle of the answer, something that ends in the refusal; and citations come
\* only with an answer that did not fail, the passages and the markers they
\* resolve.
CompleteView ==
    (\E frame \in Handled : frame[1] = "done") =>
        /\ IF errors = 0 THEN shown = parts ELSE shown # << >> /\ Last(shown) = "NO_INFO"
        /\ <<"done", TRUE>> \in Handled =>
              errors = 0 /\ <<"sources", TRUE>> \in Handled /\ Contains(shown, "cite")

\* A browser that stays gets a rejection or a last frame.
Settles ==
    <>(browser = "gone" \/ pc = "rejected" \/ \E k \in 1 .. read : Event(k) \in Terminal)
=============================================================================
