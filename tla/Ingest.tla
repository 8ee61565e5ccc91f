-------------------------------- MODULE Ingest --------------------------------
(***************************************************************************)
(* The ingest pipeline (ingest/): check the corpus out, chunk its files,   *)
(* embed what the cache does not have in concurrent batches, and upsert    *)
(* the chunks into the vector index.                                       *)
(*                                                                         *)
(* Runs follow each other, with other refs, after failures and crashes,    *)
(* over the same clone, cache and index.  A vector is the text it embeds.  *)
(* A file is its sections: a text, or one that is left out.  git and the   *)
(* vector store's single operations are atomic.                            *)
(***************************************************************************)
EXTENDS Naturals, Sequences, FiniteSets

CONSTANTS
    Doc,           \* the sorted files of the corpus, a sequence
    Text,          \* texts of sections that become chunks
    Commit,
    Sections,      \* the sections of each file at each commit
    NoCommit,
    Branch,        \* the ref that names the remote's default branch
    BatchSize,     \* _BATCH_SIZE
    Concurrency,   \* ingest_embed_concurrency
    UpsertSize,    \* _UPSERT_BATCH
    MaxRuns,       \* bound: ingest runs
    MaxFaults      \* bound: failed calls and crashes

File == {Doc[n] : n \in DOMAIN Doc}

ASSUME IngestAssumption ==
    /\ Doc \in Seq(File) /\ \A m, n \in DOMAIN Doc : Doc[m] = Doc[n] => m = n
    /\ \A c \in Commit : \A d \in File : Sections[c][d] \in Seq(Text \cup {"left out"})
    /\ "left out" \notin Text
    /\ NoCommit \notin Commit /\ Branch \notin Commit
    /\ BatchSize \in Nat \ {0} /\ Concurrency \in Nat \ {0} /\ UpsertSize \in Nat \ {0}
    /\ MaxRuns \in Nat /\ MaxFaults \in Nat

VARIABLES
    tip,                \* the remote's default branch
    head, local, tree,  \* the clone: HEAD, the local branch, the files checked out
    pc,                 \* where the run is
    ref,                \* corpus.git_ref
    pos,                \* how far the loop at pc has come
    chunks,             \* all_chunks
    toEmbed,            \* to_embed
    call,               \* the state of each batch's task
    results,            \* the chunks with their vectors
    cache,              \* rows of the embedding cache: <<text in the key, vector>>
    index,              \* the collection, at most one entry for each id
    done,               \* history: the commit the index was last completed for
    paid,               \* history: how often each text was sent to the model
    lost,               \* history: how often that was for nothing
    runs, faults

clone == <<head, local, tree>>
run == <<ref, pos, chunks, toEmbed, call, results>>
bounds == <<runs, faults>>
ingestVars == <<tip, clone, pc, run, cache, index, done, paid, lost, bounds>>

\* The texts of a file that become chunks, neither empty nor oversized, in order.
Kept(c, d) ==
    LET texts == {s \in DOMAIN Sections[c][d] : Sections[c][d][s] \in Text}
    IN  [n \in 1 .. Cardinality(texts) |->
            Sections[c][d][CHOOSE s \in texts : Cardinality({o \in texts : o <= s}) = n]]

\* Ids count a file's chunks from zero; sha is the commit they are said to be of.
FileChunks(c, d, sha) ==
    [n \in DOMAIN Kept(c, d) |-> [id |-> <<d, n - 1>>, text |-> Kept(c, d)[n], commit |-> sha]]

Chunk == [id : File \X Nat, text : Text, commit : Commit]
Embedded == [id : File \X Nat, text : Text, commit : Commit, vector : Text]

WithVector(chunk, v) == [id |-> chunk.id, text |-> chunk.text, commit |-> chunk.commit, vector |-> v]

Batches == DOMAIN call
In(status) == {b \in Batches : call[b] = status}

IngestTypeOK ==
    /\ tip \in Commit
    /\ {head, local, tree} \subseteq Commit \cup {NoCommit}
    /\ pc \in {"idle", "ensure", "checkout", "read", "lookup", "embed", "failing", "index"}
    /\ ref \in Commit \cup {Branch}
    /\ pos \in Nat
    /\ chunks \in Seq(Chunk) /\ toEmbed \in Seq(Chunk)
    /\ \A b \in Batches : call[b] \in {"waiting", "calling", "done", "failed"}
    /\ Cardinality(In("calling")) <= Concurrency
    /\ results \in Seq(Embedded)
    /\ cache \subseteq Text \X Text
    /\ index \subseteq Embedded
    /\ \A x, y \in index : x.id = y.id => x = y
    /\ done \in Commit \cup {NoCommit}
    /\ paid \in [Text -> Nat] /\ lost \in [Text -> Nat]

IngestInit ==
    /\ tip \in Commit
    /\ head = NoCommit /\ local = NoCommit /\ tree = NoCommit
    /\ pc = "idle"
    /\ ref = Branch
    /\ pos = 0
    /\ chunks = << >> /\ toEmbed = << >> /\ call = << >> /\ results = << >>
    /\ cache = {} /\ index = {} /\ done = NoCommit
    /\ paid = [t \in Text |-> 0] /\ lost = [t \in Text |-> 0]
    /\ runs = 0 /\ faults = 0

Goto(where) == pc' = where /\ pos' = 0

\* The run ends, and its memory with it.
End ==
    /\ Goto("idle")
    /\ chunks' = << >> /\ toEmbed' = << >> /\ call' = << >> /\ results' = << >>
    /\ UNCHANGED ref

Fault == faults < MaxFaults /\ faults' = faults + 1 /\ UNCHANGED runs

-----------------------------------------------------------------------------
\* The checkout

Push ==
    /\ tip' \in Commit \ {tip}
    /\ UNCHANGED <<clone, pc, run, cache, index, done, paid, lost, bounds>>

Start ==
    /\ pc = "idle"
    /\ runs < MaxRuns
    /\ runs' = runs + 1
    /\ ref' \in Commit \cup {Branch}
    /\ Goto("ensure")
    /\ UNCHANGED <<tip, clone, chunks, toEmbed, call, results, cache, index, done, paid, lost, faults>>

\* A clone without a checkout, or the clone as it is, if its HEAD is the pinned
\* commit; a branch name never looks like a HEAD, so it is fetched.
EnsureRepo ==
    /\ pc = "ensure"
    /\ IF head = NoCommit
          THEN /\ head' = tip /\ local' = tip /\ UNCHANGED tree
               /\ Goto("checkout")
          ELSE /\ UNCHANGED clone
               /\ Goto(IF head = ref THEN "read" ELSE "checkout")
    /\ UNCHANGED <<tip, ref, chunks, toEmbed, call, results, cache, index, done, paid, lost, bounds>>

\* A fetch moves no local branch: checking a branch out gives what it was when
\* the clone was made.
Checkout ==
    LET target == IF ref = Branch THEN local ELSE ref
    IN  /\ pc = "checkout"
        /\ head' = target /\ tree' = target
        /\ Goto("read")
        /\ UNCHANGED <<tip, local, ref, chunks, toEmbed, call, results, cache, index, done, paid,
                       lost, bounds>>

\* git fails, or HEAD is the pinned commit but no file was ever checked out,
\* because a crash came between the clone and the checkout.
LoadFails ==
    /\ \/ pc \in {"ensure", "checkout"} /\ Fault
       \/ pc = "read" /\ tree = NoCommit /\ UNCHANGED bounds
    /\ End
    /\ UNCHANGED <<tip, clone, cache, index, done, paid, lost>>

-----------------------------------------------------------------------------
\* Chunking

\* Fault: the commit is taken from the remote, not from what is checked out.
ReadFileRemoteSha ==
    /\ pc = "read"
    /\ tree # NoCommit
    /\ pos < Len(Doc)
    /\ chunks' = chunks \o FileChunks(tree, Doc[pos + 1], tip)
    /\ pos' = pos + 1
    /\ UNCHANGED <<tip, clone, pc, ref, toEmbed, call, results, cache, index, done, paid, lost, bounds>>

\* "for path in paths": the chunks of one more file, with the commit of HEAD.
ReadFile ==
    /\ pc = "read"
    /\ tree # NoCommit
    /\ pos < Len(Doc)
    /\ chunks' = chunks \o FileChunks(tree, Doc[pos + 1], head)
    /\ pos' = pos + 1
    /\ UNCHANGED <<tip, clone, pc, ref, toEmbed, call, results, cache, index, done, paid, lost, bounds>>

Chunked ==
    /\ pc = "read"
    /\ tree # NoCommit
    /\ pos = Len(Doc)
    /\ Goto("lookup")
    /\ UNCHANGED <<tip, clone, ref, chunks, toEmbed, call, results, cache, index, done, paid, lost,
                   bounds>>

-----------------------------------------------------------------------------
\* Embedding

\* cache.get(make_key(model, text)): no vector, or one.
Hits(text) == {row[2] : row \in {r \in cache : r[1] = text}}

\* Fault: a vector in the cache is not used.
LookUpMissing ==
    /\ pc = "lookup"
    /\ pos < Len(chunks)
    /\ pos' = pos + 1
    /\ toEmbed' = Append(toEmbed, chunks[pos + 1])
    /\ UNCHANGED <<tip, clone, pc, ref, chunks, call, results, cache, index, done, paid, lost, bounds>>

LookUp ==
    LET chunk == chunks[pos + 1]
    IN  /\ pc = "lookup"
        /\ pos < Len(chunks)
        /\ pos' = pos + 1
        /\ \/ /\ \E v \in Hits(chunk.text) : results' = Append(results, WithVector(chunk, v))
              /\ UNCHANGED toEmbed
           \/ /\ Hits(chunk.text) = {}
              /\ toEmbed' = Append(toEmbed, chunk)
              /\ UNCHANGED results
        /\ UNCHANGED <<tip, clone, pc, ref, chunks, call, cache, index, done, paid, lost, bounds>>

\* _batched: the positions in to_embed of batch b.
BatchOf(b) == {n \in DOMAIN toEmbed : (b - 1) * BatchSize < n /\ n <= b * BatchSize}

\* asyncio.gather starts one task for each batch.
Gather ==
    /\ pc = "lookup"
    /\ pos = Len(chunks)
    /\ call' = [b \in 1 .. (Len(toEmbed) + BatchSize - 1) \div BatchSize |-> "waiting"]
    /\ Goto("embed")
    /\ UNCHANGED <<tip, clone, ref, chunks, toEmbed, results, cache, index, done, paid, lost, bounds>>

\* How many chunks at some positions of to_embed have a text.
Copies(positions, t) == Cardinality({n \in positions : toEmbed[n].text = t})

Embedding == pc \in {"embed", "failing"}

\* The semaphore lets the first task that waits for it through.
Call(b) ==
    /\ Embedding
    /\ call[b] = "waiting"
    /\ \A o \in In("waiting") : b <= o
    /\ Cardinality(In("calling")) < Concurrency
    /\ call' = [call EXCEPT ![b] = "calling"]
    /\ paid' = [t \in Text |-> paid[t] + Copies(BatchOf(b), t)]
    /\ UNCHANGED <<tip, clone, pc, ref, pos, chunks, toEmbed, results, cache, index, done, lost, bounds>>

\* The cache after the vectors of some positions of to_embed are stored.
Stored(positions) ==
    LET texts == {toEmbed[n].text : n \in positions}
    IN  {row \in cache : row[1] \notin texts} \cup {<<t, t>> : t \in texts}

\* The reply's vectors are stored one by one, without an await between.
Reply(b) ==
    /\ Embedding
    /\ call[b] = "calling"
    /\ call' = [call EXCEPT ![b] = "done"]
    /\ cache' = Stored(BatchOf(b))
    /\ UNCHANGED <<tip, clone, pc, ref, pos, chunks, toEmbed, results, index, done, paid, lost, bounds>>

\* A call raises: gather hands the first exception on and leaves the other tasks
\* running until the event loop comes to cancel them.
CallFails(b) ==
    /\ Embedding
    /\ call[b] = "calling"
    /\ Fault
    /\ call' = [call EXCEPT ![b] = "failed"]
    /\ lost' = [t \in Text |-> lost[t] + Copies(BatchOf(b), t)]
    /\ pc' = "failing"
    /\ UNCHANGED <<tip, clone, ref, pos, chunks, toEmbed, results, cache, index, done, paid>>

\* The positions in to_embed of the batches whose reply is still awaited.
InFlight == UNION {BatchOf(b) : b \in In("calling")}

\* The cache is closed, the run ends, and asyncio.run cancels what is still
\* being called.
Abort ==
    /\ pc = "failing"
    /\ lost' = [t \in Text |-> lost[t] + Copies(InFlight, t)]
    /\ End
    /\ UNCHANGED <<tip, clone, cache, index, done, paid, bounds>>

\* gather returned: the replies in the order of the batches.
Collect ==
    /\ pc = "embed"
    /\ In("done") = Batches
    /\ pos < Len(toEmbed)
    /\ results' = Append(results, WithVector(toEmbed[pos + 1], toEmbed[pos + 1].text))
    /\ pos' = pos + 1
    /\ UNCHANGED <<tip, clone, pc, ref, chunks, toEmbed, call, cache, index, done, paid, lost, bounds>>

Collected ==
    /\ pc = "embed"
    /\ In("done") = Batches
    /\ pos = Len(toEmbed)
    /\ Goto("index")
    /\ UNCHANGED <<tip, clone, ref, chunks, toEmbed, call, results, cache, index, done, paid, lost,
                   bounds>>

-----------------------------------------------------------------------------
\* Indexing

\* embedded[batch_start : batch_start + _UPSERT_BATCH]
Slice == {results[n] : n \in {m \in DOMAIN results : pos < m /\ m <= pos + UpsertSize}}

\* The collection after an upsert: entries with other ids stay.
Upserted(entries) ==
    {e \in index : \A x \in entries : x.id # e.id} \cup entries

\* Fault: the last slice is forgotten unless it is full.
UpsertWhole ==
    /\ pc = "index"
    /\ pos < Len(results)
    /\ index' = IF pos + UpsertSize <= Len(results) THEN Upserted(Slice) ELSE index
    /\ done' = NoCommit
    /\ pos' = pos + UpsertSize
    /\ UNCHANGED <<tip, clone, pc, ref, chunks, toEmbed, call, results, cache, paid, lost, bounds>>

Upsert ==
    /\ pc = "index"
    /\ pos < Len(results)
    /\ index' = Upserted(Slice)
    /\ done' = NoCommit
    /\ pos' = pos + UpsertSize
    /\ UNCHANGED <<tip, clone, pc, ref, chunks, toEmbed, call, results, cache, paid, lost, bounds>>

\* The run is complete, also when there was nothing to index.
Complete ==
    /\ pc = "index"
    /\ pos >= Len(results)
    /\ done' = IF results = << >> THEN done ELSE head
    /\ End
    /\ UNCHANGED <<tip, clone, cache, index, paid, lost, bounds>>

-----------------------------------------------------------------------------
\* The first positions of a batch whose reply had arrived; none, to begin with.
StoredFirst ==
    {{}} \cup UNION {{{m \in BatchOf(b) : m <= n} : n \in BatchOf(b)} : b \in In("calling")}

\* The process dies, maybe while it was storing a reply.
Crash ==
    /\ pc # "idle"
    /\ Fault
    /\ \E positions \in StoredFirst :
          /\ cache' = Stored(positions)
          /\ lost' = [t \in Text |-> lost[t] + Copies(InFlight \ positions, t)]
    /\ End
    /\ UNCHANGED <<tip, clone, index, done, paid>>

IngestNext ==
    \/ Push
    \/ Start \/ EnsureRepo \/ Checkout \/ LoadFails
    \/ ReadFile \/ Chunked
    \/ LookUp \/ Gather
    \/ \E b \in Batches : Call(b) \/ Reply(b) \/ CallFails(b)
    \/ Abort \/ Collect \/ Collected
    \/ Upsert \/ Complete
    \/ Crash

IngestSpec == IngestInit /\ [][IngestNext]_ingestVars

-----------------------------------------------------------------------------
\* Properties

\* A chunk says what its file said at its commit.
IsChunk(c) ==
    \E n \in DOMAIN Kept(c.commit, c.id[1]) :
        /\ c.id[2] = n - 1
        /\ c.text = Kept(c.commit, c.id[1])[n]

\* Every entry of the index has the text its file had at the commit it names and
\* the vector of that text, whatever was upserted over what and whenever a run
\* died; no vector in the cache belongs to another text (ADR-0002, ADR-0005).
IndexTrue ==
    /\ \A row \in cache : row[1] = row[2]
    /\ \A e \in index : IsChunk(e) /\ e.vector = e.text

\* Once a run has completed, and until another one upserts, the index has every
\* chunk of that run's commit.  It may have more: a file that lost chunks keeps
\* the last ones of an earlier run.
IndexCurrent ==
    done # NoCommit =>
        \A d \in File : \A n \in DOMAIN Kept(done, d) :
            WithVector(FileChunks(done, d, done)[n], Kept(done, d)[n]) \in index

\* A text is sent to the model once for each of its chunks in one corpus, and
\* again only as often as a reply was lost: what one run stored, the next one
\* takes from the cache, also when the first one failed (ADR-0005).
ChunksWith(c, t) ==
    UNION {{<<d, n>> : n \in {k \in DOMAIN Kept(c, d) : Kept(c, d)[k] = t}} : d \in File}

RerunsPayOnce ==
    \A t \in Text : \E c \in Commit : paid[t] <= Cardinality(ChunksWith(c, t)) + lost[t]
=============================================================================
