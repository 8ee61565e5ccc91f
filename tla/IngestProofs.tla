----------------------------- MODULE IngestProofs -----------------------------
(***************************************************************************)
(* Proofs about the ingest pipeline, for every corpus, batch size and      *)
(* number of runs and crashes, about reciprocal rank fusion, for every     *)
(* number of rankings, and about what the retrievers serve while the index *)
(* is rewritten.                                                           *)
(***************************************************************************)
EXTENDS Retrieval, FiniteSetTheorems, WellFoundedInduction, TLAPS

\* The chunks of the corpus at all commits, and their entries in the index.
TrueChunks ==
    UNION {UNION {{FileChunks(c, d, c)[n] : n \in DOMAIN Kept(c, d)} : d \in File} : c \in Commit}
TrueEntries == {WithVector(x, x.text) : x \in TrueChunks}

\* What a clone can be.
CloneInv ==
    /\ tip \in Commit
    /\ ref \in Commit \cup {Branch}
    /\ head \in Commit \cup {NoCommit}
    /\ local \in Commit \cup {NoCommit}
    /\ head # NoCommit => local # NoCommit
    /\ tree # NoCommit => tree = head
    /\ pc = "checkout" => head # NoCommit
    /\ pos \in Nat

\* What the run carries, the cache and the index are true.
TrueInv ==
    /\ CloneInv
    /\ chunks \in Seq(TrueChunks)
    /\ toEmbed \in Seq(TrueChunks)
    /\ results \in Seq(TrueEntries)
    /\ \A row \in cache : row[1] = row[2]
    /\ index \subseteq TrueEntries

\* A file's chunks are numbered from one without a gap.
LEMMA KeptDomain ==
    ASSUME NEW c \in Commit, NEW d \in File
    PROVE  \E m \in Nat : DOMAIN Kept(c, d) = 1 .. m
<1> DEFINE texts == {s \in DOMAIN Sections[c][d] : Sections[c][d][s] \in Text}
<1>1. Sections[c][d] \in Seq(Text \cup {"left out"})
  BY IngestAssumption
<1>2. texts \subseteq 1 .. Len(Sections[c][d]) /\ Len(Sections[c][d]) \in Nat
  <2>1. ASSUME NEW S, NEW s \in Seq(S) PROVE DOMAIN s = 1 .. Len(s) /\ Len(s) \in Nat
    OBVIOUS
  <2>2. DOMAIN Sections[c][d] = 1 .. Len(Sections[c][d]) /\ Len(Sections[c][d]) \in Nat
    BY <1>1, <2>1
  <2> QED
    BY ONLY <2>2
<1>3. IsFiniteSet(1 .. Len(Sections[c][d]))
  BY <1>2, FS_Interval
<1>4. IsFiniteSet(texts)
  BY <1>2, <1>3, FS_Subset
<1>5. Cardinality(texts) \in Nat
  BY <1>4, FS_CardinalityType
<1> QED
  BY <1>5 DEF Kept

\* chunk_file's list, with the commit that is checked out.
LEMMA FileChunksTrue ==
    ASSUME NEW c \in Commit, NEW d \in File
    PROVE  FileChunks(c, d, c) \in Seq(TrueChunks)
<1>1. PICK m \in Nat : DOMAIN Kept(c, d) = 1 .. m
  BY KeptDomain
<1>2. DOMAIN FileChunks(c, d, c) = 1 .. m
  BY <1>1 DEF FileChunks
<1>3. \A n \in 1 .. m : FileChunks(c, d, c)[n] \in TrueChunks
  BY <1>1 DEF TrueChunks
<1>4. FileChunks(c, d, c) = [n \in 1 .. m |-> FileChunks(c, d, c)[n]]
  BY <1>1 DEF FileChunks
<1> QED
  BY <1>3, <1>4

LEMMA TrueChunkIs ==
    ASSUME NEW x \in TrueChunks
    PROVE  IsChunk(WithVector(x, x.text)) /\ WithVector(x, x.text).vector = WithVector(x, x.text).text
<1>1. PICK c \in Commit, d \in File : \E n \in DOMAIN Kept(c, d) : x = FileChunks(c, d, c)[n]
  BY DEF TrueChunks
<1>2. PICK n \in DOMAIN Kept(c, d) : x = FileChunks(c, d, c)[n]
  BY <1>1
<1>3. x = [id |-> <<d, n - 1>>, text |-> Kept(c, d)[n], commit |-> c]
  BY <1>2 DEF FileChunks
<1>4. /\ WithVector(x, x.text).id = <<d, n - 1>>
      /\ WithVector(x, x.text).text = Kept(c, d)[n]
      /\ WithVector(x, x.text).commit = c
      /\ WithVector(x, x.text).vector = Kept(c, d)[n]
  BY <1>3 DEF WithVector
<1> QED
  BY <1>2, <1>4 DEF IsChunk

LEMMA TrueInvImplies == TrueInv => IndexTrue
<1> SUFFICES ASSUME TrueInv, NEW e \in index
             PROVE  IsChunk(e) /\ e.vector = e.text
  BY DEF TrueInv, IndexTrue
<1>1. PICK x \in TrueChunks : e = WithVector(x, x.text)
  BY DEF TrueInv, TrueEntries
<1> QED
  BY <1>1, TrueChunkIs

LEMMA TrueInit == IngestInit => TrueInv
  BY DEF IngestInit, TrueInv, CloneInv

\* A reply's vectors belong to their texts.
LEMMA StoredTrue ==
    ASSUME \A row \in cache : row[1] = row[2], NEW positions
    PROVE  \A row \in Stored(positions) : row[1] = row[2]
  BY DEF Stored

\* The steps that end a run drop what it carried.
LEMMA EndKeeps ==
    ASSUME TrueInv, End, UNCHANGED <<tip, clone, index>>,
           \A row \in cache' : row[1] = row[2]
    PROVE  TrueInv'
  BY DEF TrueInv, CloneInv, End, Goto, clone

LEMMA TrueNext == TrueInv /\ [IngestNext]_ingestVars => TrueInv'
<1> SUFFICES ASSUME TrueInv, [IngestNext]_ingestVars PROVE TrueInv'
  OBVIOUS
<1> USE DEF clone, run, bounds
<1>1. CASE Push
  BY <1>1 DEF Push, TrueInv, CloneInv
<1>2. CASE Start
  BY <1>2 DEF Start, Goto, TrueInv, CloneInv
<1>3. CASE EnsureRepo
  <2>1. NoCommit \notin Commit
    BY IngestAssumption
  <2>2. CASE head = NoCommit
    BY <1>3, <2>1, <2>2 DEF EnsureRepo, Goto, TrueInv, CloneInv
  <2>3. CASE head # NoCommit
    BY <1>3, <2>3 DEF EnsureRepo, Goto, TrueInv, CloneInv
  <2> QED
    BY <2>2, <2>3
<1>4. CASE Checkout
  BY <1>4 DEF Checkout, Goto, TrueInv, CloneInv
<1>5. CASE LoadFails
  <2>1. End /\ UNCHANGED <<tip, clone, index>> /\ UNCHANGED cache
    BY <1>5 DEF LoadFails
  <2>2. \A row \in cache' : row[1] = row[2]
    BY <2>1 DEF TrueInv
  <2> QED
    BY <2>1, <2>2, EndKeeps
<1>6. CASE ReadFile
  <2>1. tree \in Commit /\ tree = head /\ Doc[pos + 1] \in File /\ pos' \in Nat
    <3>1. Doc \in Seq(File)
      BY IngestAssumption
    <3>2. pos \in Nat /\ pos < Len(Doc) /\ pos' = pos + 1
      BY <1>6 DEF ReadFile, TrueInv, CloneInv
    <3>3. Doc[pos + 1] \in File
      BY <3>1, <3>2
    <3>4. tree \in Commit /\ tree = head
      BY <1>6 DEF ReadFile, TrueInv, CloneInv
    <3> QED
      BY <3>2, <3>3, <3>4
  <2>2. chunks' = chunks \o FileChunks(head, Doc[pos + 1], head)
    BY <1>6, <2>1 DEF ReadFile
  <2>3. FileChunks(head, Doc[pos + 1], head) \in Seq(TrueChunks)
    BY <2>1, FileChunksTrue
  <2>4. chunks' \in Seq(TrueChunks)
    BY <2>2, <2>3 DEF TrueInv
  <2> QED
    BY <1>6, <2>1, <2>4 DEF ReadFile, TrueInv, CloneInv
<1>7. CASE Chunked
  BY <1>7 DEF Chunked, Goto, TrueInv, CloneInv
<1>8. CASE LookUp
  <2> DEFINE chunk == chunks[pos + 1]
  <2>1. chunk \in TrueChunks /\ pos' \in Nat
    BY <1>8 DEF LookUp, TrueInv, CloneInv
  <2>2. CASE toEmbed' = Append(toEmbed, chunk) /\ UNCHANGED results
    BY <1>8, <2>1, <2>2 DEF LookUp, TrueInv, CloneInv
  <2>3. CASE /\ \E v \in Hits(chunk.text) : results' = Append(results, WithVector(chunk, v))
             /\ UNCHANGED toEmbed
    <3>1. PICK v \in Hits(chunk.text) : results' = Append(results, WithVector(chunk, v))
      BY <2>3
    <3>2. v = chunk.text
      BY DEF Hits, TrueInv
    <3>3. WithVector(chunk, v) \in TrueEntries
      BY <2>1, <3>2 DEF TrueEntries
    <3>4. results' \in Seq(TrueEntries)
      BY <3>1, <3>3 DEF TrueInv
    <3> QED
      BY <1>8, <2>1, <2>3, <3>4 DEF LookUp, TrueInv, CloneInv
  <2> QED
    BY <1>8, <2>2, <2>3 DEF LookUp
<1>9. CASE Gather
  BY <1>9 DEF Gather, Goto, TrueInv, CloneInv
<1>10. ASSUME NEW b \in Batches, Call(b) PROVE TrueInv'
  BY <1>10 DEF Call, TrueInv, CloneInv
<1>11. ASSUME NEW b \in Batches, Reply(b) PROVE TrueInv'
  <2>1. \A row \in cache' : row[1] = row[2]
    BY <1>11, StoredTrue DEF Reply, TrueInv
  <2> QED
    BY <1>11, <2>1 DEF Reply, TrueInv, CloneInv
<1>12. ASSUME NEW b \in Batches, CallFails(b) PROVE TrueInv'
  BY <1>12 DEF CallFails, TrueInv, CloneInv
<1>13. CASE Abort
  BY <1>13, EndKeeps DEF Abort, TrueInv
<1>14. CASE Collect
  <2>1. toEmbed[pos + 1] \in TrueChunks /\ pos' \in Nat
    BY <1>14 DEF Collect, TrueInv, CloneInv
  <2>2. WithVector(toEmbed[pos + 1], toEmbed[pos + 1].text) \in TrueEntries
    BY <2>1 DEF TrueEntries
  <2>3. results' \in Seq(TrueEntries)
    BY <1>14, <2>2 DEF Collect, TrueInv
  <2> QED
    BY <1>14, <2>1, <2>3 DEF Collect, TrueInv, CloneInv
<1>15. CASE Collected
  BY <1>15 DEF Collected, Goto, TrueInv, CloneInv
<1>16. CASE Upsert
  <2>1. Slice \subseteq TrueEntries
    BY DEF Slice, TrueInv
  <2>2. index' \subseteq TrueEntries
    BY <1>16, <2>1 DEF Upsert, Upserted, TrueInv
  <2>3. pos' \in Nat
    <3>1. UpsertSize \in Nat
      BY IngestAssumption
    <3>2. pos \in Nat /\ pos' = pos + UpsertSize
      BY <1>16 DEF Upsert, TrueInv, CloneInv
    <3> QED
      BY <3>1, <3>2
  <2> QED
    BY <1>16, <2>2, <2>3 DEF Upsert, TrueInv, CloneInv
<1>17. CASE Complete
  BY <1>17, EndKeeps DEF Complete, TrueInv
<1>18. CASE Crash
  BY <1>18, EndKeeps, StoredTrue DEF Crash, TrueInv
<1>19. CASE UNCHANGED ingestVars
  BY <1>19 DEF ingestVars, TrueInv, CloneInv
<1> QED
  BY <1>1, <1>2, <1>3, <1>4, <1>5, <1>6, <1>7, <1>8, <1>9, <1>10, <1>11, <1>12, <1>13, <1>14,
     <1>15, <1>16, <1>17, <1>18, <1>19 DEF IngestNext

\* Every entry of the index cites a commit at which its file says that text, and
\* has that text's vector, for every corpus and however often runs die
\* (ADR-0002, ADR-0005).
THEOREM IndexTrueTheorem == IngestSpec => []IndexTrue
  BY TrueInit, TrueNext, TrueInvImplies, PTL DEF IngestSpec

-----------------------------------------------------------------------------
\* IndexCurrent

Elements(s) == {s[n] : n \in DOMAIN s}
CorpusOf(c) == UNION {{FileChunks(c, d, c)[n] : n \in DOMAIN Kept(c, d)} : d \in File}
Target(x) == WithVector(x, x.text)
Entries(c) == {Target(x) : x \in CorpusOf(c)}

\* What a run carries is of the commit that is checked out.
CarriedInv ==
    /\ pc \in {"idle", "ensure", "checkout"} =>
           chunks = << >> /\ toEmbed = << >> /\ results = << >>
    /\ pc \in {"lookup", "embed", "failing", "index"} => head \in Commit
    /\ chunks \in Seq(CorpusOf(head))
    /\ toEmbed \in Seq(CorpusOf(head))
    /\ results \in Seq(Entries(head))

\* How far each loop has come: no chunk is lost on the way to the index.
ReadInv ==
    pc = "read" =>
        /\ pos <= Len(Doc)
        /\ \A i \in 1 .. pos : \A n \in DOMAIN Kept(head, Doc[i]) :
               FileChunks(head, Doc[i], head)[n] \in Elements(chunks)
LookUpInv ==
    pc = "lookup" =>
        /\ CorpusOf(head) \subseteq Elements(chunks)
        /\ pos <= Len(chunks)
        /\ \A m \in 1 .. pos :
               chunks[m] \in Elements(toEmbed) \/ Target(chunks[m]) \in Elements(results)
EmbedInv ==
    pc = "embed" =>
        /\ \A x \in CorpusOf(head) : x \in Elements(toEmbed) \/ Target(x) \in Elements(results)
        /\ pos <= Len(toEmbed)
        /\ \A m \in 1 .. pos : Target(toEmbed[m]) \in Elements(results)
IndexInv ==
    pc = "index" =>
        /\ Entries(head) \subseteq Elements(results)
        /\ \A m \in DOMAIN results : m <= pos => results[m] \in index
DoneInv == done # NoCommit => done \in Commit /\ Entries(done) \subseteq index

CurrentInv == CarriedInv /\ ReadInv /\ LookUpInv /\ EmbedInv /\ IndexInv /\ DoneInv

LEMMA AppendElements ==
    ASSUME NEW S, NEW s \in Seq(S), NEW e \in S
    PROVE  Elements(s) \subseteq Elements(Append(s, e)) /\ e \in Elements(Append(s, e))
<1>1. /\ DOMAIN Append(s, e) = 1 .. Len(s) + 1 /\ DOMAIN s = 1 .. Len(s) /\ Len(s) \in Nat
      /\ Append(s, e)[Len(s) + 1] = e
      /\ \A n \in 1 .. Len(s) : Append(s, e)[n] = s[n]
  OBVIOUS
<1> QED
  BY <1>1 DEF Elements

LEMMA ConcatElements ==
    ASSUME NEW S, NEW s \in Seq(S), NEW t \in Seq(S)
    PROVE  Elements(s) \subseteq Elements(s \o t) /\ Elements(t) \subseteq Elements(s \o t)
<1>1. /\ DOMAIN (s \o t) = 1 .. Len(s) + Len(t)
      /\ DOMAIN s = 1 .. Len(s) /\ DOMAIN t = 1 .. Len(t) /\ Len(s) \in Nat /\ Len(t) \in Nat
      /\ \A n \in 1 .. Len(s) : (s \o t)[n] = s[n]
      /\ \A n \in 1 .. Len(t) : (s \o t)[Len(s) + n] = t[n]
  OBVIOUS
<1>2. ASSUME NEW n \in 1 .. Len(t) PROVE t[n] \in Elements(s \o t)
  <2>1. Len(s) + n \in DOMAIN (s \o t) /\ (s \o t)[Len(s) + n] = t[n]
    BY <1>1
  <2> QED
    BY <2>1 DEF Elements
<1>3. ASSUME NEW n \in 1 .. Len(s) PROVE s[n] \in Elements(s \o t)
  <2>1. n \in DOMAIN (s \o t) /\ (s \o t)[n] = s[n]
    BY <1>1
  <2> QED
    BY <2>1 DEF Elements
<1> QED
  BY <1>1, <1>2, <1>3 DEF Elements

\* Within one commit, an id names one chunk.
LEMMA OneChunk ==
    ASSUME NEW c \in Commit, NEW x \in CorpusOf(c), NEW y \in CorpusOf(c), x.id = y.id
    PROVE  x = y
<1>1. PICK d \in File : \E n \in DOMAIN Kept(c, d) : x = FileChunks(c, d, c)[n]
  BY DEF CorpusOf
<1>2. PICK n \in DOMAIN Kept(c, d) : x = FileChunks(c, d, c)[n]
  BY <1>1
<1>3. PICK e \in File : \E m \in DOMAIN Kept(c, e) : y = FileChunks(c, e, c)[m]
  BY DEF CorpusOf
<1>4. PICK m \in DOMAIN Kept(c, e) : y = FileChunks(c, e, c)[m]
  BY <1>3
<1>5. x = [id |-> <<d, n - 1>>, text |-> Kept(c, d)[n], commit |-> c]
  BY <1>2 DEF FileChunks
<1>6. y = [id |-> <<e, m - 1>>, text |-> Kept(c, e)[m], commit |-> c]
  BY <1>4 DEF FileChunks
<1>7. d = e /\ n - 1 = m - 1
  BY <1>5, <1>6
<1>8. n \in Nat /\ m \in Nat
  BY KeptDomain
<1>9. n = m
  BY <1>7, <1>8
<1> QED
  BY <1>2, <1>4, <1>7, <1>9

LEMMA OneEntry ==
    ASSUME NEW c \in Commit, NEW u \in Entries(c), NEW v \in Entries(c), u.id = v.id
    PROVE  u = v
<1>1. PICK x \in CorpusOf(c) : u = Target(x)
  BY DEF Entries
<1>2. PICK y \in CorpusOf(c) : v = Target(y)
  BY DEF Entries
<1>3. u.id = x.id /\ v.id = y.id
  BY <1>1, <1>2 DEF Target, WithVector
<1>4. x = y
  BY <1>3, OneChunk
<1> QED
  BY <1>1, <1>2, <1>4

LEMMA FileChunksOf ==
    ASSUME NEW c \in Commit, NEW d \in File
    PROVE  FileChunks(c, d, c) \in Seq(CorpusOf(c))
<1>1. PICK m \in Nat : DOMAIN Kept(c, d) = 1 .. m
  BY KeptDomain
<1>2. FileChunks(c, d, c) = [n \in 1 .. m |-> FileChunks(c, d, c)[n]]
  BY <1>1 DEF FileChunks
<1>3. \A n \in 1 .. m : FileChunks(c, d, c)[n] \in CorpusOf(c)
  BY <1>1 DEF CorpusOf
<1> QED
  BY <1>2, <1>3

\* The upsert of a slice keeps the entries of the slices before it.
LEMMA UpsertKeeps ==
    ASSUME TrueInv, CurrentInv, Upsert
    PROVE  \A m \in DOMAIN results : m <= pos' => results[m] \in index'
<1>1. /\ pos \in Nat /\ pos' = pos + UpsertSize /\ UpsertSize \in Nat
      /\ index' = Upserted(Slice) /\ pc = "index" /\ results' = results
  BY IngestAssumption DEF Upsert, TrueInv, CloneInv
<1>2. head \in Commit /\ results \in Seq(Entries(head))
  BY <1>1 DEF CurrentInv, CarriedInv
<1>3. DOMAIN results = 1 .. Len(results) /\ \A m \in DOMAIN results : results[m] \in Entries(head)
  BY <1>2
<1>4. Slice \subseteq Entries(head) /\ Slice \subseteq index'
  BY <1>1, <1>3 DEF Slice, Upserted
<1> SUFFICES ASSUME NEW m \in DOMAIN results, m <= pos' PROVE results[m] \in index'
  OBVIOUS
<1>5. CASE pos < m
  <2>1. results[m] \in Slice
    BY <1>1, <1>5 DEF Slice
  <2> QED
    BY <2>1, <1>4
<1>6. CASE ~(pos < m)
  <2>1. results[m] \in index
    BY <1>1, <1>3, <1>6 DEF CurrentInv, IndexInv
  <2>2. CASE \A x \in Slice : x.id # results[m].id
    BY <2>1, <2>2, <1>1 DEF Upserted
  <2>3. CASE \E x \in Slice : x.id = results[m].id
    <3>1. PICK x \in Slice : x.id = results[m].id
      BY <2>3
    <3>2. x = results[m]
      BY <3>1, <1>2, <1>3, <1>4, OneEntry
    <3> QED
      BY <3>1, <3>2, <1>4
  <2> QED
    BY <2>2, <2>3
<1> QED
  BY <1>5, <1>6

LEMMA CurrentInit == IngestInit => CurrentInv
  BY DEF IngestInit, CurrentInv, CarriedInv, ReadInv, LookUpInv, EmbedInv, IndexInv, DoneInv

\* A run that ends leaves nothing to lose.
LEMMA EndCurrent ==
    ASSUME CurrentInv, End, UNCHANGED <<index, done>>
    PROVE  CurrentInv'
<1>1. pc' = "idle" /\ chunks' = << >> /\ toEmbed' = << >> /\ results' = << >>
  BY DEF End, Goto
<1>2. CarriedInv'
  BY <1>1 DEF CarriedInv
<1>3. DoneInv'
  BY DEF CurrentInv, DoneInv
<1> QED
  BY <1>1, <1>2, <1>3 DEF CurrentInv, ReadInv, LookUpInv, EmbedInv, IndexInv

\* Steps of one loop that touch none of what the loops carry.
LEMMA CarryCurrent ==
    ASSUME CurrentInv, UNCHANGED <<head, pc, pos, chunks, toEmbed, results, index, done>>
    PROVE  CurrentInv'
  BY DEF CurrentInv, CarriedInv, ReadInv, LookUpInv, EmbedInv, IndexInv, DoneInv

LEMMA LoadCurrent ==
    ASSUME TrueInv, CurrentInv, Start \/ EnsureRepo \/ Checkout
    PROVE  CurrentInv'
<1>1. /\ pc' \in {"ensure", "checkout", "read"} /\ pos' = 0
      /\ UNCHANGED <<chunks, toEmbed, results, index, done>>
      /\ pc \in {"idle", "ensure", "checkout"}
  BY DEF Start, EnsureRepo, Checkout, Goto
<1>2. chunks = << >> /\ toEmbed = << >> /\ results = << >>
  BY <1>1 DEF CurrentInv, CarriedInv
<1>3. CarriedInv'
  BY <1>1, <1>2 DEF CarriedInv
<1>4. ReadInv'
  <2>1. Doc \in Seq(File)
    BY IngestAssumption
  <2>2. 0 <= Len(Doc)
    BY <2>1
  <2> QED
    BY <1>1, <2>2 DEF ReadInv
<1>5. DoneInv'
  BY <1>1 DEF CurrentInv, DoneInv
<1> QED
  BY <1>1, <1>3, <1>4, <1>5 DEF CurrentInv, LookUpInv, EmbedInv, IndexInv

LEMMA ReadCurrent ==
    ASSUME TrueInv, CurrentInv, ReadFile
    PROVE  CurrentInv'
<1> DEFINE F == FileChunks(head, Doc[pos + 1], head)
<1>1. /\ pc = "read" /\ pc' = "read" /\ pos' = pos + 1 /\ pos \in Nat /\ pos < Len(Doc)
      /\ head' = head /\ head \in Commit /\ chunks' = chunks \o F
      /\ UNCHANGED <<toEmbed, results, index, done>>
  BY DEF ReadFile, clone, TrueInv, CloneInv
<1>2. Doc \in Seq(File)
  BY IngestAssumption
<1>3. Doc[pos + 1] \in File
  BY <1>1, <1>2
<1>4. F \in Seq(CorpusOf(head)) /\ chunks \in Seq(CorpusOf(head))
  BY <1>1, <1>3, FileChunksOf DEF CurrentInv, CarriedInv
<1>5. Elements(chunks) \subseteq Elements(chunks') /\ Elements(F) \subseteq Elements(chunks')
  BY <1>1, <1>4, ConcatElements
<1>6. CarriedInv'
  <2>1. chunks' \in Seq(CorpusOf(head))
    BY <1>1, <1>4
  <2> QED
    BY <1>1, <2>1 DEF CurrentInv, CarriedInv
<1>7. ReadInv'
  <2> SUFFICES ASSUME NEW i \in 1 .. pos + 1, NEW n \in DOMAIN Kept(head, Doc[i])
               PROVE  FileChunks(head, Doc[i], head)[n] \in Elements(chunks')
    BY <1>1, <1>2 DEF ReadInv
  <2>1. CASE i = pos + 1
    <3>1. DOMAIN F = DOMAIN Kept(head, Doc[i])
      BY <2>1 DEF FileChunks
    <3> QED
      BY <2>1, <3>1, <1>5 DEF Elements
  <2>2. CASE i \in 1 .. pos
    BY <1>1, <1>5, <2>2 DEF CurrentInv, ReadInv
  <2> QED
    BY <1>1, <2>1, <2>2
<1>8. DoneInv'
  BY <1>1 DEF CurrentInv, DoneInv
<1> QED
  BY <1>1, <1>6, <1>7, <1>8 DEF CurrentInv, LookUpInv, EmbedInv, IndexInv

\* After the last file, every chunk of the corpus is there.
LEMMA ChunkedCurrent ==
    ASSUME TrueInv, CurrentInv, Chunked
    PROVE  CurrentInv'
<1>1. /\ pc = "read" /\ pc' = "lookup" /\ pos' = 0 /\ pos = Len(Doc)
      /\ head' = head /\ head \in Commit
      /\ UNCHANGED <<chunks, toEmbed, results, index, done>>
  BY DEF Chunked, Goto, clone, TrueInv, CloneInv
<1>2. Doc \in Seq(File)
  BY IngestAssumption
<1>3. ASSUME NEW x \in CorpusOf(head) PROVE x \in Elements(chunks)
  <2>1. PICK d \in File : \E n \in DOMAIN Kept(head, d) : x = FileChunks(head, d, head)[n]
    BY DEF CorpusOf
  <2>2. PICK i \in DOMAIN Doc : Doc[i] = d
    BY DEF File
  <2>3. i \in 1 .. pos
    BY <1>1, <1>2
  <2> QED
    BY <1>1, <2>1, <2>2, <2>3 DEF CurrentInv, ReadInv
<1>4. chunks \in Seq(CorpusOf(head))
  BY DEF CurrentInv, CarriedInv
<1>5. LookUpInv'
  <2>1. 0 <= Len(chunks)
    BY <1>4
  <2> QED
    BY <1>1, <1>3, <2>1 DEF LookUpInv
<1>6. CarriedInv'
  BY <1>1 DEF CurrentInv, CarriedInv
<1>7. DoneInv'
  BY <1>1 DEF CurrentInv, DoneInv
<1> QED
  BY <1>1, <1>5, <1>6, <1>7 DEF CurrentInv, ReadInv, EmbedInv, IndexInv

\* A chunk that was looked up is to be embedded, or is a result already.
LEMMA LookUpCurrent ==
    ASSUME TrueInv, CurrentInv, LookUp
    PROVE  CurrentInv'
<1> DEFINE chunk == chunks[pos + 1]
<1>1. /\ pc = "lookup" /\ pc' = "lookup" /\ pos' = pos + 1 /\ pos \in Nat /\ pos < Len(chunks)
      /\ head' = head /\ head \in Commit
      /\ UNCHANGED <<chunks, index, done>>
  BY DEF LookUp, clone, TrueInv, CloneInv, CurrentInv, CarriedInv
<1>2. /\ chunks \in Seq(CorpusOf(head)) /\ toEmbed \in Seq(CorpusOf(head))
      /\ results \in Seq(Entries(head))
  BY DEF CurrentInv, CarriedInv
<1>3. chunk \in CorpusOf(head)
  BY <1>1, <1>2
<1>4. Target(chunk) \in Entries(head)
  BY <1>3 DEF Entries
<1>5. \/ toEmbed' = Append(toEmbed, chunk) /\ results' = results
      \/ results' = Append(results, Target(chunk)) /\ toEmbed' = toEmbed
  <2>1. CASE toEmbed' = Append(toEmbed, chunk) /\ UNCHANGED results
    BY <2>1
  <2>2. CASE /\ \E v \in Hits(chunk.text) : results' = Append(results, WithVector(chunk, v))
             /\ UNCHANGED toEmbed
    <3>1. PICK v \in Hits(chunk.text) : results' = Append(results, WithVector(chunk, v))
      BY <2>2
    <3>2. v = chunk.text
      BY DEF Hits, TrueInv
    <3> QED
      BY <2>2, <3>1, <3>2 DEF Target
  <2> QED
    BY <2>1, <2>2 DEF LookUp
<1>6. /\ toEmbed' \in Seq(CorpusOf(head)) /\ results' \in Seq(Entries(head))
      /\ Elements(toEmbed) \subseteq Elements(toEmbed')
      /\ Elements(results) \subseteq Elements(results')
      /\ chunk \in Elements(toEmbed') \/ Target(chunk) \in Elements(results')
  <2>1. CASE toEmbed' = Append(toEmbed, chunk) /\ results' = results
    <3>1. /\ Elements(toEmbed) \subseteq Elements(toEmbed')
          /\ chunk \in Elements(toEmbed')
      BY <1>2, <1>3, <2>1, AppendElements
    <3>2. toEmbed' \in Seq(CorpusOf(head))
      BY <1>2, <1>3, <2>1
    <3> QED
      BY <1>2, <2>1, <3>1, <3>2
  <2>2. CASE results' = Append(results, Target(chunk)) /\ toEmbed' = toEmbed
    <3>1. /\ Elements(results) \subseteq Elements(results')
          /\ Target(chunk) \in Elements(results')
      BY <1>2, <1>4, <2>2, AppendElements
    <3>2. results' \in Seq(Entries(head))
      BY <1>2, <1>4, <2>2
    <3> QED
      BY <1>2, <2>2, <3>1, <3>2
  <2> QED
    BY <1>5, <2>1, <2>2
<1>7. LookUpInv'
  <2>1. ASSUME NEW m \in 1 .. pos + 1
        PROVE  chunks[m] \in Elements(toEmbed') \/ Target(chunks[m]) \in Elements(results')
    <3>1. CASE m = pos + 1
      BY <3>1, <1>6
    <3>2. CASE m \in 1 .. pos
      BY <3>2, <1>1, <1>6 DEF CurrentInv, LookUpInv
    <3> QED
      BY <1>1, <3>1, <3>2
  <2>2. pos + 1 <= Len(chunks)
    BY <1>1, <1>2
  <2> QED
    BY <1>1, <2>1, <2>2 DEF CurrentInv, LookUpInv
<1>8. CarriedInv'
  BY <1>1, <1>2, <1>6 DEF CarriedInv
<1>9. DoneInv'
  BY <1>1 DEF CurrentInv, DoneInv
<1> QED
  BY <1>1, <1>7, <1>8, <1>9 DEF CurrentInv, ReadInv, EmbedInv, IndexInv

LEMMA GatherCurrent ==
    ASSUME TrueInv, CurrentInv, Gather
    PROVE  CurrentInv'
<1>1. /\ pc = "lookup" /\ pc' = "embed" /\ pos' = 0 /\ pos = Len(chunks)
      /\ head' = head /\ UNCHANGED <<chunks, toEmbed, results, index, done>>
  BY DEF Gather, Goto, clone
<1>2. chunks \in Seq(CorpusOf(head)) /\ toEmbed \in Seq(CorpusOf(head))
  BY DEF CurrentInv, CarriedInv
<1>3. ASSUME NEW x \in CorpusOf(head)
      PROVE  x \in Elements(toEmbed) \/ Target(x) \in Elements(results)
  <2>1. x \in Elements(chunks)
    BY <1>1 DEF CurrentInv, LookUpInv
  <2>2. PICK m \in DOMAIN chunks : x = chunks[m]
    BY <2>1 DEF Elements
  <2>3. m \in 1 .. pos
    BY <1>1, <1>2
  <2> QED
    BY <1>1, <2>2, <2>3 DEF CurrentInv, LookUpInv
<1>4. EmbedInv'
  <2>1. 0 <= Len(toEmbed)
    BY <1>2
  <2> QED
    BY <1>1, <1>3, <2>1 DEF EmbedInv
<1>5. CarriedInv'
  BY <1>1 DEF CurrentInv, CarriedInv
<1>6. DoneInv'
  BY <1>1 DEF CurrentInv, DoneInv
<1> QED
  BY <1>1, <1>4, <1>5, <1>6 DEF CurrentInv, ReadInv, LookUpInv, IndexInv

LEMMA CollectCurrent ==
    ASSUME TrueInv, CurrentInv, Collect
    PROVE  CurrentInv'
<1> DEFINE chunk == toEmbed[pos + 1]
<1>1. /\ pc = "embed" /\ pc' = "embed" /\ pos' = pos + 1 /\ pos \in Nat /\ pos < Len(toEmbed)
      /\ head' = head /\ results' = Append(results, Target(chunk))
      /\ UNCHANGED <<chunks, toEmbed, index, done>>
  BY DEF Collect, clone, TrueInv, CloneInv, Target
<1>2. toEmbed \in Seq(CorpusOf(head)) /\ results \in Seq(Entries(head))
  BY DEF CurrentInv, CarriedInv
<1>3. chunk \in CorpusOf(head)
  BY <1>1, <1>2
<1>4. Target(chunk) \in Entries(head)
  BY <1>3 DEF Entries
<1>5. /\ results' \in Seq(Entries(head))
      /\ Elements(results) \subseteq Elements(results')
      /\ Target(chunk) \in Elements(results')
  BY <1>1, <1>2, <1>4, AppendElements
<1>6. EmbedInv'
  <2>1. ASSUME NEW m \in 1 .. pos + 1 PROVE Target(toEmbed[m]) \in Elements(results')
    <3>1. CASE m = pos + 1
      BY <3>1, <1>5
    <3>2. CASE m \in 1 .. pos
      BY <3>2, <1>1, <1>5 DEF CurrentInv, EmbedInv
    <3> QED
      BY <1>1, <3>1, <3>2
  <2>2. pos + 1 <= Len(toEmbed)
    BY <1>1, <1>2
  <2>3. \A x \in CorpusOf(head) : x \in Elements(toEmbed) \/ Target(x) \in Elements(results')
    BY <1>1, <1>5 DEF CurrentInv, EmbedInv
  <2> QED
    BY <1>1, <2>1, <2>2, <2>3 DEF EmbedInv
<1>7. CarriedInv'
  BY <1>1, <1>5 DEF CurrentInv, CarriedInv
<1>8. DoneInv'
  BY <1>1 DEF CurrentInv, DoneInv
<1> QED
  BY <1>1, <1>6, <1>7, <1>8 DEF CurrentInv, ReadInv, LookUpInv, IndexInv

LEMMA CollectedCurrent ==
    ASSUME TrueInv, CurrentInv, Collected
    PROVE  CurrentInv'
<1>1. /\ pc = "embed" /\ pc' = "index" /\ pos' = 0 /\ pos = Len(toEmbed)
      /\ head' = head /\ UNCHANGED <<chunks, toEmbed, results, index, done>>
  BY DEF Collected, Goto, clone
<1>2. toEmbed \in Seq(CorpusOf(head)) /\ results \in Seq(Entries(head))
  BY DEF CurrentInv, CarriedInv
<1>3. ASSUME NEW x \in CorpusOf(head) PROVE Target(x) \in Elements(results)
  <2>1. CASE x \in Elements(toEmbed)
    <3>1. PICK m \in DOMAIN toEmbed : x = toEmbed[m]
      BY <2>1 DEF Elements
    <3>2. m \in 1 .. pos
      BY <1>1, <1>2
    <3> QED
      BY <1>1, <3>1, <3>2 DEF CurrentInv, EmbedInv
  <2> QED
    BY <1>1, <2>1 DEF CurrentInv, EmbedInv
<1>4. IndexInv'
  <2>1. \A m \in DOMAIN results : ~(m <= 0)
    BY <1>2
  <2> QED
    BY <1>1, <1>3, <2>1 DEF IndexInv, Entries
<1>5. CarriedInv'
  BY <1>1 DEF CurrentInv, CarriedInv
<1>6. DoneInv'
  BY <1>1 DEF CurrentInv, DoneInv
<1> QED
  BY <1>1, <1>4, <1>5, <1>6 DEF CurrentInv, ReadInv, LookUpInv, EmbedInv

LEMMA UpsertCurrent ==
    ASSUME TrueInv, CurrentInv, Upsert
    PROVE  CurrentInv'
<1>1. /\ pc = "index" /\ pc' = "index" /\ done' = NoCommit /\ head' = head
      /\ UNCHANGED <<chunks, toEmbed, results>>
  BY DEF Upsert, clone
<1>2. IndexInv'
  BY <1>1, UpsertKeeps DEF CurrentInv, IndexInv
<1>3. CarriedInv'
  BY <1>1 DEF CurrentInv, CarriedInv
<1> QED
  BY <1>1, <1>2, <1>3 DEF CurrentInv, DoneInv, ReadInv, LookUpInv, EmbedInv

\* A run is complete when every chunk of its commit is in the index.
LEMMA CompleteCurrent ==
    ASSUME TrueInv, CurrentInv, Complete
    PROVE  CurrentInv'
<1>1. /\ pc = "index" /\ pos >= Len(results) /\ pos \in Nat
      /\ done' = IF results = << >> THEN done ELSE head
      /\ index' = index /\ head \in Commit
      /\ pc' = "idle" /\ chunks' = << >> /\ toEmbed' = << >> /\ results' = << >>
  BY DEF Complete, End, Goto, TrueInv, CloneInv, CurrentInv, CarriedInv
<1>2. results \in Seq(Entries(head))
  BY DEF CurrentInv, CarriedInv
<1>3. Entries(head) \subseteq index
  <2> SUFFICES ASSUME NEW u \in Entries(head) PROVE u \in index
    OBVIOUS
  <2>1. PICK m \in DOMAIN results : u = results[m]
    BY <1>1 DEF CurrentInv, IndexInv, Elements
  <2>2. m <= pos
    BY <1>1, <1>2
  <2> QED
    BY <1>1, <2>1, <2>2 DEF CurrentInv, IndexInv
<1>4. DoneInv'
  BY <1>1, <1>3 DEF CurrentInv, DoneInv
<1>5. CarriedInv'
  BY <1>1 DEF CarriedInv
<1> QED
  BY <1>1, <1>4, <1>5 DEF CurrentInv, ReadInv, LookUpInv, EmbedInv, IndexInv

LEMMA CurrentNext == TrueInv /\ CurrentInv /\ [IngestNext]_ingestVars => CurrentInv'
<1> SUFFICES ASSUME TrueInv, CurrentInv, [IngestNext]_ingestVars PROVE CurrentInv'
  OBVIOUS
<1>1. CASE Push \/ UNCHANGED ingestVars
  BY <1>1, CarryCurrent DEF Push, ingestVars, clone, run
<1>2. CASE Start \/ EnsureRepo \/ Checkout
  BY <1>2, LoadCurrent
<1>3. CASE LoadFails
  <2>1. End /\ UNCHANGED <<index, done>>
    BY <1>3 DEF LoadFails
  <2> QED
    BY <2>1, EndCurrent
<1>4. CASE ReadFile \/ Chunked \/ LookUp \/ Gather
  BY <1>4, ReadCurrent, ChunkedCurrent, LookUpCurrent, GatherCurrent
<1>5. ASSUME NEW b \in Batches, Call(b) \/ Reply(b) PROVE CurrentInv'
  BY <1>5, CarryCurrent DEF Call, Reply, clone
<1>6. ASSUME NEW b \in Batches, CallFails(b) PROVE CurrentInv'
  <2>1. /\ Embedding /\ pc' = "failing"
        /\ UNCHANGED <<head, chunks, toEmbed, results, index, done>>
    BY <1>6 DEF CallFails, clone
  <2>2. CarriedInv'
    BY <2>1 DEF CurrentInv, CarriedInv, Embedding
  <2>3. DoneInv'
    BY <2>1 DEF CurrentInv, DoneInv
  <2> QED
    BY <2>1, <2>2, <2>3 DEF CurrentInv, ReadInv, LookUpInv, EmbedInv, IndexInv
<1>7. CASE Abort \/ Crash
  <2>1. End /\ UNCHANGED <<index, done>>
    BY <1>7 DEF Abort, Crash
  <2> QED
    BY <2>1, EndCurrent
<1>8. CASE Collect \/ Collected \/ Upsert \/ Complete
  BY <1>8, CollectCurrent, CollectedCurrent, UpsertCurrent, CompleteCurrent
<1> QED
  BY <1>1, <1>2, <1>3, <1>4, <1>5, <1>6, <1>7, <1>8 DEF IngestNext

LEMMA CurrentInvImplies == CurrentInv => IndexCurrent
<1> SUFFICES ASSUME CurrentInv, done # NoCommit, NEW d \in File, NEW n \in DOMAIN Kept(done, d)
             PROVE  WithVector(FileChunks(done, d, done)[n], Kept(done, d)[n]) \in index
  BY DEF IndexCurrent
<1>1. FileChunks(done, d, done)[n] \in CorpusOf(done)
  BY DEF CorpusOf
<1>2. FileChunks(done, d, done)[n].text = Kept(done, d)[n]
  BY DEF FileChunks
<1> QED
  BY <1>1, <1>2 DEF CurrentInv, DoneInv, Entries, Target

\* A run that completes has every chunk of its commit in the index, whatever
\* the sizes of files, batches and slices, and however many runs died before it.
THEOREM IndexCurrentTheorem == IngestSpec => []IndexCurrent
<1>1. IngestInit => TrueInv /\ CurrentInv
  BY TrueInit, CurrentInit
<1>2. TrueInv /\ CurrentInv /\ [IngestNext]_ingestVars => (TrueInv /\ CurrentInv)'
  BY TrueNext, CurrentNext
<1>3. TrueInv /\ CurrentInv => IndexCurrent
  BY CurrentInvImplies
<1> QED
  BY <1>1, <1>2, <1>3, PTL DEF IngestSpec

-----------------------------------------------------------------------------
\* RerunsPayOnce

\* What holds of zero, and of the successor of each number it holds of, holds of
\* all: induction, over a set of numbers.
LEMMA Induction ==
    ASSUME NEW S, 0 \in S, \A n \in Nat : n \in S => n + 1 \in S
    PROVE  Nat \subseteq S
<1> DEFINE Less == {ss \in Nat \X Nat : ss[1] < ss[2]}
           Rest == Nat \ S
<1>1. IsWellFoundedOn(Less, Nat)
  BY NatLessThanWellFounded DEF OpToRel
<1> SUFFICES ASSUME Rest # {} PROVE FALSE
  OBVIOUS
<1>2. PICK x \in Rest : \A y \in Rest : <<y, x>> \notin Less
  <2>1. Rest \subseteq Nat
    OBVIOUS
  <2> HIDE DEF Less, Rest
  <2> QED
    BY <1>1, <2>1, WFMin
<1>3. x \in Nat /\ x # 0 /\ x - 1 \in Nat
  OBVIOUS
<1>4. x - 1 \notin S
  BY <1>3
<1>5. <<x - 1, x>> \in Less
  BY <1>3
<1> QED
  BY <1>2, <1>3, <1>4, <1>5

\* Finitely many finite sets have finitely many elements.
LEMMA FiniteUnion ==
    ASSUME NEW m \in Nat, NEW f, \A i \in 1 .. m : IsFiniteSet(f[i])
    PROVE  IsFiniteSet(UNION {f[i] : i \in 1 .. m})
<1> DEFINE UpTo(n) == UNION {f[i] : i \in 1 .. n}
           S == {n \in Nat : n <= m => IsFiniteSet(UpTo(n))}
<1>1. 0 \in S
  <2>1. UpTo(0) = {}
    OBVIOUS
  <2> HIDE DEF UpTo
  <2> QED
    BY <2>1, FS_EmptySet
<1>2. ASSUME NEW n \in Nat, n \in S PROVE n + 1 \in S
  <2> SUFFICES ASSUME n + 1 <= m PROVE IsFiniteSet(UpTo(n + 1))
    BY DEF S
  <2>1. IsFiniteSet(UpTo(n)) /\ IsFiniteSet(f[n + 1])
    BY <1>2
  <2>2. \A i : i \in 1 .. n + 1 <=> i \in 1 .. n \/ i = n + 1
    OBVIOUS
  <2>3. UpTo(n + 1) = UpTo(n) \cup f[n + 1]
    BY <2>2
  <2> HIDE DEF UpTo
  <2>4. IsFiniteSet(UpTo(n) \cup f[n + 1])
    BY <2>1, FS_Union
  <2> QED
    BY <2>3, <2>4
<1>3. Nat \subseteq S
  <2> HIDE DEF S
  <2> QED
    BY <1>1, <1>2, Induction
<1>4. IsFiniteSet(UpTo(m))
  <2>1. m \in S
    BY <1>3
  <2>2. m <= m
    OBVIOUS
  <2> HIDE DEF UpTo
  <2> QED
    BY <2>1, <2>2
<1> QED
  BY <1>4

DistinctIds(s) == \A m, n \in DOMAIN s : s[m].id = s[n].id => m = n

\* No chunk is carried twice.
OnceInv ==
    /\ DistinctIds(chunks) /\ DistinctIds(toEmbed)
    /\ pc = "read" =>
           /\ toEmbed = << >>
           /\ \A n \in DOMAIN chunks : \E k \in 1 .. pos : chunks[n].id[1] = Doc[k]
    /\ pc = "lookup" => \A n \in DOMAIN toEmbed : \E m \in 1 .. pos : toEmbed[n] = chunks[m]

Texts(s) == {s[n].text : n \in DOMAIN s}
Cached == {row[1] : row \in cache}

\* The positions of to_embed whose batches were sent and did not fail.
Started == UNION {BatchOf(b) : b \in In("calling") \cup In("done")}

\* A text to embed had no vector; it has one when a reply with it was stored.
CallsInv ==
    /\ Batches \subseteq Nat
    /\ ~ Embedding => In("calling") = {}
    /\ pc = "lookup" => Texts(toEmbed) \cap Cached = {}
    /\ Embedding => \A b \in In("done") : \A n \in BatchOf(b) : toEmbed[n].text \in Cached

\* What was paid for a text with a vector is paid for good, the rest was lost.
Settled(t) ==
    /\ t \in Cached \/ paid[t] <= lost[t]
    /\ \E c \in Commit : paid[t] <= Cardinality(ChunksWith(c, t)) + lost[t]

\* What was paid for a text to embed was lost, or went to a batch of this run.
SettledInv ==
    \A t \in Text :
        IF Embedding /\ t \in Texts(toEmbed)
           THEN paid[t] <= lost[t] + Copies(Started, t)
           ELSE Settled(t)

PaidInv ==
    /\ OnceInv /\ CallsInv /\ SettledInv
    /\ paid \in [Text -> Nat] /\ lost \in [Text -> Nat]

\* The chunks of one text in a corpus are finitely many.
LEMMA FiniteChunksWith ==
    ASSUME NEW c \in Commit, NEW t
    PROVE  IsFiniteSet(ChunksWith(c, t))
<1>1. Doc \in Seq(File)
  BY IngestAssumption
<1>2. DOMAIN Doc = 1 .. Len(Doc) /\ Len(Doc) \in Nat
  BY <1>1
<1> DEFINE OfFile(d) == {<<d, n>> : n \in {k \in DOMAIN Kept(c, d) : Kept(c, d)[k] = t}}
<1>3. ASSUME NEW d \in File PROVE IsFiniteSet(OfFile(d))
  <2> DEFINE K == {k \in DOMAIN Kept(c, d) : Kept(c, d)[k] = t}
  <2>1. PICK m \in Nat : DOMAIN Kept(c, d) = 1 .. m
    BY KeptDomain
  <2>2. 1 \in Int /\ m \in Int
    OBVIOUS
  <2>3. IsFiniteSet(1 .. m)
    BY <2>2, FS_Interval
  <2>4. K \in SUBSET (1 .. m)
    BY <2>1
  <2>5. IsFiniteSet(K)
    BY <2>3, <2>4, FS_Subset
  <2>6. [n \in K |-> <<d, n>>] \in Surjection(K, OfFile(d))
    BY DEF Surjection
  <2> HIDE DEF K
  <2> QED
    BY <2>5, <2>6, FS_Surjection
<1> DEFINE f == [i \in 1 .. Len(Doc) |-> OfFile(Doc[i])]
<1>4. \A i \in 1 .. Len(Doc) : Doc[i] \in File
  BY <1>1
<1>5. \A i \in 1 .. Len(Doc) : IsFiniteSet(f[i])
  <2> HIDE DEF OfFile
  <2> QED
    BY <1>3, <1>4
<1>6. ChunksWith(c, t) = UNION {f[i] : i \in 1 .. Len(Doc)}
  <2>1. ChunksWith(c, t) = UNION {OfFile(d) : d \in File}
    BY DEF ChunksWith
  <2>2. File = {Doc[i] : i \in 1 .. Len(Doc)}
    BY <1>2 DEF File
  <2> HIDE DEF OfFile
  <2> QED
    BY <2>1, <2>2
<1>7. Len(Doc) \in Nat
  BY <1>2
<1> HIDE DEF f, OfFile
<1>8. IsFiniteSet(UNION {f[i] : i \in 1 .. Len(Doc)})
  BY <1>5, <1>7, FiniteUnion
<1> QED
  BY <1>6, <1>8

\* Different positions of to_embed hold different chunks of the corpus.
LEMMA CopiesBound ==
    ASSUME CurrentInv, OnceInv, head \in Commit, NEW positions \in SUBSET DOMAIN toEmbed, NEW t
    PROVE  /\ Copies(positions, t) \in Nat
           /\ Copies(positions, t) <= Cardinality(ChunksWith(head, t))
<1> DEFINE P == {n \in positions : toEmbed[n].text = t}
           Q == ChunksWith(head, t)
           f == [n \in P |-> <<toEmbed[n].id[1], toEmbed[n].id[2] + 1>>]
<1>1. toEmbed \in Seq(CorpusOf(head))
  BY DEF CurrentInv, CarriedInv
<1>2. ASSUME NEW n \in P
      PROVE  /\ toEmbed[n].id[2] \in Int
             /\ toEmbed[n].id = <<toEmbed[n].id[1], toEmbed[n].id[2]>>
             /\ <<toEmbed[n].id[1], toEmbed[n].id[2] + 1>> \in Q
  <2>1. toEmbed[n] \in CorpusOf(head) /\ toEmbed[n].text = t
    BY <1>1
  <2>2. PICK d \in File : \E k \in DOMAIN Kept(head, d) : toEmbed[n] = FileChunks(head, d, head)[k]
    BY <2>1 DEF CorpusOf
  <2>3. PICK k \in DOMAIN Kept(head, d) : toEmbed[n] = FileChunks(head, d, head)[k]
    BY <2>2
  <2>4. k \in Nat
    BY KeptDomain
  <2>5. toEmbed[n] = [id |-> <<d, k - 1>>, text |-> Kept(head, d)[k], commit |-> head]
    BY <2>3 DEF FileChunks
  <2>6. toEmbed[n].id = <<d, k - 1>> /\ Kept(head, d)[k] = t
    BY <2>1, <2>5
  <2>7. toEmbed[n].id[1] = d /\ toEmbed[n].id[2] = k - 1 /\ (k - 1) + 1 = k /\ k - 1 \in Int
    BY <2>4, <2>6
  <2>8. <<d, k>> \in Q
    BY <2>6 DEF ChunksWith
  <2> QED
    BY <2>6, <2>7, <2>8
<1>3. f \in [P -> Q]
  BY <1>2
<1>4. ASSUME NEW m \in P, NEW n \in P, f[m] = f[n] PROVE m = n
  <2>1. toEmbed[m].id[1] = toEmbed[n].id[1] /\ toEmbed[m].id[2] + 1 = toEmbed[n].id[2] + 1
    BY <1>4
  <2>2. toEmbed[m].id[2] = toEmbed[n].id[2]
    <3>1. toEmbed[m].id[2] \in Int /\ toEmbed[n].id[2] \in Int
      BY <1>2
    <3> QED
      BY ONLY <2>1, <3>1
  <2>3. toEmbed[m].id = toEmbed[n].id
    BY <1>2, <2>1, <2>2
  <2> QED
    BY <2>3 DEF OnceInv, DistinctIds
<1>5. f \in Injection(P, Q)
  BY <1>3, <1>4 DEF Injection, IsInjective
<1>6. IsFiniteSet(Q)
  BY FiniteChunksWith
<1> HIDE DEF P, Q, f
<1>7. IsFiniteSet(P) /\ Cardinality(P) <= Cardinality(Q)
  BY <1>5, <1>6, FS_Injection
<1>8. Cardinality(P) \in Nat
  BY <1>7, FS_CardinalityType
<1>9. Copies(positions, t) = Cardinality(P)
  BY DEF Copies, P
<1> QED
  BY <1>7, <1>8, <1>9 DEF Q

LEMMA CopiesSplit ==
    ASSUME NEW Item, toEmbed \in Seq(Item), NEW t,
           NEW P \in SUBSET DOMAIN toEmbed, NEW Q \in SUBSET DOMAIN toEmbed
    PROVE  /\ Copies(P, t) \in Nat
           /\ t \notin Texts(toEmbed) => Copies(P, t) = 0
           /\ P \cap Q = {} => Copies(P \cup Q, t) = Copies(P, t) + Copies(Q, t)
           /\ (\A n \in P : toEmbed[n].text = t => n \in Q) => Copies(P, t) <= Copies(Q, t)
<1> DEFINE Of(R) == {n \in R : toEmbed[n].text = t}
<1>1. DOMAIN toEmbed = 1 .. Len(toEmbed) /\ Len(toEmbed) \in Nat
  OBVIOUS
<1>2. Len(toEmbed) \in Int /\ 1 \in Int
  BY <1>1
<1>3. IsFiniteSet(DOMAIN toEmbed)
  BY <1>1, <1>2, FS_Interval
<1>4. Of(P) \in SUBSET DOMAIN toEmbed /\ Of(Q) \in SUBSET DOMAIN toEmbed
  OBVIOUS
<1>5. IsFiniteSet(Of(P)) /\ IsFiniteSet(Of(Q))
  <2> HIDE DEF Of
  <2> QED
    BY <1>3, <1>4, FS_Subset
<1>6. Cardinality(Of(P)) \in Nat /\ Cardinality(Of(Q)) \in Nat
  <2> HIDE DEF Of
  <2> QED
    BY <1>5, FS_CardinalityType
<1>7. Copies(P, t) = Cardinality(Of(P)) /\ Copies(Q, t) = Cardinality(Of(Q))
  BY DEF Copies
<1>8. ASSUME t \notin Texts(toEmbed) PROVE Copies(P, t) = 0
  <2>1. Of(P) = {}
    BY <1>8 DEF Texts
  <2> QED
    BY <2>1, <1>7, FS_EmptySet
<1>9. ASSUME P \cap Q = {} PROVE Copies(P \cup Q, t) = Copies(P, t) + Copies(Q, t)
  <2>1. Of(P \cup Q) = Of(P) \cup Of(Q) /\ Of(P) \cap Of(Q) = {}
    BY <1>9
  <2>2. Copies(P \cup Q, t) = Cardinality(Of(P \cup Q))
    BY DEF Copies
  <2> HIDE DEF Of
  <2>3. Cardinality(Of(P) \cup Of(Q)) =
            Cardinality(Of(P)) + Cardinality(Of(Q)) - Cardinality(Of(P) \cap Of(Q))
    BY <1>5, FS_Union
  <2>4. Cardinality(Of(P) \cap Of(Q)) = 0
    BY <2>1, FS_EmptySet
  <2> QED
    <3>1. Cardinality(Of(P) \cup Of(Q)) = Cardinality(Of(P)) + Cardinality(Of(Q))
      BY ONLY <2>3, <2>4, <1>6
    <3> QED
      BY <2>1, <2>2, <3>1, <1>7
<1>10. ASSUME \A n \in P : toEmbed[n].text = t => n \in Q PROVE Copies(P, t) <= Copies(Q, t)
  <2>1. Of(P) \in SUBSET Of(Q)
    BY <1>10
  <2> HIDE DEF Of
  <2> QED
    BY <2>1, <1>5, <1>7, FS_Subset
<1> QED
  BY <1>6, <1>7, <1>8, <1>9, <1>10

\* _batched cuts to_embed into pieces that do not overlap.
LEMMA BatchesApart ==
    ASSUME NEW Item, toEmbed \in Seq(Item), NEW b \in Nat, NEW o \in Nat, b # o
    PROVE  BatchOf(b) \cap BatchOf(o) = {}
<1>1. BatchSize \in Nat
  BY IngestAssumption
<1>2. ASSUME NEW x \in Nat, NEW y \in Nat, x < y PROVE x * BatchSize <= (y - 1) * BatchSize
  <2>1. PICK d \in Nat : y - 1 = x + d
    <3>1. (y - 1) - x \in Nat /\ y - 1 = x + ((y - 1) - x)
      BY <1>2
    <3> QED
      BY <3>1
  <2>2. d * BatchSize \in Nat /\ x * BatchSize \in Nat
    BY <1>1
  <2>3. (x + d) * BatchSize = x * BatchSize + d * BatchSize
    BY <1>1
  <2> QED
    BY <2>1, <2>2, <2>3
<1> SUFFICES ASSUME NEW n \in BatchOf(b), n \in BatchOf(o) PROVE FALSE
  OBVIOUS
<1>3. /\ (b - 1) * BatchSize < n /\ n <= b * BatchSize
      /\ (o - 1) * BatchSize < n /\ n <= o * BatchSize
  BY DEF BatchOf
<1>4. n \in Nat
  BY DEF BatchOf
<1>5. /\ b * BatchSize \in Nat /\ o * BatchSize \in Nat
      /\ (b - 1) * BatchSize \in Int /\ (o - 1) * BatchSize \in Int
  BY <1>1
<1>6. CASE b < o
  <2>1. b * BatchSize <= (o - 1) * BatchSize
    BY <1>2, <1>6
  <2> QED
    BY ONLY <1>3, <1>4, <1>5, <2>1
<1>7. CASE o < b
  <2>1. o * BatchSize <= (b - 1) * BatchSize
    BY <1>2, <1>7
  <2> QED
    BY ONLY <1>3, <1>4, <1>5, <2>1
<1> QED
  BY <1>6, <1>7

-----------------------------------------------------------------------------
LEMMA OnceInit == IngestInit => OnceInv
  BY DEF IngestInit, OnceInv, DistinctIds

\* The chunks of one more file differ from those of the files before it.
LEMMA ReadOnce ==
    ASSUME TrueInv, CurrentInv, OnceInv, ReadFile
    PROVE  OnceInv'
<1> DEFINE d == Doc[pos + 1]
           F == FileChunks(head, d, head)
<1>1. /\ pc = "read" /\ pc' = "read" /\ pos' = pos + 1 /\ pos \in Nat /\ pos < Len(Doc)
      /\ head \in Commit /\ chunks' = chunks \o F /\ toEmbed' = toEmbed
  BY DEF ReadFile, clone, TrueInv, CloneInv
<1>2. Doc \in Seq(File) /\ \A m, n \in DOMAIN Doc : Doc[m] = Doc[n] => m = n
  BY IngestAssumption
<1>3. d \in File /\ DOMAIN Doc = 1 .. Len(Doc)
  BY <1>1, <1>2
<1>4. F \in Seq(CorpusOf(head)) /\ chunks \in Seq(CorpusOf(head))
  BY <1>1, <1>3, FileChunksOf DEF CurrentInv, CarriedInv
<1>5. /\ DOMAIN chunks' = 1 .. Len(chunks) + Len(F)
      /\ DOMAIN chunks = 1 .. Len(chunks) /\ Len(chunks) \in Nat
      /\ DOMAIN F = 1 .. Len(F) /\ Len(F) \in Nat
      /\ \A n \in 1 .. Len(chunks) : chunks'[n] = chunks[n]
      /\ \A n \in 1 .. Len(F) : chunks'[Len(chunks) + n] = F[n]
  <2> HIDE DEF F
  <2> QED
    BY <1>1, <1>4
<1>6. \A n \in DOMAIN F : F[n].id = <<d, n - 1>>
  BY DEF FileChunks
<1>7. \A n \in 1 .. Len(chunks) : \E k \in 1 .. pos : chunks'[n].id[1] = Doc[k] /\ Doc[k] # d
  <2> TAKE n \in 1 .. Len(chunks)
  <2>1. PICK k \in 1 .. pos : chunks[n].id[1] = Doc[k]
    BY <1>1, <1>5 DEF OnceInv
  <2>2. k \in DOMAIN Doc /\ pos + 1 \in DOMAIN Doc /\ k # pos + 1
    BY <1>1, <1>3
  <2>3. Doc[k] # d
    BY <1>2, <2>2
  <2> QED
    BY <1>5, <2>1, <2>3
<1> HIDE DEF F
<1>8. ASSUME NEW n \in DOMAIN chunks', n \notin 1 .. Len(chunks)
      PROVE  \E j \in 1 .. Len(F) : n = Len(chunks) + j /\ chunks'[n].id = <<d, j - 1>>
  <2>1. n - Len(chunks) \in 1 .. Len(F) /\ n = Len(chunks) + (n - Len(chunks))
    BY <1>5, <1>8
  <2> QED
    BY <2>1, <1>5, <1>6
<1> HIDE DEF d
<1>9. DistinctIds(chunks')
  <2> SUFFICES ASSUME NEW m \in DOMAIN chunks', NEW n \in DOMAIN chunks', chunks'[m].id = chunks'[n].id
               PROVE  m = n
    BY DEF DistinctIds
  <2>1. CASE m \in 1 .. Len(chunks) /\ n \in 1 .. Len(chunks)
    BY <1>5, <2>1 DEF OnceInv, DistinctIds
  <2>2. CASE m \in 1 .. Len(chunks) /\ n \notin 1 .. Len(chunks)
    BY <1>7, <1>8, <2>2
  <2>3. CASE m \notin 1 .. Len(chunks) /\ n \in 1 .. Len(chunks)
    BY <1>7, <1>8, <2>3
  <2>4. CASE m \notin 1 .. Len(chunks) /\ n \notin 1 .. Len(chunks)
    <3>1. PICK i \in 1 .. Len(F) : m = Len(chunks) + i /\ chunks'[m].id = <<d, i - 1>>
      BY <1>8, <2>4
    <3>2. PICK j \in 1 .. Len(F) : n = Len(chunks) + j /\ chunks'[n].id = <<d, j - 1>>
      BY <1>8, <2>4
    <3>3. i - 1 = j - 1
      BY <3>1, <3>2
    <3> QED
      BY <3>1, <3>2, <3>3
  <2> QED
    BY <2>1, <2>2, <2>3, <2>4
<1>10. \A n \in DOMAIN chunks' : \E k \in 1 .. pos' : chunks'[n].id[1] = Doc[k]
  <2> TAKE n \in DOMAIN chunks'
  <2>1. CASE n \in 1 .. Len(chunks)
    BY <1>1, <1>7, <2>1
  <2>2. CASE n \notin 1 .. Len(chunks)
    <3>1. chunks'[n].id[1] = Doc[pos + 1]
      BY <1>8, <2>2 DEF d
    <3>2. pos + 1 \in 1 .. pos'
      BY <1>1
    <3> QED
      BY <3>1, <3>2
  <2> QED
    BY <2>1, <2>2
<1> QED
  BY <1>1, <1>9, <1>10 DEF OnceInv

LEMMA LookUpOnce ==
    ASSUME TrueInv, CurrentInv, OnceInv, LookUp
    PROVE  OnceInv'
<1> DEFINE chunk == chunks[pos + 1]
<1>1. /\ pc = "lookup" /\ pc' = "lookup" /\ pos' = pos + 1 /\ pos \in Nat /\ pos < Len(chunks)
      /\ chunks' = chunks
      /\ toEmbed' = toEmbed \/ toEmbed' = Append(toEmbed, chunk)
  BY DEF LookUp, TrueInv, CloneInv
<1>2. chunks \in Seq(CorpusOf(head)) /\ toEmbed \in Seq(CorpusOf(head))
  BY DEF CurrentInv, CarriedInv
<1>3. DOMAIN chunks = 1 .. Len(chunks) /\ chunk \in CorpusOf(head)
  BY <1>1, <1>2
<1>4. \A n \in DOMAIN toEmbed : \E m \in 1 .. pos : toEmbed[n] = chunks[m]
  BY <1>1 DEF OnceInv
<1>5. CASE toEmbed' = toEmbed
  <2>1. \A n \in DOMAIN toEmbed : \E m \in 1 .. pos + 1 : toEmbed[n] = chunks[m]
    BY <1>1, <1>4
  <2> QED
    BY <1>1, <1>5, <2>1 DEF OnceInv
<1>6. CASE toEmbed' = Append(toEmbed, chunk)
  <2>1. /\ DOMAIN toEmbed' = 1 .. Len(toEmbed) + 1 /\ DOMAIN toEmbed = 1 .. Len(toEmbed)
        /\ Len(toEmbed) \in Nat /\ toEmbed'[Len(toEmbed) + 1] = chunk
        /\ \A n \in 1 .. Len(toEmbed) : toEmbed'[n] = toEmbed[n]
    <3> HIDE DEF chunk
    <3> QED
      BY <1>2, <1>3, <1>6
  <2>2. \A n \in 1 .. Len(toEmbed) : toEmbed'[n].id # chunk.id
    <3> TAKE n \in 1 .. Len(toEmbed)
    <3>1. PICK m \in 1 .. pos : toEmbed[n] = chunks[m]
      BY <1>4, <2>1
    <3>2. m \in DOMAIN chunks /\ pos + 1 \in DOMAIN chunks /\ m # pos + 1
      BY <1>1, <1>3
    <3>3. chunks[m].id # chunks[pos + 1].id
      BY <3>2 DEF OnceInv, DistinctIds
    <3> QED
      BY <2>1, <3>1, <3>3
  <2>3. DistinctIds(toEmbed')
    <3> HIDE DEF chunk
    <3>1. \A n \in DOMAIN toEmbed' : n \in 1 .. Len(toEmbed) \/ n = Len(toEmbed) + 1
      BY <2>1
    <3>2. \A m, n \in 1 .. Len(toEmbed) : toEmbed'[m].id = toEmbed'[n].id => m = n
      BY <2>1 DEF OnceInv, DistinctIds
    <3> QED
      BY <2>1, <2>2, <3>1, <3>2 DEF DistinctIds
  <2>4. \A n \in DOMAIN toEmbed' : \E m \in 1 .. pos' : toEmbed'[n] = chunks'[m]
    <3> TAKE n \in DOMAIN toEmbed'
    <3>1. CASE n \in 1 .. Len(toEmbed)
      BY <1>1, <1>4, <2>1, <3>1
    <3>2. CASE n = Len(toEmbed) + 1
      <4>1. pos + 1 \in 1 .. pos'
        BY <1>1
      <4> QED
        BY <1>1, <2>1, <3>2, <4>1
    <3> QED
      BY <2>1, <3>1, <3>2
  <2> QED
    BY <1>1, <2>3, <2>4 DEF OnceInv
<1> QED
  BY <1>1, <1>5, <1>6

LEMMA OnceNext == TrueInv /\ CurrentInv /\ OnceInv /\ [IngestNext]_ingestVars => OnceInv'
<1> SUFFICES ASSUME TrueInv, CurrentInv, OnceInv, [IngestNext]_ingestVars PROVE OnceInv'
  OBVIOUS
<1>1. CASE Push \/ UNCHANGED ingestVars
  <2>1. UNCHANGED <<pc, pos, chunks, toEmbed>>
    BY <1>1 DEF Push, ingestVars, run
  <2> QED
    BY <2>1 DEF OnceInv
<1>2. CASE Start \/ EnsureRepo \/ Checkout
  <2>1. /\ pc' \in {"ensure", "checkout", "read"}
        /\ UNCHANGED <<chunks, toEmbed>>
        /\ pc \in {"idle", "ensure", "checkout"}
    BY <1>2 DEF Start, EnsureRepo, Checkout, Goto
  <2>2. chunks = << >> /\ toEmbed = << >>
    BY <2>1 DEF CurrentInv, CarriedInv
  <2> QED
    BY <2>1, <2>2 DEF OnceInv, DistinctIds
<1>3. CASE End
  BY <1>3 DEF End, Goto, OnceInv, DistinctIds
<1>4. CASE ReadFile \/ LookUp
  BY <1>4, ReadOnce, LookUpOnce
<1>5. CASE Chunked
  BY <1>5 DEF Chunked, Goto, OnceInv
<1>6. ASSUME UNCHANGED <<chunks, toEmbed>>, pc' \notin {"read", "lookup"} PROVE OnceInv'
  BY <1>6 DEF OnceInv
<1>7. ASSUME NEW b \in Batches, Call(b) \/ Reply(b) \/ CallFails(b) PROVE OnceInv'
  BY <1>6, <1>7 DEF Call, Reply, CallFails, Embedding
<1>8. CASE Gather \/ Collect \/ Collected \/ Upsert
  BY <1>6, <1>8 DEF Gather, Collect, Collected, Upsert, Goto
<1>9. CASE LoadFails \/ Abort \/ Complete \/ Crash
  BY <1>3, <1>9 DEF LoadFails, Abort, Complete, Crash
<1> QED
  BY <1>1, <1>2, <1>4, <1>5, <1>7, <1>8, <1>9 DEF IngestNext

-----------------------------------------------------------------------------
\* Steps that leave the tasks, the cache and what is to embed alone.
LEMMA CallsCarry ==
    ASSUME CallsInv, UNCHANGED <<call, cache, toEmbed>>, Embedding' <=> Embedding,
           pc' = "lookup" => pc = "lookup"
    PROVE  CallsInv'
<1>1. Batches' = Batches /\ \A status : In(status)' = In(status)
  BY DEF Batches, In
<1>2. (Texts(toEmbed))' = Texts(toEmbed) /\ Cached' = Cached
  BY DEF Texts, Cached
<1>3. \A b : BatchOf(b)' = BatchOf(b)
  BY DEF BatchOf
<1> QED
  BY <1>1, <1>2, <1>3 DEF CallsInv

LEMMA CallsEnd ==
    ASSUME CallsInv, End
    PROVE  CallsInv'
<1>1. pc' = "idle" /\ call' = << >>
  BY DEF End, Goto
<1>2. Batches' = {} /\ In("calling")' = {}
  BY <1>1 DEF In, Batches
<1> QED
  BY <1>1, <1>2 DEF CallsInv, Embedding

LEMMA LookUpCalls ==
    ASSUME CurrentInv, CallsInv, LookUp
    PROVE  CallsInv'
<1> DEFINE chunk == chunks[pos + 1]
<1>1. /\ pc = "lookup" /\ pc' = "lookup" /\ UNCHANGED <<call, cache>>
      /\ toEmbed' = toEmbed \/ (Hits(chunk.text) = {} /\ toEmbed' = Append(toEmbed, chunk))
  BY DEF LookUp
<1>2. Texts(toEmbed') \cap Cached = {}
  <2>1. CASE toEmbed' = toEmbed
    BY <1>1, <2>1 DEF CallsInv
  <2>2. CASE Hits(chunk.text) = {} /\ toEmbed' = Append(toEmbed, chunk)
    <3>1. chunk.text \notin Cached
      BY <2>2 DEF Hits, Cached
    <3>2. Texts(toEmbed') \subseteq Texts(toEmbed) \cup {chunk.text}
      <4>1. toEmbed \in Seq(CorpusOf(head))
        BY DEF CurrentInv, CarriedInv
      <4>2. /\ DOMAIN toEmbed = 1 .. Len(toEmbed) /\ DOMAIN toEmbed' = 1 .. Len(toEmbed) + 1
            /\ Len(toEmbed) \in Nat
            /\ \A n \in 1 .. Len(toEmbed) : toEmbed'[n] = toEmbed[n]
            /\ toEmbed'[Len(toEmbed) + 1] = chunk
        <5> HIDE DEF chunk
        <5> QED
          BY <2>2, <4>1
      <4>3. \A n \in DOMAIN toEmbed' : n \in DOMAIN toEmbed \/ n = Len(toEmbed) + 1
        BY <4>2
      <4> HIDE DEF chunk
      <4> QED
        BY <4>2, <4>3 DEF Texts
    <3> QED
      BY <1>1, <3>1, <3>2 DEF CallsInv
  <2> QED
    BY <1>1, <2>1, <2>2
<1>3. (Texts(toEmbed) \cap Cached)' = Texts(toEmbed') \cap Cached
  BY <1>1 DEF Texts, Cached
<1>4. ~ Embedding /\ ~ Embedding'
  BY <1>1 DEF Embedding
<1>5. Batches' = Batches /\ In("calling")' = In("calling")
  BY <1>1 DEF In, Batches
<1> QED
  BY <1>1, <1>2, <1>3, <1>4, <1>5 DEF CallsInv

LEMMA GatherCalls ==
    ASSUME CurrentInv, Gather
    PROVE  /\ CallsInv'
           /\ In("done")' = {} /\ In("calling")' = {}
<1>1. /\ pc' = "embed"
      /\ call' = [b \in 1 .. (Len(toEmbed) + BatchSize - 1) \div BatchSize |-> "waiting"]
  BY DEF Gather, Goto
<1>2. Batches' \subseteq Nat /\ \A b \in Batches' : call'[b] = "waiting"
  BY <1>1 DEF Batches
<1>3. In("done")' = {} /\ In("calling")' = {}
  <2>1. "waiting" # "done" /\ "waiting" # "calling"
    OBVIOUS
  <2> QED
    BY <1>2, <2>1 DEF In
<1> QED
  BY <1>1, <1>2, <1>3 DEF CallsInv, Embedding

LEMMA StoredCached ==
    ASSUME NEW positions
    PROVE  /\ \A row \in cache : \E new \in Stored(positions) : new[1] = row[1]
           /\ \A n \in positions : \E new \in Stored(positions) : new[1] = toEmbed[n].text
<1> DEFINE texts == {toEmbed[n].text : n \in positions}
<1>1. \A t \in texts : <<t, t>> \in Stored(positions) /\ <<t, t>>[1] = t
  BY DEF Stored
<1>2. \A row \in cache : row[1] \notin texts => row \in Stored(positions)
  BY DEF Stored
<1>3. \A n \in positions : toEmbed[n].text \in texts
  OBVIOUS
<1> HIDE DEF texts
<1> QED
  BY <1>1, <1>2, <1>3

\* No text loses its vector.
LEMMA StoredKeeps ==
    ASSUME NEW positions, cache' = Stored(positions)
    PROVE  Cached \subseteq Cached' /\ \A n \in positions : toEmbed[n].text \in Cached'
<1>1. Cached' = {row[1] : row \in Stored(positions)}
  BY DEF Cached
<1> QED
  BY <1>1, StoredCached DEF Cached

LEMMA TaskCalls ==
    ASSUME CallsInv, NEW b \in Batches, Call(b) \/ Reply(b) \/ CallFails(b)
    PROVE  CallsInv'
<1>1. /\ Embedding /\ Embedding' /\ pc' # "lookup" /\ toEmbed' = toEmbed
  BY DEF Call, Reply, CallFails, Embedding
<1>2. PICK new \in {"calling", "done", "failed"} : call' = [call EXCEPT ![b] = new]
  BY DEF Call, Reply, CallFails
<1>3. Batches' = Batches /\ \A o \in Batches : call'[o] = IF o = b THEN new ELSE call[o]
  BY <1>2 DEF Batches
<1>4. \A o : BatchOf(o)' = BatchOf(o)
  BY <1>1 DEF BatchOf
<1>5. \A o \in In("done")' : \A n \in BatchOf(o)' : toEmbed'[n].text \in Cached'
  <2> SUFFICES ASSUME NEW o \in Batches, call'[o] = "done", NEW n \in BatchOf(o)
               PROVE  toEmbed[n].text \in Cached'
    BY <1>1, <1>3, <1>4 DEF In
  <2>1. CASE Reply(b)
    <3>1. cache' = Stored(BatchOf(b))
      BY <2>1 DEF Reply
    <3>2. Cached \subseteq Cached' /\ \A k \in BatchOf(b) : toEmbed[k].text \in Cached'
      BY <3>1, StoredKeeps
    <3>3. o = b \/ o \in In("done")
      BY <1>3 DEF In
    <3> QED
      BY <1>1, <3>2, <3>3 DEF CallsInv
  <2>2. CASE Call(b) \/ CallFails(b)
    <3>1. cache' = cache /\ (call'[b] = "calling" \/ call'[b] = "failed")
      BY <2>2 DEF Call, CallFails, Batches
    <3>2. o # b
      <4>1. "calling" # "done" /\ "failed" # "done"
        OBVIOUS
      <4> QED
        BY <3>1, <4>1
    <3>3. o \in In("done")
      BY <1>3, <3>2 DEF In
    <3> QED
      BY <1>1, <3>1, <3>3 DEF CallsInv, Cached
  <2> QED
    BY <2>1, <2>2
<1> QED
  BY <1>1, <1>3, <1>5 DEF CallsInv

LEMMA CallsNext == CurrentInv /\ OnceInv /\ CallsInv /\ [IngestNext]_ingestVars => CallsInv'
<1> SUFFICES ASSUME CurrentInv, OnceInv, CallsInv, [IngestNext]_ingestVars PROVE CallsInv'
  OBVIOUS
<1>1. CASE Push \/ UNCHANGED ingestVars
  <2>1. UNCHANGED <<pc, call, cache, toEmbed>>
    BY <1>1 DEF Push, ingestVars, run
  <2> QED
    BY <2>1, CallsCarry DEF Embedding
<1>2. CASE Start \/ EnsureRepo \/ Checkout \/ ReadFile \/ Upsert
  <2>1. UNCHANGED <<call, cache, toEmbed>> /\ ~ Embedding /\ ~ Embedding' /\ pc' # "lookup"
    BY <1>2 DEF Start, EnsureRepo, Checkout, ReadFile, Upsert, Goto, Embedding
  <2> QED
    BY <2>1, CallsCarry
<1>3. CASE Chunked
  <2>1. UNCHANGED <<call, cache, toEmbed>> /\ pc = "read" /\ pc' = "lookup"
    BY <1>3 DEF Chunked, Goto
  <2>2. Texts(toEmbed)' = {}
    BY <2>1 DEF OnceInv, Texts
  <2>3. ~ Embedding /\ ~ Embedding'
    BY <2>1 DEF Embedding
  <2>4. Batches' = Batches /\ In("calling")' = In("calling")
    BY <2>1 DEF In, Batches
  <2> QED
    BY <2>1, <2>2, <2>3, <2>4 DEF CallsInv
<1>4. CASE LookUp \/ Gather
  BY <1>4, LookUpCalls, GatherCalls
<1>5. ASSUME NEW b \in Batches, Call(b) \/ Reply(b) \/ CallFails(b) PROVE CallsInv'
  BY <1>5, TaskCalls
<1>6. CASE Collect
  <2>1. UNCHANGED <<pc, call, cache, toEmbed>>
    BY <1>6 DEF Collect
  <2> QED
    BY <2>1, CallsCarry DEF Embedding
<1>7. CASE Collected
  <2>1. UNCHANGED <<call, cache, toEmbed>> /\ pc' = "index" /\ In("done") = Batches
    BY <1>7 DEF Collected, Goto
  <2>2. In("calling")' = {}
    <3>1. "calling" # "done"
      OBVIOUS
    <3> QED
      BY <2>1, <3>1 DEF In, Batches
  <2>3. ~ Embedding' /\ Batches' = Batches
    BY <2>1 DEF Embedding, Batches
  <2> QED
    BY <2>1, <2>2, <2>3 DEF CallsInv
<1>8. CASE LoadFails \/ Abort \/ Complete \/ Crash
  BY <1>8, CallsEnd DEF LoadFails, Abort, Complete, Crash
<1> QED
  BY <1>1, <1>2, <1>3, <1>4, <1>5, <1>6, <1>7, <1>8 DEF IngestNext

-----------------------------------------------------------------------------
\* What it takes a text that is not to be embedded to stay settled.
LEMMA SettledKeeps ==
    ASSUME NEW t \in Text, Settled(t), paid \in [Text -> Nat], lost \in [Text -> Nat],
           Cached \subseteq Cached', paid'[t] = paid[t], lost'[t] \in Nat, lost'[t] >= lost[t]
    PROVE  Settled(t)'
<1>1. PICK c \in Commit : paid[t] <= Cardinality(ChunksWith(c, t)) + lost[t]
  BY DEF Settled
<1>2. Cardinality(ChunksWith(c, t)) \in Nat
  BY FiniteChunksWith, FS_CardinalityType
<1>3. paid[t] \in Nat /\ lost[t] \in Nat
  OBVIOUS
<1>4. paid'[t] <= Cardinality(ChunksWith(c, t)) + lost'[t]
  BY <1>1, <1>2, <1>3
<1>5. t \in Cached' \/ paid'[t] <= lost'[t]
  BY <1>3 DEF Settled
<1>6. ChunksWith(c, t)' = ChunksWith(c, t)
  BY DEF ChunksWith, Kept, File
<1> QED
  BY <1>4, <1>5, <1>6 DEF Settled

LEMMA StartedSubset == Started \subseteq DOMAIN toEmbed /\ InFlight \subseteq DOMAIN toEmbed
  BY DEF Started, InFlight, BatchOf

\* A run that ends settles the texts it had to embed.
LEMMA EndSettles ==
    ASSUME CurrentInv, PaidInv, Embedding, head \in Commit, NEW t \in Texts(toEmbed), t \in Text,
           Cached \subseteq Cached', paid' = paid,
           NEW gone \in SUBSET DOMAIN toEmbed, lost'[t] = lost[t] + Copies(gone, t),
           t \notin Cached' => \A n \in InFlight : toEmbed[n].text = t => n \in gone
    PROVE  Settled(t)'
<1> DEFINE most == Cardinality(ChunksWith(head, t))
<1>1. toEmbed \in Seq(CorpusOf(head))
  BY DEF CurrentInv, CarriedInv
<1>2. /\ Copies(Started, t) \in Nat /\ Copies(gone, t) \in Nat
      /\ Copies(Started, t) <= most /\ most \in Nat
  <2>1. most \in Nat
    BY FiniteChunksWith, FS_CardinalityType
  <2> QED
    BY <1>1, <2>1, StartedSubset, CopiesSplit, CopiesBound DEF PaidInv
<1>3. paid[t] \in Nat /\ lost[t] \in Nat /\ paid[t] <= lost[t] + Copies(Started, t)
  BY DEF PaidInv, SettledInv
<1> HIDE DEF most
<1>4. paid'[t] <= most + lost'[t]
  BY <1>2, <1>3
<1>5. ASSUME t \notin Cached' PROVE paid'[t] <= lost'[t]
  <2>1. \A n \in Started : toEmbed[n].text = t => n \in gone
    <3> SUFFICES ASSUME NEW n \in Started, toEmbed[n].text = t PROVE n \in gone
      OBVIOUS
    <3>1. PICK b \in In("calling") \cup In("done") : n \in BatchOf(b)
      BY DEF Started
    <3>2. t \notin Cached
      BY <1>5
    <3>3. b \notin In("done")
      BY <3>1, <3>2 DEF PaidInv, CallsInv
    <3>4. n \in InFlight
      BY <3>1, <3>3 DEF InFlight
    <3> QED
      BY <3>4, <1>5
  <2>2. Copies(Started, t) <= Copies(gone, t)
    BY <1>1, <2>1, StartedSubset, CopiesSplit
  <2> QED
    BY <2>2, <1>2, <1>3
<1>6. \E c \in Commit : paid'[t] <= Cardinality(ChunksWith(c, t)) + lost'[t]
  BY <1>4 DEF most
<1> QED
  BY <1>5, <1>6 DEF Settled, ChunksWith, Kept, File

\* A text that is not to be embedded is in none of the batches.
LEMMA OthersKeep ==
    ASSUME CurrentInv, PaidInv, Cached \subseteq Cached', paid' = paid, lost' = lost,
           NEW t \in Text, ~ (Embedding /\ t \in Texts(toEmbed))
    PROVE  Settled(t)'
<1>1. Settled(t)
  BY DEF PaidInv, SettledInv
<1>2. lost'[t] \in Nat /\ lost'[t] >= lost[t]
  BY DEF PaidInv
<1> QED
  BY <1>1, <1>2, SettledKeeps DEF PaidInv

LEMMA QuietSettled ==
    ASSUME CurrentInv, PaidInv, UNCHANGED <<cache, paid, lost>>,
           \/ ~ Embedding /\ ~ Embedding'
           \/ UNCHANGED <<toEmbed, call>> /\ (Embedding' <=> Embedding)
    PROVE  SettledInv'
<1> SUFFICES ASSUME NEW t \in Text
             PROVE  (IF Embedding /\ t \in Texts(toEmbed)
                        THEN paid[t] <= lost[t] + Copies(Started, t)
                        ELSE Settled(t))'
  BY DEF SettledInv
<1>1. Cached' = Cached
  BY DEF Cached
<1>2. CASE ~ (Embedding /\ t \in Texts(toEmbed))
  <2>1. Settled(t)'
    BY <1>1, <1>2, OthersKeep
  <2>2. ~ (Embedding' /\ t \in Texts(toEmbed)')
    BY <1>2 DEF Texts
  <2> QED
    BY <2>1, <2>2
<1>3. CASE Embedding /\ t \in Texts(toEmbed)
  <2>1. UNCHANGED <<toEmbed, call>> /\ Embedding'
    BY <1>3
  <2>2. Texts(toEmbed)' = Texts(toEmbed) /\ Started' = Started
    BY <2>1 DEF Texts, Started, In, Batches, BatchOf
  <2>3. Copies(Started, t)' = Copies(Started, t)
    BY <2>1, <2>2 DEF Copies
  <2>4. paid[t] <= lost[t] + Copies(Started, t)
    BY <1>3 DEF PaidInv, SettledInv
  <2> QED
    BY <1>3, <2>1, <2>2, <2>3, <2>4
<1> QED
  BY <1>2, <1>3

LEMMA GatherSettled ==
    ASSUME CurrentInv, PaidInv, Gather
    PROVE  SettledInv'
<1> SUFFICES ASSUME NEW t \in Text
             PROVE  (IF Embedding /\ t \in Texts(toEmbed)
                        THEN paid[t] <= lost[t] + Copies(Started, t)
                        ELSE Settled(t))'
  BY DEF SettledInv
<1>1. pc = "lookup" /\ ~ Embedding /\ UNCHANGED <<toEmbed, cache, paid, lost>>
  BY DEF Gather, Embedding
<1>2. Cached' = Cached /\ Texts(toEmbed)' = Texts(toEmbed)
  BY <1>1 DEF Cached, Texts
<1>3. Settled(t)'
  BY <1>1, <1>2, OthersKeep
<1>4. ASSUME t \in Texts(toEmbed) PROVE (paid[t] <= lost[t] + Copies(Started, t))'
  <2>1. t \notin Cached
    BY <1>1, <1>4 DEF PaidInv, CallsInv
  <2>2. paid[t] <= lost[t]
    BY <1>1, <2>1 DEF PaidInv, SettledInv, Settled
  <2>3. Started' = {}
    BY GatherCalls DEF Started
  <2>4. Copies(Started, t)' = Copies({}, t)
    BY <1>1, <2>3 DEF Copies
  <2>5. Copies({}, t) \in Nat
    <3>1. toEmbed \in Seq(CorpusOf(head)) /\ {} \in SUBSET DOMAIN toEmbed
      BY DEF CurrentInv, CarriedInv
    <3> QED
      BY <3>1, CopiesSplit
  <2> QED
    BY <1>1, <2>2, <2>4, <2>5 DEF PaidInv
<1> QED
  BY <1>2, <1>3, <1>4

\* The batches that count as started once a task has moved on.
LEMMA TaskStarted ==
    ASSUME CurrentInv, CallsInv, NEW b \in Batches
    PROVE  /\ Call(b) => Started' = Started \cup BatchOf(b) /\ Started \cap BatchOf(b) = {}
           /\ Reply(b) => Started' = Started
           /\ CallFails(b) => Started = Started' \cup BatchOf(b) /\ Started' \cap BatchOf(b) = {}
<1> DEFINE Live(o) == call[o] \in {"calling", "done"}
           LiveOthers == {o \in Batches : o # b /\ Live(o)}
           Rest == UNION {BatchOf(o) : o \in LiveOthers}
<1>1. Rest \cap BatchOf(b) = {}
  <2>1. toEmbed \in Seq(CorpusOf(head))
    BY DEF CurrentInv, CarriedInv
  <2>2. \A o \in LiveOthers : BatchOf(o) \cap BatchOf(b) = {}
    BY <2>1, BatchesApart DEF CallsInv
  <2> HIDE DEF LiveOthers
  <2> QED
    BY <2>2
<1>2. Started = UNION {BatchOf(o) : o \in {p \in Batches : Live(p)}}
  <2>1. In("calling") \cup In("done") = {p \in Batches : Live(p)}
    BY DEF In
  <2> QED
    BY <2>1 DEF Started
<1>3. ASSUME Live(b) PROVE Started = Rest \cup BatchOf(b)
  <2>1. {p \in Batches : Live(p)} = LiveOthers \cup {b}
    BY <1>3
  <2> HIDE DEF LiveOthers, Live
  <2> QED
    BY <1>2, <2>1
<1>4. ASSUME ~ Live(b) PROVE Started = Rest
  <2>1. {p \in Batches : Live(p)} = LiveOthers
    BY <1>4
  <2> HIDE DEF LiveOthers, Live
  <2> QED
    BY <1>2, <2>1
<1>5. ASSUME NEW new, call' = [call EXCEPT ![b] = new], toEmbed' = toEmbed
      PROVE  Started' = IF new \in {"calling", "done"} THEN Rest \cup BatchOf(b) ELSE Rest
  <2>1. Batches' = Batches /\ \A o \in Batches : call'[o] = IF o = b THEN new ELSE call[o]
    BY <1>5 DEF Batches
  <2>2. \A o : BatchOf(o)' = BatchOf(o)
    BY <1>5 DEF BatchOf
  <2>3. In("calling")' \cup In("done")' =
            IF new \in {"calling", "done"} THEN LiveOthers \cup {b} ELSE LiveOthers
    BY <2>1 DEF In
  <2>4. Started' = UNION {BatchOf(o) : o \in In("calling")' \cup In("done")'}
    BY <2>2 DEF Started
  <2> HIDE DEF LiveOthers
  <2> QED
    BY <2>3, <2>4
<1> HIDE DEF Rest
<1>6. ASSUME Call(b) PROVE Started' = Started \cup BatchOf(b) /\ Started \cap BatchOf(b) = {}
  <2>1. ~ Live(b)
    <3>1. call[b] = "waiting" /\ "waiting" # "calling" /\ "waiting" # "done"
      BY <1>6 DEF Call
    <3> QED
      BY <3>1
  <2>2. call' = [call EXCEPT ![b] = "calling"] /\ toEmbed' = toEmbed
    BY <1>6 DEF Call
  <2>3. Started' = Rest \cup BatchOf(b)
    BY <2>2, <1>5
  <2> QED
    BY <1>1, <1>4, <2>1, <2>3
<1>7. ASSUME Reply(b) PROVE Started' = Started
  <2>1. Live(b) /\ call' = [call EXCEPT ![b] = "done"] /\ toEmbed' = toEmbed
    BY <1>7 DEF Reply
  <2>2. Started' = Rest \cup BatchOf(b)
    BY <2>1, <1>5
  <2> QED
    BY <1>3, <2>1, <2>2
<1>8. ASSUME CallFails(b) PROVE Started = Started' \cup BatchOf(b) /\ Started' \cap BatchOf(b) = {}
  <2>1. Live(b) /\ call' = [call EXCEPT ![b] = "failed"] /\ toEmbed' = toEmbed
    BY <1>8 DEF CallFails
  <2>2. "failed" # "calling" /\ "failed" # "done"
    OBVIOUS
  <2>3. Started' = Rest
    BY <2>1, <2>2, <1>5
  <2> QED
    BY <1>1, <1>3, <2>1, <2>3
<1> QED
  BY <1>6, <1>7, <1>8

LEMMA TaskSettled ==
    ASSUME CurrentInv, PaidInv, NEW b \in Batches, Call(b) \/ Reply(b) \/ CallFails(b)
    PROVE  SettledInv' /\ paid' \in [Text -> Nat] /\ lost' \in [Text -> Nat]
<1>1. Embedding /\ Embedding' /\ toEmbed' = toEmbed
  BY DEF Call, Reply, CallFails, Embedding
<1>2. toEmbed \in Seq(CorpusOf(head)) /\ BatchOf(b) \in SUBSET DOMAIN toEmbed
  BY DEF CurrentInv, CarriedInv, BatchOf
<1>3. paid \in [Text -> Nat] /\ lost \in [Text -> Nat] /\ CallsInv
  BY DEF PaidInv
<1>4. Texts(toEmbed)' = Texts(toEmbed) /\ Started' \in SUBSET DOMAIN toEmbed
  <2>1. Started' = UNION {BatchOf(o) : o \in (In("calling") \cup In("done"))'}
    BY <1>1 DEF Started, BatchOf
  <2> QED
    BY <1>1, <2>1 DEF Texts, BatchOf
<1>5. \A t : Copies(Started, t)' = Copies(Started', t)
  BY <1>1 DEF Copies
<1>6. \A t \in Text :
          /\ Copies(BatchOf(b), t) \in Nat
          /\ Copies(Started, t) \in Nat /\ Copies(Started', t) \in Nat
          /\ t \notin Texts(toEmbed) => Copies(BatchOf(b), t) = 0
  BY <1>2, <1>4, StartedSubset, CopiesSplit
<1>7. \A t \in Text : t \in Texts(toEmbed) => paid[t] <= lost[t] + Copies(Started, t)
  BY <1>1 DEF PaidInv, SettledInv
<1>8. /\ paid' \in [Text -> Nat] /\ lost' \in [Text -> Nat]
      /\ \A t \in Text :
             /\ t \in Texts(toEmbed) => paid'[t] <= lost'[t] + Copies(Started', t)
             /\ t \notin Texts(toEmbed) => paid'[t] = paid[t] /\ lost'[t] = lost[t]
  <2>1. CASE Call(b)
    <3>1. paid' = [t \in Text |-> paid[t] + Copies(BatchOf(b), t)] /\ lost' = lost
      BY <2>1 DEF Call
    <3>2. Started' = Started \cup BatchOf(b) /\ Started \cap BatchOf(b) = {}
      BY <1>3, <2>1, TaskStarted
    <3>3. \A t \in Text : Copies(Started', t) = Copies(Started, t) + Copies(BatchOf(b), t)
      BY <1>2, <3>2, StartedSubset, CopiesSplit
    <3>4. paid' \in [Text -> Nat]
      BY <1>3, <1>6, <3>1
    <3>5. \A t \in Text : paid[t] \in Nat /\ lost[t] \in Nat
      BY <1>3
    <3>6. ASSUME NEW t \in Text, t \in Texts(toEmbed) PROVE paid'[t] <= lost'[t] + Copies(Started', t)
      <4>1. paid'[t] = paid[t] + Copies(BatchOf(b), t) /\ lost'[t] = lost[t]
        BY <3>1
      <4>2. /\ Copies(Started', t) = Copies(Started, t) + Copies(BatchOf(b), t)
            /\ paid[t] <= lost[t] + Copies(Started, t)
            /\ paid[t] \in Nat /\ lost[t] \in Nat
            /\ Copies(BatchOf(b), t) \in Nat /\ Copies(Started, t) \in Nat
        BY <1>6, <1>7, <3>3, <3>5, <3>6
      <4> QED
        BY ONLY <4>1, <4>2
    <3>7. ASSUME NEW t \in Text, t \notin Texts(toEmbed) PROVE paid'[t] = paid[t]
      BY <1>6, <3>1, <3>5, <3>7
    <3> QED
      BY <1>3, <3>1, <3>4, <3>6, <3>7
  <2>2. CASE Reply(b)
    <3>1. paid' = paid /\ lost' = lost
      BY <2>2 DEF Reply
    <3>2. Started' = Started
      BY <1>3, <2>2, TaskStarted
    <3> QED
      BY <1>3, <1>7, <3>1, <3>2
  <2>3. CASE CallFails(b)
    <3>1. lost' = [t \in Text |-> lost[t] + Copies(BatchOf(b), t)] /\ paid' = paid
      BY <2>3 DEF CallFails
    <3>2. Started = Started' \cup BatchOf(b) /\ Started' \cap BatchOf(b) = {}
      BY <1>3, <2>3, TaskStarted
    <3>3. \A t \in Text : Copies(Started, t) = Copies(Started', t) + Copies(BatchOf(b), t)
      BY <1>2, <1>4, <3>2, CopiesSplit
    <3>4. lost' \in [Text -> Nat]
      BY <1>3, <1>6, <3>1
    <3>5. \A t \in Text : paid[t] \in Nat /\ lost[t] \in Nat
      BY <1>3
    <3>6. ASSUME NEW t \in Text, t \in Texts(toEmbed) PROVE paid'[t] <= lost'[t] + Copies(Started', t)
      <4>1. lost'[t] = lost[t] + Copies(BatchOf(b), t) /\ paid'[t] = paid[t]
        BY <3>1
      <4>2. /\ Copies(Started, t) = Copies(Started', t) + Copies(BatchOf(b), t)
            /\ paid[t] <= lost[t] + Copies(Started, t)
            /\ paid[t] \in Nat /\ lost[t] \in Nat
            /\ Copies(BatchOf(b), t) \in Nat /\ Copies(Started', t) \in Nat
        BY <1>6, <1>7, <3>3, <3>5, <3>6
      <4> QED
        BY ONLY <4>1, <4>2
    <3>7. ASSUME NEW t \in Text, t \notin Texts(toEmbed) PROVE lost'[t] = lost[t]
      BY <1>6, <3>1, <3>5, <3>7
    <3> QED
      BY <1>3, <3>1, <3>4, <3>6, <3>7
  <2> QED
    BY <2>1, <2>2, <2>3
<1>9. Cached \subseteq Cached'
  <2>1. CASE Reply(b)
    <3>1. cache' = Stored(BatchOf(b))
      BY <2>1 DEF Reply
    <3> QED
      BY <3>1, StoredKeeps
  <2>2. CASE Call(b) \/ CallFails(b)
    BY <2>2 DEF Call, CallFails, Cached
  <2> QED
    BY <2>1, <2>2
<1>10. ASSUME NEW t \in Text, t \notin Texts(toEmbed) PROVE Settled(t)'
  <2>1. Settled(t)
    BY <1>10 DEF PaidInv, SettledInv
  <2>2. paid'[t] = paid[t] /\ lost'[t] \in Nat /\ lost'[t] >= lost[t]
    BY <1>3, <1>8, <1>10
  <2> QED
    BY <1>3, <1>9, <2>1, <2>2, SettledKeeps
<1>11. \A t \in Text :
          (IF Embedding /\ t \in Texts(toEmbed)
              THEN paid[t] <= lost[t] + Copies(Started, t)
              ELSE Settled(t))'
  BY <1>1, <1>4, <1>5, <1>8, <1>10
<1> QED
  BY <1>8, <1>11 DEF SettledInv

\* A run that ends while it embeds: what was in flight and not stored is lost.
LEMMA AbortSettled ==
    ASSUME CurrentInv, PaidInv, Embedding, ~ Embedding', paid' = paid,
           NEW gone \in SUBSET DOMAIN toEmbed, lost' = [t \in Text |-> lost[t] + Copies(gone, t)],
           Cached \subseteq Cached',
           \A n \in InFlight : toEmbed[n].text \in Cached' \/ n \in gone
    PROVE  SettledInv' /\ lost' \in [Text -> Nat]
<1>1. toEmbed \in Seq(CorpusOf(head)) /\ head \in Commit
  BY DEF CurrentInv, CarriedInv, Embedding
<1>2. lost \in [Text -> Nat] /\ paid \in [Text -> Nat]
  BY DEF PaidInv
<1>3. \A t \in Text : Copies(gone, t) \in Nat /\ (t \notin Texts(toEmbed) => Copies(gone, t) = 0)
  BY <1>1, CopiesSplit
<1>4. lost' \in [Text -> Nat]
  BY <1>2, <1>3
<1>5. ASSUME NEW t \in Text PROVE Settled(t)'
  <2>1. CASE t \in Texts(toEmbed)
    BY <1>1, <2>1, EndSettles
  <2>2. CASE t \notin Texts(toEmbed)
    <3>1. Settled(t)
      BY <2>2 DEF PaidInv, SettledInv
    <3>2. lost'[t] = lost[t] + Copies(gone, t) /\ lost[t] \in Nat /\ Copies(gone, t) = 0
      BY <1>2, <1>3, <2>2
    <3>3. lost'[t] \in Nat /\ lost'[t] >= lost[t]
      BY ONLY <3>2
    <3> QED
      BY <1>2, <3>1, <3>3, SettledKeeps
  <2> QED
    BY <2>1, <2>2
<1> QED
  BY <1>4, <1>5 DEF SettledInv

LEMMA CrashSettled ==
    ASSUME CurrentInv, PaidInv, Crash
    PROVE  SettledInv' /\ lost' \in [Text -> Nat]
<1>1. PICK positions \in StoredFirst :
          /\ cache' = Stored(positions)
          /\ lost' = [t \in Text |-> lost[t] + Copies(InFlight \ positions, t)]
  BY DEF Crash
<1>2. ~ Embedding' /\ paid' = paid
  BY DEF Crash, End, Goto, Embedding
<1>3. Cached \subseteq Cached' /\ \A n \in positions : toEmbed[n].text \in Cached'
  BY <1>1, StoredKeeps
<1>4. CASE Embedding
  <2>1. InFlight \ positions \in SUBSET DOMAIN toEmbed
    BY StartedSubset
  <2>2. \A n \in InFlight : toEmbed[n].text \in Cached' \/ n \in InFlight \ positions
    BY <1>3
  <2> QED
    BY <1>1, <1>2, <1>3, <1>4, <2>1, <2>2, AbortSettled
<1>5. CASE ~ Embedding
  <2>1. In("calling") = {}
    BY <1>5 DEF PaidInv, CallsInv
  <2>2. InFlight \ positions = {}
    BY <2>1 DEF InFlight
  <2>3. toEmbed \in Seq(CorpusOf(head)) /\ {} \in SUBSET DOMAIN toEmbed
    BY DEF CurrentInv, CarriedInv
  <2>4. \A t \in Text : Copies({}, t) \in Nat
    BY <2>3, CopiesSplit
  <2>5. lost \in [Text -> Nat] /\ paid \in [Text -> Nat]
    BY DEF PaidInv
  <2>6. lost' = [t \in Text |-> lost[t] + Copies({}, t)]
    BY <1>1, <2>2
  <2>7. lost' \in [Text -> Nat]
    BY <2>4, <2>5, <2>6
  <2>8. ASSUME NEW t \in Text PROVE Settled(t)'
    <3>1. Settled(t)
      BY <1>5 DEF PaidInv, SettledInv
    <3>2. lost'[t] = lost[t] + Copies({}, t) /\ lost[t] \in Nat /\ Copies({}, t) \in Nat
      BY <2>4, <2>5, <2>6
    <3>3. lost'[t] \in Nat /\ lost'[t] >= lost[t]
      BY ONLY <3>2
    <3> QED
      BY <1>2, <1>3, <2>5, <3>1, <3>3, SettledKeeps
  <2> QED
    BY <1>2, <2>7, <2>8 DEF SettledInv
<1> QED
  BY <1>4, <1>5

LEMMA CollectedSettled ==
    ASSUME CurrentInv, PaidInv, Collected
    PROVE  SettledInv'
<1>1. /\ Embedding /\ ~ Embedding' /\ UNCHANGED <<cache, paid, lost>> /\ In("done") = Batches
  BY DEF Collected, Goto, Embedding
<1>2. InFlight = {}
  <2>1. "calling" # "done"
    OBVIOUS
  <2>2. In("calling") = {}
    BY <1>1, <2>1 DEF In
  <2> QED
    BY <2>2 DEF InFlight
<1>3. toEmbed \in Seq(CorpusOf(head)) /\ head \in Commit /\ {} \in SUBSET DOMAIN toEmbed
  BY <1>1 DEF CurrentInv, CarriedInv, Embedding
<1>4. Cached' = Cached
  BY <1>1 DEF Cached
<1>5. ASSUME NEW t \in Text, t \in Texts(toEmbed) PROVE Settled(t)'
  <2>1. Copies({}, t) = 0
    <3>1. {n \in {} : toEmbed[n].text = t} = {}
      OBVIOUS
    <3> QED
      BY <3>1, FS_EmptySet DEF Copies
  <2>2. lost'[t] = lost[t] + Copies({}, t)
    BY <1>1, <2>1 DEF PaidInv
  <2> QED
    BY <1>1, <1>2, <1>3, <1>4, <1>5, <2>2, EndSettles
<1>6. ASSUME NEW t \in Text, t \notin Texts(toEmbed) PROVE Settled(t)'
  BY <1>1, <1>4, <1>6, OthersKeep
<1> QED
  BY <1>1, <1>5, <1>6 DEF SettledInv

LEMMA PaidInit == IngestInit => PaidInv
<1> SUFFICES ASSUME IngestInit PROVE PaidInv
  OBVIOUS
<1>1. pc = "idle" /\ call = << >> /\ tip \in Commit
      /\ paid = [t \in Text |-> 0] /\ lost = [t \in Text |-> 0]
  BY DEF IngestInit
<1>2. CallsInv
  <2>1. Batches = {} /\ In("calling") = {}
    BY <1>1 DEF Batches, In
  <2> QED
    BY <1>1, <2>1 DEF CallsInv, Embedding
<1>3. ASSUME NEW t \in Text PROVE Settled(t)
  <2>1. Cardinality(ChunksWith(tip, t)) \in Nat
    BY <1>1, FiniteChunksWith, FS_CardinalityType
  <2>2. paid[t] = 0 /\ lost[t] = 0
    BY <1>1
  <2>3. paid[t] <= Cardinality(ChunksWith(tip, t)) + lost[t]
    BY ONLY <2>1, <2>2
  <2> QED
    BY <1>1, <2>2, <2>3 DEF Settled
<1>4. SettledInv
  BY <1>1, <1>3 DEF SettledInv, Embedding
<1> QED
  BY <1>1, <1>2, <1>4, OnceInit DEF PaidInv

LEMMA PaidNext == TrueInv /\ CurrentInv /\ PaidInv /\ [IngestNext]_ingestVars => PaidInv'
<1> SUFFICES ASSUME TrueInv, CurrentInv, PaidInv, [IngestNext]_ingestVars PROVE PaidInv'
  OBVIOUS
<1>1. OnceInv' /\ CallsInv'
  BY OnceNext, CallsNext DEF PaidInv
<1>2. ASSUME UNCHANGED <<cache, paid, lost>>,
             \/ ~ Embedding /\ ~ Embedding'
             \/ UNCHANGED <<toEmbed, call>> /\ (Embedding' <=> Embedding)
      PROVE  PaidInv'
  BY <1>1, <1>2, QuietSettled DEF PaidInv
<1>3. CASE Push \/ UNCHANGED ingestVars
  BY <1>2, <1>3 DEF Push, ingestVars, run, Embedding
<1>4. CASE Start \/ EnsureRepo \/ Checkout \/ ReadFile \/ Chunked \/ LookUp \/ Upsert
  BY <1>2, <1>4 DEF Start, EnsureRepo, Checkout, ReadFile, Chunked, LookUp, Upsert, Goto, Embedding
<1>5. CASE LoadFails \/ Complete
  BY <1>2, <1>5 DEF LoadFails, Complete, End, Goto, Embedding
<1>6. CASE Gather
  <2>1. UNCHANGED <<paid, lost>>
    BY <1>6 DEF Gather
  <2> QED
    BY <1>1, <1>6, <2>1, GatherSettled DEF PaidInv
<1>7. ASSUME NEW b \in Batches, Call(b) \/ Reply(b) \/ CallFails(b) PROVE PaidInv'
  BY <1>1, <1>7, TaskSettled DEF PaidInv
<1>8. CASE Abort
  <2>1. /\ Embedding /\ ~ Embedding' /\ UNCHANGED <<cache, paid>>
        /\ lost' = [t \in Text |-> lost[t] + Copies(InFlight, t)]
    BY <1>8 DEF Abort, End, Goto, Embedding
  <2>2. Cached \subseteq Cached' /\ InFlight \in SUBSET DOMAIN toEmbed
    BY <2>1, StartedSubset DEF Cached
  <2>3. SettledInv' /\ lost' \in [Text -> Nat]
    BY <2>1, <2>2, AbortSettled
  <2> QED
    BY <1>1, <2>1, <2>3 DEF PaidInv
<1>9. CASE Collect
  <2>1. UNCHANGED <<pc, toEmbed, call, cache, paid, lost>>
    BY <1>9 DEF Collect
  <2> QED
    BY <1>2, <2>1 DEF Embedding
<1>10. CASE Collected
  <2>1. UNCHANGED <<paid, lost>>
    BY <1>10 DEF Collected
  <2> QED
    BY <1>1, <1>10, <2>1, CollectedSettled DEF PaidInv
<1>11. CASE Crash
  <2>1. paid' = paid
    BY <1>11 DEF Crash
  <2> QED
    BY <1>1, <1>11, <2>1, CrashSettled DEF PaidInv
<1> QED
  BY <1>3, <1>4, <1>5, <1>6, <1>7, <1>8, <1>9, <1>10, <1>11 DEF IngestNext

LEMMA PaidImplies == TrueInv /\ CurrentInv /\ PaidInv => RerunsPayOnce
<1> SUFFICES ASSUME CurrentInv, PaidInv, NEW t \in Text
             PROVE  \E c \in Commit : paid[t] <= Cardinality(ChunksWith(c, t)) + lost[t]
  BY DEF RerunsPayOnce
<1>1. CASE ~ (Embedding /\ t \in Texts(toEmbed))
  BY <1>1 DEF PaidInv, SettledInv, Settled
<1>2. CASE Embedding /\ t \in Texts(toEmbed)
  <2>1. head \in Commit /\ toEmbed \in Seq(CorpusOf(head))
    BY <1>2 DEF CurrentInv, CarriedInv, Embedding
  <2>2. paid[t] <= lost[t] + Copies(Started, t) /\ paid[t] \in Nat /\ lost[t] \in Nat
    BY <1>2 DEF PaidInv, SettledInv
  <2>3. Copies(Started, t) \in Nat /\ Copies(Started, t) <= Cardinality(ChunksWith(head, t))
    BY <2>1, StartedSubset, CopiesBound DEF PaidInv
  <2>4. Cardinality(ChunksWith(head, t)) \in Nat
    BY <2>1, FiniteChunksWith, FS_CardinalityType
  <2>5. paid[t] <= Cardinality(ChunksWith(head, t)) + lost[t]
    BY ONLY <2>2, <2>3, <2>4
  <2> QED
    BY <2>1, <2>5
<1> QED
  BY <1>1, <1>2

\* A text is paid for once for each of its chunks in one corpus, and once more
\* for each reply that never came: for every corpus, batch size and concurrency,
\* and however many runs failed or died before it stored a vector (ADR-0005).
THEOREM RerunsPayOnceTheorem == IngestSpec => []RerunsPayOnce
<1>1. IngestInit => TrueInv /\ CurrentInv /\ PaidInv
  BY TrueInit, CurrentInit, PaidInit
<1>2. TrueInv /\ CurrentInv /\ PaidInv /\ [IngestNext]_ingestVars => (TrueInv /\ CurrentInv /\ PaidInv)'
  BY TrueNext, CurrentNext, PaidNext
<1>3. TrueInv /\ CurrentInv /\ PaidInv => RerunsPayOnce
  BY PaidImplies
<1> QED
  BY <1>1, <1>2, <1>3, PTL DEF IngestSpec

-----------------------------------------------------------------------------
\* Scores

Weight(p) == <<1, FusionK + p[2]>>
Some(s) == CHOOSE p \in s : TRUE

\* The equation of the function that a score is a value of.
FoldOver(D, g) ==
    [s \in D |-> IF s = {} THEN <<0, 1>> ELSE Plus(Weight(Some(s)), g[s \ {Some(s)}])]

\* A set without one of its elements has one less.
LEMMA WithoutOne ==
    ASSUME NEW s, IsFiniteSet(s), s # {}
    PROVE  /\ Some(s) \in s
           /\ \A p \in s : /\ IsFiniteSet(s \ {p}) /\ Cardinality(s) \in Nat \ {0}
                           /\ Cardinality(s \ {p}) = Cardinality(s) - 1
<1>1. Some(s) \in s
  BY DEF Some
<1>2. ASSUME NEW p \in s
      PROVE  /\ IsFiniteSet(s \ {p}) /\ Cardinality(s) \in Nat \ {0}
             /\ Cardinality(s \ {p}) = Cardinality(s) - 1
  BY FS_RemoveElement, FS_CardinalityType, FS_EmptySet
<1> QED
  BY <1>1, <1>2

\* The function exists: it is built up from the empty set.
LEMMA FoldExists ==
    ASSUME NEW W, IsFiniteSet(W)
    PROVE  \E g : g = FoldOver(SUBSET W, g)
<1> DEFINE Small(m) == {s \in SUBSET W : Cardinality(s) <= m}
           S == {m \in Nat : \E g : g = FoldOver(Small(m), g)}
<1>1. \A s \in SUBSET W : IsFiniteSet(s) /\ Cardinality(s) \in Nat
  BY FS_Subset, FS_CardinalityType
<1>2. 0 \in S
  <2>1. Small(0) = {{}}
    <3>1. \A s \in SUBSET W : Cardinality(s) <= 0 <=> s = {}
      BY <1>1, FS_EmptySet
    <3> QED
      BY <3>1
  <2> HIDE DEF Small
  <2> DEFINE g == [s \in Small(0) |-> <<0, 1>>]
  <2>2. g = FoldOver(Small(0), g)
    BY <2>1 DEF FoldOver
  <2> QED
    BY <2>2
<1>3. ASSUME NEW m \in Nat, m \in S PROVE m + 1 \in S
  <2>1. PICK g : g = FoldOver(Small(m), g)
    BY <1>3
  <2> DEFINE h == FoldOver(Small(m + 1), g)
  <2>2. ASSUME NEW s \in Small(m + 1), s # {}
        PROVE  s \ {Some(s)} \in Small(m) /\ s \ {Some(s)} \in Small(m + 1)
    <3>1. Cardinality(s \ {Some(s)}) = Cardinality(s) - 1 /\ Cardinality(s) <= m + 1
      BY <1>1, <2>2, WithoutOne
    <3>2. Cardinality(s \ {Some(s)}) \in Nat /\ Cardinality(s) \in Nat
      BY <1>1
    <3>3. Cardinality(s \ {Some(s)}) <= m /\ Cardinality(s \ {Some(s)}) <= m + 1
      BY ONLY <3>1, <3>2, <1>3
    <3> QED
      BY <3>3
  <2>3. \A s \in Small(m) : s \in Small(m + 1)
    BY <1>1
  <2> HIDE DEF Small
  <2>4. \A s \in Small(m) : g[s] = IF s = {} THEN <<0, 1>> ELSE Plus(Weight(Some(s)), g[s \ {Some(s)}])
    BY <2>1 DEF FoldOver
  <2>5. \A s \in Small(m + 1) : h[s] = IF s = {} THEN <<0, 1>> ELSE Plus(Weight(Some(s)), g[s \ {Some(s)}])
    BY DEF FoldOver
  <2>6. \A s \in Small(m) : h[s] = g[s]
    BY <2>3, <2>4, <2>5
  <2>7. h = FoldOver(Small(m + 1), h)
    <3> SUFFICES ASSUME NEW s \in Small(m + 1)
                 PROVE  (IF s = {} THEN <<0, 1>> ELSE Plus(Weight(Some(s)), g[s \ {Some(s)}])) =
                            (IF s = {} THEN <<0, 1>> ELSE Plus(Weight(Some(s)), h[s \ {Some(s)}]))
      BY DEF FoldOver
    <3> HIDE DEF h
    <3> QED
      BY <2>2, <2>6
  <2> QED
    BY <2>7
<1>4. Cardinality(W) \in S
  <2>1. Cardinality(W) \in Nat
    BY FS_CardinalityType
  <2> HIDE DEF S
  <2> QED
    BY <1>2, <1>3, <2>1, Induction
<1>5. Small(Cardinality(W)) = SUBSET W
  <2>1. \A s \in SUBSET W : Cardinality(s) <= Cardinality(W)
    BY FS_Subset
  <2> QED
    BY <2>1
<1> HIDE DEF Small
<1> QED
  BY <1>4, <1>5

LEMMA ScoreFold ==
    ASSUME NEW rankings, NEW id, IsFiniteSet(Places(rankings, id))
    PROVE  \E g : /\ g = FoldOver(SUBSET Places(rankings, id), g)
                  /\ Score(rankings, id) = g[Places(rankings, id)]
<1> DEFINE W == Places(rankings, id)
           f == CHOOSE g : g = FoldOver(SUBSET W, g)
<1>1. f = FoldOver(SUBSET W, f)
  <2> HIDE DEF W
  <2> QED
    BY FoldExists DEF W
<1>2. Score(rankings, id) = f[W]
  <2> HIDE DEF W
  <2> QED
    BY DEF Score, MapThenFoldSet, FoldOver, Weight, Some, W
<1> QED
  BY <1>1, <1>2

Fraction == Nat \X (Nat \ {0})

\* g gives the sum of the weights of each part of W, whatever the order.
IsSum(g, W) ==
    /\ g \in [SUBSET W -> Fraction]
    /\ g[{}] = <<0, 1>>
    /\ \A s \in SUBSET W : \A p \in s : g[s] = Plus(Weight(p), g[s \ {p}])

LEMMA PlusSwaps ==
    ASSUME NEW x \in Fraction, NEW y \in Fraction, NEW z \in Fraction
    PROVE  Plus(x, y) \in Fraction /\ Plus(x, Plus(y, z)) = Plus(y, Plus(x, z))
<1> DEFINE a == x[1]
           b == x[2]
           c == y[1]
           d == y[2]
           e == z[1]
           f == z[2]
<1>1. a \in Nat /\ b \in Nat /\ c \in Nat /\ d \in Nat /\ e \in Nat /\ f \in Nat /\ b # 0 /\ d # 0
  BY DEF Fraction
<1>2. /\ Plus(x, y) = <<a * d + c * b, b * d>>
      /\ Plus(x, Plus(y, z)) = <<a * (d * f) + (c * f + e * d) * b, b * (d * f)>>
      /\ Plus(y, Plus(x, z)) = <<c * (b * f) + (a * f + e * b) * d, d * (b * f)>>
  BY DEF Plus
<1> HIDE DEF a, b, c, d, e, f
<1>3. a * (d * f) + (c * f + e * d) * b = c * (b * f) + (a * f + e * b) * d
  BY ONLY <1>1
<1>4. b * (d * f) = d * (b * f)
  BY ONLY <1>1
<1>5. a * d + c * b \in Nat /\ b * d \in Nat
  BY ONLY <1>1
<1>6. b * d # 0
  BY ONLY <1>1
<1> QED
  BY <1>2, <1>3, <1>4, <1>5, <1>6 DEF Fraction

LEMMA FoldIsSum ==
    ASSUME NEW W, IsFiniteSet(W), \A p \in W : p[2] \in Nat \ {0},
           NEW g, g = FoldOver(SUBSET W, g)
    PROVE  IsSum(g, W)
<1> DEFINE AnyOrder(s) == g[s] \in Fraction /\ \A p \in s : g[s] = Plus(Weight(p), g[s \ {p}])
           S == {m \in Nat : \A s \in SUBSET W : Cardinality(s) <= m => AnyOrder(s)}
<1>1. \A s \in SUBSET W : IsFiniteSet(s) /\ Cardinality(s) \in Nat
  BY FS_Subset, FS_CardinalityType
<1>2. \A s \in SUBSET W : g[s] = IF s = {} THEN <<0, 1>> ELSE Plus(Weight(Some(s)), g[s \ {Some(s)}])
  BY DEF FoldOver
<1>3. \A p \in W : Weight(p) \in Fraction
  <2> TAKE p \in W
  <2>1. FusionK + p[2] \in Nat \ {0}
    BY FusionAssumption
  <2> QED
    BY <2>1 DEF Weight, Fraction
<1>4. g[{}] = <<0, 1>> /\ g[{}] \in Fraction
  BY <1>2 DEF Fraction
<1>5. 0 \in S
  <2>1. \A s \in SUBSET W : Cardinality(s) <= 0 => s = {}
    BY <1>1, FS_EmptySet
  <2>2. AnyOrder({})
    BY <1>4
  <2> HIDE DEF AnyOrder
  <2> QED
    BY <2>1, <2>2
<1>6. ASSUME NEW m \in Nat, m \in S PROVE m + 1 \in S
  <2> SUFFICES ASSUME NEW s \in SUBSET W, Cardinality(s) <= m + 1, s # {} PROVE AnyOrder(s)
    <3>1. \A s \in SUBSET W : s = {} => AnyOrder(s)
      BY <1>4
    <3>2. \A s \in SUBSET W : Cardinality(s) <= m + 1 => AnyOrder(s)
      BY <3>1
    <3> HIDE DEF AnyOrder
    <3> QED
      BY <3>2
  <2>1. ASSUME NEW r \in SUBSET s, NEW p \in r PROVE AnyOrder(r \ {p})
    <3>1. IsFiniteSet(r) /\ Cardinality(r) <= Cardinality(s)
      BY <1>1, FS_Subset
    <3>2. Cardinality(r \ {p}) = Cardinality(r) - 1 /\ r \ {p} \in SUBSET W
      BY <3>1, WithoutOne
    <3>3. Cardinality(r) \in Nat /\ Cardinality(s) \in Nat
      BY <1>1
    <3>4. Cardinality(r \ {p}) <= m
      BY ONLY <3>1, <3>2, <3>3, <1>6, Cardinality(s) <= m + 1
    <3> QED
      BY <1>6, <3>2, <3>4
  <2> DEFINE q == Some(s)
  <2>2. q \in s
    BY <1>1, WithoutOne
  <2>3. g[s] = Plus(Weight(q), g[s \ {q}])
    BY <1>2
  <2>4. g[s \ {q}] \in Fraction /\ Weight(q) \in Fraction
    BY <1>3, <2>1, <2>2
  <2>5. g[s] \in Fraction
    BY <2>3, <2>4, PlusSwaps
  <2>6. ASSUME NEW p \in s, p # q PROVE g[s] = Plus(Weight(p), g[s \ {p}])
    <3> DEFINE rest == (s \ {p}) \ {q}
    <3>1. rest = (s \ {q}) \ {p} /\ p \in s \ {q} /\ q \in s \ {p}
      BY <2>2, <2>6
    <3>2. g[s \ {q}] = Plus(Weight(p), g[rest]) /\ g[s \ {p}] = Plus(Weight(q), g[rest])
      BY <2>1, <2>2, <3>1
    <3>3. g[rest] \in Fraction
      <4>1. AnyOrder((s \ {p}) \ {q})
        BY <2>1, <3>1
      <4> QED
        BY <4>1
    <3>4. Weight(p) \in Fraction
      BY <1>3
    <3>5. Weight(q) \in Fraction
      BY <2>4
    <3> HIDE DEF rest, q
    <3>6. Plus(Weight(q), Plus(Weight(p), g[rest])) = Plus(Weight(p), Plus(Weight(q), g[rest]))
      BY <3>3, <3>4, <3>5, PlusSwaps
    <3> QED
      BY <2>3, <3>2, <3>6
  <2> QED
    BY <2>3, <2>5, <2>6
<1>7. Nat \subseteq S
  <2> HIDE DEF S
  <2> QED
    BY <1>5, <1>6, Induction
<1>8. \A s \in SUBSET W : AnyOrder(s)
  <2> TAKE s \in SUBSET W
  <2>1. Cardinality(s) \in Nat /\ Cardinality(s) <= Cardinality(s)
    BY <1>1
  <2> HIDE DEF AnyOrder
  <2> QED
    BY <1>7, <2>1
<1>9. g \in [SUBSET W -> Fraction]
  <2>1. g = [s \in SUBSET W |-> g[s]]
    BY DEF FoldOver
  <2> QED
    BY <1>8, <2>1
<1> QED
  BY <1>4, <1>8, <1>9 DEF IsSum

-----------------------------------------------------------------------------
\* Orders

\* A set of numbers has a least one, and a bounded one a greatest.
LEMMA LeastOf ==
    ASSUME NEW S \in SUBSET Nat, S # {}
    PROVE  \E x \in S : \A y \in S : x <= y
<1> SUFFICES ASSUME \A x \in S : \E y \in S : y < x PROVE FALSE
  OBVIOUS
<1> DEFINE T == {n \in Nat : \A x \in S : n < x}
<1>1. 0 \in T
  <2> SUFFICES ASSUME NEW x \in S PROVE 0 < x
    OBVIOUS
  <2>1. PICK y \in S : y < x
    OBVIOUS
  <2> QED
    BY <2>1
<1>2. ASSUME NEW n \in Nat, n \in T PROVE n + 1 \in T
  <2> SUFFICES ASSUME NEW x \in S PROVE n + 1 < x
    OBVIOUS
  <2>1. PICK y \in S : y < x
    OBVIOUS
  <2>2. n < y
    BY <1>2
  <2> QED
    BY <2>1, <2>2
<1>3. Nat \subseteq T
  <2> HIDE DEF T
  <2> QED
    BY <1>1, <1>2, Induction
<1>4. PICK x \in S : TRUE
  OBVIOUS
<1>5. x < x
  BY <1>3, <1>4
<1> QED
  BY <1>5

LEMMA GreatestOf ==
    ASSUME NEW S \in SUBSET Nat, S # {}, NEW m \in Nat, \A x \in S : x <= m
    PROVE  \E x \in S : \A y \in S : y <= x
<1> DEFINE T == {m - x : x \in S}
<1>1. T \in SUBSET Nat /\ T # {}
  <2>1. \A x \in S : x \in Nat /\ x <= m
    OBVIOUS
  <2>2. \A x \in S : m - x \in Nat
    BY <2>1
  <2> QED
    BY <2>2
<1>2. PICK t \in T : \A u \in T : t <= u
  <2> HIDE DEF T
  <2> QED
    BY <1>1, LeastOf
<1>3. PICK x \in S : t = m - x
  BY <1>2
<1>4. \A y \in S : m - y \in T
  OBVIOUS
<1>5. \A y \in S : m - x <= m - y
  BY <1>2, <1>3, <1>4
<1> QED
  BY <1>3, <1>5

Below(R, S, x) == {y \in S : <<y, x>> \in R}

\* A strict total order gives each element of a finite set a place of its own.
LEMMA RankInOrder ==
    ASSUME NEW S, IsFiniteSet(S), NEW R,
           \A x \in S : <<x, x>> \notin R,
           \A x, y \in S : x # y => <<x, y>> \in R \/ <<y, x>> \in R,
           \A x, y, z \in S : <<x, y>> \in R /\ <<y, z>> \in R => <<x, z>> \in R
    PROVE  /\ \A x \in S : Cardinality(Below(R, S, x)) \in 0 .. Cardinality(S) - 1
           /\ \A x, y \in S : <<x, y>> \in R <=> Cardinality(Below(R, S, x)) < Cardinality(Below(R, S, y))
           /\ \A k \in 0 .. Cardinality(S) - 1 : \E x \in S : Cardinality(Below(R, S, x)) = k
<1> DEFINE N == Cardinality(S)
           K(x) == Cardinality(Below(R, S, x))
<1>1. N \in Nat
  BY FS_CardinalityType
<1>2. ASSUME NEW x \in S PROVE IsFiniteSet(Below(R, S, x)) /\ K(x) \in Nat /\ K(x) < N
  <2>1. Below(R, S, x) \in SUBSET S /\ Below(R, S, x) # S
    BY DEF Below
  <2>2. IsFiniteSet(Below(R, S, x)) /\ K(x) <= N /\ K(x) # N
    BY <2>1, FS_Subset
  <2>3. K(x) \in Nat
    BY <2>2, FS_CardinalityType
  <2> HIDE DEF K, N
  <2> QED
    BY <1>1, <2>2, <2>3
<1>3. ASSUME NEW x \in S, NEW y \in S, <<x, y>> \in R PROVE K(x) < K(y)
  <2>1. Below(R, S, x) \in SUBSET Below(R, S, y) /\ Below(R, S, x) # Below(R, S, y)
    BY <1>3 DEF Below
  <2>2. K(x) <= K(y) /\ K(x) # K(y)
    BY <1>2, <2>1, FS_Subset
  <2>3. K(x) \in Nat /\ K(y) \in Nat
    BY <1>2
  <2> HIDE DEF K
  <2> QED
    BY <2>2, <2>3
<1>4. ASSUME NEW x \in S, NEW y \in S
      PROVE  /\ <<x, y>> \in R <=> K(x) < K(y)
             /\ K(x) = K(y) => x = y
  <2>1. K(x) \in Nat /\ K(y) \in Nat
    BY <1>2
  <2>2. /\ <<x, y>> \in R => K(x) < K(y)
        /\ <<y, x>> \in R => K(y) < K(x)
        /\ x = y => K(x) = K(y)
        /\ x = y \/ <<x, y>> \in R \/ <<y, x>> \in R
    BY <1>3
  <2> HIDE DEF K
  <2> QED
    BY ONLY <2>1, <2>2
<1>6. \A k \in 0 .. N - 1 : \E x \in S : K(x) = k
  <2> DEFINE T == 0 .. N - 1
             f == [x \in S |-> K(x)]
  <2>1. f \in [S -> T]
    <3> HIDE DEF K, N
    <3> QED
      BY <1>1, <1>2
  <2>2. f \in Injection(S, T)
    <3>1. \A x, y \in S : f[x] = f[y] => x = y
      <4> HIDE DEF K
      <4> QED
        BY <1>4
    <3> HIDE DEF f
    <3> QED
      BY <2>1, <3>1 DEF Injection, IsInjective
  <2>3. IsFiniteSet(T) /\ Cardinality(T) = N
    <3>1. 0 \in Int /\ N - 1 \in Int
      BY <1>1
    <3>2. IsFiniteSet(T) /\ Cardinality(T) = IF 0 > N - 1 THEN 0 ELSE (N - 1) - 0 + 1
      BY <3>1, FS_Interval
    <3> HIDE DEF N
    <3> QED
      BY <1>1, <3>2
  <2>4. f \in Surjection(S, T)
    <3> HIDE DEF f, T
    <3> QED
      BY <2>2, <2>3, FS_Injection
  <2>5. \A k \in T : \E x \in S : f[x] = k
    <3> HIDE DEF f, T
    <3> QED
      BY <2>4 DEF Surjection
  <2> HIDE DEF K, N
  <2> QED
    BY <2>5
<1>7. \A x \in S : K(x) \in 0 .. N - 1
  <2> HIDE DEF K, N
  <2> QED
    BY <1>1, <1>2
<1> QED
  BY <1>4, <1>6, <1>7

-----------------------------------------------------------------------------
\* Fusion of rankings that have each chunk once

Ranked(rankings) == \A i \in DOMAIN rankings : DistinctIds(rankings[i])

\* An id has one place in each list it is in.
LEMMA PlacesIn ==
    ASSUME NEW C, NEW rankings \in Seq(Seq(C)), Ranked(rankings), NEW id
    PROVE  /\ IsFiniteSet(Places(rankings, id))
           /\ \A i \in DOMAIN rankings : \A n \in DOMAIN rankings[i] :
                  <<i, n>> \in Places(rankings, id) <=> rankings[i][n].id = id
           /\ \A p \in Places(rankings, id) :
                  /\ p = <<p[1], p[2]>>
                  /\ p[1] \in DOMAIN rankings /\ p[2] \in DOMAIN rankings[p[1]]
                  /\ p[1] \in Nat /\ p[1] <= Len(rankings) /\ p[2] \in Nat \ {0}
                  /\ rankings[p[1]][p[2]].id = id
                  /\ \A q \in Places(rankings, id) : p[1] = q[1] => p = q
           /\ id \in Ids(rankings) <=> Places(rankings, id) # {}
<1> DEFINE W == Places(rankings, id)
<1>1. DOMAIN rankings = 1 .. Len(rankings) /\ Len(rankings) \in Nat
  OBVIOUS
<1>2. \A i \in DOMAIN rankings : rankings[i] \in Seq(C)
  OBVIOUS
<1>3. \A i \in DOMAIN rankings : DOMAIN rankings[i] = 1 .. Len(rankings[i]) /\ Len(rankings[i]) \in Nat
  BY <1>2
<1>4. \A p : p \in W <=> \E i \in DOMAIN rankings : \E n \in DOMAIN rankings[i] :
                             p = <<i, n>> /\ rankings[i][n].id = id
  BY DEF Places
<1>5. \A i \in DOMAIN rankings : \A n \in DOMAIN rankings[i] : <<i, n>> \in W <=> rankings[i][n].id = id
  BY <1>4
<1>6. ASSUME NEW p \in W
      PROVE  /\ p = <<p[1], p[2]>>
             /\ p[1] \in DOMAIN rankings /\ p[2] \in DOMAIN rankings[p[1]]
             /\ p[1] \in Nat /\ p[1] <= Len(rankings) /\ p[2] \in Nat \ {0}
             /\ rankings[p[1]][p[2]].id = id
  <2>1. PICK i \in DOMAIN rankings : \E n \in DOMAIN rankings[i] : p = <<i, n>> /\ rankings[i][n].id = id
    BY <1>4
  <2>2. PICK n \in DOMAIN rankings[i] : p = <<i, n>> /\ rankings[i][n].id = id
    BY <2>1
  <2>3. p[1] = i /\ p[2] = n
    BY <2>2
  <2>4. i \in 1 .. Len(rankings) /\ n \in 1 .. Len(rankings[i])
    BY <1>1, <1>3
  <2> QED
    BY <1>1, <1>3, <2>2, <2>3, <2>4
<1> HIDE DEF W
<1>7. ASSUME NEW p \in W, NEW q \in W, p[1] = q[1] PROVE p = q
  <2>1. /\ p[1] \in DOMAIN rankings /\ p[2] \in DOMAIN rankings[p[1]] /\ rankings[p[1]][p[2]].id = id
        /\ q[2] \in DOMAIN rankings[p[1]] /\ rankings[p[1]][q[2]].id = id
    BY <1>6, <1>7
  <2>2. DistinctIds(rankings[p[1]])
    BY <2>1 DEF Ranked
  <2>3. p[2] = q[2]
    BY <2>1, <2>2 DEF DistinctIds
  <2> QED
    BY <1>6, <1>7, <2>3
<1>8. IsFiniteSet(W)
  <2> DEFINE f == [p \in W |-> p[1]]
  <2>1. f \in Injection(W, 1 .. Len(rankings))
    BY <1>1, <1>6, <1>7 DEF Injection, IsInjective
  <2>2. 1 \in Int /\ Len(rankings) \in Int
    BY <1>1
  <2>3. IsFiniteSet(1 .. Len(rankings))
    BY <2>2, FS_Interval
  <2> QED
    BY <2>1, <2>3, FS_Injection
<1>9. id \in Ids(rankings) <=> W # {}
  <2>1. id \in Ids(rankings) <=>
            \E i \in DOMAIN rankings : \E n \in DOMAIN rankings[i] : rankings[i][n].id = id
    BY DEF Ids, IdsOf
  <2>2. ASSUME id \in Ids(rankings) PROVE W # {}
    BY <1>5, <2>1, <2>2
  <2>3. ASSUME NEW p \in W PROVE id \in Ids(rankings)
    <3>1. /\ p[1] \in DOMAIN rankings /\ p[2] \in DOMAIN rankings[p[1]]
          /\ rankings[p[1]][p[2]].id = id
      BY <1>6
    <3> QED
      BY <2>1, <3>1
  <2> QED
    BY <2>2, <2>3
<1> QED
  BY <1>5, <1>6, <1>7, <1>8, <1>9 DEF W

LEMMA IdsFinite ==
    ASSUME NEW C, NEW rankings \in Seq(Seq(C))
    PROVE  IsFiniteSet(Ids(rankings))
<1> DEFINE f == [i \in 1 .. Len(rankings) |-> IdsOf(rankings[i])]
<1>1. DOMAIN rankings = 1 .. Len(rankings) /\ Len(rankings) \in Nat
  OBVIOUS
<1>2. ASSUME NEW i \in 1 .. Len(rankings) PROVE IsFiniteSet(f[i])
  <2> DEFINE list == rankings[i]
             g == [n \in 1 .. Len(list) |-> list[n].id]
  <2>1. list \in Seq(C)
    BY <1>1
  <2>2. DOMAIN list = 1 .. Len(list) /\ Len(list) \in Nat
    BY <2>1
  <2>3. 1 \in Int /\ Len(list) \in Int
    BY <2>2
  <2>4. IsFiniteSet(1 .. Len(list))
    BY <2>3, FS_Interval
  <2>5. g \in Surjection(1 .. Len(list), IdsOf(list))
    BY <2>2 DEF Surjection, IdsOf
  <2>6. IsFiniteSet(IdsOf(list))
    <3> HIDE DEF g, list
    <3> QED
      BY <2>4, <2>5, FS_Surjection
  <2> QED
    BY <2>6
<1>3. Ids(rankings) = UNION {f[i] : i \in 1 .. Len(rankings)}
  BY <1>1 DEF Ids
<1> HIDE DEF f
<1> QED
  BY <1>1, <1>2, <1>3, FiniteUnion

\* An id's score is the sum of the weights of its places.
LEMMA ScoreIsSum ==
    ASSUME NEW C, NEW rankings \in Seq(Seq(C)), Ranked(rankings), NEW id
    PROVE  /\ \E g : IsSum(g, Places(rankings, id)) /\ Score(rankings, id) = g[Places(rankings, id)]
           /\ Score(rankings, id) \in Fraction
<1>1. PICK g : /\ g = FoldOver(SUBSET Places(rankings, id), g)
               /\ Score(rankings, id) = g[Places(rankings, id)]
  BY PlacesIn, ScoreFold
<1>2. IsSum(g, Places(rankings, id))
  <2>1. \A p \in Places(rankings, id) : p[2] \in Nat \ {0}
    BY PlacesIn
  <2>2. IsFiniteSet(Places(rankings, id))
    BY PlacesIn
  <2> QED
    BY <1>1, <2>1, <2>2, FoldIsSum
<1>3. Score(rankings, id) \in Fraction
  BY <1>1, <1>2 DEF IsSum
<1> QED
  BY <1>1, <1>2, <1>3

\* chunks_by_id has a chunk with that id.
LEMMA ChunkByIdIs ==
    ASSUME NEW C, NEW rankings \in Seq(Seq(C)), Ranked(rankings), NEW id \in Ids(rankings)
    PROVE  ChunkById(rankings, id) \in C /\ ChunkById(rankings, id).id = id
<1> DEFINE W == Places(rankings, id)
           S == {p[1] : p \in W}
           Latest(p) == \A o \in W : o[1] <= p[1]
<1>1. S \in SUBSET Nat /\ S # {} /\ Len(rankings) \in Nat /\ \A x \in S : x <= Len(rankings)
  BY PlacesIn
<1>2. PICK x \in S : \A y \in S : y <= x
  <2> HIDE DEF S
  <2> QED
    BY <1>1, GreatestOf
<1>3. PICK p \in W : x = p[1]
  BY <1>2
<1>4. Latest(p)
  BY <1>2, <1>3
<1> DEFINE last == CHOOSE q \in W : Latest(q)
<1>5. last \in W
  <2> HIDE DEF W, Latest
  <2> QED
    BY <1>4
<1>6. ChunkById(rankings, id) = rankings[last[1]][last[2]]
  BY DEF ChunkById
<1> HIDE DEF last
<1>7. /\ last[1] \in DOMAIN rankings /\ last[2] \in DOMAIN rankings[last[1]]
      /\ rankings[last[1]][last[2]].id = id
  BY <1>5, PlacesIn
<1>8. rankings[last[1]] \in Seq(C)
  BY <1>7
<1>9. rankings[last[1]][last[2]] \in C
  BY <1>7, <1>8
<1> QED
  BY <1>6, <1>7, <1>9

\* The first place of an id, where it enters the dictionary.
Enters(rankings, id) ==
    CHOOSE p \in Places(rankings, id) : \A o \in Places(rankings, id) :
        p[1] < o[1] \/ (p[1] = o[1] /\ p[2] <= o[2])

LEMMA EntersIs ==
    ASSUME NEW C, NEW rankings \in Seq(Seq(C)), Ranked(rankings), NEW id \in Ids(rankings)
    PROVE  Enters(rankings, id) \in Places(rankings, id)
<1> DEFINE W == Places(rankings, id)
           S == {p[1] : p \in W}
           Least(p) == \A o \in W : p[1] < o[1] \/ (p[1] = o[1] /\ p[2] <= o[2])
<1>1. S \in SUBSET Nat /\ S # {}
  BY PlacesIn
<1>2. PICK x \in S : \A y \in S : x <= y
  <2> HIDE DEF S
  <2> QED
    BY <1>1, LeastOf
<1>3. PICK p \in W : x = p[1]
  BY <1>2
<1>4. Least(p)
  <2> SUFFICES ASSUME NEW o \in W PROVE p[1] < o[1] \/ (p[1] = o[1] /\ p[2] <= o[2])
    OBVIOUS
  <2>1. p[1] <= o[1] /\ p[1] \in Nat /\ o[1] \in Nat /\ p[2] \in Nat
    BY <1>2, <1>3, PlacesIn
  <2>2. p[1] = o[1] => p = o
    BY PlacesIn
  <2>3. p[1] = o[1] => p[2] <= o[2]
    BY <2>1, <2>2
  <2> QED
    BY ONLY <2>1, <2>3
<1>5. Enters(rankings, id) = CHOOSE q \in W : Least(q)
  BY DEF Enters
<1> HIDE DEF W, Least
<1>6. Enters(rankings, id) \in W
  BY <1>4, <1>5
<1> QED
  BY <1>6 DEF W

\* The order of the fused list, without the LET.
Earlier(rankings, x, y) ==
    \/ Greater(Score(rankings, x), Score(rankings, y))
    \/ ~ Greater(Score(rankings, y), Score(rankings, x)) /\ EntersBefore(rankings, x, y)

LEMMA FractionOrder ==
    ASSUME NEW x \in Fraction, NEW y \in Fraction, NEW z \in Fraction
    PROVE  /\ ~ Greater(x, x)
           /\ ~ (Greater(x, y) /\ Greater(y, x))
           /\ ~ Greater(y, x) /\ ~ Greater(z, y) => ~ Greater(z, x)
<1> DEFINE a == x[1]
           b == x[2]
           c == y[1]
           d == y[2]
           e == z[1]
           f == z[2]
<1>1. a \in Nat /\ b \in Nat /\ c \in Nat /\ d \in Nat /\ e \in Nat /\ f \in Nat /\ b # 0 /\ d # 0 /\ f # 0
  BY DEF Fraction
<1>2. /\ Greater(x, x) <=> a * b > a * b
      /\ Greater(x, y) <=> a * d > c * b
      /\ Greater(y, x) <=> c * b > a * d
      /\ Greater(z, y) <=> e * d > c * f
      /\ Greater(z, x) <=> e * b > a * f
  BY DEF Greater
<1> HIDE DEF a, b, c, d, e, f
<1>3. ASSUME NEW p \in Nat, NEW q \in Nat, NEW k \in Nat, p <= q PROVE p * k <= q * k
  <2>1. PICK r \in Nat : q = p + r
    <3>1. q - p \in Nat /\ q = p + (q - p)
      BY <1>3
    <3> QED
      BY <3>1
  <2>2. (p + r) * k = p * k + r * k /\ r * k \in Nat /\ p * k \in Nat
    OBVIOUS
  <2> QED
    BY <2>1, <2>2
<1>4. ASSUME c * b <= a * d, e * d <= c * f PROVE e * b <= a * f
  <2>1. (c * b) * f <= (a * d) * f
    <3>1. c * b \in Nat /\ a * d \in Nat
      BY ONLY <1>1
    <3> QED
      BY <1>1, <1>3, <1>4, <3>1
  <2>2. (e * d) * b <= (c * f) * b
    <3>1. e * d \in Nat /\ c * f \in Nat
      BY ONLY <1>1
    <3> QED
      BY <1>1, <1>3, <1>4, <3>1
  <2>3. /\ (c * b) * f = (c * f) * b
        /\ (a * d) * f = (a * f) * d
        /\ (e * d) * b = (e * b) * d
    BY ONLY <1>1
  <2>4. /\ (c * b) * f \in Nat /\ (a * d) * f \in Nat /\ (e * d) * b \in Nat
        /\ e * b \in Nat /\ a * f \in Nat
    BY ONLY <1>1
  <2>5. (e * b) * d <= (a * f) * d
    BY ONLY <2>1, <2>2, <2>3, <2>4
  <2>6. ASSUME a * f + 1 <= e * b PROVE FALSE
    <3>1. a * f + 1 \in Nat
      BY ONLY <2>4
    <3>2. (a * f + 1) * d <= (e * b) * d
      BY <1>1, <1>3, <2>4, <2>6, <3>1
    <3>3. (a * f + 1) * d = (a * f) * d + d /\ (a * f) * d \in Nat /\ (e * b) * d \in Nat
      BY ONLY <1>1, <2>4
    <3> QED
      BY ONLY <1>1, <2>5, <3>2, <3>3
  <2> QED
    BY ONLY <2>4, <2>6
<1>5. a * b \in Nat /\ a * d \in Nat /\ c * b \in Nat /\ e * d \in Nat /\ c * f \in Nat /\ e * b \in Nat /\ a * f \in Nat
  BY ONLY <1>1
<1> QED
  BY <1>2, <1>4, <1>5

\* Scores, and the order of entry for equal ones, leave no tie.
LEMMA EarlierOrders ==
    ASSUME NEW C, NEW rankings \in Seq(Seq(C)), Ranked(rankings)
    PROVE  /\ \A x \in Ids(rankings) : ~ Earlier(rankings, x, x)
           /\ \A x, y \in Ids(rankings) : x # y => Earlier(rankings, x, y) \/ Earlier(rankings, y, x)
           /\ \A x, y, z \in Ids(rankings) :
                  Earlier(rankings, x, y) /\ Earlier(rankings, y, z) => Earlier(rankings, x, z)
<1> DEFINE S(x) == Score(rankings, x)
           E(x) == Enters(rankings, x)
           B(x, y) == EntersBefore(rankings, x, y)
           G(x, y) == Greater(S(x), S(y))
<1>1. ASSUME NEW x \in Ids(rankings)
      PROVE  /\ S(x) \in Fraction
             /\ E(x)[1] \in Nat /\ E(x)[2] \in Nat
             /\ rankings[E(x)[1]][E(x)[2]].id = x
  <2>1. E(x) \in Places(rankings, x)
    BY EntersIs
  <2>2. S(x) \in Fraction
    BY ScoreIsSum
  <2> QED
    BY <2>1, <2>2, PlacesIn
<1>2. \A x, y : B(x, y) <=> E(x)[1] < E(y)[1] \/ (E(x)[1] = E(y)[1] /\ E(x)[2] < E(y)[2])
  BY DEF EntersBefore, Enters
<1> HIDE DEF E
<1>3. ASSUME NEW x \in Ids(rankings), NEW y \in Ids(rankings), NEW z \in Ids(rankings)
      PROVE  /\ ~ B(x, x)
             /\ x # y => B(x, y) \/ B(y, x)
             /\ B(x, y) /\ B(y, z) => B(x, z)
  <2>1. x # y => E(x)[1] # E(y)[1] \/ E(x)[2] # E(y)[2]
    BY <1>1
  <2>2. /\ E(x)[1] \in Nat /\ E(x)[2] \in Nat
        /\ E(y)[1] \in Nat /\ E(y)[2] \in Nat
        /\ E(z)[1] \in Nat /\ E(z)[2] \in Nat
    BY <1>1
  <2> HIDE DEF B
  <2>3. ~ B(x, x)
    BY <1>2, <2>2
  <2>4. x # y => B(x, y) \/ B(y, x)
    <3>1. /\ B(x, y) <=> E(x)[1] < E(y)[1] \/ (E(x)[1] = E(y)[1] /\ E(x)[2] < E(y)[2])
          /\ B(y, x) <=> E(y)[1] < E(x)[1] \/ (E(y)[1] = E(x)[1] /\ E(y)[2] < E(x)[2])
      BY <1>2
    <3> QED
      BY ONLY <2>1, <2>2, <3>1
  <2>5. B(x, y) /\ B(y, z) => B(x, z)
    <3>1. /\ B(x, y) <=> E(x)[1] < E(y)[1] \/ (E(x)[1] = E(y)[1] /\ E(x)[2] < E(y)[2])
          /\ B(y, z) <=> E(y)[1] < E(z)[1] \/ (E(y)[1] = E(z)[1] /\ E(y)[2] < E(z)[2])
          /\ B(x, z) <=> E(x)[1] < E(z)[1] \/ (E(x)[1] = E(z)[1] /\ E(x)[2] < E(z)[2])
      BY <1>2
    <3> QED
      BY ONLY <2>2, <3>1
  <2> QED
    BY <2>3, <2>4, <2>5
<1>4. \A x, y : Earlier(rankings, x, y) <=> G(x, y) \/ (~ G(y, x) /\ B(x, y))
  BY DEF Earlier
<1>5. ASSUME NEW x \in Ids(rankings), NEW y \in Ids(rankings), NEW z \in Ids(rankings)
      PROVE  /\ ~ G(x, x) /\ ~ (G(x, y) /\ G(y, x))
             /\ ~ G(y, x) /\ ~ G(z, y) => ~ G(z, x)
  <2>1. S(x) \in Fraction /\ S(y) \in Fraction /\ S(z) \in Fraction
    BY <1>1
  <2> HIDE DEF S
  <2> QED
    BY <2>1, FractionOrder
<1> HIDE DEF G, B
<1>6. ASSUME NEW x \in Ids(rankings) PROVE ~ Earlier(rankings, x, x)
  BY <1>3, <1>4, <1>5
<1>7. ASSUME NEW x \in Ids(rankings), NEW y \in Ids(rankings), x # y
      PROVE  Earlier(rankings, x, y) \/ Earlier(rankings, y, x)
  BY <1>3, <1>4, <1>7
<1>8. ASSUME NEW x \in Ids(rankings), NEW y \in Ids(rankings), NEW z \in Ids(rankings),
             Earlier(rankings, x, y), Earlier(rankings, y, z)
      PROVE  Earlier(rankings, x, z)
  <2>1. ~ G(y, x) /\ ~ G(z, y)
    BY <1>4, <1>5, <1>8
  <2>2. ~ G(z, x)
    BY <1>5, <2>1
  <2>3. CASE ~ G(x, z)
    <3>1. ~ G(x, y) /\ ~ G(y, z)
      BY <1>5, <2>1, <2>3
    <3>2. B(x, y) /\ B(y, z)
      BY <1>4, <1>8, <3>1
    <3> QED
      BY <1>3, <1>4, <2>2, <3>2
  <2> QED
    BY <1>4, <2>3
<1> QED
  BY <1>6, <1>7, <1>8

\* The fused list: the ids in their order, each once.
FusedBy(rankings, e) ==
    LET N == Cardinality(Ids(rankings))
    IN  /\ N \in Nat
        /\ \A n \in 1 .. N : e[n] \in Ids(rankings)
        /\ \A id \in Ids(rankings) : \E n \in 1 .. N : e[n] = id
        /\ \A m, n \in 1 .. N : m < n <=> Earlier(rankings, e[m], e[n])
        /\ Fuse(rankings) = [n \in 1 .. N |-> ChunkById(rankings, e[n])]

LEMMA FuseIs ==
    ASSUME NEW C, NEW rankings \in Seq(Seq(C)), Ranked(rankings)
    PROVE  \E e : FusedBy(rankings, e)
<1> DEFINE ids == Ids(rankings)
           N == Cardinality(ids)
           score == [id \in ids |-> Score(rankings, id)]
           Before(x, y) ==
               \/ Greater(score[x], score[y])
               \/ ~ Greater(score[y], score[x]) /\ EntersBefore(rankings, x, y)
           e == [n \in 1 .. N |->
                    CHOOSE id \in ids : Cardinality({x \in ids : x # id /\ Before(x, id)}) = n - 1]
           R == {p \in ids \X ids : Earlier(rankings, p[1], p[2])}
<1>1. Fuse(rankings) = [n \in 1 .. N |-> ChunkById(rankings, e[n])]
  BY DEF Fuse
<1>2. IsFiniteSet(ids) /\ N \in Nat
  BY IdsFinite, FS_CardinalityType
<1>3. /\ \A x \in ids : ~ Earlier(rankings, x, x)
      /\ \A x, y \in ids : x # y => Earlier(rankings, x, y) \/ Earlier(rankings, y, x)
      /\ \A x, y, z \in ids : Earlier(rankings, x, y) /\ Earlier(rankings, y, z) => Earlier(rankings, x, z)
  BY EarlierOrders
<1>4. ASSUME NEW id \in ids PROVE {x \in ids : x # id /\ Before(x, id)} = Below(R, ids, id)
  <2>1. \A x \in ids : Before(x, id) <=> Earlier(rankings, x, id)
    BY DEF Earlier
  <2>2. \A x \in ids : <<x, id>> \in R <=> Earlier(rankings, x, id)
    OBVIOUS
  <2> HIDE DEF Before, R, ids
  <2> QED
    BY <1>3, <2>1, <2>2 DEF Below
<1>5. \A x, y \in ids : <<x, y>> \in R <=> Earlier(rankings, x, y)
  OBVIOUS
<1> HIDE DEF R, ids, Before
<1>6. /\ \A x, y \in ids : <<x, y>> \in R <=> Cardinality(Below(R, ids, x)) < Cardinality(Below(R, ids, y))
      /\ \A k \in 0 .. N - 1 : \E x \in ids : Cardinality(Below(R, ids, x)) = k
      /\ \A x \in ids : Cardinality(Below(R, ids, x)) \in 0 .. N - 1
  <2>1. /\ \A x \in ids : <<x, x>> \notin R
        /\ \A x, y \in ids : x # y => <<x, y>> \in R \/ <<y, x>> \in R
        /\ \A x, y, z \in ids : <<x, y>> \in R /\ <<y, z>> \in R => <<x, z>> \in R
    BY <1>3, <1>5
  <2> QED
    BY <1>2, <2>1, RankInOrder
<1>7. ASSUME NEW n \in 1 .. N
      PROVE  e[n] \in ids /\ Cardinality(Below(R, ids, e[n])) = n - 1
  <2>1. n - 1 \in 0 .. N - 1
    BY <1>2
  <2>2. PICK x \in ids : Cardinality(Below(R, ids, x)) = n - 1
    BY <1>6, <2>1
  <2>3. Cardinality({y \in ids : y # x /\ Before(y, x)}) = n - 1
    BY <1>4, <2>2
  <2>4. e[n] \in ids /\ Cardinality({y \in ids : y # e[n] /\ Before(y, e[n])}) = n - 1
    BY <2>3
  <2> HIDE DEF e
  <2> QED
    BY <1>4, <2>4
<1> HIDE DEF e
<1>8. ASSUME NEW m \in 1 .. N, NEW n \in 1 .. N PROVE m < n <=> Earlier(rankings, e[m], e[n])
  <2>1. Earlier(rankings, e[m], e[n]) <=> m - 1 < n - 1
    BY <1>5, <1>6, <1>7
  <2> QED
    BY <2>1
<1>9. ASSUME NEW id \in ids PROVE \E n \in 1 .. N : e[n] = id
  <2> DEFINE k == Cardinality(Below(R, ids, id))
  <2>1. k \in 0 .. N - 1
    BY <1>6
  <2>2. k + 1 \in 1 .. N /\ (k + 1) - 1 = k
    BY <1>2, <2>1
  <2>3. e[k + 1] \in ids /\ Cardinality(Below(R, ids, e[k + 1])) = k
    <3> HIDE DEF k
    <3> QED
      BY <1>7, <2>2
  <2>4. ~ Earlier(rankings, e[k + 1], id) /\ ~ Earlier(rankings, id, e[k + 1])
    <3> DEFINE x == e[k + 1]
    <3>1. x \in ids /\ Cardinality(Below(R, ids, x)) = Cardinality(Below(R, ids, id))
      BY <2>3
    <3>2. Cardinality(Below(R, ids, id)) \in Nat
      BY <2>1
    <3> HIDE DEF x, k
    <3>3. <<x, id>> \notin R /\ <<id, x>> \notin R
      BY <1>6, <3>1, <3>2
    <3>4. ~ Earlier(rankings, x, id) /\ ~ Earlier(rankings, id, x)
      BY <1>5, <3>1, <3>3
    <3> QED
      BY <3>4 DEF x
  <2>5. e[k + 1] = id
    BY <1>3, <2>3, <2>4
  <2> QED
    BY <2>2, <2>5
<1> QED
  BY <1>1, <1>2, <1>7, <1>8, <1>9 DEF FusedBy, ids

\* The fused list has each chunk once.
LEMMA FuseKeeps ==
    ASSUME NEW C, NEW rankings \in Seq(Seq(C)), Ranked(rankings)
    PROVE  /\ Fuse(rankings) \in Seq(C) /\ DistinctIds(Fuse(rankings))
           /\ IdsOf(Fuse(rankings)) = Ids(rankings) /\ Len(Fuse(rankings)) = Cardinality(Ids(rankings))
<1> DEFINE N == Cardinality(Ids(rankings))
<1>1. PICK e : FusedBy(rankings, e)
  BY FuseIs
<1>2. N \in Nat /\ Fuse(rankings) = [n \in 1 .. N |-> ChunkById(rankings, e[n])]
  BY <1>1 DEF FusedBy
<1>3. ASSUME NEW n \in 1 .. N
      PROVE  Fuse(rankings)[n] \in C /\ Fuse(rankings)[n].id = e[n] /\ e[n] \in Ids(rankings)
  <2>1. e[n] \in Ids(rankings)
    BY <1>1 DEF FusedBy
  <2> QED
    BY <1>2, <2>1, ChunkByIdIs
<1>4. \A m, n \in 1 .. N : e[m] = e[n] => m = n
  <2> SUFFICES ASSUME NEW m \in 1 .. N, NEW n \in 1 .. N, e[m] = e[n] PROVE m = n
    OBVIOUS
  <2>1. ~ Earlier(rankings, e[m], e[n]) /\ ~ Earlier(rankings, e[n], e[m])
    BY <1>3, EarlierOrders
  <2>2. ~ (m < n) /\ ~ (n < m)
    BY <1>1, <2>1 DEF FusedBy
  <2>3. m \in Nat /\ n \in Nat
    OBVIOUS
  <2> QED
    BY ONLY <2>2, <2>3
<1>5. DOMAIN Fuse(rankings) = 1 .. N
  BY <1>2
<1>6. Fuse(rankings) \in Seq(C) /\ Len(Fuse(rankings)) = N
  <2> DEFINE f == [n \in 1 .. N |-> ChunkById(rankings, e[n])]
  <2>1. \A n \in 1 .. N : f[n] \in C
    BY <1>2, <1>3
  <2> HIDE DEF N
  <2>2. f \in Seq(C) /\ Len(f) = N
    BY <1>2, <2>1
  <2> QED
    BY <1>2, <2>2
<1>7. DistinctIds(Fuse(rankings))
  BY <1>3, <1>4, <1>5 DEF DistinctIds
<1>8. IdsOf(Fuse(rankings)) = Ids(rankings)
  <2>1. \A id \in Ids(rankings) : \E n \in 1 .. N : Fuse(rankings)[n].id = id
    <3> TAKE id \in Ids(rankings)
    <3>1. PICK n \in 1 .. N : e[n] = id
      BY <1>1 DEF FusedBy
    <3> QED
      BY <1>3, <3>1
  <2> HIDE DEF N
  <2> QED
    BY <1>3, <1>5, <2>1 DEF IdsOf
<1> QED
  BY <1>6, <1>7, <1>8

-----------------------------------------------------------------------------
\* An id that is above another one in every list has the greater score

LEMMA SumsCompare ==
    ASSUME NEW x \in Fraction, NEW y \in Fraction, NEW u \in Fraction, NEW v \in Fraction
    PROVE  /\ Greater(x, u) /\ ~ Greater(v, y) => Greater(Plus(x, y), Plus(u, v))
           /\ ~ Greater(y, Plus(x, y))
<1> DEFINE a == x[1]
           b == x[2]
           c == y[1]
           d == y[2]
           e == u[1]
           f == u[2]
           g == v[1]
           h == v[2]
<1>1. /\ a \in Nat /\ b \in Nat \ {0} /\ c \in Nat /\ d \in Nat \ {0}
      /\ e \in Nat /\ f \in Nat \ {0} /\ g \in Nat /\ h \in Nat \ {0}
  BY DEF Fraction
<1>2. /\ Greater(x, u) <=> a * f > e * b
      /\ Greater(v, y) <=> g * d > c * h
      /\ Greater(Plus(x, y), Plus(u, v)) <=> (a * d + c * b) * (f * h) > (e * h + g * f) * (b * d)
      /\ Greater(y, Plus(x, y)) <=> c * (b * d) > (a * d + c * b) * d
  BY DEF Greater, Plus
<1> HIDE DEF a, b, c, d, e, f, g, h
<1>3. ASSUME NEW p \in Nat, NEW q \in Nat, NEW k \in Nat
      PROVE  /\ p <= q => p * k <= q * k
             /\ p < q /\ k # 0 => p * k < q * k
  <2>1. ASSUME NEW r \in Nat, q = p + r PROVE q * k = p * k + r * k /\ r * k \in Nat /\ p * k \in Nat
    BY <2>1
  <2>2. ASSUME p <= q PROVE p * k <= q * k
    <3>1. q - p \in Nat /\ q = p + (q - p)
      BY <2>2
    <3>2. q * k = p * k + (q - p) * k /\ (q - p) * k \in Nat /\ p * k \in Nat
      BY <2>1, <3>1
    <3> QED
      BY ONLY <3>2
  <2>3. ASSUME p < q, k # 0 PROVE p * k < q * k
    <3>1. q - p \in Nat /\ q = p + (q - p) /\ q - p # 0
      BY <2>3
    <3>2. q * k = p * k + (q - p) * k /\ (q - p) * k \in Nat /\ p * k \in Nat
      BY <2>1, <3>1
    <3>3. (q - p) * k # 0
      BY <2>3, <3>1
    <3> QED
      BY ONLY <3>2, <3>3
  <2> QED
    BY <2>2, <2>3
<1>4. ASSUME a * f > e * b, g * d <= c * h
      PROVE  (a * d + c * b) * (f * h) > (e * h + g * f) * (b * d)
  <2>1. /\ a * f \in Nat /\ e * b \in Nat /\ g * d \in Nat /\ c * h \in Nat
        /\ d * h \in Nat /\ b * f \in Nat /\ d * h # 0
    BY ONLY <1>1
  <2>2. (e * b) * (d * h) < (a * f) * (d * h)
    <3>1. e * b < a * f
      BY <1>4, <2>1
    <3> QED
      BY <1>3, <2>1, <3>1
  <2>3. (g * d) * (b * f) <= (c * h) * (b * f)
    BY <1>3, <1>4, <2>1
  <2>4. /\ (a * d + c * b) * (f * h) = (a * f) * (d * h) + (c * h) * (b * f)
        /\ (e * h + g * f) * (b * d) = (e * b) * (d * h) + (g * d) * (b * f)
    BY ONLY <1>1
  <2>5. /\ (e * b) * (d * h) \in Nat /\ (a * f) * (d * h) \in Nat
        /\ (g * d) * (b * f) \in Nat /\ (c * h) * (b * f) \in Nat
    BY ONLY <2>1
  <2> QED
    BY ONLY <2>2, <2>3, <2>4, <2>5
<1>5. c * (b * d) <= (a * d + c * b) * d
  <2>1. (a * d + c * b) * d = (a * d) * d + c * (b * d)
    BY ONLY <1>1
  <2>2. (a * d) * d \in Nat /\ c * (b * d) \in Nat
    BY ONLY <1>1
  <2> QED
    BY ONLY <2>1, <2>2
<1>6. g * d \in Nat /\ c * h \in Nat /\ c * (b * d) \in Nat /\ (a * d + c * b) * d \in Nat
  BY ONLY <1>1
<1>7. (a * f > e * b /\ ~ (g * d > c * h)) => (a * d + c * b) * (f * h) > (e * h + g * f) * (b * d)
  BY <1>4, <1>6
<1>8. ~ (c * (b * d) > (a * d + c * b) * d)
  BY <1>5, <1>6
<1> QED
  BY <1>2, <1>7, <1>8

\* More places never make a smaller sum.
LEMMA SumGrows ==
    ASSUME NEW W, IsFiniteSet(W), \A p \in W : Weight(p) \in Fraction,
           NEW g, IsSum(g, W), NEW U \in SUBSET W
    PROVE  ~ Greater(g[U], g[W])
<1> DEFINE S == {m \in Nat : \A V \in SUBSET W : U \subseteq V /\ Cardinality(V) <= m => ~ Greater(g[U], g[V])}
<1>1. \A V \in SUBSET W : IsFiniteSet(V) /\ Cardinality(V) \in Nat
  BY FS_Subset, FS_CardinalityType
<1>2. \A V \in SUBSET W : g[V] \in Fraction
  BY DEF IsSum
<1>3. ~ Greater(g[U], g[U])
  BY <1>2, FractionOrder
<1>4. 0 \in S
  <2>1. \A V \in SUBSET W : U \subseteq V /\ Cardinality(V) <= 0 => V = U
    BY <1>1, FS_EmptySet
  <2> QED
    BY <1>3, <2>1
<1>5. ASSUME NEW m \in Nat, m \in S PROVE m + 1 \in S
  <2> SUFFICES ASSUME NEW V \in SUBSET W, U \subseteq V, Cardinality(V) <= m + 1, V # U
               PROVE  ~ Greater(g[U], g[V])
    BY <1>3
  <2>1. PICK p \in V : p \notin U
    OBVIOUS
  <2> DEFINE X == V \ {p}
  <2>2. X \in SUBSET W /\ U \subseteq X
    BY <2>1
  <2>3. Cardinality(X) <= m
    <3>1. Cardinality(X) = Cardinality(V) - 1
      BY <1>1, WithoutOne
    <3>2. Cardinality(X) \in Nat /\ Cardinality(V) \in Nat
      BY <1>1, <2>2
    <3> HIDE DEF X
    <3> QED
      BY <3>1, <3>2
  <2>4. ~ Greater(g[U], g[X])
    <3> HIDE DEF X
    <3> QED
      BY <1>5, <2>2, <2>3
  <2>5. g[V] = Plus(Weight(p), g[X])
    BY DEF IsSum
  <2>6. g[U] \in Fraction /\ g[X] \in Fraction /\ g[V] \in Fraction /\ Weight(p) \in Fraction
    BY <1>2, <2>2
  <2> HIDE DEF X
  <2>7. ~ Greater(g[X], g[V])
    BY <2>5, <2>6, SumsCompare
  <2> QED
    BY <2>4, <2>6, <2>7, FractionOrder
<1>6. Nat \subseteq S
  <2> HIDE DEF S
  <2> QED
    BY <1>4, <1>5, Induction
<1>7. Cardinality(W) \in S /\ Cardinality(W) <= Cardinality(W) /\ U \subseteq W
  BY <1>1, <1>6
<1> QED
  BY <1>7

\* Places that are moved up, each within its list, make a greater sum.
LEMMA SumMovedUp ==
    ASSUME NEW Y, IsFiniteSet(Y), \A p \in Y : Weight(p) \in Fraction /\ p[2] \in Nat,
           NEW X, IsFiniteSet(X), \A p \in X : Weight(p) \in Fraction /\ p[2] \in Nat,
           NEW gy, IsSum(gy, Y), NEW gx, IsSum(gx, X),
           NEW up \in [Y -> X],
           \A p \in Y : up[p][2] < p[2],
           \A p, q \in Y : up[p] = up[q] => p = q,
           Y # {}
    PROVE  Greater(gx[X], gy[Y])
<1> DEFINE Up(T) == {up[p] : p \in T}
           Fine(T) == IF T = {} THEN ~ Greater(gy[T], gx[Up(T)]) ELSE Greater(gx[Up(T)], gy[T])
           S == {m \in Nat : \A T \in SUBSET Y : Cardinality(T) <= m => Fine(T)}
<1>1. \A T \in SUBSET Y : IsFiniteSet(T) /\ Cardinality(T) \in Nat
  BY FS_Subset, FS_CardinalityType
<1>2. \A T \in SUBSET Y : gy[T] \in Fraction /\ Up(T) \in SUBSET X
  BY DEF IsSum
<1>3. \A V \in SUBSET X : gx[V] \in Fraction
  BY DEF IsSum
<1>4. Fine({})
  <2>1. Up({}) = {}
    OBVIOUS
  <2>2. gy[{}] = <<0, 1>> /\ gx[{}] = <<0, 1>> /\ gy[{}] \in Fraction
    BY DEF IsSum
  <2>3. ~ Greater(gy[{}], gx[{}])
    BY <2>2, FractionOrder
  <2> QED
    BY <2>1, <2>3
<1>5. 0 \in S
  <2>1. \A T \in SUBSET Y : Cardinality(T) <= 0 => T = {}
    BY <1>1, FS_EmptySet
  <2> HIDE DEF Fine
  <2> QED
    BY <1>4, <2>1
<1>6. ASSUME NEW m \in Nat, m \in S PROVE m + 1 \in S
  <2> SUFFICES ASSUME NEW T \in SUBSET Y, Cardinality(T) <= m + 1, T # {} PROVE Fine(T)
    <3>1. \A T \in SUBSET Y : T = {} => Fine(T)
      BY <1>4
    <3>2. \A T \in SUBSET Y : Cardinality(T) <= m + 1 => Fine(T)
      BY <3>1
    <3> HIDE DEF Fine
    <3> QED
      BY <3>2
  <2>1. PICK q \in T : TRUE
    OBVIOUS
  <2> DEFINE R == T \ {q}
  <2>2. R \in SUBSET Y /\ q \in Y /\ up[q] \in X
    BY <2>1
  <2>3. Cardinality(R) <= m
    <3>1. Cardinality(R) = Cardinality(T) - 1
      BY <1>1, <2>1, WithoutOne
    <3>2. Cardinality(R) \in Nat /\ Cardinality(T) \in Nat
      BY <1>1, <2>2
    <3> HIDE DEF R
    <3> QED
      BY <3>1, <3>2
  <2>4. Fine(R)
    <3> HIDE DEF R, Fine
    <3> QED
      BY <1>6, <2>2, <2>3
  <2>5. Up(T) \ {up[q]} = Up(R) /\ up[q] \in Up(T)
    BY <2>1
  <2>6. gy[T] = Plus(Weight(q), gy[R])
    BY <2>1 DEF IsSum
  <2>7. gx[Up(T)] = Plus(Weight(up[q]), gx[Up(R)])
    <3>1. Up(T) \in SUBSET X
      BY <1>2
    <3> HIDE DEF Up, R
    <3> QED
      BY <2>5, <3>1 DEF IsSum
  <2>8. /\ Weight(q) \in Fraction /\ Weight(up[q]) \in Fraction
        /\ gy[R] \in Fraction /\ gx[Up(R)] \in Fraction
    <3>1. Up(R) \in SUBSET X /\ gy[R] \in Fraction
      BY <1>2, <2>2
    <3> HIDE DEF Up, R
    <3> QED
      BY <1>3, <2>2, <3>1
  <2>9. Greater(Weight(up[q]), Weight(q))
    <3>1. up[q][2] \in Nat /\ q[2] \in Nat /\ up[q][2] < q[2] /\ FusionK \in Nat
      BY <2>2, FusionAssumption
    <3> QED
      BY <3>1 DEF Greater, Weight
  <2>10. ~ Greater(gy[R], gx[Up(R)])
    <3> HIDE DEF Up, R
    <3> QED
      BY <2>4, <2>8, FractionOrder
  <2>11. Greater(gx[Up(T)], gy[T])
    <3> HIDE DEF Up, R
    <3> QED
      BY <2>6, <2>7, <2>8, <2>9, <2>10, SumsCompare
  <2> QED
    BY <2>11
<1>7. Cardinality(Y) \in S /\ Cardinality(Y) <= Cardinality(Y)
  <2>1. Nat \subseteq S
    <3> HIDE DEF S
    <3> QED
      BY <1>5, <1>6, Induction
  <2> QED
    BY <1>1, <2>1
<1>8. Greater(gx[Up(Y)], gy[Y])
  <2>1. Fine(Y)
    <3> HIDE DEF Fine
    <3> QED
      BY <1>7
  <2> QED
    BY <2>1
<1>9. Up(Y) \in SUBSET X
  BY <1>2
<1> HIDE DEF Up
<1>10. ~ Greater(gx[Up(Y)], gx[X])
  BY <1>9, SumGrows
<1>11. gx[Up(Y)] \in Fraction /\ gx[X] \in Fraction /\ gy[Y] \in Fraction
  BY <1>2, <1>3, <1>9
<1> QED
  BY <1>8, <1>10, <1>11, FractionOrder

LEMMA DominatorScores ==
    ASSUME NEW C, NEW rankings \in Seq(Seq(C)), Ranked(rankings),
           NEW x, NEW y \in Ids(rankings), Dominates(rankings, x, y)
    PROVE  Greater(Score(rankings, x), Score(rankings, y))
<1> DEFINE X == Places(rankings, x)
           Y == Places(rankings, y)
           up == [p \in Y |-> <<p[1], Rank(rankings[p[1]], x)>>]
<1>1. PICK gx : IsSum(gx, X) /\ Score(rankings, x) = gx[X]
  BY ScoreIsSum
<1>2. PICK gy : IsSum(gy, Y) /\ Score(rankings, y) = gy[Y]
  BY ScoreIsSum
<1>3. IsFiniteSet(X) /\ IsFiniteSet(Y) /\ Y # {}
  BY PlacesIn
<1>4. ASSUME NEW id, NEW p \in Places(rankings, id) PROVE Weight(p) \in Fraction /\ p[2] \in Nat
  <2>1. p[2] \in Nat \ {0}
    BY PlacesIn
  <2>2. FusionK + p[2] \in Nat \ {0}
    BY <2>1, FusionAssumption
  <2> QED
    BY <2>1, <2>2 DEF Weight, Fraction
<1>5. ASSUME NEW p \in Y PROVE up[p] \in X /\ up[p][2] < p[2] /\ up[p][1] = p[1]
  <2> DEFINE i == p[1]
  <2>1. /\ i \in DOMAIN rankings /\ p[2] \in DOMAIN rankings[i]
        /\ rankings[i][p[2]].id = y
    BY PlacesIn
  <2>2. y \in IdsOf(rankings[i])
    BY <2>1 DEF IdsOf
  <2>3. x \in IdsOf(rankings[i]) /\ Rank(rankings[i], x) < Rank(rankings[i], y)
    BY <2>1, <2>2 DEF Dominates
  <2>4. Rank(rankings[i], x) \in DOMAIN rankings[i] /\ rankings[i][Rank(rankings[i], x)].id = x
    <3>1. \E n \in DOMAIN rankings[i] : rankings[i][n].id = x
      BY <2>3 DEF IdsOf
    <3> QED
      BY <3>1 DEF Rank
  <2>5. Rank(rankings[i], y) = p[2]
    <3>1. Rank(rankings[i], y) \in DOMAIN rankings[i] /\ rankings[i][Rank(rankings[i], y)].id = y
      BY <2>1 DEF Rank
    <3> QED
      BY <2>1, <3>1 DEF Ranked, DistinctIds
  <2>6. <<i, Rank(rankings[i], x)>> \in X
    BY <2>1, <2>4, PlacesIn
  <2> QED
    BY <2>3, <2>5, <2>6
<1>6. up \in [Y -> X]
  <2> HIDE DEF X, Y
  <2> QED
    BY <1>5
<1>7. \A p, q \in Y : up[p] = up[q] => p = q
  <2> SUFFICES ASSUME NEW p \in Y, NEW q \in Y, up[p] = up[q] PROVE p = q
    OBVIOUS
  <2>1. p[1] = q[1]
    <3> HIDE DEF up
    <3> QED
      BY <1>5
  <2> QED
    BY <2>1, PlacesIn
<1>8. /\ \A p \in X : Weight(p) \in Fraction /\ p[2] \in Nat
      /\ \A p \in Y : Weight(p) \in Fraction /\ p[2] \in Nat
  BY <1>4
<1>9. \A p \in Y : up[p][2] < p[2]
  BY <1>5
<1> HIDE DEF X, Y, up
<1>10. Greater(gx[X], gy[Y])
  BY <1>1, <1>2, <1>3, <1>6, <1>7, <1>8, <1>9, SumMovedUp
<1> QED
  BY <1>1, <1>2, <1>10

\* reciprocal_rank_fusion of any number of rankings of any length, for any k:
\* the fused list has each chunk once, and none behind one that every ranking
\* puts below it.
THEOREM RankFusionTheorem ==
    ASSUME NEW C, NEW rankings \in Seq(Seq(C)), Ranked(rankings)
    PROVE  FusedFairly(rankings)
<1>1. PICK e : FusedBy(rankings, e)
  BY FuseIs
<1>2. /\ DOMAIN Fuse(rankings) = 1 .. Cardinality(Ids(rankings))
      /\ \A n \in 1 .. Cardinality(Ids(rankings)) : e[n] \in Ids(rankings) /\ Fuse(rankings)[n].id = e[n]
  <2>1. \A n \in 1 .. Cardinality(Ids(rankings)) :
            e[n] \in Ids(rankings) /\ Fuse(rankings)[n] = ChunkById(rankings, e[n])
    BY <1>1 DEF FusedBy
  <2>2. DOMAIN Fuse(rankings) = 1 .. Cardinality(Ids(rankings))
    BY <1>1 DEF FusedBy
  <2> QED
    BY <2>1, <2>2, ChunkByIdIs
<1>3. ASSUME NEW j \in DOMAIN Fuse(rankings), NEW k \in DOMAIN Fuse(rankings), j < k
      PROVE  ~ Dominates(rankings, Fuse(rankings)[k].id, Fuse(rankings)[j].id)
  <2>1. Earlier(rankings, e[j], e[k])
    BY <1>1, <1>2, <1>3 DEF FusedBy
  <2>2. Score(rankings, e[j]) \in Fraction /\ Score(rankings, e[k]) \in Fraction
    BY ScoreIsSum
  <2>3. ~ Greater(Score(rankings, e[k]), Score(rankings, e[j]))
    BY <2>1, <2>2, FractionOrder DEF Earlier
  <2>4. ~ Dominates(rankings, e[k], e[j])
    BY <1>2, <2>3, DominatorScores
  <2> QED
    BY <1>2, <2>4
<1> QED
  BY <1>3, FuseKeeps DEF FusedFairly

-----------------------------------------------------------------------------
\* What is served, while the index is rewritten

\* The retrievers change nothing of ingest: all that holds of ingest holds when
\* questions are answered meanwhile.
THEOREM SearchIngests == SearchSpec => IngestSpec
<1>1. SearchInit => IngestInit
  BY DEF SearchInit
<1>2. [SearchNext]_searchVars => [IngestNext]_ingestVars
  BY DEF SearchNext, searchVars, Build, Ask, Rewrite, Search, SearchFails, Answer
<1> QED
  BY <1>1, <1>2, PTL DEF SearchSpec, IngestSpec

\* The index has one entry for each id, and finitely many.
EntryInv == IsFiniteSet(index) /\ \A u, v \in index : u.id = v.id => u = v

LEMMA EntryNext == TrueInv /\ CurrentInv /\ EntryInv /\ [IngestNext]_ingestVars => EntryInv'
<1> SUFFICES ASSUME TrueInv, CurrentInv, EntryInv, [IngestNext]_ingestVars PROVE EntryInv'
  OBVIOUS
<1>1. CASE UNCHANGED index
  BY <1>1 DEF EntryInv
<1>2. CASE Upsert
  <2>1. index' = Upserted(Slice) /\ pc = "index"
    BY <1>2 DEF Upsert
  <2>2. head \in Commit /\ results \in Seq(Entries(head))
    BY <2>1 DEF CurrentInv, CarriedInv
  <2>3. DOMAIN results = 1 .. Len(results) /\ Len(results) \in Nat
    BY <2>2
  <2> DEFINE K == {m \in DOMAIN results : pos < m /\ m <= pos + UpsertSize}
             f == [n \in K |-> results[n]]
  <2>4. IsFiniteSet(K)
    <3>1. 1 \in Int /\ Len(results) \in Int /\ K \in SUBSET (1 .. Len(results))
      BY <2>3
    <3> HIDE DEF K
    <3> QED
      BY <3>1, FS_Interval, FS_Subset
  <2>5. f \in Surjection(K, Slice)
    BY DEF Surjection, Slice
  <2>6. IsFiniteSet(Slice)
    <3> HIDE DEF K, f
    <3> QED
      BY <2>4, <2>5, FS_Surjection
  <2> DEFINE Others == {e \in index : \A x \in Slice : x.id # e.id}
  <2>7. IsFiniteSet(Others)
    <3>1. Others \in SUBSET index
      OBVIOUS
    <3> HIDE DEF Others
    <3> QED
      BY <3>1, FS_Subset DEF EntryInv
  <2>8. index' = Others \cup Slice
    BY <2>1 DEF Upserted
  <2>9. IsFiniteSet(index')
    <3> HIDE DEF Others
    <3> QED
      BY <2>6, <2>7, <2>8, FS_Union
  <2>10. \A u, v \in Slice : u.id = v.id => u = v
    <3>1. Slice \subseteq Entries(head)
      BY <2>2, <2>3 DEF Slice
    <3> QED
      BY <2>2, <3>1, OneEntry
  <2>11. \A u, v \in index' : u.id = v.id => u = v
    BY <2>8, <2>10 DEF EntryInv
  <2> QED
    BY <2>9, <2>11 DEF EntryInv
<1>3. IngestNext => Upsert \/ UNCHANGED index
  BY DEF IngestNext, Push, Start, EnsureRepo, Checkout, LoadFails, ReadFile, Chunked, LookUp,
         Gather, Call, Reply, CallFails, Abort, Collect, Collected, Complete, Crash
<1> QED
  BY <1>1, <1>2, <1>3 DEF ingestVars

-----------------------------------------------------------------------------
\* Chunks of which each says what its file said, with one for each id.
Good(S) ==
    /\ S \subseteq TrueChunks /\ IsFiniteSet(S)
    /\ \A x, y \in S : x.id = y.id => x = y

Passages(list, n) == list \in Seq(TrueChunks) /\ DistinctIds(list) /\ Len(list) <= n

LEMMA FirstIs ==
    ASSUME NEW C, NEW list \in Seq(C), DistinctIds(list), NEW n \in Nat
    PROVE  First(n, list) \in Seq(C) /\ DistinctIds(First(n, list)) /\ Len(First(n, list)) <= n
<1> DEFINE m == IF n < Len(list) THEN n ELSE Len(list)
           first == First(n, list)
<1>1. Len(list) \in Nat /\ DOMAIN list = 1 .. Len(list)
  OBVIOUS
<1>2. m \in Nat /\ m <= n /\ m <= Len(list)
  BY <1>1
<1>3. first = SubSeq(list, 1, m)
  BY DEF First
<1> HIDE DEF m
<1>4. /\ SubSeq(list, 1, m) \in Seq(C) /\ Len(SubSeq(list, 1, m)) = m
      /\ \A k \in 1 .. m : SubSeq(list, 1, m)[k] = list[k]
  BY <1>1, <1>2
<1> HIDE DEF first
<1>5. DOMAIN first = 1 .. m /\ \A k \in 1 .. m : first[k] = list[k] /\ k \in DOMAIN list
  BY <1>1, <1>2, <1>3, <1>4
<1>6. DistinctIds(first)
  BY <1>5 DEF DistinctIds
<1>7. first \in Seq(C) /\ Len(first) <= n
  BY <1>2, <1>3, <1>4
<1> QED
  BY <1>6, <1>7 DEF first

LEMMA RankingsGood ==
    ASSUME NEW S, Good(S), NEW n \in Nat, NEW r \in Rankings(S, n)
    PROVE  Passages(r, n)
<1>1. PICK f \in SetToSeqs(S) : r = First(n, f)
  BY DEF Rankings
<1>2. Cardinality(S) \in Nat
  BY FS_CardinalityType DEF Good
<1>3. /\ f \in [1 .. Cardinality(S) -> S]
      /\ \A i, j \in 1 .. Cardinality(S) : i # j => f[i] # f[j]
  BY DEF SetToSeqs
<1>4. f \in Seq(TrueChunks)
  <2>1. f \in Seq(S)
    BY <1>2, <1>3
  <2> QED
    BY <2>1 DEF Good
<1>5. DistinctIds(f)
  BY <1>3 DEF DistinctIds, Good
<1> QED
  BY <1>1, <1>4, <1>5, FirstIs DEF Passages

LEMMA CollectionGood ==
    ASSUME TrueInv, EntryInv
    PROVE  Good(Collection)
<1>1. \A e \in index : AsChunk(e) \in TrueChunks /\ AsChunk(e).id = e.id
  <2> TAKE e \in index
  <2>1. PICK x \in TrueChunks : e = WithVector(x, x.text)
    BY DEF TrueInv, TrueEntries
  <2>2. PICK c \in Commit, d \in File : \E n \in DOMAIN Kept(c, d) : x = FileChunks(c, d, c)[n]
    BY DEF TrueChunks
  <2>3. PICK n \in DOMAIN Kept(c, d) : x = FileChunks(c, d, c)[n]
    BY <2>2
  <2>4. x = [id |-> <<d, n - 1>>, text |-> Kept(c, d)[n], commit |-> c]
    BY <2>3 DEF FileChunks
  <2>5. AsChunk(e) = x /\ e.id = x.id
    BY <2>1, <2>4 DEF AsChunk, WithVector
  <2> QED
    BY <2>5
<1> DEFINE f == [e \in index |-> AsChunk(e)]
<1>2. f \in Surjection(index, Collection)
  BY DEF Surjection, Collection
<1>3. IsFiniteSet(Collection)
  <2> HIDE DEF f
  <2> QED
    BY <1>2, FS_Surjection DEF EntryInv
<1>4. \A x, y \in Collection : x.id = y.id => x = y
  BY <1>1 DEF Collection, EntryInv
<1> QED
  BY <1>1, <1>3, <1>4 DEF Good, Collection

LEMMA HybridGood ==
    ASSUME TrueInv, EntryInv, Good(snapshot), NEW n \in Nat, NEW hits \in HybridHits(n)
    PROVE  Passages(hits, n)
<1>1. n * Candidates \in Nat
  <2>1. Candidates \in Nat
    BY RetrievalAssumption
  <2> QED
    BY <2>1
<1>2. PICK dense \in DenseHits(n * Candidates), bm25 \in Rankings(snapshot, n * Candidates) :
          hits = First(n, Fuse(<<dense, bm25>>))
  BY DEF HybridHits
<1>3. Passages(dense, n * Candidates) /\ Passages(bm25, n * Candidates)
  BY <1>1, <1>2, CollectionGood, RankingsGood DEF DenseHits
<1> DEFINE both == <<dense, bm25>>
<1>4. both \in Seq(Seq(TrueChunks)) /\ Ranked(both)
  <2>1. dense \in Seq(TrueChunks) /\ bm25 \in Seq(TrueChunks)
    BY <1>3 DEF Passages
  <2>2. both \in Seq(Seq(TrueChunks))
    BY <2>1
  <2>3. DOMAIN both = 1 .. 2 /\ both[1] = dense /\ both[2] = bm25
    OBVIOUS
  <2>4. \A i \in 1 .. 2 : i = 1 \/ i = 2
    OBVIOUS
  <2>5. Ranked(both)
    BY <1>3, <2>3, <2>4 DEF Ranked, Passages
  <2> QED
    BY <2>2, <2>5
<1> HIDE DEF both
<1>5. Fuse(both) \in Seq(TrueChunks) /\ DistinctIds(Fuse(both))
  BY <1>4, FuseKeeps
<1> QED
  BY <1>2, <1>5, FirstIs DEF Passages, both

LEMMA FoundGood ==
    ASSUME TrueInv, EntryInv, Good(snapshot), NEW hits \in Found
    PROVE  Passages(hits, TopK)
<1>1. TopK \in Nat /\ RerankCandidates \in Nat
  BY RetrievalAssumption
<1>2. TopK * RerankCandidates \in Nat
  BY <1>1
<1>3. CASE ~ Hybrid
  BY <1>1, <1>3, CollectionGood, RankingsGood DEF Found, DenseHits
<1>4. CASE Hybrid /\ ~ Reranks
  BY <1>1, <1>4, HybridGood DEF Found
<1>5. CASE Hybrid /\ Reranks
  <2>1. PICK fused \in HybridHits(TopK * RerankCandidates) : hits \in Rankings(ToSet(fused), TopK)
    BY <1>5 DEF Found
  <2>2. Passages(fused, TopK * RerankCandidates)
    BY <1>2, HybridGood
  <2>3. fused \in Seq(TrueChunks) /\ DistinctIds(fused)
    BY <2>2 DEF Passages
  <2>4. DOMAIN fused = 1 .. Len(fused) /\ Len(fused) \in Nat
    BY <2>3
  <2>5. IsFiniteSet(ToSet(fused))
    <3>1. 1 \in Int /\ Len(fused) \in Int
      BY <2>4
    <3>2. IsFiniteSet(DOMAIN fused)
      BY <2>4, <3>1, FS_Interval
    <3>3. fused \in Surjection(DOMAIN fused, ToSet(fused))
      <4>1. fused = [i \in DOMAIN fused |-> fused[i]]
        BY <2>3
      <4>2. fused \in [DOMAIN fused -> ToSet(fused)]
        BY <4>1 DEF ToSet
      <4> QED
        BY <4>2 DEF Surjection, ToSet
    <3> QED
      BY <3>2, <3>3, FS_Surjection
  <2>6. Good(ToSet(fused))
    BY <2>3, <2>4, <2>5 DEF Good, ToSet, DistinctIds
  <2> QED
    BY <1>1, <2>1, <2>6, RankingsGood
<1> QED
  BY <1>3, <1>4, <1>5

\* A fusion has no more chunks than its rankings have places.
LEMMA FuseBounded ==
    ASSUME NEW C, NEW rankings \in Seq(Seq(C)), Ranked(rankings), NEW n \in Nat,
           \A i \in DOMAIN rankings : Len(rankings[i]) <= n
    PROVE  Len(Fuse(rankings)) \in Nat /\ Len(Fuse(rankings)) <= Len(rankings) * n
<1> DEFINE ids == Ids(rankings)
           m == Len(rankings)
           place == [id \in ids |-> CHOOSE p \in Places(rankings, id) : TRUE]
<1>1. m \in Nat /\ Len(Fuse(rankings)) = Cardinality(ids)
  BY FuseKeeps
<1>2. IsFiniteSet(1 .. m) /\ Cardinality(1 .. m) = m /\ IsFiniteSet(1 .. n) /\ Cardinality(1 .. n) = n
  <2>1. 1 \in Int /\ m \in Int /\ n \in Int
    BY <1>1
  <2>2. /\ IsFiniteSet(1 .. m) /\ Cardinality(1 .. m) = (IF 1 > m THEN 0 ELSE m - 1 + 1)
        /\ IsFiniteSet(1 .. n) /\ Cardinality(1 .. n) = (IF 1 > n THEN 0 ELSE n - 1 + 1)
    <3> HIDE DEF m
    <3> QED
      BY <2>1, FS_Interval
  <2> QED
    BY <1>1, <2>2
<1>3. IsFiniteSet((1 .. m) \X (1 .. n)) /\ Cardinality((1 .. m) \X (1 .. n)) = m * n
  <2> HIDE DEF m
  <2> QED
    BY <1>2, FS_Product
<1>4. ASSUME NEW id \in ids
      PROVE  place[id] \in (1 .. m) \X (1 .. n) /\ rankings[place[id][1]][place[id][2]].id = id
  <2>1. Places(rankings, id) # {}
    BY PlacesIn
  <2>2. place[id] \in Places(rankings, id)
    BY <2>1
  <2> HIDE DEF place
  <2> DEFINE p == place[id]
  <2>3. /\ p = <<p[1], p[2]>> /\ p[1] \in DOMAIN rankings /\ p[2] \in DOMAIN rankings[p[1]]
        /\ rankings[p[1]][p[2]].id = id
    BY <2>2, PlacesIn
  <2>4. p[1] \in 1 .. m
    BY <2>3
  <2>5. p[2] \in 1 .. n
    <3>1. rankings[p[1]] \in Seq(C) /\ Len(rankings[p[1]]) <= n
      BY <2>3
    <3> QED
      BY <2>3, <3>1
  <2> QED
    BY <2>3, <2>4, <2>5
<1>5. place \in Injection(ids, (1 .. m) \X (1 .. n))
  <2>1. place \in [ids -> (1 .. m) \X (1 .. n)]
    BY <1>4
  <2>2. \A x, y \in ids : place[x] = place[y] => x = y
    <3> HIDE DEF place, ids
    <3> QED
      BY <1>4
  <2> HIDE DEF place
  <2> QED
    BY <2>1, <2>2 DEF Injection, IsInjective
<1>6. IsFiniteSet(ids) /\ Cardinality(ids) <= m * n
  <2> HIDE DEF place, ids, m
  <2>1. IsFiniteSet(ids) /\ Cardinality(ids) <= Cardinality((1 .. m) \X (1 .. n))
    BY <1>3, <1>5, FS_Injection
  <2> QED
    BY <1>3, <2>1
<1>7. Cardinality(ids) \in Nat
  BY <1>6, FS_CardinalityType
<1> QED
  BY <1>1, <1>6, <1>7

\* How far a query has come: what it has found and what it still has to search
\* for are its sub-queries, of which only a decomposed question has several.
ProgressInv ==
    /\ queries \in Nat
    /\ Len(lists) + queries <= MaxSubqueries
    /\ strategy # "decompose" => Len(lists) + queries <= 1
    /\ strategy = "none" => stage = "none"
    /\ stage \in {"none", "rewrite"} => lists = << >>
    /\ stage # "answered" => served = << >>

ServedInv ==
    /\ Good(snapshot)
    /\ lists \in Seq(Seq(TrueChunks))
    /\ \A i \in DOMAIN lists : DistinctIds(lists[i]) /\ Len(lists[i]) <= TopK
    /\ Passages(served, MostServed)
    /\ ProgressInv

SearchInv == TrueInv /\ CurrentInv /\ EntryInv /\ ServedInv

LEMMA NothingServed == << >> \in Seq(TrueChunks) /\ Passages(<< >>, MostServed)
<1>1. TopK \in Nat /\ MaxSubqueries \in Nat
  BY RetrievalAssumption
<1>2. MostServed \in Nat
  BY <1>1 DEF MostServed
<1>3. << >> \in Seq(TrueChunks) /\ Len(<< >>) = 0
  OBVIOUS
<1>4. DistinctIds(<< >>)
  BY DEF DistinctIds
<1> QED
  BY <1>2, <1>3, <1>4 DEF Passages

LEMMA SearchStarts == SearchInit => SearchInv
<1> SUFFICES ASSUME SearchInit PROVE SearchInv
  OBVIOUS
<1>1. TrueInv /\ CurrentInv
  BY TrueInit, CurrentInit DEF SearchInit
<1>2. EntryInv
  BY FS_EmptySet DEF SearchInit, IngestInit, EntryInv
<1>3. snapshot = {} /\ lists = << >> /\ served = << >>
  BY DEF SearchInit
<1>4. Good(snapshot)
  BY <1>3, FS_EmptySet DEF Good
<1>5. Passages(served, MostServed)
  BY <1>3, NothingServed
<1>6. lists \in Seq(Seq(TrueChunks)) /\ DOMAIN lists = {}
  BY <1>3
<1>7. ProgressInv
  <2>1. MaxSubqueries \in Nat
    BY RetrievalAssumption
  <2> QED
    BY <2>1 DEF SearchInit, ProgressInv
<1> QED
  BY <1>1, <1>2, <1>4, <1>5, <1>6, <1>7 DEF SearchInv, ServedInv

LEMMA ProgressKeeps ==
    ServedInv /\ [SearchNext]_searchVars => ProgressInv'
<1> SUFFICES ASSUME ServedInv, [SearchNext]_searchVars PROVE ProgressInv'
  OBVIOUS
<1> USE DEF retriever, query
<1>1. MaxSubqueries \in Nat \ {0}
  BY RetrievalAssumption
<1>2. lists \in Seq(Seq(TrueChunks)) /\ Len(lists) \in Nat /\ Len(<< >>) = 0
  BY DEF ServedInv
<1>3. ProgressInv
  BY DEF ServedInv
<1> USE DEF ProgressInv
<1>4. CASE Build
  BY <1>1, <1>2, <1>3, <1>4 DEF Build
<1>5. CASE Ask
  BY <1>1, <1>2, <1>3, <1>5 DEF Ask
<1>6. CASE Rewrite
  <2>1. stage' = "search" /\ UNCHANGED <<strategy, limited, lists, served>>
    BY <1>6 DEF Rewrite
  <2>2. lists = << >> /\ served = << >> /\ strategy # "none"
    BY <1>3, <1>6 DEF Rewrite
  <2>3. queries' \in 1 .. MaxSubqueries /\ (strategy # "decompose" => queries' = 1)
    BY <1>1, <1>6 DEF Rewrite
  <2>4. queries' \in Nat /\ Len(lists') = 0 /\ lists' = << >> /\ served' = << >>
    BY <1>1, <2>1, <2>2, <2>3
  <2>5. /\ Len(lists') + queries' <= MaxSubqueries
        /\ strategy' # "decompose" => Len(lists') + queries' <= 1
    <3> DEFINE k == Len(lists')
    <3> HIDE DEF k
    <3>1. k = 0
      BY <2>4 DEF k
    <3>2. k + queries' = queries'
      <4>1. queries' \in Nat
        BY <2>4
      <4>2. ASSUME NEW q \in Nat PROVE 0 + q = q
        OBVIOUS
      <4>3. 0 + queries' = queries'
        BY <4>1, <4>2
      <4> QED
        BY <3>1, <4>3
    <3>3. queries' <= MaxSubqueries
      BY <1>1, <2>3
    <3>4. strategy' # "decompose" => queries' <= 1
      <4>1. strategy' # "decompose" => queries' = 1
        BY <2>1, <2>3
      <4> QED
        BY <4>1
    <3> QED
      BY <3>2, <3>3, <3>4 DEF k
  <2> QED
    BY <2>1, <2>2, <2>4, <2>5
<1>7. CASE Search
  <2>1. PICK hits \in Found : lists' = Append(lists, hits)
    BY <1>7 DEF Search
  <2>2. Len(lists') = Len(lists) + 1
    BY <1>2, <2>1
  <2> QED
    BY <1>1, <1>2, <1>3, <1>7, <2>2 DEF Search
<1>8. CASE SearchFails \/ Answer
  BY <1>1, <1>2, <1>3, <1>8 DEF SearchFails, Answer
<1>9. CASE UNCHANGED <<retriever, query>>
  BY <1>3, <1>9
<1> QED
  BY <1>4, <1>5, <1>6, <1>7, <1>8, <1>9 DEF SearchNext, searchVars

\* What is answered: one list of at most TopK, or a fusion of at most as many
\* lists as there may be sub-queries, cut if the caller said to what.
LEMMA AnswerServes == ServedInv /\ Answer => Passages(served', MostServed)
<1> SUFFICES ASSUME ServedInv, Answer PROVE Passages(served', MostServed)
  OBVIOUS
<1>1. TopK \in Nat /\ MaxSubqueries \in Nat \ {0}
  BY RetrievalAssumption
<1>2. /\ lists \in Seq(Seq(TrueChunks)) /\ Ranked(lists)
      /\ \A i \in DOMAIN lists : Len(lists[i]) <= TopK
  BY DEF ServedInv, Ranked
<1>3. /\ Len(lists) \in Nat
      /\ Len(lists) <= MaxSubqueries
      /\ strategy # "decompose" => Len(lists) <= 1
  BY <1>1, <1>2 DEF Answer, ServedInv, ProgressInv
<1>4. MostServed \in Nat /\ TopK <= MostServed
  <2>1. TopK <= MaxSubqueries * TopK /\ MaxSubqueries * TopK \in Nat
    BY <1>1
  <2> QED
    BY <1>1, <2>1 DEF MostServed
<1>5. CASE Len(lists) = 1
  <2>1. 1 \in DOMAIN lists /\ lists[1] \in Seq(TrueChunks) /\ served' = lists[1]
    BY <1>2, <1>5 DEF Answer
  <2>2. DistinctIds(served') /\ Len(served') <= TopK /\ Len(served') \in Nat
    BY <1>2, <2>1 DEF Ranked
  <2>3. Len(served') <= MostServed
    BY <1>1, <1>4, <2>2
  <2> QED
    BY <2>1, <2>2, <2>3 DEF Passages
<1>6. CASE Len(lists) # 1
  <2>1. Fuse(lists) \in Seq(TrueChunks) /\ DistinctIds(Fuse(lists))
    BY <1>2, FuseKeeps
  <2>2. CASE limited
    <3>1. served' = First(TopK, Fuse(lists))
      BY <1>6, <2>2 DEF Answer
    <3>2. MostServed = TopK
      BY <2>2 DEF MostServed
    <3> QED
      BY <1>1, <2>1, <3>1, <3>2, FirstIs DEF Passages
  <2>3. CASE ~ limited
    <3>1. served' = Fuse(lists)
      BY <1>6, <2>3 DEF Answer
    <3>2. Len(served') \in Nat /\ Len(served') <= Len(lists) * TopK
      BY <1>1, <1>2, <3>1, FuseBounded
    <3>3. Len(served') <= MostServed
      <4>1. CASE strategy = "decompose"
        <5>1. Len(lists) * TopK <= MaxSubqueries * TopK
          BY <1>1, <1>3
        <5>2. Len(lists) * TopK \in Nat /\ MaxSubqueries * TopK \in Nat
          BY <1>1, <1>3
        <5>3. MostServed = MaxSubqueries * TopK
          BY <2>3, <4>1 DEF MostServed
        <5> QED
          BY <3>2, <5>1, <5>2, <5>3
      <4>2. CASE strategy # "decompose"
        <5>1. Len(lists) = 0
          <6> DEFINE m == Len(lists)
          <6>1. m \in Nat /\ m <= 1 /\ m # 1
            BY <1>3, <1>6, <4>2
          <6> HIDE DEF m
          <6>2. m = 0
            BY <6>1
          <6> QED
            BY <6>2 DEF m
        <5>2. Len(lists) * TopK = 0
          BY <1>1, <5>1
        <5> QED
          BY <1>4, <3>2, <5>2, <1>1
      <4> QED
        BY <4>1, <4>2
    <3> QED
      BY <2>1, <3>1, <3>3 DEF Passages
  <2> QED
    BY <2>2, <2>3
<1> QED
  BY <1>5, <1>6

LEMMA PassagesKeep ==
    ServedInv /\ [SearchNext]_searchVars => Passages(served, MostServed)' /\ TrueChunks' = TrueChunks
<1> SUFFICES ASSUME ServedInv, [SearchNext]_searchVars
             PROVE  Passages(served, MostServed)' /\ TrueChunks' = TrueChunks
  OBVIOUS
<1> USE DEF retriever, query
<1>1. TrueChunks' = TrueChunks
  BY DEF TrueChunks, FileChunks, Kept, File
<1>2. Passages(served, MostServed)' <=> Passages(served', MostServed')
  BY <1>1 DEF Passages, DistinctIds
<1>3. ASSUME served' = << >> PROVE Passages(served', MostServed')
  <2>1. TopK \in Nat /\ MaxSubqueries \in Nat
    BY RetrievalAssumption
  <2>2. MostServed' \in Nat
    BY <2>1 DEF MostServed
  <2>3. DistinctIds(<< >>) /\ << >> \in Seq(TrueChunks) /\ Len(<< >>) = 0
    BY NothingServed DEF Passages
  <2> QED
    BY <1>3, <2>2, <2>3 DEF Passages
<1>4. ASSUME UNCHANGED <<strategy, limited, served>> PROVE Passages(served', MostServed')
  <2>1. MostServed' = MostServed
    BY <1>4 DEF MostServed
  <2> QED
    BY <1>4, <2>1 DEF ServedInv
<1>5. CASE Build \/ Ask
  <2>1. stage = "none" /\ served' = served
    BY <1>5 DEF Build, Ask, ServedInv, ProgressInv
  <2>2. served' = << >>
    BY <2>1 DEF ServedInv, ProgressInv
  <2> QED
    BY <1>1, <1>2, <1>3, <2>2
<1>6. CASE Answer
  <2>1. MostServed' = MostServed
    BY <1>6 DEF Answer, MostServed
  <2> QED
    BY <1>1, <1>2, <1>6, <2>1, AnswerServes
<1>7. CASE Rewrite \/ Search \/ SearchFails \/ UNCHANGED <<retriever, query>>
  <2>1. UNCHANGED <<strategy, limited, served>>
    BY <1>7 DEF Rewrite, Search, SearchFails
  <2> QED
    BY <1>1, <1>2, <1>4, <2>1
<1> QED
  BY <1>5, <1>6, <1>7 DEF SearchNext, searchVars

LEMMA SearchKeeps == SearchInv /\ [SearchNext]_searchVars => SearchInv'
<1> SUFFICES ASSUME SearchInv, [SearchNext]_searchVars PROVE SearchInv'
  OBVIOUS
<1> USE DEF retriever, query
<1>1. [IngestNext]_ingestVars
  BY DEF SearchNext, searchVars, Build, Ask, Rewrite, Search, SearchFails, Answer
<1>2. TrueInv' /\ CurrentInv' /\ EntryInv'
  BY <1>1, TrueNext, CurrentNext, EntryNext DEF SearchInv
<1>3. ServedInv
  BY DEF SearchInv
<1>4. ProgressInv' /\ Passages(served, MostServed)' /\ TrueChunks' = TrueChunks
  BY <1>3, ProgressKeeps, PassagesKeep
<1> DEFINE Found1(ls) == /\ ls \in Seq(Seq(TrueChunks))
                         /\ \A i \in DOMAIN ls : DistinctIds(ls[i]) /\ Len(ls[i]) <= TopK
<1>5. Good(snapshot')
  <2>1. CASE Build
    <3>1. snapshot' = Collection \/ snapshot' = {}
      BY <2>1 DEF Build
    <3>2. Good(Collection)
      BY CollectionGood DEF SearchInv
    <3>3. Good({})
      BY FS_EmptySet DEF Good
    <3> QED
      BY <3>1, <3>2, <3>3
  <2>2. CASE ~ Build
    <3>1. snapshot' = snapshot
      BY <2>2 DEF SearchNext, searchVars, Ask, Rewrite, Search, SearchFails, Answer
    <3> QED
      BY <1>3, <3>1 DEF ServedInv
  <2> QED
    BY <2>1, <2>2
<1>6. Found1(lists')
  <2>1. Found1(lists)
    BY <1>3 DEF ServedInv
  <2>2. Found1(<< >>)
    OBVIOUS
  <2>3. CASE Search
    <3>1. PICK hits \in Found : lists' = Append(lists, hits)
      BY <2>3 DEF Search
    <3>2. Passages(hits, TopK)
      BY <3>1, FoundGood DEF SearchInv, ServedInv
    <3>3. lists \in Seq(Seq(TrueChunks)) /\ hits \in Seq(TrueChunks)
      BY <1>3, <3>2 DEF ServedInv, Passages
    <3>4. /\ lists' \in Seq(Seq(TrueChunks))
          /\ DOMAIN lists' = 1 .. Len(lists) + 1 /\ DOMAIN lists = 1 .. Len(lists) /\ Len(lists) \in Nat
          /\ \A i \in 1 .. Len(lists) : lists'[i] = lists[i]
          /\ lists'[Len(lists) + 1] = hits
      BY <3>1, <3>3
    <3>5. ASSUME NEW i \in DOMAIN lists' PROVE DistinctIds(lists'[i]) /\ Len(lists'[i]) <= TopK
      <4>1. CASE i \in 1 .. Len(lists)
        BY <2>1, <3>4, <4>1
      <4>2. CASE i = Len(lists) + 1
        BY <3>2, <3>4, <4>2 DEF Passages
      <4> QED
        BY <3>4, <3>5, <4>1, <4>2
    <3> QED
      BY <3>4, <3>5
  <2>4. lists' = lists \/ lists' = << >> \/ Search
    BY DEF SearchNext, searchVars, Build, Ask, Rewrite, SearchFails, Answer
  <2> HIDE DEF Found1
  <2> QED
    BY <2>1, <2>2, <2>3, <2>4
<1>7. ServedInv'
  <2>1. Good(snapshot)'
    BY <1>4, <1>5 DEF Good
  <2>2. /\ lists' \in Seq(Seq(TrueChunks'))
        /\ \A i \in DOMAIN lists' : DistinctIds(lists'[i]) /\ Len(lists'[i]) <= TopK
    BY <1>4, <1>6
  <2> QED
    BY <1>4, <2>1, <2>2 DEF ServedInv, DistinctIds
<1> QED
  BY <1>2, <1>7 DEF SearchInv

LEMMA SearchServes == SearchInv => ServedTrue /\ FairlyFused
<1> SUFFICES ASSUME SearchInv PROVE ServedTrue /\ FairlyFused
  OBVIOUS
<1>1. served \in Seq(TrueChunks) /\ DistinctIds(served) /\ Len(served) <= MostServed
  BY DEF SearchInv, ServedInv, Passages
<1>2. DOMAIN served = 1 .. Len(served) /\ Len(served) \in Nat
  BY <1>1
<1>3. Cardinality(IdsOf(served)) = Len(served)
  <2> DEFINE f == [n \in 1 .. Len(served) |-> served[n].id]
  <2>1. f \in Surjection(1 .. Len(served), IdsOf(served))
    BY <1>2 DEF Surjection, IdsOf
  <2>2. f \in Injection(1 .. Len(served), IdsOf(served))
    <3>1. f \in [1 .. Len(served) -> IdsOf(served)]
      BY <2>1 DEF Surjection
    <3>2. \A m, n \in 1 .. Len(served) : f[m] = f[n] => m = n
      BY <1>1, <1>2 DEF DistinctIds
    <3> HIDE DEF f
    <3> QED
      BY <3>1, <3>2 DEF Injection, IsInjective
  <2>3. 1 \in Int /\ Len(served) \in Int
    BY <1>2
  <2>4. IsFiniteSet(1 .. Len(served)) /\ Cardinality(1 .. Len(served)) =
            (IF 1 > Len(served) THEN 0 ELSE Len(served) - 1 + 1)
    BY <2>3, FS_Interval
  <2>5. Cardinality(1 .. Len(served)) = Len(served)
    BY <1>2, <2>4
  <2> HIDE DEF f
  <2> QED
    BY <2>1, <2>2, <2>4, <2>5, FS_Surjection
<1>4. ASSUME NEW n \in DOMAIN served PROVE IsChunk(served[n])
  <2> DEFINE x == served[n]
  <2>1. x \in TrueChunks
    BY <1>1
  <2>2. PICK c \in Commit, d \in File : \E k \in DOMAIN Kept(c, d) : x = FileChunks(c, d, c)[k]
    BY <2>1 DEF TrueChunks
  <2>3. PICK k \in DOMAIN Kept(c, d) : x = FileChunks(c, d, c)[k]
    BY <2>2
  <2>4. x = [id |-> <<d, k - 1>>, text |-> Kept(c, d)[k], commit |-> c]
    BY <2>3 DEF FileChunks
  <2> HIDE DEF x
  <2>5. x.id[1] = d /\ x.id[2] = k - 1 /\ x.text = Kept(c, d)[k] /\ x.commit = c
    BY <2>4
  <2>6. IsChunk(x)
    BY <2>3, <2>5 DEF IsChunk
  <2> QED
    BY <2>6 DEF x
<1>5. FusedFairly(lists)
  <2>1. lists \in Seq(Seq(TrueChunks)) /\ Ranked(lists)
    BY DEF SearchInv, ServedInv, Ranked
  <2> QED
    BY <2>1, RankFusionTheorem
<1> QED
  BY <1>1, <1>3, <1>4, <1>5 DEF ServedTrue, FairlyFused

\* An answer's passages are different ones, at most top_k, or retrieval_top_k for
\* each sub-query when the caller of a decomposing retriever gave no top_k; and
\* each is true of the commit it cites, for every strategy and every ranking, while
\* ingest runs rewrite the index between BM25's load, the searches and the answer.
THEOREM ServedTheorem == SearchSpec => []ServedTrue
<1>1. SearchInv => ServedTrue
  BY SearchServes
<1> QED
  BY SearchStarts, SearchKeeps, <1>1, PTL DEF SearchSpec

\* What a decomposed question gets when its sub-queries saw different states of
\* the index: their fusion has each chunk once, and none behind one that beats it.
THEOREM FusedTheorem == SearchSpec => []FairlyFused
<1>1. SearchInv => FairlyFused
  BY SearchServes
<1> QED
  BY SearchStarts, SearchKeeps, <1>1, PTL DEF SearchSpec
-----------------------------------------------------------------------------
\* The types of the variables

\* What a file's chunks are made of: Kept picks each kept section once.
LEMMA KeptText ==
    ASSUME NEW c \in Commit, NEW d \in File, NEW n \in DOMAIN Kept(c, d)
    PROVE  Kept(c, d)[n] \in Text
<1> DEFINE texts == {s \in DOMAIN Sections[c][d] : Sections[c][d][s] \in Text}
           R == {p \in texts \X texts : p[1] < p[2]}
           Upto(s) == {o \in texts : o <= s}
<1>1. Sections[c][d] \in Seq(Text \cup {"left out"})
  BY IngestAssumption
<1>2. texts \subseteq 1 .. Len(Sections[c][d]) /\ Len(Sections[c][d]) \in Nat
  <2>1. ASSUME NEW S, NEW s \in Seq(S) PROVE DOMAIN s = 1 .. Len(s) /\ Len(s) \in Nat
    OBVIOUS
  <2>2. DOMAIN Sections[c][d] = 1 .. Len(Sections[c][d]) /\ Len(Sections[c][d]) \in Nat
    BY <1>1, <2>1
  <2> QED
    BY ONLY <2>2
<1>3. IsFiniteSet(texts)
  <2>1. IsFiniteSet(1 .. Len(Sections[c][d]))
    BY <1>2, FS_Interval
  <2> QED
    BY <1>2, <2>1, FS_Subset
<1>4. Cardinality(texts) \in Nat /\ n \in 1 .. Cardinality(texts)
  <2>1. Cardinality(texts) \in Nat
    BY <1>3, FS_CardinalityType
  <2> QED
    BY <2>1 DEF Kept
<1>5. Kept(c, d)[n] = Sections[c][d][CHOOSE s \in texts : Cardinality(Upto(s)) = n]
  BY <1>4 DEF Kept
<1>6. texts \subseteq Nat
  BY <1>2
<1> HIDE DEF texts
<1>7. PICK s \in texts : Cardinality(Below(R, texts, s)) = n - 1
  <2>1. \A x \in texts : <<x, x>> \notin R
    BY <1>6
  <2>2. \A x, y \in texts : x # y => <<x, y>> \in R \/ <<y, x>> \in R
    BY <1>6
  <2>3. \A x, y, z \in texts : <<x, y>> \in R /\ <<y, z>> \in R => <<x, z>> \in R
    BY <1>6
  <2>4. n - 1 \in 0 .. Cardinality(texts) - 1
    BY <1>4
  <2> HIDE DEF R
  <2>5. \A k \in 0 .. Cardinality(texts) - 1 : \E x \in texts : Cardinality(Below(R, texts, x)) = k
    BY <1>3, <2>1, <2>2, <2>3, RankInOrder
  <2> QED
    BY <2>4, <2>5
<1>8. Cardinality(Upto(s)) = n
  <2> DEFINE B == Below(R, texts, s)
  <2>1. Upto(s) = B \cup {s} /\ s \notin B /\ B \in SUBSET texts
    <3>1. \A y \in texts : <<y, s>> \in R <=> y < s
      BY <1>7
    <3>2. B = {y \in texts : y < s}
      <4> HIDE DEF R
      <4> QED
        BY <3>1 DEF Below
    <3>3. s \in Nat /\ \A y \in texts : y \in Nat /\ (y <= s <=> y < s \/ y = s)
      BY <1>6, <1>7
    <3>4. {y \in texts : y <= s} = {y \in texts : y < s} \cup {s}
      BY ONLY s \in texts, <3>3
    <3>5. Upto(s) = B \cup {s}
      BY <3>2, <3>4
    <3>6. s \notin B /\ B \in SUBSET texts
      BY <3>2, <3>3
    <3> QED
      BY <3>5, <3>6
  <2>2. IsFiniteSet(B)
    <3> HIDE DEF B
    <3> QED
      BY <1>3, <2>1, FS_Subset
  <2>3. Cardinality(B) = n - 1
    BY <1>7
  <2> HIDE DEF B, Upto
  <2>4. Cardinality(Upto(s)) = Cardinality(B) + 1
    BY <2>1, <2>2, FS_AddElement
  <2>5. n \in Nat /\ n - 1 + 1 = n
    BY <1>4
  <2> QED
    BY <2>3, <2>4, <2>5
<1>9. (CHOOSE x \in texts : Cardinality(Upto(x)) = n) \in texts
  <2> HIDE DEF Upto
  <2> QED
    BY <1>8
<1>10. ASSUME NEW x \in texts PROVE Sections[c][d][x] \in Text
  BY DEF texts
<1> HIDE DEF Upto
<1> QED
  BY <1>5, <1>9, <1>10

LEMMA TrueTypes == TrueChunks \subseteq Chunk /\ TrueEntries \subseteq Embedded
<1>1. ASSUME NEW x \in TrueChunks PROVE x \in Chunk /\ WithVector(x, x.text) \in Embedded
  <2>1. PICK c \in Commit, d \in File : \E n \in DOMAIN Kept(c, d) : x = FileChunks(c, d, c)[n]
    BY DEF TrueChunks
  <2>2. PICK n \in DOMAIN Kept(c, d) : x = FileChunks(c, d, c)[n]
    BY <2>1
  <2>3. x = [id |-> <<d, n - 1>>, text |-> Kept(c, d)[n], commit |-> c]
    BY <2>2 DEF FileChunks
  <2>4. Kept(c, d)[n] \in Text
    BY <2>2, KeptText
  <2>5. n - 1 \in Nat
    <3>1. PICK m \in Nat : DOMAIN Kept(c, d) = 1 .. m
      BY KeptDomain
    <3> QED
      BY <2>2, <3>1
  <2>6. <<d, n - 1>> \in File \X Nat
    BY <2>5
  <2>7. x \in Chunk
    BY <2>3, <2>4, <2>6 DEF Chunk
  <2>8. WithVector(x, x.text) = [id |-> <<d, n - 1>>, text |-> Kept(c, d)[n], commit |-> c, vector |-> Kept(c, d)[n]]
    BY <2>3 DEF WithVector
  <2> QED
    BY <2>4, <2>6, <2>7, <2>8 DEF Embedded
<1> QED
  BY <1>1 DEF TrueEntries

\* The semaphore: at most Concurrency of the finitely many tasks call the model.
TasksInv ==
    /\ pc \in {"idle", "ensure", "checkout", "read", "lookup", "embed", "failing", "index"}
    /\ IsFiniteSet(Batches)
    /\ \A b \in Batches : call[b] \in {"waiting", "calling", "done", "failed"}
    /\ Cardinality(In("calling")) <= Concurrency
    /\ cache \subseteq Text \X Text

LEMMA NoTasks ==
    ASSUME Concurrency \in Nat, IsFiniteSet(Batches)', \A b \in Batches' : call'[b] = "waiting"
    PROVE  /\ \A b \in Batches' : call'[b] \in {"waiting", "calling", "done", "failed"}
           /\ Cardinality(In("calling"))' <= Concurrency
<1>1. In("calling")' = {}
  BY DEF In
<1>2. Cardinality({}) = 0
  BY FS_EmptySet
<1> QED
  BY <1>1, <1>2

LEMMA TasksInit == IngestInit => TasksInv
<1> SUFFICES ASSUME IngestInit PROVE TasksInv
  OBVIOUS
<1>1. call = << >> /\ cache = {} /\ pc = "idle"
  BY DEF IngestInit
<1>2. Batches = {}
  BY <1>1 DEF Batches
<1>3. IsFiniteSet({}) /\ Cardinality({}) = 0
  BY FS_EmptySet
<1>4. In("calling") = {}
  BY <1>2 DEF In
<1>5. 0 <= Concurrency
  <2>1. Concurrency \in Nat
    BY IngestAssumption
  <2> QED
    BY <2>1
<1> QED
  BY <1>1, <1>2, <1>3, <1>4, <1>5 DEF TasksInv

\* Storing vectors of texts to embed.
LEMMA StoredTypes ==
    ASSUME TrueInv, TasksInv, NEW positions \in SUBSET DOMAIN toEmbed
    PROVE  Stored(positions) \subseteq Text \X Text
<1>1. \A m \in positions : toEmbed[m] \in TrueChunks
  BY DEF TrueInv
<1>2. \A m \in positions : toEmbed[m].text \in Text
  BY <1>1, TrueTypes DEF Chunk
<1> QED
  BY <1>2 DEF Stored, TasksInv

LEMMA TasksNext == TrueInv /\ TasksInv /\ [IngestNext]_ingestVars => TasksInv'
<1> SUFFICES ASSUME TrueInv, TasksInv, [IngestNext]_ingestVars PROVE TasksInv'
  OBVIOUS
<1> USE DEF TasksInv
<1>0. Concurrency \in Nat
  BY IngestAssumption
<1>1. ASSUME UNCHANGED <<call, cache>>,
             pc' \in {"idle", "ensure", "checkout", "read", "lookup", "embed", "failing", "index"}
      PROVE  TasksInv'
  BY <1>1 DEF Batches, In
<1>2. ASSUME End, cache' \subseteq Text \X Text PROVE TasksInv'
  <2>1. call' = << >> /\ pc' = "idle"
    BY <1>2 DEF End, Goto
  <2>2. Batches' = {}
    BY <2>1 DEF Batches
  <2>3. IsFiniteSet(Batches)'
    BY <2>2, FS_EmptySet
  <2>4. \A b \in Batches' : call'[b] = "waiting"
    BY <2>2
  <2> QED
    BY <1>0, <1>2, <2>1, <2>3, <2>4, NoTasks
<1>3. CASE \/ Push \/ Start \/ EnsureRepo \/ Checkout \/ ReadFile \/ Chunked \/ LookUp \/ Collect \/ Collected
           \/ Upsert \/ UNCHANGED ingestVars
  <2>1. UNCHANGED <<call, cache>>
    BY <1>3 DEF Push, Start, EnsureRepo, Checkout, ReadFile, Chunked, LookUp, Collect, Collected, Upsert,
                ingestVars, run
  <2>2. pc' = pc \/ pc' \in {"ensure", "checkout", "read", "lookup", "index"}
    BY <1>3 DEF Push, Start, EnsureRepo, Checkout, ReadFile, Chunked, LookUp, Collect, Collected, Upsert,
                ingestVars, Goto
  <2> QED
    BY <1>1, <2>1, <2>2
<1>4. CASE LoadFails \/ Abort \/ Complete
  <2>1. End /\ cache' = cache
    BY <1>4 DEF LoadFails, Abort, Complete
  <2> QED
    BY <1>2, <2>1
<1>5. CASE Gather
  <2> DEFINE k == (Len(toEmbed) + BatchSize - 1) \div BatchSize
  <2>1. call' = [b \in 1 .. k |-> "waiting"] /\ cache' = cache /\ pc' = "embed"
    BY <1>5 DEF Gather, Goto
  <2>2. k \in Nat
    <3>1. BatchSize \in Nat \ {0}
      BY IngestAssumption
    <3>2. Len(toEmbed) \in Nat
      BY DEF TrueInv
    <3> QED
      BY <3>1, <3>2
  <2> HIDE DEF k
  <2>3. Batches' = 1 .. k
    BY <2>1 DEF Batches
  <2>4. IsFiniteSet(Batches)'
    BY <2>2, <2>3, FS_Interval
  <2>5. \A b \in Batches' : call'[b] = "waiting"
    BY <2>1, <2>3
  <2> QED
    BY <1>0, <2>1, <2>4, <2>5, NoTasks
<1>6. ASSUME NEW b \in Batches, Call(b) PROVE TasksInv'
  <2>1. /\ call' = [call EXCEPT ![b] = "calling"] /\ call[b] = "waiting" /\ UNCHANGED <<pc, cache>>
        /\ Cardinality(In("calling")) < Concurrency
    BY <1>6 DEF Call
  <2>2. Batches' = Batches /\ \A o \in Batches : call'[o] = IF o = b THEN "calling" ELSE call[o]
    BY <2>1 DEF Batches
  <2>3. In("calling")' = In("calling") \cup {b} /\ b \notin In("calling") /\ In("calling") \in SUBSET Batches
    BY <1>6, <2>1, <2>2 DEF In
  <2>4. IsFiniteSet(In("calling")) /\ Cardinality(In("calling")) \in Nat
    BY <2>3, FS_Subset, FS_CardinalityType
  <2>5. Cardinality(In("calling"))' = Cardinality(In("calling")) + 1
    BY <2>3, <2>4, FS_AddElement
  <2>6. Cardinality(In("calling"))' <= Concurrency
    BY <1>0, <2>1, <2>4, <2>5
  <2> QED
    BY <2>1, <2>2, <2>6
<1>7. ASSUME NEW b \in Batches, Reply(b) \/ CallFails(b) PROVE TasksInv'
  <2>1. PICK s \in {"done", "failed"} : call' = [call EXCEPT ![b] = s]
    BY <1>7 DEF Reply, CallFails
  <2>2. Batches' = Batches /\ \A o \in Batches : call'[o] = IF o = b THEN s ELSE call[o]
    BY <2>1 DEF Batches
  <2>3. In("calling")' \in SUBSET In("calling") /\ In("calling") \in SUBSET Batches
    BY <2>2 DEF In
  <2>4. IsFiniteSet(In("calling")) /\ Cardinality(In("calling")) \in Nat
    BY <2>3, FS_Subset, FS_CardinalityType
  <2>5. Cardinality(In("calling")') <= Cardinality(In("calling")) /\ Cardinality(In("calling")') \in Nat
    BY <2>3, <2>4, FS_Subset, FS_CardinalityType
  <2>6. cache' \subseteq Text \X Text
    <3>1. cache' = cache \/ cache' = Stored(BatchOf(b))
      BY <1>7 DEF Reply, CallFails
    <3>2. BatchOf(b) \in SUBSET DOMAIN toEmbed
      BY DEF BatchOf
    <3> QED
      BY <3>1, <3>2, StoredTypes
  <2>7. pc' = pc \/ pc' = "failing"
    BY <1>7 DEF Reply, CallFails
  <2>8. Cardinality(In("calling"))' <= Concurrency
    BY <1>0, <2>4, <2>5
  <2>9. \A o \in Batches : call'[o] \in {"waiting", "calling", "done", "failed"}
    BY <2>1, <2>2
  <2> QED
    BY <2>2, <2>6, <2>7, <2>8, <2>9
<1>8. CASE Crash
  <2>1. End /\ \E positions \in StoredFirst : cache' = Stored(positions)
    BY <1>8 DEF Crash
  <2>2. StoredFirst \subseteq SUBSET DOMAIN toEmbed
    BY DEF StoredFirst, BatchOf
  <2> QED
    BY <1>2, <2>1, <2>2, StoredTypes
<1> QED
  BY <1>3, <1>4, <1>5, <1>6, <1>7, <1>8 DEF IngestNext

\* The variables of ingest have their types for any corpus: no more calls are
\* open than the semaphore allows, the index has one entry for each id, and what
\* was paid and lost is counted for texts that are chunks.
THEOREM IngestTypes == IngestSpec => []IngestTypeOK
<1> DEFINE I == TrueInv /\ CurrentInv /\ EntryInv /\ PaidInv /\ TasksInv
<1>1. IngestInit => I
  <2>1. IngestInit => EntryInv
    BY FS_EmptySet DEF IngestInit, EntryInv
  <2> QED
    BY <2>1, TrueInit, CurrentInit, PaidInit, TasksInit
<1>2. I /\ [IngestNext]_ingestVars => I'
  BY TrueNext, CurrentNext, EntryNext, PaidNext, TasksNext
<1>3. I => IngestTypeOK
  <2> SUFFICES ASSUME I PROVE IngestTypeOK
    OBVIOUS
  <2>1. tip \in Commit /\ ref \in Commit \cup {Branch} /\ pos \in Nat /\ {head, local, tree} \subseteq Commit \cup {NoCommit}
    BY DEF TrueInv, CloneInv
  <2>2. chunks \in Seq(Chunk) /\ toEmbed \in Seq(Chunk) /\ results \in Seq(Embedded)
    <3>1. ASSUME NEW S, NEW T, S \subseteq T, NEW s \in Seq(S) PROVE s \in Seq(T)
      BY <3>1
    <3> QED
      BY <3>1, TrueTypes DEF TrueInv
  <2>3. index \subseteq Embedded /\ \A x, y \in index : x.id = y.id => x = y
    BY TrueTypes DEF TrueInv, EntryInv
  <2>4. done \in Commit \cup {NoCommit}
    BY DEF CurrentInv, DoneInv
  <2>5. paid \in [Text -> Nat] /\ lost \in [Text -> Nat]
    BY DEF PaidInv
  <2>6. /\ pc \in {"idle", "ensure", "checkout", "read", "lookup", "embed", "failing", "index"}
        /\ \A b \in Batches : call[b] \in {"waiting", "calling", "done", "failed"}
        /\ Cardinality(In("calling")) <= Concurrency
        /\ cache \subseteq Text \X Text
    BY DEF TasksInv
  <2> QED
    BY <2>1, <2>2, <2>3, <2>4, <2>5, <2>6 DEF IngestTypeOK
<1> QED
  BY <1>1, <1>2, <1>3, PTL DEF IngestSpec

\* What a query is doing: it has no more sub-queries to search for than
\* decompose.py allows.
StageInv ==
    /\ strategy \in VALID_STRATEGIES \cup {"none"}
    /\ stage \in {"none", "rewrite", "search", "answered", "failed"}
    /\ limited \in BOOLEAN
    /\ queries \in 0 .. MaxSubqueries

LEMMA StageNext == StageInv /\ [SearchNext]_searchVars => StageInv'
<1> SUFFICES ASSUME StageInv, [SearchNext]_searchVars PROVE StageInv'
  OBVIOUS
<1> USE DEF StageInv
<1>1. MaxSubqueries \in Nat \ {0}
  BY RetrievalAssumption
<1>2. CASE Build
  BY <1>2 DEF Build, query
<1>3. CASE Ask
  BY <1>1, <1>3 DEF Ask, retriever
<1>4. CASE Rewrite
  BY <1>1, <1>4 DEF Rewrite, retriever
<1>5. CASE Search
  BY <1>1, <1>5 DEF Search, retriever
<1>6. CASE SearchFails \/ Answer
  BY <1>1, <1>6 DEF SearchFails, Answer, retriever
<1>7. CASE UNCHANGED <<retriever, query>>
  BY <1>7 DEF retriever, query
<1> QED
  BY <1>2, <1>3, <1>4, <1>5, <1>6, <1>7 DEF SearchNext, searchVars

\* The variables of the retrievers have their types while ingest runs.
THEOREM SearchTypes == SearchSpec => []SearchTypeOK
<1>1. SearchInit => StageInv
  BY RetrievalAssumption DEF SearchInit, StageInv
<1>2. SearchInv /\ StageInv /\ IngestTypeOK => SearchTypeOK
  <2> SUFFICES ASSUME SearchInv, StageInv, IngestTypeOK PROVE SearchTypeOK
    OBVIOUS
  <2>1. snapshot \subseteq Chunk
    BY TrueTypes DEF SearchInv, ServedInv, Good
  <2>2. ASSUME NEW S, NEW T, S \subseteq T, NEW s \in Seq(S) PROVE s \in Seq(T)
    BY <2>2
  <2>3. served \in Seq(Chunk)
    BY <2>2, TrueTypes DEF SearchInv, ServedInv, Passages
  <2>4. Seq(TrueChunks) \subseteq Seq(Chunk)
    BY <2>2, TrueTypes
  <2>5. lists \in Seq(Seq(Chunk))
    BY <2>2, <2>4 DEF SearchInv, ServedInv
  <2> QED
    BY <2>1, <2>3, <2>5 DEF SearchTypeOK, StageInv
<1> QED
  BY SearchStarts, SearchKeeps, <1>1, StageNext, SearchIngests, IngestTypes, <1>2, PTL DEF SearchSpec
=============================================================================
