--------------------------- MODULE StreamQueryProofs ---------------------------
(***************************************************************************)
(* Proofs about the stream of /query/stream, for any number of deltas.     *)
(***************************************************************************)
EXTENDS StreamQuery, TLAPS

\* The generator has not yielded the frame that ends the stream.
Unfinished == \A k \in DOMAIN sent : Event(k) \notin Terminal

\* Nothing is sent before retrieval is over, and only a generator that is about
\* to stop, or has stopped, has sent the last frame.
OrderInv ==
    /\ sent \in Seq(Frame)
    /\ pc \in {"arriving", "admitted", "retrieve"} => sent = << >>
    /\ pc \in {"generate", "stream", "tail", "finish"} => Unfinished
    /\ FrameOrder

LEMMA OrderInit == Init => OrderInv
  BY DEF Init, OrderInv, FrameOrder, Unfinished

\* Adding a frame: sources only as the first one, and nothing after the last one.
LEMMA YieldKeeps ==
    ASSUME OrderInv, Unfinished, NEW event, NEW data, <<event, data>> \in Frame,
           Yield(event, data),
           event = "sources" => sent = << >>,
           event \in Terminal => pc' \in {"failing", "closed"},
           pc' \in {"generate", "stream", "finish", "failing", "closed"}
    PROVE  OrderInv'
<1>1. /\ sent' = Append(sent, <<event, data>>) /\ sent \in Seq(Frame)
  BY DEF Yield, OrderInv
<1>2. /\ sent' \in Seq(Frame)
      /\ Len(sent) \in Nat /\ DOMAIN sent = 1 .. Len(sent)
      /\ Len(sent') = Len(sent) + 1 /\ DOMAIN sent' = 1 .. Len(sent) + 1
      /\ \A k \in 1 .. Len(sent) : sent'[k] = sent[k]
      /\ sent'[Len(sent) + 1] = <<event, data>>
  BY <1>1
<1>3. sent'[Len(sent) + 1][1] = event
  BY <1>2
<1>4. event = "sources" => Len(sent) = 0
  BY <1>1
<1>5. FrameOrder'
  <2> SUFFICES ASSUME NEW k \in 1 .. Len(sent) + 1
               PROVE  /\ sent'[k][1] = "sources" => k = 1
                      /\ sent'[k][1] \in Terminal => k = Len(sent) + 1
    BY <1>2 DEF FrameOrder, Event, Terminal
  <2>1. CASE k = Len(sent) + 1
    BY <2>1, <1>2, <1>3, <1>4
  <2>2. CASE k \in 1 .. Len(sent)
    <3>1. sent'[k] = sent[k] /\ k \in DOMAIN sent
      BY <2>2, <1>2
    <3> QED
      BY <3>1 DEF OrderInv, FrameOrder, Event, Unfinished
  <2> QED
    BY <2>1, <2>2, <1>2
<1>6. pc' \in {"generate", "stream", "tail", "finish"} => Unfinished'
  <2> SUFFICES ASSUME event \notin Terminal, NEW k \in 1 .. Len(sent) + 1
               PROVE  sent'[k][1] \notin Terminal
    BY <1>2 DEF Unfinished, Event, Terminal
  <2>1. CASE k = Len(sent) + 1
    BY <2>1, <1>3
  <2>2. CASE k \in 1 .. Len(sent)
    BY <2>2, <1>2 DEF Unfinished, Event
  <2> QED
    BY <2>1, <2>2, <1>2
<1> QED
  BY <1>2, <1>5, <1>6 DEF OrderInv

\* Every other step leaves the frames alone.
LEMMA QuietKeeps ==
    ASSUME OrderInv, UNCHANGED sent,
           pc' \in {"arriving", "admitted", "retrieve"} =>
               pc \in {"arriving", "admitted", "retrieve"},
           pc' \in {"generate", "stream", "tail", "finish"} => Unfinished
    PROVE  OrderInv'
  BY DEF OrderInv, FrameOrder, Unfinished, Event, Terminal

LEMMA OrderNext == OrderInv /\ [Next]_vars => OrderInv'
<1> SUFFICES ASSUME OrderInv, [Next]_vars PROVE OrderInv'
  OBVIOUS
<1>1. CASE Arrive \/ Reject \/ Open
  BY <1>1, QuietKeeps DEF Arrive, Reject, Open
<1>2. CASE Retrieve
  <2>1. PICK found \in BOOLEAN : Yield("sources", found) /\ pc' = "generate" /\ sent = << >>
    BY <1>2 DEF Retrieve, OrderInv
  <2>2. <<"sources", found>> \in Frame /\ Unfinished
    BY <2>1 DEF Frame, Unfinished
  <2> QED
    BY <2>1, <2>2, YieldKeeps DEF Terminal
<1>3. CASE Fallback \/ NextDelta
  <2>1. Unfinished /\ pc' \in {"stream", "finish"}
    BY <1>3 DEF Fallback, NextDelta, OrderInv
  <2>2. PICK delta \in Delta \cup {"NO_INFO"} : Yield("token", delta)
    BY <1>3 DEF Fallback, NextDelta, Emit
  <2>3. <<"token", delta>> \in Frame
    BY DEF Frame
  <2> QED
    BY <2>1, <2>2, <2>3, YieldKeeps DEF Terminal
<1>4. CASE Begin \/ UsageChunk \/ EndOfStream
  <2>1. Unfinished /\ UNCHANGED sent /\ pc' \in {"stream", "tail", "finish"}
    BY <1>4 DEF Begin, UsageChunk, EndOfStream, OrderInv
  <2> QED
    BY <2>1, QuietKeeps
<1>5. ASSUME Awaiting PROVE Unfinished
  BY <1>5 DEF Awaiting, OrderInv, Unfinished
<1>6. CASE OpenAIFails
  <2>1. Unfinished /\ pc' = "finish" /\ Yield("token", "NO_INFO")
    BY <1>5, <1>6 DEF OpenAIFails
  <2>2. <<"token", "NO_INFO">> \in Frame
    BY DEF Frame
  <2> QED
    BY <2>1, <2>2, YieldKeeps DEF Terminal
<1>7. CASE OtherFails
  <2>1. Unfinished /\ pc' = "failing" /\ Yield("error", FALSE)
    BY <1>5, <1>7 DEF OtherFails
  <2>2. <<"error", FALSE>> \in Frame
    BY DEF Frame
  <2> QED
    BY <2>1, <2>2, YieldKeeps
<1>8. CASE Finish
  <2>1. Unfinished /\ pc' = "closed"
    BY <1>8 DEF Finish, OrderInv
  <2>2. PICK cited \in BOOLEAN : Yield("done", cited)
    BY <1>8 DEF Finish
  <2>3. <<"done", cited>> \in Frame
    BY DEF Frame
  <2> QED
    BY <2>1, <2>2, <2>3, YieldKeeps
<1>9. CASE Return \/ Cancel
  BY <1>9, QuietKeeps DEF Return, Cancel
<1>10. CASE ReadFrame \/ Leave \/ UNCHANGED vars
  <2>1. UNCHANGED <<sent, pc>>
    BY <1>10 DEF ReadFrame, Leave, vars
  <2> QED
    BY <2>1, QuietKeeps DEF OrderInv
<1> QED
  BY <1>1, <1>2, <1>3, <1>4, <1>6, <1>7, <1>8, <1>9, <1>10 DEF Next, Serve

\* Sources come first or not at all, and the frame that ends a stream is the
\* last, wherever the model, the store or the browser gives up (ADR-0031).
THEOREM OrderTheorem == Spec => []FrameOrder
<1>1. OrderInv => FrameOrder
  BY DEF OrderInv
<1> QED
  BY <1>1, OrderInit, OrderNext, PTL DEF Spec

-----------------------------------------------------------------------------
Yielded(event) == \E k \in DOMAIN sent : Event(k) = event

\* Only the end of the stream counts it, and only an error, which has been
\* counted as one, is followed by nothing but the "finally" block.
CountInv ==
    /\ pc \in {"arriving", "admitted", "rejected", "retrieve"} => sent = << >>
    /\ pc # "closed" => total = 0 /\ tokens = 0 /\ ~Yielded("done")
    /\ Yielded("error") => errors = 1 /\ total = 0 /\ pc \in {"failing", "closed"}
    /\ OutcomeCounted

LEMMA CountInit == Init => CountInv
  BY DEF Init, CountInv, OutcomeCounted, Yielded

\* What a frame adds to the events of a stream.
LEMMA YieldAdds ==
    ASSUME sent \in Seq(Frame), NEW event, NEW data, Yield(event, data), NEW other
    PROVE  Yielded(other)' <=> Yielded(other) \/ other = event
<1>1. /\ DOMAIN sent = 1 .. Len(sent) /\ Len(sent) \in Nat
      /\ DOMAIN sent' = 1 .. Len(sent) + 1
      /\ \A k \in 1 .. Len(sent) : sent'[k] = sent[k]
      /\ sent'[Len(sent) + 1] = <<event, data>>
  BY DEF Yield
<1>2. ASSUME Yielded(other)' PROVE Yielded(other) \/ other = event
  <2>1. PICK k \in 1 .. Len(sent) + 1 : sent'[k][1] = other
    BY <1>1, <1>2 DEF Yielded, Event
  <2>2. CASE k = Len(sent) + 1
    BY <1>1, <2>1, <2>2
  <2>3. CASE k \in 1 .. Len(sent)
    BY <1>1, <2>1, <2>3 DEF Yielded, Event
  <2> QED
    BY <1>1, <2>2, <2>3
<1>3. ASSUME Yielded(other) PROVE Yielded(other)'
  <2>1. PICK k \in 1 .. Len(sent) : sent[k][1] = other
    BY <1>1, <1>3 DEF Yielded, Event
  <2>2. k \in DOMAIN sent' /\ sent'[k][1] = other
    BY <1>1, <2>1
  <2> QED
    BY <2>2 DEF Yielded, Event
<1>4. ASSUME other = event PROVE Yielded(other)'
  <2>1. Len(sent) + 1 \in DOMAIN sent' /\ sent'[Len(sent) + 1][1] = other
    BY <1>1, <1>4
  <2> QED
    BY <2>1 DEF Yielded, Event
<1> QED
  BY <1>2, <1>3, <1>4

\* A frame in the middle of the stream counts nothing.
LEMMA YieldCounts ==
    ASSUME CountInv, sent \in Seq(Frame), NEW event, NEW data, Yield(event, data),
           event \notin Terminal, pc # "closed", ~Yielded("error"),
           UNCHANGED <<total, tokens>>, pc' \in {"generate", "stream", "finish"}
    PROVE  CountInv'
<1>1. (Yielded("done")' <=> Yielded("done")) /\ (Yielded("error")' <=> Yielded("error"))
  BY YieldAdds DEF Terminal
<1> QED
  BY <1>1 DEF CountInv, OutcomeCounted

LEMMA CountNext == OrderInv /\ CountInv /\ [Next]_vars => CountInv'
<1> SUFFICES ASSUME OrderInv, CountInv, [Next]_vars PROVE CountInv'
  OBVIOUS
<1> DEFINE quiet == UNCHANGED <<sent, total, tokens>>
<1>1. sent \in Seq(Frame)
  BY DEF OrderInv
<1>2. ASSUME UNCHANGED sent, NEW event PROVE Yielded(event)' <=> Yielded(event)
  BY <1>2 DEF Yielded, Event
<1>3. ASSUME Awaiting \/ pc \in {"generate", "finish"} PROVE pc # "closed" /\ ~Yielded("error")
  BY <1>3 DEF Awaiting, CountInv
<1>4. CASE Arrive \/ Reject \/ Open
  <2>1. quiet /\ UNCHANGED errors /\ sent = << >> /\ pc # "closed" /\ pc' \in {"admitted", "rejected", "retrieve"}
    BY <1>4 DEF Arrive, Reject, Open, metrics, CountInv
  <2>2. ~Yielded("error")
    BY <2>1 DEF Yielded
  <2> QED
    BY <1>2, <2>1, <2>2 DEF CountInv, OutcomeCounted
<1>5. CASE Retrieve
  <2>1. /\ \E found \in BOOLEAN : Yield("sources", found)
        /\ UNCHANGED <<total, tokens>> /\ pc = "retrieve" /\ pc' = "generate"
    BY <1>5 DEF Retrieve, metrics
  <2>2. pc # "closed" /\ ~Yielded("error")
    BY <1>3, <2>1 DEF Awaiting
  <2> QED
    BY <1>1, <2>1, <2>2, YieldCounts DEF Terminal
<1>6. CASE Fallback \/ NextDelta
  <2>1. /\ \E delta \in Delta \cup {"NO_INFO"} : Yield("token", delta)
        /\ UNCHANGED <<total, tokens>> /\ pc \in {"generate", "stream"} /\ pc' \in {"stream", "finish"}
    BY <1>6 DEF Fallback, NextDelta, Emit
  <2>2. pc # "closed" /\ ~Yielded("error")
    BY <1>3, <2>1 DEF Awaiting
  <2> QED
    BY <1>1, <2>1, <2>2, YieldCounts DEF Terminal
<1>7. CASE Begin \/ UsageChunk \/ EndOfStream
  <2>1. quiet /\ pc \in {"generate", "stream", "tail"} /\ pc' \in {"stream", "tail", "finish"}
    BY <1>7 DEF Begin, UsageChunk, EndOfStream, metrics
  <2>2. pc # "closed" /\ ~Yielded("error")
    BY <1>3, <2>1 DEF Awaiting
  <2> QED
    BY <1>2, <2>1, <2>2 DEF CountInv, OutcomeCounted
<1>8. CASE OpenAIFails
  <2>1. /\ Yield("token", "NO_INFO")
        /\ UNCHANGED <<total, tokens>> /\ pc' = "finish" /\ Awaiting
    BY <1>8 DEF OpenAIFails
  <2> QED
    BY <1>1, <1>3, <2>1, YieldCounts DEF Terminal
<1>9. CASE OtherFails
  <2>1. /\ \E data \in BOOLEAN : Yield("error", data)
        /\ UNCHANGED <<total, tokens>> /\ errors' = 1 /\ pc' = "failing" /\ Awaiting
    BY <1>9 DEF OtherFails
  <2>2. Yielded("done")' <=> Yielded("done")
    <3>1. PICK data \in BOOLEAN : Yield("error", data)
      BY <2>1
    <3>2. Yielded("done")' <=> Yielded("done") \/ "done" = "error"
      BY <1>1, <3>1, YieldAdds
    <3> QED
      BY <3>2
  <2>3. pc # "closed"
    BY <1>3, <2>1
  <2> QED
    BY <2>1, <2>2, <2>3 DEF CountInv, OutcomeCounted
<1>10. CASE Return \/ Cancel
  <2>1. quiet /\ UNCHANGED errors /\ latencies' = 1 /\ pc # "closed" /\ pc' = "closed"
    BY <1>10 DEF Return, Cancel, Active
  <2>2. total = 0 /\ tokens = 0 /\ ~Yielded("done")
    BY <2>1 DEF CountInv
  <2>3. (Yielded("error") => errors = 1) /\ (Yielded("error")' <=> Yielded("error"))
    BY <1>2, <2>1 DEF CountInv
  <2>4. ~Yielded("done")' /\ total' = 0 /\ tokens' = 0
    BY <1>2, <2>1, <2>2
  <2>5. OutcomeCounted'
    BY <2>1, <2>3, <2>4 DEF OutcomeCounted, Yielded
  <2> QED
    BY <2>1, <2>3, <2>4, <2>5 DEF CountInv
<1>11. CASE Finish
  <2>1. /\ \E cited \in BOOLEAN : Yield("done", cited)
        /\ latencies' = 1 /\ total' = 1 /\ tokens' = usage /\ UNCHANGED <<usage, errors>>
        /\ pc = "finish" /\ pc' = "closed"
    BY <1>11 DEF Finish
  <2>2. Yielded("done")' /\ ~Yielded("error")'
    BY <1>1, <1>3, <2>1, YieldAdds
  <2>3. OutcomeCounted'
    BY <2>1, <2>2 DEF OutcomeCounted, Yielded
  <2> QED
    BY <2>1, <2>2, <2>3 DEF CountInv
<1>12. CASE ReadFrame \/ Leave \/ UNCHANGED vars
  <2>1. UNCHANGED <<sent, pc, usage, metrics>>
    BY <1>12 DEF ReadFrame, Leave, vars
  <2> QED
    BY <1>2, <2>1 DEF CountInv, OutcomeCounted, metrics, Yielded, Event
<1> QED
  BY <1>4, <1>5, <1>6, <1>7, <1>8, <1>9, <1>10, <1>11, <1>12 DEF Next, Serve

\* However a stream ends, by its last frame, an error or a browser that leaves,
\* it is timed, and counted as a query with its tokens only in the first case.
THEOREM CountTheorem == Spec => []OutcomeCounted
<1>1. CountInv => OutcomeCounted
  BY DEF CountInv
<1> QED
  BY <1>1, OrderInit, OrderNext, CountInit, CountNext, PTL DEF Spec

-----------------------------------------------------------------------------
\* What the browser shows

Text == Delta \cup {"NO_INFO"}

\* What has been sent while no error was counted: the sources, a token for each
\* part of the answer, and the last frame once the generator has finished.
SentInv ==
    /\ sent = << >> => parts = << >>
    /\ sent # << >> =>
          /\ Len(sent) = Len(parts) + 1 \/ Len(sent) = Len(parts) + 2
          /\ sent[1] = <<"sources", passages>>
          /\ \A k \in 1 .. Len(parts) : sent[k + 1] = <<"token", parts[k]>>
    /\ Len(sent) = Len(parts) + 2 =>
          /\ pc = "closed"
          /\ sent[Len(sent)][1] = "done"
          /\ sent[Len(sent)][2] = TRUE => passages /\ Contains(parts, "cite")
    /\ pc \in {"arriving", "admitted", "rejected", "retrieve"} => sent = << >>
    /\ pc \in {"generate", "stream", "tail", "finish"} => Len(sent) = Len(parts) + 1

\* What the browser shows of the answer: the parts whose frames it has handled.
ShownInv ==
    /\ Len(shown) = IF read = 0 THEN 0 ELSE IF read - 1 <= Len(parts) THEN read - 1 ELSE Len(parts)
    /\ \A k \in 1 .. Len(shown) : shown[k] = parts[k]

ViewTypes ==
    /\ parts \in Seq(Text) /\ shown \in Seq(Text) /\ sent \in Seq(Frame)
    /\ read \in 0 .. Len(sent)
    /\ passages \in BOOLEAN

\* A last frame with citations was sent.
Cited == \E k \in DOMAIN sent : sent[k] = <<"done", TRUE>>

\* A last frame with citations is only sent of an answer that did not fail.
ViewInv ==
    /\ ViewTypes
    /\ errors = 0 => SentInv /\ ShownInv
    /\ pc \notin {"failing", "closed"} /\ (passages \/ pc # "finish") => errors = 0
    /\ Cited => errors = 0

LEMMA ViewInit == Init => ViewInv
<1> SUFFICES ASSUME Init PROVE ViewInv
  OBVIOUS
<1>1. << >> \in Seq(Text) /\ << >> \in Seq(Frame)
  OBVIOUS
<1> QED
  <2>1. /\ sent = << >> /\ parts = << >> /\ shown = << >> /\ read = 0 /\ passages = FALSE
        /\ errors = 0 /\ pc = "arriving"
    BY DEF Init
  <2>3. Len(sent) = 0 /\ Len(parts) = 0 /\ Len(shown) = 0
    BY <2>1
  <2>2. ViewTypes
    <3>1. read \in 0 .. Len(sent)
      BY <2>1, <2>3
    <3>2. passages \in BOOLEAN
      BY <2>1
    <3> QED
      BY <1>1, <2>1, <3>1, <3>2 DEF ViewTypes
  <2>4. SentInv
    BY <2>1, <2>3 DEF SentInv
  <2>5. ShownInv
    BY <2>1, <2>3 DEF ShownInv
  <2> QED
    BY <2>1, <2>2, <2>4, <2>5 DEF ViewInv

\* A frame more.
LEMMA Appended ==
    ASSUME NEW S, NEW s \in Seq(S), NEW e \in S, NEW t, t = Append(s, e)
    PROVE  /\ t \in Seq(S) /\ Len(s) \in Nat /\ Len(t) = Len(s) + 1 /\ t # << >>
           /\ DOMAIN s = 1 .. Len(s) /\ DOMAIN t = 1 .. Len(s) + 1
           /\ t[Len(s) + 1] = e /\ \A k \in 1 .. Len(s) : t[k] = s[k]
  OBVIOUS

\* A delta is added on both sides.
LEMMA EmitView ==
    ASSUME ViewInv, pc \in {"generate", "stream"}, NEW delta \in Text, Emit(delta),
           pc' \in {"stream", "finish"}, UNCHANGED <<passages, client>>
    PROVE  ViewInv'
<1>1. /\ parts' = Append(parts, delta) /\ sent' = Append(sent, <<"token", delta>>)
      /\ UNCHANGED <<errors, passages, read, shown>>
  BY DEF Emit, Yield, client
<1>2. <<"token", delta>> \in Frame /\ parts \in Seq(Text) /\ sent \in Seq(Frame) /\ read \in 0 .. Len(sent)
  BY DEF ViewInv, ViewTypes, Frame, Text
<1>3. /\ parts' \in Seq(Text) /\ Len(parts) \in Nat /\ Len(parts') = Len(parts) + 1
      /\ parts'[Len(parts) + 1] = delta /\ \A k \in 1 .. Len(parts) : parts'[k] = parts[k]
  BY <1>1, <1>2, Appended
<1>4. /\ sent' \in Seq(Frame) /\ Len(sent) \in Nat /\ Len(sent') = Len(sent) + 1 /\ sent' # << >>
      /\ DOMAIN sent = 1 .. Len(sent) /\ DOMAIN sent' = 1 .. Len(sent) + 1
      /\ sent'[Len(sent) + 1] = <<"token", delta>> /\ \A k \in 1 .. Len(sent) : sent'[k] = sent[k]
  BY <1>1, <1>2, Appended
<1>5. ViewTypes'
  BY <1>1, <1>2, <1>3, <1>4 DEF ViewInv, ViewTypes
<1>6. ASSUME errors' = 0 PROVE SentInv' /\ ShownInv'
  <2>1. errors = 0 /\ SentInv /\ ShownInv
    BY <1>1, <1>6 DEF ViewInv
  <2>2. Len(sent) = Len(parts) + 1 /\ sent # << >>
    BY <1>2, <1>3, <2>1 DEF SentInv
  <2>3. sent'[1] = <<"sources", passages>>
    BY <1>3, <1>4, <2>1, <2>2 DEF SentInv
  <2>4. ASSUME NEW k \in 1 .. Len(parts') PROVE sent'[k + 1] = <<"token", parts'[k]>>
    <3>1. CASE k = Len(parts) + 1
      BY <1>3, <1>4, <2>2, <3>1
    <3>2. CASE k \in 1 .. Len(parts)
      <4>1. k + 1 \in 1 .. Len(sent)
        BY <1>3, <2>2, <3>2
      <4> QED
        BY <1>3, <1>4, <2>1, <2>2, <3>2, <4>1 DEF SentInv
    <3> QED
      BY <1>3, <3>1, <3>2
  <2>5. SentInv'
    <3>1. Len(sent') = Len(parts') + 1 /\ Len(sent') # Len(parts') + 2
      BY <1>3, <1>4, <2>2
    <3> QED
      BY <1>1, <1>4, <2>3, <2>4, <3>1 DEF SentInv
  <2>6. ShownInv'
    <3>1. read \in Nat /\ read <= Len(parts) + 1
      BY <1>2, <1>3, <2>2
    <3>2. Len(shown) = IF read = 0 THEN 0 ELSE read - 1
      BY <1>3, <2>1, <3>1 DEF ShownInv
    <3>3. Len(shown) <= Len(parts) /\ Len(shown) \in Nat
      BY <1>3, <3>1, <3>2
    <3>4. \A k \in 1 .. Len(shown) : shown[k] = parts'[k]
      BY <1>3, <2>1, <3>3 DEF ShownInv
    <3> QED
      BY <1>1, <1>3, <3>1, <3>2, <3>3, <3>4 DEF ShownInv
  <2> QED
    BY <2>5, <2>6
<1>7. ASSUME Cited' PROVE errors' = 0
  <2>1. PICK k \in 1 .. Len(sent) + 1 : sent'[k] = <<"done", TRUE>>
    BY <1>4, <1>7 DEF Cited
  <2>2. <<"done", TRUE>> # <<"token", delta>>
    OBVIOUS
  <2>3. k \in 1 .. Len(sent)
    BY <1>4, <2>1, <2>2
  <2> QED
    BY <1>1, <1>4, <2>1, <2>3 DEF ViewInv, Cited
<1> QED
  BY <1>1, <1>5, <1>6, <1>7 DEF ViewInv

\* The last frame.
LEMMA FinishView ==
    ASSUME ViewInv, Finish
    PROVE  ViewInv'
<1> DEFINE cited == passages /\ Contains(parts, "cite")
           last == <<"done", cited>>
<1>1. /\ sent' = Append(sent, last) /\ pc = "finish" /\ pc' = "closed"
      /\ UNCHANGED <<errors, passages, parts, read, shown>>
  BY DEF Finish, Yield, client
<1>2. cited \in BOOLEAN /\ (cited => passages)
  BY DEF ViewInv, ViewTypes
<1>3. last \in Frame /\ (last = <<"done", TRUE>> => passages)
  BY <1>2 DEF Frame
<1>4. last[1] = "done" /\ (last[2] = TRUE => passages /\ Contains(parts, "cite"))
  <2>1. last[1] = "done" /\ last[2] = cited
    <3> HIDE DEF cited
    <3> QED
      OBVIOUS
  <2>2. cited = TRUE => passages /\ Contains(parts, "cite")
    BY <1>2
  <2> HIDE DEF last, cited
  <2> QED
    BY <2>1, <2>2
<1> HIDE DEF last, cited
<1>5. parts \in Seq(Text) /\ sent \in Seq(Frame) /\ read \in 0 .. Len(sent) /\ Len(parts) \in Nat
  BY DEF ViewInv, ViewTypes
<1>6. /\ sent' \in Seq(Frame) /\ Len(sent) \in Nat /\ Len(sent') = Len(sent) + 1 /\ sent' # << >>
      /\ DOMAIN sent = 1 .. Len(sent) /\ DOMAIN sent' = 1 .. Len(sent) + 1
      /\ sent'[Len(sent) + 1] = last /\ \A k \in 1 .. Len(sent) : sent'[k] = sent[k]
  BY <1>1, <1>3, <1>5, Appended
<1>7. ViewTypes'
  BY <1>1, <1>5, <1>6 DEF ViewInv, ViewTypes
<1>8. ASSUME errors' = 0 PROVE SentInv' /\ ShownInv'
  <2>1. errors = 0 /\ SentInv /\ ShownInv
    BY <1>1, <1>8 DEF ViewInv
  <2>2. Len(sent) = Len(parts) + 1 /\ sent # << >>
    BY <1>1, <1>5, <2>1 DEF SentInv
  <2>3. sent'[1] = <<"sources", passages>>
    BY <1>5, <1>6, <2>1, <2>2 DEF SentInv
  <2>4. \A k \in 1 .. Len(parts) : sent'[k + 1] = <<"token", parts[k]>>
    <3>1. \A k \in 1 .. Len(parts) : k + 1 \in 1 .. Len(sent)
      BY <1>5, <2>2
    <3> QED
      BY <1>6, <2>1, <2>2, <3>1 DEF SentInv
  <2>5. Len(sent') = Len(parts) + 2 /\ sent'[Len(sent')] = last
    BY <1>5, <1>6, <2>2
  <2> QED
    BY <1>1, <1>4, <1>6, <2>1, <2>3, <2>4, <2>5 DEF SentInv, ShownInv
<1>9. ASSUME Cited' PROVE errors' = 0
  <2>1. PICK k \in 1 .. Len(sent) + 1 : sent'[k] = <<"done", TRUE>>
    BY <1>6, <1>9 DEF Cited
  <2>2. CASE k = Len(sent) + 1
    BY <1>1, <1>3, <1>6, <2>1, <2>2 DEF ViewInv
  <2>3. CASE k \in 1 .. Len(sent)
    BY <1>1, <1>6, <2>1, <2>3 DEF ViewInv, Cited
  <2> QED
    BY <1>6, <2>1, <2>2, <2>3
<1> QED
  BY <1>1, <1>7, <1>8, <1>9 DEF ViewInv

LEMMA TokenData ==
    ASSUME NEW frame \in Frame, frame[1] = "token"
    PROVE  frame[2] \in Text
<1>1. CASE frame \in {"sources"} \X BOOLEAN
  BY <1>1
<1>2. CASE frame \in {"token"} \X (Delta \cup {"NO_INFO"})
  BY <1>2 DEF Text
<1>3. CASE frame \in {"done"} \X BOOLEAN
  BY <1>3
<1>4. CASE frame = <<"error", FALSE>>
  BY <1>4
<1> QED
  BY <1>1, <1>2, <1>3, <1>4 DEF Frame

\* The browser handles the next frame.
LEMMA ReadView ==
    ASSUME ViewInv, ReadFrame
    PROVE  ViewInv'
<1>1. /\ read < Len(sent) /\ read' = read + 1
      /\ shown' = IF sent[read'][1] = "token" THEN Append(shown, sent[read'][2]) ELSE shown
      /\ UNCHANGED <<errors, passages, pc, parts, sent>>
  BY DEF ReadFrame, metrics
<1>2. /\ parts \in Seq(Text) /\ shown \in Seq(Text) /\ sent \in Seq(Frame) /\ read \in Nat
      /\ Len(sent) \in Nat /\ Len(parts) \in Nat /\ read' \in 1 .. Len(sent)
  BY <1>1 DEF ViewInv, ViewTypes
<1>3. sent[read'] \in Frame
  BY <1>2
<1>4. sent[read'][1] = "token" => sent[read'][2] \in Text
  BY <1>3, TokenData
<1>5. shown' \in Seq(Text)
  BY <1>1, <1>2, <1>4
<1>6. ViewTypes'
  BY <1>1, <1>2, <1>5 DEF ViewInv, ViewTypes
<1>7. ASSUME errors' = 0 PROVE SentInv' /\ ShownInv'
  <2>1. SentInv /\ ShownInv
    BY <1>1, <1>7 DEF ViewInv
  <2>2. SentInv'
    BY <1>1, <2>1 DEF SentInv
  <2>3. sent # << >>
    BY <1>2
  <2>4. CASE read = 0
    <3>1. sent[read'] = <<"sources", passages>>
      BY <1>1, <2>1, <2>3, <2>4 DEF SentInv
    <3>2. shown' = shown /\ read' = 1 /\ Len(shown) = 0
      BY <1>1, <2>1, <2>4, <3>1 DEF ShownInv
    <3> QED
      BY <1>1, <1>2, <2>1, <2>2, <3>2 DEF ShownInv
  <2>5. CASE read \in 1 .. Len(parts)
    <3>1. sent[read + 1] = <<"token", parts[read]>>
      BY <2>1, <2>3, <2>5 DEF SentInv
    <3>2. shown' = Append(shown, parts[read])
      BY <1>1, <3>1
    <3>3. Len(shown) = read - 1 /\ parts[read] \in Text
      BY <1>2, <2>1, <2>5 DEF ShownInv
    <3>4. Len(shown') = read /\ shown'[read] = parts[read] /\ \A k \in 1 .. read - 1 : shown'[k] = shown[k]
      <4>1. /\ Len(shown') = Len(shown) + 1 /\ shown'[Len(shown) + 1] = parts[read]
            /\ \A k \in 1 .. Len(shown) : shown'[k] = shown[k]
        BY <1>2, <3>2, <3>3, Appended
      <4> QED
        BY <1>2, <3>3, <4>1
    <3>5. \A k \in 1 .. read : shown'[k] = parts[k]
      BY <1>2, <2>1, <3>3, <3>4 DEF ShownInv
    <3>6. read' # 0 /\ read' - 1 = read /\ read <= Len(parts)
      BY <1>1, <1>2, <2>5
    <3> QED
      BY <1>1, <2>2, <3>4, <3>5, <3>6 DEF ShownInv
  <2>6. CASE read > Len(parts)
    <3>1. Len(sent) = Len(parts) + 2 /\ read = Len(parts) + 1
      BY <1>1, <1>2, <2>1, <2>3, <2>6 DEF SentInv
    <3>2. sent[read'][1] = "done"
      BY <1>1, <2>1, <3>1 DEF SentInv
    <3>3. shown' = shown
      BY <1>1, <3>2
    <3>4. Len(shown) = Len(parts) /\ read' = Len(parts) + 2
      BY <1>1, <1>2, <2>1, <3>1 DEF ShownInv
    <3>5. read' # 0 /\ ~(read' - 1 <= Len(parts))
      BY <1>2, <3>4
    <3>6. \A k \in 1 .. Len(shown') : shown'[k] = parts'[k]
      BY <1>1, <2>1, <3>3 DEF ShownInv
    <3> QED
      BY <1>1, <2>2, <3>3, <3>4, <3>5, <3>6 DEF ShownInv
  <2> QED
    BY <1>2, <2>4, <2>5, <2>6
<1> QED
  BY <1>1, <1>6, <1>7 DEF ViewInv, Cited

LEMMA ViewNext == ViewInv /\ OrderInv /\ [Next]_vars => ViewInv'
<1> SUFFICES ASSUME ViewInv, OrderInv, [Next]_vars PROVE ViewInv'
  OBVIOUS
<1>1. CASE Arrive \/ Reject \/ Open
  <2>1. /\ UNCHANGED <<errors, passages, parts, sent, read, shown>>
        /\ pc \in {"arriving", "admitted"} /\ pc' \in {"admitted", "rejected", "retrieve"}
    BY <1>1 DEF Arrive, Reject, Open, client, metrics
  <2> QED
    BY <2>1 DEF ViewInv, ViewTypes, SentInv, ShownInv, Cited
<1>2. CASE Retrieve
  <2>1. /\ UNCHANGED <<errors, parts, read, shown>> /\ passages' \in BOOLEAN
        /\ pc = "retrieve" /\ pc' = "generate" /\ sent' = Append(sent, <<"sources", passages'>>)
    BY <1>2 DEF Retrieve, Yield, client, metrics
  <2>2. sent = << >> /\ <<"sources", passages'>> \in Frame
    BY <2>1 DEF OrderInv, Frame
  <2>3. /\ sent' \in Seq(Frame) /\ Len(sent') = 1 /\ sent' # << >> /\ DOMAIN sent' = 1 .. 1
        /\ sent'[1] = <<"sources", passages'>>
    BY <2>1, <2>2
  <2>4. read = 0
    BY <2>2 DEF ViewInv, ViewTypes
  <2>5. ViewTypes'
    BY <2>1, <2>3, <2>4 DEF ViewInv, ViewTypes
  <2>6. errors' = 0 => SentInv' /\ ShownInv'
    <3> SUFFICES ASSUME errors = 0 PROVE SentInv' /\ ShownInv'
      BY <2>1
    <3>1. SentInv /\ ShownInv
      BY DEF ViewInv
    <3>2. parts = << >> /\ Len(parts) = 0
      BY <2>2, <3>1 DEF SentInv
    <3>3. ShownInv'
      BY <2>1, <3>1 DEF ShownInv
    <3> QED
      BY <2>1, <2>3, <3>2, <3>3 DEF SentInv
  <2>7. ~Cited'
    <3>1. \A k \in 1 .. 1 : k = 1
      OBVIOUS
    <3>2. sent'[1] # <<"done", TRUE>>
      BY <2>3
    <3> QED
      BY <2>3, <3>1, <3>2 DEF Cited
  <2>8. errors = 0
    BY <2>1 DEF ViewInv
  <2> QED
    BY <2>1, <2>5, <2>6, <2>7, <2>8 DEF ViewInv
<1>3. CASE Fallback \/ NextDelta
  <2>1. /\ pc \in {"generate", "stream"} /\ pc' \in {"stream", "finish"} /\ UNCHANGED <<passages, client>>
        /\ \E delta \in Text : Emit(delta)
    BY <1>3 DEF Fallback, NextDelta, Text
  <2> QED
    BY <2>1, EmitView
<1>4. CASE Begin \/ UsageChunk \/ EndOfStream
  <2>1. /\ UNCHANGED <<errors, passages, parts, sent, read, shown>>
        /\ pc \in {"generate", "stream", "tail"} /\ pc' \in {"stream", "tail", "finish"}
    BY <1>4 DEF Begin, UsageChunk, EndOfStream, client, metrics
  <2> QED
    BY <2>1 DEF ViewInv, ViewTypes, SentInv, ShownInv, Cited
<1>5. CASE OpenAIFails
  <2>1. /\ errors' = 1 /\ pc' = "finish" /\ passages' = FALSE /\ parts' = <<"NO_INFO">> /\ UNCHANGED <<read, shown>>
        /\ sent' = Append(sent, <<"token", "NO_INFO">>) /\ Awaiting
    BY <1>5 DEF OpenAIFails, Yield, client
  <2>2. <<"token", "NO_INFO">> \in Frame /\ "NO_INFO" \in Text
    BY DEF Frame, Text
  <2>3. Unfinished /\ sent \in Seq(Frame) /\ read \in 0 .. Len(sent)
    BY <2>1 DEF Awaiting, OrderInv, Unfinished, ViewInv, ViewTypes
  <2>4. /\ sent' \in Seq(Frame) /\ Len(sent) \in Nat /\ Len(sent') = Len(sent) + 1
        /\ DOMAIN sent = 1 .. Len(sent) /\ DOMAIN sent' = 1 .. Len(sent) + 1
        /\ sent'[Len(sent) + 1] = <<"token", "NO_INFO">> /\ \A k \in 1 .. Len(sent) : sent'[k] = sent[k]
    BY <2>1, <2>2, <2>3, Appended
  <2>5. parts' \in Seq(Text)
    BY <2>1, <2>2
  <2>6. ViewTypes'
    <3>1. read' \in 0 .. Len(sent')
      BY <2>1, <2>3, <2>4
    <3>3. passages' \in BOOLEAN
      BY <2>1
    <3>2. shown' \in Seq(Text)
      BY <2>1 DEF ViewInv, ViewTypes
    <3> QED
      BY <2>4, <2>5, <3>1, <3>2, <3>3 DEF ViewTypes
  <2>7. ~Cited'
    <3> SUFFICES ASSUME NEW k \in 1 .. Len(sent) + 1, sent'[k] = <<"done", TRUE>> PROVE FALSE
      BY <2>4 DEF Cited
    <3>1. k \in 1 .. Len(sent)
      BY <2>4
    <3>2. sent[k][1] = "done"
      BY <2>4, <3>1
    <3> QED
      BY <2>3, <2>4, <3>1, <3>2 DEF Unfinished, Event, Terminal
  <2> QED
    BY <2>1, <2>6, <2>7 DEF ViewInv
<1>6. CASE OtherFails
  <2>1. /\ errors' = 1 /\ pc' = "failing" /\ UNCHANGED <<passages, parts, read, shown>>
        /\ sent' = Append(sent, <<"error", FALSE>>) /\ Awaiting
    BY <1>6 DEF OtherFails, Yield, client
  <2>2. <<"error", FALSE>> \in Frame
    BY DEF Frame
  <2>3. Unfinished /\ sent \in Seq(Frame) /\ read \in 0 .. Len(sent)
    BY <2>1 DEF Awaiting, OrderInv, Unfinished, ViewInv, ViewTypes
  <2>4. /\ sent' \in Seq(Frame) /\ Len(sent) \in Nat /\ Len(sent') = Len(sent) + 1
        /\ DOMAIN sent = 1 .. Len(sent) /\ DOMAIN sent' = 1 .. Len(sent) + 1
        /\ sent'[Len(sent) + 1] = <<"error", FALSE>> /\ \A k \in 1 .. Len(sent) : sent'[k] = sent[k]
    <3> DEFINE last == <<"error", FALSE>>
    <3>1. sent' = Append(sent, last) /\ last \in Frame
      BY <2>1, <2>2
    <3> HIDE DEF last
    <3>2. /\ sent' \in Seq(Frame) /\ Len(sent) \in Nat /\ Len(sent') = Len(sent) + 1
          /\ DOMAIN sent = 1 .. Len(sent) /\ DOMAIN sent' = 1 .. Len(sent) + 1
          /\ sent'[Len(sent) + 1] = last /\ \A k \in 1 .. Len(sent) : sent'[k] = sent[k]
      BY <2>3, <3>1, Appended
    <3> QED
      BY <3>2 DEF last
  <2>5. ViewTypes'
    BY <2>1, <2>3, <2>4 DEF ViewInv, ViewTypes
  <2>6. ~Cited'
    <3> SUFFICES ASSUME NEW k \in 1 .. Len(sent) + 1, sent'[k] = <<"done", TRUE>> PROVE FALSE
      BY <2>4 DEF Cited
    <3>1. k \in 1 .. Len(sent)
      BY <2>4
    <3>2. sent[k][1] = "done"
      BY <2>4, <3>1
    <3> QED
      BY <2>3, <2>4, <3>1, <3>2 DEF Unfinished, Event, Terminal
  <2> QED
    BY <2>1, <2>5, <2>6 DEF ViewInv
<1>7. CASE Finish
  BY <1>7, FinishView
<1>8. CASE Return \/ Cancel
  <2>1. /\ UNCHANGED <<errors, passages, parts, sent, read, shown>> /\ pc # "closed" /\ pc' = "closed"
    BY <1>8 DEF Return, Cancel, client, Active
  <2> QED
    BY <2>1 DEF ViewInv, ViewTypes, SentInv, ShownInv, Cited
<1>9. CASE ReadFrame
  BY <1>9, ReadView
<1>10. CASE Leave \/ UNCHANGED vars
  <2>1. UNCHANGED <<errors, passages, parts, sent, read, shown, pc>>
    BY <1>10 DEF Leave, vars, client, metrics
  <2> QED
    BY <2>1 DEF ViewInv, ViewTypes, SentInv, ShownInv, Cited
<1> QED
  BY <1>1, <1>2, <1>3, <1>4, <1>5, <1>6, <1>7, <1>8, <1>9, <1>10 DEF Next, Serve

\* Once the model has failed, only the path of the refusal leads to the last frame:
\* the refusal is the frame before it, and a browser that has handled it shows it.
Refused(k) ==
    /\ sent[k] = <<"token", "NO_INFO">>
    /\ \A m \in DOMAIN sent : m > k => Event(m) = "done"
    /\ read >= k => shown # << >> /\ Last(shown) = "NO_INFO"

FailInv ==
    errors # 0 => (\E k \in DOMAIN sent : Refused(k)) \/ (~ Yielded("done") /\ pc # "finish")

LEMMA FailNext == ViewInv /\ OrderInv /\ FailInv /\ [Next]_vars => FailInv'
<1> SUFFICES ASSUME ViewInv, OrderInv, FailInv, [Next]_vars PROVE FailInv'
  OBVIOUS
<1>1. /\ sent \in Seq(Frame) /\ Len(sent) \in Nat /\ DOMAIN sent = 1 .. Len(sent)
      /\ shown \in Seq(Text) /\ read \in 0 .. Len(sent)
  BY DEF ViewInv, ViewTypes
<1>2. ASSUME errors' = 0 PROVE FailInv'
  BY <1>2 DEF FailInv
<1>3. CASE Arrive \/ Reject \/ Open \/ Retrieve \/ Fallback \/ Begin \/ NextDelta \/ UsageChunk \/ EndOfStream
  <2>1. errors = 0
    BY <1>3 DEF Arrive, Reject, Open, Retrieve, Fallback, Begin, NextDelta, UsageChunk, EndOfStream, ViewInv
  <2>2. errors' = errors
    BY <1>3 DEF Arrive, Reject, Open, Retrieve, Fallback, Begin, NextDelta, UsageChunk, EndOfStream, Emit, metrics
  <2> QED
    BY <1>2, <2>1, <2>2
<1>4. CASE OpenAIFails
  <2>1. sent' = Append(sent, <<"token", "NO_INFO">>) /\ UNCHANGED <<read, shown>>
    BY <1>4 DEF OpenAIFails, Yield, client
  <2>2. <<"token", "NO_INFO">> \in Frame
    BY DEF Frame
  <2>0. PICK k \in Nat : k = Len(sent) + 1
    BY <1>1
  <2>3. DOMAIN sent' = 1 .. k /\ sent'[k] = <<"token", "NO_INFO">>
    BY <1>1, <2>0, <2>1, <2>2, Appended
  <2>4. k \in 1 .. k /\ ~ (read' >= k) /\ \A m \in 1 .. k : ~ (m > k)
    BY <1>1, <2>0, <2>1
  <2>5. Refused(k)'
    BY <2>3, <2>4 DEF Refused
  <2>6. k \in DOMAIN sent'
    BY <2>3, <2>4
  <2> QED
    BY <2>5, <2>6 DEF FailInv
<1>5. CASE OtherFails
  <2>1. Yield("error", FALSE) /\ pc' = "failing" /\ Awaiting
    BY <1>5 DEF OtherFails
  <2>2. Unfinished
    BY <2>1 DEF Awaiting, OrderInv, Unfinished
  <2>3. ~ Yielded("done")
    BY <2>2 DEF Unfinished, Yielded, Terminal
  <2>4. Yielded("done")' <=> Yielded("done") \/ "done" = "error"
    BY <1>1, <2>1, YieldAdds
  <2>5. ~ Yielded("done")'
    BY <2>3, <2>4
  <2> QED
    BY <2>1, <2>5 DEF FailInv
<1>6. CASE Finish
  <2> SUFFICES ASSUME errors # 0 PROVE FailInv'
    BY <1>2, <1>6 DEF Finish
  <2>1. PICK k \in DOMAIN sent : Refused(k)
    BY <1>6 DEF FailInv, Finish
  <2>2. PICK cited \in BOOLEAN : sent' = Append(sent, <<"done", cited>>)
    BY <1>6 DEF Finish, Yield
  <2>3. <<"done", cited>> \in Frame
    BY DEF Frame
  <2>4. /\ DOMAIN sent' = 1 .. Len(sent) + 1 /\ sent'[Len(sent) + 1] = <<"done", cited>>
        /\ \A m \in 1 .. Len(sent) : sent'[m] = sent[m]
    <3> DEFINE last == <<"done", cited>>
    <3>1. sent' = Append(sent, last) /\ last \in Frame
      BY <2>2, <2>3
    <3> HIDE DEF last
    <3>2. /\ DOMAIN sent' = 1 .. Len(sent) + 1 /\ sent'[Len(sent) + 1] = last
          /\ \A m \in 1 .. Len(sent) : sent'[m] = sent[m]
      BY <1>1, <3>1, Appended
    <3> QED
      BY <3>2 DEF last
  <2>5. ASSUME NEW m \in 1 .. Len(sent) + 1, m > k PROVE sent'[m][1] = "done"
    <3>1. CASE m = Len(sent) + 1
      BY <2>4, <3>1
    <3>2. CASE m \in 1 .. Len(sent)
      BY <1>1, <2>1, <2>4, <2>5, <3>2 DEF Refused, Event
    <3> QED
      BY <1>1, <3>1, <3>2
  <2>6. UNCHANGED <<read, shown>>
    BY <1>6 DEF Finish, client
  <2>7. Refused(k)'
    BY <1>1, <2>1, <2>4, <2>5, <2>6 DEF Refused, Event
  <2>8. k \in DOMAIN sent'
    BY <1>1, <2>4
  <2> QED
    BY <2>7, <2>8 DEF FailInv
<1>7. CASE ReadFrame
  <2>1. /\ UNCHANGED <<sent, pc, errors>> /\ read' = read + 1
        /\ shown' = IF sent[read'][1] = "token" THEN Append(shown, sent[read'][2]) ELSE shown
        /\ read < Len(sent)
    BY <1>7 DEF ReadFrame, metrics
  <2>2. ASSUME NEW k \in DOMAIN sent, Refused(k) PROVE Refused(k)'
    <3>1. ASSUME read' >= k PROVE shown' # << >> /\ Last(shown') = "NO_INFO"
      <4>1. CASE read' = k
        <5>1. shown' = Append(shown, "NO_INFO") /\ "NO_INFO" \in Text
          BY <2>1, <2>2, <4>1 DEF Refused, Text
        <5>2. Len(shown') = Len(shown) + 1 /\ shown'[Len(shown) + 1] = "NO_INFO" /\ shown' # << >>
          BY <1>1, <5>1, Appended
        <5> QED
          BY <5>2 DEF Last
      <4>2. CASE read' # k
        <5>1. read' > k /\ read' \in DOMAIN sent /\ read >= k
          BY <1>1, <2>1, <3>1, <4>2
        <5>2. sent[read'][1] = "done"
          BY <2>2, <5>1 DEF Refused, Event
        <5>3. shown' = shown
          BY <2>1, <5>2
        <5> QED
          BY <2>2, <5>1, <5>3 DEF Refused
      <4> QED
        BY <4>1, <4>2
    <3> QED
      BY <2>1, <2>2, <3>1 DEF Refused, Event
  <2>3. Yielded("done")' <=> Yielded("done")
    BY <2>1 DEF Yielded, Event
  <2> QED
    BY <2>1, <2>2, <2>3 DEF FailInv
<1>8. CASE Return \/ Cancel \/ Leave \/ UNCHANGED vars
  <2>1. UNCHANGED <<sent, read, shown, errors>> /\ (pc' = pc \/ pc' = "closed")
    BY <1>8 DEF Return, Cancel, Leave, vars, client, metrics
  <2> QED
    BY <2>1 DEF FailInv, Refused, Yielded, Event
<1> QED
  BY <1>3, <1>4, <1>5, <1>6, <1>7, <1>8 DEF Next, Serve

\* A browser that has the last frame shows exactly the answer the server parsed the
\* citations from, however long, or, if the model failed, something that ends in the
\* refusal; and citations come only with an answer that did not fail, the passages
\* and the markers they resolve.
THEOREM ViewTheorem == Spec => []CompleteView
<1>1. ViewInv /\ OrderInv /\ FailInv => CompleteView
  <2> SUFFICES ASSUME ViewInv, OrderInv, FailInv, NEW n \in 1 .. read, sent[n][1] = "done"
               PROVE  /\ errors = 0 => shown = parts
                      /\ errors # 0 => shown # << >> /\ Last(shown) = "NO_INFO"
                      /\ <<"done", TRUE>> \in Handled =>
                            errors = 0 /\ <<"sources", TRUE>> \in Handled /\ Contains(shown, "cite")
    BY DEF CompleteView, Handled
  <2>1. /\ parts \in Seq(Text) /\ shown \in Seq(Text) /\ sent \in Seq(Frame) /\ read \in 0 .. Len(sent)
        /\ Len(parts) \in Nat /\ Len(shown) \in Nat /\ DOMAIN sent = 1 .. Len(sent) /\ Len(sent) \in Nat
    BY DEF ViewInv, ViewTypes
  <2>2. ASSUME errors = 0
        PROVE  /\ shown = parts /\ 1 \in 1 .. read /\ sent[1] = <<"sources", passages>>
               /\ n = Len(sent) /\ n = Len(parts) + 2
               /\ sent[n][2] = TRUE => passages /\ Contains(parts, "cite")
    <3>1. SentInv /\ ShownInv /\ sent # << >>
      BY <2>1, <2>2 DEF ViewInv
    <3>2. n # 1
      BY <3>1 DEF SentInv
    <3>3. n \notin 2 .. Len(parts) + 1
      <4> SUFFICES ASSUME n \in 2 .. Len(parts) + 1 PROVE FALSE
        OBVIOUS
      <4>1. n - 1 \in 1 .. Len(parts) /\ (n - 1) + 1 = n
        BY <2>1
      <4>2. sent[n] = <<"token", parts[n - 1]>>
        BY <3>1, <4>1 DEF SentInv
      <4> QED
        BY <4>2
    <3>4. n = Len(parts) + 2 /\ Len(sent) = Len(parts) + 2 /\ read = Len(parts) + 2
      <4>1. Len(sent) = Len(parts) + 1 \/ Len(sent) = Len(parts) + 2
        BY <3>1 DEF SentInv
      <4>2. n \in Nat /\ n >= 1 /\ n <= read /\ read <= Len(sent) /\ read \in Nat
        BY <2>1
      <4>3. n > Len(parts) + 1
        BY <2>1, <3>2, <3>3, <4>2
      <4>4. Len(parts) \in Nat /\ Len(sent) \in Nat
        BY <2>1
      <4> QED
        BY ONLY <4>1, <4>2, <4>3, <4>4
    <3>5. Len(shown) = Len(parts)
      BY <2>1, <3>1, <3>4 DEF ShownInv
    <3>6. shown = parts
      BY <2>1, <3>1, <3>5 DEF ShownInv
    <3> QED
      BY <2>1, <3>1, <3>4, <3>6 DEF SentInv
  <2>3. ASSUME <<"done", TRUE>> \in Handled
        PROVE  errors = 0 /\ <<"sources", TRUE>> \in Handled /\ Contains(shown, "cite")
    <3>1. PICK m \in 1 .. read : sent[m] = <<"done", TRUE>>
      BY <2>3 DEF Handled
    <3>2. m \in DOMAIN sent
      BY <2>1
    <3>3. errors = 0
      BY <3>1, <3>2 DEF ViewInv, Cited
    <3>4. SentInv
      BY <3>3 DEF ViewInv
    <3>5. m = n
      <4>1. sent # << >>
        BY <2>1
      <4>2. sent[m][1] = "done"
        BY <3>1
      <4>3. m # 1
        BY <2>2, <3>3, <4>2
      <4>4. m \notin 2 .. Len(parts) + 1
        <5> SUFFICES ASSUME m \in 2 .. Len(parts) + 1 PROVE FALSE
          OBVIOUS
        <5>1. m - 1 \in 1 .. Len(parts) /\ (m - 1) + 1 = m
          BY <2>1
        <5>2. sent[m] = <<"token", parts[m - 1]>>
          BY <3>4, <4>1, <5>1 DEF SentInv
        <5> QED
          BY <4>2, <5>2
      <4> QED
        <5>1. Len(sent) = Len(parts) + 1 \/ Len(sent) = Len(parts) + 2
          BY <3>4, <4>1 DEF SentInv
        <5>2. m \in Nat /\ m >= 1 /\ m <= Len(sent)
          BY <2>1
        <5>3. m > Len(parts) + 1
          BY <2>1, <4>3, <4>4, <5>2
        <5>4. n = Len(parts) + 2
          BY <2>2, <3>3
        <5>5. Len(parts) \in Nat /\ Len(sent) \in Nat
          BY <2>1
        <5> QED
          BY ONLY <5>1, <5>2, <5>3, <5>4, <5>5
    <3>6. sent[n] = <<"done", TRUE>>
      BY <3>1, <3>5
    <3>7. passages /\ Contains(parts, "cite")
      <4>1. sent[n][2] = TRUE
        BY <3>6
      <4> QED
        BY <2>2, <3>3, <4>1
    <3>8. passages = TRUE
      BY <3>7 DEF ViewInv, ViewTypes
    <3>9. sent[1] = <<"sources", TRUE>> /\ 1 \in 1 .. read
      BY <2>2, <3>3, <3>8
    <3>10. <<"sources", TRUE>> \in Handled
      BY <3>9 DEF Handled
    <3> QED
      BY <2>2, <3>3, <3>7, <3>10
  <2>4. ASSUME errors # 0 PROVE shown # << >> /\ Last(shown) = "NO_INFO"
    <3>1. n \in DOMAIN sent
      BY <2>1
    <3>2. Yielded("done")
      BY <3>1 DEF Yielded, Event
    <3>3. PICK k \in DOMAIN sent : Refused(k)
      BY <2>4, <3>2 DEF FailInv
    <3>4. n = Len(sent)
      BY <3>1 DEF OrderInv, FrameOrder, Event, Terminal
    <3>5. read >= k
      BY <2>1, <3>4
    <3> QED
      BY <3>3, <3>5 DEF Refused
  <2> QED
    BY <2>2, <2>3, <2>4
<1>2. Init => FailInv
  BY DEF Init, FailInv
<1> QED
  BY <1>1, <1>2, OrderInit, OrderNext, ViewInit, ViewNext, FailNext, PTL DEF Spec
-----------------------------------------------------------------------------
\* The types of the variables

\* The variables that the page does not show.  While a completion arrives, its
\* call has not been recorded.
CountTypes ==
    /\ enabled \in BOOLEAN /\ spent \in BOOLEAN
    /\ pc \in {"arriving", "admitted", "rejected", "closed"} \cup Active
    /\ consumed \in Nat /\ usage \in 0 .. consumed
    /\ browser \in {"reading", "gone"}
    /\ {total, errors, latencies, ttfts} \subseteq {0, 1} /\ tokens \in Nat
    /\ captured \in BOOLEAN
    /\ pc = "stream" => usage < consumed

LEMMA CountTypesInit == Init => CountTypes
<1> SUFFICES ASSUME Init PROVE CountTypes
  OBVIOUS
<1>1. enabled \in BOOLEAN /\ spent \in BOOLEAN /\ captured \in BOOLEAN
  BY DEF Init
<1>2. pc = "arriving" /\ browser = "reading"
  BY DEF Init
<1>3. consumed = 0 /\ usage = 0 /\ total = 0 /\ errors = 0 /\ latencies = 0 /\ ttfts = 0 /\ tokens = 0
  BY DEF Init
<1> QED
  BY <1>1, <1>2, <1>3 DEF CountTypes

LEMMA CountTypesNext == CountTypes /\ [Next]_vars => CountTypes'
<1> SUFFICES ASSUME CountTypes, [Next]_vars PROVE CountTypes'
  OBVIOUS
<1> USE DEF CountTypes, Active
<1>1. CASE Arrive
  <2>1. /\ spent' \in BOOLEAN /\ pc' = "admitted"
        /\ UNCHANGED <<enabled, consumed, usage, browser, metrics, captured>>
    BY <1>1 DEF Arrive, Charged, client
  <2> QED
    BY <2>1 DEF metrics
<1>2. CASE Reject \/ Open \/ EndOfStream
  BY <1>2 DEF Reject, Open, EndOfStream, client, metrics
<1>3. CASE Retrieve
  BY <1>3 DEF Retrieve, client, metrics
<1>4. CASE Fallback \/ NextDelta
  BY <1>4 DEF Fallback, NextDelta, Emit, client
<1>5. CASE Begin
  BY <1>5 DEF Begin, client, metrics
<1>6. CASE UsageChunk
  BY <1>6 DEF UsageChunk, client, metrics
<1>7. CASE OpenAIFails \/ OtherFails
  <2>1. consumed' \in Nat /\ usage' \in 0 .. consumed'
    <3>1. MayHavePaid
      BY <1>7 DEF OpenAIFails, OtherFails
    <3>2. CASE pc = "retrieve"
      <4>1. PICK n \in {0, 1} : consumed' = consumed + n /\ usage' = usage + n
        BY <3>1, <3>2 DEF MayHavePaid
      <4> QED
        BY <4>1
    <3>3. CASE pc # "retrieve"
      BY <3>1, <3>3 DEF MayHavePaid
    <3> QED
      BY <3>2, <3>3
  <2>2. /\ errors' = 1 /\ pc' \in {"finish", "failing"}
        /\ UNCHANGED <<enabled, spent, browser, total, latencies, ttfts, tokens, captured>>
    BY <1>7 DEF OpenAIFails, OtherFails, client
  <2> QED
    BY <2>1, <2>2
<1>8. CASE Return \/ Cancel
  BY <1>8 DEF Return, Cancel, client
<1>9. CASE Finish
  <2>1. captured' \in BOOLEAN
    BY <1>9 DEF Finish, Capture
  <2>2. /\ latencies' = 1 /\ total' = 1 /\ tokens' = usage /\ pc' = "closed"
        /\ UNCHANGED <<enabled, spent, consumed, usage, browser, errors, ttfts>>
    BY <1>9 DEF Finish, client
  <2> QED
    BY <2>1, <2>2
<1>10. CASE ReadFrame
  BY <1>10 DEF ReadFrame, metrics
<1>11. CASE Leave
  BY <1>11 DEF Leave, metrics
<1>12. CASE UNCHANGED vars
  BY <1>12 DEF vars, client, metrics
<1> QED
  BY <1>1, <1>2, <1>3, <1>4, <1>5, <1>6, <1>7, <1>8, <1>9, <1>10, <1>11, <1>12 DEF Next, Serve

\* The variables of a stream have their types: each metric is counted once at
\* most, no more usage is recorded than was consumed, and the page is never
\* ahead of the frames that were sent.
THEOREM StreamTypes == Spec => []TypeOK
<1>1. ViewInv /\ CountTypes => TypeOK
  BY DEF ViewInv, ViewTypes, CountTypes, TypeOK, Text
<1> QED
  BY <1>1, ViewInit, ViewNext, OrderInit, OrderNext, CountTypesInit, CountTypesNext, PTL DEF Spec
=============================================================================
