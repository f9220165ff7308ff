---------------------------- MODULE StreamProofs ----------------------------
(***************************************************************************)
(* Machine-checked proofs about Stream, for any chunks and bounds.          *)
(***************************************************************************)
EXTENDS Stream, TLAPS

-----------------------------------------------------------------------------
\* Sequences.

\* Joining no pieces gives no text, and joining pieces gives letters.
LEMMA JoinNothing == Joined(<<>>) = <<>>
    BY DEF Joined

LEMMA JoinedType ==
    ASSUME NEW pieces \in Text PROVE Joined(pieces) \in Text
<1>. DEFINE N == IF pieces = <<>> THEN 0 ELSE 2 * Len(pieces) - 1
<1>1. N \in Nat
    BY DEF Text
<1>2. ASSUME NEW n \in 1..N, n % 2 = 1 PROVE pieces[(n + 1) \div 2] \in Letters
  <2>1. pieces # <<>> /\ Len(pieces) \in Nat /\ n \in 1..(2 * Len(pieces) - 1)
    BY <1>2 DEF Text
  <2>2. (n + 1) \div 2 \in 1..Len(pieces)
    BY <2>1
  <2>. QED
    BY <2>2 DEF Text
<1>3. NL \in Letters
    BY DEF Letters
<1>4. Joined(pieces) \in [1..N -> Letters]
    BY <1>2, <1>3 DEF Joined
<1>. QED
    BY <1>1, <1>4 DEF Text

\* A chunk is pieces, and at least one.
LEMMA ChunkIsText == ASSUME NEW c \in Chunks PROVE c \in Text
<1>1. c \in Seq(Pieces) /\ Pieces \subseteq Letters
    BY ChunksType DEF Letters
<1>. QED
    BY <1>1 DEF Text

LEMMA ConcatType == ASSUME NEW s \in Text, NEW t \in Text PROVE s \o t \in Text
    BY DEF Text

LEMMA ConcatNothing == ASSUME NEW s \in Text PROVE s \o <<>> = s /\ <<>> \o s = s
    BY DEF Text

LEMMA ConcatAssociates ==
    ASSUME NEW s \in Text, NEW t \in Text, NEW u \in Text PROVE (s \o t) \o u = s \o (t \o u)
    BY DEF Text

\* The head of what is left moves to the end of what has been written.
LEMMA HeadMoves ==
    ASSUME NEW s \in Text, NEW t \in Text, t # <<>>
    PROVE  /\ Head(t) \in Letters /\ Tail(t) \in Text
           /\ Append(s, Head(t)) \in Text
           /\ Append(s, Head(t)) \o Tail(t) = s \o t
    BY DEF Text

-----------------------------------------------------------------------------
\* Types.

\* What a page can become of a block.
LEMMA ShowType ==
    ASSUME TypeOK
    PROVE  Show(page, block) \in Page
<1>1. page \in Page
    BY DEF TypeOK
<1>2. block.event \in Events /\ Joined(block.data) \in Text
    BY JoinedType DEF TypeOK, Block
<1>3. /\ page.text \o Joined(block.data) \in Text
      /\ page.thoughts \o Joined(block.data) \in Text
      /\ block.event \in {"end", "error"} => Append(page.outcome, block.event) \in Seq({"end", "error"})
  <2>1. page.text \in Text /\ page.thoughts \in Text /\ page.outcome \in Seq({"end", "error"})
    BY <1>1 DEF Page
  <2>. QED
    BY <1>2, <2>1, ConcatType
<1>. QED
    BY <1>1, <1>3 DEF Show, Page

\* What the page has after a line, whatever the line and whether or not it is
\* still there.
LEMMA LinesType ==
    ASSUME TypeOK, \/ UNCHANGED client \/ BlankLine
                   \/ \E e \in Events : EventLine(e)
                   \/ \E d \in Letters : DataLine(d)
    PROVE  /\ block' \in Block
           /\ page' \in Page
<1>1. /\ block \in Block
      /\ page \in Page
    BY DEF TypeOK
<1>2. CASE UNCHANGED client
    BY <1>1, <1>2 DEF client
<1>3. CASE BlankLine
  <2>1. Fresh \in Block
    BY DEF Fresh, Block, Events, Text
  <2>. QED
    BY <1>1, <1>3, <2>1, ShowType DEF BlankLine, client
<1>4. ASSUME NEW e \in Events, EventLine(e)
      PROVE  /\ block' \in Block
             /\ page' \in Page
    BY <1>1, <1>4 DEF EventLine, client, Block
<1>5. ASSUME NEW d \in Letters, DataLine(d)
      PROVE  /\ block' \in Block
             /\ page' \in Page
  <2>1. Append(block.data, d) \in Text
    BY <1>1 DEF Block, Text
  <2>. QED
    BY <1>1, <1>5, <2>1 DEF DataLine, client, Block
<1>. QED
    BY <1>2, <1>3, <1>4, <1>5

\* The three ways the writer changes.
LEMMA EmitType ==
    ASSUME NEW event \in Events, NEW data \in Text
    PROVE  /\ Emit(event, data) \in Writer
           /\ Emit(event, data).at = "event"
    BY DEF Emit, Writer

LEMMA PayloadType == Payload \in Text
    BY DEF Payload, Letters, Text

LEMMA TypeInit == Init => TypeOK
<1>. SUFFICES ASSUME Init PROVE TypeOK
    OBVIOUS
<1>1. <<>> \in Text /\ <<>> \in Seq({"end", "error"})
    BY DEF Text
<1>2. emitting \in Writer /\ emitting.at = "event"
    BY EmitType, PayloadType DEF Init, Events
<1>3. block \in Block
    BY <1>1 DEF Init, Fresh, Events, Block
<1>4. page \in Page /\ row \in Row
    BY <1>1 DEF Init, Page, Row
<1>5. lines \in 0..MaxLines /\ ticks \in 0..MaxTicks
    BY Bounds DEF Init
<1>6. full \in Text /\ partial \in Text /\ said \in Text
    BY <1>1 DEF Init
<1>. QED
    BY <1>2, <1>3, <1>4, <1>5, <1>6 DEF Init, TypeOK

LEMMA RecordType ==
    ASSUME TypeOK, NEW status \in {"ok", "failed", "cancelled"}, Record(status)
    PROVE  row' \in Row /\ refused' \in BOOLEAN
<1>1. full \in Text /\ partial \in Text /\ row \in Row /\ refused \in BOOLEAN
    BY DEF TypeOK
<1>2. PICK text \in Text : text = IF status = "ok" THEN full ELSE partial
    BY <1>1
<1>3. CASE row' = [status |-> status, output |-> text] /\ UNCHANGED refused
    BY <1>1, <1>3 DEF Row
<1>4. CASE refused' = TRUE /\ UNCHANGED row
    BY <1>1, <1>4
<1>. QED
    BY <1>2, <1>3, <1>4 DEF Record

LEMMA TypeStep == TypeOK /\ [Next]_vars => TypeOK'
<1>. SUFFICES ASSUME TypeOK, [Next]_vars PROVE TypeOK'
    OBVIOUS
<1>0. lines \in 0..MaxLines /\ ticks \in 0..MaxTicks
    BY DEF TypeOK
<1>1. /\ partial \in Text /\ full \in Text /\ said \in Text
      /\ emitting \in Writer /\ emitting.event \in Events /\ emitting.left \in Text
    BY DEF TypeOK, Writer
<1>2. CASE WriteEvent
  <2>1. block' \in Block /\ page' \in Page
    BY <1>1, <1>2, LinesType DEF WriteEvent
  <2>2. emitting' \in Writer /\ emitting'.at = "data"
    BY <1>1, <1>2 DEF WriteEvent, Writer
  <2>. QED
    BY <1>2, <2>1, <2>2 DEF WriteEvent, Rest, record, TypeOK
<1>3. CASE WriteData
  <2>1. Head(emitting.left) \in Letters /\ Tail(emitting.left) \in Text
    BY <1>1, <1>3, HeadMoves DEF WriteData
  <2>4. \E d \in Letters : DataLine(d)
    BY <1>3, <2>1 DEF WriteData
  <2>2. block' \in Block /\ page' \in Page
    BY <2>4, LinesType
  <2>3. emitting' \in Writer /\ emitting'.at = "data"
    BY <1>1, <1>3, <2>1 DEF WriteData, Writer
  <2>. QED
    BY <1>3, <2>2, <2>3 DEF WriteData, Rest, record, TypeOK
<1>4. CASE WriteBlank
  <2>1. Idle \in Writer /\ Idle.left = <<>>
    BY DEF Idle, Events, Writer, Text
  <2>2. block' \in Block /\ page' \in Page
    BY <1>4, LinesType DEF WriteBlank
  <2>. QED
    BY <1>4, <2>1, <2>2 DEF WriteBlank, Rest, record, TypeOK
<1>5. CASE Tick
  <2>1. ticks' \in 0..MaxTicks
    BY <1>0, <1>5, Bounds DEF Tick
  <2>. QED
    BY <1>5, <2>1 DEF Tick, TypeOK, client, provider, record
<1>6. CASE Keepalive
  <2>1. UNCHANGED client \/ BlankLine
    BY <1>6 DEF Keepalive
  <2>2. block' \in Block /\ page' \in Page
    BY <2>1, LinesType
  <2>3. UNCHANGED <<pc, full, partial, emitting, gone, expired, record, provider, ticks>> /\ hb' = "waiting"
    BY <1>6 DEF Keepalive
  <2>. QED
    BY <2>2, <2>3 DEF provider, record, TypeOK
<1>7. CASE HeartbeatStops
    BY <1>7 DEF HeartbeatStops, TypeOK, client, provider, record
<1>19. NextLine => lines' \in 0..MaxLines
    BY <1>0, Bounds DEF NextLine
<1>8. ASSUME NEW c \in Chunks, Content(c) \/ Reasoning(c) \/ Unreadable(c) PROVE TypeOK'
  <2>1. c \in Text /\ Joined(c) \in Text
    BY ChunkIsText, JoinedType
  <2>2. partial \o Joined(c) \in Text /\ full \o Joined(c) \in Text /\ said \o Joined(c) \in Text
    BY <1>1, <2>1, ConcatType
  <2>3. \A e \in {"delta", "reasoning"} :
            /\ Emit(e, c) \in Writer
            /\ Emit(e, c).at = "event"
    BY <2>1, EmitType DEF Events
  <2>4. CASE Content(c)
    <3>1. NextLine /\ emitting' \in Writer /\ emitting'.at = "event"
        BY <2>3, <2>4 DEF Content
    <3>. QED
        BY <1>19, <2>2, <2>4, <3>1 DEF Content, NextLine, Outside, client, record, TypeOK
  <2>5. CASE Reasoning(c)
    <3>1. NextLine /\ emitting' \in Writer /\ emitting'.at = "event"
        BY <2>3, <2>5 DEF Reasoning
    <3>. QED
        BY <1>19, <2>5, <3>1 DEF Reasoning, NextLine, Outside, client, record, TypeOK
  <2>6. CASE Unreadable(c)
    <3>1. NextLine /\ noted' \subseteq {"unreadable", "error", "blank error", "done"}
        BY <2>6 DEF Unreadable, TypeOK
    <3>. QED
        BY <1>19, <2>2, <2>6, <3>1 DEF Unreadable, NextLine, Outside, client, record, TypeOK
  <2>. QED
    BY <1>8, <2>4, <2>5, <2>6
<1>9. ASSUME NEW message \in BOOLEAN, ErrorEvent(message) PROVE TypeOK'
  <2>1. NextLine /\ noted' \subseteq {"unreadable", "error", "blank error", "done"}
    BY <1>9 DEF ErrorEvent, TypeOK
  <2>. QED
    BY <1>9, <1>19, <2>1 DEF ErrorEvent, NextLine, Outside, client, record, TypeOK
<1>10. CASE EndMark
  <2>1. NextLine /\ noted' \subseteq {"unreadable", "error", "blank error", "done"}
    BY <1>10 DEF EndMark, TypeOK
  <2>. QED
    BY <1>10, <1>19, <2>1 DEF EndMark, NextLine, Outside, client, record, TypeOK
<1>11. CASE Answers
    BY <1>11 DEF Answers, Accept, Reject, EndOfBody, ReadFails, Outside, client, record, TypeOK
<1>12. \A e \in {"end", "error"} :
            /\ Emit(e, Payload) \in Writer
            /\ Emit(e, Payload).at = "event"
    BY PayloadType, EmitType DEF Events
<1>13. CASE FinishError
  <2>1. row' \in Row /\ refused' \in BOOLEAN
    BY <1>13, RecordType DEF FinishError
  <2>. QED
    BY <1>12, <1>13, <2>1 DEF FinishError, provider, client, record, TypeOK
<1>14. CASE OnSuccess
    BY <1>12, <1>14 DEF OnSuccess, provider, client, record, TypeOK
<1>18. CASE FinishOk
  <2>1. row' \in Row /\ refused' \in BOOLEAN
    BY <1>18, RecordType DEF FinishOk
  <2>. QED
    BY <1>18, <2>1 DEF FinishOk, provider, client, record, TypeOK
<1>15. CASE Return \/ StartHeartbeat
    BY <1>15 DEF Return, StartHeartbeat, provider, client, record, TypeOK
<1>16. CASE Disconnect \/ Expire
    BY <1>16 DEF Disconnect, Expire, provider, client, record, TypeOK
<1>17. CASE UNCHANGED vars
    BY <1>17 DEF vars, TypeOK
<1>. QED
    BY <1>2, <1>3, <1>4, <1>5, <1>6, <1>7, <1>8, <1>9, <1>10, <1>11, <1>13, <1>14, <1>15, <1>16, <1>17, <1>18
    DEF Next, Write, Heartbeat, Line, Handler

\* Every variable keeps its type: the texts are letters, the bounds hold.
THEOREM TypeCorrect == Spec => []TypeOK
<1>. QED
    BY TypeInit, TypeStep, PTL DEF Spec

-----------------------------------------------------------------------------
\* The inductive invariant: where an event is on its way to the page, what the
\* row and the driver agree on, and what the page has been told.

Transit ==
    ~gone =>
        /\ page.text \o Coming = partial
        /\ emitting.at # "data" => block = Fresh
        /\ emitting.at = "data" => block.event = emitting.event

Final == {"end", "error"}
Before == {"opening", "calling", "reading", "answered"}
After == {"recorded", "told", "returned"}

\* The row of a run that is over: closed with what was told, or left running.
Closed ==
    /\ row.status = "running" <=> refused
    /\ row.status # "running" => row.output = partial
    /\ row.status = "ok" => Finished
Results ==
    /\ full = partial
    /\ "unreadable" \notin noted => said = full
    /\ pc \in Before => Finished
    /\ pc \in After => Closed
    /\ pc \notin After => row.status = "running" /\ ~refused
    /\ pc = "recorded" => Finished /\ row.status \in {"running", "ok"}

\* "end" is the word for a finished answer alone.
Well == Finished /\ row.status \in {"running", "ok"}
Told ==
    /\ emitting.at = "idle" => emitting = Idle
    /\ pc \in {"answered", "failed", "recorded", "returned"} => emitting.at = "idle"
    /\ pc = "told" => emitting.at = "idle" \/ emitting.event \in Final
    /\ emitting.event \in Final => pc = "told" /\ page.outcome = <<>>
    /\ emitting.event = "end" => Well
    /\ page.outcome # <<>> =>
        /\ pc \in {"told", "returned"} /\ emitting.at = "idle"
        /\ page.outcome \in {<<"end">>, <<"error">>}
        /\ page.text = partial
        /\ page.outcome = <<"end">> => Well
    /\ ~gone /\ pc = "told" => emitting.event \in Final \/ page.outcome # <<>>
    /\ ~gone /\ pc = "returned" => page.outcome # <<>>

IInv == TypeOK /\ Transit /\ Results /\ Told

-----------------------------------------------------------------------------
\* Transit.

\* An empty event changes nothing on the page: the keepalive is one.
LEMMA FreshShows == TypeOK => Show(page, Fresh) = page
<1>. SUFFICES ASSUME TypeOK PROVE Show(page, Fresh) = page
    OBVIOUS
<1>1. page \in Page /\ page.text \in Text
    BY DEF TypeOK, Page
<1>2. page.text \o Joined(<<>>) = page.text
    BY <1>1, JoinNothing, ConcatNothing
<1>3. Show(page, Fresh) = [page EXCEPT !.text = page.text]
    BY <1>2 DEF Show, Fresh
<1>. QED
    BY <1>1, <1>3 DEF Page

\* What the page has, and its reading between two events, stays through a
\* step that writes no line of an event and emits no content.
LEMMA TransitQuiet ==
    ASSUME TypeOK, Transit, partial' = partial, gone => gone',
           UNCHANGED client \/ (Unlocked /\ BlankLine /\ gone' = gone),
           \/ emitting' = emitting
           \/ Unlocked /\ emitting'.at = "event" /\ emitting'.event # "delta"
    PROVE  Transit'
<1>. SUFFICES ASSUME ~gone' PROVE Transit'
    BY DEF Transit
<1>1. ~gone /\ page.text \o Coming = partial /\ (emitting.at # "data" => block = Fresh)
      /\ (emitting.at = "data" => block.event = emitting.event)
    BY DEF Transit
<1>2. UNCHANGED client
    BY <1>1, FreshShows DEF BlankLine, Unlocked, client
<1>3. CASE emitting' = emitting
    BY <1>1, <1>2, <1>3 DEF Transit, Coming, Unlocked, client
<1>4. CASE Unlocked /\ emitting'.at = "event" /\ emitting'.event # "delta"
    BY <1>1, <1>2, <1>4 DEF Transit, Coming, Unlocked, client
<1>. QED
    BY <1>3, <1>4

LEMMA TransitWriteEvent == TypeOK /\ Transit /\ WriteEvent => Transit'
<1>. SUFFICES ASSUME TypeOK, Transit, WriteEvent, ~gone PROVE Transit'
    BY DEF Transit, WriteEvent, Rest
<1>1. /\ page.text \o Coming = partial
      /\ block = Fresh /\ emitting \in Writer /\ emitting.at = "event"
    BY DEF Transit, WriteEvent, TypeOK
<1>2. /\ block' = [Fresh EXCEPT !.event = emitting.event]
      /\ emitting' = [emitting EXCEPT !.at = "data"]
      /\ page' = page /\ partial' = partial
    BY <1>1 DEF WriteEvent, EventLine, Rest
<1>3. /\ block'.data = block.data /\ block'.event = emitting.event
      /\ emitting'.at = "data" /\ emitting'.event = emitting.event /\ emitting'.left = emitting.left
    BY <1>1, <1>2 DEF Fresh, Writer
<1>4. Coming' = Coming
    BY <1>1, <1>3 DEF Coming, Unlocked
<1>. QED
    BY <1>1, <1>2, <1>3, <1>4 DEF Transit

LEMMA TransitWriteData == TypeOK /\ Transit /\ WriteData => Transit'
<1>. SUFFICES ASSUME TypeOK, Transit, WriteData, ~gone PROVE Transit'
    BY DEF Transit, WriteData, Rest
<1>1. /\ page.text \o Coming = partial /\ block.event = emitting.event
      /\ emitting \in Writer /\ emitting.at = "data"
      /\ block \in Block /\ block.data \in Text /\ emitting.left \in Text /\ emitting.left # <<>>
    BY DEF Transit, WriteData, TypeOK, Writer, Block
<1>2. /\ block' = [block EXCEPT !.data = Append(@, Head(emitting.left))]
      /\ emitting' = [emitting EXCEPT !.left = Tail(@)]
      /\ page' = page /\ partial' = partial
    BY DEF WriteData, DataLine, Rest
<1>3. /\ block'.event = emitting.event /\ block'.data = Append(block.data, Head(emitting.left))
      /\ emitting'.at = "data" /\ emitting'.event = emitting.event /\ emitting'.left = Tail(emitting.left)
    BY <1>1, <1>2 DEF Block, Writer
<1>4. block'.data \o emitting'.left = block.data \o emitting.left
    BY <1>1, <1>3, HeadMoves
<1>5. Coming' = Coming
    BY <1>1, <1>3, <1>4 DEF Coming, Unlocked
<1>. QED
    BY <1>1, <1>2, <1>3, <1>5 DEF Transit

LEMMA TransitWriteBlank == TypeOK /\ Transit /\ WriteBlank => Transit'
<1>. SUFFICES ASSUME TypeOK, Transit, WriteBlank, ~gone PROVE Transit'
    BY DEF Transit, WriteBlank, Rest
<1>1. /\ page.text \o Coming = partial /\ block.event = emitting.event
      /\ emitting.at = "data" /\ emitting.left = <<>>
      /\ page \in Page /\ page.text \in Text /\ block \in Block /\ block.data \in Text
    BY DEF Transit, WriteBlank, TypeOK, Page, Block
<1>2. /\ block' = Fresh /\ page' = Show(page, block)
      /\ emitting' = Idle /\ partial' = partial
    BY DEF WriteBlank, BlankLine, Rest
<1>3. emitting'.at = "idle" /\ Coming' = <<>>
    BY <1>2 DEF Idle, Coming, Unlocked
<1>4. page'.text = page.text \o Coming
  <2>1. CASE block.event = "delta"
    <3>1. Coming = Joined(block.data)
        BY <1>1, <2>1, ConcatNothing DEF Coming, Unlocked
    <3>. QED
        BY <1>1, <1>2, <2>1, <3>1 DEF Show, Page
  <2>2. CASE block.event # "delta"
    <3>1. Coming = <<>>
        BY <1>1, <2>2 DEF Coming
    <3>2. page'.text = page.text
        BY <1>1, <1>2, <2>2 DEF Show, Page
    <3>. QED
        BY <1>1, <3>1, <3>2, ConcatNothing
  <2>. QED
    BY <2>1, <2>2
<1>5. partial \in Text
    BY DEF TypeOK
<1>6. page'.text \o Coming' = partial'
    BY <1>1, <1>2, <1>3, <1>4, <1>5, ConcatNothing
<1>. QED
    BY <1>2, <1>3, <1>6 DEF Transit

LEMMA TransitContent ==
    ASSUME TypeOK, Transit, NEW c \in Chunks, Content(c)
    PROVE  Transit'
<1>. SUFFICES ASSUME ~gone PROVE Transit'
    BY DEF Transit, Content, Outside
<1>1. /\ page.text \o Coming = partial /\ block = Fresh
      /\ emitting.at = "idle" /\ partial \in Text /\ page.text \in Text
    BY DEF Transit, Content, NextLine, Unlocked, TypeOK, Page
<1>2. /\ emitting' = Emit("delta", c) /\ partial' = partial \o Joined(c)
      /\ block' = block /\ page' = page
    BY DEF Content, Outside, client
<1>3. page.text = partial
    BY <1>1, ConcatNothing DEF Coming, Unlocked
<1>4. c \in Text
    BY ChunkIsText
<1>5. Coming' = Joined(c) /\ emitting'.at = "event"
  <2>1. block'.data \o emitting'.left = c
    BY <1>1, <1>2, <1>4, ConcatNothing DEF Fresh, Emit
  <2>. QED
    BY <1>2, <2>1 DEF Coming, Unlocked, Emit
<1>. QED
    BY <1>1, <1>2, <1>3, <1>5 DEF Transit

LEMMA TransitStep == TypeOK /\ Transit /\ Told /\ [Next]_vars => Transit'
<1>. SUFFICES ASSUME TypeOK, Transit, Told, [Next]_vars PROVE Transit'
    OBVIOUS
<1>1. CASE Write
    BY <1>1, TransitWriteEvent, TransitWriteData, TransitWriteBlank DEF Write
<1>2. ASSUME NEW c \in Chunks, Content(c) PROVE Transit'
    BY <1>2, TransitContent
<1>3. ASSUME NEW c \in Chunks, Reasoning(c) PROVE Transit'
  <2>1. Unlocked /\ partial' = partial /\ gone' = gone /\ UNCHANGED client
    BY <1>3 DEF Reasoning, NextLine, Outside
  <2>2. emitting'.at = "event" /\ emitting'.event # "delta"
    BY <1>3 DEF Reasoning, Emit
  <2>. QED
    BY <2>1, <2>2, TransitQuiet
<1>4. CASE FinishError \/ OnSuccess
  <2>1. Unlocked /\ partial' = partial /\ gone' = gone /\ UNCHANGED client
    BY <1>4 DEF FinishError, OnSuccess, Told, Unlocked
  <2>2. emitting'.at = "event" /\ emitting'.event # "delta"
    BY <1>4 DEF FinishError, OnSuccess, Emit
  <2>. QED
    BY <2>1, <2>2, TransitQuiet
<1>5. CASE Keepalive
  <2>1. /\ partial' = partial /\ gone' = gone /\ emitting' = emitting
        /\ UNCHANGED client \/ (Unlocked /\ BlankLine)
    BY <1>5 DEF Keepalive
  <2>. QED
    BY <2>1, TransitQuiet
<1>6. ASSUME \/ \E c \in Chunks : Unreadable(c)
             \/ \E message \in BOOLEAN : ErrorEvent(message)
             \/ EndMark \/ Answers
      PROVE  Transit'
  <2>1. partial' = partial /\ gone' = gone /\ emitting' = emitting /\ UNCHANGED client
    BY <1>6 DEF Unreadable, ErrorEvent, EndMark, Answers, Accept, Reject, EndOfBody, ReadFails, Outside
  <2>. QED
    BY <2>1, TransitQuiet
<1>7. CASE Tick \/ HeartbeatStops \/ StartHeartbeat \/ FinishOk \/ Return \/ Disconnect \/ Expire \/ UNCHANGED vars
  <2>1. partial' = partial /\ (gone => gone') /\ emitting' = emitting /\ UNCHANGED client
    BY <1>7 DEF Tick, HeartbeatStops, StartHeartbeat, FinishOk, Return, Disconnect, Expire, vars, client
  <2>. QED
    BY <2>1, TransitQuiet
<1>. QED
    BY <1>1, <1>2, <1>3, <1>4, <1>5, <1>6, <1>7 DEF Next, Heartbeat, Line, Handler

-----------------------------------------------------------------------------
\* Results.

LEMMA ResultsStep == TypeOK /\ Results /\ [Next]_vars => Results'
<1>. SUFFICES ASSUME TypeOK, Results, [Next]_vars PROVE Results'
    OBVIOUS
<1>1. CASE Write \/ Tick \/ Heartbeat \/ Disconnect \/ Expire \/ UNCHANGED vars
  <2>1. UNCHANGED <<driver, pc, full, partial, record, said, noted>>
    BY <1>1 DEF Write, WriteEvent, WriteData, WriteBlank, Rest, Tick, Heartbeat, Keepalive, HeartbeatStops,
        Disconnect, Expire, provider, record, vars
  <2>. QED
    BY <2>1 DEF record, Results, Closed, Before, After, Finished
<1>2. ASSUME NEW c \in Chunks, Content(c) \/ Reasoning(c) \/ Unreadable(c) PROVE Results'
  <2>1. /\ pc = "reading" /\ UNCHANGED <<driver, pc, record>>
        /\ noted' = noted \/ noted' = noted \cup {"unreadable"}
    BY <1>2 DEF Content, Reasoning, Unreadable, NextLine, Outside
  <2>2. full' = partial' /\ ("unreadable" \notin noted' => said' = full')
    BY <1>2 DEF Content, Reasoning, Unreadable, Results
  <2>. QED
    BY <2>1, <2>2 DEF record, Results, Closed, Before, After, Finished
<1>3. ASSUME NEW message \in BOOLEAN, ErrorEvent(message) PROVE Results'
  <2>1. pc = "reading" /\ UNCHANGED <<driver, full, partial, record, said>>
    BY <1>3 DEF ErrorEvent, NextLine, Outside
  <2>2. /\ noted' = noted \cup {IF message THEN "error" ELSE "blank error"}
        /\ pc' = IF driver = "anthropic" \/ message THEN "failed" ELSE pc
    BY <1>3 DEF ErrorEvent
  <2>3. driver \in {"openai", "anthropic"}
    BY DEF TypeOK
  <2>. QED
    BY <2>1, <2>2, <2>3 DEF record, Results, Closed, Before, After, Finished
<1>4. CASE EndMark
  <2>1. pc = "reading" /\ UNCHANGED <<driver, pc, full, partial, record, said>> /\ noted' = noted \cup {"done"}
    BY <1>4 DEF EndMark, NextLine, Outside
  <2>. QED
    BY <2>1 DEF record, Results, Closed, Before, After, Finished
<1>5. CASE Answers \/ StartHeartbeat
  <2>1. /\ pc \in Before /\ pc' \in Before \cup {"failed"}
        /\ UNCHANGED <<driver, full, partial, record, said, noted>>
    BY <1>5 DEF Answers, Accept, Reject, EndOfBody, ReadFails, StartHeartbeat, Before, Outside, provider
  <2>. QED
    BY <2>1 DEF record, Results, Closed, Before, After, Finished
<1>6. CASE FinishError
  <2>1. /\ pc = "failed" /\ pc' = "told"
        /\ UNCHANGED <<driver, full, partial, said, noted>>
    BY <1>6 DEF FinishError, provider
  <2>2. /\ Results /\ row.status = "running" /\ ~refused
    BY <2>1 DEF Results, After, Before
  <2>3. CASE row'.status \in {"cancelled", "failed"} /\ row'.output = partial /\ ~refused'
    BY <2>1, <2>2, <2>3 DEF Results, Closed, Before, After, Finished
  <2>4. CASE refused' /\ row' = row
    BY <2>1, <2>2, <2>4 DEF Results, Closed, Before, After, Finished
  <2>. QED
    BY <1>6, <2>2, <2>3, <2>4 DEF FinishError, Record, Results
<1>7. CASE FinishOk
  <2>1. /\ pc = "answered" /\ pc' = "recorded"
        /\ UNCHANGED <<driver, full, partial, said, noted>>
    BY <1>7 DEF FinishOk, provider
  <2>2. /\ Results /\ row.status = "running" /\ ~refused /\ Finished
    BY <2>1 DEF Results, After, Before
  <2>3. CASE row'.status \in {"ok"} /\ row'.output = partial /\ ~refused'
    BY <2>1, <2>2, <2>3 DEF Results, Closed, Before, After, Finished
  <2>4. CASE refused' /\ row' = row
    BY <2>1, <2>2, <2>4 DEF Results, Closed, Before, After, Finished
  <2>. QED
    BY <1>7, <2>2, <2>3, <2>4 DEF FinishOk, Record, Results
<1>8. CASE OnSuccess \/ Return
  <2>1. /\ pc \in {"recorded", "told"} /\ pc' \in {"told", "returned"}
        /\ UNCHANGED <<driver, full, partial, record, said, noted>>
    BY <1>8 DEF OnSuccess, Return, provider
  <2>. QED
    BY <2>1 DEF record, Results, Closed, Before, After, Finished
<1>. QED
    BY <1>1, <1>2, <1>3, <1>4, <1>5, <1>6, <1>7, <1>8 DEF Next, Line, Handler

-----------------------------------------------------------------------------
\* Told.

\* A keepalive neither tells the page how the run ended nor adds to its text.
LEMMA KeepaliveTellsNothing == TypeOK /\ Transit /\ Keepalive => page' = page
<1>. SUFFICES ASSUME TypeOK, Transit, Keepalive PROVE page' = page
    OBVIOUS
<1>1. CASE UNCHANGED client
    BY <1>1 DEF client
<1>2. CASE BlankLine /\ ~gone
  <2>1. block = Fresh
    BY <1>2 DEF Keepalive, Unlocked, Transit
  <2>. QED
    BY <1>2, <2>1, FreshShows DEF BlankLine
<1>. QED
    BY <1>1, <1>2 DEF Keepalive, BlankLine

\* The event that ends the stream arrives whole, on a page with all the text.
LEMMA ToldWriteBlank == TypeOK /\ Transit /\ Results /\ Told /\ WriteBlank => Told'
<1>. SUFFICES ASSUME TypeOK, Transit, Results, Told, WriteBlank PROVE Told'
    OBVIOUS
<1>1. /\ emitting' = Idle /\ UNCHANGED <<pc, gone, row, partial, driver, noted>>
      /\ emitting.at = "data" /\ emitting.left = <<>> /\ page.outcome = <<>>
      /\ page \in Page
    BY DEF WriteBlank, Rest, record, Told, TypeOK
<1>2. Idle.at = "idle" /\ Idle.event \notin Final /\ Idle.event # "end"
    BY DEF Idle, Final
<1>3. pc \notin {"answered", "failed", "recorded", "returned"} /\ (pc = "told" => emitting.event \in Final)
    BY <1>1 DEF Told
<1>4. CASE gone
  <2>1. page' = page
    BY <1>4 DEF WriteBlank, BlankLine, client
  <2>. QED
    BY <1>1, <1>2, <1>3, <1>4, <2>1 DEF Told, Well, Finished
<1>5. CASE ~gone
  <2>1. page' = Show(page, block) /\ block.event = emitting.event /\ page.text \o Coming = partial
    BY <1>1, <1>5 DEF WriteBlank, BlankLine, Transit
  <2>2. CASE emitting.event \in Final
    <3>1. pc = "told" /\ (emitting.event = "end" => Well)
        BY <2>2 DEF Told
    <3>2. page.text = partial
      <4>1. Coming = <<>> /\ page.text \in Text
        BY <1>1, <2>2 DEF Coming, Final, Page
      <4>. QED
        BY <2>1, <4>1, ConcatNothing
    <3>3. page'.text = page.text /\ page'.outcome = <<emitting.event>>
      <4>1. page' = [page EXCEPT !.outcome = Append(page.outcome, emitting.event)]
        BY <2>1, <2>2 DEF Show, Final
      <4>. QED
        BY <1>1, <4>1 DEF Page
    <3>4. page'.outcome # <<>> /\ page'.outcome \in {<<"end">>, <<"error">>}
          /\ (page'.outcome = <<"end">> => Well)
        BY <2>2, <3>1, <3>3 DEF Final
    <3>. QED
        BY <1>1, <1>2, <3>1, <3>2, <3>3, <3>4 DEF Told, Well, Finished
  <2>3. CASE emitting.event \notin Final
    <3>1. page'.outcome = <<>>
        BY <1>1, <2>1, <2>3 DEF Show, Final, Page
    <3>. QED
        BY <1>1, <1>2, <1>3, <2>3, <3>1 DEF Told, Well, Finished
  <2>. QED
    BY <2>2, <2>3
<1>. QED
    BY <1>4, <1>5

LEMMA ToldStep == TypeOK /\ Transit /\ Results /\ Told /\ [Next]_vars => Told'
<1>. SUFFICES ASSUME TypeOK, Transit, Results, Told, [Next]_vars PROVE Told'
    OBVIOUS
<1>1. CASE WriteEvent \/ WriteData
  <2>1. /\ emitting'.at = "data" /\ emitting'.event = emitting.event /\ emitting.at \in {"event", "data"}
        /\ UNCHANGED <<pc, gone, row, partial, driver, noted>>
    BY <1>1 DEF WriteEvent, WriteData, Rest, record, TypeOK, Writer
  <2>2. page' = page
    BY <1>1 DEF WriteEvent, WriteData, EventLine, DataLine, client
  <2>. QED
    BY <2>1, <2>2 DEF Told, Well, Finished
<1>2. CASE WriteBlank
    BY <1>2, ToldWriteBlank
<1>3. CASE Tick \/ Heartbeat \/ Expire \/ UNCHANGED vars
  <2>1. page' = page
    BY <1>3, KeepaliveTellsNothing DEF Tick, Heartbeat, HeartbeatStops, Expire, vars, client
  <2>2. UNCHANGED <<pc, emitting, gone, row, partial, driver, noted>>
    BY <1>3 DEF Tick, Heartbeat, Keepalive, HeartbeatStops, Expire, vars, record, provider
  <2>. QED
    BY <2>1, <2>2 DEF Told, Well, Finished
<1>4. CASE Disconnect
    BY <1>4 DEF Disconnect, client, record, provider, Told, Well, Finished
<1>5. CASE Line \/ Answers
  <2>1. /\ pc \in {"calling", "reading"} /\ pc' \in {"reading", "answered", "failed"}
        /\ emitting.at = "idle" /\ UNCHANGED <<gone, page>>
    BY <1>5 DEF Line, Content, Reasoning, Unreadable, ErrorEvent, EndMark, NextLine,
        Answers, Accept, Reject, EndOfBody, ReadFails, Unlocked, Outside, client
  <2>2. \/ emitting' = emitting
        \/ pc' = "reading" /\ emitting'.at = "event" /\ emitting'.event \in {"delta", "reasoning"}
    <3>1. ASSUME NEW c \in Chunks, Content(c) \/ Reasoning(c)
          PROVE  pc' = "reading" /\ emitting'.at = "event" /\ emitting'.event \in {"delta", "reasoning"}
        BY <3>1 DEF Content, Reasoning, NextLine, Emit
    <3>2. CASE \/ \E c \in Chunks : Unreadable(c)
               \/ \E message \in BOOLEAN : ErrorEvent(message)
               \/ EndMark
        BY <3>2 DEF Unreadable, ErrorEvent, EndMark
    <3>3. CASE Answers
        BY <3>3 DEF Answers, Accept, Reject, EndOfBody, ReadFails
    <3>. QED
        BY <1>5, <3>1, <3>2, <3>3 DEF Line
  <2>3. page.outcome = <<>> /\ emitting.event \notin Final
    BY <2>1 DEF Told
  <2>. QED
    BY <2>1, <2>2, <2>3 DEF Told, Final
<1>6. CASE StartHeartbeat \/ FinishOk
  <2>1. /\ pc \in {"opening", "answered"} /\ pc' \in {"calling", "recorded"} /\ UNCHANGED <<emitting, gone, page>>
        /\ emitting.at = "idle"
    BY <1>6 DEF StartHeartbeat, FinishOk, client, Told
  <2>2. page.outcome = <<>> /\ emitting.event \notin Final /\ emitting.event # "end"
    BY <2>1 DEF Told, Final
  <2>. QED
    BY <2>1, <2>2 DEF Told, Well, Finished
<1>7. CASE FinishError
  <2>1. /\ pc = "failed" /\ pc' = "told" /\ gone' = gone /\ page' = page
        /\ emitting'.at = "event" /\ emitting'.event = "error"
    BY <1>7 DEF FinishError, Emit, client
  <2>2. page.outcome = <<>>
    BY <2>1 DEF Told
  <2>. QED
    BY <2>1, <2>2 DEF Told, Well, Finished, Final
<1>8. CASE OnSuccess
  <2>1. /\ pc = "recorded" /\ pc' = "told" /\ UNCHANGED <<gone, page>>
        /\ emitting'.at = "event" /\ emitting'.event \in Final
    BY <1>8 DEF OnSuccess, Emit, client, Final
  <2>2. page.outcome = <<>> /\ Well'
    BY <1>8, <2>1 DEF Told, Results, OnSuccess, record, provider, Well, Finished
  <2>. QED
    BY <2>1, <2>2 DEF Told, Well, Finished
<1>9. CASE Return
  <2>1. pc = "told" /\ pc' = "returned" /\ emitting.at = "idle" /\ UNCHANGED <<gone, page, row, emitting, partial, driver, noted>>
    BY <1>9 DEF Return, Unlocked, client, record, provider
  <2>2. emitting.event \notin Final
    BY <2>1 DEF Told, Idle, Final
  <2>. QED
    BY <2>1, <2>2 DEF Told, Well, Finished, Final
<1>. QED
    BY <1>1, <1>2, <1>3, <1>4, <1>5, <1>6, <1>7, <1>8, <1>9 DEF Next, Write, Handler

-----------------------------------------------------------------------------
\* Together.

LEMMA InvInit == Init => IInv
<1>. SUFFICES ASSUME Init PROVE Transit /\ Results /\ Told
    BY TypeInit DEF IInv
<1>1. Coming = <<>> /\ <<>> \in Text
    BY DEF Init, Coming, Emit, Text
<1>2. Transit
    BY <1>1, ConcatNothing DEF Init, Emit, Transit
<1>3. Results
    BY DEF Init, Results, Before, After, Finished
<1>4. Told
    BY DEF Init, Emit, Told, Final
<1>. QED
    BY <1>2, <1>3, <1>4

LEMMA InvStep == IInv /\ [Next]_vars => IInv'
    BY TypeStep, TransitStep, ResultsStep, ToldStep DEF IInv

LEMMA Invariance == Spec => []IInv
    BY InvInit, InvStep, PTL DEF Spec

\* The page shows what streamSSE was told, however the keepalives fall between
\* the lines of the events.
THEOREM PageFollowsCorrect == Spec => []PageFollows
<1>1. IInv => PageFollows
    BY DEF IInv, Transit, PageFollows
<1>. QED
    BY <1>1, Invariance, PTL

\* A page that stayed is told once how its run ended, and "end" only over the
\* whole text of a finished answer, which the row then holds unless the store
\* refused to close it.
THEOREM ToldOnceCorrect == Spec => []ToldOnce
<1>1. ASSUME IInv PROVE ToldOnce
  <2>1. page.outcome = <<>> \/ page.outcome \in {<<"end">>, <<"error">>}
    BY <1>1 DEF IInv, Told
  <2>2. Len(page.outcome) <= 1
    <3>1. Len(<<>>) = 0 /\ Len(<<"end">>) = 1 /\ Len(<<"error">>) = 1
        OBVIOUS
    <3>2. Len(page.outcome) \in {0, 1}
        BY <2>1, <3>1, Zenon
    <3>3. \A n \in {0, 1} : n <= 1
        OBVIOUS
    <3>. QED
        BY <3>2, <3>3, Zenon
  <2>3. pc = "returned" /\ ~gone => page.outcome # <<>>
    BY <1>1 DEF IInv, Told
  <2>4. ASSUME page.outcome = <<"end">>
        PROVE  /\ Finished
               /\ page.text = full /\ (page.text = said \/ "unreadable" \in noted)
               /\ IF refused THEN row.status = "running"
                  ELSE row.status = "ok" /\ row.output = page.text
    <3>1. page.outcome # <<>>
        BY <2>4
    <3>2. pc \in After /\ page.text = partial /\ Well
        BY <1>1, <2>4, <3>1 DEF IInv, Told, After
    <3>. QED
        BY <1>1, <3>2 DEF IInv, Results, Closed, Well
  <2>5. pc = "returned" => (row.status = "running" <=> refused)
    BY <1>1 DEF IInv, Results, Closed, After
  <2>. QED
    BY <2>2, <2>3, <2>4, <2>5 DEF ToldOnce
<1>. QED
    BY <1>1, Invariance, PTL

\* The row holds what the provider sent, or what the page was sent.
THEOREM RowIsWhatWasSaidCorrect == Spec => []RowIsWhatWasSaid
<1>1. ASSUME IInv PROVE RowIsWhatWasSaid
  <2>1. row.status = "ok" => (row.output = said \/ "unreadable" \in noted) /\ Finished
    BY <1>1 DEF IInv, Results, Closed
  <2>2. ASSUME row.status \in {"failed", "cancelled"}, ~gone PROVE page.text = row.output
    <3>1. pc \in After /\ row.output = partial
        BY <1>1, <2>2 DEF IInv, Results, Closed
    <3>2. Coming = <<>>
        BY <1>1, <3>1 DEF IInv, Told, Coming, Unlocked, After, Final
    <3>3. page.text \in Text /\ page.text \o Coming = partial
        BY <1>1, <2>2 DEF IInv, TypeOK, Page, Transit
    <3>. QED
        BY <3>1, <3>2, <3>3, ConcatNothing
  <2>. QED
    BY <2>1, <2>2 DEF RowIsWhatWasSaid
<1>. QED
    BY <1>1, Invariance, PTL
=============================================================================
