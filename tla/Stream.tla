------------------------------- MODULE Stream -------------------------------
(***************************************************************************)
(* One streamed completion from end to end: the lines of the provider, the  *)
(* driver that reads them, streamSSE that passes them on line by line, its   *)
(* heartbeat goroutine that writes to the same response, the page that puts  *)
(* the events together again, and the row of the run.  How rows, jobs and    *)
(* servers live is RunLifecycle's matter; here is what they are told.        *)
(***************************************************************************)
EXTENDS Naturals, Sequences

CONSTANTS Pieces,      \* texts without a newline
          Chunks,      \* what one delta carries: its pieces between newlines
          NL,          \* the newline
          MaxLines,    \* bound: lines the provider sends
          MaxTicks     \* bound: ticks of the heartbeat's ticker

ASSUME ChunksType == \A c \in Chunks : c \in Seq(Pieces) /\ c # <<>>
ASSUME Bounds == MaxLines \in Nat /\ MaxTicks \in Nat

VARIABLES
    driver,    \* "openai" or "anthropic"
    pc,        \* where streamSSE is
    full,      \* what the driver will return
    partial,   \* what streamSSE has been told by OnContent
    emitting,  \* the event being written; the mutex is held unless it is idle
    hb,        \* the heartbeat goroutine
    gone,      \* has the client disconnected?
    expired,   \* has the deadline of the context passed?
    row,       \* status and output of the run
    refused,   \* history: has the store refused to close the row?
    block,     \* the event the page is reading
    page,      \* what the page shows
    said,      \* history: the content the provider sent
    noted,     \* history: what else the provider sent
    lines, ticks

vars == <<driver, pc, full, partial, emitting, hb, gone, expired, row, refused, block, page, said, noted, lines, ticks>>
client == <<block, page>>
record == <<row, refused>>
provider == <<driver, said, noted, lines>>

Events == {"meta", "delta", "reasoning", "end", "error"}
Idle == [event |-> "meta", left |-> <<>>, at |-> "idle"]
Emit(event, data) == [event |-> event, left |-> data, at |-> "event"]
Fresh == [event |-> "delta", data |-> <<>>]
\* The one line of events whose text no property is about.
Payload == <<"payload">>

\* The text of pieces: with a newline between any two of them.
Joined(pieces) ==
    [n \in 1..(IF pieces = <<>> THEN 0 ELSE 2 * Len(pieces) - 1) |->
        IF n % 2 = 1 THEN pieces[(n + 1) \div 2] ELSE NL]

Init ==
    /\ driver \in {"openai", "anthropic"}
    /\ pc = "opening"
    /\ full = <<>> /\ partial = <<>>
    /\ emitting = Emit("meta", Payload)
    /\ hb = "unborn" /\ gone = FALSE /\ expired = FALSE
    /\ row = [status |-> "running", output |-> <<>>] /\ refused = FALSE
    /\ block = Fresh
    /\ page = [text |-> <<>>, thoughts |-> <<>>, outcome |-> <<>>]
    /\ said = <<>> /\ noted = {}
    /\ lines = 0 /\ ticks = 0

-----------------------------------------------------------------------------
\* The page: parseSSE and the handlers streamSSE of the page calls.

Show(p, b) ==
    CASE b.event = "delta" -> [p EXCEPT !.text = @ \o Joined(b.data)]
      [] b.event = "reasoning" -> [p EXCEPT !.thoughts = @ \o Joined(b.data)]
      [] b.event \in {"end", "error"} -> [p EXCEPT !.outcome = Append(@, b.event)]
      [] OTHER -> p

EventLine(e) == IF gone THEN UNCHANGED client
                ELSE block' = [block EXCEPT !.event = e] /\ UNCHANGED page
DataLine(d) == IF gone THEN UNCHANGED client
               ELSE block' = [block EXCEPT !.data = Append(@, d)] /\ UNCHANGED page
BlankLine == IF gone THEN UNCHANGED client
             ELSE block' = Fresh /\ page' = Show(page, block)

-----------------------------------------------------------------------------
\* writeSSE, under the mutex from its first write to its last.

Rest == <<driver, pc, full, partial, hb, gone, expired, record, said, noted, lines, ticks>>

WriteEvent ==
    /\ emitting.at = "event"
    /\ EventLine(emitting.event)
    /\ emitting' = [emitting EXCEPT !.at = "data"]
    /\ UNCHANGED Rest

WriteData ==
    /\ emitting.at = "data" /\ emitting.left # <<>>
    /\ DataLine(Head(emitting.left))
    /\ emitting' = [emitting EXCEPT !.left = Tail(@)]
    /\ UNCHANGED Rest

WriteBlank ==
    /\ emitting.at = "data" /\ emitting.left = <<>>
    /\ BlankLine
    /\ emitting' = Idle
    /\ UNCHANGED Rest

-----------------------------------------------------------------------------
\* The first event is written before the heartbeat is started.  (The pre-events
\* of some endpoints are like it.)
StartHeartbeat ==
    /\ pc = "opening" /\ emitting.at = "idle"
    /\ pc' = "calling" /\ hb' = "waiting"
    /\ UNCHANGED <<full, partial, emitting, gone, expired, record, client, provider, ticks>>

\* The heartbeat.  Its select takes a tick even when the request has finished
\* and the ticker is ready at that moment; what it then writes goes nowhere.

Tick ==
    /\ hb = "waiting" /\ ticks < MaxTicks
    /\ hb' = "ticked" /\ ticks' = ticks + 1
    /\ UNCHANGED <<pc, full, partial, emitting, gone, expired, record, client, provider>>

Unlocked == emitting.at = "idle"

\* Mutant: the heartbeat writes without the mutex.
KeepaliveUnlocked ==
    /\ hb = "ticked"
    /\ hb' = "waiting"
    /\ IF pc = "returned" THEN UNCHANGED client ELSE BlankLine
    /\ UNCHANGED <<pc, full, partial, emitting, gone, expired, record, provider, ticks>>

Keepalive ==
    /\ hb = "ticked" /\ Unlocked
    /\ hb' = "waiting"
    /\ IF pc = "returned" THEN UNCHANGED client ELSE BlankLine
    /\ UNCHANGED <<pc, full, partial, emitting, gone, expired, record, provider, ticks>>

\* Mutant: nobody closes hbStop or cancels the context on return.
HeartbeatStopsOnDisconnect ==
    /\ hb = "waiting" /\ (gone \/ expired)
    /\ hb' = "stopped"
    /\ UNCHANGED <<pc, full, partial, emitting, gone, expired, record, client, provider, ticks>>

HeartbeatStops ==
    /\ hb = "waiting" /\ (pc = "returned" \/ gone \/ expired)
    /\ hb' = "stopped"
    /\ UNCHANGED <<pc, full, partial, emitting, gone, expired, record, client, provider, ticks>>

-----------------------------------------------------------------------------
\* The driver.  It reads the next line when the callback for the last one has
\* returned.  Lines it ignores (comments, blank ones, pings) are left out.

Outside == <<driver, hb, gone, expired, client, ticks>>

Accept ==
    /\ pc = "calling" /\ Unlocked
    /\ pc' = "reading"
    /\ UNCHANGED <<full, partial, emitting, record, said, noted, lines, Outside>>

\* No connection, or a status of 400 and above.
Reject ==
    /\ pc = "calling" /\ Unlocked
    /\ pc' = "failed"
    /\ UNCHANGED <<full, partial, emitting, record, said, noted, lines, Outside>>

\* The provider sends a line, and the driver is free to read it.
NextLine ==
    /\ pc = "reading" /\ Unlocked /\ "done" \notin noted
    /\ lines < MaxLines /\ lines' = lines + 1

Content(c) ==
    /\ NextLine
    /\ said' = said \o Joined(c)
    /\ full' = full \o Joined(c)
    /\ partial' = partial \o Joined(c)
    /\ emitting' = Emit("delta", c)
    /\ UNCHANGED <<pc, record, noted, Outside>>

Reasoning(c) ==
    /\ NextLine
    /\ emitting' = Emit("reasoning", c)
    /\ UNCHANGED <<pc, full, partial, record, said, noted, Outside>>

\* JSON the driver cannot parse, or an event type it does not know.
Unreadable(c) ==
    /\ NextLine
    /\ said' = said \o Joined(c)
    /\ noted' = noted \cup {"unreadable"}
    /\ UNCHANGED <<pc, full, partial, emitting, record, Outside>>

\* Mutant: an error in the stream is skipped like any line without content.
ErrorEventSkipped(message) ==
    /\ NextLine
    /\ noted' = noted \cup {IF message THEN "error" ELSE "blank error"}
    /\ UNCHANGED <<pc, full, partial, emitting, record, said, Outside>>

\* An error the provider reports.  The OpenAI driver looks for its message.
ErrorEvent(message) ==
    /\ NextLine
    /\ noted' = noted \cup {IF message THEN "error" ELSE "blank error"}
    /\ pc' = IF driver = "anthropic" \/ message THEN "failed" ELSE pc
    /\ UNCHANGED <<full, partial, emitting, record, said, Outside>>

\* data: [DONE], or message_stop.
EndMark ==
    /\ NextLine
    /\ noted' = noted \cup {"done"}
    /\ UNCHANGED <<pc, full, partial, emitting, record, said, Outside>>

\* The body ends, with or without a mark.
EndOfBody ==
    /\ pc = "reading" /\ Unlocked
    /\ pc' = "answered"
    /\ UNCHANGED <<full, partial, emitting, record, said, noted, lines, Outside>>

\* The context is cancelled, its deadline passes, the connection breaks or a
\* line exceeds the scanner's buffer.
ReadFails ==
    /\ pc = "reading" /\ Unlocked
    /\ pc' = "failed"
    /\ UNCHANGED <<full, partial, emitting, record, said, noted, lines, Outside>>

-----------------------------------------------------------------------------
\* streamSSE after the driver has returned.

\* FinishRun.  That the store refuses it is logged, and the stream goes on.
Record(status) ==
    \/ row' = [status |-> status, output |-> IF status = "ok" THEN full ELSE partial]
       /\ UNCHANGED refused
    \/ refused' = TRUE /\ UNCHANGED row

FinishError ==
    /\ pc = "failed"
    /\ Record(IF gone /\ partial # <<>> THEN "cancelled" ELSE "failed")
    /\ emitting' = Emit("error", Payload)
    /\ pc' = "told"
    /\ UNCHANGED <<full, partial, provider, hb, gone, expired, client, ticks>>

FinishOk ==
    /\ pc = "answered"
    /\ Record("ok")
    /\ pc' = "recorded"
    /\ UNCHANGED <<full, partial, emitting, provider, hb, gone, expired, client, ticks>>

\* Mutant: the error of onSuccess does not return, and "end" follows.
OnSuccessFallsThrough ==
    /\ pc = "recorded" /\ Unlocked
    /\ \E event \in {"end", "error"} :
        /\ emitting' = Emit(event, Payload)
        /\ pc' = IF event = "error" THEN pc ELSE "told"
    /\ UNCHANGED <<full, partial, record, provider, hb, gone, expired, client, ticks>>

\* onSuccess may report that it could not use the text.
OnSuccess ==
    /\ pc = "recorded"
    /\ \E event \in {"end", "error"} : emitting' = Emit(event, Payload)
    /\ pc' = "told"
    /\ UNCHANGED <<full, partial, record, provider, hb, gone, expired, client, ticks>>

Return ==
    /\ pc = "told" /\ Unlocked
    /\ pc' = "returned"
    /\ UNCHANGED <<full, partial, emitting, record, provider, hb, gone, expired, client, ticks>>

Disconnect ==
    /\ pc # "returned" /\ ~gone
    /\ gone' = TRUE
    /\ UNCHANGED <<pc, full, partial, emitting, record, provider, hb, expired, client, ticks>>

Expire ==
    /\ pc # "opening" /\ ~expired
    /\ expired' = TRUE
    /\ UNCHANGED <<pc, full, partial, emitting, gone, record, provider, hb, client, ticks>>

Write == WriteEvent \/ WriteData \/ WriteBlank
Heartbeat == Keepalive \/ HeartbeatStops
Line == \/ \E c \in Chunks : Content(c) \/ Reasoning(c) \/ Unreadable(c)
        \/ \E message \in BOOLEAN : ErrorEvent(message)
        \/ EndMark
Answers == Accept \/ Reject \/ EndOfBody \/ ReadFails
Handler == StartHeartbeat \/ FinishError \/ FinishOk \/ OnSuccess \/ Return

Next == Write \/ Tick \/ Heartbeat \/ Line \/ Answers \/ Handler \/ Disconnect \/ Expire

Spec == Init /\ [][Next]_vars

\* Goroutines that can run do.  Every call of the provider ends, at the latest
\* with the deadline of its context (handlers.go:1086).
FairSpec == Spec /\ WF_vars(Write) /\ WF_vars(Heartbeat) /\ WF_vars(Answers) /\ WF_vars(Handler)

-----------------------------------------------------------------------------

Letters == Pieces \cup {NL} \cup {"payload"}
Text == Seq(Letters)
Writer == [event : Events, left : Text, at : {"event", "data", "idle"}]
Block == [event : Events, data : Text]
Page == [text : Text, thoughts : Text, outcome : Seq({"end", "error"})]
Row == [status : {"running", "ok", "failed", "cancelled"}, output : Text]

TypeOK ==
    /\ driver \in {"openai", "anthropic"}
    /\ pc \in {"opening", "calling", "reading", "answered", "failed", "recorded", "told", "returned"}
    /\ full \in Text /\ partial \in Text /\ said \in Text
    /\ emitting \in Writer
    /\ emitting.at = "idle" => emitting.left = <<>>
    /\ hb \in {"unborn", "waiting", "ticked", "stopped"}
    /\ gone \in BOOLEAN /\ expired \in BOOLEAN
    /\ row \in Row /\ refused \in BOOLEAN
    /\ block \in Block
    /\ page \in Page
    /\ noted \subseteq {"unreadable", "error", "blank error", "done"}
    /\ lines \in 0..MaxLines /\ ticks \in 0..MaxTicks

\* What the page will show when the event in flight has arrived: the event it
\* is reading, and the pieces streamSSE has yet to write.
Coming == IF Unlocked \/ emitting.event # "delta" THEN <<>> ELSE Joined(block.data \o emitting.left)

\* The page shows what streamSSE was told and nothing else: no reasoning, no
\* keepalive in the middle of an event, no newline lost between two pieces.
\* This is what emit and its mutex are for (handlers.go:1063-1070, 1142).
PageFollows ==
    ~gone => page.text \o Coming = partial

\* The provider gave no error the driver looks for.  A body that ends counts as
\* a finished answer, with a mark or without one.
Finished == "error" \notin noted /\ ("blank error" \in noted => driver = "openai")

\* A page that stayed is told once how its run ended, as the last thing, and
\* "end" only over the whole text of an answer that was finished; the row then
\* is ok with that text, or, if the store refused to close it, still running
\* and left to the next start of the server (handlers.go:1127-1160).
ToldOnce ==
    /\ Len(page.outcome) <= 1
    /\ pc = "returned" /\ ~gone => page.outcome # <<>>
    /\ page.outcome = <<"end">> =>
        /\ Finished
        /\ page.text = full /\ (page.text = said \/ "unreadable" \in noted)
        /\ IF refused THEN row.status = "running"
           ELSE row.status = "ok" /\ row.output = page.text
    /\ pc = "returned" => (row.status = "running" <=> refused)

\* An ok row holds all the content the provider sent, unless a line could not
\* be read, and no error the provider gave with a message; a failed or
\* cancelled one holds what the page was sent, up to the disconnect
\* (openai.go:214-216, 242-254, anthropic.go:296-309).
RowIsWhatWasSaid ==
    /\ row.status = "ok" =>
        /\ row.output = said \/ "unreadable" \in noted
        /\ Finished
    /\ row.status \in {"failed", "cancelled"} /\ ~gone => page.text = row.output

\* The heartbeat goroutine ends when the request has (handlers.go:1089-1111).
HeartbeatEnds == pc = "returned" ~> hb = "stopped"
=============================================================================
