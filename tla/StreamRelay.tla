------------------------------ MODULE StreamRelay ------------------------------
(***************************************************************************)
(* How the answer of an upstream reaches a client as a stream              *)
(* (open-sse/handlers/chatCore.js, chatCore/streamingHandler.js,            *)
(* utils/streamHandler.js, utils/stream.js), and how the request is counted *)
(* as active meanwhile (src/lib/db/repos/usageRepo.js).  Chunks pass a tap  *)
(* that winds up a stall timer, then a transform that translates them or    *)
(* lets them through, and wait to be read by the client, who may leave.      *)
(* The request shares its counters with others of its model.                *)
(***************************************************************************)
EXTENDS ClaudeTranslation, FiniteSets

CONSTANTS
    Conn, Own,      \* accounts, and the one of this request
    Chunks,         \* what an upstream may send
    MaxChunks,      \* bound on the chunks of an answer
    MaxOthers       \* bound on the other requests

ASSUME RelayAssumption ==
    /\ IsFiniteSet(Conn) /\ Own \in Conn
    /\ Chunks \subseteq Chunk
    /\ MaxChunks \in Nat /\ MaxOthers \in Nat

VARIABLES
    phase,      \* of the request
    mode,       \* what the transform does
    upstream,
    sent,       \* chunks of the upstream so far
    ahead,      \* chunk that passed the tap and waits for the client's demand
    translation,
    queue,      \* output the client has not read
    flushed,    \* the transform saw the end of the upstream
    errored,    \* the transform saw its failure, its output is gone
    connected,  \* negation of the stream controller's disconnected
    stallTimer,
    view,       \* what the client has received: a ghost
    byModel, byAccount, \* pendingRequests
    pendingTimer,
    others,     \* other requests in flight, of every account: a ghost
    ended,      \* this one has been taken off the counters: a ghost
    disturbed   \* the counters were changed for no request: a ghost

pipe == <<upstream, sent, ahead, translation, queue, flushed, errored>>
counters == <<byModel, byAccount, pendingTimer, disturbed>>
vars == <<phase, mode, pipe, connected, stallTimer, view, counters, others, ended>>

\* What a client has made of what it received; of a stream that is passed through
\* only the mark that came last counts.
NothingYet == [stage |-> "before", blocks |-> {}, next |-> 0,
               last |-> [type |-> "none", index |-> 0], beat |-> FALSE, mark |-> "none"]

Client == INSTANCE ClaudeStream WITH
    stage <- IF phase \in {"closed", "left"} THEN "ended" ELSE view.stage,
    blocks <- view.blocks, next <- view.next, beyond <- translation.beyond,
    last <- view.last, beat <- view.beat

Init ==
    /\ phase = "idle" /\ mode = "none"
    /\ upstream = "open" /\ sent = 0 /\ ahead = <<>>
    /\ translation = Fresh /\ queue = <<>>
    /\ flushed = FALSE /\ errored = FALSE
    /\ connected = TRUE /\ stallTimer = FALSE
    /\ view = NothingYet
    /\ byModel = 0 /\ byAccount = [c \in Conn |-> 0]
    /\ pendingTimer = [c \in Conn |-> FALSE]
    /\ others = [c \in Conn |-> 0]
    /\ ended = FALSE /\ disturbed = FALSE

-----------------------------------------------------------------------------
\* trackPendingRequest.

Started(c) ==
    /\ byModel' = byModel + 1
    /\ byAccount' = [byAccount EXCEPT ![c] = @ + 1]
    /\ pendingTimer' = [pendingTimer EXCEPT ![c] = TRUE]
    /\ UNCHANGED disturbed

LessOne(n) == IF n > 0 THEN n - 1 ELSE 0

\* The counters stop at zero, and the timer of an account is for all requests.
Finished(c) ==
    /\ byModel' = LessOne(byModel)
    /\ byAccount' = [byAccount EXCEPT ![c] = LessOne(@)]
    /\ pendingTimer' = [pendingTimer EXCEPT ![c] = FALSE]

\* This request is taken off: once more when the end of the upstream did it before.
End ==
    /\ Finished(Own)
    /\ ended' = TRUE
    /\ disturbed' = (disturbed \/ flushed)

\* A minute after the last start the counters are taken for stale.
PendingTimeout(c) ==
    /\ pendingTimer[c]
    /\ pendingTimer' = [pendingTimer EXCEPT ![c] = FALSE]
    /\ byModel' = 0
    /\ byAccount' = [byAccount EXCEPT ![c] = 0]
    /\ disturbed' = TRUE
    /\ UNCHANGED <<phase, mode, pipe, connected, stallTimer, view, others, ended>>

OtherStarts(c) ==
    /\ \A d \in Conn : others[d] < MaxOthers
    /\ others' = [others EXCEPT ![c] = @ + 1]
    /\ Started(c)
    /\ UNCHANGED <<phase, mode, pipe, connected, stallTimer, view, ended>>

OtherEnds(c) ==
    /\ others[c] > 0
    /\ others' = [others EXCEPT ![c] = @ - 1]
    /\ Finished(c)
    /\ UNCHANGED <<phase, mode, pipe, connected, stallTimer, view, ended, disturbed>>

-----------------------------------------------------------------------------
\* handleChatCore.

Execute ==
    /\ phase = "idle"
    /\ phase' = "executing"
    /\ Started(Own)
    /\ UNCHANGED <<mode, pipe, connected, stallTimer, view, others, ended>>

\* The executor throws, the upstream reports an error, answers with something
\* that is no stream, or the client wants no stream: one end for each.
AnswerWhole ==
    /\ phase = "executing"
    /\ phase' = "left"
    /\ connected' = FALSE
    /\ End
    /\ UNCHANGED <<mode, pipe, stallTimer, view, others>>

\* handleStreamingResponse and pipeWithDisconnect.  What is passed through of the
\* Gemini family is not marked at its end.
AnswerStream ==
    /\ phase = "executing"
    /\ phase' = "streaming"
    /\ mode' \in {"translate", "passthrough", "unmarked"}
    /\ stallTimer' = TRUE
    /\ UNCHANGED <<pipe, connected, view, counters, others, ended>>

-----------------------------------------------------------------------------
\* The upstream.

\* Mutant of WoundUp: the timer is stopped by a chunk, not wound up again.
WoundUpOnce == FALSE

WoundUp == TRUE

\* A chunk passes the tap when the one before was taken.
Arrive ==
    /\ phase = "streaming" /\ upstream = "open" /\ ahead = <<>>
    /\ sent < MaxChunks /\ sent' = sent + 1
    /\ \E chunk \in Chunks : ahead' = <<chunk>>
    /\ stallTimer' = WoundUp
    /\ UNCHANGED <<phase, mode, upstream, translation, queue, flushed, errored,
                   connected, view, counters, others, ended>>

\* The upstream is at its end, which the tap sees at once.
Eof ==
    /\ phase = "streaming" /\ upstream = "open"
    /\ upstream' = "ended"
    /\ stallTimer' = FALSE
    /\ UNCHANGED <<phase, mode, sent, ahead, translation, queue, flushed, errored,
                   connected, view, counters, others, ended>>

Break ==
    /\ phase = "streaming" /\ upstream = "open"
    /\ upstream' = "broken"
    /\ UNCHANGED <<phase, mode, sent, ahead, translation, queue, flushed, errored,
                   connected, stallTimer, view, counters, others, ended>>

-----------------------------------------------------------------------------
\* The transform, which works when the client asks for more.

Output(type) == [type |-> type, index |-> 0]

\* The transform takes a chunk when all of its output has been read.
Take ==
    /\ phase = "streaming" /\ connected
    /\ ahead # <<>> /\ queue = <<>>
    /\ ahead' = <<>>

\* What is passed through is left as it is, without the chunks that are empty: a
\* chunk of the Gemini family never is, to the filter.
Transform ==
    /\ Take
    /\ LET next == Translated(translation, Head(ahead))
       IN  IF mode = "translate"
           THEN translation' = [next EXCEPT !.out = <<>>] /\ queue' = next.out
           ELSE /\ queue' = IF mode = "passthrough" /\ Empty(Head(ahead)) THEN <<>>
                            ELSE <<Output("chunk")>>
                /\ UNCHANGED translation
    /\ UNCHANGED <<phase, mode, upstream, sent, flushed, errored, connected, stallTimer,
                   view, counters, others, ended>>

\* The end gets here after the last chunk.  A Claude client is sent nothing for it;
\* what is passed through gets a mark, be it the second one, except for the Gemini
\* family, whose clients are said to reject it.
Flush ==
    /\ phase = "streaming" /\ upstream = "ended" /\ ahead = <<>> /\ ~flushed
    /\ flushed' = TRUE
    /\ queue' = IF mode = "passthrough" THEN Append(queue, Output("done")) ELSE queue
    /\ End
    /\ UNCHANGED <<phase, mode, upstream, sent, ahead, translation, errored, connected,
                   stallTimer, view, others>>

\* A failure gets here after the last chunk too, and discards what is not read.
Collapse ==
    /\ phase = "streaming" /\ upstream = "broken" /\ ahead = <<>> /\ ~errored
    /\ errored' = TRUE
    /\ queue' = <<>>
    /\ UNCHANGED <<phase, mode, upstream, sent, ahead, translation, flushed, connected,
                   stallTimer, view, counters, others, ended>>

-----------------------------------------------------------------------------
\* The stream controller and the client.

\* Mutant of HandleError: the controller does not note that it is over.
HandleErrorUnnoted ==
    /\ IF connected THEN End ELSE UNCHANGED <<counters, ended>>
    /\ UNCHANGED connected

HandleError ==
    /\ IF connected THEN End ELSE UNCHANGED <<counters, ended>>
    /\ connected' = FALSE

\* Nothing came for too long: the request is aborted.
Stall ==
    /\ stallTimer
    /\ stallTimer' = FALSE
    /\ HandleError
    /\ upstream' = IF upstream = "open" THEN "broken" ELSE upstream
    /\ UNCHANGED <<phase, mode, sent, ahead, translation, queue, flushed, errored, view,
                   others>>

\* How a client reads the events of a message.
See(e) ==
    LET v == [view EXCEPT !.mark = e.type]
    IN  IF mode # "translate" THEN v
        ELSE [v EXCEPT
                 !.last = e, !.beat = ~@,
                 !.stage = CASE e.type = "message_start" -> "open"
                             [] e.type = "message_delta" -> "stopping"
                             [] e.type = "message_stop" -> "stopped"
                             [] OTHER -> @,
                 !.blocks = CASE e.type = "content_block_start" -> @ \cup {e.index}
                              [] e.type = "content_block_stop" -> @ \ {e.index}
                              [] OTHER -> @,
                 !.next = IF e.type = "content_block_start" THEN e.index + 1 ELSE @]

Read ==
    /\ phase = "streaming" /\ connected /\ queue # <<>>
    /\ view' = See(Head(queue))
    /\ queue' = Tail(queue)
    /\ UNCHANGED <<phase, mode, upstream, sent, ahead, translation, flushed, errored,
                   connected, stallTimer, counters, others, ended>>

\* Mutant of CloseCut: a stream that stalled is closed without a mark.
CloseUnmarked ==
    /\ phase = "streaming"
    /\ ~connected \/ (errored /\ queue = <<>>)
    /\ HandleError
    /\ phase' = "closed" /\ stallTimer' = FALSE
    /\ view' = IF connected THEN See(Output("done")) ELSE view
    /\ UNCHANGED <<mode, pipe, others>>

\* The stream stalled, or the transform failed: the client is told, of whatever
\* family it is.
CloseCut ==
    /\ phase = "streaming"
    /\ ~connected \/ (errored /\ queue = <<>>)
    /\ HandleError
    /\ phase' = "closed" /\ stallTimer' = FALSE
    /\ view' = See(Output("done"))
    /\ UNCHANGED <<mode, pipe, others>>

\* Everything was read: handleComplete.
CloseWhole ==
    /\ phase = "streaming" /\ connected /\ flushed /\ queue = <<>>
    /\ phase' = "closed" /\ connected' = FALSE /\ stallTimer' = FALSE
    /\ UNCHANGED <<mode, pipe, view, counters, others, ended>>

\* Mutant of Leave: the request stays on the counters.
LeaveCounted ==
    /\ phase = "streaming"
    /\ phase' = "left" /\ connected' = FALSE /\ stallTimer' = FALSE
    /\ UNCHANGED <<mode, pipe, view, counters, others, ended>>

\* The client goes away: handleDisconnect, and the pipe is torn down.
Leave ==
    /\ phase = "streaming"
    /\ phase' = "left" /\ stallTimer' = FALSE
    /\ HandleError
    /\ UNCHANGED <<mode, pipe, view, others>>

Respond == AnswerWhole \/ AnswerStream
Consume == Read \/ CloseCut \/ CloseWhole

Next ==
    \/ Execute \/ Respond
    \/ Arrive \/ Eof \/ Break
    \/ Transform \/ Flush \/ Collapse \/ Stall
    \/ Consume \/ Leave
    \/ \E c \in Conn : PendingTimeout(c) \/ OtherStarts(c) \/ OtherEnds(c)

Spec == Init /\ [][Next]_vars

\* The executor has a time limit, the pipe and the timer are the event loop's, and
\* a client that stays reads on.  No upstream is assumed to send or to end.
FairSpec ==
    /\ Spec
    /\ WF_vars(Respond) /\ WF_ahead(Take) /\ WF_vars(Flush) /\ WF_vars(Collapse)
    /\ WF_vars(Stall) /\ WF_vars(Consume)

-----------------------------------------------------------------------------
Active(c) ==
    others[c] + IF c = Own /\ phase \in {"executing", "streaming"} THEN 1 ELSE 0

\* An account is never shown with more requests than it has in flight, however
\* they end and whatever times out: no request stays on the counters for good.
NeverShownAfterEnd == \A c \in Conn : byAccount[c] <= Active(c)

\* What the counters f of the accounts count, one by one.
Units(f) == {p \in Conn \X (1..(MaxOthers + 1)) : p[2] <= f[p[1]]}

Counted(c) ==
    others[c] + IF c = Own /\ phase # "idle" /\ ~ended THEN 1 ELSE 0

\* Unless the minute is over, or a client leaves a stream that was flushed, which
\* takes the request off twice, the counters are those of the requests in flight,
\* for an account and for the model.
CountedExactly ==
    ~disturbed =>
        /\ \A c \in Conn : byAccount[c] = Counted(c)
        /\ byModel = Cardinality(Units(byAccount))

\* A client that stays to the end gets a mark of the end last, whether the stream
\* was whole or cut.  Two kinds of whole stream have none: what is passed through of
\* the Gemini family, and a translated answer whose finish reason did not come, or
\* was followed by more.
EndMarked ==
    phase = "closed" =>
        \/ view.mark \in {"done", "message_stop"}
        \/ flushed /\ mode = "unmarked"
        \/ flushed /\ mode = "translate" /\ ~translation.concluded

\* Whatever mix of reasoning, content, calls and finish reasons the upstream sends,
\* and wherever the stream is cut, the client receives the events of the Claude API
\* in order, up to the message's end.  What an upstream sends beyond its finish
\* reason is translated too, which breaks the API in the ways ClaudeStream names
\* and in no other.
StreamKeepsProtocol == Client!Spec

\* A request that was executed comes to its end, even when its upstream falls
\* silent in the middle of the answer.
EveryStreamEnds == phase = "executing" ~> phase \in {"closed", "left"}
=============================================================================
