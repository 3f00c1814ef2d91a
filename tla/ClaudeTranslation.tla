--------------------------- MODULE ClaudeTranslation ---------------------------
(***************************************************************************)
(* The translation of a stream of OpenAI chunks into events of the Claude   *)
(* API (open-sse/translator/response/openai-to-claude.js).  A chunk may      *)
(* carry reasoning, content, pieces of tool calls and the finish reason at  *)
(* once; the events name content blocks, which the translation opens,       *)
(* numbers and closes.  The content itself is left out.                     *)
(***************************************************************************)
EXTENDS Integers, Sequences

\* A piece of a tool call: its index, whether it has the id, and arguments.
Call == [idx : Nat, id : BOOLEAN, args : BOOLEAN]

\* The first choice of a chunk.  Chunks without choices are ignored.
Chunk == [thinking : BOOLEAN, content : BOOLEAN, calls : Seq(Call), finish : BOOLEAN]

\* Usage, or a delta with nothing in it.
Empty(chunk) ==
    ~chunk.thinking /\ ~chunk.content /\ chunk.calls = <<>> /\ ~chunk.finish

None == -1

\* initState: no block is open.  "out" collects the events of one chunk.  Three
\* ghosts: the tools closed so far, whether the upstream went on beyond its finish
\* reason, and whether the last chunk that was not empty had one.
Fresh == [started |-> FALSE, next |-> 0, thinking |-> None, text |-> None,
          tools |-> <<>>, finished |-> FALSE, out |-> <<>>,
          closed |-> 0, beyond |-> FALSE, concluded |-> FALSE]

\* The events of the next chunk are collected anew.
Turn(s, chunk) ==
    [s EXCEPT !.out = <<>>,
              !.beyond = s.beyond \/ (s.finished /\ ~Empty(chunk))]

Emit(s, type, i) == [s EXCEPT !.out = Append(@, [type |-> type, index |-> i])]

\* "ALWAYS send message_start first"
Begin(s) ==
    IF s.started THEN s
    ELSE [Emit(s, "message_start", 0) EXCEPT !.started = TRUE, !.next = 0]

\* Mutant of StopThinkingBlock: the block is forgotten and left open.
StopThinkingForgotten(s) == [s EXCEPT !.thinking = None]

StopThinkingBlock(s) ==
    IF s.thinking = None THEN s
    ELSE [Emit(s, "content_block_stop", s.thinking) EXCEPT !.thinking = None]

StopTextBlock(s) ==
    IF s.text = None THEN s
    ELSE [Emit(s, "content_block_stop", s.text) EXCEPT !.text = None]

OpenBlock(s) == [Emit(s, "content_block_start", s.next) EXCEPT !.next = @ + 1]

Think(s, chunk) ==
    LET t == StopTextBlock(s)
        u == IF t.thinking = None THEN [OpenBlock(t) EXCEPT !.thinking = t.next] ELSE t
    IN  IF chunk.thinking THEN Emit(u, "content_block_delta", u.thinking) ELSE s

Speak(s, chunk) ==
    LET t == StopThinkingBlock(s)
        u == IF t.text = None THEN [OpenBlock(t) EXCEPT !.text = t.next] ELSE t
    IN  IF chunk.content THEN Emit(u, "content_block_delta", u.text) ELSE s

Known(s, idx) == \E k \in DOMAIN s.tools : s.tools[k].idx = idx

\* A call is opened once, when its id first comes; its block stays open.
OpenCall(s, call) ==
    LET t == StopTextBlock(StopThinkingBlock(s))
    IN  IF ~call.id \/ Known(s, call.idx) THEN s
        ELSE [OpenBlock(t) EXCEPT
                 !.tools = Append(@, [idx |-> call.idx, block |-> t.next, args |-> FALSE])]

\* Arguments are kept back until the end.
Buffer(s, call) ==
    [s EXCEPT !.tools = [k \in DOMAIN s.tools |->
        [s.tools[k] EXCEPT !.args = @ \/ (call.args /\ s.tools[k].idx = call.idx)]]]

CallTools(s, chunk) ==
    LET after[k \in 0..Len(chunk.calls)] ==
            IF k = 0 THEN s
            ELSE Buffer(OpenCall(after[k - 1], chunk.calls[k]), chunk.calls[k])
    IN  after[Len(chunk.calls)]

CloseCall(s, tool) ==
    LET t == IF tool.args THEN Emit(s, "content_block_delta", tool.block) ELSE s
    IN  Emit(t, "content_block_stop", tool.block)

\* With the finish reason everything that is open is closed.  The tools are not
\* forgotten: with a second finish reason they are closed once more.
Conclude(s, chunk) ==
    LET t == StopTextBlock(StopThinkingBlock(s))
        closed[k \in 0..Len(s.tools)] ==
            IF k = 0 THEN t ELSE CloseCall(closed[k - 1], s.tools[k])
    IN  IF ~chunk.finish THEN [s EXCEPT !.concluded = s.concluded /\ Empty(chunk)]
        ELSE [Emit(Emit(closed[Len(s.tools)], "message_delta", 0), "message_stop", 0)
                 EXCEPT !.finished = TRUE, !.closed = Len(s.tools), !.concluded = TRUE]

\* openaiToClaudeResponse: the state after a chunk, with its events in "out".
Translated(s, chunk) ==
    Conclude(CallTools(Speak(Think(Begin(Turn(s, chunk)), chunk), chunk), chunk), chunk)
=============================================================================
