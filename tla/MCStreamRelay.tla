---------------------------- MODULE MCStreamRelay ----------------------------
(* A small instance of the relay of a stream for TLC. *)
EXTENDS StreamRelay

CONSTANTS c1, c2

MCConn == {c1, c2}

MCOpen == [idx |-> 0, id |-> TRUE, args |-> TRUE]
MCSecond == [idx |-> 1, id |-> TRUE, args |-> FALSE]
MCMore == [idx |-> 1, id |-> FALSE, args |-> TRUE]

\* What a chunk carries, at most two parts at a time, and every variety of calls
\* only alone.
MCParts == {S \in SUBSET {"thinking", "content", "calls", "finish"} : Cardinality(S) <= 2}

MCChunks ==
    UNION {{[thinking |-> "thinking" \in S, content |-> "content" \in S, calls |-> calls,
             finish |-> "finish" \in S] :
                calls \in CASE "calls" \notin S -> {<<>>}
                           [] S = {"calls"} -> {<<MCOpen>>, <<MCSecond>>, <<MCOpen, MCMore>>}
                           [] OTHER -> {<<MCOpen>>}} : S \in MCParts}
=============================================================================
