----------------------------- MODULE ClaudeStream -----------------------------
(***************************************************************************)
(* What a client of the Claude API is promised of the events of one        *)
(* message: a first event, content blocks that are numbered in the order   *)
(* they begin and get their content while they are open, and a last event  *)
(* when every block is closed.  A stream that breaks off may end anywhere,  *)
(* with a mark of its own.                                                  *)
(*                                                                         *)
(* That is the API as long as the upstream stops at its end.  One that goes *)
(* on beyond it (GoOn) is followed, and then less is promised: blocks may   *)
(* begin after the last event, and blocks that were closed are written to   *)
(* and closed again.  The message still does not begin twice, new blocks    *)
(* are still numbered in order, and another end still comes when every      *)
(* block is closed.                                                         *)
(***************************************************************************)
EXTENDS Integers

VARIABLES
    stage,      \* of the message
    blocks,     \* the content blocks that are open
    next,       \* the number of the next block
    beyond,     \* the upstream went on beyond its end
    last,       \* the event received last
    beat        \* changes with every event

NoEvent == [type |-> "none", index |-> 0]

Event(type, i) == [type |-> type, index |-> i]

Init ==
    /\ stage = "before" /\ blocks = {} /\ next = 0 /\ beyond = FALSE
    /\ last = NoEvent /\ beat = FALSE

Receive(type, i) ==
    /\ last' = Event(type, i)
    /\ beat' = ~beat

\* Where the content of the message may go on.
Going == stage = IF beyond THEN "stopped" ELSE "open"

\* The blocks that may be written to or closed.
Reachable == IF beyond THEN blocks \cup (0..(next - 1)) ELSE blocks

GoOn ==
    /\ stage = "stopped" /\ ~beyond
    /\ beyond' = TRUE
    /\ UNCHANGED <<stage, blocks, next, last, beat>>

MessageStart ==
    /\ stage = "before"
    /\ stage' = "open"
    /\ Receive("message_start", 0)
    /\ UNCHANGED <<blocks, next, beyond>>

ContentBlockStart ==
    /\ Going
    /\ blocks' = blocks \cup {next}
    /\ next' = next + 1
    /\ Receive("content_block_start", next)
    /\ UNCHANGED <<stage, beyond>>

ContentBlockDelta ==
    /\ Going
    /\ \E i \in Reachable : Receive("content_block_delta", i)
    /\ UNCHANGED <<stage, blocks, next, beyond>>

ContentBlockStop ==
    /\ Going
    /\ \E i \in Reachable : Receive("content_block_stop", i) /\ blocks' = blocks \ {i}
    /\ UNCHANGED <<stage, next, beyond>>

MessageDelta ==
    /\ Going /\ blocks = {}
    /\ stage' = "stopping"
    /\ Receive("message_delta", 0)
    /\ UNCHANGED <<blocks, next, beyond>>

MessageStop ==
    /\ stage = "stopping"
    /\ stage' = "stopped"
    /\ Receive("message_stop", 0)
    /\ UNCHANGED <<blocks, next, beyond>>

\* The stream ends, or is broken off with or without a mark.
End ==
    /\ stage # "ended"
    /\ stage' = "ended"
    /\ Receive("done", 0) \/ UNCHANGED <<last, beat>>
    /\ UNCHANGED <<blocks, next, beyond>>

Next ==
    \/ GoOn \/ MessageStart \/ ContentBlockStart \/ ContentBlockDelta
    \/ ContentBlockStop \/ MessageDelta \/ MessageStop \/ End

Spec == Init /\ [][Next]_<<stage, blocks, next, beyond, last, beat>>
=============================================================================
