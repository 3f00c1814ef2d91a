------------------------------ MODULE FusionPanel ------------------------------
(***************************************************************************)
(* One request to a fusion combo (handleFusionChat of                      *)
(* open-sse/services/combo.js): its panel of models is asked in parallel,  *)
(* a few at a time, each slot failing over from its primary to its backup; *)
(* the panel ends when everyone has settled, a while after a quorum has     *)
(* answered, or at a hard limit; answers of low quality are asked again,    *)
(* three or more are refined, and a judge writes the reply.  Attempts that  *)
(* the panel did not wait for run on, and queued slots still start.         *)
(***************************************************************************)
EXTENDS Integers, FiniteSets

CONSTANTS
    N,              \* slots of the panel, in the order they are started
    Backed,         \* the slots with a backup
    MinPanel,       \* the quorum asked for
    MaxConcurrency, \* maxPanelConcurrency, 0 for no limit
    RefineEnabled

Slot == 1..N

ASSUME FusionAssumption ==
    /\ N \in Nat /\ N >= 2
    /\ Backed \subseteq Slot
    /\ MinPanel \in Nat /\ MaxConcurrency \in Nat
    /\ RefineEnabled \in BOOLEAN

VARIABLES
    phase,
    stage,      \* of every slot
    out,        \* what it settled with, as collectPanel keeps it
    cursor,     \* the slots up to here have been started
    active,     \* how many of them run
    settled, ok,\* how many have settled, and with an answer
    grace,      \* graceTimer
    timedOut,   \* the hard timer ended the panel: a ghost
    answers,    \* the answers taken from the panel
    pending,    \* the refinements that have not returned
    cooling,    \* the models whose source cools down
    reply

pool == <<stage, cursor, active, cooling>>
panel == <<out, settled, ok, grace, timedOut>>
panelVars == <<phase, pool, panel, answers, pending, reply>>

PanelModel == (Slot \X {"primary"}) \cup (Backed \X {"backup"})

Phase == {"start", "collecting", "recovering", "direct", "refining", "judging",
          "replied"}

Quorum ==
    LET asked == IF MinPanel < 2 THEN 2 ELSE MinPanel
    IN  IF asked < N THEN asked ELSE N

Skipped == {i \in Slot : stage[i] = "skipped"}
Active == Slot \ Skipped
Runs(i) == stage[i] \in {"primary", "backup"}
Answered(i) == out[i] \in {"good", "low"}
Given == {i \in Slot : answers[i] # "none"}

Cap == IF MaxConcurrency = 0 \/ MaxConcurrency > N THEN N ELSE MaxConcurrency

PanelInit ==
    /\ phase = "start"
    /\ stage = [i \in Slot |-> "skipped"] /\ out = [i \in Slot |-> "none"]
    /\ cursor = 0 /\ active = 0 /\ settled = 0 /\ ok = 0
    /\ grace = FALSE /\ timedOut = FALSE
    /\ answers = [i \in Slot |-> "none"] /\ pending = {}
    /\ cooling \in SUBSET PanelModel
    /\ reply = "none"

-----------------------------------------------------------------------------
\* The slots with a cooling model are left out, unless that leaves none; the
\* first of the others are started.
Cools(i) == \E k \in {"primary", "backup"} : <<i, k>> \in cooling

Rank(i, S) == Cardinality({j \in S : j <= i})

StartPanel ==
    /\ phase = "start"
    /\ phase' = "collecting"
    /\ LET warm == {i \in Slot : ~Cools(i)}
           S == IF warm = {} THEN Slot ELSE warm
           first == {i \in S : Rank(i, S) <= Cap}
       IN  /\ stage' = [i \in Slot |-> IF i \in first THEN "primary"
                                       ELSE IF i \in S THEN "queued" ELSE "skipped"]
           /\ active' = Cardinality(first)
           /\ cursor' = Cardinality(first)
    /\ UNCHANGED <<panel, answers, pending, cooling, reply>>

\* Mutant of Finish: the promise is only resolved with a quorum.
FinishWithQuorum ==
    /\ phase' = IF ok' >= Quorum THEN "recovering" ELSE phase
    /\ answers' = [i \in Slot |->
                      IF out'[i] \in {"good", "low"} THEN out'[i] ELSE "none"]

\* The panel ends: the answers that arrived are taken from it, once.
Finish ==
    /\ phase' = "recovering"
    /\ answers' = [i \in Slot |->
                      IF out'[i] \in {"good", "low"} THEN out'[i] ELSE "none"]

\* Mutant of Conclude: the panel may end twice.
ConcludeAgain == Finish

\* finished: only the first of the three ways to end it counts.
Conclude == IF phase = "collecting" THEN Finish ELSE UNCHANGED <<phase, answers>>

\* Mutant of GraceDue: the timer is armed one answer early.
GraceDueEarly == ok' >= Quorum - 1

GraceDue == ok' >= Quorum

\* Mutant of Launch: every slot of the queue is started at once.
LaunchMore(i) ==
    /\ stage' = [j \in Slot |-> IF j = i THEN "settled"
                                ELSE IF stage[j] = "queued" THEN "primary" ELSE stage[j]]
    /\ active' = active - 1 + Cardinality({j \in Slot : stage[j] = "queued"})
    /\ cursor' = Cardinality(Active)

\* Mutant of Launch: the next slot is not started.
LaunchNone(i) ==
    /\ stage' = [stage EXCEPT ![i] = "settled"]
    /\ active' = active - 1
    /\ UNCHANGED cursor

\* A slot that is over makes room for the next one in the queue.
Launch(i) ==
    LET queued == {j \in Slot : stage[j] = "queued"}
        next == {j \in queued : Rank(j, queued) = 1}
    IN  /\ stage' = [j \in Slot |-> IF j = i THEN "settled"
                                    ELSE IF j \in next THEN "primary" ELSE stage[j]]
        /\ active' = active - 1 + Cardinality(next)
        /\ cursor' = cursor + Cardinality(next)

\* A slot settles: collectPanel counts it, also when the panel is long over.
Settle(i, result) ==
    /\ Launch(i)
    /\ out' = [out EXCEPT ![i] = result]
    /\ settled' = settled + 1
    /\ ok' = ok + (IF result \in {"good", "low"} THEN 1 ELSE 0)
    /\ IF settled' = Cardinality(Active)
         THEN /\ Conclude
              /\ UNCHANGED grace
         ELSE /\ grace' = (grace \/ GraceDue)
              /\ UNCHANGED <<phase, answers>>
    /\ UNCHANGED <<timedOut, pending, reply>>

SlotAnswers(i) ==
    /\ Runs(i)
    /\ \E result \in {"good", "low"} : Settle(i, result)
    /\ UNCHANGED cooling

\* The primary fails, or its time is up.  The analysis of the error may cool its
\* source, and may call it final: then the backup is not tried.
PrimaryFails(i) ==
    /\ stage[i] = "primary"
    /\ \E final \in BOOLEAN, cools \in BOOLEAN :
          /\ ~(final /\ cools)
          /\ cooling' = IF cools THEN cooling \cup {<<i, "primary">>} ELSE cooling
          /\ IF i \in Backed /\ ~final
               THEN /\ stage' = [stage EXCEPT ![i] = "backup"]
                    /\ UNCHANGED <<phase, cursor, active, panel, answers, pending, reply>>
               ELSE Settle(i, "failed")

BackupFails(i) ==
    /\ stage[i] = "backup"
    /\ Settle(i, "failed")
    /\ UNCHANGED cooling

GraceTimer ==
    /\ phase = "collecting" /\ grace
    /\ UNCHANGED <<pool, panel, pending, reply>>
    /\ Finish

\* The attempts of the slots started at once have the same limit and were
\* started before: their timers fire first.
HardTimer ==
    /\ phase = "collecting"
    /\ \A i \in Active : Rank(i, Active) <= Cap => stage[i] # "primary"
    /\ timedOut' = TRUE
    /\ UNCHANGED <<pool, out, settled, ok, grace, pending, reply>>
    /\ Finish

-----------------------------------------------------------------------------
\* An answer of low quality is asked again of the backup, then of the slot with
\* a higher temperature; a repetitive one is cut short, a short one stays poor.
Recover(i) ==
    /\ phase = "recovering"
    /\ answers[i] = "low" /\ \A j \in 1..(i - 1) : answers[j] # "low"
    /\ \E better \in {"good", "poor"} : answers' = [answers EXCEPT ![i] = better]
    /\ \E S \in SUBSET {m \in PanelModel : m[1] = i} : cooling' = cooling \cup S
    /\ UNCHANGED <<phase, stage, cursor, active, panel, pending, reply>>

\* Mutant of Kept: poor answers are removed even when there is no other.
KeptGood == {i \in Slot : answers[i] = "good"}

\* Poor answers are removed when a better one is there.
Kept ==
    LET good == {i \in Slot : answers[i] = "good"}
    IN  IF good # {} THEN good ELSE Given

Decide ==
    /\ phase = "recovering"
    /\ \A i \in Slot : answers[i] # "low"
    /\ answers' = [i \in Slot |-> IF i \in Kept THEN answers[i] ELSE "none"]
    /\ LET n == Cardinality(Kept)
       IN  /\ phase' = CASE n = 0 -> "replied"
                         [] n = 1 -> "direct"
                         [] n >= 3 /\ RefineEnabled -> "refining"
                         [] OTHER -> "judging"
           /\ reply' = IF n = 0 THEN "unavailable" ELSE "none"
           /\ pending' = IF n >= 3 /\ RefineEnabled THEN Kept ELSE {}
    /\ UNCHANGED <<pool, panel>>

\* A refinement that fails leaves the answer as it was.
Refined(i) ==
    /\ phase = "refining" /\ i \in pending
    /\ pending' = pending \ {i}
    /\ phase' = IF pending' = {} THEN "judging" ELSE phase
    /\ UNCHANGED <<pool, panel, answers, reply>>

\* The only model that answered is asked again; otherwise the judge is asked.
Reply ==
    /\ phase \in {"direct", "judging"}
    /\ \E r \in {phase, "error"} : reply' = r
    /\ phase' = "replied"
    /\ UNCHANGED <<pool, panel, answers, pending>>

\* What the clock brings about, whether or not an upstream ever answers.
Timeout(i) == PrimaryFails(i) \/ BackupFails(i)
Clock == StartPanel \/ GraceTimer \/ HardTimer \/ \E i \in Slot : Timeout(i)

PanelNext ==
    \/ Clock \/ Decide \/ Reply
    \/ \E i \in Slot : SlotAnswers(i) \/ Recover(i) \/ Refined(i)

PanelSpec == PanelInit /\ [][PanelNext]_panelVars

\* Timers fire; no upstream is assumed to answer.
FairPanelSpec == PanelSpec /\ WF_panelVars(Clock)

-----------------------------------------------------------------------------
\* The values of every variable.
PanelTypeOK ==
    /\ phase \in Phase
    /\ stage \in [Slot -> {"skipped", "queued", "primary", "backup", "settled"}]
    /\ out \in [Slot -> {"none", "good", "low", "failed"}]
    /\ cursor \in 0..N /\ active \in 0..N /\ settled \in 0..N /\ ok \in 0..N
    /\ grace \in BOOLEAN /\ timedOut \in BOOLEAN
    /\ answers \in [Slot -> {"none", "good", "low", "poor"}]
    /\ pending \subseteq Slot /\ cooling \subseteq PanelModel
    /\ reply \in {"none", "unavailable", "direct", "judging", "error"}

\* The counters of the two closures agree with the slots: a slot is started once
\* and settles once, and never more than the cap run, late ones included.
CountersAgree ==
    /\ active = Cardinality({i \in Slot : Runs(i)}) /\ active <= Cap
    /\ settled = Cardinality({i \in Slot : stage[i] = "settled"})
    /\ ok = Cardinality({i \in Slot : Answered(i)})
    /\ phase # "start" =>
          cursor = Cardinality({i \in Active : stage[i] # "queued"})

\* The queue does not stall: a slot waits only while the cap is used up, though
\* the panel may be over by then.
NoIdleCapacity ==
    (\E i \in Slot : stage[i] = "queued") => active = Cap

\* The panel ends before everybody has settled only with a quorum of answers or
\* at the hard limit.
EndsForCause ==
    phase \notin {"start", "collecting"} =>
        \/ timedOut \/ ok >= Quorum
        \/ \A i \in Active : stage[i] = "settled"

\* What arrives late changes none of the answers that are judged.
Frozen ==
    phase \notin {"start", "collecting"} =>
        \A i \in Slot : answers[i] = "none" => answers'[i] = "none"

LateAnswersIgnored == [][Frozen]_panelVars

\* "0 panel answers -> 503": a panel in which some model answered, however
\* poorly, is never reported as failed; asking again and removing poor answers
\* leaves at least one.
Lost ==
    /\ phase \notin {"start", "collecting"} /\ Given # {}
    /\ Given' = {} \/ reply' = "unavailable"

AnswersNeverAllLost == [][~Lost]_panelVars

\* The panel ends even if no upstream ever answers.
PanelEnds == phase = "start" ~> phase \notin {"start", "collecting"}
=============================================================================
