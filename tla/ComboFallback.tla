----------------------------- MODULE ComboFallback -----------------------------
(***************************************************************************)
(* Concurrent requests to a combo with fallback (handleComboChat and       *)
(* getRotatedModels of open-sse/services/combo.js).  A request rotates the *)
(* models of the combo, puts the model its conversation is bound to first,  *)
(* and asks them one after the other, leaving out those that cool down; when *)
(* none answers it may wait for one to recover and go round again.  The      *)
(* rotation and the bindings are shared by all requests; the cooldowns come  *)
(* from whoever else uses the quota pool.                                    *)
(***************************************************************************)
EXTENDS Integers, Sequences, FiniteSetsExt, Functions

CONSTANTS
    Req,
    M,              \* models of the combo, in its order
    Session,        \* conversations
    StickyLimit,    \* comboStickyLimit
    StickyTtl,      \* STICKY_TTL_MS
    MaxRounds,      \* COMBO_MAX_ROUNDS
    MaxWait,        \* COMBO_MAX_WAIT_MS
    DefaultWait,    \* the wait when all models cool down
    Margin,         \* what is added to a wait
    Cooldown,       \* how long a model cools down
    MaxTime         \* bound on the clock

Model == 1..M

ASSUME ComboAssumption ==
    /\ M \in Nat /\ M >= 2 /\ Session # {}
    /\ StickyLimit \in Nat \ {0} /\ StickyTtl \in Nat
    /\ MaxRounds \in Nat /\ MaxWait \in Nat /\ DefaultWait \in Nat \ {0}
    /\ Margin \in Nat /\ Cooldown \in Nat /\ MaxTime \in Nat \ {0}

VARIABLES
    now,
    rotation,   \* comboRotationState: the model to start with, and its uses
    binding,    \* stickySessions
    until,      \* when the cooldown of a model ends
    req,        \* the local variables of every request
    turns       \* how much oftener a model came first than another: a ghost

vars == <<now, rotation, binding, until, req, turns>>

None == 0

\* A conversation is known by its words and not by the combo: the model it is bound
\* to may be one of another combo, or one this combo no longer has.
Elsewhere == M + 1

Fresh ==
    [pc |-> "idle", session |-> CHOOSE s \in Session : TRUE, stream |-> FALSE, found |-> None,
     order |-> <<>>, i |-> 1, round |-> 0, status |-> "none",
     earliest |-> 0, allCooling |-> TRUE, wake |-> 0, seen |-> {}]

Init ==
    /\ now = 1
    /\ rotation = [index |-> 1, used |-> 0]
    /\ binding = [s \in Session |-> [model |-> None, at |-> 0]]
    /\ until = [m \in Model |-> 0]
    /\ req = [r \in Req |-> Fresh]
    /\ turns = [m \in Model |-> 0]

Update(r, new) == req' = [req EXCEPT ![r] = new]

IsCooling(m, t) == until[m] > t

-----------------------------------------------------------------------------
\* getRotatedModels: every StickyLimit requests the next model comes first.
Rotated == [k \in Model |-> ((rotation.index + k - 2) % M) + 1]

\* Mutant of Rotation: one use more before the next model.
RotationLate ==
    IF rotation.used > StickyLimit
    THEN [index |-> (rotation.index % M) + 1, used |-> 0]
    ELSE [rotation EXCEPT !.used = @ + 1]

Rotation ==
    IF rotation.used + 1 >= StickyLimit
    THEN [index |-> (rotation.index % M) + 1, used |-> 0]
    ELSE [rotation EXCEPT !.used = @ + 1]

TakeTurn ==
    /\ rotation' = Rotation
    /\ turns' = LET t == [turns EXCEPT ![rotation.index] = @ + 1]
                IN  [m \in Model |-> t[m] - Min(Range(t))]

\* A binding that has expired is as good as none.
Bound(s) ==
    IF now - binding[s].at > StickyTtl THEN None ELSE binding[s].model

\* filter: what of a sequence lies in S, in its order.  It is SelectSeq, of which
\* the provers know nothing, written out.
Filter(order, S) ==
    LET kept[k \in 0..Len(order)] ==
            IF k = 0 THEN <<>>
            ELSE IF order[k] \in S THEN Append(kept[k - 1], order[k]) ELSE kept[k - 1]
    IN  kept[Len(order)]

\* A bound model that the combo does not have changes nothing in the order.
InFront(m, order) ==
    IF m \in Model THEN <<m>> \o Filter(order, Model \ {m}) ELSE order

\* Mutant of Ordered: the binding is applied before the capabilities.
OrderedStickyFirst(capable, sticky) ==
    LET order == InFront(sticky, Rotated)
    IN  Filter(order, capable) \o Filter(order, Model \ capable)

\* Models with what the request needs float to the front, then the bound one.
Ordered(capable, sticky) ==
    InFront(sticky, Filter(Rotated, capable) \o Filter(Rotated, Model \ capable))

\* With the smart router on (smart) a binding is only noted.
Start(r, s) ==
    /\ req[r].pc \in {"idle", "answered"}
    /\ \E capable \in {{m} : m \in Model} \cup {Model}, smart, stream \in BOOLEAN :
          Update(r, [Fresh EXCEPT
              !.pc = "trying", !.session = s, !.stream = stream,
              !.found = IF smart THEN None ELSE Bound(s),
              !.order = Ordered(capable, IF smart THEN None ELSE Bound(s))])
    /\ TakeTurn
    /\ UNCHANGED <<now, binding, until>>

\* A model is skipped while it cools down, and asked otherwise.
Try(r) ==
    LET q == req[r]
        m == q.order[q.i]
    IN  /\ q.pc = "trying" /\ q.i <= Len(q.order)
        /\ Update(r, IF IsCooling(m, now)
                     THEN [q EXCEPT !.i = @ + 1, !.seen = @ \cup {m}]
                     ELSE [q EXCEPT !.pc = "asking", !.allCooling = FALSE])
        /\ UNCHANGED <<now, rotation, binding, until, turns>>

\* Mutant of Cascade: a model that failed is asked again.
CascadeToSame(r, status, earliest) ==
    Update(r, [req[r] EXCEPT !.pc = "trying", !.seen = @ \cup {req[r].order[req[r].i]},
                             !.status = status, !.earliest = earliest])

\* The model failed this request: on to the next one.
Cascade(r, status, earliest) ==
    LET q == req[r]
    IN  Update(r, [q EXCEPT !.pc = "trying", !.i = @ + 1,
                            !.seen = @ \cup {q.order[q.i]},
                            !.status = status, !.earliest = earliest])

Respond(r, status) ==
    Update(r, [Fresh EXCEPT !.pc = "answered", !.status = status])

Bind(s, m) == binding' = [binding EXCEPT ![s] = [model |-> m, at |-> now]]

\* An answer is accepted and binds the conversation.
Accept(r) ==
    LET q == req[r]
    IN  Respond(r, "ok") /\ Bind(q.session, q.order[q.i])

IsLast(r) == req[r].i = Len(req[r].order)

\* An answer that is poor, or slow to begin, only counts from the last model.
Answer(r) ==
    /\ req[r].pc = "asking"
    /\ \/ Accept(r)
       \/ /\ ~IsLast(r)
          /\ Cascade(r, IF req[r].stream THEN "timeout" ELSE "ok", req[r].earliest)
          /\ UNCHANGED binding
    /\ UNCHANGED <<now, rotation, until, turns>>

FirstStatus(r) == IF req[r].status = "none" THEN "failed" ELSE req[r].status

\* The earliest of the retry times is kept.
Sooner(t, earliest) == IF earliest = 0 \/ t < earliest THEN t ELSE earliest

\* Mutant of Fail: an exception ends the request.
FailOnThrow(r) ==
    /\ req[r].pc = "asking"
    /\ Respond(r, "failed")
    /\ UNCHANGED <<now, rotation, binding, until, turns>>

\* The model fails or throws; a failure may say when to try again.
Fail(r) ==
    /\ req[r].pc = "asking"
    /\ \/ Cascade(r, FirstStatus(r), req[r].earliest)
       \/ \E t \in (now + 1)..(now + MaxWait + 1) :
             Cascade(r, FirstStatus(r), Sooner(t, req[r].earliest))
    /\ UNCHANGED <<now, rotation, binding, until, turns>>

\* A failure that no other model can mend is returned as it is.
Reject(r) ==
    /\ req[r].pc = "asking"
    /\ Respond(r, "rejected")
    /\ UNCHANGED <<now, rotation, binding, until, turns>>

LeastOf(a, b) == IF a < b THEN a ELSE b

Wait(q) ==
    IF q.earliest > 0 THEN IF q.earliest > now THEN q.earliest - now ELSE 0
    ELSE IF q.allCooling THEN DefaultWait ELSE 0

MayRetry(q) == q.round < MaxRounds /\ Wait(q) > 0 /\ Wait(q) <= MaxWait

\* All models failed or cool down: wait for one of them, or give up with the
\* status kept from the round.  The clock's bound ends every wait.
EndRound(r) ==
    LET q == req[r]
    IN  /\ q.pc = "trying" /\ q.i > Len(q.order)
        /\ IF MayRetry(q)
           THEN Update(r, [q EXCEPT
                    !.pc = "sleeping", !.round = @ + 1, !.status = "none", !.i = 1,
                    !.earliest = 0, !.allCooling = TRUE,
                    !.wake = LeastOf(MaxTime, now + LeastOf(Wait(q) + Margin, MaxWait))])
           ELSE Respond(r, IF q.status = "none" THEN "unavailable" ELSE q.status)
        /\ UNCHANGED <<now, rotation, binding, until, turns>>

\* The models that do not cool down come first.  The two filters look at the
\* clock on their own: a cooldown that ends between them drops its model.
Sorted(order) ==
    {Filter(order, {m \in Model : ~IsCooling(m, now)})
        \o Filter(order, {m \in Model : IsCooling(m, t)}) : t \in {now, now + 1}}

Wake(r) ==
    LET q == req[r]
    IN  /\ q.pc = "sleeping" /\ now >= q.wake
        /\ \E order \in Sorted(q.order) :
              Update(r, [q EXCEPT !.pc = "trying", !.order = order, !.wake = 0])
        /\ UNCHANGED <<now, rotation, binding, until, turns>>

\* A fusion panel or another request cools a model down.
CoolDown(m) ==
    /\ until[m] <= now
    /\ until' = [until EXCEPT ![m] = now + Cooldown]
    /\ UNCHANGED <<now, rotation, binding, req, turns>>

\* Requests beyond Req, to this combo or another, reach this state only by taking a
\* turn when they begin, and by binding a conversation when they are answered.
OtherStarts == TakeTurn /\ UNCHANGED <<now, binding, until, req>>

OtherAnswered(s, m) ==
    Bind(s, m) /\ UNCHANGED <<now, rotation, until, req, turns>>

\* The settings or the combo are saved.
ResetComboRotation ==
    /\ rotation' = [index |-> 1, used |-> 0]
    /\ turns' = [m \in Model |-> 0]
    /\ turns # turns'
    /\ UNCHANGED <<now, binding, until, req>>

Tick ==
    /\ now < MaxTime
    /\ now' = now + 1
    /\ UNCHANGED <<rotation, binding, until, req, turns>>

Progress(r) ==
    Try(r) \/ Answer(r) \/ Fail(r) \/ Reject(r) \/ EndRound(r) \/ Wake(r)

Next ==
    \/ \E r \in Req : Progress(r) \/ \E s \in Session : Start(r, s)
    \/ \E m \in Model : CoolDown(m)
    \/ \E s \in Session, m \in Model \cup {Elsewhere} : OtherAnswered(s, m)
    \/ OtherStarts \/ Tick \/ ResetComboRotation

Spec == Init /\ [][Next]_vars

\* Timers fire and the chat loop each model is asked through has a budget.
FairSpec == Spec /\ WF_vars(Tick) /\ \A r \in Req : WF_vars(Progress(r))

-----------------------------------------------------------------------------
\* What the local variables of a request hold.
Request ==
    [pc : {"idle", "trying", "asking", "sleeping", "answered"},
     session : Session, stream : BOOLEAN, found : Model \cup {None, Elsewhere},
     order : {q \in Seq(Model) : IsInjective(q)}, i : 1..(M + 1), round : 0..MaxRounds,
     status : {"none", "ok", "timeout", "failed", "rejected", "unavailable"},
     earliest : Nat, allCooling : BOOLEAN, wake : 0..MaxTime, seen : SUBSET Model]

\* The values of every variable.
TypeOK ==
    /\ now \in 1..MaxTime
    /\ rotation \in [index : Model, used : 0..(StickyLimit - 1)]
    /\ binding \in [Session -> [model : Model \cup {None, Elsewhere}, at : 0..MaxTime]]
    /\ until \in [Model -> Nat]
    /\ turns \in [Model -> Nat]
    /\ req \in [Req -> Request]

\* Round-robin is fair whatever requests overlap: no model comes first more than
\* StickyLimit requests ahead of another.
RotationFair == \A m, n \in Model : turns[m] - turns[n] <= StickyLimit

\* A request is refused only after every model of the combo was asked, or was
\* found cooling down, in some round: seen gathers over the rounds, so that a model
\* dropped from the order of a later one was still looked at in the first.
Refuses(r) ==
    /\ req[r].pc # "answered" /\ req'[r].pc = "answered"
    /\ req[r].pc = "trying" \/ req'[r].status \notin {"ok", "rejected"}

NoModelForgotten == [][\A r \in Req : Refuses(r) => req[r].seen = Model]_vars

\* "Binds a conversation to a specific model": a request takes a conversation away
\* from the model of this combo it found it bound to only after that model failed
\* it or cooled down.  Nothing like it holds of a model of another combo, which is
\* given up unasked, nor of a binding another request wrote in the meantime, which
\* the later answer overwrites.
Moves(r) ==
    /\ req[r].pc = "asking" /\ req'[r].pc = "answered" /\ req'[r].status = "ok"
    /\ req[r].found \in Model
    /\ binding'[req[r].session].model # req[r].found

SessionMovesForCause ==
    [][\A r \in Req : Moves(r) => req[r].found \in req[r].seen]_vars

\* Every request is answered, after a bounded number of rounds.
EveryRequestAnswered ==
    \A r \in Req : req[r].pc = "trying" ~> req[r].pc = "answered"
=============================================================================
