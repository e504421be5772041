------------------------------ MODULE Advisor ------------------------------
(***************************************************************************)
(* Advice on a tier (advisor/src).  A local model process is asked over    *)
(* HTTP, within two seconds, for a recommendation; whatever it does short  *)
(* of a sound answer, a fixed table answers instead.  One thing the table  *)
(* must not paper over is an endpoint that is not this machine's.          *)
(***************************************************************************)
EXTENDS Naturals

CONSTANTS
  Request,     \* calls of advise()
  Tier,        \* none, bronze, silver, gold
  MaxChanges   \* bound: how often the model process changes

Unknown == "unknown"    \* what is no tier

\* No tier is named like what is no tier, or like a failure of the model.
AdvisorAssumption ==
  /\ MaxChanges \in Nat
  /\ Tier \cap {Unknown, "refusing", "erring", "garbled", "silent"} = {}

VARIABLES
  loopback,  \* whether the configured endpoint is this machine's
  model,     \* how the process behind it answers
  changes,
  tier,      \* what each call is asked about
  pc, answer,
  seen       \* history: how the model was at each moment of the request

vars == <<loopback, model, changes, tier, pc, answer, seen>>

\* A tier: a sound recommendation for that one, whichever was asked for.
Model == Tier \cup {"refusing", "erring", "garbled", "silent"}

Answer(by, about) == [by |-> by, about |-> about]

Init ==
  /\ loopback \in BOOLEAN /\ model \in Model /\ changes = 0
  /\ tier \in [Request -> Tier \cup {Unknown}]
  /\ pc = [a \in Request |-> "idle"]
  /\ answer = [a \in Request |-> Answer("nobody", Unknown)]
  /\ seen = [a \in Request |-> {}]

Settle(a, result) ==
  /\ pc' = [pc EXCEPT ![a] = "settled"]
  /\ answer' = [answer EXCEPT ![a] = result]

\* Mutation: what is caught is not looked at.
StubForAnything(a) == Answer("stub", tier[a])

\* createLocalModelPredictor's catch: a misconfiguration is no outage.
OnUnsafe(a) == Answer("unsafe_model_endpoint", Unknown)

\* advise(): the tier is looked at first, the endpoint before it is called.
Begin(a) ==
  /\ pc[a] = "idle"
  /\ IF tier[a] \notin Tier THEN Settle(a, Answer("invalid_tier", Unknown)) /\ UNCHANGED seen
     ELSE IF ~loopback THEN Settle(a, OnUnsafe(a)) /\ UNCHANGED seen
     ELSE /\ pc' = [pc EXCEPT ![a] = "asked"]
          /\ seen' = [seen EXCEPT ![a] = {model}]
          /\ UNCHANGED answer
  /\ UNCHANGED <<loopback, model, changes, tier>>

\* The table has a line for every tier, and says of each that no offer is there.
Stub(a) ==
  /\ Settle(a, Answer("stub", tier[a]))
  /\ UNCHANGED <<loopback, model, changes, tier, seen>>

Headers(a) ==
  /\ pc[a] = "asked" /\ model # "silent"
  /\ IF model \in {"refusing", "erring"} THEN Stub(a)
     ELSE /\ pc' = [pc EXCEPT ![a] = "reading"]
          /\ UNCHANGED <<loopback, model, changes, tier, answer, seen>>

\* Mutation: the shape is looked at, and not the tier it is about.
RightShape(a) == model \in Tier

Trusted(a) == model \in Tier /\ model = tier[a]

Body(a) ==
  /\ pc[a] = "reading" /\ model # "silent"
  /\ IF Trusted(a)
     THEN /\ Settle(a, Answer("model", model))
          /\ UNCHANGED <<loopback, model, changes, tier, seen>>
     ELSE Stub(a)

\* Mutation: the timer is cleared with the headers.
TimedUntilHeaders == {"asked"}

\* The `finally` clears it once the body is read.
Timed == {"asked", "reading"}

Expires(a) == pc[a] \in Timed /\ model = "silent" /\ Stub(a)

Proceeds(a) == Begin(a) \/ Headers(a) \/ Body(a) \/ Expires(a)

\* Its process answers otherwise, stops, or comes back.
ModelChanges ==
  /\ changes < MaxChanges /\ changes' = changes + 1
  /\ model' \in Model
  /\ seen' = [a \in Request |-> IF pc[a] \in {"asked", "reading"} THEN seen[a] \cup {model'} ELSE seen[a]]
  /\ UNCHANGED <<loopback, tier, pc, answer>>

Next == ModelChanges \/ \E a \in Request : Proceeds(a)

Safety == Init /\ [][Next]_vars

\* The event loop and its timers; nothing is asked of the model process.
Fairness == \A a \in Request : WF_vars(Proceeds(a))

Spec == Safety /\ Fairness

----------------------------------------------------------------------------
\* With the predictor it is built with, the advisor never says
\* model_unavailable: an outage is the table's.
TypeOK ==
  /\ loopback \in BOOLEAN /\ model \in Model /\ changes \in 0..MaxChanges
  /\ tier \in [Request -> Tier \cup {Unknown}]
  /\ pc \in [Request -> {"idle", "asked", "reading", "settled"}]
  /\ answer \in [Request -> [by : {"nobody", "model", "stub", "invalid_tier", "unsafe_model_endpoint"},
                        about : Tier \cup {Unknown}]]
  /\ seen \in [Request -> SUBSET Model]

\* Advice is about the tier that was asked about, whatever the model answers
\* and whenever it changes; about what is no tier there is none.
AdviceIsOwn ==
  \A a \in Request :
    answer[a].by \in {"model", "stub"} => tier[a] \in Tier /\ answer[a].about = tier[a]

\* The table answers only where the model, at some moment of the request, was
\* not well: never for an endpoint that is not this machine's, which is said,
\* and never in place of a sound answer.
StubHasCause ==
  \A a \in Request : answer[a].by = "stub" =>
    \E m \in seen[a] : m # tier[a]

\* No call waits on the model for ever: not on one that is silent after its
\* headers, and none throws.
EveryAdviceEnds == \A a \in Request : (pc[a] # "idle") ~> (pc[a] = "settled")
=============================================================================
