------------------------------- MODULE Risks -------------------------------
(***************************************************************************)
(* One risk of the register, its scores, and the scoring models of the     *)
(* tenant.  An edit and an assessment read the risk, then the model, and   *)
(* write all inputs with the scores they give.  Impact and velocity are    *)
(* handled like the likelihood; a risk without an appetite, which is       *)
(* compared with nothing, is left out.  To the scores a model whose weights *)
(* are edited is another model; here model m has the weight m.             *)
(***************************************************************************)
EXTENDS Handlers, Naturals

CONSTANTS
  Levels,       \* likelihoods, of 1 .. 5
  Effects,      \* effectiveness of the controls, of 1 .. 5
  Appetites,    \* appetite thresholds, in fifths of a score
  Models        \* ids of scoring models, in the order they are created

VARIABLES
  risk,         \* the Risk row: inputs, residual score in fifths, within appetite
  models        \* ScoringModel rows: "none", "plain" or "default"

local == <<risk, models>>
vars == <<req, alone, risk, models>>

Rows == {m \in Models : models[m] # "none"}
Defaults == {m \in Models : models[m] = "default"}

DEFAULT_WEIGHT == 1

Larger(a, b) == IF a < b THEN b ELSE a

\* scoreRisk: mitigation of the likelihood, clamped to 1 (5 fifths) and more.
Score(inputs, weight) == weight * Larger(5, inputs.likelihood * (6 - inputs.effect))

\* defaultModel, or the model that an assessment names: the weight it scores with.
Weights ==
  CASE Rows = {} -> {DEFAULT_WEIGHT}
    [] Defaults # {} -> Defaults
    [] OTHER -> {m \in Rows : \A n \in Rows : m <= n}

Inputs == [likelihood : Levels, effect : Effects, appetite : Appetites]

Begin(r, state) ==
  /\ req[r] = Idle
  /\ Enter(r, state)
  /\ UNCHANGED local

Scored == {"likelihood", "effect"}

\* update names some inputs or none, assess those that are scored; the rest
\* is what was read.
ReadForScoring(r) ==
  \E named \in SUBSET (Scored \cup {"appetite"}), inputs \in Inputs, assess \in BOOLEAN :
    /\ \A f \in (Scored \cup {"appetite"}) \ named : inputs[f] = risk[f]
    /\ assess => named = Scored
    /\ Begin(r, [pc |-> "model", named |-> named, inputs |-> inputs, assess |-> assess])

\* Only an assessment may name the model.
ReadModel(r) ==
  /\ At(r, "model")
  /\ \E w \in Weights \cup (IF req[r].assess THEN Rows ELSE {}) :
       LET score == Score(req[r].inputs, w) IN
         Enter(r, [pc |-> "rescore", named |-> req[r].named, inputs |-> req[r].inputs,
                   assess |-> req[r].assess, score |-> score,
                   within |-> score <= req[r].inputs.appetite])
  /\ UNCHANGED local

\* Broken variant: inputs that the request does not name are not written.
WrittenNamed(r) ==
  [likelihood |-> IF "likelihood" \in req[r].named THEN req[r].inputs.likelihood
                  ELSE risk.likelihood,
   effect |-> IF "effect" \in req[r].named THEN req[r].inputs.effect ELSE risk.effect,
   appetite |-> IF "appetite" \in req[r].named THEN req[r].inputs.appetite ELSE risk.appetite,
   score |-> req[r].score, within |-> req[r].within]

\* An assessment does not write the appetite it compared with.
Written(r) ==
  [likelihood |-> req[r].inputs.likelihood, effect |-> req[r].inputs.effect,
   appetite |-> IF req[r].assess THEN risk.appetite ELSE req[r].inputs.appetite,
   score |-> req[r].score, within |-> req[r].within]

WriteRisk(r) ==
  /\ At(r, "rescore")
  /\ risk' = Written(r)
  /\ Release(r)
  /\ UNCHANGED models

\* createScoringModel: the first one is the default unless the caller says no.
ReadForModel(r) ==
  \E m \in Models \ Rows, default \in BOOLEAN :
    /\ \A n \in Models : n < m => n \in Rows
    /\ \A s \in Requests : req[s].pc \in {"unset", "promote"} => req[s].id # m
    /\ Begin(r, [pc |-> IF default THEN "unset" ELSE "promote", id |-> m,
                 to |-> IF default THEN "default" ELSE "plain", stale |-> {}])

\* updateScoringModel of isDefault.
ReadForDefault(r) ==
  \E m \in Rows, default \in BOOLEAN :
    Begin(r, [pc |-> IF default THEN "unset" ELSE "promote", id |-> m,
              to |-> IF default THEN "default" ELSE "plain", stale |-> {}])

\* The rows that updateMany finds ...
ToUnset(id) == Defaults \ {id}

FindDefaults(r) ==
  /\ At(r, "unset")
  /\ Enter(r, [req[r] EXCEPT !.pc = "promote", !.stale = ToUnset(req[r].id)])
  /\ UNCHANGED local

\* ... are unset if they still match when their locks are had.
CommitModel(r) ==
  /\ At(r, "promote")
  /\ models' = [m \in Models |->
       IF m = req[r].id THEN req[r].to
       ELSE IF m \in req[r].stale /\ models[m] = "default" THEN "plain" ELSE models[m]]
  /\ Release(r)
  /\ UNCHANGED risk

\* create, before there is a model.
Init ==
  /\ \E inputs \in Inputs :
       LET score == Score(inputs, DEFAULT_WEIGHT) IN
         risk = [likelihood |-> inputs.likelihood, effect |-> inputs.effect,
                 appetite |-> inputs.appetite, score |-> score,
                 within |-> score <= inputs.appetite]
  /\ models = [m \in Models |-> "none"]
  /\ NoRequests

Next == \E r \in Requests :
  \/ ReadForScoring(r)
  \/ ReadModel(r)
  \/ WriteRisk(r)
  \/ ReadForModel(r)
  \/ ReadForDefault(r)
  \/ FindDefaults(r)
  \/ CommitModel(r)

Spec == Init /\ [][Next]_vars

-----------------------------------------------------------------------------
\* The rows and the requests have the types of the schema.
TypeOK ==
  /\ risk \in [likelihood : Levels, effect : Effects, appetite : Appetites,
              score : Nat, within : BOOLEAN]
  /\ models \in [Models -> {"none", "plain", "default"}]
  /\ DOMAIN req = Requests
  /\ \A r \in Requests :
       \/ At(r, "idle")
       \/ /\ req[r].pc \in {"model", "rescore"}
          /\ req[r].inputs \in Inputs
          /\ At(r, "rescore") => req[r].score \in Nat
       \/ /\ req[r].pc \in {"unset", "promote"}
          /\ req[r].id \in Models
          /\ req[r].stale \subseteq Models

(* However edits and assessments overlap, the score of a risk is that of   *)
(* its own inputs under one model, never of another request's.  A write    *)
(* that nothing disturbs also compares it with the appetite of the row and *)
(* changes no input it does not name, and one that makes a model the       *)
(* default leaves it as the only one (update, assess, createScoringModel,  *)
(* updateScoringModel).                                                    *)
ScoresFollowInputs ==
  [][/\ risk'.score \in {Score(risk', w) : w \in Models \cup {DEFAULT_WEIGHT}}
     /\ alone' => \A r \in Requests :
          /\ At(r, "rescore") =>
               /\ risk'.within = (risk'.score <= risk'.appetite)
               /\ \A f \in (Scored \cup {"appetite"}) \ req[r].named : risk'[f] = risk[f]
          /\ At(r, "promote") /\ req[r].to = "default" => Defaults' = {req[r].id}]_vars
=============================================================================
