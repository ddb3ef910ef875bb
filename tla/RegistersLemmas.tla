-------------------------- MODULE RegistersLemmas --------------------------
(***************************************************************************)
(* What the registers keep, for every number of rows and requests: here    *)
(* timesheets, risks, plans and documents, in RegistersProofs the others   *)
(* and the theorems about all.                                             *)
(*                                                                         *)
(* The properties of lone requests are not inductive: what a request is    *)
(* going to write must be as if it had been read just now.  Each register  *)
(* has such a predicate, Fresh, of a request that has run alone, and Held  *)
(* is what overlapping requests cannot take from it.                       *)
(***************************************************************************)
EXTENDS MCRegisters, FiniteSetTheorems, TLAPS

-----------------------------------------------------------------------------
(* Timesheets *)

\* An edit has read an editable timesheet and sums up what it will leave.
FreshTS(r) ==
  /\ req[r].pc \in {"write", "commit"} => sheet.status \in TS!Editable
  /\ req[r].pc = "commit" =>
       req[r].total = TS!SumOf([entries EXCEPT ![req[r].entry] = req[r].hours])

InvTS == TS!TypeOK /\ (alone => \A r \in Requests : FreshTS(r))

\* A request at a step holds the record of that step.
LEMMA RequestTS ==
  ASSUME TS!TypeOK, NEW r \in Requests
  PROVE  /\ req[r].pc \in {"idle", "write", "commit", "decide"}
         /\ req[r].pc \in {"write", "commit"} =>
              req[r] \in [pc : {"write", "commit"}, entry : Entries, hours : Hours \cup {0},
                          new : BOOLEAN, total : TS!Totals]
         /\ req[r].pc = "decide" =>
              /\ req[r].to \in {"SUBMITTED", "APPROVED", "REJECTED"}
              /\ req[r].to # "SUBMITTED" => req[r].user \in Approvers
<1>1. req[r] \in TS!Pending
  BY DEF TS!TypeOK
<1> QED
  BY <1>1 DEF TS!Pending, TS!Idle

\* A request moves on: what it becomes is typed and fresh, and so all are.
LEMMA EnterTS ==
  ASSUME InvTS, NEW r \in Requests, NEW state, TS!Enter(r, state), state \in TS!Pending,
         sheet' \in [status : {"OPEN", "SUBMITTED", "APPROVED", "REJECTED"},
                     total : TS!Totals, approvedBy : Approvers \cup {NoOne}],
         entries' \in [Entries -> Hours \cup {0}],
         (alone \/ req[r] = TS!Idle) /\ (alone => FreshTS(r)) => FreshTS(r)'
  PROVE  InvTS'
<1>1. /\ req' \in [Requests -> TS!Pending] /\ req'[r] = state
      /\ \A s \in Requests : s # r => req'[s] = req[s]
      /\ alone' => (\A s \in Requests : s # r => req[s] = TS!Idle) /\ (alone \/ req[r] = TS!Idle)
  BY DEF TS!TypeOK, InvTS, TS!Enter, TS!Others
<1>2. TS!TypeOK'
  BY <1>1 DEF TS!TypeOK
<1>3. ASSUME alone', NEW s \in Requests
      PROVE  FreshTS(s)'
  <2>1. CASE s = r
    BY <1>1, <1>3, <2>1 DEF InvTS
  <2>2. CASE s # r
    <3>1. req'[s].pc = "idle"
      BY <1>1, <1>3, <2>2 DEF TS!Idle
    <3> QED
      BY <3>1 DEF FreshTS
  <2> QED
    BY <2>1, <2>2
<1> QED
  BY <1>2, <1>3 DEF InvTS

LEMMA InitTS == TS!Init => InvTS
<1> SUFFICES ASSUME TS!Init
             PROVE  InvTS
  OBVIOUS
<1>1. \A r \in Requests : req[r].pc = "idle"
  BY DEF TS!Init, TS!NoRequests, TS!Idle
<1>2. TS!TypeOK
  BY DEF TS!Init, TS!NoRequests, TS!TypeOK, TS!Pending, TS!Totals
<1> QED
  BY <1>1, <1>2 DEF InvTS, FreshTS

LEMMA NextTS ==
  ASSUME InvTS, TS!Next
  PROVE  InvTS'
<1> USE DEF InvTS
<1>1. PICK r \in Requests : \/ TS!ReadForEdit(r) \/ TS!WriteEntry(r) \/ TS!CommitEntry(r)
                            \/ TS!ReadForDecision(r) \/ TS!WriteDecision(r)
  BY DEF TS!Next
<1>2. CASE TS!ReadForEdit(r)
  <2>1. PICK e \in Entries, h \in Hours \cup {0}, new \in BOOLEAN :
          TS!Begin(r, [pc |-> "write", entry |-> e, hours |-> h, new |-> new, total |-> 0])
    BY <1>2 DEF TS!ReadForEdit
  <2> DEFINE state == [pc |-> "write", entry |-> e, hours |-> h, new |-> new, total |-> 0]
  <2>2. state \in TS!Pending /\ state.pc = "write"
    BY DEF TS!Pending, TS!Totals
  <2>3. TS!Enter(r, state) /\ UNCHANGED <<sheet, entries>>
    BY <2>1 DEF TS!Begin, TS!local
  <2> HIDE DEF state
  <2>4. req'[r] = state
    BY <2>3 DEF TS!TypeOK, TS!Enter
  <2>5. FreshTS(r)'
    BY <1>2, <2>2, <2>3, <2>4 DEF FreshTS, TS!ReadForEdit
  <2> QED
    BY <2>2, <2>3, <2>5, EnterTS DEF TS!TypeOK
<1>3. CASE TS!WriteEntry(r)
  <2> DEFINE state == [req[r] EXCEPT !.pc = "commit", !.total = TS!Summed(r)]
  <2>1. /\ req[r].pc = "write" /\ UNCHANGED <<sheet, entries>>
        /\ TS!Enter(r, TS!Idle) \/ TS!Enter(r, state)
    BY <1>3 DEF TS!WriteEntry, TS!At, TS!Release, TS!local
  <2>2. req[r] \in [pc : {"write", "commit"}, entry : Entries, hours : Hours \cup {0},
                    new : BOOLEAN, total : TS!Totals]
    BY <2>1, RequestTS
  <2>3. TS!Summed(r) \in TS!Totals
    <3>1. [entries EXCEPT ![req[r].entry] = req[r].hours] \in [Entries -> Hours \cup {0}]
      BY <2>2 DEF TS!TypeOK
    <3> QED
      BY <3>1 DEF TS!Summed, TS!Totals
  <2>4. PICK q : q = state
    OBVIOUS
  <2>5. q = [pc |-> "commit", entry |-> req[r].entry, hours |-> req[r].hours,
             new |-> req[r].new, total |-> TS!Summed(r)]
    BY <2>2, <2>3, <2>4
  <2>6. q \in TS!Pending /\ TS!Idle \in TS!Pending
    BY <2>2, <2>3, <2>5 DEF TS!Pending
  <2>7. CASE TS!Enter(r, TS!Idle)
    <3>1. req'[r].pc = "idle"
      BY <2>7 DEF TS!TypeOK, TS!Enter, TS!Idle
    <3> QED
      BY <3>1, <2>1, <2>6, <2>7, EnterTS DEF TS!TypeOK, FreshTS
  <2>8. CASE TS!Enter(r, state)
    <3>1. TS!Enter(r, q) /\ req'[r] = q
      BY <2>4, <2>8 DEF TS!TypeOK, TS!Enter
    <3>2. alone => sheet.status \in TS!Editable
      BY <2>1 DEF FreshTS
    <3>3. alone => FreshTS(r)'
      BY <3>1, <3>2, <2>1, <2>5 DEF FreshTS, TS!Summed
    <3>4. req[r] # TS!Idle
      BY <2>1 DEF TS!Idle
    <3> QED
      BY <3>1, <3>3, <3>4, <2>1, <2>6, EnterTS DEF TS!TypeOK
  <2> QED
    BY <2>1, <2>7, <2>8
<1>4. ASSUME TS!Enter(r, TS!Idle),
             sheet' \in [status : {"OPEN", "SUBMITTED", "APPROVED", "REJECTED"},
                         total : TS!Totals, approvedBy : Approvers \cup {NoOne}],
             entries' \in [Entries -> Hours \cup {0}]
      PROVE  InvTS'
  <2>1. req'[r].pc = "idle"
    BY <1>4 DEF TS!TypeOK, TS!Enter, TS!Idle
  <2>2. TS!Idle \in TS!Pending
    BY DEF TS!Pending
  <2> QED
    BY <1>4, <2>1, <2>2, EnterTS DEF FreshTS
<1>5. CASE TS!CommitEntry(r)
  <2>1. /\ req[r].pc = "commit" /\ TS!Enter(r, TS!Idle)
        /\ entries' = [entries EXCEPT ![req[r].entry] = req[r].hours]
        /\ sheet' = [sheet EXCEPT !.total = req[r].total]
    BY <1>5 DEF TS!CommitEntry, TS!At, TS!Release
  <2>2. req[r].hours \in Hours \cup {0} /\ req[r].total \in TS!Totals
    BY <2>1, RequestTS
  <2> QED
    BY <2>1, <2>2, <1>4 DEF TS!TypeOK
<1>6. CASE TS!ReadForDecision(r)
  <2>1. PICK u \in Approvers \cup {Owner}, to \in {"SUBMITTED", "APPROVED", "REJECTED"} :
          /\ IF to = "SUBMITTED" THEN u = Owner ELSE u \in Approvers \ {Owner}
          /\ TS!Begin(r, [pc |-> "decide", to |-> to, user |-> u])
    BY <1>6 DEF TS!ReadForDecision
  <2> DEFINE state == [pc |-> "decide", to |-> to, user |-> u]
  <2>2. state \in TS!Pending /\ state.pc = "decide"
    BY <2>1 DEF TS!Pending
  <2>3. TS!Enter(r, state) /\ UNCHANGED <<sheet, entries>>
    BY <2>1 DEF TS!Begin, TS!local
  <2> HIDE DEF state
  <2>4. req'[r] = state
    BY <2>3 DEF TS!TypeOK, TS!Enter
  <2> QED
    BY <2>2, <2>3, <2>4, EnterTS DEF TS!TypeOK, FreshTS
<1>7. CASE TS!WriteDecision(r)
  <2> DEFINE by == CASE req[r].to = "APPROVED" -> req[r].user
                     [] req[r].to = "REJECTED" -> NoOne
                     [] OTHER -> sheet.approvedBy
  <2>1. /\ req[r].pc = "decide" /\ TS!Enter(r, TS!Idle) /\ entries' = entries
        /\ sheet' = [sheet EXCEPT !.status = req[r].to, !.approvedBy = by]
    BY <1>7 DEF TS!WriteDecision, TS!At, TS!Release
  <2>2. /\ req[r].to \in {"SUBMITTED", "APPROVED", "REJECTED"}
        /\ req[r].to # "SUBMITTED" => req[r].user \in Approvers
    BY <2>1, RequestTS
  <2>3. sheet.approvedBy \in Approvers \cup {NoOne}
    BY DEF TS!TypeOK
  <2>4. by \in Approvers \cup {NoOne}
    BY <2>2, <2>3, Zenon
  <2> HIDE DEF by
  <2>5. sheet' \in [status : {"OPEN", "SUBMITTED", "APPROVED", "REJECTED"},
                    total : TS!Totals, approvedBy : Approvers \cup {NoOne}]
    BY <2>1, <2>2, <2>4 DEF TS!TypeOK
  <2> QED
    BY <2>1, <2>5, <1>4 DEF TS!TypeOK
<1> QED
  BY <1>1, <1>2, <1>3, <1>5, <1>6, <1>7

\* What EditsRestoreTheTotal says of a step.
LEMMA StepTS ==
  ASSUME InvTS, TS!Next, alone', entries' # entries
  PROVE  sheet'.total = TS!SumOf(entries') /\ sheet.status \in TS!Editable
<1>1. PICK r \in Requests : TS!CommitEntry(r)
  <2>1. \A r \in Requests : ~TS!ReadForEdit(r) /\ ~TS!WriteEntry(r) /\ ~TS!ReadForDecision(r)
    BY DEF TS!ReadForEdit, TS!Begin, TS!WriteEntry, TS!ReadForDecision, TS!local
  <2>2. \A r \in Requests : ~TS!WriteDecision(r)
    BY Zenon DEF TS!WriteDecision
  <2> QED
    BY <2>1, <2>2 DEF TS!Next
<1>2. /\ req[r].pc = "commit" /\ TS!Enter(r, TS!Idle)
      /\ entries' = [entries EXCEPT ![req[r].entry] = req[r].hours]
      /\ sheet' = [sheet EXCEPT !.total = req[r].total]
  BY <1>1 DEF TS!CommitEntry, TS!At, TS!Release
<1>3. FreshTS(r)
  <2>1. alone \/ req[r] = TS!Idle
    BY <1>2 DEF TS!Enter
  <2>2. req[r] # TS!Idle
    BY <1>2 DEF TS!Idle
  <2> QED
    BY <2>1, <2>2 DEF InvTS
<1> QED
  BY <1>2, <1>3 DEF FreshTS, InvTS, TS!TypeOK

-----------------------------------------------------------------------------
(* Risks *)

Named == {"likelihood", "effect", "appetite"}

PendingRK ==
  {RK!Idle}
  \cup [pc : {"model"}, named : SUBSET Named, inputs : RK!Inputs, assess : BOOLEAN]
  \cup [pc : {"rescore"}, named : SUBSET Named, inputs : RK!Inputs, assess : BOOLEAN,
        score : Nat, within : BOOLEAN]
  \cup [pc : {"unset", "promote"}, id : Models, to : {"plain", "default"},
        stale : SUBSET Models]

RiskRows ==
  [likelihood : Levels, effect : Effects, appetite : Appetites, score : Nat, within : BOOLEAN]

\* A score is that of its inputs, under some model.
ScoreOf(inputs) == {RK!Score(inputs, w) : w \in Models \cup {RK!DEFAULT_WEIGHT}}

\* An edit has read the row it is going to write; what it does not name is as
\* in the row.  Who makes a model the default has found all other defaults.
FreshRK(r) ==
  /\ req[r].pc \in {"model", "rescore"} =>
       /\ \A f \in Named \ req[r].named : req[r].inputs[f] = risk[f]
       /\ req[r].assess => "appetite" \notin req[r].named
  /\ req[r].pc = "rescore" => req[r].within = (req[r].score <= req[r].inputs.appetite)
  /\ req[r].pc = "promote" /\ req[r].to = "default" => RK!Defaults \subseteq req[r].stale \cup {req[r].id}

InvRK ==
  /\ risk \in RiskRows
  /\ models \in [Models -> {"none", "plain", "default"}]
  /\ req \in [Requests -> PendingRK]
  /\ \A r \in Requests : /\ req[r].pc = "rescore" => req[r].score \in ScoreOf(req[r].inputs)
                         /\ req[r].pc = "unset" => req[r].to = "default"
  /\ alone => \A r \in Requests : FreshRK(r)

LEMMA TypeRK ==
  ASSUME InvRK
  PROVE  RK!TypeOK
<1>1. ASSUME NEW r \in Requests
      PROVE  \/ req[r].pc = "idle"
             \/ /\ req[r].pc \in {"model", "rescore"}
                /\ req[r].inputs \in RK!Inputs
                /\ req[r].pc = "rescore" => req[r].score \in Nat
             \/ /\ req[r].pc \in {"unset", "promote"}
                /\ req[r].id \in Models
                /\ req[r].stale \subseteq Models
  <2>1. req[r] \in PendingRK
    BY DEF InvRK
  <2> QED
    BY <2>1 DEF PendingRK, RK!Idle
<1> QED
  BY <1>1 DEF InvRK, RiskRows, RK!TypeOK, RK!At

LEMMA RequestRK ==
  ASSUME InvRK, NEW r \in Requests
  PROVE  /\ req[r].pc \in {"idle", "model", "rescore", "unset", "promote"}
         /\ req[r].pc = "model" =>
              req[r] \in [pc : {"model"}, named : SUBSET Named, inputs : RK!Inputs, assess : BOOLEAN]
         /\ req[r].pc = "rescore" =>
              req[r] \in [pc : {"rescore"}, named : SUBSET Named, inputs : RK!Inputs,
                          assess : BOOLEAN, score : Nat, within : BOOLEAN]
         /\ req[r].pc \in {"unset", "promote"} =>
              req[r] \in [pc : {"unset", "promote"}, id : Models, to : {"plain", "default"},
                          stale : SUBSET Models]
<1>1. req[r] \in PendingRK
  BY DEF InvRK
<1> QED
  BY <1>1 DEF PendingRK, RK!Idle

LEMMA ScoreIsNat ==
  ASSUME NEW likelihood \in Levels, NEW effect \in Effects,
         NEW w \in Models \cup {RK!DEFAULT_WEIGHT},
         NEW inputs, inputs.likelihood = likelihood, inputs.effect = effect
  PROVE  RK!Score(inputs, w) \in Nat
<1>1. w \in Nat /\ likelihood \in Int /\ effect \in Int
  BY RegistersAssumption DEF RK!DEFAULT_WEIGHT
<1>2. likelihood * (6 - effect) \in Int
  BY <1>1
<1>3. \A x \in Int : RK!Larger(5, x) \in Nat
  BY DEF RK!Larger
<1>4. \A y \in Nat : w * y \in Nat
  BY <1>1
<1> QED
  BY <1>2, <1>3, <1>4 DEF RK!Score

\* A request moves on, as in EnterTS.
LEMMA EnterRK ==
  ASSUME InvRK, NEW r \in Requests, NEW state \in PendingRK, RK!Enter(r, state),
         risk' \in RiskRows, models' \in [Models -> {"none", "plain", "default"}],
         state.pc = "rescore" => state.score \in ScoreOf(state.inputs),
         state.pc = "unset" => state.to = "default",
         (alone \/ req[r] = RK!Idle) /\ (alone => FreshRK(r)) => FreshRK(r)'
  PROVE  InvRK'
<1>1. /\ req' \in [Requests -> PendingRK] /\ req'[r] = state
      /\ \A s \in Requests : s # r => req'[s] = req[s]
      /\ alone' => (\A s \in Requests : s # r => req[s] = RK!Idle) /\ (alone \/ req[r] = RK!Idle)
  BY DEF InvRK, RK!Enter, RK!Others
<1>2. ASSUME NEW s \in Requests
      PROVE  /\ req'[s].pc = "rescore" => req'[s].score \in ScoreOf(req'[s].inputs)
             /\ req'[s].pc = "unset" => req'[s].to = "default"
  BY <1>1 DEF InvRK
<1>3. ASSUME alone', NEW s \in Requests
      PROVE  FreshRK(s)'
  <2>1. CASE s = r
    BY <1>1, <1>3, <2>1 DEF InvRK
  <2>2. CASE s # r
    <3>1. req'[s].pc = "idle"
      BY <1>1, <1>3, <2>2 DEF RK!Idle
    <3> QED
      BY <3>1 DEF FreshRK
  <2> QED
    BY <2>1, <2>2
<1>4. \A s \in Requests : /\ req'[s].pc = "rescore" => (req'[s].score \in ScoreOf(req'[s].inputs))
                          /\ req'[s].pc = "unset" => req'[s].to = "default"
  BY <1>2
<1> QED
  BY <1>1, <1>3, <1>4 DEF InvRK, ScoreOf, RK!Score

LEMMA InitRK == RK!Init => InvRK
<1> SUFFICES ASSUME RK!Init
             PROVE  InvRK
  OBVIOUS
<1>1. PICK i \in RK!Inputs :
        risk = [likelihood |-> i.likelihood, effect |-> i.effect, appetite |-> i.appetite,
                score |-> RK!Score(i, RK!DEFAULT_WEIGHT),
                within |-> RK!Score(i, RK!DEFAULT_WEIGHT) <= i.appetite]
  BY DEF RK!Init
<1>2. i.likelihood \in Levels /\ i.effect \in Effects /\ i.appetite \in Appetites
  BY DEF RK!Inputs
<1>3. RK!Score(i, RK!DEFAULT_WEIGHT) \in Nat
  BY <1>2, ScoreIsNat
<1>4. (RK!Score(i, RK!DEFAULT_WEIGHT) <= i.appetite) \in BOOLEAN
  BY <1>2, <1>3, RegistersAssumption
<1>5. risk \in RiskRows
  BY <1>1, <1>2, <1>3, <1>4 DEF RiskRows
<1>6. \A r \in Requests : req[r].pc = "idle"
  BY DEF RK!Init, RK!NoRequests, RK!Idle
<1> QED
  BY <1>5, <1>6 DEF RK!Init, RK!NoRequests, InvRK, PendingRK, FreshRK

LEMMA NextRK ==
  ASSUME InvRK, RK!Next
  PROVE  InvRK'
<1>1. PICK r \in Requests :
        \/ RK!ReadForScoring(r) \/ RK!ReadModel(r) \/ RK!WriteRisk(r) \/ RK!ReadForModel(r)
        \/ RK!ReadForDefault(r) \/ RK!FindDefaults(r) \/ RK!CommitModel(r)
  BY DEF RK!Next
<1>r. /\ risk \in RiskRows /\ models \in [Models -> {"none", "plain", "default"}]
      /\ req \in [Requests -> PendingRK]
  BY DEF InvRK
<1>2. CASE RK!ReadForScoring(r)
  <2>1. PICK named \in SUBSET Named, inputs \in RK!Inputs, assess \in BOOLEAN :
          /\ \A f \in Named \ named : inputs[f] = risk[f]
          /\ assess => "appetite" \notin named
          /\ RK!Begin(r, [pc |-> "model", named |-> named, inputs |-> inputs, assess |-> assess])
    BY <1>2 DEF RK!ReadForScoring, RK!Scored, Named
  <2> DEFINE state == [pc |-> "model", named |-> named, inputs |-> inputs, assess |-> assess]
  <2>2. state \in PendingRK
    BY DEF PendingRK
  <2>3. RK!Enter(r, state) /\ risk' = risk /\ models' = models
    BY <2>1 DEF RK!Begin, RK!local
  <2>4. state.pc = "model" /\ state.named = named /\ state.inputs = inputs /\ state.assess = assess
    OBVIOUS
  <2> HIDE DEF state
  <2>5. req'[r] = state
    BY <2>3, <1>r DEF RK!Enter
  <2>6. FreshRK(r)'
    BY <2>1, <2>3, <2>4, <2>5 DEF FreshRK
  <2> QED
    BY <2>2, <2>3, <2>4, <2>6, <1>r, EnterRK
<1>3. CASE RK!ReadModel(r)
  <2>1. req[r].pc = "model"
    BY <1>3 DEF RK!ReadModel, RK!At
  <2>2. req[r] \in [pc : {"model"}, named : SUBSET Named, inputs : RK!Inputs, assess : BOOLEAN]
    BY <2>1, RequestRK
  <2>3. \A w \in RK!Weights \cup RK!Rows : w \in Models \cup {RK!DEFAULT_WEIGHT}
    <3>1. RK!Rows \subseteq Models /\ RK!Defaults \subseteq Models
      BY DEF RK!Rows, RK!Defaults
    <3>2. RK!Weights \subseteq RK!Rows \cup RK!Defaults \cup {RK!DEFAULT_WEIGHT}
      BY Zenon DEF RK!Weights
    <3> QED
      BY <3>1, <3>2
  <2>4. PICK w \in Models \cup {RK!DEFAULT_WEIGHT} :
          RK!Enter(r, [pc |-> "rescore", named |-> req[r].named, inputs |-> req[r].inputs,
                       assess |-> req[r].assess, score |-> RK!Score(req[r].inputs, w),
                       within |-> RK!Score(req[r].inputs, w) <= req[r].inputs.appetite])
    BY <1>3, <2>3 DEF RK!ReadModel
  <2>5. PICK score : score = RK!Score(req[r].inputs, w)
    OBVIOUS
  <2>6. /\ req[r].inputs \in RK!Inputs /\ req[r].inputs.likelihood \in Levels
        /\ req[r].inputs.effect \in Effects /\ req[r].inputs.appetite \in Appetites
    BY <2>2 DEF RK!Inputs
  <2>7. score \in Nat /\ score \in ScoreOf(req[r].inputs)
    BY <2>5, <2>6, ScoreIsNat DEF ScoreOf
  <2>8. (score <= req[r].inputs.appetite) \in BOOLEAN
    BY <2>6, <2>7, RegistersAssumption
  <2> DEFINE state == [pc |-> "rescore", named |-> req[r].named, inputs |-> req[r].inputs,
                       assess |-> req[r].assess, score |-> score,
                       within |-> score <= req[r].inputs.appetite]
  <2>9. state \in PendingRK
    BY <2>2, <2>7, <2>8 DEF PendingRK
  <2>10. RK!Enter(r, state) /\ risk' = risk /\ models' = models
    BY <1>3, <2>4, <2>5 DEF RK!ReadModel, RK!local
  <2>11. /\ state.pc = "rescore" /\ state.named = req[r].named /\ state.inputs = req[r].inputs
         /\ state.assess = req[r].assess /\ state.score = score
         /\ state.within = (score <= req[r].inputs.appetite)
    OBVIOUS
  <2> HIDE DEF state
  <2>12. req'[r] = state
    BY <2>10, <1>r DEF RK!Enter
  <2>13. FreshRK(r) => FreshRK(r)'
    BY <2>1, <2>10, <2>11, <2>12 DEF FreshRK
  <2>14. req[r] # RK!Idle
    BY <2>1 DEF RK!Idle
  <2> QED
    BY <2>7, <2>9, <2>10, <2>11, <2>13, <2>14, <1>r, EnterRK
<1>4. ASSUME RK!Enter(r, RK!Idle), risk' \in RiskRows,
             models' \in [Models -> {"none", "plain", "default"}]
      PROVE  InvRK'
  <2>1. RK!Idle \in PendingRK /\ RK!Idle.pc = "idle"
    BY DEF PendingRK, RK!Idle
  <2>2. req'[r].pc = "idle"
    BY <1>4, <1>r, <2>1 DEF RK!Enter
  <2>3. FreshRK(r)'
    BY <2>2 DEF FreshRK
  <2> QED
    BY <1>4, <2>1, <2>3, EnterRK
<1>5. CASE RK!WriteRisk(r)
  <2>1. /\ req[r].pc = "rescore" /\ risk' = RK!Written(r) /\ models' = models
        /\ RK!Enter(r, RK!Idle)
    BY <1>5 DEF RK!WriteRisk, RK!At, RK!Release
  <2>2. req[r] \in [pc : {"rescore"}, named : SUBSET Named, inputs : RK!Inputs,
                    assess : BOOLEAN, score : Nat, within : BOOLEAN]
    BY <2>1, RequestRK
  <2>3. risk' \in RiskRows
    BY <2>1, <2>2, <1>r DEF RK!Written, RK!Inputs, RiskRows
  <2> QED
    BY <2>1, <2>3, <1>4, <1>r
<1>6. ASSUME NEW m \in Models, NEW default \in BOOLEAN,
             RK!Begin(r, [pc |-> IF default THEN "unset" ELSE "promote", id |-> m,
                          to |-> IF default THEN "default" ELSE "plain", stale |-> {}])
      PROVE  InvRK'
  <2> DEFINE state == [pc |-> IF default THEN "unset" ELSE "promote", id |-> m,
                       to |-> IF default THEN "default" ELSE "plain", stale |-> {}]
  <2>1. /\ state \in PendingRK /\ state.pc \in {"unset", "promote"}
        /\ state.pc = "unset" => state.to = "default"
        /\ state.pc = "promote" => state.to = "plain"
    BY DEF PendingRK
  <2>2. RK!Enter(r, state) /\ risk' = risk /\ models' = models
    BY <1>6 DEF RK!Begin, RK!local
  <2> HIDE DEF state
  <2>3. req'[r] = state
    BY <2>2, <1>r DEF RK!Enter
  <2>4. FreshRK(r)'
    BY <2>1, <2>3 DEF FreshRK
  <2> QED
    BY <2>1, <2>2, <2>4, <1>r, EnterRK
<1>7. CASE RK!ReadForModel(r) \/ RK!ReadForDefault(r)
  BY <1>6, <1>7 DEF RK!ReadForModel, RK!ReadForDefault, RK!Rows
<1>8. CASE RK!FindDefaults(r)
  <2>1. /\ req[r].pc = "unset" /\ risk' = risk /\ models' = models
        /\ RK!Enter(r, [req[r] EXCEPT !.pc = "promote", !.stale = RK!ToUnset(req[r].id)])
    BY <1>8 DEF RK!FindDefaults, RK!At, RK!local
  <2>2. req[r] \in [pc : {"unset", "promote"}, id : Models, to : {"plain", "default"},
                    stale : SUBSET Models]
    BY <2>1, RequestRK
  <2>3. PICK state : state = [req[r] EXCEPT !.pc = "promote", !.stale = RK!ToUnset(req[r].id)]
    OBVIOUS
  <2>4. RK!ToUnset(req[r].id) \subseteq Models
    BY DEF RK!ToUnset, RK!Defaults
  <2>5. state = [pc |-> "promote", id |-> req[r].id, to |-> req[r].to,
                 stale |-> RK!ToUnset(req[r].id)]
    BY <2>2, <2>3, <2>4
  <2>6. state \in PendingRK
    BY <2>2, <2>4, <2>5 DEF PendingRK
  <2>7. RK!Enter(r, state) /\ req'[r] = state
    BY <2>1, <2>3, <1>r DEF RK!Enter
  <2>8. RK!Defaults' = RK!Defaults
    BY <2>1 DEF RK!Defaults
  <2>9. FreshRK(r)'
    BY <2>5, <2>7, <2>8 DEF FreshRK, RK!ToUnset
  <2> QED
    BY <2>1, <2>5, <2>6, <2>7, <2>9, <1>r, EnterRK
<1>9. CASE RK!CommitModel(r)
  <2>1. /\ req[r].pc = "promote" /\ risk' = risk /\ RK!Enter(r, RK!Idle)
        /\ models' = [m \in Models |->
             IF m = req[r].id THEN req[r].to
             ELSE IF m \in req[r].stale /\ models[m] = "default" THEN "plain" ELSE models[m]]
    BY <1>9 DEF RK!CommitModel, RK!At, RK!Release
  <2>2. req[r].to \in {"plain", "default"}
    BY <2>1, RequestRK
  <2>3. models' \in [Models -> {"none", "plain", "default"}]
    BY <2>1, <2>2, <1>r
  <2> QED
    BY <2>1, <2>3, <1>4, <1>r
<1> QED
  BY <1>1, <1>2, <1>3, <1>5, <1>7, <1>8, <1>9

\* The score of the row stays that of its inputs.
RowIsScored == risk.score \in ScoreOf(risk)

LEMMA StepRK ==
  ASSUME InvRK, RowIsScored, RK!Next
  PROVE  /\ RowIsScored'
         /\ alone' => \A r \in Requests :
              /\ req[r].pc = "rescore" =>
                   /\ risk'.within = (risk'.score <= risk'.appetite)
                   /\ \A f \in Named \ req[r].named : risk'[f] = risk[f]
              /\ req[r].pc = "promote" /\ req[r].to = "default" => RK!Defaults' = {req[r].id}
<1>1. PICK q \in Requests :
        \/ RK!ReadForScoring(q) \/ RK!ReadModel(q) \/ RK!WriteRisk(q) \/ RK!ReadForModel(q)
        \/ RK!ReadForDefault(q) \/ RK!FindDefaults(q) \/ RK!CommitModel(q)
  BY DEF RK!Next
<1>0. /\ RK!ReadForScoring(q) \/ RK!ReadForModel(q) \/ RK!ReadForDefault(q)
           => req[q].pc = "idle"
      /\ RK!ReadModel(q) => req[q].pc = "model"
      /\ RK!WriteRisk(q) => req[q].pc = "rescore"
      /\ RK!FindDefaults(q) => req[q].pc = "unset"
      /\ RK!CommitModel(q) => req[q].pc = "promote"
  <2>1. RK!Idle.pc = "idle"
    BY DEF RK!Idle
  <2>2. \A state : RK!Begin(q, state) => req[q].pc = "idle"
    BY <2>1 DEF RK!Begin
  <2>3. RK!ReadForScoring(q) \/ RK!ReadForModel(q) \/ RK!ReadForDefault(q) => req[q].pc = "idle"
    BY <2>2 DEF RK!ReadForScoring, RK!ReadForModel, RK!ReadForDefault
  <2> QED
    BY <2>3 DEF RK!ReadModel, RK!WriteRisk, RK!FindDefaults, RK!CommitModel, RK!At
<1>2. RowIsScored'
  <2>1. CASE RK!WriteRisk(q)
    <3>1. req[q].pc = "rescore" /\ risk' = RK!Written(q)
      BY <2>1 DEF RK!WriteRisk, RK!At
    <3>2. req[q].score \in ScoreOf(req[q].inputs)
      BY <3>1 DEF InvRK
    <3>3. risk'.score = req[q].score /\ risk'.likelihood = req[q].inputs.likelihood
          /\ risk'.effect = req[q].inputs.effect
      BY <3>1 DEF RK!Written
    <3> QED
      BY <3>2, <3>3 DEF RowIsScored, ScoreOf, RK!Score
  <2>2. CASE ~RK!WriteRisk(q)
    <3>1. risk' = risk
      BY <1>1, <2>2 DEF RK!ReadForScoring, RK!ReadModel, RK!ReadForModel, RK!ReadForDefault,
                        RK!FindDefaults, RK!CommitModel, RK!Begin, RK!local
    <3> QED
      BY <3>1 DEF RowIsScored, ScoreOf, RK!Score
  <2> QED
    BY <2>1, <2>2
<1>3. ASSUME alone', NEW r \in Requests, req[r].pc \in {"rescore", "promote"}
      PROVE  r = q /\ FreshRK(q)
  <2>1. PICK state : RK!Enter(q, state)
    BY <1>1 DEF RK!ReadForScoring, RK!ReadModel, RK!WriteRisk, RK!ReadForModel,
                RK!ReadForDefault, RK!FindDefaults, RK!CommitModel, RK!Begin, RK!Release
  <2>2. \A s \in Requests : s # q => req[s] = RK!Idle
    BY <1>3, <2>1 DEF RK!Enter, RK!Others
  <2>3. alone \/ req[q] = RK!Idle
    BY <1>3, <2>1 DEF RK!Enter
  <2>4. req[r] # RK!Idle
    BY <1>3 DEF RK!Idle
  <2> QED
    BY <2>2, <2>3, <2>4 DEF InvRK
<1>4. ASSUME alone', NEW r \in Requests, req[r].pc = "rescore"
      PROVE  /\ risk'.within = (risk'.score <= risk'.appetite)
             /\ \A f \in Named \ req[r].named : risk'[f] = risk[f]
  <2>1. r = q /\ FreshRK(r)
    BY <1>3, <1>4
  <2>2. RK!WriteRisk(r)
    BY <1>0, <1>1, <1>4, <2>1
  <2>3. risk' = RK!Written(r)
    BY <2>2 DEF RK!WriteRisk
  <2>4. /\ req[r].within = (req[r].score <= req[r].inputs.appetite)
        /\ \A f \in Named \ req[r].named : req[r].inputs[f] = risk[f]
        /\ req[r].assess => "appetite" \notin req[r].named
    BY <1>4, <2>1 DEF FreshRK
  <2>5. req[r].assess => req[r].inputs.appetite = risk.appetite
    BY <2>4 DEF Named
  <2>6. /\ risk'.within = req[r].within /\ risk'.score = req[r].score
        /\ risk'.appetite = req[r].inputs.appetite
        /\ risk'.likelihood = req[r].inputs.likelihood /\ risk'.effect = req[r].inputs.effect
    BY <2>3, <2>5 DEF RK!Written
  <2> QED
    BY <2>4, <2>6 DEF Named
<1>5. ASSUME alone', NEW r \in Requests, req[r].pc = "promote", req[r].to = "default"
      PROVE  RK!Defaults' = {req[r].id}
  <2>1. r = q /\ FreshRK(r)
    BY <1>3, <1>5
  <2>2. RK!CommitModel(r)
    BY <1>0, <1>1, <1>5, <2>1
  <2>3. models' = [m \in Models |->
             IF m = req[r].id THEN req[r].to
             ELSE IF m \in req[r].stale /\ models[m] = "default" THEN "plain" ELSE models[m]]
    BY <2>2 DEF RK!CommitModel
  <2>4. RK!Defaults \subseteq req[r].stale \cup {req[r].id} /\ req[r].id \in Models
    BY <1>5, <2>1, RequestRK DEF FreshRK
  <2>5. \A m \in Models : models'[m] = "default" <=> m = req[r].id
    BY <1>5, <2>3, <2>4 DEF RK!Defaults
  <2> QED
    BY <2>4, <2>5 DEF RK!Defaults
<1> QED
  BY <1>2, <1>4, <1>5

-----------------------------------------------------------------------------
(* Plans *)

ItemRows == [status : PL!ItemStatuses, audit : Audits \cup {NoOne}]

\* A move has read the status it leaves; what is going to be deleted or started
\* has no engagement.
FreshPL(r) ==
  /\ req[r].pc = "transition" => req[r].move.from = plan.status
  /\ req[r].pc = "delete" => items[req[r].id].audit = NoOne
  /\ req[r].pc = "start" => items[req[r].id].audit = NoOne

InvPL == PL!TypeOK /\ (alone => \A r \in Requests : FreshPL(r))

LEMMA RequestPL ==
  ASSUME PL!TypeOK, NEW r \in Requests
  PROVE  /\ req[r].pc \in {"idle", "transition", "write", "delete", "start", "mark", "end"}
         /\ req[r].pc = "transition" => req[r].move \in PL!PLAN_WORKFLOW
         /\ req[r].pc \in {"write", "delete", "start", "mark"} => req[r].id \in Items
         /\ req[r].pc = "write" => req[r].status \in PL!ItemStatuses
         /\ req[r].pc = "end" => req[r].audit \in Audits /\ req[r].end \in {"COMPLETED", "CANCELLED"}
<1>1. req[r] \in PL!Pending
  BY DEF PL!TypeOK
<1> HIDE DEF PL!PLAN_WORKFLOW, PL!ItemStatuses
<1> QED
  BY <1>1 DEF PL!Pending, PL!Idle

\* What a transition does to the status and to the approver.
LEMMA MovesPL ==
  ASSUME NEW t \in PL!PLAN_WORKFLOW
  PROVE  /\ t.to \in PL!PlanStatuses
         /\ t.action = "approve" => t.to = "APPROVED"
         /\ t.action \in {"return", "reopen"} => t.to = "DRAFT"
         /\ t.action \notin {"approve", "return", "reopen"} =>
              (t.from \in {"APPROVED", "ACTIVE", "ARCHIVED"}
                 <=> t.to \in {"APPROVED", "ACTIVE", "ARCHIVED"})
BY DEF PL!PLAN_WORKFLOW, PL!Move, PL!PlanStatuses

LEMMA ApproversPL ==
  ASSUME NEW action
  PROVE  /\ action = "approve" => PL!ApprovedAfter(action) = TRUE
         /\ action \in {"return", "reopen"} => PL!ApprovedAfter(action) = FALSE
         /\ action \notin {"approve", "return", "reopen"} =>
              PL!ApprovedAfter(action) = plan.approved
<1>1. action = "approve" => PL!ApprovedAfter(action) = TRUE
  BY Zenon DEF PL!ApprovedAfter
<1>2. action \in {"return", "reopen"} => PL!ApprovedAfter(action) = FALSE
  BY Zenon DEF PL!ApprovedAfter
<1>3. action \notin {"approve", "return", "reopen"} => PL!ApprovedAfter(action) = plan.approved
  BY Zenon DEF PL!ApprovedAfter
<1> QED
  BY <1>1, <1>2, <1>3

LEMMA EnterPL ==
  ASSUME InvPL, NEW r \in Requests, NEW state \in PL!Pending, PL!Enter(r, state),
         plan' \in [status : PL!PlanStatuses, approved : BOOLEAN],
         items' \in [Items -> {PL!NoItem} \cup ItemRows],
         audits' \in [Audits -> {"none", "live", "COMPLETED", "CANCELLED"}],
         \A i \in Items : items'[i] # PL!NoItem /\ items'[i].audit # NoOne
                            => audits'[items'[i].audit] # "none",
         (alone \/ req[r] = PL!Idle) /\ (alone => FreshPL(r)) => FreshPL(r)'
  PROVE  InvPL'
<1>1. /\ req' \in [Requests -> PL!Pending] /\ req'[r] = state
      /\ \A s \in Requests : s # r => req'[s] = req[s]
      /\ alone' => (\A s \in Requests : s # r => req[s] = PL!Idle) /\ (alone \/ req[r] = PL!Idle)
  BY DEF InvPL, PL!TypeOK, PL!Enter, PL!Others
<1>2. PL!TypeOK'
  BY <1>1 DEF PL!TypeOK, PL!Rows, ItemRows
<1>3. ASSUME alone', NEW s \in Requests
      PROVE  FreshPL(s)'
  <2>1. CASE s = r
    BY <1>1, <1>3, <2>1 DEF InvPL
  <2>2. CASE s # r
    <3>1. req'[s].pc = "idle"
      BY <1>1, <1>3, <2>2 DEF PL!Idle
    <3> QED
      BY <3>1 DEF FreshPL
  <2> QED
    BY <2>1, <2>2
<1> QED
  BY <1>2, <1>3 DEF InvPL

LEMMA InitPL == PL!Init => InvPL
<1> SUFFICES ASSUME PL!Init
             PROVE  InvPL
  OBVIOUS
<1>1. \A r \in Requests : req[r].pc = "idle"
  BY DEF PL!Init, PL!NoRequests, PL!Idle
<1>2. PL!TypeOK
  BY DEF PL!Init, PL!NoRequests, PL!TypeOK, PL!Pending, PL!PlanStatuses, PL!Rows
<1> QED
  BY <1>1, <1>2 DEF InvPL, FreshPL

LEMMA ReadsPL ==
  ASSUME InvPL, NEW r \in Requests, NEW state \in PL!Pending, PL!Begin(r, state),
         \/ state.pc \in {"write", "end"}
         \/ state.pc = "transition" /\ state.move.from = plan.status
         \/ state.pc \in {"delete", "start"} /\ items[state.id].audit = NoOne
  PROVE  InvPL'
<1>1. PL!Enter(r, state) /\ plan' = plan /\ items' = items /\ audits' = audits
  BY DEF PL!Begin, PL!local
<1>2. req'[r] = state
  BY <1>1 DEF PL!Enter, InvPL, PL!TypeOK
<1>3. FreshPL(r)'
  BY <1>1, <1>2 DEF FreshPL
<1> QED
  BY <1>1, <1>3, EnterPL DEF InvPL, PL!TypeOK, PL!Rows, ItemRows

LEMMA EndsPL ==
  ASSUME InvPL, NEW r \in Requests, PL!Enter(r, PL!Idle),
         plan' \in [status : PL!PlanStatuses, approved : BOOLEAN],
         items' \in [Items -> {PL!NoItem} \cup ItemRows],
         audits' \in [Audits -> {"none", "live", "COMPLETED", "CANCELLED"}],
         \A i \in Items : items'[i] # PL!NoItem /\ items'[i].audit # NoOne
                            => audits'[items'[i].audit] # "none"
  PROVE  InvPL'
<1>1. PL!Idle \in PL!Pending
  BY DEF PL!Pending
<1>2. req'[r].pc = "idle"
  BY DEF PL!Enter, InvPL, PL!TypeOK, PL!Idle
<1>3. FreshPL(r)'
  BY <1>2 DEF FreshPL
<1> QED
  BY <1>1, <1>3, EnterPL

\* A new status of an item leaves its engagement.
LEMMA StatusPL ==
  ASSUME NEW x \in {PL!NoItem} \cup ItemRows, NEW s \in PL!ItemStatuses
  PROVE  [x EXCEPT !.status = s] \in ItemRows /\ [x EXCEPT !.status = s].audit = x.audit
BY DEF ItemRows, PL!NoItem

LEMMA StatusWrittenPL ==
  ASSUME NEW x \in {PL!NoItem} \cup ItemRows, NEW s
  PROVE  [x EXCEPT !.status = s].status = s
BY DEF ItemRows, PL!NoItem

LEMMA NextPL ==
  ASSUME InvPL, PL!Next
  PROVE  InvPL'
<1>1. PICK r \in Requests :
        \/ PL!ReadForTransition(r) \/ PL!Transition(r) \/ PL!ReadForAdd(r) \/ PL!ReadForUpdate(r)
        \/ PL!WriteItem(r) \/ PL!ReadForDelete(r) \/ PL!Delete(r) \/ PL!ReadForStart(r)
        \/ PL!CreateEngagement(r) \/ PL!MarkInProgress(r) \/ PL!ReadForEnd(r)
        \/ PL!EndEngagement(r)
  BY DEF PL!Next
<1>r. /\ plan \in [status : PL!PlanStatuses, approved : BOOLEAN]
      /\ items \in [Items -> {PL!NoItem} \cup ItemRows]
      /\ audits \in [Audits -> {"none", "live", "COMPLETED", "CANCELLED"}]
      /\ \A i \in Items : items[i] # PL!NoItem /\ items[i].audit # NoOne
                            => audits[items[i].audit] # "none"
      /\ req \in [Requests -> PL!Pending]
  BY DEF InvPL, PL!TypeOK, PL!Rows, ItemRows
<1>s. \A s \in {"PLANNED", "IN_PROGRESS", "COMPLETED", "CANCELLED", "PROPOSED"} :
        s \in PL!ItemStatuses
  BY DEF PL!ItemStatuses
<1>n. PL!NoItem.audit = NoOne
  BY DEF PL!NoItem
<1>2. CASE PL!ReadForTransition(r)
  <2>1. PICK t \in PL!PLAN_WORKFLOW :
          t.from = plan.status /\ PL!Begin(r, [pc |-> "transition", move |-> t])
    BY <1>2 DEF PL!ReadForTransition
  <2>2. [pc |-> "transition", move |-> t] \in PL!Pending
    BY DEF PL!Pending
  <2> QED
    BY <2>1, <2>2, ReadsPL
<1>3. CASE PL!Transition(r)
  <2>1. /\ req[r].pc = "transition" /\ PL!Enter(r, PL!Idle) /\ audits' = audits
        /\ plan' = [status |-> req[r].move.to, approved |-> PL!ApprovedAfter(req[r].move.action)]
        /\ items' = [i \in Items |->
             IF req[r].move.action = "activate" /\ items[i].status = "PROPOSED"
               THEN [items[i] EXCEPT !.status = "PLANNED"] ELSE items[i]]
    BY <1>3 DEF PL!Transition, PL!At, PL!Release
  <2>2. req[r].move \in PL!PLAN_WORKFLOW
    BY <2>1, RequestPL DEF InvPL
  <2>3. plan' \in [status : PL!PlanStatuses, approved : BOOLEAN]
    BY <2>1, <2>2, <1>r, MovesPL, ApproversPL
  <2>4. \A i \in Items : items'[i] = items[i] \/ (items'[i] \in ItemRows /\ items'[i].audit = items[i].audit)
    BY <2>1, <1>r, <1>s, StatusPL
  <2>5. \A i \in Items : items'[i].audit = items[i].audit
    BY <2>4
  <2>6. \A i \in Items : items'[i] # items[i] => items[i] # PL!NoItem
    BY <2>1 DEF PL!NoItem
  <2>7. items' \in [Items -> {PL!NoItem} \cup ItemRows]
    BY <2>1, <2>4, <1>r
  <2> QED
    BY <2>1, <2>3, <2>5, <2>6, <2>7, <1>r, EndsPL
<1>4. CASE PL!ReadForAdd(r)
  <2>1. PICK i \in Items, s \in {"PROPOSED", "PLANNED"} :
          PL!Begin(r, [pc |-> "write", id |-> i, new |-> TRUE, status |-> s])
    BY <1>4 DEF PL!ReadForAdd
  <2>2. [pc |-> "write", id |-> i, new |-> TRUE, status |-> s] \in PL!Pending
    BY <1>s DEF PL!Pending
  <2> QED
    BY <2>1, <2>2, ReadsPL
<1>5. CASE PL!ReadForUpdate(r)
  <2>1. PICK i \in Items, s \in PL!ItemStatuses :
          PL!Begin(r, [pc |-> "write", id |-> i, status |-> s, new |-> FALSE])
    BY <1>5 DEF PL!ReadForUpdate, PL!Rows
  <2>2. [pc |-> "write", id |-> i, status |-> s, new |-> FALSE] \in PL!Pending
    BY DEF PL!Pending
  <2> QED
    BY <2>1, <2>2, ReadsPL
\* A write of the status of one item.
<1>6. ASSUME NEW i \in Items, NEW s \in PL!ItemStatuses,
             items' = items \/ items' = [items EXCEPT ![i].status = s],
             PL!Enter(r, PL!Idle), plan' = plan, audits' = audits
      PROVE  InvPL'
  <2>1. \A j \in Items : items'[j].audit = items[j].audit
    <3>1. \A j \in Items : items'[j] = items[j] \/ items'[j] = [items[j] EXCEPT !.status = s]
      BY <1>6, <1>r
    <3> QED
      BY <3>1, <1>r, StatusPL
  <2>2. items' \in [Items -> {PL!NoItem} \cup ItemRows]
    BY <1>6, <1>r, StatusPL
  <2>3. \A j \in Items : items[j] = PL!NoItem => items[j].audit = NoOne
    BY <1>n
  <2> QED
    BY <2>1, <2>2, <2>3, <1>6, <1>r, EndsPL
<1>7. CASE PL!WriteItem(r)
  <2>1. /\ req[r].pc = "write" /\ PL!Enter(r, PL!Idle) /\ plan' = plan /\ audits' = audits
        /\ items' = items \/ items' = [items EXCEPT ![req[r].id].status = req[r].status]
    BY <1>7 DEF PL!WriteItem, PL!At, PL!Release
  <2>2. req[r].id \in Items /\ req[r].status \in PL!ItemStatuses
    BY <2>1, RequestPL DEF InvPL
  <2> QED
    BY <2>1, <2>2, <1>6
<1>8. CASE PL!MarkInProgress(r)
  <2>1. /\ req[r].pc = "mark" /\ PL!Enter(r, PL!Idle) /\ plan' = plan /\ audits' = audits
        /\ items' = items \/ items' = [items EXCEPT ![req[r].id].status = "IN_PROGRESS"]
    BY <1>8 DEF PL!MarkInProgress, PL!At, PL!Release
  <2>2. req[r].id \in Items
    BY <2>1, RequestPL DEF InvPL
  <2> QED
    BY <2>1, <2>2, <1>6, <1>s
<1>9. CASE PL!ReadForDelete(r) \/ PL!ReadForStart(r)
  <2>1. PICK i \in Items, pc \in {"delete", "start"} :
          items[i].audit = NoOne /\ PL!Begin(r, [pc |-> pc, id |-> i])
    BY <1>9 DEF PL!ReadForDelete, PL!ReadForStart, PL!Startable, PL!Rows
  <2>2. [pc |-> pc, id |-> i] \in PL!Pending
    BY DEF PL!Pending
  <2> QED
    BY <2>1, <2>2, ReadsPL
<1>10. CASE PL!Delete(r)
  <2>1. /\ PL!Enter(r, PL!Idle) /\ plan' = plan /\ audits' = audits
        /\ items' = [items EXCEPT ![req[r].id] = PL!NoItem]
    BY <1>10 DEF PL!Delete, PL!Release
  <2> QED
    BY <2>1, <1>r, EndsPL
<1>11. CASE PL!CreateEngagement(r)
  <2>1. req[r].pc = "start" /\ plan' = plan
    BY <1>11 DEF PL!CreateEngagement, PL!At
  <2>2. req[r].id \in Items
    BY <2>1, RequestPL DEF InvPL
  <2>3. CASE req[r].id \in PL!Rows
    <3> DEFINE state == [pc |-> "mark", id |-> req[r].id]
    <3>1. PICK e \in Audits :
            /\ audits[e] = "none" /\ audits' = [audits EXCEPT ![e] = "live"]
            /\ items' = [items EXCEPT ![req[r].id].audit = e]
            /\ PL!Enter(r, state)
      BY <1>11, <2>3 DEF PL!CreateEngagement
    <3>2. state \in PL!Pending
      BY <2>2 DEF PL!Pending
    <3>3. items[req[r].id] \in ItemRows
      BY <2>2, <2>3, <1>r DEF PL!Rows
    <3>4. [items[req[r].id] EXCEPT !.audit = e] \in ItemRows
          /\ [items[req[r].id] EXCEPT !.audit = e].audit = e
      BY <3>3 DEF ItemRows
    <3>5. items' \in [Items -> {PL!NoItem} \cup ItemRows] /\ items'[req[r].id].audit = e
          /\ \A i \in Items : i # req[r].id => items'[i] = items[i]
      BY <3>1, <3>4, <2>2, <1>r
    <3>6. audits' \in [Audits -> {"none", "live", "COMPLETED", "CANCELLED"}] /\ audits'[e] = "live"
          /\ \A a \in Audits : audits[a] # "none" => audits'[a] # "none"
      BY <3>1, <1>r
    <3>7. \A i \in Items : items'[i] # PL!NoItem /\ items'[i].audit # NoOne
                             => audits'[items'[i].audit] # "none"
      <4>1. \A i \in Items : items[i] # PL!NoItem /\ items[i].audit # NoOne => items[i].audit \in Audits
        BY <1>r DEF ItemRows
      <4> QED
        BY <4>1, <3>5, <3>6, <1>r
    <3>8. req'[r] = state
      BY <3>1, <1>r DEF PL!Enter
    <3>9. FreshPL(r)'
      BY <3>8 DEF FreshPL
    <3> HIDE DEF state
    <3> QED
      BY <3>1, <3>2, <3>5, <3>6, <3>7, <3>9, <2>1, <1>r, EnterPL
  <2>4. CASE req[r].id \notin PL!Rows
    <3>1. items' = items /\ audits' = audits /\ PL!Enter(r, PL!Idle)
      BY <1>11, <2>4 DEF PL!CreateEngagement, PL!Release
    <3> QED
      BY <3>1, <2>1, <1>r, EndsPL
  <2> QED
    BY <2>3, <2>4
<1>12. CASE PL!ReadForEnd(r)
  <2>1. PICK e \in Audits, end \in {"COMPLETED", "CANCELLED"} :
          PL!Begin(r, [pc |-> "end", audit |-> e, end |-> end])
    BY <1>12 DEF PL!ReadForEnd
  <2>2. [pc |-> "end", audit |-> e, end |-> end] \in PL!Pending
    BY DEF PL!Pending
  <2> QED
    BY <2>1, <2>2, ReadsPL
<1>13. CASE PL!EndEngagement(r)
  <2>1. /\ req[r].pc = "end" /\ PL!Enter(r, PL!Idle) /\ plan' = plan
        /\ audits' = [audits EXCEPT ![req[r].audit] = req[r].end]
        /\ items' = [i \in Items |->
             IF items[i].audit = req[r].audit
               THEN [items[i] EXCEPT !.status = req[r].end] ELSE items[i]]
    BY <1>13 DEF PL!EndEngagement, PL!At, PL!Release
  <2>2. req[r].audit \in Audits /\ req[r].end \in {"COMPLETED", "CANCELLED"}
    BY <2>1, RequestPL DEF InvPL
  <2>3. \A i \in Items : /\ items'[i] \in {PL!NoItem} \cup ItemRows
                         /\ items'[i].audit = items[i].audit
    BY <2>1, <2>2, <1>r, <1>s, StatusPL
  <2>4. items' \in [Items -> {PL!NoItem} \cup ItemRows]
    BY <2>1, <2>3
  <2>5. \A a \in Audits : audits'[a] = audits[a] \/ audits'[a] # "none"
    BY <2>1, <2>2, <1>r
  <2>6. audits' \in [Audits -> {"none", "live", "COMPLETED", "CANCELLED"}]
    BY <2>1, <2>2, <1>r
  <2>7. \A i \in Items : items[i].audit = NoOne \/ items[i].audit \in Audits
    BY <1>r, <1>n DEF ItemRows
  <2>8. \A i \in Items : items'[i] # PL!NoItem /\ items'[i].audit # NoOne
                           => audits'[items'[i].audit] # "none"
    BY <2>3, <2>5, <2>7, <1>r, <1>n
  <2> QED
    BY <2>1, <2>4, <2>6, <2>8, <1>r, EndsPL
<1> QED
  BY <1>1, <1>2, <1>3, <1>4, <1>5, <1>7, <1>8, <1>9, <1>10, <1>11, <1>12, <1>13

\* What PlanKeepsApproverAndLinks says of a step.
LEMMA StepPL ==
  ASSUME InvPL, PL!Next, alone'
  PROVE  /\ PL!ApproverAgrees => PL!ApproverAgrees'
         /\ \A i \in Items : items[i].audit # NoOne => items'[i].audit = items[i].audit
         /\ \A i \in Items, e \in Audits :
              items[i].audit = e /\ audits'[e] # audits[e] => items'[i].status = audits'[e]
         /\ \A e \in Audits : audits'[e] = "live" /\ audits[e] = "none" =>
              \E i \in Items : items'[i].audit = e
<1>1. PICK r \in Requests :
        \/ PL!ReadForTransition(r) \/ PL!Transition(r) \/ PL!ReadForAdd(r) \/ PL!ReadForUpdate(r)
        \/ PL!WriteItem(r) \/ PL!ReadForDelete(r) \/ PL!Delete(r) \/ PL!ReadForStart(r)
        \/ PL!CreateEngagement(r) \/ PL!MarkInProgress(r) \/ PL!ReadForEnd(r)
        \/ PL!EndEngagement(r)
  BY DEF PL!Next
<1>r. /\ items \in [Items -> {PL!NoItem} \cup ItemRows]
      /\ audits \in [Audits -> {"none", "live", "COMPLETED", "CANCELLED"}]
  BY DEF InvPL, PL!TypeOK, PL!Rows, ItemRows
<1>s. \A s \in {"PLANNED", "IN_PROGRESS", "COMPLETED", "CANCELLED", "PROPOSED"} :
        s \in PL!ItemStatuses
  BY DEF PL!ItemStatuses
<1>n. PL!NoItem.audit = NoOne
  BY DEF PL!NoItem
<1>2. ASSUME NEW q \in Requests, req[q] # PL!Idle
      PROVE  q = r /\ FreshPL(r)
  <2>1. PICK state : PL!Enter(r, state)
    BY <1>1 DEF PL!ReadForTransition, PL!Transition, PL!ReadForAdd, PL!ReadForUpdate,
       PL!WriteItem, PL!ReadForDelete, PL!Delete, PL!ReadForStart, PL!CreateEngagement,
       PL!MarkInProgress, PL!ReadForEnd, PL!EndEngagement, PL!Begin, PL!Release
  <2>2. \A s \in Requests : s # r => req[s] = PL!Idle
    BY <2>1 DEF PL!Enter, PL!Others
  <2>3. alone \/ req[r] = PL!Idle
    BY <2>1 DEF PL!Enter
  <2> QED
    BY <1>2, <2>2, <2>3 DEF InvPL
<1>3. ASSUME NEW i \in Items, NEW e \in Audits, items[i].audit = e
      PROVE  audits[e] # "none"
  <2>1. i \in PL!Rows
    BY <1>3, <1>n, RegistersAssumption DEF PL!Rows
  <2> QED
    BY <1>3, <2>1, RegistersAssumption DEF InvPL, PL!TypeOK
<1>a. ASSUME items' = items, audits' = audits, plan' = plan
      PROVE  /\ PL!ApproverAgrees => PL!ApproverAgrees'
             /\ \A i \in Items : items'[i].audit = items[i].audit
             /\ audits' = audits
  BY <1>a DEF PL!ApproverAgrees
<1>4. CASE \/ PL!ReadForTransition(r) \/ PL!ReadForAdd(r) \/ PL!ReadForUpdate(r)
           \/ PL!ReadForDelete(r) \/ PL!ReadForStart(r) \/ PL!ReadForEnd(r)
  <2>1. items' = items /\ audits' = audits /\ plan' = plan
    BY <1>4 DEF PL!ReadForTransition, PL!ReadForAdd, PL!ReadForUpdate, PL!ReadForDelete,
       PL!ReadForStart, PL!ReadForEnd, PL!Begin, PL!local
  <2> QED
    BY <2>1, <1>a
<1>5. CASE PL!Transition(r)
  <2>1. /\ req[r].pc = "transition" /\ audits' = audits
        /\ plan' = [status |-> req[r].move.to, approved |-> PL!ApprovedAfter(req[r].move.action)]
        /\ items' = [i \in Items |->
             IF req[r].move.action = "activate" /\ items[i].status = "PROPOSED"
               THEN [items[i] EXCEPT !.status = "PLANNED"] ELSE items[i]]
    BY <1>5 DEF PL!Transition, PL!At
  <2>2. req[r].move \in PL!PLAN_WORKFLOW /\ req[r].move.from = plan.status
    BY <2>1, <1>2, RequestPL DEF InvPL, FreshPL, PL!Idle
  <2>3. plan'.status = req[r].move.to /\ plan'.approved = PL!ApprovedAfter(req[r].move.action)
    BY <2>1
  <2>4. PL!ApproverAgrees => PL!ApproverAgrees'
    BY <2>2, <2>3, MovesPL, ApproversPL DEF PL!ApproverAgrees
  <2>5. \A i \in Items : items'[i].audit = items[i].audit
    BY <2>1, <1>r, <1>s, StatusPL
  <2> QED
    BY <2>1, <2>4, <2>5
<1>6. CASE PL!WriteItem(r) \/ PL!MarkInProgress(r)
  <2>1. PICK s \in PL!ItemStatuses :
          items' = items \/ items' = [items EXCEPT ![req[r].id].status = s]
    BY <1>6, <1>s, RequestPL DEF PL!WriteItem, PL!MarkInProgress, InvPL, PL!At
  <2>2. audits' = audits /\ plan' = plan
    BY <1>6 DEF PL!WriteItem, PL!MarkInProgress
  <2>3. \A i \in Items : items'[i].audit = items[i].audit
    <3>1. \A i \in Items : items'[i] = items[i] \/ items'[i] = [items[i] EXCEPT !.status = s]
      BY <2>1, <1>r
    <3> QED
      BY <3>1, <1>r, StatusPL
  <2> QED
    BY <2>2, <2>3 DEF PL!ApproverAgrees
<1>7. CASE PL!Delete(r)
  <2>1. /\ req[r].pc = "delete" /\ plan' = plan /\ audits' = audits
        /\ items' = [items EXCEPT ![req[r].id] = PL!NoItem]
    BY <1>7 DEF PL!Delete, PL!At
  <2>2. items[req[r].id].audit = NoOne
    BY <2>1, <1>2 DEF FreshPL, PL!Idle
  <2>3. \A i \in Items : items'[i].audit = items[i].audit
    BY <2>1, <2>2, <1>n, <1>r
  <2> QED
    BY <2>1, <2>3 DEF PL!ApproverAgrees
<1>8. CASE PL!CreateEngagement(r)
  <2>1. req[r].pc = "start" /\ plan' = plan
    BY <1>8 DEF PL!CreateEngagement, PL!At
  <2>2. req[r].id \in Items /\ items[req[r].id].audit = NoOne
    BY <2>1, <1>2, RequestPL DEF InvPL, FreshPL, PL!Idle
  <2>3. CASE req[r].id \in PL!Rows
    <3>1. PICK e \in Audits :
            /\ audits[e] = "none" /\ audits' = [audits EXCEPT ![e] = "live"]
            /\ items' = [items EXCEPT ![req[r].id].audit = e]
      BY <1>8, <2>3 DEF PL!CreateEngagement
    <3>2. items[req[r].id] \in ItemRows
      BY <2>2, <2>3, <1>r DEF PL!Rows
    <3>3. [items[req[r].id] EXCEPT !.audit = e].audit = e
      BY <3>2 DEF ItemRows
    <3>4. items'[req[r].id].audit = e /\ \A i \in Items : i # req[r].id => items'[i] = items[i]
      BY <3>1, <3>3, <2>2, <1>r
    <3>5. \A a \in Audits : a # e => audits'[a] = audits[a]
      BY <3>1, <1>r
    <3>6. \A i \in Items, a \in Audits : items[i].audit = a => audits'[a] = audits[a]
      BY <3>1, <3>5, <1>3
    <3> QED
      BY <3>4, <3>5, <3>6, <2>1, <2>2 DEF PL!ApproverAgrees
  <2>4. CASE req[r].id \notin PL!Rows
    <3>1. items' = items /\ audits' = audits
      BY <1>8, <2>4 DEF PL!CreateEngagement
    <3> QED
      BY <3>1, <2>1, <1>a
  <2> QED
    BY <2>3, <2>4
<1>9. CASE PL!EndEngagement(r)
  <2>1. /\ req[r].pc = "end" /\ plan' = plan
        /\ audits' = [audits EXCEPT ![req[r].audit] = req[r].end]
        /\ items' = [i \in Items |->
             IF items[i].audit = req[r].audit
               THEN [items[i] EXCEPT !.status = req[r].end] ELSE items[i]]
    BY <1>9 DEF PL!EndEngagement, PL!At
  <2>2. req[r].audit \in Audits /\ req[r].end \in {"COMPLETED", "CANCELLED"}
    BY <2>1, RequestPL DEF InvPL
  <2>3. \A i \in Items : items'[i].audit = items[i].audit
    BY <2>1, <2>2, <1>r, <1>s, StatusPL
  <2>4. \A a \in Audits : audits'[a] = audits[a] \/ audits'[a] # "live"
    BY <2>1, <2>2, <1>r
  <2>5. ASSUME NEW i \in Items, NEW e \in Audits, items[i].audit = e, audits'[e] # audits[e]
        PROVE  items'[i].status = audits'[e]
    <3>1. e = req[r].audit /\ audits'[e] = req[r].end
      BY <2>1, <2>2, <2>5, <1>r
    <3>2. items'[i] = [items[i] EXCEPT !.status = req[r].end]
      BY <2>1, <2>5, <3>1
    <3> QED
      BY <3>1, <3>2, <1>r, StatusWrittenPL
  <2>6. PL!ApproverAgrees => PL!ApproverAgrees'
    BY <2>1 DEF PL!ApproverAgrees
  <2>7. \A e \in Audits : ~(audits'[e] = "live" /\ audits[e] = "none")
    BY <2>4
  <2> HIDE DEF PL!ApproverAgrees
  <2> QED
    BY <2>3, <2>5, <2>6, <2>7
<1> QED
  BY <1>1, <1>4, <1>5, <1>6, <1>7, <1>8, <1>9

-----------------------------------------------------------------------------
(* Documents *)

DocRows == [status : {"none", "quarantined", "uploaded"}, deleted : BOOLEAN,
            checksum : DC!Sums, first : DC!Sums]

\* What is true of a request whatever overlaps it: no content goes away, and
\* no document is taken out of the database.
HeldDC(r) ==
  /\ req[r].pc = "put" => req[r].sum \in Contents
  /\ req[r].pc \in {"stat", "scan", "commit"} => store[req[r].id] # NoOne
  /\ req[r].pc \in {"scan", "commit"} => req[r].sum # NoOne
  /\ req[r].pc = "link" => docs[req[r].id] # DC!NoDoc
  /\ req[r].pc = "report" => req[r].id = NoOne \/ docs[req[r].id].status = "uploaded"

FreshDC(r) ==
  /\ req[r].pc \in {"put", "stat", "scan", "commit"} => docs[req[r].id].status # "uploaded"
  /\ req[r].pc \in {"scan", "commit"} => req[r].sum = store[req[r].id]
  /\ req[r].pc = "commit" => req[r].sum \notin Infected
  /\ req[r].pc = "remove" => report # req[r].id
  /\ req[r].pc = "report" => req[r].id \in DC!Uploaded \cup {NoOne}
  /\ req[r].pc \in {"transition", "note", "link"} => request.status \notin DC!Closed

InvDC ==
  /\ DC!TypeOK
  /\ \A r \in Requests : HeldDC(r)
  /\ alone => \A r \in Requests : FreshDC(r)

LEMMA RequestDC ==
  ASSUME DC!TypeOK, NEW r \in Requests
  PROVE  /\ req[r].pc \in {"idle", "put", "complete", "stat", "scan", "commit", "remove",
                           "link", "report", "transition", "note"}
         /\ req[r].pc \in {"put", "complete", "stat", "scan", "commit"} =>
              req[r] \in [pc : {"put", "complete", "stat", "scan", "commit"},
                          id : Docs, sum : DC!Sums]
         /\ req[r].pc \in {"remove", "link"} => req[r].id \in Docs
         /\ req[r].pc = "report" => req[r].id \in Docs \cup {NoOne}
         /\ req[r].pc = "transition" => req[r].to \in DC!RequestStatuses
         /\ req[r].pc = "note" => req[r].answered \in BOOLEAN
<1>1. req[r] \in DC!Pending
  BY DEF DC!TypeOK
<1> HIDE DEF DC!RequestStatuses, DC!Sums
<1> QED
  BY <1>1 DEF DC!Pending, DC!Idle

\* The rows of the register after a step.
RowsDC ==
  /\ docs \in [Docs -> DocRows]
  /\ \A d \in Docs : docs[d].status = "uploaded" <=> docs[d].first # NoOne
  /\ store \in [Docs -> DC!Sums]
  /\ request \in [status : DC!RequestStatuses, answered : BOOLEAN, links : SUBSET DC!Rows]
  /\ report \in {d \in DC!Rows : docs[d].status = "uploaded"} \cup {NoOne}

\* Nothing that a request may hold goes away.
Grows ==
  /\ \A d \in Docs : store[d] # NoOne => store'[d] # NoOne
  /\ \A d \in Docs : docs[d] # DC!NoDoc => docs'[d] # DC!NoDoc
  /\ \A d \in Docs : docs[d].status = "uploaded" => docs'[d].status = "uploaded"

LEMMA EnterDC ==
  ASSUME InvDC, NEW r \in Requests, NEW state \in DC!Pending, DC!Enter(r, state),
         RowsDC', Grows, HeldDC(r)',
         (alone \/ req[r] = DC!Idle) /\ (alone => FreshDC(r)) => FreshDC(r)'
  PROVE  InvDC'
<1>1. /\ req' \in [Requests -> DC!Pending] /\ req'[r] = state
      /\ \A s \in Requests : s # r => req'[s] = req[s]
      /\ alone' => (\A s \in Requests : s # r => req[s] = DC!Idle) /\ (alone \/ req[r] = DC!Idle)
  BY DEF InvDC, DC!TypeOK, DC!Enter, DC!Others
<1>2. DC!TypeOK'
  BY <1>1 DEF DC!TypeOK, RowsDC, DocRows
<1>3. ASSUME NEW s \in Requests
      PROVE  HeldDC(s)'
  <2>1. CASE s # r
    <3>1. req'[s] = req[s] /\ HeldDC(s)
      BY <1>1, <2>1 DEF InvDC
    <3>2. req[s].pc \in {"stat", "scan", "commit", "link"} => req[s].id \in Docs
      BY RequestDC DEF InvDC
    <3>3. req[s].pc = "report" => req[s].id \in Docs \cup {NoOne}
      BY RequestDC DEF InvDC
    <3>4. req'[s].pc = req[s].pc /\ req'[s].id = req[s].id /\ req'[s].sum = req[s].sum
      BY <3>1
    <3> QED
      BY <3>1, <3>2, <3>3, <3>4 DEF HeldDC, Grows, DC!NoDoc
  <2> QED
    BY <2>1
<1>4. ASSUME alone', NEW s \in Requests
      PROVE  FreshDC(s)'
  <2>1. CASE s = r
    BY <1>1, <1>4, <2>1 DEF InvDC
  <2>2. CASE s # r
    <3>1. req'[s].pc = "idle"
      BY <1>1, <1>4, <2>2 DEF DC!Idle
    <3> QED
      BY <3>1 DEF FreshDC
  <2> QED
    BY <2>1, <2>2
<1> QED
  BY <1>2, <1>3, <1>4 DEF InvDC

LEMMA InitDC == DC!Init => InvDC
<1> SUFFICES ASSUME DC!Init
             PROVE  InvDC
  OBVIOUS
<1>1. \A r \in Requests : req[r].pc = "idle"
  BY DEF DC!Init, DC!NoRequests, DC!Idle
<1>2. DC!TypeOK
  BY DEF DC!Init, DC!NoRequests, DC!TypeOK, DC!Pending, DC!NoDoc, DC!Sums, DC!Rows,
     DC!RequestStatuses
<1> QED
  BY <1>1, <1>2 DEF InvDC, HeldDC, FreshDC

\* A step that writes no row.
LEMMA ReadsDC ==
  ASSUME InvDC, NEW r \in Requests, NEW state \in DC!Pending, DC!Enter(r, state),
         UNCHANGED <<docs, store, request, report>>,
         req'[r] = state => HeldDC(r)',
         req'[r] = state /\ (alone \/ req[r] = DC!Idle) /\ (alone => FreshDC(r)) => FreshDC(r)'
  PROVE  InvDC'
<1>1. req'[r] = state
  BY DEF DC!Enter, InvDC, DC!TypeOK
<1>2. RowsDC'
  BY DEF InvDC, DC!TypeOK, RowsDC, DC!Rows, DocRows
<1>3. Grows
  BY DEF Grows
<1> QED
  BY <1>1, <1>2, <1>3, EnterDC

LEMMA EndsDC ==
  ASSUME InvDC, NEW r \in Requests, DC!Enter(r, DC!Idle), RowsDC', Grows
  PROVE  InvDC'
<1>1. DC!Idle \in DC!Pending
  BY DEF DC!Pending
<1>2. req'[r].pc = "idle"
  BY DEF DC!Enter, InvDC, DC!TypeOK, DC!Idle
<1>3. HeldDC(r)' /\ FreshDC(r)'
  BY <1>2 DEF HeldDC, FreshDC
<1> QED
  BY <1>1, <1>3, EnterDC

\* The rows as they are.
LEMMA HasRowsDC == ASSUME InvDC PROVE RowsDC
BY DEF InvDC, DC!TypeOK, RowsDC, DocRows

LEMMA NextDC ==
  ASSUME InvDC, DC!Next
  PROVE  InvDC'
<1>1. PICK r \in Requests :
        \/ DC!Presign(r) \/ DC!ReadForUpload(r) \/ DC!PutObject(r) \/ DC!Complete(r)
        \/ DC!ReadForComplete(r) \/ DC!StatObject(r) \/ DC!ScanObject(r) \/ DC!CommitUpload(r)
        \/ DC!ReadForRemove(r) \/ DC!Remove(r) \/ DC!ReadForReport(r) \/ DC!SetReport(r)
        \/ DC!ReadForTransition(r) \/ DC!Transition(r) \/ DC!ReadForResponse(r) \/ DC!Respond(r)
  BY DEF DC!Next
<1>i. DC!Idle \in DC!Pending
  BY DEF DC!Pending
<1>q. req \in [Requests -> DC!Pending]
  BY DEF InvDC, DC!TypeOK
<1>t. HeldDC(r) /\ (alone => FreshDC(r)) /\ RowsDC
  BY HasRowsDC DEF InvDC
<1>n. NoOne \in DC!Sums /\ Contents \subseteq DC!Sums /\ NoOne \notin Contents
  BY RegistersAssumption DEF DC!Sums
<1>0. ASSUME DC!Enter(r, DC!Idle), UNCHANGED <<docs, store, request, report>>
      PROVE  InvDC'
  <2>1. RowsDC' /\ Grows
    BY <1>0, <1>t DEF RowsDC, DC!Rows, Grows
  <2> QED
    BY <1>0, <2>1, EndsDC
<1>2. CASE DC!Presign(r)
  <2>1. PICK d \in Docs \ DC!Rows :
          docs' = [docs EXCEPT ![d] = [DC!NoDoc EXCEPT !.status = "quarantined"]]
    BY <1>2 DEF DC!Presign
  <2>2. DC!Enter(r, DC!Idle) /\ UNCHANGED <<store, request, report>>
    BY <1>2 DEF DC!Presign, DC!Release
  <2>3. docs[d] = DC!NoDoc
    BY DEF DC!Rows
  <2>n. DC!NoDoc.status = "none" /\ DC!NoDoc.first = NoOne /\ DC!NoDoc \in DocRows
    BY <1>n DEF DC!NoDoc, DocRows
  <2>4. PICK q : q = [DC!NoDoc EXCEPT !.status = "quarantined"]
    OBVIOUS
  <2>5. q \in DocRows /\ q.status = "quarantined" /\ q.first = NoOne
    BY <2>4, <2>n DEF DocRows
  <2>6. docs'[d] = q /\ docs' \in [Docs -> DocRows] /\ \A e \in Docs : e # d => docs'[e] = docs[e]
    BY <2>1, <2>4, <2>5, <1>t DEF RowsDC
  <2>7. Grows
    BY <2>2, <2>3, <2>5, <2>6, <2>n DEF Grows
  <2>8. RowsDC'
    BY <2>2, <2>3, <2>5, <2>6, <2>7, <2>n, <1>t DEF RowsDC, DC!Rows, Grows
  <2> QED
    BY <2>2, <2>7, <2>8, EndsDC
<1>3. CASE DC!ReadForUpload(r)
  <2>1. PICK d \in Docs, c \in Contents :
          DC!MayUpload(d) /\ DC!Begin(r, [pc |-> "put", id |-> d, sum |-> c])
    BY <1>3 DEF DC!ReadForUpload
  <2>2. [pc |-> "put", id |-> d, sum |-> c] \in DC!Pending
    BY <1>n DEF DC!Pending
  <2>3. docs[d].status # "uploaded"
    BY <2>1 DEF DC!MayUpload, DC!Uploaded
  <2> QED
    BY <2>1, <2>2, <2>3, ReadsDC DEF DC!Begin, DC!local, HeldDC, FreshDC
<1>4. CASE DC!PutObject(r)
  <2>1. req[r].pc = "put"
    BY <1>4 DEF DC!PutObject, DC!At
  <2> DEFINE state == [pc |-> "complete", id |-> req[r].id, sum |-> req[r].sum]
  <2>2. req[r] = [pc |-> "put", id |-> req[r].id, sum |-> req[r].sum]
        /\ req[r].id \in Docs /\ req[r].sum \in Contents
    BY <2>1, <1>t, RequestDC DEF InvDC, HeldDC
  <2>3. [req[r] EXCEPT !.pc = "complete"] = state
    BY <2>2
  <2>4. DC!Enter(r, state) /\ store' = [store EXCEPT ![req[r].id] = req[r].sum]
        /\ UNCHANGED <<docs, request, report>>
    BY <1>4, <2>3 DEF DC!PutObject, DC!Id
  <2>5. state \in DC!Pending /\ state.pc = "complete"
    BY <2>2, <1>n DEF DC!Pending
  <2> HIDE DEF state
  <2>6. RowsDC' /\ Grows
    BY <2>2, <2>4, <1>t, <1>n DEF RowsDC, DC!Rows, Grows
  <2>7. req'[r] = state
    BY <2>4, <1>q DEF DC!Enter
  <2>8. HeldDC(r)' /\ FreshDC(r)'
    BY <2>5, <2>7 DEF HeldDC, FreshDC
  <2> QED
    BY <2>4, <2>5, <2>6, <2>8, EnterDC
<1>5. CASE DC!Complete(r)
  <2>1. PICK d \in DC!Live, c \in Contents \cup {NoOne} :
          DC!Begin(r, [pc |-> "complete", id |-> d, sum |-> c])
    BY <1>5 DEF DC!Complete
  <2>2. [pc |-> "complete", id |-> d, sum |-> c] \in DC!Pending
    BY <1>n DEF DC!Pending, DC!Live, DC!Rows
  <2> QED
    BY <2>1, <2>2, ReadsDC DEF DC!Begin, DC!local, HeldDC, FreshDC
\* The steps of complete pass one record on.
<1>6. ASSUME NEW pc \in {"stat", "scan", "commit"}, NEW sum \in DC!Sums,
             req[r].id \in Docs,
             UNCHANGED <<docs, store, request, report>>,
             DC!Enter(r, [pc |-> pc, id |-> req[r].id, sum |-> sum]),
             store[req[r].id] # NoOne, pc # "stat" => sum # NoOne,
             (alone => FreshDC(r)) /\ (alone \/ req[r] = DC!Idle) =>
               /\ docs[req[r].id].status # "uploaded"
               /\ pc # "stat" => sum = store[req[r].id]
               /\ pc = "commit" => sum \notin Infected
      PROVE  InvDC'
  <2> DEFINE state == [pc |-> pc, id |-> req[r].id, sum |-> sum]
  <2>1. state \in DC!Pending
    BY <1>6 DEF DC!Pending
  <2>2. state.pc = pc /\ state.id = req[r].id /\ state.sum = sum
    OBVIOUS
  <2>3. DC!Enter(r, state)
    BY <1>6
  <2> HIDE DEF state
  <2>4. req'[r] = state => HeldDC(r)'
    BY <1>6, <2>2 DEF HeldDC
  <2>5. req'[r] = state /\ (alone \/ req[r] = DC!Idle) /\ (alone => FreshDC(r)) => FreshDC(r)'
    BY <1>6, <2>2 DEF FreshDC
  <2> QED
    BY <1>6, <2>1, <2>3, <2>4, <2>5, ReadsDC
<1>7. ASSUME NEW pc \in {"complete", "stat", "scan", "commit"}, req[r].pc = pc
      PROVE  /\ req[r] = [pc |-> pc, id |-> req[r].id, sum |-> req[r].sum]
             /\ req[r].id \in Docs /\ req[r].sum \in DC!Sums /\ store[req[r].id] \in DC!Sums
             /\ req[r] # DC!Idle
  BY <1>7, <1>t, RequestDC DEF InvDC, DC!Idle, RowsDC
<1>8. CASE DC!ReadForComplete(r)
  <2>1. req[r].pc = "complete" /\ UNCHANGED <<docs, store, request, report>>
    BY <1>8 DEF DC!ReadForComplete, DC!At, DC!local
  <2>2. req[r] = [pc |-> "complete", id |-> req[r].id, sum |-> req[r].sum]
        /\ req[r].id \in Docs /\ req[r].sum \in DC!Sums
    BY <2>1, <1>7
  <2>3. [req[r] EXCEPT !.pc = "stat"] = [pc |-> "stat", id |-> req[r].id, sum |-> req[r].sum]
    BY <2>2
  <2>4. \/ DC!Enter(r, DC!Idle)
        \/ /\ req[r].id \in DC!Live \ DC!Uploaded /\ store[req[r].id] # NoOne
           /\ DC!Enter(r, [pc |-> "stat", id |-> req[r].id, sum |-> req[r].sum])
    BY <1>8, <2>3 DEF DC!ReadForComplete, DC!Release, DC!Id
  <2>5. req[r].id \in DC!Live \ DC!Uploaded => docs[req[r].id].status # "uploaded"
    BY DEF DC!Uploaded
  <2> QED
    BY <2>1, <2>2, <2>4, <2>5, <1>0, <1>6
<1>9. CASE DC!StatObject(r)
  <2>1. req[r].pc = "stat" /\ UNCHANGED <<docs, store, request, report>>
    BY <1>9 DEF DC!StatObject, DC!At, DC!local
  <2>2. /\ req[r] = [pc |-> "stat", id |-> req[r].id, sum |-> req[r].sum]
        /\ req[r].id \in Docs /\ store[req[r].id] \in DC!Sums /\ req[r] # DC!Idle
        /\ store[req[r].id] # NoOne
    BY <2>1, <1>7, <1>t DEF HeldDC
  <2>3. [req[r] EXCEPT !.pc = "scan", !.sum = store[req[r].id]]
          = [pc |-> "scan", id |-> req[r].id, sum |-> store[req[r].id]]
    <3>1. PICK q : q = [req[r] EXCEPT !.pc = "scan", !.sum = store[req[r].id]]
      OBVIOUS
    <3>2. req[r] \in [pc : {"stat"}, id : Docs, sum : {req[r].sum}]
      BY <2>2
    <3>3. q = [pc |-> "scan", id |-> req[r].id, sum |-> store[req[r].id]]
      BY <3>1, <3>2
    <3> QED
      BY <3>1, <3>3
  <2>4. \/ DC!Enter(r, DC!Idle)
        \/ DC!Enter(r, [pc |-> "scan", id |-> req[r].id, sum |-> store[req[r].id]])
    BY <1>9, <2>3 DEF DC!StatObject, DC!Release, DC!Id
  <2>5. alone /\ FreshDC(r) => docs[req[r].id].status # "uploaded"
    BY <2>1 DEF FreshDC
  <2> QED
    BY <2>1, <2>2, <2>4, <2>5, <1>0, <1>6
<1>10. CASE DC!ScanObject(r)
  <2>1. req[r].pc = "scan" /\ UNCHANGED <<docs, store, request, report>>
    BY <1>10 DEF DC!ScanObject, DC!At, DC!local
  <2>2. /\ req[r] = [pc |-> "scan", id |-> req[r].id, sum |-> req[r].sum]
        /\ req[r].id \in Docs /\ req[r].sum \in DC!Sums /\ req[r] # DC!Idle
        /\ store[req[r].id] # NoOne /\ req[r].sum # NoOne
    BY <2>1, <1>7, <1>t DEF HeldDC
  <2>3. [req[r] EXCEPT !.pc = "commit"]
          = [pc |-> "commit", id |-> req[r].id, sum |-> req[r].sum]
    BY <2>2
  <2>4. \/ DC!Enter(r, DC!Idle)
        \/ /\ store[req[r].id] \notin Infected
           /\ DC!Enter(r, [pc |-> "commit", id |-> req[r].id, sum |-> req[r].sum])
    BY <1>10, <2>3 DEF DC!ScanObject, DC!Release, DC!Id
  <2>5. alone /\ FreshDC(r) => /\ docs[req[r].id].status # "uploaded"
                               /\ req[r].sum = store[req[r].id]
    BY <2>1 DEF FreshDC
  <2> QED
    BY <2>1, <2>2, <2>4, <2>5, <1>0, <1>6
<1>11. CASE DC!CommitUpload(r)
  <2>1. req[r].pc = "commit"
    BY <1>11 DEF DC!CommitUpload, DC!At
  <2>2. req[r].id \in Docs /\ req[r].sum \in DC!Sums /\ req[r].sum # NoOne
    BY <2>1, <1>7, <1>t DEF HeldDC
  <2>3. docs[req[r].id] \in DocRows
    BY <2>2, <1>t DEF RowsDC
  <2>4. PICK sum : sum = IF docs[req[r].id].first = NoOne THEN req[r].sum
                         ELSE docs[req[r].id].first
    OBVIOUS
  <2>5. PICK q : q = [docs[req[r].id] EXCEPT !.status = "uploaded", !.checksum = req[r].sum,
                                             !.first = sum]
    OBVIOUS
  <2>6. docs' = [docs EXCEPT ![req[r].id] = q]
    BY <1>11, <1>t, <2>2, <2>4, <2>5 DEF DC!CommitUpload, DC!Id, RowsDC
  <2>7. DC!Enter(r, DC!Idle) /\ UNCHANGED <<store, request, report>>
    BY <1>11 DEF DC!CommitUpload, DC!Release
  <2>8. q \in DocRows /\ q.status = "uploaded" /\ q.first # NoOne
    BY <2>2, <2>3, <2>4, <2>5 DEF DocRows
  <2>9. docs'[req[r].id] = q /\ docs' \in [Docs -> DocRows]
        /\ \A d \in Docs : d # req[r].id => docs'[d] = docs[d]
    BY <2>2, <2>6, <2>8, <1>t DEF RowsDC
  <2>n. DC!NoDoc.status = "none"
    BY DEF DC!NoDoc
  <2>10. Grows
    BY <2>7, <2>8, <2>9, <2>n DEF Grows
  <2>11. RowsDC'
    BY <2>7, <2>8, <2>9, <2>10, <1>t DEF RowsDC, DC!Rows, Grows
  <2> QED
    BY <2>7, <2>10, <2>11, EndsDC
<1>12. CASE DC!ReadForRemove(r)
  <2>1. PICK d \in DC!Uploaded : report # d /\ DC!Begin(r, [pc |-> "remove", id |-> d])
    BY <1>12 DEF DC!ReadForRemove
  <2>2. [pc |-> "remove", id |-> d] \in DC!Pending
    BY DEF DC!Pending, DC!Uploaded, DC!Live, DC!Rows
  <2> QED
    BY <2>1, <2>2, ReadsDC DEF DC!Begin, DC!local, HeldDC, FreshDC
<1>13. CASE DC!Remove(r)
  <2>1. req[r].pc = "remove" /\ DC!Enter(r, DC!Idle) /\ UNCHANGED <<store, request, report>>
        /\ docs' = [docs EXCEPT ![req[r].id].deleted = TRUE]
    BY <1>13 DEF DC!Remove, DC!At, DC!Release, DC!Id
  <2>2. req[r].id \in Docs
    BY <2>1, RequestDC DEF InvDC
  <2>3. docs[req[r].id] \in DocRows
    BY <2>2, <1>t DEF RowsDC
  <2>4. PICK q : q = [docs[req[r].id] EXCEPT !.deleted = TRUE]
    OBVIOUS
  <2>5. /\ q \in DocRows /\ q.status = docs[req[r].id].status
        /\ q.first = docs[req[r].id].first /\ q.deleted = TRUE
    BY <2>3, <2>4 DEF DocRows
  <2>6. docs'[req[r].id] = q /\ docs' \in [Docs -> DocRows]
        /\ \A d \in Docs : d # req[r].id => docs'[d] = docs[d]
    BY <2>1, <2>2, <2>4, <2>5, <1>t DEF RowsDC
  <2>7. Grows
    BY <2>1, <2>5, <2>6 DEF Grows, DC!NoDoc
  <2>8. RowsDC'
    BY <2>1, <2>5, <2>6, <2>7, <1>t DEF RowsDC, DC!Rows, Grows
  <2> QED
    BY <2>1, <2>7, <2>8, EndsDC
<1>14. CASE DC!ReadForReport(r)
  <2>1. PICK d \in DC!Uploaded \cup {NoOne} : DC!Begin(r, [pc |-> "report", id |-> d])
    BY <1>14 DEF DC!ReadForReport
  <2>2. [pc |-> "report", id |-> d] \in DC!Pending
    BY DEF DC!Pending, DC!Uploaded, DC!Live, DC!Rows
  <2>3. d = NoOne \/ docs[d].status = "uploaded"
    BY DEF DC!Uploaded
  <2>4. DC!Uploaded' = DC!Uploaded
    BY <2>1 DEF DC!Begin, DC!local, DC!Uploaded, DC!Live, DC!Rows
  <2> QED
    BY <2>1, <2>2, <2>3, <2>4, ReadsDC DEF DC!Begin, DC!local, HeldDC, FreshDC
<1>15. CASE DC!SetReport(r)
  <2>1. req[r].pc = "report" /\ DC!Enter(r, DC!Idle) /\ UNCHANGED <<docs, store, request>>
        /\ report' = req[r].id
    BY <1>15 DEF DC!SetReport, DC!At, DC!Release, DC!Id
  <2>2. req[r].id \in Docs \cup {NoOne} /\ (req[r].id = NoOne \/ docs[req[r].id].status = "uploaded")
    BY <2>1, <1>t, RequestDC DEF InvDC, HeldDC
  <2>3. DC!NoDoc.status = "none"
    BY DEF DC!NoDoc
  <2>4. report' \in {d \in DC!Rows : docs[d].status = "uploaded"} \cup {NoOne}
    <3>1. CASE req[r].id = NoOne
      BY <2>1, <3>1
    <3>2. CASE req[r].id # NoOne
      <4>1. docs[req[r].id] # DC!NoDoc /\ req[r].id \in Docs
        BY <2>2, <2>3, <3>2
      <4> QED
        BY <2>1, <2>2, <3>2, <4>1 DEF DC!Rows
    <3> QED
      BY <3>1, <3>2
  <2>5. RowsDC' /\ Grows
    BY <2>1, <2>4, <1>t DEF RowsDC, DC!Rows, Grows
  <2> QED
    BY <2>1, <2>5, EndsDC
<1>16. CASE DC!ReadForTransition(r)
  <2>1. PICK t \in DC!REQUEST_WORKFLOW :
          t.from = request.status /\ DC!Begin(r, [pc |-> "transition", to |-> t.to])
    BY <1>16 DEF DC!ReadForTransition
  <2>2. t.to \in DC!RequestStatuses /\ t.from \notin DC!Closed
    BY DEF DC!REQUEST_WORKFLOW, DC!Move, DC!RequestStatuses, DC!Closed
  <2>3. [pc |-> "transition", to |-> t.to] \in DC!Pending
    BY <2>2 DEF DC!Pending
  <2> QED
    BY <2>1, <2>2, <2>3, ReadsDC DEF DC!Begin, DC!local, HeldDC, FreshDC
<1>r. request \in [status : DC!RequestStatuses, answered : BOOLEAN, links : SUBSET DC!Rows]
  BY <1>t DEF RowsDC
<1>17. CASE DC!Transition(r)
  <2>1. req[r].pc = "transition" /\ DC!Enter(r, DC!Idle) /\ UNCHANGED <<docs, store, report>>
        /\ request' = [request EXCEPT !.status = req[r].to]
    BY <1>17 DEF DC!Transition, DC!At, DC!Release
  <2>2. req[r].to \in DC!RequestStatuses
    BY <2>1, RequestDC DEF InvDC
  <2>3. request' \in [status : DC!RequestStatuses, answered : BOOLEAN, links : SUBSET DC!Rows]
    BY <2>1, <2>2, <1>r
  <2>4. RowsDC' /\ Grows
    BY <2>1, <2>3, <1>t DEF RowsDC, DC!Rows, Grows
  <2> QED
    BY <2>1, <2>4, EndsDC
<1>18. CASE DC!ReadForResponse(r)
  <2>1. request.status \notin DC!Closed
    BY <1>18 DEF DC!ReadForResponse
  <2>2. \/ \E answered \in BOOLEAN : DC!Begin(r, [pc |-> "note", answered |-> answered])
        \/ \E d \in DC!Live : DC!Begin(r, [pc |-> "link", id |-> d])
    BY <1>18 DEF DC!ReadForResponse
  <2>3. ASSUME NEW answered \in BOOLEAN, DC!Begin(r, [pc |-> "note", answered |-> answered])
        PROVE  InvDC'
    <3>1. [pc |-> "note", answered |-> answered] \in DC!Pending
      BY DEF DC!Pending
    <3> QED
      BY <2>1, <2>3, <3>1, ReadsDC DEF DC!Begin, DC!local, HeldDC, FreshDC
  <2>4. ASSUME NEW d \in DC!Live, DC!Begin(r, [pc |-> "link", id |-> d])
        PROVE  InvDC'
    <3>1. [pc |-> "link", id |-> d] \in DC!Pending /\ docs[d] # DC!NoDoc
      BY DEF DC!Pending, DC!Live, DC!Rows
    <3> QED
      BY <2>1, <2>4, <3>1, ReadsDC DEF DC!Begin, DC!local, HeldDC, FreshDC
  <2> QED
    BY <2>2, <2>3, <2>4
<1>19. CASE DC!Respond(r)
  <2>1. req[r].pc \in {"note", "link"} /\ DC!Enter(r, DC!Idle) /\ UNCHANGED <<docs, store, report>>
        /\ request' = IF req[r].pc = "note"
                  THEN [request EXCEPT !.answered = req[r].answered]
                  ELSE [request EXCEPT !.links = @ \cup {req[r].id}]
    BY <1>19 DEF DC!Respond, DC!At, DC!Release, DC!Id
  <2>2. /\ req[r].pc = "note" => req[r].answered \in BOOLEAN
        /\ req[r].pc = "link" => req[r].id \in DC!Rows
    BY <2>1, <1>t, RequestDC DEF InvDC, HeldDC, DC!Rows
  <2>3. request' \in [status : DC!RequestStatuses, answered : BOOLEAN, links : SUBSET DC!Rows]
    <3>1. CASE req[r].pc = "note"
      BY <2>1, <2>2, <1>r, <3>1
    <3>2. CASE req[r].pc = "link"
      <4>1. request' = [request EXCEPT !.links = request.links \cup {req[r].id}]
        BY <2>1, <3>2
      <4>2. request.links \cup {req[r].id} \in SUBSET DC!Rows
        BY <2>2, <1>r, <3>2
      <4> QED
        BY <4>1, <4>2, <1>r
    <3> QED
      BY <2>1, <3>1, <3>2
  <2>4. RowsDC' /\ Grows
    BY <2>1, <2>3, <1>t DEF RowsDC, DC!Rows, Grows
  <2> QED
    BY <2>1, <2>4, EndsDC
<1> QED
  BY <1>1, <1>2, <1>3, <1>4, <1>5, <1>8, <1>9, <1>10, <1>11, <1>12, <1>13, <1>14, <1>15,
     <1>16, <1>17, <1>18, <1>19

\* What DocumentsStayWhole says of a step.
LEMMA StepDC ==
  ASSUME InvDC, DC!Next, alone'
  PROVE  /\ \A d \in Docs : DC!IntactIn(d) => DC!IntactIn(d)'
         /\ report \in DC!Uploaded => report' \in DC!Uploaded' \cup {NoOne}
         /\ request.status \in DC!Closed => request' = request
<1>1. PICK r \in Requests :
        \/ DC!Presign(r) \/ DC!ReadForUpload(r) \/ DC!PutObject(r) \/ DC!Complete(r)
        \/ DC!ReadForComplete(r) \/ DC!StatObject(r) \/ DC!ScanObject(r) \/ DC!CommitUpload(r)
        \/ DC!ReadForRemove(r) \/ DC!Remove(r) \/ DC!ReadForReport(r) \/ DC!SetReport(r)
        \/ DC!ReadForTransition(r) \/ DC!Transition(r) \/ DC!ReadForResponse(r) \/ DC!Respond(r)
  BY DEF DC!Next
<1>t. RowsDC
  BY HasRowsDC
<1>n. DC!NoDoc.status = "none"
  BY DEF DC!NoDoc
<1>2. req[r] # DC!Idle => FreshDC(r)
  <2>1. PICK state : DC!Enter(r, state)
    BY <1>1 DEF DC!Presign, DC!ReadForUpload, DC!PutObject, DC!Complete, DC!ReadForComplete,
       DC!StatObject, DC!ScanObject, DC!CommitUpload, DC!ReadForRemove, DC!Remove,
       DC!ReadForReport, DC!SetReport, DC!ReadForTransition, DC!Transition,
       DC!ReadForResponse, DC!Respond, DC!Begin, DC!Release
  <2>2. alone \/ req[r] = DC!Idle
    BY <2>1 DEF DC!Enter
  <2> QED
    BY <2>2 DEF InvDC
\* Most steps write to one place, or to none.
<1>a. UNCHANGED <<docs, store>> => \A d \in Docs : DC!IntactIn(d) => DC!IntactIn(d)'
  BY DEF DC!IntactIn
<1>b. UNCHANGED <<docs, report>> =>
        (report \in DC!Uploaded => report' \in DC!Uploaded' \cup {NoOne})
  BY DEF DC!Uploaded, DC!Live, DC!Rows
<1>3. CASE \/ DC!ReadForUpload(r) \/ DC!Complete(r) \/ DC!ReadForComplete(r)
           \/ DC!StatObject(r) \/ DC!ScanObject(r) \/ DC!ReadForRemove(r)
           \/ DC!ReadForReport(r) \/ DC!ReadForTransition(r) \/ DC!ReadForResponse(r)
  <2>1. UNCHANGED <<docs, store, request, report>>
    BY <1>3 DEF DC!ReadForUpload, DC!Complete, DC!ReadForComplete, DC!StatObject,
       DC!ScanObject, DC!ReadForRemove, DC!ReadForReport, DC!ReadForTransition,
       DC!ReadForResponse, DC!Begin, DC!local
  <2> QED
    BY <2>1, <1>a, <1>b
<1>4. CASE DC!Presign(r)
  <2>1. PICK d \in Docs \ DC!Rows :
          docs' = [docs EXCEPT ![d] = [DC!NoDoc EXCEPT !.status = "quarantined"]]
    BY <1>4 DEF DC!Presign
  <2>2. UNCHANGED <<store, request, report>>
    BY <1>4 DEF DC!Presign
  <2>3. PICK q : q = [DC!NoDoc EXCEPT !.status = "quarantined"]
    OBVIOUS
  <2>4. q.status = "quarantined"
    BY <2>3 DEF DC!NoDoc
  <2>5. docs'[d] = q /\ \A e \in Docs : e # d => docs'[e] = docs[e]
    BY <2>1, <2>3, <1>t DEF RowsDC
  <2>6. \A e \in Docs : DC!IntactIn(e) => DC!IntactIn(e)'
    BY <2>2, <2>4, <2>5 DEF DC!IntactIn
  <2>7. DC!Uploaded \subseteq DC!Uploaded'
    BY <2>5 DEF DC!Uploaded, DC!Live, DC!Rows
  <2> QED
    BY <2>2, <2>6, <2>7
<1>5. CASE DC!PutObject(r)
  <2>1. req[r].pc = "put" /\ store' = [store EXCEPT ![req[r].id] = req[r].sum]
        /\ UNCHANGED <<docs, request, report>>
    BY <1>5 DEF DC!PutObject, DC!At, DC!Id
  <2>2. docs[req[r].id].status # "uploaded"
    BY <2>1, <1>2 DEF FreshDC, DC!Idle
  <2>3. \A d \in Docs : d # req[r].id => store'[d] = store[d]
    BY <2>1, <1>t DEF RowsDC
  <2>4. \A d \in Docs : DC!IntactIn(d) => DC!IntactIn(d)'
    BY <2>1, <2>2, <2>3 DEF DC!IntactIn
  <2> QED
    BY <2>1, <2>4, <1>b
<1>6. CASE DC!CommitUpload(r)
  <2>1. req[r].pc = "commit" /\ UNCHANGED <<store, request, report>>
    BY <1>6 DEF DC!CommitUpload, DC!At
  <2>2. req[r].id \in Docs
    BY <2>1, RequestDC DEF InvDC
  <2>3. docs[req[r].id] \in DocRows
    BY <2>2, <1>t DEF RowsDC
  <2>4. /\ docs[req[r].id].status # "uploaded" /\ req[r].sum = store[req[r].id]
        /\ req[r].sum \notin Infected
    BY <2>1, <1>2 DEF FreshDC, DC!Idle
  <2>5. PICK sum : sum = IF docs[req[r].id].first = NoOne THEN req[r].sum
                         ELSE docs[req[r].id].first
    OBVIOUS
  <2>6. PICK q : q = [docs[req[r].id] EXCEPT !.status = "uploaded", !.checksum = req[r].sum,
                                             !.first = sum]
    OBVIOUS
  <2>7. docs' = [docs EXCEPT ![req[r].id] = q]
    BY <1>6, <1>t, <2>2, <2>5, <2>6 DEF DC!CommitUpload, DC!Id, RowsDC
  <2>8. q.checksum = req[r].sum
    BY <2>3, <2>6 DEF DocRows
  <2>9. docs'[req[r].id] = q /\ \A d \in Docs : d # req[r].id => docs'[d] = docs[d]
    BY <2>2, <2>7, <1>t DEF RowsDC
  <2>10. \A d \in Docs : DC!IntactIn(d) => DC!IntactIn(d)'
    BY <2>1, <2>4, <2>8, <2>9 DEF DC!IntactIn
  <2>11. DC!Uploaded \subseteq DC!Uploaded'
    BY <2>4, <2>9 DEF DC!Uploaded, DC!Live, DC!Rows
  <2> QED
    BY <2>1, <2>10, <2>11
<1>7. CASE DC!Remove(r)
  <2>1. req[r].pc = "remove" /\ UNCHANGED <<store, request, report>>
        /\ docs' = [docs EXCEPT ![req[r].id].deleted = TRUE]
    BY <1>7 DEF DC!Remove, DC!At, DC!Id
  <2>2. req[r].id \in Docs
    BY <2>1, RequestDC DEF InvDC
  <2>3. docs[req[r].id] \in DocRows
    BY <2>2, <1>t DEF RowsDC
  <2>4. PICK q : q = [docs[req[r].id] EXCEPT !.deleted = TRUE]
    OBVIOUS
  <2>5. q.status = docs[req[r].id].status /\ q.checksum = docs[req[r].id].checksum
    BY <2>3, <2>4 DEF DocRows
  <2>6. docs'[req[r].id] = q /\ \A d \in Docs : d # req[r].id => docs'[d] = docs[d]
    BY <2>1, <2>2, <2>4, <1>t DEF RowsDC
  <2>7. \A d \in Docs : DC!IntactIn(d) => DC!IntactIn(d)'
    BY <2>1, <2>5, <2>6 DEF DC!IntactIn
  <2>8. report # req[r].id
    BY <2>1, <1>2 DEF FreshDC, DC!Idle
  <2>9. report \in DC!Uploaded => report \in DC!Uploaded'
    BY <2>6, <2>8 DEF DC!Uploaded, DC!Live, DC!Rows
  <2> QED
    BY <2>1, <2>7, <2>9
<1>8. CASE DC!SetReport(r)
  <2>1. req[r].pc = "report" /\ report' = req[r].id /\ UNCHANGED <<docs, store, request>>
    BY <1>8 DEF DC!SetReport, DC!At, DC!Id
  <2>2. req[r].id \in DC!Uploaded \cup {NoOne}
    BY <2>1, <1>2 DEF FreshDC, DC!Idle
  <2>3. DC!Uploaded' = DC!Uploaded
    BY <2>1 DEF DC!Uploaded, DC!Live, DC!Rows
  <2> QED
    BY <2>1, <2>2, <2>3, <1>a
<1>9. CASE DC!Transition(r) \/ DC!Respond(r)
  <2>1. req[r].pc \in {"transition", "note", "link"} /\ UNCHANGED <<docs, store, report>>
    BY <1>9 DEF DC!Transition, DC!Respond, DC!At
  <2>2. request.status \notin DC!Closed
    BY <2>1, <1>2 DEF FreshDC, DC!Idle
  <2> QED
    BY <2>1, <2>2, <1>a, <1>b
<1> QED
  BY <1>1, <1>3, <1>4, <1>5, <1>6, <1>7, <1>8, <1>9
=============================================================================
