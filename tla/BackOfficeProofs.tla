-------------------------- MODULE BackOfficeProofs --------------------------
(***************************************************************************)
(* Theorems of Redemption and Dividends, proved for every value of their   *)
(* constants, and of BackOffice, which implements both.                    *)
(***************************************************************************)
EXTENDS BackOffice, FiniteSetTheorems, TLAPS

\* A rule that can be read as active has been in force.
RulesAreInForce == \A a \in Assets : Active(a) => rules[a] \in inForce[a]

\* What a worker is about to write is still justified: rules that were in force stay in
\* the history, and an approval is never taken back.
DesksAreSound ==
    \A d \in Desks :
        /\ desk[d].step = "insertRequest" => Admitted(desk[d].row) /\ Cleared(desk[d].row)
        /\ desk[d].step = "updateRequest" =>
              /\ desk[d].request \in DOMAIN requests
              /\ desk[d].verdict \in {"completed", "shipped"} => requests[desk[d].request].approved
              /\ desk[d].verdict = "shipped" => requests[desk[d].request].type = "physical"

RedemptionInv ==
    /\ RedemptionTypeOK
    /\ RulesAreInForce
    /\ DesksAreSound
    /\ AdmittedByOneRule
    /\ NothingLeavesUnapproved

-----------------------------------------------------------------------------
\* The tasks of a typed desk, by their step.
LEMMA TaskTypes ==
    ASSUME NEW t \in Task
    PROVE  /\ t.step = "insertRequest" => t.row \in Request
           /\ t.step = "updateRequest" => t.request \in Nat \ {0} /\ t.verdict \in Verdicts
           /\ t.step \in {"insertRule", "updateRule"} => t.asset \in Assets /\ t.rule \in Rules
BY DEF Task, Idle

\* A typed rule, for a rule of the model's constant.
LEMMA RuleTypes ==
    ASSUME RedemptionAssumption, NEW rule \in Rules
    PROVE  rule.min \in Nat /\ rule.max \in Nat /\ rule.fee \in Nat /\ rule.active \in BOOLEAN
<1>1. rule \in [min : Nat, max : Nat, fee : Nat, physical : BOOLEAN, cash : BOOLEAN, active : BOOLEAN]
  BY DEF RedemptionAssumption
<1> QED
  BY <1>1

\* A verdict that its reader was entitled to leaves a cleared row cleared, whatever
\* happened to the row in between, and keeps what was asked for and every date.
LEMMA JudgedRow ==
    ASSUME NEW row \in Request, NEW verdict \in Verdicts
    PROVE  /\ Judged(row, verdict) \in Request
           /\ Judged(row, verdict).status # "pending"
           /\ Judged(row, verdict).asset = row.asset
           /\ Judged(row, verdict).type = row.type
           /\ Judged(row, verdict).amount = row.amount
           /\ Judged(row, verdict).fee = row.fee
           /\ row.approved => Judged(row, verdict).approved
           /\ row.completed => Judged(row, verdict).completed
           /\ row.tracked => Judged(row, verdict).tracked
           /\ (/\ Cleared(row)
               /\ verdict \in {"completed", "shipped"} => row.approved
               /\ verdict = "shipped" => row.type = "physical")
              => Cleared(Judged(row, verdict))
BY DEF Judged, Verdicts, Request, RequestStatus, Cleared

-----------------------------------------------------------------------------
LEMMA RedemptionInitInv ==
    ASSUME RedemptionAssumption, RedemptionInit
    PROVE  RedemptionInv
<1> USE DEF RedemptionInit
<1>1. RedemptionTypeOK
  BY DEF RedemptionTypeOK, Task
<1>2. RulesAreInForce
  BY DEF RulesAreInForce, Active
<1>3. DesksAreSound
  BY DEF DesksAreSound, Idle
<1>4. AdmittedByOneRule /\ NothingLeavesUnapproved
  BY DEF AdmittedByOneRule, NothingLeavesUnapproved
<1> QED
  BY <1>1, <1>2, <1>3, <1>4 DEF RedemptionInv

\* A step that leaves the tables alone and puts a sound task on one desk.
LEMMA TaskKeepsInv ==
    ASSUME RedemptionInv, NEW d \in Desks, NEW t \in Task,
           desk' = [desk EXCEPT ![d] = t], UNCHANGED <<requests, rules, inForce>>,
           t.step = "insertRequest" => Admitted(t.row) /\ Cleared(t.row),
           t.step = "updateRequest" =>
              /\ t.request \in DOMAIN requests
              /\ t.verdict \in {"completed", "shipped"} => requests[t.request].approved
              /\ t.verdict = "shipped" => requests[t.request].type = "physical"
    PROVE  RedemptionInv'
<1>1. RedemptionTypeOK'
  BY DEF RedemptionInv, RedemptionTypeOK
<1>2. RulesAreInForce'
  BY DEF RedemptionInv, RulesAreInForce, Active
<1>3. \A row : Admitted(row) => Admitted(row)'
  BY DEF Admitted
<1>4. ASSUME NEW e \in Desks PROVE desk'[e] = IF e = d THEN t ELSE desk[e]
  BY DEF RedemptionInv, RedemptionTypeOK
<1>5. DesksAreSound'
  BY <1>3, <1>4 DEF RedemptionInv, DesksAreSound, Admitted
<1>6. AdmittedByOneRule' /\ NothingLeavesUnapproved'
  BY DEF RedemptionInv, AdmittedByOneRule, NothingLeavesUnapproved, Admitted
<1> QED
  BY <1>1, <1>2, <1>5, <1>6 DEF RedemptionInv

LEMMA ReadRuleForRequestKeepsInv ==
    ASSUME RedemptionAssumption, RedemptionInv,
           NEW d \in Desks, NEW asset \in Assets, NEW type \in Types, NEW amount \in Amounts,
           ReadRuleForRequest(d, asset, type, amount)
    PROVE  RedemptionInv'
<1> DEFINE rule == rules[asset]
           row == [asset |-> asset, type |-> type, amount |-> amount, fee |-> rule.fee,
                   status |-> "pending", approved |-> FALSE, completed |-> FALSE, tracked |-> FALSE]
           t == [step |-> "insertRequest", row |-> row]
<1>1. Active(asset) /\ Admits(rule, type, amount)
  BY DEF ReadRuleForRequest
<1>2. rule \in Rules /\ rule \in inForce[asset]
  BY <1>1 DEF RedemptionInv, RedemptionTypeOK, RulesAreInForce, Active
<1>3. rule.fee \in Nat
  BY <1>2, RuleTypes
<1>4. row \in Request
  BY <1>3 DEF Request, RequestStatus
<1>5. t \in Task
  BY <1>4 DEF Task
<1>6. Admitted(row) /\ Cleared(row)
  BY <1>1, <1>2 DEF Admitted, Cleared
<1>7. desk' = [desk EXCEPT ![d] = t] /\ UNCHANGED <<requests, rules, inForce>>
  BY DEF ReadRuleForRequest
<1>8. t.step = "insertRequest" /\ t.row = row
  OBVIOUS
<1> HIDE DEF t, row
<1> QED
  BY <1>5, <1>6, <1>7, <1>8, TaskKeepsInv

LEMMA ReadRequestKeepsInv ==
    ASSUME RedemptionInv,
           NEW d \in Desks, NEW request \in DOMAIN requests, NEW verdict \in Verdicts,
           ReadRequest(d, request, verdict)
    PROVE  RedemptionInv'
<1> DEFINE t == [step |-> "updateRequest", request |-> request, verdict |-> verdict]
<1>1. request \in Nat \ {0}
  BY DEF RedemptionInv, RedemptionTypeOK
<1>2. t \in Task
  BY <1>1 DEF Task
<1>3. /\ verdict \in {"completed", "shipped"} => requests[request].approved
      /\ verdict = "shipped" => requests[request].type = "physical"
  BY DEF ReadRequest, Judgeable, RedemptionInv, NothingLeavesUnapproved, Cleared
<1>4. desk' = [desk EXCEPT ![d] = t] /\ UNCHANGED <<requests, rules, inForce>>
  BY DEF ReadRequest
<1>5. t.step = "updateRequest" /\ t.request = request /\ t.verdict = verdict
  OBVIOUS
<1> HIDE DEF t
<1> QED
  BY <1>2, <1>3, <1>4, <1>5, TaskKeepsInv

LEMMA ReadRuleKeepsInv ==
    ASSUME RedemptionInv,
           NEW d \in Desks, NEW asset \in Assets, NEW rule \in Rules, ReadRule(d, asset, rule)
    PROVE  RedemptionInv'
<1> DEFINE t(step) == [step |-> step, asset |-> asset, rule |-> rule]
<1>1. PICK step \in {"insertRule", "updateRule"} : desk' = [desk EXCEPT ![d] = t(step)]
  BY DEF ReadRule
<1>2. t(step) \in Task /\ t(step).step \in {"updateRule", "insertRule"}
  BY <1>1 DEF Task
<1>3. UNCHANGED <<requests, rules, inForce>>
  BY DEF ReadRule
<1> HIDE DEF t
<1> QED
  BY <1>1, <1>2, <1>3, TaskKeepsInv

LEMMA CallFailsKeepsInv ==
    ASSUME RedemptionInv, NEW d \in Desks, CallFails(d)
    PROVE  RedemptionInv'
<1>1. Idle \in Task /\ Idle.step = "idle"
  BY DEF Task, Idle
<1>2. desk' = [desk EXCEPT ![d] = Idle] /\ UNCHANGED <<requests, rules, inForce>>
  BY DEF CallFails
<1> QED
  BY <1>1, <1>2, TaskKeepsInv

\* A step that frees one desk and keeps or extends requests and history.
LEMMA FreedDesk ==
    ASSUME RedemptionInv, NEW d \in Desks, desk' = [desk EXCEPT ![d] = Idle],
           requests' \in Seq(Request),
           \A a \in Assets : inForce[a] \subseteq inForce'[a],
           \A r \in DOMAIN requests :
              /\ r \in DOMAIN requests'
              /\ requests[r].approved => requests'[r].approved
              /\ requests'[r].type = requests[r].type
    PROVE  desk' \in [Desks -> Task] /\ DesksAreSound'
<1>1. desk \in [Desks -> Task] /\ Idle \in Task /\ Idle.step = "idle"
  BY DEF RedemptionInv, RedemptionTypeOK, Task, Idle
<1>2. desk' \in [Desks -> Task]
  BY <1>1
<1>3. ASSUME NEW e \in Desks
      PROVE  desk'[e] = IF e = d THEN Idle ELSE desk[e]
  BY <1>1
<1>4. ASSUME NEW e \in Desks, desk'[e].step = "insertRequest"
      PROVE  Admitted(desk[e].row)' /\ Cleared(desk[e].row)'
  <2>1. desk'[e] = desk[e] /\ desk[e].step = "insertRequest"
    BY <1>1, <1>3, <1>4
  <2>2. desk[e].row \in Request
    BY <1>1, <2>1, TaskTypes
  <2>3. Admitted(desk[e].row) /\ Cleared(desk[e].row)
    BY <2>1 DEF RedemptionInv, DesksAreSound
  <2>4. desk[e].row.asset \in Assets
    BY <2>2 DEF Request
  <2> QED
    BY <2>1, <2>3, <2>4 DEF Admitted, Cleared
<1>5. ASSUME NEW e \in Desks, desk'[e].step = "updateRequest"
      PROVE  /\ desk'[e].request \in DOMAIN requests'
             /\ desk'[e].verdict \in {"completed", "shipped"} => requests'[desk'[e].request].approved
             /\ desk'[e].verdict = "shipped" => requests'[desk'[e].request].type = "physical"
  <2>1. desk'[e] = desk[e] /\ desk[e].step = "updateRequest"
    BY <1>1, <1>3, <1>5
  <2>2. /\ desk[e].request \in DOMAIN requests
        /\ desk[e].verdict \in {"completed", "shipped"} => requests[desk[e].request].approved
        /\ desk[e].verdict = "shipped" => requests[desk[e].request].type = "physical"
    BY <2>1 DEF RedemptionInv, DesksAreSound
  <2> QED
    BY <2>1, <2>2
<1> QED
  BY <1>2, <1>4, <1>5 DEF DesksAreSound

LEMMA InsertRequestKeepsInv ==
    ASSUME RedemptionInv, NEW d \in Desks, InsertRequest(d)
    PROVE  RedemptionInv'
<1> DEFINE row == desk[d].row
<1>1. requests' = Append(requests, row) /\ desk' = [desk EXCEPT ![d] = Idle]
      /\ rules' = rules /\ inForce' = inForce /\ desk[d].step = "insertRequest"
  BY DEF InsertRequest
<1>2. requests \in Seq(Request) /\ desk[d] \in Task
  BY DEF RedemptionInv, RedemptionTypeOK
<1>3. row \in Request
  BY <1>1, <1>2, TaskTypes
<1>4. Admitted(row) /\ Cleared(row)
  BY <1>1 DEF RedemptionInv, DesksAreSound
<1> HIDE DEF row
<1>5. /\ requests' \in Seq(Request)
      /\ \A r \in DOMAIN requests : r \in DOMAIN requests' /\ requests'[r] = requests[r]
      /\ \A r \in DOMAIN requests' : r \in DOMAIN requests \/ requests'[r] = row
  BY <1>1, <1>2, <1>3
<1>6. desk' \in [Desks -> Task] /\ DesksAreSound'
  BY <1>1, <1>5, FreedDesk
<1>7. RedemptionTypeOK'
  BY <1>1, <1>5, <1>6 DEF RedemptionInv, RedemptionTypeOK
<1>8. RulesAreInForce'
  BY <1>1 DEF RedemptionInv, RulesAreInForce, Active
<1>9. NothingLeavesUnapproved'
  BY <1>4, <1>5 DEF RedemptionInv, NothingLeavesUnapproved
<1>10. AdmittedByOneRule'
  BY <1>1, <1>4, <1>5 DEF RedemptionInv, AdmittedByOneRule, Admitted
<1> QED
  BY <1>6, <1>7, <1>8, <1>9, <1>10 DEF RedemptionInv

LEMMA UpdateRequestKeepsInv ==
    ASSUME RedemptionInv, NEW d \in Desks, UpdateRequest(d)
    PROVE  RedemptionInv'
<1> DEFINE q == desk[d].request
           v == desk[d].verdict
           after == Judged(requests[q], v)
<1>1. requests' = [requests EXCEPT ![q] = after] /\ desk' = [desk EXCEPT ![d] = Idle]
      /\ rules' = rules /\ inForce' = inForce /\ desk[d].step = "updateRequest"
  BY DEF UpdateRequest
<1>2. requests \in Seq(Request) /\ desk[d] \in Task
  BY DEF RedemptionInv, RedemptionTypeOK
<1>3. v \in Verdicts
  BY <1>1, <1>2, TaskTypes
<1>4. /\ q \in DOMAIN requests
      /\ v \in {"completed", "shipped"} => requests[q].approved
      /\ v = "shipped" => requests[q].type = "physical"
  BY <1>1 DEF RedemptionInv, DesksAreSound
<1>5. requests[q] \in Request
  BY <1>2, <1>4
<1>6. /\ after \in Request
      /\ after.asset = requests[q].asset /\ after.type = requests[q].type
      /\ after.amount = requests[q].amount /\ after.fee = requests[q].fee
      /\ requests[q].approved => after.approved
  BY <1>3, <1>5, JudgedRow
<1>7. Cleared(after)
  <2>1. Cleared(requests[q])
    BY <1>4 DEF RedemptionInv, NothingLeavesUnapproved
  <2> QED
    BY <2>1, <1>3, <1>4, <1>5, JudgedRow
<1> HIDE DEF q, v, after
<1>8. /\ requests' \in Seq(Request) /\ DOMAIN requests' = DOMAIN requests
      /\ \A r \in DOMAIN requests : requests'[r] = IF r = q THEN after ELSE requests[r]
  BY <1>1, <1>2, <1>4, <1>6
<1>9. desk' \in [Desks -> Task] /\ DesksAreSound'
  BY <1>1, <1>6, <1>8, FreedDesk
<1>10. RedemptionTypeOK'
  BY <1>1, <1>8, <1>9 DEF RedemptionInv, RedemptionTypeOK
<1>11. RulesAreInForce'
  BY <1>1 DEF RedemptionInv, RulesAreInForce, Active
<1>12. NothingLeavesUnapproved'
  BY <1>7, <1>8 DEF RedemptionInv, NothingLeavesUnapproved
<1>13. AdmittedByOneRule'
  <2>1. Admitted(after)
    BY <1>4, <1>6 DEF RedemptionInv, AdmittedByOneRule, Admitted
  <2> QED
    BY <1>1, <1>8, <2>1 DEF RedemptionInv, AdmittedByOneRule, Admitted
<1> QED
  BY <1>9, <1>10, <1>11, <1>12, <1>13 DEF RedemptionInv

LEMMA WriteRuleKeepsInv ==
    ASSUME RedemptionAssumption, RedemptionInv, NEW d \in Desks,
           desk[d].step \in {"insertRule", "updateRule"}, WriteRule(d)
    PROVE  RedemptionInv'
<1> DEFINE a == desk[d].asset
           rule == desk[d].rule
<1>1. /\ rules' = [rules EXCEPT ![a] = rule]
      /\ inForce' = IF rule.active THEN [inForce EXCEPT ![a] = @ \cup {rule}] ELSE inForce
      /\ desk' = [desk EXCEPT ![d] = Idle] /\ requests' = requests
  BY DEF WriteRule
<1>2. requests \in Seq(Request) /\ desk[d] \in Task
      /\ rules \in [Assets -> Rules \cup {NoRule}] /\ inForce \in [Assets -> SUBSET Rules]
  BY DEF RedemptionInv, RedemptionTypeOK
<1>3. a \in Assets /\ rule \in Rules
  BY <1>2, TaskTypes
<1>4. rule # NoRule /\ rule.active \in BOOLEAN
  BY <1>3, RuleTypes DEF RedemptionAssumption
<1> HIDE DEF a, rule
<1>5. /\ rules' \in [Assets -> Rules \cup {NoRule}]
      /\ inForce' \in [Assets -> SUBSET Rules]
      /\ \A b \in Assets : inForce[b] \subseteq inForce'[b]
  BY <1>1, <1>2, <1>3
<1>6. desk' \in [Desks -> Task] /\ DesksAreSound'
  BY <1>1, <1>2, <1>5, FreedDesk
<1>7. RedemptionTypeOK'
  BY <1>1, <1>2, <1>5, <1>6 DEF RedemptionTypeOK
<1>8. RulesAreInForce'
  <2> SUFFICES ASSUME NEW b \in Assets, Active(b)' PROVE rules'[b] \in inForce'[b]
    BY DEF RulesAreInForce
  <2>1. CASE b = a
    <3>1. rules'[b] = rule /\ rule.active
      BY <1>1, <1>2, <1>3, <2>1 DEF Active
    <3> QED
      BY <1>1, <1>2, <1>3, <2>1, <3>1
  <2>2. CASE b # a
    <3>1. rules'[b] = rules[b]
      BY <1>1, <1>2, <1>3, <2>2
    <3>2. rules[b] \in inForce[b]
      BY <3>1 DEF RedemptionInv, RulesAreInForce, Active
    <3> QED
      BY <1>5, <3>1, <3>2
  <2> QED
    BY <2>1, <2>2
<1>9. NothingLeavesUnapproved'
  BY <1>1 DEF RedemptionInv, NothingLeavesUnapproved
<1>10. AdmittedByOneRule'
  <2> SUFFICES ASSUME NEW r \in DOMAIN requests PROVE Admitted(requests[r])'
    BY <1>1 DEF AdmittedByOneRule, Admitted
  <2>1. Admitted(requests[r])
    BY DEF RedemptionInv, AdmittedByOneRule
  <2>2. requests[r] \in Request
    BY <1>2
  <2>3. requests[r].asset \in Assets
    BY <2>2 DEF Request
  <2> QED
    BY <1>1, <1>5, <2>1, <2>3 DEF Admitted
<1> QED
  BY <1>6, <1>7, <1>8, <1>9, <1>10 DEF RedemptionInv

LEMMA RedemptionNextKeepsInv ==
    ASSUME RedemptionAssumption, RedemptionInv, [RedemptionNext]_redemptionVars
    PROVE  RedemptionInv'
<1>1. ASSUME NEW d \in Desks, SubmitRequest(d) PROVE RedemptionInv'
  BY <1>1, ReadRuleForRequestKeepsInv, InsertRequestKeepsInv DEF SubmitRequest
<1>2. ASSUME NEW d \in Desks, JudgeRequest(d) PROVE RedemptionInv'
  BY <1>2, ReadRequestKeepsInv, UpdateRequestKeepsInv DEF JudgeRequest
<1>3. ASSUME NEW d \in Desks, UpsertRule(d) PROVE RedemptionInv'
  BY <1>3, ReadRuleKeepsInv, WriteRuleKeepsInv DEF UpsertRule, InsertRule, UpdateRule
<1>4. ASSUME NEW d \in Desks, CallFails(d) PROVE RedemptionInv'
  BY <1>4, CallFailsKeepsInv
<1>5. CASE UNCHANGED redemptionVars
  BY <1>5 DEF redemptionVars, RedemptionInv, RedemptionTypeOK, RulesAreInForce, Active,
              DesksAreSound, AdmittedByOneRule, Admitted, NothingLeavesUnapproved
<1> QED
  BY <1>1, <1>2, <1>3, <1>4, <1>5 DEF RedemptionNext

\* The inductive invariant of redemption, for any assets, rules and workers.
THEOREM RedemptionInvariant == RedemptionSpec => []RedemptionInv
<1>1. RedemptionInit => RedemptionInv
  BY RedemptionAssumption, RedemptionInitInv
<1>2. RedemptionInv /\ [RedemptionNext]_redemptionVars => RedemptionInv'
  BY RedemptionAssumption, RedemptionNextKeepsInv
<1> QED
  BY <1>1, <1>2, PTL DEF RedemptionSpec

\* A row's history is kept when it stays, and when a verdict changes it.
KeptRow(before, after) ==
    /\ after = [before EXCEPT !.status = after.status, !.approved = after.approved,
                   !.completed = after.completed, !.tracked = after.tracked]
    /\ before.approved => after.approved
    /\ before.completed => after.completed
    /\ before.tracked => after.tracked
    /\ before.status # "pending" => after.status # "pending"

LEMMA SameRowIsKept ==
    ASSUME NEW row \in Request
    PROVE  KeptRow(row, row)
BY DEF KeptRow, Request

LEMMA JudgedRowIsKept ==
    ASSUME NEW row \in Request, NEW verdict \in Verdicts
    PROVE  KeptRow(row, Judged(row, verdict))
<1> DEFINE after == Judged(row, verdict)
<1>1. /\ after.status = verdict
      /\ after.approved = (row.approved \/ verdict = "approved")
      /\ after.completed = (row.completed \/ verdict = "completed")
      /\ after.tracked = (row.tracked \/ verdict = "shipped")
  BY DEF Judged, Request
<1>2. after = [row EXCEPT !.status = after.status, !.approved = after.approved,
                  !.completed = after.completed, !.tracked = after.tracked]
  BY <1>1 DEF Judged, Request
<1> QED
  BY <1>1, <1>2 DEF KeptRow, Verdicts

LEMMA StepKeepsRows ==
    ASSUME RedemptionAssumption, RedemptionInv, [RedemptionNext]_redemptionVars,
           NEW r \in DOMAIN requests
    PROVE  KeptRow(requests[r], requests'[r])
<1>1. requests \in Seq(Request) /\ requests[r] \in Request
  BY DEF RedemptionInv, RedemptionTypeOK
<1>2. CASE requests' = requests
  BY <1>1, <1>2, SameRowIsKept
<1>3. ASSUME NEW d \in Desks, InsertRequest(d) PROVE KeptRow(requests[r], requests'[r])
  <2>1. requests'[r] = requests[r]
    BY <1>1, <1>3 DEF InsertRequest
  <2> QED
    BY <1>1, <2>1, SameRowIsKept
<1>4. ASSUME NEW d \in Desks, UpdateRequest(d) PROVE KeptRow(requests[r], requests'[r])
  <2>1. desk[d] \in Task /\ desk[d].step = "updateRequest"
    BY <1>4 DEF UpdateRequest, RedemptionInv, RedemptionTypeOK
  <2>2. desk[d].verdict \in Verdicts
    BY <2>1, TaskTypes
  <2>3. requests'[r] = IF r = desk[d].request THEN Judged(requests[r], desk[d].verdict)
                       ELSE requests[r]
    BY <1>1, <1>4 DEF UpdateRequest
  <2> QED
    BY <1>1, <2>2, <2>3, SameRowIsKept, JudgedRowIsKept
<1>5. RedemptionNext => \/ requests' = requests
                        \/ \E d \in Desks : InsertRequest(d) \/ UpdateRequest(d)
  BY DEF RedemptionNext, SubmitRequest, JudgeRequest, UpsertRule, InsertRule, UpdateRule, WriteRule,
         CallFails, ReadRuleForRequest, ReadRequest, ReadRule
<1> QED
  BY <1>2, <1>3, <1>4, <1>5 DEF redemptionVars

-----------------------------------------------------------------------------
\* The plans and rows a task of the dividends names exist, for nothing is deleted, and an
\* account is about to show no more than it has earned when the call succeeds.
Sound(t) ==
    /\ t.step = "insertRecords" => t.payment.plan \in DOMAIN plans
    /\ t.step = "incrementPaid" => t.plan \in DOMAIN plans
    /\ t.step \in {"findRow", "insertAccrual", "updateAccrual"} =>
          t.accrual.cents <= earned[AccountOf(t.accrual)] + t.day
    /\ t.step = "updateAccrual" =>
          /\ t.row \in DOMAIN accruals
          /\ accruals[t.row].plan = t.accrual.plan
          /\ accruals[t.row].holder = t.accrual.holder

DividendInv ==
    /\ DividendTypeOK
    /\ Len(plans) <= MaxPlans
    /\ \A w \in Payers : Sound(payer[w])
    /\ PaidPeriodsAreRecorded
    /\ OverpaymentIsBounded
    /\ NoInterestIsInvented

\* Rows stay with their account and no account earns less.
AccountsAdvance ==
    /\ accruals' \in Seq(Accrual) /\ earned' \in [Accounts -> Nat]
    /\ \A account \in Accounts : earned[account] <= earned'[account]
    /\ \A i \in DOMAIN accruals :
          /\ i \in DOMAIN accruals'
          /\ accruals'[i].plan = accruals[i].plan /\ accruals'[i].holder = accruals[i].holder

Bit(b) == IF b THEN 1 ELSE 0

\* Two subsets of a finite set that differ in one element at most.
LEMMA CountsDiffer ==
    ASSUME NEW P, IsFiniteSet(P), NEW w \in P,
           NEW S \in SUBSET P, NEW T \in SUBSET P, S \ {w} = T \ {w}
    PROVE  /\ Cardinality(S) \in Nat /\ Cardinality(T) \in Nat /\ Cardinality(P) \in Nat
           /\ Cardinality(T) = Cardinality(S) - Bit(w \in S) + Bit(w \in T)
           /\ Cardinality(S) <= Cardinality(P) - 1 + Bit(w \in S)
<1>1. IsFiniteSet(S) /\ IsFiniteSet(T) /\ IsFiniteSet(P \ {w})
  BY FS_Subset, FS_RemoveElement
<1>2. Cardinality(S) \in Nat /\ Cardinality(T) \in Nat /\ Cardinality(P) \in Nat
  BY <1>1, FS_CardinalityType
<1>3. /\ Cardinality(S \ {w}) = Cardinality(S) - Bit(w \in S)
      /\ Cardinality(T \ {w}) = Cardinality(T) - Bit(w \in T)
      /\ Cardinality(P \ {w}) = Cardinality(P) - 1
  <2>1. Cardinality(S \ {w}) = IF w \in S THEN Cardinality(S) - 1 ELSE Cardinality(S)
    BY <1>1, FS_RemoveElement, Zenon
  <2>2. Cardinality(T \ {w}) = IF w \in T THEN Cardinality(T) - 1 ELSE Cardinality(T)
    BY <1>1, FS_RemoveElement, Zenon
  <2>3. Cardinality(P \ {w}) = IF w \in P THEN Cardinality(P) - 1 ELSE Cardinality(P)
    BY FS_RemoveElement, Zenon
  <2> QED
    BY <1>2, <2>1, <2>2, <2>3, SMT DEF Bit
<1>4. S \ {w} \in SUBSET (P \ {w})
  OBVIOUS
<1>5. Cardinality(S \ {w}) <= Cardinality(P \ {w})
  BY <1>1, <1>4, FS_Subset
<1> QED
  BY <1>2, <1>3, <1>5, SMT DEF Bit

\* What one worker's next task does to the counts of a plan.
LEMMA PayerMoves ==
    ASSUME DividendAssumption, payer \in [Payers -> Payout], NEW w \in Payers, NEW t,
           payer' = [payer EXCEPT ![w] = t], NEW p
    PROVE  /\ Cardinality(Incrementing(p)) \in Nat /\ Cardinality(Incrementing(p))' \in Nat
           /\ Cardinality(Paying(p)) \in Nat /\ Cardinality(Paying(p))' \in Nat
           /\ Cardinality(Payers) \in Nat
           /\ Cardinality(Incrementing(p))' =
                 Cardinality(Incrementing(p)) - Bit(Increments(payer[w], p)) + Bit(Increments(t, p))
           /\ Cardinality(Paying(p))' =
                 Cardinality(Paying(p)) - Bit(Pays(payer[w], p)) + Bit(Pays(t, p))
           /\ Cardinality(Paying(p)) <= Cardinality(Payers) - 1 + Bit(Pays(payer[w], p))
<1>1. \A v \in Payers : payer'[v] = IF v = w THEN t ELSE payer[v]
  OBVIOUS
<1>2. IsFiniteSet(Payers)
  BY DEF DividendAssumption
<1> DEFINE S == Incrementing(p)
           T == {v \in Payers : Increments(payer'[v], p)}
           U == Paying(p)
           V == {v \in Payers : Pays(payer'[v], p)}
<1>3. /\ S \in SUBSET Payers /\ T \in SUBSET Payers /\ S \ {w} = T \ {w}
      /\ Bit(w \in S) = Bit(Increments(payer[w], p)) /\ Bit(w \in T) = Bit(Increments(t, p))
  BY <1>1 DEF Incrementing, Increments, Bit
<1>4. /\ U \in SUBSET Payers /\ V \in SUBSET Payers /\ U \ {w} = V \ {w}
      /\ Bit(w \in U) = Bit(Pays(payer[w], p)) /\ Bit(w \in V) = Bit(Pays(t, p))
  BY <1>1 DEF Paying, Pays, Increments, Bit
<1>5. Incrementing(p)' = T /\ Paying(p)' = V
  BY DEF Incrementing, Paying
<1> HIDE DEF S, T, U, V
<1>6. /\ Cardinality(S) \in Nat /\ Cardinality(T) \in Nat /\ Cardinality(Payers) \in Nat
      /\ Cardinality(T) = Cardinality(S) - Bit(w \in S) + Bit(w \in T)
  BY <1>2, <1>3, CountsDiffer
<1>7. /\ Cardinality(U) \in Nat /\ Cardinality(V) \in Nat
      /\ Cardinality(V) = Cardinality(U) - Bit(w \in U) + Bit(w \in V)
      /\ Cardinality(U) <= Cardinality(Payers) - 1 + Bit(w \in U)
  BY <1>2, <1>4, CountsDiffer
<1> QED
  BY <1>3, <1>4, <1>5, <1>6, <1>7 DEF S, U

\* The tasks of a typed worker, by their step.
LEMMA PayoutTypes ==
    ASSUME NEW t \in Payout
    PROVE  /\ t.step = "insertRecords" => t.payment \in Payment
           /\ t.step = "readAccrual" =>
                 t.plan \in 1 .. MaxPlans /\ t.holder \in Holders /\ t.day \in Interests
           /\ t.step \in {"findRow", "insertAccrual"} => t.accrual \in Accrual /\ t.day \in Interests
           /\ t.step = "updateAccrual" => t.accrual \in Accrual /\ t.day \in Interests
BY DEF Payout, NoTask

LEMMA AccountsStay ==
    ASSUME DividendInv, UNCHANGED <<accruals, earned>>
    PROVE  AccountsAdvance /\ NoInterestIsInvented'
<1>1. \A account \in Accounts : earned[account] \in Nat
  BY DEF DividendInv, DividendTypeOK
<1> QED
  BY <1>1 DEF DividendInv, DividendTypeOK, AccountsAdvance, NoInterestIsInvented

\* What is true of a task stays true while others work.
LEMMA SoundnessLasts ==
    ASSUME DividendAssumption, DividendInv, AccountsAdvance, DOMAIN plans \subseteq DOMAIN plans',
           NEW t \in Payout, Sound(t)
    PROVE  Sound(t)'
<1>1. ASSUME t.step \in {"findRow", "insertAccrual", "updateAccrual"}
      PROVE  t.accrual.cents <= earned'[AccountOf(t.accrual)] + t.day
  <2> DEFINE account == AccountOf(t.accrual)
  <2>1. t.accrual \in Accrual /\ t.day \in Nat
    BY <1>1, PayoutTypes DEF DividendAssumption
  <2>2. account \in Accounts /\ t.accrual.cents \in Nat
    BY <2>1 DEF Accrual, Accounts, AccountOf
  <2>3. /\ earned[account] \in Nat /\ earned'[account] \in Nat
        /\ earned[account] <= earned'[account]
    BY <2>2 DEF DividendInv, DividendTypeOK, AccountsAdvance
  <2>4. t.accrual.cents <= earned[account] + t.day
    BY <1>1 DEF Sound
  <2> QED
    BY <2>1, <2>2, <2>3, <2>4
<1> QED
  BY <1>1 DEF Sound, AccountsAdvance

\* A plan's counts: within the plan, and behind its payments.
CountsAreRight(p) ==
    /\ plans[p].paid + Cardinality(Incrementing(p)) <= Cardinality(PaymentsOf(p))
    /\ plans[p].paid + Cardinality(Paying(p)) <= plans[p].total + Cardinality(Payers) - 1

LEMMA CountsAreTyped ==
    ASSUME DividendAssumption, NEW p
    PROVE  /\ Cardinality(Incrementing(p)) \in Nat
           /\ Cardinality(Paying(p)) \in Nat
           /\ Cardinality(Payers) \in Nat
<1>1. IsFiniteSet(Payers)
  BY DEF DividendAssumption
<1>2. IsFiniteSet(Incrementing(p)) /\ IsFiniteSet(Paying(p))
  BY <1>1, FS_Subset DEF Incrementing, Paying
<1> QED
  BY <1>1, <1>2, FS_CardinalityType

LEMMA PaymentsAreTyped ==
    ASSUME payments \in Seq(Payment), NEW p
    PROVE  IsFiniteSet(PaymentsOf(p)) /\ Cardinality(PaymentsOf(p)) \in Nat
<1>1. Len(payments) \in Nat /\ DOMAIN payments = 1 .. Len(payments)
  OBVIOUS
<1>2. IsFiniteSet(1 .. Len(payments))
  BY <1>1, FS_Interval
<1>3. PaymentsOf(p) \in SUBSET (1 .. Len(payments))
  BY <1>1 DEF PaymentsOf
<1>4. IsFiniteSet(PaymentsOf(p))
  BY <1>2, <1>3, FS_Subset
<1> QED
  BY <1>4, FS_CardinalityType

LEMMA DividendInitInv ==
    ASSUME DividendAssumption, DividendInit
    PROVE  DividendInv
<1> USE DEF DividendInit
<1>1. DividendTypeOK
  BY DEF DividendTypeOK, Payout
<1>2. \A w \in Payers : Sound(payer[w])
  BY DEF Sound, NoTask
<1>3. PaidPeriodsAreRecorded /\ OverpaymentIsBounded /\ NoInterestIsInvented
  BY DEF PaidPeriodsAreRecorded, OverpaymentIsBounded, NoInterestIsInvented
<1>4. Len(plans) <= MaxPlans
  BY DEF DividendAssumption
<1> QED
  BY <1>1, <1>2, <1>3, <1>4 DEF DividendInv

\* A step that puts a sound task on one worker leaves all workers sound.
LEMMA PayersStaySound ==
    ASSUME DividendAssumption, DividendInv, AccountsAdvance, DOMAIN plans \subseteq DOMAIN plans',
           NEW w, NEW t \in Payout, payer' = [payer EXCEPT ![w] = t], Sound(t)'
    PROVE  \A v \in Payers : Sound(payer[v])'
<1> SUFFICES ASSUME NEW v \in Payers PROVE Sound(payer[v])'
  OBVIOUS
<1>1. payer \in [Payers -> Payout] /\ Sound(payer[v])
  BY DEF DividendInv, DividendTypeOK
<1>2. CASE v = w
  <2>1. payer'[v] = t
    BY <1>1, <1>2
  <2> QED
    BY <2>1 DEF Sound
<1>3. CASE v # w
  <2>1. PICK x \in Payout : x = payer[v] /\ Sound(x)
    BY <1>1
  <2>2. Sound(x)'
    BY <2>1, SoundnessLasts
  <2>3. payer'[v] = x
    BY <1>1, <1>3, <2>1
  <2> QED
    BY <2>2, <2>3 DEF Sound
<1> QED
  BY <1>2, <1>3

\* A step that puts a sound task on one worker and leaves plans and payments alone.
LEMMA PayerKeepsInv ==
    ASSUME DividendAssumption, DividendInv, NEW w \in Payers, NEW t \in Payout,
           payer' = [payer EXCEPT ![w] = t], UNCHANGED <<plans, payments>>,
           AccountsAdvance, NoInterestIsInvented',
           t.step # "incrementPaid", Sound(t),
           t.step = "insertRecords" => plans[t.payment.plan].paid < plans[t.payment.plan].total
    PROVE  DividendInv'
<1>1. /\ payer \in [Payers -> Payout] /\ plans \in Seq(Plan) /\ payments \in Seq(Payment)
      /\ payments' = payments /\ plans' = plans
  BY DEF DividendInv, DividendTypeOK
<1>2. \A v \in Payers : payer'[v] = IF v = w THEN t ELSE payer[v]
  BY <1>1
<1>3. DividendTypeOK'
  BY <1>1 DEF DividendTypeOK, AccountsAdvance
<1>4. \A v \in Payers : Sound(payer[v])'
  BY <1>1, SoundnessLasts, PayersStaySound
<1>5. ASSUME NEW p \in DOMAIN plans PROVE CountsAreRight(p)'
  <2> DEFINE i == Cardinality(Incrementing(p))
             q == Cardinality(Paying(p))
             n == Cardinality(PaymentsOf(p))
             m == Cardinality(Payers)
  <2>1. plans[p] \in Plan
    BY <1>1
  <2>2. plans[p].paid \in Nat /\ plans[p].total \in Nat
    BY <2>1 DEF Plan, DividendAssumption
  <2>3. plans[p].paid + i <= n /\ plans[p].paid + q <= plans[p].total + m - 1
    BY DEF DividendInv, PaidPeriodsAreRecorded, OverpaymentIsBounded
  <2>4. /\ i \in Nat /\ i' \in Nat /\ q \in Nat /\ q' \in Nat /\ m \in Nat
        /\ i' = i - Bit(Increments(payer[w], p)) + Bit(Increments(t, p))
        /\ q' = q - Bit(Pays(payer[w], p)) + Bit(Pays(t, p))
        /\ q <= m - 1 + Bit(Pays(payer[w], p))
    BY <1>1, PayerMoves
  <2>5. n' = n /\ n \in Nat /\ m' = m
    BY <1>1, PaymentsAreTyped DEF PaymentsOf
  <2>6. ~Increments(t, p)
    BY DEF Increments
  <2>7. Pays(t, p) => plans[p].paid < plans[p].total
    BY DEF Pays, Increments
  <2> HIDE DEF i, q, n, m
  <2>8. i' <= i
    BY <2>4, <2>6, SMT DEF Bit
  <2>9. plans[p].paid + q' <= plans[p].total + m - 1
    <3>1. CASE Pays(t, p)
      <4>1. q' <= m
        BY <2>4, <3>1, SMT DEF Bit
      <4>2. plans[p].paid < plans[p].total
        BY <2>7, <3>1
      <4>3. q' \in Nat /\ m \in Nat
        BY <2>4
      <4> QED
        BY <2>2, <4>1, <4>2, <4>3, SMT
    <3>2. CASE ~Pays(t, p)
      <4>1. q' <= q
        BY <2>4, <3>2, SMT DEF Bit
      <4> QED
        BY <2>2, <2>3, <2>4, <4>1, SMT
    <3> QED
      BY <3>1, <3>2
  <2>10. plans[p].paid + i' <= n'
    BY <2>2, <2>3, <2>4, <2>5, <2>8, SMT
  <2> QED
    BY <1>1, <2>5, <2>9, <2>10 DEF CountsAreRight, i, q, n, m
<1>6. PaidPeriodsAreRecorded' /\ OverpaymentIsBounded'
  BY <1>1, <1>5 DEF PaidPeriodsAreRecorded, OverpaymentIsBounded, CountsAreRight
<1> QED
  BY <1>1, <1>3, <1>4, <1>6 DEF DividendInv

LEMMA ReadPlanKeepsInv ==
    ASSUME DividendAssumption, DividendInv,
           NEW w \in Payers, NEW p \in DOMAIN plans, NEW period \in Periods, NEW holders \in Lists,
           ReadPlan(w, p, period, holders)
    PROVE  DividendInv'
<1> DEFINE payment == [plan |-> p, period |-> period, holders |-> holders]
           t == [step |-> "insertRecords", payment |-> payment]
<1>1. p \in Nat \ {0}
  BY DEF DividendInv, DividendTypeOK
<1>2. payment \in Payment
  BY <1>1 DEF Payment
<1>3. t \in Payout
  BY <1>2 DEF Payout
<1>4. /\ payer' = [payer EXCEPT ![w] = t] /\ plans[p].paid < plans[p].total
      /\ plans' = plans /\ payments' = payments /\ accruals' = accruals /\ earned' = earned
  BY DEF ReadPlan
<1>5. t.step = "insertRecords" /\ t.payment.plan = p
  OBVIOUS
<1> HIDE DEF t
<1>6. Sound(t)
  BY <1>5 DEF Sound
<1> QED
  BY <1>3, <1>4, <1>5, <1>6, AccountsStay, PayerKeepsInv

LEMMA ReadInterestPlanKeepsInv ==
    ASSUME DividendAssumption, DividendInv,
           NEW w \in Payers, NEW p \in DOMAIN plans, NEW holder \in Holders, NEW day \in Interests,
           ReadInterestPlan(w, p, holder, day)
    PROVE  DividendInv'
<1> DEFINE t == [step |-> "readAccrual", plan |-> p, holder |-> holder, day |-> day]
<1>1. p \in 1 .. MaxPlans
  BY DEF DividendInv, DividendTypeOK
<1>2. t \in Payout /\ t.step = "readAccrual"
  BY <1>1 DEF Payout
<1>3. payer' = [payer EXCEPT ![w] = t] /\ UNCHANGED <<plans, payments, accruals, earned>>
  BY DEF ReadInterestPlan
<1> HIDE DEF t
<1>4. Sound(t)
  BY <1>2 DEF Sound
<1> QED
  BY <1>2, <1>3, <1>4, AccountsStay, PayerKeepsInv

LEMMA ReadAccrualKeepsInv ==
    ASSUME DividendAssumption, DividendInv, NEW w \in Payers, ReadAccrual(w)
    PROVE  DividendInv'
<1> DEFINE p == payer[w].plan
           holder == payer[w].holder
           day == payer[w].day
           a(cents) == [plan |-> p, holder |-> holder, cents |-> cents]
           t(cents) == [step |-> "findRow", day |-> day, accrual |-> a(cents)]
<1>1. accruals \in Seq(Accrual) /\ payer[w] \in Payout
  BY DEF DividendInv, DividendTypeOK
<1>2. payer[w].step = "readAccrual" /\ UNCHANGED <<plans, payments, accruals, earned>>
  BY DEF ReadAccrual
<1>3. p \in 1 .. MaxPlans /\ holder \in Holders /\ day \in Interests /\ day \in Nat
  BY <1>1, <1>2, PayoutTypes DEF DividendAssumption
<1>4. earned[<<p, holder>>] \in Nat
  <2>1. <<p, holder>> \in Accounts
    BY <1>3 DEF Accounts
  <2> HIDE DEF p, holder
  <2> QED
    BY <2>1 DEF DividendInv, DividendTypeOK
<1>5. PICK cents \in Nat : /\ payer' = [payer EXCEPT ![w] = t(cents)]
                           /\ cents <= earned[<<p, holder>>] + day
  <2>1. CASE payer' = [payer EXCEPT ![w] = t(day)]
    <3>1. day \in Nat /\ day <= earned[<<p, holder>>] + day
      <4> HIDE DEF p, holder, day
      <4> QED
        BY <1>3, <1>4
    <3> QED
      BY <2>1, <3>1, Zenon
  <2>2. ASSUME NEW row \in FoundRow(p, holder),
               payer' = [payer EXCEPT ![w] = t(accruals[row].cents + day)]
        PROVE  \E cents \in Nat : /\ payer' = [payer EXCEPT ![w] = t(cents)]
                                  /\ cents <= earned[<<p, holder>>] + day
    <3>1. row \in DOMAIN accruals /\ accruals[row].plan = p /\ accruals[row].holder = holder
      BY DEF FoundRow, Rows
    <3>2. accruals[row] \in Accrual
      BY <1>1, <3>1
    <3>3. accruals[row].cents \in Nat
      BY <3>2 DEF Accrual
    <3>4. accruals[row].cents <= earned[<<p, holder>>]
      BY <3>1 DEF DividendInv, NoInterestIsInvented, AccountOf
    <3>5. accruals[row].cents + day \in Nat /\ accruals[row].cents + day <= earned[<<p, holder>>] + day
      BY <1>3, <1>4, <3>3, <3>4
    <3> QED
      BY <2>2, <3>5
  <2> QED
    BY <2>1, <2>2 DEF ReadAccrual
<1>6. t(cents) \in Payout /\ t(cents).step = "findRow" /\ Sound(t(cents))
  <2>1. a(cents) \in Accrual /\ a(cents).plan = p /\ a(cents).holder = holder /\ a(cents).cents = cents
    BY <1>3, <1>5 DEF Accrual
  <2> HIDE DEF a, p, holder, day
  <2>2. t(cents) \in Payout
    BY <1>3, <2>1 DEF Payout
  <2>3. /\ t(cents).step = "findRow" /\ t(cents).day = day /\ t(cents).accrual = a(cents)
    OBVIOUS
  <2> HIDE DEF t
  <2> QED
    BY <1>5, <2>1, <2>2, <2>3 DEF Sound, AccountOf
<1> HIDE DEF t
<1> QED
  BY <1>2, <1>5, <1>6, AccountsStay, PayerKeepsInv

LEMMA FindRowKeepsInv ==
    ASSUME DividendAssumption, DividendInv, NEW w \in Payers, FindRow(w)
    PROVE  DividendInv'
<1> DEFINE a == payer[w].accrual
           day == payer[w].day
           new == [step |-> "insertAccrual", accrual |-> a, day |-> day]
           old(row) == [step |-> "updateAccrual", row |-> row, accrual |-> a, day |-> day]
<1>1. accruals \in Seq(Accrual) /\ payer[w] \in Payout /\ Sound(payer[w])
  BY DEF DividendInv, DividendTypeOK
<1>2. payer[w].step = "findRow" /\ UNCHANGED <<plans, payments, accruals, earned>>
  BY DEF FindRow
<1>3. a \in Accrual /\ day \in Interests
  BY <1>1, <1>2, PayoutTypes
<1>4. a.cents <= earned[AccountOf(a)] + day
  BY <1>1, <1>2 DEF Sound
<1>5. CASE payer' = [payer EXCEPT ![w] = new]
  <2>1. new \in Payout /\ new.step = "insertAccrual" /\ new.accrual = a /\ new.day = day
    BY <1>3 DEF Payout
  <2> HIDE DEF new, a, day
  <2>2. Sound(new)
    BY <1>4, <2>1 DEF Sound
  <2> QED
    BY <1>2, <1>5, <2>1, <2>2, AccountsStay, PayerKeepsInv
<1>6. ASSUME NEW row \in FoundRow(a.plan, a.holder), payer' = [payer EXCEPT ![w] = old(row)]
      PROVE  DividendInv'
  <2>1. row \in DOMAIN accruals /\ accruals[row].plan = a.plan /\ accruals[row].holder = a.holder
    BY DEF FoundRow, Rows
  <2>2. row \in Nat \ {0}
    BY <1>1, <2>1
  <2>3. /\ old(row) \in Payout /\ old(row).step = "updateAccrual" /\ old(row).row = row
        /\ old(row).accrual = a /\ old(row).day = day
    BY <1>3, <2>2 DEF Payout
  <2> HIDE DEF old, a, day
  <2>4. Sound(old(row))
    BY <1>4, <2>1, <2>3 DEF Sound
  <2> QED
    BY <1>2, <1>6, <2>3, <2>4, AccountsStay, PayerKeepsInv
<1> QED
  BY <1>5, <1>6 DEF FindRow

LEMMA IdleIsSound == NoTask \in Payout /\ NoTask.step = "idle" /\ Sound(NoTask)
BY DEF Payout, NoTask, Sound

\* A successful call books its interest, and the row it writes shows no more.
LEMMA WriteAccrualKeepsInv ==
    ASSUME DividendAssumption, DividendInv, NEW w \in Payers, InsertAccrual(w) \/ UpdateAccrual(w)
    PROVE  DividendInv'
<1> DEFINE a == payer[w].accrual
           day == payer[w].day
           account == AccountOf(a)
<1>1. accruals \in Seq(Accrual) /\ earned \in [Accounts -> Nat] /\ payer[w] \in Payout /\ Sound(payer[w])
  BY DEF DividendInv, DividendTypeOK
<1>2. payer[w].step \in {"insertAccrual", "updateAccrual"}
  BY DEF InsertAccrual, UpdateAccrual
<1>3. a \in Accrual /\ day \in Nat
  BY <1>1, <1>2, PayoutTypes DEF DividendAssumption
<1>4. account \in Accounts /\ a.cents \in Nat
  BY <1>3 DEF Accrual, Accounts, AccountOf
<1>5. /\ payer' = [payer EXCEPT ![w] = NoTask] /\ UNCHANGED <<plans, payments>>
      /\ earned' = [earned EXCEPT ![account] = @ + day]
  BY DEF InsertAccrual, UpdateAccrual, Succeeds
<1>6. a.cents <= earned[account] + day
  BY <1>1, <1>2 DEF Sound
<1>7. \A i \in DOMAIN accruals : /\ accruals[i] \in Accrual
                                 /\ accruals[i].cents \in Nat
                                 /\ AccountOf(accruals[i]) \in Accounts
                                 /\ accruals[i].cents <= earned[AccountOf(accruals[i])]
  <2> SUFFICES ASSUME NEW i \in DOMAIN accruals
               PROVE  /\ accruals[i] \in Accrual
                      /\ accruals[i].cents \in Nat
                      /\ AccountOf(accruals[i]) \in Accounts
                      /\ accruals[i].cents <= earned[AccountOf(accruals[i])]
    OBVIOUS
  <2>1. accruals[i] \in Accrual
    BY <1>1
  <2> QED
    BY <2>1 DEF Accrual, Accounts, AccountOf, DividendInv, NoInterestIsInvented
<1> HIDE DEF a, day, account
<1>8. /\ earned' \in [Accounts -> Nat] /\ earned'[account] = earned[account] + day
      /\ \A other \in Accounts : earned[other] <= earned'[other]
  BY <1>1, <1>3, <1>4, <1>5
<1>9. CASE InsertAccrual(w)
  <2>1. accruals' = Append(accruals, a)
    BY <1>9 DEF InsertAccrual, a
  <2>2. /\ accruals' \in Seq(Accrual) /\ DOMAIN accruals' = DOMAIN accruals \cup {Len(accruals) + 1}
        /\ accruals'[Len(accruals) + 1] = a
        /\ \A i \in DOMAIN accruals : accruals'[i] = accruals[i]
    BY <1>1, <1>3, <2>1
  <2>3. AccountsAdvance
    BY <1>8, <2>2 DEF AccountsAdvance
  <2>4. NoInterestIsInvented'
    BY <1>1, <1>4, <1>6, <1>7, <1>8, <2>2 DEF NoInterestIsInvented, account
  <2> QED
    BY <1>5, <2>3, <2>4, IdleIsSound, PayerKeepsInv
<1>10. CASE UpdateAccrual(w)
  <2> DEFINE row == payer[w].row
  <2>1. accruals' = [accruals EXCEPT ![row] = [@ EXCEPT !.cents = a.cents]]
    BY <1>10 DEF UpdateAccrual, a
  <2>2. row \in DOMAIN accruals /\ accruals[row].plan = a.plan /\ accruals[row].holder = a.holder
    BY <1>1, <1>10 DEF Sound, UpdateAccrual, a
  <2> HIDE DEF row
  <2>3. \A i \in DOMAIN accruals :
            accruals'[i] = IF i = row THEN [accruals[i] EXCEPT !.cents = a.cents] ELSE accruals[i]
    BY <1>1, <2>1, Zenon
  <2>4. \A i \in DOMAIN accruals :
            /\ accruals'[i] \in Accrual
            /\ accruals'[i].plan = accruals[i].plan /\ accruals'[i].holder = accruals[i].holder
            /\ accruals'[i].cents = IF i = row THEN a.cents ELSE accruals[i].cents
    <3> SUFFICES ASSUME NEW i \in DOMAIN accruals
                 PROVE  /\ accruals'[i] \in Accrual
                        /\ accruals'[i].plan = accruals[i].plan /\ accruals'[i].holder = accruals[i].holder
                        /\ accruals'[i].cents = IF i = row THEN a.cents ELSE accruals[i].cents
      OBVIOUS
    <3>1. accruals[i] \in Accrual
      BY <1>7
    <3>2. CASE i = row
      BY <1>4, <2>3, <3>1, <3>2 DEF Accrual
    <3>3. CASE i # row
      BY <2>3, <3>1, <3>3
    <3> QED
      BY <3>2, <3>3
  <2>5. DOMAIN accruals' = DOMAIN accruals /\ accruals' \in Seq(Accrual)
    <3>1. DOMAIN accruals = 1 .. Len(accruals) /\ Len(accruals) \in Nat
      BY <1>1
    <3>2. DOMAIN accruals' = DOMAIN accruals /\ accruals' \in [DOMAIN accruals -> Accrual]
      BY <2>1, <2>4
    <3> QED
      BY <3>1, <3>2
  <2>6. AccountsAdvance
    BY <1>8, <2>4, <2>5 DEF AccountsAdvance
  <2>7. NoInterestIsInvented'
    <3> SUFFICES ASSUME NEW i \in DOMAIN accruals
                 PROVE  accruals'[i].cents <= earned'[AccountOf(accruals'[i])]
      BY <2>5 DEF NoInterestIsInvented
    <3>1. CASE i = row
      BY <1>6, <1>8, <2>2, <2>4, <3>1 DEF account, AccountOf
    <3>2. CASE i # row
      <4> DEFINE other == AccountOf(accruals[i])
      <4>1. /\ accruals[i].cents \in Nat /\ accruals[i].cents <= earned[other]
            /\ earned[other] \in Nat /\ earned'[other] \in Nat /\ earned[other] <= earned'[other]
        BY <1>1, <1>7, <1>8
      <4>2. AccountOf(accruals'[i]) = other
        BY <2>4 DEF AccountOf
      <4> QED
        BY <1>7, <2>4, <3>2, <4>1, <4>2
    <3> QED
      BY <3>1, <3>2
  <2> QED
    BY <1>5, <2>6, <2>7, IdleIsSound, PayerKeepsInv
<1> QED
  BY <1>9, <1>10

LEMMA PayoutFailsKeepsInv ==
    ASSUME DividendAssumption, DividendInv, NEW w \in Payers, PayoutFails(w)
    PROVE  DividendInv'
<1>1. payer' = [payer EXCEPT ![w] = NoTask] /\ UNCHANGED <<plans, payments, accruals, earned>>
  BY DEF PayoutFails
<1> QED
  BY <1>1, IdleIsSound, AccountsStay, PayerKeepsInv

LEMMA InsertRecordsKeepsInv ==
    ASSUME DividendAssumption, DividendInv, NEW w \in Payers, InsertRecords(w)
    PROVE  DividendInv'
<1> DEFINE x == payer[w].payment
           p == x.plan
           t == [step |-> "incrementPaid", plan |-> p]
<1>1. payer \in [Payers -> Payout] /\ plans \in Seq(Plan) /\ payments \in Seq(Payment)
  BY DEF DividendInv, DividendTypeOK
<1>2. /\ payments' = Append(payments, x) /\ payer' = [payer EXCEPT ![w] = t]
      /\ plans' = plans /\ accruals' = accruals /\ earned' = earned
      /\ payer[w].step = "insertRecords"
  BY DEF InsertRecords
<1>3. x \in Payment /\ p \in DOMAIN plans
  BY <1>1, <1>2, PayoutTypes DEF DividendInv, Sound
<1>4. p \in Nat \ {0}
  BY <1>1, <1>3
<1>5. t \in Payout /\ t.step = "incrementPaid" /\ t.plan = p
  BY <1>4 DEF Payout
<1>6. \A o : /\ Bit(Increments(payer[w], o)) = 0
             /\ Bit(Increments(t, o)) = Bit(p = o)
             /\ Bit(Pays(payer[w], o)) = Bit(p = o)
             /\ Bit(Pays(t, o)) = Bit(p = o)
  BY <1>2, <1>5 DEF Increments, Pays, Bit
<1> HIDE DEF x, p, t
<1>7. payments' \in Seq(Payment)
  BY <1>1, <1>2, <1>3
<1>8. DividendTypeOK' /\ Len(plans') <= MaxPlans
  BY <1>1, <1>2, <1>5, <1>7 DEF DividendInv, DividendTypeOK
<1>9. \A v \in Payers : Sound(payer[v])'
  <2>1. PICK u \in Payout : u = t /\ u.step = "incrementPaid" /\ u.plan \in DOMAIN plans
    BY <1>3, <1>5
  <2>2. Sound(u)'
    BY <1>2, <2>1 DEF Sound
  <2> QED
    BY <1>2, <2>1, <2>2, AccountsStay, PayersStaySound
<1>10. ASSUME NEW o \in DOMAIN plans PROVE CountsAreRight(o)'
  <2> DEFINE i == Cardinality(Incrementing(o))
             q == Cardinality(Paying(o))
             n == Cardinality(PaymentsOf(o))
             m == Cardinality(Payers)
  <2>1. plans[o].paid \in Nat /\ plans[o].total \in Nat
    <3>1. plans[o] \in Plan
      BY <1>1
    <3> QED
      BY <3>1 DEF Plan, DividendAssumption
  <2>2. plans[o].paid + i <= n /\ plans[o].paid + q <= plans[o].total + m - 1
    BY DEF DividendInv, PaidPeriodsAreRecorded, OverpaymentIsBounded
  <2>3. /\ i \in Nat /\ i' \in Nat /\ q \in Nat /\ q' \in Nat /\ m \in Nat
        /\ i' = i - Bit(Increments(payer[w], o)) + Bit(Increments(t, o))
        /\ q' = q - Bit(Pays(payer[w], o)) + Bit(Pays(t, o))
    BY <1>1, <1>2, PayerMoves
  <2>4. n' = n + Bit(p = o) /\ n \in Nat /\ n' \in Nat
    <3>1. PaymentsOf(o)' = IF p = o THEN PaymentsOf(o) \cup {Len(payments) + 1} ELSE PaymentsOf(o)
      BY <1>1, <1>2, <1>3, SMT DEF PaymentsOf, p
    <3>2. Len(payments) + 1 \notin PaymentsOf(o)
      BY <1>1, SMT DEF PaymentsOf
    <3>3. IsFiniteSet(PaymentsOf(o)) /\ n \in Nat
      BY <1>1, PaymentsAreTyped
    <3>4. Cardinality(PaymentsOf(o) \cup {Len(payments) + 1}) = n + 1
      BY <3>2, <3>3, FS_AddElement
    <3>5. n' = IF p = o THEN n + 1 ELSE n
      BY <3>1, <3>4
    <3> HIDE DEF n
    <3> QED
      BY <3>3, <3>5, SMT DEF Bit
  <2>5. m' = m
    OBVIOUS
  <2> HIDE DEF i, q, n, m
  <2>6. Bit(p = o) \in Nat
    BY DEF Bit
  <2>7. i' = i + Bit(p = o) /\ q' = q
    BY <1>6, <2>3, <2>6, SMT
  <2>8. plans[o].paid + i' <= n' /\ plans[o].paid + q' <= plans[o].total + m - 1
    BY <2>1, <2>2, <2>3, <2>4, <2>6, <2>7, SMT
  <2> QED
    BY <1>2, <2>5, <2>8 DEF CountsAreRight, i, q, n, m
<1>11. PaidPeriodsAreRecorded' /\ OverpaymentIsBounded' /\ NoInterestIsInvented'
  BY <1>2, <1>10, AccountsStay DEF PaidPeriodsAreRecorded, OverpaymentIsBounded, CountsAreRight
<1> QED
  BY <1>8, <1>9, <1>11 DEF DividendInv

LEMMA IncrementPaidKeepsInv ==
    ASSUME DividendAssumption, DividendInv, NEW w \in Payers, IncrementPaid(w)
    PROVE  DividendInv'
<1> DEFINE p == payer[w].plan
<1>1. /\ payer \in [Payers -> Payout] /\ plans \in Seq(Plan) /\ payments \in Seq(Payment)
      /\ NoTask \in Payout /\ NoTask.step = "idle"
  BY IdleIsSound DEF DividendInv, DividendTypeOK
<1>2. /\ plans' = [plans EXCEPT ![p].paid = @ + 1]
      /\ payer' = [payer EXCEPT ![w] = NoTask]
      /\ payments' = payments /\ accruals' = accruals /\ earned' = earned
      /\ payer[w].step = "incrementPaid"
  BY DEF IncrementPaid
<1>3. p \in DOMAIN plans
  BY <1>2 DEF DividendInv, Sound
<1>4. \A o : /\ Bit(Increments(payer[w], o)) = Bit(p = o)
             /\ Bit(Increments(NoTask, o)) = 0
             /\ Bit(Pays(payer[w], o)) = Bit(p = o)
             /\ Bit(Pays(NoTask, o)) = 0
  BY <1>1, <1>2 DEF Increments, Pays, Bit
<1> HIDE DEF p
<1>5. ASSUME NEW o \in DOMAIN plans
      PROVE  /\ plans[o] \in Plan /\ plans[o].paid \in Nat /\ plans[o].total \in Nat
             /\ plans'[o] \in Plan
             /\ plans'[o].paid = plans[o].paid + Bit(p = o)
             /\ plans'[o].total = plans[o].total
  <2>1. plans[o] \in Plan
    BY <1>1
  <2>2. plans[o].paid \in Nat /\ plans[o].total \in Nat
    BY <2>1 DEF Plan, DividendAssumption
  <2>3. plans'[o] = IF p = o THEN [plans[o] EXCEPT !.paid = @ + 1] ELSE plans[o]
    BY <1>1, <1>2, Zenon
  <2> QED
    BY <2>1, <2>2, <2>3, SMT DEF Plan, Bit
<1>6. plans' \in Seq(Plan) /\ DOMAIN plans' = DOMAIN plans
  <2>1. DOMAIN plans = 1 .. Len(plans) /\ Len(plans) \in Nat
    BY <1>1
  <2>2. DOMAIN plans' = DOMAIN plans /\ plans' \in [DOMAIN plans -> Plan]
    BY <1>1, <1>2, <1>5
  <2> QED
    BY <2>1, <2>2
<1>7. DividendTypeOK' /\ Len(plans') <= MaxPlans
  BY <1>1, <1>2, <1>6 DEF DividendInv, DividendTypeOK
<1>8. \A v \in Payers : Sound(payer[v])'
  <2>1. Sound(NoTask)'
    BY <1>1 DEF Sound
  <2> QED
    BY <1>1, <1>2, <1>6, <2>1, AccountsStay, PayersStaySound
<1>9. ASSUME NEW o \in DOMAIN plans PROVE CountsAreRight(o)'
  <2> DEFINE i == Cardinality(Incrementing(o))
             q == Cardinality(Paying(o))
             n == Cardinality(PaymentsOf(o))
             m == Cardinality(Payers)
  <2>1. plans[o].paid + i <= n /\ plans[o].paid + q <= plans[o].total + m - 1
    BY DEF DividendInv, PaidPeriodsAreRecorded, OverpaymentIsBounded
  <2>2. /\ i \in Nat /\ i' \in Nat /\ q \in Nat /\ q' \in Nat /\ m \in Nat
        /\ i' = i - Bit(Increments(payer[w], o)) + Bit(Increments(NoTask, o))
        /\ q' = q - Bit(Pays(payer[w], o)) + Bit(Pays(NoTask, o))
    BY <1>1, <1>2, PayerMoves
  <2>3. n' = n /\ n \in Nat /\ m' = m
    BY <1>1, <1>2, PaymentsAreTyped DEF PaymentsOf
  <2> HIDE DEF i, q, n, m
  <2>4. Bit(p = o) \in Nat
    BY DEF Bit
  <2>5. i' = i - Bit(p = o) /\ q' = q - Bit(p = o)
    BY <1>4, <2>2, <2>4, SMT
  <2>6. plans'[o].paid + i' <= n' /\ plans'[o].paid + q' <= plans'[o].total + m - 1
    BY <1>5, <2>1, <2>2, <2>3, <2>4, <2>5, SMT
  <2> QED
    BY <2>3, <2>6 DEF CountsAreRight, i, q, n, m
<1>10. PaidPeriodsAreRecorded' /\ OverpaymentIsBounded' /\ NoInterestIsInvented'
  BY <1>2, <1>6, <1>9, AccountsStay DEF PaidPeriodsAreRecorded, OverpaymentIsBounded, CountsAreRight
<1> QED
  BY <1>7, <1>8, <1>10 DEF DividendInv

LEMMA CreatePlanKeepsInv ==
    ASSUME DividendAssumption, DividendInv,
           NEW kind \in Kinds, NEW total \in Totals, CreatePlan(kind, total)
    PROVE  DividendInv'
<1> DEFINE x == [kind |-> kind, total |-> total, paid |-> 0, status |-> "pending"]
<1> PICK new : new = Len(plans) + 1
  OBVIOUS
<1>1. payer \in [Payers -> Payout] /\ plans \in Seq(Plan) /\ payments \in Seq(Payment)
  BY DEF DividendInv, DividendTypeOK
<1>2. /\ plans' = Append(plans, x) /\ payer' = payer /\ Len(plans) < MaxPlans
      /\ payments' = payments /\ accruals' = accruals /\ earned' = earned
  BY DEF CreatePlan
<1>3. x \in Plan /\ x.paid = 0 /\ x.total \in Nat \ {0}
  BY DEF Plan, DividendAssumption
<1> HIDE DEF x
<1>4. /\ plans' \in Seq(Plan) /\ DOMAIN plans' = DOMAIN plans \cup {new}
      /\ new \notin DOMAIN plans /\ plans'[new] = x
      /\ \A o \in DOMAIN plans : plans'[o] = plans[o]
  BY <1>1, <1>2, <1>3
<1>5. DividendTypeOK' /\ Len(plans') <= MaxPlans
  BY <1>1, <1>2, <1>4 DEF DividendInv, DividendTypeOK, DividendAssumption
<1>6. \A v \in Payers : Sound(payer[v])'
  BY <1>2, <1>4 DEF DividendInv, Sound
<1>7. \A o : /\ Incrementing(o)' = Incrementing(o) /\ Paying(o)' = Paying(o)
             /\ PaymentsOf(o)' = PaymentsOf(o)
  BY <1>2 DEF Incrementing, Paying, PaymentsOf
<1>8. ASSUME NEW o \in DOMAIN plans PROVE CountsAreRight(o)'
  <2>1. CountsAreRight(o)
    BY DEF DividendInv, PaidPeriodsAreRecorded, OverpaymentIsBounded, CountsAreRight
  <2>2. plans'[o] = plans[o]
    BY <1>4
  <2> QED
    BY <1>7, <2>1, <2>2 DEF CountsAreRight
<1>9. CountsAreRight(new)'
  <2>1. Incrementing(new) = {} /\ Paying(new) = {}
    BY <1>4 DEF DividendInv, Sound, Incrementing, Paying, Pays, Increments
  <2>2. Cardinality(Incrementing(new)) = 0 /\ Cardinality(Paying(new)) = 0
    BY <2>1, FS_EmptySet
  <2>3. Cardinality(PaymentsOf(new)) \in Nat /\ Cardinality(Payers) \in Nat
    BY <1>1, PaymentsAreTyped, CountsAreTyped
  <2>4. plans'[new].paid = 0 /\ plans'[new].total \in Nat \ {0}
    BY <1>3, <1>4
  <2> DEFINE i == Cardinality(Incrementing(new))
             q == Cardinality(Paying(new))
             n == Cardinality(PaymentsOf(new))
             m == Cardinality(Payers)
  <2> HIDE DEF i, q, n, m
  <2>5. plans'[new].paid + i <= n /\ plans'[new].paid + q <= plans'[new].total + m - 1
    <3>1. i = 0 /\ q = 0 /\ n \in Nat /\ m \in Nat
      BY <2>2, <2>3 DEF i, q, n, m
    <3> QED
      BY <2>4, <3>1, SMT
  <2> QED
    BY <1>7, <2>5 DEF CountsAreRight, i, q, n, m
<1>10. PaidPeriodsAreRecorded' /\ OverpaymentIsBounded' /\ NoInterestIsInvented'
  BY <1>2, <1>4, <1>8, <1>9, AccountsStay DEF PaidPeriodsAreRecorded, OverpaymentIsBounded, CountsAreRight
<1> QED
  BY <1>5, <1>6, <1>10 DEF DividendInv

LEMMA DividendNextKeepsInv ==
    ASSUME DividendAssumption, DividendInv, [DividendNext]_dividendVars
    PROVE  DividendInv'
<1>1. CASE \E kind \in Kinds, total \in Totals : CreatePlan(kind, total)
  BY <1>1, CreatePlanKeepsInv
<1>2. ASSUME NEW w \in Payers, PayDividend(w) PROVE DividendInv'
  BY <1>2, ReadPlanKeepsInv, InsertRecordsKeepsInv, IncrementPaidKeepsInv DEF PayDividend
<1>3. ASSUME NEW w \in Payers, AccrueInterest(w) PROVE DividendInv'
  BY <1>3, ReadInterestPlanKeepsInv, ReadAccrualKeepsInv, FindRowKeepsInv, WriteAccrualKeepsInv
     DEF AccrueInterest
<1>4. ASSUME NEW w \in Payers, PayoutFails(w) PROVE DividendInv'
  BY <1>4, PayoutFailsKeepsInv
<1>5. CASE UNCHANGED dividendVars
  BY <1>5 DEF dividendVars, DividendInv, DividendTypeOK, Sound, PaidPeriodsAreRecorded,
              OverpaymentIsBounded, NoInterestIsInvented, PaymentsOf, Incrementing, Paying
<1> QED
  BY <1>1, <1>2, <1>3, <1>4, <1>5 DEF DividendNext

\* The counters of the plans and what is under way stay behind the payments recorded and
\* within the plan but for the payments that race; what the rows of an account show and
\* what is about to be written stays within what it has earned.
THEOREM DividendInvariant == DividendSpec => []DividendInv
<1>1. DividendInit => DividendInv
  BY DividendAssumption, DividendInitInv
<1>2. DividendInv /\ [DividendNext]_dividendVars => DividendInv'
  BY DividendAssumption, DividendNextKeepsInv
<1> QED
  BY <1>1, <1>2, PTL DEF DividendSpec

-----------------------------------------------------------------------------
\* The two packages in one server behave as each does alone.
THEOREM ImplementsRedemption == Spec => RedemptionSpec
<1>1. Init => RedemptionInit
  BY DEF Init
<1>2. [Next]_vars => [RedemptionNext]_redemptionVars
  BY DEF Next, vars
<1> QED
  BY <1>1, <1>2, PTL DEF Spec, RedemptionSpec

\* ... and dividends as they do alone.
THEOREM ImplementsDividends == Spec => DividendSpec
<1>1. Init => DividendInit
  BY DEF Init
<1>2. [Next]_vars => [DividendNext]_dividendVars
  BY DEF Next, vars
<1> QED
  BY <1>1, <1>2, PTL DEF Spec, DividendSpec

\* Every request is admitted, and charged, by one rule that was active once.
THEOREM RequestsAreAdmitted == Spec => []AdmittedByOneRule
<1>1. RedemptionInv => AdmittedByOneRule
  BY DEF RedemptionInv
<1> QED
  BY <1>1, ImplementsRedemption, RedemptionInvariant, PTL

\* Nothing is shipped or completed that was not approved, whatever verdicts race.
THEOREM NothingUnapprovedLeaves == Spec => []NothingLeavesUnapproved
<1>1. RedemptionInv => NothingLeavesUnapproved
  BY DEF RedemptionInv
<1> QED
  BY <1>1, ImplementsRedemption, RedemptionInvariant, PTL

\* Terms, dates and the end of pending are never taken back.
THEOREM HistoryIsKept == Spec => RequestsKeepTheirHistory
<1> DEFINE Kept == [\A r \in DOMAIN requests : KeptRow(requests[r], requests'[r])]_redemptionVars
<1>1. RedemptionInv /\ [RedemptionNext]_redemptionVars => Kept
  BY RedemptionAssumption, StepKeepsRows
<1>2. Kept => [\A r \in DOMAIN requests :
          LET before == requests[r]
              after  == requests'[r]
          IN  /\ after = [before EXCEPT !.status = after.status, !.approved = after.approved,
                             !.completed = after.completed, !.tracked = after.tracked]
              /\ before.approved => after.approved
              /\ before.completed => after.completed
              /\ before.tracked => after.tracked
              /\ before.status # "pending" => after.status # "pending"]_redemptionVars
  BY DEF KeptRow
<1> QED
  BY <1>1, <1>2, ImplementsRedemption, RedemptionInvariant, PTL
     DEF RedemptionSpec, RequestsKeepTheirHistory

\* No period counts as paid before its records are committed.
THEOREM PaidPeriodsRecorded == Spec => []PaidPeriodsAreRecorded
<1>1. DividendInv => PaidPeriodsAreRecorded
  BY DEF DividendInv
<1> QED
  BY <1>1, ImplementsDividends, DividendInvariant, PTL

\* Racing payments exceed a plan by fewer periods than there are workers.
THEOREM OverpaymentBounded == Spec => []OverpaymentIsBounded
<1>1. DividendInv => OverpaymentIsBounded
  BY DEF DividendInv
<1> QED
  BY <1>1, ImplementsDividends, DividendInvariant, PTL

\* No row of an account shows more interest than it has earned.
THEOREM InterestIsEarned == Spec => []NoInterestIsInvented
<1>1. DividendInv => NoInterestIsInvented
  BY DEF DividendInv
<1> QED
  BY <1>1, ImplementsDividends, DividendInvariant, PTL

\* The tables and the workers of the two packages keep their types.
THEOREM TypeCorrect == Spec => []TypeOK
<1>1. RedemptionInv /\ DividendInv => TypeOK
  BY DEF RedemptionInv, DividendInv, TypeOK
<1> QED
  BY <1>1, ImplementsRedemption, RedemptionInvariant, ImplementsDividends, DividendInvariant, PTL

-----------------------------------------------------------------------------
(* Calls served one after the other *)

\* What a lone desk is about to write is a verdict the row still admits.
VerdictsAreCurrent ==
    \A d \in Desks :
        desk[d].step = "updateRequest" => Judgeable(requests[desk[d].request], desk[d].verdict)

\* The message "request is not in pending status" (service.go:110 and 134) is right of one
\* call at a time: only pending requests are approved or rejected, whatever calls fail.
THEOREM OneDeskJudgesPending ==
    ASSUME \A d, e \in Desks : d = e
    PROVE  Spec => OnlyPendingIsJudged
<1> DEFINE Inv == RedemptionInv /\ VerdictsAreCurrent
           Pending == \A r \in DOMAIN requests :
              requests'[r].status # requests[r].status /\ requests'[r].status \in {"approved", "rejected"}
                  => requests[r].status = "pending"
<1>1. RedemptionInit => Inv
  BY RedemptionAssumption, RedemptionInitInv DEF RedemptionInit, VerdictsAreCurrent, Idle
<1>2. Inv /\ [RedemptionNext]_redemptionVars => Inv'
  <2> SUFFICES ASSUME Inv, [RedemptionNext]_redemptionVars, NEW d \in Desks,
                      desk'[d].step = "updateRequest"
               PROVE  Judgeable(requests[desk[d].request], desk[d].verdict)'
    BY RedemptionAssumption, RedemptionNextKeepsInv DEF VerdictsAreCurrent
  <2>1. desk \in [Desks -> Task] /\ \A e \in Desks : e = d
    BY DEF RedemptionInv, RedemptionTypeOK
  <2>2. ASSUME NEW request \in DOMAIN requests, NEW verdict \in Verdicts,
               ReadRequest(d, request, verdict)
        PROVE  Judgeable(requests[desk[d].request], desk[d].verdict)'
    BY <2>1, <2>2 DEF ReadRequest
  <2>3. CASE UNCHANGED redemptionVars
    BY <2>3 DEF redemptionVars, VerdictsAreCurrent
  <2>4. CASE desk'[d] = Idle
    BY <2>4 DEF Idle
  <2>5. ASSUME NEW asset \in Assets, NEW type \in Types, NEW amount \in Amounts,
               ReadRuleForRequest(d, asset, type, amount)
        PROVE  FALSE
    BY <2>1, <2>5 DEF ReadRuleForRequest
  <2>6. ASSUME NEW asset \in Assets, NEW rule \in Rules, ReadRule(d, asset, rule)
        PROVE  FALSE
    BY <2>1, <2>6 DEF ReadRule
  <2>7. InsertRequest(d) \/ UpdateRequest(d) \/ InsertRule(d) \/ UpdateRule(d) \/ CallFails(d)
           => desk'[d] = Idle
    BY <2>1 DEF InsertRequest, UpdateRequest, InsertRule, UpdateRule, WriteRule, CallFails
  <2> QED
    BY <2>1, <2>2, <2>3, <2>4, <2>5, <2>6, <2>7
       DEF RedemptionNext, SubmitRequest, JudgeRequest, UpsertRule
<1>3. Inv /\ [RedemptionNext]_redemptionVars => [Pending]_redemptionVars
  <2> SUFFICES ASSUME Inv, RedemptionNext, NEW r \in DOMAIN requests,
                      requests'[r].status # requests[r].status,
                      requests'[r].status \in {"approved", "rejected"}
               PROVE  requests[r].status = "pending"
    OBVIOUS
  <2>1. requests \in Seq(Request) /\ requests[r] \in Request
    BY DEF RedemptionInv, RedemptionTypeOK
  <2>2. ASSUME NEW d \in Desks, InsertRequest(d) PROVE requests'[r] = requests[r]
    BY <2>1, <2>2 DEF InsertRequest
  <2>3. ASSUME NEW d \in Desks, UpdateRequest(d) PROVE requests[r].status = "pending"
    <3>1. requests'[r] = IF r = desk[d].request THEN Judged(requests[r], desk[d].verdict)
                         ELSE requests[r]
      BY <2>1, <2>3 DEF UpdateRequest
    <3>2. r = desk[d].request /\ desk[d].verdict \in {"approved", "rejected"}
      BY <2>1, <3>1 DEF Judged, Request
    <3> QED
      BY <2>3, <3>2 DEF UpdateRequest, VerdictsAreCurrent, Judgeable
  <2>4. \/ requests' = requests
        \/ \E d \in Desks : InsertRequest(d) \/ UpdateRequest(d)
    BY DEF RedemptionNext, SubmitRequest, JudgeRequest, UpsertRule, InsertRule, UpdateRule, WriteRule,
           CallFails, ReadRuleForRequest, ReadRequest, ReadRule
  <2> QED
    BY <2>2, <2>3, <2>4
<1> QED
  BY <1>1, <1>2, <1>3, ImplementsRedemption, PTL DEF RedemptionSpec, OnlyPendingIsJudged

\* "all periods already paid" (service.go:108) is right of one call at a time: no more
\* periods are paid than planned.
THEOREM OnePayerPaysThePlan ==
    ASSUME \A v, w \in Payers : v = w
    PROVE  Spec => []PlansAreNotOverpaid
<1>1. Cardinality(Payers) \in {0, 1}
  <2>1. CASE Payers = {}
    BY <2>1, FS_EmptySet
  <2>2. ASSUME NEW w \in Payers PROVE Cardinality(Payers) = 1
    <3>1. Payers = {w}
      OBVIOUS
    <3> QED
      BY <3>1, FS_Singleton
  <2> QED
    BY <2>1, <2>2
<1>2. DividendInv => PlansAreNotOverpaid
  <2> SUFFICES ASSUME DividendInv, NEW p \in DOMAIN plans
               PROVE  plans[p].paid <= plans[p].total
    BY DEF PlansAreNotOverpaid
  <2>1. plans[p].paid \in Nat /\ plans[p].total \in Nat
    <3>1. plans[p] \in Plan /\ Totals \subseteq Nat
      BY DividendAssumption DEF DividendAssumption, DividendInv, DividendTypeOK
    <3> QED
      BY <3>1 DEF Plan
  <2>2. Cardinality(Paying(p)) \in Nat
    BY DividendAssumption, FS_Subset, FS_CardinalityType DEF Paying, DividendAssumption
  <2>3. plans[p].paid + Cardinality(Paying(p)) <= plans[p].total + Cardinality(Payers) - 1
    BY DEF DividendInv, OverpaymentIsBounded
  <2> QED
    BY <1>1, <2>1, <2>2, <2>3
<1> QED
  BY <1>2, ImplementsDividends, DividendInvariant, PTL
=============================================================================
