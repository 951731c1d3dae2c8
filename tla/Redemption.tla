----------------------------- MODULE Redemption -----------------------------
(***************************************************************************)
(* backend/internal/redeem: investors ask for redemption under the rule of *)
(* an asset, administrators judge, ship and complete the requests and edit *)
(* the rules.  As in TradeMatching a worker is the goroutine of a request, *)
(* there is one action per SQL statement, and no transaction: every call   *)
(* reads one row, decides, and writes.  The writes carry no condition on   *)
(* what was read.                                                          *)
(*                                                                         *)
(* A request is named by its position in redeem_requests.  Its values are  *)
(* products of numbers the caller sends; what the code takes from the rule *)
(* is the fee rate, which is kept.  A missing max_amount is one above all  *)
(* amounts.  lock_period_days, physical_min_unit and processing_days are   *)
(* stored and never read, hence left out.                                  *)
(***************************************************************************)
EXTENDS Integers, Sequences

CONSTANTS
    Assets,
    Rules,        \* the rules administrators post
    NoRule,       \* there is no row for the asset
    Amounts,      \* what investors ask to redeem
    Desks,        \* workers of this package
    MaxRequests   \* bound of the model on redeem_requests

ASSUME RedemptionAssumption ==
    /\ Rules \subseteq [min : Nat, max : Nat, fee : Nat,
                        physical : BOOLEAN, cash : BOOLEAN, active : BOOLEAN]
    /\ NoRule \notin Rules
    /\ Amounts \subseteq Nat
    /\ MaxRequests \in Nat

VARIABLES
    requests,   \* redeem_requests
    rules,      \* redeem_rules, whose asset_id is UNIQUE
    desk,       \* what each worker is doing
    inForce     \* history: the active rules each asset has had

redemptionVars == <<requests, rules, desk, inForce>>

-----------------------------------------------------------------------------
\* any other string is accepted as a type and treated like "maturity"
Types == {"physical", "cash", "maturity"}

\* "processing", "delivered" and "cancelled" are declared too and never assigned
RequestStatus == {"pending", "approved", "shipped", "completed", "rejected"}

\* approved, completed, tracked: is approved_at, completed_at, tracking_number set?
Request == [asset : Assets, type : Types, amount : Amounts, fee : Nat,
            status : RequestStatus, approved : BOOLEAN, completed : BOOLEAN, tracked : BOOLEAN]

\* a verdict is named by the status it writes
Verdicts == {"approved", "rejected", "completed", "shipped"}

Idle == [step |-> "idle"]
Task == {Idle}
    \cup [step : {"insertRequest"}, row : Request]
    \cup [step : {"updateRequest"}, request : Nat \ {0}, verdict : Verdicts]
    \cup [step : {"insertRule", "updateRule"}, asset : Assets, rule : Rules]

RedemptionTypeOK ==
    /\ requests \in Seq(Request)
    /\ rules \in [Assets -> Rules \cup {NoRule}]
    /\ desk \in [Desks -> Task]
    /\ inForce \in [Assets -> SUBSET Rules]

RedemptionInit ==
    /\ requests = <<>>
    /\ rules = [a \in Assets |-> NoRule]
    /\ desk = [d \in Desks |-> Idle]
    /\ inForce = [a \in Assets |-> {}]

-----------------------------------------------------------------------------
Active(asset) == rules[asset] # NoRule /\ rules[asset].active

Admits(rule, type, amount) ==
    /\ type = "physical" => rule.physical
    /\ type = "cash" => rule.cash
    /\ rule.min <= amount /\ amount <= rule.max

\* SubmitRequest: read the rule and check, then insert the request
ReadRuleForRequest(d, asset, type, amount) ==
    /\ desk[d] = Idle
    /\ Active(asset)
    /\ Admits(rules[asset], type, amount)
    /\ desk' = [desk EXCEPT ![d] =
          [step |-> "insertRequest",
           row |-> [asset |-> asset, type |-> type, amount |-> amount, fee |-> rules[asset].fee,
                    status |-> "pending", approved |-> FALSE, completed |-> FALSE, tracked |-> FALSE]]]
    /\ UNCHANGED <<requests, rules, inForce>>

InsertRequestAtTodaysFee(d) ==   \* mutant: the fee is read again when the row is written
    /\ desk[d].step = "insertRequest"
    /\ Len(requests) < MaxRequests
    /\ Active(desk[d].row.asset)
    /\ requests' = Append(requests, [desk[d].row EXCEPT !.fee = rules[desk[d].row.asset].fee])
    /\ desk' = [desk EXCEPT ![d] = Idle]
    /\ UNCHANGED <<rules, inForce>>

InsertRequest(d) ==
    /\ desk[d].step = "insertRequest"
    /\ Len(requests) < MaxRequests    \* bound of the model
    /\ requests' = Append(requests, desk[d].row)
    /\ desk' = [desk EXCEPT ![d] = Idle]
    /\ UNCHANGED <<rules, inForce>>

SubmitRequest(d) ==
    \/ \E asset \in Assets, type \in Types, amount \in Amounts :
          ReadRuleForRequest(d, asset, type, amount)
    \/ InsertRequest(d)

-----------------------------------------------------------------------------
JudgeableUnlessRejected(row, verdict) ==   \* mutant: a rejection is all that bars completion
    \/ verdict \in {"approved", "rejected"} /\ row.status = "pending"
    \/ verdict = "completed" /\ row.status # "rejected"
    \/ verdict = "shipped" /\ row.status = "approved" /\ row.type = "physical"

Judgeable(row, verdict) ==
    \/ verdict \in {"approved", "rejected"} /\ row.status = "pending"
    \/ verdict = "completed" /\ row.status = "approved"    \* or "processing", which no row is
    \/ verdict = "shipped" /\ row.status = "approved" /\ row.type = "physical"

JudgedFromScratch(row, verdict) ==   \* mutant: the UPDATE sets every column
    [row EXCEPT !.status = verdict,
                !.approved = (verdict = "approved"),
                !.completed = (verdict = "completed"),
                !.tracked = (verdict = "shipped")]

Judged(row, verdict) ==
    [row EXCEPT !.status = verdict,
                !.approved = row.approved \/ verdict = "approved",
                !.completed = row.completed \/ verdict = "completed",
                !.tracked = row.tracked \/ verdict = "shipped"]

\* ApproveRequest, RejectRequest, CompleteRequest, ShipPhysical: read the row and
\* check its status, then update it whatever it has become
ReadRequest(d, request, verdict) ==
    /\ desk[d] = Idle
    /\ Judgeable(requests[request], verdict)
    /\ desk' = [desk EXCEPT ![d] = [step |-> "updateRequest", request |-> request, verdict |-> verdict]]
    /\ UNCHANGED <<requests, rules, inForce>>

UpdateRequest(d) ==
    /\ desk[d].step = "updateRequest"
    /\ requests' = [requests EXCEPT ![desk[d].request] = Judged(@, desk[d].verdict)]
    /\ desk' = [desk EXCEPT ![d] = Idle]
    /\ UNCHANGED <<rules, inForce>>

JudgeRequest(d) ==
    \/ \E request \in DOMAIN requests, verdict \in Verdicts : ReadRequest(d, request, verdict)
    \/ UpdateRequest(d)

-----------------------------------------------------------------------------
ReadRuleToWriteBack(d, asset, rule) ==   \* mutant: writes the row that was found
    /\ desk[d] = Idle
    /\ \E step \in {"insertRule"} \cup (IF Active(asset) THEN {"updateRule"} ELSE {}) :
          desk' = [desk EXCEPT ![d] = [step |-> step, asset |-> asset, rule |-> rules[asset]]]
    /\ UNCHANGED <<requests, rules, inForce>>

\* UpsertRule: look for an active rule, then update its row or insert one; a SELECT
\* that fails is taken for one that finds nothing
ReadRule(d, asset, rule) ==
    /\ desk[d] = Idle
    /\ \E step \in {"insertRule"} \cup (IF Active(asset) THEN {"updateRule"} ELSE {}) :
          desk' = [desk EXCEPT ![d] = [step |-> step, asset |-> asset, rule |-> rule]]
    /\ UNCHANGED <<requests, rules, inForce>>

WriteRule(d) ==
    LET asset == desk[d].asset
        rule  == desk[d].rule
    IN  /\ rules' = [rules EXCEPT ![asset] = rule]
        /\ inForce' = IF rule.active THEN [inForce EXCEPT ![asset] = @ \cup {rule}] ELSE inForce
        /\ desk' = [desk EXCEPT ![d] = Idle]
        /\ UNCHANGED requests

\* the INSERT fails on the UNIQUE asset_id when there is a row (see CallFails)
InsertRule(d) ==
    /\ desk[d].step = "insertRule"
    /\ rules[desk[d].asset] = NoRule
    /\ WriteRule(d)

UpdateRule(d) ==
    /\ desk[d].step = "updateRule"
    /\ WriteRule(d)

UpsertRule(d) ==
    \/ \E asset \in Assets, rule \in Rules : ReadRule(d, asset, rule)
    \/ InsertRule(d)
    \/ UpdateRule(d)

-----------------------------------------------------------------------------
\* the write fails, or the process dies before it: nothing was written so far
CallFails(d) ==
    /\ desk[d] # Idle
    /\ desk' = [desk EXCEPT ![d] = Idle]
    /\ UNCHANGED <<requests, rules, inForce>>

RedemptionNext ==
    \E d \in Desks : SubmitRequest(d) \/ JudgeRequest(d) \/ UpsertRule(d) \/ CallFails(d)

RedemptionSpec == RedemptionInit /\ [][RedemptionNext]_redemptionVars

-----------------------------------------------------------------------------
\* one rule that was active once allows the type and the amount, and its fee is charged
Admitted(row) ==
    \E rule \in inForce[row.asset] :
        Admits(rule, row.type, row.amount) /\ row.fee = rule.fee

\* Every request was admitted, and is charged, by one rule that was active once, although
\* rules are edited and switched off while requests are under way (SubmitRequest,
\* service.go:55-97).
AdmittedByOneRule == \A r \in DOMAIN requests : Admitted(requests[r])

\* dates and tracking number of a row are those its status and type call for
Cleared(row) ==
    /\ row.status = "approved" \/ row.completed \/ row.tracked => row.approved
    /\ row.tracked => row.type = "physical"
    /\ row.status = "completed" => row.completed
    /\ row.status = "shipped" => row.tracked

\* Whatever verdicts race, nothing is shipped or completed that was not approved, and
\* only physical redemptions are shipped (CompleteRequest and ShipPhysical,
\* service.go:148 and 166-169).
NothingLeavesUnapproved == \A r \in DOMAIN requests : Cleared(requests[r])

\* No call changes what was asked for, takes back a date or a tracking number that was
\* given, or makes a request pending again (UpdateRequestStatus and UpdateTracking,
\* repository.go:69-111).
RequestsKeepTheirHistory ==
    [][\A r \in DOMAIN requests :
          LET before == requests[r]
              after  == requests'[r]
          IN  /\ after = [before EXCEPT !.status = after.status, !.approved = after.approved,
                             !.completed = after.completed, !.tracked = after.tracked]
              /\ before.approved => after.approved
              /\ before.completed => after.completed
              /\ before.tracked => after.tracked
              /\ before.status # "pending" => after.status # "pending"]_redemptionVars

-----------------------------------------------------------------------------
(* What the code's messages and comments say, and it does not do *)

\* "request is not in pending status", service.go:110 and 134: only pending requests are
\* approved or rejected.
OnlyPendingIsJudged ==
    [][\A r \in DOMAIN requests :
          requests'[r].status # requests[r].status /\ requests'[r].status \in {"approved", "rejected"}
              => requests[r].status = "pending"]_redemptionVars

\* "UpsertRule 创建或更新赎回规则" (creates or updates the rule), service.go:176: whoever is
\* about to insert a rule can.
UpsertCreatesOrUpdates ==
    \A d \in Desks : desk[d].step = "insertRule" => rules[desk[d].asset] = NoRule
=============================================================================
