----------------------------- MODULE Dividends ------------------------------
(***************************************************************************)
(* backend/internal/dividend: plans of dividends or interest, the records  *)
(* of the periods paid, and the interest that accrues to a user under a    *)
(* plan.  A worker is the goroutine of a request, with one action per SQL  *)
(* statement; only the records of one payment are inserted in a            *)
(* transaction.  Paying and accruing are open to every authenticated user  *)
(* (cmd/api/main.go:377-378), so calls of one plan do race.                *)
(*                                                                         *)
(* Amounts of dividends come with the request and are not modelled.  Of    *)
(* interest the model keeps the cents, the unit a day's interest is        *)
(* rounded to; a negative principal, which nothing refuses, is left out.   *)
(***************************************************************************)
EXTENDS Integers, Sequences, FiniteSets

CONSTANTS
    Holders,      \* the users a request names
    Lists,        \* the sets of holders a payment names, maybe nobody
    Periods,      \* the period numbers a request names; only 0 is refused
    Totals,       \* the total_periods of the plans
    Interests,    \* cents of a day's interest: principal * rate / 36500, rounded
    Payers,       \* workers of this package
    MaxPlans,     \* bounds of the model: on dividend_plans,
    MaxPayments,  \* on the payments committed,
    MaxEarned     \* and on the interest a holder earns under a plan

ASSUME DividendAssumption ==
    /\ IsFiniteSet(Payers)
    /\ Lists \subseteq SUBSET Holders
    /\ Periods \subseteq Int
    /\ Totals \subseteq Nat \ {0}     \* CreatePlan refuses the others
    /\ Interests \subseteq Nat
    /\ MaxPlans \in Nat
    /\ MaxPayments \in Nat
    /\ MaxEarned \in Nat

VARIABLES
    plans,      \* dividend_plans
    payments,   \* dividend_records, grouped by the transaction that inserted them
    accruals,   \* interest_accruals, by rowid
    payer,      \* what each worker is doing
    earned      \* history: the interest of the calls that reported success

dividendVars == <<plans, payments, accruals, payer, earned>>

-----------------------------------------------------------------------------
\* "bonus" is declared too and treated like "cash"
Kinds == {"cash", "interest"}

\* the status is written by CreatePlan and by nothing else
Plan == [kind : Kinds, total : Totals, paid : Nat, status : {"pending"}]

\* an empty list of calculations commits a transaction without a record
Payment == [plan : Nat \ {0}, period : Periods, holders : Lists]

Accrual == [plan : 1 .. MaxPlans, holder : Holders, cents : Nat]

Accounts == (1 .. MaxPlans) \X Holders
AccountOf(accrual) == <<accrual.plan, accrual.holder>>

NoTask == [step |-> "idle"]
Payout ==
    {NoTask}
    \cup [step : {"insertRecords"}, payment : Payment]
    \cup [step : {"incrementPaid"}, plan : Nat \ {0}]
    \cup [step : {"readAccrual"}, plan : 1 .. MaxPlans, holder : Holders, day : Interests]
    \cup [step : {"findRow", "insertAccrual"}, accrual : Accrual, day : Interests]
    \cup [step : {"updateAccrual"}, row : Nat \ {0}, accrual : Accrual, day : Interests]

DividendTypeOK ==
    /\ plans \in Seq(Plan)
    /\ payments \in Seq(Payment)
    /\ accruals \in Seq(Accrual)
    /\ payer \in [Payers -> Payout]
    /\ earned \in [Accounts -> Nat]

DividendInit ==
    /\ plans = <<>>
    /\ payments = <<>>
    /\ accruals = <<>>
    /\ payer = [w \in Payers |-> NoTask]
    /\ earned = [account \in Accounts |-> 0]

-----------------------------------------------------------------------------
CreatePlan(kind, total) ==
    /\ Len(plans) < MaxPlans    \* bound of the model
    /\ plans' = Append(plans, [kind |-> kind, total |-> total, paid |-> 0, status |-> "pending"])
    /\ UNCHANGED <<payments, accruals, payer, earned>>

-----------------------------------------------------------------------------
(* PayDividend *)

ReadPlanLate(w, p, period, holders) ==   \* mutant: lets one period too many pass
    /\ payer[w] = NoTask
    /\ plans[p].paid <= plans[p].total
    /\ payer' = [payer EXCEPT ![w] = [step |-> "insertRecords",
          payment |-> [plan |-> p, period |-> period, holders |-> holders]]]
    /\ UNCHANGED <<plans, payments, accruals, earned>>

ReadPlan(w, p, period, holders) ==
    /\ payer[w] = NoTask
    /\ plans[p].paid < plans[p].total
    /\ payer' = [payer EXCEPT ![w] = [step |-> "insertRecords",
          payment |-> [plan |-> p, period |-> period, holders |-> holders]]]
    /\ UNCHANGED <<plans, payments, accruals, earned>>

InsertRecordsUnchecked(w) ==   \* mutant: drops the error of the transaction
    /\ payer[w].step = "insertRecords"
    /\ Len(payments) < MaxPayments
    /\ payments' \in {payments, Append(payments, payer[w].payment)}
    /\ payer' = [payer EXCEPT ![w] = [step |-> "incrementPaid", plan |-> payer[w].payment.plan]]
    /\ UNCHANGED <<plans, accruals, earned>>

\* one transaction: all records of the payment or none
InsertRecords(w) ==
    /\ payer[w].step = "insertRecords"
    /\ Len(payments) < MaxPayments    \* bound of the model
    /\ payments' = Append(payments, payer[w].payment)
    /\ payer' = [payer EXCEPT ![w] = [step |-> "incrementPaid", plan |-> payer[w].payment.plan]]
    /\ UNCHANGED <<plans, accruals, earned>>

\* SET paid_periods = paid_periods + 1
IncrementPaid(w) ==
    /\ payer[w].step = "incrementPaid"
    /\ plans' = [plans EXCEPT ![payer[w].plan].paid = @ + 1]
    /\ payer' = [payer EXCEPT ![w] = NoTask]
    /\ UNCHANGED <<payments, accruals, earned>>

PayDividend(w) ==
    \/ \E p \in DOMAIN plans, period \in Periods, holders \in Lists :
          ReadPlan(w, p, period, holders)
    \/ InsertRecords(w)
    \/ IncrementPaid(w)

-----------------------------------------------------------------------------
(* AccrueInterest *)

\* the row FindAccrualByPlanAndUser returns, if there is one: nothing keeps a second
\* row of the same plan and holder out, and the first one is found
Rows(p, holder) == {i \in DOMAIN accruals : accruals[i].plan = p /\ accruals[i].holder = holder}
FoundRow(p, holder) == {i \in Rows(p, holder) : \A j \in Rows(p, holder) : i <= j}

ReadInterestPlan(w, p, holder, day) ==
    /\ payer[w] = NoTask
    /\ plans[p].kind = "interest"
    /\ payer' = [payer EXCEPT ![w] =
          [step |-> "readAccrual", plan |-> p, holder |-> holder, day |-> day]]
    /\ UNCHANGED <<plans, payments, accruals, earned>>

\* What the row will hold is computed from what it holds now.  A SELECT that fails is
\* taken for one that finds nothing, here and in FindRow.
ReadAccrual(w) ==
    LET p == payer[w].plan
        holder == payer[w].holder
        Accrued(cents) == [step |-> "findRow", day |-> payer[w].day,
                           accrual |-> [plan |-> p, holder |-> holder, cents |-> cents]]
    IN  /\ payer[w].step = "readAccrual"
        /\ \/ payer' = [payer EXCEPT ![w] = Accrued(payer[w].day)]
           \/ \E row \in FoundRow(p, holder) :
                 payer' = [payer EXCEPT ![w] = Accrued(accruals[row].cents + payer[w].day)]
        /\ UNCHANGED <<plans, payments, accruals, earned>>

\* UpsertAccrual reads once more, to choose between INSERT and UPDATE
FindRow(w) ==
    LET a == payer[w].accrual
        day == payer[w].day
    IN  /\ payer[w].step = "findRow"
        /\ \/ payer' = [payer EXCEPT ![w] = [step |-> "insertAccrual", accrual |-> a, day |-> day]]
           \/ \E row \in FoundRow(a.plan, a.holder) :
                 payer' = [payer EXCEPT ![w] =
                    [step |-> "updateAccrual", row |-> row, accrual |-> a, day |-> day]]
        /\ UNCHANGED <<plans, payments, accruals, earned>>

Succeeds(w) ==
    LET day == payer[w].day
        account == AccountOf(payer[w].accrual)
    IN  /\ earned[account] + day <= MaxEarned    \* bound of the model
        /\ earned' = [earned EXCEPT ![account] = @ + day]
        /\ payer' = [payer EXCEPT ![w] = NoTask]
        /\ UNCHANGED <<plans, payments>>

InsertAccrual(w) ==
    /\ payer[w].step = "insertAccrual"
    /\ accruals' = Append(accruals, payer[w].accrual)
    /\ Succeeds(w)

UpdateAccrualAdding(w) ==   \* mutant: SET accrued_amount = accrued_amount + the computed amount
    /\ payer[w].step = "updateAccrual"
    /\ accruals' = [accruals EXCEPT ![payer[w].row].cents = @ + payer[w].accrual.cents]
    /\ Succeeds(w)

UpdateAccrual(w) ==
    /\ payer[w].step = "updateAccrual"
    /\ accruals' = [accruals EXCEPT ![payer[w].row].cents = payer[w].accrual.cents]
    /\ Succeeds(w)

AccrueInterest(w) ==
    \/ \E p \in DOMAIN plans, holder \in Holders, day \in Interests :
          ReadInterestPlan(w, p, holder, day)
    \/ ReadAccrual(w)
    \/ FindRow(w)
    \/ InsertAccrual(w)
    \/ UpdateAccrual(w)

-----------------------------------------------------------------------------
\* A statement fails, or the process dies before it.  A payment whose records are in
\* is reported as an error when its increment fails.
PayoutFails(w) ==
    /\ payer[w] # NoTask
    /\ payer' = [payer EXCEPT ![w] = NoTask]
    /\ UNCHANGED <<plans, payments, accruals, earned>>

DividendNext ==
    \/ \E kind \in Kinds, total \in Totals : CreatePlan(kind, total)
    \/ \E w \in Payers : PayDividend(w) \/ AccrueInterest(w) \/ PayoutFails(w)

DividendSpec == DividendInit /\ [][DividendNext]_dividendVars

-----------------------------------------------------------------------------
\* workers between the records and the counter of a plan, and past the check of its counter
Increments(t, p) == t.step = "incrementPaid" /\ t.plan = p
Pays(t, p) == Increments(t, p) \/ (t.step = "insertRecords" /\ t.payment.plan = p)

PaymentsOf(p) == {i \in DOMAIN payments : payments[i].plan = p}
Incrementing(p) == {w \in Payers : Increments(payer[w], p)}
Paying(p) == {w \in Payers : Pays(payer[w], p)}

\* No period counts as paid before its records are committed, whatever fails in
\* between and however payments race: the counter and the increments under way never
\* exceed the payments in the table (PayDividend, service.go:126-133).
PaidPeriodsAreRecorded ==
    \A p \in DOMAIN plans :
        plans[p].paid + Cardinality(Incrementing(p)) <= Cardinality(PaymentsOf(p))

\* Racing payments may exceed the plan, since all of them can pass the check before
\* one increments, but only by as many as can race (service.go:107 and 131).
OverpaymentIsBounded ==
    \A p \in DOMAIN plans :
        plans[p].paid + Cardinality(Paying(p)) <= plans[p].total + Cardinality(Payers) - 1

\* Racing calls and failing reads may lose interest, or leave two rows of one account,
\* but no row ever shows more than the calls that reported success have earned its
\* holder under its plan (AccrueInterest, service.go:75-97, and UpsertAccrual).
NoInterestIsInvented ==
    \A i \in DOMAIN accruals : accruals[i].cents <= earned[AccountOf(accruals[i])]

-----------------------------------------------------------------------------
(* What messages, comments and documents say, and the code does not do *)

\* "all periods already paid", service.go:108: no more periods are paid than planned.
PlansAreNotOverpaid == \A p \in DOMAIN plans : plans[p].paid <= plans[p].total

\* "更新已付期数" (updates the number of periods paid), service.go:130: as many different
\* periods were paid as the counter says.
PaidCountsPeriods ==
    \A p \in DOMAIN plans :
        plans[p].paid <= Cardinality({payments[i].period : i \in PaymentsOf(p)})

\* "计息累计" (interest accrues), service.go:62: with nobody at work, the row of an account
\* that is found shows all the interest it was earned.
InterestIsComplete ==
    (\A w \in Payers : payer[w] = NoTask) =>
        \A p \in DOMAIN plans, holder \in Holders : \A i \in FoundRow(p, holder) :
            accruals[i].cents = earned[<<p, holder>>]

\* "状态流转（发放中/已完成）" (the status goes from paying to finished),
\* docs/MANUAL_QA.md:36: a plan whose periods are all paid is not pending.
FinishedPlansAreMarked ==
    \A p \in DOMAIN plans : plans[p].paid >= plans[p].total => plans[p].status # "pending"
=============================================================================
