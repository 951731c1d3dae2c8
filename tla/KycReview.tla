----------------------------- MODULE KycReview -----------------------------
(***************************************************************************)
(* An investor's way to the whitelist: backend/internal/kyc.  A submission *)
(* is screened and stored; an approval is written to the database and then *)
(* carried to the chain in two transactions, registerIdentity and          *)
(* addToWhitelist, through the operator that ChainCall describes.          *)
(*                                                                         *)
(* A form is one call of Submit, a review one call of Review; each runs on *)
(* a goroutine of its own, one action per SQL statement or chain call.  A  *)
(* submission is its position in kyc_submissions.                          *)
(***************************************************************************)
EXTENDS Naturals, Sequences, FiniteSets

CONSTANTS
    Users,
    Wallets,
    NoWallet,
    Forms,    \* calls of POST /api/kyc/submit
    Reviews   \* calls of POST /api/admin/kyc/review

ASSUME KycAssumption == NoWallet \notin Wallets

VARIABLES
    submissions,  \* kyc_submissions, by submitted_at
    accredited,   \* the users with a row in accreditation_checks
    wallet,       \* users.wallet_address
    form,         \* where each form is, and whom it is for
    review,       \* where each review is
    kycCall, kycEffect,  \* the chain transactions of the reviews
    verified,     \* IdentityRegistry: the registered wallets
    listed,       \* ComplianceModule: the whitelisted wallets
    approvals,    \* history: the submissions that were ever approved
    bound         \* history: which wallets each user ever bound

kycTables == <<submissions, accredited, wallet>>
kycChain == <<kycCall, kycEffect, verified, listed>>
kycHistory == <<approvals, bound>>
kycVars == <<kycTables, form, review, kycChain, kycHistory>>

-----------------------------------------------------------------------------
\* "not_submitted" and "expired" are declared too and never assigned
KycStatus == {"pending", "approved", "rejected"}

Submission == [user : Users, status : KycStatus]

FormStages == {"idle", "clean", "hit", "stored", "stopped", "ended"}

ReviewStages == {"idle", "found", "approved", "bound", "registering", "registered",
                 "listing", "cleared", "ended"}

Identity(r) == <<r, "identity">>
Whitelist(r) == <<r, "whitelist">>

Chain == INSTANCE ChainCall WITH
    Calls <- Reviews \X {"identity", "whitelist"}, call <- kycCall, effect <- kycEffect

KycInit ==
    /\ submissions = <<>>
    /\ accredited = {}
    /\ wallet = [u \in Users |-> NoWallet]
    /\ form \in [Forms -> [at : {"idle"}, user : Users, row : {0}]]
    /\ review = [r \in Reviews |-> [at |-> "idle", row |-> 0, wallet |-> NoWallet]]
    /\ Chain!Init
    /\ verified = {} /\ listed = {}
    /\ approvals = {} /\ bound = {}

-----------------------------------------------------------------------------
\* Service.Submit

OfUser(u) == {i \in DOMAIN submissions : submissions[i].user = u}

\* the latest submission of a user is the one looked at
HasPending(u) ==
    \E i \in OfUser(u) : submissions[i].status = "pending" /\ \A j \in OfUser(u) : j <= i

\* the name matches the sanctions list or the country is restricted, or neither
Verdicts == {"hit", "clean"}

\* A pending submission is looked for, and a failing read counts as none; then the name
\* and the country are screened.
Screen(f) ==
    /\ form[f].at = "idle"
    /\ \E pending \in {HasPending(form[f].user), FALSE}, verdict \in Verdicts :
           form' = [form EXCEPT ![f].at = IF pending THEN "ended" ELSE verdict]
    /\ UNCHANGED <<kycTables, review, kycChain, kycHistory>>

CreateSubmission(f) ==
    /\ form[f].at \in {"clean", "hit"}
    /\ submissions' = Append(submissions, [user |-> form[f].user, status |-> "pending"])
    /\ form' = [form EXCEPT ![f].at = IF @ = "hit" THEN "stopped" ELSE "stored",
                            ![f].row = Len(submissions')]
    /\ UNCHANGED <<accredited, wallet, review, kycChain, kycHistory>>

\* the error of the UPDATE is dropped: a failure leaves the row pending
RejectHit(f) ==
    /\ form[f].at = "stopped"
    /\ \/ submissions' = [submissions EXCEPT ![form[f].row].status = "rejected"]
       \/ UNCHANGED submissions
    /\ form' = [form EXCEPT ![f].at = "ended"]
    /\ UNCHANGED <<accredited, wallet, review, kycChain, kycHistory>>

\* with an accreditation level or without
SaveAccreditation(f) ==
    /\ form[f].at = "stored"
    /\ accredited' \in {accredited, accredited \cup {form[f].user}}
    /\ form' = [form EXCEPT ![f].at = "ended"]
    /\ UNCHANGED <<submissions, wallet, review, kycChain, kycHistory>>

\* any statement of a form may fail, and the server may die
FormStops(f) ==
    /\ form[f].at \notin {"idle", "ended"}
    /\ form' = [form EXCEPT ![f].at = "ended"]
    /\ UNCHANGED <<kycTables, review, kycChain, kycHistory>>

Submit(f) ==
    Screen(f) \/ CreateSubmission(f) \/ RejectHit(f) \/ SaveAccreditation(f) \/ FormStops(f)

-----------------------------------------------------------------------------
\* Service.Reject: one UPDATE, whatever the status

Reject(r) ==
    /\ review[r].at = "idle"
    /\ \E i \in DOMAIN submissions :
           submissions' = [submissions EXCEPT ![i].status = "rejected"]
    /\ review' = [review EXCEPT ![r].at = "ended"]
    /\ UNCHANGED <<accredited, wallet, form, kycChain, kycHistory>>

\* Service.Approve: the row is read for its user; its status is not looked at

FindByID(r) ==
    /\ review[r].at = "idle"
    /\ \E i \in DOMAIN submissions :
           review' = [review EXCEPT ![r] = [at |-> "found", row |-> i, wallet |-> NoWallet]]
    /\ UNCHANGED <<kycTables, form, kycChain, kycHistory>>

\* mutant: the error of the UPDATE is dropped
MarkApprovedOrNot(r) ==
    /\ review[r].at = "found"
    /\ review' = [review EXCEPT ![r].at = "approved"]
    /\ \/ /\ submissions' = [submissions EXCEPT ![review[r].row].status = "approved"]
          /\ approvals' = approvals \cup {review[r].row}
       \/ UNCHANGED <<submissions, approvals>>
    /\ UNCHANGED <<accredited, wallet, form, kycChain, bound>>

MarkApproved(r) ==
    /\ review[r].at = "found"
    /\ submissions' = [submissions EXCEPT ![review[r].row].status = "approved"]
    /\ approvals' = approvals \cup {review[r].row}
    /\ review' = [review EXCEPT ![r].at = "approved"]
    /\ UNCHANGED <<accredited, wallet, form, kycChain, bound>>

\* no wallet, or none that can be read: the chain is skipped
GetUserWallet(r) ==
    /\ review[r].at = "approved"
    /\ LET w == wallet[submissions[review[r].row].user]
       IN  review' = [review EXCEPT ![r].at = IF w = NoWallet THEN "ended" ELSE "bound",
                                    ![r].wallet = w]
    /\ UNCHANGED <<kycTables, form, kycChain, kycHistory>>

\* onChainRegister: a read that fails counts as "not yet"

\* mutant: a registered wallet needs nothing more
RegisterOrLeave(r) ==
    /\ review[r].at = "bound"
    /\ IF review[r].wallet \in verified
       THEN review' = [review EXCEPT ![r].at = "cleared"] /\ UNCHANGED <<kycCall, kycEffect>>
       ELSE review' = [review EXCEPT ![r].at = "registering"] /\ Chain!Begin(Identity(r))
    /\ UNCHANGED <<kycTables, form, verified, listed, kycHistory>>

RegisterIdentity(r) ==
    /\ review[r].at = "bound"
    /\ \/ /\ review[r].wallet \in verified
          /\ review' = [review EXCEPT ![r].at = "registered"]
          /\ UNCHANGED <<kycCall, kycEffect>>
       \/ /\ review' = [review EXCEPT ![r].at = "registering"]
          /\ Chain!Begin(Identity(r))
    /\ UNCHANGED <<kycTables, form, verified, listed, kycHistory>>

AddToWhitelist(r) ==
    /\ review[r].at = "registered"
    /\ \/ /\ review[r].wallet \in listed
          /\ review' = [review EXCEPT ![r].at = "cleared"]
          /\ UNCHANGED <<kycCall, kycEffect>>
       \/ /\ review' = [review EXCEPT ![r].at = "listing"]
          /\ Chain!Begin(Whitelist(r))
    /\ UNCHANGED <<kycTables, form, verified, listed, kycHistory>>

\* The call is answered with success; the second wait for the receipt may still fail,
\* and so may the call: then the error is logged and the review answers success.
ChainAnswers(r, stage, c, next) ==
    /\ review[r].at = stage
    /\ \/ Chain!Succeed(c) /\ review' = [review EXCEPT ![r].at = next]
       \/ Chain!Succeed(c) /\ review' = [review EXCEPT ![r].at = "ended"]
       \/ Chain!Fail(c) /\ review' = [review EXCEPT ![r].at = "ended"]
    /\ UNCHANGED <<kycTables, form, verified, listed, kycHistory>>

\* a statement fails, or the server dies; what was sent to the chain stays sent
ReviewStops(r) ==
    /\ review[r].at \notin {"idle", "cleared", "ended"}
    /\ review' = [review EXCEPT ![r].at = "ended"]
    /\ UNCHANGED <<kycTables, form, kycChain, kycHistory>>

Approve(r) ==
    \/ FindByID(r) \/ MarkApproved(r) \/ GetUserWallet(r)
    \/ RegisterIdentity(r) \/ ChainAnswers(r, "registering", Identity(r), "registered")
    \/ AddToWhitelist(r) \/ ChainAnswers(r, "listing", Whitelist(r), "cleared")
    \/ ReviewStops(r)

-----------------------------------------------------------------------------
\* the contracts execute what was sent

MineIdentity(r) ==
    /\ review[r].wallet \notin verified
    /\ Chain!TakeEffect(Identity(r))
    /\ verified' = verified \cup {review[r].wallet}
    /\ UNCHANGED <<kycTables, form, review, listed, kycHistory>>

MineWhitelist(r) ==
    /\ review[r].wallet \in verified
    /\ Chain!TakeEffect(Whitelist(r))
    /\ listed' = listed \cup {review[r].wallet}
    /\ UNCHANGED <<kycTables, form, review, verified, kycHistory>>

\* user.Service.BindWallet, after the signature was checked
BindWallet(u, w) ==
    /\ wallet' = [wallet EXCEPT ![u] = w]
    /\ bound' = bound \cup {<<u, w>>}
    /\ UNCHANGED <<submissions, accredited, form, review, kycChain, approvals>>

KycNext ==
    \/ \E f \in Forms : Submit(f)
    \/ \E r \in Reviews : Approve(r) \/ Reject(r) \/ MineIdentity(r) \/ MineWhitelist(r)
    \/ \E u \in Users, w \in Wallets : BindWallet(u, w)

-----------------------------------------------------------------------------
KycTypeOK ==
    /\ submissions \in Seq(Submission)
    /\ accredited \subseteq Users
    /\ wallet \in [Users -> Wallets \cup {NoWallet}]
    /\ form \in [Forms -> [at : FormStages, user : Users, row : Nat]]
    /\ review \in [Reviews -> [at : ReviewStages, row : Nat, wallet : Wallets \cup {NoWallet}]]
    /\ kycCall \in [Reviews \X {"identity", "whitelist"} -> {"idle", "pending", "ok", "failed"}]
    /\ kycEffect \in [Reviews \X {"identity", "whitelist"} -> BOOLEAN]
    /\ verified \subseteq Wallets /\ listed \subseteq Wallets
    /\ approvals \subseteq Nat /\ bound \subseteq Users \X Wallets

\* A wallet that the contracts clear belongs, or belonged, to a user one of whose
\* submissions was approved before: through failing statements, verdicts that race, wallets
\* bound anew and transactions that are mined after the server gave them up or died.
ClearedWalletsWereApproved ==
    \A w \in verified \cup listed : \E i \in approvals : <<submissions[i].user, w>> \in bound

\* onChainRegister reports success ("whitelisted on-chain", kyc/service.go:194) only when
\* the wallet is registered and whitelisted, whoever of two racing reviews did either, and
\* whatever an earlier one left half done (kyc/service.go:171).
SuccessMeansCleared ==
    \A r \in Reviews : review[r].at = "cleared" => review[r].wallet \in verified \cap listed

\* README.md:39 says that an approval registers and whitelists the investor.  An approval
\* whose chain calls fail, or whose user has no wallet yet, is answered as a success.
ApprovalClears ==
    \A r \in Reviews :
        (review[r].at = "ended" /\ review[r].row \in approvals)
            => review[r].wallet \in verified \cap listed

\* kyc/service.go:54 answers "already submitted" to a user with a pending submission.  Two
\* forms that both looked before either was stored leave two.
OneOpenSubmission ==
    \A u \in Users : Cardinality({i \in OfUser(u) : submissions[i].status = "pending"}) <= 1

\* kyc/service.go:73 rejects a hit at once.  The UPDATE may fail unnoticed, or the server
\* may die before it.
HitsAreRejected ==
    [][\A f \in Forms : (form[f].at = "stopped" /\ form'[f].at = "ended")
           => submissions'[form[f].row].status = "rejected"]_kycVars
=============================================================================
