--------------------------- MODULE ApiServerProofs ---------------------------
(***************************************************************************)
(* Theorems of KycReview, AssetIssuance, LoginGuard and EventListener,     *)
(* proved for every value of their constants, and carried over to          *)
(* ApiServer, in which the packages run side by side.                      *)
(***************************************************************************)
EXTENDS ApiServer, FiniteSetTheorems, TLAPS

-----------------------------------------------------------------------------
\* KYC

\* What a user has bound now was bound at some time.
WalletsAreBound == \A u \in Users : wallet[u] # NoWallet => <<u, wallet[u]>> \in bound

\* A review that has something for the chain: it was approved, and is for a wallet of the
\* submission's user.
Entitled(r) ==
    /\ review[r].row \in approvals
    /\ review[r].wallet \in Wallets
    /\ <<submissions[review[r].row].user, review[r].wallet>> \in bound

Early == {"idle", "found", "approved"}

ReviewIsSound(r) ==
    /\ review[r].at \in {"found", "approved"} => review[r].row \in DOMAIN submissions
    /\ review[r].at = "approved" => review[r].row \in approvals
    /\ review[r].at \in Early =>
          /\ kycCall[Identity(r)] = "idle" /\ ~kycEffect[Identity(r)]
          /\ kycCall[Whitelist(r)] = "idle" /\ ~kycEffect[Whitelist(r)]
    /\ review[r].at \notin Early \cup {"ended"} => Entitled(r)
    /\ kycCall[Identity(r)] # "idle" \/ kycCall[Whitelist(r)] # "idle" => Entitled(r)
    /\ kycEffect[Identity(r)] => review[r].wallet \in verified
    /\ kycEffect[Whitelist(r)] => review[r].wallet \in listed
    /\ review[r].at \in {"registered", "listing", "cleared"} => review[r].wallet \in verified
    /\ review[r].at = "cleared" => review[r].wallet \in listed

ReviewsAreSound == \A r \in Reviews : ReviewIsSound(r)

KycInv ==
    /\ KycTypeOK
    /\ approvals \subseteq DOMAIN submissions
    /\ WalletsAreBound
    /\ ReviewsAreSound
    /\ ClearedWalletsWereApproved

\* A verdict changes the status of at most one submission and nobody's user.
LEMMA VerdictKeepsUsers ==
    ASSUME submissions \in Seq(Submission), NEW i, NEW status \in KycStatus,
           submissions' = [submissions EXCEPT ![i].status = status]
    PROVE  /\ submissions' \in Seq(Submission)
           /\ DOMAIN submissions' = DOMAIN submissions
           /\ \A j \in DOMAIN submissions : submissions'[j].user = submissions[j].user
<1>1. ASSUME NEW j \in DOMAIN submissions
      PROVE  submissions'[j] \in Submission /\ submissions'[j].user = submissions[j].user
  <2>1. submissions[j] \in Submission
    BY <1>1
  <2>2. CASE j = i
    <3>1. submissions'[j] = [submissions[j] EXCEPT !.status = status]
      BY <1>1, <2>2
    <3> QED
      BY <2>1, <3>1 DEF Submission
  <2>3. CASE j # i
    BY <1>1, <2>1, <2>3
  <2> QED
    BY <2>2, <2>3
<1>2. DOMAIN submissions = 1..Len(submissions) /\ Len(submissions) \in Nat
  OBVIOUS
<1>3. submissions' \in [1..Len(submissions) -> Submission]
  BY <1>1, <1>2
<1> QED
  BY <1>1, <1>2, <1>3

\* A new submission leaves those before it alone.
LEMMA NewSubmission ==
    ASSUME submissions \in Seq(Submission), NEW row \in Submission,
           submissions' = Append(submissions, row)
    PROVE  /\ submissions' \in Seq(Submission)
           /\ DOMAIN submissions \subseteq DOMAIN submissions'
           /\ \A j \in DOMAIN submissions : submissions'[j].user = submissions[j].user
  OBVIOUS

\* What a step may do beside a review without disturbing it: add submissions, change their
\* status, add to the histories, and clear wallets.
Grows ==
    /\ DOMAIN submissions \subseteq DOMAIN submissions'
    /\ \A j \in DOMAIN submissions : submissions'[j].user = submissions[j].user
    /\ approvals \subseteq approvals' /\ approvals' \subseteq DOMAIN submissions'
    /\ bound \subseteq bound'
    /\ verified \subseteq verified' /\ listed \subseteq listed'

\* A review that takes no step itself stays sound.
LEMMA OtherReview ==
    ASSUME KycInv, Grows, NEW q \in Reviews, review'[q] = review[q],
           kycCall'[Identity(q)] = kycCall[Identity(q)], kycEffect'[Identity(q)] = kycEffect[Identity(q)],
           kycCall'[Whitelist(q)] = kycCall[Whitelist(q)], kycEffect'[Whitelist(q)] = kycEffect[Whitelist(q)]
    PROVE  ReviewIsSound(q)'
<1>1. ReviewIsSound(q) /\ approvals \subseteq DOMAIN submissions
  BY DEF KycInv, ReviewsAreSound
<1>2. Entitled(q) => Entitled(q)'
  BY <1>1 DEF Grows, Entitled
<1> QED
  BY <1>1, <1>2 DEF Grows, ReviewIsSound

\* Wallets that were cleared before stay founded.
LEMMA ClearedBefore ==
    ASSUME KycInv, Grows, NEW w \in verified \cup listed
    PROVE  \E i \in approvals' : <<submissions'[i].user, w>> \in bound'
  BY DEF KycInv, Grows, ClearedWalletsWereApproved

\* A step that moves no review and no chain call.
LEMMA BesideTheReviews ==
    ASSUME KycInv, Grows, KycTypeOK', WalletsAreBound',
           UNCHANGED <<review, kycCall, kycEffect, verified, listed>>
    PROVE  KycInv'
<1>1. ReviewsAreSound'
  BY OtherReview DEF ReviewsAreSound
<1>2. ClearedWalletsWereApproved'
  BY ClearedBefore DEF ClearedWalletsWereApproved
<1>3. (approvals \subseteq DOMAIN submissions)'
  BY DEF Grows
<1> QED
  BY <1>1, <1>2, <1>3 DEF KycInv

\* A step of one review: its own soundness is what has to be shown.
LEMMA OneReview ==
    ASSUME KycInv, Grows, KycTypeOK', NEW r \in Reviews, ReviewIsSound(r)',
           \A q \in Reviews \ {r} : review'[q] = review[q],
           \A c \in (Reviews \ {r}) \X {"identity", "whitelist"} :
               kycCall'[c] = kycCall[c] /\ kycEffect'[c] = kycEffect[c],
           UNCHANGED <<wallet, bound, verified, listed>>
    PROVE  KycInv'
<1>1. ASSUME NEW q \in Reviews \ {r} PROVE ReviewIsSound(q)'
  <2>1. /\ Identity(q) \in (Reviews \ {r}) \X {"identity", "whitelist"}
        /\ Whitelist(q) \in (Reviews \ {r}) \X {"identity", "whitelist"}
    BY DEF Identity, Whitelist
  <2> QED
    BY <2>1, OtherReview
<1>2. ReviewsAreSound'
  BY <1>1 DEF ReviewsAreSound
<1>3. ClearedWalletsWereApproved'
  BY ClearedBefore DEF ClearedWalletsWereApproved
<1>4. (approvals \subseteq DOMAIN submissions)'
  BY DEF Grows
<1>5. WalletsAreBound'
  BY DEF KycInv, WalletsAreBound
<1> QED
  BY <1>2, <1>3, <1>4, <1>5 DEF KycInv

LEMMA KycInitInv == ASSUME KycInit PROVE KycInv
  BY KycAssumption DEF KycInit, KycInv, KycTypeOK, WalletsAreBound, ReviewsAreSound,
     ReviewIsSound, ClearedWalletsWereApproved, Chain!Init, Identity, Whitelist, Early, Entitled,
     FormStages, ReviewStages, Submission

LEMMA FormMoves ==
    ASSUME KycTypeOK, NEW f \in Forms, NEW at \in FormStages, NEW row \in Nat,
           \/ form' = [form EXCEPT ![f].at = at]
           \/ form' = [form EXCEPT ![f].at = at, ![f].row = row]
    PROVE  form' \in [Forms -> [at : FormStages, user : Users, row : Nat]]
<1> DEFINE Form == [at : FormStages, user : Users, row : Nat]
<1>1. form \in [Forms -> Form] /\ form[f] \in Form
  BY DEF KycTypeOK
<1>2. /\ [form[f] EXCEPT !.at = at] \in Form
      /\ [form[f] EXCEPT !.at = at, !.row = row] \in Form
  BY <1>1
<1>3. \/ form' = [form EXCEPT ![f] = [form[f] EXCEPT !.at = at]]
      \/ form' = [form EXCEPT ![f] = [form[f] EXCEPT !.at = at, !.row = row]]
  BY <1>1
<1> QED
  <2> HIDE DEF Form
  <2>1. form' \in [Forms -> Form]
    BY <1>1, <1>2, <1>3
  <2> QED
    BY <2>1 DEF Form

\* Steps of a form.
LEMMA FormStep ==
    ASSUME KycInv, NEW f \in Forms, Submit(f)
    PROVE  KycInv'
<1> USE DEF KycInv, KycTypeOK
<1>0. form[f].user \in Users /\ form[f].row \in Nat /\ form[f].at \in FormStages
  OBVIOUS
<1>1. CASE Screen(f)
  <2>1. Grows /\ WalletsAreBound'
    BY <1>1 DEF Screen, Grows, kycTables, kycChain, kycHistory, WalletsAreBound
  <2>2. PICK at \in {"ended", "hit", "clean"} : form' = [form EXCEPT ![f].at = at]
    BY <1>1 DEF Screen, Verdicts
  <2>3. form' \in [Forms -> [at : FormStages, user : Users, row : Nat]]
    BY <2>2, FormMoves DEF FormStages
  <2>4. KycTypeOK'
    BY <1>1, <2>3 DEF Screen, kycTables, kycChain, kycHistory
  <2> QED
    BY <1>1, <2>1, <2>4, BesideTheReviews DEF Screen, kycTables, kycChain, kycHistory
<1>2. CASE CreateSubmission(f)
  <2>1. [user |-> form[f].user, status |-> "pending"] \in Submission
    BY <1>0 DEF Submission, KycStatus
  <2>2. /\ submissions' \in Seq(Submission)
        /\ DOMAIN submissions \subseteq DOMAIN submissions'
        /\ \A j \in DOMAIN submissions : submissions'[j].user = submissions[j].user
    BY <1>2, <2>1, NewSubmission DEF CreateSubmission
  <2>3. Grows /\ WalletsAreBound'
    BY <1>2, <2>2 DEF CreateSubmission, Grows, kycChain, kycHistory, WalletsAreBound
  <2>4. Len(submissions') \in Nat
    BY <2>2
  <2>5. form' \in [Forms -> [at : FormStages, user : Users, row : Nat]]
    <3>1. PICK at \in {"stopped", "stored"} :
              form' = [form EXCEPT ![f].at = at, ![f].row = Len(submissions')]
      BY <1>2 DEF CreateSubmission
    <3> QED
      BY <2>4, <3>1, FormMoves DEF FormStages
  <2>6. KycTypeOK'
    BY <1>2, <2>2, <2>5 DEF CreateSubmission, kycChain, kycHistory
  <2> QED
    BY <1>2, <2>3, <2>6, BesideTheReviews DEF CreateSubmission, kycChain, kycHistory
<1>3. CASE RejectHit(f)
  <2>1. /\ submissions' \in Seq(Submission)
        /\ DOMAIN submissions' = DOMAIN submissions
        /\ \A j \in DOMAIN submissions : submissions'[j].user = submissions[j].user
    <3>1. "rejected" \in KycStatus
      BY DEF KycStatus
    <3> QED
      BY <1>3, <3>1, VerdictKeepsUsers DEF RejectHit
  <2>2. Grows /\ WalletsAreBound'
    BY <1>3, <2>1 DEF RejectHit, Grows, kycChain, kycHistory, WalletsAreBound
  <2>3. form' \in [Forms -> [at : FormStages, user : Users, row : Nat]]
    <3>1. PICK at \in FormStages : form' = [form EXCEPT ![f].at = at]
      BY <1>3 DEF RejectHit, FormStages
    <3> QED
      BY <3>1, FormMoves
  <2>4. KycTypeOK'
    BY <1>3, <2>1, <2>3 DEF RejectHit, kycChain, kycHistory
  <2> QED
    BY <1>3, <2>2, <2>4, BesideTheReviews DEF RejectHit, kycChain, kycHistory
<1>4. CASE SaveAccreditation(f)
  <2>1. Grows /\ WalletsAreBound'
    BY <1>4 DEF SaveAccreditation, Grows, kycChain, kycHistory, WalletsAreBound
  <2>2. form' \in [Forms -> [at : FormStages, user : Users, row : Nat]]
    <3>1. PICK at \in FormStages : form' = [form EXCEPT ![f].at = at]
      BY <1>4 DEF SaveAccreditation, FormStages
    <3> QED
      BY <3>1, FormMoves
  <2>3. KycTypeOK'
    BY <1>4, <2>2 DEF SaveAccreditation, kycChain, kycHistory
  <2> QED
    BY <1>4, <2>1, <2>3, BesideTheReviews DEF SaveAccreditation, kycChain, kycHistory
<1>5. CASE FormStops(f)
  <2>1. Grows /\ WalletsAreBound'
    BY <1>5 DEF FormStops, Grows, kycTables, kycChain, kycHistory, WalletsAreBound
  <2>2. form' \in [Forms -> [at : FormStages, user : Users, row : Nat]]
    <3>1. PICK at \in FormStages : form' = [form EXCEPT ![f].at = at]
      BY <1>5 DEF FormStops, FormStages
    <3> QED
      BY <3>1, FormMoves
  <2>3. KycTypeOK'
    BY <1>5, <2>2 DEF FormStops, kycTables, kycChain, kycHistory
  <2> QED
    BY <1>5, <2>1, <2>3, BesideTheReviews DEF FormStops, kycTables, kycChain, kycHistory
<1> QED
  BY <1>1, <1>2, <1>3, <1>4, <1>5 DEF Submit

LEMMA ReviewMoves ==
    ASSUME KycTypeOK, NEW r \in Reviews, NEW at \in ReviewStages, review' = [review EXCEPT ![r].at = at]
    PROVE  /\ review' \in [Reviews -> [at : ReviewStages, row : Nat, wallet : Wallets \cup {NoWallet}]]
           /\ review'[r].at = at /\ review'[r].row = review[r].row /\ review'[r].wallet = review[r].wallet
           /\ \A q \in Reviews \ {r} : review'[q] = review[q]
<1> DEFINE Rev == [at : ReviewStages, row : Nat, wallet : Wallets \cup {NoWallet}]
<1>1. review \in [Reviews -> Rev] /\ review[r] \in Rev
  BY DEF KycTypeOK
<1>2. /\ [review[r] EXCEPT !.at = at] \in Rev
      /\ [review[r] EXCEPT !.at = at].at = at
      /\ [review[r] EXCEPT !.at = at].row = review[r].row
      /\ [review[r] EXCEPT !.at = at].wallet = review[r].wallet
  BY <1>1
<1>3. review' = [review EXCEPT ![r] = [review[r] EXCEPT !.at = at]]
  BY <1>1
<1>4. review' \in [Reviews -> Rev] /\ review'[r] = [review[r] EXCEPT !.at = at]
  <2> HIDE DEF Rev
  <2> QED
    BY <1>1, <1>2, <1>3
<1> QED
  BY <1>1, <1>2, <1>3, <1>4

\* The statements of a review that leave the chain's calls alone.
LEMMA StatementStep ==
    ASSUME KycInv, NEW r \in Reviews,
           FindByID(r) \/ MarkApproved(r) \/ GetUserWallet(r) \/ ReviewStops(r) \/ Reject(r)
    PROVE  KycInv'
<1> USE DEF KycInv
<1>0. /\ review[r] \in [at : ReviewStages, row : Nat, wallet : Wallets \cup {NoWallet}]
      /\ ReviewIsSound(r)
  BY DEF KycTypeOK, ReviewsAreSound
<1>1. CASE FindByID(r)
  <2>1. PICK i \in DOMAIN submissions :
            review' = [review EXCEPT ![r] = [at |-> "found", row |-> i, wallet |-> NoWallet]]
    BY <1>1 DEF FindByID
  <2>2. i \in Nat
    BY <2>1 DEF KycTypeOK
  <2>3. Grows
    BY <1>1 DEF FindByID, Grows, kycTables, kycChain, kycHistory
  <2>4. KycTypeOK'
    BY <1>1, <2>1, <2>2 DEF FindByID, KycTypeOK, ReviewStages, kycTables, kycChain, kycHistory
  <2>5. review'[r].at = "found" /\ review'[r].row = i
    BY <2>1 DEF KycTypeOK
  <2>6. ReviewIsSound(r)'
    BY <1>0, <1>1, <2>5 DEF FindByID, ReviewIsSound, Early, kycTables, kycChain, kycHistory, Identity, Whitelist
  <2>7. \A q \in Reviews \ {r} : review'[q] = review[q]
    BY <2>1
  <2> QED
    BY <1>1, <2>3, <2>4, <2>6, <2>7, OneReview DEF FindByID, kycTables, kycChain, kycHistory
<1>2. CASE MarkApproved(r)
  <2>1. /\ submissions' \in Seq(Submission)
        /\ DOMAIN submissions' = DOMAIN submissions
        /\ \A j \in DOMAIN submissions : submissions'[j].user = submissions[j].user
    <3>1. "approved" \in KycStatus
      BY DEF KycStatus
    <3> QED
      BY <1>2, <3>1, VerdictKeepsUsers DEF MarkApproved, KycTypeOK
  <2>2. /\ review' \in [Reviews -> [at : ReviewStages, row : Nat, wallet : Wallets \cup {NoWallet}]]
        /\ review'[r].at = "approved" /\ review'[r].row = review[r].row
        /\ \A q \in Reviews \ {r} : review'[q] = review[q]
    BY <1>2, ReviewMoves DEF MarkApproved, ReviewStages
  <2>3. review[r].row \in DOMAIN submissions
    BY <1>0, <1>2 DEF ReviewIsSound, MarkApproved
  <2>4. Grows
    BY <1>2, <2>1, <2>3 DEF MarkApproved, Grows, kycChain
  <2>5. KycTypeOK'
    BY <1>0, <1>2, <2>1, <2>2 DEF MarkApproved, KycTypeOK, kycChain
  <2>6. ReviewIsSound(r)'
    BY <1>0, <1>2, <2>1, <2>2, <2>3 DEF MarkApproved, ReviewIsSound, Early, kycChain, Identity, Whitelist
  <2> QED
    BY <1>2, <2>2, <2>4, <2>5, <2>6, OneReview DEF MarkApproved, kycChain
<1>3. CASE GetUserWallet(r)
  <2> DEFINE w == wallet[submissions[review[r].row].user]
  <2>1. review[r].row \in DOMAIN submissions /\ review[r].row \in approvals
    BY <1>0, <1>3 DEF ReviewIsSound, GetUserWallet
  <2>2. submissions[review[r].row].user \in Users
    <3>1. submissions[review[r].row] \in Submission
      BY <2>1 DEF KycTypeOK
    <3> QED
      BY <3>1 DEF Submission
  <2>3. /\ w \in Wallets \cup {NoWallet}
        /\ w # NoWallet => w \in Wallets /\ <<submissions[review[r].row].user, w>> \in bound
    BY <2>2 DEF KycTypeOK, WalletsAreBound
  <2>4. PICK at \in {"ended", "bound"} :
            /\ at = "bound" => w # NoWallet
            /\ review' = [review EXCEPT ![r].at = at, ![r].wallet = w]
    BY <1>3 DEF GetUserWallet
  <2> DEFINE Rev == [at : ReviewStages, row : Nat, wallet : Wallets \cup {NoWallet}]
             rev == [review[r] EXCEPT !.at = at, !.wallet = w]
  <2>5. rev \in Rev /\ rev.at = at /\ rev.row = review[r].row /\ rev.wallet = w
    <3> HIDE DEF w
    <3> QED
      BY <1>0, <2>3 DEF ReviewStages
  <2>6. /\ review'[r].at = at /\ review'[r].row = review[r].row /\ review'[r].wallet = w
        /\ \A q \in Reviews \ {r} : review'[q] = review[q]
        /\ review' \in [Reviews -> Rev]
    <3>1. review' = [review EXCEPT ![r] = rev] /\ review \in [Reviews -> Rev]
      BY <2>4 DEF KycTypeOK
    <3> HIDE DEF rev, w, Rev
    <3> QED
      BY <2>5, <3>1
  <2>7. KycTypeOK' /\ Grows
    BY <1>3, <2>6 DEF GetUserWallet, KycTypeOK, Grows, kycTables, kycChain, kycHistory
  <2>8. ReviewIsSound(r)'
    <3>2. at = "bound" => Entitled(r)'
      BY <1>3, <2>1, <2>3, <2>4, <2>6 DEF GetUserWallet, Entitled, kycTables, kycHistory
    <3> HIDE DEF w
    <3> QED
      BY <1>0, <1>3, <2>4, <2>6, <3>2 DEF GetUserWallet, ReviewIsSound, Early, kycChain, Identity, Whitelist
  <2> QED
    BY <1>3, <2>6, <2>7, <2>8, OneReview DEF GetUserWallet, kycTables, kycChain, kycHistory
<1>4. CASE ReviewStops(r)
  <2>1. /\ review' \in [Reviews -> [at : ReviewStages, row : Nat, wallet : Wallets \cup {NoWallet}]]
        /\ review'[r].at = "ended" /\ review'[r].row = review[r].row
        /\ review'[r].wallet = review[r].wallet
        /\ \A q \in Reviews \ {r} : review'[q] = review[q]
    BY <1>4, ReviewMoves DEF ReviewStops, ReviewStages
  <2>2. KycTypeOK' /\ Grows
    BY <1>4, <2>1 DEF ReviewStops, KycTypeOK, Grows, kycTables, kycChain, kycHistory
  <2>3. ReviewIsSound(r)'
    <3>1. Entitled(r) => Entitled(r)'
      BY <1>4, <2>1 DEF ReviewStops, Entitled, kycTables, kycHistory
    <3> QED
      BY <1>0, <1>4, <2>1, <3>1 DEF ReviewStops, ReviewIsSound, Early, kycChain, Identity, Whitelist
  <2> QED
    BY <1>4, <2>1, <2>2, <2>3, OneReview DEF ReviewStops, kycTables, kycChain, kycHistory
<1>5. CASE Reject(r)
  <2>1. /\ submissions' \in Seq(Submission)
        /\ DOMAIN submissions' = DOMAIN submissions
        /\ \A j \in DOMAIN submissions : submissions'[j].user = submissions[j].user
    <3>1. PICK i \in DOMAIN submissions : submissions' = [submissions EXCEPT ![i].status = "rejected"]
      BY <1>5 DEF Reject
    <3>2. "rejected" \in KycStatus
      BY DEF KycStatus
    <3> QED
      BY <3>1, <3>2, VerdictKeepsUsers DEF KycTypeOK
  <2>2. /\ review' \in [Reviews -> [at : ReviewStages, row : Nat, wallet : Wallets \cup {NoWallet}]]
        /\ review'[r].at = "ended"
        /\ \A q \in Reviews \ {r} : review'[q] = review[q]
    BY <1>5, ReviewMoves DEF Reject, ReviewStages
  <2>3. KycTypeOK' /\ Grows
    BY <1>5, <2>1, <2>2 DEF Reject, KycTypeOK, Grows, kycChain, kycHistory
  <2>4. ReviewIsSound(r)'
    BY <1>0, <1>5, <2>2 DEF Reject, ReviewIsSound, Early, kycChain, Identity, Whitelist
  <2> QED
    BY <1>5, <2>2, <2>3, <2>4, OneReview DEF Reject, kycChain, kycHistory
<1> QED
  BY <1>1, <1>2, <1>3, <1>4, <1>5

KycCalls == Reviews \X {"identity", "whitelist"}

\* A chain call changes what one caller was told, or its effect.
LEMMA CallMoves ==
    ASSUME KycTypeOK, NEW c \in KycCalls,
           Chain!Begin(c) \/ Chain!Succeed(c) \/ Chain!Fail(c) \/ Chain!TakeEffect(c)
    PROVE  /\ kycCall' \in [KycCalls -> {"idle", "pending", "ok", "failed"}]
           /\ kycEffect' \in [KycCalls -> BOOLEAN]
           /\ \A d \in KycCalls \ {c} : kycCall'[d] = kycCall[d] /\ kycEffect'[d] = kycEffect[d]
           /\ kycCall'[c] # "idle"
           /\ ~Chain!TakeEffect(c) => kycEffect' = kycEffect
           /\ Chain!Succeed(c) => kycEffect[c]
           /\ ~Chain!Begin(c) => kycCall[c] # "idle"
  BY DEF KycTypeOK, KycCalls, Chain!Begin, Chain!Succeed, Chain!Fail, Chain!TakeEffect

LEMMA CallsOf ==
    ASSUME NEW r \in Reviews
    PROVE  /\ Identity(r) \in KycCalls /\ Whitelist(r) \in KycCalls /\ Identity(r) # Whitelist(r)
           /\ \A q \in Reviews \ {r} : Identity(q) # Identity(r) /\ Identity(q) # Whitelist(r)
                                       /\ Whitelist(q) # Identity(r) /\ Whitelist(q) # Whitelist(r)
           /\ \A c \in (Reviews \ {r}) \X {"identity", "whitelist"} :
                  c \in KycCalls \ {Identity(r), Whitelist(r)}
  BY DEF KycCalls, Identity, Whitelist

\* The steps of a review that begin a call to the chain, skip one, or learn of its end.
LEMMA ChainStep ==
    ASSUME KycInv, NEW r \in Reviews,
           \/ RegisterIdentity(r)
           \/ ChainAnswers(r, "registering", Identity(r), "registered")
           \/ AddToWhitelist(r)
           \/ ChainAnswers(r, "listing", Whitelist(r), "cleared")
    PROVE  KycInv'
<1> DEFINE stages == {"registered", "registering", "cleared", "listing", "ended"}
<1>1. PICK at \in stages : review' = [review EXCEPT ![r].at = at]
  BY DEF RegisterIdentity, ChainAnswers, AddToWhitelist
<1>2. UNCHANGED <<kycTables, form, verified, listed, kycHistory>>
  BY DEF RegisterIdentity, ChainAnswers, AddToWhitelist
<1>3. review[r].at \in {"bound", "registering", "registered", "listing"}
  BY DEF RegisterIdentity, ChainAnswers, AddToWhitelist
<1>4. ReviewIsSound(r) /\ KycTypeOK /\ Entitled(r)
  BY <1>3 DEF KycInv, ReviewsAreSound, ReviewIsSound, Early
<1>5. /\ review' \in [Reviews -> [at : ReviewStages, row : Nat, wallet : Wallets \cup {NoWallet}]]
      /\ review'[r].at = at /\ review'[r].row = review[r].row /\ review'[r].wallet = review[r].wallet
      /\ \A q \in Reviews \ {r} : review'[q] = review[q]
  BY <1>1, <1>4, ReviewMoves DEF ReviewStages
<1>6. Entitled(r)'
  BY <1>2, <1>4, <1>5 DEF Entitled, kycTables, kycHistory
<1>7. /\ kycCall' \in [KycCalls -> {"idle", "pending", "ok", "failed"}]
      /\ kycEffect' = kycEffect
      /\ \A c \in KycCalls \ {Identity(r), Whitelist(r)} : kycCall'[c] = kycCall[c]
  <2>1. CASE UNCHANGED <<kycCall, kycEffect>>
    BY <1>4, <2>1 DEF KycTypeOK, KycCalls
  <2>2. CASE \E c \in {Identity(r), Whitelist(r)} : Chain!Begin(c) \/ Chain!Succeed(c) \/ Chain!Fail(c)
    <3>1. PICK c \in {Identity(r), Whitelist(r)} : Chain!Begin(c) \/ Chain!Succeed(c) \/ Chain!Fail(c)
      BY <2>2
    <3>2. kycEffect' = kycEffect
      BY <3>1 DEF Chain!Begin, Chain!Succeed, Chain!Fail
    <3> QED
      BY <1>4, <3>1, <3>2, CallMoves, CallsOf
  <2> QED
    BY <2>1, <2>2 DEF RegisterIdentity, ChainAnswers, AddToWhitelist
<1>8. /\ at \in {"registered", "listing", "cleared"} => review[r].wallet \in verified
      /\ at = "cleared" => review[r].wallet \in listed
  <2>1. CASE RegisterIdentity(r)
    <3>1. (at = "registered" /\ review[r].wallet \in verified) \/ at = "registering"
      BY <1>5, <2>1, ReviewMoves, <1>4 DEF RegisterIdentity, ReviewStages
    <3> QED
      BY <3>1
  <2>2. CASE ChainAnswers(r, "registering", Identity(r), "registered")
    <3>1. (at = "registered" /\ Chain!Succeed(Identity(r))) \/ at = "ended"
      BY <1>5, <2>2, ReviewMoves, <1>4 DEF ChainAnswers, ReviewStages
    <3> QED
      BY <1>4, <3>1, CallMoves, CallsOf DEF ReviewIsSound
  <2>3. CASE AddToWhitelist(r)
    <3>1. (at = "cleared" /\ review[r].wallet \in listed) \/ at = "listing"
      BY <1>5, <2>3, ReviewMoves, <1>4 DEF AddToWhitelist, ReviewStages
    <3> QED
      BY <1>4, <2>3, <3>1 DEF ReviewIsSound, AddToWhitelist
  <2>4. CASE ChainAnswers(r, "listing", Whitelist(r), "cleared")
    <3>1. (at = "cleared" /\ Chain!Succeed(Whitelist(r))) \/ at = "ended"
      BY <1>5, <2>4, ReviewMoves, <1>4 DEF ChainAnswers, ReviewStages
    <3> QED
      BY <1>4, <2>4, <3>1, CallMoves, CallsOf DEF ReviewIsSound, ChainAnswers
  <2> QED
    BY <2>1, <2>2, <2>3, <2>4
<1>9. ReviewIsSound(r)'
  BY <1>2, <1>4, <1>5, <1>6, <1>7, <1>8 DEF ReviewIsSound, Early
<1>10. Grows
  BY <1>2 DEF KycInv, Grows, kycTables, kycHistory
<1>11. KycTypeOK'
  BY <1>2, <1>4, <1>5, <1>7 DEF KycTypeOK, KycCalls, kycTables, kycHistory
<1> QED
  BY <1>2, <1>5, <1>7, <1>9, <1>10, <1>11, CallsOf, OneReview DEF kycTables, kycHistory

\* The contracts execute a call, at any time after it was begun.
LEMMA MineStep ==
    ASSUME KycInv, NEW r \in Reviews, MineIdentity(r) \/ MineWhitelist(r)
    PROVE  KycInv'
<1>1. PICK c \in {Identity(r), Whitelist(r)} : Chain!TakeEffect(c)
  BY DEF MineIdentity, MineWhitelist
<1>2. /\ UNCHANGED <<kycTables, form, review, kycHistory>>
      /\ verified' \in {verified, verified \cup {review[r].wallet}}
      /\ listed' \in {listed, listed \cup {review[r].wallet}}
      /\ kycEffect'[Identity(r)] => kycEffect[Identity(r)] \/ review[r].wallet \in verified'
      /\ kycEffect'[Whitelist(r)] => kycEffect[Whitelist(r)] \/ review[r].wallet \in listed'
  <2>1. CASE MineIdentity(r)
    BY <2>1, CallsOf DEF MineIdentity, Chain!TakeEffect
  <2>2. CASE MineWhitelist(r)
    BY <2>2, CallsOf DEF MineWhitelist, Chain!TakeEffect
  <2> QED
    BY <2>1, <2>2
<1>3. KycTypeOK /\ ReviewIsSound(r) /\ c \in KycCalls
  BY CallsOf DEF KycInv, ReviewsAreSound
<1>4. /\ kycCall' = kycCall /\ kycCall[c] # "idle"
      /\ kycEffect' \in [KycCalls -> BOOLEAN]
      /\ \A d \in KycCalls \ {Identity(r), Whitelist(r)} : kycEffect'[d] = kycEffect[d]
  BY <1>1, <1>3, CallMoves DEF Chain!TakeEffect
<1>5. Entitled(r) /\ review[r].at \notin Early
  BY <1>3, <1>4 DEF ReviewIsSound
<1>6. Grows
  BY <1>2 DEF KycInv, Grows, kycTables, kycHistory
<1>7. Entitled(r)'
  BY <1>2, <1>5 DEF Entitled, kycTables, kycHistory
<1>8. ReviewIsSound(r)'
  <2>1. review' = review /\ verified \subseteq verified' /\ listed \subseteq listed'
    BY <1>2
  <2>2. /\ kycEffect'[Identity(r)] => review'[r].wallet \in verified'
        /\ kycEffect'[Whitelist(r)] => review'[r].wallet \in listed'
    BY <1>2, <1>3, <2>1 DEF ReviewIsSound
  <2>3. /\ review'[r].at \in {"registered", "listing", "cleared"} => review'[r].wallet \in verified'
        /\ review'[r].at = "cleared" => review'[r].wallet \in listed'
    BY <1>3, <2>1 DEF ReviewIsSound
  <2> QED
    BY <1>5, <1>7, <2>1, <2>2, <2>3 DEF ReviewIsSound, Early
<1>9. ASSUME NEW q \in Reviews \ {r} PROVE ReviewIsSound(q)'
  BY <1>2, <1>4, <1>6, CallsOf, OtherReview
<1>10. ReviewsAreSound'
  BY <1>8, <1>9 DEF ReviewsAreSound
<1>11. ClearedWalletsWereApproved'
  BY <1>2, <1>6, <1>7, ClearedBefore DEF ClearedWalletsWereApproved, Entitled
<1>12. KycTypeOK'
  BY <1>2, <1>3, <1>4, <1>5 DEF KycTypeOK, KycCalls, Entitled, kycTables, kycHistory
<1>13. WalletsAreBound' /\ (approvals \subseteq DOMAIN submissions)'
  BY <1>2, <1>6 DEF KycInv, WalletsAreBound, Grows, kycTables, kycHistory
<1> QED
  BY <1>10, <1>11, <1>12, <1>13 DEF KycInv

LEMMA BindStep ==
    ASSUME KycInv, NEW u \in Users, NEW w \in Wallets, BindWallet(u, w)
    PROVE  KycInv'
<1>1. Grows
  BY DEF KycInv, BindWallet, Grows, kycChain
<1>2. KycTypeOK' /\ WalletsAreBound'
  BY DEF KycInv, KycTypeOK, BindWallet, WalletsAreBound, kycChain
<1> QED
  BY <1>1, <1>2, BesideTheReviews DEF BindWallet, kycChain

LEMMA KycStepInv ==
    ASSUME KycInv, [KycNext]_kycVars
    PROVE  KycInv'
<1>1. CASE UNCHANGED kycVars
  <2>1. Grows /\ KycTypeOK' /\ WalletsAreBound'
    BY <1>1 DEF KycInv, KycTypeOK, WalletsAreBound, Grows, kycVars, kycTables, kycChain, kycHistory
  <2> QED
    BY <1>1, <2>1, BesideTheReviews DEF kycVars, kycChain
<1>2. CASE \E f \in Forms : Submit(f)
  BY <1>2, FormStep
<1>3. ASSUME NEW r \in Reviews, Approve(r) \/ Reject(r) \/ MineIdentity(r) \/ MineWhitelist(r)
      PROVE  KycInv'
  BY <1>3, StatementStep, ChainStep, MineStep DEF Approve
<1>4. CASE \E u \in Users, w \in Wallets : BindWallet(u, w)
  BY <1>4, BindStep
<1> QED
  BY <1>1, <1>2, <1>3, <1>4 DEF KycNext

-----------------------------------------------------------------------------
\* Assets

AssetIsSound(i) ==
    /\ assets[i].status = "approved" => i \in reviewed
    /\ assets[i].status = "issuing" => WentTheWholeWay(i)
    /\ assets[i].status = "live" =>
          /\ Minted(i) \/ WentTheWholeWay(i)
          /\ assets[i].contract = NoContract => WentTheWholeWay(i)

CreationIsSound(c) ==
    /\ creation[c].at # "idle" => creation[c].row \in DOMAIN assets
    /\ creation[c].at \in {"idle", "created"} => mintCall[c] = "idle"
    /\ mintCall[c] = "idle" => ~mintEffect[c]
    /\ creation[c].at \in {"minted", "contract", "revenue", "gas"} => mintEffect[c]
    /\ (creation[c].at = "contract" /\ assets[creation[c].row].contract = NoContract) =>
          WentTheWholeWay(creation[c].row)

CreationsAreApart ==
    \A c, d \in Creations :
        (creation[c].at # "idle" /\ creation[d].at # "idle" /\ creation[c].row = creation[d].row) => c = d

\* What a clerk is about to write is still justified.
ClerkIsSound(k) ==
    clerk[k].at # "idle" =>
        /\ clerk[k].row \in DOMAIN assets
        /\ clerk[k].verb = "issue" => clerk[k].row \in reviewed
        /\ clerk[k].verb = "golive" => WentTheWholeWay(clerk[k].row)
        /\ clerk[k].at = "written" =>
              /\ clerk[k].verb \in {"issue", "golive"}
              /\ clerk[k].verb = "issue" => clerk[k].row \in rounds

Booked == {"gas", "price", "ended"}

\* The fee of a record, but for the last digit.
FeeIsRight(r) ==
    LET offer == assets[r.row].offer
        share == offer.supply.digits * offer.price.digits * r.rate
    IN  /\ r.fee.scale = offer.supply.scale + offer.price.scale
        /\ r.fee.digits * 10000 <= share /\ share < (r.fee.digits + 1) * 10000

RevenueIsSound ==
    \A r \in revenue :
        /\ r.by \in Creations /\ creation[r.by].at \in Booked /\ creation[r.by].row = r.row
        /\ mintEffect[r.by]
        /\ \A q \in revenue : q.by = r.by => q = r
        /\ FeeIsRight(r)

AssetInv ==
    /\ AssetTypeOK
    /\ \A i \in DOMAIN assets : AssetIsSound(i)
    /\ \A c \in Creations : CreationIsSound(c)
    /\ CreationsAreApart
    /\ \A k \in Clerks : ClerkIsSound(k)
    /\ RevenueIsSound

LEMMA AssetInvImplies == ASSUME AssetInv PROVE LiveWasEarned /\ MintFeesAreFounded
<1>1. LiveWasEarned
  BY DEF AssetInv, AssetIsSound, LiveWasEarned
<1>2. ASSUME NEW r \in revenue
      PROVE  Minted(r.row) /\ FeeIsRight(r) /\ \A q \in revenue : q.row = r.row => q = r
  BY DEF AssetInv, RevenueIsSound, CreationsAreApart, Minted, Booked
<1> QED
  BY <1>1, <1>2 DEF MintFeesAreFounded, FeeIsRight

\* A statement that writes the status of a row, and one that writes its contract.
LEMMA StatusWritten ==
    ASSUME assets \in Seq(Asset), NEW i \in DOMAIN assets, NEW status \in AssetStatus,
           assets' = [assets EXCEPT ![i].status = status]
    PROVE  /\ assets' \in Seq(Asset)
           /\ DOMAIN assets' = DOMAIN assets
           /\ assets'[i].status = status
           /\ \A j \in DOMAIN assets :
                 /\ assets'[j].offer = assets[j].offer /\ assets'[j].contract = assets[j].contract
                 /\ j # i => assets'[j] = assets[j]
<1>1. assets[i] \in Asset
  OBVIOUS
<1>2. assets' = [assets EXCEPT ![i] = [assets[i] EXCEPT !.status = status]]
  OBVIOUS
<1>3. /\ [assets[i] EXCEPT !.status = status] \in Asset
      /\ [assets[i] EXCEPT !.status = status].status = status
      /\ [assets[i] EXCEPT !.status = status].offer = assets[i].offer
      /\ [assets[i] EXCEPT !.status = status].contract = assets[i].contract
  BY <1>1 DEF Asset
<1>4. ASSUME NEW row \in Asset, assets' = [assets EXCEPT ![i] = row]
      PROVE  assets' \in Seq(Asset)
  BY <1>4
<1> QED
  BY <1>2, <1>3, <1>4

LEMMA ContractWritten ==
    ASSUME assets \in Seq(Asset), NEW i \in DOMAIN assets, NEW address \in Contracts,
           assets' = [assets EXCEPT ![i].contract = address]
    PROVE  /\ assets' \in Seq(Asset)
           /\ DOMAIN assets' = DOMAIN assets
           /\ assets'[i].contract = address
           /\ \A j \in DOMAIN assets :
                 /\ assets'[j].offer = assets[j].offer /\ assets'[j].status = assets[j].status
                 /\ j # i => assets'[j] = assets[j]
<1>1. assets[i] \in Asset
  OBVIOUS
<1>2. assets' = [assets EXCEPT ![i] = [assets[i] EXCEPT !.contract = address]]
  OBVIOUS
<1>3. /\ [assets[i] EXCEPT !.contract = address] \in Asset
      /\ [assets[i] EXCEPT !.contract = address].contract = address
      /\ [assets[i] EXCEPT !.contract = address].offer = assets[i].offer
      /\ [assets[i] EXCEPT !.contract = address].status = assets[i].status
  BY <1>1 DEF Asset
<1>4. ASSUME NEW row \in Asset, assets' = [assets EXCEPT ![i] = row]
      PROVE  assets' \in Seq(Asset)
  BY <1>4
<1> QED
  BY <1>2, <1>3, <1>4

\* What every step does to the rest: nothing that was earned is taken back, but that the
\* contract of an asset that went the whole way may be.
AssetsGrow ==
    /\ DOMAIN assets \subseteq DOMAIN assets'
    /\ \A i \in DOMAIN assets :
          /\ assets'[i].offer = assets[i].offer
          /\ assets[i].contract # NoContract => assets'[i].contract # NoContract \/ WentTheWholeWay(i)'
    /\ reviewed \subseteq reviewed' /\ rounds \subseteq rounds'
    /\ \A c \in Creations :
          /\ mintEffect[c] => mintEffect'[c]
          /\ creation[c].at # "idle" =>
                creation'[c].at # "idle" /\ creation'[c].row = creation[c].row
          /\ creation[c].at \in Booked => creation'[c].at \in Booked

LEMMA MintedStays ==
    ASSUME AssetInv, AssetsGrow, NEW i \in DOMAIN assets, Minted(i)
    PROVE  Minted(i)'
<1>1. PICK c \in Creations : creation[c].row = i /\ mintEffect[c]
  BY DEF Minted
<1>2. creation[c].at # "idle"
  BY <1>1 DEF AssetInv, CreationIsSound
<1> QED
  BY <1>1, <1>2 DEF AssetsGrow, Minted

LEMMA OtherAsset ==
    ASSUME AssetInv, AssetsGrow, NEW i \in DOMAIN assets, assets'[i].status = assets[i].status
    PROVE  AssetIsSound(i)'
  BY MintedStays DEF AssetInv, AssetsGrow, AssetIsSound, WentTheWholeWay

LEMMA OtherCreation ==
    ASSUME AssetInv, AssetsGrow, NEW c \in Creations, creation'[c] = creation[c],
           mintCall'[c] = mintCall[c], mintEffect'[c] = mintEffect[c]
    PROVE  CreationIsSound(c)'
<1>1. CreationIsSound(c)
  BY DEF AssetInv
<1>2. CASE creation[c].at = "idle"
  BY <1>1, <1>2 DEF CreationIsSound
<1>3. CASE creation[c].at # "idle"
  BY <1>1, <1>3 DEF AssetsGrow, CreationIsSound, WentTheWholeWay
<1> QED
  BY <1>2, <1>3

LEMMA OtherClerk ==
    ASSUME AssetInv, AssetsGrow, NEW k \in Clerks, clerk'[k] = clerk[k]
    PROVE  ClerkIsSound(k)'
  BY DEF AssetInv, AssetsGrow, ClerkIsSound, WentTheWholeWay

LEMMA SameRevenue ==
    ASSUME AssetInv, AssetsGrow, revenue' = revenue
    PROVE  RevenueIsSound'
<1>1. ASSUME NEW r \in revenue
      PROVE  creation[r.by].at # "idle" /\ r.row \in DOMAIN assets
  BY DEF AssetInv, RevenueIsSound, CreationIsSound, Booked
<1>2. ASSUME NEW r \in revenue
      PROVE  FeeIsRight(r)'
  <2>1. assets'[r.row].offer = assets[r.row].offer
    BY <1>1 DEF AssetsGrow
  <2> QED
    BY <2>1 DEF AssetInv, RevenueIsSound, FeeIsRight
<1> QED
  BY <1>1, <1>2 DEF AssetInv, AssetsGrow, RevenueIsSound

LEMMA AssetInitInv == ASSUME AssetInit PROVE AssetInv
  BY DEF AssetInit, AssetInv, AssetTypeOK, AssetIsSound, CreationIsSound, CreationsAreApart,
     ClerkIsSound, RevenueIsSound, MintChain!Init, CreationStages, ClerkTask

LEMMA CreationMoves ==
    ASSUME AssetTypeOK, NEW c \in Creations, NEW stage \in CreationStages, Goto(c, stage)
    PROVE  /\ creation' \in [Creations -> [at : CreationStages, row : Nat]]
           /\ creation'[c].at = stage /\ creation'[c].row = creation[c].row
           /\ \A d \in Creations \ {c} : creation'[d] = creation[d]
<1> DEFINE Place == [at : CreationStages, row : Nat]
<1>1. creation \in [Creations -> Place] /\ creation[c] \in Place
  BY DEF AssetTypeOK
<1>2. /\ [creation[c] EXCEPT !.at = stage] \in Place
      /\ [creation[c] EXCEPT !.at = stage].at = stage
      /\ [creation[c] EXCEPT !.at = stage].row = creation[c].row
  BY <1>1
<1>3. creation' = [creation EXCEPT ![c] = [creation[c] EXCEPT !.at = stage]]
  BY <1>1 DEF Goto
<1> HIDE DEF Place
<1>4. creation' \in [Creations -> Place] /\ creation'[c] = [creation[c] EXCEPT !.at = stage]
  BY <1>1, <1>2, <1>3
<1> QED
  BY <1>1, <1>2, <1>3, <1>4 DEF Place

\* A step of one creation that writes neither a status nor a fee: its own soundness is what
\* has to be shown.
LEMMA OneCreation ==
    ASSUME AssetInv, AssetsGrow, AssetTypeOK', NEW c \in Creations, CreationIsSound(c)',
           creation[c].at # "idle",
           \A d \in Creations \ {c} :
               creation'[d] = creation[d] /\ mintCall'[d] = mintCall[d] /\ mintEffect'[d] = mintEffect[d],
           DOMAIN assets' = DOMAIN assets,
           \A i \in DOMAIN assets : assets'[i].status = assets[i].status,
           UNCHANGED <<clerk, revenue>>
    PROVE  AssetInv'
<1>1. \A d \in Creations : CreationIsSound(d)'
  BY OtherCreation
<1>2. \A i \in DOMAIN assets' : AssetIsSound(i)'
  BY OtherAsset
<1>3. CreationsAreApart'
  BY DEF AssetInv, AssetsGrow, CreationsAreApart
<1>4. \A k \in Clerks : ClerkIsSound(k)'
  BY OtherClerk
<1>5. RevenueIsSound'
  BY SameRevenue
<1> QED
  BY <1>1, <1>2, <1>3, <1>4, <1>5 DEF AssetInv

LEMMA CreateAssetStep ==
    ASSUME AssetInv, NEW c \in Creations, CreateAsset(c)
    PROVE  AssetInv'
<1>0. AssetTypeOK /\ CreationIsSound(c)
  BY DEF AssetInv
<1>1. PICK offer \in Offers :
          assets' = Append(assets, [offer |-> offer, status |-> "draft", contract |-> NoContract])
  BY DEF CreateAsset
<1> DEFINE new == [offer |-> offer, status |-> "draft", contract |-> NoContract]
<1>2. new \in Asset
  BY DEF Asset, AssetStatus, Contracts
<1>3. /\ assets' \in Seq(Asset) /\ Len(assets') \in Nat
      /\ DOMAIN assets' = DOMAIN assets \cup {Len(assets')}
      /\ Len(assets') \notin DOMAIN assets
      /\ assets'[Len(assets')] = new
      /\ \A i \in DOMAIN assets : assets'[i] = assets[i]
  <2>1. assets \in Seq(Asset) /\ assets' = Append(assets, new)
    BY <1>0, <1>1 DEF AssetTypeOK
  <2> HIDE DEF new
  <2> QED
    BY <1>2, <2>1
<1>4. /\ creation[c].at = "idle"
      /\ creation' = [creation EXCEPT ![c] = [at |-> "created", row |-> Len(assets')]]
      /\ UNCHANGED <<rounds, prices, revenue, mintGas, clerk, mintCall, mintEffect, reviewed>>
  BY DEF CreateAsset
<1>5. /\ creation' \in [Creations -> [at : CreationStages, row : Nat]]
      /\ creation'[c].at = "created" /\ creation'[c].row = Len(assets')
      /\ \A d \in Creations \ {c} : creation'[d] = creation[d]
  BY <1>0, <1>3, <1>4 DEF AssetTypeOK, CreationStages
<1>6. AssetTypeOK'
  BY <1>0, <1>3, <1>4, <1>5 DEF AssetTypeOK
<1>7. AssetsGrow
  BY <1>3, <1>4, <1>5 DEF AssetsGrow, Booked
<1>8. \A i \in DOMAIN assets' : AssetIsSound(i)'
  <2>1. ASSUME NEW i, i = Len(assets') PROVE AssetIsSound(i)'
    <3>1. assets'[i].status = "draft"
      BY <1>3, <2>1
    <3> QED
      BY <3>1 DEF AssetIsSound
  <2>2. ASSUME NEW i \in DOMAIN assets PROVE AssetIsSound(i)'
    BY <1>3, <1>7, OtherAsset
  <2> QED
    BY <1>3, <2>1, <2>2
<1>9. \A d \in Creations : CreationIsSound(d)'
  <2>1. CreationIsSound(c)'
    BY <1>0, <1>3, <1>4, <1>5 DEF CreationIsSound
  <2>2. ASSUME NEW d \in Creations \ {c} PROVE CreationIsSound(d)'
    BY <1>4, <1>5, <1>7, OtherCreation
  <2> QED
    BY <2>1, <2>2
<1>10. CreationsAreApart'
  <2>1. ASSUME NEW d \in Creations \ {c}, creation[d].at # "idle"
        PROVE  creation[d].row # Len(assets')
    BY <1>3, <2>1 DEF AssetInv, CreationIsSound
  <2> QED
    BY <1>5, <2>1 DEF AssetInv, CreationsAreApart
<1>11. \A k \in Clerks : ClerkIsSound(k)'
  BY <1>4, <1>7, OtherClerk
<1>12. RevenueIsSound'
  BY <1>4, <1>7, SameRevenue
<1> QED
  BY <1>6, <1>8, <1>9, <1>10, <1>11, <1>12 DEF AssetInv

\* The steps of a creation that call the chain, learn of the end, stop, or add to mintGas
\* or prices.
LEMMA CreationStep ==
    ASSUME AssetInv, NEW c \in Creations,
           Mint(c) \/ MintAnswered(c) \/ RecordMintGas(c) \/ RecordPrice(c) \/ CreationStops(c)
    PROVE  AssetInv'
<1> USE DEF AssetInv
<1>1. PICK stage \in {"minting", "minted", "price", "ended"} : Goto(c, stage)
  BY DEF Mint, MintAnswered, RecordMintGas, RecordPrice, CreationStops
<1>2. /\ UNCHANGED <<assets, rounds, revenue, clerk, reviewed>>
      /\ creation[c].at # "idle"
  BY DEF Mint, MintAnswered, RecordMintGas, RecordPrice, CreationStops, tables
<1>3. /\ creation' \in [Creations -> [at : CreationStages, row : Nat]]
      /\ creation'[c].at = stage /\ creation'[c].row = creation[c].row
      /\ \A d \in Creations \ {c} : creation'[d] = creation[d]
  BY <1>1, CreationMoves DEF CreationStages
<1>4. CreationIsSound(c) /\ AssetTypeOK /\ creation[c].row \in DOMAIN assets
  BY <1>2 DEF CreationIsSound
<1>5. /\ mintCall' \in [Creations -> {"idle", "pending", "ok", "failed"}]
      /\ mintEffect' = mintEffect
      /\ \A d \in Creations \ {c} : mintCall'[d] = mintCall[d]
      /\ mintCall'[c] = "idle" => mintCall[c] = "idle"
  BY <1>4 DEF AssetTypeOK, Mint, MintAnswered, RecordMintGas, RecordPrice, CreationStops,
     MintChain!Begin, MintChain!Succeed, MintChain!Fail
<1>6. prices' \in {prices, prices \cup {creation[c].row}} /\ mintGas' \in {mintGas, mintGas \cup {creation[c].row}}
  BY DEF Mint, MintAnswered, RecordMintGas, RecordPrice, CreationStops, tables
<1>7. AssetTypeOK'
  BY <1>2, <1>3, <1>4, <1>5, <1>6 DEF AssetTypeOK
<1>8. creation[c].at \in Booked => stage \in Booked
  BY <1>3 DEF Mint, MintAnswered, RecordMintGas, RecordPrice, CreationStops, Booked, Goto
<1>9. AssetsGrow
  BY <1>2, <1>3, <1>5, <1>8 DEF AssetsGrow
<1>10. stage = "minted" => mintEffect[c]
  <2>1. CASE MintAnswered(c)
    <3>1. MintChain!Succeed(c) \/ stage = "price"
      BY <1>3, <2>1, <1>4, CreationMoves DEF MintAnswered, CreationStages
    <3> QED
      BY <3>1 DEF MintChain!Succeed
  <2>2. CASE ~MintAnswered(c)
    <3>1. stage # "minted"
      BY <1>3, <1>4, <2>2, CreationMoves DEF Mint, RecordMintGas, RecordPrice, CreationStops, CreationStages
    <3> QED
      BY <3>1
  <2> QED
    BY <2>1, <2>2
<1>11. CreationIsSound(c)'
  BY <1>2, <1>3, <1>4, <1>5, <1>10 DEF CreationIsSound
<1> QED
  BY <1>2, <1>3, <1>5, <1>7, <1>9, <1>11, OneCreation

LEMMA UpdateContractStep ==
    ASSUME AssetInv, NEW c \in Creations, UpdateContract(c)
    PROVE  AssetInv'
<1>1. creation[c].at = "minted" /\ CreationIsSound(c) /\ AssetTypeOK
  BY DEF AssetInv, UpdateContract
<1>2. creation[c].row \in DOMAIN assets /\ mintEffect[c]
  BY <1>1 DEF CreationIsSound
<1>3. PICK stage \in {"contract", "revenue"} : Goto(c, stage)
  BY DEF UpdateContract
<1>4. /\ creation' \in [Creations -> [at : CreationStages, row : Nat]]
      /\ creation'[c].at = stage /\ creation'[c].row = creation[c].row
      /\ \A d \in Creations \ {c} : creation'[d] = creation[d]
  BY <1>1, <1>3, CreationMoves DEF CreationStages
<1>5. UNCHANGED <<rounds, prices, revenue, mintGas, clerk, mintCall, mintEffect, reviewed>>
  BY DEF UpdateContract
<1>6. \/ assets' = [assets EXCEPT ![creation[c].row].contract = Platform]
      \/ stage = "revenue" /\ assets' = assets
  <2>1. CASE Goto(c, "revenue") /\ UNCHANGED assets
    <3>1. creation'[c].at = "revenue"
      BY <1>1, <2>1, CreationMoves DEF CreationStages
    <3> QED
      BY <1>4, <2>1, <3>1
  <2> QED
    BY <2>1 DEF UpdateContract
<1>7. Platform \in Contracts /\ Platform # NoContract
  BY IssuanceAssumption DEF Contracts
<1>8. /\ assets' \in Seq(Asset) /\ DOMAIN assets' = DOMAIN assets
      /\ \A i \in DOMAIN assets :
            /\ assets'[i].offer = assets[i].offer /\ assets'[i].status = assets[i].status
            /\ assets[i].contract # NoContract => assets'[i].contract # NoContract
      /\ stage = "contract" => assets'[creation[c].row].contract # NoContract
  <2>1. CASE assets' = [assets EXCEPT ![creation[c].row].contract = Platform]
    <3>1. assets \in Seq(Asset)
      BY <1>1 DEF AssetTypeOK
    <3>2. /\ assets' \in Seq(Asset) /\ DOMAIN assets' = DOMAIN assets
          /\ assets'[creation[c].row].contract = Platform
          /\ \A i \in DOMAIN assets :
                /\ assets'[i].offer = assets[i].offer /\ assets'[i].status = assets[i].status
                /\ i # creation[c].row => assets'[i] = assets[i]
      BY <1>2, <1>7, <2>1, <3>1, ContractWritten
    <3> QED
      BY <1>2, <1>7, <3>2
  <2>2. CASE stage = "revenue" /\ assets' = assets
    BY <1>1, <2>2 DEF AssetTypeOK
  <2> QED
    BY <1>6, <2>1, <2>2
<1>9. AssetTypeOK'
  BY <1>1, <1>4, <1>5, <1>8 DEF AssetTypeOK
<1>10. AssetsGrow
  BY <1>1, <1>4, <1>5, <1>8 DEF AssetsGrow, Booked
<1>11. CreationIsSound(c)'
  BY <1>1, <1>2, <1>4, <1>5, <1>8 DEF CreationIsSound
<1> QED
  BY <1>1, <1>4, <1>5, <1>8, <1>9, <1>10, <1>11, OneCreation

LEMMA ForceLiveStep ==
    ASSUME AssetInv, NEW c \in Creations, ForceLive(c)
    PROVE  AssetInv'
<1>1. creation[c].at = "contract" /\ CreationIsSound(c) /\ AssetTypeOK
  BY DEF AssetInv, ForceLive
<1> DEFINE row == creation[c].row
<1>2. row \in DOMAIN assets /\ mintEffect[c] /\ (assets[row].contract = NoContract => WentTheWholeWay(row))
  BY <1>1 DEF CreationIsSound
<1>3. /\ creation' \in [Creations -> [at : CreationStages, row : Nat]]
      /\ creation'[c].at = "revenue" /\ creation'[c].row = row
      /\ \A d \in Creations \ {c} : creation'[d] = creation[d]
  BY <1>1, CreationMoves DEF CreationStages, ForceLive
<1>4. UNCHANGED <<rounds, prices, revenue, mintGas, clerk, mintCall, mintEffect, reviewed>>
  BY DEF ForceLive
<1>5. /\ assets' \in Seq(Asset) /\ DOMAIN assets' = DOMAIN assets
      /\ \A i \in DOMAIN assets :
            /\ assets'[i].offer = assets[i].offer /\ assets'[i].contract = assets[i].contract
            /\ i # row => assets'[i] = assets[i]
      /\ assets'[row].status \in {assets[row].status, "live"}
  <2>1. assets \in Seq(Asset) /\ "live" \in AssetStatus
    BY <1>1 DEF AssetTypeOK, AssetStatus
  <2>2. CASE assets' = [assets EXCEPT ![row].status = "live"]
    BY <1>2, <2>1, <2>2, StatusWritten
  <2>3. CASE assets' = assets
    BY <2>1, <2>3
  <2> QED
    BY <2>2, <2>3 DEF ForceLive
<1>6. AssetTypeOK'
  BY <1>1, <1>3, <1>4, <1>5 DEF AssetTypeOK
<1>7. AssetsGrow
  BY <1>1, <1>3, <1>4, <1>5 DEF AssetsGrow, Booked
<1>8. ASSUME NEW i, i = row PROVE Minted(i)'
  BY <1>2, <1>3, <1>4, <1>8 DEF Minted
<1>9. \A i \in DOMAIN assets' : AssetIsSound(i)'
  <2>1. ASSUME NEW i \in DOMAIN assets, assets'[i].status = assets[i].status PROVE AssetIsSound(i)'
    BY <1>7, <2>1, OtherAsset
  <2>2. ASSUME NEW i \in DOMAIN assets, i = row, assets'[i].status = "live" PROVE AssetIsSound(i)'
    <3>1. (assets'[i].contract = NoContract => WentTheWholeWay(i)') /\ Minted(i)'
      BY <1>2, <1>4, <1>5, <1>8, <2>2 DEF WentTheWholeWay
    <3> QED
      BY <2>2, <3>1 DEF AssetIsSound
  <2> QED
    BY <1>5, <2>1, <2>2
<1>10. \A d \in Creations : CreationIsSound(d)'
  <2>1. CreationIsSound(c)'
    BY <1>1, <1>2, <1>3, <1>4, <1>5 DEF CreationIsSound
  <2>2. ASSUME NEW d \in Creations \ {c} PROVE CreationIsSound(d)'
    BY <1>3, <1>4, <1>7, OtherCreation
  <2> QED
    BY <2>1, <2>2
<1>11. CreationsAreApart'
  BY <1>1, <1>3 DEF AssetInv, CreationsAreApart
<1>12. (\A k \in Clerks : ClerkIsSound(k)') /\ RevenueIsSound'
  BY <1>4, <1>7, OtherClerk, SameRevenue
<1> QED
  BY <1>6, <1>9, <1>10, <1>11, <1>12 DEF AssetInv

\* What CalcMintFee cuts off is less than one unit.
LEMMA CutOff ==
    ASSUME NEW D \in Nat
    PROVE  D \div 10000 \in Nat /\ (D \div 10000) * 10000 <= D /\ D < (D \div 10000 + 1) * 10000
  OBVIOUS

LEMMA NatTimesNat == ASSUME NEW a \in Nat, NEW b \in Nat PROVE a * b \in Nat
  OBVIOUS

LEMMA FeeOfAnOffer ==
    ASSUME NEW offer \in Offers, NEW rate \in MintRates
    PROVE  LET share == offer.supply.digits * offer.price.digits * rate
               fee == MintFee(offer, rate)
           IN  /\ fee \in Decimal
               /\ fee.scale = offer.supply.scale + offer.price.scale
               /\ fee.digits * 10000 <= share /\ share < (fee.digits + 1) * 10000
<1> DEFINE s == offer.supply.digits
           p == offer.price.digits
           scale == offer.supply.scale + offer.price.scale
<1>1. s \in Nat /\ p \in Nat /\ scale \in Nat /\ rate \in Nat
  <2>1. offer \in [supply : Decimal, price : Decimal] /\ rate \in 0..10000
    BY IssuanceAssumption
  <2>2. offer.supply \in Decimal /\ offer.price \in Decimal
    BY <2>1
  <2> QED
    BY <2>1, <2>2 DEF Decimal
<1>2. MintFee(offer, rate) = [digits |-> (s * p * rate) \div 10000, scale |-> scale]
  BY DEF MintFee, CalcMintFee, MulDecimal
<1> HIDE DEF s, p, scale
<1>3. s * p * rate \in Nat
  BY <1>1, NatTimesNat
<1>4. PICK share \in Nat : share = s * p * rate
  BY <1>3
<1>5. /\ share \div 10000 \in Nat
      /\ (share \div 10000) * 10000 <= share /\ share < (share \div 10000 + 1) * 10000
  BY CutOff
<1>6. /\ MintFee(offer, rate) \in Decimal
      /\ MintFee(offer, rate).scale = scale
      /\ MintFee(offer, rate).digits = share \div 10000
  BY <1>1, <1>2, <1>4, <1>5 DEF Decimal
<1> QED
  BY <1>4, <1>5, <1>6 DEF s, p, scale

LEMMA RecordMintRevenueStep ==
    ASSUME AssetInv, NEW c \in Creations, RecordMintRevenue(c)
    PROVE  AssetInv'
<1> DEFINE row == creation[c].row
<1>1. creation[c].at = "revenue" /\ CreationIsSound(c) /\ AssetTypeOK
  BY DEF AssetInv, RecordMintRevenue
<1>2. row \in DOMAIN assets /\ mintEffect[c] /\ assets[row].offer \in Offers
  <2>1. row \in DOMAIN assets /\ mintEffect[c]
    BY <1>1 DEF CreationIsSound
  <2>2. assets \in Seq(Asset)
    BY <1>1 DEF AssetTypeOK
  <2>3. assets[row] \in Asset
    BY <2>1, <2>2
  <2> QED
    BY <2>1, <2>3 DEF Asset
<1>3. UNCHANGED <<assets, rounds, prices, mintGas, clerk, mintCall, mintEffect, reviewed>>
  BY DEF RecordMintRevenue
<1>4. PICK rate \in MintRates :
          \/ Goto(c, "price") /\ revenue' = revenue
          \/ /\ Goto(c, "gas")
             /\ \/ revenue' = revenue
                \/ revenue' = revenue \cup
                       {[by |-> c, row |-> row, rate |-> rate, fee |-> MintFee(assets[row].offer, rate)]}
  BY DEF RecordMintRevenue
<1>5. PICK stage \in {"price", "gas"} : Goto(c, stage)
  BY <1>4
<1>6. /\ creation' \in [Creations -> [at : CreationStages, row : Nat]]
      /\ creation'[c].at = stage /\ creation'[c].row = row
      /\ \A d \in Creations \ {c} : creation'[d] = creation[d]
  BY <1>1, <1>5, CreationMoves DEF CreationStages
<1>7. AssetsGrow
  BY <1>1, <1>3, <1>6 DEF AssetsGrow, Booked
<1>8. AssetTypeOK' /\ RevenueIsSound'
  <2>1. CASE revenue' = revenue
    BY <1>1, <1>3, <1>6, <1>7, <2>1, SameRevenue DEF AssetTypeOK
  <2>2. CASE revenue' = revenue \cup
                {[by |-> c, row |-> row, rate |-> rate, fee |-> MintFee(assets[row].offer, rate)]}
    <3>1. PICK fee \in Decimal :
              /\ fee = MintFee(assets[row].offer, rate)
              /\ fee.scale = assets[row].offer.supply.scale + assets[row].offer.price.scale
              /\ LET share == assets[row].offer.supply.digits * assets[row].offer.price.digits * rate
                 IN  fee.digits * 10000 <= share /\ share < (fee.digits + 1) * 10000
      BY <1>2, FeeOfAnOffer
    <3>2. PICK new : new = [by |-> c, row |-> row, rate |-> rate, fee |-> fee]
      OBVIOUS
    <3>3. /\ revenue' = revenue \cup {new}
          /\ new.by = c /\ new.row = row /\ new.rate = rate /\ new.fee = fee
      BY <2>2, <3>1, <3>2
    <3>4. new \in RevenueRecord
      <4>1. row \in Nat
        BY <1>1 DEF AssetTypeOK
      <4> QED
        BY <3>2, <4>1 DEF RevenueRecord
    <3>5. ASSUME NEW r \in revenue
          PROVE  /\ r.by \in Creations /\ r.by # c
                 /\ creation[r.by].at \in Booked /\ creation[r.by].row = r.row /\ mintEffect[r.by]
                 /\ \A q \in revenue : q.by = r.by => q = r
                 /\ FeeIsRight(r)
      BY <1>1 DEF AssetInv, RevenueIsSound, Booked
    <3>6. ASSUME NEW r \in revenue PROVE FeeIsRight(r)'
      BY <1>3, <3>5 DEF FeeIsRight
    <3>7. FeeIsRight(new)'
      <4>1. new.fee.scale = assets'[new.row].offer.supply.scale + assets'[new.row].offer.price.scale
        BY <1>3, <3>1, <3>3
      <4>2. LET share == assets'[new.row].offer.supply.digits * assets'[new.row].offer.price.digits * new.rate
            IN  new.fee.digits * 10000 <= share /\ share < (new.fee.digits + 1) * 10000
        BY <1>3, <3>1, <3>3
      <4> QED
        BY <4>1, <4>2 DEF FeeIsRight
    <3>8. RevenueIsSound'
      <4>1. ASSUME NEW r \in revenue
            PROVE  /\ r.by \in Creations /\ creation'[r.by].at \in Booked /\ creation'[r.by].row = r.row
                   /\ mintEffect'[r.by]
                   /\ \A q \in revenue' : q.by = r.by => q = r
        BY <1>3, <1>6, <3>3, <3>5
      <4>2. /\ new.by \in Creations /\ creation'[new.by].at \in Booked /\ creation'[new.by].row = new.row
            /\ mintEffect'[new.by]
            /\ \A q \in revenue' : q.by = new.by => q = new
        BY <1>2, <1>3, <1>6, <3>3, <3>5 DEF Booked
      <4> QED
        BY <3>3, <3>6, <3>7, <4>1, <4>2 DEF RevenueIsSound
    <3> QED
      BY <1>1, <1>3, <1>6, <3>3, <3>4, <3>8 DEF AssetTypeOK
  <2> QED
    BY <1>4, <2>1, <2>2
<1>9. \A d \in Creations : CreationIsSound(d)'
  <2>1. CreationIsSound(c)'
    BY <1>1, <1>2, <1>3, <1>6 DEF CreationIsSound
  <2>2. ASSUME NEW d \in Creations \ {c} PROVE CreationIsSound(d)'
    BY <1>3, <1>6, <1>7, OtherCreation
  <2> QED
    BY <2>1, <2>2
<1>10. CreationsAreApart'
  BY <1>1, <1>6 DEF AssetInv, CreationsAreApart
<1>11. \A i \in DOMAIN assets' : AssetIsSound(i)'
  BY <1>3, <1>7, OtherAsset
<1>12. \A k \in Clerks : ClerkIsSound(k)'
  BY <1>3, <1>7, OtherClerk
<1> QED
  BY <1>8, <1>9, <1>10, <1>11, <1>12 DEF AssetInv

LEMMA MineMintStep ==
    ASSUME AssetInv, NEW c \in Creations, MineMint(c)
    PROVE  AssetInv'
<1> USE DEF AssetInv
<1>1. UNCHANGED <<tables, creation, clerk, reviewed>> /\ mintCall' = mintCall /\ mintCall[c] # "idle"
  BY DEF MineMint, MintChain!TakeEffect
<1>2. /\ mintEffect' \in [Creations -> BOOLEAN] /\ mintEffect'[c]
      /\ \A d \in Creations \ {c} : mintEffect'[d] = mintEffect[d]
  BY DEF MineMint, MintChain!TakeEffect, AssetTypeOK
<1>3. AssetTypeOK'
  BY <1>1, <1>2 DEF AssetTypeOK, tables
<1>4. AssetsGrow
  BY <1>1, <1>2 DEF AssetsGrow, tables
<1>5. CreationIsSound(c)'
  BY <1>1, <1>2 DEF CreationIsSound, WentTheWholeWay, tables
<1>6. creation[c].at # "idle"
  BY <1>1 DEF CreationIsSound
<1> QED
  BY <1>1, <1>2, <1>3, <1>4, <1>5, <1>6, OneCreation DEF tables

\* A step of one clerk that writes no status: his own soundness is what has to be shown.
LEMMA OneClerk ==
    ASSUME AssetInv, AssetsGrow, AssetTypeOK', NEW k \in Clerks, ClerkIsSound(k)',
           \A j \in Clerks \ {k} : clerk'[j] = clerk[j],
           DOMAIN assets' = DOMAIN assets,
           \A i \in DOMAIN assets : assets'[i].status = assets[i].status,
           UNCHANGED <<creation, mintCall, mintEffect, revenue>>
    PROVE  AssetInv'
<1>1. \A c \in Creations : CreationIsSound(c)'
  BY OtherCreation
<1>2. \A i \in DOMAIN assets' : AssetIsSound(i)'
  BY OtherAsset
<1>3. CreationsAreApart'
  BY DEF AssetInv, CreationsAreApart
<1>4. \A j \in Clerks : ClerkIsSound(j)'
  BY OtherClerk
<1>5. RevenueIsSound'
  BY SameRevenue
<1> QED
  BY <1>1, <1>2, <1>3, <1>4, <1>5 DEF AssetInv

LEMMA ReadAssetStep ==
    ASSUME AssetInv, NEW k \in Clerks, ReadAsset(k)
    PROVE  AssetInv'
<1>1. PICK i \in DOMAIN assets, verb \in Verbs :
          /\ assets[i].status \in From[verb]
          /\ clerk' = [clerk EXCEPT ![k] = [at |-> "read", verb |-> verb, row |-> i]]
  BY DEF ReadAsset
<1>2. UNCHANGED <<tables, creation, mintCall, mintEffect, reviewed>>
  BY DEF ReadAsset
<1>3. AssetTypeOK /\ AssetIsSound(i)
  BY DEF AssetInv
<1>4. i \in Nat \ {0}
  BY <1>3 DEF AssetTypeOK
<1>5. [at |-> "read", verb |-> verb, row |-> i] \in ClerkTask
  BY <1>4 DEF ClerkTask
<1>6. AssetTypeOK'
  BY <1>1, <1>2, <1>3, <1>5 DEF AssetTypeOK, tables
<1>7. AssetsGrow
  BY <1>2 DEF AssetsGrow, tables
<1>8. /\ clerk'[k].at = "read" /\ clerk'[k].verb = verb /\ clerk'[k].row = i
      /\ \A j \in Clerks \ {k} : clerk'[j] = clerk[j]
  BY <1>1, <1>3 DEF AssetTypeOK
<1>9. /\ verb = "issue" => assets[i].status = "approved"
      /\ verb = "golive" => assets[i].status = "issuing"
  BY <1>1 DEF From
<1>10. ClerkIsSound(k)'
  BY <1>2, <1>3, <1>8, <1>9 DEF ClerkIsSound, AssetIsSound, WentTheWholeWay, tables
<1> QED
  BY <1>2, <1>6, <1>7, <1>8, <1>10, OneClerk DEF tables

LEMMA ClerkMoves ==
    ASSUME AssetTypeOK, NEW k \in Clerks, clerk[k].at = "read",
           clerk' = [clerk EXCEPT ![k].at = "written"]
    PROVE  /\ clerk' \in [Clerks -> ClerkTask]
           /\ clerk'[k].at = "written" /\ clerk'[k].verb = clerk[k].verb /\ clerk'[k].row = clerk[k].row
           /\ \A j \in Clerks \ {k} : clerk'[j] = clerk[j]
<1>1. clerk \in [Clerks -> ClerkTask] /\ clerk[k] \in ClerkTask
  BY DEF AssetTypeOK
<1>2. clerk[k] \in [at : {"read", "written"}, verb : Verbs, row : Nat \ {0}]
  BY <1>1 DEF ClerkTask
<1>3. /\ [clerk[k] EXCEPT !.at = "written"] \in ClerkTask
      /\ [clerk[k] EXCEPT !.at = "written"].at = "written"
      /\ [clerk[k] EXCEPT !.at = "written"].verb = clerk[k].verb
      /\ [clerk[k] EXCEPT !.at = "written"].row = clerk[k].row
  BY <1>2 DEF ClerkTask
<1>4. clerk' = [clerk EXCEPT ![k] = [clerk[k] EXCEPT !.at = "written"]]
  BY <1>1
<1> QED
  BY <1>1, <1>3, <1>4

LEMMA WriteFirstStep ==
    ASSUME AssetInv, NEW k \in Clerks, WriteFirst(k)
    PROVE  AssetInv'
<1> DEFINE row == clerk[k].row
<1>1. AssetTypeOK /\ ClerkIsSound(k) /\ clerk[k].at = "read"
  BY DEF AssetInv, WriteFirst
<1>2. /\ row \in DOMAIN assets
      /\ clerk[k].verb = "issue" => row \in reviewed
      /\ clerk[k].verb = "golive" => WentTheWholeWay(row)
  BY <1>1 DEF ClerkIsSound
<1>3. /\ clerk' \in [Clerks -> ClerkTask]
      /\ clerk'[k].at = "written" /\ clerk'[k].verb = clerk[k].verb /\ clerk'[k].row = row
      /\ \A j \in Clerks \ {k} : clerk'[j] = clerk[j]
  BY <1>1, ClerkMoves DEF WriteFirst
<1>4. UNCHANGED <<prices, revenue, mintGas, creation, mintCall, mintEffect, reviewed>>
  BY DEF WriteFirst
<1>5. PICK address \in Contracts :
          \/ clerk[k].verb = "issue" /\ rounds' = rounds \cup {row} /\ assets' = assets
          \/ /\ clerk[k].verb = "golive" /\ rounds' = rounds
             /\ assets' = [assets EXCEPT ![row].contract = address]
  BY DEF WriteFirst, Contracts
<1>6. assets \in Seq(Asset)
  BY <1>1 DEF AssetTypeOK
<1>7. /\ assets' \in Seq(Asset) /\ DOMAIN assets' = DOMAIN assets
      /\ \A i \in DOMAIN assets :
            /\ assets'[i].offer = assets[i].offer /\ assets'[i].status = assets[i].status
            /\ assets[i].contract # NoContract => assets'[i].contract # NoContract \/ WentTheWholeWay(i)'
  <2>1. CASE assets' = assets
    BY <1>6, <2>1
  <2>2. CASE clerk[k].verb = "golive" /\ rounds' = rounds /\ assets' = [assets EXCEPT ![row].contract = address]
    <3>1. /\ assets' \in Seq(Asset) /\ DOMAIN assets' = DOMAIN assets
          /\ \A i \in DOMAIN assets :
                /\ assets'[i].offer = assets[i].offer /\ assets'[i].status = assets[i].status
                /\ i # row => assets'[i] = assets[i]
      BY <1>2, <1>6, <2>2, ContractWritten
    <3>2. row \in reviewed' /\ row \in rounds'
      BY <1>2, <1>4, <2>2 DEF WentTheWholeWay
    <3> QED
      BY <3>1, <3>2 DEF WentTheWholeWay
  <2> QED
    BY <1>5, <2>1, <2>2
<1>8. rounds' \in {rounds, rounds \cup {row}} /\ (clerk[k].verb = "issue" => row \in rounds')
  BY <1>5
<1>9. clerk[k].verb \in {"issue", "golive"}
  BY <1>5
<1>10. AssetTypeOK'
  BY <1>1, <1>2, <1>3, <1>4, <1>7, <1>8 DEF AssetTypeOK
<1>11. AssetsGrow
  BY <1>4, <1>7, <1>8 DEF AssetsGrow
<1>12. ClerkIsSound(k)'
  BY <1>2, <1>3, <1>4, <1>7, <1>8, <1>9 DEF ClerkIsSound, WentTheWholeWay
<1> QED
  BY <1>3, <1>4, <1>7, <1>10, <1>11, <1>12, OneClerk

LEMMA UpdateStatusStep ==
    ASSUME AssetInv, NEW k \in Clerks, UpdateStatus(k)
    PROVE  AssetInv'
<1> DEFINE row == clerk[k].row
           status == To[clerk[k].verb]
<1>1. AssetTypeOK /\ ClerkIsSound(k) /\ clerk[k].at \in {"read", "written"}
  BY DEF AssetInv, UpdateStatus
<1>2. row \in DOMAIN assets /\ clerk[k].verb \in Verbs
  <2>1. clerk[k] \in ClerkTask
    BY <1>1 DEF AssetTypeOK
  <2> QED
    BY <1>1, <2>1 DEF ClerkIsSound, ClerkTask
<1>3. status \in AssetStatus
  BY <1>2 DEF AssetStatus, To, Verbs
<1>4. /\ assets' = [assets EXCEPT ![row].status = status]
      /\ clerk' = [clerk EXCEPT ![k] = [at |-> "idle"]]
      /\ reviewed' \in {reviewed, reviewed \cup {row}}
      /\ clerk[k].verb = "approve" => row \in reviewed'
      /\ UNCHANGED <<rounds, prices, revenue, mintGas, creation, mintCall, mintEffect>>
  BY DEF UpdateStatus, Idle
<1>5. /\ assets' \in Seq(Asset) /\ DOMAIN assets' = DOMAIN assets /\ assets'[row].status = status
      /\ \A i \in DOMAIN assets :
            /\ assets'[i].offer = assets[i].offer /\ assets'[i].contract = assets[i].contract
            /\ i # row => assets'[i] = assets[i]
  <2>1. assets \in Seq(Asset)
    BY <1>1 DEF AssetTypeOK
  <2> HIDE DEF status
  <2> QED
    BY <1>2, <1>3, <1>4, <2>1, StatusWritten
<1>6. /\ clerk' \in [Clerks -> ClerkTask] /\ clerk'[k].at = "idle"
      /\ \A j \in Clerks \ {k} : clerk'[j] = clerk[j]
  BY <1>1, <1>4 DEF AssetTypeOK, ClerkTask
<1>7. AssetTypeOK'
  BY <1>1, <1>2, <1>4, <1>5, <1>6 DEF AssetTypeOK
<1>8. AssetsGrow
  BY <1>4, <1>5 DEF AssetsGrow
<1>9. \A i \in DOMAIN assets' : AssetIsSound(i)'
  <2>1. ASSUME NEW i \in DOMAIN assets, i # row PROVE AssetIsSound(i)'
    BY <1>5, <1>8, <2>1, OtherAsset
  <2>2. ASSUME NEW i, i = row PROVE AssetIsSound(i)'
    <3>1. /\ status = "approved" => clerk[k].verb = "approve"
          /\ status = "issuing" => clerk[k].verb = "issue"
          /\ status = "live" => clerk[k].verb = "golive"
      BY <1>2 DEF To, Verbs
    <3>2. clerk[k].verb \in {"issue", "golive"} => clerk[k].at = "written"
      BY DEF UpdateStatus
    <3>3. /\ status = "issuing" => row \in reviewed /\ row \in rounds
          /\ status = "live" => row \in reviewed /\ row \in rounds
      BY <1>1, <3>1, <3>2 DEF ClerkIsSound, WentTheWholeWay
    <3>4. assets'[i].status = status
      BY <1>2, <1>5, <2>2
    <3> HIDE DEF status
    <3> QED
      BY <1>4, <2>2, <3>1, <3>3, <3>4 DEF AssetIsSound, WentTheWholeWay
  <2> QED
    BY <1>5, <2>1, <2>2
<1>10. \A j \in Clerks : ClerkIsSound(j)'
  <2>1. ClerkIsSound(k)'
    BY <1>6 DEF ClerkIsSound
  <2> QED
    BY <1>6, <1>8, <2>1, OtherClerk
<1>11. (\A c \in Creations : CreationIsSound(c)') /\ CreationsAreApart' /\ RevenueIsSound'
  BY <1>4, <1>8, OtherCreation, SameRevenue DEF AssetInv, CreationsAreApart
<1> QED
  BY <1>7, <1>9, <1>10, <1>11 DEF AssetInv

LEMMA ClerkStopsStep ==
    ASSUME AssetInv, NEW k \in Clerks, ClerkStops(k)
    PROVE  AssetInv'
<1>1. /\ clerk' = [clerk EXCEPT ![k] = [at |-> "idle"]] /\ AssetTypeOK
      /\ UNCHANGED <<tables, creation, mintCall, mintEffect, reviewed>>
  BY DEF AssetInv, ClerkStops, Idle
<1>2. /\ clerk' \in [Clerks -> ClerkTask] /\ clerk'[k].at = "idle"
      /\ \A j \in Clerks \ {k} : clerk'[j] = clerk[j]
  BY <1>1 DEF AssetTypeOK, ClerkTask
<1>3. AssetTypeOK' /\ AssetsGrow
  BY <1>1, <1>2 DEF AssetTypeOK, AssetsGrow, tables
<1>4. ClerkIsSound(k)'
  BY <1>2 DEF ClerkIsSound
<1> QED
  BY <1>1, <1>2, <1>3, <1>4, OneClerk DEF tables

LEMMA AssetStepInv ==
    ASSUME AssetInv, [AssetNext]_assetVars
    PROVE  AssetInv'
<1>1. CASE UNCHANGED assetVars
  <2>1. AssetTypeOK' /\ AssetsGrow
    BY <1>1 DEF AssetInv, AssetTypeOK, AssetsGrow, assetVars, tables
  <2>2. UNCHANGED <<assets, creation, clerk, mintCall, mintEffect, revenue>>
    BY <1>1 DEF assetVars, tables
  <2>3. /\ \A i \in DOMAIN assets' : AssetIsSound(i)'
        /\ \A c \in Creations : CreationIsSound(c)'
        /\ \A k \in Clerks : ClerkIsSound(k)'
        /\ RevenueIsSound'
    BY <2>1, <2>2, OtherAsset, OtherCreation, OtherClerk, SameRevenue
  <2> QED
    BY <2>1, <2>2, <2>3 DEF AssetInv, CreationsAreApart
<1>2. ASSUME NEW c \in Creations, Create(c) \/ MineMint(c)
      PROVE  AssetInv'
  BY <1>2, CreateAssetStep, CreationStep, UpdateContractStep, ForceLiveStep, RecordMintRevenueStep,
     MineMintStep DEF Create
<1>3. ASSUME NEW k \in Clerks, Transition(k)
      PROVE  AssetInv'
  BY <1>3, ReadAssetStep, WriteFirstStep, UpdateStatusStep, ClerkStopsStep DEF Transition
<1> QED
  BY <1>1, <1>2, <1>3 DEF AssetNext

-----------------------------------------------------------------------------
\* Logins

LoginTask == [at : {"idle"}] \cup [at : {"checked", "right", "wrong"}, key : Keys]

\* the logins that passed the check of a key, and those about to record its failure
LoginsAt(stage, k) == {p \in Logins : login[p].at = stage /\ login[p].key = k}

Checked(k) == Cardinality(LoginsAt("checked", k))

Wrong(k) == Cardinality(LoginsAt("wrong", k))

GuardTyped ==
    /\ states \in [Keys -> [count : 0..(MaxFails - 1), left : -1..NoLock]]
    /\ login \in [Logins -> LoginTask]
    /\ tries \in [Keys -> Nat]

\* The failures of a key, while it is not locked, were counted or are about to be.  From
\* the moment it is locked only the logins that passed the check before can add one.
KeyIsBounded(k) ==
    /\ states[k].left = NoLock => tries[k] <= states[k].count + Wrong(k)
    /\ Over(k) => tries[k] <= Wrong(k)
    /\ Locked(k) \/ AtEnd(k) => tries[k] + Checked(k) <= MaxFails + Cardinality(Logins) - 1

GuardInv == GuardTyped /\ \A k \in Keys : KeyIsBounded(k)

LEMMA Counts ==
    ASSUME NEW k
    PROVE  /\ Checked(k) \in Nat /\ Wrong(k) \in Nat /\ Cardinality(Logins) \in Nat
           /\ Checked(k) + Wrong(k) <= Cardinality(Logins)
<1> DEFINE C == LoginsAt("checked", k)
           W == LoginsAt("wrong", k)
<1>1. IsFiniteSet(Logins)
  BY GuardAssumption
<1>2. C \cup W \in SUBSET Logins /\ C \cap W = {} /\ C \in SUBSET Logins /\ W \in SUBSET Logins
  BY DEF LoginsAt
<1> HIDE DEF C, W
<1>3. IsFiniteSet(C) /\ IsFiniteSet(W) /\ Cardinality(C \cup W) <= Cardinality(Logins)
  BY <1>1, <1>2, FS_Subset
<1>4. Cardinality(C \cup W) = Cardinality(C) + Cardinality(W) - Cardinality({})
  BY <1>2, <1>3, FS_Union
<1>5. Cardinality({}) = 0
  BY FS_EmptySet
<1>6. Cardinality(C) \in Nat /\ Cardinality(W) \in Nat /\ Cardinality(Logins) \in Nat
  BY <1>1, <1>3, FS_CardinalityType
<1> QED
  BY <1>3, <1>4, <1>5, <1>6 DEF Checked, Wrong, C, W

\* One login moves: how the counts of its key change, and that no other key's do.
LEMMA LoginMoves ==
    ASSUME GuardTyped, NEW p \in Logins, NEW k \in Keys, NEW task \in LoginTask,
           task.at # "idle" => task.key = k,
           login[p].at # "idle" => login[p].key = k,
           login' = [login EXCEPT ![p] = task]
    PROVE  /\ login' \in [Logins -> LoginTask]
           /\ \A q \in Keys \ {k} : Checked(q)' = Checked(q) /\ Wrong(q)' = Wrong(q)
           /\ LoginsAt("checked", k)' = IF task.at = "checked" THEN LoginsAt("checked", k) \cup {p}
                                                              ELSE LoginsAt("checked", k) \ {p}
           /\ LoginsAt("wrong", k)' = IF task.at = "wrong" THEN LoginsAt("wrong", k) \cup {p}
                                                          ELSE LoginsAt("wrong", k) \ {p}
<1>1. login \in [Logins -> LoginTask]
  BY DEF GuardTyped
<1>2. login' \in [Logins -> LoginTask] /\ login'[p] = task /\ \A q \in Logins \ {p} : login'[q] = login[q]
  BY <1>1
<1>3. ASSUME NEW q \in Keys \ {k}, NEW stage \in {"checked", "wrong"}
      PROVE  LoginsAt(stage, q)' = LoginsAt(stage, q)
  BY <1>2 DEF LoginsAt
<1>4. ASSUME NEW stage \in {"checked", "wrong"}
      PROVE  LoginsAt(stage, k)' = IF task.at = stage THEN LoginsAt(stage, k) \cup {p} ELSE LoginsAt(stage, k) \ {p}
  BY <1>2 DEF LoginsAt
<1> QED
  BY <1>2, <1>3, <1>4 DEF Checked, Wrong

LEMMA OneMoreOrLess ==
    ASSUME NEW k, NEW stage, NEW p \in Logins
    PROVE  LET S == LoginsAt(stage, k)
           IN  /\ Cardinality(S) \in Nat
               /\ p \in S => Cardinality(S \ {p}) = Cardinality(S) - 1 /\ S \cup {p} = S
               /\ p \notin S => Cardinality(S \cup {p}) = Cardinality(S) + 1 /\ S \ {p} = S
<1> DEFINE S == LoginsAt(stage, k)
<1>1. S \in SUBSET Logins /\ IsFiniteSet(Logins)
  BY GuardAssumption DEF LoginsAt
<1> HIDE DEF S
<1>2. IsFiniteSet(S)
  BY <1>1, FS_Subset
<1>3. Cardinality(S) \in Nat
  BY <1>2, FS_CardinalityType
<1>4. /\ p \in S => Cardinality(S \ {p}) = Cardinality(S) - 1
      /\ p \notin S => Cardinality(S \cup {p}) = Cardinality(S) + 1
  BY <1>2, FS_RemoveElement, FS_AddElement
<1>5. (p \in S => S \cup {p} = S) /\ (p \notin S => S \ {p} = S)
  OBVIOUS
<1> QED
  BY <1>3, <1>4, <1>5 DEF S

\* A key of which nothing changes but that logins leave its check stays bounded.
LEMMA OtherKey ==
    ASSUME GuardInv, NEW k \in Keys, states'[k] = states[k], tries'[k] = tries[k],
           Checked(k)' = Checked(k), Wrong(k)' = Wrong(k)
    PROVE  KeyIsBounded(k)'
  BY DEF GuardInv, KeyIsBounded, Over, Locked, AtEnd

LEMMA GuardInitInv == ASSUME GuardInit PROVE GuardInv
<1>1. GuardTyped
  BY GuardAssumption DEF GuardInit, GuardTyped, LoginTask, Absent, NoLock
<1>2. ASSUME NEW k \in Keys PROVE KeyIsBounded(k)
  <2>1. states[k].left = NoLock /\ states[k].count = 0 /\ tries[k] = 0
    BY DEF GuardInit, Absent
  <2> QED
    BY <2>1, Counts, GuardAssumption DEF KeyIsBounded, Over, Locked, AtEnd, NoLock
<1> QED
  BY <1>1, <1>2 DEF GuardInv

\* A key that was released.
LEMMA Released ==
    ASSUME NEW k, tries'[k] = 0, states'[k].left = NoLock, states'[k].count = 0
    PROVE  KeyIsBounded(k)'
<1>1. Wrong(k)' \in Nat
  <2>1. LoginsAt("wrong", k)' \in SUBSET Logins
    BY DEF LoginsAt
  <2> QED
    BY <2>1, GuardAssumption, FS_Subset, FS_CardinalityType DEF Wrong
<1> QED
  BY <1>1, GuardAssumption DEF KeyIsBounded, Over, Locked, AtEnd, NoLock

LEMMA CheckStep ==
    ASSUME GuardInv, NEW p \in Logins, Check(p)
    PROVE  GuardInv'
<1>1. GuardTyped /\ login[p].at = "idle"
  BY DEF GuardInv, Check
<1> DEFINE Turned == UNCHANGED <<states, login, tries>>
           Admitted(k) ==
               /\ states' = [states EXCEPT ![k] = AfterCheck(k)]
               /\ login' = IF ~Locked(k) THEN [login EXCEPT ![p] = [at |-> "checked", key |-> k]]
                                        ELSE login
               /\ tries' = IF AtEnd(k) THEN [tries EXCEPT ![k] = 0] ELSE tries
<1>2. PICK k \in Keys : Turned \/ Admitted(k)
  <2>1. PICK k \in Keys :
            LET allowed == Len(Kept(k[1])) < Limit
            IN  /\ states' = IF allowed THEN [states EXCEPT ![k] = AfterCheck(k)] ELSE states
                /\ login' = IF allowed /\ ~Locked(k)
                            THEN [login EXCEPT ![p] = [at |-> "checked", key |-> k]]
                            ELSE login
                /\ tries' = IF allowed /\ AtEnd(k) THEN [tries EXCEPT ![k] = 0] ELSE tries
    BY DEF Check
  <2>2. CASE Len(Kept(k[1])) < Limit
    BY <2>1, <2>2
  <2>3. CASE ~(Len(Kept(k[1])) < Limit)
    BY <2>1, <2>3
  <2> QED
    BY <2>2, <2>3
<1>3. CASE Turned \/ Locked(k)
  <2>1. states' = states /\ login' = login /\ tries' = tries
    <3>1. Locked(k) => AfterCheck(k) = states[k] /\ ~AtEnd(k)
      BY GuardAssumption DEF AfterCheck, Locked, AtEnd, Over
    <3> QED
      BY <1>1, <1>2, <1>3, <3>1 DEF GuardTyped
  <2>2. \A q \in Keys : KeyIsBounded(q)'
    BY <2>1, OtherKey DEF Checked, Wrong, LoginsAt
  <2> QED
    BY <1>1, <2>1, <2>2 DEF GuardInv, GuardTyped
<1>4. CASE Admitted(k) /\ ~Locked(k)
  <2> DEFINE task == [at |-> "checked", key |-> k]
  <2>1. /\ states' = [states EXCEPT ![k] = AfterCheck(k)]
        /\ login' = [login EXCEPT ![p] = task]
        /\ tries' = IF AtEnd(k) THEN [tries EXCEPT ![k] = 0] ELSE tries
    BY <1>2, <1>4
  <2>2. task \in LoginTask /\ task.at = "checked" /\ task.key = k
    BY DEF LoginTask
  <2> HIDE DEF task
  <2>3. /\ login' \in [Logins -> LoginTask]
        /\ \A q \in Keys \ {k} : Checked(q)' = Checked(q) /\ Wrong(q)' = Wrong(q)
        /\ LoginsAt("wrong", k)' = LoginsAt("wrong", k) \ {p}
    BY <1>1, <2>1, <2>2, LoginMoves
  <2>4. Wrong(k)' = Wrong(k)
    <3>1. p \notin LoginsAt("wrong", k)
      BY <1>1 DEF LoginsAt
    <3> QED
      BY <2>3, <3>1, OneMoreOrLess DEF Wrong
  <2>5. GuardTyped'
    <3>1. AfterCheck(k) \in [count : 0..(MaxFails - 1), left : -1..NoLock]
      BY <1>1, GuardAssumption DEF GuardTyped, AfterCheck, Absent, NoLock
    <3>2. states' \in [Keys -> [count : 0..(MaxFails - 1), left : -1..NoLock]]
      BY <1>1, <2>1, <3>1 DEF GuardTyped
    <3> QED
      BY <1>1, <2>1, <2>3, <3>2 DEF GuardTyped
  <2>6. ASSUME NEW q \in Keys \ {k} PROVE KeyIsBounded(q)'
    <3>1. states'[q] = states[q] /\ tries'[q] = tries[q]
      BY <1>1, <2>1 DEF GuardTyped
    <3> QED
      BY <2>3, <3>1, OtherKey
  <2>7. KeyIsBounded(k)'
    <3>1. states'[k] = AfterCheck(k) /\ tries'[k] = IF AtEnd(k) THEN 0 ELSE tries[k]
      BY <1>1, <2>1 DEF GuardTyped
    <3>2. states[k].left \in -1..NoLock /\ LockTicks \in Nat /\ tries[k] \in Nat /\ KeyIsBounded(k)
      BY <1>1, GuardAssumption DEF GuardTyped, GuardInv
    <3>3. CASE AtEnd(k)
      <4>1. AfterCheck(k) = Absent
        BY <3>3 DEF AfterCheck
      <4> QED
        BY <3>1, <3>3, <4>1, Released DEF Absent
    <3>4. CASE Over(k)
      <4>1. AfterCheck(k) = Absent /\ ~AtEnd(k) /\ tries[k] <= Wrong(k)
        BY <3>2, <3>4 DEF AfterCheck, Over, AtEnd, KeyIsBounded
      <4>2. states'[k].left = LockTicks + 1 /\ states'[k].count = 0 /\ tries'[k] = tries[k]
        BY <3>1, <4>1 DEF Absent, NoLock
      <4>3. tries'[k] <= states'[k].count + Wrong(k)'
        BY <2>4, <4>1, <4>2, Counts
      <4> QED
        BY <3>2, <4>2, <4>3 DEF KeyIsBounded, Over, AtEnd, Locked, NoLock
    <3>5. CASE ~AtEnd(k) /\ ~Over(k)
      <4>1. states'[k] = states[k] /\ tries'[k] = tries[k] /\ states[k].left = LockTicks + 1
        BY <1>4, <3>1, <3>2, <3>5 DEF AfterCheck, Over, AtEnd, Locked, NoLock
      <4>2. tries'[k] <= states'[k].count + Wrong(k)'
        BY <2>4, <3>2, <4>1 DEF KeyIsBounded, NoLock
      <4> QED
        BY <3>2, <4>1, <4>2 DEF KeyIsBounded, Over, AtEnd, Locked, NoLock
    <3> QED
      BY <3>3, <3>4, <3>5
  <2> QED
    BY <2>5, <2>6, <2>7 DEF GuardInv
<1> QED
  BY <1>2, <1>3, <1>4

LEMMA AuthenticateStep ==
    ASSUME GuardInv, NEW p \in Logins, Authenticate(p)
    PROVE  GuardInv'
<1>1. GuardTyped /\ login[p].at = "checked" /\ login[p] \in LoginTask
  BY DEF GuardInv, GuardTyped, Authenticate
<1>2. PICK k \in Keys : login[p].key = k
  BY <1>1 DEF LoginTask
<1>3. PICK stage \in {"right", "wrong"} :
          /\ login' = [login EXCEPT ![p].at = stage]
          /\ states' = states
          /\ tries' = IF stage = "wrong" THEN [tries EXCEPT ![k] = tries[k] + 1] ELSE tries
  <2>1. k = login[p].key
    BY <1>2
  <2>2. CASE login' = [login EXCEPT ![p].at = "right"] /\ UNCHANGED tries
    BY <2>2 DEF Authenticate
  <2>3. CASE /\ login' = [login EXCEPT ![p].at = "wrong"]
             /\ tries' = [tries EXCEPT ![login[p].key] = @ + 1]
    BY <2>1, <2>3 DEF Authenticate
  <2> QED
    BY <2>2, <2>3 DEF Authenticate
<1> DEFINE task == [login[p] EXCEPT !.at = stage]
<1>4. task \in LoginTask /\ task.at = stage /\ task.key = k /\ login' = [login EXCEPT ![p] = task]
  <2>1. login[p] \in [at : {"checked", "right", "wrong"}, key : Keys]
    BY <1>1 DEF LoginTask
  <2>2. task \in [at : {"checked", "right", "wrong"}, key : Keys] /\ task.at = stage /\ task.key = k
    BY <1>2, <2>1
  <2> QED
    BY <1>1, <1>3, <2>2 DEF LoginTask, GuardTyped
<1> HIDE DEF task
<1>5. /\ login' \in [Logins -> LoginTask]
      /\ \A q \in Keys \ {k} : Checked(q)' = Checked(q) /\ Wrong(q)' = Wrong(q)
      /\ LoginsAt("checked", k)' = LoginsAt("checked", k) \ {p}
      /\ LoginsAt("wrong", k)' = IF stage = "wrong" THEN LoginsAt("wrong", k) \cup {p}
                                                    ELSE LoginsAt("wrong", k) \ {p}
  BY <1>1, <1>2, <1>4, LoginMoves
<1>6. p \in LoginsAt("checked", k) /\ p \notin LoginsAt("wrong", k)
  BY <1>1, <1>2 DEF LoginsAt
<1>7. /\ Checked(k)' = Checked(k) - 1
      /\ Wrong(k)' = IF stage = "wrong" THEN Wrong(k) + 1 ELSE Wrong(k)
  <2>1. Checked(k)' = Cardinality(LoginsAt("checked", k) \ {p})
    BY <1>5 DEF Checked
  <2>2. CASE stage = "wrong"
    <3>1. Wrong(k)' = Cardinality(LoginsAt("wrong", k) \cup {p})
      BY <1>5, <2>2 DEF Wrong
    <3> QED
      BY <1>6, <2>1, <2>2, <3>1, OneMoreOrLess DEF Checked, Wrong
  <2>3. CASE stage = "right"
    <3>1. Wrong(k)' = Cardinality(LoginsAt("wrong", k) \ {p})
      BY <1>5, <2>3 DEF Wrong
    <3> QED
      BY <1>6, <2>1, <2>3, <3>1, OneMoreOrLess DEF Checked, Wrong
  <2> QED
    BY <2>2, <2>3
<1>8. GuardTyped'
  BY <1>1, <1>3, <1>5 DEF GuardTyped
<1>9. ASSUME NEW q \in Keys \ {k} PROVE KeyIsBounded(q)'
  <2>1. states'[q] = states[q] /\ tries'[q] = tries[q]
    BY <1>1, <1>3 DEF GuardTyped
  <2> QED
    BY <1>5, <2>1, OtherKey
<1>10. KeyIsBounded(k)'
  <2>1. states'[k] = states[k] /\ tries'[k] = IF stage = "wrong" THEN tries[k] + 1 ELSE tries[k]
    BY <1>1, <1>3 DEF GuardTyped
  <2>2. /\ states[k].count \in Nat /\ tries[k] \in Nat /\ MaxFails \in Nat
        /\ Checked(k) \in Nat /\ Wrong(k) \in Nat /\ Cardinality(Logins) \in Nat
    <3>1. states[k] \in [count : 0..(MaxFails - 1), left : -1..NoLock]
      BY <1>1 DEF GuardTyped
    <3> QED
      BY <1>1, <3>1, GuardAssumption, Counts DEF GuardTyped
  <2>3. KeyIsBounded(k)
    BY DEF GuardInv
  <2> QED
    BY <1>7, <2>1, <2>2, <2>3 DEF KeyIsBounded, Over, AtEnd, Locked
<1> QED
  BY <1>8, <1>9, <1>10 DEF GuardInv

LEMMA RecordFailStep ==
    ASSUME GuardInv, NEW p \in Logins, RecordFail(p)
    PROVE  GuardInv'
<1>1. GuardTyped /\ login[p].at = "wrong" /\ login[p] \in LoginTask
  BY DEF GuardInv, GuardTyped, RecordFail
<1>2. PICK k \in Keys : login[p].key = k
  BY <1>1 DEF LoginTask
<1> DEFINE state == IF Counted(k) >= MaxFails THEN [count |-> 0, left |-> LockTicks]
                    ELSE [count |-> Counted(k), left |-> IF Over(k) THEN NoLock ELSE states[k].left]
           task == [at |-> "idle"]
<1>3. states' = [states EXCEPT ![k] = state] /\ login' = [login EXCEPT ![p] = task] /\ tries' = tries
  BY <1>2 DEF RecordFail
<1>4. task \in LoginTask /\ task.at = "idle"
  BY DEF LoginTask
<1>5. /\ states[k].count \in 0..(MaxFails - 1) /\ states[k].left \in -1..NoLock /\ tries[k] \in Nat
      /\ MaxFails \in Nat \ {0} /\ LockTicks \in Nat \ {0}
      /\ KeyIsBounded(k)
  <2>1. states[k] \in [count : 0..(MaxFails - 1), left : -1..NoLock]
    BY <1>1 DEF GuardTyped
  <2> QED
    BY <1>1, <2>1, GuardAssumption DEF GuardTyped, GuardInv
<1>6. state \in [count : 0..(MaxFails - 1), left : -1..NoLock]
  <2>1. Counted(k) \in Nat
    BY <1>5 DEF Counted
  <2>2. CASE Counted(k) >= MaxFails
    BY <1>5, <2>2 DEF NoLock
  <2>3. CASE ~(Counted(k) >= MaxFails)
    BY <1>5, <2>1, <2>3 DEF NoLock
  <2> QED
    BY <2>2, <2>3
<1> HIDE DEF task
<1>7. /\ login' \in [Logins -> LoginTask]
      /\ \A q \in Keys \ {k} : Checked(q)' = Checked(q) /\ Wrong(q)' = Wrong(q)
      /\ LoginsAt("checked", k)' = LoginsAt("checked", k) \ {p}
      /\ LoginsAt("wrong", k)' = LoginsAt("wrong", k) \ {p}
  BY <1>1, <1>2, <1>3, <1>4, LoginMoves
<1>8. p \notin LoginsAt("checked", k) /\ p \in LoginsAt("wrong", k)
  BY <1>1, <1>2 DEF LoginsAt
<1>9. Checked(k)' = Checked(k) /\ Wrong(k)' = Wrong(k) - 1
  <2>1. /\ Checked(k)' = Cardinality(LoginsAt("checked", k) \ {p})
        /\ Wrong(k)' = Cardinality(LoginsAt("wrong", k) \ {p})
    BY <1>7 DEF Checked, Wrong
  <2> QED
    BY <1>8, <2>1, OneMoreOrLess DEF Checked, Wrong
<1>10. states'[k] = state /\ tries'[k] = tries[k]
  BY <1>1, <1>3 DEF GuardTyped
<1>11. GuardTyped'
  <2> HIDE DEF state
  <2> QED
    BY <1>1, <1>3, <1>6, <1>7 DEF GuardTyped
<1>12. ASSUME NEW q \in Keys \ {k} PROVE KeyIsBounded(q)'
  <2> HIDE DEF state
  <2>1. states'[q] = states[q] /\ tries'[q] = tries[q]
    BY <1>1, <1>3 DEF GuardTyped
  <2> QED
    BY <1>7, <2>1, OtherKey
<1>13. KeyIsBounded(k)'
  <2>1. /\ Checked(k) \in Nat /\ Wrong(k) \in Nat /\ Cardinality(Logins) \in Nat
        /\ Checked(k) + Wrong(k) <= Cardinality(Logins)
    BY Counts
  <2>2. CASE Counted(k) >= MaxFails
    <3>1. states'[k].left = LockTicks
      BY <1>10, <2>2
    <3>2. tries[k] + Checked(k) <= MaxFails + Cardinality(Logins) - 1
      BY <1>5, <2>1 DEF KeyIsBounded, Over, AtEnd, Locked, NoLock
    <3>3. tries'[k] + Checked(k)' <= MaxFails + Cardinality(Logins) - 1
      BY <1>9, <1>10, <3>2
    <3> QED
      BY <1>5, <3>1, <3>3 DEF KeyIsBounded, Over, AtEnd, Locked, NoLock
  <2>3. CASE ~(Counted(k) >= MaxFails)
    <3>1. states'[k].count = Counted(k) /\ states'[k].left = IF Over(k) THEN NoLock ELSE states[k].left
      BY <1>10, <2>3
    <3>2. CASE Over(k) \/ states[k].left = NoLock
      <4>1. states'[k].left = NoLock /\ tries[k] <= states'[k].count + Wrong(k) - 1
        BY <1>5, <2>1, <3>1, <3>2 DEF KeyIsBounded, Over, Counted, NoLock
      <4>2. tries'[k] <= states'[k].count + Wrong(k)'
        BY <1>5, <1>9, <1>10, <2>1, <3>1, <4>1 DEF Counted
      <4> QED
        BY <1>5, <4>1, <4>2 DEF KeyIsBounded, Over, AtEnd, Locked, NoLock
    <3>3. CASE Locked(k) \/ AtEnd(k)
      <4>1. states'[k].left = states[k].left /\ tries'[k] + Checked(k)' <= MaxFails + Cardinality(Logins) - 1
        BY <1>5, <1>9, <1>10, <3>1, <3>3 DEF KeyIsBounded, Over, AtEnd, Locked
      <4> QED
        BY <1>5, <3>3, <4>1 DEF KeyIsBounded, Over, AtEnd, Locked, NoLock
    <3> QED
      BY <1>5, <3>2, <3>3 DEF Over, AtEnd, Locked, NoLock
  <2> QED
    BY <2>2, <2>3
<1> QED
  BY <1>11, <1>12, <1>13 DEF GuardInv

LEMMA ResetStep ==
    ASSUME GuardInv, NEW p \in Logins, Reset(p)
    PROVE  GuardInv'
<1>1. GuardTyped /\ login[p].at = "right" /\ login[p] \in LoginTask
  BY DEF GuardInv, GuardTyped, Reset
<1>2. PICK k \in Keys : login[p].key = k
  BY <1>1 DEF LoginTask
<1> DEFINE task == [at |-> "idle"]
<1>3. /\ states' = [states EXCEPT ![k] = Absent] /\ tries' = [tries EXCEPT ![k] = 0]
      /\ login' = [login EXCEPT ![p] = task]
  BY <1>2 DEF Reset
<1>4. task \in LoginTask /\ task.at = "idle"
  BY DEF LoginTask
<1> HIDE DEF task
<1>5. /\ login' \in [Logins -> LoginTask]
      /\ \A q \in Keys \ {k} : Checked(q)' = Checked(q) /\ Wrong(q)' = Wrong(q)
  BY <1>1, <1>2, <1>3, <1>4, LoginMoves
<1>6. GuardTyped'
  <2>1. Absent \in [count : 0..(MaxFails - 1), left : -1..NoLock]
    BY GuardAssumption DEF Absent, NoLock
  <2> QED
    BY <1>1, <1>3, <1>5, <2>1 DEF GuardTyped
<1>7. ASSUME NEW q \in Keys \ {k} PROVE KeyIsBounded(q)'
  <2>1. states'[q] = states[q] /\ tries'[q] = tries[q]
    BY <1>1, <1>3 DEF GuardTyped
  <2> QED
    BY <1>5, <2>1, OtherKey
<1>8. KeyIsBounded(k)'
  BY <1>1, <1>3, Released DEF GuardTyped, Absent
<1> QED
  BY <1>6, <1>7, <1>8 DEF GuardInv

LEMMA TickStep ==
    ASSUME GuardInv, Tick
    PROVE  GuardInv'
<1>1. /\ GuardTyped /\ login' = login
      /\ states' = [k \in Keys |->
             IF states[k].left \in 0..LockTicks THEN [states[k] EXCEPT !.left = @ - 1] ELSE states[k]]
      /\ tries' = [k \in Keys |-> IF AtEnd(k) THEN 0 ELSE tries[k]]
  BY DEF GuardInv, Tick
<1>2. ASSUME NEW k \in Keys
      PROVE  /\ states'[k] \in [count : 0..(MaxFails - 1), left : -1..NoLock]
             /\ tries'[k] \in Nat
             /\ KeyIsBounded(k)'
  <2>1. states[k] \in [count : 0..(MaxFails - 1), left : -1..NoLock] /\ tries[k] \in Nat
    BY <1>1 DEF GuardTyped
  <2>2. /\ states[k].count \in 0..(MaxFails - 1) /\ states[k].left \in -1..NoLock
        /\ MaxFails \in Nat \ {0} /\ LockTicks \in Nat \ {0} /\ KeyIsBounded(k)
    BY <2>1, GuardAssumption DEF GuardInv
  <2>3. tries'[k] = IF AtEnd(k) THEN 0 ELSE tries[k]
    BY <1>1
  <2>4. /\ states'[k].count = states[k].count
        /\ states'[k].left = IF states[k].left \in 0..LockTicks THEN states[k].left - 1 ELSE states[k].left
        /\ states'[k] \in [count : 0..(MaxFails - 1), left : -1..NoLock]
    BY <1>1, <2>1, <2>2 DEF NoLock
  <2>5. Checked(k)' = Checked(k) /\ Wrong(k)' = Wrong(k) /\ Wrong(k) \in Nat
    BY <1>1, Counts DEF Checked, Wrong, LoginsAt
  <2>6. KeyIsBounded(k)'
    BY <2>1, <2>2, <2>3, <2>4, <2>5 DEF KeyIsBounded, Over, AtEnd, Locked, NoLock
  <2> QED
    BY <2>1, <2>3, <2>4, <2>6
<1>3. GuardTyped'
  BY <1>1, <1>2 DEF GuardTyped
<1> QED
  BY <1>2, <1>3 DEF GuardInv

LEMMA GuardStepInv ==
    ASSUME GuardInv, [GuardNext]_guardVars
    PROVE  GuardInv'
<1>1. ASSUME UNCHANGED <<states, login, tries>> PROVE GuardInv'
  BY <1>1, OtherKey DEF GuardInv, GuardTyped, Checked, Wrong, LoginsAt
<1>2. CASE UNCHANGED guardVars
  BY <1>1, <1>2 DEF guardVars
<1>3. CASE \E s \in Signups : Register(s)
  BY <1>1, <1>3 DEF Register, FindByEmail, CreateUser
<1>4. CASE \E p \in Logins : Login(p)
  BY <1>4, CheckStep, AuthenticateStep, RecordFailStep, ResetStep DEF Login
<1>5. CASE Tick
  BY <1>5, TickStep
<1>6. CASE Restart
  <2>1. GuardTyped'
    BY <1>6, GuardAssumption DEF Restart, GuardTyped, LoginTask, Absent, NoLock
  <2>2. ASSUME NEW k \in Keys PROVE KeyIsBounded(k)'
    <3>1. tries'[k] = 0 /\ states'[k] = Absent
      BY <1>6 DEF Restart
    <3> QED
      BY <3>1, Released DEF Absent
  <2> QED
    BY <2>1, <2>2 DEF GuardInv
<1> QED
  BY <1>2, <1>3, <1>4, <1>5, <1>6 DEF GuardNext

LEMMA GuardInvImplies == ASSUME GuardInv PROVE FailuresAreBounded
<1>1. ASSUME NEW k \in Keys PROVE tries[k] <= MaxFails + Cardinality(Logins) - 1
  <2>1. states[k] \in [count : 0..(MaxFails - 1), left : -1..NoLock] /\ tries[k] \in Nat
    BY DEF GuardInv, GuardTyped
  <2>2. /\ states[k].count \in 0..(MaxFails - 1) /\ states[k].left \in -1..NoLock
        /\ MaxFails \in Nat \ {0} /\ LockTicks \in Nat \ {0} /\ KeyIsBounded(k)
    BY <2>1, GuardAssumption DEF GuardInv
  <2>3. /\ Checked(k) \in Nat /\ Wrong(k) \in Nat /\ Cardinality(Logins) \in Nat
        /\ Checked(k) + Wrong(k) <= Cardinality(Logins)
    BY Counts
  <2> QED
    BY <2>1, <2>2, <2>3 DEF KeyIsBounded, Over, AtEnd, Locked, NoLock
<1> QED
  BY <1>1 DEF FailuresAreBounded

-----------------------------------------------------------------------------
\* The event listener

Ascending(s) == \A i, j \in DOMAIN s : i < j => s[i] < s[j]
UpTo(s, b) == \A i \in DOMAIN s : s[i] <= b
After(s, a) == \A i \in DOMAIN s : a < s[i]

\* How far a token has been asked for: while the listener is off, no further than the head,
\* at which it starts again.
Reached(t) == IF listener = "off" THEN head ELSE Passed(t)

\* What was handed over is in order and not past the point reached, and everything between
\* the start and the point reached was handed over or lost.
TokenInv(t) ==
    /\ Ascending(handed[t])
    /\ UpTo(handed[t], Reached(t))
    /\ listener # "off" => (begun + 1)..Passed(t) \subseteq Range(handed[t]) \cup lost[t]

ListenerInv ==
    /\ ListenerTypeOK
    /\ listener # "off" => begun <= lastBlock
    /\ listener = "polling" => lastBlock < endBlock
    /\ \A t \in Tokens : TokenInv(t)

\* The smaller of the head and the end of the batch.
LEMMA SmallerOfTwo ==
    ASSUME NEW a \in Int, NEW b \in Int
    PROVE  Min({a, b}) = IF a <= b THEN a ELSE b
<1>1. CASE a <= b
  BY <1>1 DEF Min
<1>2. CASE ~(a <= b)
  BY <1>2 DEF Min
<1> QED
  BY <1>1, <1>2

\* The blocks of a poll are those after the cursor, in order.
LEMMA BlocksInOrder ==
    ASSUME ListenerTypeOK, lastBlock < endBlock
    PROVE  /\ Blocks \in Seq(1..head)
           /\ Ascending(Blocks)
           /\ Range(Blocks) = (lastBlock + 1)..endBlock
<1>1. lastBlock \in Nat /\ endBlock \in 0..head /\ head \in Nat
  BY ListenerAssumption DEF ListenerTypeOK
<1>2. DOMAIN Blocks = 1..(endBlock - lastBlock) /\ \A i \in DOMAIN Blocks : Blocks[i] = lastBlock + i
  BY DEF Blocks
<1>3. Blocks \in Seq(1..head)
  <2>1. Blocks \in [1..(endBlock - lastBlock) -> 1..head]
    BY <1>1 DEF Blocks
  <2> QED
    BY <1>1, <2>1
<1>4. Ascending(Blocks)
  BY <1>1, <1>2 DEF Ascending
<1>5. Range(Blocks) = (lastBlock + 1)..endBlock
  <2>1. ASSUME NEW x \in Range(Blocks) PROVE x \in (lastBlock + 1)..endBlock
    BY <1>1, <1>2, <2>1 DEF Range
  <2>2. ASSUME NEW x \in (lastBlock + 1)..endBlock PROVE x \in Range(Blocks)
    <3>1. x - lastBlock \in DOMAIN Blocks
      BY <1>1, <1>2
    <3>2. Blocks[x - lastBlock] = x
      BY <1>1, <1>2, <3>1
    <3> QED
      BY <3>1, <3>2 DEF Range
  <2> QED
    BY <2>1, <2>2
<1> QED
  BY <1>3, <1>4, <1>5

\* Blocks in order after blocks in order that end before them are in order.
LEMMA InOrderAfter ==
    ASSUME NEW s \in Seq(Nat), NEW u \in Seq(Nat), NEW a \in Nat, NEW b \in Nat,
           Ascending(s), Ascending(u), UpTo(s, a), After(u, a), UpTo(u, b), a <= b
    PROVE  /\ Ascending(s \o u)
           /\ UpTo(s \o u, b)
           /\ Range(s \o u) = Range(s) \cup Range(u)
<1> DEFINE su == s \o u
<1>1. /\ Len(s) \in Nat /\ Len(u) \in Nat
      /\ DOMAIN s = 1..Len(s) /\ DOMAIN u = 1..Len(u) /\ DOMAIN su = 1..(Len(s) + Len(u))
      /\ \A i \in 1..Len(s) : su[i] = s[i]
      /\ \A i \in (Len(s) + 1)..(Len(s) + Len(u)) : su[i] = u[i - Len(s)]
  OBVIOUS
<1>2. \A i \in DOMAIN s : s[i] \in Nat
  OBVIOUS
<1>3. \A i \in DOMAIN u : u[i] \in Nat
  OBVIOUS
<1> HIDE DEF su
<1>10. ASSUME NEW i \in DOMAIN su, i <= Len(s)
      PROVE  i \in DOMAIN s /\ su[i] = s[i] /\ s[i] \in Nat /\ s[i] <= a
  BY <1>1, <1>2, <1>10 DEF UpTo
<1>11. ASSUME NEW i \in DOMAIN su, i > Len(s)
      PROVE  i - Len(s) \in DOMAIN u /\ su[i] = u[i - Len(s)] /\ u[i - Len(s)] \in Nat
  <2>1. i - Len(s) \in DOMAIN u /\ i \in (Len(s) + 1)..(Len(s) + Len(u))
    BY <1>1, <1>11
  <2>2. su[i] = u[i - Len(s)]
    BY <1>1, <2>1
  <2>3. u[i - Len(s)] \in Nat
    BY <1>3, <2>1
  <2> QED
    BY <2>1, <2>2, <2>3
<1>4. ASSUME NEW i \in DOMAIN su, NEW j \in DOMAIN su, i < j PROVE su[i] < su[j]
  <2>1. CASE j <= Len(s)
    <3>1. i <= Len(s)
      BY <1>1, <1>4, <2>1
    <3>2. i \in DOMAIN s /\ j \in DOMAIN s /\ su[i] = s[i] /\ su[j] = s[j]
      BY <1>10, <2>1, <3>1
    <3> QED
      BY <1>4, <3>2 DEF Ascending
  <2>2. CASE i > Len(s)
    <3>1. i - Len(s) < j - Len(s) /\ j > Len(s)
      BY <1>1, <1>4, <2>2
    <3> QED
      BY <1>11, <2>2, <3>1 DEF Ascending
  <2>3. CASE i <= Len(s) /\ j > Len(s)
    BY <1>10, <1>11, <2>3 DEF After
  <2> QED
    BY <1>1, <2>1, <2>2, <2>3
<1>5. ASSUME NEW i \in DOMAIN su PROVE su[i] <= b
  <2>1. CASE i <= Len(s)
    BY <1>10, <2>1
  <2>2. CASE i > Len(s)
    BY <1>11, <2>2 DEF UpTo
  <2> QED
    BY <1>1, <2>1, <2>2
<1>6. ASSUME NEW x \in Range(su) PROVE x \in Range(s) \cup Range(u)
  <2>1. PICK i \in DOMAIN su : su[i] = x
    BY DEF Range
  <2>2. CASE i <= Len(s)
    BY <1>10, <2>1, <2>2 DEF Range
  <2>3. CASE i > Len(s)
    BY <1>11, <2>1, <2>3 DEF Range
  <2> QED
    BY <1>1, <2>2, <2>3
<1>7. ASSUME NEW x \in Range(s) \cup Range(u) PROVE x \in Range(su)
  <2>1. CASE x \in Range(s)
    <3>1. PICK i \in DOMAIN s : s[i] = x
      BY <2>1 DEF Range
    <3>2. i \in DOMAIN su /\ su[i] = x
      BY <1>1, <3>1
    <3> QED
      BY <3>2 DEF Range
  <2>2. CASE x \in Range(u)
    <3>1. PICK i \in DOMAIN u : u[i] = x
      BY <2>2 DEF Range
    <3>2. /\ Len(s) + i \in DOMAIN su
          /\ Len(s) + i \in (Len(s) + 1)..(Len(s) + Len(u)) /\ (Len(s) + i) - Len(s) = i
      BY <1>1
    <3>3. su[Len(s) + i] = x
      BY <1>1, <3>1, <3>2
    <3> QED
      BY <3>2, <3>3 DEF Range
  <2> QED
    BY <2>1, <2>2
<1> QED
  BY <1>4, <1>5, <1>6, <1>7 DEF Ascending, UpTo, su

LEMMA ListenerInitInv == ASSUME ListenerInit PROVE ListenerInv
<1>1. ListenerTypeOK /\ listener = "off"
  BY ListenerAssumption DEF ListenerInit, ListenerTypeOK
<1>2. ASSUME NEW t \in Tokens PROVE DOMAIN handed[t] = {}
  BY DEF ListenerInit
<1> QED
  BY <1>1, <1>2 DEF ListenerInv, TokenInv, Ascending, UpTo

\* A token that is not asked for, in a step that loses nothing and goes no less far.
LEMMA TokenUntouched ==
    ASSUME ListenerInv, ListenerTypeOK', NEW t \in Tokens, handed'[t] = handed[t], lost'[t] = lost[t],
           Reached(t)' >= Reached(t),
           (listener # "off")' =>
               \/ begun' = Passed(t)'
               \/ listener # "off" /\ begun' = begun /\ Passed(t)' = Passed(t)
    PROVE  TokenInv(t)'
<1>1. /\ TokenInv(t) /\ Reached(t) \in Nat /\ Reached(t)' \in Nat
      /\ handed[t] \in Seq(1..head) /\ head \in Nat /\ begun' \in Nat
  BY ListenerAssumption DEF ListenerInv, ListenerTypeOK, Reached, Passed
<1>2. Ascending(handed[t])'
  BY <1>1 DEF TokenInv, Ascending
<1>3. UpTo(handed[t], Reached(t))'
  <2>1. ASSUME NEW i \in DOMAIN handed[t] PROVE handed[t][i] <= Reached(t)'
    <3>1. handed[t][i] \in 1..head /\ handed[t][i] <= Reached(t)
      BY <1>1 DEF TokenInv, UpTo
    <3> QED
      BY <1>1, <3>1
  <2> QED
    BY <2>1 DEF UpTo
<1>4. ASSUME (listener # "off")' PROVE (begun + 1)'..Passed(t)' \subseteq Range(handed'[t]) \cup lost'[t]
  <2>1. CASE begun' = Passed(t)'
    BY <1>1, <2>1
  <2>2. CASE begun' # Passed(t)'
    BY <1>1, <1>4, <2>2 DEF TokenInv, Reached
  <2> QED
    BY <2>1, <2>2
<1> QED
  BY <1>2, <1>3, <1>4 DEF TokenInv

LEMMA MineBlockStep == ASSUME ListenerInv, MineBlock PROVE ListenerInv'
<1>1. ListenerTypeOK'
  BY ListenerAssumption DEF ListenerInv, ListenerTypeOK, MineBlock, cursor, events
<1>2. ASSUME NEW t \in Tokens PROVE TokenInv(t)'
  <2>1. Reached(t)' >= Reached(t) /\ Passed(t)' = Passed(t)
    BY ListenerAssumption DEF ListenerInv, ListenerTypeOK, MineBlock, cursor, events, Reached, Passed
  <2> QED
    BY <1>1, <2>1, TokenUntouched DEF MineBlock, cursor, events
<1> QED
  BY <1>1, <1>2 DEF ListenerInv, MineBlock, cursor

LEMMA StartListenerStep == ASSUME ListenerInv, StartListener PROVE ListenerInv'
<1>1. ListenerTypeOK'
  BY ListenerAssumption DEF ListenerInv, ListenerTypeOK, StartListener, events
<1>2. ASSUME NEW t \in Tokens PROVE TokenInv(t)'
  <2>1. Reached(t)' = head /\ Reached(t) = head /\ Passed(t)' = begun'
    BY DEF StartListener, events, Reached, Passed
  <2> QED
    BY <1>1, <2>1, TokenUntouched, ListenerAssumption DEF StartListener, events, ListenerInv, ListenerTypeOK
<1> QED
  BY <1>1, <1>2, ListenerAssumption DEF ListenerInv, ListenerTypeOK, StartListener

LEMMA PollStep == ASSUME ListenerInv, Poll PROVE ListenerInv'
<1>1. /\ lastBlock \in 0..head /\ head \in Nat /\ Batch \in Nat \ {0} /\ head > lastBlock
      /\ endBlock' \in 0..head /\ lastBlock < endBlock'
  <2>1. /\ lastBlock \in 0..head /\ head \in Nat /\ Batch \in Nat \ {0} /\ head > lastBlock
        /\ endBlock' = Min({head, lastBlock + Batch})
    BY ListenerAssumption DEF Poll, ListenerInv, ListenerTypeOK
  <2>2. endBlock' = IF head <= lastBlock + Batch THEN head ELSE lastBlock + Batch
    BY <2>1, SmallerOfTwo
  <2> QED
    BY <2>1, <2>2
<1>2. ListenerTypeOK'
  BY <1>1 DEF ListenerInv, ListenerTypeOK, Poll, events
<1>3. ASSUME NEW t \in Tokens PROVE TokenInv(t)'
  <2>1. Reached(t)' = lastBlock /\ Reached(t) = lastBlock /\ Passed(t)' = lastBlock /\ Passed(t) = lastBlock
    BY DEF Poll, events, Reached, Passed
  <2> QED
    BY <1>1, <1>2, <2>1, TokenUntouched DEF Poll, events
<1> QED
  BY <1>1, <1>2, <1>3 DEF ListenerInv, Poll

LEMMA AdvanceStep == ASSUME ListenerInv, Advance PROVE ListenerInv'
<1>1. ListenerTypeOK'
  BY DEF ListenerInv, ListenerTypeOK, Advance, events
<1>2. ASSUME NEW t \in Tokens PROVE TokenInv(t)'
  <2>1. Reached(t)' = endBlock /\ Reached(t) = endBlock /\ Passed(t)' = endBlock /\ Passed(t) = endBlock
    BY DEF Advance, events, Reached, Passed
  <2>2. endBlock \in Nat
    BY ListenerAssumption DEF ListenerInv, ListenerTypeOK
  <2> QED
    BY <1>1, <2>1, <2>2, TokenUntouched DEF Advance, events
<1>3. begun' <= lastBlock' /\ listener' = "waiting"
  BY ListenerAssumption DEF ListenerInv, ListenerTypeOK, Advance
<1> QED
  BY <1>1, <1>2, <1>3 DEF ListenerInv

LEMMA StopListenerStep == ASSUME ListenerInv, StopListener PROVE ListenerInv'
<1>1. ListenerTypeOK'
  BY DEF ListenerInv, ListenerTypeOK, StopListener, events
<1>2. ASSUME NEW t \in Tokens PROVE TokenInv(t)'
  <2>1. Reached(t)' = head /\ head >= Reached(t) /\ listener' = "off"
    BY ListenerAssumption DEF StopListener, events, Reached, Passed, ListenerInv, ListenerTypeOK
  <2> QED
    BY <1>1, <2>1, TokenUntouched DEF StopListener, events
<1> QED
  BY <1>1, <1>2 DEF ListenerInv, StopListener

LEMMA ProcessBlocksStep ==
    ASSUME ListenerInv, NEW t \in Tokens, ProcessBlocks(t)
    PROVE  ListenerInv'
<1>1. /\ ListenerTypeOK /\ lastBlock < endBlock /\ listener = "polling" /\ t \in todo /\ todo' = todo \ {t}
      /\ UNCHANGED <<head, lastBlock, listener, endBlock, begun>>
      /\ lastBlock \in Nat /\ endBlock \in Nat /\ begun \in Nat /\ head \in Nat /\ endBlock <= head
      /\ begun <= lastBlock
  BY ListenerAssumption DEF ProcessBlocks, ListenerInv, ListenerTypeOK
<1>2. /\ Blocks \in Seq(1..head) /\ Ascending(Blocks)
      /\ Range(Blocks) = (lastBlock + 1)..endBlock
  BY <1>1, BlocksInOrder
<1>3. /\ handed[t] \in Seq(1..head) /\ lost[t] \in SUBSET (1..head) /\ Ascending(handed[t])
      /\ UpTo(handed[t], lastBlock)
      /\ (begun + 1)..lastBlock \subseteq Range(handed[t]) \cup lost[t]
  BY <1>1 DEF ListenerInv, ListenerTypeOK, TokenInv, Reached, Passed
<1>4. /\ handed' \in [Tokens -> Seq(1..head)] /\ lost' \in [Tokens -> SUBSET (1..head)]
      /\ \A q \in Tokens \ {t} : handed'[q] = handed[q] /\ lost'[q] = lost[q]
      /\ \/ handed'[t] = handed[t] \o Blocks /\ lost'[t] = lost[t]
         \/ handed'[t] = handed[t] /\ lost'[t] = lost[t] \cup Range(Blocks)
  <2>1. handed[t] \o Blocks \in Seq(1..head) /\ lost[t] \cup Range(Blocks) \in SUBSET (1..head)
    <3>1. (lastBlock + 1)..endBlock \subseteq 1..head
      BY <1>1
    <3> QED
      BY <1>2, <1>3, <3>1
  <2>2. handed \in [Tokens -> Seq(1..head)] /\ lost \in [Tokens -> SUBSET (1..head)]
    BY <1>1 DEF ListenerTypeOK
  <2> HIDE DEF Blocks
  <2> QED
    BY <2>1, <2>2 DEF ProcessBlocks
<1>5. ListenerTypeOK'
  BY <1>1, <1>4 DEF ListenerTypeOK
<1>6. ASSUME NEW q \in Tokens \ {t} PROVE TokenInv(q)'
  <2>1. Reached(q)' = Reached(q) /\ Passed(q)' = Passed(q) /\ Reached(q) \in Nat
    BY <1>1 DEF Reached, Passed
  <2> QED
    BY <1>1, <1>4, <1>5, <2>1, TokenUntouched
<1>7. TokenInv(t)'
  <2>1. Passed(t)' = endBlock /\ Reached(t)' = endBlock
    BY <1>1 DEF Reached, Passed
  <2>2. CASE handed'[t] = handed[t] \o Blocks /\ lost'[t] = lost[t]
    <3>1. /\ handed[t] \in Seq(Nat) /\ Blocks \in Seq(Nat)
      BY <1>1, <1>2, <1>3
    <3>2. After(Blocks, lastBlock) /\ UpTo(Blocks, endBlock)
      BY <1>1 DEF Blocks, After, UpTo
    <3>3. /\ Ascending(handed[t] \o Blocks)
          /\ UpTo(handed[t] \o Blocks, endBlock)
          /\ Range(handed[t] \o Blocks) = Range(handed[t]) \cup Range(Blocks)
      <4> HIDE DEF Blocks
      <4> QED
        BY <1>1, <1>2, <1>3, <3>1, <3>2, InOrderAfter
    <3>4. (begun + 1)..endBlock \subseteq (begun + 1)..lastBlock \cup (lastBlock + 1)..endBlock
      BY <1>1
    <3>5. (begun + 1)..endBlock \subseteq Range(handed'[t]) \cup lost'[t]
      BY <1>2, <1>3, <2>2, <3>3, <3>4
    <3>6. Ascending(handed[t])' /\ UpTo(handed[t], endBlock)'
      BY <1>1, <2>2, <3>3 DEF Ascending, UpTo
    <3> QED
      BY <1>1, <2>1, <2>2, <3>3, <3>5, <3>6 DEF TokenInv
  <2>3. CASE handed'[t] = handed[t] /\ lost'[t] = lost[t] \cup Range(Blocks)
    <3>1. (begun + 1)..endBlock \subseteq (begun + 1)..lastBlock \cup (lastBlock + 1)..endBlock
      BY <1>1
    <3>2. (begun + 1)..endBlock \subseteq Range(handed'[t]) \cup lost'[t]
      BY <1>2, <1>3, <2>3, <3>1
    <3>3. UpTo(handed[t], endBlock)'
      <4>1. ASSUME NEW i \in DOMAIN handed[t] PROVE handed[t][i] <= endBlock
        <5>1. handed[t][i] \in 1..head
          <6>1. handed[t] \in Seq(1..head) /\ head \in Nat
            BY <1>1, <1>3
          <6> QED
            BY <6>1
        <5>2. handed[t][i] <= lastBlock
          BY <1>3 DEF UpTo
        <5> QED
          BY <1>1, <5>1, <5>2
      <4> QED
        BY <1>1, <2>3, <4>1 DEF UpTo
    <3>4. Ascending(handed[t])'
      BY <1>3, <2>3 DEF Ascending
    <3> QED
      BY <1>1, <2>1, <2>3, <3>2, <3>3, <3>4 DEF TokenInv
  <2> QED
    BY <1>4, <2>2, <2>3
<1> QED
  BY <1>1, <1>5, <1>6, <1>7 DEF ListenerInv

LEMMA ListenerStepInv ==
    ASSUME ListenerInv, [ListenerNext]_listenerVars
    PROVE  ListenerInv'
<1>1. CASE UNCHANGED listenerVars
  BY <1>1 DEF listenerVars, cursor, events, ListenerInv, ListenerTypeOK, TokenInv, Ascending, UpTo, Reached, Passed
<1>2. CASE ListenerNext
  BY <1>2, MineBlockStep, StartListenerStep, PollStep, AdvanceStep, StopListenerStep, ProcessBlocksStep
     DEF ListenerNext
<1> QED
  BY <1>1, <1>2

-----------------------------------------------------------------------------
\* The packages in one process

Inv == KycInv /\ AssetInv /\ GuardInv /\ ListenerInv

LEMMA SpecInv == Spec => []Inv
<1>1. Init => Inv
  BY KycInitInv, AssetInitInv, GuardInitInv, ListenerInitInv DEF Init, Inv
<1>2. Inv /\ [Next]_vars => Inv'
  <2> SUFFICES ASSUME Inv, [Next]_vars PROVE Inv'
    OBVIOUS
  <2>1. /\ [KycNext]_kycVars /\ [AssetNext]_assetVars
        /\ [GuardNext]_guardVars /\ [ListenerNext]_listenerVars
    BY DEF Next, vars
  <2> QED
    BY <2>1, KycStepInv, AssetStepInv, GuardStepInv, ListenerStepInv DEF Inv
<1> QED
  BY <1>1, <1>2, PTL DEF Spec

\* Whatever forms, reviews and chain calls do side by side, the contracts clear a wallet only
\* after a submission of the user it was bound to was approved (kyc/service.go:131 and on).
THEOREM ClearedOnlyAfterApproval == Spec => []ClearedWalletsWereApproved
<1>1. Inv => ClearedWalletsWereApproved
  BY DEF Inv, KycInv
<1> QED
  BY <1>1, SpecInv, PTL

\* A review that reached its end without an error has its wallet verified and listed: the
\* two transactions of kyc/service.go:171 may fail or be late, but not be taken for done.
THEOREM SuccessIsCleared == Spec => []SuccessMeansCleared
<1>1. Inv => SuccessMeansCleared
  BY DEF Inv, KycInv, ReviewsAreSound, ReviewIsSound, SuccessMeansCleared
<1> QED
  BY <1>1, SpecInv, PTL

\* No interleaving of the unconditional UPDATEs of asset/service.go, and no mint that is
\* answered late, puts an asset live that was neither minted nor approved and issued, and a
\* live asset without a contract was approved and issued.
THEOREM LiveIsEarned == Spec => []LiveWasEarned
<1>1. Inv => LiveWasEarned
  BY AssetInvImplies DEF Inv
<1> QED
  BY <1>1, SpecInv, PTL

\* Every fee of revenue_ledger is for a mint that was made, the only one for it, and right to
\* the last digit, whatever the rates and amounts.
THEOREM FeesAreFounded == Spec => []MintFeesAreFounded
<1>1. Inv => MintFeesAreFounded
  BY AssetInvImplies DEF Inv
<1> QED
  BY <1>1, SpecInv, PTL

\* However many goroutines serve logins, a key is tried at most maxFails times and once more
\* for each of the others (middleware/guard.go:19) before it is released again.
THEOREM GuessesAreBounded == Spec => []FailuresAreBounded
<1>1. Inv => FailuresAreBounded
  BY GuardInvImplies DEF Inv
<1> QED
  BY <1>1, SpecInv, PTL

\* Whatever the head of the chain does between two polls, however the polls batch, and however
\* often the listener is stopped or crashes in the middle of one, the callback of
\* event_listener.go:97 gets the events of a token in the order of the chain and none twice,
\* and only a failed query makes it miss a block the cursor passed (line 94).
THEOREM EventsInOrder == Spec => []EventsAreHandledOnce
<1>1. Inv => EventsAreHandledOnce
  BY DEF Inv, ListenerInv, TokenInv, Ascending, EventsAreHandledOnce
<1> QED
  BY <1>1, SpecInv, PTL
=============================================================================
