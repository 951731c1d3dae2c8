--------------------------- MODULE AssetIssuance ---------------------------
(***************************************************************************)
(* The life of an asset: backend/internal/asset, with the fee its mint     *)
(* earns the platform (internal/revenue).  Creating an asset mints it      *)
(* within the same request, through the operator ChainCall describes, and  *)
(* puts it live; beside that, the issuer submits it for review and the     *)
(* administrators approve, reject, issue and put it live.  Every           *)
(* transition reads the row in one statement and overwrites its status in  *)
(* another.  A creation is one request; a clerk is a goroutine that serves *)
(* the others.  An asset is its position in assets.                        *)
(***************************************************************************)
EXTENDS Integers, Sequences, FiniteSets

CONSTANTS
    Creations,   \* calls of POST /api/assets
    Clerks,      \* goroutines serving the transitions
    Offers,      \* what an issuer posts: total_supply and price_per_unit
    MintRates,   \* what platform_fees may hold, in ten-thousandths
    Platform,    \* the address of the platform's token contract
    Elsewhere,   \* an address an administrator puts in
    NoContract   \* the empty one, of a new row

Decimal == [digits : Nat, scale : Nat]  \* 10.50 is 1050 with scale 2

ASSUME IssuanceAssumption ==
    /\ Offers \subseteq [supply : Decimal, price : Decimal]
    /\ MintRates \subseteq 0..10000
    /\ NoContract \notin {Platform, Elsewhere}

VARIABLES
    assets,     \* the table assets, by created_at
    rounds,     \* the assets with a row in issuance_rounds
    prices,     \* asset_price_history: the assets of its rows
    revenue,    \* revenue_ledger
    mintGas,    \* gas_ledger: the assets of its rows
    creation,   \* where each creation is
    clerk,      \* what each clerk is doing
    mintCall, mintEffect,  \* the mint transactions of the creations
    reviewed    \* history: the assets that were ever approved

tables == <<assets, rounds, prices, revenue, mintGas>>
assetVars == <<tables, creation, clerk, mintCall, mintEffect, reviewed>>

-----------------------------------------------------------------------------
\* "settled" is declared too and never assigned
AssetStatus == {"draft", "reviewing", "approved", "issuing", "live", "rejected"}

Contracts == {Platform, Elsewhere, NoContract}

Asset == [offer : Offers, status : AssetStatus, contract : Contracts]

CreationStages == {"idle", "created", "minting", "minted", "contract", "revenue", "gas", "price",
                   "ended"}

Verbs == {"submit", "approve", "reject", "issue", "golive"}

\* the status a transition asks for, and the one it writes
From == [submit |-> {"draft", "rejected"}, approve |-> {"reviewing"}, reject |-> {"reviewing"},
         issue |-> {"approved"}, golive |-> {"issuing"}]
To == [submit |-> "reviewing", approve |-> "approved", reject |-> "rejected",
       issue |-> "issuing", golive |-> "live"]

MintChain == INSTANCE ChainCall WITH
    Calls <- Creations, call <- mintCall, effect <- mintEffect

AssetInit ==
    /\ assets = <<>> /\ rounds = {} /\ prices = {} /\ revenue = {} /\ mintGas = {}
    /\ creation = [c \in Creations |-> [at |-> "idle", row |-> 0]]
    /\ clerk = [k \in Clerks |-> [at |-> "idle"]]
    /\ MintChain!Init
    /\ reviewed = {}

-----------------------------------------------------------------------------
\* revenue.MulDecimal and Service.CalcMintFee, for amounts that are not negative

MulDecimal(a, b) == [digits |-> a.digits * b.digits, scale |-> a.scale + b.scale]

\* mutant: the fee of one unit
CalcMintFeePerUnit(amount, rate) == [digits |-> (amount.digits \div 10000) * rate, scale |-> amount.scale]

CalcMintFee(amount, rate) == [digits |-> (amount.digits * rate) \div 10000, scale |-> amount.scale]

MintFee(offer, rate) == CalcMintFee(MulDecimal(offer.supply, offer.price), rate)

\* no row for the fee "0"; "0.00" gets one
IsZero(fee) == fee = [digits |-> 0, scale |-> 0]

-----------------------------------------------------------------------------
\* Handler.CreateAsset

Goto(c, stage) == creation' = [creation EXCEPT ![c].at = stage]

CreateAsset(c) ==
    /\ creation[c].at = "idle"
    /\ \E offer \in Offers :
           assets' = Append(assets, [offer |-> offer, status |-> "draft", contract |-> NoContract])
    /\ creation' = [creation EXCEPT ![c] = [at |-> "created", row |-> Len(assets')]]
    /\ UNCHANGED <<rounds, prices, revenue, mintGas, clerk, mintCall, mintEffect, reviewed>>

\* without a chain the price is recorded at once
Mint(c) ==
    /\ creation[c].at = "created"
    /\ \/ MintChain!Begin(c) /\ Goto(c, "minting")
       \/ Goto(c, "price") /\ UNCHANGED <<mintCall, mintEffect>>
    /\ UNCHANGED <<tables, clerk, reviewed>>

\* mutant: a mint that fails is treated as one that was made
MintAnsweredOrNot(c) ==
    /\ creation[c].at = "minting"
    /\ Goto(c, "minted")
    /\ MintChain!Succeed(c) \/ MintChain!Fail(c)
    /\ UNCHANGED <<tables, clerk, reviewed>>

\* the operator answers; after its success the handler waits for the receipt once more,
\* which may fail too
MintAnswered(c) ==
    /\ creation[c].at = "minting"
    /\ \/ MintChain!Succeed(c) /\ \E stage \in {"minted", "price"} : Goto(c, stage)
       \/ MintChain!Fail(c) /\ Goto(c, "price")
    /\ UNCHANGED <<tables, clerk, reviewed>>

\* Service.ForceGoLive in two statements; an error is logged
UpdateContract(c) ==
    /\ creation[c].at = "minted"
    /\ \/ /\ assets' = [assets EXCEPT ![creation[c].row].contract = Platform]
          /\ Goto(c, "contract")
       \/ Goto(c, "revenue") /\ UNCHANGED assets
    /\ UNCHANGED <<rounds, prices, revenue, mintGas, clerk, mintCall, mintEffect, reviewed>>

ForceLive(c) ==
    /\ creation[c].at = "contract"
    /\ \/ assets' = [assets EXCEPT ![creation[c].row].status = "live"]
       \/ UNCHANGED assets
    /\ Goto(c, "revenue")
    /\ UNCHANGED <<rounds, prices, revenue, mintGas, clerk, mintCall, mintEffect, reviewed>>

\* The rate is the one saved now.  With rate 0 there is nothing to record; an INSERT that
\* fails is logged.
RecordMintRevenue(c) ==
    /\ creation[c].at = "revenue"
    /\ \E rate \in MintRates :
           LET row == creation[c].row
               fee == MintFee(assets[row].offer, rate)
           IN  IF rate = 0
               THEN Goto(c, "price") /\ UNCHANGED revenue
               ELSE /\ Goto(c, "gas")
                    /\ \/ UNCHANGED revenue
                       \/ /\ ~IsZero(fee)
                          /\ revenue' = revenue \cup {[by |-> c, row |-> row, rate |-> rate, fee |-> fee]}
    /\ UNCHANGED <<assets, rounds, prices, mintGas, clerk, mintCall, mintEffect, reviewed>>

RecordMintGas(c) ==
    /\ creation[c].at = "gas"
    /\ mintGas' \in {mintGas, mintGas \cup {creation[c].row}}
    /\ Goto(c, "price")
    /\ UNCHANGED <<assets, rounds, prices, revenue, clerk, mintCall, mintEffect, reviewed>>

RecordPrice(c) ==
    /\ creation[c].at = "price"
    /\ prices' \in {prices, prices \cup {creation[c].row}}
    /\ Goto(c, "ended")
    /\ UNCHANGED <<assets, rounds, revenue, mintGas, clerk, mintCall, mintEffect, reviewed>>

\* The server dies.  (An INSERT that fails, as for a symbol that is taken, changes nothing.)
CreationStops(c) ==
    /\ creation[c].at \notin {"idle", "ended"}
    /\ Goto(c, "ended")
    /\ UNCHANGED <<tables, clerk, mintCall, mintEffect, reviewed>>

Create(c) ==
    \/ CreateAsset(c) \/ Mint(c) \/ MintAnswered(c) \/ UpdateContract(c) \/ ForceLive(c)
    \/ RecordMintRevenue(c) \/ RecordMintGas(c) \/ RecordPrice(c) \/ CreationStops(c)

\* the contract executes the mint
MineMint(c) ==
    /\ MintChain!TakeEffect(c)
    /\ UNCHANGED <<tables, creation, clerk, reviewed>>

-----------------------------------------------------------------------------
\* the transitions: the row is read, then written by id alone

Idle(k) == clerk' = [clerk EXCEPT ![k] = [at |-> "idle"]]

ReadAsset(k) ==
    /\ clerk[k].at = "idle"
    /\ \E i \in DOMAIN assets, verb \in Verbs :
           /\ assets[i].status \in From[verb]
           /\ clerk' = [clerk EXCEPT ![k] = [at |-> "read", verb |-> verb, row |-> i]]
    /\ UNCHANGED <<tables, creation, mintCall, mintEffect, reviewed>>

\* What StartIssuance and GoLive write before the status.  The address is the one posted,
\* and the empty one is not refused.
WriteFirst(k) ==
    /\ clerk[k].at = "read"
    /\ \/ clerk[k].verb = "issue" /\ rounds' = rounds \cup {clerk[k].row} /\ UNCHANGED assets
       \/ /\ clerk[k].verb = "golive"
          /\ \E address \in Contracts : assets' = [assets EXCEPT ![clerk[k].row].contract = address]
          /\ UNCHANGED rounds
    /\ clerk' = [clerk EXCEPT ![k].at = "written"]
    /\ UNCHANGED <<prices, revenue, mintGas, creation, mintCall, mintEffect, reviewed>>

UpdateStatus(k) ==
    /\ \/ clerk[k].at = "written"
       \/ clerk[k].at = "read" /\ clerk[k].verb \notin {"issue", "golive"}
    /\ assets' = [assets EXCEPT ![clerk[k].row].status = To[clerk[k].verb]]
    /\ reviewed' = IF clerk[k].verb = "approve" THEN reviewed \cup {clerk[k].row} ELSE reviewed
    /\ Idle(k)
    /\ UNCHANGED <<rounds, prices, revenue, mintGas, creation, mintCall, mintEffect>>

\* A statement fails, or the server dies.  StartIssuance drops the error of its UPDATE and
\* answers with the round.
ClerkStops(k) ==
    /\ clerk[k].at # "idle"
    /\ Idle(k)
    /\ UNCHANGED <<tables, creation, mintCall, mintEffect, reviewed>>

Transition(k) == ReadAsset(k) \/ WriteFirst(k) \/ UpdateStatus(k) \/ ClerkStops(k)

AssetNext ==
    \/ \E c \in Creations : Create(c) \/ MineMint(c)
    \/ \E k \in Clerks : Transition(k)

-----------------------------------------------------------------------------
RevenueRecord == [by : Creations, row : Nat, rate : MintRates, fee : Decimal]

ClerkTask == [at : {"idle"}] \cup [at : {"read", "written"}, verb : Verbs, row : Nat \ {0}]

AssetTypeOK ==
    /\ assets \in Seq(Asset)
    /\ rounds \subseteq DOMAIN assets /\ prices \subseteq DOMAIN assets /\ mintGas \subseteq DOMAIN assets
    /\ revenue \subseteq RevenueRecord
    /\ creation \in [Creations -> [at : CreationStages, row : Nat]]
    /\ clerk \in [Clerks -> ClerkTask]
    /\ mintCall \in [Creations -> {"idle", "pending", "ok", "failed"}]
    /\ mintEffect \in [Creations -> BOOLEAN]
    /\ reviewed \subseteq DOMAIN assets

Minted(i) == \E c \in Creations : creation[c].row = i /\ mintEffect[c]

\* approved at some time, and with an issuance round
WentTheWholeWay(i) == i \in reviewed /\ i \in rounds

\* A live asset was minted on the chain or went the whole way, and one that is live without a
\* contract went the whole way: the address posted to go live may be empty, the address a
\* mint leaves is not.  Transitions that write what they decided on a row read before
\* (asset/service.go:103), mints that are answered late and calls that stop half way never
\* put an asset live without one of the two, nor a merely minted one without its contract.
LiveWasEarned ==
    \A i \in DOMAIN assets : assets[i].status = "live" =>
        /\ Minted(i) \/ WentTheWholeWay(i)
        /\ assets[i].contract = NoContract => WentTheWholeWay(i)

\* A fee in revenue_ledger is owed for a mint that was made, once for each, and is the
\* rate's share of supply times price, to less than one unit of its last digit.
MintFeesAreFounded ==
    \A r \in revenue :
        /\ Minted(r.row)
        /\ \A q \in revenue : q.row = r.row => q = r
        /\ LET offer == assets[r.row].offer
               share == offer.supply.digits * offer.price.digits * r.rate
           IN  /\ r.fee.scale = offer.supply.scale + offer.price.scale
               /\ r.fee.digits * 10000 <= share /\ share < (r.fee.digits + 1) * 10000

\* A mint that times out may be mined later (asset/handler.go:257): the tokens are there
\* and the asset is not live.  MANUAL_QA.md has the issuer's asset minted and live.
MintedMeansLive ==
    \A c \in Creations : (creation[c].at = "ended" /\ mintEffect[c]) => assets[creation[c].row].status = "live"

\* asset/handler.go:95 answers "live" after a mint.  An error of ForceGoLive is only logged.
AnsweredLiveIsLive ==
    \A c \in Creations : creation[c].at = "gas" => assets[creation[c].row].status = "live"
=============================================================================
