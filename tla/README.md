# Formal models of RealVest

RealVest (`src/`) is a platform for tokenised real-world assets: Solidity
contracts in the manner of ERC-3643, a Go back end (gin over SQLite) and a Next.js
client. This directory holds TLA+ models of its core, the TLC configurations that
check them on small instances and TLAPS proofs for every value of the constants.

## 1. Inventory

| part | state | operations | what is hard | what makes it correct |
|---|---|---|---|---|
| Orders and matching, `backend/internal/trade` | `trade_orders`, `trades`, `settlements`, `trade_whitelist` | PlaceOrder, CancelOrder, MatchOrder, whitelist edits | six statements without a transaction, one goroutine a request; the errors of the last three dropped; crash between statements | a trade honours both orders, rows agree with trades, one settlement a trade, history is not rewritten |
| Epochs, same package | `epochs` | CreateEpoch, CloseEpoch | check and UPDATE in two statements; the batch query drops its error | reported success means closed; closed once |
| Trade handlers, `trade/handler.go`, `middleware/auth.go` | the gin context | HTTP requests | the caller's identity crosses two untyped interfaces | a caller acts on its own orders only |
| `IdentityRegistry.sol` | verified, country, roles | register, update, remove, roles | revocation between any two transfers | — (see the token) |
| `ComplianceModule.sol` | whitelist, caps, lock-ups, restricted countries, roles | the setters, `canTransfer` | rules in two contracts, changed one by one | the check is asked, and is right, on every movement |
| `RWAToken.sol` | balances, allowances, supply, breaker, fee, roles | transfer, approve, transferFrom, mint, burn, forcedTransfer, pause, fee | unchecked arithmetic, three writes to possibly one account, agents acting between approve and transferFrom | supply conserved, receivers cleared, locked holders stay, caps hold, paused means frozen |
| `RevenueDistributionToken.sol` | yield, claims | deposit, claim, vesting | claims by live balances, one timeline for all deposits | no yield made or lost, nobody paid twice, released yield stays released |
| KYC, `internal/kyc` | `kyc_submissions`, `accreditation_checks`, the wallet of a user | submit, approve, reject, bind a wallet | check and INSERT in two statements; approval in the database, then two chain transactions, none retried; dropped errors | nobody is cleared on the chain without an approval; a success means cleared |
| Assets and issuance, `internal/asset` | `assets`, `issuance_rounds`, `asset_price_history` | create (with its mint), submit, approve, reject, issue, go live | unconditional UPDATEs, a mint that times out after it was sent, eight steps that can stop anywhere | live only when minted, or approved and issued; without a contract only the latter |
| Redemption, `internal/redeem` | `redeem_requests`, `redeem_rules` | submit, approve, reject, ship, complete, rules | read, then unconditional UPDATE | one rule a request, nothing leaves unapproved |
| Dividends, `internal/dividend` | plans, records, accruals | create, accrue, pay | read-modify-write, check then increment | no period counted unpaid, no interest invented |
| Chain operator, `internal/blockchain` | the sender's mutex, nonces, the node's pool | `sendTransaction`, wait for the receipt | waits under the mutex; a failed call may still be mined | nonces never collide; "ok" means done; every caller is answered |
| Event listener, same package | block cursor | start, poll, stop | the cursor passes failed queries; a restart begins at the head | an event is handed over once, in order |
| Relay, `internal/relay` | `gas_ledger` | Execute | nonce read, then forwarded | a signed request runs once, its gas is recorded once |
| Revenue, `internal/revenue` | `platform_fees`, `revenue_ledger` | UpdateFees, CalcMintFee and the records of a mint | database first, chain second; the rate changes under way | both hold the same fee; a fee is for a mint and right |
| Users and guard, `internal/user`, rate limiter of `internal/middleware` | `users`, failure counters, request ages | register, login | check, verify, record in three steps on many goroutines | a password is guessed a bounded number of times |
| Sysconfig, ads, license, database, front end | | | | not worth a model: see `PROJECT.json` |

How they meet: handlers run behind `AuthMiddleware`, which re-reads role and status
from the database and leaves the caller's id in the context. Services share one
SQLite connection (`pkg/database/sqlite.go:14`), so a single SQL statement is atomic
and nothing longer is, but for the records of a dividend payment, which are inserted in
one transaction (`dividend/repository.go`) and are one statement of the model. KYC,
asset and revenue write the database and then the chain, and the relay forwards signed
requests, all through one operator account and its mutex. Contracts call each other
within one transaction, which is atomic. The hazards found by reading are listed at their
lines in `PROJECT.json`.

## 2. Modules

| module | models | state and actions |
|---|---|---|
| `TradeMatching` | orders, trades, settlements | the three tables, and `task[w]`: the request goroutine `w` serves, its next statement and the rows it read. One action per SQL statement: `PlaceOrder`; `StartCancel`, `FinishCancel`; `StartMatch`, `ReadBook`, `InsertTrade`, `FillOrder`, `FillCounter`, `InsertSettlement`; `Crash` |
| `TradeExecution` | what the trades table says was executed | `Executed(o)`, the refinement mapping to `OrderBook`, the properties that need sums |
| `OrderBook` | abstract: an order is placed, withdrawn, dealt, never beyond its quantity | `Place`, `Withdraw`, `Deal` |
| `EpochSettlement` | epochs beside the market | table `epochs`, `closing[w]`, and the history variable `closes` (reported successes); `CreateEpoch`, `StartClose`, `MarkClosed`, `BatchMatch` |
| `TradeApi` | the handlers in front of the service | history variables `placedBy` and `servedFor`: who really called |
| `AgentRole` | owner and agents, the same code in each contract | instantiated three times |
| `IdentityRegistry`, `ComplianceModule` | the two contracts | one action per transaction; `clock` is `block.timestamp` |
| `RWAToken` | the token, composed with both | one action per transaction; guards are the `require`s, `Plus` and `Minus` wrap as `unchecked` does |
| `TokenLedger` | abstract: issue, redeem and move plain integers at once, a collector gets a tenth at most | `Issue`, `Redeem`, `Move` |
| `RevenueDistribution` | the RDT, composed with `TokenLedger` for the shares it reads | `depositYield`, `claim`, `setVestingDuration`; `ShareStep` is any step of the asset's token, which `Token` shows to be one of `TokenLedger`; `held` is the contract's balance of the yield token |
| `Redemption` | requests and rules of `internal/redeem` | tables `requests` and `rules`, `desk[d]`: the worker's next statement, and the history variable `inForce`. `SubmitRequest`, `JudgeRequest` (approve, reject, complete, ship) and `UpsertRule` are each a read and a write; `CallFails` |
| `Dividends` | plans, records and accruals of `internal/dividend` | tables `plans`, `payments`, `accruals`, `payer[w]`, and the history variable `earned`. `CreatePlan`; `PayDividend` in three statements, `AccrueInterest` in four; `PayoutFails` |
| `BackOffice` | the two in one server | a step of one leaves the other's variables alone |
| `ChainCall` | abstract: a call to the chain is answered once, "ok" only of a transaction that took effect, and each takes effect once, possibly after its caller was told "failed" | `Begin`, `TakeEffect`, `Succeed`, `Fail` |
| `ChainSender` | `sendTransaction` and two of its callers, `relay.Service.Execute` and `UpdateFees` | `pc[c]`, `txMu`, the nonce a caller read, the node's `pool` and `mined`; `expired` contexts; which mined transactions `reverted`. `Lock`, `ReadNonce`, `Submit`, `SubmitUnheard`, `CallFails`, `WaitMined`, `GiveUp`, `Expire`; `CheckNonce`, `RecordGas`; `UpsertFee`, `SetTransferFee`; the node's `Mine` and `Evict` |
| `KycReview` | `internal/kyc`, `users.BindWallet`, and what the two contracts hold of a wallet | `form[f]` and `review[r]`: the request's next statement and the rows it read; one action per statement and chain call; `MineIdentity` and `MineWhitelist` are the contracts; histories `approvals`, `bound`. Calls go through an instance of `ChainCall` |
| `AssetIssuance` | `internal/asset`, with the fee of a mint | `creation[c]`, one creation from INSERT through mint, ForceGoLive, fee and gas records to the price; `clerk[k]`, the other transitions as read and write; `MulDecimal` and `CalcMintFee` on digits and scale. Mints go through an instance of `ChainCall` |
| `LoginGuard` | register, login, the guard and the limiter | `login[p]`, `states[k]` (failures and what is left of a lock), ages of admitted requests; `Check`, `Authenticate`, `RecordFail`, `Reset`, `Tick`, `Restart`; history `tries` |
| `EventListener` | the poll loop | cursor, poll under way, what was handed over; `Poll`, `ProcessBlocks`, `Advance`, `StartListener`, `StopListener`, `MineBlock` |
| `ApiServer` | the last four in one process | a step of one leaves the others' variables alone |
| `Sums` | facts about finite sums, for the proofs | `SumFunctionOnSet` as the sum of a fold |
| `TradeMatchingProofs`, `MarketProofs`, `RWATokenProofs`, `RevenueDistributionProofs`, `BackOfficeProofs`, `ApiServerProofs`, `ChainSenderProofs` | the theorems | `MarketProofs` holds those of `TradeExecution`, `EpochSettlement` and `TradeApi` |
| `MC*` | instances for TLC | symmetry sets, the state constraints of the token and the back office |

Abstractions, and why they keep the behaviour:

* An order is its position in `trade_orders`, which is its rank by `created_at`. Ids,
  timestamps, currencies and amounts are not read back by the modelled code.
* Owner, asset, side, price and quantity of a row are never updated, so a worker's
  copy of them is the row's; `filled_qty` and `status` are, and are kept in `task`.
* `filled_qty` is inserted as the empty string, which `big.Int` reads as 0. An empty
  price is read as 0 by `big.Float`. The handlers validate neither; quantities are the
  positive integers the order form sends.
* The UPDATE of a row is the absolute overwrite of the code, with the values computed
  from the stale read. Its error is dropped where the code drops it (`Faults`).
* `NilUser` is `uuid.Nil`. `TradeMatching` is the service as it is called with any
  user ids; **through today's HTTP handlers it is only ever called with the nil
  one**, and then never trades (theorem `NilUserNeverTrades`). The market models say
  what the service does for distinct users, which is what it is written for and what
  becomes live the day the handlers read the id as `handler.go:212` does.
* The batch of `CloseEpoch` selects the 15 columns of `trade_orders` into 13
  destinations and fails on the first row; the model's `BatchMatch` matches nothing,
  and the price sort before it is dead code, not modelled.
* A contract call whose `require` fails reverts: its action is not enabled.
  `caller` is `_msgSender()`, so a relayed call is the signer's.
* Not in the token: `updateNAV`, `distributeDividends`, `setTrustedForwarder`, and the
  replacement of registry or compliance module.
* The yield token of the RDT is an ERC-20 that reverts when a balance is too small, like
  the `MockHKD` of the tests. `moved` is a history variable: whether a share changed
  hands after the first claim.
* In the back office every error of a SELECT is taken for a missing row, as the code
  takes it: a failing read may insert a second accrual row, or overwrite one with a
  single day's interest, and may send an upsert into its INSERT.
* A rule keeps its limits, its fee and what it allows; of interest the cents are kept,
  and the posted amounts of dividends are left out. Principals are not negative, which
  the form sends and nothing checks.
* In `ChainSender` the two RPCs before the transaction is signed are one step each;
  gas price and estimate fail like them. Other accounts send nothing from this one, and
  nothing else mints or calls the forwarder. Any transaction may revert when it is mined,
  and one must that `MustRevert` names: a relay of a used request, a fee over the cap. The
  forwarder's `execute` reverts as a whole, so a request whose call reverted stays unused
  and another relay of it may take effect. A forgotten transaction may free its nonce for
  the next caller, as in a node.
* `KycReview` and `AssetIssuance` have the on-chain operations enabled (without a chain
  their calls are skipped). The only agent of registry and whitelist is the operator:
  what another agent does by hand, removals included, is the business of `RWAToken`.
* A wallet address is a model value, and its signature check has passed. A review holds
  the wallet it read, as the code does.
* An asset is its position in `assets`; symbols, tokens minted and amounts of gas are left
  out; supply and price keep digits and scale, which the fee is computed from, and are
  not negative. Going live writes whatever contract address is posted, the empty one
  included, since neither handler nor service looks at it.
* A lock and an admitted request count ticks. The guard's map, its lock and the
  limiter's are each held for one call, so a call is one action.
* `cmd/api` never constructs an `EventListener`: the module says what it does once
  something starts it. The head of the chain does not go back, and a token is watched
  once.

## 3. Runs

| run | question | instance |
|---|---|---|
| `TradeRaces` | what survives interleaving, failing statements and crashes? | 2 users, 2 assets, 2 workers, 2 orders, 2 trades, 1 epoch, faults |
| `TradeSequential` | served one at a time and without faults, is it an order book? | 1 worker, 3 orders, 3 trades, prices 0 (market) and 1 |
| `OverExecution` | violation: an order marked filled was traded exactly in full | 2 workers, no faults |
| `TradeApiCancel` | violation: a caller cancels only its own order | 2 callers, the nil user |
| `Token` | conservation, compliance, breaker, refinement of `TokenLedger` | 3 accounts, caps, lock-ups, fees, 2 blocks |
| `OnlyVerified` | violation: whoever sends tokens is verified | the same |
| `Distribution` | is yield conserved, is everybody covered, does released yield stay released? | operator and 2 holders, supply up to 3, 2 deposit sizes, 3 durations, 3 blocks |
| `VestingTimeline` | violation: setting the duration leaves deposited yield's timeline | the same |
| `Sender` | do nonces collide, and do saved and charged fee agree unless reported? | 1 relay, 3 updates of which one has no treasury address, 1 eviction |
| `SenderProgress` | is every caller answered, the ledger right, and does it implement `ChainCall`? | 2 relays of one signed request, 1 update over the contract's cap, 1 eviction, `FairSpec` |
| `ApiServer` | what survives forms, reviews, mints, transitions and logins side by side? | one package at a time: 2 users, 2 wallets, 2 forms, 2 reviews; 1 creation, 2 clerks, 2 offers; 2 logins, 2 failures to a lock of 2 ticks; 2 tokens, 4 blocks by 2 |
| `BackOffice` | what survives calls that read, decide and write without a transaction? | one package at a time: 1 asset, 3 rules, 2 requests, 2 desks; 2 plans, 3 payments, 2 payers, 3 cents |

Bounds. `BookLimit` is the literal 10 of `service.go:83`; it is 2 where three orders
must overflow it. `MaxOrders`, `MaxTrades`, `MaxEpochs`, `MaxTime` cap the growing
tables and the clock in guards. `MaxTrades` also bounds calls in flight, so a started
match can always insert. Two workers and two orders show every pairwise race (order
with itself, order with its counterparty, match with cancel); the theorems cover more.
Three orders in the sequential run give partial fills, a full book and an order
completed by its own match. The token's `Word` is 21 with `Denominator` 10 and
`MaxRate` 1 (2^256, 10000 and 1000 in the code): with amounts of 10 a second mint fills
the word but for one, a third reverts, and a fee rate of 1 takes 1 of 10. `FewFeatures`
keeps states in which at most `MaxFeatures` of breaker, fee, caps, lock-ups, restrictions,
allowances and revoked entries differ from the plain case; each property relates at most
two of them, and the proofs do without the constraint.

In the RDT's runs the default duration (7 days, what 0 stands for) is 3 against
durations of 1 and 2 and three ticks of the clock: yield is seen unreleased, half
released, capped, and released over a duration that grew and shrank. Deposits of 2 and 3
over a supply of 3 make the division round in every holder's disfavour.

Redemption and dividends share no table, so `OneAtATime` explores them one after the
other; that each behaves beside the other as it does alone is proved
(`ImplementsRedemption`, `ImplementsDividends`). The three rules differ in all a request
can be refused for, and one is switched off. Two desks give every race of two verdicts
with each other and of a submission with an edit. Plans have one period, so the second
payment is already one too many; `FewCents` stops after three cents earned in all
accounts, enough for two racing calls and one that follows them.

The sender's run with three updates has every order of saving and sending, one of them
only saved, and a transaction that is forgotten while the next nonce is read; with one
relay it explores 84,080 states. Two relays of one request are the race of the nonce
check. The packages of `ApiServer` share no variable: `OneAtATime` explores them one
after the other, and `OneUser` and `FewBindings` drop states that differ in whom an idle
form is for, or bind a third wallet (537,825 states). Two reviews race for one wallet, for one
submission, or reject what the other approves; two clerks race each other and the mint;
the fee of 3 at 10.50 and 1.5 % is 0.4725, which is cut. Two failures lock a
key, so two logins that passed the check side by side make a third failure, the bound.

Deadlock is checked but in `ApiServer`, where all forms, reviews and creations end and the
bounds of requests and blocks are reached. The market, the token and the back office are given no
fairness: nothing there retries or resumes a request that died, so no progress property is
justified. `ChainSender` is different: who waits for the mutex is a goroutine that goes on,
and Go's mutex is fair to those who wait (a waiter of a millisecond is served first), so
`Lock(c)` is weakly fair for every caller: each takes the mutex once, so a `Lock` that is
enabled again and again is enabled for good once the others have ended. An update has a
deadline of 30 s for its chain calls (`revenue/handler.go:69`), so `Expire(u)` and the
steps of an update that has begun are weakly fair: its RPCs return by then, with an error if
nothing else. A relay works under the context of its HTTP request, which has no deadline
(`relay/handler.go:45`), so no RPC of it need return, before its transaction is sent or
after: of its steps only `Lock` and the INSERT of the gas record are fair. Nothing
is assumed of the node. The premise of `EveryCallEnds` is accordingly that no relay holds
the mutex for ever, whichever RPC it is in; `WaitingBlocksNobody`, without it, is violated.

What the runs show, beyond pass: a trade, once in the table, is always one both
owners asked for, under every interleaving, fault and crash; rows never claim an
execution that did not happen. They may claim less: `BooksBalanceAtRest` and
`ImplementsOrderBook` hold for one worker without faults, and `FilledMeansFullyTraded`
fails for two. `ClosedOnce` likewise holds for one worker only. All four are proved under
just these conditions (section 4). In the back office,
verdicts overwrite each other and periods are overpaid, but nothing unapproved leaves,
no counter runs ahead of the records, a plan is exceeded by fewer periods than there are
workers, and no account shows interest nobody earned. In front of the chain, the mutex
keeps nonces apart however calls end, at the price that one relay nobody mines holds up
everybody; approvals, mints and fee updates may be reported done and be half done, but a
wallet is not cleared, an asset not live and a fee not booked without its ground.

Properties kept in the modules for which no run is listed, found violated by TLC:
`CancelledStaysCancelled`, `PriceTimePriority`, `MarketOrdersTradeAtAPrice`
(`TradeExecution`), `BatchMatchesOpenBuys`, `NoTradeWhileCollecting`
(`EpochSettlement`), `ReleasedYieldIsThere` (`RevenueDistribution`), `OnlyPendingIsJudged`,
`UpsertCreatesOrUpdates` (`Redemption`), `PlansAreNotOverpaid`, `PaidCountsPeriods`,
`InterestIsComplete`, `FinishedPlansAreMarked` (`Dividends`), `WaitingBlocksNobody`,
`FeesAgree`, `FeesAfterEveryAnswer` (`ChainSender`), `ApprovalClears`, `OneOpenSubmission`,
`HitsAreRejected` (`KycReview`), `MintedMeansLive`, `AnsweredLiveIsLive` (`AssetIssuance`),
`LocksLast` (`LoginGuard`), `NoEventIsLost` (`EventListener`), and `ClosedOnce` with two
workers. Each quotes the comment, document or
test it states; the findings in `PROJECT.json` say how the code departs from it.

Every property of a passing run has a mutant: a plausible bug of a mapped definition
(a dropped guard, a swapped argument, an error ignored) under which TLC finds the
property violated.

## 4. Proofs

Proved by TLAPS, for every value of the constants that satisfies the named assumptions
(`TradeAssumption`, `RegistryAssumption`, `ComplianceAssumption`, `TokenAssumption`,
`DistributionAssumption`, `RedemptionAssumption`, `DividendAssumption`, `KycAssumption`,
`IssuanceAssumption`, `GuardAssumption`, `ListenerAssumption`, `SenderAssumption`). Where they
bound what users send, the Go code does not: quantities are positive, prices, supplies and
principals not negative, which section 2 assumes of the inputs. That `Accounts` is finite
is what makes a sum of balances a number, and of 160-bit addresses it is true. What holds
only of a server that takes its requests one after the other says so in the theorem:
`OneWorker`, and `~Faults` where a failing statement would do the same damage. With two
workers TLC refutes each of these.

* **Sums** (`Sums`). The models sum with `SumFunctionOnSet`, a fold that is defined by a
  recursive function on sets. That there is such a function at all (`FoldExists`) needs an
  induction over finite sets, which the library states with an operator parameter; here it
  is an argument by least counterexample: the sizes at which the claim fails are a set
  of numbers, and `LeastNatural` leaves it empty. The same argument shows that a sum takes
  its elements in any order (`SumTakesOne`, `SumAddsOne`) and compares sums term by term.
  What the proofs cite are `SumChangesAt`, `SumOfAGrowth` and `SumOfAMove`: what one account that
  gains, or two that exchange, do to a sum.
* **Order matching** (`TradeMatchingProofs`). `TradeInv` is inductive: types,
  fills that agree with status, honoured trades, mirrored settlements, and
  `TasksAreCurrent`, the strengthening the other four need. A worker inserts a trade
  from rows it no longer holds; that the trade is sound follows only from what the worker
  read being still true of the immutable columns, and from the quantity it computed being
  positive and within both orders. That a settlement mirrors its trade needs that the
  trade a worker remembers is its own and no other worker's. One lemma per action
  shows the step keeps the invariant; `HistoryIsKept` follows from the same lemmas.
* **What was executed** (`MarketProofs`). `NoPhantomFill` holds under every interleaving,
  fault and crash: its invariant `FillInv` adds `ReadsWereTraded`, that what a worker
  read as filled had been traded, and from its INSERT on also what it is about to write.
  It lasts because the trades of an order are only added to (`ExecutedGrows`). For one
  worker without faults `BooksInv` says that a row is filled by exactly its trades but
  for one whose UPDATE is to come, that the worker's copies are the rows, and that every
  trade has its settlement or is under way. From it `BooksBalanceAtRest`, the
  refinement of `OrderBook` (of the steps of a match only the INSERT of the trade is visible, as
  `Deal`; placing and cancelling are `Place` and `Withdraw`), and `FilledMeansFullyTraded`.
  `CancelledStaysCancelled` holds of one worker even with faults and crashes.
* **Epochs and handlers** (`MarketProofs`). `EpochSpec` implements `Spec`, so the market's
  theorems hold beside epochs; a close reported as a success left the epoch closed, by
  an invariant that says a worker in the batch step has seen its epoch closed. `CloseInv`
  gives one worker `ClosedOnce`: nobody has closed the epoch it is at.
  With `Users = {NilUser}`, `ApiSpec` implements `Spec`, and no trade is ever made: no worker
  is past `readBook`, since the self-trade guard rejects every counterparty.
* **Token** (`RWATokenProofs`). Type correctness (with the fee never more than the
  amount, so that the subtractions do not wrap), and, from it, that paused means frozen,
  gainers are cleared and caps hold. What a transfer may not do is said of the action taken,
  `HolderStep` or `Mint`: a forced transfer may have the same effect on balances and is
  exempt, a holder's transfer is not, with a fee or without. `MovedByAccount` gives each
  account's balance after a transfer whichever of sender, receiver and collector
  coincide; `LedgerSteps` says which steps touch balances at all. `SupplyInv` adds that
  balances sum to the supply, which is what makes it inductive: an account holds at most the
  supply, so the `unchecked` additions do not wrap, so the sum stays. That locked holders
  stay put needs it too: a locked collector gains its fee and does not lose by a wrap. Every
  transaction is a step of `TokenLedger`, on plain integers, or leaves it alone.
* **Yield** (`RevenueDistributionProofs`). Types, conservation and a release that did not
  begin in the future are inductive. `ReleaseNeverGoesBack` follows from it with
  `NextMovesForward` (time and yield only grow, the first deposit stays the first) and
  `MoreIsReleased`, which lifts the monotonicity of `*` and `\div` to `releasedAmount`.
  `PayInv` adds that shares add up to the supply, that the contract holds what was deposited
  less the sum of all claims, and, while no share has changed hands, that nobody has claimed
  more than its share of the yield, in the form that needs no division:
  `claimed[a] * issued <= totalYield * holding[a]`. Summed over all accounts it is what
  `StaticSharesAreCovered` says; `NobodyBeyondTheYield` needs the sum of claims alone.
* **Back office** (`BackOfficeProofs`). `RedemptionInv` says that a rule that can be read
  was in force, and that the row or verdict a desk is about to write was right when it
  was read; `JudgedRow` shows that a verdict keeps a row cleared whatever the row has
  become. `DividendInv` counts workers: `PayerMoves` gives what one worker's next
  task does to the increments and payments under way, by way of `CountsDiffer`, a fact
  about two finite sets that differ in one element. A worker that pays has seen a counter
  below the total, which is why a plan is exceeded by less than the number of workers;
  by none, if there is one (`OnePayerPaysThePlan`). One desk judges pending requests only.
  `Sound` bounds what is about to be written by what the account has earned and will.
* **The server** (`ApiServerProofs`). `Inv` is the conjunction of three inductive
  invariants, each kept by the steps of its package alone, so that they hold side by side.
  `KycInv`: a review past its approval is `Entitled` (its submission was approved, its
  wallet was bound by that user), and stays so since approvals and bindings are only
  added to; a call has an effect only on behalf of such a review. `AssetInv`: the row of a
  creation is its own (`CreationsAreApart`), past its mint the mint took effect, and what
  a clerk read still justifies what it is about to write, because `reviewed` and `rounds` are
  never taken back, and a contract, once there, only from an asset that has both
  (`AssetsGrow`); a record of revenue belongs to a creation
  that is past recording. `FeeOfAnOffer` gives the rounding for all amounts. `GuardInv`: the
  failures of a key that is not locked are counted or about to be counted by one of the
  logins at `wrong`; once it is locked, only logins already at `checked` can add to them.
  `ListenerInv`: what was handed over of a token ascends and ends at the point the poll under way
  has reached, or the cursor if there is none (`TokenInv`), so the next block is a new one; and
  everything from where the listener began to what it has passed was handed over or is counted
  as lost.
* **The sender** (`ChainSenderProofs`). `SenderInv`: who is past the lock holds the mutex;
  the pool has no two transactions of one nonce and none used up; a caller has one
  transaction at most; success was said of what took effect. `FreeNonceExists` is the
  pigeonhole principle: among as many nonces as the pool has transactions and one more, one
  is free, and `LeastNatural` makes `PendingNonce` well defined. One signed request takes
  effect once, however many relays of it are mined (`RequestsAreUsedOnce`, inductive: a relay
  mined after the one that took effect must revert). From the invariant, each step begins,
  ends or performs a call of `ChainCall`, or none. `FeeInv` is
  about updates that did not overlap: the one under way is the one saved last
  (`OneUnderWay`), and while none has failed, the contract charges the fee of an update whose
  transaction is mined, and the saved one when none is under way (`FeesFollow`).

Only model-checked: `EveryCallEnds` (liveness), and of the violations what TLC's
counterexamples show. `PausedMeansFrozen` and what is stated of one worker
(`FilledMeansFullyTraded`, `CancelledStaysCancelled`, `OnlyPendingIsJudged`,
`PlansAreNotOverpaid`) are the other way round: proved, and checked by no passing run.

## 5. Noticed while reading

What no model states, for whoever maintains the code:

* `revenue/handler.go:58` takes the caller with `GetString`, and the middleware stores a
  `uuid.UUID`: the audit row's `updated_by` is always empty.
* `pkg/compliance/sanctions.go:63` also matches when the name is a part of a list entry; the
  comment above it speaks of the opposite direction only.
* `asset/handler.go:242` parses `total_supply` with `SetString` of a `big.Int` and does not
  look at whether it failed: what is minted for a decimal supply, which the fee computes
  with, is left undefined by the library.
* `asset/repository.go:226-232` returns the oldest prices where the latest are meant.
* The rate limiter's key is address and path; `cmd/api/main.go:277` speaks of a limit per
  address.
* `internal/sysconfig` writes a `.env` file; no Go code loads it at start-up, although the
  answer (`sysconfig/handler.go:155`) says the change takes effect after a restart.

## 6. Not modelled

System configuration, advertisements and the license check write or read single rows with
no protocol between them; start-up, configuration and the web front end are wiring, I/O and
rendering. Left out of modelled parts, with the reason, is listed for each in `PROJECT.json`:
chiefly listings, document rows, encoding of calls, and functions no route calls.

What would come next: the token's remaining administration (`updateNAV`, replacing registry or
compliance module), and the audit rows of the fee updates.
