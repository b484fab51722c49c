# Archway in TLA+

TLA+ models of the modules that make Archway more than a stock Cosmos SDK
chain: contracts that pay to be called later (`x/callback`), contracts that are
told about failures of what the protocol did for them (`x/cwerrors`), contracts
that own accounts on other chains (`x/cwica`), contracts that pay the fees of
others (`x/cwfees`), the gas contracts use (`x/tracking`), and the rewards paid
for that gas (`x/rewards`). The one contract of the repository that speaks a
protocol of its own, the voter (`contracts/go/voter`), is modelled as well.
Paths below are relative to `src/`. Every definition that translates code is
listed with its lines in `PROJECT.json`.

## 1. Inventory

| Part | State | Operations | Talks to |
| --- | --- | --- | --- |
| `x/callback` | `Callbacks` by (height, contract, job), `Params`, module account | `RequestCallback`, `CancelCallback`, `UpdateParams`, `EndBlocker` | bank, rewards (gas price), wasm (sudo), cwerrors (failures) |
| `x/cwerrors` | errors with an index by contract and one by deletion block, subscriptions with an index by end block, transient sudo errors, `Params` | `SetError`, `SubscribeToError`, `UpdateParams`, `EndBlocker` (sudo, prune errors, prune subscriptions) | wasm (sudo), bank (subscription fee), rewards (metadata) |
| `x/tracking` | `TxInfo` and contract operations with an index each, latest identifiers | ante handler, `IngestGasRecord`, `EndBlocker`, `RemoveBlockTrackingInfo` | wasm (gas), rewards |
| `x/rewards` | contract metadata, flat fees, block rewards, tx rewards, rewards records with an index, minimum consensus fee, `Params`, two module accounts | fee ante handlers, mint split, `EndBlocker` allocation, `WithdrawRewards`, `SetContractMetadata`, `SetFlatFee`, `UpdateParams` | bank, tracking, mint |
| `pkg.ExecuteWithGasLimit` | a branch of the state | open, commit, drop | callback, cwerrors |
| `x/cwfees` | granting contracts | `RegisterAsGranter`, `UnregisterAsGranter`, `RequestGrant` | wasm (sudo), fee ante handler |
| `x/cwica` | parameters; channels live in ibc-go | `RegisterInterchainAccount`, `SendTx`, channel open, ack, timeout | ibc, wasm (sudo), cwerrors |
| `contracts/go/voter` | votings, status of votes sent over IBC, reply types, release and withdraw statistics, `Params` | create a voting, vote, vote over IBC, release, withdraw, change costs, replies, IBC receive, ack, timeout | ibc, bank, rewards |
| genesis of the modules | what is exported | `ExportGenesis`, `InitGenesis` | bank (balances) |
| `x/genmsg`, `x/gov`, `wasmbinding`, upgrades, wiring | none of their own | run messages at genesis, read votes, translate contract messages | all of the above |

A block runs: `BeginBlock` (mint and the split of the inflation, which also
sets the minimum consensus fee), transactions (ante handlers, then messages,
whose effects are dropped together when one fails while those of the ante
handlers stay), and `EndBlock` in the order gov, ..., tracking, rewards,
callback, crisis, cwerrors. A panic in `BeginBlock` or `EndBlock` stops the
chain on every node alike.

What is hard here is not concurrency, since a chain executes sequentially, but
re-entrancy and staleness: contracts run inside EndBlockers and send messages
to the very modules that are iterating over their state; values are read
before a contract runs and used after it; fees are taken at one gas price and
settled at another; objects and their indexes are written by different
operations; an identifier that means "the current transaction" is also used
where there is none; and integer and decimal rounding feeds subtractions that
panic. The properties each part needs:

- callback: fees in the module account are exactly those owed, each is shared
  out completely and, but for one case, once, nothing is left behind, and
  nothing but that case lets the EndBlocker panic;
- cwerrors: a failure is neither lost nor reported twice, indexes agree with
  what they index, what was paid for or announced is kept as long as promised;
- tracking: objects and indexes agree, totals are the sums of exactly the
  operations shared among, data is kept for the window and no longer;
- rewards: records are covered by the module account but for flat fees that
  never reached it, allocation subtracts more than there is only by rounding or
  uncounted gas, a removed record was paid to its owner;
- cwica: what a contract is told about a remote transaction is what happened,
  told once, and no failure goes unreported, although channels close under
  packets in flight;
- cwfees: every account is charged exactly the fees it owes, a contract those
  it agreed to, although it is asked before anything else is known to succeed,
  and one that refuses is not charged through an allowance;
- voter: no vote counts twice and none that was acknowledged is missing, over
  a channel without order.

`PROJECT.json` lists the single hazards at their lines.

## 2. Modules

| Module | Role |
| --- | --- |
| `Coins` | `SendCoins` on a function from accounts to balances |
| `Escrow` | abstract specification: deposits are taken once, held, settled once and completely; a branch is kept or undone as a whole |
| `Callback` | `x/callback`, with the branch a contract runs in |
| `CwErrors` | `x/cwerrors`, with the transient store and the same branch |
| `Tracking` | `x/tracking`, including the pruning driven by `x/rewards` |
| `Rewards` | `x/rewards` composed with `Tracking` (an instance whose actions it conjoins with its own) |
| `RewardsGenesis` | `x/rewards` with export and import of the state as a further step; that of `x/tracking` is `Restart` of `Tracking` itself |
| `Requests` | abstract specification: a remote transaction has one outcome, and its contract learns that outcome, at most once |
| `CwIca` | `x/cwica` composed with `CwErrors`, which it extends, and with a host chain and an ordered channel |
| `CwFees` | `x/cwfees` and the choice of the fee payer in the ante handler |
| `Voter` | the voter contract on two chains and the unordered channel between them |
| `MCCallback`, `MCCwErrors`, `MCTracking`, `MCRewards`, `MCCwIca`, `MCCwFees`, `MCVoter` | small instances for TLC |
| `SumLaws`, `SumTheorems` | laws of sums over finite sets (balances, promised rewards, gas), and their proofs |
| `CallbackProofs`, `TrackingProofs`, `RewardsSteps`, `RewardsProofs`, `CwIcaProofs` (with those about `CwErrors`), `CwFeesProofs`, `VoterProofs` | theorems |

Operators marked *Mutant* in a comment are plausible wrong versions of the
definition after them; nothing uses them. Substituting one must violate the
property `PROJECT.json` pairs it with.

### Callback

`callbacks` is the collection, `due` what the EndBlocker's iterator has still to
yield, `running` the callback value read from it, `saved` the state below the
branch the running contract writes to. A message is one step
(`RequestCallback`, `CancelCallback`, `UpdateParams`). The EndBlocker is split
exactly where a contract runs: `EndBlocker` opens the iterator,
`ExecuteCallback` opens the branch, then the contract may send messages, then
`CallbackSucceeds` or `CallbackFails` keeps or drops the branch, and
`SettleCallback` shares out the fees of the value read before and removes its
key. If the module account cannot pay (`CanSettle`), the EndBlocker panics and
the chain stays there (`Halted`).

A running contract may send any message, and nothing in the code keeps it from
cancelling its own callback or one that waits in the iterator. The cancellation
refunds the fees and the settlement shares them out once more (section 4). The
model has this as the code has it: `paidTwice` is a history of the fees of
callbacks that were gone from the store when they were settled
(`SettledBefore`), and the properties say that this is all that goes wrong.

### CwErrors

An error is identified by the failure it is about; module name, code and text
play no part. `sudoErrors` is the transient store, `pending` what its iterator
has still to yield. `SudoErrorCallbackExec` opens a branch for the contract, which may
subscribe meanwhile; `SudoFails` drops the branch and stores the error in the
state instead. `told` and `announced` are history: failures a contract took
note of, and the deletion height announced when an error was stored.

### Tracking and Rewards

`phase` follows the block: `deliver`, `msgs` (past the ante handler),
`endblock` (EndBlockers before tracking, such as that of x/gov), `finalized`
(totals taken), `allocated` (rewards shared, old data pruned, later EndBlockers
running). `EndBlockCall` is a contract called by an EndBlocker: it reports gas
without a transaction of its own and is linked to the latest one, as the code
does. `inTx` is history.

`Rewards` adds the money. `NextBlock` splits the mint and computes the minimum
consensus fee, and a mint of which the contracts' part truncates to nothing
stops the chain, like an allocation that panics (`Halted`); `AnteHandle` demands the minimum fee with the flat fees, records
flat fees, and splits the fee; `MsgsSucceed` and `MsgsFail` end the messages;
`RewardsEndBlocker` computes the shares, creates records or pays wallets, sends the rest
to the treasury and prunes. Decimals are integers in units of 1/`Precision`,
rounded as `LegacyDec.Quo` rounds (half to even) or truncated where the code
truncates. `unfunded` is a history of the flat fees of which `AnteHandle` made
records while the coins went to the fee collector: the rebate ratio was zero,
or the calls were inside `MsgExec`, whose wasm messages the code overlooks
(`HasWasmMsgs`).

Abstractions: one denomination; the fee collector's balance is left out, so
what goes there or is burned leaves the model; a transaction carries contract
calls or one message of the module; calls in a transaction are inside `MsgExec`
all or none (`wrapped`); the payer is an input.

### CwIca

The steps of `CwErrors` go on unchanged; `SendTx`, the registration and the
three IBC callbacks are added. `channels`, `active` and `commitments` are the
state of ibc-go as this module sees it: a channel is opened by a handshake, at
most one per owner and connection is active, a timeout closes it, and a packet
has a commitment until it is acknowledged or timed out. `packets` also says
what the host chain did with each; it receives them in order. A packet that
was executed may lose its acknowledgement when an earlier one has closed the
channel. `responses` is what `SendTx` returned to the contract, `answers` what
the handlers passed on. The refinement mapping to `Requests` goes through the
contract's view: request *r* is the channel and sequence in the *r*-th
response, so a wrong sequence number would be seen as a wrong answer.

### CwFees

A transaction writes to a branch, `store`; `committed` is what a failure falls
back to. The ante handler runs in the stages at which it may fail. `AnteHandle`
takes a transaction. `GetFeePayer` chooses who pays: `UsePayer`,
`RequestGrant`, which calls a granting contract, and `UseGrantedFees`, which
takes the fee off an allowance, are its branches. `DeductFees` takes the fee
from the balance. `AnteAccepts` stands for the decorators that follow, the
check of signatures among them, and commits the branch, `AnteFails` for the
failure of any stage and drops it. The messages run in a new branch, kept by
`MsgsSucceed` and dropped by `MsgsFail`. A granting contract writes to its own
storage while it is asked (`granted`), before it is charged, and may leave the
list of granters; it may need more gas than it gets. `approved` and `paid` are
history: the allowances given, and the fees that each payer or granter of an
allowance owed, by the transaction alone and not by what was deducted.

### Voter

A call is one step together with its sub-messages and replies. Votings are
functions from identifiers, votes are one sequence per voting (the code keeps a
list for each option and for yes and no; who voted is looked up in all of
them). Timestamps are words of `TimeModulus` values, so the end of a voting may
wrap; such a voting is never open. Packets are delivered in any order, each at most once, before their
timeout or never, and their acknowledgement arrives at any later time.
`released` and `withdrawn` are history; whether the transfer event reaches the
contract in a reply is left open.

## 3. Runs that pass

| Run | Bounds | Shows |
| --- | --- | --- |
| `callback` | 2 contracts, an admin, a blocked account, 1 job, heights to 3, gas prices 1/2 and 3/2, two parameter sets | `EscrowBacked`: the module account holds exactly the fees of the stored callbacks, less what was paid twice. `HaltsOnlyIfPaidTwice`: settlement panics only after or while paying a second time. `IteratorCurrent`: under the key of a callback the EndBlocker has read the store holds that callback or nothing, so no settlement removes another. `NoneStranded`: no callback outlives its block. `ImplementsEscrow`: second payments apart, every step is one of the escrow. Under fairness `EventuallyServed`, unless the chain stops. |
| `cwerrors` | 2 contracts, 2 errors, transactions to height 3, blocks to 5, two parameter sets | `IndexesAgree`, `SubscriptionsAgree`, `OneFate` (a failure is in exactly one place), `KeptAsAnnounced`, `PaidPeriodKept`; under fairness `EventuallyPruned`, `EventuallyReported`. |
| `tracking` | window of 2, 3 transactions, 4 operations, 4 blocks, export and import between any two | `IndexesAgree`, `TotalGasIsSum`, `OwnOpsReferToTx`, `WindowOnly`, `KeptForWindow`. |
| `rewards` | 3 contracts, window of 1, 2 transactions, 3 operations, 2 blocks, mints 1 and 8, flat fees 0 and 2, transactions with a call, with one inside `MsgExec` and with none, governance switching the inflation rewards off and on, decimals in fifths | `RecordsBacked`: the account holds what the records and the running block promise, less flat fees recorded without coins. `SharesBounded`: within the block gas limit the shares exceed what was collected by rounding at most. `HaltsOnlyIfShort`: only that excess, or records without coins that were withdrawn, make the allocation panic. `RecordIndexAgrees`, `FlatFeeHasRecipient`, `PrunedTogether`, `PaidWhenRemoved`. |
| `cwica` | 1 contract, 1 connection, 2 channels, 2 requests, 2 errors, host time to 2, blocks to 3 | `ImplementsRequests`; `EveryFailureReported`: each failure has an error of its own, made out to the right contract; under fairness `EventuallyTold`. |
| `cwfees` | 2 users, 1 contract, fees 1 and 2, funds of 1, 1 and 2, allowances of 2, a gas limit that some replies exceed | `BooksAgree`: every account has lost what it owed, a contract what it noted down when it was asked, whichever stage or message failed. `AllowancesAddUp`: paid and left is what was given. |
| `voter` | 2 chains, 1 address with two ballots, 1 voting, 2 packets, timestamps of 4 values, two costs | `OneVote`, `VotingsKept`, `AckedIsCounted`. `StatusIsTrue`: the status of a vote is what became of one of its packets, also when it was sent twice. `OpenForDuration`: the query returns exactly the votings whose duration has not passed, and none whose end wraps. `RepliesDispatched`. |

The bounds are chosen so that each interesting case occurs. In `Callback` two
contracts give a callback that runs while another of the same block waits, and
two gas prices on both sides of one coin give a rise and a drop between
reservation and settlement, with rounding. In `CwErrors` two periods and two
storage times let a subscription be renewed with shorter terms and errors
stored later expire earlier. In `Tracking` four blocks with a window of two
give blocks that are pruned, blocks without transactions, and EndBlocker calls
after the last transaction was pruned. In `Rewards` a window of one prunes in
the second block; a third of the gas is rounded up to two fifths, so the shares
of three contracts in the fees of a transaction exceed the whole, the smallest
case in which they do, and gas of 3 against a limit of 6 is rounded down. In
`CwFees` a contract can pay one fee of 2 or two of 1, an account may lack the
funds after it was chosen, and both users draw on what the contract has. In `CwIca` a second channel is opened after a
timeout of the first while its packets are unanswered; owners meet only in
`x/cwerrors`, so one contract is enough here, and that an error is made out to
the right one of several rests on the proof of `FailuresReported`. In `Voter` both packets are for the same voting
and one address, the case in which a status is overwritten, and the address
also votes directly; that votings do not disturb each other rests on the proof
of `VotingsNotLost`. Deadlock is checked in every passing run. Where the bounds
end a run, or a panic ends the chain, the last states stutter explicitly; in
`CwFees` and `Voter` a message is always possible.

Fairness: weak fairness of the stages of the EndBlocker (opening the iterator,
executing a callback or error, the return of a contract, settling or pruning)
and of `NextBlock`. Consensus keeps producing blocks, an EndBlocker is run to
completion before its block is committed, and the gas limit makes every
contract return. Nothing is assumed of users, relayers or the host chain: no
message and no packet is ever owed, so `EventuallyTold` begins when a failure
has been relayed.

## 4. Runs that show a disagreement

| Run | What happens |
| --- | --- |
| `callback_overpay` | A contract that cancels its own running callback, or one that waits in the same iterator, is refunded by the cancellation and again by the settlement, out of fees held for others. |
| `rewards_unbacked` | With a rebate ratio of zero, a flat fee becomes a rewards record while its coins go to the fee collector, against the module's registered invariant. |
| `rewards_wrapped` | With the rebate on, a call inside `MsgExec` to a contract with a flat fee does the same: `GetContractFlatFees` returns the flat fee but, because of a shadowed variable, not that a contract is called. |
| `rewards_gas` | Gas of contracts called by x/gov's EndBlocker is not limited by the block gas limit, but inflation is shared in proportion to that limit, so more than everything can be shared and the subtraction panics. |
| `rewards_genesis` | An import stores the rewards of transactions by height instead of by identifier, so a later transaction whose identifier is that height takes them for its own: coins that were not collected in its block go to the treasury, out of those the records promise. |

The findings in `PROJECT.json` quote the comment or document each contradicts.
Some observations have no run of their own. A contract called by an EndBlocker
after the window has passed without transactions is linked to a pruned
`TxInfo`; the operation is never pruned (hence `inTx` in `OwnOpsReferToTx`).
Shares are rounded to nearest, so three of them can add up to more than one;
when the excess is a coin or more and nothing else of the block is left over,
the subtraction after them panics. The run `rewards` reaches this state and
`SharesBounded` says how large the excess may be. A mint so small that the
split leaves nothing for the contracts makes the BeginBlocker panic; `rewards`
reaches that state too. A callback cancelled by one
that runs before it in the same block is still executed (the cause of
`callback_overpay`). An import of `x/callback` restores the parameters and
bank the balances, but no callbacks: their fees stay in the module account. When the gas price has dropped since the reservation, a
failed callback gets part of its transaction fees back, where the comment in
`x/callback/abci.go` says nothing is refunded; `ImplementsEscrow` covers that
the refund is neither negative nor more than was paid. `EscrowBacked` does not:
refund and consumed fees add up to what was paid whatever their split.

## 5. Proofs

TLAPS proves the following for every value of the constants that satisfies the
named assumptions of the modules (finiteness and types of the constants).

- **Sums.** `SumTheorems` is about `SumFunctionOnSet` of the community modules.
  Induction over a finite set is written as a theorem about *sets of subsets*
  (`SubsetInduction`: a set of subsets that holds a set whenever it holds all
  its proper subsets holds them all), which rests on the library's theorem that
  strict inclusion is well founded and needs no operator as a parameter. From
  it: the fold is the recursive sum (`SumFold`), a member can be taken out or
  added (`SumRemove`, `SumAdd`), disjoint sets add up, renumbering keeps a sum,
  sums are monotone, and the order of a double sum can be exchanged
  (`SumSwap`). `SumLaws` states what the proofs about `Rewards` need of this as
  formulas: they take `SumLaws` as a hypothesis, which keeps them independent
  of how it is proved. `SumLawsHold` proves it, and `RewardsProofs` discharges
  it (`LawsHold`): no theorem below has it as an assumption.
- **Callback.** `InductiveInvariant` establishes `IInv`: the types, the store
  (keys are unique, nothing is reserved for a past height, what is reserved for
  this one is in the iterator), the same of the store below an open branch,
  since a failing contract returns to it, and facts about the iterator: what it
  holds is of the current height, its keys are unique, and the running callback
  is not in it. From it `TypeCorrect` (no balance becomes negative),
  `NothingStranded` and `IteratorAgrees`. `FeesAreHeld` adds that the balance
  and what was paid twice are the sum of the fees of the stored callbacks, in
  the branch and below it. `SettlementCovered` follows: as long as nothing was
  paid twice, a callback that is settled while in the store is one of those
  summed over. Running contracts may cancel and reserve what they like.
- **Callback and Escrow.** `Refinement`: every step of `Callback` is a step of
  `Escrow`, stutters, or adds to `paidTwice`. A stored callback is a deposit of
  its fees, the contract's branch is the branch. One lemma for each action
  shows the step of `Escrow` it is.
- **CwErrors.** `IInv` adds to the properties that identifiers below the
  counter are used once (`Numbered`), that the three error maps are written
  together (`Stored`) and that the branch only adds to what lies below
  (`BranchExtends`). From it `NoFailureLost`, `SubscriptionIndex`,
  `ErrorIndexes`, `KeptUntilAnnounced` and the action property
  `PaidForIsKept`.
- **Tracking.** `IInv` adds that transactions are numbered in the order of
  their heights (`Ordered`) and that the latest one is of this block while its
  messages run (`Current`); both are needed to see that pruning a height
  removes a prefix. From it `Indexes`, `NoOrphanInTx`, `Window`, the action
  property `Kept`, `TotalsAreSums` and, with it, `TypeCorrect`.
- **Rewards and Tracking.** A lemma, `ImplementsTracking`, says that every step
  is a step of `Tracking` or leaves its variables alone. `RewardsProofs` instantiates
  `TrackingProofs` and shows that the definitions are the same on both sides,
  so its inductive invariant and totals hold here (`TrackedAlways`) and the
  proofs below use them. `RewardsSteps` holds what is about single steps.
- **Rewards, records.** `FlatFees` and `Pruning` come from an invariant that
  ties the rewards of a transaction and of a block to the height under which
  they are pruned. `Recorded` adds that identifiers are not above the counter
  and that the index has an entry for each record and no other. From it
  `TypeCorrect`, `RecordIndex` and the action property `Payments`.
- **Rewards, money.** `Backed`: with the flat fees recorded without coins
  added, the account holds the sum of the records and, until they are shared,
  the inflation and fee rewards of the running block. It assumes nothing of
  parameters, calls and amounts. `Shares`: in a block within its gas limit what
  is distributed is at most (1 + *n* / (2 `Precision`)) times what was
  collected, with *n* the number of contracts, and no more than was collected
  when that is less than 2 `Precision` / *n*. The argument: the gas of the
  contracts adds up to that of the transactions (`PartsLaw`, `RowsLaw`), and a
  share is rounded up by at most half a unit, so *n* shares of an amount *a*
  exceed it by at most *n a* / (2 `Precision`) (`ShareLaw`). With the code's
  precision of 10^18 the second part covers 2 * 10^18 / *n* units of the
  denomination, which the rewards of a block may well exceed; above it only the
  first part holds. `Allocates`: when the shares are within what was collected
  and the records cover the flat fees without coins, the allocation does not
  panic. It assumes that no contract starts with a rewards address that cannot
  receive coins; the code lets none be set later.
- **CwIca.** A lemma, `IcaUsesCwErrors`, says that every behaviour of the
  composition is one of `CwErrors`. `IcaInductive`
  establishes `IcaInv`: the inductive invariant of `CwErrors`, that packets are
  on channels that exist (`OnChannels`), that responses and packets correspond
  one to one and sequences are below the channel's next (`Sent`), that an
  answer is about a packet without commitment and agrees with what the host
  chain did (`Answered`), and that errors raised here have numbers of their own
  (`Reported`). From it `IcaTypeCorrect`, `FailuresReported` and
  `RequestsImplemented`, the refinement of `Requests`: the host's step settles
  requests, an answer is learnt, and all other steps stutter.
- **CwFees.** `Inv` adds to the properties, which are about the committed
  state, how far the branch may be ahead of it at each stage (`Staged`): after
  `GetFeePayer` an allowance is lower or a contract's note higher by the fee,
  and not both, after `DeductFees` also the balance of the chosen account, and
  while messages run balances and notes are the committed ones. From it
  `GrantsAreCharged`, `AllowancesKept` and `TypeCorrect`.
- **Voter.** A step changes the votings by `Created` or `Voted` and the packets
  by `Sent`, `Received` or `Settled`; the invariant is shown for these. `Inv`
  adds to the properties that identifiers above the last are unused (`Fresh`;
  without it a new voting might replace one), that ends are sums (`EndsRight`), that votings have started (`Started`; so
  one whose end wrapped is closed already),
  that packets are unique, that acknowledgements are true (`AcksAreTrue`) and
  that a packet that timed out cannot be received any more
  (`TimeoutsAreFinal`; without it a vote reported as timed out might be counted
  later). The packet `StatusIsTrue` speaks of is the one that last set the
  status; a step for another vote, or the receipt of a packet, leaves its
  status true. From it `TypeCorrect` and a theorem for every property of the run.

So every invariant, action property and refinement that a passing run checks is
also a theorem. Only
model-checked: liveness (`EventuallyServed`, `EventuallyPruned`,
`EventuallyReported`, `EventuallyTold`), which needs fairness and ENABLED, out
of the prover's reach; and the disagreements of section 4, which are
counterexamples. The type invariants of `Callback`, `CwErrors`, `CwFees` and
`Voter` are proved and no run repeats them; the runs check those of the other
modules.

## 6. Not modelled

- Most of the repository's lines are generated (`*.pb.go`, `*.pb.gw.go`,
  `*_tinyjson.go`) or encode, route, print and query. They hold no state that a
  step of the chain changes.
- `x/genmsg` runs messages of other modules at genesis and `x/gov` reads votes;
  `wasmbinding` translates messages of contracts into messages that are
  modelled. None has state of its own.
- Import of `x/callback` drops the callbacks (section 4) and is not a step.
- Past upgrades run once, before the states modelled here. Wiring matters for
  the order of the EndBlockers, which the models follow.
- Import of `x/cwerrors` sets the parameters only: errors and subscriptions are
  dropped, and the module starts from `Init`. Import of `x/cwfees` registers the
  same contracts again; `x/cwica` has parameters only.
- `Callback` and `CwErrors` are not composed: a callback that fails raises an
  error, which `Callback` counts (`raised`) and `CwErrors` takes as `SetError`
  at any time before its EndBlocker; neither reads state of the other.
- Several denominations, and parameters of 2^63 and more whose casts would
  wrap, are beyond the instances. In `Voter` timestamps do wrap.
- Of the voter contract: queries (but for open votings), messages that only
  forward another (`CustomCustom`, `CustomUpdateMetadata`) or fail on purpose,
  and the channel handshake. Other contracts have no protocol of their own.
- ibc-go, x/bank, x/feegrant, baseapp and the host chain are external: modelled
  from how the code uses them.
