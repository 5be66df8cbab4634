# Verification of the parachain node and runtime

This directory holds TLA+ models of the parachain in this repository: a Cumulus
collator node (`node/`) and its runtime (`runtime/`). The code is small, but
most of what it does is wiring: it hands clocks, relay chain data, session
keys, barriers and task spawners to library components. The models are about
that wiring. Library behaviour (FRAME and Cumulus pallets, the XCM executor, the
relay chain, the service task manager) is modelled only as far as the wiring
depends on it, and is marked external in `PROJECT.json`.

## 1. Inventory

| Component | State | Operations | Interacts with |
|---|---|---|---|
| Collator (`node/src/service.rs`, `build_consensus`, `start_collator`) | job in progress, local database | collation request, inherent data, claim of a slot, build, announce | relay chain (parent head, validation data), Aura, system clock |
| Import queue (`build_import_queue`) | local database | verify header and inherents, execute, import | peers, system clock |
| `validate_block` and `CheckInherents` (`runtime/src/lib.rs` 708-735) | none | check of a candidate on the relay chain | relay state proof, Timestamp |
| Runtime time checks (Timestamp, Aura, ParachainSystem) | last slot, timestamp, relay number | inherents of each block | collator, import queue, validators |
| Collator set (Authorship, CollatorSelection, Session, Aura, AuraExt) | candidates, last authored block, session keys, queued and active authorities, cached authorities | hooks of each block, `set_keys`, `purge_keys`, `register_as_candidate`, `leave_intent` | order of `construct_runtime!`, genesis |
| Node startup (`command.rs` `run`, `service.rs` `start_node_impl`) | spawned tasks, network, collator key, outcome | the steps of startup, task death, signals | options, task manager, runner |
| XCM (`runtime/src/xcm_config.rs`) | balances, holding, asset traps | barrier, instructions, local teleports and transfers | XCMP, DMP and UMP queues, relay chain |
| Transactions: weights, fees, nonces, balances (`lib.rs` 93-146, 205-255, 332-365, 523-628) | accounts, weight used in the block, fee multiplier | validation, application, fee withdrawal and correction | pool, RPC, author |
| Transaction pool and JSON-RPC (`service.rs` 104-110, `rpc.rs`) | transactions waiting | next index, submission, revalidation, return of retracted ones | runtime APIs |
| XCMP and DMP queues (`lib.rs` 367-403) | pages of messages, overweight messages | service by the inherent and by `on_idle` | XCM, block weights |
| Command line and chain specifications (`cli.rs`, `command.rs`, `chain_spec.rs`) | configuration | `load_spec`, export of genesis, relay chain defaults | startup |
| Remaining runtime APIs, weight tables, benchmarking | none | delegation | - |
| Template pallet (`pallets/template`) | one `u32` | `do_something`, `cause_error` | not part of the runtime |

What is hard in this system:

- Three clocks meet in every block: the author's, the importer's and the relay
  chain's. The author reads its clock after an await, the importer compares with
  its own, the validators derive a time from a relay slot. Slot, timestamp and
  relay number each have their own monotonicity check.
- Relay blocks arrive, candidates are backed, included or dropped while another
  collator is still building on an older relay parent.
- Sessions rotate in the middle of the initialisation of a block that was sealed
  under the old session; keys may change owner while they wait in the queue.
- Tasks may die while startup still waits for another step.
- An XCM message may fail after any prefix, and a send may fail after the assets
  were moved; before it asks for a dispatch it may change its origin at will.
- An author may stop before it announces a block the relay chain has backed.
- A transaction is validated in one state and applied in another, by another
  author, perhaps twice, perhaps in a block that is retracted; the call it pays
  for may remove the account that paid.
- Hooks, messages and three classes of extrinsics compete for the weight of a
  block.

For each component, the properties that make it correct are those of section 4.

## 2. Plan

1. Done: the models `Collation` with the abstract `IncludedChain` it implements,
   `CollatorSession`, `NodeStartup`, `Deployment`, `XcmExecution`, `XcmOrigins`,
   `DownwardMessages`, `Transactions` and `TemplatePallet`.
2. Done: proofs of every invariant, every action property and the refinement that
   the passing runs check (section 5). Each `...Proofs` module extends the model it
   is about; `NodeProofs` (`Deployment` and `NodeStartup`) and `MessageProofs`
   (`DownwardMessages` and `XcmOrigins`) extend two each, whose specifications are
   told apart by name (`ProcessSpec`, `OriginsSpec`). `DataInduction` holds what they
   share.
3. Left to model checking: the liveness properties.

## 3. Modules

### Collation

State: `now`, the relay chain's clock; `relay`, the relay blocks with slot,
parachain head and pending candidate; `blocks`, every parachain block ever
built; `job[c]`, the relay parent collator `c` is building on; `known[c]`, its
database; `lost`, the blocks that nobody announces; `refused[c]`, the recovered
blocks that `c` did not import. `Clock(c)` is `now + Skew[c]`.

`Collate` is the relay node's request, which fixes the relay parent and so the
parent head; `Propose` is the end of the closure of `build_consensus`: the clock
is read there, after the await, and any number of other steps may lie between
the two. Slot and timestamp come from that one reading, but the block carries the
timestamp that the runtime makes of it (`CreateInherent`, called through
`inherent_extrinsics`, `lib.rs` 552-554): never less than `MinimumPeriod` after the
parent's, so that a block may be ahead of its author's clock. `InherentUnavailable`
is the `ok_or_else` of lines 393-397, `SkipSlot`
a slot of another collator or a block the runtime refuses. `Import` is the
import queue of a peer, fed by announcements; it refuses a block until its own
clock has come close enough. A collator may stop between the submission of its
candidate and the announcement (`lost`); `Recover` is what `start_collator` and
`start_full_node` spawn with `relay_chain_slot_duration`: a block which the relay
chain has backed and nobody announced is recovered from the validators and handed
to the same import queue, once: when the queue refuses it, nothing in this
repository offers it again (`refused`). `RuntimeAccepts` is the conjunction of the
checks that Aura, Timestamp and ParachainSystem make with this runtime's
configuration; `ValidateBlock` adds `CheckInherents`. `RelayBlock` and `SettleCandidate` are the environment: the
relay chain produces at most one block a slot, backs a candidate built on its
previous block and on the current head, and includes or drops it later. Relay
forks, and the import of blocks by full nodes that are not collators, are left
out: a full node behaves like a collator that is never asked. A slot's claim is
by the authority at the slot's index; the set of authorities is constant here
and the subject of `CollatorSession`.

`IncludedChain` is the abstract specification: a clock and the set of included
headers, to which one header is added at a time, with the next number, a later
slot, a later relay parent and a timestamp at least `MinimumPeriod` later and at
most `Lead` ahead of the clock. Under the mapping in `Collation` (`now`, and the
headers of the heads of all relay blocks) every step of `Collation` is a step of
it or a stutter (`ImplementsIncludedChain`).

### CollatorSession

State: storage of the five pallets, plus the stage of the current block. A block
begins in any slot (`BeginBlock`); the slot's author is the one at `Seat`, the slot
modulo the number of authorities. Between
`BeginBlock` and the extrinsics the hooks run one by one in `HookOrder`, the
order of `construct_runtime!`; `FindAuthor` goes from the slot to an index by Aura's
authorities, and from the index to an account by Session's validators, as they are
when Authorship's hook runs. `SessionHook` rotates the session when
`PeriodicSessions` says so. `sealer` and `active` are history: who sealed the
current block, and who was credited since the session began. `Careless` accounts
may purge their keys.

Privileged calls (`set_invulnerables`, `set_desired_candidates`,
`set_candidacy_bond`) need Root, an origin that this runtime cannot produce
(there is no sudo or governance pallet and no XCM origin converts to Root), and
so are left out. `testnet_genesis` leaves `desired_candidates` at 0; then no
account can ever register. The model keeps the number a constant since a chain
specification may set it.

An observation: with `KickThreshold = Period` a newcomer's grace is one session,
but its keys take effect only at the second session change after its
registration. A candidate that registers in the block of a session change, with
more candidates than `MinCandidates`, may be removed before its first turn.
`ActiveCandidateKept` is about candidates that did author.

### NodeStartup

State: the options, the next step, the tasks spawned and which of them are
essential, those that died, network and collator key, and how the process ended.
Each step of `start_node_impl` that can fail has its success and its error;
`TaskDies` may happen at any moment after the spawn; the runner reacts
(`EssentialTaskEnded`, `Signal`) only when startup has returned, as in
`run_node_until_exit`.

### XcmExecution

State: the balances of the accounts, asset traps, the registers of the executor
(`vm`: origin, remaining instructions, error handler, appendix, holding, fee paid),
and history: tokens the relay chain reported as reserved (`backed`), tokens taken off
the chain (`left`), tokens that a failing instruction took from holding or account
and put nowhere (`stray`), and the withdrawals and deposits made (`operations`). One
action per kind of instruction, one for a failing instruction, one for the appendix,
one for `post_execute`. `Start` applies weigher and barrier, whose two parts
`DenyReserveTransferToRelayChain` and `DenyThenTry` are this repository's own code. A
send may fail after the assets were moved (`AfterSend`).

Balances follow `pallet_balances` with this runtime's `ExistentialDeposit`: a
withdrawal that leaves less burns the rest (`Debit`), a deposit of less does not make
an account (`Credit`). Beneficiaries and destinations are any location, also one
`LocationToAccountId` knows no account for. `SetErrorHandler` and `SetAppendix` hold
programs of the other instructions, nested one deep.

Abstracted or left out: there is one asset, the relay chain's token, the only one
`LocalAssetTransactor` matches; weights are counted in instructions and every message
costs the same `Fee`, of which `Refunds` gives back any part once there is surplus
weight; deposits and departures are of all of holding; programs nested deeper than
one, the instruction `RefundSurplus`, queries and version subscriptions. `Transact`
and `DescendOrigin` are the subject of `XcmOrigins`.

Two observations. `DenyReserveTransferToRelayChain` looks at the instructions of the
message itself and not into the programs these hold, so that `ReserveTransferDenied`
is about the message's own instructions. And fees that are too low for the trader,
a deposit to a location without an account, and amounts below the existential
deposit are not trapped: the tokens are gone, which `AssetsConserved` accounts for.

### XcmOrigins

State: the chain whose message is executed, the origin register, and the calls
dispatched so far. `DescendOrigin`, `ClearOrigin` and `Transact` may be executed
in any order; `XcmOriginToTransactDispatchOrigin` and `LocationToAccountId` are
the converters of `xcm_config.rs`, each as the set of its answers (at most one).
A location is a number of parents and a sequence of junctions. Two observations:
the relay chain may descend to one of its parachains and act as that sibling;
and no converter answers with Root, which is what `ExecuteOverweightOrigin`,
`ControllerOrigin` and `CollatorSelectionUpdateOrigin` ask for.

### DownwardMessages

State: messages sent by the relay chain with the weight they require and use, how
many of them blocks have taken in, the queue of `DmpQueue`, its overweight
messages, and the order of execution. `Block` is the whole block: the inherent
services the queue and then the new messages with `ReservedDmpWeight`, `on_idle`
services what is left with whatever extrinsics left over. A message that does not fit
waits, and all behind it with it. Only one that is just arriving, while nothing
waits, and is heavier than `MaxIndividual` (10 ms, the pallet's default) is put aside;
one that got into the queue is never put aside (`arriving`).

Two observations. A message between 10 ms and a quarter of a block, which would run
in a block of its own, is put aside when it arrives after others in the same block, and
then stays there: only Root may service it. And a message that needs more than the
reserved quarter, if it arrives while another waits, gets to the head of the queue
and holds up what is behind it until some block leaves enough weight to `on_idle`:
`OrdinaryMessagesExecuted` excepts what is held up (`HeldUp`), and
`QuietBlocksEndStall` says what ends it.

The limit on the number of overweight messages is not reached. A message stands for
all that a weigher and barrier can make of it: it is executed for its full weight, or
refused at no weight. Messages with more than `MaxInstructions` instructions, which
the weigher refuses, are like refused ones of no required weight and are left out.

### Transactions

State: the state of the best block (balances, issuance, nonces, fee multiplier,
and per account the log of what was applied since the account exists), the parent
state and body of the best block while it may be retracted, the block under
construction, the pool, the index each wallet was last told, and every transaction
ever signed. `ReadIndex` is the call of `System::account_next_index`, which looks at
state and pool; `Sign` uses the index, which may be out of date by then, and submits
nothing; `Submit` is the submission, gossip, or a second submission. In between
come blocks, retractions and other wallets' calls. `PoolsWith` is what the pool makes
of a transaction: one of the same account and index with a lower priority gives way
(`Outranks`: the class, then how many fit in a block). An author's block may contain
any transaction ever signed, since authors have pools of their own.
`ApplyExtrinsic` goes through the extensions of `SignedExtra` in which state
matters (`CheckNonce`, `CheckWeight`, `ChargeTransactionPayment`), dispatches, and
corrects the fee by the weight given back. `InitializeBlock` chooses the mandatory
weight; `FinalizeBlock` the next fee multiplier, which `SlowAdjustingFeeUpdate`
moves from block to block. `Retract` is the relay chain's choice of a sibling.

The constants of the runtime have their real values: a block is 20 000 units of
25 microseconds, a MILLIUNIT 1000 MICROUNITs, and all fees that occur are whole
MICROUNITs. Endowments are small, as those of accounts paid by others are, so that
accounts come near the existential deposit. Left out: locks and reserves, tips,
mortal eras, proof size and block length, and the weight of single inherents.

Two observations. The nonce of a reaped account starts again at zero: a
transaction is applied once in the life of an account (`AppliedInOrder` is stated
per life). And `avg_block_initialization` does not include `base_block`: the limit of
a single extrinsic leaves 5 % of a block for hooks, and `BlockExecutionWeight` takes
another 1 %, so that an Operational extrinsic within that last 1 % of its limit is
admitted by the pool and fits in no block with hooks of 5 % (`opMax` in the run).
`ReadyLeavesPool` and the theorem `AdmittedFitsAlone` are about the ones that fit
(`FitsBesideHooks`).

### TemplatePallet

State: the storage value, the events, and a count of increments since the last
event. The width of the value is the code's, 32 bits, which is out of TLC's reach:
the module is proved about and not run. The pallet is not part of
`construct_runtime!`.

### Deployment

State: the databases on the operator's disk by base path and chain id, the
genesis states exported and registered, the running node, and the last
`purge-chain`. Each command loads its specification and finds its directories
with its own code: the node through its configuration, where `--dev` stands for
`--chain dev`; the export commands from `--chain` alone (`command.rs` 182, 190);
the relay chain node through `RelayChainCli::new`, `base_path` and `chain_id`.
That `NodeBuildsOnRegistered` holds for `--dev` rests on
`development_config` and `local_testnet_config` having the same genesis. The relay
chain node may be given the parachain's base path (`command.rs` 348-353 does not
compare them): when both chains also have the same id, the start fails, since the
parachain's database is open in that directory; but a relay chain database left
there by an earlier start may be what a later parachain start finds, and
`NodeBuildsOnRegistered` excepts such a node. Assumed
of the operator: a specification file that changes the genesis has an id of its own (a
database is found by the id alone). A genesis is abstracted to the collators and
the para id.

## 4. Runs

| Run | Shows | Bounds |
|---|---|---|
| `collation_chain` | `RelayNumberNeverStale`, `AverageBlockTime`, `InTurnAuthorAccepted`, `ImplementsIncludedChain` (refinement) | two collators, one clock a quarter of a slot ahead, slots of four relay blocks, three blocks on top of genesis, five units of time |
| `collation_import` | `TypeOK`, `HeadNotAheadOfRelay`, `HeadReachesEveryNode` (liveness) | one clock ahead by more than the drift, one block never announced; the last proposal at 6, clocks run on to 8, when the slow one accepts it |
| `collation_minimum` | violation of `MinimumBlockTime` | equal clocks |
| `collator_session` | crediting, seals against cached authorities, distinct keys, invulnerables, kicking | one invulnerable, two candidates, three keys, six slots, sessions of two blocks, three session changes, six calls |
| `node_startup` | `ExpectHolds`, `NetworkStartsLast`, `DeathStopsNode` | none: all 128 option combinations |
| `xcm_execution` | `AssetsConserved`, `ExecutionPaid`, `ReserveTransferDenied` | two messages of at most five instructions from each origin, with one or two nested programs; existential deposit 2, fee 2 |
| `xcm_origins` | `ActsAsItself` | two siblings, one account, locations of two junctions, two dispatches |
| `downward_messages` | `MessagesInOrder`, `OrdinaryMessagesExecuted` and `QuietBlocksEndStall` (liveness) | four messages of five kinds, blocks with and without weight left to `on_idle` |
| `transactions` | balances, order, Operational reserve, `ReadyLeavesPool` (liveness) | two accounts, six calls, two transactions, one retraction, hooks of 5 % and of nearly all of the block |
| `transactions_fee` | violation of a comment | as `transactions` |
| `deployment` | `NodeBuildsOnRegistered`, `PurgeForgets` | four commands, four chain selections (the remaining two load the same specification as none), two base paths for the parachain and three for the relay chain node |
| `xcm_teleport` | violation of a comment | as `xcm_execution` |

Why the bounds suffice. In `collation_import` and `collation_minimum` one unit of
time is six seconds: both slot durations, half a slot (`MinimumPeriod`) and the
drift of 30 s are whole numbers of units. The stretch of time in each run contains
slots of both collators, backed, included and dropped candidates, and stale jobs. In
`collator_session` three session changes let a key be registered, queued, used,
changed and be replaced; six slots are a whole number of turns for one, two and three
authorities. In `xcm_execution` a message is an asset, `ClearOrigin` or not,
`BuyExecution` for enough or too little, one or two programs set, and one more
instruction to a destination with or without an account; programs deposit, send
reserves, or withdraw and fail; the second message claims what the first one left in
the trap. Keys `k2` and `k3` are symmetric: neither is a
genesis key and no property tells them apart. In `collation_chain` a slot lasts
four relay blocks, so that a collator is asked several times in a slot and its
candidates, and those of the other collator with its clock one unit ahead, compete
for one place; only there, with `MinimumPeriod` of two units, is a timestamp moved
ahead of its author's clock. In `downward_messages` one of 120 ms leaves 5 ms of the
reserved 125, in which one of 4 ms fits and one of 10 ms does not; behind that one, one
of 130 ms gets into the queue and holds up the fourth. In `transactions` the calls are
a payment that reaps its
sender, one that does not, a Normal call that nearly fills the class and gives
weight back, and Operational calls within the reserve, of exactly the weight that fits
beside hooks of 5 % (`opFit`) and of the most that is admitted (`opMax`); one account
begins with nothing and is made by a payment; two transactions are a predecessor and its
successor, or two competitors for one nonce, also across a reaping or a retraction.
`DescendOrigin` to two junctions passes every shape the converters
look at and one beyond.

`CHECK_DEADLOCK FALSE` is set for `node_startup` only: the process ends. Blocks,
messages and commands either go on for ever or end at a horizon that stutters
(`Horizon`, `Done`).

### Fairness

`collation_import` assumes that time advances and that a block which an import
queue keeps being able to import is imported: queue and network are tasks polled
for the life of the node, the network offers refused announced blocks again, and the
recovery task hands every backed block that is missing to the queue. It does so
once: `HeadReachesEveryNode` excepts a block that nobody announced and whose author's
clock is more than a slot ahead of the importer's. Nothing is assumed of proposals or
of the relay chain. `downward_messages` assumes that blocks go on being produced
on recent relay parents, but not that any of them leaves weight to `on_idle`; only
`QuietBlocksEndStall` has that as its premise (`QuietBlocks`).
`transactions` assumes that blocks are begun and finished again and again,
among them some with nothing but the regular hooks, the 5 % that
`AVERAGE_ON_INITIALIZE_RATIO` expects (messages from other chains do
not fill every block: they are finitely many and bounded by their reserved
weight); that the proposer, which goes through all ready transactions of a block,
does not pass over one for ever that it could apply again and again; and that the
pool revalidates what a block made invalid. Signing, gossip and retraction are not
fair. `node_startup` assumes that the
runner polls the startup future to its end and afterwards the task manager's
future; task death and signals are not fair.

### Disagreements between comments and code

- `runtime/src/lib.rs:184`: "Blocks will be produced at a minimum duration defined
  by `SLOT_DURATION`." Timestamps of consecutive blocks may be `SLOT_DURATION / 2`
  apart, the late part of one slot and the early part of the next
  (`collation_minimum`). What does hold is `AverageBlockTime`.
- `runtime/src/lib.rs:135`: "in Rococo, extrinsic base weight (smallest non-zero
  weight) is mapped to 1 MILLIUNIT: in our template, we map to 1/10 of that, or 1/10
  MILLIUNIT". The denominator is 100 base weights, so the base fee is a thousandth
  of a MILLIUNIT, a hundredth of what the comment says (`transactions_fee`).
- `runtime/src/xcm_config.rs:174`: "Teleporting is disabled." Incoming teleports
  are, outgoing ones are not: `XcmTeleportFilter` is `Everything`
  (`xcm_teleport`). The same trace contradicts `runtime/src/xcm_config.rs:186`, "No
  local origins on this chain are allowed to dispatch XCM sends/executions.":
  `SignedToAccountId32` admits all signed origins. A consequence of the deny filter is that an xtokens transfer
  of the relay chain's token is always refused, so a teleport is the only way in
  which tokens leave.

## 5. Proofs

Every theorem holds for all values of the constants that satisfy the assumptions
of its module. The bounds of the runs (blocks, messages, commands, calls, time) are
constants too, so that no theorem depends on their size. In each case the inductive
invariant was checked by TLC on the bounds of the runs before it was proved.

### Induction over data (`DataInduction`)

Sums of balances and folds over sequences are recursive, and the induction theorems
of the library take an operator as a parameter, which the provers cannot
instantiate. `DataInduction` states the principles with sets and functions instead:
a predicate is the set of numbers that satisfy it (`UpTo`, from `LeastElement`), a
recursive step is a function (`BoundedRecursion`, `FoldExists`, `LeftFoldExists`).
From these follow the facts about `SumFunction` (`SumUpdate`, `SumBounds`,
`SumWithout`) and about left folds that the proofs below cite.

### Block production (`CollationProofs`)

Assumed: at least one authority, a slot duration of at least 2, positive relay
slots, clocks that do not show negative times, and a drift (30 s) of at least a
slot (12 s), `DriftAssumption`, which only `InTurnAuthorAccepted` needs. The
properties are not inductive: that a candidate is fresh depends on how heads
entered the relay chain. `IInv` adds

- `RelaySlotsOrdered`: relay slots increase and are not in the future;
- `BlocksFollowRequests`: a block extends the head at its relay parent, in a later
  slot that matches its timestamp;
- `HeadsOlder`: the head (and the pending candidate) at a relay block was built on
  an earlier relay block: this gives `RelayNumberNeverStale`;
- `HeadTimes`: the timestamp of a pending candidate is within the drift of the
  relay block's slot, that of a head a relay slot below it: this gives
  `HeadNotAheadOfRelay`;
- `HeadsInSlots`: between two heads, slots grow at least as fast as numbers: with
  the definition of `SlotAt` this gives `AverageBlockTime`.

Each action preserves each part it can disturb; `Collate`, `InherentUnavailable`,
`SkipSlot`, `Import` and `Recover` leave relay chain and blocks alone and share one
lemma. A timestamp that `CreateInherent` moved past its author's clock is still in the
block's slot, since Aura compares the two, and within the drift, since `CheckInherents`
does: nothing in `IInv` relates a timestamp to a clock. `InTurnAuthorSucceeds` follows
from `IInv` by the arithmetic of slots.

`ChainImplemented` is the refinement: the initial states map to the initial state of
`IncludedChain`; `Tick` is the step of its clock; `SettleCandidate`, when it includes
the candidate, adds a header with the next number, a later slot and relay parent and
a timestamp within `Lead`; every other step leaves clock and included headers alone.

### Collator set (`CollatorSessionProofs`)

Assumed: distinct invulnerables with distinct keys at genesis (`testnet_genesis`).
Four invariants:

- `SealInv` for `SealerCredited` and `SealAccepted`: validators and authorities have
  the same accounts in the same places; until Authorship's hook has run, the sealer is
  the account at the slot's seat, and afterwards the sealer has been credited, which
  survives the rotation in the hook that follows; AuraExt's cache is Aura's list
  whenever a block begins;
- `KeysInv` for `AuthorityKeysDistinct`: a key has one owner, and no account is a
  candidate twice or a candidate and an invulnerable. A key may have changed hands
  since a session was queued: each of the two lists is distinct, not their union;
- `CarefulSeated` for `InvulnerableAlwaysAuthors`: the place in force, in the queue,
  and the keys;
- `ActiveInv` for `ActiveCandidateKept`: an active candidate authored within the
  `Elapsed` blocks of the session, which is less than `KickThreshold` back.

`Retain` and `KickStale` are folds; what they return is proved by `DataInduction`.

### Node and operator (`NodeProofs`)

`DiskInv` of `Deployment` says that a directory holds one database, that a
database's id determines its genesis unless a relay chain node made it, that the
running node has opened what its arguments name, that nothing is left in a temporary
directory without a node, and that since the last `purge-chain` nothing has come back
to the directories it emptied. The facts about paths and
specifications (`SpecFacts` and the lemmas beside it) are those of `cli.rs`,
`command.rs` and `chain_spec.rs`.

`StartupInv` of `NodeStartup` says what each step has left behind: tasks exist only
after the step that spawns them, an authority has a key after the relay chain step,
and the role's tasks have been spawned after the role step.

### XCM (`XcmExecutionProofs`, `MessageProofs`)

`ExecInv` types the executor and says that a trap belongs to an earlier message than
the one under way: two traps with one key would be counted as one. `CodeInv` is what
the barrier establishes of the message as a whole and each instruction keeps of the
rest of it: outside nested programs it passes the deny filter, and it has paid, may
run for free, or buys execution before it moves anything or sets a program. From these
`ExecutionPaid` and `ReserveTransferDenied` follow. `KnownInv` is `AssetsConserved` as
a sum: each instruction moves between account, holding, trap, `stray` and the outside
what it takes, less than the existential deposit apart for each operation on an account
(`Debit` and `Credit` have a lemma each). Lengths of messages and programs, amounts,
fee, existential deposit and endowment are arbitrary.

`OriginsInv` adds `OriginBelowSender` to `ActsAsItself` of `XcmOrigins`: the origin
register is the sender's location, or the sender is the relay chain, or the register
has two junctions or more, which no converter but `XcmPassthrough` answers for.

`DmpInv` of `DownwardMessages` is that executed, queued and overweight messages
divide what arrived (`Parts`). `Service` is a recursive function of a pass over the
queue; its lemma is that every prefix of the pass keeps the division, by `UpTo` and
`BoundedRecursion`, and a block is two such passes.

### Transactions (`TransactionsProofs`)

Assumed: finitely many accounts, and an endowment of zero or at least the existential
deposit, which the genesis of `pallet_balances` asserts (`chain_spec.rs` endows with
`1 << 60`). `LedgerInv` says that each of the three states (the best one, that of the
block under construction, and the one a retraction returns to) is `Sound`: issuance
is the sum of the balances, logs are in order, there is no dust. Between withdrawal
of a fee, dispatch and correction a state is `Booked` only, sound but for the deposit
of accounts still to be settled; the steps of `ApplyExtrinsic` are a lemma each.
`OperationalReserveHonoured` is arithmetic on `CheckWeight` for every block weight, and
so is `AdmittedFitsAlone`, the safety part of `ReadyLeavesPool`: what the pool admits and
`FitsBesideHooks` passes `CheckWeight` in every block of hooks within their 5 %. That the
index a wallet is told is in range rests on `account_next_index` being the first index
that no transaction in the pool provides, and on the number of transactions signed.

### Template pallet

`TemplatePallet` proves `ValueIsExplained`: the value in storage is the last one
stored plus the increments that succeeded since, within 32 bits.

### Only model-checked

`HeadReachesEveryNode`, `DeathStopsNode`, `OrdinaryMessagesExecuted`,
`QuietBlocksEndStall` and `ReadyLeavesPool`: reasoning from fairness, that is from ENABLED, is out of the
prover's reach.

## 6. Not modelled

XCMP channels: shuffled servicing, suspension and resumption are the library's
algorithm, and this repository sets no parameter of it but `ReservedXcmpWeight`.
Bonds and rewards of collators. The runtime APIs that only read (metadata, key
encoding, `collect_collation_info`), RPC registration, benchmarking and build
scripts have no behaviour of their own; the database weights only enter the weights
of single calls; the subcommands `benchmark`,
`try-runtime` and `build-spec` change no state of a chain. Cryptography, storage proofs, networking and the
proposal time limits are abstracted away. `force_authoring` and the keystore
decide only whether a collator with no peers or without its key claims a slot;
that a job ends without a block is always possible in the model
(`InherentUnavailable`).
