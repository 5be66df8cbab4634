---------------------------- MODULE XcmExecution ----------------------------
(***************************************************************************)
(* Execution of XCM messages under the configuration of                    *)
(* runtime/src/xcm_config.rs: the barrier decides which messages run, and  *)
(* the executor, with the configured asset transactor, reserve filter and  *)
(* teleport filter, runs them one instruction at a time.  An instruction   *)
(* that fails ends its program, the error handler and the appendix that    *)
(* the message set come next, and what is left in the holding register is  *)
(* trapped and can be claimed later.                                       *)
(*                                                                         *)
(* The only asset the transactor handles is the relay chain's token.       *)
(***************************************************************************)
EXTENDS Integers, Sequences, FiniteSets, FiniteSetsExt

CONSTANTS
    EXISTENTIAL_DEPOSIT, \* least balance of an account
    Fee,                 \* WeightToFee of a message; all weights are alike here
    Endowment,           \* genesis balance of the accounts other than the author's
    LocalAmount,         \* amount of the transfers that the local pallets build
    Messages,            \* messages that the relay chain and siblings may send
    MaxInstructions,     \* bound on the instructions the weigher accepts
    MaxMessages          \* bound on the number of messages

\* Origins: the relay chain, its executive body, a sibling chain, a local account.
Origins == {"Parent", "ParentExecutive", "Sibling", "Local"}
Accounts == {"Parent", "Sibling", "Local", "Author"}
NoOrigin == "cleared"

\* Instructions that hold no program of their own; dest is any location.
Plain ==
    [op : {"WithdrawAsset", "ReserveAssetDeposited", "ReceiveTeleportedAsset", "ClaimAsset"},
     amount : Nat \ {0}]
    \cup [op : {"BuyExecution"}, fees : Nat \ {0}, limit : Nat]
    \cup [op : {"ClearOrigin"}]
    \cup [op : {"TransferAsset", "TransferReserveAsset"}, amount : Nat \ {0}, dest : Origins]
    \cup [op : {"DepositAsset", "DepositReserveAsset",
                "InitiateReserveWithdraw", "InitiateTeleport"}, dest : Origins]

\* Programs are nested one deep.
Instr == Plain \cup [op : {"SetAppendix", "SetErrorHandler"}, xcm : Seq(Plain)]

ASSUME AmountsAssumption ==
    /\ EXISTENTIAL_DEPOSIT \in Nat \ {0} /\ Fee \in Nat \ {0} /\ LocalAmount \in Nat \ {0}
    /\ Endowment \in Nat /\ (Endowment = 0 \/ Endowment >= EXISTENTIAL_DEPOSIT)
    /\ Messages \subseteq Seq(Instr) \ {<< >>}
    /\ MaxInstructions \in Nat /\ MaxMessages \in Nat

VARIABLES
    balance,    \* Balances: balance[a] of account a
    traps,      \* PolkadotXcm::AssetTraps: set of [origin, amount, nr]
    vm,         \* the message being executed
    received,   \* messages taken from the queues or built locally
    backed,     \* tokens the relay chain reported as deposited in reserve there
    left,       \* left[op]: tokens that op took off the chain, delivered or not
    stray,      \* tokens taken from an account or from holding and put nowhere
    operations  \* withdrawals from and deposits to accounts so far

vars == <<balance, traps, vm, received, backed, left, stray, operations>>

\* Messages the local pallets build of the relay chain's token: xtokens withdraws
\* it from its reserve, wherever it is to go, and pallet_xcm teleports it
\* (XcmTeleportFilter).  Execute and reserve transfer are filtered out.
LocalMessages ==
    {<< [op |-> "WithdrawAsset", amount |-> LocalAmount], last >> :
        last \in [op : {"InitiateReserveWithdraw"}, dest : {"Parent"}]
                \cup [op : {"InitiateTeleport"}, dest : {"Parent", "Sibling"}]}

-----------------------------------------------------------------------------
(* Configuration.                                                          *)

\* LocationToAccountId.
HasAccount(origin) == origin \in {"Parent", "Sibling", "Local"}

\* Mutant: the pattern matches every location.
AnyLocation(origin) == origin \in Origins

\* The relay chain and its executive body.
ParentOrParentsExecutivePlurality(origin) == origin \in {"Parent", "ParentExecutive"}

\* Mutant: every origin counts as a reserve of the relay chain's token.
AnyReserve(origin) == origin \in Origins

\* IsReserve = NativeAsset: the asset's own chain is its reserve.
IsReserve(origin) == origin = "Parent"

\* IsTeleporter = (): "Teleporting is disabled."
IsTeleporter(origin) == FALSE

\* SignedToAccountId32: the origin of what a signed extrinsic executes.
LocalOriginToLocation == "Local"

InstrWeight(i) ==
    IF i.op \in {"SetAppendix", "SetErrorHandler"} THEN 1 + Len(i.xcm) ELSE 1

\* FixedWeightBounds, in units of UnitWeightCost: nested programs are counted.
Weight(message) == SumFunction([i \in DOMAIN message |-> InstrWeight(message[i])])

-----------------------------------------------------------------------------
(* The barrier.                                                            *)

ReserveTransferToRelay(i) ==
    /\ i.op \in {"InitiateReserveWithdraw", "DepositReserveAsset", "TransferReserveAsset"}
    /\ i.dest = "Parent"

\* DenyReserveTransferToRelayChain looks at the message's own instructions, and
\* not into the programs they hold.
DenyReserveTransferToRelayChain(message) ==
    \A i \in DOMAIN message : ~ReserveTransferToRelay(message[i])

TakeWeightCredit(message, credit) == credit >= Weight(message)

\* AllowTopLevelPaidExecutionFrom<Everything>: assets come in, then, the origin
\* cleared or not, execution is bought for the whole message.
AllowTopLevelPaidExecution(message) ==
    /\ message[1].op \in {"ReceiveTeleportedAsset", "WithdrawAsset",
                          "ReserveAssetDeposited", "ClaimAsset"}
    /\ \E i \in 2..Len(message) :
        /\ \A j \in 2..(i - 1) : message[j].op = "ClearOrigin"
        /\ message[i].op = "BuyExecution"
        /\ message[i].limit >= Weight(message)

AllowUnpaidExecution(origin) == ParentOrParentsExecutivePlurality(origin)

Allow(origin, message, credit) ==
    \/ TakeWeightCredit(message, credit)
    \/ AllowTopLevelPaidExecution(message)
    \/ AllowUnpaidExecution(origin)

\* Mutant: messages that come with weight credit skip the deny filter.
CreditFirst(origin, message, credit) ==
    \/ TakeWeightCredit(message, credit)
    \/ DenyReserveTransferToRelayChain(message) /\ Allow(origin, message, credit)

\* DenyThenTry::should_execute.
Barrier(origin, message, credit) ==
    DenyReserveTransferToRelayChain(message) /\ Allow(origin, message, credit)

-----------------------------------------------------------------------------
(* The executor.                                                           *)

IdleVm == [busy |-> FALSE, original |-> NoOrigin, origin |-> NoOrigin, code |-> << >>,
           handler |-> << >>, appendix |-> << >>, nested |-> FALSE, surplus |-> FALSE,
           holding |-> 0, paid |-> 0]

Ready == ~vm.busy /\ received < MaxMessages

\* A message passes the weigher and the barrier and starts.
Start(origin, message, credit) ==
    /\ Weight(message) <= MaxInstructions
    /\ Barrier(origin, message, credit)
    /\ vm' = [IdleVm EXCEPT !.busy = TRUE, !.original = origin, !.origin = origin,
                            !.code = message]
    /\ received' = received + 1
    /\ UNCHANGED <<balance, traps, backed, left, stray, operations>>

\* XCMP and DMP messages carry no weight credit; local pallets grant the weight.
Receive == Ready /\ \E o \in Origins \ {"Local"}, m \in Messages : Start(o, m, 0)
ExecuteLocal == Ready /\ \E m \in LocalMessages : Start(LocalOriginToLocation, m, Weight(m))

\* CurrencyAdapter withdraws from the account of the origin.
CanWithdraw(origin, amount) == HasAccount(origin) /\ balance[origin] >= amount

\* Mutant: an account keeps less than the existential deposit.
DebitKeepsDust(b, a, amount) == [b EXCEPT ![a] = @ - amount]

\* The balances after a withdrawal with AllowDeath: an account left with less than
\* the existential deposit is reaped and what it had is burned (DustRemoval = ()).
Debit(b, a, amount) ==
    [b EXCEPT ![a] = IF @ - amount < EXISTENTIAL_DEPOSIT THEN 0 ELSE @ - amount]

\* The balances after deposit_creating: less than the existential deposit does not
\* make an account, and is dropped without an error.
Credit(b, a, amount) ==
    [b EXCEPT ![a] = IF @ = 0 /\ amount < EXISTENTIAL_DEPOSIT THEN 0 ELSE @ + amount]

TrapsOf(origin, amount) == {t \in traps : t.origin = origin /\ t.amount = amount}

\* Instructions that put assets elsewhere, and those of them that send a message.
Deposits == {"DepositAsset", "DepositReserveAsset"}
Transfers == {"TransferAsset", "TransferReserveAsset"}
Initiates == {"InitiateReserveWithdraw", "InitiateTeleport"}
Sends == Initiates \cup {"DepositReserveAsset", "TransferReserveAsset"}

\* The conditions under which instruction i does something.
Succeeds(i) ==
    /\ i.op = "WithdrawAsset"          => CanWithdraw(vm.origin, i.amount)
    /\ i.op = "ReserveAssetDeposited"  => IsReserve(vm.origin)
    /\ i.op = "ReceiveTeleportedAsset" => IsTeleporter(vm.origin)
    /\ i.op = "ClaimAsset"             => TrapsOf(vm.origin, i.amount) # {}
    /\ i.op \in Transfers              => CanWithdraw(vm.origin, i.amount)
    /\ i.op = "BuyExecution"           => vm.holding >= i.fees

Executing == vm.busy /\ vm.code # << >>

\* The next instruction is one of ops and succeeds.
Instruction(ops) == Executing /\ vm.code[1].op \in ops /\ Succeeds(vm.code[1])

Advance == [vm EXCEPT !.code = Tail(@)]

\* The rest of the program is dropped, its weight is surplus.  The error handler
\* is next if one was set, and otherwise the appendix.
Failed ==
    IF vm.handler # << >>
    THEN [vm EXCEPT !.code = vm.handler, !.handler = << >>, !.nested = TRUE, !.surplus = TRUE]
    ELSE [vm EXCEPT !.code = vm.appendix, !.appendix = << >>, !.nested = TRUE, !.surplus = TRUE]

\* XcmRouter delivers to the relay chain by UMP and to siblings by XCMP, and to no
\* one else; a send that finds no open channel fails after the assets were moved.
AfterSend(dest) == {Failed} \cup IF dest \in {"Parent", "Sibling"} THEN {Advance} ELSE {}

\* After amount was deposited for instruction i: a location without an account
\* fails it.
AfterDeposit(i, amount) ==
    IF amount > 0 /\ ~HasAccount(i.dest) THEN {Failed}
    ELSE IF i.op \in Sends THEN AfterSend(i.dest) ELSE {Advance}

\* The balances b and the stray tokens after a deposit of amount at dest.
Deposited(b, dest, amount) == IF HasAccount(dest) THEN Credit(b, dest, amount) ELSE b
Stranded(dest, amount) == IF HasAccount(dest) THEN stray ELSE stray + amount

Hold(amount) == [Advance EXCEPT !.holding = @ + amount]

WithdrawAsset ==
    /\ Instruction({"WithdrawAsset"})
    /\ balance' = Debit(balance, vm.origin, vm.code[1].amount)
    /\ vm' = Hold(vm.code[1].amount)
    /\ operations' = operations + 1
    /\ UNCHANGED <<traps, received, backed, left, stray>>

\* Only the relay chain's word puts tokens in circulation.
AssetsArrive ==
    /\ Instruction({"ReserveAssetDeposited", "ReceiveTeleportedAsset"})
    /\ vm' = Hold(vm.code[1].amount)
    /\ backed' = IF vm.original = "Parent" /\ vm.code[1].op = "ReserveAssetDeposited"
                 THEN backed + vm.code[1].amount ELSE backed
    /\ UNCHANGED <<balance, traps, received, left, stray, operations>>

ClaimAsset ==
    /\ Instruction({"ClaimAsset"})
    /\ \E t \in TrapsOf(vm.origin, vm.code[1].amount) : traps' = traps \ {t}
    /\ vm' = Hold(vm.code[1].amount)
    /\ UNCHANGED <<balance, received, backed, left, stray, operations>>

\* beam_asset: the amount is withdrawn and then deposited.
TransferAsset ==
    /\ Instruction(Transfers)
    /\ LET i == vm.code[1]
       IN /\ balance' = Deposited(Debit(balance, vm.origin, i.amount), i.dest, i.amount)
          /\ stray' = Stranded(i.dest, i.amount)
          /\ vm' \in AfterDeposit(i, i.amount)
    /\ operations' = operations + 2
    /\ UNCHANGED <<traps, received, backed, left>>

\* All of holding is deposited.
DepositAsset ==
    /\ Instruction(Deposits)
    /\ LET i == vm.code[1]
       IN /\ balance' = Deposited(balance, i.dest, vm.holding)
          /\ stray' = Stranded(i.dest, vm.holding)
          /\ \E next \in AfterDeposit(i, vm.holding) : vm' = [next EXCEPT !.holding = 0]
    /\ operations' = operations + 1
    /\ UNCHANGED <<traps, received, backed, left>>

\* All of holding leaves the chain.
AssetsLeave ==
    /\ Instruction(Initiates)
    /\ left' = [left EXCEPT ![vm.code[1].op] = @ + vm.holding]
    /\ \E next \in AfterSend(vm.code[1].dest) : vm' = [next EXCEPT !.holding = 0]
    /\ UNCHANGED <<balance, traps, received, backed, stray, operations>>

\* The trader takes its price of the fees and gives the rest back, or finds them
\* too low, and then they are gone.
BuyExecution ==
    /\ Instruction({"BuyExecution"})
    /\ LET fees == vm.code[1].fees
       IN \/ /\ fees >= Fee
             /\ vm' = [Advance EXCEPT !.holding = @ - Fee, !.paid = @ + Fee]
             /\ stray' = stray
          \/ /\ fees < Fee
             /\ vm' = [Failed EXCEPT !.holding = @ - fees]
             /\ stray' = stray + fees
    /\ UNCHANGED <<balance, traps, received, backed, left, operations>>

ClearOrigin ==
    /\ Instruction({"ClearOrigin"})
    /\ vm' = [Advance EXCEPT !.origin = NoOrigin]
    /\ UNCHANGED <<balance, traps, received, backed, left, stray, operations>>

\* The weight of a program that is replaced is surplus.
SetProgram ==
    /\ \/ /\ Instruction({"SetAppendix"})
          /\ vm' = [Advance EXCEPT !.appendix = vm.code[1].xcm,
                                   !.surplus = @ \/ vm.appendix # << >>]
       \/ /\ Instruction({"SetErrorHandler"})
          /\ vm' = [Advance EXCEPT !.handler = vm.code[1].xcm,
                                   !.surplus = @ \/ vm.handler # << >>]
    /\ UNCHANGED <<balance, traps, received, backed, left, stray, operations>>

InstructionFails ==
    /\ Executing /\ ~Succeeds(vm.code[1])
    /\ vm' = Failed
    /\ UNCHANGED <<balance, traps, received, backed, left, stray, operations>>

\* A program that is done drops the error handler, and the appendix is next.
RunAppendix ==
    /\ vm.busy /\ vm.code = << >> /\ vm.appendix # << >>
    /\ vm' = [vm EXCEPT !.code = vm.appendix, !.appendix = << >>, !.handler = << >>,
                        !.nested = TRUE, !.surplus = @ \/ vm.handler # << >>]
    /\ UNCHANGED <<balance, traps, received, backed, left, stray, operations>>

\* AssetTrap = PolkadotXcm: the rest of holding is kept for the origin.
TrapHolding(origin, amount) ==
    IF amount = 0 THEN traps
    ELSE traps \cup {[origin |-> origin, amount |-> amount, nr |-> received]}

\* The part of the fee that refund_surplus may give back.
Refunds == IF vm.surplus \/ vm.handler # << >> THEN 0..vm.paid ELSE {0}

\* The surplus is refunded, the rest of the fee goes to the author of the block
\* (ToAuthor) and what is held is trapped.
Finish ==
    /\ vm.busy /\ vm.code = << >> /\ vm.appendix = << >>
    /\ \E refund \in Refunds :
        /\ balance' = Credit(balance, "Author", vm.paid - refund)
        /\ traps' = TrapHolding(vm.original, vm.holding + refund)
    /\ vm' = IdleVm
    /\ operations' = operations + 1
    /\ UNCHANGED <<received, backed, left, stray>>

Done == ~vm.busy /\ received = MaxMessages /\ UNCHANGED vars

-----------------------------------------------------------------------------

Init ==
    /\ balance = [a \in Accounts |-> IF a = "Author" THEN 0 ELSE Endowment]
    /\ traps = {}
    /\ vm = IdleVm
    /\ received = 0
    /\ backed = 0
    /\ left = [op \in Initiates |-> 0]
    /\ stray = 0
    /\ operations = 0

Next ==
    \/ Receive
    \/ ExecuteLocal
    \/ WithdrawAsset
    \/ AssetsArrive
    \/ ClaimAsset
    \/ TransferAsset
    \/ DepositAsset
    \/ AssetsLeave
    \/ BuyExecution
    \/ ClearOrigin
    \/ SetProgram
    \/ InstructionFails
    \/ RunAppendix
    \/ Finish
    \/ Done

Spec == Init /\ [][Next]_vars

-----------------------------------------------------------------------------
(* Properties.                                                             *)

\* Shape of the state: every account is empty or holds at least the existential
\* deposit, and no holding, fee or trap is ever negative.
TypeOK ==
    /\ DOMAIN balance = Accounts
    /\ \A a \in Accounts : balance[a] \in Nat /\ (balance[a] = 0 \/ balance[a] >= EXISTENTIAL_DEPOSIT)
    /\ \A t \in traps : t.origin \in Origins /\ t.amount \in Nat \ {0} /\ t.nr \in 1..MaxMessages
    /\ vm.holding \in Nat /\ vm.paid \in Nat
    /\ vm.origin \in {vm.original, NoOrigin} /\ vm.original \in Origins \cup {NoOrigin}
    /\ received \in 0..MaxMessages
    /\ backed \in Nat /\ stray \in Nat /\ operations \in Nat
    /\ left \in [Initiates -> Nat]

Circulating ==
    SumFunction(balance) + SumFunction([t \in traps |-> t.amount]) + vm.holding + vm.paid

\* The genesis endowment and what the relay chain reported as reserved, less what
\* circulates and what was sent away.
Missing ==
    3 * Endowment + backed
        - Circulating - left["InitiateReserveWithdraw"] - left["InitiateTeleport"]

\* No sequence of messages, failing at whatever instruction, creates tokens, and
\* none is lost but the stray ones and, at each operation on an account, an amount
\* below the existential deposit.
AssetsConserved ==
    /\ stray <= Missing
    /\ Missing <= stray + operations * (EXISTENTIAL_DEPOSIT - 1)

\* Assets are moved, deposited or sent away for a message only once its execution
\* is paid for, in whichever of its programs the instruction is, unless the
\* barrier let it execute freely: from the relay chain or its executive, or built
\* by a local pallet.
ExecutionPaid ==
    Executing /\ vm.code[1].op \in Transfers \cup Deposits \cup Initiates =>
        vm.paid > 0 \/ vm.original \in {"Parent", "ParentExecutive", "Local"}

\* Whoever sends the message, a transfer of reserves to the relay chain comes to
\* execution only from a nested program, which the filter does not look into.
ReserveTransferDenied == Executing /\ ReserveTransferToRelay(vm.code[1]) => vm.nested

\* "Teleporting is disabled.": no tokens leave this chain by a teleport.
TeleportDisabled == left["InitiateTeleport"] = 0

=============================================================================
