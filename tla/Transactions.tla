---------------------------- MODULE Transactions ----------------------------
(***************************************************************************)
(* The life of a signed transaction.  A wallet asks the node for the next  *)
(* index of its account (node/src/rpc.rs), signs, and submits, each when   *)
(* it likes: the index may be old by then.  The node's pool validates with *)
(* validate_transaction on the state of its best block; an author takes    *)
(* transactions from the pool into blocks with apply_extrinsic; the block  *)
(* becomes the best one and may be retracted again when the relay chain    *)
(* includes a sibling.  Each transaction passes the extensions of          *)
(* SignedExtra: nonce, block weight, payment.                              *)
(*                                                                         *)
(* Weights are in units of 25 microseconds, balances in MICROUNITs: with   *)
(* these all constants of the runtime have their real values.              *)
(***************************************************************************)
EXTENDS Integers, Sequences, FiniteSets, FiniteSetsExt

CONSTANTS
    Accounts,
    Endowment,             \* Endowment[a]: genesis balance of a
    Kinds,                 \* names of the calls that are signed
    Call,                  \* Call[k]: class, weight, length, whom it pays how much, weight it may return
    HookWeights,           \* weights the mandatory hooks and inherents of a block may have
    Multipliers,           \* values of NextFeeMultiplier
    MILLIUNIT, MICROUNIT,
    MAXIMUM_BLOCK_WEIGHT, BlockExecutionWeight, ExtrinsicBaseWeight,
    MaxSigned,             \* bound on the transactions ever signed
    MaxRetractions         \* bound on the blocks that are retracted

Classes == {"Normal", "Operational", "Mandatory"}

ASSUME WeightAssumption ==
    /\ MAXIMUM_BLOCK_WEIGHT \in Nat /\ BlockExecutionWeight \in Nat /\ ExtrinsicBaseWeight \in Nat \ {0}
    /\ HookWeights \subseteq Nat
ASSUME BalanceAssumption ==
    /\ MILLIUNIT \in Nat /\ MICROUNIT \in Nat
    /\ Multipliers \subseteq Nat /\ 1 \in Multipliers
    /\ IsFiniteSet(Accounts) /\ Endowment \in [Accounts -> Nat]
    /\ \A a \in Accounts : Endowment[a] = 0 \/ Endowment[a] >= MILLIUNIT \* pallet_balances' GenesisConfig asserts it
ASSUME CallAssumption ==
    \A k \in Kinds :
        /\ Call[k] \in [class : {"Normal", "Operational"}, weight : Nat, len : Nat,
                        dest : Accounts, value : Nat, unspent : Nat]
        /\ Call[k].unspent <= Call[k].weight
ASSUME BoundAssumption == MaxSigned \in Nat /\ MaxRetractions \in Nat

VARIABLES
    best,     \* state of the best block
    undo,     \* parent state and body of the best block, while it may be retracted
    block,    \* the block under construction: state, weight used, body
    pool,     \* transactions in the pool
    index,    \* index[a]: the next index that the wallet of a was last told
    signed,   \* transactions ever signed; all of them may be submitted again
    retracted \* number of retractions so far

vars == <<best, undo, block, pool, index, signed, retracted>>

NoBlock == [open |-> FALSE]
NoUndo == [open |-> FALSE]

-----------------------------------------------------------------------------
(* Block weights.                                                          *)

AVERAGE_ON_INITIALIZE_RATIO == 5
NORMAL_DISPATCH_RATIO == 75
Percent(ratio, weight) == (ratio * weight) \div 100

MaxTotal(class) ==
    IF class = "Normal" THEN Percent(NORMAL_DISPATCH_RATIO, MAXIMUM_BLOCK_WEIGHT) ELSE MAXIMUM_BLOCK_WEIGHT

\* Mutant: no space is reserved for Operational extrinsics.
NothingReserved(class) == 0

Reserved(class) ==
    IF class = "Operational"
    THEN MAXIMUM_BLOCK_WEIGHT - Percent(NORMAL_DISPATCH_RATIO, MAXIMUM_BLOCK_WEIGHT)
    ELSE 0

\* The weight of a single extrinsic that avg_block_initialization leaves.
MaxExtrinsic(class) ==
    MaxTotal(class) - Percent(AVERAGE_ON_INITIALIZE_RATIO, MAXIMUM_BLOCK_WEIGHT) - ExtrinsicBaseWeight

UsedInBlock(used) == used["Normal"] + used["Operational"] + used["Mandatory"]

ExtrinsicWeight(k) == Call[k].weight + ExtrinsicBaseWeight

\* Mutant: an extrinsic that would just fill the block needs the reserve.
CheckWeightBelow(used, k) ==
    LET class == Call[k].class
        total == used[class] + ExtrinsicWeight(k)
    IN  /\ Call[k].weight <= MaxExtrinsic(class)
        /\ total <= MaxTotal(class)
        /\ UsedInBlock(used) + ExtrinsicWeight(k) >= MAXIMUM_BLOCK_WEIGHT => total <= Reserved(class)

\* CheckWeight against what the block has used so far: the class has room, and
\* beyond the maximum of the block the class has a reserve.
CheckWeight(used, k) ==
    LET class == Call[k].class
        total == used[class] + ExtrinsicWeight(k)
    IN  /\ Call[k].weight <= MaxExtrinsic(class)
        /\ total <= MaxTotal(class)
        /\ UsedInBlock(used) + ExtrinsicWeight(k) > MAXIMUM_BLOCK_WEIGHT => total <= Reserved(class)

-----------------------------------------------------------------------------
(* Fees.                                                                   *)

\* One coefficient of degree one, p / q, split in its integer and its fraction.
\* A fraction is kept in thousandths, enough for the exact value.
WeightToFee(weight) ==
    LET p == MILLIUNIT \div 10
        q == 100 * ExtrinsicBaseWeight
        coeff_frac == ((p % q) * 1000) \div q
        coeff_integer == p \div q
    IN  coeff_integer * weight + (coeff_frac * weight) \div 1000

TransactionByteFee == 10 * MICROUNIT
LengthToFee(len) == len * TransactionByteFee

\* TransactionPayment::query_fee_details on state s, for a call of that weight.
QueryFeeDetails(s, k, weight) ==
    [base_fee            |-> WeightToFee(ExtrinsicBaseWeight),
     len_fee             |-> LengthToFee(Call[k].len),
     adjusted_weight_fee |-> s.multiplier * WeightToFee(weight)]

Fee(s, k, weight) ==
    LET d == QueryFeeDetails(s, k, weight) IN d.base_fee + d.len_fee + d.adjusted_weight_fee

-----------------------------------------------------------------------------
(* Balances.                                                               *)

EXISTENTIAL_DEPOSIT == MILLIUNIT

\* Mutant: dust leaves the account but not the issuance.
DustKept(s, a) ==
    IF s.free[a] >= EXISTENTIAL_DEPOSIT THEN s
    ELSE [s EXCEPT !.free[a] = 0, !.nonce[a] = 0, !.log[a] = << >>]

\* An account below the existential deposit is reaped: its dust is burnt
\* (DustRemoval = ()), and its nonce is forgotten.
Reap(s, a) ==
    IF s.free[a] >= EXISTENTIAL_DEPOSIT THEN s
    ELSE [s EXCEPT !.free[a] = 0, !.issuance = @ - s.free[a], !.nonce[a] = 0, !.log[a] = << >>]

\* Mutant: the fee is not held against the balance.
AlwaysPays(s, a, fee) == TRUE

\* ChargeTransactionPayment withdraws with KeepAlive.
CanPay(s, a, fee) == s.free[a] >= fee + EXISTENTIAL_DEPOSIT

\* Balances::transfer; an error leaves the state as it is.
Transfer(s, from, to, value) ==
    IF \/ from = to \/ value = 0
       \/ s.free[from] < value
       \/ s.free[to] + value < EXISTENTIAL_DEPOSIT
    THEN s
    ELSE Reap([s EXCEPT !.free[from] = @ - value, !.free[to] = @ + value], from)

-----------------------------------------------------------------------------
(* Executive.                                                              *)

\* Mutant: a nonce that is too low is let through.
AnyOldNonce(s, tx) == tx.nonce <= s.nonce[tx.signer]

\* CheckNonce when a transaction is applied.
CheckNonce(s, tx) == tx.nonce = s.nonce[tx.signer]

\* validate_transaction: a nonce ahead of the account's is a future transaction,
\* which the pool keeps; block weight is not looked at, only the extrinsic's own.
ValidateTransaction(s, tx) ==
    /\ tx.nonce >= s.nonce[tx.signer]
    /\ Call[tx.kind].weight <= MaxExtrinsic(Call[tx.kind].class)
    /\ CanPay(s, tx.signer, Fee(s, tx.kind, Call[tx.kind].weight))

\* The refund goes to an account that still exists; otherwise it stays burnt.
Refund(s, a, refund) ==
    IF s.free[a] = 0 THEN s
    ELSE [s EXCEPT !.free[a] = @ + refund, !.issuance = @ + refund]

\* The state after apply_extrinsic, `unspent' being the weight given back: nonce,
\* withdrawal of the fee (burnt: OnChargeTransaction has no recipient), dispatch,
\* correction of the fee.
Applied(s, tx, unspent) ==
    LET a == tx.signer
        c == Call[tx.kind]
        fee == Fee(s, tx.kind, c.weight)
        paid == [s EXCEPT !.nonce[a] = @ + 1, !.log[a] = Append(@, tx),
                          !.free[a] = @ - fee, !.issuance = @ - fee]
    IN  Refund(Transfer(paid, a, c.dest, c.value), a, fee - Fee(s, tx.kind, c.weight - unspent))

-----------------------------------------------------------------------------
(* Wallet and pool.                                                        *)

SameTag(t, u) == t.signer = u.signer /\ t.nonce = u.nonce

\* Priority of two transactions without a tip: an Operational one comes before a
\* Normal one (OperationalFeeMultiplier), else the one a block can hold more of.
Outranks(t, u) ==
    LET PerBlock(tx) == MAXIMUM_BLOCK_WEIGHT \div Max({1, Call[tx.kind].weight})
    IN  IF Call[t.kind].class = Call[u.kind].class
        THEN PerBlock(t) > PerBlock(u)
        ELSE Call[t.kind].class = "Operational"

\* What the pool may be once it has imported valid transactions, in some order: of
\* those that provide the same tag it has one, the one it had unless another has
\* a higher priority.
PoolsWith(txs) ==
    {P \in SUBSET (pool \cup txs) :
        /\ \A t \in pool \cup txs : \E p \in P : SameTag(p, t)
        /\ \A p \in P : \A t \in (pool \cup txs) \ {p} : SameTag(p, t) =>
            t \notin P /\ ~Outranks(t, p) /\ (t \in pool => Outranks(p, t))}

\* AccountNonceApi::account_nonce at the best block.
AccountNonce(a) == best.nonce[a]

\* System::account_next_index: the account's nonce in the best block, moved on
\* over the account's transactions that are ready in the pool.
AccountNextIndex(a) ==
    LET pooled == {tx.nonce : tx \in {t \in pool : t.signer = a}}
    IN  Min({n \in AccountNonce(a)..(AccountNonce(a) + MaxSigned) : n \notin pooled})

\* The wallet of a calls the node's RPC.
ReadIndex(a) ==
    /\ index[a] # AccountNextIndex(a)
    /\ index' = [index EXCEPT ![a] = AccountNextIndex(a)]
    /\ UNCHANGED <<best, undo, block, pool, signed, retracted>>

\* It signs with the index that it was told, maybe long ago or for another
\* transaction.
Sign(a, k) ==
    /\ Cardinality(signed) < MaxSigned
    /\ signed' = signed \cup {[signer |-> a, nonce |-> index[a], kind |-> k, id |-> Cardinality(signed) + 1]}
    /\ UNCHANGED <<best, undo, block, pool, index, retracted>>

\* It submits what it signed, a peer gossips it, or somebody submits it again.
Submit(tx) ==
    /\ ValidateTransaction(best, tx)
    /\ pool' \in PoolsWith({tx}) /\ pool' # pool
    /\ UNCHANGED <<best, undo, block, index, signed, retracted>>

\* The pool's revalidation after a block: what has become invalid is removed.
Revalidate(tx) ==
    /\ tx \in pool
    /\ ~ValidateTransaction(best, tx)
    /\ pool' = pool \ {tx}
    /\ UNCHANGED <<best, undo, block, index, signed, retracted>>

-----------------------------------------------------------------------------
(* Blocks, authored by whoever's turn it is: an author's pool may hold any   *)
(* transaction that was ever signed.                                       *)

\* Executive::initialize_block and the inherents, whose mandatory weight no
\* limit applies to.
InitializeBlock(hooks) ==
    /\ ~block.open
    /\ block' = [open |-> TRUE, st |-> best, body |-> {},
                 used |-> [c \in Classes |-> IF c = "Mandatory" THEN BlockExecutionWeight + hooks ELSE 0]]
    /\ UNCHANGED <<best, undo, pool, index, signed, retracted>>

\* The proposer pushes a transaction; one that fails an extension leaves no trace.
ApplyExtrinsic(tx) ==
    /\ block.open /\ tx \notin block.body
    /\ CheckNonce(block.st, tx)
    /\ CheckWeight(block.used, tx.kind)
    /\ CanPay(block.st, tx.signer, Fee(block.st, tx.kind, Call[tx.kind].weight))
    /\ \E unspent \in {0, Call[tx.kind].unspent} :
        block' = [block EXCEPT !.st = Applied(@, tx, unspent),
                               !.body = @ \cup {tx},
                               !.used[Call[tx.kind].class] = @ + ExtrinsicWeight(tx.kind) - unspent]
    /\ UNCHANGED <<best, undo, pool, index, signed, retracted>>

\* Executive::finalize_block, which also sets the next fee multiplier; the block
\* becomes the best one and the pool drops what it contains.
FinalizeBlock ==
    /\ block.open
    /\ \E m \in Multipliers : best' = [block.st EXCEPT !.multiplier = m]
    /\ undo' = [open |-> TRUE, st |-> best, body |-> block.body]
    /\ pool' = pool \ block.body
    /\ block' = NoBlock
    /\ UNCHANGED <<index, signed, retracted>>

\* The relay chain includes a sibling of the best block: the state goes back to
\* the parent's, a block under construction is lost, and the pool takes the
\* transactions of the retracted block again as far as they are valid.
Retract ==
    /\ undo.open /\ retracted < MaxRetractions
    /\ best' = undo.st
    /\ pool' \in PoolsWith({tx \in undo.body : ValidateTransaction(undo.st, tx)})
    /\ undo' = NoUndo
    /\ block' = NoBlock
    /\ retracted' = retracted + 1
    /\ UNCHANGED <<index, signed>>

-----------------------------------------------------------------------------

Genesis ==
    [free |-> Endowment, issuance |-> SumFunction(Endowment),
     nonce |-> [a \in Accounts |-> 0], log |-> [a \in Accounts |-> << >>], multiplier |-> 1]

Init ==
    /\ best = Genesis
    /\ undo = NoUndo
    /\ block = NoBlock
    /\ pool = {} /\ signed = {}
    /\ index = [a \in Accounts |-> 0]
    /\ retracted = 0

Next ==
    \/ \E a \in Accounts : ReadIndex(a)
    \/ \E a \in Accounts, k \in Kinds : Sign(a, k)
    \/ \E tx \in signed : Submit(tx)
    \/ \E tx \in signed : Revalidate(tx)
    \/ \E hooks \in HookWeights : InitializeBlock(hooks)
    \/ \E tx \in signed : ApplyExtrinsic(tx)
    \/ FinalizeBlock
    \/ Retract

Spec == Init /\ [][Next]_vars

Tx == [signer : Accounts, nonce : 0..MaxSigned, kind : Kinds, id : 1..MaxSigned]

\* Blocks are built and finished for ever, among them blocks with nothing but the
\* regular hooks, and a proposer goes through all of the ready transactions, so
\* that one that can be applied in block after block is applied in some; the pool
\* revalidates after every block.
Fairness ==
    /\ SF_vars(InitializeBlock(Min(HookWeights)))
    /\ WF_vars(FinalizeBlock)
    /\ \A i \in 1..MaxSigned :
        /\ SF_vars(\E tx \in signed : tx.id = i /\ ApplyExtrinsic(tx))
        /\ SF_vars(\E tx \in signed : tx.id = i /\ Revalidate(tx))

FairSpec == Spec /\ Fairness

-----------------------------------------------------------------------------
(* Properties.                                                             *)

States == {best} \cup IF block.open THEN {block.st} ELSE {}

\* Shape of the state; no balance and no issuance underflows when fees are
\* withdrawn from what validate_transaction has seen in an older state.
TypeOK ==
    /\ pool \subseteq signed /\ signed \subseteq Tx /\ index \in [Accounts -> 0..MaxSigned]
    /\ retracted \in 0..MaxRetractions
    /\ \A s \in States :
        /\ s.free \in [Accounts -> Nat] /\ s.issuance \in Nat
        /\ s.nonce \in [Accounts -> Nat] /\ s.multiplier \in Multipliers
        /\ \A a \in Accounts : s.log[a] \in Seq(signed)
    /\ block.open => block.used \in [Classes -> Nat] /\ block.body \subseteq signed
    /\ undo.open => undo.body \subseteq signed

\* Every account's balance is zero or at least the existential deposit, and the
\* issuance is the sum of the balances: fees are withdrawn, burnt and corrected,
\* payments reap their sender, and dust is burnt without a token lost or made.
BalancesSound ==
    \A s \in States :
        /\ s.issuance = SumFunction(s.free)
        /\ \A a \in Accounts : s.free[a] = 0 \/ s.free[a] >= EXISTENTIAL_DEPOSIT

\* In the life of an account its transactions are applied once each and in the
\* order of their nonces, whatever is signed with an old index or one used before,
\* submitted again, gossiped late or returns from a retracted block.
AppliedInOrder ==
    \A s \in States : \A a \in Accounts :
        /\ Len(s.log[a]) = s.nonce[a]
        /\ \A i \in DOMAIN s.log[a] : s.log[a][i].signer = a /\ s.log[a][i].nonce = i - 1

\* "Operational transactions have some extra reserved space, so that they are
\* included even if block reached MAXIMUM_BLOCK_WEIGHT": whatever mandatory and
\* Normal extrinsics have used, one within the unused reserve is admitted.
OperationalReserveHonoured ==
    block.open => \A k \in Kinds :
        (/\ Call[k].class = "Operational"
         /\ block.used["Operational"] + ExtrinsicWeight(k) <=
                MAXIMUM_BLOCK_WEIGHT - Percent(NORMAL_DISPATCH_RATIO, MAXIMUM_BLOCK_WEIGHT))
        => CheckWeight(block.used, k)

\* The transaction fits in a block of its own, beside the block's execution and the
\* hooks that AVERAGE_ON_INITIALIZE_RATIO expects.
FitsBesideHooks(k) ==
    BlockExecutionWeight + Percent(AVERAGE_ON_INITIALIZE_RATIO, MAXIMUM_BLOCK_WEIGHT) + ExtrinsicWeight(k)
        <= MAXIMUM_BLOCK_WEIGHT

\* A transaction that the pool holds and that is next in its account's order does
\* not stay there for ever, unless it is one of those which the limit of a single
\* extrinsic lets through although the execution of the block takes their room.
ReadyLeavesPool ==
    \A i \in 1..MaxSigned :
        []<>~(\E tx \in pool :
                tx.id = i /\ tx.nonce = best.nonce[tx.signer] /\ FitsBesideHooks(tx.kind))

\* lib.rs says that the smallest weight is mapped to 1/10 MILLIUNIT: that is the
\* base fee which query_fee_details shows for any transaction.
BaseFeeAsDocumented ==
    \A tx \in signed : QueryFeeDetails(best, tx.kind, Call[tx.kind].weight).base_fee = MILLIUNIT \div 10

=============================================================================
