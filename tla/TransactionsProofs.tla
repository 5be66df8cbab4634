-------------------------- MODULE TransactionsProofs --------------------------
(***************************************************************************)
(* What every state of the chain keeps, whatever is signed, applied,       *)
(* refunded, reaped or retracted: sums, deposits, and the order of nonces. *)
(***************************************************************************)
EXTENDS Transactions, SequenceTheorems, DataInduction, TLAPS

\* The records that a state of the chain can be, when S are the transactions signed.
Ledger(S) ==
    [free : [Accounts -> Nat], issuance : Nat, nonce : [Accounts -> Nat],
     log : [Accounts -> Seq(S)], multiplier : Multipliers]

\* The transactions in the log l of account a have the nonces 0, 1, ... in order.
NoncesInOrder(l, a) == \A i \in DOMAIN l : l[i].signer = a /\ l[i].nonce = i - 1

Ordered(s) == \A a \in Accounts : Len(s.log[a]) = s.nonce[a] /\ NoncesInOrder(s.log[a], a)

\* The accounts in A have no dust.
Deposited(s, A) == \A a \in A : s.free[a] = 0 \/ s.free[a] >= EXISTENTIAL_DEPOSIT

\* A state in which all but the deposits is right; and one in which all is.
Booked(s, S) == s \in Ledger(S) /\ s.issuance = SumFunction(s.free) /\ Ordered(s)
Sound(s, S) == Booked(s, S) /\ Deposited(s, Accounts)

\* A fee is a natural number.
IsFee(fee) == fee \in Nat

-----------------------------------------------------------------------------
(* Weights and fees.                                                       *)

\* A share of a weight is a weight, and a greater share a greater one.
LEMMA PercentFacts ==
    ASSUME NEW w \in Nat
    PROVE  /\ Percent(AVERAGE_ON_INITIALIZE_RATIO, w) \in Nat
           /\ Percent(NORMAL_DISPATCH_RATIO, w) \in Nat
           /\ Percent(AVERAGE_ON_INITIALIZE_RATIO, w) <= Percent(NORMAL_DISPATCH_RATIO, w)
  BY DEF Percent, AVERAGE_ON_INITIALIZE_RATIO, NORMAL_DISPATCH_RATIO

\* A lighter call has no higher fee for its weight.
LEMMA WeightToFeeMonotone ==
    ASSUME NEW v \in Nat, NEW w \in Nat, v <= w
    PROVE  WeightToFee(v) \in Nat /\ WeightToFee(w) \in Nat /\ WeightToFee(v) <= WeightToFee(w)
<1> DEFINE p == MILLIUNIT \div 10
           q == 100 * ExtrinsicBaseWeight
           f == ((p % q) * 1000) \div q
           c == p \div q
<1>1. p \in Nat /\ q \in Nat /\ q > 0
  BY BalanceAssumption, WeightAssumption
<1>2. WeightToFee(v) = c * v + (f * v) \div 1000 /\ WeightToFee(w) = c * w + (f * w) \div 1000
  BY DEF WeightToFee
<1> HIDE DEF p, q
<1>3. c \in Nat
  BY <1>1
<1>4. (p % q) * 1000 \in Nat
  BY <1>1
<1>5. f \in Nat
  BY <1>1, <1>4
<1> HIDE DEF f, c
<1>6. PICK d \in Nat : w = v + d
  <2>1. w - v \in Nat /\ w = v + (w - v)
    OBVIOUS
  <2> QED BY <2>1
<1>7. c * v \in Nat /\ c * d \in Nat /\ c * w = c * v + c * d
  BY <1>3, <1>6
<1>8. f * v \in Nat /\ f * d \in Nat /\ f * w = f * v + f * d
  BY <1>5, <1>6
<1> DEFINE fv == f * v
           fd == f * d
           fw == f * w
           cv == c * v
           cd == c * d
           cw == c * w
<1>9. cv \in Nat /\ cd \in Nat /\ cw = cv + cd /\ fv \in Nat /\ fd \in Nat /\ fw = fv + fd
  BY <1>7, <1>8
<1>10. WeightToFee(v) = cv + fv \div 1000 /\ WeightToFee(w) = cw + fw \div 1000
  BY <1>2
<1> HIDE DEF fv, fd, fw, cv, cd, cw
<1> QED
  BY <1>9, <1>10

\* The fee of a call is never less than its fee with weight given back.
LEMMA FeeFacts ==
    ASSUME NEW S, NEW s \in Ledger(S), NEW k \in Kinds, NEW unspent \in {0, Call[k].unspent}
    PROVE  /\ IsFee(Fee(s, k, Call[k].weight)) /\ IsFee(Fee(s, k, Call[k].weight - unspent))
           /\ Fee(s, k, Call[k].weight - unspent) <= Fee(s, k, Call[k].weight)
<1> DEFINE w == Call[k].weight
           v == w - unspent
           b == WeightToFee(ExtrinsicBaseWeight)
           l == LengthToFee(Call[k].len)
           m == s.multiplier
           fv == WeightToFee(v)
           fw == WeightToFee(w)
<1>1. Call[k].weight \in Nat /\ Call[k].len \in Nat /\ Call[k].unspent \in Nat /\ Call[k].unspent <= Call[k].weight
  BY CallAssumption
<1>2. w \in Nat /\ v \in Nat /\ v <= w
  BY <1>1
<1>3. b \in Nat
  BY WeightAssumption, WeightToFeeMonotone
<1>4. l \in Nat
  BY <1>1, BalanceAssumption DEF LengthToFee, TransactionByteFee
<1>5. m \in Nat
  <2>1. s.multiplier \in Multipliers
    BY DEF Ledger
  <2> QED BY <2>1, BalanceAssumption
<1>6. Fee(s, k, v) = b + l + m * fv /\ Fee(s, k, w) = b + l + m * fw
  BY DEF Fee, QueryFeeDetails
<1>7. fv \in Nat /\ fw \in Nat /\ fv <= fw
  <2> HIDE DEF v, w
  <2> QED BY <1>2, WeightToFeeMonotone
<1> HIDE DEF b, l, m, fv, fw
<1>8. m * fv \in Nat /\ m * fw \in Nat /\ m * fv <= m * fw
  BY <1>5, <1>7
<1> DEFINE x == m * fv
           y == m * fw
<1>9. x \in Nat /\ y \in Nat /\ x <= y /\ Fee(s, k, v) = b + l + x /\ Fee(s, k, w) = b + l + y
  BY <1>6, <1>8
<1> HIDE DEF x, y
<1>10. Fee(s, k, v) \in Nat /\ Fee(s, k, w) \in Nat /\ Fee(s, k, v) <= Fee(s, k, w)
  BY <1>3, <1>4, <1>9
<1> QED
  BY <1>10 DEF IsFee

-----------------------------------------------------------------------------
(* What the operations on a state keep.                                    *)

\* The issuance of a state covers each balance.
LEMMA IssuanceCovers ==
    ASSUME NEW S, NEW s, Booked(s, S), NEW a \in Accounts
    PROVE  s.free[a] \in Nat /\ s.issuance \in Nat /\ s.free[a] <= s.issuance
<1> DEFINE f == s.free
<1>1. f \in [Accounts -> Nat] /\ s.issuance \in Nat /\ s.issuance = SumFunction(f)
  BY DEF Booked, Ledger
<1> HIDE DEF f
<1>2. \A x \in Accounts : f[x] <= SumFunction(f)
  BY <1>1, BalanceAssumption, SumBounds
<1>3. f[a] \in Nat /\ f[a] <= s.issuance
  BY <1>1, <1>2
<1> QED
  BY <1>1, <1>3 DEF f

\* A change of one balance that the issuance follows keeps the sum.
LEMMA SumFollows ==
    ASSUME NEW S, NEW s, Booked(s, S), NEW a \in Accounts, NEW d \in Int, s.free[a] + d >= 0
    PROVE  /\ [s.free EXCEPT ![a] = s.free[a] + d] \in [Accounts -> Nat]
           /\ s.issuance + d \in Nat
           /\ s.issuance + d = SumFunction([s.free EXCEPT ![a] = s.free[a] + d])
<1> DEFINE f == s.free
           v == f[a] + d
           g == [f EXCEPT ![a] = v]
           i == s.issuance
<1>1. f[a] \in Nat /\ i \in Nat /\ f[a] <= i
  BY IssuanceCovers
<1>2. f \in [Accounts -> Nat] /\ f \in [Accounts -> Int] /\ i = SumFunction(f)
  BY DEF Booked, Ledger
<1>3. v \in Nat /\ v \in Int /\ v = f[a] + d
  BY <1>1
<1>4. g \in [Accounts -> Nat]
  BY <1>2, <1>3
<1>5. i + d \in Nat
  <2> HIDE DEF f, i
  <2>1. f[a] + d >= 0
    BY <1>3
  <2> QED BY <1>1, <2>1
<1> HIDE DEF f, v, i
<1>6. SumFunction(g) = SumFunction(f) + v - f[a]
  BY <1>2, <1>3, BalanceAssumption, SumUpdate
<1> HIDE DEF g
<1>7. i + d = SumFunction(g)
  BY <1>1, <1>2, <1>3, <1>6
<1> QED
  BY <1>4, <1>5, <1>7 DEF f, g, v, i

\* Reaping an account books its dust and leaves no dust behind.
LEMMA ReapSound ==
    ASSUME NEW S, NEW s, Booked(s, S), NEW a \in Accounts, Deposited(s, Accounts \ {a})
    PROVE  Sound(Reap(s, a), S)
<1>1. CASE s.free[a] >= EXISTENTIAL_DEPOSIT
  <2>1. Reap(s, a) = s
    BY <1>1 DEF Reap
  <2> QED BY <1>1, <2>1 DEF Sound, Deposited
<1>2. CASE ~(s.free[a] >= EXISTENTIAL_DEPOSIT)
  <2> DEFINE d == 0 - s.free[a]
             r == Reap(s, a)
  <2>0. /\ s.free[a] \in Nat /\ d \in Int /\ s.free[a] + d = 0
        /\ s.issuance \in Nat /\ s.issuance + d = s.issuance - s.free[a]
    BY IssuanceCovers
  <2>1. s \in Ledger(S)
    BY DEF Booked
  <2>2. r = [s EXCEPT !.free[a] = 0, !.issuance = s.issuance - s.free[a], !.nonce[a] = 0, !.log[a] = << >>]
    BY <1>2 DEF Reap
  <2>3. /\ r.free = [s.free EXCEPT ![a] = 0] /\ r.issuance = s.issuance - s.free[a]
        /\ r.nonce = [s.nonce EXCEPT ![a] = 0] /\ r.log = [s.log EXCEPT ![a] = << >>]
    BY <2>1, <2>2 DEF Ledger
  <2>4. r = [free |-> r.free, issuance |-> r.issuance, nonce |-> r.nonce, log |-> r.log, multiplier |-> s.multiplier]
    BY <2>1, <2>2 DEF Ledger
  <2> HIDE DEF r, d
  <2>5. /\ r.free \in [Accounts -> Nat] /\ r.issuance \in Nat /\ r.issuance = SumFunction(r.free)
    BY <2>0, <2>3, SumFollows
  <2>6. /\ s.free \in [Accounts -> Nat] /\ s.nonce \in [Accounts -> Nat]
        /\ s.log \in [Accounts -> Seq(S)] /\ s.multiplier \in Multipliers
    BY <2>1 DEF Ledger
  <2>7. r.nonce \in [Accounts -> Nat] /\ r.log \in [Accounts -> Seq(S)]
    BY <2>3, <2>6, EmptySeq
  <2>8. r \in Ledger(S)
    BY <2>4, <2>5, <2>6, <2>7 DEF Ledger
  <2>9. Ordered(r)
    <3> SUFFICES ASSUME NEW b \in Accounts PROVE Len(r.log[b]) = r.nonce[b] /\ NoncesInOrder(r.log[b], b)
      BY DEF Ordered
    <3>1. CASE b = a
      <4>1. r.log[b] = << >> /\ r.nonce[b] = 0
        BY <2>3, <2>6, <3>1
      <4> QED BY <4>1 DEF NoncesInOrder
    <3>2. CASE b # a
      <4>1. r.log[b] = s.log[b] /\ r.nonce[b] = s.nonce[b]
        BY <2>3, <2>6, <3>2
      <4> QED BY <4>1 DEF Booked, Ordered
    <3> QED BY <3>1, <3>2
  <2>10. Deposited(r, Accounts)
    BY <2>3, <2>6 DEF Deposited
  <2> QED BY <2>5, <2>8, <2>9, <2>10 DEF Sound, Booked, r
<1> QED
  BY <1>1, <1>2

\* The state s with the balances g and the issuance i.
WithBalances(s, g, i) == [s EXCEPT !.free = g, !.issuance = i]

\* Balances and an issuance that is their sum can take the place of a state's.
LEMMA Rebalanced ==
    ASSUME NEW S, NEW s, Booked(s, S), NEW g \in [Accounts -> Nat], NEW i \in Nat, i = SumFunction(g)
    PROVE  Booked(WithBalances(s, g, i), S) /\ WithBalances(s, g, i).free = g
<1> DEFINE r == WithBalances(s, g, i)
<1>1. s \in Ledger(S) /\ Ordered(s)
  BY DEF Booked
<1>2. r.free = g /\ r.issuance = i /\ r.nonce = s.nonce /\ r.log = s.log
  BY <1>1 DEF Ledger, WithBalances
<1>3. r \in Ledger(S)
  BY <1>1 DEF Ledger, WithBalances
<1> HIDE DEF r
<1>4. Ordered(r)
  BY <1>1, <1>2 DEF Ordered
<1>5. Booked(r, S)
  BY <1>2, <1>3, <1>4 DEF Booked
<1> QED
  BY <1>2, <1>5 DEF r

\* A transfer makes and loses nothing but the dust it books.
LEMMA TransferSound ==
    ASSUME NEW S, NEW s, Sound(s, S), NEW from \in Accounts, NEW to \in Accounts, NEW value \in Nat
    PROVE  Sound(Transfer(s, from, to, value), S)
<1> DEFINE Refused == from = to \/ value = 0 \/ s.free[from] < value \/ s.free[to] + value < EXISTENTIAL_DEPOSIT
<1>1. CASE Refused
  BY <1>1 DEF Transfer
<1>2. CASE ~Refused
  <2>0. Booked(s, S) /\ Deposited(s, Accounts) /\ s \in Ledger(S) /\ s.free \in [Accounts -> Nat]
    BY DEF Sound, Booked, Ledger
  <2> DEFINE f == s.free
             x == f[from] - value
             y == f[to] + value
             g == [f EXCEPT ![from] = x]
             h == [g EXCEPT ![to] = y]
             r == [s EXCEPT !.free = h]
             i == s.issuance
  <2>1. from # to /\ value # 0 /\ f[from] >= value /\ y >= EXISTENTIAL_DEPOSIT /\ f[from] \in Nat /\ f[to] \in Nat
    <3>1. f[from] \in Nat /\ f[to] \in Nat /\ EXISTENTIAL_DEPOSIT \in Nat
      BY <2>0, BalanceAssumption DEF EXISTENTIAL_DEPOSIT
    <3> QED BY <1>2, <3>1
  <2>2. Transfer(s, from, to, value) = Reap(r, from)
    <3>1. [s EXCEPT !.free[from] = @ - value, !.free[to] = @ + value] = r
      BY <2>0, <2>1 DEF Ledger
    <3> HIDE DEF r
    <3> QED BY <1>2, <3>1 DEF Transfer
  <2>3. /\ f \in [Accounts -> Int] /\ f \in [Accounts -> Nat] /\ i = SumFunction(f)
        /\ i \in Nat /\ x \in Nat /\ y \in Nat
    BY <2>0, <2>1 DEF Booked, Ledger
  <2>4. g \in [Accounts -> Nat] /\ g \in [Accounts -> Int] /\ h \in [Accounts -> Nat] /\ g[to] = f[to]
    BY <2>1, <2>3
  <2>5. r = WithBalances(s, h, i)
    BY <2>0 DEF Ledger, WithBalances
  <2>6. \A a \in Accounts : a # from => h[a] = f[a] \/ h[a] = y
    BY <2>3, <2>4
  <2>7. x \in Int /\ y \in Int /\ x = f[from] - value /\ y = f[to] + value
    BY <2>3
  <2> HIDE DEF x, y
  <2>8. SumFunction(g) = SumFunction(f) + x - f[from]
    <3> HIDE DEF f
    <3> QED BY <2>3, <2>7, BalanceAssumption, SumUpdate
  <2> HIDE DEF g
  <2>9. SumFunction(h) = SumFunction(g) + y - g[to]
    <3>1. g \in [Accounts -> Int] /\ y \in Int /\ IsFiniteSet(Accounts)
      BY <2>4, <2>7, BalanceAssumption
    <3>2. SumFunction([g EXCEPT ![to] = y]) = SumFunction(g) + y - g[to]
      BY <3>1, SumUpdate
    <3> QED BY <3>2
  <2> HIDE DEF h, f, i, Refused
  <2>10. i = SumFunction(h)
    BY <2>1, <2>3, <2>4, <2>7, <2>8, <2>9
  <2>11. Booked(r, S) /\ r.free = h
    <3> DEFINE t == WithBalances(s, h, i)
    <3>1. Booked(t, S) /\ t.free = h
      BY <2>0, <2>3, <2>4, <2>10, Rebalanced
    <3> HIDE DEF t
    <3>2. r = t
      BY <2>5 DEF t
    <3> HIDE DEF r
    <3> QED BY <3>1, <3>2
  <2> HIDE DEF r
  <2>12. Deposited(r, Accounts \ {from})
    <3>1. \A a \in Accounts : f[a] = 0 \/ f[a] >= EXISTENTIAL_DEPOSIT
      BY <2>0 DEF Deposited, f
    <3> QED BY <2>1, <2>6, <2>11, <3>1 DEF Deposited
  <2> QED BY <2>2, <2>11, <2>12, ReapSound
<1> QED
  BY <1>1, <1>2

\* A correction of the fee makes only what it adds to the issuance.
LEMMA RefundSound ==
    ASSUME NEW S, NEW s, Sound(s, S), NEW a \in Accounts, NEW refund \in Nat
    PROVE  Sound(Refund(s, a, refund), S)
<1>0. Booked(s, S) /\ Deposited(s, Accounts) /\ s \in Ledger(S) /\ s.free \in [Accounts -> Nat]
  BY DEF Sound, Booked, Ledger
<1>1. CASE s.free[a] = 0
  BY <1>1 DEF Refund
<1>2. CASE s.free[a] # 0
  <2> DEFINE g == [s.free EXCEPT ![a] = s.free[a] + refund]
             i == s.issuance + refund
             r == WithBalances(s, g, i)
  <2>1. Refund(s, a, refund) = r
    BY <1>0, <1>2 DEF Refund, Ledger, WithBalances
  <2>2. s.free[a] \in Nat /\ s.free[a] + refund >= 0 /\ refund \in Int
    BY <1>0
  <2>3. g \in [Accounts -> Nat] /\ i \in Nat /\ i = SumFunction(g)
    BY <1>0, <2>2, SumFollows
  <2>4. \A b \in Accounts : g[b] = 0 \/ g[b] >= EXISTENTIAL_DEPOSIT
    <3> SUFFICES ASSUME NEW b \in Accounts PROVE g[b] = 0 \/ g[b] >= EXISTENTIAL_DEPOSIT
      OBVIOUS
    <3>1. s.free[b] = 0 \/ s.free[b] >= EXISTENTIAL_DEPOSIT
      BY <1>0 DEF Deposited
    <3>2. CASE b # a
      BY <1>0, <3>1, <3>2
    <3>3. CASE b = a
      <4>1. s.free[a] >= EXISTENTIAL_DEPOSIT /\ g[a] = s.free[a] + refund /\ EXISTENTIAL_DEPOSIT \in Nat
        BY <1>0, <1>2, <3>1, <3>3, BalanceAssumption DEF EXISTENTIAL_DEPOSIT
      <4>2. g[a] >= EXISTENTIAL_DEPOSIT
        BY <2>2, <4>1
      <4> QED BY <3>3, <4>2
    <3> QED BY <3>2, <3>3
  <2> HIDE DEF g, i
  <2>5. Booked(r, S) /\ r.free = g
    BY <1>0, <2>3, Rebalanced
  <2> HIDE DEF r
  <2> QED BY <2>1, <2>4, <2>5 DEF Sound, Deposited
<1> QED
  BY <1>1, <1>2

\* The state once the fee of tx is withdrawn and its nonce is used.
Charged(s, tx, fee) ==
    [s EXCEPT !.nonce[tx.signer] = @ + 1, !.log[tx.signer] = Append(@, tx),
              !.free[tx.signer] = @ - fee, !.issuance = @ - fee]

\* CheckNonce and KeepAlive make the withdrawal sound.
LEMMA ChargedSound ==
    ASSUME NEW S, S \subseteq Tx, NEW s, Sound(s, S), NEW tx \in S, NEW fee \in Nat,
           CheckNonce(s, tx), CanPay(s, tx.signer, fee)
    PROVE  Sound(Charged(s, tx, fee), S)
<1> DEFINE a == tx.signer
           d == 0 - fee
           r == Charged(s, tx, fee)
           l == s.log[a]
<1>0. Booked(s, S) /\ Deposited(s, Accounts) /\ s \in Ledger(S) /\ Ordered(s)
  BY DEF Sound, Booked
<1>1. a \in Accounts
  BY DEF Tx
<1>2. /\ s.free \in [Accounts -> Nat] /\ s.issuance \in Nat /\ s.nonce \in [Accounts -> Nat]
      /\ s.log \in [Accounts -> Seq(S)] /\ s.multiplier \in Multipliers
  BY <1>0 DEF Ledger
<1>3. /\ r.free = [s.free EXCEPT ![a] = s.free[a] - fee] /\ r.issuance = s.issuance - fee
      /\ r.nonce = [s.nonce EXCEPT ![a] = s.nonce[a] + 1]
      /\ r.log = [s.log EXCEPT ![a] = Append(l, tx)]
  <2>1. r = [s EXCEPT !.nonce[a] = @ + 1, !.log[a] = Append(@, tx), !.free[a] = @ - fee, !.issuance = @ - fee]
    BY DEF Charged
  <2> HIDE DEF a, r
  <2>2. r.free = [s.free EXCEPT ![a] = s.free[a] - fee] /\ r.issuance = s.issuance - fee
    BY <1>0, <2>1 DEF Ledger
  <2>3. r.nonce = [s.nonce EXCEPT ![a] = s.nonce[a] + 1]
    BY <1>0, <2>1 DEF Ledger
  <2>4. r.log = [s.log EXCEPT ![a] = Append(l, tx)]
    BY <1>0, <2>1 DEF Ledger
  <2> QED BY <2>2, <2>3, <2>4
<1>4. r = [free |-> r.free, issuance |-> r.issuance, nonce |-> r.nonce, log |-> r.log, multiplier |-> s.multiplier]
  <2>1. r = [s EXCEPT !.nonce[a] = @ + 1, !.log[a] = Append(@, tx), !.free[a] = @ - fee, !.issuance = @ - fee]
    BY DEF Charged
  <2> HIDE DEF a, r
  <2> QED BY <1>0, <2>1 DEF Ledger
<1> HIDE DEF r
<1>5. /\ s.free[a] \in Nat /\ s.free[a] - fee >= EXISTENTIAL_DEPOSIT /\ EXISTENTIAL_DEPOSIT \in Nat
  BY <1>1, <1>2, BalanceAssumption DEF CanPay, EXISTENTIAL_DEPOSIT
<1>6. d \in Int /\ s.free[a] + d >= 0 /\ s.free[a] + d = s.free[a] - fee /\ s.issuance + d = s.issuance - fee
  BY <1>2, <1>5
<1>7. r.free \in [Accounts -> Nat] /\ r.issuance \in Nat /\ r.issuance = SumFunction(r.free)
  <2> HIDE DEF d, a
  <2> QED BY <1>0, <1>1, <1>3, <1>6, SumFollows
<1>8. /\ l \in Seq(S) /\ s.nonce[a] \in Nat
      /\ Append(l, tx) \in Seq(S) /\ Len(l) \in Nat /\ DOMAIN l = 1..Len(l)
      /\ Len(Append(l, tx)) = Len(l) + 1
      /\ \A i \in 1..Len(l) : Append(l, tx)[i] = l[i]
      /\ Append(l, tx)[Len(l) + 1] = tx
  <2>1. l \in Seq(S) /\ s.nonce[a] \in Nat
    BY <1>1, <1>2
  <2> HIDE DEF l, a
  <2> QED BY <2>1, AppendProperties, LenProperties
<1>9. r.nonce \in [Accounts -> Nat] /\ r.log \in [Accounts -> Seq(S)]
  <2> DEFINE m == Append(l, tx)
  <2>1. m \in Seq(S) /\ r.log = [s.log EXCEPT ![a] = m] /\ s.nonce[a] + 1 \in Nat
    BY <1>3, <1>8
  <2> HIDE DEF m
  <2>2. r.log \in [Accounts -> Seq(S)]
    BY <1>2, <2>1
  <2>3. r.nonce \in [Accounts -> Nat]
    <3> HIDE DEF a
    <3> QED BY <1>1, <1>2, <1>3, <2>1
  <2> QED BY <2>2, <2>3
<1>10. r \in Ledger(S)
  BY <1>2, <1>4, <1>7, <1>9 DEF Ledger
<1>11. Ordered(r)
  <2> SUFFICES ASSUME NEW b \in Accounts PROVE Len(r.log[b]) = r.nonce[b] /\ NoncesInOrder(r.log[b], b)
    BY DEF Ordered
  <2>1. CASE b # a
    <3>1. r.log[b] = s.log[b] /\ r.nonce[b] = s.nonce[b]
      BY <1>2, <1>3, <2>1
    <3> QED BY <1>0, <3>1 DEF Ordered
  <2>2. CASE b = a
    <3> DEFINE m == Append(l, tx)
    <3>1. r.log[b] = m /\ r.nonce[b] = s.nonce[a] + 1
      BY <1>1, <1>2, <1>3, <2>2
    <3>2. Len(l) = s.nonce[a] /\ NoncesInOrder(l, a)
      BY <1>0, <1>1 DEF Ordered
    <3>3. tx.nonce = Len(l) /\ tx.signer = a
      BY <3>2 DEF CheckNonce
    <3>4. m \in Seq(S) /\ Len(m) = Len(l) + 1 /\ (\A i \in 1..Len(l) : m[i] = l[i]) /\ m[Len(l) + 1] = tx
      BY <1>8
    <3>5. DOMAIN m = 1..(Len(l) + 1)
      <4> HIDE DEF m
      <4> QED BY <3>4, LenProperties
    <3> HIDE DEF m, l, a
    <3>6. ASSUME NEW i \in DOMAIN m PROVE m[i].signer = a /\ m[i].nonce = i - 1
      <4>1. CASE i = Len(l) + 1
        BY <1>8, <3>3, <3>4, <4>1
      <4>2. CASE i # Len(l) + 1
        <5>1. i \in 1..Len(l)
          BY <1>8, <3>5, <4>2
        <5> QED BY <1>8, <3>2, <3>4, <5>1 DEF NoncesInOrder
      <4> QED BY <4>1, <4>2
    <3> QED BY <2>2, <3>1, <3>2, <3>4, <3>6 DEF NoncesInOrder
  <2> QED BY <2>1, <2>2
<1>12. Deposited(r, Accounts)
  <2> SUFFICES ASSUME NEW b \in Accounts PROVE r.free[b] = 0 \/ r.free[b] >= EXISTENTIAL_DEPOSIT
    BY DEF Deposited
  <2>1. CASE b = a
    BY <1>1, <1>2, <1>3, <1>5, <2>1
  <2>2. CASE b # a
    <3>1. r.free[b] = s.free[b]
      BY <1>2, <1>3, <2>2
    <3> QED BY <1>0, <3>1 DEF Deposited
  <2> QED BY <2>1, <2>2
<1> QED
  BY <1>7, <1>10, <1>11, <1>12 DEF Sound, Booked, r

\* A transaction that passes its checks is applied soundly.
LEMMA AppliedSound ==
    ASSUME NEW S, S \subseteq Tx, NEW s, Sound(s, S), NEW tx \in S, NEW unspent \in {0, Call[tx.kind].unspent},
           CheckNonce(s, tx), CanPay(s, tx.signer, Fee(s, tx.kind, Call[tx.kind].weight))
    PROVE  Sound(Applied(s, tx, unspent), S)
<1> DEFINE a == tx.signer
           c == Call[tx.kind]
           fee == Fee(s, tx.kind, c.weight)
           less == Fee(s, tx.kind, c.weight - unspent)
           paid == Charged(s, tx, fee)
           sent == Transfer(paid, a, c.dest, c.value)
<1>1. a \in Accounts /\ tx.kind \in Kinds
  BY DEF Tx
<1>2. c.dest \in Accounts /\ c.value \in Nat
  BY <1>1, CallAssumption
<1>3. s \in Ledger(S)
  BY DEF Sound, Booked
<1>4. fee \in Nat /\ less \in Nat /\ less <= fee
  BY <1>1, <1>3, FeeFacts DEF IsFee
<1>5. Applied(s, tx, unspent) = Refund(sent, a, fee - less)
  BY DEF Applied, Charged
<1>6. Sound(paid, S)
  <2>1. CanPay(s, tx.signer, fee)
    OBVIOUS
  <2> HIDE DEF fee
  <2> QED BY <1>4, <2>1, ChargedSound
<1> DEFINE back == fee - less
<1>7. back \in Nat
  <2> HIDE DEF fee, less
  <2> QED BY <1>4
<1> HIDE DEF paid, fee, less, back
<1>8. Sound(sent, S)
  <2> HIDE DEF a, c
  <2> QED BY <1>1, <1>2, <1>6, TransferSound
<1> HIDE DEF sent
<1>9. Sound(Refund(sent, a, back), S)
  <2> HIDE DEF a
  <2> QED BY <1>1, <1>7, <1>8, RefundSound
<1> QED
  BY <1>5, <1>9 DEF back

-----------------------------------------------------------------------------
(* The inductive invariant.                                                *)

\* The states that a block under construction, or the parent of the best block,
\* may leave the chain in are sound as well.
BlockOK(S) ==
    \/ block = NoBlock
    \/ /\ block \in [open : {TRUE}, st : Ledger(S), body : SUBSET S, used : [Classes -> Nat]]
       /\ Sound(block.st, S)
UndoOK(S) ==
    \/ undo = NoUndo
    \/ /\ undo \in [open : {TRUE}, st : Ledger(S), body : SUBSET S]
       /\ Sound(undo.st, S)

LedgerInv ==
    /\ IsFiniteSet(signed) /\ signed \subseteq Tx /\ pool \subseteq signed
    /\ Cardinality(signed) <= MaxSigned /\ index \in [Accounts -> 0..MaxSigned]
    /\ retracted \in 0..MaxRetractions
    /\ Sound(best, signed) /\ BlockOK(signed) /\ UndoOK(signed)

\* A block that is open is not the one that stands for none.
LEMMA OpenBlock ==
    ASSUME NEW S, BlockOK(S), block.open
    PROVE  /\ block \in [open : {TRUE}, st : Ledger(S), body : SUBSET S, used : [Classes -> Nat]]
           /\ Sound(block.st, S)
<1>1. NoBlock.open = FALSE
  BY DEF NoBlock
<1>2. block # NoBlock
  BY <1>1, Zenon
<1> QED
  BY <1>2, Zenon DEF BlockOK

\* The same for the block that can be retracted.
LEMMA OpenUndo ==
    ASSUME NEW S, UndoOK(S), undo.open
    PROVE  undo \in [open : {TRUE}, st : Ledger(S), body : SUBSET S] /\ Sound(undo.st, S)
<1>1. NoUndo.open = FALSE
  BY DEF NoUndo
<1>2. undo # NoUndo
  BY <1>1, Zenon
<1> QED
  BY <1>2, Zenon DEF UndoOK

\* What is sound stays sound when more is signed.
LEMMA SoundGrows ==
    ASSUME NEW S, NEW T, S \subseteq T, NEW s, Sound(s, S)
    PROVE  Sound(s, T) /\ s \in Ledger(T)
<1>1. s \in Ledger(S)
  BY DEF Sound, Booked
<1>2. \A l \in Seq(S) : l \in Seq(T)
  OBVIOUS
<1>3. Ledger(S) \subseteq Ledger(T)
  BY <1>2 DEF Ledger
<1> QED
  BY <1>1, <1>3 DEF Sound, Booked

\* No more nonces are in use than transactions are signed.
LEMMA NoncesCounted ==
    ASSUME IsFiniteSet(signed), NEW I, \A n \in I : \E t \in signed : t.nonce = n
    PROVE  IsFiniteSet(I) /\ Cardinality(I) <= Cardinality(signed) /\ Cardinality(I) \in Nat
<1> DEFINE F == {t \in signed : t.nonce \in I}
           f == [t \in F |-> t.nonce]
<1>1. F \in SUBSET signed
  OBVIOUS
<1>2. IsFiniteSet(F) /\ Cardinality(F) <= Cardinality(signed)
  <2> HIDE DEF F
  <2> QED BY <1>1, FS_Subset
<1>3. f \in [F -> I] /\ \A n \in I : \E t \in F : f[t] = n
  OBVIOUS
<1>4. f \in Surjection(F, I)
  <2> HIDE DEF f, F
  <2> QED BY <1>3 DEF Surjection
<1> HIDE DEF f, F
<1>5. IsFiniteSet(I) /\ Cardinality(I) <= Cardinality(F)
  BY <1>2, <1>4, FS_Surjection
<1>6. Cardinality(I) \in Nat /\ Cardinality(F) \in Nat /\ Cardinality(signed) \in Nat
  BY <1>2, <1>5, FS_CardinalityType
<1> QED
  BY <1>2, <1>5, <1>6

\* The index that the node tells a wallet is one that the transactions signed so
\* far suffice to reach.
LEMMA NextIndexFacts ==
    ASSUME LedgerInv, NEW a \in Accounts
    PROVE  AccountNextIndex(a) \in 0..MaxSigned
<1> DEFINE N == best.nonce[a]
           pooled == {tx.nonce : tx \in {t \in pool : t.signer = a}}
           cand == {n \in N..(N + MaxSigned) : n \notin pooled}
           x == Min(cand)
<1>1. /\ IsFiniteSet(signed) /\ pool \subseteq signed /\ MaxSigned \in Nat
      /\ Cardinality(signed) \in Nat /\ Cardinality(signed) <= MaxSigned
  BY BoundAssumption, FS_CardinalityType DEF LedgerInv
<1>2. best \in Ledger(signed) /\ Ordered(best)
  BY DEF LedgerInv, Sound, Booked
<1>3. N \in Nat
  BY <1>2 DEF Ledger
<1>5. \A n \in pooled : \E t \in signed : t.nonce = n
  BY <1>1
<1>6. AccountNextIndex(a) = x
  BY DEF AccountNextIndex, AccountNonce
<1> HIDE DEF N, pooled
<1>7. cand # {}
  <2> SUFFICES ASSUME cand = {} PROVE FALSE
    OBVIOUS
  <2> DEFINE I == N..(N + MaxSigned)
  <2>1. \A n \in I : \E t \in signed : t.nonce = n
    BY <1>5
  <2>2. Cardinality(I) = MaxSigned + 1
    <3> DEFINE M == N + MaxSigned
    <3>1. M \in Int /\ N \in Int /\ ~(N > M) /\ M - N + 1 = MaxSigned + 1
      BY <1>1, <1>3
    <3> HIDE DEF M
    <3>2. Cardinality(N..M) = MaxSigned + 1
      BY <3>1, FS_Interval
    <3> QED BY <3>2 DEF M
  <2> HIDE DEF I
  <2>3. Cardinality(I) <= Cardinality(signed)
    BY <1>1, <2>1, NoncesCounted
  <2> QED BY <1>1, <2>2, <2>3
<1>8. x \in cand /\ \A y \in cand : x <= y
  <2>1. cand \subseteq Nat
    BY <1>1, <1>3
  <2> HIDE DEF cand
  <2>2. \E z \in cand : \A y \in cand : z <= y
    BY <1>7, <2>1, LeastElement
  <2> QED BY <2>2 DEF Min
<1> HIDE DEF x
<1>9. x \in Nat /\ x \in N..(N + MaxSigned) /\ x \notin pooled
  BY <1>1, <1>3, <1>8
<1>10. ASSUME NEW n \in 0..(x - 1) PROVE \E t \in signed : t.nonce = n
  <2>1. CASE n >= N
    <3>1. n \in N..(N + MaxSigned) /\ ~(x <= n)
      BY <1>1, <1>3, <1>9, <2>1
    <3>2. n \in pooled
      BY <1>8, <3>1
    <3> QED BY <1>5, <3>2
  <2>2. CASE ~(n >= N)
    <3> DEFINE l == best.log[a]
    <3>1. l \in Seq(signed) /\ Len(l) = N /\ NoncesInOrder(l, a)
      BY <1>2 DEF Ledger, Ordered, N
    <3> HIDE DEF l
    <3>2. DOMAIN l = 1..N /\ l \in [1..N -> signed]
      BY <3>1, LenProperties
    <3>3. n + 1 \in 1..N /\ (n + 1) - 1 = n
      BY <1>3, <1>9, <2>2
    <3>4. l[n + 1] \in signed /\ l[n + 1].nonce = n
      BY <3>1, <3>2, <3>3 DEF NoncesInOrder
    <3> QED BY <3>4
  <2> QED BY <2>1, <2>2
<1>11. x <= Cardinality(signed)
  <2> DEFINE y == x - 1
             I == 0..y
  <2>1. y \in Int /\ 0 \in Int /\ (IF 0 > y THEN 0 ELSE y - 0 + 1) = x
    BY <1>9
  <2>2. \A n \in I : \E t \in signed : t.nonce = n
    BY <1>10
  <2> HIDE DEF y
  <2>3. Cardinality(I) = x
    BY <2>1, FS_Interval
  <2> HIDE DEF I
  <2>4. Cardinality(I) <= Cardinality(signed)
    BY <1>1, <2>2, NoncesCounted
  <2> QED BY <2>3, <2>4
<1>12. x \in 0..MaxSigned
  BY <1>1, <1>9, <1>11
<1> QED
  BY <1>6, <1>12

\* What the pool takes is from what was signed.
LEMMA PoolFrom ==
    ASSUME NEW S, pool \subseteq S, NEW txs, txs \subseteq S, NEW P \in PoolsWith(txs)
    PROVE  P \subseteq S
<1>1. P \subseteq pool \cup txs
  BY DEF PoolsWith
<1> QED
  BY <1>1

\* The inductive invariant holds at genesis.
LEMMA InvAtGenesis == Init => LedgerInv
<1> SUFFICES ASSUME Init PROVE LedgerInv
  OBVIOUS
<1>1. best = Genesis /\ undo = NoUndo /\ block = NoBlock /\ pool = {} /\ signed = {} /\ retracted = 0
      /\ index = [a \in Accounts |-> 0]
  BY DEF Init
<1>2. SumFunction(Endowment) \in Nat
  BY BalanceAssumption, SumBounds
<1>3. \A a \in Accounts : Genesis.log[a] = << >> /\ Genesis.nonce[a] = 0
  BY DEF Genesis
<1>4. [a \in Accounts |-> << >>] \in [Accounts -> Seq(signed)]
  BY EmptySeq
<1>5. Genesis \in Ledger(signed)
  BY <1>2, <1>4, BalanceAssumption DEF Genesis, Ledger
<1>6. Genesis.issuance = SumFunction(Genesis.free) /\ Genesis.free = Endowment
  BY DEF Genesis
<1>7. Ordered(Genesis)
  BY <1>3 DEF Ordered, NoncesInOrder
<1>8. Deposited(Genesis, Accounts)
  BY <1>6, BalanceAssumption DEF Deposited, EXISTENTIAL_DEPOSIT
<1>9. Sound(best, signed)
  BY <1>1, <1>5, <1>6, <1>7, <1>8 DEF Sound, Booked
<1>10. 0 \in 0..MaxRetractions /\ 0 \in 0..MaxSigned
  BY BoundAssumption
<1>11. Cardinality(signed) <= MaxSigned /\ index \in [Accounts -> 0..MaxSigned]
  <2>1. Cardinality({}) = 0
    BY FS_EmptySet
  <2> QED BY <1>1, <1>10, <2>1, BoundAssumption
<1> QED
  BY <1>1, <1>9, <1>10, <1>11, FS_EmptySet DEF LedgerInv, BlockOK, UndoOK

\* Signing keeps it: the index is in reach, and older states stay sound.
LEMMA SignKeeps ==
    ASSUME LedgerInv, NEW a \in Accounts, NEW k \in Kinds, Sign(a, k)
    PROVE  LedgerInv'
<1> DEFINE i == Cardinality(signed) + 1
           n == index[a]
           tx == [signer |-> a, nonce |-> n, kind |-> k, id |-> i]
<1>0. /\ IsFiniteSet(signed) /\ signed \subseteq Tx /\ pool \subseteq signed
      /\ Cardinality(signed) <= MaxSigned /\ index \in [Accounts -> 0..MaxSigned]
      /\ retracted \in 0..MaxRetractions
      /\ Sound(best, signed) /\ BlockOK(signed) /\ UndoOK(signed)
  BY DEF LedgerInv
<1>1. /\ Cardinality(signed) < MaxSigned /\ signed' = signed \cup {tx} /\ pool' = pool /\ index' = index
      /\ best' = best /\ undo' = undo /\ block' = block /\ retracted' = retracted
  BY DEF Sign
<1>2. n \in 0..MaxSigned
  BY <1>0
<1>3. i \in 1..MaxSigned
  <2>1. Cardinality(signed) \in Nat
    BY <1>0, FS_CardinalityType
  <2> QED BY <1>1, <2>1, BoundAssumption
<1>4. tx \in Tx
  <2> HIDE DEF n, i
  <2> QED BY <1>2, <1>3 DEF Tx
<1> HIDE DEF tx
<1>5. /\ IsFiniteSet(signed') /\ signed' \subseteq Tx /\ signed \subseteq signed'
      /\ Cardinality(signed') <= MaxSigned
  <2>1. /\ IsFiniteSet(signed') /\ Cardinality(signed) \in Nat
        /\ Cardinality(signed') = IF tx \in signed THEN Cardinality(signed) ELSE Cardinality(signed) + 1
    BY <1>0, <1>1, FS_AddElement, FS_CardinalityType
  <2>2. Cardinality(signed') <= MaxSigned
    BY <1>1, <2>1, BoundAssumption
  <2> QED BY <1>0, <1>1, <1>4, <2>1, <2>2
<1>6. pool' \subseteq signed'
  BY <1>0, <1>1
<1>7. Sound(best', signed')
  BY <1>0, <1>1, <1>5, SoundGrows
<1>8. BlockOK(signed)'
  <2>1. CASE block = NoBlock
    BY <1>1, <2>1 DEF BlockOK
  <2>2. CASE block # NoBlock
    <3>1. /\ block \in [open : {TRUE}, st : Ledger(signed), body : SUBSET signed, used : [Classes -> Nat]]
          /\ Sound(block.st, signed)
      BY <1>0, <2>2 DEF BlockOK
    <3>2. Sound(block.st, signed') /\ block.st \in Ledger(signed')
      BY <1>5, <3>1, SoundGrows
    <3>3. block \in [open : {TRUE}, st : Ledger(signed'), body : SUBSET signed', used : [Classes -> Nat]]
      BY <1>5, <3>1, <3>2
    <3> QED BY <1>1, <3>2, <3>3 DEF BlockOK, Ledger
  <2> QED BY <2>1, <2>2
<1>9. UndoOK(signed)'
  <2>1. CASE undo = NoUndo
    BY <1>1, <2>1 DEF UndoOK
  <2>2. CASE undo # NoUndo
    <3>1. /\ undo \in [open : {TRUE}, st : Ledger(signed), body : SUBSET signed]
          /\ Sound(undo.st, signed)
      BY <1>0, <2>2 DEF UndoOK
    <3>2. Sound(undo.st, signed') /\ undo.st \in Ledger(signed')
      BY <1>5, <3>1, SoundGrows
    <3>3. undo \in [open : {TRUE}, st : Ledger(signed'), body : SUBSET signed']
      BY <1>5, <3>1, <3>2
    <3> QED BY <1>1, <3>2, <3>3 DEF UndoOK, Ledger
  <2> QED BY <2>1, <2>2
<1> QED
  BY <1>0, <1>1, <1>5, <1>6, <1>7, <1>8, <1>9 DEF LedgerInv

\* Applying keeps it.
LEMMA ApplyKeeps ==
    ASSUME LedgerInv, NEW tx \in signed, ApplyExtrinsic(tx)
    PROVE  LedgerInv'
<1> DEFINE k == tx.kind
           c == Call[k].class
<1>0. /\ IsFiniteSet(signed) /\ signed \subseteq Tx /\ pool \subseteq signed
      /\ Cardinality(signed) <= MaxSigned /\ index \in [Accounts -> 0..MaxSigned]
      /\ retracted \in 0..MaxRetractions
      /\ Sound(best, signed) /\ BlockOK(signed) /\ UndoOK(signed)
  BY DEF LedgerInv
<1>1. /\ block.open /\ CheckNonce(block.st, tx)
      /\ CanPay(block.st, tx.signer, Fee(block.st, tx.kind, Call[tx.kind].weight))
      /\ best' = best /\ undo' = undo /\ pool' = pool /\ signed' = signed /\ retracted' = retracted
      /\ index' = index
  BY DEF ApplyExtrinsic
<1>2. PICK unspent \in {0, Call[tx.kind].unspent} :
        block' = [block EXCEPT !.st = Applied(@, tx, unspent),
                               !.body = @ \cup {tx},
                               !.used[Call[tx.kind].class] = @ + ExtrinsicWeight(tx.kind) - unspent]
  BY DEF ApplyExtrinsic
<1>3. /\ block \in [open : {TRUE}, st : Ledger(signed), body : SUBSET signed, used : [Classes -> Nat]]
      /\ Sound(block.st, signed)
  BY <1>0, <1>1, OpenBlock
<1>4. k \in Kinds
  BY <1>0 DEF Tx
<1>5. /\ Call[k].weight \in Nat /\ Call[k].unspent \in Nat /\ Call[k].unspent <= Call[k].weight
      /\ c \in Classes
  BY <1>4, CallAssumption DEF Classes
<1> DEFINE st == Applied(block.st, tx, unspent)
           u == block.used[c] + ExtrinsicWeight(k) - unspent
           used == [block.used EXCEPT ![c] = u]
           body == block.body \cup {tx}
<1>6. Sound(st, signed)
  BY <1>0, <1>1, <1>3, AppliedSound
<1>7. u \in Nat
  <2>1. block.used[c] \in Nat
    BY <1>3, <1>5
  <2>2. ExtrinsicWeight(k) \in Nat /\ ExtrinsicWeight(k) - unspent \in Nat
    BY <1>5, WeightAssumption DEF ExtrinsicWeight
  <2> HIDE DEF c
  <2>3. unspent \in Nat
    BY <1>5
  <2> QED BY <2>1, <2>2, <2>3
<1>8. block' = [block EXCEPT !.st = st, !.body = body, !.used = used]
  <2> HIDE DEF st
  <2>1. block' = [block EXCEPT !.st = st, !.body = @ \cup {tx}, !.used[c] = @ + ExtrinsicWeight(k) - unspent]
    BY <1>2 DEF st
  <2> HIDE DEF c, k
  <2> QED BY <1>3, <2>1
<1> HIDE DEF u
<1>9. used \in [Classes -> Nat] /\ body \in SUBSET signed
  BY <1>3, <1>7
<1>10. st \in Ledger(signed)
  BY <1>6 DEF Sound, Booked
<1> HIDE DEF st, body, used
<1>11. block' \in [open : {TRUE}, st : Ledger(signed), body : SUBSET signed, used : [Classes -> Nat]]
  BY <1>3, <1>8, <1>9, <1>10
<1>12. block'.st = st
  BY <1>3, <1>8
<1>13. BlockOK(signed)'
  BY <1>1, <1>6, <1>11, <1>12 DEF BlockOK, Ledger
<1>14. UndoOK(signed)'
  BY <1>0, <1>1 DEF UndoOK, Ledger
<1> QED
  BY <1>0, <1>1, <1>13, <1>14 DEF LedgerInv

\* The other steps keep it: they move sound states about.
LEMMA OthersKeep ==
    ASSUME LedgerInv,
           \/ \E a \in Accounts : ReadIndex(a)
           \/ \E tx \in signed : Submit(tx) \/ Revalidate(tx)
           \/ \E hooks \in HookWeights : InitializeBlock(hooks)
           \/ FinalizeBlock \/ Retract \/ UNCHANGED vars
    PROVE  LedgerInv'
<1>0. /\ IsFiniteSet(signed) /\ signed \subseteq Tx /\ pool \subseteq signed
      /\ Cardinality(signed) <= MaxSigned /\ index \in [Accounts -> 0..MaxSigned]
      /\ retracted \in 0..MaxRetractions
      /\ Sound(best, signed) /\ BlockOK(signed) /\ UndoOK(signed)
  BY DEF LedgerInv
<1>1. ASSUME UNCHANGED <<best, undo, block, signed, retracted>>, pool' \subseteq signed,
             index' \in [Accounts -> 0..MaxSigned]
      PROVE  LedgerInv'
  <2>1. BlockOK(signed)' /\ UndoOK(signed)'
    BY <1>0, <1>1 DEF BlockOK, UndoOK, Ledger
  <2> QED BY <1>0, <1>1, <2>1 DEF LedgerInv
<1>2. CASE \E tx \in signed : Submit(tx) \/ Revalidate(tx)
  <2> PICK tx \in signed : Submit(tx) \/ Revalidate(tx)
    BY <1>2
  <2>1. CASE Submit(tx)
    <3>1. pool' \in PoolsWith({tx}) /\ UNCHANGED <<best, undo, block, index, signed, retracted>>
      BY <2>1 DEF Submit
    <3>2. pool' \subseteq signed
      BY <1>0, <3>1, PoolFrom
    <3> QED BY <1>0, <1>1, <3>1, <3>2
  <2>2. CASE Revalidate(tx)
    BY <1>0, <1>1, <2>2 DEF Revalidate
  <2> QED BY <2>1, <2>2
<1>3. CASE \E hooks \in HookWeights : InitializeBlock(hooks)
  <2> PICK hooks \in HookWeights : InitializeBlock(hooks)
    BY <1>3
  <2> DEFINE u == [c \in Classes |-> IF c = "Mandatory" THEN BlockExecutionWeight + hooks ELSE 0]
             b == [open |-> TRUE, st |-> best, body |-> {}, used |-> u]
  <2>1. block' = b /\ UNCHANGED <<best, undo, pool, index, signed, retracted>>
    BY DEF InitializeBlock
  <2>2. u \in [Classes -> Nat]
    BY WeightAssumption
  <2>3. best \in Ledger(signed)
    BY <1>0 DEF Sound, Booked
  <2> HIDE DEF u
  <2>4. b \in [open : {TRUE}, st : Ledger(signed), body : SUBSET signed, used : [Classes -> Nat]] /\ b.st = best
    BY <2>2, <2>3
  <2> HIDE DEF b
  <2>5. BlockOK(signed)' /\ UndoOK(signed)'
    BY <1>0, <2>1, <2>4 DEF BlockOK, UndoOK, Ledger
  <2> QED BY <1>0, <2>1, <2>5 DEF LedgerInv
<1>4. CASE FinalizeBlock
  <2>1. block.open /\ signed' = signed /\ retracted' = retracted /\ block' = NoBlock /\ pool' = pool \ block.body
        /\ index' = index
        /\ undo' = [open |-> TRUE, st |-> best, body |-> block.body]
    BY <1>4 DEF FinalizeBlock
  <2>2. PICK m \in Multipliers : best' = [block.st EXCEPT !.multiplier = m]
    BY <1>4 DEF FinalizeBlock
  <2>3. /\ block \in [open : {TRUE}, st : Ledger(signed), body : SUBSET signed, used : [Classes -> Nat]]
        /\ Sound(block.st, signed)
    BY <1>0, <2>1, OpenBlock
  <2> DEFINE s == block.st
             r == [s EXCEPT !.multiplier = m]
  <2>4. s \in Ledger(signed) /\ Sound(s, signed) /\ block.body \in SUBSET signed
    BY <2>3
  <2>5. best' = r
    BY <2>2
  <2> HIDE DEF s
  <2>6. r \in Ledger(signed) /\ r.free = s.free /\ r.issuance = s.issuance /\ r.log = s.log /\ r.nonce = s.nonce
    BY <2>4 DEF Ledger
  <2> HIDE DEF r
  <2>7. Sound(r, signed)
    BY <2>4, <2>6 DEF Sound, Booked, Ordered, Deposited
  <2>8. best \in Ledger(signed)
    BY <1>0 DEF Sound, Booked
  <2>9. undo' \in [open : {TRUE}, st : Ledger(signed), body : SUBSET signed] /\ undo'.st = best
    BY <2>1, <2>4, <2>8
  <2>10. UndoOK(signed)' /\ BlockOK(signed)'
    BY <1>0, <2>1, <2>9 DEF BlockOK, UndoOK, Ledger, NoBlock
  <2> QED BY <1>0, <2>1, <2>5, <2>7, <2>10 DEF LedgerInv
<1>5. CASE Retract
  <2> DEFINE back == {tx \in undo.body : ValidateTransaction(undo.st, tx)}
  <2>1. /\ undo.open /\ retracted < MaxRetractions /\ best' = undo.st /\ pool' \in PoolsWith(back) /\ index' = index
        /\ undo' = NoUndo /\ block' = NoBlock /\ retracted' = retracted + 1 /\ signed' = signed
    BY <1>5 DEF Retract
  <2>2. undo \in [open : {TRUE}, st : Ledger(signed), body : SUBSET signed] /\ Sound(undo.st, signed)
    BY <1>0, <2>1, OpenUndo
  <2>3. back \subseteq signed
    <3>1. undo.body \subseteq signed
      BY <2>2
    <3> QED BY <3>1
  <2> HIDE DEF back
  <2>4. pool' \subseteq signed
    BY <1>0, <2>1, <2>3, PoolFrom
  <2>5. retracted' \in 0..MaxRetractions
    BY <1>0, <2>1, BoundAssumption
  <2>6. BlockOK(signed)' /\ UndoOK(signed)'
    BY <2>1 DEF BlockOK, UndoOK, NoBlock, NoUndo
  <2> QED BY <1>0, <2>1, <2>2, <2>4, <2>5, <2>6 DEF LedgerInv
<1>6. CASE UNCHANGED vars
  BY <1>0, <1>1, <1>6 DEF vars
<1>7. CASE \E a \in Accounts : ReadIndex(a)
  <2> PICK a \in Accounts : ReadIndex(a)
    BY <1>7
  <2>1. AccountNextIndex(a) \in 0..MaxSigned
    BY NextIndexFacts
  <2>2. index' \in [Accounts -> 0..MaxSigned] /\ UNCHANGED <<best, undo, block, pool, signed, retracted>>
    BY <1>0, <2>1 DEF ReadIndex
  <2> QED BY <1>0, <1>1, <2>2
<1> QED
  BY <1>2, <1>3, <1>4, <1>5, <1>6, <1>7

\* The invariant is inductive.
LEMMA InvKept == LedgerInv /\ [Next]_vars => LedgerInv'
<1> SUFFICES ASSUME LedgerInv, [Next]_vars PROVE LedgerInv'
  OBVIOUS
<1>1. CASE \E a \in Accounts, k \in Kinds : Sign(a, k)
  BY <1>1, SignKeeps
<1>2. CASE \E tx \in signed : ApplyExtrinsic(tx)
  BY <1>2, ApplyKeeps
<1>3. CASE \/ \E a \in Accounts : ReadIndex(a)
           \/ \E tx \in signed : Submit(tx) \/ Revalidate(tx)
           \/ \E hooks \in HookWeights : InitializeBlock(hooks)
           \/ FinalizeBlock \/ Retract \/ UNCHANGED vars
  BY <1>3, OthersKeep
<1> QED
  BY <1>1, <1>2, <1>3 DEF Next

\* Every state that the chain can be in is sound.
LEMMA AlwaysSound == Spec => []LedgerInv
  BY InvAtGenesis, InvKept, PTL DEF Spec

-----------------------------------------------------------------------------
(* Theorems.                                                               *)

\* The states that the properties speak of are sound under the invariant.
LEMMA StatesSound ==
    ASSUME LedgerInv, NEW s \in States
    PROVE  Sound(s, signed) /\ s \in Ledger(signed)
<1>1. Sound(best, signed) /\ BlockOK(signed)
  BY DEF LedgerInv
<1>2. CASE block.open
  <2>1. Sound(block.st, signed)
    BY <1>1, <1>2, OpenBlock
  <2>2. s = best \/ s = block.st
    BY <1>2, Zenon DEF States
  <2> QED BY <1>1, <2>1, <2>2 DEF Sound, Booked
<1>3. CASE ~block.open
  <2>1. s = best
    BY <1>3, Zenon DEF States
  <2> QED BY <1>1, <2>1 DEF Sound, Booked
<1> QED
  BY <1>2, <1>3

\* TypeOK: no balance, issuance, nonce or weight leaves its range.
THEOREM TypeCorrect == Spec => []TypeOK
<1>1. LedgerInv => TypeOK
  <2> SUFFICES ASSUME LedgerInv PROVE TypeOK
    OBVIOUS
  <2>1. ASSUME NEW s \in States
        PROVE  /\ s.free \in [Accounts -> Nat] /\ s.issuance \in Nat
               /\ s.nonce \in [Accounts -> Nat] /\ s.multiplier \in Multipliers
               /\ \A a \in Accounts : s.log[a] \in Seq(signed)
    BY StatesSound DEF Ledger
  <2>2. ASSUME block.open PROVE block.used \in [Classes -> Nat] /\ block.body \subseteq signed
    <3>1. block \in [open : {TRUE}, st : Ledger(signed), body : SUBSET signed, used : [Classes -> Nat]]
      BY <2>2, OpenBlock DEF LedgerInv
    <3> QED BY <3>1
  <2>3. ASSUME undo.open PROVE undo.body \subseteq signed
    <3>1. undo \in [open : {TRUE}, st : Ledger(signed), body : SUBSET signed]
      BY <2>3, OpenUndo DEF LedgerInv
    <3> QED BY <3>1
  <2>4. /\ pool \subseteq signed /\ signed \subseteq Tx /\ index \in [Accounts -> 0..MaxSigned]
        /\ retracted \in 0..MaxRetractions
    BY DEF LedgerInv
  <2> QED BY <2>1, <2>2, <2>3, <2>4 DEF TypeOK
<1> QED
  BY <1>1, AlwaysSound, PTL

\* BalancesSound: fees, refunds, transfers and reaping lose and make no token,
\* and leave no account with dust.
THEOREM NothingLostOrMade == Spec => []BalancesSound
<1>1. LedgerInv => BalancesSound
  BY StatesSound DEF BalancesSound, Sound, Booked, Deposited
<1> QED
  BY <1>1, AlwaysSound, PTL

\* AppliedInOrder: however often a transaction is submitted and however many
\* blocks are retracted, an account's transactions are applied in nonce order.
THEOREM NoReplay == Spec => []AppliedInOrder
<1>1. LedgerInv => AppliedInOrder
  BY StatesSound DEF AppliedInOrder, Sound, Booked, Ordered, NoncesInOrder
<1> QED
  BY <1>1, AlwaysSound, PTL

\* OperationalReserveHonoured, for every block weight: the reserve is within what
\* a single extrinsic may weigh, so that no other limit takes it away again.
THEOREM ReserveHonoured == Spec => []OperationalReserveHonoured
<1>1. LedgerInv => OperationalReserveHonoured
  <2> SUFFICES ASSUME LedgerInv, block.open, NEW k \in Kinds, Call[k].class = "Operational",
                      block.used["Operational"] + ExtrinsicWeight(k) <=
                          MAXIMUM_BLOCK_WEIGHT - Percent(NORMAL_DISPATCH_RATIO, MAXIMUM_BLOCK_WEIGHT)
               PROVE  CheckWeight(block.used, k)
    BY DEF OperationalReserveHonoured
  <2> DEFINE M == MAXIMUM_BLOCK_WEIGHT
             n == Percent(NORMAL_DISPATCH_RATIO, M)
             h == Percent(AVERAGE_ON_INITIALIZE_RATIO, M)
             u == block.used["Operational"]
             w == Call[k].weight
  <2>1. u \in Nat
    <3>1. block \in [open : {TRUE}, st : Ledger(signed), body : SUBSET signed, used : [Classes -> Nat]]
      BY OpenBlock DEF LedgerInv
    <3> QED BY <3>1 DEF Classes
  <2>2. M \in Nat /\ n \in Nat /\ h \in Nat /\ h <= n /\ ExtrinsicBaseWeight \in Nat
    BY WeightAssumption, PercentFacts
  <2>3. w \in Nat
    BY CallAssumption
  <2>4. /\ MaxExtrinsic("Operational") = M - h - ExtrinsicBaseWeight
        /\ MaxTotal("Operational") = M /\ Reserved("Operational") = M - n
        /\ ExtrinsicWeight(k) = w + ExtrinsicBaseWeight
    BY DEF MaxExtrinsic, MaxTotal, Reserved, ExtrinsicWeight
  <2>5. u + ExtrinsicWeight(k) <= M - n
    OBVIOUS
  <2> HIDE DEF M, n, h, u, w
  <2>6. /\ w <= MaxExtrinsic("Operational")
        /\ u + ExtrinsicWeight(k) <= MaxTotal("Operational")
        /\ u + ExtrinsicWeight(k) <= Reserved("Operational")
    BY <2>1, <2>2, <2>3, <2>4, <2>5
  <2> QED BY <2>6 DEF CheckWeight, u, w
<1> QED
  BY <1>1, AlwaysSound, PTL

\* What the pool admits and FitsBesideHooks lets expect can be applied: CheckWeight
\* accepts it in every block that has only its hooks in it, if these take no more
\* than AVERAGE_ON_INITIALIZE_RATIO.
THEOREM AdmittedFitsAlone ==
    ASSUME LedgerInv, NEW tx \in signed, ValidateTransaction(best, tx), FitsBesideHooks(tx.kind),
           NEW hooks \in HookWeights, hooks <= Percent(AVERAGE_ON_INITIALIZE_RATIO, MAXIMUM_BLOCK_WEIGHT),
           InitializeBlock(hooks)
    PROVE  CheckWeight(block'.used, tx.kind)
<1> DEFINE M == MAXIMUM_BLOCK_WEIGHT
           n == Percent(NORMAL_DISPATCH_RATIO, M)
           h == Percent(AVERAGE_ON_INITIALIZE_RATIO, M)
           k == tx.kind
           w == Call[k].weight
           class == Call[k].class
           used == block'.used
           E == ExtrinsicBaseWeight
           X == BlockExecutionWeight
<1>1. k \in Kinds
  BY DEF LedgerInv, Tx
<1>2. w \in Nat /\ class \in {"Normal", "Operational"}
  BY <1>1, CallAssumption
<1>3. M \in Nat /\ n \in Nat /\ h \in Nat /\ E \in Nat /\ X \in Nat /\ hooks \in Nat
  BY WeightAssumption, PercentFacts
<1>4. used["Normal"] = 0 /\ used["Operational"] = 0 /\ used["Mandatory"] = X + hooks
  BY DEF InitializeBlock, Classes
<1>5. w <= MaxExtrinsic(class) /\ X + h + (w + E) <= M /\ hooks <= h /\ ExtrinsicWeight(k) = w + E
  BY DEF ValidateTransaction, FitsBesideHooks, ExtrinsicWeight
<1>6. MaxTotal(class) \in Nat /\ MaxExtrinsic(class) = MaxTotal(class) - h - E
  BY <1>3 DEF MaxTotal, MaxExtrinsic
<1> HIDE DEF M, n, h, w, used, E, X
<1>7. used[class] = 0 /\ UsedInBlock(used) = X + hooks
  BY <1>2, <1>3, <1>4 DEF UsedInBlock
<1>8. used[class] + ExtrinsicWeight(k) <= MaxTotal(class)
  BY <1>2, <1>3, <1>5, <1>6, <1>7
<1>9. ~(UsedInBlock(used) + ExtrinsicWeight(k) > M)
  BY <1>2, <1>3, <1>5, <1>7
<1> QED
  BY <1>5, <1>8, <1>9 DEF CheckWeight, M, w, used

=============================================================================
