------------------------- MODULE XcmExecutionProofs -------------------------
(***************************************************************************)
(* Proofs about XcmExecution, for every existential deposit, fee and       *)
(* endowment, every set of messages and every number of them.              *)
(***************************************************************************)
EXTENDS XcmExecution, SequenceTheorems, DataInduction, TLAPS

-----------------------------------------------------------------------------
(* The messages.                                                           *)

\* The operands of an instruction, by its operation.
LEMMA Operands ==
    ASSUME NEW i \in Instr
    PROVE  /\ i.op \in {"WithdrawAsset", "ReserveAssetDeposited", "ReceiveTeleportedAsset",
                        "ClaimAsset"} \cup Transfers => i.amount \in Nat \ {0}
           /\ i.op \in Transfers \cup Deposits \cup Initiates => i.dest \in Origins
           /\ i.op = "BuyExecution" => i.fees \in Nat \ {0}
           /\ i.op \in {"SetAppendix", "SetErrorHandler"} => i.xcm \in Seq(Plain)
<1> USE DEF Transfers, Deposits, Initiates
<1>1. CASE i \in [op : {"WithdrawAsset", "ReserveAssetDeposited", "ReceiveTeleportedAsset",
                        "ClaimAsset"}, amount : Nat \ {0}]
  <2>1. /\ i.op \in {"WithdrawAsset", "ReserveAssetDeposited", "ReceiveTeleportedAsset", "ClaimAsset"}
        /\ i.amount \in Nat \ {0}
    BY <1>1
  <2> QED BY <2>1
<1>2. CASE i \in [op : {"BuyExecution"}, fees : Nat \ {0}, limit : Nat]
  <2>1. i.op = "BuyExecution" /\ i.fees \in Nat \ {0}
    BY <1>2
  <2> QED BY <2>1
<1>3. CASE i \in [op : {"ClearOrigin"}]
  <2>1. i.op = "ClearOrigin"
    BY <1>3
  <2> QED BY <2>1
<1>4. CASE i \in [op : {"TransferAsset", "TransferReserveAsset"}, amount : Nat \ {0}, dest : Origins]
  <2>1. i.op \in {"TransferAsset", "TransferReserveAsset"} /\ i.amount \in Nat \ {0} /\ i.dest \in Origins
    BY <1>4
  <2> QED BY <2>1
<1>5. CASE i \in [op : {"DepositAsset", "DepositReserveAsset", "InitiateReserveWithdraw",
                        "InitiateTeleport"}, dest : Origins]
  <2>1. /\ i.op \in {"DepositAsset", "DepositReserveAsset", "InitiateReserveWithdraw", "InitiateTeleport"}
        /\ i.dest \in Origins
    BY <1>5
  <2> QED BY <2>1
<1>6. CASE i \in [op : {"SetAppendix", "SetErrorHandler"}, xcm : Seq(Plain)]
  <2>1. i.op \in {"SetAppendix", "SetErrorHandler"} /\ i.xcm \in Seq(Plain)
    BY <1>6
  <2> QED BY <2>1
<1> QED
  BY <1>1, <1>2, <1>3, <1>4, <1>5, <1>6 DEF Instr, Plain

\* Nested programs are programs.
LEMMA PlainPrograms == Seq(Plain) \subseteq Seq(Instr)
<1> SUFFICES ASSUME NEW s \in Seq(Plain) PROVE s \in Seq(Instr)
  OBVIOUS
<1>1. Len(s) \in Nat /\ s \in [1..Len(s) -> Plain]
  BY LenProperties
<1>2. s \in [1..Len(s) -> Instr]
  BY <1>1 DEF Instr
<1> QED
  BY <1>1, <1>2, SeqDef

\* What is left of a program after its first instruction.
LEMMA TailFacts ==
    ASSUME NEW s \in Seq(Instr), s # << >>
    PROVE  /\ s[1] \in Instr /\ 1 \in DOMAIN s /\ DOMAIN s = 1..Len(s) /\ Len(s) \in Nat
           /\ Tail(s) \in Seq(Instr)
           /\ \A i \in DOMAIN Tail(s) : /\ i \in Nat \ {0} /\ i + 1 \in DOMAIN s
                                        /\ Tail(s)[i] = s[i + 1]
           /\ \A i \in DOMAIN s \ {1} : /\ i - 1 \in DOMAIN Tail(s) /\ i \in Nat
                                        /\ Tail(s)[i - 1] = s[i]
<1> DEFINE n == Len(s)
           t == Tail(s)
<1>1. n \in Nat \ {0} /\ DOMAIN s = 1..n /\ \A i \in 1..n : s[i] \in Instr
  BY EmptySeq, LenProperties
<1>2. t \in Seq(Instr) /\ Len(t) = n - 1 /\ \A i \in 1..Len(t) : t[i] = s[i + 1]
  BY HeadTailProperties
<1>3. DOMAIN t = 1..(n - 1)
  BY <1>2, LenProperties
<1> HIDE DEF n, t
<1>4. \A i \in DOMAIN t : i \in Nat \ {0} /\ i + 1 \in DOMAIN s /\ t[i] = s[i + 1]
  BY <1>1, <1>2, <1>3
<1>5. ASSUME NEW i \in DOMAIN s \ {1} PROVE i - 1 \in DOMAIN t /\ i \in Nat /\ t[i - 1] = s[i]
  <2>1. i - 1 \in 1..(n - 1) /\ (i - 1) + 1 = i
    BY <1>1
  <2> QED BY <1>1, <1>2, <1>3, <2>1
<1>6. s[1] \in Instr /\ 1 \in DOMAIN s /\ DOMAIN s = 1..Len(s) /\ Len(s) \in Nat
  BY <1>1 DEF n
<1> QED
  BY <1>2, <1>4, <1>5, <1>6 DEF t

\* Messages are programs, and no message is without weight.
LEMMA MessageFacts ==
    /\ \A m \in Messages : m \in Seq(Instr) /\ m # << >> /\ Weight(m) \in Nat \ {0}
    /\ LocalMessages \subseteq Seq(Instr)
<1>1. ASSUME NEW m \in Messages PROVE m \in Seq(Instr) /\ m # << >> /\ Weight(m) \in Nat \ {0}
  <2> DEFINE f == [i \in DOMAIN m |-> InstrWeight(m[i])]
  <2>1. m \in Seq(Instr) /\ m # << >>
    BY AmountsAssumption
  <2>2. 1 \in DOMAIN m /\ DOMAIN m = 1..Len(m) /\ Len(m) \in Nat /\ \A i \in DOMAIN m : m[i] \in Instr
    BY <2>1, TailFacts, LenProperties
  <2>3. ASSUME NEW i \in Instr PROVE InstrWeight(i) \in Nat \ {0}
    <3>1. CASE i.op \in {"SetAppendix", "SetErrorHandler"}
      <4>1. Len(i.xcm) \in Nat
        BY <3>1, Operands, LenProperties
      <4> QED BY <3>1, <4>1 DEF InstrWeight
    <3>2. CASE i.op \notin {"SetAppendix", "SetErrorHandler"}
      BY <3>2 DEF InstrWeight
    <3> QED BY <3>1, <3>2
  <2>4. f \in [DOMAIN m -> Nat] /\ f[1] > 0 /\ f[1] \in Nat /\ IsFiniteSet(DOMAIN m)
    <3>1. \A i \in DOMAIN m : InstrWeight(m[i]) \in Nat \ {0}
      BY <2>2, <2>3
    <3>2. f \in [DOMAIN m -> Nat] /\ f[1] \in Nat \ {0}
      BY <2>2, <3>1
    <3>3. IsFiniteSet(DOMAIN m)
      BY <2>2, FS_Interval
    <3> HIDE DEF f
    <3> QED BY <3>2, <3>3
  <2>5. SumFunction(f) \in Nat /\ f[1] <= SumFunction(f)
    <3> HIDE DEF f
    <3> QED BY <2>2, <2>4, SumBounds
  <2>6. SumFunction(f) \in Nat \ {0}
    <3> HIDE DEF f
    <3> QED BY <2>4, <2>5
  <2> QED BY <2>1, <2>6 DEF Weight
<1>2. ASSUME NEW m \in LocalMessages PROVE m \in Seq(Instr)
  <2> DEFINE w == [op |-> "WithdrawAsset", amount |-> LocalAmount]
  <2>1. PICK last \in [op : {"InitiateReserveWithdraw"}, dest : {"Parent"}]
                      \cup [op : {"InitiateTeleport"}, dest : {"Parent", "Sibling"}] :
          m = << w, last >>
    BY DEF LocalMessages
  <2>2. w \in Instr
    BY AmountsAssumption DEF Instr, Plain
  <2>3. last \in Instr
    BY DEF Instr, Plain, Origins
  <2> HIDE DEF w
  <2> QED BY <2>1, <2>2, <2>3
<1> QED
  BY <1>1, <1>2

-----------------------------------------------------------------------------
(* The executor's state.                                                   *)

Vm == [busy : BOOLEAN, original : Origins \cup {NoOrigin}, origin : Origins \cup {NoOrigin},
       code : Seq(Instr), handler : Seq(Plain), appendix : Seq(Plain),
       nested : BOOLEAN, surplus : BOOLEAN, holding : Nat, paid : Nat]
Traps == [origin : Origins, amount : Nat \ {0}, nr : 1..MaxMessages]

\* Balances of accounts that exist, with the existential deposit, or do not.
Ledgers == {b \in [Accounts -> Nat] : \A a \in Accounts : b[a] = 0 \/ b[a] >= EXISTENTIAL_DEPOSIT}

\* The message under way: its origin is the one it came with or none.  Nothing
\* is held between messages.
VmOK ==
    /\ vm \in Vm
    /\ vm.origin \in {vm.original, NoOrigin}
    /\ vm.busy => vm.original \in Origins /\ received \in 1..MaxMessages
    /\ ~vm.busy => vm.holding = 0 /\ vm.paid = 0 /\ vm.code = << >>

\* At most one trap per message, and none of the message under way.
TrapsOK ==
    /\ traps \in SUBSET Traps /\ IsFiniteSet(traps)
    /\ \A t \in traps : t.nr <= received /\ (vm.busy => t.nr < received)

CountersOK ==
    /\ received \in 0..MaxMessages
    /\ backed \in Nat /\ stray \in Nat /\ operations \in Nat
    /\ left \in [Initiates -> Nat]

ExecInv == balance \in Ledgers /\ CountersOK /\ VmOK /\ TrapsOK

\* The registers of the executor.
LEMMA VmFields ==
    ASSUME NEW v \in Vm
    PROVE  /\ v.busy \in BOOLEAN /\ v.original \in Origins \cup {NoOrigin}
           /\ v.origin \in Origins \cup {NoOrigin} /\ v.code \in Seq(Instr)
           /\ v.handler \in Seq(Plain) /\ v.appendix \in Seq(Plain)
           /\ v.nested \in BOOLEAN /\ v.surplus \in BOOLEAN /\ v.holding \in Nat /\ v.paid \in Nat
  BY DEF Vm

\* v is the executor's state for the same message.
SameMessage(v) ==
    v \in Vm /\ v.busy = vm.busy /\ v.original = vm.original /\ v.origin \in {vm.origin, NoOrigin}

\* v is the state after an instruction that is done, with h held and p paid.
Advanced(v, h, p) ==
    /\ SameMessage(v) /\ v.holding = h /\ v.paid = p
    /\ v.code = Tail(vm.code) /\ v.nested = vm.nested
    /\ v.handler = vm.handler /\ v.appendix = vm.appendix

\* v is the state after an instruction that failed, with h held.
FailedTo(v, h) ==
    /\ SameMessage(v) /\ v.holding = h /\ v.paid = vm.paid
    /\ v.nested = TRUE /\ v.code \in {vm.handler, vm.appendix}
    /\ v.handler \in {vm.handler, << >>} /\ v.appendix \in {vm.appendix, << >>}

\* v follows by an instruction that buys and sets nothing, with h held.
Follows(v, h) == Advanced(v, h, vm.paid) \/ FailedTo(v, h)

\* What is common to all actions that execute an instruction.
LEMMA Heading ==
    ASSUME ExecInv, Executing
    PROVE  /\ vm \in Vm /\ vm.code \in Seq(Instr) /\ vm.code # << >> /\ vm.busy
           /\ vm.code[1] \in Instr /\ vm.holding \in Nat /\ vm.paid \in Nat
           /\ vm.origin \in {vm.original, NoOrigin} /\ vm.original \in Origins
  BY VmFields, TailFacts DEF ExecInv, VmOK, Executing

\* An instruction that is done.
LEMMA AdvanceFacts ==
    ASSUME vm \in Vm, Executing
    PROVE  Advanced(Advance, vm.holding, vm.paid)
<1>1. Tail(vm.code) \in Seq(Instr) /\ vm.origin \in {vm.origin, NoOrigin}
  BY VmFields, TailFacts DEF Executing
<1> DEFINE v == Advance
<1>2. v \in Vm
  BY <1>1 DEF Vm, Advance
<1>3. /\ v.busy = vm.busy /\ v.original = vm.original /\ v.origin = vm.origin
      /\ v.code = Tail(vm.code) /\ v.holding = vm.holding /\ v.paid = vm.paid
      /\ v.nested = vm.nested /\ v.handler = vm.handler /\ v.appendix = vm.appendix
  BY DEF Vm, Advance
<1> HIDE DEF v
<1>4. Advanced(v, vm.holding, vm.paid)
  BY <1>1, <1>2, <1>3 DEF Advanced, SameMessage
<1> QED BY <1>4 DEF v

\* An instruction that failed.
LEMMA FailedFacts ==
    ASSUME vm \in Vm
    PROVE  FailedTo(Failed, vm.holding)
<1>1. vm.handler \in Seq(Instr) /\ vm.appendix \in Seq(Instr) /\ << >> \in Seq(Plain)
  BY VmFields, PlainPrograms
<1> DEFINE v == Failed
<1>2. CASE vm.handler # << >>
  <2>1. v = [vm EXCEPT !.code = vm.handler, !.handler = << >>, !.nested = TRUE, !.surplus = TRUE]
    BY <1>2 DEF Failed
  <2> HIDE DEF v
  <2>2. v \in Vm
    BY <1>1, <2>1 DEF Vm
  <2>3. /\ v.busy = vm.busy /\ v.original = vm.original /\ v.origin = vm.origin
        /\ v.holding = vm.holding /\ v.paid = vm.paid /\ v.nested = TRUE
        /\ v.code = vm.handler /\ v.handler = << >> /\ v.appendix = vm.appendix
    BY <2>1 DEF Vm
  <2>4. FailedTo(v, vm.holding)
    BY <2>2, <2>3 DEF FailedTo, SameMessage
  <2> QED BY <2>4 DEF v
<1>3. CASE ~(vm.handler # << >>)
  <2>1. v = [vm EXCEPT !.code = vm.appendix, !.appendix = << >>, !.nested = TRUE, !.surplus = TRUE]
    BY <1>3 DEF Failed
  <2> HIDE DEF v
  <2>2. v \in Vm
    BY <1>1, <2>1 DEF Vm
  <2>3. /\ v.busy = vm.busy /\ v.original = vm.original /\ v.origin = vm.origin
        /\ v.holding = vm.holding /\ v.paid = vm.paid /\ v.nested = TRUE
        /\ v.code = vm.appendix /\ v.handler = vm.handler /\ v.appendix = << >>
    BY <2>1 DEF Vm
  <2>4. FailedTo(v, vm.holding)
    BY <2>2, <2>3 DEF FailedTo, SameMessage
  <2> QED BY <2>4 DEF v
<1> QED
  BY <1>2, <1>3

\* The registers after a change of holding, fee or origin.
LEMMA RegisterFacts ==
    ASSUME NEW v, NEW c, NEW f, Advanced(v, c, f), NEW h \in Nat, NEW p \in Nat
    PROVE  /\ Advanced([v EXCEPT !.holding = h], h, f)
           /\ Advanced([v EXCEPT !.holding = h, !.paid = p], h, p)
           /\ Advanced([v EXCEPT !.origin = NoOrigin], c, f)
<1>1. v \in Vm
  BY DEF Advanced, SameMessage
<1>2. Advanced([v EXCEPT !.holding = h], h, f)
  <2> DEFINE w == [v EXCEPT !.holding = h]
  <2>1. /\ w \in Vm /\ w.busy = v.busy /\ w.original = v.original /\ w.origin = v.origin
        /\ w.code = v.code /\ w.holding = h /\ w.paid = v.paid
        /\ w.nested = v.nested /\ w.handler = v.handler /\ w.appendix = v.appendix
    BY <1>1 DEF Vm
  <2> HIDE DEF w
  <2>2. Advanced(w, h, f)
    BY <2>1 DEF Advanced, SameMessage
  <2> QED BY <2>2 DEF w
<1>3. Advanced([v EXCEPT !.holding = h, !.paid = p], h, p)
  <2> DEFINE w == [v EXCEPT !.holding = h, !.paid = p]
  <2>1. /\ w \in Vm /\ w.busy = v.busy /\ w.original = v.original /\ w.origin = v.origin
        /\ w.code = v.code /\ w.holding = h /\ w.paid = p
        /\ w.nested = v.nested /\ w.handler = v.handler /\ w.appendix = v.appendix
    BY <1>1 DEF Vm
  <2> HIDE DEF w
  <2>2. Advanced(w, h, p)
    BY <2>1 DEF Advanced, SameMessage
  <2> QED BY <2>2 DEF w
<1>4. Advanced([v EXCEPT !.origin = NoOrigin], c, f)
  <2> DEFINE w == [v EXCEPT !.origin = NoOrigin]
  <2>1. /\ w \in Vm /\ w.busy = v.busy /\ w.original = v.original /\ w.origin = NoOrigin
        /\ w.code = v.code /\ w.holding = v.holding /\ w.paid = v.paid
        /\ w.nested = v.nested /\ w.handler = v.handler /\ w.appendix = v.appendix
    BY <1>1 DEF Vm
  <2> HIDE DEF w
  <2>2. Advanced(w, c, f)
    BY <2>1 DEF Advanced, SameMessage
  <2> QED BY <2>2 DEF w
<1> QED
  BY <1>2, <1>3, <1>4

\* Holding changes after a failure too.
LEMMA FailedRegister ==
    ASSUME NEW v, NEW c, FailedTo(v, c), NEW h \in Nat
    PROVE  FailedTo([v EXCEPT !.holding = h], h)
<1>1. v \in Vm
  BY DEF FailedTo, SameMessage
<1> DEFINE w == [v EXCEPT !.holding = h]
<1>2. /\ w \in Vm /\ w.busy = v.busy /\ w.original = v.original /\ w.origin = v.origin
      /\ w.code = v.code /\ w.holding = h /\ w.paid = v.paid
      /\ w.nested = v.nested /\ w.handler = v.handler /\ w.appendix = v.appendix
  BY <1>1 DEF Vm
<1> HIDE DEF w
<1>3. FailedTo(w, h)
  BY <1>2 DEF FailedTo, SameMessage
<1> QED BY <1>3 DEF w

\* A deposit or a send that is done or fails leaves holding alone, or empties it.
LEMMA OutcomeFacts ==
    ASSUME vm \in Vm, Executing, NEW v \in {Advance, Failed}
    PROVE  Follows(v, vm.holding) /\ Follows([v EXCEPT !.holding = 0], 0)
<1>1. CASE v = Advance
  <2>1. Advanced(v, vm.holding, vm.paid) /\ 0 \in Nat
    BY <1>1, AdvanceFacts
  <2>2. Advanced([v EXCEPT !.holding = 0], 0, vm.paid)
    BY <2>1, RegisterFacts
  <2> QED BY <2>1, <2>2 DEF Follows
<1>2. CASE v = Failed
  <2>1. FailedTo(v, vm.holding)
    BY <1>2, FailedFacts
  <2>2. FailedTo([v EXCEPT !.holding = 0], 0)
    BY <2>1, FailedRegister
  <2> QED BY <2>1, <2>2 DEF Follows
<1> QED
  BY <1>1, <1>2

\* Those are the outcomes of deposits and sends.
LEMMA Outcomes ==
    ASSUME NEW i, NEW a
    PROVE  AfterDeposit(i, a) \subseteq {Advance, Failed} /\ AfterSend(i.dest) \subseteq {Advance, Failed}
<1>1. AfterSend(i.dest) \subseteq {Advance, Failed}
  BY DEF AfterSend
<1> QED
  BY <1>1 DEF AfterDeposit

-----------------------------------------------------------------------------
(* What the instructions do.                                               *)

\* Assets come into holding and the instruction is done.
LEMMA HoldFacts ==
    ASSUME ExecInv, Executing, NEW a \in Nat
    PROVE  Advanced(Hold(a), vm.holding + a, vm.paid)
<1>1. vm \in Vm /\ vm.holding + a \in Nat /\ vm.paid \in Nat
  BY Heading
<1> DEFINE adv == Advance
<1>2. Advanced(adv, vm.holding, vm.paid) /\ adv.holding = vm.holding
  BY <1>1, AdvanceFacts DEF Advanced
<1>3. Hold(a) = [adv EXCEPT !.holding = adv.holding + a]
  BY DEF Hold
<1> DEFINE h == vm.holding + a
<1>4. h \in Nat /\ Hold(a) = [adv EXCEPT !.holding = h]
  BY <1>1, <1>2, <1>3
<1> HIDE DEF adv, h
<1>5. Advanced([adv EXCEPT !.holding = h], h, vm.paid)
  BY <1>1, <1>2, <1>4, RegisterFacts
<1> QED
  BY <1>4, <1>5 DEF h

\* WithdrawAsset takes an amount that the origin's account has.
LEMMA WithdrawEffect ==
    ASSUME ExecInv, WithdrawAsset
    PROVE  \E a \in Nat : /\ vm.origin \in Accounts /\ balance[vm.origin] >= a
                          /\ balance' = Debit(balance, vm.origin, a)
                          /\ Follows(vm', vm.holding + a)
<1> DEFINE a == vm.code[1].amount
<1>1. /\ Executing /\ vm.code[1].op = "WithdrawAsset" /\ CanWithdraw(vm.origin, a)
      /\ vm' = Hold(a) /\ balance' = Debit(balance, vm.origin, a)
  BY DEF WithdrawAsset, Instruction, Succeeds
<1>2. a \in Nat
  BY <1>1, Heading, Operands
<1> HIDE DEF a
<1>3. Advanced(vm', vm.holding + a, vm.paid)
  BY <1>1, <1>2, HoldFacts
<1>4. vm.origin \in Accounts /\ balance[vm.origin] >= a
  BY <1>1 DEF CanWithdraw, HasAccount, Accounts
<1> QED
  BY <1>1, <1>2, <1>3, <1>4 DEF Follows

\* Only the relay chain brings assets in, and what it brings is backed there.
LEMMA ArriveEffect ==
    ASSUME ExecInv, AssetsArrive
    PROVE  \E a \in Nat : backed' = backed + a /\ Follows(vm', vm.holding + a)
<1> DEFINE a == vm.code[1].amount
<1>1. /\ Executing /\ vm.code[1].op = "ReserveAssetDeposited" /\ vm.origin = "Parent" /\ vm' = Hold(a)
  BY DEF AssetsArrive, Instruction, Succeeds, IsReserve, IsTeleporter
<1>2. a \in Nat
  BY <1>1, Heading, Operands
<1>3. vm.original = "Parent"
  BY <1>1, Heading DEF NoOrigin
<1>4. backed' = backed + a
  BY <1>1, <1>3 DEF AssetsArrive
<1> HIDE DEF a
<1>5. Advanced(vm', vm.holding + a, vm.paid)
  BY <1>1, <1>2, HoldFacts
<1> QED
  BY <1>2, <1>4, <1>5 DEF Follows

\* ClaimAsset moves the amount of one trap to holding.
LEMMA ClaimEffect ==
    ASSUME ExecInv, ClaimAsset
    PROVE  \E t \in traps : /\ traps' = traps \ {t} /\ t.amount \in Nat
                            /\ Follows(vm', vm.holding + t.amount)
<1> DEFINE a == vm.code[1].amount
<1>1. Executing /\ vm.code[1].op = "ClaimAsset" /\ vm' = Hold(a)
  BY DEF ClaimAsset, Instruction
<1>2. a \in Nat
  BY <1>1, Heading, Operands
<1>3. PICK t \in traps : traps' = traps \ {t} /\ t.amount = a
  BY DEF ClaimAsset, TrapsOf
<1> HIDE DEF a
<1>4. Advanced(vm', vm.holding + a, vm.paid)
  BY <1>1, <1>2, HoldFacts
<1> QED
  BY <1>2, <1>3, <1>4 DEF Follows

\* A transfer withdraws and deposits the same amount.
LEMMA TransferEffect ==
    ASSUME ExecInv, TransferAsset
    PROVE  \E a \in Nat, d \in Origins :
              /\ vm.origin \in Accounts /\ balance[vm.origin] >= a
              /\ balance' = Deposited(Debit(balance, vm.origin, a), d, a)
              /\ stray' = Stranded(d, a)
              /\ Follows(vm', vm.holding)
<1> DEFINE i == vm.code[1]
<1>1. /\ Executing /\ i.op \in Transfers /\ CanWithdraw(vm.origin, i.amount)
      /\ balance' = Deposited(Debit(balance, vm.origin, i.amount), i.dest, i.amount)
      /\ stray' = Stranded(i.dest, i.amount) /\ vm' \in AfterDeposit(i, i.amount)
  BY DEF TransferAsset, Instruction, Succeeds
<1>2. i.amount \in Nat /\ i.dest \in Origins /\ vm \in Vm
  BY <1>1, Heading, Operands
<1> HIDE DEF i
<1>3. Follows(vm', vm.holding)
  <2>1. vm' \in {Advance, Failed}
    BY <1>1, Outcomes
  <2> QED BY <1>1, <1>2, <2>1, OutcomeFacts
<1>4. vm.origin \in Accounts /\ balance[vm.origin] >= i.amount
  BY <1>1 DEF CanWithdraw, HasAccount, Accounts
<1> QED
  BY <1>1, <1>2, <1>3, <1>4

\* A deposit empties holding.
LEMMA DepositEffect ==
    ASSUME ExecInv, DepositAsset
    PROVE  \E d \in Origins : /\ balance' = Deposited(balance, d, vm.holding)
                              /\ stray' = Stranded(d, vm.holding)
                              /\ Follows(vm', 0)
<1> DEFINE i == vm.code[1]
<1>1. /\ Executing /\ i.op \in Deposits
      /\ balance' = Deposited(balance, i.dest, vm.holding) /\ stray' = Stranded(i.dest, vm.holding)
      /\ \E next \in AfterDeposit(i, vm.holding) : vm' = [next EXCEPT !.holding = 0]
  BY DEF DepositAsset, Instruction
<1>2. i.dest \in Origins /\ vm \in Vm
  BY <1>1, Heading, Operands
<1> HIDE DEF i
<1>3. Follows(vm', 0)
  <2>1. PICK next \in {Advance, Failed} : vm' = [next EXCEPT !.holding = 0]
    BY <1>1, Outcomes
  <2>2. Follows([next EXCEPT !.holding = 0], 0)
    BY <1>1, <1>2, OutcomeFacts
  <2> QED BY <2>1, <2>2
<1> QED
  BY <1>1, <1>2, <1>3

\* What InitiateReserveWithdraw and InitiateTeleport take off the chain was held.
LEMMA LeaveEffect ==
    ASSUME ExecInv, AssetsLeave
    PROVE  \E op \in Initiates : left' = [left EXCEPT ![op] = left[op] + vm.holding] /\ Follows(vm', 0)
<1> DEFINE i == vm.code[1]
<1>1. /\ Executing /\ i.op \in Initiates /\ left' = [left EXCEPT ![i.op] = left[i.op] + vm.holding]
      /\ \E next \in AfterSend(i.dest) : vm' = [next EXCEPT !.holding = 0]
  BY DEF AssetsLeave, Instruction
<1>2. vm \in Vm
  BY <1>1, Heading
<1> HIDE DEF i
<1>3. Follows(vm', 0)
  <2>1. PICK next \in {Advance, Failed} : vm' = [next EXCEPT !.holding = 0]
    BY <1>1, Outcomes
  <2>2. Follows([next EXCEPT !.holding = 0], 0)
    BY <1>1, <1>2, OutcomeFacts
  <2> QED BY <2>1, <2>2
<1> QED
  BY <1>1, <1>3

\* BuyExecution moves the fee out of holding, or loses what it was given.
LEMMA BuyEffect ==
    ASSUME ExecInv, BuyExecution
    PROVE  \/ /\ vm.holding - Fee \in Nat /\ vm.paid + Fee \in Nat /\ vm.paid + Fee > 0
              /\ Advanced(vm', vm.holding - Fee, vm.paid + Fee) /\ stray' = stray
           \/ \E f \in Nat : /\ vm.holding - f \in Nat /\ stray' = stray + f
                             /\ FailedTo(vm', vm.holding - f)
<1> DEFINE f == vm.code[1].fees
<1>1. /\ Executing /\ vm.code[1].op = "BuyExecution" /\ vm.holding >= f
      /\ \/ /\ f >= Fee /\ vm' = [Advance EXCEPT !.holding = @ - Fee, !.paid = @ + Fee]
            /\ stray' = stray
         \/ /\ f < Fee /\ vm' = [Failed EXCEPT !.holding = @ - f]
            /\ stray' = stray + f
  BY DEF BuyExecution, Instruction, Succeeds
<1>2. f \in Nat /\ vm \in Vm /\ vm.holding \in Nat /\ vm.paid \in Nat /\ Fee \in Nat \ {0}
  BY <1>1, Heading, Operands, AmountsAssumption
<1> HIDE DEF f
<1>3. CASE f >= Fee /\ vm' = [Advance EXCEPT !.holding = @ - Fee, !.paid = @ + Fee] /\ stray' = stray
  <2> DEFINE h == vm.holding - Fee
             p == vm.paid + Fee
             adv == Advance
  <2>1. h \in Nat /\ p \in Nat /\ p > 0
    BY <1>1, <1>2, <1>3
  <2>2. Advanced(adv, vm.holding, vm.paid) /\ adv.holding = vm.holding /\ adv.paid = vm.paid
    BY <1>1, <1>2, AdvanceFacts DEF Advanced
  <2>3. vm' = [adv EXCEPT !.holding = adv.holding - Fee, !.paid = adv.paid + Fee]
    BY <1>3
  <2>4. vm' = [adv EXCEPT !.holding = h, !.paid = p]
    BY <2>2, <2>3
  <2> HIDE DEF adv, h, p
  <2>5. Advanced(vm', h, p)
    BY <2>1, <2>2, <2>4, RegisterFacts
  <2> QED BY <1>3, <2>1, <2>5 DEF h, p
<1>4. CASE f < Fee /\ vm' = [Failed EXCEPT !.holding = @ - f] /\ stray' = stray + f
  <2> DEFINE h == vm.holding - f
             v == Failed
  <2>1. h \in Nat
    BY <1>1, <1>2
  <2>2. FailedTo(v, vm.holding) /\ v.holding = vm.holding
    BY <1>2, FailedFacts DEF FailedTo
  <2>3. vm' = [v EXCEPT !.holding = v.holding - f]
    BY <1>4
  <2>4. vm' = [v EXCEPT !.holding = h]
    BY <2>2, <2>3
  <2> HIDE DEF v, h
  <2>5. FailedTo(vm', h)
    BY <2>1, <2>2, <2>4, FailedRegister
  <2> QED BY <1>2, <1>4, <2>1, <2>5 DEF h
<1> QED
  BY <1>1, <1>3, <1>4

\* ClearOrigin leaves the registers alone.
LEMMA ClearEffect ==
    ASSUME ExecInv, ClearOrigin
    PROVE  Follows(vm', vm.holding)
<1>1. Executing
  BY DEF ClearOrigin, Instruction
<1>2. vm \in Vm
  BY <1>1, Heading
<1> DEFINE adv == Advance
<1>3. Advanced(adv, vm.holding, vm.paid)
  BY <1>1, <1>2, AdvanceFacts
<1>4. vm' = [adv EXCEPT !.origin = NoOrigin]
  BY DEF ClearOrigin
<1> HIDE DEF adv
<1>5. 0 \in Nat
  OBVIOUS
<1> QED
  BY <1>3, <1>4, <1>5, RegisterFacts DEF Follows

\* SetAppendix and SetErrorHandler move nothing.
LEMMA SetEffect ==
    ASSUME ExecInv, SetProgram
    PROVE  /\ Executing /\ vm.code[1].op \in {"SetAppendix", "SetErrorHandler"}
           /\ SameMessage(vm') /\ vm'.holding = vm.holding /\ vm'.paid = vm.paid
           /\ vm'.code = Tail(vm.code) /\ vm'.nested = vm.nested
<1> DEFINE i == vm.code[1]
           adv == Advance
<1>1. /\ Executing /\ i.op \in {"SetAppendix", "SetErrorHandler"}
      /\ \E s \in {adv.surplus \/ vm.appendix # << >>, adv.surplus \/ vm.handler # << >>} :
            \/ vm' = [adv EXCEPT !.appendix = i.xcm, !.surplus = s]
            \/ vm' = [adv EXCEPT !.handler = i.xcm, !.surplus = s]
  BY DEF SetProgram, Instruction
<1>2. i.xcm \in Seq(Plain) /\ vm \in Vm
  BY <1>1, Heading, Operands
<1>3. Advanced(adv, vm.holding, vm.paid)
  BY <1>1, <1>2, AdvanceFacts
<1>4. adv \in Vm /\ adv.surplus \in BOOLEAN
  BY <1>3, VmFields DEF Advanced, SameMessage
<1>5. \E s \in BOOLEAN : \/ vm' = [adv EXCEPT !.appendix = i.xcm, !.surplus = s]
                         \/ vm' = [adv EXCEPT !.handler = i.xcm, !.surplus = s]
  BY <1>1, <1>4
<1>6. PICK s \in BOOLEAN : \/ vm' = [adv EXCEPT !.appendix = i.xcm, !.surplus = s]
                           \/ vm' = [adv EXCEPT !.handler = i.xcm, !.surplus = s]
  BY <1>5
<1>7. Executing /\ i.op \in {"SetAppendix", "SetErrorHandler"}
  BY <1>1
<1> HIDE DEF i, adv
<1>8. /\ vm' \in Vm /\ vm'.busy = adv.busy /\ vm'.original = adv.original /\ vm'.origin = adv.origin
      /\ vm'.holding = adv.holding /\ vm'.paid = adv.paid /\ vm'.code = adv.code
      /\ vm'.nested = adv.nested
  <2>1. CASE vm' = [adv EXCEPT !.appendix = i.xcm, !.surplus = s]
    BY <1>2, <1>4, <2>1 DEF Vm
  <2>2. CASE vm' = [adv EXCEPT !.handler = i.xcm, !.surplus = s]
    BY <1>2, <1>4, <2>2 DEF Vm
  <2> QED BY <1>6, <2>1, <2>2
<1>9. /\ SameMessage(vm') /\ vm'.holding = vm.holding /\ vm'.paid = vm.paid
      /\ vm'.code = Tail(vm.code) /\ vm'.nested = vm.nested
  BY <1>3, <1>8 DEF Advanced, SameMessage
<1> QED
  BY <1>7, <1>9 DEF i

\* A failing instruction moves nothing.
LEMMA FailEffect ==
    ASSUME ExecInv, InstructionFails
    PROVE  Executing /\ FailedTo(vm', vm.holding)
<1>1. Executing /\ vm' = Failed
  BY DEF InstructionFails
<1>2. vm \in Vm
  BY <1>1, Heading
<1> QED
  BY <1>1, <1>2, FailedFacts

\* The appendix moves nothing when it starts.
LEMMA AppendixEffect ==
    ASSUME ExecInv, RunAppendix
    PROVE  /\ vm.busy /\ SameMessage(vm') /\ vm'.holding = vm.holding /\ vm'.paid = vm.paid
           /\ vm'.nested = TRUE /\ vm.appendix # << >>
<1> DEFINE s == vm.surplus \/ vm.handler # << >>
<1>1. /\ vm.busy /\ vm.appendix # << >> /\ vm \in Vm
      /\ vm' = [vm EXCEPT !.code = vm.appendix, !.appendix = << >>, !.handler = << >>,
                          !.nested = TRUE, !.surplus = s]
  BY DEF RunAppendix, ExecInv, VmOK
<1>2. vm.appendix \in Seq(Instr) /\ << >> \in Seq(Plain) /\ s \in BOOLEAN
  BY <1>1, VmFields, PlainPrograms
<1> HIDE DEF s
<1>3. /\ vm' \in Vm /\ vm'.busy = vm.busy /\ vm'.original = vm.original /\ vm'.origin = vm.origin
      /\ vm'.holding = vm.holding /\ vm'.paid = vm.paid /\ vm'.nested = TRUE
  BY <1>1, <1>2 DEF Vm
<1> QED
  BY <1>1, <1>3 DEF SameMessage

-----------------------------------------------------------------------------
(* The accounts.                                                           *)

\* There are finitely many accounts.
LEMMA AccountsFinite == IsFiniteSet(Accounts)
<1>1. IsFiniteSet({"Parent"}) /\ IsFiniteSet({"Sibling"}) /\ IsFiniteSet({"Local"})
      /\ IsFiniteSet({"Author"})
  BY FS_Singleton
<1>2. IsFiniteSet({"Parent"} \cup {"Sibling"}) /\ IsFiniteSet({"Local"} \cup {"Author"})
  BY <1>1, FS_Union
<1>3. IsFiniteSet(({"Parent"} \cup {"Sibling"}) \cup ({"Local"} \cup {"Author"}))
  BY <1>2, FS_Union
<1>4. Accounts = ({"Parent"} \cup {"Sibling"}) \cup ({"Local"} \cup {"Author"})
  BY DEF Accounts
<1> QED BY <1>3, <1>4

\* Changing one account changes what the accounts hold by as much.
LEMMA HeldUpdate ==
    ASSUME NEW b \in [Accounts -> Int], NEW a \in Accounts, NEW v \in Int
    PROVE  /\ SumFunction(b) \in Int
           /\ SumFunction([b EXCEPT ![a] = v]) = SumFunction(b) + v - b[a]
  BY AccountsFinite, SumUpdate

\* What an operation on an account may lose.
Dust == 0..(EXISTENTIAL_DEPOSIT - 1)

\* A new balance of one account that is zero or large enough.
LEMMA LedgerUpdate ==
    ASSUME NEW b \in Ledgers, NEW a \in Accounts, NEW v \in Nat, v = 0 \/ v >= EXISTENTIAL_DEPOSIT
    PROVE  /\ [b EXCEPT ![a] = v] \in Ledgers
           /\ SumFunction(b) \in Int /\ SumFunction([b EXCEPT ![a] = v]) \in Int
           /\ SumFunction([b EXCEPT ![a] = v]) = SumFunction(b) + v - b[a]
<1>1. b \in [Accounts -> Nat] /\ b \in [Accounts -> Int] /\ b[a] \in Int /\ v \in Int
  BY DEF Ledgers
<1>2. [b EXCEPT ![a] = v] \in Ledgers
  BY <1>1 DEF Ledgers
<1>3. /\ SumFunction(b) \in Int
      /\ SumFunction([b EXCEPT ![a] = v]) = SumFunction(b) + v - b[a]
  BY <1>1, HeldUpdate
<1> DEFINE s == SumFunction([b EXCEPT ![a] = v])
<1>4. s = SumFunction(b) + v - b[a]
  BY <1>3
<1> HIDE DEF s
<1>5. s \in Int
  BY <1>1, <1>3, <1>4
<1> QED
  BY <1>2, <1>3, <1>5 DEF s

\* A withdrawal takes the amount and at most the dust of the account.
LEMMA DebitFacts ==
    ASSUME NEW b \in Ledgers, NEW a \in Accounts, NEW x \in Nat, b[a] >= x
    PROVE  /\ Debit(b, a, x) \in Ledgers
           /\ SumFunction(b) \in Int /\ SumFunction(Debit(b, a, x)) \in Int
           /\ \E l \in Dust : SumFunction(Debit(b, a, x)) = SumFunction(b) - x - l
<1> DEFINE v == IF b[a] - x < EXISTENTIAL_DEPOSIT THEN 0 ELSE b[a] - x
           l == b[a] - x - v
<1>1. b \in [Accounts -> Nat] /\ b[a] \in Nat /\ EXISTENTIAL_DEPOSIT \in Nat \ {0}
  BY AmountsAssumption DEF Ledgers
<1>2. v \in Nat /\ (v = 0 \/ v >= EXISTENTIAL_DEPOSIT) /\ l \in Dust
  BY <1>1 DEF Dust
<1>3. Debit(b, a, x) = [b EXCEPT ![a] = v]
  BY DEF Debit
<1> HIDE DEF v
<1>4. /\ [b EXCEPT ![a] = v] \in Ledgers
      /\ SumFunction(b) \in Int /\ SumFunction([b EXCEPT ![a] = v]) \in Int
      /\ SumFunction([b EXCEPT ![a] = v]) = SumFunction(b) + v - b[a]
  BY <1>2, LedgerUpdate
<1>5. SumFunction(b) + v - b[a] = SumFunction(b) - x - l
  BY <1>1, <1>2, <1>4
<1> QED
  BY <1>2, <1>3, <1>4, <1>5

\* A deposit adds the amount, unless it is too little for a new account.
LEMMA CreditFacts ==
    ASSUME NEW b \in Ledgers, NEW a \in Accounts, NEW x \in Nat
    PROVE  /\ Credit(b, a, x) \in Ledgers
           /\ SumFunction(b) \in Int /\ SumFunction(Credit(b, a, x)) \in Int
           /\ \E l \in Dust : SumFunction(Credit(b, a, x)) = SumFunction(b) + x - l
<1> DEFINE v == IF b[a] = 0 /\ x < EXISTENTIAL_DEPOSIT THEN 0 ELSE b[a] + x
           l == b[a] + x - v
<1>1. /\ b \in [Accounts -> Nat] /\ b[a] \in Nat /\ EXISTENTIAL_DEPOSIT \in Nat \ {0}
      /\ b[a] = 0 \/ b[a] >= EXISTENTIAL_DEPOSIT
  BY AmountsAssumption DEF Ledgers
<1>2. v \in Nat /\ (v = 0 \/ v >= EXISTENTIAL_DEPOSIT) /\ l \in Dust
  BY <1>1 DEF Dust
<1>3. Credit(b, a, x) = [b EXCEPT ![a] = v]
  BY DEF Credit
<1> HIDE DEF v
<1>4. /\ [b EXCEPT ![a] = v] \in Ledgers
      /\ SumFunction(b) \in Int /\ SumFunction([b EXCEPT ![a] = v]) \in Int
      /\ SumFunction([b EXCEPT ![a] = v]) = SumFunction(b) + v - b[a]
  BY <1>2, LedgerUpdate
<1>5. SumFunction(b) + v - b[a] = SumFunction(b) + x - l
  BY <1>1, <1>2, <1>4
<1> QED
  BY <1>2, <1>3, <1>4, <1>5

\* A deposit anywhere: what no account got is stray.
LEMMA DepositedFacts ==
    ASSUME NEW b \in Ledgers, NEW d \in Origins, NEW x \in Nat, stray \in Nat
    PROVE  /\ Deposited(b, d, x) \in Ledgers /\ Stranded(d, x) \in Nat
           /\ SumFunction(b) \in Int /\ SumFunction(Deposited(b, d, x)) \in Int
           /\ \E l \in Dust : SumFunction(Deposited(b, d, x)) + Stranded(d, x)
                                = SumFunction(b) + stray + x - l
<1>0. EXISTENTIAL_DEPOSIT \in Nat \ {0} /\ 0 \in Dust
  BY AmountsAssumption DEF Dust
<1>1. CASE HasAccount(d)
  <2>1. d \in Accounts /\ Deposited(b, d, x) = Credit(b, d, x) /\ Stranded(d, x) = stray
    BY <1>1 DEF HasAccount, Accounts, Deposited, Stranded
  <2>2. PICK l \in Dust : SumFunction(Credit(b, d, x)) = SumFunction(b) + x - l
    BY <2>1, CreditFacts
  <2>3. /\ Credit(b, d, x) \in Ledgers /\ SumFunction(b) \in Int /\ SumFunction(Credit(b, d, x)) \in Int
    BY <2>1, CreditFacts
  <2>4. SumFunction(Credit(b, d, x)) + stray = SumFunction(b) + stray + x - l
    BY <1>0, <2>2, <2>3 DEF Dust
  <2> QED BY <2>1, <2>3, <2>4
<1>2. CASE ~HasAccount(d)
  <2>1. Deposited(b, d, x) = b /\ Stranded(d, x) = stray + x
    BY <1>2 DEF Deposited, Stranded
  <2>2. SumFunction(b) \in Int
    BY HeldUpdate, "Local" \in Accounts DEF Ledgers, Accounts
  <2>3. SumFunction(b) + (stray + x) = SumFunction(b) + stray + x - 0
    BY <2>2
  <2> QED BY <1>0, <2>1, <2>2, <2>3
<1> QED
  BY <1>1, <1>2

-----------------------------------------------------------------------------
(* Types.                                                                  *)

\* The executor's state and the traps after a step of the same message.
LEMMA SameMessageState ==
    ASSUME ExecInv, vm.busy, SameMessage(vm'), received' = received, traps' \in SUBSET traps
    PROVE  VmOK' /\ TrapsOK'
<1>1. /\ vm' \in Vm /\ vm'.busy = vm.busy /\ vm'.original = vm.original
      /\ vm'.origin \in {vm.origin, NoOrigin}
  BY DEF SameMessage
<1>2. VmOK'
  BY <1>1 DEF ExecInv, VmOK
<1>3. IsFiniteSet(traps')
  BY FS_Subset DEF ExecInv, TrapsOK
<1>4. TrapsOK'
  BY <1>1, <1>3 DEF ExecInv, TrapsOK
<1> QED
  BY <1>2, <1>4

\* An instruction that buys and sets nothing stays with the message.
LEMMA FollowsSame ==
    ASSUME NEW v, NEW h, Follows(v, h)
    PROVE  SameMessage(v) /\ v.holding = h /\ v.paid = vm.paid
  BY DEF Follows, Advanced, FailedTo

\* A message that starts.
LEMMA StartFacts ==
    ASSUME ExecInv, ~vm.busy, received < MaxMessages,
           NEW o \in Origins, NEW m \in Seq(Instr), NEW c, Start(o, m, c)
    PROVE  /\ ExecInv' /\ vm'.code = m /\ vm'.original = o /\ vm'.holding = 0 /\ vm'.paid = 0
           /\ vm'.handler = << >> /\ vm'.appendix = << >>
<1>1. /\ vm' = [IdleVm EXCEPT !.busy = TRUE, !.original = o, !.origin = o, !.code = m]
      /\ received' = received + 1 /\ UNCHANGED <<balance, traps, backed, left, stray, operations>>
  BY DEF Start
<1>2. /\ vm' \in Vm /\ vm'.busy = TRUE /\ vm'.original = o /\ vm'.origin = o
      /\ vm'.code = m /\ vm'.holding = 0 /\ vm'.paid = 0
      /\ vm'.handler = << >> /\ vm'.appendix = << >>
  <2>1. IdleVm \in Vm
    BY DEF IdleVm, Vm
  <2>2. IdleVm.holding = 0 /\ IdleVm.paid = 0 /\ IdleVm.handler = << >> /\ IdleVm.appendix = << >>
    BY DEF IdleVm
  <2>3. /\ vm' \in Vm /\ vm'.busy = TRUE /\ vm'.original = o /\ vm'.origin = o /\ vm'.code = m
        /\ vm'.holding = IdleVm.holding /\ vm'.paid = IdleVm.paid
        /\ vm'.handler = IdleVm.handler /\ vm'.appendix = IdleVm.appendix
    BY <1>1, <2>1 DEF Vm
  <2> QED BY <2>2, <2>3
<1>3. received \in 0..MaxMessages /\ received' \in 1..MaxMessages /\ received' \in 0..MaxMessages
  BY <1>1, AmountsAssumption DEF ExecInv, CountersOK
<1>4. VmOK'
  BY <1>2, <1>3 DEF VmOK
<1>5. \A t \in traps : t.nr <= received' /\ t.nr < received'
  <2> SUFFICES ASSUME NEW t \in traps PROVE t.nr <= received' /\ t.nr < received'
    OBVIOUS
  <2>1. t.nr \in 1..MaxMessages /\ t.nr <= received
    BY DEF ExecInv, TrapsOK, Traps
  <2> QED BY <1>1, <1>3, <2>1
<1>6. TrapsOK'
  BY <1>1, <1>5 DEF ExecInv, TrapsOK
<1>7. balance' \in Ledgers /\ CountersOK'
  BY <1>1, <1>3 DEF ExecInv, CountersOK
<1> QED
  BY <1>2, <1>4, <1>6, <1>7 DEF ExecInv

\* The end of a message: a trap of its own for what is left in holding.
LEMMA FinishFacts ==
    ASSUME ExecInv, Finish
    PROVE  /\ VmOK' /\ TrapsOK' /\ vm' = IdleVm
           /\ \E r \in 0..vm.paid :
                /\ vm.paid - r \in Nat /\ vm.holding + r \in Nat
                /\ balance' = Credit(balance, "Author", vm.paid - r)
                /\ vm.holding + r = 0 => traps' = traps
                /\ vm.holding + r # 0 => \E t \in Traps : /\ t \notin traps /\ t.amount = vm.holding + r
                                                          /\ traps' = traps \cup {t}
<1>1. /\ vm \in Vm /\ vm.busy /\ vm.original \in Origins /\ received \in 1..MaxMessages
      /\ vm.holding \in Nat /\ vm.paid \in Nat
  BY VmFields DEF ExecInv, VmOK, Finish
<1>2. vm' = IdleVm /\ received' = received
  BY DEF Finish
<1>3. /\ IdleVm \in Vm /\ ~IdleVm.busy /\ IdleVm.origin = NoOrigin /\ IdleVm.original = NoOrigin
      /\ IdleVm.holding = 0 /\ IdleVm.paid = 0 /\ IdleVm.code = << >>
  BY DEF IdleVm, Vm
<1>4. VmOK'
  BY <1>2, <1>3 DEF VmOK
<1>5. /\ traps \in SUBSET Traps /\ IsFiniteSet(traps)
      /\ \A t \in traps : t.nr <= received /\ t.nr < received
  BY <1>1 DEF ExecInv, TrapsOK
<1>6. Refunds \subseteq 0..vm.paid
  BY <1>1 DEF Refunds
<1>7. PICK r \in 0..vm.paid : /\ balance' = Credit(balance, "Author", vm.paid - r)
                              /\ traps' = TrapHolding(vm.original, vm.holding + r)
  BY <1>6 DEF Finish
<1> DEFINE h == vm.holding + r
<1>8. h \in Nat /\ vm.paid - r \in Nat
  BY <1>1
<1>9. traps' = TrapHolding(vm.original, h)
  BY <1>7
<1>10. /\ TrapsOK'
       /\ h = 0 => traps' = traps
       /\ h # 0 => \E t \in Traps : t \notin traps /\ t.amount = h /\ traps' = traps \cup {t}
  <2> HIDE DEF h
  <2>1. CASE h = 0
    <3>1. traps' = traps
      BY <1>9, <2>1 DEF TrapHolding
    <3>2. TrapsOK'
      BY <1>2, <1>3, <1>5, <3>1 DEF TrapsOK
    <3> QED BY <2>1, <3>1, <3>2
  <2>2. CASE h # 0
    <3> DEFINE new == [origin |-> vm.original, amount |-> h, nr |-> received]
    <3>1. new \in Traps /\ new.nr = received /\ new.amount = h
      BY <1>1, <1>8, <2>2 DEF Traps
    <3>2. traps' = traps \cup {new}
      BY <1>9, <2>2 DEF TrapHolding
    <3> HIDE DEF new
    <3>3. new \notin traps /\ received <= received
      BY <1>1, <1>5, <3>1
    <3>4. IsFiniteSet(traps')
      BY <1>5, <3>2, FS_AddElement
    <3>5. TrapsOK'
      BY <1>2, <1>3, <1>5, <3>1, <3>2, <3>3, <3>4 DEF TrapsOK
    <3> QED BY <2>2, <3>1, <3>2, <3>3, <3>5
  <2> QED BY <2>1, <2>2
<1> QED
  BY <1>2, <1>4, <1>7, <1>8, <1>10

\* No message has been taken at first.
LEMMA InitExecInv == Init => ExecInv
<1> SUFFICES ASSUME Init PROVE ExecInv
  OBVIOUS
<1>1. balance \in Ledgers
  BY AmountsAssumption DEF Init, Ledgers
<1>2. CountersOK
  BY AmountsAssumption DEF Init, CountersOK
<1>3. /\ IdleVm \in Vm /\ ~IdleVm.busy /\ IdleVm.origin = NoOrigin
      /\ IdleVm.holding = 0 /\ IdleVm.paid = 0 /\ IdleVm.code = << >>
  BY DEF IdleVm, Vm
<1>4. VmOK
  BY <1>3 DEF Init, VmOK
<1>5. TrapsOK
  BY FS_EmptySet DEF Init, TrapsOK
<1> QED
  BY <1>1, <1>2, <1>4, <1>5 DEF ExecInv

\* Every step keeps the balances, registers and traps in their ranges.
LEMMA NextExecInv == ExecInv /\ [Next]_vars => ExecInv'
<1> SUFFICES ASSUME ExecInv, [Next]_vars PROVE ExecInv'
  OBVIOUS
<1>0. /\ balance \in Ledgers /\ left \in [Initiates -> Nat]
      /\ backed \in Nat /\ stray \in Nat /\ operations \in Nat
  BY DEF ExecInv, CountersOK
<1>1. CASE Receive
  <2>1. PICK o \in Origins \ {"Local"}, m \in Messages : Start(o, m, 0)
    BY <1>1 DEF Receive
  <2>2. m \in Seq(Instr) /\ ~vm.busy /\ received < MaxMessages
    BY <1>1, MessageFacts DEF Receive, Ready
  <2> QED BY <2>1, <2>2, StartFacts
<1>2. CASE ExecuteLocal
  <2>1. PICK m \in LocalMessages : Start("Local", m, Weight(m))
    BY <1>2 DEF ExecuteLocal, LocalOriginToLocation
  <2>2. m \in Seq(Instr) /\ ~vm.busy /\ received < MaxMessages /\ "Local" \in Origins
    BY <1>2, MessageFacts DEF ExecuteLocal, Ready, Origins
  <2> QED BY <2>1, <2>2, StartFacts
<1>3. CASE WithdrawAsset
  <2>1. vm.busy /\ UNCHANGED <<traps, received, backed, left, stray>> /\ operations' = operations + 1
    BY <1>3 DEF WithdrawAsset, Instruction, Executing
  <2>2. PICK a \in Nat : /\ vm.origin \in Accounts /\ balance[vm.origin] >= a
                         /\ balance' = Debit(balance, vm.origin, a) /\ Follows(vm', vm.holding + a)
    BY <1>3, WithdrawEffect
  <2>3. VmOK' /\ TrapsOK'
    BY <2>1, <2>2, FollowsSame, SameMessageState
  <2>4. balance' \in Ledgers
    BY <1>0, <2>2, DebitFacts
  <2> QED BY <1>0, <2>1, <2>3, <2>4 DEF ExecInv, CountersOK
<1>4. CASE AssetsArrive
  <2>1. vm.busy /\ UNCHANGED <<balance, traps, received, left, stray, operations>>
    BY <1>4 DEF AssetsArrive, Instruction, Executing
  <2>2. PICK a \in Nat : backed' = backed + a /\ Follows(vm', vm.holding + a)
    BY <1>4, ArriveEffect
  <2>3. VmOK' /\ TrapsOK'
    BY <2>1, <2>2, FollowsSame, SameMessageState
  <2> QED BY <1>0, <2>1, <2>2, <2>3 DEF ExecInv, CountersOK
<1>5. CASE ClaimAsset
  <2>1. vm.busy /\ UNCHANGED <<balance, received, backed, left, stray, operations>>
    BY <1>5 DEF ClaimAsset, Instruction, Executing
  <2>2. PICK t \in traps : traps' = traps \ {t} /\ Follows(vm', vm.holding + t.amount)
    BY <1>5, ClaimEffect
  <2>3. VmOK' /\ TrapsOK'
    <3>1. SameMessage(vm') /\ traps' \in SUBSET traps
      BY <2>2, FollowsSame
    <3> QED BY <2>1, <3>1, SameMessageState
  <2> QED BY <2>1, <2>3 DEF ExecInv, CountersOK
<1>6. CASE TransferAsset
  <2>1. vm.busy /\ UNCHANGED <<traps, received, backed, left>> /\ operations' = operations + 2
    BY <1>6 DEF TransferAsset, Instruction, Executing
  <2>2. PICK a \in Nat, d \in Origins :
          /\ vm.origin \in Accounts /\ balance[vm.origin] >= a
          /\ balance' = Deposited(Debit(balance, vm.origin, a), d, a)
          /\ stray' = Stranded(d, a) /\ Follows(vm', vm.holding)
    BY <1>6, TransferEffect
  <2>3. VmOK' /\ TrapsOK'
    BY <2>1, <2>2, FollowsSame, SameMessageState
  <2>4. Debit(balance, vm.origin, a) \in Ledgers
    BY <1>0, <2>2, DebitFacts
  <2>5. balance' \in Ledgers /\ stray' \in Nat
    BY <1>0, <2>2, <2>4, DepositedFacts
  <2> QED BY <1>0, <2>1, <2>3, <2>5 DEF ExecInv, CountersOK
<1>7. CASE DepositAsset
  <2>1. vm.busy /\ UNCHANGED <<traps, received, backed, left>> /\ operations' = operations + 1
    BY <1>7 DEF DepositAsset, Instruction, Executing
  <2>2. PICK d \in Origins : /\ balance' = Deposited(balance, d, vm.holding)
                             /\ stray' = Stranded(d, vm.holding) /\ Follows(vm', 0)
    BY <1>7, DepositEffect
  <2>3. VmOK' /\ TrapsOK'
    BY <2>1, <2>2, FollowsSame, SameMessageState
  <2>4. vm.holding \in Nat
    BY VmFields DEF ExecInv, VmOK
  <2>5. balance' \in Ledgers /\ stray' \in Nat
    BY <1>0, <2>2, <2>4, DepositedFacts
  <2> QED BY <1>0, <2>1, <2>3, <2>5 DEF ExecInv, CountersOK
<1>8. CASE AssetsLeave
  <2>1. vm.busy /\ UNCHANGED <<balance, traps, received, backed, stray, operations>>
    BY <1>8 DEF AssetsLeave, Instruction, Executing
  <2>2. PICK op \in Initiates : /\ left' = [left EXCEPT ![op] = left[op] + vm.holding]
                                /\ Follows(vm', 0)
    BY <1>8, LeaveEffect
  <2>3. VmOK' /\ TrapsOK'
    BY <2>1, <2>2, FollowsSame, SameMessageState
  <2>4. vm.holding \in Nat
    BY VmFields DEF ExecInv, VmOK
  <2>5. left' \in [Initiates -> Nat]
    BY <1>0, <2>2, <2>4
  <2> QED BY <2>1, <2>3, <2>5 DEF ExecInv, CountersOK
<1>9. CASE BuyExecution
  <2>1. vm.busy /\ UNCHANGED <<balance, traps, received, backed, left, operations>>
    BY <1>9 DEF BuyExecution, Instruction, Executing
  <2>2. SameMessage(vm') /\ stray' \in Nat
    <3>1. CASE \E h, p : Advanced(vm', h, p) /\ stray' = stray
      BY <1>0, <3>1 DEF Advanced
    <3>2. CASE \E f \in Nat : stray' = stray + f /\ FailedTo(vm', vm.holding - f)
      BY <1>0, <3>2 DEF FailedTo
    <3> QED BY <1>9, <3>1, <3>2, BuyEffect
  <2>3. VmOK' /\ TrapsOK'
    BY <2>1, <2>2, SameMessageState
  <2> QED BY <2>1, <2>2, <2>3 DEF ExecInv, CountersOK
<1>10. CASE ClearOrigin
  <2>1. vm.busy /\ UNCHANGED <<balance, traps, received, backed, left, stray, operations>>
    BY <1>10 DEF ClearOrigin, Instruction, Executing
  <2>2. VmOK' /\ TrapsOK'
    BY <1>10, <2>1, ClearEffect, FollowsSame, SameMessageState
  <2> QED BY <2>1, <2>2 DEF ExecInv, CountersOK
<1>11. CASE SetProgram
  <2>1. UNCHANGED <<balance, traps, received, backed, left, stray, operations>>
    BY <1>11 DEF SetProgram
  <2>2. vm.busy /\ SameMessage(vm')
    BY <1>11, SetEffect DEF Executing
  <2>3. VmOK' /\ TrapsOK'
    BY <2>1, <2>2, SameMessageState
  <2> QED BY <2>1, <2>3 DEF ExecInv, CountersOK
<1>12. CASE InstructionFails
  <2>1. UNCHANGED <<balance, traps, received, backed, left, stray, operations>>
    BY <1>12 DEF InstructionFails
  <2>2. vm.busy /\ SameMessage(vm')
    BY <1>12, FailEffect DEF Executing, FailedTo
  <2>3. VmOK' /\ TrapsOK'
    BY <2>1, <2>2, SameMessageState
  <2> QED BY <2>1, <2>3 DEF ExecInv, CountersOK
<1>13. CASE RunAppendix
  <2>1. UNCHANGED <<balance, traps, received, backed, left, stray, operations>>
    BY <1>13 DEF RunAppendix
  <2>2. vm.busy /\ SameMessage(vm')
    BY <1>13, AppendixEffect
  <2>3. VmOK' /\ TrapsOK'
    BY <2>1, <2>2, SameMessageState
  <2> QED BY <2>1, <2>3 DEF ExecInv, CountersOK
<1>14. CASE Finish
  <2>1. UNCHANGED <<received, backed, left, stray>> /\ operations' = operations + 1
    BY <1>14 DEF Finish
  <2>2. VmOK' /\ TrapsOK'
    BY <1>14, FinishFacts
  <2>3. PICK p \in Nat : balance' = Credit(balance, "Author", p)
    BY <1>14, FinishFacts
  <2>4. "Author" \in Accounts
    BY DEF Accounts
  <2>5. balance' \in Ledgers
    BY <1>0, <2>3, <2>4, CreditFacts
  <2> QED BY <1>0, <2>1, <2>2, <2>5 DEF ExecInv, CountersOK
<1>15. CASE UNCHANGED vars
  BY <1>15 DEF vars, ExecInv, CountersOK, VmOK, TrapsOK
<1> QED
  BY <1>1, <1>2, <1>3, <1>4, <1>5, <1>6, <1>7, <1>8, <1>9, <1>10, <1>11, <1>12, <1>13, <1>14, <1>15
  DEF Next, Done

\* No message, complete or cut short at any instruction, leaves an account with
\* less than the existential deposit, or holding or the fee below zero.
THEOREM TypeCorrect == Spec => []TypeOK
<1>1. ExecInv => TypeOK
  <2> SUFFICES ASSUME ExecInv PROVE TypeOK
    OBVIOUS
  <2>1. \A t \in traps : t.origin \in Origins /\ t.amount \in Nat \ {0} /\ t.nr \in 1..MaxMessages
    BY DEF ExecInv, TrapsOK, Traps
  <2>2. /\ vm.holding \in Nat /\ vm.paid \in Nat
        /\ vm.origin \in {vm.original, NoOrigin} /\ vm.original \in Origins \cup {NoOrigin}
    BY VmFields DEF ExecInv, VmOK
  <2>3. /\ DOMAIN balance = Accounts
        /\ \A a \in Accounts : /\ balance[a] \in Nat
                               /\ balance[a] = 0 \/ balance[a] >= EXISTENTIAL_DEPOSIT
    BY DEF ExecInv, Ledgers
  <2> QED BY <2>1, <2>2, <2>3 DEF ExecInv, CountersOK, TypeOK
<1> QED
  BY <1>1, InitExecInv, NextExecInv, PTL DEF Spec

-----------------------------------------------------------------------------
(* What runs has passed the barrier.                                       *)

Moves == Transfers \cup Deposits \cup Initiates
Setters == {"SetAppendix", "SetErrorHandler"}

\* Every instruction of code that moves assets or sets a program comes after a
\* BuyExecution.
BuysFirst(code) ==
    \A i \in DOMAIN code :
        code[i].op \in Moves \cup Setters =>
            \E j \in DOMAIN code : j < i /\ code[j].op = "BuyExecution"

\* What is left of the message itself passes the deny filter.  The message is
\* paid for, may run for free, or buys before it moves anything, and until then
\* there is no other program to run.
CodeInv ==
    /\ vm.nested \/ DenyReserveTransferToRelayChain(vm.code)
    /\ \/ vm.paid > 0
       \/ vm.original \in {"Parent", "ParentExecutive", "Local"}
       \/ BuysFirst(vm.code) /\ vm.handler = << >> /\ vm.appendix = << >>

\* Both filters are kept by the rest of a program.
LEMMA RestOfCode ==
    ASSUME NEW s \in Seq(Instr), s # << >>
    PROVE  /\ DenyReserveTransferToRelayChain(s) => DenyReserveTransferToRelayChain(Tail(s))
           /\ BuysFirst(s) /\ s[1].op # "BuyExecution" => BuysFirst(Tail(s))
           /\ BuysFirst(s) => s[1].op \notin Moves \cup Setters
<1> DEFINE t == Tail(s)
<1>1. /\ \A i \in DOMAIN t : i \in Nat \ {0} /\ i + 1 \in DOMAIN s /\ t[i] = s[i + 1]
      /\ \A i \in DOMAIN s \ {1} : i - 1 \in DOMAIN t /\ i \in Nat /\ t[i - 1] = s[i]
  BY TailFacts
<1> HIDE DEF t
<1>2. ASSUME DenyReserveTransferToRelayChain(s) PROVE DenyReserveTransferToRelayChain(t)
  BY <1>1, <1>2 DEF DenyReserveTransferToRelayChain
<1>3. ASSUME BuysFirst(s), s[1].op # "BuyExecution" PROVE BuysFirst(t)
  <2> SUFFICES ASSUME NEW i \in DOMAIN t, t[i].op \in Moves \cup Setters
               PROVE  \E j \in DOMAIN t : j < i /\ t[j].op = "BuyExecution"
    BY DEF BuysFirst
  <2>1. i \in Nat /\ i + 1 \in DOMAIN s /\ s[i + 1].op \in Moves \cup Setters
    BY <1>1
  <2>2. PICK j \in DOMAIN s : j < i + 1 /\ s[j].op = "BuyExecution"
    BY <1>3, <2>1 DEF BuysFirst
  <2>3. j \in DOMAIN s \ {1}
    BY <1>3, <2>2
  <2>4. j - 1 \in DOMAIN t /\ t[j - 1].op = "BuyExecution" /\ j \in Nat
    BY <1>1, <2>2, <2>3
  <2>5. j - 1 < i
    BY <2>1, <2>2, <2>4
  <2> QED BY <2>4, <2>5
<1>4. ASSUME BuysFirst(s), s[1].op \in Moves \cup Setters PROVE FALSE
  <2>1. 1 \in DOMAIN s /\ DOMAIN s = 1..Len(s) /\ Len(s) \in Nat
    BY TailFacts
  <2>2. PICK j \in DOMAIN s : j < 1
    BY <1>4, <2>1 DEF BuysFirst
  <2> QED BY <2>1, <2>2
<1> QED
  BY <1>2, <1>3, <1>4 DEF t

\* An instruction that fails keeps the code invariant: nothing comes after it
\* unless execution is paid or free.
LEMMA CodeFails ==
    ASSUME CodeInv, NEW h, FailedTo(vm', h)
    PROVE  CodeInv'
<1>1. /\ vm'.nested /\ vm'.paid = vm.paid /\ vm'.original = vm.original
      /\ vm'.code \in {vm.handler, vm.appendix}
      /\ vm'.handler \in {vm.handler, << >>} /\ vm'.appendix \in {vm.appendix, << >>}
  BY DEF FailedTo, SameMessage
<1>2. CASE vm.handler = << >> /\ vm.appendix = << >>
  <2>1. vm'.code = << >> /\ vm'.handler = << >> /\ vm'.appendix = << >>
    BY <1>1, <1>2
  <2>2. BuysFirst(vm'.code)
    BY <2>1 DEF BuysFirst
  <2> QED BY <1>1, <2>1, <2>2 DEF CodeInv
<1> QED
  BY <1>1, <1>2 DEF CodeInv

\* An instruction other than BuyExecution that buys and sets nothing keeps it.
LEMMA CodeFollows ==
    ASSUME ExecInv, CodeInv, Executing, NEW h, Follows(vm', h), vm.code[1].op # "BuyExecution"
    PROVE  CodeInv'
<1>1. CASE FailedTo(vm', h)
  BY <1>1, CodeFails
<1>2. CASE Advanced(vm', h, vm.paid)
  <2>1. /\ vm'.code = Tail(vm.code) /\ vm'.nested = vm.nested /\ vm'.paid = vm.paid
        /\ vm'.original = vm.original /\ vm'.handler = vm.handler /\ vm'.appendix = vm.appendix
    BY <1>2 DEF Advanced, SameMessage
  <2>2. vm.code \in Seq(Instr) /\ vm.code # << >>
    BY Heading
  <2> QED BY <2>1, <2>2, RestOfCode DEF CodeInv
<1> QED
  BY <1>1, <1>2 DEF Follows

\* The barrier lets a message of another chain run only if it pays first or
\* comes from the relay chain.
LEMMA ReceivedCode ==
    ASSUME ExecInv, Receive
    PROVE  CodeInv'
<1>1. PICK o \in Origins \ {"Local"}, m \in Messages : Start(o, m, 0)
  BY DEF Receive
<1>2. /\ m \in Seq(Instr) /\ m # << >> /\ Weight(m) \in Nat \ {0}
      /\ ~vm.busy /\ received < MaxMessages
  BY MessageFacts DEF Receive, Ready
<1>3. vm'.code = m /\ vm'.original = o /\ vm'.handler = << >> /\ vm'.appendix = << >>
  BY <1>1, <1>2, StartFacts
<1>4. DenyReserveTransferToRelayChain(m) /\ Allow(o, m, 0)
  BY <1>1 DEF Start, Barrier
<1>5. AllowTopLevelPaidExecution(m) \/ o \in {"Parent", "ParentExecutive"}
  <2>1. ~TakeWeightCredit(m, 0)
    <3> DEFINE w == Weight(m)
    <3>1. w \in Nat \ {0}
      BY <1>2
    <3> HIDE DEF w
    <3>3. ~(0 >= w)
      BY <3>1
    <3> QED BY <3>3 DEF TakeWeightCredit, w
  <2> QED BY <1>4, <2>1 DEF Allow, AllowUnpaidExecution, ParentOrParentsExecutivePlurality
<1>6. ASSUME AllowTopLevelPaidExecution(m) PROVE BuysFirst(m)
  <2> USE DEF Moves, Setters, Transfers, Deposits, Initiates
  <2>0. DOMAIN m = 1..Len(m) /\ Len(m) \in Nat
    BY <1>2, TailFacts
  <2>1. m[1].op \notin Moves \cup Setters
    BY <1>6 DEF AllowTopLevelPaidExecution
  <2>2. PICK i \in 2..Len(m) : /\ \A j \in 2..(i - 1) : m[j].op = "ClearOrigin"
                               /\ m[i].op = "BuyExecution"
    BY <1>6 DEF AllowTopLevelPaidExecution
  <2>3. ASSUME NEW k \in DOMAIN m, m[k].op \in Moves \cup Setters PROVE i < k
    <3>1. k \in 1..Len(m) /\ k # 1 /\ k # i /\ ~(k \in 2..(i - 1))
      BY <2>0, <2>1, <2>2, <2>3
    <3> QED BY <2>0, <3>1
  <2>4. i \in DOMAIN m
    BY <2>0
  <2> QED BY <2>2, <2>3, <2>4 DEF BuysFirst
<1> QED
  BY <1>3, <1>4, <1>5, <1>6 DEF CodeInv

\* The local pallets' messages run for free, past the same filter.
LEMMA LocalCode ==
    ASSUME ExecInv, ExecuteLocal
    PROVE  CodeInv'
<1>1. PICK m \in LocalMessages : Start("Local", m, Weight(m))
  BY DEF ExecuteLocal, LocalOriginToLocation
<1>2. m \in Seq(Instr) /\ ~vm.busy /\ received < MaxMessages /\ "Local" \in Origins
  BY MessageFacts DEF ExecuteLocal, Ready, Origins
<1>3. vm'.code = m /\ vm'.original = "Local"
  BY <1>1, <1>2, StartFacts
<1>4. DenyReserveTransferToRelayChain(m)
  BY <1>1 DEF Start, Barrier
<1> QED
  BY <1>3, <1>4 DEF CodeInv

\* An idle executor has no code.
LEMMA IdleCode == ASSUME vm = IdleVm PROVE CodeInv
<1>1. vm.code = << >> /\ vm.handler = << >> /\ vm.appendix = << >>
  BY DEF IdleVm
<1> QED
  BY <1>1 DEF CodeInv, DenyReserveTransferToRelayChain, BuysFirst

\* Every step keeps the code invariant.
LEMMA NextCodeInv == ExecInv /\ CodeInv /\ [Next]_vars => CodeInv'
<1> SUFFICES ASSUME ExecInv, CodeInv, [Next]_vars PROVE CodeInv'
  OBVIOUS
<1>1. CASE Receive
  BY <1>1, ReceivedCode
<1>2. CASE ExecuteLocal
  BY <1>2, LocalCode
<1>3. ASSUME Executing, vm.code[1].op # "BuyExecution", \E h : Follows(vm', h) PROVE CodeInv'
  BY <1>3, CodeFollows
<1>4. CASE WithdrawAsset
  <2>1. Executing /\ vm.code[1].op # "BuyExecution"
    BY <1>4 DEF WithdrawAsset, Instruction
  <2> QED BY <1>3, <1>4, <2>1, WithdrawEffect
<1>5. CASE AssetsArrive
  <2>1. Executing /\ vm.code[1].op # "BuyExecution"
    BY <1>5 DEF AssetsArrive, Instruction
  <2> QED BY <1>3, <1>5, <2>1, ArriveEffect
<1>6. CASE ClaimAsset
  <2>1. Executing /\ vm.code[1].op # "BuyExecution"
    BY <1>6 DEF ClaimAsset, Instruction
  <2> QED BY <1>3, <1>6, <2>1, ClaimEffect
<1>7. CASE TransferAsset
  <2>1. Executing /\ vm.code[1].op # "BuyExecution"
    BY <1>7 DEF TransferAsset, Instruction, Transfers
  <2> QED BY <1>3, <1>7, <2>1, TransferEffect
<1>8. CASE DepositAsset
  <2>1. Executing /\ vm.code[1].op # "BuyExecution"
    BY <1>8 DEF DepositAsset, Instruction, Deposits
  <2> QED BY <1>3, <1>8, <2>1, DepositEffect
<1>9. CASE AssetsLeave
  <2>1. Executing /\ vm.code[1].op # "BuyExecution"
    BY <1>9 DEF AssetsLeave, Instruction, Initiates
  <2> QED BY <1>3, <1>9, <2>1, LeaveEffect
<1>10. CASE BuyExecution
  <2>1. Executing
    BY <1>10 DEF BuyExecution, Instruction
  <2>2. CASE \E h : FailedTo(vm', h)
    BY <2>2, CodeFails
  <2>3. CASE \E h, p : Advanced(vm', h, p) /\ p > 0
    <3>1. vm'.code = Tail(vm.code) /\ vm'.nested = vm.nested /\ vm'.paid > 0
      BY <2>3 DEF Advanced
    <3>2. vm.code \in Seq(Instr) /\ vm.code # << >>
      BY <2>1, Heading
    <3> QED BY <3>1, <3>2, RestOfCode DEF CodeInv
  <2> QED BY <1>10, <2>2, <2>3, BuyEffect
<1>11. CASE ClearOrigin
  <2>1. Executing /\ vm.code[1].op # "BuyExecution"
    BY <1>11 DEF ClearOrigin, Instruction
  <2> QED BY <1>3, <1>11, <2>1, ClearEffect
<1>12. CASE SetProgram
  <2>1. /\ Executing /\ vm.code[1].op \in Setters /\ vm'.original = vm.original
        /\ vm'.paid = vm.paid /\ vm'.code = Tail(vm.code) /\ vm'.nested = vm.nested
    BY <1>12, SetEffect DEF SameMessage, Setters
  <2>2. vm.code \in Seq(Instr) /\ vm.code # << >>
    BY <2>1, Heading
  <2> QED BY <2>1, <2>2, RestOfCode DEF CodeInv
<1>13. CASE InstructionFails
  BY <1>13, FailEffect, CodeFails
<1>14. CASE RunAppendix
  BY <1>14, AppendixEffect DEF CodeInv, SameMessage
<1>15. CASE Finish
  <2>1. vm'.code = << >> /\ vm'.handler = << >> /\ vm'.appendix = << >>
    BY <1>15 DEF Finish, IdleVm
  <2> QED BY <2>1 DEF CodeInv, DenyReserveTransferToRelayChain, BuysFirst
<1>16. CASE UNCHANGED vars
  BY <1>16 DEF vars, CodeInv
<1> QED
  BY <1>1, <1>2, <1>4, <1>5, <1>6, <1>7, <1>8, <1>9, <1>10, <1>11, <1>12, <1>13, <1>14, <1>15, <1>16
  DEF Next, Done

\* Whatever the message and wherever it fails, in its own instructions or in the
\* programs it sets, nothing is moved for it before its execution is paid for,
\* unless it may execute freely.
THEOREM PaidBeforeMoved == Spec => []ExecutionPaid
<1>1. ExecInv /\ CodeInv => ExecutionPaid
  <2> SUFFICES ASSUME ExecInv, CodeInv, Executing, vm.code[1].op \in Moves, BuysFirst(vm.code)
               PROVE  FALSE
    BY DEF CodeInv, ExecutionPaid, Moves
  <2>1. vm.code \in Seq(Instr) /\ vm.code # << >>
    BY Heading
  <2> QED BY <2>1, RestOfCode
<1>2. Init => CodeInv
  BY IdleCode DEF Init
<1> QED
  BY <1>1, <1>2, InitExecInv, NextExecInv, NextCodeInv, PTL DEF Spec

\* No message, from any origin, with or without weight credit, has one of its own
\* instructions transfer reserves to the relay chain.
THEOREM RelayReserveDenied == Spec => []ReserveTransferDenied
<1>1. ExecInv /\ CodeInv => ReserveTransferDenied
  <2> SUFFICES ASSUME ExecInv, CodeInv, Executing, ReserveTransferToRelay(vm.code[1]), ~vm.nested
               PROVE  FALSE
    BY DEF ReserveTransferDenied
  <2>1. vm.code \in Seq(Instr) /\ vm.code # << >> /\ 1 \in DOMAIN vm.code
    BY Heading, TailFacts
  <2> QED BY <2>1 DEF CodeInv, DenyReserveTransferToRelayChain
<1>2. Init => CodeInv
  BY IdleCode DEF Init
<1> QED
  BY <1>1, <1>2, InitExecInv, NextExecInv, NextCodeInv, PTL DEF Spec

-----------------------------------------------------------------------------
(* Conservation.                                                           *)

Held == SumFunction(balance)
AmountOf(ts) == [t \in ts |-> t.amount]
Trapped == SumFunction(AmountOf(traps))
LeftChain == left["InitiateReserveWithdraw"] + left["InitiateTeleport"]

\* All tokens that came in and can be accounted for.
Known == Held + Trapped + vm.holding + vm.paid + LeftChain + stray - backed
Allowance(n) == n * (EXISTENTIAL_DEPOSIT - 1)

\* One trap more or less changes what is trapped by its amount.
LEMMA TrapSum ==
    ASSUME NEW ts \in SUBSET Traps, IsFiniteSet(ts), NEW x \in ts
    PROVE  /\ SumFunction(AmountOf(ts)) \in Int /\ SumFunction(AmountOf(ts \ {x})) \in Int
           /\ SumFunction(AmountOf(ts)) = SumFunction(AmountOf(ts \ {x})) + x.amount
<1> DEFINE val == [t \in Traps |-> t.amount]
<1>1. \A t \in ts : val[t] \in Int /\ val[t] = t.amount
  BY DEF Traps
<1>2. AmountOf(ts) = [t \in ts |-> val[t]] /\ AmountOf(ts \ {x}) = [t \in ts \ {x} |-> val[t]]
  BY <1>1 DEF AmountOf
<1> HIDE DEF val
<1>3. /\ SumFunction([t \in ts |-> val[t]]) \in Int
      /\ SumFunction([t \in ts \ {x} |-> val[t]]) \in Int
      /\ SumFunction([t \in ts |-> val[t]]) = SumFunction([t \in ts \ {x} |-> val[t]]) + val[x]
  BY <1>1, SumWithout
<1> QED
  BY <1>1, <1>2, <1>3

\* A sum over traps is a number, the empty one zero.
LEMMA TrapSumType ==
    ASSUME NEW ts \in SUBSET Traps, IsFiniteSet(ts)
    PROVE  SumFunction(AmountOf(ts)) \in Int /\ SumFunction(AmountOf({})) = 0
<1> DEFINE f == AmountOf(ts)
<1>1. f \in [ts -> Nat]
  BY DEF AmountOf, Traps
<1> HIDE DEF f
<1>2. SumFunction(f) \in Nat
  BY <1>1, SumBounds
<1>3. AmountOf({}) = [t \in {} |-> 0]
  BY DEF AmountOf
<1>4. SumFunction([t \in {} |-> 0]) = 0
  BY FS_EmptySet, SumOfZeros
<1> QED
  BY <1>2, <1>3, <1>4 DEF f

\* The amounts that Known adds up are numbers.
LEMMA KnownTypes ==
    ASSUME ExecInv
    PROVE  /\ Held \in Int /\ Trapped \in Int /\ LeftChain \in Int /\ vm.holding \in Nat /\ vm.paid \in Nat
           /\ stray \in Nat /\ backed \in Nat /\ operations \in Nat /\ Known \in Int
<1>1. /\ balance \in Ledgers /\ traps \in SUBSET Traps /\ IsFiniteSet(traps) /\ "Local" \in Accounts
  BY DEF ExecInv, TrapsOK, Accounts
<1>2. Held \in Int /\ Trapped \in Int
  <2>1. balance \in [Accounts -> Int]
    BY <1>1 DEF Ledgers
  <2> QED BY <1>1, <2>1, HeldUpdate, TrapSumType DEF Held, Trapped
<1>3. /\ stray \in Nat /\ backed \in Nat /\ operations \in Nat /\ LeftChain \in Int
      /\ vm.holding \in Nat /\ vm.paid \in Nat
  BY VmFields DEF ExecInv, CountersOK, VmOK, LeftChain, Initiates
<1>4. Known \in Int
  BY <1>2, <1>3 DEF Known
<1> QED
  BY <1>2, <1>3, <1>4

\* What is known is what there was, less the dust of the operations so far.
KnownInv ==
    0 <= 3 * Endowment - Known /\ 3 * Endowment - Known <= Allowance(operations)

\* That is the property.
LEMMA ConservedKnown ==
    ASSUME ExecInv, KnownInv
    PROVE  AssetsConserved
<1> DEFINE e == 3 * Endowment
           d == Allowance(operations)
           irw == left["InitiateReserveWithdraw"]
           tel == left["InitiateTeleport"]
<1>1. e \in Int /\ d \in Int /\ irw \in Int /\ tel \in Int /\ LeftChain = irw + tel
  BY AmountsAssumption DEF ExecInv, CountersOK, Allowance, Initiates, LeftChain
<1>2. Missing = e + backed - (Held + Trapped + vm.holding + vm.paid) - irw - tel
  BY DEF Missing, Circulating, Held, Trapped, AmountOf
<1>3. AssetsConserved <=> stray <= Missing /\ Missing <= stray + d
  BY DEF AssetsConserved, Allowance
<1>4. 0 <= e - Known /\ e - Known <= d
  BY DEF KnownInv
<1> HIDE DEF e, d, irw, tel
<1>5. Missing \in Int /\ e - Known = Missing - stray
  BY <1>1, <1>2, KnownTypes DEF Known
<1>6. stray <= Missing /\ Missing <= stray + d
  BY <1>1, <1>4, <1>5, KnownTypes
<1> QED
  BY <1>3, <1>6

\* n operations on accounts lose at most n times the dust.
LEMMA StepConserved ==
    ASSUME ExecInv, KnownInv, NEW n \in Nat, operations' = operations + n,
           NEW l \in 0..Allowance(n), Known' = Known - l
    PROVE  KnownInv'
<1> DEFINE k == EXISTENTIAL_DEPOSIT - 1
           e == 3 * Endowment
<1>1. k \in Nat /\ operations \in Nat /\ e \in Int /\ Known \in Int
  BY AmountsAssumption, KnownTypes
<1>2. 0 <= e - Known /\ e - Known <= Allowance(operations)
  BY DEF KnownInv
<1>3. /\ Allowance(operations) = operations * k /\ Allowance(n) = n * k
      /\ Allowance(operations') = (operations + n) * k
  BY DEF Allowance
<1>4. KnownInv' <=> 0 <= e - Known' /\ e - Known' <= Allowance(operations')
  BY DEF KnownInv, Allowance
<1> HIDE DEF k, e
<1>5. /\ (operations + n) * k = operations * k + n * k
      /\ operations * k \in Nat /\ n * k \in Nat
  BY <1>1
<1> DEFINE a == Allowance(operations)
           b == Allowance(n)
<1>6. a \in Nat /\ b \in Nat /\ Allowance(operations') = a + b
  BY <1>3, <1>5
<1>7. 0 <= e - Known /\ e - Known <= a /\ l \in 0..b
  BY <1>2
<1> HIDE DEF a, b
<1>8. 0 <= e - (Known - l) /\ e - (Known - l) <= a + b
  BY <1>1, <1>6, <1>7
<1> QED BY <1>4, <1>6, <1>8

\* Every step moves tokens between accounts, registers, traps and other chains,
\* and loses no more than the dust of the accounts it operates on.
LEMMA NextConserved == ExecInv /\ KnownInv /\ [Next]_vars => KnownInv'
<1> SUFFICES ASSUME ExecInv, KnownInv, [Next]_vars PROVE KnownInv'
  OBVIOUS
<1> DEFINE h == vm.holding
           p == vm.paid
<1>0. /\ Held \in Int /\ Trapped \in Int /\ LeftChain \in Int /\ h \in Nat /\ p \in Nat
      /\ stray \in Nat /\ backed \in Nat /\ operations \in Nat /\ Known \in Int
      /\ Known = Held + Trapped + h + p + LeftChain + stray - backed
      /\ Known' = Held' + Trapped' + h' + p' + LeftChain' + stray' - backed'
  BY KnownTypes DEF Known
<1>a. /\ balance \in Ledgers /\ traps \in SUBSET Traps /\ IsFiniteSet(traps)
      /\ left \in [Initiates -> Nat] /\ stray \in Nat
  BY DEF ExecInv, CountersOK, TrapsOK
<1>b. /\ balance' = balance => Held' = Held
      /\ traps' = traps => Trapped' = Trapped
      /\ left' = left => LeftChain' = LeftChain
  BY DEF Held, Trapped, LeftChain
<1>c. ASSUME operations' = operations, Known' = Known PROVE KnownInv'
  <2>1. 0 \in Nat /\ operations' = operations + 0 /\ 0 \in 0..Allowance(0) /\ Known' = Known - 0
    BY <1>0, <1>c, AmountsAssumption DEF Allowance
  <2> QED BY <2>1, StepConserved
<1>d. ASSUME operations' = operations + 1, NEW l \in Dust, Known' = Known - l PROVE KnownInv'
  <2>1. 1 \in Nat /\ l \in 0..Allowance(1)
    BY AmountsAssumption DEF Allowance, Dust
  <2> QED BY <1>d, <2>1, StepConserved
<1>e. ASSUME NEW v, NEW g, Follows(v, g) PROVE v.holding = g /\ v.paid = p
  BY <1>e, FollowsSame
<1> HIDE DEF h, p
<1>1. CASE Receive \/ ExecuteLocal
  <2>1. /\ UNCHANGED <<balance, traps, left, backed, stray, operations>> /\ ~vm.busy
        /\ \E o, m : vm' = [IdleVm EXCEPT !.busy = TRUE, !.original = o, !.origin = o, !.code = m]
    BY <1>1 DEF Receive, ExecuteLocal, Ready, Start
  <2>2. h' = 0 /\ p' = 0
    BY <2>1 DEF IdleVm, h, p
  <2>3. h = 0 /\ p = 0
    BY <2>1 DEF ExecInv, VmOK, h, p
  <2>4. Known' = Known
    BY <1>0, <1>b, <2>1, <2>2, <2>3
  <2> QED BY <1>c, <2>1, <2>4
<1>2. CASE WithdrawAsset
  <2>1. UNCHANGED <<traps, backed, left, stray>> /\ operations' = operations + 1
    BY <1>2 DEF WithdrawAsset
  <2>2. PICK a \in Nat : /\ vm.origin \in Accounts /\ balance[vm.origin] >= a
                         /\ balance' = Debit(balance, vm.origin, a) /\ Follows(vm', h + a)
    BY <1>2, WithdrawEffect DEF h
  <2>3. PICK l \in Dust : SumFunction(Debit(balance, vm.origin, a)) = SumFunction(balance) - a - l
    BY <1>a, <2>2, DebitFacts
  <2>4. Held' = Held - a - l
    BY <2>2, <2>3 DEF Held
  <2>5. h' = h + a /\ p' = p
    BY <2>2, <1>e DEF h, p
  <2>6. l \in Int
    BY AmountsAssumption DEF Dust
  <2>7. Known' = Known - l
    BY <1>0, <1>b, <2>1, <2>4, <2>5, <2>6
  <2> QED BY <1>d, <2>1, <2>7
<1>3. CASE AssetsArrive
  <2>1. UNCHANGED <<balance, traps, left, stray, operations>>
    BY <1>3 DEF AssetsArrive
  <2>2. PICK a \in Nat : backed' = backed + a /\ Follows(vm', h + a)
    BY <1>3, ArriveEffect DEF h
  <2>3. h' = h + a /\ p' = p
    BY <2>2, <1>e DEF h, p
  <2>4. Known' = Known
    BY <1>0, <1>b, <2>1, <2>2, <2>3
  <2> QED BY <1>c, <2>1, <2>4
<1>4. CASE ClaimAsset
  <2>1. UNCHANGED <<balance, backed, left, stray, operations>>
    BY <1>4 DEF ClaimAsset
  <2>2. PICK t \in traps : traps' = traps \ {t} /\ t.amount \in Nat /\ Follows(vm', h + t.amount)
    BY <1>4, ClaimEffect DEF h
  <2>3. h' = h + t.amount /\ p' = p
    BY <2>2, <1>e DEF h, p
  <2>4. Trapped = Trapped' + t.amount /\ Trapped' \in Int
    BY <1>a, <2>2, TrapSum DEF Trapped
  <2>5. Known' = Known
    BY <1>0, <1>b, <2>1, <2>2, <2>3, <2>4
  <2> QED BY <1>c, <2>1, <2>5
<1>5. CASE TransferAsset
  <2>1. UNCHANGED <<traps, backed, left>> /\ operations' = operations + 2
    BY <1>5 DEF TransferAsset
  <2>2. PICK a \in Nat, d \in Origins :
          /\ vm.origin \in Accounts /\ balance[vm.origin] >= a
          /\ balance' = Deposited(Debit(balance, vm.origin, a), d, a)
          /\ stray' = Stranded(d, a) /\ Follows(vm', h)
    BY <1>5, TransferEffect DEF h
  <2> DEFINE b == Debit(balance, vm.origin, a)
  <2>3. PICK l \in Dust : SumFunction(b) = Held - a - l
    BY <1>a, <2>2, DebitFacts DEF Held
  <2>4. b \in Ledgers /\ SumFunction(b) \in Int
    BY <1>a, <2>2, DebitFacts
  <2> HIDE DEF b
  <2>5. PICK m \in Dust : SumFunction(Deposited(b, d, a)) + Stranded(d, a) = SumFunction(b) + stray + a - m
    BY <1>a, <2>4, DepositedFacts
  <2>6. SumFunction(Deposited(b, d, a)) \in Int /\ Stranded(d, a) \in Nat
    BY <1>a, <2>4, DepositedFacts
  <2>7. Held' = SumFunction(Deposited(b, d, a))
    BY <2>2 DEF Held, b
  <2>8. h' = h /\ p' = p
    BY <2>2, <1>e DEF h, p
  <2>9. /\ l \in Int /\ m \in Int /\ l + m \in 0..Allowance(2) /\ 2 \in Nat
    <3>1. EXISTENTIAL_DEPOSIT \in Nat \ {0} /\ Allowance(2) = 2 * (EXISTENTIAL_DEPOSIT - 1)
      BY AmountsAssumption DEF Allowance
    <3> QED BY <3>1 DEF Dust
  <2>10. Held' + stray' = Held + stray - (l + m) /\ Held' \in Int /\ stray' \in Nat
    BY <1>0, <2>2, <2>3, <2>4, <2>5, <2>6, <2>7, <2>9
  <2>11. Known' = Known - (l + m)
    <3> DEFINE x == l + m
    <3>1. x \in Int /\ Held' + stray' = Held + stray - x /\ Held' \in Int /\ stray' \in Int
      BY <2>9, <2>10
    <3>2. /\ Trapped' = Trapped /\ LeftChain' = LeftChain /\ backed' = backed
          /\ h' = h /\ p' = p
      BY <1>b, <2>1, <2>8
    <3>3. Known' = Held' + Trapped + h + p + LeftChain + stray' - backed
      BY <1>0, <3>2
    <3> HIDE DEF x
    <3>4. Known' = Known - x
      <4> DEFINE u == Held'
                 w == stray'
                 k == Known'
      <4>1. /\ u \in Int /\ w \in Int /\ u + w = Held + stray - x
            /\ k = u + Trapped + h + p + LeftChain + w - backed
        BY <3>1, <3>3
      <4> HIDE DEF u, w, k
      <4>2. k = Known - x
        BY <1>0, <3>1, <4>1
      <4> QED BY <4>2 DEF k
    <3> QED BY <3>4 DEF x
  <2> QED BY <2>1, <2>9, <2>11, StepConserved
<1>6. CASE DepositAsset
  <2>1. UNCHANGED <<traps, backed, left>> /\ operations' = operations + 1
    BY <1>6 DEF DepositAsset
  <2>2. PICK d \in Origins : /\ balance' = Deposited(balance, d, h)
                             /\ stray' = Stranded(d, h) /\ Follows(vm', 0)
    BY <1>6, DepositEffect DEF h
  <2>3. PICK l \in Dust : SumFunction(Deposited(balance, d, h)) + Stranded(d, h) = Held + stray + h - l
    BY <1>0, <1>a, DepositedFacts DEF Held
  <2>4. SumFunction(Deposited(balance, d, h)) \in Int /\ Stranded(d, h) \in Nat
    BY <1>0, <1>a, DepositedFacts
  <2>5. Held' = SumFunction(Deposited(balance, d, h))
    BY <2>2 DEF Held
  <2>6. h' = 0 /\ p' = p /\ l \in Int
    BY <2>2, <1>e, AmountsAssumption DEF h, p, Dust
  <2>7. Known' = Known - l
    BY <1>0, <1>b, <2>1, <2>2, <2>3, <2>4, <2>5, <2>6
  <2> QED BY <1>d, <2>1, <2>7
<1>7. CASE AssetsLeave
  <2>1. UNCHANGED <<balance, traps, backed, stray, operations>>
    BY <1>7 DEF AssetsLeave
  <2>2. PICK op \in Initiates : left' = [left EXCEPT ![op] = left[op] + h] /\ Follows(vm', 0)
    BY <1>7, LeaveEffect DEF h
  <2>3. h' = 0 /\ p' = p
    BY <2>2, <1>e DEF h, p
  <2>4. LeftChain' = LeftChain + h
    <3>1. CASE op = "InitiateReserveWithdraw"
      BY <1>0, <1>a, <2>2, <3>1 DEF LeftChain, Initiates
    <3>2. CASE op = "InitiateTeleport"
      BY <1>0, <1>a, <2>2, <3>2 DEF LeftChain, Initiates
    <3> QED BY <3>1, <3>2 DEF Initiates
  <2>5. Known' = Known
    BY <1>0, <1>b, <2>1, <2>3, <2>4
  <2> QED BY <1>c, <2>1, <2>5
<1>8. CASE BuyExecution
  <2>1. UNCHANGED <<balance, traps, backed, left, operations>> /\ Fee \in Nat
    BY <1>8, AmountsAssumption DEF BuyExecution
  <2>2. CASE Advanced(vm', h - Fee, p + Fee) /\ stray' = stray
    <3>1. h' = h - Fee /\ p' = p + Fee
      BY <2>2 DEF Advanced, h, p
    <3>2. Known' = Known
      BY <1>0, <1>b, <2>1, <2>2, <3>1
    <3> QED BY <1>c, <2>1, <3>2
  <2>3. CASE \E f \in Nat : stray' = stray + f /\ FailedTo(vm', h - f)
    <3>1. PICK f \in Nat : stray' = stray + f /\ FailedTo(vm', h - f)
      BY <2>3
    <3>2. h' = h - f /\ p' = p
      BY <3>1 DEF FailedTo, h, p
    <3>3. Known' = Known
      BY <1>0, <1>b, <2>1, <3>1, <3>2
    <3> QED BY <1>c, <2>1, <3>3
  <2> QED BY <1>8, <2>2, <2>3, BuyEffect DEF h, p
<1>9. CASE ClearOrigin \/ SetProgram \/ InstructionFails \/ RunAppendix
  <2>1. UNCHANGED <<balance, traps, backed, left, stray, operations>>
    BY <1>9 DEF ClearOrigin, SetProgram, InstructionFails, RunAppendix
  <2>2. h' = h /\ p' = p
    <3>1. CASE ClearOrigin
      BY <3>1, <1>e, ClearEffect DEF h, p
    <3>2. CASE SetProgram
      BY <3>2, SetEffect DEF h, p
    <3>3. CASE InstructionFails
      BY <3>3, FailEffect DEF FailedTo, h, p
    <3>4. CASE RunAppendix
      BY <3>4, AppendixEffect DEF h, p
    <3> QED BY <1>9, <3>1, <3>2, <3>3, <3>4
  <2>3. Known' = Known
    BY <1>0, <1>b, <2>1, <2>2
  <2> QED BY <1>c, <2>1, <2>3
<1>10. CASE Finish
  <2>1. UNCHANGED <<backed, left, stray>> /\ operations' = operations + 1
    BY <1>10 DEF Finish
  <2>2. PICK r \in 0..p :
          /\ p - r \in Nat /\ h + r \in Nat /\ balance' = Credit(balance, "Author", p - r)
          /\ h + r = 0 => traps' = traps
          /\ h + r # 0 => \E t \in Traps : /\ t \notin traps /\ t.amount = h + r
                                           /\ traps' = traps \cup {t}
    BY <1>10, FinishFacts DEF h, p
  <2>3. h' = 0 /\ p' = 0
    BY <1>10, FinishFacts DEF h, p, IdleVm
  <2> DEFINE paid == p - r
             kept == h + r
  <2>4. paid \in Nat /\ kept \in Nat /\ paid + kept = p + h
    BY <1>0, <2>2
  <2>5. PICK l \in Dust : Held' = Held + paid - l
    <3>1. "Author" \in Accounts
      BY DEF Accounts
    <3>2. balance' = Credit(balance, "Author", paid)
      BY <2>2
    <3> HIDE DEF paid
    <3>3. PICK l \in Dust : SumFunction(Credit(balance, "Author", paid)) = SumFunction(balance) + paid - l
      BY <1>a, <2>4, <3>1, CreditFacts
    <3> QED BY <3>2, <3>3 DEF Held
  <2>6. Trapped' = Trapped + kept
    <3>1. CASE kept = 0
      BY <1>0, <1>b, <2>2, <3>1
    <3>2. CASE kept # 0
      <4>1. PICK t \in Traps : t \notin traps /\ t.amount = kept /\ traps' = traps \cup {t}
        BY <2>2, <3>2
      <4> HIDE DEF kept
      <4>2. traps' \in SUBSET Traps /\ IsFiniteSet(traps') /\ t \in traps' /\ traps' \ {t} = traps
        BY <1>a, <4>1, FS_AddElement
      <4>3. SumFunction(AmountOf(traps')) = SumFunction(AmountOf(traps' \ {t})) + t.amount
        BY <4>2, TrapSum
      <4> QED BY <4>1, <4>2, <4>3 DEF Trapped
    <3> QED BY <3>1, <3>2
  <2> HIDE DEF paid, kept
  <2>7. l \in Int
    BY AmountsAssumption DEF Dust
  <2>8. Known' = Known - l
    BY <1>0, <1>b, <2>1, <2>3, <2>4, <2>5, <2>6, <2>7
  <2> QED BY <1>d, <2>1, <2>8
<1>11. CASE UNCHANGED vars
  <2>1. vm' = vm /\ UNCHANGED <<balance, traps, left, backed, stray, operations>>
    BY <1>11 DEF vars
  <2>2. h' = h /\ p' = p
    BY <2>1 DEF h, p
  <2>3. Known' = Known
    BY <1>0, <1>b, <2>1, <2>2
  <2> QED BY <1>c, <2>1, <2>3
<1> QED
  BY <1>1, <1>2, <1>3, <1>4, <1>5, <1>6, <1>7, <1>8, <1>9, <1>10, <1>11 DEF Next, Done

\* Genesis endows three accounts.
LEMMA InitConserved == Init => KnownInv
<1> SUFFICES ASSUME Init PROVE KnownInv
  OBVIOUS
<1> DEFINE z == [a \in Accounts |-> 0]
           p == [z EXCEPT !["Parent"] = Endowment]
           q == [p EXCEPT !["Sibling"] = Endowment]
           r == [q EXCEPT !["Local"] = Endowment]
<1>1. /\ Endowment \in Nat /\ Endowment \in Int /\ {"Parent", "Sibling", "Local", "Author"} = Accounts
      /\ "Parent" \in Accounts /\ "Sibling" \in Accounts /\ "Local" \in Accounts
  BY AmountsAssumption DEF Accounts
<1>2. /\ z \in [Accounts -> Int] /\ p \in [Accounts -> Int] /\ q \in [Accounts -> Int]
      /\ z["Parent"] = 0 /\ p["Sibling"] = 0 /\ q["Local"] = 0
  BY <1>1
<1>3. balance = r
  BY <1>1 DEF Init, Accounts
<1>4. SumFunction(z) = 0
  BY SumOfZeros, AccountsFinite
<1> HIDE DEF z
<1>5. SumFunction(p) = Endowment
  <2>1. SumFunction([z EXCEPT !["Parent"] = Endowment]) = SumFunction(z) + Endowment - z["Parent"]
    BY <1>1, <1>2, HeldUpdate
  <2> QED BY <1>1, <1>2, <1>4, <2>1
<1> HIDE DEF p
<1>6. SumFunction(q) = 2 * Endowment
  <2>1. SumFunction([p EXCEPT !["Sibling"] = Endowment]) = SumFunction(p) + Endowment - p["Sibling"]
    BY <1>1, <1>2, HeldUpdate
  <2> QED BY <1>1, <1>2, <1>5, <2>1
<1> HIDE DEF q
<1>7. SumFunction(r) = 3 * Endowment
  <2>1. SumFunction([q EXCEPT !["Local"] = Endowment]) = SumFunction(q) + Endowment - q["Local"]
    BY <1>1, <1>2, HeldUpdate
  <2> QED BY <1>1, <1>2, <1>6, <2>1
<1>8. Trapped = 0
  BY TrapSumType, FS_EmptySet DEF Init, Trapped
<1>9. vm.holding = 0 /\ vm.paid = 0 /\ backed = 0 /\ stray = 0 /\ operations = 0 /\ LeftChain = 0
  BY DEF Init, IdleVm, LeftChain, Initiates
<1>10. Held = 3 * Endowment
  BY <1>3, <1>7 DEF Held
<1>11. Known = 3 * Endowment /\ Allowance(operations) = 0
  BY <1>1, <1>8, <1>9, <1>10, AmountsAssumption DEF Known, Allowance
<1> QED
  BY <1>1, <1>11 DEF KnownInv

\* For all amounts, fees and messages, cut short wherever they may be, no token
\* is created, and none is lost between accounts, registers, traps and other
\* chains but stray ones and the dust of accounts.
THEOREM TokensConserved == Spec => []AssetsConserved
<1>1. ExecInv /\ KnownInv => AssetsConserved
  BY ConservedKnown
<1> QED
  BY <1>1, InitExecInv, NextExecInv, InitConserved, NextConserved, PTL DEF Spec

=============================================================================
