-------------------------- MODULE DownwardMessages --------------------------
(***************************************************************************)
(* Messages from the relay chain (runtime/src/lib.rs 367-403).  Each block *)
(* takes the messages of its relay parent in with the parachain inherent.  *)
(* DmpQueue executes them, older ones first, with the weight that          *)
(* ReservedDmpWeight sets aside; on_idle goes on with what the extrinsics  *)
(* left of the block.  A message that does not fit waits in the queue, and *)
(* all later ones behind it.  Only on arrival, with nothing waiting, is    *)
(* one that is heavier than a single message may be put aside instead, for *)
(* ExecuteOverweightOrigin = EnsureRoot, an origin that nothing in this    *)
(* runtime produces.                                                       *)
(***************************************************************************)
EXTENDS Integers, Sequences, FiniteSets

CONSTANTS
    MAXIMUM_BLOCK_WEIGHT,
    MaxIndividual,   \* default of DmpQueue's max_individual, 10 ms
    UnitWeightCost,  \* weight of one instruction
    Messages,        \* messages considered: number of instructions, weight that a Transact
                     \* requires for its call, and whether the barrier refuses the message
    IdleWeights,     \* weights that may be left to on_idle
    QuietIdle,       \* what a block with few extrinsics leaves to it
    MaxMessages      \* bound on the number of messages

ASSUME MessageAssumption ==
    /\ MAXIMUM_BLOCK_WEIGHT \in Nat /\ MaxIndividual \in Nat /\ UnitWeightCost \in Nat \ {0}
    /\ Messages \subseteq [instructions : Nat \ {0}, transact : Nat, refused : BOOLEAN]
    /\ IdleWeights \subseteq Nat /\ {0, QuietIdle} \subseteq IdleWeights /\ MaxMessages \in Nat

VARIABLES
    sent,       \* sent[i]: the i-th message the relay chain sent: weight required and used
    arrived,    \* number of messages that blocks have taken in
    queue,      \* DmpQueue: pages of messages not yet serviced
    overweight, \* DmpQueue: messages put aside
    executed    \* history: messages handed to the executor, in this order

vars == <<sent, arrived, queue, overweight, executed>>

-----------------------------------------------------------------------------

\* Mutant: a hundredth of the block is reserved.
ReservedTooLittle == MAXIMUM_BLOCK_WEIGHT \div 100

ReservedDmpWeight == MAXIMUM_BLOCK_WEIGHT \div 4

\* FixedWeightBounds: each instruction costs the same, a Transact what it asks for.
MessageWeight(m) == m.instructions * UnitWeightCost + m.transact

\* Mutant: a message that does not fit is skipped over and left in the queue.
ServiceNext(acc, i, arriving) ==
    IF sent[i].required <= acc.weight
    THEN [acc EXCEPT !.weight = @ - sent[i].used, !.executed = Append(@, i)]
    ELSE IF i \in arriving /\ sent[i].required > MaxIndividual
    THEN [acc EXCEPT !.overweight = @ \cup {i}]
    ELSE [acc EXCEPT !.queue = Append(@, i)]

\* try_service_message and what follows from it: the message is executed within
\* the weight that is left, or kept, and once one is kept all later ones are.
\* One that is just arriving may be put aside; one from the queue is put back.
ServiceMessage(acc, i, arriving) ==
    IF acc.queue # << >>
    THEN [acc EXCEPT !.queue = Append(@, i)]
    ELSE IF sent[i].required <= acc.weight
    THEN [acc EXCEPT !.weight = @ - sent[i].used, !.executed = Append(@, i)]
    ELSE IF i \in arriving /\ sent[i].required > MaxIndividual
    THEN [acc EXCEPT !.overweight = @ \cup {i}]
    ELSE [acc EXCEPT !.queue = << i >>]

\* The state of the pallet once `messages', of which those in `arriving' were not
\* in the queue, were serviced with that weight.
Service(messages, arriving, weight, done, aside) ==
    LET after[k \in 0..Len(messages)] ==
            IF k = 0
            THEN [weight |-> weight, queue |-> << >>, executed |-> done, overweight |-> aside]
            ELSE ServiceMessage(after[k - 1], messages[k], arriving)
    IN  after[Len(messages)]

-----------------------------------------------------------------------------

\* The relay chain sends a message.  One that the barrier refuses uses no weight,
\* but must find the weight that it requires.
SendDownward(m) ==
    LET required == MessageWeight(m)
    IN  /\ Len(sent) < MaxMessages
        /\ sent' = Append(sent, [required |-> required, used |-> IF m.refused THEN 0 ELSE required])
        /\ UNCHANGED <<arrived, queue, overweight, executed>>

\* Mutant: nothing services the queue at the end of a block.
BlockWithoutIdle(relayParent, idle) ==
    LET incoming == [k \in 1..(relayParent - arrived) |-> arrived + k]
        inherent == Service(queue \o incoming, (arrived + 1)..relayParent,
                            ReservedDmpWeight, executed, overweight)
    IN  /\ arrived' = relayParent
        /\ queue' = inherent.queue
        /\ overweight' = inherent.overweight
        /\ executed' = inherent.executed
        /\ UNCHANGED sent

\* A block: set_validation_data takes in the messages sent up to its relay parent
\* (handle_dmp_messages: first the queue, then what arrives), and at its end
\* on_idle services what is left with `idle'.
Block(relayParent, idle) ==
    LET incoming  == [k \in 1..(relayParent - arrived) |-> arrived + k]
        inherent  == Service(queue \o incoming, (arrived + 1)..relayParent,
                             ReservedDmpWeight, executed, overweight)
        idleEnd   == Service(inherent.queue, {}, idle, inherent.executed, inherent.overweight)
    IN  /\ arrived' = relayParent
        /\ queue' = idleEnd.queue
        /\ overweight' = idleEnd.overweight
        /\ executed' = idleEnd.executed
        /\ UNCHANGED sent

Init ==
    /\ sent = << >>
    /\ arrived = 0
    /\ queue = << >>
    /\ overweight = {}
    /\ executed = << >>

Next ==
    \/ \E m \in Messages : SendDownward(m)
    \/ \E r \in arrived..Len(sent), idle \in IdleWeights : Block(r, idle)

Spec == Init /\ [][Next]_vars

\* Blocks are produced for ever and their relay parents are recent.  It is not
\* assumed that extrinsics leave anything to on_idle: QuietBlocks says that now
\* and then they leave it QuietIdle.
Fairness == WF_vars(Block(Len(sent), 0))

QuietBlocks == WF_vars(Block(Len(sent), QuietIdle))

FairSpec == Spec /\ Fairness

-----------------------------------------------------------------------------
(* Properties.                                                             *)

Ids(s) == {s[k] : k \in DOMAIN s}

\* No message is lost, executed twice or overtaken in the queue: what was executed
\* and what waits, one after the other, are in the order of sending, and the rest
\* of what arrived is put aside and heavier than a single message may be.
MessagesInOrder ==
    LET handled == executed \o queue
    IN  /\ \A j, k \in DOMAIN handled : j < k => handled[j] < handled[k]
        /\ Ids(handled) \cap overweight = {}
        /\ Ids(handled) \cup overweight = 1..arrived
        /\ \A i \in overweight : sent[i].required > MaxIndividual

\* An earlier message is at the head of the queue and needs more than is reserved.
HeldUp(i) ==
    /\ queue # << >>
    /\ Head(queue) < i
    /\ sent[Head(queue)].required > ReservedDmpWeight

\* However full blocks are, the quarter of a block that ReservedDmpWeight sets aside
\* brings every message of ordinary weight to its execution, unless a message that
\* needs more than the quarter came to the queue before it and holds it up.
OrdinaryMessagesExecuted ==
    \A i \in 1..MaxMessages :
        (i \in DOMAIN sent /\ sent[i].required <= MaxIndividual) ~> (i \in Ids(executed) \/ HeldUp(i))

\* Such a message holds up the queue only while blocks are full: if blocks leave
\* QuietIdle to on_idle again and again, every message that it is enough for is
\* executed or put aside.
QuietBlocksEndStall ==
    QuietBlocks =>
        \A i \in 1..MaxMessages : (i \in DOMAIN sent) ~> (i \in Ids(executed) \cup overweight)

=============================================================================
