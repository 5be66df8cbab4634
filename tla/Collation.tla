------------------------------ MODULE Collation ------------------------------
(***************************************************************************)
(* Block production of the parachain: collators author candidates on the   *)
(* head a relay block reports (node/src/service.rs, build_consensus),      *)
(* other nodes import them (build_import_queue), relay chain validators    *)
(* run validate_block on them (runtime/src/lib.rs, CheckInherents), and    *)
(* the relay chain backs and later includes one candidate at a time.       *)
(*                                                                         *)
(* Every collator reads its own system clock; the clock of the relay chain *)
(* is `now'.  All durations are in one unit of the modeller's choice.      *)
(***************************************************************************)
EXTENDS Integers, Sequences, FiniteSets

CONSTANTS
    Authorities,          \* Aura::authorities(), a sequence of collators
    SLOT_DURATION,        \* the runtime's SLOT_DURATION
    RELAY_SLOT_DURATION,  \* the six seconds both the node and the runtime assume
    MAX_TIMESTAMP_DRIFT,  \* pallet_timestamp's MAX_TIMESTAMP_DRIFT_MILLIS
    Skew,                 \* Skew[c]: system clock of c minus clock of the relay chain
    StartTime,            \* time at which the genesis block is known to all
    MaxTime,              \* bound on time
    LastBuild,            \* bound on the time of the last proposal
    MaxBlocks,            \* bound on the number of parachain blocks, genesis included
    MaxLost               \* bound on the number of blocks that are never announced

Collators == {Authorities[i] : i \in 1..Len(Authorities)}

ASSUME AuthoritiesAssumption == Authorities \in Seq(Collators) /\ Authorities # << >>
ASSUME DurationAssumption ==
    /\ SLOT_DURATION \in Nat /\ SLOT_DURATION >= 2
    /\ RELAY_SLOT_DURATION \in Nat \ {0}
    /\ MAX_TIMESTAMP_DRIFT \in Nat
\* Twelve and thirty seconds: a clock that is a slot ahead is within the drift.
ASSUME DriftAssumption == SLOT_DURATION <= MAX_TIMESTAMP_DRIFT
ASSUME TimeAssumption ==
    /\ StartTime \in Nat /\ MaxTime \in Nat /\ LastBuild \in Nat
    /\ MaxBlocks \in Nat /\ MaxLost \in Nat
    /\ Skew \in [Collators -> Int]
    /\ \A c \in Collators : StartTime + Skew[c] >= 0

VARIABLES
    now,     \* clock of the relay chain
    relay,   \* relay[r]: slot of relay block r, parachain head and backed candidate in its state
    blocks,  \* every parachain block ever authored; blocks[1] is genesis
    job,     \* job[c]: relay parent c is building on, 0 when it is not building
    known,   \* known[c]: blocks in the database of c
    lost,    \* blocks whose author stopped, or was cut off, before it announced them
    refused  \* refused[c]: blocks c recovered and its import queue did not accept

vars == <<now, relay, blocks, job, known, lost, refused>>

BlockIds == 1..Len(blocks)
RelayNumbers == 1..Len(relay)
BestRelay == relay[Len(relay)]
ParaHead == blocks[BestRelay.head]

-----------------------------------------------------------------------------
(* The runtime's notion of time.                                           *)

MinimumPeriod == SLOT_DURATION \div 2

\* pallet_aura derives the slot duration from pallet_timestamp.
AuraSlotDuration == MinimumPeriod * 2

SlotAt(timestamp) == timestamp \div AuraSlotDuration
SlotAuthor(slot) == Authorities[(slot % Len(Authorities)) + 1]

\* The system clock from_system_time() reads on the node of c.
Clock(c) == now + Skew[c]

\* Aura::on_initialize: "Slot must increase".
AuraOnInitialize(p, b) == p.slot < b.slot

\* Timestamp::set, the parent's timestamp being 0 only at genesis.
TimestampSet(p, b) == p.timestamp = 0 \/ b.timestamp >= p.timestamp + MinimumPeriod

\* Aura::on_timestamp_set: "Timestamp slot must match `CurrentSlot`".
AuraOnTimestampSet(b) == SlotAt(b.timestamp) = b.slot

\* Timestamp::create_inherent, run by create_extrinsics on the state of parent p:
\* never less than the minimum period after the parent's timestamp, even when
\* that is ahead of the time `data' the author's clock shows.
CreateInherent(p, data) ==
    IF data >= p.timestamp + MinimumPeriod THEN data ELSE p.timestamp + MinimumPeriod

RelayNumberStrictlyIncreases(p, b) == p.relayParent < b.relayParent

\* Mutant: pallet_aura does not compare the slot with the parent's.
RuntimeAcceptsAnySlot(p, b) ==
    RelayNumberStrictlyIncreases(p, b) /\ TimestampSet(p, b) /\ AuraOnTimestampSet(b)

\* Execution of b on the state of its parent p with the configured pallets.
RuntimeAccepts(p, b) ==
    /\ AuraOnInitialize(p, b)
    /\ RelayNumberStrictlyIncreases(p, b)
    /\ TimestampSet(p, b)
    /\ AuraOnTimestampSet(b)

\* Timestamp::check_inherent against the time `data' the checker believes in.
TimestampCheckInherent(p, b, data) ==
    /\ b.timestamp <= data + MAX_TIMESTAMP_DRIFT
    /\ b.timestamp >= p.timestamp + MinimumPeriod

\* The timestamp cumulus derives from the relay chain slot: parachain blocks
\* are built around the start of the following relay slot.
RelayTimestamp(slot, duration) == (slot + 1) * duration

\* Mutant: CheckInherents is told half the duration of a relay chain slot.
CheckInherentsHalfSlot(p, b) ==
    TimestampCheckInherent(p, b,
        RelayTimestamp(relay[b.relayParent].slot, RELAY_SLOT_DURATION \div 2))

\* CheckInherents::check_inherents, run by relay chain validators.
CheckInherents(p, b) ==
    TimestampCheckInherent(p, b,
        RelayTimestamp(relay[b.relayParent].slot, RELAY_SLOT_DURATION))

\* Mutant: validate_block is registered without CheckInherents.
ValidateWithoutInherents(p, b) == RuntimeAccepts(p, b)

\* validate_block: the registered CheckInherents and then the executor.
ValidateBlock(p, b) == CheckInherents(p, b) /\ RuntimeAccepts(p, b)

-----------------------------------------------------------------------------
(* Authoring: build_consensus.                                             *)

\* Mutant: the head is looked up again when the inherent is ready.
LatestHead(r) == BestRelay.head

\* validation_data.parent_head at the relay parent of the collation request.
ParentHead(r) == relay[r].head

\* Mutant: the parachain inherent is created for the child of the relay parent.
CandidateOnChild(c, r) ==
    [parent      |-> ParentHead(r),
     number      |-> blocks[ParentHead(r)].number + 1,
     slot        |-> SlotAt(Clock(c)),
     timestamp   |-> CreateInherent(blocks[ParentHead(r)], Clock(c)),
     relayParent |-> r + 1]

\* What the inherent data providers of c yield once the parachain inherent for
\* relay parent r is there: the clock is read after that wait, slot and timestamp
\* come from the same reading, and the runtime makes its inherent of the latter.
CandidateOn(c, r) ==
    [parent      |-> ParentHead(r),
     number      |-> blocks[ParentHead(r)].number + 1,
     slot        |-> SlotAt(Clock(c)),
     timestamp   |-> CreateInherent(blocks[ParentHead(r)], Clock(c)),
     relayParent |-> r]

Candidate(c) == CandidateOn(c, job[c])

\* Aura claims the slot, and the block can be executed on its parent.
CanBuild(c) ==
    LET b == Candidate(c) IN
    /\ b.parent \in known[c]
    /\ SlotAuthor(b.slot) = c
    /\ RuntimeAccepts(blocks[b.parent], b)

\* The relay node asks c for a collation on the best relay block when the
\* parachain's core is free in it.
Collate(c) ==
    /\ job[c] = 0
    /\ BestRelay.backed = 0
    /\ job' = [job EXCEPT ![c] = Len(relay)]
    /\ UNCHANGED <<now, relay, blocks, known, lost, refused>>

\* ParachainInherentData::create_at answered None.
InherentUnavailable(c) ==
    /\ job[c] # 0
    /\ job' = [job EXCEPT ![c] = 0]
    /\ UNCHANGED <<now, relay, blocks, known, lost, refused>>

\* The slot is not c's, or the runtime refuses the block while it is built.
SkipSlot(c) ==
    /\ job[c] # 0
    /\ ~CanBuild(c)
    /\ job' = [job EXCEPT ![c] = 0]
    /\ UNCHANGED <<now, relay, blocks, known, lost, refused>>

\* The candidate is built, imported locally, handed to relay chain validators and
\* announced to peers, unless the collator stops before the last.
Propose(c) ==
    /\ job[c] # 0
    /\ CanBuild(c)
    /\ Len(blocks) < MaxBlocks /\ now <= LastBuild
    /\ \A i \in BlockIds : blocks[i] # Candidate(c)
    /\ blocks' = Append(blocks, Candidate(c))
    /\ known' = [known EXCEPT ![c] = @ \cup {Len(blocks) + 1}]
    /\ job' = [job EXCEPT ![c] = 0]
    /\ \/ lost' = lost
       \/ Cardinality(lost) < MaxLost /\ lost' = lost \cup {Len(blocks) + 1}
    /\ UNCHANGED <<now, relay, refused>>

-----------------------------------------------------------------------------
(* Import: build_import_queue.                                             *)

\* The Aura verifier of c: the header's slot is at most one ahead of the slot
\* at c's clock, and the inherents are checked against c's clock.
ImportAccepts(c, b) ==
    /\ b.slot <= SlotAt(Clock(c)) + 1
    /\ TimestampCheckInherent(blocks[b.parent], b, Clock(c))
    /\ RuntimeAccepts(blocks[b.parent], b)

\* A block c does not have and whose parent it has.
Importable(c, i) == i \in BlockIds \ known[c] /\ blocks[i].parent \in known[c]

\* From an announcement; a block c refused is offered again by the network.
Import(c, i) ==
    /\ Importable(c, i)
    /\ i \notin lost
    /\ ImportAccepts(c, blocks[i])
    /\ known' = [known EXCEPT ![c] = @ \cup {i}]
    /\ UNCHANGED <<now, relay, blocks, job, lost, refused>>

\* Mutant: nodes wait for announcements only.
NoRecovery(c, i) == FALSE /\ UNCHANGED vars

\* From the relay chain: start_collator and start_full_node also start a task that
\* recovers blocks which the relay chain backed and nobody announced. It hands
\* a recovered block to the import queue once, accepted or not.
Recover(c, i) ==
    /\ Importable(c, i)
    /\ i \in {relay[r].backed : r \in RelayNumbers} \ refused[c]
    /\ IF ImportAccepts(c, blocks[i])
       THEN known' = [known EXCEPT ![c] = @ \cup {i}] /\ UNCHANGED refused
       ELSE refused' = [refused EXCEPT ![c] = @ \cup {i}] /\ UNCHANGED known
    /\ UNCHANGED <<now, relay, blocks, job, lost>>

-----------------------------------------------------------------------------
(* The relay chain and time.                                               *)

Tick ==
    /\ now < MaxTime
    /\ now' = now + 1
    /\ UNCHANGED <<relay, blocks, job, known, lost, refused>>

\* The core is free: the new relay block may back a candidate that was built on
\* the previous relay block and on the current head.
BackCandidate(i) ==
    /\ BestRelay.backed = 0
    /\ i \in BlockIds \ {1}
    /\ blocks[i].parent = BestRelay.head
    /\ blocks[i].relayParent = Len(relay)
    /\ ValidateBlock(ParaHead, blocks[i])

\* A relay block with parachain head `head' and pending candidate `backed'.
AppendRelayBlock(head, backed) ==
    /\ now \div RELAY_SLOT_DURATION > BestRelay.slot
    /\ relay' = Append(relay, [slot   |-> now \div RELAY_SLOT_DURATION,
                               head   |-> head,
                               backed |-> backed])
    /\ UNCHANGED <<now, blocks, job, known, lost, refused>>

RelayBlock ==
    \/ AppendRelayBlock(BestRelay.head, BestRelay.backed)
    \/ \E i \in BlockIds : BackCandidate(i) /\ AppendRelayBlock(BestRelay.head, i)

\* The pending candidate became available, or timed out.
SettleCandidate ==
    /\ BestRelay.backed # 0
    /\ \/ AppendRelayBlock(BestRelay.backed, 0)
       \/ AppendRelayBlock(BestRelay.head, 0)

\* The end of the modelled stretch of time.
Horizon == now = MaxTime /\ UNCHANGED vars

-----------------------------------------------------------------------------

GenesisBlock ==
    [parent |-> 1, number |-> 0, slot |-> 0, timestamp |-> 0, relayParent |-> 0]

Init ==
    /\ now = StartTime
    /\ relay = << [slot |-> StartTime \div RELAY_SLOT_DURATION, head |-> 1, backed |-> 0] >>
    /\ blocks = << GenesisBlock >>
    /\ job = [c \in Collators |-> 0]
    /\ known = [c \in Collators |-> {1}]
    /\ lost = {}
    /\ refused = [c \in Collators |-> {}]

Next ==
    \/ Tick
    \/ Horizon
    \/ RelayBlock
    \/ SettleCandidate
    \/ \E c \in Collators : Collate(c)
    \/ \E c \in Collators : InherentUnavailable(c)
    \/ \E c \in Collators : SkipSlot(c)
    \/ \E c \in Collators : Propose(c)
    \/ \E c \in Collators, i \in 1..MaxBlocks : Import(c, i)
    \/ \E c \in Collators, i \in 1..MaxBlocks : Recover(c, i)

Spec == Init /\ [][Next]_vars

\* The import queue, the network and the recovery of blocks run as tasks that are
\* polled for as long as the node lives, and clocks do not stop.
Fairness ==
    /\ WF_vars(Tick)
    /\ \A c \in Collators : \A i \in 1..MaxBlocks : WF_vars(Import(c, i)) /\ WF_vars(Recover(c, i))

FairSpec == Spec /\ Fairness

-----------------------------------------------------------------------------
(* Properties.                                                             *)

RelayState == [slot : Nat, head : Nat, backed : Nat]
Block == [parent : Nat, number : Nat, slot : Nat, timestamp : Nat, relayParent : Nat]

\* Shape of the state: every block and every relay block refers to earlier
\* blocks only (blocks are stored by build_consensus, heads by the relay chain).
TypeOK ==
    /\ now \in Nat
    /\ relay \in Seq(RelayState) /\ relay # << >>
    /\ \A r \in RelayNumbers : relay[r].head \in BlockIds /\ relay[r].backed \in 0..Len(blocks)
    /\ blocks \in Seq(Block) /\ blocks # << >>
    /\ \A i \in BlockIds : blocks[i].parent \in BlockIds /\ blocks[i].relayParent \in 0..Len(relay)
    /\ job \in [Collators -> 0..Len(relay)]
    /\ known \in [Collators -> SUBSET BlockIds]
    /\ lost \subseteq BlockIds
    /\ refused \in [Collators -> SUBSET BlockIds]

\* However far a collator's clock runs ahead, the included head carries a
\* timestamp that CheckInherents compared with the relay chain's time: it is
\* ahead of it by at most the drift less the relay slot that backing takes, so
\* the clocks of the other collators catch up after a bounded wait.
HeadNotAheadOfRelay ==
    ParaHead.number > 0 =>
        ParaHead.timestamp <= now + MAX_TIMESTAMP_DRIFT - RELAY_SLOT_DURATION

\* build_consensus takes parent head and relay parent from the same request: no
\* delay between request and clock reading makes a candidate fail the runtime's
\* RelayNumberStrictlyIncreases check.
RelayNumberNeverStale ==
    \A c \in Collators : job[c] # 0 =>
        RelayNumberStrictlyIncreases(blocks[Candidate(c).parent], Candidate(c))

\* SLOT_DURATION is the average block time: a block n blocks after an included
\* one is more than n - 1 slots younger, whoever authored the blocks between
\* them and whatever the clocks of those authors show.
AverageBlockTime ==
    \A i \in BlockIds : \A r \in 1..blocks[i].relayParent :
        LET a == blocks[relay[r].head]
            b == blocks[i]
        IN  a.number > 0 =>
                b.timestamp - a.timestamp > (b.number - a.number - 1) * AuraSlotDuration

\* A collator whose clock is ahead of the head by a slot, and of the relay chain
\* by no more than the drift, builds on a fresh relay parent a block that the
\* runtime executes, that relay chain validators accept, and that every node
\* whose clock is less than a slot behind imports at once.
InTurnAuthorAccepted ==
    \A c \in Collators :
        LET b == CandidateOn(c, Len(relay)) IN
        (/\ Skew[c] <= MAX_TIMESTAMP_DRIFT
         /\ Clock(c) >= ParaHead.timestamp + AuraSlotDuration
         /\ now <= (BestRelay.slot + 1) * RELAY_SLOT_DURATION) =>
            /\ ValidateBlock(ParaHead, b)
            /\ \A d \in Collators :
                Clock(c) <= Clock(d) + AuraSlotDuration => ImportAccepts(d, b)

\* lib.rs says that blocks are produced at a minimum duration SLOT_DURATION:
\* an included block is that much younger than its parent.
MinimumBlockTime ==
    \A r \in RelayNumbers :
        LET b == blocks[relay[r].head]
            p == blocks[b.parent]
        IN  p.number > 0 => b.timestamp - p.timestamp >= SLOT_DURATION

\* What a header says of its block.
Header(b) ==
    [number |-> b.number, slot |-> b.slot, timestamp |-> b.timestamp, relayParent |-> b.relayParent]

IncludedBlocks == {blocks[relay[r].head] : r \in RelayNumbers}

Chain == INSTANCE IncludedChain WITH
    Genesis       <- Header(GenesisBlock),
    Lead          <- MAX_TIMESTAMP_DRIFT - RELAY_SLOT_DURATION,
    clock         <- now,
    included      <- {Header(b) : b \in IncludedBlocks}

\* Collators, import queues, validate_block and the relay chain together
\* implement one growing chain of included blocks: stale jobs, competing
\* candidates and dropped candidates never fork it, roll it back or repeat a
\* slot, a height or a relay parent.
ImplementsIncludedChain == Chain!Spec

\* The clock of the author of block i is at most a slot ahead of c's: i passes
\* the import queue of c from the moment it exists.
InTime(c, i) == Skew[SlotAuthor(blocks[i].slot)] <= Skew[c] + AuraSlotDuration

\* Every node imports every block that becomes the included head: a slow clock, a
\* missing parent or an author that stopped before it announced the block delays
\* the import but does not lose the block. Only the two together lose it, a block
\* that nobody announces and whose author's clock is more than a slot ahead of the
\* importer's: the import after its recovery is not repeated.
HeadReachesEveryNode ==
    \A c \in Collators : \A i \in 1..MaxBlocks :
        (/\ BestRelay.head = i
         /\ \A r \in RelayNumbers : relay[r].head \in lost => InTime(c, relay[r].head))
            ~> (i \in known[c])

=============================================================================
