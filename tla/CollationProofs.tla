--------------------------- MODULE CollationProofs ---------------------------
(***************************************************************************)
(* Theorems about Collation for every number of collators, every skew of   *)
(* their clocks and every choice of the durations.                         *)
(***************************************************************************)
EXTENDS Collation, TLAPS

-----------------------------------------------------------------------------
(* The inductive invariant.                                                *)

\* Relay blocks have increasing slots, none of which lies in the future.
RelaySlotsOrdered ==
    /\ now >= StartTime
    /\ \A r \in RelayNumbers : relay[r].slot * RELAY_SLOT_DURATION <= now
    /\ \A r, s \in RelayNumbers : r < s => relay[r].slot < relay[s].slot

\* A block extends the head at its relay parent, in a later slot.
BlocksFollowRequests ==
    \A i \in BlockIds :
        /\ blocks[i].slot = SlotAt(blocks[i].timestamp)
        /\ IF blocks[i].relayParent = 0
           THEN blocks[i].number = 0
           ELSE /\ blocks[i].parent = relay[blocks[i].relayParent].head
                /\ blocks[i].number = blocks[blocks[i].parent].number + 1
                /\ blocks[blocks[i].parent].slot < blocks[i].slot

\* Head and pending candidate at a relay block were built on earlier ones.
HeadsOlder ==
    \A r \in RelayNumbers :
        /\ blocks[relay[r].head].relayParent < r
        /\ relay[r].backed # 0 =>
            /\ blocks[relay[r].backed].relayParent \in 1..(r - 1)
            /\ blocks[relay[r].backed].parent = relay[r].head

\* What CheckInherents leaves true of the timestamps of head and candidate.
HeadTimes ==
    \A r \in RelayNumbers :
        /\ blocks[relay[r].head].number > 0 =>
            blocks[relay[r].head].timestamp + RELAY_SLOT_DURATION
                <= relay[r].slot * RELAY_SLOT_DURATION + MAX_TIMESTAMP_DRIFT
        /\ relay[r].backed # 0 =>
            blocks[relay[r].backed].timestamp
                <= relay[r].slot * RELAY_SLOT_DURATION + MAX_TIMESTAMP_DRIFT

\* Along the included chain slots grow at least as fast as block numbers.
HeadsInSlots ==
    \A r, s \in RelayNumbers : r <= s =>
        blocks[relay[s].head].slot - blocks[relay[r].head].slot
            >= blocks[relay[s].head].number - blocks[relay[r].head].number

IInv ==
    /\ TypeOK
    /\ RelaySlotsOrdered
    /\ BlocksFollowRequests
    /\ HeadsOlder
    /\ HeadTimes
    /\ HeadsInSlots

-----------------------------------------------------------------------------
(* Arithmetic and sequences.                                               *)

\* Division rounds down.
LEMMA DivBounds ==
    ASSUME NEW n \in Nat, NEW d \in Nat \ {0}
    PROVE  /\ n \div d \in Nat
           /\ (n \div d) * d <= n
           /\ n < (n \div d) * d + d
  OBVIOUS

\* Multiplication by a natural number is monotone.
LEMMA MulMonotone ==
    ASSUME NEW a \in Int, NEW b \in Int, NEW d \in Nat, a <= b
    PROVE  a * d <= b * d /\ a * d \in Int /\ b * d \in Int
  OBVIOUS

\* Multiplication distributes over sums and differences.
LEMMA MulDistributes ==
    ASSUME NEW a \in Int, NEW b \in Int, NEW d \in Int
    PROVE  (a + b) * d = a * d + b * d /\ (a - b) * d = a * d - b * d
  OBVIOUS

\* Lower bounds on differences add up.
LEMMA DifferencesAdd ==
    ASSUME NEW a \in Int, NEW b \in Int, NEW c \in Int,
           NEW x \in Int, NEW y \in Int, NEW z \in Int,
           b - a >= y - x, c - b >= z - y
    PROVE  c - a >= z - x
  OBVIOUS

\* Appending to a sequence adds one element and keeps the others.
LEMMA AppendFacts ==
    ASSUME NEW T, NEW s \in Seq(T), NEW e \in T
    PROVE  /\ Append(s, e) \in Seq(T)
           /\ Len(s) \in Nat
           /\ Len(Append(s, e)) = Len(s) + 1
           /\ Append(s, e)[Len(s) + 1] = e
           /\ \A i \in 1..Len(s) : Append(s, e)[i] = s[i] /\ s[i] \in T
           /\ s # << >> => Len(s) \in 1..Len(s)
  OBVIOUS

\* Aura's slot duration is a positive number.
LEMMA SlotDurationPositive == AuraSlotDuration \in Nat \ {0}
  BY DurationAssumption DEF AuraSlotDuration, MinimumPeriod

-----------------------------------------------------------------------------

\* The fields of recorded blocks and relay blocks are natural numbers.
LEMMA FieldTypes ==
    ASSUME TypeOK
    PROVE  /\ Len(blocks) \in Nat /\ Len(relay) \in Nat /\ Len(relay) \in RelayNumbers
           /\ \A i \in BlockIds :
                /\ blocks[i].parent \in BlockIds /\ blocks[i].relayParent \in 0..Len(relay)
                /\ blocks[i].slot \in Nat /\ blocks[i].number \in Nat
                /\ blocks[i].timestamp \in Nat
           /\ \A r \in RelayNumbers :
                /\ relay[r].head \in BlockIds /\ relay[r].backed \in 0..Len(blocks)
                /\ relay[r].slot \in Nat
<1>1. Len(blocks) \in Nat /\ Len(relay) \in Nat /\ Len(relay) \in RelayNumbers
  BY DEF TypeOK, RelayNumbers
<1>2. ASSUME NEW i \in BlockIds PROVE blocks[i] \in Block
  BY DEF TypeOK, BlockIds
<1>3. ASSUME NEW r \in RelayNumbers PROVE relay[r] \in RelayState
  BY DEF TypeOK, RelayNumbers
<1>4. ASSUME NEW i \in BlockIds
      PROVE  /\ blocks[i].parent \in BlockIds /\ blocks[i].relayParent \in 0..Len(relay)
             /\ blocks[i].slot \in Nat /\ blocks[i].number \in Nat
             /\ blocks[i].timestamp \in Nat
  <2>1. blocks[i].parent \in BlockIds /\ blocks[i].relayParent \in 0..Len(relay)
    BY DEF TypeOK
  <2> QED BY <2>1, <1>2 DEF Block
<1>5. ASSUME NEW r \in RelayNumbers
      PROVE  /\ relay[r].head \in BlockIds /\ relay[r].backed \in 0..Len(blocks)
             /\ relay[r].slot \in Nat
  <2>1. relay[r].head \in BlockIds /\ relay[r].backed \in 0..Len(blocks)
    BY DEF TypeOK
  <2> QED BY <2>1, <1>3 DEF RelayState
<1> QED
  BY <1>1, <1>4, <1>5

\* The initial state satisfies the inductive invariant.
LEMMA InitIInv == Init => IInv
<1> SUFFICES ASSUME Init PROVE IInv
  OBVIOUS
<1> USE DEF Init, GenesisBlock, BlockIds, RelayNumbers
<1>1. Len(relay) = 1 /\ Len(blocks) = 1
  OBVIOUS
<1>2. /\ StartTime \div RELAY_SLOT_DURATION \in Nat
      /\ (StartTime \div RELAY_SLOT_DURATION) * RELAY_SLOT_DURATION <= StartTime
  BY DivBounds, TimeAssumption, DurationAssumption
<1>3. TypeOK
  BY <1>1, <1>2, TimeAssumption DEF TypeOK, Block, RelayState
<1>4. RelaySlotsOrdered
  BY <1>1, <1>2, TimeAssumption DEF RelaySlotsOrdered
<1>5. SlotAt(0) = 0
  BY SlotDurationPositive DEF SlotAt
<1>6. BlocksFollowRequests
  BY <1>1, <1>5 DEF BlocksFollowRequests
<1>7. HeadsOlder /\ HeadTimes /\ HeadsInSlots
  BY <1>1 DEF HeadsOlder, HeadTimes, HeadsInSlots
<1> QED
  BY <1>3, <1>4, <1>6, <1>7 DEF IInv

\* A relay block preserves the invariant when its head and its candidate are
\* blocks that the previous state vouches for.
LEMMA AppendRelayIInv ==
    ASSUME IInv, NEW h \in BlockIds, NEW k \in 0..Len(blocks),
           AppendRelayBlock(h, k),
           blocks[h].relayParent <= Len(relay),
           k # 0 => blocks[k].relayParent \in 1..Len(relay) /\ blocks[k].parent = h,
           blocks[h].number > 0 =>
               blocks[h].timestamp + RELAY_SLOT_DURATION
                   <= (now \div RELAY_SLOT_DURATION) * RELAY_SLOT_DURATION + MAX_TIMESTAMP_DRIFT,
           k # 0 =>
               blocks[k].timestamp
                   <= (now \div RELAY_SLOT_DURATION) * RELAY_SLOT_DURATION + MAX_TIMESTAMP_DRIFT,
           blocks[h].slot - ParaHead.slot >= blocks[h].number - ParaHead.number
    PROVE  IInv'
<1> DEFINE n == Len(relay)
           slot == now \div RELAY_SLOT_DURATION
           e == [slot |-> slot, head |-> h, backed |-> k]
<1>1. relay \in Seq(RelayState) /\ relay # << >> /\ now \in Nat /\ blocks \in Seq(Block)
  BY DEF IInv, TypeOK
<1>2. slot \in Nat /\ slot * RELAY_SLOT_DURATION <= now
  BY <1>1, DivBounds, DurationAssumption
<1>3. e \in RelayState
  BY <1>1, <1>2 DEF BlockIds, RelayState
<1>4. relay' = Append(relay, e) /\ relay[n].slot < slot /\ UNCHANGED <<now, blocks, job, known, lost, refused>>
  BY <1>2, FieldTypes DEF AppendRelayBlock, BestRelay, IInv
<1>5. /\ relay' \in Seq(RelayState) /\ relay' # << >>
      /\ n \in Nat /\ n \in 1..n /\ Len(relay') = n + 1
      /\ relay'[n + 1] = e
      /\ \A r \in 1..n : relay'[r] = relay[r]
  <2>1. n \in Nat /\ n \in 1..n /\ Len(relay') = n + 1 /\ relay' \in Seq(RelayState)
    <3> HIDE DEF e
    <3> QED BY <1>1, <1>3, <1>4, AppendFacts
  <2>2. relay'[n + 1] = e /\ \A r \in 1..n : relay'[r] = relay[r]
    <3> HIDE DEF e
    <3> QED BY <1>1, <1>3, <1>4, AppendFacts
  <2> QED BY <2>1, <2>2
<1>6. /\ relay'[n + 1].slot = slot /\ relay'[n + 1].head = h /\ relay'[n + 1].backed = k
      /\ RelayNumbers' = 1..(n + 1) /\ RelayNumbers = 1..n /\ BlockIds' = BlockIds
  BY <1>4, <1>5 DEF RelayNumbers, BlockIds
<1>7. UNCHANGED <<now, blocks, job, known, lost, refused>>
  BY <1>4
<1> DEFINE Fields == /\ \A i \in BlockIds :
                            /\ blocks[i].parent \in BlockIds /\ blocks[i].relayParent \in 0..n
                            /\ blocks[i].slot \in Nat /\ blocks[i].number \in Nat
                            /\ blocks[i].timestamp \in Nat
                     /\ \A r \in 1..n :
                            /\ relay[r].head \in BlockIds /\ relay[r].backed \in 0..Len(blocks)
                            /\ relay[r].slot \in Nat
<1>8. Fields /\ (k # 0 => k \in BlockIds)
  BY FieldTypes, <1>6 DEF IInv, BlockIds
<1>9. TypeOK'
  <2>1. /\ job' \in [Collators -> 0..Len(relay')] /\ known' \in [Collators -> SUBSET BlockIds']
        /\ lost' \subseteq BlockIds' /\ refused' \in [Collators -> SUBSET BlockIds']
    <3>1. /\ job \in [Collators -> 0..n] /\ known \in [Collators -> SUBSET BlockIds]
          /\ lost \subseteq BlockIds /\ refused \in [Collators -> SUBSET BlockIds]
      BY DEF IInv, TypeOK
    <3>2. 0..n \subseteq 0..(n + 1)
      BY <1>5
    <3>3. job \in [Collators -> 0..(n + 1)]
      BY <3>1, <3>2
    <3> QED BY <3>1, <3>3, <1>5, <1>6, <1>7
  <2>2. \A i \in BlockIds : blocks[i].relayParent \in 0..(n + 1)
    BY <1>5, <1>8
  <2>3. \A r \in 1..(n + 1) : relay'[r].head \in BlockIds /\ relay'[r].backed \in 0..Len(blocks)
    <3> SUFFICES ASSUME NEW r \in 1..(n + 1)
                 PROVE  relay'[r].head \in BlockIds /\ relay'[r].backed \in 0..Len(blocks)
      OBVIOUS
    <3>1. CASE r \in 1..n
      BY <3>1, <1>5, <1>8
    <3>2. CASE r = n + 1
      BY <3>2, <1>6
    <3> QED BY <3>1, <3>2, <1>5
  <2> QED
    <3>1. /\ blocks' = blocks /\ Len(blocks') = Len(blocks) /\ now' \in Nat
          /\ blocks # << >> /\ relay' \in Seq(RelayState)
      BY <1>1, <1>5, <1>7 DEF IInv, TypeOK
    <3>2. \A i \in BlockIds : blocks[i].parent \in BlockIds
      BY <1>8
    <3> HIDE DEF n, slot, e, Fields
    <3> QED BY <1>1, <1>5, <1>6, <2>1, <2>2, <2>3, <3>1, <3>2 DEF TypeOK
<1> HIDE DEF n, slot, e
<1>10. RelaySlotsOrdered'
  <2>1. now >= StartTime /\ \A r \in 1..n : relay[r].slot * RELAY_SLOT_DURATION <= now
    BY <1>6 DEF IInv, RelaySlotsOrdered
  <2>2. \A r, s \in 1..n : r < s => relay[r].slot < relay[s].slot
    BY <1>6 DEF IInv, RelaySlotsOrdered
  <2>3. \A r \in 1..n : relay[r].slot < slot
    <3> SUFFICES ASSUME NEW r \in 1..n PROVE relay[r].slot < slot
      OBVIOUS
    <3>1. relay[n].slot < slot
      BY <1>4 DEF n
    <3>2. n \in 1..n /\ relay[r].slot \in Nat /\ relay[n].slot \in Nat /\ slot \in Int
      BY <1>2, <1>5, <1>8
    <3>3. r < n => relay[r].slot < relay[n].slot
      BY <2>2, <3>2
    <3>4. r = n \/ r < n
      BY <3>2
    <3> HIDE DEF Fields
    <3> QED BY <3>1, <3>2, <3>3, <3>4
  <2>4. \A r \in 1..(n + 1) : relay'[r].slot * RELAY_SLOT_DURATION <= now
    BY <2>1, <1>2, <1>5, <1>6
  <2>5. \A r, s \in 1..(n + 1) : r < s => relay'[r].slot < relay'[s].slot
    BY <2>2, <2>3, <1>5, <1>6
  <2> QED
    BY <2>1, <2>4, <2>5, <1>6, <1>7 DEF RelaySlotsOrdered
<1>11. BlocksFollowRequests'
  <2> SUFFICES ASSUME NEW i \in BlockIds, blocks[i].relayParent # 0
               PROVE  relay'[blocks[i].relayParent].head = relay[blocks[i].relayParent].head
    BY <1>6, <1>7 DEF IInv, BlocksFollowRequests, SlotAt
  <2> QED
    BY <1>5, <1>8
<1>12. HeadsOlder'
  <2> SUFFICES ASSUME NEW r \in 1..(n + 1)
               PROVE  /\ blocks[relay'[r].head].relayParent < r
                      /\ relay'[r].backed # 0 =>
                            /\ blocks[relay'[r].backed].relayParent \in 1..(r - 1)
                            /\ blocks[relay'[r].backed].parent = relay'[r].head
    BY <1>6, <1>7 DEF HeadsOlder
  <2>1. CASE r \in 1..n
    BY <2>1, <1>5, <1>6 DEF IInv, HeadsOlder
  <2>2. CASE r = n + 1
    BY <2>2, <1>5, <1>6, <1>8 DEF n
  <2> QED BY <2>1, <2>2, <1>5
<1>13. HeadTimes'
  <2> SUFFICES ASSUME NEW r \in 1..(n + 1)
               PROVE  /\ blocks[relay'[r].head].number > 0 =>
                            blocks[relay'[r].head].timestamp + RELAY_SLOT_DURATION
                                <= relay'[r].slot * RELAY_SLOT_DURATION + MAX_TIMESTAMP_DRIFT
                      /\ relay'[r].backed # 0 =>
                            blocks[relay'[r].backed].timestamp
                                <= relay'[r].slot * RELAY_SLOT_DURATION + MAX_TIMESTAMP_DRIFT
    BY <1>6, <1>7 DEF HeadTimes
  <2>1. CASE r \in 1..n
    BY <2>1, <1>5, <1>6 DEF IInv, HeadTimes
  <2>2. CASE r = n + 1
    BY <2>2, <1>6 DEF slot
  <2> QED BY <2>1, <2>2, <1>5
<1>14. HeadsInSlots'
  <2> SUFFICES ASSUME NEW r \in 1..(n + 1), NEW s \in 1..(n + 1), r <= s
               PROVE  blocks[relay'[s].head].slot - blocks[relay'[r].head].slot
                          >= blocks[relay'[s].head].number - blocks[relay'[r].head].number
    BY <1>6, <1>7 DEF HeadsInSlots
  <2>1. CASE s \in 1..n
    BY <2>1, <1>5, <1>6 DEF IInv, HeadsInSlots
  <2>2. CASE s = n + 1 /\ r \in 1..n
    <3>1. blocks[relay[n].head].slot - blocks[relay[r].head].slot
              >= blocks[relay[n].head].number - blocks[relay[r].head].number
      BY <2>2, <1>5, <1>6 DEF IInv, HeadsInSlots
    <3>2. blocks[h].slot - blocks[relay[n].head].slot >= blocks[h].number - blocks[relay[n].head].number
      BY DEF ParaHead, BestRelay, n
    <3>3. relay'[s].head = h /\ relay'[r].head = relay[r].head
      BY <2>2, <1>5, <1>6
    <3>4. /\ relay[r].head \in BlockIds /\ relay[n].head \in BlockIds
          /\ \A i \in BlockIds : blocks[i].slot \in Nat /\ blocks[i].number \in Nat
      BY <2>2, <1>5, <1>8
    <3>5. blocks[h].slot - blocks[relay[r].head].slot >= blocks[h].number - blocks[relay[r].head].number
      <4> DEFINE a == blocks[relay[r].head]
                 b == blocks[relay[n].head]
                 c == blocks[h]
      <4>1. /\ a.slot \in Int /\ b.slot \in Int /\ c.slot \in Int
            /\ a.number \in Int /\ b.number \in Int /\ c.number \in Int
        BY <3>4
      <4>2. b.slot - a.slot >= b.number - a.number /\ c.slot - b.slot >= c.number - b.number
        BY <3>1, <3>2
      <4> HIDE DEF a, b, c
      <4>3. c.slot - a.slot >= c.number - a.number
        BY <4>1, <4>2, DifferencesAdd
      <4> QED BY <4>3 DEF a, c
    <3> QED BY <3>3, <3>5
  <2>3. CASE s = n + 1 /\ r = n + 1
    BY <2>3, <1>6, <1>8
  <2> QED BY <2>1, <2>2, <2>3, <1>5
<1> QED
  BY <1>9, <1>10, <1>11, <1>12, <1>13, <1>14 DEF IInv

\* What build_consensus takes from the clock and the request is well typed.
LEMMA CandidateFacts ==
    ASSUME IInv, NEW c \in Collators, job[c] # 0
    PROVE  /\ job[c] \in RelayNumbers
           /\ Candidate(c) \in Block
           /\ Candidate(c).parent = relay[job[c]].head
           /\ Candidate(c).parent \in BlockIds
           /\ Candidate(c).relayParent = job[c]
           /\ Candidate(c).number = blocks[relay[job[c]].head].number + 1
<1>1. job[c] \in RelayNumbers
  BY FieldTypes DEF IInv, TypeOK, RelayNumbers
<1>2. Clock(c) \in Nat
  BY TimeAssumption DEF IInv, TypeOK, RelaySlotsOrdered, Clock
<1>3. SlotAt(Clock(c)) \in Nat
  BY <1>2, DivBounds, SlotDurationPositive DEF SlotAt
<1>4. relay[job[c]].head \in BlockIds /\ blocks[relay[job[c]].head].number \in Nat
  BY <1>1, FieldTypes DEF IInv
<1>5. relay[job[c]].head \in Nat /\ job[c] \in Nat
  BY <1>1, <1>4 DEF BlockIds, RelayNumbers
<1>6. CreateInherent(blocks[relay[job[c]].head], Clock(c)) \in Nat
  BY <1>2, <1>4, FieldTypes, DurationAssumption DEF IInv, CreateInherent, MinimumPeriod
<1> QED
  BY <1>1, <1>3, <1>4, <1>5, <1>6 DEF Candidate, CandidateOn, ParentHead, Block

\* A proposal preserves the invariant: the new block follows its request.
LEMMA ProposeIInv ==
    ASSUME IInv, NEW c \in Collators, Propose(c)
    PROVE  IInv'
<1> DEFINE m == Len(blocks)
           b == Candidate(c)
<1>1. /\ b \in Block /\ b.parent = relay[job[c]].head /\ b.parent \in BlockIds
      /\ b.relayParent = job[c] /\ job[c] \in RelayNumbers
      /\ b.number = blocks[b.parent].number + 1
  BY CandidateFacts DEF Propose
<1>2. blocks[b.parent].slot < b.slot /\ b.slot = SlotAt(b.timestamp)
  BY DEF Propose, CanBuild, RuntimeAccepts, AuraOnInitialize, AuraOnTimestampSet
<1>3. /\ blocks' = Append(blocks, b) /\ UNCHANGED <<now, relay, refused>>
      /\ job' = [job EXCEPT ![c] = 0]
      /\ known' = [known EXCEPT ![c] = @ \cup {m + 1}]
      /\ lost' \subseteq lost \cup {m + 1}
  BY DEF Propose
<1>4. blocks \in Seq(Block)
  BY DEF IInv, TypeOK
<1>5. /\ blocks' \in Seq(Block) /\ m \in Nat /\ Len(blocks') = m + 1
      /\ blocks'[m + 1] = b
      /\ \A i \in 1..m : blocks'[i] = blocks[i]
  <2> HIDE DEF b
  <2> QED BY <1>1, <1>3, <1>4, AppendFacts
<1>6. /\ BlockIds' = 1..(m + 1) /\ BlockIds = 1..m /\ BlockIds \subseteq BlockIds'
      /\ RelayNumbers' = RelayNumbers /\ Len(relay') = Len(relay)
  BY <1>3, <1>5 DEF BlockIds, RelayNumbers
<1>7. /\ \A i \in BlockIds :
            /\ blocks[i].parent \in BlockIds /\ blocks[i].relayParent \in 0..Len(relay)
            /\ blocks[i].slot \in Nat /\ blocks[i].number \in Nat
            /\ blocks[i].timestamp \in Nat
      /\ \A r \in RelayNumbers :
            /\ relay[r].head \in BlockIds /\ relay[r].backed \in 0..m
            /\ relay[r].backed # 0 => relay[r].backed \in BlockIds
  BY FieldTypes DEF IInv, BlockIds
<1> HIDE DEF m, b
<1>8. TypeOK'
  <2>1. job' \in [Collators -> 0..Len(relay')]
    BY <1>3, <1>6, FieldTypes DEF IInv, TypeOK
  <2>2. /\ known' \in [Collators -> SUBSET BlockIds'] /\ lost' \subseteq BlockIds'
        /\ refused' \in [Collators -> SUBSET BlockIds']
    <3>1. /\ known \in [Collators -> SUBSET BlockIds] /\ m + 1 \in BlockIds' /\ lost \subseteq BlockIds
          /\ refused \in [Collators -> SUBSET BlockIds]
      BY <1>5, <1>6 DEF IInv, TypeOK
    <3> QED BY <3>1, <1>3, <1>6
  <2>3. \A i \in 1..(m + 1) : blocks'[i].parent \in 1..(m + 1) /\ blocks'[i].relayParent \in 0..Len(relay)
    <3> SUFFICES ASSUME NEW i \in 1..(m + 1)
                 PROVE  blocks'[i].parent \in 1..(m + 1) /\ blocks'[i].relayParent \in 0..Len(relay)
      OBVIOUS
    <3>1. CASE i \in 1..m
      BY <3>1, <1>5, <1>6, <1>7
    <3>2. CASE i = m + 1
      BY <3>2, <1>1, <1>5, <1>6 DEF RelayNumbers
    <3> QED BY <3>1, <3>2, <1>5
  <2>4. \A r \in RelayNumbers : relay[r].head \in 1..(m + 1) /\ relay[r].backed \in 0..(m + 1)
    BY <1>5, <1>6, <1>7
  <2>5. now \in Nat /\ relay \in Seq(RelayState) /\ relay # << >> /\ blocks' # << >>
    BY <1>5 DEF IInv, TypeOK
  <2> QED
    BY <1>3, <1>5, <1>6, <2>1, <2>2, <2>3, <2>4, <2>5 DEF TypeOK
<1>9. RelaySlotsOrdered'
  BY <1>3, <1>6 DEF IInv, RelaySlotsOrdered
<1>10. BlocksFollowRequests'
  <2> DEFINE Follows(i) ==
        /\ blocks'[i].slot = SlotAt(blocks'[i].timestamp)
        /\ IF blocks'[i].relayParent = 0
           THEN blocks'[i].number = 0
           ELSE /\ blocks'[i].parent = relay[blocks'[i].relayParent].head
                /\ blocks'[i].number = blocks'[blocks'[i].parent].number + 1
                /\ blocks'[blocks'[i].parent].slot < blocks'[i].slot
  <2>1. ASSUME NEW i \in 1..m PROVE Follows(i)
    <3>1. blocks'[i] = blocks[i] /\ blocks'[blocks[i].parent] = blocks[blocks[i].parent]
      BY <1>5, <1>6, <1>7
    <3> QED BY <3>1, <1>6 DEF IInv, BlocksFollowRequests
  <2>2. Follows(m + 1)
    <3>1. blocks'[m + 1] = b /\ blocks'[b.parent] = blocks[b.parent] /\ b.relayParent # 0
      BY <1>1, <1>5, <1>6 DEF RelayNumbers
    <3> QED BY <3>1, <1>1, <1>2
  <2>3. \A i \in 1..(m + 1) : Follows(i)
    BY <2>1, <2>2, <1>5
  <2> QED BY <2>3, <1>3, <1>6 DEF BlocksFollowRequests, SlotAt
<1>11. \A i \in BlockIds : blocks'[i] = blocks[i]
  BY <1>5, <1>6
<1>12. HeadsOlder'
  BY <1>3, <1>6, <1>7, <1>11 DEF IInv, HeadsOlder
<1>13. HeadTimes'
  BY <1>3, <1>6, <1>7, <1>11 DEF IInv, HeadTimes
<1>14. HeadsInSlots'
  BY <1>3, <1>6, <1>7, <1>11 DEF IInv, HeadsInSlots
<1> QED
  BY <1>8, <1>9, <1>10, <1>12, <1>13, <1>14 DEF IInv

\* Both kinds of relay block preserve the invariant.
LEMMA RelayIInv ==
    ASSUME IInv, RelayBlock \/ SettleCandidate
    PROVE  IInv'
<1> DEFINE n == Len(relay)
           h == BestRelay.head
           k == BestRelay.backed
           start == (now \div RELAY_SLOT_DURATION) * RELAY_SLOT_DURATION
           limit == BestRelay.slot * RELAY_SLOT_DURATION
<1>1. /\ n \in Nat /\ n \in RelayNumbers /\ h \in BlockIds /\ k \in 0..Len(blocks)
      /\ k # 0 => k \in BlockIds
      /\ BestRelay.slot \in Nat /\ now \in Nat /\ now \div RELAY_SLOT_DURATION \in Nat
  <2>1. TypeOK /\ now \in Nat
    BY DEF IInv, TypeOK
  <2>2. now \div RELAY_SLOT_DURATION \in Nat
    BY <2>1, DivBounds, DurationAssumption
  <2>3. n \in Nat /\ n \in RelayNumbers /\ Len(blocks) \in Nat
    BY <2>1, FieldTypes
  <2>4. h \in BlockIds /\ k \in 0..Len(blocks) /\ BestRelay.slot \in Nat
    BY <2>1, <2>3, FieldTypes DEF BestRelay
  <2> QED BY <2>1, <2>2, <2>3, <2>4 DEF BlockIds
<1>2. \A i \in BlockIds : /\ blocks[i].slot \in Nat /\ blocks[i].number \in Nat
                          /\ blocks[i].timestamp \in Nat /\ blocks[i].relayParent \in 0..n
  BY FieldTypes DEF IInv
<1>3. BestRelay = relay[n]
  BY DEF BestRelay
<1>4. blocks[h].relayParent < n /\ (k # 0 => blocks[k].relayParent \in 1..(n - 1) /\ blocks[k].parent = h)
  BY <1>1, <1>3 DEF IInv, HeadsOlder
<1>5. /\ blocks[h].number > 0 => blocks[h].timestamp + RELAY_SLOT_DURATION <= limit + MAX_TIMESTAMP_DRIFT
      /\ k # 0 => blocks[k].timestamp <= limit + MAX_TIMESTAMP_DRIFT
  BY <1>1, <1>3 DEF IInv, HeadTimes
<1>6. now \div RELAY_SLOT_DURATION > BestRelay.slot =>
        start \in Int /\ limit \in Int /\ limit + RELAY_SLOT_DURATION <= start
  <2> SUFFICES ASSUME BestRelay.slot + 1 <= now \div RELAY_SLOT_DURATION
               PROVE  start \in Int /\ limit \in Int /\ limit + RELAY_SLOT_DURATION <= start
    BY <1>1
  <2>1. (BestRelay.slot + 1) * RELAY_SLOT_DURATION <= start /\ start \in Int
    BY <1>1, MulMonotone, DurationAssumption
  <2>2. limit \in Int /\ (BestRelay.slot + 1) * RELAY_SLOT_DURATION = limit + RELAY_SLOT_DURATION
    BY <1>1, DurationAssumption
  <2> QED BY <2>1, <2>2
<1>7. blocks[h].slot - ParaHead.slot >= blocks[h].number - ParaHead.number
  BY <1>1, <1>2 DEF ParaHead
<1> HIDE DEF n, h, k, start, limit
<1>8. ASSUME now \div RELAY_SLOT_DURATION > BestRelay.slot
       PROVE  /\ blocks[h].number > 0 =>
                    blocks[h].timestamp + RELAY_SLOT_DURATION <= start + MAX_TIMESTAMP_DRIFT
              /\ k # 0 => blocks[k].timestamp <= start + MAX_TIMESTAMP_DRIFT
  <2>1. start \in Int /\ limit \in Int /\ limit + RELAY_SLOT_DURATION <= start
    BY <1>6, <1>8
  <2>2. blocks[h].timestamp \in Nat /\ (k # 0 => blocks[k].timestamp \in Nat)
    BY <1>1, <1>2
  <2>3. blocks[h].number > 0 =>
            blocks[h].timestamp + RELAY_SLOT_DURATION <= start + MAX_TIMESTAMP_DRIFT
    BY <1>5, <2>1, <2>2, DurationAssumption
  <2>4. k # 0 => blocks[k].timestamp <= start + MAX_TIMESTAMP_DRIFT
    BY <1>5, <2>1, <2>2, DurationAssumption
  <2> QED BY <2>3, <2>4
<1>9. CASE AppendRelayBlock(h, k)
  <2>1. /\ blocks[h].number > 0 => blocks[h].timestamp + RELAY_SLOT_DURATION <= start + MAX_TIMESTAMP_DRIFT
        /\ k # 0 => blocks[k].timestamp <= start + MAX_TIMESTAMP_DRIFT
    BY <1>9, <1>8 DEF AppendRelayBlock
  <2>2. blocks[h].relayParent <= n /\ (k # 0 => blocks[k].relayParent \in 1..n /\ blocks[k].parent = h)
    BY <1>1, <1>2, <1>4
  <2> QED BY <1>1, <1>7, <1>9, <2>1, <2>2, AppendRelayIInv DEF n, start
<1>10. ASSUME NEW i \in BlockIds, BackCandidate(i), AppendRelayBlock(h, i)
      PROVE  IInv'
  <2>1. /\ blocks[i].parent = h /\ blocks[i].relayParent = n /\ i \in 0..Len(blocks)
        /\ blocks[i].timestamp <= (BestRelay.slot + 1) * RELAY_SLOT_DURATION + MAX_TIMESTAMP_DRIFT
    BY <1>3, <1>10 DEF BackCandidate, ValidateBlock, CheckInherents, TimestampCheckInherent,
                      RelayTimestamp, h, n, BlockIds
  <2>2. (BestRelay.slot + 1) * RELAY_SLOT_DURATION = limit + RELAY_SLOT_DURATION
    BY <1>1, DurationAssumption DEF limit
  <2>3. /\ blocks[h].number > 0 => blocks[h].timestamp + RELAY_SLOT_DURATION <= start + MAX_TIMESTAMP_DRIFT
        /\ blocks[i].timestamp <= start + MAX_TIMESTAMP_DRIFT
    <3>1. start \in Int /\ limit \in Int /\ limit + RELAY_SLOT_DURATION <= start
      BY <1>6, <1>10 DEF AppendRelayBlock
    <3>2. blocks[i].timestamp <= start + MAX_TIMESTAMP_DRIFT
      BY <1>2, <2>1, <2>2, <3>1, DurationAssumption
    <3> QED BY <1>10, <1>8, <3>2 DEF AppendRelayBlock
  <2>4. blocks[h].relayParent <= n /\ blocks[i].relayParent \in 1..n
    BY <1>1, <1>2, <1>4, <2>1 DEF RelayNumbers, n
  <2> QED BY <1>1, <1>7, <1>10, <2>1, <2>3, <2>4, AppendRelayIInv DEF n, start
<1>11. CASE k # 0 /\ AppendRelayBlock(k, 0)
  <2>1. k \in BlockIds /\ blocks[k].relayParent \in 1..(n - 1) /\ blocks[k].parent = h
    BY <1>1, <1>4, <1>11
  <2>2. blocks[k].timestamp + RELAY_SLOT_DURATION <= start + MAX_TIMESTAMP_DRIFT
    BY <1>1, <1>2, <1>5, <1>6, <1>11, DurationAssumption DEF AppendRelayBlock
  <2>3. blocks[k].number = blocks[h].number + 1 /\ blocks[h].slot < blocks[k].slot
    BY <1>1, <2>1 DEF IInv, BlocksFollowRequests
  <2>4. blocks[k].slot - ParaHead.slot >= blocks[k].number - ParaHead.number
    <3>1. /\ blocks[h].slot \in Nat /\ blocks[h].number \in Nat
          /\ blocks[k].slot \in Nat /\ blocks[k].number \in Nat
      BY <1>1, <1>2, <2>1
    <3>2. ParaHead = blocks[h]
      BY DEF ParaHead, h
    <3> DEFINE x == blocks[h].slot
               y == blocks[k].slot
               u == blocks[h].number
               v == blocks[k].number
    <3> HIDE DEF x, y, u, v
    <3>3. x \in Nat /\ y \in Nat /\ u \in Nat /\ v \in Nat /\ v = u + 1 /\ x < y
      BY <3>1, <2>3 DEF x, y, u, v
    <3>4. y - x >= v - u
      BY <3>3
    <3> QED BY <3>2, <3>4 DEF x, y, u, v
  <2>5. blocks[k].relayParent <= n /\ 0 \in 0..Len(blocks)
    BY <1>1, <2>1, FieldTypes DEF IInv
  <2> QED BY <1>11, <2>1, <2>2, <2>4, <2>5, AppendRelayIInv DEF n, start
<1>12. CASE AppendRelayBlock(h, 0)
  <2>1. blocks[h].number > 0 => blocks[h].timestamp + RELAY_SLOT_DURATION <= start + MAX_TIMESTAMP_DRIFT
    BY <1>12, <1>8 DEF AppendRelayBlock
  <2>2. blocks[h].relayParent <= n /\ 0 \in 0..Len(blocks)
    BY <1>1, <1>2, <1>4, FieldTypes DEF IInv
  <2> QED BY <1>1, <1>7, <1>12, <2>1, <2>2, AppendRelayIInv DEF n, start
<1> QED
  BY <1>9, <1>10, <1>11, <1>12 DEF RelayBlock, SettleCandidate, h, k

\* The other actions leave relay blocks and parachain blocks alone.
LEMMA QuietIInv ==
    ASSUME IInv, UNCHANGED <<relay, blocks>>, now' \in Nat, now' >= now,
           job' \in [Collators -> 0..Len(relay)], known' \in [Collators -> SUBSET BlockIds],
           refused' \in [Collators -> SUBSET BlockIds], lost' = lost
    PROVE  IInv'
<1>1. BlockIds' = BlockIds /\ RelayNumbers' = RelayNumbers /\ Len(relay') = Len(relay)
  BY DEF BlockIds, RelayNumbers
<1>2. TypeOK'
  BY <1>1 DEF IInv, TypeOK
<1>3. RelaySlotsOrdered'
  <2>1. \A r \in RelayNumbers : relay[r].slot * RELAY_SLOT_DURATION \in Int
    BY FieldTypes, DurationAssumption DEF IInv
  <2>2. now \in Nat /\ StartTime \in Nat
    BY TimeAssumption DEF IInv, TypeOK
  <2> QED BY <1>1, <2>1, <2>2 DEF IInv, RelaySlotsOrdered
<1>4. BlocksFollowRequests' /\ HeadsOlder' /\ HeadTimes' /\ HeadsInSlots'
  BY <1>1 DEF IInv, BlocksFollowRequests, HeadsOlder, HeadTimes, HeadsInSlots, SlotAt
<1> QED
  BY <1>2, <1>3, <1>4 DEF IInv

\* Every step preserves the inductive invariant.
LEMMA NextIInv == IInv /\ [Next]_vars => IInv'
<1> SUFFICES ASSUME IInv, [Next]_vars PROVE IInv'
  OBVIOUS
<1>0. /\ now \in Nat /\ Len(relay) \in Nat /\ Len(relay) \in RelayNumbers
      /\ job \in [Collators -> 0..Len(relay)] /\ known \in [Collators -> SUBSET BlockIds]
      /\ refused \in [Collators -> SUBSET BlockIds]
  BY FieldTypes DEF IInv, TypeOK
<1>1. CASE Tick
  BY <1>0, <1>1, QuietIInv DEF Tick
<1>2. CASE Horizon
  BY <1>0, <1>2, QuietIInv DEF Horizon, vars
<1>3. CASE RelayBlock \/ SettleCandidate
  BY <1>3, RelayIInv
<1>4. ASSUME NEW c \in Collators, Collate(c) \/ InherentUnavailable(c) \/ SkipSlot(c)
      PROVE  IInv'
  <2>1. job' \in [Collators -> 0..Len(relay)]
    BY <1>0, <1>4 DEF Collate, InherentUnavailable, SkipSlot
  <2>2. UNCHANGED <<now, relay, blocks, known, lost, refused>>
    BY <1>4 DEF Collate, InherentUnavailable, SkipSlot
  <2> QED BY <1>0, <2>1, <2>2, QuietIInv
<1>5. ASSUME NEW c \in Collators, Propose(c)
      PROVE  IInv'
  BY <1>5, ProposeIInv
<1>6. ASSUME NEW c \in Collators, NEW i \in 1..MaxBlocks, Import(c, i) \/ Recover(c, i)
      PROVE  IInv'
  <2>1. /\ known' \in [Collators -> SUBSET BlockIds] /\ refused' \in [Collators -> SUBSET BlockIds]
        /\ UNCHANGED <<now, relay, blocks, job, lost>>
    BY <1>0, <1>6 DEF Import, Recover, Importable
  <2> QED BY <1>0, <2>1, QuietIInv
<1>7. CASE UNCHANGED vars
  BY <1>0, <1>7, QuietIInv DEF vars
<1> QED
  BY <1>1, <1>2, <1>3, <1>4, <1>5, <1>6, <1>7 DEF Next

\* The inductive invariant holds in every reachable state.
THEOREM InvariantHolds == Spec => []IInv
  BY InitIInv, NextIInv, PTL DEF Spec

-----------------------------------------------------------------------------
(* The properties of the model.                                            *)

\* Blocks, relay blocks and requests always refer to what exists.
THEOREM TypeCorrect == Spec => []TypeOK
<1>1. IInv => TypeOK
  BY DEF IInv
<1> QED BY <1>1, InvariantHolds, PTL

\* The included head is never further ahead of the relay chain's clock than
\* the drift of CheckInherents less one relay slot, for every set of clocks.
THEOREM HeadTimeBounded == Spec => []HeadNotAheadOfRelay
<1>1. IInv => HeadNotAheadOfRelay
  <2> SUFFICES ASSUME IInv, ParaHead.number > 0
               PROVE  ParaHead.timestamp <= now + MAX_TIMESTAMP_DRIFT - RELAY_SLOT_DURATION
    BY DEF HeadNotAheadOfRelay
  <2>1. /\ Len(relay) \in RelayNumbers /\ BestRelay.slot \in Nat /\ now \in Nat
        /\ ParaHead.timestamp \in Nat
    BY FieldTypes DEF IInv, TypeOK, BestRelay, ParaHead
  <2>2. /\ BestRelay.slot * RELAY_SLOT_DURATION <= now
        /\ ParaHead.timestamp + RELAY_SLOT_DURATION
              <= BestRelay.slot * RELAY_SLOT_DURATION + MAX_TIMESTAMP_DRIFT
    BY <2>1 DEF IInv, RelaySlotsOrdered, HeadTimes, ParaHead, BestRelay
  <2>3. BestRelay.slot * RELAY_SLOT_DURATION \in Int
    BY <2>1, DurationAssumption
  <2> QED BY <2>1, <2>2, <2>3, DurationAssumption
<1> QED BY <1>1, InvariantHolds, PTL

\* A candidate never fails RelayNumberStrictlyIncreases, however long the
\* inherent data provider waits between the request and the clock reading.
THEOREM RelayNumberFresh == Spec => []RelayNumberNeverStale
<1>1. IInv => RelayNumberNeverStale
  <2> SUFFICES ASSUME IInv, NEW c \in Collators, job[c] # 0
               PROVE  RelayNumberStrictlyIncreases(blocks[Candidate(c).parent], Candidate(c))
    BY DEF RelayNumberNeverStale
  <2>1. /\ Candidate(c).parent = relay[job[c]].head /\ Candidate(c).relayParent = job[c]
        /\ job[c] \in RelayNumbers
    BY CandidateFacts
  <2> QED BY <2>1 DEF IInv, HeadsOlder, RelayNumberStrictlyIncreases
<1> QED BY <1>1, InvariantHolds, PTL

\* When slots differ by at least n, timestamps in them differ by more than
\* n - 1 slot durations.
LEMMA SlotsSpanTime ==
    ASSUME NEW d \in Nat \ {0}, NEW t \in Nat, NEW u \in Nat, NEW n \in Int,
           u \div d - t \div d >= n
    PROVE  u - t > (n - 1) * d
<1> DEFINE x == t \div d
           y == u \div d
<1>1. /\ x \in Nat /\ y \in Nat /\ y * d <= u /\ t < x * d + d
      /\ x * d \in Int /\ y * d \in Int
  BY DivBounds
<1> HIDE DEF x, y
<1>2. (n - 1) * d <= (y - x - 1) * d /\ (n - 1) * d \in Int
  <2>1. n - 1 <= y - x - 1
    BY <1>1 DEF x, y
  <2> QED BY <1>1, <2>1, MulMonotone
<1>3. (y - x - 1) * d = y * d - x * d - d
  <2>1. (y - x - 1) * d = (y - x) * d - 1 * d
    BY <1>1, MulDistributes
  <2>2. (y - x) * d = y * d - x * d
    BY <1>1, MulDistributes
  <2> QED BY <2>1, <2>2
<1> QED
  BY <1>1, <1>2, <1>3

\* n blocks of a chain take more than n - 1 slots of time, for every sequence
\* of authorities and every skew of their clocks.
THEOREM BlockTimeBounded == Spec => []AverageBlockTime
<1>1. IInv => AverageBlockTime
  <2> SUFFICES ASSUME IInv, NEW i \in BlockIds, NEW r \in 1..blocks[i].relayParent
               PROVE  blocks[i].timestamp - blocks[relay[r].head].timestamp
                        > (blocks[i].number - blocks[relay[r].head].number - 1) * AuraSlotDuration
    BY DEF AverageBlockTime
  <2> DEFINE q == blocks[i].relayParent
             a == blocks[relay[r].head]
             p == blocks[relay[q].head]
             b == blocks[i]
  <2>1. q \in RelayNumbers /\ r \in RelayNumbers /\ r <= q /\ q # 0
    BY FieldTypes DEF IInv, RelayNumbers
  <2>2. /\ a.slot \in Nat /\ p.slot \in Nat /\ b.slot \in Nat
        /\ a.number \in Nat /\ p.number \in Nat /\ b.number \in Nat
        /\ a.timestamp \in Nat /\ b.timestamp \in Nat
    BY <2>1, FieldTypes DEF IInv
  <2>3. b.number = p.number + 1 /\ p.slot < b.slot
    BY <2>1 DEF IInv, BlocksFollowRequests
  <2>4. p.slot - a.slot >= p.number - a.number
    BY <2>1 DEF IInv, HeadsInSlots
  <2>5. a.slot = a.timestamp \div AuraSlotDuration /\ b.slot = b.timestamp \div AuraSlotDuration
    BY <2>1, FieldTypes DEF IInv, BlocksFollowRequests, SlotAt
  <2> HIDE DEF a, b, p, q
  <2>6. b.slot - a.slot >= b.number - a.number
    BY <2>2, <2>3, <2>4
  <2>7. b.number - a.number \in Int
    BY <2>2
  <2>8. b.timestamp - a.timestamp > (b.number - a.number - 1) * AuraSlotDuration
    BY <2>2, <2>5, <2>6, <2>7, SlotsSpanTime, SlotDurationPositive
  <2> QED BY <2>8 DEF a, b
<1> QED BY <1>1, InvariantHolds, PTL

\* Slots follow time: a slot duration later is a later slot, and at most a slot
\* duration later is at most the next slot.
LEMMA SlotsFollowTime ==
    ASSUME NEW d \in Nat \ {0}, NEW t \in Nat, NEW u \in Nat
    PROVE  /\ t + d <= u => t \div d < u \div d
           /\ u <= t + d => u \div d <= t \div d + 1
<1> DEFINE x == t \div d
           y == u \div d
<1>1. /\ x \in Nat /\ y \in Nat /\ x * d \in Int /\ y * d \in Int
      /\ x * d <= t /\ t < x * d + d /\ y * d <= u /\ u < y * d + d
  BY DivBounds
<1> HIDE DEF x, y
<1>2. t + d <= u => x < y
  <2> SUFFICES ASSUME t + d <= u, y <= x PROVE FALSE
    BY <1>1
  <2>1. y * d <= x * d
    BY <1>1, MulMonotone
  <2> QED BY <1>1, <2>1
<1>3. u <= t + d => y <= x + 1
  <2> SUFFICES ASSUME u <= t + d, x + 2 <= y PROVE FALSE
    BY <1>1
  <2>1. (x + 2) * d <= y * d
    BY <1>1, MulMonotone
  <2>2. (x + 2) * d = x * d + 2 * d
    BY <1>1, MulDistributes
  <2> QED BY <1>1, <2>1, <2>2
<1> QED
  BY <1>2, <1>3 DEF x, y

\* What a collator with a clock in step with the relay chain builds in time on the
\* newest relay block is accepted by validators and by its peers, for every
\* set of clocks (build_consensus, CheckInherents and build_import_queue agree).
THEOREM InTurnAuthorSucceeds == Spec => []InTurnAuthorAccepted
<1>1. IInv => InTurnAuthorAccepted
  <2> DEFINE n == Len(relay)
             b(c) == CandidateOn(c, n)
             p == ParaHead
  <2> SUFFICES ASSUME IInv, NEW c \in Collators,
                      Skew[c] <= MAX_TIMESTAMP_DRIFT,
                      Clock(c) >= p.timestamp + AuraSlotDuration,
                      now <= (BestRelay.slot + 1) * RELAY_SLOT_DURATION
               PROVE  /\ ValidateBlock(p, b(c))
                      /\ \A d \in Collators :
                            Clock(c) <= Clock(d) + AuraSlotDuration => ImportAccepts(d, b(c))
    BY DEF InTurnAuthorAccepted
  <2>1. /\ n \in RelayNumbers /\ n \in Nat /\ BestRelay = relay[n] /\ BestRelay.head \in BlockIds
        /\ BestRelay.slot \in Nat /\ p = blocks[BestRelay.head]
        /\ p.timestamp \in Nat /\ p.slot \in Nat
    BY FieldTypes DEF IInv, BestRelay, ParaHead
  <2>2. /\ p.relayParent < n /\ p.slot = SlotAt(p.timestamp)
    BY <2>1 DEF IInv, HeadsOlder, BlocksFollowRequests
  <2>3. now \in Nat /\ Skew[c] \in Int /\ \A d \in Collators : Clock(d) \in Nat
    BY TimeAssumption DEF IInv, TypeOK, RelaySlotsOrdered, Clock
  <2>4. /\ MinimumPeriod \in Nat /\ MinimumPeriod <= AuraSlotDuration
        /\ AuraSlotDuration <= SLOT_DURATION /\ AuraSlotDuration \in Nat \ {0}
    BY DurationAssumption, SlotDurationPositive DEF MinimumPeriod, AuraSlotDuration
  <2>5. Clock(c) >= p.timestamp + MinimumPeriod
    <3> HIDE DEF p
    <3> QED BY <2>1, <2>3, <2>4
  <2>6. /\ b(c).parent = BestRelay.head /\ b(c).relayParent = n
        /\ b(c).timestamp = Clock(c) /\ b(c).slot = SlotAt(Clock(c))
    BY <2>1, <2>5 DEF CandidateOn, CreateInherent, ParentHead
  <2> HIDE DEF n, b, p
  <2>7. RuntimeAccepts(p, b(c))
    <3>1. SlotAt(p.timestamp) < SlotAt(Clock(c))
      BY <2>1, <2>3, <2>4, SlotsFollowTime DEF SlotAt
    <3> QED BY <2>2, <2>6, <2>5, <3>1 DEF RuntimeAccepts, AuraOnInitialize,
                RelayNumberStrictlyIncreases, TimestampSet, AuraOnTimestampSet
  <2>8. CheckInherents(p, b(c))
    <3>1. (BestRelay.slot + 1) * RELAY_SLOT_DURATION \in Int
      BY <2>1, DurationAssumption
    <3>2. Clock(c) <= (BestRelay.slot + 1) * RELAY_SLOT_DURATION + MAX_TIMESTAMP_DRIFT
      BY <2>3, <3>1, DurationAssumption DEF Clock
    <3> QED BY <2>1, <2>6, <2>5, <3>2 DEF CheckInherents, TimestampCheckInherent, RelayTimestamp
  <2>9. ASSUME NEW d \in Collators, Clock(c) <= Clock(d) + AuraSlotDuration
        PROVE  ImportAccepts(d, b(c))
    <3>1. SlotAt(Clock(c)) <= SlotAt(Clock(d)) + 1
      BY <2>3, <2>4, <2>9, SlotsFollowTime DEF SlotAt
    <3>2. Clock(c) <= Clock(d) + MAX_TIMESTAMP_DRIFT
      BY <2>3, <2>4, <2>9, DurationAssumption, DriftAssumption
    <3> QED BY <2>1, <2>6, <2>5, <2>7, <3>1, <3>2 DEF ImportAccepts, TimestampCheckInherent
  <2> QED BY <2>7, <2>8, <2>9 DEF ValidateBlock
<1> QED BY <1>1, InvariantHolds, PTL

-----------------------------------------------------------------------------
(* The included chain: Collation implements IncludedChain.                 *)

\* Every block but genesis was executed on its parent.
BlocksExecuted ==
    \A i \in BlockIds :
        IF blocks[i].relayParent = 0
        THEN blocks[i] = GenesisBlock
        ELSE RuntimeAccepts(blocks[blocks[i].parent], blocks[i])

\* A head is replaced by higher blocks only.
HeadsGrow ==
    \A r, s \in RelayNumbers : r <= s =>
        \/ relay[r].head = relay[s].head
        \/ blocks[relay[r].head].number < blocks[relay[s].head].number

ChainInv == BlocksExecuted /\ HeadsGrow

\* The initial state satisfies the invariant of the included chain.
LEMMA InitChainInv == Init => ChainInv
<1> SUFFICES ASSUME Init PROVE ChainInv
  OBVIOUS
<1>1. Len(relay) = 1 /\ Len(blocks) = 1 /\ blocks[1] = GenesisBlock /\ GenesisBlock.relayParent = 0
  BY DEF Init, GenesisBlock
<1>2. BlockIds = {1} /\ RelayNumbers = {1}
  BY <1>1 DEF BlockIds, RelayNumbers
<1> QED
  BY <1>1, <1>2 DEF ChainInv, BlocksExecuted, HeadsGrow

\* What a step does to relay blocks and parachain blocks.
ChainStep ==
    \/ UNCHANGED <<relay, blocks>> /\ now' \in {now, now + 1}
    \/ \E c \in Collators : Propose(c)
    \/ /\ UNCHANGED <<now, blocks>>
       /\ \E k \in Nat : relay' = Append(relay, [slot   |-> now \div RELAY_SLOT_DURATION,
                                                head   |-> BestRelay.head,
                                                backed |-> k])
    \/ /\ UNCHANGED <<now, blocks>> /\ BestRelay.backed # 0
       /\ relay' = Append(relay, [slot   |-> now \div RELAY_SLOT_DURATION,
                                  head   |-> BestRelay.backed,
                                  backed |-> 0])

\* Every step adds a block, adds a relay block or leaves both alone.
LEMMA NextChainStep == ASSUME IInv, [Next]_vars PROVE ChainStep
<1>1. BestRelay.backed \in Nat /\ \A i \in BlockIds : i \in Nat
  BY FieldTypes DEF IInv, BestRelay, BlockIds
<1>2. CASE RelayBlock
  BY <1>1, <1>2 DEF RelayBlock, AppendRelayBlock, ChainStep
<1>3. CASE SettleCandidate
  BY <1>3 DEF SettleCandidate, AppendRelayBlock, ChainStep
<1>4. CASE \E c \in Collators : Propose(c)
  BY <1>4 DEF ChainStep
<1>5. CASE Tick \/ Horizon \/ UNCHANGED vars
  BY <1>5 DEF Tick, Horizon, vars, ChainStep
<1>6. CASE \E c \in Collators : Collate(c) \/ InherentUnavailable(c) \/ SkipSlot(c)
  BY <1>6 DEF Collate, InherentUnavailable, SkipSlot, ChainStep
<1>7. CASE \E c \in Collators, i \in 1..MaxBlocks : Import(c, i) \/ Recover(c, i)
  BY <1>7 DEF Import, Recover, ChainStep
<1> QED
  BY <1>2, <1>3, <1>4, <1>5, <1>6, <1>7 DEF Next

\* A proposal keeps every block and adds one that its parent's state accepts.
LEMMA ProposeExtends ==
    ASSUME IInv, NEW c \in Collators, Propose(c)
    PROVE  /\ UNCHANGED <<now, relay>>
           /\ Len(blocks) \in Nat /\ BlockIds' = BlockIds \cup {Len(blocks) + 1}
           /\ \A i \in BlockIds : blocks'[i] = blocks[i]
           /\ LET b == blocks'[Len(blocks) + 1] IN
              /\ b.relayParent # 0 /\ b.parent \in BlockIds
              /\ RuntimeAccepts(blocks[b.parent], b)
<1> DEFINE b == Candidate(c)
<1>1. b \in Block /\ b.parent \in BlockIds /\ b.relayParent # 0
  BY CandidateFacts DEF Propose, RelayNumbers
<1>2. RuntimeAccepts(blocks[b.parent], b)
  BY DEF Propose, CanBuild
<1>3. blocks' = Append(blocks, b) /\ UNCHANGED <<now, relay>> /\ blocks \in Seq(Block)
  BY DEF Propose, IInv, TypeOK
<1>4. /\ Len(blocks) \in Nat /\ Len(blocks') = Len(blocks) + 1 /\ blocks'[Len(blocks) + 1] = b
      /\ \A i \in 1..Len(blocks) : blocks'[i] = blocks[i]
  <2> HIDE DEF b
  <2> QED BY <1>1, <1>3, AppendFacts
<1>5. BlockIds' = BlockIds \cup {Len(blocks) + 1}
  BY <1>4 DEF BlockIds
<1> HIDE DEF b
<1> QED
  BY <1>1, <1>2, <1>3, <1>4, <1>5 DEF BlockIds

\* A new relay block keeps the others.
LEMMA RelayExtends ==
    ASSUME IInv, NEW h \in BlockIds, NEW k \in Nat,
           relay' = Append(relay, [slot |-> now \div RELAY_SLOT_DURATION, head |-> h, backed |-> k])
    PROVE  /\ Len(relay) \in RelayNumbers /\ RelayNumbers' = RelayNumbers \cup {Len(relay) + 1}
           /\ Len(relay) \in Nat
           /\ \A r \in RelayNumbers : relay'[r] = relay[r] /\ r <= Len(relay) /\ r \in Nat
           /\ relay'[Len(relay) + 1].head = h
<1> DEFINE e == [slot |-> now \div RELAY_SLOT_DURATION, head |-> h, backed |-> k]
<1>1. relay \in Seq(RelayState) /\ now \in Nat /\ h \in Nat /\ Len(relay) \in RelayNumbers
  BY FieldTypes DEF IInv, TypeOK, BlockIds
<1>2. e \in RelayState /\ e.head = h
  BY <1>1, DivBounds, DurationAssumption DEF RelayState
<1>3. relay' = Append(relay, e)
  OBVIOUS
<1> HIDE DEF e
<1>4. /\ Len(relay) \in Nat /\ Len(relay') = Len(relay) + 1 /\ relay'[Len(relay) + 1] = e
      /\ \A i \in 1..Len(relay) : relay'[i] = relay[i]
  BY <1>1, <1>2, <1>3, AppendFacts
<1>5. RelayNumbers' = RelayNumbers \cup {Len(relay) + 1}
  BY <1>4 DEF RelayNumbers
<1> QED
  BY <1>1, <1>2, <1>4, <1>5 DEF RelayNumbers

\* The pending candidate extends the head, one block higher.
LEMMA PendingExtendsHead ==
    ASSUME IInv, BestRelay.backed # 0
    PROVE  /\ BestRelay.backed \in BlockIds
           /\ blocks[BestRelay.backed].relayParent # 0
           /\ blocks[BestRelay.backed].parent = BestRelay.head
           /\ blocks[BestRelay.backed].number = ParaHead.number + 1
<1>1. Len(relay) \in RelayNumbers /\ BestRelay = relay[Len(relay)] /\ BestRelay.backed \in BlockIds
  BY FieldTypes DEF IInv, BestRelay, BlockIds
<1>2. /\ blocks[BestRelay.backed].relayParent \in 1..(Len(relay) - 1)
      /\ blocks[BestRelay.backed].parent = BestRelay.head
  BY <1>1 DEF IInv, HeadsOlder
<1>3. blocks[BestRelay.backed].relayParent # 0
  BY <1>1, <1>2, FieldTypes DEF IInv
<1> QED
  BY <1>1, <1>2, <1>3 DEF IInv, BlocksFollowRequests, ParaHead

\* Heads keep growing when the new head is the old one or extends it.
LEMMA AppendHeadsGrow ==
    ASSUME IInv, ChainInv, NEW h \in BlockIds, NEW k \in Nat, UNCHANGED blocks,
           relay' = Append(relay, [slot |-> now \div RELAY_SLOT_DURATION, head |-> h, backed |-> k]),
           h = BestRelay.head \/ blocks[h].number = ParaHead.number + 1
    PROVE  ChainInv'
<1> DEFINE n == Len(relay)
<1>1. /\ n \in RelayNumbers /\ RelayNumbers' = RelayNumbers \cup {n + 1} /\ n \in Nat
      /\ \A r \in RelayNumbers : relay'[r] = relay[r] /\ r <= n /\ r \in Nat
      /\ relay'[n + 1].head = h
  BY RelayExtends
<1>2. BlockIds' = BlockIds /\ BlocksExecuted'
  BY DEF BlockIds, ChainInv, BlocksExecuted, RuntimeAccepts, AuraOnInitialize, TimestampSet,
         RelayNumberStrictlyIncreases, AuraOnTimestampSet, SlotAt
<1>3. \A r \in RelayNumbers : relay[r].head = h \/ blocks[relay[r].head].number < blocks[h].number
  <2> SUFFICES ASSUME NEW r \in RelayNumbers
               PROVE  relay[r].head = h \/ blocks[relay[r].head].number < blocks[h].number
    OBVIOUS
  <2>1. relay[r].head = BestRelay.head \/ blocks[relay[r].head].number < ParaHead.number
    BY <1>1 DEF ChainInv, HeadsGrow, BestRelay, ParaHead
  <2>2. /\ relay[r].head \in BlockIds /\ blocks[relay[r].head].number \in Nat
        /\ BestRelay.head \in BlockIds /\ ParaHead = blocks[BestRelay.head]
        /\ ParaHead.number \in Nat /\ blocks[h].number \in Nat
    BY <1>1, FieldTypes DEF IInv, BestRelay, ParaHead
  <2> QED BY <2>1, <2>2
<1>4. HeadsGrow'
  <2> SUFFICES ASSUME NEW r \in RelayNumbers', NEW s \in RelayNumbers', r <= s
               PROVE  \/ relay'[r].head = relay'[s].head
                      \/ blocks[relay'[r].head].number < blocks[relay'[s].head].number
    BY DEF HeadsGrow
  <2>1. CASE s \in RelayNumbers
    <3>1. r \in RelayNumbers
      BY <1>1, <2>1
    <3> QED BY <1>1, <2>1, <3>1 DEF ChainInv, HeadsGrow
  <2>2. CASE s = n + 1 /\ r \in RelayNumbers
    BY <1>1, <1>3, <2>2
  <2>3. CASE s = n + 1 /\ r = n + 1
    BY <2>3
  <2> QED BY <1>1, <2>1, <2>2, <2>3
<1> QED
  BY <1>2, <1>4 DEF ChainInv

\* Every step preserves the invariant of the included chain.
LEMMA NextChainInv == IInv /\ ChainInv /\ [Next]_vars => ChainInv'
<1> SUFFICES ASSUME IInv, ChainInv, [Next]_vars PROVE ChainInv'
  OBVIOUS
<1>1. CASE UNCHANGED <<relay, blocks>>
  BY <1>1 DEF ChainInv, BlocksExecuted, HeadsGrow, BlockIds, RelayNumbers, RuntimeAccepts, SlotAt,
              AuraOnInitialize, TimestampSet, RelayNumberStrictlyIncreases, AuraOnTimestampSet
<1>2. ASSUME NEW c \in Collators, Propose(c) PROVE ChainInv'
  <2>1. /\ UNCHANGED relay /\ BlockIds' = BlockIds \cup {Len(blocks) + 1}
        /\ \A i \in BlockIds : blocks'[i] = blocks[i]
        /\ blocks'[Len(blocks) + 1].relayParent # 0
        /\ blocks'[Len(blocks) + 1].parent \in BlockIds
        /\ RuntimeAccepts(blocks[blocks'[Len(blocks) + 1].parent], blocks'[Len(blocks) + 1])
    BY <1>2, ProposeExtends
  <2>2. /\ \A i \in BlockIds : blocks[i].parent \in BlockIds
        /\ \A r \in RelayNumbers : relay[r].head \in BlockIds
    BY FieldTypes DEF IInv
  <2>3. HeadsGrow'
    BY <2>1, <2>2 DEF ChainInv, HeadsGrow, RelayNumbers
  <2>4. BlocksExecuted'
    <3> SUFFICES ASSUME NEW i \in BlockIds'
                 PROVE  IF blocks'[i].relayParent = 0
                        THEN blocks'[i] = GenesisBlock
                        ELSE RuntimeAccepts(blocks'[blocks'[i].parent], blocks'[i])
      BY DEF BlocksExecuted, RuntimeAccepts, AuraOnInitialize, TimestampSet,
             RelayNumberStrictlyIncreases, AuraOnTimestampSet, SlotAt
    <3>1. CASE i \in BlockIds
      BY <2>1, <2>2, <3>1 DEF ChainInv, BlocksExecuted
    <3>2. CASE i = Len(blocks) + 1
      BY <2>1, <3>2
    <3> QED BY <2>1, <3>1, <3>2
  <2> QED BY <2>3, <2>4 DEF ChainInv
<1>3. ASSUME NEW k \in Nat, UNCHANGED blocks,
             relay' = Append(relay, [slot |-> now \div RELAY_SLOT_DURATION,
                                     head |-> BestRelay.head, backed |-> k])
      PROVE  ChainInv'
  <2>1. BestRelay.head \in BlockIds
    BY FieldTypes DEF IInv, BestRelay
  <2> QED BY <1>3, <2>1, AppendHeadsGrow
<1>4. CASE /\ UNCHANGED blocks /\ BestRelay.backed # 0
           /\ relay' = Append(relay, [slot |-> now \div RELAY_SLOT_DURATION,
                                      head |-> BestRelay.backed, backed |-> 0])
  BY <1>4, PendingExtendsHead, AppendHeadsGrow
<1> QED
  BY <1>1, <1>2, <1>3, <1>4, NextChainStep DEF ChainStep

-----------------------------------------------------------------------------

\* The blocks that were ever included.
Included == {Header(b) : b \in IncludedBlocks}

\* The last block of the abstract chain is the head in the best relay block.
LEMMA LastIsParaHead ==
    ASSUME IInv, ChainInv
    PROVE  Chain!Last = Header(ParaHead)
<1>1. /\ Len(relay) \in RelayNumbers /\ Len(relay) \in Nat
      /\ \A r \in RelayNumbers : r \in Nat /\ r <= Len(relay) /\ blocks[relay[r].head].number \in Nat
  BY FieldTypes DEF IInv, RelayNumbers
<1>2. ParaHead = blocks[relay[Len(relay)].head] /\ \A b : Header(b).number = b.number
  BY DEF ParaHead, BestRelay, Header
<1>3. Header(ParaHead) \in Included
  BY <1>1, <1>2 DEF Included, IncludedBlocks
<1>4. ASSUME NEW a \in Included
      PROVE  /\ a.number <= Header(ParaHead).number
             /\ Header(ParaHead).number <= a.number => a = Header(ParaHead)
  <2>1. PICK r \in RelayNumbers : a = Header(blocks[relay[r].head])
    BY DEF Included, IncludedBlocks
  <2>2. relay[r].head = relay[Len(relay)].head \/ a.number < ParaHead.number
    BY <1>1, <1>2, <2>1 DEF ChainInv, HeadsGrow
  <2> QED BY <1>1, <1>2, <2>1, <2>2
<1>5. \A b \in Included : (\A a \in Included : a.number <= b.number) <=> b = Header(ParaHead)
  BY <1>3, <1>4
<1> HIDE DEF Included
<1>6. (CHOOSE b \in Included : \A a \in Included : a.number <= b.number) = Header(ParaHead)
  BY <1>3, <1>5
<1> QED
  BY <1>6 DEF Chain!Last, Included

\* The pending candidate may follow the head in the abstract chain.
LEMMA PendingFollows ==
    ASSUME IInv, ChainInv, BestRelay.backed # 0
    PROVE  /\ Header(blocks[BestRelay.backed]) \in Chain!Header
           /\ Chain!Follows(Header(ParaHead), Header(blocks[BestRelay.backed]))
<1> DEFINE p == ParaHead
           b == blocks[BestRelay.backed]
<1>1. /\ BestRelay.backed \in BlockIds /\ BestRelay.head \in BlockIds
      /\ b.relayParent # 0 /\ b.number = p.number + 1 /\ blocks[b.parent] = p
      /\ p = blocks[BestRelay.head]
  BY PendingExtendsHead, FieldTypes DEF IInv, BestRelay, ParaHead
<1>2. RuntimeAccepts(p, b)
  BY <1>1 DEF ChainInv, BlocksExecuted
<1>3. /\ b.number \in Nat /\ b.slot \in Nat /\ b.timestamp \in Nat /\ b.relayParent \in Nat
      /\ p.slot \in Nat /\ p.relayParent \in Nat /\ p.timestamp \in Nat
  BY <1>1, FieldTypes DEF IInv
<1>4. p.timestamp = 0 => Header(p) = Header(GenesisBlock)
  <2> SUFFICES ASSUME p.timestamp = 0, p.relayParent # 0 PROVE FALSE
    BY <1>1 DEF ChainInv, BlocksExecuted
  <2>1. p.slot = SlotAt(0) /\ blocks[p.parent].slot < p.slot /\ blocks[p.parent].slot \in Nat
    BY <1>1, FieldTypes DEF IInv, BlocksFollowRequests
  <2>2. SlotAt(0) = 0
    BY SlotDurationPositive DEF SlotAt
  <2> QED BY <2>1, <2>2, <1>3
<1>5. /\ p.slot < b.slot /\ p.relayParent < b.relayParent
      /\ p.timestamp = 0 \/ b.timestamp >= p.timestamp + MinimumPeriod
  BY <1>2 DEF RuntimeAccepts, AuraOnInitialize, RelayNumberStrictlyIncreases, TimestampSet
<1> HIDE DEF p, b
<1>6. /\ Header(b).number = b.number /\ Header(b).slot = b.slot
      /\ Header(b).timestamp = b.timestamp /\ Header(b).relayParent = b.relayParent
      /\ Header(p).number = p.number /\ Header(p).slot = p.slot
      /\ Header(p).timestamp = p.timestamp /\ Header(p).relayParent = p.relayParent
  BY DEF Header
<1>7. Header(b) \in Chain!Header
  BY <1>3 DEF Header, Chain!Header
<1>8. Chain!Follows(Header(p), Header(b))
  BY <1>1, <1>3, <1>4, <1>5, <1>6 DEF Chain!Follows
<1> QED
  BY <1>7, <1>8 DEF p, b

\* Every step of Collation is a step of the abstract chain or leaves it alone.
LEMMA StepImplements ==
    ASSUME IInv, ChainInv, HeadNotAheadOfRelay', [Next]_vars
    PROVE  [Chain!Next]_(Chain!vars)
<1> DEFINE Heads == {relay[r].head : r \in RelayNumbers}
<1>1. Included = {Header(blocks[i]) : i \in Heads} /\ Heads \subseteq BlockIds
  BY FieldTypes DEF IInv, Included, IncludedBlocks
<1>2. Included' = {Header(blocks'[i]) : i \in Heads'}
  BY DEF Included, IncludedBlocks, Header
<1> HIDE DEF Heads
<1>3. CASE UNCHANGED <<relay, blocks>> /\ now' \in {now, now + 1}
  <2>1. Included' = Included
    BY <1>3 DEF Included, IncludedBlocks, Header, RelayNumbers
  <2>2. now' = now \/ now' > now
    BY <1>3 DEF IInv, TypeOK
  <2> QED BY <2>1, <2>2 DEF Chain!Next, Chain!Advance, Chain!vars, Included
<1>4. ASSUME NEW c \in Collators, Propose(c) PROVE UNCHANGED Chain!vars
  <2>1. UNCHANGED <<now, relay>> /\ \A i \in BlockIds : blocks'[i] = blocks[i]
    BY <1>4, ProposeExtends
  <2>2. Heads' = Heads
    BY <2>1 DEF Heads, RelayNumbers
  <2>3. Included' = Included
    BY <1>1, <1>2, <2>1, <2>2
  <2> QED BY <2>1, <2>3 DEF Chain!vars, Included
<1>5. ASSUME NEW h \in BlockIds, NEW k \in Nat, UNCHANGED blocks,
             relay' = Append(relay, [slot |-> now \div RELAY_SLOT_DURATION, head |-> h, backed |-> k])
      PROVE  Included' = Included \cup {Header(blocks[h])}
  <2>1. /\ RelayNumbers' = RelayNumbers \cup {Len(relay) + 1}
        /\ \A r \in RelayNumbers : relay'[r] = relay[r]
        /\ relay'[Len(relay) + 1].head = h
    BY <1>5, RelayExtends
  <2>2. Heads' = Heads \cup {h}
    BY <2>1 DEF Heads
  <2> QED BY <1>1, <1>2, <1>5, <2>2
<1>6. ASSUME NEW k \in Nat, UNCHANGED <<now, blocks>>,
             relay' = Append(relay, [slot |-> now \div RELAY_SLOT_DURATION,
                                     head |-> BestRelay.head, backed |-> k])
      PROVE  UNCHANGED Chain!vars
  <2>1. BestRelay.head \in BlockIds /\ BestRelay.head \in Heads
    BY FieldTypes DEF IInv, BestRelay, Heads
  <2>2. Included' = Included
    BY <1>1, <1>5, <1>6, <2>1
  <2> QED BY <1>6, <2>2 DEF Chain!vars, Included
<1>7. CASE /\ UNCHANGED <<now, blocks>> /\ BestRelay.backed # 0
           /\ relay' = Append(relay, [slot |-> now \div RELAY_SLOT_DURATION,
                                      head |-> BestRelay.backed, backed |-> 0])
  <2> DEFINE b == Header(blocks[BestRelay.backed])
  <2>1. BestRelay.backed \in BlockIds /\ blocks[BestRelay.backed].relayParent # 0
    BY <1>7, PendingExtendsHead
  <2>2. Included' = Included \cup {b}
    BY <1>5, <1>7, <2>1
  <2>3. b \in Chain!Header /\ Chain!Follows(Chain!Last, b)
    BY <1>7, PendingFollows, LastIsParaHead
  <2>4. ParaHead' = blocks[BestRelay.backed]
    <3>1. relay'[Len(relay) + 1].head = BestRelay.backed /\ Len(relay) \in Nat
      BY <1>7, <2>1, RelayExtends
    <3>2. Len(relay') = Len(relay) + 1
      BY <1>7 DEF IInv, TypeOK
    <3> QED BY <1>7, <3>1, <3>2 DEF ParaHead, BestRelay
  <2>5. ParaHead'.number > 0
    BY <1>7, <2>1, <2>4, PendingExtendsHead, FieldTypes DEF IInv, ParaHead, BestRelay
  <2>6. b.timestamp <= now + (MAX_TIMESTAMP_DRIFT - RELAY_SLOT_DURATION)
    <3>1. ParaHead'.timestamp <= now + MAX_TIMESTAMP_DRIFT - RELAY_SLOT_DURATION
      BY <1>7, <2>5 DEF HeadNotAheadOfRelay
    <3>2. now \in Nat /\ b.timestamp = ParaHead'.timestamp
      BY <2>4 DEF IInv, TypeOK, Header
    <3> QED BY <3>1, <3>2, DurationAssumption
  <2> HIDE DEF b
  <2>7. Chain!Include
    BY <1>7, <2>2, <2>3, <2>6 DEF Chain!Include, Included
  <2> QED BY <2>7 DEF Chain!Next
<1>8. BestRelay.head \in BlockIds
  BY FieldTypes DEF IInv, BestRelay
<1> QED
  BY <1>3, <1>4, <1>6, <1>7, NextChainStep DEF ChainStep

\* Block production implements the chain of included blocks: for every number
\* of collators and every skew of their clocks, the heads the relay chain
\* records form one chain that grows by one block at a time, in a later slot and on
\* a later relay parent each time, and is never rolled back (build_consensus,
\* CheckInherents and RelayNumberStrictlyIncreases together).
THEOREM ChainImplemented == Spec => ImplementsIncludedChain
<1>1. Init => Chain!Init
  <2> SUFFICES ASSUME Init PROVE Chain!Init
    OBVIOUS
  <2>1. now \in Nat /\ Len(relay) = 1 /\ relay[1].head = 1 /\ blocks[1] = GenesisBlock
    BY TimeAssumption DEF Init
  <2>2. IncludedBlocks = {GenesisBlock}
    BY <2>1 DEF IncludedBlocks, RelayNumbers
  <2> QED BY <2>1, <2>2 DEF Chain!Init
<1>2. Spec => []ChainInv
  BY InitChainInv, NextChainInv, InvariantHolds, PTL DEF Spec
<1>3. IInv /\ ChainInv /\ HeadNotAheadOfRelay' /\ [Next]_vars => [Chain!Next]_(Chain!vars)
  BY StepImplements
<1> QED
  BY <1>1, <1>2, <1>3, InvariantHolds, HeadTimeBounded, PTL DEF Spec, ImplementsIncludedChain, Chain!Spec

=============================================================================
