----------------------------- MODULE XcmOrigins -----------------------------
(***************************************************************************)
(* Whom a message of another chain can act as here: the origin register of *)
(* the XCM executor, the instructions that change it, and Transact with    *)
(* the converters of runtime/src/xcm_config.rs 31-76.  Programs are not    *)
(* enumerated: each step executes any instruction, so every order of       *)
(* DescendOrigin, ClearOrigin and Transact is covered.  What the barrier   *)
(* asks for, payment, is open to every sender.                             *)
(***************************************************************************)
EXTENDS Integers, Sequences, FiniteSets

CONSTANTS
    Siblings,   \* para ids of other parachains
    Users,      \* 32-byte account ids, of whatever chain
    MaxDepth,   \* bound on the junctions of a location
    MaxActs     \* bound on the calls dispatched

ASSUME DisjointAssumption == Siblings \cap Users = {} /\ MaxDepth \in Nat /\ MaxActs \in Nat

VARIABLES
    sender,  \* chain whose message is being executed, Idle when there is none
    origin,  \* origin register: a location, or NoOrigin
    acts     \* calls dispatched: [by |-> sender, from |-> origin register, as |-> dispatch origin]

originsVars == <<sender, origin, acts>>

\* Here is never the origin of a message from outside.
Here == [parents |-> 0, interior |-> << >>]
Idle == Here
NoOrigin == Here

Junctions == Siblings \cup Users \cup {"Executive"}
OriginKinds == {"Native", "SovereignAccount", "Superuser", "Xcm"}

\* RelayLocation, and a location right below the relay chain.
RelayLocation == [parents |-> 1, interior |-> << >>]
Sibling(id) == [parents |-> 1, interior |-> << id >>]
LocalAccount(u) == [parents |-> 0, interior |-> << u >>]

Chains == {RelayLocation} \cup {Sibling(id) : id \in Siblings}

-----------------------------------------------------------------------------
(* Converters.                                                             *)

\* Mutant: the sibling converter looks at the first junction only.
AccountsOfPrefix(l) ==
    (IF l = RelayLocation THEN {"ParentAccount"} ELSE {})
    \cup {id \in Siblings : l.parents = 1 /\ l.interior # << >> /\ l.interior[1] = id}
    \cup {u \in Users : l = LocalAccount(u)}

\* The accounts that LocationToAccountId finds for l: the relay chain's, that of a
\* sibling chain, that of a local account.  There is at most one.
LocationToAccountId(l) ==
    (IF l = RelayLocation THEN {"ParentAccount"} ELSE {})
    \cup {id \in Siblings : l = Sibling(id)}
    \cup {u \in Users : l = LocalAccount(u)}

Signed(a) == [kind |-> "Signed", who |-> a]

\* The dispatch origin that the converters make of l: the first that answers
\* decides, and none answers two kinds alike.
XcmOriginToTransactDispatchOrigin(l, kind) ==
    CASE kind = "SovereignAccount" -> {Signed(a) : a \in LocationToAccountId(l)}
      [] kind = "Native" ->
            (IF l = RelayLocation THEN {[kind |-> "Relay", who |-> "Relay"]} ELSE {})
            \cup {[kind |-> "SiblingPara", who |-> id] : id \in {i \in Siblings : l = Sibling(i)}}
            \cup {Signed(u) : u \in {v \in Users : l = LocalAccount(v)}}
      [] kind = "Xcm" -> {[kind |-> "Xcm", who |-> l]}
      [] OTHER -> {}

-----------------------------------------------------------------------------
(* The executor.                                                           *)

\* XcmpQueue and DmpQueue start a message with the location of its sender.
Receive(chain) ==
    /\ sender = Idle
    /\ sender' = chain
    /\ origin' = chain
    /\ UNCHANGED acts

DescendOrigin(j) ==
    /\ sender # Idle /\ origin # NoOrigin
    /\ Len(origin.interior) < MaxDepth
    /\ origin' = [origin EXCEPT !.interior = Append(@, j)]
    /\ UNCHANGED <<sender, acts>>

ClearOrigin ==
    /\ sender # Idle /\ origin # NoOrigin
    /\ origin' = NoOrigin
    /\ UNCHANGED <<sender, acts>>

\* The call is dispatched as what the origin converts to.
Transact(kind) ==
    /\ sender # Idle /\ origin # NoOrigin
    /\ Cardinality(acts) < MaxActs
    /\ \E as \in XcmOriginToTransactDispatchOrigin(origin, kind) :
        acts' = acts \cup {[by |-> sender, from |-> origin, as |-> as]}
    /\ UNCHANGED <<sender, origin>>

\* The message ends, or stops at an instruction that fails.
Finish ==
    /\ sender # Idle
    /\ sender' = Idle
    /\ origin' = NoOrigin
    /\ UNCHANGED acts

OriginsInit == sender = Idle /\ origin = NoOrigin /\ acts = {}

OriginsNext ==
    \/ \E c \in Chains : Receive(c)
    \/ \E j \in Junctions : DescendOrigin(j)
    \/ ClearOrigin
    \/ \E k \in OriginKinds : Transact(k)
    \/ Finish

OriginsSpec == OriginsInit /\ [][OriginsNext]_originsVars

-----------------------------------------------------------------------------
(* Properties.                                                             *)

\* A parachain acts with the sovereign account and the native origin of its own
\* location only, and only it itself, not an account or body below it that its
\* messages descend to.  The relay chain may besides act for the parachains below
\* it.  No message acts as a local account.
ActsAsItself ==
    \A x \in acts : x.as.kind # "Xcm" =>
        /\ x.from \in Chains
        /\ x.by \in {x.from, RelayLocation}
        /\ x.as.kind = "Signed" =>
            x.as.who = IF x.from = RelayLocation THEN "ParentAccount" ELSE x.from.interior[1]
        /\ x.as.kind = "Relay" => x.from = RelayLocation
        /\ x.as.kind = "SiblingPara" => x.from = Sibling(x.as.who)

=============================================================================
