--------------------------- MODULE CollatorSession ---------------------------
(***************************************************************************)
(* Who may author parachain blocks, and who is paid for it: the wiring of  *)
(* Authorship, CollatorSelection, Session, Aura and AuraExt in             *)
(* runtime/src/lib.rs.  Within a block the pallets' hooks run in the order *)
(* of construct_runtime!, then come the extrinsics, then on_finalize.      *)
(*                                                                         *)
(* An authority is a pair of a session key and the account it was queued   *)
(* for; pallet_aura itself only stores the key.                            *)
(***************************************************************************)
EXTENDS Integers, Sequences, SequencesExt

CONSTANTS
    Invulnerables,      \* accounts passed to testnet_genesis, a sequence
    Accounts,           \* accounts that may send collator extrinsics
    Keys,               \* Aura session keys
    GenesisKey,         \* GenesisKey[a]: session key testnet_genesis gives invulnerable a
    Careless,           \* accounts that may purge their session keys
    DesiredCandidates,  \* desired_candidates of the chain specification
    Period,             \* blocks of a session
    MinCandidates,
    Slots,              \* slots of the blocks, by what they are modulo the numbers of collators
    NoKey,              \* an account without session keys
    Nobody,             \* no account
    MaxNumber,          \* bound on the block number
    MaxCalls            \* bound on the collator extrinsics that succeed

ASSUME AccountsAssumption ==
    /\ Invulnerables \in Seq(Accounts) /\ Invulnerables # << >> /\ IsInjective(Invulnerables)
    /\ GenesisKey \in [Range(Invulnerables) -> Keys] /\ IsInjective(GenesisKey)
    /\ Careless \subseteq Accounts
    /\ NoKey \notin Keys /\ Nobody \notin Accounts
ASSUME CountsAssumption ==
    /\ DesiredCandidates \in Nat /\ MinCandidates \in Nat
    /\ MaxNumber \in Nat /\ MaxCalls \in Nat
    /\ Period \in Nat \ {0} /\ Slots \subseteq Nat

VARIABLES
    number,        \* number of the current block
    stage,         \* hooks of the current block that have run; Idle between blocks
    sealer,        \* slot of the current block, and who sealed it with which key
    credited,      \* account note_author was called with in the current block
    authorities,   \* Aura::authorities()
    extAuthorities,\* AuraExt::Authorities, what validate_block checks the seal with
    validators,    \* Session::validators()
    queued,        \* Session::queued_keys(), a sequence of [who, key]
    nextKeys,      \* Session::next_keys
    candidates,    \* CollatorSelection::candidates(), a sequence of accounts
    lastAuthored,  \* CollatorSelection::last_authored_block
    active,        \* accounts credited since the session began
    calls          \* collator extrinsics that succeeded

vars == <<number, stage, sealer, credited, authorities, extAuthorities,
          validators, queued, nextKeys, candidates, lastAuthored, active,
          calls>>

blockVars   == <<number, sealer>>
sessionVars == <<authorities, validators, queued>>

\* Mutant: the threshold is one block short of a session.
ShortThreshold == Period - 1

KickThreshold == Period

\* Mutant: Session moves in front of Authorship.
SessionFirst == << "Session", "Authorship", "CollatorSelection", "Aura", "AuraExt" >>

\* construct_runtime!: "The order of these 4 are important and shall not change."
HookOrder == << "Authorship", "CollatorSelection", "Session", "Aura", "AuraExt" >>

Idle == Len(HookOrder) + 1
Running(pallet) == stage < Len(HookOrder) /\ HookOrder[stage + 1] = pallet
HookDone == stage' = stage + 1
InBlock == stage = Len(HookOrder)

\* Mutant: every account counts as registered.
EveryoneRegistered(a) == TRUE

\* Session::is_registered, the ValidatorRegistration of CollatorSelection.
IsRegistered(a) == nextKeys[a] # NoKey

-----------------------------------------------------------------------------
(* Hooks.                                                                  *)

\* The place of the author of `slot' in the sequence s of collators.
Seat(slot, s) == (slot % Len(s)) + 1

\* A collator claims a slot with the authorities of the parent state.
BeginBlock(slot) ==
    LET author == authorities[Seat(slot, authorities)] IN
    /\ stage = Idle
    /\ number < MaxNumber /\ authorities # << >>
    /\ number' = number + 1
    /\ sealer' = [slot |-> slot, who |-> author.who, key |-> author.key]
    /\ credited' = Nobody
    /\ stage' = 0
    /\ UNCHANGED <<sessionVars, extAuthorities, nextKeys, candidates, lastAuthored, active, calls>>

\* FindAccountFromAuthorIndex: Aura finds the author's index among its current
\* authorities, and Session's validator with this index is the account.
FindAuthor(slot) ==
    LET i == Seat(slot, authorities)
    IN  IF i \in DOMAIN validators THEN validators[i] ELSE Nobody

\* Authorship::on_initialize, the event handler being CollatorSelection::note_author.
AuthorshipHook ==
    LET author == FindAuthor(sealer.slot) IN
    /\ Running("Authorship")
    /\ credited' = author
    /\ IF author = Nobody
       THEN UNCHANGED <<lastAuthored, active>>
       ELSE /\ lastAuthored' = [lastAuthored EXCEPT ![author] = number]
            /\ active' = active \cup {author}
    /\ HookDone
    /\ UNCHANGED <<blockVars, sessionVars, extAuthorities, nextKeys, candidates, calls>>

\* PeriodicSessions<Period, Offset> with Offset 0.
ShouldEndSession == number % Period = 0

\* CollatorSelection::try_remove_candidate drops the accounts' LastAuthoredBlock.
Forget(removed) == [a \in Accounts |-> IF a \in removed THEN 0 ELSE lastAuthored[a]]

\* The members of s that are in `kept', in the order of s.
Retain(s, kept) == FoldLeft(LAMBDA t, a : IF a \in kept THEN Append(t, a) ELSE t, << >>, s)

\* CollatorSelection::kick_stale_candidates asks this of one candidate; the
\* number of candidates is read again after every removal.
KickStale(kept, c) ==
    IF number - lastAuthored[c] < KickThreshold \/ Len(kept) <= MinCandidates
    THEN kept
    ELSE Retain(kept, Accounts \ {c})

ActiveCandidates == FoldLeft(KickStale, candidates, candidates)

\* Mutant: the candidates take the place of the invulnerables.
CandidatesInstead(cs) == IF cs = << >> THEN Invulnerables ELSE cs

\* CollatorSelection::assemble_collators.
AssembleCollators(cs) == Invulnerables \o cs

\* Session keys of the next validators; those without keys are left out.
LoadKeys(next) ==
    LET registered == Retain(next, {a \in Accounts : IsRegistered(a)})
    IN  [i \in DOMAIN registered |-> [who |-> registered[i], key |-> nextKeys[registered[i]]]]

\* Session::rotate_session: the queued keys take effect in Session and Aura,
\* and CollatorSelection::new_session names the collators to queue next.
RotateSession ==
    /\ validators' = [i \in DOMAIN queued |-> queued[i].who]
    /\ authorities' = queued
    /\ candidates' = ActiveCandidates
    /\ lastAuthored' = Forget(Range(candidates) \ Range(ActiveCandidates))
    /\ queued' = LoadKeys(AssembleCollators(ActiveCandidates))
    /\ active' = {}

SessionHook ==
    /\ Running("Session")
    /\ IF ShouldEndSession
       THEN RotateSession
       ELSE UNCHANGED <<sessionVars, candidates, lastAuthored, active>>
    /\ HookDone
    /\ UNCHANGED <<blockVars, credited, extAuthorities, nextKeys, calls>>

\* The hooks of these pallets change nothing modelled here.
OtherHook ==
    /\ \E p \in {"CollatorSelection", "Aura", "AuraExt"} : Running(p)
    /\ HookDone
    /\ UNCHANGED <<blockVars, credited, sessionVars, extAuthorities, nextKeys,
                   candidates, lastAuthored, active, calls>>

\* Mutant: AuraExt keeps the authorities of the genesis block.
StaleCache == extAuthorities

\* AuraExt::on_finalize caches the authorities for the next validate_block.
CachedAuthorities == authorities

EndBlock ==
    /\ InBlock
    /\ extAuthorities' = CachedAuthorities
    /\ stage' = Idle
    /\ UNCHANGED <<blockVars, credited, sessionVars, nextKeys, candidates, lastAuthored, active, calls>>

-----------------------------------------------------------------------------
(* Extrinsics.                                                             *)

Call == InBlock /\ calls < MaxCalls /\ calls' = calls + 1

\* Mutant: set_keys does not look for another owner of the key.
AnyKeyFree(a, k) == nextKeys[a] # k

KeyFree(a, k) == nextKeys[a] # k /\ \A b \in Accounts : nextKeys[b] # k

SetKeys(a, k) ==
    /\ Call
    /\ KeyFree(a, k)
    /\ nextKeys' = [nextKeys EXCEPT ![a] = k]
    /\ UNCHANGED <<blockVars, stage, credited, sessionVars, extAuthorities,
                   candidates, lastAuthored, active>>

PurgeKeys(a) ==
    /\ Call
    /\ IsRegistered(a)
    /\ nextKeys' = [nextKeys EXCEPT ![a] = NoKey]
    /\ UNCHANGED <<blockVars, stage, credited, sessionVars, extAuthorities,
                   candidates, lastAuthored, active>>

\* A newcomer counts as having authored one KickThreshold from now.
Grace == number + KickThreshold

RegisterAsCandidate(a) ==
    /\ Call
    /\ Len(candidates) < DesiredCandidates
    /\ a \notin Range(Invulnerables) \cup Range(candidates)
    /\ IsRegistered(a)
    /\ candidates' = Append(candidates, a)
    /\ lastAuthored' = [lastAuthored EXCEPT ![a] = Grace]
    /\ UNCHANGED <<blockVars, stage, credited, sessionVars, extAuthorities, nextKeys, active>>

LeaveIntent(a) ==
    /\ Call
    /\ Len(candidates) > MinCandidates
    /\ a \in Range(candidates)
    /\ candidates' = Retain(candidates, Accounts \ {a})
    /\ lastAuthored' = Forget({a})
    /\ UNCHANGED <<blockVars, stage, credited, sessionVars, extAuthorities, nextKeys, active>>

Horizon == number = MaxNumber /\ stage = Idle /\ UNCHANGED vars

-----------------------------------------------------------------------------

\* testnet_genesis: the keys of the invulnerables are in force and queued.
GenesisAuthorities ==
    [i \in DOMAIN Invulnerables |-> [who |-> Invulnerables[i], key |-> GenesisKey[Invulnerables[i]]]]

Init ==
    /\ number = 0
    /\ stage = Idle
    /\ sealer = [slot |-> 0, who |-> Nobody, key |-> NoKey]
    /\ credited = Nobody
    /\ authorities = GenesisAuthorities
    /\ extAuthorities = GenesisAuthorities
    /\ validators = Invulnerables
    /\ queued = GenesisAuthorities
    /\ nextKeys = [a \in Accounts |-> IF a \in Range(Invulnerables) THEN GenesisKey[a] ELSE NoKey]
    /\ candidates = << >>
    /\ lastAuthored = [a \in Accounts |-> 0]
    /\ active = {}
    /\ calls = 0

Next ==
    \/ \E slot \in Slots : BeginBlock(slot)
    \/ AuthorshipHook
    \/ SessionHook
    \/ OtherHook
    \/ EndBlock
    \/ \E a \in Accounts, k \in Keys : SetKeys(a, k)
    \/ \E a \in Careless : PurgeKeys(a)
    \/ \E a \in Accounts : RegisterAsCandidate(a)
    \/ \E a \in Accounts : LeaveIntent(a)
    \/ Horizon

Spec == Init /\ [][Next]_vars

-----------------------------------------------------------------------------
(* Properties.                                                             *)

Authority == [who : Accounts, key : Keys]

\* Shape of the pallets' storage: queued and active authorities carry real
\* keys, and counters stay within their bounds.
TypeOK ==
    /\ number \in 0..MaxNumber /\ stage \in 0..Idle
    /\ sealer \in [slot : Nat, who : Accounts \cup {Nobody}, key : Keys \cup {NoKey}]
    /\ credited \in Accounts \cup {Nobody}
    /\ authorities \in Seq(Authority) /\ extAuthorities \in Seq(Authority)
    /\ validators \in Seq(Accounts)
    /\ queued \in Seq(Authority)
    /\ nextKeys \in [Accounts -> Keys \cup {NoKey}]
    /\ candidates \in Seq(Accounts)
    /\ lastAuthored \in [Accounts -> Nat]
    /\ active \subseteq Accounts
    /\ calls \in 0..MaxCalls

\* The account that CollatorSelection rewards is the one whose key sealed the
\* block, also in the block in which the session changes.
SealerCredited == InBlock => credited = sealer.who

\* validate_block verifies the seal of every block: the key that AuraExt's cache
\* of the parent state names for the slot is the one the collator sealed with, in
\* the first block after a session change and in the block of the change too.
SealAccepted ==
    stage # Idle =>
        /\ extAuthorities # << >>
        /\ extAuthorities[Seat(sealer.slot, extAuthorities)].key = sealer.key

\* No session key fills two places of the round, though keys may be changed,
\* dropped and taken over by other accounts while a session waits in the queue.
AuthorityKeysDistinct ==
    /\ \A i, j \in DOMAIN authorities :
        authorities[i].key = authorities[j].key => i = j
    /\ \A i, j \in DOMAIN queued : queued[i].key = queued[j].key => i = j

\* An invulnerable that keeps its session keys has a place in every session.
InvulnerableAlwaysAuthors ==
    \A a \in Range(Invulnerables) \ Careless :
        a \in Range(validators) /\ \E i \in DOMAIN authorities : authorities[i].who = a

\* new_session never removes a candidate that authored a block of the session
\* that ends, be it the first or the last one: KickThreshold is a whole session,
\* and note_author has run before the session rotates.
ActiveCandidateKept ==
    [][SessionHook => Range(candidates) \cap active \subseteq Range(candidates')]_vars

=============================================================================
