----------------------------- MODULE Deployment -----------------------------
(***************************************************************************)
(* The commands an operator gives on one machine (node/src/command.rs,     *)
(* cli.rs) and what they leave on its disk: which chain specification each *)
(* command loads (chain_spec.rs) and in which directories the parachain    *)
(* and its relay chain node keep their databases.                          *)
(***************************************************************************)
EXTENDS Naturals, Sequences

CONSTANTS
    Chains,       \* chain selections: values of --chain, "" for none, and "--dev"
    RelayChains,  \* the same of the relay chain arguments
    MaxCommands   \* bound on the number of commands

ASSUME ChainsAssumption ==
    /\ Chains \subseteq {"", "--dev", "dev", "local", "template-rococo", "custom.json"}
    /\ RelayChains \subseteq {"", "--dev", "rococo-local"}
    /\ MaxCommands \in Nat

\* Base paths: "" when the option is missing.  Nothing keeps an operator from giving
\* the relay chain node the base path that the parachain uses.
Args == [chain : Chains, base : {"", "disk"}]
RelayArgs == [chain : RelayChains, base : {"", "disk", "relaydisk"}]

VARIABLES
    disk,        \* databases: set of [base, id, genesis]
    registered,  \* exports registered on the relay chain: set of [chain, genesis]
    node,        \* the running node, or NoNode
    purged,      \* arguments of a purge-chain after which no database was opened
    commands     \* commands given so far

vars == <<disk, registered, node, purged, commands>>

NoNode == [running |-> FALSE]
NoPurge == [purged |-> FALSE]

-----------------------------------------------------------------------------
(* Chain specifications.                                                   *)

\* testnet_genesis: accounts and keys of the collators, endowed accounts, para id.
TestnetGenesis(invulnerables, id) == [invulnerables |-> invulnerables, paraId |-> id]

\* Mutant: the development chain gets a single collator.
SingleCollatorConfig ==
    [id |-> "dev", relayChain |-> "rococo-local", genesis |-> TestnetGenesis(<< "Alice" >>, 1000)]

DevelopmentConfig ==
    [id |-> "dev", relayChain |-> "rococo-local", genesis |-> TestnetGenesis(<< "Alice", "Bob" >>, 1000)]

LocalTestnetConfig ==
    [id |-> "local_testnet", relayChain |-> "rococo-local",
     genesis |-> TestnetGenesis(<< "Alice", "Bob" >>, 1000)]

\* A specification file of the operator, with an id of its own.
FromJsonFile ==
    [id |-> "custom", relayChain |-> "rococo-local", genesis |-> TestnetGenesis(<< "Carol" >>, 2000)]

LoadSpec(id) ==
    CASE id = "dev" -> DevelopmentConfig
      [] id \in {"", "local", "template-rococo"} -> LocalTestnetConfig
      [] OTHER -> FromJsonFile

\* SharedParams::chain_id: --dev stands for --chain dev.
ChainId(chain) == IF chain = "--dev" THEN "dev" ELSE chain

\* The configuration's chain specification, of the node and most commands.
ConfigSpec(a) == LoadSpec(ChainId(a.chain))

\* export-genesis-state and export-genesis-wasm only look at --chain.
ExportSpec(chain) == LoadSpec(IF chain = "--dev" THEN "" ELSE chain)

-----------------------------------------------------------------------------
(* Directories.                                                            *)

DefaultBase(a) == << IF a.base = "" THEN "home" ELSE a.base >>

\* The node alone uses a temporary directory with --dev and no base path.
NodeBase(a) == IF a.chain = "--dev" /\ a.base = "" THEN << "tmp" >> ELSE DefaultBase(a)

\* Mutant: the directory is added by new and once more by base_path.
NestedBasePath(base, r) ==
    IF r.base = "" THEN base \o << "polkadot", "polkadot" >> ELSE << r.base >>

\* RelayChainCli::base_path, with the default made by RelayChainCli::new.
RelayBasePath(base, r) == IF r.base = "" THEN Append(base, "polkadot") ELSE << r.base >>

\* RelayChainCli::chain_id, with the default made by RelayChainCli::new.
RelayChainId(spec, r) == IF r.chain = "" THEN spec.relayChain ELSE ChainId(r.chain)

ParaDir(a, base) == [base |-> base, id |-> ConfigSpec(a).id]
RelayDir(a, base, r) == [base |-> RelayBasePath(base, r), id |-> RelayChainId(ConfigSpec(a), r)]

Databases(dir) == {d \in disk : d.base = dir.base /\ d.id = dir.id}

\* A database that exists is opened as it is, whatever the specification says.
Opened(dir, genesis) ==
    IF Databases(dir) # {} THEN Databases(dir)
    ELSE {[base |-> dir.base, id |-> dir.id, genesis |-> genesis]}

RelayGenesis(id) == [invulnerables |-> << id >>, paraId |-> 0]
IsRelayGenesis(genesis) == genesis.paraId = 0

-----------------------------------------------------------------------------
(* Commands.                                                               *)

Command == commands < MaxCommands /\ commands' = commands + 1

\* No subcommand: new_partial opens the parachain's database, then
\* build_relay_chain_interface the relay chain's, which fails when the parachain's
\* is open in the same directory.
Run(a, r) ==
    LET para  == ParaDir(a, NodeBase(a))
        relay == RelayDir(a, NodeBase(a), r)
        db    == Opened(para, ConfigSpec(a).genesis)
    IN  /\ Command
        /\ ~node.running
        /\ purged' = NoPurge
        /\ IF para = relay
           THEN disk' = disk \cup db /\ UNCHANGED node
           ELSE /\ disk' = disk \cup db \cup Opened(relay, RelayGenesis(relay.id))
                /\ \E d \in db :
                    node' = [running |-> TRUE, chain |-> a.chain, genesis |-> d.genesis,
                             fresh  |-> Databases(para) = {} /\ Databases(relay) = {},
                             purged |-> purged.purged /\ purged.a = a /\ purged.r = r]
        /\ UNCHANGED registered

\* A temporary base path goes with the process.
Terminate ==
    /\ node.running
    /\ node' = NoNode
    /\ disk' = {d \in disk : d.base[1] # "tmp"}
    /\ UNCHANGED <<registered, purged, commands>>

\* check-block, export-blocks, export-state, import-blocks and revert open the
\* database by new_partial.
ChainCommand(a) ==
    /\ Command
    /\ ~node.running
    /\ disk' = disk \cup Opened(ParaDir(a, DefaultBase(a)), ConfigSpec(a).genesis)
    /\ purged' = NoPurge
    /\ UNCHANGED <<registered, node>>

\* Mutant: purge-chain gets no configuration of the relay chain node.
PurgeParachain(a, r) ==
    /\ Command
    /\ disk' = disk \ Databases(ParaDir(a, DefaultBase(a)))
    /\ purged' = [purged |-> TRUE, a |-> a, r |-> r]
    /\ UNCHANGED <<registered, node>>

PurgeChain(a, r) ==
    /\ Command
    /\ disk' = disk \ (Databases(ParaDir(a, DefaultBase(a)))
                        \cup Databases(RelayDir(a, DefaultBase(a), r)))
    /\ purged' = [purged |-> TRUE, a |-> a, r |-> r]
    /\ UNCHANGED <<registered, node>>

\* The exported genesis is registered on the relay chain.
ExportGenesis(chain) ==
    /\ Command
    /\ registered' = registered \cup {[chain |-> chain, genesis |-> ExportSpec(chain).genesis]}
    /\ UNCHANGED <<disk, node, purged>>

Done == commands = MaxCommands /\ UNCHANGED vars

Init ==
    /\ disk = {} /\ registered = {}
    /\ node = NoNode /\ purged = NoPurge
    /\ commands = 0

Next ==
    \/ \E a \in Args, r \in RelayArgs : Run(a, r)
    \/ Terminate
    \/ \E a \in Args : ChainCommand(a)
    \/ \E a \in Args, r \in RelayArgs : PurgeChain(a, r)
    \/ \E chain \in Chains : ExportGenesis(chain)
    \/ Done

Spec == Init /\ [][Next]_vars

-----------------------------------------------------------------------------
(* Properties.                                                             *)

\* Shape of the state: databases lie in the base paths of the parachain or one
\* level below them, and no directory holds two.
TypeOK ==
    /\ \A d \in disk :
        \/ Len(d.base) = 1 /\ d.base[1] \in {"home", "tmp", "disk", "relaydisk"}
        \/ Len(d.base) = 2 /\ d.base[1] \in {"home", "tmp", "disk"} /\ d.base[2] = "polkadot"
    /\ \A d, e \in disk : d.base = e.base /\ d.id = e.id => d = e
    /\ node.running \in BOOLEAN
    /\ commands \in 0..MaxCommands

\* A node builds on the genesis that was exported with the same chain selection,
\* although the export ignores --dev and databases outlive the commands; unless a
\* relay chain node, given the parachain's base path, left its own database where
\* the parachain's belongs.
NodeBuildsOnRegistered ==
    node.running /\ ~IsRelayGenesis(node.genesis) =>
        \A e \in registered : e.chain = node.chain => e.genesis = node.genesis

\* purge-chain finds every database that a start with the same arguments uses:
\* that start begins with both chains at genesis.
PurgeForgets == node.running /\ node.purged => node.fresh

=============================================================================
