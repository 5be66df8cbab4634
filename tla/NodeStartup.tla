----------------------------- MODULE NodeStartup -----------------------------
(***************************************************************************)
(* The life of the node process that `run' starts without a subcommand     *)
(* (node/src/command.rs) and start_node_impl brings up                     *)
(* (node/src/service.rs).  Tasks run and may die from the moment they are  *)
(* spawned; the runner looks at them only once start_parachain_node has    *)
(* returned, and dropping the task manager ends them all.                  *)
(***************************************************************************)
EXTENDS Naturals, Sequences

VARIABLES
    options,    \* what the command line and the chain specification ask for
    step,       \* index in StartupOrder of the step that is next
    tasks,      \* running tasks
    essential,  \* tasks spawned with spawn_essential_handle, or of the relay chain node
    dead,       \* tasks that ended by themselves
    network,    \* "none", "built" (waiting for start_network) or "started"
    key,        \* the collator key returned with the relay chain interface is Some
    outcome     \* "none" while the process lives, then how it ended

processVars == <<options, step, tasks, essential, dead, network, key, outcome>>

Options ==
    [collator       : BOOLEAN,  \* --collator or --validator
     relayRpc       : BOOLEAN,  \* --relay-chain-rpc-url
     relayValidator : BOOLEAN,  \* --validator among the relay chain arguments
     telemetry      : BOOLEAN,  \* telemetry endpoints are configured
     offchain       : BOOLEAN,  \* offchain workers are enabled
     hwbench        : BOOLEAN,  \* no --no-hardware-benchmarks
     paraId         : BOOLEAN]  \* the chain specification has a para id

\* Mutant: the network is started before the collator or the full node.
NetworkBeforeRole ==
    << "prepare", "new_partial", "relay", "build_network", "offchain", "spawn_tasks",
       "hwbench", "start_network", "role", "running" >>

\* The order of start_node_impl.
StartupOrder ==
    << "prepare", "new_partial", "relay", "build_network", "offchain", "spawn_tasks",
       "hwbench", "role", "start_network", "running" >>

At(s) == outcome = "none" /\ StartupOrder[step] = s

\* The authority role: --collator implies --validator.
IsAuthority == options.collator

When(condition, task) == IF condition THEN {task} ELSE {}

\* The process ends and drops the task manager with everything it runs.
Stop(how) ==
    /\ outcome' = how
    /\ tasks' = {}
    /\ network' = "none"
    /\ UNCHANGED <<options, step, essential, dead, key>>

\* A step that spawns tasks, ordinary and essential ones, and goes on.
Spawn(plain, ess) ==
    /\ tasks' = tasks \cup plain \cup ess
    /\ essential' = essential \cup ess
    /\ step' = step + 1
    /\ UNCHANGED <<options, dead, outcome>>

-----------------------------------------------------------------------------
(* Startup.                                                                *)

\* The None branch of run: para id, genesis block, relay chain configuration.
Prepare ==
    /\ At("prepare")
    /\ \/ options.paraId /\ Spawn({}, {}) /\ UNCHANGED <<network, key>>
       \/ Stop("error")

\* Mutant: the worker of the import queue is an ordinary task.
ImportQueueNotEssential == Spawn(When(options.telemetry, "telemetry") \cup {"import_queue"}, {"txpool"})

\* Tasks of new_partial: telemetry worker, transaction pool, import queue.
SpawnPartial == Spawn(When(options.telemetry, "telemetry"), {"txpool", "import_queue"})

NewPartial ==
    /\ At("new_partial")
    /\ \/ SpawnPartial /\ UNCHANGED <<network, key>>
       \/ Stop("error")

\* Mutant: the in-process relay chain goes by the relay chain's configuration.
KeyFromRelayRole == options.relayRpc \/ options.relayValidator

\* The minimal relay chain node always makes a collator key, the in-process one
\* when the parachain configuration it is given has the authority role.
CollatorKey == options.relayRpc \/ IsAuthority

BuildRelayChainInterface ==
    /\ At("relay")
    /\ \/ Spawn({}, {"relay_chain"}) /\ key' = CollatorKey /\ UNCHANGED network
       \/ Stop("error")

\* The network's task waits for start_network.
BuildNetwork ==
    /\ At("build_network")
    /\ \/ Spawn({"network"}, {}) /\ network' = "built" /\ UNCHANGED key
       \/ Stop("error")

BuildOffchainWorkers ==
    /\ At("offchain")
    /\ Spawn(When(options.offchain, "offchain"), {})
    /\ UNCHANGED <<network, key>>

SpawnTasks ==
    /\ At("spawn_tasks")
    /\ \/ Spawn({"rpc"}, {}) /\ UNCHANGED <<network, key>>
       \/ Stop("error")

\* Mutant: the worker of the telemetry is spawned a second time.
TelemetryTwice ==
    /\ At("hwbench")
    /\ Spawn(When(options.hwbench /\ options.telemetry, "telemetry"), {})
    /\ UNCHANGED <<network, key>>

HwbenchTelemetry ==
    /\ At("hwbench")
    /\ Spawn(When(options.hwbench /\ options.telemetry, "telemetry_hwbench"), {})
    /\ UNCHANGED <<network, key>>

\* build_consensus, collator_key.expect(..), start_collator.
StartCollator ==
    /\ At("role") /\ IsAuthority
    /\ \/ key /\ Spawn({}, {"consensus", "collator"}) /\ UNCHANGED <<network, key>>
       \/ \E how \in {"error"} \cup When(~key, "panic") : Stop(how)

StartFullNode ==
    /\ At("role") /\ ~IsAuthority
    /\ \/ Spawn({}, {"consensus"}) /\ UNCHANGED <<network, key>>
       \/ Stop("error")

StartNetwork ==
    /\ At("start_network")
    /\ Spawn({}, {}) /\ network' = "started" /\ UNCHANGED key

Startup ==
    \/ Prepare \/ NewPartial \/ BuildRelayChainInterface \/ BuildNetwork
    \/ BuildOffchainWorkers \/ SpawnTasks \/ HwbenchTelemetry
    \/ StartCollator \/ StartFullNode \/ StartNetwork

-----------------------------------------------------------------------------
(* The running process.                                                    *)

\* A task returns or panics.
TaskDies(t) ==
    /\ t \in tasks
    /\ tasks' = tasks \ {t}
    /\ dead' = dead \cup {t}
    /\ UNCHANGED <<options, step, essential, network, key, outcome>>

\* run_node_until_exit: the task manager's future ends with an essential task,
EssentialTaskEnded ==
    /\ At("running")
    /\ dead \cap essential # {}
    /\ Stop("error")

\* or the process is asked to terminate.
Signal == At("running") /\ Stop("ok")

-----------------------------------------------------------------------------

ProcessInit ==
    /\ options \in Options
    /\ step = 1
    /\ tasks = {} /\ essential = {} /\ dead = {}
    /\ network = "none"
    /\ key = FALSE
    /\ outcome = "none"

ProcessNext ==
    \/ Startup
    \/ \E t \in tasks : TaskDies(t)
    \/ EssentialTaskEnded
    \/ Signal

ProcessSpec == ProcessInit /\ [][ProcessNext]_processVars

\* The runner polls the startup future and then the task manager's.
Fairness == WF_processVars(Startup) /\ WF_processVars(EssentialTaskEnded)

ProcessFairSpec == ProcessSpec /\ Fairness

-----------------------------------------------------------------------------
(* Properties.                                                             *)

Tasks == {"telemetry", "txpool", "import_queue", "relay_chain", "network", "offchain",
          "rpc", "telemetry_hwbench", "consensus", "collator"}

\* Shape of the state: dead tasks do not run, and the essential tasks of a process
\* that lives were all spawned and run until they die.
ProcessTypeOK ==
    /\ options \in Options
    /\ step \in 1..Len(StartupOrder)
    /\ tasks \subseteq Tasks /\ essential \subseteq Tasks /\ dead \subseteq Tasks
    /\ tasks \cap dead = {}
    /\ outcome = "none" => essential \subseteq tasks \cup dead
    /\ network \in {"none", "built", "started"}
    /\ key \in BOOLEAN
    /\ outcome \in {"none", "ok", "error", "panic"}

\* "Command line arguments do not allow this. qed": no combination of options
\* makes the collator key that start_node_impl expects None.
ExpectHolds == outcome # "panic"

\* Peers reach the node only when the task that follows the relay chain has been
\* started in the node's role, so that no block is imported which nobody tracks.
NetworkStartsLast ==
    network = "started" =>
        /\ "consensus" \in tasks \cup dead
        /\ IsAuthority => "collator" \in tasks \cup dead

\* A node whose import queue, relay chain node or consensus task dies, even while
\* it is still starting up, does not live on without it.
DeathStopsNode ==
    \A t \in {"import_queue", "relay_chain", "consensus"} : t \in dead ~> outcome # "none"

=============================================================================
