------------------------------ MODULE NodeProofs ------------------------------
(***************************************************************************)
(* Theorems about the node: what the commands of an operator leave on disk *)
(* (Deployment), for every sequence of commands, and the process that a    *)
(* start brings up (NodeStartup), for every combination of options.        *)
(***************************************************************************)
EXTENDS Deployment, NodeStartup, SequenceTheorems, TLAPS

-----------------------------------------------------------------------------
(* Databases and commands.                                                 *)

\* Base paths of a parachain node.
ParaBases == {"home", "tmp", "disk"}

\* Where databases can be.
Placed(d) ==
    \/ d.base = << "relaydisk" >>
    \/ \E b \in ParaBases : d.base = << b >> \/ d.base = Append(<< b >>, "polkadot")

\* A directory holds one database.
OneEach(D) == \A d, e \in D : d.base = e.base /\ d.id = e.id => d = e

\* A database has the genesis of every specification with its id.
GenesisById(d) == \A a \in Args : d.id = ConfigSpec(a).id => d.genesis = ConfigSpec(a).genesis

DiskOK(D) ==
    /\ \A d \in D : Placed(d) /\ (GenesisById(d) \/ IsRelayGenesis(d.genesis))
    /\ OneEach(D)

\* Nothing is in a temporary directory.
NothingTemporary(D) == \A d \in D : d.base[1] # "tmp"

NodeOK ==
    \/ node = NoNode
    \/ \E c \in Chains, f \in BOOLEAN, p \in BOOLEAN : \E g :
        /\ p => f
        /\ g = LoadSpec(ChainId(c)).genesis \/ IsRelayGenesis(g)
        /\ node = [running |-> TRUE, chain |-> c, genesis |-> g, fresh |-> f, purged |-> p]

\* No database is left that a command with these arguments would open.
Gone(D, a, r) ==
    \A d \in D :
        /\ ~(d.base = DefaultBase(a) /\ d.id = ConfigSpec(a).id)
        /\ ~(d.base = RelayBasePath(DefaultBase(a), r) /\ d.id = RelayChainId(ConfigSpec(a), r))

PurgeOK ==
    \/ purged = NoPurge
    \/ \E a \in Args, r \in RelayArgs :
        purged = [purged |-> TRUE, a |-> a, r |-> r] /\ Gone(disk, a, r)

DiskInv ==
    /\ DiskOK(disk) /\ NodeOK /\ PurgeOK
    /\ node = NoNode => NothingTemporary(disk)
    /\ \A e \in registered : e.genesis = ExportSpec(e.chain).genesis
    /\ commands \in 0..MaxCommands

-----------------------------------------------------------------------------

\* The bound on the commands is a number.
LEMMA BoundFact == MaxCommands \in Nat
  BY ChainsAssumption

\* An id stands for one genesis, and exports have the genesis of the node, also
\* those that ignore --dev.
LEMMA SpecFacts ==
    /\ \A a, b \in Args : ConfigSpec(a).id = ConfigSpec(b).id => ConfigSpec(a).genesis = ConfigSpec(b).genesis
    /\ \A c : ExportSpec(c).genesis = LoadSpec(ChainId(c)).genesis
<1> DEFINE G == TestnetGenesis(<< "Alice", "Bob" >>, 1000)
<1>1. /\ DevelopmentConfig.id = "dev" /\ DevelopmentConfig.genesis = G
      /\ LocalTestnetConfig.id = "local_testnet" /\ LocalTestnetConfig.genesis = G
      /\ FromJsonFile.id = "custom"
  BY DEF DevelopmentConfig, LocalTestnetConfig, FromJsonFile
<1>2. \A x : LoadSpec(x) = DevelopmentConfig \/ LoadSpec(x) = LocalTestnetConfig \/ LoadSpec(x) = FromJsonFile
  BY DEF LoadSpec
<1>3. LoadSpec("") = LocalTestnetConfig /\ LoadSpec("dev") = DevelopmentConfig
  BY DEF LoadSpec
<1>4. \A a \in Args :
        ConfigSpec(a) = DevelopmentConfig \/ ConfigSpec(a) = LocalTestnetConfig \/ ConfigSpec(a) = FromJsonFile
  BY <1>2 DEF ConfigSpec
<1> HIDE DEF G
<1>5. ASSUME NEW a \in Args, NEW b \in Args, ConfigSpec(a).id = ConfigSpec(b).id
      PROVE  ConfigSpec(a).genesis = ConfigSpec(b).genesis
  BY <1>1, <1>4, <1>5
<1>6. ASSUME NEW c PROVE ExportSpec(c).genesis = LoadSpec(ChainId(c)).genesis
  <2>1. CASE c = "--dev"
    <3>1. ExportSpec(c) = LoadSpec("") /\ ChainId(c) = "dev"
      BY <2>1 DEF ExportSpec, ChainId
    <3> QED BY <1>1, <1>3, <3>1
  <2>2. CASE c # "--dev"
    BY <2>2 DEF ExportSpec, ChainId
  <2> QED BY <2>1, <2>2
<1> QED
  BY <1>5, <1>6

\* A base path has one part, and the relay chain's below it two.
LEMMA PathFacts ==
    ASSUME NEW b
    PROVE  /\ Len(<< b >>) = 1 /\ << b >>[1] = b
           /\ Len(Append(<< b >>, "polkadot")) = 2
           /\ Append(<< b >>, "polkadot")[1] = b /\ Append(<< b >>, "polkadot")[2] = "polkadot"
<1> DEFINE S == {b, "polkadot"}
           s == << b >>
           t == Append(s, "polkadot")
<1>0. b \in S /\ "polkadot" \in S
  OBVIOUS
<1> HIDE DEF S
<1>1. << b >> \in Seq(S) /\ Len(<< b >>) = 1 /\ << b >>[1] = b
  BY <1>0
<1> HIDE DEF s
<1>2. s \in Seq(S) /\ Len(s) = 1 /\ s[1] = b
  BY <1>1 DEF s
<1>3. Len(t) = Len(s) + 1 /\ (\A i \in 1..Len(s) : t[i] = s[i]) /\ t[Len(s) + 1] = "polkadot"
  <2> DEFINE y == "polkadot"
  <2>1. y \in S
    BY <1>0
  <2> HIDE DEF y
  <2>2. LET u == Append(s, y)
        IN  Len(u) = Len(s) + 1 /\ (\A i \in 1..Len(s) : u[i] = s[i]) /\ u[Len(s) + 1] = y
    BY <1>2, <2>1, AppendProperties
  <2> QED BY <2>2 DEF y
<1>4. Len(t) = 2 /\ t[1] = b /\ t[2] = "polkadot"
  BY <1>2, <1>3
<1> QED
  BY <1>1, <1>4 DEF s

\* Where a command opens databases.
LEMMA BaseFacts ==
    ASSUME NEW a \in Args, NEW r \in RelayArgs
    PROVE  /\ \E b \in {"home", "disk"} : DefaultBase(a) = << b >>
           /\ \E b \in ParaBases : NodeBase(a) = << b >>
           /\ NodeBase(a) = DefaultBase(a) \/ NodeBase(a) = << "tmp" >>
           /\ \A b \in ParaBases : RelayBasePath(<< b >>, r) = Append(<< b >>, "polkadot")
                \/ RelayBasePath(<< b >>, r) = << "relaydisk" >>
                \/ RelayBasePath(<< b >>, r) = << "disk" >>
           /\ \A b, c \in ParaBases : RelayBasePath(<< b >>, r) = RelayBasePath(<< c >>, r)
                \/ RelayBasePath(<< b >>, r) = Append(<< b >>, "polkadot")
<1>1. a.base = "" \/ a.base = "disk"
  BY DEF Args
<1>2. r.base = "" \/ r.base = "disk" \/ r.base = "relaydisk"
  BY DEF RelayArgs
<1>3. DefaultBase(a) = << "home" >> \/ DefaultBase(a) = << "disk" >>
  BY <1>1 DEF DefaultBase
<1>4. NodeBase(a) = DefaultBase(a) \/ NodeBase(a) = << "tmp" >>
  BY DEF NodeBase
<1>5. \E b \in ParaBases : NodeBase(a) = << b >>
  BY <1>3, <1>4 DEF ParaBases
<1>7. CASE r.base = ""
  <2>1. \A b \in ParaBases : RelayBasePath(<< b >>, r) = Append(<< b >>, "polkadot")
    BY <1>7 DEF RelayBasePath
  <2> QED BY <1>3, <1>4, <1>5, <2>1
<1>8. CASE r.base = "relaydisk"
  <2>1. \A b \in ParaBases : RelayBasePath(<< b >>, r) = << "relaydisk" >>
    BY <1>8 DEF RelayBasePath
  <2> QED BY <1>3, <1>4, <1>5, <2>1
<1>9. CASE r.base = "disk"
  <2>1. \A b \in ParaBases : RelayBasePath(<< b >>, r) = << "disk" >>
    BY <1>9 DEF RelayBasePath
  <2> QED BY <1>3, <1>4, <1>5, <2>1
<1> QED
  BY <1>2, <1>7, <1>8, <1>9

\* What a command opens is in the directory it asked for.
LEMMA OpenedFacts ==
    ASSUME NEW dir, NEW g, NEW d \in Opened(dir, g)
    PROVE  d.base = dir.base /\ d.id = dir.id /\ (d \in disk \/ d.genesis = g)
<1>1. CASE Databases(dir) # {}
  BY <1>1 DEF Opened, Databases
<1>2. CASE Databases(dir) = {}
  <2>1. d = [base |-> dir.base, id |-> dir.id, genesis |-> g]
    BY <1>2 DEF Opened
  <2> QED BY <2>1
<1> QED BY <1>1, <1>2


\* It keeps one database in each directory.
LEMMA OpenedOne ==
    ASSUME NEW dir, NEW g, OneEach(disk)
    PROVE  OneEach(disk \cup Opened(dir, g)) /\ Opened(dir, g) # {}
<1>1. CASE Databases(dir) # {}
  <2>1. Opened(dir, g) = Databases(dir) /\ Databases(dir) \subseteq disk
    BY <1>1 DEF Opened, Databases
  <2>2. disk \cup Opened(dir, g) = disk
    BY <2>1
  <2> QED BY <1>1, <2>1, <2>2
<1>2. CASE Databases(dir) = {}
  <2> DEFINE n == [base |-> dir.base, id |-> dir.id, genesis |-> g]
  <2>1. Opened(dir, g) = {n}
    BY <1>2 DEF Opened
  <2>2. n.base = dir.base /\ n.id = dir.id
    OBVIOUS
  <2>3. \A d \in disk : ~(d.base = dir.base /\ d.id = dir.id)
    BY <1>2 DEF Databases
  <2> HIDE DEF n
  <2> QED BY <2>1, <2>2, <2>3 DEF OneEach
<1> QED BY <1>1, <1>2

\* The database that a parachain node opens has the genesis of the specification,
\* old or new, unless a relay chain node left it.
LEMMA ParaOpened ==
    ASSUME DiskOK(disk), NEW a \in Args, NEW b \in ParaBases,
           NEW d \in Opened(ParaDir(a, << b >>), ConfigSpec(a).genesis)
    PROVE  /\ Placed(d) /\ d.base = << b >>
           /\ GenesisById(d) \/ IsRelayGenesis(d.genesis)
           /\ d.genesis = ConfigSpec(a).genesis \/ IsRelayGenesis(d.genesis)
<1> DEFINE dir == ParaDir(a, << b >>)
           g == ConfigSpec(a).genesis
<1>1. dir.base = << b >> /\ dir.id = ConfigSpec(a).id
  BY DEF ParaDir
<1>2. d.base = dir.base /\ d.id = dir.id /\ (d \in disk \/ d.genesis = g)
  <2> HIDE DEF dir, g
  <2>1. d \in Opened(dir, g)
    BY DEF dir, g
  <2> QED BY <2>1, OpenedFacts
<1>3. d.base = << b >> /\ d.id = ConfigSpec(a).id
  BY <1>1, <1>2
<1>4. Placed(d)
  BY <1>3 DEF Placed
<1>5. CASE d \in disk
  <2>1. GenesisById(d) \/ IsRelayGenesis(d.genesis)
    BY <1>5 DEF DiskOK
  <2> QED BY <1>3, <1>4, <2>1 DEF GenesisById
<1>6. CASE d.genesis = g
  <2>1. GenesisById(d)
    BY <1>3, <1>6, SpecFacts DEF GenesisById
  <2> QED BY <1>3, <1>4, <1>6, <2>1
<1> QED
  BY <1>2, <1>5, <1>6

\* Opening a parachain database keeps the disk in order.
LEMMA ParaDiskOK ==
    ASSUME DiskOK(disk), NEW a \in Args, NEW b \in ParaBases
    PROVE  DiskOK(disk \cup Opened(ParaDir(a, << b >>), ConfigSpec(a).genesis))
  BY ParaOpened, OpenedOne DEF DiskOK

\* A relay chain database that is opened, old or new, keeps the disk in order.
LEMMA RelayOpened ==
    ASSUME DiskOK(disk), NEW dir, NEW d \in Opened(dir, RelayGenesis(dir.id)),
           \/ dir.base = << "relaydisk" >>
           \/ \E b \in ParaBases : dir.base = << b >> \/ dir.base = Append(<< b >>, "polkadot")
    PROVE  Placed(d) /\ d.base = dir.base /\ (GenesisById(d) \/ IsRelayGenesis(d.genesis))
<1>1. d.base = dir.base /\ (d \in disk \/ d.genesis = RelayGenesis(dir.id))
  BY OpenedFacts
<1>2. IsRelayGenesis(RelayGenesis(dir.id))
  BY DEF IsRelayGenesis, RelayGenesis
<1> QED
  BY <1>1, <1>2 DEF Placed, DiskOK

\* A start opens two databases and leaves a node that builds on the genesis of its
\* specification; after a purge it finds neither of them.
LEMMA RunKeeps ==
    ASSUME DiskInv, NEW a \in Args, NEW r \in RelayArgs, Run(a, r)
    PROVE  DiskInv'
<1>0. /\ DiskOK(disk) /\ NodeOK /\ PurgeOK
      /\ node = NoNode => NothingTemporary(disk)
      /\ \A e \in registered : e.genesis = ExportSpec(e.chain).genesis
      /\ commands \in 0..MaxCommands
  BY DEF DiskInv
<1>1. PICK b \in ParaBases : NodeBase(a) = << b >>
  BY BaseFacts
<1> DEFINE s == ConfigSpec(a)
           para == ParaDir(a, << b >>)
           relay == RelayDir(a, << b >>, r)
           db == Opened(para, s.genesis)
           rl == Opened(relay, RelayGenesis(relay.id))
           f == Databases(para) = {} /\ Databases(relay) = {}
           p == purged.purged /\ purged.a = a /\ purged.r = r
<1>2. /\ para.base = << b >> /\ para.id = s.id
      /\ relay.base = RelayBasePath(<< b >>, r) /\ relay.id = RelayChainId(s, r)
  BY DEF ParaDir, RelayDir
<1>3. \/ relay.base = << "relaydisk" >> \/ relay.base = << "disk" >>
      \/ relay.base = Append(<< b >>, "polkadot")
  BY <1>2, BaseFacts
<1>4. para = relay => b = "disk"
  <2>1. << b >> # << "relaydisk" >>
    <3>1. << b >>[1] = b /\ << "relaydisk" >>[1] = "relaydisk" /\ b # "relaydisk"
      BY PathFacts DEF ParaBases
    <3> QED BY <3>1
  <2>2. << b >> # Append(<< b >>, "polkadot")
    BY PathFacts
  <2>3. << b >> = << "disk" >> => b = "disk"
    BY PathFacts
  <2> QED BY <1>2, <1>3, <2>1, <2>2, <2>3
<1>5. /\ commands < MaxCommands /\ commands' = commands + 1 /\ ~node.running /\ purged' = NoPurge
      /\ registered' = registered
  BY DEF Run, Command
<1>6. /\ para = relay => disk' = disk \cup db /\ node' = node
      /\ para # relay =>
            /\ disk' = disk \cup db \cup rl
            /\ \E d \in db : node' = [running |-> TRUE, chain |-> a.chain, genesis |-> d.genesis,
                                      fresh |-> f, purged |-> p]
  BY <1>1 DEF Run
<1>7. node = NoNode
  <2>1. ASSUME NEW c, NEW g, NEW x, NEW y,
               node = [running |-> TRUE, chain |-> c, genesis |-> g, fresh |-> x, purged |-> y]
        PROVE  FALSE
    BY <1>5, <2>1
  <2> QED BY <1>0, <2>1 DEF NodeOK
<1>8. NothingTemporary(disk)
  BY <1>0, <1>7
<1>9. /\ \A d \in db : d.base = << b >> /\ (d.genesis = s.genesis \/ IsRelayGenesis(d.genesis))
      /\ DiskOK(disk \cup db)
  BY <1>0, ParaOpened, ParaDiskOK
<1>10. p => f
  <2> SUFFICES ASSUME p PROVE f
    OBVIOUS
  <2>1. Gone(disk, a, r)
    <3>1. NoPurge.purged = FALSE
      BY DEF NoPurge
    <3>2. purged # NoPurge
      BY <3>1
    <3>3. PICK x \in Args, y \in RelayArgs : purged = [purged |-> TRUE, a |-> x, r |-> y] /\ Gone(disk, x, y)
      BY <1>0, <3>2 DEF PurgeOK
    <3>4. purged.a = x /\ purged.r = y
      BY <3>3
    <3> QED BY <3>3, <3>4
  <2>2. DefaultBase(a) = << b >> \/ b = "tmp"
    <3>1. << b >> = << "tmp" >> => b = "tmp"
      BY PathFacts
    <3> QED BY <1>1, <3>1, BaseFacts
  <2>3. CASE DefaultBase(a) = << b >>
    BY <1>2, <2>1, <2>3 DEF Gone, Databases
  <2>4. CASE b = "tmp"
    <3>1. \A e \in disk : e.base # << "tmp" >> /\ e.base # Append(<< "tmp" >>, "polkadot")
      <4>1. << "tmp" >>[1] = "tmp" /\ Append(<< "tmp" >>, "polkadot")[1] = "tmp"
        BY PathFacts
      <4> QED BY <1>8, <4>1 DEF NothingTemporary
    <3>2. Databases(para) = {}
      BY <1>2, <2>4, <3>1 DEF Databases
    <3>3. PICK c \in ParaBases : DefaultBase(a) = << c >>
      BY BaseFacts DEF ParaBases
    <3>4. relay.base = RelayBasePath(DefaultBase(a), r) \/ relay.base = Append(<< b >>, "polkadot")
      BY <1>2, <3>3, BaseFacts
    <3>5. Databases(relay) = {}
      BY <1>2, <2>1, <2>4, <3>1, <3>4 DEF Databases, Gone
    <3> QED BY <3>2, <3>5
  <2> QED BY <2>2, <2>3, <2>4
<1>11. PurgeOK' /\ (\A e \in registered : e.genesis = ExportSpec(e.chain).genesis)'
  BY <1>0, <1>5 DEF PurgeOK
<1>12. commands' \in 0..MaxCommands
  BY <1>0, <1>5, BoundFact
<1>13. CASE para = relay
  <2>1. disk' = disk \cup db /\ node' = node /\ b = "disk"
    BY <1>4, <1>6, <1>13
  <2>2. << b >>[1] # "tmp"
    <3>1. << b >>[1] = b
      BY PathFacts
    <3> QED BY <2>1, <3>1
  <2>3. NothingTemporary(disk')
    BY <1>8, <1>9, <2>1, <2>2 DEF NothingTemporary
  <2>4. DiskOK(disk') /\ NodeOK'
    BY <1>0, <1>9, <2>1 DEF NodeOK
  <2> QED BY <1>11, <1>12, <2>3, <2>4 DEF DiskInv
<1>14. CASE para # relay
  <2>1. disk' = disk \cup db \cup rl
    BY <1>6, <1>14
  <2>2. PICK d \in db : node' = [running |-> TRUE, chain |-> a.chain, genesis |-> d.genesis, fresh |-> f, purged |-> p]
    BY <1>6, <1>14
  <2>3. DiskOK(disk')
    <3>1. OneEach(disk \cup rl)
      <4> HIDE DEF relay
      <4> QED BY <1>0, OpenedOne DEF DiskOK
    <3>2. \A e \in rl : Placed(e) /\ e.base = relay.base /\ (GenesisById(e) \/ IsRelayGenesis(e.genesis))
      <4>1. \/ relay.base = << "relaydisk" >>
            \/ \E c \in ParaBases : relay.base = << c >> \/ relay.base = Append(<< c >>, "polkadot")
        BY <1>3 DEF ParaBases
      <4> HIDE DEF relay
      <4> QED BY <1>0, <4>1, RelayOpened
    <3>3. \A e \in db : e.base = para.base /\ e.id = para.id
      <4> HIDE DEF para
      <4> QED BY OpenedFacts
    <3>4. \A e \in rl : e.base = relay.base /\ e.id = relay.id
      <4> HIDE DEF relay
      <4> QED BY OpenedFacts
    <3>5. ~(para.base = relay.base /\ para.id = relay.id)
      BY <1>14 DEF ParaDir, RelayDir
    <3> HIDE DEF db, rl, relay, para
    <3>6. OneEach(disk \cup db \cup rl)
      <4> SUFFICES ASSUME NEW x \in disk \cup db \cup rl, NEW y \in disk \cup db \cup rl,
                          x.base = y.base, x.id = y.id
                   PROVE  x = y
        BY DEF OneEach
      <4>1. CASE x \in disk \cup db /\ y \in disk \cup db
        BY <1>9, <4>1 DEF DiskOK, OneEach
      <4>2. CASE x \in disk \cup rl /\ y \in disk \cup rl
        BY <3>1, <4>2 DEF OneEach
      <4>3. CASE (x \in db /\ y \in rl) \/ (x \in rl /\ y \in db)
        BY <3>3, <3>4, <3>5, <4>3
      <4> QED BY <4>1, <4>2, <4>3
    <3> QED BY <1>9, <2>1, <3>2, <3>6 DEF DiskOK
  <2>4. NodeOK'
    <3>1. a.chain \in Chains
      BY DEF Args
    <3>2. d.genesis = LoadSpec(ChainId(a.chain)).genesis \/ IsRelayGenesis(d.genesis)
      BY <1>9 DEF ConfigSpec
    <3>3. PICK x \in BOOLEAN, y \in BOOLEAN : x = f /\ y = p /\ (y => x)
      BY <1>10
    <3> HIDE DEF f, p, db
    <3>4. node' = [running |-> TRUE, chain |-> a.chain, genesis |-> d.genesis, fresh |-> x, purged |-> y]
      BY <2>2, <3>3
    <3> QED BY <3>1, <3>2, <3>3, <3>4 DEF NodeOK
  <2>5. node' # NoNode
    <3>1. node'.running = TRUE /\ NoNode.running = FALSE
      BY <2>2 DEF NoNode
    <3> QED BY <3>1
  <2> QED BY <1>11, <1>12, <2>3, <2>4, <2>5 DEF DiskInv
<1> QED
  BY <1>13, <1>14

\* The invariant is inductive.
LEMMA DiskInvKept == DiskInv /\ [Next]_vars => DiskInv'
<1> SUFFICES ASSUME DiskInv, [Next]_vars PROVE DiskInv'
  OBVIOUS
<1>0. /\ DiskOK(disk) /\ NodeOK /\ PurgeOK
      /\ node = NoNode => NothingTemporary(disk)
      /\ \A e \in registered : e.genesis = ExportSpec(e.chain).genesis
      /\ commands \in 0..MaxCommands
  BY DEF DiskInv
<1>1. ASSUME NEW D \in SUBSET disk PROVE DiskOK(D) /\ (NothingTemporary(disk) => NothingTemporary(D))
  BY <1>0 DEF DiskOK, OneEach, NothingTemporary
<1>2. ASSUME Command PROVE commands' \in 0..MaxCommands
  BY <1>0, <1>2, BoundFact DEF Command
<1>3. ASSUME NEW a \in Args, NEW r \in RelayArgs, Run(a, r) PROVE DiskInv'
  BY <1>3, RunKeeps
<1>4. CASE Terminate
  <2> DEFINE D == {d \in disk : d.base[1] # "tmp"}
  <2>1. /\ disk' = D /\ node' = NoNode /\ UNCHANGED <<registered, purged, commands>>
    BY <1>4 DEF Terminate
  <2>2. D \in SUBSET disk /\ NothingTemporary(D)
    BY DEF NothingTemporary
  <2> HIDE DEF D
  <2>3. DiskOK(disk') /\ NothingTemporary(disk')
    BY <1>1, <2>1, <2>2
  <2>4. PurgeOK'
    BY <1>0, <2>1, <2>2 DEF PurgeOK, Gone
  <2>5. NodeOK'
    BY <2>1 DEF NodeOK
  <2> QED BY <1>0, <2>1, <2>3, <2>4, <2>5 DEF DiskInv
<1>5. ASSUME NEW a \in Args, ChainCommand(a) PROVE DiskInv'
  <2>1. PICK b \in {"home", "disk"} : DefaultBase(a) = << b >>
    <3>1. a.base = "" \/ a.base = "disk"
      BY DEF Args
    <3>2. DefaultBase(a) = << "home" >> \/ DefaultBase(a) = << "disk" >>
      BY <3>1 DEF DefaultBase
    <3> QED BY <3>2
  <2> DEFINE db == Opened(ParaDir(a, << b >>), ConfigSpec(a).genesis)
  <2>2. Command /\ disk' = disk \cup db /\ purged' = NoPurge /\ UNCHANGED <<registered, node>>
    BY <1>5, <2>1 DEF ChainCommand
  <2>3. b \in ParaBases /\ b # "tmp"
    BY DEF ParaBases
  <2>4. DiskOK(disk \cup db) /\ \A d \in db : d.base = << b >>
    BY <1>0, <2>3, ParaDiskOK, ParaOpened
  <2> HIDE DEF db
  <2>5. (node = NoNode => NothingTemporary(disk))'
    <3>1. << b >>[1] = b
      BY PathFacts
    <3> QED BY <1>0, <2>2, <2>3, <2>4, <3>1 DEF NothingTemporary
  <2>6. PurgeOK' /\ NodeOK'
    BY <1>0, <2>2 DEF PurgeOK, NodeOK
  <2> QED BY <1>0, <1>2, <2>2, <2>4, <2>5, <2>6 DEF DiskInv
<1>6. ASSUME NEW a \in Args, NEW r \in RelayArgs, PurgeChain(a, r) PROVE DiskInv'
  <2> DEFINE para == ParaDir(a, DefaultBase(a))
             relay == RelayDir(a, DefaultBase(a), r)
             D == disk \ (Databases(para) \cup Databases(relay))
  <2>1. /\ Command /\ disk' = D /\ purged' = [purged |-> TRUE, a |-> a, r |-> r]
        /\ UNCHANGED <<registered, node>>
    BY <1>6 DEF PurgeChain
  <2>2. /\ para.base = DefaultBase(a) /\ para.id = ConfigSpec(a).id
        /\ relay.base = RelayBasePath(DefaultBase(a), r) /\ relay.id = RelayChainId(ConfigSpec(a), r)
    BY DEF ParaDir, RelayDir
  <2> HIDE DEF para, relay
  <2>3. D \in SUBSET disk /\ Gone(D, a, r)
    BY <2>2 DEF Databases, Gone
  <2> HIDE DEF D
  <2>4. PurgeOK'
    BY <2>1, <2>3 DEF PurgeOK
  <2>5. DiskOK(disk') /\ (node = NoNode => NothingTemporary(disk))'
    BY <1>0, <1>1, <2>1, <2>3
  <2>6. NodeOK'
    BY <1>0, <2>1 DEF NodeOK
  <2> QED BY <1>0, <1>2, <2>1, <2>4, <2>5, <2>6 DEF DiskInv
<1>7. ASSUME NEW chain \in Chains, ExportGenesis(chain) PROVE DiskInv'
  <2> DEFINE x == [chain |-> chain, genesis |-> ExportSpec(chain).genesis]
  <2>1. Command /\ registered' = registered \cup {x} /\ UNCHANGED <<disk, node, purged>>
    BY <1>7 DEF ExportGenesis
  <2>2. x.chain = chain /\ x.genesis = ExportSpec(chain).genesis
    OBVIOUS
  <2> HIDE DEF x
  <2>3. (\A e \in registered : e.genesis = ExportSpec(e.chain).genesis)'
    BY <1>0, <2>1, <2>2
  <2>4. NodeOK' /\ PurgeOK' /\ DiskOK(disk') /\ (node = NoNode => NothingTemporary(disk))'
    BY <1>0, <2>1 DEF NodeOK, PurgeOK
  <2> QED BY <1>0, <1>2, <2>1, <2>3, <2>4 DEF DiskInv
<1>8. ASSUME UNCHANGED vars PROVE DiskInv'
  BY <1>0, <1>8 DEF vars, DiskInv, NodeOK, PurgeOK
<1> QED
  BY <1>3, <1>4, <1>5, <1>6, <1>7, <1>8 DEF Next, Done

\* It holds after every sequence of commands.
LEMMA DiskInvHolds == Spec => []DiskInv
<1>1. Init => DiskInv
  <2> SUFFICES ASSUME Init PROVE DiskInv
    OBVIOUS
  <2>1. 0 \in 0..MaxCommands
    BY BoundFact
  <2>2. DiskOK({}) /\ NothingTemporary({})
    BY DEF DiskOK, OneEach, NothingTemporary
  <2> QED BY <2>1, <2>2 DEF Init, DiskInv, NodeOK, PurgeOK
<1> QED
  BY <1>1, DiskInvKept, PTL DEF Spec

\* A node that runs has the record that Run made.
LEMMA RunningNode ==
    ASSUME DiskInv
    PROVE  /\ node.running \in BOOLEAN
           /\ node.running => /\ \/ node.genesis = LoadSpec(ChainId(node.chain)).genesis
                                 \/ IsRelayGenesis(node.genesis)
                              /\ node.purged => node.fresh
<1>1. CASE node = NoNode
  <2>1. node.running = FALSE
    BY <1>1 DEF NoNode
  <2> QED BY <2>1
<1>2. ASSUME NEW c \in Chains, NEW f \in BOOLEAN, NEW p \in BOOLEAN, NEW g, p => f,
             g = LoadSpec(ChainId(c)).genesis \/ IsRelayGenesis(g),
             node = [running |-> TRUE, chain |-> c, genesis |-> g, fresh |-> f, purged |-> p]
      PROVE  /\ node.running = TRUE
             /\ node.genesis = LoadSpec(ChainId(node.chain)).genesis \/ IsRelayGenesis(node.genesis)
             /\ node.purged => node.fresh
  <2>1. node.running = TRUE /\ node.chain = c /\ node.fresh = f /\ node.purged = p /\ node.genesis = g
    BY <1>2
  <2> QED BY <1>2, <2>1
<1>3. NodeOK
  BY DEF DiskInv
<1> QED
  BY <1>1, <1>2, <1>3 DEF NodeOK

\* TypeOK: no directory ever holds two databases.
THEOREM DiskTyped == Spec => []TypeOK
<1>1. DiskInv => TypeOK
  <2> SUFFICES ASSUME DiskInv PROVE TypeOK
    OBVIOUS
  <2>1. ASSUME NEW d \in disk
        PROVE  \/ Len(d.base) = 1 /\ d.base[1] \in {"home", "tmp", "disk", "relaydisk"}
               \/ Len(d.base) = 2 /\ d.base[1] \in {"home", "tmp", "disk"} /\ d.base[2] = "polkadot"
    <3>1. \/ \E b \in ParaBases : d.base = << b >>
          \/ d.base = << "relaydisk" >>
          \/ \E b \in ParaBases : d.base = Append(<< b >>, "polkadot")
      BY DEF DiskInv, DiskOK, Placed
    <3> QED BY <3>1, PathFacts DEF ParaBases
  <2>2. \A d, e \in disk : d.base = e.base /\ d.id = e.id => d = e
    BY DEF DiskInv, DiskOK, OneEach
  <2>3. node.running \in BOOLEAN /\ commands \in 0..MaxCommands
    BY RunningNode DEF DiskInv
  <2> QED BY <2>1, <2>2, <2>3 DEF TypeOK
<1> QED
  BY <1>1, DiskInvHolds, PTL

\* NodeBuildsOnRegistered: whatever was run, exported and purged before, a node
\* builds on the genesis that an export with its chain selection has, unless it
\* found a database of a relay chain node.
THEOREM BuildsOnExport == Spec => []NodeBuildsOnRegistered
<1>1. DiskInv => NodeBuildsOnRegistered
  BY RunningNode, SpecFacts DEF DiskInv, NodeBuildsOnRegistered
<1> QED
  BY <1>1, DiskInvHolds, PTL

\* PurgeForgets: a start after purge-chain with the same arguments finds nothing,
\* although only the start may use a temporary directory.
THEOREM PurgeIsComplete == Spec => []PurgeForgets
<1>1. DiskInv => PurgeForgets
  BY RunningNode DEF PurgeForgets
<1> QED
  BY <1>1, DiskInvHolds, PTL

-----------------------------------------------------------------------------
(* The process.                                                            *)

\* The tasks that can exist before the step with index s.
SpawnedBefore(s) ==
    {t \in Tasks :
        \/ t \in {"telemetry", "txpool", "import_queue"} /\ s > 2
        \/ t = "relay_chain" /\ s > 3
        \/ t = "network" /\ s > 4
        \/ t = "offchain" /\ s > 5
        \/ t = "rpc" /\ s > 6
        \/ t = "telemetry_hwbench" /\ s > 7
        \/ t \in {"consensus", "collator"} /\ s > 8}

\* The inductive invariant: what each step of the startup has left behind.
StartupInv ==
    /\ ProcessTypeOK
    /\ tasks \cup dead \subseteq SpawnedBefore(step)
    /\ step > 3 /\ IsAuthority => key
    /\ outcome = "none" /\ step > 8 =>
        /\ "consensus" \in tasks \cup dead
        /\ IsAuthority => "collator" \in tasks \cup dead
    /\ network = "started" => outcome = "none" /\ step > 9
    /\ outcome # "panic"

\* Which step has which index.
LEMMA StepIndex ==
    ASSUME ProcessTypeOK
    PROVE  /\ step \in 1..10
           /\ StartupOrder[step] = "prepare" => step = 1
           /\ StartupOrder[step] = "new_partial" => step = 2
           /\ StartupOrder[step] = "relay" => step = 3
           /\ StartupOrder[step] = "build_network" => step = 4
           /\ StartupOrder[step] = "offchain" => step = 5
           /\ StartupOrder[step] = "spawn_tasks" => step = 6
           /\ StartupOrder[step] = "hwbench" => step = 7
           /\ StartupOrder[step] = "role" => step = 8
           /\ StartupOrder[step] = "start_network" => step = 9
<1>1. step \in 1..10
  BY DEF ProcessTypeOK, StartupOrder
<1>2. \/ step = 1 \/ step = 2 \/ step = 3 \/ step = 4 \/ step = 5
      \/ step = 6 \/ step = 7 \/ step = 8 \/ step = 9 \/ step = 10
  BY <1>1
<1> QED
  BY <1>1, <1>2 DEF StartupOrder

\* Ending the process in any way but a panic preserves the invariant.
LEMMA StopKeeps ==
    ASSUME StartupInv, NEW how \in {"ok", "error"}, Stop(how)
    PROVE  StartupInv'
  BY DEF StartupInv, ProcessTypeOK, Stop, SpawnedBefore, IsAuthority, Options

\* A step preserves the typing when it spawns tasks that belong to it.
LEMMA SpawnTypes ==
    ASSUME StartupInv, NEW plain, NEW ess, Spawn(plain, ess),
           step < 10,
           plain \cup ess \subseteq SpawnedBefore(step + 1) \ SpawnedBefore(step),
           network' \in {"none", "built", "started"}, key' \in BOOLEAN
    PROVE  /\ ProcessTypeOK'
           /\ (tasks \cup dead \subseteq SpawnedBefore(step))'
<1>1. step \in 1..10 /\ step + 1 \in 1..10 /\ Len(StartupOrder) = 10
  BY StepIndex DEF StartupInv, StartupOrder
<1>2. SpawnedBefore(step) \subseteq SpawnedBefore(step + 1)
  BY <1>1 DEF SpawnedBefore
<1>3. /\ tasks' = tasks \cup plain \cup ess /\ essential' = essential \cup ess
      /\ step' = step + 1 /\ UNCHANGED <<options, dead, outcome>>
  BY DEF Spawn
<1>4. SpawnedBefore(step + 1) \subseteq Tasks
  BY DEF SpawnedBefore
<1>5. tasks' \cup dead' \subseteq SpawnedBefore(step')
  BY <1>2, <1>3 DEF StartupInv
<1>6. tasks' \cap dead' = {}
  BY <1>3 DEF StartupInv, ProcessTypeOK
<1>7. tasks' \subseteq Tasks /\ essential' \subseteq Tasks /\ dead' \subseteq Tasks
  BY <1>3, <1>4, <1>5 DEF StartupInv, ProcessTypeOK
<1>8. outcome' = "none" => essential' \subseteq tasks' \cup dead'
  BY <1>3 DEF StartupInv, ProcessTypeOK
<1>9. (step \in 1..Len(StartupOrder))'
  BY <1>1, <1>3 DEF StartupOrder
<1>10. options' \in Options /\ outcome' \in {"none", "ok", "error", "panic"}
  BY <1>3 DEF StartupInv, ProcessTypeOK
<1> QED
  BY <1>5, <1>6, <1>7, <1>8, <1>9, <1>10 DEF ProcessTypeOK

\* A step before the role is chosen preserves the invariant when it leaves the
\* network stopped and, from the relay chain interface on, the key in place.
LEMMA EarlySpawnKeeps ==
    ASSUME StartupInv, NEW plain, NEW ess, Spawn(plain, ess),
           step < 8,
           plain \cup ess \subseteq SpawnedBefore(step + 1) \ SpawnedBefore(step),
           network' \in {network, "built"}, key' \in BOOLEAN,
           step > 2 /\ IsAuthority => key'
    PROVE  StartupInv'
<1>1. step \in 1..10
  BY StepIndex DEF StartupInv
<1>2. network \in {"none", "built"} /\ network' \in {"none", "built"}
  BY <1>1 DEF StartupInv, ProcessTypeOK
<1>3. ProcessTypeOK' /\ (tasks \cup dead \subseteq SpawnedBefore(step))'
  BY <1>1, <1>2, SpawnTypes
<1>4. step' = step + 1 /\ UNCHANGED <<options, outcome>>
  BY DEF Spawn
<1>5. (step > 3 /\ IsAuthority => key)'
  BY <1>1, <1>4 DEF IsAuthority
<1> QED
  BY <1>1, <1>2, <1>3, <1>4, <1>5 DEF StartupInv

\* The startup preserves the invariant, one case per step.
LEMMA StartupKeeps ==
    ASSUME StartupInv, Startup
    PROVE  StartupInv'
<1>1. ProcessTypeOK /\ step \in 1..10 /\ key \in BOOLEAN /\ options \in Options
  BY StepIndex DEF StartupInv, ProcessTypeOK
<1>2. ASSUME Stop("error") PROVE StartupInv'
  BY <1>2, StopKeeps
<1>3. CASE Prepare
  <2>1. step = 1
    BY <1>1, <1>3, StepIndex DEF Prepare, At
  <2>2. CASE Spawn({}, {}) /\ UNCHANGED <<network, key>>
    BY <1>1, <2>1, <2>2, EarlySpawnKeeps
  <2> QED BY <1>2, <1>3, <2>2 DEF Prepare
<1>4. CASE NewPartial
  <2>1. step = 2
    BY <1>1, <1>4, StepIndex DEF NewPartial, At
  <2>2. CASE SpawnPartial /\ UNCHANGED <<network, key>>
    <3>1. When(options.telemetry, "telemetry") \cup {"txpool", "import_queue"}
            \subseteq SpawnedBefore(step + 1) \ SpawnedBefore(step)
      BY <2>1 DEF When, SpawnedBefore, Tasks
    <3> QED BY <1>1, <2>1, <2>2, <3>1, EarlySpawnKeeps DEF SpawnPartial
  <2> QED BY <1>2, <1>4, <2>2 DEF NewPartial
<1>5. CASE BuildRelayChainInterface
  <2>1. step = 3
    BY <1>1, <1>5, StepIndex DEF BuildRelayChainInterface, At
  <2>2. CASE Spawn({}, {"relay_chain"}) /\ key' = CollatorKey /\ UNCHANGED network
    <3>1. {} \cup {"relay_chain"} \subseteq SpawnedBefore(step + 1) \ SpawnedBefore(step)
      BY <2>1 DEF SpawnedBefore, Tasks
    <3>2. key' \in BOOLEAN /\ (IsAuthority => key')
      BY <1>1, <2>2 DEF CollatorKey, IsAuthority, Options
    <3> QED BY <1>1, <2>1, <2>2, <3>1, <3>2, EarlySpawnKeeps
  <2> QED BY <1>2, <1>5, <2>2 DEF BuildRelayChainInterface
<1>6. step > 3 /\ IsAuthority => key
  BY DEF StartupInv
<1>7. CASE BuildNetwork
  <2>1. step = 4
    BY <1>1, <1>7, StepIndex DEF BuildNetwork, At
  <2>2. CASE Spawn({"network"}, {}) /\ network' = "built" /\ UNCHANGED key
    <3>1. {"network"} \cup {} \subseteq SpawnedBefore(step + 1) \ SpawnedBefore(step)
      BY <2>1 DEF SpawnedBefore, Tasks
    <3> QED BY <1>1, <1>6, <2>1, <2>2, <3>1, EarlySpawnKeeps
  <2> QED BY <1>2, <1>7, <2>2 DEF BuildNetwork
<1>8. CASE BuildOffchainWorkers
  <2>1. step = 5
    BY <1>1, <1>8, StepIndex DEF BuildOffchainWorkers, At
  <2>2. When(options.offchain, "offchain") \cup {} \subseteq SpawnedBefore(step + 1) \ SpawnedBefore(step)
    BY <2>1 DEF When, SpawnedBefore, Tasks
  <2> QED BY <1>1, <1>6, <1>8, <2>1, <2>2, EarlySpawnKeeps DEF BuildOffchainWorkers
<1>9. CASE SpawnTasks
  <2>1. step = 6
    BY <1>1, <1>9, StepIndex DEF SpawnTasks, At
  <2>2. CASE Spawn({"rpc"}, {}) /\ UNCHANGED <<network, key>>
    <3>1. {"rpc"} \cup {} \subseteq SpawnedBefore(step + 1) \ SpawnedBefore(step)
      BY <2>1 DEF SpawnedBefore, Tasks
    <3> QED BY <1>1, <1>6, <2>1, <2>2, <3>1, EarlySpawnKeeps
  <2> QED BY <1>2, <1>9, <2>2 DEF SpawnTasks
<1>10. CASE HwbenchTelemetry
  <2>1. step = 7
    BY <1>1, <1>10, StepIndex DEF HwbenchTelemetry, At
  <2>2. When(options.hwbench /\ options.telemetry, "telemetry_hwbench") \cup {}
            \subseteq SpawnedBefore(step + 1) \ SpawnedBefore(step)
    BY <2>1 DEF When, SpawnedBefore, Tasks
  <2> QED BY <1>1, <1>6, <1>10, <2>1, <2>2, EarlySpawnKeeps DEF HwbenchTelemetry
<1>11. ASSUME step = 8, NEW ess, Spawn({}, ess), UNCHANGED <<network, key>>,
              ess \subseteq {"consensus", "collator"}, "consensus" \in ess,
              IsAuthority => "collator" \in ess
       PROVE  StartupInv'
  <2>1. {} \cup ess \subseteq SpawnedBefore(step + 1) \ SpawnedBefore(step)
    BY <1>11 DEF SpawnedBefore, Tasks
  <2>2. network' \in {"none", "built"}
    BY <1>11 DEF StartupInv, ProcessTypeOK
  <2>3. ProcessTypeOK' /\ (tasks \cup dead \subseteq SpawnedBefore(step))'
    <3>1. step < 10 /\ key' \in BOOLEAN /\ network' \in {"none", "built", "started"} /\ Spawn({}, ess)
      BY <1>1, <1>11, <2>2
    <3> QED BY <2>1, <3>1, SpawnTypes
  <2>4. tasks' = tasks \cup ess /\ UNCHANGED <<options, dead, outcome>>
    BY <1>11 DEF Spawn
  <2>5. "consensus" \in tasks' \cup dead' /\ (IsAuthority' => "collator" \in tasks' \cup dead')
    BY <1>11, <2>4 DEF IsAuthority
  <2>6. (step > 3 /\ IsAuthority => key)'
    BY <1>6, <1>11, <2>4 DEF IsAuthority
  <2> QED BY <2>2, <2>3, <2>4, <2>5, <2>6 DEF StartupInv
<1>12. CASE StartCollator
  <2>1. step = 8 /\ IsAuthority
    BY <1>1, <1>12, StepIndex DEF StartCollator, At
  <2>2. key
    BY <1>6, <2>1
  <2>3. Stop("error") \/ (Spawn({}, {"consensus", "collator"}) /\ UNCHANGED <<network, key>>)
    BY <1>12, <2>2 DEF StartCollator, When
  <2> QED BY <1>2, <1>11, <2>1, <2>3
<1>13. CASE StartFullNode
  <2>1. step = 8 /\ ~IsAuthority
    BY <1>1, <1>13, StepIndex DEF StartFullNode, At
  <2> QED BY <1>2, <1>11, <1>13, <2>1 DEF StartFullNode
<1>14. CASE StartNetwork
  <2>1. step = 9 /\ outcome = "none"
    BY <1>1, <1>14, StepIndex DEF StartNetwork, At
  <2>2. Spawn({}, {}) /\ network' = "started" /\ UNCHANGED key
    BY <1>14 DEF StartNetwork
  <2>3. ProcessTypeOK' /\ (tasks \cup dead \subseteq SpawnedBefore(step))'
    BY <1>1, <2>1, <2>2, SpawnTypes
  <2>4. tasks' = tasks /\ step' = 10 /\ UNCHANGED <<options, dead, outcome>>
    BY <2>1, <2>2 DEF Spawn
  <2>5. "consensus" \in tasks \cup dead /\ (IsAuthority => "collator" \in tasks \cup dead)
    BY <2>1 DEF StartupInv
  <2>6. (IsAuthority => key)'
    BY <1>6, <2>1, <2>2, <2>4 DEF IsAuthority
  <2> QED BY <2>1, <2>3, <2>4, <2>5, <2>6 DEF StartupInv, IsAuthority
<1> QED
  BY <1>3, <1>4, <1>5, <1>7, <1>8, <1>9, <1>10, <1>12, <1>13, <1>14 DEF Startup

\* The inductive invariant holds in every reachable state.
LEMMA StartupInvHolds == ProcessSpec => []StartupInv
<1>1. ProcessInit => StartupInv
  <2> SUFFICES ASSUME ProcessInit PROVE StartupInv
    OBVIOUS
  <2>1. 1 \in 1..Len(StartupOrder)
    BY DEF StartupOrder
  <2>2. ProcessTypeOK
    BY <2>1 DEF ProcessInit, ProcessTypeOK
  <2> QED BY <2>2 DEF ProcessInit, StartupInv
<1>2. StartupInv /\ [ProcessNext]_processVars => StartupInv'
  <2> SUFFICES ASSUME StartupInv, [ProcessNext]_processVars PROVE StartupInv'
    OBVIOUS
  <2>1. CASE Startup
    BY <2>1, StartupKeeps
  <2>2. ASSUME NEW t \in tasks, TaskDies(t) PROVE StartupInv'
    BY <2>2 DEF TaskDies, StartupInv, ProcessTypeOK, SpawnedBefore, IsAuthority
  <2>3. CASE EssentialTaskEnded
    BY <2>3, StopKeeps DEF EssentialTaskEnded
  <2>4. CASE Signal
    BY <2>4, StopKeeps DEF Signal
  <2>5. CASE UNCHANGED processVars
    BY <2>5 DEF processVars, StartupInv, ProcessTypeOK, SpawnedBefore, IsAuthority
  <2> QED BY <2>1, <2>2, <2>3, <2>4, <2>5 DEF ProcessNext
<1> QED BY <1>1, <1>2, PTL DEF ProcessSpec

\* TypeOK; in particular, no step of the startup spawns a task again that has died.
THEOREM ProcessTyped == ProcessSpec => []ProcessTypeOK
<1>1. StartupInv => ProcessTypeOK
  BY DEF StartupInv
<1> QED BY <1>1, StartupInvHolds, PTL

\* The expect on the collator key never panics, for every set of options.
THEOREM ExpectNeverPanics == ProcessSpec => []ExpectHolds
<1>1. StartupInv => ExpectHolds
  BY DEF StartupInv, ExpectHolds
<1> QED BY <1>1, StartupInvHolds, PTL

\* Peers are served only after the consensus tasks of the node's role started.
THEOREM NetworkIsLast == ProcessSpec => []NetworkStartsLast
<1>1. StartupInv => NetworkStartsLast
  BY StepIndex DEF StartupInv, NetworkStartsLast
<1> QED BY <1>1, StartupInvHolds, PTL

=============================================================================
