----------------------------- MODULE MainProofs -----------------------------
(***************************************************************************)
(* Proofs for Startup and for the tasks that main.rs and recv_loop spawn   *)
(* (IncomingRouter and Exporter), for every value of their constants.      *)
(***************************************************************************)
EXTENDS Integers, Startup, MCTasks, SequenceTheorems, TLAPS

(***************************************************************************)
(* Startup: any number of keys, on every platform.  The invariant has four *)
(* parts besides the types, and each action disturbs few of them.          *)
(***************************************************************************)

\* The two markers are neither keys nor configurations.
LEMMA Markers ==
  /\ Absent # Torn /\ 0 \notin Keys /\ Keys \subseteq Nat
  /\ {Absent, Torn} \cap (Configs \cup Keys) = {}
  BY StartupAssumption, MarkersAssumption DEF Keys

\* Nothing is on disk and nothing runs (the state before the first command).
LEMMA InitInv == StartupInit => StartupInv
<1> SUFFICES ASSUME StartupInit PROVE StartupInv
  OBVIOUS
<1>1. StartupTypeOK
  <2>1. keyfile \in [Paths -> Keys \cup {Absent, Torn}]
    BY DEF StartupInit
  <2>2. nkeys \in 0..MaxKeys
    BY StartupAssumption DEF StartupInit
  <2>3. dns \in BOOLEAN
    BY Zenon DEF StartupInit
  <2>4. path \in Paths
    BY DEF StartupInit, Paths
  <2> QED
    BY <2>1, <2>2, <2>3, <2>4 DEF StartupInit, StartupTypeOK
<1>2. GenerateInv /\ PrintedIsStored /\ DaemonInv
  BY DEF StartupInit, GenerateInv, PrintedIsStored, DaemonInv, RunningIsComplete
<1>3. PermissionsInv
  BY Markers DEF StartupInit, PermissionsInv, KeyLoads
<1> QED BY <1>1, <1>2, <1>3 DEF StartupInv

\* What outlives a process is at most a part of what was set up.
LEMMA Ends ==
  Exit => /\ proc' = "none" /\ UNCHANGED <<path, key, dns>>
          /\ host' \in SUBSET {"tun", "addr", "dns_route", "host_dns", "stale_dns"}
<1> SUFFICES ASSUME Exit, NEW x \in host' PROVE x = "stale_dns"
  BY DEF Exit, Leftovers
<1> QED BY DEF Exit, Leftovers

\* ensure_config() finds a file or decides to write one.
LEMMA StartGenerateInv == StartupInv /\ StartGenerate => StartupInv'
  BY Markers DEF StartGenerate, disk, StartupInv, StartupTypeOK, GenerateInv, PrintedIsStored,
         DaemonInv, RunningIsComplete, PermissionsInv, KeyLoads, Loads, KeyPath, Paths,
         Generating, Starting

\* The template is written where there was no file, so nothing was printed for it.
LEMMA WriteConfigInv == StartupInv /\ WriteConfig => StartupInv'
  BY Markers DEF WriteConfig, Template, TemplateKeyPath, StartupInv, StartupTypeOK, GenerateInv,
         PrintedIsStored, DaemonInv, RunningIsComplete, PermissionsInv, KeyLoads, Loads,
         KeyPath, Paths, Configs, Generating, Starting

\* ensure_key() generates a key only where there is no file.
LEMMA CheckKeyInv == StartupInv /\ CheckKey => StartupInv'
<1> SUFFICES ASSUME StartupInv, CheckKey PROVE StartupInv'
  OBVIOUS
<1> USE Markers DEF StartupInv
<1>1. CASE KeyLoads(path) /\ printed' = keyfile[path] /\ Exit /\ UNCHANGED <<nkeys, disk>>
  BY <1>1, Ends DEF CheckKey, disk, StartupTypeOK, GenerateInv, PrintedIsStored,
              DaemonInv, RunningIsComplete, PermissionsInv, KeyLoads, Loads, KeyPath
<1>2. CASE /\ keyfile[path] = Absent /\ nkeys < MaxKeys
           /\ nkeys' = nkeys + 1 /\ key' = nkeys + 1 /\ proc' = "save_key"
           /\ UNCHANGED <<path, dns, host, printed, disk>>
  <2>1. nkeys + 1 \in Keys /\ nkeys + 1 \in 0..MaxKeys
    BY <1>2, StartupAssumption DEF StartupTypeOK, Keys
  <2> QED
    BY <1>2, <2>1 DEF CheckKey, disk, StartupTypeOK, GenerateInv, PrintedIsStored,
              DaemonInv, RunningIsComplete, PermissionsInv, KeyLoads, Loads, KeyPath,
              Generating
<1> QED BY <1>1, <1>2 DEF CheckKey

\* save_to_disk() completes.
LEMMA SaveKeyInv == StartupInv /\ SaveKey => StartupInv'
  BY Markers DEF SaveKey, own, StartupInv, StartupTypeOK, GenerateInv, PrintedIsStored, DaemonInv,
         RunningIsComplete, PermissionsInv, KeyLoads, Loads, KeyPath, Paths, Keys,
         Generating, Starting

\* The permissions are set and the public key is printed.
LEMMA RestrictKeyInv == StartupInv /\ RestrictKey => StartupInv'
  BY Markers, Ends DEF RestrictKey, StartupInv, StartupTypeOK, GenerateInv, PrintedIsStored,
         DaemonInv, RunningIsComplete, PermissionsInv, KeyLoads, Loads, KeyPath, Paths,
         Generating, Starting

\* show only prints.
LEMMA ShowInv == StartupInv /\ Show => StartupInv'
  BY Markers DEF Show, disk, own, StartupInv, StartupTypeOK, GenerateInv, PrintedIsStored,
         DaemonInv, RunningIsComplete, PermissionsInv, KeyLoads, Loads, KeyPath, Paths

\* The steps of the daemon leave the disk alone.
LEMMA DaemonStepInv ==
  StartupInv /\ (StartDaemon \/ OpenTun \/ AddIfAddr \/ DnsRoute \/ HostDns) => StartupInv'
<1> USE DEF StartupInv, StartupTypeOK, GenerateInv, PrintedIsStored, DaemonInv,
            RunningIsComplete, PermissionsInv, KeyLoads, Loads, KeyPath, disk, Starting
<1>1. StartupInv /\ StartDaemon => StartupInv'
  <2> SUFFICES ASSUME StartupInv, StartDaemon PROVE StartupInv'
    OBVIOUS
  <2>1. path' \in Paths /\ key' \in Keys \cup {0}
    BY DEF StartDaemon, Paths
  <2>2. dns' \in BOOLEAN
    BY DEF StartDaemon, Configs
  <2> QED
    BY <2>1, <2>2, Markers DEF StartDaemon
<1>2. StartupInv /\ OpenTun => StartupInv'
  BY DEF OpenTun, SetUp
<1>3. StartupInv /\ AddIfAddr => StartupInv'
  <2> SUFFICES ASSUME StartupInv, AddIfAddr PROVE StartupInv'
    OBVIOUS
  <2>1. CASE dns
    BY <2>1 DEF AddIfAddr, SetUp
  <2>2. CASE ~dns
    BY <2>2 DEF AddIfAddr, SetUp
  <2> QED BY <2>1, <2>2
<1>4. StartupInv /\ (DnsRoute \/ HostDns) => StartupInv'
  BY DEF DnsRoute, HostDns, SetUp
<1> QED BY <1>1, <1>2, <1>3, <1>4

\* A process ends early; a torn file takes the place of none.
LEMMA FailInv == StartupInv /\ Fail => StartupInv'
  BY Markers, Ends DEF Fail, StartupInv, StartupTypeOK, GenerateInv, PrintedIsStored, DaemonInv,
         RunningIsComplete, PermissionsInv, KeyLoads, Loads, KeyPath, Paths, Keys,
         Generating, Starting

\* The user changes the configuration.
LEMMA EditConfigInv == StartupInv /\ EditConfig => StartupInv'
  BY Markers DEF EditConfig, own, StartupInv, StartupTypeOK, GenerateInv, PrintedIsStored,
         DaemonInv, RunningIsComplete, PermissionsInv, KeyLoads, Generating, Starting

\* The invariant holds wherever a process is cut short and whatever is edited.
THEOREM StartupInvariant == StartupSpec => []StartupInv
<1>1. StartupInv /\ [StartupNext]_vars => StartupInv'
  <2>1. StartupInv /\ UNCHANGED vars => StartupInv'
    BY DEF vars, StartupInv, StartupTypeOK, GenerateInv, PrintedIsStored, DaemonInv,
           RunningIsComplete, PermissionsInv, KeyLoads, Loads, KeyPath
  <2> QED
    BY <2>1, StartGenerateInv, WriteConfigInv, CheckKeyInv, SaveKeyInv, RestrictKeyInv,
       ShowInv, DaemonStepInv, FailInv, EditConfigInv DEF StartupNext
<1> QED BY InitInv, <1>1, PTL DEF StartupSpec

\* A public key that was printed is the one the daemon loads (generate, show).
THEOREM StartupPrintedIsStored == StartupSpec => []PrintedIsStored
<1>1. StartupInv => PrintedIsStored BY DEF StartupInv
<1> QED BY StartupInvariant, <1>1, PTL

\* A daemon that runs is set up completely (main).
THEOREM StartupRunningIsComplete == StartupSpec => []RunningIsComplete
<1>1. StartupInv => RunningIsComplete BY DEF StartupInv, DaemonInv
<1> QED BY StartupInvariant, <1>1, PTL

\* Only an interrupted generate leaves a key readable by others (ensure_key).
THEOREM StartupPrivateUnlessCut == StartupSpec => []PrivateUnlessCut
<1>1. StartupInv => PrivateUnlessCut BY DEF StartupInv, PermissionsInv, PrivateUnlessCut
<1> QED BY StartupInvariant, <1>1, PTL

\* A key on disk is never replaced: the only writes of a key file happen where
\* ensure_key() found none, and nobody has made one since.
THEOREM StartupKeyKept == StartupSpec => KeyKept
<1>1. StartupInv /\ [StartupNext]_vars =>
        [\A p \in Paths : KeyLoads(p) => keyfile'[p] = keyfile[p]]_vars
  <2> SUFFICES ASSUME StartupInv, StartupNext, NEW p \in Paths, KeyLoads(p)
               PROVE  keyfile'[p] = keyfile[p]
    BY DEF vars
  <2>1. CASE SaveKey
    BY <2>1, Markers DEF SaveKey, StartupInv, StartupTypeOK, GenerateInv, KeyLoads
  <2>2. CASE Fail
    BY <2>2, Markers DEF Fail, StartupInv, StartupTypeOK, GenerateInv, KeyLoads
  <2>3. CASE ~SaveKey /\ ~Fail
    BY <2>3 DEF StartupNext, StartGenerate, WriteConfig, CheckKey, RestrictKey, Show,
                StartDaemon, OpenTun, AddIfAddr, DnsRoute, HostDns, SetUp, EditConfig, disk
  <2> QED BY <2>1, <2>2, <2>3
<1> QED BY StartupInvariant, <1>1, PTL DEF StartupSpec, KeyKept

(***************************************************************************)
(* Queues of connections.                                                  *)
(***************************************************************************)

\* An ascending sequence is one in two parts, the second of which is after the first.
LEMMA AscendingConcat ==
  ASSUME NEW s \in Seq(Nat), NEW t \in Seq(Nat)
  PROVE  Ascending(s \o t)
           <=> /\ Ascending(s) /\ Ascending(t)
               /\ \A a \in Range(s), b \in Range(t) : a < b
<1> DEFINE u == s \o t
<1>1. /\ Len(s) \in Nat /\ Len(t) \in Nat
      /\ DOMAIN s = 1..Len(s) /\ DOMAIN t = 1..Len(t)
      /\ s \in [1..Len(s) -> Nat] /\ t \in [1..Len(t) -> Nat]
  BY LenProperties
<1>2. /\ u \in Seq(Nat) /\ Len(u) = Len(s) + Len(t)
      /\ \A i \in 1..(Len(s) + Len(t)) : u[i] = IF i <= Len(s) THEN s[i] ELSE t[i - Len(s)]
  BY ConcatProperties
<1>3. DOMAIN u = 1..(Len(s) + Len(t))
  BY <1>2, LenProperties
<1> HIDE DEF u
<1>4. ASSUME NEW i \in 1..Len(s) PROVE i \in DOMAIN u /\ u[i] = s[i]
  BY <1>1, <1>2, <1>3
<1>5. ASSUME NEW j \in 1..Len(t) PROVE j + Len(s) \in DOMAIN u /\ u[j + Len(s)] = t[j]
  <2>1. /\ j + Len(s) \in 1..(Len(s) + Len(t)) /\ ~(j + Len(s) <= Len(s))
        /\ (j + Len(s)) - Len(s) = j
    BY <1>1
  <2> QED BY <1>2, <1>3, <2>1
<1>6. ASSUME Ascending(u)
      PROVE  /\ Ascending(s) /\ Ascending(t)
             /\ \A a \in Range(s), b \in Range(t) : a < b
  <2>1. Ascending(s)
    BY <1>1, <1>4, <1>6 DEF Ascending
  <2>2. ASSUME NEW i \in 1..Len(t), NEW j \in 1..Len(t), i < j PROVE t[i] < t[j]
    <3>1. i + Len(s) < j + Len(s)
      BY <1>1, <2>2
    <3>2. u[i + Len(s)] < u[j + Len(s)]
      BY <1>5, <1>6, <3>1 DEF Ascending
    <3> QED BY <1>5, <3>2
  <2>3. ASSUME NEW i \in 1..Len(s), NEW j \in 1..Len(t) PROVE s[i] < t[j]
    <3>1. i < j + Len(s)
      BY <1>1
    <3>2. u[i] < u[j + Len(s)]
      BY <1>4, <1>5, <1>6, <3>1 DEF Ascending
    <3> QED BY <1>4, <1>5, <3>2
  <2> QED BY <1>1, <2>1, <2>2, <2>3 DEF Ascending, Range
<1>7. ASSUME Ascending(s), Ascending(t), \A a \in Range(s), b \in Range(t) : a < b
      PROVE  Ascending(u)
  <2> SUFFICES ASSUME NEW i \in 1..(Len(s) + Len(t)), NEW j \in 1..(Len(s) + Len(t)), i < j
               PROVE  u[i] < u[j]
    BY <1>3 DEF Ascending
  <2>1. CASE j <= Len(s)
    <3>1. i \in 1..Len(s) /\ j \in 1..Len(s) /\ i <= Len(s)
      BY <1>1, <2>1
    <3>2. s[i] < s[j]
      BY <1>1, <1>7, <3>1 DEF Ascending
    <3> QED BY <1>2, <2>1, <3>1, <3>2
  <2>2. CASE i <= Len(s) /\ ~(j <= Len(s))
    <3>1. i \in 1..Len(s) /\ j - Len(s) \in 1..Len(t)
      BY <1>1, <2>2
    <3>2. s[i] \in Range(s) /\ t[j - Len(s)] \in Range(t)
      BY <1>1, <3>1 DEF Range
    <3> QED BY <1>2, <1>7, <2>2, <3>2
  <2>3. CASE ~(i <= Len(s)) /\ ~(j <= Len(s))
    <3>1. /\ i - Len(s) \in 1..Len(t) /\ j - Len(s) \in 1..Len(t)
          /\ i - Len(s) < j - Len(s)
      BY <1>1, <2>3
    <3>2. t[i - Len(s)] < t[j - Len(s)]
      BY <1>1, <1>7, <3>1 DEF Ascending
    <3> QED BY <1>2, <2>3, <3>2
  <2> QED BY <1>1, <2>1, <2>2, <2>3
<1> QED BY <1>6, <1>7 DEF u

\* A queue of one.
LEMMA Singleton ==
  ASSUME NEW S, NEW e \in S
  PROVE  <<e>> \in Seq(S) /\ Len(<<e>>) = 1 /\ Range(<<e>>) = {e} /\ Ascending(<<e>>)
<1>1. <<e>> \in Seq(S) /\ Len(<<e>>) = 1 /\ DOMAIN <<e>> = 1..1 /\ <<e>>[1] = e
  OBVIOUS
<1> QED BY <1>1 DEF Range, Ascending

\* A queue is its head and its tail.
LEMMA HeadThenTail ==
  ASSUME NEW S, NEW s \in Seq(S), s # << >>
  PROVE  /\ Head(s) \in S /\ Tail(s) \in Seq(S) /\ Len(Tail(s)) = Len(s) - 1
         /\ s = <<Head(s)>> \o Tail(s)
         /\ Range(s) = {Head(s)} \cup Range(Tail(s))
<1>1. /\ Head(s) \in S /\ Tail(s) \in Seq(S) /\ Len(Tail(s)) = Len(s) - 1
      /\ \A i \in 1..Len(Tail(s)) : Tail(s)[i] = s[i + 1]
  BY HeadTailProperties
<1>2. Len(s) \in Nat \ {0} /\ Head(s) = s[1]
  BY EmptySeq
<1>3. PICK t \in Seq(S) : t = Tail(s)
  BY <1>1
<1>4. PICK h \in Seq(S) : h = <<Head(s)>>
  BY <1>1, Singleton
<1>5. Len(h) = 1 /\ h[1] = s[1] /\ Range(h) = {Head(s)}
  BY <1>1, <1>2, <1>4, Singleton
<1> DEFINE u == h \o t
<1>6. /\ u \in Seq(S) /\ Len(u) = Len(h) + Len(t)
      /\ \A i \in 1..(Len(h) + Len(t)) : u[i] = IF i <= Len(h) THEN h[i] ELSE t[i - Len(h)]
  BY ConcatProperties
<1>7. Range(u) = Range(h) \cup Range(t)
  BY RangeConcatenation
<1> HIDE DEF u
<1>8. ASSUME NEW i \in 1..Len(s) PROVE s[i] = u[i]
  <2>1. CASE i = 1
    BY <1>1, <1>2, <1>3, <1>5, <1>6, <2>1
  <2>2. CASE i # 1
    <3>1. i - 1 \in 1..Len(t) /\ (i - 1) + 1 = i /\ i \in 1..(Len(h) + Len(t)) /\ ~(i <= Len(h))
      BY <1>1, <1>2, <1>3, <1>5, <2>2
    <3> QED BY <1>1, <1>3, <1>5, <1>6, <3>1
  <2> QED BY <2>1, <2>2
<1>9. Len(u) = Len(s)
  BY <1>1, <1>2, <1>3, <1>5, <1>6
<1>10. s = u
  BY <1>6, <1>8, <1>9, SeqEqual
<1> QED BY <1>1, <1>3, <1>4, <1>5, <1>7, <1>10 DEF u

\* What a link takes from its channel it had before.
LEMMA MovedToLink ==
  ASSUME NEW S, NEW s \in Seq(S), NEW t \in Seq(S), t # << >>
  PROVE  /\ Append(s, Head(t)) \in Seq(S)
         /\ Append(s, Head(t)) \o Tail(t) = s \o t
<1>1. Head(t) \in S /\ Tail(t) \in Seq(S) /\ t = <<Head(t)>> \o Tail(t)
  BY HeadThenTail
<1>2. <<Head(t)>> \in Seq(S)
  BY <1>1, Singleton
<1>3. Append(s, Head(t)) = s \o <<Head(t)>> /\ Append(s, Head(t)) \in Seq(S)
  BY <1>1, AppendIsConcat, AppendProperties
<1>4. (s \o <<Head(t)>>) \o Tail(t) = s \o (<<Head(t)>> \o Tail(t))
  BY <1>1, <1>2, ConcatAssociative
<1> QED BY <1>1, <1>3, <1>4

(***************************************************************************)
(* IncomingRouter: the router of accepted connections.                     *)
(***************************************************************************)

\* Connections are numbers, and queues of them stay so when another is accepted.
LEMMA QueuesTyped ==
  ASSUME RouterTypeOK
  PROVE  /\ onWay \in Seq(Conns) /\ \A n \in Names : got(n) \in Seq(Conns)
         /\ Conns \subseteq Nat /\ None \notin Conns
         /\ current = None => onWay = incoming
         /\ current # None => current \in Conns /\ onWay = <<current>> \o incoming
<1>1. Len(arrived) \in Nat
  BY LenProperties DEF RouterTypeOK
<1>2. Conns \subseteq Nat /\ None \notin Conns
  BY <1>1, RouterAssumption DEF Conns
<1>3. /\ incoming \in Seq(Conns)
      /\ \A n \in Names : taken[n] \in Seq(Conns) /\ channel[n] \in Seq(Conns)
  BY DEF RouterTypeOK
<1>4. ASSUME NEW n \in Names PROVE got(n) \in Seq(Conns)
  BY <1>3, ConcatProperties DEF got
<1>5. CASE current = None
  <2>1. onWay = << >> \o incoming
    BY <1>5 DEF onWay
  <2>2. onWay = incoming
    BY <1>3, <2>1, ConcatEmptySeq
  <2> QED BY <1>2, <1>3, <1>4, <1>5, <2>2
<1>6. CASE current # None
  <2>1. onWay = <<current>> \o incoming
    BY <1>6 DEF onWay
  <2>2. current \in Conns
    BY <1>6 DEF RouterTypeOK
  <2>3. <<current>> \in Seq(Conns)
    BY <2>2, Singleton
  <2>4. onWay \in Seq(Conns)
    BY <1>3, <2>1, <2>3, ConcatProperties
  <2> QED BY <1>2, <1>4, <1>6, <2>1, <2>2, <2>4
<1> QED BY <1>5, <1>6

\* Before the first peer is registered, and when run() has returned.
LEMMA RouterInitially == (RouterInit \/ RouterDone) => RouterInv
<1> SUFFICES ASSUME RouterInit \/ RouterDone PROVE RouterInv
  OBVIOUS
<1>1. /\ todo \subseteq Names /\ by_peer = [k \in PublicKeys |-> None]
      /\ router \in {"setup", "returned"} /\ (router = "returned" => todo = {})
      /\ (router = "setup" => todo = Names)
      /\ arrived = << >> /\ incoming = << >> /\ current = None
      /\ channel = [n \in Names |-> << >>] /\ taken = [n \in Names |-> << >>]
      /\ ended \subseteq Names /\ refused = {} /\ lost = {}
  BY DEF RouterInit, RouterDone
<1>2. listening \in BOOLEAN
  BY Zenon DEF RouterInit, RouterDone
<1>3. Conns = {}
  BY <1>1 DEF Conns
<1>4. << >> \in Seq(Conns) /\ << >> \in Seq(PublicKeys) /\ Len(<< >>) = 0
  BY EmptySeq
<1>5. RouterTypeOK
  BY <1>1, <1>2, <1>4, RouterAssumption DEF RouterTypeOK
<1> QED BY <1>1, <1>3, <1>5 DEF RouterInv, DeliveredInOrder, Accounted

\* The steps before the router is spawned: no connection has been accepted.
LEMMA SetupKeeps == RouterInv /\ Setup => RouterInv'
<1> SUFFICES ASSUME RouterInv, Setup PROVE RouterInv'
  OBVIOUS
<1> USE DEF RouterInv
<1>1. UNCHANGED <<listenVars, incoming, current, channel, linkVars, refused, lost>>
  BY DEF Setup, SpawnRun, Register
<1>2. router = "setup" /\ arrived = << >>
  BY DEF Setup, SpawnRun, Register
<1>3. Conns = {} /\ Conns' = {}
  BY <1>1, <1>2 DEF Conns, listenVars
<1>4. \A n \in Names : got(n) = << >>
  <2>1. \A n \in Names : got(n) \in Seq(Conns)
    BY QueuesTyped
  <2>2. \A q \in Seq({}) : q = << >>
    <3> TAKE q \in Seq({})
    <3>1. q # << >> => Head(q) \in {}
      BY HeadTailProperties
    <3> QED BY <3>1
  <2> QED BY <1>3, <2>1, <2>2
<1>5. ASSUME NEW n \in Names PROVE got(n)' = << >>
  BY <1>1, <1>4 DEF got, linkVars
<1>6. current = None /\ onWay' = onWay /\ onWay = << >>
  <2>1. current = None
    BY <1>3 DEF RouterTypeOK
  <2>2. onWay = incoming /\ onWay' = onWay
    BY <1>1, <2>1, QueuesTyped DEF onWay
  <2>3. incoming = << >>
    <3>1. incoming \in Seq({})
      BY <1>3 DEF RouterTypeOK
    <3>2. incoming # << >> => Head(incoming) \in {}
      BY <3>1, HeadTailProperties
    <3> QED BY <3>2
  <2> QED BY <2>1, <2>2, <2>3
<1>7. Accounted'
  BY <1>1, <1>3 DEF Accounted, RouterTypeOK
<1>8. DeliveredInOrder'
  <2>1. Range(<< >>) = {} /\ Ascending(<< >>) /\ << >> \o << >> = << >>
    BY DEF Range, Ascending
  <2>2. ASSUME NEW n \in Names
        PROVE  /\ got(n)' = << >> /\ Ascending(got(n)' \o onWay')
               /\ Range(got(n)') = {} /\ {c \in Conns' : arrived'[c] = KeyOf[n]} = {}
    BY <1>3, <1>5, <1>6, <2>1
  <2> QED BY <2>2 DEF DeliveredInOrder
<1>9. CASE SpawnRun
  <2>1. RouterTypeOK'
    BY <1>1, <1>9 DEF SpawnRun, RouterTypeOK, Conns, listenVars, linkVars
  <2> QED BY <1>1, <1>2, <1>6, <1>7, <1>8, <1>9, <2>1 DEF SpawnRun
<1>10. ASSUME NEW n \in Names, Register(n) PROVE RouterInv'
  <2>1. by_peer' = [by_peer EXCEPT ![KeyOf[n]] = n] /\ KeyOf[n] \in PublicKeys /\ n # None
    BY <1>10, RouterAssumption DEF Register
  <2>2. RouterTypeOK'
    BY <1>1, <1>10, <2>1 DEF Register, RouterTypeOK, Conns, listenVars, linkVars
  <2>3. \A m \in Names \ todo' : by_peer'[KeyOf[m]] # None
    BY <1>2, <1>10, <2>1, RouterAssumption DEF Register, RouterTypeOK
  <2>4. \A k \in PublicKeys : by_peer'[k] # None => KeyOf[by_peer'[k]] = k
    BY <2>1 DEF RouterTypeOK
  <2> QED BY <1>1, <1>2, <1>6, <1>7, <1>8, <1>10, <2>2, <2>3, <2>4 DEF Register, listenVars
<1> QED BY <1>9, <1>10 DEF Setup

\* The listener queues another connection, later than all others.
LEMMA AcceptedKeeps == ASSUME NEW k \in PublicKeys PROVE RouterInv /\ Accepted(k) => RouterInv'
<1> SUFFICES ASSUME RouterInv, Accepted(k) PROVE RouterInv'
  OBVIOUS
<1> DEFINE new == Len(arrived) + 1
<1>1. /\ arrived' = Append(arrived, k) /\ incoming' = Append(incoming, new)
      /\ UNCHANGED <<setupVars, listening, current, channel, linkVars, refused, lost>>
      /\ router = "running" /\ Len(incoming) < ListenCap
  BY DEF Accepted
<1>2. RouterTypeOK
  BY DEF RouterInv
<1>3. /\ Len(arrived) \in Nat /\ Len(arrived') = new /\ arrived' \in Seq(PublicKeys)
      /\ \A c \in 1..Len(arrived) : arrived'[c] = arrived[c]
  BY <1>1, <1>2, AppendProperties, LenProperties DEF RouterTypeOK
<1>4. /\ Conns' = Conns \cup {new} /\ new \notin Conns /\ Conns \subseteq Nat /\ new \in Nat
      /\ \A c \in Conns : c < new /\ arrived'[c] = arrived[c]
  BY <1>3 DEF Conns
<1>5. PICK C : C = Conns'
  OBVIOUS
<1>6. ASSUME NEW q \in Seq(Conns) PROVE q \in Seq(Conns')
  BY <1>4, SeqMonotonic
<1>7. /\ incoming' \in Seq(Conns') /\ Len(incoming') = Len(incoming) + 1
      /\ Len(incoming) \in Nat
  <2>1. incoming \in Seq(C) /\ new \in C
    BY <1>2, <1>4, <1>5, <1>6 DEF RouterTypeOK
  <2> QED BY <1>1, <1>5, <2>1, AppendProperties, LenProperties
<1>8. RouterTypeOK'
  <2>1. {channel', taken'} \subseteq [Names -> Seq(Conns')]
    BY <1>1, <1>2, <1>6 DEF RouterTypeOK, linkVars
  <2>2. Len(incoming') <= ListenCap
    BY <1>1, <1>7, RouterAssumption
  <2> QED BY <1>1, <1>2, <1>3, <1>4, <1>7, <2>1, <2>2
          DEF RouterTypeOK, setupVars, linkVars
<1>9. PICK q \in Seq(Conns) : q = onWay
  BY <1>2, QueuesTyped
<1>10. onWay' = q \o <<new>> /\ <<new>> \in Seq(Conns')
  <2>1. incoming \in Seq(C) /\ new \in C /\ <<new>> \in Seq(C)
    BY <1>2, <1>4, <1>5, <1>6, Singleton DEF RouterTypeOK
  <2>2. incoming' = incoming \o <<new>>
    BY <1>1, <2>1, AppendIsConcat
  <2>3. PICK f \in Seq(C) : f = IF current = None THEN << >> ELSE <<current>>
    <3>1. current # None => current \in C
      BY <1>2, <1>4, <1>5 DEF RouterTypeOK
    <3> QED BY <3>1, EmptySeq, Singleton
  <2>4. q = f \o incoming /\ onWay' = f \o incoming'
    BY <1>1, <1>9, <2>3 DEF onWay
  <2>5. (f \o incoming) \o <<new>> = f \o (incoming \o <<new>>)
    BY <2>1, ConcatAssociative
  <2> QED BY <1>5, <2>1, <2>2, <2>4, <2>5
<1>11. Range(onWay') = Range(onWay) \cup {new}
  <2>1. PICK e \in Seq(C) : e = <<new>>
    BY <1>4, <1>5, Singleton
  <2>2. q \in Seq(C) /\ Range(e) = {new}
    BY <1>4, <1>5, <1>6, <2>1, Singleton
  <2>3. Range(q \o e) = Range(q) \cup Range(e)
    BY <2>2, RangeConcatenation
  <2> QED BY <1>9, <1>10, <2>1, <2>2, <2>3
<1>12. ASSUME NEW n \in Names PROVE got(n)' = got(n)
  BY <1>1 DEF got, linkVars
<1>13. Accounted'
  <2>1. ASSUME NEW c \in Conns'
        PROVE  \/ c \in refused \cup lost \cup Range(onWay')
               \/ \E n \in Names : c \in Range(got(n)')
    <3>1. CASE c \in Conns
      BY <1>11, <1>12, <3>1 DEF Accounted, RouterInv
    <3>2. CASE c = new
      BY <1>11, <3>2
    <3> QED BY <1>4, <3>1, <3>2
  <2>2. \A c \in refused, n \in Names : arrived'[c] # KeyOf[n]
    BY <1>2, <1>4 DEF Accounted, RouterInv, RouterTypeOK
  <2> QED BY <1>1, <2>1, <2>2 DEF Accounted
<1>14. ASSUME NEW n \in Names \ ended, by_peer[KeyOf[n]] = n
       PROVE  /\ Ascending(got(n)' \o onWay')
              /\ Range(got(n)') = {c \in Conns' : arrived'[c] = KeyOf[n]} \ Range(onWay')
  <2>1. /\ Ascending(got(n) \o q)
        /\ Range(got(n)) = {c \in Conns : arrived[c] = KeyOf[n]} \ Range(q)
    BY <1>1, <1>9, <1>14 DEF RouterInv, DeliveredInOrder
  <2>2. PICK g \in Seq(Conns) : g = got(n)
    BY <1>2, QueuesTyped
  <2>3. g \in Seq(Nat) /\ q \in Seq(Nat) /\ <<new>> \in Seq(Nat) /\ Ascending(<<new>>)
    BY <1>4, SeqMonotonic, Singleton
  <2>4. /\ g \o q \in Seq(Nat) /\ (g \o q) \o <<new>> = g \o (q \o <<new>>)
        /\ Range(g \o q) = Range(g) \cup Range(q)
    BY <2>3, ConcatProperties, ConcatAssociative, RangeConcatenation
  <2>5. Range(g) \subseteq Conns /\ Range(q) \subseteq Conns /\ Range(<<new>>) = {new}
    BY <1>4, RangeOfSeq, Singleton
  <2>6. Ascending((g \o q) \o <<new>>)
    <3>1. \A a \in Range(g \o q), b \in Range(<<new>>) : a < b
      BY <1>4, <2>4, <2>5
    <3> QED BY <2>1, <2>2, <2>3, <2>4, <3>1, AscendingConcat
  <2>7. Range(got(n)) = {c \in Conns' : arrived'[c] = KeyOf[n]} \ (Range(q) \cup {new})
    BY <1>4, <2>1
  <2> QED BY <1>9, <1>10, <1>11, <1>12, <2>2, <2>4, <2>6, <2>7
<1>15. DeliveredInOrder'
  <2>1. ASSUME NEW n \in Names \ ended, by_peer[KeyOf[n]] # n PROVE got(n)' = << >>
    BY <1>1, <1>12, <2>1 DEF RouterInv, DeliveredInOrder
  <2> QED BY <1>1, <1>14, <2>1 DEF DeliveredInOrder, setupVars, linkVars
<1>16. current # None => by_peer'[arrived'[current]] # None
  BY <1>1, <1>2, <1>4 DEF RouterInv, RouterTypeOK, setupVars
<1> QED BY <1>1, <1>8, <1>13, <1>15, <1>16 DEF RouterInv, setupVars

\* dispatch() takes the oldest connection in hand, or refuses it.
LEMMA RecvKeeps == RouterInv /\ RecvIncoming => RouterInv'
<1> SUFFICES ASSUME RouterInv, RecvIncoming PROVE RouterInv'
  OBVIOUS
<1> DEFINE conn == Head(incoming)
<1>1. /\ router = "running" /\ current = None /\ incoming # << >>
      /\ incoming' = Tail(incoming)
      /\ UNCHANGED <<setupVars, listenVars, channel, linkVars, lost>>
      /\ IF by_peer[arrived[conn]] = None
         THEN refused' = refused \cup {conn} /\ UNCHANGED current
         ELSE current' = conn /\ UNCHANGED refused
  BY DEF RecvIncoming
<1>2. RouterTypeOK
  BY DEF RouterInv
<1>3. /\ conn \in Conns /\ Tail(incoming) \in Seq(Conns) /\ Len(Tail(incoming)) <= ListenCap
      /\ incoming = <<conn>> \o Tail(incoming)
      /\ Range(incoming) = {conn} \cup Range(Tail(incoming))
  <2>1. Len(incoming) \in Nat /\ incoming \in Seq(Conns) /\ Len(incoming) <= ListenCap
    BY <1>2, LenProperties DEF RouterTypeOK
  <2> QED BY <1>1, <2>1, HeadThenTail, RouterAssumption
<1> HIDE DEF conn
<1>4. Conns' = Conns /\ arrived' = arrived
  BY <1>1 DEF Conns, listenVars
<1>5. RouterTypeOK'
  BY <1>1, <1>2, <1>3, <1>4 DEF RouterTypeOK, setupVars, listenVars, linkVars
<1>6. ASSUME NEW n \in Names PROVE got(n)' = got(n)
  BY <1>1 DEF got, linkVars
<1>7. onWay = incoming /\ None \notin Conns
  BY <1>1, <1>2, QueuesTyped
<1>8. arrived[conn] \in PublicKeys
  BY <1>2, <1>3, ElementOfSeq DEF RouterTypeOK, Conns
<1>9. CASE by_peer[arrived[conn]] = None
  <2>1. onWay' = Tail(incoming)
    <3>1. onWay' = << >> \o incoming'
      BY <1>1, <1>9 DEF onWay
    <3> QED BY <1>1, <1>3, <3>1, ConcatEmptySeq
  <2>2. \A n \in Names : KeyOf[n] # arrived[conn]
    BY <1>1, <1>9 DEF RouterInv
  <2>3. Accounted'
    BY <1>1, <1>3, <1>4, <1>6, <1>7, <1>9, <2>1, <2>2 DEF Accounted, RouterInv
  <2>4. ASSUME NEW n \in Names \ ended, by_peer[KeyOf[n]] = n
        PROVE  /\ Ascending(got(n)' \o onWay')
               /\ Range(got(n)') = {c \in Conns' : arrived'[c] = KeyOf[n]} \ Range(onWay')
    <3>1. /\ Ascending(got(n) \o incoming)
          /\ Range(got(n)) = {c \in Conns : arrived[c] = KeyOf[n]} \ Range(incoming)
      BY <1>1, <1>7, <2>4 DEF RouterInv, DeliveredInOrder
    <3>2. PICK g \in Seq(Nat) : g = got(n)
      BY <1>2, QueuesTyped, SeqMonotonic
    <3>3. PICK t \in Seq(Nat) : t = Tail(incoming)
      BY <1>2, <1>3, QueuesTyped, SeqMonotonic
    <3>4. PICK h \in Seq(Nat) : h = <<conn>>
      BY <1>2, <1>3, QueuesTyped, Singleton
    <3>5. incoming \in Seq(Nat) /\ incoming = h \o t
      BY <1>3, <3>3, <3>4, ConcatProperties
    <3>6. /\ Ascending(g) /\ Ascending(incoming)
          /\ \A a \in Range(g), b \in Range(incoming) : a < b
      BY <3>1, <3>2, <3>5, AscendingConcat
    <3>7. Ascending(t) /\ Range(t) \subseteq Range(incoming)
      BY <1>3, <3>3, <3>5, <3>6, AscendingConcat
    <3>8. Ascending(g \o t)
      BY <3>6, <3>7, AscendingConcat
    <3>9. Range(got(n)) = {c \in Conns : arrived[c] = KeyOf[n]} \ Range(t)
      BY <1>3, <2>2, <3>1, <3>3
    <3> QED BY <1>4, <1>6, <2>1, <3>2, <3>3, <3>8, <3>9
  <2>5. DeliveredInOrder'
    <3>1. ASSUME NEW n \in Names \ ended, by_peer[KeyOf[n]] # n PROVE got(n)' = << >>
      BY <1>1, <1>6, <3>1 DEF RouterInv, DeliveredInOrder
    <3> QED BY <1>1, <2>4, <3>1 DEF DeliveredInOrder, setupVars, linkVars
  <2> QED BY <1>1, <1>5, <1>9, <2>3, <2>5 DEF RouterInv, setupVars
<1>10. CASE by_peer[arrived[conn]] # None
  <2>1. current' = conn /\ UNCHANGED refused /\ conn # None
    BY <1>1, <1>3, <1>7, <1>10
  <2>2. onWay' = onWay
    BY <1>1, <1>3, <1>7, <2>1 DEF onWay
  <2>3. Accounted'
    BY <1>1, <1>4, <1>6, <2>1, <2>2 DEF Accounted, RouterInv
  <2>4. DeliveredInOrder'
    BY <1>1, <1>4, <1>6, <2>2 DEF DeliveredInOrder, RouterInv, setupVars, linkVars
  <2> QED BY <1>1, <1>4, <1>5, <1>10, <2>1, <2>3, <2>4 DEF RouterInv, setupVars
<1> QED BY <1>9, <1>10

\* sender.send() completes: the connection in hand goes to the end of the queue of its
\* peer, or is dropped with the link of the peer.
LEMMA SubmitKeeps == RouterInv /\ Submit => RouterInv'
<1> SUFFICES ASSUME RouterInv, Submit PROVE RouterInv'
  OBVIOUS
<1> DEFINE peer == by_peer[arrived[current]]
<1>1. /\ current # None /\ current' = None
      /\ UNCHANGED <<setupVars, listenVars, incoming, linkVars, refused>>
      /\ \/ /\ peer \notin ended /\ Len(channel[peer]) < ChannelCap
            /\ channel' = [channel EXCEPT ![peer] = Append(@, current)] /\ UNCHANGED lost
         \/ /\ peer \in ended
            /\ lost' = lost \cup {current} /\ UNCHANGED channel
  BY DEF Submit
<1>2. RouterTypeOK /\ router = "running" /\ peer # None
  BY <1>1 DEF RouterInv
<1>3. /\ current \in Conns /\ onWay = <<current>> \o incoming /\ Conns \subseteq Nat
      /\ incoming \in Seq(Conns)
  BY <1>1, <1>2, QueuesTyped DEF RouterTypeOK
<1>4. arrived[current] \in PublicKeys
  BY <1>2, <1>3, ElementOfSeq DEF RouterTypeOK, Conns
<1>5. PICK p \in Names : p = peer
  BY <1>2, <1>4 DEF RouterTypeOK
<1>6. KeyOf[p] = arrived[current] /\ by_peer[KeyOf[p]] = p
  BY <1>2, <1>4, <1>5 DEF RouterInv
<1> HIDE DEF peer
<1>7. Conns' = Conns /\ arrived' = arrived
  BY <1>1 DEF Conns, listenVars
<1>8. onWay' = incoming
  <2>1. onWay' = << >> \o incoming'
    BY <1>1 DEF onWay
  <2> QED BY <1>1, <1>3, <2>1, ConcatEmptySeq
<1>9. Range(onWay) = {current} \cup Range(incoming)
  <2>1. PICK e \in Seq(Conns) : e = <<current>>
    BY <1>3, Singleton
  <2>2. Range(e) = {current}
    BY <1>3, <2>1, Singleton
  <2>3. Range(e \o incoming) = Range(e) \cup Range(incoming)
    BY <1>3, RangeConcatenation
  <2> QED BY <1>3, <2>1, <2>2, <2>3
<1>10. ASSUME NEW n \in Names, n # p \/ p \in ended PROVE got(n)' = got(n)
  BY <1>1, <1>2, <1>5, <1>10 DEF got, linkVars, RouterTypeOK
<1>11. ASSUME p \notin ended
       PROVE  /\ RouterTypeOK' /\ lost' = lost
              /\ got(p)' = got(p) \o <<current>>
              /\ Range(got(p)') = Range(got(p)) \cup {current}
  <2>1. /\ channel' = [channel EXCEPT ![p] = Append(channel[p], current)] /\ lost' = lost
        /\ Len(channel[p]) < ChannelCap
    BY <1>1, <1>2, <1>5, <1>11 DEF RouterTypeOK
  <2>2. PICK s \in Seq(Conns) : s = taken[p]
    BY <1>2, <1>5 DEF RouterTypeOK
  <2>3. PICK t \in Seq(Conns) : t = channel[p]
    BY <1>2, <1>5 DEF RouterTypeOK
  <2>4. PICK e \in Seq(Conns) : e = <<current>>
    BY <1>3, Singleton
  <2>5. /\ Append(t, current) \in Seq(Conns) /\ Len(Append(t, current)) = Len(t) + 1
        /\ Append(t, current) = t \o e /\ Len(t) \in Nat
    BY <1>3, <2>4, AppendProperties, AppendIsConcat, LenProperties
  <2>6. RouterTypeOK'
    <3>1. channel' \in [Names -> Seq(Conns)]
      BY <1>2, <2>1, <2>3, <2>5 DEF RouterTypeOK
    <3>2. ASSUME NEW n \in Names PROVE Len(channel'[n]) <= ChannelCap
      <4>1. CASE n = p
        <5>1. channel'[n] = Append(t, current)
          BY <1>2, <1>5, <2>1, <2>3, <4>1 DEF RouterTypeOK
        <5> QED BY <2>1, <2>3, <2>5, <5>1, RouterAssumption
      <4>2. CASE n # p
        BY <1>2, <2>1, <4>2 DEF RouterTypeOK
      <4> QED BY <4>1, <4>2
    <3> QED BY <1>1, <1>2, <1>7, <2>1, <3>1, <3>2
            DEF RouterTypeOK, setupVars, listenVars, linkVars
  <2>7. got(p)' = s \o (t \o e) /\ got(p) = s \o t
    BY <1>1, <1>2, <1>5, <2>1, <2>2, <2>3, <2>5 DEF got, linkVars, RouterTypeOK
  <2>8. /\ s \o (t \o e) = (s \o t) \o e /\ s \o t \in Seq(Conns)
    BY ConcatAssociative, ConcatProperties
  <2>9. Range((s \o t) \o e) = Range(s \o t) \cup Range(e)
    <3>1. PICK u \in Seq(Conns) : u = s \o t
      BY <2>8
    <3>2. Range(u \o e) = Range(u) \cup Range(e)
      BY RangeConcatenation
    <3> QED BY <3>1, <3>2
  <2>10. Range(e) = {current}
    BY <1>3, <2>4, Singleton
  <2> QED BY <2>1, <2>4, <2>6, <2>7, <2>8, <2>9, <2>10
<1>12. ASSUME p \in ended PROVE RouterTypeOK' /\ lost' = lost \cup {current}
  BY <1>1, <1>2, <1>3, <1>5, <1>7, <1>12 DEF RouterTypeOK, setupVars, listenVars, linkVars
<1>13. Accounted'
  <2>1. ASSUME NEW c \in Conns
        PROVE  \/ c \in refused \cup lost' \cup Range(onWay')
               \/ \E n \in Names : c \in Range(got(n)')
    <3>1. CASE c = current
      BY <1>11, <1>12, <3>1
    <3>2. CASE c # current
      <4>1. c \in refused \cup lost \cup Range(onWay) \/ \E n \in Names : c \in Range(got(n))
        BY DEF Accounted, RouterInv
      <4>2. ASSUME NEW n \in Names, c \in Range(got(n)) PROVE c \in Range(got(n)')
        BY <1>10, <1>11, <4>2
      <4> QED BY <1>8, <1>9, <1>11, <1>12, <3>2, <4>1, <4>2
    <3> QED BY <3>1, <3>2
  <2> QED BY <1>1, <1>7, <2>1 DEF Accounted, RouterInv
<1>14. ASSUME NEW n \in Names \ ended, by_peer[KeyOf[n]] = n
       PROVE  /\ Ascending(got(n)' \o onWay')
              /\ Range(got(n)') = {c \in Conns' : arrived'[c] = KeyOf[n]} \ Range(onWay')
  <2>1. /\ Ascending(got(n) \o onWay)
        /\ Range(got(n)) = {c \in Conns : arrived[c] = KeyOf[n]} \ Range(onWay)
    BY <1>2, <1>14 DEF RouterInv, DeliveredInOrder
  <2>2. PICK g \in Seq(Nat) : g = got(n)
    BY <1>2, QueuesTyped, SeqMonotonic
  <2>3. PICK t \in Seq(Nat) : t = incoming
    BY <1>3, SeqMonotonic
  <2>4. PICK e \in Seq(Nat) : e = <<current>>
    BY <1>3, Singleton
  <2>5. /\ onWay = e \o t /\ e \o t \in Seq(Nat) /\ Range(e) = {current}
        /\ g \o (e \o t) = (g \o e) \o t
    <3>1. onWay = e \o t
      BY <1>3, <2>3, <2>4
    <3>2. Range(e) = {current}
      BY <1>3, <2>4, Singleton
    <3>3. e \o t \in Seq(Nat) /\ g \o (e \o t) = (g \o e) \o t
      BY ConcatProperties, ConcatAssociative
    <3> QED BY <3>1, <3>2, <3>3
  <2>6. /\ Ascending(g) /\ Ascending(e \o t)
        /\ \A a \in Range(g), b \in Range(e \o t) : a < b
    BY <2>1, <2>2, <2>5, AscendingConcat
  <2>7. Ascending(t) /\ \A b \in Range(t) : current < b
    BY <2>5, <2>6, AscendingConcat
  <2>8. current \notin Range(t)
    BY <1>3, <2>7
  <2>9. CASE n = p
    <3>1. got(n)' = g \o e /\ Range(got(n)') = Range(g) \cup {current}
      BY <1>11, <1>14, <2>2, <2>4, <2>9
    <3>2. Ascending(got(n)' \o onWay')
      BY <1>8, <2>1, <2>2, <2>3, <2>5, <3>1
    <3>3. Range(g) \cup {current} = {c \in Conns : arrived[c] = KeyOf[n]} \ Range(t)
      BY <1>3, <1>6, <1>9, <2>1, <2>2, <2>3, <2>8, <2>9
    <3> QED BY <1>7, <1>8, <2>3, <3>1, <3>2, <3>3
  <2>10. CASE n # p
    <3>1. got(n)' = g
      BY <1>10, <2>2, <2>10
    <3>2. Ascending(g \o t)
      <4>1. \A a \in Range(g), b \in Range(t) : a < b
        BY <1>9, <2>3, <2>5, <2>6
      <4> QED BY <2>6, <2>7, <4>1, AscendingConcat
    <3>3. arrived[current] # KeyOf[n]
      BY <1>6, <1>14, <2>10
    <3>4. Range(g) = {c \in Conns : arrived[c] = KeyOf[n]} \ Range(t)
      BY <1>9, <2>1, <2>2, <2>3, <3>3
    <3> QED BY <1>7, <1>8, <2>3, <3>1, <3>2, <3>4
  <2> QED BY <2>9, <2>10
<1>15. DeliveredInOrder'
  <2>1. ASSUME NEW n \in Names \ ended, by_peer[KeyOf[n]] # n PROVE got(n)' = << >>
    <3>1. n # p
      BY <1>6, <2>1
    <3> QED BY <1>2, <1>10, <2>1, <3>1 DEF RouterInv, DeliveredInOrder
  <2> QED BY <1>1, <1>14, <2>1 DEF DeliveredInOrder, setupVars, linkVars
<1> QED BY <1>1, <1>2, <1>11, <1>12, <1>13, <1>15 DEF RouterInv, setupVars, listenVars

\* A link takes what it had in its channel, or ends; the listener and the router end.
LEMMA LinkTakesKeeps == ASSUME NEW m \in Names PROVE RouterInv /\ LinkTakes(m) => RouterInv'
<1> SUFFICES ASSUME RouterInv, LinkTakes(m) PROVE RouterInv'
  OBVIOUS
<1>1. /\ m \notin ended /\ channel[m] # << >>
      /\ taken' = [taken EXCEPT ![m] = Append(taken[m], Head(channel[m]))]
      /\ channel' = [channel EXCEPT ![m] = Tail(channel[m])]
      /\ UNCHANGED <<setupVars, listenVars, incoming, current, ended, refused, lost>>
  BY DEF LinkTakes, RouterInv, RouterTypeOK
<1>2. RouterTypeOK
  BY DEF RouterInv
<1>3. PICK s \in Seq(Conns) : s = taken[m]
  BY <1>2 DEF RouterTypeOK
<1>4. PICK t \in Seq(Conns) : t = channel[m]
  BY <1>2 DEF RouterTypeOK
<1>5. /\ Append(s, Head(t)) \in Seq(Conns) /\ Tail(t) \in Seq(Conns)
      /\ Len(Tail(t)) = Len(t) - 1 /\ Len(t) \in Nat
      /\ Append(s, Head(t)) \o Tail(t) = s \o t
  <2>1. Append(s, Head(t)) \in Seq(Conns) /\ Append(s, Head(t)) \o Tail(t) = s \o t
    <3>1. t # << >>
      BY <1>1, <1>4
    <3> QED BY <3>1, MovedToLink, Zenon
  <2>2. Tail(t) \in Seq(Conns) /\ Len(Tail(t)) = Len(t) - 1 /\ Len(t) \in Nat
    BY <1>1, <1>4, HeadThenTail, LenProperties
  <2> QED BY <2>1, <2>2
<1>6. Conns' = Conns /\ arrived' = arrived /\ onWay' = onWay
  BY <1>1 DEF Conns, listenVars, onWay
<1>7. ASSUME NEW n \in Names PROVE got(n)' = got(n)
  <2>1. CASE n = m
    BY <1>1, <1>2, <1>3, <1>4, <1>5, <2>1 DEF got, RouterTypeOK
  <2>2. CASE n # m
    BY <1>1, <1>2, <2>2 DEF got, RouterTypeOK
  <2> QED BY <2>1, <2>2
<1>8. RouterTypeOK'
  <2>1. {channel', taken'} \subseteq [Names -> Seq(Conns)]
    BY <1>1, <1>2, <1>3, <1>4, <1>5 DEF RouterTypeOK
  <2>2. ASSUME NEW n \in Names PROVE Len(channel'[n]) <= ChannelCap
    <3>1. CASE n = m
      <4>1. channel'[n] = Tail(t)
        BY <1>1, <1>2, <1>4, <3>1 DEF RouterTypeOK
      <4>2. Len(t) <= ChannelCap
        BY <1>2, <1>4 DEF RouterTypeOK
      <4> QED BY <1>5, <4>1, <4>2, RouterAssumption
    <3>2. CASE n # m
      BY <1>1, <1>2, <3>2 DEF RouterTypeOK
    <3> QED BY <3>1, <3>2
  <2> QED BY <1>1, <1>2, <1>6, <2>1, <2>2 DEF RouterTypeOK, setupVars, listenVars
<1>9. Accounted'
  BY <1>1, <1>6, <1>7 DEF Accounted, RouterInv
<1>10. DeliveredInOrder'
  BY <1>1, <1>6, <1>7 DEF DeliveredInOrder, RouterInv, setupVars
<1> QED BY <1>1, <1>6, <1>8, <1>9, <1>10 DEF RouterInv, setupVars

\* A link ends: what was in its channel is dropped with its receiver.
LEMMA LinkEndsKeeps == ASSUME NEW m \in Names PROVE RouterInv /\ LinkEnds(m) => RouterInv'
<1> SUFFICES ASSUME RouterInv, LinkEnds(m) PROVE RouterInv'
  OBVIOUS
<1>1. /\ ended' = ended \cup {m} /\ lost' = lost \cup Range(channel[m])
      /\ channel' = [channel EXCEPT ![m] = << >>]
      /\ UNCHANGED <<setupVars, listenVars, incoming, current, taken, refused>>
  BY DEF LinkEnds
<1>2. RouterTypeOK
  BY DEF RouterInv
<1>3. Conns' = Conns /\ arrived' = arrived /\ onWay' = onWay
  BY <1>1 DEF Conns, listenVars, onWay
<1>4. ASSUME NEW n \in Names, n # m PROVE got(n)' = got(n)
  BY <1>1, <1>2, <1>4 DEF got, RouterTypeOK
<1>5. PICK s \in Seq(Conns) : s = taken[m]
  BY <1>2 DEF RouterTypeOK
<1>6. PICK t \in Seq(Conns) : t = channel[m]
  BY <1>2 DEF RouterTypeOK
<1>7. got(m)' = s /\ Range(got(m)) = Range(s) \cup Range(t) /\ Range(t) \subseteq Conns
  <2>1. got(m)' = s \o << >> /\ got(m) = s \o t
    BY <1>1, <1>2, <1>5, <1>6 DEF got, RouterTypeOK
  <2>2. s \o << >> = s /\ Range(s \o t) = Range(s) \cup Range(t) /\ Range(t) \subseteq Conns
    BY ConcatEmptySeq, RangeConcatenation, RangeOfSeq
  <2> QED BY <2>1, <2>2
<1>8. RouterTypeOK'
  <2>1. channel' \in [Names -> Seq(Conns)] /\ \A n \in Names : Len(channel'[n]) <= ChannelCap
    BY <1>1, <1>2, EmptySeq, RouterAssumption DEF RouterTypeOK
  <2>2. lost' \subseteq Conns
    BY <1>1, <1>2, <1>6, <1>7 DEF RouterTypeOK
  <2> QED BY <1>1, <1>2, <1>3, <2>1, <2>2 DEF RouterTypeOK, setupVars, listenVars
<1>9. Accounted'
  <2>1. ASSUME NEW c \in Conns
        PROVE  \/ c \in refused \cup lost' \cup Range(onWay')
               \/ \E n \in Names : c \in Range(got(n)')
    <3>1. c \in refused \cup lost \cup Range(onWay) \/ \E n \in Names : c \in Range(got(n))
      BY DEF Accounted, RouterInv
    <3>2. ASSUME NEW n \in Names, c \in Range(got(n))
          PROVE  c \in lost' \/ c \in Range(got(n)')
      BY <1>1, <1>4, <1>6, <1>7, <3>2
    <3> QED BY <1>1, <1>3, <3>1, <3>2
  <2> QED BY <1>1, <1>3, <2>1 DEF Accounted, RouterInv
<1>10. DeliveredInOrder'
  BY <1>1, <1>3, <1>4 DEF DeliveredInOrder, RouterInv, setupVars
<1> QED BY <1>1, <1>3, <1>8, <1>9, <1>10 DEF RouterInv, setupVars

\* The listener ends, or run() returns with nothing left in its queue.
LEMMA EndsKeep == RouterInv /\ (ListenerEnds \/ RunReturns) => RouterInv'
<1> SUFFICES ASSUME RouterInv, ListenerEnds \/ RunReturns PROVE RouterInv'
  OBVIOUS
<1>1. /\ UNCHANGED <<todo, arrived, incoming, current, channel, linkVars, refused, lost>>
      /\ router = "running"
  BY DEF ListenerEnds, RunReturns, setupVars, listenVars
<1>2. /\ Conns' = Conns /\ onWay' = onWay /\ \A n \in Names : got(n)' = got(n)
  BY <1>1 DEF Conns, onWay, got, linkVars
<1>3. Accounted'
  BY <1>1, <1>2 DEF Accounted, RouterInv
<1>4. CASE ListenerEnds
  <2>1. listening' = FALSE /\ UNCHANGED setupVars
    BY <1>4 DEF ListenerEnds
  <2>2. RouterTypeOK'
    BY <1>1, <1>2, <2>1 DEF RouterTypeOK, RouterInv, setupVars, linkVars
  <2>3. DeliveredInOrder'
    BY <1>1, <1>2, <2>1 DEF DeliveredInOrder, RouterInv, setupVars, linkVars
  <2> QED BY <1>1, <1>3, <2>1, <2>2, <2>3 DEF RouterInv, setupVars
<1>5. CASE RunReturns
  <2>1. /\ router' = "returned" /\ by_peer' = [k \in PublicKeys |-> None]
        /\ listening' = listening /\ incoming = << >> /\ current = None
    BY <1>5 DEF RunReturns, listenVars
  <2>2. RouterTypeOK'
    BY <1>1, <1>2, <2>1 DEF RouterTypeOK, RouterInv, linkVars
  <2> QED BY <1>1, <1>3, <2>1, <2>2 DEF RouterInv, DeliveredInOrder
<1> QED BY <1>4, <1>5

\* Every step of the router, of main.rs, of the listener and of the links.
LEMMA RouterStep == RouterInv /\ [RouterNext]_routerVars => RouterInv'
<1>1. RouterInv /\ UNCHANGED routerVars => RouterInv'
  <2> SUFFICES ASSUME RouterInv, UNCHANGED routerVars PROVE RouterInv'
    OBVIOUS
  <2>1. UNCHANGED <<todo, by_peer, router, arrived, listening, incoming, current, channel,
                    taken, ended, refused, lost>>
    BY DEF routerVars, setupVars, listenVars, linkVars
  <2>2. /\ Conns' = Conns /\ onWay' = onWay /\ \A n \in Names : got(n)' = got(n)
    BY <2>1 DEF Conns, onWay, got
  <2>3. Accounted' /\ DeliveredInOrder' /\ RouterTypeOK'
    BY <2>1, <2>2 DEF Accounted, DeliveredInOrder, RouterTypeOK, RouterInv
  <2> QED BY <2>1, <2>3 DEF RouterInv
<1> QED BY <1>1, SetupKeeps, AcceptedKeeps, RecvKeeps, SubmitKeeps, LinkTakesKeeps,
           LinkEndsKeeps, EndsKeep
        DEF RouterNext, Router

\* For any number of peers, names, keys and connections and any capacities, a link gets
\* the connections of its peer, each once and in the order they were accepted
\* (IncomingRouter::register, run and dispatch).
THEOREM RouterDeliveredInOrder == RouterSpec => []DeliveredInOrder
<1>1. RouterInv => DeliveredInOrder
  BY DEF RouterInv
<1> QED BY RouterInitially, RouterStep, <1>1, PTL DEF RouterSpec

\* No connection vanishes between the listener and the links, and none of a configured
\* peer is refused, however many names share its key (register and dispatch).
THEOREM RouterAccounted == RouterSpec => []Accounted
<1>1. RouterInv => Accounted
  BY DEF RouterInv
<1> QED BY RouterInitially, RouterStep, <1>1, PTL DEF RouterSpec

(***************************************************************************)
(* Exporter: the metrics exporters of a peer, and the two tasks together.  *)
(***************************************************************************)

\* Before the first connection, and after the last.
LEMMA ExporterInitially == (ExporterInit \/ ExporterDone) => ExporterInv
BY ExporterAssumption
DEF ExporterInit, ExporterDone, ExporterInv, ExporterTypeOK, Served, Gauges, Working

\* recv_loop spawns and cancels, connections close and change their paths, exporters run.
LEMMA ExporterStep == ExporterInv /\ [ExporterNext]_exporterVars => ExporterInv'
<1> SUFFICES ASSUME ExporterInv, [ExporterNext]_exporterVars PROVE ExporterInv'
  OBVIOUS
<1> USE ExporterAssumption DEF ExporterInv, ExporterTypeOK, Served, Working
<1>1. CASE UNCHANGED exporterVars
  BY <1>1 DEF exporterVars
<1>2. CASE SpawnExporter
  BY <1>2 DEF SpawnExporter, connVars
<1>3. CASE RecvLoopReturns
  BY <1>3 DEF RecvLoopReturns, connVars
<1>4. ASSUME NEW c \in Served, Close(c) \/ PathChanges(c) PROVE ExporterInv'
  BY <1>4 DEF Close, PathChanges, loopVars
<1>5. ASSUME NEW c \in Served, NEW from \in Working, NEW kinds,
             NEW to \in Working \cup {"stopped"}, Step(c, from, kinds, to)
      PROVE  ExporterInv'
  <2>1. c <= last
    BY <1>5 DEF Step
  <2>2. gauges' \in [Gauges -> 0..MaxConn] /\ \A g \in Gauges : gauges'[g] <= last
    BY <1>5, <2>1 DEF Step
  <2>3. exporter' \in [Served -> Working \cup {"none", "stopped"}]
    BY <1>5 DEF Step
  <2>4. /\ \A e \in Served : e > last => exporter'[e] = "none"
        /\ \A e \in Served \ cancelled : exporter'[e] \in Working => serving = e
    BY <1>5, <2>1 DEF Step
  <2> QED BY <1>5, <2>2, <2>3, <2>4 DEF Step, loopVars, connVars
<1>6. ASSUME NEW c \in Served, RunExporter(c) PROVE ExporterInv'
  <2>1. CASE Tick(c) \/ Cancelled(c)
    BY <1>5, <2>1 DEF Tick, Cancelled
  <2>2. CASE CheckClosed(c) \/ UpdateConnection(c)
    BY <1>5, <2>2 DEF CheckClosed, UpdateConnection
  <2>3. CASE SetRelayed(c) \/ UpdatePath(c)
    BY <1>5, <2>3 DEF SetRelayed, UpdatePath
  <2> QED BY <1>6, <2>1, <2>2, <2>3 DEF RunExporter
<1> QED BY <1>1, <1>2, <1>3, <1>4, <1>6 DEF ExporterNext

\* The inductive invariants hold for every value of the constants: no channel exceeds its
\* capacity, and an exporter still at work is the one of the connection that recv_loop
\* serves or is cancelled.
THEOREM TasksInvariant == TasksSpec => []TasksInv
<1> DEFINE tasksVars == <<routerVars, exporterVars>>
<1>1. TasksInit => TasksInv
  BY RouterInitially, ExporterInitially DEF TasksInit, TasksInv
<1>2. TasksInv /\ [TasksNext]_tasksVars => TasksInv'
  <2>1. [TasksNext]_tasksVars => [RouterNext]_routerVars /\ [ExporterNext]_exporterVars
    BY DEF TasksNext
  <2> QED BY <2>1, RouterStep, ExporterStep DEF TasksInv
<1> QED BY <1>1, <1>2, PTL DEF TasksSpec
=============================================================================
