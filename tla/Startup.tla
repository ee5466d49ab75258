------------------------------- MODULE Startup -------------------------------
(***************************************************************************)
(* What is on disk and how a process of the program starts from it: the    *)
(* subcommands generate (src/src/generate.rs) and show (src/src/show.rs),  *)
(* the configuration they load (src/src/config.rs), and the daemon up to   *)
(* its loops (main in src/src/main.rs).  Every step may fail, the process  *)
(* may be killed between any two, and a write cut short leaves a torn file.*)
(* The user edits the configuration in between.                            *)
(***************************************************************************)
EXTENDS Naturals

CONSTANTS
  MaxKeys,  \* bound: keys that are generated
  Linux,    \* the platform has a host DNS integration
  Absent,   \* no such file
  Torn      \* a file cut short

ASSUME StartupAssumption == MaxKeys \in Nat /\ Linux \in BOOLEAN

Keys == 1..MaxKeys

\* A key file next to the configuration, or at a path of its own.
Paths == {"beside", "own"}

\* What a configuration says: its key path, whether subnet and peer keys are acceptable,
\* whether it has peers, whether it has a [dns] section.
Configs == [key_path: {"relative", "absolute"}, acceptable: BOOLEAN, peers: BOOLEAN, dns: BOOLEAN]

ASSUME MarkersAssumption == Absent # Torn /\ {Absent, Torn} \cap (Configs \cup Nat) = {}

VARIABLES
  config,   \* the configuration file
  keyfile,  \* path -> Absent, Torn or the key in it
  private,  \* paths whose file is restricted to its owner
  cut,      \* history: paths of keys whose writer ended before it restricted them
  proc,     \* where the running process is; "none"
  path,     \* the key path it uses
  key,      \* the key it has generated or loaded
  dns,      \* whether the daemon's configuration has a [dns] section
  host,     \* what the daemon has set up on the host
  nkeys,    \* keys generated so far
  printed   \* the public key last printed for the present configuration; 0: none

vars == <<config, keyfile, private, cut, proc, path, key, dns, host, nkeys, printed>>
disk == <<config, keyfile, private, cut>>
own  == <<path, key, dns, host>>

Generating == {"write_config", "check_key", "save_key", "restrict_key"}
Starting   == {"open_tun", "add_if_addr", "dns_route", "host_dns"}

StartupTypeOK ==
  /\ config \in Configs \cup {Absent, Torn}
  /\ keyfile \in [Paths -> Keys \cup {Absent, Torn}]
  /\ private \in SUBSET Paths /\ cut \in SUBSET Paths
  /\ proc \in {"none", "run"} \cup Generating \cup Starting
  /\ path \in Paths
  /\ key \in Keys \cup {0}
  /\ dns \in BOOLEAN
  /\ host \in SUBSET {"tun", "addr", "dns_route", "host_dns", "stale_dns"}
  /\ nkeys \in 0..MaxKeys
  /\ printed \in Keys \cup {0}

StartupInit ==
  /\ config = Absent
  /\ keyfile = [p \in Paths |-> Absent]
  /\ private = {} /\ cut = {}
  /\ proc = "none" /\ path = "beside" /\ key = 0 /\ dns = FALSE /\ host = {}
  /\ nkeys = 0 /\ printed = 0

\* What outlives the process: the OS takes back the device and what is tied to it, but no
\* code withdraws the host's resolver configuration, which may be a file.
Leftovers ==
  {host \cap {"stale_dns"}} \cup (IF "host_dns" \in host THEN {{"stale_dns"}} ELSE {})

\* The process ends.
Exit == proc' = "none" /\ host' \in Leftovers /\ UNCHANGED <<path, key, dns>>

-----------------------------------------------------------------------------
(* Config::load                                                            *)

\* The file can be read and parsed, and RawConfig converted.
Loads == config \in Configs /\ config.acceptable

\* A relative path is joined to the directory of the configuration file.
KeyPath == IF config.key_path = "relative" THEN "beside" ELSE "own"

\* load_key_from_disk
KeyLoads(p) == keyfile[p] \in Keys

-----------------------------------------------------------------------------
(* generate                                                                *)

Template == [key_path |-> "relative", acceptable |-> TRUE, peers |-> FALSE, dns |-> FALSE]

\* The key path ensure_config() returns for the template it wrote.
TemplateKeyPath == "beside"

\* ensure_config(): an existing file is loaded, or the command fails.
StartGenerate ==
  /\ proc = "none"
  /\ \/ /\ config = Absent
        /\ proc' = "write_config"
        /\ UNCHANGED path
     \/ /\ Loads
        /\ proc' = "check_key"
        /\ path' = KeyPath
  /\ UNCHANGED <<disk, key, dns, host, nkeys, printed>>

WriteConfig ==
  /\ proc = "write_config"
  /\ config' = Template
  /\ path' = TemplateKeyPath
  /\ proc' = "check_key"
  /\ UNCHANGED <<keyfile, private, cut, key, dns, host, nkeys, printed>>

\* Mutant of CheckKey: a key is generated whether or not there is one.
CheckKeyAlways ==
  /\ proc = "check_key"
  /\ nkeys < MaxKeys
  /\ nkeys' = nkeys + 1
  /\ key' = nkeys + 1
  /\ proc' = "save_key"
  /\ UNCHANGED <<disk, path, dns, host, printed>>

\* Mutant of CheckKey: the new public key is printed before it is stored.
CheckKeyPrints ==
  /\ proc = "check_key"
  /\ keyfile[path] = Absent /\ nkeys < MaxKeys
  /\ nkeys' = nkeys + 1
  /\ key' = nkeys + 1
  /\ printed' = nkeys + 1
  /\ proc' = "save_key"
  /\ UNCHANGED <<disk, path, dns, host>>

\* ensure_key(): an existing key is loaded and printed, otherwise one is generated.
CheckKey ==
  /\ proc = "check_key"
  /\ \/ /\ keyfile[path] = Absent /\ nkeys < MaxKeys
        /\ nkeys' = nkeys + 1
        /\ key' = nkeys + 1
        /\ proc' = "save_key"
        /\ UNCHANGED <<path, dns, host, printed>>
     \/ /\ KeyLoads(path)
        /\ printed' = keyfile[path]
        /\ Exit
        /\ UNCHANGED nkeys
  /\ UNCHANGED disk

SaveKey ==
  /\ proc = "save_key"
  /\ keyfile' = [keyfile EXCEPT ![path] = key]
  /\ proc' = "restrict_key"
  /\ UNCHANGED <<config, private, cut, own, nkeys, printed>>

\* set_permissions(0o600), and the public key is printed.
RestrictKey ==
  /\ proc = "restrict_key"
  /\ private' = private \cup {path}
  /\ printed' = key
  /\ Exit
  /\ UNCHANGED <<config, keyfile, cut, nkeys>>

\* show: the public key and address the daemon would use.
Show ==
  /\ proc = "none" /\ Loads /\ KeyLoads(KeyPath)
  /\ printed' = keyfile[KeyPath]
  /\ UNCHANGED <<disk, proc, own, nkeys>>

-----------------------------------------------------------------------------
(* The daemon                                                              *)

\* The configuration and its key are loaded; without peers there is nothing to do.
StartDaemon ==
  /\ proc = "none" /\ Loads /\ KeyLoads(KeyPath) /\ config.peers
  /\ proc' = "open_tun"
  /\ path' = KeyPath
  /\ key' = keyfile[KeyPath]
  /\ dns' = config.dns
  /\ UNCHANGED <<disk, host, nkeys, printed>>

SetUp(from, what, to) ==
  /\ proc = from
  /\ host' = host \cup {what}
  /\ proc' = to
  /\ UNCHANGED <<disk, path, key, dns, nkeys, printed>>

OpenTun == SetUp("open_tun", "tun", "add_if_addr")

AddIfAddr == SetUp("add_if_addr", "addr", IF dns THEN "dns_route" ELSE "run")

DnsRoute == SetUp("dns_route", "dns_route", "host_dns")

\* Mutant of HostDns: a failure to configure the resolver is only logged.
HostDnsBestEffort ==
  /\ proc = "host_dns"
  /\ proc' = "run"
  /\ UNCHANGED <<disk, path, key, dns, host, nkeys, printed>>

\* LinuxDnsRoute::set; the daemon refuses to start on another platform.
HostDns == Linux /\ SetUp("host_dns", "host_dns", "run")

-----------------------------------------------------------------------------

\* A step fails or the process is killed: it ends with an error, and a write that was
\* under way may leave a torn file.
Fail ==
  /\ proc # "none"
  /\ Exit
  /\ config' \in IF proc = "write_config" THEN {config, Torn} ELSE {config}
  /\ keyfile' \in IF proc = "save_key" THEN {keyfile, [keyfile EXCEPT ![path] = Torn]}
                                       ELSE {keyfile}
  /\ cut' = IF proc = "restrict_key" THEN cut \cup {path} ELSE cut
  /\ UNCHANGED <<private, nkeys, printed>>

\* The user fills in, changes or removes the configuration.
EditConfig ==
  /\ proc \in {"none", "run"}
  /\ config' \in Configs \cup {Absent}
  /\ printed' = 0
  /\ UNCHANGED <<keyfile, private, cut, proc, own, nkeys>>

StartupNext ==
  \/ StartGenerate \/ WriteConfig \/ CheckKey \/ SaveKey \/ RestrictKey \/ Show
  \/ StartDaemon \/ OpenTun \/ AddIfAddr \/ DnsRoute \/ HostDns
  \/ Fail \/ EditConfig

StartupSpec == StartupInit /\ [][StartupNext]_vars

-----------------------------------------------------------------------------
(* Properties.                                                             *)

\* "an existing key is always kept as-is": once a key file holds a key no command
\* changes it, wherever an earlier run was interrupted.
KeyKept == [][\A p \in Paths : KeyLoads(p) => keyfile'[p] = keyfile[p]]_vars

\* A public key that was printed, by generate or show, is the one that the daemon
\* loads with this configuration: ensure_config() and Config::load() agree on the
\* path, and nothing is printed before it is stored.
PrintedIsStored == printed # 0 => Loads /\ keyfile[KeyPath] = printed

\* "`[dns]` isn't best-effort": a daemon that runs has its address on the device and, if
\* names are configured, the resolver's route and the host's resolver set up.
RunningIsComplete ==
  proc = "run" => /\ {"tun", "addr"} \subseteq host
                  /\ dns => {"dns_route", "host_dns"} \subseteq host

\* "A newly written key file is restricted to owner-only permissions on Unix": when no
\* process runs, every key on disk is, unless the process that wrote it ended between
\* save_to_disk() and set_permissions(); later runs keep such a key as it is.
PrivateUnlessCut == proc = "none" => \A p \in Paths : KeyLoads(p) => p \in private \cup cut

-----------------------------------------------------------------------------
(* The inductive invariant behind them.                                    *)

\* What generate has found out and not yet acted on is still so: nobody else writes
\* the configuration or the key in between.
GenerateInv ==
  /\ proc = "write_config" => config = Absent
  /\ proc \in {"check_key", "save_key", "restrict_key"} => Loads /\ path = KeyPath
  /\ proc = "save_key" => key \in Keys /\ keyfile[path] = Absent
  /\ proc = "restrict_key" => key \in Keys /\ keyfile[path] = key

\* The daemon takes its steps in order, and skips those for names together.
DaemonInv ==
  /\ proc \in {"add_if_addr", "dns_route", "host_dns", "run"} => "tun" \in host
  /\ proc \in {"dns_route", "host_dns", "run"} => "addr" \in host
  /\ proc = "host_dns" => "dns_route" \in host
  /\ RunningIsComplete

\* A key that is readable by others is being restricted, or was to be.
PermissionsInv ==
  \A p \in Paths : KeyLoads(p) =>
    p \in private \cup cut \/ (proc = "restrict_key" /\ p = path)

\* The state on disk and the steps of generate, show and the daemon agree: nothing
\* a process relies on has been changed under it, wherever one was cut short.
StartupInv == StartupTypeOK /\ GenerateInv /\ PrintedIsStored /\ DaemonInv /\ PermissionsInv
==============================================================================
