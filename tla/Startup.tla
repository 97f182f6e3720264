------------------------------ MODULE Startup --------------------------------
(***************************************************************************)
(* How logfenced starts, reloads and goes down (main.rs), together with    *)
(* what it finds and leaves on disk: the configuration file, the schema    *)
(* files and the socket files.  main loads the configuration, builds the   *)
(* validator, creates the forwarder, spawns the stats socket task          *)
(* (serve_stats_socket in metrics.rs) and binds the listening socket       *)
(* (Listener::bind, DatagramListener::bind).  SIGHUP repeats the first two *)
(* steps in handle_signals.  Files are read one by one, so an edit may     *)
(* fall between two reads; the stats task runs beside main; the process    *)
(* may die anywhere, and is started again by its service manager.          *)
(*                                                                         *)
(* Serving (Daemon), the sessions and the signal registration are not      *)
(* repeated here.                                                          *)
(***************************************************************************)
EXTENDS Config

CONSTANTS
    Files,          \* what may be found at the path of the configuration
    SchemaPaths,    \* paths of schema files
    Contents,       \* what may be found at such a path
    Paths,          \* paths of socket files
    MaxFaults       \* bound: edits, I/O failures and crashes

ASSUME StartupAssumption ==
    /\ \A f \in Files : Loads(f) =>
          LET v == Loaded(f).validation
          IN  /\ v.schemas \in Seq(SchemaPaths)
              /\ Range(v.schema_map) \subseteq SchemaPaths
              /\ {Loaded(f).daemon.listen_socket, Loaded(f).metrics.socket} \subseteq Paths
    /\ MaxFaults \in Nat

VARIABLES
    file,       \* the configuration file on disk
    disk,       \* the schema files on disk
    fs,         \* the socket files: who bound each, and its mode
    main,       \* where main is
    cfg,        \* the configuration main started with
    build,      \* the validator build_validator is building
    touched,    \* a file was edited since that build began (history)
    live,       \* the validator in the watch channel
    stats,      \* where the stats socket task is
    faults

filesVars == <<file, disk, touched>>
vars == <<file, disk, touched, fs, main, cfg, build, live, stats, faults>>

NoFile == [by |-> "nobody", mode |-> 0]
Directory == [by |-> "directory", mode |-> 0]
Stale == [by |-> "dead process", mode |-> 0]
Bound(task) == [by |-> task, mode |-> 0]

\* remove_file fails where there is no file and on a directory.
Removable(path) == fs[path] \notin {NoFile, Directory}

NoBuild == [cfg |-> ValidationConfig, scan |-> <<>>, map |-> <<>>]

NoValidator == [mode |-> NotSet]

Building == main \in {"build", "reload"}
Serving == main \in {"signals", "reload"}
Alive == main \notin {"down", "failed", "stopped"}

Listen == cfg.daemon.listen_socket
Stats == cfg.metrics.socket

StartupInit ==
    /\ file \in Files
    /\ disk \in [SchemaPaths -> Contents]
    /\ touched = FALSE
    /\ fs \in [Paths -> {NoFile, Stale, Directory}]
    /\ main = "down"
    /\ cfg = ParsedConfig(<<>>)
    /\ build = NoBuild
    /\ live = NoValidator
    /\ stats = "off"
    /\ faults = 0

-----------------------------------------------------------------------------
\* The process is gone: its sockets are closed, their files stay.
Exit(how) ==
    /\ main' = how
    /\ fs' = [p \in Paths |-> IF fs[p].by \in {"listener", "stats"} THEN Stale ELSE fs[p]]
    /\ live' = NoValidator
    /\ build' = NoBuild
    /\ stats' = "off"
    /\ cfg' = ParsedConfig(<<>>)

\* systemd (Restart=on-failure) or an operator.
Start ==
    /\ main \in {"down", "failed"}
    /\ main' = "load"
    /\ UNCHANGED <<filesVars, fs, cfg, build, live, stats, faults>>

StartAgain ==
    /\ main = "stopped"
    /\ main' = "load"
    /\ UNCHANGED <<filesVars, fs, cfg, build, live, stats, faults>>

\* config::load, and build_validator begins.
LoadConfig ==
    /\ main = "load"
    /\ touched' = FALSE
    /\ IF Loads(file)
       THEN /\ main' = "build"
            /\ cfg' = Loaded(file)
            /\ build' = [NoBuild EXCEPT !.cfg = Loaded(file).validation]
            /\ UNCHANGED <<fs, live, stats>>
       ELSE Exit("failed")
    /\ UNCHANGED <<file, disk, faults>>

MutHangup ==
    /\ main = "signals"
    /\ touched' = FALSE
    /\ Loads(file)
    /\ main' = "reload"
    /\ build' = [NoBuild EXCEPT !.cfg = cfg.validation]
    /\ UNCHANGED <<file, disk, fs, cfg, live, stats, faults>>

\* SIGHUP: reload_validator.  Only the [validation] section is used.
Hangup ==
    /\ main = "signals"
    /\ touched' = FALSE
    /\ IF Loads(file)
       THEN /\ main' = "reload"
            /\ build' = [NoBuild EXCEPT !.cfg = Loaded(file).validation]
       ELSE UNCHANGED <<main, build>>
    /\ UNCHANGED <<file, disk, fs, cfg, live, stats, faults>>

\* build_validator returns an error: start-up ends, a reload changes nothing.
BuildFails ==
    /\ IF main = "build"
       THEN Exit("failed")
       ELSE main' = "signals" /\ build' = NoBuild /\ UNCHANGED <<fs, cfg, live, stats>>
    /\ UNCHANGED <<filesVars, faults>>

Scanned == Len(build.scan) = Len(build.cfg.schemas)

\* One round of the loop of load_schema_files.
ReadSchema ==
    /\ Building
    /\ ~Scanned
    /\ LET content == disk[build.cfg.schemas[Len(build.scan) + 1]]
       IN  IF Readable(content)
           THEN /\ build' = [build EXCEPT !.scan = Append(@, content)]
                /\ UNCHANGED <<filesVars, fs, main, cfg, live, stats, faults>>
           ELSE BuildFails

\* Validator::from_values compiles the scan list before the map is read.
ScanCompiles == Scanned /\ \A i \in DOMAIN build.scan : Compiles(build.scan[i])

ScanInvalid ==
    /\ Building
    /\ Scanned
    /\ ~ScanCompiles
    /\ BuildFails

\* HashMap::insert of a new key.
Insert(map, tag, content) ==
    [t \in DOMAIN map \cup {tag} |-> IF t = tag THEN content ELSE map[t]]

\* One round of the loop of load_schema_files_map.
ReadMapped(tag) ==
    /\ Building
    /\ ScanCompiles
    /\ tag \in MappedTags(build.cfg) \ DOMAIN build.map
    /\ LET content == disk[build.cfg.schema_map[tag]]
       IN  IF Readable(content)
           THEN /\ build' = [build EXCEPT !.map = Insert(@, tag, content)]
                /\ UNCHANGED <<filesVars, fs, main, cfg, live, stats, faults>>
           ELSE BuildFails

MutFinishBuild ==
    /\ Building
    /\ ScanCompiles
    /\ live' = NewValidator(build.cfg, build.scan, build.map)
    /\ main' = (IF main = "build" THEN "forwarder" ELSE "signals")
    /\ build' = NoBuild
    /\ UNCHANGED <<filesVars, fs, cfg, stats, faults>>

\* with_discriminator_docs compiles the map; then the validator is published.
FinishBuild ==
    /\ Building
    /\ ScanCompiles
    /\ DOMAIN build.map = MappedTags(build.cfg)
    /\ IF \A tag \in DOMAIN build.map : Compiles(build.map[tag])
       THEN /\ live' = NewValidator(build.cfg, build.scan, build.map)
            /\ main' = (IF main = "build" THEN "forwarder" ELSE "signals")
            /\ build' = NoBuild
            /\ UNCHANGED <<filesVars, fs, cfg, stats, faults>>
       ELSE BuildFails

-----------------------------------------------------------------------------
\* Forwarder::from_config, then the stats task is spawned.
MakeForwarder ==
    /\ main = "forwarder"
    /\ main' = "exists"
    /\ stats' = (IF cfg.metrics.enabled THEN "remove" ELSE "off")
    /\ UNCHANGED <<filesVars, fs, cfg, build, live, faults>>

MutPathExists ==
    /\ main = "exists"
    /\ main' = "bind"
    /\ UNCHANGED <<filesVars, fs, cfg, build, live, stats, faults>>

PathExists ==
    /\ main = "exists"
    /\ main' = (IF fs[Listen] = NoFile THEN "bind" ELSE "unlink")
    /\ UNCHANGED <<filesVars, fs, cfg, build, live, stats, faults>>

RemoveStale ==
    /\ main = "unlink"
    /\ IF Removable(Listen)
       THEN /\ fs' = [fs EXCEPT ![Listen] = NoFile]
            /\ main' = "bind"
            /\ UNCHANGED <<cfg, build, live, stats>>
       ELSE Exit("failed")
    /\ UNCHANGED <<filesVars, faults>>

Bind ==
    /\ main = "bind"
    /\ IF fs[Listen] = NoFile
       THEN /\ fs' = [fs EXCEPT ![Listen] = Bound("listener")]
            /\ main' = "chmod"
            /\ UNCHANGED <<cfg, build, live, stats>>
       ELSE Exit("failed")
    /\ UNCHANGED <<filesVars, faults>>

\* apply_socket_permissions, by path: whoever bound the file by now.
ApplySocketPermissions ==
    /\ main = "chmod"
    /\ IF fs[Listen] # NoFile
       THEN /\ fs' = [fs EXCEPT ![Listen] = [@ EXCEPT !.mode = AppliedMode(cfg.daemon.socket_mode)]]
            /\ main' = "signals"
            /\ UNCHANGED <<cfg, build, live, stats>>
       ELSE Exit("failed")
    /\ UNCHANGED <<filesVars, faults>>

\* SIGTERM is handled: the token is cancelled, main waits for the listener.
Terminate ==
    /\ main = "signals"
    /\ main' = "drain"
    /\ UNCHANGED <<filesVars, fs, cfg, build, live, stats, faults>>

\* main returns.  It does not wait for the stats task.
Finish ==
    /\ main = "drain"
    /\ Exit("stopped")
    /\ UNCHANGED <<filesVars, faults>>

-----------------------------------------------------------------------------
(* serve_stats_socket: its errors are ignored or logged, never fatal.      *)

Unlinked == IF Removable(Stats) THEN [fs EXCEPT ![Stats] = NoFile] ELSE fs

StatsRemove ==
    /\ stats = "remove"
    /\ fs' = Unlinked
    /\ stats' = "bind"
    /\ UNCHANGED <<filesVars, main, cfg, build, live, faults>>

StatsBind ==
    /\ stats = "bind"
    /\ IF fs[Stats] = NoFile
       THEN fs' = [fs EXCEPT ![Stats] = Bound("stats")] /\ stats' = "serve"
       ELSE UNCHANGED fs /\ stats' = "off"
    /\ UNCHANGED <<filesVars, main, cfg, build, live, faults>>

StatsClose ==
    /\ stats = "serve"
    /\ main = "drain"
    /\ fs' = Unlinked
    /\ stats' = "off"
    /\ UNCHANGED <<filesVars, main, cfg, build, live, faults>>

-----------------------------------------------------------------------------
(* Faults.                                                                 *)

Fault == faults < MaxFaults /\ faults' = faults + 1

EditConfig ==
    /\ Fault
    /\ file' \in Files \ {file}
    /\ touched' = TRUE
    /\ UNCHANGED <<disk, fs, main, cfg, build, live, stats>>

EditSchema(path) ==
    /\ Fault
    /\ \E content \in Contents \ {disk[path]} : disk' = [disk EXCEPT ![path] = content]
    /\ touched' = TRUE
    /\ UNCHANGED <<file, fs, main, cfg, build, live, stats>>

\* A socket cannot be created, bound, given its mode or set up.
IoFailure ==
    /\ Fault
    /\ main \in {"forwarder", "unlink", "bind", "chmod"}
    /\ Exit("failed")
    /\ UNCHANGED filesVars

\* SIGKILL, a panic, or a signal whose handler is not yet installed.
Crash ==
    /\ Fault
    /\ Alive
    /\ Exit("down")
    /\ UNCHANGED filesVars

-----------------------------------------------------------------------------
Main ==
    \/ LoadConfig
    \/ ReadSchema
    \/ ScanInvalid
    \/ \E tag \in MappedTags(build.cfg) : ReadMapped(tag)
    \/ FinishBuild
    \/ MakeForwarder
    \/ PathExists
    \/ RemoveStale
    \/ Bind
    \/ ApplySocketPermissions
    \/ Finish

StatsTask == StatsRemove \/ StatsBind \/ StatsClose

StartupNext ==
    \/ Main
    \/ StatsTask
    \/ Start
    \/ StartAgain
    \/ Hangup
    \/ Terminate
    \/ EditConfig
    \/ \E path \in SchemaPaths : EditSchema(path)
    \/ IoFailure
    \/ Crash

\* main never waits for anything outside; Restart=on-failure in
\* logfenced.service starts a failed or killed daemon again.
StartupSpec ==
    /\ StartupInit
    /\ [][StartupNext]_vars
    /\ WF_vars(Main)
    /\ WF_vars(Start)

-----------------------------------------------------------------------------
(* A daemon that serves is the one clients reach: the socket at the        *)
(* configured path is its own and has the configured mode, so the fallback *)
(* of apply_socket_permissions is never taken.  validate does not compare  *)
(* the two socket paths; with one path for both the daemon may serve       *)
(* behind a socket it has replaced itself.                                 *)
ListensAsConfigured ==
    Serving /\ (cfg.metrics.enabled => Stats # Listen) =>
        fs[Listen] = [by |-> "listener", mode |-> OctalMode(cfg.daemon.socket_mode)]

(* The validator in use is never half built, whatever is edited while its  *)
(* files are read and however a reload fails: it belongs to a              *)
(* configuration that passed validate, with a compiled schema for every    *)
(* entry of the scan list and of the map.                                  *)
LiveIsComplete ==
    Serving =>
        \E f \in {g \in Files : Loads(g)} :
            LET v == Loaded(f).validation
            IN  /\ live = NewValidator(v, live.scan, live.map)
                /\ Len(live.scan) = Len(v.schemas)
                /\ DOMAIN live.map = MappedTags(v)
                /\ \A c \in Range(live.scan) \cup Range(live.map) : Compiles(c)

(* "SIGHUP - atomically reloads JSON schemas" (main.rs): a start or reload *)
(* that no edit overlaps installs exactly what the files say.              *)
InstallsWhatIsOnDisk ==
    [][live' \notin {live, NoValidator} /\ ~touched =>
          live' = OnDisk(Loaded(file).validation, disk)]_vars

GoodFiles ==
    /\ Loads(file)
    /\ Builds(Loaded(file).validation, disk)
    /\ fs[Loaded(file).daemon.listen_socket] # Directory
    /\ Loaded(file).metrics.enabled =>
          Loaded(file).metrics.socket # Loaded(file).daemon.listen_socket

(* The daemon recovers: once the files are good and faults cease, it is    *)
(* serving again and again, whatever socket files earlier incarnations     *)
(* left behind, unless it is told to stop.                                 *)
Recovers == <>[]GoodFiles => []<>(Serving \/ main \in {"drain", "stopped"})

=============================================================================
