---------------------------- MODULE StartupProofs -----------------------------
(***************************************************************************)
(* Safety of starting, reloading and going down, for every set of          *)
(* configuration files, schema files, socket paths and number of faults:   *)
(* a daemon that serves is reachable as configured, its validator is never *)
(* half built, and an undisturbed build installs what the files say.       *)
(***************************************************************************)
EXTENDS Startup, SequenceTheorems, TLAPS

\* The configuration of a running daemon comes from a file that loads.
Configured ==
    /\ DOMAIN fs = Paths
    /\ disk \in [SchemaPaths -> Contents]
    /\ file \in Files
    /\ main \in {"down", "load", "build", "forwarder", "exists", "unlink", "bind", "chmod",
                 "signals", "reload", "drain", "failed", "stopped"}
    /\ Alive /\ main # "load" => \E f \in Files : Loads(f) /\ cfg = Loaded(f)

Apart == cfg.metrics.enabled => Stats # Listen

\* The listening socket from bind on.
Reachable ==
    /\ stats # "off" => cfg.metrics.enabled /\ Alive /\ main # "load"
    /\ main = "chmod" /\ Apart => fs[Listen] = Bound("listener")
    /\ ListensAsConfigured

\* A validator all of whose schemas compile.
Complete(l) ==
    \E f \in {g \in Files : Loads(g)} :
        LET v == Loaded(f).validation
        IN  /\ l = NewValidator(v, l.scan, l.map)
            /\ Len(l.scan) = Len(v.schemas)
            /\ DOMAIN l.map = MappedTags(v)
            /\ \A c \in Range(l.scan) \cup Range(l.map) : Compiles(c)

\* What has been read so far belongs to one file, and to the files on disk
\* as long as none was edited.
Underway ==
    Building =>
        /\ build = [cfg |-> build.cfg, scan |-> build.scan, map |-> build.map]
        /\ \E f \in Files : Loads(f) /\ build.cfg = Loaded(f).validation
        /\ build.scan \in Seq(Contents) /\ Len(build.scan) \leq Len(build.cfg.schemas)
        /\ build.map \in [DOMAIN build.map -> Contents]
        /\ DOMAIN build.map \subseteq MappedTags(build.cfg)
        /\ ~touched =>
              /\ build.cfg = Loaded(file).validation
              /\ \A i \in 1..Len(build.scan) : build.scan[i] = disk[build.cfg.schemas[i]]
              /\ \A t \in DOMAIN build.map : build.map[t] = disk[build.cfg.schema_map[t]]

Installed ==
    main \in {"forwarder", "exists", "unlink", "bind", "chmod", "signals", "reload", "drain"}
        => Complete(live)

StartupInv == Configured /\ Reachable /\ Underway /\ Installed

-----------------------------------------------------------------------------
(* What a step of the build changes in the record it is kept in.           *)
LEMMA BuildUpdates ==
    ASSUME NEW b, b = [cfg |-> b.cfg, scan |-> b.scan, map |-> b.map], NEW x
    PROVE  /\ [b EXCEPT !.cfg = x] = [cfg |-> x, scan |-> b.scan, map |-> b.map]
           /\ [b EXCEPT !.scan = x] = [cfg |-> b.cfg, scan |-> x, map |-> b.map]
           /\ [b EXCEPT !.map = x] = [cfg |-> b.cfg, scan |-> b.scan, map |-> x]
<1>1. [b EXCEPT !.cfg = x] = [cfg |-> x, scan |-> b.scan, map |-> b.map]
  OBVIOUS
<1>2. [b EXCEPT !.scan = x] = [cfg |-> b.cfg, scan |-> x, map |-> b.map]
  OBVIOUS
<1>3. [b EXCEPT !.map = x] = [cfg |-> b.cfg, scan |-> b.scan, map |-> x]
  OBVIOUS
<1> QED  BY <1>1, <1>2, <1>3

(* The start of a build for the [validation] section v.                    *)
LEMMA NewBuild ==
    ASSUME NEW v
    PROVE  LET b == [NoBuild EXCEPT !.cfg = v]
           IN  /\ b = [cfg |-> b.cfg, scan |-> b.scan, map |-> b.map]
               /\ b.cfg = v /\ b.scan = <<>> /\ b.map = <<>>
<1>1. NoBuild = [cfg |-> NoBuild.cfg, scan |-> NoBuild.scan, map |-> NoBuild.map]
      /\ NoBuild.scan = <<>> /\ NoBuild.map = <<>>
  BY DEF NoBuild
<1>2. [NoBuild EXCEPT !.cfg = v] = [cfg |-> v, scan |-> NoBuild.scan, map |-> NoBuild.map]
  BY <1>1, BuildUpdates
<1> QED  BY <1>1, <1>2

(* A file that loads: its paths are paths of the model, and its socket     *)
(* mode is octal, so the fallback of apply_socket_permissions is dead.     *)
LEMMA LoadedFile ==
    ASSUME NEW f \in Files, Loads(f)
    PROVE  LET v == Loaded(f).validation
           IN  /\ v.schemas \in Seq(SchemaPaths)
               /\ \A t \in DOMAIN v.schema_map : v.schema_map[t] \in SchemaPaths
               /\ MappedTags(v) \subseteq DOMAIN v.schema_map
               /\ Loaded(f).daemon.listen_socket \in Paths
               /\ Loaded(f).metrics.socket \in Paths
               /\ AppliedMode(Loaded(f).daemon.socket_mode) = OctalMode(Loaded(f).daemon.socket_mode)
<1> DEFINE v == Loaded(f).validation
<1>1. v.schemas \in Seq(SchemaPaths) /\ Range(v.schema_map) \subseteq SchemaPaths
      /\ {Loaded(f).daemon.listen_socket, Loaded(f).metrics.socket} \subseteq Paths
  BY StartupAssumption
<1>2. ValidConfig(Loaded(f))
  BY DEF Loads, LoadError, Loaded
<1>3. AppliedMode(Loaded(f).daemon.socket_mode) = OctalMode(Loaded(f).daemon.socket_mode)
  BY <1>2 DEF ValidConfig, AppliedMode
<1>4. MappedTags(v) \subseteq DOMAIN v.schema_map
  BY DEF MappedTags
<1>5. \A t \in DOMAIN v.schema_map : v.schema_map[t] \in SchemaPaths
  BY <1>1 DEF Range
<1> QED  BY <1>1, <1>3, <1>4, <1>5

-----------------------------------------------------------------------------
(* The inductive invariant holds initially.                                *)
LEMMA StartupInvInit == StartupInit => StartupInv
<1> SUFFICES ASSUME StartupInit PROVE StartupInv
  OBVIOUS
<1>1. main = "down" /\ ~Alive /\ ~Serving /\ ~Building
  BY DEF StartupInit, Alive, Serving, Building
<1>2. Configured
  BY <1>1 DEF StartupInit, Configured
<1>3. Reachable
  BY <1>1 DEF StartupInit, Reachable, ListensAsConfigured
<1>4. Underway /\ Installed
  BY <1>1 DEF Underway, Installed
<1> QED  BY <1>2, <1>3, <1>4 DEF StartupInv

(* A process that ends, however it ends, leaves the invariant intact.      *)
LEMMA ExitKeeps ==
    ASSUME StartupInv, NEW how \in {"failed", "down", "stopped"}, Exit(how),
           file' \in Files, disk' \in [SchemaPaths -> Contents]
    PROVE  StartupInv'
<1>1. main' = how /\ DOMAIN fs' = Paths /\ stats' = "off"
  BY DEF Exit
<1>2. ~Alive' /\ ~Serving' /\ ~Building'
  BY <1>1 DEF Alive, Serving, Building
<1>3. Configured'
  BY <1>1, <1>2 DEF Configured
<1>4. Reachable'
  BY <1>1, <1>2 DEF Reachable, ListensAsConfigured
<1>5. Underway' /\ Installed'
  BY <1>1, <1>2 DEF Underway, Installed
<1> QED  BY <1>3, <1>4, <1>5 DEF StartupInv

(* Steps that only move main on.                                           *)
LEMMA MainMoves ==
    ASSUME StartupInv, Start \/ StartAgain \/ PathExists \/ Terminate \/ UNCHANGED vars
    PROVE  StartupInv'
<1>1. UNCHANGED <<file, disk, touched, fs, cfg, build, live>> /\ stats' = stats
  BY DEF Start, StartAgain, PathExists, Terminate, vars, filesVars
<1>2. Listen' = Listen /\ Stats' = Stats /\ Apart' = Apart
  BY <1>1 DEF Listen, Stats, Apart
<1>3. CASE UNCHANGED vars
  BY <1>3, <1>1, <1>2 DEF vars, StartupInv, Configured, Reachable, Underway, Installed, Alive,
                          Serving, Building, ListensAsConfigured, Complete
<1>4. CASE Start \/ StartAgain
  <2>1. main \in {"down", "failed", "stopped"} /\ main' = "load"
    BY <1>4 DEF Start, StartAgain
  <2>2. ~Serving' /\ ~Building' /\ stats = "off"
    BY <2>1 DEF Serving, Building, StartupInv, Reachable, Alive
  <2> QED  BY <1>1, <2>1, <2>2 DEF StartupInv, Configured, Reachable, Underway, Installed, ListensAsConfigured
<1>5. CASE PathExists \/ Terminate
  <2>1. /\ main \in {"exists", "signals"} /\ main' \in {"bind", "unlink", "drain"}
        /\ Alive /\ Alive' /\ ~Serving' /\ ~Building'
    BY <1>5 DEF PathExists, Terminate, Serving, Building, Alive
  <2> QED  BY <1>1, <2>1 DEF StartupInv, Configured, Reachable, Underway, Installed,
                             ListensAsConfigured, Complete
<1> QED  BY <1>3, <1>4, <1>5

(* A build that begins has read nothing yet.                               *)
LEMMA FreshBuild ==
    ASSUME file \in Files, file' = file, Loads(file), touched' = FALSE,
           build' = [NoBuild EXCEPT !.cfg = Loaded(file).validation]
    PROVE  Underway'
<1>1. /\ build' = [cfg |-> build'.cfg, scan |-> build'.scan, map |-> build'.map]
      /\ build'.cfg = Loaded(file).validation /\ build'.scan = <<>> /\ build'.map = <<>>
  BY NewBuild
<1>2. Loaded(file).validation.schemas \in Seq(SchemaPaths)
  BY LoadedFile
<1>3. /\ <<>> \in Seq(Contents) /\ Len(<<>>) = 0 /\ 1..0 = {} /\ DOMAIN <<>> = {}
      /\ <<>> \in [DOMAIN <<>> -> Contents]
  OBVIOUS
<1>4. Len(build'.scan) \leq Len(build'.cfg.schemas)
  BY <1>1, <1>2, <1>3
<1>5. build'.map \in [DOMAIN build'.map -> Contents] /\ DOMAIN build'.map = {} /\ build'.scan \in Seq(Contents)
  BY Zenon, <1>1, <1>3
<1>6. \A i \in 1..Len(build'.scan) : build'.scan[i] = disk'[build'.cfg.schemas[i]]
  BY <1>1, <1>3
<1>7. \E f \in Files : Loads(f) /\ build'.cfg = Loaded(f).validation
  BY <1>1
<1> QED  BY <1>1, <1>4, <1>5, <1>6, <1>7 DEF Underway

(* Loading the configuration begins a build for the file on disk.          *)
LEMMA LoadKeeps ==
    ASSUME StartupInv, LoadConfig
    PROVE  StartupInv'
<1>1. file' = file /\ disk' = disk /\ file \in Files /\ disk \in [SchemaPaths -> Contents]
  BY DEF LoadConfig, StartupInv, Configured
<1>2. CASE ~Loads(file)
  BY <1>1, <1>2, ExitKeeps DEF LoadConfig
<1>3. CASE Loads(file)
  <2>1. /\ main = "load" /\ main' = "build" /\ cfg' = Loaded(file) /\ touched' = FALSE
        /\ build' = [NoBuild EXCEPT !.cfg = Loaded(file).validation] /\ UNCHANGED <<fs, live, stats>>
    BY <1>3 DEF LoadConfig
  <2>2. stats = "off" /\ Alive' /\ ~Serving' /\ DOMAIN fs = Paths
    BY <2>1 DEF StartupInv, Reachable, Configured, Alive, Serving
  <2>3. Configured' /\ Reachable' /\ Installed'
    BY <1>1, <1>3, <2>1, <2>2 DEF Configured, Reachable, Installed, ListensAsConfigured
  <2>4. Underway'
    BY Zenon, <1>1, <1>3, <2>1, FreshBuild
  <2> QED  BY <2>3, <2>4 DEF StartupInv
<1> QED  BY <1>2, <1>3

(* SIGHUP begins a build for the file on disk, beside the one in use.      *)
LEMMA HangupKeeps ==
    ASSUME StartupInv, Hangup
    PROVE  StartupInv'
<1>1. /\ UNCHANGED <<file, disk, fs, cfg, live, stats>> /\ touched' = FALSE
      /\ file \in Files /\ disk \in [SchemaPaths -> Contents] /\ main = "signals"
  BY DEF Hangup, StartupInv, Configured
<1>2. CASE ~Loads(file)
  <2>1. main' = main /\ ~Building'
    BY <1>1, <1>2 DEF Hangup, Building
  <2> QED  BY <1>1, <2>1 DEF StartupInv, Configured, Reachable, Underway, Installed, Alive, Serving,
                             ListensAsConfigured, Complete, Apart, Listen, Stats
<1>3. CASE Loads(file)
  <2>1. main' = "reload" /\ build' = [NoBuild EXCEPT !.cfg = Loaded(file).validation]
    BY <1>3 DEF Hangup
  <2>2. Alive /\ Alive' /\ Serving /\ Serving'
    BY <1>1, <2>1 DEF Alive, Serving
  <2>3. Configured' /\ Reachable' /\ Installed'
    BY <1>1, <2>1, <2>2 DEF StartupInv, Configured, Reachable, Installed, ListensAsConfigured, Complete,
                            Apart, Listen, Stats
  <2>4. Underway'
    BY Zenon, <1>1, <1>3, <2>1, FreshBuild
  <2> QED  BY <2>3, <2>4 DEF StartupInv
<1> QED  BY <1>2, <1>3

(* A build that fails ends a start and leaves a serving daemon as it was.  *)
LEMMA BuildFailsKeeps ==
    ASSUME StartupInv, Building, BuildFails
    PROVE  StartupInv'
<1>1. file' = file /\ disk' = disk /\ file \in Files /\ disk \in [SchemaPaths -> Contents]
  BY DEF BuildFails, filesVars, StartupInv, Configured
<1>2. CASE main = "build"
  BY <1>1, <1>2, ExitKeeps DEF BuildFails
<1>3. CASE main = "reload"
  <2>1. main' = "signals" /\ UNCHANGED <<fs, cfg, live, stats>>
    BY <1>3 DEF BuildFails
  <2>2. Alive /\ Alive' /\ Serving /\ Serving' /\ ~Building'
    BY <1>3, <2>1 DEF Alive, Serving, Building
  <2> QED  BY <1>1, <1>3, <2>1, <2>2 DEF StartupInv, Configured, Reachable, Underway, Installed,
                   ListensAsConfigured, Complete, Apart, Listen, Stats
<1> QED  BY <1>2, <1>3 DEF Building

(* A step of the build that changes nothing else keeps the invariant, if   *)
(* the build stays well formed.                                            *)
LEMMA BuildKeeps ==
    ASSUME StartupInv, Underway', UNCHANGED <<filesVars, fs, main, cfg, live, stats, faults>>
    PROVE  StartupInv'
BY DEF filesVars, StartupInv, Configured, Reachable, Installed, ListensAsConfigured, Complete, Apart,
       Listen, Stats, Alive, Serving

(* Reading the next schema of the scan list.                               *)
LEMMA ReadSchemaKeeps ==
    ASSUME StartupInv, ReadSchema
    PROVE  StartupInv'
<1> DEFINE v == build.cfg
           n == Len(build.scan)
           content == disk[build.cfg.schemas[Len(build.scan) + 1]]
<1>1. CASE ~Readable(content)
  BY <1>1, BuildFailsKeeps DEF ReadSchema
<1>2. CASE Readable(content)
  <2>1. /\ Building /\ n # Len(v.schemas)
        /\ build' = [build EXCEPT !.scan = Append(build.scan, content)]
        /\ UNCHANGED <<filesVars, fs, main, cfg, live, stats, faults>>
    BY <1>2 DEF ReadSchema, Scanned
  <2>2. /\ build = [cfg |-> build.cfg, scan |-> build.scan, map |-> build.map]
        /\ build.scan \in Seq(Contents) /\ n \leq Len(v.schemas)
        /\ build.map \in [DOMAIN build.map -> Contents] /\ DOMAIN build.map \subseteq MappedTags(build.cfg)
        /\ disk \in [SchemaPaths -> Contents]
    BY <2>1 DEF StartupInv, Underway, Configured
  <2>3. PICK f \in Files : Loads(f) /\ v = Loaded(f).validation
    BY <2>1 DEF StartupInv, Underway
  <2>4. v.schemas \in Seq(SchemaPaths)
    BY <2>3, LoadedFile
  <2>5. n + 1 \in 1..Len(v.schemas) /\ content \in Contents /\ n \in Nat
    BY <2>1, <2>2, <2>4
  <2>6. build' = [cfg |-> v, scan |-> Append(build.scan, content), map |-> build.map]
    BY Zenon, <2>1, <2>2, BuildUpdates
  <2>7. /\ build' = [cfg |-> build'.cfg, scan |-> build'.scan, map |-> build'.map]
        /\ build'.cfg = v /\ build'.scan = Append(build.scan, content) /\ build'.map = build.map
    BY <2>6
  <2> HIDE DEF content, n, v
  <2>8. /\ Append(build.scan, content) \in Seq(Contents)
        /\ Len(Append(build.scan, content)) = n + 1
        /\ \A i \in 1..n : Append(build.scan, content)[i] = build.scan[i]
        /\ Append(build.scan, content)[n + 1] = content
    BY <2>2, <2>5 DEF n
  <2>9. n + 1 \leq Len(v.schemas)
    BY <2>4, <2>5
  <2>10. ASSUME ~touched
         PROVE  \A i \in 1..(n + 1) : build'.scan[i] = disk[v.schemas[i]]
    <3>1. \A i \in 1..n : build.scan[i] = disk[v.schemas[i]]
      BY <2>1, <2>10 DEF StartupInv, Underway, n, v
    <3>2. content = disk[v.schemas[n + 1]]
      BY DEF content, n, v
    <3>3. \A i \in 1..(n + 1) : i \in 1..n \/ i = n + 1
      BY <2>5
    <3> QED  BY <2>7, <2>8, <3>1, <3>2, <3>3
  <2>11. ASSUME ~touched
         PROVE  v = Loaded(file).validation /\ \A t \in DOMAIN build.map : build.map[t] = disk[v.schema_map[t]]
    BY <2>1, <2>11 DEF StartupInv, Underway, v
  <2>12. \E g \in Files : Loads(g) /\ build'.cfg = Loaded(g).validation
    BY <2>3, <2>7
  <2>13. Len(build'.scan) \leq Len(build'.cfg.schemas) /\ build'.scan \in Seq(Contents)
    BY <2>7, <2>8, <2>9
  <2>14. build'.map \in [DOMAIN build'.map -> Contents] /\ DOMAIN build'.map \subseteq MappedTags(build'.cfg)
    BY <2>2, <2>7 DEF v
  <2>15. ~touched' => /\ build'.cfg = Loaded(file').validation
                      /\ \A i \in 1..Len(build'.scan) : build'.scan[i] = disk'[build'.cfg.schemas[i]]
                      /\ \A t \in DOMAIN build'.map : build'.map[t] = disk'[build'.cfg.schema_map[t]]
    <3>1. file' = file /\ disk' = disk /\ touched' = touched
      BY <2>1 DEF filesVars
    <3> QED  BY <2>7, <2>8, <2>10, <2>11, <3>1
  <2>16. Underway'
    BY <2>7, <2>12, <2>13, <2>14, <2>15 DEF Underway
  <2> QED  BY <2>1, <2>16, BuildKeeps
<1> QED  BY <1>1, <1>2

(* Reading the schema of one more tag.                                     *)
LEMMA ReadMappedKeeps ==
    ASSUME StartupInv, NEW tag, ReadMapped(tag)
    PROVE  StartupInv'
<1> DEFINE v == build.cfg
           content == disk[build.cfg.schema_map[tag]]
           map == Insert(build.map, tag, content)
<1>1. CASE ~Readable(content)
  BY <1>1, BuildFailsKeeps DEF ReadMapped
<1>2. CASE Readable(content)
  <2>1. /\ Building /\ tag \in MappedTags(v)
        /\ build' = [build EXCEPT !.map = map]
        /\ UNCHANGED <<filesVars, fs, main, cfg, live, stats, faults>>
    BY <1>2 DEF ReadMapped
  <2>2. /\ build = [cfg |-> build.cfg, scan |-> build.scan, map |-> build.map]
        /\ build.scan \in Seq(Contents) /\ Len(build.scan) \leq Len(v.schemas)
        /\ build.map \in [DOMAIN build.map -> Contents] /\ DOMAIN build.map \subseteq MappedTags(v)
        /\ disk \in [SchemaPaths -> Contents]
    BY <2>1 DEF StartupInv, Underway, Configured
  <2>3. PICK f \in Files : Loads(f) /\ v = Loaded(f).validation
    BY <2>1 DEF StartupInv, Underway
  <2>4. content \in Contents
    <3>1. tag \in DOMAIN v.schema_map /\ v.schema_map[tag] \in SchemaPaths
      BY <2>1, <2>3, LoadedFile
    <3> QED  BY <2>2, <3>1
  <2>5. /\ build' = [cfg |-> build'.cfg, scan |-> build'.scan, map |-> build'.map]
        /\ build'.cfg = v /\ build'.scan = build.scan /\ build'.map = map
    <3>1. build' = [cfg |-> v, scan |-> build.scan, map |-> map]
      BY <2>1, <2>2, BuildUpdates
    <3> QED  BY <3>1
  <2> HIDE DEF v, content
  <2>6. /\ DOMAIN map = DOMAIN build.map \cup {tag} /\ map \in [DOMAIN map -> Contents]
        /\ \A t \in DOMAIN map : map[t] = IF t = tag THEN content ELSE build.map[t]
    BY <2>2, <2>4 DEF Insert
  <2> HIDE DEF map
  <2>7. file' = file /\ disk' = disk /\ touched' = touched
    BY <2>1 DEF filesVars
  <2>8. ASSUME ~touched
        PROVE  /\ v = Loaded(file).validation
               /\ \A i \in 1..Len(build.scan) : build.scan[i] = disk[v.schemas[i]]
               /\ \A t \in DOMAIN map : map[t] = disk[v.schema_map[t]]
    <3>1. /\ v = Loaded(file).validation
          /\ \A i \in 1..Len(build.scan) : build.scan[i] = disk[v.schemas[i]]
          /\ \A t \in DOMAIN build.map : build.map[t] = disk[v.schema_map[t]]
      BY <2>1, <2>8 DEF StartupInv, Underway, v
    <3>2. content = disk[v.schema_map[tag]]
      BY DEF content, v
    <3> QED  BY <2>6, <3>1, <3>2
  <2>9. DOMAIN map \subseteq MappedTags(v)
    BY <2>1, <2>2, <2>6
  <2>10. \E g \in Files : Loads(g) /\ build'.cfg = Loaded(g).validation
    BY <2>3, <2>5
  <2>11. Underway'
    BY <2>2, <2>5, <2>6, <2>7, <2>8, <2>9, <2>10 DEF Underway
  <2> QED  BY <2>1, <2>11, BuildKeeps
<1> QED  BY <1>1, <1>2

(* A finished build is complete, and is what the files say unless one of   *)
(* them was edited meanwhile.                                              *)
LEMMA FinishedBuild ==
    ASSUME StartupInv, Building, ScanCompiles, DOMAIN build.map = MappedTags(build.cfg),
           \A tag \in DOMAIN build.map : Compiles(build.map[tag])
    PROVE  /\ Complete(NewValidator(build.cfg, build.scan, build.map))
           /\ ~touched => NewValidator(build.cfg, build.scan, build.map)
                             = OnDisk(Loaded(file).validation, disk)
<1> DEFINE v == build.cfg
           l == NewValidator(build.cfg, build.scan, build.map)
<1>1. PICK f \in Files : Loads(f) /\ v = Loaded(f).validation
  BY DEF StartupInv, Underway
<1>2. /\ build.scan \in Seq(Contents) /\ Len(build.scan) = Len(v.schemas)
      /\ build.map \in [DOMAIN build.map -> Contents]
      /\ v.schemas \in Seq(SchemaPaths)
  BY <1>1, LoadedFile DEF StartupInv, Underway, ScanCompiles, Scanned
<1>3. l.scan = build.scan /\ l.map = build.map
  BY DEF NewValidator
<1>4. \A c \in Range(l.scan) \cup Range(l.map) : Compiles(c)
  BY <1>3 DEF Range, ScanCompiles
<1>5. Complete(l)
  <2>1. l = NewValidator(v, l.scan, l.map)
    BY <1>3
  <2> HIDE DEF l
  <2> QED  BY <1>1, <1>2, <1>3, <1>4, <2>1 DEF Complete
<1>6. ASSUME ~touched PROVE l = OnDisk(Loaded(file).validation, disk)
  <2>1. /\ v = Loaded(file).validation
        /\ \A i \in 1..Len(build.scan) : build.scan[i] = disk[v.schemas[i]]
        /\ \A t \in DOMAIN build.map : build.map[t] = disk[v.schema_map[t]]
    BY <1>6 DEF StartupInv, Underway
  <2> HIDE DEF v
  <2>2. build.scan = [i \in DOMAIN v.schemas |-> disk[v.schemas[i]]]
    <3>1. build.scan \in [1..Len(build.scan) -> Contents] /\ DOMAIN v.schemas = 1..Len(build.scan)
      BY <1>2, LenProperties DEF v
    <3> QED  BY <2>1, <3>1
  <2>3. build.map = [t \in MappedTags(v) |-> disk[v.schema_map[t]]]
    BY <1>2, <2>1 DEF v
  <2> QED  BY <2>1, <2>2, <2>3 DEF OnDisk, v
<1> QED  BY <1>5, <1>6

(* Publishing a finished build, or failing to compile the map.             *)
LEMMA FinishBuildKeeps ==
    ASSUME StartupInv, FinishBuild
    PROVE  StartupInv'
<1>1. CASE ~\A tag \in DOMAIN build.map : Compiles(build.map[tag])
  BY <1>1, BuildFailsKeeps DEF FinishBuild
<1>2. CASE \A tag \in DOMAIN build.map : Compiles(build.map[tag])
  <2>1. /\ Building /\ live' = NewValidator(build.cfg, build.scan, build.map)
        /\ main' = (IF main = "build" THEN "forwarder" ELSE "signals")
        /\ UNCHANGED <<filesVars, fs, cfg, stats, faults>>
    BY <1>2 DEF FinishBuild
  <2>2. Complete(live')
    BY <1>2, <2>1, FinishedBuild DEF FinishBuild
  <2>3. /\ main' \in {"forwarder", "signals"} /\ Alive /\ Alive' /\ main # "load"
        /\ ~Building' /\ (Serving' => Serving)
    BY <2>1 DEF Building, Alive, Serving
  <2>4. Configured'
    BY <2>1, <2>3 DEF StartupInv, Configured, filesVars
  <2>5. Reachable'
    BY <2>1, <2>3 DEF StartupInv, Reachable, ListensAsConfigured, Listen, Stats
  <2>6. Underway' /\ Installed'
    BY <2>2, <2>3 DEF Underway, Installed, Complete
  <2> QED  BY <2>4, <2>5, <2>6 DEF StartupInv
<1> QED  BY <1>1, <1>2

(* The forwarder is made and the stats task starts if it is configured.    *)
LEMMA MakeForwarderKeeps ==
    ASSUME StartupInv, MakeForwarder
    PROVE  StartupInv'
<1>1. /\ main = "forwarder" /\ main' = "exists" /\ UNCHANGED <<file, disk, touched, fs, cfg, build, live>>
      /\ stats' # "off" => cfg.metrics.enabled
  BY DEF MakeForwarder, filesVars
<1>2. Alive /\ Alive' /\ ~Serving' /\ ~Building'
  BY <1>1 DEF Alive, Serving, Building
<1> QED  BY <1>1, <1>2 DEF StartupInv, Configured, Reachable, Underway, Installed, ListensAsConfigured, Complete

(* Making way for the socket, binding it and giving it its mode.           *)
LEMMA SocketKeeps ==
    ASSUME StartupInv, RemoveStale \/ Bind \/ ApplySocketPermissions
    PROVE  StartupInv'
<1>1. /\ file' = file /\ disk' = disk /\ touched' = touched /\ file \in Files
      /\ disk \in [SchemaPaths -> Contents] /\ DOMAIN fs = Paths
      /\ main \in {"unlink", "bind", "chmod"}
  BY DEF RemoveStale, Bind, ApplySocketPermissions, filesVars, StartupInv, Configured
<1>2. CASE Exit("failed")
  BY <1>1, <1>2, ExitKeeps
<1>3. CASE ~Exit("failed")
  <2>1. /\ UNCHANGED <<cfg, build, live, stats>> /\ main' \in {"bind", "chmod", "signals"}
        /\ Alive /\ Alive' /\ ~Building' /\ DOMAIN fs' = Paths
    BY <1>1, <1>3 DEF RemoveStale, Bind, ApplySocketPermissions, Alive, Building
  <2>2. PICK f \in Files : Loads(f) /\ cfg = Loaded(f)
    BY <1>1, <2>1 DEF StartupInv, Configured
  <2>3. Listen \in Paths /\ AppliedMode(cfg.daemon.socket_mode) = OctalMode(cfg.daemon.socket_mode)
    BY <2>2, LoadedFile DEF Listen
  <2>4. main' = "chmod" => fs'[Listen] = Bound("listener")
    BY <1>1, <1>3, <2>3 DEF RemoveStale, Bind, ApplySocketPermissions
  <2>5. main' = "signals" /\ Apart => fs'[Listen] = [by |-> "listener", mode |-> OctalMode(cfg.daemon.socket_mode)]
    <3>1. SUFFICES ASSUME main' = "signals", Apart PROVE fs'[Listen] = [by |-> "listener", mode |-> OctalMode(cfg.daemon.socket_mode)]
      OBVIOUS
    <3>2. /\ main = "chmod"
          /\ fs' = [fs EXCEPT ![Listen] = [fs[Listen] EXCEPT !.mode = AppliedMode(cfg.daemon.socket_mode)]]
      BY <1>3, <3>1 DEF RemoveStale, Bind, ApplySocketPermissions
    <3>3. fs[Listen] = [by |-> "listener", mode |-> 0]
      BY <3>1, <3>2 DEF StartupInv, Reachable, Bound
    <3>4. [[by |-> "listener", mode |-> 0] EXCEPT !.mode = OctalMode(cfg.daemon.socket_mode)]
             = [by |-> "listener", mode |-> OctalMode(cfg.daemon.socket_mode)]
      OBVIOUS
    <3>5. fs'[Listen] = [fs[Listen] EXCEPT !.mode = AppliedMode(cfg.daemon.socket_mode)]
      BY <1>1, <2>3, <3>2
    <3> QED  BY <2>3, <3>3, <3>4, <3>5
  <2>6. Reachable'
    <3>1. Listen' = Listen /\ Stats' = Stats /\ Apart' = Apart /\ (Serving' => main' = "signals")
      BY <2>1 DEF Listen, Stats, Apart, Serving
    <3> QED  BY <1>1, <2>1, <2>4, <2>5, <3>1 DEF StartupInv, Reachable, ListensAsConfigured, Apart
  <2>7. Configured'
    BY <1>1, <2>1, <2>2 DEF Configured
  <2>8. Underway' /\ Installed'
    BY <1>1, <2>1 DEF StartupInv, Underway, Installed, Complete
  <2> QED  BY <2>6, <2>7, <2>8 DEF StartupInv
<1> QED  BY <1>2, <1>3

(* The stats task touches no socket file but its own.                      *)
LEMMA StatsKeeps ==
    ASSUME StartupInv, StatsTask
    PROVE  StartupInv'
<1>1. /\ UNCHANGED <<file, disk, touched, main, cfg, build, live>> /\ stats # "off"
      /\ \/ fs' = [fs EXCEPT ![Stats] = NoFile] \/ fs' = [fs EXCEPT ![Stats] = Bound("stats")]
         \/ fs' = fs
  BY DEF StatsTask, StatsRemove, StatsBind, StatsClose, Unlinked, filesVars
<1>2. DOMAIN fs = Paths /\ DOMAIN fs' = Paths /\ cfg.metrics.enabled /\ Alive /\ main # "load"
  BY <1>1 DEF StartupInv, Configured, Reachable
<1>3. PICK f \in Files : Loads(f) /\ cfg = Loaded(f)
  BY <1>2 DEF StartupInv, Configured
<1>4. Listen \in Paths
  BY <1>3, LoadedFile DEF Listen
<1>5. Apart => fs'[Listen] = fs[Listen]
  BY <1>1, <1>2, <1>4 DEF Apart
<1>6. /\ Listen' = Listen /\ Stats' = Stats /\ Apart' = Apart /\ Alive' = Alive
      /\ Serving' = Serving /\ Building' = Building
  BY <1>1 DEF Listen, Stats, Apart, Alive, Serving, Building
<1>7. Configured'
  BY <1>1, <1>2, <1>3 DEF StartupInv, Configured
<1>8. Reachable'
  BY <1>1, <1>2, <1>5, <1>6 DEF StartupInv, Reachable, ListensAsConfigured, Apart
<1>9. Underway' /\ Installed'
  BY <1>1, <1>6 DEF StartupInv, Underway, Installed, Complete
<1> QED  BY <1>7, <1>8, <1>9 DEF StartupInv

(* An edit while a build is under way is remembered.                       *)
LEMMA EditKeeps ==
    ASSUME StartupInv, EditConfig \/ \E path \in SchemaPaths : EditSchema(path)
    PROVE  StartupInv'
<1>1. /\ UNCHANGED <<fs, main, cfg, build, live, stats>> /\ touched' = TRUE
      /\ file' \in Files /\ disk' \in [SchemaPaths -> Contents]
  <2>1. file \in Files /\ disk \in [SchemaPaths -> Contents]
    BY DEF StartupInv, Configured
  <2> QED  BY <2>1 DEF EditConfig, EditSchema
<1>2. /\ Listen' = Listen /\ Stats' = Stats /\ Apart' = Apart /\ Alive' = Alive
      /\ Serving' = Serving /\ Building' = Building
  BY <1>1 DEF Listen, Stats, Apart, Alive, Serving, Building
<1>3. Configured' /\ Reachable' /\ Installed'
  BY <1>1, <1>2 DEF StartupInv, Configured, Reachable, Installed, ListensAsConfigured, Complete
<1>4. Underway'
  BY <1>1, <1>2 DEF StartupInv, Underway
<1> QED  BY <1>3, <1>4 DEF StartupInv

(* Every step keeps the inductive invariant.                               *)
LEMMA StartupInvStep == StartupInv /\ [StartupNext]_vars => StartupInv'
<1> SUFFICES ASSUME StartupInv, [StartupNext]_vars PROVE StartupInv'
  OBVIOUS
<1>0. file \in Files /\ disk \in [SchemaPaths -> Contents]
  BY DEF StartupInv, Configured
<1>1. CASE Start \/ StartAgain \/ PathExists \/ Terminate \/ UNCHANGED vars
  BY <1>1, MainMoves
<1>2. CASE LoadConfig \/ Hangup
  BY <1>2, LoadKeeps, HangupKeeps
<1>3. CASE ReadSchema \/ FinishBuild \/ MakeForwarder
  BY <1>3, ReadSchemaKeeps, FinishBuildKeeps, MakeForwarderKeeps
<1>4. CASE \E tag \in MappedTags(build.cfg) : ReadMapped(tag)
  BY <1>4, ReadMappedKeeps
<1>5. CASE ScanInvalid
  BY <1>5, BuildFailsKeeps DEF ScanInvalid
<1>6. CASE RemoveStale \/ Bind \/ ApplySocketPermissions
  BY <1>6, SocketKeeps
<1>7. CASE Finish \/ IoFailure \/ Crash
  BY <1>0, <1>7, ExitKeeps DEF Finish, IoFailure, Crash, filesVars
<1>8. CASE StatsTask
  BY <1>8, StatsKeeps
<1>9. CASE EditConfig \/ \E path \in SchemaPaths : EditSchema(path)
  BY <1>9, EditKeeps
<1> QED  BY <1>1, <1>2, <1>3, <1>4, <1>5, <1>6, <1>7, <1>8, <1>9 DEF StartupNext, Main

(* For all configuration files, schema files, paths and faults: a daemon   *)
(* that serves owns the socket at its configured path, with the configured *)
(* mode (Listener::bind, apply_socket_permissions), provided the stats     *)
(* socket has another path, and the validator in its watch channel is      *)
(* complete (build_validator, reload_validator).                           *)
THEOREM StartupSafe == StartupSpec => [](ListensAsConfigured /\ LiveIsComplete)
<1>1. StartupInit => StartupInv
  BY StartupInvInit
<1>2. StartupInv /\ [StartupNext]_vars => StartupInv'
  BY StartupInvStep
<1>3. StartupInv => ListensAsConfigured /\ LiveIsComplete
  BY DEF StartupInv, Reachable, Installed, Complete, LiveIsComplete, Serving
<1> QED  BY <1>1, <1>2, <1>3, PTL DEF StartupSpec

(* A step that puts another validator into the watch channel.              *)
LEMMA Published ==
    ASSUME StartupInv, [StartupNext]_vars, live' \notin {live, NoValidator}, ~touched
    PROVE  live' = OnDisk(Loaded(file).validation, disk)
<1>1. FinishBuild /\ ~BuildFails
  <2>1. ASSUME NEW how, Exit(how) PROVE FALSE
    BY <2>1 DEF Exit
  <2>2. ~BuildFails
    BY <2>1 DEF BuildFails
  <2> QED
    BY Zenon, <2>1, <2>2 DEF StartupNext, Main, StatsTask, LoadConfig, ReadSchema, ScanInvalid,
       ReadMapped, MakeForwarder, PathExists, RemoveStale, Bind, ApplySocketPermissions, Finish, StatsRemove,
       StatsBind, StatsClose, Start, StartAgain, Hangup, Terminate, EditConfig, EditSchema, IoFailure,
       Crash, vars
<1>2. /\ Building /\ ScanCompiles /\ DOMAIN build.map = MappedTags(build.cfg)
      /\ \A tag \in DOMAIN build.map : Compiles(build.map[tag])
      /\ live' = NewValidator(build.cfg, build.scan, build.map)
  BY <1>1 DEF FinishBuild
<1> QED  BY <1>2, FinishedBuild

(* A start or SIGHUP that no edit overlaps installs what the files on disk *)
(* say, all of it and nothing older.                                       *)
THEOREM ReloadFaithful == StartupSpec => InstallsWhatIsOnDisk
<1>1. StartupInit => StartupInv
  BY StartupInvInit
<1>2. StartupInv /\ [StartupNext]_vars => StartupInv'
  BY StartupInvStep
<1>3. StartupInv /\ [StartupNext]_vars
        => [live' \notin {live, NoValidator} /\ ~touched
              => live' = OnDisk(Loaded(file).validation, disk)]_vars
  BY Published
<1> QED  BY <1>1, <1>2, <1>3, PTL DEF StartupSpec, InstallsWhatIsOnDisk

=============================================================================
