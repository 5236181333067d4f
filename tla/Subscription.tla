---------------------------- MODULE Subscription ----------------------------
(***************************************************************************)
(* From a configuration to a live Endpoint Security client: validation,    *)
(* the list of events, the muted path prefixes, es_subscribe.  The main    *)
(* thread does this while the writer thread, which was started before,     *)
(* opens the store and so creates its directory: which prefix is muted for *)
(* the store depends on the directories that exist when it is computed.    *)
(*                                                                         *)
(* A path is [absolute, parts].  The file system has directories, named by *)
(* their real paths, and symbolic links in the root only (as macOS has for *)
(* /tmp, /var and /etc); Endpoint Security reports real paths.             *)
(***************************************************************************)
EXTENDS Events, FiniteSets, SequencesExt

CONSTANTS
    Config,        \* the configurations: events, store and mute sections
    Cwd,           \* the working directory, a real path
    Link,          \* the links in the root: name |-> real path
    Directories,   \* the directories at the start, real paths
    ClientFaults   \* the calls that may fail: new, mute, subscribe

VARIABLES
    config,    \* the configuration file
    phase,     \* how far the main thread is
    raw,       \* the names in the file that are still to resolve
    names,     \* the resolved event names
    toMute,    \* the prefixes still to mute
    muted,     \* the prefixes the client has muted
    types,     \* the event types the client is subscribed to
    dirs,      \* the directories that exist
    writer     \* has the writer thread opened the store?

setupVars == <<config, phase, raw, names, toMute, muted, types, dirs, writer>>

Groups(c) == c.process \o c.file \o c.network

PathType == Seq(STRING)

ASSUME ConfigAssumption ==
    \A c \in Config :
        /\ c.batchSize \in Nat
        /\ c.path.absolute \in BOOLEAN /\ c.path.parts \in PathType
        /\ c.mutes \in Seq(PathType)
        /\ \A group \in {c.process, c.file, c.network} : group \in Seq(STRING)

\* A link leads to a directory that exists, by its real path.
ASSUME FileSystemAssumption ==
    /\ Directories \subseteq PathType /\ Cwd \in Directories
    /\ << >> \in Directories
    /\ \A d \in Directories \ {<< >>} : Front(d) \in Directories /\ d[1] \notin DOMAIN Link
    /\ \A name \in DOMAIN Link : Link[name] \in Directories
    /\ ClientFaults \subseteq {"new", "mute", "subscribe"}

SetupInit ==
    /\ config \in Config
    /\ phase = "loading"
    /\ raw = << >>
    /\ names = << >>
    /\ toMute = << >>
    /\ muted = {}
    /\ types = {}
    /\ dirs = Directories
    /\ writer = FALSE

-----------------------------------------------------------------------------
(* Which events. *)

\* resolved_event_names returns at the first name that is unknown ...
Unknown(rs) == \E i \in DOMAIN rs : rs[i] \notin AllNames

\* Slips: the name stays what it is in the file; a name given twice is taken
\* twice.
ResolvedNot(out, r) == IF Contains(out, r) THEN out ELSE Append(out, r)
ResolvedAgain(out, r) == Append(out, FromStr[r])

\* ... and takes a name where it is first mentioned.
Resolved(out, r) ==
    IF Contains(out, FromStr[r]) THEN out ELSE Append(out, FromStr[r])

\* Config::validate.
Valid(c) ==
    /\ c.batchSize > 0
    /\ c.path.parts # << >> \/ c.path.absolute
    /\ ~Unknown(Groups(c))

-----------------------------------------------------------------------------
(* Which prefix is muted for the store. *)

\* The real path that a path (absolute, as a sequence of names) leads to.
Real(p) ==
    IF p # << >> /\ p[1] \in DOMAIN Link THEN Link[p[1]] \o Tail(p) ELSE p

Exists(p) == Real(p) \in dirs

\* Path::parent of the store path, joined to the working directory.
HasDirectory(path) == Len(path.parts) > 1 \/ (path.absolute /\ path.parts # << >>)
StoreDirectory(path) == (IF path.absolute THEN << >> ELSE Cwd) \o Front(path.parts)

\* Slip: what is written in the configuration is muted.
AsWritten(p) == p

\* canonicalize_prefix: a last name that is missing is put after its parent.
CanonicalizePrefix(p) ==
    IF Exists(p) THEN Real(p)
    ELSE IF p # << >> /\ Exists(Front(p)) THEN Append(Real(Front(p)), Last(p))
    ELSE p

\* store_mute_prefix, if the path has a directory: a bare file name has not.
StoreMutePrefix == CanonicalizePrefix(StoreDirectory(config.path))

-----------------------------------------------------------------------------
(* The main thread. *)

\* Config::from_file ends the program on a configuration that is not valid.
LoadConfig ==
    /\ phase = "loading"
    /\ phase' = IF Valid(config) THEN "starting" ELSE "failed"
    /\ raw' = IF Valid(config) THEN Groups(config) ELSE << >>
    /\ UNCHANGED <<config, names, toMute, muted, types, dirs, writer>>

\* run_collector resolves the names again, one by one ...
ResolveName ==
    /\ phase = "starting"
    /\ raw # << >>
    /\ raw' = Tail(raw)
    /\ names' = Resolved(names, Head(raw))
    /\ UNCHANGED <<config, phase, toMute, muted, types, dirs, writer>>

\* ... and makes a client.
CreateClient ==
    /\ phase = "starting"
    /\ raw = << >>
    /\ \/ phase' = "client"
       \/ "new" \in ClientFaults /\ phase' = "failed"
    /\ UNCHANGED <<config, raw, names, toMute, muted, types, dirs, writer>>

\* apply_path_mutes decides on the prefixes: those of the file, and the one of
\* the store if it is not among them ...
ChooseMutes ==
    /\ phase = "client"
    /\ phase' = "muting"
    /\ toMute' = IF HasDirectory(config.path) /\ ~Contains(config.mutes, StoreMutePrefix)
                 THEN Append(config.mutes, StoreMutePrefix)
                 ELSE config.mutes
    /\ UNCHANGED <<config, raw, names, muted, types, dirs, writer>>

\* A client that is dropped takes its mutes along.
SetupFails ==
    /\ phase' = "failed"
    /\ muted' = {}
    /\ toMute' = << >>
    /\ UNCHANGED <<config, raw, names, types, dirs, writer>>

\* ... and mutes them one by one; a refusal is the end.
MutePath ==
    /\ phase = "muting"
    /\ toMute # << >>
    /\ \/ /\ muted' = muted \cup {Head(toMute)}
          /\ toMute' = Tail(toMute)
          /\ UNCHANGED <<config, phase, raw, names, types, dirs, writer>>
       \/ "mute" \in ClientFaults /\ SetupFails

Subscribe ==
    /\ phase = "muting"
    /\ toMute = << >>
    /\ \/ /\ phase' = "active"
          /\ types' = {EsType[names[i]] : i \in DOMAIN names}
          /\ UNCHANGED <<config, raw, names, toMute, muted, dirs, writer>>
       \/ "subscribe" \in ClientFaults /\ SetupFails

\* The writer thread, started once the configuration is loaded and whatever
\* becomes of the collector: GraphStore::open creates the directories on the way.
WriterOpensStore ==
    /\ phase # "loading" /\ Valid(config)
    /\ ~writer
    /\ writer' = TRUE
    /\ dirs' = dirs \cup
           IF HasDirectory(config.path)
           THEN LET d == Real(StoreDirectory(config.path))
                IN  {SubSeq(d, 1, n) : n \in 0 .. Len(d)}
           ELSE {}
    /\ UNCHANGED <<config, phase, raw, names, toMute, muted, types>>

SetupNext ==
    \/ LoadConfig
    \/ ResolveName
    \/ CreateClient
    \/ ChooseMutes
    \/ MutePath
    \/ Subscribe
    \/ WriterOpensStore

-----------------------------------------------------------------------------
(* What a client that receives events was set up with. *)

Active == phase = "active"

\* The names are those of the three groups, in order, each where it is first
\* mentioned.
ResolvedAsDocumented(ns, rs) ==
    /\ ToSet(ns) = {FromStr[rs[i]] : i \in DOMAIN rs}
    /\ \A i, j \in DOMAIN ns : i < j =>
           /\ ns[i] # ns[j]
           /\ \E k \in DOMAIN rs :
                  /\ FromStr[rs[k]] = ns[i]
                  /\ \A l \in 1 .. k : FromStr[rs[l]] # ns[j]

\* No event reaches the writer that the configuration does not name, and none
\* is delivered under a configuration with a mistake in it.
SubscribedAsConfigured ==
    Active =>
        /\ ~Unknown(Groups(config))
        /\ ResolvedAsDocumented(names, Groups(config))
        /\ {EventNameOf[t] : t \in types} = ToSet(Groups(config))

\* The directory of the store, by the path under which it will be reported.
StorePrefix == Real(StoreDirectory(config.path))

IsMuted(p) == \E m \in muted : IsPrefix(m, p)

\* The store's own directory is muted before the first event, whichever thread
\* is first, if it has no link on its way or at most its last name is missing.
StoreIsMuted ==
    /\ Active
    /\ HasDirectory(config.path)
    /\ \/ StorePrefix = StoreDirectory(config.path)
       \/ {StorePrefix, Front(StorePrefix)} \cap Directories # {}
    => IsMuted(StorePrefix)

-----------------------------------------------------------------------------
(* Claims of the repository's documents that the code does not keep. *)

\* "The store directory ([store].path parent, ...) is always muted at subscribe
\* time so esgraphd does not ingest its own LadybugDB writes".
StoreAlwaysMuted == Active => IsMuted(StorePrefix)
=============================================================================
