------------------------------ MODULE Artifacts ------------------------------
(***************************************************************************)
(* Model artifacts (artifact/*.py): a model directory is packed into a     *)
(* .lma file, which the server extracts into a cache directory when it     *)
(* scans its repository (ModelManager._scan_artifact_models), loads        *)
(* versions from, and purges with the last version that is unloaded.       *)
(* delete_version and set_version_config change the directory in the cache *)
(* too, never the artifact.                                                *)
(*                                                                         *)
(* Several threads and processes scan the repository; nothing locks the    *)
(* cache.  The contents of a version's files are taken as one file, an     *)
(* edition of it; its checksum is taken as the edition itself.             *)
(***************************************************************************)
EXTENDS Naturals, Sequences, SequencesExt

CONSTANTS
    Files,      \* the versions of the model, as a sequence in path order
    Keys,       \* build ids, and so the names of the cache's directories
    Scanners,   \* threads and processes that scan the repository
    Main,       \* those in the main process, whose scans tell it the path
    NoKey,
    MaxEdits,   \* bound: edits of a version; none once a version has had as many
    MaxEvents   \* bound: artifacts packed, crashes, deletions and configurations

Versions == Range(Files)

ASSUME ArtifactsAssumption ==
    /\ Files \in Seq(Versions) /\ IsInjective(Files)
    /\ Main \subseteq Scanners /\ NoKey \notin Keys
    /\ {MaxEdits, MaxEvents} \subseteq Nat

\* Editions of a version; None where there is no file, Part for a file that a
\* crash or an error has cut off, Edited for one whose config.yaml an operator has
\* written.
Editions == 0 .. MaxEdits
None == MaxEdits + 1
Part == MaxEdits + 2
Edited == MaxEdits + 3

VARIABLES
    tree,       \* model directory: edition of every version
    packer,     \* the pack command: "idle", "hashed" or "packed"
    draft,      \* its manifest: key and checksums
    lma,        \* the file in the repository: key, checksums, contents
    cache,      \* per key: what is extracted
    exists,     \* keys whose model directory exists in the cache
    path,       \* _artifact_model_paths: key of the directory
    scan,       \* per scanner: its position
    job,        \* per scanner: key and files still to be written
    listed,     \* per scanner: the versions its last scan has found
    loading,    \* per version: the key to which its load has resolved the path
    loaded,     \* registry: edition of the loaded versions
    deleting,   \* versions whose delete_version is about to remove the directory
    events,     \* bound
    hashed,     \* history: the manifests that pack has computed
    altered,    \* history: <<key, version>> deleted or configured since the extraction
    disturbed   \* history: see Disturb

packVars  == <<tree, packer, draft, hashed>>
cacheVars == <<cache, exists, altered>>
scanVars  == <<scan, job, listed>>
loadVars  == <<path, loading, loaded, deleting>>
artifactVars == <<packVars, lma, cacheVars, scanVars, loadVars, events, disturbed>>

-----------------------------------------------------------------------------
Nothing == [v \in Versions |-> None]

NoLoads == [v \in Versions |-> NoKey]

NoDraft == [key |-> NoKey, sums |-> Nothing]

NoLma == [key |-> NoKey, sums |-> Nothing, contents |-> Nothing]

ArtifactsInit ==
    /\ tree = [v \in Versions |-> 0]
    /\ packer = "idle" /\ draft = NoDraft /\ hashed = {}
    /\ lma = NoLma
    /\ cache = [k \in Keys |-> Nothing] /\ exists = {}
    /\ path = NoKey
    /\ scan = [t \in Scanners |-> "idle"]
    /\ job = [t \in Scanners |-> [key |-> NoKey, todo |-> <<>>]]
    /\ listed = [t \in Scanners |-> {}]
    /\ loading = NoLoads /\ loaded = Nothing /\ deleting = {}
    /\ events = 0 /\ altered = {} /\ disturbed = FALSE

Scanning == {t \in Scanners : scan[t] # "idle"}

Extracting == {t \in Scanners : scan[t] \in {"clear", "write"}}

\* Once an extraction or a load has been overtaken by another extraction, by a
\* purge, by a deletion, by a new artifact or by a crash, little is certain.
Disturb(when) == disturbed' = (disturbed \/ when)

-----------------------------------------------------------------------------
(* ModelPacker                                                             *)

Edit(v) ==
    /\ \A u \in Versions : tree[u] < MaxEdits
    /\ tree' = [tree EXCEPT ![v] = @ + 1]
    /\ UNCHANGED <<packer, draft, hashed, lma, cacheVars, scanVars, loadVars, events, disturbed>>

\* pack: the files are gathered and their checksums computed.  The build id is
\* given, or the date and the commit.
Hash(k) ==
    /\ packer # "hashed" /\ events < MaxEvents
    /\ events' = events + 1
    /\ draft' = [key |-> k, sums |-> tree]
    /\ hashed' = hashed \cup {draft'}
    /\ packer' = "hashed"
    /\ UNCHANGED <<tree, lma, cacheVars, scanVars, loadVars, disturbed>>

\* Then they are read again and written; the file is put into the repository.
\* sign writes it once more.
Pack ==
    /\ packer \in {"hashed", "packed"}
    /\ packer' = "packed"
    /\ lma' = [key |-> draft.key, sums |-> draft.sums, contents |-> tree]
    /\ Disturb(lma' # lma /\ Extracting # {})
    /\ UNCHANGED <<tree, draft, hashed, cacheVars, scanVars, loadVars, events>>

-----------------------------------------------------------------------------
(* ArtifactCache.get_or_extract, in a scan of the repository               *)

\* Variant with a bug: checksums are not compared.
Corrupted_Never == lma.key = NoKey

\* validate: there is a file, and its contents have their checksums.
Corrupted == lma.key = NoKey \/ lma.sums # lma.contents

\* An artifact that is missing or corrupted is not listed.  A directory that
\* exists is taken as it is; otherwise the artifact is extracted.
Validate(t) ==
    /\ scan[t] = "idle"
    /\ IF Corrupted
       THEN /\ listed' = [listed EXCEPT ![t] = {}]
            /\ UNCHANGED <<scan, job, disturbed>>
       ELSE /\ scan' = [scan EXCEPT ![t] = IF lma.key \in exists THEN "list" ELSE "clear"]
            /\ job' = [job EXCEPT ![t] = [key |-> lma.key, todo |-> Files]]
            /\ Disturb(IF lma.key \in exists THEN Extracting # {} ELSE Scanning # {})
            /\ UNCHANGED listed
    /\ UNCHANGED <<packVars, lma, cacheVars, loadVars, events>>

\* unpack: a model directory that exists by now is removed.
Clear(t) ==
    LET k == job[t].key IN
    /\ scan[t] = "clear"
    /\ exists' = exists \ {k}
    /\ cache' = [cache EXCEPT ![k] = Nothing]
    /\ altered' = {a \in altered : a[1] # k}
    /\ scan' = [scan EXCEPT ![t] = "write"]
    /\ UNCHANGED <<packVars, lma, job, listed, loadVars, events, disturbed>>

\* unpack: the next file of the manifest is read from the artifact, as it is
\* now, and written.
Write(t) ==
    LET k == job[t].key
        v == Head(job[t].todo)
    IN
    /\ scan[t] = "write" /\ job[t].todo # <<>>
    /\ exists' = exists \cup {k}
    /\ cache' = [cache EXCEPT ![k][v] = lma.contents[v]]
    /\ job' = [job EXCEPT ![t].todo = Tail(@)]
    /\ UNCHANGED <<packVars, lma, altered, scan, listed, loadVars, events, disturbed>>

\* The path becomes known, and the versions of the directory are listed.
ListModel(t) ==
    LET k == job[t].key IN
    /\ scan[t] = "list" \/ (scan[t] = "write" /\ job[t].todo = <<>>)
    /\ path' = IF t \in Main THEN k ELSE path
    /\ listed' = [listed EXCEPT ![t] = {v \in Versions : cache[k][v] # None}]
    /\ scan' = [scan EXCEPT ![t] = "idle"]
    /\ job' = [job EXCEPT ![t] = [key |-> NoKey, todo |-> <<>>]]
    /\ UNCHANGED <<packVars, lma, cacheVars, loading, loaded, deleting, events, disturbed>>

\* An operation on a file raises (another extraction or a purge beside this one,
\* a full disk): the artifact is not listed, what is extracted so far stays.
ScanFails(t) ==
    /\ t \in Extracting
    /\ listed' = [listed EXCEPT ![t] = {}]
    /\ scan' = [scan EXCEPT ![t] = "idle"]
    /\ job' = [job EXCEPT ![t] = [key |-> NoKey, todo |-> <<>>]]
    /\ Disturb(TRUE)
    /\ UNCHANGED <<packVars, lma, cacheVars, loadVars, events>>

-----------------------------------------------------------------------------
(* ModelManager.load, unload, delete_version and set_version_config        *)

\* load: the path is resolved, and the version's directory exists.
Resolve(v) ==
    /\ loading[v] = NoKey /\ loaded[v] = None
    /\ path # NoKey /\ path \in exists /\ cache[path][v] # None
    /\ loading' = [loading EXCEPT ![v] = path]
    /\ UNCHANGED <<packVars, lma, cacheVars, scanVars, path, loaded, deleting, events, disturbed>>

\* load: the version's code is read and the version is registered, unless its
\* directory has gone.
Register(v) ==
    /\ loading[v] # NoKey
    /\ loading' = [loading EXCEPT ![v] = NoKey]
    /\ loaded' = [loaded EXCEPT ![v] = cache[loading[v]][v]]
    /\ UNCHANGED <<packVars, lma, cacheVars, scanVars, path, deleting, events, disturbed>>

\* purge: the model's directories are removed.  A purge that nothing runs into
\* undoes what was disturbed before; the lists of earlier scans are forgotten.
Purge ==
    /\ listed' = [t \in Scanners |-> {}]
    /\ path' = NoKey /\ exists' = {} /\ cache' = [k \in Keys |-> Nothing]
    /\ altered' = {}
    /\ disturbed' = (Scanning # {} \/ loading # NoLoads)

\* The key of the version is in _workers: while it is loaded, and from the start of
\* its load until an unload takes it out (which the model may do more than once).
InWorkers(v) == loaded[v] # None \/ loading[v] # NoKey

\* Variant with a bug: the cache is purged with every version.
Unload_PurgesAlways(v) ==
    /\ loaded' = [loaded EXCEPT ![v] = None]
    /\ Purge

\* _unload_version: with the last version in the registry the model's directories
\* are purged, also if others are still being loaded.
Unload(v) ==
    /\ loaded' = [loaded EXCEPT ![v] = None]
    /\ IF path # NoKey /\ loaded' = Nothing THEN Purge
       ELSE UNCHANGED <<path, cacheVars, listed, disturbed>>

UnloadArtifact(v) ==
    /\ InWorkers(v)
    /\ Unload(v)
    /\ UNCHANGED <<packVars, lma, scan, job, loading, deleting, events>>

\* delete_version: the version is unloaded first.
DeleteVersion(v) ==
    /\ v \notin deleting /\ events < MaxEvents
    /\ events' = events + 1
    /\ deleting' = deleting \cup {v}
    /\ IF InWorkers(v) THEN Unload(v)
       ELSE UNCHANGED <<path, loaded, cacheVars, listed, disturbed>>
    /\ UNCHANGED <<packVars, lma, scan, job, loading>>

\* Then its directory is removed from the cache, or a part of it stays if that
\* fails.  The artifact keeps the version.  Once the cache is purged the path is
\* that of the repository, where there is nothing to remove.
RemoveVersion(v) ==
    /\ v \in deleting
    /\ deleting' = deleting \ {v}
    /\ IF path # NoKey /\ cache[path][v] # None
       THEN /\ \E rest \in {None, Part} : cache' = [cache EXCEPT ![path][v] = rest]
            /\ altered' = altered \cup {<<path, v>>}
            /\ Disturb(InWorkers(v))
       ELSE UNCHANGED <<cache, altered, disturbed>>
    /\ UNCHANGED <<packVars, lma, exists, scanVars, path, loading, loaded, events>>

\* set_version_config makes the directory if there is none; one that holds no more
\* than config.yaml is passed over by scans and loads.
SetVersionConfig(v) ==
    /\ path # NoKey /\ events < MaxEvents
    /\ events' = events + 1
    /\ exists' = exists \cup {path}
    /\ cache' = [cache EXCEPT ![path][v] = IF @ = None THEN None ELSE Edited]
    /\ altered' = altered \cup {<<path, v>>}
    /\ UNCHANGED <<packVars, lma, scanVars, loadVars, disturbed>>

\* The server is killed and started again: a file that was being written stays
\* cut off, and the cache as it is.
Crash ==
    LET cut == {t \in Scanners : scan[t] = "write" /\ job[t].todo # <<>>} IN
    /\ events < MaxEvents
    /\ events' = events + 1
    /\ scan' = [t \in Scanners |-> "idle"]
    /\ job' = [t \in Scanners |-> [key |-> NoKey, todo |-> <<>>]]
    /\ listed' = [t \in Scanners |-> {}]
    /\ path' = NoKey /\ loading' = NoLoads /\ loaded' = Nothing /\ deleting' = {}
    /\ \E S \in SUBSET cut :
          /\ exists' = exists \cup {job[t].key : t \in S}
          /\ cache' = [k \in Keys |-> [v \in Versions |->
                         IF \E t \in S : job[t].key = k /\ Head(job[t].todo) = v
                         THEN Part ELSE cache[k][v]]]
    /\ Disturb(Extracting # {})
    /\ UNCHANGED <<packVars, lma, altered>>

-----------------------------------------------------------------------------
ArtifactsNext ==
    \/ Pack \/ Crash
    \/ \E k \in Keys : Hash(k)
    \/ \E v \in Versions : \/ Edit(v) \/ Resolve(v) \/ Register(v) \/ UnloadArtifact(v)
                            \/ DeleteVersion(v) \/ RemoveVersion(v) \/ SetVersionConfig(v)
    \/ \E t \in Scanners : \/ Validate(t) \/ Clear(t) \/ Write(t)
                           \/ ListModel(t) \/ ScanFails(t)

ArtifactsSpec == ArtifactsInit /\ [][ArtifactsNext]_artifactVars

-----------------------------------------------------------------------------
(* Properties                                                              *)

ArtifactsTypeOK ==
    /\ tree \in [Versions -> Editions]
    /\ packer \in {"idle", "hashed", "packed"}
    /\ draft \in [key : Keys \cup {NoKey}, sums : [Versions -> Editions \cup {None}]]
    /\ hashed \subseteq [key : Keys, sums : [Versions -> Editions]]
    /\ cache \in [Keys -> [Versions -> Editions \cup {None, Part, Edited}]]
    /\ exists \subseteq Keys /\ altered \subseteq Keys \X Versions
    /\ path \in Keys \cup {NoKey}
    /\ scan \in [Scanners -> {"idle", "clear", "write", "list"}]
    /\ listed \in [Scanners -> SUBSET Versions]
    /\ loading \in [Versions -> Keys \cup {NoKey}]
    /\ loaded \in [Versions -> Editions \cup {None, Part, Edited}]
    /\ deleting \subseteq Versions

\* Versions in the cache that an operator has left alone since the extraction.
Genuine(k) == {v \in Versions : <<k, v>> \notin altered}

\* As long as nothing has come between an extraction, a load or a deletion and its
\* end, crashes and restarts included: a directory of the cache holds what one
\* manifest says, whole but for what an operator has deleted or configured in it,
\* though files change between their checksum and their archiving, and nothing
\* brings a deleted version back but the extraction of the whole; a scan that finds
\* the model finds all of its versions but those; and a loaded version stays in the
\* cache, for worker processes that are started anew (get_or_extract, unpack, unload,
\* delete_version, set_version_config).
CacheServesWhole ==
    ~disturbed =>
        /\ Extracting = {} =>
              \A k \in exists :
                 /\ \E m \in hashed : m.key = k /\ \A v \in Genuine(k) : cache[k][v] = m.sums[v]
                 /\ \A v \in Versions \ Genuine(k) : cache[k][v] \in {None, Part, Edited}
        /\ \A t \in Scanners : listed[t] # {} => \E k \in exists : Genuine(k) \subseteq listed[t]
        /\ \A v \in Versions : loaded[v] # None =>
              \E k \in exists : IF v \in Genuine(k) THEN cache[k][v] = loaded[v]
                                                  ELSE cache[k][v] # None
=============================================================================
