-------------------------------- MODULE Loader --------------------------------
(***************************************************************************)
(* The import of a model's code into the main process (core/loader.py,     *)
(* import_module_from_file), as threads that load versions run it side by  *)
(* side: the admin loop, the poller, gRPC's threads.  It changes two       *)
(* things of the whole process and puts them back: sys.path, and the       *)
(* function that registers Prometheus metrics.                             *)
(***************************************************************************)
EXTENDS Naturals, Sequences, SequencesExt

CONSTANTS
    Importers,  \* threads
    Dirs,       \* directories of versions; each has a sibling module, of one name
    MaxImports  \* bound: imports

ASSUME LoaderAssumption == IsFiniteSet(Dirs) /\ MaxImports \in Nat

VARIABLES
    searched,   \* sys.path, the directories of versions
    register,   \* prometheus_client.REGISTRY.register
    metrics,    \* directories whose metrics have been registered
    sibling,    \* sys.modules: whose sibling module is in it
    phase,      \* per importer: its position
    dir,        \* per importer: parent_dir
    added,      \* importers with added_to_path
    saved,      \* per importer: _original_register
    verdict,    \* per importer: how its last import has ended
    imports,    \* bound
    overlapped  \* history: an import has begun during another

loaderVars == <<searched, register, metrics, sibling, phase, dir, added, saved, verdict,
                imports, overlapped>>

NoDir == "none"

LoaderInit ==
    /\ searched = <<>> /\ register = "original"
    /\ metrics = {} /\ sibling = NoDir
    /\ phase = [t \in Importers |-> "idle"] /\ dir = [t \in Importers |-> NoDir]
    /\ added = {} /\ saved = [t \in Importers |-> "original"]
    /\ verdict = [t \in Importers |-> "none"]
    /\ imports = 0 /\ overlapped = FALSE

Importing == {t \in Importers : phase[t] # "idle"}

Reach(t, s) == phase' = [phase EXCEPT ![t] = s]

-----------------------------------------------------------------------------
\* import_module_from_file, up to the question whether the directory is on the
\* path.
BeginImport(t, d) ==
    /\ phase[t] = "idle" /\ imports < MaxImports
    /\ imports' = imports + 1
    /\ overlapped' = (overlapped \/ Importing # {})
    /\ dir' = [dir EXCEPT ![t] = d]
    /\ added' = IF d \in Range(searched) THEN added \ {t} ELSE added \cup {t}
    /\ Reach(t, "insert")
    /\ UNCHANGED <<searched, register, metrics, sibling, saved, verdict>>

InsertPath(t) ==
    /\ phase[t] = "insert"
    /\ searched' = IF t \in added THEN <<dir[t]>> \o searched ELSE searched
    /\ Reach(t, "save")
    /\ UNCHANGED <<register, metrics, sibling, dir, added, saved, verdict, imports, overlapped>>

SaveRegister(t) ==
    /\ phase[t] = "save"
    /\ saved' = [saved EXCEPT ![t] = register]
    /\ Reach(t, "patch")
    /\ UNCHANGED <<searched, register, metrics, sibling, dir, added, verdict, imports, overlapped>>

PatchRegister(t) ==
    /\ phase[t] = "patch"
    /\ register' = "suppressed"
    /\ Reach(t, "exec")
    /\ UNCHANGED <<searched, metrics, sibling, dir, added, saved, verdict, imports, overlapped>>

\* exec_module: the model imports its sibling, which Python takes from
\* sys.modules or from the first directory on the path that has it, and defines
\* metrics, which may be registered already.  Or the model raises by itself.
Exec(t) ==
    /\ phase[t] = "exec"
    /\ \/ /\ sibling = NoDir /\ searched = <<>>
          /\ verdict' = [verdict EXCEPT ![t] = "no sibling"]
          /\ UNCHANGED <<metrics, sibling>>
       \/ /\ sibling # NoDir \/ searched # <<>>
          /\ sibling' = IF sibling = NoDir THEN Head(searched) ELSE sibling
          /\ metrics' = IF register = "original" THEN metrics \cup {dir[t]} ELSE metrics
          /\ verdict' = [verdict EXCEPT ![t] =
                           IF register = "original" /\ dir[t] \in metrics THEN "duplicate" ELSE "ok"]
       \/ /\ verdict' = [verdict EXCEPT ![t] = "own error"]
          /\ UNCHANGED <<metrics, sibling>>
    /\ Reach(t, "remove")
    /\ UNCHANGED <<searched, register, dir, added, saved, imports, overlapped>>

\* Variant with a bug: the directory is removed also if it was there before.
RemovePath_Always(t) ==
    /\ phase[t] = "remove"
    /\ searched' = RemoveFirst(searched, dir[t])
    /\ Reach(t, "restore")
    /\ UNCHANGED <<register, metrics, sibling, dir, added, saved, verdict, imports, overlapped>>

\* sys.path.remove: the first occurrence.
RemovePath(t) ==
    /\ phase[t] = "remove"
    /\ searched' = IF t \in added THEN RemoveFirst(searched, dir[t]) ELSE searched
    /\ Reach(t, "restore")
    /\ UNCHANGED <<register, metrics, sibling, dir, added, saved, verdict, imports, overlapped>>

RestoreRegister(t) ==
    /\ phase[t] = "restore"
    /\ register' = saved[t]
    /\ Reach(t, "idle")
    /\ UNCHANGED <<searched, metrics, sibling, dir, added, saved, verdict, imports, overlapped>>

LoaderNext ==
    \E t \in Importers :
        \/ \E d \in Dirs : BeginImport(t, d)
        \/ InsertPath(t) \/ SaveRegister(t) \/ PatchRegister(t) \/ Exec(t)
        \/ RemovePath(t) \/ RestoreRegister(t)

LoaderSpec == LoaderInit /\ [][LoaderNext]_loaderVars

-----------------------------------------------------------------------------
(* Properties                                                              *)

LoaderTypeOK ==
    /\ Range(searched) \subseteq Dirs
    /\ register \in {"original", "suppressed"} /\ metrics \subseteq Dirs
    /\ sibling \in Dirs \cup {NoDir}
    /\ phase \in [Importers -> {"idle", "insert", "save", "patch", "exec", "remove", "restore"}]
    /\ dir \in [Importers -> Dirs \cup {NoDir}] /\ added \subseteq Importers
    /\ saved \in [Importers -> {"original", "suppressed"}]
    /\ verdict \in [Importers -> {"none", "ok", "no sibling", "duplicate", "own error"}]
    /\ imports \in 0 .. MaxImports /\ overlapped \in BOOLEAN

\* Those that have put their directory on the path and not yet removed it.
Inserted(d) ==
    {t \in added : dir[t] = d /\ phase[t] \in {"save", "patch", "exec", "remove"}}

\* Imports leave the process as it was.  The path holds a directory once for
\* every import that has inserted it and not removed it, in whatever order they
\* come and however they end, so that none removes what it has not inserted;
\* and until imports have overlapped, metrics can be registered again after each
\* of them, none of the model's metrics has been, and each finds its sibling
\* (import_module_from_file).
ImportsSettle ==
    /\ \A d \in Dirs :
          Cardinality({i \in DOMAIN searched : searched[i] = d}) = Cardinality(Inserted(d))
    /\ ~overlapped =>
          /\ Importing = {} => register = "original"
          /\ metrics = {}
          /\ \A t \in Importers : verdict[t] \in {"none", "ok", "own error"}
=============================================================================
