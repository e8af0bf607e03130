-------------------------- MODULE MCModelLifecycle --------------------------
(* Small instances of ModelLifecycle. *)
EXTENDS ModelLifecycle, TLC

CONSTANTS admin, poller, v9, v10

\* Version strings: "10" sorts before "9".
MCRank == [v \in Versions |-> IF v = v10 THEN 1 ELSE 2]

\* No limit reached and any version may become active by itself; or at most
\* one READY version; or only v9 may.
MCOrchestrations ==
    {[default |-> NoVersion, max |-> 2], [default |-> NoVersion, max |-> 1],
     [default |-> v9, max |-> 2]}

\* Every thread calls every operation (the gRPC pool and the admin loop).
AllOps == [t \in Threads |-> Operations]

\* The admin loop manages versions while another thread loads them (poller)
\* and an HTTP worker process activates them without the lock.
RoleOps == [t \in Threads |->
    IF t = admin THEN {"load", "unload", "reload", "activate"}
    ELSE {"load", "activate_unlocked"}]

\* An ensemble and an ordinary version, loaded, reloaded and activated by two.
EnsembleOps == [t \in Threads |->
    IF t = admin THEN Operations \ {"delete"} ELSE {"load", "activate_unlocked"}]

LoadUnloadOps == [t \in Threads |-> {"load", "unload"}]

\* orchestration.yaml names no default version, and no limit is reached.
NoLimit == {[default |-> NoVersion, max |-> 2]}

Symmetry == Permutations(Threads)
=============================================================================
