---------------------------- MODULE MCLightServer ----------------------------
(* Small instances of LightServer. *)
EXTENDS LightServer

CONSTANTS v9, v10, h1, h2

\* Version strings: "10" sorts before "9".
MCRank == [v \in Versions |-> IF v = v10 THEN 1 ELSE 2]

Base == [mode |-> "poll", listed |-> TRUE, policy |-> "all", wanted |-> {},
         default |-> NoVersion, max |-> 2, multi |-> FALSE, grpc |-> TRUE,
         broken |-> {}, found |-> Versions]

\* Every policy under the poller, once with a version that cannot be loaded;
\* and a limit of one version, without the poller.
MCConfigs ==
    {[Base EXCEPT !.found = {v9}, !.broken = {v10}],
     [Base EXCEPT !.policy = "latest"],
     [Base EXCEPT !.policy = "explicit", !.wanted = {v9}, !.default = v9, !.multi = TRUE,
                  !.grpc = FALSE],
     [Base EXCEPT !.mode = "all", !.multi = TRUE, !.grpc = FALSE, !.max = 1]}

\* Several HTTP workers and nothing to poll.
SignalConfigs == {[Base EXCEPT !.mode = "explicit", !.multi = TRUE, !.found = {v9}]}
=============================================================================
