---------------------------- MODULE MCWorkerPool ----------------------------
(* A team-owned and a general worker with room for one container each,   *)
(* one build input, and three pool calls.                                 *)
EXTENDS WorkerPool, TLC

MCWorkers == {"w1", "w2"}
MCTeamWorkers == {"w1"}

(* No team workers: both workers compete in the volume-affinity loop.     *)
MCNoTeam == {}
MCInputs == {"i1"}
MCKeys == {"k1", "k2", "k3", "k4"}

(* Build steps of two plans, and a lookup of the first one's container by *)
(* handle.                                                                 *)
MCBuildReqs == 1..3
MCBuildKind == 1 :> "build" @@ 2 :> "build" @@ 3 :> "handle"
MCBuildKey == 1 :> "k1" @@ 2 :> "k4" @@ 3 :> "k1"

(* A build step run twice for one (build, plan), e.g. after an ATC       *)
(* restart.                                                                *)
MCRerunReqs == 1..2
MCRerunKind == 1 :> "build" @@ 2 :> "build"
MCRerunKey == 1 :> "k1" @@ 2 :> "k1"

(* Two checks of one resource and a get of another.                      *)
MCResourceReqs == 1..3
MCResourceKind == 1 :> "check" @@ 2 :> "check" @@ 3 :> "get"
MCResourceKey == 1 :> "k2" @@ 2 :> "k2" @@ 3 :> "k3"
=============================================================================
