----------------------------- MODULE MCTaskStep -----------------------------
(* Two steps, a team-owned and a general worker, one input, one output.  *)
EXTENDS TaskStep, TLC

MCWorkers == {"w1", "w2"}
MCTeamWorkers == {"w1"}
MCInputs == {"i1"}

(* The contract run: inputs and their volumes are hidden by the mapping. *)
MCNoInputs == {}
MCOutputs == {"o1"}
MCExitCodes == {0, 1}

StepSymmetry == Permutations(Steps)
=============================================================================
