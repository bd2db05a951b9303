------------------------ MODULE MCSimulationControl -------------------------
(***************************************************************************)
(* Small instances of SimulationControl for TLC.                           *)
(***************************************************************************)
EXTENDS SimulationControl
=============================================================================
