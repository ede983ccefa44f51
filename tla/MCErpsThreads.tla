----------------------------- MODULE MCErpsThreads -----------------------------
(***************************************************************************)
(* Finite constants for ErpsThreads.                                       *)
(***************************************************************************)
EXTENDS ErpsThreads

MCRemote == {ERPS_REQ_RAPS_FS, ERPS_REQ_RAPS_SF, ERPS_REQ_RAPS_NR}
MCCommands == {<<0, ERPS_REQ_CLEAR>>, <<0, ERPS_REQ_FS>>, <<1, ERPS_REQ_MS>>}
=============================================================================
