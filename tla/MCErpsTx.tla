------------------------------- MODULE MCErpsTx -------------------------------
(***************************************************************************)
(* Finite constants for ErpsTx: an owner that announces (NR,RB), then a    *)
(* signal fail; the two PDUs differ in both halves.                        *)
(***************************************************************************)
EXTENDS ErpsTx

MCPdus == {[rs |-> "NR", status |-> "RB"], [rs |-> "SF", status |-> "none"]}
=============================================================================
