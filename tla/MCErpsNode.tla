------------------------------ MODULE MCErpsNode ------------------------------
(***************************************************************************)
(* Finite constants for ErpsNode.  The node's own ID is 2; an ID on either *)
(* side of it decides the comparison in erps_fsm_maybe_unblock_and_stop,   *)
(* the only place where an ID is ordered.                                  *)
(***************************************************************************)
EXTENDS ErpsRefinement

PduSet(ids, bprs, dnfs) ==
  [req : RapsRequest, id : ids, bpr : bprs, dnf : dnfs]

(* BPR and DNF matter to erps_raps_node_id_bpr_flush only: it flushes for  *)
(* the PDU received, and the flush properties are about what a node sends. *)
MCPdus     == PduSet({1, 3}, {0}, {FALSE})
MCHighPdus == PduSet({3}, {0}, {FALSE})

MCFaultless == {NoFault}

(* One port whose driver call fails, or a flush that fails.                *)
MCFaults == {NoFault} \cup {[NoFault EXCEPT !.port = {p}] : p \in Port}
                      \cup {[NoFault EXCEPT !.flush = TRUE]}
=============================================================================
