---------------------------- MODULE ErpsRefinement ----------------------------
(***************************************************************************)
(* The node of ErpsNode, seen as the node of ErpsService.                  *)
(***************************************************************************)
EXTENDS ErpsNode

Home(n) == IF HasRpl(n) THEN {Rpl} ELSE {}

PhaseOf(n) == CASE n.state = "UNINIT"  -> "off"
                [] n.state = "IDLE"    -> "normal"
                [] n.state = "PENDING" -> "reverting"
                [] OTHER               -> "switched"

Announced(n) == IF "RB" \in n.pdu.status THEN "NR,RB" ELSE n.pdu.rs

Service == INSTANCE ErpsService
             WITH home  <- Home(node), phase <- PhaseOf(node),
                  cut   <- node.blocked, says <- Announced(node)

(* A node whose driver calls succeed keeps the promises of ErpsService in  *)
(* every step: it is a step of the abstract node, or none at all.          *)
ServiceProvided == Service!Spec
=============================================================================
