------------------------------- MODULE ErpsNode -------------------------------
(***************************************************************************)
(* One ring node and everything that drives its state machine (erps.c):    *)
(* initialization, the control interface, carrier changes reported by the  *)
(* driver, received R-APS PDUs, the expiry of the wait-to-restore,         *)
(* wait-to-block, link-down and guard timers, the TX works and the         *)
(* interface-up callback.  Each posts with the mutex held, so each is one  *)
(* step.                                                                   *)
(***************************************************************************)
EXTENDS ErpsFsm, FiniteSets

CONSTANTS Roles,        \* the roles a run considers
          Revertives,   \* the values of node->revertive a run considers
          OwnId,        \* the node's ID: the address of ports[0]
          RapsVer,      \* R-APS version, 1 or 2 (node->raps_ver)
          RapsPdus,     \* the R-APS PDUs other nodes may send
          SingleOwner,  \* no other node claims to be RPL owner
          Faults        \* the failures that may happen during a step

RapsRequest == {ERPS_REQ_RAPS_FS, ERPS_REQ_RAPS_SF, ERPS_REQ_RAPS_MS,
                ERPS_REQ_RAPS_NR_RB, ERPS_REQ_RAPS_NR}

RapsPdu == [req : RapsRequest, id : Nat, bpr : {0, 1}, dnf : BOOLEAN]

ASSUME RolesAssumption == Roles \subseteq Role /\ Revertives \subseteq BOOLEAN
ASSUME IdAssumption == OwnId \in Nat /\ OwnId # 0
ASSUME VersionAssumption == RapsVer \in {1, 2} /\ SingleOwner \in BOOLEAN
ASSUME PduAssumption == RapsPdus \subseteq RapsPdu
ASSUME FaultAssumption == Faults \subseteq Fault

VARIABLES node,     \* struct erps_node
          carrier,  \* ports whose physical link is up
          booted    \* erps_init has run

vars == <<node, carrier, booted>>

-----------------------------------------------------------------------------
(* erps_fsm_post: the mutex is taken, the request processed.               *)
erps_fsm_post(n, l, req, id, e) == erps_fsm_post_locked(Fresh(n), l, req, id, e)

Init == /\ booted = FALSE
        /\ carrier \in SUBSET Port
        /\ \E role \in Roles, revertive \in Revertives :
             node = ERPS_NODE_INIT(role, revertive, OwnId, carrier)

(* Initialization: c and e say which calls fail in its two parts.          *)
NodeInit(c, e) ==
  /\ ~booted
  /\ booted' = TRUE
  /\ node' = erps_node_init(node, c, e)
  /\ UNCHANGED carrier

-----------------------------------------------------------------------------
(* net_erps_ctl with an administrative event, from the shell or the        *)
(* application, which run after boot.                                      *)
net_erps_ctl(l, req, e) ==
  /\ booted
  /\ node' = erps_fsm_post(node, l, req, 0, e)
  /\ UNCHANGED <<carrier, booted>>

(* net_erps_ctl with ERPS_SIGNAL_FAIL / ERPS_CLEAR_SIGNAL_FAIL, issued     *)
(* when the carrier drops or comes back.                                   *)
CarrierLost(l, e) ==
  /\ l \in carrier
  /\ carrier' = carrier \ {l}
  /\ node' = erps_fsm_post([node EXCEPT !.up = @ \ {l}], l, ERPS_REQ_SF, 0, e)
  /\ UNCHANGED booted

CarrierRestored(l, e) ==
  /\ l \notin carrier
  /\ carrier' = carrier \cup {l}
  /\ node' = erps_fsm_post(node, l, ERPS_REQ_CLEAR_SF, 0, e)
  /\ UNCHANGED booted

(* Mutant: an interface that comes up is not scheduled.                    *)
IfaceUpWithoutTx(p) ==
  /\ p \in carrier \ node.up
  /\ node' = [node EXCEPT !.up = @ \cup {p}]
  /\ UNCHANGED <<carrier, booted>>

(* The interface comes up and its event arms the port's TX work, whatever  *)
(* the state is.                                                           *)
erps_iface_up_cb(p) ==
  /\ p \in carrier \ node.up
  /\ node' = [node EXCEPT !.up = @ \cup {p},
                          !.tx = IF node.cb THEN @ \cup {p} ELSE @]
  /\ UNCHANGED <<carrier, booted>>

-----------------------------------------------------------------------------
(***************************************************************************)
(* Reception, on an interface that is up.  A flush event bypasses the      *)
(* guard timer; any other PDU is dropped while it runs.  A frame of the    *)
(* node's own is dropped before.                                           *)
(***************************************************************************)
erps_handle_raps_event(l, e) ==
  /\ l \in node.up
  /\ node' = erps_flush_fdb(Fresh(node), e)
  /\ UNCHANGED <<carrier, booted>>

(* Section 10.1.10: remember the pair the link has seen last.  The result  *)
(* is logged, never acted upon.                                            *)
erps_raps_node_id_bpr_flush(n, l, pdu, e) ==
  LET seen  == [id |-> pdu.id, bpr |-> pdu.bpr]
      other == n.pair[erps_node_other_link(l)]
      m     == [n EXCEPT !.pair[l] = seen]
  IN  IF pdu.req = ERPS_REQ_RAPS_NR THEN [n EXCEPT !.pair[l] = NoPair]
      ELSE IF pdu.bpr = n.pair[l].bpr \/ pdu.id = n.pair[l].id THEN n
      ELSE IF pdu.dnf /\ seen # other THEN erps_flush_fdb(m, e)
      ELSE m

erps_raps_recv(l, pdu, e) ==
  /\ l \in node.up
  /\ pdu.id # node.id
  /\ RapsVer = 1 => pdu.req \notin {ERPS_REQ_RAPS_MS, ERPS_REQ_RAPS_FS}
  /\ SingleOwner /\ node.role = "owner" => pdu.req # ERPS_REQ_RAPS_NR_RB
  /\ ~node.guard
  /\ LET seen   == erps_raps_node_id_bpr_flush(Fresh(node), l, pdu, e)
         posted == erps_fsm_post_locked([seen EXCEPT !.ok = TRUE],
                                        l, pdu.req, pdu.id, e)
     IN  node' = posted
  /\ UNCHANGED <<carrier, booted>>

-----------------------------------------------------------------------------
(***************************************************************************)
(* Work items and timers.                                                  *)
(***************************************************************************)
erps_wtr_work(e) ==
  /\ node.wtr
  /\ node' = erps_fsm_post([node EXCEPT !.wtr = FALSE], 0,
                           ERPS_REQ_WTR_EXPIRES, 0, e)
  /\ UNCHANGED <<carrier, booted>>

erps_wtb_work(e) ==
  /\ node.wtb
  /\ node' = erps_fsm_post([node EXCEPT !.wtb = FALSE], 0,
                           ERPS_REQ_WTB_EXPIRES, 0, e)
  /\ UNCHANGED <<carrier, booted>>

erps_link_down_work(l, e) ==
  /\ l \in node.linkDown
  /\ node' = erps_fsm_post([node EXCEPT !.linkDown = @ \ {l}], l,
                           ERPS_REQ_SF, 0, e)
  /\ UNCHANGED <<carrier, booted>>

(* The PDU sent; the work stays armed.  Without a burst the step leaves    *)
(* the state as it is.                                                     *)
erps_tx_work(p) ==
  /\ p \in node.tx /\ node.burst[p] > 0
  /\ node' = [node EXCEPT !.burst[p] = @ - 1]
  /\ UNCHANGED <<carrier, booted>>

GuardTimerExpires ==
  /\ node.guard
  /\ node' = [node EXCEPT !.guard = FALSE]
  /\ UNCHANGED <<carrier, booted>>

-----------------------------------------------------------------------------
AdminRequest == {ERPS_REQ_CLEAR, ERPS_REQ_FS, ERPS_REQ_MS}

(* What operators, other nodes and the physical links do.                  *)
Environment ==
  \/ \E l \in Port, req \in AdminRequest, e \in Faults : net_erps_ctl(l, req, e)
  \/ \E l \in Port, e \in Faults : CarrierLost(l, e)
  \/ \E l \in Port, e \in Faults : CarrierRestored(l, e)
  \/ \E l \in Port, e \in Faults : erps_handle_raps_event(l, e)
  \/ \E l \in Port, pdu \in RapsPdus, e \in Faults : erps_raps_recv(l, pdu, e)

(* What the kernel does of its own accord.                                 *)
System ==
  \/ \E c, e \in Faults : NodeInit(c, e)
  \/ \E p \in Port : erps_iface_up_cb(p)
  \/ \E e \in Faults : erps_wtr_work(e)
  \/ \E e \in Faults : erps_wtb_work(e)
  \/ \E l \in Port, e \in Faults : erps_link_down_work(l, e)
  \/ \E p \in Port : erps_tx_work(p)
  \/ GuardTimerExpires

Next == Environment \/ System

Spec == Init /\ [][Next]_vars

(* The kernel eventually runs initialization and every work item that is   *)
(* due and stays scheduled.                                                *)
Fairness == /\ WF_vars(\E c, e \in Faults : NodeInit(c, e))
            /\ WF_vars(\E e \in Faults : erps_wtr_work(e))
            /\ WF_vars(\E e \in Faults : erps_wtb_work(e))
            /\ WF_vars(GuardTimerExpires)

FairSpec == Spec /\ Fairness

-----------------------------------------------------------------------------
(***************************************************************************)
(* Invariants.                                                             *)
(***************************************************************************)

(* Every field keeps the type struct erps_node gives it; in particular     *)
(* only a local request that lasts is ever recorded as local_topreq.       *)
TypeOK == node \in Node /\ carrier \in SUBSET Port /\ booted \in BOOLEAN

(* The wait-to-restore and wait-to-block timers run on a revertive owner   *)
(* in PENDING and nowhere else, and the recorded top request says          *)
(* WTR/WTB_RUNNING only while that timer runs.  A top request left behind  *)
(* by a timer that is gone would make the node deaf to R-APS(NR) for good. *)
(* Timers are started by seven handlers and stopped by nine, and a failed  *)
(* driver call may end a handler before it gets there.                     *)
TimersOnlyWhileReverting ==
  /\ node.wtr \/ node.wtb => node.state = "PENDING" /\ RevertiveOwner(node)
  /\ node.topreq = ERPS_REQ_WTR_RUNNING => node.wtr
  /\ node.topreq = ERPS_REQ_WTB_RUNNING => node.wtb

(* In PENDING no lasting local request is in effect: the local FS, SF or   *)
(* MS that was is cleared or overridden on every way there.                *)
PendingHasNoLocalRequest ==
  node.state = "PENDING" =>
    node.topreq \notin {ERPS_REQ_FS, ERPS_REQ_SF, ERPS_REQ_MS}

(* A revertive owner that waits in PENDING with a port blocked has a timer *)
(* running that will take it out.                                          *)
WaitTimed ==
  node.state = "PENDING" /\ RevertiveOwner(node) /\ node.blocked # {} =>
    node.wtr \/ node.wtb

(* No event stops the timers without leaving the state, and no local       *)
(* request turns their expiry away.                                        *)
ReversionArmed == PendingHasNoLocalRequest /\ WaitTimed

(* In IDLE exactly the RPL is blocked, at the nodes next to it, and nothing*)
(* elsewhere: the ring is cut once and every other link carries traffic.   *)
IdleRingShape ==
  node.state = "IDLE" => node.blocked = (IF HasRpl(node) THEN {Rpl} ELSE {})

(* The idle owner keeps announcing on every interface that is up that the  *)
(* RPL is blocked; R-APS(NR,RB) is what takes the others out of PENDING.   *)
OwnerAnnouncesRplBlocked ==
  node.state = "IDLE" /\ erps_node_is_rpl_owner(node) =>
    node.pdu.rs = "NR" /\ "RB" \in node.pdu.status /\ node.up \subseteq node.tx

(* Nobody but the owner says RB.  erps_fsm_clear_pending would make the    *)
(* neighbour say it; the priority logic keeps CLEAR from it.               *)
OnlyOwnerAnnouncesRb == "RB" \in node.pdu.status => erps_node_is_rpl_owner(node)

(* While a forced switch is the top request the node is in FORCED_SWITCH,  *)
(* a port is blocked, and R-APS(FS) goes out on every interface that is up,*)
(* whatever signal fails, remote requests and interface events arrive.     *)
ForcedSwitchInForce ==
  node.topreq = ERPS_REQ_FS =>
    /\ node.state = "FORCED_SWITCH" /\ node.blocked # {}
    /\ node.pdu.rs = "FS" /\ node.up \subseteq node.tx

(* While a local signal fail is the top request in PROTECTION, a failed    *)
(* port is blocked and R-APS(SF) goes out on every interface that is up.   *)
SignalFailAdvertised ==
  node.topreq = ERPS_REQ_SF /\ node.state = "PROTECTION" =>
    /\ node.failed \cap node.blocked # {}
    /\ node.pdu.rs = "SF" /\ node.up \subseteq node.tx

(* A blocked port that is not marked failed and is not the RPL stays under *)
(* the protocol: its node is still transmitting, so that the higher node   *)
(* ID or the owner can release it.  Otherwise it would stay blocked unseen.*)
BlockedPortAdvertised ==
  node.cb => \A p \in node.blocked \ node.failed :
               node.up \subseteq node.tx \/ (HasRpl(node) /\ p = Rpl)

(* Once initialization has succeeded, the blocked flags agree with the     *)
(* driver and with the traffic VLAN interfaces, even if calls fail midway. *)
PortsInSync ==
  node.cb => /\ node.enabled = Port \ node.blocked
             /\ node.traffic = Port \ node.blocked

(* Whatever driver or flush calls fail, an idle owner has a blocked port:  *)
(* the ring it manages is not closed.                                      *)
IdleOwnerCutsRing ==
  node.state = "IDLE" /\ erps_node_is_rpl_owner(node) => node.blocked # {}

(***************************************************************************)
(* Action properties.                                                      *)
(***************************************************************************)

(* A forced switch ends by an operator's CLEAR and by nothing else.        *)
ForcedSwitchEndsByClear ==
  [][node.topreq = ERPS_REQ_FS /\ node'.topreq # ERPS_REQ_FS =>
       \E l \in Port, e \in Faults : net_erps_ctl(l, ERPS_REQ_CLEAR, e)]_vars

(* A handler that changes what the node sends to SF, FS, MS or (NR,RB) and *)
(* succeeds has flushed its own forwarding database exactly if the PDU     *)
(* lets the other nodes flush theirs (no DNF).                             *)
PeersFlushWithNode ==
  [][node'.pdu # node.pdu /\ node'.ok
       /\ (node'.pdu.rs # "NR" \/ "RB" \in node'.pdu.status)
     => (node'.flushed <=> "DNF" \notin node'.pdu.status)]_vars

(* The priority logic turns the expiry away: an FS, SF or MS whose handler *)
(* failed in PENDING has stayed the top request.                           *)
ExpiryRefused ==
  /\ ~PendingHasNoLocalRequest
  /\ \E e \in Faults : erps_wtr_work(e) \/ erps_wtb_work(e)

(* What failed calls do to the wait of a revertive owner.  A step in which *)
(* none fails never leaves a local request recorded in PENDING; and it     *)
(* takes the timer from an owner that waits in one case only, when the     *)
(* expiry is refused because of a request that an earlier failure left.    *)
DisarmedByFailureOnly ==
  [][node'.ok => /\ PendingHasNoLocalRequest => PendingHasNoLocalRequest'
                 /\ WaitTimed => WaitTimed' \/ ExpiryRefused]_vars

(* A port is never newly blocked by a successful step after boot without   *)
(* a flush, save at the RPL neighbour, which follows the owner.            *)
NewBlockFlushes ==
  [][booted /\ node'.ok /\ node'.blocked \ node.blocked # {} =>
       node'.flushed \/ (node.role = "nbr" /\ node'.state = "IDLE")]_vars

(***************************************************************************)
(* Liveness.                                                               *)
(***************************************************************************)

(* A revertive owner does not wait for ever in PENDING with a port blocked.*)
RevertsEventually ==
  (node.state = "PENDING" /\ RevertiveOwner(node) /\ node.blocked # {})
    ~> node.state # "PENDING"

(***************************************************************************)
(* What a comment of the code says and the code does not do.               *)
(***************************************************************************)

(* erps.c:70: failed tells whether the link has failed; a link whose       *)
(* carrier drops has.                                                      *)
LostLinkFailed ==
  [][\A l \in Port : booted /\ CarrierLost(l, NoFault) => l \in node'.failed]_vars
=============================================================================
