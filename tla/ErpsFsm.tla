------------------------------- MODULE ErpsFsm -------------------------------
(***************************************************************************)
(* The protection state machine of one ERPS ring node, as pure operators   *)
(* on the record that stands for struct erps_node (erps.c) and its two     *)
(* struct erps_link.  The machine runs under node->fsm_mutex, so a call of *)
(* erps_fsm_post is one step; the modules that use this one decide who     *)
(* calls it, when, and with what.                                          *)
(*                                                                         *)
(* Error paths.  The code chains calls with "if (!ret) ret = f(...)".      *)
(* Here the field ok stands for !ret and every callee is the identity on a *)
(* record whose ok is FALSE, so a chain is plain composition.  Which       *)
(* external calls fail during a step is the argument e:                    *)
(*    e.port   ports on which net_eth_port_set_enabled() fails             *)
(*    e.vlan   ports whose VLAN interface cannot be enabled or found       *)
(*    e.flush  whether net_eth_mac_flush() fails                           *)
(***************************************************************************)
EXTENDS Integers

CONSTANT ERPS_RAPS_BURST    \* PDUs of a burst, minus one

ASSUME BurstAssumption == ERPS_RAPS_BURST \in Nat

(* Indices of node->ports.  The ring protection link, if there is one, is  *)
(* always at index 1.                                                      *)
Port == {0, 1}
Rpl == 1
erps_node_other_link(p) == 1 - p

(***************************************************************************)
(* enum erps_request.  A lower value has a higher priority.                *)
(***************************************************************************)
ERPS_REQ_CLEAR       == 0
ERPS_REQ_FS          == 1
ERPS_REQ_RAPS_FS     == 2
ERPS_REQ_SF          == 3
ERPS_REQ_CLEAR_SF    == 4
ERPS_REQ_RAPS_SF     == 5
ERPS_REQ_RAPS_MS     == 6
ERPS_REQ_MS          == 7
ERPS_REQ_WTR_EXPIRES == 8
ERPS_REQ_WTR_RUNNING == 9
ERPS_REQ_WTB_EXPIRES == 10
ERPS_REQ_WTB_RUNNING == 11
ERPS_REQ_RAPS_NR_RB  == 12
ERPS_REQ_RAPS_NR     == 13
ERPS_REQ_INVALID     == 14

Request == ERPS_REQ_CLEAR .. ERPS_REQ_RAPS_NR

(* The requests local_topreq can hold; 0 only before erps_node_init.       *)
TopRequest == {ERPS_REQ_CLEAR, ERPS_REQ_FS, ERPS_REQ_SF, ERPS_REQ_MS,
               ERPS_REQ_WTR_RUNNING, ERPS_REQ_WTB_RUNNING, ERPS_REQ_INVALID}

State == {"UNINIT", "IDLE", "PROTECTION", "MANUAL_SWITCH",
          "FORCED_SWITCH", "PENDING"}

Role == {"owner", "nbr", "none"}

(* Request/state and status bits of a sent PDU (struct raps_pdu_mut).      *)
PduMut == [rs : {"NR", "MS", "SF", "FS"}, status : SUBSET {"RB", "DNF"}]

(* The (node ID, BPR) pair of a link; ID 0 is the zeroed address.          *)
Pair == [id : Nat, bpr : {0, 1}]
NoPair == [id |-> 0, bpr |-> 0]

Fault == [port : SUBSET Port, vlan : SUBSET Port, flush : BOOLEAN]
NoFault == [port |-> {}, vlan |-> {}, flush |-> FALSE]

(***************************************************************************)
(* struct erps_node with its links.  A per-port flag is the set of the     *)
(* ports it is set for:                                                    *)
(*    failed, blocked   the flags of struct erps_link                      *)
(*    enabled           the driver's state (net_eth_port_set_enabled)      *)
(*    traffic           the traffic VLAN interface is up                   *)
(*    up                net_if_is_up() of the port's interface             *)
(*    tx, linkDown      tx_dwork / link_down_dwork is scheduled            *)
(* wtr, wtb and guard say whether the timer is running, cb whether the     *)
(* interface-up callback is registered; ok and flushed tell whether the    *)
(* last call succeeded and flushed the forwarding database.                *)
(***************************************************************************)
Node == [state : State, topreq : TopRequest, role : Role, revertive : BOOLEAN,
         id : Nat, failed : SUBSET Port, blocked : SUBSET Port,
         enabled : SUBSET Port, traffic : SUBSET Port, up : SUBSET Port,
         tx : SUBSET Port, linkDown : SUBSET Port,
         burst : [Port -> 0 .. ERPS_RAPS_BURST], pdu : PduMut,
         pair : [Port -> Pair], wtr : BOOLEAN, wtb : BOOLEAN,
         guard : BOOLEAN, cb : BOOLEAN, ok : BOOLEAN, flushed : BOOLEAN]

(* A node as the devicetree macros and erps_node_block_all leave it.       *)
ERPS_NODE_INIT(role, revertive, id, up) ==
  [state |-> "UNINIT", topreq |-> ERPS_REQ_CLEAR, role |-> role,
   revertive |-> revertive, id |-> id, failed |-> {}, blocked |-> {},
   enabled |-> {}, traffic |-> Port, up |-> up, tx |-> {}, linkDown |-> {},
   burst |-> [p \in Port |-> 0], pdu |-> [rs |-> "NR", status |-> {}],
   pair |-> [p \in Port |-> NoPair], wtr |-> FALSE, wtb |-> FALSE,
   guard |-> FALSE, cb |-> FALSE, ok |-> TRUE, flushed |-> FALSE]

erps_node_is_rpl_owner(n) == n.role = "owner"
HasRpl(n) == n.role # "none"
RevertiveOwner(n) == erps_node_is_rpl_owner(n) /\ n.revertive

Fail(n) == [n EXCEPT !.ok = FALSE]

-----------------------------------------------------------------------------
(***************************************************************************)
(* Blocking and unblocking of links.                                       *)
(***************************************************************************)
erps_link_block(n, p, e) ==
  IF ~n.ok \/ p \in n.blocked THEN n
  ELSE IF p \in e.port THEN Fail(n)
  ELSE [n EXCEPT !.blocked = @ \cup {p},
                 !.enabled = @ \ {p},
                 !.pair    = [q \in Port |-> NoPair],
                 !.traffic = @ \ ({p} \ e.vlan),
                 !.ok      = p \notin e.vlan]

(* Mutant: the blocked flag is cleared before the driver has answered.     *)
UnblockedTooEarly(n, p, e) ==
  IF ~n.ok THEN n
  ELSE [n EXCEPT !.failed  = @ \ {p},
                 !.blocked = @ \ {p},
                 !.enabled = IF p \in n.blocked \ e.port THEN @ \cup {p} ELSE @,
                 !.traffic = IF p \in n.blocked \ (e.port \cup e.vlan)
                             THEN @ \cup {p} ELSE @,
                 !.ok      = p \in n.blocked => p \notin e.port \cup e.vlan]

(* The failed flag is cleared first, whether or not the link is blocked.   *)
erps_link_unblock(n, p, e) ==
  IF ~n.ok THEN n
  ELSE IF p \notin n.blocked THEN [n EXCEPT !.failed = @ \ {p}]
  ELSE IF p \in e.port THEN [n EXCEPT !.failed = @ \ {p}, !.ok = FALSE]
  ELSE [n EXCEPT !.failed  = @ \ {p},
                 !.blocked = @ \ {p},
                 !.enabled = @ \cup {p},
                 !.traffic = @ \cup ({p} \ e.vlan),
                 !.ok      = p \notin e.vlan]

erps_link_unblock_force(n, p, e) ==
  IF ~n.ok THEN n
  ELSE erps_link_unblock([n EXCEPT !.blocked = @ \cup {p}], p, e)

erps_node_unblock_all(n, e) ==
  erps_link_unblock(erps_link_unblock(n, 0, e), 1, e)

UnblockIfNotFailed(n, p, e) ==
  IF p \in n.failed THEN n ELSE erps_link_unblock(n, p, e)

erps_node_unblock_non_failed(n, e) ==
  UnblockIfNotFailed(UnblockIfNotFailed(n, 0, e), 1, e)

(***************************************************************************)
(* Transmission, flush, timers and transition.                             *)
(***************************************************************************)

(* Both TX works are cancelled and those of the ports that are up armed    *)
(* again; a PDU that differs from the last one starts a burst.             *)
erps_node_sched_tx(n, rs, status) ==
  IF ~n.ok THEN n
  ELSE LET new == [rs |-> rs, status |-> status]
           burst == IF new = n.pdu THEN 0 ELSE ERPS_RAPS_BURST
       IN  [n EXCEPT !.pdu = new,
                     !.burst = [p \in Port |-> burst],
                     !.tx = n.up]

erps_node_stop_tx(n) == IF n.ok THEN [n EXCEPT !.tx = {}] ELSE n

erps_flush_fdb(n, e) ==
  IF ~n.ok THEN n ELSE [n EXCEPT !.ok = ~e.flush, !.flushed = @ \/ ~e.flush]

(* Mutant: the transition is taken although a call has failed.             *)
TransitionAnyway(n, next) == [n EXCEPT !.state = next]

erps_fsm_transition(n, next) == IF n.ok THEN [n EXCEPT !.state = next] ELSE n

erps_node_start_guard_timer(n) == [n EXCEPT !.guard = TRUE]

(* Mutant: the RPL neighbour, too, may CLEAR at any time.                  *)
ClearValidNextToRpl(n) == n.topreq \in {ERPS_REQ_FS, ERPS_REQ_MS} \/ HasRpl(n)

(* Sections 10.1.9 and 10.1.1: may the request reach the machine?  The     *)
(* switch on MIN(req, topreq) compares a CLEAR, which is 0, and never      *)
(* matches.                                                                *)
erps_local_clear_valid(n) ==
  n.topreq \in {ERPS_REQ_FS, ERPS_REQ_MS} \/ erps_node_is_rpl_owner(n)

(* Mutant: CLEAR_SF is exempt from the priority check.                     *)
ClearSfAccepted(n, req) ==
  /\ req = ERPS_REQ_CLEAR => erps_local_clear_valid(n)
  /\ req <= n.topreq \/ req = ERPS_REQ_CLEAR_SF

RequestAccepted(n, req) ==
  /\ req = ERPS_REQ_CLEAR => erps_local_clear_valid(n)
  /\ \/ req <= n.topreq
     \/ req = ERPS_REQ_CLEAR_SF /\ n.topreq = ERPS_REQ_SF

LocalRequest == {ERPS_REQ_SF, ERPS_REQ_FS, ERPS_REQ_MS,
                 ERPS_REQ_WTR_RUNNING, ERPS_REQ_WTB_RUNNING}

(* Mutant: a remote request, too, is recorded as local top request.        *)
RecordsAnyRequest(n, req) ==
  IF RequestAccepted(n, req) THEN [n EXCEPT !.topreq = req] ELSE n

(* Mutant: the top request outlives what ended it.                         *)
KeepsTopRequest(n, req) ==
  IF ~RequestAccepted(n, req) THEN n
  ELSE [n EXCEPT !.topreq = IF req \in LocalRequest THEN req ELSE @]

erps_fsm_resolve_req_prio(n, req) ==
  IF ~RequestAccepted(n, req) THEN n
  ELSE [n EXCEPT !.topreq = IF req \in LocalRequest THEN req
                            ELSE ERPS_REQ_INVALID]

(* The nested post of WTR/WTB_RUNNING changes the top request only: every  *)
(* state's table has "no action" for it.                                   *)
erps_node_start_wtr(n) ==
  IF ~n.ok \/ n.wtr THEN n
  ELSE [erps_fsm_resolve_req_prio(n, ERPS_REQ_WTR_RUNNING) EXCEPT !.wtr = TRUE]

erps_node_start_wtb(n) ==
  IF ~n.ok \/ n.wtb THEN n
  ELSE [erps_fsm_resolve_req_prio(n, ERPS_REQ_WTB_RUNNING) EXCEPT !.wtb = TRUE]

(* Mutant: the wait-to-block timer is forgotten.                           *)
OwnerStopsWtrOnly(n) ==
  IF n.ok /\ erps_node_is_rpl_owner(n) THEN [n EXCEPT !.wtr = FALSE] ELSE n

OwnerStopsTimers(n) ==
  IF n.ok /\ erps_node_is_rpl_owner(n)
  THEN [n EXCEPT !.wtr = FALSE, !.wtb = FALSE] ELSE n

OwnerStartsWtr(n) == IF RevertiveOwner(n) THEN erps_node_start_wtr(n) ELSE n
OwnerStartsWtb(n) == IF RevertiveOwner(n) THEN erps_node_start_wtb(n) ELSE n

-----------------------------------------------------------------------------
(***************************************************************************)
(* Handlers shared by several states (erps-fsm-common.c).                  *)
(***************************************************************************)

(* Mutant: nothing is sent if the link is blocked already.                 *)
SilentIfBlocked(n, l, rs, next, e) ==
  LET sent      == IF l \in n.blocked THEN n
                   ELSE erps_node_sched_tx(erps_link_block(n, l, e), rs, {})
      unblocked == erps_link_unblock(sent, erps_node_other_link(l), e)
  IN  erps_fsm_transition(IF l \in n.blocked THEN unblocked
                          ELSE erps_flush_fdb(unblocked, e), next)

(* Mutant: do-not-flush is set the wrong way round.                        *)
DnfSwapped(n, l, rs, next, e) ==
  LET sent      == erps_node_sched_tx(erps_link_block(n, l, e), rs,
                     IF l \in n.blocked THEN {} ELSE {"DNF"})
      unblocked == erps_link_unblock(sent, erps_node_other_link(l), e)
  IN  erps_fsm_transition(IF l \in n.blocked THEN unblocked
                          ELSE erps_flush_fdb(unblocked, e), next)

(* A local FS, SF or MS on link l.                                         *)
erps_fsm_fs_sf_ms(n, l, rs, next, e) ==
  LET wasBlocked == l \in n.blocked
      blocked    == erps_link_block(n, l, e)
      sent       == erps_node_sched_tx(blocked, rs,
                                       IF wasBlocked THEN {"DNF"} ELSE {})
      unblocked  == erps_link_unblock(sent, erps_node_other_link(l), e)
  IN  erps_fsm_transition(IF wasBlocked THEN unblocked
                          ELSE erps_flush_fdb(unblocked, e), next)

(* A remote FS (all ports), SF or MS (the non-failed ports).               *)
erps_fsm_unblock_and_stop(n, only_non_failed, next, e) ==
  erps_fsm_transition(
    erps_node_stop_tx(IF only_non_failed
                      THEN erps_node_unblock_non_failed(n, e)
                      ELSE erps_node_unblock_all(n, e)), next)

(* Mutant: a higher ID silences the node but opens nothing.                *)
MaybeStopOnly(n, id, e) == IF id <= n.id THEN n ELSE erps_node_stop_tx(n)

(* Mutant: the IDs are not compared.                                       *)
UnblockAndStopAlways(n, id, e) ==
  erps_node_stop_tx(erps_node_unblock_non_failed(n, e))

erps_fsm_maybe_unblock_and_stop(n, id, e) ==
  IF id <= n.id THEN n
  ELSE erps_node_stop_tx(erps_node_unblock_non_failed(n, e))

(* Guard timer and R-APS(NR), if a port is blocked.                        *)
AnnounceNoRequest(n) ==
  erps_node_sched_tx(erps_node_start_guard_timer(n), "NR", {})

(* Mutant: CLEAR starts no wait-to-block timer.                            *)
ClearWithoutWtb(n) ==
  erps_fsm_transition(IF n.blocked = {} THEN n ELSE AnnounceNoRequest(n),
                      "PENDING")

(* Mutant: CLEAR opens the ports at once.                                  *)
ClearUnblocks(n) ==
  erps_fsm_transition(erps_node_unblock_all(n, NoFault), "PENDING")

erps_fsm_clear_common(n) ==
  erps_fsm_transition(IF n.blocked = {} THEN n
                      ELSE OwnerStartsWtb(AnnounceNoRequest(n)), "PENDING")

(* Mutant: no timer is started.                                            *)
RemoteNoRequestUntimed(n, req, timer) == erps_fsm_transition(n, "PENDING")

(* R-APS(NR) and R-APS(NR,RB) in a switched state: the revertive owner     *)
(* starts the state's timer on NR alone.                                   *)
RemoteNoRequest(n, req, timer) ==
  LET started == IF req = ERPS_REQ_RAPS_NR_RB THEN n
                 ELSE IF timer = "wtr" THEN OwnerStartsWtr(n)
                 ELSE OwnerStartsWtb(n)
  IN  erps_fsm_transition(started, "PENDING")

FsCommon(n, l, e) == erps_fsm_fs_sf_ms(n, l, "FS", "FORCED_SWITCH", e)
SfCommon(n, l, e) == erps_fsm_fs_sf_ms(n, l, "SF", "PROTECTION", e)
MsCommon(n, l, e) == erps_fsm_fs_sf_ms(n, l, "MS", "MANUAL_SWITCH", e)
RapsFsCommon(n, e) == erps_fsm_unblock_and_stop(n, FALSE, "FORCED_SWITCH", e)
RapsSfCommon(n, e) == erps_fsm_unblock_and_stop(n, TRUE, "PROTECTION", e)
RapsMsCommon(n, e) == erps_fsm_unblock_and_stop(n, TRUE, "MANUAL_SWITCH", e)

-----------------------------------------------------------------------------
(***************************************************************************)
(* One table per state (erps-fsm-<state>.c).  Requests that are not listed *)
(* have no action.                                                         *)
(***************************************************************************)

erps_fsm_raps_nr_rb_idle(n, e) ==
  LET m == IF HasRpl(n) THEN erps_link_unblock(n, 0, e) ELSE n
  IN  IF erps_node_is_rpl_owner(n) THEN m ELSE erps_node_stop_tx(m)

erps_fsm_post_idle(n, l, req, id, e) ==
  CASE req = ERPS_REQ_FS         -> FsCommon(n, l, e)
    [] req = ERPS_REQ_RAPS_FS    -> RapsFsCommon(n, e)
    [] req = ERPS_REQ_SF         -> SfCommon(n, l, e)
    [] req = ERPS_REQ_RAPS_SF    -> RapsSfCommon(n, e)
    [] req = ERPS_REQ_RAPS_MS    -> RapsMsCommon(n, e)
    [] req = ERPS_REQ_MS         -> MsCommon(n, l, e)
    [] req = ERPS_REQ_RAPS_NR_RB -> erps_fsm_raps_nr_rb_idle(n, e)
    [] req = ERPS_REQ_RAPS_NR    -> IF HasRpl(n) THEN n
                                    ELSE erps_fsm_maybe_unblock_and_stop(n, id, e)
    [] OTHER -> n

(* Mutant: a cleared signal fail starts no wait-to-restore timer.          *)
ClearSfWithoutWtr(n) == erps_fsm_transition(AnnounceNoRequest(n), "PENDING")

erps_fsm_clear_sf_protection(n) ==
  erps_fsm_transition(OwnerStartsWtr(AnnounceNoRequest(n)), "PENDING")

erps_fsm_post_protection(n, l, req, e) ==
  CASE req = ERPS_REQ_FS       -> FsCommon(n, l, e)
    [] req = ERPS_REQ_RAPS_FS  -> RapsFsCommon(n, e)
    [] req = ERPS_REQ_SF       -> SfCommon(n, l, e)
    [] req = ERPS_REQ_CLEAR_SF -> erps_fsm_clear_sf_protection(n)
    [] req \in {ERPS_REQ_RAPS_NR_RB, ERPS_REQ_RAPS_NR} ->
         RemoteNoRequest(n, req, "wtr")
    [] OTHER -> n

(* Only the revertive owner leaves MANUAL_SWITCH on a remote MS.           *)
erps_fsm_raps_ms_ms(n) ==
  IF n.blocked = {} THEN n
  ELSE erps_fsm_transition(OwnerStartsWtb(AnnounceNoRequest(n)),
         IF RevertiveOwner(n) THEN "PENDING" ELSE "MANUAL_SWITCH")

erps_fsm_post_manual_switch(n, l, req, e) ==
  CASE req = ERPS_REQ_CLEAR   -> erps_fsm_clear_common(n)
    [] req = ERPS_REQ_FS      -> FsCommon(n, l, e)
    [] req = ERPS_REQ_RAPS_FS -> RapsFsCommon(n, e)
    [] req = ERPS_REQ_SF      -> SfCommon(n, l, e)
    [] req = ERPS_REQ_RAPS_SF -> RapsSfCommon(n, e)
    [] req = ERPS_REQ_RAPS_MS -> erps_fsm_raps_ms_ms(n)
    [] req \in {ERPS_REQ_RAPS_NR_RB, ERPS_REQ_RAPS_NR} ->
         RemoteNoRequest(n, req, "wtb")
    [] OTHER -> n

(* Mutant: a second FS flushes nothing.                                    *)
FsFsWithoutFlush(n, l, e) ==
  erps_node_sched_tx(erps_link_block(n, l, e), "FS", {})

(* A second FS blocks its link too and unblocks nothing.                   *)
erps_fsm_fs_fs(n, l, e) ==
  erps_flush_fdb(erps_node_sched_tx(erps_link_block(n, l, e), "FS", {}), e)

erps_fsm_post_forced_switch(n, l, req, e) ==
  CASE req = ERPS_REQ_CLEAR -> erps_fsm_clear_common(n)
    [] req = ERPS_REQ_FS    -> erps_fsm_fs_fs(n, l, e)
    [] req \in {ERPS_REQ_RAPS_NR_RB, ERPS_REQ_RAPS_NR} ->
         RemoteNoRequest(n, req, "wtb")
    [] OTHER -> n

(* Mutant: the PDU says that the RPL is blocked only if that is new.       *)
RestoreWithoutRb(n, e) ==
  LET wasBlocked == Rpl \in n.blocked
      sent       == erps_node_sched_tx(erps_link_block(n, Rpl, e), "NR",
                      IF wasBlocked THEN {"DNF"} ELSE {"RB"})
      unblocked  == erps_link_unblock(sent, erps_node_other_link(Rpl), e)
  IN  erps_fsm_transition(IF wasBlocked THEN unblocked
                          ELSE erps_flush_fdb(unblocked, e), "IDLE")

(* Mutant: the port that is not the RPL stays as it is.                    *)
RestoreWithoutUnblock(n, e) ==
  LET sent == erps_node_sched_tx(erps_link_block(n, Rpl, e), "NR",
                IF Rpl \in n.blocked THEN {"RB", "DNF"} ELSE {"RB"})
  IN  erps_fsm_transition(IF Rpl \in n.blocked THEN sent
                          ELSE erps_flush_fdb(sent, e), "IDLE")

(* Mutant: the RPL is announced and not blocked.                           *)
RestoreWithoutBlock(n, e) ==
  LET sent == erps_node_sched_tx(n, "NR",
                IF Rpl \in n.blocked THEN {"RB", "DNF"} ELSE {"RB"})
  IN  erps_fsm_transition(
        erps_flush_fdb(erps_link_unblock(sent, erps_node_other_link(Rpl), e), e), "IDLE")

(* Block the RPL, announce it, open the other port: the normal state.      *)
erps_fsm_timer_expires_pending(n, e) ==
  LET wasBlocked == Rpl \in n.blocked
      sent       == erps_node_sched_tx(erps_link_block(n, Rpl, e), "NR",
                      IF wasBlocked THEN {"RB", "DNF"} ELSE {"RB"})
      unblocked  == erps_link_unblock(sent, erps_node_other_link(Rpl), e)
  IN  erps_fsm_transition(IF wasBlocked THEN unblocked
                          ELSE erps_flush_fdb(unblocked, e), "IDLE")

(* The same steps, after the owner has stopped both timers.                *)
erps_fsm_clear_pending(n, e) ==
  IF HasRpl(n) THEN erps_fsm_timer_expires_pending(OwnerStopsTimers(n), e)
  ELSE erps_fsm_transition(n, "IDLE")

(* Mutant: the neighbour, which blocks the RPL too, announces it.          *)
NeighbourAnnouncesRb(n, e) ==
  LET restored ==
        CASE n.role = "owner" -> OwnerStopsTimers(n)
          [] n.role = "none"  -> erps_node_stop_tx(erps_node_unblock_all(n, e))
          [] n.role = "nbr"   ->
               erps_node_sched_tx(
                 erps_link_unblock(erps_link_block(n, Rpl, e), 0, e), "NR", {"RB"})
  IN  erps_fsm_transition(restored, "IDLE")

erps_fsm_raps_nr_rb_pending(n, e) ==
  LET restored ==
        CASE n.role = "owner" -> OwnerStopsTimers(n)
          [] n.role = "none"  -> erps_node_stop_tx(erps_node_unblock_all(n, e))
          [] n.role = "nbr"   ->
               erps_node_stop_tx(
                 erps_link_unblock(erps_link_block(n, Rpl, e), 0, e))
  IN  erps_fsm_transition(restored, "IDLE")

erps_fsm_post_pending(n, l, req, id, e) ==
  CASE req = ERPS_REQ_CLEAR   -> erps_fsm_clear_pending(n, e)
    [] req = ERPS_REQ_FS      -> OwnerStopsTimers(FsCommon(n, l, e))
    [] req = ERPS_REQ_RAPS_FS -> OwnerStopsTimers(RapsFsCommon(n, e))
    [] req = ERPS_REQ_SF      -> OwnerStopsTimers(SfCommon(n, l, e))
    [] req = ERPS_REQ_RAPS_SF -> OwnerStopsTimers(RapsSfCommon(n, e))
    [] req = ERPS_REQ_RAPS_MS -> OwnerStopsTimers(RapsMsCommon(n, e))
    [] req = ERPS_REQ_MS      -> MsCommon(OwnerStopsTimers(n), l, e)
    [] req = ERPS_REQ_WTR_EXPIRES /\ erps_node_is_rpl_owner(n) ->
         erps_fsm_timer_expires_pending([n EXCEPT !.wtb = FALSE], e)
    [] req = ERPS_REQ_WTB_EXPIRES /\ erps_node_is_rpl_owner(n) ->
         erps_fsm_timer_expires_pending([n EXCEPT !.wtr = FALSE], e)
    [] req = ERPS_REQ_RAPS_NR_RB -> erps_fsm_raps_nr_rb_pending(n, e)
    [] req = ERPS_REQ_RAPS_NR    -> erps_fsm_maybe_unblock_and_stop(n, id, e)
    [] OTHER -> n

-----------------------------------------------------------------------------
(***************************************************************************)
(* Posting a request on link l, with the mutex held.  id is the node ID of *)
(* the PDU, for the requests a PDU carries.                                *)
(***************************************************************************)
Dispatch(n, l, req, id, e) ==
  CASE n.state = "IDLE"          -> erps_fsm_post_idle(n, l, req, id, e)
    [] n.state = "PROTECTION"    -> erps_fsm_post_protection(n, l, req, e)
    [] n.state = "MANUAL_SWITCH" -> erps_fsm_post_manual_switch(n, l, req, e)
    [] n.state = "FORCED_SWITCH" -> erps_fsm_post_forced_switch(n, l, req, e)
    [] n.state = "PENDING"       -> erps_fsm_post_pending(n, l, req, id, e)
    [] n.state = "UNINIT"        -> n

(* What happens before the dispatch: CLEAR_SF cancels the link-down timer  *)
(* even if it is then ignored, SF marks the link.                          *)
Prepare(n, l, req) ==
  LET cancelled == IF req = ERPS_REQ_CLEAR_SF
                   THEN [n EXCEPT !.linkDown = @ \ {l}] ELSE n
      resolved  == erps_fsm_resolve_req_prio(cancelled, req)
  IN  IF req = ERPS_REQ_SF /\ RequestAccepted(n, req)
      THEN [resolved EXCEPT !.failed = @ \cup {l}] ELSE resolved

IgnoredOnRpl(n, l, req) ==
  req = ERPS_REQ_CLEAR_SF /\ l = Rpl /\ HasRpl(n) /\ n.state # "PROTECTION"

(* ok and flushed are set anew for every call.                             *)
Fresh(n) == [n EXCEPT !.ok = TRUE, !.flushed = FALSE]

erps_fsm_post_locked(n, l, req, id, e) ==
  IF ~RequestAccepted(n, req) \/ IgnoredOnRpl(n, l, req)
  THEN Prepare(n, l, req)
  ELSE Dispatch(Prepare(n, l, req), l, req, id, e)

(* The transition to PENDING is taken even if a call failed.               *)
erps_fsm_init(n, e) ==
  LET first == IF HasRpl(n) THEN Rpl ELSE 0
      open  == erps_link_unblock_force(erps_link_block(n, first, e),
                                       erps_node_other_link(first), e)
      m     == OwnerStartsWtr(erps_node_sched_tx(open, "NR", {}))
  IN  [m EXCEPT !.state = "PENDING", !.guard = FALSE]

(***************************************************************************)
(* Initialization.  Links are configured in order; a link whose VLANs      *)
(* cannot be set up (those of c.vlan) ends it.  The link-down timer is not *)
(* used on the RPL.  The callback is registered only if the machine came   *)
(* up without error; e says what fails while it does.                      *)
(***************************************************************************)
erps_link_init(n, c) ==
  LET configured == {p \in Port : \A q \in 0 .. p : q \notin c.vlan}
  IN  [n EXCEPT !.linkDown = {p \in configured : ~(HasRpl(n) /\ p = Rpl)},
                !.ok = configured = Port]

erps_node_init(n, c, e) ==
  LET linked == erps_link_init([Fresh(n) EXCEPT !.topreq = ERPS_REQ_INVALID], c)
      up     == erps_fsm_init(linked, e)
  IN  IF ~linked.ok THEN linked
      ELSE IF ~up.ok THEN up
      ELSE [up EXCEPT !.cb = TRUE, !.tx = @ \cup up.up]
=============================================================================
