---------------------------- MODULE ErpsFsmProofs -----------------------------
(***************************************************************************)
(* Lemmas about the operators of ErpsFsm, which the proofs about ErpsNode, *)
(* ErpsRefinement, ErpsThreads and ErpsRing share.  The fault argument e is*)
(* unconstrained unless a lemma says otherwise.                            *)
(*   Types    each call, handler and table maps a Node to a Node.          *)
(*   Timers   TimerInv is kept by every post.  All calls but five leave    *)
(*            the timers alone (Quiet and Moves), the five start or stop   *)
(*            them.                                                        *)
(*   Effects  what each call does to ports, announcements and flushes, and *)
(*            the ten ways in which a table can end if its calls succeed   *)
(*            (Effect), the one in which it ends if one fails (Stuck).     *)
(*   Kept     flags, driver and VLANs agree after every call that fails in *)
(*            no VLAN, and calls that cannot fail do not.                  *)
(***************************************************************************)
EXTENDS ErpsFsm, TLAPS

-----------------------------------------------------------------------------
(***************************************************************************)
(* Types.                                                                  *)
(***************************************************************************)

(* Blocking a link keeps the record well typed.                            *)
LEMMA BlockType ==
  ASSUME NEW n \in Node, NEW p \in Port, NEW e
  PROVE  erps_link_block(n, p, e) \in Node
<1> DEFINE pairs == [q \in Port |-> NoPair]
<1>1. pairs \in [Port -> Pair]
  BY DEF Pair, NoPair
<1>2. n.blocked \cup {p} \in SUBSET Port /\ n.enabled \ {p} \in SUBSET Port
        /\ n.traffic \ ({p} \ e.vlan) \in SUBSET Port
        /\ (p \notin e.vlan) \in BOOLEAN
  BY DEF Node
<1>3. ASSUME NEW b \in SUBSET Port, NEW d \in SUBSET Port, NEW t \in SUBSET Port,
             NEW r \in [Port -> Pair], NEW k \in BOOLEAN
      PROVE  [n EXCEPT !.blocked = b, !.enabled = d, !.pair = r,
                       !.traffic = t, !.ok = k] \in Node
  BY DEF Node
<1>4. Fail(n) \in Node
  BY DEF Fail, Node
<1>5. erps_link_block(n, p, e) =
        IF ~n.ok \/ p \in n.blocked THEN n
        ELSE IF p \in e.port THEN Fail(n)
        ELSE [n EXCEPT !.blocked = n.blocked \cup {p},
                       !.enabled = n.enabled \ {p}, !.pair = pairs,
                       !.traffic = n.traffic \ ({p} \ e.vlan),
                       !.ok = p \notin e.vlan]
  BY DEF erps_link_block
<1> HIDE DEF pairs
<1>6. [n EXCEPT !.blocked = n.blocked \cup {p}, !.enabled = n.enabled \ {p},
                !.pair = pairs, !.traffic = n.traffic \ ({p} \ e.vlan),
                !.ok = p \notin e.vlan] \in Node
  BY <1>1, <1>2, <1>3
<1> QED
  BY <1>4, <1>5, <1>6, Zenon

(* Unblocking a link keeps the record well typed.                          *)
LEMMA UnblockType ==
  ASSUME NEW n \in Node, NEW p \in Port, NEW e
  PROVE  erps_link_unblock(n, p, e) \in Node
<1>1. n.failed \ {p} \in SUBSET Port /\ n.blocked \ {p} \in SUBSET Port
        /\ n.enabled \cup {p} \in SUBSET Port
        /\ n.traffic \cup ({p} \ e.vlan) \in SUBSET Port
        /\ (p \notin e.vlan) \in BOOLEAN
  BY DEF Node
<1>2. ASSUME NEW f \in SUBSET Port PROVE [n EXCEPT !.failed = f] \in Node
  BY DEF Node
<1>3. ASSUME NEW f \in SUBSET Port PROVE [n EXCEPT !.failed = f, !.ok = FALSE] \in Node
  BY DEF Node
<1>4. ASSUME NEW f \in SUBSET Port, NEW b \in SUBSET Port, NEW d \in SUBSET Port,
             NEW t \in SUBSET Port, NEW k \in BOOLEAN
      PROVE  [n EXCEPT !.failed = f, !.blocked = b, !.enabled = d,
                       !.traffic = t, !.ok = k] \in Node
  BY DEF Node
<1>5. erps_link_unblock(n, p, e) =
        IF ~n.ok THEN n
        ELSE IF p \notin n.blocked THEN [n EXCEPT !.failed = n.failed \ {p}]
        ELSE IF p \in e.port
        THEN [n EXCEPT !.failed = n.failed \ {p}, !.ok = FALSE]
        ELSE [n EXCEPT !.failed = n.failed \ {p}, !.blocked = n.blocked \ {p},
                       !.enabled = n.enabled \cup {p},
                       !.traffic = n.traffic \cup ({p} \ e.vlan),
                       !.ok = p \notin e.vlan]
  BY DEF erps_link_unblock
<1>6. [n EXCEPT !.failed = n.failed \ {p}, !.blocked = n.blocked \ {p},
                !.enabled = n.enabled \cup {p},
                !.traffic = n.traffic \cup ({p} \ e.vlan),
                !.ok = p \notin e.vlan] \in Node
  BY <1>1, <1>4
<1>7. /\ [n EXCEPT !.failed = n.failed \ {p}] \in Node
      /\ [n EXCEPT !.failed = n.failed \ {p}, !.ok = FALSE] \in Node
  BY <1>1, <1>2, <1>3
<1> QED
  BY <1>5, <1>6, <1>7, Zenon

(* So does scheduling a PDU with any request/state and status bits.        *)
LEMMA SchedTxType ==
  ASSUME NEW n \in Node, NEW rs \in {"NR", "MS", "SF", "FS"},
         NEW status \in SUBSET {"RB", "DNF"}
  PROVE  erps_node_sched_tx(n, rs, status) \in Node
<1> DEFINE new == [rs |-> rs, status |-> status]
           bursts == [p \in Port |-> IF new = n.pdu THEN 0 ELSE ERPS_RAPS_BURST]
<1>1. new \in PduMut
  BY DEF PduMut
<1>2. bursts \in [Port -> 0 .. ERPS_RAPS_BURST]
  BY BurstAssumption
<1>3. erps_node_sched_tx(n, rs, status) =
        IF ~n.ok THEN n
        ELSE [n EXCEPT !.pdu = new, !.burst = bursts, !.tx = n.up]
  BY DEF erps_node_sched_tx
<1>4. ASSUME NEW d \in PduMut, NEW b \in [Port -> 0 .. ERPS_RAPS_BURST]
      PROVE  [n EXCEPT !.pdu = d, !.burst = b, !.tx = n.up] \in Node
  BY DEF Node
<1> QED
  BY <1>1, <1>2, <1>3, <1>4, Zenon

(* So do the calls that set a flag, empty a set or change the state.       *)
LEMMA SimpleTypes ==
  ASSUME NEW n \in Node, NEW e
  PROVE  /\ erps_node_stop_tx(n) \in Node
         /\ erps_flush_fdb(n, e) \in Node
         /\ erps_node_start_guard_timer(n) \in Node
         /\ OwnerStopsTimers(n) \in Node
         /\ Fresh(n) \in Node
         /\ \A next \in State : erps_fsm_transition(n, next) \in Node
<1>1. erps_node_stop_tx(n) \in Node
  BY DEF erps_node_stop_tx, Node
<1>2. ASSUME NEW k \in BOOLEAN, NEW f \in BOOLEAN
      PROVE  [n EXCEPT !.ok = k, !.flushed = f] \in Node
  BY DEF Node
<1>3. (~e.flush) \in BOOLEAN /\ (n.flushed \/ ~e.flush) \in BOOLEAN
  OBVIOUS
<1>4. erps_flush_fdb(n, e) \in Node
  BY <1>2, <1>3, Zenon DEF erps_flush_fdb
<1>5. Fresh(n) \in Node
  BY <1>2 DEF Fresh
<1>6. erps_node_start_guard_timer(n) \in Node
  BY DEF erps_node_start_guard_timer, Node
<1>7. OwnerStopsTimers(n) \in Node
  BY DEF OwnerStopsTimers, Node
<1>8. ASSUME NEW next \in State PROVE erps_fsm_transition(n, next) \in Node
  BY DEF erps_fsm_transition, Node
<1> QED
  BY <1>1, <1>4, <1>5, <1>6, <1>7, <1>8

(* A new call keeps what the node has recorded.                            *)
LEMMA FreshKeeps ==
  ASSUME NEW n \in Node
  PROVE  Fresh(n) \in Node /\ Fresh(n).topreq = n.topreq
<1>1. Fresh(n) \in Node
  BY SimpleTypes
<1>2. Fresh(n).topreq = n.topreq
  BY DEF Fresh, Node
<1> QED
  BY <1>1, <1>2

(* The priority logic records nothing but a lasting local request.         *)
LEMMA ResolveType ==
  ASSUME NEW n \in Node, NEW req
  PROVE  erps_fsm_resolve_req_prio(n, req) \in Node
<1>1. (IF req \in LocalRequest THEN req ELSE ERPS_REQ_INVALID) \in TopRequest
  BY DEF LocalRequest, TopRequest
<1>2. ASSUME NEW t \in TopRequest PROVE [n EXCEPT !.topreq = t] \in Node
  BY DEF Node
<1> QED
  BY <1>1, <1>2 DEF erps_fsm_resolve_req_prio

(* Starting or stopping a timer keeps the record well typed.               *)
LEMMA TimerTypes ==
  ASSUME NEW n \in Node
  PROVE  /\ [n EXCEPT !.wtr = TRUE] \in Node /\ [n EXCEPT !.wtr = FALSE] \in Node
         /\ [n EXCEPT !.wtb = TRUE] \in Node /\ [n EXCEPT !.wtb = FALSE] \in Node
BY DEF Node

(* The owner's timers and R-APS(NR) keep the record well typed.            *)
LEMMA StartTypes ==
  ASSUME NEW n \in Node
  PROVE  /\ OwnerStartsWtr(n) \in Node
         /\ OwnerStartsWtb(n) \in Node
         /\ AnnounceNoRequest(n) \in Node
<1>1. erps_node_start_wtr(n) \in Node /\ erps_node_start_wtb(n) \in Node
  BY ResolveType, TimerTypes DEF erps_node_start_wtr, erps_node_start_wtb
<1>2. AnnounceNoRequest(n) \in Node
  BY SimpleTypes, SchedTxType DEF AnnounceNoRequest
<1> QED
  BY <1>1, <1>2 DEF OwnerStartsWtr, OwnerStartsWtb

(* The calls that open several ports keep the record well typed.           *)
LEMMA UnblockTypes ==
  ASSUME NEW n \in Node, NEW e
  PROVE  /\ erps_node_unblock_all(n, e) \in Node
         /\ erps_node_unblock_non_failed(n, e) \in Node
         /\ \A p \in Port : erps_link_unblock_force(n, p, e) \in Node
<1>1. \A m \in Node, p \in Port : UnblockIfNotFailed(m, p, e) \in Node
  BY UnblockType DEF UnblockIfNotFailed
<1>2. ASSUME NEW p \in Port
      PROVE  erps_link_unblock_force(n, p, e) \in Node
  <2>1. [n EXCEPT !.blocked = @ \cup {p}] \in Node
    BY DEF Node, Port
  <2> QED
    BY <2>1, UnblockType, Zenon DEF erps_link_unblock_force
<1>3. 0 \in Port /\ 1 \in Port
  BY DEF Port
<1>4. erps_node_unblock_all(n, e) \in Node
  BY <1>3, UnblockType DEF erps_node_unblock_all
<1>5. erps_node_unblock_non_failed(n, e) \in Node
  BY <1>1, <1>3 DEF erps_node_unblock_non_failed
<1> QED
  BY <1>2, <1>4, <1>5

(* The handlers shared by several states keep the record well typed.       *)
LEMMA CommonTypes ==
  ASSUME NEW n \in Node, NEW l \in Port, NEW e
  PROVE  /\ FsCommon(n, l, e) \in Node
         /\ SfCommon(n, l, e) \in Node
         /\ MsCommon(n, l, e) \in Node
         /\ RapsFsCommon(n, e) \in Node
         /\ RapsSfCommon(n, e) \in Node
         /\ RapsMsCommon(n, e) \in Node
         /\ erps_fsm_clear_common(n) \in Node
         /\ \A id : erps_fsm_maybe_unblock_and_stop(n, id, e) \in Node
         /\ \A req, timer : RemoteNoRequest(n, req, timer) \in Node
<1>1. erps_node_other_link(l) \in Port
  BY DEF erps_node_other_link, Port
<1>2. \A rs \in {"NR", "MS", "SF", "FS"}, next \in State :
        erps_fsm_fs_sf_ms(n, l, rs, next, e) \in Node
  BY <1>1, BlockType, UnblockType, SchedTxType, SimpleTypes
  DEF erps_fsm_fs_sf_ms
<1>3. \A only \in BOOLEAN, next \in State :
        erps_fsm_unblock_and_stop(n, only, next, e) \in Node
  BY UnblockTypes, SimpleTypes DEF erps_fsm_unblock_and_stop
<1>4. FsCommon(n, l, e) \in Node /\ SfCommon(n, l, e) \in Node
        /\ MsCommon(n, l, e) \in Node
  BY <1>2 DEF FsCommon, SfCommon, MsCommon, State
<1>5. RapsFsCommon(n, e) \in Node /\ RapsSfCommon(n, e) \in Node
        /\ RapsMsCommon(n, e) \in Node
  BY <1>3 DEF RapsFsCommon, RapsSfCommon, RapsMsCommon, State
<1>6. erps_fsm_clear_common(n) \in Node
  BY StartTypes, SimpleTypes DEF erps_fsm_clear_common, State
<1>7. \A id : erps_fsm_maybe_unblock_and_stop(n, id, e) \in Node
  BY UnblockTypes, SimpleTypes DEF erps_fsm_maybe_unblock_and_stop
<1>8. \A req, timer : RemoteNoRequest(n, req, timer) \in Node
  BY StartTypes, SimpleTypes DEF RemoteNoRequest, State
<1> QED
  BY <1>4, <1>5, <1>6, <1>7, <1>8

(* Posting any request in any state keeps the record well typed.           *)
LEMMA PostTypes ==
  ASSUME NEW n \in Node, NEW l \in Port, NEW req, NEW id, NEW e
  PROVE  erps_fsm_post_locked(n, l, req, id, e) \in Node
<1>0. 0 \in Port /\ Rpl \in Port /\ erps_node_other_link(Rpl) \in Port
  BY DEF Port, Rpl, erps_node_other_link
<1>1. ASSUME NEW m \in Node PROVE erps_fsm_timer_expires_pending(m, e) \in Node
  BY <1>0, BlockType, UnblockType, SchedTxType, SimpleTypes
  DEF erps_fsm_timer_expires_pending, State
<1>2. ASSUME NEW m \in Node PROVE erps_fsm_post_idle(m, l, req, id, e) \in Node
  <2>1. erps_fsm_raps_nr_rb_idle(m, e) \in Node
    BY <1>0, UnblockType, SimpleTypes DEF erps_fsm_raps_nr_rb_idle
  <2> QED
    BY <2>1, CommonTypes DEF erps_fsm_post_idle
<1>3. ASSUME NEW m \in Node PROVE erps_fsm_post_protection(m, l, req, e) \in Node
  <2>1. erps_fsm_clear_sf_protection(m) \in Node
    BY StartTypes, SimpleTypes DEF erps_fsm_clear_sf_protection, State
  <2> QED
    BY <2>1, CommonTypes DEF erps_fsm_post_protection
<1>4. ASSUME NEW m \in Node
      PROVE  erps_fsm_post_manual_switch(m, l, req, e) \in Node
  <2>1. erps_fsm_raps_ms_ms(m) \in Node
    BY StartTypes, SimpleTypes DEF erps_fsm_raps_ms_ms, State
  <2> QED
    BY <2>1, CommonTypes DEF erps_fsm_post_manual_switch
<1>5. ASSUME NEW m \in Node
      PROVE  erps_fsm_post_forced_switch(m, l, req, e) \in Node
  <2>1. erps_fsm_fs_fs(m, l, e) \in Node
    BY BlockType, SchedTxType, SimpleTypes DEF erps_fsm_fs_fs
  <2> QED
    BY <2>1, CommonTypes DEF erps_fsm_post_forced_switch
<1>6. ASSUME NEW m \in Node PROVE erps_fsm_post_pending(m, l, req, id, e) \in Node
  <2>1. erps_fsm_clear_pending(m, e) \in Node
    BY <1>1, SimpleTypes DEF erps_fsm_clear_pending, State
  <2>2. erps_fsm_raps_nr_rb_pending(m, e) \in Node
    <3>1. m.role \in {"owner", "nbr", "none"}
      BY DEF Node, Role
    <3> QED
      BY <1>0, <3>1, BlockType, UnblockType, UnblockTypes, SimpleTypes
      DEF erps_fsm_raps_nr_rb_pending, State
  <2>3. /\ erps_fsm_timer_expires_pending([m EXCEPT !.wtb = FALSE], e) \in Node
        /\ erps_fsm_timer_expires_pending([m EXCEPT !.wtr = FALSE], e) \in Node
    BY <1>1, TimerTypes, Zenon
  <2>4. MsCommon(OwnerStopsTimers(m), l, e) \in Node
    BY CommonTypes, SimpleTypes
  <2> QED
    BY <2>1, <2>2, <2>3, <2>4, CommonTypes, SimpleTypes DEF erps_fsm_post_pending
<1>7. Prepare(n, l, req) \in Node
  <2>1. [n EXCEPT !.linkDown = @ \ {l}] \in Node
    BY DEF Node
  <2>2. ASSUME NEW m \in Node PROVE [m EXCEPT !.failed = @ \cup {l}] \in Node
    BY DEF Node
  <2> QED
    BY <2>1, <2>2, ResolveType DEF Prepare
<1>8. ASSUME NEW m \in Node PROVE Dispatch(m, l, req, id, e) \in Node
  <2>1. m.state \in State
    BY DEF Node
  <2> QED
    BY <1>2, <1>3, <1>4, <1>5, <1>6, <2>1 DEF Dispatch, State
<1> QED
  BY <1>7, <1>8 DEF erps_fsm_post_locked

(* Initialization yields a well-typed record, wherever it stops.           *)
LEMMA InitTypes ==
  ASSUME NEW n \in Node, NEW c, NEW e
  PROVE  /\ erps_fsm_init(n, e) \in Node
         /\ erps_node_init(n, c, e) \in Node
<1>0. 0 \in Port /\ Rpl \in Port /\ \A p \in Port : erps_node_other_link(p) \in Port
  BY DEF Port, Rpl, erps_node_other_link
<1>1. ASSUME NEW m \in Node PROVE erps_fsm_init(m, e) \in Node
  <2> DEFINE first == IF HasRpl(m) THEN Rpl ELSE 0
             open  == erps_link_unblock_force(erps_link_block(m, first, e),
                                              erps_node_other_link(first), e)
             last  == OwnerStartsWtr(erps_node_sched_tx(open, "NR", {}))
  <2>1. first \in Port
    BY <1>0
  <2>2. open \in Node
    BY <1>0, <2>1, BlockType, UnblockTypes
  <2>3. last \in Node
    BY <2>2, SchedTxType, StartTypes
  <2>4. ASSUME NEW k \in Node
        PROVE  [k EXCEPT !.state = "PENDING", !.guard = FALSE] \in Node
    BY DEF Node, State
  <2>5. erps_fsm_init(m, e) = [last EXCEPT !.state = "PENDING", !.guard = FALSE]
    BY DEF erps_fsm_init
  <2> HIDE DEF last
  <2> QED
    BY <2>3, <2>4, <2>5
<1>2. ASSUME NEW m \in Node PROVE erps_link_init(m, c) \in Node
  <2> DEFINE configured == {p \in Port : \A q \in 0 .. p : q \notin c.vlan}
             down == {p \in configured : ~(HasRpl(m) /\ p = Rpl)}
  <2>1. down \in SUBSET Port /\ (configured = Port) \in BOOLEAN
    OBVIOUS
  <2>2. ASSUME NEW d \in SUBSET Port, NEW k \in BOOLEAN
        PROVE  [m EXCEPT !.linkDown = d, !.ok = k] \in Node
    BY DEF Node
  <2>3. erps_link_init(m, c) = [m EXCEPT !.linkDown = down, !.ok = configured = Port]
    BY DEF erps_link_init
  <2> HIDE DEF down, configured
  <2> QED
    BY <2>1, <2>2, <2>3, Zenon
<1>3. [Fresh(n) EXCEPT !.topreq = ERPS_REQ_INVALID] \in Node
  <2>1. ASSUME NEW m \in Node PROVE [m EXCEPT !.topreq = ERPS_REQ_INVALID] \in Node
    BY DEF Node, TopRequest
  <2> QED
    BY <2>1, SimpleTypes
<1>4. ASSUME NEW m \in Node
      PROVE  [m EXCEPT !.cb = TRUE, !.tx = @ \cup m.up] \in Node
  BY DEF Node
<1> QED
  BY <1>1, <1>2, <1>3, <1>4 DEF erps_node_init

-----------------------------------------------------------------------------
(***************************************************************************)
(* The timers.  TimersOnlyWhileReverting speaks of node; TimerInv says the *)
(* same of any record, so that it can be followed through a handler.       *)
(***************************************************************************)
TimerInv(n) ==
  /\ n.wtr \/ n.wtb => n.state = "PENDING" /\ RevertiveOwner(n)
  /\ n.topreq = ERPS_REQ_WTR_RUNNING => n.wtr
  /\ n.topreq = ERPS_REQ_WTB_RUNNING => n.wtb

(* The timers, what they depend on and the top request are the same.       *)
SameTimers(m, n) ==
  /\ (m.wtr <=> n.wtr) /\ (m.wtb <=> n.wtb) /\ m.topreq = n.topreq
  /\ m.role = n.role /\ (m.revertive <=> n.revertive)

(* m is n after calls that leave the timers and the state alone ...        *)
Same(m, n) == SameTimers(m, n) /\ m.state = n.state
Quiet(m, n) == m \in Node /\ Same(m, n)

(* ... and after a handler that moves to next unless one of them failed.   *)
Moves(m, n, next) ==
  m \in Node /\ SameTimers(m, n) /\ m.state = (IF m.ok THEN next ELSE n.state)

(* A request has been accepted: the top request is no timer's any more.    *)
Accepted(n) ==
  /\ n \in Node
  /\ n.wtr \/ n.wtb => n.state = "PENDING" /\ RevertiveOwner(n)
  /\ n.topreq \notin {ERPS_REQ_WTR_RUNNING, ERPS_REQ_WTB_RUNNING}

TimersOff(n) == Accepted(n) /\ ~n.wtr /\ ~n.wtb

(* Calls that are quiet one after the other are quiet together.            *)
LEMMA QuietChain ==
  ASSUME NEW a, NEW b, NEW c, Quiet(a, b), Quiet(b, c)
  PROVE  Quiet(a, c)
BY DEF Quiet, Same, SameTimers

(* Every call that works on ports, frames or the FDB is quiet.             *)
LEMMA QuietCalls ==
  ASSUME NEW n \in Node, NEW p \in Port, NEW e
  PROVE  /\ Quiet(erps_link_block(n, p, e), n)
         /\ Quiet(erps_link_unblock(n, p, e), n)
         /\ Quiet(erps_node_stop_tx(n), n)
         /\ Quiet(erps_flush_fdb(n, e), n)
         /\ Quiet(erps_node_start_guard_timer(n), n)
         /\ Quiet(Fresh(n), n)
<1>1. Same(erps_link_block(n, p, e), n)
  BY DEF erps_link_block, Same, SameTimers, Node, Fail
<1>2. Same(erps_link_unblock(n, p, e), n)
  BY DEF erps_link_unblock, Same, SameTimers, Node
<1>3. Same(erps_node_stop_tx(n), n) /\ Same(erps_flush_fdb(n, e), n)
  BY DEF erps_node_stop_tx, erps_flush_fdb, Same, SameTimers, Node
<1>4. Same(erps_node_start_guard_timer(n), n) /\ Same(Fresh(n), n)
  BY DEF erps_node_start_guard_timer, Fresh, Same, SameTimers, Node
<1> QED
  BY <1>1, <1>2, <1>3, <1>4, BlockType, UnblockType, SimpleTypes DEF Quiet

(* Scheduling a PDU is quiet.                                              *)
LEMMA QuietSchedTx ==
  ASSUME NEW n \in Node, NEW rs \in {"NR", "MS", "SF", "FS"},
         NEW status \in SUBSET {"RB", "DNF"}
  PROVE  Quiet(erps_node_sched_tx(n, rs, status), n)
<1>1. Same(erps_node_sched_tx(n, rs, status), n)
  BY DEF erps_node_sched_tx, Same, SameTimers, Node
<1> QED
  BY <1>1, SchedTxType DEF Quiet

(* So are the calls that work on both ports, and the announcement of NR.   *)
LEMMA QuietNodeCalls ==
  ASSUME NEW n \in Node, NEW e
  PROVE  /\ Quiet(erps_node_unblock_all(n, e), n)
         /\ Quiet(erps_node_unblock_non_failed(n, e), n)
         /\ \A p \in Port : Quiet(erps_link_unblock_force(n, p, e), n)
         /\ \A id : Quiet(erps_fsm_maybe_unblock_and_stop(n, id, e), n)
         /\ Quiet(AnnounceNoRequest(n), n)
<1>0. 0 \in Port /\ 1 \in Port
  BY DEF Port
<1>1. Quiet(erps_node_unblock_all(n, e), n)
  BY <1>0, QuietCalls DEF erps_node_unblock_all, Quiet, Same, SameTimers
<1>2. \A m \in Node, p \in Port : Quiet(UnblockIfNotFailed(m, p, e), m)
  BY QuietCalls DEF UnblockIfNotFailed, Quiet, Same, SameTimers
<1>3. Quiet(erps_node_unblock_non_failed(n, e), n)
  BY <1>0, <1>2 DEF erps_node_unblock_non_failed, Quiet, Same, SameTimers
<1>4. ASSUME NEW p \in Port PROVE Quiet(erps_link_unblock_force(n, p, e), n)
  <2> DEFINE m == [n EXCEPT !.blocked = @ \cup {p}]
  <2>1. Quiet(m, n)
    BY UnblockTypes DEF Quiet, Same, SameTimers, Node, Port
  <2>2. erps_link_unblock_force(n, p, e) =
          IF ~n.ok THEN n ELSE erps_link_unblock(m, p, e)
    BY DEF erps_link_unblock_force
  <2> HIDE DEF m
  <2> QED
    BY <2>1, <2>2, QuietCalls DEF Quiet, Same, SameTimers
<1>5. \A id : Quiet(erps_fsm_maybe_unblock_and_stop(n, id, e), n)
  BY <1>0, <1>3, QuietCalls DEF erps_fsm_maybe_unblock_and_stop, Quiet, Same, SameTimers
<1>6. Quiet(AnnounceNoRequest(n), n)
  BY <1>0, QuietCalls, QuietSchedTx DEF AnnounceNoRequest, Quiet, Same, SameTimers
<1> QED
  BY <1>1, <1>3, <1>4, <1>5, <1>6

(* A transition after quiet calls moves.                                   *)
LEMMA TransitionMoves ==
  ASSUME NEW n \in Node, NEW m, Quiet(m, n), NEW next \in State
  PROVE  Moves(erps_fsm_transition(m, next), n, next)
BY SimpleTypes DEF erps_fsm_transition, Quiet, Moves, Same, SameTimers, Node

(* The handlers shared by several states move and leave the timers alone.  *)
LEMMA CommonMoves ==
  ASSUME NEW n \in Node, NEW l \in Port, NEW e
  PROVE  /\ Moves(FsCommon(n, l, e), n, "FORCED_SWITCH")
         /\ Moves(SfCommon(n, l, e), n, "PROTECTION")
         /\ Moves(MsCommon(n, l, e), n, "MANUAL_SWITCH")
         /\ Moves(RapsFsCommon(n, e), n, "FORCED_SWITCH")
         /\ Moves(RapsSfCommon(n, e), n, "PROTECTION")
         /\ Moves(RapsMsCommon(n, e), n, "MANUAL_SWITCH")
         /\ Moves(erps_fsm_timer_expires_pending(n, e), n, "IDLE")
<1>0. 0 \in Port /\ Rpl \in Port /\ \A p \in Port : erps_node_other_link(p) \in Port
  BY DEF Port, Rpl, erps_node_other_link
<1>1. ASSUME NEW p \in Port, NEW rs \in {"NR", "MS", "SF", "FS"},
             NEW status \in SUBSET {"RB", "DNF"}
      PROVE  LET m == erps_link_unblock(
                        erps_node_sched_tx(erps_link_block(n, p, e), rs, status),
                        erps_node_other_link(p), e)
             IN  Quiet(m, n) /\ Quiet(erps_flush_fdb(m, e), n)
  <2> DEFINE b == erps_link_block(n, p, e)
             t == erps_node_sched_tx(b, rs, status)
             u == erps_link_unblock(t, erps_node_other_link(p), e)
  <2>1. Quiet(b, n)
    BY QuietCalls
  <2>2. Quiet(t, b)
    BY <2>1, QuietSchedTx DEF Quiet
  <2>3. Quiet(u, t)
    BY <1>0, <2>2, QuietCalls DEF Quiet
  <2>4. Quiet(erps_flush_fdb(u, e), u)
    BY <1>0, <2>3, QuietCalls DEF Quiet
  <2> QED
    BY <2>1, <2>2, <2>3, <2>4, QuietChain
<1>2. \A rs \in {"NR", "MS", "SF", "FS"}, next \in State :
        Moves(erps_fsm_fs_sf_ms(n, l, rs, next, e), n, next)
  BY <1>1, TransitionMoves DEF erps_fsm_fs_sf_ms
<1>3. Moves(erps_fsm_timer_expires_pending(n, e), n, "IDLE")
  BY <1>0, <1>1, TransitionMoves DEF erps_fsm_timer_expires_pending, State
<1>4. ASSUME NEW only \in BOOLEAN, NEW next \in State
      PROVE  Moves(erps_fsm_unblock_and_stop(n, only, next, e), n, next)
  <2>1. /\ Quiet(erps_node_stop_tx(erps_node_unblock_all(n, e)), n)
        /\ Quiet(erps_node_stop_tx(erps_node_unblock_non_failed(n, e)), n)
    <3> DEFINE a == erps_node_unblock_all(n, e)
               b == erps_node_unblock_non_failed(n, e)
    <3>1. Quiet(a, n) /\ Quiet(b, n)
      BY QuietNodeCalls
    <3>2. Quiet(erps_node_stop_tx(a), a) /\ Quiet(erps_node_stop_tx(b), b)
      BY <1>0, <3>1, QuietCalls DEF Quiet
    <3> QED
      BY <3>1, <3>2, QuietChain
  <2> QED
    BY <2>1, TransitionMoves DEF erps_fsm_unblock_and_stop
<1> QED
  BY <1>2, <1>3, <1>4
  DEF FsCommon, SfCommon, MsCommon, RapsFsCommon, RapsSfCommon, RapsMsCommon, State

(* Handlers that start a timer do so on their way to PENDING, and record   *)
(* it as top request only if it runs.                                      *)
LEMMA StartedOnTheWayToPending ==
  ASSUME NEW n, TimersOff(n)
  PROVE  /\ TimerInv(erps_fsm_transition(OwnerStartsWtr(n), "PENDING"))
         /\ TimerInv(erps_fsm_transition(OwnerStartsWtb(n), "PENDING"))
         /\ TimerInv([OwnerStartsWtr(n) EXCEPT !.state = "PENDING"])
<1>1. n \in Node /\ ~n.wtr /\ ~n.wtb
        /\ n.topreq # ERPS_REQ_WTR_RUNNING /\ n.topreq # ERPS_REQ_WTB_RUNNING
  BY DEF TimersOff, Accepted
<1>2. ERPS_REQ_WTR_RUNNING # ERPS_REQ_WTB_RUNNING
  BY DEF ERPS_REQ_WTR_RUNNING, ERPS_REQ_WTB_RUNNING
<1>3. ASSUME NEW req \in {ERPS_REQ_WTR_RUNNING, ERPS_REQ_WTB_RUNNING},
             NEW m, m = erps_fsm_resolve_req_prio(n, req)
      PROVE  /\ m \in Node /\ (m.ok <=> n.ok) /\ ~m.wtr /\ ~m.wtb
             /\ m.role = n.role /\ (m.revertive <=> n.revertive)
             /\ m.topreq = req \/ m.topreq = n.topreq
  <2>1. m \in Node
    BY <1>1, <1>3, ResolveType
  <2>2. m = n \/ m = [n EXCEPT !.topreq = req]
    BY <1>3 DEF erps_fsm_resolve_req_prio, LocalRequest
  <2> QED
    BY <1>1, <2>1, <2>2 DEF Node
<1>4. CASE RevertiveOwner(n) /\ n.ok
  <2> DEFINE wr == erps_fsm_resolve_req_prio(n, ERPS_REQ_WTR_RUNNING)
             wb == erps_fsm_resolve_req_prio(n, ERPS_REQ_WTB_RUNNING)
  <2>1. OwnerStartsWtr(n) = [wr EXCEPT !.wtr = TRUE]
          /\ OwnerStartsWtb(n) = [wb EXCEPT !.wtb = TRUE]
    BY <1>1, <1>4 DEF OwnerStartsWtr, OwnerStartsWtb, erps_node_start_wtr,
                      erps_node_start_wtb
  <2>2. RevertiveOwner(wr) /\ RevertiveOwner(wb)
    BY <1>3, <1>4 DEF RevertiveOwner, erps_node_is_rpl_owner
  <2>3. /\ wr \in Node /\ wr.ok /\ ~wr.wtb /\ wr.topreq # ERPS_REQ_WTB_RUNNING
        /\ wb \in Node /\ wb.ok /\ ~wb.wtr /\ wb.topreq # ERPS_REQ_WTR_RUNNING
    BY <1>1, <1>2, <1>3, <1>4
  <2> HIDE DEF wr, wb
  <2> QED
    BY <2>1, <2>2, <2>3
    DEF erps_fsm_transition, TimerInv, RevertiveOwner, erps_node_is_rpl_owner, Node
<1>5. CASE ~(RevertiveOwner(n) /\ n.ok)
  BY <1>1, <1>5
  DEF OwnerStartsWtr, OwnerStartsWtb, erps_node_start_wtr, erps_node_start_wtb,
      erps_fsm_transition, TimerInv, Node
<1> QED
  BY <1>4, <1>5

(* A handler that only moves keeps the timer invariant if no timer runs,   *)
(* and if one may run, as long as it stays in PENDING.                     *)
LEMMA MovesKeepsTimers ==
  ASSUME NEW n, NEW m, NEW next, Moves(m, n, next), Accepted(n),
         TimersOff(n) \/ next = "PENDING"
  PROVE  TimerInv(m)
BY DEF Moves, SameTimers, TimersOff, Accepted, TimerInv, RevertiveOwner,
       erps_node_is_rpl_owner

(* So does a handler that is quiet.                                        *)
LEMMA QuietKeepsTimers ==
  ASSUME NEW n, NEW m, Quiet(m, n), Accepted(n)
  PROVE  TimerInv(m)
BY DEF Quiet, Same, SameTimers, Accepted, TimerInv, RevertiveOwner,
       erps_node_is_rpl_owner

(* Where the owner stops its timers, no timer runs afterwards.             *)
LEMMA StoppedTimers ==
  ASSUME NEW n, Accepted(n), n.ok
  PROVE  TimersOff(OwnerStopsTimers(n))
<1>1. OwnerStopsTimers(n) \in Node
  BY SimpleTypes DEF Accepted
<1>2. CASE erps_node_is_rpl_owner(n)
  <2>1. OwnerStopsTimers(n) = [n EXCEPT !.wtr = FALSE, !.wtb = FALSE]
    BY <1>2 DEF OwnerStopsTimers
  <2> QED
    BY <1>1, <2>1 DEF TimersOff, Accepted, Node
<1>3. CASE ~erps_node_is_rpl_owner(n)
  BY <1>3 DEF OwnerStopsTimers, TimersOff, Accepted, RevertiveOwner
<1> QED
  BY <1>2, <1>3

(* Where it stops them last, either that happens or the handler has failed *)
(* and left the state PENDING and the timers running.                      *)
LEMMA StoppedLast ==
  ASSUME NEW n, NEW m, NEW next, Accepted(n), Moves(m, n, next)
  PROVE  TimerInv(OwnerStopsTimers(m))
<1>1. CASE m.ok /\ erps_node_is_rpl_owner(m)
  <2>1. OwnerStopsTimers(m) = [m EXCEPT !.wtr = FALSE, !.wtb = FALSE]
    BY <1>1 DEF OwnerStopsTimers
  <2> QED
    BY <2>1 DEF Moves, SameTimers, Accepted, TimerInv, Node
<1>2. CASE ~(m.ok /\ erps_node_is_rpl_owner(m))
  <2>1. OwnerStopsTimers(m) = m
    BY <1>2 DEF OwnerStopsTimers
  <2> QED
    BY <1>2, <2>1 DEF Moves, SameTimers, Accepted, TimerInv, RevertiveOwner,
                      erps_node_is_rpl_owner
<1> QED
  BY <1>1, <1>2

(* R-APS(NR), R-APS(NR,RB), CLEAR and CLEAR_SF start the state's timer, if *)
(* any, and go to PENDING.                                                 *)
LEMMA PendingHandlers ==
  ASSUME NEW n, TimersOff(n)
  PROVE  /\ TimerInv(erps_fsm_clear_common(n))
         /\ TimerInv(erps_fsm_clear_sf_protection(n))
         /\ TimerInv(erps_fsm_raps_ms_ms(n))
         /\ \A req, timer : TimerInv(RemoteNoRequest(n, req, timer))
<1>1. n \in Node /\ Accepted(n)
  BY DEF TimersOff, Accepted
<1>2. Quiet(AnnounceNoRequest(n), n)
  BY <1>1, QuietNodeCalls
<1>3. TimersOff(AnnounceNoRequest(n))
  BY <1>2 DEF Quiet, Same, SameTimers, TimersOff, Accepted
<1>4. TimerInv(n) /\ TimerInv(erps_fsm_transition(n, "PENDING"))
  BY <1>1 DEF erps_fsm_transition, TimerInv, TimersOff, Accepted, Node
<1>5. TimerInv(erps_fsm_clear_common(n))
  BY <1>3, <1>4, StartedOnTheWayToPending DEF erps_fsm_clear_common
<1>6. TimerInv(erps_fsm_clear_sf_protection(n))
  BY <1>3, StartedOnTheWayToPending DEF erps_fsm_clear_sf_protection
<1>7. TimerInv(erps_fsm_raps_ms_ms(n))
  <2>1. CASE n.blocked = {}
    BY <1>4, <2>1 DEF erps_fsm_raps_ms_ms
  <2>2. CASE n.blocked # {} /\ RevertiveOwner(n)
    BY <1>3, <2>2, StartedOnTheWayToPending DEF erps_fsm_raps_ms_ms
  <2>3. CASE n.blocked # {} /\ ~RevertiveOwner(n)
    <3> DEFINE a == AnnounceNoRequest(n)
    <3>1. OwnerStartsWtb(a) = a
      BY <1>2, <2>3 DEF OwnerStartsWtb, RevertiveOwner, erps_node_is_rpl_owner,
                        Quiet, Same, SameTimers
    <3>2. erps_fsm_raps_ms_ms(n) = erps_fsm_transition(a, "MANUAL_SWITCH")
      BY <2>3, <3>1 DEF erps_fsm_raps_ms_ms
    <3>3. Moves(erps_fsm_transition(a, "MANUAL_SWITCH"), n, "MANUAL_SWITCH")
      BY <1>1, <1>2, TransitionMoves DEF State
    <3> QED
      BY <1>1, <3>2, <3>3, MovesKeepsTimers
  <2> QED
    BY <2>1, <2>2, <2>3
<1>8. \A req, timer : TimerInv(RemoteNoRequest(n, req, timer))
  BY <1>4, StartedOnTheWayToPending DEF RemoteNoRequest
<1> QED
  BY <1>5, <1>6, <1>7, <1>8

(* The tables of the states in which no timer runs.                        *)
LEMMA SwitchedPostsKeepTimers ==
  ASSUME NEW n, TimersOff(n), NEW l \in Port, NEW req, NEW id, NEW e
  PROVE  /\ TimerInv(erps_fsm_post_idle(n, l, req, id, e))
         /\ TimerInv(erps_fsm_post_protection(n, l, req, e))
         /\ TimerInv(erps_fsm_post_manual_switch(n, l, req, e))
         /\ TimerInv(erps_fsm_post_forced_switch(n, l, req, e))
<1>1. n \in Node /\ Accepted(n) /\ 0 \in Port
  BY DEF TimersOff, Accepted, Port
<1>2. TimerInv(n)
  BY DEF TimersOff, Accepted, TimerInv
<1>3. /\ TimerInv(FsCommon(n, l, e)) /\ TimerInv(RapsFsCommon(n, e))
      /\ TimerInv(SfCommon(n, l, e)) /\ TimerInv(RapsSfCommon(n, e))
      /\ TimerInv(MsCommon(n, l, e)) /\ TimerInv(RapsMsCommon(n, e))
  BY <1>1, CommonMoves, MovesKeepsTimers
<1>4. TimerInv(erps_fsm_maybe_unblock_and_stop(n, id, e))
  BY <1>1, QuietNodeCalls, QuietKeepsTimers
<1>5. TimerInv(erps_fsm_raps_nr_rb_idle(n, e))
  <2> DEFINE m == IF HasRpl(n) THEN erps_link_unblock(n, 0, e) ELSE n
  <2>1. Quiet(n, n)
    BY <1>1 DEF Quiet, Same, SameTimers
  <2>2. Quiet(m, n)
    BY <1>1, <2>1, QuietCalls
  <2>3. Quiet(erps_node_stop_tx(m), m)
    BY <1>1, <2>2, QuietCalls DEF Quiet
  <2>4. Quiet(erps_fsm_raps_nr_rb_idle(n, e), n)
    BY <2>2, <2>3, QuietChain DEF erps_fsm_raps_nr_rb_idle
  <2> QED
    BY <1>1, <2>4, QuietKeepsTimers
<1>6. TimerInv(erps_fsm_fs_fs(n, l, e))
  <2> DEFINE b == erps_link_block(n, l, e)
             t == erps_node_sched_tx(b, "FS", {})
  <2>1. Quiet(b, n)
    BY <1>1, QuietCalls
  <2>2. Quiet(t, b)
    BY <2>1, QuietSchedTx DEF Quiet
  <2>3. Quiet(erps_flush_fdb(t, e), t)
    BY <1>1, <2>2, QuietCalls DEF Quiet
  <2>4. Quiet(erps_fsm_fs_fs(n, l, e), n)
    BY <2>1, <2>2, <2>3, QuietChain DEF erps_fsm_fs_fs
  <2> QED
    BY <1>1, <2>4, QuietKeepsTimers
<1>7. TimerInv(erps_fsm_post_idle(n, l, req, id, e))
  BY <1>2, <1>3, <1>4, <1>5 DEF erps_fsm_post_idle
<1>8. TimerInv(erps_fsm_post_protection(n, l, req, e))
  BY <1>2, <1>3, PendingHandlers DEF erps_fsm_post_protection
<1>9. TimerInv(erps_fsm_post_manual_switch(n, l, req, e))
  BY <1>2, <1>3, PendingHandlers DEF erps_fsm_post_manual_switch
<1>10. TimerInv(erps_fsm_post_forced_switch(n, l, req, e))
  BY <1>2, <1>3, <1>6, PendingHandlers DEF erps_fsm_post_forced_switch
<1> QED
  BY <1>7, <1>8, <1>9, <1>10

(* CLEAR and R-APS(NR,RB) end PENDING; no timer survives.                  *)
LEMMA PendingEndsKeepTimers ==
  ASSUME NEW n, Accepted(n), n.ok, NEW e
  PROVE  /\ TimerInv(erps_fsm_clear_pending(n, e))
         /\ TimerInv(erps_fsm_raps_nr_rb_pending(n, e))
<1>0. n \in Node /\ 0 \in Port /\ Rpl \in Port
  BY DEF Accepted, Port, Rpl
<1>1. TimersOff(OwnerStopsTimers(n)) /\ OwnerStopsTimers(n) \in Node
  BY StoppedTimers, SimpleTypes DEF Accepted
<1>2. ASSUME ~erps_node_is_rpl_owner(n) PROVE TimersOff(n)
  BY <1>2 DEF Accepted, TimersOff, RevertiveOwner
<1>3. ASSUME NEW k, NEW m, TimersOff(k), Quiet(m, k)
      PROVE  TimerInv(erps_fsm_transition(m, "IDLE"))
  <2>1. Accepted(k) /\ k \in Node
    BY <1>3 DEF TimersOff, Accepted
  <2> QED
    BY <1>3, <2>1, TransitionMoves, MovesKeepsTimers DEF State
<1>4. \A k \in Node : Quiet(k, k)
  BY DEF Quiet, Same, SameTimers
<1>5. TimerInv(erps_fsm_clear_pending(n, e))
  <2>1. CASE HasRpl(n)
    <3> DEFINE o == OwnerStopsTimers(n)
    <3>1. Moves(erps_fsm_timer_expires_pending(o, e), o, "IDLE")
      BY <1>0, <1>1, CommonMoves
    <3>2. TimerInv(erps_fsm_timer_expires_pending(o, e))
      BY <1>1, <3>1, MovesKeepsTimers DEF TimersOff
    <3> QED
      BY <2>1, <3>2 DEF erps_fsm_clear_pending
  <2>2. CASE ~HasRpl(n)
    BY <1>0, <1>2, <1>3, <1>4, <2>2
    DEF erps_fsm_clear_pending, HasRpl, erps_node_is_rpl_owner
  <2> QED
    BY <2>1, <2>2
<1>6. TimerInv(erps_fsm_raps_nr_rb_pending(n, e))
  <2> DEFINE a == erps_node_unblock_all(n, e)
             b == erps_link_block(n, Rpl, e)
             u == erps_link_unblock(b, 0, e)
  <2>1. CASE n.role = "owner"
    <3>1. erps_fsm_raps_nr_rb_pending(n, e)
            = erps_fsm_transition(OwnerStopsTimers(n), "IDLE")
      BY <2>1 DEF erps_fsm_raps_nr_rb_pending
    <3> QED
      BY <1>1, <1>3, <1>4, <3>1
  <2>2. CASE n.role = "none"
    <3>1. erps_fsm_raps_nr_rb_pending(n, e)
            = erps_fsm_transition(erps_node_stop_tx(a), "IDLE")
      BY <2>2 DEF erps_fsm_raps_nr_rb_pending
    <3>2. Quiet(a, n)
      BY <1>0, QuietNodeCalls
    <3>3. Quiet(erps_node_stop_tx(a), a)
      BY <1>0, <3>2, QuietCalls DEF Quiet
    <3>4. Quiet(erps_node_stop_tx(a), n)
      BY <3>2, <3>3, QuietChain
    <3> QED
      BY <1>2, <1>3, <2>2, <3>1, <3>4 DEF erps_node_is_rpl_owner
  <2>3. CASE n.role = "nbr"
    <3>1. erps_fsm_raps_nr_rb_pending(n, e)
            = erps_fsm_transition(erps_node_stop_tx(u), "IDLE")
      BY <2>3 DEF erps_fsm_raps_nr_rb_pending
    <3>2. Quiet(b, n)
      BY <1>0, QuietCalls
    <3>3. Quiet(u, b)
      BY <1>0, <3>2, QuietCalls DEF Quiet
    <3>4. Quiet(erps_node_stop_tx(u), u)
      BY <1>0, <3>3, QuietCalls DEF Quiet
    <3>5. Quiet(erps_node_stop_tx(u), n)
      BY <3>2, <3>3, <3>4, QuietChain
    <3> QED
      BY <1>2, <1>3, <2>3, <3>1, <3>5 DEF erps_node_is_rpl_owner
  <2> QED
    BY <1>0, <2>1, <2>2, <2>3 DEF Node, Role
<1> QED
  BY <1>5, <1>6

(* The table of PENDING, for every request but an expiry.                  *)
LEMMA PendingPostKeepsTimers ==
  ASSUME NEW n, Accepted(n), n.ok, n.state = "PENDING",
         NEW l \in Port, NEW req, NEW id, NEW e,
         req \notin {ERPS_REQ_WTR_EXPIRES, ERPS_REQ_WTB_EXPIRES}
  PROVE  TimerInv(erps_fsm_post_pending(n, l, req, id, e))
<1>1. n \in Node
  BY DEF Accepted
<1>2. TimerInv(n)
  BY DEF Accepted, TimerInv
<1>3. /\ TimerInv(OwnerStopsTimers(FsCommon(n, l, e)))
      /\ TimerInv(OwnerStopsTimers(RapsFsCommon(n, e)))
      /\ TimerInv(OwnerStopsTimers(SfCommon(n, l, e)))
      /\ TimerInv(OwnerStopsTimers(RapsSfCommon(n, e)))
      /\ TimerInv(OwnerStopsTimers(RapsMsCommon(n, e)))
  BY <1>1, CommonMoves, StoppedLast
<1>4. TimerInv(MsCommon(OwnerStopsTimers(n), l, e))
  <2> DEFINE o == OwnerStopsTimers(n)
  <2>1. TimersOff(o) /\ Accepted(o) /\ o \in Node
    BY <1>1, StoppedTimers, SimpleTypes DEF TimersOff
  <2>2. Moves(MsCommon(o, l, e), o, "MANUAL_SWITCH")
    BY <2>1, CommonMoves
  <2> QED
    BY <2>1, <2>2, MovesKeepsTimers
<1>5. TimerInv(erps_fsm_maybe_unblock_and_stop(n, id, e))
  BY <1>1, QuietNodeCalls, QuietKeepsTimers
<1> QED
  BY <1>2, <1>3, <1>4, <1>5, PendingEndsKeepTimers DEF erps_fsm_post_pending

(* Requests whose recording as top request says that a timer runs.         *)
TimerRunning == {ERPS_REQ_WTR_RUNNING, ERPS_REQ_WTB_RUNNING}

(* What is done before the dispatch leaves all but the top request as far  *)
(* as the timers are concerned, and that only if the request is accepted.  *)
LEMMA PrepareTimers ==
  ASSUME NEW n \in Node, NEW l \in Port, NEW req
  PROVE  LET m == Prepare(n, l, req) IN
         /\ m \in Node /\ m.state = n.state /\ (m.ok <=> n.ok)
         /\ (m.wtr <=> n.wtr) /\ (m.wtb <=> n.wtb)
         /\ m.role = n.role /\ (m.revertive <=> n.revertive)
         /\ ~RequestAccepted(n, req) => m.topreq = n.topreq
         /\ RequestAccepted(n, req) =>
              m.topreq = IF req \in LocalRequest THEN req ELSE ERPS_REQ_INVALID
<1> DEFINE c == IF req = ERPS_REQ_CLEAR_SF
                THEN [n EXCEPT !.linkDown = @ \ {l}] ELSE n
           t == IF req \in LocalRequest THEN req ELSE ERPS_REQ_INVALID
           r == erps_fsm_resolve_req_prio(c, req)
           m == Prepare(n, l, req)
<1>1. /\ c \in Node /\ c.state = n.state /\ (c.ok <=> n.ok)
      /\ (c.wtr <=> n.wtr) /\ (c.wtb <=> n.wtb) /\ c.topreq = n.topreq
      /\ c.role = n.role /\ (c.revertive <=> n.revertive)
  BY DEF Node
<1>2. RequestAccepted(c, req) <=> RequestAccepted(n, req)
  BY <1>1 DEF RequestAccepted, erps_local_clear_valid, erps_node_is_rpl_owner
<1>3. r \in Node
  BY <1>1, ResolveType
<1>4. r = IF RequestAccepted(n, req) THEN [c EXCEPT !.topreq = t] ELSE c
  BY <1>2 DEF erps_fsm_resolve_req_prio
<1> HIDE DEF c, t
<1>5. /\ r.state = n.state /\ (r.ok <=> n.ok)
      /\ (r.wtr <=> n.wtr) /\ (r.wtb <=> n.wtb)
      /\ r.role = n.role /\ (r.revertive <=> n.revertive)
      /\ r.topreq = IF RequestAccepted(n, req) THEN t ELSE n.topreq
  BY <1>1, <1>4 DEF Node
<1>6. m = r \/ m = [r EXCEPT !.failed = @ \cup {l}]
  BY DEF Prepare, c
<1> HIDE DEF r, m
<1>7. /\ m \in Node /\ m.state = r.state /\ (m.ok <=> r.ok)
      /\ (m.wtr <=> r.wtr) /\ (m.wtb <=> r.wtb) /\ m.topreq = r.topreq
      /\ m.role = r.role /\ (m.revertive <=> r.revertive)
  BY <1>3, <1>6 DEF Node
<1> QED
  BY <1>5, <1>7 DEF t, m

(* Posting a request keeps the timer invariant, unless a timer expires or  *)
(* starts: those requests are posted by the timers' own code only.         *)
LEMMA PostKeepsTimers ==
  ASSUME NEW n \in Node, TimerInv(n), n.ok, NEW l \in Port, NEW req, NEW id,
         NEW e,
         req \notin TimerRunning \cup {ERPS_REQ_WTR_EXPIRES, ERPS_REQ_WTB_EXPIRES}
  PROVE  TimerInv(erps_fsm_post_locked(n, l, req, id, e))
<1> DEFINE m == Prepare(n, l, req)
           t == IF req \in LocalRequest THEN req ELSE ERPS_REQ_INVALID
<1>1. t \notin {ERPS_REQ_WTR_RUNNING, ERPS_REQ_WTB_RUNNING}
  BY DEF TimerRunning, ERPS_REQ_WTR_RUNNING, ERPS_REQ_WTB_RUNNING,
         ERPS_REQ_INVALID
<1>2. m \in Node /\ m.ok /\ m.state \in State
  BY PrepareTimers DEF Node
<1>3. TimerInv(m)
  BY <1>1, PrepareTimers DEF TimerInv, RevertiveOwner, erps_node_is_rpl_owner
<1>4. RequestAccepted(n, req) => Accepted(m)
  BY <1>1, PrepareTimers DEF TimerInv, RevertiveOwner, erps_node_is_rpl_owner,
                             Accepted
<1> HIDE DEF m
<1>5. ASSUME Accepted(m) PROVE TimerInv(Dispatch(m, l, req, id, e))
  <2>1. CASE m.state = "PENDING"
    BY <1>2, <1>5, <2>1, PendingPostKeepsTimers DEF Dispatch
  <2>2. CASE m.state # "PENDING"
    <3>1. TimersOff(m)
      BY <1>5, <2>2 DEF Accepted, TimersOff
    <3> QED
      BY <1>2, <1>3, <2>2, <3>1, SwitchedPostsKeepTimers DEF Dispatch, State
  <2> QED
    BY <2>1, <2>2
<1> QED
  BY <1>3, <1>4, <1>5 DEF erps_fsm_post_locked, m

(* An expiry that is accepted ends PENDING with both timers stopped; one   *)
(* that is not leaves a top request which is not the expired timer's.      *)
LEMMA ExpiryKeepsTimers ==
  ASSUME NEW n \in Node, TimerInv(n), NEW e
  PROVE  /\ n.wtr => TimerInv(erps_fsm_post_locked(Fresh([n EXCEPT !.wtr = FALSE]), 0,
                  ERPS_REQ_WTR_EXPIRES, 0, e))
         /\ n.wtb => TimerInv(erps_fsm_post_locked(Fresh([n EXCEPT !.wtb = FALSE]), 0,
                  ERPS_REQ_WTB_EXPIRES, 0, e))
<1>0. 0 \in Port
  BY DEF Port
<1>1. ASSUME NEW x \in Node, x.ok, x.state = "PENDING", RevertiveOwner(x),
             NEW req \in {ERPS_REQ_WTR_EXPIRES, ERPS_REQ_WTB_EXPIRES},
             req = ERPS_REQ_WTR_EXPIRES => ~x.wtr,
             req = ERPS_REQ_WTB_EXPIRES => ~x.wtb,
             ~RequestAccepted(x, req) => TimerInv(x)
      PROVE  TimerInv(erps_fsm_post_locked(x, 0, req, 0, e))
  <2> DEFINE m == Prepare(x, 0, req)
  <2>1. req \notin LocalRequest /\ req # ERPS_REQ_CLEAR_SF
    BY DEF LocalRequest, ERPS_REQ_SF, ERPS_REQ_FS, ERPS_REQ_MS,
           ERPS_REQ_WTR_RUNNING, ERPS_REQ_WTB_RUNNING, ERPS_REQ_WTR_EXPIRES,
           ERPS_REQ_WTB_EXPIRES, ERPS_REQ_CLEAR_SF
  <2>2. ~IgnoredOnRpl(x, 0, req)
    BY <2>1 DEF IgnoredOnRpl
  <2>3. /\ m \in Node /\ m.state = "PENDING" /\ m.role = "owner"
        /\ (m.wtr <=> x.wtr) /\ (m.wtb <=> x.wtb)
        /\ RevertiveOwner(m)
    BY <1>0, <1>1, PrepareTimers DEF RevertiveOwner, erps_node_is_rpl_owner
  <2>4. CASE ~RequestAccepted(x, req)
    <3>1. TimerInv(m)
      BY <1>0, <1>1, <2>3, <2>4, PrepareTimers DEF TimerInv
    <3> QED
      BY <2>4, <3>1 DEF erps_fsm_post_locked
  <2>5. CASE RequestAccepted(x, req)
    <3>1. m.topreq = ERPS_REQ_INVALID
      BY <1>0, <2>1, <2>5, PrepareTimers
    <3> HIDE DEF m
    <3> DEFINE k == IF req = ERPS_REQ_WTR_EXPIRES THEN [m EXCEPT !.wtb = FALSE]
                    ELSE [m EXCEPT !.wtr = FALSE]
    <3>2. k \in Node /\ ~k.wtr /\ ~k.wtb /\ k.topreq = ERPS_REQ_INVALID
      BY <1>1, <2>3, <3>1 DEF Node
    <3>3. TimersOff(k) /\ Accepted(k)
      BY <3>2 DEF TimersOff, Accepted, ERPS_REQ_INVALID, ERPS_REQ_WTR_RUNNING,
                  ERPS_REQ_WTB_RUNNING
    <3>4. erps_fsm_post_locked(x, 0, req, 0, e) =
            erps_fsm_timer_expires_pending(k, e)
      <4>1. erps_fsm_post_locked(x, 0, req, 0, e) =
              erps_fsm_post_pending(m, 0, req, 0, e)
        BY <2>2, <2>3, <2>5 DEF erps_fsm_post_locked, Dispatch, m
      <4> QED
        BY <2>3, <4>1
        DEF erps_fsm_post_pending, erps_node_is_rpl_owner, ERPS_REQ_CLEAR,
            ERPS_REQ_FS, ERPS_REQ_RAPS_FS, ERPS_REQ_SF, ERPS_REQ_CLEAR_SF,
            ERPS_REQ_RAPS_SF, ERPS_REQ_RAPS_MS, ERPS_REQ_MS,
            ERPS_REQ_WTR_EXPIRES, ERPS_REQ_WTB_EXPIRES, ERPS_REQ_RAPS_NR_RB,
            ERPS_REQ_RAPS_NR
    <3> HIDE DEF k
    <3> QED
      BY <1>0, <3>2, <3>3, <3>4, CommonMoves, MovesKeepsTimers
  <2> QED
    BY <2>4, <2>5
<1>2. ASSUME n.wtr
      PROVE  TimerInv(erps_fsm_post_locked(Fresh([n EXCEPT !.wtr = FALSE]), 0,
                  ERPS_REQ_WTR_EXPIRES, 0, e))
  <2> DEFINE x == Fresh([n EXCEPT !.wtr = FALSE])
  <2>1. /\ x \in Node /\ x.ok /\ ~x.wtr /\ (x.wtb <=> n.wtb)
        /\ x.state = n.state /\ x.topreq = n.topreq
        /\ x.role = n.role /\ (x.revertive <=> n.revertive)
    BY DEF Fresh, Node
  <2>2. x.state = "PENDING" /\ RevertiveOwner(x)
    BY <1>2, <2>1 DEF TimerInv, RevertiveOwner, erps_node_is_rpl_owner
  <2>3. ~RequestAccepted(x, ERPS_REQ_WTR_EXPIRES) => TimerInv(x)
    BY <2>1, <2>2
    DEF RequestAccepted, TimerInv, Node, TopRequest, ERPS_REQ_WTR_EXPIRES,
        ERPS_REQ_WTR_RUNNING, ERPS_REQ_WTB_RUNNING, ERPS_REQ_CLEAR
  <2>4. ERPS_REQ_WTR_EXPIRES # ERPS_REQ_WTB_EXPIRES
    BY DEF ERPS_REQ_WTR_EXPIRES, ERPS_REQ_WTB_EXPIRES
  <2> HIDE DEF x
  <2>5. TimerInv(erps_fsm_post_locked(x, 0, ERPS_REQ_WTR_EXPIRES, 0, e))
    BY <1>1, <2>1, <2>2, <2>3, <2>4
  <2> QED
    BY <2>5 DEF x
<1>3. ASSUME n.wtb
      PROVE  TimerInv(erps_fsm_post_locked(Fresh([n EXCEPT !.wtb = FALSE]), 0,
                  ERPS_REQ_WTB_EXPIRES, 0, e))
  <2> DEFINE x == Fresh([n EXCEPT !.wtb = FALSE])
  <2>1. /\ x \in Node /\ x.ok /\ ~x.wtb /\ (x.wtr <=> n.wtr)
        /\ x.state = n.state /\ x.topreq = n.topreq
        /\ x.role = n.role /\ (x.revertive <=> n.revertive)
    BY DEF Fresh, Node
  <2>2. x.state = "PENDING" /\ RevertiveOwner(x)
    BY <1>3, <2>1 DEF TimerInv, RevertiveOwner, erps_node_is_rpl_owner
  <2>3. ~RequestAccepted(x, ERPS_REQ_WTB_EXPIRES) => TimerInv(x)
    BY <2>1, <2>2
    DEF RequestAccepted, TimerInv, Node, TopRequest, ERPS_REQ_WTB_EXPIRES,
        ERPS_REQ_WTR_RUNNING, ERPS_REQ_WTB_RUNNING, ERPS_REQ_CLEAR
  <2>4. ERPS_REQ_WTR_EXPIRES # ERPS_REQ_WTB_EXPIRES
    BY DEF ERPS_REQ_WTR_EXPIRES, ERPS_REQ_WTB_EXPIRES
  <2> HIDE DEF x
  <2>5. TimerInv(erps_fsm_post_locked(x, 0, ERPS_REQ_WTB_EXPIRES, 0, e))
    BY <1>1, <2>1, <2>2, <2>3, <2>4
  <2> QED
    BY <2>5 DEF x
<1> QED
  BY <1>2, <1>3

(* The wait-to-restore timer started while a timer runs stays well formed.  *)
LEMMA AcceptedStartsWtr ==
  ASSUME NEW n, Accepted(n), n.wtr \/ n.wtb
  PROVE  TimerInv([OwnerStartsWtr(n) EXCEPT !.state = "PENDING"])
<1> DEFINE r == erps_fsm_resolve_req_prio(n, ERPS_REQ_WTR_RUNNING)
           m == OwnerStartsWtr(n)
<1>1. n \in Node /\ n.state = "PENDING" /\ RevertiveOwner(n)
        /\ n.topreq # ERPS_REQ_WTR_RUNNING /\ n.topreq # ERPS_REQ_WTB_RUNNING
  BY DEF Accepted
<1>2. m = n \/ m = [r EXCEPT !.wtr = TRUE]
  BY DEF OwnerStartsWtr, erps_node_start_wtr
<1>3. r \in Node
  BY <1>1, ResolveType
<1>4. r = n \/ r = [n EXCEPT !.topreq = ERPS_REQ_WTR_RUNNING]
  BY DEF erps_fsm_resolve_req_prio, LocalRequest
<1>5. RevertiveOwner(r) /\ r.topreq # ERPS_REQ_WTB_RUNNING
  BY <1>1, <1>4 DEF RevertiveOwner, erps_node_is_rpl_owner, Node,
                    ERPS_REQ_WTR_RUNNING, ERPS_REQ_WTB_RUNNING
<1> HIDE DEF r, m
<1>6. m \in Node /\ RevertiveOwner(m) /\ m.topreq # ERPS_REQ_WTB_RUNNING
        /\ (m.topreq = ERPS_REQ_WTR_RUNNING => m.wtr)
  <2>1. ASSUME NEW k \in Node
        PROVE  /\ [k EXCEPT !.wtr = TRUE] \in Node
               /\ [k EXCEPT !.wtr = TRUE].wtr
               /\ [k EXCEPT !.wtr = TRUE].topreq = k.topreq
               /\ [k EXCEPT !.wtr = TRUE].role = k.role
               /\ [k EXCEPT !.wtr = TRUE].revertive = k.revertive
    BY DEF Node
  <2>2. CASE m = n
    BY <1>1, <2>2
  <2>3. CASE m = [r EXCEPT !.wtr = TRUE]
    BY <1>3, <1>5, <2>1, <2>3 DEF RevertiveOwner, erps_node_is_rpl_owner
  <2> QED
    BY <1>2, <2>2, <2>3
<1> QED
  BY <1>6 DEF TimerInv, RevertiveOwner, erps_node_is_rpl_owner, Node, m

(* Initialization starts the owner's wait-to-restore timer last.           *)
LEMMA InitKeepsTimers ==
  ASSUME NEW n \in Node, TimerInv(n), NEW c, NEW e
  PROVE  TimerInv(erps_node_init(n, c, e))
<1> DEFINE x == [Fresh(n) EXCEPT !.topreq = ERPS_REQ_INVALID]
           k == erps_link_init(x, c)
           up == erps_fsm_init(k, e)
<1>0. 0 \in Port /\ Rpl \in Port /\ \A p \in Port : erps_node_other_link(p) \in Port
  BY DEF Port, Rpl, erps_node_other_link
<1>1. /\ x \in Node /\ x.state = n.state /\ (x.wtr <=> n.wtr) /\ (x.wtb <=> n.wtb)
      /\ x.role = n.role /\ (x.revertive <=> n.revertive)
      /\ x.topreq = ERPS_REQ_INVALID
  BY DEF Fresh, Node, TopRequest
<1> HIDE DEF x
<1>2. /\ k \in Node /\ k.state = n.state /\ (k.wtr <=> n.wtr) /\ (k.wtb <=> n.wtb)
      /\ k.role = n.role /\ (k.revertive <=> n.revertive)
      /\ k.topreq = ERPS_REQ_INVALID
  BY <1>1 DEF erps_link_init, Node
<1>3. Accepted(k) /\ TimerInv(k)
  BY <1>2 DEF Accepted, TimerInv, RevertiveOwner, erps_node_is_rpl_owner,
              ERPS_REQ_INVALID, ERPS_REQ_WTR_RUNNING, ERPS_REQ_WTB_RUNNING
<1> HIDE DEF k
<1>4. TimerInv(up) /\ up \in Node
  <2> DEFINE first == IF HasRpl(k) THEN Rpl ELSE 0
             b == erps_link_block(k, first, e)
             o == erps_link_unblock_force(b, erps_node_other_link(first), e)
             t == erps_node_sched_tx(o, "NR", {})
             last == [OwnerStartsWtr(t) EXCEPT !.state = "PENDING"]
  <2>1. Quiet(b, k)
    BY <1>0, <1>2, QuietCalls
  <2>2. Quiet(o, b)
    BY <1>0, <2>1, QuietNodeCalls DEF Quiet
  <2>3. Quiet(t, o)
    BY <2>2, QuietSchedTx DEF Quiet
  <2>4. Quiet(t, k)
    BY <2>1, <2>2, <2>3, QuietChain
  <2>5. t \in Node /\ Accepted(t)
    BY <1>3, <2>4 DEF Quiet, Same, SameTimers, Accepted, RevertiveOwner,
                      erps_node_is_rpl_owner
  <2>6. up = [OwnerStartsWtr(t) EXCEPT !.state = "PENDING", !.guard = FALSE]
    BY DEF erps_fsm_init
  <2> HIDE DEF t
  <2>7. OwnerStartsWtr(t) \in Node
    BY <2>5, StartTypes
  <2>8. TimerInv(last)
    <3>1. CASE t.wtr \/ t.wtb
      BY <2>5, <2>7, <3>1, AcceptedStartsWtr
    <3>2. CASE ~t.wtr /\ ~t.wtb
      BY <2>5, <3>2, StartedOnTheWayToPending DEF TimersOff
    <3> QED
      BY <3>1, <3>2
  <2>9. up \in Node
    BY <1>2, InitTypes
  <2>10. TimerInv(up)
    BY <2>6, <2>7, <2>8 DEF TimerInv, Node, RevertiveOwner, erps_node_is_rpl_owner
  <2> QED
    BY <2>9, <2>10
<1> HIDE DEF up
<1>5. TimerInv([up EXCEPT !.cb = TRUE, !.tx = @ \cup up.up])
  BY <1>4 DEF TimerInv, Node, RevertiveOwner, erps_node_is_rpl_owner
<1> QED
  BY <1>3, <1>4, <1>5 DEF erps_node_init, x, k, up

(* With FS (or, before initialization, CLEAR) as top request, only CLEAR   *)
(* changes the top request.                                                *)
LEMMA TopRequestStays ==
  ASSUME NEW n \in Node, n.topreq \in {ERPS_REQ_CLEAR, ERPS_REQ_FS},
         NEW l \in Port, NEW req \in Request \ {ERPS_REQ_CLEAR}, NEW id, NEW e
  PROVE  erps_fsm_post_locked(n, l, req, id, e).topreq = n.topreq
<1> DEFINE m == Prepare(n, l, req)
<1>1. RequestAccepted(n, req) => req = ERPS_REQ_FS /\ n.topreq = ERPS_REQ_FS
  BY DEF RequestAccepted, Request, ERPS_REQ_CLEAR, ERPS_REQ_FS, ERPS_REQ_SF,
         ERPS_REQ_RAPS_NR
<1>2. CASE ~RequestAccepted(n, req)
  BY <1>2, PrepareTimers DEF erps_fsm_post_locked
<1>3. CASE RequestAccepted(n, req)
  <2>1. req = ERPS_REQ_FS /\ n.topreq = ERPS_REQ_FS /\ req \in LocalRequest
          /\ req # ERPS_REQ_CLEAR_SF /\ req # ERPS_REQ_CLEAR
    BY <1>1, <1>3 DEF LocalRequest, ERPS_REQ_FS, ERPS_REQ_CLEAR_SF, ERPS_REQ_CLEAR
  <2>2. m \in Node /\ m.topreq = n.topreq
    BY <1>3, <2>1, PrepareTimers
  <2> HIDE DEF m
  <2>3. FsCommon(m, l, e).topreq = m.topreq /\ FsCommon(m, l, e) \in Node
    BY <2>2, CommonMoves DEF Moves, SameTimers
  <2>4. OwnerStopsTimers(FsCommon(m, l, e)).topreq = m.topreq
    BY <2>3 DEF OwnerStopsTimers, Node
  <2>5. erps_fsm_fs_fs(m, l, e).topreq = m.topreq
    <3> DEFINE b == erps_link_block(m, l, e)
               t == erps_node_sched_tx(b, "FS", {})
    <3>1. Quiet(b, m)
      BY <2>2, QuietCalls
    <3>2. Quiet(t, b)
      BY <3>1, QuietSchedTx DEF Quiet
    <3>3. Quiet(erps_flush_fdb(t, e), t)
      BY <3>2, QuietCalls DEF Quiet
    <3> QED
      BY <3>1, <3>2, <3>3 DEF erps_fsm_fs_fs, Quiet, Same, SameTimers
  <2>6. /\ erps_fsm_post_idle(m, l, req, id, e).topreq = m.topreq
        /\ erps_fsm_post_protection(m, l, req, e).topreq = m.topreq
        /\ erps_fsm_post_manual_switch(m, l, req, e).topreq = m.topreq
    BY <2>1, <2>3
    DEF erps_fsm_post_idle, erps_fsm_post_protection,
        erps_fsm_post_manual_switch, ERPS_REQ_CLEAR, ERPS_REQ_FS,
        ERPS_REQ_RAPS_FS, ERPS_REQ_SF, ERPS_REQ_CLEAR_SF, ERPS_REQ_RAPS_SF,
        ERPS_REQ_RAPS_MS, ERPS_REQ_MS, ERPS_REQ_WTR_EXPIRES,
        ERPS_REQ_WTB_EXPIRES, ERPS_REQ_RAPS_NR_RB, ERPS_REQ_RAPS_NR
  <2>7. /\ erps_fsm_post_forced_switch(m, l, req, e).topreq = m.topreq
        /\ erps_fsm_post_pending(m, l, req, id, e).topreq = m.topreq
    BY <2>1, <2>4, <2>5
    DEF erps_fsm_post_forced_switch, erps_fsm_post_pending,
        ERPS_REQ_CLEAR, ERPS_REQ_FS,
        ERPS_REQ_RAPS_FS, ERPS_REQ_SF, ERPS_REQ_CLEAR_SF, ERPS_REQ_RAPS_SF,
        ERPS_REQ_RAPS_MS, ERPS_REQ_MS, ERPS_REQ_WTR_EXPIRES,
        ERPS_REQ_WTB_EXPIRES, ERPS_REQ_RAPS_NR_RB, ERPS_REQ_RAPS_NR
  <2>8. m.state \in State
    BY <2>2 DEF Node
  <2>9. Dispatch(m, l, req, id, e).topreq = m.topreq
    BY <2>6, <2>7, <2>8 DEF Dispatch, State
  <2> QED
    BY <1>3, <2>1, <2>2, <2>9 DEF erps_fsm_post_locked, IgnoredOnRpl, m
<1> QED
  BY <1>2, <1>3

-----------------------------------------------------------------------------
(***************************************************************************)
(* Effects.  What each call does to the ports, to what is sent and to the  *)
(* flush record, if it succeeds; Quiet says the rest.                      *)
(***************************************************************************)
SamePorts(m, n) == m.blocked = n.blocked /\ m.failed = n.failed
SamePdu(m, n) == m.pdu = n.pdu
SameAir(m, n) == SamePdu(m, n) /\ m.tx = n.tx
SameFlush(m, n) == m.flushed <=> n.flushed

(* What no call changes; a chain that has failed stays failed, and no call *)
(* stops the guard timer or starts a link-down timer.                      *)
Base(m, n) == /\ m \in Node /\ m.role = n.role /\ (m.revertive <=> n.revertive)
              /\ m.up = n.up /\ (m.cb <=> n.cb) /\ (m.ok => n.ok)
              /\ m.id = n.id /\ (n.guard => m.guard)
              /\ m.linkDown \subseteq n.linkDown

(* Blocking a link.                                                        *)
LEMMA BlockEffect ==
  ASSUME NEW n \in Node, NEW p \in Port, NEW e
  PROVE  LET m == erps_link_block(n, p, e) IN
         /\ Base(m, n) /\ SameAir(m, n) /\ SameFlush(m, n) /\ m.failed = n.failed
         /\ m.ok => m.blocked = n.blocked \cup {p}
         /\ n.blocked \subseteq m.blocked
<1> DEFINE m == erps_link_block(n, p, e)
<1>1. m \in Node
  BY BlockType
<1>2. /\ m.role = n.role /\ (m.revertive <=> n.revertive)
      /\ m.up = n.up /\ (m.cb <=> n.cb) /\ (m.ok => n.ok)
      /\ m.id = n.id /\ (n.guard => m.guard)
      /\ m.linkDown \subseteq n.linkDown
      /\ m.pdu = n.pdu /\ m.tx = n.tx /\ (m.flushed <=> n.flushed)
      /\ m.failed = n.failed
  BY DEF erps_link_block, Fail, Node
<1>3. m.ok => m.blocked = n.blocked \cup {p}
  BY DEF erps_link_block, Fail, Node
<1>4. n.blocked \subseteq m.blocked
  BY DEF erps_link_block, Fail, Node
<1> QED
  BY <1>1, <1>2, <1>3, <1>4 DEF Base, SameAir, SamePdu, SameFlush

(* Unblocking one.  Without a VLAN failure it fails before it opens the    *)
(* port.                                                                   *)
LEMMA UnblockEffect ==
  ASSUME NEW n \in Node, NEW p \in Port, NEW e
  PROVE  LET m == erps_link_unblock(n, p, e) IN
         /\ Base(m, n) /\ SameAir(m, n) /\ SameFlush(m, n)
         /\ m.ok => m.blocked = n.blocked \ {p} /\ m.failed = n.failed \ {p}
         /\ n.blocked \ {p} \subseteq m.blocked
         /\ e.vlan = {} /\ ~m.ok => m.blocked = n.blocked
<1> DEFINE m == erps_link_unblock(n, p, e)
<1>1. m \in Node
  BY UnblockType
<1>2. /\ m.role = n.role /\ (m.revertive <=> n.revertive)
      /\ m.up = n.up /\ (m.cb <=> n.cb) /\ (m.ok => n.ok)
      /\ m.id = n.id /\ (n.guard => m.guard)
      /\ m.linkDown \subseteq n.linkDown
      /\ m.pdu = n.pdu /\ m.tx = n.tx /\ (m.flushed <=> n.flushed)
  BY DEF erps_link_unblock, Node
<1>3. m.ok => m.blocked = n.blocked \ {p} /\ m.failed = n.failed \ {p}
  BY DEF erps_link_unblock, Node
<1>4. n.blocked \ {p} \subseteq m.blocked
  BY DEF erps_link_unblock, Node
<1>5. e.vlan = {} /\ ~m.ok => m.blocked = n.blocked
  BY DEF erps_link_unblock, Node
<1> QED
  BY <1>1, <1>2, <1>3, <1>4, <1>5 DEF Base, SameAir, SamePdu, SameFlush

(* Scheduling a PDU.                                                       *)
LEMMA SchedTxEffect ==
  ASSUME NEW n \in Node, NEW rs \in {"NR", "MS", "SF", "FS"},
         NEW status \in SUBSET {"RB", "DNF"}
  PROVE  LET m == erps_node_sched_tx(n, rs, status) IN
         /\ Base(m, n) /\ SamePorts(m, n) /\ SameFlush(m, n) /\ (m.ok <=> n.ok)
         /\ m.ok => m.pdu = [rs |-> rs, status |-> status] /\ m.tx = n.up
<1> DEFINE m == erps_node_sched_tx(n, rs, status)
<1>1. m \in Node
  BY SchedTxType
<1>2. /\ m.role = n.role /\ (m.revertive <=> n.revertive)
      /\ m.up = n.up /\ (m.cb <=> n.cb) /\ (m.ok <=> n.ok)
      /\ m.id = n.id /\ (n.guard => m.guard)
      /\ m.linkDown \subseteq n.linkDown
      /\ m.blocked = n.blocked /\ m.failed = n.failed /\ (m.flushed <=> n.flushed)
  BY DEF erps_node_sched_tx, Node
<1>3. m.ok => m.pdu = [rs |-> rs, status |-> status] /\ m.tx = n.up
  BY DEF erps_node_sched_tx, Node
<1> QED
  BY <1>1, <1>2, <1>3 DEF Base, SamePorts, SameFlush

(* The simple calls.                                                       *)
LEMMA SimpleEffects ==
  ASSUME NEW n \in Node, NEW e
  PROVE  /\ LET m == erps_node_stop_tx(n) IN
            /\ Base(m, n) /\ SamePorts(m, n) /\ SameFlush(m, n) /\ SamePdu(m, n)
            /\ (m.ok <=> n.ok) /\ (m.ok => m.tx = {})
         /\ LET m == erps_flush_fdb(n, e) IN
            /\ Base(m, n) /\ SamePorts(m, n) /\ SameAir(m, n)
            /\ m.ok => m.flushed
         /\ LET m == erps_node_start_guard_timer(n) IN
            /\ Base(m, n) /\ SamePorts(m, n) /\ SameAir(m, n) /\ SameFlush(m, n)
            /\ m.ok <=> n.ok
         /\ LET m == OwnerStopsTimers(n) IN
            /\ Base(m, n) /\ SamePorts(m, n) /\ SameAir(m, n) /\ SameFlush(m, n)
            /\ (m.ok <=> n.ok) /\ m.state = n.state /\ m.topreq = n.topreq
         /\ \A s \in State : LET m == erps_fsm_transition(n, s) IN
            /\ Base(m, n) /\ SamePorts(m, n) /\ SameAir(m, n) /\ SameFlush(m, n)
            /\ (m.ok <=> n.ok) /\ SameTimers(m, n)
            /\ m.state = IF m.ok THEN s ELSE n.state
<1> DEFINE st == erps_node_stop_tx(n)
           fl == erps_flush_fdb(n, e)
           gu == erps_node_start_guard_timer(n)
           ti == OwnerStopsTimers(n)
<1>0. /\ st \in Node /\ fl \in Node /\ gu \in Node /\ ti \in Node
      /\ \A s \in State : erps_fsm_transition(n, s) \in Node
  BY SimpleTypes
<1>1. /\ st.role = n.role /\ (st.revertive <=> n.revertive)
      /\ st.up = n.up /\ (st.cb <=> n.cb) /\ (st.ok <=> n.ok)
      /\ st.id = n.id /\ (n.guard => st.guard)
      /\ st.linkDown \subseteq n.linkDown
      /\ st.blocked = n.blocked /\ st.failed = n.failed /\ (st.flushed <=> n.flushed)
      /\ st.pdu = n.pdu /\ (st.ok => st.tx = {})
  BY DEF erps_node_stop_tx, Node
<1>2. /\ fl.role = n.role /\ (fl.revertive <=> n.revertive)
      /\ fl.up = n.up /\ (fl.cb <=> n.cb) /\ (fl.ok => n.ok)
      /\ fl.id = n.id /\ (n.guard => fl.guard)
      /\ fl.linkDown \subseteq n.linkDown
      /\ fl.blocked = n.blocked /\ fl.failed = n.failed
      /\ fl.pdu = n.pdu /\ fl.tx = n.tx /\ (fl.ok => fl.flushed)
  BY DEF erps_flush_fdb, Node
<1>3. /\ gu.role = n.role /\ (gu.revertive <=> n.revertive)
      /\ gu.up = n.up /\ (gu.cb <=> n.cb) /\ (gu.ok <=> n.ok)
      /\ gu.id = n.id /\ (n.guard => gu.guard)
      /\ gu.linkDown \subseteq n.linkDown
      /\ gu.blocked = n.blocked /\ gu.failed = n.failed /\ (gu.flushed <=> n.flushed)
      /\ gu.pdu = n.pdu /\ gu.tx = n.tx
  BY DEF erps_node_start_guard_timer, Node
<1>4. /\ ti.role = n.role /\ (ti.revertive <=> n.revertive)
      /\ ti.up = n.up /\ (ti.cb <=> n.cb) /\ (ti.ok <=> n.ok)
      /\ ti.id = n.id /\ (n.guard => ti.guard)
      /\ ti.linkDown \subseteq n.linkDown
      /\ ti.blocked = n.blocked /\ ti.failed = n.failed /\ (ti.flushed <=> n.flushed)
      /\ ti.pdu = n.pdu /\ ti.tx = n.tx /\ ti.state = n.state /\ ti.topreq = n.topreq
  BY DEF OwnerStopsTimers, Node
<1>5. ASSUME NEW s \in State, NEW m, m = erps_fsm_transition(n, s)
      PROVE  /\ m.role = n.role /\ (m.revertive <=> n.revertive)
             /\ m.up = n.up /\ (m.cb <=> n.cb) /\ (m.ok <=> n.ok)
             /\ m.id = n.id /\ (n.guard => m.guard)
             /\ m.linkDown \subseteq n.linkDown
             /\ m.blocked = n.blocked /\ m.failed = n.failed
             /\ (m.flushed <=> n.flushed) /\ m.pdu = n.pdu /\ m.tx = n.tx
             /\ (m.wtr <=> n.wtr) /\ (m.wtb <=> n.wtb) /\ m.topreq = n.topreq
             /\ m.state = IF m.ok THEN s ELSE n.state
  BY <1>5 DEF erps_fsm_transition, Node
<1> HIDE DEF st, fl, gu, ti
<1>6. \A s \in State : LET m == erps_fsm_transition(n, s) IN
            /\ Base(m, n) /\ SamePorts(m, n) /\ SameAir(m, n) /\ SameFlush(m, n)
            /\ (m.ok <=> n.ok) /\ SameTimers(m, n)
            /\ m.state = IF m.ok THEN s ELSE n.state
  <2> SUFFICES ASSUME NEW s \in State, NEW m, m = erps_fsm_transition(n, s)
               PROVE  /\ Base(m, n) /\ SamePorts(m, n) /\ SameAir(m, n)
                      /\ SameFlush(m, n) /\ (m.ok <=> n.ok) /\ SameTimers(m, n)
                      /\ m.state = IF m.ok THEN s ELSE n.state
    BY Zenon
  <2> QED
    BY <1>0, <1>5 DEF Base, SamePorts, SameAir, SamePdu, SameFlush, SameTimers
<1> QED
  BY <1>0, <1>1, <1>2, <1>3, <1>4, <1>6
  DEF Base, SamePorts, SameAir, SamePdu, SameFlush, st, fl, gu, ti

(* A timer that is started may become the top request.                     *)
LEMMA StartEffects ==
  ASSUME NEW n \in Node
  PROVE  /\ LET m == OwnerStartsWtr(n) IN
            /\ Base(m, n) /\ SamePorts(m, n) /\ SameAir(m, n) /\ SameFlush(m, n)
            /\ (m.ok <=> n.ok) /\ m.state = n.state
            /\ m.topreq \in {n.topreq} \cup TimerRunning
            /\ (m.ok /\ RevertiveOwner(n) => m.wtr) /\ (m.wtb <=> n.wtb)
            /\ ~RevertiveOwner(n) => Same(m, n)
         /\ LET m == OwnerStartsWtb(n) IN
            /\ Base(m, n) /\ SamePorts(m, n) /\ SameAir(m, n) /\ SameFlush(m, n)
            /\ (m.ok <=> n.ok) /\ m.state = n.state
            /\ m.topreq \in {n.topreq} \cup TimerRunning
            /\ (m.ok /\ RevertiveOwner(n) => m.wtb) /\ (m.wtr <=> n.wtr)
            /\ ~RevertiveOwner(n) => Same(m, n)
<1> DEFINE Kept(m) == /\ m.role = n.role /\ (m.revertive <=> n.revertive)
                      /\ m.up = n.up /\ (m.cb <=> n.cb) /\ (m.ok <=> n.ok)
                      /\ m.id = n.id /\ (n.guard => m.guard)
                      /\ m.linkDown \subseteq n.linkDown
                      /\ m.blocked = n.blocked /\ m.failed = n.failed
                      /\ (m.flushed <=> n.flushed) /\ m.pdu = n.pdu /\ m.tx = n.tx
                      /\ m.state = n.state
<1>1. ASSUME NEW t \in TimerRunning, NEW r, r = erps_fsm_resolve_req_prio(n, t)
      PROVE  /\ Kept(r) /\ (r.wtr <=> n.wtr) /\ (r.wtb <=> n.wtb)
             /\ r.topreq \in {n.topreq} \cup TimerRunning /\ r \in Node
  <2>1. t \in LocalRequest
    BY DEF TimerRunning, LocalRequest
  <2>2. r = n \/ r = [n EXCEPT !.topreq = t]
    BY <1>1, <2>1 DEF erps_fsm_resolve_req_prio
  <2>3. r \in Node
    BY <1>1, ResolveType
  <2> QED
    BY <2>2, <2>3 DEF Node
<1>2. ASSUME NEW m, m = OwnerStartsWtr(n)
      PROVE  /\ Kept(m) /\ m.topreq \in {n.topreq} \cup TimerRunning
             /\ (m.ok /\ RevertiveOwner(n) => m.wtr) /\ (m.wtb <=> n.wtb)
             /\ ~RevertiveOwner(n) => m = n
  <2> DEFINE r == erps_fsm_resolve_req_prio(n, ERPS_REQ_WTR_RUNNING)
  <2>1. \/ m = n /\ (RevertiveOwner(n) => ~n.ok \/ n.wtr)
        \/ m = [r EXCEPT !.wtr = TRUE] /\ RevertiveOwner(n)
    BY <1>2 DEF OwnerStartsWtr, erps_node_start_wtr
  <2>2. /\ Kept(r) /\ (r.wtr <=> n.wtr) /\ (r.wtb <=> n.wtb)
        /\ r.topreq \in {n.topreq} \cup TimerRunning /\ r \in Node
    BY <1>1 DEF TimerRunning
  <2> HIDE DEF r
  <2> QED
    BY <2>1, <2>2 DEF Node
<1>3. ASSUME NEW m, m = OwnerStartsWtb(n)
      PROVE  /\ Kept(m) /\ m.topreq \in {n.topreq} \cup TimerRunning
             /\ (m.ok /\ RevertiveOwner(n) => m.wtb) /\ (m.wtr <=> n.wtr)
             /\ ~RevertiveOwner(n) => m = n
  <2> DEFINE r == erps_fsm_resolve_req_prio(n, ERPS_REQ_WTB_RUNNING)
  <2>1. \/ m = n /\ (RevertiveOwner(n) => ~n.ok \/ n.wtb)
        \/ m = [r EXCEPT !.wtb = TRUE] /\ RevertiveOwner(n)
    BY <1>3 DEF OwnerStartsWtb, erps_node_start_wtb
  <2>2. /\ Kept(r) /\ (r.wtr <=> n.wtr) /\ (r.wtb <=> n.wtb)
        /\ r.topreq \in {n.topreq} \cup TimerRunning /\ r \in Node
    BY <1>1 DEF TimerRunning
  <2> HIDE DEF r
  <2> QED
    BY <2>1, <2>2 DEF Node
<1>4. Same(n, n)
  BY DEF Same, SameTimers
<1> QED
  BY <1>2, <1>3, <1>4, StartTypes
  DEF Base, SamePorts, SameAir, SamePdu, SameFlush

(* Calls that open several ports leave those blocked that have failed.     *)
LEMMA UnblockAllEffects ==
  ASSUME NEW n \in Node, NEW e
  PROVE  /\ LET m == erps_node_unblock_all(n, e) IN
            /\ Base(m, n) /\ SameAir(m, n) /\ SameFlush(m, n)
            /\ m.ok => m.blocked = {} /\ m.failed = {}
            /\ e.vlan = {} /\ ~m.ok /\ n.ok => m.blocked # {}
         /\ LET m == erps_node_unblock_non_failed(n, e) IN
            /\ Base(m, n) /\ SameAir(m, n) /\ SameFlush(m, n)
            /\ m.ok => m.blocked = n.blocked \cap n.failed /\ m.failed = n.failed
            /\ e.vlan = {} /\ ~m.ok /\ n.ok => m.blocked # {}
<1>0. 0 \in Port /\ 1 \in Port
  BY DEF Port
<1>1. ASSUME NEW k \in Node, NEW p \in Port, NEW m, m = erps_link_unblock(k, p, e)
      PROVE  /\ Base(m, k) /\ SameAir(m, k) /\ SameFlush(m, k) /\ m \in Node
             /\ m.ok => m.blocked = k.blocked \ {p} /\ m.failed = k.failed \ {p}
             /\ e.vlan = {} /\ ~m.ok => m.blocked = k.blocked
             /\ ~m.ok /\ k.ok => p \in k.blocked
  <2>1. ~m.ok /\ k.ok => p \in k.blocked
    BY <1>1 DEF erps_link_unblock, Node
  <2> QED
    BY <1>1, <2>1, UnblockEffect, UnblockType
<1>2. ASSUME NEW k \in Node, NEW p \in Port, NEW m, m = UnblockIfNotFailed(k, p, e)
      PROVE  /\ Base(m, k) /\ SameAir(m, k) /\ SameFlush(m, k) /\ m \in Node
             /\ m.ok => m.blocked = k.blocked \ ({p} \ k.failed) /\ m.failed = k.failed
             /\ e.vlan = {} /\ ~m.ok => m.blocked = k.blocked
             /\ ~m.ok /\ k.ok => p \in k.blocked
  <2>1. CASE p \in k.failed
    BY <1>2, <2>1 DEF UnblockIfNotFailed, Base, SameAir, SamePdu, SameFlush
  <2>2. CASE p \notin k.failed
    <3>1. m = erps_link_unblock(k, p, e)
      BY <1>2, <2>2 DEF UnblockIfNotFailed
    <3>2. k.failed \ {p} = k.failed /\ k.blocked \ ({p} \ k.failed) = k.blocked \ {p}
      BY <2>2
    <3>3. /\ Base(m, k) /\ SameAir(m, k) /\ SameFlush(m, k) /\ m \in Node
          /\ m.ok => m.blocked = k.blocked \ {p} /\ m.failed = k.failed \ {p}
          /\ e.vlan = {} /\ ~m.ok => m.blocked = k.blocked
          /\ ~m.ok /\ k.ok => p \in k.blocked
      BY <1>1, <3>1
    <3> QED
      BY <3>2, <3>3
  <2> QED
    BY <2>1, <2>2
<1>3. \A k : k \in Node => k.blocked \subseteq {0, 1} /\ k.failed \subseteq {0, 1}
  BY DEF Node, Port
<1>4. ASSUME NEW m, m = erps_node_unblock_all(n, e)
      PROVE  /\ Base(m, n) /\ SameAir(m, n) /\ SameFlush(m, n)
             /\ m.ok => m.blocked = {} /\ m.failed = {}
             /\ e.vlan = {} /\ ~m.ok /\ n.ok => m.blocked # {}
  <2> DEFINE k == erps_link_unblock(n, 0, e)
  <2>1. m = erps_link_unblock(k, 1, e)
    BY <1>4 DEF erps_node_unblock_all
  <2>2. /\ Base(k, n) /\ SameAir(k, n) /\ SameFlush(k, n) /\ k \in Node
        /\ k.ok => k.blocked = n.blocked \ {0} /\ k.failed = n.failed \ {0}
        /\ e.vlan = {} /\ ~k.ok => k.blocked = n.blocked
        /\ ~k.ok /\ n.ok => 0 \in n.blocked
    BY <1>0, <1>1
  <2> HIDE DEF k
  <2>3. /\ Base(m, k) /\ SameAir(m, k) /\ SameFlush(m, k)
        /\ m.ok => m.blocked = k.blocked \ {1} /\ m.failed = k.failed \ {1}
        /\ e.vlan = {} /\ ~m.ok => m.blocked = k.blocked
        /\ ~m.ok /\ k.ok => 1 \in k.blocked
    BY <1>0, <1>1, <2>1, <2>2
  <2> QED
    BY <1>3, <2>2, <2>3 DEF Base, SameAir, SamePdu, SameFlush
<1>5. ASSUME NEW m, m = erps_node_unblock_non_failed(n, e)
      PROVE  /\ Base(m, n) /\ SameAir(m, n) /\ SameFlush(m, n)
             /\ m.ok => m.blocked = n.blocked \cap n.failed /\ m.failed = n.failed
             /\ e.vlan = {} /\ ~m.ok /\ n.ok => m.blocked # {}
  <2> DEFINE k == UnblockIfNotFailed(n, 0, e)
  <2>1. m = UnblockIfNotFailed(k, 1, e)
    BY <1>5 DEF erps_node_unblock_non_failed
  <2>2. /\ Base(k, n) /\ SameAir(k, n) /\ SameFlush(k, n) /\ k \in Node
        /\ k.ok => k.blocked = n.blocked \ ({0} \ n.failed) /\ k.failed = n.failed
        /\ e.vlan = {} /\ ~k.ok => k.blocked = n.blocked
        /\ ~k.ok /\ n.ok => 0 \in n.blocked
    BY <1>0, <1>2
  <2> HIDE DEF k
  <2>3. /\ Base(m, k) /\ SameAir(m, k) /\ SameFlush(m, k)
        /\ m.ok => m.blocked = k.blocked \ ({1} \ k.failed) /\ m.failed = k.failed
        /\ e.vlan = {} /\ ~m.ok => m.blocked = k.blocked
        /\ ~m.ok /\ k.ok => 1 \in k.blocked
    BY <1>0, <1>2, <2>1, <2>2
  <2> QED
    BY <1>3, <2>2, <2>3 DEF Base, SameAir, SamePdu, SameFlush
<1> QED
  BY <1>4, <1>5

(* Blocking a port, saying so, opening the other one, and a flush if the   *)
(* port was not blocked.                                                   *)
PortCut(n, p, rs, status, e) ==
  LET u == erps_link_unblock(erps_node_sched_tx(erps_link_block(n, p, e), rs, status),
                             erps_node_other_link(p), e)
  IN  IF p \in n.blocked THEN u ELSE erps_flush_fdb(u, e)

(* A chain that fails leaves a port blocked.                               *)
LEMMA CutEffect ==
  ASSUME NEW n \in Node, NEW p \in Port, NEW rs \in {"NR", "MS", "SF", "FS"},
         NEW status \in SUBSET {"RB", "DNF"}, NEW e, NEW m, m = PortCut(n, p, rs, status, e)
  PROVE  /\ Base(m, n) /\ Same(m, n)
         /\ m.ok => /\ m.blocked = {p} /\ m.failed = n.failed \ {erps_node_other_link(p)}
                    /\ m.pdu = [rs |-> rs, status |-> status] /\ m.tx = n.up
                    /\ m.flushed <=> p \notin n.blocked \/ n.flushed
         /\ n.blocked # {} => m.blocked # {}
<1> DEFINE o == erps_node_other_link(p)
           b == erps_link_block(n, p, e)
           t == erps_node_sched_tx(b, rs, status)
           u == erps_link_unblock(t, o, e)
           f == erps_flush_fdb(u, e)
<1> m = IF p \in n.blocked THEN u ELSE f
  BY DEF PortCut
<1>0. o \in Port /\ o # p /\ Port \ {o} = {p}
  <2>1. CASE p = 0
    BY <2>1 DEF erps_node_other_link, Port
  <2>2. CASE p = 1
    BY <2>2 DEF erps_node_other_link, Port
  <2> QED
    BY <2>1, <2>2 DEF Port
<1>1. /\ Base(b, n) /\ SameAir(b, n) /\ SameFlush(b, n) /\ b.failed = n.failed
      /\ b.ok => b.blocked = n.blocked \cup {p}
      /\ n.blocked \subseteq b.blocked
      /\ Quiet(b, n) /\ b \in Node
  BY BlockEffect, QuietCalls, BlockType
<1> HIDE DEF b
<1>2. /\ Base(t, b) /\ SamePorts(t, b) /\ SameFlush(t, b) /\ (t.ok <=> b.ok)
      /\ t.ok => t.pdu = [rs |-> rs, status |-> status] /\ t.tx = b.up
      /\ Quiet(t, b) /\ t \in Node
  BY <1>1, SchedTxEffect, QuietSchedTx, SchedTxType
<1>8. ~t.ok => u = t
  BY DEF erps_link_unblock
<1> HIDE DEF t, o
<1>3. /\ Base(u, t) /\ SameAir(u, t) /\ SameFlush(u, t)
      /\ u.ok => u.blocked = t.blocked \ {o} /\ u.failed = t.failed \ {o}
      /\ t.blocked \ {o} \subseteq u.blocked
      /\ Quiet(u, t) /\ u \in Node
  <2>1. Quiet(u, t) /\ u \in Node
    BY <1>0, <1>2, QuietCalls, UnblockType
  <2> QED
    BY <1>0, <1>2, <2>1, UnblockEffect
<1> HIDE DEF u
<1>4. /\ Base(f, u) /\ SamePorts(f, u) /\ SameAir(f, u) /\ (f.ok => f.flushed)
      /\ Quiet(f, u)
  BY <1>0, <1>3, SimpleEffects, QuietCalls
<1> HIDE DEF f
<1>5. /\ Base(u, n) /\ Quiet(u, n)
      /\ u.ok => /\ u.blocked = (n.blocked \cup {p}) \ {o} /\ u.failed = n.failed \ {o}
                 /\ u.pdu = [rs |-> rs, status |-> status] /\ u.tx = n.up
                 /\ (u.flushed <=> n.flushed)
      /\ n.blocked # {} => u.blocked # {}
  <2>1. Base(u, n) /\ Quiet(u, n)
    BY <1>1, <1>2, <1>3 DEF Base, Quiet, Same, SameTimers
  <2>2. u.ok => /\ u.blocked = (n.blocked \cup {p}) \ {o} /\ u.failed = n.failed \ {o}
                /\ u.pdu = [rs |-> rs, status |-> status] /\ u.tx = n.up
                /\ (u.flushed <=> n.flushed)
    BY <1>1, <1>2, <1>3 DEF Base, SamePorts, SameAir, SamePdu, SameFlush
  <2>3. n.blocked # {} => u.blocked # {}
    <3>1. CASE ~t.ok
      BY <1>1, <1>2, <1>8, <3>1 DEF SamePorts
    <3>2. CASE t.ok
      BY <1>0, <1>1, <1>2, <1>3, <3>2 DEF SamePorts
    <3> QED
      BY <3>1, <3>2
  <2> QED
    BY <2>1, <2>2, <2>3
<1>6. (n.blocked \cup {p}) \ {o} = {p}
  <2>1. n.blocked \subseteq Port
    BY DEF Node
  <2> QED
    BY <1>0, <2>1
<1>7. /\ Base(m, n) /\ Same(m, n)
      /\ m.ok => /\ m.blocked = {p} /\ m.failed = n.failed \ {o}
                 /\ m.pdu = [rs |-> rs, status |-> status] /\ m.tx = n.up
                 /\ m.flushed <=> p \notin n.blocked \/ n.flushed
      /\ n.blocked # {} => m.blocked # {}
  <2>1. CASE p \in n.blocked
    BY <1>5, <1>6, <2>1 DEF Quiet
  <2>2. CASE p \notin n.blocked
    BY <1>4, <1>5, <1>6, <2>2
    DEF Base, Quiet, Same, SameTimers, SamePorts, SameAir, SamePdu
  <2> QED
    BY <2>1, <2>2
<1> QED
  BY <1>7 DEF b, t, u, f, o

(***************************************************************************)
(* What a successful post does with an accepted request, by kind.  n is    *)
(* the record the table is given, m the one it leaves.                     *)
(***************************************************************************)
SwitchState(req) == CASE req = ERPS_REQ_FS -> "FORCED_SWITCH"
                      [] req = ERPS_REQ_SF -> "PROTECTION"
                      [] req = ERPS_REQ_MS -> "MANUAL_SWITCH"

SwitchPdu(req) == CASE req = ERPS_REQ_FS -> "FS"
                    [] req = ERPS_REQ_SF -> "SF"
                    [] req = ERPS_REQ_MS -> "MS"

Local == {ERPS_REQ_FS, ERPS_REQ_SF, ERPS_REQ_MS}
Expiries == {ERPS_REQ_WTR_EXPIRES, ERPS_REQ_WTB_EXPIRES}

(* No action.                                                              *)
Untouched(m, n, req) ==
  /\ Same(m, n) /\ SamePorts(m, n) /\ SameAir(m, n) /\ SameFlush(m, n)
  /\ req = ERPS_REQ_FS => n.state = "UNINIT"
  /\ req = ERPS_REQ_SF => n.state \in {"UNINIT", "FORCED_SWITCH"}
  /\ n.state = "PENDING" =>
       req \notin Local /\ ~(req \in Expiries /\ erps_node_is_rpl_owner(n))

(* R-APS(NR,RB) in IDLE.                                                   *)
FollowsInIdle(m, n, req) ==
  /\ req = ERPS_REQ_RAPS_NR_RB /\ n.state = "IDLE" /\ Same(m, n)
  /\ SamePdu(m, n) /\ SameFlush(m, n)
  /\ HasRpl(n) => m.blocked = n.blocked \ {0} /\ m.failed = n.failed \ {0}
  /\ ~HasRpl(n) => SamePorts(m, n) /\ m.tx = {}
  /\ n.role = "owner" => m.tx = n.tx

(* A local FS, SF or MS cuts its port.                                     *)
CutsHere(m, n, l, req) ==
  /\ req \in Local /\ m.state = SwitchState(req) /\ m.topreq = n.topreq
  /\ m.blocked = {l} /\ m.failed = n.failed \ {erps_node_other_link(l)}
  /\ m.pdu = [rs |-> SwitchPdu(req),
              status |-> IF l \in n.blocked THEN {"DNF"} ELSE {}]
  /\ m.tx = n.up
  /\ m.flushed <=> l \notin n.blocked \/ n.flushed

(* A second forced switch.                                                 *)
CutsMore(m, n, l, req) ==
  /\ req = ERPS_REQ_FS /\ n.state = "FORCED_SWITCH" /\ Same(m, n)
  /\ m.blocked = n.blocked \cup {l} /\ m.failed = n.failed
  /\ m.pdu = [rs |-> "FS", status |-> {}] /\ m.tx = n.up /\ m.flushed

(* The ports that have not failed are open, and nothing is sent.           *)
OpensOthers(m, n) ==
  m.blocked = n.blocked \cap n.failed /\ m.failed = n.failed /\ m.tx = {}

(* A remote FS, SF or MS opens ports, an FS those that have failed, too.   *)
OpensPorts(m, n, req) ==
  /\ req \in {ERPS_REQ_RAPS_FS, ERPS_REQ_RAPS_SF, ERPS_REQ_RAPS_MS}
  /\ m.state \in {"PROTECTION", "MANUAL_SWITCH", "FORCED_SWITCH"}
  /\ req = ERPS_REQ_RAPS_SF => m.state = "PROTECTION"
  /\ m.topreq = n.topreq
  /\ m.blocked \subseteq n.blocked \cap m.failed /\ m.tx = {}
  /\ req # ERPS_REQ_RAPS_FS => OpensOthers(m, n)
  /\ SamePdu(m, n) /\ SameFlush(m, n)

(* So does R-APS(NR) of a higher ID in IDLE and PENDING.                   *)
YieldsPorts(m, n, req) ==
  /\ req = ERPS_REQ_RAPS_NR /\ Same(m, n)
  /\ n.state = "PENDING" \/ (n.state = "IDLE" /\ ~HasRpl(n))
  /\ m.blocked \subseteq n.blocked \cap m.failed /\ OpensOthers(m, n)
  /\ SamePdu(m, n) /\ SameFlush(m, n)

(* A switch ends.  A revertive owner starts a timer, unless it ends by     *)
(* R-APS(NR,RB), or by CLEAR of another node's switch.                     *)
StartsWaiting(m, n, req) ==
  /\ req \in {ERPS_REQ_CLEAR, ERPS_REQ_CLEAR_SF, ERPS_REQ_RAPS_MS,
              ERPS_REQ_RAPS_NR, ERPS_REQ_RAPS_NR_RB}
  /\ n.state \in {"PROTECTION", "MANUAL_SWITCH", "FORCED_SWITCH"}
  /\ m.state = "PENDING" /\ m.topreq \in {n.topreq} \cup TimerRunning
  /\ SamePorts(m, n) /\ SameFlush(m, n)
  /\ \/ SameAir(m, n)
     \/ /\ m.pdu = [rs |-> "NR", status |-> {}] /\ m.tx = n.up
        /\ n.blocked # {} \/ req = ERPS_REQ_CLEAR_SF
  /\ RevertiveOwner(n) /\ (n.blocked # {} \/ req # ERPS_REQ_CLEAR)
       /\ req # ERPS_REQ_RAPS_NR_RB => m.wtr \/ m.wtb

(* Two manual switches meet.                                               *)
DropsOrder(m, n, req) ==
  /\ req = ERPS_REQ_RAPS_MS /\ n.state = "MANUAL_SWITCH" /\ Same(m, n)
  /\ n.blocked # {} /\ SamePorts(m, n) /\ SameFlush(m, n)
  /\ m.pdu = [rs |-> "NR", status |-> {}] /\ m.tx = n.up

(* The wait ends: the RPL is cut and announced.                            *)
EndsWaiting(m, n, req) ==
  /\ req \in {ERPS_REQ_CLEAR} \cup Expiries
  /\ HasRpl(n) /\ (req \in Expiries => erps_node_is_rpl_owner(n))
  /\ n.state = "PENDING" /\ m.state = "IDLE" /\ m.topreq = n.topreq
  /\ m.blocked = {Rpl}
  /\ m.pdu = [rs |-> "NR",
              status |-> IF Rpl \in n.blocked THEN {"RB", "DNF"} ELSE {"RB"}]
  /\ m.tx = n.up
  /\ m.flushed <=> Rpl \notin n.blocked \/ n.flushed

(* It ends without a flush: a node without RPL is told to CLEAR, or the    *)
(* owner has announced that the RPL is blocked.                            *)
EndsWithout(m, n, req) ==
  /\ n.state = "PENDING" /\ m.state = "IDLE" /\ m.topreq = n.topreq
  /\ SamePdu(m, n) /\ SameFlush(m, n)
  /\ \/ req = ERPS_REQ_CLEAR /\ ~HasRpl(n) /\ SamePorts(m, n) /\ m.tx = n.tx
     \/ /\ req = ERPS_REQ_RAPS_NR_RB
        /\ \/ n.role = "owner" /\ SamePorts(m, n) /\ m.tx = n.tx
           \/ n.role = "none" /\ m.blocked = {} /\ m.tx = {}
           \/ n.role = "nbr" /\ m.blocked = {Rpl}

Effect(m, n, l, req) ==
  /\ Base(m, n)
  /\ \/ Untouched(m, n, req) \/ FollowsInIdle(m, n, req)
     \/ CutsHere(m, n, l, req) \/ CutsMore(m, n, l, req)
     \/ OpensPorts(m, n, req) \/ YieldsPorts(m, n, req)
     \/ StartsWaiting(m, n, req) \/ DropsOrder(m, n, req)
     \/ EndsWaiting(m, n, req) \/ EndsWithout(m, n, req)

(* What a post that fails midway leaves: the state and the top request,    *)
(* and, if no VLAN call fails, the ring cut at a node next to the RPL that *)
(* is in IDLE.                                                             *)
Stuck(m, n, req, e) ==
  /\ Base(m, n) /\ m.state = n.state /\ m.topreq = n.topreq
  /\ n.state = "IDLE" /\ HasRpl(n) /\ n.blocked # {} /\ e.vlan = {}
       /\ req # ERPS_REQ_RAPS_NR_RB => m.blocked # {}

Result(m, n, l, req, e) ==
  IF m.ok THEN Effect(m, n, l, req) ELSE Stuck(m, n, req, e)


-----------------------------------------------------------------------------
(* A handler that failed midway and left the ring cut where it was cut.    *)
Aborted(m, n, e) ==
  ~m.ok => /\ m.state = n.state /\ m.topreq = n.topreq
           /\ e.vlan = {} /\ n.blocked # {} => m.blocked # {}

(* Records that differ in their timers only, as far as the kinds go.       *)
Twin(m, n) ==
  /\ Base(m, n) /\ SamePorts(m, n) /\ SameAir(m, n) /\ SameFlush(m, n)
  /\ (m.ok <=> n.ok) /\ m.state = n.state /\ m.topreq = n.topreq

(* A local FS, SF or MS.                                                   *)
LEMMA SwitchEffect ==
  ASSUME NEW n \in Node, NEW l \in Port, NEW req \in Local, NEW e, NEW m,
         m = erps_fsm_fs_sf_ms(n, l, SwitchPdu(req), SwitchState(req), e)
  PROVE  Base(m, n) /\ (m.ok => CutsHere(m, n, l, req)) /\ Aborted(m, n, e)
<1> DEFINE status == IF l \in n.blocked THEN {"DNF"} ELSE {}
           o == erps_node_other_link(l)
           rs == SwitchPdu(req)
           next == SwitchState(req)
           k == PortCut(n, l, rs, status, e)
<1>0. status \in SUBSET {"RB", "DNF"}
  OBVIOUS
<1>1. rs \in {"NR", "MS", "SF", "FS"} /\ next \in State
  BY DEF Local, SwitchPdu, SwitchState, State, ERPS_REQ_FS, ERPS_REQ_SF, ERPS_REQ_MS
<1>2. m = erps_fsm_transition(k, next)
  BY DEF erps_fsm_fs_sf_ms, PortCut
<1> HIDE DEF status, rs, next
<1>3. /\ Base(k, n) /\ Same(k, n)
      /\ k.ok => /\ k.blocked = {l} /\ k.failed = n.failed \ {o}
                 /\ k.pdu = [rs |-> rs, status |-> status]
                 /\ k.tx = n.up
                 /\ k.flushed <=> l \notin n.blocked \/ n.flushed
      /\ n.blocked # {} => k.blocked # {}
  BY <1>0, <1>1, CutEffect
<1> HIDE DEF k
<1>4. k \in Node
  BY <1>3 DEF Base
<1>5. /\ Base(m, k) /\ SamePorts(m, k) /\ SameAir(m, k) /\ SameFlush(m, k)
      /\ (m.ok <=> k.ok) /\ SameTimers(m, k)
      /\ m.state = IF m.ok THEN next ELSE k.state
  BY <1>1, <1>2, <1>4, SimpleEffects
<1>6. Base(m, n)
  BY <1>3, <1>5 DEF Base
<1>7. ASSUME m.ok PROVE CutsHere(m, n, l, req)
  BY <1>3, <1>5, <1>7
  DEF CutsHere, SamePorts, SameAir, SamePdu, SameFlush, Same, SameTimers, status, rs, next
<1>8. Aborted(m, n, e)
  BY <1>3, <1>5 DEF Aborted, SamePorts, Same, SameTimers
<1> QED
  BY <1>6, <1>7, <1>8

(* The end of the wait.                                                    *)
LEMMA RestoreEffect ==
  ASSUME NEW n \in Node, NEW e, NEW m, m = erps_fsm_timer_expires_pending(n, e)
  PROVE  /\ Base(m, n) /\ m.topreq = n.topreq
         /\ m.ok => /\ m.state = "IDLE" /\ m.blocked = {Rpl} /\ m.tx = n.up
                    /\ m.pdu = [rs |-> "NR", status |-> IF Rpl \in n.blocked
                                                      THEN {"RB", "DNF"} ELSE {"RB"}]
                    /\ m.flushed <=> Rpl \notin n.blocked \/ n.flushed
         /\ ~m.ok => m.state = n.state
<1> DEFINE status == IF Rpl \in n.blocked THEN {"RB", "DNF"} ELSE {"RB"}
           o == erps_node_other_link(Rpl)
           k == PortCut(n, Rpl, "NR", status, e)
<1>1. Rpl \in Port /\ "IDLE" \in State /\ status \in SUBSET {"RB", "DNF"}
  BY DEF Rpl, Port, State
<1>2. m = erps_fsm_transition(k, "IDLE")
  BY DEF erps_fsm_timer_expires_pending, PortCut
<1> HIDE DEF status
<1>3. /\ Base(k, n) /\ Same(k, n)
      /\ k.ok => /\ k.blocked = {Rpl} /\ k.failed = n.failed \ {o}
                 /\ k.pdu = [rs |-> "NR", status |-> status] /\ k.tx = n.up
                 /\ k.flushed <=> Rpl \notin n.blocked \/ n.flushed
      /\ n.blocked # {} => k.blocked # {}
  BY <1>1, CutEffect
<1> HIDE DEF k
<1>4. k \in Node
  BY <1>3 DEF Base
<1>5. /\ Base(m, k) /\ SamePorts(m, k) /\ SameAir(m, k) /\ SameFlush(m, k)
      /\ (m.ok <=> k.ok) /\ SameTimers(m, k)
      /\ m.state = IF m.ok THEN "IDLE" ELSE k.state
  BY <1>1, <1>2, <1>4, SimpleEffects
<1>6. Base(m, n) /\ m.topreq = n.topreq
  BY <1>3, <1>5 DEF Base, Same, SameTimers
<1>7. m.ok => /\ m.state = "IDLE" /\ m.blocked = {Rpl} /\ m.tx = n.up
              /\ m.pdu = [rs |-> "NR", status |-> status]
              /\ m.flushed <=> Rpl \notin n.blocked \/ n.flushed
  BY <1>3, <1>5 DEF SamePorts, SameAir, SamePdu, SameFlush
<1>8. ~m.ok => m.state = n.state
  BY <1>3, <1>5 DEF Same
<1> QED
  BY <1>6, <1>7, <1>8 DEF status

(* What opening ports is made of.                                          *)
LEMMA OpenCalls ==
  ASSUME NEW n \in Node, n.ok, NEW e
  PROVE  /\ \A k : k \in {erps_node_unblock_all(n, e), erps_node_unblock_non_failed(n, e)} =>
              /\ k \in Node /\ Base(k, n) /\ SameAir(k, n) /\ SameFlush(k, n)
              /\ Same(k, n)
              /\ k.ok => k.blocked \subseteq n.blocked \cap k.failed
              /\ k.ok /\ k = erps_node_unblock_non_failed(n, e)
                   => k.blocked = n.blocked \cap n.failed /\ k.failed = n.failed
              /\ e.vlan = {} /\ ~k.ok => k.blocked # {}
         /\ \A k \in Node : \A t : t = erps_node_stop_tx(k) =>
              /\ Base(t, k) /\ SamePorts(t, k) /\ SameFlush(t, k) /\ SamePdu(t, k)
              /\ (t.ok <=> k.ok) /\ (t.ok => t.tx = {}) /\ Same(t, k) /\ t \in Node
<1>0. 0 \in Port
  BY DEF Port
<1>1. ASSUME NEW k, k \in {erps_node_unblock_all(n, e),
                           erps_node_unblock_non_failed(n, e)}
      PROVE  /\ k \in Node /\ Base(k, n) /\ SameAir(k, n) /\ SameFlush(k, n)
             /\ Same(k, n)
             /\ k.ok => k.blocked \subseteq n.blocked \cap k.failed
             /\ k.ok /\ k = erps_node_unblock_non_failed(n, e)
                  => k.blocked = n.blocked \cap n.failed /\ k.failed = n.failed
             /\ e.vlan = {} /\ ~k.ok => k.blocked # {}
  <2>1. Quiet(k, n)
    BY <1>1, QuietNodeCalls
  <2>2. /\ Base(k, n) /\ SameAir(k, n) /\ SameFlush(k, n)
        /\ k.ok => k.blocked \subseteq n.blocked \cap k.failed
        /\ k.ok /\ k = erps_node_unblock_non_failed(n, e)
             => k.blocked = n.blocked \cap n.failed /\ k.failed = n.failed
        /\ e.vlan = {} /\ ~k.ok => k.blocked # {}
    BY <1>1, UnblockAllEffects
  <2> QED
    BY <2>1, <2>2 DEF Quiet
<1>2. ASSUME NEW k \in Node, NEW t, t = erps_node_stop_tx(k)
      PROVE  /\ Base(t, k) /\ SamePorts(t, k) /\ SameFlush(t, k) /\ SamePdu(t, k)
             /\ (t.ok <=> k.ok) /\ (t.ok => t.tx = {}) /\ Same(t, k) /\ t \in Node
  BY <1>0, <1>2, SimpleEffects, QuietCalls DEF Quiet
<1> QED
  BY <1>1, <1>2

(* A remote FS, SF or MS.                                                  *)
LEMMA OpenEffects ==
  ASSUME NEW n \in Node, n.ok, NEW only \in BOOLEAN, NEW next \in State, NEW e,
         NEW m, m = erps_fsm_unblock_and_stop(n, only, next, e)
  PROVE  /\ Base(m, n) /\ Aborted(m, n, e)
         /\ m.ok => /\ m.state = next /\ m.topreq = n.topreq
                    /\ m.blocked \subseteq n.blocked \cap m.failed
                    /\ m.tx = {} /\ (only => OpensOthers(m, n))
                    /\ SamePdu(m, n) /\ SameFlush(m, n)
<1> DEFINE k == IF only THEN erps_node_unblock_non_failed(n, e)
                ELSE erps_node_unblock_all(n, e)
           t == erps_node_stop_tx(k)
<1>1. m = erps_fsm_transition(t, next)
  BY DEF erps_fsm_unblock_and_stop
<1>2. k \in {erps_node_unblock_all(n, e), erps_node_unblock_non_failed(n, e)}
  OBVIOUS
<1> HIDE DEF k
<1>3. /\ k \in Node /\ Base(k, n) /\ SameAir(k, n) /\ SameFlush(k, n)
      /\ Same(k, n)
      /\ k.ok => k.blocked \subseteq n.blocked \cap k.failed
      /\ k.ok /\ only => k.blocked = n.blocked \cap n.failed /\ k.failed = n.failed
      /\ e.vlan = {} /\ ~k.ok => k.blocked # {}
  BY <1>2, OpenCalls DEF k
<1>4. /\ Base(t, k) /\ SamePorts(t, k) /\ SameFlush(t, k) /\ SamePdu(t, k)
      /\ (t.ok <=> k.ok) /\ (t.ok => t.tx = {}) /\ Same(t, k) /\ t \in Node
  BY <1>3, OpenCalls
<1> HIDE DEF t
<1>5. /\ Base(m, t) /\ SamePorts(m, t) /\ SameAir(m, t) /\ SameFlush(m, t)
      /\ (m.ok <=> t.ok) /\ SameTimers(m, t)
      /\ m.state = IF m.ok THEN next ELSE t.state
  BY <1>1, <1>4, SimpleEffects
<1>6. Base(m, n)
  BY <1>3, <1>4, <1>5 DEF Base
<1>7. Aborted(m, n, e)
  BY <1>3, <1>4, <1>5 DEF Aborted, SamePorts, Same, SameTimers
<1>8. m.ok => /\ m.state = next /\ m.topreq = n.topreq
              /\ m.blocked \subseteq n.blocked \cap m.failed
              /\ m.tx = {} /\ (only => OpensOthers(m, n))
              /\ SamePdu(m, n) /\ SameFlush(m, n)
  BY <1>3, <1>4, <1>5
  DEF OpensOthers, SamePorts, SameAir, SamePdu, SameFlush, Same, SameTimers
<1> QED
  BY <1>6, <1>7, <1>8

(* A node that gives way to a higher ID.                                   *)
LEMMA YieldEffects ==
  ASSUME NEW n \in Node, n.ok, NEW id, NEW e,
         NEW m, m = erps_fsm_maybe_unblock_and_stop(n, id, e), m # n
  PROVE  /\ Base(m, n) /\ Same(m, n)
         /\ m.ok => /\ m.blocked \subseteq n.blocked \cap m.failed
                    /\ OpensOthers(m, n)
                    /\ SamePdu(m, n) /\ SameFlush(m, n)
<1> DEFINE k == erps_node_unblock_non_failed(n, e)
<1>1. m = erps_node_stop_tx(k)
  BY DEF erps_fsm_maybe_unblock_and_stop
<1>2. /\ k \in Node /\ Base(k, n) /\ SameAir(k, n) /\ SameFlush(k, n)
      /\ Same(k, n)
      /\ k.ok => k.blocked \subseteq n.blocked \cap k.failed
      /\ k.ok => k.blocked = n.blocked \cap n.failed /\ k.failed = n.failed
  BY OpenCalls
<1> HIDE DEF k
<1>3. /\ Base(m, k) /\ SamePorts(m, k) /\ SameFlush(m, k) /\ SamePdu(m, k)
      /\ (m.ok <=> k.ok) /\ (m.ok => m.tx = {}) /\ Same(m, k) /\ m \in Node
  BY <1>1, <1>2, OpenCalls
<1> QED
  BY <1>2, <1>3
  DEF OpensOthers, Base, SamePorts, SameAir, SamePdu, SameFlush, Same, SameTimers

(* The end of a switch.                                                    *)
LEMMA WaitEffects ==
  ASSUME NEW n \in Node, n.ok, NEW req,
         n.state \in {"PROTECTION", "MANUAL_SWITCH", "FORCED_SWITCH"}, NEW m
  PROVE  /\ m = erps_fsm_clear_common(n) /\ req = ERPS_REQ_CLEAR
              => m.ok /\ Base(m, n) /\ StartsWaiting(m, n, req)
         /\ m = erps_fsm_clear_sf_protection(n) /\ req = ERPS_REQ_CLEAR_SF
              => m.ok /\ Base(m, n) /\ StartsWaiting(m, n, req)
         /\ \A timer : m = RemoteNoRequest(n, req, timer)
                         /\ req \in {ERPS_REQ_RAPS_NR, ERPS_REQ_RAPS_NR_RB}
              => m.ok /\ Base(m, n) /\ StartsWaiting(m, n, req)
         /\ m = erps_fsm_raps_ms_ms(n) /\ req = ERPS_REQ_RAPS_MS
              /\ n.state = "MANUAL_SWITCH"
              => /\ m.ok /\ Base(m, n)
                 /\ m = n \/ StartsWaiting(m, n, req) \/ DropsOrder(m, n, req)
<1> DEFINE Quieter(k, a) ==
             /\ k \in Node /\ Base(k, a) /\ SamePorts(k, a) /\ SameFlush(k, a) /\ k.ok
             /\ k.state = a.state /\ k.topreq \in {a.topreq} \cup TimerRunning
           Said(k, a) == k.pdu = [rs |-> "NR", status |-> {}] /\ k.tx = a.up
           Timed(k) == RevertiveOwner(n) => k.wtr \/ k.wtb
           g == AnnounceNoRequest(n)
<1>0. 0 \in Port
  BY DEF Port
<1>1. Quieter(g, n) /\ Said(g, n) /\ Same(g, n)
  <2> DEFINE a == erps_node_start_guard_timer(n)
  <2>1. /\ Base(a, n) /\ SamePorts(a, n) /\ SameAir(a, n) /\ SameFlush(a, n) /\ a.ok
        /\ Quiet(a, n) /\ a \in Node
    BY <1>0, SimpleEffects, QuietCalls DEF Quiet
  <2>2. {} \in SUBSET {"RB", "DNF"}
    OBVIOUS
  <2>3. g = erps_node_sched_tx(a, "NR", {})
    BY DEF AnnounceNoRequest
  <2> HIDE DEF a, g
  <2>4. /\ Base(g, a) /\ SamePorts(g, a) /\ SameFlush(g, a) /\ g.ok
        /\ g.pdu = [rs |-> "NR", status |-> {}] /\ g.tx = a.up
        /\ Quiet(g, a) /\ g \in Node
    BY <2>1, <2>2, <2>3, SchedTxEffect, QuietSchedTx, SchedTxType
  <2> QED
    BY <2>1, <2>4
    DEF Base, SamePorts, SameFlush, Quiet, Same, SameTimers
<1> HIDE DEF g
<1>2. ASSUME NEW k \in Node, NEW a, NEW t, Quieter(k, a),
             t \in {OwnerStartsWtr(k), OwnerStartsWtb(k)}
      PROVE  /\ Quieter(t, a) /\ SameAir(t, k)
             /\ RevertiveOwner(k) => t.wtr \/ t.wtb
             /\ ~RevertiveOwner(k) => Same(t, k)
  <2>1. /\ Base(t, k) /\ SamePorts(t, k) /\ SameAir(t, k) /\ SameFlush(t, k)
        /\ (t.ok <=> k.ok) /\ t.state = k.state
        /\ t.topreq \in {k.topreq} \cup TimerRunning
        /\ t.ok /\ RevertiveOwner(k) => t.wtr \/ t.wtb
        /\ ~RevertiveOwner(k) => Same(t, k)
    BY <1>2, StartEffects
  <2> QED
    BY <1>2, <2>1 DEF Base, SamePorts, SameFlush
<1>3. ASSUME NEW k, Quieter(k, n), SameAir(k, n) \/ Said(k, n),
             NEW s \in State, NEW j, j = erps_fsm_transition(k, s)
      PROVE  /\ Quieter(k, n) /\ Base(j, n) /\ SamePorts(j, n) /\ SameFlush(j, n) /\ j.ok
             /\ j.state = s /\ j.topreq \in {n.topreq} \cup TimerRunning
             /\ SameAir(j, n) \/ Said(j, n)
             /\ SameTimers(j, k) /\ (Said(k, n) => Said(j, n))
             /\ SameAir(k, n) => SameAir(j, n)
  <2>1. /\ Base(j, k) /\ SamePorts(j, k) /\ SameAir(j, k) /\ SameFlush(j, k)
        /\ (j.ok <=> k.ok) /\ SameTimers(j, k)
        /\ j.state = IF j.ok THEN s ELSE k.state
    BY <1>3, SimpleEffects
  <2> QED
    BY <1>3, <2>1 DEF Base, SamePorts, SameAir, SamePdu, SameFlush, SameTimers
<1>4. "PENDING" \in State /\ "MANUAL_SWITCH" \in State
  BY DEF State
<1>5. ASSUME NEW k, Quieter(k, n), SameAir(k, n) \/ Said(k, n),
             m = erps_fsm_transition(k, "PENDING"),
             req \in {ERPS_REQ_CLEAR, ERPS_REQ_CLEAR_SF, ERPS_REQ_RAPS_MS,
                      ERPS_REQ_RAPS_NR, ERPS_REQ_RAPS_NR_RB},
             (n.blocked # {} \/ req # ERPS_REQ_CLEAR) /\ req # ERPS_REQ_RAPS_NR_RB
               => Timed(k),
             SameAir(k, n) \/ n.blocked # {} \/ req = ERPS_REQ_CLEAR_SF
      PROVE  m.ok /\ Base(m, n) /\ StartsWaiting(m, n, req)
  <2>1. /\ Base(m, n) /\ SamePorts(m, n) /\ SameFlush(m, n) /\ m.ok
        /\ m.state = "PENDING" /\ m.topreq \in {n.topreq} \cup TimerRunning
        /\ SameAir(m, n) \/ Said(m, n)
        /\ SameTimers(m, k)
        /\ SameAir(k, n) => SameAir(m, n)
    BY <1>3, <1>4, <1>5
  <2> QED
    BY <1>5, <2>1 DEF StartsWaiting, SameTimers
<1>6. Quieter(n, n) /\ SameAir(n, n)
  BY DEF Base, SamePorts, SameAir, SamePdu, SameFlush
<1>7. ASSUME NEW t, t \in {OwnerStartsWtr(g), OwnerStartsWtb(g)}
      PROVE  /\ Quieter(t, n) /\ Said(t, n) /\ Timed(t)
             /\ ~RevertiveOwner(n) => Same(t, n)
  <2>1. RevertiveOwner(g) <=> RevertiveOwner(n)
    BY <1>1 DEF Base, RevertiveOwner, erps_node_is_rpl_owner
  <2>2. /\ Quieter(t, n) /\ SameAir(t, g)
        /\ RevertiveOwner(g) => t.wtr \/ t.wtb
        /\ ~RevertiveOwner(g) => Same(t, g)
    BY <1>1, <1>2, <1>7
  <2> QED
    BY <1>1, <2>1, <2>2 DEF SameAir, SamePdu, Same, SameTimers
<1>8. ASSUME m = erps_fsm_clear_common(n), req = ERPS_REQ_CLEAR
      PROVE  m.ok /\ Base(m, n) /\ StartsWaiting(m, n, req)
  <2>1. CASE n.blocked = {}
    BY <1>5, <1>6, <1>8, <2>1 DEF erps_fsm_clear_common
  <2>2. CASE n.blocked # {}
    BY <1>5, <1>7, <1>8, <2>2 DEF erps_fsm_clear_common, g
  <2> QED
    BY <2>1, <2>2
<1>9. ASSUME m = erps_fsm_clear_sf_protection(n), req = ERPS_REQ_CLEAR_SF
      PROVE  m.ok /\ Base(m, n) /\ StartsWaiting(m, n, req)
  BY <1>5, <1>7, <1>9 DEF erps_fsm_clear_sf_protection, g
<1>10. ASSUME NEW timer, m = RemoteNoRequest(n, req, timer),
              req \in {ERPS_REQ_RAPS_NR, ERPS_REQ_RAPS_NR_RB}
       PROVE  m.ok /\ Base(m, n) /\ StartsWaiting(m, n, req)
  <2>1. CASE req = ERPS_REQ_RAPS_NR_RB
    BY <1>5, <1>6, <1>10, <2>1 DEF RemoteNoRequest
  <2>2. CASE req # ERPS_REQ_RAPS_NR_RB
    <3> DEFINE k == IF timer = "wtr" THEN OwnerStartsWtr(n) ELSE OwnerStartsWtb(n)
    <3>1. m = erps_fsm_transition(k, "PENDING")
      BY <1>10, <2>2 DEF RemoteNoRequest
    <3>2. k \in {OwnerStartsWtr(n), OwnerStartsWtb(n)}
      OBVIOUS
    <3> HIDE DEF k
    <3>3. Quieter(k, n) /\ SameAir(k, n) /\ Timed(k)
      BY <1>2, <1>6, <3>2
    <3> QED
      BY <1>5, <1>10, <3>1, <3>3
  <2> QED
    BY <2>1, <2>2
<1>11. ASSUME m = erps_fsm_raps_ms_ms(n), req = ERPS_REQ_RAPS_MS,
              n.state = "MANUAL_SWITCH", m # n
       PROVE  m.ok /\ Base(m, n) /\ (StartsWaiting(m, n, req) \/ DropsOrder(m, n, req))
  <2> DEFINE t == OwnerStartsWtb(g)
  <2>1. m = erps_fsm_transition(t, IF RevertiveOwner(n) THEN "PENDING"
                                   ELSE "MANUAL_SWITCH")
    BY <1>11 DEF erps_fsm_raps_ms_ms, g
  <2>2. /\ Quieter(t, n) /\ Said(t, n) /\ Timed(t)
        /\ ~RevertiveOwner(n) => Same(t, n)
    BY <1>7
  <2> HIDE DEF t
  <2>0. n.blocked # {}
    BY <1>11 DEF erps_fsm_raps_ms_ms
  <2>3. CASE RevertiveOwner(n)
    BY <1>5, <1>11, <2>0, <2>1, <2>2, <2>3
  <2>4. CASE ~RevertiveOwner(n)
    <3>1. /\ Base(m, n) /\ SamePorts(m, n) /\ SameFlush(m, n) /\ m.ok
          /\ m.state = "MANUAL_SWITCH" /\ SameTimers(m, t) /\ Said(m, n)
      BY <1>3, <1>4, <2>1, <2>2, <2>4
    <3>2. Same(m, n)
      BY <1>11, <2>2, <2>4, <3>1 DEF Same, SameTimers
    <3> QED
      BY <1>11, <2>0, <3>1, <3>2 DEF DropsOrder
  <2> QED
    BY <2>3, <2>4
<1>12. Base(n, n)
  BY <1>6
<1> QED
  BY <1>8, <1>9, <1>10, <1>11, <1>12

(* R-APS(NR,RB): the others follow the owner.                              *)
LEMMA FollowEffects ==
  ASSUME NEW n \in Node, n.ok, NEW e, NEW m
  PROVE  /\ m = erps_fsm_raps_nr_rb_idle(n, e) /\ n.state = "IDLE"
              => /\ Base(m, n) /\ m.state = n.state /\ m.topreq = n.topreq
                 /\ m.ok => FollowsInIdle(m, n, ERPS_REQ_RAPS_NR_RB)
         /\ m = erps_fsm_raps_nr_rb_pending(n, e) /\ n.state = "PENDING"
              => /\ Base(m, n) /\ (~m.ok => m.state = n.state) /\ m.topreq = n.topreq
                 /\ m.ok => EndsWithout(m, n, ERPS_REQ_RAPS_NR_RB)
<1>0. 0 \in Port /\ Rpl \in Port /\ Port \ {0} = {Rpl} /\ "IDLE" \in State
  BY DEF Port, Rpl, State
<1>1. ASSUME NEW k \in Node, NEW t, t = erps_node_stop_tx(k)
      PROVE  /\ Base(t, k) /\ SamePorts(t, k) /\ SameFlush(t, k) /\ SamePdu(t, k)
             /\ (t.ok <=> k.ok) /\ (t.ok => t.tx = {}) /\ Same(t, k) /\ t \in Node
  BY <1>0, <1>1, SimpleEffects, QuietCalls DEF Quiet
<1>2. ASSUME m = erps_fsm_raps_nr_rb_idle(n, e), n.state = "IDLE"
      PROVE  /\ Base(m, n) /\ m.state = n.state /\ m.topreq = n.topreq
             /\ m.ok => FollowsInIdle(m, n, ERPS_REQ_RAPS_NR_RB)
  <2> DEFINE k == IF HasRpl(n) THEN erps_link_unblock(n, 0, e) ELSE n
  <2>1. m = IF erps_node_is_rpl_owner(n) THEN k ELSE erps_node_stop_tx(k)
    BY <1>2 DEF erps_fsm_raps_nr_rb_idle
  <2>2. /\ k \in Node /\ Base(k, n) /\ SameAir(k, n) /\ SameFlush(k, n) /\ Same(k, n)
        /\ k.ok /\ HasRpl(n) =>
             k.blocked = n.blocked \ {0} /\ k.failed = n.failed \ {0}
        /\ ~HasRpl(n) => SamePorts(k, n)
    <3>1. CASE HasRpl(n)
      BY <1>0, <3>1, UnblockEffect, QuietCalls DEF Quiet
    <3>2. CASE ~HasRpl(n)
      BY <3>2 DEF Base, SamePorts, SameAir, SamePdu, SameFlush, Same, SameTimers
    <3> QED
      BY <3>1, <3>2
  <2> HIDE DEF k
  <2>3. CASE erps_node_is_rpl_owner(n)
    BY <1>2, <2>1, <2>2, <2>3
    DEF FollowsInIdle, SameAir, Same, SameTimers, HasRpl, erps_node_is_rpl_owner
  <2>4. CASE ~erps_node_is_rpl_owner(n)
    <3>1. /\ Base(m, k) /\ SamePorts(m, k) /\ SameFlush(m, k) /\ SamePdu(m, k)
          /\ (m.ok <=> k.ok) /\ (m.ok => m.tx = {}) /\ Same(m, k)
      BY <1>1, <2>1, <2>2, <2>4
    <3>2. Base(m, n) /\ Same(m, n)
      BY <2>2, <3>1 DEF Base, Same, SameTimers
    <3>3. SamePdu(m, n) /\ SameFlush(m, n)
      BY <2>2, <3>1 DEF SamePdu, SameAir, SameFlush
    <3>4. m.ok /\ HasRpl(n) =>
             m.blocked = n.blocked \ {0} /\ m.failed = n.failed \ {0}
      BY <2>2, <3>1 DEF SamePorts
    <3>5. ~HasRpl(n) => SamePorts(m, n)
      BY <2>2, <3>1 DEF SamePorts
    <3> QED
      BY <1>2, <2>4, <3>1, <3>2, <3>3, <3>4, <3>5
      DEF FollowsInIdle, Same, SameTimers, erps_node_is_rpl_owner
  <2> QED
    BY <2>3, <2>4
<1>3. ASSUME m = erps_fsm_raps_nr_rb_pending(n, e), n.state = "PENDING"
      PROVE  /\ Base(m, n) /\ (~m.ok => m.state = n.state) /\ m.topreq = n.topreq
             /\ m.ok => EndsWithout(m, n, ERPS_REQ_RAPS_NR_RB)
  <2> DEFINE Ends(k) ==
               /\ k \in Node /\ Base(k, n) /\ SamePdu(k, n) /\ SameFlush(k, n)
               /\ k.state = n.state /\ k.topreq = n.topreq
               /\ k.ok => \/ n.role = "owner" /\ SamePorts(k, n) /\ k.tx = n.tx
                          \/ n.role = "none" /\ k.blocked = {} /\ k.tx = {}
                          \/ n.role = "nbr" /\ k.blocked = {Rpl}
  <2>1. ASSUME NEW k, Ends(k), m = erps_fsm_transition(k, "IDLE")
        PROVE  /\ Base(m, n) /\ (~m.ok => m.state = n.state) /\ m.topreq = n.topreq
               /\ m.ok => EndsWithout(m, n, ERPS_REQ_RAPS_NR_RB)
    <3>1. /\ Base(m, k) /\ SamePorts(m, k) /\ SameAir(m, k) /\ SameFlush(m, k)
          /\ (m.ok <=> k.ok) /\ SameTimers(m, k)
          /\ m.state = IF m.ok THEN "IDLE" ELSE k.state
      BY <1>0, <2>1, SimpleEffects
    <3>2. Base(m, n)
      BY <2>1, <3>1 DEF Base
    <3> QED
      BY <1>3, <2>1, <3>1, <3>2
      DEF EndsWithout, SamePorts, SameAir, SamePdu, SameFlush, SameTimers
  <2>2. CASE n.role = "owner"
    <3> DEFINE k == OwnerStopsTimers(n)
    <3>1. k \in Node /\ Ends(k)
      BY <2>2, SimpleEffects, SimpleTypes DEF SameAir
    <3>2. m = erps_fsm_transition(k, "IDLE")
      BY <1>3, <2>2 DEF erps_fsm_raps_nr_rb_pending
    <3> QED
      BY <2>1, <3>1, <3>2
  <2>3. CASE n.role = "none"
    <3> DEFINE a == erps_node_unblock_all(n, e)
               k == erps_node_stop_tx(a)
    <3>1. /\ a \in Node /\ Base(a, n) /\ SameAir(a, n) /\ SameFlush(a, n) /\ Same(a, n)
          /\ a.ok => a.blocked = {}
      BY UnblockAllEffects, QuietNodeCalls DEF Quiet
    <3>2. m = erps_fsm_transition(k, "IDLE")
      BY <1>3, <2>3 DEF erps_fsm_raps_nr_rb_pending
    <3> HIDE DEF a
    <3>3. /\ Base(k, a) /\ SamePorts(k, a) /\ SameFlush(k, a) /\ SamePdu(k, a)
          /\ (k.ok <=> a.ok) /\ (k.ok => k.tx = {}) /\ Same(k, a) /\ k \in Node
      BY <1>1, <3>1
    <3> HIDE DEF k
    <3>4. Ends(k)
      BY <2>3, <3>1, <3>3
      DEF Base, SamePorts, SameAir, SamePdu, SameFlush, Same, SameTimers
    <3> QED
      BY <2>1, <3>2, <3>4
  <2>4. CASE n.role = "nbr"
    <3> DEFINE b == erps_link_block(n, Rpl, e)
               a == erps_link_unblock(b, 0, e)
               k == erps_node_stop_tx(a)
    <3>1. m = erps_fsm_transition(k, "IDLE")
      BY <1>3, <2>4 DEF erps_fsm_raps_nr_rb_pending
    <3>2. /\ b \in Node /\ Base(b, n) /\ SameAir(b, n) /\ SameFlush(b, n) /\ Same(b, n)
          /\ b.ok => b.blocked = n.blocked \cup {Rpl}
      BY <1>0, BlockEffect, QuietCalls DEF Quiet
    <3> HIDE DEF b
    <3>3. /\ a \in Node /\ Base(a, b) /\ SameAir(a, b) /\ SameFlush(a, b) /\ Same(a, b)
          /\ a.ok => a.blocked = b.blocked \ {0}
      BY <1>0, <3>2, UnblockEffect, QuietCalls DEF Quiet
    <3> HIDE DEF a
    <3>4. /\ Base(k, a) /\ SamePorts(k, a) /\ SameFlush(k, a) /\ SamePdu(k, a)
          /\ (k.ok <=> a.ok) /\ Same(k, a) /\ k \in Node
      BY <1>1, <3>3
    <3> HIDE DEF k
    <3>5. (n.blocked \cup {Rpl}) \ {0} = {Rpl}
      <4>1. n.blocked \subseteq Port
        BY DEF Node
      <4> QED
        BY <1>0, <4>1
    <3>6. k.ok => k.blocked = {Rpl}
      BY <3>2, <3>3, <3>4, <3>5 DEF Base, SamePorts
    <3>7. Ends(k)
      BY <2>4, <3>2, <3>3, <3>4, <3>6
      DEF Base, SameAir, SamePdu, SameFlush, Same, SameTimers
    <3> QED
      BY <2>1, <3>1, <3>7
  <2> QED
    BY <2>2, <2>3, <2>4 DEF Node, Role
<1> QED
  BY <1>2, <1>3

(* Kinds survive a change of timers on either side.                        *)
LEMMA TwinKinds ==
  ASSUME NEW n, NEW a, NEW m, NEW k, NEW l, NEW req, NEW e, Twin(a, n), Twin(k, m)
  PROVE  /\ Base(m, a) => Base(k, n)
         /\ CutsHere(m, a, l, req) => CutsHere(k, n, l, req)
         /\ OpensPorts(m, a, req) => OpensPorts(k, n, req)
         /\ Aborted(m, a, e) => Aborted(k, n, e)
<1>1. Base(m, a) => Base(k, n)
  BY DEF Base, Twin
<1>2. CutsHere(m, a, l, req) => CutsHere(k, n, l, req)
  BY DEF CutsHere, Twin, Base, SamePorts, SameAir, SamePdu, SameFlush
<1>3. OpensPorts(m, a, req) => OpensPorts(k, n, req)
  BY DEF OpensPorts, OpensOthers, Twin, SamePorts, SameAir, SamePdu, SameFlush
<1>4. Aborted(m, a, e) => Aborted(k, n, e)
  BY DEF Aborted, Twin, SamePorts
<1> QED
  BY <1>1, <1>2, <1>3, <1>4

(* A handler shared by the states cuts a port, or opens ports.             *)
Common(m, n, l, req, e) ==
  /\ Base(m, n) /\ Aborted(m, n, e)
  /\ m.ok => CutsHere(m, n, l, req) \/ OpensPorts(m, n, req)

LEMMA CommonEffects ==
  ASSUME NEW n \in Node, n.ok, NEW l \in Port, NEW req, NEW e
  PROVE  /\ req = ERPS_REQ_FS => Common(FsCommon(n, l, e), n, l, req, e)
         /\ req = ERPS_REQ_SF => Common(SfCommon(n, l, e), n, l, req, e)
         /\ req = ERPS_REQ_MS => Common(MsCommon(n, l, e), n, l, req, e)
         /\ req = ERPS_REQ_RAPS_FS => Common(RapsFsCommon(n, e), n, l, req, e)
         /\ req = ERPS_REQ_RAPS_SF => Common(RapsSfCommon(n, e), n, l, req, e)
         /\ req = ERPS_REQ_RAPS_MS => Common(RapsMsCommon(n, e), n, l, req, e)
<1>2. /\ req = ERPS_REQ_FS => /\ req \in Local
                              /\ SwitchPdu(req) = "FS"
                              /\ SwitchState(req) = "FORCED_SWITCH"
      /\ req = ERPS_REQ_SF => /\ req \in Local
                              /\ SwitchPdu(req) = "SF"
                              /\ SwitchState(req) = "PROTECTION"
      /\ req = ERPS_REQ_MS => /\ req \in Local
                              /\ SwitchPdu(req) = "MS"
                              /\ SwitchState(req) = "MANUAL_SWITCH"
  BY DEF Local, SwitchPdu, SwitchState, ERPS_REQ_FS, ERPS_REQ_SF, ERPS_REQ_MS
<1>3. ASSUME req \in Local, NEW m,
             m = erps_fsm_fs_sf_ms(n, l, SwitchPdu(req), SwitchState(req), e)
      PROVE  Common(m, n, l, req, e)
  BY <1>3, SwitchEffect DEF Common
<1>4. ASSUME NEW only \in BOOLEAN, NEW m,
             NEW next \in {"PROTECTION", "MANUAL_SWITCH", "FORCED_SWITCH"},
             m = erps_fsm_unblock_and_stop(n, only, next, e),
             req \in {ERPS_REQ_RAPS_FS, ERPS_REQ_RAPS_SF, ERPS_REQ_RAPS_MS},
             req # ERPS_REQ_RAPS_FS => only,
             req = ERPS_REQ_RAPS_SF => next = "PROTECTION"
      PROVE  Common(m, n, l, req, e)
  <2>1. next \in State
    BY DEF State
  <2>2. /\ Base(m, n) /\ Aborted(m, n, e)
        /\ m.ok => /\ m.state = next /\ m.topreq = n.topreq
                   /\ m.blocked \subseteq n.blocked \cap m.failed
                   /\ m.tx = {} /\ (only => OpensOthers(m, n))
                   /\ SamePdu(m, n) /\ SameFlush(m, n)
    BY <1>4, <2>1, OpenEffects
  <2>3. m.ok => OpensPorts(m, n, req)
    BY <1>4, <2>2 DEF OpensPorts
  <2> QED
    BY <2>2, <2>3 DEF Common
<1>5. /\ req = ERPS_REQ_FS => Common(FsCommon(n, l, e), n, l, req, e)
      /\ req = ERPS_REQ_SF => Common(SfCommon(n, l, e), n, l, req, e)
      /\ req = ERPS_REQ_MS => Common(MsCommon(n, l, e), n, l, req, e)
  BY <1>2, <1>3 DEF FsCommon, SfCommon, MsCommon
<1>6. /\ req = ERPS_REQ_RAPS_FS => Common(RapsFsCommon(n, e), n, l, req, e)
      /\ req = ERPS_REQ_RAPS_SF => Common(RapsSfCommon(n, e), n, l, req, e)
      /\ req = ERPS_REQ_RAPS_MS => Common(RapsMsCommon(n, e), n, l, req, e)
  <2>1. /\ req = ERPS_REQ_RAPS_FS => req # ERPS_REQ_RAPS_SF
        /\ req = ERPS_REQ_RAPS_SF => req # ERPS_REQ_RAPS_FS
        /\ req = ERPS_REQ_RAPS_MS => req \notin {ERPS_REQ_RAPS_FS, ERPS_REQ_RAPS_SF}
    BY DEF ERPS_REQ_RAPS_FS, ERPS_REQ_RAPS_SF, ERPS_REQ_RAPS_MS
  <2> QED
    BY <1>4, <2>1 DEF RapsFsCommon, RapsSfCommon, RapsMsCommon
<1> QED
  BY <1>5, <1>6

LEMMA CommonResults ==
  ASSUME NEW n \in Node, n.ok, NEW l \in Port, NEW req, NEW e
  PROVE  /\ req = ERPS_REQ_FS => Result(FsCommon(n, l, e), n, l, req, e)
         /\ req = ERPS_REQ_SF => Result(SfCommon(n, l, e), n, l, req, e)
         /\ req = ERPS_REQ_MS => Result(MsCommon(n, l, e), n, l, req, e)
         /\ req = ERPS_REQ_RAPS_FS => Result(RapsFsCommon(n, e), n, l, req, e)
         /\ req = ERPS_REQ_RAPS_SF => Result(RapsSfCommon(n, e), n, l, req, e)
         /\ req = ERPS_REQ_RAPS_MS => Result(RapsMsCommon(n, e), n, l, req, e)
<1>1. ASSUME NEW m, Common(m, n, l, req, e) PROVE Result(m, n, l, req, e)
  BY <1>1 DEF Common, Result, Effect, Stuck, Aborted
<1> QED
  BY <1>1, CommonEffects

(* No action.                                                              *)
LEMMA NoActionResult ==
  ASSUME NEW n \in Node, n.ok, NEW l, NEW req, NEW e,
         req = ERPS_REQ_FS => n.state = "UNINIT",
         req = ERPS_REQ_SF => n.state \in {"UNINIT", "FORCED_SWITCH"},
         n.state = "PENDING" =>
           req \notin Local /\ ~(req \in Expiries /\ erps_node_is_rpl_owner(n))
  PROVE  Result(n, n, l, req, e)
BY DEF Result, Effect, Untouched, Base, Same, SameTimers, SamePorts, SameAir,
       SamePdu, SameFlush

(* The table of IDLE.                                                      *)
LEMMA IdleResult ==
  ASSUME NEW n \in Node, n.ok, n.state = "IDLE", NEW l \in Port, NEW req, NEW id, NEW e
  PROVE  Result(erps_fsm_post_idle(n, l, req, id, e), n, l, req, e)
<1>1. req \notin {ERPS_REQ_FS, ERPS_REQ_SF} => Result(n, n, l, req, e)
  BY NoActionResult
<1>2. req = ERPS_REQ_RAPS_NR_RB => Result(erps_fsm_raps_nr_rb_idle(n, e), n, l, req, e)
  <2> DEFINE m == erps_fsm_raps_nr_rb_idle(n, e)
  <2> SUFFICES ASSUME req = ERPS_REQ_RAPS_NR_RB PROVE Result(m, n, l, req, e)
    OBVIOUS
  <2>1. /\ Base(m, n) /\ m.state = n.state /\ m.topreq = n.topreq
        /\ m.ok => FollowsInIdle(m, n, ERPS_REQ_RAPS_NR_RB)
    BY FollowEffects
  <2> HIDE DEF m
  <2> QED
    BY <2>1 DEF Result, Effect, Stuck
<1>3. req = ERPS_REQ_RAPS_NR =>
        Result(IF HasRpl(n) THEN n ELSE erps_fsm_maybe_unblock_and_stop(n, id, e),
               n, l, req, e)
  <2> DEFINE m == IF HasRpl(n) THEN n ELSE erps_fsm_maybe_unblock_and_stop(n, id, e)
  <2> SUFFICES ASSUME req = ERPS_REQ_RAPS_NR PROVE Result(m, n, l, req, e)
    OBVIOUS
  <2>0. req \notin {ERPS_REQ_FS, ERPS_REQ_SF}
    BY DEF ERPS_REQ_FS, ERPS_REQ_SF, ERPS_REQ_RAPS_NR
  <2>1. m = n \/ (~HasRpl(n) /\ m = erps_fsm_maybe_unblock_and_stop(n, id, e))
    OBVIOUS
  <2> HIDE DEF m
  <2>2. \/ m = n
        \/ /\ Base(m, n) /\ Same(m, n) /\ ~HasRpl(n)
           /\ m.ok => /\ m.blocked \subseteq n.blocked \cap m.failed
                      /\ OpensOthers(m, n)
                      /\ SamePdu(m, n) /\ SameFlush(m, n)
    BY <2>1, YieldEffects
  <2>3. CASE m = n
    BY <1>1, <2>0, <2>3
  <2>4. CASE m # n
    BY <2>2, <2>4 DEF Result, Effect, Stuck, YieldsPorts, Same, SameTimers
  <2> QED
    BY <2>3, <2>4
<1> QED
  BY <1>1, <1>2, <1>3, CommonResults DEF erps_fsm_post_idle

(* The tables of the switched states.                                      *)
LEMMA SwitchedResults ==
  ASSUME NEW n \in Node, n.ok, NEW l \in Port, NEW req, NEW e
  PROVE  /\ n.state = "PROTECTION" =>
              Result(erps_fsm_post_protection(n, l, req, e), n, l, req, e)
         /\ n.state = "MANUAL_SWITCH" =>
              Result(erps_fsm_post_manual_switch(n, l, req, e), n, l, req, e)
         /\ n.state = "FORCED_SWITCH" =>
              Result(erps_fsm_post_forced_switch(n, l, req, e), n, l, req, e)
<1> DEFINE Switching == n.state \in {"PROTECTION", "MANUAL_SWITCH", "FORCED_SWITCH"}
<1>1. Switching /\ req # ERPS_REQ_FS
        /\ (req = ERPS_REQ_SF => n.state = "FORCED_SWITCH") => Result(n, n, l, req, e)
  BY NoActionResult
<1>2. Switching /\ req = ERPS_REQ_CLEAR => Result(erps_fsm_clear_common(n), n, l, req, e)
  BY WaitEffects DEF Result, Effect
<1>3. Switching /\ req = ERPS_REQ_CLEAR_SF
        => Result(erps_fsm_clear_sf_protection(n), n, l, req, e)
  BY WaitEffects DEF Result, Effect
<1>4. \A timer : Switching /\ req \in {ERPS_REQ_RAPS_NR_RB, ERPS_REQ_RAPS_NR}
        => Result(RemoteNoRequest(n, req, timer), n, l, req, e)
  BY WaitEffects DEF Result, Effect
<1>5. n.state = "MANUAL_SWITCH" /\ req = ERPS_REQ_RAPS_MS
        => Result(erps_fsm_raps_ms_ms(n), n, l, req, e)
  <2> DEFINE m == erps_fsm_raps_ms_ms(n)
  <2> SUFFICES ASSUME n.state = "MANUAL_SWITCH", req = ERPS_REQ_RAPS_MS
               PROVE  Result(m, n, l, req, e)
    OBVIOUS
  <2>0. req \notin {ERPS_REQ_FS, ERPS_REQ_SF}
    BY DEF ERPS_REQ_FS, ERPS_REQ_SF, ERPS_REQ_RAPS_MS
  <2>1. /\ m.ok /\ Base(m, n)
        /\ m = n \/ StartsWaiting(m, n, req) \/ DropsOrder(m, n, req)
    BY WaitEffects
  <2> HIDE DEF m
  <2>2. CASE m = n
    BY <1>1, <2>0, <2>2
  <2>3. CASE m # n
    BY <2>1, <2>3 DEF Result, Effect
  <2> QED
    BY <2>2, <2>3
<1>6. n.state = "FORCED_SWITCH" /\ req = ERPS_REQ_FS
        => Result(erps_fsm_fs_fs(n, l, e), n, l, req, e)
  <2> DEFINE b == erps_link_block(n, l, e)
             t == erps_node_sched_tx(b, "FS", {})
             m == erps_flush_fdb(t, e)
  <2> SUFFICES ASSUME n.state = "FORCED_SWITCH", req = ERPS_REQ_FS
               PROVE  Result(m, n, l, req, e)
    BY DEF erps_fsm_fs_fs
  <2>1. /\ b \in Node /\ Base(b, n) /\ b.failed = n.failed /\ Same(b, n)
        /\ b.ok => b.blocked = n.blocked \cup {l}
    BY BlockEffect, QuietCalls DEF Quiet
  <2>2. {} \in SUBSET {"RB", "DNF"}
    OBVIOUS
  <2> HIDE DEF b
  <2>3. /\ t \in Node /\ Base(t, b) /\ SamePorts(t, b) /\ Same(t, b)
        /\ (t.ok <=> b.ok)
        /\ t.ok => t.pdu = [rs |-> "FS", status |-> {}] /\ t.tx = b.up
    BY <2>1, <2>2, SchedTxEffect, QuietSchedTx DEF Quiet
  <2> HIDE DEF t
  <2>4. /\ Base(m, t) /\ SamePorts(m, t) /\ SameAir(m, t) /\ (m.ok => m.flushed)
        /\ Same(m, t)
    BY <2>3, SimpleEffects, QuietCalls DEF Quiet
  <2> HIDE DEF m
  <2>5. Base(m, n) /\ Same(m, n)
    BY <2>1, <2>3, <2>4 DEF Base, Same, SameTimers
  <2>6. m.ok => CutsMore(m, n, l, req)
    BY <2>1, <2>3, <2>4, <2>5 DEF CutsMore, Base, SamePorts, SameAir, SamePdu
  <2> QED
    BY <2>5, <2>6 DEF Result, Effect, Stuck, Same, SameTimers
<1>7. n.state = "PROTECTION" =>
        Result(erps_fsm_post_protection(n, l, req, e), n, l, req, e)
  BY <1>1, <1>3, <1>4, CommonResults DEF erps_fsm_post_protection
<1>8. n.state = "MANUAL_SWITCH" =>
        Result(erps_fsm_post_manual_switch(n, l, req, e), n, l, req, e)
  BY <1>1, <1>2, <1>4, <1>5, CommonResults DEF erps_fsm_post_manual_switch
<1>9. n.state = "FORCED_SWITCH" =>
        Result(erps_fsm_post_forced_switch(n, l, req, e), n, l, req, e)
  BY <1>1, <1>2, <1>4, <1>6 DEF erps_fsm_post_forced_switch
<1> QED
  BY <1>7, <1>8, <1>9

(* The calls that change timers only.                                      *)
LEMMA TimerTwins ==
  ASSUME NEW n \in Node
  PROVE  /\ OwnerStopsTimers(n) \in Node /\ Twin(OwnerStopsTimers(n), n)
         /\ [n EXCEPT !.wtr = FALSE] \in Node /\ Twin([n EXCEPT !.wtr = FALSE], n)
         /\ [n EXCEPT !.wtb = FALSE] \in Node /\ Twin([n EXCEPT !.wtb = FALSE], n)
         /\ Twin(n, n)
<1>1. OwnerStopsTimers(n) \in Node /\ Twin(OwnerStopsTimers(n), n)
  BY SimpleEffects, SimpleTypes DEF Twin
<1>2. ASSUME NEW m \in {[n EXCEPT !.wtr = FALSE], [n EXCEPT !.wtb = FALSE], n}
      PROVE  m \in Node /\ Twin(m, n)
  <2>1. m \in Node
    BY <1>2, TimerTypes
  <2>2. /\ m.role = n.role /\ (m.revertive <=> n.revertive)
        /\ m.up = n.up /\ (m.cb <=> n.cb) /\ (m.ok <=> n.ok)
        /\ m.id = n.id /\ (n.guard => m.guard)
        /\ m.linkDown \subseteq n.linkDown
        /\ m.blocked = n.blocked /\ m.failed = n.failed
        /\ (m.flushed <=> n.flushed) /\ m.pdu = n.pdu /\ m.tx = n.tx
        /\ m.state = n.state /\ m.topreq = n.topreq
    BY <1>2 DEF Node
  <2> QED
    BY <2>1, <2>2 DEF Twin, Base, SamePorts, SameAir, SamePdu, SameFlush
<1> QED
  BY <1>1, <1>2

(* The table of PENDING.                                                   *)
LEMMA PendingResult ==
  ASSUME NEW n \in Node, n.ok, n.state = "PENDING",
         NEW l \in Port, NEW req, NEW id, NEW e
  PROVE  Result(erps_fsm_post_pending(n, l, req, id, e), n, l, req, e)
<1>0. /\ ERPS_REQ_RAPS_NR \notin Local \cup Expiries
      /\ ERPS_REQ_FS \in Local /\ ERPS_REQ_SF \in Local
  BY DEF Local, Expiries, ERPS_REQ_FS, ERPS_REQ_SF, ERPS_REQ_MS, ERPS_REQ_RAPS_NR,
         ERPS_REQ_WTR_EXPIRES, ERPS_REQ_WTB_EXPIRES
<1>1. req \notin Local /\ ~(req \in Expiries /\ erps_node_is_rpl_owner(n))
        => Result(n, n, l, req, e)
  BY <1>0, NoActionResult
<1>2. ASSUME NEW a \in Node, Twin(a, n), NEW m, m = erps_fsm_timer_expires_pending(a, e),
             req \in {ERPS_REQ_CLEAR} \cup Expiries, HasRpl(n),
             req \in Expiries => erps_node_is_rpl_owner(n)
      PROVE  Result(m, n, l, req, e)
  <2>1. /\ Base(m, a) /\ m.topreq = a.topreq
        /\ m.ok => /\ m.state = "IDLE" /\ m.blocked = {Rpl} /\ m.tx = a.up
                   /\ m.pdu = [rs |-> "NR", status |-> IF Rpl \in a.blocked
                                                     THEN {"RB", "DNF"} ELSE {"RB"}]
                   /\ m.flushed <=> Rpl \notin a.blocked \/ a.flushed
        /\ ~m.ok => m.state = a.state
    BY <1>2, RestoreEffect
  <2>2. a.blocked = n.blocked /\ a.up = n.up /\ (a.flushed <=> n.flushed)
        /\ a.topreq = n.topreq /\ a.state = n.state
    BY <1>2 DEF Twin, Base, SamePorts, SameFlush
  <2>3. Base(m, n)
    BY <1>2, <2>1 DEF Twin, Base
  <2>4. m.ok => EndsWaiting(m, n, req)
    BY <1>2, <2>1, <2>2 DEF EndsWaiting
  <2> QED
    BY <2>1, <2>2, <2>3, <2>4 DEF Result, Effect, Stuck
<1>3. req = ERPS_REQ_CLEAR => Result(erps_fsm_clear_pending(n, e), n, l, req, e)
  <2> SUFFICES ASSUME req = ERPS_REQ_CLEAR
               PROVE  Result(erps_fsm_clear_pending(n, e), n, l, req, e)
    OBVIOUS
  <2>0. ERPS_REQ_CLEAR \notin Expiries /\ "IDLE" \in State
    BY DEF Expiries, ERPS_REQ_CLEAR, ERPS_REQ_WTR_EXPIRES, ERPS_REQ_WTB_EXPIRES, State
  <2>1. CASE HasRpl(n)
    BY <1>2, <2>0, <2>1, TimerTwins DEF erps_fsm_clear_pending
  <2>2. CASE ~HasRpl(n)
    <3> DEFINE m == erps_fsm_transition(n, "IDLE")
    <3>1. /\ Base(m, n) /\ SamePorts(m, n) /\ SameAir(m, n) /\ SameFlush(m, n)
          /\ (m.ok <=> n.ok) /\ SameTimers(m, n)
          /\ m.state = IF m.ok THEN "IDLE" ELSE n.state
      BY <2>0, SimpleEffects
    <3>2. erps_fsm_clear_pending(n, e) = m
      BY <2>2 DEF erps_fsm_clear_pending
    <3> HIDE DEF m
    <3>3. EndsWithout(m, n, req)
      BY <2>2, <3>1 DEF EndsWithout, SameAir, SameTimers
    <3> QED
      BY <3>1, <3>2, <3>3 DEF Result, Effect
  <2> QED
    BY <2>1, <2>2
<1>4. ASSUME NEW a \in Node, Twin(a, n), NEW m, Common(m, a, l, req, e),
             NEW k, Twin(k, m)
      PROVE  Result(k, n, l, req, e)
  <2>1. /\ Base(k, n) /\ Aborted(k, n, e) /\ (k.ok <=> m.ok)
        /\ CutsHere(m, a, l, req) => CutsHere(k, n, l, req)
        /\ OpensPorts(m, a, req) => OpensPorts(k, n, req)
    BY <1>4, TwinKinds DEF Common, Twin
  <2>2. k.ok => CutsHere(k, n, l, req) \/ OpensPorts(k, n, req)
    BY <1>4, <2>1 DEF Common
  <2> QED
    BY <2>1, <2>2 DEF Result, Effect, Stuck, Aborted
<1>5. ASSUME NEW m, Common(m, n, l, req, e)
      PROVE  Result(OwnerStopsTimers(m), n, l, req, e)
  <2>1. m \in Node
    BY <1>5 DEF Common, Base
  <2> QED
    BY <1>4, <1>5, <2>1, TimerTwins
<1>6. /\ req = ERPS_REQ_FS => Result(OwnerStopsTimers(FsCommon(n, l, e)), n, l, req, e)
      /\ req = ERPS_REQ_SF => Result(OwnerStopsTimers(SfCommon(n, l, e)), n, l, req, e)
      /\ req = ERPS_REQ_RAPS_FS =>
           Result(OwnerStopsTimers(RapsFsCommon(n, e)), n, l, req, e)
      /\ req = ERPS_REQ_RAPS_SF =>
           Result(OwnerStopsTimers(RapsSfCommon(n, e)), n, l, req, e)
      /\ req = ERPS_REQ_RAPS_MS =>
           Result(OwnerStopsTimers(RapsMsCommon(n, e)), n, l, req, e)
  BY <1>5, CommonEffects
<1>7. req = ERPS_REQ_MS => Result(MsCommon(OwnerStopsTimers(n), l, e), n, l, req, e)
  <2> DEFINE a == OwnerStopsTimers(n)
             m == MsCommon(a, l, e)
  <2> SUFFICES ASSUME req = ERPS_REQ_MS PROVE Result(m, n, l, req, e)
    OBVIOUS
  <2>1. a \in Node /\ Twin(a, n) /\ a.ok
    BY TimerTwins DEF Twin
  <2> HIDE DEF a
  <2>2. Common(m, a, l, req, e)
    BY <2>1, CommonEffects
  <2> HIDE DEF m
  <2>3. Twin(m, m)
    BY <2>2, TimerTwins DEF Common, Base
  <2> QED
    BY <1>4, <2>1, <2>2, <2>3
<1>8. /\ req = ERPS_REQ_WTR_EXPIRES /\ erps_node_is_rpl_owner(n) =>
           Result(erps_fsm_timer_expires_pending([n EXCEPT !.wtb = FALSE], e), n, l, req, e)
      /\ req = ERPS_REQ_WTB_EXPIRES /\ erps_node_is_rpl_owner(n) =>
           Result(erps_fsm_timer_expires_pending([n EXCEPT !.wtr = FALSE], e), n, l, req, e)
  <2>1. erps_node_is_rpl_owner(n) => HasRpl(n)
    BY DEF erps_node_is_rpl_owner, HasRpl
  <2> QED
    BY <1>2, <2>1, TimerTwins DEF Expiries
<1>9. req = ERPS_REQ_RAPS_NR_RB =>
        Result(erps_fsm_raps_nr_rb_pending(n, e), n, l, req, e)
  <2> DEFINE m == erps_fsm_raps_nr_rb_pending(n, e)
  <2> SUFFICES ASSUME req = ERPS_REQ_RAPS_NR_RB PROVE Result(m, n, l, req, e)
    OBVIOUS
  <2>1. /\ Base(m, n) /\ (~m.ok => m.state = n.state) /\ m.topreq = n.topreq
        /\ m.ok => EndsWithout(m, n, ERPS_REQ_RAPS_NR_RB)
    BY FollowEffects
  <2> HIDE DEF m
  <2> QED
    BY <2>1 DEF Result, Effect, Stuck
<1>10. req = ERPS_REQ_RAPS_NR =>
         Result(erps_fsm_maybe_unblock_and_stop(n, id, e), n, l, req, e)
  <2> DEFINE m == erps_fsm_maybe_unblock_and_stop(n, id, e)
  <2> SUFFICES ASSUME req = ERPS_REQ_RAPS_NR PROVE Result(m, n, l, req, e)
    OBVIOUS
  <2>1. m = erps_fsm_maybe_unblock_and_stop(n, id, e)
    OBVIOUS
  <2> HIDE DEF m
  <2>2. \/ m = n
        \/ /\ Base(m, n) /\ Same(m, n)
           /\ m.ok => /\ m.blocked \subseteq n.blocked \cap m.failed
                      /\ OpensOthers(m, n)
                      /\ SamePdu(m, n) /\ SameFlush(m, n)
    BY <2>1, YieldEffects
  <2>3. CASE m = n
    BY <1>0, <1>1, <2>3
  <2>4. CASE m # n
    BY <2>2, <2>4 DEF Result, Effect, Stuck, YieldsPorts, Same, SameTimers
  <2> QED
    BY <2>3, <2>4
<1>11. req \notin Local \cup Expiries \/ (req \in Expiries /\ ~erps_node_is_rpl_owner(n))
         => Result(n, n, l, req, e)
  BY <1>1 DEF Local, Expiries, ERPS_REQ_FS, ERPS_REQ_SF, ERPS_REQ_MS,
              ERPS_REQ_WTR_EXPIRES, ERPS_REQ_WTB_EXPIRES
<1> HIDE DEF Result
<1> QED
  BY <1>3, <1>6, <1>7, <1>8, <1>9, <1>10, <1>11
  DEF erps_fsm_post_pending, Local, Expiries

(* Whatever request the machine is given, in whatever state and whatever   *)
(* fails, its table ends in one of these ways.                             *)
LEMMA DispatchResult ==
  ASSUME NEW n \in Node, n.ok, NEW l \in Port, NEW req, NEW id, NEW e
  PROVE  Result(Dispatch(n, l, req, id, e), n, l, req, e)
<1>1. n.state = "UNINIT" => Result(n, n, l, req, e)
  BY NoActionResult
<1>2. /\ n.state = "IDLE" => Result(erps_fsm_post_idle(n, l, req, id, e), n, l, req, e)
      /\ n.state = "PENDING" =>
           Result(erps_fsm_post_pending(n, l, req, id, e), n, l, req, e)
  BY IdleResult, PendingResult
<1>3. n.state \in State
  BY DEF Node
<1> QED
  BY <1>1, <1>2, <1>3, SwitchedResults DEF Dispatch, State

-----------------------------------------------------------------------------
(***************************************************************************)
(* What every call keeps: the flags that mirror the driver's and the VLAN's*)
(* state, if no VLAN call fails, and success, if nothing fails.            *)
(***************************************************************************)
Sync(n) == n.enabled = Port \ n.blocked /\ n.traffic = Port \ n.blocked

(* sync and fine say which of the two is claimed.                          *)
Kept(n, sync, fine) == n \in Node /\ (sync => Sync(n)) /\ (fine => n.ok)

LEMMA CallsKeep ==
  ASSUME NEW sync, NEW fine, NEW e, sync => e.vlan = {}, fine => e = NoFault,
         NEW n, Kept(n, sync, fine)
  PROVE  /\ \A p \in Port : /\ Kept(erps_link_block(n, p, e), sync, fine)
                            /\ Kept(erps_link_unblock(n, p, e), sync, fine)
                            /\ Kept(UnblockIfNotFailed(n, p, e), sync, fine)
         /\ \A rs \in {"NR", "MS", "SF", "FS"}, status \in SUBSET {"RB", "DNF"} :
              Kept(erps_node_sched_tx(n, rs, status), sync, fine)
         /\ \A s \in State : Kept(erps_fsm_transition(n, s), sync, fine)
         /\ Kept(erps_node_stop_tx(n), sync, fine)
         /\ Kept(erps_flush_fdb(n, e), sync, fine)
         /\ Kept(erps_node_start_guard_timer(n), sync, fine)
         /\ Kept(OwnerStopsTimers(n), sync, fine)
         /\ Kept([n EXCEPT !.wtr = FALSE], sync, fine)
         /\ Kept([n EXCEPT !.wtb = FALSE], sync, fine)
         /\ Kept(OwnerStartsWtr(n), sync, fine)
         /\ Kept(OwnerStartsWtb(n), sync, fine)
<1>0. n \in Node
  BY DEF Kept
<1>1. ASSUME NEW m \in Node, m.enabled = n.enabled, m.traffic = n.traffic,
             m.blocked = n.blocked, fine => m.ok
      PROVE  Kept(m, sync, fine)
  BY <1>1 DEF Kept, Sync
<1>2. ASSUME NEW p \in Port
      PROVE  /\ Kept(erps_link_block(n, p, e), sync, fine)
             /\ Kept(erps_link_unblock(n, p, e), sync, fine)
  <2> DEFINE b == erps_link_block(n, p, e)
             u == erps_link_unblock(n, p, e)
  <2>1. b \in Node /\ u \in Node
    BY <1>0, BlockType, UnblockType
  <2>2. fine => b.ok /\ u.ok
    BY <1>0 DEF erps_link_block, erps_link_unblock, Node, NoFault, Kept
  <2>3. ASSUME sync PROVE Sync(b)
    BY <1>0, <2>3 DEF erps_link_block, Fail, Node, Sync, Kept
  <2>4. ASSUME sync PROVE Sync(u)
    <3>1. {p} \subseteq Port
      OBVIOUS
    <3>2. ASSUME p \in n.blocked, p \notin e.port, n.ok
          PROVE  /\ u.enabled = n.enabled \cup {p} /\ u.traffic = n.traffic \cup {p}
                 /\ u.blocked = n.blocked \ {p}
      BY <1>0, <2>4, <3>2 DEF erps_link_unblock, Node
    <3>3. ASSUME ~(p \in n.blocked /\ p \notin e.port /\ n.ok)
          PROVE  /\ u.enabled = n.enabled /\ u.traffic = n.traffic
                 /\ u.blocked = n.blocked
      BY <1>0, <3>3 DEF erps_link_unblock, Node
    <3> HIDE DEF u
    <3>4. /\ n.enabled = Port \ n.blocked /\ n.traffic = Port \ n.blocked
      BY <2>4 DEF Kept, Sync
    <3> QED
      BY <3>1, <3>2, <3>3, <3>4 DEF Sync
  <2> QED
    BY <2>1, <2>2, <2>3, <2>4 DEF Kept
<1>3. ASSUME NEW p \in Port PROVE Kept(UnblockIfNotFailed(n, p, e), sync, fine)
  BY <1>2, <1>3 DEF UnblockIfNotFailed
<1>4. ASSUME NEW rs \in {"NR", "MS", "SF", "FS"}, NEW status \in SUBSET {"RB", "DNF"},
             NEW m, m = erps_node_sched_tx(n, rs, status)
      PROVE  Kept(m, sync, fine)
  <2>1. m \in Node
    BY <1>0, <1>4, SchedTxType
  <2>2. /\ m.enabled = n.enabled /\ m.traffic = n.traffic /\ m.blocked = n.blocked
        /\ fine => m.ok
    BY <1>0, <1>4 DEF erps_node_sched_tx, Node, Kept
  <2> QED
    BY <1>1, <2>1, <2>2
<1>5. ASSUME NEW s \in State, NEW m, m = erps_fsm_transition(n, s)
      PROVE  Kept(m, sync, fine)
  <2>1. m \in Node
    BY <1>0, <1>5, SimpleTypes
  <2>2. /\ m.enabled = n.enabled /\ m.traffic = n.traffic /\ m.blocked = n.blocked
        /\ fine => m.ok
    BY <1>0, <1>5 DEF erps_fsm_transition, Node, Kept
  <2> QED
    BY <1>1, <2>1, <2>2
<1>6. ASSUME NEW m \in {erps_node_stop_tx(n), erps_flush_fdb(n, e),
                        erps_node_start_guard_timer(n), OwnerStopsTimers(n),
                        [n EXCEPT !.wtr = FALSE], [n EXCEPT !.wtb = FALSE]}
      PROVE  Kept(m, sync, fine)
  <2>1. m \in Node
    BY <1>0, <1>6, SimpleTypes, TimerTypes
  <2> DEFINE Like == /\ m.enabled = n.enabled /\ m.traffic = n.traffic
                     /\ m.blocked = n.blocked /\ (fine => m.ok)
  <2>2. (fine => n.ok) /\ (fine => ~e.flush)
    BY DEF Kept, NoFault
  <2>3. CASE m \in {erps_node_stop_tx(n), erps_node_start_guard_timer(n)}
    <3>1. Like
      BY <1>0, <2>2, <2>3 DEF erps_node_stop_tx, erps_node_start_guard_timer, Node
    <3> QED
      BY <1>1, <2>1, <3>1
  <2>4. CASE m = erps_flush_fdb(n, e)
    <3>1. Like
      BY <1>0, <2>2, <2>4 DEF erps_flush_fdb, Node
    <3> QED
      BY <1>1, <2>1, <3>1
  <2>5. CASE m = OwnerStopsTimers(n)
    <3>1. Like
      BY <1>0, <2>2, <2>5 DEF OwnerStopsTimers, Node
    <3> QED
      BY <1>1, <2>1, <3>1
  <2>6. CASE m \in {[n EXCEPT !.wtr = FALSE], [n EXCEPT !.wtb = FALSE]}
    <3>1. Like
      BY <1>0, <2>2, <2>6 DEF Node
    <3> QED
      BY <1>1, <2>1, <3>1
  <2> QED
    BY <1>6, <2>3, <2>4, <2>5, <2>6
<1>7. ASSUME NEW t \in TimerRunning, NEW r, r = erps_fsm_resolve_req_prio(n, t)
      PROVE  /\ r \in Node /\ r.enabled = n.enabled /\ r.traffic = n.traffic
             /\ r.blocked = n.blocked /\ (fine => r.ok)
  <2>1. r \in Node
    BY <1>0, <1>7, ResolveType
  <2> QED
    BY <1>0, <1>7, <2>1 DEF erps_fsm_resolve_req_prio, Node, Kept
<1>8. ASSUME NEW m \in {OwnerStartsWtr(n), OwnerStartsWtb(n)}
      PROVE  Kept(m, sync, fine)
  <2> DEFINE r == erps_fsm_resolve_req_prio(n, ERPS_REQ_WTR_RUNNING)
             q == erps_fsm_resolve_req_prio(n, ERPS_REQ_WTB_RUNNING)
  <2>1. m = n \/ m = [r EXCEPT !.wtr = TRUE] \/ m = [q EXCEPT !.wtb = TRUE]
    BY <1>8 DEF OwnerStartsWtr, OwnerStartsWtb, erps_node_start_wtr,
                erps_node_start_wtb
  <2>2. /\ r \in Node /\ r.enabled = n.enabled /\ r.traffic = n.traffic
        /\ r.blocked = n.blocked /\ (fine => r.ok)
        /\ q \in Node /\ q.enabled = n.enabled /\ q.traffic = n.traffic
        /\ q.blocked = n.blocked /\ (fine => q.ok)
    BY <1>7 DEF TimerRunning
  <2> HIDE DEF r, q
  <2>3. m \in Node
    BY <1>0, <1>8, StartTypes
  <2>4. /\ m.enabled = n.enabled /\ m.traffic = n.traffic /\ m.blocked = n.blocked
        /\ fine => m.ok
    BY <1>0, <2>1, <2>2 DEF Node, Kept
  <2> QED
    BY <1>1, <2>3, <2>4
<1> QED
  BY <1>2, <1>3, <1>4, <1>5, <1>6, <1>8

(* So does every handler, and so the tables.                               *)
LEMMA DispatchKeeps ==
  ASSUME NEW sync, NEW fine, NEW e, sync => e.vlan = {}, fine => e = NoFault,
         NEW n, Kept(n, sync, fine), NEW l \in Port, NEW req, NEW id
  PROVE  Kept(Dispatch(n, l, req, id, e), sync, fine)
<1> DEFINE K(k) == Kept(k, sync, fine)
<1>0. /\ 0 \in Port /\ 1 \in Port /\ Rpl \in Port
      /\ \A p \in Port : erps_node_other_link(p) \in Port
      /\ {"IDLE", "PROTECTION", "MANUAL_SWITCH", "FORCED_SWITCH", "PENDING"} \subseteq State
      /\ {} \in SUBSET {"RB", "DNF"} /\ {"DNF"} \in SUBSET {"RB", "DNF"}
      /\ {"RB"} \in SUBSET {"RB", "DNF"} /\ {"RB", "DNF"} \in SUBSET {"RB", "DNF"}
  BY DEF Port, Rpl, erps_node_other_link, State
<1>1. ASSUME NEW k, K(k)
      PROVE  /\ \A p \in Port : /\ K(erps_link_block(k, p, e))
                                /\ K(erps_link_unblock(k, p, e))
                                /\ K(UnblockIfNotFailed(k, p, e))
             /\ \A rs \in {"NR", "MS", "SF", "FS"}, status \in SUBSET {"RB", "DNF"} :
                  K(erps_node_sched_tx(k, rs, status))
             /\ \A s \in State : K(erps_fsm_transition(k, s))
             /\ K(erps_node_stop_tx(k)) /\ K(erps_flush_fdb(k, e))
             /\ K(erps_node_start_guard_timer(k))
             /\ K(OwnerStopsTimers(k))
             /\ K([k EXCEPT !.wtr = FALSE]) /\ K([k EXCEPT !.wtb = FALSE])
             /\ K(OwnerStartsWtr(k)) /\ K(OwnerStartsWtb(k))
  BY <1>1, CallsKeep
<1>2. K(n)
  OBVIOUS
<1> HIDE DEF K
<1>3. ASSUME NEW k, K(k)
      PROVE  /\ K(erps_node_unblock_all(k, e))
             /\ K(erps_node_unblock_non_failed(k, e))
             /\ K(erps_fsm_maybe_unblock_and_stop(k, id, e))
             /\ K(AnnounceNoRequest(k))
  <2>1. K(erps_node_unblock_all(k, e)) /\ K(erps_node_unblock_non_failed(k, e))
    BY <1>0, <1>1, <1>3 DEF erps_node_unblock_all, erps_node_unblock_non_failed
  <2>2. K(erps_fsm_maybe_unblock_and_stop(k, id, e))
    BY <1>1, <1>3, <2>1 DEF erps_fsm_maybe_unblock_and_stop
  <2>3. K(AnnounceNoRequest(k))
    BY <1>0, <1>1, <1>3 DEF AnnounceNoRequest
  <2> QED
    BY <2>1, <2>2, <2>3
<1>4. ASSUME NEW k, K(k), NEW p \in Port, NEW rs \in {"NR", "MS", "SF", "FS"},
             NEW status \in SUBSET {"RB", "DNF"}, NEW s \in State
      PROVE  LET u == erps_link_unblock(
                        erps_node_sched_tx(erps_link_block(k, p, e), rs, status),
                        erps_node_other_link(p), e)
             IN  K(erps_fsm_transition(IF p \in k.blocked THEN u
                                       ELSE erps_flush_fdb(u, e), s))
  <2> DEFINE b == erps_link_block(k, p, e)
             t == erps_node_sched_tx(b, rs, status)
             u == erps_link_unblock(t, erps_node_other_link(p), e)
             f == IF p \in k.blocked THEN u ELSE erps_flush_fdb(u, e)
  <2>1. K(b)
    BY <1>1, <1>4
  <2> HIDE DEF b
  <2>2. K(t)
    BY <1>1, <2>1
  <2> HIDE DEF t
  <2>3. K(u)
    BY <1>0, <1>1, <2>2
  <2> HIDE DEF u
  <2>4. K(f)
    BY <1>1, <2>3
  <2> HIDE DEF f
  <2>5. K(erps_fsm_transition(f, s))
    BY <1>1, <2>4
  <2> QED
    BY <2>5 DEF f, u, t, b
<1>5. ASSUME NEW k, K(k)
      PROVE  /\ K(FsCommon(k, l, e)) /\ K(SfCommon(k, l, e)) /\ K(MsCommon(k, l, e))
             /\ K(RapsFsCommon(k, e)) /\ K(RapsSfCommon(k, e)) /\ K(RapsMsCommon(k, e))
             /\ K(erps_fsm_timer_expires_pending(k, e))
  <2>1. ASSUME NEW rs \in {"MS", "SF", "FS"}, NEW s \in State
        PROVE  K(erps_fsm_fs_sf_ms(k, l, rs, s, e))
    <3>1. rs \in {"NR", "MS", "SF", "FS"}
          /\ (IF l \in k.blocked THEN {"DNF"} ELSE {}) \in SUBSET {"RB", "DNF"}
      OBVIOUS
    <3> QED
      BY <1>4, <1>5, <3>1 DEF erps_fsm_fs_sf_ms
  <2>2. ASSUME NEW only \in BOOLEAN, NEW s \in State
        PROVE  K(erps_fsm_unblock_and_stop(k, only, s, e))
    BY <1>1, <1>3, <1>5 DEF erps_fsm_unblock_and_stop
  <2>3. K(erps_fsm_timer_expires_pending(k, e))
    <3>1. (IF Rpl \in k.blocked THEN {"RB", "DNF"} ELSE {"RB"}) \in SUBSET {"RB", "DNF"}
          /\ "NR" \in {"NR", "MS", "SF", "FS"} /\ "IDLE" \in State
      BY <1>0
    <3> QED
      BY <1>0, <1>4, <1>5, <3>1 DEF erps_fsm_timer_expires_pending
  <2> QED
    BY <1>0, <2>1, <2>2, <2>3
    DEF FsCommon, SfCommon, MsCommon, RapsFsCommon, RapsSfCommon, RapsMsCommon
<1>6. /\ K(erps_fsm_clear_common(n)) /\ K(erps_fsm_clear_sf_protection(n))
      /\ K(erps_fsm_raps_ms_ms(n)) /\ \A timer : K(RemoteNoRequest(n, req, timer))
  <2>1. K(OwnerStartsWtr(AnnounceNoRequest(n))) /\ K(OwnerStartsWtb(AnnounceNoRequest(n)))
    BY <1>1, <1>2, <1>3
  <2>2. K(erps_fsm_clear_common(n)) /\ K(erps_fsm_clear_sf_protection(n))
    BY <1>0, <1>1, <1>2, <2>1 DEF erps_fsm_clear_common, erps_fsm_clear_sf_protection
  <2>3. K(erps_fsm_raps_ms_ms(n))
    BY <1>0, <1>1, <1>2, <2>1 DEF erps_fsm_raps_ms_ms
  <2>4. \A timer : K(RemoteNoRequest(n, req, timer))
    BY <1>0, <1>1, <1>2 DEF RemoteNoRequest
  <2> QED
    BY <2>2, <2>3, <2>4
<1>7. K(erps_fsm_raps_nr_rb_idle(n, e)) /\ K(erps_fsm_fs_fs(n, l, e))
  BY <1>0, <1>1, <1>2 DEF erps_fsm_raps_nr_rb_idle, erps_fsm_fs_fs
<1>8. K(erps_fsm_clear_pending(n, e)) /\ K(erps_fsm_raps_nr_rb_pending(n, e))
  <2>1. K(erps_fsm_clear_pending(n, e))
    BY <1>0, <1>1, <1>2, <1>5 DEF erps_fsm_clear_pending
  <2>2. /\ K(OwnerStopsTimers(n))
        /\ K(erps_node_stop_tx(erps_node_unblock_all(n, e)))
        /\ K(erps_node_stop_tx(erps_link_unblock(erps_link_block(n, Rpl, e), 0, e)))
    BY <1>0, <1>1, <1>2, <1>3
  <2>3. n.role \in {"owner", "nbr", "none"}
    BY DEF Kept, Node, Role
  <2>4. K(erps_fsm_raps_nr_rb_pending(n, e))
    BY <1>0, <1>1, <2>2, <2>3 DEF erps_fsm_raps_nr_rb_pending
  <2> QED
    BY <2>1, <2>4
<1>9. K(erps_fsm_post_idle(n, l, req, id, e))
  BY <1>2, <1>3, <1>5, <1>7 DEF erps_fsm_post_idle
<1>10. K(erps_fsm_post_protection(n, l, req, e))
  BY <1>2, <1>5, <1>6 DEF erps_fsm_post_protection
<1>11. K(erps_fsm_post_manual_switch(n, l, req, e))
  BY <1>2, <1>5, <1>6 DEF erps_fsm_post_manual_switch
<1>12. K(erps_fsm_post_forced_switch(n, l, req, e))
  BY <1>2, <1>6, <1>7 DEF erps_fsm_post_forced_switch
<1>13. K(erps_fsm_post_pending(n, l, req, id, e))
  <2>1. /\ K(OwnerStopsTimers(FsCommon(n, l, e)))
        /\ K(OwnerStopsTimers(SfCommon(n, l, e)))
        /\ K(MsCommon(OwnerStopsTimers(n), l, e))
        /\ K(OwnerStopsTimers(RapsFsCommon(n, e)))
        /\ K(OwnerStopsTimers(RapsSfCommon(n, e)))
        /\ K(OwnerStopsTimers(RapsMsCommon(n, e)))
        /\ K(erps_fsm_timer_expires_pending([n EXCEPT !.wtb = FALSE], e))
        /\ K(erps_fsm_timer_expires_pending([n EXCEPT !.wtr = FALSE], e))
    BY <1>1, <1>2, <1>5
  <2> QED
    BY <1>2, <1>3, <1>8, <2>1 DEF erps_fsm_post_pending
<1>14. n.state \in State
  BY DEF Kept, Node
<1>15. K(Dispatch(n, l, req, id, e))
  BY <1>2, <1>9, <1>10, <1>11, <1>12, <1>13, <1>14 DEF Dispatch, State
<1> QED
  BY <1>15 DEF K

-----------------------------------------------------------------------------
(***************************************************************************)
(* A whole post, and initialization.                                       *)
(***************************************************************************)

(* The record the table is given: n with its top request resolved.         *)
Prepared(x, n, l, req) ==
  /\ Base(x, n) /\ SameAir(x, n) /\ SameFlush(x, n) /\ (x.ok <=> n.ok)
  /\ x.state = n.state /\ x.blocked = n.blocked
  /\ x.enabled = n.enabled /\ x.traffic = n.traffic
  /\ (x.wtr <=> n.wtr) /\ (x.wtb <=> n.wtb)
  /\ req = ERPS_REQ_CLEAR_SF => l \notin x.linkDown
  /\ IF RequestAccepted(n, req)
     THEN /\ x.topreq = IF req \in LocalRequest THEN req ELSE ERPS_REQ_INVALID
          /\ x.failed = IF req = ERPS_REQ_SF THEN n.failed \cup {l} ELSE n.failed
     ELSE x.topreq = n.topreq /\ x.failed = n.failed

(* A post that the priority logic lets through, or does not.               *)
LEMMA PostResult ==
  ASSUME NEW n \in Node, n.ok, NEW l \in Port, NEW req, NEW id, NEW e,
         NEW m, m = erps_fsm_post_locked(n, l, req, id, e)
  PROVE  \E x : /\ Prepared(x, n, l, req)
                /\ \/ m = x /\ (~RequestAccepted(n, req) \/ req = ERPS_REQ_CLEAR_SF)
                   \/ /\ RequestAccepted(n, req) /\ Result(m, x, l, req, e)
                      /\ n.state = "UNINIT" => m = x
                      /\ \A sync, fine : /\ sync => e.vlan = {}
                                         /\ fine => e = NoFault
                                         /\ Kept(x, sync, fine)
                                         => Kept(m, sync, fine)
<1> DEFINE c == IF req = ERPS_REQ_CLEAR_SF THEN [n EXCEPT !.linkDown = @ \ {l}] ELSE n
           r == erps_fsm_resolve_req_prio(c, req)
           x == Prepare(n, l, req)
           Like(a, b) == /\ a.role = b.role /\ (a.revertive <=> b.revertive)
                         /\ a.up = b.up /\ (a.cb <=> b.cb) /\ (a.ok <=> b.ok)
                         /\ a.id = b.id /\ (b.guard => a.guard)
                         /\ a.linkDown \subseteq b.linkDown
                         /\ a.pdu = b.pdu /\ a.tx = b.tx /\ (a.flushed <=> b.flushed)
                         /\ a.state = b.state /\ a.blocked = b.blocked
                         /\ a.enabled = b.enabled /\ a.traffic = b.traffic
                         /\ (a.wtr <=> b.wtr) /\ (a.wtb <=> b.wtb)
<1>1. /\ c \in Node /\ Like(c, n) /\ c.topreq = n.topreq /\ c.failed = n.failed
      /\ req = ERPS_REQ_CLEAR_SF => l \notin c.linkDown
  BY DEF Node
<1>2. RequestAccepted(c, req) <=> RequestAccepted(n, req)
  BY <1>1 DEF RequestAccepted, erps_local_clear_valid, erps_node_is_rpl_owner
<1> HIDE DEF c
<1>3. ASSUME RequestAccepted(n, req)
      PROVE  /\ r \in Node /\ Like(r, c) /\ r.failed = c.failed
             /\ r.linkDown = c.linkDown
             /\ r.topreq = IF req \in LocalRequest THEN req ELSE ERPS_REQ_INVALID
  <2>1. r \in Node
    BY <1>1, ResolveType
  <2> QED
    BY <1>1, <1>2, <1>3, <2>1 DEF erps_fsm_resolve_req_prio, Node
<1>4. ~RequestAccepted(n, req) => r = c
  BY <1>2 DEF erps_fsm_resolve_req_prio
<1>5. x = IF req = ERPS_REQ_SF /\ RequestAccepted(n, req)
          THEN [r EXCEPT !.failed = @ \cup {l}] ELSE r
  BY DEF Prepare, r, c
<1> HIDE DEF r, x
<1>6. x \in Node /\ Like(x, n) /\ x.linkDown = c.linkDown
      /\ IF RequestAccepted(n, req)
         THEN /\ x.topreq = IF req \in LocalRequest THEN req ELSE ERPS_REQ_INVALID
              /\ x.failed = IF req = ERPS_REQ_SF THEN n.failed \cup {l} ELSE n.failed
         ELSE x.topreq = n.topreq /\ x.failed = n.failed
  <2>1. CASE RequestAccepted(n, req)
    <3>1. /\ r \in Node /\ Like(r, c) /\ r.failed = c.failed
          /\ r.linkDown = c.linkDown
          /\ r.topreq = IF req \in LocalRequest THEN req ELSE ERPS_REQ_INVALID
      BY <1>3, <2>1
    <3>2. CASE req = ERPS_REQ_SF
      <4>1. x = [r EXCEPT !.failed = r.failed \cup {l}]
        BY <1>5, <2>1, <3>2
      <4>2. /\ x \in Node /\ Like(x, r) /\ x.topreq = r.topreq
            /\ x.failed = r.failed \cup {l} /\ x.linkDown = r.linkDown
        BY <3>1, <4>1 DEF Node
      <4> QED
        BY <1>1, <2>1, <3>1, <3>2, <4>2
    <3>3. CASE req # ERPS_REQ_SF
      BY <1>1, <1>5, <2>1, <3>1, <3>3
    <3> QED
      BY <3>2, <3>3
  <2>2. CASE ~RequestAccepted(n, req)
    BY <1>1, <1>4, <1>5, <2>2
  <2> QED
    BY <2>1, <2>2
<1>7. Prepared(x, n, l, req) /\ x \in Node /\ x.ok
  BY <1>1, <1>6 DEF Prepared, Base, SameAir, SamePdu, SameFlush
<1>8. CASE ~RequestAccepted(n, req) \/ IgnoredOnRpl(n, l, req)
  BY <1>7, <1>8 DEF erps_fsm_post_locked, IgnoredOnRpl, x
<1>9. CASE ~(~RequestAccepted(n, req) \/ IgnoredOnRpl(n, l, req))
  <2>1. m = Dispatch(x, l, req, id, e) /\ RequestAccepted(n, req)
    BY <1>9 DEF erps_fsm_post_locked, x
  <2>2. Result(m, x, l, req, e)
    BY <1>7, <2>1, DispatchResult
  <2>3. ASSUME NEW sync, NEW fine, sync => e.vlan = {}, fine => e = NoFault,
               Kept(x, sync, fine)
        PROVE  Kept(m, sync, fine)
    BY <2>1, <2>3, DispatchKeeps
  <2>4. n.state = "UNINIT" => m = x
    BY <1>7, <2>1 DEF Prepared, Dispatch
  <2> QED
    BY <1>7, <2>1, <2>2, <2>3, <2>4
<1> QED
  BY <1>8, <1>9

(* Initialization: a node that came up without error waits in PENDING,     *)
(* transmits, and, if it is a revertive owner, has a timer running.        *)
LEMMA InitResult ==
  ASSUME NEW n \in Node, ~n.cb, NEW c, NEW e, NEW m, m = erps_node_init(n, c, e)
  PROVE  /\ m \in Node /\ m.role = n.role /\ (m.revertive <=> n.revertive)
         /\ m.up = n.up /\ m.pdu \in {n.pdu, [rs |-> "NR", status |-> {}]}
         /\ m.state \in {n.state, "PENDING"}
         /\ m.topreq \in {ERPS_REQ_INVALID} \cup TimerRunning
         /\ m.cb <=> m.ok
         /\ m.ok => /\ m.state = "PENDING" /\ m.up \subseteq m.tx
                    /\ RevertiveOwner(m) => m.wtr
         /\ m.ok /\ e.vlan = {} /\ n.blocked = {} /\ n.enabled = {} /\ n.traffic = Port
              => Sync(m) /\ m.blocked # {}
         /\ c = NoFault /\ e = NoFault => m.ok
<1> DEFINE Alike(a, b) == /\ a.role = b.role /\ (a.revertive <=> b.revertive)
                          /\ a.up = b.up /\ ~a.cb
           z     == [Fresh(n) EXCEPT !.topreq = ERPS_REQ_INVALID]
           k     == erps_link_init(z, c)
           first == IF HasRpl(k) THEN Rpl ELSE 0
           other == erps_node_other_link(first)
           b     == erps_link_block(k, first, e)
           f     == erps_link_unblock_force(b, other, e)
           t     == erps_node_sched_tx(f, "NR", {})
           w     == OwnerStartsWtr(t)
           up    == erps_fsm_init(k, e)
           Ports == n.blocked = {} /\ n.enabled = {} /\ n.traffic = Port
<1>1. /\ k \in Node /\ Alike(k, n) /\ k.topreq = ERPS_REQ_INVALID
      /\ k.state = n.state /\ k.pdu = n.pdu
      /\ k.blocked = n.blocked /\ k.enabled = n.enabled /\ k.traffic = n.traffic
      /\ c = NoFault => k.ok
  <2>1. /\ z \in Node /\ Alike(z, n) /\ z.topreq = ERPS_REQ_INVALID
        /\ z.state = n.state /\ z.pdu = n.pdu
        /\ z.blocked = n.blocked /\ z.enabled = n.enabled /\ z.traffic = n.traffic
    BY DEF Fresh, Node, TopRequest
  <2>2. {p \in Port : \A q \in 0 .. p : q \notin NoFault.vlan} = Port
    BY DEF NoFault
  <2> HIDE DEF z
  <2> QED
    BY <2>1, <2>2 DEF erps_link_init, Node
<1>2. first \in Port /\ other \in Port /\ other # first /\ Port = {first, other}
  BY <1>1 DEF Port, Rpl, erps_node_other_link
<1>3. m = IF ~k.ok THEN k ELSE IF ~up.ok THEN up
          ELSE [up EXCEPT !.cb = TRUE, !.tx = @ \cup up.up]
  BY DEF erps_node_init
<1>4. up = [w EXCEPT !.state = "PENDING", !.guard = FALSE]
  BY DEF erps_fsm_init
<1> HIDE DEF k, first, other
<1>5. /\ b \in Node /\ Alike(b, k) /\ b.pdu = k.pdu /\ b.topreq = k.topreq
      /\ e = NoFault /\ k.ok => b.ok
      /\ Ports /\ e.vlan = {} /\ b.ok =>
           b.blocked = {first} /\ b.enabled = {} /\ b.traffic = Port \ {first}
  <2>1. b \in Node /\ Base(b, k) /\ SameAir(b, k) /\ Quiet(b, k)
    BY <1>1, <1>2, BlockEffect, QuietCalls DEF Quiet
  <2>2. e = NoFault /\ k.ok => b.ok
    BY <1>1, <1>2 DEF erps_link_block, NoFault, Node
  <2>3. ASSUME Ports, e.vlan = {}, b.ok
        PROVE  b.blocked = {first} /\ b.enabled = {} /\ b.traffic = Port \ {first}
    BY <1>1, <1>2, <2>3 DEF erps_link_block, Node, Fail
  <2> QED
    BY <1>1, <2>1, <2>2, <2>3
    DEF Base, SameAir, SamePdu, Quiet, Same, SameTimers
<1> HIDE DEF b
<1>6. /\ f \in Node /\ Alike(f, b) /\ f.pdu = b.pdu /\ f.topreq = b.topreq
      /\ e = NoFault /\ b.ok => f.ok
      /\ Ports /\ e.vlan = {} /\ f.ok =>
           f.blocked = {first} /\ f.enabled = {other} /\ f.traffic = {other}
  <2> DEFINE g == [b EXCEPT !.blocked = @ \cup {other}]
             u == erps_link_unblock(g, other, e)
  <2>1. f = IF ~b.ok THEN b ELSE u
    BY DEF erps_link_unblock_force
  <2>2. /\ g \in Node /\ Alike(g, b) /\ g.pdu = b.pdu /\ g.topreq = b.topreq
        /\ g.blocked = b.blocked \cup {other} /\ g.enabled = b.enabled
        /\ g.traffic = b.traffic /\ (g.ok <=> b.ok)
    BY <1>2, <1>5 DEF Node
  <2> HIDE DEF g
  <2>3. u \in Node /\ Base(u, g) /\ SameAir(u, g) /\ Quiet(u, g)
    BY <1>2, <2>2, UnblockEffect, QuietCalls DEF Quiet
  <2>4. e = NoFault /\ g.ok => u.ok
    BY <1>2, <2>2 DEF erps_link_unblock, NoFault, Node
  <2>5. ASSUME e.vlan = {}, u.ok, g.ok
        PROVE  /\ u.blocked = g.blocked \ {other}
               /\ u.enabled = g.enabled \cup {other}
               /\ u.traffic = g.traffic \cup {other}
    BY <1>2, <2>2, <2>5 DEF erps_link_unblock, Node
  <2> HIDE DEF u
  <2>6. ({first} \cup {other}) \ {other} = {first} /\ {} \cup {other} = {other}
        /\ (Port \ {first}) \cup {other} = {other}
    BY <1>2
  <2>7. ASSUME Ports, e.vlan = {}, f.ok
        PROVE  f.blocked = {first} /\ f.enabled = {other} /\ f.traffic = {other}
    BY <1>5, <2>1, <2>2, <2>5, <2>6, <2>7
  <2> QED
    BY <1>5, <2>1, <2>2, <2>3, <2>4, <2>7
    DEF Base, SameAir, SamePdu, Quiet, Same, SameTimers
<1> HIDE DEF f
<1>7. /\ t \in Node /\ Alike(t, f) /\ t.pdu \in {f.pdu, [rs |-> "NR", status |-> {}]}
      /\ t.topreq = f.topreq /\ (t.ok <=> f.ok) /\ (t.ok => t.tx = f.up)
      /\ t.blocked = f.blocked /\ t.enabled = f.enabled /\ t.traffic = f.traffic
  <2>1. {} \in SUBSET {"RB", "DNF"}
    OBVIOUS
  <2>2. t \in Node
    BY <1>6, <2>1, SchedTxType
  <2>3. /\ Alike(t, f) /\ t.pdu \in {f.pdu, [rs |-> "NR", status |-> {}]}
        /\ t.topreq = f.topreq /\ (t.ok <=> f.ok) /\ (t.ok => t.tx = f.up)
        /\ t.blocked = f.blocked /\ t.enabled = f.enabled /\ t.traffic = f.traffic
    BY <1>6 DEF erps_node_sched_tx, Node
  <2> QED
    BY <2>2, <2>3
<1> HIDE DEF t
<1>8. /\ w \in Node /\ Alike(w, t) /\ w.pdu = t.pdu /\ w.tx = t.tx
      /\ w.topreq \in {t.topreq} \cup TimerRunning /\ (w.ok <=> t.ok)
      /\ (w.ok /\ RevertiveOwner(t) => w.wtr) /\ w.blocked = t.blocked
      /\ w.enabled = t.enabled /\ w.traffic = t.traffic
  <2> DEFINE r == erps_fsm_resolve_req_prio(t, ERPS_REQ_WTR_RUNNING)
  <2>1. /\ Base(w, t) /\ SamePorts(w, t) /\ SameAir(w, t) /\ (w.ok <=> t.ok)
        /\ w.topreq \in {t.topreq} \cup TimerRunning
        /\ (w.ok /\ RevertiveOwner(t) => w.wtr)
    BY <1>7, StartEffects
  <2>2. r = t \/ r = [t EXCEPT !.topreq = ERPS_REQ_WTR_RUNNING]
    BY DEF erps_fsm_resolve_req_prio, LocalRequest
  <2>3. r \in Node /\ r.enabled = t.enabled /\ r.traffic = t.traffic
    BY <1>7, <2>2, ResolveType DEF Node
  <2>4. w = t \/ w = [r EXCEPT !.wtr = TRUE]
    BY DEF OwnerStartsWtr, erps_node_start_wtr
  <2> HIDE DEF r, w
  <2>5. w.enabled = t.enabled /\ w.traffic = t.traffic
    BY <2>3, <2>4 DEF Node
  <2> QED
    BY <1>7, <2>1, <2>5 DEF Base, SamePorts, SameAir, SamePdu
<1> HIDE DEF w
<1>9. /\ up \in Node /\ Alike(up, w) /\ up.pdu = w.pdu /\ up.tx = w.tx
      /\ up.topreq = w.topreq /\ (up.ok <=> w.ok) /\ (up.wtr <=> w.wtr)
      /\ up.blocked = w.blocked /\ up.enabled = w.enabled /\ up.traffic = w.traffic
      /\ up.state = "PENDING"
  <2>1. up \in Node
    BY <1>1, InitTypes
  <2> HIDE DEF up
  <2> QED
    BY <1>4, <1>8, <2>1 DEF Node
<1> HIDE DEF up
<1>10. CASE ~k.ok
  BY <1>1, <1>3, <1>10
<1>11. CASE k.ok /\ ~up.ok
  <2>1. m = up
    BY <1>3, <1>11
  <2> QED
    BY <1>1, <1>5, <1>6, <1>7, <1>8, <1>9, <1>11, <2>1
<1>12. CASE k.ok /\ up.ok
  <2>1. m = [up EXCEPT !.cb = TRUE, !.tx = @ \cup up.up]
    BY <1>3, <1>12
  <2>2. m \in Node
    <3>1. up.tx \cup up.up \in SUBSET Port
      BY <1>9 DEF Node
    <3>2. ASSUME NEW a \in SUBSET Port
          PROVE  [up EXCEPT !.cb = TRUE, !.tx = a] \in Node
      BY <1>9 DEF Node
    <3> QED
      BY <2>1, <3>1, <3>2
  <2>3. /\ m.cb /\ m.ok /\ m.up = up.up /\ m.up \subseteq m.tx
        /\ m.role = up.role /\ (m.revertive <=> up.revertive) /\ m.pdu = up.pdu
        /\ m.state = up.state /\ m.topreq = up.topreq /\ (m.wtr <=> up.wtr)
        /\ m.blocked = up.blocked /\ m.enabled = up.enabled /\ m.traffic = up.traffic
    BY <1>9, <1>12, <2>1 DEF Node
  <2>4. RevertiveOwner(m) => RevertiveOwner(t)
    BY <1>8, <1>9, <2>3 DEF RevertiveOwner, erps_node_is_rpl_owner
  <2>5. RevertiveOwner(m) => m.wtr
    BY <1>8, <1>9, <1>12, <2>3, <2>4
  <2>6. ASSUME e.vlan = {}, Ports PROVE Sync(m) /\ m.blocked # {}
    <3>1. m.blocked = {first} /\ m.enabled = {other} /\ m.traffic = {other}
      BY <1>6, <1>7, <1>8, <1>9, <1>12, <2>3, <2>6
    <3>2. Port \ {first} = {other}
      BY <1>2
    <3> QED
      BY <3>1, <3>2 DEF Sync
  <2> QED
    BY <1>1, <1>5, <1>6, <1>7, <1>8, <1>9, <2>2, <2>3, <2>5, <2>6
<1> QED
  BY <1>10, <1>11, <1>12
=============================================================================
