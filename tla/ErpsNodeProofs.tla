---------------------------- MODULE ErpsNodeProofs ----------------------------
(***************************************************************************)
(* Proofs about ErpsNode, for every set of roles, PDUs and faults and every*)
(* burst length, from the lemmas of ErpsFsmProofs.  Three theorems:        *)
(*                                                                         *)
(*   TypeCorrect       every reachable state is well typed.                *)
(*   TimersCorrect     the timers run on a revertive owner in PENDING only,*)
(*                     and the top request names them only while they run. *)
(*                     TypeOK /\ TimersOnlyWhileReverting is inductive.    *)
(*   ForcedSwitchLasts only CLEAR ends a forced switch: while FS is the top*)
(*                     request nothing else passes the priority logic.     *)
(***************************************************************************)
EXTENDS ErpsNode, ErpsFsmProofs

-----------------------------------------------------------------------------
(* Remembering a received (ID, BPR) pair keeps the record well typed.      *)
LEMMA RecvTypes ==
  ASSUME NEW n \in Node, NEW l \in Port, NEW pdu \in RapsPdu, NEW e
  PROVE  [erps_raps_node_id_bpr_flush(n, l, pdu, e) EXCEPT !.ok = TRUE] \in Node
<1>1. NoPair \in Pair /\ [id |-> pdu.id, bpr |-> pdu.bpr] \in Pair
  BY DEF NoPair, Pair, RapsPdu
<1>2. ASSUME NEW r \in Pair PROVE [n EXCEPT !.pair[l] = r] \in Node
  BY DEF Node
<1>3. erps_raps_node_id_bpr_flush(n, l, pdu, e) \in Node
  BY <1>1, <1>2, SimpleTypes DEF erps_raps_node_id_bpr_flush
<1>4. ASSUME NEW m \in Node PROVE [m EXCEPT !.ok = TRUE] \in Node
  BY DEF Node
<1> QED
  BY <1>3, <1>4, Zenon

(* Every reachable state of the node is well typed, for every choice of    *)
(* roles, PDUs and faults.                                                 *)
THEOREM TypeCorrect == Spec => []TypeOK
<1>1. Init => TypeOK
  <2> SUFFICES ASSUME Init PROVE TypeOK
    OBVIOUS
  <2>1. PICK role \in Roles, revertive \in Revertives :
          node = ERPS_NODE_INIT(role, revertive, OwnId, carrier)
    BY DEF Init
  <2>2. role \in Role /\ revertive \in BOOLEAN /\ OwnId \in Nat
          /\ carrier \in SUBSET Port
    BY RolesAssumption, IdAssumption DEF Init
  <2>3. [p \in Port |-> NoPair] \in [Port -> Pair]
          /\ [p \in Port |-> 0] \in [Port -> 0 .. ERPS_RAPS_BURST]
          /\ [rs |-> "NR", status |-> {}] \in PduMut
    BY BurstAssumption DEF NoPair, Pair, PduMut
  <2>4. ERPS_NODE_INIT(role, revertive, OwnId, carrier) \in Node
    BY <2>2, <2>3 DEF ERPS_NODE_INIT, Node, State, TopRequest
  <2> QED
    BY <2>1, <2>2, <2>4 DEF Init, TypeOK
<1>2. TypeOK /\ [Next]_vars => TypeOK'
  <2> SUFFICES ASSUME TypeOK, [Next]_vars PROVE TypeOK'
    OBVIOUS
  <2> USE DEF TypeOK
  <2>0. \A n \in Node, l \in Port : \A req, id, e :
          erps_fsm_post(n, l, req, id, e) \in Node
    BY PostTypes, SimpleTypes DEF erps_fsm_post
  <2>1. ASSUME NEW c, NEW e, NodeInit(c, e) PROVE TypeOK'
    BY <2>1, InitTypes DEF NodeInit
  <2>2. ASSUME NEW l \in Port, NEW req, NEW e, net_erps_ctl(l, req, e) PROVE TypeOK'
    BY <2>0, <2>2 DEF net_erps_ctl
  <2>3. ASSUME NEW l \in Port, NEW e, CarrierLost(l, e) PROVE TypeOK'
    <3>1. [node EXCEPT !.up = @ \ {l}] \in Node
      BY DEF Node
    <3> QED
      BY <2>0, <2>3, <3>1 DEF CarrierLost
  <2>4. ASSUME NEW l \in Port, NEW e, CarrierRestored(l, e) PROVE TypeOK'
    BY <2>0, <2>4 DEF CarrierRestored
  <2>5. ASSUME NEW p \in Port, erps_iface_up_cb(p) PROVE TypeOK'
    BY <2>5 DEF erps_iface_up_cb, Node
  <2>6. ASSUME NEW l \in Port, NEW e, erps_handle_raps_event(l, e) PROVE TypeOK'
    BY <2>6, SimpleTypes DEF erps_handle_raps_event
  <2>7. ASSUME NEW l \in Port, NEW pdu \in RapsPdus, NEW e,
               erps_raps_recv(l, pdu, e)
        PROVE  TypeOK'
    <3>1. pdu \in RapsPdu
      BY PduAssumption
    <3>2. [erps_raps_node_id_bpr_flush(Fresh(node), l, pdu, e) EXCEPT !.ok = TRUE]
            \in Node
      BY <3>1, SimpleTypes, RecvTypes
    <3> QED
      BY <2>7, <3>2, PostTypes DEF erps_raps_recv
  <2>8. ASSUME NEW e, erps_wtr_work(e) \/ erps_wtb_work(e) PROVE TypeOK'
    <3>0. 0 \in Port
      BY DEF Port
    <3>1. /\ erps_fsm_post([node EXCEPT !.wtr = FALSE], 0,
                           ERPS_REQ_WTR_EXPIRES, 0, e) \in Node
          /\ erps_fsm_post([node EXCEPT !.wtb = FALSE], 0,
                           ERPS_REQ_WTB_EXPIRES, 0, e) \in Node
      BY <2>0, <3>0, TimerTypes, Zenon
    <3> QED
      BY <2>8, <3>1 DEF erps_wtr_work, erps_wtb_work
  <2>9. ASSUME NEW l \in Port, NEW e, erps_link_down_work(l, e) PROVE TypeOK'
    <3>1. [node EXCEPT !.linkDown = @ \ {l}] \in Node
      BY DEF Node
    <3> QED
      BY <2>0, <2>9, <3>1 DEF erps_link_down_work
  <2>10. ASSUME NEW p \in Port, erps_tx_work(p) PROVE TypeOK'
    <3>1. node.burst[p] - 1 \in 0 .. ERPS_RAPS_BURST
      BY <2>10, BurstAssumption DEF erps_tx_work, Node
    <3>2. ASSUME NEW b \in 0 .. ERPS_RAPS_BURST
          PROVE  [node EXCEPT !.burst[p] = b] \in Node
      BY DEF Node
    <3>3. node' = [node EXCEPT !.burst[p] = node.burst[p] - 1]
      BY <2>10 DEF erps_tx_work
    <3>4. node' \in Node
      BY <3>1, <3>2, <3>3, Zenon
    <3> QED
      BY <2>10, <3>4 DEF erps_tx_work
  <2>11. ASSUME GuardTimerExpires PROVE TypeOK'
    BY <2>11 DEF GuardTimerExpires, Node
  <2>12. ASSUME UNCHANGED vars PROVE TypeOK'
    BY <2>12 DEF vars
  <2> QED
    BY <2>1, <2>2, <2>3, <2>4, <2>5, <2>6, <2>7, <2>8, <2>9, <2>10, <2>11, <2>12
    DEF Next, Environment, System
<1> QED
  BY <1>1, <1>2, PTL DEF Spec

(* The (ID, BPR) pair and the flush it may cause leave the timers alone.   *)
LEMMA RecvTimers ==
  ASSUME NEW n \in Node, NEW l \in Port, NEW pdu \in RapsPdu, NEW e
  PROVE  LET z == [erps_raps_node_id_bpr_flush(n, l, pdu, e) EXCEPT !.ok = TRUE]
         IN  z \in Node /\ z.ok /\ Same(z, n)
<1> DEFINE y == erps_raps_node_id_bpr_flush(n, l, pdu, e)
           seen == [id |-> pdu.id, bpr |-> pdu.bpr]
           m == [n EXCEPT !.pair[l] = seen]
           k == [n EXCEPT !.pair[l] = NoPair]
<1>1. NoPair \in Pair /\ seen \in Pair
  BY DEF NoPair, Pair, RapsPdu
<1>2. ASSUME NEW r \in Pair PROVE Quiet([n EXCEPT !.pair[l] = r], n)
  BY DEF Quiet, Same, SameTimers, Node
<1>3. Quiet(m, n) /\ Quiet(k, n) /\ Quiet(n, n)
  BY <1>1, <1>2 DEF Quiet, Same, SameTimers
<1>4. Quiet(erps_flush_fdb(m, e), m)
  BY <1>3, QuietCalls DEF Quiet
<1>5. Quiet(erps_flush_fdb(m, e), n)
  BY <1>3, <1>4, QuietChain
<1>6. y = k \/ y = n \/ y = m \/ y = erps_flush_fdb(m, e)
  BY DEF erps_raps_node_id_bpr_flush
<1> HIDE DEF y, m, k
<1>7. Quiet(y, n)
  BY <1>3, <1>5, <1>6
<1>8. [y EXCEPT !.ok = TRUE] \in Node /\ [y EXCEPT !.ok = TRUE].ok
        /\ Same([y EXCEPT !.ok = TRUE], n)
  BY <1>7 DEF Quiet, Same, SameTimers, Node
<1> QED
  BY <1>8 DEF y

(* The timers run and the top request names them as designed, whatever     *)
(* driver, VLAN and flush calls fail and whatever other nodes send.        *)
THEOREM TimersCorrect == Spec => []TimersOnlyWhileReverting
<1>1. Init => TimersOnlyWhileReverting
  BY DEF Init, ERPS_NODE_INIT, TimersOnlyWhileReverting, ERPS_REQ_CLEAR,
         ERPS_REQ_WTR_RUNNING, ERPS_REQ_WTB_RUNNING
<1>2. TypeOK /\ TimersOnlyWhileReverting /\ [Next]_vars
        => TimersOnlyWhileReverting'
  <2> SUFFICES ASSUME TypeOK, TimersOnlyWhileReverting, [Next]_vars
               PROVE  TimerInv(node')
    BY DEF TimersOnlyWhileReverting, TimerInv, RevertiveOwner,
           erps_node_is_rpl_owner
  <2>0. node \in Node /\ TimerInv(node)
    BY DEF TypeOK, TimersOnlyWhileReverting, TimerInv
  <2>1. ASSUME NEW m \in Node, NEW l \in Port, NEW req, NEW id, NEW e,
               TimerInv(m),
               req \notin TimerRunning
                 \cup {ERPS_REQ_WTR_EXPIRES, ERPS_REQ_WTB_EXPIRES}
        PROVE  TimerInv(erps_fsm_post(m, l, req, id, e))
    <3> DEFINE x == Fresh(m)
    <3>1. x \in Node /\ x.ok /\ Same(x, m)
      BY DEF Fresh, Node, Same, SameTimers
    <3>2. TimerInv(x)
      BY <2>1, <3>1 DEF TimerInv, Same, SameTimers, RevertiveOwner,
                        erps_node_is_rpl_owner
    <3> HIDE DEF x
    <3> QED
      BY <2>1, <3>1, <3>2, PostKeepsTimers DEF erps_fsm_post, x
  <2>2. ASSUME NEW m \in Node, Same(m, node) PROVE TimerInv(m)
    BY <2>0, <2>2 DEF TimerInv, Same, SameTimers, RevertiveOwner,
                      erps_node_is_rpl_owner
  <2>3. \A req \in AdminRequest \cup RapsRequest \cup {ERPS_REQ_SF, ERPS_REQ_CLEAR_SF} :
          req \notin TimerRunning \cup {ERPS_REQ_WTR_EXPIRES, ERPS_REQ_WTB_EXPIRES}
    BY DEF AdminRequest, RapsRequest, TimerRunning, ERPS_REQ_CLEAR, ERPS_REQ_FS,
           ERPS_REQ_RAPS_FS, ERPS_REQ_SF, ERPS_REQ_CLEAR_SF, ERPS_REQ_RAPS_SF,
           ERPS_REQ_RAPS_MS, ERPS_REQ_MS, ERPS_REQ_WTR_EXPIRES,
           ERPS_REQ_WTR_RUNNING, ERPS_REQ_WTB_EXPIRES, ERPS_REQ_WTB_RUNNING,
           ERPS_REQ_RAPS_NR_RB, ERPS_REQ_RAPS_NR
  <2>4. ASSUME NEW c, NEW e, NodeInit(c, e) PROVE TimerInv(node')
    BY <2>0, <2>4, InitKeepsTimers DEF NodeInit
  <2>5. ASSUME NEW l \in Port, NEW req \in AdminRequest, NEW e,
               net_erps_ctl(l, req, e)
        PROVE  TimerInv(node')
    BY <2>0, <2>1, <2>3, <2>5 DEF net_erps_ctl
  <2>6. ASSUME NEW l \in Port, NEW e, CarrierLost(l, e) PROVE TimerInv(node')
    <3> DEFINE m == [node EXCEPT !.up = @ \ {l}]
    <3>1. m \in Node /\ Same(m, node)
      BY <2>0 DEF Node, Same, SameTimers
    <3> HIDE DEF m
    <3>2. TimerInv(erps_fsm_post(m, l, ERPS_REQ_SF, 0, e))
      BY <2>1, <2>2, <2>3, <3>1
    <3> QED
      BY <2>6, <3>2 DEF CarrierLost, m
  <2>7. ASSUME NEW l \in Port, NEW e, CarrierRestored(l, e) PROVE TimerInv(node')
    BY <2>0, <2>1, <2>3, <2>7 DEF CarrierRestored
  <2>8. ASSUME NEW p \in Port, erps_iface_up_cb(p) PROVE TimerInv(node')
    BY <2>0, <2>8 DEF erps_iface_up_cb, TimerInv, Node, RevertiveOwner,
                      erps_node_is_rpl_owner
  <2>9. ASSUME NEW l \in Port, NEW e, erps_handle_raps_event(l, e)
        PROVE  TimerInv(node')
    <3> DEFINE x == Fresh(node)
               y == erps_flush_fdb(x, e)
    <3>1. Quiet(x, node)
      BY <2>0, <2>9, QuietCalls
    <3>2. Quiet(y, x)
      BY <2>9, <3>1, QuietCalls DEF Quiet
    <3>3. Quiet(y, node)
      BY <3>1, <3>2, QuietChain
    <3> QED
      BY <2>2, <2>9, <3>3 DEF erps_handle_raps_event, Quiet
  <2>10. ASSUME NEW l \in Port, NEW pdu \in RapsPdus, NEW e,
                erps_raps_recv(l, pdu, e)
         PROVE  TimerInv(node')
    <3> DEFINE x == Fresh(node)
               y == erps_raps_node_id_bpr_flush(x, l, pdu, e)
               z == [y EXCEPT !.ok = TRUE]
    <3>0. pdu \in RapsPdu
      BY PduAssumption
    <3>1. Quiet(x, node)
      BY <2>0, <2>10, QuietCalls
    <3>2. z \in Node /\ z.ok /\ Same(z, x)
      BY <3>0, <3>1, RecvTimers DEF Quiet
    <3>3. Same(z, node)
      BY <3>1, <3>2 DEF Quiet, Same, SameTimers
    <3>4. pdu.req \in RapsRequest
      BY <3>0 DEF RapsPdu
    <3> HIDE DEF z
    <3>5. TimerInv(erps_fsm_post_locked(z, l, pdu.req, pdu.id, e))
      BY <2>2, <2>3, <3>2, <3>3, <3>4, PostKeepsTimers
    <3> QED
      BY <2>10, <3>5 DEF erps_raps_recv, z
  <2>11. ASSUME NEW e, erps_wtr_work(e) PROVE TimerInv(node')
    BY <2>0, <2>11, ExpiryKeepsTimers DEF erps_wtr_work, erps_fsm_post
  <2>12. ASSUME NEW e, erps_wtb_work(e) PROVE TimerInv(node')
    BY <2>0, <2>12, ExpiryKeepsTimers DEF erps_wtb_work, erps_fsm_post
  <2>13. ASSUME NEW l \in Port, NEW e, erps_link_down_work(l, e)
         PROVE  TimerInv(node')
    <3> DEFINE m == [node EXCEPT !.linkDown = @ \ {l}]
    <3>1. m \in Node /\ Same(m, node)
      BY <2>0 DEF Node, Same, SameTimers
    <3> HIDE DEF m
    <3>2. TimerInv(erps_fsm_post(m, l, ERPS_REQ_SF, 0, e))
      BY <2>1, <2>2, <2>3, <3>1
    <3> QED
      BY <2>13, <3>2 DEF erps_link_down_work, m
  <2>14. ASSUME NEW p \in Port, erps_tx_work(p) PROVE TimerInv(node')
    BY <2>0, <2>14 DEF erps_tx_work, TimerInv, Node, RevertiveOwner,
                       erps_node_is_rpl_owner
  <2>15. ASSUME GuardTimerExpires PROVE TimerInv(node')
    BY <2>0, <2>15 DEF GuardTimerExpires, TimerInv, Node, RevertiveOwner,
                       erps_node_is_rpl_owner
  <2>16. ASSUME UNCHANGED vars PROVE TimerInv(node')
    BY <2>0, <2>16 DEF vars
  <2> QED
    BY <2>4, <2>5, <2>6, <2>7, <2>8, <2>9, <2>10, <2>11, <2>12, <2>13, <2>14,
       <2>15, <2>16
    DEF Next, Environment, System
<1> QED
  BY <1>1, <1>2, TypeCorrect, PTL DEF Spec

-----------------------------------------------------------------------------
(***************************************************************************)
(* The forced switch.                                                      *)
(***************************************************************************)

(* Before initialization local_topreq is zero, which lets nothing pass but *)
(* a CLEAR; no operator is there yet to issue one.                         *)
NothingBeforeInit == ~booted => node.topreq = ERPS_REQ_CLEAR

(* A forced switch ends by an operator's CLEAR, whatever fails and         *)
(* whatever other nodes send.                                              *)
THEOREM ForcedSwitchLasts == Spec => ForcedSwitchEndsByClear
<1> DEFINE Cleared == \E l \in Port, e \in Faults : net_erps_ctl(l, ERPS_REQ_CLEAR, e)
           Low == {ERPS_REQ_CLEAR, ERPS_REQ_FS}
<1>1. Init => NothingBeforeInit
  BY DEF Init, ERPS_NODE_INIT, NothingBeforeInit
<1>2. TypeOK /\ [Next]_vars /\ node.topreq \in Low
        => Cleared \/ node'.topreq = node.topreq \/ \E c, e \in Faults : NodeInit(c, e)
  <2> SUFFICES ASSUME TypeOK, [Next]_vars, node.topreq \in Low, ~Cleared,
                      ~(\E c, e \in Faults : NodeInit(c, e))
               PROVE  node'.topreq = node.topreq
    OBVIOUS
  <2>0. node \in Node /\ 0 \in Port
    BY DEF TypeOK, Port
  <2>1. ASSUME NEW m \in Node, m.topreq = node.topreq, NEW l \in Port,
               NEW req \in Request \ {ERPS_REQ_CLEAR}, NEW id, NEW e
        PROVE  erps_fsm_post(m, l, req, id, e).topreq = node.topreq
    <3>1. Fresh(m) \in Node /\ Fresh(m).topreq = node.topreq
      BY <2>1, FreshKeeps
    <3> QED
      BY <3>1, TopRequestStays DEF erps_fsm_post
  <2>2. /\ RapsRequest \subseteq Request \ {ERPS_REQ_CLEAR}
        /\ {ERPS_REQ_FS, ERPS_REQ_MS, ERPS_REQ_SF, ERPS_REQ_CLEAR_SF,
            ERPS_REQ_WTR_EXPIRES, ERPS_REQ_WTB_EXPIRES}
              \subseteq Request \ {ERPS_REQ_CLEAR}
    BY DEF RapsRequest, Request, ERPS_REQ_CLEAR, ERPS_REQ_FS,
           ERPS_REQ_RAPS_FS, ERPS_REQ_SF, ERPS_REQ_CLEAR_SF, ERPS_REQ_RAPS_SF,
           ERPS_REQ_RAPS_MS, ERPS_REQ_MS, ERPS_REQ_WTR_EXPIRES,
           ERPS_REQ_WTB_EXPIRES, ERPS_REQ_RAPS_NR_RB, ERPS_REQ_RAPS_NR
  <2>3. ASSUME NEW l \in Port, NEW req \in AdminRequest, NEW e \in Faults,
               net_erps_ctl(l, req, e)
        PROVE  node'.topreq = node.topreq
    <3>1. req # ERPS_REQ_CLEAR
      BY <2>3
    <3>2. req \in {ERPS_REQ_FS, ERPS_REQ_MS}
      BY <3>1 DEF AdminRequest
    <3> QED
      BY <2>0, <2>1, <2>2, <2>3, <3>2 DEF net_erps_ctl
  <2>4. ASSUME NEW l \in Port, NEW e, CarrierLost(l, e)
        PROVE  node'.topreq = node.topreq
    <3> DEFINE m == [node EXCEPT !.up = @ \ {l}]
    <3>1. m \in Node /\ m.topreq = node.topreq
      BY <2>0 DEF Node
    <3> HIDE DEF m
    <3>2. erps_fsm_post(m, l, ERPS_REQ_SF, 0, e).topreq = node.topreq
      BY <2>1, <2>2, <3>1
    <3> QED
      BY <2>4, <3>2 DEF CarrierLost, m
  <2>5. ASSUME NEW l \in Port, NEW e, CarrierRestored(l, e)
        PROVE  node'.topreq = node.topreq
    BY <2>0, <2>1, <2>2, <2>5 DEF CarrierRestored
  <2>6. ASSUME NEW p \in Port, erps_iface_up_cb(p) PROVE node'.topreq = node.topreq
    BY <2>0, <2>6 DEF erps_iface_up_cb, Node
  <2>7. ASSUME NEW l \in Port, NEW e, erps_handle_raps_event(l, e)
        PROVE  node'.topreq = node.topreq
    BY <2>0, <2>7 DEF erps_handle_raps_event, erps_flush_fdb, Fresh, Node
  <2>8. ASSUME NEW l \in Port, NEW pdu \in RapsPdus, NEW e,
               erps_raps_recv(l, pdu, e)
        PROVE  node'.topreq = node.topreq
    <3> DEFINE x == Fresh(node)
               z == [erps_raps_node_id_bpr_flush(x, l, pdu, e) EXCEPT !.ok = TRUE]
    <3>1. pdu \in RapsPdu /\ pdu.req \in Request \ {ERPS_REQ_CLEAR}
      BY <2>2, PduAssumption DEF RapsPdu
    <3>2. x \in Node /\ x.topreq = node.topreq
      BY <2>0, FreshKeeps
    <3>3. z \in Node /\ z.topreq = node.topreq
      BY <3>1, <3>2, RecvTimers DEF Same, SameTimers
    <3> HIDE DEF z
    <3>4. erps_fsm_post_locked(z, l, pdu.req, pdu.id, e).topreq = z.topreq
      BY <3>1, <3>3, TopRequestStays
    <3> QED
      BY <2>8, <3>3, <3>4 DEF erps_raps_recv, z
  <2>9. ASSUME NEW e, erps_wtr_work(e) PROVE node'.topreq = node.topreq
    <3> DEFINE m == [node EXCEPT !.wtr = FALSE]
    <3>1. m \in Node /\ m.topreq = node.topreq
      BY <2>0 DEF Node
    <3> HIDE DEF m
    <3>2. erps_fsm_post(m, 0, ERPS_REQ_WTR_EXPIRES, 0, e).topreq = node.topreq
      BY <2>0, <2>1, <2>2, <3>1
    <3> QED
      BY <2>9, <3>2 DEF erps_wtr_work, m
  <2>10. ASSUME NEW e, erps_wtb_work(e) PROVE node'.topreq = node.topreq
    <3> DEFINE m == [node EXCEPT !.wtb = FALSE]
    <3>1. m \in Node /\ m.topreq = node.topreq
      BY <2>0 DEF Node
    <3> HIDE DEF m
    <3>2. erps_fsm_post(m, 0, ERPS_REQ_WTB_EXPIRES, 0, e).topreq = node.topreq
      BY <2>0, <2>1, <2>2, <3>1
    <3> QED
      BY <2>10, <3>2 DEF erps_wtb_work, m
  <2>11. ASSUME NEW l \in Port, NEW e, erps_link_down_work(l, e)
         PROVE  node'.topreq = node.topreq
    <3> DEFINE m == [node EXCEPT !.linkDown = @ \ {l}]
    <3>1. m \in Node /\ m.topreq = node.topreq
      BY <2>0 DEF Node
    <3> HIDE DEF m
    <3>2. erps_fsm_post(m, l, ERPS_REQ_SF, 0, e).topreq = node.topreq
      BY <2>1, <2>2, <3>1
    <3> QED
      BY <2>11, <3>2 DEF erps_link_down_work, m
  <2>12. ASSUME \/ \E p \in Port : erps_tx_work(p)
                \/ GuardTimerExpires
                \/ UNCHANGED vars
         PROVE  node'.topreq = node.topreq
    BY <2>0, <2>12 DEF erps_tx_work, GuardTimerExpires, vars, Node
  <2> QED
    BY <2>3, <2>4, <2>5, <2>6, <2>7, <2>8, <2>9, <2>10, <2>11, <2>12
    DEF Next, Environment, System
<1>3. TypeOK /\ NothingBeforeInit /\ [Next]_vars => NothingBeforeInit'
  <2> SUFFICES ASSUME TypeOK, NothingBeforeInit, [Next]_vars, ~booted'
               PROVE  node'.topreq = ERPS_REQ_CLEAR
    BY DEF NothingBeforeInit
  <2>1. ~booted
    BY DEF Next, Environment, System, NodeInit, net_erps_ctl, CarrierLost,
           CarrierRestored, erps_handle_raps_event, erps_raps_recv,
           erps_iface_up_cb, erps_wtr_work, erps_wtb_work, erps_link_down_work,
           erps_tx_work, GuardTimerExpires, vars, TypeOK
  <2>2. ~Cleared /\ ~(\E c, e \in Faults : NodeInit(c, e))
    BY <2>1 DEF net_erps_ctl, NodeInit
  <2> QED
    BY <1>2, <2>1, <2>2 DEF NothingBeforeInit
<1>4. TypeOK /\ NothingBeforeInit /\ [Next]_vars
        => [node.topreq = ERPS_REQ_FS /\ node'.topreq # ERPS_REQ_FS => Cleared]_vars
  <2> SUFFICES ASSUME TypeOK, NothingBeforeInit, [Next]_vars,
                      node.topreq = ERPS_REQ_FS, node'.topreq # ERPS_REQ_FS
               PROVE  Cleared
    OBVIOUS
  <2>1. booted
    BY DEF NothingBeforeInit, ERPS_REQ_CLEAR, ERPS_REQ_FS
  <2>2. ~(\E c, e \in Faults : NodeInit(c, e))
    BY <2>1 DEF NodeInit
  <2> QED
    BY <1>2, <2>2
<1> QED
  BY <1>1, <1>3, <1>4, TypeCorrect, PTL DEF Spec, ForcedSwitchEndsByClear
=============================================================================
