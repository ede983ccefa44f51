-------------------------- MODULE ErpsGuaranteeProofs --------------------------
(***************************************************************************)
(* What ErpsNode guarantees, first while driver, VLAN and flush calls may  *)
(* fail, then while they succeed, for every set of roles, PDUs and faults  *)
(* unless a theorem says otherwise.                                        *)
(*                                                                         *)
(* DispatchResult (ErpsFsmProofs) says in which ways a table can end.  Here*)
(* every step of the node is one of three: initialization, a post, which   *)
(* gives a table a record that agrees with the node on everything but what *)
(* the action and the priority logic have changed, or a step that leaves   *)
(* ports, top request and timers alone.  Each theorem is then an argument  *)
(* about the ends of a post.                                               *)
(***************************************************************************)
EXTENDS ErpsRefinementProofs

Posts == Request \ TimerRunning

(* The record a table is given for request req on link l.                  *)
Readied(x, n, l, req) ==
  /\ x \in Node /\ x.ok /\ x.role = n.role /\ (x.revertive <=> n.revertive)
  /\ (x.cb <=> n.cb) /\ x.up \subseteq n.up /\ x.state = n.state
  /\ x.blocked = n.blocked /\ x.pdu = n.pdu /\ x.tx = n.tx
  /\ x.enabled = n.enabled /\ x.traffic = n.traffic
  /\ req # ERPS_REQ_WTR_EXPIRES => (x.wtr <=> n.wtr)
  /\ req # ERPS_REQ_WTB_EXPIRES => (x.wtb <=> n.wtb)
  /\ x.flushed => req \in RapsRequest
  /\ IF RequestAccepted(n, req)
     THEN /\ x.topreq = IF req \in LocalRequest THEN req ELSE ERPS_REQ_INVALID
          /\ x.failed = IF req = ERPS_REQ_SF THEN n.failed \cup {l} ELSE n.failed
     ELSE x.topreq = n.topreq /\ x.failed = n.failed

(* The handler of a timer runs.                                            *)
TimerWork == \E e \in Faults : erps_wtr_work(e) \/ erps_wtb_work(e)

(* A step that posts req.  Only an operator's request needs a booted node. *)
PostStep(l, req, e) ==
  /\ req \in Posts /\ booted' = booted
  /\ req \in AdminRequest => booted
  /\ SingleOwner /\ node.role = "owner" => req # ERPS_REQ_RAPS_NR_RB
  /\ req = ERPS_REQ_WTR_EXPIRES => node.wtr
  /\ req = ERPS_REQ_WTB_EXPIRES => node.wtb
  /\ req \in Expiries => TimerWork
  /\ \E x : /\ Readied(x, node, l, req)
            /\ \/ /\ node' = x
                  /\ ~RequestAccepted(node, req) \/ req = ERPS_REQ_CLEAR_SF
               \/ /\ RequestAccepted(node, req) /\ Result(node', x, l, req, e)
                  /\ x.state = "UNINIT" => node' = x
                  /\ \A sync, fine : /\ sync => e.vlan = {}
                                     /\ fine => e = NoFault
                                     /\ Kept(x, sync, fine)
                                     => Kept(node', sync, fine)

(* A step that leaves the machine alone; an interface that comes up is     *)
(* scheduled once the callback is registered.                              *)
QuietStep ==
  /\ booted' = booted /\ node' \in Node /\ Same(node', node)
  /\ SamePorts(node', node) /\ SamePdu(node', node) /\ (node'.cb <=> node.cb)
  /\ node'.enabled = node.enabled /\ node'.traffic = node.traffic
  /\ node.tx \subseteq node'.tx
  /\ node.cb => node'.up \subseteq node.up \cup node'.tx
  /\ (\A e \in Faults : e = NoFault) /\ node.ok => node'.ok

InitStep == \E c, e \in Faults : NodeInit(c, e)

(* The record that is posted on.                                           *)
Near(a, n, req) ==
  /\ a \in Node /\ a.ok /\ a.role = n.role /\ (a.revertive <=> n.revertive)
  /\ (a.cb <=> n.cb) /\ a.up \subseteq n.up /\ a.state = n.state
  /\ SamePorts(a, n) /\ a.pdu = n.pdu /\ a.tx = n.tx /\ a.topreq = n.topreq
  /\ a.enabled = n.enabled /\ a.traffic = n.traffic
  /\ req # ERPS_REQ_WTR_EXPIRES => (a.wtr <=> n.wtr)
  /\ req # ERPS_REQ_WTB_EXPIRES => (a.wtb <=> n.wtb)
  /\ a.flushed => req \in RapsRequest

(* A post on such a record.                                                *)
LEMMA PostedFrom ==
  ASSUME NEW n \in Node, NEW req, NEW a, Near(a, n, req), NEW l \in Port, NEW id, NEW e,
         NEW m, m = erps_fsm_post_locked(a, l, req, id, e)
  PROVE  \E x : /\ Readied(x, n, l, req)
                /\ \/ m = x /\ (~RequestAccepted(n, req) \/ req = ERPS_REQ_CLEAR_SF)
                   \/ /\ RequestAccepted(n, req) /\ Result(m, x, l, req, e)
                      /\ x.state = "UNINIT" => m = x
                      /\ \A sync, fine : /\ sync => e.vlan = {}
                                         /\ fine => e = NoFault
                                         /\ Kept(x, sync, fine)
                                         => Kept(m, sync, fine)
<1>1. PICK x : /\ Prepared(x, a, l, req)
               /\ \/ m = x /\ (~RequestAccepted(a, req) \/ req = ERPS_REQ_CLEAR_SF)
                  \/ /\ RequestAccepted(a, req) /\ Result(m, x, l, req, e)
                     /\ a.state = "UNINIT" => m = x
                     /\ \A sync, fine : /\ sync => e.vlan = {}
                                        /\ fine => e = NoFault
                                        /\ Kept(x, sync, fine)
                                        => Kept(m, sync, fine)
  BY PostResult DEF Near
<1>2. RequestAccepted(a, req) <=> RequestAccepted(n, req)
  BY DEF Near, RequestAccepted, erps_local_clear_valid, erps_node_is_rpl_owner
<1>3. Readied(x, n, l, req)
  BY <1>1, <1>2 DEF Near, Readied, Prepared, Base, SamePorts, SameAir, SamePdu, SameFlush
<1>4. x.state = a.state
  BY <1>1 DEF Prepared
<1> QED
  BY <1>1, <1>2, <1>3, <1>4

(* The record every caller of erps_fsm_post hands over.                    *)
LEMMA FreshNear ==
  ASSUME NEW n \in Node, NEW req
  PROVE  /\ Near(Fresh(n), n, req)
         /\ \A l \in Port : /\ Near(Fresh([n EXCEPT !.up = @ \ {l}]), n, req)
                            /\ Near(Fresh([n EXCEPT !.linkDown = @ \ {l}]), n, req)
         /\ Near(Fresh([n EXCEPT !.wtr = FALSE]), n, ERPS_REQ_WTR_EXPIRES)
         /\ Near(Fresh([n EXCEPT !.wtb = FALSE]), n, ERPS_REQ_WTB_EXPIRES)
<1>0. ERPS_REQ_WTR_EXPIRES # ERPS_REQ_WTB_EXPIRES
  BY DEF ERPS_REQ_WTR_EXPIRES, ERPS_REQ_WTB_EXPIRES
<1>1. ASSUME NEW k \in Node, k.role = n.role, k.revertive <=> n.revertive,
             k.cb <=> n.cb, k.up \subseteq n.up, k.state = n.state,
             k.blocked = n.blocked, k.failed = n.failed, k.pdu = n.pdu, k.tx = n.tx,
             k.topreq = n.topreq, k.enabled = n.enabled, k.traffic = n.traffic, NEW r,
             r # ERPS_REQ_WTR_EXPIRES => (k.wtr <=> n.wtr),
             r # ERPS_REQ_WTB_EXPIRES => (k.wtb <=> n.wtb)
      PROVE  Near(Fresh(k), n, r)
  <2> DEFINE f == Fresh(k)
  <2>1. f \in Node
    BY SimpleTypes
  <2>2. /\ f.ok /\ ~f.flushed /\ f.role = k.role /\ (f.revertive <=> k.revertive)
        /\ (f.cb <=> k.cb) /\ f.up = k.up /\ f.state = k.state
        /\ f.blocked = k.blocked /\ f.failed = k.failed /\ f.pdu = k.pdu /\ f.tx = k.tx
        /\ f.topreq = k.topreq /\ f.enabled = k.enabled /\ f.traffic = k.traffic
        /\ (f.wtr <=> k.wtr) /\ (f.wtb <=> k.wtb)
    BY DEF Fresh, Node
  <2> HIDE DEF f
  <2>3. Near(f, n, r)
    BY <1>1, <2>1, <2>2 DEF Near, SamePorts
  <2> QED
    BY <2>3 DEF f
<1>2. Near(Fresh(n), n, req)
  BY <1>1
<1>3. ASSUME NEW l \in Port, NEW k, k = [n EXCEPT !.up = @ \ {l}]
      PROVE  Near(Fresh(k), n, req)
  <2>1. /\ k \in Node /\ k.role = n.role /\ (k.revertive <=> n.revertive)
        /\ (k.cb <=> n.cb) /\ k.up \subseteq n.up /\ k.state = n.state
        /\ k.blocked = n.blocked /\ k.failed = n.failed /\ k.pdu = n.pdu /\ k.tx = n.tx
        /\ k.topreq = n.topreq /\ k.enabled = n.enabled /\ k.traffic = n.traffic
        /\ (k.wtr <=> n.wtr) /\ (k.wtb <=> n.wtb)
    BY <1>3 DEF Node
  <2> QED
    BY <1>1, <2>1
<1>4. ASSUME NEW l \in Port, NEW k, k = [n EXCEPT !.linkDown = @ \ {l}]
      PROVE  Near(Fresh(k), n, req)
  <2>1. /\ k \in Node /\ k.role = n.role /\ (k.revertive <=> n.revertive)
        /\ (k.cb <=> n.cb) /\ k.up \subseteq n.up /\ k.state = n.state
        /\ k.blocked = n.blocked /\ k.failed = n.failed /\ k.pdu = n.pdu /\ k.tx = n.tx
        /\ k.topreq = n.topreq /\ k.enabled = n.enabled /\ k.traffic = n.traffic
        /\ (k.wtr <=> n.wtr) /\ (k.wtb <=> n.wtb)
    BY <1>4 DEF Node
  <2> QED
    BY <1>1, <2>1
<1>5. ASSUME NEW k, k = [n EXCEPT !.wtr = FALSE]
      PROVE  Near(Fresh(k), n, ERPS_REQ_WTR_EXPIRES)
  <2>1. /\ k \in Node /\ k.role = n.role /\ (k.revertive <=> n.revertive)
        /\ (k.cb <=> n.cb) /\ k.up \subseteq n.up /\ k.state = n.state
        /\ k.blocked = n.blocked /\ k.failed = n.failed /\ k.pdu = n.pdu /\ k.tx = n.tx
        /\ k.topreq = n.topreq /\ k.enabled = n.enabled /\ k.traffic = n.traffic
        /\ (k.wtb <=> n.wtb)
    BY <1>5 DEF Node
  <2> QED
    BY <1>0, <1>1, <2>1
<1>6. ASSUME NEW k, k = [n EXCEPT !.wtb = FALSE]
      PROVE  Near(Fresh(k), n, ERPS_REQ_WTB_EXPIRES)
  <2>1. /\ k \in Node /\ k.role = n.role /\ (k.revertive <=> n.revertive)
        /\ (k.cb <=> n.cb) /\ k.up \subseteq n.up /\ k.state = n.state
        /\ k.blocked = n.blocked /\ k.failed = n.failed /\ k.pdu = n.pdu /\ k.tx = n.tx
        /\ k.topreq = n.topreq /\ k.enabled = n.enabled /\ k.traffic = n.traffic
        /\ (k.wtr <=> n.wtr)
    BY <1>6 DEF Node
  <2> QED
    BY <1>0, <1>1, <2>1
<1> QED
  BY <1>2, <1>3, <1>4, <1>5, <1>6

(* A received PDU is remembered first; that may flush.                     *)
LEMMA RecvNear ==
  ASSUME NEW n \in Node, NEW l \in Port, NEW pdu \in RapsPdu, NEW e
  PROVE  Near([erps_raps_node_id_bpr_flush(Fresh(n), l, pdu, e) EXCEPT !.ok = TRUE],
              n, pdu.req)
<1> DEFINE x == Fresh(n)
           y == erps_raps_node_id_bpr_flush(x, l, pdu, e)
           z == [y EXCEPT !.ok = TRUE]
           seen == [id |-> pdu.id, bpr |-> pdu.bpr]
           m == [x EXCEPT !.pair[l] = seen]
           k == [x EXCEPT !.pair[l] = NoPair]
           f == erps_flush_fdb(m, e)
           Like(a, b) == /\ a \in Node /\ a.role = b.role /\ (a.revertive <=> b.revertive)
                         /\ (a.cb <=> b.cb) /\ a.up = b.up /\ a.state = b.state
                         /\ a.blocked = b.blocked /\ a.failed = b.failed
                         /\ a.pdu = b.pdu /\ a.tx = b.tx /\ a.topreq = b.topreq
                         /\ a.enabled = b.enabled /\ a.traffic = b.traffic
                         /\ (a.wtr <=> b.wtr) /\ (a.wtb <=> b.wtb)
<1>1. NoPair \in Pair /\ seen \in Pair /\ pdu.req \in RapsRequest
  BY DEF NoPair, Pair, RapsPdu
<1>2. Like(x, n)
  BY DEF Fresh, Node
<1>3. ASSUME NEW r \in Pair PROVE Like([x EXCEPT !.pair[l] = r], x)
  BY <1>2 DEF Node
<1>4. Like(m, x) /\ Like(k, x) /\ Like(x, x)
  BY <1>1, <1>2, <1>3
<1> HIDE DEF m, k, x
<1>5. Like(f, m)
  <2>1. f \in Node
    BY <1>4, SimpleTypes
  <2> QED
    BY <1>4, <2>1 DEF erps_flush_fdb, Node
<1>6. y = k \/ y = x \/ y = m \/ y = f
  BY DEF erps_raps_node_id_bpr_flush, m, k
<1> HIDE DEF y, f
<1>7. Like(y, x)
  BY <1>4, <1>5, <1>6
<1>8. Like(z, y) /\ z.ok
  BY <1>7 DEF Node
<1> HIDE DEF z
<1>9. Like(z, n)
  BY <1>2, <1>7, <1>8
<1>10. /\ pdu.req \in RapsRequest
       /\ pdu.req # ERPS_REQ_WTR_EXPIRES /\ pdu.req # ERPS_REQ_WTB_EXPIRES
  BY <1>1 DEF RapsRequest, ERPS_REQ_RAPS_FS, ERPS_REQ_RAPS_SF, ERPS_REQ_RAPS_MS,
              ERPS_REQ_RAPS_NR_RB, ERPS_REQ_RAPS_NR, ERPS_REQ_WTR_EXPIRES,
              ERPS_REQ_WTB_EXPIRES
<1>11. Near(z, n, pdu.req)
  BY <1>8, <1>9, <1>10 DEF Near, SamePorts
<1> QED
  BY <1>11 DEF z, y, x


-----------------------------------------------------------------------------
(* The requests that are posted.                                           *)
LEMMA PostedRequests ==
  /\ AdminRequest \cup RapsRequest \subseteq Posts
  /\ {ERPS_REQ_SF, ERPS_REQ_CLEAR_SF} \cup Expiries \subseteq Posts
  /\ \A req \in AdminRequest \cup {ERPS_REQ_SF, ERPS_REQ_CLEAR_SF} :
       req \notin RapsRequest \cup Expiries
  /\ \A req \in RapsRequest : req \notin AdminRequest \cup Expiries
  /\ \A req \in Expiries : req \notin AdminRequest \cup RapsRequest
  /\ ERPS_REQ_WTR_EXPIRES # ERPS_REQ_WTB_EXPIRES
  /\ {ERPS_REQ_SF, ERPS_REQ_CLEAR_SF} \cap AdminRequest = {}
BY DEF AdminRequest, RapsRequest, Posts, Request, TimerRunning, Expiries,
       ERPS_REQ_CLEAR, ERPS_REQ_FS, ERPS_REQ_RAPS_FS, ERPS_REQ_SF,
       ERPS_REQ_CLEAR_SF, ERPS_REQ_RAPS_SF, ERPS_REQ_RAPS_MS, ERPS_REQ_MS,
       ERPS_REQ_WTR_EXPIRES, ERPS_REQ_WTR_RUNNING, ERPS_REQ_WTB_EXPIRES,
       ERPS_REQ_WTB_RUNNING, ERPS_REQ_RAPS_NR_RB, ERPS_REQ_RAPS_NR

(* Each step is one of the three.                                          *)
LEMMA StepCases ==
  ASSUME TypeOK, [Next]_vars
  PROVE  \/ InitStep
         \/ \E l \in Port, req \in Posts, e \in Faults : PostStep(l, req, e)
         \/ QuietStep
<1> DEFINE SomePost == \E l \in Port, req \in Posts, e \in Faults : PostStep(l, req, e)
<1>0. node \in Node /\ 0 \in Port
  BY DEF TypeOK, Port
<1>1. ASSUME NEW a, NEW l \in Port, NEW req \in Posts, NEW id, NEW e \in Faults,
             Near(a, node, req), node' = erps_fsm_post_locked(a, l, req, id, e),
             booted' = booted,
             req \in AdminRequest => booted,
             SingleOwner /\ node.role = "owner" => req # ERPS_REQ_RAPS_NR_RB,
             req = ERPS_REQ_WTR_EXPIRES => node.wtr,
             req = ERPS_REQ_WTB_EXPIRES => node.wtb,
             req \in Expiries => TimerWork
      PROVE  SomePost
  <2>1. PostStep(l, req, e)
    <3>1. ASSUME NEW m, m = erps_fsm_post_locked(a, l, req, id, e)
          PROVE  \E x : /\ Readied(x, node, l, req)
                        /\ \/ /\ m = x
                              /\ ~RequestAccepted(node, req) \/ req = ERPS_REQ_CLEAR_SF
                           \/ /\ RequestAccepted(node, req) /\ Result(m, x, l, req, e)
                              /\ x.state = "UNINIT" => m = x
                              /\ \A sync, fine : /\ sync => e.vlan = {}
                                                 /\ fine => e = NoFault
                                                 /\ Kept(x, sync, fine)
                                                 => Kept(m, sync, fine)
      BY <1>0, <1>1, <3>1, PostedFrom
    <3>2. \E x : /\ Readied(x, node, l, req)
                 /\ \/ /\ node' = x
                       /\ ~RequestAccepted(node, req) \/ req = ERPS_REQ_CLEAR_SF
                    \/ /\ RequestAccepted(node, req) /\ Result(node', x, l, req, e)
                       /\ x.state = "UNINIT" => node' = x
                       /\ \A sync, fine : /\ sync => e.vlan = {}
                                          /\ fine => e = NoFault
                                          /\ Kept(x, sync, fine)
                                          => Kept(node', sync, fine)
      BY <1>1, <3>1
    <3> QED
      BY <1>1, <3>2 DEF PostStep
  <2> QED
    BY <2>1
<1>2. ASSUME NEW l \in Port, NEW req \in AdminRequest, NEW e \in Faults,
             net_erps_ctl(l, req, e)
      PROVE  SomePost
  <2>1. Near(Fresh(node), node, req)
    BY <1>0, FreshNear
  <2>2. /\ req \in Posts /\ req # ERPS_REQ_RAPS_NR_RB /\ req \notin Expiries
        /\ req # ERPS_REQ_WTR_EXPIRES /\ req # ERPS_REQ_WTB_EXPIRES
    BY PostedRequests DEF RapsRequest, Expiries
  <2> QED
    BY <1>1, <1>2, <2>1, <2>2 DEF net_erps_ctl, erps_fsm_post
<1>3. /\ ERPS_REQ_SF \in Posts /\ ERPS_REQ_SF # ERPS_REQ_RAPS_NR_RB
      /\ ERPS_REQ_SF \notin AdminRequest
      /\ ERPS_REQ_SF # ERPS_REQ_WTR_EXPIRES /\ ERPS_REQ_SF # ERPS_REQ_WTB_EXPIRES
      /\ ERPS_REQ_CLEAR_SF \in Posts /\ ERPS_REQ_CLEAR_SF # ERPS_REQ_RAPS_NR_RB
      /\ ERPS_REQ_CLEAR_SF \notin AdminRequest
      /\ ERPS_REQ_CLEAR_SF # ERPS_REQ_WTR_EXPIRES
      /\ ERPS_REQ_CLEAR_SF # ERPS_REQ_WTB_EXPIRES
      /\ ERPS_REQ_SF \notin Expiries /\ ERPS_REQ_CLEAR_SF \notin Expiries
  BY PostedRequests DEF RapsRequest, Expiries
<1>4. ASSUME NEW l \in Port, NEW e \in Faults,
             CarrierLost(l, e) \/ CarrierRestored(l, e) \/ erps_link_down_work(l, e)
      PROVE  SomePost
  <2>1. /\ Near(Fresh([node EXCEPT !.up = @ \ {l}]), node, ERPS_REQ_SF)
        /\ Near(Fresh([node EXCEPT !.linkDown = @ \ {l}]), node, ERPS_REQ_SF)
        /\ Near(Fresh(node), node, ERPS_REQ_CLEAR_SF)
    BY <1>0, FreshNear
  <2>2. CASE CarrierLost(l, e)
    BY <1>1, <1>3, <2>1, <2>2 DEF CarrierLost, erps_fsm_post
  <2>3. CASE CarrierRestored(l, e)
    BY <1>1, <1>3, <2>1, <2>3 DEF CarrierRestored, erps_fsm_post
  <2>4. CASE erps_link_down_work(l, e)
    BY <1>1, <1>3, <2>1, <2>4 DEF erps_link_down_work, erps_fsm_post
  <2> QED
    BY <1>4, <2>2, <2>3, <2>4
<1>5. ASSUME NEW l \in Port, NEW pdu \in RapsPdus, NEW e \in Faults,
             erps_raps_recv(l, pdu, e)
      PROVE  SomePost
  <2> DEFINE a == [erps_raps_node_id_bpr_flush(Fresh(node), l, pdu, e) EXCEPT !.ok = TRUE]
  <2>1. pdu \in RapsPdu /\ pdu.req \in RapsRequest
    BY PduAssumption DEF RapsPdu
  <2>2. Near(a, node, pdu.req)
    BY <1>0, <2>1, RecvNear
  <2>3. /\ pdu.req \in Posts /\ pdu.req \notin AdminRequest \cup Expiries
        /\ pdu.req # ERPS_REQ_WTR_EXPIRES /\ pdu.req # ERPS_REQ_WTB_EXPIRES
    BY <2>1, PostedRequests DEF Expiries
  <2>4. /\ node' = erps_fsm_post_locked(a, l, pdu.req, pdu.id, e)
        /\ booted' = booted
        /\ SingleOwner /\ node.role = "owner" => pdu.req # ERPS_REQ_RAPS_NR_RB
    BY <1>5 DEF erps_raps_recv
  <2> HIDE DEF a
  <2> QED
    BY <1>1, <2>2, <2>3, <2>4
<1>6. ASSUME NEW e \in Faults, erps_wtr_work(e) \/ erps_wtb_work(e)
      PROVE  SomePost
  <2>1. /\ Near(Fresh([node EXCEPT !.wtr = FALSE]), node, ERPS_REQ_WTR_EXPIRES)
        /\ Near(Fresh([node EXCEPT !.wtb = FALSE]), node, ERPS_REQ_WTB_EXPIRES)
    BY <1>0, FreshNear
  <2>2. \A req \in Expiries : /\ req \in Posts /\ req \notin AdminRequest
                              /\ req # ERPS_REQ_RAPS_NR_RB
    BY PostedRequests DEF RapsRequest
  <2>3. ERPS_REQ_WTR_EXPIRES # ERPS_REQ_WTB_EXPIRES /\ TimerWork
    BY <1>6, PostedRequests DEF TimerWork
  <2>4. CASE erps_wtr_work(e)
    BY <1>0, <1>1, <2>1, <2>2, <2>3, <2>4 DEF erps_wtr_work, erps_fsm_post, Expiries
  <2>5. CASE erps_wtb_work(e)
    BY <1>0, <1>1, <2>1, <2>2, <2>3, <2>5 DEF erps_wtb_work, erps_fsm_post, Expiries
  <2> QED
    BY <1>6, <2>4, <2>5
<1>7. ASSUME NEW l \in Port, NEW e \in Faults, erps_handle_raps_event(l, e)
      PROVE  QuietStep
  <2>1. node' \in Node
    BY <1>0, <1>7, SimpleTypes DEF erps_handle_raps_event
  <2> QED
    BY <1>0, <1>7, <2>1
    DEF erps_handle_raps_event, QuietStep, erps_flush_fdb, Fresh, NoFault, Node,
        Same, SameTimers, SamePorts, SamePdu
<1>8. ASSUME NEW p \in Port, erps_iface_up_cb(p) PROVE QuietStep
  <2>1. node' \in Node
    BY <1>0, <1>8 DEF erps_iface_up_cb, Node
  <2> QED
    BY <1>0, <1>8, <2>1
    DEF erps_iface_up_cb, QuietStep, Node, Same, SameTimers, SamePorts, SamePdu
<1>9. ASSUME NEW p \in Port, erps_tx_work(p) PROVE QuietStep
  <2>1. node' \in Node
    <3>1. node.burst[p] - 1 \in 0 .. ERPS_RAPS_BURST
      BY <1>0, <1>9, BurstAssumption DEF erps_tx_work, Node
    <3>2. ASSUME NEW b \in 0 .. ERPS_RAPS_BURST
          PROVE  [node EXCEPT !.burst[p] = b] \in Node
      BY <1>0 DEF Node
    <3>3. node' = [node EXCEPT !.burst[p] = node.burst[p] - 1]
      BY <1>9 DEF erps_tx_work
    <3> QED
      BY <3>1, <3>2, <3>3, Zenon
  <2>2. /\ booted' = booted /\ node'.enabled = node.enabled
        /\ node'.traffic = node.traffic /\ node'.tx = node.tx /\ node'.up = node.up
        /\ (node'.cb <=> node.cb) /\ (node'.ok <=> node.ok) /\ Same(node', node)
        /\ SamePorts(node', node) /\ SamePdu(node', node)
    BY <1>0, <1>9 DEF erps_tx_work, Node, Same, SameTimers, SamePorts, SamePdu
  <2> QED
    BY <2>1, <2>2 DEF QuietStep
<1>10. ASSUME GuardTimerExpires \/ UNCHANGED vars PROVE QuietStep
  <2>1. node' \in Node
    BY <1>0, <1>10 DEF GuardTimerExpires, vars, Node
  <2> QED
    BY <1>0, <1>10, <2>1
    DEF GuardTimerExpires, vars, QuietStep, Node, Same, SameTimers, SamePorts, SamePdu
<1> HIDE DEF SomePost
<1>11. InitStep \/ SomePost \/ QuietStep
  BY <1>2, <1>4, <1>5, <1>6, <1>7, <1>8, <1>9, <1>10
  DEF Next, Environment, System, InitStep
<1> QED
  BY <1>11 DEF SomePost

-----------------------------------------------------------------------------
(* Before erps_init the record is as the devicetree macros leave it; what  *)
(* is posted is rejected, for local_topreq is zero.                        *)
BeforeBoot ==
  ~booted => /\ node.state = "UNINIT" /\ node.topreq = ERPS_REQ_CLEAR /\ ~node.cb
             /\ node.blocked = {} /\ node.enabled = {} /\ node.traffic = Port

LEMMA BeforeBootStep ==
  ASSUME TypeOK, BeforeBoot, [Next]_vars
  PROVE  BeforeBoot'
<1>1. CASE InitStep
  BY <1>1 DEF InitStep, NodeInit, BeforeBoot
<1>2. ASSUME NEW l \in Port, NEW req \in Posts, NEW e \in Faults, PostStep(l, req, e)
      PROVE  BeforeBoot'
  <2> SUFFICES ASSUME ~booted
               PROVE  /\ node'.state = "UNINIT" /\ node'.topreq = ERPS_REQ_CLEAR
                      /\ ~node'.cb /\ node'.blocked = {} /\ node'.enabled = {}
                      /\ node'.traffic = Port
    BY <1>2 DEF PostStep, BeforeBoot
  <2>1. ~RequestAccepted(node, req)
    BY <1>2 DEF PostStep, BeforeBoot, RequestAccepted, AdminRequest, Posts, Request,
                ERPS_REQ_CLEAR, ERPS_REQ_SF, ERPS_REQ_RAPS_NR
  <2>2. PICK x : Readied(x, node, l, req) /\ node' = x
    BY <1>2, <2>1 DEF PostStep
  <2> QED
    BY <2>1, <2>2 DEF Readied, BeforeBoot
<1>3. CASE QuietStep
  BY <1>3 DEF QuietStep, BeforeBoot, Same, SameTimers, SamePorts
<1> QED
  BY <1>1, <1>2, <1>3, StepCases

LEMMA BeforeBootAlways == Spec => []BeforeBoot
<1>1. Init => BeforeBoot
  BY DEF Init, BeforeBoot, ERPS_NODE_INIT
<1>2. TypeOK /\ BeforeBoot /\ [Next]_vars => BeforeBoot'
  BY BeforeBootStep
<1> QED
  BY <1>1, <1>2, TypeCorrect, PTL DEF Spec

(* What initialization leaves.                                             *)
LEMMA InitOutcome ==
  ASSUME TypeOK, BeforeBoot, NEW c \in Faults, NEW e \in Faults, NodeInit(c, e)
  PROVE  /\ booted' /\ node' \in Node /\ node'.role = node.role
         /\ (node'.revertive <=> node.revertive)
         /\ node'.up = node.up /\ node'.pdu \in {node.pdu, [rs |-> "NR", status |-> {}]}
         /\ node'.state \in {"UNINIT", "PENDING"}
         /\ node'.topreq \in {ERPS_REQ_INVALID} \cup TimerRunning
         /\ node'.cb <=> node'.ok
         /\ node'.ok => /\ node'.state = "PENDING" /\ node'.up \subseteq node'.tx
                        /\ RevertiveOwner(node') => node'.wtr
         /\ node'.ok /\ e.vlan = {} => Sync(node')
         /\ c = NoFault /\ e = NoFault => node'.ok
<1>1. ASSUME NEW m, m = erps_node_init(node, c, e)
      PROVE  /\ m \in Node /\ m.role = node.role /\ (m.revertive <=> node.revertive)
             /\ m.up = node.up /\ m.pdu \in {node.pdu, [rs |-> "NR", status |-> {}]}
             /\ m.state \in {"UNINIT", "PENDING"}
             /\ m.topreq \in {ERPS_REQ_INVALID} \cup TimerRunning
             /\ m.cb <=> m.ok
             /\ m.ok => /\ m.state = "PENDING" /\ m.up \subseteq m.tx
                        /\ RevertiveOwner(m) => m.wtr
             /\ m.ok /\ e.vlan = {} => Sync(m)
             /\ c = NoFault /\ e = NoFault => m.ok
  <2>1. /\ node \in Node /\ ~node.cb /\ node.state = "UNINIT"
        /\ node.blocked = {} /\ node.enabled = {} /\ node.traffic = Port
    BY DEF NodeInit, BeforeBoot, TypeOK
  <2> QED
    BY <1>1, <2>1, InitResult
<1> QED
  BY <1>1 DEF NodeInit

-----------------------------------------------------------------------------
(***************************************************************************)
(* Flushes.                                                                *)
(***************************************************************************)

(* A handler that changes what the node sends to SF, FS, MS or (NR,RB) and *)
(* succeeds tells the others to flush exactly if it has flushed itself,    *)
(* whatever has failed before.                                             *)
THEOREM PeersFlush == Spec => PeersFlushWithNode
<1> DEFINE Good == node'.pdu # node.pdu /\ node'.ok
                     /\ (node'.pdu.rs # "NR" \/ "RB" \in node'.pdu.status)
                   => (node'.flushed <=> "DNF" \notin node'.pdu.status)
<1>1. ASSUME TypeOK, BeforeBoot, [Next]_vars PROVE Good
  <2>1. CASE InitStep
    BY <1>1, <2>1, InitOutcome DEF InitStep
  <2>2. ASSUME NEW l \in Port, NEW req \in Posts, NEW e \in Faults, PostStep(l, req, e)
        PROVE  Good
    <3>1. PICK x : /\ Readied(x, node, l, req)
                   /\ node' = x \/ Result(node', x, l, req, e)
      BY <2>2 DEF PostStep
    <3>2. x.pdu = node.pdu /\ (x.flushed => req \in RapsRequest)
      BY <3>1 DEF Readied
    <3>3. CASE node' = x
      BY <3>2, <3>3
    <3>4. ASSUME Result(node', x, l, req, e), node'.ok, node'.pdu # node.pdu
          PROVE  Good
      <4>1. Effect(node', x, l, req)
        BY <3>4 DEF Result
      <4>2. CASE CutsHere(node', x, l, req)
        <5>1. ~x.flushed
          BY <3>2, <4>2, PostedRequests
             DEF CutsHere, Local, AdminRequest
        <5> QED
          BY <4>2, <5>1 DEF CutsHere
      <4>3. CASE CutsMore(node', x, l, req)
        BY <4>3 DEF CutsMore
      <4>4. CASE EndsWaiting(node', x, req)
        <5>1. ~x.flushed
          BY <3>2, <4>4, PostedRequests
             DEF EndsWaiting, AdminRequest
        <5>2. CASE Rpl \in x.blocked
          BY <4>4, <5>1, <5>2 DEF EndsWaiting
        <5>3. CASE Rpl \notin x.blocked
          BY <4>4, <5>1, <5>3 DEF EndsWaiting
        <5> QED
          BY <5>2, <5>3
      <4>5. CASE StartsWaiting(node', x, req) \/ DropsOrder(node', x, req)
        BY <3>2, <3>4, <4>5 DEF StartsWaiting, DropsOrder, SameAir, SamePdu
      <4>6. CASE \/ Untouched(node', x, req) \/ FollowsInIdle(node', x, req)
                 \/ OpensPorts(node', x, req) \/ YieldsPorts(node', x, req)
                 \/ EndsWithout(node', x, req)
        BY <3>2, <3>4, <4>6
        DEF Untouched, FollowsInIdle, OpensPorts, YieldsPorts, EndsWithout,
            SameAir, SamePdu
      <4> QED
        BY <4>1, <4>2, <4>3, <4>4, <4>5, <4>6 DEF Effect
    <3> QED
      BY <3>1, <3>3, <3>4
  <2>3. CASE QuietStep
    BY <2>3 DEF QuietStep, SamePdu
  <2> QED
    BY <1>1, <2>1, <2>2, <2>3, StepCases
<1>2. TypeOK /\ BeforeBoot /\ [Next]_vars => [Good]_vars
  BY <1>1
<1> QED
  BY <1>2, TypeCorrect, BeforeBootAlways, PTL DEF Spec, PeersFlushWithNode

(* A port is never newly blocked by a successful step after boot without a *)
(* flush, save at the RPL neighbour, which follows the owner.              *)
THEOREM BlockFlushes == Spec => NewBlockFlushes
<1> DEFINE Good == booted /\ node'.ok /\ node'.blocked \ node.blocked # {} =>
                     node'.flushed \/ (node.role = "nbr" /\ node'.state = "IDLE")
<1>1. ASSUME TypeOK, [Next]_vars PROVE Good
  <2>1. CASE InitStep
    BY <2>1 DEF InitStep, NodeInit
  <2>2. ASSUME NEW l \in Port, NEW req \in Posts, NEW e \in Faults, PostStep(l, req, e)
        PROVE  Good
    <3>1. PICK x : /\ Readied(x, node, l, req)
                   /\ node' = x \/ Result(node', x, l, req, e)
      BY <2>2 DEF PostStep
    <3>2. x.blocked = node.blocked /\ x.role = node.role /\ x.role \in Role
      BY <3>1 DEF Readied, Node
    <3>3. CASE node' = x
      BY <3>2, <3>3
    <3>4. ASSUME Result(node', x, l, req, e), node'.ok
          PROVE  Good
      <4>1. Effect(node', x, l, req)
        BY <3>4 DEF Result
      <4>2. CASE CutsHere(node', x, l, req) \/ CutsMore(node', x, l, req)
                   \/ EndsWaiting(node', x, req)
        BY <3>2, <4>2 DEF CutsHere, CutsMore, EndsWaiting
      <4>3. CASE EndsWithout(node', x, req)
        BY <3>2, <4>3 DEF EndsWithout, SamePorts
      <4>4. CASE FollowsInIdle(node', x, req)
        BY <3>2, <4>4 DEF FollowsInIdle, SamePorts
      <4>5. CASE \/ Untouched(node', x, req) \/ OpensPorts(node', x, req)
                 \/ YieldsPorts(node', x, req) \/ StartsWaiting(node', x, req)
                 \/ DropsOrder(node', x, req)
        BY <3>2, <4>5
        DEF Untouched, OpensPorts, YieldsPorts, StartsWaiting, DropsOrder, SamePorts
      <4> QED
        BY <4>1, <4>2, <4>3, <4>4, <4>5 DEF Effect
    <3> QED
      BY <3>1, <3>3, <3>4
  <2>3. CASE QuietStep
    BY <2>3 DEF QuietStep, SamePorts
  <2> QED
    BY <1>1, <2>1, <2>2, <2>3, StepCases
<1>2. TypeOK /\ [Next]_vars => [Good]_vars
  BY <1>1
<1> QED
  BY <1>2, TypeCorrect, PTL DEF Spec, NewBlockFlushes

-----------------------------------------------------------------------------
(***************************************************************************)
(* The ports, while no VLAN call fails.                                    *)
(***************************************************************************)

(* While only driver and flush calls fail, a node that has come up knows   *)
(* which of its ports forward: a call that fails midway undoes what it did.*)
THEOREM PortsAgree ==
  ASSUME \A f \in Faults : f.vlan = {}
  PROVE  Spec => []PortsInSync
<1>1. Init => PortsInSync
  BY DEF Init, PortsInSync, ERPS_NODE_INIT
<1>2. ASSUME TypeOK, BeforeBoot, PortsInSync, [Next]_vars PROVE PortsInSync'
  <2> SUFFICES ASSUME node'.cb PROVE Sync(node')
    BY DEF PortsInSync, Sync
  <2>1. CASE InitStep
    BY <1>2, <2>1, InitOutcome DEF InitStep
  <2>2. ASSUME NEW l \in Port, NEW req \in Posts, NEW e \in Faults, PostStep(l, req, e)
        PROVE  Sync(node')
    <3>1. PICK x : /\ Readied(x, node, l, req)
                   /\ \/ node' = x
                      \/ /\ Result(node', x, l, req, e)
                         /\ \A sync, fine : /\ sync => e.vlan = {}
                                            /\ fine => e = NoFault
                                            /\ Kept(x, sync, fine)
                                            => Kept(node', sync, fine)
      BY <2>2 DEF PostStep
    <3>2. node'.cb => node.cb
      BY <3>1 DEF Readied, Result, Effect, Stuck, Base
    <3>3. Sync(node)
      BY <1>2, <3>2 DEF PortsInSync, Sync
    <3>4. Sync(x) /\ Kept(x, TRUE, FALSE)
      BY <3>1, <3>3 DEF Readied, Sync, Kept
    <3>5. e.vlan = {}
      OBVIOUS
    <3>6. CASE node' = x
      BY <3>4, <3>6
    <3>7. CASE node' # x
      BY <3>1, <3>4, <3>5, <3>7 DEF Kept
    <3> QED
      BY <3>6, <3>7
  <2>3. CASE QuietStep
    BY <1>2, <2>3 DEF QuietStep, SamePorts, PortsInSync, Sync
  <2> QED
    BY <1>2, <2>1, <2>2, <2>3, StepCases
<1>3. TypeOK /\ BeforeBoot /\ PortsInSync /\ [Next]_vars => PortsInSync'
  BY <1>2
<1> QED
  BY <1>1, <1>3, TypeCorrect, BeforeBootAlways, PTL DEF Spec

(* Under the same condition an idle owner has a blocked port, if it is the *)
(* only node that claims to be the owner.                                  *)
THEOREM IdleOwnerCuts ==
  ASSUME \A f \in Faults : f.vlan = {}, SingleOwner
  PROVE  Spec => []IdleOwnerCutsRing
<1>1. Init => IdleOwnerCutsRing
  BY DEF Init, IdleOwnerCutsRing, ERPS_NODE_INIT
<1>2. ASSUME TypeOK, BeforeBoot, IdleOwnerCutsRing, [Next]_vars
      PROVE  IdleOwnerCutsRing'
  <2> SUFFICES ASSUME node'.state = "IDLE", node'.role = "owner"
               PROVE  node'.blocked # {}
    BY DEF IdleOwnerCutsRing, erps_node_is_rpl_owner
  <2>0. node.state = "IDLE" /\ node.role = "owner" => node.blocked # {}
    BY <1>2 DEF IdleOwnerCutsRing, erps_node_is_rpl_owner
  <2>1. CASE InitStep
    BY <1>2, <2>1, InitOutcome DEF InitStep
  <2>2. ASSUME NEW l \in Port, NEW req \in Posts, NEW e \in Faults, PostStep(l, req, e)
        PROVE  node'.blocked # {}
    <3>1. PICK x : /\ Readied(x, node, l, req)
                   /\ node' = x \/ Result(node', x, l, req, e)
      BY <2>2 DEF PostStep
    <3>2. x.blocked = node.blocked /\ x.role = node.role /\ x.state = node.state
      BY <3>1 DEF Readied
    <3>3. CASE node' = x
      BY <2>0, <3>2, <3>3
    <3>4. CASE Result(node', x, l, req, e)
      <4>1. x.role = "owner" /\ HasRpl(x) /\ req # ERPS_REQ_RAPS_NR_RB /\ e.vlan = {}
        BY <2>2, <3>2, <3>4 DEF Result, Effect, Stuck, Base, HasRpl, PostStep
      <4>2. CASE ~node'.ok
        BY <2>0, <3>2, <3>4, <4>1, <4>2 DEF Result, Stuck
      <4>3. CASE node'.ok
        <5>1. Effect(node', x, l, req)
          BY <3>4, <4>3 DEF Result
        <5>2. ~FollowsInIdle(node', x, req) /\ ~YieldsPorts(node', x, req)
          BY <4>1 DEF FollowsInIdle, YieldsPorts, Same
        <5>3. ~CutsMore(node', x, l, req) /\ ~DropsOrder(node', x, req)
          BY DEF CutsMore, DropsOrder, Same
        <5>4. ~OpensPorts(node', x, req) /\ ~StartsWaiting(node', x, req)
          BY DEF OpensPorts, StartsWaiting
        <5>5. ~EndsWithout(node', x, req)
          BY <4>1 DEF EndsWithout
        <5>6. CASE Untouched(node', x, req)
          BY <2>0, <3>2, <4>1, <5>6 DEF Untouched, Same, SamePorts
        <5>7. CASE CutsHere(node', x, l, req) \/ EndsWaiting(node', x, req)
          BY <5>7 DEF CutsHere, EndsWaiting
        <5> QED
          BY <5>1, <5>2, <5>3, <5>4, <5>5, <5>6, <5>7 DEF Effect
      <4> QED
        BY <4>2, <4>3
    <3> QED
      BY <3>1, <3>3, <3>4
  <2>3. CASE QuietStep
    BY <2>0, <2>3 DEF QuietStep, Same, SameTimers, SamePorts
  <2> QED
    BY <1>2, <2>1, <2>2, <2>3, StepCases
<1>3. TypeOK /\ BeforeBoot /\ IdleOwnerCutsRing /\ [Next]_vars => IdleOwnerCutsRing'
  BY <1>2
<1> QED
  BY <1>1, <1>3, TypeCorrect, BeforeBootAlways, PTL DEF Spec

-----------------------------------------------------------------------------
(***************************************************************************)
(* The wait of a revertive owner.                                          *)
(***************************************************************************)

(* After boot the top request is never the one that nothing can pass; it   *)
(* is a local request that lasts, or none.                                 *)
TopRequestLasts == booted => node.topreq # ERPS_REQ_CLEAR

LEMMA TopRequestLastsStep ==
  ASSUME TypeOK, BeforeBoot, TopRequestLasts, [Next]_vars
  PROVE  TopRequestLasts'
<1>0. /\ ERPS_REQ_CLEAR \notin {ERPS_REQ_INVALID} \cup TimerRunning
      /\ ERPS_REQ_CLEAR \notin LocalRequest
  BY DEF LocalRequest, TimerRunning, ERPS_REQ_CLEAR, ERPS_REQ_INVALID, ERPS_REQ_FS,
         ERPS_REQ_SF, ERPS_REQ_MS, ERPS_REQ_WTR_RUNNING, ERPS_REQ_WTB_RUNNING
<1>1. CASE InitStep
  BY <1>0, <1>1, InitOutcome DEF InitStep, TopRequestLasts
<1>2. ASSUME NEW l \in Port, NEW req \in Posts, NEW e \in Faults, PostStep(l, req, e),
             booted
      PROVE  node'.topreq # ERPS_REQ_CLEAR
  <2>1. PICK x : /\ Readied(x, node, l, req)
                 /\ node' = x \/ Result(node', x, l, req, e)
    BY <1>2 DEF PostStep
  <2>2. x.topreq # ERPS_REQ_CLEAR
    BY <1>0, <1>2, <2>1 DEF Readied, TopRequestLasts
  <2>3. Result(node', x, l, req, e) => node'.topreq \in {x.topreq} \cup TimerRunning
    BY DEF Result, Effect, Stuck, Untouched, FollowsInIdle, CutsHere, CutsMore,
           OpensPorts, YieldsPorts, StartsWaiting, DropsOrder, EndsWaiting,
           EndsWithout, Same, SameTimers
  <2> QED
    BY <1>0, <2>1, <2>2, <2>3
<1>3. CASE QuietStep
  BY <1>3 DEF QuietStep, TopRequestLasts, Same, SameTimers
<1> QED
  BY <1>1, <1>2, <1>3, StepCases DEF PostStep, TopRequestLasts

LEMMA TopRequestLastsAlways == Spec => []TopRequestLasts
<1>1. Init => TopRequestLasts
  BY DEF Init, TopRequestLasts
<1>2. TypeOK /\ BeforeBoot /\ TopRequestLasts /\ [Next]_vars => TopRequestLasts'
  BY TopRequestLastsStep
<1> QED
  BY <1>1, <1>2, TypeCorrect, BeforeBootAlways, PTL DEF Spec

(* A timer that expires while its owner waits is never turned away.        *)
LEMMA ExpiryAccepted ==
  ASSUME TypeOK, BeforeBoot, TopRequestLasts, TimersOnlyWhileReverting,
         PendingHasNoLocalRequest
  PROVE  /\ node.wtr => RequestAccepted(node, ERPS_REQ_WTR_EXPIRES)
         /\ node.wtb /\ ~node.wtr => RequestAccepted(node, ERPS_REQ_WTB_EXPIRES)
<1> SUFFICES ASSUME node.wtr \/ node.wtb
             PROVE  /\ RequestAccepted(node, ERPS_REQ_WTR_EXPIRES)
                    /\ ~node.wtr => RequestAccepted(node, ERPS_REQ_WTB_EXPIRES)
  OBVIOUS
<1>1. node.state = "PENDING"
  BY DEF TimersOnlyWhileReverting
<1>2. booted
  BY <1>1 DEF BeforeBoot
<1>3. node.topreq \in {ERPS_REQ_WTR_RUNNING, ERPS_REQ_WTB_RUNNING, ERPS_REQ_INVALID}
  BY <1>1, <1>2
  DEF TopRequestLasts, PendingHasNoLocalRequest, TypeOK, Node, TopRequest
<1>4. ~node.wtr => node.topreq # ERPS_REQ_WTR_RUNNING
  BY DEF TimersOnlyWhileReverting
<1> QED
  BY <1>3, <1>4 DEF RequestAccepted, ERPS_REQ_CLEAR, ERPS_REQ_WTR_EXPIRES,
     ERPS_REQ_WTB_EXPIRES, ERPS_REQ_WTR_RUNNING, ERPS_REQ_WTB_RUNNING, ERPS_REQ_INVALID

(* The wait after a step that succeeds, whatever has failed before.        *)
LEMMA WaitStaysArmed ==
  ASSUME SingleOwner, TypeOK, BeforeBoot, TopRequestLasts, TimersOnlyWhileReverting,
         [Next]_vars, node'.ok
  PROVE  /\ PendingHasNoLocalRequest => PendingHasNoLocalRequest'
         /\ WaitTimed => WaitTimed' \/ ExpiryRefused
<1> DEFINE Idle(t) == t \notin {ERPS_REQ_FS, ERPS_REQ_SF, ERPS_REQ_MS}
           IdleAfter == PendingHasNoLocalRequest => Idle(node'.topreq)
           TimedAfter == WaitTimed /\ RevertiveOwner(node') /\ node'.blocked # {} =>
                           node'.wtr \/ node'.wtb \/ ExpiryRefused
<1> SUFFICES ASSUME node'.state = "PENDING" PROVE IdleAfter /\ TimedAfter
  BY DEF WaitTimed, PendingHasNoLocalRequest, RevertiveOwner, erps_node_is_rpl_owner
<1>0. /\ node.state = "PENDING" /\ PendingHasNoLocalRequest => Idle(node.topreq)
      /\ (node.state = "PENDING" /\ WaitTimed /\ RevertiveOwner(node) /\ node.blocked # {})
           => node.wtr \/ node.wtb
  BY DEF WaitTimed, PendingHasNoLocalRequest
<1>1. /\ \A t \in {ERPS_REQ_INVALID} \cup TimerRunning : Idle(t)
      /\ ERPS_REQ_CLEAR_SF \notin LocalRequest
      /\ \A req : req \notin Local /\ req \in LocalRequest => Idle(req)
  BY DEF TimerRunning, LocalRequest, Local, ERPS_REQ_INVALID, ERPS_REQ_FS, ERPS_REQ_SF,
         ERPS_REQ_MS, ERPS_REQ_WTR_RUNNING, ERPS_REQ_WTB_RUNNING, ERPS_REQ_CLEAR_SF
<1>2. CASE InitStep
  BY <1>1, <1>2, InitOutcome DEF InitStep
<1>3. ASSUME NEW l \in Port, NEW req \in Posts, NEW e \in Faults, PostStep(l, req, e)
      PROVE  IdleAfter /\ TimedAfter
  <2>1. PICK x : /\ Readied(x, node, l, req)
                 /\ \/ /\ node' = x
                       /\ ~RequestAccepted(node, req) \/ req = ERPS_REQ_CLEAR_SF
                    \/ RequestAccepted(node, req) /\ Result(node', x, l, req, e)
    BY <1>3 DEF PostStep
  <2>2. /\ x.blocked = node.blocked /\ x.state = node.state /\ x.role = node.role
        /\ (x.revertive <=> node.revertive) /\ (RevertiveOwner(x) <=> RevertiveOwner(node))
    BY <2>1 DEF Readied, RevertiveOwner, erps_node_is_rpl_owner
  <2>3. req \notin Expiries => (x.wtr <=> node.wtr) /\ (x.wtb <=> node.wtb)
    BY <2>1 DEF Readied, Expiries
  <2>4. ASSUME node' = x, ~RequestAccepted(node, req) \/ req = ERPS_REQ_CLEAR_SF
        PROVE  IdleAfter /\ TimedAfter
    <3>1. node.state = "PENDING"
      BY <2>2, <2>4
    <3>2. IdleAfter
      BY <1>0, <1>1, <2>1, <2>4, <3>1 DEF Readied
    <3>3. ASSUME WaitTimed, RevertiveOwner(x), x.blocked # {}, ~ExpiryRefused
          PROVE  x.wtr \/ x.wtb
      <4>1. node.wtr \/ node.wtb
        BY <1>0, <2>2, <3>1, <3>3
      <4>2. CASE req \notin Expiries
        BY <2>3, <4>1, <4>2
      <4>3. CASE req \in Expiries
        <5>1. ~RequestAccepted(node, req)
          BY <2>4, <4>3
             DEF Expiries, ERPS_REQ_CLEAR_SF, ERPS_REQ_WTR_EXPIRES, ERPS_REQ_WTB_EXPIRES
        <5>2. PendingHasNoLocalRequest
          BY <1>3, <3>3, <4>3 DEF PostStep, ExpiryRefused, TimerWork
        <5>3. req = ERPS_REQ_WTB_EXPIRES /\ req # ERPS_REQ_WTR_EXPIRES /\ node.wtr
          BY <1>3, <4>3, <5>1, <5>2, ExpiryAccepted, PostedRequests DEF PostStep, Expiries
        <5> QED
          BY <2>1, <5>3 DEF Readied
      <4> QED
        BY <4>2, <4>3
    <3> QED
      BY <2>4, <3>2, <3>3
  <2>5. ASSUME RequestAccepted(node, req), Result(node', x, l, req, e)
        PROVE  IdleAfter /\ TimedAfter
    <3>1. Effect(node', x, l, req)
      BY <2>5 DEF Result
    <3>2. x.topreq = IF req \in LocalRequest THEN req ELSE ERPS_REQ_INVALID
      BY <2>1, <2>5 DEF Readied
    <3>3. req \notin Local => Idle(x.topreq)
      BY <1>1, <3>2
    <3>4. node'.role = x.role /\ (RevertiveOwner(node') <=> RevertiveOwner(x))
      BY <3>1 DEF Effect, Base, RevertiveOwner, erps_node_is_rpl_owner
    <3>5. CASE Untouched(node', x, req) \/ YieldsPorts(node', x, req)
      <4>1. /\ Same(node', x) /\ x.state = "PENDING" /\ req \notin Local
            /\ ~(req \in Expiries /\ erps_node_is_rpl_owner(x))
            /\ node'.blocked \subseteq x.blocked
        BY <3>5 DEF Untouched, YieldsPorts, Same, SamePorts, Local, Expiries,
                    ERPS_REQ_FS, ERPS_REQ_SF, ERPS_REQ_MS, ERPS_REQ_RAPS_NR,
                    ERPS_REQ_WTR_EXPIRES, ERPS_REQ_WTB_EXPIRES
      <4>2. IdleAfter
        BY <3>3, <4>1 DEF Same, SameTimers
      <4>3. TimedAfter
        BY <1>0, <2>2, <2>3, <3>4, <4>1 DEF Same, SameTimers, RevertiveOwner
      <4> QED
        BY <4>2, <4>3
    <3>6. CASE StartsWaiting(node', x, req)
      <4>1. req \notin Local
        BY <3>6 DEF StartsWaiting, Local, ERPS_REQ_FS, ERPS_REQ_SF, ERPS_REQ_MS,
                    ERPS_REQ_CLEAR, ERPS_REQ_CLEAR_SF, ERPS_REQ_RAPS_MS,
                    ERPS_REQ_RAPS_NR, ERPS_REQ_RAPS_NR_RB
      <4>2. IdleAfter
        BY <1>1, <3>3, <3>6, <4>1 DEF StartsWaiting
      <4>3. RevertiveOwner(x) => req # ERPS_REQ_RAPS_NR_RB
        BY <1>3, <2>2 DEF PostStep, RevertiveOwner, erps_node_is_rpl_owner
      <4>4. TimedAfter
        BY <3>4, <3>6, <4>3 DEF StartsWaiting, SamePorts
      <4> QED
        BY <4>2, <4>4
    <3>7. /\ ~FollowsInIdle(node', x, req) /\ ~CutsHere(node', x, l, req)
          /\ ~CutsMore(node', x, l, req) /\ ~OpensPorts(node', x, req)
          /\ ~DropsOrder(node', x, req) /\ ~EndsWaiting(node', x, req)
          /\ ~EndsWithout(node', x, req)
      BY DEF FollowsInIdle, CutsHere, CutsMore, OpensPorts, DropsOrder, EndsWaiting,
             EndsWithout, Same, SwitchState, Local
    <3> QED
      BY <3>1, <3>5, <3>6, <3>7 DEF Effect
  <2> QED
    BY <2>1, <2>4, <2>5
<1>4. ASSUME QuietStep PROVE IdleAfter /\ TimedAfter
  BY <1>0, <1>4 DEF QuietStep, Same, SameTimers, SamePorts, RevertiveOwner,
                    erps_node_is_rpl_owner
<1> QED
  BY <1>2, <1>3, <1>4, StepCases

(* Failed calls and the wait of a revertive owner: a step in which no call *)
(* fails never leaves a local request recorded in PENDING, and takes the   *)
(* timer from an owner that waits only if the expiry is refused because of *)
(* a request that an earlier failure has left in local_topreq.             *)
THEOREM OnlyFailureDisarms ==
  ASSUME SingleOwner
  PROVE  Spec => DisarmedByFailureOnly
<1>1. TypeOK /\ BeforeBoot /\ TopRequestLasts /\ TimersOnlyWhileReverting /\ [Next]_vars
        => [node'.ok => /\ PendingHasNoLocalRequest => PendingHasNoLocalRequest'
                        /\ WaitTimed => WaitTimed' \/ ExpiryRefused]_vars
  BY WaitStaysArmed
<1> QED
  BY <1>1, TypeCorrect, BeforeBootAlways, TopRequestLastsAlways, TimersCorrect, PTL
     DEF Spec, DisarmedByFailureOnly

-----------------------------------------------------------------------------
(***************************************************************************)
(* While no call fails, every post that passes the priority logic has one  *)
(* of the effects of ErpsFsmProofs, and each invariant of the node is a    *)
(* property of these.                                                      *)
(***************************************************************************)

(* No handler fails, and initialization has brought the machine up.        *)
AllWell == node.ok /\ (booted => node.cb /\ node.state # "UNINIT")

(* A post that passes the priority logic is handled.                       *)
FinePost(l, req) ==
  /\ req \in Posts /\ booted' = booted
  /\ SingleOwner /\ node.role = "owner" => req # ERPS_REQ_RAPS_NR_RB
  /\ \E x : /\ Readied(x, node, l, req)
            /\ \/ /\ node' = x
                  /\ ~RequestAccepted(node, req) \/ req = ERPS_REQ_CLEAR_SF
               \/ /\ booted /\ RequestAccepted(node, req)
                  /\ node'.ok /\ Effect(node', x, l, req)

LEMMA FineCases ==
  ASSUME Faults = {NoFault}, TypeOK, BeforeBoot, [Next]_vars
  PROVE  \/ NodeInit(NoFault, NoFault)
         \/ \E l \in Port, req \in Posts : FinePost(l, req)
         \/ QuietStep
<1>1. InitStep => NodeInit(NoFault, NoFault)
  BY DEF InitStep
<1>2. ASSUME NEW l \in Port, NEW req \in Posts, NEW e \in Faults, PostStep(l, req, e)
      PROVE  FinePost(l, req)
  <2>1. PICK x : /\ Readied(x, node, l, req)
                 /\ \/ /\ node' = x
                       /\ ~RequestAccepted(node, req) \/ req = ERPS_REQ_CLEAR_SF
                    \/ /\ RequestAccepted(node, req) /\ Result(node', x, l, req, e)
                       /\ \A sync, fine : /\ sync => e.vlan = {}
                                          /\ fine => e = NoFault
                                          /\ Kept(x, sync, fine)
                                          => Kept(node', sync, fine)
    BY <1>2 DEF PostStep
  <2>2. ASSUME RequestAccepted(node, req) PROVE booted
    BY <1>2, <2>2 DEF PostStep, BeforeBoot, RequestAccepted, AdminRequest, Posts,
                      Request, ERPS_REQ_CLEAR, ERPS_REQ_SF, ERPS_REQ_RAPS_NR
  <2>3. Kept(x, FALSE, TRUE)
    BY <2>1 DEF Readied, Kept
  <2>4. ASSUME Result(node', x, l, req, e),
               \A sync, fine : /\ sync => e.vlan = {}
                               /\ fine => e = NoFault
                               /\ Kept(x, sync, fine)
                               => Kept(node', sync, fine)
        PROVE  node'.ok /\ Effect(node', x, l, req)
    <3>1. Kept(node', FALSE, TRUE)
      BY <2>3, <2>4
    <3> QED
      BY <2>4, <3>1 DEF Kept, Result
  <2> QED
    BY <1>2, <2>1, <2>2, <2>4 DEF FinePost, PostStep
<1> QED
  BY <1>1, <1>2, StepCases

(* Initialization that does not fail.                                      *)
LEMMA FineInit ==
  ASSUME Faults = {NoFault}, TypeOK, BeforeBoot, NodeInit(NoFault, NoFault)
  PROVE  /\ booted' /\ node' \in Node /\ node'.role = node.role
         /\ node'.ok /\ node'.cb /\ node'.state = "PENDING"
         /\ node'.up \subseteq node'.tx
         /\ node'.pdu \in {node.pdu, [rs |-> "NR", status |-> {}]}
         /\ node'.topreq \in {ERPS_REQ_INVALID} \cup TimerRunning
BY InitOutcome

LEMMA AllWellStep ==
  ASSUME Faults = {NoFault}, TypeOK, BeforeBoot, AllWell, [Next]_vars
  PROVE  AllWell'
<1>1. CASE NodeInit(NoFault, NoFault)
  BY <1>1, FineInit DEF AllWell
<1>2. ASSUME NEW l \in Port, NEW req \in Posts, FinePost(l, req)
      PROVE  AllWell'
  <2>1. PICK x : /\ Readied(x, node, l, req)
                 /\ node' = x \/ (booted /\ node'.ok /\ Effect(node', x, l, req))
    BY <1>2 DEF FinePost
  <2>2. CASE node' = x
    BY <1>2, <2>1, <2>2 DEF FinePost, Readied, AllWell
  <2>3. CASE booted /\ node'.ok /\ Effect(node', x, l, req)
    <3>1. x.cb /\ x.state # "UNINIT"
      BY <2>1, <2>3 DEF Readied, AllWell
    <3>2. node'.state # "UNINIT"
      BY <2>3, <3>1
      DEF Effect, Untouched, FollowsInIdle, CutsHere, CutsMore, OpensPorts,
          YieldsPorts, StartsWaiting, DropsOrder, EndsWaiting, EndsWithout, Same,
          Local, SwitchState
    <3> QED
      BY <2>3, <3>1, <3>2 DEF Effect, Base, AllWell
  <2> QED
    BY <2>1, <2>2, <2>3
<1>3. CASE QuietStep
  BY <1>3 DEF QuietStep, AllWell, Same
<1> QED
  BY <1>1, <1>2, <1>3, FineCases

LEMMA AllWellAlways ==
  ASSUME Faults = {NoFault}
  PROVE  Spec => []AllWell
<1>1. Init => AllWell
  BY DEF Init, AllWell, ERPS_NODE_INIT
<1>2. TypeOK /\ BeforeBoot /\ AllWell /\ [Next]_vars => AllWell'
  BY AllWellStep
<1> QED
  BY <1>1, <1>2, TypeCorrect, BeforeBootAlways, PTL DEF Spec

-----------------------------------------------------------------------------
(* A revertive owner that waits in PENDING with a port blocked always has  *)
(* a timer running that ends the wait, and no local request holds it there.*)
THEOREM WaitArmed ==
  ASSUME Faults = {NoFault}, SingleOwner
  PROVE  Spec => []ReversionArmed
<1>1. Init => ReversionArmed
  BY DEF Init, ReversionArmed, WaitTimed, PendingHasNoLocalRequest, ERPS_NODE_INIT
<1>2. TypeOK /\ BeforeBoot /\ TopRequestLasts /\ TimersOnlyWhileReverting
        /\ AllWell' /\ ReversionArmed /\ [Next]_vars => ReversionArmed'
  BY WaitStaysArmed DEF AllWell, ReversionArmed, ExpiryRefused
<1> QED
  BY <1>1, <1>2, TypeCorrect, BeforeBootAlways, TopRequestLastsAlways, TimersCorrect,
     AllWellAlways, PTL DEF Spec

(* The idle owner keeps announcing on every interface that is up that the  *)
(* RPL is blocked.                                                         *)
THEOREM OwnerAnnounces ==
  ASSUME Faults = {NoFault}, SingleOwner
  PROVE  Spec => []OwnerAnnouncesRplBlocked
<1>1. Init => OwnerAnnouncesRplBlocked
  BY DEF Init, OwnerAnnouncesRplBlocked, ERPS_NODE_INIT
<1>2. ASSUME TypeOK, BeforeBoot, AllWell, OwnerAnnouncesRplBlocked, [Next]_vars
      PROVE  OwnerAnnouncesRplBlocked'
  <2> DEFINE Announces(n) == n.pdu.rs = "NR" /\ "RB" \in n.pdu.status /\ n.up \subseteq n.tx
  <2> SUFFICES ASSUME node'.state = "IDLE", node'.role = "owner"
               PROVE  Announces(node')
    BY DEF OwnerAnnouncesRplBlocked, erps_node_is_rpl_owner
  <2>0. node.state = "IDLE" /\ node.role = "owner" => Announces(node)
    BY <1>2 DEF OwnerAnnouncesRplBlocked, erps_node_is_rpl_owner
  <2>1. CASE NodeInit(NoFault, NoFault)
    BY <1>2, <2>1, FineInit
  <2>2. ASSUME NEW l \in Port, NEW req \in Posts, FinePost(l, req)
        PROVE  Announces(node')
    <3>1. PICK x : /\ Readied(x, node, l, req)
                   /\ node' = x \/ Effect(node', x, l, req)
      BY <2>2 DEF FinePost
    <3>2. /\ x.role = node.role /\ x.state = node.state /\ x.pdu = node.pdu
          /\ x.tx = node.tx /\ x.up \subseteq node.up
      BY <3>1 DEF Readied
    <3>3. x.state = "IDLE" /\ x.role = "owner" => Announces(x)
      BY <2>0, <3>2
    <3>4. CASE Effect(node', x, l, req)
      <4>1. x.role = "owner" /\ HasRpl(x) /\ req # ERPS_REQ_RAPS_NR_RB
            /\ node'.up = x.up
        BY <2>2, <3>2, <3>4 DEF Effect, Base, HasRpl, FinePost
      <4>2. CASE Untouched(node', x, req)
        BY <3>3, <4>1, <4>2 DEF Untouched, Same, SameAir, SamePdu
      <4>3. CASE EndsWaiting(node', x, req)
        BY <4>1, <4>3 DEF EndsWaiting
      <4>4. /\ ~FollowsInIdle(node', x, req) /\ ~YieldsPorts(node', x, req)
            /\ ~EndsWithout(node', x, req)
        BY <4>1 DEF FollowsInIdle, YieldsPorts, EndsWithout, Same
      <4>5. /\ ~CutsHere(node', x, l, req) /\ ~CutsMore(node', x, l, req)
            /\ ~OpensPorts(node', x, req) /\ ~StartsWaiting(node', x, req)
            /\ ~DropsOrder(node', x, req)
        BY DEF CutsHere, CutsMore, OpensPorts, StartsWaiting, DropsOrder, Same,
               Local, SwitchState
      <4> QED
        BY <3>4, <4>2, <4>3, <4>4, <4>5 DEF Effect
    <3> QED
      BY <3>1, <3>3, <3>4
  <2>3. CASE QuietStep
    <3>1. node.state = "IDLE" /\ node.role = "owner" /\ node.cb
      BY <1>2, <2>3 DEF QuietStep, Same, SameTimers, AllWell, BeforeBoot
    <3> QED
      BY <2>0, <2>3, <3>1 DEF QuietStep, SamePdu
  <2> QED
    BY <1>2, <2>1, <2>2, <2>3, FineCases
<1>3. TypeOK /\ BeforeBoot /\ AllWell /\ OwnerAnnouncesRplBlocked /\ [Next]_vars
        => OwnerAnnouncesRplBlocked'
  BY <1>2
<1> QED
  BY <1>1, <1>3, TypeCorrect, BeforeBootAlways, AllWellAlways, PTL DEF Spec

(* Nobody but the owner ever says RB: the neighbour, which blocks the RPL  *)
(* too, cannot be told to by a CLEAR, for no request that a CLEAR ends is  *)
(* in effect while it waits.                                               *)
THEOREM OwnerOnlySaysRb ==
  ASSUME Faults = {NoFault}, SingleOwner
  PROVE  Spec => []OnlyOwnerAnnouncesRb
<1>1. Init => OnlyOwnerAnnouncesRb
  BY DEF Init, OnlyOwnerAnnouncesRb, ERPS_NODE_INIT
<1>2. ASSUME TypeOK, BeforeBoot, AllWell, ReversionArmed, OnlyOwnerAnnouncesRb, [Next]_vars
      PROVE  OnlyOwnerAnnouncesRb'
  <2> SUFFICES ASSUME "RB" \in node'.pdu.status, node'.role # "owner" PROVE FALSE
    BY DEF OnlyOwnerAnnouncesRb, erps_node_is_rpl_owner
  <2>0. node.role = "owner" \/ "RB" \notin node.pdu.status
    BY <1>2 DEF OnlyOwnerAnnouncesRb, erps_node_is_rpl_owner
  <2>1. ~NodeInit(NoFault, NoFault)
    BY <1>2, <2>0, FineInit
  <2>2. ASSUME NEW l \in Port, NEW req \in Posts, FinePost(l, req)
        PROVE  FALSE
    <3>1. PICK x : /\ Readied(x, node, l, req)
                   /\ \/ node' = x
                      \/ RequestAccepted(node, req) /\ Effect(node', x, l, req)
      BY <2>2 DEF FinePost
    <3>2. x.role = node.role /\ x.state = node.state /\ x.pdu = node.pdu
      BY <3>1 DEF Readied
    <3>3. CASE node' = x
      BY <2>0, <3>2, <3>3
    <3>4. CASE RequestAccepted(node, req) /\ Effect(node', x, l, req)
      <4>1. node.role # "owner" /\ x.role # "owner" /\ "RB" \notin x.pdu.status
        BY <2>0, <3>2, <3>4 DEF Effect, Base
      <4>2. ~EndsWaiting(node', x, req)
        <5>1. SUFFICES ASSUME EndsWaiting(node', x, req) PROVE FALSE
          OBVIOUS
        <5>2. req = ERPS_REQ_CLEAR /\ node.state = "PENDING"
          BY <3>2, <4>1, <5>1 DEF EndsWaiting, erps_node_is_rpl_owner
        <5>3. node.topreq \in {ERPS_REQ_FS, ERPS_REQ_MS}
          BY <3>4, <4>1, <5>2 DEF RequestAccepted, erps_local_clear_valid,
                                  erps_node_is_rpl_owner
        <5> QED
          BY <1>2, <5>2, <5>3 DEF ReversionArmed, PendingHasNoLocalRequest
      <4>3. /\ ~Untouched(node', x, req) /\ ~FollowsInIdle(node', x, req)
            /\ ~OpensPorts(node', x, req) /\ ~YieldsPorts(node', x, req)
            /\ ~EndsWithout(node', x, req)
        BY <4>1 DEF Untouched, FollowsInIdle, OpensPorts, YieldsPorts, EndsWithout,
                    SameAir, SamePdu
      <4>4. /\ ~CutsHere(node', x, l, req) /\ ~CutsMore(node', x, l, req)
            /\ ~StartsWaiting(node', x, req) /\ ~DropsOrder(node', x, req)
        BY <4>1 DEF CutsHere, CutsMore, StartsWaiting, DropsOrder, SameAir, SamePdu
      <4> QED
        BY <3>4, <4>2, <4>3, <4>4 DEF Effect
    <3> QED
      BY <3>1, <3>3, <3>4
  <2>3. ~QuietStep
    BY <2>0 DEF QuietStep, SamePdu, Same, SameTimers
  <2> QED
    BY <1>2, <2>1, <2>2, <2>3, FineCases
<1>3. TypeOK /\ BeforeBoot /\ AllWell /\ ReversionArmed /\ OnlyOwnerAnnouncesRb
        /\ [Next]_vars => OnlyOwnerAnnouncesRb'
  BY <1>2
<1> QED
  BY <1>1, <1>3, TypeCorrect, BeforeBootAlways, AllWellAlways, WaitArmed, PTL DEF Spec

-----------------------------------------------------------------------------
(* While a forced switch is the top request the node is in FORCED_SWITCH,  *)
(* a port is blocked and R-APS(FS) goes out on every interface that is up. *)
THEOREM ForcedSwitchHolds ==
  ASSUME Faults = {NoFault}
  PROVE  Spec => []ForcedSwitchInForce
<1> DEFINE Forced(n) == /\ n.state = "FORCED_SWITCH" /\ n.blocked # {}
                        /\ n.pdu.rs = "FS" /\ n.up \subseteq n.tx
<1>0. ERPS_REQ_FS \notin {ERPS_REQ_INVALID} \cup TimerRunning /\ ERPS_REQ_FS # ERPS_REQ_CLEAR
        /\ ERPS_REQ_FS # ERPS_REQ_CLEAR_SF
  BY DEF TimerRunning, ERPS_REQ_INVALID, ERPS_REQ_FS, ERPS_REQ_CLEAR, ERPS_REQ_CLEAR_SF,
         ERPS_REQ_WTR_RUNNING, ERPS_REQ_WTB_RUNNING
<1>1. Init => ForcedSwitchInForce
  BY <1>0 DEF Init, ForcedSwitchInForce, ERPS_NODE_INIT
<1>2. ASSUME TypeOK, BeforeBoot, AllWell, ForcedSwitchInForce, [Next]_vars
      PROVE  ForcedSwitchInForce'
  <2> SUFFICES ASSUME node'.topreq = ERPS_REQ_FS PROVE Forced(node')
    BY DEF ForcedSwitchInForce
  <2>0. node.topreq = ERPS_REQ_FS => Forced(node)
    BY <1>2 DEF ForcedSwitchInForce
  <2>1. CASE NodeInit(NoFault, NoFault)
    BY <1>0, <1>2, <2>1, FineInit
  <2>2. ASSUME NEW l \in Port, NEW req \in Posts, FinePost(l, req)
        PROVE  Forced(node')
    <3>1. PICK x : /\ Readied(x, node, l, req)
                   /\ \/ /\ node' = x
                         /\ ~RequestAccepted(node, req) \/ req = ERPS_REQ_CLEAR_SF
                      \/ /\ booted /\ RequestAccepted(node, req)
                         /\ Effect(node', x, l, req)
      BY <2>2 DEF FinePost
    <3>2. /\ x.state = node.state /\ x.blocked = node.blocked /\ x.pdu = node.pdu
          /\ x.tx = node.tx /\ x.up \subseteq node.up
      BY <3>1 DEF Readied
    <3>3. ASSUME node' = x, ~RequestAccepted(node, req) \/ req = ERPS_REQ_CLEAR_SF
          PROVE  Forced(node')
      <4>1. x.topreq = ERPS_REQ_FS
        BY <3>3
      <4>2. ~RequestAccepted(node, req)
        BY <1>0, <3>1, <3>3, <4>1 DEF Readied
      <4>3. node.topreq = ERPS_REQ_FS
        BY <3>1, <4>1, <4>2 DEF Readied
      <4> QED
        BY <2>0, <3>2, <3>3, <4>3
    <3>4. ASSUME booted, RequestAccepted(node, req), Effect(node', x, l, req)
          PROVE  Forced(node')
      <4>1. node'.topreq \in {x.topreq} \cup TimerRunning /\ node'.up = x.up
        BY <3>4
        DEF Effect, Base, Untouched, FollowsInIdle, CutsHere, CutsMore, OpensPorts,
            YieldsPorts, StartsWaiting, DropsOrder, EndsWaiting, EndsWithout, Same,
            SameTimers
      <4>2. req = ERPS_REQ_FS
        BY <1>0, <3>1, <3>4, <4>1 DEF Readied
      <4>3. x.state # "UNINIT"
        BY <1>2, <3>2, <3>4 DEF AllWell
      <4>4. CutsHere(node', x, l, req) \/ CutsMore(node', x, l, req)
        BY <3>4, <4>2, <4>3
        DEF Effect, Untouched, FollowsInIdle, OpensPorts, YieldsPorts, StartsWaiting,
            DropsOrder, EndsWaiting, EndsWithout, Expiries, ERPS_REQ_FS,
            ERPS_REQ_RAPS_NR_RB, ERPS_REQ_RAPS_FS, ERPS_REQ_RAPS_SF, ERPS_REQ_RAPS_MS,
            ERPS_REQ_RAPS_NR, ERPS_REQ_CLEAR, ERPS_REQ_CLEAR_SF, ERPS_REQ_WTR_EXPIRES,
            ERPS_REQ_WTB_EXPIRES
      <4>5. SwitchPdu(req) = "FS" /\ SwitchState(req) = "FORCED_SWITCH"
        BY <4>2 DEF SwitchPdu, SwitchState, ERPS_REQ_FS, ERPS_REQ_SF, ERPS_REQ_MS
      <4>6. CASE CutsHere(node', x, l, req)
        BY <4>1, <4>5, <4>6 DEF CutsHere
      <4>7. CASE CutsMore(node', x, l, req)
        BY <4>1, <4>7 DEF CutsMore, Same
      <4> QED
        BY <4>4, <4>6, <4>7
    <3> QED
      BY <3>1, <3>3, <3>4
  <2>3. CASE QuietStep
    <3>1. node.topreq = ERPS_REQ_FS /\ node.cb
      BY <1>0, <1>2, <2>3 DEF QuietStep, Same, SameTimers, AllWell, BeforeBoot
    <3> QED
      BY <2>0, <2>3, <3>1 DEF QuietStep, SamePdu, Same, SamePorts
  <2> QED
    BY <1>2, <2>1, <2>2, <2>3, FineCases
<1>3. TypeOK /\ BeforeBoot /\ AllWell /\ ForcedSwitchInForce /\ [Next]_vars
        => ForcedSwitchInForce'
  BY <1>2
<1> QED
  BY <1>1, <1>3, TypeCorrect, BeforeBootAlways, AllWellAlways, PTL DEF Spec

(* While a local signal fail is the top request in PROTECTION, a failed    *)
(* port is blocked and R-APS(SF) goes out on every interface that is up.   *)
THEOREM SignalFailHolds ==
  ASSUME Faults = {NoFault}
  PROVE  Spec => []SignalFailAdvertised
<1> DEFINE Failing(n) == n.topreq = ERPS_REQ_SF /\ n.state = "PROTECTION"
           Told(n) == /\ n.failed \cap n.blocked # {}
                      /\ n.pdu.rs = "SF" /\ n.up \subseteq n.tx
<1>0. ERPS_REQ_SF \notin {ERPS_REQ_INVALID} \cup TimerRunning /\ ERPS_REQ_SF # ERPS_REQ_CLEAR
        /\ ERPS_REQ_SF # ERPS_REQ_CLEAR_SF
  BY DEF TimerRunning, ERPS_REQ_INVALID, ERPS_REQ_SF, ERPS_REQ_CLEAR, ERPS_REQ_CLEAR_SF,
         ERPS_REQ_WTR_RUNNING, ERPS_REQ_WTB_RUNNING
<1>1. Init => SignalFailAdvertised
  BY DEF Init, SignalFailAdvertised, ERPS_NODE_INIT
<1>2. ASSUME TypeOK, BeforeBoot, AllWell, SignalFailAdvertised, [Next]_vars
      PROVE  SignalFailAdvertised'
  <2> SUFFICES ASSUME Failing(node') PROVE Told(node')
    BY DEF SignalFailAdvertised
  <2>0. Failing(node) => Told(node)
    BY <1>2 DEF SignalFailAdvertised
  <2>1. CASE NodeInit(NoFault, NoFault)
    BY <1>2, <2>1, FineInit
  <2>2. ASSUME NEW l \in Port, NEW req \in Posts, FinePost(l, req)
        PROVE  Told(node')
    <3>1. PICK x : /\ Readied(x, node, l, req)
                   /\ \/ /\ node' = x
                         /\ ~RequestAccepted(node, req) \/ req = ERPS_REQ_CLEAR_SF
                      \/ /\ booted /\ RequestAccepted(node, req)
                         /\ Effect(node', x, l, req)
      BY <2>2 DEF FinePost
    <3>2. /\ x.state = node.state /\ x.blocked = node.blocked /\ x.pdu = node.pdu
          /\ x.tx = node.tx /\ x.up \subseteq node.up
      BY <3>1 DEF Readied
    <3>3. ASSUME node' = x, ~RequestAccepted(node, req) \/ req = ERPS_REQ_CLEAR_SF
          PROVE  Told(node')
      <4>1. node.topreq = ERPS_REQ_SF /\ x.failed = node.failed
        BY <1>0, <3>1, <3>3 DEF Readied
      <4> QED
        BY <2>0, <3>2, <3>3, <4>1
    <3>4. ASSUME booted, RequestAccepted(node, req), Effect(node', x, l, req)
          PROVE  Told(node')
      <4>1. node'.topreq \in {x.topreq} \cup TimerRunning /\ node'.up = x.up
        BY <3>4
        DEF Effect, Base, Untouched, FollowsInIdle, CutsHere, CutsMore, OpensPorts,
            YieldsPorts, StartsWaiting, DropsOrder, EndsWaiting, EndsWithout, Same,
            SameTimers
      <4>2. req = ERPS_REQ_SF
        BY <1>0, <3>1, <3>4, <4>1 DEF Readied
      <4>3. x.state # "UNINIT" /\ l \in x.failed
        BY <1>2, <3>1, <3>2, <3>4, <4>2 DEF AllWell, Readied
      <4>4. CutsHere(node', x, l, req)
        BY <3>4, <4>2, <4>3
        DEF Effect, Untouched, FollowsInIdle, CutsMore, OpensPorts, YieldsPorts,
            StartsWaiting, DropsOrder, EndsWaiting, EndsWithout, Expiries, Same,
            ERPS_REQ_FS, ERPS_REQ_SF,
            ERPS_REQ_RAPS_NR_RB, ERPS_REQ_RAPS_FS, ERPS_REQ_RAPS_SF, ERPS_REQ_RAPS_MS,
            ERPS_REQ_RAPS_NR, ERPS_REQ_CLEAR, ERPS_REQ_CLEAR_SF, ERPS_REQ_WTR_EXPIRES,
            ERPS_REQ_WTB_EXPIRES
      <4>5. l # erps_node_other_link(l) /\ SwitchPdu(req) = "SF"
        <5>1. l # erps_node_other_link(l)
          BY <2>2 DEF erps_node_other_link, Port
        <5>2. SwitchPdu(req) = "SF"
          BY <4>2 DEF SwitchPdu, ERPS_REQ_SF, ERPS_REQ_FS, ERPS_REQ_MS
        <5> QED
          BY <5>1, <5>2
      <4>6. /\ l \in node'.failed /\ l \in node'.blocked
            /\ node'.pdu.rs = "SF" /\ node'.up \subseteq node'.tx
        BY <4>1, <4>3, <4>4, <4>5 DEF CutsHere
      <4> QED
        BY <4>6
    <3> QED
      BY <3>1, <3>3, <3>4
  <2>3. CASE QuietStep
    <3>1. Failing(node) /\ node.cb
      BY <1>2, <2>3 DEF QuietStep, Same, SameTimers, AllWell, BeforeBoot
    <3> QED
      BY <2>0, <2>3, <3>1 DEF QuietStep, SamePdu, Same, SamePorts
  <2> QED
    BY <1>2, <2>1, <2>2, <2>3, FineCases
<1>3. TypeOK /\ BeforeBoot /\ AllWell /\ SignalFailAdvertised /\ [Next]_vars
        => SignalFailAdvertised'
  BY <1>2
<1> QED
  BY <1>1, <1>3, TypeCorrect, BeforeBootAlways, AllWellAlways, PTL DEF Spec

(* A blocked port that is neither marked failed nor the RPL stays under the*)
(* protocol: its node transmits, so that the others can release it.        *)
THEOREM BlockedAdvertised ==
  ASSUME Faults = {NoFault}, SingleOwner
  PROVE  Spec => []BlockedPortAdvertised
<1> DEFINE Safe(n) == \A p \in n.blocked \ n.failed :
                        n.up \subseteq n.tx \/ (HasRpl(n) /\ p = Rpl)
<1>1. Init => BlockedPortAdvertised
  BY DEF Init, BlockedPortAdvertised, ERPS_NODE_INIT
<1>2. ASSUME TypeOK, BeforeBoot, AllWell, IdleRingShape, BlockedPortAdvertised, [Next]_vars
      PROVE  BlockedPortAdvertised'
  <2> SUFFICES ASSUME node'.cb PROVE Safe(node')
    BY DEF BlockedPortAdvertised, HasRpl
  <2>0. node.cb => Safe(node)
    BY <1>2 DEF BlockedPortAdvertised
  <2>1. CASE NodeInit(NoFault, NoFault)
    BY <1>2, <2>1, FineInit
  <2>2. ASSUME NEW l \in Port, NEW req \in Posts, FinePost(l, req)
        PROVE  Safe(node')
    <3>1. PICK x : /\ Readied(x, node, l, req)
                   /\ node' = x \/ Effect(node', x, l, req)
      BY <2>2 DEF FinePost
    <3>2. /\ x.state = node.state /\ x.blocked = node.blocked /\ x.role = node.role
          /\ x.tx = node.tx /\ x.up \subseteq node.up
          /\ node.failed \subseteq x.failed /\ (x.cb <=> node.cb) /\ x \in Node
      BY <3>1 DEF Readied
    <3>3. node.cb
      BY <3>1, <3>2 DEF Effect, Base
    <3>4. Safe(x)
      BY <2>0, <3>2, <3>3 DEF HasRpl
    <3>5. CASE Effect(node', x, l, req)
      <4>1. /\ node'.role = x.role /\ node'.up = x.up /\ (HasRpl(node') <=> HasRpl(x))
            /\ x.blocked \subseteq Port
        BY <3>2, <3>5 DEF Effect, Base, HasRpl, Node
      <4>2. CASE CutsHere(node', x, l, req) \/ CutsMore(node', x, l, req)
                   \/ DropsOrder(node', x, req) \/ EndsWaiting(node', x, req)
        BY <4>1, <4>2 DEF CutsHere, CutsMore, DropsOrder, EndsWaiting
      <4>3. CASE OpensPorts(node', x, req) \/ YieldsPorts(node', x, req)
        BY <4>3 DEF OpensPorts, YieldsPorts
      <4>4. CASE Untouched(node', x, req)
        BY <3>4, <4>1, <4>4 DEF Untouched, SamePorts, SameAir
      <4>5. CASE StartsWaiting(node', x, req)
        BY <3>4, <4>1, <4>5 DEF StartsWaiting, SamePorts, SameAir
      <4>6. CASE FollowsInIdle(node', x, req)
        <5>1. CASE HasRpl(x)
          BY <4>1, <4>6, <5>1 DEF FollowsInIdle, Port, Rpl
        <5>2. CASE ~HasRpl(x)
          BY <1>2, <3>2, <4>6, <5>2 DEF FollowsInIdle, SamePorts, IdleRingShape, HasRpl
        <5> QED
          BY <5>1, <5>2
      <4>7. CASE EndsWithout(node', x, req)
        <5>1. CASE SamePorts(node', x) /\ node'.tx = x.tx
          BY <3>4, <4>1, <4>7, <5>1 DEF SamePorts
        <5>2. CASE x.role = "none" /\ node'.blocked = {}
          BY <5>2
        <5>3. CASE x.role = "nbr" /\ node'.blocked = {Rpl}
          BY <4>1, <5>3 DEF HasRpl
        <5> QED
          BY <4>7, <5>1, <5>2, <5>3 DEF EndsWithout
      <4> QED
        BY <3>5, <4>2, <4>3, <4>4, <4>5, <4>6, <4>7 DEF Effect
    <3> QED
      BY <3>1, <3>4, <3>5
  <2>3. CASE QuietStep
    <3>1. node.cb /\ Safe(node) /\ node'.role = node.role
      BY <2>0, <2>3 DEF QuietStep, Same, SameTimers
    <3> QED
      BY <2>3, <3>1 DEF QuietStep, SamePorts, HasRpl
  <2> QED
    BY <1>2, <2>1, <2>2, <2>3, FineCases
<1>3. TypeOK /\ BeforeBoot /\ AllWell /\ IdleRingShape /\ BlockedPortAdvertised
        /\ [Next]_vars => BlockedPortAdvertised'
  BY <1>2
<1> QED
  BY <1>1, <1>3, TypeCorrect, BeforeBootAlways, AllWellAlways, IdleShapeKept, PTL DEF Spec
==============================================================================
