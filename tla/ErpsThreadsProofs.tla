-------------------------- MODULE ErpsThreadsProofs --------------------------
(***************************************************************************)
(* Proofs about ErpsThreads, for any requests heard and commanded and any  *)
(* order of the threads' steps.  A post is given what the work queue says  *)
(* of the timers, and that is more than TimerInv allows: an item whose     *)
(* handler runs counts as pending in every state.                          *)
(***************************************************************************)
EXTENDS ErpsThreads, ErpsFsmProofs

K == INSTANCE KWorkProofs

-----------------------------------------------------------------------------
(***************************************************************************)
(* Posts that find a stale timer.                                          *)
(***************************************************************************)

(* m is n after a handler: a timer is started on the way to PENDING only,  *)
(* and recorded as top request only when it is.                            *)
Starts(m, n) ==
  /\ m \in Node
  /\ m.wtr => n.wtr \/ m.state = "PENDING"
  /\ m.wtb => n.wtb \/ m.state = "PENDING"
  /\ m.topreq = ERPS_REQ_WTR_RUNNING =>
       n.topreq = ERPS_REQ_WTR_RUNNING \/ (m.wtr /\ ~n.wtr)
  /\ m.topreq = ERPS_REQ_WTB_RUNNING =>
       n.topreq = ERPS_REQ_WTB_RUNNING \/ (m.wtb /\ ~n.wtb)

(* Handlers that leave the timers alone, or stop them, start none.         *)
LEMMA QuietStarts ==
  ASSUME NEW n \in Node, NEW m
  PROVE  /\ Quiet(m, n) => Starts(m, n)
         /\ \A next : Moves(m, n, next) => Starts(m, n)
BY DEF Quiet, Same, SameTimers, Moves, Starts

(* A timer that is stopped first may run afterwards only if it is started. *)
LEMMA StopsStart ==
  ASSUME NEW n \in Node, NEW m, NEW k \in Node
  PROVE  /\ Starts(m, n) /\ m.topreq = n.topreq => Starts(OwnerStopsTimers(m), n)
         /\ Starts(m, OwnerStopsTimers(k)) /\ m.topreq = k.topreq => Starts(m, k)
         /\ Starts(m, [k EXCEPT !.wtr = FALSE]) /\ m.topreq = k.topreq => Starts(m, k)
         /\ Starts(m, [k EXCEPT !.wtb = FALSE]) /\ m.topreq = k.topreq => Starts(m, k)
<1>1. ASSUME NEW x \in Node
      PROVE  /\ OwnerStopsTimers(x) \in Node
             /\ OwnerStopsTimers(x).wtr => x.wtr
             /\ OwnerStopsTimers(x).wtb => x.wtb
             /\ OwnerStopsTimers(x).topreq = x.topreq
             /\ OwnerStopsTimers(x).state = x.state
  <2>1. OwnerStopsTimers(x) \in Node
    BY SimpleTypes
  <2>2. \/ OwnerStopsTimers(x) = x
        \/ OwnerStopsTimers(x) = [x EXCEPT !.wtr = FALSE, !.wtb = FALSE]
    BY DEF OwnerStopsTimers
  <2>3. ASSUME OwnerStopsTimers(x) = [x EXCEPT !.wtr = FALSE, !.wtb = FALSE]
        PROVE  /\ ~OwnerStopsTimers(x).wtr /\ ~OwnerStopsTimers(x).wtb
               /\ OwnerStopsTimers(x).topreq = x.topreq
               /\ OwnerStopsTimers(x).state = x.state
    BY <2>3 DEF Node
  <2> QED
    BY <2>1, <2>2, <2>3
<1>2. ASSUME Starts(m, n), m.topreq = n.topreq PROVE Starts(OwnerStopsTimers(m), n)
  <2>1. m \in Node
    BY <1>2 DEF Starts
  <2> QED
    BY <1>1, <1>2, <2>1 DEF Starts
<1>3. ASSUME NEW x \in Node, x.wtr => k.wtr, x.wtb => k.wtb,
             Starts(m, x), m.topreq = k.topreq
      PROVE  Starts(m, k)
  BY <1>3 DEF Starts
<1>4. Starts(m, [k EXCEPT !.wtr = FALSE]) /\ m.topreq = k.topreq => Starts(m, k)
  <2> DEFINE x == [k EXCEPT !.wtr = FALSE]
  <2>1. x \in Node
    BY TimerTypes
  <2>2. ~x.wtr
    BY DEF Node
  <2>3. x.wtb = k.wtb
    BY DEF Node
  <2> QED
    BY <1>3, <2>1, <2>2, <2>3
<1>5. Starts(m, [k EXCEPT !.wtb = FALSE]) /\ m.topreq = k.topreq => Starts(m, k)
  <2> DEFINE x == [k EXCEPT !.wtb = FALSE]
  <2>1. x \in Node
    BY TimerTypes
  <2>2. ~x.wtb
    BY DEF Node
  <2>3. x.wtr = k.wtr
    BY DEF Node
  <2> QED
    BY <1>3, <2>1, <2>2, <2>3
<1> QED
  BY <1>1, <1>2, <1>3, <1>4, <1>5

(* The owner's timers, started before the transition to PENDING.           *)
LEMMA StartsOnTheWay ==
  ASSUME NEW n \in Node, NEW k, Quiet(k, n)
  PROVE  /\ Starts(erps_fsm_transition(OwnerStartsWtr(k), "PENDING"), n)
         /\ Starts(erps_fsm_transition(OwnerStartsWtb(k), "PENDING"), n)
<1>1. k \in Node /\ SameTimers(k, n) /\ k.state = n.state
  BY DEF Quiet, Same
<1>2. Starts(erps_fsm_transition(k, "PENDING"), n)
  BY <1>1 DEF Starts, SameTimers, erps_fsm_transition, Node, State
<1>3. ASSUME NEW req \in {ERPS_REQ_WTR_RUNNING, ERPS_REQ_WTB_RUNNING}, k.ok,
             NEW r, r = erps_fsm_resolve_req_prio(k, req)
      PROVE  /\ r \in Node /\ r.ok /\ (r.wtr <=> k.wtr) /\ (r.wtb <=> k.wtb)
             /\ r.topreq \in {req, k.topreq} /\ r.state = k.state
  <2>1. r = k \/ r = [k EXCEPT !.topreq = req]
    BY <1>3 DEF erps_fsm_resolve_req_prio, LocalRequest
  <2> QED
    BY <1>1, <1>3, <2>1, ResolveType DEF Node
<1>4. ASSUME k.ok, ~k.wtr, RevertiveOwner(k)
      PROVE  Starts(erps_fsm_transition(OwnerStartsWtr(k), "PENDING"), n)
  <2> DEFINE r == erps_fsm_resolve_req_prio(k, ERPS_REQ_WTR_RUNNING)
             m == erps_fsm_transition(OwnerStartsWtr(k), "PENDING")
  <2>1. OwnerStartsWtr(k) = [r EXCEPT !.wtr = TRUE]
    BY <1>4 DEF OwnerStartsWtr, erps_node_start_wtr
  <2>2. /\ r \in Node /\ r.ok /\ (r.wtb <=> k.wtb)
        /\ r.topreq \in {ERPS_REQ_WTR_RUNNING, k.topreq}
    BY <1>3, <1>4
  <2> HIDE DEF r
  <2>3. /\ m \in Node /\ m.state = "PENDING" /\ m.wtr /\ m.topreq = r.topreq
        /\ m.wtb = r.wtb
    BY <2>1, <2>2 DEF erps_fsm_transition, Node, State
  <2> QED
    BY <1>1, <1>4, <2>2, <2>3
    DEF Starts, SameTimers, ERPS_REQ_WTR_RUNNING, ERPS_REQ_WTB_RUNNING
<1>5. ASSUME k.ok, ~k.wtb, RevertiveOwner(k)
      PROVE  Starts(erps_fsm_transition(OwnerStartsWtb(k), "PENDING"), n)
  <2> DEFINE r == erps_fsm_resolve_req_prio(k, ERPS_REQ_WTB_RUNNING)
             m == erps_fsm_transition(OwnerStartsWtb(k), "PENDING")
  <2>1. OwnerStartsWtb(k) = [r EXCEPT !.wtb = TRUE]
    BY <1>5 DEF OwnerStartsWtb, erps_node_start_wtb
  <2>2. /\ r \in Node /\ r.ok /\ (r.wtr <=> k.wtr)
        /\ r.topreq \in {ERPS_REQ_WTB_RUNNING, k.topreq}
    BY <1>3, <1>5
  <2> HIDE DEF r
  <2>3. /\ m \in Node /\ m.state = "PENDING" /\ m.wtb /\ m.topreq = r.topreq
        /\ m.wtr = r.wtr
    BY <2>1, <2>2 DEF erps_fsm_transition, Node, State
  <2> QED
    BY <1>1, <1>5, <2>2, <2>3
    DEF Starts, SameTimers, ERPS_REQ_WTR_RUNNING, ERPS_REQ_WTB_RUNNING
<1>6. /\ ~(k.ok /\ ~k.wtr /\ RevertiveOwner(k)) => OwnerStartsWtr(k) = k
      /\ ~(k.ok /\ ~k.wtb /\ RevertiveOwner(k)) => OwnerStartsWtb(k) = k
  BY DEF OwnerStartsWtr, OwnerStartsWtb, erps_node_start_wtr, erps_node_start_wtb
<1> QED
  BY <1>2, <1>4, <1>5, <1>6

(* The tables of the states in which no timer is armed.                    *)
LEMMA SwitchedPostsStart ==
  ASSUME NEW n \in Node, NEW l \in Port, NEW req, NEW id, NEW e
  PROVE  /\ Starts(erps_fsm_post_idle(n, l, req, id, e), n)
         /\ Starts(erps_fsm_post_protection(n, l, req, e), n)
         /\ Starts(erps_fsm_post_manual_switch(n, l, req, e), n)
         /\ Starts(erps_fsm_post_forced_switch(n, l, req, e), n)
<1> DEFINE a == AnnounceNoRequest(n)
<1>0. 0 \in Port
  BY DEF Port
<1>1. Quiet(n, n) /\ Quiet(a, n)
  BY QuietNodeCalls DEF Quiet, Same, SameTimers
<1> HIDE DEF a
<1>2. Starts(n, n)
  BY <1>1, QuietStarts
<1>3. /\ Starts(FsCommon(n, l, e), n) /\ Starts(RapsFsCommon(n, e), n)
      /\ Starts(SfCommon(n, l, e), n) /\ Starts(RapsSfCommon(n, e), n)
      /\ Starts(MsCommon(n, l, e), n) /\ Starts(RapsMsCommon(n, e), n)
  BY CommonMoves, QuietStarts
<1>4. Starts(erps_fsm_maybe_unblock_and_stop(n, id, e), n)
  BY QuietNodeCalls, QuietStarts
<1>5. Starts(erps_fsm_raps_nr_rb_idle(n, e), n)
  <2> DEFINE m == IF HasRpl(n) THEN erps_link_unblock(n, 0, e) ELSE n
  <2>1. Quiet(m, n)
    BY <1>0, <1>1, QuietCalls
  <2> HIDE DEF m
  <2>2. Quiet(erps_node_stop_tx(m), m)
    BY <1>0, <2>1, QuietCalls DEF Quiet
  <2>3. Quiet(erps_node_stop_tx(m), n)
    BY <2>1, <2>2, QuietChain
  <2>4. erps_fsm_raps_nr_rb_idle(n, e) \in {m, erps_node_stop_tx(m)}
    BY DEF erps_fsm_raps_nr_rb_idle, m
  <2> QED
    BY <2>1, <2>3, <2>4, QuietStarts
<1>6. Starts(erps_fsm_fs_fs(n, l, e), n)
  <2> DEFINE b == erps_link_block(n, l, e)
             t == erps_node_sched_tx(b, "FS", {})
  <2>1. Quiet(b, n)
    BY QuietCalls
  <2>2. Quiet(t, b)
    BY <2>1, QuietSchedTx DEF Quiet
  <2>3. Quiet(erps_flush_fdb(t, e), t)
    BY <1>0, <2>2, QuietCalls DEF Quiet
  <2>4. Quiet(erps_fsm_fs_fs(n, l, e), n)
    BY <2>1, <2>2, <2>3, QuietChain DEF erps_fsm_fs_fs
  <2> QED
    BY <2>4, QuietStarts
<1>7. /\ Starts(erps_fsm_transition(n, "PENDING"), n)
      /\ Starts(erps_fsm_transition(a, "MANUAL_SWITCH"), n)
  BY <1>1, TransitionMoves, QuietStarts DEF State
<1>8. /\ Starts(erps_fsm_transition(OwnerStartsWtr(n), "PENDING"), n)
      /\ Starts(erps_fsm_transition(OwnerStartsWtb(n), "PENDING"), n)
      /\ Starts(erps_fsm_transition(OwnerStartsWtr(a), "PENDING"), n)
      /\ Starts(erps_fsm_transition(OwnerStartsWtb(a), "PENDING"), n)
  BY <1>1, StartsOnTheWay
<1>9. Starts(erps_fsm_clear_common(n), n) /\ Starts(erps_fsm_clear_sf_protection(n), n)
  BY <1>7, <1>8 DEF erps_fsm_clear_common, erps_fsm_clear_sf_protection, a
<1>10. Starts(erps_fsm_raps_ms_ms(n), n)
  <2>1. ~RevertiveOwner(n) => OwnerStartsWtb(a) = a
    BY <1>1 DEF OwnerStartsWtb, RevertiveOwner, erps_node_is_rpl_owner, Quiet, Same,
                SameTimers
  <2> QED
    BY <1>2, <1>7, <1>8, <2>1 DEF erps_fsm_raps_ms_ms, a
<1>11. \A timer : Starts(RemoteNoRequest(n, req, timer), n)
  BY <1>7, <1>8 DEF RemoteNoRequest
<1>12. Starts(erps_fsm_post_idle(n, l, req, id, e), n)
  BY <1>2, <1>3, <1>4, <1>5 DEF erps_fsm_post_idle
<1>13. Starts(erps_fsm_post_protection(n, l, req, e), n)
  BY <1>2, <1>3, <1>9, <1>11 DEF erps_fsm_post_protection
<1>14. Starts(erps_fsm_post_manual_switch(n, l, req, e), n)
  BY <1>2, <1>3, <1>9, <1>10, <1>11 DEF erps_fsm_post_manual_switch
<1>15. Starts(erps_fsm_post_forced_switch(n, l, req, e), n)
  BY <1>2, <1>3, <1>6, <1>9, <1>11 DEF erps_fsm_post_forced_switch
<1> QED
  BY <1>12, <1>13, <1>14, <1>15

(* The table of PENDING, of an owner, starts no timer; an expiry that ends *)
(* PENDING has stopped the other timer.                                    *)
LEMMA PendingPostStarts ==
  ASSUME NEW n \in Node, n.role = "owner", n.state = "PENDING", NEW l \in Port,
         NEW req, NEW id, NEW e, NEW m, m = erps_fsm_post_pending(n, l, req, id, e)
  PROVE  /\ Starts(m, n)
         /\ req = ERPS_REQ_WTR_EXPIRES => ~m.wtb
         /\ req = ERPS_REQ_WTB_EXPIRES => ~m.wtr
<1> DEFINE o == OwnerStopsTimers(n)
           x == [n EXCEPT !.wtr = FALSE]
           y == [n EXCEPT !.wtb = FALSE]
<1>0. 0 \in Port
  BY DEF Port
<1>1. Quiet(n, n) /\ Starts(n, n)
  BY QuietStarts DEF Quiet, Same, SameTimers
<1>2. /\ o \in Node /\ x \in Node /\ y \in Node
      /\ o.topreq = n.topreq /\ x.topreq = n.topreq /\ y.topreq = n.topreq
      /\ ~x.wtr /\ ~y.wtb
  <2>1. o \in Node /\ x \in Node /\ y \in Node
    BY SimpleTypes, TimerTypes
  <2>2. o.topreq = n.topreq
    BY DEF OwnerStopsTimers, Node
  <2>3. x.topreq = n.topreq /\ y.topreq = n.topreq /\ ~x.wtr /\ ~y.wtb
    BY DEF Node
  <2> QED
    BY <2>1, <2>2, <2>3
<1>3. ASSUME NEW r, r.topreq = n.topreq
       PROVE  /\ Starts(r, o) \/ Starts(r, x) \/ Starts(r, y) => Starts(r, n)
              /\ Starts(r, n) => Starts(OwnerStopsTimers(r), n)
  BY <1>3, StopsStart
<1> HIDE DEF o, x, y
<1>4. ASSUME NEW k \in Node, k.topreq = n.topreq, NEW r, NEW next, Moves(r, k, next)
      PROVE  Starts(r, k) /\ r.topreq = n.topreq
  BY <1>4, QuietStarts DEF Moves, SameTimers
<1>5. /\ Starts(OwnerStopsTimers(FsCommon(n, l, e)), n)
      /\ Starts(OwnerStopsTimers(RapsFsCommon(n, e)), n)
      /\ Starts(OwnerStopsTimers(SfCommon(n, l, e)), n)
      /\ Starts(OwnerStopsTimers(RapsSfCommon(n, e)), n)
      /\ Starts(OwnerStopsTimers(RapsMsCommon(n, e)), n)
  BY <1>4, <1>3, CommonMoves
<1>6. Starts(MsCommon(o, l, e), n)
  BY <1>2, <1>4, <1>3, CommonMoves DEF o
<1>7. Starts(erps_fsm_timer_expires_pending(o, e), n)
  BY <1>0, <1>2, <1>4, <1>3, CommonMoves
<1>8. Starts(erps_fsm_clear_pending(n, e), n)
  BY <1>7 DEF erps_fsm_clear_pending, HasRpl, o
<1>9. Starts(erps_fsm_raps_nr_rb_pending(n, e), n)
  <2>1. erps_fsm_raps_nr_rb_pending(n, e) = erps_fsm_transition(o, "IDLE")
    BY DEF erps_fsm_raps_nr_rb_pending, o
  <2>2. Quiet(o, o)
    BY <1>2 DEF Quiet, Same, SameTimers
  <2>3. Moves(erps_fsm_transition(o, "IDLE"), o, "IDLE")
    BY <1>2, <2>2, TransitionMoves DEF State
  <2> QED
    BY <1>2, <1>4, <1>3, <2>1, <2>3
<1>10. Starts(erps_fsm_maybe_unblock_and_stop(n, id, e), n)
  BY QuietNodeCalls, QuietStarts
<1>11. /\ Moves(erps_fsm_timer_expires_pending(x, e), x, "IDLE")
       /\ Moves(erps_fsm_timer_expires_pending(y, e), y, "IDLE")
  BY <1>0, <1>2, CommonMoves
<1>12. /\ Starts(erps_fsm_timer_expires_pending(x, e), n)
       /\ Starts(erps_fsm_timer_expires_pending(y, e), n)
  BY <1>2, <1>4, <1>11, <1>3
<1>13. /\ ~erps_fsm_timer_expires_pending(x, e).wtr
       /\ ~erps_fsm_timer_expires_pending(y, e).wtb
  BY <1>2, <1>11 DEF Moves, SameTimers
<1>14. Starts(m, n)
  BY <1>1, <1>5, <1>6, <1>8, <1>9, <1>10, <1>12 DEF erps_fsm_post_pending, o, x, y
<1>15. /\ req = ERPS_REQ_WTR_EXPIRES => m = erps_fsm_timer_expires_pending(y, e)
       /\ req = ERPS_REQ_WTB_EXPIRES => m = erps_fsm_timer_expires_pending(x, e)
  BY DEF erps_fsm_post_pending, erps_node_is_rpl_owner, x, y, ERPS_REQ_CLEAR,
         ERPS_REQ_FS, ERPS_REQ_RAPS_FS, ERPS_REQ_SF, ERPS_REQ_RAPS_SF,
         ERPS_REQ_RAPS_MS, ERPS_REQ_MS, ERPS_REQ_WTR_EXPIRES, ERPS_REQ_WTB_EXPIRES,
         ERPS_REQ_RAPS_NR_RB, ERPS_REQ_RAPS_NR
<1> QED
  BY <1>13, <1>14, <1>15

(* What a post that succeeds does to the timers of a revertive owner, one  *)
(* that found a stale timer included: it starts them in PENDING only, and  *)
(* leaves PENDING with no timer running but the one that has expired; the  *)
(* top request names a timer in PENDING only, and only one that runs if    *)
(* that was so before.                                                     *)
LEMMA PostTimers ==
  ASSUME NEW n \in Node, n.ok, RevertiveOwner(n),
         n.topreq \in TimerRunning => n.state = "PENDING",
         NEW l \in Port, NEW req, req \notin TimerRunning, NEW id,
         NEW m, m = erps_fsm_post_locked(n, l, req, id, NoFault)
  PROVE  /\ m \in Node /\ m.ok /\ RevertiveOwner(m)
         /\ m.topreq \in TimerRunning => m.state = "PENDING"
         /\ m.state # "PENDING" => (m.wtr => n.wtr) /\ (m.wtb => n.wtb)
         /\ n.state = "PENDING" /\ m.state # "PENDING" =>
              /\ m.wtr => req = ERPS_REQ_WTR_EXPIRES
              /\ m.wtb => req = ERPS_REQ_WTB_EXPIRES
         /\ m.topreq = ERPS_REQ_WTR_RUNNING =>
              /\ req # ERPS_REQ_WTR_EXPIRES
              /\ n.topreq = ERPS_REQ_WTR_RUNNING \/ (m.wtr /\ ~n.wtr)
              /\ TimerInv(n) => m.wtr
         /\ m.topreq = ERPS_REQ_WTB_RUNNING =>
              /\ req # ERPS_REQ_WTB_EXPIRES
              /\ n.topreq = ERPS_REQ_WTB_RUNNING \/ (m.wtb /\ ~n.wtb)
              /\ TimerInv(n) => m.wtb
<1> DEFINE x == Prepare(n, l, req)
           dispatched == RequestAccepted(n, req) /\ ~IgnoredOnRpl(n, l, req)
<1>0. /\ ERPS_REQ_INVALID \notin TimerRunning
      /\ ERPS_REQ_WTR_RUNNING \in TimerRunning /\ ERPS_REQ_WTB_RUNNING \in TimerRunning
      /\ Local \cap TimerRunning = {} /\ ERPS_REQ_CLEAR_SF \notin LocalRequest
      /\ Expiries = {ERPS_REQ_WTR_EXPIRES, ERPS_REQ_WTB_EXPIRES}
      /\ Expiries \cap LocalRequest = {}
      /\ Expiries \cap {ERPS_REQ_CLEAR, ERPS_REQ_CLEAR_SF, ERPS_REQ_RAPS_MS,
                        ERPS_REQ_RAPS_NR, ERPS_REQ_RAPS_NR_RB} = {}
  BY DEF TimerRunning, Local, Expiries, LocalRequest, ERPS_REQ_INVALID, ERPS_REQ_FS,
         ERPS_REQ_SF, ERPS_REQ_MS, ERPS_REQ_WTR_RUNNING, ERPS_REQ_WTB_RUNNING,
         ERPS_REQ_WTR_EXPIRES, ERPS_REQ_WTB_EXPIRES, ERPS_REQ_CLEAR, ERPS_REQ_CLEAR_SF,
         ERPS_REQ_RAPS_MS, ERPS_REQ_RAPS_NR, ERPS_REQ_RAPS_NR_RB
<1>1. /\ m \in Node /\ m.ok /\ RevertiveOwner(m)
      /\ ~RequestAccepted(n, req) => m.topreq = n.topreq /\ m.state = n.state
      /\ RequestAccepted(n, req) /\ m.topreq \in TimerRunning =>
           m.state = "PENDING" /\ req \notin Expiries
  <2>1. PICK y : /\ Prepared(y, n, l, req)
                 /\ \/ m = y /\ (~RequestAccepted(n, req) \/ req = ERPS_REQ_CLEAR_SF)
                    \/ /\ RequestAccepted(n, req) /\ Result(m, y, l, req, NoFault)
                       /\ n.state = "UNINIT" => m = y
                       /\ \A sync, fine : /\ sync => NoFault.vlan = {}
                                          /\ fine => NoFault = NoFault
                                          /\ Kept(y, sync, fine)
                                          => Kept(m, sync, fine)
    BY PostResult
  <2>2. /\ Base(y, n) /\ y.ok /\ y.state = n.state
        /\ ~RequestAccepted(n, req) => y.topreq = n.topreq
        /\ RequestAccepted(n, req) => y.topreq \notin TimerRunning
    <3>1. Base(y, n) /\ (y.ok <=> n.ok) /\ y.state = n.state
      BY <2>1 DEF Prepared
    <3>2. y.topreq = IF RequestAccepted(n, req)
                     THEN IF req \in LocalRequest THEN req ELSE ERPS_REQ_INVALID
                     ELSE n.topreq
      BY <2>1 DEF Prepared
    <3> QED
      BY <1>0, <3>1, <3>2
  <2>3. CASE m = y /\ (~RequestAccepted(n, req) \/ req = ERPS_REQ_CLEAR_SF)
    BY <2>2, <2>3 DEF Base, RevertiveOwner, erps_node_is_rpl_owner
  <2>4. CASE /\ RequestAccepted(n, req) /\ Result(m, y, l, req, NoFault)
             /\ \A sync, fine : /\ sync => NoFault.vlan = {}
                                /\ fine => NoFault = NoFault
                                /\ Kept(y, sync, fine)
                                => Kept(m, sync, fine)
    <3>0. Kept(y, FALSE, TRUE)
      BY <2>2 DEF Kept, Base
    <3>1. m \in Node /\ m.ok
      <4>1. Kept(m, FALSE, TRUE)
        BY <2>4, <3>0, Zenon
      <4> QED
        BY <4>1 DEF Kept
    <3>2. Effect(m, y, l, req)
      BY <2>4, <3>1 DEF Result
    <3>3. Base(m, y)
      BY <3>2 DEF Effect
    <3>4. m.topreq = y.topreq \/ (m.state = "PENDING" /\ req \notin Expiries)
      BY <1>0, <3>2
      DEF Effect, Untouched, FollowsInIdle, CutsHere, CutsMore, OpensPorts, YieldsPorts,
          StartsWaiting, DropsOrder, EndsWaiting, EndsWithout, Same, SameTimers
    <3> QED
      BY <2>2, <2>4, <3>1, <3>3, <3>4 DEF Base, RevertiveOwner, erps_node_is_rpl_owner
  <2> QED
    BY <2>1, <2>3, <2>4
<1>2. /\ x \in Node /\ x.state = n.state /\ x.ok /\ (x.wtr <=> n.wtr)
      /\ (x.wtb <=> n.wtb) /\ RevertiveOwner(x) /\ x.role = "owner"
      /\ ~RequestAccepted(n, req) => x.topreq = n.topreq
      /\ RequestAccepted(n, req) => x.topreq \notin TimerRunning
  BY <1>0, PrepareTimers DEF RevertiveOwner, erps_node_is_rpl_owner
<1>3. m = IF dispatched THEN Dispatch(x, l, req, id, NoFault) ELSE x
  BY DEF erps_fsm_post_locked
<1> HIDE DEF x
<1>4. Starts(m, x)
  <2>1. Starts(x, x)
    BY <1>2, QuietStarts DEF Quiet, Same, SameTimers
  <2>2. x.state = "PENDING" => Starts(erps_fsm_post_pending(x, l, req, id, NoFault), x)
    BY <1>2, PendingPostStarts
  <2>3. x.state \in State
    BY <1>2 DEF Node
  <2> QED
    BY <1>2, <1>3, <2>1, <2>2, <2>3, SwitchedPostsStart DEF Dispatch, State
<1>5. m.topreq \in TimerRunning => m.state = "PENDING"
  BY <1>1
<1>6. m.state # "PENDING" => (m.wtr => n.wtr) /\ (m.wtb => n.wtb)
  BY <1>2, <1>4 DEF Starts
<1>7. ASSUME n.state = "PENDING", m.state # "PENDING"
      PROVE  /\ m.wtr => req = ERPS_REQ_WTR_EXPIRES
             /\ m.wtb => req = ERPS_REQ_WTB_EXPIRES
  <2>1. dispatched /\ m = erps_fsm_post_pending(x, l, req, id, NoFault)
    BY <1>2, <1>3, <1>7 DEF Dispatch
  <2>2. Accepted(x)
    BY <1>2, <1>7, <2>1 DEF Accepted, TimerRunning
  <2>3. CASE req \notin Expiries
    <3>1. TimerInv(m)
      BY <1>0, <1>2, <1>7, <2>1, <2>2, <2>3, PendingPostKeepsTimers
    <3> QED
      BY <1>7, <3>1 DEF TimerInv
  <2>4. CASE req \in Expiries
    BY <1>0, <1>2, <1>7, <2>1, <2>4, PendingPostStarts
  <2> QED
    BY <2>3, <2>4
<1>8. ASSUME m.topreq \in TimerRunning, req \in Expiries
      PROVE  /\ m = x /\ m.topreq = n.topreq
             /\ m.topreq = ERPS_REQ_WTR_RUNNING => req # ERPS_REQ_WTR_EXPIRES
             /\ m.topreq = ERPS_REQ_WTB_RUNNING => req # ERPS_REQ_WTB_EXPIRES
  <2>1. ~RequestAccepted(n, req)
    BY <1>1, <1>8
  <2>2. m = x /\ m.topreq = n.topreq
    BY <1>2, <1>3, <2>1
  <2> QED
    BY <2>1, <2>2
    DEF RequestAccepted, ERPS_REQ_WTR_RUNNING, ERPS_REQ_WTB_RUNNING,
        ERPS_REQ_WTR_EXPIRES, ERPS_REQ_WTB_EXPIRES, ERPS_REQ_CLEAR
<1>9. /\ m.topreq = ERPS_REQ_WTR_RUNNING =>
           n.topreq = ERPS_REQ_WTR_RUNNING \/ (m.wtr /\ ~n.wtr)
      /\ m.topreq = ERPS_REQ_WTB_RUNNING =>
           n.topreq = ERPS_REQ_WTB_RUNNING \/ (m.wtb /\ ~n.wtb)
  BY <1>0, <1>2, <1>4 DEF Starts
<1>10. ASSUME TimerInv(n)
       PROVE  /\ m.topreq = ERPS_REQ_WTR_RUNNING => m.wtr
              /\ m.topreq = ERPS_REQ_WTB_RUNNING => m.wtb
  <2>1. CASE req \in Expiries
    BY <1>0, <1>2, <1>8, <1>10, <2>1 DEF TimerInv
  <2>2. CASE req \notin Expiries
    <3>1. TimerInv(m)
      BY <1>0, <1>10, <2>2, PostKeepsTimers
    <3> QED
      BY <3>1 DEF TimerInv
  <2> QED
    BY <2>1, <2>2
<1> QED
  BY <1>0, <1>1, <1>5, <1>6, <1>7, <1>8, <1>9, <1>10

-----------------------------------------------------------------------------
(***************************************************************************)
(* The work queue.                                                         *)
(***************************************************************************)

(* The calls of KWork are those its lemmas are about.                      *)
LEMMA SameCalls ==
  \A k, i : /\ k_work_reschedule(k, i) = K!k_work_reschedule(k, i)
            /\ k_work_cancel_delayable(k, i) = K!k_work_cancel_delayable(k, i)
            /\ work_timeout(k, i) = K!work_timeout(k, i)
            /\ WorkTaken(k) = K!WorkTaken(k)
            /\ HandlerReturned(k) = K!HandlerReturned(k)
            /\ Queued(k) = K!Queued(k)
            /\ k \in Work <=> k \in K!Work
<1> TAKE k, i
<1>1. Queued(k) = K!Queued(k)
  BY DEF Queued, K!Queued, ToSet, K!ToSet
<1>2. k_work_reschedule(k, i) = K!k_work_reschedule(k, i)
  BY Zenon DEF k_work_reschedule, K!k_work_reschedule
<1>3. k_work_cancel_delayable(k, i) = K!k_work_cancel_delayable(k, i)
  BY Zenon
  DEF k_work_cancel_delayable, K!k_work_cancel_delayable, RemoveFirst,
      K!RemoveFirst, RemoveAt, K!RemoveAt, SelectInSeq, K!SelectInSeq, Min, K!Min
<1>4. work_timeout(k, i) = K!work_timeout(k, i)
  BY <1>1, Zenon DEF work_timeout, K!work_timeout
<1>5. WorkTaken(k) = K!WorkTaken(k)
  BY Zenon DEF WorkTaken, K!WorkTaken
<1>6. HandlerReturned(k) = K!HandlerReturned(k)
  BY Zenon DEF HandlerReturned, K!HandlerReturned
<1>7. k \in Work <=> k \in K!Work
  BY Zenon DEF Work, K!Work
<1> QED
  BY <1>1, <1>2, <1>3, <1>4, <1>5, <1>6, <1>7

(* What the queue is to an item.                                           *)
Unchanged(m, k, i) == (i \in m.delayed <=> i \in k.delayed)
                        /\ (i \in Queued(m) <=> i \in Queued(k))

(* m is k after the timers that differ between two records were started or *)
(* stopped, those of items in S only.                                      *)
Followed(m, k, S, before, after) ==
  /\ K!Sane(m) /\ m.running = k.running /\ k.canceling \subseteq m.canceling
  /\ \A i \in S :
       /\ i \in Timers(after) \ Timers(before) =>
            i \in m.delayed /\ (i \in Queued(m) <=> i \in Queued(k))
       /\ i \in Timers(before) \ Timers(after) => i \notin m.delayed \cup Queued(m)
       /\ (i \in Timers(before) <=> i \in Timers(after)) => Unchanged(m, k, i)
  /\ \A i \in Item \ S : Unchanged(m, k, i)

(* One item.                                                               *)
LEMMA ItemFollows ==
  ASSUME NEW k0, NEW k, NEW S \in SUBSET Item, NEW before, NEW after,
         Followed(k, k0, S, before, after), NEW i \in Item \ S
  PROVE  Followed(Changed(k, i, before, after), k0, S \cup {i}, before, after)
<1> DEFINE m == Changed(k, i, before, after)
<1>1. CASE i \in Timers(after) \ Timers(before)
  <2>1. m = K!k_work_reschedule(k, i)
    BY <1>1, SameCalls DEF Changed
  <2> HIDE DEF m
  <2>2. /\ K!Sane(m) /\ m.delayed = k.delayed \cup {i} /\ m.queue = k.queue
        /\ m.running = k.running /\ m.canceling = k.canceling
    BY <2>1, K!Rescheduled DEF Followed
  <2>3. Queued(m) = Queued(k)
    BY <2>2 DEF Queued
  <2> QED
    BY <1>1, <2>2, <2>3 DEF Followed, Unchanged, m
<1>2. CASE i \in Timers(before) \ Timers(after)
  <2>1. m = K!k_work_cancel_delayable(k, i)
    BY <1>2, SameCalls DEF Changed
  <2> HIDE DEF m
  <2>2. /\ K!Sane(m) /\ m.delayed = k.delayed \ {i} /\ K!Queued(m) = K!Queued(k) \ {i}
        /\ m.running = k.running
        /\ m.canceling = k.canceling \cup ({i} \cap {k.running})
    BY <2>1, K!Canceled DEF Followed
  <2>3. Queued(m) = Queued(k) \ {i}
    BY <2>2, SameCalls
  <2> QED
    BY <1>2, <2>2, <2>3 DEF Followed, Unchanged, m
<1>3. CASE i \in Timers(before) <=> i \in Timers(after)
  <2>1. m = k
    BY <1>3 DEF Changed
  <2> HIDE DEF m
  <2> QED
    BY <1>3, <2>1 DEF Followed, m
<1> QED
  BY <1>1, <1>2, <1>3

(* All of them.                                                            *)
LEMMA AllFollow ==
  ASSUME NEW k, K!Sane(k), NEW before, NEW after
  PROVE  Followed(Applied(before, after, k), k, Item, before, after)
<1> DEFINE first  == Changed(k, "wtr", before, after)
           second == Changed(first, "wtb", before, after)
           third  == Changed(second, "down", before, after)
<1>1. Followed(k, k, {}, before, after)
  BY DEF Followed, Unchanged
<1>2. Followed(first, k, {"wtr"}, before, after)
  <2>1. Followed(first, k, {} \cup {"wtr"}, before, after)
    BY <1>1, ItemFollows DEF Item
  <2> QED
    BY <2>1
<1> HIDE DEF first
<1>3. Followed(second, k, {"wtr"} \cup {"wtb"}, before, after)
  BY <1>2, ItemFollows DEF Item
<1> HIDE DEF second
<1>4. Followed(third, k, {"wtr"} \cup {"wtb"} \cup {"down"}, before, after)
  BY <1>3, ItemFollows DEF Item
<1> HIDE DEF third
<1>5. Item = {"wtr"} \cup {"wtb"} \cup {"down"}
  BY DEF Item
<1>6. Applied(before, after, k) = third
  BY DEF Applied, first, second, third
<1> QED
  BY <1>4, <1>5, <1>6

-----------------------------------------------------------------------------
(***************************************************************************)
(* The inductive invariant.  Control ties the threads to the work queue:   *)
(* only the queue's thread posts expiries, that of the item that runs.     *)
(* Separate says that an item is in one place at most, because a timer is  *)
(* not started while it is pending.  Awaited is TopRequestTimed for the    *)
(* moment at which the handler of a timer is about to return.              *)
(***************************************************************************)
Types ==
  /\ node \in Node /\ K!Sane(work) /\ late \in BOOLEAN
  /\ thread \in [Thread -> [pc : {"idle", "waiting", "locked", "return"}, l : Port,
                            req : Request \cup {ERPS_REQ_INVALID}]]

Control ==
  /\ node.ok /\ RevertiveOwner(node)
  /\ \A t, u \in Holder : t = u
  /\ \A t \in {"rx", "ctl"} : thread[t].req \notin TimerRunning \cup Expiries
  /\ work.running = NoItem <=> thread["wq"].pc = "idle"
  /\ thread["wq"].pc \in {"waiting", "locked"} => thread["wq"].req = Expiry(work.running)

Separate == /\ work.delayed \cap Queued(work) = {}
            /\ work.running \notin work.delayed \cup Queued(work)

Waits == node.topreq \in TimerRunning => node.state = "PENDING"

Awaited ==
  ~late /\ thread["wq"].pc = "return" =>
    /\ work.running = "wtr" => node.topreq # ERPS_REQ_WTR_RUNNING
    /\ work.running = "wtb" => node.topreq # ERPS_REQ_WTB_RUNNING

IInv == /\ Types /\ Control /\ Separate /\ Waits /\ Awaited
        /\ TimersOnlyWhileReverting /\ TopRequestTimed

(* What is known of the items, the threads and their requests.             *)
LEMMA Basics ==
  /\ Item = {"wtr", "wtb", "down"} /\ NoItem \notin Item
  /\ Thread = {"rx", "ctl", "wq"} /\ 0 \in Port
  /\ Idle = [pc |-> "idle", l |-> 0, req |-> ERPS_REQ_INVALID]
  /\ Done("wq") = [pc |-> "return", l |-> 0, req |-> ERPS_REQ_INVALID]
  /\ Done("rx") = Idle /\ Done("ctl") = Idle
  /\ ERPS_REQ_INVALID \notin TimerRunning \cup Expiries
  /\ \A i \in Item : /\ Expiry(i) \in Request /\ Expiry(i) \notin TimerRunning
                     /\ Expiry(i) = ERPS_REQ_WTR_EXPIRES <=> i = "wtr"
                     /\ Expiry(i) = ERPS_REQ_WTB_EXPIRES <=> i = "wtb"
  /\ ERPS_REQ_WTR_RUNNING # ERPS_REQ_WTB_RUNNING
  /\ TimerRunning = {ERPS_REQ_WTR_RUNNING, ERPS_REQ_WTB_RUNNING}
  /\ Expiries = {ERPS_REQ_WTR_EXPIRES, ERPS_REQ_WTB_EXPIRES}
<1>1. ASSUME NEW i \in Item
      PROVE  /\ Expiry(i) \in Request /\ Expiry(i) \notin TimerRunning
             /\ Expiry(i) = ERPS_REQ_WTR_EXPIRES <=> i = "wtr"
             /\ Expiry(i) = ERPS_REQ_WTB_EXPIRES <=> i = "wtb"
  BY <1>1
  DEF Item, Expiry, Request, TimerRunning, ERPS_REQ_CLEAR, ERPS_REQ_RAPS_NR,
      ERPS_REQ_SF, ERPS_REQ_WTR_EXPIRES, ERPS_REQ_WTB_EXPIRES,
      ERPS_REQ_WTR_RUNNING, ERPS_REQ_WTB_RUNNING
<1>2. ERPS_REQ_INVALID \notin TimerRunning \cup Expiries
        /\ ERPS_REQ_WTR_RUNNING # ERPS_REQ_WTB_RUNNING
  BY DEF TimerRunning, Expiries, ERPS_REQ_INVALID, ERPS_REQ_WTR_EXPIRES,
         ERPS_REQ_WTB_EXPIRES, ERPS_REQ_WTR_RUNNING, ERPS_REQ_WTB_RUNNING
<1> QED
  BY <1>1, <1>2, ThreadsAssumption
  DEF Item, Thread, Port, Idle, Done, TimerRunning, Expiries

(* A post sees an item as pending if it waits, is queued or runs.          *)
LEMMA SeenNode ==
  ASSUME Types, Control, NEW b, b = Seen(node, work)
  PROVE  /\ b \in Node /\ b.ok /\ RevertiveOwner(b)
         /\ b.state = node.state /\ b.topreq = node.topreq
         /\ b.wtr <=> k_work_delayable_is_pending(work, "wtr")
         /\ b.wtb <=> k_work_delayable_is_pending(work, "wtb")
         /\ \A i \in Item : /\ i \in Timers(b) <=> k_work_delayable_is_pending(work, i)
                            /\ k_work_delayable_is_pending(work, i) <=>
                                 i \in work.delayed \cup Queued(work) \cup {work.running}
<1> DEFINE P(i) == k_work_delayable_is_pending(work, i)
           q == IF P("down") THEN {0} ELSE {}
<1>0. /\ P("wtr") \in BOOLEAN /\ P("wtb") \in BOOLEAN /\ q \in SUBSET Port
      /\ 0 \in q <=> P("down")
  BY Basics DEF k_work_delayable_is_pending
<1>1. b = [node EXCEPT !.wtr = P("wtr"), !.wtb = P("wtb"), !.linkDown = q]
  BY DEF Seen
<1>2. \A i \in Item : P(i) <=> i \in work.delayed \cup Queued(work) \cup {work.running}
  BY DEF Types, K!Sane, k_work_delayable_is_pending
<1> HIDE DEF P, q
<1>3. node \in Node /\ node.ok /\ node.role = "owner" /\ node.revertive
  BY DEF Types, Control, RevertiveOwner, erps_node_is_rpl_owner
<1>4. b \in Node
  BY <1>0, <1>1, <1>3 DEF Node
<1>5. /\ b.ok /\ b.role = "owner" /\ b.revertive /\ b.state = node.state
      /\ b.topreq = node.topreq /\ (b.wtr <=> P("wtr")) /\ (b.wtb <=> P("wtb"))
      /\ b.linkDown = q
  BY <1>0, <1>1, <1>3 DEF Node
<1>6. \A i \in Item : i \in Timers(b) <=> P(i)
  BY <1>0, <1>5, Basics DEF Timers
<1> QED
  BY <1>2, <1>4, <1>5, <1>6 DEF RevertiveOwner, erps_node_is_rpl_owner, P

(* Initialization.                                                         *)
LEMMA InitHolds == Init => IInv
<1> SUFFICES ASSUME Init PROVE IInv
  OBVIOUS
<1> DEFINE n == ERPS_NODE_INIT("owner", TRUE, OwnId, {})
           m == erps_node_init(n, NoFault, NoFault)
<1>1. n \in Node /\ ~n.wtr /\ ~n.wtb /\ ~n.cb /\ n.topreq = ERPS_REQ_CLEAR
        /\ n.linkDown = {} /\ RevertiveOwner(n)
  BY ThreadsAssumption, BurstAssumption
  DEF ERPS_NODE_INIT, Node, State, TopRequest, Role, PduMut, Pair, NoPair, Port,
      RevertiveOwner, erps_node_is_rpl_owner
<1> HIDE DEF n
<1>2. TimerInv(n)
  BY <1>1 DEF TimerInv, ERPS_REQ_CLEAR, ERPS_REQ_WTR_RUNNING, ERPS_REQ_WTB_RUNNING
<1>3. m \in Node /\ m.role = n.role /\ (m.revertive <=> n.revertive) /\ m.ok
        /\ m.state = "PENDING" /\ TimerInv(m)
  BY <1>1, <1>2, InitResult, InitKeepsTimers
<1> HIDE DEF m
<1>4. node = Fresh(m) /\ work = Applied(n, node, NoWork)
  BY DEF Init, n, m
<1>5. /\ node \in Node /\ node.ok /\ RevertiveOwner(node) /\ node.state = "PENDING"
      /\ node.topreq = m.topreq /\ (node.wtr <=> m.wtr) /\ (node.wtb <=> m.wtb)
  BY <1>1, <1>3, <1>4 DEF Fresh, Node, RevertiveOwner, erps_node_is_rpl_owner
<1>6. K!Sane(NoWork) /\ NoWork.delayed = {} /\ Queued(NoWork) = {}
        /\ NoWork.running = NoItem
  BY K!NothingTwice DEF NoWork, K!Sane, K!Work, Queued, ToSet, K!ToSet
<1>7. Followed(work, NoWork, Item, n, node)
  BY <1>4, <1>6, AllFollow
<1>8. Timers(n) = {}
  BY <1>1, Basics DEF Timers
<1>9. /\ K!Sane(work) /\ work.running = NoItem /\ Queued(work) = {}
      /\ \A i \in Timers(node) : i \in work.delayed
  <2>1. K!Sane(work) /\ work.running = NoItem
    BY <1>6, <1>7 DEF Followed
  <2>2. ASSUME NEW i \in Item
        PROVE  i \notin Queued(work) /\ (i \in Timers(node) => i \in work.delayed)
    BY <1>6, <1>7, <1>8 DEF Followed, Unchanged
  <2>3. Queued(work) \subseteq Item
    BY <2>1 DEF K!Sane, K!Work, Queued, ToSet
  <2>4. Timers(node) \subseteq Item
    BY DEF Timers
  <2> QED
    BY <2>1, <2>2, <2>3, <2>4
<1>10. thread = [t \in Thread |-> Idle] /\ late = FALSE
  BY DEF Init
<1>11. Types /\ Control
  <2>1. \A t \in Thread : thread[t] = [pc |-> "idle", l |-> 0, req |-> ERPS_REQ_INVALID]
    BY <1>10, Basics
  <2>2. thread \in [Thread -> [pc : {"idle", "waiting", "locked", "return"}, l : Port,
                               req : Request \cup {ERPS_REQ_INVALID}]]
    BY <1>10, Basics
  <2>3. Holder = {}
    BY <2>1 DEF Holder
  <2>4. /\ \A t \in {"rx", "ctl"} : thread[t].req \notin TimerRunning \cup Expiries
        /\ thread["wq"].pc = "idle"
    BY <2>1, Basics
  <2> QED
    BY <1>5, <1>9, <1>10, <2>2, <2>3, <2>4 DEF Types, Control
<1>12. Separate
  BY <1>9, Basics DEF Separate, K!Sane, K!Work
<1>13. Waits /\ Awaited /\ TimersOnlyWhileReverting
  BY <1>5, <1>10, Basics DEF Waits, Awaited, TimersOnlyWhileReverting
<1>14. TopRequestTimed
  <2>1. /\ node.topreq = ERPS_REQ_WTR_RUNNING => "wtr" \in Timers(node)
        /\ node.topreq = ERPS_REQ_WTB_RUNNING => "wtb" \in Timers(node)
    BY <1>3, <1>5, Basics DEF TimerInv, Timers
  <2> QED
    BY <1>9, <2>1 DEF TopRequestTimed, k_work_delayable_is_pending
<1> QED
  BY <1>11, <1>12, <1>13, <1>14 DEF IInv

-----------------------------------------------------------------------------
(***************************************************************************)
(* The steps.                                                              *)
(***************************************************************************)

(* Where a thread goes.                                                    *)
ThreadSet == [pc : {"idle", "waiting", "locked", "return"}, l : Port,
              req : Request \cup {ERPS_REQ_INVALID}]

LEMMA Goes ==
  ASSUME Types, NEW t \in Thread, NEW r \in ThreadSet,
         thread' = [thread EXCEPT ![t] = r]
  PROVE  /\ thread' \in [Thread -> ThreadSet] /\ thread'[t] = r
         /\ \A u \in Thread \ {t} : thread'[u] = thread[u]
BY DEF Types, ThreadSet

(* The holder of the mutex posts, with the node as the work queue shows it.*)
(* The node keeps what a post needs and leaves; the queue follows it.      *)
LEMMA ProcessNode ==
  ASSUME IInv, NEW t \in Thread, Process(t),
         NEW before, before = Seen(node, work)
  PROVE  /\ node' \in Node /\ node'.ok /\ RevertiveOwner(node')
         /\ node'.topreq \in TimerRunning => node'.state = "PENDING"
         /\ Followed(work', work, Item, before, node')
         /\ node'.state # "PENDING" =>
              (node'.wtr => before.wtr) /\ (node'.wtb => before.wtb)
         /\ node.state = "PENDING" /\ node'.state # "PENDING" =>
              /\ node'.wtr => work.running = "wtr"
              /\ node'.wtb => work.running = "wtb"
         /\ node'.topreq = ERPS_REQ_WTR_RUNNING =>
              /\ ~(t = "wq" /\ work.running = "wtr")
              /\ node.topreq = ERPS_REQ_WTR_RUNNING \/ (node'.wtr /\ ~before.wtr)
              /\ TimerInv(before) => node'.wtr
         /\ node'.topreq = ERPS_REQ_WTB_RUNNING =>
              /\ ~(t = "wq" /\ work.running = "wtb")
              /\ node.topreq = ERPS_REQ_WTB_RUNNING \/ (node'.wtb /\ ~before.wtb)
              /\ TimerInv(before) => node'.wtb
<1> DEFINE l == thread[t].l
           req == thread[t].req
           m == erps_fsm_post_locked(before, l, req, PeerId, NoFault)
<1>1. Types /\ Control /\ Waits
  BY DEF IInv
<1>2. /\ thread[t].pc = "locked" /\ node' = Fresh(m)
      /\ work' = Applied(before, node', work)
  BY DEF Process
<1>3. /\ before \in Node /\ before.ok /\ RevertiveOwner(before)
      /\ before.state = node.state /\ before.topreq = node.topreq
  BY <1>1, SeenNode
<1>4. l \in Port
  BY <1>1 DEF Types
<1>5. /\ req \notin TimerRunning
      /\ t = "wq" => req = Expiry(work.running) /\ work.running \in Item
      /\ req \in Expiries => t = "wq"
  <2>1. CASE t = "wq"
    <3>1. req = Expiry(work.running) /\ work.running \in Item
      BY <1>1, <1>2, <2>1 DEF Types, Control, K!Sane, K!Work
    <3> QED
      BY <2>1, <3>1, Basics
  <2>2. CASE t \in {"rx", "ctl"}
    BY <1>1, <2>2 DEF Control
  <2> QED
    BY <2>1, <2>2, Basics
<1>6. /\ req = ERPS_REQ_WTR_EXPIRES => t = "wq" /\ work.running = "wtr"
      /\ req = ERPS_REQ_WTB_EXPIRES => t = "wq" /\ work.running = "wtb"
      /\ t = "wq" /\ work.running = "wtr" => req = ERPS_REQ_WTR_EXPIRES
      /\ t = "wq" /\ work.running = "wtb" => req = ERPS_REQ_WTB_EXPIRES
  BY <1>5, Basics
<1> HIDE DEF l, req
<1>7. before.topreq \in TimerRunning => before.state = "PENDING"
  BY <1>1, <1>3 DEF Waits
<1>8. /\ m \in Node /\ m.ok /\ RevertiveOwner(m)
      /\ m.topreq \in TimerRunning => m.state = "PENDING"
      /\ m.state # "PENDING" => (m.wtr => before.wtr) /\ (m.wtb => before.wtb)
      /\ before.state = "PENDING" /\ m.state # "PENDING" =>
           /\ m.wtr => req = ERPS_REQ_WTR_EXPIRES
           /\ m.wtb => req = ERPS_REQ_WTB_EXPIRES
      /\ m.topreq = ERPS_REQ_WTR_RUNNING =>
           /\ req # ERPS_REQ_WTR_EXPIRES
           /\ before.topreq = ERPS_REQ_WTR_RUNNING \/ (m.wtr /\ ~before.wtr)
           /\ TimerInv(before) => m.wtr
      /\ m.topreq = ERPS_REQ_WTB_RUNNING =>
           /\ req # ERPS_REQ_WTB_EXPIRES
           /\ before.topreq = ERPS_REQ_WTB_RUNNING \/ (m.wtb /\ ~before.wtb)
           /\ TimerInv(before) => m.wtb
  BY <1>3, <1>4, <1>5, <1>7, PostTimers
<1> HIDE DEF m
<1>9. /\ node' \in Node /\ node'.ok /\ RevertiveOwner(node')
      /\ node'.state = m.state /\ node'.topreq = m.topreq
      /\ (node'.wtr <=> m.wtr) /\ (node'.wtb <=> m.wtb)
  BY <1>2, <1>8 DEF Fresh, Node, RevertiveOwner, erps_node_is_rpl_owner
<1>10. Followed(work', work, Item, before, node')
  BY <1>1, <1>2, AllFollow DEF Types
<1> QED
  BY <1>3, <1>6, <1>8, <1>9, <1>10

(* A post keeps the invariant.                                             *)
LEMMA ProcessKeeps ==
  ASSUME IInv, NEW t \in Thread, Process(t)
  PROVE  IInv'
<1> DEFINE before == Seen(node, work)
           Stale == work.running \in {"wtr", "wtb"}
<1>0. Types /\ Control /\ Separate /\ Waits
  BY DEF IInv
<1>1. /\ node' \in Node /\ node'.ok /\ RevertiveOwner(node')
      /\ node'.topreq \in TimerRunning => node'.state = "PENDING"
      /\ Followed(work', work, Item, before, node')
      /\ node'.state # "PENDING" =>
           (node'.wtr => before.wtr) /\ (node'.wtb => before.wtb)
      /\ node.state = "PENDING" /\ node'.state # "PENDING" =>
           /\ node'.wtr => work.running = "wtr"
           /\ node'.wtb => work.running = "wtb"
      /\ node'.topreq = ERPS_REQ_WTR_RUNNING =>
           /\ ~(t = "wq" /\ work.running = "wtr")
           /\ node.topreq = ERPS_REQ_WTR_RUNNING \/ (node'.wtr /\ ~before.wtr)
           /\ TimerInv(before) => node'.wtr
      /\ node'.topreq = ERPS_REQ_WTB_RUNNING =>
           /\ ~(t = "wq" /\ work.running = "wtb")
           /\ node.topreq = ERPS_REQ_WTB_RUNNING \/ (node'.wtb /\ ~before.wtb)
           /\ TimerInv(before) => node'.wtb
  BY ProcessNode
<1>2. /\ before \in Node /\ RevertiveOwner(before)
      /\ before.state = node.state /\ before.topreq = node.topreq
      /\ before.wtr <=> "wtr" \in Timers(before)
      /\ before.wtb <=> "wtb" \in Timers(before)
      /\ \A i \in Item : i \in Timers(before) <=>
                           i \in work.delayed \cup Queued(work) \cup {work.running}
  BY <1>0, SeenNode, Basics DEF Timers
<1>3. /\ thread[t].pc = "locked" /\ thread' = [thread EXCEPT ![t] = Done(t)]
      /\ late' = (/\ node'.state = "PENDING"
                  /\ IF node.state = "PENDING" THEN late ELSE Stale)
  BY DEF Process
<1> HIDE DEF before
<1>4. /\ node'.wtr <=> "wtr" \in Timers(node')
      /\ node'.wtb <=> "wtb" \in Timers(node')
  BY Basics DEF Timers
<1>5. /\ K!Sane(work') /\ work'.running = work.running
      /\ \A i \in Item :
           /\ i \in Timers(node') \ Timers(before) =>
                i \in work'.delayed /\ (i \in Queued(work)' <=> i \in Queued(work))
           /\ i \in Timers(before) \ Timers(node') =>
                i \notin work'.delayed \cup Queued(work)'
           /\ (i \in Timers(before) <=> i \in Timers(node')) => Unchanged(work', work, i)
  BY <1>1 DEF Followed, Queued
<1>6. /\ Done(t) \in ThreadSet
      /\ Done(t).pc = IF t = "wq" THEN "return" ELSE "idle"
      /\ Done(t).req = ERPS_REQ_INVALID
  BY Basics DEF ThreadSet
<1>7. /\ thread' \in [Thread -> ThreadSet] /\ thread'[t] = Done(t)
      /\ \A u \in Thread \ {t} : thread'[u] = thread[u]
  BY <1>0, <1>3, <1>6, Goes
<1>8. Types'
  <2>1. late' \in BOOLEAN
    BY <1>0, <1>3 DEF Types
  <2> QED
    BY <1>1, <1>5, <1>7, <2>1 DEF Types, ThreadSet
<1>9. Control'
  <2>1. Holder' = {}
    <3>1. t \in Holder /\ \A u \in Holder : u = t
      BY <1>0, <1>3 DEF Control, Holder
    <3> QED
      BY <1>6, <1>7, <3>1 DEF Holder
  <2>2. \A u \in {"rx", "ctl"} : thread'[u].req \notin TimerRunning \cup Expiries
    BY <1>0, <1>6, <1>7, Basics DEF Control
  <2>3. /\ work'.running = NoItem <=> thread'["wq"].pc = "idle"
        /\ thread'["wq"].pc \in {"waiting", "locked"} =>
             thread'["wq"].req = Expiry(work'.running)
    <3>1. CASE t = "wq"
      BY <1>0, <1>3, <1>5, <1>6, <1>7, <3>1 DEF Control
    <3>2. CASE t # "wq"
      BY <1>0, <1>5, <1>7, <3>2, Basics DEF Control
    <3> QED
      BY <3>1, <3>2
  <2> QED
    BY <1>1, <2>1, <2>2, <2>3 DEF Control
<1>10. /\ work'.delayed \subseteq Item /\ Queued(work)' \subseteq Item
  BY <1>5 DEF K!Sane, K!Work, Queued, ToSet
<1>11. Separate'
  <2>1. ASSUME NEW i \in Item
        PROVE  /\ ~(i \in work'.delayed /\ i \in Queued(work)')
               /\ i \in work'.delayed \cup Queued(work)' => i # work'.running
    <3>1. /\ ~(i \in work.delayed /\ i \in Queued(work))
          /\ i \in work.delayed \cup Queued(work) => i # work.running
      BY <1>0 DEF Separate
    <3>2. CASE i \in Timers(node') \ Timers(before)
      BY <1>2, <1>5, <3>2
    <3>3. CASE i \in Timers(before) \ Timers(node')
      BY <1>5, <3>3
    <3>4. CASE i \in Timers(before) <=> i \in Timers(node')
      <4>1. /\ i \in work'.delayed <=> i \in work.delayed
            /\ i \in Queued(work)' <=> i \in Queued(work)
        BY <1>5, <3>4 DEF Unchanged, Queued
      <4> QED
        BY <1>5, <3>1, <4>1
    <3> QED
      BY <3>2, <3>3, <3>4
  <2> QED
    BY <1>10, <2>1 DEF Separate
<1>12. Waits'
  BY <1>1 DEF Waits
<1>13. TimersOnlyWhileReverting'
  <2> SUFFICES ASSUME node'.state # "PENDING", NEW i \in {"wtr", "wtb"}, Armed(i)'
               PROVE  FALSE
    BY DEF TimersOnlyWhileReverting
  <2>1. i \in work'.delayed \cup Queued(work)' /\ i \in Item
    BY Basics DEF Armed
  <2>2. i \in Timers(node') => i \in Timers(before)
    BY <1>1, <1>2, <1>4
  <2>3. (i \in Timers(before) <=> i \in Timers(node')) /\ Unchanged(work', work, i)
    BY <1>5, <2>1, <2>2
  <2>4. i \in work.delayed \cup Queued(work)
    BY <2>1, <2>3 DEF Unchanged, Queued
  <2>5. node.state = "PENDING"
    BY <2>4 DEF IInv, TimersOnlyWhileReverting, Armed
  <2>6. i \in Timers(node')
    BY <1>2, <2>1, <2>3, <2>4
  <2>7. work.running = i
    BY <1>1, <1>4, <2>5, <2>6
  <2> QED
    BY <1>0, <2>4, <2>7 DEF Separate
<1>14. ASSUME ~late', node'.topreq \in TimerRunning
       PROVE  TimerInv(before) /\ (node.state # "PENDING" => ~Stale)
  <2>1. node'.state = "PENDING"
    BY <1>1, <1>14
  <2>2. CASE node.state = "PENDING"
    <3>1. ~late
      BY <1>3, <1>14, <2>1, <2>2
    <3>2. /\ node.topreq = ERPS_REQ_WTR_RUNNING => before.wtr
          /\ node.topreq = ERPS_REQ_WTB_RUNNING => before.wtb
      BY <1>0, <1>2, <3>1, SeenNode, Basics DEF IInv, TopRequestTimed
    <3> QED
      BY <1>2, <2>2, <3>2 DEF TimerInv
  <2>3. CASE node.state # "PENDING"
    <3>1. ~Stale
      BY <1>3, <1>14, <2>1, <2>3
    <3>2. ~before.wtr /\ ~before.wtb
      BY <1>2, <2>3, <3>1, Basics DEF IInv, TimersOnlyWhileReverting, Armed
    <3>3. node.topreq \notin TimerRunning
      BY <1>0, <2>3 DEF Waits
    <3> QED
      BY <1>2, <3>1, <3>2, <3>3, Basics DEF TimerInv
  <2> QED
    BY <2>2, <2>3
<1>15. TopRequestTimed'
  <2> SUFFICES ASSUME ~late', NEW i \in {"wtr", "wtb"},
                      node'.topreq = IF i = "wtr" THEN ERPS_REQ_WTR_RUNNING
                                     ELSE ERPS_REQ_WTB_RUNNING
               PROVE  k_work_delayable_is_pending(work', i)
    BY DEF TopRequestTimed
  <2>1. i \in Timers(node') /\ i \in Item
    BY <1>1, <1>4, <1>14, Basics
  <2>2. CASE i \in Timers(before)
    <3>1. Unchanged(work', work, i)
      BY <1>5, <2>1, <2>2
    <3>2. i \in work'.delayed \cup Queued(work') \cup {work'.running}
      BY <1>2, <1>5, <2>1, <2>2, <3>1 DEF Unchanged
    <3> QED
      BY <3>2 DEF k_work_delayable_is_pending
  <2>3. CASE i \notin Timers(before)
    BY <1>5, <2>1, <2>3 DEF k_work_delayable_is_pending
  <2> QED
    BY <2>2, <2>3
<1>16. Awaited'
  <2> SUFFICES ASSUME ~late', thread'["wq"].pc = "return", NEW i \in {"wtr", "wtb"},
                      work'.running = i,
                      node'.topreq = IF i = "wtr" THEN ERPS_REQ_WTR_RUNNING
                                     ELSE ERPS_REQ_WTB_RUNNING
               PROVE  FALSE
    BY DEF Awaited
  <2>1. work.running = i /\ Stale
    BY <1>5
  <2>2. t # "wq"
    BY <1>1, <2>1
  <2>3. thread["wq"].pc = "return"
    BY <1>7, <2>2, Basics
  <2>4. node.topreq = node'.topreq
    BY <1>1, <1>2, <2>1, Basics
  <2>5. node.state = "PENDING" /\ node'.state = "PENDING"
    BY <1>1, <1>14, <2>1, Basics
  <2>6. ~late
    BY <1>3, <2>5
  <2> QED
    BY <2>1, <2>3, <2>4, <2>6, Basics DEF IInv, Awaited
<1> QED
  BY <1>8, <1>9, <1>11, <1>12, <1>13, <1>15, <1>16 DEF IInv

(* Waiting for the mutex, or giving up.                                    *)
LEMMA MutexKeeps ==
  ASSUME IInv, NEW t \in Thread, Lock(t) \/ GiveUp(t)
  PROVE  IInv'
<1>0. Types /\ Control
  BY DEF IInv
<1>1. thread[t].pc = "waiting" /\ node' = node /\ work' = work
  BY DEF Lock, GiveUp
<1>2. \A i : Queued(work)' = Queued(work) /\ (Armed(i)' <=> Armed(i))
               /\ (k_work_delayable_is_pending(work, i)' <=>
                     k_work_delayable_is_pending(work, i))
  BY <1>1 DEF Queued, Armed, k_work_delayable_is_pending
<1>3. Separate' /\ Waits' /\ TimersOnlyWhileReverting'
  BY <1>1, <1>2 DEF IInv, Separate, Waits, TimersOnlyWhileReverting
<1>4. CASE Lock(t)
  <2> DEFINE r == [thread[t] EXCEPT !.pc = "locked"]
  <2>1. r \in ThreadSet /\ r.pc = "locked" /\ r.req = thread[t].req
    BY <1>0 DEF Types, ThreadSet
  <2>2. thread' = [thread EXCEPT ![t] = r] /\ late' = late /\ Holder = {}
    BY <1>4 DEF Lock
  <2> HIDE DEF r
  <2>3. /\ thread' \in [Thread -> ThreadSet] /\ thread'[t] = r
        /\ \A u \in Thread \ {t} : thread'[u] = thread[u]
    BY <1>0, <2>1, <2>2, Goes
  <2>4. Types'
    BY <1>0, <1>1, <2>2, <2>3 DEF Types, ThreadSet
  <2>5. Holder' = {t}
    BY <2>1, <2>2, <2>3 DEF Holder
  <2>6. Control'
    BY <1>0, <1>1, <2>1, <2>3, <2>5, Basics DEF Control
  <2>7. Awaited' /\ TopRequestTimed'
    BY <1>1, <1>2, <2>1, <2>2, <2>3, Basics DEF IInv, Awaited, TopRequestTimed
  <2> QED
    BY <1>3, <2>4, <2>6, <2>7 DEF IInv
<1>5. CASE GiveUp(t)
  <2>1. /\ Done(t) \in ThreadSet
        /\ Done(t).pc = IF t = "wq" THEN "return" ELSE "idle"
        /\ Done(t).req = ERPS_REQ_INVALID
    BY Basics DEF ThreadSet
  <2>2. /\ thread' = [thread EXCEPT ![t] = Done(t)]
        /\ late' = (late \/ (t = "wq" /\ node.state = "PENDING"
                               /\ work.running \in {"wtr", "wtb"}))
    BY <1>5 DEF GiveUp
  <2>3. /\ thread' \in [Thread -> ThreadSet] /\ thread'[t] = Done(t)
        /\ \A u \in Thread \ {t} : thread'[u] = thread[u]
    BY <1>0, <2>1, <2>2, Goes
  <2>4. late' \in BOOLEAN /\ (late => late')
    BY <1>0, <2>2 DEF Types
  <2>5. Types'
    BY <1>0, <1>1, <2>3, <2>4 DEF Types, ThreadSet
  <2>6. Holder' \subseteq Holder
    BY <2>1, <2>3 DEF Holder
  <2>7. Control'
    <3>1. \A u \in {"rx", "ctl"} : thread'[u].req \notin TimerRunning \cup Expiries
      BY <1>0, <2>1, <2>3, Basics DEF Control
    <3>2. /\ work'.running = NoItem <=> thread'["wq"].pc = "idle"
          /\ thread'["wq"].pc \in {"waiting", "locked"} =>
               thread'["wq"].req = Expiry(work'.running)
      <4>1. CASE t = "wq"
        BY <1>0, <1>1, <2>1, <2>3, <4>1 DEF Control
      <4>2. CASE t # "wq"
        BY <1>0, <1>1, <2>3, <4>2, Basics DEF Control
      <4> QED
        BY <4>1, <4>2
    <3> QED
      BY <1>0, <1>1, <2>6, <3>1, <3>2 DEF Control
  <2>8. TopRequestTimed'
    BY <1>1, <1>2, <2>4 DEF IInv, TopRequestTimed
  <2>9. Awaited'
    <3>1. CASE t = "wq"
      BY <1>1, <2>2, <3>1, Basics DEF IInv, Awaited, Waits
    <3>2. CASE t # "wq"
      BY <1>1, <2>3, <2>4, <3>2, Basics DEF IInv, Awaited
    <3> QED
      BY <3>1, <3>2
  <2> QED
    BY <1>3, <2>5, <2>7, <2>8, <2>9 DEF IInv
<1> QED
  BY <1>4, <1>5

(* A receiver or a caller that begins to wait; a link that changes and the *)
(* guard timer touch the node, but nothing the invariant speaks of.        *)
LEMMA CallKeeps ==
  ASSUME IInv, NEW t \in {"rx", "ctl"}, NEW l \in Port,
         NEW req \in Request, req \notin TimerRunning \cup Expiries,
         Call(t, l, req) \/ thread' = thread,
         work' = work, late' = late, node' \in Node,
         node'.ok <=> node.ok, node'.role = node.role,
         node'.revertive <=> node.revertive,
         node'.state = node.state, node'.topreq = node.topreq
  PROVE  IInv'
<1>0. Types /\ Control
  BY DEF IInv
<1>1. \A i : Queued(work)' = Queued(work) /\ (Armed(i)' <=> Armed(i))
               /\ (k_work_delayable_is_pending(work, i)' <=>
                     k_work_delayable_is_pending(work, i))
  BY DEF Queued, Armed, k_work_delayable_is_pending
<1>2. Separate' /\ Waits' /\ TimersOnlyWhileReverting' /\ TopRequestTimed'
  BY <1>1 DEF IInv, Separate, Waits, TimersOnlyWhileReverting, TopRequestTimed
<1>3. RevertiveOwner(node')
  BY <1>0 DEF Control, RevertiveOwner, erps_node_is_rpl_owner
<1>4. CASE thread' = thread
  <2>1. Types' /\ Control'
    BY <1>0, <1>3, <1>4 DEF Types, Control, Holder
  <2>2. Awaited'
    BY <1>4 DEF IInv, Awaited
  <2> QED
    BY <1>2, <2>1, <2>2 DEF IInv
<1>5. CASE Call(t, l, req)
  <2> DEFINE r == Waiting(l, req)
  <2>1. r \in ThreadSet /\ r.pc = "waiting" /\ r.req = req
    BY DEF ThreadSet, Waiting
  <2>2. thread' = [thread EXCEPT ![t] = r] /\ t \in Thread
    BY <1>5, Basics DEF Call
  <2> HIDE DEF r
  <2>3. /\ thread' \in [Thread -> ThreadSet] /\ thread'[t] = r
        /\ \A u \in Thread \ {t} : thread'[u] = thread[u]
    BY <1>0, <2>1, <2>2, Goes
  <2>4. thread'["wq"] = thread["wq"]
    BY <2>3, Basics
  <2>5. Types'
    BY <1>0, <2>3 DEF Types, ThreadSet
  <2>6. Holder' \subseteq Holder
    BY <2>1, <2>3 DEF Holder
  <2>7. \A u \in {"rx", "ctl"} : thread'[u].req \notin TimerRunning \cup Expiries
    BY <1>0, <2>1, <2>3, Basics DEF Control
  <2>8. Control'
    BY <1>0, <1>3, <2>4, <2>6, <2>7 DEF Control
  <2>9. Awaited'
    BY <2>4 DEF IInv, Awaited
  <2> QED
    BY <1>2, <2>5, <2>8, <2>9 DEF IInv
<1> QED
  BY <1>4, <1>5

(* The queue's thread takes an item.                                       *)
LEMMA TakeKeeps ==
  ASSUME IInv, TakeItem
  PROVE  IInv'
<1> DEFINE i == Head(work.queue)
           r == Waiting(0, Expiry(i))
<1>0. Types /\ Control /\ Separate
  BY DEF IInv
<1>1. /\ work.running = NoItem /\ work.queue # <<>> /\ work' = WorkTaken(work)
      /\ thread["wq"] = Idle /\ thread' = [thread EXCEPT !["wq"] = r]
      /\ node' = node /\ late' = late
  BY DEF TakeItem, Call
<1>2. /\ K!Sane(work') /\ work'.delayed = work.delayed /\ work'.running = i
      /\ i \in Item /\ i \in Queued(work)
      /\ Queued(work') = Queued(work) \ {i} /\ work'.canceling = {}
  <2>1. work' = K!WorkTaken(work)
    BY <1>1, SameCalls
  <2>2. /\ K!Sane(work') /\ work'.delayed = work.delayed /\ work'.running = Head(work.queue)
        /\ work'.running \in Item /\ work'.running \in K!Queued(work)
        /\ K!Queued(work') = K!Queued(work) \ {work'.running} /\ work'.canceling = {}
    BY <1>0, <1>1, <2>1, Basics, K!ItemTaken DEF Types
  <2> QED
    BY <2>2, SameCalls
<1> HIDE DEF i
<1>3. r \in ThreadSet /\ r.pc = "waiting" /\ r.req = Expiry(i)
  BY <1>2, Basics DEF ThreadSet, Waiting
<1> HIDE DEF r
<1>4. /\ thread' \in [Thread -> ThreadSet] /\ thread'["wq"] = r
      /\ \A u \in Thread \ {"wq"} : thread'[u] = thread[u]
  BY <1>0, <1>1, <1>3, Basics, Goes
<1>5. Types'
  BY <1>0, <1>1, <1>2, <1>4 DEF Types, ThreadSet
<1>6. Holder' \subseteq Holder
  BY <1>3, <1>4 DEF Holder
<1>7. Control'
  BY <1>0, <1>1, <1>2, <1>3, <1>4, <1>6, Basics DEF Control
<1>8. Separate'
  BY <1>0, <1>2 DEF Separate, Queued
<1>9. Waits' /\ TimersOnlyWhileReverting'
  BY <1>1, <1>2 DEF IInv, Waits, TimersOnlyWhileReverting, Armed, Queued
<1>10. Awaited'
  BY <1>3, <1>4 DEF Awaited
<1>11. ASSUME NEW j \in Item, k_work_delayable_is_pending(work, j)
       PROVE  k_work_delayable_is_pending(work', j)
  BY <1>0, <1>1, <1>2, <1>11, Basics
  DEF k_work_delayable_is_pending, Types, K!Sane
<1>12. TopRequestTimed'
  BY <1>1, <1>11, Basics DEF IInv, TopRequestTimed
<1> QED
  BY <1>5, <1>7, <1>8, <1>9, <1>10, <1>12 DEF IInv

(* A handler returns: its item is no longer pending.                       *)
LEMMA ReturnKeeps ==
  ASSUME IInv, Return
  PROVE  IInv'
<1>0. Types /\ Control /\ Separate /\ Awaited
  BY DEF IInv
<1>1. /\ thread["wq"].pc = "return" /\ work' = HandlerReturned(work)
      /\ thread' = [thread EXCEPT !["wq"] = Idle] /\ node' = node /\ late' = late
  BY DEF Return
<1>2. /\ K!Sane(work') /\ work'.delayed = work.delayed /\ work'.running = NoItem
      /\ Queued(work') = Queued(work) /\ work'.canceling = {}
  <2>1. work' = K!HandlerReturned(work)
    BY <1>1, SameCalls
  <2>2. /\ K!Sane(work') /\ work'.delayed = work.delayed /\ work'.queue = work.queue
        /\ work'.running = NoItem /\ work'.canceling = {}
    BY <1>0, <2>1, K!Returned DEF Types
  <2> QED
    BY <2>2 DEF Queued
<1>3. Idle \in ThreadSet /\ Idle.pc = "idle"
  BY Basics DEF ThreadSet
<1>4. /\ thread' \in [Thread -> ThreadSet] /\ thread'["wq"] = Idle
      /\ \A u \in Thread \ {"wq"} : thread'[u] = thread[u]
  BY <1>0, <1>1, <1>3, Basics, Goes
<1>5. Types'
  BY <1>0, <1>1, <1>2, <1>4 DEF Types, ThreadSet
<1>6. Holder' \subseteq Holder
  BY <1>3, <1>4 DEF Holder
<1>7. Control'
  BY <1>0, <1>1, <1>2, <1>3, <1>4, <1>6, Basics DEF Control
<1>8. Separate'
  <2>1. work.delayed \subseteq Item /\ Queued(work) \subseteq Item
    BY <1>0 DEF Types, K!Sane, K!Work, Queued, ToSet
  <2> QED
    BY <1>0, <1>2, <2>1, Basics DEF Separate, Queued
<1>9. Waits' /\ TimersOnlyWhileReverting'
  BY <1>1, <1>2 DEF IInv, Waits, TimersOnlyWhileReverting, Armed, Queued
<1>10. Awaited'
  BY <1>3, <1>4 DEF Awaited
<1>11. ASSUME NEW j \in Item, j # work.running, k_work_delayable_is_pending(work, j)
       PROVE  k_work_delayable_is_pending(work', j)
  BY <1>0, <1>2, <1>11 DEF k_work_delayable_is_pending, Types, K!Sane
<1>12. TopRequestTimed'
  BY <1>0, <1>1, <1>11, Basics DEF IInv, TopRequestTimed, Awaited
<1> QED
  BY <1>5, <1>7, <1>8, <1>9, <1>10, <1>12 DEF IInv

(* A timeout ends: the item is queued, since nothing that is delayed is    *)
(* being cancelled.                                                        *)
LEMMA TimeoutKeeps ==
  ASSUME IInv, NEW i \in Item, TimeoutEnds(i)
  PROVE  IInv'
<1>0. Types /\ Control /\ Separate
  BY DEF IInv
<1>1. /\ i \in work.delayed /\ work' = work_timeout(work, i)
      /\ thread' = thread /\ node' = node /\ late' = late
  BY DEF TimeoutEnds
<1>2. /\ K!Sane(work') /\ work'.delayed = work.delayed \ {i}
      /\ work'.running = work.running /\ work'.canceling = work.canceling
      /\ Queued(work') = Queued(work) \cup {i}
  <2>1. work' = K!work_timeout(work, i)
    BY <1>1, SameCalls
  <2>2. i \notin work.canceling
    BY <1>0, <1>1 DEF Types, K!Sane, Separate
  <2>3. /\ K!Sane(work') /\ work'.delayed = work.delayed \ {i}
        /\ work'.running = work.running /\ work'.canceling = work.canceling
        /\ K!Queued(work') = IF i \in work.canceling THEN K!Queued(work)
                             ELSE K!Queued(work) \cup {i}
    BY <1>0, <1>1, <2>1, K!TimeoutEnded DEF Types
  <2> QED
    BY <2>2, <2>3, SameCalls
<1>3. Types' /\ Control'
  BY <1>0, <1>1, <1>2 DEF Types, Control, Holder
<1>4. Separate'
  BY <1>0, <1>1, <1>2 DEF Separate, Queued
<1>5. \A j : /\ Armed(j)' <=> Armed(j)
             /\ k_work_delayable_is_pending(work, j)'
                  <=> k_work_delayable_is_pending(work, j)
  BY <1>1, <1>2 DEF Armed, k_work_delayable_is_pending, Queued
<1>6. Waits' /\ TimersOnlyWhileReverting' /\ TopRequestTimed' /\ Awaited'
  BY <1>1, <1>2, <1>5
  DEF IInv, Waits, TimersOnlyWhileReverting, TopRequestTimed, Awaited
<1> QED
  BY <1>3, <1>4, <1>6 DEF IInv

(* Every step keeps the invariant.                                         *)
LEMMA StepKeeps == IInv /\ [Next]_vars => IInv'
<1> SUFFICES ASSUME IInv, [Next]_vars PROVE IInv'
  OBVIOUS
<1>0. node \in Node
  BY DEF IInv, Types
<1>1. /\ Remote \subseteq Request /\ Remote \cap (TimerRunning \cup Expiries) = {}
      /\ \A c \in Commands : /\ c[1] \in Port /\ c[2] \in Request
                             /\ c[2] \notin TimerRunning \cup Expiries
      /\ Flapping \subseteq Port
  BY ThreadsAssumption
  DEF Request, TimerRunning, Expiries, ERPS_REQ_CLEAR, ERPS_REQ_FS, ERPS_REQ_RAPS_FS,
      ERPS_REQ_RAPS_SF, ERPS_REQ_RAPS_MS, ERPS_REQ_MS, ERPS_REQ_WTR_EXPIRES,
      ERPS_REQ_WTR_RUNNING, ERPS_REQ_WTB_EXPIRES, ERPS_REQ_WTB_RUNNING,
      ERPS_REQ_RAPS_NR
<1>2. /\ ERPS_REQ_SF \in Request \ (TimerRunning \cup Expiries)
      /\ ERPS_REQ_CLEAR_SF \in Request \ (TimerRunning \cup Expiries)
  BY DEF Request, TimerRunning, Expiries, ERPS_REQ_CLEAR, ERPS_REQ_SF,
         ERPS_REQ_CLEAR_SF, ERPS_REQ_WTR_EXPIRES, ERPS_REQ_WTR_RUNNING,
         ERPS_REQ_WTB_EXPIRES, ERPS_REQ_WTB_RUNNING, ERPS_REQ_RAPS_NR
<1>3. ASSUME NEW req \in Remote, erps_raps_recv(req) PROVE IInv'
  BY <1>0, <1>1, <1>3, Basics, CallKeeps DEF erps_raps_recv
<1>4. ASSUME NEW c \in Commands, net_erps_ctl(c[1], c[2]) PROVE IInv'
  BY <1>0, <1>1, <1>4, CallKeeps DEF net_erps_ctl
<1>5. ASSUME NEW l \in Flapping, NEW q \in SUBSET Port, node' = [node EXCEPT !.up = q]
      PROVE  /\ l \in Port /\ node' \in Node /\ (node'.ok <=> node.ok)
             /\ node'.role = node.role /\ (node'.revertive <=> node.revertive)
             /\ node'.state = node.state /\ node'.topreq = node.topreq
  BY <1>0, <1>1, <1>5 DEF Node
<1>6. ASSUME NEW l \in Flapping, CarrierLost(l) PROVE IInv'
  <2>1. node.up \ {l} \in SUBSET Port /\ node' = [node EXCEPT !.up = node.up \ {l}]
    BY <1>0, <1>6 DEF CarrierLost, Node
  <2> QED
    BY <1>2, <1>5, <1>6, <2>1, CallKeeps DEF CarrierLost
<1>7. ASSUME NEW l \in Flapping, CarrierRestored(l) PROVE IInv'
  <2>1. /\ node.up \cup {l} \in SUBSET Port
        /\ node' = [node EXCEPT !.up = node.up \cup {l}]
    BY <1>0, <1>1, <1>7 DEF CarrierRestored, Node
  <2> QED
    BY <1>2, <1>5, <1>7, <2>1, CallKeeps DEF CarrierRestored
<1>8. CASE GuardTimerExpires \/ UNCHANGED vars
  <2>1. /\ node' \in Node /\ (node'.ok <=> node.ok)
        /\ node'.role = node.role /\ (node'.revertive <=> node.revertive)
        /\ node'.state = node.state /\ node'.topreq = node.topreq
    BY <1>0, <1>8 DEF GuardTimerExpires, vars, Node
  <2>2. work' = work /\ late' = late /\ thread' = thread
    BY <1>8 DEF GuardTimerExpires, vars
  <2> QED
    BY <1>2, <2>1, <2>2, Basics, CallKeeps
<1>9. ASSUME NEW t \in Thread, Lock(t) \/ GiveUp(t) \/ Process(t) PROVE IInv'
  BY <1>9, MutexKeeps, ProcessKeeps
<1>10. CASE TakeItem \/ Return \/ \E i \in Item : TimeoutEnds(i)
  BY <1>10, TakeKeeps, ReturnKeeps, TimeoutKeeps
<1> QED
  BY <1>3, <1>4, <1>6, <1>7, <1>8, <1>9, <1>10 DEF Next

(* The invariant is one.                                                   *)
LEMMA IInvAlways == Spec => []IInv
BY InitHolds, StepKeeps, PTL DEF Spec

-----------------------------------------------------------------------------
(***************************************************************************)
(* Theorems.                                                               *)
(***************************************************************************)

(* The node and the queue keep their types, whatever the threads do to     *)
(* each other, and fsm_mutex has one holder at most.                       *)
THEOREM TypeCorrect == Spec => []TypeOK
<1>1. IInv => TypeOK
  BY SameCalls DEF IInv, Types, Control, TypeOK, K!Sane
<1> QED
  BY <1>1, IInvAlways, PTL

(* No wait-to-restore or wait-to-block timeout is running or queued once   *)
(* the node has left PENDING, although posts wait for the mutex, give up,  *)
(* and find a timer pending whose handler is still running.                *)
THEOREM TimersCorrect == Spec => []TimersOnlyWhileReverting
<1>1. IInv => TimersOnlyWhileReverting
  BY DEF IInv
<1> QED
  BY <1>1, IInvAlways, PTL

(* A top request WTR_RUNNING or WTB_RUNNING names a timer that is pending, *)
(* unless a timer's handler gave up on the mutex or was running when the   *)
(* wait began.                                                             *)
THEOREM RunningTimed == Spec => []TopRequestTimed
<1>1. IInv => TopRequestTimed
  BY DEF IInv
<1> QED
  BY <1>1, IInvAlways, PTL
=============================================================================
