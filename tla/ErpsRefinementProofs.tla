------------------------- MODULE ErpsRefinementProofs -------------------------
(***************************************************************************)
(* ErpsNode implements ErpsService, for every set of roles and of remote   *)
(* PDUs, if no call fails and no other node claims to be the owner.        *)
(*                                                                         *)
(* Outcome(m, n, s, b, a) follows a record through a handler: m is n after *)
(* calls that end with state s, the ports b blocked and a announced.  Each *)
(* call has a lemma, a handler composes them, and Move says of a whole     *)
(* post which step of ErpsService it is.  Two facts about the states are   *)
(* needed: in IDLE exactly the home cut is in place, and in PENDING no     *)
(* lasting local request is recorded, so that a CLEAR is the owner's.      *)
(***************************************************************************)
EXTENDS ErpsRefinement, ErpsNodeProofs

(* The top request is the old one, or that of a timer just started.        *)
Outcome(m, n, s, b, a) ==
  /\ m \in Node /\ m.ok /\ m.role = n.role
  /\ m.topreq \in {n.topreq} \cup TimerRunning
  /\ m.state = s /\ m.blocked = b /\ Announced(m) = a

-----------------------------------------------------------------------------
(***************************************************************************)
(* The calls.                                                              *)
(***************************************************************************)

(* Outcomes compose.                                                       *)
LEMMA OutcomeChain ==
  ASSUME NEW n, NEW m, NEW k, NEW s, NEW b, NEW a, NEW t, NEW c, NEW d,
         Outcome(m, n, s, b, a), Outcome(k, m, t, c, d)
  PROVE  Outcome(k, n, t, c, d)
BY DEF Outcome

(* A call that cannot fail blocks its port.                                *)
LEMMA BlockOutcome ==
  ASSUME NEW n \in Node, n.ok, NEW p \in Port
  PROVE  Outcome(erps_link_block(n, p, NoFault), n, n.state,
                 n.blocked \cup {p}, Announced(n))
<1> DEFINE m == erps_link_block(n, p, NoFault)
<1>1. m \in Node
  BY BlockType
<1>2. /\ m.ok /\ m.role = n.role /\ m.topreq = n.topreq /\ m.state = n.state
      /\ m.blocked = n.blocked \cup {p} /\ m.pdu = n.pdu
  BY DEF erps_link_block, NoFault, Node
<1> QED
  BY <1>1, <1>2 DEF Outcome, Announced

(* A call that cannot fail opens its port.                                 *)
LEMMA UnblockOutcome ==
  ASSUME NEW n \in Node, n.ok, NEW p \in Port
  PROVE  Outcome(erps_link_unblock(n, p, NoFault), n, n.state,
                 n.blocked \ {p}, Announced(n))
<1> DEFINE m == erps_link_unblock(n, p, NoFault)
<1>1. m \in Node
  BY UnblockType
<1>2. /\ m.ok /\ m.role = n.role /\ m.topreq = n.topreq /\ m.state = n.state
      /\ m.blocked = n.blocked \ {p} /\ m.pdu = n.pdu
  BY DEF erps_link_unblock, NoFault, Node
<1> QED
  BY <1>1, <1>2 DEF Outcome, Announced

(* Scheduling a PDU changes what the node says.                            *)
LEMMA SchedTxOutcome ==
  ASSUME NEW n \in Node, n.ok, NEW rs \in {"NR", "MS", "SF", "FS"},
         NEW status \in SUBSET {"RB", "DNF"}
  PROVE  Outcome(erps_node_sched_tx(n, rs, status), n, n.state, n.blocked,
                 IF "RB" \in status THEN "NR,RB" ELSE rs)
<1> DEFINE m == erps_node_sched_tx(n, rs, status)
<1>1. m \in Node
  BY SchedTxType
<1>2. /\ m.ok /\ m.role = n.role /\ m.topreq = n.topreq /\ m.state = n.state
      /\ m.blocked = n.blocked
      /\ m.pdu.rs = rs /\ m.pdu.status = status
  BY DEF erps_node_sched_tx, Node
<1> QED
  BY <1>1, <1>2 DEF Outcome, Announced

(* Calls that touch neither ports nor PDU nor state.                       *)
LEMMA SimpleOutcomes ==
  ASSUME NEW n \in Node, n.ok
  PROVE  /\ Outcome(n, n, n.state, n.blocked, Announced(n))
         /\ Outcome(erps_node_stop_tx(n), n, n.state, n.blocked, Announced(n))
         /\ Outcome(erps_flush_fdb(n, NoFault), n, n.state, n.blocked, Announced(n))
         /\ Outcome(erps_node_start_guard_timer(n), n, n.state, n.blocked, Announced(n))
         /\ Outcome(OwnerStopsTimers(n), n, n.state, n.blocked, Announced(n))
         /\ Outcome([n EXCEPT !.wtr = FALSE], n, n.state, n.blocked, Announced(n))
         /\ Outcome([n EXCEPT !.wtb = FALSE], n, n.state, n.blocked, Announced(n))
         /\ \A s \in State :
              Outcome(erps_fsm_transition(n, s), n, s, n.blocked, Announced(n))
<1> DEFINE Undisturbed(m) ==
             /\ m.ok /\ m.role = n.role /\ m.topreq = n.topreq
             /\ m.state = n.state /\ m.blocked = n.blocked /\ m.pdu = n.pdu
<1>1. ASSUME NEW m \in Node, Undisturbed(m)
      PROVE  Outcome(m, n, n.state, n.blocked, Announced(n))
  BY <1>1 DEF Outcome, Announced
<1>2. Undisturbed(n)
  OBVIOUS
<1>3. Undisturbed(erps_node_stop_tx(n))
  BY DEF erps_node_stop_tx, Node
<1>4. Undisturbed(erps_flush_fdb(n, NoFault))
  BY DEF erps_flush_fdb, NoFault, Node
<1>5. Undisturbed(erps_node_start_guard_timer(n))
  BY DEF erps_node_start_guard_timer, Node
<1>6. Undisturbed(OwnerStopsTimers(n))
  BY DEF OwnerStopsTimers, Node
<1>7. Undisturbed([n EXCEPT !.wtr = FALSE]) /\ Undisturbed([n EXCEPT !.wtb = FALSE])
  BY DEF Node
<1>8. ASSUME NEW s \in State
      PROVE  Outcome(erps_fsm_transition(n, s), n, s, n.blocked, Announced(n))
  <2> DEFINE m == erps_fsm_transition(n, s)
  <2>1. m \in Node
    BY SimpleTypes
  <2>2. /\ m.ok /\ m.role = n.role /\ m.topreq = n.topreq /\ m.state = s
        /\ m.blocked = n.blocked /\ m.pdu = n.pdu
    BY DEF erps_fsm_transition, Node
  <2> QED
    BY <2>1, <2>2 DEF Outcome, Announced
<1> HIDE DEF Undisturbed
<1> QED
  BY <1>1, <1>2, <1>3, <1>4, <1>5, <1>6, <1>7, <1>8, SimpleTypes, TimerTypes

(* Starting a timer may change the top request, and nothing else.          *)
LEMMA StartOutcomes ==
  ASSUME NEW n \in Node, n.ok
  PROVE  /\ Outcome(OwnerStartsWtr(n), n, n.state, n.blocked, Announced(n))
         /\ Outcome(OwnerStartsWtb(n), n, n.state, n.blocked, Announced(n))
         /\ Outcome(AnnounceNoRequest(n), n, n.state, n.blocked, "NR")
<1>1. ASSUME NEW t \in TimerRunning,
             NEW m \in {[erps_fsm_resolve_req_prio(n, t) EXCEPT !.wtr = TRUE],
                        [erps_fsm_resolve_req_prio(n, t) EXCEPT !.wtb = TRUE]}
      PROVE  Outcome(m, n, n.state, n.blocked, Announced(n))
  <2> DEFINE r == erps_fsm_resolve_req_prio(n, t)
  <2>1. r \in Node
    BY ResolveType
  <2>2. t \in LocalRequest
    BY DEF TimerRunning, LocalRequest
  <2>3. /\ r.ok /\ r.role = n.role /\ r.topreq \in {n.topreq, t}
        /\ r.state = n.state /\ r.blocked = n.blocked /\ r.pdu = n.pdu
    BY <2>2 DEF erps_fsm_resolve_req_prio, Node
  <2> HIDE DEF r
  <2>4. /\ m.ok /\ m.role = n.role /\ m.topreq \in {n.topreq, t}
        /\ m.state = n.state /\ m.blocked = n.blocked /\ m.pdu = n.pdu
    BY <2>1, <2>3 DEF r, Node
  <2>5. m \in Node
    BY <2>1, TimerTypes DEF r
  <2> QED
    BY <2>4, <2>5 DEF Outcome, Announced
<1>2. /\ Outcome(erps_node_start_wtr(n), n, n.state, n.blocked, Announced(n))
      /\ Outcome(erps_node_start_wtb(n), n, n.state, n.blocked, Announced(n))
  BY <1>1, SimpleOutcomes
  DEF erps_node_start_wtr, erps_node_start_wtb, TimerRunning
<1>3. Outcome(AnnounceNoRequest(n), n, n.state, n.blocked, "NR")
  <2> DEFINE g == erps_node_start_guard_timer(n)
  <2>1. Outcome(g, n, n.state, n.blocked, Announced(n))
    BY SimpleOutcomes
  <2>2. g \in Node /\ g.ok /\ g.state = n.state /\ g.blocked = n.blocked
    BY <2>1 DEF Outcome
  <2> HIDE DEF g
  <2>3. Outcome(erps_node_sched_tx(g, "NR", {}), g, g.state, g.blocked, "NR")
    BY <2>2, SchedTxOutcome
  <2> QED
    BY <2>1, <2>2, <2>3, OutcomeChain DEF AnnounceNoRequest, g
<1> QED
  BY <1>2, <1>3, SimpleOutcomes DEF OwnerStartsWtr, OwnerStartsWtb

(* The calls that work on both ports.                                      *)
LEMMA UnblockAllOutcomes ==
  ASSUME NEW n \in Node, n.ok
  PROVE  /\ Outcome(erps_node_unblock_all(n, NoFault), n, n.state, {}, Announced(n))
         /\ \E b \in SUBSET n.blocked :
              Outcome(erps_node_unblock_non_failed(n, NoFault), n, n.state, b,
                      Announced(n))
<1>0. 0 \in Port /\ 1 \in Port /\ n.blocked \subseteq {0, 1}
  BY DEF Port, Node
<1>1. Outcome(erps_node_unblock_all(n, NoFault), n, n.state, {}, Announced(n))
  <2> DEFINE m == erps_link_unblock(n, 0, NoFault)
             k == erps_link_unblock(m, 1, NoFault)
  <2>1. Outcome(m, n, n.state, n.blocked \ {0}, Announced(n))
    BY <1>0, UnblockOutcome
  <2>2. /\ m \in Node /\ m.ok /\ m.state = n.state /\ m.blocked = n.blocked \ {0}
        /\ Announced(m) = Announced(n)
    BY <2>1 DEF Outcome
  <2> HIDE DEF m
  <2>3. Outcome(k, m, m.state, m.blocked \ {1}, Announced(m))
    BY <1>0, <2>2, UnblockOutcome
  <2>4. m.blocked \ {1} = {}
    BY <1>0, <2>2
  <2> QED
    BY <2>1, <2>2, <2>3, <2>4, OutcomeChain DEF erps_node_unblock_all, m
<1>2. ASSUME NEW m \in Node, m.ok, NEW p \in Port
      PROVE  \E b \in SUBSET m.blocked :
               Outcome(UnblockIfNotFailed(m, p, NoFault), m, m.state, b, Announced(m))
  <2>1. CASE p \in m.failed
    BY <1>2, <2>1, SimpleOutcomes DEF UnblockIfNotFailed
  <2>2. CASE p \notin m.failed
    <3>1. m.blocked \ {p} \in SUBSET m.blocked
      OBVIOUS
    <3>2. UnblockIfNotFailed(m, p, NoFault) = erps_link_unblock(m, p, NoFault)
      BY <2>2 DEF UnblockIfNotFailed
    <3> QED
      BY <1>2, <3>1, <3>2, UnblockOutcome
  <2> QED
    BY <2>1, <2>2
<1>3. \E b \in SUBSET n.blocked :
        Outcome(erps_node_unblock_non_failed(n, NoFault), n, n.state, b, Announced(n))
  <2> DEFINE m == UnblockIfNotFailed(n, 0, NoFault)
             k == UnblockIfNotFailed(m, 1, NoFault)
  <2>1. PICK b \in SUBSET n.blocked : Outcome(m, n, n.state, b, Announced(n))
    BY <1>0, <1>2
  <2>2. /\ m \in Node /\ m.ok /\ m.state = n.state /\ m.blocked = b
        /\ Announced(m) = Announced(n)
    BY <2>1 DEF Outcome
  <2>3. erps_node_unblock_non_failed(n, NoFault) = k
    BY DEF erps_node_unblock_non_failed
  <2> HIDE DEF m
  <2>4. PICK c \in SUBSET m.blocked : Outcome(k, m, m.state, c, Announced(m))
    BY <1>0, <1>2, <2>2
  <2> HIDE DEF k
  <2>5. c \in SUBSET n.blocked
    BY <2>2, <2>4
  <2>6. Outcome(k, n, n.state, c, Announced(n))
    BY <2>1, <2>2, <2>4, OutcomeChain
  <2> QED
    BY <2>3, <2>5, <2>6
<1> QED
  BY <1>1, <1>3

-----------------------------------------------------------------------------
(***************************************************************************)
(* The handlers.                                                           *)
(***************************************************************************)

(* A transition after calls whose outcome is known.                        *)
LEMMA TransitionOutcome ==
  ASSUME NEW n, NEW m, NEW s, NEW b, NEW a, Outcome(m, n, s, b, a),
         NEW next \in State
  PROVE  Outcome(erps_fsm_transition(m, next), n, next, b, a)
<1>1. m \in Node /\ m.ok /\ m.blocked = b /\ Announced(m) = a
  BY DEF Outcome
<1>2. Outcome(erps_fsm_transition(m, next), m, next, m.blocked, Announced(m))
  BY <1>1, SimpleOutcomes
<1> QED
  BY <1>1, <1>2, OutcomeChain

(* Blocking a port, saying so, perhaps opening the other and flushing.     *)
LEMMA CutOutcomes ==
  ASSUME NEW n \in Node, n.ok, NEW p \in Port, NEW rs \in {"NR", "MS", "SF", "FS"},
         NEW status \in SUBSET {"RB", "DNF"}
  PROVE  LET a     == IF "RB" \in status THEN "NR,RB" ELSE rs
             sent  == erps_node_sched_tx(erps_link_block(n, p, NoFault), rs, status)
             alone == erps_link_unblock(sent, erps_node_other_link(p), NoFault)
         IN  /\ Outcome(sent, n, n.state, n.blocked \cup {p}, a)
             /\ Outcome(erps_flush_fdb(sent, NoFault), n, n.state,
                        n.blocked \cup {p}, a)
             /\ Outcome(alone, n, n.state, {p}, a)
             /\ Outcome(erps_flush_fdb(alone, NoFault), n, n.state, {p}, a)
<1> DEFINE a     == IF "RB" \in status THEN "NR,RB" ELSE rs
           blk   == erps_link_block(n, p, NoFault)
           sent  == erps_node_sched_tx(blk, rs, status)
           q     == erps_node_other_link(p)
           alone == erps_link_unblock(sent, q, NoFault)
<1>1. Outcome(blk, n, n.state, n.blocked \cup {p}, Announced(n))
  BY BlockOutcome
<1>2. blk \in Node /\ blk.ok /\ blk.state = n.state /\ blk.blocked = n.blocked \cup {p}
  BY <1>1 DEF Outcome
<1>3. Outcome(sent, n, n.state, n.blocked \cup {p}, a)
  <2> HIDE DEF blk
  <2>1. Outcome(sent, blk, blk.state, blk.blocked, a)
    BY <1>2, SchedTxOutcome
  <2> HIDE DEF sent, a
  <2>2. Outcome(sent, n, blk.state, blk.blocked, a)
    BY <1>1, <2>1, OutcomeChain
  <2> QED
    BY <1>2, <2>2
<1>4. /\ sent \in Node /\ sent.ok /\ sent.state = n.state
      /\ sent.blocked = n.blocked \cup {p} /\ Announced(sent) = a
  BY <1>3 DEF Outcome
<1> HIDE DEF sent, blk, a
<1>5. ASSUME NEW m, NEW b, Outcome(m, n, n.state, b, a)
      PROVE  Outcome(erps_flush_fdb(m, NoFault), n, n.state, b, a)
  <2>1. /\ m \in Node /\ m.ok /\ m.state = n.state /\ m.blocked = b
        /\ Announced(m) = a
    BY <1>5 DEF Outcome
  <2>2. Outcome(erps_flush_fdb(m, NoFault), m, m.state, m.blocked, Announced(m))
    BY <2>1, SimpleOutcomes
  <2> QED
    BY <1>5, <2>1, <2>2, OutcomeChain
<1>6. Outcome(alone, n, n.state, {p}, a)
  <2>1. q \in Port /\ (n.blocked \cup {p}) \ {q} = {p}
    BY DEF erps_node_other_link, Port, Node
  <2> HIDE DEF q
  <2>2. Outcome(alone, sent, sent.state, sent.blocked \ {q}, Announced(sent))
    BY <1>4, <2>1, UnblockOutcome
  <2> QED
    BY <1>3, <1>4, <2>1, <2>2, OutcomeChain
<1> QED
  BY <1>3, <1>5, <1>6 DEF a, sent, blk

(* A local FS, SF or MS: its port and no other is blocked.                 *)
LEMMA SwitchOutcome ==
  ASSUME NEW n \in Node, n.ok, NEW l \in Port, NEW rs \in {"MS", "SF", "FS"},
         NEW next \in State
  PROVE  Outcome(erps_fsm_fs_sf_ms(n, l, rs, next, NoFault), n, next, {l}, rs)
<1> DEFINE status == IF l \in n.blocked THEN {"DNF"} ELSE {}
           sent   == erps_node_sched_tx(erps_link_block(n, l, NoFault), rs, status)
           alone  == erps_link_unblock(sent, erps_node_other_link(l), NoFault)
           last   == IF l \in n.blocked THEN alone ELSE erps_flush_fdb(alone, NoFault)
<1>1. status \in SUBSET {"RB", "DNF"} /\ "RB" \notin status
  OBVIOUS
<1>2. erps_fsm_fs_sf_ms(n, l, rs, next, NoFault) = erps_fsm_transition(last, next)
  BY DEF erps_fsm_fs_sf_ms
<1> HIDE DEF status
<1>3. rs \in {"NR", "MS", "SF", "FS"} /\ (IF "RB" \in status THEN "NR,RB" ELSE rs) = rs
  BY <1>1
<1>4. /\ Outcome(alone, n, n.state, {l}, rs)
      /\ Outcome(erps_flush_fdb(alone, NoFault), n, n.state, {l}, rs)
  <2> DEFINE a == IF "RB" \in status THEN "NR,RB" ELSE rs
  <2>0. rs \in {"NR", "MS", "SF", "FS"} /\ status \in SUBSET {"RB", "DNF"}
    BY <1>1, <1>3
  <2>1. /\ Outcome(alone, n, n.state, {l}, a)
        /\ Outcome(erps_flush_fdb(alone, NoFault), n, n.state, {l}, a)
    BY <2>0, CutOutcomes, ZenonT(60)
  <2>2. a = rs
    BY <1>3
  <2> HIDE DEF a, alone
  <2> QED
    BY <2>1, <2>2
<1> HIDE DEF alone
<1>5. Outcome(last, n, n.state, {l}, rs)
  BY <1>4
<1> HIDE DEF last
<1> QED
  BY <1>2, <1>5, TransitionOutcome

(* A second forced switch blocks its port too.                             *)
LEMMA SecondSwitchOutcome ==
  ASSUME NEW n \in Node, n.ok, NEW l \in Port
  PROVE  Outcome(erps_fsm_fs_fs(n, l, NoFault), n, n.state, n.blocked \cup {l}, "FS")
<1>1. {} \in SUBSET {"RB", "DNF"} /\ "RB" \notin {}
  OBVIOUS
<1> QED
  BY <1>1, CutOutcomes DEF erps_fsm_fs_fs

(* The end of the wait: the RPL and no other port is blocked.              *)
LEMMA RestoreOutcome ==
  ASSUME NEW n \in Node, n.ok
  PROVE  Outcome(erps_fsm_timer_expires_pending(n, NoFault), n, "IDLE", {Rpl}, "NR,RB")
<1> DEFINE status == IF Rpl \in n.blocked THEN {"RB", "DNF"} ELSE {"RB"}
           sent   == erps_node_sched_tx(erps_link_block(n, Rpl, NoFault), "NR", status)
           alone  == erps_link_unblock(sent, erps_node_other_link(Rpl), NoFault)
           last   == IF Rpl \in n.blocked THEN alone ELSE erps_flush_fdb(alone, NoFault)
<1>1. status \in SUBSET {"RB", "DNF"} /\ "RB" \in status /\ Rpl \in Port
  BY DEF Port, Rpl
<1>2. erps_fsm_timer_expires_pending(n, NoFault) = erps_fsm_transition(last, "IDLE")
  BY DEF erps_fsm_timer_expires_pending
<1> HIDE DEF status
<1>3. Outcome(last, n, n.state, {Rpl}, "NR,RB")
  BY <1>1, CutOutcomes
<1> HIDE DEF last
<1> QED
  BY <1>2, <1>3, TransitionOutcome DEF State

(* The owner stops its timers last.                                        *)
LEMMA StopsOutcome ==
  ASSUME NEW n, NEW m, NEW s, NEW b, NEW a, Outcome(m, n, s, b, a)
  PROVE  Outcome(OwnerStopsTimers(m), n, s, b, a)
<1>1. m \in Node /\ m.ok /\ m.state = s /\ m.blocked = b /\ Announced(m) = a
  BY DEF Outcome
<1>2. Outcome(OwnerStopsTimers(m), m, m.state, m.blocked, Announced(m))
  BY <1>1, SimpleOutcomes
<1> QED
  BY <1>1, <1>2, OutcomeChain

(* A remote request opens ports only, and so does a node that gives way.   *)
LEMMA RemoteOutcomes ==
  ASSUME NEW n \in Node, n.ok
  PROVE  /\ \A only \in BOOLEAN, next \in State : \E b \in SUBSET n.blocked :
              Outcome(erps_fsm_unblock_and_stop(n, only, next, NoFault), n, next,
                      b, Announced(n))
         /\ \A id : \E b \in SUBSET n.blocked :
              Outcome(erps_fsm_maybe_unblock_and_stop(n, id, NoFault), n, n.state,
                      b, Announced(n))
<1>1. ASSUME NEW m, NEW b, Outcome(m, n, n.state, b, Announced(n))
      PROVE  Outcome(erps_node_stop_tx(m), n, n.state, b, Announced(n))
  <2>1. /\ m \in Node /\ m.ok /\ m.state = n.state /\ m.blocked = b
        /\ Announced(m) = Announced(n)
    BY <1>1 DEF Outcome
  <2>2. Outcome(erps_node_stop_tx(m), m, m.state, m.blocked, Announced(m))
    BY <2>1, SimpleOutcomes
  <2> QED
    BY <1>1, <2>1, <2>2, OutcomeChain
<1>2. ASSUME NEW only \in BOOLEAN, NEW next \in State
      PROVE  \E b \in SUBSET n.blocked :
               Outcome(erps_fsm_unblock_and_stop(n, only, next, NoFault), n, next,
                       b, Announced(n))
  <2> DEFINE m == IF only THEN erps_node_unblock_non_failed(n, NoFault)
                  ELSE erps_node_unblock_all(n, NoFault)
  <2>1. {} \in SUBSET n.blocked
    OBVIOUS
  <2>2. PICK b \in SUBSET n.blocked : Outcome(m, n, n.state, b, Announced(n))
    BY <2>1, UnblockAllOutcomes, Zenon
  <2> HIDE DEF m
  <2>3. Outcome(erps_node_stop_tx(m), n, n.state, b, Announced(n))
    BY <1>1, <2>2
  <2>4. Outcome(erps_fsm_transition(erps_node_stop_tx(m), next), n, next, b, Announced(n))
    BY <2>3, TransitionOutcome
  <2> QED
    BY <2>4 DEF erps_fsm_unblock_and_stop, m
<1>3. ASSUME NEW id
      PROVE  \E b \in SUBSET n.blocked :
               Outcome(erps_fsm_maybe_unblock_and_stop(n, id, NoFault), n, n.state,
                       b, Announced(n))
  <2>1. CASE id <= n.id
    <3>1. n.blocked \in SUBSET n.blocked
      OBVIOUS
    <3> QED
      BY <2>1, <3>1, SimpleOutcomes DEF erps_fsm_maybe_unblock_and_stop
  <2>2. CASE ~(id <= n.id)
    <3>1. PICK b \in SUBSET n.blocked :
            Outcome(erps_node_unblock_non_failed(n, NoFault), n, n.state, b, Announced(n))
      BY UnblockAllOutcomes
    <3> QED
      BY <1>1, <2>2, <3>1 DEF erps_fsm_maybe_unblock_and_stop
  <2> QED
    BY <2>1, <2>2
<1> QED
  BY <1>2, <1>3

(* The end of a switch moves no port.                                      *)
LEMMA ReleaseOutcomes ==
  ASSUME NEW n \in Node, n.ok
  PROVE  /\ \E a \in {Announced(n), "NR"} :
              Outcome(erps_fsm_clear_common(n), n, "PENDING", n.blocked, a)
         /\ Outcome(erps_fsm_clear_sf_protection(n), n, "PENDING", n.blocked, "NR")
         /\ \A req, timer : Outcome(RemoteNoRequest(n, req, timer), n, "PENDING",
                                    n.blocked, Announced(n))
         /\ n.state = "MANUAL_SWITCH" /\ n.blocked # {} =>
              \E s \in {"PENDING", "MANUAL_SWITCH"} :
                Outcome(erps_fsm_raps_ms_ms(n), n, s, n.blocked, "NR")
<1> DEFINE g == AnnounceNoRequest(n)
<1>0. "PENDING" \in State /\ "MANUAL_SWITCH" \in State
  BY DEF State
<1>1. Outcome(g, n, n.state, n.blocked, "NR")
  BY StartOutcomes
<1>2. /\ g \in Node /\ g.ok /\ g.state = n.state /\ g.blocked = n.blocked
      /\ Announced(g) = "NR"
  BY <1>1 DEF Outcome
<1> HIDE DEF g
<1>3. /\ Outcome(OwnerStartsWtr(g), n, n.state, n.blocked, "NR")
      /\ Outcome(OwnerStartsWtb(g), n, n.state, n.blocked, "NR")
  <2>1. /\ Outcome(OwnerStartsWtr(g), g, g.state, g.blocked, Announced(g))
        /\ Outcome(OwnerStartsWtb(g), g, g.state, g.blocked, Announced(g))
    BY <1>2, StartOutcomes
  <2> QED
    BY <1>1, <1>2, <2>1, OutcomeChain
<1>4. \E a \in {Announced(n), "NR"} :
        Outcome(erps_fsm_clear_common(n), n, "PENDING", n.blocked, a)
  <2>1. CASE n.blocked = {}
    BY <2>1, <1>0, SimpleOutcomes DEF erps_fsm_clear_common
  <2>2. CASE n.blocked # {}
    <3>1. erps_fsm_clear_common(n) = erps_fsm_transition(OwnerStartsWtb(g), "PENDING")
      BY <2>2 DEF erps_fsm_clear_common, g
    <3> QED
      BY <1>0, <1>3, <3>1, TransitionOutcome
  <2> QED
    BY <2>1, <2>2
<1>5. Outcome(erps_fsm_clear_sf_protection(n), n, "PENDING", n.blocked, "NR")
  BY <1>0, <1>3, TransitionOutcome DEF erps_fsm_clear_sf_protection, g
<1>6. ASSUME NEW req, NEW timer
      PROVE  Outcome(RemoteNoRequest(n, req, timer), n, "PENDING", n.blocked, Announced(n))
  <2> DEFINE started == IF req = ERPS_REQ_RAPS_NR_RB THEN n
                        ELSE IF timer = "wtr" THEN OwnerStartsWtr(n)
                        ELSE OwnerStartsWtb(n)
  <2>1. Outcome(started, n, n.state, n.blocked, Announced(n))
    BY SimpleOutcomes, StartOutcomes
  <2>2. RemoteNoRequest(n, req, timer) = erps_fsm_transition(started, "PENDING")
    BY DEF RemoteNoRequest
  <2> HIDE DEF started
  <2> QED
    BY <1>0, <2>1, <2>2, TransitionOutcome
<1>7. ASSUME n.state = "MANUAL_SWITCH", n.blocked # {}
      PROVE  \E s \in {"PENDING", "MANUAL_SWITCH"} :
               Outcome(erps_fsm_raps_ms_ms(n), n, s, n.blocked, "NR")
  <2> DEFINE s == IF RevertiveOwner(n) THEN "PENDING" ELSE "MANUAL_SWITCH"
  <2>1. erps_fsm_raps_ms_ms(n) = erps_fsm_transition(OwnerStartsWtb(g), s)
    BY <1>7 DEF erps_fsm_raps_ms_ms, g
  <2>2. s \in {"PENDING", "MANUAL_SWITCH"} /\ s \in State
    BY <1>0
  <2> HIDE DEF s
  <2>3. Outcome(erps_fsm_raps_ms_ms(n), n, s, n.blocked, "NR")
    BY <1>3, <2>1, <2>2, TransitionOutcome
  <2> QED
    BY <2>2, <2>3
<1> QED
  BY <1>4, <1>5, <1>6, <1>7

(* The others restore the normal state when they hear that the RPL is      *)
(* blocked.                                                                *)
LEMMA FollowOutcome ==
  ASSUME NEW n \in Node, n.ok, n.role # "owner"
  PROVE  Outcome(erps_fsm_raps_nr_rb_pending(n, NoFault), n, "IDLE", Home(n), Announced(n))
<1>0. 0 \in Port /\ Rpl \in Port /\ "IDLE" \in State /\ n.role \in {"none", "nbr"}
  BY DEF Port, Rpl, State, Node, Role
<1>1. ASSUME NEW m, NEW b, Outcome(m, n, n.state, b, Announced(n))
      PROVE  Outcome(erps_node_stop_tx(m), n, n.state, b, Announced(n))
  <2>1. /\ m \in Node /\ m.ok /\ m.state = n.state /\ m.blocked = b
        /\ Announced(m) = Announced(n)
    BY <1>1 DEF Outcome
  <2>2. Outcome(erps_node_stop_tx(m), m, m.state, m.blocked, Announced(m))
    BY <2>1, SimpleOutcomes
  <2> QED
    BY <1>1, <2>1, <2>2, OutcomeChain
<1>2. CASE n.role = "none"
  <2>1. Outcome(erps_node_stop_tx(erps_node_unblock_all(n, NoFault)), n, n.state, {},
                Announced(n))
    BY <1>1, UnblockAllOutcomes
  <2>2. Home(n) = {}
    BY <1>2 DEF Home, HasRpl
  <2> QED
    BY <1>0, <1>2, <2>1, <2>2, TransitionOutcome DEF erps_fsm_raps_nr_rb_pending
<1>3. CASE n.role = "nbr"
  <2> DEFINE m == erps_link_block(n, Rpl, NoFault)
             k == erps_link_unblock(m, 0, NoFault)
  <2>1. Outcome(m, n, n.state, n.blocked \cup {Rpl}, Announced(n))
    BY <1>0, BlockOutcome
  <2>2. /\ m \in Node /\ m.ok /\ m.state = n.state
        /\ m.blocked = n.blocked \cup {Rpl} /\ Announced(m) = Announced(n)
    BY <2>1 DEF Outcome
  <2>3. (n.blocked \cup {Rpl}) \ {0} = {Rpl}
    BY DEF Node, Port, Rpl
  <2>4. erps_fsm_raps_nr_rb_pending(n, NoFault) =
          erps_fsm_transition(erps_node_stop_tx(k), "IDLE")
    BY <1>3 DEF erps_fsm_raps_nr_rb_pending
  <2> HIDE DEF m
  <2>5. Outcome(k, m, m.state, m.blocked \ {0}, Announced(m))
    BY <1>0, <2>2, UnblockOutcome
  <2>6. Outcome(k, n, n.state, {Rpl}, Announced(n))
    BY <2>1, <2>2, <2>3, <2>5, OutcomeChain
  <2> HIDE DEF k
  <2>7. Outcome(erps_node_stop_tx(k), n, n.state, {Rpl}, Announced(n))
    BY <1>1, <2>6
  <2>8. Home(n) = {Rpl}
    BY <1>3 DEF Home, HasRpl
  <2> QED
    BY <1>0, <2>4, <2>7, <2>8, TransitionOutcome
<1> QED
  BY <1>0, <1>2, <1>3

-----------------------------------------------------------------------------
(***************************************************************************)
(* A post as a step of ErpsService.  Move has a disjunct per action of it. *)
(***************************************************************************)
Switched(s) == s \in {"PROTECTION", "MANUAL_SWITCH", "FORCED_SWITCH"}

SameView(m, n) == /\ PhaseOf(m) = PhaseOf(n) /\ m.blocked = n.blocked
                  /\ Announced(m) = Announced(n)

MovesHere(m, n) ==
  /\ PhaseOf(n) # "off" /\ PhaseOf(m) = "switched"
  /\ \E p \in Port, order \in {"FS", "SF", "MS"} :
       /\ order = "MS" => PhaseOf(n) # "switched"
       /\ \/ m.blocked = {p}
          \/ order = "FS" /\ PhaseOf(n) = "switched" /\ m.blocked = n.blocked \cup {p}
       /\ Announced(m) = order

MovesElsewhere(m, n) ==
  /\ PhaseOf(n) # "off" /\ PhaseOf(m) = "switched"
  /\ m.blocked \subseteq n.blocked /\ Announced(m) = Announced(n)

Releases(m, n) ==
  /\ PhaseOf(n) = "switched" /\ PhaseOf(m) = "reverting"
  /\ m.blocked = n.blocked /\ Announced(m) \in {Announced(n), "NR"}

Withdraws(m, n) ==
  /\ PhaseOf(n) = "switched" /\ PhaseOf(m) = PhaseOf(n)
  /\ m.blocked = n.blocked /\ Announced(m) = "NR"

GivesWay(m, n) ==
  /\ PhaseOf(n) = "reverting" /\ PhaseOf(m) = PhaseOf(n)
  /\ m.blocked \subseteq n.blocked /\ Announced(m) = Announced(n)

Restores(m, n) ==
  /\ PhaseOf(n) = "reverting" /\ PhaseOf(m) = "normal"
  /\ m.blocked = Home(n)
  /\ Announced(m) = Announced(n) \/ (Home(n) # {} /\ Announced(m) = "NR,RB")

Move(m, n) ==
  /\ m.role = n.role
  /\ \/ SameView(m, n) \/ MovesHere(m, n) \/ MovesElsewhere(m, n)
     \/ Releases(m, n) \/ Withdraws(m, n) \/ GivesWay(m, n) \/ Restores(m, n)

(* Which outcomes are moves.                                               *)
LEMMA OutcomeMoves ==
  ASSUME NEW n \in Node, NEW m, NEW s \in State, NEW b, NEW a, Outcome(m, n, s, b, a)
  PROVE  /\ s = n.state /\ b = n.blocked /\ a = Announced(n) => Move(m, n)
         /\ \A p \in Port :
              n.state # "UNINIT" /\ Switched(s) /\ a \in {"FS", "SF", "MS"}
               /\ (a = "MS" => ~Switched(n.state))
               /\ (b = {p} \/ (a = "FS" /\ Switched(n.state)
                                /\ b = n.blocked \cup {p})) => Move(m, n)
         /\ n.state # "UNINIT" /\ Switched(s) /\ b \in SUBSET n.blocked
               /\ a = Announced(n) => Move(m, n)
         /\ Switched(n.state) /\ s = "PENDING" /\ b = n.blocked
               /\ a \in {Announced(n), "NR"} => Move(m, n)
         /\ Switched(n.state) /\ Switched(s) /\ b = n.blocked /\ a = "NR" => Move(m, n)
         /\ n.state = "PENDING" /\ s = "PENDING" /\ b \in SUBSET n.blocked
               /\ a = Announced(n) => Move(m, n)
         /\ n.state = "PENDING" /\ s = "IDLE" /\ b = Home(n)
               /\ (a = Announced(n) \/ (Home(n) # {} /\ a = "NR,RB")) => Move(m, n)
<1>1. /\ m.role = n.role /\ m.state = s /\ m.blocked = b /\ Announced(m) = a
  BY DEF Outcome
<1>2. ASSUME NEW k, k.state \in State
      PROVE  /\ PhaseOf(k) = "off" <=> k.state = "UNINIT"
             /\ PhaseOf(k) = "normal" <=> k.state = "IDLE"
             /\ PhaseOf(k) = "reverting" <=> k.state = "PENDING"
             /\ PhaseOf(k) = "switched" <=> Switched(k.state)
             /\ k.state = s => PhaseOf(m) = PhaseOf(k)
  BY <1>1, <1>2 DEF PhaseOf, State, Switched
<1>3. n.state \in State /\ m.state \in State
  BY <1>1 DEF Node
<1>4. /\ s = n.state /\ b = n.blocked /\ a = Announced(n) => SameView(m, n)
  BY <1>1, <1>2, <1>3 DEF SameView
<1>5. ASSUME n.state # "UNINIT", Switched(s), a \in {"FS", "SF", "MS"},
             a = "MS" => ~Switched(n.state),
             NEW p \in Port,
             b = {p} \/ (a = "FS" /\ Switched(n.state) /\ b = n.blocked \cup {p})
      PROVE  MovesHere(m, n)
  <2>1. PhaseOf(n) # "off" /\ PhaseOf(m) = "switched"
    BY <1>1, <1>2, <1>3, <1>5
  <2>2. /\ a = "MS" => PhaseOf(n) # "switched"
        /\ \/ m.blocked = {p}
           \/ a = "FS" /\ PhaseOf(n) = "switched" /\ m.blocked = n.blocked \cup {p}
        /\ Announced(m) = a
    BY <1>1, <1>2, <1>3, <1>5
  <2> QED
    BY <1>5, <2>1, <2>2 DEF MovesHere
<1>6. n.state # "UNINIT" /\ Switched(s) /\ b \in SUBSET n.blocked /\ a = Announced(n)
        => MovesElsewhere(m, n)
  BY <1>1, <1>2, <1>3 DEF MovesElsewhere
<1>7. Switched(n.state) /\ s = "PENDING" /\ b = n.blocked /\ a \in {Announced(n), "NR"}
        => Releases(m, n)
  BY <1>1, <1>2, <1>3 DEF Releases
<1>8. Switched(n.state) /\ Switched(s) /\ b = n.blocked /\ a = "NR" => Withdraws(m, n)
  BY <1>1, <1>2, <1>3 DEF Withdraws
<1>9. n.state = "PENDING" /\ s = "PENDING" /\ b \in SUBSET n.blocked /\ a = Announced(n)
        => GivesWay(m, n)
  BY <1>1, <1>2, <1>3 DEF GivesWay
<1>10. n.state = "PENDING" /\ s = "IDLE" /\ b = Home(n)
         /\ (a = Announced(n) \/ (Home(n) # {} /\ a = "NR,RB")) => Restores(m, n)
  BY <1>1, <1>2, <1>3 DEF Restores
<1> QED
  BY <1>1, <1>4, <1>5, <1>6, <1>7, <1>8, <1>9, <1>10 DEF Move

(* What is shown of each table: a move, with a sound top request.          *)
SwitchRequest == {ERPS_REQ_FS, ERPS_REQ_SF, ERPS_REQ_MS}

Posted(m, n, req) ==
  /\ m \in Node /\ Move(m, n)
  /\ m.topreq \in {n.topreq} \cup TimerRunning
  /\ req \in SwitchRequest => m.state # "PENDING"

(* An outcome that is a move.                                              *)
LEMMA OutcomePosted ==
  ASSUME NEW n, NEW m, NEW s, NEW b, NEW a, NEW req, Outcome(m, n, s, b, a),
         Move(m, n), req \in SwitchRequest => s # "PENDING"
  PROVE  Posted(m, n, req)
BY DEF Outcome, Posted

(* Handlers shared by the states: switches given here and elsewhere.       *)
LEMMA SwitchesPosted ==
  ASSUME NEW n \in Node, n.ok, n.state # "UNINIT", NEW l \in Port, NEW req
  PROVE  /\ Posted(FsCommon(n, l, NoFault), n, req)
         /\ Posted(SfCommon(n, l, NoFault), n, req)
         /\ ~Switched(n.state) => Posted(MsCommon(n, l, NoFault), n, req)
         /\ Posted(RapsFsCommon(n, NoFault), n, req)
         /\ Posted(RapsSfCommon(n, NoFault), n, req)
         /\ Posted(RapsMsCommon(n, NoFault), n, req)
<1>0. /\ {"PROTECTION", "MANUAL_SWITCH", "FORCED_SWITCH"} \subseteq State
      /\ \A s \in {"PROTECTION", "MANUAL_SWITCH", "FORCED_SWITCH"} :
           Switched(s) /\ s # "PENDING"
  BY DEF State, Switched
<1>1. ASSUME NEW rs \in {"MS", "SF", "FS"}, rs = "MS" => ~Switched(n.state),
             NEW next \in {"PROTECTION", "MANUAL_SWITCH", "FORCED_SWITCH"}
      PROVE  Posted(erps_fsm_fs_sf_ms(n, l, rs, next, NoFault), n, req)
  <2> DEFINE m == erps_fsm_fs_sf_ms(n, l, rs, next, NoFault)
  <2>1. Outcome(m, n, next, {l}, rs)
    BY <1>0, SwitchOutcome
  <2> HIDE DEF m
  <2>2. rs \in {"FS", "SF", "MS"} /\ next \in State /\ Switched(next)
    BY <1>0
  <2>3. Move(m, n)
    BY <1>1, <2>1, <2>2, OutcomeMoves
  <2> QED
    BY <1>0, <2>1, <2>3, OutcomePosted DEF m
<1>2. ASSUME NEW only \in BOOLEAN,
             NEW next \in {"PROTECTION", "MANUAL_SWITCH", "FORCED_SWITCH"}
      PROVE  Posted(erps_fsm_unblock_and_stop(n, only, next, NoFault), n, req)
  <2> DEFINE m == erps_fsm_unblock_and_stop(n, only, next, NoFault)
  <2>1. PICK b \in SUBSET n.blocked : Outcome(m, n, next, b, Announced(n))
    BY <1>0, RemoteOutcomes
  <2> HIDE DEF m
  <2>2. Move(m, n)
    BY <1>0, <2>1, OutcomeMoves
  <2> QED
    BY <1>0, <2>1, <2>2, OutcomePosted DEF m
<1> QED
  BY <1>1, <1>2
  DEF FsCommon, SfCommon, MsCommon, RapsFsCommon, RapsSfCommon, RapsMsCommon

(* No action is a move.                                                    *)
LEMMA NoActionPosted ==
  ASSUME NEW n \in Node, NEW req, req \in SwitchRequest => n.state # "PENDING"
  PROVE  Posted(n, n, req)
BY DEF Posted, Move, SameView

(* An outcome that changes nothing the abstract node shows.                *)
LEMMA SameOutcomePosted ==
  ASSUME NEW n \in Node, NEW m, NEW req,
         Outcome(m, n, n.state, n.blocked, Announced(n)),
         req \in SwitchRequest => n.state # "PENDING"
  PROVE  Posted(m, n, req)
<1>1. n.state \in State
  BY DEF Node
<1>2. Move(m, n)
  BY <1>1, OutcomeMoves
<1> QED
  BY <1>2, OutcomePosted

(* A cleared or released switch.                                           *)
LEMMA ReleasesPosted ==
  ASSUME NEW n \in Node, n.ok, Switched(n.state), NEW req, req \notin SwitchRequest
  PROVE  /\ Posted(erps_fsm_clear_common(n), n, req)
         /\ Posted(erps_fsm_clear_sf_protection(n), n, req)
         /\ \A r, timer : Posted(RemoteNoRequest(n, r, timer), n, req)
         /\ n.state = "MANUAL_SWITCH" => Posted(erps_fsm_raps_ms_ms(n), n, req)
<1>0. "PENDING" \in State /\ "MANUAL_SWITCH" \in State /\ Switched("MANUAL_SWITCH")
  BY DEF State, Switched
<1>1. ASSUME NEW m, NEW a \in {Announced(n), "NR"},
             Outcome(m, n, "PENDING", n.blocked, a)
      PROVE  Posted(m, n, req)
  <2>1. Move(m, n)
    BY <1>0, <1>1, OutcomeMoves
  <2> QED
    BY <1>1, <2>1, OutcomePosted
<1>2. Posted(erps_fsm_clear_common(n), n, req)
  <2>1. PICK a \in {Announced(n), "NR"} :
          Outcome(erps_fsm_clear_common(n), n, "PENDING", n.blocked, a)
    BY ReleaseOutcomes
  <2> QED
    BY <1>1, <2>1
<1>3. /\ Posted(erps_fsm_clear_sf_protection(n), n, req)
      /\ \A r, timer : Posted(RemoteNoRequest(n, r, timer), n, req)
  BY <1>1, ReleaseOutcomes
<1>4. ASSUME n.state = "MANUAL_SWITCH" PROVE Posted(erps_fsm_raps_ms_ms(n), n, req)
  <2>1. CASE n.blocked = {}
    BY <2>1, <1>4, SimpleOutcomes, SameOutcomePosted DEF erps_fsm_raps_ms_ms
  <2>2. CASE n.blocked # {}
    <3>1. PICK s \in {"PENDING", "MANUAL_SWITCH"} :
            Outcome(erps_fsm_raps_ms_ms(n), n, s, n.blocked, "NR")
      BY <1>4, <2>2, ReleaseOutcomes
    <3>2. CASE s = "PENDING"
      BY <1>1, <3>1, <3>2
    <3>3. CASE s = "MANUAL_SWITCH"
      <4>1. Move(erps_fsm_raps_ms_ms(n), n)
        BY <1>0, <3>1, <3>3, OutcomeMoves
      <4> QED
        BY <3>1, <4>1, OutcomePosted
    <3> QED
      BY <3>2, <3>3
  <2> QED
    BY <2>1, <2>2
<1> QED
  BY <1>2, <1>3, <1>4

(* The normal state: only an order leaves it or moves a port.              *)
LEMMA IdlePosted ==
  ASSUME NEW n \in Node, n.ok, n.state = "IDLE", n.blocked = Home(n),
         NEW l \in Port, NEW req, NEW id
  PROVE  Posted(erps_fsm_post_idle(n, l, req, id, NoFault), n, req)
<1>1. n.state # "UNINIT" /\ ~Switched(n.state) /\ n.state # "PENDING"
  BY DEF Switched
<1>2. Posted(erps_fsm_raps_nr_rb_idle(n, NoFault), n, req)
  <2> DEFINE m == IF HasRpl(n) THEN erps_link_unblock(n, 0, NoFault) ELSE n
  <2>1. Outcome(m, n, n.state, n.blocked, Announced(n))
    <3>1. CASE HasRpl(n)
      <4>1. 0 \in Port /\ n.blocked \ {0} = n.blocked
        BY <3>1 DEF Home, Port, Rpl
      <4> QED
        BY <3>1, <4>1, UnblockOutcome
    <3>2. CASE ~HasRpl(n)
      BY <3>2, SimpleOutcomes
    <3> QED
      BY <3>1, <3>2
  <2>2. erps_fsm_raps_nr_rb_idle(n, NoFault) =
          IF erps_node_is_rpl_owner(n) THEN m ELSE erps_node_stop_tx(m)
    BY DEF erps_fsm_raps_nr_rb_idle
  <2>3. /\ m \in Node /\ m.ok /\ m.state = n.state /\ m.blocked = n.blocked
        /\ Announced(m) = Announced(n)
    BY <2>1 DEF Outcome
  <2> HIDE DEF m
  <2>4. Outcome(erps_node_stop_tx(m), m, m.state, m.blocked, Announced(m))
    BY <2>3, SimpleOutcomes
  <2>5. Outcome(erps_node_stop_tx(m), n, n.state, n.blocked, Announced(n))
    BY <2>1, <2>3, <2>4, OutcomeChain
  <2> QED
    BY <1>1, <2>1, <2>2, <2>5, SameOutcomePosted
<1>3. ASSUME ~HasRpl(n)
      PROVE  Posted(erps_fsm_maybe_unblock_and_stop(n, id, NoFault), n, req)
  <2>1. PICK b \in SUBSET n.blocked :
          Outcome(erps_fsm_maybe_unblock_and_stop(n, id, NoFault), n, n.state, b,
                  Announced(n))
    BY RemoteOutcomes
  <2>2. b = n.blocked
    BY <1>3 DEF Home
  <2> QED
    BY <1>1, <2>1, <2>2, SameOutcomePosted
<1>4. Posted(n, n, req)
  BY <1>1, NoActionPosted
<1>5. /\ Posted(FsCommon(n, l, NoFault), n, req)
      /\ Posted(SfCommon(n, l, NoFault), n, req)
      /\ Posted(MsCommon(n, l, NoFault), n, req)
      /\ Posted(RapsFsCommon(n, NoFault), n, req)
      /\ Posted(RapsSfCommon(n, NoFault), n, req)
      /\ Posted(RapsMsCommon(n, NoFault), n, req)
  BY <1>1, SwitchesPosted
<1> QED
  BY <1>2, <1>3, <1>4, <1>5 DEF erps_fsm_post_idle

(* Another request in a switched state: added to it, or its end.           *)
LEMMA SwitchedPosted ==
  ASSUME NEW n \in Node, n.ok, NEW l \in Port, NEW req
  PROVE  /\ n.state = "PROTECTION" =>
              Posted(erps_fsm_post_protection(n, l, req, NoFault), n, req)
         /\ n.state = "MANUAL_SWITCH" =>
              Posted(erps_fsm_post_manual_switch(n, l, req, NoFault), n, req)
         /\ n.state = "FORCED_SWITCH" =>
              Posted(erps_fsm_post_forced_switch(n, l, req, NoFault), n, req)
<1> SUFFICES ASSUME Switched(n.state)
             PROVE  /\ n.state = "PROTECTION" =>
                         Posted(erps_fsm_post_protection(n, l, req, NoFault), n, req)
                    /\ n.state = "MANUAL_SWITCH" =>
                         Posted(erps_fsm_post_manual_switch(n, l, req, NoFault), n, req)
                    /\ n.state = "FORCED_SWITCH" =>
                         Posted(erps_fsm_post_forced_switch(n, l, req, NoFault), n, req)
  BY DEF Switched
<1>1. n.state # "UNINIT" /\ n.state # "PENDING"
  BY DEF Switched
<1>2. Posted(n, n, req)
  BY <1>1, NoActionPosted
<1>3. /\ Posted(FsCommon(n, l, NoFault), n, req)
      /\ Posted(SfCommon(n, l, NoFault), n, req)
      /\ Posted(RapsFsCommon(n, NoFault), n, req)
      /\ Posted(RapsSfCommon(n, NoFault), n, req)
  BY <1>1, SwitchesPosted
<1>4. req \notin SwitchRequest =>
        /\ Posted(erps_fsm_clear_common(n), n, req)
        /\ Posted(erps_fsm_clear_sf_protection(n), n, req)
        /\ \A r, timer : Posted(RemoteNoRequest(n, r, timer), n, req)
        /\ n.state = "MANUAL_SWITCH" => Posted(erps_fsm_raps_ms_ms(n), n, req)
  BY ReleasesPosted
<1>5. ASSUME n.state = "FORCED_SWITCH"
      PROVE  Posted(erps_fsm_fs_fs(n, l, NoFault), n, req)
  <2>1. Outcome(erps_fsm_fs_fs(n, l, NoFault), n, n.state, n.blocked \cup {l}, "FS")
    BY SecondSwitchOutcome
  <2>2. n.state \in State /\ "FS" \in {"FS", "SF", "MS"}
    BY DEF Node
  <2>3. Move(erps_fsm_fs_fs(n, l, NoFault), n)
    BY <1>1, <2>1, <2>2, OutcomeMoves
  <2> QED
    BY <1>1, <2>1, <2>3, OutcomePosted
<1>6. req \in {ERPS_REQ_CLEAR, ERPS_REQ_CLEAR_SF, ERPS_REQ_RAPS_MS,
               ERPS_REQ_RAPS_NR_RB, ERPS_REQ_RAPS_NR} => req \notin SwitchRequest
  BY DEF SwitchRequest, ERPS_REQ_CLEAR, ERPS_REQ_CLEAR_SF, ERPS_REQ_RAPS_MS,
         ERPS_REQ_RAPS_NR_RB, ERPS_REQ_RAPS_NR, ERPS_REQ_FS, ERPS_REQ_SF, ERPS_REQ_MS
<1>7. Posted(erps_fsm_post_protection(n, l, req, NoFault), n, req)
  BY <1>2, <1>3, <1>4, <1>6 DEF erps_fsm_post_protection
<1>8. n.state = "MANUAL_SWITCH" =>
        Posted(erps_fsm_post_manual_switch(n, l, req, NoFault), n, req)
  BY <1>2, <1>3, <1>4, <1>6 DEF erps_fsm_post_manual_switch
<1>9. n.state = "FORCED_SWITCH" =>
        Posted(erps_fsm_post_forced_switch(n, l, req, NoFault), n, req)
  BY <1>2, <1>4, <1>5, <1>6 DEF erps_fsm_post_forced_switch
<1> QED
  BY <1>7, <1>8, <1>9

(* Stopping the timers last changes nothing the abstract node shows.       *)
LEMMA StopsPosted ==
  ASSUME NEW n, NEW m, NEW req, Posted(m, n, req)
  PROVE  Posted(OwnerStopsTimers(m), n, req)
<1> DEFINE k == OwnerStopsTimers(m)
<1>1. m \in Node
  BY DEF Posted
<1>2. k \in Node
  BY <1>1, SimpleTypes
<1>3. /\ k.role = m.role /\ k.topreq = m.topreq /\ k.state = m.state
      /\ k.blocked = m.blocked /\ k.pdu = m.pdu
  BY <1>1 DEF OwnerStopsTimers, Node
<1> HIDE DEF k
<1>4. PhaseOf(k) = PhaseOf(m) /\ Announced(k) = Announced(m)
  BY <1>3 DEF PhaseOf, Announced
<1>5. Move(k, n)
  BY <1>3, <1>4
  DEF Posted, Move, SameView, MovesHere, MovesElsewhere, Releases, Withdraws,
      GivesWay, Restores
<1> QED
  BY <1>2, <1>3, <1>5 DEF Posted, k

(* The wait: an order takes over, the node gives way, or the normal state  *)
(* is restored, by the owner or on its word.                               *)
LEMMA PendingPosted ==
  ASSUME NEW n \in Node, n.ok, n.state = "PENDING", NEW l \in Port, NEW req, NEW id,
         req = ERPS_REQ_CLEAR => n.role = "owner",
         req = ERPS_REQ_RAPS_NR_RB => n.role # "owner"
  PROVE  Posted(erps_fsm_post_pending(n, l, req, id, NoFault), n, req)
<1>0. /\ n.state # "UNINIT" /\ ~Switched(n.state)
      /\ {"PENDING", "IDLE", "MANUAL_SWITCH"} \subseteq State
      /\ Switched("MANUAL_SWITCH")
  BY DEF Switched, State
<1>1. /\ Posted(OwnerStopsTimers(FsCommon(n, l, NoFault)), n, req)
      /\ Posted(OwnerStopsTimers(SfCommon(n, l, NoFault)), n, req)
      /\ Posted(OwnerStopsTimers(RapsFsCommon(n, NoFault)), n, req)
      /\ Posted(OwnerStopsTimers(RapsSfCommon(n, NoFault)), n, req)
      /\ Posted(OwnerStopsTimers(RapsMsCommon(n, NoFault)), n, req)
  BY <1>0, SwitchesPosted, StopsPosted
<1>2. Posted(MsCommon(OwnerStopsTimers(n), l, NoFault), n, req)
  <2> DEFINE k == OwnerStopsTimers(n)
             m == MsCommon(k, l, NoFault)
  <2>1. Outcome(k, n, n.state, n.blocked, Announced(n))
    BY SimpleOutcomes
  <2>2. k \in Node /\ k.ok
    BY <2>1 DEF Outcome
  <2> HIDE DEF k
  <2>3. Outcome(m, k, "MANUAL_SWITCH", {l}, "MS")
    BY <1>0, <2>2, SwitchOutcome DEF MsCommon
  <2> HIDE DEF m
  <2>4. Outcome(m, n, "MANUAL_SWITCH", {l}, "MS")
    BY <2>1, <2>3, OutcomeChain
  <2>5. Move(m, n)
    BY <1>0, <2>4, OutcomeMoves
  <2> QED
    BY <2>4, <2>5, OutcomePosted DEF m, k
<1>3. ASSUME n.role = "owner", req \notin SwitchRequest,
             NEW k, Outcome(k, n, n.state, n.blocked, Announced(n))
      PROVE  Posted(erps_fsm_timer_expires_pending(k, NoFault), n, req)
  <2> DEFINE m == erps_fsm_timer_expires_pending(k, NoFault)
  <2>2. k \in Node /\ k.ok
    BY <1>3 DEF Outcome
  <2>3. Outcome(m, k, "IDLE", {Rpl}, "NR,RB")
    BY <2>2, RestoreOutcome
  <2> HIDE DEF m
  <2>4. Outcome(m, n, "IDLE", {Rpl}, "NR,RB")
    BY <1>3, <2>3, OutcomeChain
  <2>5. Home(n) = {Rpl} /\ Home(n) # {}
    BY <1>3 DEF Home, HasRpl
  <2>6. Move(m, n)
    BY <1>0, <2>4, <2>5, OutcomeMoves
  <2> QED
    BY <1>3, <2>4, <2>6, OutcomePosted DEF m
<1>4. req \in {ERPS_REQ_CLEAR, ERPS_REQ_WTR_EXPIRES, ERPS_REQ_WTB_EXPIRES,
               ERPS_REQ_RAPS_NR_RB, ERPS_REQ_RAPS_NR} => req \notin SwitchRequest
  BY DEF SwitchRequest, ERPS_REQ_CLEAR, ERPS_REQ_WTR_EXPIRES, ERPS_REQ_WTB_EXPIRES,
         ERPS_REQ_RAPS_NR_RB, ERPS_REQ_RAPS_NR, ERPS_REQ_FS, ERPS_REQ_SF, ERPS_REQ_MS
<1>5. req = ERPS_REQ_CLEAR => Posted(erps_fsm_clear_pending(n, NoFault), n, req)
  BY <1>3, <1>4, SimpleOutcomes DEF erps_fsm_clear_pending, HasRpl
<1>6. req = ERPS_REQ_RAPS_NR_RB => Posted(erps_fsm_raps_nr_rb_pending(n, NoFault), n, req)
  <2> SUFFICES ASSUME req = ERPS_REQ_RAPS_NR_RB
               PROVE  Posted(erps_fsm_raps_nr_rb_pending(n, NoFault), n, req)
    OBVIOUS
  <2> DEFINE m == erps_fsm_raps_nr_rb_pending(n, NoFault)
  <2>1. Outcome(m, n, "IDLE", Home(n), Announced(n))
    BY FollowOutcome
  <2> HIDE DEF m
  <2>2. Move(m, n)
    BY <1>0, <2>1, OutcomeMoves
  <2> QED
    BY <2>1, <2>2, OutcomePosted DEF m
<1>7. req = ERPS_REQ_RAPS_NR =>
        Posted(erps_fsm_maybe_unblock_and_stop(n, id, NoFault), n, req)
  <2> DEFINE m == erps_fsm_maybe_unblock_and_stop(n, id, NoFault)
  <2>1. PICK b \in SUBSET n.blocked : Outcome(m, n, "PENDING", b, Announced(n))
    BY RemoteOutcomes
  <2> HIDE DEF m
  <2>2. Move(m, n)
    BY <1>0, <2>1, OutcomeMoves
  <2> QED
    BY <1>4, <2>1, <2>2, OutcomePosted DEF m
<1>8. req \notin SwitchRequest => Posted(n, n, req)
  BY NoActionPosted
<1> QED
  BY <1>1, <1>2, <1>3, <1>4, <1>5, <1>6, <1>7, <1>8, SimpleOutcomes
  DEF erps_fsm_post_pending, erps_node_is_rpl_owner, SwitchRequest

-----------------------------------------------------------------------------
(***************************************************************************)
(* A post, from what precedes the dispatch to the tables.                  *)
(***************************************************************************)

(* In IDLE exactly the home cut is in place, and a local request that      *)
(* lasts has ended before PENDING is entered.                              *)
Shape(n) == /\ n.state = "IDLE" => n.blocked = Home(n)
            /\ n.state = "PENDING" => n.topreq \notin SwitchRequest

(* The fields ErpsService knows of.                                        *)
Alike(m, n) == /\ m.role = n.role /\ m.state = n.state /\ m.blocked = n.blocked
               /\ m.pdu = n.pdu

(* Fields the abstract node does not show may change before a move.        *)
LEMMA AlikeMoves ==
  ASSUME NEW n, NEW k, Alike(k, n)
  PROVE  /\ Home(k) = Home(n) /\ PhaseOf(k) = PhaseOf(n) /\ Announced(k) = Announced(n)
         /\ Move(k, n)
         /\ \A m : Move(m, k) => Move(m, n)
<1>1. /\ k.role = n.role /\ k.blocked = n.blocked
      /\ Home(k) = Home(n) /\ PhaseOf(k) = PhaseOf(n) /\ Announced(k) = Announced(n)
  BY DEF Alike, Home, HasRpl, PhaseOf, Announced
<1>2. Move(k, n)
  BY <1>1 DEF Move, SameView
<1>3. ASSUME NEW m, Move(m, k) PROVE Move(m, n)
  BY <1>1, <1>3
  DEF Move, SameView, MovesHere, MovesElsewhere, Releases, Withdraws, GivesWay, Restores
<1> QED
  BY <1>1, <1>2, <1>3

(* The priority logic changes the top request, and what it holds then.     *)
LEMMA PreparedAlike ==
  ASSUME NEW n \in Node, n.ok, NEW l \in Port, NEW req
  PROVE  LET m == Prepare(n, l, req) IN
         /\ m \in Node /\ m.ok /\ Alike(m, n)
         /\ ~RequestAccepted(n, req) => m.topreq = n.topreq
         /\ RequestAccepted(n, req) /\ req \notin SwitchRequest =>
              m.topreq \notin SwitchRequest
<1> DEFINE m == Prepare(n, l, req)
<1>1. /\ m \in Node /\ m.ok /\ m.state = n.state /\ m.role = n.role
      /\ ~RequestAccepted(n, req) => m.topreq = n.topreq
      /\ RequestAccepted(n, req) =>
           m.topreq = IF req \in LocalRequest THEN req ELSE ERPS_REQ_INVALID
  BY PrepareTimers
<1>2. m.blocked = n.blocked /\ m.pdu = n.pdu
  <2> DEFINE c == IF req = ERPS_REQ_CLEAR_SF
                  THEN [n EXCEPT !.linkDown = @ \ {l}] ELSE n
             r == erps_fsm_resolve_req_prio(c, req)
  <2>1. c \in Node /\ c.blocked = n.blocked /\ c.pdu = n.pdu
    BY DEF Node
  <2> HIDE DEF c
  <2>2. r \in Node
    BY <2>1, ResolveType
  <2>3. r.blocked = n.blocked /\ r.pdu = n.pdu
    BY <2>1 DEF erps_fsm_resolve_req_prio, Node
  <2>4. m = IF req = ERPS_REQ_SF /\ RequestAccepted(n, req)
            THEN [r EXCEPT !.failed = @ \cup {l}] ELSE r
    BY DEF Prepare, c
  <2> HIDE DEF r, m
  <2> QED
    BY <2>2, <2>3, <2>4 DEF Node
<1>3. req \notin SwitchRequest =>
        (IF req \in LocalRequest THEN req ELSE ERPS_REQ_INVALID) \notin SwitchRequest
  BY DEF SwitchRequest, LocalRequest, ERPS_REQ_INVALID, ERPS_REQ_FS, ERPS_REQ_SF,
         ERPS_REQ_MS, ERPS_REQ_WTR_RUNNING, ERPS_REQ_WTB_RUNNING
<1> HIDE DEF m
<1> QED
  BY <1>1, <1>2, <1>3 DEF Alike, m

(* Every table, on a record the priority logic has prepared.               *)
LEMMA DispatchPosted ==
  ASSUME NEW n \in Node, n.ok, n.state = "IDLE" => n.blocked = Home(n),
         NEW l \in Port, NEW req, NEW id,
         req = ERPS_REQ_CLEAR /\ n.state = "PENDING" => n.role = "owner",
         req = ERPS_REQ_RAPS_NR_RB => n.role # "owner"
  PROVE  Posted(Dispatch(n, l, req, id, NoFault), n, req)
<1>1. n.state \in State
  BY DEF Node
<1>2. CASE n.state = "IDLE"
  BY <1>2, IdlePosted DEF Dispatch
<1>3. CASE n.state = "PROTECTION"
  BY <1>3, SwitchedPosted DEF Dispatch
<1>4. CASE n.state = "MANUAL_SWITCH"
  BY <1>4, SwitchedPosted DEF Dispatch
<1>5. CASE n.state = "FORCED_SWITCH"
  BY <1>5, SwitchedPosted DEF Dispatch
<1>6. CASE n.state = "PENDING"
  BY <1>6, PendingPosted DEF Dispatch
<1>7. CASE n.state = "UNINIT"
  BY <1>7, NoActionPosted DEF Dispatch
<1> QED
  BY <1>1, <1>2, <1>3, <1>4, <1>5, <1>6, <1>7 DEF State

(* A post is a move that keeps the shape.                                  *)
LEMMA PostMoves ==
  ASSUME NEW n \in Node, n.ok, Shape(n), NEW l \in Port, NEW req, NEW id,
         req = ERPS_REQ_RAPS_NR_RB => n.role # "owner"
  PROVE  LET m == erps_fsm_post_locked(n, l, req, id, NoFault)
         IN  Move(m, n) /\ Shape(m)
<1> DEFINE p == Prepare(n, l, req)
           d == Dispatch(p, l, req, id, NoFault)
           m == erps_fsm_post_locked(n, l, req, id, NoFault)
<1>1. /\ p \in Node /\ p.ok /\ Alike(p, n)
      /\ ~RequestAccepted(n, req) => p.topreq = n.topreq
      /\ RequestAccepted(n, req) /\ req \notin SwitchRequest =>
           p.topreq \notin SwitchRequest
  BY PreparedAlike
<1>2. m = IF ~RequestAccepted(n, req) \/ IgnoredOnRpl(n, l, req) THEN p ELSE d
  BY DEF erps_fsm_post_locked
<1> HIDE DEF p
<1>3. /\ p.role = n.role /\ p.state = n.state /\ p.blocked = n.blocked
      /\ Home(p) = Home(n) /\ Move(p, n)
  BY <1>1, AlikeMoves DEF Alike
<1>4. IgnoredOnRpl(n, l, req) => req \notin SwitchRequest
  BY DEF IgnoredOnRpl, SwitchRequest, ERPS_REQ_CLEAR_SF, ERPS_REQ_FS, ERPS_REQ_SF,
         ERPS_REQ_MS
<1>5. ~RequestAccepted(n, req) \/ IgnoredOnRpl(n, l, req) => Move(p, n) /\ Shape(p)
  BY <1>1, <1>3, <1>4 DEF Shape
<1>6. ASSUME RequestAccepted(n, req) PROVE Move(d, n) /\ Shape(d)
  <2>1. req = ERPS_REQ_CLEAR /\ p.state = "PENDING" => p.role = "owner"
    BY <1>3, <1>6
    DEF RequestAccepted, erps_local_clear_valid, Shape, SwitchRequest,
        erps_node_is_rpl_owner
  <2>2. Posted(d, p, req)
    BY <1>1, <1>3, <2>1, DispatchPosted DEF Shape
  <2> HIDE DEF d
  <2>3. /\ d \in Node /\ d.role = p.role /\ Move(d, p)
        /\ d.topreq \in {p.topreq} \cup TimerRunning
        /\ req \in SwitchRequest => d.state # "PENDING"
    BY <2>2 DEF Posted, Move
  <2>4. Move(d, n)
    BY <1>1, <2>3, AlikeMoves
  <2>5. d.state = "IDLE" => d.blocked = Home(d)
    <3> SUFFICES ASSUME d.state = "IDLE" PROVE d.blocked = Home(d)
      OBVIOUS
    <3>1. PhaseOf(d) = "normal" /\ Home(d) = Home(n)
      BY <1>3, <2>3 DEF PhaseOf, Home, HasRpl
    <3>2. PhaseOf(n) = "normal" => n.state = "IDLE"
      BY DEF PhaseOf
    <3> QED
      BY <3>1, <3>2, <2>4
      DEF Move, SameView, MovesHere, MovesElsewhere, Releases, Withdraws, GivesWay,
          Restores, Shape
  <2>6. d.state = "PENDING" => d.topreq \notin SwitchRequest
    BY <1>1, <1>6, <2>3
    DEF SwitchRequest, TimerRunning, ERPS_REQ_FS, ERPS_REQ_SF, ERPS_REQ_MS,
        ERPS_REQ_WTR_RUNNING, ERPS_REQ_WTB_RUNNING
  <2> QED
    BY <2>4, <2>5, <2>6 DEF Shape
<1> HIDE DEF d
<1> QED
  BY <1>2, <1>5, <1>6

-----------------------------------------------------------------------------
(***************************************************************************)
(* Initialization, and the theorem.                                        *)
(***************************************************************************)

(* One port stays blocked, the RPL if the node is next to it.              *)
LEMMA InitStarts ==
  ASSUME NEW n \in Node, n.blocked = {}
  PROVE  LET m == erps_node_init(n, NoFault, NoFault)
         IN  /\ m.state = "PENDING" /\ m.role = n.role /\ Announced(m) = "NR"
             /\ m.topreq \notin SwitchRequest
             /\ \E p \in Port : Home(n) \subseteq {p} /\ m.blocked = {p}
<1> DEFINE z     == [Fresh(n) EXCEPT !.topreq = ERPS_REQ_INVALID]
           k     == erps_link_init(z, NoFault)
           first == IF HasRpl(k) THEN Rpl ELSE 0
           other == erps_node_other_link(first)
           b     == erps_link_block(k, first, NoFault)
           f     == erps_link_unblock_force(b, other, NoFault)
           s     == erps_node_sched_tx(f, "NR", {})
           w     == OwnerStartsWtr(s)
           up    == erps_fsm_init(k, NoFault)
           m     == erps_node_init(n, NoFault, NoFault)
<1>1. /\ k \in Node /\ k.ok /\ k.role = n.role /\ k.topreq = ERPS_REQ_INVALID
      /\ k.blocked = {}
  <2>1. /\ z \in Node /\ z.role = n.role /\ z.topreq = ERPS_REQ_INVALID
        /\ z.blocked = {}
    BY DEF Fresh, Node, TopRequest
  <2>2. {p \in Port : \A q \in 0 .. p : q \notin NoFault.vlan} = Port
    BY DEF NoFault
  <2> HIDE DEF z
  <2> QED
    BY <2>1, <2>2 DEF erps_link_init, Node
<1>2. first \in Port /\ other \in Port /\ other # first /\ Home(n) \subseteq {first}
  BY <1>1 DEF Port, Rpl, erps_node_other_link, Home, HasRpl
<1>3. m = IF ~up.ok THEN up ELSE [up EXCEPT !.cb = TRUE, !.tx = @ \cup up.up]
  BY <1>1 DEF erps_node_init
<1>4. up = [w EXCEPT !.state = "PENDING", !.guard = FALSE]
  BY DEF erps_fsm_init
<1> HIDE DEF k, first, other
<1>5. Outcome(b, k, k.state, {first}, Announced(k))
  BY <1>1, <1>2, BlockOutcome
<1>6. b \in Node /\ b.ok /\ b.state = k.state /\ b.blocked = {first}
  BY <1>5 DEF Outcome
<1>7. Outcome(f, b, b.state, {first}, Announced(b))
  <2> DEFINE forced == [b EXCEPT !.blocked = @ \cup {other}]
  <2>1. Outcome(forced, b, b.state, {first, other}, Announced(b))
    <3>1. forced \in Node
      BY <1>2, <1>6 DEF Node
    <3>2. /\ forced.ok /\ forced.role = b.role /\ forced.topreq = b.topreq
          /\ forced.state = b.state /\ forced.pdu = b.pdu
          /\ forced.blocked = {first, other}
      BY <1>6 DEF Node
    <3> HIDE DEF forced
    <3> QED
      BY <3>1, <3>2 DEF Outcome, Announced
  <2>2. /\ forced \in Node /\ forced.ok /\ forced.state = b.state
        /\ forced.blocked \ {other} = {first} /\ Announced(forced) = Announced(b)
    BY <1>2, <2>1 DEF Outcome
  <2>3. f = erps_link_unblock(forced, other, NoFault)
    BY <1>6 DEF erps_link_unblock_force
  <2> HIDE DEF forced, f
  <2>4. Outcome(f, forced, forced.state, forced.blocked \ {other}, Announced(forced))
    BY <1>2, <2>2, <2>3, UnblockOutcome
  <2> QED
    BY <2>1, <2>2, <2>4, OutcomeChain
<1>8. f \in Node /\ f.ok /\ f.state = b.state /\ f.blocked = {first}
  BY <1>7 DEF Outcome
<1> HIDE DEF b, f
<1>9. Outcome(s, f, f.state, {first}, "NR")
  <2>1. Outcome(s, f, f.state, f.blocked, "NR")
    BY <1>8, SchedTxOutcome
  <2> QED
    BY <1>8, <2>1
<1>10. /\ s \in Node /\ s.ok /\ s.state = f.state /\ s.blocked = {first}
       /\ Announced(s) = "NR"
  BY <1>9 DEF Outcome
<1> HIDE DEF s
<1>11. Outcome(w, s, s.state, {first}, "NR")
  BY <1>10, StartOutcomes
<1>12. Outcome(w, k, s.state, {first}, "NR")
  BY <1>5, <1>7, <1>9, <1>11, OutcomeChain
<1>13. /\ w \in Node /\ w.ok /\ w.role = k.role /\ w.blocked = {first}
       /\ Announced(w) = "NR" /\ w.topreq \in {ERPS_REQ_INVALID} \cup TimerRunning
  BY <1>1, <1>12 DEF Outcome
<1> HIDE DEF w
<1>14. /\ m.state = "PENDING" /\ m.role = w.role /\ m.topreq = w.topreq
       /\ m.blocked = w.blocked /\ m.pdu = w.pdu
  <2>1. /\ up.state = "PENDING" /\ up.role = w.role /\ up.topreq = w.topreq
        /\ up.blocked = w.blocked /\ up.pdu = w.pdu
    BY <1>4, <1>13 DEF Node
  <2>2. up \in Node
    <3> DEFINE t == [w EXCEPT !.state = "PENDING"]
    <3>1. t \in Node
      BY <1>13 DEF Node, State
    <3>2. up = [t EXCEPT !.guard = FALSE]
      BY <1>4, <1>13 DEF Node
    <3> HIDE DEF t, up
    <3> QED
      BY <3>1, <3>2 DEF Node
  <2> HIDE DEF up
  <2> QED
    BY <1>3, <2>1, <2>2 DEF Node
<1> HIDE DEF m
<1>15. Announced(m) = "NR"
  BY <1>13, <1>14 DEF Announced
<1>16. m.topreq \notin SwitchRequest
  BY <1>13, <1>14
  DEF TimerRunning, SwitchRequest, ERPS_REQ_INVALID, ERPS_REQ_FS, ERPS_REQ_SF,
      ERPS_REQ_MS, ERPS_REQ_WTR_RUNNING, ERPS_REQ_WTB_RUNNING
<1> QED
  BY <1>1, <1>2, <1>13, <1>14, <1>15, <1>16 DEF m

(* Every step but initialization is a move that keeps the shape.           *)
LEMMA StepMoves ==
  ASSUME Faults = {NoFault}, SingleOwner, TypeOK, Shape(node), [Next]_vars,
         ~(\E c, e \in Faults : NodeInit(c, e))
  PROVE  Move(node', node) /\ Shape(node')
<1>0. node \in Node /\ 0 \in Port
  BY DEF TypeOK, Port
<1>1. ASSUME NEW m, Alike(m, node), m.topreq = node.topreq
      PROVE  Move(m, node) /\ Shape(m)
  BY <1>1, AlikeMoves DEF Alike, Shape
<1>2. ASSUME NEW m \in Node, m.ok, Alike(m, node), m.topreq = node.topreq,
             NEW l \in Port, NEW req, NEW id,
             req = ERPS_REQ_RAPS_NR_RB => node.role # "owner"
      PROVE  /\ Move(erps_fsm_post_locked(m, l, req, id, NoFault), node)
             /\ Shape(erps_fsm_post_locked(m, l, req, id, NoFault))
  <2>1. Shape(m) /\ m.role = node.role
    BY <1>1, <1>2 DEF Alike
  <2>2. /\ Move(erps_fsm_post_locked(m, l, req, id, NoFault), m)
        /\ Shape(erps_fsm_post_locked(m, l, req, id, NoFault))
    BY <1>2, <2>1, PostMoves
  <2> QED
    BY <1>2, <2>2, AlikeMoves
<1>3. ASSUME NEW m \in Node, Alike(m, node), m.topreq = node.topreq,
             NEW l \in Port, NEW req, req # ERPS_REQ_RAPS_NR_RB
      PROVE  /\ Move(erps_fsm_post(m, l, req, 0, NoFault), node)
             /\ Shape(erps_fsm_post(m, l, req, 0, NoFault))
  <2>1. /\ Fresh(m) \in Node /\ Fresh(m).ok /\ Alike(Fresh(m), node)
        /\ Fresh(m).topreq = node.topreq
    BY <1>3 DEF Fresh, Alike, Node
  <2> QED
    BY <1>2, <1>3, <2>1 DEF erps_fsm_post
<1>4. \A req \in AdminRequest \cup {ERPS_REQ_SF, ERPS_REQ_CLEAR_SF,
                                    ERPS_REQ_WTR_EXPIRES, ERPS_REQ_WTB_EXPIRES} :
        req # ERPS_REQ_RAPS_NR_RB
  BY DEF AdminRequest, ERPS_REQ_CLEAR, ERPS_REQ_FS, ERPS_REQ_MS, ERPS_REQ_SF,
         ERPS_REQ_CLEAR_SF, ERPS_REQ_WTR_EXPIRES, ERPS_REQ_WTB_EXPIRES,
         ERPS_REQ_RAPS_NR_RB
<1>5. /\ \A l \in Port, req \in AdminRequest, e \in Faults :
           net_erps_ctl(l, req, e) => Move(node', node) /\ Shape(node')
      /\ \A l \in Port, e \in Faults :
           CarrierRestored(l, e) => Move(node', node) /\ Shape(node')
  BY <1>0, <1>3, <1>4 DEF net_erps_ctl, CarrierRestored, Alike
<1>6. ASSUME NEW l \in Port, NEW e \in Faults, CarrierLost(l, e)
      PROVE  Move(node', node) /\ Shape(node')
  <2> DEFINE m == [node EXCEPT !.up = @ \ {l}]
  <2>1. m \in Node /\ Alike(m, node) /\ m.topreq = node.topreq
    BY <1>0 DEF Node, Alike
  <2> HIDE DEF m
  <2>2. node' = erps_fsm_post(m, l, ERPS_REQ_SF, 0, NoFault)
    BY <1>6 DEF CarrierLost, m
  <2> QED
    BY <1>3, <1>4, <2>1, <2>2
<1>7. ASSUME NEW l \in Port, NEW e \in Faults, erps_link_down_work(l, e)
      PROVE  Move(node', node) /\ Shape(node')
  <2> DEFINE m == [node EXCEPT !.linkDown = @ \ {l}]
  <2>1. m \in Node /\ Alike(m, node) /\ m.topreq = node.topreq
    BY <1>0 DEF Node, Alike
  <2> HIDE DEF m
  <2>2. node' = erps_fsm_post(m, l, ERPS_REQ_SF, 0, NoFault)
    BY <1>7 DEF erps_link_down_work, m
  <2> QED
    BY <1>3, <1>4, <2>1, <2>2
<1>8. ASSUME NEW e \in Faults, erps_wtr_work(e)
      PROVE  Move(node', node) /\ Shape(node')
  <2> DEFINE m == [node EXCEPT !.wtr = FALSE]
  <2>1. m \in Node /\ Alike(m, node) /\ m.topreq = node.topreq
    BY <1>0 DEF Node, Alike
  <2> HIDE DEF m
  <2>2. node' = erps_fsm_post(m, 0, ERPS_REQ_WTR_EXPIRES, 0, NoFault)
    BY <1>8 DEF erps_wtr_work, m
  <2> QED
    BY <1>0, <1>3, <1>4, <2>1, <2>2
<1>9. ASSUME NEW e \in Faults, erps_wtb_work(e)
      PROVE  Move(node', node) /\ Shape(node')
  <2> DEFINE m == [node EXCEPT !.wtb = FALSE]
  <2>1. m \in Node /\ Alike(m, node) /\ m.topreq = node.topreq
    BY <1>0 DEF Node, Alike
  <2> HIDE DEF m
  <2>2. node' = erps_fsm_post(m, 0, ERPS_REQ_WTB_EXPIRES, 0, NoFault)
    BY <1>9 DEF erps_wtb_work, m
  <2> QED
    BY <1>0, <1>3, <1>4, <2>1, <2>2
<1>10. ASSUME NEW l \in Port, NEW pdu \in RapsPdus, NEW e \in Faults,
              erps_raps_recv(l, pdu, e)
       PROVE  Move(node', node) /\ Shape(node')
  <2> DEFINE x == Fresh(node)
             z == [erps_raps_node_id_bpr_flush(x, l, pdu, NoFault) EXCEPT !.ok = TRUE]
  <2>1. pdu \in RapsPdu
    BY PduAssumption
  <2>2. x \in Node /\ Alike(x, node) /\ x.topreq = node.topreq
    BY <1>0 DEF Fresh, Alike, Node
  <2> HIDE DEF x
  <2>3. z \in Node /\ z.ok /\ z.topreq = x.topreq
    BY <2>1, <2>2, RecvTimers DEF Same, SameTimers
  <2>4. Alike(z, x)
    BY <2>1, <2>2 DEF erps_raps_node_id_bpr_flush, erps_flush_fdb, Alike, Node
  <2>5. /\ node' = erps_fsm_post_locked(z, l, pdu.req, pdu.id, NoFault)
        /\ pdu.req = ERPS_REQ_RAPS_NR_RB => node.role # "owner"
    BY <1>10 DEF erps_raps_recv, x
  <2> HIDE DEF z
  <2>6. Alike(z, node) /\ z.topreq = node.topreq
    BY <2>2, <2>3, <2>4 DEF Alike
  <2> QED
    BY <1>2, <2>3, <2>5, <2>6
<1>11. ASSUME NEW l \in Port, NEW e \in Faults, erps_handle_raps_event(l, e)
       PROVE  Move(node', node) /\ Shape(node')
  <2>1. Alike(node', node) /\ node'.topreq = node.topreq
    BY <1>0, <1>11 DEF erps_handle_raps_event, erps_flush_fdb, Fresh, Alike, Node
  <2> QED
    BY <1>1, <2>1
<1>12. ASSUME \/ \E p \in Port : erps_iface_up_cb(p) \/ erps_tx_work(p)
              \/ GuardTimerExpires
              \/ UNCHANGED vars
       PROVE  Move(node', node) /\ Shape(node')
  <2>1. Alike(node', node) /\ node'.topreq = node.topreq
    BY <1>0, <1>12
    DEF erps_iface_up_cb, erps_tx_work, GuardTimerExpires, vars, Alike, Node
  <2> QED
    BY <1>1, <2>1
<1> QED
  BY <1>5, <1>6, <1>7, <1>8, <1>9, <1>10, <1>11, <1>12 DEF Next, Environment, System

(* Until initialization the node is off, cuts nothing and says nothing.    *)
OffBeforeInit == ~booted => /\ PhaseOf(node) = "off" /\ node.blocked = {}
                            /\ Announced(node) = "NR"

(* What is invariant of the states of a node that does not fail.           *)
NodeShape == Shape(node) /\ OffBeforeInit

LEMMA NodeShapeKept ==
  ASSUME Faults = {NoFault}, SingleOwner, TypeOK, NodeShape, [Next]_vars
  PROVE  NodeShape' /\ [Service!Next]_Service!vars
<1>1. ASSUME NEW c \in Faults, NEW e \in Faults, NodeInit(c, e)
      PROVE  NodeShape' /\ Service!Start
  <2>1. ~booted /\ booted' /\ node' = erps_node_init(node, NoFault, NoFault)
    BY <1>1 DEF NodeInit
  <2>2. /\ node \in Node /\ PhaseOf(node) = "off" /\ node.blocked = {}
        /\ Announced(node) = "NR"
    BY <2>1 DEF TypeOK, NodeShape, OffBeforeInit
  <2>3. /\ node'.state = "PENDING" /\ node'.role = node.role
        /\ Announced(node') = "NR" /\ node'.topreq \notin SwitchRequest
        /\ \E p \in Port : Home(node) \subseteq {p} /\ node'.blocked = {p}
    BY <2>1, <2>2, InitStarts
  <2>4. PhaseOf(node') = "reverting" /\ Home(node') = Home(node)
    BY <2>3 DEF PhaseOf, Home, HasRpl
  <2>5. NodeShape'
    BY <2>1, <2>3 DEF NodeShape, Shape, OffBeforeInit
  <2> QED
    BY <2>2, <2>3, <2>4, <2>5 DEF Service!Start
<1>2. ASSUME ~(\E c, e \in Faults : NodeInit(c, e))
      PROVE  NodeShape' /\ [Service!Next]_Service!vars
  <2>1. Move(node', node) /\ Shape(node')
    BY <1>2, StepMoves DEF NodeShape
  <2>2. Home(node') = Home(node)
    BY <2>1 DEF Move, Home, HasRpl
  <2>3. OffBeforeInit'
    <3> SUFFICES ASSUME ~booted'
                 PROVE  /\ PhaseOf(node') = "off" /\ node'.blocked = {}
                        /\ Announced(node') = "NR"
      BY DEF OffBeforeInit
    <3>1. ~booted
      BY <1>2
      DEF Next, Environment, System, NodeInit, net_erps_ctl, CarrierLost,
          CarrierRestored, erps_handle_raps_event, erps_raps_recv, erps_iface_up_cb,
          erps_wtr_work, erps_wtb_work, erps_link_down_work, erps_tx_work,
          GuardTimerExpires, vars, TypeOK
    <3>2. PhaseOf(node) = "off" /\ node.blocked = {} /\ Announced(node) = "NR"
      BY <3>1 DEF NodeShape, OffBeforeInit
    <3> QED
      BY <2>1, <3>2
      DEF Move, SameView, MovesHere, MovesElsewhere, Releases, Withdraws, GivesWay,
          Restores
  <2>4. /\ SameView(node', node) => UNCHANGED Service!vars
        /\ MovesHere(node', node) =>
             \E p \in Port, order \in Service!Order : Service!SwitchHere(p, order)
        /\ MovesElsewhere(node', node) => Service!SwitchElsewhere
        /\ Releases(node', node) => Service!Release
        /\ Withdraws(node', node) => Service!Withdraw
        /\ GivesWay(node', node) => Service!GiveWay
        /\ Restores(node', node) => Service!Restore
    BY <2>2
    DEF SameView, MovesHere, MovesElsewhere, Releases, Withdraws, GivesWay, Restores,
        Service!vars, Service!Order, Service!SwitchHere, Service!SwitchElsewhere,
        Service!Release, Service!Withdraw, Service!GiveWay, Service!Restore
  <2> QED
    BY <2>1, <2>3, <2>4 DEF Move, NodeShape, Service!Next
<1> QED
  BY <1>1, <1>2 DEF Service!Next

(* While no call fails and no other node claims to be the owner, a node    *)
(* keeps the promises of ErpsService, whatever operators, links and other  *)
(* nodes do, in every role and with every timing of its timers.            *)
THEOREM ServiceKept ==
  ASSUME Faults = {NoFault}, SingleOwner
  PROVE  Spec => ServiceProvided
<1>1. Init => NodeShape /\ Service!Init
  <2> SUFFICES ASSUME Init PROVE NodeShape /\ Service!Init
    OBVIOUS
  <2>1. /\ node.state = "UNINIT" /\ node.blocked = {}
        /\ node.pdu = [rs |-> "NR", status |-> {}]
    BY DEF Init, ERPS_NODE_INIT
  <2>2. PhaseOf(node) = "off" /\ Announced(node) = "NR"
    BY <2>1 DEF PhaseOf, Announced
  <2>3. Home(node) \in {{}} \cup {{p} : p \in Port}
    BY DEF Home, Port, Rpl
  <2> QED
    BY <2>1, <2>2, <2>3 DEF NodeShape, Shape, OffBeforeInit, Service!Init
<1>2. TypeOK /\ NodeShape /\ [Next]_vars => NodeShape' /\ [Service!Next]_Service!vars
  BY NodeShapeKept
<1> QED
  BY <1>1, <1>2, TypeCorrect, PTL DEF Spec, ServiceProvided, Service!Spec

(* Under the same conditions a node in IDLE blocks its RPL port, if it has *)
(* one, and no other.                                                      *)
THEOREM IdleShapeKept ==
  ASSUME Faults = {NoFault}, SingleOwner
  PROVE  Spec => []IdleRingShape
<1>1. Init => NodeShape
  BY DEF Init, ERPS_NODE_INIT, NodeShape, Shape, OffBeforeInit, PhaseOf, Announced
<1>2. TypeOK /\ NodeShape /\ [Next]_vars => NodeShape'
  BY NodeShapeKept
<1>3. NodeShape => IdleRingShape
  BY DEF NodeShape, Shape, Home, IdleRingShape
<1> QED
  BY <1>1, <1>2, <1>3, TypeCorrect, PTL DEF Spec
=============================================================================
