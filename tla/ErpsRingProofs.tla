---------------------------- MODULE ErpsRingProofs ----------------------------
(***************************************************************************)
(* Proofs about ErpsRing for rings of any length, any IDs, commands, links *)
(* dark at start-up, late and lost PDUs, whether or not the switches       *)
(* forward R-APS across a blocked port, and without a bound on the events. *)
(*                                                                         *)
(* What ErpsNode guarantees in an environment where no other node says RB  *)
(* holds of every node of the ring, because the ring is that environment:  *)
(* the nodes' invariants (Sound) and the PDUs in flight (Unrivalled) are   *)
(* inductive together.                                                     *)
(*                                                                         *)
(* That the ring stays cut (second part) is a matter of who is blocked     *)
(* when somebody opens a port: the node it has heard, or, if what it heard *)
(* was late, one of the nodes named by Covered.  That a failure that has   *)
(* ended leaves no node waiting (third part) is a matter of who still      *)
(* speaks, in the same way.                                                *)
(***************************************************************************)
EXTENDS ErpsRing, ErpsFsmProofs, FiniteSetTheorems

(* What holds of a node of the given role, whatever it does.               *)
Sound(n, role) ==
  /\ n \in Node /\ n.role = role
  /\ n.state = "IDLE" => n.blocked = IF HasRpl(n) THEN {Rpl} ELSE {}
  /\ n.state = "PENDING" => n.topreq \notin Local
  /\ role # "owner" => "RB" \notin n.pdu.status

(* A PDU in flight: (NR,RB) is never on its way to the owner.              *)
Unrivalled(m) ==
  /\ m \in [to : Ring, req : Request \ TimerRunning, id : Nat, before : SUBSET Ring]
  /\ m.to = 0 => m.req # ERPS_REQ_RAPS_NR_RB

RingInv ==
  /\ nodes \in [Ring -> Node]
  /\ \A i \in Ring : Sound(nodes[i], RoleOf(i))
  /\ \A m \in flight : Unrivalled(m)

-----------------------------------------------------------------------------
(* The places of the roles.                                                *)
LEMMA Roles ==
  /\ 0 \in Ring /\ RplLink \in Ring
  /\ RoleOf(0) = "owner" /\ RoleOf(RplLink) = "nbr"
  /\ \A i \in Ring : RoleOf(i) \in Role /\ (RoleOf(i) = "owner" => i = 0)
BY RingAssumption DEF Ring, RplLink, RoleOf, Role

(* A node that changes in other fields only.                               *)
LEMMA SoundAlike ==
  ASSUME NEW n, NEW role, Sound(n, role), NEW m \in Node,
         m.role = n.role, m.state = n.state, m.blocked = n.blocked,
         m.topreq = n.topreq, m.pdu = n.pdu
  PROVE  Sound(m, role)
BY DEF Sound, HasRpl

LEMMA SoundFields ==
  ASSUME NEW n, NEW role, Sound(n, role), NEW p \in Port
  PROVE  /\ Sound(Fresh(n), role)
         /\ Sound([n EXCEPT !.up = @ \ {p}], role)
         /\ Sound([n EXCEPT !.linkDown = @ \ {p}], role)
         /\ Sound([n EXCEPT !.up = @ \cup {p}, !.tx = @ \cup {p}], role)
         /\ Sound([n EXCEPT !.guard = FALSE], role)
         /\ Sound([n EXCEPT !.wtr = FALSE], role)
         /\ Sound([n EXCEPT !.wtb = FALSE], role)
<1> DEFINE Alike(m) == /\ m.role = n.role /\ m.state = n.state
                       /\ m.blocked = n.blocked /\ m.topreq = n.topreq
                       /\ m.pdu = n.pdu
<1>0. n \in Node
  BY DEF Sound
<1>1. Fresh(n) \in Node /\ Alike(Fresh(n))
  <2>1. Fresh(n) \in Node
    BY <1>0, SimpleTypes
  <2>2. Alike(Fresh(n))
    BY <1>0 DEF Fresh, Node
  <2> QED
    BY <2>1, <2>2
<1>2. /\ [n EXCEPT !.up = n.up \ {p}] \in Node
      /\ Alike([n EXCEPT !.up = n.up \ {p}])
  BY <1>0 DEF Node
<1>3. /\ [n EXCEPT !.linkDown = n.linkDown \ {p}] \in Node
      /\ Alike([n EXCEPT !.linkDown = n.linkDown \ {p}])
  BY <1>0 DEF Node
<1>4. /\ [n EXCEPT !.up = n.up \cup {p}, !.tx = n.tx \cup {p}] \in Node
      /\ Alike([n EXCEPT !.up = n.up \cup {p}, !.tx = n.tx \cup {p}])
  <2> DEFINE up == n.up \cup {p}
             tx == n.tx \cup {p}
  <2>1. up \in SUBSET Port /\ tx \in SUBSET Port
    BY <1>0 DEF Node
  <2> HIDE DEF up, tx
  <2>2. [n EXCEPT !.up = up, !.tx = tx] \in Node
    BY <1>0, <2>1 DEF Node
  <2>3. Alike([n EXCEPT !.up = up, !.tx = tx])
    BY <1>0 DEF Node
  <2> QED
    BY <2>2, <2>3 DEF up, tx
<1>5. /\ [n EXCEPT !.guard = FALSE] \in Node /\ Alike([n EXCEPT !.guard = FALSE])
  BY <1>0 DEF Node
<1>6. /\ [n EXCEPT !.wtr = FALSE] \in Node /\ Alike([n EXCEPT !.wtr = FALSE])
  BY <1>0 DEF Node
<1>7. /\ [n EXCEPT !.wtb = FALSE] \in Node /\ Alike([n EXCEPT !.wtb = FALSE])
  BY <1>0 DEF Node
<1> QED
  BY <1>1, <1>2, <1>3, <1>4, <1>5, <1>6, <1>7, SoundAlike

(* The record the table is given when a request is posted at n.            *)
Ready(x, n, l, req) ==
  /\ x \in Node /\ x.role = n.role /\ x.id = n.id /\ x.up = n.up
  /\ x.state = n.state /\ x.blocked = n.blocked /\ x.pdu = n.pdu /\ x.tx = n.tx
  /\ n.guard => x.guard
  /\ (x.revertive <=> n.revertive) /\ (x.wtr <=> n.wtr) /\ (x.wtb <=> n.wtb)
  /\ x.linkDown \subseteq n.linkDown
  /\ req = ERPS_REQ_CLEAR_SF => l \notin x.linkDown
  /\ IF RequestAccepted(n, req)
     THEN /\ x.topreq = IF req \in LocalRequest THEN req ELSE ERPS_REQ_INVALID
          /\ x.failed = IF req = ERPS_REQ_SF THEN n.failed \cup {l} ELSE n.failed
     ELSE x.topreq = n.topreq /\ x.failed = n.failed

(* Every call of a post at a node of the ring succeeds, so that it has one *)
(* of the effects of the machine, or none.                                 *)
LEMMA PostKinds ==
  ASSUME NEW n \in Node, NEW l \in Port, NEW id, NEW req
  PROVE  \E x, m : /\ Posted(n, l, req, id) = Fresh(m) /\ m \in Node
                   /\ Ready(x, n, l, req)
                   /\ \/ m = x /\ (~RequestAccepted(n, req) \/ req = ERPS_REQ_CLEAR_SF)
                      \/ RequestAccepted(n, req) /\ Effect(m, x, l, req)
<1> DEFINE z == Fresh(n)
           m == erps_fsm_post_locked(z, l, req, id, NoFault)
<1>1. /\ z \in Node /\ z.ok /\ z.role = n.role /\ z.id = n.id /\ z.up = n.up
      /\ z.state = n.state /\ z.blocked = n.blocked /\ z.failed = n.failed
      /\ z.pdu = n.pdu /\ z.tx = n.tx /\ z.topreq = n.topreq
      /\ n.guard => z.guard
      /\ (z.revertive <=> n.revertive) /\ (z.wtr <=> n.wtr) /\ (z.wtb <=> n.wtb)
      /\ z.linkDown = n.linkDown
  BY DEF Fresh, Node
<1>2. RequestAccepted(z, req) <=> RequestAccepted(n, req)
  BY <1>1 DEF RequestAccepted, erps_local_clear_valid, erps_node_is_rpl_owner
<1>3. Posted(n, l, req, id) = Fresh(m)
  BY DEF Posted
<1>4. z \in Node /\ z.ok
  BY <1>1
<1> HIDE DEF z
<1>5. m = erps_fsm_post_locked(z, l, req, id, NoFault)
  OBVIOUS
<1> HIDE DEF m
<1>6. PICK x : /\ Prepared(x, z, l, req)
               /\ \/ m = x /\ (~RequestAccepted(z, req) \/ req = ERPS_REQ_CLEAR_SF)
                  \/ /\ RequestAccepted(z, req) /\ Result(m, x, l, req, NoFault)
                     /\ z.state = "UNINIT" => m = x
                     /\ \A sync, fine : /\ sync => NoFault.vlan = {}
                                        /\ fine => NoFault = NoFault
                                        /\ Kept(x, sync, fine)
                                        => Kept(m, sync, fine)
  BY <1>4, <1>5, PostResult
<1>7. Ready(x, n, l, req) /\ x.ok
  BY <1>1, <1>4, <1>2, <1>6 DEF Ready, Prepared, Base, SameAir, SamePdu
<1>8. ASSUME RequestAccepted(z, req), Result(m, x, l, req, NoFault),
             \A sync, fine : /\ sync => NoFault.vlan = {}
                             /\ fine => NoFault = NoFault
                             /\ Kept(x, sync, fine)
                             => Kept(m, sync, fine)
      PROVE  Effect(m, x, l, req) /\ m \in Node
  <2>1. Kept(x, FALSE, TRUE)
    BY <1>7 DEF Kept, Ready
  <2>2. Kept(m, FALSE, TRUE)
    BY <1>8, <2>1
  <2> QED
    BY <1>8, <2>2 DEF Kept, Result
<1> QED
  BY <1>2, <1>3, <1>6, <1>7, <1>8 DEF Ready

(* A post keeps a node sound: no post but the owner's own expiries and     *)
(* CLEAR makes it say RB or, at the owner, leaves PENDING for IDLE.        *)
LEMMA PostSound ==
  ASSUME NEW n, NEW role, Sound(n, role), NEW l \in Port, NEW id,
         NEW req, req \notin TimerRunning,
         role = "owner" => req # ERPS_REQ_RAPS_NR_RB
  PROVE  Sound(Posted(n, l, req, id), role)
<1>0. 0 \in Port /\ n \in Node
  BY DEF Port, Sound
<1>1. PICK x, m : /\ Posted(n, l, req, id) = Fresh(m) /\ m \in Node
                  /\ Ready(x, n, l, req)
                  /\ \/ m = x /\ (~RequestAccepted(n, req) \/ req = ERPS_REQ_CLEAR_SF)
                     \/ RequestAccepted(n, req) /\ Effect(m, x, l, req)
  BY <1>0, PostKinds
<1>2. /\ x \in Node /\ x.role = role /\ x.state = n.state
      /\ x.blocked = n.blocked /\ x.pdu = n.pdu
      /\ x.topreq = IF RequestAccepted(n, req)
                    THEN IF req \in LocalRequest THEN req ELSE ERPS_REQ_INVALID
                    ELSE n.topreq
  BY <1>1 DEF Ready, Sound
<1>3. ERPS_REQ_INVALID \notin Local /\ ERPS_REQ_CLEAR_SF \notin LocalRequest
      /\ TimerRunning \cap Local = {}
      /\ (req \notin Local => req \notin LocalRequest)
  BY DEF TimerRunning, LocalRequest, Local, ERPS_REQ_INVALID, ERPS_REQ_FS, ERPS_REQ_SF,
         ERPS_REQ_MS, ERPS_REQ_WTR_RUNNING, ERPS_REQ_WTB_RUNNING, ERPS_REQ_CLEAR_SF
<1>4. ASSUME m = x, ~RequestAccepted(n, req) \/ req = ERPS_REQ_CLEAR_SF
      PROVE  Sound(m, role)
  BY <1>2, <1>3, <1>4 DEF Sound, HasRpl
<1>5. ASSUME RequestAccepted(n, req), Effect(m, x, l, req)
      PROVE  Sound(m, role)
  <2>1. m \in Node /\ m.role = role
    BY <1>2, <1>5 DEF Effect, Base
  <2>2. /\ x.state = "IDLE" => x.blocked = IF HasRpl(x) THEN {Rpl} ELSE {}
        /\ x.state = "PENDING" => n.topreq \notin Local
        /\ role # "owner" => "RB" \notin x.pdu.status
    BY <1>2 DEF Sound, HasRpl
  <2>3. req \notin Local => x.topreq \notin Local
    BY <1>2, <1>3, <1>5
  <2>4. role = "owner" => req # ERPS_REQ_RAPS_NR_RB
    OBVIOUS
  <2>5. ASSUME m.state = "IDLE" PROVE m.blocked = IF HasRpl(m) THEN {Rpl} ELSE {}
    <3>1. HasRpl(m) <=> HasRpl(x)
      BY <1>2, <2>1 DEF HasRpl
    <3>2. CASE Untouched(m, x, req)
      BY <2>2, <2>5, <3>1, <3>2 DEF Untouched, Same, SamePorts
    <3>3. CASE FollowsInIdle(m, x, req)
      BY <2>2, <2>5, <3>1, <3>3 DEF FollowsInIdle, SamePorts, Rpl
    <3>4. CASE EndsWaiting(m, x, req)
      BY <3>1, <3>4 DEF EndsWaiting
    <3>5. CASE EndsWithout(m, x, req)
      <4>1. req # ERPS_REQ_CLEAR \/ HasRpl(x)
        <5> SUFFICES ASSUME req = ERPS_REQ_CLEAR, ~HasRpl(x) PROVE FALSE
          OBVIOUS
        <5>1. n.topreq \in {ERPS_REQ_FS, ERPS_REQ_MS}
          BY <1>2, <1>5 DEF RequestAccepted, erps_local_clear_valid,
                            erps_node_is_rpl_owner, HasRpl, Sound
        <5> QED
          BY <2>2, <3>5, <5>1 DEF EndsWithout, Local
      <4> QED
        BY <1>2, <2>4, <3>1, <3>5, <4>1 DEF EndsWithout, HasRpl
    <3>6. CASE YieldsPorts(m, x, req)
      BY <2>2, <2>5, <3>1, <3>6 DEF YieldsPorts, Same
    <3>7. /\ ~CutsHere(m, x, l, req) /\ ~CutsMore(m, x, l, req)
          /\ ~OpensPorts(m, x, req) /\ ~StartsWaiting(m, x, req)
          /\ ~DropsOrder(m, x, req)
      <4>1. ~CutsHere(m, x, l, req)
        BY <2>5 DEF CutsHere, Local, SwitchState
      <4> QED
        BY <2>5, <4>1 DEF CutsMore, OpensPorts, StartsWaiting, DropsOrder, Same
    <3> QED
      BY <1>5, <3>2, <3>3, <3>4, <3>5, <3>6, <3>7 DEF Effect
  <2>6. ASSUME m.state = "PENDING" PROVE m.topreq \notin Local
    <3>1. CASE Untouched(m, x, req) \/ YieldsPorts(m, x, req)
      <4>1. m.topreq = x.topreq /\ x.state = "PENDING" /\ req \notin Local
        BY <2>6, <3>1 DEF Untouched, YieldsPorts, Same, SameTimers, Local,
                          ERPS_REQ_FS, ERPS_REQ_SF, ERPS_REQ_MS, ERPS_REQ_RAPS_NR
      <4> QED
        BY <2>3, <4>1
    <3>2. CASE StartsWaiting(m, x, req)
      <4>1. req \notin Local
        BY <3>2 DEF StartsWaiting, Local, ERPS_REQ_FS, ERPS_REQ_SF, ERPS_REQ_MS,
                    ERPS_REQ_CLEAR, ERPS_REQ_CLEAR_SF, ERPS_REQ_RAPS_MS,
                    ERPS_REQ_RAPS_NR, ERPS_REQ_RAPS_NR_RB
      <4> QED
        BY <1>3, <2>3, <3>2, <4>1 DEF StartsWaiting
    <3>3. /\ ~FollowsInIdle(m, x, req) /\ ~CutsHere(m, x, l, req)
          /\ ~CutsMore(m, x, l, req) /\ ~OpensPorts(m, x, req)
          /\ ~DropsOrder(m, x, req) /\ ~EndsWaiting(m, x, req)
          /\ ~EndsWithout(m, x, req)
      BY <2>6 DEF FollowsInIdle, CutsHere, CutsMore, OpensPorts, DropsOrder,
                  EndsWaiting, EndsWithout, Same, SwitchState, Local
    <3> QED
      BY <1>5, <3>1, <3>2, <3>3 DEF Effect
  <2>7. ASSUME role # "owner" PROVE "RB" \notin m.pdu.status
    <3>1. ~EndsWaiting(m, x, req)
      <4>1. SUFFICES ASSUME EndsWaiting(m, x, req) PROVE FALSE
        OBVIOUS
      <4>2. req = ERPS_REQ_CLEAR /\ n.state = "PENDING" /\ n.role # "owner"
        BY <1>2, <2>7, <4>1 DEF EndsWaiting, erps_node_is_rpl_owner, Sound
      <4>3. n.topreq \in {ERPS_REQ_FS, ERPS_REQ_MS}
        BY <1>5, <4>2 DEF RequestAccepted, erps_local_clear_valid,
                          erps_node_is_rpl_owner
      <4> QED
        BY <1>2, <2>2, <4>2, <4>3 DEF Local
    <3>2. CASE m.pdu = x.pdu
      BY <2>2, <2>7, <3>2
    <3>3. CASE CutsHere(m, x, l, req)
      BY <3>3 DEF CutsHere
    <3>4. CASE CutsMore(m, x, l, req) \/ DropsOrder(m, x, req)
      BY <3>4 DEF CutsMore, DropsOrder
    <3>5. CASE StartsWaiting(m, x, req)
      BY <2>2, <2>7, <3>5 DEF StartsWaiting, SameAir, SamePdu
    <3>6. \/ CutsHere(m, x, l, req) \/ CutsMore(m, x, l, req)
          \/ StartsWaiting(m, x, req) \/ DropsOrder(m, x, req)
          \/ m.pdu = x.pdu
      BY <1>5, <3>1 DEF Effect, Untouched, FollowsInIdle, OpensPorts, YieldsPorts,
                        EndsWithout, SameAir, SamePdu
    <3> QED
      BY <3>2, <3>3, <3>4, <3>5, <3>6
  <2> QED
    BY <2>1, <2>5, <2>6, <2>7 DEF Sound
<1>6. Sound(m, role)
  BY <1>1, <1>4, <1>5
<1> QED
  BY <1>0, <1>1, <1>6, SoundFields

(* A node that has come up waits in PENDING with a blocked port.           *)
LEMMA InitNode ==
  ASSUME Init, NEW i \in Ring
  PROVE  /\ nodes[i] \in Node /\ nodes[i].role = RoleOf(i)
         /\ nodes[i].state = "PENDING" /\ nodes[i].topreq \notin Local
         /\ nodes[i].pdu = [rs |-> "NR", status |-> {}] /\ nodes[i].blocked # {}
         /\ nodes[i].up = {} /\ nodes[i].topreq # ERPS_REQ_CLEAR /\ TimerInv(nodes[i])
         /\ nodes[i].revertive <=> Revertive
         /\ RevertiveOwner(nodes[i]) => nodes[i].wtr
<1>1. PICK id \in Ids : nodes = [j \in Ring |->
        Fresh(erps_node_init(
          ERPS_NODE_INIT(RoleOf(j), Revertive, id[j], {}), NoFault, NoFault))]
  BY DEF Init
<1> DEFINE n == ERPS_NODE_INIT(RoleOf(i), Revertive, id[i], {})
           m == erps_node_init(n, NoFault, NoFault)
<1>2. /\ RoleOf(i) \in Role /\ Revertive \in BOOLEAN /\ id[i] \in Nat
      /\ [p \in Port |-> NoPair] \in [Port -> Pair]
      /\ [p \in Port |-> 0] \in [Port -> 0 .. ERPS_RAPS_BURST]
  BY <1>1, Roles, RingAssumption, BurstAssumption DEF Pair, NoPair
<1>3. /\ n \in Node /\ ~n.cb /\ n.role = RoleOf(i)
      /\ n.pdu = [rs |-> "NR", status |-> {}]
      /\ n.blocked = {} /\ n.enabled = {} /\ n.traffic = Port
      /\ n.up = {} /\ (n.revertive <=> Revertive) /\ TimerInv(n)
  BY <1>2 DEF ERPS_NODE_INIT, Node, State, TopRequest, PduMut, TimerInv,
              ERPS_REQ_CLEAR, ERPS_REQ_WTR_RUNNING, ERPS_REQ_WTB_RUNNING
<1> HIDE DEF n
<1>4. NoFault.vlan = {}
  BY DEF NoFault
<1>5. /\ m \in Node /\ m.role = RoleOf(i) /\ m.pdu = [rs |-> "NR", status |-> {}]
      /\ m.state = "PENDING" /\ m.topreq \in {ERPS_REQ_INVALID} \cup TimerRunning
      /\ m.blocked # {} /\ m.up = {} /\ (m.revertive <=> Revertive)
      /\ RevertiveOwner(m) => m.wtr
  <2>1. m = erps_node_init(n, NoFault, NoFault)
    OBVIOUS
  <2> HIDE DEF m
  <2>2. /\ m.ok /\ m \in Node /\ m.role = n.role /\ (m.revertive <=> n.revertive)
        /\ m.up = n.up /\ m.pdu \in {n.pdu, [rs |-> "NR", status |-> {}]}
        /\ m.topreq \in {ERPS_REQ_INVALID} \cup TimerRunning
        /\ m.ok => m.state = "PENDING" /\ (RevertiveOwner(m) => m.wtr)
    BY <1>3, <2>1, InitResult
  <2>3. m.blocked # {}
    BY <1>3, <1>4, <2>1, <2>2, InitResult
  <2> QED
    BY <1>3, <2>2, <2>3
<1>6. TimerInv(m)
  BY <1>3, InitKeepsTimers
<1>7. nodes[i] = Fresh(m)
  BY <1>1 DEF n
<1> HIDE DEF m
<1>8. /\ nodes[i] \in Node /\ nodes[i].role = m.role /\ nodes[i].state = m.state
      /\ nodes[i].topreq = m.topreq /\ nodes[i].pdu = m.pdu
      /\ nodes[i].blocked = m.blocked /\ nodes[i].up = m.up
      /\ (nodes[i].revertive <=> m.revertive)
      /\ (nodes[i].wtr <=> m.wtr) /\ (nodes[i].wtb <=> m.wtb)
  <2>1. nodes[i] \in Node
    BY <1>5, <1>7, SimpleTypes
  <2> QED
    BY <1>5, <1>7, <2>1 DEF Fresh, Node
<1>9. TimerInv(nodes[i]) /\ (RevertiveOwner(nodes[i]) => nodes[i].wtr)
  BY <1>5, <1>6, <1>8 DEF TimerInv, RevertiveOwner, erps_node_is_rpl_owner
<1>10. nodes[i].topreq \notin Local \cup {ERPS_REQ_CLEAR}
  BY <1>5, <1>8
  DEF Local, TimerRunning, ERPS_REQ_INVALID, ERPS_REQ_WTR_RUNNING, ERPS_REQ_CLEAR,
      ERPS_REQ_WTB_RUNNING, ERPS_REQ_FS, ERPS_REQ_SF, ERPS_REQ_MS
<1> QED
  BY <1>5, <1>8, <1>9, <1>10

LEMMA InitSound == Init => RingInv
<1> SUFFICES ASSUME Init PROVE RingInv
  OBVIOUS
<1>1. \A i \in Ring : Sound(nodes[i], RoleOf(i))
  BY InitNode DEF Sound
<1>2. nodes \in [Ring -> Node]
  <2>1. nodes = [i \in Ring |-> nodes[i]]
    BY DEF Init
  <2> QED
    BY <2>1, InitNode
<1> QED
  BY <1>1, <1>2 DEF Init, RingInv

(* What the ring does is what one of its nodes does.                       *)
LEMMA UpdateSound ==
  ASSUME RingInv, NEW i \in Ring, NEW n, Sound(n, RoleOf(i)),
         nodes' = [nodes EXCEPT ![i] = n]
  PROVE  nodes' \in [Ring -> Node] /\ \A j \in Ring : Sound(nodes'[j], RoleOf(j))
<1>1. n \in Node
  BY DEF Sound
<1> QED
  BY <1>1 DEF RingInv

LEMMA OutlastedUnrivalled ==
  ASSUME NEW pdus, \A m \in pdus : Unrivalled(m), NEW i \in Ring, NEW starts
  PROVE  \A m \in Outlasted(pdus, i, starts) : Unrivalled(m)
<1>1. ASSUME NEW m, Unrivalled(m) PROVE Unrivalled([m EXCEPT !.before = @ \cup {i}])
  BY <1>1 DEF Unrivalled
<1> QED
  BY <1>1 DEF Outlasted

LEMMA UpdateKeeps ==
  ASSUME RingInv, NEW i \in Ring, NEW n, Sound(n, RoleOf(i)),
         NEW starts, Update(i, n, starts)
  PROVE  RingInv'
<1>1. \A m \in flight' : Unrivalled(m)
  BY OutlastedUnrivalled DEF Update, RingInv
<1>2. nodes' = [nodes EXCEPT ![i] = n]
  BY DEF Update
<1> QED
  BY <1>1, <1>2, UpdateSound DEF RingInv, Unrivalled

(* What a node hears: no node but the owner says RB.                       *)
LEMMA HeardSound ==
  ASSUME RingInv, NEW s \in Ring, NEW r \in Ring, s # r
  PROVE  LET req == RapsRequest(nodes[s].pdu)
         IN  /\ req \in Request \ TimerRunning
             /\ r = 0 => req # ERPS_REQ_RAPS_NR_RB
<1>1. RapsRequest(nodes[s].pdu) = ERPS_REQ_RAPS_NR_RB => "RB" \in nodes[s].pdu.status
  BY DEF RapsRequest, ERPS_REQ_RAPS_FS, ERPS_REQ_RAPS_SF, ERPS_REQ_RAPS_MS,
         ERPS_REQ_RAPS_NR_RB, ERPS_REQ_RAPS_NR
<1>2. RapsRequest(nodes[s].pdu) \in Request \ TimerRunning
  BY DEF RapsRequest, Request, TimerRunning, ERPS_REQ_CLEAR, ERPS_REQ_RAPS_FS,
         ERPS_REQ_RAPS_SF, ERPS_REQ_RAPS_MS, ERPS_REQ_RAPS_NR_RB, ERPS_REQ_RAPS_NR,
         ERPS_REQ_WTR_RUNNING, ERPS_REQ_WTB_RUNNING
<1>3. "RB" \in nodes[s].pdu.status => s = 0
  BY Roles DEF RingInv, Sound
<1> QED
  BY <1>1, <1>2, <1>3

LEMMA ReceivedSound ==
  ASSUME RingInv, NEW r \in Ring, NEW id,
         NEW req, req \notin TimerRunning, r = 0 => req # ERPS_REQ_RAPS_NR_RB
  PROVE  Sound(Received(r, req, id), RoleOf(r))
BY PostSound, Roles, 0 \in Port DEF RingInv, Received, Port

(* Every step keeps the invariant.                                         *)
LEMMA StepKeeps == RingInv /\ [Next]_vars => RingInv'
<1> SUFFICES ASSUME RingInv, [Next]_vars PROVE RingInv'
  OBVIOUS
<1>0. /\ \A i \in Ring : Sound(nodes[i], RoleOf(i))
      /\ 0 \in Port
  BY DEF RingInv, Port
<1>1. ASSUME NEW c \in Commands, NEW l \in Port, Command(c[1], l, c[2]) PROVE RingInv'
  <2>1. c[1] \in Ring /\ c[2] \in {ERPS_REQ_CLEAR, ERPS_REQ_FS, ERPS_REQ_MS}
    BY RingAssumption
  <2>2. c[2] \notin TimerRunning /\ c[2] # ERPS_REQ_RAPS_NR_RB
    BY <2>1 DEF TimerRunning, ERPS_REQ_CLEAR, ERPS_REQ_FS, ERPS_REQ_MS,
                ERPS_REQ_RAPS_NR_RB, ERPS_REQ_WTR_RUNNING, ERPS_REQ_WTB_RUNNING
  <2>3. Sound(Posted(nodes[c[1]], l, c[2], 0), RoleOf(c[1]))
    BY <1>0, <2>1, <2>2, PostSound
  <2> QED
    BY <1>1, <2>1, <2>3, UpdateKeeps DEF Command, Post
<1>2. ASSUME NEW k \in Ring, LinkChanges(k) PROVE RingInv'
  BY <1>2 DEF LinkChanges, RingInv, Unrivalled
<1>3. ASSUME NEW i \in Ring, NEW p \in Port, Detected(i, p) PROVE RingInv'
  <2>0. /\ ERPS_REQ_SF \notin TimerRunning /\ ERPS_REQ_SF # ERPS_REQ_RAPS_NR_RB
        /\ ERPS_REQ_CLEAR_SF \notin TimerRunning
        /\ ERPS_REQ_CLEAR_SF # ERPS_REQ_RAPS_NR_RB
    BY DEF TimerRunning, ERPS_REQ_SF, ERPS_REQ_CLEAR_SF, ERPS_REQ_RAPS_NR_RB,
           ERPS_REQ_WTR_RUNNING, ERPS_REQ_WTB_RUNNING
  <2>1. CASE SignalFail(i, p)
    <3>1. Sound([nodes[i] EXCEPT !.up = @ \ {p}], RoleOf(i))
      BY <1>0, SoundFields
    <3>2. Sound(Posted([nodes[i] EXCEPT !.up = @ \ {p}], p, ERPS_REQ_SF, 0), RoleOf(i))
      BY <2>0, <3>1, PostSound
    <3> QED
      BY <2>1, <3>2, UpdateKeeps DEF SignalFail, Post
  <2>2. CASE ClearSignalFail(i, p)
    <3> DEFINE n == Posted(nodes[i], p, ERPS_REQ_CLEAR_SF, 0)
    <3>1. Sound(n, RoleOf(i))
      BY <1>0, <2>0, PostSound
    <3>2. Update(i, [n EXCEPT !.up = @ \cup {p}, !.tx = @ \cup {p}],
                 StartsGuard(nodes[i], p, ERPS_REQ_CLEAR_SF))
      BY <2>2 DEF ClearSignalFail
    <3> HIDE DEF n
    <3>3. Sound([n EXCEPT !.up = @ \cup {p}, !.tx = @ \cup {p}], RoleOf(i))
      BY <3>1, SoundFields
    <3> QED
      BY <3>2, <3>3, UpdateKeeps
  <2>3. CASE LinkDownExpires(i, p)
    <3>1. Sound([nodes[i] EXCEPT !.linkDown = @ \ {p}], RoleOf(i))
      BY <1>0, SoundFields
    <3>2. Sound(Posted([nodes[i] EXCEPT !.linkDown = @ \ {p}], p, ERPS_REQ_SF, 0),
                RoleOf(i))
      BY <2>0, <3>1, PostSound
    <3> QED
      BY <2>3, <3>2, UpdateKeeps DEF LinkDownExpires, Post
  <2> QED
    BY <1>3, <2>1, <2>2, <2>3 DEF Detected
<1>4. ASSUME NEW s \in Ring, NEW r \in Ring, Receive(s, r) PROVE RingInv'
  <2>1. Sound(Heard(r, s), RoleOf(r))
    BY <1>4, HeardSound, ReceivedSound DEF Receive, Heard
  <2> QED
    BY <1>4, <2>1, UpdateKeeps DEF Receive
<1>5. ASSUME NEW s \in Ring, NEW r \in Ring, Delay(s, r) PROVE RingInv'
  <2> DEFINE late == [to |-> r, req |-> RapsRequest(nodes[s].pdu),
                      id |-> nodes[s].id, before |-> {}]
  <2>0. nodes[s].id \in Nat
    BY DEF RingInv, Node
  <2>1. Unrivalled(late)
    BY <1>5, <2>0, HeardSound DEF Delay, Unrivalled
  <2>2. nodes' = nodes /\ flight' = flight \cup {late}
    BY <1>5 DEF Delay
  <2> HIDE DEF late
  <2>3. \A m \in flight' : Unrivalled(m)
    BY <2>1, <2>2 DEF RingInv
  <2> QED
    BY <2>2, <2>3 DEF RingInv, Unrivalled
<1>6. ASSUME NEW m \in flight, Arrive(m) PROVE RingInv'
  <2> DEFINE n == Received(m.to, m.req, m.id)
  <2>1. m.to \in Ring /\ Sound(n, RoleOf(m.to))
    BY ReceivedSound DEF RingInv, Unrivalled
  <2>2. /\ nodes' = [nodes EXCEPT ![m.to] = n]
        /\ flight' = Outlasted(flight \ {m}, m.to, n.guard /\ ~nodes[m.to].guard)
    BY <1>6 DEF Arrive
  <2> HIDE DEF n
  <2>3. \A k \in flight' : Unrivalled(k)
    BY <2>1, <2>2, OutlastedUnrivalled DEF RingInv
  <2>4. nodes' \in [Ring -> Node] /\ \A j \in Ring : Sound(nodes'[j], RoleOf(j))
    BY <2>1, <2>2, UpdateSound
  <2> QED
    BY <2>3, <2>4 DEF RingInv, Unrivalled
<1>7. ASSUME NEW i \in Ring, Expires(i) PROVE RingInv'
  <2>0. /\ ERPS_REQ_WTR_EXPIRES \notin TimerRunning
        /\ ERPS_REQ_WTR_EXPIRES # ERPS_REQ_RAPS_NR_RB
        /\ ERPS_REQ_WTB_EXPIRES \notin TimerRunning
        /\ ERPS_REQ_WTB_EXPIRES # ERPS_REQ_RAPS_NR_RB
    BY DEF TimerRunning, ERPS_REQ_WTR_EXPIRES, ERPS_REQ_WTB_EXPIRES,
           ERPS_REQ_RAPS_NR_RB, ERPS_REQ_WTR_RUNNING, ERPS_REQ_WTB_RUNNING
  <2>1. CASE GuardTimerExpires(i)
    <3>1. Sound([nodes[i] EXCEPT !.guard = FALSE], RoleOf(i))
      BY <1>0, SoundFields
    <3> QED
      BY <2>1, <3>1, UpdateKeeps DEF GuardTimerExpires
  <2>2. CASE WtrExpires(i)
    <3>1. Sound([nodes[i] EXCEPT !.wtr = FALSE], RoleOf(i))
      BY <1>0, SoundFields
    <3>2. Sound(Posted([nodes[i] EXCEPT !.wtr = FALSE], 0, ERPS_REQ_WTR_EXPIRES, 0),
                RoleOf(i))
      BY <1>0, <2>0, <3>1, PostSound
    <3> QED
      BY <2>2, <3>2, UpdateKeeps DEF WtrExpires, Post
  <2>3. CASE WtbExpires(i)
    <3>1. Sound([nodes[i] EXCEPT !.wtb = FALSE], RoleOf(i))
      BY <1>0, SoundFields
    <3>2. Sound(Posted([nodes[i] EXCEPT !.wtb = FALSE], 0, ERPS_REQ_WTB_EXPIRES, 0),
                RoleOf(i))
      BY <1>0, <2>0, <3>1, PostSound
    <3> QED
      BY <2>3, <3>2, UpdateKeeps DEF WtbExpires, Post
  <2> QED
    BY <1>7, <2>1, <2>2, <2>3 DEF Expires
<1>8. CASE UNCHANGED vars
  BY <1>8 DEF vars, RingInv, Unrivalled
<1> QED
  BY <1>1, <1>2, <1>3, <1>4, <1>5, <1>6, <1>7, <1>8 DEF Next

LEMMA RingInvAlways == Spec => []RingInv
  BY InitSound, StepKeeps, PTL DEF Spec

-----------------------------------------------------------------------------
(* Every node stays one.                                                   *)
THEOREM TypeCorrect == Spec => []TypeOK
<1>1. RingInv => TypeOK
  BY DEF RingInv, TypeOK
<1> QED
  BY <1>1, RingInvAlways, PTL

(* No node but the owner says RB, in no PDU that reaches the owner, however*)
(* late: what ErpsNode takes as an assumption (SingleOwner) is a fact about*)
(* rings with one owner, and its theorems apply to each node of one.       *)
THEOREM OwnerAlone == Spec => []OwnerUnrivalled
<1>1. RingInv => OwnerUnrivalled
  BY Roles DEF RingInv, OwnerUnrivalled, Sound, Unrivalled
<1> QED
  BY <1>1, RingInvAlways, PTL

(* The ring is not closed into a loop, whatever links, operators and late  *)
(* PDUs do, as long as one node next to the RPL is in IDLE.                *)
THEOREM LoopsOpenRpl == Spec => []LoopOpensRpl
<1>1. RplLink # 0 /\ After(RplLink) = 0
  BY RingAssumption DEF RplLink, After
<1>2. RingInv => LoopOpensRpl
  <2> SUFFICES ASSUME RingInv, CutLinks = {}, NEW i \in {0, RplLink},
                      nodes[i].state = "IDLE"
               PROVE  FALSE
    BY DEF LoopOpensRpl
  <2>1. i \in Ring /\ RoleOf(i) \in {"owner", "nbr"}
    BY Roles
  <2>2. Rpl \in nodes[i].blocked
    BY <2>1 DEF RingInv, Sound, HasRpl
  <2>3. Cut(RplLink)
    BY <1>1, <2>2 DEF Cut, PortIn, PortOut, Rpl
  <2> QED
    BY <2>3, Roles DEF CutLinks
<1> QED
  BY <1>2, RingInvAlways, PTL

-----------------------------------------------------------------------------
(***************************************************************************)
(* The ring stays cut.  As long as no announcement is repeated that a node *)
(* has withdrawn (stale), a node sends only while it has a blocked port,   *)
(* so that a node that hears it, and opens its own, is not the last to be  *)
(* blocked.  A PDU that is late proves less: its sender may have opened    *)
(* its ports since.  Covered says who is blocked in its stead when it      *)
(* arrives.                                                                *)
(***************************************************************************)
Blocks(n) == n.blocked # {}

(* A node with a signal fail of its own.                                   *)
Failing(n) == n.state = "PROTECTION" /\ n.topreq = ERPS_REQ_SF

(* A node that sends has a blocked port.                                   *)
SpeaksBlocked(n) == n.tx # {} => Blocks(n)

(* A node that holds the RPL gives it up to no one but a signal fail.      *)
HoldsRpl(n) == Rpl \in n.blocked /\ (n.state = "IDLE" \/ Rpl \in n.failed)

(* A node of a ring without commands: who says SF has a signal fail.       *)
Unswitched(n) ==
  /\ n.state \in {"IDLE", "PROTECTION", "PENDING"}
  /\ n.topreq \notin {ERPS_REQ_FS, ERPS_REQ_MS} /\ n.pdu.rs \in {"NR", "SF"}
  /\ n.topreq = ERPS_REQ_SF \/ n.pdu.rs = "SF" => Failing(n)

(* The owner, if it can say that the RPL is blocked, holds it.             *)
RbHeld(n) == "RB" \in n.pdu.status /\ Blocks(n) => HoldsRpl(n)

(* Requests by hearing others, and those there are without a command.      *)
Remote == {ERPS_REQ_RAPS_FS, ERPS_REQ_RAPS_SF, ERPS_REQ_RAPS_MS,
           ERPS_REQ_RAPS_NR_RB, ERPS_REQ_RAPS_NR}
Unprompted == {ERPS_REQ_SF, ERPS_REQ_CLEAR_SF} \cup Expiries
RemoteUnswitched == {ERPS_REQ_RAPS_SF, ERPS_REQ_RAPS_NR_RB, ERPS_REQ_RAPS_NR}

(* What the predicates above can tell apart.                               *)
Alike(a, b) ==
  /\ a.role = b.role /\ a.id = b.id /\ a.state = b.state /\ a.topreq = b.topreq
  /\ a.blocked = b.blocked /\ a.failed = b.failed /\ a.pdu = b.pdu /\ a.tx = b.tx
  /\ b.guard => a.guard

(* And what else a post may change.                                        *)
AlikeElse(a, b) ==
  /\ a.up = b.up /\ a.linkDown = b.linkDown /\ (a.revertive <=> b.revertive)
  /\ (a.wtr <=> b.wtr) /\ (a.wtb <=> b.wtb)

LEMMA FreshAlike ==
  ASSUME NEW m \in Node
  PROVE  Fresh(m) \in Node /\ Alike(Fresh(m), m) /\ AlikeElse(Fresh(m), m)
<1>1. Fresh(m) \in Node
  BY SimpleTypes
<1> QED
  BY <1>1 DEF Fresh, Node, Alike, AlikeElse

LEMMA AlikeHolds ==
  ASSUME NEW a, NEW b, Alike(a, b)
  PROVE  /\ Blocks(a) <=> Blocks(b)
         /\ Failing(a) <=> Failing(b)
         /\ SpeaksBlocked(a) <=> SpeaksBlocked(b)
         /\ HoldsRpl(a) <=> HoldsRpl(b)
         /\ Unswitched(a) <=> Unswitched(b)
         /\ RbHeld(a) <=> RbHeld(b)
BY DEF Alike, Blocks, Failing, SpeaksBlocked, HoldsRpl, Unswitched, RbHeld

(* A post as it looks to them.                                             *)
LEMMA PostAlike ==
  ASSUME NEW n \in Node, NEW l \in Port, NEW id, NEW req,
         NEW p, p = Posted(n, l, req, id)
  PROVE  \E x, m : /\ p \in Node /\ Alike(p, m) /\ AlikeElse(p, m)
                   /\ Ready(x, n, l, req)
                   /\ m.id = n.id /\ m.role = n.role /\ (n.guard => m.guard)
                   /\ \/ m = x /\ (~RequestAccepted(n, req) \/ req = ERPS_REQ_CLEAR_SF)
                      \/ RequestAccepted(n, req) /\ Effect(m, x, l, req)
<1>1. PICK x, m : /\ Posted(n, l, req, id) = Fresh(m) /\ m \in Node
                  /\ Ready(x, n, l, req)
                  /\ \/ m = x /\ (~RequestAccepted(n, req) \/ req = ERPS_REQ_CLEAR_SF)
                     \/ RequestAccepted(n, req) /\ Effect(m, x, l, req)
  BY PostKinds
<1>2. p \in Node /\ Alike(p, m) /\ AlikeElse(p, m)
  BY <1>1, FreshAlike
<1>3. m.id = n.id /\ m.role = n.role /\ (n.guard => m.guard)
  BY <1>1 DEF Ready, Effect, Base
<1> QED
  BY <1>1, <1>2, <1>3

(* A post that the priority logic rejects.                                 *)
LEMMA PostRejected ==
  ASSUME NEW n \in Node, NEW l \in Port, NEW id, NEW req,
         NEW p, p = Posted(n, l, req, id), ~RequestAccepted(n, req)
  PROVE  Alike(p, n)
<1>1. PICK x, m : /\ Alike(p, m) /\ Ready(x, n, l, req)
                  /\ \/ m = x /\ (~RequestAccepted(n, req) \/ req = ERPS_REQ_CLEAR_SF)
                     \/ RequestAccepted(n, req) /\ Effect(m, x, l, req)
  BY PostAlike
<1> QED
  BY <1>1 DEF Alike, Ready

(* No post but that of a remote request opens the last port of a node, and *)
(* none but the end of a signal fail makes it send without one.            *)
LEMMA PostBlocks ==
  ASSUME NEW n, NEW role, Sound(n, role), NEW l \in Port, NEW id, NEW req,
         NEW p, p = Posted(n, l, req, id)
  PROVE  /\ p \in Node /\ p.id = n.id /\ p.role = n.role /\ (n.guard => p.guard)
         /\ SpeaksBlocked(n) /\ req # ERPS_REQ_CLEAR_SF => SpeaksBlocked(p)
         /\ Blocks(n) => Blocks(p) \/ req \in Remote
<1>0. n \in Node
  BY DEF Sound
<1>1. PICK x, m : /\ p \in Node /\ Alike(p, m) /\ Ready(x, n, l, req)
                  /\ m.id = n.id /\ m.role = n.role /\ (n.guard => m.guard)
                  /\ \/ m = x /\ (~RequestAccepted(n, req) \/ req = ERPS_REQ_CLEAR_SF)
                     \/ RequestAccepted(n, req) /\ Effect(m, x, l, req)
  BY <1>0, PostAlike
<1>2. x.blocked = n.blocked /\ x.tx = n.tx /\ x.state = n.state /\ x.role = n.role
  BY <1>1 DEF Ready
<1>3. n.state = "IDLE" /\ HasRpl(x) => n.blocked = {Rpl}
  BY <1>2 DEF Sound, HasRpl
<1>4. ASSUME SpeaksBlocked(n), req # ERPS_REQ_CLEAR_SF PROVE SpeaksBlocked(m)
  <2>1. CASE m = x
    BY <1>2, <1>4, <2>1 DEF SpeaksBlocked, Blocks
  <2>2. CASE RequestAccepted(n, req) /\ Effect(m, x, l, req)
    <3>1. CASE Untouched(m, x, req) \/ FollowsInIdle(m, x, req) \/ EndsWithout(m, x, req)
      BY <1>2, <1>3, <1>4, <3>1
      DEF Untouched, FollowsInIdle, EndsWithout, SamePorts, SameAir, SpeaksBlocked,
          Blocks, HasRpl, Rpl
    <3>2. CASE \/ CutsHere(m, x, l, req) \/ CutsMore(m, x, l, req)
               \/ OpensPorts(m, x, req) \/ YieldsPorts(m, x, req)
               \/ DropsOrder(m, x, req) \/ EndsWaiting(m, x, req)
      BY <3>2 DEF CutsHere, CutsMore, OpensPorts, YieldsPorts, OpensOthers, DropsOrder,
                  EndsWaiting, SamePorts, SpeaksBlocked, Blocks
    <3>3. CASE StartsWaiting(m, x, req)
      BY <1>2, <1>4, <3>3 DEF StartsWaiting, SameAir, SamePorts, SpeaksBlocked, Blocks
    <3> QED
      BY <2>2, <3>1, <3>2, <3>3 DEF Effect
  <2> QED
    BY <1>1, <2>1, <2>2
<1>5. ASSUME Blocks(n), ~Blocks(m) PROVE req \in Remote
  <2>1. m # x
    BY <1>2, <1>5 DEF Blocks
  <2>2. ~CutsHere(m, x, l, req) /\ ~CutsMore(m, x, l, req) /\ ~EndsWaiting(m, x, req)
    BY <1>5 DEF CutsHere, CutsMore, EndsWaiting, Blocks
  <2>3. /\ ~Untouched(m, x, req) /\ ~StartsWaiting(m, x, req) /\ ~DropsOrder(m, x, req)
    BY <1>2, <1>5 DEF Untouched, StartsWaiting, DropsOrder, SamePorts, Blocks
  <2> QED
    BY <1>1, <1>2, <1>5, <2>1, <2>2, <2>3
    DEF Effect, FollowsInIdle, OpensPorts, YieldsPorts, EndsWithout, SamePorts, Remote,
        Blocks
<1> QED
  BY <1>1, <1>4, <1>5, AlikeHolds DEF Alike

(* A node with a signal fail rejects what it hears, if no one switches,    *)
(* and the expiry of a timer.                                              *)
LEMMA FailingRejects ==
  ASSUME NEW n, Failing(n), NEW req \in RemoteUnswitched \cup Expiries
  PROVE  ~RequestAccepted(n, req)
BY DEF Failing, RequestAccepted, RemoteUnswitched, Expiries, ERPS_REQ_SF,
       ERPS_REQ_CLEAR_SF, ERPS_REQ_RAPS_SF, ERPS_REQ_RAPS_NR_RB, ERPS_REQ_RAPS_NR,
       ERPS_REQ_WTR_EXPIRES, ERPS_REQ_WTB_EXPIRES

(* A signal fail is not heeded, or the node has it from now on.            *)
LEMMA PostSignalFail ==
  ASSUME NEW n \in Node, Unswitched(n), NEW l \in Port, NEW id,
         NEW p, p = Posted(n, l, ERPS_REQ_SF, id)
  PROVE  \/ Alike(p, n)
         \/ Failing(p) /\ Blocks(p) /\ p.pdu.rs = "SF" /\ "RB" \notin p.pdu.status
<1>1. CASE ~RequestAccepted(n, ERPS_REQ_SF)
  BY <1>1, PostRejected
<1>2. CASE RequestAccepted(n, ERPS_REQ_SF)
  <2>1. ERPS_REQ_SF # ERPS_REQ_CLEAR_SF /\ ERPS_REQ_SF \in LocalRequest
    BY DEF LocalRequest, ERPS_REQ_SF, ERPS_REQ_CLEAR_SF
  <2>2. PICK x, m : /\ Alike(p, m) /\ Ready(x, n, l, ERPS_REQ_SF)
                    /\ Effect(m, x, l, ERPS_REQ_SF)
    BY <1>2, <2>1, PostAlike
  <2>3. x.topreq = ERPS_REQ_SF /\ x.state \in {"IDLE", "PROTECTION", "PENDING"}
    BY <1>2, <2>1, <2>2 DEF Ready, Unswitched
  <2>4. CutsHere(m, x, l, ERPS_REQ_SF)
    BY <2>2, <2>3
    DEF Effect, Untouched, FollowsInIdle, CutsMore, OpensPorts, YieldsPorts,
        StartsWaiting, DropsOrder, EndsWaiting, EndsWithout, Expiries, ERPS_REQ_SF,
        ERPS_REQ_FS, ERPS_REQ_RAPS_FS, ERPS_REQ_RAPS_SF, ERPS_REQ_RAPS_MS,
        ERPS_REQ_RAPS_NR, ERPS_REQ_RAPS_NR_RB, ERPS_REQ_CLEAR, ERPS_REQ_CLEAR_SF,
        ERPS_REQ_WTR_EXPIRES, ERPS_REQ_WTB_EXPIRES
  <2>5. SwitchState(ERPS_REQ_SF) = "PROTECTION" /\ SwitchPdu(ERPS_REQ_SF) = "SF"
    BY DEF SwitchState, SwitchPdu, ERPS_REQ_SF, ERPS_REQ_FS, ERPS_REQ_MS
  <2>6. m.blocked # {} /\ m.state = "PROTECTION" /\ m.topreq = ERPS_REQ_SF
        /\ m.pdu.rs = "SF" /\ "RB" \notin m.pdu.status
    BY <2>3, <2>4, <2>5 DEF CutsHere
  <2> QED
    BY <2>2, <2>6 DEF Alike, Failing, Blocks
<1> QED
  BY <1>1, <1>2

(* The end of a signal fail opens no port and leaves IDLE alone.           *)
LEMMA PostClearSignalFail ==
  ASSUME NEW n \in Node, NEW l \in Port, NEW id,
         NEW p, p = Posted(n, l, ERPS_REQ_CLEAR_SF, id)
  PROVE  /\ p.blocked = n.blocked /\ p.failed = n.failed
         /\ n.state = "IDLE" => p.state = "IDLE"
<1>1. PICK x, m : /\ Alike(p, m) /\ Ready(x, n, l, ERPS_REQ_CLEAR_SF)
                  /\ m = x \/ Effect(m, x, l, ERPS_REQ_CLEAR_SF)
  BY PostAlike
<1>2. x.blocked = n.blocked /\ x.failed = n.failed /\ x.state = n.state
  BY <1>1 DEF Ready, ERPS_REQ_SF, ERPS_REQ_CLEAR_SF
<1>3. ASSUME Effect(m, x, l, ERPS_REQ_CLEAR_SF)
      PROVE  Untouched(m, x, ERPS_REQ_CLEAR_SF) \/ StartsWaiting(m, x, ERPS_REQ_CLEAR_SF)
  BY <1>3
  DEF Effect, FollowsInIdle, CutsHere, CutsMore, OpensPorts, YieldsPorts, DropsOrder,
      EndsWaiting, EndsWithout, Local, Expiries, ERPS_REQ_SF, ERPS_REQ_FS, ERPS_REQ_MS,
      ERPS_REQ_RAPS_FS, ERPS_REQ_RAPS_SF, ERPS_REQ_RAPS_MS, ERPS_REQ_RAPS_NR,
      ERPS_REQ_RAPS_NR_RB, ERPS_REQ_CLEAR, ERPS_REQ_CLEAR_SF, ERPS_REQ_WTR_EXPIRES,
      ERPS_REQ_WTB_EXPIRES
<1>4. m.blocked = n.blocked /\ m.failed = n.failed /\ (n.state = "IDLE" => m.state = "IDLE")
  BY <1>1, <1>2, <1>3 DEF Untouched, StartsWaiting, SamePorts, Same
<1> QED
  BY <1>1, <1>4 DEF Alike

(* In PROTECTION it is announced, and the guard timer starts.              *)
LEMMA ProtectionEnds ==
  ASSUME NEW n \in Node, n.state = "PROTECTION",
         n.topreq \in {ERPS_REQ_SF, ERPS_REQ_INVALID}, NEW l \in Port, NEW id,
         NEW p, p = Posted(n, l, ERPS_REQ_CLEAR_SF, id)
  PROVE  /\ p.guard /\ p.state = "PENDING" /\ p.topreq \notin Local
         /\ p.pdu = [rs |-> "NR", status |-> {}]
<1> DEFINE req == ERPS_REQ_CLEAR_SF
           z == Fresh(n)
           x == Prepare(z, l, req)
           g == erps_node_start_guard_timer(x)
           a == erps_node_sched_tx(g, "NR", {})
           w == OwnerStartsWtr(a)
           m == erps_fsm_transition(w, "PENDING")
<1>1. z \in Node /\ z.ok /\ z.state = "PROTECTION"
      /\ z.topreq \in {ERPS_REQ_SF, ERPS_REQ_INVALID}
  <2>1. z \in Node
    BY SimpleTypes
  <2> QED
    BY <2>1 DEF Fresh, Node
<1>2. RequestAccepted(z, req) /\ ~IgnoredOnRpl(z, l, req)
  BY <1>1 DEF RequestAccepted, IgnoredOnRpl, ERPS_REQ_CLEAR_SF, ERPS_REQ_CLEAR, ERPS_REQ_SF,
              ERPS_REQ_INVALID
<1> HIDE DEF z
<1>3. x \in Node /\ x.ok /\ x.state = "PROTECTION" /\ x.topreq = ERPS_REQ_INVALID
  <2> DEFINE c == [z EXCEPT !.linkDown = z.linkDown \ {l}]
  <2>1. c \in Node /\ c.ok /\ c.state = "PROTECTION"
        /\ c.topreq \in {ERPS_REQ_SF, ERPS_REQ_INVALID}
    BY <1>1 DEF Node
  <2>2. RequestAccepted(c, req) /\ req \notin LocalRequest /\ req # ERPS_REQ_SF
    BY <2>1 DEF RequestAccepted, LocalRequest, ERPS_REQ_CLEAR_SF, ERPS_REQ_CLEAR,
                ERPS_REQ_SF, ERPS_REQ_FS, ERPS_REQ_MS, ERPS_REQ_WTR_RUNNING,
                ERPS_REQ_WTB_RUNNING, ERPS_REQ_INVALID
  <2>3. x = erps_fsm_resolve_req_prio(c, req)
    BY <2>2 DEF Prepare
  <2> HIDE DEF c
  <2>4. x = [c EXCEPT !.topreq = ERPS_REQ_INVALID]
    BY <2>2, <2>3 DEF erps_fsm_resolve_req_prio
  <2> QED
    BY <2>1, <2>4 DEF Node, TopRequest
<1>4. p = Fresh(m)
  <2>1. p = Fresh(Dispatch(x, l, req, id, NoFault))
    BY <1>2 DEF Posted, erps_fsm_post_locked, z
  <2> HIDE DEF x
  <2>2. Dispatch(x, l, req, id, NoFault) = erps_fsm_post_protection(x, l, req, NoFault)
    BY <1>3 DEF Dispatch
  <2>3. erps_fsm_post_protection(x, l, req, NoFault) = erps_fsm_clear_sf_protection(x)
    BY DEF erps_fsm_post_protection, ERPS_REQ_CLEAR_SF, ERPS_REQ_FS, ERPS_REQ_RAPS_FS,
           ERPS_REQ_SF, ERPS_REQ_RAPS_NR_RB, ERPS_REQ_RAPS_NR
  <2> QED
    BY <2>1, <2>2, <2>3 DEF erps_fsm_clear_sf_protection, AnnounceNoRequest
<1> HIDE DEF x
<1>5. g \in Node /\ g.ok /\ g.guard /\ g.topreq = ERPS_REQ_INVALID
  BY <1>3 DEF erps_node_start_guard_timer, Node
<1> HIDE DEF g
<1>6. a \in Node /\ a.ok /\ a.guard /\ a.pdu = [rs |-> "NR", status |-> {}]
      /\ a.topreq = ERPS_REQ_INVALID
  <2>1. a \in Node
    BY <1>5, SchedTxType
  <2> QED
    BY <1>5, <2>1 DEF erps_node_sched_tx, Node
<1> HIDE DEF a
<1>7. w \in Node /\ w.ok /\ w.guard /\ w.pdu = [rs |-> "NR", status |-> {}]
      /\ w.topreq \in {ERPS_REQ_INVALID} \cup TimerRunning
  BY <1>6, StartEffects DEF Base, SameAir, SamePdu
<1> HIDE DEF w
<1>8. m \in Node /\ m.guard /\ m.pdu = [rs |-> "NR", status |-> {}] /\ m.state = "PENDING"
      /\ m.topreq \in {ERPS_REQ_INVALID} \cup TimerRunning
  BY <1>7 DEF erps_fsm_transition, Node, State
<1> HIDE DEF m
<1>9. ERPS_REQ_INVALID \notin Local /\ TimerRunning \cap Local = {}
  BY DEF TimerRunning, Local, ERPS_REQ_INVALID, ERPS_REQ_WTR_RUNNING,
         ERPS_REQ_WTB_RUNNING, ERPS_REQ_FS, ERPS_REQ_SF, ERPS_REQ_MS
<1> QED
  BY <1>4, <1>8, <1>9, FreshAlike DEF Alike

LEMMA FailureEnds ==
  ASSUME NEW n \in Node, Failing(n), NEW l \in Port, NEW id,
         NEW p, p = Posted(n, l, ERPS_REQ_CLEAR_SF, id)
  PROVE  /\ p.guard /\ p.state = "PENDING" /\ p.topreq \notin Local
         /\ p.pdu = [rs |-> "NR", status |-> {}]
BY ProtectionEnds DEF Failing

(* R-APS(NR) does not open a port of a node whose ID is not lower, or make *)
(* it fall silent.                                                         *)
LEMMA PostNoRequest ==
  ASSUME NEW n \in Node, NEW l \in Port, NEW id, id <= n.id,
         NEW p, p = Posted(n, l, ERPS_REQ_RAPS_NR, id)
  PROVE  /\ p.blocked = n.blocked
         /\ n.state \in {"IDLE", "PENDING"} => p.tx = n.tx
<1> DEFINE req == ERPS_REQ_RAPS_NR
           z == Fresh(n)
           x == Prepare(z, l, req)
<1>1. z \in Node /\ z.id = n.id /\ z.blocked = n.blocked /\ z.state = n.state
      /\ z.topreq = n.topreq /\ z.role = n.role /\ z.tx = n.tx
  <2>1. z \in Node
    BY SimpleTypes
  <2> QED
    BY <2>1 DEF Fresh, Node
<1>2. req # ERPS_REQ_CLEAR_SF /\ req # ERPS_REQ_SF
  BY DEF ERPS_REQ_CLEAR_SF, ERPS_REQ_SF, ERPS_REQ_RAPS_NR
<1> HIDE DEF z
<1>3. x \in Node /\ x.id = n.id /\ x.blocked = n.blocked /\ x.state = n.state
      /\ x.role = n.role /\ x.tx = n.tx
  <2>1. x = erps_fsm_resolve_req_prio(z, req)
    BY <1>2 DEF Prepare
  <2>2. x \in Node
    BY <1>1, <2>1, ResolveType
  <2> QED
    BY <1>1, <2>1, <2>2 DEF erps_fsm_resolve_req_prio, Node
<1>4. CASE ~RequestAccepted(n, req)
  BY <1>4, PostRejected DEF Alike
<1>5. CASE RequestAccepted(n, req) /\ n.state \in {"IDLE", "PENDING"}
  <2>1. RequestAccepted(z, req) /\ ~IgnoredOnRpl(z, l, req)
    BY <1>1, <1>2, <1>5 DEF RequestAccepted, IgnoredOnRpl, erps_local_clear_valid,
                            erps_node_is_rpl_owner
  <2>2. p = Fresh(Dispatch(x, l, req, id, NoFault))
    BY <2>1 DEF Posted, erps_fsm_post_locked, z
  <2> HIDE DEF x
  <2>3. erps_fsm_maybe_unblock_and_stop(x, id, NoFault) = x
    BY <1>3 DEF erps_fsm_maybe_unblock_and_stop
  <2>4. Dispatch(x, l, req, id, NoFault) = x
    <3>1. erps_fsm_post_idle(x, l, req, id, NoFault) = x
      BY <2>3 DEF erps_fsm_post_idle, ERPS_REQ_FS, ERPS_REQ_RAPS_FS, ERPS_REQ_SF,
         ERPS_REQ_RAPS_SF, ERPS_REQ_RAPS_MS, ERPS_REQ_MS, ERPS_REQ_RAPS_NR_RB,
         ERPS_REQ_RAPS_NR
    <3>2. erps_fsm_post_pending(x, l, req, id, NoFault) = x
      BY <2>3 DEF erps_fsm_post_pending, ERPS_REQ_CLEAR, ERPS_REQ_FS, ERPS_REQ_RAPS_FS,
         ERPS_REQ_SF, ERPS_REQ_RAPS_SF, ERPS_REQ_RAPS_MS, ERPS_REQ_MS,
         ERPS_REQ_WTR_EXPIRES, ERPS_REQ_WTB_EXPIRES, ERPS_REQ_RAPS_NR_RB,
         ERPS_REQ_RAPS_NR
    <3> QED
      BY <1>3, <1>5, <3>1, <3>2 DEF Dispatch
  <2> QED
    BY <1>3, <2>2, <2>4, FreshAlike DEF Alike
<1>6. CASE RequestAccepted(n, req) /\ n.state \notin {"IDLE", "PENDING"}
  <2>1. PICK y, m : /\ Alike(p, m) /\ Ready(y, n, l, req) /\ Effect(m, y, l, req)
    BY <1>2, <1>6, PostAlike
  <2>2. Untouched(m, y, req) \/ StartsWaiting(m, y, req)
    BY <1>6, <2>1
    DEF Ready, Effect, FollowsInIdle, CutsHere, CutsMore, OpensPorts, YieldsPorts,
        DropsOrder, EndsWaiting, EndsWithout, Local, ERPS_REQ_SF, ERPS_REQ_FS,
        ERPS_REQ_MS, ERPS_REQ_RAPS_FS, ERPS_REQ_RAPS_SF, ERPS_REQ_RAPS_MS,
        ERPS_REQ_RAPS_NR, ERPS_REQ_RAPS_NR_RB
  <2> QED
    BY <1>6, <2>1, <2>2 DEF Alike, Ready, Untouched, StartsWaiting, SamePorts
<1> QED
  BY <1>4, <1>5, <1>6

(* Without commands no node comes to be switched.                          *)
LEMMA PostUnswitched ==
  ASSUME NEW n \in Node, Unswitched(n), NEW l \in Port, NEW id,
         NEW req \in Unprompted \cup RemoteUnswitched,
         NEW p, p = Posted(n, l, req, id)
  PROVE  Unswitched(p)
<1>0. /\ ERPS_REQ_INVALID \notin Local /\ TimerRunning \cap Local = {}
      /\ Local \cap LocalRequest = Local
      /\ (Unprompted \cup RemoteUnswitched) \cap LocalRequest = {ERPS_REQ_SF}
      /\ ERPS_REQ_CLEAR_SF # ERPS_REQ_SF
  BY DEF TimerRunning, Local, LocalRequest, Unprompted, RemoteUnswitched, Expiries,
         ERPS_REQ_INVALID, ERPS_REQ_WTR_RUNNING, ERPS_REQ_WTB_RUNNING, ERPS_REQ_FS,
         ERPS_REQ_SF, ERPS_REQ_MS, ERPS_REQ_CLEAR_SF, ERPS_REQ_RAPS_SF,
         ERPS_REQ_RAPS_NR_RB, ERPS_REQ_RAPS_NR, ERPS_REQ_WTR_EXPIRES,
         ERPS_REQ_WTB_EXPIRES
<1>1. ASSUME Alike(p, n) PROVE Unswitched(p)
  BY <1>1, AlikeHolds
<1>2. CASE req = ERPS_REQ_SF
  <2>1. CASE Failing(p) /\ p.pdu.rs = "SF"
    BY <2>1 DEF Unswitched, Failing, ERPS_REQ_SF, ERPS_REQ_FS, ERPS_REQ_MS
  <2> QED
    BY <1>1, <1>2, <2>1, PostSignalFail
<1>3. CASE req = ERPS_REQ_CLEAR_SF /\ Failing(n)
  BY <1>3, FailureEnds DEF Unswitched, Local
<1>4. CASE req \notin {ERPS_REQ_SF, ERPS_REQ_CLEAR_SF} /\ Failing(n)
  BY <1>1, <1>4, FailingRejects, PostRejected DEF Unprompted
<1>5. CASE req # ERPS_REQ_SF /\ ~Failing(n)
  <2>1. n.state \in {"IDLE", "PROTECTION", "PENDING"} /\ n.topreq \notin Local
        /\ n.pdu.rs = "NR"
    BY <1>5 DEF Unswitched, Local
  <2>2. PICK x, m : /\ Alike(p, m) /\ Ready(x, n, l, req)
                    /\ m = x \/ Effect(m, x, l, req)
    BY PostAlike
  <2>3. /\ x.state \in {"IDLE", "PROTECTION", "PENDING"} /\ x.topreq \notin Local
        /\ x.pdu.rs = "NR"
    BY <1>0, <1>5, <2>1, <2>2 DEF Ready
  <2>4. ASSUME Effect(m, x, l, req)
        PROVE  /\ m.state \in {"IDLE", "PROTECTION", "PENDING"} /\ m.topreq \notin Local
               /\ m.pdu.rs = "NR"
    <3>1. ~CutsHere(m, x, l, req) /\ ~CutsMore(m, x, l, req) /\ ~DropsOrder(m, x, req)
      BY <1>0, <1>5, <2>3 DEF CutsHere, CutsMore, DropsOrder
    <3>2. CASE Untouched(m, x, req) \/ FollowsInIdle(m, x, req) \/ YieldsPorts(m, x, req)
      BY <2>3, <3>2 DEF Untouched, FollowsInIdle, YieldsPorts, Same, SameTimers,
                        SameAir, SamePdu
    <3>3. CASE OpensPorts(m, x, req)
      <4>1. req = ERPS_REQ_RAPS_SF
        BY <3>3 DEF OpensPorts, Unprompted, RemoteUnswitched, Expiries, ERPS_REQ_SF,
           ERPS_REQ_CLEAR_SF, ERPS_REQ_RAPS_FS, ERPS_REQ_RAPS_MS, ERPS_REQ_RAPS_NR,
           ERPS_REQ_RAPS_NR_RB, ERPS_REQ_WTR_EXPIRES, ERPS_REQ_WTB_EXPIRES
      <4> QED
        BY <2>3, <3>3, <4>1 DEF OpensPorts, SamePdu
    <3>4. CASE StartsWaiting(m, x, req)
      BY <1>0, <2>3, <3>4 DEF StartsWaiting, SameAir, SamePdu
    <3>5. CASE EndsWaiting(m, x, req) \/ EndsWithout(m, x, req)
      BY <2>3, <3>5 DEF EndsWaiting, EndsWithout, SamePdu
    <3> QED
      BY <2>4, <3>1, <3>2, <3>3, <3>4, <3>5 DEF Effect
  <2> QED
    BY <2>2, <2>3, <2>4 DEF Alike, Unswitched, Local
<1> QED
  BY <1>2, <1>3, <1>4, <1>5

(* An owner that holds the RPL keeps it when it hears that there is no     *)
(* request, or when its own signal fail ends.                              *)
LEMMA PostHoldsRpl ==
  ASSUME NEW n \in Node, n.role = "owner", HoldsRpl(n), NEW l \in Port, NEW id,
         NEW req \in {ERPS_REQ_RAPS_NR, ERPS_REQ_CLEAR_SF},
         NEW p, p = Posted(n, l, req, id)
  PROVE  HoldsRpl(p)
<1>1. PICK x, m : /\ Alike(p, m) /\ Ready(x, n, l, req)
                  /\ m = x \/ Effect(m, x, l, req)
  BY PostAlike
<1>2. /\ x.blocked = n.blocked /\ x.failed = n.failed /\ x.state = n.state
      /\ HasRpl(x)
  BY <1>1 DEF Ready, HasRpl, ERPS_REQ_SF, ERPS_REQ_CLEAR_SF, ERPS_REQ_RAPS_NR
<1>3. ASSUME Effect(m, x, l, req) PROVE HoldsRpl(m)
  <2>1. \/ Untouched(m, x, req) \/ YieldsPorts(m, x, req) \/ StartsWaiting(m, x, req)
    BY <1>3
    DEF Effect, FollowsInIdle, CutsHere, CutsMore, OpensPorts, DropsOrder,
        EndsWaiting, EndsWithout, Local, Expiries, ERPS_REQ_SF, ERPS_REQ_FS, ERPS_REQ_MS,
        ERPS_REQ_RAPS_FS, ERPS_REQ_RAPS_SF, ERPS_REQ_RAPS_MS, ERPS_REQ_RAPS_NR,
        ERPS_REQ_RAPS_NR_RB, ERPS_REQ_CLEAR, ERPS_REQ_CLEAR_SF, ERPS_REQ_WTR_EXPIRES,
        ERPS_REQ_WTB_EXPIRES
  <2> QED
    BY <1>2, <2>1 DEF HoldsRpl, Untouched, YieldsPorts, OpensOthers, StartsWaiting,
                      SamePorts, Same
<1>4. HoldsRpl(m)
  BY <1>1, <1>2, <1>3 DEF HoldsRpl
<1> QED
  BY <1>1, <1>4, AlikeHolds

(* An owner that can say RB has it, as long as no node is switched.        *)
LEMMA PostRbHeld ==
  ASSUME NEW n, Sound(n, "owner"), Unswitched(n), RbHeld(n), NEW l \in Port, NEW id,
         NEW req \in Unprompted \cup RemoteUnswitched, req # ERPS_REQ_RAPS_NR_RB,
         NEW p, p = Posted(n, l, req, id)
  PROVE  RbHeld(p)
<1>0. n \in Node
  BY DEF Sound
<1>1. CASE req = ERPS_REQ_SF
  BY <1>0, <1>1, PostSignalFail, AlikeHolds DEF RbHeld
<1>2. CASE req # ERPS_REQ_SF
  <2>1. PICK x, m : /\ Alike(p, m) /\ Ready(x, n, l, req)
                    /\ m = x \/ Effect(m, x, l, req)
    BY <1>0, PostAlike
  <2>2. /\ x.blocked = n.blocked /\ x.failed = n.failed /\ x.state = n.state
        /\ x.pdu = n.pdu /\ HasRpl(x)
    BY <1>2, <2>1 DEF Ready, HasRpl, Sound
  <2>3. "RB" \in x.pdu.status /\ Blocks(x) => HoldsRpl(x)
    BY <2>2 DEF RbHeld, Blocks, HoldsRpl
  <2>4. x.state = "IDLE" => x.blocked = {Rpl}
    BY <2>2 DEF Sound, HasRpl
  <2>5. ASSUME Effect(m, x, l, req) PROVE RbHeld(m)
    <3>1. /\ ~CutsHere(m, x, l, req) /\ ~CutsMore(m, x, l, req)
          /\ ~DropsOrder(m, x, req) /\ ~FollowsInIdle(m, x, req)
          /\ ~EndsWithout(m, x, req)
      BY <1>2, <2>2
      DEF CutsHere, CutsMore, DropsOrder, FollowsInIdle, EndsWithout, Unprompted,
          RemoteUnswitched, Expiries, Local, ERPS_REQ_SF, ERPS_REQ_FS, ERPS_REQ_MS,
          ERPS_REQ_RAPS_SF, ERPS_REQ_RAPS_MS, ERPS_REQ_RAPS_NR, ERPS_REQ_RAPS_NR_RB,
          ERPS_REQ_CLEAR, ERPS_REQ_CLEAR_SF, ERPS_REQ_WTR_EXPIRES, ERPS_REQ_WTB_EXPIRES
    <3>2. CASE Untouched(m, x, req)
      BY <2>3, <3>2 DEF Untouched, Same, SamePorts, SameAir, SamePdu, RbHeld, HoldsRpl,
                        Blocks
    <3>3. CASE OpensPorts(m, x, req) \/ YieldsPorts(m, x, req)
      <4>1. OpensOthers(m, x) /\ m.pdu = x.pdu
        BY <3>3 DEF OpensPorts, YieldsPorts, SamePdu, Unprompted, RemoteUnswitched,
           Expiries, ERPS_REQ_RAPS_FS, ERPS_REQ_SF, ERPS_REQ_CLEAR_SF, ERPS_REQ_RAPS_SF,
           ERPS_REQ_RAPS_NR, ERPS_REQ_RAPS_NR_RB, ERPS_REQ_WTR_EXPIRES,
           ERPS_REQ_WTB_EXPIRES
      <4> QED
        BY <2>3, <2>4, <4>1 DEF OpensOthers, RbHeld, HoldsRpl, Blocks
    <3>4. CASE StartsWaiting(m, x, req)
      BY <2>3, <3>4 DEF StartsWaiting, SamePorts, SameAir, SamePdu, RbHeld, HoldsRpl,
                        Blocks
    <3>5. CASE EndsWaiting(m, x, req)
      BY <3>5 DEF EndsWaiting, RbHeld, HoldsRpl
    <3> QED
      BY <2>5, <3>1, <3>2, <3>3, <3>4, <3>5 DEF Effect
  <2>6. RbHeld(m)
    BY <2>1, <2>3, <2>5 DEF RbHeld
  <2> QED
    BY <2>1, <2>6, AlikeHolds
<1> QED
  BY <1>1, <1>2

-----------------------------------------------------------------------------
(* When m arrives, if no event intervenes, the node s is blocked, because  *)
(* it rejects or drops whatever it may be.                                 *)
Committed(ns, s, m) ==
  Blocks(ns[s]) /\ (Failing(ns[s]) \/ (ns[s].guard /\ s \in m.before))

(* A PDU that is late cannot open the last port: a node is committed; or   *)
(* the owner holds the RPL, and m is no signal fail; or m says NR, and the *)
(* ID of a node that is blocked is not lower.                              *)
Covered(ns, m) ==
  \/ \E s \in Ring : Committed(ns, s, m)
  \/ m.req # ERPS_REQ_RAPS_SF /\ HoldsRpl(ns[0])
  \/ m.req = ERPS_REQ_RAPS_NR /\ \E i \in Ring : Blocks(ns[i]) /\ m.id <= ns[i].id

Few(pdus) == pdus = {} \/ \E m : pdus = {m}

(* A ring in which no one has given a command.                             *)
UnswitchedRing ==
  /\ \A i \in Ring : Unswitched(nodes[i])
  /\ RbHeld(nodes[0])
  /\ \A m \in flight : m.req \in RemoteUnswitched

(* A ring in which no node repeats what it has withdrawn.                  *)
CutRing ==
  /\ \E i \in Ring : Blocks(nodes[i])
  /\ \A i \in Ring : SpeaksBlocked(nodes[i])
  /\ \A m \in flight : Covered(nodes, m)

(* One PDU is late at most, and only as long as no command is given, when  *)
(* nothing overlaps.                                                       *)
FewLate ==
  Few(flight) /\ commands \in Nat /\ (flight # {} => commands = 0)

CutInv == FewLate /\ (commands = 0 => UnswitchedRing) /\ (~stale => CutRing)

(* A PDU in flight when node i starts its guard timer, or does not.        *)
Grown(k, m, i, starts) ==
  /\ k.to = m.to /\ k.req = m.req /\ k.id = m.id /\ m.before \subseteq k.before
  /\ starts => i \in k.before

LEMMA OutlastedGrown ==
  ASSUME NEW pdus, \A m \in pdus : Unrivalled(m), NEW i \in Ring, NEW starts
  PROVE  /\ \A k \in Outlasted(pdus, i, starts) : \E m \in pdus : Grown(k, m, i, starts)
         /\ Few(pdus) => Few(Outlasted(pdus, i, starts))
         /\ pdus = {} => Outlasted(pdus, i, starts) = {}
<1>1. ASSUME NEW m, Unrivalled(m)
      PROVE  /\ Grown([m EXCEPT !.before = @ \cup {i}], m, i, starts)
             /\ ~starts => Grown(m, m, i, starts)
  BY <1>1 DEF Unrivalled, Grown
<1>2. \A k \in Outlasted(pdus, i, starts) : \E m \in pdus : Grown(k, m, i, starts)
  BY <1>1 DEF Outlasted
<1>3. ASSUME Few(pdus) PROVE Few(Outlasted(pdus, i, starts))
  <2>1. CASE pdus = {} \/ ~starts
    BY <1>3, <2>1 DEF Outlasted, Few
  <2>2. CASE pdus # {} /\ starts
    <3>1. PICK m : pdus = {m}
      BY <1>3, <2>2 DEF Few
    <3>2. Outlasted(pdus, i, starts) = {[m EXCEPT !.before = @ \cup {i}]}
      BY <2>2, <3>1 DEF Outlasted
    <3> QED
      BY <3>2 DEF Few
  <2> QED
    BY <2>1, <2>2
<1> QED
  BY <1>2, <1>3 DEF Outlasted

(* A PDU stays covered when node i becomes n, if n stays committed, holds  *)
(* the RPL, and is blocked, or there is another to take its place.         *)
LEMMA CoveredKept ==
  ASSUME NEW ns, ns \in [Ring -> Node], NEW i \in Ring, NEW n \in Node,
         n.id = ns[i].id, NEW m, m.id \in Nat, Covered(ns, m),
         NEW k, NEW starts, Grown(k, m, i, starts),
         NEW new, new = [ns EXCEPT ![i] = n],
         Committed(ns, i, m) => Committed(new, i, k),
         i = 0 /\ HoldsRpl(ns[0]) => HoldsRpl(n),
         \/ Blocks(ns[i]) => Blocks(n)
         \/ \E s \in Ring \ {i} : Blocks(ns[s]) /\ ns[i].id <= ns[s].id
  PROVE  Covered(new, k)
<1>1. new[i] = n /\ \A j \in Ring \ {i} : new[j] = ns[j]
  OBVIOUS
<1>2. k.req = m.req /\ k.id = m.id /\ m.before \subseteq k.before
  BY DEF Grown
<1>3. CASE \E s \in Ring : Committed(ns, s, m)
  BY <1>1, <1>2, <1>3 DEF Covered, Committed
<1>4. CASE m.req # ERPS_REQ_RAPS_SF /\ HoldsRpl(ns[0])
  <2>1. HoldsRpl(new[0])
    BY <1>1, <1>4, Roles
  <2> QED
    BY <1>2, <1>4, <2>1 DEF Covered
<1>5. CASE m.req = ERPS_REQ_RAPS_NR /\ \E j \in Ring : Blocks(ns[j]) /\ m.id <= ns[j].id
  <2>1. PICK j \in Ring : Blocks(ns[j]) /\ m.id <= ns[j].id
    BY <1>5
  <2>2. CASE j # i \/ Blocks(n)
    <3>1. Blocks(new[j]) /\ k.id <= new[j].id
      BY <1>1, <1>2, <2>1, <2>2
    <3> QED
      BY <1>2, <1>5, <3>1 DEF Covered
  <2>3. CASE j = i /\ ~Blocks(n)
    <3>1. PICK s \in Ring \ {i} : Blocks(ns[s]) /\ ns[i].id <= ns[s].id
      BY <2>1, <2>3
    <3>2. m.id <= ns[s].id
      <4>1. ns[i].id \in Nat /\ ns[s].id \in Nat
        BY DEF Node
      <4> QED
        BY <2>1, <2>3, <3>1, <4>1
    <3> QED
      BY <1>1, <1>2, <1>5, <3>1, <3>2 DEF Covered
  <2> QED
    BY <2>2, <2>3
<1> QED
  BY <1>3, <1>4, <1>5 DEF Covered

(* What a change at one node has to do to keep the ring cut.               *)
LEMMA UpdateCut ==
  ASSUME RingInv, CutInv, NEW i \in Ring, NEW n \in Node, NEW starts,
         Update(i, n, starts), ~stale' => ~stale,
         commands' = commands \/ (commands' = commands + 1 /\ flight = {}),
         commands' = 0 => Unswitched(n) /\ (i = 0 => RbHeld(n)),
         ~stale' => SpeaksBlocked(n) /\ \E j \in Ring : Blocks(nodes'[j]),
         \A m, k : ~stale' /\ m \in flight /\ Grown(k, m, i, starts) => Covered(nodes', k)
  PROVE  CutInv'
<1>1. nodes' = [nodes EXCEPT ![i] = n] /\ flight' = Outlasted(flight, i, starts)
  BY DEF Update
<1>2. /\ \A k \in flight' : \E m \in flight : Grown(k, m, i, starts)
      /\ Few(flight') /\ (flight = {} => flight' = {})
  BY <1>1, OutlastedGrown DEF RingInv, CutInv, FewLate
<1>3. nodes'[i] = n /\ \A j \in Ring \ {i} : nodes'[j] = nodes[j]
  BY <1>1 DEF RingInv
<1>4. FewLate'
  BY <1>2 DEF CutInv, FewLate
<1>5. ASSUME commands' = 0 PROVE UnswitchedRing'
  <2>1. commands = 0
    BY <1>5 DEF CutInv, FewLate
  <2>2. \A k \in flight' : k.req \in RemoteUnswitched
    BY <1>2, <2>1 DEF CutInv, UnswitchedRing, Grown
  <2>3. \A j \in Ring : Unswitched(nodes'[j])
    BY <1>3, <1>5, <2>1 DEF CutInv, UnswitchedRing
  <2>4. RbHeld(nodes'[0])
    BY <1>3, <1>5, <2>1, Roles DEF CutInv, UnswitchedRing
  <2> QED
    BY <2>2, <2>3, <2>4 DEF UnswitchedRing
<1>6. ASSUME ~stale' PROVE CutRing'
  <2>1. \A j \in Ring : SpeaksBlocked(nodes'[j])
    BY <1>3, <1>6 DEF CutInv, CutRing
  <2>2. \A k \in flight' : Covered(nodes', k)
    BY <1>2, <1>6
  <2> QED
    BY <1>6, <2>1, <2>2 DEF CutRing
<1> QED
  BY <1>4, <1>5, <1>6 DEF CutInv

(* A signal fail, a command or the expiry of a timer.                      *)
LEMMA LocalCut ==
  ASSUME RingInv, CutInv, NEW i \in Ring, NEW l \in Port,
         NEW y, Sound(y, RoleOf(i)), Alike(y, nodes[i]),
         NEW req, req \notin Remote, req # ERPS_REQ_CLEAR_SF,
         Post(i, y, l, req), stale' = stale,
         req # ERPS_REQ_SF => flight = {},
         commands' = commands \/ (commands' = commands + 1 /\ flight = {}),
         commands' = 0 => req \in Unprompted
  PROVE  CutInv'
<1> DEFINE n == Posted(y, l, req, 0)
           starts == StartsGuard(y, l, req)
<1>1. Update(i, n, starts)
  BY DEF Post
<1>2. /\ n \in Node /\ n.id = y.id /\ n.role = y.role /\ (y.guard => n.guard)
      /\ SpeaksBlocked(y) => SpeaksBlocked(n)
      /\ Blocks(y) => Blocks(n)
  BY PostBlocks
<1>3. nodes \in [Ring -> Node] /\ y \in Node /\ y.role = RoleOf(i)
  BY DEF RingInv, Sound
<1>4. ASSUME commands' = 0 PROVE Unswitched(n) /\ (i = 0 => RbHeld(n))
  <2>1. req \in Unprompted /\ commands = 0
    BY <1>4 DEF CutInv, FewLate
  <2>2. Unswitched(y) /\ (i = 0 => RbHeld(y))
    BY <2>1, AlikeHolds DEF CutInv, UnswitchedRing
  <2>3. Unswitched(n)
    BY <1>3, <2>1, <2>2, PostUnswitched
  <2>4. req # ERPS_REQ_RAPS_NR_RB
    BY DEF Remote
  <2>5. ASSUME i = 0 PROVE RbHeld(n)
    <3>1. Sound(y, "owner") /\ RbHeld(y)
      BY <2>2, <2>5, Roles
    <3> QED
      BY <2>1, <2>2, <2>4, <3>1, PostRbHeld
  <2> QED
    BY <2>3, <2>5
<1>5. ASSUME flight # {} PROVE Alike(n, nodes[i]) \/ (Failing(n) /\ Blocks(n))
  <2>1. req = ERPS_REQ_SF /\ Unswitched(y)
    BY <1>5, AlikeHolds DEF CutInv, FewLate, UnswitchedRing
  <2>2. Alike(n, y) \/ (Failing(n) /\ Blocks(n))
    BY <1>3, <2>1, PostSignalFail
  <2> QED
    BY <2>2 DEF Alike
<1> HIDE DEF n, starts
<1>6. nodes' = [nodes EXCEPT ![i] = n]
  BY <1>1 DEF Update
<1>7. ASSUME ~stale PROVE SpeaksBlocked(n) /\ \E j \in Ring : Blocks(nodes'[j])
  <2>1. PICK j \in Ring : Blocks(nodes[j])
    BY <1>7 DEF CutInv, CutRing
  <2>2. SpeaksBlocked(n)
    BY <1>2, <1>7, AlikeHolds DEF CutInv, CutRing
  <2>3. Blocks(nodes'[j])
    BY <1>2, <1>3, <1>6, <2>1, AlikeHolds
  <2> QED
    BY <2>2, <2>3
<1>8. ASSUME NEW m \in flight, NEW k, ~stale, Grown(k, m, i, starts)
      PROVE  Covered(nodes', k)
  <2>1. Covered(nodes, m) /\ m.id \in Nat
    BY <1>8 DEF CutInv, CutRing, RingInv, Unrivalled
  <2>2. CASE Failing(n) /\ Blocks(n)
    BY <1>3, <1>6, <2>2 DEF Covered, Committed
  <2>3. CASE Alike(n, nodes[i])
    <3>1. Committed(nodes, i, m) => Committed(nodes', i, k)
      BY <1>3, <1>6, <1>8, <2>3, AlikeHolds DEF Committed, Grown, Alike
    <3>2. n.id = nodes[i].id /\ (Blocks(nodes[i]) => Blocks(n))
          /\ (i = 0 /\ HoldsRpl(nodes[0]) => HoldsRpl(n))
      BY <2>3, AlikeHolds DEF Alike
    <3> QED
      BY <1>2, <1>3, <1>6, <1>8, <2>1, <3>1, <3>2, CoveredKept
  <2> QED
    BY <1>5, <1>8, <2>2, <2>3
<1> QED
  BY <1>1, <1>2, <1>4, <1>7, <1>8, UpdateCut

(* What a node says in a ring without commands.                            *)
LEMMA Said ==
  ASSUME RingInv, UnswitchedRing, NEW s \in Ring,
         NEW req, req = RapsRequest(nodes[s].pdu)
  PROVE  /\ req \in RemoteUnswitched
         /\ req = ERPS_REQ_RAPS_SF => Failing(nodes[s])
         /\ req = ERPS_REQ_RAPS_NR_RB => s = 0
<1>1. /\ Unswitched(nodes[s]) /\ ("RB" \in nodes[s].pdu.status => s = 0)
  BY Roles DEF RingInv, UnswitchedRing, Sound
<1>2. CASE nodes[s].pdu.rs = "SF"
  <2>1. req = ERPS_REQ_RAPS_SF /\ Failing(nodes[s])
    BY <1>1, <1>2 DEF RapsRequest, Unswitched
  <2> QED
    BY <2>1 DEF RemoteUnswitched, ERPS_REQ_RAPS_SF, ERPS_REQ_RAPS_NR_RB
<1>3. CASE nodes[s].pdu.rs = "NR"
  <2>1. req = IF "RB" \in nodes[s].pdu.status THEN ERPS_REQ_RAPS_NR_RB
              ELSE ERPS_REQ_RAPS_NR
    BY <1>3 DEF RapsRequest
  <2>2. /\ req \in RemoteUnswitched /\ req # ERPS_REQ_RAPS_SF
        /\ req = ERPS_REQ_RAPS_NR_RB => "RB" \in nodes[s].pdu.status
    BY <2>1 DEF RemoteUnswitched, ERPS_REQ_RAPS_SF, ERPS_REQ_RAPS_NR_RB, ERPS_REQ_RAPS_NR
  <2> QED
    BY <1>1, <2>2
<1> QED
  BY <1>1, <1>2, <1>3 DEF Unswitched

(* What a node says that has a blocked port, in a ring without commands.   *)
LEMMA SaidUnswitched ==
  ASSUME RingInv, UnswitchedRing, NEW s \in Ring, Blocks(nodes[s]),
         NEW req, req = RapsRequest(nodes[s].pdu)
  PROVE  /\ req \in RemoteUnswitched
         /\ req = ERPS_REQ_RAPS_SF => Failing(nodes[s])
         /\ req = ERPS_REQ_RAPS_NR_RB => s = 0 /\ HoldsRpl(nodes[0])
<1>1. RbHeld(nodes[0]) /\ (req = ERPS_REQ_RAPS_NR_RB => "RB" \in nodes[s].pdu.status)
  BY DEF UnswitchedRing, RapsRequest, ERPS_REQ_RAPS_FS, ERPS_REQ_RAPS_SF,
         ERPS_REQ_RAPS_MS, ERPS_REQ_RAPS_NR_RB, ERPS_REQ_RAPS_NR
<1> QED
  BY <1>1, Said DEF RbHeld

(* A fresh PDU that is delayed is covered by its sender.                   *)
LEMMA DelayCut ==
  ASSUME RingInv, CutInv, NEW s \in Ring, NEW r \in Ring, Delay(s, r), ~overlap'
  PROVE  CutInv'
<1> DEFINE req == RapsRequest(nodes[s].pdu)
           late == [to |-> r, req |-> req, id |-> nodes[s].id, before |-> {}]
<1>1. /\ nodes' = nodes /\ flight' = flight \cup {late} /\ commands' = commands
      /\ stale' = stale /\ s # r /\ Hears(r, s)
  BY DEF Delay, counters, history
<1>2. flight = {} /\ commands = 0
  BY DEF Delay
<1>3. nodes[s].tx # {} /\ nodes[s] \in Node
  BY <1>1 DEF Hears, Sends, RingInv
<1>4. late.req = req /\ late.id = nodes[s].id
  OBVIOUS
<1> HIDE DEF late
<1>5. flight' = {late} /\ Few(flight')
  BY <1>1, <1>2 DEF Few
<1>6. req \in RemoteUnswitched
  <2>1. Unswitched(nodes[s])
    BY <1>2 DEF CutInv, UnswitchedRing
  <2> QED
    BY <2>1 DEF RapsRequest, Unswitched, RemoteUnswitched
<1>7. ASSUME ~stale PROVE Covered(nodes, late)
  <2>1. Blocks(nodes[s])
    BY <1>3, <1>7 DEF CutInv, CutRing, SpeaksBlocked
  <2>2. /\ req = ERPS_REQ_RAPS_SF => Failing(nodes[s])
        /\ req = ERPS_REQ_RAPS_NR_RB => s = 0 /\ HoldsRpl(nodes[0])
    BY <1>2, <2>1, SaidUnswitched DEF CutInv
  <2>3. CASE req = ERPS_REQ_RAPS_SF
    BY <2>1, <2>2, <2>3 DEF Covered, Committed
  <2>4. CASE req = ERPS_REQ_RAPS_NR_RB
    BY <1>4, <2>2, <2>4 DEF Covered, ERPS_REQ_RAPS_NR_RB, ERPS_REQ_RAPS_SF
  <2>5. CASE req = ERPS_REQ_RAPS_NR
    <3>1. nodes[s].id <= nodes[s].id
      BY <1>3 DEF Node
    <3> QED
      BY <1>4, <2>1, <2>5, <3>1 DEF Covered
  <2> QED
    BY <1>6, <2>3, <2>4, <2>5 DEF RemoteUnswitched
<1>8. FewLate'
  BY <1>1, <1>2, <1>5 DEF CutInv, FewLate
<1>9. UnswitchedRing' /\ (~stale' => CutRing')
  BY <1>1, <1>2, <1>4, <1>5, <1>6, <1>7 DEF CutInv, UnswitchedRing, CutRing
<1> QED
  BY <1>8, <1>9 DEF CutInv

(* A node that hears another which sends is not the last to be blocked.    *)
LEMMA ReceiveCut ==
  ASSUME RingInv, CutInv, NEW s \in Ring, NEW r \in Ring, Receive(s, r)
  PROVE  CutInv'
<1> DEFINE n == Heard(r, s)
           starts == Heard(r, s).guard /\ ~nodes[r].guard
           req == RapsRequest(nodes[s].pdu)
           id == nodes[s].id
<1>1. /\ s # r /\ Hears(r, s) /\ Update(r, n, starts)
      /\ commands' = commands /\ stale' = stale
  BY DEF Receive, counters, history
<1>2. nodes[s].tx # {}
  BY <1>1 DEF Hears, Sends
<1>3. /\ nodes \in [Ring -> Node] /\ Sound(nodes[r], RoleOf(r))
      /\ nodes[s] \in Node /\ nodes[r] \in Node /\ 0 \in Port
  BY DEF RingInv, Port
<1>4. n = IF nodes[r].guard THEN nodes[r] ELSE Posted(nodes[r], 0, req, id)
  BY DEF Heard, Received
<1> HIDE DEF n, starts
<1>5. req # ERPS_REQ_CLEAR_SF
  BY DEF RapsRequest, ERPS_REQ_CLEAR_SF, ERPS_REQ_RAPS_FS, ERPS_REQ_RAPS_SF,
         ERPS_REQ_RAPS_MS, ERPS_REQ_RAPS_NR_RB, ERPS_REQ_RAPS_NR
<1> HIDE DEF req, id
<1>6. /\ n \in Node /\ n.id = nodes[r].id /\ (nodes[r].guard => n.guard)
      /\ SpeaksBlocked(nodes[r]) => SpeaksBlocked(n)
  BY <1>3, <1>4, <1>5, PostBlocks
<1>7. nodes' = [nodes EXCEPT ![r] = n]
  BY <1>1 DEF Update
<1>8. ASSUME commands = 0 PROVE Unswitched(n) /\ (r = 0 => RbHeld(n))
  <2>1. Unswitched(nodes[r]) /\ RbHeld(nodes[0]) /\ Unswitched(nodes[s])
    BY <1>8 DEF CutInv, UnswitchedRing
  <2>2. req \in RemoteUnswitched /\ (r = 0 => req # ERPS_REQ_RAPS_NR_RB)
    <3>1. req \in RemoteUnswitched
      BY <2>1 DEF req, RapsRequest, Unswitched, RemoteUnswitched
    <3> QED
      BY <1>1, <3>1, HeardSound DEF req
  <2>3. Unswitched(n)
    BY <1>3, <1>4, <2>1, <2>2, PostUnswitched
  <2>4. ASSUME r = 0 PROVE RbHeld(n)
    <3>1. Sound(nodes[r], "owner") /\ RbHeld(nodes[r])
      BY <1>3, <2>1, <2>4, Roles
    <3> QED
      BY <1>3, <1>4, <2>1, <2>2, <2>4, <3>1, PostRbHeld
  <2> QED
    BY <2>3, <2>4
<1>9. ASSUME ~stale PROVE Blocks(nodes[s])
  BY <1>2, <1>9 DEF CutInv, CutRing, SpeaksBlocked
<1>10. ASSUME ~stale PROVE SpeaksBlocked(n) /\ \E j \in Ring : Blocks(nodes'[j])
  BY <1>1, <1>3, <1>6, <1>7, <1>9, <1>10 DEF CutInv, CutRing
<1>11. ASSUME NEW m \in flight, NEW k, ~stale, Grown(k, m, r, starts)
       PROVE  Covered(nodes', k)
  <2>1. Covered(nodes, m) /\ m.id \in Nat /\ UnswitchedRing /\ Blocks(nodes[s])
    BY <1>9, <1>11 DEF CutInv, FewLate, CutRing, RingInv, Unrivalled
  <2>2. /\ req \in RemoteUnswitched
        /\ req = ERPS_REQ_RAPS_SF => Failing(nodes[s])
        /\ req = ERPS_REQ_RAPS_NR_RB => s = 0 /\ HoldsRpl(nodes[0])
    BY <2>1, SaidUnswitched DEF req
  <2>3. Failing(nodes[r]) => Alike(n, nodes[r])
    <3>1. Alike(nodes[r], nodes[r])
      BY DEF Alike
    <3> QED
      BY <1>3, <1>4, <2>2, <3>1, FailingRejects, PostRejected
  <2>4. Committed(nodes, r, m) => Committed(nodes', r, k)
    <3>1. CASE nodes[r].guard
      BY <1>3, <1>4, <1>7, <1>11, <3>1 DEF Committed, Grown
    <3>2. CASE ~nodes[r].guard
      BY <1>3, <1>7, <2>3, <3>2, AlikeHolds DEF Committed
    <3> QED
      BY <3>1, <3>2
  <2>5. CASE req = ERPS_REQ_RAPS_SF
    BY <1>1, <1>3, <1>7, <2>1, <2>2, <2>5 DEF Covered, Committed
  <2>6. CASE req = ERPS_REQ_RAPS_NR_RB
    <3>1. s = 0 /\ r # 0 /\ HoldsRpl(nodes[0]) /\ HoldsRpl(nodes'[0])
      BY <1>1, <1>3, <1>7, <2>2, <2>6
    <3>2. CASE m.req # ERPS_REQ_RAPS_SF
      BY <1>11, <3>1, <3>2 DEF Covered, Grown
    <3>3. CASE m.req = ERPS_REQ_RAPS_SF
      <4>1. PICK j \in Ring : Committed(nodes, j, m)
        BY <2>1, <3>3 DEF Covered, ERPS_REQ_RAPS_SF, ERPS_REQ_RAPS_NR
      <4>2. Committed(nodes', j, k)
        BY <1>3, <1>7, <1>11, <2>4, <4>1 DEF Committed, Grown
      <4> QED
        BY <4>2 DEF Covered
    <3> QED
      BY <3>2, <3>3
  <2>7. CASE req = ERPS_REQ_RAPS_NR
    <3>1. r = 0 /\ HoldsRpl(nodes[0]) => HoldsRpl(n)
      BY <1>3, <1>4, <2>7, Roles, PostHoldsRpl DEF Sound
    <3>2. \/ Blocks(nodes[r]) => Blocks(n)
          \/ \E j \in Ring \ {r} : Blocks(nodes[j]) /\ nodes[r].id <= nodes[j].id
      <4>1. CASE id <= nodes[r].id
        BY <1>3, <1>4, <2>7, <4>1, PostNoRequest DEF Blocks
      <4>2. CASE ~(id <= nodes[r].id)
        <5>1. nodes[r].id <= nodes[s].id
          BY <1>3, <4>2 DEF id, Node
        <5> QED
          BY <1>1, <2>1, <5>1
      <4> QED
        BY <4>1, <4>2
    <3> QED
      BY <1>3, <1>6, <1>7, <1>11, <2>1, <2>4, <3>1, <3>2, CoveredKept
  <2> QED
    BY <2>2, <2>5, <2>6, <2>7 DEF RemoteUnswitched
<1>12. \A m, k : ~stale' /\ m \in flight /\ Grown(k, m, r, starts) => Covered(nodes', k)
  BY <1>1, <1>11
<1>13. /\ ~stale' => SpeaksBlocked(n) /\ \E j \in Ring : Blocks(nodes'[j])
       /\ commands' = 0 => Unswitched(n) /\ (r = 0 => RbHeld(n))
  BY <1>1, <1>8, <1>10
<1> QED
  BY <1>1, <1>6, <1>12, <1>13, UpdateCut

(* A PDU that is late arrives: what covers it keeps a port blocked.        *)
LEMMA ArriveCut ==
  ASSUME RingInv, CutInv, NEW m \in flight, Arrive(m)
  PROVE  CutInv'
<1> DEFINE r == m.to
           n == Received(r, m.req, m.id)
           starts == n.guard /\ ~nodes[r].guard
<1>1. /\ nodes' = [nodes EXCEPT ![r] = n]
      /\ flight' = Outlasted(flight \ {m}, r, starts)
      /\ commands' = commands /\ stale' = stale
  BY DEF Arrive, counters, history
<1>2. /\ r \in Ring /\ m.id \in Nat /\ m.req \in RemoteUnswitched
      /\ r = 0 => m.req # ERPS_REQ_RAPS_NR_RB
      /\ UnswitchedRing /\ commands = 0
  BY DEF RingInv, Unrivalled, CutInv, FewLate, UnswitchedRing
<1>3. /\ nodes \in [Ring -> Node] /\ Sound(nodes[r], RoleOf(r))
      /\ nodes[r] \in Node /\ 0 \in Port
  BY <1>2 DEF RingInv, Port
<1>4. n = IF nodes[r].guard THEN nodes[r] ELSE Posted(nodes[r], 0, m.req, m.id)
  BY DEF Received
<1> HIDE DEF n, starts
<1>5. flight' = {} /\ Few(flight')
  <2>1. flight \ {m} = {}
    BY DEF CutInv, FewLate, Few
  <2>2. flight' = {}
    BY <1>1, <2>1 DEF Outlasted
  <2> QED
    BY <2>2 DEF Few
<1> HIDE DEF r
<1>6. m.req # ERPS_REQ_CLEAR_SF
  BY <1>2 DEF RemoteUnswitched, ERPS_REQ_CLEAR_SF, ERPS_REQ_RAPS_SF,
              ERPS_REQ_RAPS_NR_RB, ERPS_REQ_RAPS_NR
<1>7. n \in Node /\ (SpeaksBlocked(nodes[r]) => SpeaksBlocked(n))
  BY <1>3, <1>4, <1>6, PostBlocks
<1>8. Unswitched(n) /\ (r = 0 => RbHeld(n))
  <2>1. Unswitched(nodes[r]) /\ RbHeld(nodes[0])
    BY <1>2 DEF UnswitchedRing
  <2>2. Unswitched(n)
    BY <1>2, <1>3, <1>4, <2>1, PostUnswitched
  <2>3. ASSUME r = 0 PROVE RbHeld(n)
    <3>1. Sound(nodes[r], "owner") /\ RbHeld(nodes[r])
      BY <1>3, <2>1, <2>3, Roles
    <3> QED
      BY <1>2, <1>3, <1>4, <2>1, <2>3, <3>1, PostRbHeld
  <2> QED
    BY <2>2, <2>3
<1>9. nodes'[r] = n /\ \A j \in Ring \ {r} : nodes'[j] = nodes[j]
  BY <1>1, <1>2, <1>3
<1>10. ASSUME ~stale PROVE \E j \in Ring : Blocks(nodes'[j])
  <2>1. Covered(nodes, m)
    BY <1>10 DEF CutInv, CutRing
  <2>2. ASSUME NEW s \in Ring, Committed(nodes, s, m) PROVE Blocks(nodes'[s])
    <3>1. CASE s # r \/ nodes[r].guard
      BY <1>4, <1>9, <2>2, <3>1 DEF Committed
    <3>2. CASE s = r /\ ~nodes[r].guard
      <4>1. Failing(nodes[r]) /\ Blocks(nodes[r])
        BY <2>2, <3>2 DEF Committed
      <4>2. Alike(n, nodes[r])
        BY <1>2, <1>3, <1>4, <3>2, <4>1, FailingRejects, PostRejected
      <4> QED
        BY <1>9, <3>2, <4>1, <4>2, AlikeHolds
    <3> QED
      BY <3>1, <3>2
  <2>3. ASSUME m.req # ERPS_REQ_RAPS_SF, HoldsRpl(nodes[0]) PROVE Blocks(nodes'[0])
    <3>1. CASE r # 0 \/ nodes[r].guard
      BY <1>4, <1>9, <2>3, <3>1, Roles DEF HoldsRpl, Blocks
    <3>2. CASE r = 0 /\ ~nodes[r].guard
      <4>1. m.req = ERPS_REQ_RAPS_NR
        BY <1>2, <2>3, <3>2 DEF RemoteUnswitched
      <4>2. HoldsRpl(n)
        BY <1>3, <1>4, <2>3, <3>2, <4>1, Roles, PostHoldsRpl DEF Sound
      <4> QED
        BY <1>9, <3>2, <4>2 DEF HoldsRpl, Blocks
    <3> QED
      BY <3>1, <3>2
  <2>4. ASSUME m.req = ERPS_REQ_RAPS_NR, NEW i \in Ring,
               Blocks(nodes[i]), m.id <= nodes[i].id
        PROVE  Blocks(nodes'[i])
    <3>1. CASE i # r \/ nodes[r].guard
      BY <1>4, <1>9, <2>4, <3>1
    <3>2. CASE i = r /\ ~nodes[r].guard
      BY <1>3, <1>4, <1>9, <2>4, <3>2, PostNoRequest DEF Blocks
    <3> QED
      BY <3>1, <3>2
  <2> QED
    BY <2>1, <2>2, <2>3, <2>4, Roles DEF Covered
<1>11. FewLate'
  BY <1>1, <1>5 DEF CutInv, FewLate
<1>12. UnswitchedRing'
  BY <1>2, <1>5, <1>8, <1>9, Roles DEF UnswitchedRing
<1>13. ASSUME ~stale PROVE CutRing'
  <2>1. \A j \in Ring : SpeaksBlocked(nodes'[j])
    BY <1>7, <1>9, <1>13 DEF CutInv, CutRing
  <2> QED
    BY <1>5, <1>10, <1>13, <2>1 DEF CutRing
<1> QED
  BY <1>1, <1>11, <1>12, <1>13 DEF CutInv

(* The end of a signal fail is announced while the port is still blocked,  *)
(* and the guard timer outlasts what is late.                              *)
LEMMA ClearCut ==
  ASSUME RingInv, CutInv, NEW i \in Ring, NEW l \in Port, ClearSignalFail(i, l)
  PROVE  CutInv'
<1> DEFINE req == ERPS_REQ_CLEAR_SF
           n == Posted(nodes[i], l, req, 0)
           q == [n EXCEPT !.up = @ \cup {l}, !.tx = @ \cup {l}]
           starts == StartsGuard(nodes[i], l, req)
<1>1. /\ Update(i, q, starts) /\ commands' = commands
      /\ stale' = (stale \/ n.blocked = {})
  BY DEF ClearSignalFail, counters, history
<1>2. nodes \in [Ring -> Node] /\ Sound(nodes[i], RoleOf(i)) /\ nodes[i] \in Node
  BY DEF RingInv
<1>3. /\ n \in Node /\ n.id = nodes[i].id /\ (nodes[i].guard => n.guard)
      /\ n.blocked = nodes[i].blocked /\ n.failed = nodes[i].failed
      /\ nodes[i].state = "IDLE" => n.state = "IDLE"
  BY <1>2, PostBlocks, PostClearSignalFail
<1>4. Failing(nodes[i]) => starts
  <2> DEFINE z == [nodes[i] EXCEPT !.guard = FALSE]
  <2>1. starts = Posted(z, l, req, 0).guard
    BY DEF StartsGuard
  <2>2. z \in Node /\ z.state = nodes[i].state /\ z.topreq = nodes[i].topreq
    BY <1>2 DEF Node
  <2> HIDE DEF z, req
  <2>3. Failing(nodes[i]) => Failing(z)
    BY <2>2 DEF Failing
  <2> QED
    BY <2>1, <2>2, <2>3, FailureEnds DEF req
<1>5. Failing(nodes[i]) => n.guard
  BY <1>2, FailureEnds
<1>6. commands = 0 => Unswitched(n) /\ (i = 0 => RbHeld(n))
  <2>1. SUFFICES ASSUME commands = 0 PROVE Unswitched(n) /\ (i = 0 => RbHeld(n))
    OBVIOUS
  <2>2. Unswitched(nodes[i]) /\ RbHeld(nodes[0])
    BY <2>1 DEF CutInv, UnswitchedRing
  <2>3. req \in Unprompted /\ req # ERPS_REQ_RAPS_NR_RB
    BY DEF Unprompted, ERPS_REQ_CLEAR_SF, ERPS_REQ_RAPS_NR_RB
  <2> HIDE DEF req
  <2>4. Unswitched(n)
    BY <1>2, <2>2, <2>3, PostUnswitched
  <2>5. ASSUME i = 0 PROVE RbHeld(n)
    <3>1. Sound(nodes[i], "owner") /\ RbHeld(nodes[i])
      BY <1>2, <2>2, <2>5, Roles
    <3> QED
      BY <2>2, <2>3, <3>1, PostRbHeld
  <2> QED
    BY <2>4, <2>5
<1> HIDE DEF n, starts
<1>7. /\ q \in Node /\ q.id = n.id /\ (q.guard <=> n.guard) /\ q.state = n.state
      /\ q.topreq = n.topreq /\ q.blocked = n.blocked /\ q.failed = n.failed
      /\ q.pdu = n.pdu
  <2> DEFINE up == n.up \cup {l}
             tx == n.tx \cup {l}
  <2>1. up \in SUBSET Port /\ tx \in SUBSET Port /\ q = [n EXCEPT !.up = up, !.tx = tx]
    BY <1>3 DEF Node
  <2> HIDE DEF up, tx, q
  <2> QED
    BY <1>3, <2>1 DEF Node
<1> HIDE DEF q
<1>8. nodes' = [nodes EXCEPT ![i] = q]
  BY <1>1 DEF Update
<1>9. commands' = 0 => Unswitched(q) /\ (i = 0 => RbHeld(q))
  BY <1>1, <1>6, <1>7 DEF Unswitched, Failing, RbHeld, Blocks, HoldsRpl
<1>10. ~stale' => SpeaksBlocked(q) /\ \E j \in Ring : Blocks(nodes'[j])
  BY <1>1, <1>2, <1>7, <1>8 DEF SpeaksBlocked, Blocks
<1>11. ASSUME NEW m \in flight, NEW k, ~stale, Grown(k, m, i, starts)
       PROVE  Covered(nodes', k)
  <2>1. Covered(nodes, m) /\ m.id \in Nat
    BY <1>11 DEF CutInv, CutRing, RingInv, Unrivalled
  <2>2. Committed(nodes, i, m) => Committed(nodes', i, k)
    BY <1>2, <1>3, <1>4, <1>5, <1>7, <1>8, <1>11 DEF Committed, Grown, Blocks
  <2>3. /\ i = 0 /\ HoldsRpl(nodes[0]) => HoldsRpl(q)
        /\ Blocks(nodes[i]) => Blocks(q)
    BY <1>3, <1>7 DEF HoldsRpl, Blocks
  <2> QED
    BY <1>2, <1>3, <1>7, <1>8, <1>11, <2>1, <2>2, <2>3, CoveredKept
<1>12. \A m, k : ~stale' /\ m \in flight /\ Grown(k, m, i, starts) => Covered(nodes', k)
  BY <1>1, <1>11
<1> QED
  BY <1>1, <1>7, <1>9, <1>10, <1>12, UpdateCut

(* A guard timer expires when all that it had to outlast has arrived.      *)
LEMMA GuardCut ==
  ASSUME RingInv, CutInv, NEW i \in Ring, GuardTimerExpires(i)
  PROVE  CutInv'
<1> DEFINE q == [nodes[i] EXCEPT !.guard = FALSE]
<1>1. /\ Update(i, q, FALSE) /\ commands' = commands /\ stale' = stale
      /\ \A m \in flight : i \notin m.before
  BY DEF GuardTimerExpires, counters, history
<1>2. nodes \in [Ring -> Node] /\ nodes[i] \in Node
  BY DEF RingInv
<1>3. /\ q \in Node /\ q.id = nodes[i].id /\ q.state = nodes[i].state
      /\ q.topreq = nodes[i].topreq /\ q.blocked = nodes[i].blocked
      /\ q.failed = nodes[i].failed /\ q.pdu = nodes[i].pdu /\ q.tx = nodes[i].tx
  BY <1>2 DEF Node
<1> HIDE DEF q
<1>4. /\ Blocks(q) <=> Blocks(nodes[i])
      /\ Failing(q) <=> Failing(nodes[i])
      /\ HoldsRpl(q) <=> HoldsRpl(nodes[i])
      /\ SpeaksBlocked(q) <=> SpeaksBlocked(nodes[i])
      /\ Unswitched(q) <=> Unswitched(nodes[i])
      /\ RbHeld(q) <=> RbHeld(nodes[i])
  BY <1>3 DEF Blocks, Failing, SpeaksBlocked, HoldsRpl, Unswitched, RbHeld
<1>5. nodes' = [nodes EXCEPT ![i] = q]
  BY <1>1 DEF Update
<1>6. commands' = 0 => Unswitched(q) /\ (i = 0 => RbHeld(q))
  BY <1>1, <1>4 DEF CutInv, UnswitchedRing
<1>7. ~stale' => SpeaksBlocked(q) /\ \E j \in Ring : Blocks(nodes'[j])
  BY <1>1, <1>2, <1>4, <1>5 DEF CutInv, CutRing
<1>8. ASSUME NEW m \in flight, NEW k, ~stale, Grown(k, m, i, FALSE)
      PROVE  Covered(nodes', k)
  <2>1. Covered(nodes, m) /\ m.id \in Nat
    BY <1>8 DEF CutInv, CutRing, RingInv, Unrivalled
  <2>2. Committed(nodes, i, m) => Committed(nodes', i, k)
    BY <1>1, <1>2, <1>4, <1>5, <1>8 DEF Committed
  <2>3. /\ i = 0 /\ HoldsRpl(nodes[0]) => HoldsRpl(q)
        /\ Blocks(nodes[i]) => Blocks(q)
    BY <1>4
  <2> QED
    BY <1>2, <1>3, <1>5, <1>8, <2>1, <2>2, <2>3, CoveredKept
<1>9. \A m, k : ~stale' /\ m \in flight /\ Grown(k, m, i, FALSE) => Covered(nodes', k)
  BY <1>1, <1>8
<1> QED
  BY <1>1, <1>3, <1>6, <1>7, <1>9, UpdateCut

(* What has overlapped has.                                                *)
LEMMA OverlapStays == [Next]_vars /\ overlap => overlap'
BY DEF Next, Detected, Expires, Command, LinkChanges, SignalFail, ClearSignalFail,
       LinkDownExpires, WtrExpires, WtbExpires, GuardTimerExpires, Receive, Delay, Arrive,
       Update, history, vars

(* Timers that are long find no PDU that is late, and commands find none   *)
(* either as long as nothing overlaps.                                     *)
LEMMA CutKeeps == RingInv /\ CutInv /\ [Next]_vars /\ ~overlap' => CutInv'
<1> SUFFICES ASSUME RingInv, CutInv, [Next]_vars, ~overlap' PROVE CutInv'
  OBVIOUS
<1>0. /\ nodes \in [Ring -> Node] /\ 0 \in Port
      /\ \A i \in Ring : nodes[i] \in Node /\ Sound(nodes[i], RoleOf(i))
      /\ commands \in Nat
  BY DEF RingInv, Port, CutInv, FewLate
<1>1. ASSUME NEW c \in Commands, NEW l \in Port, Command(c[1], l, c[2]) PROVE CutInv'
  <2>1. c[1] \in Ring /\ c[2] \in {ERPS_REQ_CLEAR, ERPS_REQ_FS, ERPS_REQ_MS}
    BY RingAssumption
  <2>2. c[2] \notin Remote /\ c[2] # ERPS_REQ_CLEAR_SF
    BY <2>1 DEF Remote, ERPS_REQ_CLEAR, ERPS_REQ_FS, ERPS_REQ_MS, ERPS_REQ_CLEAR_SF,
       ERPS_REQ_RAPS_FS, ERPS_REQ_RAPS_SF, ERPS_REQ_RAPS_MS, ERPS_REQ_RAPS_NR_RB,
       ERPS_REQ_RAPS_NR
  <2>3. /\ Post(c[1], nodes[c[1]], l, c[2]) /\ stale' = stale
        /\ commands' = commands + 1 /\ flight = {}
    BY <1>1 DEF Command, CutInv, FewLate
  <2>4. Alike(nodes[c[1]], nodes[c[1]]) /\ commands' # 0
    BY <1>0, <2>3 DEF Alike
  <2> QED
    BY <1>0, <2>1, <2>2, <2>3, <2>4, LocalCut
<1>2. ASSUME NEW k \in Ring, LinkChanges(k) PROVE CutInv'
  BY <1>2 DEF LinkChanges, history, CutInv, FewLate, UnswitchedRing, CutRing
<1>3. /\ ERPS_REQ_SF \notin Remote /\ ERPS_REQ_SF # ERPS_REQ_CLEAR_SF
      /\ Expiries \cap Remote = {} /\ ERPS_REQ_CLEAR_SF \notin Expiries
      /\ {ERPS_REQ_SF} \cup Expiries \subseteq Unprompted
  BY DEF Remote, Expiries, Unprompted, ERPS_REQ_SF, ERPS_REQ_CLEAR_SF, ERPS_REQ_RAPS_FS,
     ERPS_REQ_RAPS_SF, ERPS_REQ_RAPS_MS, ERPS_REQ_RAPS_NR_RB, ERPS_REQ_RAPS_NR,
     ERPS_REQ_WTR_EXPIRES, ERPS_REQ_WTB_EXPIRES
<1>4. ASSUME NEW i \in Ring, NEW p \in Port, SignalFail(i, p) PROVE CutInv'
  <2> DEFINE y == [nodes[i] EXCEPT !.up = @ \ {p}]
  <2>1. Sound(y, RoleOf(i))
    BY <1>0, SoundFields
  <2>2. Alike(y, nodes[i])
    BY <1>0 DEF Alike, Node
  <2>3. Post(i, y, p, ERPS_REQ_SF) /\ stale' = stale /\ commands' = commands
    BY <1>4 DEF SignalFail, counters, history
  <2> HIDE DEF y
  <2> QED
    BY <1>3, <2>1, <2>2, <2>3, LocalCut
<1>5. ASSUME NEW i \in Ring, NEW p \in Port, LinkDownExpires(i, p) PROVE CutInv'
  <2> DEFINE y == [nodes[i] EXCEPT !.linkDown = @ \ {p}]
  <2>1. Sound(y, RoleOf(i))
    BY <1>0, SoundFields
  <2>2. Alike(y, nodes[i])
    BY <1>0 DEF Alike, Node
  <2>3. Post(i, y, p, ERPS_REQ_SF) /\ stale' = stale /\ commands' = commands
    BY <1>5 DEF LinkDownExpires, counters, history
  <2> HIDE DEF y
  <2> QED
    BY <1>3, <2>1, <2>2, <2>3, LocalCut
<1>6. ASSUME NEW i \in Ring, WtrExpires(i) PROVE CutInv'
  <2> DEFINE y == [nodes[i] EXCEPT !.wtr = FALSE]
  <2>1. Sound(y, RoleOf(i))
    BY <1>0, SoundFields
  <2>2. Alike(y, nodes[i])
    BY <1>0 DEF Alike, Node
  <2>3. /\ Post(i, y, 0, ERPS_REQ_WTR_EXPIRES) /\ stale' = stale
        /\ commands' = commands /\ flight = {}
    BY <1>6 DEF WtrExpires, Settled, counters, history
  <2>4. ERPS_REQ_WTR_EXPIRES \in Expiries
    BY DEF Expiries
  <2> HIDE DEF y
  <2> QED
    BY <1>0, <1>3, <2>1, <2>2, <2>3, <2>4, LocalCut
<1>7. ASSUME NEW i \in Ring, WtbExpires(i) PROVE CutInv'
  <2> DEFINE y == [nodes[i] EXCEPT !.wtb = FALSE]
  <2>1. Sound(y, RoleOf(i))
    BY <1>0, SoundFields
  <2>2. Alike(y, nodes[i])
    BY <1>0 DEF Alike, Node
  <2>3. /\ Post(i, y, 0, ERPS_REQ_WTB_EXPIRES) /\ stale' = stale
        /\ commands' = commands /\ flight = {}
    BY <1>7 DEF WtbExpires, Settled, counters, history
  <2>4. ERPS_REQ_WTB_EXPIRES \in Expiries
    BY DEF Expiries
  <2> HIDE DEF y
  <2> QED
    BY <1>0, <1>3, <2>1, <2>2, <2>3, <2>4, LocalCut
<1>8. CASE UNCHANGED vars
  BY <1>8 DEF vars, counters, history, CutInv, FewLate, UnswitchedRing, CutRing
<1> QED
  BY <1>1, <1>2, <1>4, <1>5, <1>6, <1>7, <1>8, ClearCut, GuardCut, ReceiveCut, DelayCut,
     ArriveCut
  DEF Next, Detected, Expires

(* Every node comes up with a blocked port, and without a command.         *)
LEMMA InitCut == Init => CutInv
<1> SUFFICES ASSUME Init PROVE CutInv
  OBVIOUS
<1>1. flight = {} /\ commands = 0
  BY DEF Init
<1>2. \A i \in Ring : Blocks(nodes[i]) /\ Unswitched(nodes[i]) /\ RbHeld(nodes[i])
  <2> SUFFICES ASSUME NEW i \in Ring
               PROVE  Blocks(nodes[i]) /\ Unswitched(nodes[i]) /\ RbHeld(nodes[i])
    OBVIOUS
  <2>1. /\ nodes[i].state = "PENDING" /\ nodes[i].topreq \notin Local
        /\ nodes[i].pdu = [rs |-> "NR", status |-> {}] /\ nodes[i].blocked # {}
    BY InitNode
  <2> QED
    BY <2>1 DEF Blocks, Unswitched, RbHeld, Failing, Local
<1> QED
  BY <1>1, <1>2, Roles
  DEF CutInv, FewLate, Few, UnswitchedRing, CutRing, SpeaksBlocked

(* A blocked port cuts its link.                                           *)
LEMMA BlockedIsCut ==
  ASSUME RingInv, NEW i \in Ring, Blocks(nodes[i])
  PROVE  CutLinks # {}
<1>1. PICK p \in Port : p \in nodes[i].blocked
  BY DEF RingInv, Node, Blocks
<1>2. CASE p = PortOut(i)
  BY <1>1, <1>2 DEF CutLinks, Cut
<1>3. CASE p # PortOut(i)
  <2> DEFINE k == IF i = 0 THEN RplLink ELSE i - 1
  <2>1. k \in Ring /\ After(k) = i
    <3>1. CASE i = 0
      BY <3>1, RingAssumption, Roles DEF RplLink, After
    <3>2. CASE i # 0
      <4>1. i \in Nat /\ i >= 1 /\ i < N /\ N \in Nat
        BY <3>2, RingAssumption DEF Ring
      <4>2. i - 1 \in Ring /\ (i - 1) + 1 = i
        BY <4>1 DEF Ring
      <4>3. i % N = i
        BY <4>1
      <4> QED
        BY <3>2, <4>2, <4>3 DEF After
    <3> QED
      BY <3>1, <3>2
  <2>2. p = PortIn(i)
    BY <1>3 DEF PortIn, PortOut, Port
  <2> QED
    BY <1>1, <2>1, <2>2 DEF CutLinks, Cut
<1> QED
  BY <1>2, <1>3

(* Whatever links, operators and timers do, in a ring of any length, with  *)
(* any IDs, and whichever PDUs are lost, the ring does not close into a    *)
(* loop before the interface-up callback has made a node repeat what it    *)
(* had withdrawn, or a PDU has been late together with another one or with *)
(* a command.                                                              *)
THEOREM LoopsNeedStale == Spec => []LoopNeedsStalePdu
<1>1. RingInv /\ (overlap \/ CutInv) => LoopNeedsStalePdu
  BY BlockedIsCut DEF CutInv, CutRing, LoopNeedsStalePdu
<1>2. RingInv /\ (overlap \/ CutInv) /\ [Next]_vars => overlap' \/ CutInv'
  BY CutKeeps, OverlapStays
<1> QED
  BY <1>1, <1>2, InitCut, RingInvAlways, PTL DEF Spec

-----------------------------------------------------------------------------
(***************************************************************************)
(* Failures heal.  A node can wait in PROTECTION for a failure elsewhere   *)
(* that has ended only if no one is left to say so.  The owner never does: *)
(* as long as it waits, some node has a signal fail of its own or sends,   *)
(* because a node that hears another and falls silent leaves the other     *)
(* sending, and what arrives late is known to be Answered.                 *)
(***************************************************************************)
Speaks(n) == n.tx # {}

(* A node that follows another node's signal fail.                         *)
Awaits(n) == n.state = "PROTECTION" /\ ~Failing(n)

(* A node of a ring without commands, as to its timers, the ports that are *)
(* down and what it sends.                                                 *)
Orderly(n) ==
  /\ TimerInv(n) /\ n.topreq # ERPS_REQ_CLEAR /\ (n.revertive <=> Revertive)
  /\ RevertiveOwner(n) /\ n.state = "PENDING" => n.wtr \/ n.wtb
  /\ Awaits(n) => ~Speaks(n)
  /\ Failing(n) => n.up # Port
  /\ n.linkDown \cap n.up = {}
  /\ n.role = "owner" /\ n.state = "IDLE"
       => n.up \subseteq n.tx /\ "RB" \in n.pdu.status

(* When m arrives, s will say what there is to say, because it rejects or  *)
(* drops whatever m may be.                                                *)
Replies(ns, s, m) ==
  Failing(ns[s]) \/ (ns[s].guard /\ s \in m.before /\ Speaks(ns[s]))

(* A PDU that is late does not silence the last node that speaks.          *)
Answered(ns, m) ==
  \/ \E s \in Ring : Replies(ns, s, m)
  \/ m.req = ERPS_REQ_RAPS_NR /\ \E i \in Ring : Speaks(ns[i]) /\ m.id <= ns[i].id

(* The owner waits for no one in vain.                                     *)
Told == Awaits(nodes[0]) => \E s \in Ring : Failing(nodes[s]) \/ Speaks(nodes[s])

HealRing ==
  /\ \A i \in Ring : Orderly(nodes[i])
  /\ Told
  /\ \A m \in flight : m.req = ERPS_REQ_RAPS_SF \/ Awaits(nodes[0]) => Answered(nodes, m)

HealInv == commands = 0 => HealRing

LEMMA AlikeSpeaks ==
  ASSUME NEW a, NEW b, Alike(a, b)
  PROVE  (Speaks(a) <=> Speaks(b)) /\ (Awaits(a) <=> Awaits(b))
BY DEF Alike, Speaks, Awaits, Failing

(* An event that only takes something away.                                *)
LEMMA OrderlyFields ==
  ASSUME NEW n \in Node, Orderly(n), NEW p \in Port
  PROVE  /\ Orderly([n EXCEPT !.up = @ \ {p}])
         /\ Orderly([n EXCEPT !.linkDown = @ \ {p}])
         /\ Orderly([n EXCEPT !.guard = FALSE])
<1> DEFINE Less(m) == /\ m.role = n.role /\ m.state = n.state /\ m.topreq = n.topreq
                      /\ m.tx = n.tx /\ m.pdu = n.pdu /\ (m.revertive <=> n.revertive)
                      /\ (m.wtr <=> n.wtr) /\ (m.wtb <=> n.wtb)
                      /\ m.linkDown \subseteq n.linkDown
                      /\ m.up \subseteq n.up
<1>1. ASSUME NEW m, Less(m) PROVE Orderly(m)
  <2>1. /\ Failing(m) <=> Failing(n)
        /\ Awaits(m) <=> Awaits(n)
        /\ Speaks(m) <=> Speaks(n)
        /\ TimerInv(m) <=> TimerInv(n)
        /\ RevertiveOwner(m) <=> RevertiveOwner(n)
    BY <1>1 DEF Failing, Awaits, Speaks, TimerInv, RevertiveOwner, erps_node_is_rpl_owner
  <2>2. m.up \subseteq n.up /\ n.up \subseteq Port
    BY <1>1 DEF Node
  <2> QED
    BY <1>1, <2>1, <2>2 DEF Orderly
<1>2. Less([n EXCEPT !.up = n.up \ {p}])
  BY DEF Node
<1>3. Less([n EXCEPT !.linkDown = n.linkDown \ {p}])
  BY DEF Node
<1>4. Less([n EXCEPT !.guard = FALSE])
  BY DEF Node
<1> HIDE DEF Less
<1> QED
  BY <1>1, <1>2, <1>3, <1>4

(* What an orderly node in PROTECTION has as top request.                  *)
LEMMA OrderlyTop ==
  ASSUME NEW n \in Node, Unswitched(n), Orderly(n)
  PROVE  /\ n.topreq \in {ERPS_REQ_SF, ERPS_REQ_INVALID} \cup TimerRunning
         /\ ~n.wtr /\ ~n.wtb => n.topreq \in {ERPS_REQ_SF, ERPS_REQ_INVALID}
         /\ n.state = "PROTECTION" => ~n.wtr /\ ~n.wtb
         /\ n.topreq = ERPS_REQ_SF => Failing(n)
BY DEF Orderly, Unswitched, Node, TopRequest, TimerRunning, TimerInv

(* A post whose request is accepted, without an action that can fail.      *)
LEMMA PostDispatched ==
  ASSUME NEW n \in Node, NEW id, NEW req \in {ERPS_REQ_RAPS_NR, ERPS_REQ_RAPS_NR_RB},
         n.topreq = ERPS_REQ_INVALID
  PROVE  \E x, m : /\ x \in Node /\ x.ok /\ x.state = n.state
                   /\ m = Dispatch(x, 0, req, id, NoFault) /\ m \in Node /\ m.ok
                   /\ Posted(n, 0, req, id) = Fresh(m)
<1> DEFINE z == Fresh(n)
           x == Prepare(z, 0, req)
           m == Dispatch(x, 0, req, id, NoFault)
<1>0. 0 \in Port
  BY DEF Port
<1>1. z \in Node /\ z.ok /\ z.state = n.state /\ z.topreq = ERPS_REQ_INVALID
  <2>1. z \in Node
    BY SimpleTypes
  <2> QED
    BY <2>1 DEF Fresh, Node
<1>2. RequestAccepted(z, req) /\ ~IgnoredOnRpl(z, 0, req) /\ req # ERPS_REQ_CLEAR_SF
      /\ req # ERPS_REQ_SF
  BY <1>1 DEF RequestAccepted, IgnoredOnRpl, ERPS_REQ_CLEAR_SF, ERPS_REQ_CLEAR,
     ERPS_REQ_SF, ERPS_REQ_INVALID, ERPS_REQ_RAPS_NR, ERPS_REQ_RAPS_NR_RB
<1>3. Posted(n, 0, req, id) = Fresh(m)
  BY <1>2 DEF Posted, erps_fsm_post_locked
<1> HIDE DEF z
<1>4. x \in Node /\ x.ok /\ x.state = n.state
  <2>1. x = erps_fsm_resolve_req_prio(z, req)
    BY <1>2 DEF Prepare
  <2>2. x \in Node
    BY <1>1, <2>1, ResolveType
  <2> QED
    BY <1>1, <2>1, <2>2 DEF erps_fsm_resolve_req_prio, Node
<1> HIDE DEF x
<1>5. Kept(m, FALSE, TRUE)
  <2>1. Kept(x, FALSE, TRUE)
    BY <1>4 DEF Kept
  <2> QED
    BY <1>0, <1>4, <2>1, DispatchKeeps
<1> QED
  BY <1>3, <1>4, <1>5 DEF Kept

(* A transition that succeeds has been taken.                              *)
LEMMA TransitionTaken ==
  ASSUME NEW n \in Node, NEW next \in State, NEW m, m = erps_fsm_transition(n, next), m.ok
  PROVE  m.state = next
BY DEF erps_fsm_transition, Node

(* Who waits for the end of a failure elsewhere heeds R-APS(NR), ...       *)
LEMMA NoRequestHeeded ==
  ASSUME NEW n \in Node, n.state = "PROTECTION", n.topreq = ERPS_REQ_INVALID, NEW id,
         NEW req \in {ERPS_REQ_RAPS_NR, ERPS_REQ_RAPS_NR_RB}
  PROVE  Posted(n, 0, req, id).state = "PENDING"
<1>1. PICK x, m : /\ x \in Node /\ x.ok /\ x.state = n.state
                  /\ m = Dispatch(x, 0, req, id, NoFault) /\ m \in Node /\ m.ok
                  /\ Posted(n, 0, req, id) = Fresh(m)
  BY PostDispatched
<1>2. m = erps_fsm_post_protection(x, 0, req, NoFault)
  BY <1>1 DEF Dispatch
<1>3. m = RemoteNoRequest(x, req, "wtr")
  BY <1>2 DEF erps_fsm_post_protection, ERPS_REQ_FS, ERPS_REQ_RAPS_FS, ERPS_REQ_SF,
     ERPS_REQ_CLEAR_SF, ERPS_REQ_RAPS_NR, ERPS_REQ_RAPS_NR_RB
<1>4. PICK y \in Node : m = erps_fsm_transition(y, "PENDING")
  BY <1>1, <1>3, StartTypes DEF RemoteNoRequest
<1>5. m.state = "PENDING"
  BY <1>1, <1>4, TransitionTaken DEF State
<1> QED
  BY <1>1, <1>5, FreshAlike DEF Alike

(* ... and who waits for the normal state heeds the owner's announcement.  *)
LEMMA RestoreHeeded ==
  ASSUME NEW n \in Node, n.state = "PENDING", n.topreq = ERPS_REQ_INVALID, NEW id
  PROVE  Posted(n, 0, ERPS_REQ_RAPS_NR_RB, id).state = "IDLE"
<1> DEFINE req == ERPS_REQ_RAPS_NR_RB
<1>1. PICK x, m : /\ x \in Node /\ x.ok /\ x.state = n.state
                  /\ m = Dispatch(x, 0, req, id, NoFault) /\ m \in Node /\ m.ok
                  /\ Posted(n, 0, req, id) = Fresh(m)
  BY PostDispatched
<1>2. m = erps_fsm_post_pending(x, 0, req, id, NoFault)
  BY <1>1 DEF Dispatch
<1>3. m = erps_fsm_raps_nr_rb_pending(x, NoFault)
  BY <1>2 DEF erps_fsm_post_pending, ERPS_REQ_CLEAR, ERPS_REQ_FS, ERPS_REQ_RAPS_FS,
     ERPS_REQ_SF, ERPS_REQ_RAPS_SF, ERPS_REQ_RAPS_MS, ERPS_REQ_MS, ERPS_REQ_WTR_EXPIRES,
     ERPS_REQ_WTB_EXPIRES, ERPS_REQ_RAPS_NR_RB, ERPS_REQ_RAPS_NR
<1>4. PICK y \in Node : m = erps_fsm_transition(y, "IDLE")
  <2>1. x.role \in {"owner", "none", "nbr"} /\ 0 \in Port /\ Rpl \in Port
    BY <1>1 DEF Node, Role, Port, Rpl
  <2> QED
    BY <1>1, <1>3, <2>1, BlockType, UnblockType, UnblockTypes, SimpleTypes
    DEF erps_fsm_raps_nr_rb_pending
<1>5. m.state = "IDLE"
  BY <1>1, <1>4, TransitionTaken DEF State
<1> QED
  BY <1>1, <1>5, FreshAlike DEF Alike

(* A post keeps a node orderly, and only a signal fail that it hears of    *)
(* makes it wait in silence.                                               *)
LEMMA PostOrderly ==
  ASSUME NEW n, NEW role, Sound(n, role), Unswitched(n), Orderly(n),
         NEW l \in Port, NEW id,
         NEW req \in {ERPS_REQ_SF, ERPS_REQ_CLEAR_SF} \cup RemoteUnswitched,
         role = "owner" => req # ERPS_REQ_RAPS_NR_RB,
         req = ERPS_REQ_SF => l \notin n.up,
         NEW p, p = Posted(n, l, req, id)
  PROVE  /\ Orderly(p) /\ p.up = n.up
         /\ Awaits(p) => Awaits(n) \/ req = ERPS_REQ_RAPS_SF
         /\ req = ERPS_REQ_CLEAR_SF => p.state # "PROTECTION" /\ l \notin p.linkDown
<1>0. n \in Node /\ n.role = role
  BY DEF Sound
<1>1. PICK x, m : /\ p \in Node /\ Alike(p, m) /\ AlikeElse(p, m)
                  /\ Ready(x, n, l, req)
                  /\ m.id = n.id /\ m.role = n.role /\ (n.guard => m.guard)
                  /\ \/ m = x /\ (~RequestAccepted(n, req) \/ req = ERPS_REQ_CLEAR_SF)
                     \/ RequestAccepted(n, req) /\ Effect(m, x, l, req)
  BY <1>0, PostAlike
<1>2. /\ n.state \in {"IDLE", "PROTECTION", "PENDING"}
      /\ n.topreq \in {ERPS_REQ_SF, ERPS_REQ_INVALID} \cup TimerRunning
      /\ n.topreq = ERPS_REQ_SF => Failing(n)
      /\ n.state = "PROTECTION" => n.topreq \in {ERPS_REQ_SF, ERPS_REQ_INVALID}
  BY <1>0, OrderlyTop DEF Unswitched
<1>3. /\ req \notin TimerRunning \cup Expiries /\ req # ERPS_REQ_CLEAR
      /\ req \in LocalRequest <=> req = ERPS_REQ_SF
      /\ req \in Local <=> req = ERPS_REQ_SF
      /\ ERPS_REQ_CLEAR \notin {ERPS_REQ_SF, ERPS_REQ_INVALID} \cup TimerRunning
      /\ ERPS_REQ_SF \notin {ERPS_REQ_INVALID} \cup TimerRunning
      /\ req # ERPS_REQ_SF => req \in {ERPS_REQ_CLEAR_SF} \cup RemoteUnswitched
  BY DEF TimerRunning, Local, LocalRequest, RemoteUnswitched, Expiries, ERPS_REQ_INVALID,
         ERPS_REQ_WTR_RUNNING, ERPS_REQ_WTB_RUNNING, ERPS_REQ_FS, ERPS_REQ_SF, ERPS_REQ_MS,
         ERPS_REQ_CLEAR, ERPS_REQ_CLEAR_SF, ERPS_REQ_RAPS_SF, ERPS_REQ_RAPS_NR_RB,
         ERPS_REQ_RAPS_NR, ERPS_REQ_WTR_EXPIRES, ERPS_REQ_WTB_EXPIRES
<1>4. /\ x.role = n.role /\ x.up = n.up /\ x.state = n.state /\ x.pdu = n.pdu /\ x.tx = n.tx
      /\ (x.revertive <=> n.revertive) /\ (x.wtr <=> n.wtr) /\ (x.wtb <=> n.wtb)
      /\ x.linkDown \subseteq n.linkDown
      /\ req = ERPS_REQ_CLEAR_SF => l \notin x.linkDown
      /\ x.topreq = IF RequestAccepted(n, req)
                    THEN IF req \in LocalRequest THEN req ELSE ERPS_REQ_INVALID
                    ELSE n.topreq
  BY <1>1 DEF Ready
<1>5. /\ p.role = m.role /\ p.state = m.state /\ p.topreq = m.topreq /\ p.pdu = m.pdu
      /\ p.tx = m.tx /\ p.up = m.up /\ p.linkDown = m.linkDown
      /\ (p.revertive <=> m.revertive) /\ (p.wtr <=> m.wtr) /\ (p.wtb <=> m.wtb)
  BY <1>1 DEF Alike, AlikeElse
<1>6. /\ p.role = n.role /\ p.up = n.up /\ p.linkDown \subseteq n.linkDown
      /\ (p.revertive <=> n.revertive)
      /\ req = ERPS_REQ_CLEAR_SF => l \notin p.linkDown
  BY <1>1, <1>4, <1>5 DEF Effect, Base
<1>7. TimerInv(p)
  <2> DEFINE z == Fresh(n)
             y == erps_fsm_post_locked(z, l, req, id, NoFault)
  <2>1. z \in Node
    BY <1>0, SimpleTypes
  <2>2. TimerInv(z) /\ z.ok
    BY <1>0, <2>1 DEF Orderly, Fresh, Node, TimerInv, RevertiveOwner,
                      erps_node_is_rpl_owner
  <2>3. y \in Node
    BY <2>1, PostTypes
  <2>4. p = Fresh(y)
    BY DEF Posted
  <2> HIDE DEF z
  <2>5. TimerInv(y)
    BY <1>3, <2>1, <2>2, PostKeepsTimers DEF Expiries
  <2> HIDE DEF y
  <2>6. Alike(p, y) /\ AlikeElse(p, y)
    BY <2>3, <2>4, FreshAlike
  <2> QED
    BY <2>5, <2>6 DEF Alike, AlikeElse, TimerInv, RevertiveOwner, erps_node_is_rpl_owner
<1>8. ASSUME req = ERPS_REQ_CLEAR_SF, p.state = "PROTECTION" PROVE FALSE
  <2>1. req \notin Local /\ req # ERPS_REQ_FS
        /\ req \notin {ERPS_REQ_RAPS_FS, ERPS_REQ_RAPS_SF, ERPS_REQ_RAPS_MS}
    BY <1>8 DEF Local, ERPS_REQ_FS, ERPS_REQ_SF, ERPS_REQ_MS, ERPS_REQ_CLEAR_SF,
       ERPS_REQ_RAPS_FS, ERPS_REQ_RAPS_SF, ERPS_REQ_RAPS_MS
  <2>2. ASSUME Effect(m, x, l, req) PROVE n.state = "PROTECTION"
    BY <1>4, <1>5, <1>8, <2>1, <2>2
    DEF Effect, Untouched, FollowsInIdle, CutsHere, CutsMore, OpensPorts, YieldsPorts,
        StartsWaiting, DropsOrder, EndsWaiting, EndsWithout, Same
  <2>3. n.state = "PROTECTION"
    BY <1>1, <1>4, <1>5, <1>8, <2>2
  <2> QED
    BY <1>0, <1>2, <1>8, <2>3, ProtectionEnds
<1>9. Effect(m, x, l, req) => m.topreq \in {x.topreq} \cup TimerRunning
  BY DEF Effect, Untouched, FollowsInIdle, CutsHere, CutsMore, OpensPorts, YieldsPorts,
     StartsWaiting, DropsOrder, EndsWaiting, EndsWithout, Same, SameTimers
<1>10. p.topreq # ERPS_REQ_CLEAR
  BY <1>1, <1>2, <1>3, <1>4, <1>5, <1>9
<1>11. ASSUME Failing(p) PROVE p.up # Port
  <2>1. CASE req = ERPS_REQ_SF
    BY <1>6, <2>1
  <2>2. CASE req # ERPS_REQ_SF
    <3>1. p.topreq = n.topreq /\ p.state = "PROTECTION" /\ ~RequestAccepted(n, req)
      BY <1>1, <1>3, <1>4, <1>5, <1>9, <1>11, <2>2 DEF Failing
    <3>2. Failing(n)
      BY <1>2, <1>11, <3>1 DEF Failing
    <3> QED
      BY <1>6, <3>2 DEF Orderly
  <2> QED
    BY <2>1, <2>2
<1>12. ASSUME Awaits(p) PROVE ~Speaks(p) /\ (Awaits(n) \/ req = ERPS_REQ_RAPS_SF)
  <2>1. CASE ~RequestAccepted(n, req)
    <3>1. Alike(p, n)
      BY <1>0, <2>1, PostRejected
    <3> QED
      BY <1>12, <3>1, AlikeSpeaks DEF Orderly
  <2>2. CASE req = ERPS_REQ_SF
    <3>1. Alike(p, n) \/ Failing(p)
      BY <1>0, <2>2, PostSignalFail
    <3>2. Alike(p, n)
      BY <1>12, <3>1 DEF Awaits
    <3> QED
      BY <1>12, <3>2, AlikeSpeaks DEF Orderly
  <2>3. CASE req \in RemoteUnswitched /\ RequestAccepted(n, req)
    <3>1. ~Failing(n)
      BY <2>3, FailingRejects
    <3>2. req \notin {ERPS_REQ_CLEAR_SF, ERPS_REQ_SF}
      BY <2>3 DEF RemoteUnswitched, ERPS_REQ_SF, ERPS_REQ_CLEAR_SF, ERPS_REQ_RAPS_SF,
         ERPS_REQ_RAPS_NR_RB, ERPS_REQ_RAPS_NR
    <3>3. Effect(m, x, l, req) /\ m.state = "PROTECTION"
      BY <1>1, <1>5, <1>12, <2>3, <3>2 DEF Awaits
    <3>4. \/ Untouched(m, x, req)
          \/ OpensPorts(m, x, req)
      BY <1>2, <1>3, <1>4, <3>2, <3>3
      DEF Effect, FollowsInIdle, CutsHere, CutsMore, YieldsPorts, StartsWaiting,
          DropsOrder, EndsWaiting, EndsWithout, Same, Local
    <3>5. CASE Untouched(m, x, req)
      BY <1>4, <1>5, <3>1, <3>3, <3>5 DEF Untouched, Same, SameAir, Awaits, Speaks, Orderly
    <3>6. CASE OpensPorts(m, x, req)
      BY <1>5, <2>3, <3>6 DEF OpensPorts, OpensOthers, Speaks, RemoteUnswitched,
         ERPS_REQ_RAPS_FS, ERPS_REQ_RAPS_SF, ERPS_REQ_RAPS_MS, ERPS_REQ_RAPS_NR_RB,
         ERPS_REQ_RAPS_NR
    <3> QED
      BY <3>4, <3>5, <3>6
  <2>4. CASE req = ERPS_REQ_CLEAR_SF
    BY <1>8, <1>12, <2>4 DEF Awaits
  <2> QED
    BY <2>1, <2>2, <2>3, <2>4
<1>13. ASSUME RevertiveOwner(p), p.state = "PENDING" PROVE p.wtr \/ p.wtb
  <2>1. RevertiveOwner(n) /\ RevertiveOwner(x) /\ req # ERPS_REQ_RAPS_NR_RB
    BY <1>0, <1>4, <1>6, <1>13 DEF RevertiveOwner, erps_node_is_rpl_owner
  <2>2. n.state = "PENDING" => n.wtr \/ n.wtb
    BY <2>1 DEF Orderly
  <2>3. CASE m = x
    BY <1>4, <1>5, <1>13, <2>2, <2>3
  <2>4. CASE Effect(m, x, l, req)
    <3>1. \/ Untouched(m, x, req) \/ YieldsPorts(m, x, req) \/ StartsWaiting(m, x, req)
      BY <1>2, <1>3, <1>4, <1>5, <1>13, <2>4
      DEF Effect, FollowsInIdle, CutsHere, CutsMore, OpensPorts, DropsOrder, EndsWaiting,
          EndsWithout, Same, SwitchState, Local
    <3>2. CASE Untouched(m, x, req) \/ YieldsPorts(m, x, req)
      BY <1>4, <1>5, <1>13, <2>2, <3>2 DEF Untouched, YieldsPorts, Same, SameTimers
    <3>3. CASE StartsWaiting(m, x, req)
      BY <1>3, <1>5, <2>1, <3>3 DEF StartsWaiting
    <3> QED
      BY <3>1, <3>2, <3>3
  <2> QED
    BY <1>1, <2>3, <2>4
<1>14. ASSUME p.role = "owner", p.state = "IDLE"
       PROVE  p.up \subseteq p.tx /\ "RB" \in p.pdu.status
  <2>1. n.role = "owner" /\ req # ERPS_REQ_RAPS_NR_RB /\ HasRpl(x)
    BY <1>0, <1>4, <1>6, <1>14 DEF HasRpl
  <2>2. n.state = "IDLE" => n.up \subseteq n.tx /\ "RB" \in n.pdu.status
    BY <2>1 DEF Orderly
  <2>3. CASE m = x
    BY <1>4, <1>5, <1>14, <2>2, <2>3
  <2>4. CASE Effect(m, x, l, req)
    <3>1. Untouched(m, x, req)
      BY <1>3, <1>4, <1>5, <1>14, <2>1, <2>4
      DEF Effect, FollowsInIdle, CutsHere, CutsMore, OpensPorts, YieldsPorts,
          StartsWaiting, DropsOrder, EndsWaiting, EndsWithout, Same, SwitchState, Local
    <3> QED
      BY <1>4, <1>5, <1>6, <1>14, <2>2, <3>1 DEF Untouched, Same, SameAir, SamePdu
  <2> QED
    BY <1>1, <2>3, <2>4
<1>15. p.linkDown \cap p.up = {} /\ (p.revertive <=> Revertive)
  BY <1>6 DEF Orderly
<1>16. Orderly(p)
  BY <1>7, <1>10, <1>11, <1>12, <1>13, <1>14, <1>15 DEF Orderly
<1> QED
  BY <1>6, <1>8, <1>12, <1>16

(* A timer that expires takes the owner out of PENDING, or leaves it to    *)
(* the other one.                                                          *)
LEMMA ExpiryOrderly ==
  ASSUME NEW n, NEW role, Sound(n, role), Unswitched(n), Orderly(n), NEW req, NEW y,
         \/ req = ERPS_REQ_WTR_EXPIRES /\ n.wtr /\ y = [n EXCEPT !.wtr = FALSE]
         \/ req = ERPS_REQ_WTB_EXPIRES /\ n.wtb /\ y = [n EXCEPT !.wtb = FALSE],
         NEW p, p = Posted(y, 0, req, 0)
  PROVE  p \in Node /\ n.role = "owner" /\ Orderly(p) /\ ~Awaits(p)
<1>0. n \in Node /\ 0 \in Port
  BY DEF Sound, Port
<1>1. /\ n.state = "PENDING" /\ n.role = "owner" /\ n.revertive
      /\ n.topreq \in {ERPS_REQ_INVALID} \cup TimerRunning
  <2>1. n.state = "PENDING" /\ RevertiveOwner(n)
    BY DEF Orderly, TimerInv
  <2> QED
    BY <1>0, <2>1, OrderlyTop DEF RevertiveOwner, erps_node_is_rpl_owner, Failing
<1>2. /\ y \in Node /\ y.role = n.role /\ y.state = n.state /\ y.topreq = n.topreq
      /\ y.up = n.up /\ y.linkDown = n.linkDown /\ (y.revertive <=> n.revertive)
      /\ req = ERPS_REQ_WTB_EXPIRES => (y.wtr <=> n.wtr)
  <2>1. CASE req = ERPS_REQ_WTR_EXPIRES /\ y = [n EXCEPT !.wtr = FALSE]
    <3>1. req # ERPS_REQ_WTB_EXPIRES
      BY <2>1 DEF ERPS_REQ_WTR_EXPIRES, ERPS_REQ_WTB_EXPIRES
    <3> QED
      BY <1>0, <2>1, <3>1 DEF Node
  <2>2. CASE y = [n EXCEPT !.wtb = FALSE]
    BY <1>0, <2>2 DEF Node
  <2> QED
    BY <2>1, <2>2
<1>3. /\ req \in Expiries /\ req \notin LocalRequest /\ req # ERPS_REQ_CLEAR_SF
      /\ ERPS_REQ_CLEAR \notin {ERPS_REQ_INVALID} \cup TimerRunning
      /\ ERPS_REQ_SF \notin {ERPS_REQ_INVALID} \cup TimerRunning
  BY DEF Expiries, LocalRequest, TimerRunning, ERPS_REQ_INVALID, ERPS_REQ_CLEAR,
     ERPS_REQ_SF, ERPS_REQ_FS, ERPS_REQ_MS, ERPS_REQ_CLEAR_SF, ERPS_REQ_WTR_EXPIRES,
     ERPS_REQ_WTB_EXPIRES, ERPS_REQ_WTR_RUNNING, ERPS_REQ_WTB_RUNNING
<1>4. PICK x, m : /\ p \in Node /\ Alike(p, m) /\ AlikeElse(p, m) /\ Ready(x, y, 0, req)
                  /\ \/ m = x /\ ~RequestAccepted(y, req)
                     \/ RequestAccepted(y, req) /\ Effect(m, x, 0, req)
  BY <1>0, <1>2, <1>3, PostAlike
<1>5. TimerInv(p)
  <2> DEFINE k == erps_fsm_post_locked(Fresh(y), 0, req, 0, NoFault)
  <2>1. TimerInv(k)
    BY <1>0, ExpiryKeepsTimers DEF Orderly
  <2>2. k \in Node /\ p = Fresh(k)
    BY <1>0, <1>2, SimpleTypes, PostTypes DEF Posted
  <2> HIDE DEF k
  <2>3. Alike(p, k) /\ AlikeElse(p, k)
    BY <2>2, FreshAlike
  <2> QED
    BY <2>1, <2>3 DEF Alike, AlikeElse, TimerInv, RevertiveOwner, erps_node_is_rpl_owner
<1>6. /\ p.role = "owner" /\ p.up = n.up /\ p.linkDown \subseteq n.linkDown
      /\ (p.revertive <=> Revertive)
  BY <1>1, <1>2, <1>4 DEF Alike, AlikeElse, Ready, Effect, Base, Orderly
<1>7. /\ x.state = "PENDING" /\ x.role = "owner" /\ (x.wtr <=> y.wtr) /\ x.up = n.up
      /\ x.topreq = IF RequestAccepted(y, req) THEN ERPS_REQ_INVALID ELSE n.topreq
  BY <1>1, <1>2, <1>3, <1>4 DEF Ready
<1>8. n.linkDown \cap n.up = {}
  BY DEF Orderly
<1>9. CASE ~RequestAccepted(y, req)
  <2>1. req = ERPS_REQ_WTB_EXPIRES /\ n.topreq = ERPS_REQ_WTR_RUNNING
    BY <1>1, <1>2, <1>3, <1>9
    DEF RequestAccepted, TimerRunning, Expiries, ERPS_REQ_INVALID, ERPS_REQ_CLEAR,
        ERPS_REQ_WTR_EXPIRES, ERPS_REQ_WTB_EXPIRES, ERPS_REQ_WTR_RUNNING,
        ERPS_REQ_WTB_RUNNING
  <2>2. y.wtr
    BY <1>2, <2>1 DEF Orderly, TimerInv
  <2>3. p.wtr /\ p.state = "PENDING" /\ p.topreq = n.topreq
    BY <1>4, <1>7, <1>9, <2>2 DEF Alike, AlikeElse
  <2> QED
    BY <1>1, <1>3, <1>4, <1>5, <1>6, <1>8, <2>3 DEF Orderly, Awaits, Failing
<1>10. CASE RequestAccepted(y, req)
  <2>1. EndsWaiting(m, x, req)
    <3>1. /\ erps_node_is_rpl_owner(x)
          /\ req \notin {ERPS_REQ_CLEAR, ERPS_REQ_FS, ERPS_REQ_RAPS_FS, ERPS_REQ_RAPS_SF,
                         ERPS_REQ_RAPS_MS, ERPS_REQ_RAPS_NR, ERPS_REQ_RAPS_NR_RB}
          /\ req \notin Local
      BY <1>3, <1>7
      DEF erps_node_is_rpl_owner, Expiries, Local, ERPS_REQ_CLEAR, ERPS_REQ_FS,
          ERPS_REQ_SF, ERPS_REQ_MS, ERPS_REQ_RAPS_FS, ERPS_REQ_RAPS_SF, ERPS_REQ_RAPS_MS,
          ERPS_REQ_RAPS_NR, ERPS_REQ_RAPS_NR_RB, ERPS_REQ_WTR_EXPIRES,
          ERPS_REQ_WTB_EXPIRES
    <3> QED
      BY <1>3, <1>4, <1>7, <1>10, <3>1
      DEF Effect, Untouched, FollowsInIdle, CutsHere, CutsMore, OpensPorts, YieldsPorts,
          StartsWaiting, DropsOrder, EndsWithout
  <2>2. /\ p.state = "IDLE" /\ p.topreq = ERPS_REQ_INVALID /\ p.tx = p.up
        /\ "RB" \in p.pdu.status
    BY <1>4, <1>6, <1>7, <1>10, <2>1 DEF EndsWaiting, Alike
  <2> QED
    BY <1>1, <1>3, <1>4, <1>5, <1>6, <1>8, <2>2 DEF Orderly, Awaits, Failing
<1> QED
  BY <1>9, <1>10

(* A PDU stays answered when node i becomes n, if n still replies to it    *)
(* and speaks, or there is another to take its place.                      *)
LEMMA AnsweredKept ==
  ASSUME NEW ns, ns \in [Ring -> Node], NEW i \in Ring, NEW n \in Node,
         n.id = ns[i].id, NEW m, m.id \in Nat, Answered(ns, m),
         NEW k, NEW starts, Grown(k, m, i, starts),
         NEW new, new = [ns EXCEPT ![i] = n],
         Replies(ns, i, m) => Replies(new, i, k),
         \/ Speaks(ns[i]) => Speaks(n)
         \/ \E s \in Ring \ {i} : Speaks(ns[s]) /\ ns[i].id <= ns[s].id
  PROVE  Answered(new, k)
<1>1. new[i] = n /\ \A j \in Ring \ {i} : new[j] = ns[j]
  OBVIOUS
<1>2. k.req = m.req /\ k.id = m.id /\ m.before \subseteq k.before
  BY DEF Grown
<1>3. CASE \E s \in Ring : Replies(ns, s, m)
  BY <1>1, <1>2, <1>3 DEF Answered, Replies
<1>4. CASE m.req = ERPS_REQ_RAPS_NR /\ \E j \in Ring : Speaks(ns[j]) /\ m.id <= ns[j].id
  <2>1. PICK j \in Ring : Speaks(ns[j]) /\ m.id <= ns[j].id
    BY <1>4
  <2>2. CASE j # i \/ Speaks(n)
    <3>1. Speaks(new[j]) /\ k.id <= new[j].id
      BY <1>1, <1>2, <2>1, <2>2
    <3> QED
      BY <1>2, <1>4, <3>1 DEF Answered
  <2>3. CASE j = i /\ ~Speaks(n)
    <3>1. PICK s \in Ring \ {i} : Speaks(ns[s]) /\ ns[i].id <= ns[s].id
      BY <2>1, <2>3
    <3>2. m.id <= ns[s].id
      <4>1. ns[i].id \in Nat /\ ns[s].id \in Nat
        BY DEF Node
      <4> QED
        BY <2>1, <2>3, <3>1, <4>1
    <3> QED
      BY <1>1, <1>2, <1>4, <3>1, <3>2 DEF Answered
  <2> QED
    BY <2>2, <2>3
<1> QED
  BY <1>3, <1>4 DEF Answered

(* What a change at one node has to do to keep the owner told.             *)
LEMMA UpdateHeal ==
  ASSUME RingInv, HealRing, NEW i \in Ring, NEW n \in Node, NEW starts,
         Update(i, n, starts), Orderly(n), Told',
         \A m, k : /\ m \in flight /\ Grown(k, m, i, starts)
                   /\ m.req = ERPS_REQ_RAPS_SF \/ Awaits(nodes'[0])
                   => Answered(nodes', k)
  PROVE  HealRing'
<1>1. nodes' = [nodes EXCEPT ![i] = n] /\ flight' = Outlasted(flight, i, starts)
  BY DEF Update
<1>2. \A k \in flight' : \E m \in flight : Grown(k, m, i, starts)
  BY <1>1, OutlastedGrown DEF RingInv
<1>3. nodes'[i] = n /\ \A j \in Ring \ {i} : nodes'[j] = nodes[j]
  BY <1>1 DEF RingInv
<1>4. \A j \in Ring : Orderly(nodes'[j])
  BY <1>3 DEF HealRing
<1>5. ASSUME NEW k \in flight', k.req = ERPS_REQ_RAPS_SF \/ Awaits(nodes'[0])
      PROVE  Answered(nodes', k)
  BY <1>2, <1>5 DEF Grown
<1> QED
  BY <1>4, <1>5 DEF HealRing

(* What a node becomes that hears another, or drops what it hears.         *)
LEMMA ReceivedOrderly ==
  ASSUME RingInv, UnswitchedRing, HealRing, NEW r \in Ring, NEW id,
         NEW req \in RemoteUnswitched, r = 0 => req # ERPS_REQ_RAPS_NR_RB,
         NEW n, n = Received(r, req, id)
  PROVE  /\ n \in Node /\ n.id = nodes[r].id /\ Orderly(n)
         /\ Awaits(n) => Awaits(nodes[r]) \/ req = ERPS_REQ_RAPS_SF
         /\ \A m : Replies(nodes, r, m)
                   => Failing(n) \/ (n.guard /\ r \in m.before /\ Speaks(n))
         /\ req = ERPS_REQ_RAPS_NR /\ id <= nodes[r].id /\ Speaks(nodes[r]) => Speaks(n)
<1> DEFINE old == nodes[r]
<1>1. /\ old \in Node /\ Sound(old, RoleOf(r)) /\ Unswitched(old) /\ Orderly(old)
      /\ 0 \in Port /\ (RoleOf(r) = "owner" => req # ERPS_REQ_RAPS_NR_RB)
  BY Roles DEF RingInv, UnswitchedRing, HealRing, Port
<1>2. n = IF old.guard THEN old ELSE Posted(old, 0, req, id)
  BY DEF Received
<1>3. req \notin {ERPS_REQ_SF, ERPS_REQ_CLEAR_SF}
  BY DEF RemoteUnswitched, ERPS_REQ_SF, ERPS_REQ_CLEAR_SF, ERPS_REQ_RAPS_SF,
     ERPS_REQ_RAPS_NR_RB, ERPS_REQ_RAPS_NR
<1>4. old = nodes[r]
  OBVIOUS
<1> HIDE DEF old
<1>5. CASE old.guard
  BY <1>1, <1>2, <1>4, <1>5 DEF Replies
<1>6. CASE ~old.guard
  <2>1. n = Posted(old, 0, req, id)
    BY <1>2, <1>6
  <2>2. n \in Node /\ n.id = old.id
    BY <1>1, <2>1, PostBlocks
  <2>3. Orderly(n) /\ (Awaits(n) => Awaits(old) \/ req = ERPS_REQ_RAPS_SF)
    BY <1>1, <1>3, <2>1, PostOrderly
  <2>4. ASSUME Failing(old) PROVE Alike(n, old)
    BY <1>1, <2>1, <2>4, FailingRejects, PostRejected
  <2>5. Failing(old) => Failing(n)
    BY <2>4, AlikeHolds
  <2>6. ASSUME req = ERPS_REQ_RAPS_NR, id <= old.id, Speaks(old) PROVE Speaks(n)
    <3>1. CASE Failing(old)
      BY <2>4, <2>6, <3>1, AlikeSpeaks
    <3>2. CASE ~Failing(old)
      <4>1. old.state \in {"IDLE", "PENDING"}
        BY <1>1, <2>6, <3>2 DEF Orderly, Awaits, Unswitched
      <4>2. n.tx = old.tx
        BY <1>1, <2>1, <2>6, <4>1, PostNoRequest
      <4> QED
        BY <2>6, <4>2 DEF Speaks
    <3> QED
      BY <3>1, <3>2
  <2> QED
    BY <1>4, <1>6, <2>2, <2>3, <2>5, <2>6 DEF Replies
<1> QED
  BY <1>5, <1>6

(* A signal fail: the node has it from now on, or nothing changes.         *)
LEMMA SignalFailHeal ==
  ASSUME RingInv, UnswitchedRing, HealRing, NEW i \in Ring, NEW l \in Port,
         NEW y, Sound(y, RoleOf(i)), Alike(y, nodes[i]), Orderly(y), l \notin y.up,
         Post(i, y, l, ERPS_REQ_SF)
  PROVE  HealRing'
<1> DEFINE n == Posted(y, l, ERPS_REQ_SF, 0)
           starts == StartsGuard(y, l, ERPS_REQ_SF)
<1>1. Update(i, n, starts)
  BY DEF Post
<1>2. /\ nodes \in [Ring -> Node] /\ y \in Node /\ Unswitched(y)
      /\ ERPS_REQ_SF # ERPS_REQ_RAPS_NR_RB
  BY AlikeHolds DEF RingInv, Sound, UnswitchedRing, ERPS_REQ_SF, ERPS_REQ_RAPS_NR_RB
<1>3. n \in Node /\ n.id = y.id /\ (y.guard => n.guard)
  BY PostBlocks
<1>4. Orderly(n)
  BY <1>2, PostOrderly
<1>5. Alike(n, nodes[i]) \/ Failing(n)
  <2>1. Alike(n, y) \/ Failing(n)
    BY <1>2, PostSignalFail
  <2> QED
    BY <2>1 DEF Alike
<1> HIDE DEF n, starts
<1>6. nodes' = [nodes EXCEPT ![i] = n] /\ n.id = nodes[i].id
  BY <1>1, <1>3 DEF Update, Alike
<1>7. CASE Failing(n)
  <2>1. Told' /\ \A k : Answered(nodes', k)
    BY <1>2, <1>6, <1>7 DEF Told, Answered, Replies
  <2> QED
    BY <1>1, <1>3, <1>4, <2>1, UpdateHeal
<1>8. CASE Alike(n, nodes[i])
  <2>1. /\ Failing(n) <=> Failing(nodes[i])
        /\ Speaks(n) <=> Speaks(nodes[i])
        /\ Awaits(n) <=> Awaits(nodes[i])
        /\ nodes[i].guard => n.guard
    BY <1>8, AlikeHolds, AlikeSpeaks DEF Alike
  <2>2. Told' /\ (Awaits(nodes'[0]) => Awaits(nodes[0]))
    BY <1>2, <1>6, <2>1, Roles DEF HealRing, Told
  <2>3. ASSUME NEW m \in flight, NEW k, Grown(k, m, i, starts),
               m.req = ERPS_REQ_RAPS_SF \/ Awaits(nodes'[0])
        PROVE  Answered(nodes', k)
    <3>1. Answered(nodes, m) /\ m.id \in Nat
      BY <2>2, <2>3 DEF HealRing, RingInv, Unrivalled
    <3>2. Replies(nodes, i, m) => Replies(nodes', i, k)
      BY <1>2, <1>6, <2>1, <2>3 DEF Replies, Grown
    <3> QED
      BY <1>2, <1>3, <1>6, <2>1, <2>3, <3>1, <3>2, AnsweredKept
  <2> QED
    BY <1>1, <1>3, <1>4, <2>2, <2>3, UpdateHeal
<1> QED
  BY <1>5, <1>7, <1>8

(* The long timers find no PDU that is late, and are the owner's.          *)
LEMMA ExpiryHeal ==
  ASSUME RingInv, UnswitchedRing, HealRing, NEW i \in Ring, flight = {}, NEW req, NEW y,
         \/ /\ req = ERPS_REQ_WTR_EXPIRES /\ nodes[i].wtr
            /\ y = [nodes[i] EXCEPT !.wtr = FALSE]
         \/ /\ req = ERPS_REQ_WTB_EXPIRES /\ nodes[i].wtb
            /\ y = [nodes[i] EXCEPT !.wtb = FALSE],
         Post(i, y, 0, req)
  PROVE  HealRing'
<1> DEFINE n == Posted(y, 0, req, 0)
           starts == StartsGuard(y, 0, req)
<1>1. Update(i, n, starts)
  BY DEF Post
<1>2. /\ nodes \in [Ring -> Node] /\ Sound(nodes[i], RoleOf(i)) /\ Unswitched(nodes[i])
      /\ Orderly(nodes[i])
  BY DEF RingInv, UnswitchedRing, HealRing
<1>3. n \in Node /\ nodes[i].role = "owner" /\ Orderly(n) /\ ~Awaits(n)
  BY <1>2, ExpiryOrderly
<1> HIDE DEF n, starts
<1>4. i = 0
  BY <1>2, <1>3, Roles DEF Sound
<1>5. nodes'[0] = n
  BY <1>1, <1>2, <1>4 DEF Update
<1>6. Told'
  BY <1>3, <1>5 DEF Told
<1> QED
  BY <1>1, <1>3, <1>6, UpdateHeal

(* The end of a signal fail is said aloud, by a guard timer that outlasts  *)
(* what is late.                                                           *)
LEMMA ClearHeal ==
  ASSUME RingInv, UnswitchedRing, HealRing, NEW i \in Ring, NEW l \in Port,
         ClearSignalFail(i, l)
  PROVE  HealRing'
<1> DEFINE req == ERPS_REQ_CLEAR_SF
           old == nodes[i]
           n == Posted(old, l, req, 0)
           q == [n EXCEPT !.up = @ \cup {l}, !.tx = @ \cup {l}]
           starts == StartsGuard(old, l, req)
<1>1. Update(i, q, starts)
  BY DEF ClearSignalFail
<1>2. /\ nodes \in [Ring -> Node] /\ old \in Node /\ Sound(old, RoleOf(i))
      /\ Unswitched(old) /\ Orderly(old)
      /\ req # ERPS_REQ_RAPS_NR_RB /\ req # ERPS_REQ_SF
  BY DEF RingInv, UnswitchedRing, HealRing, ERPS_REQ_CLEAR_SF, ERPS_REQ_RAPS_NR_RB,
         ERPS_REQ_SF
<1>3. n \in Node /\ n.id = old.id /\ (old.guard => n.guard)
  BY <1>2, PostBlocks
<1>4. Orderly(n) /\ n.state # "PROTECTION" /\ l \notin n.linkDown
  BY <1>2, PostOrderly
<1>5. Failing(old) => starts /\ n.guard
  <2> DEFINE z == [old EXCEPT !.guard = FALSE]
  <2>1. starts = Posted(z, l, req, 0).guard
    BY DEF StartsGuard
  <2>2. z \in Node /\ z.state = old.state /\ z.topreq = old.topreq
    BY <1>2 DEF Node
  <2> HIDE DEF z, req, old
  <2>3. Failing(old) => Failing(z)
    BY <2>2 DEF Failing
  <2> QED
    BY <1>2, <2>1, <2>2, <2>3, FailureEnds DEF req
<1> HIDE DEF n, starts
<1>6. /\ q \in Node /\ q.id = n.id /\ q.guard = n.guard /\ q.state = n.state
      /\ q.topreq = n.topreq /\ q.role = n.role /\ q.pdu = n.pdu
      /\ (q.revertive <=> n.revertive) /\ (q.wtr <=> n.wtr) /\ (q.wtb <=> n.wtb)
      /\ q.up = n.up \cup {l} /\ q.tx = n.tx \cup {l} /\ q.linkDown = n.linkDown
  <2> DEFINE up == n.up \cup {l}
             tx == n.tx \cup {l}
  <2>1. up \in SUBSET Port /\ tx \in SUBSET Port /\ q = [n EXCEPT !.up = up, !.tx = tx]
    BY <1>3 DEF Node
  <2> HIDE DEF up, tx, q
  <2>2. /\ q \in Node /\ q.id = n.id /\ q.guard = n.guard /\ q.state = n.state
        /\ q.topreq = n.topreq /\ q.role = n.role /\ q.pdu = n.pdu
        /\ (q.revertive <=> n.revertive) /\ (q.wtr <=> n.wtr) /\ (q.wtb <=> n.wtb)
        /\ q.up = up /\ q.tx = tx /\ q.linkDown = n.linkDown
    BY <1>3, <2>1 DEF Node
  <2> QED
    BY <2>2 DEF up, tx
<1> HIDE DEF q
<1>7. Speaks(q) /\ ~Awaits(q) /\ ~Failing(q)
  BY <1>4, <1>6 DEF Speaks, Awaits, Failing
<1>8. Orderly(q)
  BY <1>4, <1>6, <1>7
  DEF Orderly, TimerInv, RevertiveOwner, erps_node_is_rpl_owner
<1>9. nodes' = [nodes EXCEPT ![i] = q] /\ nodes'[i] = q
      /\ \A j \in Ring \ {i} : nodes'[j] = nodes[j]
  BY <1>1, <1>2 DEF Update
<1>10. Told' /\ (Awaits(nodes'[0]) => Awaits(nodes[0]))
  BY <1>7, <1>9, Roles DEF Told
<1>11. ASSUME NEW m \in flight, NEW k, Grown(k, m, i, starts),
              m.req = ERPS_REQ_RAPS_SF \/ Awaits(nodes'[0])
       PROVE  Answered(nodes', k)
  <2>1. Answered(nodes, m) /\ m.id \in Nat
    BY <1>10, <1>11 DEF HealRing, RingInv, Unrivalled
  <2>2. Replies(nodes, i, m) => Replies(nodes', i, k)
    BY <1>3, <1>5, <1>6, <1>7, <1>9, <1>11 DEF Replies, Grown
  <2> QED
    BY <1>2, <1>3, <1>6, <1>7, <1>9, <1>11, <2>1, <2>2, AnsweredKept
<1> QED
  BY <1>1, <1>6, <1>8, <1>10, <1>11, UpdateHeal

(* A guard timer expires when what it had to outlast has arrived.          *)
LEMMA GuardHeal ==
  ASSUME RingInv, UnswitchedRing, HealRing, NEW i \in Ring, GuardTimerExpires(i)
  PROVE  HealRing'
<1> DEFINE q == [nodes[i] EXCEPT !.guard = FALSE]
<1>1. Update(i, q, FALSE) /\ \A m \in flight : i \notin m.before
  BY DEF GuardTimerExpires
<1>2. nodes \in [Ring -> Node] /\ nodes[i] \in Node /\ Orderly(nodes[i])
  BY DEF RingInv, HealRing
<1>3. Orderly(q)
  BY <1>2, OrderlyFields DEF Port
<1>4. /\ q \in Node /\ q.id = nodes[i].id /\ q.state = nodes[i].state
      /\ q.topreq = nodes[i].topreq /\ q.tx = nodes[i].tx
  BY <1>2 DEF Node
<1> HIDE DEF q
<1>5. /\ Failing(q) <=> Failing(nodes[i])
      /\ Speaks(q) <=> Speaks(nodes[i])
      /\ Awaits(q) <=> Awaits(nodes[i])
  BY <1>4 DEF Failing, Speaks, Awaits
<1>6. nodes' = [nodes EXCEPT ![i] = q] /\ nodes'[i] = q
      /\ \A j \in Ring \ {i} : nodes'[j] = nodes[j]
  BY <1>1, <1>2 DEF Update
<1>7. Told' /\ (Awaits(nodes'[0]) => Awaits(nodes[0]))
  BY <1>5, <1>6, Roles DEF HealRing, Told
<1>8. ASSUME NEW m \in flight, NEW k, Grown(k, m, i, FALSE),
             m.req = ERPS_REQ_RAPS_SF \/ Awaits(nodes'[0])
      PROVE  Answered(nodes', k)
  <2>1. Answered(nodes, m) /\ m.id \in Nat
    BY <1>7, <1>8 DEF HealRing, RingInv, Unrivalled
  <2>2. Replies(nodes, i, m) => Replies(nodes', i, k)
    BY <1>1, <1>5, <1>6, <1>8 DEF Replies
  <2> QED
    BY <1>2, <1>4, <1>5, <1>6, <1>8, <2>1, <2>2, AnsweredKept
<1> QED
  BY <1>1, <1>3, <1>4, <1>7, <1>8, UpdateHeal

(* Who hears another knows that one speaks.                                *)
LEMMA ReceiveHeal ==
  ASSUME RingInv, UnswitchedRing, HealRing, NEW s \in Ring, NEW r \in Ring, Receive(s, r)
  PROVE  HealRing'
<1> DEFINE n == Heard(r, s)
           starts == Heard(r, s).guard /\ ~nodes[r].guard
           req == RapsRequest(nodes[s].pdu)
           id == nodes[s].id
<1>1. s # r /\ Hears(r, s) /\ Update(r, n, starts)
  BY DEF Receive
<1>2. /\ nodes \in [Ring -> Node] /\ nodes[s] \in Node /\ nodes[r] \in Node
      /\ Orderly(nodes[s]) /\ Speaks(nodes[s])
  BY <1>1 DEF RingInv, HealRing, Hears, Sends, Speaks
<1>3. n = Received(r, req, id)
  BY DEF Heard
<1>4. /\ req \in RemoteUnswitched /\ (req = ERPS_REQ_RAPS_SF => Failing(nodes[s]))
      /\ req = ERPS_REQ_RAPS_NR_RB => s = 0
  BY Said
<1> HIDE DEF n, starts, req
<1>5. r = 0 => req # ERPS_REQ_RAPS_NR_RB
  BY <1>1, <1>4
<1>6. /\ n \in Node /\ n.id = nodes[r].id /\ Orderly(n)
      /\ Awaits(n) => Awaits(nodes[r]) \/ req = ERPS_REQ_RAPS_SF
      /\ \A m : Replies(nodes, r, m)
                => Failing(n) \/ (n.guard /\ r \in m.before /\ Speaks(n))
      /\ req = ERPS_REQ_RAPS_NR /\ id <= nodes[r].id /\ Speaks(nodes[r]) => Speaks(n)
  BY <1>3, <1>4, <1>5, ReceivedOrderly
<1>7. nodes' = [nodes EXCEPT ![r] = n] /\ nodes'[r] = n
      /\ \A j \in Ring \ {r} : nodes'[j] = nodes[j]
  BY <1>1, <1>2 DEF Update
<1>8. Told'
  BY <1>1, <1>2, <1>7 DEF Told
<1>9. ASSUME NEW m \in flight, NEW k, Grown(k, m, r, starts),
             m.req = ERPS_REQ_RAPS_SF \/ Awaits(nodes'[0])
      PROVE  Answered(nodes', k)
  <2>1. m.id \in Nat
    BY DEF RingInv, Unrivalled
  <2>2. Replies(nodes, r, m) => Replies(nodes', r, k)
    BY <1>6, <1>7, <1>9 DEF Replies, Grown
  <2>3. CASE req = ERPS_REQ_RAPS_SF
    BY <1>1, <1>4, <1>7, <2>3 DEF Answered, Replies
  <2>4. CASE req = ERPS_REQ_RAPS_NR_RB
    <3>1. ~Awaits(nodes'[0])
      BY <1>1, <1>2, <1>4, <1>7, <2>4 DEF Orderly
    <3>2. m.req = ERPS_REQ_RAPS_SF /\ Answered(nodes, m)
      BY <1>9, <3>1 DEF HealRing
    <3>3. PICK j \in Ring : Replies(nodes, j, m)
      BY <3>2 DEF Answered, ERPS_REQ_RAPS_SF, ERPS_REQ_RAPS_NR
    <3>4. Replies(nodes', j, k)
      BY <1>7, <1>9, <2>2, <3>3 DEF Replies, Grown
    <3> QED
      BY <3>4 DEF Answered
  <2>5. CASE req = ERPS_REQ_RAPS_NR
    <3>1. Awaits(nodes'[0]) => Awaits(nodes[0])
      BY <1>6, <1>7, <2>5, Roles DEF ERPS_REQ_RAPS_SF, ERPS_REQ_RAPS_NR
    <3>2. Answered(nodes, m)
      BY <1>9, <3>1 DEF HealRing
    <3>3. \/ Speaks(nodes[r]) => Speaks(n)
          \/ \E j \in Ring \ {r} : Speaks(nodes[j]) /\ nodes[r].id <= nodes[j].id
      <4>1. CASE id <= nodes[r].id
        BY <1>6, <2>5, <4>1
      <4>2. CASE ~(id <= nodes[r].id)
        <5>1. nodes[r].id <= nodes[s].id
          BY <1>2, <4>2 DEF Node
        <5> QED
          BY <1>1, <1>2, <5>1
      <4> QED
        BY <4>1, <4>2
    <3> QED
      BY <1>2, <1>6, <1>7, <1>9, <2>1, <2>2, <3>2, <3>3, AnsweredKept
  <2> QED
    BY <1>4, <2>3, <2>4, <2>5 DEF RemoteUnswitched
<1> QED
  BY <1>1, <1>6, <1>8, <1>9, UpdateHeal

(* A PDU that is delayed is answered by its sender.                        *)
LEMMA DelayHeal ==
  ASSUME RingInv, UnswitchedRing, HealRing, flight = {},
         NEW s \in Ring, NEW r \in Ring, Delay(s, r)
  PROVE  HealRing'
<1> DEFINE req == RapsRequest(nodes[s].pdu)
           late == [to |-> r, req |-> req, id |-> nodes[s].id, before |-> {}]
<1>1. nodes' = nodes /\ flight' = {late} /\ Hears(r, s)
  BY DEF Delay
<1>2. nodes[s] \in Node /\ Orderly(nodes[s]) /\ Speaks(nodes[s])
  BY <1>1 DEF RingInv, HealRing, Hears, Sends, Speaks
<1>3. /\ req \in RemoteUnswitched /\ (req = ERPS_REQ_RAPS_SF => Failing(nodes[s]))
      /\ req = ERPS_REQ_RAPS_NR_RB => s = 0
  BY Said
<1>4. late.req = req /\ late.id = nodes[s].id
  OBVIOUS
<1> HIDE DEF late, req
<1>5. ASSUME req = ERPS_REQ_RAPS_SF \/ Awaits(nodes[0]) PROVE Answered(nodes, late)
  <2>1. CASE req = ERPS_REQ_RAPS_SF
    BY <1>3, <2>1 DEF Answered, Replies
  <2>2. CASE req = ERPS_REQ_RAPS_NR_RB
    BY <1>2, <1>3, <1>5, <2>2
    DEF Orderly, ERPS_REQ_RAPS_SF, ERPS_REQ_RAPS_NR_RB
  <2>3. CASE req = ERPS_REQ_RAPS_NR
    <3>1. nodes[s].id <= nodes[s].id
      BY <1>2 DEF Node
    <3> QED
      BY <1>2, <1>4, <2>3, <3>1 DEF Answered
  <2> QED
    BY <1>3, <2>1, <2>2, <2>3 DEF RemoteUnswitched
<1> QED
  BY <1>1, <1>4, <1>5 DEF HealRing, Told

(* When a PDU arrives that is late, what answers it is left.               *)
LEMMA ArriveHeal ==
  ASSUME RingInv, UnswitchedRing, HealRing, NEW m \in flight, flight = {m}, Arrive(m)
  PROVE  HealRing'
<1> DEFINE r == m.to
           n == Received(r, m.req, m.id)
<1>1. nodes' = [nodes EXCEPT ![r] = n] /\ flight' = {}
  <2>1. flight \ {m} = {}
    OBVIOUS
  <2> QED
    BY <2>1 DEF Arrive, Outlasted
<1>2. /\ r \in Ring /\ m.req \in RemoteUnswitched /\ nodes \in [Ring -> Node]
      /\ r = 0 => m.req # ERPS_REQ_RAPS_NR_RB
  BY DEF RingInv, Unrivalled, UnswitchedRing
<1> HIDE DEF r, n
<1>3. /\ n \in Node /\ n.id = nodes[r].id /\ Orderly(n)
      /\ Awaits(n) => Awaits(nodes[r]) \/ m.req = ERPS_REQ_RAPS_SF
      /\ Replies(nodes, r, m) => Failing(n) \/ Speaks(n)
      /\ m.req = ERPS_REQ_RAPS_NR /\ m.id <= nodes[r].id /\ Speaks(nodes[r]) => Speaks(n)
  BY <1>2, ReceivedOrderly DEF n
<1>4. nodes'[r] = n /\ \A j \in Ring \ {r} : nodes'[j] = nodes[j]
  BY <1>1, <1>2
<1>5. ASSUME Awaits(nodes'[0]) PROVE \E s \in Ring : Failing(nodes'[s]) \/ Speaks(nodes'[s])
  <2>1. Awaits(nodes[0]) \/ m.req = ERPS_REQ_RAPS_SF
    BY <1>3, <1>4, <1>5, Roles
  <2>2. Answered(nodes, m)
    BY <2>1 DEF HealRing
  <2>3. ASSUME NEW s \in Ring, Replies(nodes, s, m)
        PROVE  Failing(nodes'[s]) \/ Speaks(nodes'[s])
    BY <1>3, <1>4, <2>3 DEF Replies
  <2>4. ASSUME m.req = ERPS_REQ_RAPS_NR, NEW s \in Ring,
               Speaks(nodes[s]), m.id <= nodes[s].id
        PROVE  Speaks(nodes'[s])
    BY <1>3, <1>4, <2>4
  <2> QED
    BY <2>2, <2>3, <2>4 DEF Answered
<1> QED
  BY <1>1, <1>3, <1>4, <1>5 DEF HealRing, Told

(* As long as no command is given, the owner waits for no one in vain.     *)
LEMMA HealKeeps ==
  RingInv /\ CutInv /\ HealInv /\ [Next]_vars /\ ~overlap' => HealInv'
<1> SUFFICES ASSUME RingInv, CutInv, HealInv, [Next]_vars, ~overlap' PROVE HealInv'
  OBVIOUS
<1>0. /\ nodes \in [Ring -> Node] /\ 0 \in Port /\ commands \in Nat
      /\ \A i \in Ring : nodes[i] \in Node /\ Sound(nodes[i], RoleOf(i))
      /\ commands = 0 => UnswitchedRing /\ HealRing
  BY DEF RingInv, Port, CutInv, FewLate, HealInv
<1>1. ASSUME NEW c \in Commands, NEW l \in Port, Command(c[1], l, c[2]) PROVE HealInv'
  BY <1>0, <1>1 DEF Command, HealInv
<1>2. ASSUME NEW k \in Ring, LinkChanges(k) PROVE HealInv'
  BY <1>2 DEF LinkChanges, HealInv, HealRing, Told
<1>3. ASSUME NEW i \in Ring, NEW p \in Port, SignalFail(i, p) PROVE HealInv'
  <2> SUFFICES ASSUME commands = 0 PROVE HealRing'
    BY <1>3 DEF SignalFail, counters, history, HealInv
  <2> DEFINE y == [nodes[i] EXCEPT !.up = @ \ {p}]
  <2>1. Sound(y, RoleOf(i))
    BY <1>0, SoundFields
  <2>2. Alike(y, nodes[i]) /\ p \notin y.up
    BY <1>0 DEF Alike, Node
  <2>3. Orderly(y)
    BY <1>0, OrderlyFields DEF HealRing
  <2>4. Post(i, y, p, ERPS_REQ_SF)
    BY <1>3 DEF SignalFail
  <2> HIDE DEF y
  <2> QED
    BY <1>0, <2>1, <2>2, <2>3, <2>4, SignalFailHeal
<1>4. ASSUME NEW i \in Ring, NEW p \in Port, LinkDownExpires(i, p) PROVE HealInv'
  <2> SUFFICES ASSUME commands = 0 PROVE HealRing'
    BY <1>4 DEF LinkDownExpires, counters, history, HealInv
  <2> DEFINE y == [nodes[i] EXCEPT !.linkDown = @ \ {p}]
  <2>1. Sound(y, RoleOf(i))
    BY <1>0, SoundFields
  <2>2. Alike(y, nodes[i]) /\ y.up = nodes[i].up
    BY <1>0 DEF Alike, Node
  <2>3. Orderly(nodes[i]) /\ Orderly(y)
    BY <1>0, OrderlyFields DEF HealRing
  <2>4. p \notin y.up
    BY <1>4, <2>2, <2>3 DEF LinkDownExpires, Orderly
  <2>5. Post(i, y, p, ERPS_REQ_SF)
    BY <1>4 DEF LinkDownExpires
  <2> HIDE DEF y
  <2> QED
    BY <1>0, <2>1, <2>2, <2>3, <2>4, <2>5, SignalFailHeal
<1>5. ASSUME NEW i \in Ring, NEW p \in Port, ClearSignalFail(i, p) PROVE HealInv'
  <2>1. commands' = commands
    BY <1>5 DEF ClearSignalFail, counters, history
  <2> QED
    BY <1>0, <1>5, <2>1, ClearHeal DEF HealInv
<1>6. ASSUME NEW s \in Ring, NEW r \in Ring, Receive(s, r) PROVE HealInv'
  <2>1. commands' = commands
    BY <1>6 DEF Receive, counters, history
  <2> QED
    BY <1>0, <1>6, <2>1, ReceiveHeal DEF HealInv
<1>7. ASSUME NEW s \in Ring, NEW r \in Ring, Delay(s, r) PROVE HealInv'
  <2>1. commands' = commands /\ flight = {}
    BY <1>7 DEF Delay, counters, history
  <2> QED
    BY <1>0, <1>7, <2>1, DelayHeal DEF HealInv
<1>8. ASSUME NEW m \in flight, Arrive(m) PROVE HealInv'
  <2>1. commands' = commands
    BY <1>8 DEF Arrive, counters, history
  <2>2. flight = {m}
    BY DEF CutInv, FewLate, Few
  <2> QED
    BY <1>0, <1>8, <2>1, <2>2, ArriveHeal DEF HealInv
<1>9. ASSUME NEW i \in Ring, GuardTimerExpires(i) PROVE HealInv'
  <2>1. commands' = commands
    BY <1>9 DEF GuardTimerExpires, counters, history
  <2> QED
    BY <1>0, <1>9, <2>1, GuardHeal DEF HealInv
<1>10. ASSUME NEW i \in Ring, WtrExpires(i) PROVE HealInv'
  <2> DEFINE y == [nodes[i] EXCEPT !.wtr = FALSE]
  <2>1. /\ Post(i, y, 0, ERPS_REQ_WTR_EXPIRES) /\ nodes[i].wtr /\ flight = {}
        /\ commands' = commands
    BY <1>10 DEF WtrExpires, Settled, counters, history
  <2> QED
    BY <1>0, <2>1, ExpiryHeal DEF HealInv
<1>11. ASSUME NEW i \in Ring, WtbExpires(i) PROVE HealInv'
  <2> DEFINE y == [nodes[i] EXCEPT !.wtb = FALSE]
  <2>1. /\ Post(i, y, 0, ERPS_REQ_WTB_EXPIRES) /\ nodes[i].wtb /\ flight = {}
        /\ commands' = commands
    BY <1>11 DEF WtbExpires, Settled, counters, history
  <2> QED
    BY <1>0, <2>1, ExpiryHeal DEF HealInv
<1>12. CASE UNCHANGED vars
  BY <1>12 DEF vars, counters, history, HealInv, HealRing, Told
<1> QED
  BY <1>1, <1>2, <1>3, <1>4, <1>5, <1>6, <1>7, <1>8, <1>9, <1>10, <1>11, <1>12
  DEF Next, Detected, Expires

(* Every node comes up orderly.                                            *)
LEMMA InitHeal == Init => HealInv
<1> SUFFICES ASSUME Init PROVE HealInv
  OBVIOUS
<1>1. \A i \in Ring : nodes[i].state = "PENDING" /\ Orderly(nodes[i])
  <2> SUFFICES ASSUME NEW i \in Ring
               PROVE  nodes[i].state = "PENDING" /\ Orderly(nodes[i])
    OBVIOUS
  <2>1. nodes[i].state = "PENDING" /\ ~Awaits(nodes[i]) /\ ~Failing(nodes[i])
    BY InitNode DEF Awaits, Failing
  <2> QED
    BY <2>1, InitNode DEF Orderly
<1>2. Told /\ flight = {}
  BY <1>1, Roles DEF Init, Told, Awaits
<1> QED
  BY <1>1, <1>2 DEF HealInv, HealRing

(* A ring at rest whose links work: the owner does not wait for a timer,   *)
(* nor in vain, because it hears who speaks, so that it is idle and says   *)
(* so, and all hear it.                                                    *)
LEMMA RestRestored ==
  ASSUME Revertive, RingInv, UnswitchedRing, HealRing, OwnerInTouch, AtRest, lit = Ring
  PROVE  Restored
<1>1. /\ nodes \in [Ring -> Node] /\ 0 \in Ring /\ RoleOf(0) = "owner"
      /\ \A i \in Ring : /\ Sound(nodes[i], RoleOf(i)) /\ Unswitched(nodes[i])
                         /\ Orderly(nodes[i]) /\ nodes[i] \in Node
                         /\ ~nodes[i].wtr /\ ~nodes[i].wtb /\ ~nodes[i].guard
  BY Roles DEF RingInv, UnswitchedRing, HealRing, AtRest, Settled
<1>2. \A i \in Ring : nodes[i].up = Port
  <2>1. ASSUME NEW i \in Ring, NEW p \in Port PROVE LinkAt(i, p) \in Ring
    <3>1. i \in Int /\ N \in Nat /\ N >= 3
      BY RingAssumption DEF Ring
    <3> QED
      BY <3>1 DEF LinkAt, Ring
  <2>2. \A i \in Ring, p \in Port : p \in nodes[i].up
    BY <2>1 DEF AtRest, Settled
  <2>3. \A i \in Ring : nodes[i].up \subseteq Port
    BY <1>1 DEF Node
  <2> QED
    BY <2>2, <2>3
<1>3. \A i \in Ring : ~Failing(nodes[i]) /\ nodes[i].topreq = ERPS_REQ_INVALID
  <2>1. \A i \in Ring : ~Failing(nodes[i])
    BY <1>1, <1>2 DEF Orderly
  <2> QED
    BY <1>1, <2>1, OrderlyTop
<1>4. ASSUME NEW s \in Ring, NEW r \in Ring, s # r, s = 0 \/ r = 0, Speaks(nodes[s])
      PROVE  /\ nodes[r].state # "PROTECTION"
             /\ RapsRequest(nodes[s].pdu) = ERPS_REQ_RAPS_NR_RB
                  => nodes[r].state # "PENDING"
  <2> DEFINE req == RapsRequest(nodes[s].pdu)
  <2>1. Hears(r, s)
    BY <1>4 DEF OwnerInTouch, Speaks
  <2>2. nodes[r] = Posted(nodes[r], 0, req, nodes[s].id)
    BY <1>1, <1>4, <2>1 DEF AtRest, Settled, Heard, Received
  <2>3. req \in {ERPS_REQ_RAPS_NR, ERPS_REQ_RAPS_NR_RB}
    BY <1>3, Said DEF RemoteUnswitched
  <2> HIDE DEF req
  <2>4. ASSUME nodes[r].state = "PROTECTION" PROVE FALSE
    <3>1. Posted(nodes[r], 0, req, nodes[s].id).state = "PENDING"
      BY <1>1, <1>3, <2>3, <2>4, NoRequestHeeded
    <3> QED
      BY <2>2, <2>4, <3>1
  <2>5. ASSUME req = ERPS_REQ_RAPS_NR_RB, nodes[r].state = "PENDING" PROVE FALSE
    <3>1. Posted(nodes[r], 0, ERPS_REQ_RAPS_NR_RB, nodes[s].id).state = "IDLE"
      BY <1>1, <1>3, <2>5, RestoreHeeded
    <3> QED
      BY <2>2, <2>5, <3>1
  <2> QED
    BY <2>4, <2>5 DEF req
<1>5. nodes[0].state = "IDLE"
  <2>1. RevertiveOwner(nodes[0])
    BY <1>1 DEF Sound, Orderly, RevertiveOwner, erps_node_is_rpl_owner
  <2>2. nodes[0].state # "PENDING"
    BY <1>1, <2>1 DEF Orderly
  <2>3. ASSUME nodes[0].state = "PROTECTION" PROVE FALSE
    <3>1. Awaits(nodes[0]) /\ ~Speaks(nodes[0])
      BY <1>1, <1>3, <2>3 DEF Awaits, Orderly
    <3>2. PICK s \in Ring : Speaks(nodes[s])
      BY <1>3, <3>1 DEF HealRing, Told
    <3> QED
      BY <1>1, <1>4, <2>3, <3>1, <3>2
  <2> QED
    BY <1>1, <2>2, <2>3 DEF Unswitched
<1>6. Speaks(nodes[0]) /\ RapsRequest(nodes[0].pdu) = ERPS_REQ_RAPS_NR_RB
  <2>1. Port \subseteq nodes[0].tx /\ "RB" \in nodes[0].pdu.status
    BY <1>1, <1>2, <1>5 DEF Sound, Orderly
  <2>2. nodes[0].pdu.rs = "NR"
    BY <1>1, <1>3 DEF Unswitched
  <2> QED
    BY <2>1, <2>2 DEF Speaks, Port, RapsRequest
<1>7. \A r \in Ring : nodes[r].state = "IDLE"
  BY <1>1, <1>4, <1>5, <1>6 DEF Unswitched
<1> QED
  BY <1>1, <1>7 DEF Sound, Restored

(* In a ring of any length, with any IDs, whose owner is revertive:        *)
(* whichever links fail, come back or flap, together or in turn, whichever *)
(* PDUs are lost or, one at a time, late, and whatever meets a guard       *)
(* timer, as long as no operator has given a command a ring that has come  *)
(* to rest with all its links is in its normal state, if the owner and the *)
(* nodes that send are in touch.                                           *)
THEOREM FailuresHealed == ASSUME Revertive PROVE Spec => []FailureHeals
<1>1. RingInv /\ (overlap \/ (CutInv /\ HealInv)) => FailureHeals
  BY RestRestored DEF CutInv, HealInv, FailureHeals, SettledRingRestored
<1>2. RingInv /\ (overlap \/ (CutInv /\ HealInv)) /\ [Next]_vars
        => overlap' \/ (CutInv' /\ HealInv')
  BY CutKeeps, HealKeeps, OverlapStays
<1> QED
  BY <1>1, <1>2, InitCut, InitHeal, RingInvAlways, PTL DEF Spec
=============================================================================
