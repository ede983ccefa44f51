------------------------------- MODULE ErpsRing -------------------------------
(***************************************************************************)
(* A ring of N nodes, each the node of ErpsFsm, joined by N links: node 0  *)
(* is the RPL owner, node N-1 the RPL neighbour, link k joins the nodes k  *)
(* and k+1 (modulo N), and link N-1 is the ring protection link.  All      *)
(* nodes have run erps_init.  Links fail and come back, operators give     *)
(* commands, and R-APS PDUs travel the ring: fresh ones are heard at once, *)
(* some are delayed and arrive when their sender has moved on.  Driver,    *)
(* VLAN and flush calls succeed (ErpsNode has their failures).             *)
(***************************************************************************)
EXTENDS ErpsFsm, FiniteSets

CONSTANTS N,            \* number of nodes
          Ids,          \* assignments of IDs to the nodes
          Revertive,    \* node->revertive of the owner
          InitialLinks, \* sets of links that may work at start-up
          Commands      \* <<node, request>>: what operators may ask
CONSTANTS Transparent,  \* switches forward R-APS across a blocked port
          Lossless,     \* some PDU of every burst is heard
          Isolated      \* a link fails only in a settled ring, and no
                        \* behaviour has both link changes and commands
CONSTANTS MaxEvents,    \* bounds: link changes and commands together,
          MaxCommands,  \* commands,
          MaxDelayed    \* PDUs delayed at once

Ring == 0 .. N - 1
RplLink == N - 1

ASSUME RingAssumption ==
  /\ N \in Nat /\ N >= 3
  /\ Ids \subseteq [Ring -> Nat \ {0}]
  /\ InitialLinks \subseteq SUBSET Ring
  /\ Commands \subseteq Ring \X {ERPS_REQ_CLEAR, ERPS_REQ_FS, ERPS_REQ_MS}
  /\ {Revertive, Transparent, Lossless, Isolated} \subseteq BOOLEAN
  /\ {MaxEvents, MaxCommands, MaxDelayed} \subseteq Nat

VARIABLES nodes,    \* the nodes' struct erps_node
          lit,      \* links whose two ends see each other
          flight,   \* delayed PDUs
          changes,  \* link changes so far
          commands, \* commands so far
          stale,    \* history: a node without a blocked port was made to send
          overlap   \* history: a PDU was late together with another one, or
                    \* when a command was given, or after one

counters == <<changes, commands>>
history == <<stale, overlap>>
vars == <<nodes, lit, flight, counters, history>>

(* The port by which a link leaves node i and the one by which it enters   *)
(* the next; the RPL is at index 1 of both its nodes.                      *)
RoleOf(i) == CASE i = 0 -> "owner" [] i = RplLink -> "nbr" [] OTHER -> "none"
After(i) == (i + 1) % N
PortOut(i) == IF i = 0 THEN 0 ELSE 1
PortIn(i) == IF i = 0 THEN 1 ELSE 0
LinkAt(i, p) == IF p = PortOut(i) THEN i ELSE (i + N - 1) % N

Init ==
  /\ lit \in InitialLinks
  /\ \E id \in Ids : nodes = [i \in Ring |->
       Fresh(erps_node_init(
         ERPS_NODE_INIT(RoleOf(i), Revertive, id[i], {}), NoFault, NoFault))]
  /\ flight = {} /\ changes = 0 /\ commands = 0 /\ stale = FALSE
  /\ overlap = FALSE

(* A request is posted at a node.                                          *)
Posted(n, l, req, id) == Fresh(erps_fsm_post_locked(Fresh(n), l, req, id, NoFault))

(* A request that starts the guard timer sets its expiry anew if the timer *)
(* is running.                                                             *)
StartsGuard(n, l, req) == Posted([n EXCEPT !.guard = FALSE], l, req, 0).guard

(* A guard timer that starts has to outlast the PDUs in flight.            *)
Outlasted(pdus, i, starts) ==
  {IF starts THEN [m EXCEPT !.before = @ \cup {i}] ELSE m : m \in pdus}

(* Node i becomes n.                                                       *)
Update(i, n, starts) ==
  /\ nodes' = [nodes EXCEPT ![i] = n]
  /\ flight' = Outlasted(flight, i, starts)

(* Node i, which is n, is given a request by its own operator, driver or   *)
(* timer.                                                                  *)
Post(i, n, l, req) == Update(i, Posted(n, l, req, 0), StartsGuard(n, l, req))

(* The normal state: idle, and exactly the RPL is blocked, at both ends.   *)
Restored ==
  \A i \in Ring : /\ nodes[i].state = "IDLE"
                  /\ nodes[i].blocked = IF HasRpl(nodes[i]) THEN {Rpl} ELSE {}

-----------------------------------------------------------------------------
(***************************************************************************)
(* R-APS PDUs.  A node sends on both ports, blocked or not; the switches   *)
(* between forward the frame, those with a blocked port if Transparent.    *)
(***************************************************************************)
RapsRequest(pdu) ==
  CASE pdu.rs = "FS" -> ERPS_REQ_RAPS_FS
    [] pdu.rs = "SF" -> ERPS_REQ_RAPS_SF
    [] pdu.rs = "MS" -> ERPS_REQ_RAPS_MS
    [] pdu.rs = "NR" /\ "RB" \in pdu.status -> ERPS_REQ_RAPS_NR_RB
    [] OTHER -> ERPS_REQ_RAPS_NR

(* The path from i to j in the direction of the link numbers is open.      *)
Open(i, j) ==
  LET hops == 0 .. ((j + N - i) % N) - 1
  IN  /\ \A d \in hops : (i + d) % N \in lit
      /\ Transparent \/ \A d \in hops \ {0} : nodes[(i + d) % N].blocked = {}

Sends(i, p) == p \in nodes[i].tx \cap nodes[i].up

Hears(r, s) ==
  \/ Open(s, r) /\ Sends(s, PortOut(s)) /\ PortIn(r) \in nodes[r].up
  \/ Open(r, s) /\ Sends(s, PortIn(s)) /\ PortOut(r) \in nodes[r].up

(* While its guard timer runs a node drops what it receives.               *)
Received(r, req, id) ==
  IF nodes[r].guard THEN nodes[r] ELSE Posted(nodes[r], 0, req, id)

Heard(r, s) == Received(r, RapsRequest(nodes[s].pdu), nodes[s].id)

Receive(s, r) ==
  /\ s # r /\ Hears(r, s)
  /\ LET n == Heard(r, s) IN Update(r, n, n.guard /\ ~nodes[r].guard)
  /\ UNCHANGED <<lit, counters, history>>

Delay(s, r) ==
  /\ Cardinality(flight) < MaxDelayed
  /\ s # r /\ Hears(r, s)
  /\ flight' = flight \cup
                 {[to |-> r, req |-> RapsRequest(nodes[s].pdu),
                   id |-> nodes[s].id, before |-> {}]}
  /\ overlap' = (overlap \/ flight # {} \/ commands # 0)
  /\ UNCHANGED <<nodes, lit, counters, stale>>

Arrive(m) ==
  LET n == Received(m.to, m.req, m.id)
  IN  /\ nodes' = [nodes EXCEPT ![m.to] = n]
      /\ flight' = Outlasted(flight \ {m}, m.to, n.guard /\ ~nodes[m.to].guard)
      /\ UNCHANGED <<lit, counters, history>>

(* Nothing is left to happen that takes seconds or less: every change has  *)
(* been noticed and every node has heard what the others say.              *)
Settled ==
  /\ flight = {}
  /\ \A i \in Ring : ~nodes[i].guard /\ nodes[i].linkDown = {}
  /\ \A i \in Ring, p \in Port : p \in nodes[i].up <=> LinkAt(i, p) \in lit
  /\ \A s, r \in Ring : s # r /\ Hears(r, s) => Heard(r, s) = nodes[r]

-----------------------------------------------------------------------------
(***************************************************************************)
(* Operators and links.  Each end of a link notices its change by itself:  *)
(* the driver posts the signal fail or its end, and an interface that has  *)
(* come up raises its event.                                               *)
(***************************************************************************)

(* The first command is given to a ring that has come up.                  *)
Command(i, l, req) ==
  /\ changes + commands < MaxEvents /\ commands < MaxCommands
  /\ commands = 0 => Restored
  /\ Isolated => changes = 0
  /\ commands' = commands + 1
  /\ overlap' = (overlap \/ flight # {})
  /\ Post(i, nodes[i], l, req)
  /\ UNCHANGED <<lit, changes, stale>>

LinkChanges(k) ==
  /\ changes + commands < MaxEvents
  /\ Isolated => commands = 0 /\ (k \in lit => Settled /\ Restored)
  /\ changes' = changes + 1
  /\ lit' = IF k \in lit THEN lit \ {k} ELSE lit \cup {k}
  /\ UNCHANGED <<nodes, flight, commands, history>>

SignalFail(i, p) ==
  /\ LinkAt(i, p) \notin lit /\ p \in nodes[i].up
  /\ Post(i, [nodes[i] EXCEPT !.up = @ \ {p}], p, ERPS_REQ_SF)
  /\ UNCHANGED <<lit, counters, history>>

(* erps_iface_up_cb arms the TX work of the port whatever the state is.    *)
ClearSignalFail(i, p) ==
  /\ LinkAt(i, p) \in lit /\ p \notin nodes[i].up
  /\ LET n == Posted(nodes[i], p, ERPS_REQ_CLEAR_SF, 0)
     IN  /\ Update(i, [n EXCEPT !.up = @ \cup {p}, !.tx = @ \cup {p}],
                   StartsGuard(nodes[i], p, ERPS_REQ_CLEAR_SF))
         /\ stale' = (stale \/ n.blocked = {})
  /\ UNCHANGED <<lit, counters, overlap>>

(* A link that was dark at start-up, and has not been reported up, fails.  *)
(* The node's timers started together, when it booted, and are long: the   *)
(* links that work have been reported when one of them expires.            *)
LinkDownExpires(i, p) ==
  /\ p \in nodes[i].linkDown /\ LinkAt(i, p) \notin lit
  /\ \A q \in Port : LinkAt(i, q) \in lit => q \in nodes[i].up
  /\ Post(i, [nodes[i] EXCEPT !.linkDown = @ \ {p}], p, ERPS_REQ_SF)
  /\ UNCHANGED <<lit, counters, history>>

-----------------------------------------------------------------------------
(***************************************************************************)
(* Timers.  The guard timer outlasts every PDU that was on its way when it *)
(* was started; that is what its duration is chosen for.  If no burst is   *)
(* lost, what the node sends meanwhile has been heard when it ends.        *)
(***************************************************************************)
GuardTimerExpires(i) ==
  /\ nodes[i].guard
  /\ \A m \in flight : i \notin m.before
  /\ Lossless => \A r \in Ring \ {i} : Hears(r, i) => Heard(r, i) = nodes[r]
  /\ Update(i, [nodes[i] EXCEPT !.guard = FALSE], FALSE)
  /\ UNCHANGED <<lit, counters, history>>

(* The wait-to-restore and wait-to-block timers are long: the ring has     *)
(* settled when one of them expires.                                       *)
WtrExpires(i) ==
  /\ nodes[i].wtr /\ Settled
  /\ Post(i, [nodes[i] EXCEPT !.wtr = FALSE], 0, ERPS_REQ_WTR_EXPIRES)
  /\ UNCHANGED <<lit, counters, history>>

WtbExpires(i) ==
  /\ nodes[i].wtb /\ Settled
  /\ Post(i, [nodes[i] EXCEPT !.wtb = FALSE], 0, ERPS_REQ_WTB_EXPIRES)
  /\ UNCHANGED <<lit, counters, history>>

-----------------------------------------------------------------------------
Detected(i, p) == SignalFail(i, p) \/ ClearSignalFail(i, p) \/ LinkDownExpires(i, p)
Expires(i) == GuardTimerExpires(i) \/ WtrExpires(i) \/ WtbExpires(i)

Next ==
  \/ \E c \in Commands, l \in Port : Command(c[1], l, c[2])
  \/ \E k \in Ring : LinkChanges(k)
  \/ \E i \in Ring, p \in Port : Detected(i, p)
  \/ \E s, r \in Ring : Receive(s, r) \/ Delay(s, r)
  \/ \E m \in flight : Arrive(m)
  \/ \E i \in Ring : Expires(i)

Spec == Init /\ [][Next]_vars

(* Changes are noticed, PDUs sent periodically and delivered, and timers   *)
(* expire.  Operators and links do as they like.                           *)
Fairness ==
  /\ WF_vars(\E i \in Ring, p \in Port : Detected(i, p))
  /\ WF_vars(\E m \in flight : Arrive(m))
  /\ WF_vars(\E i \in Ring : Expires(i))
  /\ \A s, r \in Ring : s # r => WF_vars(Receive(s, r))

FairSpec == Spec /\ Fairness

-----------------------------------------------------------------------------
(***************************************************************************)
(* Properties.                                                             *)
(***************************************************************************)

(* Every node stays one: a request heard from another node, for example,   *)
(* is never recorded as a local top request.                               *)
TypeOK == nodes \in [Ring -> Node]

(* Traffic does not cross link k.                                          *)
Cut(k) == \/ k \notin lit
          \/ PortOut(k) \in nodes[k].blocked
          \/ PortIn(After(k)) \in nodes[After(k)].blocked
CutLinks == {k \in Ring : Cut(k)}

(* Links fail, come back and flap, operators switch, PDUs are lost or meet *)
(* a guard timer, the nodes notice all of it in any order, and a PDU may   *)
(* be late: the ring is closed into a loop only if the interface-up        *)
(* callback has made a node repeat an announcement it had withdrawn, or if *)
(* two PDUs were late at once or one met a command.                        *)
LoopNeedsStalePdu == ~stale /\ ~overlap => CutLinks # {}

(* Whatever happens, a loop needs both ends of the RPL to have left IDLE:  *)
(* none of the two goes back before its end is blocked, and none is made   *)
(* to open it there, by a PDU that is late or a switch elsewhere.          *)
LoopOpensRpl == CutLinks = {} => \A i \in {0, RplLink} : nodes[i].state # "IDLE"

(* The owner never hears another node say that the RPL is blocked, which   *)
(* would make it go to IDLE and stop its timers without blocking anything. *)
OwnerUnrivalled ==
  /\ \A i \in Ring \ {0} : "RB" \notin nodes[i].pdu.status
  /\ \A m \in flight : m.to = 0 => m.req # ERPS_REQ_RAPS_NR_RB

SwitchInEffect == \E i \in Ring : nodes[i].topreq \in {ERPS_REQ_FS, ERPS_REQ_MS}
AtRest == Settled /\ \A i \in Ring : ~nodes[i].wtr /\ ~nodes[i].wtb

(* A ring whose links work, that has come to rest and where no switch is   *)
(* in effect is in its normal state: no node is left waiting in another    *)
(* one, and no port blocked by mistake or for good.                        *)
SettledRingRestored == AtRest /\ lit = Ring /\ ~SwitchInEffect => Restored

(* The owner hears every node that sends and is heard by all if it sends:  *)
(* no blocked port keeps them apart.                                       *)
OwnerInTouch ==
  \A i \in Ring \ {0} : /\ nodes[i].tx # {} => Hears(0, i)
                        /\ nodes[0].tx # {} => Hears(i, 0)

(* Whichever links fail together and whichever PDUs are lost or, one at a  *)
(* time, late: without commands, a ring at rest whose links work is in its *)
(* normal state if the owner and the nodes that send are in touch.  In     *)
(* particular it does not wait for anyone when all are silent.             *)
FailureHeals ==
  commands = 0 /\ ~overlap /\ OwnerInTouch => SettledRingRestored

(* And it comes to rest: links that work again, and the end of a switch,   *)
(* lead to the normal state.                                               *)
RecoversEventually ==
  lit = Ring /\ ~SwitchInEffect ~> Restored \/ lit # Ring \/ SwitchInEffect

(***************************************************************************)
(* What the documentation says and the code does not do.                   *)
(***************************************************************************)

(* Kconfig:15: no loops in the network, with links that fail and come back *)
(* and PDUs that are late.                                                 *)
NoLoop == CutLinks # {}

(* Kconfig:15: recovery switching, and erps-internal.h:119: unblock all    *)
(* non-failed links.  A ring at rest with one failed link is cut there and *)
(* nowhere else, whichever links failed before and have come back.         *)
FailureRoutedAround ==
  AtRest /\ ~SwitchInEffect /\ Cardinality(Ring \ lit) = 1 => CutLinks = Ring \ lit
=============================================================================
