# Ethernet ring protection switching (zephyr-erps): specification

A TLA+ specification of the ERPS (ITU-T G.8032) implementation in
`src/subsys/net/l2/ethernet/erps`. TLC checks it on small instances; TLAPS proves
every safety property, one of them (`SettledRingRestored`) for part of the behaviours only, for all values of the constants, under the
hypotheses given in section 6. Paths below are relative to that directory unless they start with `src/`.

## 1. The system

A ring is a circle of switches. One link, the ring protection link (RPL), is kept
blocked by its *owner* so that there is no loop; the node on its other end is the
RPL *neighbour* (`nbr`). When another link fails, its two nodes block it and tell
the ring, with R-APS PDUs, to open the RPL. When it recovers, the owner waits (wait
to restore, WTR) and goes back. Operators may block a port by a forced switch (FS) or a
manual switch (MS) and end it by CLEAR, after which the owner waits to block (WTB).

### Components

| component | code | state | operations | module |
|---|---|---|---|---|
| protection state machine | `erps-fsm*.c`, `erps.c:333-716` | `state`, `local_topreq`, `blocked`, `failed`, `pdu_mut` | one table per state, 14 requests; the priority logic in front | `ErpsFsm`, `ErpsNode` |
| node initialization | `erps.c:1499-1702`, `1804-1839` | all | `erps_init`, `erps_node_init`, `erps_link_init`, `erps_fsm_init` | `ErpsFsm`, `ErpsNode` |
| control interface | `erps-ctl.c` | none | `net_erps_ctl`: CLEAR, FS, MS from an operator; SF and CLEAR_SF from the driver | `ErpsNode`, `ErpsRing`, `ErpsThreads` |
| R-APS reception | `erps.c:814-1085` | (node ID, BPR) pair per link, guard timer | version check, flush event, guard timer, pair logic, post | `ErpsNode`, `ErpsRing`, `ErpsThreads` |
| R-APS transmission | `erps.c:450-521`, `794-799`, `1087-1247` | `tx_dwork`, `tx_burst` per port, `pdu_mut` | schedule, stop, periodic work | `ErpsTx`; in one step `ErpsFsm` |
| interface-up callback | `erps.c:1283-1320` | none | arms the port's TX work | `ErpsNode`, `ErpsTx`, `ErpsRing` |
| timers | `erps.c:730-791`, `1249-1281`, `1477-1497` | WTR, WTB and link-down delayable works, guard timepoint | start, stop, expire | `ErpsThreads`, `ErpsNode`, `ErpsRing` |
| mutex and threads | `erps.c:699-716` | `fsm_mutex` | lock with a 250 ms limit; some callers take no lock | `ErpsThreads`, `ErpsTx` |
| ring of nodes | (the deployment) | nodes, links, PDUs in flight | "ensuring there are no loops in the network", `Kconfig:15-17` | `ErpsRing` |
| configuration | `erps.c:1394-1475` | roles, ring ID | set before initialization | none |
| queries, shell, PDU format, devicetree, sample | `erps.c:1322-1386`, `src/subsys/net/lib/shell/erps.c`, `r-aps.[ch]`, `src/dts`, `src/samples` | none | parsing, printing, initial values | none |

### How they interact

Everything meets in `erps_fsm_post`, which takes `fsm_mutex`, asks the priority
logic (`erps_fsm_resolve_req_prio`), and calls the table of the current state. It is
called from the shell or application thread, from the driver on a carrier change, from
the receive path, and from the system work queue when a timer expires. A handler
blocks and unblocks ports (driver call, flag, traffic VLAN interface), schedules or stops
transmission, flushes the forwarding database, starts or stops timers and moves the state,
in a chain `if (!ret) ret = ...` that may end anywhere. Starting WTR or WTB posts
WTR_RUNNING or WTB_RUNNING recursively, which changes `local_topreq` only. The interface-up
callback, the TX work, the guard check and the pair logic run **without** the mutex.
Between nodes there are only PDUs: sent on both ports every 5 seconds, in a burst when they
change, forwarded by the switches between.

### What is hard

* Two decisions are taken on different state: the priority logic on `local_topreq`, the
  table on `state`. They are kept in step only by what every handler remembers to do.
* Timers are stopped by nine handlers and started by several; a forgotten one
  leaves the owner waiting for ever or the node deaf to R-APS(NR).
* Any driver, VLAN or flush call may fail in the middle of a handler.
* `stop_tx` leaves `pdu_mut`; whatever arms the TX work later sends an old request.
* A cancel does not stop a handler that runs, and a handler that runs arms itself again.
* A thread that waits for the mutex gives up after 250 ms, and what it had to say is lost.
* Each end of a link notices a change by itself; PDUs are lost, late, dropped by a guard timer.

`PROJECT.json` lists each hazard at its line, with the properties that cover it or the reason
why none does.

## 2. Modules

| module | content |
|---|---|
| `ErpsFsm` | the node record and every function of `erps-fsm*.c` and the part of `erps.c` they call, as pure operators |
| `ErpsNode` | one node as a state machine: the variables, an action per entry point, the properties |
| `ErpsService` | the abstract node: what a node promises about its ports and announcements |
| `ErpsRefinement` | the refinement mapping from `ErpsNode` to `ErpsService` |
| `KWork` | delayable work items on Zephyr's system work queue, as `erps.c` uses them |
| `ErpsTx` | transmission, one shared access or kernel call per step, on three threads |
| `ErpsThreads` | threads that wait for the mutex, timers as work items, around the handlers of `ErpsFsm` |
| `ErpsRing` | N nodes of `ErpsFsm`, N links, operators, PDUs in flight |
| `ErpsFsmProofs` | lemmas about the operators of `ErpsFsm`, for all proofs below |
| `ErpsNodeProofs`, `ErpsGuaranteeProofs` | proofs about `ErpsNode` |
| `ErpsRefinementProofs` | proof that `ErpsNode` implements `ErpsService` |
| `KWorkProofs`, `ErpsTxProofs`, `ErpsThreadsProofs` | proofs about the work queue, transmission and the threads |
| `ErpsRingProofs` | proofs about rings of any length |
| `MCErpsNode`, `MCErpsTx`, `MCErpsThreads`, `MCErpsRing` | finite constants for TLC |

`ErpsFsm` is used three times: `ErpsNode` gives it one node and an arbitrary environment, `ErpsThreads`
concurrent callers and real work items, `ErpsRing` other nodes. `ErpsTx` takes two of its steps,
`erps_node_sched_tx` and `erps_node_stop_tx`, apart; `KWork` is shared by `ErpsTx` and `ErpsThreads`.

### `ErpsFsm` and `ErpsNode`

`node` is `struct erps_node` with its two links. A per-port flag becomes the set of ports it is set
for: `failed`, `blocked`; `enabled` is what the driver was told last, `traffic` the ports whose
traffic VLAN interface is up, `up` what `net_if_is_up` says, `tx` and `linkDown` the ports whose
delayable work is scheduled. `wtr`, `wtb` and `guard` say that the timer runs; `cb` that the
interface-up callback is registered. `topreq` is `local_topreq`, `pdu` is `pdu_mut`, `burst`
is `tx_burst`, `pair` the pair `last_node_id`, `bpr`. `carrier` is the physical link and `booted`
whether `erps_init` has run.

**Error chains.** The field `ok` stands for `!ret` and every callee is the identity on a record whose
`ok` is FALSE, so `if (!ret) ret = f()` chains are composition and all early exits are there,
with what was changed before them. Which calls fail in a step is a parameter `e` (`port`: the
driver; `vlan`: enabling or finding the VLAN interface; `flush`), chosen from
`Faults` by every action. `flushed` records that the step's flush succeeded. Both fields are set
anew by every post.

| code | action |
|---|---|
| `erps_init`, `erps_node_init` | `NodeInit(c, e)`: `c.vlan` are the links whose VLANs cannot be configured, `e` what fails in `erps_fsm_init` |
| `net_erps_ctl` (CLEAR, FS, MS) | `net_erps_ctl(l, req, e)` |
| `net_erps_ctl` (SF, CLEAR_SF) from the driver | `CarrierLost(l, e)`, `CarrierRestored(l, e)` |
| `erps_iface_up_cb` | `erps_iface_up_cb(p)` |
| `erps_raps_recv` | `erps_raps_recv(l, pdu, e)`, `erps_handle_raps_event(l, e)` |
| `erps_wtr_work`, `erps_wtb_work`, `erps_link_down_work`, `erps_tx_work` | the actions of the same names |
| the guard timepoint passing | `GuardTimerExpires` |

`Environment` holds what operators, other nodes and links do, `System` what the kernel does.
Time is left out: a running timer may expire at any moment, so every order of
expiry and event is there. Other nodes are arbitrary: any PDU of `RapsPdus` may
arrive at any moment. Node IDs are numbers, ordered as `memcmp` orders addresses. The lookup of a port's
own interface (`net_if_lookup_by_dev`) is taken to succeed. Before initialization `local_topreq` is
0, the value of CLEAR, and every request but CLEAR is refused; `Init` starts there.

### `ErpsService`

The abstract node has a home cut (its RPL port, if it has one), a phase (off, normal, switched,
reverting), the set of ports it cuts and what it announces. Its moves: `Start`; `SwitchHere`, an order of its
own, which cuts exactly the port ordered (a second forced switch adds to the first, a manual switch never displaces
a switch); `SwitchElsewhere` and `GiveWay`, which open ports only; `Release`, the end of a switch,
which moves no port; `Withdraw`, when two manual switches meet; `Restore`, which ends the wait with
exactly the home cut. `ErpsRefinement` maps a node to it by `Home`, `PhaseOf` and `Announced`, and
`ServiceProvided` says that every behaviour of the node is one of the abstract node. It is true of nodes whose calls
succeed and which do not hear (NR,RB) as owners (`SingleOwner`): with a failed call a handler ends midway, and an owner
that believes another one stops without cutting anything; the runs with failures say what remains.

### `ErpsTx`

The thread with the mutex (a receiver or caller of `net_erps_ctl`, or the work queue in a timer's
handler) goes through `erps_node_sched_tx` or `erps_node_stop_tx` with a program counter; the work queue
runs `erps_tx_work`; the network management thread runs `erps_iface_up_cb`. Steps are single accesses to
`pdu_mut.rs_sc`, `pdu_mut.status`, `tx_burst[p]` and single kernel calls. `plan` remembers what the last
completed call asked for. A torn PDU (one half old, one half new) is in the model: the cancel of
`erps.c:473` waits for a handler that runs, but not for the one that handler arms anew.

Timing assumption: the regular period (5 s) does not end in the middle of a call (`short`
marks the timeouts that were started with the burst period, which may). Steps of the threads
interleave freely, as with preemption or on two processors.

### `ErpsThreads`

`rx`, `ctl` and `wq` wait for the mutex, take it, process a request by `erps_fsm_post_locked` of `ErpsFsm`,
or give up while it is held. At each post `wtr`, `wtb` and `linkDown` of the node are what
`k_work_delayable_is_pending` says, which is TRUE also for an item whose handler runs (`Seen`), and what the handler
started or stopped is applied to the work queue (`Applied`). The guard timer is read before the wait, as
in `erps_raps_recv`. The instance is a revertive owner, the only role with WTR and WTB. `late` is a
history variable: in the current stay in PENDING a timer handler has given up on the mutex, or one was
running when PENDING was entered.

### `ErpsRing`

Node 0 is the owner, node N-1 the neighbour, link k joins k and k+1, link N-1 is the RPL. All nodes have
run `erps_init`. `lit` is the set of links that work. `Command` is an operator's request,
`LinkChanges` a link failing or coming back, `SignalFail`, `ClearSignalFail` and `LinkDownExpires` what
one end of a link does about it, on its own; `Receive` delivers what a node sends now to a node its frame
reaches, `Delay` and `Arrive` deliver it later; the timers expire by `GuardTimerExpires`, `WtrExpires`, `WtbExpires`.
A PDU that is not received is lost, which is always possible.

Timing assumptions, from the durations the code uses (WTR in minutes, `erps.c:753`; WTB the guard time plus 5 s,
`erps.c:254`; guard timer in milliseconds):

* the WTR and WTB timers outlast everything else: they expire in a `Settled` ring, where all
  changes are noticed and no PDU would change a node;
* the guard timer outlasts every PDU that was on its way when it was last started (`before`), its purpose; a
  request that starts it while it runs sets its expiry anew (`StartsGuard`);
* the link-down timers of a node start together, when it boots, and run for seconds: `LinkDownExpires` is for a dark link of a
  node whose working links have been reported up;
* the first command is given to a ring that has come up;
* `Lossless`: some PDU of every burst is heard before the guard timer ends;
* `Isolated`: a link fails only in a settled, restored ring, and commands and link changes are not in one
  behaviour;
* `Transparent`: whether switches forward R-APS across a blocked port. All runs have FALSE.

`stale` and `overlap` are history variables that no guard reads. `stale`: an interface-up event has made a node without
blocked ports send. `overlap`: two PDUs were late at once, or one was late when a command was given, or after one.

## 3. Properties

Each is stated in its module with the behaviour it is about. In short:

| module | property | says |
|---|---|---|
| `ErpsNode` | `TypeOK` | types; only lasting local requests are recorded as top request |
| | `TimersOnlyWhileReverting` | WTR/WTB run on a revertive owner in PENDING only, and a top request WTR/WTB_RUNNING names a timer that runs |
| | `ReversionArmed` | a revertive owner in PENDING with a blocked port has a timer running, and no lasting local request is in effect there |
| | `IdleRingShape` | in IDLE exactly the RPL is blocked at the nodes next to it, nothing elsewhere |
| | `OwnerAnnouncesRplBlocked`, `OnlyOwnerAnnouncesRb` | the idle owner announces NR,RB on every interface that is up; no other node does |
| | `ForcedSwitchInForce` | top request FS: state FORCED_SWITCH, a port blocked, FS announced on every interface that is up |
| | `SignalFailAdvertised` | top request SF in PROTECTION: a failed port blocked, SF announced |
| | `BlockedPortAdvertised` | a blocked port that is neither failed nor the RPL is announced, so that it can be released |
| | `ForcedSwitchEndsByClear` | only an operator's CLEAR ends a forced switch |
| | `PortsInSync`, `IdleOwnerCutsRing` | flags, driver and traffic VLANs agree, and an idle owner has a blocked port, even when calls fail midway |
| | `DisarmedByFailureOnly` | a step in which no call fails records no lasting local request in PENDING, and takes the timer from a waiting owner only if the expiry is refused because of a request that an earlier failure has left in `local_topreq` |
| | `PeersFlushWithNode`, `NewBlockFlushes` | the node flushes exactly when its new PDU lets the others flush; a port is not newly blocked without a flush |
| | `RevertsEventually` | a revertive owner does not stay in PENDING with a port blocked |
| `ErpsRefinement` | `ServiceProvided` | the node implements `ErpsService` |
| `ErpsTx` | `TypeOK` | torn and lost stores never drive a burst counter out of range |
| | `ScheduledPortsTransmit` | after `sched_tx` every port that is up transmits or is about to |
| | `CallsComplete` | the cancel that waits with the mutex held does not deadlock |
| | `CurrentPduSent` | the scheduled PDU goes out whole in the end |
| `ErpsThreads` | `TypeOK` | types; one holder of the mutex at most |
| | `TimersOnlyWhileReverting` | no timer is armed or queued outside PENDING |
| | `TopRequestTimed`, `WaitEnds` | a WTR/WTB_RUNNING top request has its timer, and a wait ends, unless an expiry was lost (`late`) |
| `ErpsRing` | `TypeOK` | every node keeps its type |
| | `LoopNeedsStalePdu` | there is no loop, unless an interface-up event has repeated a withdrawn announcement (`stale`), or two PDUs were late at once or one met a command (`overlap`) |
| | `LoopOpensRpl` | a loop, with or without that event, needs both nodes of the RPL to have left IDLE |
| | `OwnerUnrivalled` | no other node says RB, and no such PDU is on its way to the owner |
| | `SettledRingRestored` | a ring at rest, with all links working and no switch, is in its normal state |
| | `FailureHeals` | the same with PDUs lost and late and failures that overlap, without commands and `overlap`, if the owner and the nodes that send are in touch |
| | `RecoversEventually` | and it comes to rest |

## 4. Runs

| run | instance | states | shows |
|---|---|---|---|
| `node_faultless` | all roles, revertive or not, burst 1, all five remote requests from IDs 1 and 3, no failures | 272 174 | what is blocked, announced and in effect agrees; a waiting owner reverts; the node implements the service |
| `node_faults` | revertive owner, sender 3, each single driver call or flush may fail in any step | 583 811 | timers, port flags and ring cut survive handlers that end midway |
| `tx_threads` | two PDUs that differ in both halves, burst 1, interface 1 goes up and down | 2.9 million | no port is left silent, counters stay in range |
| `tx_live` | the same, interfaces stay up, fairness | 159 000 | calls end, the PDU goes out |
| `threads` | R-APS FS, SF and NR, operator's CLEAR, FS and MS, link 0 fails and comes back | 1 277 484 | timers and state stay tied together while handlers wait, give up and run late |
| `ring_safe` | 3 nodes, owner's ID lowest, 3 events of which 2 commands at most (FS, MS and CLEAR at the owner, FS and CLEAR at node 1, MS and CLEAR at the neighbour), one PDU delayed at a time, losses | 1 710 577 | when a loop is possible, that nobody rivals the owner, and that overlapping failures leave no owner waiting for nobody |
| `ring_recovers` | 3 nodes, owner's ID lowest or highest, any one link dark at start-up or none, 4 events, 2 commands, `Lossless`, `Isolated`, no CLEAR by the owner's operator | 23 103 | the ring comes back to its normal state |

**Bounds.** A node has two ports, as in the code, so the port set is no bound, and the runs of `ErpsNode`, `ErpsTx` and
`ErpsThreads` explore their state spaces completely, with no depth bound. IDs are compared in one place
(`erps_fsm_maybe_unblock_and_stop`), so one on each side of the node's own is enough. `ERPS_RAPS_BURST` is 2 in the
code; 1 distinguishes a burst from none, and 0 is used where no property reads it. One failure per step is enough, since
a chain ends at its first one; two failures need two steps. The fault run is restricted to the role with the most
state; what it checks is proved for all roles and
any combination of failures, under the hypotheses of section 6.

The ring is bounded by `N`, `MaxEvents` (link changes and commands), `MaxCommands` and `MaxDelayed`. Three nodes
are one of each role; two events make every pair of causes meet, and the third is what shows what the pair has
left behind. Larger instances were run once and gave the same results: `ring_safe` with every command at every node (2 198 453 states); `LoopNeedsStalePdu` and `FailureHeals`, with one PDU late and no
commands, for 4 link changes (4 408 442 states) and for 4 nodes and 2 link changes (4 976 846 states); `SettledRingRestored` under the assumptions of
`ring_recovers` with 4 commands and any order of the IDs (591 178 states), with 5 events and commands (561 111 states), with 4 nodes and 3
commands (106 783 states), and with `Transparent`. With `Transparent`, neither `Isolated` nor commands, and
one PDU late it holds for 4 link changes with `Lossless` (5 961 625 states), and, with no PDU late, without it (576 910 states).

**Late PDUs.** With one PDU late at a time, and no command while it is, links alone never close the ring without `stale`; each of the two
conditions is needed. Two late PDUs close it by one flap of one link: the run `ring_late_loop`. One late PDU and a manual switch close it within the bounds of
`ring_safe` (a switch starts no guard timer, so an old PDU may undo it). `FailureHeals` needs the condition too: with two late PDUs (`MaxDelayed` = 2) TLC finds
nodes that silence each other for good with the owner in PROTECTION. The protocol leaves late PDUs to the guard timer; it covers those
that were sent before it started, not those that are sent while it runs by nodes that have not heard of the failure.

**What the assumptions hide.** The run `ring_recovers` is about switches that do not forward R-APS across a blocked port. There,
without `Lossless`, `SettledRingRestored` and `RecoversEventually` fail: if the
whole R-APS(NR) burst of a recovered node is lost and it then gives way to the R-APS(NR) of a higher ID, it falls silent before
the owner has heard of the recovery, and the owner stays in PROTECTION. Without `Isolated` they fail too: a `failed` flag left set after four rapid changes keeps a good link
blocked, and a signal fail noticed during a remote forced switch is recorded as top request and makes the node refuse
the R-APS(NR) at its end. What is left without either assumption, as long as nobody gives a command, is `FailureHeals`: the ring can rest in another state
only when a blocked port keeps the owner from a node that sends (`OwnerInTouch`), as in the behaviours above that have no commands.
With driver failures `ReversionArmed`, `RevertsEventually` and, at the neighbour,
`OnlyOwnerAnnouncesRb` do not hold, with VLAN failures `PortsInSync` and `IdleOwnerCutsRing`: see the hazards.
The runs leave those out; they do not claim otherwise. `CHECK_DEADLOCK FALSE` is used in the ring runs, where events are
bounded and a settled ring may rest.

**Fairness.** `ErpsNode`: weak fairness of initialization, of the two timer works and of the guard
timer: the kernel runs `SYS_INIT` functions, the work queue runs an item whose
timeout has passed unless it is cancelled, and time passes. `ErpsTx`: weak fairness of each thread and each timeout.
`ErpsThreads`: the mutex is released again and again (`MutexReleased`, handlers end), the work queue gets it in the end
(strong fairness of `Lock("wq")`: a Zephyr mutex is handed to its waiters in turn, so no stream of
other callers starves one), the queue runs and timeouts end. `ErpsRing`: changes are noticed, delayed PDUs
arrive, timers expire, and what a node keeps sending is received. Nothing is assumed of operators, links or interfaces.

### Findings

Five runs check one statement of a comment or of the Kconfig help each, and TLC finds a behaviour in which the code does not
do what it says.

| run | statement | what the code does |
|---|---|---|
| `signal_fail_forgotten` | `erps.c:70`: `failed` tells whether the link has failed | a link lost during a local FS is ignored by the priority logic before it is marked, and not reported again |
| `ring_loop` | `Kconfig:15`: no loops | the interface-up callback makes the owner repeat (NR,RB) after it has opened the RPL; the nodes of another link open theirs |
| `ring_late_loop` | `Kconfig:15`: no loops | a link flaps; a late R-APS(SF) makes the owner open the RPL after the failure has ended, and the (NR,RB) it had sent before that, late and past the guard timer, makes the recovered node open its port: a loop until the WTR expires |
| `ring_stays_switched` | `erps.c:581`: CLEAR is ignored if a remote switch is the top request | `MIN(req, ...)` is always CLEAR, so the test is dead; the owner goes to PENDING without timer or blocked port and the ring is never restored |
| `ring_split` | `erps-internal.h:119`: unblock the non-failed links; `Kconfig:15`: recovery switching | CLEAR_SF does not reset `failed` (`erps.c:656` sets it, only unblocking resets it); once the RPL has failed and recovered, the owner holds it for failed although the ring is back to normal, leaves it blocked when another link fails (`erps.c:442`), and the ring is split by a single failure |

Other deviations, read off the code and not run on their own:

* `erps-internal.h:153`, `erps.c:797`: `erps_node_stop_tx` cancels without waiting; a TX work that runs meanwhile arms itself again
  (`erps.c:1243`), and the port goes on sending, every 5 seconds, until the next request. (`ErpsTx` has the behaviour.)
* `erps.c:615`: an FS, SF or MS whose handler fails in PENDING stays in `local_topreq`; a timer that runs on expires and is refused, and
  the owner waits without one (the exception in `DisarmedByFailureOnly`).
* `erps.c:572`: an MS is recorded as top request in states whose table has no action for it; the node then
  refuses R-APS(NR).
* `erps-fsm-protection.c:97`: CLEAR has no action in PROTECTION, but the priority logic has by then
  dropped the local signal fail.
* `erps.c:858`: the DNF test is inverted; `erps.c:842`: a pair of which one half has changed is not stored.
* `r-aps.h:141`: RB says that the RPL is blocked; `ring_loop` rests on an RB that is sent when it is not.
* `erps.c:473`: the waiting cancel does not cover the work a running handler arms again, so a PDU half
  old and half new can go out; `erps.c:46`: the burst may thereby start late. The next PDU is right (`CurrentPduSent`).
* `erps.c:705`: an expiry whose handler waits 250 ms for the mutex is lost; `erps.c:745`: a timer is not started
  while an old handler of it still runs. Either leaves the owner waiting until the next event (`late`).

## 5. Mutants

For every property of a passing run there is a plausible error in a definition (a comment "Mutant:"
above it) with which TLC finds that property violated. They show that the properties
constrain the code; the modules never use them.

## 6. Proofs

Every theorem is proved for all values of the constants that satisfy the assumptions of its module (any
roles, PDUs, IDs, burst length; rings of any length), and under the hypotheses listed with it. A node has two ports, as in
the code. `e` is the set of calls that fail in a step; unless a theorem restricts `Faults` it is arbitrary,
VLAN failures included.

### `ErpsFsmProofs`: the operators

No theorem, the lemmas all others share, in four layers. *Types*: each operator maps a `Node` to a `Node`, from
`erps_link_block` up to `erps_fsm_post_locked` and `erps_node_init`. *Timers*: `TimerInv`, the relation of timers,
state and top request, is kept by every post; what each helper leaves alone (`Quiet`, `Moves`) is stated once, so that
handlers' proofs need not open the helpers. *Effects*: `DispatchResult` says that a table whose calls succeed ends in one of
ten ways (`Effect`: it cuts here, opens ports, starts waiting, ends the wait, ...), and one with a failed call leaves state and top
request alone (`Stuck`). *Kept*: a call that fails in no VLAN leaves flags, driver and VLAN interfaces in agreement.

### `ErpsNodeProofs`: types, timers, forced switch

* `TypeCorrect`: `Spec => []TypeOK`.
* `TimersCorrect`: `Spec => []TimersOnlyWhileReverting`. Inductive together with `TypeOK`: a step may leave the timers running
  only if it leaves the state in PENDING, and only a chain that failed before the transition does that; every handler that leaves
  PENDING stops them on success; an accepted request of higher priority replaces the top request; the timer works clear
  their timer before they post, and the priority logic drops the `*_RUNNING` request that goes with it.
* `ForcedSwitchLasts`: `Spec => ForcedSwitchEndsByClear`. While FS is the top request the priority
  logic accepts only FS and CLEAR; with `NothingBeforeInit` (no request is recorded before
  initialization), every action but an operator's CLEAR keeps `topreq`.

### `ErpsRefinementProofs`: the abstract node

If no call fails (`Faults = {NoFault}`) and `SingleOwner`:

* `ServiceKept`: `Spec => ServiceProvided`, the refinement.
* `IdleShapeKept`: `Spec => []IdleRingShape`.

The argument follows one record through a handler. `Outcome(m, n, s, b, a)` says that m is n after calls
that end in state s with the ports b blocked and a announced; each call has a lemma, handlers compose them (`OutcomeChain`), and
`OutcomeMoves` says which outcomes are moves of the abstract node. Two facts about states are needed besides
`TypeOK`, and are inductive with it (`Shape`): in IDLE exactly the home cut is in place, or R-APS(NR,RB) and
R-APS(NR) would move ports there; and in PENDING no lasting local request is recorded, so that only the owner's CLEAR is
accepted, or a node without a home cut would announce RB. `StepMoves` has a step per action, `InitStarts` is initialization, and
`OffBeforeInit` says what holds until then.

### `ErpsGuaranteeProofs`: ports, announcements, waiting

`StepCases` reduces every step of the node to one of three: initialization, a post (`PostStep`: the table is given a record
that agrees with the node on all but what action and priority logic have changed, and ends in an `Effect` or `Stuck`), or a
step that leaves ports, top request and timers alone. A theorem is then an argument about the ends of a post.

| theorem | property | hypotheses |
|---|---|---|
| `PeersFlush` | `PeersFlushWithNode` | none |
| `BlockFlushes` | `NewBlockFlushes` | none |
| `PortsAgree` | `PortsInSync` | no VLAN call fails |
| `IdleOwnerCuts` | `IdleOwnerCutsRing` | no VLAN call fails, `SingleOwner` |
| `OnlyFailureDisarms` | `DisarmedByFailureOnly` | `SingleOwner` |
| `WaitArmed` | `ReversionArmed` | no call fails, `SingleOwner` |
| `OwnerAnnounces` | `OwnerAnnouncesRplBlocked` | no call fails, `SingleOwner` |
| `OwnerOnlySaysRb` | `OnlyOwnerAnnouncesRb` | no call fails, `SingleOwner` |
| `BlockedAdvertised` | `BlockedPortAdvertised` | no call fails, `SingleOwner` |
| `ForcedSwitchHolds` | `ForcedSwitchInForce` | no call fails |
| `SignalFailHolds` | `SignalFailAdvertised` | no call fails |

The hypotheses are what the code needs. A VLAN interface that is not found ends `erps_link_block` with the flag set
and the interface up (`erps.c:364`), so flags and interfaces then disagree. An owner that hears (NR,RB) goes to IDLE and
stops its timers without blocking anything (`erps-fsm-pending.c:257`), which is right only if nobody else says it; a ring has one owner
(`OwnerAlone` below proves that nobody else does). A handler that fails has done part of its work: hence the properties
of announcements need calls that succeed. The invariants used on the way: before initialization nothing
is recorded or blocked (`BeforeBoot`), the top request is never one that does not last (`TopRequestLasts`), and no handler
fails where none may (`AllWell`).

`OnlyFailureDisarms` assumes nothing of the past: the node may come from any sequence of failed calls. Its two halves are about a step in which no call
fails. A local request gets into `local_topreq` in PENDING only with a handler that fails there, so such a step adds none. And it takes the timer only as an
expiry that is refused, which, without a local request in effect, cannot happen (`ExpiryAccepted`); with one it can, and
this case is in the statement (`ExpiryRefused`), with TLC finding it at once if it is left out. `ReversionArmed`, with both halves as a state
predicate, is what remains when no call fails.

### `KWorkProofs` and `ErpsTxProofs`: transmission

* `TypeCorrect`: `Spec => []TypeOK` of `ErpsTx`; torn and lost stores leave the burst counters in range.
* `ScheduledPortsSend`: `Spec => []ScheduledPortsTransmit`, for any PDUs, burst lengths and interfaces that go up and down.

`KWorkProofs` says what each operation of the work queue does to an item: where it may be (delayed, queued, running), and when a
cancellation is outstanding. The invariant of `ErpsTxProofs` ties the work queue, the program counter of the handler and the
owner of the mutex together. Its core: a waiting cancel returns only when no handler runs, so no cancellation is outstanding when
`sched_tx` schedules a port, and the work so scheduled stays alive (`Live`) until somebody cancels it again; the PDU is whole except between the two stores.
Without the waiting cancel (`CancelAsync`, a mutant) a port may be left silent.

### `ErpsThreadsProofs`: the threads

For any requests heard and commanded, IDs and flapping links, whichever thread gets or gives up on the mutex:

* `TypeCorrect`: `Spec => []TypeOK`, one holder of the mutex at most included.
* `TimersCorrect`: `Spec => []TimersOnlyWhileReverting`.
* `RunningTimed`: `Spec => []TopRequestTimed`.

What a handler is told of the timers is not `TimerInv`: an item whose handler runs, or waits for the mutex, counts as pending in every
state. So a post is described anew (`PendingPostStarts`, `SwitchedPostsStart`): a handler starts a timer on the way to PENDING only, and
records it as top request only when it does (`Starts`). The inductive invariant says that only the work queue posts expiries, and those of the item it runs
(`Control`); an item is in one place at most, because a timer is not started while it is pending (`Separate`); and where the armed timers are while a thread
waits (`Waits`, `Awaited`). `Followed` says that the queue follows the record the handler returns. The one way a timer of the top request may be lost is recorded in `late`.

### `ErpsRingProofs`: the ring

For any number of nodes, IDs, commands, links dark at start-up, lost and late PDUs, with and without `Transparent`, and with no bound on events:

* `TypeCorrect`: `Spec => []TypeOK`.
* `OwnerAlone`: `Spec => []OwnerUnrivalled`.
* `LoopsOpenRpl`: `Spec => []LoopOpensRpl`.
* `LoopsNeedStale`: `Spec => []LoopNeedsStalePdu`.
* `FailuresHealed`: `Spec => []FailureHeals`, if `Revertive`.

None of them assumes `Lossless` or `Isolated`, and none bounds the PDUs that are late: the statements of the last two say what they need (`overlap`).

The inductive invariant of the first three, `RingInv`, has a part per node (`Sound`: an idle node of the RPL blocks it, nothing lasting is the top request in PENDING, only the
owner says RB) and a part per PDU in flight (`Unrivalled`). Neither is inductive alone: the owner stays `Sound` because it hears no RB, and nobody
says RB because all are `Sound`. This discharges `SingleOwner`, an assumption of `ErpsNode`, where nodes make a ring. As operators of
`ErpsFsm`, the posts need no new lemma: `PostResult` and the effects of `ErpsFsmProofs` are enough.

`LoopsNeedStale` needs more, because no node knows that it is the last one blocked. The invariant is `RingInv /\ (overlap \/ CutInv)`. While nothing is `stale`, some node
is blocked and **whoever sends is blocked** (`SpeaksBlocked`): a node that hears another and opens its ports, as R-APS(SF), (NR,RB) or an NR of a higher ID
make it do, leaves the sender blocked. `stale` is what breaks this. The sender of a PDU that is late may have opened its ports since, so for each PDU in flight
`Covered` says who will be blocked when it arrives: a node that rejects or drops whatever it may be (`Committed`: it has a signal fail, or its guard timer outlasts the
PDU); or the owner, if it holds the RPL and the PDU is no signal fail; or, against an NR, a blocked node whose ID is not lower than the
sender's. Every step must keep one of the three: a signal fail or its end commits the node it is posted at; a node that gives way to a PDU leaves its
sender; an owner that stops holding the RPL does so for a signal fail somebody has. That uses what a ring without commands looks like (`UnswitchedRing`:
who says SF has a signal fail, and an owner that says RB holds the RPL), which is why a PDU that is late once a command was given counts as `overlap`, and that
nobody else in flight can undo the cover in between, which is why two late PDUs do. What has overlapped stays so (`OverlapStays`). The proof found an error in an earlier form of the model, in which a guard timer started again
while it runs did not outlast the PDUs sent since its first start; the code sets its expiry anew (`erps.c:730`).

`FailuresHealed` says that, without commands, no sequence of link failures leaves a node behind, although a node that gives way falls silent and bursts
are lost. The invariant is `RingInv /\ (overlap \/ (CutInv /\ HealInv))`. What could go wrong is an owner waiting in PROTECTION for a failure elsewhere to end, when nobody is
left to say that it has. `Told` excludes this: while the owner waits (`Awaits`), some node has a signal fail or sends. A node that falls silent because it
heard another leaves that one sending; one that falls silent because of a PDU that is late leaves who is named by `Answered`, the counterpart of `Covered`. `Orderly`
is what a node has to be for the rest: a waiting node is silent, a failing one has a port down, an idle owner announces (NR,RB) on all ports that are up, an
owner in PENDING has a timer. In a ring at rest all ports are up, so no node is failing. If the owner hears who speaks (`OwnerInTouch`), it is neither
in PENDING, where a timer would run, nor in PROTECTION, because it would heed the node that speaks (`NoRequestHeeded`); so it is idle and says so, and any other node not idle would heed that (`RestoreHeeded`). With commands the
statement is false (`ring_stays_switched`), and without `OwnerInTouch` too (section 4), unless switches forward R-APS across a blocked port: then every
node of such a ring hears every other that sends.

### Model-checked only

Liveness (`RevertsEventually`, `CallsComplete`, `CurrentPduSent`, `WaitEnds`, `RecoversEventually`), which under fairness is out of
the prover's reach; `SettledRingRestored` of `ErpsRing` beyond `FailuresHealed`: with commands, or between switches that do not forward R-APS across a
blocked port, it is false in general (`ring_stays_switched` refutes it, and see "What the assumptions
hide") and holds of the instance of `ring_recovers`; and what the five runs with findings refute.

## 7. Not modelled, and the plan

Not modelled:

* frame and VLAN header parsing, PDU layout, packet allocation and padding, queries, shell
  parsing and printing, devicetree macros, build files and the sample: they keep no protocol state, and what they pass on
  is an input of the actions;
* the configuration interface: it sets roles before initialization, and every run starts from all roles it can set. (It has a
  defect of its own, `erps.c:1438`, listed as a hazard.);
* the race on the (node ID, BPR) pair, updated without the mutex at `erps.c:848` while `erps_link_block` clears it: it decides
  about a flush only;
* the forwarding database itself: a flush is an event of a step, not a state.

What is left of the plan, in this order:

1. `SettledRingRestored` for commands that are not a CLEAR at the owner, and for switches that do not forward R-APS, under `Isolated` and
   `Lossless`: both need an invariant about who has heard what, where `Told` needs only somebody who speaks.
2. An abstract ring (a settled ring has exactly one cut) implemented by `ErpsRing`.
3. The (node ID, BPR) logic against section 10.1.10 as the comments state it.
