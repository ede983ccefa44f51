-------------------------------- MODULE ErpsTx --------------------------------
(***************************************************************************)
(* Transmission of R-APS PDUs, step by step (erps.c).  Three threads share *)
(* node->pdu_mut, the tx_burst counters and the TX works:                  *)
(*    - the thread that runs the state machine with node->fsm_mutex held,  *)
(*      in erps_node_sched_tx or erps_node_stop_tx: a receiving thread or  *)
(*      a caller of net_erps_ctl ("rx"), or the system work queue itself,  *)
(*      in the handler of a timer ("wq");                                  *)
(*    - the system work queue, in erps_tx_work, which takes no mutex;      *)
(*    - the network management thread, in erps_iface_up_cb, which takes    *)
(*      none either.                                                       *)
(* ErpsFsm and ErpsNode take each of these as one step; here a step is one *)
(* access to shared data or one call of the kernel.                        *)
(***************************************************************************)
EXTENDS Integers, FiniteSets, Sequences

CONSTANTS Pdus,             \* the PDUs the handlers schedule: [rs, status]
          ERPS_RAPS_BURST,  \* PDUs of a burst, minus one
          Flapping,         \* ports whose interface may come up or go down
          Timer, NoItem     \* a timer's work item; no item

Port == {0, 1}
Item == Port \cup {Timer}

INSTANCE KWork

ASSUME TxAssumption ==
  /\ ERPS_RAPS_BURST \in Nat /\ Flapping \subseteq Port
  /\ Timer \notin Port /\ NoItem \notin Item
  /\ \A m \in Pdus : m = [rs |-> m.rs, status |-> m.status]

VARIABLES pdu,    \* node->pdu_mut
          burst,  \* tx_burst of the links
          up,     \* ports whose interface is up
          event,  \* per port, how far NET_EVENT_IF_UP has got
          work,   \* the system work queue
          short,  \* ports whose timeout was started with the burst period
          owner,  \* the holder of node->fsm_mutex: "rx", "wq" or "none"
          fsm,    \* the call of sched_tx or stop_tx under way
          tx,     \* the handler the work queue is in
          plan    \* what the last completed call asked for

vars == <<pdu, burst, up, event, work, short, owner, fsm, tx, plan>>

(* No half of a PDU has been read.                                         *)
Unread == "unread"
NotSending == [pc |-> "idle", rs |-> Unread, burst |-> 0]

Init ==
  /\ pdu \in Pdus
  /\ burst = [p \in Port |-> 0]
  /\ up \in {Port \ down : down \in SUBSET Flapping}
  /\ event = [p \in Port |-> "none"]
  /\ work = [delayed |-> {Timer}, queue |-> <<>>, running |-> NoItem, canceling |-> {}]
  /\ short = {}
  /\ owner = "none"
  /\ fsm = [pc |-> "idle", new |-> pdu]
  /\ tx = NotSending
  /\ plan = "stop"

-----------------------------------------------------------------------------
(***************************************************************************)
(* erps_node_sched_tx and erps_node_stop_tx, called by a handler of the    *)
(* state machine.  "rx" is the thread that posted; a timer's handler runs  *)
(* them on the work queue.                                                 *)
(***************************************************************************)
Goto(pc) == fsm' = [fsm EXCEPT !.pc = pc]

Call(thread) ==
  /\ owner = "none"
  /\ owner' = thread
  /\ \/ \E new \in Pdus : fsm' = [pc |-> "cancel0", new |-> new]
     \/ fsm' = [pc |-> "stop0", new |-> pdu]

Post == /\ Call("rx")
        /\ UNCHANGED <<pdu, burst, up, event, work, short, tx, plan>>

Disarm(p) == /\ work' = k_work_cancel_delayable(work, p)
             /\ short' = short \ {p}

(* Mutant: the cancel does not wait for a handler that runs.               *)
CancelAsync(p, pc, wait, next) ==
  /\ fsm.pc = pc
  /\ Disarm(p)
  /\ Goto(next)
  /\ UNCHANGED <<pdu, burst, up, event, owner, tx, plan>>

(* k_work_cancel_delayable_sync: the caller waits for a handler that runs. *)
(* On the work queue it never has to: the handler that runs is its own.    *)
CancelSync(p, pc, wait, next) ==
  /\ fsm.pc = pc
  /\ Disarm(p)
  /\ Goto(IF work.running = p THEN wait ELSE next)
  /\ UNCHANGED <<pdu, burst, up, event, owner, tx, plan>>

Canceled(p, wait, next) ==
  /\ fsm.pc = wait
  /\ p \notin work.canceling
  /\ Goto(next)
  /\ UNCHANGED <<pdu, burst, up, event, work, short, owner, tx, plan>>

(* A burst is due if either half of the PDU changes.                       *)
StoreRsSc ==
  /\ fsm.pc = "rs_sc"
  /\ pdu' = [pdu EXCEPT !.rs = fsm.new.rs]
  /\ fsm' = [pc |-> IF pdu.rs = fsm.new.rs THEN "same" ELSE "changed", new |-> fsm.new]
  /\ UNCHANGED <<burst, up, event, work, short, owner, tx, plan>>

StoreStatus ==
  /\ fsm.pc \in {"same", "changed"}
  /\ pdu' = [pdu EXCEPT !.status = fsm.new.status]
  /\ Goto(IF fsm.pc = "same" /\ pdu.status = fsm.new.status THEN "none" ELSE "burst")
  /\ UNCHANGED <<burst, up, event, work, short, owner, tx, plan>>

StoreBurst ==
  /\ fsm.pc \in {"none", "burst"}
  /\ burst' = [p \in Port |-> IF fsm.pc = "burst" THEN ERPS_RAPS_BURST ELSE 0]
  /\ Goto("arm0")
  /\ UNCHANGED <<pdu, up, event, work, short, owner, tx, plan>>

(* k_work_reschedule with the burst period or the regular one.             *)
Arm(p, soon) ==
  /\ work' = k_work_reschedule(work, p)
  /\ short' = IF soon THEN short \cup {p} ELSE short \ {p}

ArmIfUp(p, pc, next) ==
  /\ fsm.pc = pc
  /\ IF p \in up THEN Arm(p, burst[p] > 0) ELSE UNCHANGED <<work, short>>
  /\ plan' = "sched"
  /\ Goto(next)
  /\ UNCHANGED <<pdu, burst, up, event, owner, tx>>

StopTx(p, pc, next) ==
  /\ fsm.pc = pc
  /\ Disarm(p)
  /\ plan' = "stop"
  /\ Goto(next)
  /\ UNCHANGED <<pdu, burst, up, event, owner, tx>>

(* The handler returns.  It may have started a timer.                      *)
Unlock ==
  /\ fsm.pc = "unlock"
  /\ owner' = "none"
  /\ Goto("idle")
  /\ tx' = IF owner = "wq" THEN [tx EXCEPT !.pc = "return"] ELSE tx
  /\ work' \in {work, k_work_reschedule(work, Timer)}
  /\ UNCHANGED <<pdu, burst, up, event, short, plan>>

StateMachine ==
  \/ CancelSync(0, "cancel0", "wait0", "cancel1")
  \/ Canceled(0, "wait0", "cancel1")
  \/ CancelSync(1, "cancel1", "wait1", "rs_sc")
  \/ Canceled(1, "wait1", "rs_sc")
  \/ StoreRsSc \/ StoreStatus \/ StoreBurst
  \/ ArmIfUp(0, "arm0", "arm1") \/ ArmIfUp(1, "arm1", "unlock")
  \/ StopTx(0, "stop0", "stop1") \/ StopTx(1, "stop1", "unlock")
  \/ Unlock

-----------------------------------------------------------------------------
(***************************************************************************)
(* The system work queue.  The regular period of 5 s is long against a     *)
(* call: it does not end in the middle of one.                             *)
(***************************************************************************)
TimeoutEnds(i) ==
  /\ i \in work.delayed
  /\ i \in Port \ short => fsm.pc = "idle"
  /\ work' = work_timeout(work, i)
  /\ short' = short \ {i}
  /\ UNCHANGED <<pdu, burst, up, event, owner, fsm, tx, plan>>

TakeItem ==
  /\ work.running = NoItem /\ work.queue # <<>>
  /\ work' = WorkTaken(work)
  /\ tx' = [tx EXCEPT !.pc = IF Head(work.queue) = Timer THEN "lock" ELSE "start"]
  /\ UNCHANGED <<pdu, burst, up, event, short, owner, fsm, plan>>

(* A timer's handler waits for the mutex, for 250 ms.                      *)
TimerPosts ==
  /\ tx.pc = "lock"
  /\ Call("wq")
  /\ tx' = [tx EXCEPT !.pc = "posted"]
  /\ UNCHANGED <<pdu, burst, up, event, work, short, plan>>

TimerGivesUp ==
  /\ tx.pc = "lock" /\ owner # "none"
  /\ tx' = [tx EXCEPT !.pc = "return"]
  /\ UNCHANGED <<pdu, burst, up, event, work, short, owner, fsm, plan>>

(* erps_tx_work: nothing is sent if the interface is down.                 *)
Step(pc) == tx.pc = pc /\ work.running \in Port
NoStore == UNCHANGED <<pdu, up, event, owner, fsm, plan>>

(* Mutant: the handler takes the mutex the state machine holds.            *)
TxStartLocked ==
  /\ Step("start") /\ owner = "none"
  /\ tx' = [tx EXCEPT !.pc = "rs_sc"]
  /\ NoStore /\ UNCHANGED <<burst, work, short>>

TxStart ==
  /\ Step("start")
  /\ tx' = [tx EXCEPT !.pc = IF work.running \in up THEN "rs_sc" ELSE "burst"]
  /\ NoStore /\ UNCHANGED <<burst, work, short>>

ReadRsSc ==
  /\ Step("rs_sc")
  /\ tx' = [tx EXCEPT !.pc = "status", !.rs = pdu.rs]
  /\ NoStore /\ UNCHANGED <<burst, work, short>>

(* The PDU that goes out if the handler reads the status now.              *)
Wire == [rs |-> tx.rs, status |-> pdu.status]
Sending(p) == Step("status") /\ work.running = p /\ p \in up

ReadStatusAndSend ==
  /\ Step("status")
  /\ tx' = [tx EXCEPT !.pc = "burst", !.rs = Unread]
  /\ NoStore /\ UNCHANGED <<burst, work, short>>

(* Mutant: the counter is decremented at zero too.                         *)
ReadBurstUnguarded ==
  /\ Step("burst")
  /\ tx' = [tx EXCEPT !.pc = "store", !.burst = burst[work.running]]
  /\ NoStore /\ UNCHANGED <<burst, work, short>>

ReadBurst ==
  /\ Step("burst")
  /\ tx' = [tx EXCEPT !.pc = IF burst[work.running] > 0 THEN "store" ELSE "again",
                      !.burst = burst[work.running]]
  /\ NoStore /\ UNCHANGED <<burst, work, short>>

StoreDecremented ==
  /\ Step("store")
  /\ burst' = [burst EXCEPT ![work.running] = tx.burst - 1]
  /\ tx' = [tx EXCEPT !.pc = "again"]
  /\ NoStore /\ UNCHANGED <<work, short>>

(* Mutant: the handler ends the transmission with the burst.               *)
NotAgainAfterBurst ==
  /\ Step("again")
  /\ IF tx.burst > 0 THEN Arm(work.running, TRUE) ELSE UNCHANGED <<work, short>>
  /\ tx' = [tx EXCEPT !.pc = "return"]
  /\ NoStore /\ UNCHANGED <<burst>>

(* The handler schedules itself again whatever happened meanwhile.         *)
Again ==
  /\ Step("again")
  /\ Arm(work.running, tx.burst > 0)
  /\ tx' = [tx EXCEPT !.pc = "return"]
  /\ NoStore /\ UNCHANGED <<burst>>

Return ==
  /\ tx.pc = "return"
  /\ work' = HandlerReturned(work)
  /\ tx' = NotSending
  /\ NoStore /\ UNCHANGED <<burst, short>>

WorkQueue ==
  \/ TakeItem \/ TimerPosts \/ TimerGivesUp
  \/ TxStart \/ ReadRsSc \/ ReadStatusAndSend
  \/ ReadBurst \/ StoreDecremented \/ Again \/ Return

-----------------------------------------------------------------------------
(***************************************************************************)
(* Interfaces, and erps_iface_up_cb on the network management thread: it   *)
(* reads tx_burst, then arms the TX work.                                  *)
(***************************************************************************)
IfaceDown(p) ==
  /\ p \in up
  /\ up' = up \ {p}
  /\ UNCHANGED <<pdu, burst, event, work, short, owner, fsm, tx, plan>>

IfaceUp(p) ==
  /\ p \notin up /\ event[p] = "none"
  /\ up' = up \cup {p}
  /\ event' = [event EXCEPT ![p] = "raised"]
  /\ UNCHANGED <<pdu, burst, work, short, owner, fsm, tx, plan>>

Handled == {"long", "short"}

IfaceUpCbReads(p) ==
  /\ event[p] = "raised" /\ event[1 - p] \notin Handled
  /\ event' = [event EXCEPT ![p] = IF burst[p] > 0 THEN "short" ELSE "long"]
  /\ UNCHANGED <<pdu, burst, up, work, short, owner, fsm, tx, plan>>

IfaceUpCbArms(p) ==
  /\ event[p] \in Handled
  /\ Arm(p, event[p] = "short")
  /\ event' = [event EXCEPT ![p] = "none"]
  /\ UNCHANGED <<pdu, burst, up, owner, fsm, tx, plan>>

IfaceUpCb == \E p \in Port : IfaceUpCbReads(p) \/ IfaceUpCbArms(p)

Next == \/ Post \/ StateMachine \/ WorkQueue \/ IfaceUpCb
        \/ \E i \in Item : TimeoutEnds(i)
        \/ \E p \in Flapping : IfaceDown(p) \/ IfaceUp(p)

Spec == Init /\ [][Next]_vars

(* A thread that can go on does; a timeout that is running ends.           *)
FairSpec == /\ Spec
            /\ WF_vars(StateMachine) /\ WF_vars(WorkQueue)
            /\ WF_vars(IfaceUpCb)
            /\ \A i \in Item : WF_vars(TimeoutEnds(i))

-----------------------------------------------------------------------------
(***************************************************************************)
(* Properties.                                                             *)
(***************************************************************************)

(* Every shared variable keeps its type; the torn and lost stores never    *)
(* drive a burst counter over its limit or below zero.                     *)
TypeOK ==
  /\ pdu.rs \in {m.rs : m \in Pdus} /\ pdu.status \in {m.status : m \in Pdus}
  /\ burst \in [Port -> 0 .. ERPS_RAPS_BURST]
  /\ up \subseteq Port /\ short \subseteq Port
  /\ event \in [Port -> {"none", "raised"} \cup Handled]
  /\ work \in Work /\ owner \in {"none", "rx", "wq"}
  /\ fsm.new \in Pdus /\ tx.burst \in 0 .. ERPS_RAPS_BURST
  /\ plan \in {"sched", "stop"}

(* After erps_node_sched_tx every port that is up transmits: its work is   *)
(* armed, queued, about to arm itself, or the interface's event will arm   *)
(* it.  The cancels, the running handler's own reschedule, and interfaces  *)
(* that come up in between must not leave a port silent.                   *)
ScheduledPortsTransmit ==
  owner = "none" /\ plan = "sched" =>
    \A p \in up : \/ p \in work.delayed \cup Queued(work)
                 \/ (work.running = p /\ tx.pc # "return")
                 \/ event[p] # "none"

(* A call of the state machine comes to its end: what it waits for with    *)
(* the mutex held does not need the mutex.                                 *)
CallsComplete == owner # "none" ~> owner = "none"

(* A port that is up sends the scheduled PDU in the end, whatever older or *)
(* torn PDU it has sent while it was scheduled.                            *)
CurrentPduSent ==
  \A p \in Port : owner = "none" /\ plan = "sched" /\ p \in up
                 ~> (Sending(p) /\ Wire = pdu) \/ owner # "none" \/ p \notin up
=============================================================================
