----------------------------- MODULE ErpsTxProofs -----------------------------
(***************************************************************************)
(* Proofs about ErpsTx, for any PDUs, any burst length and any interfaces  *)
(* that come and go.                                                       *)
(***************************************************************************)
EXTENDS ErpsTx, TLAPS

K == INSTANCE KWorkProofs

(* The calls of KWork are those its lemmas are about.                      *)
LEMMA SameCalls ==
  \A k, i : /\ k_work_reschedule(k, i) = K!k_work_reschedule(k, i)
            /\ k_work_cancel_delayable(k, i) = K!k_work_cancel_delayable(k, i)
            /\ work_timeout(k, i) = K!work_timeout(k, i)
            /\ WorkTaken(k) = K!WorkTaken(k)
            /\ HandlerReturned(k) = K!HandlerReturned(k)
            /\ Queued(k) = K!Queued(k)
            /\ k \in Work <=> k \in K!Work
<1> TAKE k, i
<1>1. Queued(k) = K!Queued(k)
  BY DEF Queued, K!Queued, ToSet, K!ToSet
<1>2. k_work_reschedule(k, i) = K!k_work_reschedule(k, i)
  BY Zenon DEF k_work_reschedule, K!k_work_reschedule
<1>3. k_work_cancel_delayable(k, i) = K!k_work_cancel_delayable(k, i)
  BY Zenon
  DEF k_work_cancel_delayable, K!k_work_cancel_delayable, RemoveFirst,
      K!RemoveFirst, RemoveAt, K!RemoveAt, SelectInSeq, K!SelectInSeq, Min, K!Min
<1>4. work_timeout(k, i) = K!work_timeout(k, i)
  BY <1>1, Zenon DEF work_timeout, K!work_timeout
<1>5. WorkTaken(k) = K!WorkTaken(k)
  BY Zenon DEF WorkTaken, K!WorkTaken
<1>6. HandlerReturned(k) = K!HandlerReturned(k)
  BY Zenon DEF HandlerReturned, K!HandlerReturned
<1>7. k \in Work <=> k \in K!Work
  BY Zenon DEF Work, K!Work
<1> QED
  BY <1>1, <1>2, <1>3, <1>4, <1>5, <1>6, <1>7

-----------------------------------------------------------------------------
(***************************************************************************)
(* The inductive invariant.                                                *)
(***************************************************************************)
Storing == {"rs_sc", "same", "changed", "none", "burst"}
FsmPc == {"idle", "cancel0", "wait0", "cancel1", "wait1", "arm0", "arm1", "stop0",
          "stop1", "unlock"} \cup Storing
Sends == {"start", "rs_sc", "status", "burst", "store", "again"}
TxPc == {"idle", "lock", "posted", "return"} \cup Sends

Rs == {m.rs : m \in Pdus}
Status == {m.status : m \in Pdus}

Types ==
  /\ pdu \in [rs : Rs, status : Status]
  /\ burst \in [Port -> 0 .. ERPS_RAPS_BURST]
  /\ up \subseteq Port /\ short \subseteq Port
  /\ event \in [Port -> {"none", "raised"} \cup Handled]
  /\ K!Sane(work) /\ owner \in {"none", "rx", "wq"}
  /\ fsm \in [pc : FsmPc, new : Pdus]
  /\ tx \in [pc : TxPc, rs : Rs \cup {Unread}, burst : 0 .. ERPS_RAPS_BURST]
  /\ plan \in {"sched", "stop"}
  /\ IF fsm.pc \in {"same", "changed"} THEN pdu.rs = fsm.new.rs ELSE pdu \in Pdus

(* Where each thread is, and what it holds.                                *)
Control ==
  /\ work.running = NoItem <=> tx.pc = "idle"
  /\ work.running = Timer => tx.pc \in {"lock", "posted", "return"}
  /\ work.running \in Port => tx.pc \in Sends \cup {"return"}
  /\ owner = "none" <=> fsm.pc = "idle"
  /\ owner = "wq" <=> tx.pc = "posted"
  /\ tx.pc = "store" => tx.burst > 0

(* A call of sched_tx has been completed, or has only to unlock.           *)
Scheduled == plan = "sched" /\ fsm.pc \in {"unlock", "idle"}

(* The waiting cancels have done their work: a timeout that ends is not    *)
(* dropped for a cancellation that is still under way.                     *)
Uncancelled ==
  /\ Scheduled \/ fsm.pc \in Storing \cup {"cancel1", "wait1", "arm0", "arm1"} =>
       0 \notin work.canceling
  /\ Scheduled \/ fsm.pc \in Storing \cup {"arm0", "arm1"} => 1 \notin work.canceling

(* The port sends again without anybody's help.                            *)
Live(p) == \/ p \in work.delayed \cup Queued(work)
           \/ work.running = p /\ tx.pc # "return"
           \/ event[p] # "none"

Transmitting ==
  /\ Scheduled => \A p \in up : Live(p)
  /\ fsm.pc = "arm1" /\ 0 \in up => Live(0)

IInv == Types /\ Control /\ Uncancelled /\ Transmitting

(* Initialization of the subsystem.                                        *)
LEMMA InitIInv == Init => IInv
<1> SUFFICES ASSUME Init PROVE IInv
  OBVIOUS
<1>1. K!Sane(work) /\ work.canceling = {} /\ work.running = NoItem
  <2>1. work = [delayed |-> {Timer}, queue |-> <<>>, running |-> NoItem, canceling |-> {}]
    BY DEF Init
  <2>2. work.queue = <<>> /\ <<>> \in Seq(Item) /\ K!NoTwice(<<>>)
    BY <2>1, K!NothingTwice
  <2>3. work \in K!Work
    BY <2>1, <2>2 DEF K!Work, Item
  <2> QED
    BY <2>1, <2>2, <2>3 DEF K!Sane
<1>2. 0 \in 0 .. ERPS_RAPS_BURST
  BY TxAssumption
<1>3. Types
  BY <1>1, <1>2, TxAssumption
  DEF Init, Types, NotSending, FsmPc, TxPc, Handled, Rs, Status
<1>4. Control
  BY <1>1, TxAssumption DEF Init, Control, NotSending, Item
<1>5. Uncancelled /\ Transmitting
  BY <1>1 DEF Init, Uncancelled, Transmitting, Scheduled
<1> QED
  BY <1>3, <1>4, <1>5 DEF IInv

(* What is known of constants and of the queue in every step.              *)
LEMMA Basics ==
  ASSUME IInv
  PROVE  /\ Types /\ Control /\ Uncancelled /\ Transmitting /\ K!Sane(work)
         /\ Timer \notin Port /\ NoItem \notin Item /\ 0 \in Port /\ 1 \in Port
         /\ Port \subseteq Item /\ Port = {0, 1} /\ Timer \in Item
         /\ work.canceling \subseteq {work.running}
         /\ work.running \in Item \cup {NoItem} /\ work.delayed \subseteq Item
         /\ ERPS_RAPS_BURST \in Nat
BY TxAssumption DEF IInv, Types, Port, Item, K!Sane, K!Work

(* A timeout that is started, stopped, or ends.                            *)
LEMMA WorkCalls ==
  ASSUME IInv, NEW i \in Item
  PROVE  /\ work' = k_work_reschedule(work, i) =>
              /\ K!Sane(work') /\ work'.delayed = work.delayed \cup {i}
              /\ Queued(work)' = Queued(work) /\ work'.running = work.running
              /\ work'.canceling = work.canceling
         /\ work' = k_work_cancel_delayable(work, i) =>
              /\ K!Sane(work') /\ work'.delayed = work.delayed \ {i}
              /\ Queued(work)' = Queued(work) \ {i} /\ work'.running = work.running
              /\ work'.canceling = work.canceling \cup ({i} \cap {work.running})
         /\ i \in work.delayed /\ work' = work_timeout(work, i) =>
              /\ K!Sane(work') /\ work'.delayed = work.delayed \ {i}
              /\ work'.running = work.running /\ work'.canceling = work.canceling
              /\ Queued(work)' = IF i \in work.canceling THEN Queued(work)
                                ELSE Queued(work) \cup {i}
<1>0. K!Sane(work)
  BY Basics
<1>1. ASSUME work' = k_work_reschedule(work, i)
      PROVE  /\ K!Sane(work') /\ work'.delayed = work.delayed \cup {i}
             /\ Queued(work)' = Queued(work) /\ work'.running = work.running
             /\ work'.canceling = work.canceling
  <2>1. work' = K!k_work_reschedule(work, i)
    BY <1>1, SameCalls
  <2> QED
    BY <1>0, <2>1, K!Rescheduled DEF Queued
<1>2. ASSUME work' = k_work_cancel_delayable(work, i)
      PROVE  /\ K!Sane(work') /\ work'.delayed = work.delayed \ {i}
             /\ Queued(work)' = Queued(work) \ {i} /\ work'.running = work.running
             /\ work'.canceling = work.canceling \cup ({i} \cap {work.running})
  <2>1. work' = K!k_work_cancel_delayable(work, i)
    BY <1>2, SameCalls
  <2> QED
    BY <1>0, <2>1, SameCalls, K!Canceled
<1>3. ASSUME i \in work.delayed, work' = work_timeout(work, i)
      PROVE  /\ K!Sane(work') /\ work'.delayed = work.delayed \ {i}
             /\ work'.running = work.running /\ work'.canceling = work.canceling
             /\ Queued(work)' = IF i \in work.canceling THEN Queued(work)
                               ELSE Queued(work) \cup {i}
  <2>1. work' = K!work_timeout(work, i)
    BY <1>3, SameCalls
  <2> QED
    BY <1>0, <1>3, <2>1, SameCalls, K!TimeoutEnded
<1> QED
  BY <1>1, <1>2, <1>3

(* A step of the call under way: sched_tx or stop_tx.                      *)
LEMMA StateMachineKeeps == IInv /\ StateMachine => IInv'
<1> SUFFICES ASSUME IInv, StateMachine PROVE IInv'
  OBVIOUS
<1>1. CASE CancelSync(0, "cancel0", "wait0", "cancel1")
  <2>1. Types'
    BY Basics, WorkCalls, <1>1, TxAssumption
    DEF CancelSync, Disarm, Goto, Types, Control, FsmPc, TxPc, Storing, Sends, Rs,
        Status
  <2>2. Control'
    BY Basics, WorkCalls, <1>1 DEF CancelSync, Disarm, Goto, Types, Control, Sends
  <2>3. Uncancelled'
    BY Basics, WorkCalls, <1>1
    DEF CancelSync, Disarm, Goto, Types, Uncancelled, Scheduled, Storing
  <2>4. Transmitting'
    BY Basics, WorkCalls, <1>1
    DEF CancelSync, Disarm, Goto, Types, Control, Transmitting, Scheduled, Live,
        Storing, Sends, Uncancelled
  <2> QED
    BY <2>1, <2>2, <2>3, <2>4 DEF IInv
<1>2. CASE Canceled(0, "wait0", "cancel1")
  <2>1. Types'
    BY Basics, <1>2, TxAssumption
    DEF Canceled, Goto, Types, Control, FsmPc, TxPc, Storing, Sends, Rs, Status
  <2>2. Control'
    BY Basics, <1>2 DEF Canceled, Goto, Types, Control, Sends
  <2>3. Uncancelled'
    BY Basics, <1>2 DEF Canceled, Goto, Types, Uncancelled, Scheduled, Storing
  <2>4. Transmitting'
    BY Basics, <1>2
    DEF Canceled, Goto, Types, Control, Transmitting, Scheduled, Live, Storing,
        Sends, Uncancelled
  <2> QED
    BY <2>1, <2>2, <2>3, <2>4 DEF IInv
<1>3. CASE CancelSync(1, "cancel1", "wait1", "rs_sc")
  <2>1. Types'
    BY Basics, WorkCalls, <1>3, TxAssumption
    DEF CancelSync, Disarm, Goto, Types, Control, FsmPc, TxPc, Storing, Sends, Rs,
        Status
  <2>2. Control'
    BY Basics, WorkCalls, <1>3 DEF CancelSync, Disarm, Goto, Types, Control, Sends
  <2>3. Uncancelled'
    BY Basics, WorkCalls, <1>3
    DEF CancelSync, Disarm, Goto, Types, Uncancelled, Scheduled, Storing
  <2>4. Transmitting'
    BY Basics, WorkCalls, <1>3
    DEF CancelSync, Disarm, Goto, Types, Control, Transmitting, Scheduled, Live,
        Storing, Sends, Uncancelled
  <2> QED
    BY <2>1, <2>2, <2>3, <2>4 DEF IInv
<1>4. CASE Canceled(1, "wait1", "rs_sc")
  <2>1. Types'
    BY Basics, <1>4, TxAssumption
    DEF Canceled, Goto, Types, Control, FsmPc, TxPc, Storing, Sends, Rs, Status
  <2>2. Control'
    BY Basics, <1>4 DEF Canceled, Goto, Types, Control, Sends
  <2>3. Uncancelled'
    BY Basics, <1>4 DEF Canceled, Goto, Types, Uncancelled, Scheduled, Storing
  <2>4. Transmitting'
    BY Basics, <1>4
    DEF Canceled, Goto, Types, Control, Transmitting, Scheduled, Live, Storing,
        Sends, Uncancelled
  <2> QED
    BY <2>1, <2>2, <2>3, <2>4 DEF IInv
<1>5. CASE StoreRsSc
  <2>1. Types'
    BY Basics, <1>5, TxAssumption
    DEF StoreRsSc, Types, Control, FsmPc, TxPc, Storing, Sends, Rs, Status
  <2>2. Control'
    BY Basics, <1>5 DEF StoreRsSc, Types, Control, Sends
  <2>3. Uncancelled'
    BY Basics, <1>5 DEF StoreRsSc, Types, Uncancelled, Scheduled, Storing
  <2>4. Transmitting'
    BY Basics, <1>5
    DEF StoreRsSc, Types, Control, Transmitting, Scheduled, Live, Storing, Sends,
        Uncancelled
  <2> QED
    BY <2>1, <2>2, <2>3, <2>4 DEF IInv
<1>6. CASE StoreStatus
  <2>1. Types'
    BY Basics, <1>6, TxAssumption
    DEF StoreStatus, Goto, Types, Control, FsmPc, TxPc, Storing, Sends, Rs, Status
  <2>2. Control'
    BY Basics, <1>6 DEF StoreStatus, Goto, Types, Control, Sends
  <2>3. Uncancelled'
    BY Basics, <1>6 DEF StoreStatus, Goto, Types, Uncancelled, Scheduled, Storing
  <2>4. Transmitting'
    BY Basics, <1>6
    DEF StoreStatus, Goto, Types, Control, Transmitting, Scheduled, Live, Storing,
        Sends, Uncancelled
  <2> QED
    BY <2>1, <2>2, <2>3, <2>4 DEF IInv
<1>7. CASE StoreBurst
  <2>1. Types'
    BY Basics, <1>7, TxAssumption
    DEF StoreBurst, Goto, Types, Control, FsmPc, TxPc, Storing, Sends, Rs, Status
  <2>2. Control'
    BY Basics, <1>7 DEF StoreBurst, Goto, Types, Control, Sends
  <2>3. Uncancelled'
    BY Basics, <1>7 DEF StoreBurst, Goto, Types, Uncancelled, Scheduled, Storing
  <2>4. Transmitting'
    BY Basics, <1>7
    DEF StoreBurst, Goto, Types, Control, Transmitting, Scheduled, Live, Storing,
        Sends, Uncancelled
  <2> QED
    BY <2>1, <2>2, <2>3, <2>4 DEF IInv
<1>8. CASE ArmIfUp(0, "arm0", "arm1")
  <2>1. Types'
    BY Basics, WorkCalls, <1>8, TxAssumption
    DEF ArmIfUp, Arm, Goto, Types, Control, FsmPc, TxPc, Storing, Sends, Rs, Status
  <2>2. Control'
    BY Basics, WorkCalls, <1>8 DEF ArmIfUp, Arm, Goto, Types, Control, Sends
  <2>3. Uncancelled'
    BY Basics, WorkCalls, <1>8
    DEF ArmIfUp, Arm, Goto, Types, Uncancelled, Scheduled, Storing
  <2>4. Transmitting'
    BY Basics, WorkCalls, <1>8
    DEF ArmIfUp, Arm, Goto, Types, Control, Transmitting, Scheduled, Live, Storing,
        Sends, Uncancelled
  <2> QED
    BY <2>1, <2>2, <2>3, <2>4 DEF IInv
<1>9. CASE ArmIfUp(1, "arm1", "unlock")
  <2>1. Types'
    BY Basics, WorkCalls, <1>9, TxAssumption
    DEF ArmIfUp, Arm, Goto, Types, Control, FsmPc, TxPc, Storing, Sends, Rs, Status
  <2>2. Control'
    BY Basics, WorkCalls, <1>9 DEF ArmIfUp, Arm, Goto, Types, Control, Sends
  <2>3. Uncancelled'
    BY Basics, WorkCalls, <1>9
    DEF ArmIfUp, Arm, Goto, Types, Uncancelled, Scheduled, Storing
  <2>4. Transmitting'
    BY Basics, WorkCalls, <1>9
    DEF ArmIfUp, Arm, Goto, Types, Control, Transmitting, Scheduled, Live, Storing,
        Sends, Uncancelled
  <2> QED
    BY <2>1, <2>2, <2>3, <2>4 DEF IInv
<1>10. CASE StopTx(0, "stop0", "stop1")
  <2>1. Types'
    BY Basics, WorkCalls, <1>10, TxAssumption
    DEF StopTx, Disarm, Goto, Types, Control, FsmPc, TxPc, Storing, Sends, Rs,
        Status
  <2>2. Control'
    BY Basics, WorkCalls, <1>10 DEF StopTx, Disarm, Goto, Types, Control, Sends
  <2>3. Uncancelled'
    BY Basics, WorkCalls, <1>10
    DEF StopTx, Disarm, Goto, Types, Uncancelled, Scheduled, Storing
  <2>4. Transmitting'
    BY Basics, WorkCalls, <1>10
    DEF StopTx, Disarm, Goto, Types, Control, Transmitting, Scheduled, Live,
        Storing, Sends, Uncancelled
  <2> QED
    BY <2>1, <2>2, <2>3, <2>4 DEF IInv
<1>11. CASE StopTx(1, "stop1", "unlock")
  <2>1. Types'
    BY Basics, WorkCalls, <1>11, TxAssumption
    DEF StopTx, Disarm, Goto, Types, Control, FsmPc, TxPc, Storing, Sends, Rs,
        Status
  <2>2. Control'
    BY Basics, WorkCalls, <1>11 DEF StopTx, Disarm, Goto, Types, Control, Sends
  <2>3. Uncancelled'
    BY Basics, WorkCalls, <1>11
    DEF StopTx, Disarm, Goto, Types, Uncancelled, Scheduled, Storing
  <2>4. Transmitting'
    BY Basics, WorkCalls, <1>11
    DEF StopTx, Disarm, Goto, Types, Control, Transmitting, Scheduled, Live,
        Storing, Sends, Uncancelled
  <2> QED
    BY <2>1, <2>2, <2>3, <2>4 DEF IInv
<1>12. CASE Unlock
  <2>1. Types'
    BY Basics, WorkCalls, <1>12, TxAssumption
    DEF Unlock, Goto, Types, Control, FsmPc, TxPc, Storing, Sends, Rs, Status
  <2>2. Control'
    BY Basics, WorkCalls, <1>12 DEF Unlock, Goto, Types, Control, Sends
  <2>3. Uncancelled'
    BY Basics, WorkCalls, <1>12
    DEF Unlock, Goto, Types, Uncancelled, Scheduled, Storing
  <2>4. Transmitting'
    BY Basics, WorkCalls, <1>12
    DEF Unlock, Goto, Types, Control, Transmitting, Scheduled, Live, Storing, Sends,
        Uncancelled
  <2> QED
    BY <2>1, <2>2, <2>3, <2>4 DEF IInv
<1> QED
  BY <1>1, <1>2, <1>3, <1>4, <1>5, <1>6, <1>7, <1>8, <1>9, <1>10, <1>11, <1>12
  DEF StateMachine

(* The queue's thread takes an item; a handler returns.                    *)
LEMMA QueueMoves ==
  ASSUME IInv
  PROVE  /\ TakeItem =>
              /\ K!Sane(work') /\ work'.delayed = work.delayed
              /\ work'.running \in Item /\ work'.running = Head(work.queue)
              /\ Queued(work)' = Queued(work) \ {work'.running}
              /\ work'.canceling = {}
         /\ Return =>
              /\ K!Sane(work') /\ work'.delayed = work.delayed
              /\ Queued(work)' = Queued(work) /\ work'.running = NoItem
              /\ work'.canceling = {}
<1>1. K!Sane(work) /\ NoItem \notin Item
  BY Basics
<1>2. ASSUME TakeItem
      PROVE  /\ K!Sane(work') /\ work'.delayed = work.delayed
             /\ work'.running \in Item /\ work'.running = Head(work.queue)
             /\ Queued(work)' = Queued(work) \ {work'.running}
             /\ work'.canceling = {}
  <2>1. work' = K!WorkTaken(work) /\ work.running = NoItem /\ work.queue # <<>>
    BY <1>2, SameCalls DEF TakeItem
  <2> QED
    BY <1>1, <2>1, SameCalls, K!ItemTaken
<1>3. ASSUME Return
      PROVE  /\ K!Sane(work') /\ work'.delayed = work.delayed
             /\ Queued(work)' = Queued(work) /\ work'.running = NoItem
             /\ work'.canceling = {}
  <2>1. work' = K!HandlerReturned(work)
    BY <1>3, SameCalls DEF Return
  <2> QED
    BY <1>1, <2>1, K!Returned DEF Queued
<1> QED
  BY <1>2, <1>3

(* A step of the system work queue.                                        *)
LEMMA WorkQueueKeeps == IInv /\ WorkQueue => IInv'
<1> SUFFICES ASSUME IInv, WorkQueue PROVE IInv'
  OBVIOUS
<1>1. CASE TakeItem
  <2>1. Types'
    BY Basics, QueueMoves, <1>1, TxAssumption
    DEF TakeItem, Types, Control, FsmPc, TxPc, Storing, Sends, Rs, Status
  <2>2. Control'
    BY Basics, QueueMoves, <1>1 DEF TakeItem, Types, Control, Sends
  <2>3. Uncancelled'
    BY Basics, QueueMoves, <1>1 DEF TakeItem, Types, Uncancelled, Scheduled, Storing
  <2>4. Transmitting'
    BY Basics, QueueMoves, <1>1
    DEF TakeItem, Types, Control, Transmitting, Scheduled, Live, Storing, Sends,
        Uncancelled
  <2> QED
    BY <2>1, <2>2, <2>3, <2>4 DEF IInv
<1>2. CASE TimerPosts
  <2>1. Types'
    BY Basics, <1>2, TxAssumption
    DEF TimerPosts, Call, Types, Control, FsmPc, TxPc, Storing, Sends, Rs, Status
  <2>2. Control'
    BY Basics, <1>2 DEF TimerPosts, Call, Types, Control, Sends
  <2>3. Uncancelled'
    BY Basics, <1>2 DEF TimerPosts, Call, Types, Uncancelled, Scheduled, Storing
  <2>4. Transmitting'
    BY Basics, <1>2
    DEF TimerPosts, Call, Types, Control, Transmitting, Scheduled, Live, Storing,
        Sends, Uncancelled
  <2> QED
    BY <2>1, <2>2, <2>3, <2>4 DEF IInv
<1>3. CASE TimerGivesUp
  <2>1. Types'
    BY Basics, <1>3, TxAssumption
    DEF TimerGivesUp, Types, Control, FsmPc, TxPc, Storing, Sends, Rs, Status
  <2>2. Control'
    BY Basics, <1>3 DEF TimerGivesUp, Types, Control, Sends
  <2>3. Uncancelled'
    BY Basics, <1>3 DEF TimerGivesUp, Types, Uncancelled, Scheduled, Storing
  <2>4. Transmitting'
    BY Basics, <1>3
    DEF TimerGivesUp, Types, Control, Transmitting, Scheduled, Live, Storing, Sends,
        Uncancelled
  <2> QED
    BY <2>1, <2>2, <2>3, <2>4 DEF IInv
<1>4. CASE TxStart
  <2>1. Types'
    BY Basics, <1>4, TxAssumption
    DEF Step, NoStore, TxStart, Types, Control, FsmPc, TxPc, Storing, Sends, Rs,
        Status
  <2>2. Control'
    BY Basics, <1>4 DEF Step, NoStore, TxStart, Types, Control, Sends
  <2>3. Uncancelled'
    BY Basics, <1>4
    DEF Step, NoStore, TxStart, Types, Uncancelled, Scheduled, Storing
  <2>4. Transmitting'
    BY Basics, <1>4
    DEF Step, NoStore, TxStart, Types, Control, Transmitting, Scheduled, Live,
        Storing, Sends, Uncancelled
  <2> QED
    BY <2>1, <2>2, <2>3, <2>4 DEF IInv
<1>5. CASE ReadRsSc
  <2>1. Types'
    BY Basics, <1>5, TxAssumption
    DEF Step, NoStore, ReadRsSc, Types, Control, FsmPc, TxPc, Storing, Sends, Rs,
        Status
  <2>2. Control'
    BY Basics, <1>5 DEF Step, NoStore, ReadRsSc, Types, Control, Sends
  <2>3. Uncancelled'
    BY Basics, <1>5
    DEF Step, NoStore, ReadRsSc, Types, Uncancelled, Scheduled, Storing
  <2>4. Transmitting'
    BY Basics, <1>5
    DEF Step, NoStore, ReadRsSc, Types, Control, Transmitting, Scheduled, Live,
        Storing, Sends, Uncancelled
  <2> QED
    BY <2>1, <2>2, <2>3, <2>4 DEF IInv
<1>6. CASE ReadStatusAndSend
  <2>1. Types'
    BY Basics, <1>6, TxAssumption
    DEF Step, NoStore, ReadStatusAndSend, Types, Control, FsmPc, TxPc, Storing,
        Sends, Rs, Status
  <2>2. Control'
    BY Basics, <1>6 DEF Step, NoStore, ReadStatusAndSend, Types, Control, Sends
  <2>3. Uncancelled'
    BY Basics, <1>6
    DEF Step, NoStore, ReadStatusAndSend, Types, Uncancelled, Scheduled, Storing
  <2>4. Transmitting'
    BY Basics, <1>6
    DEF Step, NoStore, ReadStatusAndSend, Types, Control, Transmitting, Scheduled,
        Live, Storing, Sends, Uncancelled
  <2> QED
    BY <2>1, <2>2, <2>3, <2>4 DEF IInv
<1>7. CASE ReadBurst
  <2>1. Types'
    BY Basics, <1>7, TxAssumption
    DEF Step, NoStore, ReadBurst, Types, Control, FsmPc, TxPc, Storing, Sends, Rs,
        Status
  <2>2. Control'
    BY Basics, <1>7 DEF Step, NoStore, ReadBurst, Types, Control, Sends
  <2>3. Uncancelled'
    BY Basics, <1>7
    DEF Step, NoStore, ReadBurst, Types, Uncancelled, Scheduled, Storing
  <2>4. Transmitting'
    BY Basics, <1>7
    DEF Step, NoStore, ReadBurst, Types, Control, Transmitting, Scheduled, Live,
        Storing, Sends, Uncancelled
  <2> QED
    BY <2>1, <2>2, <2>3, <2>4 DEF IInv
<1>8. CASE StoreDecremented
  <2>1. Types'
    BY Basics, <1>8, TxAssumption
    DEF Step, NoStore, StoreDecremented, Types, Control, FsmPc, TxPc, Storing,
        Sends, Rs, Status
  <2>2. Control'
    BY Basics, <1>8 DEF Step, NoStore, StoreDecremented, Types, Control, Sends
  <2>3. Uncancelled'
    BY Basics, <1>8
    DEF Step, NoStore, StoreDecremented, Types, Uncancelled, Scheduled, Storing
  <2>4. Transmitting'
    BY Basics, <1>8
    DEF Step, NoStore, StoreDecremented, Types, Control, Transmitting, Scheduled,
        Live, Storing, Sends, Uncancelled
  <2> QED
    BY <2>1, <2>2, <2>3, <2>4 DEF IInv
<1>9. CASE Again
  <2>1. Types'
    BY Basics, WorkCalls, <1>9, TxAssumption
    DEF Step, NoStore, Again, Arm, Types, Control, FsmPc, TxPc, Storing, Sends, Rs,
        Status
  <2>2. Control'
    BY Basics, WorkCalls, <1>9 DEF Step, NoStore, Again, Arm, Types, Control, Sends
  <2>3. Uncancelled'
    BY Basics, WorkCalls, <1>9
    DEF Step, NoStore, Again, Arm, Types, Uncancelled, Scheduled, Storing
  <2>4. Transmitting'
    <3>0. PICK p \in Port : p = work.running /\ work' = k_work_reschedule(work, p)
      BY <1>9 DEF Step, Again, Arm
    <3>1. /\ p \in work'.delayed /\ work.delayed \subseteq work'.delayed
          /\ Queued(work)' = Queued(work) /\ work'.running = p
      <4>1. p \in Item
        BY Basics
      <4>2. work'.delayed = work.delayed \cup {p}
        BY <3>0, <4>1, WorkCalls
      <4>3. work'.running = work.running
        BY <3>0, <4>1, WorkCalls
      <4>4. Queued(work)' = Queued(work)
        BY <3>0, <4>1, WorkCalls
      <4> QED
        BY <3>0, <4>2, <4>3, <4>4
    <3>2. /\ fsm' = fsm /\ plan' = plan /\ up' = up /\ event' = event
      BY <1>9 DEF Again, NoStore
    <3>3. \A q \in Port : Live(q) => Live(q)'
      BY <3>0, <3>1, <3>2 DEF Live
    <3> QED
      BY Basics, <3>2, <3>3 DEF Transmitting, Scheduled, Types
  <2> QED
    BY <2>1, <2>2, <2>3, <2>4 DEF IInv
<1>10. CASE Return
  <2>1. Types'
    BY Basics, QueueMoves, <1>10, TxAssumption
    DEF Return, NoStore, NotSending, Types, Control, FsmPc, TxPc, Storing, Sends,
        Rs, Status
  <2>2. Control'
    BY Basics, QueueMoves, <1>10
    DEF Return, NoStore, NotSending, Types, Control, Sends
  <2>3. Uncancelled'
    BY Basics, QueueMoves, <1>10
    DEF Return, NoStore, NotSending, Types, Uncancelled, Scheduled, Storing
  <2>4. Transmitting'
    BY Basics, QueueMoves, <1>10
    DEF Return, NoStore, NotSending, Types, Control, Transmitting, Scheduled, Live,
        Storing, Sends, Uncancelled
  <2> QED
    BY <2>1, <2>2, <2>3, <2>4 DEF IInv
<1> QED
  BY <1>1, <1>2, <1>3, <1>4, <1>5, <1>6, <1>7, <1>8, <1>9, <1>10 DEF WorkQueue

(* A caller, a timeout, an interface, or the network management thread.    *)
LEMMA OthersKeep ==
  ASSUME IInv,
         \/ Post \/ IfaceUpCb \/ UNCHANGED vars
         \/ \E i \in Item : TimeoutEnds(i)
         \/ \E p \in Flapping : IfaceDown(p) \/ IfaceUp(p)
  PROVE  IInv'
<1>1. CASE Post
  <2>1. Types'
    BY Basics, <1>1, TxAssumption
    DEF Post, Call, Types, Control, FsmPc, TxPc, Storing, Sends, Rs, Status
  <2>2. Control'
    BY Basics, <1>1 DEF Post, Call, Types, Control, Sends
  <2>3. Uncancelled'
    BY Basics, <1>1 DEF Post, Call, Types, Uncancelled, Scheduled, Storing
  <2>4. Transmitting'
    BY Basics, <1>1
    DEF Post, Call, Types, Control, Transmitting, Scheduled, Live, Storing, Sends,
        Uncancelled
  <2> QED
    BY <2>1, <2>2, <2>3, <2>4 DEF IInv
<1>2. ASSUME NEW i \in Item, TimeoutEnds(i) PROVE IInv'
  <2>1. Types'
    BY Basics, WorkCalls, <1>2, TxAssumption
    DEF TimeoutEnds, Types, Control, FsmPc, TxPc, Storing, Sends, Rs, Status
  <2>2. Control'
    BY Basics, WorkCalls, <1>2 DEF TimeoutEnds, Types, Control, Sends
  <2>3. Uncancelled'
    BY Basics, WorkCalls, <1>2
    DEF TimeoutEnds, Types, Uncancelled, Scheduled, Storing
  <2>4. Transmitting'
    BY Basics, WorkCalls, <1>2
    DEF TimeoutEnds, Types, Control, Transmitting, Scheduled, Live, Storing, Sends,
        Uncancelled
  <2> QED
    BY <2>1, <2>2, <2>3, <2>4 DEF IInv
<1>3. ASSUME NEW p \in Flapping, IfaceDown(p) PROVE IInv'
  <2>1. Types'
    BY Basics, TxAssumption, <1>3, TxAssumption
    DEF IfaceDown, Types, Control, FsmPc, TxPc, Storing, Sends, Rs, Status
  <2>2. Control'
    BY Basics, TxAssumption, <1>3 DEF IfaceDown, Types, Control, Sends
  <2>3. Uncancelled'
    BY Basics, TxAssumption, <1>3
    DEF IfaceDown, Types, Uncancelled, Scheduled, Storing
  <2>4. Transmitting'
    BY Basics, TxAssumption, <1>3
    DEF IfaceDown, Types, Control, Transmitting, Scheduled, Live, Storing, Sends,
        Uncancelled
  <2> QED
    BY <2>1, <2>2, <2>3, <2>4 DEF IInv
<1>4. ASSUME NEW p \in Flapping, IfaceUp(p) PROVE IInv'
  <2>1. Types'
    BY Basics, TxAssumption, <1>4, TxAssumption
    DEF IfaceUp, Types, Control, FsmPc, TxPc, Storing, Sends, Rs, Status
  <2>2. Control'
    BY Basics, TxAssumption, <1>4 DEF IfaceUp, Types, Control, Sends
  <2>3. Uncancelled'
    BY Basics, TxAssumption, <1>4
    DEF IfaceUp, Types, Uncancelled, Scheduled, Storing
  <2>4. Transmitting'
    BY Basics, TxAssumption, <1>4
    DEF IfaceUp, Types, Control, Transmitting, Scheduled, Live, Storing, Sends,
        Uncancelled
  <2> QED
    BY <2>1, <2>2, <2>3, <2>4 DEF IInv
<1>5. ASSUME NEW p \in Port, IfaceUpCbReads(p) PROVE IInv'
  <2>1. Types'
    BY Basics, <1>5, TxAssumption
    DEF IfaceUpCbReads, Handled, Types, Control, FsmPc, TxPc, Storing, Sends, Rs,
        Status
  <2>2. Control'
    BY Basics, <1>5 DEF IfaceUpCbReads, Handled, Types, Control, Sends
  <2>3. Uncancelled'
    BY Basics, <1>5
    DEF IfaceUpCbReads, Handled, Types, Uncancelled, Scheduled, Storing
  <2>4. Transmitting'
    BY Basics, <1>5
    DEF IfaceUpCbReads, Handled, Types, Control, Transmitting, Scheduled, Live,
        Storing, Sends, Uncancelled
  <2> QED
    BY <2>1, <2>2, <2>3, <2>4 DEF IInv
<1>6. ASSUME NEW p \in Port, IfaceUpCbArms(p) PROVE IInv'
  <2>1. Types'
    BY Basics, WorkCalls, <1>6, TxAssumption
    DEF IfaceUpCbArms, Arm, Handled, Types, Control, FsmPc, TxPc, Storing, Sends,
        Rs, Status
  <2>2. Control'
    BY Basics, WorkCalls, <1>6
    DEF IfaceUpCbArms, Arm, Handled, Types, Control, Sends
  <2>3. Uncancelled'
    BY Basics, WorkCalls, <1>6
    DEF IfaceUpCbArms, Arm, Handled, Types, Uncancelled, Scheduled, Storing
  <2>4. Transmitting'
    BY Basics, WorkCalls, <1>6
    DEF IfaceUpCbArms, Arm, Handled, Types, Control, Transmitting, Scheduled, Live,
        Storing, Sends, Uncancelled
  <2> QED
    BY <2>1, <2>2, <2>3, <2>4 DEF IInv
<1>7. CASE UNCHANGED vars
  <2>1. Types'
    BY Basics, <1>7, TxAssumption
    DEF vars, Types, Control, FsmPc, TxPc, Storing, Sends, Rs, Status
  <2>2. Control'
    BY Basics, <1>7 DEF vars, Types, Control, Sends
  <2>3. Uncancelled'
    BY Basics, <1>7 DEF vars, Types, Uncancelled, Scheduled, Storing
  <2>4. Transmitting'
    BY Basics, <1>7
    DEF vars, Types, Control, Transmitting, Scheduled, Live, Storing, Sends,
        Uncancelled
  <2> QED
    BY <2>1, <2>2, <2>3, <2>4 DEF IInv
<1> QED
  BY <1>1, <1>2, <1>3, <1>4, <1>5, <1>6, <1>7 DEF IfaceUpCb

LEMMA IInvAlways == Spec => []IInv
<1>1. IInv /\ [Next]_vars => IInv'
  BY StateMachineKeeps, WorkQueueKeeps, OthersKeep DEF Next
<1> QED
  BY <1>1, InitIInv, PTL DEF Spec

-----------------------------------------------------------------------------
(* Torn and lost stores never drive a burst counter over its limit or below*)
(* zero, and every shared variable keeps its type.                         *)
THEOREM TypeCorrect == Spec => []TypeOK
<1>1. IInv => TypeOK
  BY SameCalls DEF IInv, Types, TypeOK, Rs, Status, K!Sane
<1> QED
  BY <1>1, IInvAlways, PTL

(* After erps_node_sched_tx every port that is up transmits or is about to,*)
(* whatever the running handler, the timeouts and the interface-up callback*)
(* have done in between.                                                   *)
THEOREM ScheduledPortsSend == Spec => []ScheduledPortsTransmit
<1>1. IInv => ScheduledPortsTransmit
  BY DEF IInv, Control, Transmitting, Scheduled, Live, ScheduledPortsTransmit
<1> QED
  BY <1>1, IInvAlways, PTL
=============================================================================
