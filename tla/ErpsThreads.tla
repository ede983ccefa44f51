------------------------------ MODULE ErpsThreads ------------------------------
(***************************************************************************)
(* The threads that post requests to the state machine of a revertive RPL  *)
(* owner, and the timers' work items (erps.c):                             *)
(*    rx     a receiving thread, in erps_raps_recv                         *)
(*    ctl    a caller of net_erps_ctl: an operator, or a driver            *)
(*    wq     the system work queue, in erps_wtr_work, erps_wtb_work or     *)
(*           erps_link_down_work                                           *)
(* A request is processed with node->fsm_mutex held, as in ErpsFsm.  Here  *)
(* a thread first waits for the mutex, and may give up; the guard timer is *)
(* consulted before that; and a timer that has expired counts as pending   *)
(* until its handler has returned.  The fields wtr, wtb and linkDown of a  *)
(* node are, at each post, what k_work_delayable_is_pending says.          *)
(***************************************************************************)
EXTENDS ErpsFsm, Sequences

CONSTANTS OwnId, PeerId, \* ID of the node, of the sender of what it hears
          Remote,        \* requests of the PDUs it hears
          Commands,      \* <<port, request>>: what operators ask
          Flapping,      \* ports whose link may fail
          NoItem         \* no work item

Item == {"wtr", "wtb", "down"}

INSTANCE KWork

ASSUME ThreadsAssumption ==
  /\ {OwnId, PeerId} \subseteq Nat \ {0}
  /\ Remote \subseteq {ERPS_REQ_RAPS_FS, ERPS_REQ_RAPS_SF, ERPS_REQ_RAPS_MS,
                       ERPS_REQ_RAPS_NR}
  /\ Commands \subseteq Port \X {ERPS_REQ_CLEAR, ERPS_REQ_FS, ERPS_REQ_MS}
  /\ Flapping \subseteq Port /\ NoItem \notin Item

Thread == {"rx", "ctl", "wq"}

VARIABLES node,   \* struct erps_node
          work,   \* the system work queue
          thread, \* per thread, where it is and what it posts
          late    \* history: since the node is in PENDING a timer handler has
                  \* given up, or one was running when the state was entered

vars == <<node, work, thread, late>>

Idle == [pc |-> "idle", l |-> 0, req |-> ERPS_REQ_INVALID]
Waiting(l, req) == [pc |-> "waiting", l |-> l, req |-> req]

-----------------------------------------------------------------------------
(***************************************************************************)
(* The node's timers and the work items behind them.  The link-down timer  *)
(* is not used on the RPL, so there is one.                                *)
(***************************************************************************)
Timers(n) == {i \in Item : \/ i = "wtr" /\ n.wtr
                           \/ i = "wtb" /\ n.wtb
                           \/ i = "down" /\ 0 \in n.linkDown}

Seen(n, k) ==
  [n EXCEPT !.wtr = k_work_delayable_is_pending(k, "wtr"),
            !.wtb = k_work_delayable_is_pending(k, "wtb"),
            !.linkDown = IF k_work_delayable_is_pending(k, "down") THEN {0} ELSE {}]

(* What a handler does to a timer's item: a timer that runs afterwards and *)
(* did not before was started, and the other way round.                    *)
Changed(k, i, before, after) ==
  CASE i \in Timers(after) \ Timers(before) -> k_work_reschedule(k, i)
    [] i \in Timers(before) \ Timers(after) -> k_work_cancel_delayable(k, i)
    [] OTHER -> k

(* What a handler has started and stopped; the items do not interfere.     *)
Applied(before, after, k) ==
  LET first  == Changed(k, "wtr", before, after)
      second == Changed(first, "wtb", before, after)
  IN  Changed(second, "down", before, after)

NoWork == [delayed |-> {}, queue |-> <<>>, running |-> NoItem, canceling |-> {}]

Init ==
  /\ LET n == ERPS_NODE_INIT("owner", TRUE, OwnId, {})
     IN  /\ node = Fresh(erps_node_init(n, NoFault, NoFault))
         /\ work = Applied(n, node, NoWork)
  /\ thread = [t \in Thread |-> Idle]
  /\ late = FALSE

-----------------------------------------------------------------------------
(***************************************************************************)
(* A thread posts: it waits for the mutex, for 250 ms.                     *)
(***************************************************************************)
Holder == {t \in Thread : thread[t].pc = "locked"}

Lock(t) ==
  /\ thread[t].pc = "waiting" /\ Holder = {}
  /\ thread' = [thread EXCEPT ![t].pc = "locked"]
  /\ UNCHANGED <<node, work, late>>

(* A thread that is done; the work queue's has yet to return.              *)
Done(t) == IF t = "wq" THEN [Idle EXCEPT !.pc = "return"] ELSE Idle

(* Mutant: the result of k_mutex_lock is not looked at.                    *)
GiveUpIgnored(t) ==
  /\ thread[t].pc = "waiting" /\ Holder # {}
  /\ thread' = [thread EXCEPT ![t].pc = "locked"]
  /\ UNCHANGED <<node, work, late>>

GiveUp(t) ==
  /\ thread[t].pc = "waiting" /\ Holder # {}
  /\ thread' = [thread EXCEPT ![t] = Done(t)]
  /\ late' = (late \/ (t = "wq" /\ node.state = "PENDING"
                         /\ work.running \in {"wtr", "wtb"}))
  /\ UNCHANGED <<node, work>>

(* erps_fsm_post_locked, and the mutex is released.                        *)
Process(t) ==
  /\ thread[t].pc = "locked"
  /\ LET before == Seen(node, work)
         after  == Fresh(erps_fsm_post_locked(before, thread[t].l, thread[t].req,
                                              PeerId, NoFault))
     IN  /\ node' = after
         /\ work' = Applied(before, after, work)
         /\ late' = (/\ after.state = "PENDING"
                     /\ IF node.state = "PENDING" THEN late
                        ELSE work.running \in {"wtr", "wtb"})
  /\ thread' = [thread EXCEPT ![t] = Done(t)]

-----------------------------------------------------------------------------
(***************************************************************************)
(* What the threads post.                                                  *)
(***************************************************************************)
Call(t, l, req) ==
  /\ thread[t] = Idle
  /\ thread' = [thread EXCEPT ![t] = Waiting(l, req)]

(* erps_raps_recv up to the post: the guard timer is read without mutex.   *)
erps_raps_recv(req) ==
  /\ Call("rx", 0, req)
  /\ ~node.guard
  /\ UNCHANGED <<node, work, late>>

net_erps_ctl(l, req) ==
  /\ Call("ctl", l, req)
  /\ UNCHANGED <<node, work, late>>

CarrierLost(l) ==
  /\ l \in node.up
  /\ Call("ctl", l, ERPS_REQ_SF)
  /\ node' = [node EXCEPT !.up = @ \ {l}]
  /\ UNCHANGED <<work, late>>

CarrierRestored(l) ==
  /\ l \notin node.up
  /\ Call("ctl", l, ERPS_REQ_CLEAR_SF)
  /\ node' = [node EXCEPT !.up = @ \cup {l}]
  /\ UNCHANGED <<work, late>>

Expiry(i) == CASE i = "wtr"  -> ERPS_REQ_WTR_EXPIRES
               [] i = "wtb"  -> ERPS_REQ_WTB_EXPIRES
               [] i = "down" -> ERPS_REQ_SF

TakeItem ==
  /\ work.running = NoItem /\ work.queue # <<>>
  /\ work' = WorkTaken(work)
  /\ Call("wq", 0, Expiry(Head(work.queue)))
  /\ UNCHANGED <<node, late>>

Return ==
  /\ thread["wq"].pc = "return"
  /\ work' = HandlerReturned(work)
  /\ thread' = [thread EXCEPT !["wq"] = Idle]
  /\ UNCHANGED <<node, late>>

-----------------------------------------------------------------------------
TimeoutEnds(i) ==
  /\ i \in work.delayed
  /\ work' = work_timeout(work, i)
  /\ UNCHANGED <<node, thread, late>>

GuardTimerExpires ==
  /\ node.guard
  /\ node' = [node EXCEPT !.guard = FALSE]
  /\ UNCHANGED <<work, thread, late>>

Next ==
  \/ \E req \in Remote : erps_raps_recv(req)
  \/ \E c \in Commands : net_erps_ctl(c[1], c[2])
  \/ \E l \in Flapping : CarrierLost(l) \/ CarrierRestored(l)
  \/ \E t \in Thread : Lock(t) \/ GiveUp(t) \/ Process(t)
  \/ TakeItem \/ Return
  \/ \E i \in Item : TimeoutEnds(i)
  \/ GuardTimerExpires

Spec == Init /\ [][Next]_vars

(* Threads run, and release the mutex; time passes; and the mutex is       *)
(* handed to the threads that wait for it in turn.                         *)
MutexReleased == []<>(Holder = {})

FairSpec == /\ Spec /\ MutexReleased
            /\ SF_vars(Lock("wq"))
            /\ WF_vars(TakeItem \/ Return)
            /\ WF_vars(\E i \in Item : TimeoutEnds(i))

-----------------------------------------------------------------------------
(***************************************************************************)
(* Properties.                                                             *)
(***************************************************************************)

(* The shared state keeps its type, and the mutex has one holder at most.  *)
TypeOK == /\ node \in Node /\ work \in Work /\ late \in BOOLEAN
          /\ \A t, u \in Holder : t = u

Armed(i) == i \in work.delayed \cup Queued(work)

(* A timer is armed in PENDING only: whatever a handler that is already    *)
(* running posts, nothing else can expire after the node has moved on.     *)
TimersOnlyWhileReverting == Armed("wtr") \/ Armed("wtb") => node.state = "PENDING"

(* The top request names a timer that is pending, or whose expiry was lost *)
(* while its handler waited for the mutex.                                 *)
TopRequestTimed ==
  ~late => /\ node.topreq = ERPS_REQ_WTR_RUNNING =>
                k_work_delayable_is_pending(work, "wtr")
           /\ node.topreq = ERPS_REQ_WTB_RUNNING =>
                k_work_delayable_is_pending(work, "wtb")

Reverting == node.state = "PENDING" /\ node.blocked # {}

(* A wait of the owner ends, whatever the threads do.  The exceptions are  *)
(* a handler that gives up on the mutex, and one that is still running     *)
(* when the wait begins, so that the timer is not started.                 *)
WaitEnds == Reverting /\ ~late ~> ~Reverting \/ late
=============================================================================
