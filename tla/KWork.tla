-------------------------------- MODULE KWork --------------------------------
(***************************************************************************)
(* Zephyr's delayable work items on the system work queue, as erps.c uses  *)
(* them (k_work_reschedule, k_work_cancel_delayable and its _sync form,    *)
(* k_work_delayable_is_pending).  One thread serves the queue, so at most  *)
(* one handler runs at a time.  A record stands for the whole queue:       *)
(*    delayed     items whose timeout is running                           *)
(*    queue       items submitted and not yet taken                        *)
(*    running     the item whose handler runs, or NoItem                   *)
(*    canceling   items cancelled while their handler ran                  *)
(* An item may be delayed, queued and running at the same time.            *)
(***************************************************************************)
EXTENDS Sequences, SequencesExt

CONSTANTS Item, NoItem

Work == [delayed : SUBSET Item, queue : Seq(Item), running : Item \cup {NoItem},
         canceling : SUBSET Item]

Queued(k) == ToSet(k.queue)

k_work_delayable_is_pending(k, i) ==
  i \in k.delayed \cup Queued(k) \cup {k.running} \cup k.canceling

(* With a delay.  The timeout starts anew even if the item is being        *)
(* cancelled: only an immediate submission is refused then.                *)
k_work_reschedule(k, i) == [k EXCEPT !.delayed = @ \cup {i}]

(* The timeout is stopped and the item taken off the queue; a handler that *)
(* runs is not stopped, only marked.                                       *)
k_work_cancel_delayable(k, i) ==
  [k EXCEPT !.delayed = @ \ {i},
            !.queue = RemoveFirst(@, i),
            !.canceling = @ \cup ({i} \cap {k.running})]

(* The timeout ends: the item is submitted, once, and not while cancelled. *)
work_timeout(k, i) ==
  [k EXCEPT !.delayed = @ \ {i},
            !.queue = IF i \in Queued(k) \cup k.canceling THEN @ ELSE Append(@, i)]

(* The queue's thread takes an item; later its handler returns, and a      *)
(* thread that waits for the cancellation to be complete may go on.        *)
WorkTaken(k) == [k EXCEPT !.running = Head(k.queue), !.queue = Tail(@)]

HandlerReturned(k) ==
  [k EXCEPT !.running = NoItem, !.canceling = @ \ {k.running}]
=============================================================================
