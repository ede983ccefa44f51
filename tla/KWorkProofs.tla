----------------------------- MODULE KWorkProofs -----------------------------
(***************************************************************************)
(* Lemmas about the work queue, which the proofs about ErpsTx and          *)
(* ErpsThreads share.  Sane is what holds of the queue at all times: an    *)
(* item is submitted once at most, and only the item that runs is marked as*)
(* being cancelled.  Each kernel call keeps it, and the lemma of a call    *)
(* says what the call does to the item and that it leaves the others alone.*)
(***************************************************************************)
EXTENDS KWork, SequenceTheorems, TLAPS

NoTwice(q) == \A a, b \in DOMAIN q : q[a] = q[b] => a = b

Sane(k) == /\ k \in Work /\ NoTwice(k.queue)
           /\ k.canceling \subseteq {k.running}

-----------------------------------------------------------------------------
(***************************************************************************)
(* The queue.                                                              *)
(***************************************************************************)

(* Taking an entry off the queue removes it and nothing else.              *)
LEMMA Removed ==
  ASSUME NEW S, NEW q \in Seq(S), NoTwice(q), NEW e
  PROVE  /\ RemoveFirst(q, e) \in Seq(S) /\ NoTwice(RemoveFirst(q, e))
         /\ ToSet(RemoveFirst(q, e)) = ToSet(q) \ {e}
<1>1. CASE ~ \E i \in 1 .. Len(q) : q[i] = e
  <2>1. RemoveFirst(q, e) = q
    BY <1>1 DEF RemoveFirst
  <2> QED
    BY <1>1, <2>1, LenProperties DEF ToSet
<1>2. ASSUME NEW i \in 1 .. Len(q), q[i] = e
      PROVE  /\ RemoveFirst(q, e) \in Seq(S) /\ NoTwice(RemoveFirst(q, e))
             /\ ToSet(RemoveFirst(q, e)) = ToSet(q) \ {e}
  <2> DEFINE u == SubSeq(q, 1, i - 1)
             v == SubSeq(q, i + 1, Len(q))
             r == u \o v
  <2>0. /\ Len(q) \in Nat /\ q \in [1 .. Len(q) -> S] /\ DOMAIN q = 1 .. Len(q)
        /\ i \in Int
    BY LenProperties
  <2>1. {j \in 1 .. Len(q) : q[j] = e} = {i}
    BY <1>2, <2>0 DEF NoTwice
  <2>2. Min({i}) = i
    BY <2>0 DEF Min
  <2>3. RemoveFirst(q, e) = r
    BY <1>2, <2>1, <2>2 DEF RemoveFirst, SelectInSeq, RemoveAt
  <2>4. /\ u \in Seq(S) /\ Len(u) = i - 1
        /\ \A j \in 1 .. i - 1 : u[j] = q[j]
    BY <2>0, SubSeqProperties
  <2>5. /\ v \in Seq(S) /\ Len(v) = Len(q) - i
        /\ \A j \in 1 .. Len(q) - i : v[j] = q[i + j]
    <3>1. \A j \in i + 1 .. Len(q) : q[j] \in S
      BY <2>0
    <3>2. /\ v \in Seq(S) /\ Len(v) = IF i + 1 <= Len(q) THEN Len(q) - (i + 1) + 1 ELSE 0
          /\ \A j \in 1 .. Len(q) - (i + 1) + 1 : v[j] = q[i + 1 + j - 1]
      BY <2>0, <3>1, SubSeqProperties
    <3> HIDE DEF v
    <3>3. Len(v) = Len(q) - i
      <4> DEFINE x == Len(v)
                 y == Len(q)
      <4> HIDE DEF x, y
      <4>1. y \in Nat /\ i \in 1 .. y /\ x = IF i + 1 <= y THEN y - (i + 1) + 1 ELSE 0
        BY <2>0, <3>2 DEF x, y
      <4>2. x = y - i
        BY <4>1
      <4> QED
        BY <4>2 DEF x, y
    <3>4. ASSUME NEW j \in 1 .. Len(q) - i PROVE v[j] = q[i + j]
      <4>1. j \in 1 .. Len(q) - (i + 1) + 1 /\ i + 1 + j - 1 = i + j
        BY <2>0
      <4> QED
        BY <3>2, <4>1
    <3> QED
      BY <3>2, <3>3, <3>4
  <2> HIDE DEF u, v
  <2>6. /\ r \in Seq(S) /\ Len(r) = Len(q) - 1
        /\ \A j \in 1 .. Len(q) - 1 : r[j] = IF j < i THEN q[j] ELSE q[j + 1]
    <3>1. r \in Seq(S) /\ Len(r) = Len(u) + Len(v)
      BY <2>4, <2>5, ConcatProperties
    <3> HIDE DEF r
    <3>2. Len(r) = Len(q) - 1
      BY <2>0, <2>4, <2>5, <3>1
    <3>3. ASSUME NEW j \in 1 .. Len(q) - 1
          PROVE  r[j] = IF j < i THEN q[j] ELSE q[j + 1]
      <4>1. j \in 1 .. Len(u) + Len(v)
        BY <2>0, <2>4, <2>5
      <4>2. r[j] = IF j <= Len(u) THEN u[j] ELSE v[j - Len(u)]
        BY <2>4, <2>5, <4>1, ConcatProperties DEF r
      <4>3. CASE j < i
        BY <2>0, <2>4, <4>2, <4>3
      <4>4. CASE j >= i
        BY <2>0, <2>4, <2>5, <4>2, <4>4
      <4> QED
        BY <2>0, <4>3, <4>4
    <3> QED
      BY <3>1, <3>2, <3>3
  <2> HIDE DEF r
  <2>7. DOMAIN r = 1 .. Len(q) - 1
    BY <2>6, LenProperties
  <2>8. NoTwice(r)
    BY <2>0, <2>6, <2>7 DEF NoTwice
  <2>9. ASSUME NEW x \in ToSet(r) PROVE x \in ToSet(q) \ {e}
    <3>1. PICK j \in 1 .. Len(q) - 1 : x = r[j]
      BY <2>7 DEF ToSet
    <3> QED
      BY <1>2, <2>0, <2>6, <3>1 DEF ToSet, NoTwice
  <2>10. ASSUME NEW x \in ToSet(q) \ {e} PROVE x \in ToSet(r)
    <3>1. PICK j \in 1 .. Len(q) : x = q[j] /\ j # i
      BY <1>2, <2>0 DEF ToSet
    <3>2. PICK h \in 1 .. Len(q) - 1 : r[h] = x
      <4>1. CASE j < i
        BY <2>0, <2>6, <3>1, <4>1
      <4>2. CASE j > i
        <5>1. j - 1 \in 1 .. Len(q) - 1 /\ ~(j - 1 < i) /\ (j - 1) + 1 = j
          BY <2>0, <4>2
        <5> QED
          BY <2>6, <3>1, <5>1
      <4> QED
        BY <2>0, <3>1, <4>1, <4>2
    <3> QED
      BY <2>7, <3>2 DEF ToSet
  <2> QED
    BY <2>3, <2>6, <2>8, <2>9, <2>10
<1> QED
  BY <1>1, <1>2

(* Submitting an item that is not in the queue.                            *)
LEMMA Appended ==
  ASSUME NEW S, NEW q \in Seq(S), NoTwice(q), NEW e \in S, e \notin ToSet(q)
  PROVE  /\ Append(q, e) \in Seq(S) /\ NoTwice(Append(q, e))
         /\ ToSet(Append(q, e)) = ToSet(q) \cup {e}
<1> DEFINE r == Append(q, e)
<1>1. Len(q) \in Nat /\ DOMAIN q = 1 .. Len(q)
  BY LenProperties
<1>2. /\ r \in Seq(S) /\ Len(r) = Len(q) + 1
      /\ \A i \in 1 .. Len(q) : r[i] = q[i]
      /\ r[Len(q) + 1] = e
  BY AppendProperties
<1> HIDE DEF r
<1>3. DOMAIN r = 1 .. Len(q) + 1
  BY <1>2, LenProperties
<1>4. \A i \in DOMAIN q : q[i] # e
  BY DEF ToSet
<1>5. NoTwice(r)
  BY <1>1, <1>2, <1>3, <1>4 DEF NoTwice
<1>6. ToSet(r) \subseteq ToSet(q) \cup {e}
  BY <1>1, <1>2, <1>3 DEF ToSet
<1>7. ASSUME NEW x \in ToSet(q) \cup {e} PROVE x \in ToSet(r)
  <2>1. CASE x = e
    BY <1>1, <1>2, <1>3, <2>1 DEF ToSet
  <2>2. CASE x \in ToSet(q)
    BY <1>1, <1>2, <1>3, <2>2 DEF ToSet
  <2> QED
    BY <2>1, <2>2
<1> QED
  BY <1>2, <1>5, <1>6, <1>7 DEF r

(* Taking the first entry.                                                 *)
LEMMA TailTaken ==
  ASSUME NEW S, NEW q \in Seq(S), NoTwice(q), q # <<>>
  PROVE  /\ Head(q) \in S /\ Tail(q) \in Seq(S) /\ NoTwice(Tail(q))
         /\ Head(q) \in ToSet(q)
         /\ ToSet(Tail(q)) = ToSet(q) \ {Head(q)}
<1> DEFINE r == Tail(q)
<1>1. Len(q) \in Nat /\ DOMAIN q = 1 .. Len(q) /\ Len(q) >= 1
  BY LenProperties, EmptySeq
<1>2. /\ Head(q) \in S /\ Head(q) = q[1]
      /\ r \in Seq(S) /\ Len(r) = Len(q) - 1
      /\ \A i \in 1 .. Len(r) : r[i] = q[i + 1]
  BY <1>1, HeadTailProperties
<1> HIDE DEF r
<1>3. DOMAIN r = 1 .. Len(q) - 1
  BY <1>2, LenProperties
<1>4. NoTwice(r)
  BY <1>1, <1>2, <1>3 DEF NoTwice
<1>5. Head(q) \in ToSet(q)
  BY <1>1, <1>2 DEF ToSet
<1>6. ASSUME NEW x \in ToSet(r) PROVE x \in ToSet(q) \ {Head(q)}
  <2>1. PICK i \in 1 .. Len(q) - 1 : x = r[i]
    BY <1>3 DEF ToSet
  <2>2. i + 1 \in DOMAIN q /\ i + 1 # 1 /\ 1 \in DOMAIN q /\ x = q[i + 1]
    BY <1>1, <1>2, <2>1
  <2> QED
    BY <1>2, <2>2 DEF ToSet, NoTwice
<1>7. ASSUME NEW x \in ToSet(q) \ {Head(q)} PROVE x \in ToSet(r)
  <2>1. PICK i \in 1 .. Len(q) : x = q[i]
    BY <1>1 DEF ToSet
  <2>2. i - 1 \in DOMAIN r /\ r[i - 1] = x
    BY <1>1, <1>2, <1>3, <1>7, <2>1
  <2> QED
    BY <2>2 DEF ToSet
<1> QED
  BY <1>2, <1>4, <1>5, <1>6, <1>7 DEF r
-----------------------------------------------------------------------------
(***************************************************************************)
(* The kernel's calls.                                                     *)
(***************************************************************************)

(* k_work_reschedule starts the timeout.                                   *)
LEMMA Rescheduled ==
  ASSUME NEW k, Sane(k), NEW i \in Item, NEW m, m = k_work_reschedule(k, i)
  PROVE  /\ Sane(m) /\ m.delayed = k.delayed \cup {i} /\ m.queue = k.queue
         /\ m.running = k.running /\ m.canceling = k.canceling
<1>1. k \in Work
  BY DEF Sane
<1>2. m = [k EXCEPT !.delayed = k.delayed \cup {i}]
  BY DEF k_work_reschedule
<1>3. /\ m.delayed = k.delayed \cup {i} /\ m.queue = k.queue
      /\ m.running = k.running /\ m.canceling = k.canceling /\ m \in Work
  BY <1>1, <1>2 DEF Work
<1> QED
  BY <1>3 DEF Sane

(* k_work_cancel_delayable leaves the item neither delayed nor queued.     *)
LEMMA Canceled ==
  ASSUME NEW k, Sane(k), NEW i \in Item, NEW m, m = k_work_cancel_delayable(k, i)
  PROVE  /\ Sane(m) /\ m.delayed = k.delayed \ {i} /\ Queued(m) = Queued(k) \ {i}
         /\ m.running = k.running
         /\ m.canceling = k.canceling \cup ({i} \cap {k.running})
<1> DEFINE q == RemoveFirst(k.queue, i)
<1>1. k \in Work /\ k.queue \in Seq(Item) /\ NoTwice(k.queue)
  BY DEF Sane, Work
<1>2. q \in Seq(Item) /\ NoTwice(q) /\ ToSet(q) = ToSet(k.queue) \ {i}
  BY <1>1, Removed
<1>3. m = [k EXCEPT !.delayed = k.delayed \ {i}, !.queue = q,
                    !.canceling = k.canceling \cup ({i} \cap {k.running})]
  BY DEF k_work_cancel_delayable
<1> HIDE DEF q
<1>4. /\ m.delayed = k.delayed \ {i} /\ m.queue = q /\ m.running = k.running
      /\ m.canceling = k.canceling \cup ({i} \cap {k.running}) /\ m \in Work
  BY <1>1, <1>2, <1>3 DEF Work
<1> QED
  BY <1>2, <1>4 DEF Sane, Queued

(* The timeout of an item ends; no item is queued that was not delayed.    *)
LEMMA TimeoutEnded ==
  ASSUME NEW k, Sane(k), NEW i \in k.delayed, NEW m, m = work_timeout(k, i)
  PROVE  /\ Sane(m) /\ m.delayed = k.delayed \ {i} /\ m.running = k.running
         /\ m.canceling = k.canceling
         /\ Queued(m) = IF i \in k.canceling THEN Queued(k) ELSE Queued(k) \cup {i}
<1> DEFINE q == IF i \in Queued(k) \cup k.canceling THEN k.queue ELSE Append(k.queue, i)
<1>1. k \in Work /\ k.queue \in Seq(Item) /\ NoTwice(k.queue) /\ i \in Item
  BY DEF Sane, Work
<1>2. /\ q \in Seq(Item) /\ NoTwice(q)
      /\ ToSet(q) = IF i \in k.canceling THEN ToSet(k.queue) ELSE ToSet(k.queue) \cup {i}
  <2>1. CASE i \in Queued(k) \cup k.canceling
    BY <1>1, <2>1 DEF Queued
  <2>2. CASE i \notin Queued(k) \cup k.canceling
    BY <1>1, <2>2, Appended DEF Queued
  <2> QED
    BY <2>1, <2>2
<1>3. m = [k EXCEPT !.delayed = k.delayed \ {i}, !.queue = q]
  BY DEF work_timeout
<1> HIDE DEF q
<1>4. /\ m.delayed = k.delayed \ {i} /\ m.queue = q /\ m.running = k.running
      /\ m.canceling = k.canceling /\ m \in Work
  BY <1>1, <1>2, <1>3 DEF Work
<1> QED
  BY <1>2, <1>4 DEF Sane, Queued

(* The queue's thread takes an item.                                       *)
LEMMA ItemTaken ==
  ASSUME NEW k, Sane(k), k.queue # <<>>, k.running = NoItem, NoItem \notin Item,
         NEW m, m = WorkTaken(k)
  PROVE  /\ Sane(m) /\ m.delayed = k.delayed /\ m.running = Head(k.queue)
         /\ m.running \in Item /\ m.running \in Queued(k)
         /\ Queued(m) = Queued(k) \ {m.running} /\ m.canceling = {}
<1>1. /\ k \in Work /\ k.queue \in Seq(Item) /\ NoTwice(k.queue)
      /\ k.canceling = {}
  BY DEF Sane, Work
<1>2. /\ Head(k.queue) \in Item /\ Tail(k.queue) \in Seq(Item) /\ NoTwice(Tail(k.queue))
      /\ Head(k.queue) \in ToSet(k.queue)
      /\ ToSet(Tail(k.queue)) = ToSet(k.queue) \ {Head(k.queue)}
  BY <1>1, TailTaken
<1>3. m = [k EXCEPT !.running = Head(k.queue), !.queue = Tail(k.queue)]
  BY DEF WorkTaken
<1>4. /\ m.delayed = k.delayed /\ m.queue = Tail(k.queue) /\ m.running = Head(k.queue)
      /\ m.canceling = k.canceling /\ m \in Work
  BY <1>1, <1>2, <1>3 DEF Work
<1>5. m.canceling = {} /\ NoTwice(m.queue)
  BY <1>1, <1>2, <1>4
<1>6. Queued(m) = Queued(k) \ {m.running} /\ m.running \in Queued(k)
  BY <1>2, <1>4 DEF Queued
<1> QED
  BY <1>2, <1>4, <1>5, <1>6 DEF Sane

(* A handler returns.                                                      *)
LEMMA Returned ==
  ASSUME NEW k, Sane(k), NEW m, m = HandlerReturned(k)
  PROVE  /\ Sane(m) /\ m.delayed = k.delayed /\ m.queue = k.queue
         /\ m.running = NoItem /\ m.canceling = {}
<1>1. k \in Work /\ k.canceling \subseteq {k.running}
  BY DEF Sane
<1>2. m = [k EXCEPT !.running = NoItem, !.canceling = k.canceling \ {k.running}]
  BY DEF HandlerReturned
<1>3. /\ m.delayed = k.delayed /\ m.queue = k.queue /\ m.running = NoItem
      /\ m.canceling = {} /\ m \in Work
  BY <1>1, <1>2 DEF Work
<1> QED
  BY <1>3 DEF Sane

(* An idle queue.                                                          *)
LEMMA NothingTwice ==
  ASSUME NEW S PROVE <<>> \in Seq(S) /\ NoTwice(<<>>) /\ ToSet(<<>>) = {}
BY EmptySeq DEF NoTwice, ToSet
=============================================================================
