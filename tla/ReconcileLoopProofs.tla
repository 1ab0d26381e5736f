-------------------------- MODULE ReconcileLoopProofs -------------------------
(***************************************************************************)
(* Theorems about ReconcileLoop, for every set of keys, every number of    *)
(* workers and every bound on edits and failures.                          *)
(***************************************************************************)
EXTENDS ReconcileLoop, FiniteSetTheorems, TLAPS

(* The workers' counters after a signal: those of pcs, and one that was    *)
(* waiting may have been woken.                                            *)
Woken(pcs) ==
    \A w \in Workers :
        \/ pc'[w] = pcs[w]
        \/ pcs[w] = "wait" /\ pc'[w] = "get"

LEMMA SignalWakes ==
    ASSUME NEW pcs \in [Workers -> WorkerStates], Signal(pcs),
           \A w \in At("wait") : pcs[w] = "wait"
    PROVE  pc' \in [Workers -> WorkerStates] /\ Woken(pcs)
<1>1. CASE At("wait") = {}
  BY <1>1 DEF Signal, Woken
<1>2. CASE At("wait") # {}
  <2>1. PICK w \in At("wait") : pc' = [pcs EXCEPT ![w] = "get"]
    BY <1>2 DEF Signal
  <2> QED BY <2>1 DEF At, Woken, WorkerStates
<1> QED BY <1>1, <1>2

(* Appending a key that is not in the queue.                               *)
LEMMA AppendedOnce ==
    ASSUME NEW q \in Seq(Keys), NEW k \in Keys,
           \A i, j \in DOMAIN q : q[i] = q[j] => i = j,
           \A i \in DOMAIN q : q[i] # k
    PROVE  /\ Append(q, k) \in Seq(Keys)
           /\ DOMAIN Append(q, k) = 1..(Len(q) + 1)
           /\ \A i \in DOMAIN q : Append(q, k)[i] = q[i]
           /\ Append(q, k)[Len(q) + 1] = k
           /\ \A i, j \in DOMAIN Append(q, k) : Append(q, k)[i] = Append(q, k)[j] => i = j
  OBVIOUS

LEMMA TailFacts ==
    ASSUME NEW q \in Seq(Keys), q # <<>>
    PROVE  /\ Head(q) \in Keys /\ Tail(q) \in Seq(Keys)
           /\ DOMAIN Tail(q) = 1..(Len(q) - 1)
           /\ \A i \in DOMAIN Tail(q) : i + 1 \in DOMAIN q /\ Tail(q)[i] = q[i + 1]
           /\ \A i \in DOMAIN q : q[i] = Head(q) \/ \E j \in DOMAIN Tail(q) : Tail(q)[j] = q[i]
<1>1. Head(q) \in Keys /\ Tail(q) \in Seq(Keys) /\ DOMAIN Tail(q) = 1..(Len(q) - 1)
  OBVIOUS
<1>2. \A i \in 1..(Len(q) - 1) : i + 1 \in DOMAIN q /\ Tail(q)[i] = q[i + 1]
  OBVIOUS
<1>3. ASSUME NEW i \in DOMAIN q, q[i] # Head(q)
      PROVE  \E j \in DOMAIN Tail(q) : Tail(q)[j] = q[i]
  <2>1. i # 1
    BY <1>3
  <2>2. i - 1 \in 1..(Len(q) - 1) /\ (i - 1) + 1 = i
    BY <2>1
  <2> QED BY <1>1, <1>2, <2>2
<1> QED BY <1>1, <1>2, <1>3

-------------------------------------------------------------------------------
QueueInv == WorkQueueTypeOK /\ QueueConsistent /\ OneWorkerPerKey

(* Adding a key, wherever the call comes from. *)
LEMMA AddKeeps ==
    ASSUME QueueInv, NEW k \in Keys, Add(k), UNCHANGED <<processing, shuttingDown, key>>,
           channel' \in Seq(Keys), waiting' \subseteq Keys
    PROVE  /\ QueueInv'
           /\ Woken(pc)
           /\ dirty' = IF shuttingDown THEN dirty ELSE dirty \cup {k}
<1> USE DEF QueueInv, WorkQueueTypeOK
<1>1. CASE shuttingDown \/ k \in dirty
  BY <1>1 DEF Add, QueueConsistent, OneWorkerPerKey, Holders, Woken
<1>2. CASE ~shuttingDown /\ k \notin dirty /\ k \in processing
  BY <1>2 DEF Add, QueueConsistent, OneWorkerPerKey, Holders, Woken
<1>3. CASE ~shuttingDown /\ k \notin dirty /\ k \notin processing
  <2>1. dirty' = dirty \cup {k} /\ queue' = Append(queue, k) /\ Signal(pc)
    BY <1>3 DEF Add, Enqueue
  <2>2. pc' \in [Workers -> WorkerStates] /\ Woken(pc)
    BY <2>1, SignalWakes DEF At
  <2>3. \A i \in DOMAIN queue : queue[i] # k
    BY <1>3 DEF QueueConsistent
  <2>4. /\ queue' \in Seq(Keys)
        /\ DOMAIN queue' = 1..(Len(queue) + 1)
        /\ \A i \in DOMAIN queue : queue'[i] = queue[i]
        /\ queue'[Len(queue) + 1] = k
        /\ \A i, j \in DOMAIN queue' : queue'[i] = queue'[j] => i = j
    BY <2>1, <2>3, AppendedOnce DEF QueueConsistent
  <2>5. DOMAIN queue = 1..Len(queue) /\ Len(queue) \in Nat
    OBVIOUS
  <2>6. QueueConsistent'
    <3>1. \A i \in DOMAIN queue' : queue'[i] \in dirty' \ processing'
      BY <1>3, <2>1, <2>4, <2>5 DEF QueueConsistent
    <3>2. \A x \in dirty' \ processing' : \E i \in DOMAIN queue' : queue'[i] = x
      BY <2>1, <2>4, <2>5 DEF QueueConsistent
    <3> QED BY <2>4, <3>1, <3>2 DEF QueueConsistent
  <2>7. Holders' = Holders
    BY <2>2 DEF Holders, Woken
  <2>8. OneWorkerPerKey'
    BY <2>7 DEF OneWorkerPerKey
  <2> QED BY <1>3, <2>1, <2>2, <2>4, <2>6, <2>8
<1> QED BY <1>1, <1>2, <1>3

LEMMA GetKeeps ==
    ASSUME QueueInv, NEW w \in Workers, Get(w)
    PROVE  QueueInv' /\ Head(queue) \in Keys /\ Head(queue) \in dirty \ processing
<1> USE DEF QueueInv, WorkQueueTypeOK, Get
<1> DEFINE k == Head(queue)
<1>1. /\ k \in Keys /\ queue' \in Seq(Keys)
      /\ DOMAIN queue' = 1..(Len(queue) - 1)
      /\ \A i \in DOMAIN queue' : i + 1 \in DOMAIN queue /\ queue'[i] = queue[i + 1]
      /\ \A i \in DOMAIN queue : queue[i] = k \/ \E j \in DOMAIN queue' : queue'[j] = queue[i]
  BY TailFacts
<1>2. 1 \in DOMAIN queue /\ queue[1] = k
  OBVIOUS
<1>3. k \in dirty \ processing
  BY <1>2 DEF QueueConsistent
<1>4. \A i \in DOMAIN queue' : queue'[i] # k
  <2> SUFFICES ASSUME NEW i \in DOMAIN queue', queue'[i] = k
               PROVE  FALSE
    OBVIOUS
  <2>1. i + 1 = 1
    BY <1>1, <1>2 DEF QueueConsistent
  <2> QED BY <1>1, <2>1
<1>5. WorkQueueTypeOK'
  BY <1>1 DEF WorkerStates
<1>6. QueueConsistent'
  <2>1. \A i \in DOMAIN queue' : queue'[i] \in dirty' \ processing'
    BY <1>1, <1>4 DEF QueueConsistent
  <2>2. \A i, j \in DOMAIN queue' : queue'[i] = queue'[j] => i = j
    <3> SUFFICES ASSUME NEW i \in DOMAIN queue', NEW j \in DOMAIN queue', queue'[i] = queue'[j]
                 PROVE  i = j
      OBVIOUS
    <3>1. i + 1 = j + 1
      BY <1>1 DEF QueueConsistent
    <3> QED BY <1>1, <3>1
  <2>3. \A x \in dirty' \ processing' : \E i \in DOMAIN queue' : queue'[i] = x
    BY <1>1 DEF QueueConsistent
  <2> QED BY <2>1, <2>2, <2>3 DEF QueueConsistent
<1>7. OneWorkerPerKey'
  <2>1. Holders' = Holders \cup {w} /\ w \notin Holders
    BY DEF Holders
  <2>2. key' = [key EXCEPT ![w] = k] /\ processing' = processing \cup {k}
    OBVIOUS
  <2> HIDE DEF Get
  <2>3. \A x \in Holders : key'[x] = key[x] /\ key[x] \in processing
    BY <2>1, <2>2 DEF OneWorkerPerKey, Holders
  <2>4. key'[w] = k
    BY <2>2
  <2>5. \A y \in processing : \E x \in Holders : key[x] = y
    BY DEF OneWorkerPerKey
  <2>6. \A x, y \in Holders : key[x] = key[y] => x = y
    BY DEF OneWorkerPerKey
  <2> QED BY <1>3, <2>1, <2>2, <2>3, <2>4, <2>5, <2>6 DEF OneWorkerPerKey
<1> QED BY <1>1, <1>3, <1>5, <1>6, <1>7

LEMMA DoneKeeps ==
    ASSUME QueueInv, NEW w \in Workers, Done(w)
    PROVE  /\ QueueInv'
           /\ key[w] \in processing
           /\ Woken([pc EXCEPT ![w] = "get"])
<1> USE DEF QueueInv, WorkQueueTypeOK
<1> DEFINE k == key[w]
           pcs == [pc EXCEPT ![w] = "get"]
<1>1. w \in Holders /\ k \in processing /\ k \in Keys
  BY DEF Done, Holders, OneWorkerPerKey
<1>2. /\ processing' = processing \ {k} /\ key' = [key EXCEPT ![w] = NoKey]
      /\ IF k \in dirty THEN Enqueue(k, pcs) ELSE pc' = pcs /\ UNCHANGED queue
      /\ UNCHANGED <<dirty, shuttingDown, channel, waiting>>
      /\ pc[w] = "done"
  BY DEF Done
<1>3. pcs \in [Workers -> WorkerStates] /\ \A x \in At("wait") : pcs[x] = "wait"
  BY <1>2 DEF At, WorkerStates
<1>4. pc' \in [Workers -> WorkerStates] /\ Woken(pcs)
  BY <1>2, <1>3, SignalWakes DEF Enqueue, Woken
<1>5. Holders' = Holders \ {w}
  BY <1>2, <1>4 DEF Holders, Woken
<1>6. OneWorkerPerKey'
  <2>1. \A x \in Holders' : key'[x] = key[x] /\ x \in Holders /\ key[x] # k
    BY <1>1, <1>2, <1>5 DEF OneWorkerPerKey, Holders
  <2> QED BY <1>2, <1>5, <2>1 DEF OneWorkerPerKey
<1>7. \A i \in DOMAIN queue : queue[i] # k
  BY <1>1 DEF QueueConsistent
<1>8. queue' \in Seq(Keys) /\ QueueConsistent'
  <2> HIDE DEF k, pcs
  <2>1. CASE k \notin dirty
    BY <1>2, <2>1 DEF QueueConsistent
  <2>2. CASE k \in dirty
    <3>0. queue' = Append(queue, k)
      BY <1>2, <2>2 DEF Enqueue
    <3>1. /\ queue' \in Seq(Keys)
          /\ DOMAIN queue' = 1..(Len(queue) + 1)
          /\ \A i \in DOMAIN queue : queue'[i] = queue[i]
          /\ queue'[Len(queue) + 1] = k
          /\ \A i, j \in DOMAIN queue' : queue'[i] = queue'[j] => i = j
      BY <1>1, <1>7, <3>0, AppendedOnce DEF QueueConsistent
    <3>2. DOMAIN queue = 1..Len(queue) /\ Len(queue) \in Nat
      OBVIOUS
    <3>3. \A i \in DOMAIN queue' : queue'[i] \in dirty' \ processing'
      BY <1>2, <2>2, <3>1, <3>2 DEF QueueConsistent
    <3>4. \A x \in dirty' \ processing' : \E i \in DOMAIN queue' : queue'[i] = x
      <4> SUFFICES ASSUME NEW x \in dirty \ processing, x # k
                   PROVE  \E i \in DOMAIN queue' : queue'[i] = x
        BY <1>2, <3>1, <3>2
      <4> QED BY <3>1, <3>2 DEF QueueConsistent
    <3> QED BY <3>1, <3>3, <3>4 DEF QueueConsistent
  <2> QED BY <2>1, <2>2
<1>9. WorkQueueTypeOK'
  BY <1>2, <1>4, <1>8
<1> QED BY <1>1, <1>4, <1>6, <1>8, <1>9

-------------------------------------------------------------------------------
LEMMA RangeAppend ==
    ASSUME NEW q \in Seq(Keys), NEW k \in Keys
    PROVE  Append(q, k) \in Seq(Keys) /\ Range(Append(q, k)) = Range(q) \cup {k}
<1> DEFINE r == Append(q, k)
<1>1. /\ r \in Seq(Keys) /\ DOMAIN r = 1..(Len(q) + 1)
      /\ DOMAIN q = 1..Len(q) /\ Len(q) \in Nat
      /\ \A i \in DOMAIN q : r[i] = q[i]
      /\ r[Len(q) + 1] = k
  OBVIOUS
<1> HIDE DEF r
<1>2. Range(r) = Range(q) \cup {k}
  BY <1>1 DEF Range
<1> QED BY <1>1, <1>2 DEF r

LEMMA RangeTail ==
    ASSUME NEW q \in Seq(Keys), q # <<>>
    PROVE  /\ Head(q) \in Keys /\ Tail(q) \in Seq(Keys)
           /\ Range(q) = {Head(q)} \cup Range(Tail(q))
<1> DEFINE t == Tail(q)
           h == Head(q)
<1>1. /\ h \in Keys /\ t \in Seq(Keys)
      /\ \A i \in DOMAIN t : i + 1 \in DOMAIN q /\ t[i] = q[i + 1]
      /\ \A i \in DOMAIN q : q[i] = h \/ \E j \in DOMAIN t : t[j] = q[i]
  BY TailFacts
<1>2. 1 \in DOMAIN q /\ q[1] = h
  OBVIOUS
<1> HIDE DEF t, h
<1>3. Range(q) = {h} \cup Range(t)
  BY <1>1, <1>2 DEF Range
<1> QED BY <1>1, <1>3 DEF t, h

(* A step that reads, finishes and delivers nothing loses nothing.         *)
Busy(w) == pc[w] \in {"read", "reconcile"}

LEMMA ScheduleKept ==
    ASSUME StaleIsScheduled, OldReadScheduled,
           UNCHANGED <<cached, read, seen>>,
           shuttingDown => shuttingDown',
           \A k \in Keys : ~shuttingDown' /\ Scheduled(k) => Scheduled(k)',
           \A w \in Workers : Busy(w) \/ Busy(w)' => pc'[w] = pc[w] /\ key'[w] = key[w],
           \A w \in Workers : Busy(w) => key[w] \in Keys
    PROVE  StaleIsScheduled' /\ OldReadScheduled'
<1>1. ASSUME ~shuttingDown', NEW k \in Keys, seen'[k] # cached'[k]
      PROVE  Scheduled(k)' \/ UnderWay(k, cached[k])'
  <2>1. CASE Scheduled(k)
    BY <1>1, <2>1
  <2>2. CASE UnderWay(k, cached[k])
    <3>1. PICK w \in Workers :
             key[w] = k /\ (pc[w] = "read" \/ (pc[w] = "reconcile" /\ read[w] = cached[k]))
      BY <2>2 DEF UnderWay
    <3>2. pc'[w] = pc[w] /\ key'[w] = key[w] /\ read'[w] = read[w]
      BY <3>1 DEF Busy
    <3> QED BY <3>1, <3>2 DEF UnderWay
  <2> QED BY <1>1, <2>1, <2>2 DEF StaleIsScheduled
<1>2. ASSUME ~shuttingDown', NEW w \in Workers, pc'[w] = "reconcile", read'[w] # cached'[key'[w]]
      PROVE  \E k \in Keys : k = key'[w] /\ Scheduled(k)'
  <2>1. pc[w] = "reconcile" /\ key'[w] = key[w] /\ key[w] \in Keys
    BY <1>2 DEF Busy
  <2>2. PICK k \in Keys : k = key[w]
    BY <2>1
  <2>3. Scheduled(k)
    BY <1>2, <2>1, <2>2 DEF OldReadScheduled, At
  <2>4. Scheduled(k)'
    BY <1>2, <2>3
  <2> QED BY <2>1, <2>2, <2>4
<1>3. OldReadScheduled'
  <2> SUFFICES ASSUME ~shuttingDown', NEW w \in Workers, pc'[w] = "reconcile",
                      read'[w] # cached'[key'[w]]
               PROVE  Scheduled(key[w])'
    BY DEF OldReadScheduled, At
  <2>1. PICK k \in Keys : k = key'[w] /\ Scheduled(k)'
    BY <1>2
  <2> QED BY <2>1 DEF Scheduled
<1>4. StaleIsScheduled'
  BY <1>1 DEF StaleIsScheduled
<1> QED BY <1>3, <1>4

(* The keys of the workers that have one.                                  *)
LEMMA HeldKeys ==
    ASSUME QueueInv, NEW w \in Workers, pc[w] \in {"read", "reconcile", "done"}
    PROVE  key[w] \in Keys /\ key[w] \in processing /\ w \in Holders
  BY DEF QueueInv, WorkQueueTypeOK, OneWorkerPerKey, Holders

(* After a wakeup the busy workers are where they were.                    *)
LEMMA WokenBusy ==
    ASSUME NEW pcs \in [Workers -> WorkerStates], Woken(pcs), NEW w \in Workers,
           pcs[w] \in {"read", "reconcile"} \/ pc'[w] \in {"read", "reconcile"}
    PROVE  pc'[w] = pcs[w]
  BY DEF Woken

-------------------------------------------------------------------------------
(* One lemma for each kind of step.                                        *)
LEMMA InitLoopInv == Init => LoopInv
<1> SUFFICES ASSUME Init PROVE LoopInv
  OBVIOUS
<1> USE DEF Init, WorkQueueInit
<1>1. TypeOK
  <2>1. WorkQueueTypeOK
    <3>1. pc \in [Workers -> WorkerStates] /\ key \in [Workers -> Keys \cup {NoKey}]
      BY DEF WorkerStates
    <3>2. queue \in Seq(Keys) /\ channel \in Seq(Keys)
      OBVIOUS
    <3> QED BY <3>1, <3>2 DEF WorkQueueTypeOK
  <2>2. 0 \in Versions /\ 1 \in Versions /\ 0 \in 0..MaxFailures /\ 0 <= 1
    BY ReconcileLoopAssumption DEF Versions
  <2>3. /\ version \in [Keys -> Versions] /\ cached \in [Keys -> Versions]
        /\ read \in [Workers -> Versions] /\ seen \in [Keys -> Versions]
        /\ \A k \in Keys : cached[k] <= version[k]
    BY <2>2
  <2> QED BY <2>1, <2>2, <2>3 DEF TypeOK
<1>2. QueueConsistent /\ OneWorkerPerKey /\ OldReadScheduled
  BY DEF QueueConsistent, OneWorkerPerKey, Holders, OldReadScheduled, At
<1>3. StaleIsScheduled
  BY DEF StaleIsScheduled
<1> QED BY <1>1, <1>2, <1>3 DEF LoopInv

(* A call of Add that moves the key from where it was scheduled: the       *)
(* listener's notifications, the channel, or the keys with a delay.        *)
LEMMA AddedFrom ==
    ASSUME LoopInv, NEW k \in Keys, Add(k),
           UNCHANGED <<processing, shuttingDown, key, version, cached, delivering,
                       read, seen, failures>>,
           notified' \in Seq(Keys), channel' \in Seq(Keys), waiting' \subseteq Keys,
           Range(notified) \subseteq Range(notified') \cup {k},
           Range(channel) \cup waiting \subseteq Range(channel') \cup waiting' \cup {k}
    PROVE  LoopInv'
<1>1. QueueInv' /\ Woken(pc) /\ dirty' = IF shuttingDown THEN dirty ELSE dirty \cup {k}
  BY AddKeeps DEF LoopInv, TypeOK, QueueInv
<1>2. TypeOK'
  BY <1>1 DEF LoopInv, TypeOK, QueueInv
<1>3. ASSUME NEW x \in Keys, ~shuttingDown', Scheduled(x)
      PROVE  Scheduled(x)'
  BY <1>1, <1>3 DEF Scheduled
<1>4. \A w \in Workers : Busy(w) \/ Busy(w)' => pc'[w] = pc[w] /\ key'[w] = key[w]
  BY <1>1, WokenBusy DEF Busy, LoopInv, TypeOK, WorkQueueTypeOK
<1>5. \A w \in Workers : Busy(w) => key[w] \in Keys
  BY HeldKeys DEF Busy, LoopInv, TypeOK, QueueInv
<1>6. StaleIsScheduled' /\ OldReadScheduled'
  BY <1>3, <1>4, <1>5, ScheduleKept DEF LoopInv
<1> QED BY <1>1, <1>2, <1>6 DEF LoopInv, QueueInv

LEMMA NotifyStep == LoopInv /\ Notify => LoopInv'
<1> SUFFICES ASSUME LoopInv, Notify PROVE LoopInv'
  OBVIOUS
<1>1. notified \in Seq(Keys) /\ channel \in Seq(Keys) /\ waiting \subseteq Keys
  BY DEF LoopInv, TypeOK, WorkQueueTypeOK
<1>2. /\ Head(notified) \in Keys /\ notified' \in Seq(Keys)
      /\ Range(notified) = {Head(notified)} \cup Range(notified')
  BY <1>1, RangeTail DEF Notify
<1> QED BY <1>1, <1>2, AddedFrom DEF Notify

LEMMA WaitingLoopStep == LoopInv /\ WaitingLoop => LoopInv'
<1> SUFFICES ASSUME LoopInv, WaitingLoop PROVE LoopInv'
  OBVIOUS
<1>1. notified \in Seq(Keys) /\ channel \in Seq(Keys) /\ waiting \subseteq Keys
  BY DEF LoopInv, TypeOK, WorkQueueTypeOK
<1>2. UNCHANGED <<version, cached, delivering, notified, read, seen, failures>>
  BY DEF WaitingLoop, informerVars
<1>3. CASE ReceiveWaiting
  <2>1. /\ Head(channel) \in Keys /\ channel' \in Seq(Keys)
        /\ Range(channel) = {Head(channel)} \cup Range(channel')
    BY <1>1, <1>3, RangeTail DEF ReceiveWaiting
  <2>2. CASE waiting' = waiting \cup {Head(channel)} /\ UNCHANGED <<queue, dirty, pc>>
    <3>1. UNCHANGED <<processing, shuttingDown, key>>
      BY <1>3 DEF ReceiveWaiting
    <3>2. TypeOK' /\ QueueConsistent' /\ OneWorkerPerKey'
      BY <1>2, <2>1, <2>2, <3>1
      DEF LoopInv, TypeOK, WorkQueueTypeOK, QueueConsistent, OneWorkerPerKey, Holders
    <3>3. \A x \in Keys : ~shuttingDown' /\ Scheduled(x) => Scheduled(x)'
      BY <1>2, <2>1, <2>2 DEF Scheduled
    <3>4. \A w \in Workers : Busy(w) => key[w] \in Keys
      BY HeldKeys DEF Busy, LoopInv, TypeOK, QueueInv
    <3>5. StaleIsScheduled' /\ OldReadScheduled'
      BY <1>2, <2>2, <3>1, <3>3, <3>4, ScheduleKept DEF LoopInv, Busy
    <3> QED BY <3>2, <3>5 DEF LoopInv
  <2>3. CASE Add(Head(channel)) /\ UNCHANGED waiting
    <3>1. UNCHANGED <<processing, shuttingDown, key>>
      BY <1>3 DEF ReceiveWaiting
    <3> QED BY <1>1, <1>2, <2>1, <2>3, <3>1, AddedFrom
  <2> QED BY <1>3, <2>2, <2>3 DEF ReceiveWaiting
<1>4. ASSUME NEW k \in Keys, AddReady(k)
      PROVE  LoopInv'
  <2>1. /\ Add(k) /\ UNCHANGED <<processing, shuttingDown, channel, key>>
        /\ waiting' = waiting \ {k}
    BY <1>4 DEF AddReady
  <2>2. Range(channel) \cup waiting \subseteq Range(channel') \cup waiting' \cup {k}
    BY <2>1
  <2> QED BY <1>1, <1>2, <2>1, <2>2, AddedFrom
<1> QED BY <1>3, <1>4 DEF WaitingLoop

LEMMA EditStep ==
    ASSUME LoopInv, NEW k \in Keys, Edit(k)
    PROVE  LoopInv'
<1>1. /\ version' = [version EXCEPT ![k] = @ + 1] /\ version[k] <= MaxEdits
      /\ UNCHANGED <<queueVars, workerVars, cached, delivering, notified, read, seen, failures>>
  BY DEF Edit
<1>2. version' \in [Keys -> Versions] /\ \A x \in Keys : cached'[x] <= version'[x]
  BY <1>1, ReconcileLoopAssumption DEF LoopInv, TypeOK, Versions
<1>3. TypeOK' /\ QueueConsistent' /\ OneWorkerPerKey'
  BY <1>1, <1>2
  DEF LoopInv, TypeOK, WorkQueueTypeOK, queueVars, workerVars, QueueConsistent, OneWorkerPerKey, Holders
<1>4. StaleIsScheduled' /\ OldReadScheduled'
  BY <1>1 DEF LoopInv, StaleIsScheduled, OldReadScheduled, Scheduled, UnderWay, At, queueVars, workerVars
<1> QED BY <1>3, <1>4 DEF LoopInv

LEMMA DeliverStep ==
    ASSUME LoopInv, NEW k \in Keys, Deliver(k)
    PROVE  LoopInv'
<1>1. PICK v \in (cached[k] + 1)..version[k] : cached' = [cached EXCEPT ![k] = v]
  BY DEF Deliver
<1>2. /\ delivering = NoKey /\ delivering' = k
      /\ UNCHANGED <<queueVars, workerVars, version, notified, read, seen, failures>>
  BY DEF Deliver
<1>3. cached' \in [Keys -> Versions] /\ \A x \in Keys : cached'[x] <= version'[x]
  BY <1>1, <1>2, ReconcileLoopAssumption DEF LoopInv, TypeOK, Versions
<1>4. TypeOK' /\ QueueConsistent' /\ OneWorkerPerKey'
  BY <1>2, <1>3
  DEF LoopInv, TypeOK, WorkQueueTypeOK, queueVars, workerVars, QueueConsistent, OneWorkerPerKey, Holders
<1>5. Scheduled(k)' /\ \A x \in Keys : Scheduled(x) => Scheduled(x)'
  BY <1>2, WorkQueueAssumption DEF Scheduled, queueVars
<1>6. \A x \in Keys \ {k} : cached'[x] = cached[x]
  BY <1>1 DEF LoopInv, TypeOK
<1>7. StaleIsScheduled'
  <2> SUFFICES ASSUME ~shuttingDown, NEW x \in Keys \ {k}, seen[x] # cached[x]
               PROVE  Scheduled(x)' \/ UnderWay(x, cached[x])'
    BY <1>2, <1>5, <1>6 DEF StaleIsScheduled, queueVars
  <2>1. Scheduled(x) \/ UnderWay(x, cached[x])
    BY DEF LoopInv, StaleIsScheduled
  <2> QED BY <1>2, <1>5, <1>6, <2>1 DEF UnderWay, workerVars
<1>8. OldReadScheduled'
  <2> SUFFICES ASSUME ~shuttingDown, NEW w \in At("reconcile"), key[w] # k, read[w] # cached[key[w]]
               PROVE  Scheduled(key[w])'
    <3>1. \A w \in At("reconcile") : key[w] \in Keys
      BY HeldKeys DEF LoopInv, TypeOK, QueueInv, At
    <3>2. At("reconcile")' = At("reconcile") /\ UNCHANGED <<key, read, shuttingDown>>
      BY <1>2 DEF At, workerVars, queueVars
    <3>3. \A w \in At("reconcile") : key[w] # k => cached'[key[w]] = cached[key[w]]
      BY <1>6, <3>1
    <3>4. \A w \in At("reconcile") : key[w] = k => Scheduled(key[w])'
      BY <1>2, <3>2 DEF Scheduled
    <3> QED BY <3>2, <3>3, <3>4 DEF OldReadScheduled
  <2>1. Scheduled(key[w]) /\ key[w] \in Keys
    BY HeldKeys DEF LoopInv, OldReadScheduled, TypeOK, QueueInv, At
  <2> QED BY <1>2, <2>1, WorkQueueAssumption DEF Scheduled, queueVars, workerVars
<1> QED BY <1>4, <1>7, <1>8 DEF LoopInv

LEMMA DistributeStep == LoopInv /\ Distribute => LoopInv'
<1> SUFFICES ASSUME LoopInv, Distribute PROVE LoopInv'
  OBVIOUS
<1>1. /\ delivering # NoKey /\ delivering' = NoKey
      /\ notified' = Append(notified, delivering)
      /\ UNCHANGED <<queueVars, workerVars, version, cached, read, seen, failures>>
  BY DEF Distribute
<1>2. delivering \in Keys /\ notified \in Seq(Keys)
  BY <1>1 DEF LoopInv, TypeOK
<1>3. notified' \in Seq(Keys) /\ Range(notified') = Range(notified) \cup {delivering}
  BY <1>1, <1>2, RangeAppend
<1>4. TypeOK' /\ QueueConsistent' /\ OneWorkerPerKey'
  BY <1>1, <1>3
  DEF LoopInv, TypeOK, WorkQueueTypeOK, queueVars, workerVars, QueueConsistent, OneWorkerPerKey, Holders
<1>5. \A x \in Keys : ~shuttingDown' /\ Scheduled(x) => Scheduled(x)'
  BY <1>1, <1>3 DEF Scheduled, queueVars
<1>6. \A w \in Workers : Busy(w) => key[w] \in Keys
  BY HeldKeys DEF Busy, LoopInv, TypeOK, QueueInv
<1>7. StaleIsScheduled' /\ OldReadScheduled'
  BY <1>1, <1>5, <1>6, ScheduleKept DEF LoopInv, Busy, queueVars, workerVars
<1> QED BY <1>4, <1>7 DEF LoopInv

(* A step of the workers between passes, that leaves queue and keys alone. *)
LEMMA CountersOnly ==
    ASSUME LoopInv, pc' \in [Workers -> WorkerStates],
           UNCHANGED <<queue, dirty, processing, channel, waiting, key, informerVars,
                       read, seen, failures>>,
           shuttingDown' \in BOOLEAN, shuttingDown => shuttingDown',
           \A w \in Workers : pc'[w] = pc[w] \/ {pc[w], pc'[w]} \subseteq {"off", "get", "wait", "exited"}
    PROVE  LoopInv'
<1>1. Holders' = Holders
  BY DEF Holders
<1>2. TypeOK' /\ QueueConsistent' /\ OneWorkerPerKey'
  BY <1>1 DEF LoopInv, TypeOK, WorkQueueTypeOK, informerVars, QueueConsistent, OneWorkerPerKey
<1>3. \A x \in Keys : Scheduled(x) => Scheduled(x)'
  BY DEF Scheduled, informerVars
<1>4. \A w \in Workers : Busy(w) => key[w] \in Keys
  BY HeldKeys DEF Busy, LoopInv, TypeOK, QueueInv
<1>5. \A w \in Workers : Busy(w) \/ Busy(w)' => pc'[w] = pc[w]
  BY DEF Busy
<1>6. StaleIsScheduled' /\ OldReadScheduled'
  BY <1>3, <1>4, <1>5, ScheduleKept DEF LoopInv, informerVars
<1> QED BY <1>2, <1>6 DEF LoopInv

LEMMA StartStep == LoopInv /\ StartWorkers => LoopInv'
<1> SUFFICES ASSUME LoopInv, StartWorkers PROVE LoopInv'
  OBVIOUS
<1>1. /\ pc' \in [Workers -> WorkerStates] /\ \A w \in Workers : pc[w] = "off" /\ pc'[w] = "get"
      /\ UNCHANGED <<queueVars, key, informerVars, read, seen, failures>>
  BY DEF StartWorkers, WorkerStates
<1>2. shuttingDown' \in BOOLEAN
  BY <1>1 DEF LoopInv, TypeOK, WorkQueueTypeOK, queueVars
<1> QED BY <1>1, <1>2, CountersOnly DEF queueVars

LEMMA CloseStep == LoopInv /\ Close => LoopInv'
<1> SUFFICES ASSUME LoopInv, Close PROVE LoopInv'
  OBVIOUS
<1>1. /\ shuttingDown' = TRUE
      /\ pc' = [w \in Workers |-> IF pc[w] = "wait" THEN "get" ELSE pc[w]]
      /\ UNCHANGED <<queue, dirty, processing, channel, waiting, key, informerVars, read, seen, failures>>
  BY DEF Close, ShutDown
<1>2. pc \in [Workers -> WorkerStates]
  BY DEF LoopInv, TypeOK, WorkQueueTypeOK
<1>3. pc' \in [Workers -> WorkerStates]
  BY <1>1, <1>2 DEF WorkerStates
<1>4. \A w \in Workers : pc'[w] = pc[w] \/ {pc[w], pc'[w]} \subseteq {"off", "get", "wait", "exited"}
  BY <1>1
<1> QED BY <1>1, <1>3, <1>4, CountersOnly

-------------------------------------------------------------------------------
(* The steps of a worker.                                                  *)
LEMMA ReadStep ==
    ASSUME LoopInv, NEW w \in Workers, Read(w)
    PROVE  LoopInv'
<1>1. /\ pc[w] = "read" /\ pc' = [pc EXCEPT ![w] = "reconcile"]
      /\ read' = [read EXCEPT ![w] = cached[key[w]]]
      /\ UNCHANGED <<queueVars, key, informerVars, seen, failures>>
  BY DEF Read
<1>2. key[w] \in Keys
  BY <1>1, HeldKeys DEF LoopInv, TypeOK, QueueInv
<1>3. pc' \in [Workers -> WorkerStates] /\ Holders' = Holders
  BY <1>1 DEF LoopInv, TypeOK, WorkQueueTypeOK, WorkerStates, Holders
<1>4. read' \in [Workers -> Versions]
  BY <1>1, <1>2 DEF LoopInv, TypeOK
<1>5. TypeOK' /\ QueueConsistent' /\ OneWorkerPerKey'
  BY <1>1, <1>3, <1>4
  DEF LoopInv, TypeOK, WorkQueueTypeOK, queueVars, informerVars, QueueConsistent, OneWorkerPerKey
<1>6. \A x \in Keys : Scheduled(x) <=> Scheduled(x)'
  BY <1>1 DEF Scheduled, queueVars, informerVars
<1>7. read'[w] = cached[key[w]] /\ pc'[w] = "reconcile"
  BY <1>1 DEF LoopInv, TypeOK, WorkQueueTypeOK
<1>8. \A v \in Workers \ {w} : pc'[v] = pc[v] /\ read'[v] = read[v]
  BY <1>1 DEF LoopInv, TypeOK, WorkQueueTypeOK
<1>9. UNCHANGED <<key, cached, seen, shuttingDown>>
  BY <1>1 DEF queueVars, informerVars
<1>10. StaleIsScheduled'
  <2> SUFFICES ASSUME ~shuttingDown, NEW x \in Keys, seen[x] # cached[x]
               PROVE  Scheduled(x)' \/ UnderWay(x, cached[x])'
    BY <1>9 DEF StaleIsScheduled
  <2>1. Scheduled(x) \/ UnderWay(x, cached[x])
    BY DEF LoopInv, StaleIsScheduled
  <2>2. ASSUME UnderWay(x, cached[x]) PROVE UnderWay(x, cached[x])'
    <3>1. PICK v \in Workers :
             key[v] = x /\ (pc[v] = "read" \/ (pc[v] = "reconcile" /\ read[v] = cached[x]))
      BY <2>2 DEF UnderWay
    <3>2. key'[v] = x /\ (pc'[v] = "read" \/ (pc'[v] = "reconcile" /\ read'[v] = cached'[x]))
      BY <1>7, <1>8, <1>9, <3>1
    <3> QED BY <3>2 DEF UnderWay
  <2> QED BY <1>6, <2>1, <2>2
<1>11. OldReadScheduled'
  <2> SUFFICES ASSUME ~shuttingDown, NEW v \in Workers, pc'[v] = "reconcile",
                      read'[v] # cached[key[v]]
               PROVE  Scheduled(key[v])'
    BY <1>9 DEF OldReadScheduled, At
  <2>1. v # w /\ pc[v] = "reconcile" /\ read[v] # cached[key[v]]
    BY <1>7, <1>8
  <2>2. Scheduled(key[v])
    BY <2>1 DEF LoopInv, OldReadScheduled, At
  <2> QED BY <1>1, <2>2 DEF Scheduled, queueVars, informerVars
<1> QED BY <1>5, <1>10, <1>11 DEF LoopInv

(* The end of a pass: the worker goes to its Done.                         *)
LEMMA EndOfPass ==
    ASSUME LoopInv, NEW w \in Workers, pc[w] = "reconcile",
           pc' = [pc EXCEPT ![w] = "done"],
           UNCHANGED <<queue, dirty, processing, shuttingDown, waiting, key, informerVars, read>>,
           channel' \in Seq(Keys), Range(channel) \subseteq Range(channel'),
           failures' \in 0..MaxFailures, seen' \in [Keys -> Versions],
           \A x \in Keys \ {key[w]} : seen'[x] = seen[x],
           ~shuttingDown => Scheduled(key[w])' \/ seen'[key[w]] = cached[key[w]]
    PROVE  LoopInv'
<1>1. pc' \in [Workers -> WorkerStates] /\ Holders' = Holders
  BY DEF LoopInv, TypeOK, WorkQueueTypeOK, WorkerStates, Holders
<1>2. TypeOK' /\ QueueConsistent' /\ OneWorkerPerKey'
  BY <1>1
  DEF LoopInv, TypeOK, WorkQueueTypeOK, informerVars, QueueConsistent, OneWorkerPerKey
<1>3. \A x \in Keys : Scheduled(x) => Scheduled(x)'
  BY DEF Scheduled, informerVars
<1>4. \A v \in Workers \ {w} : pc'[v] = pc[v]
  BY DEF LoopInv, TypeOK, WorkQueueTypeOK
<1>5. pc'[w] = "done" /\ cached' = cached
  BY DEF LoopInv, TypeOK, WorkQueueTypeOK, informerVars
<1>6. StaleIsScheduled'
  <2> SUFFICES ASSUME ~shuttingDown, NEW x \in Keys \ {key[w]}, seen[x] # cached[x]
               PROVE  Scheduled(x)' \/ UnderWay(x, cached[x])'
    BY <1>5 DEF StaleIsScheduled
  <2>1. Scheduled(x) \/ UnderWay(x, cached[x])
    BY DEF LoopInv, StaleIsScheduled
  <2>2. ASSUME UnderWay(x, cached[x]) PROVE UnderWay(x, cached[x])'
    <3>1. PICK v \in Workers :
             key[v] = x /\ (pc[v] = "read" \/ (pc[v] = "reconcile" /\ read[v] = cached[x]))
      BY <2>2 DEF UnderWay
    <3> QED BY <1>4, <1>5, <3>1 DEF UnderWay
  <2> QED BY <1>3, <2>1, <2>2
<1>7. OldReadScheduled'
  <2> SUFFICES ASSUME ~shuttingDown, NEW v \in Workers, pc'[v] = "reconcile",
                      read[v] # cached[key[v]]
               PROVE  Scheduled(key[v])'
    BY <1>5 DEF OldReadScheduled, At
  <2>1. pc[v] = "reconcile"
    BY <1>4, <1>5
  <2>2. Scheduled(key[v])
    BY <2>1 DEF LoopInv, OldReadScheduled, At
  <2> QED BY <2>2 DEF Scheduled, informerVars
<1> QED BY <1>2, <1>6, <1>7 DEF LoopInv

LEMMA SucceedStep ==
    ASSUME LoopInv, NEW w \in Workers, Succeed(w)
    PROVE  LoopInv'
<1>1. /\ pc[w] = "reconcile" /\ pc' = [pc EXCEPT ![w] = "done"]
      /\ seen' = [seen EXCEPT ![key[w]] = read[w]]
      /\ UNCHANGED <<queueVars, key, informerVars, read, failures>>
  BY DEF Succeed
<1>2. key[w] \in Keys
  BY <1>1, HeldKeys DEF LoopInv, TypeOK, QueueInv
<1>3. /\ seen' \in [Keys -> Versions] /\ seen'[key[w]] = read[w]
      /\ \A x \in Keys \ {key[w]} : seen'[x] = seen[x]
      /\ channel' \in Seq(Keys) /\ channel' = channel /\ failures' \in 0..MaxFailures
  BY <1>1, <1>2 DEF LoopInv, TypeOK, WorkQueueTypeOK, queueVars
<1>4. ASSUME ~shuttingDown, read[w] # cached[key[w]]
      PROVE  Scheduled(key[w])'
  <2>1. Scheduled(key[w])
    BY <1>1, <1>4 DEF LoopInv, OldReadScheduled, At
  <2> QED BY <1>1, <2>1 DEF Scheduled, queueVars, informerVars
<1> QED BY <1>1, <1>3, <1>4, EndOfPass DEF queueVars

LEMMA FailStep ==
    ASSUME LoopInv, NEW w \in Workers, Fail(w)
    PROVE  LoopInv'
<1>1. /\ pc[w] = "reconcile" /\ pc' = [pc EXCEPT ![w] = "done"]
      /\ failures < MaxFailures /\ failures' = failures + 1
      /\ channel' = IF shuttingDown THEN channel ELSE Append(channel, key[w])
      /\ UNCHANGED <<queue, dirty, processing, shuttingDown, waiting, key, informerVars, read, seen>>
  BY DEF Fail, AddAfter
<1>2. key[w] \in Keys
  BY <1>1, HeldKeys DEF LoopInv, TypeOK, QueueInv
<1>3. failures' \in 0..MaxFailures /\ seen' \in [Keys -> Versions] /\ channel \in Seq(Keys)
  BY <1>1, ReconcileLoopAssumption DEF LoopInv, TypeOK, WorkQueueTypeOK
<1>4. channel' \in Seq(Keys) /\ Range(channel) \subseteq Range(channel')
  BY <1>1, <1>2, <1>3, RangeAppend
<1>5. ASSUME ~shuttingDown PROVE Scheduled(key[w])'
  <2>1. key[w] \in Range(channel') /\ key' = key
    BY <1>1, <1>2, <1>3, <1>5, RangeAppend
  <2> QED BY <2>1 DEF Scheduled
<1> QED BY <1>1, <1>3, <1>4, <1>5, EndOfPass

LEMMA QueueStepKeeps ==
    ASSUME LoopInv, NEW w \in Workers, QueueStep(w)
    PROVE  LoopInv'
<1>1. UNCHANGED <<informerVars, read, seen, failures>>
  BY DEF QueueStep
<1>2. QueueInv /\ pc \in [Workers -> WorkerStates] /\ shuttingDown \in BOOLEAN
  BY DEF LoopInv, TypeOK, QueueInv, WorkQueueTypeOK
<1>3. ASSUME GetWaits(w) \/ GetExits(w) PROVE LoopInv'
  <2>1. PICK s \in {"wait", "exited"} : pc[w] = "get" /\ pc' = [pc EXCEPT ![w] = s]
    BY <1>3 DEF GetWaits, GetExits
  <2>2. UNCHANGED <<queueVars, key>>
    BY <1>3 DEF GetWaits, GetExits
  <2>3. pc' \in [Workers -> WorkerStates]
    BY <1>2, <2>1 DEF WorkerStates
  <2>4. \A v \in Workers : pc'[v] = pc[v] \/ {pc[v], pc'[v]} \subseteq {"off", "get", "wait", "exited"}
    BY <1>2, <2>1
  <2> QED BY <1>1, <1>2, <2>2, <2>3, <2>4, CountersOnly DEF queueVars
<1>4. ASSUME Get(w) PROVE LoopInv'
  <2> DEFINE k == Head(queue)
  <2>1. QueueInv' /\ k \in Keys /\ k \in dirty \ processing
    BY <1>2, <1>4, GetKeeps
  <2>2. /\ pc[w] = "get" /\ pc' = [pc EXCEPT ![w] = "read"] /\ key' = [key EXCEPT ![w] = k]
        /\ dirty' = dirty \ {k}
        /\ UNCHANGED <<shuttingDown, channel, waiting>>
    BY <1>4 DEF Get
  <2> HIDE DEF k
  <2>3. TypeOK'
    BY <1>1, <2>1 DEF LoopInv, TypeOK, QueueInv, informerVars
  <2>4. key \in [Workers -> Keys \cup {NoKey}]
    BY DEF LoopInv, TypeOK, WorkQueueTypeOK
  <2>5. \A v \in Workers \ {w} : pc'[v] = pc[v] /\ key'[v] = key[v]
    BY <1>2, <2>2, <2>4
  <2>6. pc'[w] = "read" /\ key'[w] = k
    BY <1>2, <2>2, <2>4
  <2>7. \A x \in Keys \ {k} : Scheduled(x) => Scheduled(x)'
    BY <1>1, <2>2 DEF Scheduled, informerVars
  <2>8. UNCHANGED <<cached, read, seen, shuttingDown>>
    BY <1>1, <2>2 DEF informerVars
  <2>9. StaleIsScheduled'
    <3> SUFFICES ASSUME ~shuttingDown, NEW x \in Keys, seen[x] # cached[x]
                 PROVE  Scheduled(x)' \/ UnderWay(x, cached[x])'
      BY <2>8 DEF StaleIsScheduled
    <3>1. CASE x = k
      BY <2>6, <3>1 DEF UnderWay
    <3>2. CASE x # k
      <4>1. CASE Scheduled(x)
        BY <2>7, <3>2, <4>1
      <4>2. CASE UnderWay(x, cached[x])
        <5>1. PICK v \in Workers :
                 key[v] = x /\ (pc[v] = "read" \/ (pc[v] = "reconcile" /\ read[v] = cached[x]))
          BY <4>2 DEF UnderWay
        <5>2. v # w
          BY <2>2, <5>1
        <5> QED BY <2>5, <2>8, <5>1, <5>2 DEF UnderWay
      <4> QED BY <4>1, <4>2 DEF LoopInv, StaleIsScheduled
    <3> QED BY <3>1, <3>2
  <2>10. OldReadScheduled'
    <3> SUFFICES ASSUME ~shuttingDown, NEW v \in Workers, pc'[v] = "reconcile",
                        read[v] # cached[key'[v]]
                 PROVE  Scheduled(key[v])'
      BY <2>8 DEF OldReadScheduled, At
    <3>1. v # w /\ pc[v] = "reconcile" /\ key'[v] = key[v]
      BY <2>5, <2>6
    <3>2. key[v] \in Keys /\ key[v] \in processing
      BY <1>2, <3>1, HeldKeys
    <3>3. Scheduled(key[v])
      BY <3>1 DEF LoopInv, OldReadScheduled, At
    <3>4. PICK x \in Keys \ {k} : x = key[v]
      BY <2>1, <3>2
    <3>5. Scheduled(x)'
      BY <2>7, <3>3, <3>4
    <3> QED BY <3>1, <3>4, <3>5 DEF Scheduled
  <2> QED BY <2>1, <2>3, <2>9, <2>10 DEF LoopInv, QueueInv
<1>5. ASSUME Done(w) PROVE LoopInv'
  <2>1. QueueInv' /\ Woken([pc EXCEPT ![w] = "get"])
    BY <1>2, <1>5, DoneKeeps
  <2>2. /\ pc[w] = "done" /\ key' = [key EXCEPT ![w] = NoKey]
        /\ UNCHANGED <<dirty, shuttingDown, channel, waiting>>
    BY <1>5 DEF Done
  <2>3. TypeOK'
    BY <1>1, <2>1 DEF LoopInv, TypeOK, QueueInv, informerVars
  <2>4. key \in [Workers -> Keys \cup {NoKey}]
    BY DEF LoopInv, TypeOK, WorkQueueTypeOK
  <2>5. \A v \in Workers : Busy(v) \/ Busy(v)' => pc'[v] = pc[v] /\ key'[v] = key[v]
    BY <1>2, <2>1, <2>2, <2>4 DEF Busy, Woken
  <2>6. \A x \in Keys : Scheduled(x) => Scheduled(x)'
    BY <1>1, <2>2 DEF Scheduled, informerVars
  <2>7. \A v \in Workers : Busy(v) => key[v] \in Keys
    BY <1>2, HeldKeys DEF Busy
  <2>8. StaleIsScheduled' /\ OldReadScheduled'
    BY <1>1, <2>2, <2>5, <2>6, <2>7, ScheduleKept DEF LoopInv, informerVars
  <2> QED BY <2>1, <2>3, <2>8 DEF LoopInv, QueueInv
<1> QED BY <1>3, <1>4, <1>5 DEF QueueStep

-------------------------------------------------------------------------------
LEMMA NextLoopInv == LoopInv /\ [Next]_vars => LoopInv'
<1> SUFFICES ASSUME LoopInv, [Next]_vars PROVE LoopInv'
  OBVIOUS
<1>1. ASSUME NEW k \in Keys, Edit(k) PROVE LoopInv'
  BY <1>1, EditStep
<1>2. CASE Inform
  BY <1>2, DeliverStep, DistributeStep, NotifyStep DEF Inform
<1>3. CASE StartWorkers
  BY <1>3, StartStep
<1>4. ASSUME NEW w \in Workers, Work(w) PROVE LoopInv'
  BY <1>4, QueueStepKeeps, ReadStep, SucceedStep, FailStep DEF Work
<1>5. CASE WaitingLoop
  BY <1>5, WaitingLoopStep
<1>6. CASE Close
  BY <1>6, CloseStep
<1>7. CASE UNCHANGED vars
  <2>1. TypeOK' /\ QueueConsistent' /\ OneWorkerPerKey'
    BY <1>7 DEF vars, queueVars, workerVars, informerVars, LoopInv, TypeOK, WorkQueueTypeOK,
                QueueConsistent, OneWorkerPerKey, Holders
  <2>2. StaleIsScheduled' /\ OldReadScheduled'
    BY <1>7 DEF vars, queueVars, workerVars, informerVars, LoopInv, StaleIsScheduled,
                OldReadScheduled, Scheduled, UnderWay, At
  <2> QED BY <2>1, <2>2 DEF LoopInv
<1> QED BY <1>1, <1>2, <1>3, <1>4, <1>5, <1>6, <1>7 DEF Next

LEMMA LoopInvariant == Spec => []LoopInv
<1> QED BY InitLoopInv, NextLoopInv, PTL DEF Spec

(* Type correctness. *)
THEOREM LoopTypeCorrect == Spec => []TypeOK
<1>1. LoopInv => TypeOK
  BY DEF LoopInv
<1> QED BY <1>1, LoopInvariant, PTL

(* The three sets of the work queue fit together: what is queued is dirty, *)
(* not being processed and queued once; what is dirty is queued or being   *)
(* processed (Add, Get and Done of queue.go).                              *)
THEOREM QueueStaysConsistent == Spec => []QueueConsistent
<1>1. LoopInv => QueueConsistent
  BY DEF LoopInv
<1> QED BY <1>1, LoopInvariant, PTL

(* No two workers ever process the same key, however many workers there    *)
(* are and whenever keys are added (the promise at controller.go:213).     *)
THEOREM KeysNeverShared == Spec => []OneWorkerPerKey
<1>1. LoopInv => OneWorkerPerKey
  BY DEF LoopInv
<1> QED BY <1>1, LoopInvariant, PTL

(* No edit is forgotten: until the queue is shut down, a resource whose    *)
(* cached version has not been reconciled is scheduled or under way.       *)
THEOREM NoEditForgotten == Spec => []StaleIsScheduled
<1>1. LoopInv => StaleIsScheduled
  BY DEF LoopInv
<1> QED BY <1>1, LoopInvariant, PTL

-------------------------------------------------------------------------------
(***************************************************************************)
(* The queue implements KeyQueue: every step of the detailed system is a   *)
(* step of the abstract one or leaves its variables alone.                 *)
(***************************************************************************)
LEMMA AbstractStutter ==
    ASSUME UNCHANGED <<dirty, waiting, channel, processing, shuttingDown>>
    PROVE  UNCHANGED Abstract!vars
  BY DEF Abstract!vars

LEMMA InitAbstract == Init => Abstract!Init
<1> SUFFICES ASSUME Init PROVE Abstract!Init
  OBVIOUS
<1>1. channel = <<>> /\ waiting = {} /\ dirty = {} /\ processing = {} /\ shuttingDown = FALSE
  BY DEF Init, WorkQueueInit
<1>2. Range(channel) = {}
  BY <1>1 DEF Range
<1> QED BY <1>1, <1>2 DEF Abstract!Init

(* A call of Add that leaves the delayed keys alone is a request, one that *)
(* takes a key from them is the end of its delay; either may change        *)
(* nothing.                                                                *)
LEMMA AddDirty ==
    ASSUME NEW k \in Keys, Add(k)
    PROVE  dirty' = IF shuttingDown THEN dirty ELSE dirty \cup {k}
  BY DEF Add, Enqueue

LEMMA NextAbstract == LoopInv /\ [Next]_vars => [Abstract!Next]_Abstract!vars
<1> SUFFICES ASSUME LoopInv, [Next]_vars PROVE [Abstract!Next]_Abstract!vars
  OBVIOUS
<1>0. /\ QueueInv /\ channel \in Seq(Keys) /\ waiting \subseteq Keys
      /\ notified \in Seq(Keys) /\ shuttingDown \in BOOLEAN
  BY DEF LoopInv, TypeOK, QueueInv, WorkQueueTypeOK
<1>1. CASE \/ \E k \in Keys : Edit(k) \/ Deliver(k)
           \/ Distribute \/ StartWorkers
           \/ \E w \in Workers : Read(w) \/ Succeed(w) \/ GetWaits(w) \/ GetExits(w)
           \/ UNCHANGED vars
  BY <1>1, AbstractStutter
  DEF Edit, Deliver, Distribute, StartWorkers, Read, Succeed, GetWaits, GetExits, vars, queueVars
<1>2. CASE Notify
  <2>1. Head(notified) \in Keys /\ Add(Head(notified))
    BY <1>0, <1>2, RangeTail DEF Notify
  <2>2. UNCHANGED <<processing, shuttingDown, channel, waiting>>
    BY <1>2 DEF Notify
  <2>3. CASE shuttingDown
    BY <2>1, <2>2, <2>3, AddDirty, AbstractStutter
  <2>4. CASE ~shuttingDown
    BY <2>1, <2>2, <2>4, AddDirty DEF Abstract!Next, Abstract!Request
  <2> QED BY <2>3, <2>4
<1>3. CASE ReceiveWaiting
  <2>1. /\ ~shuttingDown /\ Head(channel) \in Keys
        /\ Range(channel) = {Head(channel)} \cup Range(channel')
        /\ UNCHANGED <<processing, shuttingDown>>
    BY <1>0, <1>3, RangeTail DEF ReceiveWaiting
  <2>2. CASE waiting' = waiting \cup {Head(channel)} /\ UNCHANGED <<queue, dirty, pc>>
    BY <2>1, <2>2 DEF Abstract!vars
  <2>3. CASE Add(Head(channel)) /\ UNCHANGED waiting
    <3>1. dirty' = dirty \cup {Head(channel)}
      BY <2>1, <2>3, AddDirty
    <3>2. Abstract!Due(Head(channel))
      BY <2>1, <2>3, <3>1 DEF Abstract!Due
    <3> QED BY <2>1, <3>2 DEF Abstract!Next
  <2> QED BY <1>3, <2>2, <2>3 DEF ReceiveWaiting
<1>4. ASSUME NEW k \in Keys, AddReady(k)
      PROVE  Abstract!Next
  <2>1. /\ ~shuttingDown /\ k \in waiting /\ waiting' = waiting \ {k}
        /\ UNCHANGED <<processing, shuttingDown, channel>>
        /\ dirty' = dirty \cup {k}
    BY <1>4, AddDirty DEF AddReady
  <2>2. Abstract!Due(k)
    BY <2>1 DEF Abstract!Due
  <2> QED BY <2>2 DEF Abstract!Next
<1>5. ASSUME NEW w \in Workers, Fail(w)
      PROVE  [Abstract!Next]_Abstract!vars
  <2>1. key[w] \in Keys
    BY <1>0, <1>5, HeldKeys DEF Fail
  <2>2. UNCHANGED <<dirty, processing, shuttingDown, waiting>>
    BY <1>5 DEF Fail
  <2>3. CASE shuttingDown
    BY <1>5, <2>2, <2>3, AbstractStutter DEF Fail, AddAfter
  <2>4. CASE ~shuttingDown
    <3>1. Range(channel') = Range(channel) \cup {key[w]}
      BY <1>0, <1>5, <2>1, <2>4, RangeAppend DEF Fail, AddAfter
    <3>2. Abstract!RequestLater(key[w])
      BY <2>2, <2>4, <3>1 DEF Abstract!RequestLater
    <3> QED BY <2>1, <3>2 DEF Abstract!Next
  <2> QED BY <2>3, <2>4
<1>6. ASSUME NEW w \in Workers, Get(w)
      PROVE  Abstract!Next
  <2>1. Head(queue) \in Keys /\ Head(queue) \in dirty \ processing
    BY <1>0, <1>6, GetKeeps
  <2>2. Abstract!Take(Head(queue))
    BY <1>6, <2>1 DEF Get, Abstract!Take
  <2> QED BY <2>1, <2>2 DEF Abstract!Next
<1>7. ASSUME NEW w \in Workers, Done(w)
      PROVE  Abstract!Next
  <2>1. key[w] \in Keys /\ key[w] \in processing
    BY <1>0, <1>7, HeldKeys DEF Done
  <2>2. Abstract!Release(key[w])
    BY <1>7, <2>1 DEF Done, Abstract!Release
  <2> QED BY <2>1, <2>2 DEF Abstract!Next
<1>8. CASE Close
  BY <1>8 DEF Close, ShutDown, Abstract!Next, Abstract!Close
<1> QED
  BY <1>1, <1>2, <1>3, <1>4, <1>5, <1>6, <1>7, <1>8
  DEF Next, Inform, Work, QueueStep, WaitingLoop

(* The work queue, with its three sets, its delays and its blocked         *)
(* workers, does what KeyQueue says: no request is lost while the queue is *)
(* open, no key is handed out unasked or to two workers.                   *)
THEOREM QueueRefines == Spec => QueueImplemented
<1> QED BY InitAbstract, NextAbstract, LoopInvariant, PTL DEF Spec, QueueImplemented, Abstract!Spec

-------------------------------------------------------------------------------
(***************************************************************************)
(* No wakeup is lost: the count of workers on their way to the queue.      *)
(***************************************************************************)
Awake == Cardinality(At("get"))

WakeInv == LoopInv /\ NoLostWakeup

LEMMA AtFinite ==
    /\ \A s \in WorkerStates : IsFiniteSet(At(s))
    /\ Awake \in Nat
<1>1. \A s : At(s) \subseteq Workers
  BY DEF At
<1>2. \A s \in WorkerStates : IsFiniteSet(At(s))
  BY <1>1, WorkQueueAssumption, FS_Subset
<1> QED BY <1>2, FS_CardinalityType DEF Awake, WorkerStates

(* A worker comes to Get, or takes a key or leaves from there.             *)
LEMMA OneMore ==
    ASSUME NEW w \in Workers, w \notin At("get"), At("get")' = At("get") \cup {w}
    PROVE  Awake' = Awake + 1
<1>1. IsFiniteSet(At("get"))
  BY AtFinite DEF WorkerStates
<1> QED BY <1>1, FS_AddElement DEF Awake

LEMMA OneLess ==
    ASSUME NEW w \in Workers, w \in At("get"), At("get")' = At("get") \ {w}
    PROVE  Awake' = Awake - 1
<1>1. IsFiniteSet(At("get"))
  BY AtFinite DEF WorkerStates
<1> QED BY <1>1, FS_RemoveElement DEF Awake

LEMMA WakeAdd ==
    ASSUME WakeInv, NEW k \in Keys, Add(k), UNCHANGED shuttingDown
    PROVE  NoLostWakeup'
<1>1. queue \in Seq(Keys) /\ pc \in [Workers -> WorkerStates]
  BY DEF WakeInv, LoopInv, TypeOK, WorkQueueTypeOK
<1>2. CASE UNCHANGED <<queue, pc>>
  BY <1>2 DEF WakeInv, NoLostWakeup, At
<1>3. CASE Enqueue(k, pc)
  <2>1. queue' = Append(queue, k) /\ Len(queue') = Len(queue) + 1 /\ Len(queue) \in Nat
    BY <1>1, <1>3 DEF Enqueue
  <2>2. CASE At("wait") = {}
    BY <1>3, <2>2 DEF Enqueue, Signal, NoLostWakeup, At
  <2>3. CASE At("wait") # {}
    <3>1. PICK w \in At("wait") : pc' = [pc EXCEPT ![w] = "get"]
      BY <1>3, <2>3 DEF Enqueue, Signal
    <3>2. w \in Workers /\ w \notin At("get") /\ At("get")' = At("get") \cup {w}
      BY <1>1, <3>1 DEF At
    <3>3. Awake' = Awake + 1 /\ Awake \in Nat
      BY <3>2, OneMore, AtFinite
    <3>4. ~shuttingDown /\ Len(queue) <= Awake
      BY <2>3 DEF WakeInv, NoLostWakeup, Awake
    <3>5. Len(queue') <= Awake'
      BY <2>1, <3>3, <3>4
    <3> QED BY <3>4, <3>5 DEF NoLostWakeup, Awake
  <2> QED BY <2>2, <2>3
<1> QED BY <1>2, <1>3 DEF Add

LEMMA WakeGet ==
    ASSUME WakeInv, NEW w \in Workers, Get(w)
    PROVE  NoLostWakeup'
<1>1. queue \in Seq(Keys) /\ pc \in [Workers -> WorkerStates]
  BY DEF WakeInv, LoopInv, TypeOK, WorkQueueTypeOK
<1>2. /\ w \in At("get") /\ At("get")' = At("get") \ {w} /\ At("wait")' = At("wait")
      /\ shuttingDown' = shuttingDown
  BY <1>1 DEF Get, At
<1>3. Len(queue') = Len(queue) - 1 /\ Len(queue) \in Nat
  BY <1>1 DEF Get
<1>4. Awake' = Awake - 1 /\ Awake \in Nat
  BY <1>2, OneLess, AtFinite
<1>5. At("wait") # {} => ~shuttingDown /\ Len(queue') <= Awake'
  BY <1>3, <1>4 DEF WakeInv, NoLostWakeup, Awake
<1> QED BY <1>2, <1>5 DEF NoLostWakeup, Awake

LEMMA WakeDone ==
    ASSUME WakeInv, NEW w \in Workers, Done(w)
    PROVE  NoLostWakeup'
<1>1. queue \in Seq(Keys) /\ pc \in [Workers -> WorkerStates] /\ Len(queue) \in Nat
  BY DEF WakeInv, LoopInv, TypeOK, WorkQueueTypeOK
<1>2. pc[w] = "done" /\ shuttingDown' = shuttingDown /\ w \notin At("get")
  BY DEF Done, At
<1>3. CASE pc' = [pc EXCEPT ![w] = "get"] /\ UNCHANGED queue
  <2>1. At("get")' = At("get") \cup {w} /\ At("wait")' = At("wait")
    BY <1>1, <1>2, <1>3 DEF At
  <2>2. Awake' = Awake + 1 /\ Awake \in Nat
    BY <1>2, <2>1, OneMore, AtFinite
  <2>3. At("wait") # {} => ~shuttingDown /\ Len(queue') <= Awake'
    BY <1>1, <1>3, <2>2 DEF WakeInv, NoLostWakeup, Awake
  <2> QED BY <1>2, <2>1, <2>3 DEF NoLostWakeup, Awake
<1>4. CASE Enqueue(key[w], [pc EXCEPT ![w] = "get"])
  <2>1. Len(queue') = Len(queue) + 1
    BY <1>1, <1>4 DEF Enqueue
  <2>2. CASE At("wait") = {}
    <3>1. pc' = [pc EXCEPT ![w] = "get"]
      BY <1>4, <2>2 DEF Enqueue, Signal
    <3>2. At("wait")' = {}
      BY <1>1, <2>2, <3>1 DEF At
    <3> QED BY <3>2 DEF NoLostWakeup
  <2>3. CASE At("wait") # {}
    <3>1. PICK v \in At("wait") : pc' = [[pc EXCEPT ![w] = "get"] EXCEPT ![v] = "get"]
      BY <1>4, <2>3 DEF Enqueue, Signal
    <3> DEFINE mid == At("get") \cup {w}
    <3>2. v \in Workers /\ v \notin mid /\ At("get")' = mid \cup {v}
      BY <1>1, <1>2, <3>1 DEF At
    <3>3. IsFiniteSet(At("get"))
      BY AtFinite DEF WorkerStates
    <3>4. IsFiniteSet(mid) /\ Cardinality(mid) = Awake + 1
      BY <1>2, <3>3, FS_AddElement DEF Awake
    <3> HIDE DEF mid
    <3>5. Cardinality(mid \cup {v}) = Cardinality(mid) + 1
      BY <3>2, <3>4, FS_AddElement
    <3>6. Awake' = (Awake + 1) + 1 /\ Awake \in Nat
      BY <3>2, <3>4, <3>5, AtFinite DEF Awake
    <3>7. ~shuttingDown /\ Len(queue) <= Awake
      BY <2>3 DEF WakeInv, NoLostWakeup, Awake
    <3>8. Len(queue') <= Awake'
      BY <1>1, <2>1, <3>6, <3>7
    <3> QED BY <1>2, <3>7, <3>8 DEF NoLostWakeup, Awake
  <2> QED BY <2>2, <2>3
<1> QED BY <1>3, <1>4 DEF Done

LEMMA NextWakeInv == WakeInv /\ [Next]_vars => WakeInv'
<1> SUFFICES ASSUME WakeInv, [Next]_vars PROVE NoLostWakeup'
  BY NextLoopInv DEF WakeInv
<1>0. /\ queue \in Seq(Keys) /\ notified \in Seq(Keys) /\ channel \in Seq(Keys)
      /\ pc \in [Workers -> WorkerStates]
  BY DEF WakeInv, LoopInv, TypeOK, WorkQueueTypeOK
<1>1. CASE UNCHANGED <<queue, shuttingDown, pc>>
  BY <1>1 DEF WakeInv, NoLostWakeup, At
<1>2. CASE Notify
  BY <1>0, <1>2, RangeTail, WakeAdd DEF Notify
<1>3. CASE ReceiveWaiting
  <2>1. UNCHANGED shuttingDown /\ Head(channel) \in Keys
    BY <1>0, <1>3, RangeTail DEF ReceiveWaiting
  <2> QED BY <1>1, <1>3, <2>1, WakeAdd DEF ReceiveWaiting
<1>4. ASSUME NEW k \in Keys, AddReady(k) PROVE NoLostWakeup'
  BY <1>4, WakeAdd DEF AddReady
<1>5. ASSUME NEW w \in Workers, Read(w) \/ Succeed(w) \/ Fail(w)
      PROVE  NoLostWakeup'
  <2>1. /\ UNCHANGED <<queue, shuttingDown>>
        /\ \E s \in {"reconcile", "done"} : pc' = [pc EXCEPT ![w] = s]
        /\ pc[w] \in {"read", "reconcile"}
    BY <1>5 DEF Read, Succeed, Fail, queueVars
  <2>2. At("get")' = At("get") /\ At("wait")' = At("wait")
    BY <1>0, <2>1 DEF At
  <2> QED BY <2>1, <2>2 DEF WakeInv, NoLostWakeup
<1>6. ASSUME NEW w \in Workers, GetWaits(w) PROVE NoLostWakeup'
  <2>1. ~shuttingDown' /\ Len(queue') = 0 /\ Awake' \in Nat
    <3>1. ~shuttingDown' /\ queue' = <<>>
      BY <1>6 DEF GetWaits, queueVars
    <3>2. Awake' \in Nat
      BY AtFinite, FS_Subset, FS_CardinalityType, WorkQueueAssumption DEF Awake, At
    <3> QED BY <3>1, <3>2
  <2> QED BY <2>1 DEF NoLostWakeup, Awake
<1>7. ASSUME NEW w \in Workers, GetExits(w) PROVE NoLostWakeup'
  <2>1. At("wait") = {}
    BY <1>7 DEF GetExits, WakeInv, NoLostWakeup
  <2>2. At("wait")' = {}
    BY <1>0, <1>7, <2>1 DEF GetExits, At
  <2> QED BY <2>2 DEF NoLostWakeup
<1>8. ASSUME NEW w \in Workers, Get(w) PROVE NoLostWakeup'
  BY <1>8, WakeGet
<1>9. ASSUME NEW w \in Workers, Done(w) PROVE NoLostWakeup'
  BY <1>9, WakeDone
<1>10. CASE StartWorkers \/ Close
  <2>1. At("wait")' = {}
    BY <1>10 DEF StartWorkers, Close, ShutDown, At
  <2> QED BY <2>1 DEF NoLostWakeup
<1>11. CASE (\E k \in Keys : Edit(k) \/ Deliver(k)) \/ Distribute \/ UNCHANGED vars
  BY <1>1, <1>11 DEF Edit, Deliver, Distribute, vars, queueVars, workerVars
<1> QED
  BY <1>2, <1>3, <1>4, <1>5, <1>6, <1>7, <1>8, <1>9, <1>10, <1>11
  DEF Next, Inform, Work, QueueStep, WaitingLoop

(* Signal is enough: as long as keys are queued and a worker waits for the *)
(* condition, as many others are on their way to take them; and no worker  *)
(* waits once the queue is shut down.                                      *)
THEOREM WakeupsNeverLost == Spec => []NoLostWakeup
<1>1. Init => WakeInv
  <2>1. Init => At("wait") = {}
    BY DEF Init, WorkQueueInit, At
  <2> QED BY <2>1, InitLoopInv DEF WakeInv, NoLostWakeup
<1>2. WakeInv => NoLostWakeup
  BY DEF WakeInv
<1> QED BY <1>1, <1>2, NextWakeInv, PTL DEF Spec
===============================================================================
