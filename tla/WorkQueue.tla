------------------------------- MODULE WorkQueue ------------------------------
(***************************************************************************)
(* The rate-limited work queue of client-go (util/workqueue) that each     *)
(* controller of the org controller's manager owns: the queue proper       *)
(* (queue.go), the delaying queue around it (delaying_queue.go), and the   *)
(* workers blocked in Get on its condition variable.                       *)
(***************************************************************************)
EXTENDS Naturals, FiniteSets, Functions, Sequences

CONSTANTS
    Keys,    \* the keys of the resources
    Workers, \* the worker goroutines (MaxConcurrentReconciles of them)
    NoKey    \* what a worker without a key holds

ASSUME WorkQueueAssumption == NoKey \notin Keys /\ IsFiniteSet(Workers)

VARIABLES
    queue,        \* the order in which keys will be worked on
    dirty,        \* the keys that need processing
    processing,   \* the keys that are being processed
    shuttingDown, \* has the queue been shut down?
    channel,      \* waitingForAddCh: keys on their way to the waiting loop
    waiting,      \* waitingForQueue: keys whose delay is not over
    pc,           \* where each worker is
    key           \* the key it holds

queueVars == <<queue, dirty, processing, shuttingDown, channel, waiting>>
workerVars == <<pc, key>>

(* A worker is not started, at the test of Get's loop, waiting for the     *)
(* condition, in reconcileHandler before or after it has read the object,  *)
(* at the deferred Done, or has left.                                      *)
WorkerStates == {"off", "get", "wait", "read", "reconcile", "done", "exited"}

WorkQueueTypeOK ==
    /\ queue \in Seq(Keys)
    /\ dirty \subseteq Keys /\ processing \subseteq Keys
    /\ shuttingDown \in BOOLEAN
    /\ channel \in Seq(Keys)
    /\ waiting \subseteq Keys
    /\ pc \in [Workers -> WorkerStates]
    /\ key \in [Workers -> Keys \cup {NoKey}]

WorkQueueInit ==
    /\ queue = <<>> /\ dirty = {} /\ processing = {}
    /\ shuttingDown = FALSE
    /\ channel = <<>> /\ waiting = {}
    /\ pc = [w \in Workers |-> "off"]
    /\ key = [w \in Workers |-> NoKey]

At(s) == {w \in Workers : pc[w] = s}

-------------------------------------------------------------------------------
(* cond.Signal in a step that sets the counters pcs: one waiting worker,   *)
(* if there is one, goes back to the test of the loop in Get.              *)
Signal(pcs) ==
    IF At("wait") = {} THEN pc' = pcs
    ELSE \E w \in At("wait") : pc' = [pcs EXCEPT ![w] = "get"]

(* A slip: the key is queued and nobody is told.                           *)
Enqueue_Silent(k, pcs) == queue' = Append(queue, k) /\ pc' = pcs

Enqueue(k, pcs) == queue' = Append(queue, k) /\ Signal(pcs)

(* A slip: a key that is being processed is queued at once.                *)
Add_WhileProcessing(k) ==
    IF shuttingDown \/ k \in dirty THEN UNCHANGED <<queue, dirty, pc>>
    ELSE dirty' = dirty \cup {k} /\ Enqueue(k, pc)

(* A slip: nothing is done for a key that is being processed.              *)
Add_DropProcessing(k) ==
    IF shuttingDown \/ k \in dirty \cup processing THEN UNCHANGED <<queue, dirty, pc>>
    ELSE dirty' = dirty \cup {k} /\ Enqueue(k, pc)

Add(k) ==
    IF shuttingDown \/ k \in dirty THEN UNCHANGED <<queue, dirty, pc>>
    ELSE /\ dirty' = dirty \cup {k}
         /\ IF k \in processing THEN UNCHANGED <<queue, pc>> ELSE Enqueue(k, pc)

(* Get: wait for the condition while the queue is empty, leave when it is  *)
(* empty and shut down, or take the first key.                             *)
GetWaits(w) ==
    /\ pc[w] = "get"
    /\ queue = <<>> /\ ~shuttingDown
    /\ pc' = [pc EXCEPT ![w] = "wait"]
    /\ UNCHANGED <<queueVars, key>>

(* A slip: an empty queue that is shut down hands out nothing, as a key.   *)
GetExits_NilItem(w) ==
    /\ pc[w] = "get"
    /\ queue = <<>> /\ shuttingDown
    /\ processing' = processing \cup {NoKey}
    /\ pc' = [pc EXCEPT ![w] = "read"]
    /\ UNCHANGED <<queue, dirty, shuttingDown, channel, waiting, key>>

GetExits(w) ==
    /\ pc[w] = "get"
    /\ queue = <<>> /\ shuttingDown
    /\ pc' = [pc EXCEPT ![w] = "exited"]
    /\ UNCHANGED <<queueVars, key>>

(* A slip: the key stays dirty while it is processed.                      *)
Get_KeepDirty(w) ==
    /\ pc[w] = "get"
    /\ queue # <<>>
    /\ queue' = Tail(queue)
    /\ processing' = processing \cup {Head(queue)}
    /\ pc' = [pc EXCEPT ![w] = "read"]
    /\ key' = [key EXCEPT ![w] = Head(queue)]
    /\ UNCHANGED <<dirty, shuttingDown, channel, waiting>>

(* A slip: the key is not marked as being processed.                       *)
Get_NotProcessing(w) ==
    /\ pc[w] = "get"
    /\ queue # <<>>
    /\ queue' = Tail(queue)
    /\ dirty' = dirty \ {Head(queue)}
    /\ pc' = [pc EXCEPT ![w] = "read"]
    /\ key' = [key EXCEPT ![w] = Head(queue)]
    /\ UNCHANGED <<processing, shuttingDown, channel, waiting>>

Get(w) ==
    /\ pc[w] = "get"
    /\ queue # <<>>
    /\ queue' = Tail(queue)
    /\ processing' = processing \cup {Head(queue)}
    /\ dirty' = dirty \ {Head(queue)}
    /\ pc' = [pc EXCEPT ![w] = "read"]
    /\ key' = [key EXCEPT ![w] = Head(queue)]
    /\ UNCHANGED <<shuttingDown, channel, waiting>>

(* A slip: a key that became dirty during the pass is left for the next Add. *)
Done_NoRequeue(w) ==
    /\ pc[w] = "done"
    /\ processing' = processing \ {key[w]}
    /\ key' = [key EXCEPT ![w] = NoKey]
    /\ pc' = [pc EXCEPT ![w] = "get"]
    /\ UNCHANGED <<queue, dirty, shuttingDown, channel, waiting>>

(* Done: a key that became dirty during the pass is queued again.          *)
Done(w) ==
    /\ pc[w] = "done"
    /\ processing' = processing \ {key[w]}
    /\ key' = [key EXCEPT ![w] = NoKey]
    /\ LET pcs == [pc EXCEPT ![w] = "get"]
       IN  IF key[w] \in dirty THEN Enqueue(key[w], pcs) ELSE pc' = pcs /\ UNCHANGED queue
    /\ UNCHANGED <<dirty, shuttingDown, channel, waiting>>

(* AddAfter, by way of AddRateLimited, with a delay above zero.            *)
AddAfter(k) ==
    channel' = IF shuttingDown THEN channel ELSE Append(channel, k)

(* waitingLoop takes an entry from the channel: it adds the key at once if *)
(* its time has come meanwhile, else insert keeps the earlier of two times.*)
ReceiveWaiting ==
    /\ ~shuttingDown /\ channel # <<>>
    /\ channel' = Tail(channel)
    /\ \/ waiting' = waiting \cup {Head(channel)} /\ UNCHANGED <<queue, dirty, pc>>
       \/ Add(Head(channel)) /\ UNCHANGED waiting
    /\ UNCHANGED <<processing, shuttingDown, key>>

(* The delay of a waiting key is over.                                     *)
AddReady(k) ==
    /\ ~shuttingDown /\ k \in waiting
    /\ waiting' = waiting \ {k}
    /\ Add(k)
    /\ UNCHANGED <<processing, shuttingDown, channel, key>>

(* A slip: ShutDown wakes one of the waiting workers.                      *)
ShutDown_Signal ==
    /\ ~shuttingDown
    /\ shuttingDown' = TRUE
    /\ Signal(pc)
    /\ UNCHANGED <<queue, dirty, processing, channel, waiting, key>>

(* ShutDown wakes every waiting worker (Broadcast) and ends waitingLoop.   *)
ShutDown ==
    /\ ~shuttingDown
    /\ shuttingDown' = TRUE
    /\ pc' = [w \in Workers |-> IF pc[w] = "wait" THEN "get" ELSE pc[w]]
    /\ UNCHANGED <<queue, dirty, processing, channel, waiting, key>>

-------------------------------------------------------------------------------
(* "Every element of queue should be in the dirty set and not in the       *)
(* processing set" (queue.go:72), and each once; a dirty key that is not   *)
(* queued is being processed, by one worker, whose Done will queue it.     *)
QueueConsistent ==
    /\ \A i \in DOMAIN queue : queue[i] \in dirty \ processing
    /\ \A i, j \in DOMAIN queue : queue[i] = queue[j] => i = j
    /\ \A k \in dirty \ processing : \E i \in DOMAIN queue : queue[i] = k

(* "It enforces that the reconcileHandler is never invoked concurrently    *)
(* with the same object" (controller.go:213).                              *)
Holders == {w \in Workers : pc[w] \in {"read", "reconcile", "done"}}

OneWorkerPerKey ==
    /\ \A w \in Holders : key[w] \in processing
    /\ \A k \in processing : \E w \in Holders : key[w] = k
    /\ \A v, w \in Holders : key[v] = key[w] => v = w

(* No wakeup is lost: when keys are queued and a worker still waits for    *)
(* the condition, as many others are about to take them (Signal in Add and *)
(* in Done, the loop around Wait in Get).                                  *)
NoLostWakeup ==
    At("wait") # {} => ~shuttingDown /\ Len(queue) <= Cardinality(At("get"))
===============================================================================
