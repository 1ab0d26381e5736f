----------------------------- MODULE ReconcileLoop ----------------------------
(***************************************************************************)
(* One controller of the org controller's manager, as main.go builds it    *)
(* for Org and for GlobalUser: the informer of the kind brings the edits   *)
(* to the manager's cache and its notifications to the event handler, the  *)
(* handler adds keys to the work queue, and workers run Reconcile, which   *)
(* reads the object from the cache. What Reconcile does with it is the     *)
(* subject of OrgReconciler and GlobalUserReconciler; here it succeeds or  *)
(* fails.                                                                  *)
(***************************************************************************)
EXTENDS WorkQueue

CONSTANTS
    MaxEdits,   \* bound on the edits of a resource
    MaxFailures \* bound on the passes that fail

ASSUME ReconcileLoopAssumption == MaxEdits \in Nat /\ MaxFailures \in Nat

VARIABLES
    version,    \* version[k]: the version of resource k at the API server
    cached,     \* the version in the manager's cache; 0 before the first list
    delivering, \* the key HandleDeltas has stored but not yet distributed
    notified,   \* the listener's notifications, oldest first
    read,       \* read[w]: the version worker w has read
    seen,       \* history: the version the last successful pass of k had read
    failures    \* passes that have failed

informerVars == <<version, cached, delivering, notified>>
vars == <<queueVars, workerVars, informerVars, read, seen, failures>>

Versions == 0..(MaxEdits + 1)

TypeOK ==
    /\ WorkQueueTypeOK
    /\ version \in [Keys -> Versions] /\ cached \in [Keys -> Versions]
    /\ \A k \in Keys : cached[k] <= version[k]
    /\ delivering \in Keys \cup {NoKey}
    /\ notified \in Seq(Keys)
    /\ read \in [Workers -> Versions]
    /\ seen \in [Keys -> Versions]
    /\ failures \in 0..MaxFailures

(* The resources exist when the manager starts. *)
Init ==
    /\ WorkQueueInit
    /\ version = [k \in Keys |-> 1] /\ cached = [k \in Keys |-> 0]
    /\ delivering = NoKey /\ notified = <<>>
    /\ read = [w \in Workers |-> 0]
    /\ seen = [k \in Keys |-> 0]
    /\ failures = 0

-------------------------------------------------------------------------------
(* An edit, or the deletion, of a resource. *)
Edit(k) ==
    /\ version[k] <= MaxEdits
    /\ version' = [version EXCEPT ![k] = @ + 1]
    /\ UNCHANGED <<queueVars, workerVars, cached, delivering, notified, read, seen, failures>>

(* HandleDeltas stores the object, at the next version or, after a list, a *)
(* later one, and then distributes it to the listener.                     *)
Deliver(k) ==
    /\ delivering = NoKey
    /\ \E v \in (cached[k] + 1)..version[k] : cached' = [cached EXCEPT ![k] = v]
    /\ delivering' = k
    /\ UNCHANGED <<queueVars, workerVars, version, notified, read, seen, failures>>

Distribute ==
    /\ delivering # NoKey
    /\ notified' = Append(notified, delivering)
    /\ delivering' = NoKey
    /\ UNCHANGED <<queueVars, workerVars, version, cached, read, seen, failures>>

(* The listener hands its first notification to EnqueueRequestForObject.   *)
Notify ==
    /\ notified # <<>>
    /\ notified' = Tail(notified)
    /\ Add(Head(notified))
    /\ UNCHANGED <<processing, shuttingDown, channel, waiting, key,
                   version, cached, delivering, read, seen, failures>>

(* Start launches the workers when the cache holds the first list.         *)
StartWorkers ==
    /\ \A w \in Workers : pc[w] = "off"
    /\ delivering = NoKey /\ \A k \in Keys : cached[k] > 0
    /\ pc' = [w \in Workers |-> "get"]
    /\ UNCHANGED <<queueVars, key, informerVars, read, seen, failures>>

-------------------------------------------------------------------------------
(* processNextWorkItem: Reconcile reads the object from the cache; then it *)
(* succeeds, and Forget clears the key's delay, or fails, and the key is   *)
(* added again after a delay; and the deferred Done.                       *)
Read(w) ==
    /\ pc[w] = "read"
    /\ read' = [read EXCEPT ![w] = cached[key[w]]]
    /\ pc' = [pc EXCEPT ![w] = "reconcile"]
    /\ UNCHANGED <<queueVars, key, informerVars, seen, failures>>

Succeed(w) ==
    /\ pc[w] = "reconcile"
    /\ seen' = [seen EXCEPT ![key[w]] = read[w]]
    /\ pc' = [pc EXCEPT ![w] = "done"]
    /\ UNCHANGED <<queueVars, key, informerVars, read, failures>>

Fail(w) ==
    /\ pc[w] = "reconcile"
    /\ failures < MaxFailures /\ failures' = failures + 1
    /\ AddAfter(key[w])
    /\ pc' = [pc EXCEPT ![w] = "done"]
    /\ UNCHANGED <<queue, dirty, processing, shuttingDown, waiting, key,
                   informerVars, read, seen>>

QueueStep(w) ==
    /\ GetWaits(w) \/ GetExits(w) \/ Get(w) \/ Done(w)
    /\ UNCHANGED <<informerVars, read, seen, failures>>

Work(w) == QueueStep(w) \/ Read(w) \/ Succeed(w) \/ Fail(w)

WaitingLoop ==
    /\ ReceiveWaiting \/ \E k \in Keys : AddReady(k)
    /\ UNCHANGED <<informerVars, read, seen, failures>>

Close == ShutDown /\ UNCHANGED <<informerVars, read, seen, failures>>

Inform == (\E k \in Keys : Deliver(k)) \/ Distribute \/ Notify

Next ==
    \/ \E k \in Keys : Edit(k)
    \/ Inform
    \/ StartWorkers
    \/ \E w \in Workers : Work(w)
    \/ WaitingLoop
    \/ Close

Spec == Init /\ [][Next]_vars

(* The goroutines of the informer, of the waiting loop and of the workers  *)
(* run on; every pass ends, and no key waits for ever.                     *)
FairSpec ==
    /\ Spec
    /\ WF_vars(\E k \in Keys : Deliver(k)) /\ WF_vars(Distribute) /\ WF_vars(Notify)
    /\ WF_vars(StartWorkers)
    /\ \A w \in Workers : WF_vars(Work(w))
    /\ WF_vars(WaitingLoop)

-------------------------------------------------------------------------------
(* Something will bring the key to a worker: its notification, the queue,  *)
(* or a delay.                                                             *)
Scheduled(k) ==
    \/ delivering = k \/ k \in Range(notified)
    \/ k \in dirty
    \/ k \in waiting \cup Range(channel)

(* The store of work for a resource whose cached version no pass has       *)
(* finished: it is scheduled, or a worker is about to read it or works on  *)
(* that very version. No order of an edit, the steps of a pass over the    *)
(* version before it, its failure and its delays leaves it out (HandleDel- *)
(* tas, Add, Done, AddRateLimited before the deferred Done).               *)
UnderWay(k, v) ==
    \E w \in Workers :
        /\ key[w] = k
        /\ \/ pc[w] = "read"
           \/ pc[w] = "reconcile" /\ read[w] = v

StaleIsScheduled ==
    ~shuttingDown =>
        \A k \in Keys : seen[k] # cached[k] => Scheduled(k) \/ UnderWay(k, cached[k])

(* What makes it inductive: a pass over an old version has a successor.    *)
OldReadScheduled ==
    ~shuttingDown =>
        \A w \in At("reconcile") : read[w] # cached[key[w]] => Scheduled(key[w])

LoopInv == TypeOK /\ QueueConsistent /\ OneWorkerPerKey /\ StaleIsScheduled /\ OldReadScheduled

(* The queue does what KeyQueue says.                                      *)
Abstract ==
    INSTANCE KeyQueue WITH
        pending <- dirty,
        later <- IF shuttingDown THEN {} ELSE waiting \cup Range(channel),
        held <- processing,
        closed <- shuttingDown

QueueImplemented == Abstract!Spec

(* Unless the queue is shut down, every edit is reconciled in the end: a   *)
(* pass that read the last version succeeds, and no older one overtakes it *)
(* (the whole path from HandleDeltas to Forget).                           *)
EveryEditReconciled ==
    <>shuttingDown \/ <>[](\A k \in Keys : seen[k] = version[k])

(* Once the queue is shut down the workers leave, whatever keys are queued *)
(* and whatever they wait for (Broadcast, drain of the queue in Get).      *)
ShutdownTerminates ==
    <>shuttingDown => <>[](\A w \in Workers : pc[w] \in {"off", "exited"})
===============================================================================
