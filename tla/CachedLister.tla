----------------------------- MODULE CachedLister -----------------------------
(***************************************************************************)
(* The two programs of the repository that list through the cache of a     *)
(* controller-runtime cluster: caching/main.go lists the apps of one       *)
(* namespace after the other, three times, and applies an app after the    *)
(* first; process-indexing/main.go lists the pods that have a container of *)
(* a given name, by an index of its own. The cache runs beside them, and   *)
(* others write at the API server.                                         *)
(***************************************************************************)
EXTENDS Informer

CONSTANTS
    Namespaces,  \* the namespaces caching lists, in order
    Labels,      \* the container names process-indexing asks for, in order
    PodsNS,      \* the namespace it asks for them in
    AllNS,       \* stands for all namespaces in an index value
    Containers,  \* container names pods may have
    Pods,        \* the sets of containers a pod may have
    TheApp       \* the key of the app caching applies

(* The function process-indexing indexes by: the names of the containers.  *)
getProcessGuid(obj) == obj.containers

(* What an object is found under: its namespace, and each value of the     *)
(* field index both in its namespace and in all of them (indexByField).    *)
IndexedAs(obj) ==
    {<<"namespace", obj.key.ns>>}
    \cup {<<"field", ns, c>> : ns \in {obj.key.ns, AllNS}, c \in getProcessGuid(obj)}

(* An object: its key, the version of the write that made it, containers.  *)
(* Others leave one write to Apply, and the lists of queries are not empty.*)
ASSUME CachedListerAssumption ==
    /\ IndexFunc = [obj \in Objects |-> IndexedAs(obj)]
    /\ Keys \subseteq [ns : STRING, name : STRING] /\ IsFiniteSet(Keys)
    /\ Objects = [key : Keys, rv : 1..MaxWrites, containers : SUBSET Containers]
    /\ MaxWrites >= 2
    /\ Pods \subseteq SUBSET Containers
    /\ TheApp \in Keys
    /\ Namespaces \in Seq(STRING) \ {<<>>} /\ Labels \in Seq(STRING) \ {<<>>}
    /\ \A i \in DOMAIN Namespaces : <<"namespace", Namespaces[i]>> \in Values
    /\ \A i \in DOMAIN Labels : <<"field", PodsNS, Labels[i]>> \in Values

VARIABLES
    program,  \* which of the two programs runs
    pc,       \* where it is
    round,    \* how many times performListings has been called
    at,       \* the query of performListings that is next
    result,   \* what the last query found
    started,  \* has the cache been started?
    informer, \* is there an informer of the kind?
    indexed,  \* has the field index been added?
    outside,  \* history: has a call to the outside failed?
    firstRV,  \* history: the version of the informer's first list
    shown     \* history: the version each key was last shown at, or 0

programVars == <<program, pc, round, at, result, indexed, outside, shown>>
vars == <<informerVars, programVars, started, informer, firstRV>>

Ended == {"done", "exit"}

TypeOK ==
    /\ InformerTypeOK
    /\ program \in {"caching", "processIndexing"}
    /\ pc \in {"setup", "waitForSync", "list", "listing", "apply", "newClient"} \cup Ended
    /\ round \in 1..3
    /\ at \in 1..(Len(Namespaces) + Len(Labels))
    /\ result \subseteq Objects
    /\ started \in BOOLEAN /\ informer \in BOOLEAN /\ indexed \in BOOLEAN /\ outside \in BOOLEAN
    /\ firstRV \in 0..Len(log)
    /\ shown \in [Keys -> 0..MaxWrites]

(* The objects others write: pods, or apps, which have no containers.      *)
Written == IF program = "caching" THEN {{}} ELSE Pods

(* An object exists before the program starts. *)
Init ==
    /\ InformerInit
    /\ program \in {"caching", "processIndexing"}
    /\ \E k \in Keys, cs \in Written :
          log = <<[key |-> k, obj |-> [key |-> k, rv |-> 1, containers |-> cs]]>>
    /\ pc = "setup" /\ round = 1 /\ at = 1 /\ result = {}
    /\ started = FALSE /\ informer = FALSE /\ indexed = FALSE
    /\ outside = FALSE /\ firstRV = 0
    /\ shown = [k \in Keys |-> 0]

(* What performListings asks for. *)
Queries ==
    IF program = "caching"
    THEN [i \in DOMAIN Namespaces |-> <<"namespace", Namespaces[i]>>]
    ELSE [i \in DOMAIN Labels |-> <<"field", PodsNS, Labels[i]>>]

Exit(failed) == pc' = "exit" /\ outside' = (outside \/ failed)

-------------------------------------------------------------------------------
(***************************************************************************)
(* main up to the start of the cache: the calls that need a configuration  *)
(* or a cluster exit the program; IndexField, whose error is not looked    *)
(* at, makes the informer of pods.                                         *)
(***************************************************************************)
Setup ==
    /\ pc = "setup"
    /\ \/ Exit(TRUE) /\ UNCHANGED <<informer, indexed>>
       \/ /\ pc' = "waitForSync"
          /\ \/ /\ program = "processIndexing"
                /\ informer' = TRUE /\ indexed' = TRUE /\ UNCHANGED outside
             \/ /\ outside' = (program = "processIndexing")
                /\ UNCHANGED <<informer, indexed>>
    /\ UNCHANGED <<program, round, at, result, shown, informerVars, started, firstRV>>

(* The goroutine that starts the cache, and with it its informers. *)
StartCache ==
    /\ pc \notin {"setup"} \cup Ended
    /\ ~started
    /\ started' = TRUE
    /\ reflector' = IF informer THEN "list" ELSE reflector
    /\ UNCHANGED <<log, lastRV, expiries, fifoVars, popping, indexerVars,
                   programVars, informer, firstRV>>

WaitForCacheSync_NotStarted ==  \* a slip: the start is not waited for
    /\ pc = "waitForSync"
    /\ informer => HasSynced
    /\ pc' = "list"
    /\ UNCHANGED <<program, round, at, result, indexed, outside, shown,
                   informerVars, started, informer, firstRV>>

(* It waits for the start, and for the informers there are by now. *)
WaitForCacheSync ==
    /\ pc = "waitForSync"
    /\ started /\ (informer => HasSynced)
    /\ pc' = "list"
    /\ UNCHANGED <<program, round, at, result, indexed, outside, shown,
                   informerVars, started, informer, firstRV>>

(* A slip: an informer made after the start is not run. *)
GetInformer_NotRun ==
    /\ pc = "list"
    /\ \/ /\ informer' = TRUE
          /\ IF started THEN pc' = "listing" /\ UNCHANGED outside ELSE Exit(FALSE)
       \/ ~informer /\ Exit(TRUE) /\ UNCHANGED informer
    /\ UNCHANGED <<program, round, at, result, indexed, shown, informerVars, started, firstRV>>

(* List first gets the informer of the kind: the first one makes it, which *)
(* asks the API server what the kind is called, and runs it if the cache   *)
(* has been started, else List fails.                                      *)
GetInformer ==
    /\ pc = "list"
    /\ \/ /\ informer' = TRUE
          /\ reflector' = IF started /\ ~informer THEN "list" ELSE reflector
          /\ IF started THEN pc' = "listing" /\ UNCHANGED outside ELSE Exit(FALSE)
       \/ ~informer /\ Exit(TRUE) /\ UNCHANGED <<informer, reflector>>
    /\ UNCHANGED <<program, round, at, result, indexed, shown, log, lastRV, expiries,
                   fifoVars, popping, indexerVars, started, firstRV>>

(* What follows a query: the next one, or what main does after a round of  *)
(* performListings.                                                        *)
NextQuery ==
    IF at < Len(Queries)
    THEN pc' = "list" /\ at' = at + 1 /\ UNCHANGED round
    ELSE /\ at' = 1
         /\ \/ program = "processIndexing" /\ pc' = "done" /\ UNCHANGED round
            \/ program = "caching" /\ round = 1 /\ pc' = "apply" /\ UNCHANGED round
            \/ program = "caching" /\ round = 2 /\ pc' = "list" /\ round' = 3
            \/ program = "caching" /\ round = 3 /\ pc' = "done" /\ UNCHANGED round

(* Then it waits until the informer has synced and looks up the index.     *)
List ==
    /\ pc = "listing" /\ HasSynced
    /\ IF program = "processIndexing" /\ ~indexed
       THEN Exit(FALSE) /\ UNCHANGED <<round, at, result, shown>>
       ELSE /\ result' = ByIndex(Queries[at])
            /\ shown' = [k \in Keys |-> IF \E o \in result' : o.key = k
                                        THEN (CHOOSE o \in result' : o.key = k).rv
                                        ELSE shown[k]]
            /\ NextQuery
            /\ UNCHANGED outside
    /\ UNCHANGED <<program, indexed, informerVars, started, informer, firstRV>>

(* kubectl apply writes the app, finds it as it should be, or fails,       *)
(* perhaps after it has written.                                           *)
WriteApp == Write(TheApp, [key |-> TheApp, rv |-> Len(log) + 1, containers |-> {}])

Apply ==
    /\ pc = "apply"
    /\ \/ WriteApp /\ pc' = "newClient" /\ UNCHANGED outside
       \/ /\ ObjectAt(TheApp, Len(log)) # Absent /\ UNCHANGED log
          /\ pc' = "newClient" /\ UNCHANGED outside
       \/ (WriteApp \/ UNCHANGED log) /\ Exit(TRUE)
    /\ UNCHANGED <<program, round, at, result, indexed, shown, reflector, lastRV, expiries,
                   fifoVars, popping, indexerVars, started, informer, firstRV>>

(* A second cluster, for another user but with the first one's cache.      *)
NewClient ==
    /\ pc = "newClient"
    /\ \/ pc' = "list" /\ round' = 2 /\ UNCHANGED outside
       \/ Exit(TRUE) /\ UNCHANGED round
    /\ UNCHANGED <<program, at, result, indexed, shown, informerVars, started, informer, firstRV>>

-------------------------------------------------------------------------------
(* The informer runs while the program does; others write.                 *)
RunInformer ==
    /\ pc \notin Ended
    /\ InformerStep
    /\ firstRV' = IF populated THEN firstRV ELSE lastRV'
    /\ UNCHANGED <<programVars, started, informer>>

OthersWrite ==
    /\ pc \notin Ended
    /\ Len(log) < MaxWrites - 1
    /\ \E k \in Keys :
          \/ Write(k, Absent)
          \/ \E cs \in Written :
                Write(k, [key |-> k, rv |-> Len(log) + 1, containers |-> cs])
    /\ UNCHANGED <<reflector, lastRV, expiries, fifoVars, popping, indexerVars,
                   programVars, started, informer, firstRV>>

Main == Setup \/ WaitForCacheSync \/ GetInformer \/ List \/ Apply \/ NewClient

Next == Main \/ StartCache \/ RunInformer \/ OthersWrite

Spec == Init /\ [][Next]_vars

(* Goroutines run on and the API server answers. *)
FairSpec == Spec /\ WF_vars(Main) /\ WF_vars(StartCache) /\ WF_vars(RunInformer)

-------------------------------------------------------------------------------
(* A query of performListings is answered. *)
Lists == pc = "listing" /\ pc' \notin {"listing", "exit"}

Unwritten(k, rv) == \A p \in (rv + 1)..Len(log) : log[p].key # k

(* No listing goes back in time: an object that was shown once is later    *)
(* shown at that version or a newer one, and is missing from a query it    *)
(* answered only if it was written since, although watches expire and the  *)
(* informer lists anew (ListAndWatch, Replace, HandleDeltas).              *)
ListingsMonotone ==
    [][Lists => \A k \in Keys : shown[k] > 0 =>
          \/ \E o \in result' : o.key = k /\ o.rv >= shown[k]
          \/ /\ \A o \in result' : o.key # k
             /\ Queries[at] \in IndexFunc[log[shown[k]].obj] => ~Unwritten(k, shown[k])]_vars

(* A listing has every object that the informer's first list had and that  *)
(* nobody has written since: List waits until the informer has synced      *)
(* (InformersMap.Get, HasSynced), and no query misses what is indexed.     *)
FirstListComplete ==
    [][Lists => \A k \in Keys :
          LET o == ObjectAt(k, firstRV)
          IN  Queries[at] \in IndexValues(o) /\ Unwritten(k, firstRV) => o \in result']_vars

(* The program fails only when a call to the outside has failed: it never  *)
(* lists from a cache that is not started or through an index that is not  *)
(* there (main waits for the cache, which its goroutine starts).           *)
FailsOnlyFromOutside == pc = "exit" => outside

(* The program ends: no listing waits for ever (the informer that the      *)
(* first List makes after the start is run, and syncs).                    *)
Finishes == <>(pc \in Ended)
===============================================================================
