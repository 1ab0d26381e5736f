# auth-explore: a verification of the cross-cluster org controller

This directory models the concurrent core of the repository in TLA+, checks it with TLC on
small instances and proves its main safety properties with TLAPS. `PROJECT.json` is the index:
components, runs, mutants, the map from definitions to source lines, findings, hazards, theorems.

## 1. Inventory

The repository is a collection of explorations of authentication and authorization for Cloud
Foundry on Kubernetes. Most directories are scripts and static configuration; the programs are
few.

| component | state it keeps | operations | what is hard |
|---|---|---|---|
| `cross-cluster-orgs/org-controller`: Org reconciler (`reconcilers/org.go`) | none of its own: the pass in progress | `Reconcile`: bind the users of every space of an org, or delete the namespaces of a deleted org | partial failure, retries, stale snapshot of the global users, two clusters |
| org-controller: GlobalUser reconciler (`reconcilers/global_user.go`) | the pass in progress | `Reconcile`: bind a global user in every namespace of every org, or remove its global bindings | lagging caches, interleaving with the Org reconciler, first error ends the pass |
| org-controller: process (`main.go`) | manager's cache, two work queues, one cache per cluster | start, crash, enqueue, resync | lost delete events, caches that are not awaited |
| controller-runtime, client-go (vendored): controller loop | work queue, delays, workers on a condition variable | `Add`, `Get`, `Done`, `AddRateLimited`, `ShutDown` | lost wakeups, a key added while it is processed, retries beside events |
| controller-runtime, client-go (vendored): informer | delta queue, indexed store, watch position | list, watch, list again, `Pop`, `HandleDeltas`, `ByIndex` | expired watches, several index values per object, `HasSynced` |
| `oidc-login-plugin` | HTTP server, `done` channel, cf configuration file | serve the page, serve the callback, store the token, shut down | the first idle connection ends the program; two callbacks write one file |
| `caching`, `process-indexing` | a cluster cache, a field index | list before and after a write | stale cache, cache started by a goroutine, several index values per object |
| `opa`, `opa-gatekeeper` | role bindings replicated into OPA | admit or deny a change of a Droplet | bindings keyed by name, replication lag |
| `hns` | subnamespace anchors | create, poll with a bound, use | bounded polling |
| `cf-roles-model` | none | extract a role table from documents | a text filter, skipping of headings |
| the rest (`kubefed`, `virtual-clusters`, `dex-*`, `google-auth`, `kind-uaa-authN`, `run-cfshim`, `unattended`, `java-client`) | none | install and configure other programs | straight-line scripts, not modelled |

The parts of the org controller interact like this. Users edit `Org` and `GlobalUser` resources.
An informer brings the edits to the manager's cache and notifies an event handler, which puts a
key in the work queue of the resource's kind; one worker per kind takes keys and runs `Reconcile`.
A reconciler reads its resource (and the Org reconciler the list of GlobalUsers) from the manager's
cache, lists namespaces and bindings from a *cluster's* cache, and writes to the cluster's API
server directly. The two workers share nothing but the clusters. An error puts the key back after
a delay. Nothing is persisted outside the API servers, and nobody puts finalizers on the resources.

`caching` and `process-indexing` use the same library by themselves: a cache started by a
goroutine, one informer behind it, and listings by namespace or by an index of the program's own.
The login plugin stands alone: the browser, the provider and the user's cf configuration are its
environment.

What makes them correct:

- Org reconciler: grants stay inside their org; only a deleted org loses namespaces; a pass that
  reports success has done its work; in the end the clusters show what the specs say.
- GlobalUser reconciler: every namespace gets every global role; a deleted user loses them all;
  grants of orgs and spaces are not touched.
- both: every binding in a cluster was declared by some version of some resource.
- controller loop: no edit is forgotten, no key is processed twice at a time, nobody sleeps over a
  queued key, a shutdown ends the workers.
- informer and listings: the index agrees with the store; a listing misses nothing the first list
  had and does not go back in time; a listing does not wait for ever.
- login: what the user is told is true; the program does not end before the user is told; the end
  leaves nobody waiting for an answer.

## 2. Modules

| module | models | extends |
|---|---|---|
| `OrgTypes` | the resources, names and keys | |
| `Clusters` | API servers, namespace controllers, the controller's cache of each cluster | `OrgTypes` |
| `ManagerCache` | the process and the custom resources as its manager sees them | `Clusters` |
| `OrgReconciler` | `reconcilers/org.go` and its worker | `ManagerCache` |
| `GlobalUserReconciler` | `reconcilers/global_user.go` and its worker | `ManagerCache` |
| `OrgController` | both workers, the clusters, edits, crash, restart, resync; fairness | both reconcilers |
| `OrgProperties` | what is promised | `OrgController` |
| `KeyQueue` | abstract: what a controller asks of a queue of keys | |
| `WorkQueue` | client-go's `util/workqueue` with its delays, and the workers blocked in `Get` | |
| `ReconcileLoop` | one controller: informer's notifications, event handler, queue, workers, shutdown; its properties; `INSTANCE KeyQueue` | `WorkQueue` |
| `Indexer` | the indexed store, `thread_safe_store.go` | |
| `Informer` | reflector, delta queue, `HandleDeltas` | `Indexer` |
| `CachedLister` | `caching/main.go` and `process-indexing/main.go` over one informer | `Informer` |
| `OidcLogin` | the login plugin, its connections, the browser and the provider | |
| `MCOrgController`, `MCReconcileLoop`, `MCCachedLister`, `MCOidcLogin` | instances for TLC | the module of the name |
| `ClustersProofs`, `OrgReconcilerProofs`, `GlobalUserReconcilerProofs`, `OrgControllerProofs`, `ReconcileLoopProofs`, `IndexerProofs`, `CachedListerProofs`, `OidcLoginProofs` | lemmas and theorems | the module they are about |

### Org controller: state and actions

- `nss[c]`, `rbs[c]`: namespaces and role bindings in cluster `c`; `nsCache`, `rbCache`,
  `cacheUp`, `watched`: the controller's informers of that cluster. `List` reads the caches
  (`ListedNamespaces`, `ListedBindings`), `Create`, `Delete`, `DeleteAllOf` are the `API...`
  operators. The field index makes the informer of bindings before the cache starts; the
  informer of namespaces is made by the first `List` (`WatchNamespaces`), and a `List` from a
  cache that has not been started is refused (`ErrCacheNotStarted`).
- `orgs`, `gusers`, `up`: the resources and the process.
- `orgQueue`, `orgFailing`, `orgPass` (and `user...`): work queue, rate limiter, pass in
  progress. `orgPass.pc` is the call the pass makes next; a pass is cut at its calls, and the
  code between two calls belongs to the first.
- `OrgBegin` is taking a key and `Get`; `OrgGetGlobalUsers`, `OrgCreateNamespace`,
  `OrgCreateRoleBinding`, `OrgDeleteNamespaces` are the calls of `Reconcile`;
  `EnterSpace`/`LeaveSpace` are the loop over the spaces with its swallowed error;
  `UserGetCfNamespaces`, `UserCreateRoleBinding`, `UserListRoleBindings`,
  `UserDeleteRoleBinding` are those of the other reconciler.

Abstractions:

- A name is the sequence of its dash-separated parts; joining names is concatenation. This keeps
  the ambiguity of joined names and nothing else of strings.
- A user is listed with at least one role: the code reads a user only to iterate over the roles.
- An edit is the moment its watch event reaches the manager's cache. Nothing else in the program
  reads the resources, so a delay in delivery is the same as a later edit.
- The work queue is a set from which any key may be taken; the queue of the code is FIFO, so the
  model has more behaviours. A key that waits for its delay is simply in the set, and taking it
  may leave it there: an event can come while a retry of the key is still delayed, and then both
  bring a pass. That a queue of keys is a sound picture of the real one is the subject of
  `ReconcileLoop`.
- A cache takes over the whole current content of its kind in one step (`SyncNamespaces`,
  `SyncBindings`): it may lag, and skip intermediate states, but not reorder kinds of events.
- An API call is atomic in the server; a failing call may or may not have taken effect (`Fault`),
  and a failing `DeleteAllOf` may have reached any part of the namespaces.
- `Get` from the synced manager cache finds the object or answers NotFound; its third branch
  (another error) has no cause in a started cache and is left out.
- A crash between two statements of a pass is a crash between two calls, since nothing else is
  observable.

### Controller loop: state and actions

- `queue`, `dirty`, `processing`, `shuttingDown` are the fields of `Type` in `queue.go`; `channel`
  and `waiting` are `waitingForAddCh` and the waiting loop's heap of `delaying_queue.go`. `Add`,
  `Get` (three actions: `GetWaits`, `GetExits`, `Get`), `Done`, `AddAfter`, `ReceiveWaiting`,
  `AddReady`, `ShutDown` are its methods and the branches of its loop; each runs under the queue's
  lock. `cond.Signal` wakes any one waiting worker, and a woken worker tests the condition again.
- `pc[w]`, `key[w]`, `read[w]` are a worker between the calls of `processNextWorkItem`: before
  `Get`, in it, before and after `Reconcile` has read its object, at the deferred `Done`.
- `version`, `cached`, `delivering`, `notified` are a resource at the server, in the cache, between
  the store and the distribution of `HandleDeltas`, and in the listener's buffer.
- `Succeed` is the branch of `reconcileHandler` that forgets the key, `Fail` the one that adds it
  rate-limited. The branches for `Requeue` and `RequeueAfter` are not there: no reconciler of
  the repository returns them.

Abstractions: delays are above zero and otherwise any; the channel's buffer of 1000 is not bounded
(a full one would only block a worker until the waiting loop has run, which is a delay of the
worker); a resource has a version number and no content; the resources exist when the controller
starts; two edits may reach the cache as one (a list does that). The org controller runs one worker
per controller; the module has any number, as the library does. Not there: panics in `Reconcile`
and the timeout of the first sync.

### Informer and listings: state and actions

- `log` is every write at the API server; a resource version is a position in it, and the object at
  a version is the last write up to there. `reflector`, `lastRV` are the loop of `ListAndWatch`:
  `ReflectorList` (any version not older than the last seen, for the first list any at all),
  `ReflectorWatch`, `WatchExpires`.
- `queue`, `deltas`, `populated`, `initial` are the `DeltaFIFO`; `popping` is `Pop` while
  `HandleDeltas` runs, which holds the queue's lock. `Replace` queues the keys of a list in any
  order.
- `items`, `index` are `threadSafeMap`: `Update` is its `Add` and `Update`, `updateIndices` and
  `deleteFromIndices` keep the index up to date. `IndexedAs` is `indexByField`: each value of the
  field index under its namespace and under all namespaces.
- `program` chooses the program; `pc` is the call `main` is in. `Setup` to `IndexField`,
  `StartCache` is the goroutine, `WaitForCacheSync`, `GetInformer` (the first `List` makes an
  informer) and `List` (which waits for it), `Apply` and `NewClient` are the rest of `main`.

Abstractions: the objects of a kind are all in one log, the two programs have one kind each; an app
has no content, a pod has its set of container names; a failing call to the outside ends the
program as in the code. The versions of the libraries that the two programs ask for in `go.mod`
(0.10.0, 0.22.1) are not in the repository; the mapped source is that of the org controller's
vendor directory (0.9.6, 0.22.0).

### Login plugin: state and actions

- `main` is `Run`: setting up, serving, having received from `done`, in `Shutdown`, ended.
  `listening` is the server's socket. `conn[c]` is the `net/http` state of a connection; `hooked`
  are the connections whose goroutine is in the `ConnState` hook, where it sends on `done`.
- `pc[c]` is the handler of the connection: `ServeHTTP` to the choice of its case and the exchange
  of a code, `LoadConfig` (which first removes temporary files), `WriteConfig`, `RenameConfig`
  (the rename that ends `WriteConfig`), `Answer`, `GoIdle`. Before it, `net/http` reads the request
  (`ReadRequest`) and only then makes the connection active (`SetActive`): a `Shutdown` in between
  still takes it for an idle or a new one. `ShutdownClose` closes it, the tab loses its answer, and
  the handler runs on, perhaps into the end of the program.
- `tab[t]`, `request[c]`, `gone`, `granted`, `icons` are the browser: which tab shows what, which
  request is on which connection, which connections it closed, who was granted a login, who has
  asked for the icon of the site.
- `temps`, `config`, `stored` are the files: who has a temporary file, whose token is in the
  configuration, whose token has been.

Abstractions: failures before the server listens are one fatal outcome; of the configuration only
the token is kept; the exchange of a code succeeds or fails. `Shutdown` closes connections that are
idle, and new ones: those the library closes when they are five seconds old, and the model at any
time. The browser does not repeat a request whose connection was closed before the answer: such a
tab is `lost`. A response sent during a shutdown closes its connection. A signal that ends the process
from outside is not modelled: it may come at any time, and nothing in the code answers it.

## 3. Plan

Done, in this order: the org controller, the core of the repository, first as a safety model, then
with the second worker, crashes and liveness, then the first proofs; the controller loop with the
work queue, its abstract specification and the refinement; the login plugin; the indexer, the
informer and the two listing programs; the proofs of every safety property the passing runs check;
then a second look at what the runs claim: which orgs converge and which do not, what becomes of
deletions, and what a shutdown cuts short.

What is left, in this order:

1. An abstract specification of what the listing programs rely on: a store that may skip versions of
   an object but never returns to an earlier one. `CachedLister` implements it by `MonotoneInv`
   (section 5); the refinement is left to state, check and prove.
2. The part of `SteadyOrgsConverge` that is a safety property: when no key waits and no pass is
   running, every reachable space of a steady org is applied. What remains for TLC is then that the
   system comes to rest.

Two modules of the earlier plan have been dropped. A model of `opa`'s admission rule would consist
of the replication (a program outside the repository) and one expression; `hns/setup.sh` polls a
controller outside the repository, and its bound is a matter of time. Both would model more of other
programs than of this one.

## 4. Runs

Spec names are `OrgA`, `SpaceS`... in `MCOrgController`; the constants of each run are in its cfg.

| run | specification | checks | shows |
|---|---|---|---|
| `orgs` | `Spec`: 2 orgs, 2 versions each, 2 clusters, 3 edits, 1 fault, 1 crash | `TypeOK`, `OrgIsolation`, `TerminatesOnlyDeletedOrgs`, `DeletionsRemembered`, `SuccessBindsLastSpace` | isolation is right under every interleaving; only deleted orgs lose namespaces, and before a crash no cluster of theirs is forgotten; success means that the last space is bound |
| `globals` | `Spec`: 1 org, 1 global user whose role list changes and who is the org's user too, 3 roles, 3 edits, 1 fault | `GrantsDeclared`, `OtherLevelSurvives` | no grant comes from nowhere; a revocation spares other grants |
| `converge` | `FairSpec`: 2 orgs, 4 versions of each, one with an unknown cluster, 3 edits | `SteadyOrgsConverge` | every reachable space of a *steady* org is applied, although its namespace may have been terminating and other orgs are retried for ever; the other orgs are excepted, see section 6 |
| `resync_heals` | `FairSpecWithResync`: 1 org, 1 global user, 4 edits | `GlobalUsersBound` | the resync makes up for stale reads; without it the property is false. `DeleteCollectionServed = FALSE`, as API servers answer today; the property holds with `TRUE` as well |
| `reconcile_loop` | `FairSpec`: 2 keys, 2 workers, 1 edit of each, 2 failing passes, shutdown at any time | `TypeOK`, `QueueConsistent`, `OneWorkerPerKey`, `NoLostWakeup`, `StaleIsScheduled`, `QueueImplemented`, `EveryEditReconciled`, `ShutdownTerminates` | the queue implements `KeyQueue`; no edit is forgotten; the workers wake when needed and leave at a shutdown |
| `cached_listings` | `FairSpec`: 2 objects in 2 namespaces, 2 container names, 4 writes, 1 expired watch, either program | `TypeOK`, `IndexConsistent`, `FailsOnlyFromOutside`, `ListingsMonotone`, `FirstListComplete`, `Finishes` | listings are complete as of the first list and monotone, the programs end, and they fail only from outside |
| `login` | `FairSpec`: 2 tabs, 2 connections, either flow | `TypeOK`, `NobodyLeftWaiting`, `ToldTruth`, `CodeFlowEndsWithVerdict`, `LoginEnds` | nobody is told a falsehood, nor left waiting by the end; the code flow ends with a verdict; the program ends once a connection is idle |
| `swallowed_error` | `Spec`: 1 org in 2 clusters, 1 fault | `SuccessAppliesEverySpace` | violated, see section 7 |
| `undeleted_org` | `FairSpecWithResync`: 1 org, 2 edits, `DeleteCollectionServed = FALSE` | `DeletedOrgsCleanedUp` | violated, see section 7 |
| `first_deployment`, `stale_revocation` | `FairSpecWithResync`: 1 org, 1 global user | a liveness property each | violated, see section 7 |
| `login_lost` | `Spec`: 1 tab, 2 connections | `EndsWithVerdict` | violated, see section 7 |

**Bounds, org controller.** `MaxEdits` bounds the edits users make, `MaxFaults` the API calls that
fail, `MaxCrashes` the crashes. Edits of 3 or 4 allow to create, change, delete and create again,
and to edit a second resource during a pass over the first; the races of this code need two writers
and one edit between two of their calls. One fault suffices for everything a pass can get wrong,
since the pass ends or goes on with the next space after a fault; a later pass over the same key
starts from the state the first left. Two spaces are what makes the loop over spaces, and its kept
error, visible; two clusters what makes the loop over clusters visible; two orgs are needed for
isolation. `orgs` has an org with its two spaces in two clusters, so that a deletion that fails in one
has another left. In `converge` three edits are enough to create, delete and create one org while its
namespace terminates, to run it through three versions, and to have an org that never succeeds
beside it.

`DeleteCollectionServed` says whether the API servers serve `DeleteAllOf` on namespaces. They do not
today (section 7), and the runs of the findings and `resync_heals` have `FALSE`. `orgs`, `globals` and
`converge` have `TRUE`, since only then do namespaces terminate under the reconcilers' hands; with
`FALSE` the code does less, and `SteadyOrgsConverge` and the theorems hold as well.

Nothing else is bounded: queues are sets of keys, a binding is identified by its name, and a retry
adds no state.

**Bounds, controller loop.** Two workers and two keys are what a lost wakeup and a shared key need.
One edit of a key beside its first version lets an event come while the key is queued, processed,
failing or delayed; two failures let both keys be delayed at once, or one key twice. The theorems
of section 5 hold for every number of them.

**Bounds, listings.** `MaxWrites` is the length of the server's log, the first object and the app
that `caching` applies included; `MaxExpiries` the number of expired watches. One expired watch with
writes around it gives a second list with an object changed, gone or new; two namespaces and two
container names give each query an object to find and one to leave out, and an object with two
values that loses one of them.

**Bounds, login.** A connection carries any number of requests but is not opened again, so that
`Conns` bounds how often the browser connects. Two tabs on two connections are enough for two
callbacks at once, for a spare connection beside a used one, and for a connection that goes idle
while the other is at any step.

**Deadlock.** `CHECK_DEADLOCK FALSE` in every cfg: once edits, writes or connections are used up
and there is nothing to do, the system is at rest, as the real one is; the listing programs and the
plugin end.

**Fairness of the org controller.** In `FairSpec`:

- `WF(OrgStep)`, `WF(UserStep)`: a worker goroutine in the middle of a pass goes on. Every call of
  the client returns, since the requests have a context and the server answers.
- `SF(OrgBegin(o))`, `SF(UserBegin(u))` per key: the work queue is FIFO and a failing key goes to
  the back after its delay, so that a waiting key is taken though others come back for ever. Weak
  fairness would not do: taking a key is disabled while the worker is busy with another.
- `WF(Start)`: the deployment restarts the container.
- `WF(ClusterStep(c))`: caches receive watch events, namespaces being deleted go away.
- No fairness on edits, faults and crashes.

`FairSpecWithResync` adds `WF` of the periodic resync. `converge` does not need it; the violated
liveness properties are violated in spite of it. `converge` has no faults and crashes, and no global
users, because with any of them the property is false (`first_deployment`).

**Fairness of the others**, weak throughout. `ReconcileLoop`: one condition for each goroutine, the
informer's, the listener's, the waiting loop's and each worker's; a worker blocked in `Wait` takes
no step, which is why the liveness properties depend on the wakeups. No fairness on edits and on
`Close`; a pass may fail as long as `MaxFailures` allows, after which it succeeds: an org that fails
for ever is `converge`'s subject. `CachedLister`: `main`, the goroutine that starts the cache, and
the informer, whose calls the server answers; none on other writers. `OidcLogin`: `Run` and
`Shutdown` once a connection has sent on `done`, and each connection's goroutine, whose exchange
with the provider returns; none on the browser, nor on the start of the server.

## 5. Proofs

Each module's assumptions say that the constants have their types, that `Absent`, `NoKey` and
`None` stand for nothing else, and that the bounds are naturals. `WorkQueue` and `OidcLogin` also
assume finitely many workers and connections; `CachedLister` finitely many keys (a list names them
all), two writes at least (the object that exists, and the one that `caching` applies), and that each
program has queries, by index values. TLC evaluates them in every run. The theorems hold
for all values of the constants that satisfy them: any number of orgs, users, roles, clusters, any
set of specs, any bound on edits, faults, crashes; any number of keys and workers; any store and
index function; any number of objects, writes and expired watches; any number of tabs and
connections.

Org controller:

- **`TypeCorrect`**: `Spec => []TypeOK`. `TypeInv` is `TypeOK` cut into one part per module; the
  parts are preserved by lemmas of their module (`ClustersProofs`, `OrgReconcilerProofs`,
  `GlobalUserReconcilerProofs`) with one step per action, combined in `OrgControllerProofs`.
- **`OnlyDeletedOrgsTerminate`**: `Spec => []TerminatesOnlyDeletedOrgs`. Not inductive alone: a
  pass that is about to delete must be one over a deleted org. `KeysKnown` adds that a key waits or
  is worked on only if its org exists or was deleted (a key is enqueued by an edit, a resync or a
  start, which see the org), so that NotFound in `OrgBegin` means deleted. Namespaces become
  terminating only through `DeleteAllOf` with the label of the pass's org.
- **`OnlyDeclaredGrants`**: `Spec => []GrantsDeclared`. `GrantsInv` adds `Recorded` (what exists is
  in the history), `OrgPassDeclared` and `UserPassDeclared` (what a pass has in hand, however old,
  was declared when it was read). Then a binding is added only by `createRoleBindings`, from a
  pass's list, in the namespace the pass's space names; the other steps only remove bindings.
- **`OrgsIsolated`**: `UnambiguousNames => (Spec => []OrgIsolation)`. From `GrantsDeclared` a
  binding was declared by some org that names its namespace; `NamespacesNamed` (a namespace is
  named after the org of its label, since only `createNamespace` makes one) and
  `UnambiguousNames` make it the same org. The assumption is needed: see section 7.
- **`OrgGrantsSurvive`**: `Spec => OtherLevelSurvives`, an action property, from `SurvivalInv`. It
  adds to `GrantsInv` that a cluster has one namespace of a name, that what its cache of bindings
  holds was declared (`CachedDeclared`), and that what a pass is about to delete are grants which
  GlobalUsers declared (`RevokingDeclared`): what a revocation lists from a stale cache, it lists by
  the label of the level. `Delete` then removes what has the name of such a grant, whence the
  exception of `GloballyNamed`; every other binding goes only with its namespace.
- **`SuccessIsLastSpace`**: `Spec => SuccessBindsLastSpace`, from `BoundInv`: `SurvivalInv` and
  `BoundSoFar`, that a grant of the space the pass is in is bound or still in `todo`, while the pass
  is binding. A bound grant stays by the argument of `OrgGrantsSurvive`, and its namespace because
  only the Org worker deletes namespaces, and it is busy with this pass. A failing `Create` ends the
  space, so that the pass binds nothing after a grant it has missed.
- **`NoDeletionForgotten`**: `Spec => []DeletionsRemembered`, from `RememberInv`, which adds
  `PassesOutdated`: when the org of a pass that applies it is gone by now, the org's key waits,
  because the deletion has queued it and a pass takes no key. So whatever living namespace such a
  pass still makes will be visited. A pass that deletes leaves no living namespace in a cluster it
  takes off its list, and one that fails puts its key back. The theorem holds for both values of
  `DeleteCollectionServed`; with `FALSE` it says that the retries go on, not that they succeed.

Controller loop (`ReconcileLoopProofs`):

- The inductive invariant is `LoopInv`: types, **`QueueConsistent`**, **`OneWorkerPerKey`**,
  **`StaleIsScheduled`** and `OldReadScheduled`, proved together. The last says that a pass over a
  version that is no longer the cached one has a successor: without it the success of an old pass
  could be the last step anybody takes for the key. The four are the theorems `LoopTypeCorrect`,
  `QueueStaysConsistent`, `KeysNeverShared`, `NoEditForgotten`.
- **`WakeupsNeverLost`**: `Spec => []NoLostWakeup`. When a worker waits, at least as many others
  are at the test of `Get` as there are keys in the queue. Each `Append` to the queue comes with a
  `Signal`, which moves one worker from waiting to the test; a worker goes to wait only when the
  queue is empty, and a taken key is taken by a worker at the test. The proof counts: it needs
  that the set of workers is finite.
- **`QueueRefines`**: `Spec => QueueImplemented`, where `QueueImplemented` is `KeyQueue`'s `Spec`
  with `pending <- dirty`, `held <- processing`, `closed <- shuttingDown`, and `later` the keys in
  `waiting` or in `channel` (none after a shutdown, which drops them). Each step of the loop is a
  step of `KeyQueue` or a stutter, from `LoopInv`.

Indexer (`IndexerProofs`): **`IndexAgrees`**: `IndexerSpec => []IndexConsistent`, for every index
function, of the store under any writes.

Listings (`CachedListerProofs`):

- `ListerInv` has the types and three parts. `InformerInv`: the index agrees with the store, the
  delta queue has each key once and exactly the keys that have deltas, nothing has happened before
  the first list, and that list was no later than what has been seen. `LogInv`: an object carries
  the version of its write, and `Apply` has a write left. `ProgramInv`: the programs get to their
  listings only with a started cache and, in `process-indexing`, the field index. With it
  **`ListerTypeCorrect`** (`TypeOK`), **`ListerIndexAgrees`** (`IndexConsistent`) and
  **`ListerFailsOnlyFromOutside`** (`FailsOnlyFromOutside`).
- **`ListingsNeverGoBack`**: `Spec => ListingsMonotone`. What matters about a key is its `Line`: the
  stored object, then the deltas being handled, then the queued ones. `MonotoneInv` says that all in
  a line has been seen by the reflector, and that each element comes `After` those before it and
  after what has been shown: it is not older or, where it says that the object is gone, the key has
  been written since. A list or a watch event adds to the end of the line something not older than
  `lastRV`, `Pop` moves the boundary between its parts, handling a delta drops the first element, a
  listing shows it. A list older than the last version seen would break it, and so would handling
  deltas in another order.
- **`FirstListShown`**: `Spec => FirstListComplete`, from `FirstInv`: an object of the first list
  that nobody has written since is the only thing on its way, and is stored, or being handled, or
  queued among the first `initial` keys. When `HasSynced` is true there are none of these left and no
  `Pop` is under way, so it is stored.
- The lemmas they rest on are about the operators: `LastWrite` (what `ObjectAt` returns, by the
  well-foundedness of the naturals), `OrderCovers` (an order of a finite set has each element once),
  `QueueLonger`, `QueueShorter` and `DeltaAdded` (what a queue of distinct keys with their deltas
  becomes), `OrderedLog`, `OrderedTail`, `OrderedShown`, `OrderedNewest` (what keeps a line in order).

Login plugin (`OidcLoginProofs`): **`LoginTypeCorrect`**; **`ShutdownLeavesNobodyWaiting`**: `Spec =>
[]NobodyLeftWaiting`, from `EndsUnconnected` (when the program has ended every connection is closed,
and no new one can come) and `WaitersServed` (a tab waits on an open connection only);
**`AnswersTellTheTruth`**: `Spec => []ToldTruth`, from `LoginInv`, which
adds that a tab waits on one request at most, that requests and tabs agree on who waits, which kinds
of request go with which flow, and that an answer is true when it is given; **`CodeFlowGivesVerdict`**:
`Spec => []CodeFlowEndsWithVerdict`, from `VerdictBeforeIdle`: in the code flow a connection goes idle
only after its answer, which is a verdict unless the request was for something else than the callback,
and a browser asks for such a thing (the site's icon) only from a tab that shows an answer. So a tab
shows a verdict, or has been left, before any connection is idle or the shutdown begins.

The inductive invariants were first checked with TLC on the instances of the runs.

Every safety property that a passing run checks, invariant or action property, is stated by a
theorem. Out of the prover's reach are liveness under fairness and `ENABLED`, and what needs
induction over data. So `SteadyOrgsConverge`, `GlobalUsersBound`, `EveryEditReconciled`,
`ShutdownTerminates`, `Finishes` and `LoginEnds` are checked by TLC only.

## 6. What the properties say, and do not

- `OrgIsolation` holds when `NsName` is unambiguous on the names of the orgs and spaces, which is
  the assumption of `OrgsIsolated` and true of the instance of `orgs`.
- `OtherLevelSurvives` excepts the grants whose binding has the name of one that a GlobalUser has
  declared (`GloballyNamed`): `Delete` goes by that name, so that revoking the global user removes
  whichever of the two is there. In the instance of `globals` no grant is made at both levels.
- `SuccessBindsLastSpace` is what a pass without an error guarantees, with the same exception, since
  the other worker can delete such a binding before the pass ends. What a reader would expect is
  `SuccessAppliesEverySpace`, which fails.
- `SteadyOrgsConverge` is about the orgs for which the code keeps the promise of `OrgsConverge`. An
  org is *steady* when no two of its versions give a space they share different users, none lists a
  binding twice, and, if it was ever deleted, none has two reachable spaces. Of the others:
  - A space to which a user or role has been added stays without it: the pass ends at the first
    binding that exists (`org.go:199`).
  - An org with two spaces that is created again while the first one's namespace is terminating
    loses the error of that space when the second succeeds (`org.go:80`), and is not tried again.

  Nor is it about faults, crashes and GlobalUsers (`Undisturbed`), after which a pass can be stuck in
  the first way.
- `DeletionsRemembered` is about a process that has not crashed. It says that a namespace of a
  deleted org will be visited, and not that the visit succeeds, for which see `undeleted_org`.
- `GlobalUsersBound` is about global users whose role list does not change.
- `StaleIsScheduled` and `EveryEditReconciled` are about what the cache holds and what `Reconcile`
  has read; they say nothing of an edit the server never delivers.
- `ListingsMonotone` and `FirstListComplete` promise no freshness: the listing after `caching` has
  applied its app may not show it. What they exclude is a listing from before the first list was
  handled, one older than an earlier one, and one that misses an indexed object.
- `ToldTruth`: in the implicit flow "success" means only that what the page's script sent was
  stored; that this was a token nobody checks.
- `CodeFlowEndsWithVerdict` is the promise of the plugin's README for the code flow, where it holds;
  for the implicit flow it is `login_lost`'s finding.
- `NobodyLeftWaiting` is about tabs. A handler can be cut short by the end of the program (section 7),
  but then its tab has seen its connection closed, or has been left.
- `LoginEnds` starts from an idle connection. A browser that closes its connection with the answer,
  or never comes back, leaves the program running.

## 7. Findings

Each is a counterexample TLC finds (`PROJECT.json` quotes the line that says otherwise).

1. `swallowed_error`: `Reconcile` overwrites the error of a space by that of the next one, so that
   a pass which failed in its first space reports success and is not retried (`org.go:80`).
2. `first_deployment`: a `GlobalUser` and an `Org` applied together can race for the same binding;
   the Org worker gets AlreadyExists, now and in each retry, and never binds the space's own users
   (`org.go:112`, `org.go:199`). A pass cut short between two bindings ends in the same way, and so
   does every pass over a space to which a user or role was added behind one that is bound.
3. `undeleted_org`: the namespaces of a deleted org stay, since `reconcileDeletedOrg` deletes them
   by `DeleteAllOf` (`org.go:130`), which API servers do not serve for namespaces; the vendored API
   types say so (`k8s.io/api/core/v1/types.go:5140`, `skipVerbs=deleteCollection`).
4. `stale_revocation`: the Org worker binds a global user from a list read before the user was
   deleted and revoked (`org.go:62`); nothing revokes it again.
5. `login_lost`: in the implicit flow the connection that served the page goes idle and ends the
   server before the page's script has sent the token (`oidc-login-plugin/main.go:117`).

Known behaviours no run shows:

- A user taken out of an org's spec keeps its binding (`org.go:120`): the reconciler has no step
  that unbinds one.
- An org deleted while the controller is down, or whose key is lost in a crash, is never cleaned up
  (`org.go:48`): `DeletionsRemembered` fails without its premise that nothing has crashed.
- An org with two spaces that is deleted and created again can be left without the grants of its
  first space, whose error is overwritten (`org.go:80`): `OrgsConverge` fails for it.
- A handler whose request was read just before `Shutdown` closed its connection as idle is cut short
  when `Run` returns (`oidc-login-plugin/main.go:128-131`), perhaps between the two halves of
  `WriteConfig`.
- Org `a` with space `b-s` and org `a-b` with space `s` share the namespace `a-b-s` and the grants
  in it (`org.go:106`): `OrgIsolation` fails without `UnambiguousNames`.
- An object that vanishes while it is queued and the watch has expired stays in the cache: `Replace`
  of the vendored `delta_fifo.go` looks for vanished objects in the store only.
- A refused implicit login sends `undefined`, which the plugin stores as the token `bearer
  undefined` and calls a success (`oidc-login-plugin/main.go:187`, `static/index.html:20`).

## 8. Not modelled

- Leader election (the deployment asks for one replica), metrics and health endpoints, webhooks.
- The lengths of delays and timeouts: a waiting key may be taken at any time, which includes every
  delay.
- Conversion of resources to and from JSON, label validation, length limits of names.
- Writes of other programs to the clusters of the org controller; the field index over bindings with
  several subjects (the bindings the controller makes have one).
- The generated `DeepCopy` code, clients and informers under `org-controller/pkg/generated`:
  derived from the API types; `main.go` uses only their registration of the types.
- `caching`'s `populateCluster`, which `main` does not call, and its heap profile; the metadata of
  the login plugin and its help texts.
- `opa`, `opa-gatekeeper`, `hns`, `cf-roles-model`: see the plan and the components in
  `PROJECT.json`. Scripts, `java-client` and static configuration: straight-line steps.
