# A verification of mcp_operator

TLA+ modules, TLC configurations and TLAPS proofs kept beside the operator's
Go code.  This file says what the system is, which module models which part,
what the runs check, what is proved, and what is left out.

All paths below are relative to the repository (`src/` in `PROJECT.json`).

## 1. The system

The operator is one process, the manager (`cmd/manager/main.go`), that runs two
reconcilers over the Kubernetes API.  A second main function, the root `main.go`,
runs the MCPServer reconciler with a simpler builder and, besides, the periodic
auto-update.

| Part | Where | State it keeps | Operations |
|---|---|---|---|
| MCPServer reconciler | `controllers/mcpserver_controller.go` | none of its own: the MCPServer object (finalizer, spec, annotations, status) and the work queue and caches of controller-runtime | `Reconcile`, `handleDeletion`, `findMCPServersForConfigMap`, `applyRenderedResources` |
| Registry service | `pkg/services/registry_service.go` | none | `EnrichMCPServerFromCache` reads a ConfigMap and fills in the MCPServer |
| Validation service | `pkg/services/validation_service.go` | none | `ValidateMCPServer`, tenant quotas |
| Status service | `pkg/services/status_service.go` | none | `SetCondition` (in memory), `UpdateMCPServerStatus` (a PUT of the status) |
| MCPRegistry reconciler | `controllers/mcpregistry_controller.go` | the MCPRegistry's status | lists a GitHub repository and writes one ConfigMap per server |
| Registry cache | `pkg/registry/cache/cache_manager.go` | the ConfigMaps `mcpregistry-<registry>-<server>` | `CacheServer`, `CacheIndex`, `CleanupRegistry` |
| Registry client | `pkg/registry/client.go`, `pkg/registry/github` | none | GitHub requests through the retrier |
| Renderer, deployment service | `pkg/render`, `pkg/services/deployment_service.go`, `pkg/services/resource_builder_service*.go` | the children of an MCPServer | render, server-side apply, delete |
| Retry helpers | `pkg/retry`, `pkg/services/retry_service.go` | none | back-off, classification of errors |
| Circuit breaker | `pkg/circuitbreaker` | state, failures, requests, time of the last failure | `Call`, `Reset`; imported by no other package |
| Cache service | `pkg/services/cache_service.go` | TTL maps under a mutex | get, set, invalidate; the reconcilers only invalidate, nobody reads |
| Auto-update | `controllers/auto_update_controller.go`, `pkg/services/auto_update_service.go` | a ticker goroutine, per-server errors | started by the root `main.go` only |
| Backup reconciler | `controllers/mcpserverbackup_controller.go` | the MCPServerBackup: finalizer and status, which holds the data | one-time and scheduled backups, retention, clean-up; registered by neither main |
| Webhooks | `pkg/webhook`, `api/v1/mcpserver_webhook.go` | none | defaulting and validation, off by default |
| Command line | `cmd/mcp`, `cmd/sync.go`, `pkg/sync` | none | what users do |

How they interact: the MCPRegistry reconciler writes ConfigMaps; their watch
events make `findMCPServersForConfigMap` enqueue MCPServers; the MCPServer
reconciler reads the ConfigMap from its cache and patches the MCPServer, whose
own watch event enqueues it again.  What the validation lets through is rendered,
recorded in a ConfigMap and applied object by object; the webhooks, where they are
installed, see every write of users and of the operator itself.  Users, the garbage collector and the API
server act in between.

What is hard about it: every read comes from an informer cache that may be
arbitrarily old; writes are optimistic (PUT with resource version), or merge
patches without one; every API call may fail, may succeed and lose its answer,
and the process may restart between any two; many return paths drop the key and
count on a later event.  The auto-update has goroutines that share fields without
any synchronisation, requests that are retried for hours, and nobody who recovers a
panic.

## 2. Modules

| Module | What it is |
|---|---|
| `MCPServerController` | the MCPServer reconciler up to validation, its work queue, its informers, the API server, users |
| `MCMCPServerController` | the instance for TLC |
| `MCPServerControllerProofs` | the TLAPS proofs about `MCPServerController` |
| `MCPRegistryController` | the MCPRegistry reconciler with the registry cache and the GitHub synchronisation, for one registry name |
| `MCMCPRegistryController` | the instances for TLC |
| `MCPRegistryControllerProofs` | the TLAPS proofs about `MCPRegistryController` |
| `MCPServerBackupController` | the MCPServerBackup reconciler: the backups of one MCPServer, their schedules, retention and clean-up |
| `MCMCPServerBackupController` | the instances for TLC |
| `MCPServerBackupControllerProofs` | the TLAPS proofs about `MCPServerBackupController` |
| `MCPServerSpecs` | the spec of an MCPServer, both defaulters, the validating webhook, the validation service, the tenant quotas |
| `ResourceBuilder` | what the default builder makes of a spec: Deployment, Service, autoscalers, policy, route |
| `SimpleResourceBuilder` | what the builder of the root `main.go` makes of it |
| `MCPServerResources` | one server on its way from the user's text to the rendered objects, next to a neighbour |
| `MCPServerRollout` | the second half of the reconcile: record, apply, status, deletion; extends `MCPServerResources` |
| `MCMCPServerResources`, `MCMCPServerRollout` | the instances for TLC: families of servers |
| `MCPServerResourcesProofs` | the lemmas about checks, labels, names, ports and builders that the rollout's theorems rest on |
| `MCPServerRolloutProofs` | the TLAPS proofs about `MCPServerRollout` |
| `Breaker` | the abstract contract of a circuit breaker |
| `CircuitBreaker` | the breaker of `pkg/circuitbreaker`, shown to implement `Breaker` |
| `MCCircuitBreaker` | the instance for TLC |
| `CircuitBreakerProofs` | the TLAPS proofs about `CircuitBreaker` |
| `GitHubRetry` | how an error of a GitHub request is classified and whether it is retried |
| `AutoUpdate` | the periodic update of servers from their templates; extends `GitHubRetry` |
| `MCAutoUpdate` | the instance for TLC |
| `AutoUpdateProofs` | the TLAPS proofs about `AutoUpdate` |

The modules also hold, under the comment "Mutant of", plausible mistakes in the
definition they precede.  They are no part of any specification: `PROJECT.json`
says which property each of them breaks, which is how we know that the property
can fail at all.

### 2.1 MCPServerController

*State.* `obj` is what the API server stores for each MCPServer, `seen` the
informer's copy, `held` the copy a running reconcile works on.  `fresh` and
`heldFresh` say whether those copies have the current resource version: the
code and the API server only ever compare resource versions for equality, so
one bit is all there is to know.  `cm`, `cmSeen`, `cmFresh` are the same for the
registry's ConfigMaps.  `queue` is the work queue, `pc` the stage a reconcile has
reached: controller-runtime never runs two reconciles of one key at a time, so
one stage per key is enough although there are five workers.

*Actions.* `Begin` is a reconcile up to its first API call; then there is one
action per API call, named for what the code does there: `Normalise`,
`AddFinalizer`, `RemoveFinalizer` (`handleDeletion`), `CacheMissing`, `Enrich`,
`Validate`.  `Panic` is the dereference of a missing `spec.runtime` in a log
statement; controller-runtime recovers the panic and requeues.  `ApiError` and
`ReplyLost` are calls that fail, before or after they took effect; `Restart`
loses the queue and all running reconciles.  `Deliver` and `DeliverConfigMap` are
watch events: an informer may skip versions but never goes back, so it jumps to
the latest.  `Tick` is the clock: `status.lastUpdateTime` has a resolution of a
second, so a status update that changes nothing else is a no-op within the same
second and a new version otherwise.

*Abstractions.*

- One value, `image`, stands for all the fields the enrichment fills in where
  they are empty (runtime type, image, command, arguments, transport, ports),
  `digest` for the annotation it overwrites.  `Bare` is an object that has no
  `spec.runtime` at all.
- A ConfigMap that cannot be parsed is one that is missing (`None`): the code
  treats both as an error of `EnrichMCPServerFromCache`.
- Each server looks up the entry of its own name.  Changing `spec.registry.serverName`
  moves a server to another entry just as changing the registry does.
- Only what decides control is kept of the validation: a server gets there
  without a registry name, so `validateRegistryInfo` refuses it.
- The read of the ConfigMap is part of the action of the write that follows it;
  nothing else happens in between but the read of a cache.
- Decoding an answer into the object that was sent keeps the fields the answer
  leaves out (`Decoded`).  That is how the Go client works, and it matters: after
  `Normalise` patched an object that was created anew, the reconcile goes on with
  the deletion timestamp of the old one.
- The delays of the rate-limited queue are not modelled: a requeued key may run
  at any time.
- The cache service is not modelled here, since nothing in the reconciler reads it;
  the Istio controller is nil in both binaries.
- What comes after the validation is `MCPServerRollout`.
- One server in the TLC runs: a reconcile reads and writes its own object and its
  own cache entries only.  The theorems are for any set of servers.

*Fairness* (`FairSpec`): weak fairness of a key's reconcile (a worker takes every
key and every call returns), of the watch deliveries, and of the garbage
collector's completion of a foreground deletion.  Users, the registry controller,
faults, lost answers and restarts have none: they are bounded by `MaxEdits`,
`MaxSyncs`, `MaxFaults` and `MaxRestarts` and may happen at any time.

*Bounds.*  Four user operations are what it takes to create, edit, delete and
create an object anew, which is the longest history a stale copy can be confused
by; two syncs make an entry appear and change (or disappear); one fault and one
restart can hit any step.  A system in which all bounds are used up and nothing
is left to be done really stops, which is why the runs do not check deadlock;
`NoLostWakeup` says what must be true when it does.

### 2.2 MCPRegistryController

*State.* `reg` is the MCPRegistry as the API server stores it, `seen` and `held`
the informer's and the reconcile's copies, with `fresh` and `heldFresh` as above.
The object is there in incarnations: `uid` tells them apart, 0 is absence.  `cm`
are the ConfigMaps the registry owns, each with the uid of its owner; `repo` is
what GitHub has; `found`, `todo` and `errs` are the local variables of a
synchronisation: the specs read, the directories still to be read or cached, and
whether `syncErrors` is not empty.  `queued` is the work queue, `timer` a pending
`RequeueAfter`, `pc` the stage of the reconcile.

*Actions.* `Begin` fetches the object and decides between deletion (`Cleanup`), a
refused configuration (`Report`) and a synchronisation: `Announce` (phase
Syncing), `Authenticate`, `ListServers`, one `FetchSpec` and one `CacheServer` per
directory, `CacheIndex`, `Finish`.  The three stages that write the status are
`updateStatusWithRetry`: `SaveStatus` is an attempt that succeeds, `RetryStatus` a
conflict, after which the status is copied to whatever the cache has by then, and
`GivesUp` its end.  `Fault` is a call that fails by itself at any of these steps,
with or without having taken effect.  `Collect` and `FinishForeground` are the
garbage collector, which deletes ConfigMaps whose owner, by uid, is gone or is
deleted in the foreground.

*Abstractions.*

- `spec.url`, `spec.source` and the parsing of them are one value, a `Source`;
  `Invalid` are those the reconciler refuses, `Private` those with a secret.
- A directory without `server.yaml` and a missing one are the same: the code skips
  both without an error.
- `revision` is a history of our own: the source that `status.observedRevision` and
  `status.servers` were read from.  The code keeps a hash, which names no source.
- The order in which directories are read and cached is any; the code's is that of
  the GitHub answer.
- `CleanupRegistry` deletes any subset of the ConfigMaps, since it lists them from a
  cache that may lag and only logs the deletions that fail.
- Events of owned ConfigMaps queue the registry at once, without a copy in between:
  the reconciler reads no ConfigMap.
- The requeue after an exhausted rate limit differs from the others in its delay
  only; the retries inside a GitHub request are part of the request.
- `updateStatusWithRetry` tries five times; the runs set `Attempts = 2`, the proofs
  hold for any number.
- One registry: reconciles of different registries share nothing unless their
  entries have the same ConfigMap name.

*Fairness*: weak fairness of the reconcile as a whole, of the informer, of the
timer and of the garbage collector.  None for users, pushes, faults, restarts.

*Bounds.*  Two directories are needed for one of them to fail while the other
succeeds; two sources, one of them refused and one private, for the status of one
spec to end up on the other; two user operations besides the creation, one fault
and one restart, at any step.  The liveness run has two incarnations instead,
since ownership by the uid of a former one is what threatens convergence, and a
push.  `Alike` exchanges the two directories together with their entries; no
definition tells them apart, and the run that uses it checks no liveness.

### 2.3 MCPServerBackupController

No main function registers this reconciler; the module says what it does once one
does.

*State.* `obj`, `seen`, `fresh`, `held` and `heldFresh` as above, for every backup;
`born` is the creation time, 0 for absence.  `SetupWithManager` sets no number of
workers, which makes it one: `cur` and `pc` are the reconcile it runs, `copied` the
spec of the MCPServer it has read, `doomed` what the retention has still to delete.
`server` and `serverSeen` are the MCPServer and the informer's copy, `remote` the
backups with metadata in the S3 bucket, `cloud` whether S3 answers.  `now` counts
the activations of the schedule: all the code asks of the time is whether one has
passed since `status.lastScheduleTime` (`Due`).

*Actions.* `Begin` takes a key and gets as far as its first API call: to the
finalizer (`Protect`), to the clean-up of a deleted backup (`performBackupCleanup`,
`Unstore`, `Unprotect`), to a status that ends the reconcile (`Report`), to a
one-time backup (`Running`, `Create`, `Report`) or a scheduled one (`Create`, one
`Retain` per deletion of the retention, `Processed`).  `Conflict` is any of these
writes refused by the API server; `Fault` a call that fails by itself, with or
without effect.  `Write` allows a status that is otherwise the same to be a new
version or not: it carries the time, in seconds.

*Abstractions.*

- GCS and Azure have placeholders that store nothing and clean up nothing; they are
  one type of storage, which is also how S3 without its settings behaves.  S3 has a
  placeholder for storing and a real clean-up: what is in the bucket was put there
  by others, so `remote` is arbitrary at the start.
- The files on disk, the multipart uploads and the indexes that the clean-up removes
  besides have no state; that they fail is a `Fault` before the finalizer goes.
- All backups of the model name the same MCPServer and follow the same schedule;
  `KeepLast` and `Aged` are the retention policy of all of them.  Which backups are
  too old is any set of the oldest (`Doomed`).
- `Within` says whose name contains whose: `matchesBackupMetadataPattern` looks for
  the name anywhere in a key.
- The resync of the informers every ten hours is modelled nowhere; nothing that is
  shown depends on it.

*Fairness*: strong fairness of `Begin(b)` for every backup, since the queue hands
out its keys in turn although others arrive all the time (status writes make events
that make status writes); weak fairness of the running reconcile, of the informers
and the timers.  None for users, the schedule, S3 and faults.

*Bounds.*  `backup` has one backup that may be created, edited, deleted and hit by
one fault: every decision of the reconcile reads one object only, and one edit at
any step is what makes a copy old or the clean-up miss its target.  `Aged` is set
there, so that a schedule may delete its own object.  `backup_retention` has what a
quarrel takes: two schedules that both enforce `keepLast = 1`, two activations, a
fault and a restart.  It sets `Ties = FALSE`: creation times have a resolution of a
second and the sort leaves those that are equal in any order, so with `Ties = TRUE`
(`backup_ties`) TLC shows two backups that were created together delete each other,
each on a list in which the other is still kept.

### 2.4 MCPServerSpecs, ResourceBuilder, SimpleResourceBuilder, MCPServerResources

These four take one server from what a user writes to what is rendered for it.
`MCPServerSpecs` holds the spec as a record and everything that looks at it before
it is rendered; the two builder modules are the functions from a spec to a list of
objects; `MCPServerResources` is the way through them.

*State.* `server` is the object, `hooks` whether the webhooks are installed, `simple`
which builder is wired in, `stage` how far the server has come and `built` the list
of objects.  A neighbour of the same namespace is rendered already.

*Actions.* `Mutate` (the defaulter), `Admit` (the validator), `Store`, `Validate`
(`ValidateMCPServer` and the tenant's quotas), `Render`.

*Abstractions.*

- A field is kept if another object, a pod or a check looks at it.  Texts are model
  values or short strings; quantities are numbers, and `Unparsable` stands for all
  that `resource.ParseQuantity` refuses.  `Trusted`, `Latest`, `Oversized`,
  `LongTenant` and `DNSLabel` are the verdicts of the checks that match patterns or
  count characters.
- A name with a suffix is a pair: what matters is when two names are equal that are
  built alike.  That the text of one is by chance the text of another is left out.
- `Text` is the set of the strings: TLC takes `STRING` for it, the provers need no more
  of it than that the texts the defaulters write are among them.
- `env` of the plain container drops what has a `valueFrom`, and projected volumes are
  ignored, as in the code.
- Rendering to YAML and back is left out; the hash over it is the same for the same
  objects.

The properties relate parts that were written apart: the Service to the pods
(`NoCrossTraffic`, `TrafficArrives`), the route to the Service (`TrafficArrives`),
the webhook's checks to the reconciler's (`AdmittedThenRefused`), and the two builders
to each other (`BuildersAgree`).  Where they do not fit, the property says exactly
when (`LeadsNowhere`, `lost`, `Unforeseen`, `Plain`): an equivalence, not an
exemption, so that a case more or a case less violates it.

### 2.5 MCPServerRollout

*State.* Beyond that of `MCPServerResources`: the MCPServer (`object`, `birth`), the
objects of the namespace with their controllers (`live`), whose manifests the
ConfigMap of manifests holds (`text`), the apply's loop (`at`, `tries`, `patched`),
the status of the pass and the stored one (`copy`, `stored`), and what the API server
takes (`takes`).

*Actions.* `Examine` begins a pass, `Record` and `RecordFails` write the ConfigMap of
manifests, `ApplyObject`, `ApplyRefused` and `ApplyFault` are the apply, one object at
a time, with `RetryDeploymentOperation` around it; `Observe` reads the Deployment and
stores the status; `HandleDeletion` is the deletion; `Reenter` is an event, `Restart` a
restart of the manager at any step, perhaps with webhooks it had not installed
before.  Users delete and create anew; the neighbour may leave; `Collect` is the
garbage collector.

*Abstractions.*

- The first half of the reconcile is `MCPServerController`, where nothing gets past
  validation (`NeverRenders`).  Here it lets through whatever the checks accept, so
  that the second half can be looked at: an over-approximation, on purpose.
- What an API server makes of an object is `takes`, a set of kinds.  A real one takes
  none as the code stands: the label `mcp.allbeone.io/hash` holds 64 characters of a
  hash, one more than a label may, and typed objects are applied without their kind.
- `DeploymentStatus` is every combination of counts up to `MaxPods`; the code reads
  them once per pass.
- The delays of the retries are left out, `Attempts` is 2 in the run (5 in the code):
  the second attempt meets everything that later ones do, since `patched` only grows.
- The watchdog for a rollout without progress only runs when an event brings the
  server back; it changes the reported condition, which `Observe` leaves open.
- A server called `mcp-tenant-<id>` would delete the policy of the tenant with its own
  resources, and names of 54 characters and more share a truncated ConfigMap of
  manifests: names are pairs, so neither happens in the model, nor in its proofs.

*Fairness* (`RolloutSpec`): weak fairness of the manager and of the garbage collector;
none for faults, restarts, users and events.

*Bounds.*  Up to three pods, one more than any desired number; two passes, one fault
and two births: a fault at any step, a second pass
after it, and a successor that meets what its predecessor left behind.  About 1200
servers go as far as rendering; the two of `FollowedServers` go through the rest, one
that shares the neighbour's tenant, and one with every optional kind whose image a
webhook would refuse.

### 2.6 Breaker and CircuitBreaker

`Breaker` is the promise without states and counters: calls run one at a time, and
after `MaxFailures` failures in a row none runs until the timeout has passed.
`CircuitBreaker` is the code: `state`, `failures`, `requests`, the mutex (`holder`), and
the stage of each goroutine (`pc`).  `Run` and `Reject` are `Call` up to the function,
`Succeed`, `Fail` and `Panic` its end; `waited` is `time.Since(lastFailureTime) >
Timeout`, which may become true at any time.  The refinement maps the callers that run
to `inside`, the capped failures to `streak`, and `waited` to `cooled`.  `lost` counts
panics, a history.

`Call` holds the mutex while the function runs, so no two of them overlap and the
half-open limit is never met by a second caller.  It is met after panics:
`afterRequest` is skipped, `requests` stays, and after `MaxRequests + 1` of them the
breaker refuses everything until `Reset`, which is what `StuckOnlyByPanics` says.

*Fairness*: the function ends (weak), and the mutex is handed to a goroutine that
waits (strong, as `sync.RWMutex` starves nobody).  *Bounds*: seven calls are enough to
open the breaker, get it half-open, have two panics there and be refused after a
`Reset`.  `OnStateChange` runs under the mutex too; it is not modelled, and one that
asks the breaker for its state waits for itself.

### 2.7 GitHubRetry and AutoUpdate

*State.* `server` are the MCPServers, `latest` the template the registry has for each;
`loop` the goroutines by the number of the `Start` that made them, each with the copies
of its list (`todo`), which of them are still current (`fresh`), the request it is at
(`round`, `attempt`, `heard`), the template it found, the channel it listens on
(`watched`) and its ticker; `running` and `chan` are the unsynchronised fields, `failures`
and `rest` the tracker.  `up` is the process.

*Actions.* The steps of a check: enter, wait, list, skip (`isInBackoffPeriod`), the two
requests for the template, `Write`, `Conflict`, `WriteFails`, `Record`; `Race` is two
goroutines that write the tracker's map at the same time, which the Go runtime ends
the process for; `Start`, `Stop`, `Boot` and `Shutdown`; `Elapse` is time.  Requests fail
in every class of `ClassifyGitHubError`, and are retried as `AsksAgain` says.

*Abstractions.*

- `rest` of a runtime stands for type, command and arguments, a template for version,
  image, `rest` and environment; a digest is the number of the template.
- The width of `failureCount`'s shift is kept (`Bits`, 64 in the code, 4 in the run):
  the back-off overflows to zero or below at the last one.  At the interval of 24 hours
  it only ever skips a check from the twelfth failure on.
- Nobody annotates a server with the digest of a template that was not released yet
  (`Known`): only the enrichment and the update write digests, and both read the registry.
- The names `Telling` have a word of `isNetworkError` in them.
- The monitoring goroutine of the controller only logs.
- A template that carries a `template_digest` of its own would be written again by
  every check, against the enrichment; it is not among the instances.
- Tracker entries of deleted servers stay, as in the code.

*Fairness* (`FairSpec`): goroutines are scheduled, time passes, a process that ended is
started again by the kubelet.  Nothing is assumed of requests: that a bounded number of
them fails (`MaxChanges`) is what lets an update arrive.

*Bounds.*  Two servers, so that one can end the process before the other is reached;
three templates, one that differs in the environment only and one a webhook refuses;
two `Start`s for two goroutines; two changes (an edit, a release, a fault, a stop, a
restart) anywhere.

## 3. Runs

| Run | Shows |
|---|---|
| `server_safety` | `NoLostWakeup`: although many paths drop the key, when nothing is left to do no server is left behind; `RefusalReported`: the refusal is in the stored status although conflicting status writes are only logged; `NeverRenders`: no reconcile gets past validation, with a registry or without; `GuardedWork` and `FinalizerProtocol` against arbitrarily stale copies; types.  The deprecated field `spec.registry.registry` is not in use here |
| `server_liveness` | `DeletionCompletes`, `EnrichmentConverges` under `FairSpec`, with the deprecated field in use |
| `registry_safety` | `SyncedFitsSpec`: a status that says Synced for the current generation was read from the current source, although the spec may change at any step and the status is carried over to the new version; `ReadyIsCached`: every server of a Ready status without errors has its ConfigMap, though calls fail half-way and the manager restarts; `NeverForgotten`: however a reconcile ends, something brings the registry back; types |
| `registry_liveness` | `CacheConverges`: the cache ends up as the repository is, owned by the present incarnation, although a reconcile of the former one may still write; `DeletionCleans`, `ForegroundCompletes` |
| `backup` | `CompletedHasData`: a status that says Completed, or that a schedule was served, comes with the data, though computed from an old copy; `CleanedBeforeGone`: a backup in S3 goes only after its metadata has gone, also if its storage is edited between clean-up and finalizer; `OneTimeBackupMade`, `ScheduleServed`, `DeletionCompletes` under `FairSpec`; types |
| `backup_retention` | `RetentionKeeps`: while users delete nothing, at least `keepLast` backups with data stay, although the lists are old and several backups delete |
| `rollout` | over all servers: `NoCrossTraffic`: a Service selects the pods of its own server only; `TrafficArrives`: which combinations of gateway, transport, runtime and ports lead nowhere, exactly; `AdmittedThenRefused`: what the webhooks let pass and the reconciler refuses, exactly; `BuildersAgree`.  Over the followed servers: `AppliedMeansLive`: a status that says Applied stays true; `RecordKept`; `ReadyIsCurrent`: no combination of counts makes an unfinished rollout ready, but one; `RetrySurvivesFirstFault`; `DeletionLeavesNothing`, under `RolloutSpec`; types |
| `breaker` | `KeepsContract`: the breaker implements `Breaker`; `StuckOnlyByPanics`; `EveryCallReturns` under `FairSpec`; types |
| `autoupdate` | `FinalAnswers`: what is asked again, after which answer; `NoDowngrade`: no template is overwritten by an older one, though two goroutines may hold copies and templates read at different times; `UpdatesArrive` under `FairSpec`: every template arrives, but for three named cases (refused by a webhook, overlooked without a digest, and a server without `spec.runtime` that ends the process at every check); types, with the back-off's cap |
| `server_user_values`, `tenants`, `backup_ties` | disagreements between the code and what the repository says of it; see `findings` in `PROJECT.json` |

Why `server_safety` excludes the deprecated field: `Normalise` sends a merge patch
without a resource version.  If the object was deleted and created anew since the
informer's copy, the patch lands on the new object, the answer is decoded over the
old copy with its deletion timestamp, and `handleDeletion` runs for an object
nobody deleted.  With `AliasValues = {r1}` TLC shows `GuardedWork` and `FinalizerProtocol` violated; the
other invariants of the run are proved with the field as well.

## 4. Proofs

`MCPServerControllerProofs` proves, for any servers, registries, templates and
bounds that satisfy `ConstantsAssumption`:

- `TypeCorrect`: `Spec => []TypeOK`.
- `BookkeepingHolds`, `NeverRendersHolds`: the stage of a reconcile fits the copy
  it holds, so that none gets past validation.
- `GuardedWorkHolds`, `FinalizerProtocolHolds`: if the deprecated field is not in
  use, work is done on protected objects only and the finalizer goes only from the
  version whose deletion was requested;
- `NoLostWakeupHolds`, `RefusalReportedHolds`.

`TypeOK` is inductive.  `GuardedWork` is not: a reconcile that holds a protected
copy goes straight to the enrichment, so one must know that a protected copy that
is not being deleted means a protected object, however old the copy is.  That is
what `GuardInvariant` adds: what the informer says of the finalizer is never more
than what is stored, and a copy that is being deleted means that no reconcile has
protected a successor yet.  `TypeOK /\ Bookkeeping /\ GuardInvariant` is inductive;
`GuardedStep` has one step per action.

`NoLostWakeup` and `RefusalReported` speak of the moments when nothing is left to do, so
they say nothing of how one gets there.  `WakeInvariant` does: unless the key is in the
queue or an event will bring it back, a running reconcile holds the very object that is
stored, and so refuses that one (its status write does not conflict either); and no object
is left without a key but a settled one, whose registry's entry is missing or about to
wake it.  The step that matters is the answer to a write: it is decoded over the old copy
and may differ from the stored object, but the write made a new version, whose event is
still to come (`HoldingAttended`).  `AttendedStep` has one step per action.  The liveness
properties are model-checked only.

`MCPRegistryControllerProofs` proves, for any directories, repositories and
bounds that satisfy `ConstantsAssumption`:

- `TypeCorrect` and `NeverForgottenHolds`, from `Inv`: `TypeOK` and `Bookkeeping`,
  which says that the reconcile that handles a deletion either sees the deletion
  still there or has an event coming.
- `SyncedFitsSpecHolds`, from `Provenance`: every copy, and every status a copy
  carries, is of an earlier or the present version of the one object there is
  (`Follows`).  It assumes `MaxCreates = 1`.
- `ReadyIsCachedHolds`, from `CachedSoFar`: between two steps of a synchronisation
  the directories it has dealt with are cached unless `errs` says otherwise, and
  every copy's status is backed by the ConfigMaps.  It assumes `MaxCreates = 1` and
  `OwnEntries`: directories have entries of their own, other than the index.

The assumptions are not for convenience.  With two incarnations the status of one
is carried over to the other, and both properties fail (set `MaxCreates = 2` in
`MCPRegistrySafety.cfg` and TLC shows it for the first).  When two directories have
the same sanitised name, or one is called `index`, one ConfigMap replaces the other
and the second fails.

`CircuitBreakerProofs` proves, for any callers, configuration (zeroes, which stand
for the defaults, included) and bounds that satisfy `ConstantsAssumption`:

- `TypeCorrect` and `StuckOnlyByPanicsHolds`;
- `Implements`: `Spec => Contract!Spec`, so that the breaker keeps the promise of
  `Breaker`.

`StuckOnlyByPanics` is not inductive: it says nothing of the states in which the mutex
is held.  `Inv` adds that `holder` is the one goroutine whose function runs
(`MutexHeld`); that the state tells whether the failures have reached the limit, is
half-open only after the timeout, and is never open while a function runs
(`StateFits`); and that in the half-open state all calls that ran have panicked but for
the one that runs (`PanicsCounted`).  The refinement goes step by step: `Run` is
`Enter`, allowed because of `StateFits`; `Fail`, `Succeed` and `Panic` are the three ends
of a call, `Reset` is `Forgive`, `Elapse` is `Cool`, and the rest stutters.
`EveryCallReturns` is liveness and stays with TLC.

`AutoUpdateProofs` proves, for any servers, templates, limits and bounds that satisfy
`UpdateAssumption`:

- `TypeCorrect`: in particular, no back-off is longer than the cap, for any width of the
  shift, and no goroutine writes a server without a runtime;
- `FinalAnswersHolds`;
- `NoDowngradeHolds`.

`NoDowngrade` is about a single step, but whether `Write` may take it depends on when its
copy and its template were read.  `Inv` says what is left of that order: a fresh copy is
the object that is stored; no object and no copy carries the digest of a template newer
than the registry's latest; and a template that was found is no older than the copy it is
to be merged into.  So a write, which needs a fresh copy, never goes back.  That the
attempts of a request are not carried over to the next one is what `FinalAnswers` needs.
One fact of arithmetic the provers do not know is assumed (`PowersAssumption`: powers of
two are natural numbers) and evaluated by TLC.

`MCPServerBackupControllerProofs` proves, for any backups, specs, retention and bounds
that satisfy `ConstantsAssumption`:

- `TypeCorrect`;
- `CompletedHasDataHolds`, from `Inv`: every copy that is or may be written has the data
  it claims (`Backed`), but for that of a schedule between the time it is served and the
  backup; and a copy that is still current has the data of the object it replaces;
- `CleanedBeforeGoneHolds`, from the same: a protected backup goes by the removal of its
  finalizer only (`GoesUnprotected`), and that from the version that was cleaned up;
- `RetentionKeepsHolds`, if no two backups are created within one second (`~Ties`,
  without which it is false, see `backup_ties`).

`RetentionKeeps` is far from inductive: a backup is deleted because of a list, and the
list may name backups that were deleted long ago, or whose name is another backup's by
now.  `Retained` says why that does no harm.  Whoever is being deleted, or about to be,
or is listed although it was deleted, has `keepLast` live backups with data that were
created after it.  So if a list keeps a backup that is gone, those after it are there;
and deleting one leaves enough after any time, because it had enough after itself
(`EnoughAfterDelete`).  `Numbered` says that creation times tell backups apart, also
those that had a name before.

`MCPServerRolloutProofs`, with the lemmas of `MCPServerResourcesProofs`, proves for any
servers, neighbour, labels, selectors, verdicts of the API server and bounds that
satisfy `SpecsAssumption`, `ResourcesAssumption` and `RolloutAssumption`:

- `TypeCorrect`, `AppliedMeansLiveHolds`, `RecordKeptHolds`, `ReadyIsCurrentHolds`;
- `NoCrossTrafficHolds`: in both builders the pods' labels are the operator's own before
  they are the user's, so pods of two servers differ in the label of their instance; a
  selector that overrides it selects no pods of its own Deployment either
  (`TrafficParted`);
- `AdmittedThenRefusedHolds`, from `RefusalsUnforeseen`: the list of what the webhooks
  overlook is complete for every spec there is, in both directions;
- `TrafficArrivesHolds`: so is the list of ports that lead nowhere;
- `BuildersAgreeHolds`: a plain server has the same objects of both builders;
- `RetrySurvivesFirstFaultHolds`, if there is at most one fault and more than one attempt.

`AppliedMeansLive` is not inductive.  `Invariant` adds what the loop has done so far:
the objects before the one it is at are there and the server's own (`Applied`).  They stay
so (`OwnedKept`): an apply by another server is refused, the garbage collector takes
nothing whose owner is there, and a neighbour that is deleted deletes by name.  What it
deletes has names of its own, and the policy `mcp-tenant-<id>`, which two servers of a
tenant share, is not among it (`ForeignKeys`).  That is only so if the tenant has an ID
(without one the policy's name ends with a hyphen, and as a pair it is that of a server
`mcp-tenant`), and it has one because the validation insists: hence the invariant also says that whatever
got past validation is valid (`Judged`), and that `Applied=True` means it did
(`Reported`).  `RecordKept` needs besides that the ConfigMap of a
server that is there is not collected (`TextKept`); `inherited` is set exactly when that
cannot be had.

`TrafficArrives` and `BuildersAgree` hold of whatever the renderer makes of a valid
server.  Both proofs first say what is in the rendered sequence: which Deployment, Service
and VirtualService (`DefaultKinds`), or, object by object, the same of either builder
(`PlainBuilt`).  The ports are then a matter of cases (`PortsMet`, `RouteServedBy`), and
these need the limits of ports: that of the runtime is checked by the validation unless the
transport is stdio, the others have a minimum and a maximum in the schema
(`api/v1/mcpserver_types.go:829`, 834 and 868).  With negative ports the theorem would be
false.  `BuildersAgree` needs of validity only that there is a runtime.

`RetrySurvivesFirstFault` is proved for at most one fault and more than one attempt, and
needs two invariants more.  As long as no call failed, no predecessor's Deployment is in
the way, as every deletion has run to its end (`Unobstructed`); and an apply that has
started over without applying anything has met the fault or a first object, the
Deployment, that the API server does not take (`Tried`).

Of the rollout, `DeletionLeavesNothing` stays with TLC: it is liveness.

## 5. Plan

1. `MCPServerController`, `MCPRegistryController` and `CircuitBreaker` with their
   theorems (done), `AutoUpdate` and the backups with theirs (done), the rollout with its
   (done).
2. `RegistryToServer`: both reconcilers over the ConfigMaps they share, with the name under
   which one writes and the other reads an entry.

## 6. Disagreements without a run

Met while modelling; each is in the model as the code has it.

MCPServer reconciler:

- An enrichment that succeeds always returns `Requeue: true` (`mcpserver_controller.go:252`)
  and without a registry the validation fails: no server is ever deployed by the wired
  binary, though `README.md:492` says it is (`NeverRenders` holds).
- An MCPServer that gives its registry reference only (`README.md:465`) has no
  `spec.runtime`, and line 152 panics in every reconcile, also while it is being deleted.
- The condition `RegistryFetched=True` of `README.md:491` is set in memory only (line 226).
- Phase `Terminating` is never stored; a first rollout is `Running` with no pod ready
  (`mcpserver_types.go:1082`: the server is started and works).
- The Service publishes the target port instead of the port; a gateway without a port has
  8080 in the Service and 8000 in the container; HPA and VPA are rendered although
  `enabled` is false.

MCPRegistry reconciler:

- Each synchronisation writes objects that are watched without predicates (lines 162, 281,
  394) and so starts the next one at once: `refreshInterval` is never waited for.
- After a conflict the status is copied to whatever has the name by then (line 380), for
  one created anew with its own generation.
- A completed one-time backup turns Failed when it is reconciled after its MCPServer is
  gone; S3 metadata is matched by a part of the name (`mcpserverbackup_controller.go:138`,
  `:932`).

Auto-update:

- `registryName` is ignored: templates always come from the built-in registry.
- The comment "this catches any template changes" (`auto_update_service.go:280`)
  holds only for servers with a digest annotation.
- The condition `RegistryFetched` is set after the update and never stored.
- Nobody in the repository calls `Stop`.

## 7. Not modelled

- *Cache service*: nothing reads it, see section 1.
- *Istio controller*: nil in both binaries, so `mcpserver_controller.go:417-428` and
  `929-967` do not run.
- *Command line, file syncer*: one call after the other on files and terminals; what
  they do to the cluster are the users' actions.
- *Metrics, events, version*: no decision reads them.
- *`pkg/retry/retry.go`*: its retriers are used nowhere.
- *Generated code* (`zz_generated.deepcopy.go`).
- Liveness and everything about more than the instances of section 3 is out of what
  TLC can show; liveness under fairness is out of what TLAPS can prove, so `EnrichmentConverges`,
  `CacheConverges`, `UpdatesArrive` and their like stay model-checked.
