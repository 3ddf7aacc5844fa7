# jws-operator in TLA+

A model of the JBoss Web Server operator: what it does to a cluster for its
`WebServer`s, how its admission webhook keeps application names apart, and how
it builds a web application before deploying it. TLC checks small instances,
TLAPS proves the main invariants for all of them. Line numbers are those of
`src/internal/controller/` unless another file is named; `C` is
`webserver_controller.go`, `H` is `helper.go`, `T` is `templates.go`.

## The system

| Component | State | Operations | Talks to | What is hard |
|---|---|---|---|---|
| Workload reconciliation (`C:116-140`, `C:324-407`, `H:167-312`, `H:609-652`) | the Deployment or StatefulSet with its `webserver-hash` label; no state of its own | create, replace after a hash change, correct image, label and scale | API server (writes), informer caches (reads), work queue | every read may be old, every call may fail, the operator may stop between two calls, users edit at any time |
| Owned objects (`H:1076-1138`, index in `src/cmd/main.go`) | the index of owner UIDs over the caches | list owned Deployments and StatefulSets, delete all but the wanted one | the same | deletes by name what a cached list returned; renames, switches of kind, successors of the same name |
| Status (`C:337-406`) | `WebServer.status` | count pods and replicas, write, requeue | the same | optimistic write with the version read at the start |
| Provisioning (`C:143-322`, `H:442-584`, `service.go`, `servicemonitor.go`) | monitor, services, config maps, log claim, route | get or create, each with a requeue; config maps are written over | API server | nothing of it is watched or compared with the spec again; `config-volume` is one for the namespace |
| Session clustering (`H:391-440`, `H:466-540`, `H:997-1055`) | RoleBinding, `UseKUBEPing` annotation, DNS service, `server.xml` | find or create a binding, annotate, create the DNS service, generate | API server | one decision spread over four objects; the requeues it asks for are dropped (`C:191`) |
| Build pod (`H:100-165`, `H:585-607`, `H:743-758`) | script ConfigMap, build pod, pushed image | write the script, create, poll, delete the pod | kubelet, image registry | the pod has no watch; old and new pod share a name; its end races the poll |
| Source build (`H:315-389`, `H:654-719`) | ImageStream, BuildConfig with a source hash | create, update, start a build, delete | OpenShift's builds and image triggers | a hash and a build that are two calls; builds others start; a trigger that acts on its own |
| Application name webhook (`src/internal/webhook/v1alpha1/webserver_webhook.go`) | `registry.allApps`: a slice per namespace, a lock | `ValidateCreate`, `ValidateUpdate`, `ValidateDelete` | API server, one goroutine per request | the delete takes no lock; the state is ahead of the cluster while a request is in flight; lost on restart |
| Start-up (`C:42-56`, `src/cmd/main.go`) | `isOpenShift`, watches | choose what is watched | discovery API | on plain Kubernetes no workload is watched |
| API types, object generation, manifests | none | pure data | - | - |

The components meet in three places. `Reconcile` runs provisioning first, then a
build if the spec asks for one, then the workload, the owned objects and the status.
A step that answers with a requeue or an error ends it, and the next reconcile
begins again from the top; one that answers with neither does not: for
`return ctrl.Result{}, nil` in the build or the workload (`H:140`, `197`, `270`, `345`,
`379`) Reconcile goes on to the owned objects (`C:325-339`), although the workload
is not what the spec asks for. All of them read one set of informer caches and are
woken through one work queue, whose single worker never runs two reconciles at once.
The webhook shares only the `WebServer`s with the rest.

What makes each correct:

* reconciliation: the operator stops looking only when the workload is what the
  spec asks for, or it has passed over an error; it does not take the last
  workload away, nor another's; the hash
  label tells the truth about the pod template; it settles when the world does;
* status: at rest it shows the workload's replicas;
* provisioning and clustering: at rest everything the pods mount and everything
  that routes to them is there; the members of a cluster find each other; what
  two WebServers of a namespace have does not depend on each other's life;
* build: what is deployed was built from the sources and the script of its
  configuration, and no build is forgotten, be it of the operator's or of
  OpenShift's making;
* webhook: two WebServers of a namespace never settle on one application name,
  and nobody is refused without a reason.

## Modules

`WorkloadReconciler` - one reconcile, call by call. `Start` takes the key and reads
the cached WebServer (`C:126-140`); `ReadWorkload` is the cached Get of
`createDeployment`/`createStatefulSet` and every decision of
`continueWithDeployment`/`-StatefulSet` on what it returned, leading to
`CreateWorkload`, `ReplaceWorkload` (hash changed), `UpdateWorkload` (label, image,
scale) or on to `ListDeployments`, `ListStatefulSets` and `DeleteOwned`
(`checkOwnedObjects`), then `ReadPods`, `ReadReplicas` and `WriteStatus`.
`PanicOnStream` is the nil dereference at `H:279`. `PassOver` is the answer that
ends nothing: after a missing image stream or build pod (`NoImage`), and after an
Update that is refused (`ReplaceWorkload` on claims that differ or a workload that
is gone) or fails (`ReplaceFails`), the reconcile goes on to `ListDeployments`.
Around it: `CallFails`, `Crash`; informers (`SyncWebServer`, `SyncWorkloads`,
`SyncPods`); users (`EditSpec`, `DeleteWebServer`, `CreateWebServer`, `Drift`); the
cluster (`RunPods`, `CollectGarbage`). A configuration (`Cfgs`) is everything
`getWebServerHash` digests but the application name. Resource versions are only
compared with the current one, so the model keeps whether a copy is current.

`WorkloadContract` - what that reconcile promises, without how: the operator
hears what is asked for, serves one wish at a time, and while it serves that
wish it either makes the wished workload what was wished for or removes another
workload of the same WebServer. There are no caches, steps, conflicts or retries
in it. `WorkloadRefinement` maps one onto the other (the wish being served is
the WebServer the reconcile read) and names the claim `Implements`.

`Provisioning` - the steps of `Reconcile` before the workload, in their order
(`Pos`) and under their conditions (`Needs`), for the WebServers of one
namespace: `GetOrCreate` (monitor, services, claim, route, load balancer),
`PutConfigMap`, and session clustering: `Decide` (`checkRoleBinding` and
`createRoleBinding`), `Annotate` (`setUseKUBEPing`) and the provider that
`server.xml` is generated with. `CheckImage` is the check of the image source.
An early return is `Return(FALSE)`, a requeue or an error `Return(TRUE)`; the
requeues of session clustering are dropped, and the same reconcile goes on to
`server.xml` (`Create` of the DNS service, `Annotate`).
Around it: the three ways a call fails (`CallFails` is reported, `GetFails`
and `ListFails` pass for an answer), `Crash`, the informers, the cloud that
gives a load balancer its address, the collector, users and administrators.

`ProvisioningContract` - what those steps promise, without their order, caches
and requeues: while the operator serves a WebServer as it has heard of it, it
makes what this WebServer needs, writes over config maps only and over nobody
else's, and notes its choice of the membership provider on the version it has
read, or keeps it in mind if there is a later one. `ProvisioningRefinement`
names the claim `KeepsContract`.

`BuildPod` - `webImageConfiguration` up to the workload: the script's
ConfigMap (an unconditional Update, `H:543`), the cached read of the build pod,
its creation, its deletion after a hash change, the polling, and the kubelet
that mounts the script as it is when the container starts, pushes the image,
and removes a deleted pod when its container is over. There is a build pod for
every application name, since a rename stops no build, and an image says whose
pod pushed it, under which hash and with which script. The WebServer is the
one in the operator's cache, which merges an edit with its arrival there: the
code sees nothing earlier.

`SourceBuild` - `webImageSourceConfiguration`: the image stream, the cached
BuildConfig with its source hash, `UpdateConfig` and then `Instantiate`, the
deletion when the sources are gone, `NoStream` (the stream of a WebServer without
sources is missing), and the workload reduced to its hash and image. OpenShift
starts the first build of a BuildConfig and rebuilds of its own accord, runs the
builds one after the other and, through the trigger annotation, puts what they
pushed into the workload.

`AppRegistry` - the webhook. A request is a goroutine in stages:
`checkApplicationName` (lock, search, write, unlock), or `ValidateDelete` in
three unlocked steps over a Go slice (length and shared array); then the API
server stores what was admitted, or does not (`RefuseLater`: dry run, later
admission), and the operator may restart with an empty list.

`RegistryContract` - an atomic register of names: a request is granted or denied
in one step, at a moment between its arrival and its answer. There is no list,
loop or lock in it, and a rename or a shift of the array is never seen half done.
`RegistryRefinement` takes the set of the list's entries for the register and
names the claim `Linearizable`. A restart, which empties the list, and a refusal
after admission are in the contract too: it says what the webhook does with what
it knows, and the invariants of `AppRegistry` how far that agrees with the cluster.

In `WorkloadReconciler`, `BuildPod` and `SourceBuild` `missed` holds the error that
the present reconcile, or the last one, has passed over (the missing image or pod,
the refused Update), and `behind` says whether the cache of what is not watched was
old when it began; `late`, in `BuildPod`, remembers that a script was rewritten
under a pod that waited to mount it. They are history variables: no action reads
them, and the properties use them to say in which cases the code falls short.
`Rest`, in `BuildPod` and `SourceBuild`, is what follows in Reconcile, which may
ask for a requeue because of the number of pods.

`MC*` modules give TLC its constants; `*_proofs` modules hold the theorems.
Operators marked "wrong" in the modules (`StaleNever`, `OwnedAll`, ...) are
used by no specification: each is a plausible bug, and putting it in place of
the definition after it makes a property fail, which shows the property looks.

## Runs

| Run | Instance | Shows |
|---|---|---|
| `openshift` | Deployments, watched; two names, two configurations (one an image stream), replicas 0 and 1, two UIDs, lagging caches, 2 disturbances | types; `QuietMeansConverged`; `QuietMeansStatusAccurate`; `Implements` |
| `openshift_live` | one configuration, one UID, under fairness | `EventuallyConverged`, `EventuallyReported` |
| `switching` | Deployments beside StatefulSets, which nobody watches; an image stream, two values of the claims; missing images, refused and failed Updates, failing creates and deletes | `QuietMeansConverged`, `HashNamesTemplate`, `NeverTheLast` |
| `provisioning` | two WebServers on OpenShift that cluster, one of which may log instead and is edited, deleted and made anew; three kinds of failing calls; 2 disturbances | types; `QuietMeansProvisioned`, `KubepingBacked`, `QuietMeansClustered`, `NeverTakenAway`, `KeepsContract` |
| `provisioning_live` | one WebServer on Kubernetes with monitors, that asks for everything there is or for what is refused; 1 disturbance, fairness | `EventuallyProvisioned`, `EventuallyCollected` |
| `build_pod` | two application names; four configurations (two with scripts, one with the builder's, one without webApp); every fault; 2 edits and a fault, fairness | types; `QuietMeansDeployed`, `QuietMeansOwnImage`, `DeployedWasBuilt`, `EventuallyDeployed` |
| `source_build` | two configurations with sources, one without; every failing call but `Instantiate`; 5 disturbances, fairness | types; `HashNamesBuild`, `QuietMeansBuilt`, `EventuallyBuilt` |
| `registry` | three names, applications and clients, deletes alone, one fault | `RegistryUnique`, `RegistryMatchesCluster`, `UniqueWhileFaultless`, `RefusedForAReason`, `Linearizable` |
| `stream_panic` | webImageStream with claim templates | finding 1: `EventuallyReported` fails |
| `stale_trigger` | one edit, from sources to a plain stream | finding 2: `QuietMeansOwnStream` fails |
| `shared_config` | two WebServers that log, one is deleted | finding 3: `QuietMeansProvisioned` fails |
| `delete_race` | a delete beside other requests | finding 4: `UniqueApplicationNames` fails |

### Findings

1. `H:279`: `continueWithStatefulSet` reads `webServer.Spec.WebImage` without
   the nil check of its Deployment twin; with a webImageStream every reconcile
   panics once the StatefulSet exists.
2. `T:359`: the trigger annotation names the stream `<application>:latest`
   whatever the spec says. A WebServer that moves from sources to an image
   stream of its own choice is given the image built earlier instead.
3. `T:198`: the logging ConfigMap is called `config-volume` for every
   WebServer of a namespace, and belongs to the one reconciled last. When that one
   is deleted the pods of the others cannot start any more, and nothing wakes the
   operator for it.
4. `webserver_webhook.go:108`: `ValidateDelete` changes the list without the lock.

### Known disagreements no run is kept for

What the code does here is in the modules, and the runs reach it unless a constant
keeps it out. Where they reach it the property excepts it by a condition on the
history. Without that condition, or with the value named, TLC finds the property
violated.

* `H:345`, `H:379` (a missing image stream) and `H:140` (a build pod that is gone):
  Reconcile goes on to `checkOwnedObjects`, which after a rename or a switch of
  kind deletes the old workload although the new one was never created. The model
  does the same (`NoImage`); `NeverTheLast` fails without its exception for
  `missed = "image"`, and `QuietMeansConverged` without its.
* `H:270` and `H:197`: an error of the Update after a hash change, other than a
  conflict, is answered with neither error nor requeue ("Just Update and requeue",
  `H:261`). Reconcile goes on to the owned objects and the status, and once the pods
  are as many as they should be the key is dropped, with the old template running.
  The API server refuses every change of the claim templates of a StatefulSet, so
  that one edit is enough. `QuietMeansConverged`, `QuietMeansBuilt` and
  `QuietMeansDeployed` except it by `missed`.
* `H:138`: so is the NotFound on deleting the outdated build pod ("Just Delete and
  requeue", `H:137`). The pod is deleted anew every 500 ms while it terminates (up
  to a minute), so that the last of these calls may well come too late, and then
  nobody makes a new build pod. `QuietMeansDeployed` excepts it by `missed`.
* `H:109`: the script is overwritten before the build pod of the older
  configuration is dealt with. A pod that still waits to start mounts the newer
  script, and after an edit back its hash is the current one: its image is
  deployed as what it is not. `DeployedWasBuilt` and `QuietMeansOwnImage` except
  what follows by `late`.
* `T:264`: after a rename the old name's build pod goes on, and may push its image
  after the new one's. `HoldsBuildOf` excepts an image that a pod of another
  application pushed.
* `H:707`: when `Instantiate` fails, or the operator stops just before it, the
  label names a build nobody asked for, and the next reconcile is satisfied with
  the label. `HashNamesBuild` fails with `"instantiate"` in `FailingCalls`.
* `H:686`: with a BuildConfig cache that is older than two edits, from A to B
  and back to A, the operator takes B's build for A's: `QuietMeansBuilt` fails
  without `~behind`. So do `DeployedWasBuilt` and `QuietMeansOwnImage` with an old
  copy of a build pod (`H:586`), and `QuietMeansConverged` with an old copy of a
  workload nobody watches (`H:610`).
* `H:1101`: with workload caches that old, a rename from A to B and back lets
  `checkOwnedObjects` delete the last workload, which the next reconcile creates
  again. `NeverTheLast` fails without `~behind`.
* `H:173` (and `H:246`): a workload of the right name and hash is taken as it is,
  whoever controls it. A WebServer created after another of its name, and renamed to an
  application whose old workload the collector has not reached yet, has its own
  workload deleted beside one that is about to go. `NeverTheLast` fails with two
  `Uids` and three disturbances; the watch then brings the workload back.
* `H:449` (and every lookup like it): a WebServer that is deleted and created
  again at once finds its predecessor's services, and takes them for its own
  until the collector removes them. `QuietMeansProvisioned` and
  `KubepingBacked` fail with `Adopts = TRUE`.
* `webserver_webhook.go:153`: the validation has side effects, and a request
  that is not stored (a dry run) leaves them behind. `UniqueApplicationNames` fails
  with `"refuse"` in `Faults`.

### Bounds, and why they are enough

`MaxDisturbances` bounds edits, drifts, failures, grants and crashes together,
`MaxEdits` and `MaxFaults` bound edits and the rest; steps of the operator, the
informers and the cluster are never bounded. Two disturbances suffice for the
shortest way to each kind of trouble (an edit and an edit back; an edit and a crash;
a drift during an edit; a WebServer that goes and comes back, or goes after a failed
call), and a fault besides for the build pod, where a pod has to be made obsolete
first; the states of `SourceBuild` are few enough for five. `build_pod` starts from
one application name (`FirstApps`), since nothing tells the two apart, and with a
configuration that has a script or one that has nothing to build (`FirstCfgs`): the
other scripted one is its twin, and the unscripted one comes with the first edit.
Two names and two configurations are what a rename, an edit and its reversal need;
two WebServers are what sharing needs, and only one of them has users in
`provisioning` (`Busy`), since the other's would do the same; three names and
clients are what a registry collision beside an innocent third needs. Replica counts
0 and 1 make every comparison come out both ways. Symmetry is used for application
names, UIDs and clients, and never with a liveness property.

What a WebServer may ask for is a constant of `Provisioning`, `SpecsOf`. In
`provisioning` at most one WebServer logs, which keeps finding 3 out;
`provisioning_live` has every step of the chain at once, but one WebServer and
no second reconcile in between.

`Cap` of the registry's array equals the number of names, and the array is
modelled as already grown: an append then writes in place, as in Go. An append
that finds it full waits; with deletes alone that does not happen.

`DeletesAlone` says that no other request overlaps a delete, `Adopts = FALSE`
that a WebServer is created under an old name once its predecessor's objects are
gone, and `"instantiate" \notin FailingCalls` that Instantiate answers. The code
guarantees none of them; what happens without is said above. Nothing bounds how
old a cache may be, in any run.

On Kubernetes two more things are left to the informers' periodic resync (ten
hours by default), which is not modelled: a status that is stale when nothing
requeues, and a WebServer re-created under its old name before the old workload
is collected. `QuietMeansStatusAccurate` and two UIDs are therefore checked on
OpenShift only, where the Deployment watch wakes the operator; what the operator
does for a kind nobody watches is checked with the StatefulSets of `switching`.

### Fairness

Weak fairness on the reconcile as a whole (controller-runtime's worker takes a
queued key, and each call returns), on each informer (a watch delivers what
happened), on the Deployment/StatefulSet controllers and the garbage collector;
in `BuildPod` on the kubelet, in `SourceBuild` on the builds and the image
trigger, in `Provisioning` on the cloud. Strong fairness once: on `Start(w)` in
`Provisioning`, because the work queue serves its keys in turn while a key that
is being polled comes and goes. No fairness on edits, drifts, grants,
evictions, failures or crashes, whose number is bounded.

## Proofs

For every set of names, configurations, scripts, specs, replicas, UIDs and
faults and every bound:

* `WorkloadReconciler_proofs`: `TypeCorrect`. `LabelCorrect`
  (`HashNamesTemplate`, nobody strips the label): the label and template of
  every stored workload, of every cached one, and of the amended copy agree. The
  copies are needed because an Update writes back what was read earlier.
  `QuietCorrect` (`QuietMeansConverged`; every configuration needs a Deployment,
  Deployments are watched): `Coherent` says a cache that is not marked as lagging
  equals the store, and `Progress` says, for every place a reconcile can be at,
  that either the key is or will be queued, or an error was passed over, or
  what has been read so far still holds of the store. Quietness then leaves only the
  converged case. `StatusCorrect` (`QuietMeansStatusAccurate`, same assumptions):
  `StatusInv` says that a reconcile which has not set `updateStatus` still holds
  the status there is, so that one that ends without a write leaves a right one;
  errors passed over need no exception, since the status is written after them.
  `LastCorrect` (`NeverTheLast`; one UID at a time, nobody else deletes workloads):
  `LastInv` says that what a lookup with current copies found stays in the store,
  and out of the list of what to delete, as long as the WebServer is there.
  A refused Update is no exception: the workload it was to change is there.
  `UnwatchedCorrect` (`QuietMeansConverged` once more, where some kind is not
  watched; the assumptions of `LastCorrect` and no drifts): where no watch brings
  the key back, the reconcile itself must not end before its work is done.
  `Established` says what a reconcile that has passed over nothing and began with
  current copies has made sure of in the store at each place it can be at (the
  writes so far, what is left to delete), and `DoneInv` that with no wake-up
  pending such a last reconcile served the latest version and left its workload.
* `WorkloadRefinement_proofs`: `Refines` (`Spec => Implements`), without any
  assumption on caches, kinds or faults. The contract allows a Delete only of a
  workload whose owner is the WebServer served, while the code deletes by name
  what a cached list returned; between the two another WebServer may have taken
  the name. `Owners` excludes it: the UIDs at hand - of the WebServer, of its
  cached copy, of the one being reconciled, of an object's owner - form a chain in
  time (`Chain`), and an object the cache shows has changed owner only to a newer
  one (`StaleOwner`). `CopyRight` and `DoomedRight` carry this to the object about
  to be written and to those about to be deleted. Each action then maps to a step
  of the contract or to a stutter.
* `Provisioning_proofs`: `TypeCorrect`, and, with `Adopts` false, four theorems.
  Under all of them lies `OwnInv`: no object that carries a WebServer's name is ever
  owned by another WebServer (`Apart`), nor is it, the cached copy or the reconcile in
  progress a predecessor's (`Own`), because a WebServer is only created anew when
  all three are gone. The collector then never takes what is a living WebServer's:
  `TakenCorrect` (`NeverTakenAway`). `KubepingCorrect` (`KubepingBacked`) needs in
  addition that the answer about to be written into the annotation is still
  right (`AnswerRight`). For `ProvisionedCorrect` (`QuietMeansProvisioned`) and
  `ClusteredCorrect` (`QuietMeansClustered`) `Current` says that what a reconcile
  has read is the latest or it will read again, and `Progress` that, for a WebServer
  nobody is to be woken for, everything that the steps before the present one are
  for is there, made from the present spec and annotation. All but
  `KubepingCorrect` assume that at most one WebServer of the namespace can log
  (`OneLogs`): without it the key `config-volume` has no one owner (finding 3).
* `ProvisioningRefinement_proofs`: `ProvisioningRefines` (`Spec => KeepsContract`;
  `OneLogs`, and nothing on caches, faults or `Adopts`). A WebServer that is created
  anew at once may find its predecessor's objects, but what is another living
  WebServer's stays apart all the same (`ApartStep`, which does without `Own`),
  so that a config map written over is never another's. The annotation is
  written with the resource version of what was read: `Current` makes the version that
  is current the one there is, hence no edit of a user is undone, and `Undecided`
  says that nobody is asked who has chosen before.
* `SourceBuild_proofs`: `TypeCorrect`. `HashCorrect` (`HashNamesBuild`,
  `Instantiate` does not fail). `BuiltCorrect` (`QuietMeansBuilt`, same assumption):
  `CacheRight` says how far the cached BuildConfig may be from the stored one while
  a reconcile works with it, `Working` and `Done` that the BuildConfig is the
  current spec's from its step on, or another reconcile follows, or the reconcile is
  one of those the property excepts, `Pushed` that a successful build is behind the
  tag.
* `AppRegistry_proofs`: `RegistryTypeCorrect`, whatever overlaps: `FilledInv` says
  that some prefix of the array is filled with entries, and that every length, index
  and plan a goroutine remembers lies within it, although the list itself may have
  become shorter or longer since. The other four with deletes alone:
  `RegistryUniqueCorrect`: the list is unique, and a goroutine that decided to write
  holds the lock and its decision is still right (`RegInv`); `UniqueNamesCorrect`:
  in addition no two requests for one WebServer overlap (`SerialInv`) and, until the
  first fault, every stored or admitted WebServer is in the list under its name
  (`FaithInv`), so that uniqueness of the list carries over to the cluster;
  `MatchesCorrect` (`RegistryMatchesCluster`) and `RefusedCorrect`
  (`RefusedForAReason`) need the converse too: an entry of the list is what is
  stored or what an admitted request is about to store (`HonestInv`).
* `RegistryRefinement_proofs` (deletes alone): `RegistryRefines`
  (`Spec => Linearizable`). A request acts when its goroutine changes the list, or
  when its search finds the name taken. By `RegInv` the search's outcome
  still holds at that moment; by `RegistryUnique` a WebServer has one entry, so that
  renaming or removing one entry is replacing or removing all the register knows
  of it. The other steps are not seen.
* `BuildPod_proofs`: `TypeCorrect`. `QuietCorrect` (`QuietMeansDeployed`), without
  assumptions: a reconcile works for the current WebServer or another follows, and
  whoever deploys asks to look again until there is nothing left to deploy.
  `BuiltCorrect` (`DeployedWasBuilt`) and `OwnImageCorrect` (`QuietMeansOwnImage`),
  without assumptions either, for any number of application names. `ScriptInv`:
  until a script is rewritten under a waiting pod (`late`), the ConfigMap has the
  script of whatever pod waits (`ScriptThere`), so that one that has started ran its
  own (`OwnScript`). `ImageInv`: a build that is done was pushed
  (`DonePushed`); one that a reconcile with current copies has seen done stays the
  last push of its application (`SeenDone`, `ReadyToDeploy`), and still is when the
  operator rests (`Rested`), because only a reconcile makes another pod of that name.

Only model-checked: the liveness properties (`EventuallyConverged`,
`EventuallyReported`, `EventuallyDeployed`, `EventuallyBuilt`,
`EventuallyProvisioned`, `EventuallyCollected`), which hold under fairness and are
out of the prover's reach. Every invariant and action property of the passing
runs is the subject of a theorem, as are the three refinements.

## Not modelled

* Pod names, states and IPs in the status, hosts and selector; the pod list is
  its length. The poll of `getPodStatus` for pods without an IP is part of "the
  number of pods is not the wanted one".
* Contents of config maps, probes, environment and volumes: pure functions of
  the configuration, represented by it, but for the provider in `server.xml`. Two
  inputs of the pod template are not in the hash, the `UseKUBEPing` annotation and
  the image stream's repository, so that pods are not replaced when they change;
  the workload modules take both as fixed.
* What an object looks like that is found and no longer fits the spec: a route or
  a routing service keeps its kind and port (`C:267`). `Provisioning` asks only
  whether it exists.
* The retention policy of claims, which `generateUpdatedStatefulSet` (`T:478`)
  leaves out: one assignment in pure object generation.
* Renames in `Provisioning` and `SourceBuild`: objects under the old name stay
  until the WebServer goes.
* In `Provisioning` a lookup and the create after it are one step: nothing reads
  between them what the first of them returned, and an AlreadyExists is as good
  as a creation.
* A Get of the image stream that fails otherwise than with NotFound (`H:370`): the
  error is lost and the pod template names no image.
* The resync of the informers, flags, certificates, metrics, manifests, deep
  copies and defaults: I/O or pure data without behaviour of their own.
* A workload whose labels were all removed (a nil map at `H:184`).

## Plan

1. `WorkloadReconciler`, `AppRegistry`, `BuildPod`, `SourceBuild`,
   `Provisioning` with their theorems, and the contracts of workloads, of the registry
   and of provisioning with their refinements: done.
2. A composition of `AppRegistry` with two reconcilers that share a namespace, for
   what a name collision does to the workloads.
3. The annotation and the repository as inputs of the pod template beside the
   hash, which joins `Provisioning` to `WorkloadReconciler`.
4. A contract for the builds (`BuildPod`, `SourceBuild`): what is deployed was built
   from what is or was asked for, without caches and polls.
