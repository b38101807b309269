# A formal model of the TigerBeetle operator

This directory holds TLA+ modules that model the operator in this repository,
TLC configurations that check them on small instances, and proofs that TLAPS
checks for every value of the constants. The modules are written from the Go
code: a comment in a module names the function it stands for, and
`PROJECT.json` maps every definition to its lines.

    tlc -workers 2 -config BootstrapOne.cfg Bootstrap.tla
    tlapm BootstrapProofs.tla

and the same for the other runs of section 3 and modules of section 4.

## 1. The system

The operator runs TigerBeetle clusters in Kubernetes. A user writes one
`TigerBeetleCluster`; the operator's single reconciler turns it into Services,
PersistentVolumeClaims (PVCs), format Jobs, a ConfigMap, a PodDisruptionBudget
and a StatefulSet. Each of its pods runs the init helper (`cmd/init`) before
TigerBeetle itself. The stakes are unusual: a replica that has acknowledged
transfers must never be handed an empty data file.

| Component | State it keeps | Operations | Interacts through |
|---|---|---|---|
| Bootstrap and its gate (`internal/controller/tigerbeetlecluster_controller.go`) | none of its own; `status.bootstrapped`, the ConfigMap's marker, the PVCs' uid label, the Jobs | `Reconcile`, `reconcile`, `isBootstrapped`, `bootstrap`, `deleteFormatJobs` | API server, the informers' cache, an uncached `APIReader`, the work queue |
| Services and addresses (`ensureServices`, `buildService`, `Addresses`) | `status.serviceIPs` | create, re-create with the old IP | API server, cache; addresses go to the ConfigMap and the pod template |
| Recovery (`approveRecoveries`, `observeReplicas`; `waitForApproval`, `recoverReplica` in `cmd/init`) | annotations of the cluster and of pods, `Stalled` | list, annotate, report; wait, recover | pod annotations, the kubelet's downward API volume |
| Rollouts and stuck pods (`replicas.go`, `restartStuckPod`) | `status.currentImage` | watch a rollout, delete a stuck pod | StatefulSet status, pod cache |
| Init helper (`cmd/init/main.go`) | one volume: data file and `.partial` file | `format`, `recover`, `runToFile`, `start` | file system; exit codes to the Job and the kubelet |
| Status conditions (`status.go`) | `Ready`, `Stalled`, phase | `setStatus`, `notReadyReasons`, the status patch | what every reconcile found |
| Cluster IDs, sizes, addresses (`internal/tigerbeetle`) | none | pure functions | called by the builders and the helper |
| Builders (`internal/controller/resources.go`) | none | one object per function | called by the reconciler |
| Settings: memory, PodDisruptionBudget and metrics Service (`CacheGrid`, `memoryLimit`, `applyPodDisruptionBudget`, `applyMetricsService`) | none | refuse a spec, apply the template, apply or delete | API server, cache |
| API types and admission rules (`api/v1alpha1`) | none | CEL rules | evaluated by the API server |
| Manager (`cmd/main.go`), generated code, packaging, site | none | wiring | - |

The same list, with what is modelled of each, is in `PROJECT.json`
(`components`).

### What is hard here

- **Nothing is atomic.** A reconcile is a dozen calls to the API server, and
  users, garbage collector, controllers and pods act between any two of them.
- **The cache lags.** What the operator reads is an older state, a different
  one for every kind of object, and never one consistent snapshot.
- **Names are used again.** Clusters, Jobs, pods and Services are found by name;
  what has the name may be somebody else's by now.
- **Wake-ups.** A reconcile that waits returns and relies on a later event;
  pods and PVCs are not watched at all.
- **Crashes and failed calls** between the marker, the StatefulSet, the status
  and the deletion of the Jobs; killed format pods; power loss on a node.
- **Two programs on one volume**: format pods, the recover init container and
  TigerBeetle.

`PROJECT.json` (`hazards`) lists these at their lines with the properties that
would catch each going wrong.

### What makes each component correct

- Bootstrap: a bootstrapped cluster never looks new; only volumes of this
  bootstrap are formatted; formatting is over when replicas run;
  `status.bootstrapped` is true only if everything was formatted; it finishes.
- Init helper: what has the data file's name was written to its end; data is
  never replaced; retries start from a clean slate, so that only
  faults use them up; a pod that is told to stop does.
- Recovery: with `Manual` nothing recovers without its own approval, every
  waiting pod is reported and every approval arrives; with `Automatic`
  replicas come back.
- Rollouts: only pods stuck on an outdated revision are deleted;
  a fix gets through; `status.currentImage` tells the truth.
- Services: the IPs once published never change; a new port is forwarded before
  anybody is told; a lost IP is reported; replicas reach each other.
- Settings: no replica gets a grid cache that its memory has no room for; an
  impossible spec changes nothing and is reported; the rest follows the spec.
- Status: never healthy before the latest spec is rolled out; errors do not make
  it flap; it tells the truth in the end.

## 2. The modules

| Module | Models | Kind |
|---|---|---|
| `ReplicaData` | what is promised of the data files of a cluster | abstract specification |
| `Bootstrap` | `Reconcile` from the gate to the deletion of the Jobs, with its environment | state machine, refines `ReplicaData` |
| `BootstrapProofs` | theorems about `Bootstrap`: types and the gate | proofs |
| `BootstrapSafety` | the other safety properties and the refinement; extends `BootstrapProofs` | proofs |
| `InitHelper` | `cmd/init` on one volume | state machine |
| `InitHelperProofs` | theorems about `InitHelper` | proofs |
| `Recovery` | lost data files after bootstrap, both sides of the approval | state machine |
| `RecoveryProofs` | theorems about `Recovery` | proofs |
| `Rollout` | rollouts, `stuckPod`, `restartStuckPod` | state machine |
| `RolloutProofs` | theorems about `Rollout` | proofs |
| `Services` | `ensureServices`, re-pinning, the port, the addresses up to the replicas | state machine |
| `ServicesProofs` | theorems about `Services` | proofs |
| `Sizes` | `CacheGrid`, `ParseSize`, `containerResources`, and what they are meant to compute | operators |
| `Settings` | memory, metrics and PodDisruptionBudget, from the spec to the objects; uses `Sizes` | state machine |
| `SettingsProofs` | theorems about `Sizes` and `Settings` | proofs |
| `Status` | `setStatus`, `notReadyReasons`, the status patch | state machine |
| `StatusProofs` | theorems about `Status` | proofs |

Each module holds its constants, properties and, where a mutation of the code
is interesting, the mutated definition (`..._Bug`, `Stuck_...`), which nothing
refers to: `PROJECT.json` (`mutants`) says which property it would break. A
module is instantiated for TLC by its `.cfg` file; no module needs more than
constants, so there are no separate MC modules.

The models share these conventions:

- **One action per call.** The handler is cut at its calls to the API server;
  `pc` is the next one. Local variables live in `me`, `scan`, `seen`, `ips`.
- **Objects and copies.** `x` is what the API server stores, `cX` the
  operator's cached copy. `SyncX` brings the copy up to date and, if the
  object is watched, puts the cluster in the work queue. A cache jumps to the
  latest state: the states it skips would only be seen for a while longer.
- **Failed calls** (`ApiError`, `StatusPatchFails`, ...) end the reconcile as
  an error does: the status is still patched, the work queue tries again.
  **Crashes** lose local variables and start on a fresh cache.
- **Absent** is uid, owner or file 0, or `None`.
- **Bounds** are constants named `Max...` in the guards of users' operations,
  of faults and of creations, never of the operator's own steps.
- **`Assumed`** (`Faults` in `InitHelper`) names, one by one, assumptions on the
  environment. A property that needs one says so through the run's
  configuration; section 5 says what happens without it.
- **`MaxTotal`** bounds users' operations and faults together, so that each kind
  can happen as often as its own bound says without all of them at once.

### Bootstrap

| Code | Model |
|---|---|
| `Reconcile`: get, skip what is gone or being deleted | `BeginReconcile`, `SkipReconcile` |
| `ensureServices` returns before all Services have an address | `ServicesWait` |
| `isBootstrapped` with the cached client | `GateCached` |
| `isBootstrapped` with the `APIReader`: ConfigMap, StatefulSet, pods | `GateConfigMap`, `GateStatefulSet`, `GatePods` |
| ConfigMap applied without marker | `ApplyUnmarked` |
| `bootstrap`: the ownership check over all PVCs | `GetPVC`, `JudgeClaims` |
| ... creation of the missing PVCs, AlreadyExists ignored | `CreatePVC` |
| ... the format Jobs, created or counted | `FormatJob`, `JudgeJobs` |
| ConfigMap with marker, then StatefulSet | `ApplyMarked`, `ApplyStatefulSet` |
| `deleteFormatJobs`: the list, then one deletion after the other | `ListJobs`, `DeleteJobs` |
| the deferred status patch, a difference to what was read | `PatchStatus` |
| watches of `SetupWithManager` | `Sync...`, `Deleted`, `OtherEvent` |

The environment is external to the repository and modelled from what the code
relies on: the Job controller and format pods, the StatefulSet controller, the
replicas, the garbage collector, pods that outlive their StatefulSet, lost
volumes; and users who create, delete (in the background or in the foreground)
and re-create the cluster, delete any of its objects, restore volumes, and set
the adopt-existing-data annotation.

The cached reading of the gate is one step: a marker in the cache only sends the
reconcile to the safe side. The live reading is three steps, since objects go
away between them. `ran`, `booted`, `formatted` and `lastUid` are
history. A cached Job does not tell a pending pod from a running one.

`Assumed` has five members. `RestoreFirst`, `JobsCollected` and `MarkersCollected`
say when PVCs of others and leftovers of older clusters may be there. `StatusFirst`
and `CaughtUp` are about the last marker (`MarkersKept`): nobody removes it before
the status is stored, and before the cache shows it. A cache only shows what is
stored, so `CaughtUp` covers most of `StatusFirst`; they are two members so that a
run can keep the one and drop the other.

Left out: a second active operator (leader election), external replicas, invalid
specs; a deleted Job takes its pod along.

### ReplicaData

What matters of all that: a file is formatted only for a replica that has never
run on the data that is still there, started only if it exists, recovered only
when all others have data. `Bootstrap` is shown to implement it with
`file` as the state of the PVCs and `ran` as the history variable
(`DataSafe == Data!Spec`).

### InitHelper

The directory of a volume has the data file's entry and the `.partial` entry;
both name numbered files, so that a command keeps writing to what has been
removed or renamed under it. The steps are those of `runToFile`: remove what is
left, run, rename, sync the directory; a failing command, a failing sync, a
killed pod, a power loss that takes the directory back to its last sync, and a
lost volume can come anywhere. A replica's init container tries again after a
failure. A format pod ends, and its Job counts it (`PodEnds`): after more failures
than `BackoffLimit` (`buildFormatJob`) the Job makes no more pods (`JobFailed`),
until a user deletes it, which `bootstrap` asks for with `Stalled` (`DeleteJob`).

`start` runs TigerBeetle as a child (`Start`) and forwards signals from then on
(`Notify`, `Forward`). A pod may be told to stop in any stage (`Stop`): a helper
that does not forward the signal ends by it, and its container with it. A child
that ends by itself ends the helper, and the kubelet restarts that container
alone.

### Recovery

Both halves of the protocol: the recover init container of each pod, and the
operator that annotates pods and reports the ones that wait. `recoverReplica`
reads the annotation through the kubelet's copy (`info`). Pods have uids and
their names are used again. `spec.replicas` and `spec.recoveryPolicy` are fixed
in a behaviour: one configuration checks all their values.

### Rollout

A template is its own revision, so a reverted change brings a revision back. The
StatefulSet's status lags behind (`observed` stands for the comparison of the
generations), and the operator sees it in the answer to its own patch. Nothing
but the operator reads the spec, so a change of it counts from when it is cached.
UIDs are given out from three: a new pod gets one that no copy of a pod of its
name has.

Beside an outdated revision `stuckPod` asks two things of a pod: that it reports a
failure (`podFailure`: unschedulable, or a container that waits for a listed
reason), and that it has been unready for long. An unready pod's step says which of
them it fulfils: `starting` neither, `waiting` the first, `unready` the second,
`failing` both. `PodWaits` and `PodRuns` change the first; `TimePasses` changes the
second and stands for both time limits of `replicas.go`. Pods of a `Broken` template
come to report their failure. Pods of a `Silent` one run and are never ready: the
code leaves them alone. `Faults` selects what else happens to pods and calls.

### Services

The loop of `ensureServices` with one IP and one port per Service, and the lists
of addresses in the status, the ConfigMap, the pod template and the replicas,
which read theirs when they start (`StartReplica`, one by one in a rollout). A
port is the number of the edit that chose it: this tells older lists from newer
ones, and leaves out that a port may come back. An IP that no Service of the
cluster has can be taken by others. The bootstrap between ConfigMap and
StatefulSet is left out, and an IP is allocated with its Service.

While the replicas of a new port are restarted one by one, those that still
listen on the old port are out of reach, because their Services forward to the
number in the spec. `SwitchesInOrder` and `AddressesServed` say what holds
nevertheless: the order, and the end.

### Sizes and Settings

`Sizes` is the arithmetic: `Int64` wraps around, `TooLarge` is `ParseSize`'s
test by division, `>> 20` is a division that rounds down. `Settings` is the part
of `reconcile` around it: `RefuseSpec` returns before anything is changed,
otherwise StatefulSet, PodDisruptionBudget and metrics Service follow in one
step each. `ApplyMetricsService` applies the Service whoever has its name, or looks
it up in the cache and deletes it by name. Users edit one field at a time, delete
what they like, and create a Service of their own under the metrics Service's name:
a headless one, which the operator takes over, or one with an address. The API
server does not change an address to `None`, as `buildMetricsService` asks, so the
call then fails every time until that Service goes (`MetricsServiceRefused`).

`Possible`, `Fits` and `IsLargest` are the reference: what `docs/deploying.md`
says of the limit, in arithmetic without a width.

### Status

`orig` is the copy that a reconcile begins with and `now` the one that it
rewrites. The patch writes the fields in which `now` ends up different from
`orig`; the conditions are one field, because a merge patch replaces a list as a
whole. The world is what the conditions tell apart: format Jobs, how far the
StatefulSet's rollout has got, and the worst that is wrong with the pods, which
only wakes the operator when the number of ready replicas changes. `complete`,
`verdict` and `mixed` are history. `Health` is the health check of
`docs/argocd-health-check.md`.

## 3. The runs

| Run | Instance | Checks | States |
|---|---|---|---|
| `BootstrapOne` | 1 replica, cluster created twice, 3 user operations, 1 fault | `GateSound`, `NoFormatJobBesideReplicas`, `BootstrappedMeansFormatted`, `RefusesForeignPVCs` | 2.5 M |
| `BootstrapTwo` | 2 replicas, 1 user operation or fault, fair | `TypeOK`, `NoFormatJobBesideReplicas`, `BootstrappedMeansFormatted`, `DataSafe`, `BootstrapSettles` | 0.4 M |
| `BootstrapStaleCluster` | 1 replica, the cache may miss the status | `GateSound` is violated | - |
| `BootstrapLeftoverJobs` | 1 replica, created twice, Jobs not yet collected | `BootstrappedMeansFormatted` is violated | - |
| `InitHelperOne` | one pod at a time, 6 faults of any kind, 7 files, fair | `TypeOK`, `NeverLooksReal`, `SurvivesPowerLoss`, `OnlyFaultsFail`, `NeverReplaced`, `StopsWhenTold`, `EventuallyServes` | 127 k |
| `RecoveryTwo` | 1 or 2 replicas, both policies, 2 faults, fair | `TypeOK`, `ApprovedOnly`, `WaitingIsReported`, `ApprovalArrives`, `RecoversAlone`, `LossIsReported` | 0.3 M |
| `RecoveryStalePod` | 2 replicas, the pod cache may lag behind a name used again | `ApprovedOnly` is violated | - |
| `RolloutFix` | 2 replicas, ready or stuck in a rollout of a broken or silent template, 1 edit, 1 fault, fair | `TypeOK`, `NeverDeletesUpdated`, `ImageMeansAll`, `FixArrives` | 1.3 M |
| `RolloutStalePods` | 2 replicas, 2 sound templates, 1 edit, 1 failing pod, no evictions | `OneAtATime` is violated | - |
| `ServicesSeen` | 2 replicas, 3 IPs; 4 of 1 new port, 2 deleted Services, 1 IP taken, 2 faults; fair | `TypeOK`, `SwitchesInOrder`, `AddressesKept`, `LossOfIPIsReported`, `AddressesServed` | 1.4 M |
| `SettingsEdited` | 1 or 3 replicas, 96 specs, 2 edits, deletions or faults, fair | `TypeOK`, `GridFits`, `OthersKept`, `RefusalIsReported`, `SettingsFollowed` | 2.7 M |
| `StatusStale` | 2 good specs and an invalid one, 1 edit, 1 fault, stale copies, fair | `TypeOK`, `HealthySound`, `HealthKept`, `StatusArrives` | 1.4 M |

`CHECK_DEADLOCK FALSE` is set everywhere: with users and faults used up the
system does come to rest, and that it rests in the right state is what the
liveness properties say.

### Why the bounds are enough

- *Replicas.* All loops of the code treat replicas alike and the properties speak
  of one replica or of two that differ (one formatted, one failed; one lost, one
  to recover from; one terminating, one stuck). One replica is enough for the
  gate, which does not look at replicas at all, and is a case of its own for
  recovery.
- *Sizes.* `SettingsEdited` has int64s of 8 bits, in which 3 GiB are 48 and 1 MiB
  is 4. The limits lie where something changes: too small for one MiB (50), one
  MiB and a rest (54), an explicit grid cache that just fits (64 for 4 MiB) and
  one that just does not (5 MiB), one that no int64 can hold (40 MiB).
  The one whose sum with 3 GiB wraps around (25 MiB) is chosen only without
  `NoHugeGrids`. The theorems hold for all sizes.
- *Retries.* `InitHelperOne` has six faults, two more than a Job needs to fail
  for good: that it does, and that a user brings it back, is part of the run.
- *UIDs.* `Recovery` gives the replicas it starts with a UID each, so `MaxUid` is
  at least the number of replicas (`BoundsAssumption`).
- *Incarnations.* Two clusters of one name show everything a name used again can
  do; a third only repeats it.
- *Faults and user operations.* Safety hazards here need one deletion or crash in
  the middle of a reconcile, sometimes two. The mutants, each a plausible
  mistake in the code, are all found within these bounds, and so are the
  behaviours of section 5. The safety properties of section 4 hold for all bounds
  by proof.
- *Liveness.* Bounded users and faults are what the properties are about: once
  they leave the cluster alone, it settles.

### Fairness

- The work queue has one worker, which runs while the operator does:
  `WF(Reconcile)`. A reconcile is one sequence, so weak fairness of their
  disjunction is all that is assumed.
- Every informer gets its updates in the end: `WF(SyncX)`, or weak fairness of
  all of them together, which assumes less.
- The controllers of Kubernetes, the garbage collector, kubelets, format pods
  and replicas keep going; a command that does not fail ends. The Job controller
  makes format pods only until the `BackoffLimit` is exceeded.
- In `Rollout`, the StatefulSet controller is relied on only to replace a pod that
  is *ready*, because it may not replace one that does not become ready, which is the
  reason for `restartStuckPod`. A pod of a broken template is relied on to report
  its failure in the end (`PodWaits`); one of a silent template does not.
- `Status` assumes nothing of the replicas: they may stay unready for good.
- Users (also those who should delete a failed Job), faults, IPs of others and
  unrelated events (`OtherEvent`) owe nothing. No strong fairness is used.

## 4. What is proved

TLAPS checks every invariant and every action property of the passing runs, and
the refinement of `ReplicaData`, for all values of the constants: any number of
replicas, pods, files, images or templates, and any bounds. A theorem names
the members of `Assumed` (or `Faults`) that it needs; the rest of them are left
open. Each proof has the same shape: an inductive invariant, lemmas that its
parts are kept by each action or group of actions, and a last step that derives
the property. The invariants were checked by TLC on the runs' instances before
they were proved. `PROJECT.json` (`theorems`) lists the results.

### Bootstrap

`BootstrapProofs` uses only the named assumptions of `Bootstrap` (`NAssumption`,
`BoundsAssumption`, `AssumedAssumption`).

- `TypeCorrect`: `Spec => []TypeOK`. `TypeOK` alone is not inductive, since the
  loops index by `scan.k`; `Types` adds that a loop's index is below `N` and that
  no more Jobs were counted than seen.
- `GateIsSound`: `Spec => []GateSound`, from `StatusFirst` and `CaughtUp`, for any
  number of replicas, users' operations, crashes and failed calls, with leftovers of
  older clusters and volumes restored meanwhile. The inductive invariant
  `GateInv` has these parts:
  - `CopiesRecent`: every copy of the cluster is one of the last that was
    created, no marker was ever written for a later one, and a reconcile has a
    copy exactly while it runs. Without it a stale copy could name any cluster.
  - `MarkedWhileBlind`: while some copy in use does not show a completed
    bootstrap, some marker is there. This is the heart of the argument: status
    and markers cover for each other.
  - `GateProgress`: what the live readings so far rule out. The gate asks for
    ConfigMap, StatefulSet and pods one after the other, so each answer has to
    remain true until the last: a marker found absent does not come back while
    the operator, which alone writes ConfigMap and StatefulSet, is at the gate,
    and no pods appear once there is no StatefulSet. The order of the three
    questions matters: asked for pods first, the gate would not be sound.
  - `GateSound` itself.

`BootstrapSafety` builds on `GateInv`. `SafeInv` adds what happens past the gate,
if all of `Assumed` is assumed:

- `MarkersTrue`: until the last cluster's bootstrap is completed nothing, live or
  cached, says that it was. `MarkersCollected` is for this.
- `JobsStayDone`: a Job that the cache shows complete does not run again.
  `JobsCollected` is for this: otherwise the cache may show an older cluster's.
- `FormattingOver`: when the operator may write the marker, no Job is unfinished.
  The loop over the Jobs establishes it one by one, and adoption, which skips the
  loop, only starts where no Job was ever created.
- `BootstrapAlone`: while somebody still acts for a cluster whose bootstrap has
  begun, all claims are its own and no replica has run on what they hold.
  `RestoreFirst` is for this.
- `RanFits`: the history variable fits the volumes.

From it follow

- `FormattingEndsFirst`: `[]NoFormatJobBesideReplicas`;
- `DataIsSafe`: `DataSafe`, the refinement of `ReplicaData`. Most steps map to
  stutters; a format maps to `Format` because of `BootstrapAlone`, and recovery to
  `Recover` because of `RanFits`;
- `BootstrappedTellsTruth`: `[]BootstrappedMeansFormatted`, with `FormattedFits`,
  which follows a file from the Job that made it to the loop that counts it.

TLC refutes the two invariants when `CaughtUp` together with `StatusFirst`, or any
one of the other three assumptions, is taken away (`StatusFirst` alone changes nothing,
since the cache can only know a status that is stored). One property needs much less:

- `ForeignClaimsRefused`: `RefusesForeignPVCs`, from `RestoreFirst` alone. Past
  the gate there is no StatefulSet that could make claims, so those that the
  check has seen stay as they were (`ClaimsKnown`). A stale cache, leftovers of
  older clusters and unsound markers do not matter.

### Init helper

- `HelperTyped`: `[]TypeOK`, for all `Faults`.
- `PowerLossIsSurvived`: `[]SurvivesPowerLoss`, for all `Faults`, overlapping pods
  included. The property exempts one case: a pod has ended between its rename and
  its sync, and nothing has synced the directory since (`unsynced`), because later
  runs find the file and skip `runToFile`. `NamesReachDisk` says how small that case
  is: without failing syncs and without pods that are killed or told to stop, a
  file's name is on disk unless some pod is just about to sync it.
- `RetriesAreClean`: `[]OnlyFaultsFail`, if pods do not overlap. A format pod only
  fails by a fault of its own, never on what an earlier one has left, so the
  `BackoffLimit` is used up by faults alone.
- `PartialFilesNeverLookReal`, `DataIsNeverReplaced`: `[]NeverLooksReal` and
  `NeverReplaced`, if pods do not overlap. `FileInv` says that the `.partial`
  entry is the file of the pod that writes it (`OwnsPartial`), that what has the
  data file's name, or may get it back by a power loss, is whole (`NamesWhole`,
  `DiskBehind`), and that while a file is being made there is none on disk and
  none that was served (`NothingToLose`).

### Recovery

- `RecoveryTyped`: `[]TypeOK`, whatever is assumed. It needs that only replicas
  have pods and that each pod has a UID of its own (`Incarnations`).
- `RecoversOnlyApproved`: `ApprovedOnly`, from `PodsCurrent` and `OneLossEach`.
  `Approvals` follows an approval from the user over the cluster's annotation, the
  cache, the call and the pod's annotation to the kubelet's copy; `Current` says
  that the pod that is annotated is the one that was read, and `SpentIsOver` that
  who has recovered is gone or ready.

### Rollout

- `RolloutTyped`: `[]TypeOK`.
- `UpdatedPodsAreSafe`: `NeverDeletesUpdated`, with no assumption. A copy of a pod
  that has the pod's UID has its revision (`RevKnown`), and a status that has
  observed the template names it as update revision (`UpdateKnown`): so the UID
  precondition and the test of the generations suffice, however old the copies
  are.
- `CurrentImageIsComplete`: `ImageMeansAll`, with no assumption. Once a status has
  counted all pods as updated, new ones have the same template until the
  operator applies another (`CountKnown`).

### Services

- `ServicesTyped`: `[]TypeOK`.
- `PortSwitchesInOrder`: `[]SwitchesInOrder`, with no assumption. The copies of the
  port only move forward (`CopiesInOrder`), and a call's port is not behind any
  Service's (`Forwarded`).
- `AddressesAreKept`: `AddressesKept`, from `StatusSeen`. All that remembers the IP
  of a replica remembers the same one (`OneIP`), and who re-creates a Service
  remembers it (`Recalled`).

### Sizes and Settings

`SizesAssumption` leaves widths, units and the overhead open. `Quotient` and
`Product` are the facts about integers that the solver needs, `NoWrap` says when
`Int64` changes nothing.

- `ParseSizeExact`: the test by division refuses exactly what does not fit.
- `ExplicitExact`, `DerivedExact`: a given grid cache is accepted if and only if it
  fits, unless it `IsHuge`; the derived one is the largest that fits.
- `RefusesTheImpossible`: `GridOf(s) = Refused <=> ~Possible(s)` for every spec,
  which is what `RefusalIsReported` compares the status with.
- `OnlyHugeGridsMisfit`: `[](GridFits \/ IsHuge(template.grid))`, with no
  assumption: the sizes whose sum wraps around are the only ones that get past
  the check. `GridFits` says nothing of where the template comes from; `Written`
  adds that the copies of the cluster hold specs and that the template is what one
  of them is turned into, one that was not refused. `SpecFits` does the rest.
- `GridAlwaysFits`: `[]GridFits`, from `NoHugeGrids`. What the operator derives is
  never one of the huge sizes (`DerivedFits`).
- `SettingsTyped`: `[]TypeOK`.
- `OthersAreKept`: `OthersKept`, from `DeletionSeen`. A Service of others is not
  deleted, and taken over only if it is headless. While the name is somebody
  else's, the cache does not show a Service of the operator's (`OthersKnown`).

### Status

All without assumptions, for any number of edits and faults and copies of any
age:

- `StatusTyped`: `[]TypeOK`. It needs that copies are ordered by age: a reconcile's
  copy is not newer than the cache, which is not newer than what is stored, and
  what is stored is of no generation that the copy does not know (`CopiesOld`).
- `ConditionsAgree`: `[]OneVerdict`, which has no run of its own: `Ready`, `Reconciling`
  and `Stalled` never contradict each other, as they are one field of the patch.
- `HealthyIsSound`: `[]HealthySound`. Conditions are never older than the observed
  generation beside them, and those that look ready are of a
  generation whose rollout was seen complete (`Fresh`), because a reconcile that is
  about to report `Ready` has seen its own complete (`SeenComplete`).
- `HealthIsKept`: `[]HealthKept`, with the exemption of section 5 (`mixed`);
  `Judged` ties the history variable to what is stored.

### What is only model-checked

- All liveness properties (`BootstrapSettles`, `StopsWhenTold`, `EventuallyServes`,
  `WaitingIsReported`, `ApprovalArrives`, `RecoversAlone`, `LossIsReported`,
  `FixArrives`, `LossOfIPIsReported`, `AddressesServed`, `RefusalIsReported`,
  `SettingsFollowed`, `StatusArrives`): liveness under fairness and `ENABLED` are
  out of the prover's reach.
- What the four runs of section 5 find: counterexamples are found, not proved.

## 5. What the assumptions hide

Each member of `Assumed` and `Faults` was taken away in turn. What TLC then
finds is a behaviour of the code:

| Without | TLC finds | Run |
|---|---|---|
| `CaughtUp` (Bootstrap; `StatusFirst` is kept) | Both readings of the gate take `status.bootstrapped` from the cache. If the last marker goes before the cache shows the status, a bootstrapped cluster passes the gate. | `BootstrapStaleCluster` |
| `CaughtUp` and `StatusFirst` | A user removes the last marker before the status is stored: after a crash the cluster looks new, and nothing says otherwise. | - |
| `JobsCollected` | Complete Jobs of a deleted cluster are counted for its successor, which becomes bootstrapped with empty PVCs. | `BootstrapLeftoverJobs` |
| `MarkersCollected` | A ConfigMap, StatefulSet or pod of a deleted cluster makes its successor look bootstrapped. That errs on the safe side for data, but the replicas have nothing to start from. | - |
| `RestoreFirst` | A PVC restored between the ownership check and the creation gets a format Job, because AlreadyExists is ignored. The helper then skips the existing data file. | - |
| one pod at a time (`Faults` without `overlap`) | A format pod that is still terminating shares the `.partial` name with its replacement: an unfinished file can get the data file's name, and a late rename can replace data. | - |
| `PodsCurrent` (Recovery) | The approval is patched onto a pod by name; if the name has been used again, the wrong pod is approved. | `RecoveryStalePod` |
| `OneLossEach` | An approval outlives the recovery it was given for: the same pod, restarted without its data, is still approved. | - |
| `NoHugeGrids` (Settings) | A `cacheGrid` within 3 GiB of 2^63 passes the check against the memory limit, because the sum wraps around (`tigerbeetle.go:124`). | - |
| `DeletionSeen` (Settings) | A user deletes the metrics Service and makes one of the same name; the operator, which still has the old one in its cache, deletes it. | - |
| `StatusSeen` (Services) | A Service deleted before its IP was seen in the status comes back with another address. | - |

The four runs that expect a violation contradict a sentence in the repository
and are listed in `PROJECT.json` under `findings`:

1. `BootstrapStaleCluster`: the comment on `APIReader` says that a stale cache
   can never make a bootstrapped cluster look new.
2. `BootstrapLeftoverJobs`: the field documentation says that `bootstrapped` is
   true once every replica has been formatted.
3. `RecoveryStalePod`: the annotation's comment says that an approval never
   approves the recovery of a later pod.
4. `RolloutStalePods`: the operator's manual says that a stuck pod is deleted only
   while no other replica pod is terminating. Replica 0 fails, the spec is edited,
   the operator lists the pods, the StatefulSet controller begins to replace pod 1,
   and the operator deletes pod 0. The UID precondition does not prevent that, nor
   that a pod is deleted which has become ready since the list. `NeverDeletesUpdated`
   is what the code does keep.
Two rows without a run of their own contradict a sentence too, and show when the
member is taken out of the run's `Assumed`: without `RestoreFirst` `BootstrapOne`
violates `RefusesForeignPVCs` ("It refuses to touch PVCs that this
TigerBeetleCluster did not create", the comment on `bootstrap`), and without
`NoHugeGrids` `SettingsEdited` violates `GridFits` ("An explicit `cacheGrid` must fit
in the limit minus 3 GiB", `docs/deploying.md`).

`BootstrapSettles` and `AddressesServed` exempt, by name, states that the code
does leave to an event or a user: a PVC that vanishes under a Job nobody has
scheduled (`WaitsForEvent`), and a lost IP, which ends the loop over the Services
and leaves deleted Services of higher ordinals uncreated.

Three more liveness properties say less than one might wish, because the code does:

- `EventuallyServes` allows that a format Job fails for good and nobody deletes it
  (`JobFailed`): after four failed pods the operator waits for a user.
- `FixArrives` exempts a pod that runs on an outdated revision, is never ready and
  reports no failure (`Quiet`), and the ready pods below it, which the StatefulSet
  controller replaces only after it. `stuckPod` does not count such a pod as stuck.
- `SettingsFollowed` exempts the metrics Service while the address of somebody
  else's is in its way. `reconcile` then fails at `applyMetricsService` every time, so
  that what comes after it (the deletion of format Jobs, approvals, restarts of
  stuck pods) waits too; the other models leave this out.

`HealthKept` exempts a status that was patched from a copy older than itself
(`mixed`). Without that, TLC finds a failed reconcile that began before the cache
showed the last patch: its conditions carry the old `Ready` and are written, since
`Reconciling` changed, while the phase equals that of the copy and is left as the
last patch made it. `StatusArrives` shows that this does not last.

## 6. What is not modelled

- **Parsing and names** in `internal/tigerbeetle` (`ValidateClusterID`,
  `DataFileName`, `OrdinalFromHostname`, the text of a size): no state, and
  character by character.
- **External replicas**: they are addresses in a list, which change like the
  port does, and part of `replicaCount`.
- **The metrics' port and exporter**: fields of one container and one Service;
  pods are found by the port's name, whatever its number.
- **`copySelf`, `loadConfig`, `main`**, builders' layout, admission rules,
  generated code, packaging, web site: no shared state, or not the operator's.
- **TigerBeetle itself**: it is assumed that `format` and `recover` create their
  file anew and have it on disk when they succeed, that `start` only runs on an
  existing file and that `recover` needs all other replicas.

## 7. Plan

Done, in this order: `ReplicaData` and `Bootstrap` (the data-loss hazards first),
`InitHelper`, `Recovery`, `Rollout`, `Services`, `Status`, types and the gate
proved; then `Services` with the port and the replicas, `Sizes` and `Settings`
with their proofs, signals and restarts in `InitHelper`.

Then the proofs: the safety of `Bootstrap` with the refinement, and the types and
safety properties of all other modules.

Next:

1. The step-wise part of the liveness arguments: invariants that say which wake-up
   is still to come whenever something is left to do (`Recovery`: a pod that waits
   unreported implies that the queue, the cache or a status change is pending;
   `Bootstrap`: the same for unfinished bootstraps).
2. What remains true without the assumptions: which part of `DataSafe` and of
   `ApprovedOnly` holds when each is taken away.
