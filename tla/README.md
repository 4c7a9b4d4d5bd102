# clusterbox in TLA+

clusterbox is a command-line tool that creates small k3s clusters on Hetzner
Cloud, on bare metal or on the local machine, and deploys services and addons to
them.  It is not a server: every command is a process that reads and writes a
local SQLite file (the *registry*), calls the cloud, SSH and kubectl, and ends.
What is hard about it lies between those calls.  Two commands may run at once; a
command starts one goroutine per node; any call may fail and any process may die
between two of them; and what a command leaves behind is what the next one
starts from.  The modules here model that.

`PROJECT.json` lists the runs, the mutants, the theorems, the hazards and, for
every definition that models code, the source lines it stands for.

## The system

| Component | State | Operations | What makes it correct |
|---|---|---|---|
| Registry (`internal/registry/sqlite`) | five tables in `registry.db` | upsert/delete/tombstone a cluster, nodes, deployments, resources, history | unique ids, no orphans, tombstones and history permanent, two active rows of a name only by a race of two inserts, ids that are not reused while somebody holds them |
| Migrations (`internal/registry/migrations`) | `schema_version` | run the missing ones at open | each once, in order, also with a crash or a second process |
| Hetzner provider (`internal/provision/hetzner`) | the cloud project; `cluster_resources` | provision, add/remove a node, reconcile, destroy | inventory = cloud after a reconcile; nothing left running in silence; re-runs converge |
| QEMU provider (`internal/provision/qemu`) | virtual machines, `vm.pid` and `ssh.port` files, `cluster.json` | provision, add/remove a node, destroy | destroy finds every machine of a registered cluster, one machine per node, destroy stops all |
| k3d provider (`internal/provision/k3d`) | containers, a kubeconfig file | provision, destroy | rows and files agree with what runs |
| Bare metal provider (`internal/provision/baremetal`, `nodeinstall`) | a kubeconfig file, a row | upload and run the agent | a row means an installed host; destroy leaves the host as it is |
| Node operations (`cmd/add_node.go`, `remove_node.go`) | goroutines, result channel, node rows | add and remove workers in parallel | cloud, Kubernetes and rows agree; a machine is never taken away under a node |
| Node agent (`internal/node`, `cmd/clusterboxnode`) | files and services on a host | harden, tailscale, k3s; uninstall | idempotent ordered steps |
| Sync and diff (`internal/registry/sync`, `cmd/diff.go`) | none of their own | compare registry with Pulumi client and kubectl, write or report | the stamp means clean, a dry run writes nothing, only `--prune` takes rows away and never on an outage |
| Addons (`internal/addon`) | manifests in the cluster, rows, history | install, upgrade, uninstall | requirements, rows and history tell what happened |
| Deploy (`cmd/deploy.go`) | secret, manifests, rows, history | deploy a release | same |
| Runners (`cmd/runner_*.go`) | scale sets as deployments | add, update, remove | same |
| Client state (`cmd/kubeconfig.go`, `internal/config`) | `~/.kube/config`, `config.yaml` | merge and remove contexts, switch | foreign contexts survive, the active one exists |
| Secrets, Tailscale client, release fetch | none | look-ups | none: a failure is a failed call of the caller |
| Dashboard, list, status, history, doctor | none | read and render | read-only |

They interact through the registry file, which all commands share, through
`~/.kube/config`, which they share with kubectl, through the cloud and the cluster, which the commands of every operator share, and through
callbacks: `Provision` reports each resource to the registry as it is created
(`onCreated`), and `up`, `add-node` and `remove-node` end with the reconcile hook.
Only `AddNode`'s and `removeOneNode`'s goroutines run concurrently inside one
process; they send their results through a channel to the main goroutine, which
alone writes rows.

## Modules

| Module | Models | Run by | Proved in |
|---|---|---|---|
| `Registry` | the writing methods of the SQLite backend, statement by statement | `MCRegistry` | `Registry_proofs` |
| `Migrations` | several processes opening one `registry.db` | `MCMigrations` | `Migrations_proofs` |
| `ForwardOnly` | what the migrations promise (abstract) | refined by `Migrations` | `Migrations_proofs` |
| `HetznerLifecycle` | up, add-node, remove-node, destroy against the cloud and its inventory | `MCHetznerLifecycle` | `HetznerLifecycle_proofs` |
| `NodeOps` | the parallel goroutines of add-node and remove-node | `MCNodeOps` | `NodeOps_proofs` |
| `Sync` | `Reconcile` and `computeDiff` on one cluster, among the other commands | `MCSync` | `Sync_proofs` |
| `Workloads` | addons, deploys and runners on one cluster, their rows and history | `MCWorkloads` | `Workloads_proofs` |
| `NodeAgent` | clusterboxnode on one host and the bare metal provider that runs it | `MCNodeAgent` | |
| `Qemu` | the virtual machines of one QEMU cluster and the files that know them | `MCQemu` | `Qemu_proofs` |
| `ClientState` | the operator's kubeconfigs, contexts and cluster rows under up and destroy with any of the four providers | `MCClientState` | `ClientState_proofs` |

`Migrations` and `Registry` are two halves of the same file: the first ends where a
process holds an open registry, the second begins there.  `HetznerLifecycle`,
`Sync` and `ClientState` use the registry's methods as whole calls.  The workers
that `NodeOps` starts for a Hetzner cluster are the goroutines of `Qemu` for a
local one; there the rows are left to `NodeOps`, and the machines and files are the
subject.

**Registry.** A table is a set of rows; a column no property tells apart is left
out.  A statement autocommits, so it is one step.  A method that resolves the
cluster name first (`clusterID`) and writes second is two steps, `Begin` and a
`...Write`; the client remembers in `call[c]` the id it has resolved.  `listed[c]`
holds resource rows a client got from `ListResources` and may tombstone later.
`Abandon` is a failed statement or the death of the process.  Row ids are what
SQLite gives: the largest plus one for `clusters`, never reused for
`cluster_resources` (AUTOINCREMENT).

**Migrations.** A migration is its number; `schema` is the set of those whose tables
and columns the file has, `version` the row of `schema_version`.  Each statement of
`NewRegistry`, `New`, `apply` and `applyOne` is a step of a process whose binary
`knows` the migrations up to one of `Binaries`.  A script needs exactly the earlier
ones (its CREATE and ALTER fail otherwise) and holds SQLite's write lock until the
commit, or until its process fails or dies and the transaction is rolled back.
`ran` is history, and the state of `ForwardOnly`.

**HetznerLifecycle.** `cloud` is the labelled resources of one cluster, `rows` its
inventory, `job` the running command and where it stands.  Each cloud or registry
call is a step.  `Fault` bounds the calls that fail; `Stop` is a command that
gives up or a process that dies, anywhere.  The registry's methods are the
whole-call versions (one command runs at a time here).  The cloud is modelled
from how the code uses it: names are unique, a resource in use cannot be
deleted.

**Sync.** `nodes` and `deps` are the rows of one cluster, `members` and `live` what
really runs in it, `job` the running sync with everything it has listed.  Each
registry or kubectl call is a step; the other commands (`Others`) take theirs in
between and clear `quiet`.  Production's Pulumi client is the registry itself
(`registryNodeClient`), and so it is here.

**NodeOps.** `servers`, `k8s` and `rows` are the three places that know a worker;
`job[p].th[t]` is goroutine `t` of process `p`.  A worker is named after the
millisecond its goroutine reads.  `used` and `contested` are history: a name is
contested when two goroutines took it or a remove-node was asked for it before
its add-node had ended.

**Workloads.** `rows` is the deployments table (the kind of a service, or none),
`cluster` the objects there, a pass of an addon's strategy being one object.
`proc[p]` is a command at its next call; `last`, `failed`, `lost` and `contested`
are history.  A kubectl call that fails may have done its work.  Where the code
drops an error (a registry write after a rollout, the scale sets inside an
uninstall) the step goes on.

**NodeAgent.** A section of `clusterboxnode install` is a sequence of steps (`put` a
file, `start` a service, append a firewall `rule`, ...); `InstallSteps` is the walk
of one run, harden, tailscale and k3s in the code's order, `disk`, `live`,
`enabled`, `chain` and `saved` what it leaves on the host.  `check` steps are the
early returns: the rest of the section is skipped.  `ctl` is the provider on the
other end of the connection.  A lost connection and the timeout leave the agent
running beside the next one; reboots keep the files and lose what is not enabled.

**Qemu.** `vms` are the running machines, `files[n]` the directory of node `n` with
its `ssh.port` and `vm.pid`, `json` the file `cluster.json`.  A machine's port and
process id are one number.  `up` and `destroy` are one goroutine, `add-node` one per
worker; the mutex around `cluster.json` is a step that cannot be interleaved in
one process and can between two.  The commands handle no signal, so Ctrl-C is
`Crash`, like a death.

**ClientState.** `world[c][prov]` is what a provider really runs of a cluster, `file[c]`
the cluster's own kubeconfig, `kc` the shared one with its current context, `row` the
registry, `config` the contexts of `config.yaml`.  Reading a shared file, truncating
and writing it are steps of their own.  The four providers take the steps in which they
differ to the operator's machine: what a re-run of `up` reuses (a k3d cluster, servers
found by name, an installed host) or kills (QEMU's old machine); who writes the row and
when (Hetzner's Provision before it creates anything, bare metal's after the install, and
`up` for all of them); whether `~/.kube/config` is merged into (not for k3d); and what
Destroy does: k3d and QEMU delete the cluster and its kubeconfig file, Hetzner's sweep
leaves the file and, with a warning, what the cloud refuses to delete (`left`), and bare
metal's does nothing at all.  What those providers do in the cloud, on a host and with
virtual machines is the subject of `HetznerLifecycle`, `NodeAgent` and `Qemu`; workers
joined after the first node are not here, and neither are the steps of `up` after the
merge (default addons, GHCR secret, manifests).  A bare-metal name has one host.

## What the runs show

| Run | Properties | Result |
|---|---|---|
| `registry` | `TypeOK`, `Integrity`, `ListedRowsStable`, `DuplicatesWereRaced`, `TombstonesPermanent`, `HistoryAppendOnly` | hold for two processes whose statements interleave, both of which upsert clusters |
| `migrations` | `TypeOK`, `SchemaMatchesVersion`, `OpenHasSchema`, `MigratesForward` (refinement), `NobodyStuckHalfway` (liveness) | hold for three processes of two binaries, with a failure or a death |
| `hetzner` | `TypeOK`, `ReconcileExact`, `NothingLeftSilently`, `SweepRespectsUse`, `TombstoneOnlyGone` | hold with three failed calls or crashes anywhere |
| `hetzner_volume` | `VolumeAttached` | violated: a volume created by a run that died before attaching it is never attached |
| `sync` | `TypeOK`, `StampMeansClean`, `DryRunMatchesDiff`, `SyncLosesNothing` | hold with other commands between any two calls |
| `nodeops` | `TypeOK`, `AddedEverywhere`, `RemovedEverywhere`, `RemovalOrder` | hold for names of their own, with failures, retries and two processes |
| `workloads` | `TypeOK`, `SuccessMeansAgreement`, `AuditTrail`, `SecretLossReported`, `RunnersHaveController` | hold for two processes, with a failed call or a death |
| `workloads_runners` | `RunnersRemovedFirst` | violated by one process and no failure: uninstall looks for scale sets in the wrong namespace |
| `nodeagent` | `TypeOK`, `TailnetNotDropped`, `RowMeansInstalled`, `SuccessMeansInEffect` | hold for two agents on one host, a failure, a lost connection or a reboot |
| `nodeagent_rerun` | `RerunConverges` | violated: a section that was cut after writing the file it checks is skipped by every later run |
| `qemu` | `TypeOK`, `NoOrphans`, `OneMachinePerNode`, `DestroyStopsAll` | hold for two processes with two goroutines, with a failure or a kill |
| `clientstate` | `TypeOK`, `KubeconfigAgrees`, `RegistryAgrees` | hold for two processes and kubectl beside them, clusters of all four providers, with a failure or a kill |

Every property of a passing run has a mutant, an operator next to the definition
it changes, that breaks it.

### What the properties exempt

An exemption names something that really happens, and the history variable that
records it makes the exemption as small as it can be:

* `Registry`: `raced` names, whose insert two clients had set out to do at once: both had
  looked the name up and found no active row before either INSERT.  Only those may have two
  active rows; `OneActivePerName` is the same without the exemption, and does not hold.
* `Sync`: names that two Deployment objects share (`Shared`): the last object writes
  the row, so diff may still see the other one differ.
* `Workloads`: `lost` (a record could not be written, or its process died) and
  `contested` (two processes on one service).
* `NodeAgent`: `SuccessMeansInEffect` speaks of runs that were `alone` on the host,
  and not of sections that were `cut`; `nodeagent_rerun` is the same without the
  second exemption.
* `Qemu`: `NoOrphans` speaks of a cluster with an active row, since destroy refuses any
  other; `DestroyReachesAll` is the claim without that condition, and does not hold.  `excused` machines are
  those a command lost by working on a cluster that another run had left behind or was
  using: `up` over an existing state directory, a launch during another process's destroy
  or failing `up`, a worker that came in the place of one being removed.  So is the machine
  of a command that was killed after the launch while its directory still had the
  `vm.pid` of an earlier machine (`Strays`): destroy trusts the stale file and does not
  look at the port.
  `contested` indices were taken by two processes that lost each other's update of
  `cluster.json`, or were in use when a re-run of `up` started them over; index 0, the
  control plane, is contested when two `up`s run at once.
* `ClientState`: `unsettled` clusters had a last command that failed or died; `tangled`
  ones were brought up with two providers under one name, by two commands at once, or had
  a command that only warned about the row or one of the files; `resized` ones were
  brought up again in another size, for which the row takes the new size and k3d keeps the
  old; `clobbered` entries were lost to an overlapping or interrupted write.  Without an
  active row a bare-metal host may run on, and so may the machines of a cluster whose last
  Hetzner sweep warned (`left`); with one, such a machine may run beside the cluster that
  the row names.  `DestroyTearsDown` and `SweepCanBeRerun` are the claims without these two
  exceptions, and do not hold.

### Bounds

Every counter that would grow for ever has a bound named `Max...` in the guards;
deadlock checking is off because a behaviour ends at its bounds (and because a
command-line tool may simply not be started again).

* `registry`: 2 clients, 2 names, 2 cluster ids, 2 resource ids, 8 calls.  Two
  cluster ids are a lifetime and its successor; 8 calls cover create, fill, list,
  tombstone, recreate, and the tombstoning of a row listed before.  `Names` and
  `Times` are symmetric: they are only compared.
* `migrations`: 3 processes, 4 migrations, binaries that ship 3 and 4, 4 opens, 1
  fault: a winner, a loser and a late comer of another age, and a re-open.  No
  symmetry, because a liveness property is checked.
* `hetzner`: one control plane, one worker, 4 commands, 3 faults: up that dies, up
  again, add-node, destroy, with a failure in each.  A second worker adds no kind
  of resource and no dependency between types.
* `sync`: 2 hosts, 2 services, 2 versions, 3 steps of other commands, 1 fault, 2
  syncs, from an empty registry or from a recorded cluster of one node: a second
  sync starts from what a first, interrupted one wrote.  `Hosts`
  and `Versions` are symmetric.  `Workloads` are ordered (kubectl's list) and are
  not.
* `nodeops`: 2 processes with 2 goroutines, 2 names, 3 commands, 1 fault: an add, a
  remove that fails or races, and its retry.  `Procs` and `Threads` are symmetric.
  A name taken in the last millisecond of the bound could not join, so none is.
* `workloads`: 2 processes, the runner addon, a staged addon that requires it, one
  app, one runner, 4 commands, 1 fault: an install, a dependant, an uninstall that
  races, and what follows.
* `nodeagent`: 2 agents, 3 runs, 1 fault, on an Ubuntu server and on a Flatcar worker:
  a run that is left behind, one beside it and one after both.
* `qemu`: 2 processes with 2 goroutines, workers 1 and 2, 3 machines, 3 commands, 1
  fault: up, two add-nodes at once (or one with two workers), destroy.
* `clientstate`: 2 processes, 2 clusters, an entry of somebody else, 2 contexts, all
  four providers, k3d sizes 1 and 2, 2 lifetimes, 3 commands, 1 fault: a cluster is brought
  up, destroyed and brought up again with another provider, or two clusters side by side.
  One cluster with 5 commands and 2 faults was explored too, for some 6 million states and
  not to the end; the theorems cover the rest.

### Fairness

`Migrations` has a fair specification, `FairSpec`: weak fairness of each process's
next statement.  It is what the code gives: the operating system runs a process
that is not killed, every statement ends by itself or by SQLite's busy timeout
(which is a fault), and no step waits for a person.  Under it a process that starts to migrate leads to a
file at a version some binary ships, unless a call failed.
Opening is not started fairly, nor are deaths: nothing in the code promises them.
No other run assumes fairness: a command is started by a person, and nothing in
the code starts one again.

## Disagreements between the code and its documents

Checked by a run (`PROJECT.json` "findings" has the quotations):

* `hetzner_volume`: a volume is attached only by the run that created it;
  `internal/provision/hetzner/stack.go:255` says "an existing volume is already attached".
* `workloads_runners`: scale sets are removed in a namespace they are not in
  (`cmd/addon_uninstall.go:188`); `:61-63` says they are "removed before the addon is
  uninstalled".
* `nodeagent_rerun`: a half-installed section is skipped by every later run
  (`internal/node/k3s/k3s.go:271`); `internal/provision/baremetal/baremetal.go:119-121` says
  "Re-running against the same host converges".

Stated in the modules next to what does hold.  Each of these is an invariant that TLC
refutes when it is put into the configuration of the module's passing run:

* `OneActivePerName` (`Registry`, beside `DuplicatesWereRaced`): `UpsertCluster` reads and
  inserts without a transaction (`sqlite.go:119`), so two at once leave two active rows;
  `internal/registry/registry.go:22-26` says "safe to call concurrently from multiple
  goroutines" and "using Name as the key".
* `DeleteTakesHistory` (`Registry`, beside `HistoryAppendOnly`):
  `internal/registry/registry.go:37-39` says that `DeleteCluster` removes "any rows that
  reference it (nodes, deployments, history)"; the SQLite backend keeps the history, as
  its own comment (`sqlite.go:247-250`) and `docs/registry.md:66` say.
* `HistoryNamesItsLifetime` (`Registry`): `clusters.id` has no AUTOINCREMENT, so the id of a
  row that `DeleteCluster` removed goes to the next cluster while the history keeps it;
  `internal/registry/types.go:56-58` says "Each cluster lifetime gets a unique ID".
* `PruneRemovesServices` (`Sync`, beside `SyncLosesNothing`): `docs/registry.md:116` says
  "Retain the row unless `--prune`" and `internal/registry/sync/sync.go:78-79` that `--prune`
  deletes the rows of services absent from kubectl (also `:99-102`); the code flags
  them with `--prune` as without (`sync.go:344`).
* `DestroyReachesAll` (`Qemu`, beside `NoOrphans`): a first `up` that is killed after it
  launched its machine has written no row, and destroy refuses to look without an active
  one (`cmd/destroy.go:145-152`); a re-run of `up` stops the machine by `vm.pid` only
  (`internal/provision/qemu/provider.go:115`).  The comments on the fallback to the port say
  that it serves when "Provision failed before writing it" (`provider.go:1023-1025`) "so
  orphaned QEMU processes don't leak" (`:518-519`).
* `DestroyTearsDown` (`ClientState`, beside `RegistryAgrees`): bare metal's Destroy returns
  nil without touching the host (`internal/provision/baremetal/baremetal.go:292`, whose
  comment calls it "intentionally minimal") and the row is marked destroyed;
  the interface says "tears down every resource the provider created"
  (`internal/provision/provider.go:40`).
* `SweepCanBeRerun` (`ClientState`): `docs/USER_GUIDE.md:348` says "if the sweep itself errors,
  re-run `destroy` (it's idempotent)" and `internal/provision/provider.go:41` "a re-run after
  partial failure"; the errors are warnings
  (`internal/provision/hetzner/provider.go:432`), the row is marked destroyed in spite of
  them and the re-run has "nothing to do" (`cmd/destroy.go:149`).

Other properties of the modules that do not hold, or what was met while modelling:

* `RerunConverges` (`HetznerLifecycle`): the same in the cloud's terms; after a failed
  delete the row is tombstoned and the cluster marked destroyed;
  `internal/provision/hetzner/provider.go:405-406` says "tombstone the row regardless so a
  re-run converges".
* `InventoryBetweenCommands` (`HetznerLifecycle`): remove-node's handler has no token
  and skips the reconcile hook; `docs/security.md:13` says it runs "after every
  cluster-mutating operation".
* `AddNodeDelivers` (`NodeOps`): two goroutines of `add-node --count 2` that read the
  same millisecond share a name and a server; `README.md:175-176` says "`--count` adds
  multiple workers in parallel".
* `SyncRecoversNodes` (`Sync`): node rows are compared with themselves;
  `docs/registry.md:89` says "`clusterbox sync` is the recovery path".
* `DryRunMatchesDiff` (`Sync`) needs services whose Deployment objects have names of
  their own: with two objects of one name sync counts two and diff lists one;
  `internal/registry/sync/sync.go:6-10` says the output is "guaranteed to match".
* `cmd/kubeconfig.go:11-13` promises that unknown fields of a kubeconfig survive; only the
  fields the structs name do.
* `cmd/addon_install.go:67` says a failure writes no row; a history entry that cannot be
  written after the row was is such a failure.  A failing `buildInstaller` leaves no
  history at all, and an addon whose install failed half-way has no row and cannot be
  uninstalled.
* Hardening raises the firewall, which lets SSH in from the tailnet only, before
  Tailscale joins (`internal/node/install/install.go:187`), and uninstall removes
  Tailscale and leaves the firewall (`harden`'s Remove does nothing).  On Flatcar a
  run that allows ICMP after one that did not appends its rule after the one that
  drops all (`ufw.go:180`).
* `up --provider k3d` and `up --provider qemu` share the default name `local`
  (`cmd/up.go:102`): the second takes over the row of the first, which destroy can then
  no longer reach.

## What is proved

`Registry_proofs` proves, for any clients, names, rows and bounds:

* `TypeCorrect`: `TypeOK` is invariant.
* `Inductive`: `IInv == TypeOK /\ Integrity /\ IdsBelowSeq /\ ListedRowsStable` is.
  `Integrity` is not inductive alone: a new resource row is distinct from the
  present ones only because the AUTOINCREMENT mark is above all their ids
  (`IdsBelowSeq`, which also covers the ids clients have listed), and
  a write to a row keeps it unique only because ids were.
* `IntegrityHolds`, `ListedIdsStable`: the two invariants, from `Inductive`.
* `TombstonesFinal`, `HistoryKept`: the two action properties, one step of the
  proof per action.
* `OnlyRacesDuplicate`: `DuplicatesWereRaced`, for any number of clients that all upsert:
  a name gets two active rows only by two look-ups that found none before either INSERT.
  The invariant `UInv` adds that the one insert under way for a name that is not raced
  has found no active row, and that this is still so; it needs ids that are unique, which
  is `Inductive`.

`Migrations_proofs` proves, for any processes, binaries and number of migrations:

* `OpeningInvariant`: `IInv` is inductive.  `SchemaMatchesVersion` alone is not: that
  a commit adds the migration after the last one rests on what the script found when it
  ran, and on nobody else committing since, which is `LockHeld` (a process that is
  about to commit holds the lock) with `Progress` (what a process has seen is still
  true).  `PrefixLength` is the one arithmetic lemma: `1 .. a = 1 .. b` determines `a`.
* `OpeningTypes`, `SchemaFollowsVersion`, `OpenRegistryUsable`: the three invariants.
* `OpeningMigratesForward`: every initial state and step of `Migrations` is one of
  `ForwardOnly`, or a stutter.

`NodeOps_proofs` proves, for any processes and goroutines, any faults and any length
of run:

* `NodeOpsInvariant`: `IInv` is inductive.  It adds to `TypeOK` where a goroutine is in
  its command (`Placed`), that every server, node and row has a name some add-node took
  (`NamesUsed`), what an uncontested goroutine has achieved when it reaches its next
  call (`Achieved`), that a success is announced only on good results (`Finished`), and
  `Apart`: a name that an add-node and a remove-node both work on is contested.
  `RemovalOrder` rests on all of them: that the row goes last is a fact about the
  server deleted two steps earlier, which stays true only because no add-node can
  recreate it meanwhile, and that is `Apart`.
* `NodeOpsTypes`, `AddedWorkersThere`, `RemovedWorkersGone`: the three invariants.
* `WorkersLeaveInOrder`: the action property, from the invariant of the state it leaves.

`HetznerLifecycle_proofs` proves, for any workers, commands, failed calls and crashes:

* `LifecycleInvariant`: `IInv` is inductive.  External ids and row ids are identities
  (`ResourceIds`, `RowIds`) and of one type on both sides (`SameTypes`); a reconciler
  that has come to type `k` has made the earlier types agree and is about to write
  exactly what is missing of this one (`Walk`); and a sweep that was not warned has a row
  for whatever is left in the cloud (`Sweep`).  `ReconcileExact` and `NothingLeftSilently`
  speak of the end of a command; the invariant is what carries them there: the sweep may
  trust its rows only because the reconcile just before it did not fail.
* `LifecycleTypes`, `ReconcilesExactly`, `DestroyLeavesNothing`, `SweepInOrder`: the four
  invariants.
* `OnlyGoneTombstoned`: the action property, from `Walk`: what the reconciler tombstones
  it has not found in the cloud, and nothing creates a resource of that id again.

`Sync_proofs` proves, for any hosts, services and Deployment objects, with any steps of
the other commands in between:

* `SyncInvariant`: `IInv` is inductive.  While nothing else has run (`quiet`) the node pass
  compares the rows with themselves (`NodePass`), and the loop over the deployments knows
  of the objects it is through with that their rows are what kubectl listed, and of the
  others that they are as they were (`DeploymentPass`, by `Agrees` and `Counted`).  The
  summary's counters start at zero (`Counts`).
* `SyncTypes`, `StampIsClean`, `DryRunIsDiff`: the three invariants.  That a dry run counts
  what diff lists is an equality of a counter and a cardinality, kept by every turn of the
  loop; it is why the sets must be finite and why shared names are exempt.
* `NothingIsLost`: the action property, one case per call of a sync: a row is only taken
  away by the calls that `--prune` reaches, and node rows by none while the sync is alone,
  which is `NodePass`.

`Workloads_proofs` proves, for any addons with any strategies and requirements, any apps,
runners and processes, and any number of failed calls and deaths:

* `WorkloadsInvariant`: `IInv` is inductive.  It adds to `TypeOK` which steps a command can
  be at (`Course`), what it has told the history by then (`Tale`), that two commands on one
  service contest it (`Apart`), what a command has achieved for a service it has to itself
  (`Claim`, one part per command: the passes that are still to come, the runners that are
  still to go), and who watches over the secret of a deployed app (`SecretWatched`).
  The proof is a frame argument.  A step of a command (`Advance`) leaves alone what the
  command does not work on, so the others keep their claims (`KeepsClaim`); a step proves
  only its own.  Two claims reach across: runner add counts on the row of the runner
  addon, which only an uninstall of that addon takes away, and that uninstall works on
  every runner, so it contests the add.  `SecretLossReported` needs no exemption for
  contested services: of two deploys that interleave their delete and create of one
  secret, the one that leaves none is still to create it, or has failed.
* `SuccessIsAgreement`, `HistoryTells`, `SecretLossTold`, `RunnersKeepController`: the four
  invariants the run checks besides its type invariant.  The types follow as well
  (`WorkloadsTypes`, a lemma), and say less: that a row keeps its kind is `NamesApart`, an
  assumption that deploy and addon install do not enforce.

`ClientState_proofs` proves, for any processes, clusters, contexts, k3d sizes and any of
the four providers, wherever a command fails, warns or dies:

* `FilesInvariant`: `IInv` is inductive.  `KubeconfigAgrees` speaks of clusters whose last
  command went through, and says nothing of a write under way; the invariant speaks of
  `Led(n)`, what the entry of a name will be once that write is done (truncating the file
  empties it, so the entry itself tells nothing), and of what each step of `up` and
  `destroy` has achieved for a cluster it has to itself (`UpDone`, `DestroyDone`, in
  `Known`): after Hetzner's and bare metal's Destroy that is not that nothing runs, but
  that nothing does which is not one of the two exceptions (`AllGone`, by `Outlives`).
  `Workers` is why it has it to itself: a second command on the cluster tangles
  it.  `Traced` is what stays true of a cluster after a command failed, that an active row
  knows the provider of all that is there, the exceptions apart, and that a k3d cluster has
  no entry; the next command starts from it.
* `TypeCorrect`, `KubeconfigTrue`, `RegistryTrue`: the three invariants.  Of the cluster's
  own kubeconfig the second says that it leads to what an active row names, and that it is
  gone after a destroy with k3d or QEMU; after one with Hetzner or bare metal it is still
  there, and nothing is said.

`Qemu_proofs` proves, for any processes, goroutines, worker indices and machines, wherever
a command fails or dies:

* `MachinesInvariant`: `IInv` is inductive.  The machine numbers that goroutines and `up`s
  have in hand are distinct and not yet running before the launch (`Tickets`, `Distinct`).
  An index that is not contested is one goroutine's and has no older machine or directory
  (`Owned`), because indices are taken in order by whoever wrote `cluster.json` last
  (`Ordered`): this is where the mutex and the save before the launch are needed.  Only one
  `up` is past its first step unless 0 is contested (`ControlPlane`).  Every machine
  is found through its node's files (`Known`), through `vm.pid` once it has joined
  (`Recorded`), and a destroy that has passed a node has stopped what it saw there
  (`Stopped`).
* `TypeCorrect`, `RegisteredMachinesFound`, `OneMachine`, `AllStopped`: the four invariants.
  `RegisteredMachinesFound` (`NoOrphans`) is about destroy, so it speaks of a cluster with an
  active row.  The
  attempt to prove `OneMachinePerNode` found its exemptions incomplete, in behaviours the
  run's bounds do not reach: with a fourth machine, an `up` of one process starts the
  indices over while a goroutine of another holds one whose directory is not made yet, and
  two machines boot as one worker.  The history variables now record that and
  three other overlaps of two or three commands: a `cluster.json` brought back by a
  goroutine after its removal, a worker that takes the place of one being removed
  (`RemoveInfra`), a destroy that removes the files of a control plane just being launched
  (`RemoveFiles`).

The inductive invariants of the last five modules were checked by TLC
on small instances before they were proved.

The assumptions are those on the constants, which TLC evaluates in the runs:

* `RegistryAssumption`, `NodeOpsAssumption`, `HetznerAssumption`, `WorkloadsAssumption`:
  types of the constants (and that there are finitely many runner names, so that a list
  of them exists);
* `ClientStateAssumption`, `QemuAssumption`: types of the constants, that the marks for
  "none" (`None`, `NULL`) and the foreign entry are no process's, cluster's or context's
  name, and that the bound on machines allows one;
* `MigrationsAssumption`: also that a binary ships a migration;
* `SyncAssumption`: also that hosts, services and objects are finite and that `NULL`
  is no row;
* `NamesApart` (`Workloads`): an app, an addon and a runner have names of their own.
  The table has one row per name and runner add refuses a taken one, but deploy and
  addon install do not; see Limits.

Only model-checked, on the instances above: the invariants and the action property of
`NodeAgent`, and `NobodyStuckHalfway`.  Liveness and ENABLED are out of the prover's reach.
What an agent still has to do is a filtered concatenation of the sections' step lists
(`InstallSteps`, with `SelectSeq`), so that an invariant about it needs induction over that
list, which the prover cannot do either.

## Limits

* The columns of a cluster row but its provider (in `ClientState`) are in no module, so
  that Hetzner's early upsert blanks the kubeconfig path on a re-run is only listed as a
  hazard.
* `HetznerLifecycle` runs one command at a time; concurrent `up`s are in `Registry`
  (rows), `NodeOps` (servers) and `Qemu` (machines) only.
* `NodeOps` says nothing of contested names except that they exist: a remove-node
  that overtakes the add-node of its worker leaves a row for good.
* Load balancers, DNS, SSH keys and Tailscale devices are fetched by the
  reconciler but created by nothing in this code; they are left out.
* `Workloads` gives apps, addons and runners names of their own (`NamesApart`).  An app
  that is deployed under an addon's name, or the other way round, takes over its row
  and changes its kind.
* `Workloads` runs no sync beside its commands, so the kind a sync drops is not seen
  there; of a pass only the presence counts, not its version; the installs that `up`
  does at its end, whose errors are warnings, are ordinary installs.
* `NodeAgent`: the package manager may start a service before its configuration is
  written; the files uploaded to /tmp are left out; what a written file means to the
  host is not modelled.
* `Qemu`: its run has three machines, and a fourth does not finish beside two workers; what
  needs more is covered by the theorems only.  Process ids and ports are never reused, so a stale `vm.pid` cannot name an
  innocent process here, while in the code it can.
* `ClientState`: fields of a kubeconfig other than its entries are left out; a QEMU cluster
  is one machine there and a Hetzner cluster one control plane, so that node rows other than
  k3d's are the first node's; Hetzner's sweep fails or succeeds as a whole.

## Not modelled

* Secrets backends, the Tailscale client and release downloads keep no state: a
  failure is a failed call of the command that needs them.
* The dashboard, list, status, history and doctor only read and render.
* Cloud-init and manifest templates, the catalog's parsing, the image and k3d
  binary downloads, prompts and output: rendering and plain I/O.
* `runner update` and `runner kick` patch or delete objects of a running controller
  and touch neither rows nor history.

## Plan

1. An abstract `Inventory` (live resources and the set believed live, made equal by one
   step) that `HetznerLifecycle`'s reconcile implements, and an abstract keyed table that
   `Registry` with one client implements, by `INSTANCE ... WITH`.
2. `HetznerLifecycle` with two commands at once: the reconciler beside an `up`.
3. `TailnetNotDropped` and `RowMeansInstalled` of `NodeAgent` for any step lists, once the
   walk is stated without a filtered list.
4. Liveness of single commands (a started command ends) under weak fairness of its
   steps.
