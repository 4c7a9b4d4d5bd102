------------------------------ MODULE Workloads ------------------------------
(***************************************************************************)
(* What runs on one cluster and what the registry says of it: addon        *)
(* install, upgrade and uninstall, service deploy, and runner add and      *)
(* remove, call by call, in processes that know nothing of each other.     *)
(*                                                                         *)
(* An addon's manifests reach the cluster in passes; of a pass only its    *)
(* presence counts, not its version.  A call of kubectl or of the registry *)
(* that fails is a fault; a failed kubectl call may have done its work.    *)
(***************************************************************************)
EXTENDS Naturals, Sequences, FiniteSets, SequencesExt

CONSTANTS
  Procs,
  Addons,       \* the catalog
  Strategy,     \* [Addons -> {"manifests", "helmchart", "staged"}]
  Requires,     \* [Addons -> SUBSET Addons]
  Gha,          \* the addon gha-runner-scale-set
  Apps,         \* services that deploy knows
  Runners,      \* names of runner scale sets
  MaxCommands,  \* bound: commands started
  MaxFaults     \* bound: failed calls and deaths

ASSUME WorkloadsAssumption ==
  /\ MaxCommands \in Nat /\ MaxFaults \in Nat
  /\ Gha \in Addons /\ Strategy[Gha] = "helmchart"
  /\ Strategy \in [Addons -> {"manifests", "helmchart", "staged"}]
  /\ Requires \in [Addons -> SUBSET Addons]
  /\ IsFiniteSet(Runners)

\* A service has one row, whatever it is: names of one kind are not names of
\* another.
ASSUME NamesApart ==
  Addons \cap Apps = {} /\ Addons \cap Runners = {} /\ Apps \cap Runners = {}

Services == Addons \cup Apps \cup Runners

VARIABLES
  rows,      \* the deployments table: service -> kind, "" without a row
  cluster,   \* what is on the cluster: <<service, part>>
  proc,      \* the command of each process
  last,      \* history: how the last finished command on a service ended
  failed,    \* history: services with a command that ended in failure
  lost,      \* history: services a process died on, or whose record got lost
  contested, \* history: services two processes have worked on at once
  commands, faults

ghosts == <<last, failed, lost, contested>>
vars == <<rows, cluster, proc, last, failed, lost, contested, commands, faults>>

\* cmd:   the command, "" when idle;   svc: what it is about
\* at:    the call it makes next;      todo: passes or runners still to do
\* told:  the history entry it wrote;  err: it returns an error
Idle == [cmd |-> "", svc |-> Gha, at |-> "", todo |-> << >>, told |-> "", err |-> FALSE]

Modes == {"file", "full"}

\* applyManifests: the passes of a strategy.  A staged addon starts with the
\* common files; a mode with operators waits for their helm jobs.
Passes(a, mode) ==
  CASE Strategy[a] = "manifests" -> <<"all">>
    [] Strategy[a] = "helmchart" -> <<"supporting", "chart">>
    [] Strategy[a] = "staged" ->
         IF mode = "full" THEN <<"common", "operators", "wait", "instances">>
                          ELSE <<"common", "mode">>

\* What the passes leave on the cluster.
Objects(a, mode) ==
  {<<a, Passes(a, mode)[i]>> : i \in 1 .. Len(Passes(a, mode))} \ {<<a, "wait">>}

AllObjects(a) == UNION {Objects(a, m) : m \in Modes}

\* The namespace arc-runners is among Gha's supporting manifests, and what is
\* in it goes with it.
InNamespace == {<<r, "set">> : r \in Runners}
DeletedWith(a) == AllObjects(a) \cup (IF a = Gha THEN InNamespace ELSE {})

Has(s) == rows[s] # ""

\* The services a command writes to.
Touches(cmd, s) == IF cmd = "uninstall" /\ s = Gha THEN {s} \cup Runners ELSE {s}
WorkedOn(p) == IF proc[p].cmd = "" THEN {} ELSE Touches(proc[p].cmd, proc[p].svc)

-----------------------------------------------------------------------------
(* Steps. *)

Goto(p, at) == proc' = [proc EXCEPT ![p].at = at]
NoFault == UNCHANGED faults
Fault == faults < MaxFaults /\ faults' = faults + 1

\* Err(p, at): the command fails and goes on at `at'.
Err(p, at) == proc' = [proc EXCEPT ![p].at = at, ![p].err = TRUE]

At(p, cmd, at) == proc[p].cmd = cmd /\ proc[p].at = at

Start(p, cmd, s, at) ==
  /\ proc[p].cmd = ""
  /\ commands < MaxCommands /\ commands' = commands + 1
  /\ proc' = [proc EXCEPT ![p] = [Idle EXCEPT !.cmd = cmd, !.svc = s, !.at = at]]
  /\ contested' = contested \cup
       (Touches(cmd, s) \cap UNION {WorkedOn(q) : q \in Procs})
  /\ UNCHANGED <<rows, cluster, last, failed, lost, faults>>

\* The registry's deployments table; a failed write is lost.
WriteRow(p, kind) ==
  \/ rows' = [rows EXCEPT ![proc[p].svc] = kind] /\ UNCHANGED lost /\ NoFault
  \/ UNCHANGED rows /\ lost' = lost \cup {proc[p].svc} /\ Fault

\* AppendHistory.
WriteHistory(p, status, at) ==
  \/ /\ proc' = [proc EXCEPT ![p].at = at, ![p].told = status]
     /\ UNCHANGED lost /\ NoFault
  \/ Goto(p, at) /\ lost' = lost \cup {proc[p].svc} /\ Fault

-----------------------------------------------------------------------------
(* Installer.Install; Upgrade is the same call. *)

StartInstall(p) == \E a \in Addons : Start(p, "install", a, "build")

\* buildInstaller: the catalog, the registry and the secrets backend.  Without
\* them the command ends before it has anything to write to.
BuildInstaller(p) ==
  /\ proc[p].at = "build"
  /\ (Goto(p, "lookup") /\ NoFault) \/ (Err(p, "unbuilt") /\ Fault)
  /\ UNCHANGED <<rows, cluster, ghosts, commands>>

\* The addon is looked up in the catalog and the cluster in the registry.
InstallLookup(p) ==
  /\ At(p, "install", "lookup")
  /\ (Goto(p, "secrets") /\ NoFault) \/ (Err(p, "recordfailure") /\ Fault)
  /\ UNCHANGED <<rows, cluster, ghosts, commands>>

\* A backend that fails and a required secret that is missing end it alike.
ResolveSecrets(p) ==
  /\ At(p, "install", "secrets")
  /\ (Goto(p, "requires") /\ NoFault) \/ (Err(p, "recordfailure") /\ Fault)
  /\ UNCHANGED <<rows, cluster, ghosts, commands>>

\* Every required addon has a row of kind addon; then the mode is chosen.
CheckRequires(p) ==
  /\ At(p, "install", "requires")
  /\ LET a == proc[p].svc
         ready == \A r \in Requires[a] : rows[r] = "addon"
     IN \/ /\ ready /\ NoFault
           /\ \E m \in Modes :
                proc' = [proc EXCEPT ![p].at = "apply", ![p].todo = Passes(a, m)]
        \/ ~ready /\ Err(p, "recordfailure") /\ NoFault
        \/ Err(p, "recordfailure") /\ Fault
  /\ UNCHANGED <<rows, cluster, ghosts, commands>>

\* applyManifestSet and pollHelmChartJobs: one kubectl call for each pass.
InstallPass(p) ==
  /\ At(p, "install", "apply") /\ proc[p].todo # << >>
  /\ LET a == proc[p].svc
         pass == Head(proc[p].todo)
         applied == cluster \cup (IF pass = "wait" THEN {} ELSE {<<a, pass>>})
     IN \/ /\ cluster' = applied /\ NoFault
           /\ proc' = [proc EXCEPT ![p].todo = Tail(@)]
        \/ cluster' \in {cluster, applied} /\ Err(p, "recordfailure") /\ Fault
  /\ UNCHANGED <<rows, ghosts, commands>>

\* recordSuccess: the row, then the history; the first error is returned.
InstallRecord(p) ==
  /\ At(p, "install", "apply") /\ proc[p].todo = << >>
  /\ WriteRow(p, "addon")
  /\ IF faults' > faults THEN Err(p, "done") ELSE Goto(p, "history")
  /\ UNCHANGED <<cluster, last, failed, contested, commands>>

InstallHistory(p) ==
  /\ At(p, "install", "history")
  /\ \/ /\ proc' = [proc EXCEPT ![p].at = "done", ![p].told = "rolled_out"]
        /\ UNCHANGED lost /\ NoFault
     \/ Err(p, "done") /\ lost' = lost \cup {proc[p].svc} /\ Fault
  /\ UNCHANGED <<rows, cluster, last, failed, contested, commands>>

\* recordFailure and recordDeployFailure: the row stays as it was.
RecordFailure(p) ==
  /\ proc[p].at = "recordfailure"
  /\ WriteHistory(p, "failed", "done")
  /\ UNCHANGED <<rows, cluster, last, failed, contested, commands>>

-----------------------------------------------------------------------------
(* addon uninstall. *)

\* Mutant: the row goes before the runners and the manifests do.
StartUninstallRowFirst(p) ==
  \E a \in Addons :
    /\ proc[p].cmd = ""
    /\ commands < MaxCommands /\ commands' = commands + 1
    /\ proc' = [proc EXCEPT ![p] = [Idle EXCEPT !.cmd = "uninstall", !.svc = a, !.at = "delete"]]
    /\ contested' = contested \cup
         (Touches("uninstall", a) \cap UNION {WorkedOn(q) : q \in Procs})
    /\ UNCHANGED <<rows, cluster, last, failed, lost, faults>>

StartUninstall(p) ==
  \E a \in Addons : Start(p, "uninstall", a, IF a = Gha THEN "list" ELSE "build")

RunnerRows == {r \in Runners : rows[r] = "runner"}

\* listRunnerScaleSets: an error is an empty list.  With a list in hand the
\* command opens the registry again, and ends if it cannot.
ListRunners(p) ==
  /\ At(p, "uninstall", "list")
  /\ \/ /\ NoFault /\ UNCHANGED lost
        /\ proc' = [proc EXCEPT ![p].at = "runners", ![p].todo = SetToSeq(RunnerRows)]
     \/ Fault /\ Goto(p, "runners") /\ lost' = lost \cup Runners
     \/ RunnerRows # {} /\ Fault /\ Err(p, "done") /\ UNCHANGED lost
  /\ UNCHANGED <<rows, cluster, last, failed, contested, commands>>

\* removeRunnerScaleSets deletes in the namespace arc-systems, where runner
\* add has put nothing, and ignores that nothing is found; then the row goes.
RemoveRunner(p) ==
  /\ At(p, "uninstall", "runners") /\ proc[p].todo # << >>
  /\ LET r == Head(proc[p].todo)
     IN \/ rows' = [rows EXCEPT ![r] = ""] /\ NoFault /\ UNCHANGED lost
        \/ UNCHANGED rows /\ Fault /\ lost' = lost \cup {r}
  /\ proc' = [proc EXCEPT ![p].todo = Tail(@)]
  /\ UNCHANGED <<cluster, last, failed, contested, commands>>

RunnersRemoved(p) ==
  /\ At(p, "uninstall", "runners") /\ proc[p].todo = << >>
  /\ Goto(p, "build")
  /\ UNCHANGED <<rows, cluster, ghosts, commands, faults>>

\* Uninstall needs a row of kind addon; without one it fails and writes nothing.
UninstallLookup(p) ==
  /\ At(p, "uninstall", "lookup")
  /\ \/ rows[proc[p].svc] = "addon" /\ Goto(p, "delete") /\ NoFault
     \/ rows[proc[p].svc] # "addon" /\ Err(p, "done") /\ NoFault
     \/ Err(p, "done") /\ Fault
  /\ UNCHANGED <<rows, cluster, ghosts, commands>>

\* Mutant: only the files of the default mode are deleted.
UninstallDeleteMode(p) ==
  /\ At(p, "uninstall", "delete")
  /\ \/ /\ cluster' = cluster \ Objects(proc[p].svc, "file")
        /\ Goto(p, "deleterow") /\ NoFault
     \/ /\ cluster' \in {cluster, cluster \ AllObjects(proc[p].svc)}
        /\ Err(p, "recordfailure") /\ Fault
  /\ UNCHANGED <<rows, ghosts, commands>>

\* kubectl delete of everything in the catalog's manifests.
UninstallDelete(p) ==
  /\ At(p, "uninstall", "delete")
  /\ \/ cluster' = cluster \ DeletedWith(proc[p].svc) /\ Goto(p, "deleterow") /\ NoFault
     \/ /\ cluster' \in {cluster, cluster \ DeletedWith(proc[p].svc)}
        /\ Err(p, "recordfailure") /\ Fault
  /\ UNCHANGED <<rows, ghosts, commands>>

\* DeleteDeployment; the history is written whether it fails or not, and the
\* first error returned.
UninstallRecord(p) ==
  /\ At(p, "uninstall", "deleterow")
  /\ WriteRow(p, "")
  /\ IF faults' > faults THEN Err(p, "history") ELSE Goto(p, "history")
  /\ UNCHANGED <<cluster, last, failed, contested, commands>>

UninstallHistory(p) ==
  /\ At(p, "uninstall", "history")
  /\ \/ /\ proc' = [proc EXCEPT ![p].at = "done", ![p].told = "uninstalled"]
        /\ UNCHANGED lost /\ NoFault
     \/ Err(p, "done") /\ lost' = lost \cup {proc[p].svc} /\ Fault
  /\ UNCHANGED <<rows, cluster, last, failed, contested, commands>>

-----------------------------------------------------------------------------
(* Deploy: RunDeploy and applyGenericSecret. *)

StartDeploy(p) == \E s \in Apps : Start(p, "deploy", s, "fetch")

Secret(s) == <<s, "secret">>
Workload(s) == <<s, "deployment">>

\* FetchManifestWith: the token, the release of the tag, its manifest, parsed
\* and validated.  Nothing is changed yet.
Fetch(p) ==
  /\ At(p, "deploy", "fetch")
  /\ (Goto(p, "resolve") /\ NoFault) \/ (Err(p, "recordfailure") /\ Fault)
  /\ UNCHANGED <<rows, cluster, ghosts, commands>>

\* Resolve: every reference the manifest and the environment ask for, or none.
ResolveDeploy(p) ==
  /\ At(p, "deploy", "resolve")
  /\ (Goto(p, "deletesecret") /\ NoFault) \/ (Err(p, "recordfailure") /\ Fault)
  /\ UNCHANGED <<rows, cluster, ghosts, commands>>

\* The error of the delete is dropped.
DeleteSecret(p) ==
  /\ At(p, "deploy", "deletesecret")
  /\ Goto(p, "createsecret")
  /\ (cluster' = cluster \ {Secret(proc[p].svc)} /\ NoFault) \/ (UNCHANGED cluster /\ Fault)
  /\ UNCHANGED <<rows, ghosts, commands>>

\* Mutant: the error of the create is dropped too.
CreateSecretUnchecked(p) ==
  /\ At(p, "deploy", "createsecret")
  /\ Goto(p, "apply")
  /\ \/ cluster' = cluster \cup {Secret(proc[p].svc)} /\ NoFault
     \/ UNCHANGED cluster /\ Fault
  /\ UNCHANGED <<rows, ghosts, commands>>

\* kubectl create fails on a secret that exists.
CreateSecret(p) ==
  /\ At(p, "deploy", "createsecret")
  /\ LET s == Secret(proc[p].svc)
     IN \/ s \notin cluster /\ cluster' = cluster \cup {s} /\ Goto(p, "apply") /\ NoFault
        \/ s \in cluster /\ UNCHANGED cluster /\ Err(p, "recordfailure") /\ NoFault
        \/ UNCHANGED cluster /\ Err(p, "recordfailure") /\ Fault
  /\ UNCHANGED <<rows, ghosts, commands>>

DeployApply(p) ==
  /\ At(p, "deploy", "apply")
  /\ LET applied == cluster \cup {Workload(proc[p].svc)}
     IN \/ cluster' = applied /\ Goto(p, "rollout") /\ NoFault
        \/ cluster' \in {cluster, applied} /\ Err(p, "recordfailure") /\ Fault
  /\ UNCHANGED <<rows, ghosts, commands>>

\* Mutant: a rollout that fails is not recorded.
RolloutUnrecorded(p) ==
  /\ At(p, "deploy", "rollout")
  /\ (Goto(p, "upsert") /\ NoFault) \/ (Err(p, "done") /\ Fault)
  /\ UNCHANGED <<rows, cluster, ghosts, commands>>

Rollout(p) ==
  /\ At(p, "deploy", "rollout")
  /\ (Goto(p, "upsert") /\ NoFault) \/ (Err(p, "recordfailure") /\ Fault)
  /\ UNCHANGED <<rows, cluster, ghosts, commands>>

\* Mutant: the row gets the kind the installer writes.
DeployRecordAsAddon(p) ==
  /\ At(p, "deploy", "upsert")
  /\ WriteRow(p, "addon")
  /\ Goto(p, "history")
  /\ UNCHANGED <<cluster, last, failed, contested, commands>>

\* recordDeploySuccess: both writes are tried, and neither fails the command.
DeployRecord(p) ==
  /\ At(p, "deploy", "upsert")
  /\ WriteRow(p, "app")
  /\ Goto(p, "history")
  /\ UNCHANGED <<cluster, last, failed, contested, commands>>

DeployHistory(p) ==
  /\ At(p, "deploy", "history")
  /\ WriteHistory(p, "rolled_out", "done")
  /\ UNCHANGED <<rows, cluster, last, failed, contested, commands>>

-----------------------------------------------------------------------------
(* runner add and runner remove; both want a row for Gha, of any kind. *)

StartRunner(p) ==
  \E r \in Runners, cmd \in {"addrunner", "removerunner"} : Start(p, cmd, r, "gha")

RunnerCheck(p) ==
  /\ proc[p].at = "gha"
  /\ \/ Has(Gha) /\ Goto(p, IF proc[p].cmd = "addrunner" THEN "name" ELSE "kubectl") /\ NoFault
     \/ ~Has(Gha) /\ Err(p, "done") /\ NoFault
     \/ Err(p, "done") /\ Fault
  /\ UNCHANGED <<rows, cluster, ghosts, commands>>

\* A name with a row is taken.
RunnerName(p) ==
  /\ At(p, "addrunner", "name")
  /\ \/ ~Has(proc[p].svc) /\ Goto(p, "kubectl") /\ NoFault
     \/ Has(proc[p].svc) /\ Err(p, "done") /\ NoFault
     \/ Err(p, "done") /\ Fault
  /\ UNCHANGED <<rows, cluster, ghosts, commands>>

\* The scale set goes to the namespace arc-runners.
RunnerApply(p) ==
  /\ At(p, "addrunner", "kubectl")
  /\ LET applied == cluster \cup {<<proc[p].svc, "set">>}
         namespace == <<Gha, "supporting">> \in cluster
     IN \/ namespace /\ cluster' = applied /\ Goto(p, "row") /\ NoFault
        \/ ~namespace /\ UNCHANGED cluster /\ Err(p, "done") /\ NoFault
        \/ /\ cluster' \in {cluster} \cup (IF namespace THEN {applied} ELSE {})
           /\ Err(p, "done") /\ Fault
  /\ UNCHANGED <<rows, ghosts, commands>>

RunnerDelete(p) ==
  /\ At(p, "removerunner", "kubectl")
  /\ LET deleted == cluster \ {<<proc[p].svc, "set">>}
     IN \/ cluster' = deleted /\ Goto(p, "row") /\ NoFault
        \/ cluster' \in {cluster, deleted} /\ Err(p, "done") /\ Fault
  /\ UNCHANGED <<rows, ghosts, commands>>

\* UpsertDeployment or DeleteDeployment; its error is returned.
RunnerRecord(p) ==
  /\ proc[p].at = "row"
  /\ WriteRow(p, IF proc[p].cmd = "addrunner" THEN "runner" ELSE "")
  /\ IF faults' > faults THEN Err(p, "done") ELSE Goto(p, "done")
  /\ UNCHANGED <<cluster, last, failed, contested, commands>>

-----------------------------------------------------------------------------
(* The end of a command. *)

Finish(p) ==
  /\ proc[p].at \in {"done", "unbuilt"}
  /\ LET touched == WorkedOn(p)
     IN /\ last' = [s \in Services |-> IF s \notin touched THEN last[s]
                                       ELSE IF proc[p].err THEN "failed" ELSE "ok"]
        /\ failed' = IF proc[p].err THEN failed \cup touched ELSE failed
  /\ proc' = [proc EXCEPT ![p] = Idle]
  /\ UNCHANGED <<rows, cluster, lost, contested, commands, faults>>

Die(p) ==
  /\ proc[p].cmd # "" /\ Fault
  /\ lost' = lost \cup WorkedOn(p)
  /\ proc' = [proc EXCEPT ![p] = Idle]
  /\ UNCHANGED <<rows, cluster, last, failed, contested, commands>>

Init ==
  /\ rows = [s \in Services |-> ""] /\ cluster = {}
  /\ proc = [p \in Procs |-> Idle]
  /\ last = [s \in Services |-> "none"]
  /\ failed = {} /\ lost = {} /\ contested = {}
  /\ commands = 0 /\ faults = 0

Install(p) ==
  \/ StartInstall(p) \/ BuildInstaller(p) \/ InstallLookup(p) \/ ResolveSecrets(p) \/ CheckRequires(p)
  \/ InstallPass(p) \/ InstallRecord(p) \/ InstallHistory(p)

Uninstall(p) ==
  \/ StartUninstall(p) \/ ListRunners(p) \/ RemoveRunner(p) \/ RunnersRemoved(p)
  \/ UninstallLookup(p) \/ UninstallDelete(p) \/ UninstallRecord(p) \/ UninstallHistory(p)

Deploy(p) ==
  \/ StartDeploy(p) \/ Fetch(p) \/ ResolveDeploy(p) \/ DeleteSecret(p) \/ CreateSecret(p)
  \/ DeployApply(p) \/ Rollout(p) \/ DeployRecord(p) \/ DeployHistory(p)

Runner(p) ==
  \/ StartRunner(p) \/ RunnerCheck(p) \/ RunnerName(p) \/ RunnerApply(p)
  \/ RunnerDelete(p) \/ RunnerRecord(p)

Next == \E p \in Procs :
  Install(p) \/ Uninstall(p) \/ Deploy(p) \/ Runner(p) \/ RecordFailure(p) \/ Finish(p) \/ Die(p)

Spec == Init /\ [][Next]_vars

-----------------------------------------------------------------------------
(* Properties. *)

\* Every variable has its type: rows have a kind their writer gives, which is the
\* name's own by NamesApart, and only the passes of a service are on the cluster.
TypeOK ==
  /\ \A a \in Addons : rows[a] \in {"", "addon"}
  /\ \A s \in Apps : rows[s] \in {"", "app"}
  /\ \A r \in Runners : rows[r] \in {"", "runner"}
  /\ cluster \subseteq (UNION {AllObjects(a) : a \in Addons}) \cup InNamespace
       \cup {Secret(s) : s \in Apps} \cup {Workload(s) : s \in Apps}
  /\ \A p \in Procs : proc[p].svc \in Services /\ proc[p].told \in {"", "rolled_out", "failed", "uninstalled"}
  /\ last \in [Services -> {"none", "ok", "failed"}]
  /\ failed \subseteq Services /\ lost \subseteq Services /\ contested \subseteq Services
  /\ commands \in 0 .. MaxCommands /\ faults \in 0 .. MaxFaults

Idling(s) == \A p \in Procs : s \notin WorkedOn(p)

\* The registry and the cluster agree that a service is there, whole, or is
\* not there at all.
Agree(s) ==
  CASE s \in Addons -> IF Has(s) THEN \E m \in Modes : Objects(s, m) \subseteq cluster
                                 ELSE AllObjects(s) \cap cluster = {}
    [] s \in Apps -> Has(s) => {Secret(s), Workload(s)} \subseteq cluster
    [] s \in Runners -> Has(s) <=> <<s, "set">> \in cluster

\* What a command reports as done is done: after one that succeeded, and that
\* lost no record and met no other on the same service, the row and the
\* cluster agree.  (Install, RunAddonUninstall, RunDeploy, RunRunnerAdd/Remove)
SuccessMeansAgreement ==
  \A s \in Services \ (lost \cup contested) : Idling(s) /\ last[s] = "ok" => Agree(s)

\* The history tells how every install, deploy and uninstall ended, unless
\* the entry could not be written; a refused uninstall leaves none.
AuditTrail ==
  \A p \in Procs :
    proc[p].at = "done" /\ proc[p].svc \notin lost =>
      CASE proc[p].cmd \in {"install", "deploy"} ->
             proc[p].told = IF proc[p].err THEN "failed" ELSE "rolled_out"
        [] proc[p].cmd = "uninstall" ->
             proc[p].told \in IF proc[p].err THEN {"", "failed"} ELSE {"uninstalled"}
        [] OTHER -> proc[p].told = ""

\* Two deploys of a service delete and create the same secret.  If it is gone
\* once all have ended, one of them has said so, or died.
SecretLossReported ==
  \A s \in Apps : Idling(s) /\ Has(s) /\ Secret(s) \notin cluster => s \in failed \cup lost

\* A runner's row needs the row of Gha, or no command can remove it: uninstall
\* takes the runners' rows first.  A runner added during the uninstall, and a
\* list that could not be read, are the exceptions.
RunnersHaveController ==
  \A r \in Runners \ (lost \cup contested) : Has(r) => Has(Gha)

\* As RunAddonUninstall says of itself, a listed scale set is off the cluster
\* before the addon is uninstalled.
RunnersRemovedFirst ==
  \A p \in Procs : \A r \in Runners :
    At(p, "uninstall", "build") /\ proc[p].svc = Gha /\ last[r] = "ok" /\ ~Has(r)
      /\ r \notin lost \cup contested
    => <<r, "set">> \notin cluster
=============================================================================
