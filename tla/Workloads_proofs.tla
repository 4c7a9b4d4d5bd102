---------------------------- MODULE Workloads_proofs ----------------------------
(***************************************************************************)
(* Proofs about what runs on one cluster: for any addons, services,        *)
(* runners and processes, and any failed calls and deaths, what a command  *)
(* that succeeded, the history and the rows tell of the cluster.           *)
(***************************************************************************)
EXTENDS Workloads, FiniteSetTheorems, SequenceTheorems, TLAPS

-----------------------------------------------------------------------------
(* The inductive invariant. *)

Parts == {"all", "supporting", "chart", "common", "operators", "wait", "instances", "mode"}
Kinds == {"", "app", "addon", "runner"}
Commands == {"", "install", "uninstall", "deploy", "addrunner", "removerunner"}

Steps ==
  {"", "build", "lookup", "secrets", "requires", "apply", "history", "recordfailure", "done",
   "unbuilt", "list", "runners", "delete", "deleterow", "fetch", "resolve", "deletesecret",
   "createsecret", "rollout", "upsert", "gha", "name", "kubectl", "row"}

ProcType ==
  [cmd: Commands, svc: Services, at: Steps, todo: Seq(Parts \cup Runners),
   told: {"", "rolled_out", "failed", "uninstalled"}, err: BOOLEAN]

\* The passes of an addon, whatever the mode.
PassesOf(a) == UNION {ToSet(Passes(a, m)) : m \in Modes}

Pending(p) == ToSet(proc[p].todo)

\* Every command is at one of its steps, about a service of its own.
Course(p) ==
  /\ proc[p].cmd = "" => proc[p].at = ""
  /\ proc[p].cmd = "install" =>
       /\ proc[p].at \in {"build", "lookup", "secrets", "requires", "apply", "history",
                          "recordfailure", "done", "unbuilt"}
       /\ proc[p].svc \in Addons /\ Pending(p) \subseteq PassesOf(proc[p].svc)
  /\ proc[p].cmd = "uninstall" =>
       /\ proc[p].at \in {"list", "runners", "build", "lookup", "delete", "deleterow",
                          "history", "recordfailure", "done", "unbuilt"}
       /\ proc[p].svc \in Addons /\ Pending(p) \subseteq Runners
       /\ proc[p].at \in {"list", "runners"} => proc[p].svc = Gha
  /\ proc[p].cmd = "deploy" =>
       /\ proc[p].at \in {"fetch", "resolve", "deletesecret", "createsecret", "apply", "rollout",
                          "upsert", "history", "recordfailure", "done"}
       /\ proc[p].svc \in Apps
  /\ proc[p].cmd = "addrunner" =>
       proc[p].at \in {"gha", "name", "kubectl", "row", "done"} /\ proc[p].svc \in Runners
  /\ proc[p].cmd = "removerunner" =>
       proc[p].at \in {"gha", "kubectl", "row", "done"} /\ proc[p].svc \in Runners

Typed ==
  /\ TypeOK /\ proc \in [Procs -> ProcType] /\ rows \in [Services -> Kinds]
  /\ \A p \in Procs : Course(p)

\* A command has told nothing before its end, and fails where it says so; at
\* its end it has told what AuditTrail wants.
Tale(p) ==
  /\ proc[p].at # "done" => proc[p].told = ""
  /\ proc[p].at \in {"recordfailure", "unbuilt"} => proc[p].err
  /\ proc[p].at \notin {"recordfailure", "unbuilt", "history", "done"} => ~proc[p].err
  /\ proc[p].at = "history" /\ proc[p].err => proc[p].svc \in lost
  /\ proc[p].at = "done" /\ proc[p].svc \notin lost =>
       CASE proc[p].cmd \in {"install", "deploy"} ->
              proc[p].told = IF proc[p].err THEN "failed" ELSE "rolled_out"
         [] proc[p].cmd = "uninstall" ->
              proc[p].told \in IF proc[p].err THEN {"", "failed"} ELSE {"uninstalled"}
         [] OTHER -> proc[p].told = ""

\* Two processes that work on one service contest it.
Apart == \A p, q \in Procs : p # q => WorkedOn(p) \cap WorkedOn(q) \subseteq contested

Free == Services \ (lost \cup contested)
Past(p, steps) == proc[p].at \in steps \/ (proc[p].at = "done" /\ ~proc[p].err)

\* What each command has achieved, for a service it has to itself.
InstallClaim(p) ==
  LET a == proc[p].svc IN
  proc[p].cmd = "install" /\ a \in Free =>
    /\ proc[p].at = "apply" =>
         \E m \in Modes : Objects(a, m) \subseteq cluster \cup {<<a, x>> : x \in Pending(p)}
    /\ Past(p, {"history"}) => Has(a) /\ \E m \in Modes : Objects(a, m) \subseteq cluster

UninstallClaim(p) ==
  LET a == proc[p].svc IN
  proc[p].cmd = "uninstall" /\ a \in Free =>
    /\ Past(p, {"deleterow", "history"}) => AllObjects(a) \cap cluster = {}
    /\ Past(p, {"history"}) => ~Has(a)

\* The uninstall of Gha and the runners.
SweepClaim(p) ==
  proc[p].cmd = "uninstall" /\ proc[p].svc = Gha => \A r \in Runners \cap Free :
    /\ proc[p].at = "runners" /\ Has(r) => r \in Pending(p)
    /\ Past(p, {"build", "lookup", "delete", "deleterow", "history"}) => ~Has(r)
    /\ Past(p, {"deleterow", "history"}) => <<r, "set">> \notin cluster

DeployClaim(p) ==
  LET s == proc[p].svc IN
  proc[p].cmd = "deploy" /\ s \in Free =>
    /\ Past(p, {"apply", "rollout", "upsert", "history"}) => Secret(s) \in cluster
    /\ Past(p, {"rollout", "upsert", "history"}) => Workload(s) \in cluster

AddRunnerClaim(p) ==
  LET r == proc[p].svc IN
  proc[p].cmd = "addrunner" /\ r \in Free =>
    /\ proc[p].at \in {"name", "kubectl", "row"} => Has(Gha)
    /\ Past(p, {"row"}) => <<r, "set">> \in cluster
    /\ Past(p, {}) => Has(r)

RemoveRunnerClaim(p) ==
  LET r == proc[p].svc IN
  proc[p].cmd = "removerunner" /\ r \in Free =>
    /\ Past(p, {"row"}) => <<r, "set">> \notin cluster
    /\ Past(p, {}) => ~Has(r)

Claim(p) ==
  /\ InstallClaim(p) /\ UninstallClaim(p) /\ SweepClaim(p)
  /\ DeployClaim(p) /\ AddRunnerClaim(p) /\ RemoveRunnerClaim(p)

\* A deploy that will bring a missing secret back, or report that it could not.
Answers(p, s) ==
  /\ proc[p].cmd = "deploy" /\ proc[p].svc = s
  /\ proc[p].at = "createsecret" \/ proc[p].err

\* A deployed service, or one about to be, misses its secret only while some
\* deploy answers for it.
Watched(s) ==
  \/ Secret(s) \in cluster
  \/ \E p \in Procs : Answers(p, s)
  \/ /\ ~Has(s)
     /\ \A p \in Procs : proc[p].cmd = "deploy" /\ proc[p].svc = s =>
          proc[p].at \notin {"apply", "rollout", "upsert"}

SecretWatched == \A s \in Apps \ (failed \cup lost) : Watched(s)

IInv ==
  /\ Typed /\ Apart /\ \A p \in Procs : Tale(p) /\ Claim(p)
  /\ SecretWatched /\ SuccessMeansAgreement /\ RunnersHaveController

-----------------------------------------------------------------------------
(* Passes, objects and sequences. *)

LEMMA PassesTyped ==
  ASSUME NEW a \in Addons, NEW m \in Modes
  PROVE  Passes(a, m) \in Seq(Parts \cup Runners) /\ ToSet(Passes(a, m)) \subseteq PassesOf(a)
  <1>1. Passes(a, m) \in Seq(Parts)
    <2>1. Strategy[a] \in {"manifests", "helmchart", "staged"}
      BY WorkloadsAssumption DEF WorkloadsAssumption
    <2>2. /\ <<"all">> \in Seq(Parts) /\ <<"supporting", "chart">> \in Seq(Parts)
          /\ <<"common", "operators", "wait", "instances">> \in Seq(Parts)
          /\ <<"common", "mode">> \in Seq(Parts)
      BY DEF Parts
    <2> QED BY <2>1, <2>2 DEF Passes
  <1>2. Passes(a, m) \in Seq(Parts \cup Runners)
    BY <1>1, SeqMonotonic, Parts \subseteq Parts \cup Runners
  <1> QED BY <1>2 DEF PassesOf

\* An object of an addon bears its name and that of a pass.
LEMMA ObjectsAre ==
  ASSUME NEW a \in Addons, NEW m \in Modes
  PROVE  /\ \A x : <<a, x>> \in Objects(a, m) <=> x \in ToSet(Passes(a, m)) \ {"wait"}
         /\ \A o \in Objects(a, m) : \E x : o = <<a, x>>
  <1>1. /\ Passes(a, m) \in Seq(Parts \cup Runners)
        /\ DOMAIN Passes(a, m) = 1 .. Len(Passes(a, m))
    BY PassesTyped
  <1> QED BY <1>1 DEF Objects, ToSet

LEMMA AllObjectsAre ==
  ASSUME NEW a \in Addons
  PROVE  /\ \A x : <<a, x>> \in AllObjects(a) <=> x \in PassesOf(a) \ {"wait"}
         /\ \A o \in AllObjects(a) : \E x : o = <<a, x>>
         /\ \A m \in Modes : Objects(a, m) \subseteq AllObjects(a)
  BY ObjectsAre DEF AllObjects, PassesOf

LEMMA HeadAndTail ==
  ASSUME NEW S, NEW s \in Seq(S), s # << >>
  PROVE  /\ Head(s) \in S /\ Tail(s) \in Seq(S)
         /\ ToSet(s) = {Head(s)} \cup ToSet(Tail(s))
  <1>1. /\ Head(s) = s[1] /\ Tail(s) \in Seq(S) /\ Head(s) \in S /\ Len(s) \in Nat \ {0}
        /\ DOMAIN s = 1 .. Len(s) /\ DOMAIN Tail(s) = 1 .. Len(Tail(s))
        /\ Len(Tail(s)) = Len(s) - 1
        /\ \A i \in 1 .. Len(Tail(s)) : Tail(s)[i] = s[i + 1]
    BY HeadTailProperties, EmptySeq, LenProperties
  <1>2. \A i \in 1 .. Len(s) : s[i] \in {s[1]} \cup ToSet(Tail(s))
    <2> SUFFICES ASSUME NEW i \in 1 .. Len(s), i # 1 PROVE s[i] \in ToSet(Tail(s))
      OBVIOUS
    <2>1. i - 1 \in 1 .. Len(Tail(s)) /\ Tail(s)[i - 1] = s[i]
      BY <1>1
    <2> QED BY <1>1, <2>1 DEF ToSet
  <1>3. \A i \in 1 .. Len(Tail(s)) : Tail(s)[i] \in ToSet(s)
    <2> SUFFICES ASSUME NEW i \in 1 .. Len(Tail(s)) PROVE Tail(s)[i] \in ToSet(s)
      OBVIOUS
    <2>1. i + 1 \in 1 .. Len(s) /\ Tail(s)[i] = s[i + 1]
      BY <1>1
    <2> QED BY <1>1, <2>1 DEF ToSet
  <1>4. s[1] \in ToSet(s)
    BY <1>1 DEF ToSet
  <1> QED BY <1>1, <1>2, <1>3, <1>4 DEF ToSet

LEMMA NothingPending == ToSet(<< >>) = {} /\ \A S : << >> \in Seq(S)
  BY DEF ToSet

\* The list of the runners with a row names them all.
LEMMA ListsAll ==
  ASSUME NEW S, IsFiniteSet(S)
  PROVE  SetToSeq(S) \in Seq(S) /\ ToSet(SetToSeq(S)) = S
  <1> DEFINE n == Cardinality(S)
             F == [1 .. n -> S]
  <1>1. n \in Nat /\ ExistsBijection(1 .. n, S)
    BY FS_CardinalityType
  <1>2. \E f \in F : IsInjective(f)
    BY <1>1 DEF ExistsBijection, Bijection, Injection, IsInjective
  <1>3. SetToSeq(S) \in F /\ IsInjective(SetToSeq(S))
    BY <1>2 DEF SetToSeq
  <1>4. SetToSeq(S) \in Injection(1 .. n, S)
    BY <1>3 DEF Injection, IsInjective
  <1>5. IsFiniteSet(1 .. n) /\ Cardinality(1 .. n) = n
    BY <1>1, FS_Interval
  <1>6. SetToSeq(S) \in Surjection(1 .. n, S)
    BY <1>4, <1>5, FS_Injection
  <1>7. SetToSeq(S) \in Seq(S)
    BY <1>1, <1>3
  <1> QED BY <1>3, <1>6, <1>7 DEF Surjection, ToSet

LEMMA RunnersListed ==
  ASSUME Typed
  PROVE  /\ SetToSeq(RunnerRows) \in Seq(Parts \cup Runners)
         /\ ToSet(SetToSeq(RunnerRows)) = RunnerRows /\ RunnerRows \subseteq Runners
         /\ \A r \in Runners : Has(r) <=> r \in RunnerRows
  <1>1. RunnerRows \subseteq Runners /\ RunnerRows \subseteq Parts \cup Runners
    BY DEF RunnerRows
  <1>2. IsFiniteSet(RunnerRows)
    BY <1>1, FS_Subset, WorkloadsAssumption DEF WorkloadsAssumption
  <1>3. SetToSeq(RunnerRows) \in Seq(RunnerRows) /\ ToSet(SetToSeq(RunnerRows)) = RunnerRows
    BY <1>2, ListsAll
  <1>4. SetToSeq(RunnerRows) \in Seq(Parts \cup Runners)
    BY <1>1, <1>3, SeqMonotonic
  <1>5. \A r \in Runners : Has(r) <=> r \in RunnerRows
    BY DEF Typed, TypeOK, Has, RunnerRows
  <1> QED BY <1>1, <1>3, <1>4, <1>5

-----------------------------------------------------------------------------
(* What a step of one process leaves to the others. *)

Possible ==
  (UNION {AllObjects(a) : a \in Addons}) \cup InNamespace
    \cup {Secret(s) : s \in Apps} \cup {Workload(s) : s \in Apps}

RowsTyped ==
  /\ rows \in [Services -> Kinds]
  /\ \A a \in Addons : rows[a] \in {"", "addon"}
  /\ \A s \in Apps : rows[s] \in {"", "app"}
  /\ \A r \in Runners : rows[r] \in {"", "runner"}

\* s has the row and the objects that it had.
SameService(s) == rows'[s] = rows[s] /\ \A x : <<s, x>> \in cluster' <=> <<s, x>> \in cluster

OthersStay(p) == \A q \in Procs \ {p} : proc'[q] = proc[q]

\* p's command goes on: what it does not work on is as it was.  Only an
\* uninstall that has come to its history takes an addon's row away, and
\* only runner add's last call brings a runner's.
Advance(p) ==
  /\ proc' \in [Procs -> ProcType] /\ OthersStay(p)
  /\ proc[p].cmd # "" /\ proc'[p].cmd = proc[p].cmd /\ proc'[p].svc = proc[p].svc
  /\ RowsTyped' /\ cluster' \subseteq Possible
  /\ \A s \in Services \ WorkedOn(p) : SameService(s)
  /\ \A a \in Addons : Has(a) /\ rows'[a] = "" => proc[p].cmd = "uninstall" /\ proc'[p].at = "history"
  /\ \A r \in Runners : rows'[r] # "" /\ ~Has(r) => proc[p].cmd = "addrunner" /\ proc[p].at = "row"
  /\ lost \subseteq lost' /\ lost' \subseteq Services
  /\ UNCHANGED <<last, failed, contested, commands>> /\ faults' \in 0 .. MaxFaults

LEMMA TypedGives ==
  ASSUME Typed
  PROVE  /\ RowsTyped /\ cluster \subseteq Possible /\ lost \subseteq Services
         /\ commands \in 0 .. MaxCommands /\ faults \in 0 .. MaxFaults
  BY DEF Typed, TypeOK, RowsTyped, Possible

LEMMA WorkedOnIs ==
  ASSUME Typed, NEW p \in Procs
  PROVE  /\ WorkedOn(p) \subseteq Services
         /\ proc[p].cmd # "" => proc[p].svc \in WorkedOn(p)
         /\ proc[p].cmd \notin {"", "uninstall"} => WorkedOn(p) = {proc[p].svc}
         /\ proc[p].svc # Gha /\ proc[p].cmd # "" => WorkedOn(p) = {proc[p].svc}
         /\ proc[p].cmd = "uninstall" /\ proc[p].svc = Gha => WorkedOn(p) = {Gha} \cup Runners
  <1>1. proc[p].svc \in Services /\ Runners \subseteq Services
    BY DEF Typed, ProcType, Services
  <1> QED BY <1>1 DEF WorkedOn, Touches

\* Objects and rows a service keeps.
LEMMA SameObjects ==
  ASSUME NEW a \in Addons, SameService(a)
  PROVE  /\ \A m \in Modes : Objects(a, m) \subseteq cluster => Objects(a, m) \subseteq cluster'
         /\ \A m \in Modes : Objects(a, m) \subseteq cluster' => Objects(a, m) \subseteq cluster
         /\ AllObjects(a) \cap cluster = {} <=> AllObjects(a) \cap cluster' = {}
  <1>1. \A m \in Modes : \A o \in Objects(a, m) : o \in cluster' <=> o \in cluster
    <2> TAKE m \in Modes
    <2> TAKE o \in Objects(a, m)
    <2>1. PICK x : o = <<a, x>>
      BY ObjectsAre
    <2> QED BY <2>1 DEF SameService
  <1>2. \A o \in AllObjects(a) : o \in cluster' <=> o \in cluster
    <2> TAKE o \in AllObjects(a)
    <2>1. PICK x : o = <<a, x>>
      BY AllObjectsAre
    <2> QED BY <2>1 DEF SameService
  <1> QED BY <1>1, <1>2

LEMMA SameAgree ==
  ASSUME NEW s \in Services, SameService(s), Agree(s) PROVE Agree(s)'
  <1>1. s \in Addons \/ s \in Apps \/ s \in Runners
    BY DEF Services
  <1>2. CASE s \in Addons
    BY <1>2, SameObjects, NamesApart DEF NamesApart, Agree, Has, SameService
  <1>3. CASE s \in Apps
    BY <1>3, NamesApart DEF NamesApart, Agree, Has, SameService, Secret, Workload
  <1>4. CASE s \in Runners
    BY <1>4, NamesApart DEF NamesApart, Agree, Has, SameService
  <1> QED BY <1>1, <1>2, <1>3, <1>4

\* A command keeps its claim while what it works on alone is as it was.
LEMMA KeepsClaim ==
  ASSUME Typed, NEW q \in Procs, proc'[q] = proc[q], Claim(q), Free' \subseteq Free,
         \A s \in WorkedOn(q) \cap Free' : SameService(s),
         proc[q].cmd = "addrunner" /\ proc[q].svc \in Free' /\ Has(Gha) => Has(Gha)'
  PROVE  Claim(q)'
  <1> DEFINE s == proc[q].svc
  <1>1. proc[q].cmd # "" => s \in WorkedOn(q)
    BY WorkedOnIs
  <1>2. proc[q].cmd # "" /\ s \in Free' => SameService(s)
    BY <1>1
  <1>3. Course(q)
    BY DEF Typed
  <1>4. InstallClaim(q)'
    <2> SUFFICES ASSUME proc[q].cmd = "install", s \in Free' PROVE InstallClaim(q)'
      BY DEF InstallClaim
    <2>1. s \in Addons /\ SameService(s)
      BY <1>2, <1>3 DEF Course
    <2>2. \A m \in Modes : Objects(s, m) \subseteq cluster => Objects(s, m) \subseteq cluster'
      BY <2>1, SameObjects
    <2>3. \A m \in Modes : Objects(s, m) \subseteq cluster \cup {<<s, x>> : x \in Pending(q)}
            => Objects(s, m) \subseteq cluster' \cup {<<s, x>> : x \in Pending(q)}
      <3> SUFFICES ASSUME NEW m \in Modes, NEW o \in Objects(s, m), o \in cluster
                   PROVE  o \in cluster'
        OBVIOUS
      <3>1. PICK x : o = <<s, x>>
        BY <2>1, ObjectsAre
      <3> QED BY <2>1, <3>1 DEF SameService
    <2>4. Pending(q)' = Pending(q)
      BY DEF Pending
    <2>5. Has(s) => Has(s)'
      BY <2>1 DEF Has, SameService
    <2>6. InstallClaim(q) /\ s \in Free
      BY DEF Claim
    <2>7. proc[q].at = "apply" =>
            \E m \in Modes : Objects(s, m) \subseteq cluster \cup {<<s, x>> : x \in Pending(q)}
      BY <2>6 DEF InstallClaim
    <2>8. Past(q, {"history"}) => Has(s) /\ \E m \in Modes : Objects(s, m) \subseteq cluster
      BY <2>6 DEF InstallClaim
    <2>9. Past(q, {"history"})' <=> Past(q, {"history"})
      BY DEF Past
    <2>10. (proc[q].at = "apply" =>
             \E m \in Modes : Objects(s, m) \subseteq cluster \cup {<<s, x>> : x \in Pending(q)})'
      BY <2>3, <2>4, <2>7
    <2>11. (Past(q, {"history"}) => Has(s) /\ \E m \in Modes : Objects(s, m) \subseteq cluster)'
      BY <2>2, <2>5, <2>8, <2>9
    <2> QED BY <2>10, <2>11 DEF InstallClaim
  <1>5. UninstallClaim(q)'
    <2> SUFFICES ASSUME proc[q].cmd = "uninstall", s \in Free' PROVE UninstallClaim(q)'
      BY DEF UninstallClaim
    <2>1. s \in Addons /\ SameService(s)
      BY <1>2, <1>3 DEF Course
    <2>2. AllObjects(s) \cap cluster = {} => AllObjects(s) \cap cluster' = {}
      BY <2>1, SameObjects
    <2> QED BY <2>1, <2>2 DEF Claim, UninstallClaim, Past, Has, SameService
  <1>6. SweepClaim(q)'
    <2> SUFFICES ASSUME proc[q].cmd = "uninstall", s = Gha, NEW r \in Runners \cap Free'
                 PROVE  /\ proc[q].at = "runners" /\ Has(r)' => r \in Pending(q)'
                        /\ Past(q, {"build", "lookup", "delete", "deleterow", "history"})' => ~Has(r)'
                        /\ Past(q, {"deleterow", "history"})' => <<r, "set">> \notin cluster'
      BY DEF SweepClaim
    <2>1. SameService(r)
      BY WorkedOnIs
    <2> QED BY <2>1 DEF Claim, SweepClaim, Past, Has, SameService, Pending
  <1>7. DeployClaim(q)'
    BY <1>2 DEF Claim, DeployClaim, Past, SameService, Secret, Workload
  <1>8. AddRunnerClaim(q)'
    BY <1>2 DEF Claim, AddRunnerClaim, Past, Has, SameService
  <1>9. RemoveRunnerClaim(q)'
    BY <1>2 DEF Claim, RemoveRunnerClaim, Past, Has, SameService
  <1> QED BY <1>4, <1>5, <1>6, <1>7, <1>8, <1>9 DEF Claim

-----------------------------------------------------------------------------
(* A step of a command: what does not depend on which step it is. *)

LEMMA AdvanceTyped ==
  ASSUME Typed, NEW p \in Procs, Advance(p), Course(p)' PROVE Typed'
  <1>1. \A q \in Procs : Course(q)'
    <2> SUFFICES ASSUME NEW q \in Procs, q # p PROVE Course(q)'
      OBVIOUS
    <2>1. proc'[q] = proc[q] /\ Course(q)
      BY DEF Typed, Advance, OthersStay
    <2> QED BY <2>1 DEF Course, Pending
  <1>2. TypeOK'
    <2>1. \A q \in Procs : /\ proc'[q].svc \in Services
                           /\ proc'[q].told \in {"", "rolled_out", "failed", "uninstalled"}
      BY DEF Advance, ProcType
    <2>2. /\ last' \in [Services -> {"none", "ok", "failed"}]
          /\ failed' \subseteq Services /\ contested' \subseteq Services
          /\ commands' \in 0 .. MaxCommands
      BY DEF Advance, Typed, TypeOK
    <2> QED BY <2>1, <2>2 DEF Advance, TypeOK, RowsTyped, Possible
  <1> QED BY <1>1, <1>2 DEF Typed, Advance, RowsTyped

LEMMA AdvanceWorks ==
  ASSUME Typed, NEW p \in Procs, Advance(p)
  PROVE  /\ \A q \in Procs : WorkedOn(q)' = WorkedOn(q)
         /\ Free' \subseteq Free
         /\ \A s \in Services : Idling(s)' <=> Idling(s)
  <1>1. \A q \in Procs : WorkedOn(q)' = WorkedOn(q)
    <2> TAKE q \in Procs
    <2>1. CASE q = p
      BY <2>1 DEF Advance, WorkedOn
    <2>2. CASE q # p
      BY <2>2 DEF Advance, OthersStay, WorkedOn
    <2> QED BY <2>1, <2>2
  <1>2. Free' \subseteq Free
    BY DEF Advance, Free
  <1> QED BY <1>1, <1>2 DEF Idling

LEMMA AdvanceOthers ==
  ASSUME IInv, NEW p \in Procs, Advance(p), NEW q \in Procs, q # p
  PROVE  Tale(q)' /\ Claim(q)'
  <1>1. proc'[q] = proc[q] /\ Tale(q) /\ Claim(q) /\ Typed
    BY DEF Advance, OthersStay, IInv
  <1>2. Tale(q)'
    BY <1>1 DEF Advance, Tale
  <1>3. Free' \subseteq Free /\ Free' \cap contested = {}
    BY <1>1, AdvanceWorks DEF Free, Advance
  <1>4. \A s \in WorkedOn(q) \cap Free' : s \in Services /\ s \notin WorkedOn(p)
    BY <1>1, <1>3, WorkedOnIs DEF IInv, Apart
  <1>5. \A s \in WorkedOn(q) \cap Free' : SameService(s)
    BY <1>4 DEF Advance
  <1>6. ASSUME proc[q].cmd = "addrunner", proc[q].svc \in Free', Has(Gha) PROVE Has(Gha)'
    <2>1. proc[q].svc \notin WorkedOn(p) /\ proc[q].svc \in Runners
      BY <1>1, <1>4, <1>6, WorkedOnIs DEF Typed, Course
    <2>2. Gha \in Addons
      BY WorkloadsAssumption DEF WorkloadsAssumption
    <2>3. CASE proc[p].cmd = "uninstall"
      <3>1. proc[p].svc # Gha
        BY <1>1, <2>1, <2>3, WorkedOnIs
      <3>2. WorkedOn(p) = {proc[p].svc} /\ Gha \in Services
        BY <1>1, <2>2, <2>3, <3>1, WorkedOnIs DEF Services
      <3> QED BY <1>6, <3>1, <3>2 DEF Advance, SameService, Has
    <2>4. CASE proc[p].cmd # "uninstall"
      BY <1>6, <2>2, <2>4 DEF Advance, Has
    <2> QED BY <2>3, <2>4
  <1>7. Claim(q)'
    BY <1>1, <1>3, <1>5, <1>6, KeepsClaim
  <1> QED BY <1>2, <1>7

\* The row of Gha is there for every runner with a row.
LEMMA AdvanceController ==
  ASSUME IInv, NEW p \in Procs, Advance(p), Claim(p)' PROVE RunnersHaveController'
  <1> SUFFICES ASSUME NEW r \in Runners, r \notin lost' \cup contested', Has(r)'
               PROVE  Has(Gha)'
    BY DEF RunnersHaveController
  <1>1. r \in Free /\ r \in Free' /\ r \in Services /\ Gha \in Addons /\ Typed
    BY WorkloadsAssumption DEF WorkloadsAssumption, Free, Services, Advance, IInv
  <1>2. Has(Gha)
    <2>1. CASE Has(r)
      BY <1>1, <2>1 DEF IInv, RunnersHaveController, Free
    <2>2. CASE ~Has(r)
      <3>1. proc[p].cmd = "addrunner" /\ proc[p].at = "row" /\ Claim(p)
        BY <2>2 DEF Advance, Has, IInv
      <3>2. proc[p].svc = r
        BY <1>1, <2>2, <3>1, WorkedOnIs DEF Advance, SameService, Has
      <3> QED BY <1>1, <3>1, <3>2 DEF Claim, AddRunnerClaim
    <2> QED BY <2>1, <2>2
  <1>3. ASSUME ~Has(Gha)' PROVE FALSE
    <2>1. proc[p].cmd = "uninstall" /\ proc'[p].at = "history" /\ proc'[p].cmd = "uninstall"
      BY <1>1, <1>2, <1>3 DEF Advance, Has
    <2>2. Gha \in WorkedOn(p)
      BY <1>1, <1>2, <1>3 DEF Advance, SameService, Has, Services
    <2>3. proc'[p].svc = Gha
      BY <1>1, <2>1, <2>2, WorkedOnIs DEF Advance
    <2> QED BY <1>1, <2>1, <2>3 DEF Claim, SweepClaim, Past
  <1> QED BY <1>3

\* A command that is no deploy touches no app.
LEMMA AdvanceWatched ==
  ASSUME IInv, NEW p \in Procs, Advance(p),
         \A s \in Apps \ (failed \cup lost') :
           proc[p].cmd = "deploy" /\ proc[p].svc = s => Watched(s)'
  PROVE  SecretWatched'
  <1> SUFFICES ASSUME NEW s \in Apps, s \notin failed' \cup lost' PROVE Watched(s)'
    BY DEF SecretWatched
  <1>1. s \notin failed \cup lost' /\ Watched(s) /\ s \in Services /\ Typed
    BY DEF Advance, IInv, SecretWatched, Services
  <1>2. CASE proc[p].cmd = "deploy" /\ proc[p].svc = s
    BY <1>1, <1>2
  <1>3. CASE ~(proc[p].cmd = "deploy" /\ proc[p].svc = s)
    <2>1. s \notin WorkedOn(p)
      <3>1. Course(p) /\ Gha \in Addons
        BY <1>1, WorkloadsAssumption DEF Typed, WorkloadsAssumption
      <3>2. proc[p].cmd \in Commands /\ proc[p].cmd # ""
        BY <1>1 DEF Typed, ProcType, Advance
      <3>3. proc[p].cmd # "deploy" => proc[p].svc \in Addons \cup Runners
        BY <3>1, <3>2 DEF Course, Commands
      <3>4. proc[p].svc # s
        BY <1>3, <3>3, NamesApart DEF NamesApart
      <3> QED BY <1>1, <3>1, <3>2, <3>4, WorkedOnIs, NamesApart DEF NamesApart
    <2>2. SameService(s)
      BY <1>1, <2>1 DEF Advance
    <2>3. \A q \in Procs : /\ (proc'[q].cmd = "deploy" /\ proc'[q].svc = s
                                 <=> proc[q].cmd = "deploy" /\ proc[q].svc = s)
                           /\ proc[q].cmd = "deploy" /\ proc[q].svc = s => proc'[q] = proc[q]
      BY <1>3 DEF Advance, OthersStay
    <2>4. (Secret(s) \in cluster' <=> Secret(s) \in cluster) /\ (Has(s)' <=> Has(s))
      BY <2>2 DEF SameService, Secret, Has
    <2>5. \A q \in Procs : Answers(q, s) => Answers(q, s)'
      BY <2>3 DEF Answers
    <2>6. CASE \E q \in Procs : Answers(q, s)
      BY <2>5, <2>6 DEF Watched
    <2>7. CASE Secret(s) \in cluster
      BY <2>4, <2>7 DEF Watched, Secret
    <2>8. CASE ~Has(s) /\ \A q \in Procs : proc[q].cmd = "deploy" /\ proc[q].svc = s =>
                              proc[q].at \notin {"apply", "rollout", "upsert"}
      <3>1. \A q \in Procs : proc'[q].cmd = "deploy" /\ proc'[q].svc = s =>
                               proc'[q].at \notin {"apply", "rollout", "upsert"}
        BY <2>3, <2>8
      <3> QED BY <2>4, <2>8, <3>1 DEF Watched
    <2> QED BY <1>1, <2>6, <2>7, <2>8 DEF Watched
  <1> QED BY <1>2, <1>3

LEMMA AdvanceIInv ==
  ASSUME IInv, NEW p \in Procs, Advance(p), Course(p)', Tale(p)', Claim(p)',
         \A s \in Apps \ (failed \cup lost') :
           proc[p].cmd = "deploy" /\ proc[p].svc = s => Watched(s)'
  PROVE  IInv'
  <1>1. Typed /\ Typed'
    BY AdvanceTyped DEF IInv
  <1>2. Apart'
    BY <1>1, AdvanceWorks DEF IInv, Apart, Advance
  <1>3. \A q \in Procs : Tale(q)' /\ Claim(q)'
    BY AdvanceOthers
  <1>4. SuccessMeansAgreement'
    <2> SUFFICES ASSUME NEW s \in Services, s \notin lost' \cup contested', Idling(s)', last'[s] = "ok"
                 PROVE  Agree(s)'
      BY DEF SuccessMeansAgreement
    <2>1. Idling(s) /\ s \notin lost \cup contested /\ last[s] = "ok"
      BY <1>1, AdvanceWorks DEF Advance
    <2>2. Agree(s) /\ s \notin WorkedOn(p)
      BY <2>1 DEF IInv, SuccessMeansAgreement, Idling
    <2>3. SameService(s)
      BY <2>2 DEF Advance
    <2> QED BY <2>2, <2>3, SameAgree
  <1> QED BY <1>1, <1>2, <1>3, <1>4, AdvanceController, AdvanceWatched DEF IInv

-----------------------------------------------------------------------------
(* The pieces of a step. *)

\* The process goes on with the same command and service.
Becomes(p, at, todo, told, err) ==
  /\ proc' \in [Procs -> ProcType] /\ OthersStay(p)
  /\ proc'[p].cmd = proc[p].cmd /\ proc'[p].svc = proc[p].svc
  /\ proc'[p].at = at /\ proc'[p].todo = todo /\ proc'[p].told = told /\ proc'[p].err = err

LEMMA OneBecomes ==
  ASSUME Typed, NEW p \in Procs, NEW n \in ProcType, proc' = [proc EXCEPT ![p] = n],
         n.cmd = proc[p].cmd, n.svc = proc[p].svc
  PROVE  Becomes(p, n.at, n.todo, n.told, n.err)
  <1>1. proc' \in [Procs -> ProcType] /\ OthersStay(p) /\ proc'[p] = n
    BY DEF Typed, OthersStay
  <1> QED BY <1>1 DEF Becomes

LEMMA Going ==
  ASSUME Typed, NEW p \in Procs, NEW at \in Steps
  PROVE  /\ Goto(p, at)
              => Becomes(p, at, proc[p].todo, proc[p].told, proc[p].err)
         /\ Err(p, at)
              => Becomes(p, at, proc[p].todo, proc[p].told, TRUE)
  <1>1. proc[p] \in ProcType
    BY DEF Typed
  <1>2. ASSUME Goto(p, at) PROVE Becomes(p, at, proc[p].todo, proc[p].told, proc[p].err)
    <2> DEFINE n == [proc[p] EXCEPT !.at = at]
    <2>1. /\ n \in ProcType /\ n.cmd = proc[p].cmd /\ n.svc = proc[p].svc
          /\ n.at = at /\ n.todo = proc[p].todo /\ n.told = proc[p].told /\ n.err = proc[p].err
      BY <1>1 DEF ProcType
    <2>2. proc' = [proc EXCEPT ![p] = n]
      BY <1>2 DEF Goto
    <2> HIDE DEF n
    <2> QED BY <2>1, <2>2, OneBecomes
  <1>3. ASSUME Err(p, at) PROVE Becomes(p, at, proc[p].todo, proc[p].told, TRUE)
    <2> DEFINE n == [proc[p] EXCEPT !.at = at, !.err = TRUE]
    <2>1. /\ n \in ProcType /\ n.cmd = proc[p].cmd /\ n.svc = proc[p].svc
          /\ n.at = at /\ n.todo = proc[p].todo /\ n.told = proc[p].told /\ n.err = TRUE
      BY <1>1 DEF ProcType
    <2>2. proc' = [proc EXCEPT ![p] = n]
      BY <1>3 DEF Err
    <2> HIDE DEF n
    <2> QED BY <2>1, <2>2, OneBecomes
  <1> QED BY <1>2, <1>3

LEMMA Telling ==
  ASSUME Typed, NEW p \in Procs, NEW at \in Steps,
         NEW told \in {"", "rolled_out", "failed", "uninstalled"}
  PROVE  /\ proc' = [proc EXCEPT ![p].at = at, ![p].told = told]
              => Becomes(p, at, proc[p].todo, told, proc[p].err)
  <1>1. proc[p] \in ProcType
    BY DEF Typed
  <1>2. ASSUME proc' = [proc EXCEPT ![p].at = at, ![p].told = told] PROVE Becomes(p, at, proc[p].todo, told, proc[p].err)
    <2> DEFINE n == [proc[p] EXCEPT !.at = at, !.told = told]
    <2>1. /\ n \in ProcType /\ n.cmd = proc[p].cmd /\ n.svc = proc[p].svc
          /\ n.at = at /\ n.todo = proc[p].todo /\ n.told = told /\ n.err = proc[p].err
      BY <1>1 DEF ProcType
    <2>2. proc' = [proc EXCEPT ![p] = n]
      BY <1>2
    <2> HIDE DEF n
    <2> QED BY <2>1, <2>2, OneBecomes
  <1> QED BY <1>2

LEMMA Listing ==
  ASSUME Typed, NEW p \in Procs, NEW at \in Steps,
         NEW todo \in Seq(Parts \cup Runners)
  PROVE  /\ proc' = [proc EXCEPT ![p].at = at, ![p].todo = todo]
              => Becomes(p, at, todo, proc[p].told, proc[p].err)
         /\ proc' = [proc EXCEPT ![p].todo = todo]
              => Becomes(p, proc[p].at, todo, proc[p].told, proc[p].err)
  <1>1. proc[p] \in ProcType
    BY DEF Typed
  <1>2. ASSUME proc' = [proc EXCEPT ![p].at = at, ![p].todo = todo] PROVE Becomes(p, at, todo, proc[p].told, proc[p].err)
    <2> DEFINE n == [proc[p] EXCEPT !.at = at, !.todo = todo]
    <2>1. /\ n \in ProcType /\ n.cmd = proc[p].cmd /\ n.svc = proc[p].svc
          /\ n.at = at /\ n.todo = todo /\ n.told = proc[p].told /\ n.err = proc[p].err
      BY <1>1 DEF ProcType
    <2>2. proc' = [proc EXCEPT ![p] = n]
      BY <1>2
    <2> HIDE DEF n
    <2> QED BY <2>1, <2>2, OneBecomes
  <1>3. ASSUME proc' = [proc EXCEPT ![p].todo = todo] PROVE Becomes(p, proc[p].at, todo, proc[p].told, proc[p].err)
    <2> DEFINE n == [proc[p] EXCEPT !.todo = todo]
    <2>1. /\ n \in ProcType /\ n.cmd = proc[p].cmd /\ n.svc = proc[p].svc
          /\ n.at = proc[p].at /\ n.todo = todo /\ n.told = proc[p].told /\ n.err = proc[p].err
      BY <1>1 DEF ProcType
    <2>2. proc' = [proc EXCEPT ![p] = n]
      BY <1>3
    <2> HIDE DEF n
    <2> QED BY <2>1, <2>2, OneBecomes
  <1> QED BY <1>2, <1>3

\* p touches the objects of what it works on, and leaves only possible ones.
ClusterStep(p) ==
  /\ cluster' \subseteq Possible
  /\ \A s \in Services \ WorkedOn(p) : \A x : <<s, x>> \in cluster' <=> <<s, x>> \in cluster

LEMMA ClusterSteps ==
  ASSUME Typed, NEW p \in Procs, proc[p].cmd # ""
  PROVE  /\ cluster' = cluster => ClusterStep(p)
         /\ \A x : <<proc[p].svc, x>> \in Possible /\ cluster' = cluster \cup {<<proc[p].svc, x>>}
              => ClusterStep(p)
         /\ \A x : cluster' = cluster \ {<<proc[p].svc, x>>} => ClusterStep(p)
  BY TypedGives, WorkedOnIs DEF ClusterStep

LEMMA PossibleAre ==
  /\ \A a \in Addons : \A x \in PassesOf(a) \ {"wait"} : <<a, x>> \in Possible
  /\ \A s \in Apps : Secret(s) \in Possible /\ Workload(s) \in Possible
  /\ \A r \in Runners : <<r, "set">> \in Possible
  <1>1. \A a \in Addons : \A x \in PassesOf(a) \ {"wait"} : <<a, x>> \in AllObjects(a)
    BY AllObjectsAre
  <1>2. \A a \in Addons : AllObjects(a) \subseteq Possible
    BY DEF Possible
  <1>3. /\ {Secret(s) : s \in Apps} \subseteq Possible /\ {Workload(s) : s \in Apps} \subseteq Possible
        /\ InNamespace \subseteq Possible
    BY DEF Possible
  <1>4. \A r \in Runners : <<r, "set">> \in InNamespace
    BY DEF InNamespace
  <1> QED BY <1>1, <1>2, <1>3, <1>4

LEMMA DeleteStep ==
  ASSUME Typed, NEW p \in Procs, proc[p].cmd = "uninstall", proc[p].svc \in Addons,
         cluster' = cluster \ DeletedWith(proc[p].svc)
  PROVE  ClusterStep(p)
  <1> DEFINE a == proc[p].svc
  <1>1. \A o \in AllObjects(a) : \E x : o = <<a, x>>
    BY AllObjectsAre
  <1>2. \A s \in Services \ WorkedOn(p) : \A x : <<s, x>> \notin DeletedWith(a)
    BY <1>1, WorkedOnIs DEF DeletedWith, InNamespace
  <1> QED BY <1>2, TypedGives DEF ClusterStep

LEMMA FaultTyped ==
  ASSUME Typed, Fault \/ NoFault PROVE faults' \in 0 .. MaxFaults
  <1>1. faults \in 0 .. MaxFaults /\ MaxFaults \in Nat
    BY TypedGives, WorkloadsAssumption DEF WorkloadsAssumption
  <1> QED BY <1>1 DEF Fault, NoFault

\* A step that writes no row.
LEMMA RowsStay ==
  ASSUME Typed, NEW p \in Procs, proc[p].cmd # "", NEW at, NEW todo, NEW told, NEW err,
         Becomes(p, at, todo, told, err), ClusterStep(p), UNCHANGED rows,
         \/ lost' = lost \/ lost' = lost \cup {proc[p].svc} \/ lost' = lost \cup Runners
         \/ \E r \in Runners : lost' = lost \cup {r},
         UNCHANGED <<last, failed, contested, commands>>, Fault \/ NoFault
  PROVE  Advance(p)
  <1>1. faults' \in 0 .. MaxFaults
    BY FaultTyped
  <1>2. proc[p].svc \in Services /\ Runners \subseteq Services
    BY DEF Typed, ProcType, Services
  <1>3. RowsTyped'
    BY TypedGives DEF RowsTyped
  <1>4. lost \subseteq lost' /\ lost' \subseteq Services
    BY <1>2, TypedGives
  <1> QED BY <1>1, <1>3, <1>4 DEF Advance, Becomes, ClusterStep, SameService, Has

\* A step that writes one row.
LEMMA RowWritten ==
  ASSUME Typed, NEW p \in Procs, proc[p].cmd # "", NEW at, NEW todo, NEW told, NEW err,
         Becomes(p, at, todo, told, err), UNCHANGED <<cluster, lost>>,
         NEW s \in WorkedOn(p), NEW kind \in Kinds, rows' = [rows EXCEPT ![s] = kind],
         kind = "app" => s \in Apps, kind = "addon" => s \in Addons,
         kind = "runner" => s \in Runners /\ proc[p].cmd = "addrunner" /\ proc[p].at = "row",
         kind = "" /\ s \in Addons => proc[p].cmd = "uninstall" /\ at = "history",
         UNCHANGED <<last, failed, contested, commands>>, NoFault
  PROVE  Advance(p) /\ rows'[s] = kind /\ \A z \in Services \ {s} : rows'[z] = rows[z]
  <1>1. faults' \in 0 .. MaxFaults
    BY FaultTyped
  <1>2. s \in Services /\ RowsTyped /\ cluster \subseteq Possible /\ lost \subseteq Services
    BY TypedGives, WorkedOnIs
  <1>3. rows' \in [Services -> Kinds] /\ rows'[s] = kind /\ \A z \in Services \ {s} : rows'[z] = rows[z]
    BY <1>2 DEF RowsTyped
  <1>4. Addons \subseteq Services /\ Apps \subseteq Services /\ Runners \subseteq Services
    BY DEF Services
  <1>5. /\ s \in Addons => kind \in {"", "addon"}
        /\ s \in Apps => kind \in {"", "app"}
        /\ s \in Runners => kind \in {"", "runner"}
    BY NamesApart DEF NamesApart, Kinds
  <1>6. RowsTyped'
    BY <1>2, <1>3, <1>4, <1>5 DEF RowsTyped
  <1>7. \A a \in Addons : Has(a) /\ rows'[a] = "" => proc[p].cmd = "uninstall" /\ proc'[p].at = "history"
    BY <1>3, <1>4 DEF Has, Becomes
  <1>8. \A r \in Runners : rows'[r] # "" /\ ~Has(r) => proc[p].cmd = "addrunner" /\ proc[p].at = "row"
    BY <1>3, <1>4, <1>5 DEF Has
  <1>9. \A z \in Services \ WorkedOn(p) : SameService(z)
    BY <1>3 DEF SameService
  <1> QED BY <1>1, <1>2, <1>3, <1>6, <1>7, <1>8, <1>9 DEF Advance, Becomes

\* A claim is that of the command.
LEMMA ClaimFromParts ==
  ASSUME NEW p \in Procs
  PROVE  /\ proc'[p].cmd = "install" /\ InstallClaim(p)' => Claim(p)'
         /\ proc'[p].cmd = "uninstall" /\ UninstallClaim(p)' /\ SweepClaim(p)' => Claim(p)'
         /\ proc'[p].cmd = "deploy" /\ DeployClaim(p)' => Claim(p)'
         /\ proc'[p].cmd = "addrunner" /\ AddRunnerClaim(p)' => Claim(p)'
         /\ proc'[p].cmd = "removerunner" /\ RemoveRunnerClaim(p)' => Claim(p)'
  BY DEF Claim, InstallClaim, UninstallClaim, SweepClaim, DeployClaim, AddRunnerClaim,
         RemoveRunnerClaim

\* A command that failed claims nothing.
LEMMA FailureClaimsNothing ==
  ASSUME NEW p \in Procs, proc'[p].err, proc'[p].at \in {"recordfailure", "done", "unbuilt"}
  PROVE  Claim(p)'
  <1>1. InstallClaim(p)'
    BY DEF InstallClaim, Past
  <1>2. UninstallClaim(p)'
    BY DEF UninstallClaim, Past
  <1>3. SweepClaim(p)'
    BY DEF SweepClaim, Past
  <1>4. DeployClaim(p)'
    BY DEF DeployClaim, Past
  <1>5. AddRunnerClaim(p)' /\ RemoveRunnerClaim(p)'
    BY DEF AddRunnerClaim, RemoveRunnerClaim, Past
  <1> QED BY <1>1, <1>2, <1>3, <1>4, <1>5 DEF Claim

\* A deploy that failed answers for its secret.
LEMMA FailureAnswers ==
  ASSUME NEW p \in Procs, proc'[p].err, proc'[p].cmd = "deploy", NEW s, proc'[p].svc = s
  PROVE  Watched(s)'
  BY DEF Watched, Answers

\* Whatever a call that failed has done to the cluster, the command ends, or
\* records its failure and ends.
LEMMA FailIInv ==
  ASSUME IInv, NEW p \in Procs, NEW at \in Steps, Err(p, at), proc[p].at # "done", ClusterStep(p),
         \/ at = "recordfailure" /\ proc[p].cmd \in {"install", "uninstall", "deploy"}
         \/ at = "done" /\ proc[p].cmd \in {"uninstall", "addrunner", "removerunner"}
         \/ at = "done" /\ proc[p].cmd = "install" /\ proc[p].svc \in lost'
         \/ at = "unbuilt" /\ proc[p].cmd \in {"install", "uninstall"},
         lost' = lost \/ lost' = lost \cup {proc[p].svc},
         UNCHANGED <<rows, last, failed, contested, commands>>, Fault \/ NoFault
  PROVE  IInv'
  <1>1. Typed /\ Course(p) /\ Tale(p)
    BY DEF IInv, Typed
  <1>2. Becomes(p, at, proc[p].todo, proc[p].told, TRUE)
    BY <1>1, Going
  <1>3. Advance(p)
    BY <1>1, <1>2, RowsStay
  <1>4. Course(p)'
    BY <1>1, <1>2 DEF Becomes, Course, Pending
  <1>6. Tale(p)'
    BY <1>1, <1>2 DEF Becomes, Tale
  <1>7. Claim(p)'
    BY <1>2, FailureClaimsNothing DEF Becomes
  <1>8. \A s : proc[p].cmd = "deploy" /\ proc[p].svc = s => Watched(s)'
    BY <1>2, FailureAnswers DEF Becomes
  <1> QED BY <1>3, <1>4, <1>6, <1>7, <1>8, AdvanceIInv

\* The command is under way before and after the step, with the same error.
Onward(p) ==
  /\ proc'[p].told = proc[p].told /\ proc'[p].err = proc[p].err
  /\ proc[p].at \notin {"recordfailure", "unbuilt", "history", "done"}
  /\ proc'[p].at \notin {"recordfailure", "unbuilt", "done"}

LEMMA OnwardIInv ==
  ASSUME IInv, NEW p \in Procs, Advance(p), Onward(p), Course(p)', Claim(p)',
         \A s \in Apps \ (failed \cup lost') :
           proc[p].cmd = "deploy" /\ proc[p].svc = s => Watched(s)'
  PROVE  IInv'
  <1>1. Tale(p) /\ proc'[p].svc = proc[p].svc
    BY DEF IInv, Advance
  <1>2. Tale(p)'
    BY <1>1 DEF Onward, Tale
  <1> QED BY <1>2, AdvanceIInv

LEMMA OnIInv ==
  ASSUME IInv, NEW p \in Procs, Advance(p), Onward(p), Course(p)', Claim(p)',
         proc[p].cmd # "deploy"
  PROVE  IInv'
  BY OnwardIInv

\* A deploy that takes no secret away and brings no row.
LEMMA PlainWatched ==
  ASSUME IInv, NEW p \in Procs, NEW at, NEW todo, NEW told, NEW err,
         Becomes(p, at, todo, told, err), proc[p].at # "createsecret", proc[p].err => err,
         at \in {"apply", "rollout", "upsert"} => proc[p].at \in {"apply", "rollout", "upsert"},
         lost \subseteq lost', NEW s \in Apps, s \notin failed \cup lost',
         Has(s)' => Has(s), Secret(s) \in cluster => Secret(s) \in cluster'
  PROVE  Watched(s)'
  <1>1. Watched(s)
    BY DEF IInv, SecretWatched
  <1>2. CASE Secret(s) \in cluster
    BY <1>2 DEF Watched, Secret
  <1>3. CASE \E q \in Procs : Answers(q, s)
    <2>1. PICK q \in Procs : Answers(q, s)
      BY <1>3
    <2>2. Answers(q, s)'
      BY <2>1 DEF Answers, Becomes, OthersStay
    <2> QED BY <2>2 DEF Watched
  <1>4. CASE ~Has(s) /\ \A q \in Procs : proc[q].cmd = "deploy" /\ proc[q].svc = s =>
                            proc[q].at \notin {"apply", "rollout", "upsert"}
    <2>1. \A q \in Procs : proc'[q].cmd = "deploy" /\ proc'[q].svc = s =>
                             proc'[q].at \notin {"apply", "rollout", "upsert"}
      BY <1>4 DEF Becomes, OthersStay
    <2> QED BY <1>4, <2>1 DEF Watched, Has
  <1> QED BY <1>1, <1>2, <1>3, <1>4 DEF Watched

\* A call that succeeded and changed nothing.
LEMMA GotoIInv ==
  ASSUME IInv, NEW p \in Procs, NEW at \in Steps, Goto(p, at), NoFault,
         UNCHANGED <<rows, cluster, ghosts, commands>>, proc[p].cmd # "",
         proc[p].at \notin {"recordfailure", "unbuilt", "history", "done", "createsecret"},
         at \notin {"recordfailure", "unbuilt", "done"},
         at \in {"apply", "rollout", "upsert"} => proc[p].at \in {"apply", "rollout", "upsert"},
         Becomes(p, at, proc[p].todo, proc[p].told, proc[p].err) => Course(p)' /\ Claim(p)'
  PROVE  IInv'
  <1>1. Typed
    BY DEF IInv
  <1>2. Becomes(p, at, proc[p].todo, proc[p].told, proc[p].err)
    BY <1>1, Going
  <1>3. Advance(p)
    BY <1>1, <1>2, RowsStay, ClusterSteps DEF ghosts
  <1>4. \A s \in Apps \ (failed \cup lost') : Watched(s)'
    BY <1>2, PlainWatched DEF ghosts, Has
  <1>5. Course(p)' /\ Claim(p)' /\ Onward(p)
    BY <1>2 DEF Becomes, Onward
  <1> QED BY <1>3, <1>4, <1>5, OnwardIInv

\* A call that failed and changed nothing.
LEMMA ErrIInv ==
  ASSUME IInv, NEW p \in Procs, NEW at \in Steps, Err(p, at), Fault \/ NoFault,
         UNCHANGED <<rows, cluster, ghosts, commands>>, proc[p].at # "done",
         \/ at = "recordfailure" /\ proc[p].cmd \in {"install", "uninstall", "deploy"}
         \/ at = "done" /\ proc[p].cmd \in {"uninstall", "addrunner", "removerunner"}
         \/ at = "unbuilt" /\ proc[p].cmd \in {"install", "uninstall"}
  PROVE  IInv'
  <1>1. Typed /\ proc[p].cmd # ""
    BY DEF IInv
  <1>2. ClusterStep(p)
    BY <1>1, ClusterSteps DEF ghosts
  <1> QED BY <1>2, FailIInv DEF ghosts

LEMMA IInvGives ==
  ASSUME IInv, NEW p \in Procs
  PROVE  /\ Typed /\ Course(p) /\ Tale(p) /\ Claim(p) /\ SecretWatched /\ Apart
         /\ proc[p] \in ProcType
  BY DEF IInv, Typed

-----------------------------------------------------------------------------
(* Install. *)

LEMMA BuildInstallerIInv == ASSUME IInv, NEW p \in Procs, BuildInstaller(p) PROVE IInv'
  <1>1. Course(p) /\ Claim(p) /\ proc[p].at = "build" /\ proc[p].cmd \in {"install", "uninstall"}
    BY IInvGives DEF BuildInstaller, Course, ProcType, Commands
  <1>2. CASE Err(p, "unbuilt") /\ Fault
    BY <1>1, <1>2, ErrIInv DEF Steps, BuildInstaller, ghosts
  <1>3. CASE Goto(p, "lookup") /\ NoFault
    <2> SUFFICES ASSUME Becomes(p, "lookup", proc[p].todo, proc[p].told, proc[p].err)
                 PROVE  Course(p)' /\ Claim(p)'
      BY <1>1, <1>3, GotoIInv DEF Steps, BuildInstaller, ghosts
    <2>1. Course(p)'
      BY <1>1 DEF Becomes, Course, Pending
    <2>2. proc[p].cmd = "install" => InstallClaim(p)'
      BY DEF Becomes, InstallClaim, Past
    <2>3. proc[p].cmd = "uninstall" => UninstallClaim(p)'
      BY DEF Becomes, UninstallClaim, Past
    <2>4. proc[p].cmd = "uninstall" => SweepClaim(p)'
      BY <1>1 DEF Becomes, Claim, SweepClaim, Past, Free, Has, BuildInstaller, ghosts
    <2> QED BY <1>1, <2>1, <2>2, <2>3, <2>4, ClaimFromParts DEF Becomes
  <1> QED BY <1>2, <1>3 DEF BuildInstaller

LEMMA InstallLookupIInv == ASSUME IInv, NEW p \in Procs, InstallLookup(p) PROVE IInv'
  <1>1. Course(p) /\ proc[p].at = "lookup" /\ proc[p].cmd = "install"
    BY IInvGives DEF InstallLookup, At
  <1>2. CASE Err(p, "recordfailure") /\ Fault
    BY <1>1, <1>2, ErrIInv DEF Steps, InstallLookup, ghosts
  <1>3. CASE Goto(p, "secrets") /\ NoFault
    <2> SUFFICES ASSUME Becomes(p, "secrets", proc[p].todo, proc[p].told, proc[p].err)
                 PROVE  Course(p)' /\ Claim(p)'
      BY <1>1, <1>3, GotoIInv DEF Steps, InstallLookup, ghosts
    <2>1. Course(p)'
      BY <1>1 DEF Becomes, Course, Pending
    <2>2. InstallClaim(p)'
      BY DEF Becomes, InstallClaim, Past
    <2> QED BY <1>1, <2>1, <2>2, ClaimFromParts DEF Becomes
  <1> QED BY <1>2, <1>3 DEF InstallLookup

LEMMA ResolveSecretsIInv == ASSUME IInv, NEW p \in Procs, ResolveSecrets(p) PROVE IInv'
  <1>1. Course(p) /\ proc[p].at = "secrets" /\ proc[p].cmd = "install"
    BY IInvGives DEF ResolveSecrets, At
  <1>2. CASE Err(p, "recordfailure") /\ Fault
    BY <1>1, <1>2, ErrIInv DEF Steps, ResolveSecrets, ghosts
  <1>3. CASE Goto(p, "requires") /\ NoFault
    <2> SUFFICES ASSUME Becomes(p, "requires", proc[p].todo, proc[p].told, proc[p].err)
                 PROVE  Course(p)' /\ Claim(p)'
      BY <1>1, <1>3, GotoIInv DEF Steps, ResolveSecrets, ghosts
    <2>1. Course(p)'
      BY <1>1 DEF Becomes, Course, Pending
    <2>2. InstallClaim(p)'
      BY DEF Becomes, InstallClaim, Past
    <2> QED BY <1>1, <2>1, <2>2, ClaimFromParts DEF Becomes
  <1> QED BY <1>2, <1>3 DEF ResolveSecrets

LEMMA CheckRequiresIInv == ASSUME IInv, NEW p \in Procs, CheckRequires(p) PROVE IInv'
  <1>1. /\ Typed /\ Course(p) /\ proc[p].at = "requires" /\ proc[p].cmd = "install"
        /\ UNCHANGED <<rows, cluster, ghosts, commands>>
    BY IInvGives DEF CheckRequires, At
  <1>2. CASE Err(p, "recordfailure") /\ (NoFault \/ Fault)
    BY <1>1, <1>2, ErrIInv DEF Steps
  <1>3. ASSUME NEW m \in Modes, NoFault,
               proc' = [proc EXCEPT ![p].at = "apply", ![p].todo = Passes(proc[p].svc, m)]
        PROVE  IInv'
    <2> DEFINE a == proc[p].svc
    <2>1. a \in Addons /\ Passes(a, m) \in Seq(Parts \cup Runners)
          /\ ToSet(Passes(a, m)) \subseteq PassesOf(a)
      BY <1>1, PassesTyped DEF Course
    <2>2. Becomes(p, "apply", Passes(a, m), proc[p].told, proc[p].err)
      BY <1>1, <1>3, <2>1, Listing DEF Steps
    <2>3. Advance(p)
      BY <1>1, <1>3, <2>2, RowsStay, ClusterSteps DEF ghosts
    <2>4. Course(p)'
      BY <1>1, <2>1, <2>2 DEF Becomes, Course, Pending
    <2>5. Objects(a, m) \subseteq {<<a, x>> : x \in ToSet(Passes(a, m))}
      BY <2>1, ObjectsAre
    <2>6. InstallClaim(p)'
      BY <2>2, <2>5 DEF Becomes, InstallClaim, Past, Pending
    <2>7. Claim(p)'
      BY <1>1, <2>2, <2>6, ClaimFromParts DEF Becomes
    <2>9. Onward(p) /\ proc[p].cmd # "deploy"
      BY <1>1, <2>2 DEF Onward, Becomes
    <2> QED BY <2>3, <2>4, <2>7, <2>9, OnIInv
  <1> QED BY <1>2, <1>3 DEF CheckRequires

LEMMA InstallPassIInv == ASSUME IInv, NEW p \in Procs, InstallPass(p) PROVE IInv'
  <1> DEFINE a == proc[p].svc
             pass == Head(proc[p].todo)
             applied == cluster \cup (IF pass = "wait" THEN {} ELSE {<<a, pass>>})
  <1>1. /\ Typed /\ Course(p) /\ Claim(p) /\ proc[p].at = "apply" /\ proc[p].cmd = "install"
        /\ proc[p].todo # << >> /\ UNCHANGED <<rows, ghosts, commands>>
    BY IInvGives DEF InstallPass, At
  <1>2. /\ proc[p].todo \in Seq(Parts \cup Runners) /\ Tail(proc[p].todo) \in Seq(Parts \cup Runners)
        /\ Pending(p) = {pass} \cup ToSet(Tail(proc[p].todo))
    BY <1>1, IInvGives, HeadAndTail DEF ProcType, Pending
  <1>3. a \in Addons /\ pass \in PassesOf(a)
    BY <1>1, <1>2 DEF Course
  <1>4. cluster' \in {cluster, applied} => ClusterStep(p)
    <2>1. pass # "wait" => <<a, pass>> \in Possible
      BY <1>3, PossibleAre
    <2>2. applied = cluster \/ (applied = cluster \cup {<<a, pass>>} /\ pass # "wait")
      OBVIOUS
    <2> QED BY <1>1, <2>1, <2>2, ClusterSteps
  <1>5. CASE cluster' \in {cluster, applied} /\ Err(p, "recordfailure") /\ Fault
    BY <1>1, <1>4, <1>5, FailIInv DEF ghosts, Steps
  <1>6. CASE cluster' = applied /\ NoFault /\ proc' = [proc EXCEPT ![p].todo = Tail(@)]
    <2>1. Becomes(p, "apply", Tail(proc[p].todo), proc[p].told, proc[p].err)
      <3>1. proc' = [proc EXCEPT ![p].todo = Tail(proc[p].todo)]
        BY <1>6
      <3> QED BY <1>1, <1>2, <3>1, Listing DEF Steps
    <2>2. Advance(p)
      BY <1>1, <1>4, <1>6, <2>1, RowsStay DEF ghosts
    <2>3. Course(p)'
      BY <1>1, <1>2, <2>1 DEF Becomes, Course, Pending
    <2>4. ASSUME NEW m \in Modes, Objects(a, m) \subseteq cluster \cup {<<a, x>> : x \in Pending(p)}
          PROVE  Objects(a, m) \subseteq cluster' \cup {<<a, x>> : x \in ToSet(Tail(proc[p].todo))}
      <3> SUFFICES ASSUME NEW o \in Objects(a, m), o \notin cluster
                   PROVE  o \in cluster' \/ \E x \in ToSet(Tail(proc[p].todo)) : o = <<a, x>>
        BY <1>6
      <3>1. PICK x \in Pending(p) : o = <<a, x>>
        BY <2>4
      <3>2. x # "wait"
        BY <1>3, <3>1, ObjectsAre
      <3> QED BY <1>2, <1>6, <3>1, <3>2
    <2>5. InstallClaim(p)'
      <3> SUFFICES ASSUME a \in Free' PROVE InstallClaim(p)'
        BY <2>1 DEF InstallClaim, Becomes
      <3>1. a \in Free
        BY <1>1 DEF Free, ghosts
      <3>2. \E m \in Modes : Objects(a, m) \subseteq cluster \cup {<<a, x>> : x \in Pending(p)}
        BY <1>1, <3>1 DEF Claim, InstallClaim
      <3>3. \E m \in Modes : Objects(a, m) \subseteq cluster' \cup {<<a, x>> : x \in ToSet(Tail(proc[p].todo))}
        BY <2>4, <3>2
      <3> QED BY <2>1, <3>3 DEF Becomes, InstallClaim, Past, Pending
    <2>6. Claim(p)'
      BY <1>1, <2>1, <2>5, ClaimFromParts DEF Becomes
    <2>9. Onward(p) /\ proc[p].cmd # "deploy"
      BY <1>1, <2>1 DEF Onward, Becomes
    <2> QED BY <2>2, <2>3, <2>6, <2>9, OnIInv
  <1> QED BY <1>5, <1>6 DEF InstallPass

\* The write of a row is a fault when it is lost.
LEMMA WriteRowCases ==
  ASSUME Typed, NEW p \in Procs, NEW kind, WriteRow(p, kind)
  PROVE  \/ /\ rows' = [rows EXCEPT ![proc[p].svc] = kind] /\ UNCHANGED lost /\ NoFault
            /\ ~(faults' > faults)
         \/ /\ UNCHANGED rows /\ lost' = lost \cup {proc[p].svc} /\ Fault /\ faults' > faults
  <1>1. faults \in Nat
    BY TypedGives
  <1> QED BY <1>1 DEF WriteRow, NoFault, Fault

LEMMA InstallRecordIInv == ASSUME IInv, NEW p \in Procs, InstallRecord(p) PROVE IInv'
  <1> DEFINE a == proc[p].svc
  <1>1. /\ Typed /\ Course(p) /\ Claim(p) /\ proc[p].at = "apply" /\ proc[p].cmd = "install"
        /\ proc[p].todo = << >> /\ UNCHANGED <<cluster, last, failed, contested, commands>>
        /\ a \in WorkedOn(p)
    BY IInvGives, WorkedOnIs DEF InstallRecord, At
  <1>2. CASE UNCHANGED rows /\ lost' = lost \cup {a} /\ Fault /\ Err(p, "done")
    <2>1. ClusterStep(p) /\ a \in lost'
      BY <1>1, <1>2, ClusterSteps
    <2> QED BY <1>1, <1>2, <2>1, FailIInv DEF Steps
  <1>3. CASE rows' = [rows EXCEPT ![a] = "addon"] /\ UNCHANGED lost /\ NoFault /\ Goto(p, "history")
    <2>1. a \in Addons /\ a \in Services
      BY <1>1 DEF Course, Services
    <2>2. Becomes(p, "history", proc[p].todo, proc[p].told, proc[p].err)
      BY <1>1, <1>3, Going DEF Steps
    <2>3. Advance(p) /\ rows'[a] = "addon"
      BY <1>1, <1>3, <2>1, <2>2, RowWritten DEF Kinds
    <2>4. Course(p)'
      BY <1>1, <2>2 DEF Becomes, Course, Pending
    <2>5. Pending(p) = {}
      BY <1>1, NothingPending DEF Pending
    <2>6. a \in Free => \E m \in Modes : Objects(a, m) \subseteq cluster
      BY <1>1, <2>5 DEF Claim, InstallClaim
    <2>7. InstallClaim(p)'
      BY <1>1, <1>3, <2>2, <2>3, <2>6 DEF Becomes, InstallClaim, Past, Has, Free
    <2>8. Claim(p)'
      BY <1>1, <2>2, <2>7, ClaimFromParts DEF Becomes
    <2>9. Onward(p) /\ proc[p].cmd # "deploy"
      BY <1>1, <2>2 DEF Onward, Becomes
    <2> QED BY <2>3, <2>4, <2>8, <2>9, OnIInv
  <1>4. WriteRow(p, "addon") /\ IF faults' > faults THEN Err(p, "done") ELSE Goto(p, "history")
    BY DEF InstallRecord
  <1>5. \/ /\ rows' = [rows EXCEPT ![a] = "addon"] /\ UNCHANGED lost /\ NoFault
           /\ ~(faults' > faults)
        \/ UNCHANGED rows /\ lost' = lost \cup {a} /\ Fault /\ faults' > faults
    BY <1>1, <1>4, WriteRowCases
  <1> QED BY <1>2, <1>3, <1>4, <1>5

LEMMA InstallHistoryIInv == ASSUME IInv, NEW p \in Procs, InstallHistory(p) PROVE IInv'
  <1> DEFINE a == proc[p].svc
  <1>1. /\ Typed /\ Course(p) /\ Tale(p) /\ Claim(p) /\ proc[p].at = "history" /\ proc[p].cmd = "install"
        /\ UNCHANGED <<rows, cluster, last, failed, contested, commands>>
    BY IInvGives DEF InstallHistory, At
  <1>2. CASE Err(p, "done") /\ lost' = lost \cup {a} /\ Fault
    <2>1. ClusterStep(p) /\ a \in lost'
      BY <1>1, <1>2, ClusterSteps
    <2> QED BY <1>1, <1>2, <2>1, FailIInv DEF Steps
  <1>3. CASE /\ proc' = [proc EXCEPT ![p].at = "done", ![p].told = "rolled_out"]
             /\ UNCHANGED lost /\ NoFault
    <2>1. Becomes(p, "done", proc[p].todo, "rolled_out", proc[p].err)
      BY <1>1, <1>3, Telling DEF Steps
    <2>2. Advance(p)
      BY <1>1, <1>3, <2>1, RowsStay, ClusterSteps
    <2>3. Course(p)'
      BY <1>1, <2>1 DEF Becomes, Course, Pending
    <2>4. Tale(p)'
      <3>1. proc[p].err => a \in lost'
        BY <1>1, <1>3 DEF Tale
      <3> QED BY <1>1, <2>1, <3>1 DEF Becomes, Tale
    <2>5. InstallClaim(p)'
      BY <1>1, <1>3, <2>1 DEF Becomes, Claim, InstallClaim, Past, Free, Has
    <2>6. Claim(p)'
      BY <1>1, <2>1, <2>5, ClaimFromParts DEF Becomes
    <2> QED BY <1>1, <2>2, <2>3, <2>4, <2>6, AdvanceIInv
  <1> QED BY <1>1, <1>2, <1>3 DEF InstallHistory

\* The end of a failed install, uninstall or deploy.
LEMMA RecordFailureIInv == ASSUME IInv, NEW p \in Procs, RecordFailure(p) PROVE IInv'
  <1>1. /\ Typed /\ Course(p) /\ Tale(p) /\ proc[p].at = "recordfailure" /\ proc[p].err
        /\ proc[p].cmd \in {"install", "uninstall", "deploy"}
        /\ UNCHANGED <<rows, cluster, last, failed, contested, commands>>
    BY IInvGives DEF RecordFailure, Tale, Course, ProcType, Commands
  <1>2. PICK told \in {"", "rolled_out", "failed", "uninstalled"} :
          /\ Becomes(p, "done", proc[p].todo, told, TRUE)
          /\ told = "failed" \/ (told = "" /\ proc[p].svc \in lost')
          /\ lost' = lost \/ lost' = lost \cup {proc[p].svc}
          /\ Fault \/ NoFault
    <2>1. CASE /\ proc' = [proc EXCEPT ![p].at = "done", ![p].told = "failed"]
               /\ UNCHANGED lost /\ NoFault
      <3>1. Becomes(p, "done", proc[p].todo, "failed", TRUE)
        BY <1>1, <2>1, Telling DEF Steps
      <3> QED BY <2>1, <3>1
    <2>2. CASE Goto(p, "done") /\ lost' = lost \cup {proc[p].svc} /\ Fault
      <3>1. Becomes(p, "done", proc[p].todo, "", TRUE)
        BY <1>1, <2>2, Going DEF Steps, Tale
      <3> QED BY <2>2, <3>1
    <2> QED BY <2>1, <2>2 DEF RecordFailure, WriteHistory
  <1>3. Advance(p)
    BY <1>1, <1>2, RowsStay, ClusterSteps
  <1>4. Course(p)'
    BY <1>1, <1>2 DEF Becomes, Course, Pending
  <1>5. Tale(p)'
    BY <1>1, <1>2 DEF Becomes, Tale
  <1>6. Claim(p)'
    BY <1>2, FailureClaimsNothing DEF Becomes
  <1>7. \A s : proc[p].cmd = "deploy" /\ proc[p].svc = s => Watched(s)'
    BY <1>2, FailureAnswers DEF Becomes
  <1> QED BY <1>3, <1>4, <1>5, <1>6, <1>7, AdvanceIInv

-----------------------------------------------------------------------------
(* Uninstall. *)

LEMMA ListRunnersIInv == ASSUME IInv, NEW p \in Procs, ListRunners(p) PROVE IInv'
  <1>1. /\ Typed /\ Course(p) /\ Claim(p) /\ proc[p].at = "list" /\ proc[p].cmd = "uninstall"
        /\ proc[p].svc = Gha /\ UNCHANGED <<rows, cluster, last, failed, contested, commands>>
    BY IInvGives DEF ListRunners, At, Course
  <1>2. CASE Fault /\ Err(p, "done") /\ UNCHANGED lost
    <2>1. ClusterStep(p)
      BY <1>1, ClusterSteps
    <2> QED BY <1>1, <1>2, <2>1, FailIInv DEF Steps
  <1>3. CASE Fault /\ Goto(p, "runners") /\ lost' = lost \cup Runners
    <2>1. Becomes(p, "runners", proc[p].todo, proc[p].told, proc[p].err)
      BY <1>1, <1>3, Going DEF Steps
    <2>2. Advance(p)
      BY <1>1, <1>3, <2>1, RowsStay, ClusterSteps
    <2>3. Course(p)'
      BY <1>1, <2>1 DEF Becomes, Course, Pending
    <2>4. UninstallClaim(p)'
      BY <2>1 DEF Becomes, UninstallClaim, Past
    <2>5. Runners \cap Free' = {}
      BY <1>3 DEF Free
    <2>6. SweepClaim(p)'
      BY <2>5 DEF SweepClaim
    <2>7. Claim(p)'
      BY <1>1, <2>1, <2>4, <2>6, ClaimFromParts DEF Becomes
    <2>9. Onward(p) /\ proc[p].cmd # "deploy"
      BY <1>1, <2>1 DEF Onward, Becomes
    <2> QED BY <2>2, <2>3, <2>7, <2>9, OnIInv
  <1>4. CASE /\ proc' = [proc EXCEPT ![p].at = "runners", ![p].todo = SetToSeq(RunnerRows)]
             /\ NoFault /\ UNCHANGED lost
    <2> DEFINE list == SetToSeq(RunnerRows)
    <2>1. /\ list \in Seq(Parts \cup Runners) /\ ToSet(list) = RunnerRows /\ RunnerRows \subseteq Runners
          /\ \A r \in Runners : Has(r) <=> r \in RunnerRows
      BY <1>1, RunnersListed
    <2>2. Becomes(p, "runners", list, proc[p].told, proc[p].err)
      BY <1>1, <1>4, <2>1, Listing DEF Steps
    <2>3. Advance(p)
      BY <1>1, <1>4, <2>2, RowsStay, ClusterSteps
    <2>4. Course(p)'
      BY <1>1, <2>1, <2>2 DEF Becomes, Course, Pending
    <2>5. UninstallClaim(p)'
      BY <2>2 DEF Becomes, UninstallClaim, Past
    <2>6. SweepClaim(p)'
      BY <1>1, <2>1, <2>2 DEF Becomes, SweepClaim, Past, Pending, Has
    <2>7. Claim(p)'
      BY <1>1, <2>2, <2>5, <2>6, ClaimFromParts DEF Becomes
    <2> HIDE DEF list
    <2>9. Onward(p) /\ proc[p].cmd # "deploy"
      BY <1>1, <2>2 DEF Onward, Becomes
    <2> QED BY <2>3, <2>4, <2>7, <2>9, OnIInv
  <1> QED BY <1>2, <1>3, <1>4 DEF ListRunners

LEMMA RemoveRunnerIInv == ASSUME IInv, NEW p \in Procs, RemoveRunner(p) PROVE IInv'
  <1> DEFINE r == Head(proc[p].todo)
             rest == Tail(proc[p].todo)
  <1>1. /\ Typed /\ Course(p) /\ Claim(p) /\ proc[p].at = "runners" /\ proc[p].cmd = "uninstall"
        /\ proc[p].svc = Gha /\ UNCHANGED <<cluster, last, failed, contested, commands>>
        /\ proc[p].todo # << >> /\ proc' = [proc EXCEPT ![p].todo = rest]
        /\ WorkedOn(p) = {Gha} \cup Runners
    BY IInvGives, WorkedOnIs DEF RemoveRunner, At, Course
  <1>2. /\ rest \in Seq(Parts \cup Runners) /\ Pending(p) = {r} \cup ToSet(rest)
        /\ r \in Runners /\ ToSet(rest) \subseteq Runners
    <2>1. proc[p].todo \in Seq(Parts \cup Runners) /\ proc[p].todo # << >>
      BY <1>1, IInvGives DEF ProcType
    <2>2. rest \in Seq(Parts \cup Runners) /\ Pending(p) = {r} \cup ToSet(rest)
      BY <2>1, HeadAndTail DEF Pending
    <2>3. Pending(p) \subseteq Runners
      BY <1>1 DEF Course
    <2> QED BY <2>2, <2>3
  <1>3. Becomes(p, "runners", rest, proc[p].told, proc[p].err)
    BY <1>1, <1>2, Listing DEF Steps
  <1>4. Course(p)'
    BY <1>1, <1>2, <1>3 DEF Becomes, Course, Pending
  <1>5. UninstallClaim(p)'
    BY <1>3 DEF Becomes, UninstallClaim, Past
  <1>6. \A q \in Runners \cap Free : Has(q) => q \in Pending(p)
    BY <1>1 DEF Claim, SweepClaim
  <1> HIDE DEF r, rest
  <1>7. CASE rows' = [rows EXCEPT ![r] = ""] /\ NoFault /\ UNCHANGED lost
    <2>1. /\ Advance(p) /\ rows'[r] = "" /\ \A z \in Services \ {r} : rows'[z] = rows[z]
      BY <1>1, <1>2, <1>3, <1>7, RowWritten, NamesApart DEF NamesApart, Kinds
    <2>2. SweepClaim(p)'
      <3> SUFFICES ASSUME NEW q \in Runners \cap Free', Has(q)' PROVE q \in ToSet(rest)
        BY <1>3 DEF Becomes, SweepClaim, Past, Pending
      <3>1. q \in Free /\ q # r /\ Has(q)
        BY <1>1, <1>7, <2>1 DEF Has, Free
      <3> QED BY <1>2, <1>6, <3>1
    <2>3. Claim(p)'
      BY <1>1, <1>3, <1>5, <2>2, ClaimFromParts DEF Becomes
    <2>9. Onward(p) /\ proc[p].cmd # "deploy"
      BY <1>1, <1>3 DEF Onward, Becomes
    <2> QED BY <1>4, <2>1, <2>3, <2>9, OnIInv
  <1>8. CASE UNCHANGED rows /\ Fault /\ lost' = lost \cup {r}
    <2>1. Advance(p)
      BY <1>1, <1>2, <1>3, <1>8, RowsStay, ClusterSteps
    <2>2. SweepClaim(p)'
      <3> SUFFICES ASSUME NEW q \in Runners \cap Free', Has(q)' PROVE q \in ToSet(rest)
        BY <1>3 DEF Becomes, SweepClaim, Past, Pending
      <3>1. q \in Free /\ q # r /\ Has(q)
        BY <1>1, <1>8 DEF Has, Free
      <3> QED BY <1>2, <1>6, <3>1
    <2>3. Claim(p)'
      BY <1>1, <1>3, <1>5, <2>2, ClaimFromParts DEF Becomes
    <2>9. Onward(p) /\ proc[p].cmd # "deploy"
      BY <1>1, <1>3 DEF Onward, Becomes
    <2> QED BY <1>4, <2>1, <2>3, <2>9, OnIInv
  <1> QED BY <1>7, <1>8 DEF RemoveRunner, r

LEMMA RunnersRemovedIInv == ASSUME IInv, NEW p \in Procs, RunnersRemoved(p) PROVE IInv'
  <1>1. /\ Course(p) /\ Claim(p) /\ proc[p].at = "runners" /\ proc[p].cmd = "uninstall"
        /\ Pending(p) = {} /\ proc[p].svc = Gha /\ UNCHANGED <<rows, cluster, ghosts, commands>>
    BY IInvGives, NothingPending DEF RunnersRemoved, At, Pending, Course
  <1> SUFFICES ASSUME Becomes(p, "build", proc[p].todo, proc[p].told, proc[p].err)
               PROVE  Course(p)' /\ Claim(p)'
    BY <1>1, GotoIInv DEF RunnersRemoved, Steps, NoFault
  <1>2. Course(p)'
    BY <1>1 DEF Becomes, Course, Pending
  <1>3. UninstallClaim(p)'
    BY DEF Becomes, UninstallClaim, Past
  <1>4. SweepClaim(p)'
    BY <1>1 DEF Becomes, Claim, SweepClaim, Past, Free, Has, ghosts
  <1> QED BY <1>1, <1>2, <1>3, <1>4, ClaimFromParts DEF Becomes

LEMMA UninstallLookupIInv == ASSUME IInv, NEW p \in Procs, UninstallLookup(p) PROVE IInv'
  <1>1. /\ Course(p) /\ Claim(p) /\ proc[p].at = "lookup" /\ proc[p].cmd = "uninstall"
        /\ UNCHANGED <<rows, cluster, ghosts, commands>>
    BY IInvGives DEF UninstallLookup, At
  <1>2. CASE Err(p, "done") /\ (NoFault \/ Fault)
    BY <1>1, <1>2, ErrIInv DEF Steps
  <1>3. CASE Goto(p, "delete") /\ NoFault
    <2> SUFFICES ASSUME Becomes(p, "delete", proc[p].todo, proc[p].told, proc[p].err)
                 PROVE  Course(p)' /\ Claim(p)'
      BY <1>1, <1>3, GotoIInv DEF Steps
    <2>1. Course(p)'
      BY <1>1 DEF Becomes, Course, Pending
    <2>2. UninstallClaim(p)'
      BY DEF Becomes, UninstallClaim, Past
    <2>3. SweepClaim(p)'
      BY <1>1 DEF Becomes, Claim, SweepClaim, Past, Free, Has, ghosts
    <2> QED BY <1>1, <2>1, <2>2, <2>3, ClaimFromParts DEF Becomes
  <1> QED BY <1>2, <1>3 DEF UninstallLookup

LEMMA UninstallDeleteIInv == ASSUME IInv, NEW p \in Procs, UninstallDelete(p) PROVE IInv'
  <1> DEFINE a == proc[p].svc
  <1>1. /\ Typed /\ Course(p) /\ Claim(p) /\ proc[p].at = "delete" /\ proc[p].cmd = "uninstall"
        /\ a \in Addons /\ UNCHANGED <<rows, ghosts, commands>>
    BY IInvGives DEF UninstallDelete, At, Course
  <1>2. cluster' \in {cluster, cluster \ DeletedWith(a)} => ClusterStep(p)
    BY <1>1, DeleteStep, ClusterSteps
  <1>3. CASE cluster' \in {cluster, cluster \ DeletedWith(a)} /\ Err(p, "recordfailure") /\ Fault
    BY <1>1, <1>2, <1>3, FailIInv DEF ghosts, Steps
  <1>4. CASE cluster' = cluster \ DeletedWith(a) /\ Goto(p, "deleterow") /\ NoFault
    <2>1. Becomes(p, "deleterow", proc[p].todo, proc[p].told, proc[p].err)
      BY <1>1, <1>4, Going DEF Steps
    <2>2. Advance(p)
      BY <1>1, <1>2, <1>4, <2>1, RowsStay DEF ghosts
    <2>3. Course(p)'
      BY <1>1, <2>1 DEF Becomes, Course, Pending
    <2>4. AllObjects(a) \cap cluster' = {} /\ (a = Gha => InNamespace \cap cluster' = {})
      BY <1>4 DEF DeletedWith
    <2>5. UninstallClaim(p)'
      BY <2>1, <2>4 DEF Becomes, UninstallClaim, Past
    <2>6. SweepClaim(p)'
      BY <1>1, <2>1, <2>4 DEF Becomes, Claim, SweepClaim, Past, Free, Has, ghosts, InNamespace
    <2>7. Claim(p)'
      BY <1>1, <2>1, <2>5, <2>6, ClaimFromParts DEF Becomes
    <2>9. Onward(p) /\ proc[p].cmd # "deploy"
      BY <1>1, <2>1 DEF Onward, Becomes
    <2> QED BY <2>2, <2>3, <2>7, <2>9, OnIInv
  <1> QED BY <1>3, <1>4 DEF UninstallDelete

LEMMA UninstallRecordIInv == ASSUME IInv, NEW p \in Procs, UninstallRecord(p) PROVE IInv'
  <1> DEFINE a == proc[p].svc
  <1>1. /\ Typed /\ Course(p) /\ Tale(p) /\ Claim(p) /\ proc[p].at = "deleterow"
        /\ proc[p].cmd = "uninstall" /\ a \in Addons /\ a \in WorkedOn(p) /\ a \in Services
        /\ UNCHANGED <<cluster, last, failed, contested, commands>>
    BY IInvGives, WorkedOnIs DEF UninstallRecord, At, Course, Services
  <1>2. CASE UNCHANGED rows /\ lost' = lost \cup {a} /\ Fault /\ Err(p, "history")
    <2>1. Becomes(p, "history", proc[p].todo, proc[p].told, TRUE)
      BY <1>1, <1>2, Going DEF Steps
    <2>2. Advance(p)
      BY <1>1, <1>2, <2>1, RowsStay, ClusterSteps
    <2>3. Course(p)'
      BY <1>1, <2>1 DEF Becomes, Course, Pending
    <2>4. Tale(p)'
      BY <1>1, <1>2, <2>1 DEF Becomes, Tale
    <2>5. UninstallClaim(p)'
      BY <1>2, <2>1 DEF Becomes, UninstallClaim, Free
    <2>6. SweepClaim(p)'
      BY <1>1, <1>2, <2>1 DEF Becomes, Claim, SweepClaim, Past, Free, Has
    <2>7. Claim(p)'
      BY <1>1, <2>1, <2>5, <2>6, ClaimFromParts DEF Becomes
    <2> QED BY <1>1, <2>2, <2>3, <2>4, <2>7, AdvanceIInv
  <1>3. CASE rows' = [rows EXCEPT ![a] = ""] /\ UNCHANGED lost /\ NoFault /\ Goto(p, "history")
    <2>1. Becomes(p, "history", proc[p].todo, proc[p].told, proc[p].err)
      BY <1>1, <1>3, Going DEF Steps
    <2>2. /\ Advance(p) /\ rows'[a] = "" /\ \A z \in Services \ {a} : rows'[z] = rows[z]
      BY <1>1, <1>3, <2>1, RowWritten DEF Kinds
    <2>3. Course(p)'
      BY <1>1, <2>1 DEF Becomes, Course, Pending
    <2>4. UninstallClaim(p)'
      BY <1>1, <1>3, <2>1, <2>2 DEF Becomes, Claim, UninstallClaim, Past, Free, Has
    <2>5. \A r \in Runners : r \in Services /\ r # a
      BY <1>1, NamesApart DEF NamesApart, Services
    <2>6. SweepClaim(p)'
      BY <1>1, <1>3, <2>1, <2>2, <2>5 DEF Becomes, Claim, SweepClaim, Past, Free, Has
    <2>7. Claim(p)'
      BY <1>1, <2>1, <2>4, <2>6, ClaimFromParts DEF Becomes
    <2>8. Advance(p)
      BY <2>2
    <2>9. Onward(p) /\ proc[p].cmd # "deploy"
      BY <1>1, <2>1 DEF Onward, Becomes
    <2> QED BY <2>3, <2>7, <2>8, <2>9, OnIInv
  <1>4. WriteRow(p, "") /\ IF faults' > faults THEN Err(p, "history") ELSE Goto(p, "history")
    BY DEF UninstallRecord
  <1>5. \/ /\ rows' = [rows EXCEPT ![a] = ""] /\ UNCHANGED lost /\ NoFault
           /\ ~(faults' > faults)
        \/ UNCHANGED rows /\ lost' = lost \cup {a} /\ Fault /\ faults' > faults
    BY <1>1, <1>4, WriteRowCases
  <1> QED BY <1>2, <1>3, <1>4, <1>5

LEMMA UninstallHistoryIInv == ASSUME IInv, NEW p \in Procs, UninstallHistory(p) PROVE IInv'
  <1> DEFINE a == proc[p].svc
  <1>1. /\ Typed /\ Course(p) /\ Tale(p) /\ Claim(p) /\ proc[p].at = "history"
        /\ proc[p].cmd = "uninstall"
        /\ UNCHANGED <<rows, cluster, last, failed, contested, commands>>
    BY IInvGives DEF UninstallHistory, At
  <1>2. CASE Err(p, "done") /\ lost' = lost \cup {a} /\ Fault
    <2>1. ClusterStep(p) /\ a \in lost'
      BY <1>1, <1>2, ClusterSteps
    <2> QED BY <1>1, <1>2, <2>1, FailIInv DEF Steps
  <1>3. CASE /\ proc' = [proc EXCEPT ![p].at = "done", ![p].told = "uninstalled"]
             /\ UNCHANGED lost /\ NoFault
    <2>1. Becomes(p, "done", proc[p].todo, "uninstalled", proc[p].err)
      BY <1>1, <1>3, Telling DEF Steps
    <2>2. Advance(p)
      BY <1>1, <1>3, <2>1, RowsStay, ClusterSteps
    <2>3. Course(p)'
      BY <1>1, <2>1 DEF Becomes, Course, Pending
    <2>4. Tale(p)'
      <3>1. proc[p].err => a \in lost'
        BY <1>1, <1>3 DEF Tale
      <3> QED BY <1>1, <2>1, <3>1 DEF Becomes, Tale
    <2>5. UninstallClaim(p)'
      BY <1>1, <1>3, <2>1 DEF Becomes, Claim, UninstallClaim, Past, Free, Has
    <2>6. SweepClaim(p)'
      BY <1>1, <1>3, <2>1 DEF Becomes, Claim, SweepClaim, Past, Free, Has
    <2>7. Claim(p)'
      BY <1>1, <2>1, <2>5, <2>6, ClaimFromParts DEF Becomes
    <2>8. proc[p].cmd = "uninstall"
      BY <1>1
    <2> QED BY <2>2, <2>3, <2>4, <2>7, <2>8, AdvanceIInv
  <1> QED BY <1>1, <1>2, <1>3 DEF UninstallHistory

-----------------------------------------------------------------------------
(* Deploy. *)

LEMMA FetchIInv == ASSUME IInv, NEW p \in Procs, Fetch(p) PROVE IInv'
  <1>1. Course(p) /\ proc[p].at = "fetch" /\ proc[p].cmd = "deploy"
    BY IInvGives DEF Fetch, At
  <1>2. CASE Err(p, "recordfailure") /\ Fault
    BY <1>1, <1>2, ErrIInv DEF Steps, Fetch, ghosts
  <1>3. CASE Goto(p, "resolve") /\ NoFault
    <2> SUFFICES ASSUME Becomes(p, "resolve", proc[p].todo, proc[p].told, proc[p].err)
                 PROVE  Course(p)' /\ Claim(p)'
      BY <1>1, <1>3, GotoIInv DEF Steps, Fetch, ghosts
    <2>1. Course(p)'
      BY <1>1 DEF Becomes, Course, Pending
    <2>2. DeployClaim(p)'
      BY DEF Becomes, DeployClaim, Past
    <2> QED BY <1>1, <2>1, <2>2, ClaimFromParts DEF Becomes
  <1> QED BY <1>2, <1>3 DEF Fetch

LEMMA ResolveDeployIInv == ASSUME IInv, NEW p \in Procs, ResolveDeploy(p) PROVE IInv'
  <1>1. Course(p) /\ proc[p].at = "resolve" /\ proc[p].cmd = "deploy"
    BY IInvGives DEF ResolveDeploy, At
  <1>2. CASE Err(p, "recordfailure") /\ Fault
    BY <1>1, <1>2, ErrIInv DEF Steps, ResolveDeploy, ghosts
  <1>3. CASE Goto(p, "deletesecret") /\ NoFault
    <2> SUFFICES ASSUME Becomes(p, "deletesecret", proc[p].todo, proc[p].told, proc[p].err)
                 PROVE  Course(p)' /\ Claim(p)'
      BY <1>1, <1>3, GotoIInv DEF Steps, ResolveDeploy, ghosts
    <2>1. Course(p)'
      BY <1>1 DEF Becomes, Course, Pending
    <2>2. DeployClaim(p)'
      BY DEF Becomes, DeployClaim, Past
    <2> QED BY <1>1, <2>1, <2>2, ClaimFromParts DEF Becomes
  <1> QED BY <1>2, <1>3 DEF ResolveDeploy

LEMMA RolloutIInv == ASSUME IInv, NEW p \in Procs, Rollout(p) PROVE IInv'
  <1>1. Course(p) /\ Claim(p) /\ proc[p].at = "rollout" /\ proc[p].cmd = "deploy"
    BY IInvGives DEF Rollout, At
  <1>2. CASE Err(p, "recordfailure") /\ Fault
    BY <1>1, <1>2, ErrIInv DEF Steps, Rollout, ghosts
  <1>3. CASE Goto(p, "upsert") /\ NoFault
    <2> SUFFICES ASSUME Becomes(p, "upsert", proc[p].todo, proc[p].told, proc[p].err)
                 PROVE  Course(p)' /\ Claim(p)'
      BY <1>1, <1>3, GotoIInv DEF Steps, Rollout, ghosts
    <2>1. Course(p)'
      BY <1>1 DEF Becomes, Course, Pending
    <2>2. DeployClaim(p)'
      BY <1>1 DEF Becomes, Claim, DeployClaim, Past, Free, Rollout, ghosts, Secret, Workload
    <2> QED BY <1>1, <2>1, <2>2, ClaimFromParts DEF Becomes
  <1> QED BY <1>2, <1>3 DEF Rollout

LEMMA DeleteSecretIInv == ASSUME IInv, NEW p \in Procs, DeleteSecret(p) PROVE IInv'
  <1>1. /\ Typed /\ Course(p) /\ proc[p].at = "deletesecret" /\ proc[p].cmd = "deploy"
        /\ Goto(p, "createsecret") /\ UNCHANGED <<rows, ghosts, commands>>
        /\ NoFault \/ Fault
    BY IInvGives DEF DeleteSecret, At
  <1>2. Becomes(p, "createsecret", proc[p].todo, proc[p].told, proc[p].err)
    BY <1>1, Going DEF Steps
  <1>3. ClusterStep(p)
    BY <1>1, ClusterSteps DEF DeleteSecret, Secret
  <1>4. Advance(p)
    BY <1>1, <1>2, <1>3, RowsStay DEF ghosts
  <1>5. Course(p)'
    BY <1>1, <1>2 DEF Becomes, Course, Pending
  <1>6. Claim(p)'
    <2>1. DeployClaim(p)'
      BY <1>2 DEF Becomes, DeployClaim, Past
    <2> QED BY <1>1, <1>2, <2>1, ClaimFromParts DEF Becomes
  <1>7. \A s : proc[p].svc = s => Watched(s)'
    BY <1>1, <1>2 DEF Becomes, Watched, Answers
  <1>8. Onward(p)
    BY <1>1, <1>2 DEF Onward, Becomes
  <1> QED BY <1>4, <1>5, <1>6, <1>7, <1>8, OnwardIInv

LEMMA CreateSecretIInv == ASSUME IInv, NEW p \in Procs, CreateSecret(p) PROVE IInv'
  <1> DEFINE s == proc[p].svc
  <1>1. /\ Typed /\ Course(p) /\ proc[p].at = "createsecret" /\ proc[p].cmd = "deploy"
        /\ s \in Apps /\ UNCHANGED <<rows, ghosts, commands>>
    BY IInvGives DEF CreateSecret, At, Course
  <1>2. CASE UNCHANGED cluster /\ Err(p, "recordfailure") /\ (NoFault \/ Fault)
    <2>1. ClusterStep(p)
      BY <1>1, <1>2, ClusterSteps
    <2> QED BY <1>1, <1>2, <2>1, FailIInv DEF ghosts, Steps
  <1>3. CASE cluster' = cluster \cup {Secret(s)} /\ Goto(p, "apply") /\ NoFault
    <2>1. Becomes(p, "apply", proc[p].todo, proc[p].told, proc[p].err)
      BY <1>1, <1>3, Going DEF Steps
    <2>2. ClusterStep(p)
      BY <1>1, <1>3, ClusterSteps, PossibleAre DEF Secret
    <2>3. Advance(p)
      BY <1>1, <1>3, <2>1, <2>2, RowsStay DEF ghosts
    <2>4. Course(p)'
      BY <1>1, <2>1 DEF Becomes, Course, Pending
    <2>5. Claim(p)'
      <3>1. DeployClaim(p)'
        BY <1>3, <2>1 DEF Becomes, DeployClaim, Past, Secret
      <3> QED BY <1>1, <2>1, <3>1, ClaimFromParts DEF Becomes
    <2>6. \A z : z = s => Watched(z)'
      BY <1>3 DEF Watched, Secret
    <2>7. Onward(p)
      BY <1>1, <2>1 DEF Onward, Becomes
    <2> QED BY <2>3, <2>4, <2>5, <2>6, <2>7, OnwardIInv
  <1> QED BY <1>1, <1>2, <1>3 DEF CreateSecret

LEMMA DeployApplyIInv == ASSUME IInv, NEW p \in Procs, DeployApply(p) PROVE IInv'
  <1> DEFINE s == proc[p].svc
             applied == cluster \cup {Workload(s)}
  <1>1. /\ Typed /\ Course(p) /\ Claim(p) /\ proc[p].at = "apply" /\ proc[p].cmd = "deploy"
        /\ s \in Apps /\ UNCHANGED <<rows, ghosts, commands>>
    BY IInvGives DEF DeployApply, At, Course
  <1>2. cluster' \in {cluster, applied} => ClusterStep(p)
    <2>1. Workload(s) \in Possible
      BY <1>1, PossibleAre
    <2> QED BY <1>1, <2>1, ClusterSteps DEF Workload
  <1>3. CASE cluster' \in {cluster, applied} /\ Err(p, "recordfailure") /\ Fault
    BY <1>1, <1>2, <1>3, FailIInv DEF ghosts, Steps
  <1>4. CASE cluster' = applied /\ Goto(p, "rollout") /\ NoFault
    <2>1. Becomes(p, "rollout", proc[p].todo, proc[p].told, proc[p].err)
      BY <1>1, <1>4, Going DEF Steps
    <2>2. Advance(p)
      BY <1>1, <1>2, <1>4, <2>1, RowsStay DEF ghosts
    <2>3. Course(p)'
      BY <1>1, <2>1 DEF Becomes, Course, Pending
    <2>4. Claim(p)'
      <3>1. DeployClaim(p)'
        BY <1>1, <1>4, <2>1 DEF Becomes, Claim, DeployClaim, Past, Free, ghosts, Secret, Workload
      <3> QED BY <1>1, <2>1, <3>1, ClaimFromParts DEF Becomes
    <2>5. \A z \in Apps \ (failed \cup lost') : Watched(z)'
      BY <1>1, <1>4, <2>1, PlainWatched DEF ghosts, Has, Secret
    <2>6. Onward(p)
      BY <1>1, <2>1 DEF Onward, Becomes
    <2> QED BY <2>2, <2>3, <2>4, <2>5, <2>6, OnwardIInv
  <1> QED BY <1>1, <1>3, <1>4 DEF DeployApply

LEMMA DeployRecordIInv == ASSUME IInv, NEW p \in Procs, DeployRecord(p) PROVE IInv'
  <1> DEFINE s == proc[p].svc
  <1>1. /\ Typed /\ Course(p) /\ Tale(p) /\ Claim(p) /\ proc[p].at = "upsert" /\ proc[p].cmd = "deploy"
        /\ s \in Apps /\ s \in WorkedOn(p) /\ Goto(p, "history")
        /\ UNCHANGED <<cluster, last, failed, contested, commands>>
    BY IInvGives, WorkedOnIs DEF DeployRecord, At, Course
  <1>2. Becomes(p, "history", proc[p].todo, proc[p].told, proc[p].err)
    BY <1>1, Going DEF Steps
  <1>3. Course(p)' /\ Onward(p)
    BY <1>1, <1>2 DEF Becomes, Course, Pending, Onward
  <1>4. lost \subseteq lost' => Claim(p)'
    <2>1. lost \subseteq lost' => DeployClaim(p)'
      BY <1>1, <1>2 DEF Becomes, Claim, DeployClaim, Past, Free, Secret, Workload
    <2> QED BY <1>1, <1>2, <2>1, ClaimFromParts DEF Becomes
  <1>5. CASE UNCHANGED rows /\ lost' = lost \cup {s} /\ Fault
    <2>1. Advance(p)
      BY <1>1, <1>2, <1>5, RowsStay, ClusterSteps
    <2> QED BY <1>3, <1>4, <1>5, <2>1, OnwardIInv
  <1>6. CASE rows' = [rows EXCEPT ![s] = "app"] /\ UNCHANGED lost /\ NoFault
    <2>1. Advance(p)
      <3>1. s \notin Addons
        BY <1>1, NamesApart DEF NamesApart
      <3> QED BY <1>1, <1>2, <1>6, <3>1, RowWritten DEF Kinds
    <2>2. ASSUME s \notin failed \cup lost PROVE Watched(s)'
      <3>1. Watched(s) /\ ~Answers(p, s) /\ s \in Apps
        BY <1>1, <2>2, IInvGives DEF SecretWatched, Answers, Tale
      <3>2. CASE Secret(s) \in cluster
        BY <1>1, <1>2, <3>2 DEF Watched, Secret, Becomes
      <3>3. ASSUME NEW q \in Procs, Answers(q, s) PROVE Watched(s)'
        <4>1. q # p /\ proc'[q] = proc[q]
          BY <1>2, <3>1, <3>3 DEF Becomes, OthersStay
        <4>2. \A z : z = s => Answers(q, z)'
          BY <3>3, <4>1 DEF Answers
        <4>3. \A z : z = s => Watched(z)'
          BY <4>2 DEF Watched
        <4> QED BY <1>2, <4>3 DEF Becomes
      <3> QED BY <1>1, <3>1, <3>2, <3>3 DEF Watched
    <2>3. \A z : z = s /\ z \notin failed \cup lost => Watched(z)'
      BY <1>2, <2>2 DEF Becomes
    <2> QED BY <1>3, <1>4, <1>6, <2>1, <2>3, OnwardIInv
  <1> QED BY <1>1, <1>5, <1>6 DEF DeployRecord, WriteRow

LEMMA DeployHistoryIInv == ASSUME IInv, NEW p \in Procs, DeployHistory(p) PROVE IInv'
  <1>1. /\ Typed /\ Course(p) /\ Tale(p) /\ Claim(p) /\ proc[p].at = "history" /\ proc[p].cmd = "deploy"
        /\ UNCHANGED <<rows, cluster, last, failed, contested, commands>>
    BY IInvGives DEF DeployHistory, At
  <1>2. PICK told \in {"", "rolled_out", "failed", "uninstalled"} :
          /\ Becomes(p, "done", proc[p].todo, told, proc[p].err)
          /\ told = "rolled_out" \/ (told = "" /\ proc[p].svc \in lost')
          /\ lost' = lost \/ lost' = lost \cup {proc[p].svc}
          /\ Fault \/ NoFault
    <2>1. CASE /\ proc' = [proc EXCEPT ![p].at = "done", ![p].told = "rolled_out"]
               /\ UNCHANGED lost /\ NoFault
      <3>1. Becomes(p, "done", proc[p].todo, "rolled_out", proc[p].err)
        BY <1>1, <2>1, Telling DEF Steps
      <3> QED BY <2>1, <3>1
    <2>2. CASE Goto(p, "done") /\ lost' = lost \cup {proc[p].svc} /\ Fault
      <3>1. Becomes(p, "done", proc[p].todo, "", proc[p].err)
        BY <1>1, <2>2, Going DEF Steps, Tale
      <3> QED BY <2>2, <3>1
    <2> QED BY <2>1, <2>2 DEF DeployHistory, WriteHistory
  <1>3. Advance(p)
    BY <1>1, <1>2, RowsStay, ClusterSteps
  <1>4. Course(p)'
    BY <1>1, <1>2 DEF Becomes, Course, Pending
  <1>5. Tale(p)'
    <2>1. proc[p].err => proc[p].svc \in lost'
      BY <1>1, <1>2 DEF Tale
    <2> QED BY <1>1, <1>2, <2>1 DEF Becomes, Tale
  <1>6. Claim(p)'
    <2>1. DeployClaim(p)'
      BY <1>1, <1>2 DEF Becomes, Claim, DeployClaim, Past, Free, Secret, Workload
    <2> QED BY <1>1, <1>2, <2>1, ClaimFromParts DEF Becomes
  <1>7. \A s \in Apps \ (failed \cup lost') : Watched(s)'
    BY <1>1, <1>2, PlainWatched DEF Has, Secret
  <1> QED BY <1>3, <1>4, <1>5, <1>6, <1>7, AdvanceIInv


-----------------------------------------------------------------------------
(* Runners. *)

LEMMA RunnerCheckIInv == ASSUME IInv, NEW p \in Procs, RunnerCheck(p) PROVE IInv'
  <1> DEFINE at == IF proc[p].cmd = "addrunner" THEN "name" ELSE "kubectl"
  <1>1. /\ Course(p) /\ proc[p].at = "gha" /\ proc[p].cmd \in {"addrunner", "removerunner"}
        /\ UNCHANGED <<rows, cluster, ghosts, commands>>
    BY IInvGives DEF RunnerCheck, Course, ProcType, Commands
  <1>2. CASE Err(p, "done") /\ (Fault \/ NoFault)
    BY <1>1, <1>2, ErrIInv DEF Steps
  <1>3. CASE Has(Gha) /\ Goto(p, at) /\ NoFault
    <2> SUFFICES ASSUME Becomes(p, at, proc[p].todo, proc[p].told, proc[p].err)
                 PROVE  Course(p)' /\ Claim(p)'
      BY <1>1, <1>3, GotoIInv DEF Steps
    <2>1. Course(p)'
      BY <1>1 DEF Becomes, Course, Pending
    <2>2. proc[p].cmd = "addrunner" => AddRunnerClaim(p)'
      BY <1>1, <1>3 DEF Becomes, AddRunnerClaim, Past, Has
    <2>3. proc[p].cmd = "removerunner" => RemoveRunnerClaim(p)'
      BY DEF Becomes, RemoveRunnerClaim, Past
    <2> QED BY <1>1, <2>1, <2>2, <2>3, ClaimFromParts DEF Becomes
  <1> QED BY <1>2, <1>3 DEF RunnerCheck

LEMMA RunnerNameIInv == ASSUME IInv, NEW p \in Procs, RunnerName(p) PROVE IInv'
  <1>1. /\ Course(p) /\ Claim(p) /\ proc[p].at = "name" /\ proc[p].cmd = "addrunner"
        /\ UNCHANGED <<rows, cluster, ghosts, commands>>
    BY IInvGives DEF RunnerName, At
  <1>2. CASE Err(p, "done") /\ (Fault \/ NoFault)
    BY <1>1, <1>2, ErrIInv DEF Steps
  <1>3. CASE Goto(p, "kubectl") /\ NoFault
    <2> SUFFICES ASSUME Becomes(p, "kubectl", proc[p].todo, proc[p].told, proc[p].err)
                 PROVE  Course(p)' /\ Claim(p)'
      BY <1>1, <1>3, GotoIInv DEF Steps
    <2>1. Course(p)'
      BY <1>1 DEF Becomes, Course, Pending
    <2>2. AddRunnerClaim(p)'
      BY <1>1 DEF Becomes, Claim, AddRunnerClaim, Past, Has, Free, ghosts
    <2> QED BY <1>1, <2>1, <2>2, ClaimFromParts DEF Becomes
  <1> QED BY <1>2, <1>3 DEF RunnerName

LEMMA RunnerApplyIInv == ASSUME IInv, NEW p \in Procs, RunnerApply(p) PROVE IInv'
  <1> DEFINE r == proc[p].svc
             applied == cluster \cup {<<r, "set">>}
  <1>1. /\ Typed /\ Course(p) /\ Claim(p) /\ proc[p].at = "kubectl" /\ proc[p].cmd = "addrunner"
        /\ r \in Runners /\ UNCHANGED <<rows, ghosts, commands>>
    BY IInvGives DEF RunnerApply, At, Course
  <1>2. cluster' \in {cluster, applied} => ClusterStep(p)
    <2>1. <<r, "set">> \in Possible
      BY <1>1, PossibleAre
    <2> QED BY <1>1, <2>1, ClusterSteps
  <1>3. CASE cluster' \in {cluster, applied} /\ Err(p, "done") /\ (Fault \/ NoFault)
    BY <1>1, <1>2, <1>3, FailIInv DEF ghosts, Steps
  <1>4. CASE cluster' = applied /\ Goto(p, "row") /\ NoFault
    <2>1. Becomes(p, "row", proc[p].todo, proc[p].told, proc[p].err)
      BY <1>1, <1>4, Going DEF Steps
    <2>2. Advance(p)
      BY <1>1, <1>2, <1>4, <2>1, RowsStay DEF ghosts
    <2>3. Course(p)'
      BY <1>1, <2>1 DEF Becomes, Course, Pending
    <2>4. AddRunnerClaim(p)'
      BY <1>1, <1>4, <2>1 DEF Becomes, Claim, AddRunnerClaim, Past, Has, Free, ghosts
    <2>5. Claim(p)'
      BY <1>1, <2>1, <2>4, ClaimFromParts DEF Becomes
    <2>6. Onward(p)
      BY <1>1, <2>1 DEF Onward, Becomes
    <2> QED BY <1>1, <2>2, <2>3, <2>5, <2>6, OnIInv
  <1> QED BY <1>3, <1>4 DEF RunnerApply

LEMMA RunnerDeleteIInv == ASSUME IInv, NEW p \in Procs, RunnerDelete(p) PROVE IInv'
  <1> DEFINE r == proc[p].svc
             deleted == cluster \ {<<r, "set">>}
  <1>1. /\ Typed /\ Course(p) /\ proc[p].at = "kubectl" /\ proc[p].cmd = "removerunner"
        /\ r \in Runners /\ UNCHANGED <<rows, ghosts, commands>>
    BY IInvGives DEF RunnerDelete, At, Course
  <1>2. cluster' \in {cluster, deleted} => ClusterStep(p)
    BY <1>1, ClusterSteps
  <1>3. CASE cluster' \in {cluster, deleted} /\ Err(p, "done") /\ Fault
    BY <1>1, <1>2, <1>3, FailIInv DEF ghosts, Steps
  <1>4. CASE cluster' = deleted /\ Goto(p, "row") /\ NoFault
    <2>1. Becomes(p, "row", proc[p].todo, proc[p].told, proc[p].err)
      BY <1>1, <1>4, Going DEF Steps
    <2>2. Advance(p)
      BY <1>1, <1>2, <1>4, <2>1, RowsStay DEF ghosts
    <2>3. Course(p)'
      BY <1>1, <2>1 DEF Becomes, Course, Pending
    <2>4. RemoveRunnerClaim(p)'
      BY <1>4, <2>1 DEF Becomes, RemoveRunnerClaim, Past
    <2>5. Claim(p)'
      BY <1>1, <2>1, <2>4, ClaimFromParts DEF Becomes
    <2>6. Onward(p)
      BY <1>1, <2>1 DEF Onward, Becomes
    <2> QED BY <1>1, <2>2, <2>3, <2>5, <2>6, OnIInv
  <1> QED BY <1>3, <1>4 DEF RunnerDelete

LEMMA RunnerRecordIInv == ASSUME IInv, NEW p \in Procs, RunnerRecord(p) PROVE IInv'
  <1> DEFINE r == proc[p].svc
             kind == IF proc[p].cmd = "addrunner" THEN "runner" ELSE ""
  <1>1. /\ Typed /\ Course(p) /\ Tale(p) /\ Claim(p) /\ proc[p].at = "row"
        /\ proc[p].cmd \in {"addrunner", "removerunner"}
        /\ UNCHANGED <<cluster, last, failed, contested, commands>>
    BY IInvGives DEF RunnerRecord, Course, ProcType, Commands
  <1>2. r \in Runners /\ r \in WorkedOn(p) /\ r \notin Addons
    BY <1>1, WorkedOnIs, NamesApart DEF Course, NamesApart
  <1>3. CASE UNCHANGED rows /\ lost' = lost \cup {r} /\ Fault /\ Err(p, "done")
    <2>1. ClusterStep(p)
      BY <1>1, <1>3, ClusterSteps
    <2> QED BY <1>1, <1>3, <2>1, FailIInv DEF Steps
  <1>4. CASE rows' = [rows EXCEPT ![r] = kind] /\ UNCHANGED lost /\ NoFault /\ Goto(p, "done")
    <2>1. Becomes(p, "done", proc[p].todo, proc[p].told, proc[p].err)
      BY <1>1, <1>4, Going DEF Steps
    <2>2. Advance(p) /\ rows'[r] = kind
      <3>1. PICK s \in WorkedOn(p) : s = r
        BY <1>2
      <3>2. s \in Runners /\ s \notin Addons /\ rows' = [rows EXCEPT ![s] = kind]
        BY <1>2, <1>4, <3>1
      <3>3. Typed /\ proc[p].cmd # "" /\ UNCHANGED <<cluster, lost>>
            /\ UNCHANGED <<last, failed, contested, commands>> /\ NoFault
        BY <1>1, <1>4
      <3>4. kind = "runner" => proc[p].cmd = "addrunner" /\ proc[p].at = "row"
        BY <1>1
      <3>5. kind \in {"", "runner"}
        OBVIOUS
      <3> HIDE DEF kind, r
      <3>6. Advance(p) /\ rows'[s] = kind
        BY <2>1, <3>2, <3>3, <3>4, <3>5, RowWritten DEF Kinds
      <3> QED BY <3>1, <3>6
    <2>3. Course(p)'
      BY <1>1, <2>1 DEF Becomes, Course, Pending
    <2>4. Tale(p)'
      BY <1>1, <2>1 DEF Becomes, Tale
    <2>5. proc[p].cmd = "addrunner" => AddRunnerClaim(p)'
      <3> SUFFICES ASSUME proc[p].cmd = "addrunner", r \in Free' PROVE AddRunnerClaim(p)'
        BY <2>1 DEF AddRunnerClaim, Becomes
      <3>1. <<r, "set">> \in cluster'
        BY <1>1, <1>4 DEF Claim, AddRunnerClaim, Past, Free
      <3>2. rows'[r] # ""
        BY <2>2
      <3> QED BY <2>1, <3>1, <3>2 DEF Becomes, AddRunnerClaim, Past, Has
    <2>6. proc[p].cmd = "removerunner" => RemoveRunnerClaim(p)'
      BY <1>1, <1>4, <2>1, <2>2 DEF Becomes, Claim, RemoveRunnerClaim, Past, Has, Free
    <2>7. Claim(p)'
      BY <1>1, <2>1, <2>5, <2>6, ClaimFromParts DEF Becomes
    <2> QED BY <1>1, <2>2, <2>3, <2>4, <2>7, AdvanceIInv
  <1>5. WriteRow(p, kind) /\ IF faults' > faults THEN Err(p, "done") ELSE Goto(p, "done")
    BY DEF RunnerRecord
  <1>6. \/ /\ rows' = [rows EXCEPT ![r] = kind] /\ UNCHANGED lost /\ NoFault
           /\ ~(faults' > faults)
        \/ UNCHANGED rows /\ lost' = lost \cup {r} /\ Fault /\ faults' > faults
    BY <1>1, <1>5, WriteRowCases
  <1> QED BY <1>3, <1>4, <1>5, <1>6

-----------------------------------------------------------------------------
(* The start and the end of a command change neither rows nor cluster. *)

\* The process has command cmd, about s, and is about to make the call at.
Turns(p, cmd, s, at) ==
  /\ proc' \in [Procs -> ProcType] /\ OthersStay(p)
  /\ proc'[p].cmd = cmd /\ proc'[p].svc = s /\ proc'[p].at = at
  /\ proc'[p].todo = << >> /\ proc'[p].told = "" /\ ~proc'[p].err

LEMMA TurnsTo ==
  ASSUME Typed, NEW p \in Procs, NEW cmd \in Commands, NEW s \in Services, NEW at \in Steps
  PROVE  /\ proc' = [proc EXCEPT ![p] = [Idle EXCEPT !.cmd = cmd, !.svc = s, !.at = at]]
              => Turns(p, cmd, s, at)
         /\ proc' = [proc EXCEPT ![p] = Idle] => Turns(p, "", Gha, "")
  <1>1. ASSUME NEW n \in ProcType, proc' = [proc EXCEPT ![p] = n]
        PROVE  proc' \in [Procs -> ProcType] /\ OthersStay(p) /\ proc'[p] = n
    BY <1>1 DEF Typed, OthersStay
  <1>2. Idle \in ProcType
    <2>1. Gha \in Services
      BY WorkloadsAssumption DEF WorkloadsAssumption, Services
    <2> QED BY <2>1, NothingPending DEF Idle, ProcType, Commands, Steps
  <1>3. /\ Idle.cmd = "" /\ Idle.svc = Gha /\ Idle.at = "" /\ Idle.todo = << >>
        /\ Idle.told = "" /\ ~Idle.err
    BY DEF Idle
  <1> DEFINE n == [Idle EXCEPT !.cmd = cmd, !.svc = s, !.at = at]
  <1>4. /\ n \in ProcType /\ n.cmd = cmd /\ n.svc = s /\ n.at = at
        /\ n.todo = Idle.todo /\ n.told = Idle.told /\ n.err = Idle.err
    BY <1>2 DEF ProcType
  <1> HIDE DEF n
  <1>5. proc' = [proc EXCEPT ![p] = n] => Turns(p, cmd, s, at)
    BY <1>1, <1>3, <1>4 DEF Turns
  <1>6. proc' = [proc EXCEPT ![p] = Idle] => Turns(p, "", Gha, "")
    BY <1>1, <1>2, <1>3 DEF Turns
  <1> QED BY <1>5, <1>6 DEF n

LEMMA TurnIInv ==
  ASSUME IInv, NEW p \in Procs, proc' \in [Procs -> ProcType], OthersStay(p),
         UNCHANGED <<rows, cluster>>, last' \in [Services -> {"none", "ok", "failed"}],
         failed \subseteq failed', lost \subseteq lost', contested \subseteq contested',
         failed' \subseteq Services, lost' \subseteq Services, contested' \subseteq Services,
         commands' \in 0 .. MaxCommands, faults' \in 0 .. MaxFaults,
         Course(p)', Tale(p)', Claim(p)', Apart', SecretWatched', SuccessMeansAgreement'
  PROVE  IInv'
  <1>1. Typed
    BY DEF IInv
  <1>2. \A q \in Procs \ {p} : Course(q)' /\ Tale(q)' /\ Claim(q)'
    <2> SUFFICES ASSUME NEW q \in Procs, q # p PROVE Course(q)' /\ Tale(q)' /\ Claim(q)'
      OBVIOUS
    <2>1. proc'[q] = proc[q] /\ Course(q) /\ Tale(q) /\ Claim(q)
      BY <1>1, IInvGives DEF OthersStay
    <2>2. Course(q)' /\ Tale(q)'
      <3>1. Course(q)'
        BY <2>1 DEF Course, Pending
      <3>2. Tale(q)'
        BY <2>1 DEF Tale
      <3> QED BY <3>1, <3>2
    <2>3. Free' \subseteq Free
      BY DEF Free
    <2>4. Claim(q)'
      BY <1>1, <2>1, <2>3, KeepsClaim DEF SameService, Has
    <2> QED BY <2>2, <2>4
  <1>3. TypeOK'
    <2>1. \A q \in Procs : /\ proc'[q].svc \in Services
                           /\ proc'[q].told \in {"", "rolled_out", "failed", "uninstalled"}
      BY <1>1 DEF ProcType
    <2>2. RowsTyped' /\ cluster' \subseteq Possible
      BY <1>1, TypedGives DEF RowsTyped
    <2> QED BY <2>1, <2>2 DEF TypeOK, RowsTyped, Possible
  <1>4. Typed'
    BY <1>1, <1>2, <1>3 DEF Typed
  <1>5. RunnersHaveController'
    BY DEF IInv, RunnersHaveController, Has
  <1>6. \A q \in Procs : Tale(q)' /\ Claim(q)'
    BY <1>2
  <1> QED BY <1>4, <1>5, <1>6 DEF IInv

\* A service that nobody works on agrees as it did.
LEMMA StillAgrees ==
  ASSUME IInv, UNCHANGED <<rows, cluster>>, lost \subseteq lost', contested \subseteq contested',
         NEW s \in Services, s \notin lost' \cup contested', Idling(s), last[s] = "ok"
  PROVE  Agree(s)'
  <1>1. Agree(s)
    BY DEF IInv, SuccessMeansAgreement
  <1> QED BY <1>1, SameAgree DEF SameService

LEMMA StartIInv ==
  ASSUME IInv, NEW p \in Procs, NEW cmd, NEW s \in Services, NEW at, Start(p, cmd, s, at),
         \/ cmd = "install" /\ s \in Addons /\ at = "build"
         \/ cmd = "uninstall" /\ s \in Addons /\ at = IF s = Gha THEN "list" ELSE "build"
         \/ cmd = "deploy" /\ s \in Apps /\ at = "fetch"
         \/ cmd \in {"addrunner", "removerunner"} /\ s \in Runners /\ at = "gha"
  PROVE  IInv'
  <1>1. /\ Typed /\ proc[p].cmd = ""
        /\ contested' = contested \cup (Touches(cmd, s) \cap UNION {WorkedOn(q) : q \in Procs})
        /\ UNCHANGED <<rows, cluster, last, failed, lost, faults>>
        /\ commands < MaxCommands /\ commands' = commands + 1
    BY IInvGives DEF Start
  <1>2. cmd \in Commands \ {""} /\ at \in Steps
    BY DEF Commands, Steps
  <1>3. Turns(p, cmd, s, at)
    BY <1>1, <1>2, TurnsTo DEF Start
  <1>4. WorkedOn(p) = {} /\ WorkedOn(p)' = Touches(cmd, s)
        /\ \A q \in Procs \ {p} : WorkedOn(q)' = WorkedOn(q)
    BY <1>1, <1>2, <1>3 DEF WorkedOn, OthersStay, Turns
  <1>5. Apart'
    <2> SUFFICES ASSUME NEW q \in Procs, NEW z \in Procs, q # z,
                        NEW x \in WorkedOn(q)' \cap WorkedOn(z)'
                 PROVE  x \in contested'
      BY DEF Apart
    <2>1. CASE q # p /\ z # p
      BY <1>1, <1>4, <2>1, IInvGives DEF Apart
    <2>2. CASE q = p \/ z = p
      BY <1>1, <1>4, <2>2
    <2> QED BY <2>1, <2>2
  <1>6. Course(p)'
    <2>1. Pending(p)' = {}
      BY <1>3, NothingPending DEF Pending, Turns
    <2> QED BY <1>2, <1>3, <2>1 DEF Course, Turns
  <1>7. Tale(p)'
    BY <1>3 DEF Tale, Turns
  <1>8. Claim(p)'
    <2>1. proc'[p].cmd = cmd /\ proc'[p].svc = s /\ proc'[p].at = at
      BY <1>3 DEF Turns
    <2>2. cmd = "install" => InstallClaim(p)'
      BY <2>1 DEF InstallClaim, Past
    <2>3. cmd = "uninstall" => UninstallClaim(p)' /\ SweepClaim(p)'
      BY <2>1 DEF UninstallClaim, SweepClaim, Past
    <2>4. cmd = "deploy" => DeployClaim(p)'
      BY <2>1 DEF DeployClaim, Past
    <2>5. cmd = "addrunner" => AddRunnerClaim(p)'
      BY <2>1 DEF AddRunnerClaim, Past
    <2>6. cmd = "removerunner" => RemoveRunnerClaim(p)'
      BY <2>1 DEF RemoveRunnerClaim, Past
    <2> QED BY <2>1, <2>2, <2>3, <2>4, <2>5, <2>6, ClaimFromParts
  <1>9. SuccessMeansAgreement'
    <2> SUFFICES ASSUME NEW z \in Services, z \notin lost' \cup contested', Idling(z)', last'[z] = "ok"
                 PROVE  Agree(z)'
      BY DEF SuccessMeansAgreement
    <2>1. Idling(z)
      BY <1>4 DEF Idling
    <2> QED BY <1>1, <2>1, StillAgrees
  <1>10. SecretWatched'
    <2> SUFFICES ASSUME NEW z \in Apps, z \notin failed \cup lost PROVE Watched(z)'
      BY <1>1 DEF SecretWatched
    <2>1. Watched(z)
      BY IInvGives DEF SecretWatched
    <2>2. ASSUME NEW q \in Procs, Answers(q, z) PROVE Watched(z)'
      <3>1. q # p
        BY <1>1, <2>2 DEF Answers
      <3>2. Answers(q, z)'
        BY <1>3, <2>2, <3>1 DEF Answers, OthersStay, Turns
      <3> QED BY <3>2 DEF Watched
    <2>3. CASE ~Has(z) /\ \A q \in Procs : proc[q].cmd = "deploy" /\ proc[q].svc = z =>
                              proc[q].at \notin {"apply", "rollout", "upsert"}
      <3>1. \A q \in Procs : proc'[q].cmd = "deploy" /\ proc'[q].svc = z =>
                               proc'[q].at \notin {"apply", "rollout", "upsert"}
        BY <1>3, <2>3 DEF OthersStay, Turns
      <3> QED BY <1>1, <2>3, <3>1 DEF Watched, Has
    <2>4. CASE Secret(z) \in cluster
      BY <1>1, <2>4 DEF Watched, Secret
    <2> QED BY <2>1, <2>2, <2>3, <2>4 DEF Watched
  <1>11. /\ commands' \in 0 .. MaxCommands /\ faults' \in 0 .. MaxFaults
         /\ contested \subseteq contested' /\ contested' \subseteq Services
         /\ failed' \subseteq Services /\ lost' \subseteq Services
         /\ last' \in [Services -> {"none", "ok", "failed"}]
    <2>1. commands' \in 0 .. MaxCommands
      <3>1. commands \in 0 .. MaxCommands /\ MaxCommands \in Nat
        BY <1>1, TypedGives, WorkloadsAssumption DEF WorkloadsAssumption
      <3>2. commands < MaxCommands /\ commands' = commands + 1
        BY <1>1
      <3> QED BY <3>1, <3>2
    <2>2. \A q \in Procs : WorkedOn(q) \subseteq Services
      BY <1>1, WorkedOnIs
    <2> QED BY <1>1, <2>1, <2>2, TypedGives DEF Typed, TypeOK
  <1> QED BY <1>1, <1>3, <1>5, <1>6, <1>7, <1>8, <1>9, <1>10, <1>11, TurnIInv DEF Turns

LEMMA StartsIInv ==
  ASSUME IInv, NEW p \in Procs,
         StartInstall(p) \/ StartUninstall(p) \/ StartDeploy(p) \/ StartRunner(p)
  PROVE  IInv'
  <1>0. Addons \subseteq Services /\ Apps \subseteq Services /\ Runners \subseteq Services
    BY DEF Services
  <1>1. CASE StartInstall(p)
    BY <1>0, <1>1, StartIInv DEF StartInstall
  <1>2. CASE StartUninstall(p)
    <2>1. PICK a \in Addons : Start(p, "uninstall", a, IF a = Gha THEN "list" ELSE "build")
      BY <1>2 DEF StartUninstall
    <2> QED BY <1>0, <2>1, StartIInv
  <1>3. CASE StartDeploy(p)
    BY <1>0, <1>3, StartIInv DEF StartDeploy
  <1>4. CASE StartRunner(p)
    <2>1. PICK r \in Runners, cmd \in {"addrunner", "removerunner"} : Start(p, cmd, r, "gha")
      BY <1>4 DEF StartRunner
    <2> QED BY <1>0, <2>1, StartIInv
  <1> QED BY <1>1, <1>2, <1>3, <1>4

\* An end: the process is idle again.  A deploy that answered for a secret
\* has failed or died.
LEMMA EndIInv ==
  ASSUME IInv, NEW p \in Procs, proc' = [proc EXCEPT ![p] = Idle],
         UNCHANGED <<rows, cluster, contested, commands>>,
         last' \in [Services -> {"none", "ok", "failed"}],
         failed \subseteq failed', lost \subseteq lost', failed' \subseteq Services,
         lost' \subseteq Services, faults' \in 0 .. MaxFaults,
         \A s \in Apps : Answers(p, s) => s \in failed' \cup lost',
         \A s \in Services \ WorkedOn(p) : last'[s] = last[s],
         \A s \in WorkedOn(p) \ (lost' \cup contested) : last'[s] = "ok" => Agree(s)
  PROVE  IInv'
  <1>1. Typed
    BY IInvGives
  <1>2. Turns(p, "", Gha, "")
    <2>1. Gha \in Services
      BY WorkloadsAssumption DEF WorkloadsAssumption, Services
    <2> QED BY <1>1, <2>1, TurnsTo DEF Commands, Steps
  <1>3. WorkedOn(p)' = {} /\ \A q \in Procs \ {p} : WorkedOn(q)' = WorkedOn(q)
    BY <1>2 DEF WorkedOn, OthersStay, Turns
  <1>4. Apart'
    BY <1>3, IInvGives DEF Apart
  <1>5. Course(p)' /\ Tale(p)'
    <2>1. Course(p)'
      BY <1>2 DEF Course, Turns
    <2>2. Tale(p)'
      BY <1>2 DEF Tale, Turns
    <2> QED BY <2>1, <2>2
  <1>6. Claim(p)'
    BY <1>2 DEF Turns, Claim, InstallClaim, UninstallClaim, SweepClaim, DeployClaim,
                AddRunnerClaim, RemoveRunnerClaim
  <1>7. SuccessMeansAgreement'
    <2> SUFFICES ASSUME NEW s \in Services, s \notin lost' \cup contested', Idling(s)', last'[s] = "ok"
                 PROVE  Agree(s)'
      BY DEF SuccessMeansAgreement
    <2>1. CASE s \in WorkedOn(p)
      BY <2>1, SameAgree DEF SameService
    <2>2. CASE s \notin WorkedOn(p)
      <3>1. Idling(s) /\ last[s] = "ok"
        BY <1>3, <2>2 DEF Idling
      <3> QED BY <3>1, StillAgrees
    <2> QED BY <2>1, <2>2
  <1>8. SecretWatched'
    <2> SUFFICES ASSUME NEW s \in Apps, s \notin failed' \cup lost' PROVE Watched(s)'
      BY DEF SecretWatched
    <2>1. Watched(s) /\ ~Answers(p, s)
      BY IInvGives DEF SecretWatched
    <2>2. ASSUME NEW q \in Procs, Answers(q, s) PROVE Watched(s)'
      <3>1. Answers(q, s)'
        BY <1>2, <2>1, <2>2 DEF Answers, OthersStay, Turns
      <3> QED BY <3>1 DEF Watched
    <2>3. CASE ~Has(s) /\ \A q \in Procs : proc[q].cmd = "deploy" /\ proc[q].svc = s =>
                              proc[q].at \notin {"apply", "rollout", "upsert"}
      <3>1. \A q \in Procs : proc'[q].cmd = "deploy" /\ proc'[q].svc = s =>
                               proc'[q].at \notin {"apply", "rollout", "upsert"}
        BY <1>2, <2>3 DEF OthersStay, Turns
      <3> QED BY <2>3, <3>1 DEF Watched, Has
    <2>4. CASE Secret(s) \in cluster
      BY <2>4 DEF Watched, Secret
    <2> QED BY <2>1, <2>2, <2>3, <2>4 DEF Watched
  <1>9. contested' \subseteq Services /\ commands' \in 0 .. MaxCommands
    BY <1>1 DEF Typed, TypeOK
  <1> QED BY <1>1, <1>2, <1>4, <1>5, <1>6, <1>7, <1>8, <1>9, TurnIInv DEF Turns

\* At its successful end a command has claimed that the row and the cluster agree.
LEMMA ClaimsAgree ==
  ASSUME IInv, NEW p \in Procs, proc[p].at = "done", ~proc[p].err,
         NEW s \in WorkedOn(p), s \notin lost \cup contested
  PROVE  Agree(s)
  <1>1. /\ Typed /\ Course(p) /\ Claim(p) /\ Past(p, {}) /\ s \in Services /\ s \in Free
        /\ \A S : Past(p, S)
    BY IInvGives, WorkedOnIs DEF Past, Free
  <1>2. proc[p].cmd \in Commands /\ proc[p].cmd # ""
    BY IInvGives DEF ProcType, WorkedOn
  <1>3. CASE proc[p].cmd = "install"
    <2>1. s = proc[p].svc /\ s \in Addons
      BY <1>1, <1>3, WorkedOnIs DEF Course
    <2>2. Has(s) /\ \E m \in Modes : Objects(s, m) \subseteq cluster
      BY <1>1, <1>3, <2>1 DEF Claim, InstallClaim
    <2> QED BY <2>1, <2>2, NamesApart DEF Agree, NamesApart
  <1>4. CASE proc[p].cmd = "uninstall"
    <2>1. CASE s = proc[p].svc
      <3>1. ~Has(s) /\ AllObjects(s) \cap cluster = {}
        BY <1>1, <1>4, <2>1 DEF Claim, UninstallClaim
      <3>2. s \in Addons
        BY <1>1, <1>4, <2>1 DEF Course
      <3> QED BY <3>1, <3>2, NamesApart DEF Agree, NamesApart
    <2>2. CASE s # proc[p].svc
      <3>1. proc[p].svc = Gha /\ s \in Runners
        BY <1>1, <1>4, <2>2, WorkedOnIs DEF WorkedOn, Touches
      <3>2. ~Has(s) /\ <<s, "set">> \notin cluster
        BY <1>1, <1>4, <3>1 DEF Claim, SweepClaim
      <3> QED BY <3>1, <3>2, NamesApart DEF Agree, NamesApart
    <2> QED BY <2>1, <2>2
  <1>5. CASE proc[p].cmd = "deploy"
    <2>1. s = proc[p].svc /\ s \in Apps
      BY <1>1, <1>5, WorkedOnIs DEF Course
    <2>2. Secret(s) \in cluster /\ Workload(s) \in cluster
      BY <1>1, <1>5, <2>1 DEF Claim, DeployClaim
    <2> QED BY <2>1, <2>2, NamesApart DEF Agree, NamesApart
  <1>6. CASE proc[p].cmd \in {"addrunner", "removerunner"}
    <2>1. s = proc[p].svc /\ s \in Runners
      BY <1>1, <1>6, WorkedOnIs DEF Course
    <2>2. Has(s) <=> <<s, "set">> \in cluster
      BY <1>1, <1>6, <2>1 DEF Claim, AddRunnerClaim, RemoveRunnerClaim
    <2> QED BY <2>1, <2>2, NamesApart DEF Agree, NamesApart
  <1> QED BY <1>2, <1>3, <1>4, <1>5, <1>6 DEF Commands

LEMMA FinishIInv == ASSUME IInv, NEW p \in Procs, Finish(p) PROVE IInv'
  <1>1. /\ Typed /\ Tale(p) /\ proc[p].at \in {"done", "unbuilt"} /\ WorkedOn(p) \subseteq Services
        /\ proc' = [proc EXCEPT ![p] = Idle]
        /\ UNCHANGED <<rows, cluster, lost, contested, commands, faults>>
    BY IInvGives, WorkedOnIs DEF Finish
  <1>2. /\ last' = [s \in Services |-> IF s \notin WorkedOn(p) THEN last[s]
                                       ELSE IF proc[p].err THEN "failed" ELSE "ok"]
        /\ failed' = IF proc[p].err THEN failed \cup WorkedOn(p) ELSE failed
    BY DEF Finish
  <1>3. last \in [Services -> {"none", "ok", "failed"}] /\ failed \subseteq Services
        /\ lost \subseteq Services /\ faults \in 0 .. MaxFaults
    BY <1>1 DEF Typed, TypeOK
  <1>4. last' \in [Services -> {"none", "ok", "failed"}]
        /\ \A s \in Services \ WorkedOn(p) : last'[s] = last[s]
    BY <1>2, <1>3
  <1>5. failed \subseteq failed' /\ failed' \subseteq Services
    BY <1>1, <1>2, <1>3
  <1>6. \A s \in Apps : Answers(p, s) => s \in failed' \cup lost'
    <2> SUFFICES ASSUME NEW s \in Apps, Answers(p, s) PROVE s \in failed'
      OBVIOUS
    <2>1. proc[p].err /\ proc[p].cmd # "" /\ s = proc[p].svc
      BY <1>1 DEF Answers
    <2> QED BY <1>1, <1>2, <2>1, WorkedOnIs
  <1>7. \A s \in WorkedOn(p) \ (lost' \cup contested) : last'[s] = "ok" => Agree(s)
    <2> SUFFICES ASSUME NEW s \in WorkedOn(p), s \notin lost \cup contested, last'[s] = "ok"
                 PROVE  Agree(s)
      BY <1>1
    <2>1. ~proc[p].err
      BY <1>1, <1>2
    <2>2. proc[p].at = "done"
      BY <1>1, <2>1 DEF Tale
    <2> QED BY <2>1, <2>2, ClaimsAgree
  <1> QED BY <1>1, <1>3, <1>4, <1>5, <1>6, <1>7, EndIInv

LEMMA DieIInv == ASSUME IInv, NEW p \in Procs, Die(p) PROVE IInv'
  <1>1. /\ Typed /\ WorkedOn(p) \subseteq Services /\ lost' = lost \cup WorkedOn(p)
        /\ proc' = [proc EXCEPT ![p] = Idle] /\ proc[p].cmd # "" /\ Fault
        /\ UNCHANGED <<rows, cluster, last, failed, contested, commands>>
    BY IInvGives, WorkedOnIs DEF Die
  <1>2. last \in [Services -> {"none", "ok", "failed"}] /\ failed \subseteq Services
        /\ lost \subseteq Services /\ faults' \in 0 .. MaxFaults
    BY <1>1, FaultTyped DEF Typed, TypeOK
  <1>3. \A s \in Apps : Answers(p, s) => s \in failed' \cup lost'
    BY <1>1, WorkedOnIs DEF Answers
  <1> QED BY <1>1, <1>2, <1>3, EndIInv

-----------------------------------------------------------------------------
(* The invariant, and what it says. *)

LEMMA InitIInv == ASSUME Init PROVE IInv
  <1>1. /\ rows = [s \in Services |-> ""] /\ cluster = {} /\ proc = [p \in Procs |-> Idle]
        /\ last = [s \in Services |-> "none"]
        /\ failed = {} /\ lost = {} /\ contested = {} /\ commands = 0 /\ faults = 0
    BY DEF Init
  <1>2. Idle \in ProcType
    <2>1. Gha \in Services
      BY WorkloadsAssumption DEF WorkloadsAssumption, Services
    <2> QED BY <2>1, NothingPending DEF Idle, ProcType, Commands, Steps
  <1>3. \A p \in Procs : /\ proc[p] \in ProcType /\ proc[p].cmd = "" /\ proc[p].at = ""
                         /\ proc[p].told = "" /\ ~proc[p].err
    BY <1>1, <1>2 DEF Idle
  <1>4. \A p \in Procs : WorkedOn(p) = {}
    BY <1>3 DEF WorkedOn
  <1>5. \A p \in Procs : Course(p) /\ Tale(p)
    <2> TAKE p \in Procs
    <2>1. Course(p)
      BY <1>3 DEF Course
    <2>2. Tale(p)
      BY <1>3 DEF Tale
    <2> QED BY <2>1, <2>2
  <1>6. \A p \in Procs : Claim(p)
    BY <1>3 DEF Claim, InstallClaim, UninstallClaim, SweepClaim, DeployClaim, AddRunnerClaim,
                RemoveRunnerClaim
  <1>7. /\ Addons \subseteq Services /\ Apps \subseteq Services /\ Runners \subseteq Services
        /\ \A s \in Services : rows[s] = "" /\ last[s] = "none"
    BY <1>1 DEF Services
  <1>8. TypeOK
    <2>1. \A p \in Procs : /\ proc[p].svc \in Services
                           /\ proc[p].told \in {"", "rolled_out", "failed", "uninstalled"}
      BY <1>3 DEF ProcType
    <2>2. commands \in 0 .. MaxCommands /\ faults \in 0 .. MaxFaults
      <3>1. MaxCommands \in Nat /\ MaxFaults \in Nat
        BY WorkloadsAssumption DEF WorkloadsAssumption
      <3>2. commands = 0 /\ faults = 0
        BY <1>1
      <3> QED BY <3>1, <3>2
    <2>3. last \in [Services -> {"none", "ok", "failed"}]
      BY <1>1
    <2> QED BY <1>1, <1>7, <2>1, <2>2, <2>3 DEF TypeOK
  <1>9. Typed
    <2>1. proc \in [Procs -> ProcType] /\ rows \in [Services -> Kinds]
      BY <1>1, <1>2 DEF Kinds
    <2> QED BY <1>5, <1>8, <2>1 DEF Typed
  <1>10. SecretWatched
    BY <1>3, <1>7 DEF SecretWatched, Watched, Has
  <1>11. SuccessMeansAgreement /\ RunnersHaveController
    BY <1>7 DEF SuccessMeansAgreement, RunnersHaveController, Has
  <1> QED BY <1>4, <1>5, <1>6, <1>9, <1>10, <1>11 DEF IInv, Apart

LEMMA StutterIInv == ASSUME IInv, UNCHANGED vars PROVE IInv'
  <1>1. /\ rows' = rows /\ cluster' = cluster /\ proc' = proc /\ last' = last /\ failed' = failed
        /\ lost' = lost /\ contested' = contested /\ commands' = commands /\ faults' = faults
    BY DEF vars
  <1>2. Typed'
    BY <1>1 DEF IInv, Typed, TypeOK, Course, Pending
  <1>3. Apart'
    BY <1>1 DEF IInv, Apart, WorkedOn
  <1>4. \A p \in Procs : Tale(p)' /\ Claim(p)'
    <2> TAKE p \in Procs
    <2>1. Tale(p)'
      BY <1>1 DEF IInv, Tale
    <2>2. Free' = Free
      BY <1>1 DEF Free
    <2>3. Claim(p)'
      BY <1>1, <2>2, IInvGives, KeepsClaim DEF SameService, Has
    <2> QED BY <2>1, <2>3
  <1>5. SecretWatched'
    BY <1>1 DEF IInv, SecretWatched, Watched, Answers, Secret, Has
  <1>6. SuccessMeansAgreement'
    BY <1>1, StillAgrees DEF SuccessMeansAgreement, Idling, WorkedOn
  <1>7. RunnersHaveController'
    BY <1>1 DEF IInv, RunnersHaveController, Has
  <1> QED BY <1>2, <1>3, <1>4, <1>5, <1>6, <1>7 DEF IInv

LEMMA NextIInv == ASSUME IInv, [Next]_vars PROVE IInv'
  <1>1. CASE UNCHANGED vars
    BY <1>1, StutterIInv
  <1>2. ASSUME NEW p \in Procs, Install(p) PROVE IInv'
    BY <1>2, StartsIInv, BuildInstallerIInv, InstallLookupIInv, ResolveSecretsIInv,
       CheckRequiresIInv, InstallPassIInv, InstallRecordIInv, InstallHistoryIInv DEF Install
  <1>3. ASSUME NEW p \in Procs, Uninstall(p) PROVE IInv'
    BY <1>3, StartsIInv, ListRunnersIInv, RemoveRunnerIInv, RunnersRemovedIInv,
       UninstallLookupIInv, UninstallDeleteIInv, UninstallRecordIInv, UninstallHistoryIInv
       DEF Uninstall
  <1>4. ASSUME NEW p \in Procs, Deploy(p) PROVE IInv'
    BY <1>4, StartsIInv, FetchIInv, ResolveDeployIInv, DeleteSecretIInv, CreateSecretIInv,
       DeployApplyIInv, RolloutIInv, DeployRecordIInv, DeployHistoryIInv DEF Deploy
  <1>5. ASSUME NEW p \in Procs, Runner(p) PROVE IInv'
    BY <1>5, StartsIInv, RunnerCheckIInv, RunnerNameIInv, RunnerApplyIInv, RunnerDeleteIInv,
       RunnerRecordIInv DEF Runner
  <1>6. ASSUME NEW p \in Procs, RecordFailure(p) \/ Finish(p) \/ Die(p) PROVE IInv'
    BY <1>6, RecordFailureIInv, FinishIInv, DieIInv
  <1> QED BY <1>1, <1>2, <1>3, <1>4, <1>5, <1>6 DEF Next

\* Whatever the commands that run side by side, and whatever call fails or
\* process dies: every command keeps what it has achieved so far for a service
\* it has to itself.  (Install, RunAddonUninstall, RunDeploy, RunRunnerAdd/Remove)
THEOREM WorkloadsInvariant == Spec => []IInv
  <1>1. Init => IInv
    BY InitIInv
  <1>2. IInv /\ [Next]_vars => IInv'
    BY NextIInv
  <1> QED BY <1>1, <1>2, PTL DEF Spec

\* The types of the variables.  The kinds of the rows rest on NamesApart, which
\* deploy and addon install do not enforce: of a name that is an app's and an
\* addon's at once this says nothing.
LEMMA WorkloadsTypes == Spec => []TypeOK
  <1>1. IInv => TypeOK
    BY DEF IInv, Typed
  <1> QED BY <1>1, WorkloadsInvariant, PTL

\* After a command that reported success, that lost no record and met no
\* other on the service, row and cluster agree.
THEOREM SuccessIsAgreement == Spec => []SuccessMeansAgreement
  <1>1. IInv => SuccessMeansAgreement
    BY DEF IInv
  <1> QED BY <1>1, WorkloadsInvariant, PTL

\* A command that has come to its end has told the history how, unless the
\* entry was lost.  (recordSuccess, recordFailure, recordUninstall, recordDeploy*)
THEOREM HistoryTells == Spec => []AuditTrail
  <1>1. IInv => AuditTrail
    BY DEF IInv, Tale, AuditTrail
  <1> QED BY <1>1, WorkloadsInvariant, PTL

\* A deployed service whose secret is gone, with no deploy under way, has been
\* reported: applyGenericSecret of two deploys may take it away, but one of
\* them fails or has died.
THEOREM SecretLossTold == Spec => []SecretLossReported
  <1>1. IInv => SecretLossReported
    <2> SUFFICES ASSUME IInv, NEW s \in Apps, Idling(s), Has(s), Secret(s) \notin cluster,
                        s \notin failed \cup lost
                 PROVE  FALSE
      BY DEF SecretLossReported
    <2>1. PICK p \in Procs : Answers(p, s)
      BY DEF IInv, SecretWatched, Watched
    <2>2. s \in WorkedOn(p)
      BY <2>1, IInvGives, WorkedOnIs DEF Answers
    <2> QED BY <2>2 DEF Idling
  <1> QED BY <1>1, WorkloadsInvariant, PTL

\* A runner's row has the row of Gha beside it, without which no command can
\* remove it.  (RunAddonUninstall, RunRunnerAdd)
THEOREM RunnersKeepController == Spec => []RunnersHaveController
  <1>1. IInv => RunnersHaveController
    BY DEF IInv
  <1> QED BY <1>1, WorkloadsInvariant, PTL
=============================================================================
