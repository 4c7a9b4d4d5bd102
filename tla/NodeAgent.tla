------------------------------ MODULE NodeAgent ------------------------------
(***************************************************************************)
(* clusterboxnode on one host, and the bare-metal provider that uploads    *)
(* and runs it over SSH.  An install walks its sections step by step and   *)
(* stops at the first error; an uninstall walks on.  A connection that is  *)
(* lost, or times out, leaves the agent running: the next run meets it.    *)
(*                                                                         *)
(* A file is <<section, file>>.  A step that fails, or a run that is cut,  *)
(* may have had its effect.                                                *)
(***************************************************************************)
EXTENDS Naturals, Sequences, SequencesExt

CONSTANTS
  Agents,    \* slots for runs of the agent on the host
  Hosts,     \* kinds of host: <<distribution, role in the cluster>>
  MaxRuns,   \* bound: runs started
  MaxFaults  \* bound: failed steps, lost connections and reboots

ASSUME NodeAgentAssumption ==
  /\ Hosts \subseteq {"ubuntu", "flatcar"} \X {"server", "agent"}
  /\ MaxRuns \in Nat /\ MaxFaults \in Nat

VARIABLES
  distro,         \* of the host, fixed
  role,           \* in the cluster, fixed
  disk,           \* files on the host
  live,           \* sections in effect: loaded, running or joined
  enabled,        \* units that start at boot
  chain, saved,   \* flatcar: the iptables rules, and the file they are saved to
  run,            \* the agents on the host
  ctl,            \* the provider on the operator's machine
  kubeconfig, row, \* the operator's kubeconfig file and registry row
  cut,            \* history: sections that a run left half done
  succeeded,      \* history: some install reported success to the provider
  runs, faults

host == <<disk, live, enabled, chain, saved>>
operator == <<ctl, kubeconfig, row, succeeded>>
vars == <<distro, role, host, run, operator, cut, runs, faults>>

Sections == {"user", "sshd", "ufw", "fail2ban", "auditd", "unattended", "sysctl", "tailscale", "k3s"}
Step(sec, op, what) == [sec |-> sec, op |-> op, what |-> what]

-----------------------------------------------------------------------------
(* What each section does, in order. *)

\* The account, its group and its key; each is put right by a second run.
UserSteps == << Step("user", "put", "account") >>

\* The drop-in is rolled back when sshd -t rejects it.
SshdSteps == << Step("sshd", "check", "drop-in"), Step("sshd", "put", "drop-in"),
                Step("sshd", "test", "drop-in"), Step("sshd", "start", "") >>

UfwSteps == << Step("ufw", "put", "package"), Step("ufw", "put", "rules"),
               Step("ufw", "enable", ""), Step("ufw", "start", "") >>

\* The rules in the order of flatcarRules; SSH only from the tailnet.
Accepts == <<"https", "wireguard", "ssh">>
FlatcarRules(icmp) ==
  Accepts \o (IF icmp THEN <<"icmp">> ELSE << >>) \o <<"drop", "output">>
FlatcarSteps(icmp) ==
  [i \in DOMAIN FlatcarRules(icmp) |-> Step("ufw", "rule", FlatcarRules(icmp)[i])]
    \o << Step("ufw", "save", ""), Step("ufw", "put", "unit"), Step("ufw", "enable", "") >>

Fail2banSteps == << Step("fail2ban", "put", "package"), Step("fail2ban", "put", "conf"),
                    Step("fail2ban", "enable", ""), Step("fail2ban", "start", "") >>
AuditdSteps == << Step("auditd", "put", "package"), Step("auditd", "put", "conf"),
                  Step("auditd", "enable", ""), Step("auditd", "start", "") >>
UnattendedSteps == << Step("unattended", "put", "package"), Step("unattended", "put", "conf"),
                      Step("unattended", "enable", "") >>
SysctlSteps == << Step("sysctl", "put", "conf"), Step("sysctl", "start", "") >>

HardenSteps(icmp) ==
  UserSteps \o SshdSteps
    \o (IF distro = "flatcar" THEN FlatcarSteps(icmp)
        ELSE UfwSteps \o Fail2banSteps \o AuditdSteps \o UnattendedSteps)
    \o SysctlSteps

TailscaleSteps ==
  << Step("tailscale", "check", "status"), Step("tailscale", "put", "binary"),
     Step("tailscale", "put", "unit"), Step("tailscale", "enable", ""),
     Step("tailscale", "start", ""), Step("tailscale", "up", "state"),
     Step("tailscale", "poll", "") >>

\* What a server and an agent write once they run, in the order they are awaited.
Awaited == IF role = "server" THEN <<"kubeconfig", "token">> ELSE <<"kubelet", "node">>
K3sSteps ==
  << Step("k3s", "check", "binary"), Step("k3s", "put", "binary"),
     Step("k3s", "put", "unit"), Step("k3s", "enable", ""), Step("k3s", "start", "") >>
    \o [i \in 1 .. 2 |-> Step("k3s", "wait", Awaited[i])]

\* The steps of the sections that a config enables.
InstallSteps(enable, icmp) ==
  SelectSeq(HardenSteps(icmp) \o TailscaleSteps \o K3sSteps, LAMBDA t : t.sec \in enable)

\* Without a config of the operator's, DefaultSpec: k3s alone.
Configs == {Sections, {"k3s"}}

\* What k3s has written stays; the harden section removes nothing.
K3sRemoveSteps == << Step("k3s", "present", ""), Step("k3s", "stop", ""),
                     Step("k3s", "disable", ""), Step("k3s", "rm", "") >>
TailscaleRemoveSteps == << Step("tailscale", "present", ""), Step("tailscale", "stop", ""),
                           Step("tailscale", "disable", ""), Step("tailscale", "rm", "") >>
UninstallSteps == K3sRemoveSteps \o TailscaleRemoveSteps
Removed == {"binary", "unit"}

-----------------------------------------------------------------------------
(* Runs of the agent. *)

\* cmd: "" when the slot is free;  todo: steps left
\* secs: the sections of its config;  rep: its JSON document
\* alone: no other run has been on the host with it
Free == [cmd |-> "", secs |-> {}, todo |-> << >>, alone |-> TRUE, rep |-> ""]

Busy(a) == run[a].cmd # ""
Running(a) == Busy(a) /\ run[a].rep = ""

NoFault == UNCHANGED faults
Fault == faults < MaxFaults /\ faults' = faults + 1

StartRun(a, cmd, secs, steps) ==
  /\ ~Busy(a) /\ runs < MaxRuns /\ runs' = runs + 1
  /\ LET others == {b \in Agents : Running(b)}
     IN run' = [b \in Agents |->
          IF b = a THEN [cmd |-> cmd, secs |-> secs, todo |-> steps, alone |-> others = {}, rep |-> ""]
          ELSE IF b \in others THEN [run[b] EXCEPT !.alone = FALSE] ELSE run[b]]

\* SSH: the firewall lets it in from the tailnet only.
Firewalled == "ufw" \in live \/ "drop" \in Range(chain)
Reachable == Firewalled => "tailscale" \in live

At(a, op) == Running(a) /\ run[a].todo # << >> /\ Head(run[a].todo).op = op
Sec(a) == Head(run[a].todo).sec
What(a) == Head(run[a].todo).what

\* The run of a with the steps s left.
Left(a, s) == [run EXCEPT ![a].todo = s]
Advance(a) == run' = Left(a, Tail(run[a].todo))

\* A section that need not be done: only its waits remain.
Skip(a) ==
  run' = Left(a, SelectSeq(run[a].todo, LAMBDA t : t.sec # Sec(a) \/ t.op = "wait"))

\* The sections whose next run may take them for done, half done.
Halved(a) ==
  IF Sec(a) \in {"sshd", "k3s"} /\ Head(run[a].todo).op \notin {"check", "wait", "present"}
  THEN {Sec(a)} ELSE {}

\* Mutant: an install goes on with the next section too.
FailingSoft(a) ==
  /\ Fault /\ cut' = cut \cup Halved(a)
  /\ Skip(a)

\* Walker.Install stops at an error; Walker.Uninstall goes on with the next
\* section, and the k3s section with its next command.
Failing(a) ==
  /\ Fault /\ cut' = cut \cup Halved(a)
  /\ \/ run[a].cmd = "install" /\ run' = [run EXCEPT ![a].todo = << >>, ![a].rep = "error"]
     \/ run[a].cmd = "uninstall" /\ Sec(a) = "k3s" /\ Advance(a)
     \/ run[a].cmd = "uninstall" /\ Sec(a) # "k3s" /\ Skip(a)

\* A step done, or failed with or without its effect.
Doing(a, effect, none) ==
  \/ effect /\ Advance(a) /\ NoFault /\ UNCHANGED cut
  \/ (effect \/ none) /\ Failing(a)

Fixed == UNCHANGED <<distro, role, operator, runs>>

\* sshd: the drop-in is there.  tailscale: it says it is running.  k3s: the
\* binary is there or the unit is active.
Present(s) ==
  CASE s = "sshd" -> <<s, "drop-in">> \in disk
    [] s = "tailscale" -> s \in live
    [] s = "k3s" -> <<s, "binary">> \in disk \/ s \in live

Check(a) ==
  /\ At(a, "check")
  /\ \/ (IF Present(Sec(a)) THEN Skip(a) ELSE Advance(a)) /\ NoFault /\ UNCHANGED cut
     \/ Sec(a) = "k3s" /\ Failing(a)
  /\ Fixed /\ UNCHANGED host

\* A file, an account or a package.
Put(a) ==
  /\ At(a, "put")
  /\ Doing(a, disk' = disk \cup {<<Sec(a), What(a)>>}, UNCHANGED disk)
  /\ Fixed /\ UNCHANGED <<live, enabled, chain, saved>>

\* sshd -t; a rejected drop-in is taken back.
Test(a) ==
  /\ At(a, "test")
  /\ \/ UNCHANGED disk /\ Advance(a) /\ NoFault /\ UNCHANGED cut
     \/ disk' = disk \ {<<"sshd", "drop-in">>} /\ Failing(a)
  /\ Fixed /\ UNCHANGED <<live, enabled, chain, saved>>

Enable(a) ==
  /\ At(a, "enable")
  /\ Doing(a, enabled' = enabled \cup {Sec(a)}, UNCHANGED enabled)
  /\ Fixed /\ UNCHANGED <<disk, live, chain, saved>>

\* What a section needs on disk to run.
Needs(s) ==
  CASE s = "sshd" -> {<<s, "drop-in">>}
    [] s \in {"ufw", "fail2ban", "auditd"} -> {<<s, "package">>}
    [] s = "sysctl" -> {<<s, "conf">>}
    [] s = "tailscale" -> {<<s, "binary">>, <<s, "unit">>, <<s, "state">>}
    [] OTHER -> {<<s, "binary">>, <<s, "unit">>}
Runs(s) == Needs(s) \subseteq disk

\* systemctl start or reload, sysctl --system, ufw enable.  k3s does not start
\* without its files; tailscaled starts, but joins only with its state.
Start(a) ==
  /\ At(a, "start")
  /\ \/ /\ Sec(a) = "k3s" => Runs("k3s")
        /\ Doing(a, live' = IF Runs(Sec(a)) THEN live \cup {Sec(a)} ELSE live, UNCHANGED live)
     \/ Sec(a) = "k3s" /\ ~Runs("k3s") /\ UNCHANGED live /\ Failing(a)
  /\ Fixed /\ UNCHANGED <<disk, enabled, chain, saved>>

\* tailscale up with the auth key.
Up(a) ==
  /\ At(a, "up")
  /\ Doing(a, disk' = disk \cup {<<"tailscale", "state">>} /\ live' = live \cup {"tailscale"},
              UNCHANGED <<disk, live>>)
  /\ Fixed /\ UNCHANGED <<enabled, chain, saved>>

Poll(a) ==
  /\ At(a, "poll")
  /\ \/ "tailscale" \in live /\ Advance(a) /\ NoFault /\ UNCHANGED cut
     \/ Failing(a)
  /\ Fixed /\ UNCHANGED host

\* iptables -C finds the rule, or has it appended.
Rule(a) ==
  /\ At(a, "rule")
  /\ IF What(a) \in Range(chain) THEN Advance(a)
     ELSE run' = [run EXCEPT ![a].todo[1].op = "append"]
  /\ Fixed /\ UNCHANGED <<host, cut, faults>>

\* Mutant: iptables -I, the rule goes to the head of the chain.
InsertRule(a) ==
  /\ At(a, "append")
  /\ Doing(a, chain' = <<What(a)>> \o chain, UNCHANGED chain)
  /\ Fixed /\ UNCHANGED <<disk, live, enabled, saved>>

\* iptables -A.
AppendRule(a) ==
  /\ At(a, "append")
  /\ Doing(a, chain' = Append(chain, What(a)), UNCHANGED chain)
  /\ Fixed /\ UNCHANGED <<disk, live, enabled, saved>>

SaveRules(a) ==
  /\ At(a, "save")
  /\ Doing(a, saved' = chain, UNCHANGED saved)
  /\ Fixed /\ UNCHANGED <<disk, live, enabled, chain>>

\* waitForFile and waitForAgent: until what is awaited is there, or a timeout.
Wait(a) ==
  /\ At(a, "wait")
  /\ \/ <<"k3s", What(a)>> \in disk /\ Advance(a) /\ NoFault
     \/ /\ <<"k3s", What(a)>> \notin disk
        /\ run' = [run EXCEPT ![a].todo = << >>, ![a].rep = "error"]
        /\ IF "k3s" \in live THEN Fault ELSE NoFault
  /\ Fixed /\ UNCHANGED <<host, cut>>

\* The steps of an uninstall.
RemovePresent(a) ==
  /\ At(a, "present")
  /\ IF <<Sec(a), "binary">> \in disk \/ (Sec(a) = "k3s" /\ "k3s" \in live)
     THEN Advance(a) ELSE Skip(a)
  /\ Fixed /\ UNCHANGED <<host, cut, faults>>

Stop(a) ==
  /\ At(a, "stop")
  /\ Doing(a, live' = live \ {Sec(a)}, UNCHANGED live)
  /\ Fixed /\ UNCHANGED <<disk, enabled, chain, saved>>

Disable(a) ==
  /\ At(a, "disable")
  /\ Doing(a, enabled' = enabled \ {Sec(a)}, UNCHANGED enabled)
  /\ Fixed /\ UNCHANGED <<disk, live, chain, saved>>

\* rm -f and os.Remove: one error does not keep the rest.
Rm(a) ==
  /\ At(a, "rm")
  /\ Doing(a, disk' = disk \ {<<Sec(a), f>> : f \in Removed}, UNCHANGED disk)
  /\ Fixed /\ UNCHANGED <<live, enabled, chain, saved>>

\* The document with every section's result.
Emit(a) ==
  /\ Running(a) /\ run[a].todo = << >>
  /\ run' = [run EXCEPT ![a].rep = "ok"]
  /\ Fixed /\ UNCHANGED <<host, cut, faults>>

Agent(a) ==
  \/ Check(a) \/ Put(a) \/ Test(a) \/ Enable(a) \/ Start(a) \/ Up(a) \/ Poll(a)
  \/ Rule(a) \/ AppendRule(a) \/ SaveRules(a) \/ Wait(a)
  \/ RemovePresent(a) \/ Stop(a) \/ Disable(a) \/ Rm(a) \/ Emit(a)

\* A running k3s writes what the agent awaits.
K3sWrites ==
  /\ "k3s" \in live
  /\ \E i \in 1 .. 2 : /\ <<"k3s", Awaited[i]>> \notin disk
                       /\ i = 2 => <<"k3s", Awaited[1]>> \in disk
                       /\ disk' = disk \cup {<<"k3s", Awaited[i]>>}
  /\ UNCHANGED <<distro, role, live, enabled, chain, saved, run, operator, cut, runs, faults>>

-----------------------------------------------------------------------------
(* The bare-metal provider. *)

\* at: what it does next;  slots: its run on the host, while it is connected
Ctl(at, slots) == ctl' = [at |-> at, slots |-> slots]

\* Dial, sudo, architecture, bundle, spec and secrets.
Dial ==
  /\ ctl.at = "idle" /\ runs < MaxRuns
  /\ \/ Reachable /\ Ctl("upload", {}) /\ NoFault
     \/ UNCHANGED ctl /\ Fault
  /\ UNCHANGED <<distro, role, host, run, kubeconfig, row, succeeded, cut, runs>>

\* The binary and the config go to /tmp, and are removed when all is done.
Upload ==
  /\ ctl.at = "upload"
  /\ (Ctl("run", {}) /\ NoFault) \/ (Ctl("idle", {}) /\ Fault)
  /\ UNCHANGED <<distro, role, host, run, kubeconfig, row, succeeded, cut, runs>>

\* The config of this run: its sections, and whether ICMP is let in.
RunInstall ==
  /\ ctl.at = "run"
  /\ \E a \in Agents, enable \in Configs, icmp \in BOOLEAN :
       /\ distro = "ubuntu" \/ "ufw" \notin enable => ~icmp
       /\ StartRun(a, "install", enable, InstallSteps(enable, icmp))
       /\ Ctl("wait", {a})
  /\ UNCHANGED <<distro, role, host, kubeconfig, row, succeeded, cut, faults>>

\* The connection is lost or the timeout strikes; the agent goes on.
LoseConnection ==
  /\ ctl.at = "wait" /\ Fault
  /\ Ctl("idle", {})
  /\ UNCHANGED <<distro, role, host, run, kubeconfig, row, succeeded, cut, runs>>

\* Mutant: the error shape of the document is not looked at.
ReadResultUnchecked ==
  /\ ctl.at = "wait"
  /\ \E a \in ctl.slots :
       LET ok == run[a].rep = "ok"
       IN /\ run[a].rep # "" /\ run' = [run EXCEPT ![a] = Free]
          /\ Ctl(IF role = "server" THEN "kubeconfig" ELSE "idle", {})
          /\ succeeded' = (succeeded \/ ok)
  /\ UNCHANGED <<distro, role, host, kubeconfig, row, cut, runs, faults>>

\* ParseInstallOutput.  Only a server has a kubeconfig to give.
ReadResult ==
  /\ ctl.at = "wait"
  /\ \E a \in ctl.slots :
       LET ok == run[a].rep = "ok"
       IN /\ run[a].rep # "" /\ run' = [run EXCEPT ![a] = Free]
          /\ Ctl(IF ok /\ role = "server" THEN "kubeconfig" ELSE "idle", {})
          /\ succeeded' = (succeeded \/ ok)
  /\ UNCHANGED <<distro, role, host, kubeconfig, row, cut, runs, faults>>

WriteKubeconfig ==
  /\ ctl.at = "kubeconfig"
  /\ \/ kubeconfig' = TRUE /\ Ctl("registry", {}) /\ NoFault
     \/ UNCHANGED kubeconfig /\ Ctl("idle", {}) /\ Fault
  /\ UNCHANGED <<distro, role, host, run, row, succeeded, cut, runs>>

\* A failed registry write is a warning.
RecordRegistry ==
  /\ ctl.at = "registry" /\ Ctl("idle", {})
  /\ (row' = TRUE /\ NoFault) \/ (UNCHANGED row /\ Fault)
  /\ UNCHANGED <<distro, role, host, run, kubeconfig, succeeded, cut, runs>>

\* An operator on the host runs clusterboxnode uninstall.
StartUninstall ==
  /\ ctl.at = "idle" /\ Reachable
  /\ \E a \in Agents : StartRun(a, "uninstall", {}, UninstallSteps)
  /\ UNCHANGED <<distro, role, host, operator, cut, faults>>

\* Nobody reads what a run says that has lost its provider.
RunEnds(a) ==
  /\ Busy(a) /\ run[a].rep # "" /\ a \notin ctl.slots
  /\ run' = [run EXCEPT ![a] = Free]
  /\ UNCHANGED <<distro, role, host, operator, cut, runs, faults>>

\* Mutant: the provider goes on waiting for a run that is gone.
RebootUnnoticed ==
  /\ Fault
  /\ live' = {s \in enabled \cup {"sshd", "sysctl"} : s # "unattended" /\ Runs(s)}
  /\ chain' = IF distro = "flatcar" /\ "ufw" \in enabled THEN saved ELSE << >>
  /\ run' = [a \in Agents |-> Free]
  /\ cut' = cut \cup UNION {Halved(a) : a \in {b \in Agents : Running(b) /\ run[b].todo # << >>}}
  /\ UNCHANGED ctl
  /\ UNCHANGED <<distro, role, disk, enabled, saved, kubeconfig, row, succeeded, runs>>

\* The host restarts: runs die, enabled units and saved rules come back.
Reboot ==
  /\ Fault
  /\ live' = {s \in enabled \cup {"sshd", "sysctl"} : s # "unattended" /\ Runs(s)}
  /\ chain' = IF distro = "flatcar" /\ "ufw" \in enabled THEN saved ELSE << >>
  /\ run' = [a \in Agents |-> Free]
  /\ cut' = cut \cup UNION {Halved(a) : a \in {b \in Agents : Running(b) /\ run[b].todo # << >>}}
  /\ ctl' = IF ctl.at = "wait" THEN [at |-> "idle", slots |-> {}] ELSE ctl
  /\ UNCHANGED <<distro, role, disk, enabled, saved, kubeconfig, row, succeeded, runs>>

Init ==
  /\ \E h \in Hosts : distro = h[1] /\ role = h[2]
  /\ disk = {} /\ live = {} /\ enabled = {} /\ chain = << >> /\ saved = << >>
  /\ run = [a \in Agents |-> Free]
  /\ ctl = [at |-> "idle", slots |-> {}]
  /\ kubeconfig = FALSE /\ row = FALSE /\ cut = {} /\ succeeded = FALSE
  /\ runs = 0 /\ faults = 0

Provider ==
  \/ Dial \/ Upload \/ RunInstall \/ LoseConnection \/ ReadResult
  \/ WriteKubeconfig \/ RecordRegistry \/ StartUninstall

Next ==
  \/ \E a \in Agents : Agent(a) \/ RunEnds(a)
  \/ K3sWrites \/ Provider \/ Reboot

Spec == Init /\ [][Next]_vars

-----------------------------------------------------------------------------
(* Properties. *)

\* Every variable has its type, and the provider waits for a run that is there.
TypeOK ==
  /\ <<distro, role>> \in Hosts
  /\ disk \subseteq Sections \X {"account", "drop-in", "package", "rules", "unit", "conf",
                                "binary", "state", "kubeconfig", "token", "kubelet", "node"}
  /\ live \subseteq Sections /\ enabled \subseteq Sections /\ cut \subseteq {"sshd", "k3s"}
  /\ Range(chain) \cup Range(saved) \subseteq Range(FlatcarRules(TRUE))
  /\ \A a \in Agents :
       /\ run[a].cmd \in {"", "install", "uninstall"} /\ run[a].alone \in BOOLEAN
       /\ run[a].rep \in {"", "ok", "error"} /\ run[a].secs \subseteq Sections
       /\ Range(run[a].todo) \subseteq [sec : Sections, op : STRING, what : STRING]
  /\ ctl.at \in {"idle", "upload", "run", "wait", "kubeconfig", "registry"}
  /\ IF ctl.at = "wait" THEN \E a \in Agents : ctl.slots = {a} /\ run[a].cmd = "install"
     ELSE ctl.slots = {}
  /\ {kubeconfig, row, succeeded} \subseteq BOOLEAN
  /\ runs \in 0 .. MaxRuns /\ faults \in 0 .. MaxFaults

\* What the tailnet and the cluster need is let in before the rest is dropped.
Guarded(c) ==
  \A i \in DOMAIN c : c[i] = "drop" => Range(Accepts) \subseteq Range(SubSeq(c, 1, i))

\* A section does on the host what its result says.
InEffect(s) ==
  CASE s = "user" -> <<s, "account">> \in disk
    [] s = "ufw" /\ distro = "flatcar" ->
         \A c \in {chain, saved} : "drop" \in Range(c) /\ Guarded(c)
    [] s = "unattended" -> distro = "flatcar" \/ s \in enabled
    [] s \in {"fail2ban", "auditd"} -> distro = "flatcar" \/ s \in live
    [] OTHER -> s \in live

Succeeds(a) == run[a].cmd = "install" /\ run[a].rep = "" /\ run'[a].rep = "ok"

\* An install that reports success, with no other run on the host, has put
\* every section of its config into effect, whatever failed runs, uninstalls and reboots came
\* before.  The exceptions are the sections that take a file for the whole: an
\* sshd or k3s section that was once cut in the middle.  (Walker.Install)
SuccessMeansInEffect ==
  [][\A a \in Agents : Succeeds(a) /\ run[a].alone =>
       \A s \in run[a].secs \ cut : InEffect(s)]_vars

\* With runs on top of each other, failed ones and reboots, the rule that drops
\* all comes after those that let the tailnet in, in the chain and in the file
\* that a reboot restores.  (applyFlatcar)
TailnetNotDropped == Guarded(chain) /\ Guarded(saved)

\* "A failed install with a successful registry write" is what recordRegistry
\* rules out: a row stands for a host that has reported success and whose
\* kubeconfig is on the operator's disk.
RowMeansInstalled == row => kubeconfig /\ succeeded

\* Re-running against the same host converges, as Provision says of itself.
RerunConverges ==
  [][\A a \in Agents : Succeeds(a) /\ run[a].alone => \A s \in run[a].secs : InEffect(s)]_vars
=============================================================================
