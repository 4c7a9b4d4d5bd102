----------------------------- MODULE Migrations -----------------------------
(***************************************************************************)
(* Opening registry.db: every command calls registry.NewRegistry, which    *)
(* creates the file, closes it to other users and brings its schema up to  *)
(* what the command's binary knows.  Commands run in processes of their    *)
(* own, perhaps of binaries of different age, and open the file at the     *)
(* same time; a process may die anywhere.                                  *)
(*                                                                         *)
(* A migration is its number.  Its script creates tables and columns that  *)
(* must not exist yet, out of those the earlier ones left (CREATE TABLE,   *)
(* ALTER TABLE ADD COLUMN, the joins of 0005): it runs only on a file with *)
(* exactly the earlier ones.  The PRAGMAs in 0005 and 0006 have no effect  *)
(* inside a transaction.                                                   *)
(***************************************************************************)
EXTENDS Naturals, Sequences

CONSTANTS
  Procs,      \* processes
  Latest,     \* the newest migration
  Binaries,   \* the newest migrations of the binaries in use
  NoProc,     \* nobody: the write lock is free
  MaxOpens,   \* bound: calls of NewRegistry
  MaxFaults   \* bound: failed statements, lock timeouts and deaths

ASSUME MigrationsAssumption ==
  /\ Latest \in Nat /\ MaxOpens \in Nat /\ MaxFaults \in Nat
  /\ Binaries \subseteq 1 .. Latest /\ Binaries # {}
  /\ NoProc \notin Procs

VARIABLES
  private,  \* the file's mode is 0600
  table,    \* schema_version exists
  schema,   \* the migrations whose tables and columns the file has
  version,  \* the row of schema_version, 0 when there is none
  lock,     \* the process that holds SQLite's write lock
  proc,     \* what each process does: at, knows, next
  ran,      \* history: the migrations committed, in order
  opens, faults

file == <<private, table, schema, version, ran>>
vars == <<private, table, schema, version, lock, proc, ran, opens, faults>>

\* at:    where the process is in NewRegistry; "open" holds the registry
\* knows: the newest migration of its binary
\* next:  the migration it is about to apply
Idle == [at |-> "idle", knows |-> 1, next |-> 1]

At(p, s) == proc[p].at = s
Opening(p) == proc[p].at \in {"chmod", "ensure", "read", "exec", "commit"}
Goto(p, s) == proc' = [proc EXCEPT ![p].at = s]

-----------------------------------------------------------------------------
(* NewRegistry, New and apply, statement by statement. *)

\* sql.Open and Ping create the file, with the mode of the umask.
Open(p) ==
  /\ At(p, "idle")
  /\ opens < MaxOpens /\ opens' = opens + 1
  /\ \E k \in Binaries : proc' = [proc EXCEPT ![p] = [Idle EXCEPT !.at = "chmod", !.knows = k]]
  /\ UNCHANGED <<file, lock, faults>>

Chmod(p) ==
  /\ At(p, "chmod")
  /\ private' = TRUE
  /\ Goto(p, "ensure")
  /\ UNCHANGED <<table, schema, version, lock, ran, opens, faults>>

\* CREATE TABLE IF NOT EXISTS waits for a writer that is inside a transaction.
EnsureTable(p) ==
  /\ At(p, "ensure") /\ lock = NoProc
  /\ table' = TRUE
  /\ Goto(p, "read")
  /\ UNCHANGED <<private, schema, version, lock, ran, opens, faults>>

\* A read sees the last committed state, also during somebody's transaction.
ReadVersion(p) ==
  /\ At(p, "read")
  /\ proc' = [proc EXCEPT ![p].next = version + 1,
                          ![p].at = IF version > proc[p].knows THEN "failed"
                                    ELSE IF version = proc[p].knows THEN "open"
                                    ELSE "exec"]
  /\ UNCHANGED <<file, lock, opens, faults>>

\* Mutant: scripts written with IF NOT EXISTS run on any file.
RunsAgain(m) == m \in 1 .. Latest

\* The script of migration m runs on this schema.
Runs(m) == schema = 1 .. (m - 1)

\* applyOne: the script takes the write lock, or fails and is rolled back.
Exec(p) ==
  /\ At(p, "exec") /\ lock = NoProc
  /\ IF Runs(proc[p].next)
     THEN lock' = p /\ Goto(p, "commit")
     ELSE UNCHANGED lock /\ Goto(p, "failed")
  /\ UNCHANGED <<file, opens, faults>>

\* Mutant: the row is written before the transaction.
CommittedRowFirst(m) == version' = m /\ schema' \in {schema, schema \cup {m}}

\* The script and the new row of schema_version become visible together.
Committed(m) == schema' = schema \cup {m} /\ version' = m

\* Mutant: the loop runs one migration more than the binary knows.
CommitRunsOn(p) ==
  /\ At(p, "commit")
  /\ LET m == proc[p].next
     IN /\ Committed(m)
        /\ ran' = Append(ran, m)
        /\ proc' = [proc EXCEPT ![p].next = m + 1,
                                ![p].at = IF m > proc[p].knows THEN "open" ELSE "exec"]
  /\ lock' = NoProc
  /\ UNCHANGED <<private, table, opens, faults>>

\* Mutant: the list of migrations ends one too early.
CommitStopsShort(p) ==
  /\ At(p, "commit")
  /\ LET m == proc[p].next
     IN /\ Committed(m)
        /\ ran' = Append(ran, m)
        /\ proc' = [proc EXCEPT ![p].next = m + 1,
                                ![p].at = IF m + 1 >= proc[p].knows THEN "open" ELSE "exec"]
  /\ lock' = NoProc
  /\ UNCHANGED <<private, table, opens, faults>>

\* Mutant: a committed migration keeps its connection and the lock.
CommitKeepsLock(p) ==
  /\ At(p, "commit")
  /\ LET m == proc[p].next
     IN /\ Committed(m)
        /\ ran' = Append(ran, m)
        /\ proc' = [proc EXCEPT ![p].next = m + 1,
                                ![p].at = IF m = proc[p].knows THEN "open" ELSE "exec"]
  /\ UNCHANGED <<private, table, lock, opens, faults>>

Commit(p) ==
  /\ At(p, "commit")
  /\ LET m == proc[p].next
     IN /\ Committed(m)
        /\ ran' = Append(ran, m)
        /\ proc' = [proc EXCEPT ![p].next = m + 1,
                                ![p].at = IF m = proc[p].knows THEN "open" ELSE "exec"]
  /\ lock' = NoProc
  /\ UNCHANGED <<private, table, opens, faults>>

-----------------------------------------------------------------------------
(* What goes wrong, and the end of a command. *)

Released(p) == IF lock = p THEN NoProc ELSE lock

\* A statement fails or the busy timeout of five seconds passes: New closes
\* the file and returns an error; an open transaction is rolled back.
Fail(p) ==
  /\ Opening(p)
  /\ faults < MaxFaults /\ faults' = faults + 1
  /\ Goto(p, "failed")
  /\ lock' = Released(p)
  /\ UNCHANGED <<file, opens>>

\* The process dies; SQLite drops its lock and its transaction.
Die(p) ==
  /\ Opening(p) \/ At(p, "open")
  /\ faults < MaxFaults /\ faults' = faults + 1
  /\ proc' = [proc EXCEPT ![p] = Idle]
  /\ lock' = Released(p)
  /\ UNCHANGED <<file, opens>>

\* The command ends: Close, or the error it reports.
Close(p) ==
  /\ At(p, "open") \/ At(p, "failed")
  /\ proc' = [proc EXCEPT ![p] = Idle]
  /\ UNCHANGED <<file, lock, opens, faults>>

-----------------------------------------------------------------------------
Init ==
  /\ private = FALSE /\ table = FALSE /\ schema = {} /\ version = 0
  /\ lock = NoProc /\ ran = << >>
  /\ proc = [p \in Procs |-> Idle]
  /\ opens = 0 /\ faults = 0

Step(p) == Chmod(p) \/ EnsureTable(p) \/ ReadVersion(p) \/ Exec(p) \/ Commit(p)

Next == \E p \in Procs : Open(p) \/ Step(p) \/ Fail(p) \/ Die(p) \/ Close(p)

Spec == Init /\ [][Next]_vars

\* A process that is not killed goes on to its next statement.
FairSpec == Spec /\ \A p \in Procs : WF_vars(Step(p))

-----------------------------------------------------------------------------
(* Properties. *)

\* Every variable has its type.
TypeOK ==
  /\ private \in BOOLEAN /\ table \in BOOLEAN
  /\ schema \subseteq 1 .. Latest /\ version \in 0 .. Latest
  /\ lock \in Procs \cup {NoProc}
  /\ proc \in [Procs -> [at : {"idle", "chmod", "ensure", "read", "exec", "commit",
                               "open", "failed"},
                         knows : 1 .. Latest, next : 1 .. (Latest + 1)]]
  /\ ran \in Seq(1 .. Latest)
  /\ opens \in 0 .. MaxOpens /\ faults \in 0 .. MaxFaults

\* The file has exactly the tables and columns that its schema_version says,
\* and nothing at all before only its owner can read it (applyOne's
\* transaction, New's order), whatever processes died or lost a race.
SchemaMatchesVersion ==
  /\ schema = 1 .. version
  /\ schema # {} => table /\ private

\* A registry that New has returned has every table its binary knows: a
\* process that lost the race for a migration never goes on to work on the
\* half-migrated file of another.
OpenHasSchema ==
  \A p \in Procs : At(p, "open") => 1 .. proc[p].knows \subseteq schema

\* Each migration runs once and in order, and none is undone: the file goes
\* through the migrations of ForwardOnly.
Forward == INSTANCE ForwardOnly WITH Latest <- Latest, ran <- ran
MigratesForward == Forward!AbsSpec

\* Two processes that find an old file make each other fail, and still one of
\* them finishes the work: unless a call fails or a process dies, the file
\* ends at a version some binary ships.
NobodyStuckHalfway ==
  \A p \in Procs : At(p, "exec") ~> (version \in Binaries \/ faults > 0)
=============================================================================
