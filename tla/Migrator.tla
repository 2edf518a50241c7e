------------------------------ MODULE Migrator ------------------------------
(***************************************************************************)
(* internal/core/repository/migration/migrator.go: processes that run       *)
(* EnsureSchema on one database, as `veam-cli migrate` does in the init     *)
(* container of each pod.                                                  *)
(*                                                                         *)
(* A process reads the schema's version once and then applies the files it  *)
(* was built with, in order, each in a database transaction of its own:     *)
(* the DDL, the row of payment_engine_migrations, COMMIT.  Nothing keeps    *)
(* two processes from applying the same file; the primary key of the        *)
(* version row does, late.  A process that fails exits and is started anew.*)
(***************************************************************************)
EXTENDS Naturals, FiniteSetsExt

CONSTANTS
    Processes,
    Versions,       \* of the schema
    Files,          \* [Processes -> SUBSET Versions]: what each build embeds
    MaxFaults

\* A newer build keeps the files of the older ones.
MigratorConstants ==
    /\ Versions \subseteq Nat \ {0}
    /\ Files \in [Processes -> SUBSET Versions]
    /\ \A p \in Processes : \A v \in Files[p] : \A u \in Versions : u < v => u \in Files[p]
    /\ MaxFaults \in Nat

VARIABLES
    schema,         \* versions whose DDL is committed
    rows,           \* payment_engine_migrations
    pc,
    upTo,           \* the version a process has read or brought the schema to
    faults

vars == <<schema, rows, pc, upTo, faults>>

Fault == faults < MaxFaults /\ faults' = faults + 1

Goto(p, step) == pc' = [pc EXCEPT ![p] = step]

\* Fault: one migration too many is taken for applied.
Pending_OffByOne(p) == {v \in Files[p] : v > upTo[p] + 1}

\* The files still to apply.
Pending(p) == {v \in Files[p] : v > upTo[p]}

\* The one that is next, or being applied.  sort.Strings goes by the files' names: the
\* same order while the numbers they start with have one width (001, 002).
Target(p) == Min(Pending(p))

\* EnsureSchema returns and its locals are gone.
Return(p, step) ==
    /\ Goto(p, step)
    /\ upTo' = [upTo EXCEPT ![p] = 0]

Applying(p, v) == pc[p] \in {"record", "commit"} /\ Target(p) = v

-----------------------------------------------------------------------------

\* CREATE TABLE IF NOT EXISTS payment_engine_migrations.
CreateControlTable(p) ==
    /\ pc[p] = "start"
    /\ Goto(p, "read")
    /\ UNCHANGED <<schema, rows, upTo, faults>>

\* SELECT COALESCE(MAX(version), 0)
ReadVersion(p) ==
    /\ pc[p] = "read"
    /\ upTo' = [upTo EXCEPT ![p] = Max(rows \cup {0})]
    /\ Goto(p, "next")
    /\ UNCHANGED <<schema, rows, faults>>

\* Fault: the DDL runs outside the transaction.
AfterDDL_AutoCommit(v) == schema \cup {v}

\* Uncommitted DDL is nobody else's.
AfterDDL(v) == schema

\* Begin, and the file's DDL, which waits for a transaction with the same DDL to end.
\* It finds nothing to do if that one has committed (IF NOT EXISTS), or trips over the
\* catalog's own unique index, which comes to the same as AlreadyApplied.
Execute(p) ==
    /\ pc[p] = "next"
    /\ Pending(p) # {}
    /\ \A q \in Processes : ~Applying(q, Target(p))
    /\ schema' = AfterDDL(Target(p))
    /\ Goto(p, "record")
    /\ UNCHANGED <<rows, upTo, faults>>

\* INSERT of the version, which must be new.
Record(p) ==
    /\ pc[p] = "record"
    /\ Target(p) \notin rows
    /\ Goto(p, "commit")
    /\ UNCHANGED <<schema, rows, upTo, faults>>

\* Another process has applied the file since this one read the version: rollback,
\* EnsureSchema fails and with it the process.
AlreadyApplied(p) ==
    /\ pc[p] = "record"
    /\ Target(p) \in rows
    /\ Return(p, "start")
    /\ UNCHANGED <<schema, rows, faults>>

Committed(p) ==
    /\ schema' = schema \cup {Target(p)}
    /\ rows' = rows \cup {Target(p)}

Commit(p) ==
    /\ pc[p] = "commit"
    /\ Committed(p)
    /\ upTo' = [upTo EXCEPT ![p] = Target(p)]
    /\ Goto(p, "next")
    /\ UNCHANGED faults

\* EnsureSchema returns nil.
Finish(p) ==
    /\ pc[p] = "next"
    /\ Pending(p) = {}
    /\ Return(p, "done")
    /\ UNCHANGED <<schema, rows, faults>>

\* A statement fails or the process dies, and the transaction is rolled back; or only
\* the answer to COMMIT is lost.
Fail(p) ==
    /\ Fault
    /\ pc[p] # "done"
    /\ \/ UNCHANGED <<schema, rows>>
       \/ pc[p] = "commit" /\ Committed(p)
    /\ Return(p, "start")

Init ==
    /\ schema = {}
    /\ rows = {}
    /\ pc = [p \in Processes |-> "start"]
    /\ upTo = [p \in Processes |-> 0]
    /\ faults = 0

Step(p) ==
    \/ CreateControlTable(p) \/ ReadVersion(p) \/ Finish(p)
    \/ Execute(p) \/ Record(p) \/ AlreadyApplied(p) \/ Commit(p)

AllDone == \A p \in Processes : pc[p] = "done"

-----------------------------------------------------------------------------
(***************************************************************************)
(* Properties                                                              *)
(***************************************************************************)

\* However processes race, fail and start again, the version table tells the schema:
\* a version is in it exactly if its whole DDL is, and never without the versions
\* below it (EnsureSchema's one transaction per file, MAX(version)).
VersionsTellSchema ==
    /\ schema = rows
    /\ \A v \in rows : \A u \in Versions : u < v => u \in rows

\* A process whose EnsureSchema has returned nil has all its files in the schema,
\* those it skipped because another process was faster included.
DoneMeansCurrent == \A p \in Processes : pc[p] = "done" => Files[p] \subseteq schema

=============================================================================
