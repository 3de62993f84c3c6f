--------------------------- MODULE ServerStartup ---------------------------
(***************************************************************************)
(* Server processes that are started, stopped and crash on one host, with  *)
(* the same port, database, tmux sockets and runtime files (src/src/main.rs *)
(* and the migrations of src/src/db.rs).                                   *)
(*                                                                         *)
(* Binding the port is the mutual exclusion between them.  A process that  *)
(* shuts down gives the port up first and drops its runtime files at the   *)
(* end of main, so a successor may already be starting meanwhile.  A crash *)
(* may happen between any two steps; SQL statements outside a transaction  *)
(* are steps of their own.                                                 *)
(***************************************************************************)
EXTENDS Naturals, Sequences, FiniteSets

CONSTANTS
    Procs,        \* server processes, each started at most once
    Resetters,    \* those started with --reset
    Nobody,       \* not a process
    Repeatable    \* for each migration, for each of its SQL statements: whether running
                  \* it again does no harm (CREATE TABLE IF NOT EXISTS, UPDATE)

ASSUME StartupAssumption ==
    /\ Resetters \subseteq Procs
    /\ Nobody \notin Procs
    /\ Repeatable \in Seq(Seq(BOOLEAN))

\* The schema version of a database that has seen all migrations.
CurrentVersion == Len(Repeatable)

\* The statements that take version v to version v + 1.
Batch(v) == Repeatable[v + 1]

\* Every statement, as its version and its place in the batch.
Statements == UNION {{v} \X (1..Len(Batch(v))) : v \in 0..(CurrentVersion - 1)}

Files == {"port", "pid"}

VARIABLES
    pc,         \* where main() of a process is
    port,       \* who is bound to the port
    version,    \* PRAGMA user_version of the database file
    applied,    \* the statements <<v, i>> the database has seen
    at,         \* the statement <<v, i>> a process executes next
    links,      \* the processes whose bridges have linked sessions
    stale,      \* the linked sessions a sweep listed and has not killed yet
    file,       \* who wrote a runtime file; Nobody if it is not there
    published   \* the runtime files a process has written and will drop

vars == <<pc, port, version, applied, at, links, stale, file, published>>

Starting == {"killServers", "removeDb", "checkTmux", "open", "migrate", "sweep", "publish", "publishPid"}
Stopping == {"stopping", "dropPid", "removePid", "dropPort", "removePort"}
Ends == {"exited", "crashed", "panicked"}

TypeOK ==
    /\ pc \in [Procs -> {"idle", "serving"} \cup Starting \cup Stopping \cup Ends]
    /\ port \in Procs \cup {Nobody}
    /\ version \in 0..CurrentVersion
    /\ applied \subseteq Statements
    /\ at \in [Procs -> (0..CurrentVersion) \X (Nat \ {0})]
    /\ links \subseteq Procs
    /\ stale \in [Procs -> SUBSET Procs]
    /\ file \in [Files -> Procs \cup {Nobody}]
    /\ published \in [Procs -> SUBSET Files]

Init ==
    /\ pc = [p \in Procs |-> "idle"]
    /\ port = Nobody
    /\ version = 0
    /\ applied = {}
    /\ at = [p \in Procs |-> <<0, 1>>]
    /\ links = {}
    /\ stale = [p \in Procs |-> {}]
    /\ file = [k \in Files |-> Nobody]
    /\ published = [p \in Procs |-> {}]

Step(p, from, to) ==
    /\ pc[p] = from
    /\ pc' = [pc EXCEPT ![p] = to]

-----------------------------------------------------------------------------
(***************************************************************************)
(* Start: bind, --reset, open and migrate, sweep, publish.                 *)
(***************************************************************************)

PortFree(p) == port = Nobody

\* The port is bound before anything is touched; a process that cannot bind exits.
Bind(p) ==
    /\ PortFree(p)
    /\ Step(p, "idle", IF p \in Resetters THEN "killServers" ELSE "checkTmux")
    /\ port' = p
    /\ UNCHANGED <<version, applied, at, links, stale, file, published>>

\* Mutant: the sweep comes before the port is bound.
SweepsFirst(p) ==
    /\ ~PortFree(p)
    /\ Step(p, "idle", "exited")
    /\ links' = {}
    /\ UNCHANGED <<port, version, applied, at, stale, file, published>>

BindFails(p) ==
    /\ ~PortFree(p)
    /\ Step(p, "idle", "exited")
    /\ UNCHANGED <<port, version, applied, at, links, stale, file, published>>

\* --reset: all tmux servers, then the database files.
KillServers(p) ==
    /\ Step(p, "killServers", "removeDb")
    /\ links' = {}
    /\ UNCHANGED <<port, version, applied, at, stale, file, published>>

RemoveDb(p) ==
    /\ Step(p, "removeDb", "checkTmux")
    /\ version' = 0
    /\ applied' = {}
    /\ UNCHANGED <<port, at, links, stale, file, published>>

CheckTmux(p) ==
    /\ Step(p, "checkTmux", "open")
    /\ UNCHANGED <<port, version, applied, at, links, stale, file, published>>

\* tmux is not installed: exit(1), after --reset has had its effect.
NoTmux(p) ==
    /\ Step(p, "checkTmux", "exited")
    /\ port' = Nobody
    /\ UNCHANGED <<version, applied, at, links, stale, file, published>>

\* Mutant: the stored version is ignored.
FromScratch == 0

StoredVersion == version

OpenDb(p) ==
    /\ Step(p, "open", "migrate")
    /\ at' = [at EXCEPT ![p] = <<StoredVersion, 1>>]
    /\ UNCHANGED <<port, version, applied, links, stale, file, published>>

\* Mutants: off by one, in either direction.
AllButLast(p) == at[p][2] >= Len(Batch(at[p][1]))
PastLast(p) == at[p][2] > Len(Batch(at[p][1])) + 1

BatchDone(p) == at[p][2] > Len(Batch(at[p][1]))

Migrating(p) == pc[p] = "migrate" /\ at[p][1] < CurrentVersion

Fails(s) == s \in applied /\ ~Batch(s[1])[s[2]]

Statement(p) ==
    /\ Migrating(p)
    /\ ~BatchDone(p)
    /\ ~Fails(at[p])
    /\ applied' = applied \cup {at[p]}
    /\ at' = [at EXCEPT ![p] = <<@[1], @[2] + 1>>]
    /\ UNCHANGED <<pc, port, version, links, stale, file, published>>

\* A statement that has been executed before fails (table or column exists): panic.
StatementFails(p) ==
    /\ Migrating(p)
    /\ ~BatchDone(p)
    /\ Fails(at[p])
    /\ Step(p, "migrate", "panicked")
    /\ port' = Nobody
    /\ UNCHANGED <<version, applied, at, links, stale, file, published>>

\* PRAGMA user_version follows its batch, outside any transaction.
SetVersion(p) ==
    /\ Migrating(p)
    /\ BatchDone(p)
    /\ version' = at[p][1] + 1
    /\ at' = [at EXCEPT ![p] = <<@[1] + 1, 1>>]
    /\ UNCHANGED <<pc, port, applied, links, stale, file, published>>

\* The sessions named ws-N--*; a main session ws-N is not one of them.
ListLinks(p) ==
    /\ at[p][1] = CurrentVersion
    /\ Step(p, "migrate", "sweep")
    /\ stale' = [stale EXCEPT ![p] = links]
    /\ UNCHANGED <<port, version, applied, at, links, file, published>>

SweepLink(p, l) ==
    /\ pc[p] = "sweep"
    /\ l \in stale[p]
    /\ stale' = [stale EXCEPT ![p] = @ \ {l}]
    /\ links' = links \ {l}
    /\ UNCHANGED <<pc, port, version, applied, at, file, published>>

SweepEnds(p) ==
    /\ stale[p] = {}
    /\ Step(p, "sweep", "publish")
    /\ UNCHANGED <<port, version, applied, at, links, stale, file, published>>

\* A runtime file is written, or cannot be written and will not be dropped either.
Publish(p, k) ==
    /\ \/ /\ file' = [file EXCEPT ![k] = p]
          /\ published' = [published EXCEPT ![p] = @ \cup {k}]
       \/ UNCHANGED <<file, published>>
    /\ UNCHANGED <<port, version, applied, at, links, stale>>

PublishPort(p) == Step(p, "publish", "publishPid") /\ Publish(p, "port")
PublishPid(p) == Step(p, "publishPid", "serving") /\ Publish(p, "pid")

-----------------------------------------------------------------------------
(***************************************************************************)
(* Serving, shutting down, crashing.                                       *)
(***************************************************************************)

\* Terminal connections come and go; open ones last into the shutdown.
Attach(p) ==
    /\ pc[p] = "serving"
    /\ links' = links \cup {p}
    /\ UNCHANGED <<pc, port, version, applied, at, stale, file, published>>

Detach(p) ==
    /\ pc[p] \in {"serving", "stopping"}
    /\ links' = links \ {p}
    /\ UNCHANGED <<pc, port, version, applied, at, stale, file, published>>

\* A signal: the listener is closed, then requests under way may finish.
Shutdown(p) ==
    /\ Step(p, "serving", "stopping")
    /\ port' = Nobody
    /\ UNCHANGED <<version, applied, at, links, stale, file, published>>

MainReturns(p) ==
    /\ Step(p, "stopping", "dropPid")
    /\ UNCHANGED <<port, version, applied, at, links, stale, file, published>>

\* The port file says the same whoever wrote it, the pid file does not.
Contents(k, p) == IF k = "port" THEN "port" ELSE <<p>>

\* Mutant: the contents are compared with something that was never written.
NeverSame(p, k) == FALSE

\* The file holds what this process has written.
SameContents(p, k) == k \in published[p] /\ file[k] # Nobody /\ Contents(k, file[k]) = Contents(k, p)

\* PublishedRuntimeFile::drop reads the file, then removes it: the guard of the pid
\* first, being declared last.
DropReads(p, k, from, remove, otherwise) ==
    /\ Step(p, from, IF SameContents(p, k) THEN remove ELSE otherwise)
    /\ UNCHANGED <<port, version, applied, at, links, stale, file, published>>

DropRemoves(p, k, from, to) ==
    /\ Step(p, from, to)
    /\ file' = [file EXCEPT ![k] = Nobody]
    /\ UNCHANGED <<port, version, applied, at, links, stale, published>>

DropPid(p) == DropReads(p, "pid", "dropPid", "removePid", "dropPort")
RemovePid(p) == DropRemoves(p, "pid", "removePid", "dropPort")
DropPort(p) == DropReads(p, "port", "dropPort", "removePort", "exited")
RemovePort(p) == DropRemoves(p, "port", "removePort", "exited")

\* A crash leaves files, linked sessions and half a migration behind.
Crash(p) ==
    /\ pc[p] \in Starting \cup Stopping \cup {"serving"}
    /\ pc' = [pc EXCEPT ![p] = "crashed"]
    /\ port' = IF port = p THEN Nobody ELSE port
    /\ UNCHANGED <<version, applied, at, links, stale, file, published>>

Next ==
    \E p \in Procs :
        \/ Bind(p) \/ BindFails(p)
        \/ KillServers(p) \/ RemoveDb(p)
        \/ CheckTmux(p) \/ NoTmux(p)
        \/ OpenDb(p) \/ Statement(p) \/ StatementFails(p) \/ SetVersion(p)
        \/ ListLinks(p) \/ (\E l \in Procs : SweepLink(p, l)) \/ SweepEnds(p)
        \/ PublishPort(p) \/ PublishPid(p)
        \/ Attach(p) \/ Detach(p)
        \/ Shutdown(p) \/ MainReturns(p)
        \/ DropPid(p) \/ RemovePid(p) \/ DropPort(p) \/ RemovePort(p)
        \/ Crash(p)

Spec == Init /\ [][Next]_vars

-----------------------------------------------------------------------------
(***************************************************************************)
(* Properties.                                                             *)
(***************************************************************************)

\* While a server serves, no other process - not one that fails to start, not one
\* with --reset, not one that is still shutting down - kills its linked sessions or
\* touches its schema: the port is taken before anything else is (main.rs, "if
\* another server is already running we must fail here having touched nothing").
ServingUndisturbed ==
    [][\A p \in Procs :
          pc[p] = "serving" /\ pc'[p] = "serving" =>
              /\ version' = version /\ applied' = applied
              /\ p \in links \ links' => \A q \in Procs \ {p} : pc'[q] = pc[q] /\ stale'[q] = stale[q]]_vars

\* A server only serves a database that has seen every statement of every
\* migration, whatever crashes, half migrations and resets came before.
ServedSchemaComplete ==
    \A p \in Procs : pc[p] = "serving" => version = CurrentVersion /\ applied = Statements

\* A process cut off in the middle of a batch: some statement was executed and the
\* version was not set.
Torn(p, v) == pc[p] = "crashed" /\ at[p][1] = v /\ at[p][2] > 1

\* The only way to a database that no start can migrate any more is a crash between
\* the first statement of a batch and the setting of the version.
PanicMeansTorn ==
    \A p \in Procs : pc[p] = "panicked" => \E q \in Procs : Torn(q, at[p][1])

\* When all servers have ended and none of them crashed no runtime file is left,
\* in whatever order predecessors and successors wrote and dropped them.
CleanExitLeavesNothing ==
    (\A p \in Procs : pc[p] \in {"idle", "exited"}) => \A k \in Files : file[k] = Nobody

-----------------------------------------------------------------------------
(***************************************************************************)
(* What a comment says, and the code does not do.                          *)
(***************************************************************************)

\* "The guards remove only their own values on clean shutdown, never a newer
\* process's replacement": a process that finds a file worth removing has itself
\* written it.
NewerFileKept ==
    [][\A p \in Procs :
          /\ pc[p] = "dropPid" /\ pc'[p] = "removePid" => file["pid"] = p
          /\ pc[p] = "dropPort" /\ pc'[p] = "removePort" => file["port"] = p]_vars
=============================================================================
