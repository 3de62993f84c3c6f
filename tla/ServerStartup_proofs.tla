------------------------ MODULE ServerStartup_proofs ------------------------
(***************************************************************************)
(* What ServerStartup promises for any number of processes and any list of *)
(* migrations: the port really is the mutual exclusion main.rs takes it    *)
(* for, and a server that serves has a complete schema.                    *)
(***************************************************************************)
EXTENDS ServerStartup, TLAPS

\* From binding to shutdown a process is the one bound to the port.
PortHeld == \A p \in Procs : pc[p] \in Starting \cup {"serving"} => port = p

\* The database has seen every batch below its version.
SchemaSeen ==
    \A v \in 0..(CurrentVersion - 1) : v < version =>
        \A i \in 1..Len(Batch(v)) : <<v, i>> \in applied

\* A migration works on the batch the version asks for, statement by statement.
BatchUnderway ==
    \A p \in Procs : pc[p] = "migrate" =>
        /\ at[p][1] = version
        /\ version < CurrentVersion =>
              \A i \in 1..Len(Batch(version)) : i < at[p][2] => <<version, i>> \in applied

\* The sweep starts when nothing is left to migrate.
Migrated ==
    \A p \in Procs : pc[p] \in {"sweep", "publish", "publishPid", "serving"} => version = CurrentVersion

Inv == TypeOK /\ PortHeld /\ SchemaSeen /\ BatchUnderway /\ Migrated

-----------------------------------------------------------------------------

LEMMA VersionsAndBatches ==
    /\ CurrentVersion \in Nat
    /\ \A v \in 0..(CurrentVersion - 1) : Len(Batch(v)) \in Nat
<1>1. Repeatable \in Seq(Seq(BOOLEAN))
  BY StartupAssumption
<1>2. CurrentVersion \in Nat
  BY <1>1 DEF CurrentVersion
<1>3. ASSUME NEW v \in 0..(CurrentVersion - 1) PROVE Len(Batch(v)) \in Nat
  <2>1. v + 1 \in 1..Len(Repeatable)
    BY <1>2 DEF CurrentVersion
  <2>2. Repeatable[v + 1] \in Seq(BOOLEAN)
    BY <1>1, <2>1
  <2> QED
    BY <2>2 DEF Batch
<1> QED
  BY <1>2, <1>3

LEMMA StatementsOfBatch ==
    /\ \A v \in 0..(CurrentVersion - 1) : \A i \in 1..Len(Batch(v)) : <<v, i>> \in Statements
    /\ \A s \in Statements : \E v \in 0..(CurrentVersion - 1) : \E i \in 1..Len(Batch(v)) : s = <<v, i>>
  BY DEF Statements

\* Where a process executes statements: at a place of a batch that is not done.
LEMMA PlaceInBatch ==
    ASSUME TypeOK, NEW p \in Procs
    PROVE  /\ at[p] = <<at[p][1], at[p][2]>>
           /\ at[p][1] \in 0..CurrentVersion
           /\ at[p][2] \in Nat \ {0}
  BY DEF TypeOK

LEMMA ExecutesStatement ==
    ASSUME TypeOK, NEW p \in Procs, Statement(p)
    PROVE  /\ at[p][1] \in 0..(CurrentVersion - 1)
           /\ at[p][2] \in 1..Len(Batch(at[p][1]))
           /\ at[p] \in Statements
<1>1. at[p][1] \in 0..(CurrentVersion - 1)
  BY PlaceInBatch, VersionsAndBatches DEF Statement, Migrating
<1>2. at[p][2] \in 1..Len(Batch(at[p][1]))
  <2>1. Len(Batch(at[p][1])) \in Nat
    BY <1>1, VersionsAndBatches
  <2> QED
    BY <2>1, PlaceInBatch DEF Statement, BatchDone
<1>3. <<at[p][1], at[p][2]>> \in Statements
  BY <1>1, <1>2, StatementsOfBatch
<1> QED
  BY <1>1, <1>2, <1>3, PlaceInBatch

LEMMA InitInv == Init => Inv
<1> SUFFICES ASSUME Init PROVE Inv
  OBVIOUS
<1>1. TypeOK
  BY VersionsAndBatches DEF Init, TypeOK, Files
<1>2. PortHeld /\ BatchUnderway /\ Migrated
  BY DEF Init, PortHeld, BatchUnderway, Migrated, Starting
<1>3. SchemaSeen
  BY VersionsAndBatches DEF Init, SchemaSeen
<1> QED
  BY <1>1, <1>2, <1>3 DEF Inv

-----------------------------------------------------------------------------
(***************************************************************************)
(* Each step preserves the types.                                          *)
(***************************************************************************)

LEMMA StartTypes ==
    ASSUME TypeOK, NEW p \in Procs,
           Bind(p) \/ BindFails(p) \/ KillServers(p) \/ RemoveDb(p) \/ CheckTmux(p) \/ NoTmux(p)
    PROVE  TypeOK'
<1>1. CASE Bind(p) \/ BindFails(p)
  BY <1>1 DEF TypeOK, Bind, BindFails, Step, Starting, Ends
<1>2. CASE RemoveDb(p)
  BY <1>2, VersionsAndBatches DEF TypeOK, RemoveDb, Step, Starting
<1>3. CASE KillServers(p) \/ CheckTmux(p) \/ NoTmux(p)
  BY <1>3 DEF TypeOK, KillServers, CheckTmux, NoTmux, Step, Starting, Ends
<1> QED
  BY <1>1, <1>2, <1>3

LEMMA MigrationTypes ==
    ASSUME TypeOK, NEW p \in Procs,
           OpenDb(p) \/ Statement(p) \/ StatementFails(p) \/ SetVersion(p)
    PROVE  TypeOK'
<1>1. CASE OpenDb(p)
  BY <1>1 DEF TypeOK, OpenDb, StoredVersion, Step, Starting
<1>2. CASE Statement(p)
  <2>1. at[p] \in Statements
    BY <1>2, ExecutesStatement
  <2>2. <<at[p][1], at[p][2] + 1>> \in (0..CurrentVersion) \X (Nat \ {0})
    BY PlaceInBatch
  <2> QED
    BY <1>2, <2>1, <2>2 DEF TypeOK, Statement
<1>3. CASE StatementFails(p)
  BY <1>3 DEF TypeOK, StatementFails, Step, Ends
<1>4. CASE SetVersion(p)
  <2>1. at[p][1] + 1 \in 0..CurrentVersion
    BY <1>4, PlaceInBatch, VersionsAndBatches DEF SetVersion, Migrating
  <2> QED
    BY <1>4, <2>1 DEF TypeOK, SetVersion
<1> QED
  BY <1>1, <1>2, <1>3, <1>4

LEMMA SweepTypes ==
    ASSUME TypeOK, NEW p \in Procs,
           \/ ListLinks(p) \/ (\E l \in Procs : SweepLink(p, l)) \/ SweepEnds(p)
           \/ PublishPort(p) \/ PublishPid(p)
    PROVE  TypeOK'
<1>1. CASE ListLinks(p) \/ SweepEnds(p)
  BY <1>1 DEF TypeOK, ListLinks, SweepEnds, Step, Starting
<1>2. CASE \E l \in Procs : SweepLink(p, l)
  BY <1>2 DEF TypeOK, SweepLink
<1>3. CASE PublishPort(p) \/ PublishPid(p)
  BY <1>3 DEF TypeOK, PublishPort, PublishPid, Publish, Step, Starting, Files
<1> QED
  BY <1>1, <1>2, <1>3

LEMMA ServingTypes ==
    ASSUME TypeOK, NEW p \in Procs,
           \/ Attach(p) \/ Detach(p) \/ Shutdown(p) \/ MainReturns(p)
           \/ DropPid(p) \/ RemovePid(p) \/ DropPort(p) \/ RemovePort(p) \/ Crash(p)
    PROVE  TypeOK'
<1>1. CASE Attach(p) \/ Detach(p)
  BY <1>1 DEF TypeOK, Attach, Detach
<1>2. CASE Shutdown(p) \/ MainReturns(p) \/ Crash(p)
  BY <1>2 DEF TypeOK, Shutdown, MainReturns, Crash, Step, Stopping, Ends
<1>3. CASE DropPid(p) \/ DropPort(p)
  BY <1>3 DEF TypeOK, DropPid, DropPort, DropReads, Step, Stopping, Ends
<1>4. CASE RemovePid(p) \/ RemovePort(p)
  BY <1>4 DEF TypeOK, RemovePid, RemovePort, DropRemoves, Step, Stopping, Ends, Files
<1> QED
  BY <1>1, <1>2, <1>3, <1>4

-----------------------------------------------------------------------------
(***************************************************************************)
(* Each step keeps the port, and touches the schema only while it holds it. *)
(***************************************************************************)

\* A step that leaves the schema and the places of the processes alone, moves one
\* process, and gives the port to nobody else.
Moves(p) ==
    /\ UNCHANGED <<version, applied, at>>
    /\ \E to \in {pc[p]} \cup Starting \cup Stopping \cup Ends \cup {"serving"} :
          /\ pc' = [pc EXCEPT ![p] = to]
          /\ to \in Starting \cup {"serving"} =>
                pc[p] \in Starting \cup {"serving"} /\ UNCHANGED port
          /\ to = "migrate" => pc[p] = "migrate"
          /\ to \in {"sweep", "publish", "publishPid", "serving"} =>
                \/ pc[p] \in {"sweep", "publish", "publishPid", "serving"}
                \/ at[p][1] = CurrentVersion /\ pc[p] = "migrate"
    /\ port' = port \/ (port' = Nobody /\ port = p)

LEMMA MovesKeepInv ==
    ASSUME Inv, NEW p \in Procs, Moves(p)
    PROVE  PortHeld' /\ SchemaSeen' /\ BatchUnderway' /\ Migrated'
<1> USE DEF Inv
<1>1. SchemaSeen'
  BY DEF Moves, SchemaSeen
<1>2. PortHeld'
  BY DEF Moves, PortHeld, TypeOK
<1>3. BatchUnderway'
  BY DEF Moves, BatchUnderway, TypeOK
<1>4. Migrated'
  BY DEF Moves, Migrated, BatchUnderway, TypeOK
<1> QED
  BY <1>1, <1>2, <1>3, <1>4

LEMMA MovingSteps ==
    ASSUME Inv, NEW p \in Procs,
           \/ BindFails(p) \/ KillServers(p) \/ CheckTmux(p) \/ NoTmux(p) \/ StatementFails(p)
           \/ ListLinks(p) \/ (\E l \in Procs : SweepLink(p, l)) \/ SweepEnds(p)
           \/ PublishPort(p) \/ PublishPid(p)
           \/ Attach(p) \/ Detach(p) \/ Shutdown(p) \/ MainReturns(p)
           \/ DropPid(p) \/ RemovePid(p) \/ DropPort(p) \/ RemovePort(p) \/ Crash(p)
    PROVE  Moves(p)
<1> USE DEF Inv, PortHeld, Moves, Step, Starting, Stopping, Ends
<1>1. CASE BindFails(p) \/ KillServers(p) \/ CheckTmux(p) \/ NoTmux(p)
  BY <1>1 DEF BindFails, KillServers, CheckTmux, NoTmux
<1>2. CASE StatementFails(p) \/ ListLinks(p) \/ SweepEnds(p)
  BY <1>2 DEF StatementFails, ListLinks, SweepEnds
<1>3. CASE (\E l \in Procs : SweepLink(p, l)) \/ Attach(p) \/ Detach(p)
  BY <1>3 DEF SweepLink, Attach, Detach, TypeOK
<1>4. CASE PublishPort(p) \/ PublishPid(p)
  BY <1>4 DEF PublishPort, PublishPid, Publish
<1>5. CASE Shutdown(p) \/ MainReturns(p) \/ Crash(p)
  BY <1>5 DEF Shutdown, MainReturns, Crash
<1>6. CASE DropPid(p) \/ RemovePid(p) \/ DropPort(p) \/ RemovePort(p)
  BY <1>6 DEF DropPid, RemovePid, DropPort, RemovePort, DropReads, DropRemoves
<1> QED
  BY <1>1, <1>2, <1>3, <1>4, <1>5, <1>6

LEMMA BindKeepsInv ==
    ASSUME Inv, NEW p \in Procs, Bind(p)
    PROVE  PortHeld' /\ SchemaSeen' /\ BatchUnderway' /\ Migrated'
<1> USE DEF Inv, Bind, Step
<1>1. \A q \in Procs : pc[q] \notin Starting \cup {"serving"}
  BY StartupAssumption DEF PortHeld, PortFree
<1>2. PortHeld' /\ BatchUnderway' /\ Migrated'
  BY <1>1 DEF PortHeld, BatchUnderway, Migrated, Starting, TypeOK
<1>3. SchemaSeen'
  BY DEF SchemaSeen
<1> QED
  BY <1>2, <1>3

\* While p starts nobody else does.
LEMMA OneStarts ==
    ASSUME Inv, NEW p \in Procs, pc[p] \in Starting,
           NEW q \in Procs, pc[q] \in Starting \cup {"serving"}
    PROVE  p = q
  BY DEF Inv, PortHeld

LEMMA RemoveDbKeepsInv ==
    ASSUME Inv, NEW p \in Procs, RemoveDb(p)
    PROVE  PortHeld' /\ SchemaSeen' /\ BatchUnderway' /\ Migrated'
<1> USE DEF Inv, RemoveDb, Step
<1>1. \A q \in Procs \ {p} : pc[q] \notin Starting \cup {"serving"}
  BY OneStarts DEF Starting
<1>2. PortHeld' /\ BatchUnderway' /\ Migrated'
  BY <1>1 DEF PortHeld, BatchUnderway, Migrated, Starting, TypeOK
<1>3. SchemaSeen'
  BY VersionsAndBatches DEF SchemaSeen
<1> QED
  BY <1>2, <1>3

LEMMA OpenDbKeepsInv ==
    ASSUME Inv, NEW p \in Procs, OpenDb(p)
    PROVE  PortHeld' /\ SchemaSeen' /\ BatchUnderway' /\ Migrated'
<1> USE DEF Inv, OpenDb, Step, StoredVersion
<1>1. PortHeld' /\ Migrated'
  BY DEF PortHeld, Migrated, Starting, TypeOK
<1>2. at'[p] = <<version, 1>> /\ \A q \in Procs \ {p} : at'[q] = at[q] /\ pc'[q] = pc[q]
  BY DEF TypeOK
<1>3. version \in 0..CurrentVersion
  BY DEF TypeOK
<1>4. BatchUnderway'
  BY <1>2, <1>3, VersionsAndBatches DEF BatchUnderway
<1>5. SchemaSeen'
  BY DEF SchemaSeen
<1> QED
  BY <1>1, <1>4, <1>5

LEMMA StatementKeepsInv ==
    ASSUME Inv, NEW p \in Procs, Statement(p)
    PROVE  PortHeld' /\ SchemaSeen' /\ BatchUnderway' /\ Migrated'
<1> USE DEF Inv, Statement, Migrating
<1>1. PortHeld' /\ Migrated'
  BY DEF PortHeld, Migrated, TypeOK
<1>2. SchemaSeen'
  BY DEF SchemaSeen
<1>3. \A q \in Procs \ {p} : pc[q] # "migrate" /\ pc'[q] = pc[q]
  BY OneStarts DEF Starting
<1>4. /\ at'[p][1] = at[p][1] /\ at'[p][2] = at[p][2] + 1
      /\ at[p][2] \in Nat /\ at[p] = <<version, at[p][2]>>
  BY PlaceInBatch DEF TypeOK, BatchUnderway
<1>5. version < CurrentVersion =>
        \A i \in 1..Len(Batch(version)) : i < at[p][2] + 1 => <<version, i>> \in applied'
  BY <1>4, VersionsAndBatches DEF BatchUnderway, TypeOK
<1>6. BatchUnderway'
  BY <1>3, <1>4, <1>5 DEF BatchUnderway, TypeOK
<1> QED
  BY <1>1, <1>2, <1>6

LEMMA SetVersionKeepsInv ==
    ASSUME Inv, NEW p \in Procs, SetVersion(p)
    PROVE  PortHeld' /\ SchemaSeen' /\ BatchUnderway' /\ Migrated'
<1> USE DEF Inv, SetVersion, Migrating
<1>1. \A q \in Procs \ {p} : pc[q] \notin Starting \cup {"serving"} /\ pc'[q] = pc[q]
  BY OneStarts DEF Starting
<1>2. PortHeld'
  BY DEF PortHeld
<1>3. Migrated'
  BY <1>1 DEF Migrated, Starting
<1>4. /\ at[p][1] = version /\ version \in 0..(CurrentVersion - 1)
      /\ version' = version + 1 /\ at'[p] = <<version + 1, 1>>
  BY PlaceInBatch, VersionsAndBatches DEF TypeOK, BatchUnderway
<1>5. \A i \in 1..Len(Batch(version)) : <<version, i>> \in applied
  <2>1. Len(Batch(version)) \in Nat
    BY <1>4, VersionsAndBatches
  <2> QED
    BY <1>4, <2>1, PlaceInBatch DEF BatchUnderway, BatchDone
<1>6. SchemaSeen'
  BY <1>4, <1>5, VersionsAndBatches DEF SchemaSeen
<1>7. BatchUnderway'
  BY <1>1, <1>4, VersionsAndBatches DEF BatchUnderway, Starting
<1> QED
  BY <1>2, <1>3, <1>6, <1>7

-----------------------------------------------------------------------------
(***************************************************************************)
(* The theorems.                                                           *)
(***************************************************************************)

LEMMA StepInv == Inv /\ [Next]_vars => Inv'
<1> SUFFICES ASSUME Inv, [Next]_vars PROVE Inv'
  OBVIOUS
<1>1. CASE UNCHANGED vars
  BY <1>1 DEF vars, Inv, TypeOK, PortHeld, SchemaSeen, BatchUnderway, Migrated
<1>2. ASSUME NEW p \in Procs,
             Bind(p) \/ RemoveDb(p) \/ OpenDb(p) \/ Statement(p) \/ SetVersion(p)
      PROVE  Inv'
  BY <1>2, StartTypes, MigrationTypes, BindKeepsInv, RemoveDbKeepsInv, OpenDbKeepsInv,
     StatementKeepsInv, SetVersionKeepsInv DEF Inv
<1>3. ASSUME NEW p \in Procs,
             \/ BindFails(p) \/ KillServers(p) \/ CheckTmux(p) \/ NoTmux(p) \/ StatementFails(p)
             \/ ListLinks(p) \/ (\E l \in Procs : SweepLink(p, l)) \/ SweepEnds(p)
             \/ PublishPort(p) \/ PublishPid(p)
             \/ Attach(p) \/ Detach(p) \/ Shutdown(p) \/ MainReturns(p)
             \/ DropPid(p) \/ RemovePid(p) \/ DropPort(p) \/ RemovePort(p) \/ Crash(p)
      PROVE  Inv'
  <2>1. PortHeld' /\ SchemaSeen' /\ BatchUnderway' /\ Migrated'
    BY <1>3, MovingSteps, MovesKeepInv
  <2>2. TypeOK'
    BY <1>3, StartTypes, MigrationTypes, SweepTypes, ServingTypes DEF Inv
  <2> QED
    BY <2>1, <2>2 DEF Inv
<1> QED
  BY <1>1, <1>2, <1>3 DEF Next

LEMMA Invariance == Spec => []Inv
  BY InitInv, StepInv, PTL DEF Spec

\* Every variable keeps its type, for any number of processes and migrations.
THEOREM TypeCorrect == Spec => []TypeOK
  BY Invariance, PTL DEF Inv

\* A server that serves has a database that has seen every statement of every
\* migration, whatever crashes, torn batches and resets came before (main.rs binds
\* before it opens the database; db.rs run_migrations).
THEOREM SchemaComplete == Spec => []ServedSchemaComplete
<1>1. Inv => ServedSchemaComplete
  <2> SUFFICES ASSUME Inv, NEW p \in Procs, pc[p] = "serving"
               PROVE  version = CurrentVersion /\ applied = Statements
    BY DEF ServedSchemaComplete
  <2>1. version = CurrentVersion
    BY DEF Inv, Migrated
  <2>2. Statements \subseteq applied
    BY <2>1, StatementsOfBatch, VersionsAndBatches DEF Inv, SchemaSeen
  <2> QED
    BY <2>1, <2>2 DEF Inv, TypeOK
<1> QED
  BY <1>1, Invariance, PTL

\* While a server serves nobody else kills its linked sessions or touches its schema
\* (main.rs: the port is the mutual-exclusion lock), for any number of processes.
THEOREM Undisturbed == Spec => ServingUndisturbed
<1> DEFINE Kept(p) ==
      pc[p] = "serving" /\ pc'[p] = "serving" =>
          /\ version' = version /\ applied' = applied
          /\ p \in links \ links' => \A q \in Procs \ {p} : pc'[q] = pc[q] /\ stale'[q] = stale[q]
<1>1. ASSUME Inv, NEW p \in Procs, [Next]_vars PROVE Kept(p)
  <2> SUFFICES ASSUME pc[p] = "serving", pc'[p] = "serving" PROVE Kept(p)
    OBVIOUS
  <2>1. \A q \in Procs : pc[q] \notin Starting
    BY <1>1, OneStarts DEF Starting
  <2>2. CASE UNCHANGED vars
    BY <2>2 DEF vars
  <2>3. ASSUME NEW q \in Procs,
               \/ Bind(q) \/ BindFails(q) \/ Attach(q) \/ Shutdown(q) \/ MainReturns(q)
               \/ DropPid(q) \/ RemovePid(q) \/ DropPort(q) \/ RemovePort(q) \/ Crash(q)
        PROVE  Kept(p)
    BY <2>3 DEF Bind, BindFails, Attach, Shutdown, MainReturns, DropPid, RemovePid, DropPort,
                RemovePort, DropReads, DropRemoves, Crash, Step
  <2>4. ASSUME NEW q \in Procs, Detach(q) PROVE Kept(p)
    BY <2>4 DEF Detach
  <2>5. ASSUME NEW q \in Procs,
               \/ KillServers(q) \/ RemoveDb(q) \/ CheckTmux(q) \/ NoTmux(q) \/ OpenDb(q)
               \/ Statement(q) \/ StatementFails(q) \/ SetVersion(q) \/ ListLinks(q)
               \/ (\E l \in Procs : SweepLink(q, l)) \/ SweepEnds(q)
               \/ PublishPort(q) \/ PublishPid(q)
        PROVE  FALSE
    BY <2>1, <2>5 DEF KillServers, RemoveDb, CheckTmux, NoTmux, OpenDb, Statement, StatementFails,
                      SetVersion, Migrating, ListLinks, SweepLink, SweepEnds, PublishPort,
                      PublishPid, Step, Starting
  <2> QED
    BY <1>1, <2>2, <2>3, <2>4, <2>5 DEF Next
<1>2. Inv /\ [Next]_vars => [\A p \in Procs : Kept(p)]_vars
  BY <1>1
<1> QED
  BY <1>2, Invariance, PTL DEF Spec, ServingUndisturbed

-----------------------------------------------------------------------------
(***************************************************************************)
(* Torn databases.                                                         *)
(***************************************************************************)

\* Whoever executed statements of a batch the version does not count yet is still
\* at it, or crashed there.
HalfDone ==
    \A s \in applied : s[1] >= version =>
        \/ \E q \in Procs : pc[q] = "migrate" /\ at[q][1] = s[1] /\ s[2] < at[q][2]
        \/ \E q \in Procs : Torn(q, s[1])

TornInv == HalfDone /\ PanicMeansTorn

\* What is torn stays so: a process starts once.
LEMMA TornStays ==
    ASSUME Inv, NEW p \in Procs, pc[p] = "crashed", [Next]_vars
    PROVE  pc'[p] = pc[p] /\ at'[p] = at[p]
<1>1. pc[p] = "crashed"
  OBVIOUS
<1>2. CASE UNCHANGED vars
  BY <1>2 DEF vars
<1>3. ASSUME NEW q \in Procs,
             \/ Bind(q) \/ BindFails(q) \/ KillServers(q) \/ RemoveDb(q) \/ CheckTmux(q) \/ NoTmux(q)
             \/ StatementFails(q) \/ ListLinks(q) \/ (\E l \in Procs : SweepLink(q, l)) \/ SweepEnds(q)
             \/ PublishPort(q) \/ PublishPid(q)
      PROVE  pc'[p] = pc[p] /\ at' = at
  BY <1>1, <1>3 DEF Inv, TypeOK, Bind, BindFails, KillServers, RemoveDb, CheckTmux, NoTmux,
     StatementFails, ListLinks, SweepLink, SweepEnds, PublishPort, PublishPid, Publish, Step
<1>4. ASSUME NEW q \in Procs,
             \/ Attach(q) \/ Detach(q) \/ Shutdown(q) \/ MainReturns(q)
             \/ DropPid(q) \/ RemovePid(q) \/ DropPort(q) \/ RemovePort(q) \/ Crash(q)
      PROVE  pc'[p] = pc[p] /\ at' = at
  BY <1>1, <1>4 DEF Inv, TypeOK, Attach, Detach, Shutdown, MainReturns, DropPid, RemovePid,
     DropPort, RemovePort, DropReads, DropRemoves, Crash, Step, Starting, Stopping
<1>5. ASSUME NEW q \in Procs, OpenDb(q) \/ Statement(q) \/ SetVersion(q)
      PROVE  pc'[p] = pc[p] /\ at'[p] = at[p]
  BY <1>1, <1>5 DEF Inv, TypeOK, OpenDb, Statement, SetVersion, Migrating, Step
<1> QED
  BY <1>2, <1>3, <1>4, <1>5 DEF Next

LEMMA PlacesInBatches ==
    ASSUME TypeOK, NEW s \in applied
    PROVE  s = <<s[1], s[2]>> /\ s[1] \in 0..(CurrentVersion - 1) /\ s[2] \in Nat \ {0}
  BY StatementsOfBatch, VersionsAndBatches DEF TypeOK

\* Only the process that migrates stands where a statement fails.
LEMMA FailureIsTorn ==
    ASSUME Inv, HalfDone, NEW p \in Procs, StatementFails(p)
    PROVE  \E q \in Procs : Torn(q, at[p][1])
<1>1. at[p] \in applied /\ at[p][1] = version /\ at[p][2] \in Nat
  BY PlaceInBatch DEF StatementFails, Fails, Migrating, Inv, BatchUnderway
<1>2. version \in Nat
  BY VersionsAndBatches DEF Inv, TypeOK
<1>3. \A q \in Procs : pc[q] = "migrate" => q = p
  BY OneStarts DEF StatementFails, Migrating, Starting
<1>4. ~ \E q \in Procs : pc[q] = "migrate" /\ at[p][2] < at[q][2]
  BY <1>1, <1>3
<1> QED
  BY <1>1, <1>2, <1>4 DEF HalfDone

LEMMA HalfDoneStep ==
    ASSUME Inv, HalfDone, [Next]_vars
    PROVE  HalfDone'
<1> DEFINE At(q, s) == pc[q] = "migrate" /\ at[q][1] = s[1] /\ s[2] < at[q][2]
<1> SUFFICES ASSUME NEW s \in applied', s[1] >= version'
             PROVE  (\E q \in Procs : At(q, s)') \/ (\E q \in Procs : Torn(q, s[1])')
  BY DEF HalfDone
<1>0. ASSUME s \in applied, s[1] >= version, NEW q \in Procs, Torn(q, s[1])
      PROVE  \E r \in Procs : Torn(r, s[1])'
  BY <1>0, TornStays DEF Torn
<1>1. CASE UNCHANGED vars
  BY <1>1 DEF vars, HalfDone, Torn
<1>2. ASSUME NEW p \in Procs,
             \/ BindFails(p) \/ KillServers(p) \/ CheckTmux(p) \/ NoTmux(p)
             \/ (\E l \in Procs : SweepLink(p, l)) \/ SweepEnds(p) \/ Bind(p)
             \/ PublishPort(p) \/ PublishPid(p)
             \/ Attach(p) \/ Detach(p) \/ Shutdown(p) \/ MainReturns(p)
             \/ DropPid(p) \/ RemovePid(p) \/ DropPort(p) \/ RemovePort(p)
      PROVE  /\ UNCHANGED <<version, applied, at>>
             /\ \A q \in Procs : pc[q] = "migrate" => pc'[q] = "migrate"
  BY <1>2 DEF Inv, TypeOK, Bind, BindFails, KillServers, CheckTmux, NoTmux, SweepLink,
     SweepEnds, PublishPort, PublishPid, Publish, Attach, Detach, Shutdown, MainReturns,
     DropPid, RemovePid, DropPort, RemovePort, DropReads, DropRemoves, Step
<1>3. ASSUME UNCHANGED <<version, applied, at>>,
             \A q \in Procs : pc[q] = "migrate" => pc'[q] = "migrate"
      PROVE  (\E q \in Procs : At(q, s)') \/ (\E q \in Procs : Torn(q, s[1])')
  BY <1>0, <1>3 DEF HalfDone
<1>4. ASSUME NEW p \in Procs, RemoveDb(p) PROVE FALSE
  BY <1>4 DEF RemoveDb
<1>5. ASSUME NEW p \in Procs, OpenDb(p)
      PROVE  (\E q \in Procs : At(q, s)') \/ (\E q \in Procs : Torn(q, s[1])')
  <2>1. \A q \in Procs : At(q, s) => At(q, s)'
    BY <1>5 DEF OpenDb, Step, Inv, TypeOK
  <2> QED
    BY <1>0, <1>5, <2>1 DEF OpenDb, HalfDone
<1>6. ASSUME NEW p \in Procs, Statement(p)
      PROVE  (\E q \in Procs : At(q, s)') \/ (\E q \in Procs : Torn(q, s[1])')
  <2>1. /\ pc[p] = "migrate" /\ pc' = pc /\ version' = version
        /\ applied' = applied \cup {at[p]}
        /\ at' = [at EXCEPT ![p] = <<at[p][1], at[p][2] + 1>>]
    BY <1>6 DEF Statement, Migrating
  <2>2. at[p][2] \in Nat /\ at \in [Procs -> (0..CurrentVersion) \X (Nat \ {0})]
    BY PlaceInBatch DEF Inv, TypeOK
  <2>3. CASE s = at[p]
    BY <2>1, <2>2, <2>3
  <2>4. CASE s \in applied
    <3>1. s[2] \in Nat
      BY <2>4, PlacesInBatches DEF Inv
    <3>2. \A q \in Procs : At(q, s) => At(q, s)'
      BY <2>1, <2>2, <3>1
    <3> QED
      BY <1>0, <2>1, <2>4, <3>2 DEF HalfDone
  <2> QED
    BY <2>1, <2>3, <2>4
<1>7. ASSUME NEW p \in Procs, StatementFails(p)
      PROVE  (\E q \in Procs : At(q, s)') \/ (\E q \in Procs : Torn(q, s[1])')
  <2>1. s \in applied /\ s[1] >= version
    BY <1>7 DEF StatementFails
  <2>2. \A q \in Procs : At(q, s) => q = p
    BY <1>7, OneStarts DEF StatementFails, Migrating, Starting
  <2> QED
    BY <1>0, <1>7, <2>1, <2>2, FailureIsTorn DEF HalfDone
<1>8. ASSUME NEW p \in Procs, SetVersion(p)
      PROVE  (\E q \in Procs : At(q, s)') \/ (\E q \in Procs : Torn(q, s[1])')
  <2>1. /\ pc[p] = "migrate" /\ at[p][1] = version /\ version' = version + 1
        /\ version \in Nat /\ applied' = applied
    BY <1>8, PlaceInBatch, VersionsAndBatches DEF SetVersion, Migrating, Inv, BatchUnderway, TypeOK
  <2>2. s[1] \in Nat /\ s[1] > version
    BY <2>1, PlacesInBatches DEF Inv
  <2>3. \A q \in Procs : ~At(q, s)
    BY <2>1, <2>2 DEF Inv, BatchUnderway
  <2> QED
    BY <1>0, <2>1, <2>2, <2>3 DEF HalfDone
<1>9. ASSUME NEW p \in Procs, ListLinks(p)
      PROVE  (\E q \in Procs : At(q, s)') \/ (\E q \in Procs : Torn(q, s[1])')
  <2>1. UNCHANGED <<version, applied, at>> /\ pc' = [pc EXCEPT ![p] = "sweep"]
    BY <1>9 DEF ListLinks, Step
  <2>2. s[1] # at[p][1]
    BY <1>9, <2>1, PlacesInBatches, VersionsAndBatches DEF ListLinks, Inv
  <2>3. \A q \in Procs : At(q, s) => At(q, s)'
    BY <2>1, <2>2 DEF Inv, TypeOK
  <2> QED
    BY <1>0, <2>1, <2>3 DEF HalfDone
<1>10. ASSUME NEW p \in Procs, Crash(p)
       PROVE  (\E q \in Procs : At(q, s)') \/ (\E q \in Procs : Torn(q, s[1])')
  <2>1. UNCHANGED <<version, applied, at>> /\ pc' = [pc EXCEPT ![p] = "crashed"]
    BY <1>10 DEF Crash
  <2>2. s[2] \in Nat \ {0} /\ at[p][2] \in Nat
    BY <2>1, PlacesInBatches, PlaceInBatch DEF Inv
  <2>3. ASSUME At(p, s) PROVE Torn(p, s[1])'
    <3>1. pc'[p] = "crashed"
      BY <2>1 DEF Inv, TypeOK
    <3>2. at'[p][1] = s[1] /\ at'[p][2] > 1
      BY <2>1, <2>2, <2>3
    <3> QED
      BY <3>1, <3>2 DEF Torn
  <2>4. \A q \in Procs \ {p} : At(q, s) => At(q, s)'
    BY <2>1 DEF Inv, TypeOK
  <2> QED
    BY <1>0, <2>1, <2>3, <2>4 DEF HalfDone
<1> QED
  BY <1>1, <1>2, <1>3, <1>4, <1>5, <1>6, <1>7, <1>8, <1>9, <1>10 DEF Next

\* A process panics in StatementFails and nowhere else, and then stays where it is.
LEMMA PanicStep ==
    ASSUME Inv, TornInv, [Next]_vars
    PROVE  PanicMeansTorn'
<1> SUFFICES ASSUME NEW p \in Procs, pc'[p] = "panicked"
             PROVE  \E q \in Procs : Torn(q, at[p][1])'
  BY DEF PanicMeansTorn, Torn
<1>1. ASSUME NEW q \in Procs, Torn(q, at[p][1]), at'[p] = at[p]
      PROVE  \E r \in Procs : Torn(r, at[p][1])'
  BY <1>1, TornStays DEF TornInv, Torn
<1>2. (pc[p] = "panicked" \/ StatementFails(p)) /\ at'[p] = at[p]
  <2>1. CASE UNCHANGED vars
    BY <2>1 DEF vars
  <2>2. ASSUME NEW q \in Procs, OpenDb(q) \/ Statement(q) \/ SetVersion(q)
        PROVE  pc[p] = "panicked" /\ at'[p] = at[p]
    BY <2>2 DEF OpenDb, Statement, SetVersion, Migrating, Step, Inv, TypeOK
  <2>3. ASSUME NEW q \in Procs,
               \/ Bind(q) \/ BindFails(q) \/ KillServers(q) \/ RemoveDb(q) \/ CheckTmux(q) \/ NoTmux(q)
               \/ ListLinks(q) \/ (\E l \in Procs : SweepLink(q, l)) \/ SweepEnds(q)
               \/ PublishPort(q) \/ PublishPid(q)
        PROVE  pc[p] = "panicked" /\ at' = at
    BY <2>3 DEF Inv, TypeOK, Bind, BindFails, KillServers, RemoveDb, CheckTmux, NoTmux,
       ListLinks, SweepLink, SweepEnds, PublishPort, PublishPid, Publish, Step
  <2>4. ASSUME NEW q \in Procs,
               \/ Attach(q) \/ Detach(q) \/ Shutdown(q) \/ MainReturns(q)
               \/ DropPid(q) \/ RemovePid(q) \/ DropPort(q) \/ RemovePort(q) \/ Crash(q)
        PROVE  pc[p] = "panicked" /\ at' = at
    BY <2>4 DEF Inv, TypeOK, Attach, Detach, Shutdown, MainReturns, DropPid, RemovePid,
       DropPort, RemovePort, DropReads, DropRemoves, Crash, Step
  <2>5. ASSUME NEW q \in Procs, StatementFails(q)
        PROVE  (pc[p] = "panicked" \/ q = p) /\ at' = at
    BY <2>5 DEF StatementFails, Step, Inv, TypeOK
  <2> QED
    BY <2>1, <2>2, <2>3, <2>4, <2>5 DEF Next
<1>3. CASE pc[p] = "panicked"
  BY <1>1, <1>2, <1>3 DEF TornInv, PanicMeansTorn
<1>4. CASE StatementFails(p)
  BY <1>1, <1>2, <1>4, FailureIsTorn DEF TornInv
<1> QED
  BY <1>2, <1>3, <1>4

\* A start that cannot migrate the database finds it torn by a crash inside the very
\* batch it panics in: no sequence of clean starts, stops and resets leads there.
THEOREM PanicsOnlyOnTorn == Spec => []PanicMeansTorn
<1>1. Init => TornInv
  BY DEF Init, TornInv, HalfDone, PanicMeansTorn
<1>2. Inv /\ TornInv /\ [Next]_vars => TornInv'
  BY HalfDoneStep, PanicStep DEF TornInv
<1>3. TornInv => PanicMeansTorn
  BY DEF TornInv
<1> QED
  BY <1>1, <1>2, <1>3, Invariance, PTL DEF Spec

-----------------------------------------------------------------------------
(***************************************************************************)
(* Runtime files.                                                          *)
(***************************************************************************)

\* Where a process that wrote a file has still to drop it.
Holding(k) ==
    {"serving", "stopping", "dropPid", "removePid", "crashed"} \cup
    IF k = "port" THEN {"publishPid", "dropPort", "removePort"} ELSE {}

\* A file is there only while its writer is to drop it, or crashed.
FilesOwned ==
    \A k \in Files, p \in Procs : file[k] = p => k \in published[p] /\ pc[p] \in Holding(k)

LEMMA FilesStep ==
    ASSUME TypeOK, FilesOwned, [Next]_vars
    PROVE  FilesOwned'
<1> USE DEF FilesOwned, Holding, Files, TypeOK
<1>1. CASE UNCHANGED vars
  BY <1>1 DEF vars
<1>2. ASSUME NEW q \in Procs,
             \/ Bind(q) \/ BindFails(q) \/ KillServers(q) \/ RemoveDb(q) \/ CheckTmux(q) \/ NoTmux(q)
             \/ OpenDb(q) \/ Statement(q) \/ StatementFails(q) \/ SetVersion(q)
             \/ ListLinks(q) \/ (\E l \in Procs : SweepLink(q, l)) \/ SweepEnds(q)
             \/ Attach(q) \/ Detach(q)
      PROVE  /\ UNCHANGED <<file, published>>
             /\ \A p \in Procs : pc[p] \in Holding("port") \cup Holding("pid") => pc'[p] = pc[p]
  BY <1>2 DEF Bind, BindFails, KillServers, RemoveDb, CheckTmux, NoTmux, OpenDb, Statement,
     StatementFails, SetVersion, Migrating, ListLinks, SweepLink, SweepEnds, Attach, Detach, Step
<1>3. ASSUME NEW q \in Procs, Shutdown(q) \/ MainReturns(q) PROVE FilesOwned'
  BY <1>3 DEF Shutdown, MainReturns, Step
<1>4. ASSUME NEW q \in Procs, Crash(q) PROVE FilesOwned'
  BY <1>4 DEF Crash
<1>5. ASSUME NEW q \in Procs, PublishPort(q) PROVE FilesOwned'
  BY <1>5, StartupAssumption DEF PublishPort, Publish, Step
<1>6. ASSUME NEW q \in Procs, PublishPid(q) PROVE FilesOwned'
  BY <1>6, StartupAssumption DEF PublishPid, Publish, Step
<1>7. ASSUME NEW q \in Procs, DropPid(q) \/ DropPort(q) PROVE FilesOwned'
  BY <1>7, StartupAssumption DEF DropPid, DropPort, DropReads, SameContents, Contents, Step
<1>8. ASSUME NEW q \in Procs, RemovePid(q) \/ RemovePort(q) PROVE FilesOwned'
  BY <1>8, StartupAssumption DEF RemovePid, RemovePort, DropRemoves, Step
<1> QED
  BY <1>1, <1>2, <1>3, <1>4, <1>5, <1>6, <1>7, <1>8 DEF Next

\* Clean shutdowns leave no runtime file, though the port file is compared by
\* contents that every process shares: the one that finds its own file removes it.
THEOREM NothingLeft == Spec => []CleanExitLeavesNothing
<1>1. Init => FilesOwned
  BY StartupAssumption DEF Init, FilesOwned
<1>2. TypeOK /\ FilesOwned /\ [Next]_vars => FilesOwned'
  BY FilesStep
<1>3. TypeOK /\ FilesOwned => CleanExitLeavesNothing
  BY DEF TypeOK, FilesOwned, CleanExitLeavesNothing, Holding
<1> QED
  BY <1>1, <1>2, <1>3, TypeCorrect, PTL DEF Spec
=============================================================================
