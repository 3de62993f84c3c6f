------------------------------ MODULE LogMirror -----------------------------
(***************************************************************************)
(* tlog! and the thread behind it (src/main.rs): a line is handed to the   *)
(* bounded queue of the mirror to stderr, then written to the log file.    *)
(* The console may stall for as long as it likes: nothing makes it take    *)
(* the line that the thread is writing.                                    *)
(***************************************************************************)
EXTENDS Integers, Sequences, SequencesExt

CONSTANTS
  Loggers,         \* the tasks that log
  STDERR_LOG_CAP   \* lines in the queue

ASSUME LogAssumption == STDERR_LOG_CAP \in Nat \ {0}

VARIABLES
  logging,   \* where each task is in tlog!: out, mirror, file
  line,      \* its line: <<task, number>>
  queue,     \* lines to be mirrored
  writing,   \* those the thread has taken: at most one
  stderr,    \* history: lines on the console
  file,      \* lines in the log file
  dropped    \* history: lines the mirror did not take

logVars == <<logging, line, queue, writing, stderr, file, dropped>>

Idle(t) == logging[t] = "out"

\* A task comes to a tlog!.
Log(t) ==
  /\ Idle(t)
  /\ logging' = [logging EXCEPT ![t] = "mirror"]
  /\ line' = [line EXCEPT ![t][2] = @ + 1]
  /\ UNCHANGED <<queue, writing, stderr, file, dropped>>

\* Mutant: send in place of try_send waits for room.
MayEmit_blocking == Len(queue) < STDERR_LOG_CAP

MayEmit == TRUE

\* AsyncLineWriter::emit: try_send.
Emit(t) ==
  /\ logging[t] = "mirror"
  /\ MayEmit
  /\ IF Len(queue) < STDERR_LOG_CAP
     THEN queue' = Append(queue, line[t]) /\ UNCHANGED dropped
     ELSE dropped' = dropped \cup {line[t]} /\ UNCHANGED queue
  /\ logging' = [logging EXCEPT ![t] = "file"]
  /\ UNCHANGED <<line, writing, stderr, file>>

\* Mutant: a line the mirror dropped is not written either.
Durable_mirrored(l) == l \notin dropped

Durable(l) == TRUE

WriteFile(t) ==
  /\ logging[t] = "file"
  /\ file' = IF Durable(line[t]) THEN Append(file, line[t]) ELSE file
  /\ logging' = [logging EXCEPT ![t] = "out"]
  /\ UNCHANGED <<line, queue, writing, stderr, dropped>>

\* The thread log-stderr.
Take ==
  /\ writing = <<>>
  /\ queue # <<>>
  /\ writing' = <<Head(queue)>>
  /\ queue' = Tail(queue)
  /\ UNCHANGED <<logging, line, stderr, file, dropped>>

\* The console takes it.
WriteStderr ==
  /\ writing # <<>>
  /\ stderr' = stderr \o writing
  /\ writing' = <<>>
  /\ UNCHANGED <<logging, line, queue, file, dropped>>

LogInit ==
  /\ logging = [t \in Loggers |-> "out"]
  /\ line = [t \in Loggers |-> <<t, 0>>]
  /\ queue = <<>>
  /\ writing = <<>>
  /\ stderr = <<>>
  /\ file = <<>>
  /\ dropped = {}

Tlog(t) == Emit(t) \/ WriteFile(t)

LogThread == Take \/ WriteStderr

-----------------------------------------------------------------------------
(* Properties *)

LogTypeOK ==
  /\ logging \in [Loggers -> {"out", "mirror", "file"}]
  /\ line \in [Loggers -> Loggers \X Nat]
  /\ \A t \in Loggers : line[t][1] = t /\ (~Idle(t) => line[t][2] > 0)
  /\ {queue, writing, stderr, file} \subseteq Seq(Loggers \X Nat)
  /\ Len(queue) <= STDERR_LOG_CAP
  /\ Len(writing) <= 1

\* The lines a task is done with, and those it has handed to the mirror.
Finished(t) == {t} \X (1..(IF Idle(t) THEN line[t][2] ELSE line[t][2] - 1))
Emitted(t) == {t} \X (1..(IF logging[t] = "mirror" THEN line[t][2] - 1 ELSE line[t][2]))

\* The lines of each task are in its order, and none is there twice.
Rising(s) == \A i, j \in DOMAIN s : i < j /\ s[i][1] = s[j][1] => s[i][2] < s[j][2]

Mirrored == stderr \o writing \o queue

\* Whatever the console does: the file has every line of every task, in the
\* task's order ("the durable file log is unaffected"); the console gets a
\* task's lines in that order, each at most once, and all that were not dropped.
LogComplete ==
  /\ Range(file) = UNION {Finished(t) : t \in Loggers}
  /\ Rising(file)
  /\ Range(Mirrored) \cup dropped = UNION {Emitted(t) : t \in Loggers}
  /\ Range(Mirrored) \cap dropped = {}
  /\ Rising(Mirrored)
=============================================================================
