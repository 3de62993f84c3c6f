-------------------------- MODULE UpdateFeed_proofs --------------------------
(***************************************************************************)
(* The rows behind the list, for any number of browsers and rows, whatever *)
(* old lists the browsers send ids from: tables stay tables, no workspace  *)
(* is in a category that is gone, and what was dragged into an order is    *)
(* listed in it.  The log is complete whatever the console does, for any   *)
(* number of tasks and any size of the queue.                              *)
(***************************************************************************)
EXTENDS UpdateFeed, SequenceTheorems, FiniteSetTheorems, TLAPS

-----------------------------------------------------------------------------
(* The log *)

Lines == Loggers \X Nat

LogStep == LogThread \/ \E t \in Loggers : Log(t) \/ Tlog(t)

-----------------------------------------------------------------------------

\* A line that is newer than its task's lines so far goes to the end.
LEMMA AppendRises ==
    ASSUME NEW s \in Seq(Lines), Rising(s), NEW l \in Lines,
           \A m \in Range(s) : m[1] = l[1] => m[2] < l[2]
    PROVE  /\ Append(s, l) \in Seq(Lines)
           /\ Range(Append(s, l)) = Range(s) \cup {l}
           /\ Rising(Append(s, l))
<1> DEFINE a == Append(s, l)
<1>1. /\ a \in Seq(Lines)
      /\ Len(s) \in Nat
      /\ DOMAIN s = 1..Len(s) /\ DOMAIN a = 1..(Len(s) + 1)
      /\ \A i \in 1..Len(s) : a[i] = s[i]
      /\ a[Len(s) + 1] = l
  BY AppendProperties, LenProperties
<1> HIDE DEF a
<1>2. Range(a) = Range(s) \cup {l}
  <2>1. \A i \in 1..(Len(s) + 1) : i \in 1..Len(s) \/ i = Len(s) + 1
    BY <1>1
  <2> QED
    BY <1>1, <2>1 DEF Range
<1>3. Rising(a)
  <2> SUFFICES ASSUME NEW i \in DOMAIN a, NEW j \in DOMAIN a, i < j, a[i][1] = a[j][1]
               PROVE  a[i][2] < a[j][2]
    BY DEF Rising
  <2>1. i \in DOMAIN s /\ a[i] = s[i]
    BY <1>1
  <2>2. CASE j \in DOMAIN s
    BY <1>1, <2>1, <2>2 DEF Rising
  <2>3. CASE j = Len(s) + 1
    BY <1>1, <2>1, <2>3 DEF Range
  <2> QED
    BY <1>1, <2>2, <2>3
<1> QED
  BY <1>1, <1>2, <1>3 DEF a

LEMMA MirroredType ==
    ASSUME LogTypeOK
    PROVE  Mirrored \in Seq(Lines)
  BY ConcatProperties DEF LogTypeOK, Mirrored, Lines

\* A line enters what is mirrored when it enters the queue, and stays there.
LEMMA Enqueued ==
    ASSUME LogTypeOK, NEW l \in Lines
    PROVE  stderr \o writing \o Append(queue, l) = Append(Mirrored, l)
<1> DEFINE s == stderr \o writing
<1>1. s \in Seq(Lines) /\ queue \in Seq(Lines) /\ <<l>> \in Seq(Lines)
  BY ConcatProperties DEF LogTypeOK, Lines
<1> HIDE DEF s
<1>2. s \o Append(queue, l) = s \o (queue \o <<l>>)
  BY <1>1, AppendIsConcat
<1>3. s \o (queue \o <<l>>) = (s \o queue) \o <<l>>
  BY <1>1, ConcatAssociative
<1>4. (s \o queue) \o <<l>> = Append(s \o queue, l)
  BY <1>1, ConcatProperties, AppendIsConcat
<1> QED
  BY <1>2, <1>3, <1>4 DEF s, Mirrored

LEMMA HeadThenTail ==
    ASSUME NEW q \in Seq(Lines), q # <<>>
    PROVE  <<Head(q)>> \o Tail(q) = q
<1>1. 1 \in 1..Len(q) /\ Len(q) \in 1..Len(q)
  BY EmptySeq, LenProperties
<1>2. SubSeq(q, 1, Len(q)) = <<q[1]>> \o SubSeq(q, 2, Len(q))
  BY <1>1, SubSeqRecursiveFirst
<1>3. SubSeq(q, 1, Len(q)) = q
  BY SubSeqFull
<1>4. Tail(q) = SubSeq(q, 2, Len(q))
  BY TailIsSubSeq
<1> QED
  BY <1>2, <1>3, <1>4

\* The thread moves lines on and loses none.
LEMMA ThreadKeeps ==
    ASSUME LogTypeOK, LogThread
    PROVE  LogTypeOK' /\ Mirrored' = Mirrored
<1> USE DEF Lines
<1>1. {queue, writing, stderr} \subseteq Seq(Lines)
  BY DEF LogTypeOK
<1>2. CASE Take
  <2>1. /\ queue # <<>> /\ writing = <<>>
        /\ writing' = <<Head(queue)>> /\ queue' = Tail(queue)
        /\ UNCHANGED <<logging, line, stderr, file, dropped>>
    BY <1>2 DEF Take
  <2>2. Head(queue) \in Lines /\ queue' \in Seq(Lines) /\ Len(queue') = Len(queue) - 1
    BY <1>1, <2>1, HeadTailProperties
  <2>3. writing' \in Seq(Lines) /\ Len(writing') = 1
    BY <2>1, <2>2
  <2>4. Len(queue) \in Nat
    BY <1>1, LenProperties
  <2>5. LogTypeOK'
    <3>1. {queue, writing, stderr, file}' \subseteq Seq(Lines)
      BY <1>1, <2>1, <2>2, <2>3 DEF LogTypeOK
    <3>2. Len(queue') <= STDERR_LOG_CAP /\ Len(writing') <= 1
      <4>1. Len(queue) <= STDERR_LOG_CAP
        BY DEF LogTypeOK
      <4> QED
        BY <2>2, <2>3, <2>4, <4>1, LogAssumption
    <3>3. /\ logging' \in [Loggers -> {"out", "mirror", "file"}]
          /\ line' \in [Loggers -> Loggers \X Nat]
          /\ \A t \in Loggers : line'[t][1] = t /\ (~Idle(t)' => line'[t][2] > 0)
      BY <2>1 DEF LogTypeOK, Idle
    <3> QED
      BY <3>1, <3>2, <3>3 DEF LogTypeOK
  <2>6. writing' \o queue' = queue
    BY <1>1, <2>1, HeadThenTail
  <2>7. Mirrored' = stderr \o (writing' \o queue')
    <3>1. stderr \in Seq(Lines) /\ writing' \in Seq(Lines) /\ queue' \in Seq(Lines)
      BY <1>1, <2>2, <2>3
    <3> HIDE DEF Lines
    <3>2. stderr \o (writing' \o queue') = (stderr \o writing') \o queue'
      BY <3>1, ConcatAssociative
    <3> QED
      BY <2>1, <3>2 DEF Mirrored
  <2>8. Mirrored = stderr \o queue
    BY <1>1, <2>1, ConcatEmptySeq DEF Mirrored
  <2> QED
    BY <2>5, <2>6, <2>7, <2>8
<1>3. CASE WriteStderr
  <2>1. /\ stderr' = stderr \o writing /\ writing' = <<>>
        /\ UNCHANGED <<logging, line, queue, file, dropped>>
    BY <1>3 DEF WriteStderr
  <2>2. stderr' \in Seq(Lines)
    BY <1>1, <2>1, ConcatProperties
  <2>3. writing' \in Seq(Lines) /\ Len(writing') = 0
    BY <2>1
  <2>4. LogTypeOK'
    BY <2>1, <2>2, <2>3 DEF LogTypeOK, Idle
  <2>5. stderr' \o <<>> = stderr'
    BY <2>2, ConcatEmptySeq
  <2>6. Mirrored' = stderr' \o queue
    BY <2>1, <2>5 DEF Mirrored
  <2> QED
    BY <2>1, <2>4, <2>6 DEF Mirrored
<1> QED
  BY <1>2, <1>3 DEF LogThread

-----------------------------------------------------------------------------
(* The invariant: which lines there are, one by one *)

\* The highest number of the lines a task is done with, and of those it has
\* handed to the mirror.
Done(t) == IF Idle(t) THEN line[t][2] ELSE line[t][2] - 1
Given(t) == IF logging[t] = "mirror" THEN line[t][2] - 1 ELSE line[t][2]

InFile == \A l \in Lines : l \in Range(file) <=> l[2] \in 1..Done(l[1])

InMirror ==
  /\ dropped \subseteq Lines
  /\ \A l \in Lines : (l \in Range(Mirrored) \/ l \in dropped) <=> l[2] \in 1..Given(l[1])
  /\ \A l \in Lines : ~(l \in Range(Mirrored) /\ l \in dropped)

LogInv == LogTypeOK /\ InFile /\ Rising(file) /\ InMirror /\ Rising(Mirrored)

LEMMA RangeInLines ==
    ASSUME NEW s \in Seq(Lines)
    PROVE  Range(s) \subseteq Lines
  BY ElementOfSeq, LenProperties DEF Range

LEMMA LogInvComplete ==
    ASSUME LogInv
    PROVE  LogComplete
<1>1. /\ file \in Seq(Lines) /\ Mirrored \in Seq(Lines)
      /\ \A t \in Loggers : line[t][2] \in Nat
  BY MirroredType DEF LogInv, LogTypeOK, Lines
<1>2. Range(file) \subseteq Lines /\ Range(Mirrored) \subseteq Lines /\ dropped \subseteq Lines
  BY <1>1, RangeInLines DEF LogInv, InMirror
<1>3. \A t \in Loggers : Finished(t) = {t} \X (1..Done(t)) /\ Emitted(t) = {t} \X (1..Given(t))
  BY DEF Finished, Emitted, Done, Given
<1>4. \A t \in Loggers : 1..Done(t) \subseteq Nat /\ 1..Given(t) \subseteq Nat
  BY <1>1 DEF Done, Given
<1>5. \A l \in Lines : /\ l \in UNION {Finished(t) : t \in Loggers} <=> l[2] \in 1..Done(l[1])
                       /\ l \in UNION {Emitted(t) : t \in Loggers} <=> l[2] \in 1..Given(l[1])
  BY <1>3 DEF Lines
<1>6. /\ UNION {Finished(t) : t \in Loggers} \subseteq Lines
      /\ UNION {Emitted(t) : t \in Loggers} \subseteq Lines
  BY <1>3, <1>4 DEF Lines
<1>7. Range(file) = UNION {Finished(t) : t \in Loggers}
  BY <1>2, <1>5, <1>6 DEF LogInv, InFile
<1>8. Range(Mirrored) \cup dropped = UNION {Emitted(t) : t \in Loggers}
  BY <1>2, <1>5, <1>6 DEF LogInv, InMirror
<1>9. Range(Mirrored) \cap dropped = {}
  BY <1>2 DEF LogInv, InMirror
<1> QED
  BY <1>7, <1>8, <1>9 DEF LogInv, LogComplete

-----------------------------------------------------------------------------
(* The steps *)

LEMMA LogKeeps ==
    ASSUME LogInv, NEW t \in Loggers, Log(t)
    PROVE  LogInv'
<1>1. /\ Idle(t) /\ logging' = [logging EXCEPT ![t] = "mirror"]
      /\ line' = [line EXCEPT ![t][2] = @ + 1]
      /\ UNCHANGED <<queue, writing, stderr, file, dropped>>
  BY DEF Log
<1>2. line[t] \in Loggers \X Nat /\ logging \in [Loggers -> {"out", "mirror", "file"}]
      /\ line \in [Loggers -> Loggers \X Nat] /\ line[t][1] = t
  BY DEF LogInv, LogTypeOK
<1>3. /\ line'[t] \in Loggers \X Nat /\ line'[t][1] = t /\ line'[t][2] = line[t][2] + 1
      /\ \A u \in Loggers \ {t} : line'[u] = line[u] /\ logging'[u] = logging[u]
      /\ logging'[t] = "mirror" /\ logging[t] = "out"
      /\ line' \in [Loggers -> Loggers \X Nat]
  BY <1>1, <1>2 DEF Idle
<1>4. logging' \in [Loggers -> {"out", "mirror", "file"}]
  BY <1>1, <1>2
<1>5. LogTypeOK'
  BY <1>1, <1>2, <1>3, <1>4 DEF LogInv, LogTypeOK, Idle
<1>6. \A u \in Loggers : Done(u)' = Done(u) /\ Given(u)' = Given(u)
  BY <1>2, <1>3 DEF Done, Given, Idle
<1>7. Mirrored' = Mirrored
  BY <1>1 DEF Mirrored
<1>8. \A l \in Lines : Done(l[1])' = Done(l[1]) /\ Given(l[1])' = Given(l[1])
  BY <1>6 DEF Lines
<1>9. InFile' /\ InMirror'
  BY <1>1, <1>7, <1>8 DEF LogInv, InFile, InMirror
<1> QED
  BY <1>1, <1>5, <1>7, <1>9 DEF LogInv, Rising

\* The line of a task that is in tlog! is its newest.
LEMMA Newest ==
    ASSUME LogTypeOK, NEW t \in Loggers, ~Idle(t)
    PROVE  /\ line[t] \in Lines /\ line[t][1] = t /\ line[t][2] \in Nat \ {0}
           /\ \A l \in Lines : l[1] = t /\ l[2] = line[t][2] => l = line[t]
<1>1. line[t] \in Loggers \X Nat /\ line[t][1] = t /\ line[t][2] > 0
  BY DEF LogTypeOK
<1>2. \A l, m \in Loggers \X Nat : l[1] = m[1] /\ l[2] = m[2] => l = m
  OBVIOUS
<1> QED
  BY <1>1, <1>2 DEF Lines

LEMMA EmitKeeps ==
    ASSUME LogInv, NEW t \in Loggers, Emit(t)
    PROVE  LogInv'
<1> DEFINE new == line[t]
<1>1. /\ logging[t] = "mirror" /\ logging' = [logging EXCEPT ![t] = "file"]
      /\ UNCHANGED <<line, writing, stderr, file>>
      /\ \/ Len(queue) < STDERR_LOG_CAP /\ queue' = Append(queue, new) /\ dropped' = dropped
         \/ queue' = queue /\ dropped' = dropped \cup {new}
  BY DEF Emit
<1>2. /\ new \in Lines /\ new[1] = t /\ new[2] \in Nat \ {0}
      /\ \A l \in Lines : l[1] = t /\ l[2] = new[2] => l = new
      /\ LogTypeOK
  BY <1>1, Newest DEF Idle, LogInv
<1>3. /\ logging \in [Loggers -> {"out", "mirror", "file"}]
      /\ logging' \in [Loggers -> {"out", "mirror", "file"}]
      /\ logging'[t] = "file"
      /\ \A u \in Loggers \ {t} : logging'[u] = logging[u]
  BY <1>1, <1>2 DEF LogTypeOK
<1>4. /\ \A u \in Loggers : Done(u)' = Done(u)
      /\ \A u \in Loggers \ {t} : Given(u)' = Given(u)
      /\ Given(t) = new[2] - 1 /\ Given(t)' = new[2]
  BY <1>1, <1>3 DEF Done, Given, Idle
<1> HIDE DEF new
<1>5. \A l \in Lines : /\ Done(l[1])' = Done(l[1])
                       /\ l[2] \in 1..Given(l[1])' <=> l[2] \in 1..Given(l[1]) \/ l = new
  <2> SUFFICES ASSUME NEW l \in Lines
               PROVE  /\ Done(l[1])' = Done(l[1])
                      /\ l[2] \in 1..Given(l[1])' <=> l[2] \in 1..Given(l[1]) \/ l = new
    OBVIOUS
  <2>1. l[1] \in Loggers /\ l[2] \in Nat
    BY DEF Lines
  <2>2. CASE l[1] = t
    BY <1>2, <1>4, <2>1, <2>2
  <2>3. CASE l[1] # t
    BY <1>2, <1>4, <2>1, <2>3
  <2> QED
    BY <2>2, <2>3
<1>6. /\ new \notin Range(Mirrored) /\ new \notin dropped
      /\ \A m \in Range(Mirrored) : m[1] = new[1] => m[2] < new[2]
  <2>1. Range(Mirrored) \subseteq Lines
    BY <1>2, MirroredType, RangeInLines
  <2>2. \A m \in Range(Mirrored) : m[2] \in 1..Given(m[1])
    BY <2>1 DEF LogInv, InMirror
  <2>3. ~(new[2] \in 1..Given(new[1]))
    BY <1>2, <1>4
  <2>4. \A m \in Range(Mirrored) : m[1] = new[1] => m[2] < new[2]
    BY <1>2, <1>4, <2>2
  <2> QED
    BY <1>2, <2>3, <2>4 DEF LogInv, InMirror
<1>7. InFile' /\ Rising(file)'
  <2>1. file' = file /\ InFile /\ Rising(file)
    BY <1>1 DEF LogInv
  <2>2. InFile'
    BY <1>5, <2>1 DEF InFile
  <2> QED
    BY <2>1, <2>2 DEF Rising
<1>8. CASE Len(queue) < STDERR_LOG_CAP /\ queue' = Append(queue, new) /\ dropped' = dropped
  <2>1. queue \in Seq(Lines) /\ Len(queue) \in Nat
    BY <1>2, LenProperties DEF LogTypeOK, Lines
  <2>2. queue' \in Seq(Lines) /\ Len(queue') = Len(queue) + 1
    BY <1>2, <1>8, <2>1, AppendProperties
  <2>3. LogTypeOK'
    BY <1>1, <1>2, <1>3, <1>8, <2>1, <2>2, LogAssumption DEF LogTypeOK, Idle, Lines
  <2>4. Mirrored' = Append(Mirrored, new)
    BY <1>1, <1>2, <1>8, Enqueued DEF Mirrored
  <2>5. /\ Range(Append(Mirrored, new)) = Range(Mirrored) \cup {new}
        /\ Rising(Append(Mirrored, new))
    BY <1>2, <1>6, MirroredType, AppendRises DEF LogInv
  <2>6. Rising(Mirrored)'
    BY <2>4, <2>5 DEF Rising
  <2>7. Range(Mirrored)' = Range(Mirrored) \cup {new}
    BY <2>4, <2>5
  <2>8. InMirror'
    BY <1>5, <1>6, <1>8, <2>7 DEF LogInv, InMirror
  <2> QED
    BY <1>7, <2>3, <2>6, <2>8 DEF LogInv
<1>9. CASE queue' = queue /\ dropped' = dropped \cup {new}
  <2>1. Mirrored' = Mirrored
    BY <1>1, <1>9 DEF Mirrored
  <2>2. LogTypeOK'
    BY <1>1, <1>2, <1>3, <1>9 DEF LogTypeOK, Idle
  <2>3. InMirror'
    BY <1>2, <1>5, <1>6, <1>9, <2>1 DEF LogInv, InMirror
  <2>4. Rising(Mirrored)'
    BY <2>1 DEF LogInv, Rising
  <2> QED
    BY <1>7, <2>2, <2>3, <2>4 DEF LogInv
<1> QED
  BY <1>1, <1>8, <1>9 DEF new

LEMMA WriteKeeps ==
    ASSUME LogInv, NEW t \in Loggers, WriteFile(t)
    PROVE  LogInv'
<1> DEFINE new == line[t]
<1>1. /\ logging[t] = "file" /\ logging' = [logging EXCEPT ![t] = "out"]
      /\ file' = Append(file, new)
      /\ UNCHANGED <<line, queue, writing, stderr, dropped>>
  BY DEF WriteFile, Durable
<1>2. /\ new \in Lines /\ new[1] = t /\ new[2] \in Nat \ {0}
      /\ \A l \in Lines : l[1] = t /\ l[2] = new[2] => l = new
      /\ LogTypeOK
  BY <1>1, Newest DEF Idle, LogInv
<1>3. /\ logging \in [Loggers -> {"out", "mirror", "file"}]
      /\ logging' \in [Loggers -> {"out", "mirror", "file"}]
      /\ logging'[t] = "out"
      /\ \A u \in Loggers \ {t} : logging'[u] = logging[u]
  BY <1>1, <1>2 DEF LogTypeOK
<1>4. /\ \A u \in Loggers : Given(u)' = Given(u)
      /\ \A u \in Loggers \ {t} : Done(u)' = Done(u)
      /\ Done(t) = new[2] - 1 /\ Done(t)' = new[2]
  BY <1>1, <1>3 DEF Done, Given, Idle
<1> HIDE DEF new
<1>5. \A l \in Lines : /\ Given(l[1])' = Given(l[1])
                       /\ l[2] \in 1..Done(l[1])' <=> l[2] \in 1..Done(l[1]) \/ l = new
  <2> SUFFICES ASSUME NEW l \in Lines
               PROVE  /\ Given(l[1])' = Given(l[1])
                      /\ l[2] \in 1..Done(l[1])' <=> l[2] \in 1..Done(l[1]) \/ l = new
    OBVIOUS
  <2>1. l[1] \in Loggers /\ l[2] \in Nat
    BY DEF Lines
  <2>2. CASE l[1] = t
    BY <1>2, <1>4, <2>1, <2>2
  <2>3. CASE l[1] # t
    BY <1>2, <1>4, <2>1, <2>3
  <2> QED
    BY <2>2, <2>3
<1>6. file \in Seq(Lines)
  BY <1>2 DEF LogTypeOK, Lines
<1>7. \A m \in Range(file) : m[1] = new[1] => m[2] < new[2]
  <2>1. \A m \in Range(file) : m[2] \in 1..Done(m[1])
    BY <1>6, RangeInLines DEF LogInv, InFile
  <2> QED
    BY <1>2, <1>4, <2>1
<1>8. /\ Append(file, new) \in Seq(Lines)
      /\ Range(Append(file, new)) = Range(file) \cup {new}
      /\ Rising(Append(file, new))
  BY <1>2, <1>6, <1>7, AppendRises DEF LogInv
<1>9. Rising(file)'
  BY <1>1, <1>8 DEF Rising
<1>10. InFile'
  BY <1>1, <1>2, <1>5, <1>8 DEF LogInv, InFile
<1>11. LogTypeOK'
  BY <1>1, <1>2, <1>3, <1>8 DEF LogTypeOK, Idle, Lines
<1>12. Mirrored' = Mirrored
  BY <1>1 DEF Mirrored
<1>13. InMirror' /\ Rising(Mirrored)'
  BY <1>1, <1>5, <1>12 DEF LogInv, InMirror, Rising
<1> QED
  BY <1>9, <1>10, <1>11, <1>13 DEF LogInv

LEMMA LogInvKept ==
    ASSUME LogInv, LogStep \/ UNCHANGED logVars
    PROVE  LogInv'
<1>1. ASSUME Mirrored' = Mirrored, LogTypeOK', UNCHANGED <<logging, line, file, dropped>>
      PROVE  LogInv'
  <2>1. \A u \in Loggers : Done(u)' = Done(u) /\ Given(u)' = Given(u)
    BY <1>1 DEF Done, Given, Idle
  <2>2. \A l \in Lines : Done(l[1])' = Done(l[1]) /\ Given(l[1])' = Given(l[1])
    BY <2>1 DEF Lines
  <2>3. InFile' /\ InMirror' /\ Rising(file)' /\ Rising(Mirrored)'
    BY <1>1, <2>2 DEF LogInv, InFile, InMirror, Rising
  <2> QED
    BY <1>1, <2>3 DEF LogInv
<1>2. CASE UNCHANGED logVars
  <2>1. LogTypeOK'
    BY <1>2 DEF logVars, LogInv, LogTypeOK, Idle
  <2>2. Mirrored' = Mirrored
    BY <1>2 DEF logVars, Mirrored
  <2> QED
    BY <1>1, <1>2, <2>1, <2>2 DEF logVars
<1>3. CASE LogThread
  <2>1. /\ LogTypeOK' /\ Mirrored' = Mirrored
        /\ UNCHANGED <<logging, line, file, dropped>>
    BY <1>3, ThreadKeeps DEF LogThread, Take, WriteStderr, LogInv
  <2> QED
    BY <1>1, <2>1
<1>4. ASSUME NEW t \in Loggers, Log(t) \/ Tlog(t) PROVE LogInv'
  BY <1>4, LogKeeps, EmitKeeps, WriteKeeps DEF Tlog
<1> QED
  BY <1>2, <1>3, <1>4 DEF LogStep

LEMMA LogInvStarts ==
    ASSUME LogInit
    PROVE  LogInv
<1> USE DEF LogInit, Lines
<1>1. LogTypeOK
  BY LogAssumption DEF LogTypeOK, Idle
<1>2. Mirrored = <<>>
  BY ConcatEmptySeq DEF Mirrored
<1>3. \A t \in Loggers : Done(t) = 0 /\ Given(t) = 0
  BY DEF Done, Given, Idle
<1>4. Range(<<>>) = {}
  BY DEF Range
<1>5. \A l \in Lines : Done(l[1]) = 0 /\ Given(l[1]) = 0
  BY <1>3
<1>6. InFile /\ InMirror
  BY <1>2, <1>4, <1>5 DEF InFile, InMirror
<1> QED
  BY <1>1, <1>2, <1>6 DEF LogInv, Rising

-----------------------------------------------------------------------------
(* Rows *)

Fields == {"id", "order", "group", "name", "project"}

LEMMA NewRow ==
    ASSUME NEW id, NEW order, NEW group, NEW name
    PROVE  /\ DOMAIN Row(id, order, group, name) = Fields
           /\ Row(id, order, group, name).group = group
           /\ Row(id, order, group, name).id = id
  BY DEF Row, Fields

LEMMA InsertedTables ==
    ASSUME NEW d, DOMAIN d = Tables \cup {"last"}, NEW table \in Tables, NEW row
    PROVE  /\ DOMAIN Inserted(d, table, row) = Tables \cup {"last"}
           /\ Inserted(d, table, row)[table] = d[table] \cup {row}
           /\ \A other \in Tables \ {table} : Inserted(d, table, row)[other] = d[other]
  BY DEF Tables, Inserted

LEMMA InsertKeeps ==
    ASSUME NEW d, RowsOf(d), NEW id, NEW order, NEW name
    PROVE  /\ RowsOf(Inserted(d, "categories", Row(id, order, NoGroup, name)))
           /\ RowsOf(Inserted(d, "workspaces", Row(id, order, NoGroup, name)))
  <1> DEFINE row == Row(id, order, NoGroup, name)
             c == Inserted(d, "categories", row)
             w == Inserted(d, "workspaces", row)
  <1>1. /\ DOMAIN c = Tables \cup {"last"}
        /\ c.categories = d.categories \cup {row}
        /\ c.workspaces = d.workspaces
    BY InsertedTables DEF RowsOf, Tables
  <1>2. /\ DOMAIN w = Tables \cup {"last"}
        /\ w.workspaces = d.workspaces \cup {row}
        /\ w.categories = d.categories
    BY InsertedTables DEF RowsOf, Tables
  <1>3. DOMAIN row = Fields /\ row.group = NoGroup
    BY NewRow
  <1> HIDE DEF row, c, w
  <1>4. RowsOf(c)
    BY <1>1, <1>3 DEF RowsOf, Ids, Fields
  <1>5. RowsOf(w)
    BY <1>2, <1>3 DEF RowsOf, Ids, Fields
  <1> QED BY <1>4, <1>5 DEF row, c, w

LEMMA InsertTabKeeps ==
    ASSUME NEW d, RowsOf(d), NEW row
    PROVE  RowsOf(Inserted(d, "tabs", row))
  <1> DEFINE e == Inserted(d, "tabs", row)
  <1>1. /\ DOMAIN e = Tables \cup {"last"}
        /\ e.categories = d.categories
        /\ e.workspaces = d.workspaces
    BY InsertedTables DEF RowsOf, Tables
  <1> HIDE DEF e
  <1>2. RowsOf(e)
    BY <1>1 DEF RowsOf
  <1> QED BY <1>2 DEF e

\* Rows that are not given another id or another group.
LEMMA SameGroups ==
    ASSUME NEW d, RowsOf(d), NEW e, DOMAIN e = DOMAIN d,
           \A row \in e.workspaces \cup e.categories : DOMAIN row = Fields,
           \A v \in e.workspaces : \E w \in d.workspaces : v.group = w.group,
           Ids(d.categories) \subseteq Ids(e.categories)
    PROVE  RowsOf(e)
  BY DEF RowsOf, Fields

\* A change of one field of one row.
LEMMA RenameKeeps ==
    ASSUME NEW d, RowsOf(d), NEW table \in Tables, NEW id, NEW name
    PROVE  RowsOf(Rename(d, table, id, name))
  <1> DEFINE e == Rename(d, table, id, name)
             New(row) == IF row.id = id THEN [row EXCEPT !.name = name] ELSE row
             Renewed(rows) == {New(row) : row \in rows}
  <1>1. /\ DOMAIN e = DOMAIN d
        /\ e.workspaces = IF table = "workspaces" THEN Renewed(d.workspaces) ELSE d.workspaces
        /\ e.categories = IF table = "categories" THEN Renewed(d.categories) ELSE d.categories
    BY DEF RowsOf, Tables, Rename, Updated
  <1>2. ASSUME NEW row, DOMAIN row = Fields
        PROVE  DOMAIN New(row) = Fields /\ New(row).id = row.id /\ New(row).group = row.group
    BY <1>2 DEF Fields
  <1> HIDE DEF e, New
  <1>3. \A row \in d.workspaces \cup d.categories : DOMAIN row = Fields
    BY DEF RowsOf, Fields
  <1>4. \A row \in e.workspaces \cup e.categories : DOMAIN row = Fields
    BY <1>1, <1>2, <1>3
  <1>5. \A v \in e.workspaces : \E w \in d.workspaces : v.group = w.group
    BY <1>1, <1>2, <1>3
  <1>6. Ids(d.categories) \subseteq Ids(e.categories)
    BY <1>1, <1>2, <1>3 DEF Ids
  <1>7. RowsOf(e)
    BY <1>1, <1>4, <1>5, <1>6, SameGroups
  <1> QED BY <1>7 DEF e

LEMMA ReorderedRows ==
    ASSUME NEW rows, \A row \in rows : DOMAIN row = Fields, NEW ids
    PROVE  /\ \A row \in Reordered(rows, ids) : DOMAIN row = Fields
           /\ \A v \in Reordered(rows, ids) : \E w \in rows : v.group = w.group
           /\ Ids(rows) = Ids(Reordered(rows, ids))
  <1> DEFINE places == Places(rows, ids)
             Order(row) == CHOOSE i \in DOMAIN places : places[i] = row.id
             New(row) == IF row.id \in Range(places)
                         THEN [row EXCEPT !.order = Order(row) - 1] ELSE row
  <1>1. Reordered(rows, ids) = {New(row) : row \in rows}
    BY DEF Reordered
  <1>2. ASSUME NEW row \in rows
        PROVE  DOMAIN New(row) = Fields /\ New(row).id = row.id /\ New(row).group = row.group
    <2> HIDE DEF places, Order
    <2> QED BY <1>2 DEF Fields
  <1> HIDE DEF New
  <1> QED BY <1>1, <1>2 DEF Ids

LEMMA ReorderKeeps ==
    ASSUME NEW d, RowsOf(d), NEW ids
    PROVE  /\ RowsOf(reorder_categories(d, ids))
           /\ RowsOf(reorder_workspaces(d, ids))
           /\ RowsOf(reorder_tabs(d, ids))
  <1> DEFINE c == reorder_categories(d, ids)
             w == reorder_workspaces(d, ids)
             t == reorder_tabs(d, ids)
  <1>1. /\ \A row \in d.workspaces : DOMAIN row = Fields
        /\ \A row \in d.categories : DOMAIN row = Fields
    BY DEF RowsOf, Fields
  <1>2. /\ DOMAIN c = DOMAIN d
        /\ c.categories = Reordered(d.categories, ids)
        /\ c.workspaces = d.workspaces
    BY DEF RowsOf, Tables, reorder_categories
  <1>3. /\ DOMAIN w = DOMAIN d
        /\ w.workspaces = Reordered(d.workspaces, ids)
        /\ w.categories = d.categories
    BY DEF RowsOf, Tables, reorder_workspaces
  <1>4. /\ DOMAIN t = DOMAIN d
        /\ t.workspaces = d.workspaces
        /\ t.categories = d.categories
    BY DEF RowsOf, Tables, reorder_tabs
  <1> HIDE DEF c, w, t
  <1>5. RowsOf(c)
    <2>1. /\ \A row \in c.categories : DOMAIN row = Fields
          /\ Ids(d.categories) = Ids(c.categories)
      BY <1>1, <1>2, ReorderedRows
    <2> QED BY <1>1, <1>2, <2>1, SameGroups
  <1>6. RowsOf(w)
    <2>1. /\ \A row \in w.workspaces : DOMAIN row = Fields
          /\ \A v \in w.workspaces : \E u \in d.workspaces : v.group = u.group
      BY <1>1, <1>3, ReorderedRows
    <2> QED BY <1>1, <1>3, <2>1, SameGroups
  <1>7. RowsOf(t)
    BY <1>4 DEF RowsOf
  <1> QED BY <1>5, <1>6, <1>7 DEF c, w, t

\* The foreign key.
LEMMA MoveKeeps ==
    ASSUME NEW d, RowsOf(d), NEW ws, NEW category
    PROVE  RowsOf(set_workspace_category(d, ws, category))
  <1> DEFINE e == set_workspace_category(d, ws, category)
             New(row) == IF row.id = ws THEN [row EXCEPT !.group = category] ELSE row
  <1>1. CASE Exists(d, category)
    <2>1. /\ DOMAIN e = DOMAIN d
          /\ e.workspaces = {New(row) : row \in d.workspaces}
          /\ e.categories = d.categories
      BY <1>1 DEF RowsOf, Tables, set_workspace_category, Updated
    <2>2. ASSUME NEW row, DOMAIN row = Fields
          PROVE  /\ DOMAIN New(row) = Fields
                 /\ New(row).group \in {category, row.group}
      BY <2>2 DEF Fields
    <2> HIDE DEF e, New
    <2>3. \A row \in d.workspaces \cup d.categories : DOMAIN row = Fields
      BY DEF RowsOf, Fields
    <2>4. \A row \in e.workspaces \cup e.categories : DOMAIN row = Fields
      BY <2>1, <2>2, <2>3
    <2>5. category \in Ids(d.categories) \cup {NoGroup}
      BY <1>1 DEF Exists
    <2>6. \A v \in e.workspaces : v.group \in Ids(e.categories) \cup {NoGroup}
      BY <2>1, <2>2, <2>3, <2>5 DEF RowsOf
    <2>7. RowsOf(e)
      BY <2>1, <2>4, <2>6 DEF RowsOf, Fields
    <2> QED BY <2>7 DEF e
  <1>2. CASE ~Exists(d, category)
    BY <1>2 DEF set_workspace_category
  <1> QED BY <1>1, <1>2

\* Workspaces leave a category before it goes.
LEMMA DeleteCategoryKeeps ==
    ASSUME NEW d, RowsOf(d), NEW id
    PROVE  RowsOf(delete_category(d, id))
  <1> DEFINE e == delete_category(d, id)
             New(row) == IF row.group = id THEN [row EXCEPT !.group = NoGroup] ELSE row
  <1>1. /\ DOMAIN e = DOMAIN d
        /\ e.workspaces = {New(row) : row \in d.workspaces}
        /\ e.categories = {row \in d.categories : row.id # id}
    BY DEF RowsOf, Tables, delete_category
  <1>2. ASSUME NEW row, DOMAIN row = Fields
        PROVE  /\ DOMAIN New(row) = Fields
               /\ New(row).group = NoGroup \/ (New(row).group = row.group /\ row.group # id)
    BY <1>2 DEF Fields
  <1> HIDE DEF e, New
  <1>3. \A row \in d.workspaces \cup d.categories : DOMAIN row = Fields
    BY DEF RowsOf, Fields
  <1>4. \A row \in e.workspaces \cup e.categories : DOMAIN row = Fields
    BY <1>1, <1>2, <1>3
  <1>5. \A v \in e.workspaces : v.group \in Ids(e.categories) \cup {NoGroup}
    BY <1>1, <1>2, <1>3 DEF RowsOf, Ids
  <1>6. RowsOf(e)
    BY <1>1, <1>4, <1>5 DEF RowsOf, Fields
  <1> QED BY <1>6 DEF e

LEMMA RemoveKeeps ==
    ASSUME NEW d, RowsOf(d), NEW id
    PROVE  /\ RowsOf(remove_workspace(d, id))
           /\ RowsOf(remove_workspace_tab(d, id))
  <1> DEFINE w == remove_workspace(d, id)
             t == remove_workspace_tab(d, id)
  <1>1. /\ DOMAIN w = DOMAIN d
        /\ w.workspaces \subseteq d.workspaces
        /\ w.categories = d.categories
    BY DEF RowsOf, Tables, remove_workspace
  <1>2. /\ DOMAIN t = DOMAIN d
        /\ t.workspaces = d.workspaces
        /\ t.categories = d.categories
    BY DEF RowsOf, Tables, remove_workspace_tab
  <1> HIDE DEF w, t
  <1>3. RowsOf(w) /\ RowsOf(t)
    BY <1>1, <1>2 DEF RowsOf
  <1> QED BY <1>3 DEF w, t

-----------------------------------------------------------------------------

LEMMA EditKeeps ==
    ASSUME RowsOf(db), NEW b \in Browsers, Edits(b)
    PROVE  RowsOf(db')
  <1>1. CASE CreateCategory(b)
    BY <1>1, InsertKeeps DEF CreateCategory, Fetched, Edit, add_category
  <1>2. CASE RenameCategory(b)
    BY <1>2, RenameKeeps DEF RenameCategory, Fetched, Edit, rename_category, Tables
  <1>3. CASE DeleteCategory(b)
    BY <1>3, DeleteCategoryKeeps DEF DeleteCategory, Fetched, Edit
  <1>4. CASE CreateWorkspace(b)
    BY <1>4, InsertKeeps, InsertTabKeeps, MoveKeeps
       DEF CreateWorkspace, Fetched, Edit, add_workspace, add_workspace_tab
  <1>5. CASE CreateTab(b)
    BY <1>5, InsertTabKeeps DEF CreateTab, Edit, add_workspace_tab
  <1>6. CASE DeleteTab(b) \/ DeleteWorkspace(b)
    BY <1>6, RemoveKeeps DEF DeleteTab, DeleteWorkspace, Edit
  <1>7. CASE MoveWorkspace(b)
    BY <1>7, MoveKeeps DEF MoveWorkspace, Edit
  <1>8. CASE ReorderCategories(b) \/ ReorderWorkspaces(b) \/ ReorderTabs(b)
    BY <1>8, ReorderKeeps DEF ReorderCategories, ReorderWorkspaces, ReorderTabs, Edit
  <1> QED BY <1>1, <1>2, <1>3, <1>4, <1>5, <1>6, <1>7, <1>8 DEF Edits

LEMMA RenamedKeeps ==
    ASSUME RowsOf(db), Renames
    PROVE  RowsOf(db')
  BY RenameKeeps
     DEF Renames, RenameWorkspace, UpdateTab, RenameWorkspaceByPane, RenameTabByPane,
         Renamed, rename_workspace, update_workspace_tab, Tables

LEMMA ElsewhereKeeps ==
    ASSUME RowsOf(db), Elsewhere
    PROVE  RowsOf(db')
  BY RemoveKeeps, DeleteCategoryKeeps, MoveKeeps DEF Elsewhere, EditedElsewhere

LEMMA NextKeeps ==
    ASSUME RowsOf(db), [Next]_vars
    PROVE  RowsOf(db')
  <1>1. CASE Renames
    BY <1>1, RenamedKeeps
  <1>2. CASE \E b \in Browsers : Edits(b)
    BY <1>2, EditKeeps
  <1>3. CASE Elsewhere
    BY <1>3, ElsewhereKeeps
  <1>4. CASE Send \/ ClientLog \/ Logging
    BY <1>4 DEF Send, ClientLog, Logging
  <1>5. CASE \E b \in Browsers : Feed(b) \/ Page(b) \/ Lost(b)
    BY <1>5 DEF Feed, Connect, Recv, Lagged, Page, SeesEvent, ServeGet, GetReturns, Lost
  <1>6. CASE UNCHANGED vars
    BY <1>6 DEF vars
  <1> QED BY <1>1, <1>2, <1>3, <1>4, <1>5, <1>6 DEF Next

\* No workspace is ever in a category that is gone: of the handlers that name
\* a category, each leaves the check to the foreign key or empties it first.
THEOREM NoDanglingCategory == Spec => []CategoriesExist
  <1>1. Init => RowsOf(db)
    BY FirstRowsAssumption DEF Init
  <1>2. RowsOf(db) /\ [Next]_vars => RowsOf(db)'
    BY NextKeeps
  <1>3. RowsOf(db) => CategoriesExist
    BY DEF RowsOf, CategoriesExist
  <1> QED BY <1>1, <1>2, <1>3, PTL DEF Spec

-----------------------------------------------------------------------------
(* The log *)

LEMMA LogEachStep ==
    ASSUME [Next]_vars
    PROVE  LogStep \/ UNCHANGED logVars
<1>1. Http \in Loggers /\ Browsers \subseteq Loggers
  BY FeedAssumption
<1>2. CASE Renames
  BY <1>2 DEF Renames, RenameWorkspace, UpdateTab, RenameWorkspaceByPane, RenameTabByPane, Renamed
<1>3. ASSUME NEW b \in Browsers, Edits(b) PROVE UNCHANGED logVars
  BY <1>3 DEF Edits, CreateCategory, RenameCategory, DeleteCategory, CreateWorkspace, CreateTab,
       DeleteTab, DeleteWorkspace, MoveWorkspace, ReorderCategories, ReorderWorkspaces,
       ReorderTabs, Fetched, Edit
<1>4. ASSUME NEW b \in Browsers, Feed(b) \/ Page(b) \/ Lost(b) PROVE LogStep \/ UNCHANGED logVars
  BY <1>1, <1>4 DEF Feed, Connect, Recv, Lagged, Page, SeesEvent, ServeGet, GetReturns, Lost, LogStep
<1>5. CASE Elsewhere
  BY <1>5 DEF Elsewhere, EditedElsewhere
<1>6. CASE ClientLog \/ Logging
  BY <1>1, <1>6 DEF ClientLog, Logging, LogStep
<1>7. CASE Send \/ UNCHANGED vars
  BY <1>7 DEF Send, vars
<1> QED
  BY <1>2, <1>3, <1>4, <1>5, <1>6, <1>7 DEF Next

\* Whatever the console does, the file has every line, and the console gets
\* those that were not dropped, each task's in its order and each once.
THEOREM LogIsComplete == Spec => []LogComplete
<1>1. Init => LogInv
  BY LogInvStarts DEF Init
<1>2. LogInv /\ [Next]_vars => LogInv'
  BY LogEachStep, LogInvKept
<1>3. LogInv => LogComplete
  BY LogInvComplete
<1> QED
  BY <1>1, <1>2, <1>3, PTL DEF Spec

-----------------------------------------------------------------------------
(* Tables *)

LEMMA MaxOfNumbers ==
    ASSUME NEW S \in SUBSET Int, IsFiniteSet(S), S # {}
    PROVE  Max(S) \in S /\ \A y \in S : Max(S) >= y
<1> DEFINE HasMax(U) == \E x \in U : \A y \in U : x >= y
           T == {U \in SUBSET S : U # {} /\ ~HasMax(U)}
<1>1. IsWellFoundedOn(StrictSubsetOrdering(S), SUBSET S)
  BY FS_StrictSubsetOrderingWellFounded, FS_FiniteSubsetsOfFinite
<1>2. T = {}
  <2> SUFFICES ASSUME T # {} PROVE FALSE
    OBVIOUS
  <2>1. T \subseteq SUBSET S
    OBVIOUS
  <2> HIDE DEF T
  <2>2. \E U \in T : \A V \in T : <<V, U>> \notin StrictSubsetOrdering(S)
    BY <1>1, <2>1, WFMin
  <2> USE DEF T
  <2>3. PICK U \in T : \A V \in T : <<V, U>> \notin StrictSubsetOrdering(S)
    BY <2>2
  <2>4. PICK x \in U : TRUE
    OBVIOUS
  <2>5. <<U \ {x}, U>> \in StrictSubsetOrdering(S)
    BY <2>4 DEF StrictSubsetOrdering
  <2>6. U \ {x} = {} \/ HasMax(U \ {x})
    BY <2>3, <2>5
  <2>7. CASE U \ {x} = {}
    BY <2>4, <2>7
  <2>8. CASE HasMax(U \ {x})
    <3>1. PICK m \in U \ {x} : \A y \in U \ {x} : m >= y
      BY <2>8
    <3>2. m \in Int /\ x \in Int /\ U \subseteq Int
      OBVIOUS
    <3>3. IF m >= x THEN \A y \in U : m >= y ELSE \A y \in U : x >= y
      BY <2>4, <3>1, <3>2
    <3> QED
      BY <2>4, <3>1, <3>3
  <2> QED
    BY <2>6, <2>7, <2>8
<1>3. HasMax(S)
  BY <1>2
<1> QED
  BY <1>3 DEF Max

\* The table a statement makes of one that it changes row by row.
LEMMA MappedTable ==
    ASSUME NEW last \in Nat, NEW rows, IsTable(rows, last),
           NEW f,
           \A row \in rows : DOMAIN f[row] = Fields /\ f[row].id = row.id /\ f[row].order \in Nat
    PROVE  IsTable({f[row] : row \in rows}, last)
<1> DEFINE new == {f[row] : row \in rows}
<1>1. IsFiniteSet(new)
  <2> DEFINE g == [row \in rows |-> f[row]]
  <2>1. g \in Surjection(rows, new)
    BY DEF Surjection
  <2> QED
    BY <2>1, FS_Surjection DEF IsTable
<1>2. \A v \in new : \E row \in rows : v = f[row]
  OBVIOUS
<1>3. \A v \in new : DOMAIN v = Fields /\ v.id \in 1..last /\ v.order \in Nat
  BY <1>2 DEF IsTable
<1>4. \A v, w \in new : v # w => v.id # w.id
  BY <1>2 DEF IsTable
<1> QED
  BY <1>1, <1>3, <1>4 DEF IsTable, Fields

LEMMA PartOfTable ==
    ASSUME NEW last \in Nat, NEW rows, IsTable(rows, last), NEW part \in SUBSET rows
    PROVE  IsTable(part, last)
  BY FS_Subset DEF IsTable

LEMMA LaterTable ==
    ASSUME NEW last \in Nat, NEW later \in Nat, last <= later, NEW rows, IsTable(rows, last)
    PROVE  IsTable(rows, later)
  BY DEF IsTable

\* One more row, with an id that was never given out.
LEMMA LongerTable ==
    ASSUME NEW last \in Nat, NEW rows, IsTable(rows, last),
           NEW row, DOMAIN row = Fields, row.id = last + 1, row.order \in Nat,
           NEW added \in SUBSET {row}
    PROVE  IsTable(rows \cup added, last + 1)
<1>1. IsFiniteSet(rows \cup added)
  <2>1. IsFiniteSet({row})
    BY FS_Singleton
  <2>2. IsFiniteSet(added)
    BY <2>1, FS_Subset
  <2> QED
    BY <2>2, FS_Union DEF IsTable
<1>2. \A v \in rows \cup added : v \in rows \/ v = row
  OBVIOUS
<1>3. \A v \in rows : DOMAIN v = Fields /\ v.id \in 1..last /\ v.order \in Nat
  BY DEF IsTable, Fields
<1>4. \A v \in rows \cup added : DOMAIN v = Fields /\ v.id \in 1..(last + 1) /\ v.order \in Nat
  BY <1>2, <1>3
<1>5. \A v, w \in rows \cup added : v # w => v.id # w.id
  BY <1>2, <1>3 DEF IsTable
<1> QED
  BY <1>1, <1>4, <1>5 DEF IsTable, Fields

LEMMA NextOrderType ==
    ASSUME NEW last \in Nat, NEW rows, IsTable(rows, last), NEW part \in SUBSET rows
    PROVE  NextOrder(part) \in Nat
<1> DEFINE f == [row \in part |-> row.order]
           orders == {row.order : row \in part}
<1>1. f \in Surjection(part, orders)
  BY DEF Surjection
<1>2. IsFiniteSet(orders)
  BY <1>1, PartOfTable, FS_Surjection DEF IsTable
<1>3. orders \in SUBSET Nat
  BY DEF IsTable
<1>4. part # {} => orders # {}
  OBVIOUS
<1> HIDE DEF f
<1>5. CASE part # {}
  <2> HIDE DEF orders
  <2>1. Max(orders) \in orders
    BY <1>2, <1>3, <1>4, <1>5, MaxOfNumbers
  <2> QED
    BY <1>3, <1>5, <2>1 DEF NextOrder, orders
<1> QED
  BY <1>5 DEF NextOrder

\* Each row of the new table has the id and the order of an old one.
Stay(old, new) == \A v \in new : \E u \in old : u.id = v.id /\ u.order = v.order

LEMMA UpdatedTable ==
    ASSUME NEW last \in Nat, NEW rows, IsTable(rows, last),
           NEW id, NEW field \in {"name", "group"}, NEW value
    PROVE  /\ IsTable(Updated(rows, id, field, value), last)
           /\ Stay(rows, Updated(rows, id, field, value))
<1> DEFINE f == [row \in rows |-> IF row.id = id THEN [row EXCEPT ![field] = value] ELSE row]
<1>1. Updated(rows, id, field, value) = {f[row] : row \in rows}
  BY DEF Updated
<1>2. \A row \in rows : DOMAIN row = Fields /\ row.order \in Nat
  BY DEF IsTable, Fields
<1>3. \A row \in rows : DOMAIN f[row] = Fields /\ f[row].id = row.id /\ f[row].order = row.order
  BY <1>2 DEF Fields
<1> HIDE DEF f
<1> QED
  BY <1>1, <1>2, <1>3, MappedTable DEF Stay

Ungrouped(rows, id) ==
  {IF row.group = id THEN [row EXCEPT !.group = NoGroup] ELSE row : row \in rows}

LEMMA UngroupedTable ==
    ASSUME NEW last \in Nat, NEW rows, IsTable(rows, last), NEW id
    PROVE  IsTable(Ungrouped(rows, id), last) /\ Stay(rows, Ungrouped(rows, id))
<1> DEFINE f == [row \in rows |-> IF row.group = id THEN [row EXCEPT !.group = NoGroup] ELSE row]
<1>1. Ungrouped(rows, id) = {f[row] : row \in rows}
  BY DEF Ungrouped
<1>2. \A row \in rows : DOMAIN row = Fields /\ row.order \in Nat
  BY DEF IsTable, Fields
<1>3. \A row \in rows : DOMAIN f[row] = Fields /\ f[row].id = row.id /\ f[row].order = row.order
  BY <1>2 DEF Fields
<1> HIDE DEF f
<1> QED
  BY <1>1, <1>2, <1>3, MappedTable DEF Stay

\* A drag numbers the rows it has from 0 and leaves the others.
LEMMA ReorderedTable ==
    ASSUME NEW last \in Nat, NEW rows, IsTable(rows, last),
           NEW n \in Nat, NEW ids, DOMAIN ids = 1..n,
           \A i, j \in 1..n : i # j => ids[i] # ids[j]
    PROVE  /\ IsTable(Reordered(rows, ids), last)
           /\ \A v \in Reordered(rows, ids) :
                /\ \A i \in 1..n : ids[i] = v.id => v.order = i - 1
                /\ v.id \notin Range(ids) => \E u \in rows : u.id = v.id /\ u.order = v.order
<1> DEFINE Order(row) == CHOOSE i \in 1..n : ids[i] = row.id
           f == [row \in rows |-> IF row.id \in Range(ids)
                                  THEN [row EXCEPT !.order = Order(row) - 1] ELSE row]
<1>1. Reordered(rows, ids) = {f[row] : row \in rows}
  BY DEF Reordered, Places
<1>2. \A row \in rows : DOMAIN row = Fields /\ row.order \in Nat
  BY DEF IsTable, Fields
<1>3. ASSUME NEW row \in rows, row.id \in Range(ids)
      PROVE  /\ Order(row) \in 1..n /\ ids[Order(row)] = row.id
             /\ Order(row) - 1 \in Nat
             /\ \A i \in 1..n : ids[i] = row.id => Order(row) = i
  <2>1. \E i \in 1..n : ids[i] = row.id
    BY <1>3 DEF Range
  <2>2. Order(row) \in 1..n /\ ids[Order(row)] = row.id
    BY <2>1
  <2> HIDE DEF Order
  <2> QED
    BY <2>2
<1> HIDE DEF Order
<1>4. \A row \in rows :
        /\ DOMAIN f[row] = Fields /\ f[row].id = row.id
        /\ f[row].order = IF row.id \in Range(ids) THEN Order(row) - 1 ELSE row.order
  BY <1>2 DEF Fields
<1>5. \A row \in rows : f[row].order \in Nat
  BY <1>2, <1>3, <1>4
<1> HIDE DEF f
<1>6. IsTable({f[row] : row \in rows}, last)
  BY <1>4, <1>5, MappedTable
<1>7. ASSUME NEW row \in rows, NEW i \in 1..n, ids[i] = row.id
      PROVE  f[row].order = i - 1
  <2>1. row.id \in Range(ids)
    BY <1>7 DEF Range
  <2> QED
    BY <1>3, <1>4, <1>7, <2>1
<1>8. ASSUME NEW v \in Reordered(rows, ids)
      PROVE  /\ \A i \in 1..n : ids[i] = v.id => v.order = i - 1
             /\ v.id \notin Range(ids) => \E u \in rows : u.id = v.id /\ u.order = v.order
  <2>1. PICK row \in rows : v = f[row]
    BY <1>1
  <2> QED
    BY <1>4, <1>7, <2>1
<1> QED
  BY <1>1, <1>6, <1>8

-----------------------------------------------------------------------------
(* What the row functions make of the tables, in the database and in what  *)
(* a browser shows                                                         *)

Listing(d, last) ==
  /\ DOMAIN d \in {Tables, Tables \cup {"last"}}
  /\ \A table \in Tables : IsTable(d[table], last[table])

\* No row of e is new, and none has another place.
Kept(d, e) ==
  \A table \in Tables : \A v \in e[table] : \E u \in d[table] : u.id = v.id /\ u.order = v.order

SameLast(d, e) == DOMAIN e = DOMAIN d /\ ("last" \in DOMAIN d => e.last = d.last)

LEMMA ListingTable ==
    ASSUME NEW d, NEW last \in [Tables -> Nat], Listing(d, last), NEW table \in Tables
    PROVE  last[table] \in Nat /\ IsTable(d[table], last[table]) /\ table \in DOMAIN d
  BY DEF Listing

\* A statement, or two, that replaces a table.
Put(d, table, rows) == [d EXCEPT ![table] = rows]
PutTwo(d, one, these, two, those) == [d EXCEPT ![one] = these, ![two] = those]

LEMMA PutTable ==
    ASSUME NEW d, NEW last \in [Tables -> Nat], Listing(d, last),
           NEW table \in Tables, NEW rows
    PROVE  /\ SameLast(d, Put(d, table, rows))
           /\ Put(d, table, rows)[table] = rows
           /\ \A other \in Tables \ {table} : Put(d, table, rows)[other] = d[other]
<1>1. Tables \subseteq DOMAIN d /\ "last" \notin Tables
  BY DEF Listing, Tables
<1> QED
  BY <1>1 DEF Put, SameLast

LEMMA PutKept ==
    ASSUME NEW d, NEW last \in [Tables -> Nat], Listing(d, last),
           NEW table \in Tables, NEW rows, IsTable(rows, last[table]), Stay(d[table], rows)
    PROVE  /\ Listing(Put(d, table, rows), last)
           /\ Kept(d, Put(d, table, rows)) /\ SameLast(d, Put(d, table, rows))
<1> DEFINE e == Put(d, table, rows)
<1>1. /\ SameLast(d, e) /\ e[table] = rows
      /\ \A other \in Tables \ {table} : e[other] = d[other]
  BY PutTable
<1> HIDE DEF e
<1>2. \A other \in Tables : IsTable(e[other], last[other])
  BY <1>1 DEF Listing
<1>3. Kept(d, e)
  BY <1>1 DEF Kept, Stay
<1>4. Listing(e, last)
  BY <1>1, <1>2 DEF Listing, SameLast
<1> QED
  BY <1>1, <1>3, <1>4 DEF e

LEMMA PutTwoKept ==
    ASSUME NEW d, NEW last \in [Tables -> Nat], Listing(d, last),
           NEW one \in Tables, NEW two \in Tables, one # two,
           NEW these, IsTable(these, last[one]), Stay(d[one], these),
           NEW those, IsTable(those, last[two]), Stay(d[two], those)
    PROVE  /\ Listing(PutTwo(d, one, these, two, those), last)
           /\ Kept(d, PutTwo(d, one, these, two, those))
           /\ SameLast(d, PutTwo(d, one, these, two, those))
<1> DEFINE e == PutTwo(d, one, these, two, those)
<1>1. Tables \subseteq DOMAIN d /\ "last" \notin Tables
  BY DEF Listing, Tables
<1>2. /\ DOMAIN e = DOMAIN d /\ e[one] = these /\ e[two] = those
      /\ \A x \in DOMAIN d \ {one, two} : e[x] = d[x]
  BY <1>1 DEF PutTwo
<1> HIDE DEF e
<1>3. SameLast(d, e)
  BY <1>1, <1>2 DEF SameLast
<1>4. \A other \in Tables : IsTable(e[other], last[other])
  BY <1>1, <1>2 DEF Listing
<1>5. Kept(d, e)
  BY <1>1, <1>2 DEF Kept, Stay
<1>6. Listing(e, last)
  BY <1>2, <1>4 DEF Listing
<1> QED
  BY <1>3, <1>5, <1>6 DEF e

LEMMA RenamedRows ==
    ASSUME NEW d, NEW last \in [Tables -> Nat], Listing(d, last), NEW table \in Tables, NEW id, NEW name
    PROVE  /\ Listing(Rename(d, table, id, name), last)
           /\ Kept(d, Rename(d, table, id, name)) /\ SameLast(d, Rename(d, table, id, name))
<1>1. Rename(d, table, id, name) = Put(d, table, Updated(d[table], id, "name", name))
  BY DEF Rename, Put
<1> DEFINE rows == Updated(d[table], id, "name", name)
<1>2. IsTable(rows, last[table]) /\ Stay(d[table], rows)
  BY ListingTable, UpdatedTable
<1> HIDE DEF rows
<1>3. Listing(Put(d, table, rows), last) /\ Kept(d, Put(d, table, rows)) /\ SameLast(d, Put(d, table, rows))
  BY <1>2, PutKept
<1> QED
  BY <1>1, <1>3 DEF rows

LEMMA MovedRows ==
    ASSUME NEW d, NEW last \in [Tables -> Nat], Listing(d, last), NEW ws, NEW category
    PROVE  /\ Listing(set_workspace_category(d, ws, category), last)
           /\ Kept(d, set_workspace_category(d, ws, category))
           /\ SameLast(d, set_workspace_category(d, ws, category))
<1> DEFINE rows == Updated(d["workspaces"], ws, "group", category)
           e == Put(d, "workspaces", rows)
<1>1. "workspaces" \in Tables
  BY DEF Tables
<1>2. set_workspace_category(d, ws, category) = e \/ set_workspace_category(d, ws, category) = d
  BY DEF set_workspace_category, Put
<1>3. IsTable(rows, last["workspaces"]) /\ Stay(d["workspaces"], rows)
  BY <1>1, ListingTable, UpdatedTable
<1> HIDE DEF rows
<1>4. Listing(e, last) /\ Kept(d, e) /\ SameLast(d, e)
  BY <1>1, <1>3, PutKept
<1>5. Kept(d, d) /\ SameLast(d, d)
  BY DEF Kept, SameLast
<1> HIDE DEF e
<1> QED
  BY <1>2, <1>4, <1>5

LEMMA RemovedTab ==
    ASSUME NEW d, NEW last \in [Tables -> Nat], Listing(d, last), NEW id
    PROVE  /\ Listing(remove_workspace_tab(d, id), last)
           /\ Kept(d, remove_workspace_tab(d, id)) /\ SameLast(d, remove_workspace_tab(d, id))
<1> DEFINE rows == {tab \in d["tabs"] : tab.id # id}
<1>1. "tabs" \in Tables
  BY DEF Tables
<1>2. remove_workspace_tab(d, id) = Put(d, "tabs", rows)
  BY DEF remove_workspace_tab, Put
<1>3. IsTable(rows, last["tabs"]) /\ Stay(d["tabs"], rows)
  BY <1>1, ListingTable, PartOfTable DEF Stay
<1> HIDE DEF rows
<1>4. Listing(Put(d, "tabs", rows), last) /\ Kept(d, Put(d, "tabs", rows)) /\ SameLast(d, Put(d, "tabs", rows))
  BY <1>1, <1>3, PutKept
<1> QED
  BY <1>2, <1>4

LEMMA RemovedWorkspace ==
    ASSUME NEW d, NEW last \in [Tables -> Nat], Listing(d, last), NEW id
    PROVE  /\ Listing(remove_workspace(d, id), last)
           /\ Kept(d, remove_workspace(d, id)) /\ SameLast(d, remove_workspace(d, id))
<1> DEFINE tabs == {tab \in d["tabs"] : tab.group # id}
           rows == {row \in d["workspaces"] : row.id # id}
           e == PutTwo(d, "tabs", tabs, "workspaces", rows)
<1>1. "tabs" \in Tables /\ "workspaces" \in Tables /\ "tabs" # "workspaces"
  BY DEF Tables
<1>2. remove_workspace(d, id) = e
  BY DEF remove_workspace, PutTwo
<1>3. /\ IsTable(tabs, last["tabs"]) /\ Stay(d["tabs"], tabs)
      /\ IsTable(rows, last["workspaces"]) /\ Stay(d["workspaces"], rows)
  BY <1>1, ListingTable, PartOfTable DEF Stay
<1> HIDE DEF rows, tabs
<1>4. Listing(e, last) /\ Kept(d, e) /\ SameLast(d, e)
  BY <1>1, <1>3, PutTwoKept
<1> HIDE DEF e
<1> QED
  BY <1>2, <1>4

LEMMA DeletedCategory ==
    ASSUME NEW d, NEW last \in [Tables -> Nat], Listing(d, last), NEW id
    PROVE  /\ Listing(delete_category(d, id), last)
           /\ Kept(d, delete_category(d, id)) /\ SameLast(d, delete_category(d, id))
<1> DEFINE rows == Ungrouped(d["workspaces"], id)
           categories == {row \in d["categories"] : row.id # id}
           e == PutTwo(d, "workspaces", rows, "categories", categories)
<1>1. "categories" \in Tables /\ "workspaces" \in Tables /\ "categories" # "workspaces"
  BY DEF Tables
<1>2. delete_category(d, id) = e
  BY DEF delete_category, PutTwo, Ungrouped
<1>3. IsTable(categories, last["categories"]) /\ Stay(d["categories"], categories)
  BY <1>1, ListingTable, PartOfTable DEF Stay
<1>4. IsTable(d["workspaces"], last["workspaces"]) /\ last["workspaces"] \in Nat
  BY <1>1, ListingTable
<1>5. IsTable(rows, last["workspaces"]) /\ Stay(d["workspaces"], rows)
  BY <1>4, UngroupedTable
<1> HIDE DEF rows, categories
<1>6. Listing(e, last) /\ Kept(d, e) /\ SameLast(d, e)
  BY <1>1, <1>3, <1>5, PutTwoKept
<1> HIDE DEF e
<1> QED
  BY <1>2, <1>6

\* A sequence of ids to save an order of.
IsDrag(ids) ==
  \E n \in Nat : DOMAIN ids = 1..n /\ \A i, j \in 1..n : i # j => ids[i] # ids[j]

\* Reordering moves the rows it names, in one table, and no others.
Redone(d, e, table, ids) ==
  /\ \A v \in e[table] :
       /\ \A i \in DOMAIN ids : ids[i] = v.id => v.order = i - 1
       /\ v.id \notin Range(ids) => \E u \in d[table] : u.id = v.id /\ u.order = v.order
  /\ \A other \in Tables \ {table} : e[other] = d[other]

LEMMA ReorderedRowsOf ==
    ASSUME NEW d, NEW last \in [Tables -> Nat], Listing(d, last), NEW table \in Tables,
           NEW ids, IsDrag(ids)
    PROVE  LET e == Put(d, table, Reordered(d[table], ids))
           IN  Listing(e, last) /\ Redone(d, e, table, ids) /\ SameLast(d, e)
<1> DEFINE rows == Reordered(d[table], ids)
           e == Put(d, table, rows)
<1>1. PICK n \in Nat : DOMAIN ids = 1..n /\ \A i, j \in 1..n : i # j => ids[i] # ids[j]
  BY DEF IsDrag
<1>2. IsTable(d[table], last[table]) /\ last[table] \in Nat
  BY ListingTable
<1>3. /\ IsTable(rows, last[table])
      /\ \A v \in rows :
           /\ \A i \in 1..n : ids[i] = v.id => v.order = i - 1
           /\ v.id \notin Range(ids) => \E u \in d[table] : u.id = v.id /\ u.order = v.order
  BY <1>1, <1>2, ReorderedTable
<1>4. /\ SameLast(d, e) /\ e[table] = rows
      /\ \A other \in Tables \ {table} : e[other] = d[other]
  BY PutTable
<1> HIDE DEF e, rows
<1>5. Redone(d, e, table, ids)
  BY <1>1, <1>3, <1>4 DEF Redone
<1>6. \A other \in Tables : IsTable(e[other], last[other])
  BY <1>3, <1>4 DEF Listing
<1>7. Listing(e, last)
  BY <1>4, <1>6 DEF Listing, SameLast
<1> QED
  BY <1>4, <1>5, <1>7 DEF e, rows

\* An order that a browser can save.
LEMMA OrdersAreDrags ==
    ASSUME NEW last \in [Tables -> Nat], NEW b \in Browsers, Listing(shown[b], last),
           NEW table \in Tables, NEW group, NEW ids \in Orders(b, table, group)
    PROVE  IsDrag(ids) /\ Range(ids) \subseteq 1..last[table]
<1> DEFINE part == {row \in shown[b][table] : row.group = group}
           f == [row \in part |-> row.id]
<1>1. last[table] \in Nat /\ IsTable(shown[b][table], last[table])
  BY ListingTable
<1>2. IsTable(part, last[table])
  BY <1>1, PartOfTable
<1>3. f \in Surjection(part, Ids(part))
  BY DEF Surjection, Ids
<1>4. Cardinality(Ids(part)) \in Nat
  BY <1>2, <1>3, FS_Surjection, FS_CardinalityType DEF IsTable
<1>5. Ids(part) \subseteq 1..last[table]
  BY <1>2 DEF IsTable, Ids
<1>6. /\ ids \in [1..Cardinality(Ids(part)) -> Ids(part)]
      /\ \A i, j \in 1..Cardinality(Ids(part)) : i # j => ids[i] # ids[j]
  BY DEF Orders, SetToSeqs
<1> HIDE DEF part, f
<1>7. IsDrag(ids)
  BY <1>4, <1>6 DEF IsDrag
<1>8. Range(ids) \subseteq 1..last[table]
  BY <1>5, <1>6 DEF Range
<1> QED
  BY <1>7, <1>8

\* New rows.
LEMMA InsertedRow ==
    ASSUME NEW d, Listing(d, d.last), d.last \in [Tables -> Nat], "last" \in DOMAIN d,
           NEW table \in Tables, NEW part \in SUBSET d[table], NEW group, NEW name
    PROVE  LET row == Row(NextId(d, table), NextOrder(part), group, name)
               e == Inserted(d, table, row)
           IN  /\ Listing(e, e.last) /\ "last" \in DOMAIN e
               /\ e.last = [d.last EXCEPT ![table] = @ + 1]
               /\ DOMAIN row = Fields /\ row.id = d.last[table] + 1 /\ row.order \in Nat
               /\ e[table] = d[table] \cup {row}
               /\ \A other \in Tables \ {table} : e[other] = d[other]
<1> DEFINE row == Row(NextId(d, table), NextOrder(part), group, name)
           e == Inserted(d, table, row)
<1>1. d.last[table] \in Nat /\ IsTable(d[table], d.last[table])
  BY DEF Listing
<1>2. NextOrder(part) \in Nat
  BY <1>1, NextOrderType
<1>3. DOMAIN row = Fields /\ row.id = d.last[table] + 1 /\ row.order = NextOrder(part)
  BY DEF Row, Fields, NextId
<1> HIDE DEF row
<1>4. DOMAIN d = Tables \cup {"last"} /\ "last" \notin Tables
  BY DEF Listing, Tables
<1>5. /\ DOMAIN e = Tables \cup {"last"}
      /\ e[table] = d[table] \cup {row}
      /\ \A other \in Tables \ {table} : e[other] = d[other]
      /\ e.last = [d.last EXCEPT ![table] = row.id]
  BY <1>4 DEF Inserted
<1> HIDE DEF e
<1>6. IsTable(d[table] \cup {row}, d.last[table] + 1)
  BY <1>1, <1>2, <1>3, LongerTable
<1>7. /\ e.last[table] = d.last[table] + 1
      /\ \A other \in Tables \ {table} : e.last[other] = d.last[other]
  BY <1>3, <1>5
<1>8. \A other \in Tables : IsTable(e[other], e.last[other])
  BY <1>5, <1>6, <1>7 DEF Listing
<1>9. Listing(e, e.last)
  BY <1>5, <1>8 DEF Listing
<1> QED
  BY <1>2, <1>3, <1>5, <1>9 DEF e, row

-----------------------------------------------------------------------------
(* Every step, on the tables *)

\* Lists may be old: their ids were given out.
RowsInv ==
  /\ DOMAIN shown = Browsers /\ DOMAIN get = Browsers
  /\ "last" \in DOMAIN db /\ db.last \in [Tables -> Nat] /\ Listing(db, db.last)
  /\ \A b \in Browsers : Listing(shown[b], db.last) /\ Listing(get[b].list, db.last)

\* Rows keep their place, apart from new ones.
Grown(d, e) ==
  \A table \in Tables :
    /\ d.last[table] <= e.last[table]
    /\ \A v \in e[table] : \/ v.id > d.last[table]
                           \/ \E u \in d[table] : u.id = v.id /\ u.order = v.order

RowStep ==
  /\ RowsInv'
  /\ \/ Grown(db, db') /\ saved' = saved
     \/ \E table \in Tables : \E ids :
          /\ IsDrag(ids) /\ Range(ids) \subseteq 1..db.last[table]
          /\ Redone(db, db', table, ids) /\ db'.last = db.last
          /\ Dragged(table, ids)

LEMMA LaterListing ==
    ASSUME NEW last \in [Tables -> Nat], NEW later \in [Tables -> Nat],
           \A table \in Tables : last[table] <= later[table],
           NEW d, Listing(d, last)
    PROVE  Listing(d, later)
<1>1. \A table \in Tables : IsTable(d[table], later[table])
  BY LaterTable DEF Listing
<1> QED
  BY <1>1 DEF Listing

LEMMA NothingListed ==
    ASSUME NEW last \in [Tables -> Nat]
    PROVE  Listing(Nothing, last)
<1>1. DOMAIN Nothing = Tables /\ \A table \in Tables : Nothing[table] = {}
  BY DEF Nothing, Tables
<1>2. \A table \in Tables : IsTable({}, last[table])
  BY FS_EmptySet DEF IsTable
<1> QED
  BY <1>1, <1>2 DEF Listing

LEMMA KeptGrows ==
    ASSUME NEW d, d.last \in [Tables -> Nat], "last" \in DOMAIN d,
           NEW e, Kept(d, e), SameLast(d, e)
    PROVE  Grown(d, e)
  BY DEF Kept, SameLast, Grown

\* The database changes to new, one browser shows local and may fetch.
LEMMA ChangeKeeps ==
    ASSUME RowsInv,
           Listing(db', db'.last), "last" \in DOMAIN db', db'.last \in [Tables -> Nat],
           \A table \in Tables : db.last[table] <= db'.last[table],
           NEW b \in Browsers, NEW local, Listing(local, db'.last),
           shown' = [shown EXCEPT ![b] = local],
           get' = get \/ get' = [get EXCEPT ![b] = Asked]
    PROVE  RowsInv'
<1>1. DOMAIN shown' = Browsers /\ DOMAIN get' = Browsers
  BY DEF RowsInv
<1>2. \A c \in Browsers : shown'[c] = local \/ shown'[c] = shown[c]
  BY DEF RowsInv
<1>3. \A c \in Browsers : get'[c].list = Nothing \/ get'[c].list = get[c].list
  BY DEF RowsInv, Asked
<1>4. Listing(Nothing, db'.last)
  BY NothingListed
<1>5. db.last \in [Tables -> Nat]
  BY DEF RowsInv
<1>6. \A c \in Browsers : Listing(shown[c], db'.last) /\ Listing(get[c].list, db'.last)
  BY <1>5, LaterListing DEF RowsInv
<1>7. \A c \in Browsers : Listing(shown'[c], db'.last) /\ Listing(get'[c].list, db'.last)
  BY <1>2, <1>3, <1>4, <1>6
<1> QED
  BY <1>1, <1>7 DEF RowsInv

LEMMA KeptStep ==
    ASSUME RowsInv, Listing(db', db.last), Kept(db, db'), SameLast(db, db'),
           NEW b \in Browsers, NEW local, Listing(local, db.last),
           shown' = [shown EXCEPT ![b] = local],
           get' = get \/ get' = [get EXCEPT ![b] = Asked],
           saved' = saved
    PROVE  RowStep
<1>1. db'.last = db.last /\ "last" \in DOMAIN db' /\ db.last \in [Tables -> Nat]
  BY DEF RowsInv, SameLast
<1>2. \A table \in Tables : db.last[table] <= db'.last[table]
  BY <1>1
<1>3. RowsInv'
  BY <1>1, <1>2, ChangeKeeps
<1> QED
  BY <1>3, KeptGrows DEF RowStep, RowsInv

LEMMA ReorderedStep ==
    ASSUME RowsInv, NEW b \in Browsers, NEW table \in Tables, NEW group,
           NEW ids \in Orders(b, table, group),
           db' = Put(db, table, Reordered(db[table], ids)),
           shown' = [shown EXCEPT ![b] = Put(shown[b], table, Reordered(shown[b][table], ids))],
           get' = get, Dragged(table, ids)
    PROVE  RowStep
<1>1. /\ db.last \in [Tables -> Nat] /\ Listing(db, db.last) /\ "last" \in DOMAIN db
      /\ Listing(shown[b], db.last)
  BY DEF RowsInv
<1>2. IsDrag(ids) /\ Range(ids) \subseteq 1..db.last[table]
  BY <1>1, OrdersAreDrags
<1>3. Listing(db', db.last) /\ Redone(db, db', table, ids) /\ SameLast(db, db')
  BY <1>1, <1>2, ReorderedRowsOf
<1>4. Listing(Put(shown[b], table, Reordered(shown[b][table], ids)), db.last)
  BY <1>1, <1>2, ReorderedRowsOf
<1>5. db'.last = db.last /\ "last" \in DOMAIN db'
  BY <1>1, <1>3 DEF SameLast
<1>6. \A t \in Tables : db.last[t] <= db'.last[t]
  BY <1>1, <1>5
<1>7. RowsInv'
  BY <1>1, <1>3, <1>4, <1>5, <1>6, ChangeKeeps
<1> QED
  BY <1>2, <1>3, <1>5, <1>7 DEF RowStep

LEMMA QuietStep ==
    ASSUME RowsInv, Listing(db', db.last), Kept(db, db'), SameLast(db, db'),
           shown' = shown, get' = get, saved' = saved
    PROVE  RowStep
<1>1. db'.last = db.last /\ "last" \in DOMAIN db' /\ db.last \in [Tables -> Nat]
  BY DEF RowsInv, SameLast
<1>2. RowsInv'
  BY <1>1 DEF RowsInv
<1> QED
  BY <1>1, <1>2, KeptGrows DEF RowStep, RowsInv

Valid(d) == "last" \in DOMAIN d /\ d.last \in [Tables -> Nat] /\ Listing(d, d.last)

GrowsTo(d, e) == Valid(e) /\ Grown(d, e)

LEMMA GrowOn ==
    ASSUME NEW d, Valid(d), NEW e, GrowsTo(d, e), NEW f, GrowsTo(e, f)
    PROVE  GrowsTo(d, f)
<1> SUFFICES ASSUME NEW table \in Tables
             PROVE  /\ d.last[table] <= f.last[table]
                    /\ \A v \in f[table] : \/ v.id > d.last[table]
                                           \/ \E u \in d[table] : u.id = v.id /\ u.order = v.order
  BY DEF GrowsTo, Grown
<1>1. d.last[table] \in Nat /\ e.last[table] \in Nat /\ f.last[table] \in Nat
  BY DEF Valid, GrowsTo
<1>2. d.last[table] <= e.last[table] /\ e.last[table] <= f.last[table]
  BY DEF GrowsTo, Grown
<1>3. \A v \in f[table] : v.id \in Int
  BY <1>1 DEF GrowsTo, Valid, Listing, IsTable
<1>4. ASSUME NEW v \in f[table]
      PROVE  \/ v.id > d.last[table]
             \/ \E u \in d[table] : u.id = v.id /\ u.order = v.order
  <2>1. CASE v.id > e.last[table]
    BY <1>1, <1>2, <1>3, <2>1
  <2>2. CASE \E u \in e[table] : u.id = v.id /\ u.order = v.order
    <3>1. PICK u \in e[table] : u.id = v.id /\ u.order = v.order
      BY <2>2
    <3>2. u.id > d.last[table] \/ \E w \in d[table] : w.id = u.id /\ w.order = u.order
      BY DEF GrowsTo, Grown
    <3> QED
      BY <3>1, <3>2
  <2> QED
    BY <2>1, <2>2 DEF GrowsTo, Grown
<1> QED
  BY <1>1, <1>2, <1>4

LEMMA KeptGrowsTo ==
    ASSUME NEW d, Valid(d), NEW e, Listing(e, d.last), Kept(d, e), SameLast(d, e)
    PROVE  GrowsTo(d, e)
<1>1. e.last = d.last /\ "last" \in DOMAIN e
  BY DEF Valid, SameLast
<1> QED
  BY <1>1, KeptGrows DEF Valid, GrowsTo

\* INSERT: part are the rows that the new one comes after.
Insert(d, table, part, group, name) ==
  Inserted(d, table, Row(NextId(d, table), NextOrder(part), group, name))

LEMMA InsertGrows ==
    ASSUME NEW d, Valid(d), NEW table \in Tables, NEW part \in SUBSET d[table], NEW group, NEW name
    PROVE  GrowsTo(d, Insert(d, table, part, group, name))
<1> DEFINE row == Row(NextId(d, table), NextOrder(part), group, name)
           e == Inserted(d, table, row)
<1>1. /\ Listing(e, e.last) /\ "last" \in DOMAIN e
      /\ e.last = [d.last EXCEPT ![table] = @ + 1]
      /\ row.id = d.last[table] + 1
      /\ e[table] = d[table] \cup {row}
      /\ \A other \in Tables \ {table} : e[other] = d[other]
  BY InsertedRow DEF Valid
<1>2. Insert(d, table, part, group, name) = e
  BY DEF Insert
<1> HIDE DEF e, row
<1>3. d.last \in [Tables -> Nat]
  BY DEF Valid
<1>4. Valid(e)
  BY <1>1, <1>3 DEF Valid
<1>5. Grown(d, e)
  <2> SUFFICES ASSUME NEW t \in Tables
               PROVE  /\ d.last[t] <= e.last[t]
                      /\ \A v \in e[t] : \/ v.id > d.last[t]
                                         \/ \E u \in d[t] : u.id = v.id /\ u.order = v.order
    BY DEF Grown
  <2>1. CASE t = table
    BY <1>1, <1>3, <2>1
  <2>2. CASE t # table
    BY <1>1, <1>3, <2>2
  <2> QED
    BY <2>1, <2>2
<1> QED
  BY <1>2, <1>4, <1>5 DEF GrowsTo

LEMMA GrownStep ==
    ASSUME RowsInv, GrowsTo(db, db'), NEW b \in Browsers, NEW local, Listing(local, db'.last),
           shown' = [shown EXCEPT ![b] = local],
           get' = get \/ get' = [get EXCEPT ![b] = Asked],
           saved' = saved
    PROVE  RowStep
<1>1. \A table \in Tables : db.last[table] <= db'.last[table]
  BY DEF GrowsTo, Grown
<1>2. RowsInv'
  BY <1>1, ChangeKeeps DEF GrowsTo, Valid
<1> QED
  BY <1>2 DEF RowStep, GrowsTo

\* A browser whose display stays as it is.
LEMMA FetchedStep ==
    ASSUME RowsInv, NEW b \in Browsers, NEW new, Fetched(b, new), GrowsTo(db, new)
    PROVE  RowStep
<1>1. db' = new /\ shown' = [shown EXCEPT ![b] = shown[b]] /\ saved' = saved
      /\ get' = [get EXCEPT ![b] = Asked]
  BY DEF Fetched, Edit
<1>2. Listing(shown[b], new.last)
  <2>1. db.last \in [Tables -> Nat] /\ new.last \in [Tables -> Nat]
    BY DEF RowsInv, GrowsTo, Valid
  <2>2. \A table \in Tables : db.last[table] <= new.last[table]
    BY DEF GrowsTo, Grown
  <2> QED
    BY <2>1, <2>2, LaterListing DEF RowsInv
<1> QED
  BY <1>1, <1>2, GrownStep

LEMMA RenamesStep ==
    ASSUME RowsInv, Renames
    PROVE  RowStep
<1>1. /\ db.last \in [Tables -> Nat] /\ Listing(db, db.last)
      /\ \A b \in Browsers : Listing(shown[b], db.last)
      /\ {"workspaces", "tabs"} \subseteq Tables
  BY DEF RowsInv, Tables
<1>2. ASSUME NEW b \in Browsers, NEW table \in {"workspaces", "tabs"}, NEW id,
             Renamed(Rename(db, table, id, NewName),
                     [shown EXCEPT ![b] = Rename(shown[b], table, id, NewName)])
      PROVE  RowStep
  <2>1. /\ Listing(Rename(db, table, id, NewName), db.last)
        /\ Kept(db, Rename(db, table, id, NewName)) /\ SameLast(db, Rename(db, table, id, NewName))
        /\ Listing(Rename(shown[b], table, id, NewName), db.last)
    BY <1>1, RenamedRows
  <2>2. /\ db' = Rename(db, table, id, NewName) /\ get' = get /\ saved' = saved
        /\ shown' = [shown EXCEPT ![b] = Rename(shown[b], table, id, NewName)]
    BY <1>2 DEF Renamed
  <2> QED
    BY <2>1, <2>2, KeptStep
<1>3. ASSUME NEW table \in {"workspaces", "tabs"}, NEW id,
             Renamed(Rename(db, table, id, NewName), shown)
      PROVE  RowStep
  <2>1. /\ Listing(Rename(db, table, id, NewName), db.last)
        /\ Kept(db, Rename(db, table, id, NewName)) /\ SameLast(db, Rename(db, table, id, NewName))
    BY <1>1, RenamedRows
  <2>2. db' = Rename(db, table, id, NewName) /\ get' = get /\ saved' = saved /\ shown' = shown
    BY <1>3 DEF Renamed
  <2> QED
    BY <2>1, <2>2, QuietStep
<1>4. CASE \E b \in Browsers : RenameWorkspace(b) \/ UpdateTab(b)
  <2>1. PICK b \in Browsers : RenameWorkspace(b) \/ UpdateTab(b)
    BY <1>4
  <2>2. CASE RenameWorkspace(b)
    <3>1. PICK row \in shown[b].workspaces :
            Renamed(rename_workspace(db, row.id, NewName),
                    [shown EXCEPT ![b] = rename_workspace(shown[b], row.id, NewName)])
      BY <2>2 DEF RenameWorkspace
    <3> QED
      BY <1>2, <3>1 DEF rename_workspace
  <2>3. CASE UpdateTab(b)
    <3>1. PICK row \in shown[b].tabs :
            Renamed(update_workspace_tab(db, row.id, NewName),
                    [shown EXCEPT ![b] = update_workspace_tab(shown[b], row.id, NewName)])
      BY <2>3 DEF UpdateTab
    <3> QED
      BY <1>2, <3>1 DEF update_workspace_tab
  <2> QED
    BY <2>1, <2>2, <2>3
<1>5. CASE RenameWorkspaceByPane \/ RenameTabByPane
  BY <1>3, <1>5 DEF RenameWorkspaceByPane, RenameTabByPane, rename_workspace, update_workspace_tab
<1> QED
  BY <1>4, <1>5 DEF Renames

LEMMA ElsewhereStep ==
    ASSUME RowsInv, Elsewhere
    PROVE  RowStep
<1>1. db.last \in [Tables -> Nat] /\ Listing(db, db.last)
  BY DEF RowsInv
<1>2. ASSUME NEW new, EditedElsewhere(new),
             Listing(new, db.last), Kept(db, new), SameLast(db, new)
      PROVE  RowStep
  BY <1>2, QuietStep DEF EditedElsewhere
<1>3. CASE \E row \in db.workspaces : EditedElsewhere(remove_workspace(db, row.id))
  BY <1>1, <1>2, <1>3, RemovedWorkspace
<1>4. CASE \E row \in db.tabs : EditedElsewhere(remove_workspace_tab(db, row.id))
  BY <1>1, <1>2, <1>4, RemovedTab
<1>5. CASE \E row \in db.categories : EditedElsewhere(delete_category(db, row.id))
  BY <1>1, <1>2, <1>5, DeletedCategory
<1>6. CASE \E row \in db.workspaces, category \in Ids(db.categories) :
             EditedElsewhere(set_workspace_category(db, row.id, category))
  BY <1>1, <1>2, <1>6, MovedRows
<1> QED
  BY <1>3, <1>4, <1>5, <1>6 DEF Elsewhere

LEMMA CreateWorkspaceStep ==
    ASSUME RowsInv, NEW b \in Browsers, CreateWorkspace(b)
    PROVE  RowStep
<1> DEFINE ws == NextId(db, "workspaces")
           one == add_workspace_tab(add_workspace(db, next_workspace_name(db, "ws")), ws, <<"shell", 0>>)
<1>1. PICK category \in Ids(shown[b].categories) \cup {NoGroup} :
        Fetched(b, set_workspace_category(one, ws, category))
  BY DEF CreateWorkspace
<1>2. Valid(db) /\ "workspaces" \in Tables /\ "tabs" \in Tables
  BY DEF RowsInv, Valid, Tables
<1> DEFINE first == add_workspace(db, next_workspace_name(db, "ws"))
           part == {tab \in first.tabs : tab.group = ws}
<1>3. first = Insert(db, "workspaces", db["workspaces"], NoGroup, next_workspace_name(db, "ws"))
  BY DEF add_workspace, Insert
<1>4. GrowsTo(db, first)
  BY <1>2, <1>3, InsertGrows
<1>5. one = Insert(first, "tabs", part, ws, <<"shell", 0>>)
  BY DEF add_workspace_tab, Insert
<1>6. part \in SUBSET first["tabs"]
  OBVIOUS
<1> HIDE DEF first, part, one, ws
<1>7. GrowsTo(first, one)
  BY <1>2, <1>4, <1>5, <1>6, InsertGrows DEF GrowsTo
<1>8. GrowsTo(one, set_workspace_category(one, ws, category))
  BY <1>7, MovedRows, KeptGrowsTo DEF GrowsTo, Valid
<1>9. GrowsTo(db, one)
  BY <1>2, <1>4, <1>7, GrowOn
<1>10. GrowsTo(db, set_workspace_category(one, ws, category))
  BY <1>2, <1>8, <1>9, GrowOn
<1> QED
  BY <1>1, <1>10, FetchedStep

LEMMA CreateTabStep ==
    ASSUME RowsInv, NEW b \in Browsers, CreateTab(b)
    PROVE  RowStep
<1>1. PICK ws \in shown[b].workspaces :
        /\ LET new == add_workspace_tab(db, ws.id, <<"shell", 0>>)
           IN Edit(b, new, [shown[b] EXCEPT !.tabs = @ \cup (new.tabs \ db.tabs)], FALSE)
        /\ saved' = saved
  BY DEF CreateTab
<1> DEFINE part == {tab \in db.tabs : tab.group = ws.id}
           row == Row(NextId(db, "tabs"), NextOrder(part), ws.id, <<"shell", 0>>)
           new == Inserted(db, "tabs", row)
           tabs == shown[b]["tabs"] \cup (new.tabs \ db.tabs)
           local == Put(shown[b], "tabs", tabs)
<1>2. new = add_workspace_tab(db, ws.id, <<"shell", 0>>)
  BY DEF add_workspace_tab
<1>3. Edit(b, new, local, FALSE) /\ saved' = saved
  BY <1>1, <1>2 DEF Put
<1>4. Valid(db) /\ "tabs" \in Tables /\ part \in SUBSET db["tabs"]
  BY DEF RowsInv, Valid, Tables
<1>5. GrowsTo(db, new)
  BY <1>4, InsertGrows DEF Insert
<1>6. /\ DOMAIN row = Fields /\ row.id = db.last["tabs"] + 1 /\ row.order \in Nat
      /\ new.last = [db.last EXCEPT !["tabs"] = @ + 1]
      /\ new["tabs"] = db["tabs"] \cup {row}
  BY <1>4, InsertedRow DEF Valid
<1> HIDE DEF row, part
<1>7. IsTable(tabs, db.last["tabs"] + 1)
  <2>1. IsTable(shown[b]["tabs"], db.last["tabs"]) /\ db.last["tabs"] \in Nat
    BY <1>4 DEF RowsInv, Listing
  <2>2. new.tabs \ db.tabs \in SUBSET {row}
    BY <1>6
  <2> HIDE DEF new
  <2> QED
    BY <1>6, <2>1, <2>2, LongerTable
<1> HIDE DEF new, tabs
<1>8. Listing(local, new.last)
  <2>1. /\ SameLast(shown[b], local) /\ local["tabs"] = tabs
        /\ \A other \in Tables \ {"tabs"} : local[other] = shown[b][other]
    BY <1>4, PutTable DEF RowsInv
  <2>2. db.last \in [Tables -> Nat] /\ Listing(shown[b], db.last)
    BY DEF RowsInv
  <2> HIDE DEF local
  <2>3. /\ new.last["tabs"] = db.last["tabs"] + 1
        /\ \A other \in Tables \ {"tabs"} : new.last[other] = db.last[other]
    BY <1>4, <1>6, <2>2
  <2>4. \A table \in Tables : IsTable(local[table], new.last[table])
    BY <1>7, <2>1, <2>2, <2>3 DEF Listing
  <2> QED
    BY <2>1, <2>2, <2>4 DEF Listing, SameLast
<1> HIDE DEF local
<1>9. db' = new /\ shown' = [shown EXCEPT ![b] = local] /\ get' = get
  BY <1>3 DEF Edit
<1> QED
  BY <1>3, <1>5, <1>8, <1>9, GrownStep

LEMMA EditsStep ==
    ASSUME RowsInv, NEW b \in Browsers, Edits(b)
    PROVE  RowStep
<1>1. /\ Valid(db) /\ db.last \in [Tables -> Nat] /\ Listing(db, db.last)
      /\ Listing(shown[b], db.last)
      /\ "workspaces" \in Tables /\ "categories" \in Tables /\ "tabs" \in Tables
  BY DEF RowsInv, Valid, Tables
<1>2. ASSUME NEW new, Fetched(b, new), Listing(new, db.last), Kept(db, new), SameLast(db, new)
      PROVE  RowStep
  BY <1>1, <1>2, KeptGrowsTo, FetchedStep
<1>3. ASSUME NEW new, NEW local, NEW fetches \in BOOLEAN, Edit(b, new, local, fetches), saved' = saved,
             Listing(new, db.last), Kept(db, new), SameLast(db, new), Listing(local, db.last)
      PROVE  RowStep
  <2>1. /\ db' = new /\ shown' = [shown EXCEPT ![b] = local]
        /\ get' = get \/ get' = [get EXCEPT ![b] = Asked]
    BY <1>3 DEF Edit
  <2> QED
    BY <1>3, <2>1, KeptStep
<1>4. CASE CreateCategory(b)
  <2>1. add_category(db, NewName) = Insert(db, "categories", db["categories"], NoGroup, NewName)
    BY DEF add_category, Insert
  <2>2. GrowsTo(db, add_category(db, NewName))
    BY <1>1, <2>1, InsertGrows
  <2> QED
    BY <1>4, <2>2, FetchedStep DEF CreateCategory
<1>5. CASE RenameCategory(b)
  BY <1>1, <1>2, <1>5, RenamedRows DEF RenameCategory, rename_category
<1>6. CASE DeleteCategory(b)
  BY <1>1, <1>2, <1>6, DeletedCategory DEF DeleteCategory
<1>7. CASE DeleteTab(b)
  BY <1>1, <1>3, <1>7, RemovedTab DEF DeleteTab
<1>8. CASE DeleteWorkspace(b)
  BY <1>1, <1>3, <1>8, RemovedWorkspace DEF DeleteWorkspace
<1>9. CASE MoveWorkspace(b)
  BY <1>1, <1>3, <1>9, MovedRows DEF MoveWorkspace
<1>10. ASSUME NEW table \in Tables, NEW group, NEW ids \in Orders(b, table, group),
              Edit(b, Put(db, table, Reordered(db[table], ids)),
                   Put(shown[b], table, Reordered(shown[b][table], ids)), FALSE),
              Dragged(table, ids)
       PROVE  RowStep
  BY <1>10, ReorderedStep DEF Edit
<1>11. CASE ReorderCategories(b)
  BY <1>1, <1>10, <1>11 DEF ReorderCategories, reorder_categories, Put
<1>12. CASE ReorderWorkspaces(b)
  BY <1>1, <1>10, <1>12 DEF ReorderWorkspaces, reorder_workspaces, Put
<1>13. CASE ReorderTabs(b)
  BY <1>1, <1>10, <1>13 DEF ReorderTabs, reorder_tabs, Put
<1> QED
  BY <1>4, <1>5, <1>6, <1>7, <1>8, <1>9, <1>11, <1>12, <1>13, CreateWorkspaceStep, CreateTabStep
     DEF Edits

LEMMA PageStep ==
    ASSUME RowsInv, NEW b \in Browsers, Page(b) \/ Lost(b)
    PROVE  RowStep
<1>1. db' = db /\ saved' = saved
  BY DEF Page, SeesEvent, ServeGet, GetReturns, Lost
<1>2. /\ DOMAIN shown = Browsers /\ DOMAIN get = Browsers /\ db.last \in [Tables -> Nat]
      /\ Valid(db)
      /\ \A c \in Browsers : Listing(shown[c], db.last) /\ Listing(get[c].list, db.last)
  BY DEF RowsInv, Valid
<1>3. Listing(Nothing, db.last)
  BY <1>2, NothingListed
<1>4. Listing(Listed, db.last)
  <2>1. DOMAIN Listed = Tables /\ \A table \in Tables : Listed[table] = db[table]
    BY DEF Listed
  <2> QED
    BY <2>1 DEF RowsInv, Listing
<1>5. /\ DOMAIN shown' = Browsers /\ DOMAIN get' = Browsers
      /\ \A c \in Browsers : shown'[c] \in {shown[c], get[c].list, Nothing}
      /\ \A c \in Browsers : get'[c].list \in {get[c].list, Listed, Nothing}
  <2>1. CASE SeesEvent(b)
    BY <1>2, <2>1 DEF SeesEvent, Asked
  <2>2. CASE ServeGet(b)
    BY <1>2, <2>2 DEF ServeGet
  <2>3. CASE GetReturns(b)
    BY <1>2, <2>3 DEF GetReturns, NoFetch
  <2>4. CASE Lost(b)
    BY <1>2, <2>4 DEF Lost, NoFetch
  <2> QED
    BY <2>1, <2>2, <2>3, <2>4 DEF Page
<1>6. \A c \in Browsers : Listing(shown'[c], db.last) /\ Listing(get'[c].list, db.last)
  BY <1>2, <1>3, <1>4, <1>5
<1>7. RowsInv'
  BY <1>1, <1>5, <1>6 DEF RowsInv
<1>8. Kept(db, db) /\ SameLast(db, db)
  BY DEF Kept, SameLast
<1> QED
  BY <1>1, <1>2, <1>7, <1>8, KeptGrows DEF RowStep, Valid

LEMMA EachStep ==
    ASSUME RowsInv, [Next]_vars
    PROVE  RowStep
<1>1. ASSUME UNCHANGED <<db, shown, get, saved>> PROVE RowStep
  BY <1>1, QuietStep DEF RowsInv, Kept, SameLast
<1>2. CASE Send \/ ClientLog \/ Logging \/ UNCHANGED vars
  BY <1>1, <1>2 DEF Send, ClientLog, Logging, vars
<1>3. ASSUME NEW b \in Browsers, Feed(b) PROVE RowStep
  BY <1>1, <1>3 DEF Feed, Connect, Recv, Lagged
<1> QED
  BY <1>2, <1>3, RenamesStep, ElsewhereStep, EditsStep, PageStep DEF Next

LEMMA RowsStart ==
    ASSUME Init
    PROVE  RowsInv
<1>1. /\ db = FirstRows /\ DOMAIN shown = Browsers /\ DOMAIN get = Browsers
      /\ \A b \in Browsers : shown[b] = Nothing /\ get[b].list = Nothing
  BY DEF Init, NoFetch
<1>2. /\ DOMAIN FirstRows = Tables \cup {"last"} /\ FirstRows.last \in [Tables -> Nat]
      /\ \A table \in Tables : IsTable(FirstRows[table], FirstRows.last[table])
  BY FirstRowsAssumption DEF RowsOf
<1>3. Listing(FirstRows, FirstRows.last)
  BY <1>2 DEF Listing
<1>4. Listing(Nothing, FirstRows.last)
  BY <1>2, NothingListed
<1> QED
  BY <1>1, <1>2, <1>3, <1>4 DEF RowsInv

-----------------------------------------------------------------------------
(* Streams *)

StreamsInv ==
  /\ unsent \in Nat /\ sent \in Nat
  /\ rx \in [Browsers -> Nat] /\ \A b \in Browsers : rx[b] <= sent
  /\ task \in [Browsers -> {"none", "loop"}]
  /\ wire \in [Browsers -> Seq({"init", "update"})] /\ \A b \in Browsers : Len(wire[b]) <= WireRoom
  /\ DOMAIN get = Browsers
  /\ \A b \in Browsers : get[b].at \in {"none", "asked", "answered"}

LEMMA OldestType ==
    ASSUME sent \in Nat
    PROVE  Oldest \in 0..sent
<1>1. sent - Capacity \in Int /\ sent - Capacity <= sent
  BY FeedAssumption
<1>2. Oldest \in {0, sent - Capacity} /\ Oldest >= 0
  <2>1. {0, sent - Capacity} \in SUBSET Int /\ IsFiniteSet({0, sent - Capacity})
    <3>1. IsFiniteSet({0}) /\ IsFiniteSet({sent - Capacity})
      BY FS_Singleton
    <3>2. {0, sent - Capacity} = {0} \cup {sent - Capacity}
      OBVIOUS
    <3>3. IsFiniteSet({0} \cup {sent - Capacity})
      BY <3>1, FS_Union
    <3> QED
      BY <1>1, <3>2, <3>3
  <2> QED
    BY <2>1, MaxOfNumbers DEF Oldest
<1> QED
  BY <1>1, <1>2

\* Only the feed and the page act on streams.
LEMMA StreamsStep ==
    ASSUME StreamsInv, [Next]_vars
    PROVE  StreamsInv'
<1> DEFINE Wires == Seq({"init", "update"})
<1>1. /\ \A c \in Browsers : wire[c] \in Wires /\ Len(wire[c]) \in Nat /\ Len(wire[c]) <= WireRoom
      /\ rx \in [Browsers -> Nat] /\ \A c \in Browsers : rx[c] \in Nat /\ rx[c] <= sent
      /\ wire \in [Browsers -> Wires] /\ unsent \in Nat /\ sent \in Nat
      /\ task \in [Browsers -> {"none", "loop"}]
      /\ DOMAIN get = Browsers
      /\ WireRoom \in Nat \ {0}
  BY LenProperties, FeedAssumption DEF StreamsInv
<1>2. CASE UNCHANGED <<feedVars, get>>
  BY <1>2 DEF StreamsInv, feedVars
<1>3. ASSUME NEW b \in Browsers, Edits(b) PROVE StreamsInv'
  <2>1. UNCHANGED feedVars /\ (get' = get \/ get' = [get EXCEPT ![b] = Asked])
    BY <1>3 DEF Edits, CreateCategory, RenameCategory, DeleteCategory, CreateWorkspace, CreateTab,
         DeleteTab, DeleteWorkspace, MoveWorkspace, ReorderCategories, ReorderWorkspaces,
         ReorderTabs, Fetched, Edit
  <2>2. DOMAIN get' = Browsers /\ \A c \in Browsers : get'[c].at \in {get[c].at, "asked"}
    <3>1. CASE get' = get
      BY <1>1, <3>1
    <3>2. CASE get' = [get EXCEPT ![b] = Asked]
      BY <1>1, <3>2 DEF Asked
    <3> QED
      BY <2>1, <3>1, <3>2
  <2> QED
    BY <2>1, <2>2 DEF StreamsInv, feedVars
<1>4. CASE Renames
  <2>1. unsent' = unsent + 1 /\ UNCHANGED <<sent, rx, task, wire, get>>
    BY <1>4 DEF Renames, RenameWorkspace, UpdateTab, RenameWorkspaceByPane, RenameTabByPane, Renamed
  <2> QED
    BY <2>1 DEF StreamsInv
<1>5. CASE Send
  <2>1. /\ unsent > 0 /\ unsent' = unsent - 1 /\ sent' = sent + 1
        /\ UNCHANGED <<rx, task, wire, get>>
    BY <1>5 DEF Send
  <2> QED
    BY <1>1, <2>1 DEF StreamsInv
<1>6. ASSUME NEW b \in Browsers, Connect(b) PROVE StreamsInv'
  <2>1. /\ task' = [task EXCEPT ![b] = "loop"] /\ rx' = [rx EXCEPT ![b] = sent]
        /\ wire' = [wire EXCEPT ![b] = <<"init">>] /\ UNCHANGED <<unsent, sent, get>>
    BY <1>6 DEF Connect
  <2>2. <<"init">> \in Wires /\ Len(<<"init">>) = 1
    OBVIOUS
  <2>3. wire' \in [Browsers -> Wires] /\ \A c \in Browsers : Len(wire'[c]) <= WireRoom
    BY <1>1, <2>1, <2>2
  <2>4. rx' \in [Browsers -> Nat] /\ \A c \in Browsers : rx'[c] <= sent
    BY <1>1, <2>1
  <2> QED
    BY <2>1, <2>3, <2>4 DEF StreamsInv
<1>7. ASSUME NEW b \in Browsers, Recv(b) PROVE StreamsInv'
  <2>1. /\ rx[b] < sent /\ Len(wire[b]) < WireRoom /\ rx' = [rx EXCEPT ![b] = @ + 1]
        /\ wire' = [wire EXCEPT ![b] = Append(@, "update")]
        /\ UNCHANGED <<unsent, sent, task, get>>
    BY <1>7 DEF Recv, Receiving
  <2>2. Append(wire[b], "update") \in Wires /\ Len(Append(wire[b], "update")) = Len(wire[b]) + 1
    BY <1>1, AppendProperties
  <2>3. wire' \in [Browsers -> Wires] /\ \A c \in Browsers : Len(wire'[c]) <= WireRoom
    BY <1>1, <2>1, <2>2
  <2>4. rx' \in [Browsers -> Nat] /\ \A c \in Browsers : rx'[c] <= sent
    BY <1>1, <2>1
  <2> QED
    BY <2>1, <2>3, <2>4 DEF StreamsInv
<1>8. ASSUME NEW b \in Browsers, Lagged(b) PROVE StreamsInv'
  <2>1. rx' = [rx EXCEPT ![b] = Oldest] /\ UNCHANGED <<unsent, sent, task, wire, get>>
    BY <1>8 DEF Lagged, PastLag
  <2>2. rx' \in [Browsers -> Nat] /\ \A c \in Browsers : rx'[c] <= sent
    BY <1>1, <2>1, OldestType
  <2> QED
    BY <2>1, <2>2 DEF StreamsInv
<1>9. ASSUME NEW b \in Browsers, SeesEvent(b) PROVE StreamsInv'
  <2>1. /\ wire[b] # <<>> /\ wire' = [wire EXCEPT ![b] = Tail(wire[b])]
        /\ get' = [get EXCEPT ![b] = Asked]
        /\ UNCHANGED <<unsent, sent, rx, task>>
    BY <1>9 DEF SeesEvent
  <2>2. Tail(wire[b]) \in Wires /\ Len(Tail(wire[b])) = Len(wire[b]) - 1
    BY <1>1, <2>1, HeadTailProperties
  <2>3. wire' \in [Browsers -> Wires] /\ \A c \in Browsers : Len(wire'[c]) <= WireRoom
    BY <1>1, <2>1, <2>2
  <2> QED
    BY <2>1, <2>3 DEF StreamsInv, Asked
<1>10. ASSUME NEW b \in Browsers, ServeGet(b) \/ GetReturns(b) PROVE StreamsInv'
  <2>1. /\ UNCHANGED feedVars
        /\ \/ get' = [get EXCEPT ![b] = [at |-> "answered", list |-> Listed]]
           \/ get' = [get EXCEPT ![b] = NoFetch]
    BY <1>10 DEF ServeGet, GetReturns
  <2>2. /\ DOMAIN get' = Browsers
        /\ \A c \in Browsers : get'[c].at \in {get[c].at, "answered", "none"}
    BY <1>1, <2>1 DEF NoFetch
  <2> QED
    BY <2>1, <2>2 DEF StreamsInv, feedVars
<1>11. ASSUME NEW b \in Browsers, Lost(b) PROVE StreamsInv'
  <2>1. /\ task' = [task EXCEPT ![b] = "none"] /\ wire' = [wire EXCEPT ![b] = <<>>]
        /\ get' = [get EXCEPT ![b] = NoFetch] /\ UNCHANGED <<unsent, sent, rx>>
    BY <1>11 DEF Lost
  <2>2. <<>> \in Wires /\ Len(<<>>) = 0
    OBVIOUS
  <2>3. wire' \in [Browsers -> Wires] /\ \A c \in Browsers : Len(wire'[c]) <= WireRoom
    BY <1>1, <2>1, <2>2
  <2> QED
    BY <1>1, <2>1, <2>3 DEF StreamsInv, NoFetch
<1>12. CASE Elsewhere \/ ClientLog \/ Logging \/ UNCHANGED vars
  BY <1>2, <1>12 DEF Elsewhere, EditedElsewhere, ClientLog, Logging, vars
<1> QED
  BY <1>3, <1>4, <1>5, <1>6, <1>7, <1>8, <1>9, <1>10, <1>11, <1>12 DEF Next, Feed, Page

\* The tables stay tables: ids are never given out twice, and no handler, with
\* whatever old list it was sent from, makes two rows of one.  No stream is ahead
\* of the channel or gets more than its connection takes.
THEOREM TypesHold == Spec => []TypeOK
<1>1. Init => RowsInv /\ StreamsInv /\ LogInv
  <2>1. Init => StreamsInv
    BY FeedAssumption DEF Init, StreamsInv, NoFetch
  <2> QED
    BY <2>1, RowsStart, LogInvStarts DEF Init
<1>2. RowsInv /\ StreamsInv /\ LogInv /\ [Next]_vars => (RowsInv /\ StreamsInv /\ LogInv)'
  BY EachStep, StreamsStep, LogEachStep, LogInvKept DEF RowStep
<1>3. RowsInv /\ StreamsInv /\ LogInv => TypeOK
  BY DEF RowsInv, Listing, StreamsInv, LogInv, TypeOK
<1> QED
  BY <1>1, <1>2, <1>3, PTL DEF Spec

-----------------------------------------------------------------------------
(* Order *)

\* What the two rows of a pair in saved are to each other.
OrderInv ==
  \A p \in saved :
    /\ p[1] \in Tables /\ p[2] \in 1..db.last[p[1]] /\ p[3] \in 1..db.last[p[1]]
    /\ \A v, w \in db[p[1]] : v.id = p[2] /\ w.id = p[3] => v.order < w.order

LEMMA GrownKeepsOrder ==
    ASSUME RowsInv, RowsInv', OrderInv, Grown(db, db'), saved' = saved
    PROVE  OrderInv'
<1> SUFFICES ASSUME NEW p \in saved
             PROVE  /\ p[1] \in Tables /\ p[2] \in 1..db'.last[p[1]] /\ p[3] \in 1..db'.last[p[1]]
                    /\ \A v, w \in db'[p[1]] : v.id = p[2] /\ w.id = p[3] => v.order < w.order
  BY DEF OrderInv
<1>1. /\ p[1] \in Tables /\ p[2] \in 1..db.last[p[1]] /\ p[3] \in 1..db.last[p[1]]
      /\ \A v, w \in db[p[1]] : v.id = p[2] /\ w.id = p[3] => v.order < w.order
  BY DEF OrderInv
<1>2. /\ db.last[p[1]] \in Nat /\ db'.last[p[1]] \in Nat
      /\ db.last[p[1]] <= db'.last[p[1]]
  BY <1>1 DEF RowsInv, Grown
<1>3. \A v \in db'[p[1]] : \/ v.id > db.last[p[1]]
                           \/ \E u \in db[p[1]] : u.id = v.id /\ u.order = v.order
  BY <1>1 DEF Grown
<1>4. ASSUME NEW v \in db'[p[1]], NEW w \in db'[p[1]], v.id = p[2], w.id = p[3]
      PROVE  v.order < w.order
  <2>1. ~(v.id > db.last[p[1]]) /\ ~(w.id > db.last[p[1]])
    BY <1>1, <1>2, <1>4
  <2>2. PICK a \in db[p[1]] : a.id = v.id /\ a.order = v.order
    BY <1>3, <2>1
  <2>3. PICK b \in db[p[1]] : b.id = w.id /\ b.order = w.order
    BY <1>3, <2>1
  <2> QED
    BY <1>1, <1>4, <2>2, <2>3
<1> QED
  BY <1>1, <1>2, <1>4

\* A drag puts its own rows in order; pairs that it has one of are forgotten.
LEMMA DragKeepsOrder ==
    ASSUME RowsInv, OrderInv, NEW table \in Tables, NEW ids,
           IsDrag(ids), Range(ids) \subseteq 1..db.last[table],
           Redone(db, db', table, ids), db'.last = db.last, Dragged(table, ids)
    PROVE  OrderInv'
<1>1. PICK n \in Nat : DOMAIN ids = 1..n /\ \A i, j \in 1..n : i # j => ids[i] # ids[j]
  BY DEF IsDrag
<1>2. Len(ids) = n
  BY <1>1
<1>3. /\ \A v \in db'[table] : /\ \A i \in 1..n : ids[i] = v.id => v.order = i - 1
                               /\ v.id \notin Range(ids) =>
                                    \E u \in db[table] : u.id = v.id /\ u.order = v.order
      /\ \A other \in Tables \ {table} : db'[other] = db[other]
  BY <1>1 DEF Redone
<1>4. /\ \A p \in saved' : \/ p \in saved /\ (p[1] = table => {p[2], p[3]} \cap Range(ids) = {})
                           \/ \E i \in 1..n, j \in 1..n : i < j /\ p = <<table, ids[i], ids[j]>>
  <2>1. \A i \in 1..n : \A j \in (i + 1)..n : j \in 1..n /\ i < j
    OBVIOUS
  <2> QED
    BY <1>1, <1>2, <2>1 DEF Dragged
<1> SUFFICES ASSUME NEW p \in saved'
             PROVE  /\ p[1] \in Tables /\ p[2] \in 1..db'.last[p[1]] /\ p[3] \in 1..db'.last[p[1]]
                    /\ \A v, w \in db'[p[1]] : v.id = p[2] /\ w.id = p[3] => v.order < w.order
  BY DEF OrderInv
<1>5. CASE p \in saved /\ p[1] # table
  <2>1. db'[p[1]] = db[p[1]]
    BY <1>3, <1>5 DEF OrderInv
  <2> QED
    BY <1>5, <2>1 DEF OrderInv
<1>6. CASE p \in saved /\ p[1] = table /\ {p[2], p[3]} \cap Range(ids) = {}
  <2>1. ASSUME NEW v \in db'[table], NEW w \in db'[table], v.id = p[2], w.id = p[3]
        PROVE  v.order < w.order
    <3>1. v.id \notin Range(ids) /\ w.id \notin Range(ids)
      BY <1>6, <2>1
    <3>2. PICK a \in db[table] : a.id = v.id /\ a.order = v.order
      BY <1>3, <3>1
    <3>3. PICK b \in db[table] : b.id = w.id /\ b.order = w.order
      BY <1>3, <3>1
    <3> QED
      BY <1>6, <2>1, <3>2, <3>3 DEF OrderInv
  <2> QED
    BY <1>6, <2>1 DEF OrderInv
<1>7. CASE \E i \in 1..n, j \in 1..n : i < j /\ p = <<table, ids[i], ids[j]>>
  <2>1. PICK i \in 1..n, j \in 1..n : i < j /\ p = <<table, ids[i], ids[j]>>
    BY <1>7
  <2>2. p[1] = table /\ p[2] = ids[i] /\ p[3] = ids[j]
    BY <2>1
  <2>3. ids[i] \in Range(ids) /\ ids[j] \in Range(ids)
    BY <1>1 DEF Range
  <2>4. \A v, w \in db'[table] : v.id = p[2] /\ w.id = p[3] => v.order < w.order
    BY <1>3, <2>1, <2>2
  <2> QED
    BY <2>2, <2>3, <2>4
<1> QED
  BY <1>4, <1>5, <1>6, <1>7

\* What ORDER BY sort_order, id makes of two rows.
LEMMA SortedInOrder ==
    ASSUME NEW last \in Nat, NEW rows, IsTable(rows, last)
    PROVE  LET s == Sorted(rows) IN
           /\ DOMAIN s \subseteq Nat
           /\ \A i \in DOMAIN s : s[i] \in rows
           /\ \A i, j \in DOMAIN s : s[i].order < s[j].order => i < j
<1> DEFINE n == Cardinality(rows)
           Pred(row) == {other \in rows : Before(other, row)}
<1>1. IsFiniteSet(rows) /\ n \in Nat
  BY FS_CardinalityType DEF IsTable
<1>2. \A row \in rows : IsFiniteSet(Pred(row)) /\ Cardinality(Pred(row)) \in Nat
  BY <1>1, FS_Subset, FS_CardinalityType
<1>3. \A row \in rows : row.id \in Int /\ row.order \in Int
  BY DEF IsTable
<1>4. ASSUME NEW a \in rows, NEW b \in rows, Before(a, b)
      PROVE  Place(rows, a) < Place(rows, b)
  <2>1. Pred(a) \subseteq Pred(b)
    <3>1. ASSUME NEW c \in rows, Before(c, a) PROVE Before(c, b)
      BY <1>3, <1>4, <3>1 DEF Before
    <3> QED
      BY <3>1
  <2>2. a \in Pred(b) /\ a \notin Pred(a)
    BY <1>3, <1>4 DEF Before
  <2> HIDE DEF Pred
  <2>3. Cardinality(Pred(a)) < Cardinality(Pred(b))
    BY <1>2, <2>1, <2>2, FS_Subset
  <2> QED
    BY <1>2, <2>3 DEF Place, Pred
<1>5. \A row \in rows : Place(rows, row) \in 1..n
  <2> SUFFICES ASSUME NEW row \in rows PROVE Place(rows, row) \in 1..n
    OBVIOUS
  <2>1. Pred(row) \subseteq rows /\ row \notin Pred(row)
    BY <1>3 DEF Before
  <2> HIDE DEF Pred
  <2>2. Pred(row) # rows /\ Pred(row) \in SUBSET rows
    BY <2>1
  <2>3. Cardinality(Pred(row)) <= Cardinality(rows) /\ Cardinality(rows) # Cardinality(Pred(row))
    BY <1>1, <2>2, FS_Subset
  <2>4. Cardinality(Pred(row)) < n
    BY <1>1, <1>2, <2>3
  <2> QED
    BY <1>1, <1>2, <2>4 DEF Place, Pred
<1>6. \A a, b \in rows : a # b => Before(a, b) \/ Before(b, a)
  BY <1>3 DEF Before, IsTable
<1> DEFINE f == [row \in rows |-> Place(rows, row)]
<1>7. f \in Injection(rows, 1..n)
  <2>1. f \in [rows -> 1..n]
    BY <1>5
  <2>2. \A a, b \in rows : a # b => Place(rows, a) # Place(rows, b)
    <3>1. \A a \in rows : Place(rows, a) \in Int
      BY <1>5
    <3> QED
      BY <1>4, <1>6, <3>1
  <2>3. \A a, b \in DOMAIN f : f[a] = f[b] => a = b
    BY <2>2
  <2> QED
    BY <2>1, <2>3 DEF Injection, IsInjective
<1>8. IsFiniteSet(1..n) /\ Cardinality(1..n) = n
  BY <1>1, FS_Interval
<1>9. f \in Surjection(rows, 1..n)
  <2> HIDE DEF f
  <2> QED
    BY <1>7, <1>8, FS_Injection
<1>10. \A i \in 1..n : \E row \in rows : Place(rows, row) = i
  BY <1>9 DEF Surjection
<1> DEFINE s == Sorted(rows)
<1>11. DOMAIN s = 1..n /\ \A i \in 1..n : s[i] \in rows /\ Place(rows, s[i]) = i
  BY <1>10 DEF Sorted
<1> HIDE DEF s
<1>12. \A i, j \in DOMAIN s : s[i].order < s[j].order => i < j
  BY <1>4, <1>11 DEF Before
<1> QED
  BY <1>1, <1>11, <1>12 DEF s

LEMMA OrderInvObeyed ==
    ASSUME RowsInv, OrderInv
    PROVE  OrderObeyed
<1> SUFFICES ASSUME NEW p \in saved
             PROVE  /\ p[1] = "categories" => Precedes(list_categories(db), p[2], p[3])
                    /\ p[1] = "workspaces" => Precedes(list_workspaces(db), p[2], p[3])
                    /\ p[1] = "tabs" => \A ws \in Ids(db.workspaces) :
                                          \A s \in list_workspace_tabs(db, ws) : Precedes(s, p[2], p[3])
  BY DEF OrderObeyed
<1>1. \A table \in Tables : IsTable(db[table], db.last[table]) /\ db.last[table] \in Nat
  BY DEF RowsInv, Listing
<1>2. \A v, w \in db[p[1]] : v.id = p[2] /\ w.id = p[3] => v.order < w.order
  BY DEF OrderInv
<1>3. ASSUME NEW table \in Tables, p[1] = table
      PROVE  Precedes(Sorted(db[table]), p[2], p[3])
  <2> DEFINE s == Sorted(db[table])
  <2>1. /\ \A i \in DOMAIN s : s[i] \in db[table]
        /\ \A i, j \in DOMAIN s : s[i].order < s[j].order => i < j
    BY <1>1, SortedInOrder
  <2> HIDE DEF s
  <2>2. Precedes(s, p[2], p[3])
    BY <1>2, <1>3, <2>1 DEF Precedes
  <2> QED
    BY <2>2 DEF s
<1>4. ASSUME NEW ws, NEW s \in list_workspace_tabs(db, ws), p[1] = "tabs"
      PROVE  Precedes(s, p[2], p[3])
  <2> DEFINE tabs == {tab \in db.tabs : tab.group = ws}
  <2>1. /\ s \in [1..Cardinality(tabs) -> tabs]
        /\ \A i, j \in DOMAIN s : i < j => s[i].order <= s[j].order
    BY DEF list_workspace_tabs, SetToSeqs
  <2>2. Cardinality(tabs) \in Nat /\ \A v \in tabs : v \in db["tabs"] /\ v.order \in Nat
    <3>1. IsTable(db["tabs"], db.last["tabs"]) /\ db.last["tabs"] \in Nat
      BY <1>1 DEF Tables
    <3>2. IsTable(tabs, db.last["tabs"])
      BY <3>1, PartOfTable
    <3> QED
      BY <3>1, <3>2, FS_CardinalityType DEF IsTable
  <2> HIDE DEF tabs
  <2>3. ASSUME NEW i \in DOMAIN s, NEW j \in DOMAIN s, s[i].id = p[2], s[j].id = p[3]
        PROVE  i < j
    <3>1. s[i].order < s[j].order /\ s[i].order \in Nat /\ s[j].order \in Nat
      BY <1>2, <1>4, <2>1, <2>2, <2>3
    <3>2. i \in Nat /\ j \in Nat
      BY <2>1, <2>2
    <3>3. ~(j < i) /\ i # j
      BY <2>1, <3>1
    <3> QED
      BY <3>2, <3>3
  <2> QED
    BY <2>3 DEF Precedes
<1>5. {"categories", "workspaces"} \subseteq Tables
  BY DEF Tables
<1> QED
  BY <1>3, <1>4, <1>5 DEF list_categories, list_workspaces

\* Two rows that were dragged into an order are listed in it until another drag
\* has one of them, though the drag was of an old list, with rows that are gone
\* and without rows that are new.
THEOREM DragsAreObeyed == Spec => []OrderObeyed
<1>1. Init => RowsInv /\ OrderInv
  BY RowsStart DEF Init, OrderInv
<1>2. RowsInv /\ OrderInv /\ [Next]_vars => (RowsInv /\ OrderInv)'
  <2> SUFFICES ASSUME RowsInv, OrderInv, [Next]_vars
               PROVE  RowsInv' /\ OrderInv'
    OBVIOUS
  <2>1. RowStep
    BY EachStep
  <2>2. CASE Grown(db, db') /\ saved' = saved
    BY <2>1, <2>2, GrownKeepsOrder DEF RowStep
  <2>3. CASE \E table \in Tables : \E ids :
               /\ IsDrag(ids) /\ Range(ids) \subseteq 1..db.last[table]
               /\ Redone(db, db', table, ids) /\ db'.last = db.last
               /\ Dragged(table, ids)
    BY <2>1, <2>3, DragKeepsOrder DEF RowStep
  <2> QED
    BY <2>1, <2>2, <2>3 DEF RowStep
<1>3. RowsInv /\ OrderInv => OrderObeyed
  BY OrderInvObeyed
<1> QED
  BY <1>1, <1>2, <1>3, PTL DEF Spec
=============================================================================
