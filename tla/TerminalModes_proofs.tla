------------------------ MODULE TerminalModes_proofs ------------------------
(***************************************************************************)
(* What holds of every terminal, with tmux or without: what is typed       *)
(* arrives, the browser that has caught up shows the pane, and the direct  *)
(* bridge takes no step that TerminalConnection does not allow.            *)
(*                                                                         *)
(* Input arrives for every input, size of a command, room in the PTY and   *)
(* every division of the writes: a token has an effect on the pane (or     *)
(* none), and what arrived, what is on the wire and what waits amount to   *)
(* what was sent, before and after every step.                             *)
(*                                                                         *)
(* The argument about the replay follows the queue of the                  *)
(* control client: it leads from the pane as the captures saw it, or as    *)
(* the browser shows it, to the pane as it is, line by line and switch by  *)
(* switch, for any height and history.                                     *)
(***************************************************************************)
EXTENDS TerminalModes, SequencesExt_proofs

-----------------------------------------------------------------------------
(* Tokens and messages *)

AllSizes == Sizes \cup {FirstSize}

KeyTokens  == {Key(b) : b \in 0..255}
SizeTokens == {Size(s) : s \in AllSizes}
Starts     == {SendKeys} \cup {Resize(s) : s \in AllSizes}
PaneTokens == KeyTokens \cup SizeTokens
Tokens     == PaneTokens \cup Starts \cup {LineEnd}

Messages == {Input(data) : data \in Inputs} \cup {Resized(s) : s \in AllSizes}

Meaning ==
  [msg \in Messages |-> IF msg.type = "input" THEN Keys(msg.data) ELSE <<Size(msg.size)>>]

\* Tokens are told apart by their names.
LEMMA KeysApart ==
    /\ \A t \in KeyTokens  : t[1] = "key" /\ t # LineEnd /\ t # SendKeys
    /\ \A t \in SizeTokens : t[1] = "size" /\ t # LineEnd /\ t # SendKeys
    /\ \A s : Resize(s)[1] = "refresh-client" /\ Resize(s)[2] = s
    /\ \A s : Resize(s) # LineEnd /\ Resize(s) # SendKeys
    /\ SendKeys[1] = "send-keys" /\ LineEnd[1] = "line end" /\ SendKeys # LineEnd
<1>1. SendKeys[1] = "send-keys" /\ LineEnd[1] = "line end"
  BY DEF SendKeys, LineEnd
<1>2. \A s : Resize(s)[1] = "refresh-client" /\ Resize(s)[2] = s
  BY DEF Resize
<1>3. \A t \in KeyTokens : t[1] = "key"
  BY DEF KeyTokens, Key
<1>4. \A t \in SizeTokens : t[1] = "size"
  BY DEF SizeTokens, Size
<1> QED
  BY <1>1, <1>2, <1>3, <1>4

LEMMA KeysType ==
    ASSUME NEW data \in Seq(0..255)
    PROVE  Keys(data) \in Seq(KeyTokens) /\ Len(Keys(data)) = Len(data)
<1>1. Len(data) \in Nat /\ DOMAIN data = 1..Len(data) /\ \A i \in 1..Len(data) : data[i] \in 0..255
  BY LenProperties, ElementOfSeq
<1>2. \A i \in 1..Len(data) : Key(data[i]) \in KeyTokens
  BY <1>1 DEF KeyTokens
<1> QED
  BY <1>1, <1>2 DEF Keys

LEMMA MeaningType ==
    /\ Meaning \in [Messages -> Seq(PaneTokens)]
    /\ Meaning \in [Messages -> Seq(Tokens)]
    /\ \A data \in Inputs : Input(data) \in Messages /\ Meaning[Input(data)] = Keys(data)
    /\ \A s \in AllSizes : Resized(s) \in Messages /\ Meaning[Resized(s)] = <<Size(s)>>
<1>1. ASSUME NEW data \in Inputs
      PROVE  /\ Input(data) \in Messages /\ Meaning[Input(data)] = Keys(data)
             /\ Keys(data) \in Seq(PaneTokens)
  <2>1. Input(data) \in Messages /\ Input(data).type = "input" /\ Input(data).data = data
    BY DEF Messages, Input
  <2>2. Keys(data) \in Seq(KeyTokens)
    BY KeysType, InputAssumption
  <2>3. Keys(data) \in Seq(PaneTokens)
    BY <2>2, SeqMonotonic DEF PaneTokens
  <2> QED
    BY <2>1, <2>3 DEF Meaning
<1>2. ASSUME NEW s \in AllSizes
      PROVE  /\ Resized(s) \in Messages /\ Meaning[Resized(s)] = <<Size(s)>>
             /\ <<Size(s)>> \in Seq(PaneTokens)
  <2>1. Resized(s) \in Messages /\ Resized(s).type = "resize" /\ Resized(s).size = s
    BY DEF Messages, Resized
  <2>2. Size(s) \in PaneTokens
    BY DEF PaneTokens, SizeTokens
  <2> QED
    BY <2>1, <2>2 DEF Meaning
<1>3. \A m \in Messages : Meaning[m] \in Seq(PaneTokens)
  BY <1>1, <1>2 DEF Messages
<1>4. Meaning \in [Messages -> Seq(PaneTokens)]
  BY <1>3 DEF Meaning
<1>5. Seq(PaneTokens) \subseteq Seq(Tokens)
  BY SeqMonotonic DEF Tokens
<1> QED
  BY <1>1, <1>2, <1>4, <1>5

-----------------------------------------------------------------------------
(* Commands on the wire *)

\* From position i of w a command: what starts one, keys if it is send-keys, and
\* the end of its line before it is too long.
CommandAt(w, i) ==
  \E j \in 1..Len(w) :
    /\ i < j /\ j <= i + CHUNK_SIZE + 1
    /\ w[j] = LineEnd
    /\ \A k \in 1..Len(w) : i < k /\ k < j => w[k] \in KeyTokens
    /\ w[i] = SendKeys \/ j = i + 1

WellFormed(w) ==
  /\ w # <<>> => w[Len(w)] = LineEnd
  /\ \A i \in 1..Len(w) : (i = 1 \/ w[i - 1] = LineEnd) => w[i] \in Starts /\ CommandAt(w, i)

LEMMA EmptyWellFormed == WellFormed(<<>>)
BY DEF WellFormed

\* Whole commands after whole commands are whole commands.
LEMMA ConcatWellFormed ==
    ASSUME NEW a \in Seq(Tokens), NEW b \in Seq(Tokens), WellFormed(a), WellFormed(b)
    PROVE  WellFormed(a \o b)
<1> DEFINE w == a \o b
           n == Len(a)
           m == Len(b)
<1>1. /\ w \in Seq(Tokens) /\ Len(w) = n + m /\ n \in Nat /\ m \in Nat
      /\ \A i \in 1..n : w[i] = a[i]
      /\ \A i \in 1..m : w[n + i] = b[i]
  BY Joined
<1>2. a # <<>> => n > 0
  BY <1>1, EmptySeq
<1>3. b # <<>> => m > 0
  BY <1>1, EmptySeq
<1>4. a = <<>> => n = 0
  OBVIOUS
<1>5. b = <<>> => m = 0
  OBVIOUS
<1>6. w = <<>> => n + m = 0
  <2>1. w = <<>> => Len(w) = 0
    OBVIOUS
  <2> QED
    BY <1>1, <2>1
<1> HIDE DEF w
<1>7. ASSUME w # <<>> PROVE w[Len(w)] = LineEnd
  <2>1. w # <<>> => n + m > 0
    BY <1>1, EmptySeq
  <2>2. CASE m > 0
    <3>1. b[m] = LineEnd /\ m \in 1..m
      BY <1>1, <1>5, <2>2 DEF WellFormed
    <3> QED
      BY <1>1, <3>1
  <2>3. CASE m = 0
    <3>1. a[n] = LineEnd /\ n \in 1..n
      BY <1>1, <1>4, <1>7, <2>1, <2>3 DEF WellFormed
    <3> QED
      BY <1>1, <2>3, <3>1
  <2> QED
    BY <1>1, <2>2, <2>3
<1>8. ASSUME NEW i \in 1..Len(w), i = 1 \/ w[i - 1] = LineEnd
      PROVE  w[i] \in Starts /\ CommandAt(w, i)
  <2>1. CASE i <= n
    <3> HIDE DEF n, m
    <3>1. i \in 1..n /\ (i = 1 \/ i - 1 \in 1..n)
      BY <1>1, <2>1
    <3>2. i = 1 \/ a[i - 1] = LineEnd
      BY <1>1, <1>8, <3>1
    <3> USE DEF n
    <3>3. w[i] = a[i] /\ a[i] \in Starts /\ CommandAt(a, i)
      BY <1>1, <3>1, <3>2 DEF WellFormed
    <3>4. PICK j \in 1..n :
            /\ i < j /\ j <= i + CHUNK_SIZE + 1
            /\ a[j] = LineEnd
            /\ \A k \in 1..n : i < k /\ k < j => a[k] \in KeyTokens
            /\ a[i] = SendKeys \/ j = i + 1
      BY <3>3 DEF CommandAt
    <3> HIDE DEF n
    <3>5. j \in 1..Len(w) /\ w[j] = LineEnd
      BY <1>1, <3>4
    <3>6. ASSUME NEW k \in 1..Len(w), i < k, k < j PROVE w[k] \in KeyTokens
      <4>1. k \in 1..n
        BY <1>1, <3>4, <3>6
      <4> QED
        BY <1>1, <3>4, <3>6, <4>1
    <3> QED
      BY <3>3, <3>4, <3>5, <3>6 DEF CommandAt
  <2>2. CASE ~ i <= n
    <3> DEFINE x == i - n
    <3>1. x \in 1..m /\ i = n + x
      BY <1>1, <2>2
    <3>2. x = 1 \/ (x - 1 \in 1..m /\ i - 1 = n + (x - 1))
      BY <1>1, <3>1
    <3> HIDE DEF x, n, m
    <3>3. x = 1 \/ b[x - 1] = LineEnd
      BY <1>1, <1>8, <3>1, <3>2
    <3> USE DEF n, m
    <3>4. w[i] = b[x] /\ b[x] \in Starts /\ CommandAt(b, x)
      BY <1>1, <3>1, <3>3 DEF WellFormed
    <3>5. PICK j \in 1..m :
            /\ x < j /\ j <= x + CHUNK_SIZE + 1
            /\ b[j] = LineEnd
            /\ \A k \in 1..m : x < k /\ k < j => b[k] \in KeyTokens
            /\ b[x] = SendKeys \/ j = x + 1
      BY <3>4 DEF CommandAt
    <3> HIDE DEF n, m
    <3>6. n + j \in 1..Len(w) /\ w[n + j] = LineEnd
      BY <1>1, <3>5
    <3>7. ASSUME NEW k \in 1..Len(w), i < k, k < n + j PROVE w[k] \in KeyTokens
      <4>1. k - n \in 1..m /\ k = n + (k - n) /\ x < k - n /\ k - n < j
        BY <1>1, <3>1, <3>5, <3>7
      <4> QED
        BY <1>1, <3>5, <4>1
    <3>8. i < n + j /\ n + j <= i + CHUNK_SIZE + 1 /\ (w[i] = SendKeys \/ n + j = i + 1)
      BY <1>1, <3>1, <3>4, <3>5, InputAssumption
    <3> QED
      BY <3>4, <3>6, <3>7, <3>8 DEF CommandAt
  <2> QED
    BY <2>1, <2>2
<1> HIDE DEF n, m
<1>9. WellFormed(w)
  BY <1>7, <1>8 DEF WellFormed
<1> QED
  BY <1>9 DEF w

\* send-keys with at most CHUNK_SIZE keys is one.
LEMMA CommandWellFormed ==
    ASSUME NEW data \in Seq(0..255), Len(data) <= CHUNK_SIZE
    PROVE  Command(data) \in Seq(Tokens) /\ WellFormed(Command(data))
<1> DEFINE k == Keys(data)
           w == Command(data)
           n == Len(data)
<1>1. k \in Seq(KeyTokens) /\ Len(k) = n /\ n \in Nat /\ \A i \in 1..n : k[i] \in KeyTokens
  BY KeysType, LenProperties, ElementOfSeq
<1>2. /\ w \in Seq(Tokens) /\ Len(w) = n + 2
      /\ w[1] = SendKeys /\ w[n + 2] = LineEnd /\ \A i \in 2..n + 1 : w[i] = k[i - 1]
  <2> DEFINE a == <<SendKeys>>
             b == a \o k
             c == <<LineEnd>>
  <2>1. Len(a) = 1 /\ a[1] = SendKeys /\ Len(c) = 1 /\ c[1] = LineEnd
    OBVIOUS
  <2>2. a \in Seq(Tokens) /\ c \in Seq(Tokens)
    BY DEF Tokens, Starts
  <2>3. k \in Seq(Tokens)
    BY <1>1, SeqMonotonic DEF Tokens, PaneTokens
  <2>4. w = b \o c
    BY DEF Command
  <2> HIDE DEF a, c, k, n, w
  <2>5. /\ b \in Seq(Tokens) /\ Len(b) = Len(a) + Len(k)
        /\ \A i \in 1..Len(a) : b[i] = a[i]
        /\ \A i \in 1..Len(k) : b[Len(a) + i] = k[i]
    BY <2>2, <2>3, Joined
  <2>6. b \in Seq(Tokens)
    BY <2>5
  <2> HIDE DEF b
  <2>7. /\ w \in Seq(Tokens) /\ Len(w) = Len(b) + Len(c)
        /\ \A i \in 1..Len(b) : w[i] = b[i]
        /\ \A i \in 1..Len(c) : w[Len(b) + i] = c[i]
    BY <2>2, <2>6, <2>4, Joined
  <2>8. w \in Seq(Tokens) /\ Len(w) = n + 2 /\ Len(b) = n + 1
    BY <1>1, <2>1, <2>5, <2>7
  <2>9. w[1] = SendKeys
    <3>1. 1 \in 1..Len(a) /\ 1 \in 1..Len(b)
      BY <1>1, <2>1, <2>8
    <3> QED
      BY <2>1, <2>5, <2>7, <3>1
  <2>10. w[n + 2] = LineEnd
    <3>1. 1 \in 1..Len(c) /\ n + 2 = Len(b) + 1
      BY <1>1, <2>1, <2>8
    <3> QED
      BY <2>1, <2>7, <3>1
  <2>11. ASSUME NEW i \in 2..n + 1 PROVE w[i] = k[i - 1]
    <3>1. i \in 1..Len(b) /\ i - 1 \in 1..Len(k) /\ i = Len(a) + (i - 1)
      BY <1>1, <2>1, <2>8
    <3> QED
      BY <2>5, <2>7, <3>1
  <2> QED
    BY <2>8, <2>9, <2>10, <2>11
<1> HIDE DEF k, w, n
<1>3. w # <<>> /\ w[Len(w)] = LineEnd
  BY <1>1, <1>2
<1>4. ASSUME NEW i \in 1..Len(w), i = 1 \/ w[i - 1] = LineEnd
      PROVE  i = 1
  <2>1. CASE i = 2
    <3>1. w[1] = LineEnd
      BY <1>4, <2>1
    <3> QED
      BY <1>2, <3>1, KeysApart
  <2>2. CASE i > 2
    <3>1. i - 1 \in 2..n + 1 /\ (i - 1) - 1 \in 1..n
      BY <1>1, <1>2, <2>2
    <3>2. w[i - 1] \in KeyTokens
      BY <1>1, <1>2, <3>1
    <3> QED
      BY <1>4, <2>2, <3>2, KeysApart
  <2> QED
    BY <1>1, <1>2, <2>1, <2>2
<1>5. w[1] \in Starts /\ CommandAt(w, 1)
  <2>1. n + 2 \in 1..Len(w) /\ 1 < n + 2 /\ n + 2 <= 1 + CHUNK_SIZE + 1
    BY <1>1, <1>2, InputAssumption DEF n
  <2>2. ASSUME NEW j \in 1..Len(w), 1 < j, j < n + 2 PROVE w[j] \in KeyTokens
    <3>1. j \in 2..n + 1 /\ j - 1 \in 1..n
      BY <1>1, <1>2, <2>2
    <3> QED
      BY <1>1, <1>2, <3>1
  <2> QED
    BY <1>2, <2>1, <2>2 DEF CommandAt, Starts
<1>6. WellFormed(w)
  BY <1>3, <1>4, <1>5 DEF WellFormed
<1> QED
  BY <1>2, <1>6 DEF w

\* A size is one.
LEMMA ResizeWellFormed ==
    ASSUME NEW s \in AllSizes
    PROVE  encode_resize(s) \in Seq(Tokens) /\ WellFormed(encode_resize(s))
<1> DEFINE w == encode_resize(s)
<1>1. /\ w \in Seq(Tokens) /\ Len(w) = 2 /\ w[1] = Resize(s) /\ w[2] = LineEnd
      /\ Resize(s) \in Starts
  BY DEF encode_resize, Tokens, Starts
<1> HIDE DEF w
<1>2. w[1] # LineEnd
  BY <1>1, KeysApart
<1>3. CommandAt(w, 1)
  BY <1>1, InputAssumption DEF CommandAt
<1>4. WellFormed(w)
  BY <1>1, <1>2, <1>3 DEF WellFormed
<1> QED
  BY <1>1, <1>4 DEF w

-----------------------------------------------------------------------------
(* What the tokens amount to for the pane *)

\* What a token means for the pane, or for those who watch one kind only: the two
\* ends of a command are nothing, a command that resizes is a size.
Lanes ==
  {g \in [Tokens -> Seq(PaneTokens)] :
    /\ g[SendKeys] = <<>> /\ g[LineEnd] = <<>>
    /\ \A s \in AllSizes : g[Resize(s)] = g[Size(s)]}

LEMMA LaneType ==
    ASSUME NEW g \in Lanes
    PROVE  g \in [Tokens -> Seq(PaneTokens)]
BY DEF Lanes

\* A command means its keys,
LEMMA CommandFlat ==
    ASSUME NEW g \in Lanes, NEW data \in Seq(0..255)
    PROVE  Flat(g, Command(data)) = Flat(g, Keys(data))
<1> DEFINE k == Keys(data)
           a == <<SendKeys>>
           c == <<LineEnd>>
           b == a \o k
<1>1. g \in [Tokens -> Seq(PaneTokens)]
  BY LaneType
<1>2. SendKeys \in Tokens /\ LineEnd \in Tokens
  BY DEF Tokens, Starts
<1>3. a \in Seq(Tokens) /\ c \in Seq(Tokens)
  BY <1>2
<1>4. k \in Seq(Tokens)
  BY KeysType, SeqMonotonic DEF Tokens, PaneTokens
<1>5. Flat(g, a) = <<>> /\ Flat(g, c) = <<>>
  <2>1. Flat(g, a) = g[SendKeys]
    BY <1>1, <1>2, FlatOne
  <2>2. Flat(g, c) = g[LineEnd]
    BY <1>1, <1>2, FlatOne
  <2> QED
    BY <2>1, <2>2 DEF Lanes
<1>6. b \in Seq(Tokens)
  BY <1>3, <1>4, ConcatProperties
<1> DEFINE w == Command(data)
<1>7. w = b \o c
  BY DEF Command
<1>8. b = a \o k
  OBVIOUS
<1> HIDE DEF a, b, c, k, w
<1>9. Joins(g, b, a, k)
  BY <1>1, <1>3, <1>4, <1>8, FlatJoins
<1>10. Joins(g, w, b, c)
  BY <1>1, <1>3, <1>6, <1>7, FlatJoins
<1>11. Flat(g, k) \in Seq(PaneTokens)
  BY <1>1, <1>4, FlatType
<1>12. Flat(g, w) = Flat(g, k)
  <2> DEFINE x == Flat(g, k)
  <2>1. x \in Seq(PaneTokens) /\ Flat(g, w) = (<<>> \o x) \o <<>>
    BY <1>5, <1>9, <1>10, <1>11 DEF Joins
  <2> HIDE DEF x
  <2>2. <<>> \o x = x /\ x \o <<>> = x
    BY <2>1, ConcatEmptySeq
  <2> QED
    BY <2>1, <2>2 DEF x
<1> QED
  BY <1>12 DEF k, w

\* and refresh-client its size.
LEMMA ResizeFlat ==
    ASSUME NEW g \in Lanes, NEW s \in AllSizes
    PROVE  Flat(g, encode_resize(s)) = g[Size(s)]
<1> DEFINE a == <<Resize(s)>>
           e == LineEnd
<1>1. g \in [Tokens -> Seq(PaneTokens)]
  BY LaneType
<1>2. Resize(s) \in Tokens /\ e \in Tokens /\ Size(s) \in Tokens
  BY DEF Tokens, Starts, PaneTokens, SizeTokens
<1>3. a \in Seq(Tokens) /\ encode_resize(s) = Append(a, e)
  BY <1>2 DEF encode_resize
<1>4. Flat(g, a) = g[Resize(s)]
  BY <1>1, <1>2, FlatOne
<1> HIDE DEF a, e
<1>5. Flat(g, Append(a, e)) = Flat(g, a) \o g[e]
  BY <1>1, <1>2, <1>3, FlatAppend
<1>6. g[e] = <<>> /\ g[Resize(s)] = g[Size(s)]
  BY DEF Lanes, e
<1>7. Flat(g, Append(a, e)) = g[Size(s)] \o <<>>
  BY <1>4, <1>5, <1>6
<1>8. g[Size(s)] \in Seq(PaneTokens)
  BY <1>1, <1>2
<1>9. g[Size(s)] \o <<>> = g[Size(s)]
  BY <1>8, ConcatEmptySeq
<1> QED
  BY <1>3, <1>7, <1>9

-----------------------------------------------------------------------------
(* encode_input *)

\* How much of the input the first n chunks hold.
Upto(data, n) ==
  IF n = (Len(data) + CHUNK_SIZE - 1) \div CHUNK_SIZE THEN Len(data) ELSE n * CHUNK_SIZE

\* The chunks are not empty, not too large, and together they are the input.
LEMMA Chunks ==
    ASSUME NEW data \in Seq(0..255), data # <<>>
    PROVE  LET chunks == (Len(data) + CHUNK_SIZE - 1) \div CHUNK_SIZE
           IN /\ chunks \in Nat /\ chunks > 0
              /\ Upto(data, 0) = 0 /\ Upto(data, chunks) = Len(data)
              /\ \A n \in Nat : n < chunks =>
                   /\ Upto(data, n) = n * CHUNK_SIZE
                   /\ Upto(data, n) \in 0..Len(data)
                   /\ Upto(data, n + 1) \in Upto(data, n)..Len(data)
                   /\ Upto(data, n + 1) - Upto(data, n) <= CHUNK_SIZE
<1> DEFINE L == Len(data)
           K == CHUNK_SIZE
           q == (L + K - 1) \div K
<1>1. L \in Nat /\ L > 0 /\ K \in Nat /\ K > 0
  BY InputAssumption, EmptySeq
<1> HIDE DEF L, K
<1>2. q \in Nat /\ q * K <= L + K - 1 /\ L + K - 1 < q * K + K
  BY <1>1
<1> DEFINE U(n) == IF n = q THEN L ELSE n * K
<1>3. \A n : Upto(data, n) = U(n)
  BY DEF Upto, L, K
<1> HIDE DEF q
<1>4. q # 0
  <2>1. q = 0 => q * K = 0
    BY <1>1
  <2> QED
    BY <1>1, <1>2, <2>1
<1>5. ASSUME NEW n \in Nat, n < q
      PROVE  /\ U(n) = n * K /\ n * K \in 0..L
             /\ U(n + 1) \in n * K..L /\ U(n + 1) - n * K <= K
  <2>1. n * K \in Nat /\ (n + 1) * K = n * K + K /\ n # q
    BY <1>1, <1>5
  <2>2. n * K + K <= q * K
    <3> DEFINE d == q - (n + 1)
    <3>1. d \in Nat /\ q = (n + 1) + d
      BY <1>2, <1>5
    <3> HIDE DEF d
    <3>2. q * K = (n + 1) * K + d * K
      BY <1>1, <3>1
    <3>3. d * K \in Nat
      BY <1>1, <3>1
    <3>4. q * K \in Nat
      BY <1>1, <1>2
    <3> QED
      BY <1>1, <2>1, <3>2, <3>3, <3>4
  <2>3. q * K \in Nat
    BY <1>1, <1>2
  <2>4. n * K < L
    BY <1>1, <1>2, <2>1, <2>2, <2>3
  <2>5. CASE n + 1 = q
    <3>1. U(n + 1) = L
      BY <2>5
    <3> HIDE DEF U
    <3>2. q * K = n * K + K
      BY <2>1, <2>5
    <3>3. L <= q * K
      BY <1>1, <1>2, <2>3
    <3>4. L - n * K <= K
      BY <1>1, <2>1, <3>2, <3>3
    <3>5. n * K \in 0..L /\ L \in n * K..L
      BY <1>1, <2>1, <2>4
    <3>6. U(n) = n * K
      BY <2>1 DEF U
    <3> QED
      BY <3>1, <3>4, <3>5, <3>6
  <2>6. CASE n + 1 # q
    <3>1. (n + 1) + 1 <= q
      BY <1>2, <1>5, <2>6
    <3>2. ((n + 1) + 1) * K <= q * K
      <4> DEFINE d == q - ((n + 1) + 1)
      <4>1. d \in Nat /\ q = ((n + 1) + 1) + d
        BY <1>2, <3>1
      <4> HIDE DEF d
      <4>2. q * K = ((n + 1) + 1) * K + d * K
        BY <1>1, <4>1
      <4>3. d * K \in Nat /\ ((n + 1) + 1) * K \in Nat
        BY <1>1, <4>1
      <4> QED
        BY <2>3, <4>2, <4>3
    <3>3. ((n + 1) + 1) * K = n * K + K + K
      BY <1>1
    <3>4. U(n + 1) = n * K + K
      BY <2>1, <2>6
    <3> QED
      BY <1>1, <1>2, <2>1, <2>3, <2>4, <3>2, <3>3, <3>4
  <2> QED
    BY <2>1, <2>4, <2>5, <2>6, <1>1
<1>6. U(0) = 0 /\ U(q) = L
  BY <1>1, <1>4
<1> HIDE DEF U
<1> QED
  BY <1>2, <1>3, <1>4, <1>5, <1>6 DEF L, K, q

\* Keys of a concatenation.
LEMMA KeysConcat ==
    ASSUME NEW a \in Seq(0..255), NEW b \in Seq(0..255), NEW w, w = a \o b
    PROVE  Keys(w) = Keys(a) \o Keys(b)
<1>1. /\ w \in Seq(0..255)
      /\ Len(a) \in Nat /\ Len(b) \in Nat /\ Len(w) = Len(a) + Len(b)
      /\ \A i \in 1..Len(a) : w[i] = a[i]
      /\ \A i \in 1..Len(b) : w[Len(a) + i] = b[i]
  BY Joined
<1> DEFINE x == Keys(a)
           y == Keys(b)
           z == Keys(w)
           u == x \o y
<1>2. /\ x \in Seq(KeyTokens) /\ Len(x) = Len(a)
      /\ y \in Seq(KeyTokens) /\ Len(y) = Len(b)
      /\ z \in Seq(KeyTokens) /\ Len(z) = Len(w)
  BY <1>1, KeysType
<1>3. /\ \A i \in 1..Len(a) : x[i] = Key(a[i])
      /\ \A i \in 1..Len(b) : y[i] = Key(b[i])
      /\ \A i \in 1..Len(w) : z[i] = Key(w[i])
  BY <1>1, LenProperties DEF Keys
<1>4. u = x \o y
  OBVIOUS
<1> HIDE DEF x, y, z, u
<1>5. x \in Seq(KeyTokens) /\ y \in Seq(KeyTokens)
  BY <1>2
<1>6. /\ u \in Seq(KeyTokens)
      /\ Len(u) = Len(x) + Len(y)
      /\ \A i \in 1..Len(x) : u[i] = x[i]
      /\ \A i \in 1..Len(y) : u[Len(x) + i] = y[i]
  BY <1>5, <1>4, Joined
<1>7. ASSUME NEW i \in 1..Len(z) PROVE z[i] = u[i]
  <2>1. CASE i <= Len(a)
    <3>1. i \in 1..Len(a) /\ i \in 1..Len(w)
      BY <1>1, <1>2, <2>1
    <3> QED
      BY <1>1, <1>2, <1>3, <1>6, <3>1
  <2>2. CASE ~ i <= Len(a)
    <3> DEFINE j == i - Len(a)
    <3>1. j \in 1..Len(b) /\ i = Len(a) + j /\ i \in 1..Len(w)
      BY <1>1, <1>2, <2>2
    <3> HIDE DEF j
    <3>2. z[i] = Key(b[j])
      BY <1>1, <1>3, <3>1
    <3>3. u[i] = y[j] /\ y[j] = Key(b[j])
      BY <1>2, <1>3, <1>6, <3>1
    <3> QED
      BY <3>2, <3>3
  <2> QED
    BY <2>1, <2>2
<1>8. Len(z) = Len(u)
  BY <1>1, <1>2, <1>6
<1>9. z = u
  BY <1>2, <1>6, <1>7, <1>8, SeqEqual
<1> QED
  BY <1>9 DEF x, y, z, u

\* What the wire may hold for data: whole commands that mean data.
Stands(w, data) ==
  /\ w \in Seq(Tokens)
  /\ WellFormed(w)
  /\ \A g \in Lanes : Flat(g, w) = Flat(g, Keys(data))

LEMMA CommandStands ==
    ASSUME NEW data \in Seq(0..255), Len(data) <= CHUNK_SIZE
    PROVE  Stands(Command(data), data)
BY CommandWellFormed, CommandFlat DEF Stands

\* Commands one after the other mean what they mean one after the other.
LEMMA StandsConcat ==
    ASSUME NEW a \in Seq(0..255), NEW b \in Seq(0..255), NEW v, NEW w,
           Stands(v, a), Stands(w, b), NEW c, c = a \o b, NEW u, u = v \o w
    PROVE  Stands(u, c)
<1>1. v \in Seq(Tokens) /\ w \in Seq(Tokens) /\ WellFormed(v) /\ WellFormed(w)
  BY DEF Stands
<1>2. u \in Seq(Tokens)
  BY <1>1, ConcatProperties
<1>3. WellFormed(u)
  BY <1>1, ConcatWellFormed
<1>4. ASSUME NEW g \in Lanes PROVE Flat(g, u) = Flat(g, Keys(c))
  <2> DEFINE x == Keys(a)
             y == Keys(b)
             z == Keys(c)
  <2>1. x \in Seq(Tokens) /\ y \in Seq(Tokens)
    BY KeysType, SeqMonotonic DEF Tokens, PaneTokens
  <2>2. z = x \o y
    BY KeysConcat
  <2>3. Flat(g, v) = Flat(g, x) /\ Flat(g, w) = Flat(g, y)
    BY DEF Stands
  <2>4. g \in [Tokens -> Seq(PaneTokens)]
    BY LaneType
  <2> HIDE DEF x, y, z
  <2>5. Joins(g, z, x, y)
    BY <2>1, <2>2, <2>4, FlatJoins
  <2>6. v \in Seq(Tokens) /\ w \in Seq(Tokens)
    BY <1>1
  <2>7. Joins(g, u, v, w)
    BY <2>4, <2>6, FlatJoins
  <2>8. Flat(g, u) = Flat(g, z)
    BY <2>3, <2>5, <2>7 DEF Joins
  <2> QED
    BY <2>8 DEF z
<1> QED
  BY <1>2, <1>3, <1>4 DEF Stands

\* encode_input in src/tmux_cc.rs, for every sequence of bytes: its commands are
\* whole, none of them is too long, and together they are the keys of the input,
\* each once and in order.
THEOREM EncodeInput ==
    ASSUME NEW data \in Seq(0..255)
    PROVE  Stands(encode_input(data), data)
<1>1. CASE data = <<>>
  <2>1. encode_input(data) = Command(data)
    BY <1>1 DEF encode_input
  <2>2. Len(data) <= CHUNK_SIZE
    BY <1>1, InputAssumption
  <2> QED
    BY <2>1, <2>2, CommandStands
<1>2. CASE data # <<>>
  <2> DEFINE q == (Len(data) + CHUNK_SIZE - 1) \div CHUNK_SIZE
             U(n) == Upto(data, n)
             piece(n) == SubSeq(data, (n - 1) * CHUNK_SIZE + 1, U(n))
             F(n) == FlattenSeq([c \in 1..n |-> Command(piece(c))])
             sofar(n) == SubSeq(data, 1, U(n))
             N == {n \in Nat : n <= q => Stands(F(n), sofar(n))}
  <2>1. /\ q \in Nat /\ q > 0
        /\ U(0) = 0 /\ U(q) = Len(data)
        /\ \A n \in Nat : n < q =>
             /\ U(n) = n * CHUNK_SIZE
             /\ U(n) \in 0..Len(data)
             /\ U(n + 1) \in U(n)..Len(data)
             /\ U(n + 1) - U(n) <= CHUNK_SIZE
    BY <1>2, Chunks
  <2>2. encode_input(data) = F(q)
    BY <1>2 DEF encode_input, Upto
  <2>3. Len(data) \in Nat /\ SubSeq(data, 1, Len(data)) = data
    BY LenProperties, SubSeqFull
  <2>4. \A i \in 1..Len(data) : data[i] \in 0..255
    BY ElementOfSeq
  <2>5. ASSUME NEW n \in Nat, n < q
        PROVE  /\ piece(n + 1) = SubSeq(data, U(n) + 1, U(n + 1))
               /\ piece(n + 1) \in Seq(0..255) /\ Len(piece(n + 1)) <= CHUNK_SIZE
    <3> DEFINE x == U(n)
               y == U(n + 1)
    <3>1. x = n * CHUNK_SIZE /\ x \in 0..Len(data) /\ y \in x..Len(data) /\ y - x <= CHUNK_SIZE
      BY <2>1, <2>5
    <3>2. piece(n + 1) = SubSeq(data, x + 1, y)
      BY <3>1
    <3> HIDE DEF x, y
    <3>3. x + 1 \in Int /\ y \in Int /\ \A i \in x + 1..y : data[i] \in 0..255
      <4>1. \A i \in x + 1..y : i \in 1..Len(data)
        BY <2>3, <3>1
      <4>2. x + 1 \in Int /\ y \in Int
        BY <2>3, <3>1
      <4> QED
        BY <2>4, <4>1, <4>2
    <3>4. /\ SubSeq(data, x + 1, y) \in Seq(0..255)
          /\ Len(SubSeq(data, x + 1, y)) = IF x + 1 <= y THEN y - (x + 1) + 1 ELSE 0
      BY <3>3, SubSeqProperties
    <3>5. Len(SubSeq(data, x + 1, y)) <= CHUNK_SIZE
      BY <2>3, <3>1, <3>4, InputAssumption
    <3> QED
      BY <3>2, <3>4, <3>5 DEF x, y
  <2>6. ASSUME NEW c \in 1..q PROVE Command(piece(c)) \in Seq(Tokens)
    <3> DEFINE n == c - 1
    <3>1. n \in Nat /\ n < q /\ n + 1 = c
      BY <2>1
    <3> HIDE DEF n
    <3>2. piece(n + 1) \in Seq(0..255) /\ Len(piece(n + 1)) <= CHUNK_SIZE
      BY <2>5, <3>1
    <3> HIDE DEF piece
    <3> QED
      BY <3>1, <3>2, CommandWellFormed
  <2>7. 0 \in N
    <3>1. F(0) = <<>>
      <4>1. [c \in 1..0 |-> Command(piece(c))] = <<>>
        OBVIOUS
      <4> QED
        BY <4>1, FlattenEmpty
    <3>2. sofar(0) = <<>>
      BY <2>1
    <3>3. Keys(<<>>) = <<>>
      BY DEF Keys
    <3>4. Stands(<<>>, <<>>)
      BY <3>3, EmptyWellFormed, EmptySeq DEF Stands
    <3> QED
      BY <3>1, <3>2, <3>4
  <2>8. ASSUME NEW n \in N PROVE n + 1 \in N
    <3> SUFFICES ASSUME n + 1 <= q PROVE Stands(F(n + 1), sofar(n + 1))
      OBVIOUS
    <3>1. n \in Nat /\ n < q /\ Stands(F(n), sofar(n))
      BY <2>1
    <3> DEFINE p == piece(n + 1)
    <3>2. /\ p = SubSeq(data, U(n) + 1, U(n + 1))
          /\ p \in Seq(0..255) /\ Len(p) <= CHUNK_SIZE
      BY <2>5, <3>1
    <3>3. sofar(n) \in Seq(0..255) /\ sofar(n + 1) = sofar(n) \o p
      <4> DEFINE x == U(n)
                 y == U(n + 1)
      <4>1. x \in 0..Len(data) /\ y \in x..Len(data) /\ p = SubSeq(data, x + 1, y)
        BY <2>1, <3>1, <3>2
      <4> HIDE DEF x, y, p
      <4>2. 1 \in 1..Len(data) + 1 /\ x \in 1 - 1..Len(data) /\ y \in x..Len(data)
        BY <2>3, <4>1
      <4>3. SubSeq(data, 1, x) \o SubSeq(data, x + 1, y) = SubSeq(data, 1, y)
        BY <4>2, ConcatAdjacentSubSeq
      <4>4. x \in Int /\ \A i \in 1..x : data[i] \in 0..255
        BY <2>3, <2>4, <4>1
      <4>5. SubSeq(data, 1, x) \in Seq(0..255)
        BY <4>4, SubSeqProperties
      <4> QED
        BY <4>1, <4>3, <4>5 DEF x, y
    <3>4. F(n + 1) = F(n) \o Command(p)
      <4> DEFINE s == [c \in 1..n |-> Command(piece(c))]
                 t == [c \in 1..n + 1 |-> Command(piece(c))]
                 e == Command(p)
      <4>1. \A c \in 1..n : c \in 1..q
        BY <2>1, <3>1
      <4>2. s \in Seq(Seq(Tokens)) /\ Len(s) = n
        BY <2>6, <3>1, <4>1
      <4>3. e \in Seq(Tokens)
        BY <3>2, CommandWellFormed
      <4>4. t = Append(s, e)
        <5>1. \A c \in 1..n + 1 : c \in 1..q
          BY <2>1, <3>1
        <5>2. t \in Seq(Seq(Tokens)) /\ Len(t) = n + 1
          BY <2>6, <3>1, <5>1
        <5>3. t[n + 1] = e
          BY <3>1
        <5>4. \A c \in 1..n : t[c] = s[c]
          BY <3>1
        <5> HIDE DEF p, e, s, t
        <5> QED
          BY <4>2, <4>3, <5>2, <5>3, <5>4, ExtendedByOne
      <4> HIDE DEF s, t, e, p
      <4>5. FlattenSeq(Append(s, e)) = FlattenSeq(s) \o e
        BY <4>2, <4>3, FlattenAppend
      <4> QED
        BY <4>4, <4>5 DEF s, t, e
    <3>5. Stands(Command(p), p)
      BY <3>2, CommandStands
    <3> HIDE DEF F, sofar, p
    <3> QED
      BY <3>1, <3>2, <3>3, <3>4, <3>5, StandsConcat
  <2> HIDE DEF N
  <2>9. N = Nat
    BY <2>7, <2>8, SetInduct DEF N
  <2>10. Stands(F(q), sofar(q))
    BY <2>1, <2>9 DEF N
  <2>11. sofar(q) = data
    BY <2>1, <2>3
  <2> QED
    BY <2>2, <2>10, <2>11
<1> QED
  BY <1>1, <1>2

-----------------------------------------------------------------------------
(* What arrived, what is on the wire and what waits add up *)

\* To those who watch g, a and then w and then j are t.
Adds(g, a, w, j, t) == (Flat(g, a) \o Flat(g, w)) \o Flat(g, j) = Flat(g, t)

LEMMA LaneFlatType ==
    ASSUME NEW g \in Lanes, NEW s \in Seq(Tokens)
    PROVE  Flat(g, s) \in Seq(PaneTokens)
BY LaneType, FlatType

\* A message q is sent and waits.
LEMMA AddsSent ==
    ASSUME NEW g \in Lanes, NEW a \in Seq(Tokens), NEW w \in Seq(Tokens), NEW j \in Seq(Tokens),
           NEW t \in Seq(Tokens), NEW q \in Seq(Tokens), Adds(g, a, w, j, t),
           NEW jj, jj = j \o q, NEW tt, tt = t \o q
    PROVE  Adds(g, a, w, jj, tt)
<1> DEFINE A == Flat(g, a)
           W == Flat(g, w)
           J == Flat(g, j)
           Q == Flat(g, q)
<1>1. g \in [Tokens -> Seq(PaneTokens)]
  BY LaneType
<1>2. Joins(g, jj, j, q)
  BY <1>1, FlatJoins
<1>3. Joins(g, tt, t, q)
  BY <1>1, FlatJoins
<1>4. A \in Seq(PaneTokens) /\ W \in Seq(PaneTokens) /\ J \in Seq(PaneTokens) /\ Q \in Seq(PaneTokens)
  BY LaneFlatType
<1>5. Flat(g, jj) = J \o Q /\ Flat(g, tt) = ((A \o W) \o J) \o Q
  BY <1>2, <1>3 DEF Joins, Adds
<1>6. Adds(g, a, w, jj, tt) <=> (A \o W) \o (J \o Q) = ((A \o W) \o J) \o Q
  BY <1>5 DEF Adds
<1> HIDE DEF A, W, J, Q
<1>7. Regroups4(A, W, J, Q)
  BY <1>4, Regrouped4
<1> QED
  BY <1>6, <1>7 DEF Regroups4

\* It is received, and e, which means the same, is put on the wire.
LEMMA AddsReceived ==
    ASSUME NEW g \in Lanes, NEW a \in Seq(Tokens), NEW w \in Seq(Tokens), NEW j, NEW t,
           NEW q \in Seq(Tokens), NEW jj \in Seq(Tokens), NEW e \in Seq(Tokens),
           Adds(g, a, w, j, t), j = q \o jj, NEW ww, ww = w \o e, Flat(g, e) = Flat(g, q)
    PROVE  Adds(g, a, ww, jj, t)
<1> DEFINE A == Flat(g, a)
           W == Flat(g, w)
           J == Flat(g, jj)
           Q == Flat(g, q)
<1>1. g \in [Tokens -> Seq(PaneTokens)]
  BY LaneType
<1>2. Joins(g, j, q, jj)
  BY <1>1, FlatJoins
<1>3. Joins(g, ww, w, e)
  BY <1>1, FlatJoins
<1>4. A \in Seq(PaneTokens) /\ W \in Seq(PaneTokens) /\ J \in Seq(PaneTokens) /\ Q \in Seq(PaneTokens)
  BY LaneFlatType
<1>5. Flat(g, t) = (A \o W) \o (Q \o J) /\ Flat(g, ww) = W \o Q
  BY <1>2, <1>3 DEF Joins, Adds
<1>6. Adds(g, a, ww, jj, t) <=> (A \o (W \o Q)) \o J = (A \o W) \o (Q \o J)
  BY <1>5 DEF Adds
<1> HIDE DEF A, W, J, Q
<1>7. Regroups4(A, W, Q, J)
  BY <1>4, Regrouped4
<1> QED
  BY <1>6, <1>7 DEF Regroups4

\* What overtakes the wire, when one of the two is nothing to those who watch.
LEMMA AddsOvertaken ==
    ASSUME NEW g \in Lanes, NEW a \in Seq(Tokens), NEW w \in Seq(Tokens), NEW j, NEW t,
           NEW q \in Seq(Tokens), NEW jj \in Seq(Tokens),
           Adds(g, a, w, j, t), j = q \o jj, NEW aa, aa = a \o q,
           Flat(g, w) = <<>> \/ Flat(g, q) = <<>>
    PROVE  Adds(g, aa, w, jj, t)
<1> DEFINE A == Flat(g, a)
           W == Flat(g, w)
           J == Flat(g, jj)
           Q == Flat(g, q)
<1>1. g \in [Tokens -> Seq(PaneTokens)]
  BY LaneType
<1>2. Joins(g, j, q, jj)
  BY <1>1, FlatJoins
<1>3. Joins(g, aa, a, q)
  BY <1>1, FlatJoins
<1>4. A \in Seq(PaneTokens) /\ W \in Seq(PaneTokens) /\ J \in Seq(PaneTokens) /\ Q \in Seq(PaneTokens)
  BY LaneFlatType
<1>5. Flat(g, t) = (A \o W) \o (Q \o J) /\ Flat(g, aa) = A \o Q /\ (W = <<>> \/ Q = <<>>)
  BY <1>2, <1>3 DEF Joins, Adds
<1>6. Adds(g, aa, w, jj, t) <=> ((A \o Q) \o W) \o J = (A \o W) \o (Q \o J)
  BY <1>5 DEF Adds
<1> HIDE DEF A, W, J, Q
<1>7. Regroups4(A, W, Q, J)
  BY <1>4, Regrouped4
<1>8. A \o <<>> = A /\ (A \o Q) \in Seq(PaneTokens) /\ (A \o W) \in Seq(PaneTokens)
  BY <1>4, ConcatEmptySeq, ConcatProperties
<1>9. (A \o Q) \o <<>> = A \o Q /\ (A \o W) \o <<>> = A \o W
  BY <1>8, ConcatEmptySeq
<1>10. (A \o Q) \o W = (A \o W) \o Q
  BY <1>5, <1>8, <1>9
<1> QED
  BY <1>6, <1>7, <1>10 DEF Regroups4

\* What comes first on the wire arrives.
LEMMA AddsTaken ==
    ASSUME NEW g \in Lanes, NEW a \in Seq(Tokens), NEW w, NEW j \in Seq(Tokens), NEW t,
           NEW q \in Seq(Tokens), NEW e \in Seq(Tokens), NEW ww \in Seq(Tokens),
           Adds(g, a, w, j, t), w = e \o ww, NEW aa, aa = a \o q, Flat(g, e) = Flat(g, q)
    PROVE  Adds(g, aa, ww, j, t)
<1> DEFINE A == Flat(g, a)
           W == Flat(g, ww)
           Q == Flat(g, q)
<1>1. g \in [Tokens -> Seq(PaneTokens)]
  BY LaneType
<1>2. Joins(g, w, e, ww)
  BY <1>1, FlatJoins
<1>3. Joins(g, aa, a, q)
  BY <1>1, FlatJoins
<1>4. A \in Seq(PaneTokens) /\ W \in Seq(PaneTokens) /\ Q \in Seq(PaneTokens)
  BY LaneFlatType
<1>5. Flat(g, w) = Q \o W /\ Flat(g, aa) = A \o Q
  BY <1>2, <1>3 DEF Joins
<1>6. (A \o (Q \o W)) \o Flat(g, j) = Flat(g, t)
  BY <1>5 DEF Adds
<1>7. Adds(g, aa, ww, j, t) <=> ((A \o Q) \o W) \o Flat(g, j) = Flat(g, t)
  BY <1>5 DEF Adds
<1> HIDE DEF A, W, Q
<1>8. Regroups(A, Q, W)
  BY <1>4, Regrouped
<1> QED
  BY <1>6, <1>7, <1>8 DEF Regroups

-----------------------------------------------------------------------------
(* The invariant of the input path *)

\* What is between the writer and the pane; before the writer starts, the size of
\* the request.
Wire == IF writer = "none" THEN <<Size(FirstSize)>> ELSE (line \o pty) \o rest

\* What the messages that the writer has not received mean.
Waiting == Flat(Meaning, inbox)

\* s is the end of t.
Ends(s, t) ==
  /\ Len(s) <= Len(t)
  /\ \A i \in 1..Len(s) : s[i] = t[Len(t) - Len(s) + i]

InputShape ==
  /\ mode \in {"control", "direct"}
  /\ typed \in Seq(Messages) /\ Len(typed) <= MaxTyped + 1
  /\ inbox \in Seq(Messages) /\ Ends(inbox, typed)
  /\ rest \in Seq(Tokens) /\ (rest # <<>> => writer # "recv")
  /\ pty \in Seq(Tokens) /\ Len(pty) <= Room
  /\ line \in Seq(Tokens \ {LineEnd})
  /\ arrived \in Seq(PaneTokens)
  /\ writer = "none" => line = <<>> /\ pty = <<>> /\ rest = <<>> /\ arrived = <<>>

\* The command tmux is reading is one of those that are on the wire.
WireShape ==
  /\ mode = "control" => WellFormed((line \o pty) \o rest)
  /\ mode = "direct" => line = <<>> /\ pty \in Seq(KeyTokens) /\ rest \in Seq(KeyTokens)

\* Those who watch everything, in control mode; in direct mode a size overtakes
\* the keys, and only those who do not watch both see everything in its order.
LanesHere ==
  {g \in Lanes : mode = "direct" =>
    \/ \A t \in KeyTokens : g[t] = <<>>
    \/ \A t \in SizeTokens : g[t] = <<>>}

Balanced == \A g \in LanesHere : Adds(g, arrived, Wire, Waiting, Sent)

InputInv == InputShape /\ WireShape /\ Balanced

SentBy(t) ==
  FlattenSeq([i \in DOMAIN t |->
    IF t[i].type = "input" THEN Keys(t[i].data) ELSE <<Size(t[i].size)>>])

\* Sent in terms of Meaning.
LEMMA SentIsFlat ==
    ASSUME NEW t \in Seq(Messages)
    PROVE  SentBy(t) = Flat(Meaning, t)
<1>1. DOMAIN t = 1..Len(t) /\ \A i \in 1..Len(t) : t[i] \in Messages
  BY LenProperties, ElementOfSeq
<1>2. \A i \in DOMAIN t : Meaning[t[i]] =
        IF t[i].type = "input" THEN Keys(t[i].data) ELSE <<Size(t[i].size)>>
  BY <1>1 DEF Meaning
<1>3. [i \in DOMAIN t |-> Meaning[t[i]]] =
      [i \in DOMAIN t |->
        IF t[i].type = "input" THEN Keys(t[i].data) ELSE <<Size(t[i].size)>>]
  BY <1>2
<1> QED
  BY <1>3 DEF SentBy, Flat

\* Everything that adds up is a sequence of tokens.
LEMMA InputTypes ==
    ASSUME InputShape
    PROVE  /\ arrived \in Seq(Tokens) /\ line \in Seq(Tokens)
           /\ Wire \in Seq(Tokens) /\ (line \o pty) \o rest \in Seq(Tokens)
           /\ Waiting \in Seq(Tokens) /\ Sent \in Seq(Tokens)
           /\ Waiting \in Seq(PaneTokens) /\ Sent \in Seq(PaneTokens)
<1>1. Seq(PaneTokens) \subseteq Seq(Tokens) /\ Seq(Tokens \ {LineEnd}) \subseteq Seq(Tokens)
  BY SeqMonotonic DEF Tokens
<1>2. arrived \in Seq(Tokens) /\ line \in Seq(Tokens) /\ pty \in Seq(Tokens) /\ rest \in Seq(Tokens)
  BY <1>1 DEF InputShape
<1>3. (line \o pty) \o rest \in Seq(Tokens)
  BY <1>2, ConcatProperties
<1>4. <<Size(FirstSize)>> \in Seq(Tokens)
  BY DEF Tokens, PaneTokens, SizeTokens, AllSizes
<1>5. Wire \in Seq(Tokens)
  BY <1>3, <1>4 DEF Wire
<1>6. Waiting \in Seq(PaneTokens) /\ Flat(Meaning, typed) \in Seq(PaneTokens)
  BY MeaningType, FlatType DEF Waiting, InputShape
<1>7. Sent = Flat(Meaning, typed)
  <2>1. Sent = SentBy(typed)
    BY DEF Sent, SentBy
  <2> QED
    BY <2>1, SentIsFlat DEF InputShape
<1> QED
  BY <1>1, <1>2, <1>3, <1>5, <1>6, <1>7

\* Both get longer by the same message,
LEMMA EndsAppend ==
    ASSUME NEW S, NEW s \in Seq(S), NEW t \in Seq(S), NEW e \in S, Ends(s, t),
           NEW ss, ss = Append(s, e), NEW tt, tt = Append(t, e)
    PROVE  Ends(ss, tt)
<1>1. /\ Len(ss) = Len(s) + 1 /\ ss[Len(s) + 1] = e /\ \A i \in 1..Len(s) : ss[i] = s[i]
      /\ Len(tt) = Len(t) + 1 /\ tt[Len(t) + 1] = e /\ \A i \in 1..Len(t) : tt[i] = t[i]
  BY AppendProperties
<1>2. Len(s) \in Nat /\ Len(t) \in Nat /\ Len(s) <= Len(t)
      /\ \A i \in 1..Len(s) : s[i] = t[Len(t) - Len(s) + i]
  BY LenProperties DEF Ends
<1> DEFINE n == Len(s)
           m == Len(t)
<1> HIDE DEF n, m
<1>3. ASSUME NEW i \in 1..n + 1 PROVE ss[i] = tt[(m + 1) - (n + 1) + i]
  <2>1. CASE i = n + 1
    <3>1. (m + 1) - (n + 1) + i = m + 1
      BY <1>2, <2>1 DEF n, m
    <3> QED
      BY <1>1, <2>1, <3>1 DEF n, m
  <2>2. CASE i # n + 1
    <3>1. i \in 1..n /\ (m + 1) - (n + 1) + i = m - n + i /\ m - n + i \in 1..m
      BY <1>2, <2>2 DEF n, m
    <3> QED
      BY <1>1, <1>2, <3>1 DEF n, m
  <2> QED
    BY <2>1, <2>2
<1>4. Len(ss) = n + 1 /\ Len(tt) = m + 1 /\ n + 1 <= m + 1
  BY <1>1, <1>2 DEF n, m
<1> QED
  BY <1>3, <1>4 DEF Ends

\* or the first loses its head.
LEMMA EndsTail ==
    ASSUME NEW S, NEW s \in Seq(S), NEW t \in Seq(S), s # <<>>, Ends(s, t)
    PROVE  Ends(Tail(s), t)
<1> DEFINE u == Tail(s)
<1>1. Len(u) = Len(s) - 1 /\ \A i \in 1..Len(u) : u[i] = s[i + 1]
  BY HeadTailProperties
<1>2. Len(s) \in Nat /\ Len(s) > 0 /\ Len(t) \in Nat /\ Len(s) <= Len(t)
      /\ \A i \in 1..Len(s) : s[i] = t[Len(t) - Len(s) + i]
  BY LenProperties, EmptySeq DEF Ends
<1> HIDE DEF u
<1>3. ASSUME NEW i \in 1..Len(u) PROVE u[i] = t[Len(t) - Len(u) + i]
  <2>1. i + 1 \in 1..Len(s) /\ Len(t) - Len(s) + (i + 1) = Len(t) - Len(u) + i
    BY <1>1, <1>2
  <2> QED
    BY <1>1, <1>2, <2>1
<1>4. Len(u) <= Len(t)
  BY <1>1, <1>2
<1> QED
  BY <1>3, <1>4 DEF Ends, u

\* tmux has a line that is not too long: it is the start of a command.
LEMMA LineBounded ==
    ASSUME NEW w \in Seq(Tokens), WellFormed(w), NEW l \in Seq(Tokens \ {LineEnd}),
           NEW r \in Seq(Tokens), w = l \o r
    PROVE  Len(l) <= CHUNK_SIZE + 1
<1>1. l \in Seq(Tokens)
  BY SeqMonotonic
<1>2. /\ Len(l) \in Nat /\ Len(r) \in Nat /\ Len(w) = Len(l) + Len(r)
      /\ \A i \in 1..Len(l) : w[i] = l[i]
  BY <1>1, Joined
<1>3. \A i \in 1..Len(l) : l[i] # LineEnd
  BY ElementOfSeq
<1>4. CASE Len(l) = 0
  BY <1>4, InputAssumption
<1>5. CASE Len(l) # 0
  <2>1. 1 \in 1..Len(w)
    BY <1>2, <1>5
  <2>2. CommandAt(w, 1)
    BY <2>1 DEF WellFormed
  <2>3. PICK j \in 1..Len(w) : j <= 1 + CHUNK_SIZE + 1 /\ w[j] = LineEnd
    BY <2>2 DEF CommandAt
  <2>4. j \notin 1..Len(l)
    BY <1>2, <1>3, <2>3
  <2> QED
    BY <1>2, <2>3, <2>4, InputAssumption
<1> QED
  BY <1>4, <1>5

\* The line that ends first is a command, and what follows it is well-formed.
LEMMA FirstLine ==
    ASSUME NEW w \in Seq(Tokens), WellFormed(w), NEW l \in Seq(Tokens \ {LineEnd}),
           NEW e \in Seq(Tokens), e = Append(l, LineEnd),
           NEW r \in Seq(Tokens), w = e \o r
    PROVE  /\ WellFormed(r)
           /\ l # <<>>
           /\ \/ l[1] = SendKeys /\ Tail(l) \in Seq(KeyTokens)
              \/ Len(l) = 1 /\ \E s \in AllSizes : l[1] = Resize(s)
<1> DEFINE n == Len(l)
           m == Len(r)
<1>1. /\ Len(e) \in Nat /\ m \in Nat /\ Len(w) = Len(e) + m
      /\ \A i \in 1..Len(e) : w[i] = e[i]
      /\ \A i \in 1..m : w[Len(e) + i] = r[i]
  BY Joined
<1>2. l \in Seq(Tokens) /\ LineEnd \in Tokens
  BY SeqMonotonic DEF Tokens
<1>3. Len(e) = n + 1 /\ e[n + 1] = LineEnd /\ \A i \in 1..n : e[i] = l[i]
  BY <1>2, AppendProperties
<1>4. n \in Nat /\ \A i \in 1..n : l[i] # LineEnd
  BY LenProperties, ElementOfSeq
<1> HIDE DEF n, m
<1>5. /\ Len(w) = n + 1 + m /\ w[n + 1] = LineEnd
      /\ \A i \in 1..n : w[i] = l[i] /\ w[i] # LineEnd
      /\ \A i \in 1..m : w[n + 1 + i] = r[i]
  <2>1. w[n + 1] = LineEnd
    BY <1>1, <1>3, <1>4
  <2>2. \A i \in 1..n : w[i] = l[i] /\ w[i] # LineEnd
    BY <1>1, <1>3, <1>4
  <2> QED
    BY <1>1, <1>3, <1>4, <2>1, <2>2
<1>6. w[1] \in Starts /\ CommandAt(w, 1)
  BY <1>1, <1>4, <1>5 DEF WellFormed
<1>7. w[1] # LineEnd
  BY <1>6, KeysApart DEF Starts
<1>8. n # 0
  BY <1>5, <1>7
<1>9. PICK j \in 1..Len(w) :
        /\ w[j] = LineEnd
        /\ \A k \in 1..Len(w) : 1 < k /\ k < j => w[k] \in KeyTokens
        /\ w[1] = SendKeys \/ j = 2
  BY <1>6 DEF CommandAt
<1>10. j \notin 1..n
  BY <1>5, <1>9
<1>11. ASSUME NEW k \in 2..n PROVE l[k] \in KeyTokens
  <2>1. k \in 1..n /\ k \in 1..Len(w) /\ 1 < k /\ k < j
    BY <1>1, <1>4, <1>5, <1>10
  <2> QED
    BY <1>5, <1>9, <2>1
<1>12. l # <<>>
  BY <1>8 DEF n
<1>13. Tail(l) \in Seq(KeyTokens)
  <2> DEFINE u == Tail(l)
  <2>1. u \in Seq(Tokens \ {LineEnd}) /\ Len(u) = n - 1 /\ \A i \in 1..Len(u) : u[i] = l[i + 1]
    BY <1>12, HeadTailProperties DEF n
  <2>2. \A i \in 1..Len(u) : i + 1 \in 2..n
    BY <1>4, <2>1
  <2>3. \A i \in 1..Len(u) : u[i] \in KeyTokens
    BY <1>11, <2>1, <2>2
  <2>4. Len(u) \in Nat /\ u \in [1..Len(u) -> Tokens \ {LineEnd}]
    BY <2>1, LenProperties
  <2> HIDE DEF u
  <2>5. u = [i \in 1..Len(u) |-> u[i]]
    BY <2>4
  <2>6. u \in [1..Len(u) -> KeyTokens]
    BY <2>3, <2>5
  <2>7. u \in Seq(KeyTokens)
    BY <2>4, <2>6, SeqDef
  <2> QED
    BY <2>7 DEF u
<1>14. l[1] = SendKeys \/ (n = 1 /\ \E s \in AllSizes : l[1] = Resize(s))
  <2>1. 1 \in 1..n /\ w[1] = l[1]
    BY <1>4, <1>5, <1>8
  <2>2. CASE w[1] = SendKeys
    BY <2>1, <2>2
  <2>3. CASE w[1] # SendKeys
    <3>1. j = 2 /\ n = 1
      BY <1>4, <1>8, <1>9, <1>10, <2>3
    <3> QED
      BY <1>6, <2>1, <2>3, <3>1 DEF Starts
  <2> QED
    BY <2>2, <2>3
<1>15. WellFormed(r)
  <2>1. r # <<>> => m > 0
    BY EmptySeq DEF m
  <2>2. ASSUME r # <<>> PROVE r[m] = LineEnd
    <3>1. w # <<>> /\ m \in 1..m /\ Len(w) = n + 1 + m
      <4>1. w = <<>> => Len(w) = 0
        OBVIOUS
      <4> QED
        BY <1>1, <1>4, <1>5, <2>1, <2>2, <4>1
    <3> QED
      BY <1>5, <3>1 DEF WellFormed
  <2>3. ASSUME NEW i \in 1..m, i = 1 \/ r[i - 1] = LineEnd
        PROVE  r[i] \in Starts /\ CommandAt(r, i)
    <3> DEFINE x == n + 1 + i
    <3>1. x \in 1..Len(w) /\ x - 1 \in 1..Len(w)
      BY <1>1, <1>4, <1>5
    <3>2. w[x - 1] = LineEnd
      <4>1. CASE i = 1
        <5>1. x - 1 = n + 1
          BY <1>4, <4>1
        <5> QED
          BY <1>5, <5>1
      <4>2. CASE i # 1
        <5>1. i - 1 \in 1..m /\ x - 1 = n + 1 + (i - 1)
          BY <1>1, <1>4, <4>2
        <5> QED
          BY <1>5, <2>3, <4>2, <5>1
      <4> QED
        BY <4>1, <4>2
    <3>3. w[x] = r[i]
      BY <1>5
    <3> HIDE DEF x
    <3>4. w[x] \in Starts /\ CommandAt(w, x)
      BY <3>1, <3>2 DEF WellFormed
    <3>5. PICK y \in 1..Len(w) :
            /\ x < y /\ y <= x + CHUNK_SIZE + 1
            /\ w[y] = LineEnd
            /\ \A k \in 1..Len(w) : x < k /\ k < y => w[k] \in KeyTokens
            /\ w[x] = SendKeys \/ y = x + 1
      BY <3>4 DEF CommandAt
    <3> DEFINE z == y - (n + 1)
    <3>6. /\ z \in 1..m /\ y = n + 1 + z /\ i < z
          /\ z <= i + CHUNK_SIZE + 1 /\ (y = x + 1 => z = i + 1)
      BY <1>1, <1>4, <1>5, <3>5, InputAssumption DEF x
    <3> HIDE DEF z
    <3>7. r[z] = LineEnd
      BY <1>5, <3>5, <3>6
    <3>8. ASSUME NEW k \in 1..m, i < k, k < z PROVE r[k] \in KeyTokens
      <4>1. n + 1 + k \in 1..Len(w) /\ x < n + 1 + k /\ n + 1 + k < y
        BY <1>1, <1>4, <1>5, <3>6, <3>8 DEF x
      <4> QED
        BY <1>5, <3>5, <4>1
    <3>9. r[i] = SendKeys \/ z = i + 1
      BY <3>3, <3>5, <3>6
    <3> QED
      BY <3>3, <3>4, <3>6, <3>7, <3>8, <3>9 DEF CommandAt, m
  <2> QED
    BY <2>2, <2>3 DEF WellFormed, m
<1> QED
  BY <1>12, <1>13, <1>14, <1>15 DEF n

-----------------------------------------------------------------------------
(* Every step of the input path keeps the invariant *)

\* It is enough that the lanes of this state see the same in the next.
LEMMA BalanceKept ==
    ASSUME mode' = mode, \A g \in LanesHere : Adds(g, arrived', Wire', Waiting', Sent')
    PROVE  Balanced'
<1>1. LanesHere' = LanesHere
  BY DEF LanesHere, Lanes
<1> QED
  BY <1>1 DEF Balanced

LEMMA TypeKeeps ==
    ASSUME InputInv, NEW msg \in Messages, Type(msg)
    PROVE  InputInv'
<1>1. /\ typed' = Append(typed, msg) /\ inbox' = Append(inbox, msg) /\ Len(typed) <= MaxTyped
      /\ UNCHANGED <<mode, writer, rest, pty, line, arrived>>
  BY DEF Type
<1>2. InputShape /\ WireShape /\ Balanced
  BY DEF InputInv
<1>3. typed \in Seq(Messages) /\ inbox \in Seq(Messages) /\ Ends(inbox, typed)
  BY <1>2 DEF InputShape
<1>4. /\ typed' \in Seq(Messages) /\ Len(typed') = Len(typed) + 1 /\ Len(typed) \in Nat
      /\ inbox' \in Seq(Messages)
  BY <1>1, <1>3, AppendProperties, LenProperties
<1>5. Ends(inbox', typed')
  <2> DEFINE x == inbox
             y == typed
             xx == inbox'
             yy == typed'
  <2>1. x \in Seq(Messages) /\ y \in Seq(Messages) /\ Ends(x, y)
    BY <1>3
  <2>2. xx = Append(x, msg) /\ yy = Append(y, msg)
    BY <1>1
  <2> HIDE DEF x, y, xx, yy
  <2>3. Ends(xx, yy)
    BY <2>1, <2>2, EndsAppend
  <2> QED
    BY <2>3 DEF xx, yy
<1>6. InputShape'
  <2>1. Len(typed') <= MaxTyped + 1
    BY <1>1, <1>4, InputAssumption
  <2> QED
    BY <1>1, <1>2, <1>4, <1>5, <2>1 DEF InputShape
<1>7. WireShape'
  BY <1>1, <1>2 DEF WireShape
<1>8. Wire' = Wire
  BY <1>1 DEF Wire
<1> DEFINE q == Meaning[msg]
<1>9. q \in Seq(Tokens)
  BY MeaningType
<1>10. Waiting' = Waiting \o q
  BY <1>1, <1>3, MeaningType, FlatAppend DEF Waiting
<1>11. Sent' = Sent \o q
  <2>1. Flat(Meaning, typed') = Flat(Meaning, typed) \o q
    BY <1>1, <1>3, MeaningType, FlatAppend
  <2>2. Sent = SentBy(typed) /\ Sent' = SentBy(typed')
    BY DEF Sent, SentBy
  <2>3. SentBy(typed) = Flat(Meaning, typed) /\ SentBy(typed') = Flat(Meaning, typed')
    BY <1>3, <1>4, SentIsFlat
  <2> QED
    BY <2>1, <2>2, <2>3
<1>12. arrived \in Seq(Tokens) /\ Wire \in Seq(Tokens) /\ Waiting \in Seq(Tokens) /\ Sent \in Seq(Tokens)
  BY <1>2, InputTypes
<1> HIDE DEF q
<1>13. ASSUME NEW g \in LanesHere PROVE Adds(g, arrived', Wire', Waiting', Sent')
  <2> DEFINE a == arrived
             w == Wire
             j == Waiting
             t == Sent
             jj == Waiting'
             tt == Sent'
  <2>1. Adds(g, a, w, j, t) /\ g \in Lanes
    BY <1>2 DEF Balanced, LanesHere
  <2>2. a \in Seq(Tokens) /\ w \in Seq(Tokens) /\ j \in Seq(Tokens) /\ t \in Seq(Tokens)
    BY <1>12
  <2>3. jj = j \o q /\ tt = t \o q
    BY <1>10, <1>11
  <2>4. a = arrived' /\ w = Wire'
    BY <1>1, <1>8
  <2> HIDE DEF a, w, j, t, jj, tt
  <2>5. Adds(g, a, w, jj, tt)
    BY <1>9, <2>1, <2>2, <2>3, AddsSent
  <2> QED
    BY <2>4, <2>5 DEF jj, tt
<1> QED
  BY <1>1, <1>6, <1>7, <1>13, BalanceKept DEF InputInv

LEMMA StartKeeps ==
    ASSUME InputInv, writer = "none", StartWriter
    PROVE  InputInv'
<1>1. /\ writer' = "recv" /\ UNCHANGED <<mode, typed, inbox, rest, line>>
      /\ mode = "control" => pty' = encode_resize(FirstSize) /\ arrived' = arrived
      /\ mode # "control" => arrived' = <<Size(FirstSize)>> /\ pty' = pty
  BY DEF StartWriter
<1>2. InputShape /\ WireShape /\ Balanced
  BY DEF InputInv
<1>3. line = <<>> /\ pty = <<>> /\ rest = <<>> /\ arrived = <<>> /\ mode \in {"control", "direct"}
  BY <1>2 DEF InputShape
<1> DEFINE e == encode_resize(FirstSize)
           o == <<Size(FirstSize)>>
<1>4. e \in Seq(Tokens) /\ WellFormed(e) /\ Len(e) = 2
  BY ResizeWellFormed DEF AllSizes, encode_resize
<1>5. o \in Seq(PaneTokens) /\ o \in Seq(Tokens)
  BY DEF PaneTokens, SizeTokens, AllSizes, Tokens
<1>6. Wire = o /\ Waiting' = Waiting /\ Sent' = Sent
  BY <1>1 DEF Wire, Waiting, Sent
<1>7. arrived \in Seq(Tokens) /\ Waiting \in Seq(Tokens)
  BY <1>2, InputTypes
<1> HIDE DEF e, o
<1>8. CASE mode = "control"
  <2>1. line' = <<>> /\ pty' = e /\ rest' = <<>> /\ arrived' = arrived
    BY <1>1, <1>3, <1>8 DEF e
  <2>2. (<<>> \o e) \o <<>> = e
    BY <1>4, ConcatEmptySeq
  <2>3. Wire' = e /\ (line' \o pty') \o rest' = e
    BY <1>1, <2>1, <2>2 DEF Wire
  <2>4. InputShape'
    <3>1. pty' \in Seq(Tokens) /\ Len(pty') <= Room
      <4>1. Room \in Nat /\ Room >= 2
        BY InputAssumption
      <4>2. pty' \in Seq(Tokens) /\ Len(pty') = 2
        BY <1>4, <2>1
      <4> QED
        BY <4>1, <4>2
    <3> QED
      BY <1>1, <1>2, <2>1, <3>1 DEF InputShape
  <2>5. WireShape'
    BY <1>1, <1>4, <1>8, <2>3 DEF WireShape
  <2>6. ASSUME NEW g \in LanesHere PROVE Adds(g, arrived', Wire', Waiting', Sent')
    <3>1. Adds(g, arrived, o, Waiting, Sent) /\ g \in Lanes
      BY <1>2, <1>6 DEF Balanced, LanesHere
    <3>2. Flat(g, e) = g[Size(FirstSize)]
      BY <3>1, ResizeFlat DEF AllSizes, e
    <3>3. Size(FirstSize) \in Tokens
      BY DEF Tokens, PaneTokens, SizeTokens, AllSizes
    <3>4. Flat(g, o) = g[Size(FirstSize)]
      BY <3>1, <3>3, LaneType, FlatOne DEF o
    <3> QED
      BY <1>6, <2>1, <2>3, <3>1, <3>2, <3>4 DEF Adds
  <2> QED
    BY <1>1, <2>4, <2>5, <2>6, BalanceKept DEF InputInv
<1>9. CASE mode = "direct"
  <2>1. line' = <<>> /\ pty' = <<>> /\ rest' = <<>> /\ arrived' = o
    BY <1>1, <1>3, <1>9 DEF o
  <2>2. Wire' = <<>>
    <3>1. <<>> \o <<>> = <<>>
      BY EmptySeq, ConcatEmptySeq
    <3> QED
      BY <1>1, <2>1, <3>1 DEF Wire
  <2>3. InputShape'
    BY <1>1, <1>2, <1>5, <2>1 DEF InputShape
  <2>4. WireShape'
    BY <1>1, <1>9, <2>1, EmptySeq DEF WireShape
  <2>5. ASSUME NEW g \in LanesHere PROVE Adds(g, arrived', Wire', Waiting', Sent')
    <3> DEFINE a == arrived
               ww == <<>>
               j == Waiting
               t == Sent
               aa == arrived'
    <3>1. Adds(g, a, o, j, t) /\ g \in Lanes
      BY <1>2, <1>6 DEF Balanced, LanesHere
    <3>2. o = o \o ww /\ ww \in Seq(Tokens)
      BY <1>5, ConcatEmptySeq, EmptySeq
    <3>3. <<>> \o o = o
      BY <1>5, ConcatEmptySeq
    <3>4. aa = a \o o /\ a \in Seq(Tokens) /\ j \in Seq(Tokens)
      BY <1>3, <1>7, <2>1, <3>3
    <3> HIDE DEF a, ww, j, t, aa
    <3>5. Adds(g, aa, ww, j, t)
      BY <1>5, <3>1, <3>2, <3>4, AddsTaken
    <3> QED
      BY <1>6, <2>2, <3>5 DEF ww, j, t, aa
  <2> QED
    BY <1>1, <2>3, <2>4, <2>5, BalanceKept DEF InputInv
<1> QED
  BY <1>3, <1>8, <1>9

\* What the writer makes of a message means the message.
LEMMA EncodedStands ==
    ASSUME NEW msg \in Messages, mode = "control" \/ (mode = "direct" /\ msg.type = "input")
    PROVE  /\ Encoded(msg) \in Seq(Tokens)
           /\ mode = "control" => WellFormed(Encoded(msg))
           /\ mode = "direct" => Encoded(msg) \in Seq(KeyTokens)
           /\ \A g \in Lanes : Flat(g, Encoded(msg)) = Flat(g, Meaning[msg])
<1>1. CASE msg.type = "input"
  <2>1. PICK data \in Inputs : msg = Input(data)
    BY <1>1 DEF Messages, Resized
  <2>2. msg.data = data /\ Meaning[msg] = Keys(data)
    BY <2>1, MeaningType DEF Input
  <2>3. data \in Seq(0..255)
    BY InputAssumption
  <2>4. CASE mode = "control"
    <3>1. Encoded(msg) = encode_input(data)
      BY <1>1, <2>2, <2>4 DEF Encoded
    <3>2. Stands(encode_input(data), data)
      BY <2>3, EncodeInput
    <3> QED
      BY <2>2, <2>4, <3>1, <3>2 DEF Stands
  <2>5. CASE mode = "direct"
    <3>1. Encoded(msg) = Keys(data)
      BY <2>2, <2>5 DEF Encoded
    <3>2. Keys(data) \in Seq(KeyTokens)
      BY <2>3, KeysType
    <3>3. Keys(data) \in Seq(Tokens)
      BY <3>2, SeqMonotonic DEF Tokens, PaneTokens
    <3> QED
      BY <2>2, <2>5, <3>1, <3>2, <3>3
  <2> QED
    BY <2>4, <2>5
<1>2. CASE msg.type # "input"
  <2>1. PICK s \in AllSizes : msg = Resized(s)
    BY <1>2 DEF Messages, Input
  <2>2. msg.size = s /\ Meaning[msg] = <<Size(s)>>
    BY <2>1, MeaningType DEF Resized
  <2>3. mode = "control" /\ Encoded(msg) = encode_resize(s)
    BY <1>2, <2>2 DEF Encoded
  <2>4. encode_resize(s) \in Seq(Tokens) /\ WellFormed(encode_resize(s))
    BY ResizeWellFormed
  <2>5. ASSUME NEW g \in Lanes PROVE Flat(g, encode_resize(s)) = Flat(g, <<Size(s)>>)
    <3>1. Flat(g, encode_resize(s)) = g[Size(s)]
      BY ResizeFlat
    <3>2. Size(s) \in Tokens
      BY DEF Tokens, PaneTokens, SizeTokens
    <3>3. Flat(g, <<Size(s)>>) = g[Size(s)]
      BY <3>2, LaneType, FlatOne
    <3> QED
      BY <3>1, <3>3
  <2> QED
    BY <2>2, <2>3, <2>4, <2>5
<1> QED
  BY <1>1, <1>2

LEMMA RecvKeeps ==
    ASSUME InputInv, Recv
    PROVE  InputInv'
<1> DEFINE msg == Head(inbox)
           q == Meaning[msg]
<1>1. /\ writer = "recv" /\ inbox # <<>> /\ inbox' = Tail(inbox)
      /\ UNCHANGED <<mode, typed, pty, line>>
      /\ \/ /\ mode = "direct" /\ msg.type = "resize"
            /\ arrived' = Append(arrived, Size(msg.size))
            /\ writer' = writer /\ rest' = rest
         \/ /\ ~(mode = "direct" /\ msg.type = "resize")
            /\ rest' = Encoded(msg) /\ arrived' = arrived
            /\ writer' = IF Encoded(msg) = <<>> THEN "recv" ELSE "write"
  BY DEF Recv
<1>2. InputShape /\ WireShape /\ Balanced
  BY DEF InputInv
<1>3. inbox \in Seq(Messages) /\ typed \in Seq(Messages) /\ Ends(inbox, typed) /\ rest = <<>>
      /\ mode \in {"control", "direct"}
  BY <1>1, <1>2 DEF InputShape
<1>4. msg \in Messages /\ inbox' \in Seq(Messages)
  BY <1>1, <1>3, HeadTailProperties
<1>5. Ends(inbox', typed')
  <2>1. Ends(Tail(inbox), typed)
    BY <1>1, <1>3, EndsTail
  <2> QED
    BY <1>1, <2>1
<1>6. Waiting = q \o Waiting'
  <2>1. Flat(Meaning, inbox) = q \o Flat(Meaning, Tail(inbox))
    BY <1>1, <1>3, MeaningType, FlatHead
  <2> QED
    BY <1>1, <2>1 DEF Waiting
<1>7. q \in Seq(Tokens)
  BY <1>4, MeaningType
<1>8. Sent' = Sent
  BY <1>1 DEF Sent
<1>9. Waiting' \in Seq(Tokens)
  BY <1>4, MeaningType, FlatType DEF Waiting
<1>10. arrived \in Seq(Tokens) /\ Wire \in Seq(Tokens)
  BY <1>2, InputTypes
<1>11. Wire = (line \o pty) \o rest /\ Wire' = (line \o pty) \o rest'
  BY <1>1 DEF Wire
<1>12. CASE mode = "direct" /\ msg.type = "resize"
  <2>1. arrived' = Append(arrived, Size(msg.size)) /\ writer' = writer /\ rest' = rest
    BY <1>1, <1>12
  <2>2. PICK s \in AllSizes : msg = Resized(s)
    BY <1>4, <1>12 DEF Messages, Input
  <2>3. msg.size = s /\ q = <<Size(s)>>
    <3>1. Resized(s).size = s
      BY DEF Resized
    <3>2. Meaning[Resized(s)] = <<Size(s)>>
      BY MeaningType
    <3> QED
      BY <2>2, <3>1, <3>2
  <2>4. Size(s) \in PaneTokens /\ Size(s) \in SizeTokens /\ Size(s) \in Tokens
    BY DEF PaneTokens, SizeTokens, Tokens
  <2>5. arrived' \in Seq(PaneTokens) /\ arrived' = arrived \o q
    <3>1. arrived \in Seq(PaneTokens)
      BY <1>2 DEF InputShape
    <3>2. arrived' = Append(arrived, Size(s))
      BY <2>1, <2>3
    <3> QED
      BY <2>3, <2>4, <3>1, <3>2, AppendProperties, AppendIsConcat
  <2>6. InputShape'
    BY <1>1, <1>2, <1>4, <1>5, <2>1, <2>5 DEF InputShape
  <2>7. WireShape'
    BY <1>1, <1>2, <2>1 DEF WireShape
  <2>8. Wire' = Wire
    BY <1>11, <2>1
  <2>9. Wire \in Seq(KeyTokens)
    <3>1. line = <<>> /\ pty \in Seq(KeyTokens)
      BY <1>2, <1>12 DEF WireShape
    <3>2. (<<>> \o pty) \o <<>> = pty
      BY <3>1, ConcatEmptySeq
    <3> QED
      BY <1>3, <1>11, <3>1, <3>2
  <2>10. ASSUME NEW g \in LanesHere PROVE Adds(g, arrived', Wire', Waiting', Sent')
    <3> DEFINE a == arrived
               w == Wire
               j == Waiting
               t == Sent
               jj == Waiting'
               aa == arrived'
    <3>1. Adds(g, a, w, j, t) /\ g \in Lanes
      BY <1>2 DEF Balanced, LanesHere
    <3>2. Flat(g, w) = <<>> \/ Flat(g, q) = <<>>
      <4>1. CASE \A t_1 \in KeyTokens : g[t_1] = <<>>
        <5>1. KeyTokens \in SUBSET Tokens
          BY DEF Tokens, PaneTokens
        <5>2. g \in [Tokens -> Seq(PaneTokens)]
          BY <3>1, LaneType
        <5> HIDE DEF w
        <5> QED
          BY <2>9, <4>1, <5>1, <5>2, FlatNone DEF w
      <4>2. CASE \A t_1 \in SizeTokens : g[t_1] = <<>>
        <5>1. Flat(g, <<Size(s)>>) = g[Size(s)]
          BY <2>4, <3>1, LaneType, FlatOne
        <5> QED
          BY <2>3, <2>4, <4>2, <5>1
      <4> QED
        BY <1>12, <4>1, <4>2 DEF LanesHere
    <3>3. a \in Seq(Tokens) /\ w \in Seq(Tokens) /\ jj \in Seq(Tokens)
      BY <1>9, <1>10
    <3>4. j = q \o jj /\ aa = a \o q
      BY <1>6, <2>5
    <3> HIDE DEF a, w, j, t, jj, aa, q
    <3>5. Adds(g, aa, w, jj, t)
      BY <1>7, <3>1, <3>2, <3>3, <3>4, AddsOvertaken
    <3> QED
      BY <1>8, <2>8, <3>5 DEF w, jj, t, aa
  <2> QED
    BY <1>1, <2>6, <2>7, <2>10, BalanceKept DEF InputInv
<1>13. CASE ~(mode = "direct" /\ msg.type = "resize")
  <2> DEFINE e == Encoded(msg)
  <2>1. rest' = e /\ arrived' = arrived /\ writer' = IF e = <<>> THEN "recv" ELSE "write"
    BY <1>1, <1>13
  <2>2. msg.type \in {"input", "resize"}
    BY <1>4 DEF Messages, Input, Resized
  <2>3. /\ e \in Seq(Tokens)
        /\ mode = "control" => WellFormed(e)
        /\ mode = "direct" => e \in Seq(KeyTokens)
        /\ \A g \in Lanes : Flat(g, e) = Flat(g, q)
    <3>1. mode = "control" \/ (mode = "direct" /\ msg.type = "input")
      BY <1>3, <1>13, <2>2
    <3> HIDE DEF msg
    <3> QED
      BY <1>4, <3>1, EncodedStands
  <2> HIDE DEF e
  <2>4. InputShape'
    <3>1. rest' \in Seq(Tokens) /\ (rest' # <<>> => writer' # "recv") /\ writer' # "none"
      BY <2>1, <2>3
    <3> QED
      BY <1>1, <1>2, <1>4, <1>5, <2>1, <3>1 DEF InputShape
  <2>5. Wire = line \o pty /\ Wire' = Wire \o e
    <3>1. line \o pty \in Seq(Tokens)
      <4>1. line \in Seq(Tokens) /\ pty \in Seq(Tokens)
        BY <1>2, InputTypes DEF InputShape
      <4> QED
        BY <4>1, ConcatProperties
    <3>2. (line \o pty) \o <<>> = line \o pty
      BY <3>1, ConcatEmptySeq
    <3> QED
      BY <1>3, <1>11, <2>1, <3>2
  <2>6. WireShape'
    <3>1. ASSUME mode = "control" PROVE WellFormed(Wire')
      <4> DEFINE w == Wire
                 ww == Wire'
      <4>1. w \in Seq(Tokens) /\ WellFormed(w) /\ WellFormed(e) /\ ww = w \o e
        BY <1>2, <1>10, <1>11, <2>3, <2>5, <3>1 DEF WireShape
      <4> HIDE DEF w, ww
      <4>2. WellFormed(w \o e)
        BY <2>3, <4>1, ConcatWellFormed
      <4> QED
        BY <4>1, <4>2 DEF ww
    <3> QED
      BY <1>1, <1>2, <1>11, <2>1, <2>3, <3>1 DEF WireShape
  <2>7. ASSUME NEW g \in LanesHere PROVE Adds(g, arrived', Wire', Waiting', Sent')
    <3> DEFINE a == arrived
               w == Wire
               j == Waiting
               t == Sent
               jj == Waiting'
               ww == Wire'
    <3>1. Adds(g, a, w, j, t) /\ g \in Lanes
      BY <1>2 DEF Balanced, LanesHere
    <3>2. Flat(g, e) = Flat(g, q) /\ e \in Seq(Tokens)
      BY <2>3, <3>1
    <3>3. a \in Seq(Tokens) /\ w \in Seq(Tokens) /\ jj \in Seq(Tokens)
      BY <1>9, <1>10
    <3>4. j = q \o jj /\ ww = w \o e
      BY <1>6, <2>5
    <3> HIDE DEF a, w, j, t, jj, ww, q
    <3>5. Adds(g, a, ww, jj, t)
      BY <1>7, <3>1, <3>2, <3>3, <3>4, AddsReceived
    <3> QED
      BY <1>8, <2>1, <3>5 DEF ww, jj, t, a
  <2> QED
    BY <1>1, <2>4, <2>6, <2>7, BalanceKept DEF InputInv
<1> QED
  BY <1>12, <1>13

\* Nothing moves but the boundaries between what is on the wire.
LEMMA SameWire ==
    ASSUME Balanced, Wire' = Wire, UNCHANGED <<mode, typed, inbox, arrived>>
    PROVE  Balanced'
<1>1. Waiting' = Waiting /\ Sent' = Sent
  BY DEF Waiting, Sent
<1>2. LanesHere' = LanesHere
  BY DEF LanesHere, Lanes
<1> QED
  BY <1>1, <1>2 DEF Balanced

LEMMA WriteKeeps ==
    ASSUME InputInv, NEW n \in 1..Room, WriteSome(n)
    PROVE  InputInv'
<1> DEFINE x == SubSeq(rest, 1, n)
           y == SubSeq(rest, n + 1, Len(rest))
<1>1. /\ writer = "write" /\ n \in 1..Len(rest) /\ Len(pty) + n <= Room
      /\ pty' = pty \o x /\ rest' = y
      /\ writer' = IF rest' = <<>> THEN "recv" ELSE "write"
      /\ UNCHANGED <<mode, typed, inbox, line, arrived>>
  BY DEF WriteSome, Unwritten
<1>2. InputShape /\ WireShape /\ Balanced
  BY DEF InputInv
<1>3. rest \in Seq(Tokens) /\ pty \in Seq(Tokens) /\ Len(pty) \in Nat /\ Len(rest) \in Nat
  BY <1>2, LenProperties DEF InputShape
<1>4. x \o y = rest
  <2>1. /\ 1 \in 1..Len(rest) + 1 /\ n \in 1 - 1..Len(rest) /\ Len(rest) \in n..Len(rest)
    BY <1>1, <1>3
  <2>2. x \o y = SubSeq(rest, 1, Len(rest))
    BY <1>3, <2>1, ConcatAdjacentSubSeq
  <2> QED
    BY <1>3, <2>2, SubSeqFull
<1>5. ASSUME NEW S, rest \in Seq(S)
      PROVE  x \in Seq(S) /\ y \in Seq(S) /\ Len(x) = n
  <2>1. \A i \in 1..Len(rest) : rest[i] \in S
    BY <1>5, ElementOfSeq
  <2>2. \A i \in 1..n : rest[i] \in S
    BY <1>1, <1>3, <2>1
  <2>3. \A i \in n + 1..Len(rest) : rest[i] \in S
    BY <1>1, <1>3, <2>1
  <2>4. 1 \in Int /\ n \in Int /\ n + 1 \in Int /\ Len(rest) \in Int
    BY <1>1, <1>3
  <2>5. x \in Seq(S) /\ Len(x) = IF 1 <= n THEN n - 1 + 1 ELSE 0
    BY <2>2, <2>4, SubSeqProperties
  <2>6. y \in Seq(S)
    BY <2>3, <2>4, SubSeqProperties
  <2> HIDE DEF x, y
  <2> QED
    BY <1>1, <2>5, <2>6
<1>6. x \in Seq(Tokens) /\ y \in Seq(Tokens) /\ Len(x) = n
  BY <1>3, <1>5
<1> HIDE DEF x, y
<1>7. pty' \in Seq(Tokens) /\ Len(pty') = Len(pty) + n
  BY <1>1, <1>3, <1>6, ConcatProperties
<1>8. (line' \o pty') \o rest' = (line \o pty) \o rest
  <2>1. line \in Seq(Tokens)
    BY <1>2, InputTypes
  <2>2. Regroups4(line, pty, x, y)
    BY <1>3, <1>6, <2>1, Regrouped4
  <2> QED
    BY <1>1, <1>4, <2>2 DEF Regroups4
<1>9. InputShape'
  <2>1. Len(pty') <= Room
    BY <1>1, <1>3, <1>7
  <2>2. rest' \in Seq(Tokens) /\ (rest' # <<>> => writer' # "recv") /\ writer' # "none"
    BY <1>1, <1>6
  <2> QED
    BY <1>1, <1>2, <1>7, <2>1, <2>2 DEF InputShape
<1>10. WireShape'
  <2>1. CASE mode = "direct"
    <3>1. line = <<>> /\ pty \in Seq(KeyTokens) /\ rest \in Seq(KeyTokens)
      BY <1>2, <2>1 DEF WireShape
    <3>2. x \in Seq(KeyTokens) /\ y \in Seq(KeyTokens)
      BY <1>5, <3>1
    <3>3. pty' \in Seq(KeyTokens)
      BY <1>1, <3>1, <3>2, ConcatProperties
    <3> QED
      BY <1>1, <2>1, <3>1, <3>2, <3>3 DEF WireShape
  <2>2. CASE mode # "direct"
    BY <1>1, <1>2, <1>8, <2>2 DEF WireShape
  <2> QED
    BY <2>1, <2>2
<1>11. Wire' = Wire
  BY <1>1, <1>8 DEF Wire
<1> QED
  BY <1>1, <1>2, <1>9, <1>10, <1>11, SameWire DEF InputInv

\* A whole command means to the pane what tmux does.
LEMMA DoneMeans ==
    ASSUME NEW l \in Seq(Tokens), l # <<>>,
           \/ l[1] = SendKeys /\ Tail(l) \in Seq(KeyTokens)
           \/ Len(l) = 1 /\ \E s \in AllSizes : l[1] = Resize(s)
    PROVE  /\ Done(l) \in Seq(PaneTokens)
           /\ \A g \in Lanes : Flat(g, Done(l)) = Flat(g, l)
<1>1. CASE l[1] = SendKeys /\ Tail(l) \in Seq(KeyTokens)
  <2>1. Done(l) = Tail(l)
    BY <1>1 DEF Done
  <2>2. Tail(l) \in Seq(PaneTokens) /\ Tail(l) \in Seq(Tokens)
    BY <1>1, SeqMonotonic DEF PaneTokens, Tokens
  <2>3. ASSUME NEW g \in Lanes PROVE Flat(g, Tail(l)) = Flat(g, l)
    <3> DEFINE x == Head(l)
               u == Tail(l)
    <3>1. g \in [Tokens -> Seq(PaneTokens)] /\ g[x] = <<>>
      BY <1>1, LaneType DEF Lanes
    <3>2. Flat(g, l) = g[x] \o Flat(g, u)
      BY <3>1, FlatHead
    <3>3. Flat(g, u) \in Seq(PaneTokens)
      BY <2>2, LaneFlatType
    <3> HIDE DEF x, u
    <3>4. <<>> \o Flat(g, u) = Flat(g, u)
      BY <3>3, ConcatEmptySeq
    <3> QED
      BY <3>1, <3>2, <3>4 DEF u
  <2> QED
    BY <2>1, <2>2, <2>3
<1>2. CASE Len(l) = 1 /\ \E s \in AllSizes : l[1] = Resize(s)
  <2>1. PICK s \in AllSizes : l[1] = Resize(s)
    BY <1>2
  <2>2. Done(l) = <<Size(s)>>
    BY <2>1, KeysApart DEF Done
  <2>3. Size(s) \in PaneTokens /\ Size(s) \in Tokens /\ Resize(s) \in Tokens
    BY DEF PaneTokens, SizeTokens, Tokens, Starts
  <2>4. l = <<Resize(s)>>
    <3> DEFINE u == <<Resize(s)>>
    <3>1. u \in Seq(Tokens) /\ Len(u) = 1 /\ u[1] = Resize(s)
      BY <2>3
    <3> HIDE DEF u
    <3>2. Len(l) = Len(u) /\ \A i \in 1..Len(l) : l[i] = u[i]
      BY <1>2, <2>1, <3>1
    <3>3. l = u
      BY <3>1, <3>2, SeqEqual
    <3> QED
      BY <3>3 DEF u
  <2>5. ASSUME NEW g \in Lanes PROVE Flat(g, <<Size(s)>>) = Flat(g, l)
    <3>1. Flat(g, <<Size(s)>>) = g[Size(s)]
      BY <2>3, LaneType, FlatOne
    <3>2. Flat(g, <<Resize(s)>>) = g[Resize(s)]
      <4> DEFINE x == Resize(s)
      <4>1. x \in Tokens /\ g \in [Tokens -> Seq(PaneTokens)]
        BY <2>3, LaneType
      <4> HIDE DEF x
      <4>2. Flat(g, <<x>>) = g[x]
        BY <4>1, FlatOne
      <4> QED
        BY <4>2 DEF x
    <3> QED
      BY <2>4, <3>1, <3>2 DEF Lanes
  <2> QED
    BY <2>2, <2>3, <2>5
<1> QED
  BY <1>1, <1>2

LEMMA ConsumeKeeps ==
    ASSUME InputInv, Consume
    PROVE  InputInv'
<1> DEFINE token == Head(pty)
           c == <<token>>
           l == line
           p == pty'
           r == rest
<1>1. /\ pty # <<>> /\ pty' = Tail(pty)
      /\ UNCHANGED <<mode, writer, typed, inbox, rest>>
      /\ CASE mode = "direct" -> arrived' = Append(arrived, token) /\ UNCHANGED line
           [] mode = "control" /\ token # LineEnd ->
                line' = Append(line, token) /\ UNCHANGED arrived
           [] mode = "control" /\ token = LineEnd ->
                line' = <<>> /\ arrived' = arrived \o Done(line)
  BY DEF Consume
<1>2. InputShape /\ WireShape /\ Balanced
  BY DEF InputInv
<1>3. /\ mode \in {"control", "direct"} /\ pty \in Seq(Tokens) /\ rest \in Seq(Tokens)
      /\ Len(pty) <= Room /\ writer # "none"
      /\ line \in Seq(Tokens \ {LineEnd}) /\ line \in Seq(Tokens)
  BY <1>1, <1>2, InputTypes DEF InputShape
<1>4. pty = c \o p /\ token \in Tokens /\ p \in Seq(Tokens)
  BY <1>1, <1>3, HeadThenTail
<1>5. Len(pty') <= Room
  <2>1. Len(Tail(pty)) = Len(pty) - 1 /\ Len(pty) \in Nat
    BY <1>1, <1>3, HeadTailProperties, LenProperties
  <2> QED
    BY <1>1, <1>3, <2>1, InputAssumption
<1>6. c \in Seq(Tokens) /\ l \in Seq(Tokens) /\ p \in Seq(Tokens) /\ r \in Seq(Tokens)
  BY <1>3, <1>4
<1>7. Wire = (l \o (c \o p)) \o r /\ Wire' = (line' \o p) \o r
  BY <1>1, <1>3, <1>4 DEF Wire
<1>8. Waiting' = Waiting /\ Sent' = Sent
  BY <1>1 DEF Waiting, Sent
<1>9. arrived \in Seq(Tokens) /\ Waiting \in Seq(Tokens) /\ arrived \in Seq(PaneTokens)
  BY <1>2, InputTypes DEF InputShape
<1>10. Wire = ((l \o c) \o p) \o r
  <2> HIDE DEF c, l, p, r
  <2>1. Regroups(l, c, p)
    BY <1>6, Regrouped
  <2> QED
    BY <1>7, <2>1 DEF Regroups
<1>11. CASE mode = "control" /\ token # LineEnd
  <2>1. line' = Append(line, token) /\ arrived' = arrived
    BY <1>1, <1>11
  <2>2. line' = l \o c /\ line' \in Seq(Tokens \ {LineEnd})
    BY <1>3, <1>4, <1>11, <2>1, AppendIsConcat, AppendProperties
  <2>3. Wire' = Wire
    BY <1>7, <1>10, <2>2
  <2>4. InputShape'
    BY <1>1, <1>2, <1>3, <1>4, <1>5, <2>1, <2>2 DEF InputShape
  <2>5. WireShape'
    <3>1. Wire = (line \o pty) \o rest /\ Wire' = (line' \o pty') \o rest'
      BY <1>1, <1>3 DEF Wire
    <3> QED
      BY <1>1, <1>2, <1>11, <2>3, <3>1 DEF WireShape
  <2> QED
    BY <1>1, <1>2, <2>1, <2>3, <2>4, <2>5, SameWire DEF InputInv
<1>12. CASE mode = "control" /\ token = LineEnd
  <2> DEFINE e == l \o c
             ww == p \o r
             q == Done(line)
  <2>1. line' = <<>> /\ arrived' = arrived \o q
    BY <1>1, <1>12
  <2>2. e \in Seq(Tokens) /\ ww \in Seq(Tokens)
    <3> HIDE DEF l, c, p, r
    <3> QED
      BY <1>6, ConcatProperties
  <2>3. Wire = e \o ww
    <3> DEFINE w == Wire
    <3>1. w = (e \o p) \o r /\ e \in Seq(Tokens)
      BY <1>10, <2>2
    <3>2. p \in Seq(Tokens) /\ r \in Seq(Tokens)
      BY <1>6
    <3> HIDE DEF e, p, r, w
    <3>3. Regroups(e, p, r)
      BY <3>1, <3>2, Regrouped
    <3> QED
      BY <3>1, <3>3 DEF Regroups, w
  <2>4. Wire' = ww
    <3>1. <<>> \o p = p
      BY <1>4, ConcatEmptySeq
    <3> QED
      BY <1>7, <2>1, <3>1
  <2>5. WellFormed(Wire)
    BY <1>2, <1>3, <1>12 DEF WireShape, Wire
  <2>6. /\ WellFormed(ww) /\ line # <<>>
        /\ \/ line[1] = SendKeys /\ Tail(line) \in Seq(KeyTokens)
           \/ Len(line) = 1 /\ \E s \in AllSizes : line[1] = Resize(s)
    <3> DEFINE w == Wire
    <3>1. l \in Seq(Tokens \ {LineEnd}) /\ e = Append(l, LineEnd)
      BY <1>3, <1>6, <1>12, AppendIsConcat DEF Tokens
    <3>2. w \in Seq(Tokens) /\ WellFormed(w) /\ w = e \o ww
      BY <1>2, <2>3, <2>5, InputTypes
    <3> HIDE DEF w, l, e, ww
    <3>3. /\ WellFormed(ww) /\ l # <<>>
          /\ \/ l[1] = SendKeys /\ Tail(l) \in Seq(KeyTokens)
             \/ Len(l) = 1 /\ \E s \in AllSizes : l[1] = Resize(s)
      BY <2>2, <3>1, <3>2, FirstLine
    <3> QED
      BY <3>3 DEF l
  <2>7. q \in Seq(PaneTokens) /\ \A g \in Lanes : Flat(g, q) = Flat(g, l)
    BY <1>3, <2>6, DoneMeans
  <2>8. q \in Seq(Tokens)
    BY <2>7, SeqMonotonic DEF Tokens
  <2>9. InputShape'
    <3>1. arrived' \in Seq(PaneTokens)
      BY <1>9, <2>1, <2>7, ConcatProperties
    <3>2. line' \in Seq(Tokens \ {LineEnd})
      BY <2>1, EmptySeq
    <3> QED
      BY <1>1, <1>2, <1>3, <1>4, <1>5, <3>1, <3>2 DEF InputShape
  <2>10. WireShape'
    <3>1. Wire' = (line' \o pty') \o rest'
      BY <1>1, <1>3 DEF Wire
    <3> QED
      BY <1>1, <1>12, <2>4, <2>6, <3>1 DEF WireShape
  <2>11. ASSUME NEW g \in LanesHere PROVE Adds(g, arrived', Wire', Waiting', Sent')
    <3> DEFINE a == arrived
               w == Wire
               j == Waiting
               t == Sent
               aa == arrived'
    <3>1. Adds(g, a, w, j, t) /\ g \in Lanes
      BY <1>2 DEF Balanced, LanesHere
    <3>2. Flat(g, e) = Flat(g, q)
      <4>1. g \in [Tokens -> Seq(PaneTokens)] /\ c \in Seq(Tokens) /\ l \in Seq(Tokens)
        BY <1>6, <3>1, LaneType
      <4>2. Flat(g, c) = <<>>
        <5>1. Flat(g, c) = g[token]
          BY <1>4, <3>1, LaneType, FlatOne
        <5> QED
          BY <1>12, <3>1, <5>1 DEF Lanes
      <4>3. e = l \o c
        OBVIOUS
      <4> HIDE DEF e, l, c
      <4>4. Joins(g, e, l, c)
        BY <4>1, <4>3, FlatJoins
      <4>5. Flat(g, l) \in Seq(PaneTokens)
        BY <3>1, <4>1, LaneFlatType
      <4>6. Flat(g, l) \o <<>> = Flat(g, l)
        BY <4>5, ConcatEmptySeq
      <4> QED
        BY <2>7, <3>1, <4>2, <4>4, <4>6 DEF Joins
    <3>3. a \in Seq(Tokens) /\ j \in Seq(Tokens)
      BY <1>9
    <3>4. w = e \o ww /\ aa = a \o q
      BY <2>1, <2>3
    <3> HIDE DEF a, w, j, t, aa, ww, q, e
    <3>5. Adds(g, aa, ww, j, t)
      BY <2>2, <2>8, <3>1, <3>2, <3>3, <3>4, AddsTaken
    <3> QED
      BY <1>8, <2>4, <3>5 DEF aa, j, t
  <2> QED
    BY <1>1, <2>9, <2>10, <2>11, BalanceKept DEF InputInv
<1>13. CASE mode = "direct"
  <2> DEFINE ww == p \o r
  <2>1. arrived' = Append(arrived, token) /\ line' = line
    BY <1>1, <1>13
  <2>2. line = <<>> /\ pty \in Seq(KeyTokens) /\ rest \in Seq(KeyTokens)
    BY <1>2, <1>13 DEF WireShape
  <2>3. token \in KeyTokens /\ pty' \in Seq(KeyTokens)
    BY <1>1, <2>2, HeadTailProperties
  <2>4. token \in PaneTokens
    BY <2>3 DEF PaneTokens
  <2>5. arrived' \in Seq(PaneTokens) /\ arrived' = arrived \o c
    BY <1>9, <2>1, <2>4, AppendProperties, AppendIsConcat
  <2>6. InputShape'
    BY <1>1, <1>2, <1>3, <1>4, <1>5, <2>1, <2>5 DEF InputShape
  <2>7. WireShape'
    BY <1>1, <1>13, <2>1, <2>2, <2>3 DEF WireShape
  <2>8. ww \in Seq(Tokens)
    <3> HIDE DEF p, r
    <3> QED
      BY <1>6, ConcatProperties
  <2>9. Wire = c \o ww
    <3>1. <<>> \o c = c
      BY <1>6, ConcatEmptySeq
    <3>2. Wire = (c \o p) \o r
      BY <1>10, <2>2, <3>1
    <3> DEFINE w == Wire
    <3>3. w = (c \o p) \o r
      BY <3>2
    <3> HIDE DEF w, c, p, r
    <3>4. Regroups(c, p, r)
      BY <1>6, Regrouped
    <3> QED
      BY <3>3, <3>4 DEF Regroups, w
  <2>10. Wire' = ww
    <3>1. <<>> \o p = p
      BY <1>4, ConcatEmptySeq
    <3> QED
      BY <1>7, <2>1, <2>2, <3>1
  <2>11. ASSUME NEW g \in LanesHere PROVE Adds(g, arrived', Wire', Waiting', Sent')
    <3> DEFINE a == arrived
               w == Wire
               j == Waiting
               t == Sent
               aa == arrived'
    <3>1. Adds(g, a, w, j, t) /\ g \in Lanes
      BY <1>2 DEF Balanced, LanesHere
    <3>2. a \in Seq(Tokens) /\ j \in Seq(Tokens) /\ c \in Seq(Tokens)
      BY <1>6, <1>9
    <3>3. w = c \o ww /\ aa = a \o c
      BY <2>5, <2>9
    <3> HIDE DEF a, w, j, t, aa, ww, c
    <3>4. Adds(g, aa, ww, j, t)
      BY <2>8, <3>1, <3>2, <3>3, AddsTaken
    <3> QED
      BY <1>8, <2>10, <3>4 DEF aa, j, t
  <2> QED
    BY <1>1, <2>6, <2>7, <2>11, BalanceKept DEF InputInv
<1> QED
  BY <1>3, <1>11, <1>12, <1>13

\* The rest of a connection moves nothing, and nobody but StartWriter makes the
\* writer receive.
LEMMA OthersKeep ==
    ASSUME InputInv, UNCHANGED <<mode, inputVars>>,
           writer' = writer \/ (writer # "none" /\ writer' \notin {"none", "recv"})
    PROVE  InputInv'
<1>1. /\ mode' = mode /\ typed' = typed /\ inbox' = inbox /\ rest' = rest /\ pty' = pty
      /\ line' = line /\ arrived' = arrived
  BY DEF inputVars
<1>2. InputShape /\ WireShape /\ Balanced
  BY DEF InputInv
<1>3. InputShape'
  <2>1. (rest' # <<>> => writer' # "recv") /\ (writer' = "none" => writer = "none")
    BY <1>1, <1>2 DEF InputShape
  <2> QED
    BY <1>1, <1>2, <2>1 DEF InputShape
<1>4. WireShape'
  BY <1>1, <1>2 DEF WireShape
<1>5. Wire' = Wire
  BY <1>1 DEF Wire
<1> QED
  BY <1>1, <1>2, <1>3, <1>4, <1>5, SameWire DEF InputInv

LEMMA InputStarts ==
    ASSUME mode \in {"control", "direct"}, writer = "none", InputInit
    PROVE  InputInv
<1> DEFINE msg == Resized(FirstSize)
           o == <<Size(FirstSize)>>
<1>1. /\ typed = <<msg>> /\ inbox = <<>> /\ rest = <<>> /\ pty = <<>> /\ line = <<>> /\ arrived = <<>>
  BY DEF InputInit
<1>2. msg \in Messages /\ Meaning[msg] = o
  BY MeaningType DEF AllSizes
<1>3. InputShape
  <2>1. typed \in Seq(Messages) /\ Len(typed) = 1
    BY <1>1, <1>2
  <2>2. Len(typed) <= MaxTyped + 1
    BY <2>1, InputAssumption
  <2>3. Ends(inbox, typed)
    BY <1>1, <2>1 DEF Ends
  <2>4. Len(pty) <= Room
    BY <1>1, InputAssumption
  <2> QED
    BY <1>1, <2>1, <2>2, <2>3, <2>4, EmptySeq DEF InputShape
<1>4. WireShape
  <2>1. (<<>> \o <<>>) \o <<>> = <<>>
    BY EmptySeq, ConcatEmptySeq
  <2>2. (line \o pty) \o rest = <<>>
    BY <1>1, <2>1
  <2> QED
    BY <1>1, <2>2, EmptyWellFormed, EmptySeq DEF WireShape
<1>5. Wire = o /\ o \in Seq(Tokens)
  BY DEF Wire, Tokens, PaneTokens, SizeTokens, AllSizes
<1>6. Waiting = <<>>
  BY <1>1, FlatEmpty DEF Waiting
<1>7. Sent = o
  <2>1. Sent = SentBy(typed)
    BY DEF Sent, SentBy
  <2>2. SentBy(typed) = Flat(Meaning, typed)
    BY <1>3, SentIsFlat DEF InputShape
  <2>3. Flat(Meaning, <<msg>>) = Meaning[msg]
    <3> HIDE DEF msg
    <3> QED
      BY <1>2, MeaningType, FlatOne
  <2> QED
    BY <1>1, <1>2, <2>1, <2>2, <2>3
<1>8. ASSUME NEW g \in LanesHere PROVE Adds(g, arrived, Wire, Waiting, Sent)
  <2>1. g \in Lanes
    BY DEF LanesHere
  <2>2. Flat(g, <<>>) = <<>>
    BY FlatEmpty
  <2> DEFINE x == Flat(g, o)
  <2>3. x \in Seq(PaneTokens)
    BY <1>5, <2>1, LaneFlatType
  <2>4. (<<>> \o x) \o <<>> = x
    <3> HIDE DEF x
    <3> QED
      BY <2>3, ConcatEmptySeq
  <2> QED
    BY <1>1, <1>5, <1>6, <1>7, <2>2, <2>4 DEF Adds
<1> QED
  BY <1>3, <1>4, <1>8 DEF InputInv, Balanced

-----------------------------------------------------------------------------
(* What the invariant says of the pane *)

\* Those who watch everything.
Effect ==
  [t \in Tokens |->
    IF t \in PaneTokens THEN <<t>>
    ELSE IF t \in Starts /\ t # SendKeys THEN <<Size(t[2])>> ELSE <<>>]

\* Those who watch one kind.
OneKind(kind) ==
  [t \in Tokens |->
    IF t \in PaneTokens THEN (IF t[1] = kind THEN <<t>> ELSE <<>>)
    ELSE IF t \in Starts /\ t # SendKeys /\ kind = "size" THEN <<Size(t[2])>> ELSE <<>>]

\* What does not reach the pane is no key and no size.
LEMMA TokensApart ==
    /\ SendKeys \in Tokens /\ SendKeys \notin PaneTokens
    /\ LineEnd \in Tokens /\ LineEnd \notin PaneTokens /\ LineEnd \notin Starts
    /\ \A s \in AllSizes :
         /\ Resize(s) \in Tokens /\ Resize(s) \notin PaneTokens
         /\ Resize(s) \in Starts /\ Resize(s) # SendKeys
         /\ Size(s) \in PaneTokens /\ Size(s) \in Tokens /\ Size(s)[1] = "size"
    /\ \A t \in Starts : t # SendKeys => t[2] \in AllSizes
    /\ PaneTokens \subseteq Tokens /\ KeyTokens \subseteq PaneTokens /\ SizeTokens \subseteq PaneTokens
<1>1. \A t \in PaneTokens : t[1] \in {"key", "size"}
  BY KeysApart DEF PaneTokens
<1>2. SendKeys \notin PaneTokens /\ LineEnd \notin PaneTokens
      /\ \A s : Resize(s) \notin PaneTokens
  BY <1>1, KeysApart
<1>3. \A s \in AllSizes : Size(s) \in SizeTokens /\ Size(s)[1] = "size"
  BY DEF SizeTokens, Size
<1>4. \A t \in Starts : t # SendKeys => t[2] \in AllSizes
  BY KeysApart DEF Starts
<1> QED
  BY <1>2, <1>3, <1>4, KeysApart DEF Tokens, Starts, PaneTokens

LEMMA EffectLane ==
    /\ Effect \in Lanes
    /\ \A t \in PaneTokens : Effect[t] = <<t>>
<1>1. \A t \in Tokens : Effect[t] \in Seq(PaneTokens)
  <2> SUFFICES ASSUME NEW t \in Tokens PROVE Effect[t] \in Seq(PaneTokens)
    OBVIOUS
  <2>1. CASE t \in PaneTokens
    BY <2>1 DEF Effect
  <2>2. CASE t \notin PaneTokens /\ t \in Starts /\ t # SendKeys
    <3>1. Size(t[2]) \in PaneTokens
      BY <2>2, TokensApart
    <3> QED
      BY <2>2, <3>1 DEF Effect
  <2>3. CASE t \notin PaneTokens /\ ~(t \in Starts /\ t # SendKeys)
    BY <2>3, EmptySeq DEF Effect
  <2> QED
    BY <2>1, <2>2, <2>3
<1>2. Effect \in [Tokens -> Seq(PaneTokens)]
  <2>1. Effect = [t \in Tokens |-> Effect[t]]
    BY DEF Effect
  <2> QED
    BY <1>1, <2>1
<1>3. Effect[SendKeys] = <<>> /\ Effect[LineEnd] = <<>>
  BY TokensApart DEF Effect
<1>4. ASSUME NEW s \in AllSizes PROVE Effect[Resize(s)] = Effect[Size(s)]
  <2>1. Effect[Resize(s)] = <<Size(Resize(s)[2])>>
    BY TokensApart DEF Effect
  <2>2. Effect[Size(s)] = <<Size(s)>>
    BY TokensApart DEF Effect
  <2> QED
    BY <2>1, <2>2, KeysApart
<1>5. \A t \in PaneTokens : Effect[t] = <<t>>
  BY TokensApart DEF Effect
<1> QED
  BY <1>2, <1>3, <1>4, <1>5 DEF Lanes

LEMMA OneKindLane ==
    ASSUME NEW kind \in {"key", "size"}
    PROVE  /\ OneKind(kind) \in Lanes
           /\ \A t \in PaneTokens : OneKind(kind)[t] = IF t[1] = kind THEN <<t>> ELSE <<>>
           /\ \/ \A t \in KeyTokens : OneKind(kind)[t] = <<>>
              \/ \A t \in SizeTokens : OneKind(kind)[t] = <<>>
<1> DEFINE f == OneKind(kind)
<1>1. \A t \in PaneTokens : f[t] = IF t[1] = kind THEN <<t>> ELSE <<>>
  BY TokensApart DEF OneKind
<1>2. \A t \in Tokens : f[t] \in Seq(PaneTokens)
  <2> SUFFICES ASSUME NEW t \in Tokens PROVE f[t] \in Seq(PaneTokens)
    OBVIOUS
  <2>1. CASE t \in PaneTokens
    <3>1. <<t>> \in Seq(PaneTokens) /\ <<>> \in Seq(PaneTokens)
      BY <2>1, EmptySeq
    <3> QED
      BY <1>1, <2>1, <3>1
  <2>2. CASE t \notin PaneTokens /\ t \in Starts /\ t # SendKeys
    <3>1. <<Size(t[2])>> \in Seq(PaneTokens) /\ <<>> \in Seq(PaneTokens)
      BY <2>2, TokensApart, EmptySeq
    <3> QED
      BY <2>2, <3>1 DEF OneKind
  <2>3. CASE t \notin PaneTokens /\ ~(t \in Starts /\ t # SendKeys)
    BY <2>3, EmptySeq DEF OneKind
  <2> QED
    BY <2>1, <2>2, <2>3
<1>3. f \in [Tokens -> Seq(PaneTokens)]
  <2>1. f = [t \in Tokens |-> f[t]]
    BY DEF OneKind
  <2> QED
    BY <1>2, <2>1
<1>4. f[SendKeys] = <<>> /\ f[LineEnd] = <<>>
  BY TokensApart DEF OneKind
<1>5. ASSUME NEW s \in AllSizes PROVE f[Resize(s)] = f[Size(s)]
  <2>1. f[Resize(s)] = IF kind = "size" THEN <<Size(Resize(s)[2])>> ELSE <<>>
    BY TokensApart DEF OneKind
  <2>2. f[Size(s)] = IF kind = "size" THEN <<Size(s)>> ELSE <<>>
    BY <1>1, TokensApart
  <2> QED
    BY <2>1, <2>2, KeysApart
<1>6. \/ \A t \in KeyTokens : f[t] = <<>>
      \/ \A t \in SizeTokens : f[t] = <<>>
  <2>1. CASE kind = "key"
    <3>1. \A t \in SizeTokens : t[1] # kind
      BY <2>1, KeysApart
    <3> QED
      BY <1>1, <3>1, TokensApart
  <2>2. CASE kind = "size"
    <3>1. \A t \in KeyTokens : t[1] # kind
      BY <2>2, KeysApart
    <3> QED
      BY <1>1, <3>1, TokensApart
  <2> QED
    BY <2>1, <2>2
<1> HIDE DEF f
<1>7. f \in Lanes
  BY <1>3, <1>4, <1>5 DEF Lanes
<1> QED
  BY <1>1, <1>6, <1>7 DEF f

\* Ends is IsSuffix, which is defined with the reverse.
LEMMA EndIsSuffix ==
    ASSUME NEW S, NEW s \in Seq(S), NEW t \in Seq(S), Ends(s, t)
    PROVE  IsSuffix(s, t)
<1> DEFINE n == Len(s)
           m == Len(t)
           u == Reverse(s)
           v == Reverse(t)
<1>1. n \in Nat /\ m \in Nat /\ n <= m /\ \A i \in 1..n : s[i] = t[m - n + i]
  BY LenProperties DEF Ends
<1>2. Len(u) = n /\ u = [i \in 1..n |-> s[(n - i) + 1]]
  BY <1>1 DEF Reverse
<1>3. Len(v) = m /\ v = [i \in 1..m |-> t[(m - i) + 1]]
  BY <1>1 DEF Reverse
<1> HIDE DEF n, m, u, v
<1>4. ASSUME NEW i \in 1..n PROVE u[i] = v[i]
  <2>1. (n - i) + 1 \in 1..n /\ m - n + ((n - i) + 1) = (m - i) + 1 /\ i \in 1..m
    BY <1>1
  <2> QED
    BY <1>1, <1>2, <1>3, <2>1
<1>5. SubSeq(u, 1, n) = [i \in 1..n |-> u[i]]
  BY <1>1
<1>6. SubSeq(v, 1, n) = [i \in 1..n |-> v[i]]
  BY <1>1
<1>7. SubSeq(u, 1, n) = SubSeq(v, 1, n)
  BY <1>4, <1>5, <1>6
<1> QED
  BY <1>1, <1>2, <1>3, <1>7 DEF IsPrefix, IsSuffix, u, v

\* The invariant implies the types,
LEMMA InputInvTypes ==
    ASSUME InputInv
    PROVE  InputTypeOK
<1>1. InputShape /\ WireShape
  BY DEF InputInv
<1>2. IsSuffix(inbox, typed)
  BY <1>1, EndIsSuffix DEF InputShape
<1>3. Len(line) <= CHUNK_SIZE + 1
  <2>1. CASE mode = "control"
    <3> DEFINE l == line
               p == pty
               q == rest
               w == (l \o p) \o q
               r == p \o q
    <3>1. l \in Seq(Tokens \ {LineEnd}) /\ p \in Seq(Tokens) /\ q \in Seq(Tokens)
      BY <1>1 DEF InputShape
    <3>2. WellFormed(w) /\ w \in Seq(Tokens) /\ l \in Seq(Tokens)
      BY <1>1, <2>1, InputTypes DEF WireShape
    <3>3. r \in Seq(Tokens)
      BY <3>1, ConcatProperties
    <3>4. w = l \o r
      <4> HIDE DEF l, p, q
      <4>1. Regroups(l, p, q)
        BY <3>1, <3>2, Regrouped
      <4> QED
        BY <4>1 DEF Regroups
    <3> HIDE DEF w, r
    <3>5. Len(l) <= CHUNK_SIZE + 1
      BY <3>1, <3>2, <3>3, <3>4, LineBounded
    <3> QED
      BY <3>5
  <2>2. CASE mode # "control"
    <3>1. line = <<>>
      BY <1>1, <2>2 DEF InputShape, WireShape
    <3> QED
      BY <3>1, InputAssumption
  <2> QED
    BY <2>1, <2>2
<1> QED
  BY <1>1, <1>2, <1>3 DEF InputTypeOK, InputShape, WireShape

\* Only in terms of a lane.
LEMMA OnlyIsFlat ==
    ASSUME NEW kind \in {"key", "size"}, NEW s \in Seq(PaneTokens)
    PROVE  Only(s, kind) = Flat(OneKind(kind), s)
<1> DEFINE f == OneKind(kind)
<1>1. \A i \in DOMAIN s : s[i] \in PaneTokens
  BY ElementOfSeq, LenProperties
<1>2. \A i \in DOMAIN s : f[s[i]] = IF s[i][1] = kind THEN <<s[i]>> ELSE <<>>
  BY <1>1, OneKindLane
<1> HIDE DEF f
<1>3. [i \in DOMAIN s |-> f[s[i]]] = [i \in DOMAIN s |-> IF s[i][1] = kind THEN <<s[i]>> ELSE <<>>]
  BY <1>2
<1> QED
  BY <1>3 DEF Only, Flat, f

\* What those who watch one kind see is the start of what was sent, and all of it
\* when nothing is on the wire and nothing waits.
LEMMA SeenInOrder ==
    ASSUME InputInv, NEW g \in LanesHere
    PROVE  /\ IsPrefix(Flat(g, arrived), Flat(g, Sent))
           /\ Wire = <<>> /\ Waiting = <<>> => Flat(g, Sent) = Flat(g, arrived)
<1>1. InputShape /\ Adds(g, arrived, Wire, Waiting, Sent)
  BY DEF InputInv, Balanced
<1>2. g \in Lanes
  BY DEF LanesHere
<1> DEFINE A == Flat(g, arrived)
           W == Flat(g, Wire)
           J == Flat(g, Waiting)
           T == Flat(g, Sent)
<1>3. A \in Seq(PaneTokens) /\ W \in Seq(PaneTokens) /\ J \in Seq(PaneTokens)
  BY <1>1, <1>2, InputTypes, LaneFlatType
<1>4. T = (A \o W) \o J
  BY <1>1 DEF Adds
<1>5. Wire = <<>> /\ Waiting = <<>> => W = <<>> /\ J = <<>>
  BY FlatEmpty
<1> HIDE DEF A, W, J, T
<1>6. IsPrefix(A, T) /\ (W = <<>> /\ J = <<>> => T = A)
  BY <1>3, <1>4, PrefixOfThree
<1> QED
  BY <1>5, <1>6 DEF A, T

\* When all is quiet nothing is on the wire and nothing waits.
LEMMA QuietIsEmpty ==
    ASSUME InputInv, Quiet
    PROVE  Wire = <<>> /\ Waiting = <<>>
<1>1. writer = "recv" /\ inbox = <<>> /\ rest = <<>> /\ pty = <<>> /\ line = <<>>
  BY DEF Quiet
<1>2. (<<>> \o <<>>) \o <<>> = <<>>
  BY EmptySeq, ConcatEmptySeq
<1>3. Wire = <<>>
  BY <1>1, <1>2 DEF Wire
<1>4. Waiting = <<>>
  BY <1>1, FlatEmpty DEF Waiting
<1> QED
  BY <1>3, <1>4

\* Keys and sizes are all there is.
LEMMA KindsCount ==
    ASSUME NEW s \in Seq(PaneTokens)
    PROVE  Len(s) = Len(Flat(OneKind("key"), s)) + Len(Flat(OneKind("size"), s))
<1> DEFINE k == OneKind("key")
           z == OneKind("size")
           T == {u \in Seq(PaneTokens) : Len(u) = Len(Flat(k, u)) + Len(Flat(z, u))}
<1>1. k \in [Tokens -> Seq(PaneTokens)] /\ z \in [Tokens -> Seq(PaneTokens)]
  BY OneKindLane, LaneType
<1>2. \A t \in PaneTokens : \/ k[t] = <<t>> /\ z[t] = <<>>
                            \/ k[t] = <<>> /\ z[t] = <<t>>
  <2>1. \A t \in PaneTokens : t[1] \in {"key", "size"}
    BY KeysApart DEF PaneTokens
  <2> QED
    BY <2>1, OneKindLane
<1> HIDE DEF k, z
<1>3. <<>> \in T
  BY FlatEmpty, EmptySeq
<1>4. ASSUME NEW u \in T, NEW t \in PaneTokens PROVE Append(u, t) \in T
  <2> DEFINE v == Append(u, t)
  <2>1. u \in Seq(PaneTokens) /\ u \in Seq(Tokens) /\ t \in Tokens
    BY SeqMonotonic, TokensApart
  <2>2. Len(u) = Len(Flat(k, u)) + Len(Flat(z, u))
    OBVIOUS
  <2>3. Len(v) = Len(u) + 1 /\ v \in Seq(PaneTokens)
    BY <2>1, AppendProperties
  <2> HIDE DEF T
  <2>4. /\ Len(Flat(k, v)) = Len(Flat(k, u)) + Len(k[t])
        /\ Len(Flat(k, u)) \in Nat /\ Len(k[t]) \in Nat
    BY <1>1, <2>1, FlatLen
  <2>5. /\ Len(Flat(z, v)) = Len(Flat(z, u)) + Len(z[t])
        /\ Len(Flat(z, u)) \in Nat /\ Len(z[t]) \in Nat
    BY <1>1, <2>1, FlatLen
  <2>6. Len(k[t]) + Len(z[t]) = 1
    <3>1. Len(<<t>>) = 1 /\ Len(<<>>) = 0
      BY EmptySeq
    <3>2. CASE k[t] = <<t>> /\ z[t] = <<>>
      BY <3>1, <3>2
    <3>3. CASE k[t] = <<>> /\ z[t] = <<t>>
      BY <3>1, <3>3
    <3> QED
      BY <1>2, <3>2, <3>3
  <2> HIDE DEF v
  <2>7. Len(v) = Len(Flat(k, v)) + Len(Flat(z, v))
    <3> DEFINE n1 == Len(Flat(k, u))
               n2 == Len(Flat(z, u))
               n3 == Len(k[t])
               n4 == Len(z[t])
    <3>1. n1 \in Nat /\ n2 \in Nat /\ n3 \in Nat /\ n4 \in Nat /\ n3 + n4 = 1
      BY <2>4, <2>5, <2>6
    <3>2. Len(v) = (n1 + n2) + 1
      BY <2>2, <2>3
    <3>3. Len(Flat(k, v)) = n1 + n3 /\ Len(Flat(z, v)) = n2 + n4
      BY <2>4, <2>5
    <3> HIDE DEF n1, n2, n3, n4
    <3> QED
      BY <3>1, <3>2, <3>3
  <2> QED
    BY <2>3, <2>7 DEF v, T
<1> HIDE DEF T
<1>5. T \in SUBSET Seq(PaneTokens)
  BY DEF T
<1>6. T = Seq(PaneTokens)
  BY <1>3, <1>4, <1>5, SeqInduct
<1>7. s \in T
  BY <1>6
<1> QED
  BY <1>7 DEF T, k, z

\* and that input arrives intact.
LEMMA InputInvIntact ==
    ASSUME InputInv
    PROVE  InputIntact
<1>1. arrived \in Seq(PaneTokens) /\ Sent \in Seq(PaneTokens) /\ mode \in {"control", "direct"}
  BY InputTypes DEF InputInv, InputShape
<1>2. Quiet => Wire = <<>> /\ Waiting = <<>>
  BY QuietIsEmpty
<1>3. CASE mode = "control"
  <2>1. Effect \in LanesHere
    BY <1>3, EffectLane DEF LanesHere
  <2>2. ASSUME NEW s \in Seq(PaneTokens) PROVE Flat(Effect, s) = s
    <3>1. s \in Seq(Tokens)
      BY SeqMonotonic, TokensApart
    <3>2. \A i \in 1..Len(s) : Effect[s[i]] = <<s[i]>>
      BY EffectLane, ElementOfSeq
    <3>3. Effect \in [Tokens -> Seq(PaneTokens)]
      BY EffectLane, LaneType
    <3> QED
      BY <3>1, <3>2, <3>3, FlatSame
  <2>3. Flat(Effect, arrived) = arrived /\ Flat(Effect, Sent) = Sent
    BY <1>1, <2>2
  <2>4. IsPrefix(arrived, Sent) /\ (Quiet => Sent = arrived)
    BY <1>2, <2>1, <2>3, SeenInOrder
  <2> QED
    BY <1>3, <2>4 DEF InputIntact, Prefix
<1>4. CASE mode = "direct"
  <2>1. ASSUME NEW kind \in {"key", "size"} PROVE OneKind(kind) \in LanesHere
    BY OneKindLane DEF LanesHere
  <2>2. ASSUME NEW kind \in {"key", "size"}
        PROVE  /\ IsPrefix(Only(arrived, kind), Only(Sent, kind))
               /\ Quiet => Flat(OneKind(kind), Sent) = Flat(OneKind(kind), arrived)
    <3>1. /\ Only(arrived, kind) = Flat(OneKind(kind), arrived)
          /\ Only(Sent, kind) = Flat(OneKind(kind), Sent)
      BY <1>1, OnlyIsFlat
    <3>2. OneKind(kind) \in LanesHere
      BY <2>1
    <3>3. /\ IsPrefix(Flat(OneKind(kind), arrived), Flat(OneKind(kind), Sent))
          /\ Quiet => Flat(OneKind(kind), Sent) = Flat(OneKind(kind), arrived)
      BY <1>2, <3>2, SeenInOrder
    <3> QED
      BY <3>1, <3>3
  <2>3. Prefix(arrived)
    BY <1>4, <2>2 DEF Prefix
  <2>4. Len(arrived) = Len(Flat(OneKind("key"), arrived)) + Len(Flat(OneKind("size"), arrived))
    BY <1>1, KindsCount
  <2>5. Len(Sent) = Len(Flat(OneKind("key"), Sent)) + Len(Flat(OneKind("size"), Sent))
    BY <1>1, KindsCount
  <2>6. Quiet => Flat(OneKind("key"), Sent) = Flat(OneKind("key"), arrived)
    BY <2>2
  <2>7. Quiet => Flat(OneKind("size"), Sent) = Flat(OneKind("size"), arrived)
    BY <2>2
  <2> QED
    BY <2>3, <2>4, <2>5, <2>6, <2>7 DEF InputIntact
<1> QED
  BY <1>1, <1>3, <1>4

-----------------------------------------------------------------------------
(* Steps of the replay *)

\* x is what tmux queues when the pane goes from line l and screen a to l2, a2.
Item(x, l, a, l2, a2) ==
  \/ x = [line |-> l + 1] /\ l2 = l + 1 /\ a2 = a
  \/ x = [alt |-> ~a] /\ l2 = l /\ a2 = ~a

\* q is what it queues from l, a to l2, a2; L and A are the lines and screens
\* in between.
Leads(l, a, q, l2, a2) ==
  \E L \in [0..Len(q) -> Nat], A \in [0..Len(q) -> BOOLEAN] :
    /\ L[0] = l /\ A[0] = a /\ L[Len(q)] = l2 /\ A[Len(q)] = a2
    /\ \A i \in 1..Len(q) : Item(q[i], L[i - 1], A[i - 1], L[i], A[i])
    /\ \A i, j \in 0..Len(q) : i <= j => L[i] <= L[j]

Items == [line : Nat] \cup [alt : BOOLEAN]

LEMMA LeadsNowhere ==
    ASSUME NEW l \in Nat, NEW a \in BOOLEAN, NEW l2, NEW a2
    PROVE  Leads(l, a, <<>>, l2, a2) <=> l = l2 /\ a = a2
<1>1. ASSUME l = l2, a = a2 PROVE Leads(l, a, <<>>, l2, a2)
  <2> DEFINE L == [i \in 0..0 |-> l]
             A == [i \in 0..0 |-> a]
  <2>1. L \in [0..0 -> Nat] /\ A \in [0..0 -> BOOLEAN] /\ L[0] = l /\ A[0] = a
    OBVIOUS
  <2>2. \A i, j \in 0..0 : i <= j => L[i] <= L[j]
    OBVIOUS
  <2>3. Len(<<>>) = 0 /\ 1..0 = {}
    OBVIOUS
  <2> HIDE DEF L, A
  <2> QED
    BY <1>1, <2>1, <2>2, <2>3 DEF Leads
<1>2. ASSUME Leads(l, a, <<>>, l2, a2) PROVE l = l2 /\ a = a2
  BY <1>2 DEF Leads
<1> QED
  BY <1>1, <1>2

\* Something more is queued.
LEMMA LeadsOn ==
    ASSUME NEW l, NEW a, NEW q \in Seq(Items), NEW l2 \in Nat, NEW a2 \in BOOLEAN,
           Leads(l, a, q, l2, a2),
           NEW x \in Items, NEW l3 \in Nat, NEW a3 \in BOOLEAN, Item(x, l2, a2, l3, a3)
    PROVE  Leads(l, a, Append(q, x), l3, a3)
<1>1. PICK L \in [0..Len(q) -> Nat], A \in [0..Len(q) -> BOOLEAN] :
        /\ L[0] = l /\ A[0] = a /\ L[Len(q)] = l2 /\ A[Len(q)] = a2
        /\ \A i \in 1..Len(q) : Item(q[i], L[i - 1], A[i - 1], L[i], A[i])
        /\ \A i, j \in 0..Len(q) : i <= j => L[i] <= L[j]
  BY DEF Leads
<1> DEFINE n == Len(q)
           p == Append(q, x)
           M == [i \in 0..n + 1 |-> IF i <= n THEN L[i] ELSE l3]
           B == [i \in 0..n + 1 |-> IF i <= n THEN A[i] ELSE a3]
<1>2. n \in Nat /\ Len(p) = n + 1 /\ p[n + 1] = x /\ \A i \in 1..n : p[i] = q[i]
  BY AppendProperties, LenProperties
<1> HIDE DEF p, n
<1>3. /\ M \in [0..n + 1 -> Nat] /\ B \in [0..n + 1 -> BOOLEAN]
      /\ \A i \in 0..n : M[i] = L[i] /\ B[i] = A[i]
      /\ M[n + 1] = l3 /\ B[n + 1] = a3
  BY <1>1, <1>2 DEF n
<1> HIDE DEF M, B
<1>4. M[0] = l /\ B[0] = a /\ M[n] = l2 /\ B[n] = a2
  BY <1>1, <1>2, <1>3 DEF n
<1>5. ASSUME NEW i \in 1..n + 1
      PROVE  Item(p[i], M[i - 1], B[i - 1], M[i], B[i])
  <2>1. CASE i \in 1..n
    <3>1. i - 1 \in 0..n /\ i \in 0..n
      BY <1>2, <2>1
    <3> QED
      BY <1>1, <1>2, <1>3, <2>1, <3>1 DEF n
  <2>2. CASE i = n + 1
    <3>1. i - 1 = n
      BY <1>2, <2>2
    <3> QED
      BY <1>2, <1>3, <1>4, <2>2, <3>1
  <2> QED
    BY <1>2, <2>1, <2>2
<1>6. l2 <= l3
  BY DEF Item
<1>7. ASSUME NEW i \in 0..n + 1, NEW j \in 0..n + 1, i <= j
      PROVE  M[i] <= M[j]
  <2>1. CASE j \in 0..n
    BY <1>1, <1>2, <1>3, <1>7, <2>1 DEF n
  <2>2. CASE i \in 0..n /\ j = n + 1
    <3>1. L[i] <= l2 /\ L[i] \in Nat
      BY <1>1, <1>2, <2>2 DEF n
    <3> QED
      BY <1>3, <1>6, <2>2, <3>1
  <2>3. CASE i = n + 1 /\ j = n + 1
    BY <1>3, <2>3
  <2> QED
    BY <1>2, <1>7, <2>1, <2>2, <2>3
<1> QED
  BY <1>2, <1>3, <1>4, <1>5, <1>7 DEF Leads, p

\* The first of it is taken.
LEMMA LeadsPast ==
    ASSUME NEW l \in Nat, NEW a \in BOOLEAN, NEW q \in Seq(Items), q # <<>>, NEW l2, NEW a2,
           Leads(l, a, q, l2, a2)
    PROVE  \E l1 \in Nat, a1 \in BOOLEAN :
             /\ Item(Head(q), l, a, l1, a1)
             /\ Leads(l1, a1, Tail(q), l2, a2)
             /\ l1 <= l2
<1>1. PICK L \in [0..Len(q) -> Nat], A \in [0..Len(q) -> BOOLEAN] :
        /\ L[0] = l /\ A[0] = a /\ L[Len(q)] = l2 /\ A[Len(q)] = a2
        /\ \A i \in 1..Len(q) : Item(q[i], L[i - 1], A[i - 1], L[i], A[i])
        /\ \A i, j \in 0..Len(q) : i <= j => L[i] <= L[j]
  BY DEF Leads
<1> DEFINE n == Len(q) - 1
           p == Tail(q)
           M == [i \in 0..n |-> L[i + 1]]
           B == [i \in 0..n |-> A[i + 1]]
<1>2. /\ n \in Nat /\ Len(q) = n + 1 /\ Len(p) = n /\ \A i \in 1..n : p[i] = q[i + 1]
      /\ Head(q) = q[1]
  BY HeadTailProperties, EmptySeq, LenProperties
<1> HIDE DEF p, n
<1>3. \A i \in 0..n : i + 1 \in 0..n + 1 /\ M[i] = L[i + 1] /\ B[i] = A[i + 1]
  BY <1>2
<1>4. M \in [0..n -> Nat] /\ B \in [0..n -> BOOLEAN]
  BY <1>1, <1>2, <1>3
<1> HIDE DEF M, B
<1>5. M[n] = l2 /\ B[n] = a2 /\ M[0] = L[1] /\ B[0] = A[1]
  BY <1>1, <1>2, <1>3
<1>6. ASSUME NEW i \in 1..n
      PROVE  Item(p[i], M[i - 1], B[i - 1], M[i], B[i])
  <2>1. /\ i + 1 \in 1..n + 1 /\ i - 1 \in 0..n /\ i \in 0..n /\ (i + 1) - 1 = i
        /\ (i - 1) + 1 = i
    BY <1>2
  <2>2. Item(q[i + 1], L[(i + 1) - 1], A[(i + 1) - 1], L[i + 1], A[i + 1])
    BY <1>1, <1>2, <2>1
  <2>3. M[i - 1] = L[i] /\ B[i - 1] = A[i] /\ M[i] = L[i + 1] /\ B[i] = A[i + 1]
    BY <1>3, <2>1
  <2> QED
    BY <1>2, <2>1, <2>2, <2>3
<1>7. \A i, j \in 0..n : i <= j => M[i] <= M[j]
  BY <1>1, <1>2, <1>3
<1>8. Leads(L[1], A[1], p, l2, a2)
  BY <1>2, <1>4, <1>5, <1>6, <1>7 DEF Leads
<1>9. Item(Head(q), l, a, L[1], A[1]) /\ L[1] \in Nat /\ A[1] \in BOOLEAN /\ L[1] <= l2
  BY <1>1, <1>2
<1> QED
  BY <1>8, <1>9 DEF p

-----------------------------------------------------------------------------
(* Rows *)

LEMMA RowsProperties ==
    ASSUME NEW l \in Nat
    PROVE  Rows(l) \in Seq(Nat) /\ Len(Rows(l)) = l /\ \A i \in 1..l : Rows(l)[i] = i
BY DEF Rows

LEMMA RowsGrow ==
    ASSUME NEW l \in Nat
    PROVE  Append(Rows(l), l + 1) = Rows(l + 1)
<1>0. Rows(l) \in Seq(Nat) /\ Len(Rows(l)) = l /\ (\A i \in 1..l : Rows(l)[i] = i) /\ l + 1 \in Nat
  BY RowsProperties
<1> DEFINE r == Rows(l)
           t == Append(r, l + 1)
<1> HIDE DEF r
<1>a. r \in Seq(Nat) /\ Len(r) = l /\ \A i \in 1..l : r[i] = i
  BY <1>0 DEF r
<1>b. /\ t \in Seq(Nat) /\ Len(t) = Len(r) + 1 /\ t[Len(r) + 1] = l + 1
      /\ \A i \in 1..Len(r) : t[i] = r[i]
  BY <1>0, <1>a, AppendProperties
<1> HIDE DEF t
<1>1. t \in Seq(Nat) /\ Len(t) = l + 1 /\ t[l + 1] = l + 1 /\ \A i \in 1..l : t[i] = i
  BY <1>a, <1>b
<1>2. Rows(l + 1) \in Seq(Nat) /\ Len(Rows(l + 1)) = l + 1 /\ \A i \in 1..l + 1 : Rows(l + 1)[i] = i
  BY RowsProperties
<1>3. \A i \in 1..l + 1 : i \in 1..l \/ i = l + 1
  OBVIOUS
<1>4. \A i \in 1..l + 1 : t[i] = Rows(l + 1)[i]
  BY <1>1, <1>2, <1>3
<1>5. t = Rows(l + 1)
  BY <1>1, <1>2, <1>4, SeqEqual
<1> QED
  BY <1>5 DEF t, r

LEMMA LastRowsOf ==
    ASSUME NEW l \in Nat, Height <= l
    PROVE  LastRows(Rows(l), Height) = [i \in 1..Height |-> l - Height + i]
<1>1. l - Height + 1 \in Int /\ l \in Int /\ Height \in Nat /\ Height > 0
  BY ReplayAssumption
<1>2. Rows(l) \in Seq(Nat) /\ Len(Rows(l)) = l /\ \A i \in 1..l : Rows(l)[i] = i
  BY RowsProperties
<1> DEFINE s == SubSeq(Rows(l), l - Height + 1, l)
           t == [i \in 1..Height |-> l - Height + i]
<1>3. /\ s \in Seq(Nat) /\ Len(s) = Height
      /\ \A i \in 1..Height : s[i] = Rows(l)[l - Height + i]
  <2> DEFINE r == Rows(l)
             m == l - Height + 1
  <2>1. r \in Seq(Nat) /\ Len(r) = l /\ m \in Int
    BY <1>1, <1>2
  <2>2. (m..l) \subseteq (1..l) /\ l - m + 1 = Height
    BY <1>1
  <2>3. m <= l + 1
    BY <1>1
  <2>4. \A i \in 1..Height : m + i - 1 = l - Height + i
    BY <1>1
  <2> HIDE DEF r, m
  <2>5. /\ SubSeq(r, m, l) \in Seq(Nat) /\ Len(SubSeq(r, m, l)) = Height
        /\ \A i \in 1..Height : SubSeq(r, m, l)[i] = r[m + i - 1]
    BY <2>1, <2>2, <2>3, SubSeqProperties
  <2>6. s = SubSeq(r, m, l)
    BY DEF r, m
  <2>7. /\ s \in Seq(Nat) /\ Len(s) = Height
        /\ \A i \in 1..Height : s[i] = r[l - Height + i]
    BY <2>4, <2>5, <2>6
  <2> QED
    BY <2>7 DEF r
<1>4. t \in Seq(Nat) /\ Len(t) = Height /\ \A i \in 1..Height : t[i] = l - Height + i
  BY <1>1
<1> HIDE DEF s, t
<1>5. \A i \in 1..Height : s[i] = t[i]
  BY <1>1, <1>2, <1>3, <1>4
<1>6. s = t
  BY <1>3, <1>4, <1>5, SeqEqual
<1> QED
  BY <1>2, <1>6 DEF LastRows, s, t

\* The history without its last rows and the visible rows are the history.
LEMMA Assembled ==
    ASSUME NEW l \in Nat, Height <= l,
           NEW c, c = assemble_capture_output(Rows(l), LastRows(Rows(l), Height), Height)
    PROVE  c.scrollback \o c.rows = Rows(l)
<1> DEFINE s == SubSeq(Rows(l), 1, l - Height)
           t == LastRows(Rows(l), Height)
<1>1. l - Height \in Nat /\ Height \in Nat /\ Height > 0
  BY ReplayAssumption
<1>2. Rows(l) \in Seq(Nat) /\ Len(Rows(l)) = l /\ \A i \in 1..l : Rows(l)[i] = i
  BY RowsProperties
<1>3. s \in Seq(Nat) /\ Len(s) = l - Height /\ \A i \in 1..l - Height : s[i] = i
  BY <1>1, <1>2, SubSeqProperties
<1>4. t = [i \in 1..Height |-> l - Height + i]
  BY LastRowsOf
<1>5. t \in Seq(Nat) /\ Len(t) = Height /\ \A i \in 1..Height : t[i] = l - Height + i
  BY <1>1, <1>4
<1> HIDE DEF s, t
<1>6. /\ s \o t \in Seq(Nat) /\ Len(s \o t) = l
      /\ \A i \in 1..l : (s \o t)[i] = IF i <= l - Height THEN s[i] ELSE t[i - (l - Height)]
  BY <1>1, <1>3, <1>5, ConcatProperties
<1>7. ASSUME NEW i \in 1..l PROVE (s \o t)[i] = Rows(l)[i]
  <2>1. CASE i <= l - Height
    BY <1>1, <1>2, <1>3, <1>6, <2>1
  <2>2. CASE ~ i <= l - Height
    <3>1. i - (l - Height) \in 1..Height /\ l - Height + (i - (l - Height)) = i
      BY <1>1, <2>2
    <3> QED
      BY <1>2, <1>5, <1>6, <2>2, <3>1
  <2> QED
    BY <2>1, <2>2
<1>8. s \o t = Rows(l)
  BY <1>2, <1>6, <1>7, SeqEqual
<1>9. c = [scrollback |-> s, rows |-> t]
  <2>1. (IF Len(Rows(l)) > Height THEN Len(Rows(l)) - Height ELSE 0) = l - Height
    BY <1>1, <1>2
  <2> QED
    BY <2>1 DEF assemble_capture_output, s, t
<1> QED
  BY <1>8, <1>9

\* The top row goes into the scrollback, the new line below the rest.
LEMMA Pushed ==
    ASSUME NEW sb \in Seq(Nat), NEW rows \in Seq(Nat), rows # <<>>, NEW x \in Nat
    PROVE  Append(sb, Head(rows)) \o Append(Tail(rows), x) = Append(sb \o rows, x)
<1> DEFINE m == Len(sb)
           n == Len(rows)
           p == Append(sb, Head(rows))
           q == Append(Tail(rows), x)
           s == p \o q
           t == Append(sb \o rows, x)
<1>1. /\ m \in Nat /\ n \in Nat \ {0} /\ Head(rows) = rows[1] /\ Head(rows) \in Nat
      /\ Tail(rows) \in Seq(Nat) /\ Len(Tail(rows)) = n - 1
      /\ \A i \in 1..n - 1 : Tail(rows)[i] = rows[i + 1]
  BY HeadTailProperties, EmptySeq, LenProperties
<1>2. /\ p \in Seq(Nat) /\ Len(p) = m + 1 /\ p[m + 1] = rows[1]
      /\ \A i \in 1..m : p[i] = sb[i]
  BY <1>1, AppendProperties
<1>3. /\ q \in Seq(Nat) /\ Len(q) = n /\ q[n] = x
      /\ \A i \in 1..n - 1 : q[i] = Tail(rows)[i]
  BY <1>1, AppendProperties
<1>4. /\ sb \o rows \in Seq(Nat) /\ Len(sb \o rows) = m + n
      /\ \A i \in 1..m + n : (sb \o rows)[i] = IF i <= m THEN sb[i] ELSE rows[i - m]
  BY <1>1, ConcatProperties
<1>5. /\ t \in Seq(Nat) /\ Len(t) = m + n + 1 /\ t[m + n + 1] = x
      /\ \A i \in 1..m + n : t[i] = (sb \o rows)[i]
  BY <1>1, <1>4, AppendProperties
<1> HIDE DEF p, q, t, m, n
<1>0. m \in Nat /\ n \in Nat
  BY <1>1
<1>6. /\ s \in Seq(Nat) /\ Len(s) = m + n + 1
      /\ \A i \in 1..m + n + 1 : s[i] = IF i <= m + 1 THEN p[i] ELSE q[i - (m + 1)]
  <2>1. /\ s \in Seq(Nat) /\ Len(s) = Len(p) + Len(q)
        /\ \A i \in 1..Len(p) + Len(q) : s[i] = IF i <= Len(p) THEN p[i] ELSE q[i - Len(p)]
    BY <1>2, <1>3, ConcatProperties
  <2>2. Len(p) = m + 1 /\ Len(p) + Len(q) = m + n + 1
    BY <1>1, <1>2, <1>3
  <2> QED
    BY <2>1, <2>2
<1> HIDE DEF s
<1>7. ASSUME NEW i \in 1..m + n + 1 PROVE s[i] = t[i]
  <2>1. CASE i \in 1..m
    BY <1>1, <1>2, <1>4, <1>5, <1>6, <2>1
  <2>2. CASE i = m + 1
    <3>1. i \in 1..m + n /\ i - m = 1 /\ i <= m + 1 /\ ~ i <= m
      BY <1>1, <2>2
    <3>2. s[i] = rows[1]
      BY <1>2, <1>6, <2>2, <3>1
    <3>3. t[i] = rows[i - m]
      BY <1>4, <1>5, <3>1
    <3> QED
      BY <3>1, <3>2, <3>3
  <2>3. CASE i \in m + 2..m + n
    <3> DEFINE j == i - (m + 1)
    <3>1. j \in 1..n - 1 /\ j + 1 = i - m /\ i \in 1..m + n /\ ~ i <= m + 1 /\ ~ i <= m
      BY <1>1, <2>3
    <3>2. s[i] = q[j]
      BY <1>6, <3>1
    <3> HIDE DEF j
    <3>3. q[j] = rows[j + 1]
      BY <1>1, <1>3, <3>1
    <3>4. t[i] = rows[i - m]
      BY <1>4, <1>5, <3>1
    <3> QED
      BY <3>1, <3>2, <3>3, <3>4
  <2>4. CASE i = m + n + 1
    <3>1. i - (m + 1) = n /\ ~ i <= m + 1
      BY <1>1, <2>4
    <3> QED
      BY <1>3, <1>5, <1>6, <2>4, <3>1
  <2>5. i \in 1..m \/ i = m + 1 \/ i \in m + 2..m + n \/ i = m + n + 1
    BY <1>0
  <2> QED
    BY <2>1, <2>2, <2>3, <2>4, <2>5
<1>8. s = t
  BY <1>5, <1>6, <1>7, SeqEqual
<1> QED
  BY <1>8 DEF s, t, p, q

\* Nothing of what is shown is lost then, and x is shown.
LEMMA PushedShows ==
    ASSUME NEW s \in Seq(Nat), NEW x \in Nat
    PROVE  ToSet(Append(s, x)) = ToSet(s) \cup {x}
<1>1. /\ Append(s, x) \in Seq(Nat) /\ Len(s) \in Nat /\ Len(Append(s, x)) = Len(s) + 1
      /\ Append(s, x)[Len(s) + 1] = x /\ \A i \in 1..Len(s) : Append(s, x)[i] = s[i]
  BY AppendProperties, LenProperties
<1>2. DOMAIN s = 1..Len(s) /\ DOMAIN Append(s, x) = 1..Len(s) + 1
  BY <1>1, LenProperties
<1>3. \A i \in 1..Len(s) + 1 : i \in 1..Len(s) \/ i = Len(s) + 1
  BY <1>1
<1>4. \A i \in 1..Len(s) : i \in 1..Len(s) + 1
  BY <1>1
<1>5. Len(s) + 1 \in 1..Len(s) + 1
  BY <1>1
<1> QED
  BY <1>1, <1>2, <1>3, <1>4, <1>5 DEF ToSet

-----------------------------------------------------------------------------
(* The inductive invariant *)

\* Rows of the pane or of the browser: lines that were printed, 0 is blank.
Visible == [1..Height -> 0..pane.lines]

Contents == {<<>>} \cup [scrollback : Seq(Nat), rows : Visible]

ReplayShape ==
  /\ ReplayTypeOK
  /\ pane \in [lines : Nat, alt : BOOLEAN, switches : Nat]
  /\ attached \in BOOLEAN
  /\ queue \in Seq(Items)
  /\ got \in [alt : BOOLEAN, all : Seq(Nat), visible : {<<>>} \cup Visible,
              content : Contents, first : BOOLEAN]
  /\ screen \in [scrollback : Seq(Nat), rows : Visible, alt : BOOLEAN]
  /\ step \in {"query", "spawn"} => ~attached
  /\ step \notin {"replay", "live"} => got.content = <<>>
  /\ step = "cursor" => got.visible \in Visible
  /\ got.first => attached /\ step \in {"cursor", "replay", "live"}

\* Unless lines were printed at a bad moment, what is known by now of the lines
\* before the queue is all of them, once and in order.
Whole(l) ==
  "line" \notin disturbed =>
    /\ step \in {"query", "spawn", "scrollback", "visible"} => l = pane.lines
    /\ step \in {"visible", "cursor"} => got.all = Rows(l)
    /\ step = "cursor" => got.visible = LastRows(Rows(l), Height)
    /\ step = "replay" =>
         got.content # <<>> /\ got.content.scrollback \o got.content.rows = Rows(l)
    /\ step = "live" => screen.scrollback \o screen.rows = Rows(l)

\* Unless the pane switched unwatched, the screen before the queue is known.
Known(a) ==
  "switch" \notin disturbed =>
    /\ step \notin {"query", "live"} => got.alt = a
    /\ step = "live" => screen.alt = a

\* Nothing is missing from the rows of line v to line l, if v was the last one
\* when the visible rows were captured.
Covered(l, v) ==
  /\ step \in {"cursor", "replay"} =>
       /\ l <= v
       /\ got.visible = LastRows(Rows(v), Height)
       /\ got.content # <<>> => got.content.rows = got.visible
  /\ step = "live" /\ got.content # <<>> =>
       (v - Height + 1..v) \cup (v - Height + 1..l)
         \subseteq ToSet(screen.scrollback \o screen.rows)

\* The queue leads from what the captures or the browser have seen to the pane.
Follows ==
  \E l \in Height..pane.lines, a \in BOOLEAN :
    /\ Leads(l, a, queue, pane.lines, pane.alt)
    /\ Whole(l)
    /\ Known(a)
    /\ got.first => \E v \in Height..pane.lines : Covered(l, v)

ReplayInv == ReplayShape /\ Follows

LEMMA ReplayInvStarts ==
    ASSUME ReplayInit
    PROVE  ReplayInv
<1> USE ReplayAssumption
<1>1. PICK b \in BOOLEAN : pane = [lines |-> Height, alt |-> b, switches |-> 0]
  BY DEF ReplayInit
<1>2. /\ step = "query" /\ attached = FALSE /\ queue = <<>> /\ disturbed = {}
      /\ got = [alt |-> FALSE, all |-> <<>>, visible |-> <<>>, content |-> <<>>,
                first |-> FALSE]
      /\ screen = [scrollback |-> <<>>, rows |-> [i \in 1..Height |-> 0], alt |-> FALSE]
  BY DEF ReplayInit
<1>3. <<>> \in Seq(Nat) /\ <<>> \in Seq(Items)
  OBVIOUS
<1>4. [i \in 1..Height |-> 0] \in Visible
  BY <1>1 DEF Visible
<1>5. ReplayShape
  <2>1. /\ pane \in [lines : Nat, alt : BOOLEAN, switches : Nat] /\ pane.lines = Height
        /\ Height \in Height..Height + MaxLines
    BY <1>1
  <2>2. screen \in [scrollback : Seq(Nat), rows : Visible, alt : BOOLEAN]
    BY <1>2, <1>3, <1>4
  <2>3. <<>> \in Contents /\ <<>> \in {<<>>} \cup Visible
    BY DEF Contents
  <2>4. got \in [alt : BOOLEAN, all : Seq(Nat), visible : {<<>>} \cup Visible,
                 content : Contents, first : BOOLEAN]
    BY <1>2, <1>3, <2>3
  <2>5. screen.rows \in [1..Height -> 0..pane.lines]
    BY <2>2 DEF Visible
  <2>6. got.content = <<>> /\ ~got.first
    BY <1>2
  <2> QED
    BY <1>2, <1>3, <2>1, <2>2, <2>4, <2>5, <2>6 DEF ReplayShape, ReplayTypeOK
<1>6. Leads(Height, b, queue, pane.lines, pane.alt)
  BY <1>1, <1>2, LeadsNowhere
<1>7. Whole(Height) /\ Known(b) /\ ~got.first /\ Height \in Height..pane.lines
  BY <1>1, <1>2 DEF Whole, Known
<1>8. Follows
  BY <1>6, <1>7 DEF Follows
<1> QED
  BY <1>5, <1>8 DEF ReplayInv

\* While nothing is attached the queue is empty and the pane itself is where
\* the queue starts: after a step,
LEMMA UnattachedNext ==
    ASSUME ReplayShape', ~attached', Whole(pane.lines)', Known(pane.alt)'
    PROVE  Follows'
<1>1. queue' = <<>> /\ pane'.lines \in Nat /\ pane'.alt \in BOOLEAN /\ ~got'.first
  BY DEF ReplayShape, ReplayTypeOK
<1>2. Leads(pane'.lines, pane'.alt, queue', pane'.lines, pane'.alt)
  BY <1>1, LeadsNowhere
<1>3. pane'.lines \in Height..pane'.lines
  BY <1>1, ReplayAssumption DEF ReplayShape, ReplayTypeOK
<1> QED
  BY <1>1, <1>2, <1>3 DEF Follows

\* and before one.
LEMMA UnattachedFollows ==
    ASSUME ReplayInv, ~attached
    PROVE  Whole(pane.lines) /\ Known(pane.alt)
<1>1. PICK l \in Height..pane.lines, a \in BOOLEAN :
        /\ Leads(l, a, queue, pane.lines, pane.alt)
        /\ Whole(l)
        /\ Known(a)
  BY DEF ReplayInv, Follows
<1>2. queue = <<>> /\ l \in Nat
  BY ReplayAssumption DEF ReplayInv, ReplayShape, ReplayTypeOK
<1>3. l = pane.lines /\ a = pane.alt
  BY <1>1, <1>2, LeadsNowhere
<1> QED
  BY <1>1, <1>3

-----------------------------------------------------------------------------
(* The shape is kept *)

LEMMA WiderRows ==
    ASSUME NEW l \in Nat, NEW m \in Nat, l <= m, NEW r \in [1..Height -> 0..l]
    PROVE  r \in [1..Height -> 0..m]
OBVIOUS

LEMMA CapturedRows ==
    ASSUME NEW l \in Nat, Height <= l
    PROVE  LastRows(Rows(l), Height) \in [1..Height -> 0..l]
BY LastRowsOf, ReplayAssumption

LEMMA PrintLineShape ==
    ASSUME ReplayShape, PrintLine
    PROVE  ReplayShape'
<1> USE ReplayAssumption
<1>1. /\ pane.lines \in Nat /\ pane'.lines = pane.lines + 1
      /\ pane' \in [lines : Nat, alt : BOOLEAN, switches : Nat]
      /\ pane'.lines \in Height..Height + MaxLines
  <2>1. /\ pane.lines \in Nat /\ pane.alt \in BOOLEAN /\ pane.switches \in Nat
        /\ pane = [lines |-> pane.lines, alt |-> pane.alt, switches |-> pane.switches]
        /\ pane.lines \in Height..Height + MaxLines /\ pane.lines < Height + MaxLines
    BY DEF PrintLine, ReplayShape, ReplayTypeOK
  <2>2. pane' = [lines |-> pane.lines + 1, alt |-> pane.alt, switches |-> pane.switches]
    BY <2>1 DEF PrintLine
  <2> QED
    BY <2>1, <2>2
<1>2. Visible \subseteq Visible'
  BY <1>1, WiderRows DEF Visible
<1>3. got \in [alt : BOOLEAN, all : Seq(Nat), visible : {<<>>} \cup Visible',
               content : Contents', first : BOOLEAN]
  BY <1>2 DEF ReplayShape, Contents
<1>4. [line |-> pane.lines + 1] \in Items
  BY <1>1 DEF Items
<1>5. queue' \in Seq(Items) /\ (queue' # <<>> => attached)
  BY <1>4, AppendProperties DEF PrintLine, Emit, ReplayShape, ReplayTypeOK
<1>6. screen \in [scrollback : Seq(Nat), rows : Visible', alt : BOOLEAN]
  BY <1>2 DEF ReplayShape
<1>7. screen.rows \in [1..Height -> 0..pane'.lines]
  BY <1>6 DEF Visible
<1>8. disturbed' \subseteq {"line", "switch"}
  BY DEF PrintLine, ReplayShape, ReplayTypeOK
<1>9. step = "cursor" => got.visible \in Visible'
  BY <1>2 DEF ReplayShape
<1> QED
  BY <1>1, <1>3, <1>5, <1>6, <1>7, <1>8, <1>9 DEF ReplayShape, ReplayTypeOK, PrintLine

LEMMA SwitchScreenShape ==
    ASSUME ReplayShape, SwitchScreen
    PROVE  ReplayShape'
<1> USE ReplayAssumption
<1>1. /\ pane.lines \in Nat /\ pane'.lines = pane.lines /\ pane.alt \in BOOLEAN
      /\ pane' \in [lines : Nat, alt : BOOLEAN, switches : Nat]
  <2>1. /\ pane.lines \in Nat /\ pane.alt \in BOOLEAN /\ pane.switches \in Nat
        /\ pane = [lines |-> pane.lines, alt |-> pane.alt, switches |-> pane.switches]
    BY DEF ReplayShape
  <2>2. pane' = [lines |-> pane.lines, alt |-> ~pane.alt, switches |-> pane.switches + 1]
    BY <2>1 DEF SwitchScreen
  <2> QED
    BY <2>1, <2>2
<1>2. Visible' = Visible /\ Contents' = Contents
  BY <1>1 DEF Visible, Contents
<1>3. [alt |-> ~pane.alt] \in Items
  BY <1>1 DEF Items
<1>4. queue' \in Seq(Items) /\ (queue' # <<>> => attached)
  BY <1>3, AppendProperties DEF SwitchScreen, Emit, ReplayShape, ReplayTypeOK
<1>5. disturbed' \subseteq {"line", "switch"}
  BY DEF SwitchScreen, ReplayShape, ReplayTypeOK
<1> QED
  BY <1>1, <1>2, <1>4, <1>5 DEF ReplayShape, ReplayTypeOK, SwitchScreen

LEMMA AssembledShape ==
    ASSUME NEW all \in Seq(Nat), NEW visible \in Visible
    PROVE  assemble_capture_output(all, visible, Height) \in [scrollback : Seq(Nat), rows : Visible]
<1> DEFINE n == IF Len(all) > Height THEN Len(all) - Height ELSE 0
<1>1. n \in Nat /\ n <= Len(all) /\ \A i \in 1..n : all[i] \in Nat
  BY ReplayAssumption, LenProperties, ElementOfSeq
<1> HIDE DEF n
<1>2. SubSeq(all, 1, n) \in Seq(Nat)
  BY <1>1, SubSeqProperties
<1> QED
  BY <1>2 DEF assemble_capture_output, n

\* The steps of the request: the pane does not move.
LEMMA RequestShape ==
    ASSUME ReplayShape,
           \/ AttachClient \/ QueryScreen \/ SpawnClient \/ CaptureScrollback
           \/ CaptureVisible \/ QueryCursor \/ CommandFails \/ Replay
    PROVE  ReplayShape'
<1> USE ReplayAssumption
<1>1. pane' = pane /\ queue' = queue /\ Visible' = Visible /\ Contents' = Contents
  BY DEF AttachClient, QueryScreen, SpawnClient, CaptureScrollback,
         CaptureVisible, QueryCursor, CommandFails, Replay, Visible, Contents
<1>2. pane.lines \in Nat /\ Height <= pane.lines /\ pane.alt \in BOOLEAN
  BY DEF ReplayShape, ReplayTypeOK
<1>3. CASE AttachClient
  BY <1>1, <1>3 DEF ReplayShape, ReplayTypeOK, AttachClient
<1>4. CASE QueryScreen
  BY <1>1, <1>2, <1>4 DEF ReplayShape, ReplayTypeOK, QueryScreen, Goto
<1>5. CASE SpawnClient
  BY <1>1, <1>5 DEF ReplayShape, ReplayTypeOK, SpawnClient, Goto
<1>6. CASE CaptureScrollback
  <2>1. Rows(pane.lines) \in Seq(Nat)
    BY <1>2, RowsProperties
  <2> QED
    BY <1>1, <1>6, <2>1 DEF ReplayShape, ReplayTypeOK, CaptureScrollback, Goto
<1>7. CASE CaptureVisible
  <2>1. LastRows(Rows(pane.lines), Height) \in Visible
    BY <1>2, CapturedRows DEF Visible
  <2> QED
    BY <1>1, <1>7, <2>1 DEF ReplayShape, ReplayTypeOK, CaptureVisible, Goto
<1>8. CASE QueryCursor
  <2>1. assemble_capture_output(got.all, got.visible, Height) \in Contents
    BY <1>8, AssembledShape DEF ReplayShape, QueryCursor, Goto, Contents
  <2> QED
    BY <1>1, <1>8, <2>1 DEF ReplayShape, ReplayTypeOK, QueryCursor, Goto
<1>9. CASE CommandFails
  <2>1. disturbed' \subseteq {"line", "switch"}
    BY <1>9 DEF ReplayShape, ReplayTypeOK, CommandFails
  <2>2. <<>> \in Seq(Nat)
    OBVIOUS
  <2> QED
    BY <1>1, <1>9, <2>1, <2>2 DEF ReplayShape, ReplayTypeOK, CommandFails, Goto
<1>10. CASE Replay
  <2>1. screen' \in [scrollback : Seq(Nat), rows : Visible, alt : BOOLEAN]
    BY <1>10 DEF Replay, Replayed, ReplayShape, Contents
  <2>2. screen'.rows \in [1..Height -> 0..pane.lines]
    BY <2>1 DEF Visible
  <2> QED
    BY <1>1, <1>10, <2>1, <2>2 DEF ReplayShape, ReplayTypeOK, Replay, Goto
<1> QED
  BY <1>3, <1>4, <1>5, <1>6, <1>7, <1>8, <1>9, <1>10

-----------------------------------------------------------------------------
(* The queue goes on leading to the pane *)

LEMMA PrintLineFollows ==
    ASSUME ReplayInv, PrintLine
    PROVE  Follows'
<1> USE ReplayAssumption
<1>1. ReplayShape' /\ ReplayShape
  BY PrintLineShape DEF ReplayInv
<1>2. /\ pane.lines \in Nat /\ pane'.lines = pane.lines + 1 /\ pane'.alt = pane.alt
      /\ pane.alt \in BOOLEAN /\ queue \in Seq(Items)
      /\ UNCHANGED <<step, attached, got, screen>>
      /\ disturbed' = IF Looking THEN disturbed \cup {"line"} ELSE disturbed
  BY <1>1 DEF PrintLine, ReplayShape
<1>3. CASE attached
  <2>1. PICK l \in Height..pane.lines, a \in BOOLEAN :
          /\ Leads(l, a, queue, pane.lines, pane.alt)
          /\ Whole(l)
          /\ Known(a)
          /\ got.first => \E v \in Height..pane.lines : Covered(l, v)
    BY DEF ReplayInv, Follows
  <2> DEFINE x == [line |-> pane.lines + 1]
  <2>2. x \in Items /\ Item(x, pane.lines, pane.alt, pane.lines + 1, pane.alt)
    BY <1>2 DEF Items, Item
  <2>3. queue' = Append(queue, x)
    BY <1>3 DEF PrintLine, Emit
  <2> HIDE DEF x
  <2>4. pane.lines + 1 \in Nat
    BY <1>2
  <2>5. Leads(l, a, Append(queue, x), pane.lines + 1, pane.alt)
    BY <1>2, <2>1, <2>2, <2>4, LeadsOn
  <2>6. Leads(l, a, queue', pane'.lines, pane'.alt)
    BY <1>2, <2>3, <2>5
  <2>7. Whole(l)'
    BY <1>2, <1>3, <2>1 DEF Whole, Looking
  <2>8. Known(a)'
    BY <1>2, <2>1 DEF Known
  <2>9. l \in Height..pane'.lines /\ Height..pane.lines \subseteq Height..pane'.lines
    BY <1>2, <2>1
  <2>10. \A v : Covered(l, v)' <=> Covered(l, v)
    BY <1>2 DEF Covered
  <2> QED
    BY <1>2, <2>1, <2>6, <2>7, <2>8, <2>9, <2>10 DEF Follows
<1>4. CASE ~attached
  <2>1. Whole(pane.lines) /\ Known(pane.alt)
    BY <1>4, UnattachedFollows
  <2>2. Whole(pane.lines)'
    BY <1>1, <1>2, <1>4 DEF Whole, Looking, ReplayShape, ReplayTypeOK
  <2>3. Known(pane.alt)'
    BY <1>2, <2>1 DEF Known
  <2> QED
    BY <1>1, <1>2, <1>4, <2>2, <2>3, UnattachedNext
<1> QED
  BY <1>3, <1>4

LEMMA SwitchScreenFollows ==
    ASSUME ReplayInv, SwitchScreen
    PROVE  Follows'
<1> USE ReplayAssumption
<1>1. ReplayShape' /\ ReplayShape
  BY SwitchScreenShape DEF ReplayInv
<1>2. /\ pane.lines \in Nat /\ pane'.lines = pane.lines /\ pane'.alt = ~pane.alt
      /\ pane.alt \in BOOLEAN /\ queue \in Seq(Items)
      /\ UNCHANGED <<step, attached, got, screen>>
      /\ disturbed' = IF Unwatched THEN disturbed \cup {"switch"} ELSE disturbed
  BY <1>1 DEF SwitchScreen, ReplayShape
<1>3. CASE attached
  <2>1. PICK l \in Height..pane.lines, a \in BOOLEAN :
          /\ Leads(l, a, queue, pane.lines, pane.alt)
          /\ Whole(l)
          /\ Known(a)
          /\ got.first => \E v \in Height..pane.lines : Covered(l, v)
    BY DEF ReplayInv, Follows
  <2> DEFINE x == [alt |-> ~pane.alt]
             b == ~pane.alt
  <2>2. x \in Items /\ Item(x, pane.lines, pane.alt, pane.lines, b) /\ b \in BOOLEAN
    BY <1>2 DEF Items, Item
  <2>3. queue' = Append(queue, x) /\ pane'.alt = b
    BY <1>2, <1>3 DEF SwitchScreen, Emit
  <2> HIDE DEF x, b
  <2>5. Leads(l, a, Append(queue, x), pane.lines, b)
    BY <1>2, <2>1, <2>2, LeadsOn
  <2>6. Leads(l, a, queue', pane'.lines, pane'.alt)
    BY <1>2, <2>3, <2>5
  <2>7. Whole(l)'
    BY <1>2, <2>1 DEF Whole
  <2>8. Known(a)'
    BY <1>2, <1>3, <2>1 DEF Known, Unwatched
  <2>9. \A v : Covered(l, v)' <=> Covered(l, v)
    BY <1>2 DEF Covered
  <2> QED
    BY <1>2, <2>1, <2>6, <2>7, <2>8, <2>9 DEF Follows
<1>4. CASE ~attached
  <2>1. Whole(pane.lines) /\ Known(pane.alt)
    BY <1>4, UnattachedFollows
  <2>2. Whole(pane.lines)'
    BY <1>2, <2>1 DEF Whole
  <2>3. Known(pane.alt)'
    BY <1>1, <1>2, <1>4 DEF Known, Unwatched
  <2> QED
    BY <1>1, <1>2, <1>4, <2>2, <2>3, UnattachedNext
<1> QED
  BY <1>3, <1>4

\* The visible rows of line v show the lines up to v.
LEMMA LastRowsShown ==
    ASSUME NEW v \in Nat, Height <= v
    PROVE  ToSet(LastRows(Rows(v), Height)) = v - Height + 1..v
<1>1. LastRows(Rows(v), Height) = [i \in 1..Height |-> v - Height + i]
  BY LastRowsOf
<1>2. Height \in Nat \ {0}
  BY ReplayAssumption
<1>3. ASSUME NEW n \in v - Height + 1..v
      PROVE  \E i \in 1..Height : v - Height + i = n
  <2>1. n - (v - Height) \in 1..Height /\ v - Height + (n - (v - Height)) = n
    BY <1>2, <1>3
  <2> QED
    BY <2>1
<1>4. \A i \in 1..Height : v - Height + i \in v - Height + 1..v
  BY <1>2
<1> QED
  BY <1>1, <1>3, <1>4 DEF ToSet

LEMMA ConcatShows ==
    ASSUME NEW s \in Seq(Nat), NEW t \in Seq(Nat)
    PROVE  ToSet(t) \subseteq ToSet(s \o t)
<1>1. /\ s \o t \in Seq(Nat) /\ Len(s \o t) = Len(s) + Len(t)
      /\ \A i \in 1..Len(s) + Len(t) :
           (s \o t)[i] = IF i <= Len(s) THEN s[i] ELSE t[i - Len(s)]
  BY ConcatProperties
<1>2. Len(s) \in Nat /\ Len(t) \in Nat /\ DOMAIN t = 1..Len(t)
  BY LenProperties
<1>3. DOMAIN (s \o t) = 1..Len(s) + Len(t)
  BY <1>1, LenProperties
<1>4. ASSUME NEW i \in 1..Len(t) PROVE t[i] \in ToSet(s \o t)
  <2>1. Len(s) + i \in 1..Len(s) + Len(t) /\ (Len(s) + i) - Len(s) = i /\ ~ Len(s) + i <= Len(s)
    BY <1>2
  <2>2. (s \o t)[Len(s) + i] = t[i]
    BY <1>1, <2>1
  <2> QED
    BY <1>3, <2>1, <2>2 DEF ToSet
<1> QED
  BY <1>2, <1>4 DEF ToSet

\* The request goes on.
LEMMA RequestFollows ==
    ASSUME ReplayInv,
           \/ AttachClient \/ QueryScreen \/ SpawnClient \/ CaptureScrollback
           \/ CaptureVisible \/ QueryCursor \/ CommandFails \/ Replay
    PROVE  Follows'
<1> USE ReplayAssumption
<1>1. ReplayShape' /\ ReplayShape
  BY RequestShape DEF ReplayInv
<1>2. pane' = pane /\ queue' = queue /\ pane.lines \in Nat /\ Height <= pane.lines
  BY <1>1 DEF AttachClient, QueryScreen, SpawnClient, CaptureScrollback, CaptureVisible,
         QueryCursor, CommandFails, Replay, ReplayShape, ReplayTypeOK
<1>3. PICK l \in Height..pane.lines, a \in BOOLEAN :
        /\ Leads(l, a, queue, pane.lines, pane.alt)
        /\ Whole(l)
        /\ Known(a)
        /\ got.first => \E v \in Height..pane.lines : Covered(l, v)
  BY DEF ReplayInv, Follows
<1>4. l \in Nat /\ Height <= l /\ l <= pane.lines
  BY <1>2, <1>3
<1>5. got \in [alt : BOOLEAN, all : Seq(Nat), visible : {<<>>} \cup Visible,
               content : Contents, first : BOOLEAN]
  BY <1>1 DEF ReplayShape
<1>6. SUFFICES /\ Whole(l)'
               /\ Known(a)' \/ (~attached' /\ Known(pane.alt)' /\ Whole(pane.lines)')
               /\ got'.first => \E v \in Height..pane.lines : Covered(l, v)'
  BY <1>1, <1>2, <1>3, UnattachedNext DEF Follows
<1>7. CASE AttachClient
  BY <1>3, <1>7 DEF AttachClient, Whole, Known, Covered
<1>8. CASE SpawnClient
  BY <1>1, <1>3, <1>8 DEF SpawnClient, Goto, Whole, Known, Covered, ReplayShape
<1>9. CASE QueryScreen
  <2>1. ~attached /\ attached' = attached /\ ~got.first
    BY <1>1, <1>9 DEF QueryScreen, Goto, ReplayShape
  <2>2. got'.alt = pane.alt /\ got'.first = got.first /\ step' = "spawn"
    BY <1>5, <1>9 DEF QueryScreen, Goto
  <2>3. Whole(l)' /\ Whole(pane.lines)'
    BY <1>2, <1>3, <1>9, <2>2 DEF QueryScreen, Goto, Whole
  <2> QED
    BY <1>2, <2>1, <2>2, <2>3 DEF Known
<1>10. CASE CaptureScrollback
  <2>1. /\ got'.all = Rows(pane.lines) /\ got'.first = got.first /\ got'.alt = got.alt
        /\ ~got.first /\ step = "scrollback" /\ step' = "visible" /\ disturbed' = disturbed
    BY <1>1, <1>5, <1>10 DEF CaptureScrollback, Goto, ReplayShape
  <2> QED
    BY <1>2, <1>3, <2>1 DEF Whole, Known
<1>11. CASE CaptureVisible
  <2>1. /\ got'.visible = LastRows(Rows(pane.lines), Height) /\ got'.all = got.all
        /\ got'.first = attached /\ got'.alt = got.alt /\ got'.content = <<>>
        /\ step = "visible" /\ step' = "cursor" /\ disturbed' = disturbed
    BY <1>1, <1>5, <1>11 DEF CaptureVisible, Goto, ReplayShape
  <2>2. Covered(l, pane.lines)' /\ pane.lines \in Height..pane.lines
    BY <1>2, <1>4, <2>1 DEF Covered
  <2> QED
    BY <1>2, <1>3, <2>1, <2>2 DEF Whole, Known
<1>12. CASE QueryCursor
  <2>1. /\ got'.content = assemble_capture_output(got.all, got.visible, Height)
        /\ got'.visible = got.visible /\ got'.first = got.first /\ got'.alt = got.alt
        /\ step = "cursor" /\ step' = "replay" /\ disturbed' = disturbed
    BY <1>5, <1>12 DEF QueryCursor, Goto
  <2>2. got'.content.rows = got.visible /\ got'.content # <<>>
    BY <2>1 DEF assemble_capture_output
  <2>3. "line" \notin disturbed =>
          got'.content.scrollback \o got'.content.rows = Rows(l)
    BY <1>3, <1>4, <2>1, Assembled DEF Whole
  <2>4. Whole(l)' /\ Known(a)'
    BY <1>3, <2>1, <2>2, <2>3 DEF Whole, Known
  <2>5. ASSUME NEW v, Covered(l, v) PROVE Covered(l, v)'
    BY <2>1, <2>2, <2>5 DEF Covered
  <2> QED
    BY <1>3, <2>1, <2>4, <2>5
<1>13. CASE CommandFails
  <2>1. Whole(l)' /\ Known(a)'
    BY <1>13 DEF CommandFails, Whole, Known
  <2>2. got'.first = got.first
    BY <1>5, <1>13 DEF CommandFails
  <2>3. got.first => step = "cursor" /\ step' = "replay" /\ got' = got /\ got.content = <<>>
    BY <1>1, <1>13 DEF CommandFails, Goto, ReplayShape
  <2>4. ASSUME NEW v, Covered(l, v), got.first PROVE Covered(l, v)'
    BY <2>3, <2>4 DEF Covered
  <2> QED
    BY <1>3, <2>1, <2>2, <2>4
<1>14. CASE Replay
  <2>1. /\ step = "replay" /\ step' = "live" /\ got' = got /\ disturbed' = disturbed
        /\ screen' = Replayed
    BY <1>14 DEF Replay, Goto
  <2>2. screen'.alt = got.alt
    BY <1>1, <2>1 DEF Replayed, ReplayShape
  <2>3. got.content # <<>> =>
          /\ screen'.scrollback = got.content.scrollback /\ screen'.rows = got.content.rows
          /\ got.content.scrollback \in Seq(Nat) /\ got.content.rows \in Visible
    BY <1>5, <2>1 DEF Replayed, Contents
  <2>4. Whole(l)' /\ Known(a)'
    BY <1>3, <2>1, <2>2, <2>3 DEF Whole, Known
  <2>5. ASSUME NEW v \in Height..pane.lines, Covered(l, v) PROVE Covered(l, v)'
    <3>1. l <= v /\ got.visible = LastRows(Rows(v), Height) /\ v \in Nat /\ Height <= v
      BY <1>2, <2>1, <2>5 DEF Covered
    <3>2. CASE got.content = <<>>
      BY <2>1, <3>2 DEF Covered
    <3>3. CASE got.content # <<>>
      <4>1. got.content.rows = LastRows(Rows(v), Height)
        BY <2>1, <2>5, <3>1, <3>3 DEF Covered
      <4>2. Visible \subseteq Seq(Nat)
        BY <1>2 DEF Visible
      <4>3. ToSet(got.content.rows) \subseteq ToSet(screen'.scrollback \o screen'.rows)
        BY <2>3, <3>3, <4>2, ConcatShows
      <4>4. v - Height + 1..v \subseteq ToSet(screen'.scrollback \o screen'.rows)
        BY <3>1, <4>1, <4>3, LastRowsShown
      <4>5. v - Height + 1..l \subseteq v - Height + 1..v
        BY <1>4, <3>1
      <4> QED
        BY <2>1, <4>4, <4>5 DEF Covered
    <3> QED
      BY <3>2, <3>3
  <2> QED
    BY <1>3, <2>1, <2>4, <2>5
<1> QED
  BY <1>7, <1>8, <1>9, <1>10, <1>11, <1>12, <1>13, <1>14

\* The reader forwards the first of the queue.
LEMMA ForwardKeeps ==
    ASSUME ReplayInv, Forward
    PROVE  ReplayInv'
<1> USE ReplayAssumption
<1> DEFINE sb == screen.scrollback
           rows == screen.rows
           x == Head(queue)
<1>1. /\ ReplayShape /\ step = "live" /\ queue # <<>> /\ screen' = Show(x) /\ queue' = Tail(queue)
      /\ UNCHANGED <<pane, step, attached, got, disturbed>>
      /\ queue \in Seq(Items) /\ pane.lines \in Nat /\ Height <= pane.lines
  BY DEF Forward, MayForward, ReplayInv, ReplayShape, ReplayTypeOK
<1>2. x \in Items /\ Tail(queue) \in Seq(Items)
  BY <1>1, HeadTailProperties
<1>3. PICK l \in Height..pane.lines, a \in BOOLEAN :
        /\ Leads(l, a, queue, pane.lines, pane.alt)
        /\ Whole(l)
        /\ Known(a)
        /\ got.first => \E v \in Height..pane.lines : Covered(l, v)
  BY DEF ReplayInv, Follows
<1>4. l \in Nat /\ Height <= l
  BY <1>1, <1>3
<1>5. PICK l1 \in Nat, a1 \in BOOLEAN :
        /\ Item(x, l, a, l1, a1)
        /\ Leads(l1, a1, Tail(queue), pane.lines, pane.alt)
        /\ l1 <= pane.lines
  BY <1>1, <1>3, <1>4, LeadsPast
<1>6. screen = [scrollback |-> sb, rows |-> rows, alt |-> screen.alt]
      /\ screen.alt \in BOOLEAN /\ sb \in Seq(Nat) /\ rows \in Visible
  BY <1>1 DEF ReplayShape
<1>7. /\ rows \in Seq(Nat) /\ Len(rows) = Height /\ rows # <<>>
      /\ \A i \in 1..Height : rows[i] \in 0..pane.lines
  <2> HIDE DEF rows
  <2>1. rows \in [1..Height -> 0..pane.lines]
    BY <1>6 DEF Visible
  <2>2. \A i \in 1..Height : rows[i] \in 0..pane.lines /\ rows[i] \in Nat
    BY <1>1, <2>1
  <2>3. rows \in [1..Height -> Nat]
    BY <2>1, <2>2
  <2>4. rows \in Seq(Nat) /\ Len(rows) = Height
    BY <2>3
  <2> QED
    BY <2>2, <2>4, EmptySeq
<1> HIDE DEF sb, rows, x
\* What a line does to the browser, and what a switch does.
<1>8. ASSUME x = [line |-> l + 1], l1 = l + 1
      PROVE  /\ screen' = [scrollback |-> Append(sb, Head(rows)),
                           rows |-> Append(Tail(rows), l + 1), alt |-> screen.alt]
             /\ screen'.scrollback = Append(sb, Head(rows))
             /\ screen'.rows = Append(Tail(rows), l + 1)
             /\ Append(sb, Head(rows)) \in Seq(Nat)
             /\ Append(Tail(rows), l + 1) \in Visible
  <2>1. "line" \in DOMAIN x /\ x.line = l + 1
    BY <1>8
  <2>2. screen' = [scrollback |-> Append(sb, Head(rows)),
                   rows |-> Append(Tail(rows), l + 1), alt |-> screen.alt]
    BY <1>1, <1>6, <2>1 DEF Show, sb, rows
  <2>3. /\ Head(rows) \in Nat /\ Tail(rows) \in Seq(Nat) /\ Len(Tail(rows)) = Height - 1
        /\ \A i \in 1..Height - 1 : Tail(rows)[i] = rows[i + 1]
    BY <1>7, HeadTailProperties
  <2>4. Append(sb, Head(rows)) \in Seq(Nat)
    BY <1>6, <2>3, AppendProperties
  <2> DEFINE r == Append(Tail(rows), l + 1)
  <2>5. /\ r \in Seq(Nat) /\ Len(r) = Height /\ r[Height] = l + 1
        /\ \A i \in 1..Height - 1 : r[i] = Tail(rows)[i]
    BY <1>4, <2>3, AppendProperties
  <2> HIDE DEF r
  <2>6. ASSUME NEW i \in 1..Height PROVE r[i] \in 0..pane.lines
    <3>1. CASE i = Height
      BY <1>4, <1>5, <1>8, <2>5, <3>1
    <3>2. CASE i \in 1..Height - 1
      <4>1. i + 1 \in 1..Height
        BY <3>2
      <4> QED
        BY <1>7, <2>3, <2>5, <3>2, <4>1
    <3> QED
      BY <3>1, <3>2
  <2>7. r \in [1..Height -> Nat]
    BY <2>5, LenProperties
  <2>8. r \in Visible
    BY <2>6, <2>7 DEF Visible
  <2> QED
    BY <2>2, <2>4, <2>8 DEF r
<1>9. ASSUME x = [alt |-> ~a], l1 = l
      PROVE  screen' = [scrollback |-> sb, rows |-> rows, alt |-> ~a]
  <2>1. "line" \notin DOMAIN x /\ x.alt = ~a
    BY <1>9
  <2> QED
    BY <1>1, <1>6, <2>1 DEF Show
<1>10. \/ x = [line |-> l + 1] /\ l1 = l + 1 /\ a1 = a
       \/ x = [alt |-> ~a] /\ l1 = l /\ a1 = ~a
  BY <1>5 DEF Item
<1>11. screen' \in [scrollback : Seq(Nat), rows : Visible, alt : BOOLEAN]
  <2>1. CASE x = [line |-> l + 1] /\ l1 = l + 1
    <3> DEFINE r == Append(Tail(rows), l + 1)
               s == Append(sb, Head(rows))
    <3>1. /\ screen' = [scrollback |-> s, rows |-> r, alt |-> screen.alt]
          /\ s \in Seq(Nat) /\ r \in Visible
      BY <1>8, <2>1
    <3> HIDE DEF r, s
    <3> QED
      BY <1>6, <3>1
  <2>2. CASE x = [alt |-> ~a] /\ l1 = l
    <3>1. screen' = [scrollback |-> sb, rows |-> rows, alt |-> ~a]
      BY <1>9, <2>2
    <3>2. (~a) \in BOOLEAN
      BY <1>3
    <3> QED
      BY <1>6, <3>1, <3>2
  <2> QED
    BY <1>10, <2>1, <2>2
<1>12. ReplayShape'
  <2>1. Visible' = Visible /\ Contents' = Contents
    BY <1>1 DEF Visible, Contents
  <2>2. screen'.rows \in [1..Height -> 0..pane.lines]
    BY <1>11 DEF Visible
  <2>3. queue' \in Seq(Items) /\ attached
    BY <1>1, <1>2 DEF ReplayShape, ReplayTypeOK
  <2> QED
    BY <1>1, <1>11, <2>1, <2>2, <2>3 DEF ReplayShape, ReplayTypeOK
\* What the browser shows is what it showed, and the line.
<1> DEFINE shown == sb \o rows
<1>13. /\ shown \in Seq(Nat)
       /\ \/ /\ l1 = l + 1
             /\ screen'.scrollback \o screen'.rows = Append(shown, l + 1)
          \/ /\ l1 = l
             /\ screen'.scrollback \o screen'.rows = shown
  <2>1. shown \in Seq(Nat)
    BY <1>6, <1>7, ConcatProperties
  <2>2. CASE x = [line |-> l + 1] /\ l1 = l + 1
    <3>1. /\ screen'.scrollback = Append(sb, Head(rows))
          /\ screen'.rows = Append(Tail(rows), l + 1)
      BY <1>8, <2>2
    <3>2. l + 1 \in Nat
      BY <1>4
    <3>3. Append(sb, Head(rows)) \o Append(Tail(rows), l + 1) = Append(sb \o rows, l + 1)
      BY <1>6, <1>7, <3>2, Pushed
    <3> QED
      BY <2>1, <2>2, <3>1, <3>3
  <2>3. CASE x = [alt |-> ~a] /\ l1 = l
    BY <1>9, <2>1, <2>3
  <2> QED
    BY <1>10, <2>1, <2>2, <2>3
<1>14. screen'.alt = IF a1 = a THEN screen.alt ELSE a1
  <2>1. CASE x = [line |-> l + 1] /\ l1 = l + 1 /\ a1 = a
    BY <1>8, <2>1
  <2>2. CASE x = [alt |-> ~a] /\ l1 = l /\ a1 = ~a
    BY <1>3, <1>9, <2>2
  <2> QED
    BY <1>10, <2>1, <2>2
<1>15. screen.scrollback \o screen.rows = shown
  BY DEF sb, rows
<1> HIDE DEF shown
<1>16. Whole(l1)'
  <2>1. "line" \notin disturbed => shown = Rows(l)
    BY <1>1, <1>3, <1>15 DEF Whole
  <2>2. "line" \notin disturbed => screen'.scrollback \o screen'.rows = Rows(l1)
    BY <1>4, <1>13, <2>1, RowsGrow
  <2> QED
    BY <1>1, <2>2 DEF Whole
<1>17. Known(a1)'
  BY <1>1, <1>3, <1>14 DEF Known
<1>18. ASSUME NEW v \in Height..pane.lines, Covered(l, v)
       PROVE  Covered(l1, v)'
  <2>1. CASE got.content = <<>>
    BY <1>1, <2>1 DEF Covered
  <2>2. CASE got.content # <<>>
    <3>1. (v - Height + 1..v) \cup (v - Height + 1..l) \subseteq ToSet(shown)
      BY <1>1, <1>15, <1>18, <2>2 DEF Covered
    <3>2. CASE l1 = l + 1 /\ screen'.scrollback \o screen'.rows = Append(shown, l + 1)
      <4>1. ToSet(Append(shown, l + 1)) = ToSet(shown) \cup {l + 1}
        BY <1>4, <1>13, PushedShows
      <4>2. \A n \in v - Height + 1..l1 : n \in v - Height + 1..l \/ n = l + 1
        BY <1>1, <1>4, <3>2
      <4>3. (v - Height + 1..v) \cup (v - Height + 1..l1)
              \subseteq ToSet(screen'.scrollback \o screen'.rows)
        BY <3>1, <3>2, <4>1, <4>2
      <4> QED
        BY <1>1, <4>3 DEF Covered
    <3>3. CASE l1 = l /\ screen'.scrollback \o screen'.rows = shown
      BY <1>1, <3>1, <3>3 DEF Covered
    <3> QED
      BY <1>13, <3>2, <3>3
  <2> QED
    BY <2>1, <2>2
<1>19. l1 \in Height..pane.lines
  <2>1. l1 = l + 1 \/ l1 = l
    BY <1>13
  <2> QED
    BY <1>1, <1>4, <1>5, <2>1
<1>20. Follows'
  BY <1>1, <1>3, <1>5, <1>16, <1>17, <1>18, <1>19 DEF Follows
<1> QED
  BY <1>12, <1>20 DEF ReplayInv

LEMMA ReplayInvKept ==
    ASSUME ReplayInv, ReplayNext \/ UNCHANGED replayVars
    PROVE  ReplayInv'
<1>1. CASE PrintLine
  BY <1>1, PrintLineShape, PrintLineFollows DEF ReplayInv
<1>2. CASE SwitchScreen
  BY <1>2, SwitchScreenShape, SwitchScreenFollows DEF ReplayInv
<1>3. CASE \/ AttachClient \/ QueryScreen \/ SpawnClient \/ CaptureScrollback
           \/ CaptureVisible \/ QueryCursor \/ CommandFails \/ Replay
  BY <1>3, RequestShape, RequestFollows DEF ReplayInv
<1>4. CASE Forward
  BY <1>4, ForwardKeeps
<1>5. CASE UNCHANGED replayVars
  <2>1. ReplayShape'
    BY <1>5 DEF ReplayInv, ReplayShape, ReplayTypeOK, Visible, Contents, replayVars
  <2>2. \A l, a, v : /\ Whole(l)' <=> Whole(l)
                     /\ Known(a)' <=> Known(a)
                     /\ Covered(l, v)' <=> Covered(l, v)
    BY <1>5 DEF Whole, Known, Covered, replayVars
  <2>3. Follows'
    BY <1>5, <2>2 DEF ReplayInv, Follows, replayVars
  <2> QED
    BY <2>1, <2>3 DEF ReplayInv
<1> QED
  BY <1>1, <1>2, <1>3, <1>4, <1>5 DEF ReplayNext

\* A browser that has caught up: the queue is empty, it leads nowhere.
LEMMA ReplayInvRestores ==
    ASSUME ReplayInv
    PROVE  RestoredUnlessRaced /\ AttachedFirstLosesNothing /\ ReplayTypeOK
<1> SUFFICES ASSUME CaughtUp
             PROVE  RestoredUnlessRaced /\ AttachedFirstLosesNothing
  BY DEF RestoredUnlessRaced, AttachedFirstLosesNothing, ReplayInv, ReplayShape
<1>1. PICK l \in Height..pane.lines, a \in BOOLEAN :
        /\ Leads(l, a, queue, pane.lines, pane.alt)
        /\ Whole(l)
        /\ Known(a)
        /\ got.first => \E v \in Height..pane.lines : Covered(l, v)
  BY DEF ReplayInv, Follows
<1>2. pane.lines \in Nat /\ Height <= pane.lines /\ l \in Nat
  BY <1>1, ReplayAssumption DEF ReplayInv, ReplayShape, ReplayTypeOK
<1>3. l = pane.lines /\ a = pane.alt
  BY <1>1, <1>2, LeadsNowhere DEF CaughtUp
<1>4. RestoredUnlessRaced
  BY <1>1, <1>3 DEF RestoredUnlessRaced, CaughtUp, Whole, Known
<1>5. AttachedFirstLosesNothing
  <2>1. ToSet(LastRows(Rows(pane.lines), Height)) = pane.lines - Height + 1..pane.lines
    BY <1>2, LastRowsShown
  <2>2. SUFFICES ASSUME got.first, got.content # <<>>
                 PROVE  pane.lines - Height + 1..pane.lines
                          \subseteq ToSet(screen.scrollback \o screen.rows)
    BY <2>1 DEF AttachedFirstLosesNothing
  <2>3. PICK v \in Height..pane.lines : Covered(l, v)
    BY <1>1, <2>2
  <2>4. v - Height + 1..pane.lines \subseteq ToSet(screen.scrollback \o screen.rows)
    BY <1>3, <2>2, <2>3 DEF Covered, CaughtUp
  <2>5. pane.lines - Height + 1..pane.lines \subseteq v - Height + 1..pane.lines
    BY <1>2, <2>3, ReplayAssumption
  <2> QED
    BY <2>4, <2>5
<1> QED
  BY <1>4, <1>5

-----------------------------------------------------------------------------
(* Capture and replay *)

\* The rest of a terminal does not touch the replay.
LEMMA OnlyReplaySteps ==
    ASSUME [Next]_vars
    PROVE  ReplayNext \/ UNCHANGED replayVars
BY DEF Next, Control, Direct, Replaying, ControlInput, vars

\* What was captured, or what the browser shows, differs from the pane by the lines
\* and switches that the control client has still to forward, and by what disturbed
\* records: the invariant that both properties of the replay rest on.
THEOREM ReplayInvariant == Spec => []ReplayInv
<1>1. Init => ReplayInv
  BY ReplayInvStarts DEF Init
<1>2. ReplayInv /\ [Next]_vars => ReplayInv'
  BY OnlyReplaySteps, ReplayInvKept
<1> QED
  BY <1>1, <1>2, PTL DEF Spec

\* However high the pane, however long its history and whatever is printed
\* while the client attaches and the captures run: see RestoredUnlessRaced.
THEOREM BrowserIsRestored == Spec => []RestoredUnlessRaced
<1>1. ReplayInv => RestoredUnlessRaced
  BY ReplayInvRestores
<1> QED
  BY <1>1, ReplayInvariant, PTL

\* Attached before the capture, it may show lines twice but misses none.
THEOREM AttachedFirstIsEnough == Spec => []AttachedFirstLosesNothing
<1>1. ReplayInv => AttachedFirstLosesNothing
  BY ReplayInvRestores
<1> QED
  BY <1>1, ReplayInvariant, PTL

-----------------------------------------------------------------------------
(* The direct bridge *)

\* How the parts of a direct terminal hang together.
LifeInv ==
  /\ mode \in {"control", "direct"}
  /\ DirectTypeOK
  /\ handler # "bridged" => reader = "none" /\ child = "none"
  /\ mode = "control" => handler = "idle" /\ writer \in {"none", "recv", "write"}
  /\ (mode = "direct" /\ handler # "bridged") => writer = "none"
  /\ handler = "bridged" => reader # "none" /\ writer # "none" /\ child # "none"
  /\ writer \in {"abort", "done"} <=> child = "reaped"
  /\ writer = "done" => reader = "done" /\ socket = "closed"

LEMMA LifeInvStarts ==
    ASSUME Init
    PROVE  LifeInv
BY DEF Init, DirectInit, LifeInv, DirectTypeOK

LEMMA LifeInvKept ==
    ASSUME LifeInv, [Next]_vars
    PROVE  LifeInv'
<1> USE DEF LifeInv, DirectTypeOK
<1>1. CASE Control
  <2>1. UNCHANGED <<handler, reader, child, socket>> /\ mode = "control" /\ mode' = mode
    BY <1>1 DEF Control, Replaying, ControlInput, StartWriter, inputVars, ControlTypes, Type,
           Recv, WriteSome, Consume
  <2>2. writer' \in {"none", "recv", "write"}
    BY <1>1, <2>1 DEF Control, Replaying, ControlInput, StartWriter, ControlTypes, Type,
           Recv, WriteSome, Consume
  <2> QED
    BY <2>1, <2>2
<1>2. CASE Direct
  <2>1. mode = "direct" /\ DirectNext
    BY <1>2 DEF Direct
  <2>2. CASE StartDirect
    BY <2>1, <2>2 DEF StartDirect, StartWriter
  <2>3. CASE SpawnFails
    BY <2>1, <2>3 DEF SpawnFails
  <2>4. CASE \/ \E data \in Inputs : BrowserTypes(Input(data))
             \/ \E size \in Sizes : BrowserTypes(Resized(size))
    BY <2>4 DEF BrowserTypes, Type, lifeVars
  <2>5. CASE BrowserCloses
    BY <2>5 DEF BrowserCloses
  <2>6. CASE ChildReads
    BY <2>6 DEF ChildReads, Consume, lifeVars
  <2>7. CASE ChildExits
    BY <2>7 DEF ChildExits
  <2>8. CASE ReaderStep
    BY <2>8 DEF ReaderStep, ReaderEof, ReaderSendFails, ReaderCloses, ReaderTo, ThreadFree, Closed
  <2>9. CASE WriterReads
    BY <2>9 DEF WriterReads, Recv, lifeVars
  <2>10. CASE \E n \in 1..Room : WriterWrites(n)
    BY <2>10 DEF WriterWrites, WriteSome, lifeVars
  <2>11. CASE PongFails
    BY <2>1, <2>11 DEF PongFails, WriterTo
  <2>12. CASE WriterEnding
    <3>1. CASE RecvEnds
      BY <2>1, <3>1 DEF RecvEnds, WriterTo
    <3>2. CASE WriteFails
      BY <3>2 DEF WriteFails, WriterTo
    <3>3. CASE Hangup
      BY <3>3 DEF Hangup, WriterTo, Hup
    <3>4. CASE Reap
      BY <3>4 DEF Reap, WriterTo
    <3>5. CASE WriterEnds
      BY <3>5 DEF WriterEnds, WriterTo
    <3> QED
      BY <2>12, <3>1, <3>2, <3>3, <3>4, <3>5 DEF WriterEnding
  <2> QED
    BY <2>1, <2>2, <2>3, <2>4, <2>5, <2>6, <2>7, <2>8, <2>9, <2>10, <2>11, <2>12 DEF DirectNext
<1>3. CASE UNCHANGED vars
  BY <1>3 DEF vars, directVars, lifeVars
<1> QED
  BY <1>1, <1>2, <1>3 DEF Next

\* The tasks, the shell and the socket of a direct terminal hang together as
\* LifeInv says, whichever of them ends first.
THEOREM LifeInvariant == Spec => []LifeInv
<1>1. Init => LifeInv
  BY LifeInvStarts
<1>2. LifeInv /\ [Next]_vars => LifeInv'
  BY LifeInvKept
<1> QED
  BY <1>1, <1>2, PTL DEF Spec

-----------------------------------------------------------------------------
(* Input *)

\* The writer of a direct terminal starts with the request, that of one with tmux
\* with the replay; nothing else starts it.
LEMMA InputInvKept ==
    ASSUME LifeInv, InputInv, [Next]_vars
    PROVE  InputInv'
<1>1. \A data \in Inputs : Input(data) \in Messages
  BY MeaningType
<1>2. \A size \in Sizes : Resized(size) \in Messages
  BY MeaningType DEF AllSizes
<1>3. CASE Control
  <2>1. mode = "control" /\ (Replaying \/ ControlInput)
    BY <1>3 DEF Control
  <2>2. CASE Replaying
    <3>1. CASE writer = "none" /\ StartWriter
      BY <3>1, StartKeeps
    <3>2. CASE UNCHANGED <<mode, writer, inputVars>>
      BY <3>2, OthersKeep
    <3> QED
      BY <2>2, <3>1, <3>2 DEF Replaying
  <2>3. CASE ControlInput
    <3>1. ASSUME NEW data \in Inputs, ControlTypes(Input(data)) PROVE InputInv'
      BY <1>1, <3>1, TypeKeeps DEF ControlTypes
    <3>2. ASSUME NEW size \in Sizes, ControlTypes(Resized(size)) PROVE InputInv'
      BY <1>2, <3>2, TypeKeeps DEF ControlTypes
    <3>3. ASSUME NEW n \in 1..Room, WriteSome(n) PROVE InputInv'
      BY <3>3, WriteKeeps
    <3>4. CASE Recv
      BY <3>4, RecvKeeps
    <3>5. CASE Consume
      BY <3>5, ConsumeKeeps
    <3> QED
      BY <2>3, <3>1, <3>2, <3>3, <3>4, <3>5 DEF ControlInput
  <2> QED
    BY <2>1, <2>2, <2>3
<1>4. CASE Direct
  <2>1. mode = "direct" /\ DirectNext
    BY <1>4 DEF Direct
  <2>2. CASE StartDirect
    <3>1. writer = "none" /\ StartWriter
      BY <2>1, <2>2 DEF StartDirect, LifeInv
    <3> QED
      BY <3>1, StartKeeps
  <2>3. ASSUME NEW data \in Inputs, BrowserTypes(Input(data)) PROVE InputInv'
    BY <1>1, <2>3, TypeKeeps DEF BrowserTypes
  <2>4. ASSUME NEW size \in Sizes, BrowserTypes(Resized(size)) PROVE InputInv'
    BY <1>2, <2>4, TypeKeeps DEF BrowserTypes
  <2>5. CASE ChildReads
    BY <2>5, ConsumeKeeps DEF ChildReads
  <2>6. CASE WriterReads
    BY <2>6, RecvKeeps DEF WriterReads
  <2>7. ASSUME NEW n \in 1..Room, WriterWrites(n) PROVE InputInv'
    BY <2>7, WriteKeeps DEF WriterWrites
  <2>8. CASE SpawnFails \/ BrowserCloses \/ ChildExits \/ ReaderStep
    <3>1. UNCHANGED <<mode, inputVars>> /\ writer' = writer
      BY <2>8 DEF SpawnFails, BrowserCloses, ChildExits, ReaderStep, ReaderEof,
             ReaderSendFails, ReaderCloses, ReaderTo
    <3> QED
      BY <3>1, OthersKeep
  <2>9. CASE PongFails \/ WriterEnding
    <3>1. UNCHANGED <<mode, inputVars>>
      BY <2>9 DEF PongFails, WriterEnding, RecvEnds, WriteFails, Hangup, Reap, WriterEnds, WriterTo
    <3>2. writer # "none" /\ writer' \notin {"none", "recv"}
      BY <2>9 DEF PongFails, WriterEnding, RecvEnds, WriteFails, Hangup, Reap, WriterEnds, WriterTo
    <3> QED
      BY <3>1, <3>2, OthersKeep
  <2> QED
    BY <2>1, <2>2, <2>3, <2>4, <2>5, <2>6, <2>7, <2>8, <2>9 DEF DirectNext
<1>5. CASE UNCHANGED vars
  <2>1. UNCHANGED <<mode, inputVars>> /\ writer' = writer
    BY <1>5 DEF vars, directVars, lifeVars
  <2> QED
    BY <2>1, OthersKeep
<1> QED
  BY <1>3, <1>4, <1>5 DEF Next

\* To whoever watches the pane - all of it, or with no order between keys and sizes
\* in direct mode - what arrived, what is on the wire and what waits are, one after
\* another, what the browser sent.
THEOREM InputInvariant == Spec => []InputInv
<1>1. Init => InputInv
  BY InputStarts DEF Init, DirectInit
<1>2. LifeInv /\ InputInv /\ [Next]_vars => InputInv'
  BY InputInvKept
<1> QED
  BY <1>1, <1>2, LifeInvariant, PTL DEF Spec

\* Whatever is typed, in pieces of any size, through a PTY of any size: each key
\* arrives once and in order, and all of them do.  See InputIntact.
THEOREM TypedArrives == Spec => []InputIntact
<1>1. InputInv => InputIntact
  BY InputInvIntact
<1> QED
  BY <1>1, InputInvariant, PTL

\* The types of a terminal: no command line longer than CHUNK_SIZE keys, no PTY
\* above its room, no position of the browser past the output it was sent.
THEOREM TypeCorrect == Spec => []TypeOK
<1>1. LifeInv /\ InputInv /\ ReplayInv => TypeOK
  BY InputInvTypes DEF LifeInv, ReplayInv, ReplayShape, TypeOK
<1> QED
  BY <1>1, LifeInvariant, InputInvariant, ReplayInvariant, PTL

-----------------------------------------------------------------------------
(* The direct bridge implements TerminalConnection *)

LEMMA DirectStarts ==
    ASSUME Init
    PROVE  DirectConnection!ConnectionInit
BY DEF Init, DirectInit, DirectConnection!ConnectionInit, DirectPhase

\* A step that leaves the phase and the life of the pane alone.
LEMMA DirectStutters ==
    ASSUME DirectPhase' = DirectPhase,
           child' \in {"exited", "reaped"} <=> child \in {"exited", "reaped"}
    PROVE  UNCHANGED DirectConnection!absVars
BY DEF DirectConnection!absVars

LEMMA DirectMoves ==
    ASSUME NEW from, NEW to, DirectPhase \in from, DirectPhase' = to
    PROVE  DirectConnection!Move(1, from, to)
BY DEF DirectConnection!Move

LEMMA DirectSteps ==
    ASSUME LifeInv, [Next]_vars
    PROVE  [DirectConnection!ConnectionNext]_DirectConnection!absVars
<1> USE DEF DirectPhase, Released
<1>0. LifeInv'
  BY LifeInvKept
<1>1. CASE Control \/ UNCHANGED vars
  <2>1. UNCHANGED <<handler, reader, child, socket>> /\ (handler = "idle" \/ UNCHANGED writer)
    BY <1>1 DEF Control, LifeInv, vars, directVars, lifeVars
  <2> QED
    BY <2>1, DirectStutters
<1>2. CASE Direct
  <2>1. mode = "direct" /\ DirectNext
    BY <1>2 DEF Direct
  <2>2. CASE StartDirect
    <3>1. DirectConnection!Open(1)
      <4>1. DirectPhase = "idle" /\ DirectPhase' = "open"
        BY <2>2 DEF StartDirect, StartWriter
      <4>2. child \notin {"exited", "reaped"} /\ child' \notin {"exited", "reaped"}
        BY <2>2 DEF StartDirect, LifeInv
      <4> QED
        BY <4>1, <4>2, DirectMoves DEF DirectConnection!Open
    <3> QED
      BY <3>1 DEF DirectConnection!ConnectionNext
  <2>3. CASE SpawnFails
    <3>1. DirectConnection!Refuse(1)
      <4>1. DirectPhase = "idle" /\ DirectPhase' = "refused" /\ child' = child
        BY <2>3 DEF SpawnFails
      <4> QED
        BY <4>1, DirectMoves DEF DirectConnection!Refuse
    <3> QED
      BY <3>1 DEF DirectConnection!ConnectionNext
  <2>4. CASE ChildExits
    <3>1. DirectPhase' = DirectPhase
      BY <1>0, <2>4 DEF ChildExits, LifeInv
    <3>2. child \notin {"exited", "reaped"} /\ child' \in {"exited", "reaped"}
      BY <2>4 DEF ChildExits
    <3>3. DirectConnection!PanesGo({1})
      BY <3>1, <3>2 DEF DirectConnection!PanesGo
    <3> QED
      BY <3>3 DEF DirectConnection!ConnectionNext
  <2>5. CASE RecvEnds \/ PongFails \/ WriteFails
    <3>1. DirectConnection!Close(1)
      <4>1. DirectPhase = "open" /\ DirectPhase' = "closing" /\ child' = child
        BY <2>1, <2>5 DEF RecvEnds, PongFails, WriteFails, WriterTo, LifeInv
      <4> QED
        BY <4>1, DirectMoves DEF DirectConnection!Close
    <3> QED
      BY <3>1 DEF DirectConnection!ConnectionNext
  <2>6. CASE WriterEnds
    <3>1. DirectConnection!Release(1, {})
      <4>1. DirectPhase = "closing" /\ DirectPhase' = "closed" /\ child' = child
        BY <2>1, <2>6 DEF WriterEnds, WriterTo, LifeInv
      <4> QED
        BY <4>1, DirectMoves DEF DirectConnection!Release
    <3> QED
      BY <3>1 DEF DirectConnection!ConnectionNext
  <2>7. CASE \/ \E data \in Inputs : BrowserTypes(Input(data))
             \/ \E size \in Sizes : BrowserTypes(Resized(size))
             \/ ChildReads
    <3>1. UNCHANGED <<handler, reader, writer, child, socket>>
      BY <2>7 DEF BrowserTypes, ChildReads, Consume, Type, lifeVars
    <3> QED
      BY <3>1, DirectStutters
  <2>8. CASE BrowserCloses \/ ReaderStep
    <3>1. UNCHANGED <<handler, writer, child>> /\ writer # "done"
      BY <2>8 DEF BrowserCloses, ReaderStep, ReaderEof, ReaderSendFails, ReaderCloses,
             ReaderTo, LifeInv
    <3> QED
      BY <3>1, DirectStutters
  <2>9. CASE WriterReads \/ \E n \in 1..Room : WriterWrites(n)
    <3>1. /\ UNCHANGED <<handler, child>>
          /\ writer \in {"recv", "write"} /\ writer' \in {"recv", "write"}
      BY <2>9 DEF WriterReads, WriterWrites, Recv, WriteSome, lifeVars
    <3> QED
      BY <3>1, DirectStutters
  <2>10. CASE Hangup \/ Reap
    <3>1. /\ UNCHANGED handler
          /\ writer \in {"hangup", "wait"} /\ writer' \in {"wait", "abort"}
      BY <2>10 DEF Hangup, Reap, WriterTo
    <3>2. child' \in {"exited", "reaped"} <=> child \in {"exited", "reaped"}
      BY <2>10 DEF Hangup, Reap, Hup
    <3> QED
      BY <3>1, <3>2, DirectStutters
  <2> QED
    BY <2>1, <2>2, <2>3, <2>4, <2>5, <2>6, <2>7, <2>8, <2>9, <2>10
       DEF DirectNext, WriterEnding
<1> QED
  BY <1>1, <1>2 DEF Next

\* Each step of a terminal without tmux is a step TerminalConnection allows, or
\* one its browser does not notice: a shell that is reported gone is gone, and
\* nothing is released that was not closing.
THEOREM DirectStepsAreConnectionSteps ==
    Spec => DirectConnection!ConnectionInit
              /\ [][DirectConnection!ConnectionNext]_DirectConnection!absVars
<1>1. Init => DirectConnection!ConnectionInit
  BY DirectStarts
<1>2. LifeInv /\ [Next]_vars => [DirectConnection!ConnectionNext]_DirectConnection!absVars
  BY DirectSteps
<1> QED
  BY <1>1, <1>2, LifeInvariant, PTL DEF Spec
=============================================================================
