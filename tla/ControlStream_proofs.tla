------------------------ MODULE ControlStream_proofs ------------------------
(***************************************************************************)
(* That the codec undoes what tmux does to output, and that the reader     *)
(* hears of the lines of tmux what they mean, for every sequence of bytes  *)
(* written, every division into lines and chunks and any number of each.   *)
(*                                                                         *)
(* First the functions of ControlCodec, each against what it stands for:   *)
(* they are defined by themselves further along the data, and the proofs   *)
(* go from the end of the data to its beginning.  Then the lines: what     *)
(* stands on the wire, where a line ends, what feed cuts off.  Then what   *)
(* one line makes the reader say, and the invariant: the buffer of the     *)
(* reader and the pipe together hold exactly the wire of the lines that    *)
(* have not passed.                                                        *)
(***************************************************************************)
EXTENDS ControlStream, SequencesExt_proofs, FiniteSetTheorems

-----------------------------------------------------------------------------
(* Words in a sequence *)

\* word stands at i, element by element.
Spelt(data, i, word) ==
  i + Len(word) - 1 <= Len(data) /\ \A k \in 1..Len(word) : data[i + k - 1] = word[k]

\* At, which compares subsequences, element by element.
LEMMA AtIs ==
    ASSUME NEW S, NEW data \in Seq(S), NEW i \in Nat \ {0}, NEW word \in Seq(S)
    PROVE  At(data, i, word) <=> Spelt(data, i, word)
<1> DEFINE m == Len(word)
           e == i + m - 1
           t == SubSeq(data, i, e)
<1>1. m \in Nat /\ Len(data) \in Nat /\ e \in Int /\ e - i + 1 = m
  BY LenProperties
<1> SUFFICES ASSUME e <= Len(data)
             PROVE  t = word <=> \A k \in 1..m : data[i + k - 1] = word[k]
  BY DEF At, Spelt
<1>2. \A j \in i..e : data[j] \in S
  BY <1>1, ElementOfSeq
<1> HIDE DEF e, m
<1>3. t \in Seq(S) /\ Len(t) = m /\ \A k \in 1..m : t[k] = data[i + k - 1]
  <2>1. /\ t \in Seq(S) /\ Len(t) = IF i <= e THEN e - i + 1 ELSE 0
        /\ \A k \in 1..e - i + 1 : t[k] = data[i + k - 1]
    BY <1>1, <1>2, SubSeqProperties
  <2> HIDE DEF t
  <2> QED
    BY <1>1, <2>1
<1> HIDE DEF t
<1>4. t = word => \A k \in 1..m : data[i + k - 1] = word[k]
  BY <1>3
<1>5. ASSUME \A k \in 1..m : data[i + k - 1] = word[k] PROVE t = word
  BY <1>3, <1>5, SeqEqual DEF m
<1> QED
  BY <1>4, <1>5

LEMMA AtElement ==
    ASSUME NEW S, NEW data \in Seq(S), NEW i \in Nat \ {0}, NEW word \in Seq(S),
           At(data, i, word), NEW k \in 1..Len(word)
    PROVE  data[i + k - 1] = word[k]
BY AtIs DEF Spelt

LEMMA AtFirst ==
    ASSUME NEW S, NEW data \in Seq(S), NEW i \in Nat \ {0}, NEW word \in Seq(S),
           At(data, i, word), word # <<>>
    PROVE  data[i] = word[1]
<1>1. 1 \in 1..Len(word) /\ i + 1 - 1 = i
  BY EmptySeq
<1>2. data[i + 1 - 1] = word[1]
  BY <1>1, AtElement
<1> QED
  BY <1>1, <1>2

-----------------------------------------------------------------------------
(* decode_output *)

Byte == 0..255

\* An escaped byte of three octal digits stands at i.
OctalAt(value, i) ==
  /\ value[i] = BACKSLASH
  /\ i + 3 <= Len(value)
  /\ \A k \in 1..3 : IsDigit(value[i + k])
  /\ parse_octal(value[i + 1], value[i + 2], value[i + 3]) <= 255

DoubledAt(value, i) == At(value, i, <<BACKSLASH, BACKSLASH>>)

Digits(value, i) == parse_octal(value[i + 1], value[i + 2], value[i + 3])

\* The function by which decode_output is defined.
Decodes(f, value) ==
  f = [i \in 1..Len(value) + 1 |->
        IF i > Len(value) THEN <<>>
        ELSE CASE OctalAt(value, i) -> <<Digits(value, i)>> \o f[i + 4]
               [] ~OctalAt(value, i) /\ DoubledAt(value, i) -> <<BACKSLASH>> \o f[i + 2]
               [] OTHER -> <<value[i]>> \o f[i + 1]]

\* decode_output is the value at 1 of any function that the definition of from
\* is true of.
LEMMA DecodeBy ==
    ASSUME NEW value, NEW g, Decodes(g, value)
    PROVE  \E f : Decodes(f, value) /\ decode_output(value) = f[1]
<1> DEFINE F == CHOOSE f : Decodes(f, value)
<1>1. Decodes(F, value)
  OBVIOUS
<1>2. decode_output(value) = F[1]
  BY DEF decode_output, Decodes, OctalAt, DoubledAt, Digits
<1> QED
  BY <1>1, <1>2

\* ... which is an equation for every place.
DecodesAt(f, value, i) ==
  f[i] = IF i > Len(value) THEN <<>>
         ELSE IF OctalAt(value, i) THEN <<Digits(value, i)>> \o f[i + 4]
         ELSE IF DoubledAt(value, i) THEN <<BACKSLASH>> \o f[i + 2]
         ELSE <<value[i]>> \o f[i + 1]

LEMMA DecodeStep ==
    ASSUME NEW value \in Seq(Byte), NEW f
    PROVE  Decodes(f, value) <=> /\ f = [i \in 1..Len(value) + 1 |-> f[i]]
                                 /\ \A i \in 1..Len(value) + 1 : DecodesAt(f, value, i)
<1> DEFINE n == Len(value)
           X(i) == IF i > Len(value) THEN <<>>
                   ELSE CASE OctalAt(value, i) -> <<Digits(value, i)>> \o f[i + 4]
                          [] ~OctalAt(value, i) /\ DoubledAt(value, i) -> <<BACKSLASH>> \o f[i + 2]
                          [] OTHER -> <<value[i]>> \o f[i + 1]
<1>1. \A i \in 1..n + 1 : DecodesAt(f, value, i) <=> f[i] = X(i)
  BY DEF DecodesAt
<1>2. Decodes(f, value) <=> f = [i \in 1..n + 1 |-> X(i)]
  BY DEF Decodes
<1> HIDE DEF X, n
<1>3. f = [i \in 1..n + 1 |-> X(i)] <=> /\ f = [i \in 1..n + 1 |-> f[i]]
                                        /\ \A i \in 1..n + 1 : f[i] = X(i)
  OBVIOUS
<1> QED
  BY <1>1, <1>2, <1>3 DEF n

LEMMA OctalType ==
    ASSUME NEW a \in Int, NEW b \in Int, NEW c \in Int
    PROVE  parse_octal(a, b, c) \in Int
BY DEF parse_octal

\* There is such a function: it is defined from the end of the value forwards.
LEMMA DecodeDefined ==
    ASSUME NEW value \in Seq(Byte)
    PROVE  \E f : Decodes(f, value)
<1> DEFINE n == Len(value)
           next == [i \in 1..n |-> IF OctalAt(value, i) THEN i + 4
                                   ELSE IF DoubledAt(value, i) THEN i + 2 ELSE i + 1]
           here == [i \in 1..n |-> IF OctalAt(value, i) THEN <<Digits(value, i)>>
                                   ELSE IF DoubledAt(value, i) THEN <<BACKSLASH>> ELSE <<value[i]>>]
           step == [i \in 1..n |-> [v \in Seq(Int) |-> here[i] \o v]]
<1>1. n \in Nat /\ \A i \in 1..n : value[i] \in Int
  <2>1. \A i \in 1..n : value[i] \in Byte
    BY ElementOfSeq
  <2>2. \A b \in Byte : b \in Int
    BY DEF Byte
  <2> QED
    BY <2>1, <2>2, LenProperties
<1>2. ASSUME NEW i \in 1..n PROVE next[i] \in 1..n + 1 /\ next[i] > i
  <2>1. CASE OctalAt(value, i)
    BY <1>1, <2>1 DEF OctalAt
  <2>2. CASE ~OctalAt(value, i) /\ DoubledAt(value, i)
    <3>1. i + 1 <= n
      <4>1. Len(<<BACKSLASH, BACKSLASH>>) = 2
        OBVIOUS
      <4> QED
        BY <1>1, <2>2, <4>1 DEF DoubledAt, At
    <3> QED
      BY <1>1, <2>2, <3>1
  <2>3. CASE ~OctalAt(value, i) /\ ~DoubledAt(value, i)
    BY <1>1, <2>3
  <2> QED
    BY <2>1, <2>2, <2>3
<1>3. next \in [1..n -> 1..n + 1]
  BY <1>2
<1>4. ASSUME NEW i \in 1..n PROVE here[i] \in Seq(Int)
  <2>1. value[i] \in Int /\ BACKSLASH \in Int
    BY <1>1 DEF BACKSLASH
  <2>2. ASSUME OctalAt(value, i) PROVE Digits(value, i) \in Int
    <3>1. i + 1 \in 1..n /\ i + 2 \in 1..n /\ i + 3 \in 1..n
      BY <1>1, <2>2 DEF OctalAt
    <3>2. value[i + 1] \in Int /\ value[i + 2] \in Int /\ value[i + 3] \in Int
      BY <1>1, <3>1
    <3> QED
      BY <3>2, OctalType DEF Digits
  <2> QED
    BY <2>1, <2>2
<1>5. step \in [1..n -> [Seq(Int) -> Seq(Int)]]
  <2> HIDE DEF here
  <2>1. \A i \in 1..n : \A v \in Seq(Int) : here[i] \o v \in Seq(Int)
    BY <1>4, ConcatProperties
  <2> QED
    BY <2>1
<1>6. <<>> \in Seq(Int)
  OBVIOUS
<1>7. \E f \in [1..n + 1 -> Seq(Int)] : Walks(f, n, <<>>, next, step)
  <2> HIDE DEF n, next, step
  <2> QED
    BY <1>1, <1>2, <1>3, <1>5, <1>6, WalkDefined
<1>8. PICK f \in [1..n + 1 -> Seq(Int)] : Walks(f, n, <<>>, next, step)
  BY <1>7
<1>9. ASSUME NEW i \in 1..n + 1 PROVE DecodesAt(f, value, i)
  <2>1. CASE i = n + 1
    BY <1>1, <1>8, <2>1 DEF Walks, DecodesAt
  <2>2. CASE i # n + 1
    <3>1. i \in 1..n /\ ~ i > Len(value)
      BY <1>1, <2>2
    <3>2. f[i] = step[i][f[next[i]]]
      BY <1>8, <3>1 DEF Walks
    <3>3. f[next[i]] \in Seq(Int)
      BY <1>3, <3>1
    <3>4. step[i] = [v \in Seq(Int) |-> here[i] \o v]
      BY <3>1
    <3> HIDE DEF step
    <3>5. f[i] = here[i] \o f[next[i]]
      BY <3>2, <3>3, <3>4
    <3>6. next[i] = IF OctalAt(value, i) THEN i + 4
                    ELSE IF DoubledAt(value, i) THEN i + 2 ELSE i + 1
      BY <3>1
    <3>7. here[i] = IF OctalAt(value, i) THEN <<Digits(value, i)>>
                    ELSE IF DoubledAt(value, i) THEN <<BACKSLASH>> ELSE <<value[i]>>
      BY <3>1
    <3> HIDE DEF next, here
    <3> QED
      BY <3>1, <3>5, <3>6, <3>7 DEF DecodesAt
  <2> QED
    BY <2>1, <2>2
<1>10. f = [i \in 1..Len(value) + 1 |-> f[i]]
  BY <1>8
<1> QED
  BY <1>9, <1>10, DecodeStep

-----------------------------------------------------------------------------
(* Encode, and what decode_output makes of it *)

\* A byte becomes itself or an escape that means it.
LEMMA EncodeByteIs ==
    ASSUME NEW b \in Byte
    PROVE  /\ EncodeByte(b) \in Seq(Byte) /\ Len(EncodeByte(b)) \in {1, 4}
           /\ Len(EncodeByte(b)) = 1 => b # BACKSLASH /\ b >= 32 /\ EncodeByte(b)[1] = b
           /\ Len(EncodeByte(b)) = 4 =>
                /\ EncodeByte(b)[1] = BACKSLASH
                /\ \A k \in 2..4 : EncodeByte(b)[k] \in 48..55
                /\ parse_octal(EncodeByte(b)[2], EncodeByte(b)[3], EncodeByte(b)[4]) = b
<1>1. CASE ~(b < 32 \/ b = BACKSLASH)
  <2>1. EncodeByte(b) = <<b>>
    BY <1>1 DEF EncodeByte
  <2>2. b \in 0..255 /\ b # BACKSLASH /\ b >= 32
    BY <1>1 DEF Byte
  <2> QED
    BY <2>1, <2>2 DEF Byte
<1>2. CASE b < 32 \/ b = BACKSLASH
  <2> DEFINE x == 48 + (b \div 64)
             y == 48 + ((b \div 8) % 8)
             z == 48 + (b % 8)
  <2>1. EncodeByte(b) = <<BACKSLASH, x, y, z>>
    BY <1>2 DEF EncodeByte
  <2>2. b \in 0..255
    BY DEF Byte
  <2>3. x \in 48..55 /\ y \in 48..55 /\ z \in 48..55 /\ parse_octal(x, y, z) = b
    BY <1>2, <2>2 DEF parse_octal, BACKSLASH
  <2> HIDE DEF x, y, z
  <2>4. <<BACKSLASH, x, y, z>> \in Seq(Byte)
    BY <2>3 DEF Byte, BACKSLASH
  <2> QED
    BY <2>1, <2>3, <2>4
<1> QED
  BY <1>1, <1>2

\* Encode as a function of bytes, so that the lemmas on Flat apply.
EncodeOf == [b \in Byte |-> EncodeByte(b)]

LEMMA EncodeIs ==
    ASSUME NEW data \in Seq(Byte)
    PROVE  /\ EncodeOf \in [Byte -> Seq(Byte)]
           /\ Encode(data) = Flat(EncodeOf, data) /\ Encode(data) \in Seq(Byte)
<1>1. EncodeOf \in [Byte -> Seq(Byte)]
  BY EncodeByteIs DEF EncodeOf
<1>2. DOMAIN data = 1..Len(data) /\ \A i \in 1..Len(data) : data[i] \in Byte
  BY LenProperties, ElementOfSeq
<1>3. [i \in DOMAIN data |-> EncodeOf[data[i]]] = [i \in DOMAIN data |-> EncodeByte(data[i])]
  BY <1>2 DEF EncodeOf
<1>4. Encode(data) = Flat(EncodeOf, data)
  BY <1>3, Zenon DEF Encode, Flat
<1> QED
  BY <1>1, <1>4, FlatType

LEMMA DoubledFirst ==
    ASSUME NEW value \in Seq(Byte), NEW i \in 1..Len(value), value[i] # BACKSLASH
    PROVE  ~DoubledAt(value, i)
<1> DEFINE w == <<BACKSLASH, BACKSLASH>>
<1>1. w \in Seq(Byte) /\ w # <<>> /\ w[1] = BACKSLASH /\ i \in Nat \ {0}
  BY DEF Byte, BACKSLASH
<1> SUFFICES ASSUME At(value, i, w) PROVE FALSE
  BY DEF DoubledAt
<1> HIDE DEF w
<1>2. value[i] = w[1]
  BY <1>1, AtFirst
<1> QED
  BY <1>1, <1>2

\* One byte is decoded from where its code stands.
Holds(value, i, e) ==
  i + Len(e) - 1 <= Len(value) /\ \A k \in 1..Len(e) : value[i + k - 1] = e[k]

\* decode_output takes n symbols at i for the byte b.
Yields(f, i, b, n) == f[i] = <<b>> \o f[i + n]

\* Where the encoding of b stands, one step of decode_output takes exactly it.
LEMMA DecodeOne ==
    ASSUME NEW value \in Seq(Byte), NEW f, NEW i \in 1..Len(value), DecodesAt(f, value, i),
           NEW b \in Byte, NEW e, e = EncodeByte(b), Holds(value, i, e)
    PROVE  Yields(f, i, b, Len(e))
<1>1. /\ Len(e) \in {1, 4}
      /\ Len(e) = 1 => b # BACKSLASH /\ e[1] = b
      /\ Len(e) = 4 => /\ e[1] = BACKSLASH /\ \A k \in 2..4 : e[k] \in 48..55
                       /\ parse_octal(e[2], e[3], e[4]) = b
  BY EncodeByteIs
<1>2. /\ Len(value) \in Nat /\ b <= 255 /\ i + Len(e) - 1 <= Len(value)
      /\ \A k \in 1..Len(e) : value[i + k - 1] = e[k]
  BY LenProperties DEF Byte, Holds
<1>3. CASE Len(e) = 1
  <2>1. value[i] = b
    <3>1. 1 \in 1..Len(e) /\ i + 1 - 1 = i
      BY <1>3
    <3> QED
      BY <1>1, <1>2, <1>3, <3>1
  <2>2. ~OctalAt(value, i)
    BY <1>1, <1>3, <2>1 DEF OctalAt
  <2>3. ~DoubledAt(value, i)
    BY <1>1, <1>3, <2>1, DoubledFirst
  <2> QED
    BY <1>2, <1>3, <2>1, <2>2, <2>3 DEF DecodesAt, Yields
<1>4. CASE Len(e) = 4
  <2>1. value[i] = BACKSLASH /\ value[i + 1] = e[2] /\ value[i + 2] = e[3] /\ value[i + 3] = e[4]
    <3>1. 1 \in 1..Len(e) /\ 2 \in 1..Len(e) /\ 3 \in 1..Len(e) /\ 4 \in 1..Len(e)
      BY <1>4
    <3>2. i + 1 - 1 = i /\ i + 2 - 1 = i + 1 /\ i + 3 - 1 = i + 2 /\ i + 4 - 1 = i + 3
      OBVIOUS
    <3> QED
      BY <1>1, <1>2, <1>4, <3>1, <3>2
  <2>2. Digits(value, i) = b
    BY <1>1, <1>4, <2>1 DEF Digits
  <2>3. OctalAt(value, i)
    <3>1. \A k \in 1..3 : IsDigit(value[i + k])
      <4> SUFFICES ASSUME NEW k \in 1..3 PROVE value[i + k] \in 48..55
        BY DEF IsDigit
      <4>1. k = 1 \/ k = 2 \/ k = 3
        OBVIOUS
      <4> QED
        BY <1>1, <1>4, <2>1, <4>1
    <3> QED
      BY <1>2, <1>4, <2>1, <2>2, <3>1 DEF OctalAt, Digits
  <2> QED
    BY <1>2, <1>4, <2>2, <2>3 DEF DecodesAt, Yields
<1> QED
  BY <1>1, <1>3, <1>4

\* What tmux encoded is decoded to the same bytes, whatever they are.
THEOREM DecodeInverts ==
    ASSUME NEW data \in Seq(Byte)
    PROVE  decode_output(Encode(data)) = data
<1> DEFINE value == Encode(data)
           n == Len(data)
           pos(m) == FlatPos(EncodeOf, data, m)
<1>1. value \in Seq(Byte) /\ value = Flat(EncodeOf, data) /\ EncodeOf \in [Byte -> Seq(Byte)]
  BY EncodeIs
<1>2. n \in Nat /\ \A i \in 1..n : data[i] \in Byte
  BY LenProperties, ElementOfSeq
<1>3. PICK f : Decodes(f, value) /\ decode_output(value) = f[1]
  BY <1>1, DecodeDefined, DecodeBy
<1>4. \A i \in 1..Len(value) + 1 : DecodesAt(f, value, i)
  BY <1>1, <1>3, DecodeStep
<1>5. pos(n) = Len(value) /\ pos(0) = 0 /\ Len(value) \in Nat
  <2>1. SubSeq(data, 1, n) = data /\ SubSeq(data, 1, 0) = <<>>
    BY SubSeqFull, SubSeqEmpty
  <2>2. Flat(EncodeOf, <<>>) = <<>> /\ Len(<<>>) = 0
    BY FlatEmpty
  <2> QED
    BY <1>1, <2>1, <2>2, LenProperties DEF FlatPos
<1> HIDE DEF value
<1> DEFINE T == {i \in 1..n + 1 : f[pos(i - 1) + 1] = SubSeq(data, i, n)}
<1>6. ASSUME NEW i \in 1..n + 1, \A j \in i + 1..n + 1 : j \in T PROVE i \in T
  <2>1. CASE i = n + 1
    <3>1. i - 1 = n /\ Len(value) + 1 \in 1..Len(value) + 1 /\ Len(value) + 1 > Len(value)
      BY <1>2, <1>5, <2>1
    <3>2. f[Len(value) + 1] = <<>>
      BY <1>4, <3>1 DEF DecodesAt
    <3>3. SubSeq(data, i, n) = <<>>
      BY <1>2, <2>1, SubSeqEmpty
    <3> QED
      BY <1>5, <3>1, <3>2, <3>3
  <2>2. CASE i # n + 1
    <3> DEFINE e == EncodeByte(data[i])
               p == pos(i - 1)
    <3>1. i \in 1..n /\ i - 1 \in 0..n - 1 /\ (i - 1) + 1 = i /\ i + 1 \in i + 1..n + 1 /\ (i + 1) - 1 = i
      BY <1>2, <2>2
    <3>2. EncodeOf[data[i]] = e /\ data[i] \in Byte
      BY <1>2, <3>1 DEF EncodeOf
    <3>3. /\ p \in Nat /\ Len(e) \in Nat /\ pos(i) = p + Len(e) /\ pos(i) <= Len(value)
          /\ \A k \in 1..Len(e) : value[p + k] = e[k]
      <4> DEFINE m == i - 1
      <4>1. m \in 0..Len(data) - 1 /\ m + 1 = i
        BY <3>1
      <4> HIDE DEF m
      <4>2. Places(EncodeOf, data, m)
        BY <1>1, <4>1, FlatPlaces
      <4> HIDE DEF e
      <4> QED
        BY <1>1, <3>2, <4>1, <4>2 DEF m, Places
    <3>4. Len(e) \in {1, 4}
      BY <3>2, EncodeByteIs
    <3>5. f[pos(i) + 1] = SubSeq(data, i + 1, n)
      BY <1>6, <3>1
    <3> DEFINE pi == pos(i)
    <3> HIDE DEF e, p, pi, T, pos
    <3>6. p + 1 \in 1..Len(value) /\ (p + 1) + Len(e) - 1 <= Len(value)
      <4> DEFINE l == Len(e)
                 lv == Len(value)
      <4>1. p + l <= lv /\ p \in Nat /\ lv \in Nat /\ l \in {1, 4}
        BY <1>5, <3>3, <3>4
      <4> HIDE DEF l, lv
      <4>2. p + 1 \in 1..lv /\ (p + 1) + l - 1 <= lv
        BY <4>1
      <4> QED
        BY <4>2 DEF l, lv
    <3>7. Holds(value, p + 1, e)
      <4>1. \A k \in 1..Len(e) : (p + 1) + k - 1 = p + k
        BY <3>3
      <4> QED
        BY <3>3, <3>6, <4>1 DEF Holds
    <3>8. DecodesAt(f, value, p + 1)
      BY <1>4, <1>5, <3>6
    <3>9. Yields(f, p + 1, data[i], Len(e))
      <4>1. e = EncodeByte(data[i])
        BY DEF e
      <4> QED
        BY <1>1, <3>2, <3>6, <3>7, <3>8, <4>1, DecodeOne
    <3>10. (p + 1) + Len(e) = pos(i) + 1
      BY <3>3
    <3>11. SubSeq(data, i, n) = <<data[i]>> \o SubSeq(data, i + 1, n)
      <4>1. n \in i..Len(data)
        BY <1>2, <3>1
      <4> QED
        BY <3>1, <4>1, SubSeqRecursiveFirst
    <3> QED
      BY <3>1, <3>5, <3>9, <3>10, <3>11 DEF T, p, Yields
  <2> QED
    BY <2>1, <2>2
<1> HIDE DEF T
<1>7. \A i \in 1..n + 1 : i \in T
  BY <1>2, <1>6, DownInduct
<1>8. 1 \in T
  BY <1>2, <1>7
<1>9. f[pos(1 - 1) + 1] = SubSeq(data, 1, n)
  BY <1>8 DEF T
<1>10. pos(1 - 1) + 1 = 1
  BY <1>5
<1> QED
  BY <1>3, <1>9, <1>10, SubSeqFull DEF value

-----------------------------------------------------------------------------
(* filter_escapes *)

\* At, for words of four bytes.
FourAt(data, i, a, b, c, d) ==
  i + 3 <= Len(data) /\ data[i] = a /\ data[i + 1] = b /\ data[i + 2] = c /\ data[i + 3] = d

LEMMA AtFour ==
    ASSUME NEW data \in Seq(Byte), NEW i \in Nat \ {0},
           NEW a \in Byte, NEW b \in Byte, NEW c \in Byte, NEW d \in Byte,
           NEW w, w = <<a, b, c, d>>
    PROVE  At(data, i, w) <=> FourAt(data, i, a, b, c, d)
<1>1. /\ w \in Seq(Byte) /\ Len(w) = 4 /\ i + 4 - 1 = i + 3
      /\ w[1] = a /\ w[2] = b /\ w[3] = c /\ w[4] = d
  OBVIOUS
<1>2. i + 1 - 1 = i /\ i + 2 - 1 = i + 1 /\ i + 3 - 1 = i + 2 /\ i + 4 - 1 = i + 3
  OBVIOUS
<1>3. At(data, i, w) <=> Spelt(data, i, w)
  BY <1>1, AtIs
<1>4. (\A k \in 1..4 : data[i + k - 1] = w[k]) <=>
        data[i + 1 - 1] = w[1] /\ data[i + 2 - 1] = w[2] /\ data[i + 3 - 1] = w[3] /\ data[i + 4 - 1] = w[4]
  <2>1. \A k \in 1..4 : k = 1 \/ k = 2 \/ k = 3 \/ k = 4
    OBVIOUS
  <2>2. 1 \in 1..4 /\ 2 \in 1..4 /\ 3 \in 1..4 /\ 4 \in 1..4
    OBVIOUS
  <2> QED
    BY <2>1, <2>2
<1> QED
  BY <1>1, <1>2, <1>3, <1>4 DEF Spelt, FourAt

LEMMA EraseIs ==
    ASSUME NEW data \in Seq(Byte), NEW i \in Nat \ {0}
    PROVE  /\ At(data, i, EraseDisplay) <=> FourAt(data, i, 27, 91, 50, 74)
           /\ At(data, i, EraseScrollback) <=> FourAt(data, i, 27, 91, 51, 74)
<1>1. 27 \in Byte /\ 91 \in Byte /\ 50 \in Byte /\ 51 \in Byte /\ 74 \in Byte
  BY DEF Byte
<1>2. EraseDisplay = <<27, 91, 50, 74>> /\ EraseScrollback = <<27, 91, 51, 74>>
  BY DEF EraseDisplay, EraseScrollback, ESC
<1>3. At(data, i, EraseDisplay) <=> FourAt(data, i, 27, 91, 50, 74)
  BY <1>1, <1>2, AtFour
<1>4. At(data, i, EraseScrollback) <=> FourAt(data, i, 27, 91, 51, 74)
  BY <1>1, <1>2, AtFour
<1> QED
  BY <1>3, <1>4

\* The function by which filter_escapes is defined.
Filters(f, data) ==
  f = [i \in 1..Len(data) + 1 |-> [erased \in BOOLEAN |->
        IF i > Len(data) THEN <<>>
        ELSE IF At(data, i, EraseDisplay) THEN EraseDisplay \o f[i + 4][TRUE]
        ELSE IF At(data, i, EraseScrollback)
             THEN (IF erased THEN EraseScrollback ELSE <<>>) \o f[i + 4][FALSE]
        ELSE <<data[i]>> \o f[i + 1][FALSE]]]

\* filter_escapes is the value at 1 of any function that the definition of from
\* is true of, and there is one.
LEMMA FilterBy ==
    ASSUME NEW data, NEW g, Filters(g, data)
    PROVE  \E f : Filters(f, data) /\ filter_escapes(data) = f[1][FALSE]
<1> DEFINE F == CHOOSE f : Filters(f, data)
<1>1. Filters(F, data)
  OBVIOUS
<1>2. filter_escapes(data) = F[1][FALSE]
  BY DEF filter_escapes, Filters
<1> QED
  BY <1>1, <1>2

FiltersAt(f, data, i, erased) ==
  f[i][erased] =
        IF i > Len(data) THEN <<>>
        ELSE IF At(data, i, EraseDisplay) THEN EraseDisplay \o f[i + 4][TRUE]
        ELSE IF At(data, i, EraseScrollback)
             THEN (IF erased THEN EraseScrollback ELSE <<>>) \o f[i + 4][FALSE]
        ELSE <<data[i]>> \o f[i + 1][FALSE]

LEMMA FilterStep ==
    ASSUME NEW data, NEW f, Filters(f, data), NEW i \in 1..Len(data) + 1, NEW erased \in BOOLEAN
    PROVE  FiltersAt(f, data, i, erased)
<1>1. f[i] = [e \in BOOLEAN |->
        IF i > Len(data) THEN <<>>
        ELSE IF At(data, i, EraseDisplay) THEN EraseDisplay \o f[i + 4][TRUE]
        ELSE IF At(data, i, EraseScrollback)
             THEN (IF e = TRUE THEN EraseScrollback ELSE <<>>) \o f[i + 4][FALSE]
        ELSE <<data[i]>> \o f[i + 1][FALSE]]
  BY Zenon DEF Filters
<1> QED
  BY <1>1, Zenon DEF FiltersAt

LEMMA FilterDefined ==
    ASSUME NEW data \in Seq(Byte)
    PROVE  \E f : Filters(f, data)
<1> DEFINE n == Len(data)
           V == [BOOLEAN -> Seq(Int)]
           next == [i \in 1..n |-> IF At(data, i, EraseDisplay) \/ At(data, i, EraseScrollback)
                                   THEN i + 4 ELSE i + 1]
           X(i, v, e) == IF At(data, i, EraseDisplay) THEN EraseDisplay \o v[TRUE]
                         ELSE IF At(data, i, EraseScrollback)
                              THEN (IF e = TRUE THEN EraseScrollback ELSE <<>>) \o v[FALSE]
                         ELSE <<data[i]>> \o v[FALSE]
           step == [i \in 1..n |-> [v \in V |-> [e \in BOOLEAN |-> X(i, v, e)]]]
           base == [e \in BOOLEAN |-> <<>>]
<1>1. n \in Nat /\ \A i \in 1..n : data[i] \in Int
  <2>1. \A i \in 1..n : data[i] \in Byte
    BY ElementOfSeq
  <2>2. \A b \in Byte : b \in Int
    BY DEF Byte
  <2> QED
    BY <2>1, <2>2, LenProperties
<1>2. ASSUME NEW i \in 1..n PROVE next[i] \in 1..n + 1 /\ next[i] > i
  <2>1. At(data, i, EraseDisplay) \/ At(data, i, EraseScrollback) => i + 3 <= n
    BY EraseIs DEF FourAt
  <2> QED
    BY <1>1, <2>1
<1>3. next \in [1..n -> 1..n + 1]
  BY <1>2
<1>4. ASSUME NEW i \in 1..n, NEW v \in V, NEW e \in BOOLEAN PROVE X(i, v, e) \in Seq(Int)
  <2>1. v[TRUE] \in Seq(Int) /\ v[FALSE] \in Seq(Int)
    OBVIOUS
  <2>2. EraseDisplay \in Seq(Int) /\ EraseScrollback \in Seq(Int) /\ <<>> \in Seq(Int) /\ <<data[i]>> \in Seq(Int)
    BY <1>1 DEF EraseDisplay, EraseScrollback, ESC
  <2> DEFINE a == v[TRUE]
             b == v[FALSE]
  <2> HIDE DEF a, b
  <2>3. /\ EraseDisplay \o a \in Seq(Int) /\ EraseScrollback \o b \in Seq(Int)
        /\ <<>> \o b \in Seq(Int) /\ <<data[i]>> \o b \in Seq(Int)
    BY <2>1, <2>2, ConcatProperties DEF a, b
  <2> QED
    BY <2>3 DEF a, b
<1> HIDE DEF X
<1>5. step \in [1..n -> [V -> V]]
  <2>1. \A i \in 1..n : \A v \in V : [e \in BOOLEAN |-> X(i, v, e)] \in V
    BY <1>4
  <2> HIDE DEF V
  <2> QED
    BY <2>1
<1>6. base \in V
  OBVIOUS
<1>7. \E f \in [1..n + 1 -> V] : Walks(f, n, base, next, step)
  <2> HIDE DEF n, next, step, base, V
  <2> QED
    BY <1>1, <1>2, <1>3, <1>5, <1>6, WalkDefined
<1>8. PICK f \in [1..n + 1 -> V] : Walks(f, n, base, next, step)
  BY <1>7
<1> DEFINE Y(i, e) == IF i > Len(data) THEN <<>>
        ELSE IF At(data, i, EraseDisplay) THEN EraseDisplay \o f[i + 4][TRUE]
        ELSE IF At(data, i, EraseScrollback)
             THEN (IF e = TRUE THEN EraseScrollback ELSE <<>>) \o f[i + 4][FALSE]
        ELSE <<data[i]>> \o f[i + 1][FALSE]
<1>9. ASSUME NEW i \in 1..n + 1 PROVE f[i] = [e \in BOOLEAN |-> Y(i, e)]
  <2>1. CASE i = n + 1
    <3>0. i > Len(data)
      BY <1>1, <2>1
    <3>1. \A e \in BOOLEAN : Y(i, e) = <<>>
      BY <3>0
    <3>2. f[i] = base
      BY <1>8, <2>1 DEF Walks
    <3> HIDE DEF Y
    <3> QED
      BY <3>1, <3>2
  <2>2. CASE i # n + 1
    <3>1. i \in 1..n /\ ~ i > Len(data)
      BY <1>1, <2>2
    <3>2. f[i] = step[i][f[next[i]]]
      BY <1>8, <3>1 DEF Walks
    <3> DEFINE v == f[next[i]]
    <3>3. v \in V
      BY <1>3, <3>1
    <3>4. step[i] = [u \in V |-> [e \in BOOLEAN |-> X(i, u, e)]]
      BY <3>1
    <3>5. next[i] = IF At(data, i, EraseDisplay) \/ At(data, i, EraseScrollback)
                    THEN i + 4 ELSE i + 1
      BY <3>1
    <3> HIDE DEF step, v, next, V
    <3>6. f[i] = [e \in BOOLEAN |-> X(i, v, e)]
      BY <3>2, <3>3, <3>4 DEF v
    <3>7. ASSUME NEW e \in BOOLEAN PROVE X(i, v, e) = Y(i, e)
      BY <3>1, <3>5 DEF X, v
    <3> HIDE DEF Y
    <3> QED
      BY <3>6, <3>7
  <2> QED
    BY <2>1, <2>2
<1>10. f = [i \in 1..n + 1 |-> [e \in BOOLEAN |-> Y(i, e)]]
  <2> HIDE DEF Y
  <2> QED
    BY <1>8, <1>9
<1>11. Filters(f, data)
  BY <1>10 DEF Filters
<1> QED
  BY <1>11

\* The erasures that Cleaned takes out, and the bytes of them.
LoneIn(data) == {i \in DOMAIN data : /\ At(data, i, EraseScrollback)
                                     /\ ~(i > 4 /\ At(data, i - 4, EraseDisplay))}
TakenOut(data, j) == \E i \in LoneIn(data) : j \in i..i + 3

\* What Cleaned makes of each byte.
Kept(data) == [j \in DOMAIN data |-> IF TakenOut(data, j) THEN <<>> ELSE <<data[j]>>]

LEMMA CleanedIs ==
    ASSUME NEW data \in Seq(Byte)
    PROVE  /\ Cleaned(data) = FlattenSeq(Kept(data))
           /\ Kept(data) \in Seq(Seq(Byte)) /\ Len(Kept(data)) = Len(data)
           /\ \A j \in 1..Len(data) :
                Kept(data)[j] = IF TakenOut(data, j) THEN <<>> ELSE <<data[j]>>
           /\ Cleaned(data) \in Seq(Byte)
<1>1. DOMAIN data = 1..Len(data) /\ Len(data) \in Nat /\ \A i \in 1..Len(data) : data[i] \in Byte
  BY LenProperties, ElementOfSeq
<1>2. Cleaned(data) = FlattenSeq(Kept(data))
  BY Zenon DEF Cleaned, Kept, TakenOut, LoneIn
<1>3. \A j \in 1..Len(data) :
        (IF TakenOut(data, j) THEN <<>> ELSE <<data[j]>>) \in Seq(Byte)
  BY <1>1
<1>4. Kept(data) \in Seq(Seq(Byte)) /\ Len(Kept(data)) = Len(data)
  BY <1>1, <1>3 DEF Kept
<1>5. \A j \in 1..Len(data) :
        Kept(data)[j] = IF TakenOut(data, j) THEN <<>> ELSE <<data[j]>>
  BY <1>1 DEF Kept
<1>6. Cleaned(data) \in Seq(Byte)
  BY <1>2, <1>4, FlattenType
<1> QED
  BY <1>2, <1>4, <1>5, <1>6

\* No erasure stands at one of the three places before i: i is not inside one.
Outside(data, i) ==
  \A j \in 1..i - 1 : j + 3 >= i => ~At(data, j, EraseDisplay) /\ ~At(data, j, EraseScrollback)

\* The bytes of an erasure of the display stay, and those of an erasure of the
\* scrollback stay or go together.
LEMMA TakenOutDisplay ==
    ASSUME NEW data \in Seq(Byte), NEW i \in 1..Len(data), Outside(data, i),
           At(data, i, EraseDisplay), NEW j \in i..i + 3
    PROVE  ~TakenOut(data, j)
<1> SUFFICES ASSUME NEW l \in LoneIn(data), j \in l..l + 3 PROVE FALSE
  BY DEF TakenOut
<1>1. l \in 1..Len(data) /\ At(data, l, EraseScrollback) /\ Len(data) \in Nat
  BY LenProperties DEF LoneIn
<1>2. data[l] = 27 /\ data[l + 2] = 51
  BY <1>1, EraseIs DEF FourAt
<1>3. data[i + 1] = 91 /\ data[i + 2] = 50 /\ data[i + 3] = 74
  BY EraseIs DEF FourAt
<1>4. l < i \/ l = i \/ l = i + 1 \/ l = i + 2 \/ l = i + 3
  BY <1>1
<1>5. ~ l < i
  <2> SUFFICES ASSUME l < i PROVE FALSE
    OBVIOUS
  <2>1. l \in 1..i - 1 /\ l + 3 >= i
    BY <1>1
  <2> QED
    BY <1>1, <2>1 DEF Outside
<1> QED
  BY <1>2, <1>3, <1>4, <1>5

\* ... an erasure of the scrollback is taken out as a whole or not at all ...
LEMMA TakenOutScrollback ==
    ASSUME NEW data \in Seq(Byte), NEW i \in 1..Len(data), Outside(data, i),
           At(data, i, EraseScrollback), NEW j \in i..i + 3
    PROVE  TakenOut(data, j) <=> ~(i > 4 /\ At(data, i - 4, EraseDisplay))
<1>1. Len(data) \in Nat /\ DOMAIN data = 1..Len(data)
  BY LenProperties
<1>2. ASSUME ~(i > 4 /\ At(data, i - 4, EraseDisplay)) PROVE TakenOut(data, j)
  BY <1>1, <1>2 DEF TakenOut, LoneIn
<1>3. ASSUME i > 4 /\ At(data, i - 4, EraseDisplay), TakenOut(data, j) PROVE FALSE
  <2>0. PICK l \in LoneIn(data) : j \in l..l + 3
    BY <1>3 DEF TakenOut
  <2>1. l \in 1..Len(data) /\ At(data, l, EraseScrollback)
    BY <1>1 DEF LoneIn
  <2>2. data[l] = 27
    BY <2>1, EraseIs DEF FourAt
  <2>3. data[i + 1] = 91 /\ data[i + 2] = 51 /\ data[i + 3] = 74
    BY EraseIs DEF FourAt
  <2>4. l < i \/ l = i \/ l = i + 1 \/ l = i + 2 \/ l = i + 3
    BY <1>1, <2>0, <2>1
  <2>5. ~ l < i
    <3> SUFFICES ASSUME l < i PROVE FALSE
      OBVIOUS
    <3>1. l \in 1..i - 1 /\ l + 3 >= i
      BY <2>0, <2>1
    <3> QED
      BY <2>1, <3>1 DEF Outside
  <2>6. l # i
    BY <1>3 DEF LoneIn
  <2> QED
    BY <2>2, <2>3, <2>4, <2>5, <2>6
<1> QED
  BY <1>2, <1>3

\* ... and no other byte is.
LEMMA TakenOutOther ==
    ASSUME NEW data \in Seq(Byte), NEW i \in 1..Len(data), Outside(data, i),
           ~At(data, i, EraseScrollback)
    PROVE  ~TakenOut(data, i)
<1> SUFFICES ASSUME NEW l \in LoneIn(data), i \in l..l + 3 PROVE FALSE
  BY DEF TakenOut
<1>1. l \in 1..Len(data) /\ At(data, l, EraseScrollback) /\ Len(data) \in Nat
  BY LenProperties DEF LoneIn
<1>2. l # i
  BY <1>1
<1>3. l \in 1..i - 1 /\ l + 3 >= i
  BY <1>1, <1>2
<1> QED
  BY <1>1, <1>3 DEF Outside

\* After an erasure, and after any other byte, the walk is outside again.
LEMMA OutsideAfter ==
    ASSUME NEW data \in Seq(Byte), NEW i \in 1..Len(data),
           At(data, i, EraseDisplay) \/ At(data, i, EraseScrollback)
    PROVE  Outside(data, i + 4) /\ i + 3 <= Len(data)
<1>1. i + 3 <= Len(data) /\ data[i + 1] # 27 /\ data[i + 2] # 27 /\ data[i + 3] # 27
  <2>1. CASE At(data, i, EraseDisplay)
    BY <2>1, EraseIs DEF FourAt
  <2>2. CASE At(data, i, EraseScrollback)
    BY <2>2, EraseIs DEF FourAt
  <2> QED
    BY <2>1, <2>2
<1>2. ASSUME NEW j \in 1..(i + 4) - 1, j + 3 >= i + 4
      PROVE  ~At(data, j, EraseDisplay) /\ ~At(data, j, EraseScrollback)
  <2>1. j = i + 1 \/ j = i + 2 \/ j = i + 3
    BY <1>2
  <2>2. data[j] # 27 /\ j \in Nat \ {0}
    BY <1>1, <2>1
  <2> QED
    BY <2>2, EraseIs DEF FourAt
<1> QED
  BY <1>1, <1>2 DEF Outside

LEMMA OutsideNext ==
    ASSUME NEW data, NEW i \in Nat \ {0}, Outside(data, i),
           ~At(data, i, EraseDisplay), ~At(data, i, EraseScrollback)
    PROVE  Outside(data, i + 1) /\ ~(i + 1 > 4 /\ At(data, (i + 1) - 4, EraseDisplay))
<1>1. ASSUME NEW j \in 1..(i + 1) - 1, j + 3 >= i + 1
      PROVE  ~At(data, j, EraseDisplay) /\ ~At(data, j, EraseScrollback)
  <2>1. CASE j = i
    BY <2>1
  <2>2. CASE j # i
    <3>1. j \in 1..i - 1 /\ j + 3 >= i
      BY <1>1, <2>2
    <3> QED
      BY <3>1 DEF Outside
  <2> QED
    BY <2>1, <2>2
<1>2. ASSUME i + 1 > 4 PROVE ~At(data, (i + 1) - 4, EraseDisplay)
  <2> DEFINE j == (i + 1) - 4
  <2>1. j \in 1..i - 1 /\ j + 3 >= i
    BY <1>2
  <2> HIDE DEF j
  <2>2. ~At(data, j, EraseDisplay)
    BY <2>1 DEF Outside
  <2> QED
    BY <2>2 DEF j
<1> QED
  BY <1>1, <1>2 DEF Outside

\* Where the walk is outside and knows whether an erasure of the display ends
\* here, it makes of the rest what Cleaned makes of it.
FiltersRest(f, data, i) ==
  \A erased \in BOOLEAN :
    Outside(data, i) /\ (erased = TRUE <=> i > 4 /\ At(data, i - 4, EraseDisplay))
      => f[i][erased] = Rest(Kept(data), i)

LEMMA KeptFour ==
    ASSUME NEW data \in Seq(Byte), NEW i \in 1..Len(data),
           NEW a \in Byte, NEW b \in Byte, NEW c \in Byte, NEW d \in Byte,
           FourAt(data, i, a, b, c, d), \A j \in i..i + 3 : ~TakenOut(data, j),
           NEW w, w = <<a, b, c, d>>
    PROVE  Four(Kept(data), i, w)
<1> DEFINE m == Kept(data)
<1>1. /\ Len(data) \in Nat /\ i + 3 <= Len(data) /\ i \in Nat \ {0}
      /\ data[i] = a /\ data[i + 1] = b /\ data[i + 2] = c /\ data[i + 3] = d
  BY LenProperties DEF FourAt
<1>2. /\ m \in Seq(Seq(Byte)) /\ Len(m) = Len(data)
      /\ \A j \in 1..Len(data) : m[j] = IF TakenOut(data, j) THEN <<>> ELSE <<data[j]>>
  BY CleanedIs
<1> HIDE DEF m
<1>3. ASSUME NEW j \in i..i + 3 PROVE m[j] = <<data[j]>>
  <2>1. j \in 1..Len(data)
    BY <1>1
  <2> QED
    BY <1>2, <2>1
<1>4. i \in i..i + 3 /\ i + 1 \in i..i + 3 /\ i + 2 \in i..i + 3 /\ i + 3 \in i..i + 3
  OBVIOUS
<1>5. m[i] = <<data[i]>> /\ m[i + 1] = <<data[i + 1]>> /\ m[i + 2] = <<data[i + 2]>> /\ m[i + 3] = <<data[i + 3]>>
  BY <1>3, <1>4
<1>6. m[i] = <<a>> /\ m[i + 1] = <<b>> /\ m[i + 2] = <<c>> /\ m[i + 3] = <<d>>
  BY <1>1, <1>5
<1>7. i + 3 <= Len(m) /\ i \in Nat \ {0}
  BY <1>1, <1>2
<1>8. Four(m, i, w)
  BY <1>2, <1>6, <1>7, RestKeeps
<1> QED
  BY <1>8 DEF m

\* One step of filter_escapes, from the end of the data forwards.
LEMMA FilterOne ==
    ASSUME NEW data \in Seq(Byte), NEW f, Filters(f, data), NEW i \in 1..Len(data),
           \A j \in i + 1..Len(data) + 1 : FiltersRest(f, data, j)
    PROVE  FiltersRest(f, data, i)
<1> SUFFICES ASSUME NEW erased \in BOOLEAN, Outside(data, i),
                    erased = TRUE <=> i > 4 /\ At(data, i - 4, EraseDisplay)
             PROVE  f[i][erased] = Rest(Kept(data), i)
  BY DEF FiltersRest
<1> DEFINE m == Kept(data)
<1>1. /\ Len(data) \in Nat /\ i \in 1..Len(data) + 1 /\ ~ i > Len(data) /\ i \in Nat \ {0}
      /\ \A j \in 1..Len(data) : data[j] \in Byte
  BY LenProperties, ElementOfSeq
<1>2. FiltersAt(f, data, i, erased)
  BY <1>1, FilterStep
<1>3. /\ m \in Seq(Seq(Byte)) /\ Len(m) = Len(data)
      /\ \A j \in 1..Len(data) : m[j] = IF TakenOut(data, j) THEN <<>> ELSE <<data[j]>>
  BY CleanedIs
<1> HIDE DEF m
<1>4. CASE At(data, i, EraseDisplay)
  <2>1. Outside(data, i + 4) /\ i + 3 <= Len(data)
    BY <1>4, OutsideAfter
  <2>2. f[i][erased] = EraseDisplay \o f[i + 4][TRUE]
    BY <1>1, <1>2, <1>4 DEF FiltersAt
  <2>3. f[i + 4][TRUE] = Rest(m, i + 4)
    <3>1. i + 4 \in i + 1..Len(data) + 1 /\ i + 4 > 4 /\ (i + 4) - 4 = i
      BY <1>1, <2>1
    <3>2. FiltersRest(f, data, i + 4)
      BY <3>1
    <3> QED
      BY <1>4, <2>1, <3>1, <3>2 DEF FiltersRest, m
  <2>4. Four(m, i, EraseDisplay)
    <3>1. FourAt(data, i, 27, 91, 50, 74)
      BY <1>1, <1>4, EraseIs
    <3>2. \A j \in i..i + 3 : ~TakenOut(data, j)
      BY <1>4, TakenOutDisplay
    <3>3. 27 \in Byte /\ 91 \in Byte /\ 50 \in Byte /\ 74 \in Byte
      BY DEF Byte
    <3>4. EraseDisplay = <<27, 91, 50, 74>>
      BY DEF EraseDisplay, ESC
    <3> QED
      BY <3>1, <3>2, <3>3, <3>4, KeptFour DEF m
  <2> QED
    BY <2>2, <2>3, <2>4 DEF Four, m
<1>5. CASE ~At(data, i, EraseDisplay) /\ At(data, i, EraseScrollback)
  <2>1. Outside(data, i + 4) /\ i + 3 <= Len(data)
    BY <1>5, OutsideAfter
  <2>2. f[i][erased] = (IF erased THEN EraseScrollback ELSE <<>>) \o f[i + 4][FALSE]
    BY <1>1, <1>2, <1>5 DEF FiltersAt
  <2>3. f[i + 4][FALSE] = Rest(m, i + 4)
    <3>1. i + 4 \in i + 1..Len(data) + 1 /\ (i + 4) - 4 = i
      BY <1>1, <2>1
    <3>2. FiltersRest(f, data, i + 4)
      BY <3>1
    <3> QED
      BY <1>5, <2>1, <3>1, <3>2 DEF FiltersRest, m
  <2>4. i \in 1..Len(data) /\ i + 1 \in 1..Len(data) /\ i + 2 \in 1..Len(data) /\ i + 3 \in 1..Len(data)
    BY <1>1, <2>1
  <2>5. \A j \in i..i + 3 : TakenOut(data, j) <=> ~(erased = TRUE)
    BY <1>5, TakenOutScrollback
  <2>6. CASE erased = TRUE
    <3>1. FourAt(data, i, 27, 91, 51, 74)
      BY <1>1, <1>5, EraseIs
    <3>2. \A j \in i..i + 3 : ~TakenOut(data, j)
      BY <2>5, <2>6
    <3>3. 27 \in Byte /\ 91 \in Byte /\ 51 \in Byte /\ 74 \in Byte
      BY DEF Byte
    <3>4. EraseScrollback = <<27, 91, 51, 74>>
      BY DEF EraseScrollback, ESC
    <3>5. Four(m, i, EraseScrollback)
      BY <3>1, <3>2, <3>3, <3>4, KeptFour DEF m
    <3> QED
      BY <2>2, <2>3, <2>6, <3>5 DEF Four, m
  <2>7. CASE ~(erased = TRUE)
    <3>1. ASSUME NEW j \in i..i + 3 PROVE m[j] = <<>>
      <4>1. j \in 1..Len(data)
        BY <1>1, <2>1
      <4> QED
        BY <1>3, <2>5, <2>7, <4>1
    <3>2. Rest(m, i) = Rest(m, i + 4)
      BY <1>1, <1>3, <2>1, <3>1, RestSkips
    <3>3. Rest(m, i + 4) \in Seq(Byte)
      <4>1. i + 3 \in 1..Len(m) /\ (i + 3) + 1 = i + 4
        BY <1>3, <2>4
      <4>2. Rest(m, (i + 3) + 1) \in Seq(Byte)
        BY <1>3, <4>1, RestStep
      <4> QED
        BY <4>1, <4>2
    <3>4. f[i][erased] = <<>> \o Rest(m, i + 4)
      BY <2>2, <2>3, <2>7
    <3> QED
      BY <3>2, <3>3, <3>4, ConcatEmptySeq DEF m
  <2> QED
    BY <2>6, <2>7
<1>6. CASE ~At(data, i, EraseDisplay) /\ ~At(data, i, EraseScrollback)
  <2>1. Outside(data, i + 1) /\ ~(i + 1 > 4 /\ At(data, (i + 1) - 4, EraseDisplay))
    BY <1>1, <1>6, OutsideNext
  <2>2. f[i][erased] = <<data[i]>> \o f[i + 1][FALSE]
    BY <1>1, <1>2, <1>6 DEF FiltersAt
  <2>3. f[i + 1][FALSE] = Rest(m, i + 1)
    <3>1. i + 1 \in i + 1..Len(data) + 1
      BY <1>1
    <3>2. FiltersRest(f, data, i + 1)
      BY <3>1
    <3> QED
      BY <2>1, <3>2 DEF FiltersRest, m
  <2>4. m[i] = <<data[i]>>
    BY <1>3, <1>6, TakenOutOther
  <2>5. Rest(m, i) = m[i] \o Rest(m, i + 1)
    BY <1>3, RestStep
  <2> QED
    BY <2>2, <2>3, <2>4, <2>5 DEF m
<1> QED
  BY <1>4, <1>5, <1>6

\* filter_escapes takes out exactly the erasures of the scrollback that no
\* erasure of the display immediately precedes, whatever the bytes are.
THEOREM FilterCleans ==
    ASSUME NEW data \in Seq(Byte)
    PROVE  filter_escapes(data) = Cleaned(data)
<1> DEFINE n == Len(data)
           m == Kept(data)
<1>1. n \in Nat
  BY LenProperties
<1>2. PICK f : Filters(f, data) /\ filter_escapes(data) = f[1][FALSE]
  BY FilterDefined, FilterBy
<1>3. m \in Seq(Seq(Byte)) /\ Len(m) = n /\ Cleaned(data) = FlattenSeq(m)
  BY CleanedIs
<1> DEFINE T == {i \in 1..n + 1 : FiltersRest(f, data, i)}
<1>4. ASSUME NEW i \in 1..n + 1, \A j \in i + 1..n + 1 : j \in T PROVE i \in T
  <2>1. CASE i = n + 1
    <3>1. ASSUME NEW e \in BOOLEAN PROVE f[i][e] = <<>>
      <4>1. FiltersAt(f, data, i, e) /\ i > Len(data)
        BY <1>1, <1>2, <2>1, FilterStep
      <4> QED
        BY <4>1 DEF FiltersAt
    <3>2. Rest(m, i) = <<>>
      BY <1>3, <2>1, RestEnds
    <3> QED
      BY <3>1, <3>2 DEF FiltersRest
  <2>2. CASE i # n + 1
    <3>1. i \in 1..Len(data) /\ \A j \in i + 1..Len(data) + 1 : FiltersRest(f, data, j)
      BY <1>1, <1>4, <2>2
    <3>2. FiltersRest(f, data, i)
      BY <1>2, <3>1, FilterOne
    <3> QED
      BY <3>2
  <2> QED
    BY <2>1, <2>2
<1> HIDE DEF T, m
<1>5. \A i \in 1..n + 1 : i \in T
  BY <1>1, <1>4, DownInduct
<1>6. FiltersRest(f, data, 1)
  BY <1>1, <1>5 DEF T
<1>7. Outside(data, 1)
  BY DEF Outside
<1>8. f[1][FALSE] = Rest(m, 1)
  <2>1. ~(1 > 4 /\ At(data, 1 - 4, EraseDisplay))
    OBVIOUS
  <2>2. FALSE = TRUE <=> 1 > 4 /\ At(data, 1 - 4, EraseDisplay)
    BY <2>1
  <2> QED
    BY <1>6, <1>7, <2>2, Zenon DEF FiltersRest, m
<1> QED
  BY <1>2, <1>3, <1>8, RestEnds

-----------------------------------------------------------------------------
(* scan_alternate_screen *)

\* The six switches: how they are made, and that none is part of another.
Words == AltOn \cup AltOff

Composed(v, number, l) == v = <<27, 91, 63>> \o number \o <<l>>
Shaped(v, number, l) ==
  /\ v \in Seq(Byte) /\ Len(v) = Len(number) + 4
  /\ v[1] = 27 /\ v[2] = 91 /\ v[3] = 63 /\ v[Len(number) + 4] = l
  /\ \A k \in 1..Len(number) : v[3 + k] = number[k]

LEMMA SwitchShape ==
    ASSUME NEW number \in Seq(Byte), NEW l \in Byte, NEW v, Composed(v, number, l)
    PROVE  Shaped(v, number, l)
<1> DEFINE a == <<27, 91, 63>>
           ab == a \o number
           c == <<l>>
           n == Len(number)
<1>1. a \in Seq(Byte) /\ Len(a) = 3 /\ a[1] = 27 /\ a[2] = 91 /\ a[3] = 63
  BY DEF Byte
<1>2. c \in Seq(Byte) /\ Len(c) = 1 /\ c[1] = l
  OBVIOUS
<1>3. v = ab \o c
  BY DEF Composed
<1>4. ab = a \o number /\ a \in Seq(Byte)
  BY <1>1
<1>5. n \in Nat
  BY LenProperties
<1> HIDE DEF a, ab, c
<1>6. /\ ab \in Seq(Byte) /\ Len(ab) = Len(a) + Len(number)
      /\ \A i \in 1..Len(a) : ab[i] = a[i]
      /\ \A i \in 1..Len(number) : ab[Len(a) + i] = number[i]
  BY <1>4, Joined
<1>7. ab \in Seq(Byte) /\ c \in Seq(Byte)
  BY <1>2, <1>6
<1>8. /\ v \in Seq(Byte) /\ Len(v) = Len(ab) + Len(c)
      /\ \A i \in 1..Len(ab) : v[i] = ab[i]
      /\ \A i \in 1..Len(c) : v[Len(ab) + i] = c[i]
  BY <1>3, <1>7, Joined
<1> HIDE DEF n
<1>9. /\ Len(ab) = n + 3 /\ ab[1] = 27 /\ ab[2] = 91 /\ ab[3] = 63
      /\ \A i \in 1..n : ab[3 + i] = number[i]
  BY <1>1, <1>5, <1>6 DEF n
<1>10. /\ Len(v) = n + 4 /\ v[1] = 27 /\ v[2] = 91 /\ v[3] = 63 /\ v[n + 4] = l
       /\ \A i \in 1..n + 3 : v[i] = ab[i]
  <2>1. 1 \in 1..n + 3 /\ 2 \in 1..n + 3 /\ 3 \in 1..n + 3 /\ (n + 3) + 1 = n + 4 /\ 1 \in 1..1
    BY <1>5
  <2> QED
    BY <1>2, <1>8, <1>9, <2>1
<1>11. \A k \in 1..n : v[3 + k] = number[k]
  <2>1. \A k \in 1..n : 3 + k \in 1..n + 3
    BY <1>5
  <2> QED
    BY <1>9, <1>10, <2>1
<1> QED
  BY <1>8, <1>10, <1>11 DEF n, Shaped

\* A switch of the alternate screen is 6 or 8 bytes that begin with the only
\* ESC; its fourth byte tells its length, its last one the direction.
SwitchTo(v, l) ==
  /\ v \in Seq(Byte) /\ Len(v) \in {6, 8}
  /\ v[1] = 27 /\ v[2] = 91 /\ v[3] = 63 /\ v[Len(v)] = l
  /\ (Len(v) = 6 <=> v[4] = 52)
  /\ \A k \in 2..Len(v) : v[k] # 27

LEMMA ShortSwitch ==
    ASSUME NEW l \in {104, 108}, NEW v, NEW number, number = <<52, 55>>, Composed(v, number, l)
    PROVE  SwitchTo(v, l)
<1>1. number \in Seq(Byte) /\ Len(number) = 2 /\ number[1] = 52 /\ number[2] = 55 /\ l \in Byte
  BY DEF Byte
<1>2. Shaped(v, number, l)
  BY <1>1, SwitchShape
<1>3. /\ v \in Seq(Byte) /\ Len(v) = 6 /\ v[1] = 27 /\ v[2] = 91 /\ v[3] = 63 /\ v[6] = l
      /\ \A k \in 1..2 : v[3 + k] = number[k]
  BY <1>1, <1>2 DEF Shaped
<1>4. v[4] = 52 /\ v[5] = 55
  <2>1. 1 \in 1..2 /\ 2 \in 1..2 /\ 3 + 1 = 4 /\ 3 + 2 = 5
    OBVIOUS
  <2> QED
    BY <1>1, <1>3, <2>1
<1>5. ASSUME NEW k \in 2..6 PROVE v[k] # 27
  <2>1. k = 2 \/ k = 3 \/ k = 4 \/ k = 5 \/ k = 6
    OBVIOUS
  <2> QED
    BY <1>3, <1>4, <2>1
<1> QED
  BY <1>3, <1>4, <1>5 DEF SwitchTo

LEMMA LongSwitch ==
    ASSUME NEW l \in {104, 108}, NEW c \in {55, 57}, NEW v, NEW number,
           number = <<49, 48, 52, c>>, Composed(v, number, l)
    PROVE  SwitchTo(v, l)
<1>1. /\ number \in Seq(Byte) /\ Len(number) = 4 /\ l \in Byte
      /\ number[1] = 49 /\ number[2] = 48 /\ number[3] = 52 /\ number[4] = c
  BY DEF Byte
<1>2. Shaped(v, number, l)
  BY <1>1, SwitchShape
<1>3. /\ v \in Seq(Byte) /\ Len(v) = 8 /\ v[1] = 27 /\ v[2] = 91 /\ v[3] = 63 /\ v[8] = l
      /\ \A k \in 1..4 : v[3 + k] = number[k]
  BY <1>1, <1>2 DEF Shaped
<1>4. v[4] = 49 /\ v[5] = 48 /\ v[6] = 52 /\ v[7] = c
  <2>1. /\ 1 \in 1..4 /\ 2 \in 1..4 /\ 3 \in 1..4 /\ 4 \in 1..4
        /\ 3 + 1 = 4 /\ 3 + 2 = 5 /\ 3 + 3 = 6 /\ 3 + 4 = 7
    OBVIOUS
  <2> QED
    BY <1>1, <1>3, <2>1
<1>5. ASSUME NEW k \in 2..8 PROVE v[k] # 27
  <2>1. k = 2 \/ k = 3 \/ k = 4 \/ k = 5 \/ k = 6 \/ k = 7 \/ k = 8
    OBVIOUS
  <2> QED
    BY <1>3, <1>4, <2>1
<1> QED
  BY <1>3, <1>4, <1>5 DEF SwitchTo

LEMMA SwitchIs ==
    ASSUME NEW l \in {104, 108}, NEW v \in Switch(l)
    PROVE  SwitchTo(v, l)
<1>1. PICK number \in AltNumbers : Composed(v, number, l)
  BY DEF Switch, ESC, Composed
<1>2. number = <<52, 55>> \/ number = <<49, 48, 52, 55>> \/ number = <<49, 48, 52, 57>>
  BY DEF AltNumbers
<1>3. 55 \in {55, 57} /\ 57 \in {55, 57}
  OBVIOUS
<1> QED
  BY <1>1, <1>2, <1>3, ShortSwitch, LongSwitch

\* A switch turns the alternate screen on or off, not both.
LEMMA WordsAre ==
    ASSUME NEW w \in Words
    PROVE  \/ w \in AltOn /\ w \notin AltOff /\ SwitchTo(w, 104)
           \/ w \in AltOff /\ w \notin AltOn /\ SwitchTo(w, 108)
<1>1. 104 \in {104, 108} /\ 108 \in {104, 108}
  OBVIOUS
<1>2. w \in AltOn => SwitchTo(w, 104)
  BY <1>1, SwitchIs DEF AltOn
<1>3. w \in AltOff => SwitchTo(w, 108)
  BY <1>1, SwitchIs DEF AltOff
<1>4. ~(SwitchTo(w, 104) /\ SwitchTo(w, 108))
  <2> SUFFICES ASSUME SwitchTo(w, 104), SwitchTo(w, 108) PROVE FALSE
    OBVIOUS
  <2>1. w[Len(w)] = 104
    BY DEF SwitchTo
  <2>2. w[Len(w)] = 108
    BY DEF SwitchTo
  <2> QED
    BY <2>1, <2>2
<1> QED
  BY <1>2, <1>3, <1>4 DEF Words

\* Two switches at one place go the same way, and no switch begins inside one.
LEMMA SameWay ==
    ASSUME NEW data \in Seq(Byte), NEW i \in Nat \ {0}, NEW v \in Words, NEW w \in Words,
           At(data, i, v), At(data, i, w)
    PROVE  v \in AltOn <=> w \in AltOn
<1> DEFINE lv == v[Len(v)]
           lw == w[Len(w)]
<1>1. /\ v \in Seq(Byte) /\ Len(v) \in {6, 8} /\ (Len(v) = 6 <=> v[4] = 52)
      /\ (v \in AltOn <=> lv = 104)
  BY WordsAre DEF SwitchTo
<1>2. /\ w \in Seq(Byte) /\ Len(w) \in {6, 8} /\ (Len(w) = 6 <=> w[4] = 52)
      /\ (w \in AltOn <=> lw = 104)
  BY WordsAre DEF SwitchTo
<1>3. 4 \in 1..Len(v) /\ Len(v) \in 1..Len(v) /\ 4 \in 1..Len(w) /\ Len(w) \in 1..Len(w)
  BY <1>1, <1>2
<1>4. data[i + 4 - 1] = v[4] /\ data[i + Len(v) - 1] = lv
  BY <1>1, <1>3, AtElement
<1>5. data[i + 4 - 1] = w[4] /\ data[i + Len(w) - 1] = lw
  BY <1>2, <1>3, AtElement
<1> HIDE DEF lv, lw
<1>6. Len(v) = Len(w)
  BY <1>1, <1>2, <1>4, <1>5
<1> QED
  BY <1>1, <1>2, <1>4, <1>5, <1>6

\* The places of switches.
LEMMA SwitchesAre ==
    ASSUME NEW data \in Seq(Byte)
    PROVE  /\ Switches(data) \in SUBSET (1..Len(data)) /\ Len(data) \in Nat
           /\ \A j \in Switches(data) : data[j] = 27
           /\ \A j \in 1..Len(data) : j \in Switches(data) <=> \E w \in Words : At(data, j, w)
<1>1. Len(data) \in Nat /\ DOMAIN data = 1..Len(data)
  BY LenProperties
<1>2. ASSUME NEW j \in Switches(data) PROVE data[j] = 27
  <2>1. PICK w \in Words : At(data, j, w)
    BY DEF Switches, Words
  <2>2. j \in Nat \ {0}
    BY <1>1 DEF Switches
  <2>3. w \in Seq(Byte) /\ w[1] = 27 /\ Len(w) \in {6, 8}
    BY WordsAre DEF SwitchTo
  <2>4. w # <<>>
    BY <2>3, EmptySeq
  <2> QED
    BY <2>1, <2>2, <2>3, <2>4, AtFirst
<1> QED
  BY <1>1, <1>2 DEF Switches, Words

\* No switch begins inside another.
LEMMA SwitchFits ==
    ASSUME NEW data \in Seq(Byte), NEW i \in Nat \ {0}, NEW w \in Words, At(data, i, w)
    PROVE  /\ Len(w) \in {6, 8} /\ i + Len(w) - 1 <= Len(data)
           /\ i \in Switches(data)
           /\ \A j \in i + 1..i + Len(w) - 1 : j \notin Switches(data)
<1>1. /\ w \in Seq(Byte) /\ Len(w) \in {6, 8} /\ \A k \in 2..Len(w) : w[k] # 27
  BY WordsAre DEF SwitchTo
<1>2. i + Len(w) - 1 <= Len(data) /\ Len(data) \in Nat
  BY LenProperties DEF At
<1>3. i \in Switches(data)
  BY <1>1, <1>2, SwitchesAre
<1>4. ASSUME NEW j \in i + 1..i + Len(w) - 1 PROVE j \notin Switches(data)
  <2> DEFINE k == j - i + 1
  <2>1. k \in 2..Len(w) /\ k \in 1..Len(w) /\ i + k - 1 = j
    BY <1>1
  <2> HIDE DEF k
  <2>2. data[i + k - 1] = w[k]
    BY <1>1, <2>1, AtElement
  <2>3. data[j] # 27
    BY <1>1, <2>1, <2>2
  <2> QED
    BY <2>3, SwitchesAre
<1> QED
  BY <1>1, <1>2, <1>3, <1>4

\* The switches from i on, and the alternate screen after them.
From(data, i) == {j \in Switches(data) : j >= i}

\* The screen after the switches from i onwards.
OnAt(data, i) == \E w \in AltOn : At(data, i, w)
AltFrom(data, i, on) == IF From(data, i) = {} THEN on ELSE OnAt(data, Max(From(data, i)))

LEMMA AltFromNone ==
    ASSUME NEW data \in Seq(Byte), NEW i \in 1..Len(data), i \notin Switches(data)
    PROVE  From(data, i) = From(data, i + 1)
BY SwitchesAre DEF From

LEMMA OneMax == ASSUME NEW i \in Nat PROVE Max({i}) = i
BY DEF Max

\* The greatest of a set is that of its upper part.
LEMMA MaxAbove ==
    ASSUME NEW n \in Nat, NEW S \in SUBSET (1..n), NEW U \in SUBSET S, U # {},
           \A x \in S \ U, y \in U : x < y
    PROVE  Max(S) = Max(U)
<1>1. Max(S) \in S /\ \A y \in S : Max(S) >= y
  BY MaxIs
<1>2. Max(U) \in U /\ \A y \in U : Max(U) >= y
  BY MaxIs
<1> DEFINE a == Max(S)
           b == Max(U)
<1> HIDE DEF a, b
<1>3. a \in S /\ a \in 1..n /\ b \in U /\ b \in 1..n /\ a >= b
  BY <1>1, <1>2 DEF a, b
<1>4. a \in U
  BY <1>3
<1>5. b >= a
  BY <1>2, <1>4 DEF b
<1> QED
  BY <1>3, <1>5 DEF a, b

LEMMA AltFromWord ==
    ASSUME NEW data \in Seq(Byte), NEW i \in 1..Len(data), NEW w \in Words, At(data, i, w),
           NEW on \in BOOLEAN
    PROVE  AltFrom(data, i, on) <=> AltFrom(data, i + Len(w), w \in AltOn)
<1> DEFINE n == Len(data)
           e == i + Len(w)
           S == From(data, i)
           U == From(data, e)
<1>1. n \in Nat /\ Switches(data) \in SUBSET (1..n)
  BY SwitchesAre
<1>2. /\ Len(w) \in {6, 8} /\ e - 1 <= n /\ i \in Switches(data)
      /\ \A j \in i + 1..e - 1 : j \notin Switches(data)
  BY SwitchFits
<1>3. e \in Nat /\ e > i
  <2> DEFINE l == Len(w)
  <2>1. l \in {6, 8} /\ i \in Nat
    BY <1>1, <1>2
  <2> HIDE DEF l
  <2>2. i + l \in Nat /\ i + l > i
    BY <2>1
  <2> QED
    BY <2>2 DEF l
<1> HIDE DEF e, n
<1>4. S = {i} \cup U /\ U \in SUBSET S /\ S \in SUBSET (1..n) /\ \A y \in U : i < y
  BY <1>1, <1>2, <1>3 DEF From
<1>5. OnAt(data, i) <=> w \in AltOn
  BY SameWay DEF OnAt, Words
<1>6. CASE U = {}
  <2>1. S = {i}
    BY <1>4, <1>6
  <2>2. Max(S) = i
    BY <2>1, OneMax
  <2>3. S # {}
    BY <2>1
  <2> HIDE DEF S, U
  <2> QED
    BY <1>5, <1>6, <2>2, <2>3 DEF AltFrom, S, U, e
<1>7. CASE U # {}
  <2>1. \A x \in S \ U, y \in U : x < y
    BY <1>4
  <2>2. Max(S) = Max(U)
    <3> HIDE DEF S, U
    <3> QED
      BY <1>1, <1>4, <1>7, <2>1, MaxAbove
  <2>3. S # {}
    BY <1>4
  <2> HIDE DEF S, U
  <2> QED
    BY <1>7, <2>2, <2>3 DEF AltFrom, S, U, e
<1> QED
  BY <1>6, <1>7

\* The function by which scan_alternate_screen is defined.
SwitchesAt(data, i) == {w \in AltOn \cup AltOff : At(data, i, w)}

\* scan_alternate_screen is the value at 1 of any function that the definition of
\* from is true of, and there is one.
Scans(f, data) ==
  f = [i \in 1..Len(data) + 1 |-> [on \in BOOLEAN |->
        IF i > Len(data) THEN on
        ELSE IF SwitchesAt(data, i) = {} THEN f[i + 1][on]
        ELSE LET w == CHOOSE w \in SwitchesAt(data, i) : TRUE
             IN f[i + Len(w)][(w \in AltOn)]]]

LEMMA ScanBy ==
    ASSUME NEW alt, NEW data, NEW g, Scans(g, data)
    PROVE  \E f : Scans(f, data) /\ scan_alternate_screen(alt, data) = f[1][alt]
<1> DEFINE F == CHOOSE f : Scans(f, data)
<1>1. Scans(F, data)
  OBVIOUS
<1>2. scan_alternate_screen(alt, data) = F[1][alt]
  BY DEF scan_alternate_screen, Scans, SwitchesAt
<1> QED
  BY <1>1, <1>2

\* The switch that CHOOSE takes; all at one place lead the same way (SameWay).
Chosen(data, i) == CHOOSE w \in SwitchesAt(data, i) : TRUE
ChosenOn(data, i) == Chosen(data, i) \in AltOn

ScansAt(f, data, i, on) ==
  f[i][on] = IF i > Len(data) THEN on
             ELSE IF SwitchesAt(data, i) = {} THEN f[i + 1][on]
             ELSE f[i + Len(Chosen(data, i))][ChosenOn(data, i)]

LEMMA ScanStep ==
    ASSUME NEW data, NEW f, Scans(f, data), NEW i \in 1..Len(data) + 1, NEW on \in BOOLEAN
    PROVE  ScansAt(f, data, i, on)
<1>1. f[i] = [o \in BOOLEAN |->
        IF i > Len(data) THEN o
        ELSE IF SwitchesAt(data, i) = {} THEN f[i + 1][o]
        ELSE LET w == CHOOSE w \in SwitchesAt(data, i) : TRUE
             IN f[i + Len(w)][(w \in AltOn)]]
  BY Zenon DEF Scans
<1>2. f[i][on] = IF i > Len(data) THEN on
        ELSE IF SwitchesAt(data, i) = {} THEN f[i + 1][on]
        ELSE f[i + Len(Chosen(data, i))][(Chosen(data, i) \in AltOn)]
  BY <1>1, Zenon DEF Chosen
<1> QED
  BY <1>2, Zenon DEF ScansAt, ChosenOn

LEMMA ScanDefined ==
    ASSUME NEW data \in Seq(Byte)
    PROVE  \E f : Scans(f, data)
<1> DEFINE n == Len(data)
           V == [BOOLEAN -> BOOLEAN]
           next == [i \in 1..n |-> IF SwitchesAt(data, i) = {} THEN i + 1
                                   ELSE i + Len(Chosen(data, i))]
           X(i, v, o) == IF SwitchesAt(data, i) = {} THEN v[o] ELSE v[ChosenOn(data, i)]
           step == [i \in 1..n |-> [v \in V |-> [o \in BOOLEAN |-> X(i, v, o)]]]
           base == [o \in BOOLEAN |-> o]
<1>1. n \in Nat
  BY LenProperties
<1>2. ASSUME NEW i \in 1..n PROVE next[i] \in 1..n + 1 /\ next[i] > i
  <2>1. CASE SwitchesAt(data, i) = {}
    BY <1>1, <2>1
  <2>2. CASE SwitchesAt(data, i) # {}
    <3> DEFINE l == Len(Chosen(data, i))
    <3>1. Chosen(data, i) \in SwitchesAt(data, i)
      BY <2>2 DEF Chosen
    <3>2. Chosen(data, i) \in Words /\ At(data, i, Chosen(data, i)) /\ i \in Nat \ {0}
      BY <3>1 DEF SwitchesAt, Words
    <3>3. l \in {6, 8} /\ i + l - 1 <= n
      BY <3>2, SwitchFits
    <3>4. next[i] = i + l
      BY <2>2
    <3> HIDE DEF l, next, n
    <3> QED
      BY <1>1, <3>2, <3>3, <3>4
  <2> QED
    BY <2>1, <2>2
<1>3. next \in [1..n -> 1..n + 1]
  BY <1>2
<1>4. ASSUME NEW i \in 1..n, NEW v \in V, NEW o \in BOOLEAN PROVE X(i, v, o) \in BOOLEAN
  <2>1. ChosenOn(data, i) \in BOOLEAN
    BY DEF ChosenOn
  <2>2. v[o] \in BOOLEAN /\ v[ChosenOn(data, i)] \in BOOLEAN
    BY <2>1
  <2> QED
    BY <2>2
<1> HIDE DEF X
<1>5. step \in [1..n -> [V -> V]]
  <2>1. \A i \in 1..n : \A v \in V : [o \in BOOLEAN |-> X(i, v, o)] \in V
    BY <1>4
  <2> HIDE DEF V
  <2> QED
    BY <2>1
<1>6. base \in V
  OBVIOUS
<1>7. \E f \in [1..n + 1 -> V] : Walks(f, n, base, next, step)
  <2> HIDE DEF n, next, step, base, V
  <2> QED
    BY <1>1, <1>2, <1>3, <1>5, <1>6, WalkDefined
<1>8. PICK f \in [1..n + 1 -> V] : Walks(f, n, base, next, step)
  BY <1>7
<1> DEFINE Y(i, o) == IF i > Len(data) THEN o
        ELSE IF SwitchesAt(data, i) = {} THEN f[i + 1][o]
        ELSE f[i + Len(Chosen(data, i))][ChosenOn(data, i)]
<1>9. ASSUME NEW i \in 1..n + 1 PROVE f[i] = [o \in BOOLEAN |-> Y(i, o)]
  <2>1. CASE i = n + 1
    <3>0. i > Len(data)
      BY <1>1, <2>1
    <3>1. \A o \in BOOLEAN : Y(i, o) = o
      BY <3>0, Zenon
    <3>2. f[i] = base
      BY <1>8, <2>1 DEF Walks
    <3> HIDE DEF Y
    <3>3. [o \in BOOLEAN |-> Y(i, o)] = [o \in BOOLEAN |-> o]
      BY <3>1, Zenon
    <3> QED
      BY <3>2, <3>3, Zenon
  <2>2. CASE i # n + 1
    <3>1. i \in 1..n /\ ~ i > Len(data)
      BY <1>1, <2>2
    <3>2. f[i] = step[i][f[next[i]]]
      BY <1>8, <3>1 DEF Walks
    <3> DEFINE v == f[next[i]]
    <3>3. v \in V
      BY <1>3, <3>1
    <3>4. step[i] = [u \in V |-> [o \in BOOLEAN |-> X(i, u, o)]]
      BY <3>1
    <3>5. next[i] = IF SwitchesAt(data, i) = {} THEN i + 1 ELSE i + Len(Chosen(data, i))
      BY <3>1
    <3> HIDE DEF step, v, next, V
    <3>6. f[i] = [o \in BOOLEAN |-> X(i, v, o)]
      BY <3>2, <3>3, <3>4 DEF v
    <3>7. ASSUME NEW o \in BOOLEAN PROVE X(i, v, o) = Y(i, o)
      BY <3>1, <3>5, Zenon DEF X, v
    <3> HIDE DEF Y
    <3>8. [o \in BOOLEAN |-> X(i, v, o)] = [o \in BOOLEAN |-> Y(i, o)]
      BY <3>7, Zenon
    <3> QED
      BY <3>6, <3>8, Zenon
  <2> QED
    BY <2>1, <2>2
<1>10. f = [i \in 1..n + 1 |-> [o \in BOOLEAN |-> Y(i, o)]]
  <2> HIDE DEF Y
  <2> QED
    BY <1>8, <1>9, Zenon
<1>11. Scans(f, data)
  BY <1>10, Zenon DEF Scans, Chosen, ChosenOn
<1> QED
  BY <1>11

\* What holds from i to the end of the data: f goes where the last switch leads.
ScansRest(f, data, i) ==
  \A on \in BOOLEAN : f[i][on] \in BOOLEAN /\ (f[i][on] = TRUE <=> AltFrom(data, i, on))

\* One step of scan_alternate_screen, from the end of the data forwards.
LEMMA ScanOne ==
    ASSUME NEW data \in Seq(Byte), NEW f, Scans(f, data), NEW i \in 1..Len(data),
           \A j \in i + 1..Len(data) + 1 : ScansRest(f, data, j)
    PROVE  ScansRest(f, data, i)
<1> SUFFICES ASSUME NEW on \in BOOLEAN
             PROVE  f[i][on] \in BOOLEAN /\ (f[i][on] = TRUE <=> AltFrom(data, i, on))
  BY DEF ScansRest
<1>1. Len(data) \in Nat /\ i \in 1..Len(data) + 1 /\ ~ i > Len(data) /\ i \in Nat \ {0}
  BY LenProperties
<1>2. ScansAt(f, data, i, on)
  BY <1>1, ScanStep
<1>3. CASE SwitchesAt(data, i) = {}
  <2>1. f[i][on] = f[i + 1][on]
    BY <1>1, <1>2, <1>3, Zenon DEF ScansAt
  <2>2. i \notin Switches(data)
    BY <1>1, <1>3, SwitchesAre DEF SwitchesAt, Words
  <2>3. From(data, i) = From(data, i + 1)
    BY <2>2, AltFromNone
  <2>4. AltFrom(data, i, on) <=> AltFrom(data, i + 1, on)
    BY <2>3, Zenon DEF AltFrom
  <2>5. ScansRest(f, data, i + 1)
    <3>1. i + 1 \in i + 1..Len(data) + 1
      BY <1>1
    <3> QED
      BY <3>1
  <2>6. f[i + 1][on] \in BOOLEAN /\ (f[i + 1][on] = TRUE <=> AltFrom(data, i + 1, on))
    BY <2>5, Zenon DEF ScansRest
  <2> QED
    BY <2>1, <2>4, <2>6, Zenon
<1>4. CASE SwitchesAt(data, i) # {}
  <2> DEFINE w == Chosen(data, i)
             o == ChosenOn(data, i)
             e == i + Len(w)
  <2>1. f[i][on] = f[e][o]
    BY <1>1, <1>2, <1>4, Zenon DEF ScansAt
  <2>2. w \in SwitchesAt(data, i)
    BY <1>4 DEF Chosen
  <2>3. w \in Words /\ At(data, i, w)
    BY <2>2 DEF SwitchesAt, Words
  <2>4. o \in BOOLEAN /\ (o <=> w \in AltOn)
    BY DEF ChosenOn
  <2>5. AltFrom(data, i, on) <=> AltFrom(data, e, w \in AltOn)
    BY <2>3, AltFromWord
  <2>6. e \in i + 1..Len(data) + 1
    <3> DEFINE l == Len(w)
    <3>1. l \in {6, 8} /\ i + l - 1 <= Len(data)
      BY <1>1, <2>3, SwitchFits
    <3> HIDE DEF l
    <3>2. i + l \in i + 1..Len(data) + 1
      BY <1>1, <3>1
    <3> QED
      BY <3>2 DEF l
  <2>7. ScansRest(f, data, e)
    BY <2>6
  <2>8. AltFrom(data, e, w \in AltOn) <=> AltFrom(data, e, o)
    BY Zenon DEF ChosenOn
  <2> HIDE DEF w, o, e
  <2>9. f[e][o] \in BOOLEAN /\ (f[e][o] = TRUE <=> AltFrom(data, e, o))
    BY <2>4, <2>7, Zenon DEF ScansRest
  <2> QED
    BY <2>1, <2>5, <2>8, <2>9, Zenon
<1> QED
  BY <1>3, <1>4

\* AltIn, which names the last switch, in these terms.
LEMMA AltInIs ==
    ASSUME NEW data \in Seq(Byte), NEW alt \in BOOLEAN
    PROVE  /\ AltIn(data, alt) \in BOOLEAN /\ (AltIn(data, alt) <=> AltFrom(data, 1, alt))
           /\ Switches(data) = {} => AltIn(data, alt) = alt
           /\ Switches(data) # {} => AltIn(data, alt) = OnAt(data, Max(Switches(data)))
<1>1. From(data, 1) = Switches(data)
  BY SwitchesAre DEF From
<1>2. Switches(data) = {} => AltIn(data, alt) = alt
  BY Zenon DEF AltIn
<1>3. Switches(data) # {} => AltIn(data, alt) = OnAt(data, Max(Switches(data)))
  BY Zenon DEF AltIn, OnAt
<1>4. OnAt(data, Max(Switches(data))) \in BOOLEAN
  BY DEF OnAt
<1>5. AltIn(data, alt) \in BOOLEAN
  BY <1>2, <1>3, <1>4
<1>6. AltIn(data, alt) <=> AltFrom(data, 1, alt)
  BY <1>1, Zenon DEF AltIn, AltFrom, OnAt
<1> QED
  BY <1>2, <1>3, <1>5, <1>6

\* scan_alternate_screen is where the last switch of a line leads, whatever the
\* bytes are.
THEOREM ScanFindsLast ==
    ASSUME NEW data \in Seq(Byte), NEW alt \in BOOLEAN
    PROVE  scan_alternate_screen(alt, data) = AltIn(data, alt)
<1> DEFINE n == Len(data)
<1>1. n \in Nat
  BY LenProperties
<1>2. PICK f : Scans(f, data) /\ scan_alternate_screen(alt, data) = f[1][alt]
  BY ScanDefined, ScanBy
<1> DEFINE T == {i \in 1..n + 1 : ScansRest(f, data, i)}
<1>3. ASSUME NEW i \in 1..n + 1, \A j \in i + 1..n + 1 : j \in T PROVE i \in T
  <2>1. CASE i = n + 1
    <3>1. ASSUME NEW on \in BOOLEAN
          PROVE  f[i][on] \in BOOLEAN /\ (f[i][on] = TRUE <=> AltFrom(data, i, on))
      <4>1. ScansAt(f, data, i, on) /\ i > Len(data)
        BY <1>1, <1>2, <2>1, ScanStep
      <4>2. f[i][on] = on
        BY <4>1, Zenon DEF ScansAt
      <4>3. From(data, i) = {}
        BY <1>1, <2>1, SwitchesAre DEF From
      <4>4. AltFrom(data, i, on) <=> on
        BY <4>3, Zenon DEF AltFrom
      <4> QED
        BY <4>2, <4>4, Zenon
    <3> QED
      BY <3>1 DEF ScansRest
  <2>2. CASE i # n + 1
    <3>1. i \in 1..Len(data) /\ \A j \in i + 1..Len(data) + 1 : ScansRest(f, data, j)
      BY <1>1, <1>3, <2>2
    <3>2. ScansRest(f, data, i)
      BY <1>2, <3>1, ScanOne
    <3> QED
      BY <3>2
  <2> QED
    BY <2>1, <2>2
<1> HIDE DEF T
<1>4. \A i \in 1..n + 1 : i \in T
  BY <1>1, <1>3, DownInduct
<1>5. ScansRest(f, data, 1)
  BY <1>1, <1>4 DEF T
<1>6. f[1][alt] \in BOOLEAN /\ (f[1][alt] = TRUE <=> AltFrom(data, 1, alt))
  BY <1>5, Zenon DEF ScansRest
<1>7. AltIn(data, alt) \in BOOLEAN /\ (AltIn(data, alt) <=> AltFrom(data, 1, alt))
  BY AltInIs
<1>8. f[1][alt] = AltIn(data, alt)
  <2>1. CASE AltFrom(data, 1, alt)
    <3>1. f[1][alt] = TRUE
      BY <1>6, <2>1, Zenon
    <3>2. AltIn(data, alt)
      BY <1>7, <2>1, Zenon
    <3>3. AltIn(data, alt) = TRUE
      BY <1>7, <3>2
    <3> QED
      BY <3>1, <3>3
  <2>2. CASE ~AltFrom(data, 1, alt)
    <3>1. f[1][alt] # TRUE
      BY <1>6, <2>2, Zenon
    <3>2. ~AltIn(data, alt)
      BY <1>7, <2>2, Zenon
    <3>3. AltIn(data, alt) = FALSE
      BY <1>7, <3>2
    <3>4. f[1][alt] = FALSE
      BY <1>6, <3>1
    <3> QED
      BY <3>3, <3>4
  <2> QED
    BY <2>1, <2>2
<1> QED
  BY <1>2, <1>8

\* The ESC of a switch is no part of an erasure, so data that switches the
\* screen is never filtered away as a whole.
LEMMA SwitchStays ==
    ASSUME NEW data \in Seq(Byte), NEW j \in Switches(data)
    PROVE  j \in 1..Len(data) /\ ~TakenOut(data, j)
<1>1. j \in 1..Len(data) /\ data[j] = 27 /\ j \in Nat \ {0}
  BY SwitchesAre
<1>2. PICK w \in Words : At(data, j, w)
  BY <1>1, SwitchesAre
<1>3. w \in Seq(Byte) /\ Len(w) \in {6, 8} /\ w[3] = 63
  BY WordsAre DEF SwitchTo
<1>4. data[j + 3 - 1] = w[3]
  <2>1. 3 \in 1..Len(w)
    BY <1>3
  <2> QED
    BY <1>1, <1>2, <1>3, <2>1, AtElement
<1>5. data[j + 2] = 63
  BY <1>1, <1>3, <1>4
<1>6. ASSUME NEW i \in LoneIn(data), j \in i..i + 3 PROVE FALSE
  <2>1. i \in Nat \ {0} /\ At(data, i, EraseScrollback)
    BY <1>1, <1>6 DEF LoneIn
  <2>2. FourAt(data, i, 27, 91, 51, 74)
    BY <2>1, EraseIs
  <2>3. data[i + 1] = 91 /\ data[i + 2] = 51 /\ data[i + 3] = 74
    BY <2>2 DEF FourAt
  <2>4. j = i \/ j = i + 1 \/ j = i + 2 \/ j = i + 3
    BY <1>1, <1>6, <2>1
  <2> QED
    BY <1>1, <1>5, <2>3, <2>4
<1> QED
  BY <1>1, <1>6 DEF TakenOut

LEMMA SwitchKept ==
    ASSUME NEW data \in Seq(Byte), Switches(data) # {}
    PROVE  Cleaned(data) # <<>>
<1> DEFINE m == Kept(data)
           F == [x \in Seq(Byte) |-> x]
<1>1. PICK j : j \in Switches(data)
  OBVIOUS
<1>2. j \in 1..Len(data) /\ ~TakenOut(data, j) /\ Len(data) \in Nat
  BY <1>1, SwitchStays, LenProperties
<1>3. /\ Cleaned(data) = FlattenSeq(m) /\ m \in Seq(Seq(Byte)) /\ Len(m) = Len(data)
      /\ m[j] = <<data[j]>>
  BY <1>2, CleanedIs
<1> HIDE DEF m
<1>4. F \in [Seq(Byte) -> Seq(Byte)] /\ m[j] \in Seq(Byte) /\ F[m[j]] = <<data[j]>>
  <2>1. m[j] \in Seq(Byte)
    BY <1>2, <1>3
  <2> QED
    BY <1>3, <2>1
<1>5. Flat(F, m) = FlattenSeq(m)
  BY <1>3, FlattenIsFlat
<1> HIDE DEF F
<1>6. Places(F, m, j - 1)
  <2>1. j - 1 \in 0..Len(m) - 1
    BY <1>2, <1>3
  <2> QED
    BY <1>3, <1>4, <2>1, FlatPlaces
<1> DEFINE p == FlatPos(F, m, j - 1)
           l == Len(F[m[j]])
           q == FlatPos(F, m, j)
<1>7. l = 1 /\ j - 1 + 1 = j
  <2>1. Len(<<data[j]>>) = 1
    OBVIOUS
  <2> QED
    BY <1>2, <1>4, <2>1
<1>8. p \in Nat /\ q = p + l /\ q <= Len(Flat(F, m))
  BY <1>6, <1>7 DEF Places
<1> HIDE DEF p, q, l
<1>9. Len(Flat(F, m)) # 0
  <2> DEFINE z == Len(Flat(F, m))
  <2>1. z \in Nat
    BY <1>3, <1>5, CleanedIs, LenProperties
  <2> HIDE DEF z
  <2>2. q <= z
    BY <1>8 DEF z
  <2>3. z # 0
    BY <1>7, <1>8, <2>1, <2>2
  <2> QED
    BY <2>3 DEF z
<1>10. Len(<<>>) = 0
  OBVIOUS
<1> QED
  BY <1>3, <1>5, <1>9, <1>10

-----------------------------------------------------------------------------
(* Two lines one after the other. *)

\* A word that ends in u stands in u \o v where it stands in u ...
LEMMA AtLeft ==
    ASSUME NEW u \in Seq(Byte), NEW v \in Seq(Byte), NEW t, t = u \o v,
           NEW w \in Seq(Byte), NEW i \in Nat \ {0}, i + Len(w) - 1 <= Len(u)
    PROVE  At(t, i, w) <=> At(u, i, w)
<1>1. /\ t \in Seq(Byte) /\ Len(u) \in Nat /\ Len(v) \in Nat /\ Len(t) = Len(u) + Len(v)
      /\ \A k \in 1..Len(u) : t[k] = u[k]
  BY Joined
<1> DEFINE l == Len(w)
           a == Len(u)
           b == Len(t)
<1>2. l \in Nat /\ a \in Nat /\ b \in Nat /\ a <= b /\ i + l - 1 <= a
  BY <1>1, LenProperties
<1>3. \A k \in 1..l : t[i + k - 1] = u[i + k - 1]
  <2>1. ASSUME NEW k \in 1..l PROVE t[i + k - 1] = u[i + k - 1]
    <3> HIDE DEF l, a, b
    <3>1. i + k - 1 \in 1..a
      BY <1>2
    <3> QED
      BY <1>1, <3>1 DEF a
  <2> QED
    BY <2>1
<1>4. Spelt(t, i, w) <=> Spelt(u, i, w)
  <2> SUFFICES (i + l - 1 <= b /\ \A k \in 1..l : t[i + k - 1] = w[k]) <=>
               (i + l - 1 <= a /\ \A k \in 1..l : u[i + k - 1] = w[k])
    BY Zenon DEF Spelt
  <2> HIDE DEF l, a, b
  <2>1. i + l - 1 <= b
    BY <1>2
  <2> QED
    BY <1>2, <1>3, <2>1, Zenon
<1>5. At(t, i, w) <=> Spelt(t, i, w)
  BY <1>1, AtIs
<1>6. At(u, i, w) <=> Spelt(u, i, w)
  BY AtIs
<1> QED
  BY <1>4, <1>5, <1>6, Zenon

\* ... and a word in v stands so much later.
LEMMA AtRight ==
    ASSUME NEW u \in Seq(Byte), NEW v \in Seq(Byte), NEW t, t = u \o v,
           NEW w \in Seq(Byte), NEW i \in Nat \ {0}
    PROVE  At(t, Len(u) + i, w) <=> At(v, i, w)
<1>1. /\ t \in Seq(Byte) /\ Len(u) \in Nat /\ Len(v) \in Nat /\ Len(t) = Len(u) + Len(v)
      /\ \A k \in 1..Len(v) : t[Len(u) + k] = v[k]
  BY Joined
<1> DEFINE l == Len(w)
           a == Len(u)
           b == Len(v)
           c == Len(t)
<1>2. l \in Nat /\ a \in Nat /\ b \in Nat /\ c = a + b
  BY <1>1, LenProperties
<1>3. i + l - 1 <= b => \A k \in 1..l : t[a + i + k - 1] = v[i + k - 1]
  <2>1. ASSUME i + l - 1 <= b, NEW k \in 1..l PROVE t[a + i + k - 1] = v[i + k - 1]
    <3>1. \A x \in 1..b : t[a + x] = v[x]
      BY <1>1
    <3> HIDE DEF l, a, b, c
    <3>2. i + k - 1 \in 1..b /\ a + (i + k - 1) = a + i + k - 1
      BY <1>2, <2>1
    <3> QED
      BY <3>1, <3>2
  <2> QED
    BY <2>1
<1>4. Spelt(t, a + i, w) <=> Spelt(v, i, w)
  <2> SUFFICES (a + i + l - 1 <= c /\ \A k \in 1..l : t[a + i + k - 1] = w[k]) <=>
               (i + l - 1 <= b /\ \A k \in 1..l : v[i + k - 1] = w[k])
    BY Zenon DEF Spelt
  <2> HIDE DEF l, a, b, c
  <2>1. a + i + l - 1 <= c <=> i + l - 1 <= b
    BY <1>2
  <2> QED
    BY <1>3, <2>1, Zenon
<1>5. At(t, a + i, w) <=> Spelt(t, a + i, w)
  <2>1. a + i \in Nat \ {0}
    BY <1>2
  <2> HIDE DEF a
  <2> QED
    BY <1>1, <2>1, AtIs
<1>6. At(v, i, w) <=> Spelt(v, i, w)
  BY AtIs
<1> QED
  BY <1>4, <1>5, <1>6, Zenon

\* A switch that begins in u and ends after it.
Straddles(u, t) ==
  \E w \in Words : \E i \in DOMAIN t : i <= Len(u) /\ Len(u) < i + Len(w) - 1 /\ At(t, i, w)

LEMMA WordSeq ==
    ASSUME NEW w \in Words
    PROVE  w \in Seq(Byte) /\ Len(w) \in {6, 8} /\ w # <<>>
<1>1. w \in Seq(Byte) /\ Len(w) \in {6, 8}
  BY WordsAre DEF SwitchTo
<1>2. Len(<<>>) = 0
  OBVIOUS
<1> DEFINE l == Len(w)
<1> HIDE DEF l
<1>3. l # 0
  <2>1. l \in {6, 8}
    BY <1>1 DEF l
  <2> QED
    BY <2>1
<1>4. w # <<>>
  BY <1>2, <1>3, Zenon DEF l
<1> QED
  BY <1>1, <1>4

LEMMA AltLeft ==
    ASSUME NEW u \in Seq(Byte), NEW v \in Seq(Byte), NEW t, t = u \o v, ~Straddles(u, t),
           NEW i \in 1..Len(u), NEW w \in Words
    PROVE  At(t, i, w) <=> At(u, i, w)
<1> DEFINE l == Len(w)
           a == Len(u)
<1>1. /\ t \in Seq(Byte) /\ Len(u) \in Nat /\ Len(v) \in Nat /\ Len(t) = Len(u) + Len(v)
  BY Joined
<1>2. w \in Seq(Byte) /\ Len(w) \in {6, 8}
  BY WordSeq
<1>3. i \in Nat \ {0} /\ i <= Len(u) /\ i \in DOMAIN t
  BY <1>1
<1>4. At(t, i, w) => i + l - 1 <= a
  <2>1. ~(a < i + l - 1 /\ At(t, i, w))
    BY <1>3, Zenon DEF Straddles
  <2> HIDE DEF l, a
  <2>2. a \in Nat /\ l \in Nat
    BY <1>1, <1>2 DEF a, l
  <2> QED
    BY <1>3, <2>1, <2>2
<1>5. At(u, i, w) => i + l - 1 <= a
  <2>1. At(u, i, w) => Spelt(u, i, w)
    BY <1>2, <1>3, AtIs
  <2> QED
    BY <2>1 DEF Spelt
<1>6. i + l - 1 <= a => (At(t, i, w) <=> At(u, i, w))
  BY <1>2, <1>3, AtLeft
<1> HIDE DEF l, a
<1> QED
  BY <1>4, <1>5, <1>6, Zenon

\* The switches of both lines, if none was cut.
LEMMA SwitchesJoin ==
    ASSUME NEW u \in Seq(Byte), NEW v \in Seq(Byte), NEW t, t = u \o v, ~Straddles(u, t)
    PROVE  /\ t \in Seq(Byte)
           /\ \A i \in 1..Len(u) : (i \in Switches(t) <=> i \in Switches(u))
           /\ \A i \in 1..Len(u) : (OnAt(t, i) <=> OnAt(u, i))
           /\ \A i \in 1..Len(v) : (Len(u) + i \in Switches(t) <=> i \in Switches(v))
           /\ \A i \in 1..Len(v) : (OnAt(t, Len(u) + i) <=> OnAt(v, i))
<1>1. t \in Seq(Byte) /\ Len(u) \in Nat /\ Len(v) \in Nat /\ Len(t) = Len(u) + Len(v)
  BY Joined
<1>2. ASSUME NEW i \in 1..Len(u)
      PROVE  (i \in Switches(t) <=> i \in Switches(u)) /\ (OnAt(t, i) <=> OnAt(u, i))
  <2>1. i \in 1..Len(t) /\ i \in 1..Len(u)
    BY <1>1
  <2>2. \A w \in Words : At(t, i, w) <=> At(u, i, w)
    BY AltLeft
  <2>3. i \in Switches(t) <=> \E w \in Words : At(t, i, w)
    BY <1>1, <2>1, SwitchesAre
  <2>4. i \in Switches(u) <=> \E w \in Words : At(u, i, w)
    BY <2>1, SwitchesAre
  <2>5. i \in Switches(t) <=> i \in Switches(u)
    BY <2>2, <2>3, <2>4, Zenon
  <2>6. \A w \in AltOn : At(t, i, w) <=> At(u, i, w)
    BY <2>2 DEF Words
  <2>7. OnAt(t, i) <=> OnAt(u, i)
    BY <2>6, Zenon DEF OnAt
  <2> QED
    BY <2>5, <2>7
<1>3. ASSUME NEW i \in 1..Len(v)
      PROVE  /\ Len(u) + i \in Switches(t) <=> i \in Switches(v)
             /\ OnAt(t, Len(u) + i) <=> OnAt(v, i)
  <2> DEFINE j == Len(u) + i
  <2>1. j \in 1..Len(t) /\ i \in 1..Len(v) /\ i \in Nat \ {0}
    BY <1>1
  <2>2. \A w \in Words : At(t, j, w) <=> At(v, i, w)
    BY <2>1, WordSeq, AtRight
  <2> HIDE DEF j
  <2>3. j \in Switches(t) <=> \E w \in Words : At(t, j, w)
    BY <1>1, <2>1, SwitchesAre
  <2>4. i \in Switches(v) <=> \E w \in Words : At(v, i, w)
    BY <2>1, SwitchesAre
  <2>5. j \in Switches(t) <=> i \in Switches(v)
    BY <2>2, <2>3, <2>4, Zenon
  <2>6. \A w \in AltOn : At(t, j, w) <=> At(v, i, w)
    BY <2>2 DEF Words
  <2>7. OnAt(t, j) <=> OnAt(v, i)
    BY <2>6, Zenon DEF OnAt
  <2> QED
    BY <2>5, <2>7 DEF j
<1> QED
  BY <1>1, <1>2, <1>3

\* The alternate screen after two lines is the one after the second, begun on
\* the one after the first, unless a switch is cut between them.
LEMMA AltJoin ==
    ASSUME NEW u \in Seq(Byte), NEW v \in Seq(Byte), NEW t, t = u \o v, ~Straddles(u, t),
           NEW alt \in BOOLEAN
    PROVE  AltIn(t, alt) = AltIn(v, AltIn(u, alt))
<1>1. /\ t \in Seq(Byte) /\ Len(t) = Len(u) + Len(v)
      /\ Len(u) \in Nat /\ Len(v) \in Nat /\ Len(t) \in Nat
  BY Joined
<1> DEFINE a == Len(u)
           b == Len(v)
           A == Switches(u)
           B == Switches(v)
           C == Switches(t)
<1>2. A \in SUBSET (1..a) /\ B \in SUBSET (1..b) /\ C \in SUBSET (1..Len(t))
  BY <1>1, SwitchesAre
<1>3. /\ \A i \in 1..a : (i \in C <=> i \in A)
      /\ \A i \in 1..b : (a + i \in C <=> i \in B)
  BY SwitchesJoin
<1>4. /\ \A i \in 1..a : (OnAt(t, i) <=> OnAt(u, i))
      /\ \A i \in 1..b : (OnAt(t, a + i) <=> OnAt(v, i))
  BY SwitchesJoin
<1>5. AltIn(u, alt) \in BOOLEAN
  BY AltInIs
<1>6. CASE B = {}
  <2>1. AltIn(v, AltIn(u, alt)) = AltIn(u, alt)
    BY <1>5, <1>6, AltInIs
  <2>2. C = A
    <3> HIDE DEF A, B, C
    <3>1. ASSUME NEW i \in C PROVE i \in A
      <4>1. i \in 1..a \/ (i - a \in 1..b /\ i = a + (i - a))
        BY <1>1, <1>2
      <4> QED
        BY <1>3, <1>6, <4>1
    <3>2. ASSUME NEW i \in A PROVE i \in C
      BY <1>2, <1>3
    <3> QED
      BY <3>1, <3>2
  <2>3. CASE A = {}
    BY <1>1, <2>1, <2>2, <2>3, AltInIs
  <2>4. CASE A # {}
    <3> DEFINE m == Max(A)
    <3>1. m \in A
      BY <1>1, <1>2, <2>4, MaxIs
    <3>2. m \in 1..a
      BY <1>2, <3>1
    <3>3. AltIn(u, alt) = OnAt(u, m)
      BY <2>4, AltInIs
    <3>4. AltIn(t, alt) = OnAt(t, m)
      BY <1>1, <2>2, <2>4, AltInIs
    <3>5. OnAt(t, m) <=> OnAt(u, m)
      BY <1>4, <3>2
    <3>6. OnAt(t, m) \in BOOLEAN /\ OnAt(u, m) \in BOOLEAN
      BY DEF OnAt
    <3> HIDE DEF m
    <3> QED
      BY <2>1, <3>3, <3>4, <3>5, <3>6
  <2> QED
    BY <2>3, <2>4
<1>7. CASE B # {}
  <2> DEFINE m == Max(B)
             M == Max(C)
  <2>1. m \in B /\ \A y \in B : m >= y
    BY <1>1, <1>2, <1>7, MaxIs
  <2> HIDE DEF m
  <2>2. m \in 1..b /\ a + m \in C
    BY <1>2, <1>3, <2>1
  <2>3. M \in C /\ \A y \in C : M >= y
    BY <1>1, <1>2, <2>2, MaxIs
  <2> HIDE DEF M, A, B, C
  <2>4. M = a + m
    <3>1. M \in 1..a \/ (M - a \in 1..b /\ M = a + (M - a))
      BY <1>1, <1>2, <2>3
    <3>2. M >= a + m
      BY <2>2, <2>3
    <3>3. M - a \in 1..b /\ M = a + (M - a)
      BY <1>1, <2>2, <3>1, <3>2
    <3>4. M - a \in B
      BY <1>3, <2>3, <3>3
    <3>5. m >= M - a
      BY <2>1, <3>4
    <3>6. a \in Nat /\ m \in Nat
      BY <1>1, <2>2
    <3>7. M \in Int
      <4>1. M - a \in Int
        BY <3>3
      <4>2. a + (M - a) \in Int
        BY <3>6, <4>1
      <4> QED
        BY <3>3, <4>2
    <3> HIDE DEF a, b
    <3> QED
      BY <3>2, <3>5, <3>6, <3>7
  <2>5. AltIn(t, alt) = OnAt(t, M)
    BY <1>1, <2>2, AltInIs DEF M, C
  <2>6. AltIn(v, AltIn(u, alt)) = OnAt(v, m)
    BY <1>5, <1>7, AltInIs DEF m, B
  <2>7. OnAt(t, M) <=> OnAt(v, m)
    BY <1>4, <2>2, <2>4
  <2>8. OnAt(t, M) \in BOOLEAN /\ OnAt(v, m) \in BOOLEAN
    BY DEF OnAt
  <2> QED
    BY <2>5, <2>6, <2>7, <2>8
<1> QED
  BY <1>6, <1>7

-----------------------------------------------------------------------------
(* Line feeds: how many lines a stretch of the stream ends. *)

\* The number of line feeds.
Feeds(s) == Cardinality({i \in DOMAIN s : s[i] = LF})

LEMMA FeedsAppend ==
    ASSUME NEW s \in Seq(Nat), NEW e \in Nat
    PROVE  /\ Feeds(s) \in Nat
           /\ Feeds(Append(s, e)) = Feeds(s) + (IF e = LF THEN 1 ELSE 0)
<1> DEFINE n == Len(s)
           t == Append(s, e)
           A == {i \in DOMAIN s : s[i] = LF}
           B == {i \in DOMAIN t : t[i] = LF}
<1>1. n \in Nat /\ DOMAIN s = 1..n
  BY LenProperties
<1>2. t \in Seq(Nat) /\ DOMAIN t = 1..n + 1 /\ (\A i \in 1..n : t[i] = s[i]) /\ t[n + 1] = e
  <2>1. t \in Seq(Nat) /\ Len(t) = n + 1 /\ (\A i \in 1..n : t[i] = s[i]) /\ t[n + 1] = e
    BY AppendProperties
  <2>2. DOMAIN t = 1..Len(t)
    BY <2>1, LenProperties
  <2> QED
    BY <2>1, <2>2
<1> HIDE DEF n, t
<1>3. A \in SUBSET (1..n) /\ IsFiniteSet(1..n)
  BY <1>1, FS_Interval
<1>4. IsFiniteSet(A) /\ Cardinality(A) \in Nat
  BY <1>3, FS_Subset, FS_CardinalityType
<1>5. CASE e = LF
  <2>1. B = A \cup {n + 1}
    BY <1>1, <1>2, <1>5
  <2>2. n + 1 \notin A
    BY <1>1, <1>3
  <2> HIDE DEF A, B
  <2>3. Cardinality(B) = Cardinality(A) + 1
    BY <1>4, <2>1, <2>2, FS_AddElement
  <2> QED
    BY <1>4, <1>5, <2>3 DEF Feeds, A, B, t
<1>6. CASE e # LF
  <2>1. B = A
    BY <1>1, <1>2, <1>6
  <2>2. Feeds(s) = Cardinality(A)
    BY Zenon DEF Feeds
  <2>3. Feeds(t) = Cardinality(B)
    BY Zenon DEF Feeds
  <2> HIDE DEF A, B
  <2>4. Feeds(t) = Feeds(s) /\ Feeds(s) \in Nat
    BY <1>4, <2>1, <2>2, <2>3
  <2>5. Feeds(t) = Feeds(s) + (IF e = LF THEN 1 ELSE 0)
    BY <1>6, <2>4
  <2> QED
    BY <2>4, <2>5 DEF t
<1> QED
  BY <1>5, <1>6

LEMMA FeedsNone == Feeds(<<>>) = 0
<1>1. {i \in DOMAIN <<>> : <<>>[i] = LF} = {}
  OBVIOUS
<1> QED
  BY <1>1, FS_EmptySet DEF Feeds

\* FeedsOf(s, w, t): w has the line feeds of s and of t.
FeedsSum(w, s, t) == Feeds(w) = Feeds(s) + Feeds(t)

LEMMA FeedsJoin ==
    ASSUME NEW s \in Seq(Nat), NEW t \in Seq(Nat)
    PROVE  FeedsSum(s \o t, s, t) /\ Feeds(s) \in Nat /\ Feeds(t) \in Nat
<1> DEFINE T == {x \in Seq(Nat) : Feeds(s \o x) = Feeds(s) + Feeds(x)}
<1>1. Feeds(s) \in Nat
  BY FeedsAppend
<1>2. <<>> \in T
  <2>1. s \o <<>> = s
    BY ConcatEmptySeq
  <2>2. <<>> \in Seq(Nat)
    OBVIOUS
  <2>3. Feeds(s \o <<>>) = Feeds(s) + Feeds(<<>>)
    BY <1>1, <2>1, FeedsNone
  <2> QED
    BY <2>2, <2>3
<1>3. ASSUME NEW x \in T, NEW e \in Nat PROVE Append(x, e) \in T
  <2> DEFINE y == s \o x
             o == IF e = LF THEN 1 ELSE 0
  <2>1. x \in Seq(Nat) /\ Feeds(y) = Feeds(s) + Feeds(x)
    OBVIOUS
  <2>2. y \in Seq(Nat)
    BY <2>1, ConcatProperties
  <2>3. s \o Append(x, e) = Append(y, e)
    <3>1. Append(x, e) = x \o <<e>> /\ <<e>> \in Seq(Nat)
      BY <2>1, AppendIsConcat
    <3>2. Append(y, e) = y \o <<e>>
      BY <2>2, AppendIsConcat
    <3>3. (s \o x) \o <<e>> = s \o (x \o <<e>>)
      BY <2>1, <3>1, ConcatAssociative
    <3> QED
      BY <3>1, <3>2, <3>3, Zenon
  <2> HIDE DEF y, T
  <2>4. Feeds(Append(y, e)) = Feeds(y) + o /\ Feeds(y) \in Nat
    BY <2>2, FeedsAppend
  <2>5. Feeds(Append(x, e)) = Feeds(x) + o /\ Feeds(x) \in Nat
    BY <2>1, FeedsAppend
  <2>6. o \in Nat
    OBVIOUS
  <2> HIDE DEF o
  <2>7. Feeds(s \o Append(x, e)) = Feeds(s) + Feeds(Append(x, e))
    <3>1. Feeds(s \o Append(x, e)) = Feeds(y) + o
      BY <2>3, <2>4, Zenon
    <3> QED
      BY <1>1, <2>1, <2>4, <2>5, <2>6, <3>1
  <2>8. Append(x, e) \in Seq(Nat)
    BY <2>1, AppendProperties
  <2> QED
    BY <2>7, <2>8, Zenon DEF T
<1>4. T \in SUBSET Seq(Nat)
  OBVIOUS
<1> HIDE DEF T
<1>5. T = Seq(Nat)
  BY <1>2, <1>3, <1>4, SeqInduct
<1>6. Feeds(s \o t) = Feeds(s) + Feeds(t)
  BY <1>5 DEF T
<1>7. Feeds(t) \in Nat
  BY FeedsAppend
<1> QED
  BY <1>1, <1>6, <1>7 DEF FeedsSum

\* What holds no line feed, and what ends with one.
Unfed == Nat \ {10}

\* Without line feeds there are none, and a line has one, at its end.
LEMMA FeedsUnfed ==
    ASSUME NEW s \in Seq(Unfed)
    PROVE  s \in Seq(Nat) /\ Feeds(s) = 0 /\ \A i \in 1..Len(s) : s[i] # 10
<1>1. \A i \in 1..Len(s) : s[i] \in Unfed
  BY ElementOfSeq
<1>2. s \in Seq(Nat)
  <2>1. s \in [1..Len(s) -> Unfed] /\ Len(s) \in Nat
    BY LenProperties
  <2>2. s \in [1..Len(s) -> Nat]
    BY <2>1 DEF Unfed
  <2> QED
    BY <2>1, <2>2, SeqDef
<1>3. \A i \in 1..Len(s) : s[i] # 10
  BY <1>1 DEF Unfed
<1>4. DOMAIN s = 1..Len(s)
  BY LenProperties
<1>5. {i \in DOMAIN s : s[i] = LF} = {}
  BY <1>3, <1>4 DEF LF
<1> QED
  BY <1>2, <1>3, <1>5, FS_EmptySet DEF Feeds

LEMMA CrlfIs ==
  /\ CRLF \in Seq(Nat) /\ Len(CRLF) = 2 /\ CRLF[1] = 13 /\ CRLF[2] = 10
  /\ Feeds(CRLF) = 1
<1>1. CRLF \in Seq(Nat) /\ Len(CRLF) = 2 /\ CRLF[1] = 13 /\ CRLF[2] = 10
  BY DEF CRLF, CR, LF
<1> DEFINE c == CRLF
<1> HIDE DEF c
<1>2. DOMAIN c = 1..2 /\ c[1] = 13 /\ c[2] = 10
  BY <1>1, LenProperties DEF c
<1>3. {i \in DOMAIN c : c[i] = 10} = {2}
  BY <1>2
<1>4. Feeds(c) = Cardinality({i \in DOMAIN c : c[i] = 10})
  BY Zenon DEF Feeds, LF
<1>5. Feeds(c) = 1
  BY <1>3, <1>4, FS_Singleton
<1> QED
  BY <1>1, <1>5 DEF c

\* A line on the wire: a body without line feed, and the line end.
LEMMA FeedsWire ==
    ASSUME NEW b \in Seq(Unfed), NEW w, w = b \o CRLF
    PROVE  /\ w \in Seq(Nat) /\ Feeds(w) = 1 /\ Len(w) = Len(b) + 2 /\ Len(b) \in Nat
           /\ w[Len(b) + 1] = 13 /\ w[Len(b) + 2] = 10
           /\ \A i \in 1..Len(b) + 1 : w[i] # 10
<1>1. b \in Seq(Nat) /\ Feeds(b) = 0 /\ \A i \in 1..Len(b) : b[i] # 10
  BY FeedsUnfed
<1> DEFINE c == CRLF
           n == Len(b)
<1>2. c \in Seq(Nat) /\ Len(c) = 2 /\ c[1] = 13 /\ c[2] = 10
  BY CrlfIs
<1>3. Feeds(c) = 1
  BY CrlfIs
<1> HIDE DEF c
<1>4. w = b \o c
  BY DEF c
<1>5. /\ w \in Seq(Nat) /\ n \in Nat /\ Len(w) = n + 2
      /\ (\A i \in 1..n : w[i] = b[i]) /\ \A i \in 1..2 : w[n + i] = c[i]
  <2>1. /\ w \in Seq(Nat) /\ Len(b) \in Nat /\ Len(c) \in Nat /\ Len(w) = Len(b) + Len(c)
        /\ (\A i \in 1..Len(b) : w[i] = b[i]) /\ \A i \in 1..Len(c) : w[Len(b) + i] = c[i]
    <3>1. b \in Seq(Nat) /\ c \in Seq(Nat)
      BY <1>1, <1>2
    <3> QED
      BY ONLY <1>4, <3>1, Joined
  <2>2. Len(c) = 2
    BY <1>2
  <2> QED
    BY <2>1, <2>2
<1>6. Feeds(w) = 1
  <2>1. FeedsSum(b \o c, b, c)
    BY <1>1, <1>2, FeedsJoin
  <2> QED
    BY <1>1, <1>3, <1>4, <2>1 DEF FeedsSum
<1>7. w[n + 1] = 13 /\ w[n + 2] = 10
  BY <1>2, <1>5
<1>8. ASSUME NEW i \in 1..n + 1 PROVE w[i] # 10
  <2>1. i \in 1..n \/ i = n + 1
    BY <1>5
  <2> QED
    BY <1>1, <1>5, <1>7, <2>1
<1> QED
  BY <1>5, <1>6, <1>7, <1>8

\* ... so what is left of lines has as many as there are lines left.
LEMMA FeedsRest ==
    ASSUME NEW m \in Seq(Seq(Nat)), \A k \in 1..Len(m) : Feeds(m[k]) = 1,
           NEW i \in 1..Len(m) + 1
    PROVE  Feeds(Rest(m, i)) = Len(m) + 1 - i
<1> DEFINE n == Len(m)
           T == {j \in 1..n + 1 : Feeds(Rest(m, j)) = n + 1 - j}
<1>1. n \in Nat
  BY LenProperties
<1>2. ASSUME NEW k \in 1..n + 1, \A j \in k + 1..n + 1 : j \in T PROVE k \in T
  <2>1. CASE k = n + 1
    <3>1. Rest(m, n + 1) = <<>>
      BY RestEnds
    <3>2. Feeds(Rest(m, k)) = 0
      BY <2>1, <3>1, FeedsNone
    <3> QED
      BY <1>1, <2>1, <3>2
  <2>2. CASE k # n + 1
    <3>1. k \in 1..n /\ k + 1 \in k + 1..n + 1
      BY <1>1, <2>2
    <3>2. Feeds(Rest(m, k + 1)) = n + 1 - (k + 1)
      BY <1>2, <3>1
    <3> DEFINE a == m[k]
               b == Rest(m, k + 1)
    <3>3. Rest(m, k) = a \o b /\ a \in Seq(Nat) /\ b \in Seq(Nat)
      BY <3>1, RestStep
    <3>4. Feeds(a) = 1
      BY <3>1
    <3> HIDE DEF a, T, n
    <3>5. Feeds(b) = n + 1 - (k + 1)
      BY <3>2
    <3> HIDE DEF b
    <3>6. FeedsSum(a \o b, a, b)
      BY <3>3, FeedsJoin
    <3>7. Feeds(Rest(m, k)) = n + 1 - k
      <4>1. Feeds(Rest(m, k)) = Feeds(a) + Feeds(b)
        BY <3>3, <3>6, Zenon DEF FeedsSum
      <4> QED
        BY <1>1, <3>1, <3>4, <3>5, <4>1
    <3> QED
      BY <3>7 DEF T
  <2> QED
    BY <2>1, <2>2
<1> HIDE DEF T
<1>3. \A k \in 1..n + 1 : k \in T
  BY <1>1, <1>2, DownInduct
<1> QED
  BY <1>3 DEF T

-----------------------------------------------------------------------------
(* Searching the buffer *)

\* p is the first position of word in data, or 0.
FirstAt(data, word, p) ==
  /\ p \in 0..Len(data)
  /\ p # 0 => At(data, p, word) /\ \A i \in 1..Len(data) : At(data, i, word) => p <= i
  /\ p = 0 => \A i \in 1..Len(data) : ~At(data, i, word)

LEMMA PositionIs ==
    ASSUME NEW S, NEW data \in Seq(S), NEW word
    PROVE  FirstAt(data, word, Position(data, word))
<1> DEFINE n == Len(data)
           P == {i \in DOMAIN data : At(data, i, word)}
           p == Position(data, word)
<1>1. n \in Nat /\ DOMAIN data = 1..n
  BY LenProperties
<1>2. P \in SUBSET (1..n) /\ \A i \in 1..n : (i \in P <=> At(data, i, word))
  BY <1>1
<1>3. p = IF P = {} THEN 0 ELSE Min(P)
  BY Zenon DEF Position
<1> HIDE DEF P, p
<1>4. CASE P = {}
  <2>1. p = 0 /\ \A i \in 1..n : ~At(data, i, word)
    BY <1>2, <1>3, <1>4
  <2> QED
    BY <1>1, <2>1 DEF FirstAt, p
<1>5. CASE P # {}
  <2>1. p \in P /\ \A y \in P : p <= y
    BY <1>1, <1>2, <1>3, <1>5, MinIs
  <2>2. p \in 1..n /\ At(data, p, word) /\ \A i \in 1..n : At(data, i, word) => p <= i
    BY <1>2, <2>1
  <2>3. p \in 0..n /\ p # 0
    BY <1>1, <2>2
  <2> QED
    BY <2>2, <2>3 DEF FirstAt, p
<1> QED
  BY <1>4, <1>5

\* At, for words of two symbols.
TwoAt(data, i, a, b) == i + 1 <= Len(data) /\ data[i] = a /\ data[i + 1] = b

LEMMA AtTwo ==
    ASSUME NEW data \in Seq(Nat), NEW i \in Nat \ {0}, NEW a \in Nat, NEW b \in Nat,
           NEW w, w = <<a, b>>
    PROVE  At(data, i, w) <=> TwoAt(data, i, a, b)
<1>1. w \in Seq(Nat) /\ Len(w) = 2 /\ w[1] = a /\ w[2] = b
  OBVIOUS
<1> DEFINE n == Len(data)
<1>2. n \in Nat
  BY LenProperties
<1>3. At(data, i, w) <=> Spelt(data, i, w)
  BY <1>1, AtIs
<1>4. Spelt(data, i, w) <=> (i + 2 - 1 <= n /\ \A k \in 1..2 : data[i + k - 1] = w[k])
  BY <1>1, Zenon DEF Spelt
<1>5. (\A k \in 1..2 : data[i + k - 1] = w[k]) <=> (data[i] = a /\ data[i + 1] = b)
  <2>1. ASSUME \A k \in 1..2 : data[i + k - 1] = w[k] PROVE data[i] = a /\ data[i + 1] = b
    <3>1. data[i + 1 - 1] = w[1] /\ data[i + 2 - 1] = w[2]
      BY <2>1
    <3>2. i + 1 - 1 = i /\ i + 2 - 1 = i + 1
      OBVIOUS
    <3> QED
      BY <1>1, <3>1, <3>2
  <2>2. ASSUME data[i] = a, data[i + 1] = b, NEW k \in 1..2 PROVE data[i + k - 1] = w[k]
    <3>1. k = 1 \/ k = 2
      OBVIOUS
    <3>2. CASE k = 1
      <4>1. i + k - 1 = i
        BY <3>2
      <4> QED
        BY <1>1, <2>2, <3>2, <4>1
    <3>3. CASE k = 2
      <4>1. i + k - 1 = i + 1
        BY <3>3
      <4> QED
        BY <1>1, <2>2, <3>3, <4>1
    <3> QED
      BY <3>1, <3>2, <3>3
  <2> QED
    BY <2>1, <2>2
<1>6. i + 2 - 1 <= n <=> i + 1 <= n
  BY <1>2
<1> QED
  BY <1>3, <1>4, <1>5, <1>6, Zenon DEF TwoAt

-----------------------------------------------------------------------------
(* A line of the stream *)

\* The first line of what is buffered and what is to come is b: the buffer
\* holds its end where find_crlf looks, and after it comes what comes after.
TakesLine(buf, rest, e, b, R) ==
  /\ e = Len(b) + 1 /\ SubSeq(buf, 1, e - 1) = b
  /\ SubSeq(buf, e + 2, Len(buf)) \in Seq(Nat)
  /\ SubSeq(buf, e + 2, Len(buf)) \o rest = R

\* As far as it reaches, buf is a line of n symbols and its end.
LineOf(buf, n) ==
  /\ \A i \in 1..Len(buf) : i <= n + 1 => buf[i] # 10
  /\ n + 1 <= Len(buf) => buf[n + 1] = 13
  /\ n + 2 <= Len(buf) => buf[n + 2] = 10

\* find_crlf finds the end of the first line ...
LEMMA EndFound ==
    ASSUME NEW buf \in Seq(Nat), NEW n \in Nat, LineOf(buf, n), find_crlf(buf) > 0
    PROVE  find_crlf(buf) = n + 1 /\ n + 2 <= Len(buf)
<1> DEFINE l == Len(buf)
           e == find_crlf(buf)
<1>1. l \in Nat
  BY LenProperties
<1>2. FirstAt(buf, CRLF, e)
  BY PositionIs DEF find_crlf
<1> HIDE DEF e
<1>3. e \in 0..l /\ e > 0
  BY <1>2 DEF FirstAt, e
<1>4. e \in 1..l /\ e \in Nat \ {0} /\ e # 0
  BY <1>1, <1>3
<1>5. At(buf, e, CRLF) /\ \A i \in 1..l : At(buf, i, CRLF) => e <= i
  BY <1>2, <1>4 DEF FirstAt
<1>6. TwoAt(buf, e, 13, 10)
  BY <1>4, <1>5, AtTwo DEF CRLF, CR, LF
<1>7. e + 1 <= l /\ buf[e + 1] = 10
  BY <1>6 DEF TwoAt
<1>8. e + 1 > n + 1
  <2>1. e + 1 \in 1..l
    BY <1>1, <1>4, <1>7
  <2>2. ~(e + 1 <= n + 1)
    BY <1>7, <2>1 DEF LineOf
  <2> QED
    BY <1>4, <2>2
<1>9. n + 1 <= l /\ n + 2 <= l /\ n + 1 \in 1..l
  BY <1>1, <1>4, <1>7, <1>8
<1>10. buf[n + 1] = 13 /\ buf[n + 1 + 1] = 10
  <2>1. n + 1 + 1 = n + 2
    OBVIOUS
  <2> QED
    BY <1>9, <2>1 DEF LineOf
<1>11. TwoAt(buf, n + 1, 13, 10)
  BY <1>9, <1>10 DEF TwoAt
<1>12. At(buf, n + 1, CRLF)
  BY <1>11, AtTwo DEF CRLF, CR, LF
<1>13. e <= n + 1
  BY <1>5, <1>9, <1>12
<1>14. e = n + 1
  BY <1>4, <1>8, <1>13
<1> QED
  BY <1>9, <1>14 DEF e

\* ... so next_event takes exactly that line.
LEMMA LineTaken ==
    ASSUME NEW buf \in Seq(Nat), NEW pipes \in Seq(Nat), NEW b \in Seq(Unfed), NEW R \in Seq(Nat),
           NEW w, Glued(w, b, CRLF), NEW t, Glued(t, buf, pipes), Glued(t, w, R),
           find_crlf(buf) > 0
    PROVE  TakesLine(buf, pipes, find_crlf(buf), b, R)
<1> DEFINE n == Len(b)
           l == Len(buf)
<1>1. /\ w \in Seq(Nat) /\ Len(w) = n + 2 /\ n \in Nat
      /\ w[n + 1] = 13 /\ w[n + 2] = 10 /\ \A i \in 1..n + 1 : w[i] # 10
  <2>1. w = b \o CRLF
    BY DEF Glued
  <2> QED
    BY <2>1, FeedsWire
<1>2. l \in Nat /\ \A i \in 1..l : t[i] = buf[i]
  BY GluedIs
<1>3. \A i \in 1..n + 2 : t[i] = w[i]
  <2>1. \A i \in 1..Len(w) : t[i] = w[i]
    <3>1. w \in Seq(Nat)
      BY <1>1
    <3> QED
      BY <3>1, GluedIs
  <2> QED
    BY <1>1, <2>1
<1>4. LineOf(buf, n)
  <2> HIDE DEF n, l
  <2>1. ASSUME NEW i \in 1..l, i <= n + 1 PROVE buf[i] # 10
    <3>1. i \in 1..n + 1 /\ i \in 1..n + 2
      BY <1>1, <1>2, <2>1
    <3> QED
      BY <1>1, <1>2, <1>3, <3>1
  <2>2. ASSUME n + 1 <= l PROVE buf[n + 1] = 13
    <3>1. n + 1 \in 1..l /\ n + 1 \in 1..n + 2
      BY <1>1, <1>2, <2>2
    <3> QED
      BY <1>1, <1>2, <1>3, <3>1
  <2>3. ASSUME n + 2 <= l PROVE buf[n + 2] = 10
    <3>1. n + 2 \in 1..l /\ n + 2 \in 1..n + 2
      BY <1>1, <1>2, <2>3
    <3> QED
      BY <1>1, <1>2, <1>3, <3>1
  <2> QED
    BY <2>1, <2>2, <2>3 DEF LineOf, l
<1>5. find_crlf(buf) = n + 1 /\ n + 2 <= l
  BY <1>1, <1>4, EndFound
<1>6. n \in 0..l /\ n + 2 \in 0..l
  BY <1>1, <1>2, <1>5
<1> DEFINE x == SubSeq(buf, 1, n)
           xx == SubSeq(buf, n + 1, l)
           y == SubSeq(buf, 1, n + 2)
           z == SubSeq(buf, n + 2 + 1, l)
           c == CRLF
<1>7. Halved(Nat, buf, n, x, xx)
  BY <1>6, Halves
<1>8. Halved(Nat, buf, n + 2, y, z)
  <2> HIDE DEF n
  <2> QED
    BY <1>6, Halves
<1>9. b \in Seq(Nat) /\ c \in Seq(Nat)
  BY FeedsUnfed, CrlfIs
<1> HIDE DEF x, xx, y, z, c
<1>10. x = b
  <2>1. x \in Seq(Nat) /\ xx \in Seq(Nat) /\ Len(x) = Len(b) /\ Glued(buf, x, xx)
    BY <1>7, Zenon DEF Halved
  <2>2. Regroups(x, xx, pipes) /\ Regroups(b, c, R)
    BY <1>9, <2>1, Regrouped
  <2> DEFINE q == xx \o pipes
             v == c \o R
  <2>3. q \in Seq(Nat) /\ v \in Seq(Nat)
    BY <1>9, <2>1, ConcatProperties
  <2>4. Glued(t, x, q)
    BY <2>1, <2>2, Zenon DEF Regroups, Glued
  <2>5. Glued(t, b, v)
    BY <2>2, Zenon DEF Regroups, Glued, c
  <2> HIDE DEF q, v, n
  <2> QED
    BY <1>9, <2>1, <2>3, <2>4, <2>5, SplitSame
<1>11. z \o pipes = R
  <2>1. y \in Seq(Nat) /\ z \in Seq(Nat) /\ Len(y) = n + 2 /\ Glued(buf, y, z)
    BY <1>8, Zenon DEF Halved
  <2>2. Regroups(y, z, pipes)
    BY <2>1, Regrouped
  <2> DEFINE q == z \o pipes
  <2>3. q \in Seq(Nat)
    BY <2>1, ConcatProperties
  <2>4. Glued(t, y, q)
    BY <2>1, <2>2, Zenon DEF Regroups, Glued
  <2> HIDE DEF q, n
  <2>5. Len(y) = Len(w)
    BY <1>1, <2>1
  <2>6. q = R
    BY <1>1, <2>1, <2>3, <2>4, <2>5, SplitSame
  <2> QED
    BY <2>6 DEF q
<1> HIDE DEF n
<1> DEFINE e == find_crlf(buf)
<1> HIDE DEF e
<1>12. e = n + 1
  BY <1>5 DEF e
<1>13. x = SubSeq(buf, 1, find_crlf(buf) - 1) /\ z = SubSeq(buf, find_crlf(buf) + 2, l)
  <2>1. e - 1 = n /\ e + 2 = n + 2 + 1
    BY <1>1, <1>12
  <2> QED
    BY <2>1, Zenon DEF x, z, e
<1>14. z \in Seq(Nat)
  BY <1>8, Zenon DEF Halved
<1> QED
  BY <1>5, <1>10, <1>11, <1>13, <1>14, Zenon DEF TakesLine, n

-----------------------------------------------------------------------------
(* The lines of tmux *)

\* Every line that tmux may say, whatever Texts and Pieces are: more than the
\* model says, and closed under what the proofs do with lines.
Panes == {Pane, OtherPane}
Printable == 32..255

Outputs == {Output(pane, data) : pane \in Panes, data \in Seq(Byte)}
TitleLines == {Title(pane, text) : pane \in Panes, text \in Seq(Printable)}
Others == {Unlinked(Window), Unlinked(OtherWindow), WindowClose, Exit}
Notes == Outputs \cup TitleLines \cup Others
Hellos == {Hello(dcs, alt) : dcs \in BOOLEAN, alt \in BOOLEAN}
Lines == Hellos \cup Notes

\* What the reader makes of the first line once the DCS is cut out.
Bared(line) == Hello(FALSE, line.alt)

\* No line feed and no part of the DCS.
Quiet == Nat \ {10, 306}

\* No body of a line holds a line feed or a part of the DCS: this is why a line
\* ends where tmux ended it, and why feed cuts the DCS off and nothing else.
LEMMA SymbolsAre ==
  /\ {Pane, OtherPane, Window, OtherWindow} \subseteq Quiet
  /\ Pane # OtherPane /\ Window # OtherWindow
  /\ {301, 302, 303, 304, 305, 37, 307, 32} \subseteq Quiet
<1>1. {Pane, OtherPane, Window, OtherWindow} \subseteq Nat \ (0..307)
  BY StreamAssumption
<1> QED
  BY <1>1, StreamAssumption DEF Quiet

LEMMA EncodeQuiet ==
    ASSUME NEW data \in Seq(Byte)
    PROVE  Encode(data) \in Seq(Quiet)
<1>1. ASSUME NEW b \in Byte PROVE EncodeByte(b) \in Seq(Quiet)
  <2> DEFINE e == EncodeByte(b)
             n == Len(e)
  <2>1. /\ e \in Seq(Byte) /\ n \in {1, 4}
        /\ n = 1 => b # BACKSLASH /\ b >= 32 /\ e[1] = b
        /\ n = 4 => e[1] = BACKSLASH /\ \A k \in 2..4 : e[k] \in 48..55
    BY EncodeByteIs
  <2> HIDE DEF e
  <2>2. e \in [1..n -> Byte] /\ n \in Nat
    BY <2>1, LenProperties
  <2> HIDE DEF n
  <2>3. ASSUME NEW i \in 1..n PROVE e[i] \in Quiet
    <3>1. CASE n = 1
      BY <2>1, <3>1 DEF Quiet, Byte
    <3>2. CASE n = 4
      <4>1. i = 1 \/ i \in 2..4
        BY <3>2
      <4>2. 92 \in Quiet /\ 48..55 \subseteq Quiet
        BY DEF Quiet
      <4>3. e[1] = 92 /\ \A k \in 2..4 : e[k] \in 48..55
        BY <2>1, <3>2 DEF BACKSLASH
      <4> QED
        BY <4>1, <4>2, <4>3
    <3> QED
      BY <2>1, <3>1, <3>2
  <2>4. e \in [1..n -> Quiet]
    BY <2>2, <2>3
  <2>5. e \in Seq(Quiet)
    BY <2>2, <2>4, SeqDef
  <2> QED
    BY <2>5 DEF e
<1>2. EncodeOf \in [Byte -> Seq(Quiet)]
  BY <1>1 DEF EncodeOf
<1>3. Flat(EncodeOf, data) \in Seq(Quiet)
  BY <1>2, FlatType
<1> QED
  BY <1>3, EncodeIs

LEMMA PrintableQuiet ==
    ASSUME NEW text \in Seq(Printable)
    PROVE  text \in Seq(Quiet) /\ text \in Seq(Byte)
<1>1. Printable \in SUBSET Quiet /\ Printable \in SUBSET Byte
  BY DEF Printable, Quiet, Byte
<1> QED
  BY <1>1, Wider

\* How a line that has a pane and a value is laid out.
Fielded(line, word, pane, value) == line = <<word, pane, SPACE>> \o value

LEMMA BodyOutput ==
    ASSUME NEW pane, NEW data
    PROVE  Fielded(Body(Output(pane, data)), OUTPUT, pane, Encode(data))
<1> DEFINE l == Output(pane, data)
<1>1. l.kind = "output" /\ l.pane = pane /\ l.data = data
  BY DEF Output
<1> HIDE DEF l
<1>2. Body(l) = <<OUTPUT, l.pane, SPACE>> \o Encode(l.data)
  BY <1>1 DEF Body
<1> QED
  BY <1>1, <1>2, Zenon DEF Fielded, l

LEMMA BodyTitle ==
    ASSUME NEW pane, NEW text
    PROVE  Fielded(Body(Title(pane, text)), TITLE, pane, text)
<1> DEFINE l == Title(pane, text)
<1>1. l.kind = "title" /\ l.pane = pane /\ l.data = text
  BY DEF Title
<1> HIDE DEF l
<1>2. Body(l) = <<TITLE, l.pane, SPACE>> \o l.data
  BY <1>1 DEF Body
<1> QED
  BY <1>1, <1>2, Zenon DEF Fielded, l

LEMMA BodyOthers ==
  /\ \A window : Body(Unlinked(window)) = <<303, window>>
  /\ Body(WindowClose) = <<304, Window>>
  /\ Body(Exit) = <<302>>
<1>1. ASSUME NEW window PROVE Body(Unlinked(window)) = <<303, window>>
  <2> DEFINE l == Unlinked(window)
  <2>1. l.kind = "unlinked" /\ l.window = window
    BY DEF Unlinked
  <2> HIDE DEF l
  <2>2. Body(l) = <<UNLINKED, l.window>>
    BY <2>1 DEF Body
  <2> QED
    BY <2>1, <2>2 DEF l, UNLINKED
<1>2. Body(WindowClose) = <<304, Window>>
  <2> DEFINE l == WindowClose
  <2>1. l.kind = "close"
    BY DEF WindowClose
  <2> HIDE DEF l
  <2>2. Body(l) = <<CLOSED, Window>>
    BY <2>1 DEF Body
  <2> QED
    BY <2>2 DEF l, CLOSED
<1>3. Body(Exit) = <<302>>
  <2> DEFINE l == Exit
  <2>1. l.kind = "exit"
    BY DEF Exit
  <2> HIDE DEF l
  <2>2. Body(l) = <<EXIT>>
    BY <2>1 DEF Body
  <2> QED
    BY <2>2 DEF l, EXIT
<1> QED
  BY <1>1, <1>2, <1>3

LEMMA BodyHello ==
    ASSUME NEW alt
    PROVE  /\ Body(Hello(FALSE, alt)) = <<37, 307>>
           /\ Glued(Body(Hello(TRUE, alt)), <<27, 306>>, <<37, 307>>)
<1>1. ASSUME NEW dcs \in BOOLEAN
      PROVE  Body(Hello(dcs, alt)) = (IF dcs THEN DCS ELSE <<>>) \o BEGIN
  <2> DEFINE l == Hello(dcs, alt)
  <2>1. l.kind = "hello" /\ l.dcs = dcs
    BY DEF Hello
  <2> HIDE DEF l
  <2>2. Body(l) = (IF l.dcs THEN DCS ELSE <<>>) \o BEGIN
    BY <2>1 DEF Body
  <2> QED
    BY <2>1, <2>2, Zenon DEF l
<1>2. Body(Hello(FALSE, alt)) = <<>> \o BEGIN
  BY <1>1
<1>3. <<>> \o BEGIN = <<37, 307>>
  BY DEF BEGIN
<1>4. Body(Hello(TRUE, alt)) = DCS \o BEGIN
  BY <1>1
<1> QED
  BY <1>2, <1>3, <1>4, Zenon DEF Glued, DCS, BEGIN, ESC

LEMMA FieldedQuiet ==
    ASSUME NEW word \in Quiet, NEW pane \in Quiet, NEW value \in Seq(Quiet),
           NEW line, Fielded(line, word, pane, value)
    PROVE  line \in Seq(Quiet)
<1>1. <<word, pane, SPACE>> \in Seq(Quiet)
  BY SymbolsAre DEF SPACE
<1>2. line = <<word, pane, SPACE>> \o value
  BY DEF Fielded
<1> QED
  BY <1>1, <1>2, ConcatProperties

LEMMA BodyQuiet ==
  /\ \A line \in Notes : Body(line) \in Seq(Quiet)
  /\ \A alt : Body(Hello(FALSE, alt)) \in Seq(Quiet)
<1>1. ASSUME NEW line \in Outputs PROVE Body(line) \in Seq(Quiet)
  <2>1. PICK pane \in Panes, data \in Seq(Byte) : line = Output(pane, data)
    BY DEF Outputs
  <2>2. Encode(data) \in Seq(Quiet) /\ pane \in Quiet /\ OUTPUT \in Quiet
    BY EncodeQuiet, SymbolsAre DEF Panes, OUTPUT
  <2>3. Fielded(Body(line), OUTPUT, pane, Encode(data))
    BY <2>1, BodyOutput
  <2> QED
    BY <2>2, <2>3, FieldedQuiet
<1>2. ASSUME NEW line \in TitleLines PROVE Body(line) \in Seq(Quiet)
  <2>1. PICK pane \in Panes, text \in Seq(Printable) : line = Title(pane, text)
    BY DEF TitleLines
  <2>2. text \in Seq(Quiet) /\ pane \in Quiet /\ TITLE \in Quiet
    BY PrintableQuiet, SymbolsAre DEF Panes, TITLE
  <2>3. Fielded(Body(line), TITLE, pane, text)
    BY <2>1, BodyTitle
  <2> QED
    BY <2>2, <2>3, FieldedQuiet
<1>3. ASSUME NEW line \in Others PROVE Body(line) \in Seq(Quiet)
  <2>1. <<303, Window>> \in Seq(Quiet) /\ <<303, OtherWindow>> \in Seq(Quiet)
    BY SymbolsAre
  <2>2. <<304, Window>> \in Seq(Quiet) /\ <<302>> \in Seq(Quiet)
    BY SymbolsAre
  <2>3. CASE line = Unlinked(Window)
    BY <2>1, <2>3, BodyOthers
  <2>4. CASE line = Unlinked(OtherWindow)
    BY <2>1, <2>4, BodyOthers
  <2>5. CASE line = WindowClose
    BY <2>2, <2>5, BodyOthers
  <2>6. CASE line = Exit
    BY <2>2, <2>6, BodyOthers
  <2> QED
    BY <2>3, <2>4, <2>5, <2>6, Zenon DEF Others
<1>4. ASSUME NEW alt PROVE Body(Hello(FALSE, alt)) \in Seq(Quiet)
  <2>1. <<37, 307>> \in Seq(Quiet)
    BY SymbolsAre
  <2> QED
    BY <2>1, BodyHello
<1> QED
  BY <1>1, <1>2, <1>3, <1>4 DEF Notes

-----------------------------------------------------------------------------
(* Lines on the wire *)

\* What tmux has said: the greeting, then any lines.
Sayings ==
  {lines \in Seq(Lines) :
     lines # <<>> /\ lines[1] \in Hellos /\ \A k \in 2..Len(lines) : lines[k] \in Notes}

\* What stands on the wire for line k; d says whether the DCS is still before the
\* greeting.
WireAt(lines, d, k) == IF k = 1 THEN Wire(Hello(d, lines[1].alt)) ELSE Wire(lines[k])
WiresOf(lines, d) == [k \in 1..Len(lines) |-> WireAt(lines, d, k)]

LEMMA SayingsAre ==
    ASSUME NEW lines \in Sayings
    PROVE  /\ lines \in Seq(Lines) /\ Len(lines) \in Nat /\ Len(lines) >= 1
           /\ lines[1] \in Hellos /\ lines[1].alt \in BOOLEAN
           /\ \A k \in 2..Len(lines) : lines[k] \in Notes
<1>1. /\ lines \in Seq(Lines) /\ lines # <<>> /\ lines[1] \in Hellos
      /\ \A k \in 2..Len(lines) : lines[k] \in Notes
  BY DEF Sayings
<1>2. Len(lines) \in Nat
  BY <1>1, LenProperties
<1>3. Len(lines) # 0
  BY <1>1, EmptySeq
<1>4. lines[1].alt \in BOOLEAN
  BY <1>1 DEF Hellos, Hello
<1> QED
  BY <1>1, <1>2, <1>3, <1>4

NoDcs == Nat \ {306}

LEMMA WireIs ==
    ASSUME NEW line, Body(line) \in Seq(Quiet)
    PROVE  Wire(line) \in Seq(NoDcs) /\ Wire(line) \in Seq(Nat) /\ Feeds(Wire(line)) = 1
<1> DEFINE b == Body(line)
           w == Wire(line)
<1>1. b \in Seq(NoDcs) /\ b \in Seq(Unfed)
  <2>1. Quiet \in SUBSET NoDcs /\ Quiet \in SUBSET Unfed
    BY DEF Quiet, NoDcs, Unfed
  <2> HIDE DEF b
  <2>2. b \in Seq(Quiet)
    BY DEF b
  <2> QED
    BY <2>1, <2>2, Wider
<1>2. w = b \o CRLF
  BY DEF Wire
<1>3. CRLF \in Seq(NoDcs)
  BY DEF CRLF, CR, LF, NoDcs
<1> HIDE DEF b, w
<1>4. w \in Seq(NoDcs)
  BY <1>1, <1>2, <1>3, ConcatProperties
<1>5. w \in Seq(Nat) /\ Feeds(w) = 1
  BY <1>1, <1>2, FeedsWire
<1> QED
  BY <1>4, <1>5 DEF w

LEMMA WireHello ==
    ASSUME NEW alt
    PROVE  /\ Wire(Hello(FALSE, alt)) \in Seq(NoDcs) /\ Wire(Hello(FALSE, alt)) \in Seq(Nat)
           /\ Feeds(Wire(Hello(FALSE, alt))) = 1
           /\ Wire(Hello(TRUE, alt)) \in Seq(Nat) /\ Feeds(Wire(Hello(TRUE, alt))) = 1
           /\ Glued(Wire(Hello(TRUE, alt)), <<27, 306>>, Wire(Hello(FALSE, alt)))
<1> DEFINE f == Hello(FALSE, alt)
           t == Hello(TRUE, alt)
<1>1. Wire(f) \in Seq(NoDcs) /\ Wire(f) \in Seq(Nat) /\ Feeds(Wire(f)) = 1
  <2>1. Body(f) \in Seq(Quiet)
    BY BodyQuiet
  <2> HIDE DEF f
  <2> QED
    BY <2>1, WireIs
<1>2. Body(f) = <<37, 307>> /\ Glued(Body(t), <<27, 306>>, <<37, 307>>)
  BY BodyHello
<1> DEFINE x == <<27, 306>>
           y == <<37, 307>>
<1>3. x \in Seq(Unfed) /\ y \in Seq(Unfed) /\ x \in Seq(Nat) /\ y \in Seq(Nat)
  BY DEF Unfed
<1> HIDE DEF f, t, x, y
<1>4. Body(t) = x \o y /\ Body(f) = y
  BY <1>2, Zenon DEF Glued, x, y
<1>5. Body(t) \in Seq(Unfed)
  BY <1>3, <1>4, ConcatProperties
<1>6. Wire(t) = Body(t) \o CRLF /\ Wire(f) = Body(f) \o CRLF
  BY DEF Wire
<1>7. Wire(t) \in Seq(Nat) /\ Feeds(Wire(t)) = 1
  BY <1>5, <1>6, FeedsWire
<1>8. Glued(Wire(t), x, Wire(f))
  <2>1. CRLF \in Seq(Nat)
    BY CrlfIs
  <2>2. Regroups(x, y, CRLF)
    BY <1>3, <2>1, Regrouped
  <2> QED
    BY <1>4, <1>6, <2>2, Zenon DEF Regroups, Glued
<1> QED
  BY <1>1, <1>7, <1>8 DEF f, t, x

\* The lines as they are on the wire.
Wired(lines, d, m) ==
  /\ m \in Seq(Seq(Nat)) /\ Len(m) = Len(lines)
  /\ \A k \in 1..Len(m) : m[k] = WireAt(lines, d, k) /\ Feeds(m[k]) = 1
  /\ d = FALSE => m \in Seq(Seq(NoDcs))

LEMMA WiresAre ==
    ASSUME NEW lines \in Sayings, NEW d \in BOOLEAN
    PROVE  Wired(lines, d, WiresOf(lines, d))
<1> DEFINE n == Len(lines)
           m == WiresOf(lines, d)
<1>1. n \in Nat /\ n >= 1 /\ lines[1] \in Hellos /\ \A k \in 2..n : lines[k] \in Notes
  BY SayingsAre
<1>2. ASSUME NEW k \in 1..n
      PROVE  /\ WireAt(lines, d, k) \in Seq(Nat) /\ Feeds(WireAt(lines, d, k)) = 1
             /\ d = FALSE => WireAt(lines, d, k) \in Seq(NoDcs)
  <2>1. CASE k = 1
    <3> DEFINE a == lines[1].alt
    <3>1. WireAt(lines, d, k) = Wire(Hello(d, a))
      BY <2>1, Zenon DEF WireAt
    <3> HIDE DEF a
    <3>2. CASE d = FALSE
      BY <3>1, <3>2, WireHello
    <3>3. CASE d = TRUE
      BY <3>1, <3>3, WireHello
    <3> QED
      BY <3>2, <3>3
  <2>2. CASE k # 1
    <3>1. lines[k] \in Notes
      BY <1>1, <2>2
    <3>2. WireAt(lines, d, k) = Wire(lines[k])
      BY <2>2, Zenon DEF WireAt
    <3>3. Body(lines[k]) \in Seq(Quiet)
      BY <3>1, BodyQuiet
    <3> QED
      BY <3>2, <3>3, WireIs
  <2> QED
    BY <2>1, <2>2
<1>3. m = [k \in 1..n |-> WireAt(lines, d, k)]
  BY DEF WiresOf
<1>4. \A k \in 1..n : m[k] = WireAt(lines, d, k)
  BY <1>3, Zenon
<1> HIDE DEF m
<1>5. m \in [1..n -> Seq(Nat)]
  BY <1>2, <1>3
<1>6. m \in Seq(Seq(Nat))
  BY <1>1, <1>5, SeqDef
<1>7. Len(m) = n
  <2>1. DOMAIN m = 1..n /\ DOMAIN m = 1..Len(m) /\ Len(m) \in Nat
    BY <1>3, <1>6, LenProperties
  <2> HIDE DEF n
  <2> QED
    BY <1>1, <2>1
<1>8. ASSUME d = FALSE PROVE m \in Seq(Seq(NoDcs))
  <2>1. m \in [1..n -> Seq(NoDcs)]
    BY <1>2, <1>3, <1>8
  <2> QED
    BY <1>1, <2>1, SeqDef
<1> QED
  BY <1>2, <1>4, <1>6, <1>7, <1>8 DEF Wired, m

-----------------------------------------------------------------------------
(* The buffer and the pipe hold the rest of the lines *)

\* d: the DCS is still to come, or has come in part.
Framed(lines, d, p, buf, rest, stripped) ==
  /\ Glued(Rest(WiresOf(lines, d), p + 1), buf, rest)
  /\ d = TRUE => p = 0 /\ stripped = FALSE /\ Len(buf) < 2

\* Every line under way has its line feed under way.
LEMMA FramedFeeds ==
    ASSUME NEW lines \in Sayings, NEW d \in BOOLEAN, NEW p \in 0..Len(lines),
           NEW buf \in Seq(Nat), NEW rest \in Seq(Nat), NEW stripped,
           Framed(lines, d, p, buf, rest, stripped)
    PROVE  Len(lines) - Feeds(rest) - Feeds(buf) = p
<1> DEFINE n == Len(lines)
           m == WiresOf(lines, d)
<1>1. n \in Nat
  BY SayingsAre
<1>2. Wired(lines, d, m)
  BY WiresAre
<1>3. Glued(Rest(m, p + 1), buf, rest)
  BY DEF Framed
<1> HIDE DEF m
<1>4. m \in Seq(Seq(Nat)) /\ Len(m) = n /\ \A k \in 1..Len(m) : Feeds(m[k]) = 1
  BY <1>2 DEF Wired
<1>5. Feeds(Rest(m, p + 1)) = n + 1 - (p + 1)
  <2>1. p + 1 \in 1..Len(m) + 1
    BY <1>1, <1>4
  <2> QED
    BY <1>4, <2>1, FeedsRest
<1>6. FeedsSum(buf \o rest, buf, rest) /\ Feeds(buf) \in Nat /\ Feeds(rest) \in Nat
  BY FeedsJoin
<1>7. Rest(m, p + 1) = buf \o rest
  BY <1>3 DEF Glued
<1>8. Feeds(Rest(m, p + 1)) = Feeds(buf) + Feeds(rest)
  BY <1>6, <1>7, Zenon DEF FeedsSum
<1> HIDE DEF n
<1>9. n - Feeds(rest) - Feeds(buf) = p
  BY <1>1, <1>5, <1>6, <1>8
<1> QED
  BY <1>9 DEF n

\* tmux sends another line.
LEMMA FramedSay ==
    ASSUME NEW lines \in Sayings, NEW d \in BOOLEAN, NEW p \in 0..Len(lines),
           NEW buf \in Seq(Nat), NEW rest \in Seq(Nat), NEW stripped,
           Framed(lines, d, p, buf, rest, stripped), NEW line \in Notes
    PROVE  /\ Append(lines, line) \in Sayings
           /\ rest \o Wire(line) \in Seq(Nat)
           /\ Framed(Append(lines, line), d, p, buf, rest \o Wire(line), stripped)
<1> DEFINE n == Len(lines)
           q == Append(lines, line)
           m == WiresOf(lines, d)
           mm == WiresOf(q, d)
           w == Wire(line)
<1>1. /\ lines \in Seq(Lines) /\ n \in Nat /\ n >= 1 /\ lines[1] \in Hellos
      /\ \A k \in 2..n : lines[k] \in Notes
  BY SayingsAre
<1>2. /\ q \in Seq(Lines) /\ q # <<>> /\ Len(q) = n + 1
      /\ (\A k \in 1..n : q[k] = lines[k]) /\ q[n + 1] = line
  <2>1. line \in Lines
    BY DEF Lines
  <2> QED
    BY <1>1, <2>1, AppendProperties
<1> HIDE DEF q
<1>3. q \in Sayings
  <2>1. q[1] \in Hellos
    BY <1>1, <1>2
  <2>2. ASSUME NEW k \in 2..n + 1 PROVE q[k] \in Notes
    <3> HIDE DEF n
    <3>1. k = n + 1 \/ (k \in 2..n /\ k \in 1..n)
      BY <1>1
    <3> QED
      BY <1>1, <1>2, <3>1
  <2> QED
    BY <1>2, <2>1, <2>2 DEF Sayings
<1>4. w \in Seq(Nat)
  BY BodyQuiet, WireIs
<1>5. Wired(lines, d, m) /\ Wired(q, d, mm)
  BY <1>3, WiresAre
<1>6. Glued(Rest(m, p + 1), buf, rest)
  BY DEF Framed
<1> HIDE DEF m, mm, w
<1>7. m \in Seq(Seq(Nat)) /\ Len(m) = n /\ \A k \in 1..n : m[k] = WireAt(lines, d, k)
  BY <1>5 DEF Wired
<1>8. mm \in Seq(Seq(Nat)) /\ Len(mm) = n + 1 /\ \A k \in 1..n + 1 : mm[k] = WireAt(q, d, k)
  BY <1>2, <1>5 DEF Wired
<1> HIDE DEF n
<1>9. mm = Append(m, w)
  <2>1. ASSUME NEW k \in 1..n PROVE mm[k] = m[k]
    <3>1. k \in 1..n + 1 /\ 1 \in 1..n
      BY <1>1
    <3>2. q[k] = lines[k] /\ q[1] = lines[1]
      BY <1>2, <3>1
    <3>3. WireAt(q, d, k) = WireAt(lines, d, k)
      BY <3>2, Zenon DEF WireAt
    <3> QED
      BY <1>7, <1>8, <3>1, <3>3
  <2>2. mm[n + 1] = w
    <3>1. n + 1 \in 1..n + 1 /\ n + 1 # 1
      BY <1>1
    <3>2. WireAt(q, d, n + 1) = w
      BY <1>2, <3>1, Zenon DEF WireAt, w
    <3> QED
      BY <1>8, <3>1, <3>2
  <2> QED
    BY <1>4, <1>7, <1>8, <2>1, <2>2, ExtendedByOne
<1>10. Glued(Rest(mm, p + 1), Rest(m, p + 1), w)
  <2>1. p + 1 \in 1..Len(m) + 1
    BY <1>1, <1>7 DEF n
  <2> QED
    BY <1>4, <1>7, <1>9, <2>1, RestAppend
<1>11. Glued(Rest(mm, p + 1), buf, rest \o w)
  <2>1. Regroups(buf, rest, w)
    BY <1>4, Regrouped
  <2> QED
    BY <1>6, <1>10, <2>1, Zenon DEF Glued, Regroups
<1>12. rest \o w \in Seq(Nat)
  BY <1>4, ConcatProperties
<1>13. d = TRUE => p = 0 /\ stripped = FALSE /\ Len(buf) < 2
  BY DEF Framed
<1> QED
  BY <1>3, <1>11, <1>12, <1>13 DEF Framed, q, w, mm

\* The line as the reader hears it.
Heard(lines, k) == IF k = 1 THEN Bared(lines[1]) ELSE lines[k]

\* The reader takes the next line off the buffer: it is the next line of tmux.
Took(lines, p, buf, rest, stripped, e) ==
  /\ p + 1 \in 1..Len(lines)
  /\ SubSeq(buf, 1, e - 1) = Body(Heard(lines, p + 1))
  /\ SubSeq(buf, e + 2, Len(buf)) \in Seq(Nat)
  /\ Framed(lines, FALSE, p + 1, SubSeq(buf, e + 2, Len(buf)), rest, stripped)

\* One call of next_event takes the next line as a whole.
LEMMA FramedNext ==
    ASSUME NEW lines \in Sayings, NEW d \in BOOLEAN, NEW p \in 0..Len(lines),
           NEW buf \in Seq(Nat), NEW rest \in Seq(Nat), NEW stripped,
           Framed(lines, d, p, buf, rest, stripped), find_crlf(buf) > 0,
           NEW e, e = find_crlf(buf)
    PROVE  Took(lines, p, buf, rest, stripped, e)
<1> DEFINE n == Len(lines)
           l == Len(buf)
           m == WiresOf(lines, d)
           t == Rest(m, p + 1)
<1>1. n \in Nat /\ l \in Nat /\ \A k \in 2..n : lines[k] \in Notes
  BY SayingsAre, LenProperties
<1>2. l >= 2
  <2> DEFINE c == find_crlf(buf)
  <2>1. FirstAt(buf, CRLF, c)
    BY PositionIs DEF find_crlf
  <2> HIDE DEF c
  <2>2. c \in 0..l /\ c > 0
    BY <2>1 DEF FirstAt, c
  <2>3. c \in Nat \ {0} /\ c # 0
    BY <1>1, <2>2
  <2>4. At(buf, c, CRLF)
    BY <2>1, <2>3 DEF FirstAt
  <2>5. TwoAt(buf, c, 13, 10)
    BY <2>3, <2>4, AtTwo DEF CRLF, CR, LF
  <2>6. c + 1 <= l
    BY <2>5 DEF TwoAt
  <2> QED
    BY <1>1, <2>3, <2>6
<1>3. d = FALSE
  BY <1>1, <1>2 DEF Framed
<1>4. Wired(lines, d, m)
  BY WiresAre
<1>5. Glued(t, buf, rest)
  BY DEF Framed
<1> HIDE DEF m, t
<1>6. m \in Seq(Seq(Nat)) /\ Len(m) = n /\ \A k \in 1..n : m[k] = WireAt(lines, d, k)
  BY <1>4 DEF Wired
<1>7. t \in Seq(Nat) /\ Len(t) = l + Len(rest) /\ Len(rest) \in Nat
  BY <1>5, GluedIs
<1>8. p # n
  <2>1. SUFFICES ASSUME p = n PROVE FALSE
    OBVIOUS
  <2>2. t = <<>>
    BY <1>6, <2>1, RestEnds DEF t
  <2> DEFINE k == Len(t)
             j == Len(rest)
  <2>3. k = 0
    BY <2>2
  <2>4. k = l + j /\ j \in Nat
    BY <1>7
  <2> HIDE DEF l, k, j
  <2> QED
    BY <1>1, <1>2, <2>3, <2>4
<1>9. p + 1 \in 1..n /\ p + 2 \in 1..n + 1
  BY <1>1, <1>8
<1> DEFINE w == m[p + 1]
           R == Rest(m, p + 2)
           b == Body(Heard(lines, p + 1))
<1>10. Glued(t, w, R) /\ R \in Seq(Nat)
  <2>1. p + 1 \in 1..Len(m) /\ p + 1 + 1 = p + 2
    BY <1>6, <1>9
  <2>2. Rest(m, p + 1) = m[p + 1] \o Rest(m, p + 1 + 1) /\ Rest(m, p + 1 + 1) \in Seq(Nat)
    BY <1>6, <2>1, RestStep
  <2> QED
    BY <2>1, <2>2, Zenon DEF Glued, t
<1>11. Glued(w, b, CRLF) /\ b \in Seq(Unfed)
  <2>1. w = WireAt(lines, FALSE, p + 1)
    BY <1>3, <1>6, <1>9
  <2>2. w = Wire(Heard(lines, p + 1))
    BY <2>1, Zenon DEF WireAt, Heard, Bared
  <2>3. Body(Heard(lines, p + 1)) \in Seq(Quiet)
    <3>1. CASE p + 1 = 1
      <4>1. Heard(lines, p + 1) = Hello(FALSE, lines[1].alt)
        BY <3>1, Zenon DEF Heard, Bared
      <4> QED
        BY <4>1, BodyQuiet, Zenon
    <3>2. CASE p + 1 # 1
      <4>1. p + 1 \in 2..n
        <5> HIDE DEF n
        <5> QED
          BY <1>1, <1>9, <3>2
      <4>2. Heard(lines, p + 1) = lines[p + 1]
        BY <3>2, Zenon DEF Heard
      <4>3. lines[p + 1] \in Notes
        BY <1>1, <4>1
      <4> QED
        BY <4>2, <4>3, BodyQuiet, Zenon
    <3> QED
      BY <3>1, <3>2
  <2>4. Quiet \in SUBSET Unfed
    BY DEF Quiet, Unfed
  <2> HIDE DEF w, b
  <2>5. b \in Seq(Quiet)
    BY <2>3 DEF b
  <2>6. b \in Seq(Unfed)
    BY <2>4, <2>5, Wider
  <2> QED
    BY <2>2, <2>6, Zenon DEF Glued, Wire, b
<1> HIDE DEF w, R, b
<1>12. TakesLine(buf, rest, e, b, R)
  BY <1>5, <1>10, <1>11, LineTaken
<1>13. /\ SubSeq(buf, 1, e - 1) = b /\ SubSeq(buf, e + 2, l) \in Seq(Nat)
       /\ SubSeq(buf, e + 2, l) \o rest = R
  BY <1>12 DEF TakesLine
<1>14. Framed(lines, FALSE, p + 1, SubSeq(buf, e + 2, l), rest, stripped)
  <2>1. p + 1 + 1 = p + 2
    BY <1>9
  <2>2. Rest(WiresOf(lines, FALSE), p + 1 + 1) = R
    BY <1>3, <2>1, Zenon DEF R, m
  <2> QED
    BY <1>13, <2>2, Zenon DEF Framed, Glued
<1> QED
  BY <1>9, <1>13, <1>14, Zenon DEF Took, b

-----------------------------------------------------------------------------
(* feed *)

\* The buffer after feed has looked for the DCS.
CleanOf(buf, stripped) ==
  IF ~stripped /\ Position(buf, DCS) > 0
  THEN SubSeq(buf, 1, Position(buf, DCS) - 1)
         \o SubSeq(buf, Position(buf, DCS) + Len(DCS), Len(buf))
  ELSE buf

\* A word of two symbols that is found.
LEMMA TwoFound ==
    ASSUME NEW buf \in Seq(Nat), NEW a \in Nat, NEW b \in Nat, NEW w, w = <<a, b>>
    PROVE  \/ Position(buf, w) = 0 /\ \A i \in 1..Len(buf) : ~TwoAt(buf, i, a, b)
           \/ /\ Position(buf, w) \in 1..Len(buf) /\ Position(buf, w) > 0
              /\ TwoAt(buf, Position(buf, w), a, b)
              /\ \A i \in 1..Len(buf) : TwoAt(buf, i, a, b) => Position(buf, w) <= i
<1> DEFINE p == Position(buf, w)
           l == Len(buf)
<1>1. FirstAt(buf, w, p) /\ l \in Nat
  BY PositionIs, LenProperties
<1> HIDE DEF p
<1>2. p \in 0..l
  BY <1>1 DEF FirstAt
<1>3. \A i \in 1..l : At(buf, i, w) <=> TwoAt(buf, i, a, b)
  <2>1. ASSUME NEW i \in 1..l PROVE At(buf, i, w) <=> TwoAt(buf, i, a, b)
    <3>1. i \in Nat \ {0}
      BY <1>1
    <3> QED
      BY <3>1, AtTwo
  <2> QED
    BY <2>1
<1>4. CASE p = 0
  <2>1. \A i \in 1..l : ~At(buf, i, w)
    BY <1>1, <1>4 DEF FirstAt
  <2> QED
    BY <1>3, <1>4, <2>1 DEF p
<1>5. CASE p # 0
  <2>1. At(buf, p, w) /\ \A i \in 1..l : At(buf, i, w) => p <= i
    BY <1>1, <1>5 DEF FirstAt
  <2>2. p \in 1..l /\ p > 0
    BY <1>1, <1>2, <1>5
  <2>3. TwoAt(buf, p, a, b)
    BY <1>3, <2>1, <2>2
  <2>4. \A i \in 1..l : TwoAt(buf, i, a, b) => p <= i
    BY <1>3, <2>1
  <2> QED
    BY <2>2, <2>3, <2>4 DEF p
<1> QED
  BY <1>4, <1>5

LEMMA DcsIs == DCS = <<27, 306>> /\ BEGIN = <<37, 307>> /\ Len(DCS) = 2
  BY DEF DCS, BEGIN, ESC

\* Once the DCS is gone feed finds none.
LEMMA FramedReadBare ==
    ASSUME NEW lines \in Sayings, NEW p \in 0..Len(lines),
           NEW buf \in Seq(Nat), NEW rest \in Seq(Nat), NEW stripped \in BOOLEAN,
           Glued(Rest(WiresOf(lines, FALSE), p + 1), buf, rest)
    PROVE  CleanOf(buf, stripped) = buf
<1> DEFINE m == WiresOf(lines, FALSE)
           t == Rest(m, p + 1)
           l == Len(buf)
<1>1. Wired(lines, FALSE, m) /\ Len(lines) \in Nat
  BY WiresAre, SayingsAre
<1>2. m \in Seq(Seq(NoDcs)) /\ Len(m) = Len(lines)
  BY <1>1 DEF Wired
<1> HIDE DEF m
<1>3. p + 1 \in 1..Len(m) + 1
  BY <1>1, <1>2
<1>4. t \in Seq(NoDcs)
  BY <1>2, <1>3, RestType
<1>5. Glued(t, buf, rest)
  BY DEF m
<1> HIDE DEF t
<1>6. l \in Nat /\ Len(t) = l + Len(rest) /\ Len(rest) \in Nat /\ \A i \in 1..l : t[i] = buf[i]
  BY <1>5, GluedIs
<1>7. \A i \in 1..Len(t) : t[i] # 306
  BY <1>4, ElementOfSeq DEF NoDcs
<1>8. ASSUME NEW i \in 1..l PROVE ~TwoAt(buf, i, 27, 306)
  <2>1. SUFFICES ASSUME TwoAt(buf, i, 27, 306) PROVE FALSE
    OBVIOUS
  <2>2. i + 1 <= l /\ buf[i + 1] = 306
    BY <2>1 DEF TwoAt
  <2>3. i + 1 \in 1..l /\ i + 1 \in 1..Len(t)
    BY <1>6, <2>2
  <2> QED
    BY <1>6, <1>7, <2>2, <2>3
<1>9. ~(Position(buf, DCS) > 0)
  <2>1. DCS = <<27, 306>>
    BY DcsIs
  <2>2. Position(buf, DCS) = 0
    BY <1>8, <2>1, TwoFound
  <2> QED
    BY <2>2
<1> QED
  BY <1>9, Zenon DEF CleanOf

\* The rest of the lines with the DCS is the DCS and the rest without.
LEMMA RestDcs ==
    ASSUME NEW lines \in Sayings
    PROVE  /\ Rest(WiresOf(lines, FALSE), 1) \in Seq(Nat)
           /\ Glued(Rest(WiresOf(lines, TRUE), 1), <<27, 306>>, Rest(WiresOf(lines, FALSE), 1))
<1> DEFINE n == Len(lines)
           q == WiresOf(lines, TRUE)
           m == WiresOf(lines, FALSE)
           a == lines[1].alt
           c == <<27, 306>>
<1>1. n \in Nat /\ n >= 1
  BY SayingsAre
<1>2. Wired(lines, TRUE, q) /\ Wired(lines, FALSE, m)
  BY WiresAre
<1> HIDE DEF q, m
<1>3. q \in Seq(Seq(Nat)) /\ Len(q) = n /\ \A k \in 1..n : q[k] = WireAt(lines, TRUE, k)
  BY <1>2 DEF Wired
<1>4. m \in Seq(Seq(Nat)) /\ Len(m) = n /\ \A k \in 1..n : m[k] = WireAt(lines, FALSE, k)
  BY <1>2 DEF Wired
<1> HIDE DEF n
<1>5. 1 \in 1..n /\ 1 + 1 = 2
  BY <1>1
<1>6. q[1] = Wire(Hello(TRUE, a)) /\ m[1] = Wire(Hello(FALSE, a))
  <2>1. q[1] = WireAt(lines, TRUE, 1) /\ m[1] = WireAt(lines, FALSE, 1)
    BY <1>3, <1>4, <1>5
  <2> QED
    BY <2>1, Zenon DEF WireAt
<1>7. Glued(q[1], c, m[1])
  BY <1>6, WireHello
<1>8. Rest(q, 2) = Rest(m, 2)
  <2>1. ASSUME NEW k \in 2..n PROVE q[k] = m[k]
    <3>1. k \in 1..n /\ k # 1
      BY <1>1
    <3>2. WireAt(lines, TRUE, k) = WireAt(lines, FALSE, k)
      BY <3>1, Zenon DEF WireAt
    <3> QED
      BY <1>3, <1>4, <3>1, <3>2
  <2>2. 2 \in Nat \ {0} /\ Len(q) = Len(m) /\ \A k \in 2..Len(q) : q[k] = m[k]
    BY <1>3, <1>4, <2>1
  <2>3. q \in Seq(Seq(Nat)) /\ m \in Seq(Seq(Nat))
    BY <1>3, <1>4
  <2> QED
    BY <2>2, <2>3, RestSame
<1>9. /\ Rest(q, 1) = q[1] \o Rest(q, 2) /\ q[1] \in Seq(Nat) /\ Rest(q, 2) \in Seq(Nat)
  <2>1. 1 \in 1..Len(q)
    BY <1>3, <1>5
  <2> QED
    BY <1>3, <1>5, <2>1, RestStep
<1>10. /\ Rest(m, 1) = m[1] \o Rest(m, 2) /\ m[1] \in Seq(Nat) /\ Rest(m, 2) \in Seq(Nat)
  <2>1. 1 \in 1..Len(m)
    BY <1>4, <1>5
  <2> QED
    BY <1>4, <1>5, <2>1, RestStep
<1>11. Glued(Rest(q, 1), c, Rest(m, 1))
  <2>1. c \in Seq(Nat)
    OBVIOUS
  <2> HIDE DEF c
  <2>2. Regroups(c, m[1], Rest(m, 2))
    BY <1>10, <2>1, Regrouped
  <2> QED
    BY <1>7, <1>8, <1>9, <1>10, <2>2, Zenon DEF Glued, Regroups
<1>12. Rest(m, 1) \in Seq(Nat)
  BY <1>10, ConcatProperties
<1> QED
  BY <1>11, <1>12 DEF q, m

\* What feed leaves: the buffer and the pipe still hold the rest of the lines.
Reframed(lines, p, buf, rest, stripped) ==
  /\ CleanOf(buf, stripped) \in Seq(Nat)
  /\ \E d \in BOOLEAN :
       Framed(lines, d, p, CleanOf(buf, stripped), rest,
              stripped \/ Position(CleanOf(buf, stripped), BEGIN) > 0)

\* While the DCS is to come: one symbol of it is kept, two are cut out.
LEMMA FramedReadDcs ==
    ASSUME NEW lines \in Sayings, NEW buf \in Seq(Nat), NEW rest \in Seq(Nat),
           Glued(Rest(WiresOf(lines, TRUE), 1), buf, rest)
    PROVE  Reframed(lines, 0, buf, rest, FALSE)
<1> DEFINE t == Rest(WiresOf(lines, TRUE), 1)
           R == Rest(WiresOf(lines, FALSE), 1)
           c == <<27, 306>>
           l == Len(buf)
<1>1. R \in Seq(Nat) /\ Glued(t, c, R) /\ Glued(t, buf, rest)
  BY RestDcs
<1>2. c \in Seq(Nat) /\ Len(c) = 2 /\ c[1] = 27 /\ c[2] = 306
  OBVIOUS
<1> HIDE DEF t, R, c
<1>3. l \in Nat /\ \A i \in 1..l : t[i] = buf[i]
  BY <1>1, GluedIs
<1>4. t[1] = 27 /\ t[2] = 306
  <2>1. c \in Seq(Nat)
    BY <1>2
  <2>2. \A i \in 1..Len(c) : t[i] = c[i]
    BY <1>1, <2>1, GluedIs
  <2>3. 1 \in 1..Len(c) /\ 2 \in 1..Len(c)
    BY <1>2
  <2> QED
    BY <1>2, <2>2, <2>3
<1>5. DCS = c /\ DCS = <<27, 306>> /\ BEGIN = <<37, 307>> /\ Len(DCS) = 2
  BY DcsIs DEF c
<1>6. CASE l < 2
  <2>1. \A i \in 1..l : \A a, b : ~TwoAt(buf, i, a, b)
    BY <1>3, <1>6 DEF TwoAt
  <2>2. Position(buf, DCS) = 0 /\ Position(buf, BEGIN) = 0
    BY <1>5, <2>1, TwoFound
  <2>3. ~(Position(buf, DCS) > 0) /\ ~(Position(buf, BEGIN) > 0)
    BY <2>2
  <2>4. CleanOf(buf, FALSE) = buf
    BY <2>3, Zenon DEF CleanOf
  <2>5. (FALSE \/ Position(CleanOf(buf, FALSE), BEGIN) > 0) = FALSE
    BY <2>3, <2>4
  <2>6. Framed(lines, TRUE, 0, buf, rest, FALSE)
    <3>1. 0 + 1 = 1
      OBVIOUS
    <3> QED
      BY <1>1, <1>6, <3>1 DEF Framed, t
  <2>7. TRUE \in BOOLEAN
    OBVIOUS
  <2> QED
    BY <2>4, <2>5, <2>6, <2>7, Zenon DEF Reframed
<1>7. CASE l >= 2
  <2>1. 1 \in 1..l /\ 2 \in 1..l /\ 1 + 1 = 2
    BY <1>3, <1>7
  <2>2. TwoAt(buf, 1, 27, 306)
    BY <1>3, <1>4, <1>7, <2>1 DEF TwoAt
  <2>3. Position(buf, DCS) \in 1..l /\ Position(buf, DCS) <= 1
    BY <1>5, <2>1, <2>2, TwoFound
  <2>4. Position(buf, DCS) = 1
    BY <2>3
  <2> DEFINE z == SubSeq(buf, 2 + 1, l)
             y == SubSeq(buf, 1, 2)
  <2>5. 2 \in 0..l
    BY <1>3, <1>7
  <2>6. Halved(Nat, buf, 2, y, z)
    BY <2>5, Halves
  <2> HIDE DEF z, y
  <2>7. y \in Seq(Nat) /\ z \in Seq(Nat) /\ Len(y) = 2 /\ Glued(buf, y, z)
    BY <2>6, Zenon DEF Halved
  <2>8. CleanOf(buf, FALSE) = z
    <3>1. Position(buf, DCS) > 0 /\ Position(buf, DCS) - 1 = 0
          /\ Position(buf, DCS) + Len(DCS) = 2 + 1
      BY <1>5, <2>4
    <3>2. CleanOf(buf, FALSE) = SubSeq(buf, 1, 0) \o z
      BY <3>1, Zenon DEF CleanOf, z
    <3>3. SubSeq(buf, 1, 0) = <<>>
      BY SubSeqEmpty
    <3>4. <<>> \o z = z
      BY <2>7, ConcatEmptySeq
    <3> QED
      BY <3>2, <3>3, <3>4, Zenon
  <2>9. Glued(R, z, rest)
    <3> DEFINE q == z \o rest
    <3>1. q \in Seq(Nat)
      BY <2>7, ConcatProperties
    <3>2. Regroups(y, z, rest)
      BY <2>7, Regrouped
    <3>3. Glued(t, y, q)
      BY <1>1, <2>7, <3>2, Zenon DEF Glued, Regroups
    <3> HIDE DEF q
    <3>4. Len(y) = Len(c)
      BY <1>2, <2>7
    <3>5. q = R
      BY <1>1, <1>2, <2>7, <3>1, <3>3, <3>4, SplitSame
    <3> QED
      BY <3>5 DEF Glued, q
  <2>10. \A s : Framed(lines, FALSE, 0, z, rest, s)
    <3>1. 0 + 1 = 1 /\ FALSE # TRUE
      OBVIOUS
    <3> QED
      BY <2>9, <3>1, Zenon DEF Framed, R
  <2>11. FALSE \in BOOLEAN
    OBVIOUS
  <2> QED
    BY <2>7, <2>8, <2>10, <2>11, Zenon DEF Reframed
<1> HIDE DEF l
<1>8. l < 2 \/ l >= 2
  BY <1>3
<1> QED
  BY <1>6, <1>7, <1>8 DEF l

\* feed keeps it, wherever the chunk ends.
LEMMA FramedRead ==
    ASSUME NEW lines \in Sayings, NEW d \in BOOLEAN, NEW p \in 0..Len(lines),
           NEW buf \in Seq(Nat), NEW chunk \in Seq(Nat), NEW rest \in Seq(Nat),
           NEW pipes, Glued(pipes, chunk, rest), NEW stripped \in BOOLEAN,
           Framed(lines, d, p, buf, pipes, stripped)
    PROVE  Reframed(lines, p, buf \o chunk, rest, stripped)
<1> DEFINE b == buf \o chunk
           t == Rest(WiresOf(lines, d), p + 1)
<1>1. b \in Seq(Nat)
  BY ConcatProperties
<1>2. Glued(t, b, rest)
  <2>1. Glued(t, buf, pipes)
    BY DEF Framed
  <2>2. Regroups(buf, chunk, rest)
    BY Regrouped
  <2> QED
    BY <2>1, <2>2, Zenon DEF Glued, Regroups
<1>3. CASE d = FALSE
  <2>1. Glued(Rest(WiresOf(lines, FALSE), p + 1), b, rest)
    BY <1>2, <1>3
  <2> HIDE DEF b
  <2>2. CleanOf(b, stripped) = b
    BY <1>1, <2>1, FramedReadBare
  <2>3. \A s : Framed(lines, FALSE, p, b, rest, s)
    <3>1. FALSE # TRUE
      OBVIOUS
    <3> QED
      BY <2>1, <3>1, Zenon DEF Framed
  <2>4. FALSE \in BOOLEAN
    OBVIOUS
  <2>5. Reframed(lines, p, b, rest, stripped)
    BY <1>1, <2>2, <2>3, <2>4, Zenon DEF Reframed
  <2> QED
    BY <2>5 DEF b
<1>4. CASE d = TRUE
  <2>1. p = 0 /\ stripped = FALSE /\ 0 + 1 = 1
    BY <1>4 DEF Framed
  <2>2. Glued(Rest(WiresOf(lines, TRUE), 1), b, rest)
    BY <1>2, <1>4, <2>1
  <2> HIDE DEF b
  <2>3. Reframed(lines, 0, b, rest, FALSE)
    BY <1>1, <2>2, FramedReadDcs
  <2> QED
    BY <2>1, <2>3 DEF b
<1> QED
  BY <1>3, <1>4

-----------------------------------------------------------------------------
(* What a line of tmux makes the reader do *)

LEMMA SpaceFound ==
    ASSUME NEW line \in Seq(Nat), NEW k \in 1..Len(line), line[k] = 32,
           \A i \in 1..k - 1 : line[i] # 32
    PROVE  Position(line, <<SPACE>>) = k
<1> DEFINE w == <<SPACE>>
           p == Position(line, w)
           l == Len(line)
<1>1. w \in Seq(Nat) /\ Len(w) = 1 /\ w[1] = 32 /\ w # <<>>
  BY DEF SPACE
<1>2. l \in Nat
  BY LenProperties
<1> HIDE DEF w
<1>3. FirstAt(line, w, p)
  BY PositionIs
<1> HIDE DEF p
<1>4. At(line, k, w)
  <2>1. k \in Nat \ {0} /\ k + 1 - 1 = k /\ k <= l
    BY <1>2
  <2>2. k + Len(w) - 1 <= l
    BY <1>1, <2>1
  <2>3. \A j \in 1..Len(w) : line[k + j - 1] = w[j]
    BY <1>1, <2>1
  <2>4. Spelt(line, k, w)
    BY <2>2, <2>3, Zenon DEF Spelt
  <2> QED
    BY <1>1, <2>1, <2>4, AtIs
<1>5. p # 0
  BY <1>3, <1>4 DEF FirstAt
<1>6. p \in 1..l /\ At(line, p, w) /\ p <= k
  BY <1>2, <1>3, <1>4, <1>5 DEF FirstAt
<1>7. line[p] = 32
  <2>1. p \in Nat \ {0}
    BY <1>6
  <2>2. line[p] = w[1]
    BY <1>1, <1>6, <2>1, AtFirst
  <2> QED
    BY <1>1, <2>2
<1>8. ~(p \in 1..k - 1)
  BY <1>7
<1> HIDE DEF l
<1>9. p = k
  BY <1>2, <1>6, <1>8
<1> QED
  BY <1>9 DEF p, w

\* A line of a word, a pane and a value is read as that.
HasField(line, word, pane, value) ==
  /\ line \in Seq(Nat) /\ line # <<>> /\ line[1] = word
  /\ Field(line).pane = <<pane>> /\ Field(line).value = value

LEMMA FieldIs ==
    ASSUME NEW word \in Nat \ {32}, NEW pane \in Nat \ {32}, NEW value \in Seq(Nat),
           NEW line, Fielded(line, word, pane, value)
    PROVE  HasField(line, word, pane, value)
<1> DEFINE h == <<word, pane, SPACE>>
           l == Len(line)
<1>1. h \in Seq(Nat) /\ Len(h) = 3 /\ h[1] = word /\ h[2] = pane /\ h[3] = 32
  BY DEF SPACE
<1>2. Glued(line, h, value)
  BY DEF Fielded, Glued
<1> HIDE DEF h
<1>3. /\ line \in Seq(Nat) /\ l = Len(h) + Len(value) /\ Len(value) \in Nat
      /\ \A i \in 1..Len(h) : line[i] = h[i]
  <2>1. h \in Seq(Nat)
    BY <1>1
  <2> QED
    BY <1>2, <2>1, GluedIs
<1>4. line[1] = word /\ line[2] = pane /\ line[3] = 32
  <2>1. 1 \in 1..Len(h) /\ 2 \in 1..Len(h) /\ 3 \in 1..Len(h)
    BY <1>1
  <2> QED
    BY <1>1, <1>3, <2>1
<1>5. l \in Nat /\ l >= 3
  BY <1>1, <1>3
<1>6. Position(line, <<SPACE>>) = 3
  <2>1. 3 \in 1..Len(line)
    BY <1>5
  <2>2. \A i \in 1..3 - 1 : line[i] # 32
    BY <1>4
  <2> QED
    BY <1>3, <1>4, <2>1, <2>2, SpaceFound
<1>7. SubSeq(line, 2, 2) = <<pane>>
  <2>1. \A i \in 2..2 : line[i] \in Nat
    BY <1>4
  <2> DEFINE x == SubSeq(line, 2, 2)
  <2>2. x \in Seq(Nat) /\ Len(x) = 1 /\ x[1] = line[2]
    <3>1. /\ x \in Seq(Nat) /\ Len(x) = IF 2 <= 2 THEN 2 - 2 + 1 ELSE 0
          /\ \A i \in 1..2 - 2 + 1 : x[i] = line[2 + i - 1]
      BY <2>1, SubSeqProperties
    <3> HIDE DEF x
    <3> QED
      BY <3>1
  <2> HIDE DEF x
  <2>3. x = <<pane>>
    BY <1>4, <2>2
  <2> QED
    BY <2>3 DEF x
<1>8. SubSeq(line, 3 + 1, l) = value
  <2> DEFINE x == SubSeq(line, 1, 3)
             y == SubSeq(line, 3 + 1, l)
  <2>1. 3 \in 0..l
    BY <1>5
  <2>2. Halved(Nat, line, 3, x, y)
    BY <1>3, <2>1, Halves
  <2> HIDE DEF x, y
  <2>3. x \in Seq(Nat) /\ y \in Seq(Nat) /\ Len(x) = 3 /\ Glued(line, x, y)
    BY <2>2, Zenon DEF Halved
  <2>4. Len(x) = Len(h)
    BY <1>1, <2>3
  <2>5. y = value
    BY <1>1, <1>2, <2>3, <2>4, SplitSame
  <2> QED
    BY <2>5 DEF y
<1>9. Field(line) = [pane |-> SubSeq(line, 2, 3 - 1), value |-> SubSeq(line, 3 + 1, l)]
  BY <1>6, Zenon DEF Field
<1>10. 3 - 1 = 2
  OBVIOUS
<1>11. Field(line) = [pane |-> <<pane>>, value |-> value]
  BY <1>7, <1>8, <1>9, <1>10, Zenon
<1>12. Field(line).pane = <<pane>> /\ Field(line).value = value
  <2> HIDE DEF l
  <2> QED
    BY <1>11
<1>13. line # <<>>
  <2>1. Len(<<>>) = 0 /\ l # 0
    BY <1>5
  <2> QED
    BY <2>1, Zenon
<1> QED
  BY <1>3, <1>4, <1>12, <1>13 DEF HasField

\* EventOf and AltAfter for an %output line ...
OutputEvent(line, pane, data, alt) ==
  /\ pane = Pane /\ data # <<>> =>
       EventOf(line, alt) = [kind |-> "Output", data |-> data, alt |-> alt]
  /\ ~(pane = Pane /\ data # <<>>) => EventOf(line, alt) = NoEvent

OutputAlt(line, pane, value, alt) ==
  AltAfter(line, alt) = IF pane = Pane
                        THEN scan_alternate_screen(alt, decode_output(value))
                        ELSE alt

LEMMA EventOutput ==
    ASSUME NEW line, NEW pane, NEW value, NEW alt, HasField(line, 301, pane, value),
           NEW data, data = filter_escapes(decode_output(value))
    PROVE  OutputEvent(line, pane, data, alt) /\ OutputAlt(line, pane, value, alt)
<1> DEFINE word == line[1]
           field == Field(line)
           mine == field.pane = <<Pane>>
<1>1. line # <<>> /\ word = 301 /\ field.value = value
  BY DEF HasField
<1>2. mine <=> pane = Pane
  <2>1. field.pane = <<pane>>
    BY DEF HasField
  <2> HIDE DEF field
  <2>2. <<pane>> = <<Pane>> <=> pane = Pane
    OBVIOUS
  <2> QED
    BY <2>1, <2>2
<1>3. word = OUTPUT /\ word # EXIT /\ word # TITLE /\ word # UNLINKED
  BY <1>1 DEF OUTPUT, EXIT, TITLE, UNLINKED
<1>4. filter_escapes(decode_output(field.value)) = data
  BY <1>1
<1>5. ASSUME pane = Pane, data # <<>>
      PROVE  EventOf(line, alt) = [kind |-> "Output", data |-> data, alt |-> alt]
  <2> HIDE DEF word, field
  <2> QED
    BY <1>1, <1>2, <1>3, <1>4, <1>5 DEF EventOf, word, field
<1>6. ASSUME ~(pane = Pane /\ data # <<>>)
      PROVE  EventOf(line, alt) = NoEvent
  BY <1>1, <1>2, <1>3, <1>4, <1>6 DEF EventOf
<1>7. AltAfter(line, alt) = IF pane = Pane
                            THEN scan_alternate_screen(alt, decode_output(value)) ELSE alt
  BY <1>1, <1>2, <1>3, Zenon DEF AltAfter
<1> HIDE DEF word, field
<1> QED
  BY <1>5, <1>6, <1>7 DEF OutputEvent, OutputAlt

\* ... for a title ...
TitleEvent(line, pane, value, alt) ==
  /\ pane = Pane /\ Valid(value) =>
       EventOf(line, alt) = [kind |-> "PaneTitleChanged", title |-> value]
  /\ ~(pane = Pane /\ Valid(value)) => EventOf(line, alt) = NoEvent
  /\ AltAfter(line, alt) = alt

LEMMA EventTitle ==
    ASSUME NEW line, NEW pane, NEW value, NEW alt, HasField(line, 305, pane, value)
    PROVE  TitleEvent(line, pane, value, alt)
<1> DEFINE word == line[1]
           field == Field(line)
           mine == field.pane = <<Pane>>
<1>1. line # <<>> /\ word = 305 /\ field.value = value
  BY DEF HasField
<1>2. mine <=> pane = Pane
  <2>1. field.pane = <<pane>>
    BY DEF HasField
  <2> HIDE DEF field
  <2>2. <<pane>> = <<Pane>> <=> pane = Pane
    OBVIOUS
  <2> QED
    BY <2>1, <2>2
<1>3. word # OUTPUT /\ word # EXIT /\ word = TITLE /\ word # UNLINKED
  BY <1>1 DEF OUTPUT, EXIT, TITLE, UNLINKED
<1>4. Valid(field.value) <=> Valid(value)
  BY <1>1, Zenon
<1>5. ASSUME pane = Pane, Valid(value)
      PROVE  EventOf(line, alt) = [kind |-> "PaneTitleChanged", title |-> value]
  BY <1>1, <1>2, <1>3, <1>4, <1>5 DEF EventOf
<1>6. ASSUME ~(pane = Pane /\ Valid(value))
      PROVE  EventOf(line, alt) = NoEvent
  BY <1>1, <1>2, <1>3, <1>4, <1>6 DEF EventOf
<1>7. AltAfter(line, alt) = alt
  BY <1>3, Zenon DEF AltAfter
<1> HIDE DEF word, field
<1> QED
  BY <1>5, <1>6, <1>7 DEF TitleEvent

\* ... and for all other lines.
LEMMA EventOthers ==
    ASSUME NEW alt, NEW x, NEW line
    PROVE  /\ line = <<302>> =>
                EventOf(line, alt) = [kind |-> "Exit"] /\ AltAfter(line, alt) = alt
           /\ line = <<303, x>> /\ x = Window =>
                EventOf(line, alt) = [kind |-> "WindowClosed"] /\ AltAfter(line, alt) = alt
           /\ line = <<303, x>> /\ x # Window =>
                EventOf(line, alt) = [kind |-> "OtherWindowClosed"] /\ AltAfter(line, alt) = alt
           /\ line = <<304, x>> => EventOf(line, alt) = NoEvent /\ AltAfter(line, alt) = alt
           /\ line = <<37, x>> => EventOf(line, alt) = NoEvent /\ AltAfter(line, alt) = alt
<1>1. ASSUME line = << 302 >>
      PROVE  EventOf(line, alt) = [kind |-> "Exit"] /\ AltAfter(line, alt) = alt
  <2>1. line # <<>> /\ line[1] = EXIT /\ EXIT # OUTPUT
    BY <1>1 DEF EXIT, OUTPUT
  <2>2. AltAfter(line, alt) = alt
    BY <2>1, Zenon DEF AltAfter
  <2>3. EventOf(line, alt) = [kind |-> "Exit"]
    <3> HIDE <1>1
    <3> QED
      BY <2>1 DEF EventOf, EXIT, OUTPUT, TITLE, UNLINKED
  <2> QED
    BY <2>2, <2>3
<1>2. ASSUME line = <<303, x>>
      PROVE  /\ x = Window => EventOf(line, alt) = [kind |-> "WindowClosed"]
             /\ x # Window => EventOf(line, alt) = [kind |-> "OtherWindowClosed"]
             /\ AltAfter(line, alt) = alt
  <2>1. line # <<>> /\ line[1] = UNLINKED /\ line[2] = x /\ UNLINKED # OUTPUT
    BY <1>2 DEF UNLINKED, OUTPUT
  <2>2. AltAfter(line, alt) = alt
    BY <2>1, Zenon DEF AltAfter
  <2>3. ASSUME x = Window PROVE EventOf(line, alt) = [kind |-> "WindowClosed"]
    BY <2>1, <2>3 DEF EventOf, EXIT, OUTPUT, TITLE, UNLINKED
  <2>4. ASSUME x # Window PROVE EventOf(line, alt) = [kind |-> "OtherWindowClosed"]
    BY <2>1, <2>4 DEF EventOf, EXIT, OUTPUT, TITLE, UNLINKED
  <2> QED
    BY <2>2, <2>3, <2>4
<1>3. ASSUME line = <<304, x>> \/ line = <<37, x>>
      PROVE  EventOf(line, alt) = NoEvent /\ AltAfter(line, alt) = alt
  <2>1. /\ line[1] # OUTPUT /\ line[1] # EXIT /\ line[1] # TITLE /\ line[1] # UNLINKED
        /\ line # <<>>
    BY <1>3 DEF EXIT, OUTPUT, TITLE, UNLINKED
  <2>2. AltAfter(line, alt) = alt
    BY <2>1, Zenon DEF AltAfter
  <2>3. EventOf(line, alt) = NoEvent
    BY <2>1 DEF EventOf
  <2> QED
    BY <2>2, <2>3
<1> QED
  BY <1>1, <1>2, <1>3

-----------------------------------------------------------------------------
(* ... and what the browser hears of it *)

\* Messages, with last_alt_screen as an argument.
MessagesOf(event, last) ==
  CASE event.kind = "Output" ->
         <<[type |-> "binary", data |-> event.data]>> \o
         (IF event.alt # last
          THEN <<[type |-> "altscreen", active |-> event.alt]>> ELSE <<>>)
    [] event.kind = "PaneTitleChanged" -> <<[type |-> "pane_title", title |-> event.title]>>
    [] event.kind = "WindowClosed"     -> <<[type |-> "pane_exit"]>>
    [] OTHER -> <<>>

\* What the browser should hear of a line that finds the screen before and
\* leaves it after.
TellData(clean, before, after) ==
  (IF clean = <<>> THEN <<>>
   ELSE <<[type |-> "binary", data |-> clean]>>) \o
  (IF after = before THEN <<>>
   ELSE <<[type |-> "altscreen", active |-> after]>>)

\* What the browser should hear of a line that finds the alternate screen as
\* before says and leaves it as after says (Meaning of ControlStream, without the
\* history).
Tell(line, before, after) ==
  CASE IsOurs(line) -> TellData(Cleaned(line.data), before, after)
    [] line.kind = "title" /\ line.pane = Pane /\ Valid(line.data) ->
         <<[type |-> "pane_title", title |-> line.data]>>
    [] line = Unlinked(Window) -> <<[type |-> "pane_exit"]>>
    [] OTHER -> <<>>

\* The screen after a line.
Turn(line, alt) == IF IsOurs(line) THEN AltIn(line.data, alt) ELSE alt

\* next_event and the reader do with a line what they should.
Told(line, alt) ==
  LET event == EventOf(Body(line), Turn(line, alt))
  IN /\ AltAfter(Body(line), alt) = Turn(line, alt)
     /\ MessagesOf(event, alt) = Tell(line, alt, Turn(line, alt))
     /\ event.kind # "Output" => Turn(line, alt) = alt

LEMMA MessagesNone ==
    ASSUME NEW last
    PROVE  /\ MessagesOf(NoEvent, last) = <<>> /\ NoEvent.kind # "Output"
           /\ MessagesOf([kind |-> "Exit"], last) = <<>>
           /\ MessagesOf([kind |-> "OtherWindowClosed"], last) = <<>>
           /\ MessagesOf([kind |-> "WindowClosed"], last) = <<[type |-> "pane_exit"]>>
<1>1. ASSUME NEW event, event.kind \in {"none", "Exit", "OtherWindowClosed"}
      PROVE  MessagesOf(event, last) = <<>>
  BY <1>1 DEF MessagesOf
<1>2. ASSUME NEW event, event.kind = "WindowClosed"
      PROVE  MessagesOf(event, last) = <<[type |-> "pane_exit"]>>
  BY <1>2 DEF MessagesOf
<1>3. NoEvent.kind = "none"
  BY DEF NoEvent
<1> QED
  BY <1>1, <1>2, <1>3

LEMMA TellOurs ==
    ASSUME NEW line, IsOurs(line), NEW before, NEW after
    PROVE  Tell(line, before, after) = TellData(Cleaned(line.data), before, after)
<1>1. line.kind = "output"
  BY DEF IsOurs
<1>2. line # Unlinked(Window) /\ line.kind # "title"
  BY <1>1 DEF Unlinked
<1> DEFINE x == TellData(Cleaned(line.data), before, after)
<1> HIDE DEF x
<1>3. Tell(line, before, after) = x
  BY <1>2 DEF Tell, x
<1> QED
  BY <1>3 DEF x

LEMMA PanesAre ==
    ASSUME NEW pane \in Panes
    PROVE  pane \in Nat \ {32}
<1>1. {Pane, OtherPane, Window, OtherWindow} \subseteq Nat \ (0..307)
  BY StreamAssumption
<1>2. pane \in Nat \ (0..307)
  BY <1>1 DEF Panes
<1> QED
  BY <1>2

\* The line is told as it should be: one lemma per kind of line.
LEMMA ToldOutput ==
    ASSUME NEW pane \in Panes, NEW data \in Seq(Byte), NEW alt \in BOOLEAN,
           NEW line, line = Output(pane, data)
    PROVE  Told(line, alt)
<1> DEFINE b == Body(line)
           clean == Cleaned(data)
           after == Turn(line, alt)
           event == EventOf(b, after)
<1>1. line.kind = "output" /\ line.pane = pane /\ line.data = data
  BY DEF Output
<1>2. IsOurs(line) <=> pane = Pane
  BY <1>1 DEF IsOurs
<1>3. HasField(b, 301, pane, Encode(data))
  <2> DEFINE v == Encode(data)
  <2>1. pane \in Nat \ {32} /\ 301 \in Nat \ {32}
    BY PanesAre
  <2>2. v \in Seq(Nat)
    <3>1. Quiet \in SUBSET Nat
      BY DEF Quiet
    <3> QED
      BY <3>1, EncodeQuiet, Wider
  <2>3. Fielded(b, 301, pane, v)
    BY BodyOutput DEF OUTPUT
  <2> HIDE DEF b, v
  <2>4. HasField(b, 301, pane, v)
    BY <2>1, <2>2, <2>3, FieldIs
  <2> QED
    BY <2>4 DEF v
<1>4. decode_output(Encode(data)) = data /\ filter_escapes(decode_output(Encode(data))) = clean
  BY DecodeInverts, FilterCleans
<1>5. scan_alternate_screen(alt, decode_output(Encode(data))) = AltIn(data, alt)
  BY <1>4, ScanFindsLast
<1> HIDE DEF b, clean, after
<1>6. /\ pane = Pane /\ clean # <<>> =>
           event = [kind |-> "Output", data |-> clean, alt |-> after]
      /\ ~(pane = Pane /\ clean # <<>>) => event = NoEvent
  <2>1. OutputEvent(b, pane, clean, after)
    BY <1>3, <1>4, EventOutput
  <2> QED
    BY <2>1, Zenon DEF OutputEvent
<1>7. AltAfter(b, alt) = after
  <2>1. AltAfter(b, alt) = IF pane = Pane THEN AltIn(data, alt) ELSE alt
    <3>1. OutputAlt(b, pane, Encode(data), alt)
      BY <1>3, EventOutput
    <3> QED
      BY <1>5, <3>1, Zenon DEF OutputAlt
  <2> QED
    BY <1>1, <1>2, <2>1, Zenon DEF Turn, after
<1> HIDE DEF event
<1>8. CASE pane = Pane /\ clean # <<>>
  <2>1. event.kind = "Output" /\ event.data = clean /\ event.alt = after
    BY <1>6, <1>8
  <2>2. MessagesOf(event, alt) =
          <<[type |-> "binary", data |-> clean]>> \o
          (IF after # alt THEN <<[type |-> "altscreen", active |-> after]>> ELSE <<>>)
    BY <2>1 DEF MessagesOf
  <2>3. Tell(line, alt, after) =
          (IF clean = <<>> THEN <<>> ELSE <<[type |-> "binary", data |-> clean]>>) \o
          (IF after = alt THEN <<>> ELSE <<[type |-> "altscreen", active |-> after]>>)
    <3>1. IsOurs(line) /\ Cleaned(line.data) = clean
      BY <1>1, <1>2, <1>8 DEF clean
    <3>2. Tell(line, alt, after) = TellData(clean, alt, after)
      BY <3>1, TellOurs
    <3> QED
      BY <3>2, Zenon DEF TellData
  <2>4. MessagesOf(event, alt) = Tell(line, alt, after)
    BY <1>8, <2>2, <2>3, Zenon
  <2> QED
    BY <1>7, <2>1, <2>4, Zenon DEF Told, b, after, event
<1>9. CASE pane = Pane /\ clean = <<>>
  <2>1. event = NoEvent
    BY <1>6, <1>9
  <2>2. Switches(data) = {}
    BY <1>9, SwitchKept DEF clean
  <2>3. after = alt
    BY <1>1, <1>2, <1>9, <2>2, AltInIs DEF Turn, after
  <2>4. Tell(line, alt, after) =
          (IF clean = <<>> THEN <<>> ELSE <<[type |-> "binary", data |-> clean]>>) \o
          (IF after = alt THEN <<>> ELSE <<[type |-> "altscreen", active |-> after]>>)
    <3>1. IsOurs(line) /\ Cleaned(line.data) = clean
      BY <1>1, <1>2, <1>9 DEF clean
    <3>2. Tell(line, alt, after) = TellData(clean, alt, after)
      BY <3>1, TellOurs
    <3> QED
      BY <3>2, Zenon DEF TellData
  <2>5. Tell(line, alt, after) = <<>> \o <<>>
    BY <1>9, <2>3, <2>4, Zenon
  <2>6. <<>> \o <<>> = <<>>
    OBVIOUS
  <2>7. MessagesOf(event, alt) = <<>>
    BY <2>1, MessagesNone
  <2> QED
    BY <1>7, <2>3, <2>5, <2>6, <2>7, Zenon DEF Told, b, after, event
<1>10. CASE pane # Pane
  <2>1. event = NoEvent
    BY <1>6, <1>10
  <2>2. after = alt
    BY <1>2, <1>10, Zenon DEF Turn, after
  <2>3. line # Unlinked(Window) /\ line.kind # "title"
    BY <1>1 DEF Unlinked
  <2>4. Tell(line, alt, after) = <<>>
    BY <1>2, <1>10, <2>3 DEF Tell
  <2>5. MessagesOf(event, alt) = <<>>
    BY <2>1, MessagesNone
  <2> QED
    BY <1>7, <2>2, <2>4, <2>5, Zenon DEF Told, b, after, event
<1> QED
  BY <1>8, <1>9, <1>10

LEMMA ToldTitle ==
    ASSUME NEW pane \in Panes, NEW text \in Seq(Printable), NEW alt \in BOOLEAN,
           NEW line, line = Title(pane, text)
    PROVE  Told(line, alt)
<1> DEFINE b == Body(line)
           after == Turn(line, alt)
           event == EventOf(b, after)
<1>1. line.kind = "title" /\ line.pane = pane /\ line.data = text
  BY DEF Title
<1>2. ~IsOurs(line) /\ line # Unlinked(Window)
  BY <1>1 DEF IsOurs, Unlinked
<1>3. after = alt
  BY <1>2, Zenon DEF Turn
<1>4. HasField(b, 305, pane, text)
  <2>1. pane \in Nat \ {32} /\ 305 \in Nat \ {32}
    BY PanesAre
  <2>2. text \in Seq(Nat)
    <3>1. Printable \in SUBSET Nat
      BY DEF Printable
    <3> QED
      BY <3>1, Wider
  <2>3. Fielded(b, 305, pane, text)
    BY BodyTitle DEF TITLE
  <2> HIDE DEF b
  <2> QED
    BY <2>1, <2>2, <2>3, FieldIs
<1> HIDE DEF b, after
<1>5. /\ pane = Pane /\ Valid(text) =>
           event = [kind |-> "PaneTitleChanged", title |-> text]
      /\ ~(pane = Pane /\ Valid(text)) => event = NoEvent
      /\ AltAfter(b, alt) = alt
  <2>1. TitleEvent(b, pane, text, alt)
    BY <1>4, EventTitle
  <2> QED
    BY <1>3, <2>1, Zenon DEF TitleEvent
<1> HIDE DEF event
<1>6. CASE pane = Pane /\ Valid(text)
  <2>1. event.kind = "PaneTitleChanged" /\ event.title = text
    BY <1>5, <1>6
  <2>2. MessagesOf(event, alt) = <<[type |-> "pane_title", title |-> text]>>
    BY <2>1 DEF MessagesOf
  <2>3. line.kind = "title" /\ line.pane = Pane /\ Valid(line.data)
    BY <1>1, <1>6, Zenon
  <2>4. Tell(line, alt, after) = <<[type |-> "pane_title", title |-> text]>>
    BY <1>1, <1>2, <2>3 DEF Tell
  <2> QED
    BY <1>3, <1>5, <2>2, <2>4, Zenon DEF Told, b, after, event
<1>7. CASE ~(pane = Pane /\ Valid(text))
  <2>1. event = NoEvent
    BY <1>5, <1>7
  <2>2. MessagesOf(event, alt) = <<>>
    BY <2>1, MessagesNone
  <2>3. ~(line.kind = "title" /\ line.pane = Pane /\ Valid(line.data))
    BY <1>1, <1>7, Zenon
  <2>4. Tell(line, alt, after) = <<>>
    BY <1>2, <2>3 DEF Tell
  <2> QED
    BY <1>3, <1>5, <2>2, <2>4, Zenon DEF Told, b, after, event
<1> QED
  BY <1>6, <1>7

LEMMA ToldOthers ==
    ASSUME NEW line \in Others, NEW alt \in BOOLEAN
    PROVE  Told(line, alt)
<1> DEFINE b == Body(line)
           after == Turn(line, alt)
           event == EventOf(b, after)
<1>1. line.kind \in {"unlinked", "close", "exit"}
  BY DEF Others, Unlinked, WindowClose, Exit
<1>2. ~IsOurs(line) /\ line.kind # "title"
  BY <1>1 DEF IsOurs
<1>3. after = alt
  BY <1>2, Zenon DEF Turn
<1>4. line # Unlinked(Window) => Tell(line, alt, after) = <<>>
  BY <1>2 DEF Tell
<1>5. line = Unlinked(Window) => Tell(line, alt, after) = <<[type |-> "pane_exit"]>>
  BY <1>2 DEF Tell
<1> HIDE DEF b, after, event
<1>6. CASE line = Unlinked(Window)
  <2>1. b = <<303, Window>>
    BY <1>6, BodyOthers DEF b
  <2>2. EventOf(b, after) = [kind |-> "WindowClosed"] /\ AltAfter(b, alt) = alt
    BY <2>1, EventOthers
  <2>3. event = [kind |-> "WindowClosed"] /\ event.kind # "Output"
    BY <2>2 DEF event
  <2>4. MessagesOf(event, alt) = <<[type |-> "pane_exit"]>>
    BY <2>3, MessagesNone
  <2> QED
    BY <1>3, <1>5, <1>6, <2>2, <2>4, Zenon DEF Told, b, after, event
<1>7. CASE line = Unlinked(OtherWindow)
  <2>1. b = <<303, OtherWindow>> /\ OtherWindow # Window
    BY <1>7, BodyOthers, SymbolsAre DEF b
  <2>2. EventOf(b, after) = [kind |-> "OtherWindowClosed"] /\ AltAfter(b, alt) = alt
    BY <2>1, EventOthers
  <2>3. event = [kind |-> "OtherWindowClosed"]
    BY <2>2 DEF event
  <2>4. MessagesOf(event, alt) = <<>>
    BY <2>3, MessagesNone
  <2>5. line # Unlinked(Window)
    <3>1. Unlinked(Window).window = Window /\ Unlinked(OtherWindow).window = OtherWindow
      BY DEF Unlinked
    <3> QED
      BY <1>7, <2>1, <3>1, Zenon
  <2> QED
    BY <1>3, <1>4, <2>2, <2>4, <2>5, Zenon DEF Told, b, after, event
<1>8. CASE line = WindowClose
  <2>1. b = <<304, Window>>
    BY <1>8, BodyOthers DEF b
  <2>2. EventOf(b, after) = NoEvent /\ AltAfter(b, alt) = alt
    BY <2>1, EventOthers
  <2>3. event = NoEvent
    BY <2>2 DEF event
  <2>4. MessagesOf(event, alt) = <<>>
    BY <2>3, MessagesNone
  <2>5. line # Unlinked(Window)
    BY <1>8 DEF Unlinked, WindowClose
  <2> QED
    BY <1>3, <1>4, <2>2, <2>4, <2>5, Zenon DEF Told, b, after, event
<1>9. CASE line = Exit
  <2>1. b = <<302>>
    BY <1>9, BodyOthers DEF b
  <2>2. EventOf(b, after) = [kind |-> "Exit"] /\ AltAfter(b, alt) = alt
    BY <2>1, EventOthers
  <2>3. event = [kind |-> "Exit"]
    BY <2>2 DEF event
  <2>4. MessagesOf(event, alt) = <<>>
    BY <2>3, MessagesNone
  <2>5. line # Unlinked(Window)
    BY <1>9 DEF Unlinked, Exit
  <2> QED
    BY <1>3, <1>4, <2>2, <2>4, <2>5, Zenon DEF Told, b, after, event
<1> QED
  BY <1>6, <1>7, <1>8, <1>9 DEF Others

LEMMA ToldHello ==
    ASSUME NEW a, NEW alt \in BOOLEAN, NEW line, line = Hello(FALSE, a)
    PROVE  Told(line, alt)
<1> DEFINE b == Body(line)
           after == Turn(line, alt)
           event == EventOf(b, after)
<1>1. line.kind = "hello"
  BY DEF Hello
<1>2. ~IsOurs(line) /\ line.kind # "title" /\ line # Unlinked(Window)
  <2>1. Unlinked(Window).kind = "unlinked"
    BY DEF Unlinked
  <2>2. line.kind # "output" /\ line.kind # "title" /\ line.kind # "unlinked"
    BY <1>1
  <2> QED
    BY <2>1, <2>2, Zenon DEF IsOurs
<1>3. after = alt
  BY <1>2, Zenon DEF Turn
<1>4. Tell(line, alt, after) = <<>>
  BY <1>2 DEF Tell
<1>5. b = <<37, 307>>
  BY BodyHello
<1> HIDE DEF b, after, event
<1>6. EventOf(b, after) = NoEvent /\ AltAfter(b, alt) = alt
  BY <1>5, EventOthers
<1>7. event = NoEvent
  BY <1>6 DEF event
<1>8. MessagesOf(event, alt) = <<>>
  BY <1>7, MessagesNone
<1> QED
  BY <1>3, <1>4, <1>6, <1>8, Zenon DEF Told, b, after, event

LEMMA ToldNotes ==
    ASSUME NEW line \in Notes, NEW alt \in BOOLEAN
    PROVE  Told(line, alt)
<1>1. CASE line \in Outputs
  <2>1. PICK pane \in Panes, data \in Seq(Byte) : line = Output(pane, data)
    BY <1>1 DEF Outputs
  <2> QED
    BY <2>1, ToldOutput
<1>2. CASE line \in TitleLines
  <2>1. PICK pane \in Panes, text \in Seq(Printable) : line = Title(pane, text)
    BY <1>2 DEF TitleLines
  <2> QED
    BY <2>1, ToldTitle
<1>3. CASE line \in Others
  BY <1>3, ToldOthers
<1> QED
  BY <1>1, <1>2, <1>3 DEF Notes

-----------------------------------------------------------------------------
(* The screen after a number of lines *)

\* The lines up to the n-th that switch the screen.
Turning(lines, n) == {k \in 1..n : IsOurs(lines[k]) /\ Switches(lines[k].data) # {}}

\* AltAt and Meaning of ControlStream, for any lines.
AltOf(lines, n) ==
  IF Turning(lines, n) = {} THEN lines[1].alt
  ELSE AltIn(lines[Max(Turning(lines, n))].data, lines[1].alt)

LEMMA OursAre ==
    ASSUME NEW lines \in Sayings, NEW k \in 1..Len(lines), IsOurs(lines[k])
    PROVE  lines[k].data \in Seq(Byte) /\ lines[k] \in Notes
<1>1. lines[1] \in Hellos /\ \A i \in 2..Len(lines) : lines[i] \in Notes
  BY SayingsAre
<1>2. lines[k].kind = "output"
  BY DEF IsOurs
<1>3. k # 1
  BY <1>1, <1>2 DEF Hellos, Hello
<1>4. k \in 2..Len(lines)
  BY <1>3, SayingsAre
<1>5. lines[k] \in Notes
  BY <1>1, <1>4
<1>6. lines[k] \notin TitleLines /\ lines[k] \notin Others
  BY <1>2 DEF TitleLines, Others, Title, Unlinked, WindowClose, Exit
<1>7. lines[k] \in Outputs
  BY <1>5, <1>6 DEF Notes
<1>8. PICK pane \in Panes, data \in Seq(Byte) : lines[k] = Output(pane, data)
  BY <1>7 DEF Outputs
<1> QED
  BY <1>5, <1>8 DEF Output

LEMMA TurningIs ==
    ASSUME NEW lines \in Sayings, NEW n \in 0..Len(lines)
    PROVE  /\ Turning(lines, n) \in SUBSET (1..n) /\ n \in Nat
           /\ \A k \in 1..n : (k \in Turning(lines, n) <=>
                                 IsOurs(lines[k]) /\ Switches(lines[k].data) # {})
BY SayingsAre DEF Turning

LEMMA AltOfType ==
    ASSUME NEW lines \in Sayings, NEW n \in 0..Len(lines)
    PROVE  AltOf(lines, n) \in BOOLEAN
<1> DEFINE A == Turning(lines, n)
<1>1. lines[1].alt \in BOOLEAN /\ Len(lines) \in Nat
  BY SayingsAre
<1>2. CASE A = {}
  BY <1>1, <1>2, Zenon DEF AltOf
<1>3. CASE A # {}
  <2>1. A \in SUBSET (1..n) /\ n \in Nat
    BY TurningIs
  <2>2. Max(A) \in A
    BY <1>3, <2>1, MaxIs
  <2> DEFINE k == Max(A)
  <2>3. k \in 1..n /\ IsOurs(lines[k])
    BY <2>2 DEF Turning
  <2> HIDE DEF k, A
  <2>4. k \in 1..Len(lines)
    BY <1>1, <2>1, <2>3
  <2>5. lines[k].data \in Seq(Byte)
    BY <2>3, <2>4, OursAre
  <2>6. AltIn(lines[k].data, lines[1].alt) \in BOOLEAN
    BY <1>1, <2>5, AltInIs
  <2>7. AltOf(lines, n) = AltIn(lines[k].data, lines[1].alt)
    BY <1>3, Zenon DEF AltOf, k, A
  <2> QED
    BY <2>6, <2>7
<1> QED
  BY <1>2, <1>3

\* Each line turns the screen its predecessors left.
LEMMA AltOfStep ==
    ASSUME NEW lines \in Sayings, NEW n \in 1..Len(lines)
    PROVE  AltOf(lines, n) = Turn(lines[n], AltOf(lines, n - 1))
<1> DEFINE A == Turning(lines, n - 1)
           B == Turning(lines, n)
           a == lines[1].alt
           line == lines[n]
<1>1. a \in BOOLEAN /\ Len(lines) \in Nat /\ n \in Nat /\ n - 1 \in 0..Len(lines)
      /\ n \in 0..Len(lines) /\ n - 1 \in Nat
  BY SayingsAre
<1>2. AltOf(lines, n - 1) \in BOOLEAN
  BY <1>1, AltOfType
<1>3. /\ A \in SUBSET (1..n - 1)
      /\ \A k \in 1..n - 1 : (k \in A <=> IsOurs(lines[k]) /\ Switches(lines[k].data) # {})
  BY <1>1, TurningIs
<1>4. /\ B \in SUBSET (1..n)
      /\ \A k \in 1..n : (k \in B <=> IsOurs(lines[k]) /\ Switches(lines[k].data) # {})
  BY <1>1, TurningIs
<1> HIDE DEF A, B
<1>5. ASSUME NEW k \in 1..n - 1 PROVE k \in A <=> k \in B
  <2>1. k \in 1..n
    BY <1>1
  <2>2. k \in A <=> IsOurs(lines[k]) /\ Switches(lines[k].data) # {}
    BY <1>3
  <2>3. k \in B <=> IsOurs(lines[k]) /\ Switches(lines[k].data) # {}
    BY <1>4, <2>1
  <2> QED
    BY <2>2, <2>3, Zenon
<1>6. CASE IsOurs(line) /\ Switches(line.data) # {}
  <2>1. n \in B
    BY <1>1, <1>4, <1>6
  <2>2. Max(B) \in B /\ \A y \in B : Max(B) >= y
    BY <1>1, <1>4, <2>1, MaxIs
  <2>3. Max(B) = n
    <3> DEFINE k == Max(B)
    <3>1. k \in 1..n /\ k >= n
      BY <1>4, <2>1, <2>2
    <3> HIDE DEF k
    <3>2. k = n
      BY <1>1, <3>1
    <3> QED
      BY <3>2 DEF k
  <2>4. AltOf(lines, n) = AltIn(line.data, a)
    BY <2>1, <2>3, Zenon DEF AltOf, B
  <2>5. line.data \in Seq(Byte)
    BY <1>6, OursAre
  <2> DEFINE o == OnAt(line.data, Max(Switches(line.data)))
  <2>6. AltIn(line.data, a) = o /\ AltIn(line.data, AltOf(lines, n - 1)) = o
    BY <1>1, <1>2, <1>6, <2>5, AltInIs
  <2> QED
    BY <1>6, <2>4, <2>6, Zenon DEF Turn
<1>7. CASE ~(IsOurs(line) /\ Switches(line.data) # {})
  <2>1. n \notin B
    BY <1>1, <1>4, <1>7
  <2>2. A = B
    <3>1. B \in SUBSET (1..n - 1)
      <4>1. ASSUME NEW k \in B PROVE k \in 1..n - 1
        <5>1. k \in 1..n /\ k # n
          BY <1>4, <2>1
        <5> QED
          BY <1>1, <5>1
      <4> QED
        BY <4>1
    <3> QED
      BY <1>3, <1>5, <3>1
  <2>3. AltOf(lines, n) = AltOf(lines, n - 1)
    BY <2>2, Zenon DEF AltOf, A, B
  <2>4. CASE IsOurs(line)
    <3>1. line.data \in Seq(Byte) /\ Switches(line.data) = {}
      BY <1>7, <2>4, OursAre
    <3>2. AltIn(line.data, AltOf(lines, n - 1)) = AltOf(lines, n - 1)
      BY <1>2, <3>1, AltInIs
    <3> QED
      BY <2>3, <2>4, <3>2, Zenon DEF Turn
  <2>5. CASE ~IsOurs(line)
    BY <2>3, <2>5, Zenon DEF Turn
  <2> QED
    BY <2>4, <2>5
<1> QED
  BY <1>6, <1>7

\* What has been said stays said.
LEMMA AltOfStays ==
    ASSUME NEW lines \in Sayings, NEW line \in Notes, NEW q, q = Append(lines, line),
           NEW n \in 0..Len(lines)
    PROVE  AltOf(q, n) = AltOf(lines, n)
<1>1. lines \in Seq(Lines) /\ Len(lines) \in Nat /\ Len(lines) >= 1 /\ line \in Lines
  BY SayingsAre DEF Lines
<1>2. \A k \in 1..Len(lines) : q[k] = lines[k]
  BY <1>1, AppendProperties
<1>3. \A k \in 1..n : q[k] = lines[k]
  BY <1>1, <1>2
<1>4. q[1] = lines[1]
  BY <1>1, <1>2
<1>5. Turning(q, n) = Turning(lines, n)
  BY <1>3 DEF Turning
<1>6. CASE Turning(lines, n) = {}
  BY <1>4, <1>5, <1>6, Zenon DEF AltOf
<1>7. CASE Turning(lines, n) # {}
  <2> DEFINE A == Turning(lines, n)
  <2>1. A \in SUBSET (1..n) /\ n \in Nat
    BY TurningIs
  <2> HIDE DEF A
  <2>2. Max(A) \in 1..n
    BY <1>7, <2>1, MaxIs DEF A
  <2>3. q[Max(A)] = lines[Max(A)]
    BY <1>3, <2>2
  <2> QED
    BY <1>4, <1>5, <1>7, <2>3, Zenon DEF AltOf, A
<1> QED
  BY <1>6, <1>7

-----------------------------------------------------------------------------
(* What the browser hears of a number of lines *)

MeaningOf(lines, n) == Tell(lines[n], AltOf(lines, n - 1), AltOf(lines, n))
Hearing(lines, p) == FlattenSeq([n \in 1..p |-> MeaningOf(lines, n)])

Text == 0..254

\* The messages to the browser.
Frames ==
  {[type |-> "binary", data |-> data] : data \in Seq(Byte)} \cup
  {[type |-> "altscreen", active |-> active] : active \in BOOLEAN} \cup
  {[type |-> "pane_title", title |-> title] : title \in Seq(Text)} \cup
  {[type |-> "pane_exit"]}

LEMMA TellDataType ==
    ASSUME NEW clean \in Seq(Byte), NEW before, NEW after \in BOOLEAN
    PROVE  TellData(clean, before, after) \in Seq(Frames)
<1> DEFINE x == IF clean = <<>> THEN <<>> ELSE <<[type |-> "binary", data |-> clean]>>
           y == IF after = before THEN <<>> ELSE <<[type |-> "altscreen", active |-> after]>>
<1>1. [type |-> "binary", data |-> clean] \in Frames
  BY DEF Frames
<1>2. [type |-> "altscreen", active |-> after] \in Frames
  BY DEF Frames
<1>3. x \in Seq(Frames)
  BY <1>1
<1>4. y \in Seq(Frames)
  BY <1>2
<1>5. TellData(clean, before, after) = x \o y
  BY Zenon DEF TellData
<1> HIDE DEF x, y
<1> QED
  BY <1>3, <1>4, <1>5, ConcatProperties

LEMMA TitleIsText ==
    ASSUME NEW text \in Seq(Printable), Valid(text)
    PROVE  text \in Seq(Text)
<1>1. Len(text) \in Nat /\ DOMAIN text = 1..Len(text) /\ text \in [1..Len(text) -> Printable]
  BY LenProperties
<1>2. \A i \in 1..Len(text) : text[i] \in Printable /\ text[i] # 255
  BY <1>1 DEF Valid
<1>3. \A i \in 1..Len(text) : text[i] \in Text
  BY <1>2 DEF Printable, Text
<1>4. text \in [1..Len(text) -> Text]
  BY <1>1, <1>3
<1> QED
  BY <1>1, <1>4, SeqDef

LEMMA MeaningType ==
    ASSUME NEW lines \in Sayings, NEW n \in 1..Len(lines)
    PROVE  MeaningOf(lines, n) \in Seq(Frames)
<1> DEFINE line == lines[n]
           before == AltOf(lines, n - 1)
           after == AltOf(lines, n)
<1>1. after \in BOOLEAN
  <2>1. n \in 0..Len(lines)
    BY SayingsAre
  <2> QED
    BY <2>1, AltOfType
<1>2. line \in Lines
  BY SayingsAre, ElementOfSeq
<1>3. MeaningOf(lines, n) = Tell(line, before, after)
  BY Zenon DEF MeaningOf
<1>4. CASE IsOurs(line)
  <2> DEFINE d == line.data
             clean == Cleaned(d)
  <2>1. d \in Seq(Byte)
    BY <1>4, OursAre
  <2>2. clean \in Seq(Byte)
    BY <2>1, CleanedIs
  <2>3. Tell(line, before, after) = TellData(clean, before, after)
    BY <1>4, TellOurs
  <2> HIDE DEF clean, before, after, line
  <2>4. TellData(clean, before, after) \in Seq(Frames)
    BY <1>1, <2>2, TellDataType
  <2> QED
    BY <1>3, <2>3, <2>4
<1>5. CASE ~IsOurs(line) /\ line.kind = "title"
  <2>1. line \notin Hellos /\ line \notin Outputs /\ line \notin Others
    BY <1>5 DEF Hellos, Hello, Outputs, Output, Others, Unlinked, WindowClose, Exit
  <2>2. line \in TitleLines
    BY <1>2, <2>1 DEF Lines, Notes
  <2>3. PICK pane \in Panes, text \in Seq(Printable) : line = Title(pane, text)
    BY <2>2 DEF TitleLines
  <2>4. line.data = text /\ line # Unlinked(Window)
    BY <1>5, <2>3 DEF Title, Unlinked
  <2> HIDE DEF line, before, after
  <2>5. CASE line.pane = Pane /\ Valid(line.data)
    <3>1. text \in Seq(Text)
      BY <2>4, <2>5, TitleIsText
    <3>2. [type |-> "pane_title", title |-> text] \in Frames
      BY <3>1 DEF Frames
    <3>3. Tell(line, before, after) = <<[type |-> "pane_title", title |-> text]>>
      BY <1>5, <2>4, <2>5 DEF Tell
    <3> QED
      BY <1>3, <3>2, <3>3
  <2>6. CASE ~(line.pane = Pane /\ Valid(line.data))
    <3>1. Tell(line, before, after) = <<>>
      BY <1>5, <2>4, <2>6 DEF Tell
    <3> QED
      BY <1>3, <3>1
  <2> QED
    BY <2>5, <2>6
<1>6. CASE ~IsOurs(line) /\ line.kind # "title"
  <2> HIDE DEF line, before, after
  <2>1. Tell(line, before, after) = <<>> \/ Tell(line, before, after) = <<[type |-> "pane_exit"]>>
    <3>1. CASE line = Unlinked(Window)
      BY <1>6, <3>1 DEF Tell
    <3>2. CASE line # Unlinked(Window)
      BY <1>6, <3>2 DEF Tell
    <3> QED
      BY <3>1, <3>2
  <2>2. [type |-> "pane_exit"] \in Frames
    BY DEF Frames
  <2>3. <<>> \in Seq(Frames) /\ <<[type |-> "pane_exit"]>> \in Seq(Frames)
    BY <2>2
  <2> QED
    BY <1>3, <2>1, <2>3, Zenon
<1> QED
  BY <1>4, <1>5, <1>6

LEMMA MeaningsType ==
    ASSUME NEW lines \in Sayings, NEW p \in 0..Len(lines)
    PROVE  /\ [n \in 1..p |-> MeaningOf(lines, n)] \in Seq(Seq(Frames))
           /\ Len([n \in 1..p |-> MeaningOf(lines, n)]) = p
           /\ \A n \in 1..p : [i \in 1..p |-> MeaningOf(lines, i)][n] = MeaningOf(lines, n)
<1> DEFINE m == [n \in 1..p |-> MeaningOf(lines, n)]
<1>1. p \in Nat /\ Len(lines) \in Nat
  BY SayingsAre
<1>2. \A n \in 1..p : MeaningOf(lines, n) \in Seq(Frames)
  BY <1>1, MeaningType
<1>3. m \in [1..p -> Seq(Frames)]
  BY <1>2
<1>4. DOMAIN m = 1..p
  OBVIOUS
<1>5. \A n \in 1..p : m[n] = MeaningOf(lines, n)
  BY Zenon
<1> HIDE DEF m
<1>6. m \in Seq(Seq(Frames))
  BY <1>1, <1>3, SeqDef
<1>7. Len(m) = p
  BY <1>1, <1>4, <1>6, LenProperties
<1> QED
  BY <1>5, <1>6, <1>7 DEF m

LEMMA HearingType ==
    ASSUME NEW lines \in Sayings, NEW p \in 0..Len(lines)
    PROVE  Hearing(lines, p) \in Seq(Frames)
<1> DEFINE m == [n \in 1..p |-> MeaningOf(lines, n)]
<1>1. m \in Seq(Seq(Frames))
  BY MeaningsType
<1> HIDE DEF m
<1>2. FlattenSeq(m) \in Seq(Frames)
  BY <1>1, FlattenType
<1> QED
  BY <1>2 DEF Hearing, m

\* One line more is heard, and a line more that tmux says changes nothing of what
\* was said before.
LEMMA HearingStep ==
    ASSUME NEW lines \in Sayings, NEW p \in 0..Len(lines), p + 1 \in 1..Len(lines)
    PROVE  Glued(Hearing(lines, p + 1), Hearing(lines, p), MeaningOf(lines, p + 1))
<1> DEFINE m == [n \in 1..p |-> MeaningOf(lines, n)]
           q == [n \in 1..p + 1 |-> MeaningOf(lines, n)]
           x == MeaningOf(lines, p + 1)
<1>1. p \in Nat /\ p + 1 \in 0..Len(lines)
  BY SayingsAre
<1>2. m \in Seq(Seq(Frames)) /\ Len(m) = p /\ \A n \in 1..p : m[n] = MeaningOf(lines, n)
  BY MeaningsType
<1>3. q \in Seq(Seq(Frames)) /\ Len(q) = p + 1 /\ \A n \in 1..p + 1 : q[n] = MeaningOf(lines, n)
  BY <1>1, MeaningsType
<1>4. x \in Seq(Frames)
  BY MeaningType
<1> HIDE DEF m, q
<1>5. q = Append(m, x)
  <2>1. \A n \in 1..p : q[n] = m[n]
    BY <1>1, <1>2, <1>3
  <2>2. q[p + 1] = x
    BY <1>1, <1>3
  <2> HIDE DEF x
  <2>3. m \in Seq(Seq(Frames)) /\ q \in Seq(Seq(Frames)) /\ Len(q) = Len(m) + 1
        /\ q[Len(m) + 1] = x /\ \A n \in 1..Len(m) : q[n] = m[n]
    BY <1>2, <1>3, <2>1, <2>2
  <2>4. m \in Seq(Seq(Frames)) /\ q \in Seq(Seq(Frames))
    BY <2>3
  <2> QED
    BY <1>4, <2>3, <2>4, ExtendedByOne
<1> HIDE DEF x
<1>6. FlattenSeq(Append(m, x)) = FlattenSeq(m) \o x
  BY <1>2, <1>4, FlattenAppend
<1>7. Hearing(lines, p + 1) = FlattenSeq(q) /\ Hearing(lines, p) = FlattenSeq(m)
  BY DEF Hearing, m, q
<1> QED
  BY <1>5, <1>6, <1>7, Zenon DEF Glued, x

LEMMA HearingStays ==
    ASSUME NEW lines \in Sayings, NEW line \in Notes, NEW q, q = Append(lines, line),
           NEW p \in 0..Len(lines)
    PROVE  Hearing(q, p) = Hearing(lines, p)
<1>1. lines \in Seq(Lines) /\ Len(lines) \in Nat /\ line \in Lines
  BY SayingsAre DEF Lines
<1>2. \A k \in 1..Len(lines) : q[k] = lines[k]
  BY <1>1, AppendProperties
<1>3. ASSUME NEW n \in 1..p PROVE MeaningOf(q, n) = MeaningOf(lines, n)
  <2>1. n \in 0..Len(lines) /\ n - 1 \in 0..Len(lines) /\ n \in 1..Len(lines)
    BY <1>1
  <2>2. AltOf(q, n) = AltOf(lines, n) /\ AltOf(q, n - 1) = AltOf(lines, n - 1)
    BY <2>1, AltOfStays
  <2>3. q[n] = lines[n]
    BY <1>2, <2>1
  <2> QED
    BY <2>2, <2>3, Zenon DEF MeaningOf
<1>4. [n \in 1..p |-> MeaningOf(q, n)] = [n \in 1..p |-> MeaningOf(lines, n)]
  BY <1>3
<1> QED
  BY <1>4, Zenon DEF Hearing

-----------------------------------------------------------------------------
(* The data of the pane, line by line *)

\* Ours of ControlStream, for any lines.
PieceOf(line) == IF IsOurs(line) THEN <<line.data>> ELSE <<>>
OursOf(lines) == FlattenSeq([k \in DOMAIN lines |-> PieceOf(lines[k])])

LEMMA PieceType ==
    ASSUME NEW lines \in Sayings, NEW k \in 1..Len(lines)
    PROVE  PieceOf(lines[k]) \in Seq(Seq(Byte))
<1>1. CASE IsOurs(lines[k])
  <2>1. lines[k].data \in Seq(Byte)
    BY <1>1, OursAre
  <2> DEFINE d == lines[k].data
  <2>2. PieceOf(lines[k]) = <<d>>
    BY <1>1, Zenon DEF PieceOf
  <2> HIDE DEF d
  <2>3. d \in Seq(Byte)
    BY <2>1 DEF d
  <2>4. <<d>> \in Seq(Seq(Byte))
    BY <2>3
  <2> QED
    BY <2>2, <2>4
<1>2. CASE ~IsOurs(lines[k])
  <2>1. PieceOf(lines[k]) = <<>>
    BY <1>2, Zenon DEF PieceOf
  <2> QED
    BY <2>1
<1> QED
  BY <1>1, <1>2

LEMMA PiecesType ==
    ASSUME NEW lines \in Sayings, NEW m, m = [k \in DOMAIN lines |-> PieceOf(lines[k])]
    PROVE  /\ m \in Seq(Seq(Seq(Byte))) /\ Len(m) = Len(lines)
           /\ \A k \in 1..Len(lines) : m[k] = PieceOf(lines[k])
           /\ OursOf(lines) = FlattenSeq(m) /\ OursOf(lines) \in Seq(Seq(Byte))
<1> DEFINE n == Len(lines)
<1>1. n \in Nat /\ DOMAIN lines = 1..n
  BY SayingsAre, LenProperties
<1>2. OursOf(lines) = FlattenSeq(m)
  BY Zenon DEF OursOf
<1>3. \A k \in 1..n : m[k] = PieceOf(lines[k])
  BY <1>1, Zenon
<1>4. \A k \in 1..n : PieceOf(lines[k]) \in Seq(Seq(Byte))
  BY PieceType
<1>5. m \in [1..n -> Seq(Seq(Byte))] /\ DOMAIN m = 1..n
  BY <1>1, <1>4
<1>6. m \in Seq(Seq(Seq(Byte)))
  BY <1>1, <1>5, SeqDef
<1>7. Len(m) = n
  BY <1>1, <1>5, <1>6, LenProperties
<1>8. FlattenSeq(m) \in Seq(Seq(Byte))
  BY <1>6, FlattenType
<1> QED
  BY <1>2, <1>3, <1>6, <1>7, <1>8

LEMMA OursAppend ==
    ASSUME NEW lines \in Sayings, NEW line \in Notes, NEW q \in Sayings, q = Append(lines, line)
    PROVE  Glued(OursOf(q), OursOf(lines), PieceOf(line))
<1> DEFINE m == [k \in DOMAIN lines |-> PieceOf(lines[k])]
           mm == [k \in DOMAIN q |-> PieceOf(q[k])]
           n == Len(lines)
           x == PieceOf(line)
<1>1. lines \in Seq(Lines) /\ n \in Nat /\ line \in Lines
  BY SayingsAre DEF Lines
<1>2. Len(q) = n + 1 /\ (\A k \in 1..n : q[k] = lines[k]) /\ q[n + 1] = line
  BY <1>1, AppendProperties
<1>3. /\ m \in Seq(Seq(Seq(Byte))) /\ Len(m) = n
      /\ \A k \in 1..n : m[k] = PieceOf(lines[k])
      /\ OursOf(lines) = FlattenSeq(m)
  BY PiecesType
<1>4. /\ mm \in Seq(Seq(Seq(Byte))) /\ Len(mm) = Len(q)
      /\ \A k \in 1..Len(q) : mm[k] = PieceOf(q[k])
      /\ OursOf(q) = FlattenSeq(mm)
  BY PiecesType
<1> HIDE DEF m, mm, n
<1>5. \A k \in 1..n : mm[k] = m[k]
  BY <1>1, <1>2, <1>3, <1>4
<1>6. mm[n + 1] = x /\ x \in Seq(Seq(Byte))
  <2>1. n + 1 \in 1..Len(q)
    BY <1>1, <1>2
  <2>2. PieceOf(q[n + 1]) \in Seq(Seq(Byte))
    BY <2>1, PieceType
  <2> QED
    BY <1>2, <1>4, <2>1, <2>2
<1> HIDE DEF x
<1>7. mm = Append(m, x)
  <2>1. m \in Seq(Seq(Seq(Byte))) /\ mm \in Seq(Seq(Seq(Byte)))
    BY <1>3, <1>4
  <2>2. /\ Len(mm) = Len(m) + 1 /\ mm[Len(m) + 1] = x
        /\ \A k \in 1..Len(m) : mm[k] = m[k]
    BY <1>2, <1>3, <1>4, <1>5, <1>6
  <2> QED
    BY <1>6, <2>1, <2>2, ExtendedByOne
<1>8. FlattenSeq(Append(m, x)) = FlattenSeq(m) \o x
  BY <1>3, <1>6, FlattenAppend
<1> QED
  BY <1>3, <1>4, <1>7, <1>8, Zenon DEF Glued, x

-----------------------------------------------------------------------------
(* Switches that tmux cuts in two *)

\* SwitchCut of ControlStream, for any pieces of data.
CutIn(o) == \E k \in DOMAIN o : Straddles(FlattenSeq(SubSeq(o, 1, k)), FlattenSeq(o))

\* A switch that is cut stays cut, so as long as none is cut none was.
LEMMA StraddlesLess ==
    ASSUME NEW x, NEW u \in Seq(Byte), NEW v \in Seq(Byte), NEW t, Glued(t, u, v),
           Straddles(x, u)
    PROVE  Straddles(x, t)
<1>1. t = u \o v
  BY Zenon DEF Glued
<1>2. t \in Seq(Byte) /\ Len(u) \in Nat /\ Len(v) \in Nat /\ Len(t) = Len(u) + Len(v)
  BY <1>1, Joined
<1>3. PICK w \in Words : \E i \in DOMAIN u :
        i <= Len(x) /\ Len(x) < i + Len(w) - 1 /\ At(u, i, w)
  BY DEF Straddles
<1>4. PICK i \in DOMAIN u : i <= Len(x) /\ Len(x) < i + Len(w) - 1 /\ At(u, i, w)
  BY <1>3
<1>5. DOMAIN u = 1..Len(u) /\ DOMAIN t = 1..Len(t)
  BY <1>2, LenProperties
<1>6. i \in Nat \ {0} /\ i \in DOMAIN t
  BY <1>2, <1>4, <1>5
<1>7. w \in Seq(Byte)
  BY WordSeq
<1>8. i + Len(w) - 1 <= Len(u)
  BY <1>4, Zenon DEF At
<1>9. At(t, i, w) <=> At(u, i, w)
  BY <1>1, <1>6, <1>7, <1>8, AtLeft
<1> QED
  BY <1>4, <1>6, <1>9 DEF Straddles

LEMMA CutAppend ==
    ASSUME NEW o \in Seq(Seq(Byte)), NEW data \in Seq(Byte), NEW q, q = Append(o, data),
           ~CutIn(q)
    PROVE  /\ ~CutIn(o) /\ ~Straddles(FlattenSeq(o), FlattenSeq(q))
           /\ Glued(FlattenSeq(q), FlattenSeq(o), data)
<1> DEFINE u == FlattenSeq(o)
           t == FlattenSeq(q)
           n == Len(o)
<1>1. u \in Seq(Byte) /\ n \in Nat /\ DOMAIN o = 1..n
  BY FlattenType, LenProperties
<1>2. Glued(t, u, data)
  BY FlattenAppend, Zenon DEF Glued
<1>3. Len(q) = n + 1 /\ (\A k \in 1..n : q[k] = o[k]) /\ q \in Seq(Seq(Byte))
  BY AppendProperties
<1>4. DOMAIN q = 1..n + 1
  BY <1>1, <1>3, LenProperties
<1>5. ASSUME NEW k \in 1..n PROVE SubSeq(q, 1, k) = SubSeq(o, 1, k)
  <2>1. \A i \in 1..k : q[i] = o[i]
    BY <1>1, <1>3
  <2>2. k \in 1..Len(q) /\ k \in Nat
    BY <1>1, <1>3
  <2>3. SubSeq(q, 1, k) = [i \in 1..k |-> q[i]]
    BY <1>3, <2>2
  <2>4. SubSeq(o, 1, k) = [i \in 1..k |-> o[i]]
    BY <1>1, <2>2
  <2> QED
    BY <2>1, <2>3, <2>4
<1> HIDE DEF u, t, n
<1>6. ASSUME CutIn(o) PROVE FALSE
  <2>1. PICK k \in DOMAIN o : Straddles(FlattenSeq(SubSeq(o, 1, k)), u)
    BY <1>6 DEF CutIn, u
  <2> DEFINE x == FlattenSeq(SubSeq(o, 1, k))
  <2>2. Straddles(x, t)
    <3> HIDE DEF x
    <3>1. Straddles(x, u)
      BY <2>1 DEF x
    <3> QED
      BY <1>1, <1>2, <3>1, StraddlesLess
  <2>3. k \in DOMAIN q /\ SubSeq(q, 1, k) = SubSeq(o, 1, k)
    BY <1>1, <1>4, <1>5
  <2> QED
    BY <2>2, <2>3, Zenon DEF CutIn, t
<1>7. ASSUME Straddles(u, t) PROVE FALSE
  <2>1. CASE n = 0
    <3>1. o = <<>>
      BY <2>1 DEF n
    <3>2. u = <<>>
      BY <3>1, FlattenEmpty DEF u
    <3>3. Len(u) = 0
      BY <3>2
    <3>4. t \in Seq(Byte)
      BY <1>3, FlattenType DEF t
    <3>5. PICK w \in Words : \E i \in DOMAIN t :
            i <= Len(u) /\ Len(u) < i + Len(w) - 1 /\ At(t, i, w)
      BY <1>7 DEF Straddles
    <3>6. PICK i \in DOMAIN t : i <= Len(u)
      BY <3>5
    <3>7. DOMAIN t = 1..Len(t) /\ Len(t) \in Nat
      BY <3>4, LenProperties
    <3> QED
      BY <3>3, <3>6, <3>7
  <2>2. CASE n # 0
    <3>1. n \in 1..n /\ n \in DOMAIN q
      BY <1>1, <1>4, <2>2
    <3>2. SubSeq(q, 1, n) = SubSeq(o, 1, n)
      BY <1>5, <3>1
    <3>3. SubSeq(o, 1, n) = o
      BY <1>1 DEF n
    <3>4. FlattenSeq(SubSeq(q, 1, n)) = u
      BY <3>2, <3>3 DEF u
    <3> QED
      BY <1>7, <3>1, <3>4, Zenon DEF CutIn, t
  <2> QED
    BY <2>1, <2>2
<1> QED
  BY <1>2, <1>6, <1>7 DEF u, t

-----------------------------------------------------------------------------
(* The screen that the lines have chosen is the one the application chose. *)

AltTold(lines) ==
  ~CutIn(OursOf(lines)) =>
     AltOf(lines, Len(lines)) = AltIn(FlattenSeq(OursOf(lines)), lines[1].alt)

\* It holds of the greeting, and a line more keeps it.
LEMMA AltToldInit ==
    ASSUME NEW dcs \in BOOLEAN, NEW alt \in BOOLEAN, NEW lines, lines = <<Hello(dcs, alt)>>
    PROVE  lines \in Sayings /\ lines[1].alt = alt /\ AltOf(lines, 0) = alt /\ AltTold(lines)
<1> DEFINE h == Hello(dcs, alt)
<1>1. h \in Hellos /\ h.alt = alt /\ h.kind = "hello"
  BY DEF Hellos, Hello
<1> HIDE DEF h
<1>2. lines = <<h>>
  BY DEF h
<1>3. Len(lines) = 1 /\ lines[1] = h /\ lines # <<>> /\ DOMAIN lines = 1..1
  BY <1>2
<1>4. lines \in Seq(Lines)
  BY <1>1, <1>2 DEF Lines
<1>5. lines \in Sayings
  <2>1. \A k \in 2..Len(lines) : lines[k] \in Notes
    BY <1>3
  <2> QED
    BY <1>1, <1>3, <1>4, <2>1 DEF Sayings
<1>6. ~IsOurs(h)
  BY <1>1 DEF IsOurs
<1>7. Turning(lines, 0) = {} /\ Turning(lines, 1) = {}
  <2>1. \A k \in 1..1 : lines[k] = h
    BY <1>3
  <2>2. \A k \in 1..1 : ~IsOurs(lines[k])
    BY <1>6, <2>1
  <2> QED
    BY <2>2 DEF Turning
<1>8. AltOf(lines, 0) = alt /\ AltOf(lines, 1) = alt
  BY <1>1, <1>3, <1>7 DEF AltOf
<1>9. OursOf(lines) = <<>>
  <2> DEFINE m == [k \in DOMAIN lines |-> PieceOf(lines[k])]
  <2>1. PieceOf(lines[1]) = <<>>
    BY <1>3, <1>6, Zenon DEF PieceOf
  <2>2. m \in Seq(Seq(Seq(Byte))) /\ Len(m) = 1 /\ m[1] = <<>> /\ OursOf(lines) = FlattenSeq(m)
    <3>1. /\ m \in Seq(Seq(Seq(Byte))) /\ Len(m) = Len(lines)
          /\ \A k \in 1..Len(lines) : m[k] = PieceOf(lines[k])
          /\ OursOf(lines) = FlattenSeq(m)
      BY <1>5, PiecesType
    <3> HIDE DEF m
    <3> QED
      BY <1>3, <2>1, <3>1
  <2> HIDE DEF m
  <2>3. m = Append(<<>>, <<>>)
    BY <2>2
  <2>4. FlattenSeq(Append(<<>>, <<>>)) = FlattenSeq(<<>>) \o <<>>
    <3>1. <<>> \in Seq(Seq(Seq(Byte))) /\ <<>> \in Seq(Seq(Byte))
      OBVIOUS
    <3> QED
      BY <3>1, FlattenAppend
  <2>5. <<>> \o <<>> = <<>>
    OBVIOUS
  <2> QED
    BY <2>2, <2>3, <2>4, <2>5, FlattenEmpty
<1>10. Switches(<<>>) = {}
  BY DEF Switches
<1>11. AltIn(FlattenSeq(OursOf(lines)), alt) = alt
  BY <1>9, <1>10, FlattenEmpty, Zenon DEF AltIn
<1> QED
  BY <1>1, <1>3, <1>5, <1>8, <1>11, Zenon DEF AltTold

LEMMA AltToldStep ==
    ASSUME NEW lines \in Sayings, NEW line \in Notes, NEW q \in Sayings, q = Append(lines, line),
           AltTold(lines)
    PROVE  AltTold(q)
<1> DEFINE n == Len(lines)
           o == OursOf(lines)
           u == FlattenSeq(o)
           a == lines[1].alt
<1>1. /\ lines \in Seq(Lines) /\ n \in Nat /\ n >= 1 /\ line \in Lines
      /\ a \in BOOLEAN
  BY SayingsAre DEF Lines
<1>2. Len(q) = n + 1 /\ q[1] = lines[1] /\ q[n + 1] = line
  BY <1>1, AppendProperties
<1>3. AltOf(q, n + 1) = Turn(line, AltOf(lines, n))
  <2> DEFINE k == n + 1
  <2>1. k \in 1..Len(q) /\ k - 1 = n /\ n \in 0..Len(lines)
    BY <1>1, <1>2
  <2> HIDE DEF k, n
  <2>2. AltOf(q, k) = Turn(q[k], AltOf(q, k - 1))
    BY <2>1, AltOfStep
  <2>3. AltOf(q, n) = AltOf(lines, n)
    BY <2>1, AltOfStays
  <2>4. q[k] = line
    BY <1>2 DEF k
  <2>5. AltOf(q, k) = Turn(line, AltOf(lines, n))
    BY <2>1, <2>2, <2>3, <2>4
  <2> QED
    BY <2>5 DEF k
<1>4. Glued(OursOf(q), o, PieceOf(line))
  BY OursAppend
<1>5. o \in Seq(Seq(Byte))
  BY PiecesType
<1>6. q[1].alt = a
  BY <1>2
<1>7. CASE ~IsOurs(line)
  <2>1. PieceOf(line) = <<>>
    BY <1>7, Zenon DEF PieceOf
  <2>2. o \o <<>> = o
    BY <1>5
  <2>3. OursOf(q) = o
    BY <1>4, <2>1, <2>2, Zenon DEF Glued
  <2>4. AltOf(q, n + 1) = AltOf(lines, n)
    BY <1>3, <1>7, Zenon DEF Turn
  <2> QED
    BY <1>2, <1>6, <2>3, <2>4, Zenon DEF AltTold
<1>8. CASE IsOurs(line)
  <2> DEFINE data == line.data
  <2>1. data \in Seq(Byte)
    <3>1. n + 1 \in 1..Len(q)
      BY <1>1, <1>2
    <3>2. q[n + 1].data \in Seq(Byte)
      BY <1>2, <1>8, <3>1, OursAre
    <3> QED
      BY <1>2, <3>2
  <2>2. PieceOf(line) = <<data>>
    BY <1>8, Zenon DEF PieceOf
  <2>3. AltOf(q, n + 1) = AltIn(data, AltOf(lines, n))
    BY <1>3, <1>8, Zenon DEF Turn
  <2> HIDE DEF data, o, n, a
  <2>4. OursOf(q) = Append(o, data)
    <3>1. o \o <<data>> = Append(o, data)
      BY <1>5, <2>1
    <3> QED
      BY <1>4, <2>2, <3>1, Zenon DEF Glued
  <2>5. SUFFICES ASSUME ~CutIn(OursOf(q))
                 PROVE  AltOf(q, n + 1) = AltIn(FlattenSeq(OursOf(q)), a)
    BY <1>2, <1>6, <2>5, Zenon DEF AltTold
  <2> DEFINE t == FlattenSeq(OursOf(q))
  <2>6. ~CutIn(o) /\ ~Straddles(u, t) /\ Glued(t, u, data)
    BY <1>5, <2>1, <2>4, <2>5, CutAppend
  <2>7. u \in Seq(Byte)
    BY <1>5, FlattenType
  <2>8. t = u \o data
    BY <2>6, Zenon DEF Glued
  <2> HIDE DEF t, u
  <2>9. AltIn(t, a) = AltIn(data, AltIn(u, a))
    BY <1>1, <2>1, <2>6, <2>7, <2>8, AltJoin
  <2>10. AltOf(lines, n) = AltIn(u, a)
    BY <2>6, Zenon DEF AltTold, n, u, o, a
  <2> QED
    BY <2>3, <2>9, <2>10 DEF t
<1> QED
  BY <1>7, <1>8

-----------------------------------------------------------------------------
(* The state of the stream: what is under way, what has been heard *)

\* What is under way is the rest of the lines, what was heard is what the p lines
\* that have passed mean, and the reader knows the screen they leave.
Sound(lines, pipes, buf, stripped, alt, out) ==
  \E p \in 0..Len(lines), d \in BOOLEAN :
    Framed(lines, d, p, buf, pipes, stripped) /\ out = Hearing(lines, p) /\ alt = AltOf(lines, p)

LEMMA HearingNone ==
    ASSUME NEW lines \in Sayings
    PROVE  Hearing(lines, 0) = <<>>
<1> DEFINE m == [n \in 1..0 |-> MeaningOf(lines, n)]
<1>1. 0 \in 0..Len(lines)
  BY SayingsAre
<1>2. m \in Seq(Seq(Frames)) /\ Len(m) = 0
  BY <1>1, MeaningsType
<1>3. Hearing(lines, 0) = FlattenSeq(m)
  BY Zenon DEF Hearing
<1> HIDE DEF m
<1>4. m = <<>>
  BY <1>2
<1> QED
  BY <1>3, <1>4, FlattenEmpty

\* Sound holds at first, and tmux, a read and a line taken keep it.
LEMMA SoundInit ==
    ASSUME NEW dcs \in BOOLEAN, NEW alt \in BOOLEAN, NEW lines, lines = <<Hello(dcs, alt)>>
    PROVE  /\ Wire(Hello(dcs, alt)) \in Seq(Nat)
           /\ Sound(lines, Wire(Hello(dcs, alt)), <<>>, FALSE, alt, <<>>)
<1> DEFINE w == Wire(Hello(dcs, alt))
           m == WiresOf(lines, dcs)
<1>1. lines \in Sayings /\ lines[1].alt = alt /\ AltOf(lines, 0) = alt
  BY AltToldInit
<1>2. Len(lines) = 1
  OBVIOUS
<1>3. w \in Seq(Nat)
  <2>1. CASE dcs = TRUE
    BY <2>1, WireHello
  <2>2. CASE dcs = FALSE
    BY <2>2, WireHello
  <2> QED
    BY <2>1, <2>2
<1>4. Wired(lines, dcs, m)
  BY <1>1, WiresAre
<1>5. WireAt(lines, dcs, 1) = w
  BY <1>1, Zenon DEF WireAt
<1> HIDE DEF m, w
<1>6. m \in Seq(Seq(Nat)) /\ Len(m) = 1 /\ m[1] = w
  BY <1>2, <1>4, <1>5 DEF Wired
<1>7. Rest(m, 1) = w
  BY <1>3, <1>6, RestEnds, FlattenOne
<1>8. Glued(Rest(m, 0 + 1), <<>>, w)
  <2>1. <<>> \o w = w /\ 0 + 1 = 1
    BY <1>3
  <2> QED
    BY <1>7, <2>1, Zenon DEF Glued
<1>9. Framed(lines, dcs, 0, <<>>, w, FALSE)
  <2>1. Len(<<>>) < 2
    OBVIOUS
  <2> QED
    BY <1>8, <2>1, Zenon DEF Framed, m
<1>10. 0 \in 0..Len(lines)
  BY <1>2
<1>11. Hearing(lines, 0) = <<>>
  BY <1>1, HearingNone
<1> QED
  BY <1>1, <1>3, <1>9, <1>10, <1>11, Zenon DEF Sound, w

SaidOn(q, pp, lines, pipes, line) == q = Append(lines, line) /\ pp = pipes \o Wire(line)

LEMMA SoundSay ==
    ASSUME NEW lines \in Sayings, NEW pipes \in Seq(Nat), NEW buf \in Seq(Nat),
           NEW stripped \in BOOLEAN, NEW alt \in BOOLEAN, NEW out,
           Sound(lines, pipes, buf, stripped, alt, out),
           NEW line \in Notes, NEW q, NEW pp, SaidOn(q, pp, lines, pipes, line)
    PROVE  q \in Sayings /\ pp \in Seq(Nat) /\ Sound(q, pp, buf, stripped, alt, out)
<1>1. PICK p \in 0..Len(lines), d \in BOOLEAN :
        Framed(lines, d, p, buf, pipes, stripped) /\ out = Hearing(lines, p) /\ alt = AltOf(lines, p)
  BY DEF Sound
<1>2. q \in Sayings /\ pp \in Seq(Nat) /\ Framed(q, d, p, buf, pp, stripped)
  <2>1. /\ Append(lines, line) \in Sayings
        /\ pipes \o Wire(line) \in Seq(Nat)
        /\ Framed(Append(lines, line), d, p, buf, pipes \o Wire(line), stripped)
    BY <1>1, FramedSay
  <2>2. q = Append(lines, line) /\ pp = pipes \o Wire(line)
    BY Zenon DEF SaidOn
  <2> QED
    BY <2>1, <2>2, Zenon
<1>3. Hearing(q, p) = Hearing(lines, p)
  BY HearingStays DEF SaidOn
<1>4. AltOf(q, p) = AltOf(lines, p)
  BY AltOfStays DEF SaidOn
<1>5. p \in 0..Len(q)
  <2>1. lines \in Seq(Lines) /\ Len(lines) \in Nat /\ line \in Lines
    BY SayingsAre DEF Lines
  <2>2. Len(q) = Len(lines) + 1
    BY <2>1, AppendProperties DEF SaidOn
  <2> QED
    BY <2>1, <2>2
<1> QED
  BY <1>1, <1>2, <1>3, <1>4, <1>5, Zenon DEF Sound

LEMMA SoundRead ==
    ASSUME NEW lines \in Sayings, NEW pipes \in Seq(Nat), NEW buf \in Seq(Nat),
           NEW stripped \in BOOLEAN, NEW alt \in BOOLEAN, NEW out,
           Sound(lines, pipes, buf, stripped, alt, out),
           NEW chunk \in Seq(Nat), NEW rest \in Seq(Nat), Glued(pipes, chunk, rest),
           NEW b, b = CleanOf(buf \o chunk, stripped),
           NEW s, s = (stripped \/ Position(b, BEGIN) > 0)
    PROVE  b \in Seq(Nat) /\ Sound(lines, rest, b, s, alt, out)
<1>1. PICK p \in 0..Len(lines), d \in BOOLEAN :
        Framed(lines, d, p, buf, pipes, stripped) /\ out = Hearing(lines, p) /\ alt = AltOf(lines, p)
  BY DEF Sound
<1>2. Reframed(lines, p, buf \o chunk, rest, stripped)
  BY <1>1, FramedRead
<1>3. b \in Seq(Nat) /\ \E dd \in BOOLEAN : Framed(lines, dd, p, b, rest, s)
  BY <1>2, Zenon DEF Reframed
<1> QED
  BY <1>1, <1>3, Zenon DEF Sound

-----------------------------------------------------------------------------
(* One line taken off the buffer *)

LEMMA HeardTold ==
    ASSUME NEW lines \in Sayings, NEW k \in 1..Len(lines), NEW alt \in BOOLEAN
    PROVE  /\ Told(Heard(lines, k), alt)
           /\ Turn(Heard(lines, k), alt) = Turn(lines[k], alt)
           /\ \A x, y : Tell(Heard(lines, k), x, y) = Tell(lines[k], x, y)
<1>1. CASE k = 1
  <2>1. lines[1] \in Hellos
    BY SayingsAre
  <2>2. PICK dcs \in BOOLEAN, a \in BOOLEAN : lines[1] = Hello(dcs, a)
    BY <2>1 DEF Hellos
  <2>3. Heard(lines, k) = Hello(FALSE, a)
    BY <1>1, <2>2 DEF Heard, Bared, Hello
  <2> DEFINE h == Hello(FALSE, a)
             g == Hello(dcs, a)
  <2>4. h.kind = "hello" /\ g.kind = "hello" /\ Unlinked(Window).kind = "unlinked"
    BY DEF Hello, Unlinked
  <2>5. Told(h, alt)
    BY ToldHello
  <2> HIDE DEF h, g
  <2>6. ~IsOurs(h) /\ ~IsOurs(g)
    BY <2>4 DEF IsOurs
  <2>7. h.kind # "title" /\ g.kind # "title" /\ h # Unlinked(Window) /\ g # Unlinked(Window)
    BY <2>4
  <2>8. ASSUME NEW x, NEW y PROVE Tell(h, x, y) = <<>> /\ Tell(g, x, y) = <<>>
    BY <2>6, <2>7 DEF Tell
  <2>9. Turn(h, alt) = alt /\ Turn(g, alt) = alt
    BY <2>6, Zenon DEF Turn
  <2>10. Heard(lines, k) = h /\ lines[k] = g
    BY <1>1, <2>2, <2>3 DEF h, g
  <2> QED
    BY <2>5, <2>8, <2>9, <2>10, Zenon
<1>2. CASE k # 1
  <2>1. k \in 2..Len(lines)
    BY <1>2, SayingsAre
  <2>2. lines[k] \in Notes
    BY <2>1, SayingsAre
  <2>3. Heard(lines, k) = lines[k]
    BY <1>2, Zenon DEF Heard
  <2>4. Told(lines[k], alt)
    BY <2>2, ToldNotes
  <2> QED
    BY <2>3, <2>4, Zenon
<1> QED
  BY <1>1, <1>2

SoundAfter(lines, pipes, tail, stripped, alt, out, after, event) ==
  /\ tail \in Seq(Nat) /\ after \in BOOLEAN
  /\ event.kind # "Output" => after = alt
  /\ Sound(lines, pipes, tail, stripped, after, out \o MessagesOf(event, alt))

LEMMA SoundNext ==
    ASSUME NEW lines \in Sayings, NEW pipes \in Seq(Nat), NEW buf \in Seq(Nat),
           NEW stripped \in BOOLEAN, NEW alt \in BOOLEAN, NEW out,
           Sound(lines, pipes, buf, stripped, alt, out),
           NEW e, e = find_crlf(buf), e > 0,
           NEW line, line = SubSeq(buf, 1, e - 1),
           NEW after, after = AltAfter(line, alt),
           NEW event, event = EventOf(line, after)
    PROVE  SoundAfter(lines, pipes, SubSeq(buf, e + 2, Len(buf)), stripped, alt, out, after, event)
<1> DEFINE tail == SubSeq(buf, e + 2, Len(buf))
<1>1. PICK p \in 0..Len(lines), d \in BOOLEAN :
        Framed(lines, d, p, buf, pipes, stripped) /\ out = Hearing(lines, p) /\ alt = AltOf(lines, p)
  BY DEF Sound
<1>2. /\ p + 1 \in 1..Len(lines) /\ line = Body(Heard(lines, p + 1))
      /\ tail \in Seq(Nat)
      /\ Framed(lines, FALSE, p + 1, tail, pipes, stripped)
  <2>1. Took(lines, p, buf, pipes, stripped, e)
    BY <1>1, FramedNext
  <2> QED
    BY <2>1, Zenon DEF Took
<1> HIDE DEF tail
<1> DEFINE k == p + 1
           h == Heard(lines, k)
<1>3. k \in 1..Len(lines) /\ k \in 0..Len(lines) /\ k - 1 = p
  BY <1>2
<1> HIDE DEF k
<1>4. /\ Told(h, alt) /\ Turn(h, alt) = Turn(lines[k], alt)
      /\ \A x, y : Tell(h, x, y) = Tell(lines[k], x, y)
  BY <1>3, HeardTold
<1> HIDE DEF h
<1>5. line = Body(h)
  BY <1>2, Zenon DEF h, k
<1>6. after = Turn(h, alt)
  BY <1>4, <1>5, Zenon DEF Told
<1>7. event = EventOf(Body(h), Turn(h, alt))
  BY <1>5, <1>6, Zenon
<1>8. /\ MessagesOf(event, alt) = Tell(h, alt, after)
      /\ event.kind # "Output" => after = alt
  BY <1>4, <1>6, <1>7, Zenon DEF Told
<1>9. AltOf(lines, k) = Turn(lines[k], AltOf(lines, k - 1))
  BY <1>3, AltOfStep
<1>10. after = AltOf(lines, k)
  BY <1>1, <1>3, <1>4, <1>6, <1>9
<1>11. after \in BOOLEAN
  BY <1>3, <1>10, AltOfType
<1>12. MessagesOf(event, alt) = MeaningOf(lines, k)
  <2>1. MeaningOf(lines, k) = Tell(lines[k], AltOf(lines, k - 1), AltOf(lines, k))
    BY Zenon DEF MeaningOf
  <2>2. MeaningOf(lines, k) = Tell(lines[k], alt, after)
    BY <1>1, <1>3, <1>10, <2>1
  <2> QED
    BY <1>4, <1>8, <2>2, Zenon
<1>13. Glued(Hearing(lines, k), Hearing(lines, p), MeaningOf(lines, k))
  BY <1>2, HearingStep DEF k
<1>14. out \o MessagesOf(event, alt) = Hearing(lines, k)
  BY <1>1, <1>12, <1>13, Zenon DEF Glued
<1>15. Framed(lines, FALSE, k, tail, pipes, stripped)
  BY <1>2 DEF k
<1>16. Sound(lines, pipes, tail, stripped, after, out \o MessagesOf(event, alt))
  BY <1>3, <1>10, <1>14, <1>15, Zenon DEF Sound
<1> QED
  BY <1>2, <1>8, <1>11, <1>16, Zenon DEF SoundAfter, tail

-----------------------------------------------------------------------------
(* The reader *)

Readers == [line_buf : Seq(Nat), dcs_stripped : BOOLEAN, saw_exit : BOOLEAN,
            alternate_screen : BOOLEAN]

\* What feed and next_event leave of a reader.
Fed(reader, after, b) ==
  /\ after \in Readers /\ after.line_buf = b
  /\ after.dcs_stripped = (reader.dcs_stripped \/ Position(b, BEGIN) > 0)
  /\ after.alternate_screen = reader.alternate_screen

LEMMA FeedIs ==
    ASSUME NEW reader \in Readers, NEW chunk \in Seq(Nat), NEW b \in Seq(Nat),
           b = CleanOf(reader.line_buf \o chunk, reader.dcs_stripped)
    PROVE  Fed(reader, feed(reader, chunk), b)
<1> DEFINE s == reader.dcs_stripped \/ Position(b, BEGIN) > 0
           after == feed(reader, chunk)
<1>1. after = [reader EXCEPT !.line_buf = b, !.dcs_stripped = reader.dcs_stripped \/ Position(b, BEGIN) > 0]
  BY Zenon DEF feed, CleanOf
<1>2. s \in BOOLEAN
  OBVIOUS
<1> HIDE DEF s, after
<1>3. after = [reader EXCEPT !.line_buf = b, !.dcs_stripped = s]
  BY <1>1, Zenon DEF s
<1>4. /\ after \in Readers /\ after.line_buf = b /\ after.dcs_stripped = s
      /\ after.alternate_screen = reader.alternate_screen
  BY <1>2, <1>3 DEF Readers
<1> QED
  BY <1>4, Zenon DEF Fed, s, after

\* The lines of the model are lines.
LEMMA NoticesAre == Notices \subseteq Notes
<1>1. Texts \subseteq Seq(Byte)
  BY StreamAssumption DEF Byte
<1>2. ASSUME NEW text \in Titles PROVE text \in Seq(Printable)
  <2>1. text \in Seq(Byte) /\ \A i \in DOMAIN text : text[i] >= 32
    BY <1>1, <1>2 DEF Titles
  <2>2. Len(text) \in Nat /\ DOMAIN text = 1..Len(text) /\ text \in [1..Len(text) -> Byte]
    BY <2>1, LenProperties
  <2>3. \A i \in 1..Len(text) : text[i] \in Printable
    <3>1. ASSUME NEW i \in 1..Len(text) PROVE text[i] \in Printable
      <4>1. text[i] \in Byte /\ text[i] >= 32
        BY <2>1, <2>2
      <4>2. \A x \in Byte : x >= 32 => x \in Printable
        BY DEF Byte, Printable
      <4> QED
        BY <4>1, <4>2
    <3> QED
      BY <3>1
  <2>4. text \in [1..Len(text) -> Printable]
    BY <2>2, <2>3
  <2> QED
    BY <2>2, <2>4, SeqDef
<1>3. ASSUME NEW text \in Texts PROVE Output(OtherPane, text) \in Notes
  <2>1. text \in Seq(Byte)
    BY <1>1
  <2> QED
    BY <2>1 DEF Notes, Outputs, Panes
<1>4. ASSUME NEW pane \in {Pane, OtherPane}, NEW text \in Titles PROVE Title(pane, text) \in Notes
  <2>1. text \in Seq(Printable)
    BY <1>2
  <2> QED
    BY <2>1 DEF Notes, TitleLines, Panes
<1>5. {Unlinked(Window), Unlinked(OtherWindow), WindowClose, Exit} \subseteq Notes
  BY DEF Notes, Others
<1> QED
  BY <1>3, <1>4, <1>5 DEF Notices

-----------------------------------------------------------------------------
(* The inductive invariant *)

\* Nothing is known of r.saw_exit but its type: what an event ends is another
\* matter (TerminalBridge).
Inv ==
  /\ pieces \in 0..MaxPieces /\ pending \in Seq(Byte)
  /\ r \in Readers /\ pipe \in Seq(Nat) /\ said \in Sayings
  /\ last_alt_screen = r.alternate_screen /\ AltTold(said)
  /\ Sound(said, pipe, r.line_buf, r.dcs_stripped, r.alternate_screen, sent)

LEMMA InitInv == Init => Inv
<1>1. SUFFICES ASSUME Init PROVE Inv
  OBVIOUS
<1>2. PICK dcs \in BOOLEAN, alt \in BOOLEAN :
        /\ said = <<Hello(dcs, alt)>>
        /\ pipe = Wire(Hello(dcs, alt))
        /\ r = [line_buf |-> <<>>, dcs_stripped |-> FALSE, saw_exit |-> FALSE,
                alternate_screen |-> alt]
        /\ last_alt_screen = alt
  BY <1>1 DEF Init
<1>3. said \in Sayings /\ AltTold(said)
  BY <1>2, AltToldInit
<1>4. Wire(Hello(dcs, alt)) \in Seq(Nat) /\ Sound(said, Wire(Hello(dcs, alt)), <<>>, FALSE, alt, <<>>)
  BY <1>2, SoundInit
<1>5. /\ r \in Readers /\ r.line_buf = <<>> /\ r.dcs_stripped = FALSE
      /\ r.alternate_screen = alt
  BY <1>2 DEF Readers
<1>6. pieces \in 0..MaxPieces /\ pending \in Seq(Byte) /\ sent = <<>>
  BY <1>1, StreamAssumption DEF Init
<1> QED
  BY <1>2, <1>3, <1>4, <1>5, <1>6, Zenon DEF Inv

\* A line said.
LEMMA SayInv ==
    ASSUME Inv, NEW line \in Notes, Say(line), pieces' \in 0..MaxPieces, pending' \in Seq(Byte),
           UNCHANGED <<r, last_alt_screen, sent>>
    PROVE  Inv'
<1>1. /\ r \in Readers /\ pipe \in Seq(Nat) /\ said \in Sayings /\ AltTold(said)
      /\ r.line_buf \in Seq(Nat) /\ r.dcs_stripped \in BOOLEAN /\ r.alternate_screen \in BOOLEAN
      /\ Sound(said, pipe, r.line_buf, r.dcs_stripped, r.alternate_screen, sent)
  BY DEF Inv, Readers
<1>2. said' = Append(said, line) /\ pipe' = pipe \o Wire(line)
  BY DEF Say
<1>3. /\ said' \in Sayings /\ pipe' \in Seq(Nat)
      /\ Sound(said', pipe', r.line_buf, r.dcs_stripped, r.alternate_screen, sent)
  <2> DEFINE buf == r.line_buf
             alt == r.alternate_screen
  <2>1. /\ buf \in Seq(Nat) /\ alt \in BOOLEAN
        /\ Sound(said, pipe, buf, r.dcs_stripped, alt, sent)
    BY <1>1
  <2> HIDE DEF buf, alt
  <2>2. SaidOn(said', pipe', said, pipe, line)
    BY <1>2, Zenon DEF SaidOn
  <2>3. /\ said' \in Sayings /\ pipe' \in Seq(Nat)
        /\ Sound(said', pipe', buf, r.dcs_stripped, alt, sent)
    <3>1. /\ said \in Sayings /\ pipe \in Seq(Nat) /\ r.dcs_stripped \in BOOLEAN
          /\ buf \in Seq(Nat) /\ alt \in BOOLEAN
      BY <1>1, <2>1
    <3>2. Sound(said, pipe, buf, r.dcs_stripped, alt, sent)
      BY <2>1
    <3> QED
      BY <2>2, <3>1, <3>2, SoundSay
  <2> QED
    BY <2>3 DEF buf, alt
<1>4. AltTold(said')
  BY <1>1, <1>2, <1>3, AltToldStep
<1>5. r' = r /\ last_alt_screen' = last_alt_screen /\ sent' = sent /\ last_alt_screen = r.alternate_screen
  BY DEF Inv
<1> QED
  BY <1>1, <1>3, <1>4, <1>5, Zenon DEF Inv

\* A read: feed keeps what is under way.
LEMMA ReadInv ==
    ASSUME Inv, NEW n \in 1..Len(pipe), Read(n)
    PROVE  Inv'
<1> DEFINE chunk == SubSeq(pipe, 1, n)
           rest == SubSeq(pipe, n + 1, Len(pipe))
           b == CleanOf(r.line_buf \o chunk, r.dcs_stripped)
           s == r.dcs_stripped \/ Position(b, BEGIN) > 0
<1>1. /\ r \in Readers /\ pipe \in Seq(Nat) /\ said \in Sayings /\ AltTold(said)
      /\ r.line_buf \in Seq(Nat) /\ r.dcs_stripped \in BOOLEAN /\ r.alternate_screen \in BOOLEAN
      /\ Sound(said, pipe, r.line_buf, r.dcs_stripped, r.alternate_screen, sent)
      /\ last_alt_screen = r.alternate_screen
  BY DEF Inv, Readers
<1>2. r' = feed(r, chunk) /\ pipe' = rest
  BY DEF Read
<1>3. UNCHANGED <<pieces, pending, said, last_alt_screen, sent>>
  BY DEF Read
<1> HIDE DEF chunk, rest
<1>4. chunk \in Seq(Nat) /\ rest \in Seq(Nat) /\ Glued(pipe, chunk, rest)
  <2>1. n \in 0..Len(pipe)
    BY <1>1, LenProperties
  <2>2. Halved(Nat, pipe, n, chunk, rest)
    BY <1>1, <2>1, Halves DEF chunk, rest
  <2> QED
    BY <2>2, Zenon DEF Halved
<1>5. b \in Seq(Nat) /\ Sound(said, rest, b, s, r.alternate_screen, sent)
  BY <1>1, <1>4, SoundRead
<1>6. Fed(r, feed(r, chunk), b)
  BY <1>1, <1>4, <1>5, FeedIs
<1> HIDE DEF b
<1>7. /\ r' \in Readers /\ r'.line_buf = b /\ r'.dcs_stripped = s
      /\ r'.alternate_screen = r.alternate_screen
  BY <1>2, <1>6, Zenon DEF Fed
<1> HIDE DEF s
<1>8. Sound(said', pipe', r'.line_buf, r'.dcs_stripped, r'.alternate_screen, sent')
  <2>1. said' = said /\ sent' = sent
    BY <1>3
  <2> QED
    BY <1>2, <1>5, <1>7, <2>1, Zenon
<1>9. pieces \in 0..MaxPieces /\ pending \in Seq(Byte)
  BY DEF Inv
<1>10. /\ pieces' = pieces /\ pending' = pending /\ said' = said
       /\ last_alt_screen' = last_alt_screen
  BY <1>3
<1> QED
  BY <1>1, <1>2, <1>4, <1>7, <1>8, <1>9, <1>10, Zenon DEF Inv

\* A line taken.
LEMMA NextLineInv ==
    ASSUME Inv, NextLine
    PROVE  Inv'
<1> DEFINE end == find_crlf(r.line_buf)
           line == SubSeq(r.line_buf, 1, end - 1)
           tail == SubSeq(r.line_buf, end + 2, Len(r.line_buf))
           alt == AltAfter(line, r.alternate_screen)
           event == EventOf(line, alt)
<1>1. /\ r \in Readers /\ pipe \in Seq(Nat) /\ said \in Sayings /\ AltTold(said)
      /\ r.line_buf \in Seq(Nat) /\ r.dcs_stripped \in BOOLEAN /\ r.alternate_screen \in BOOLEAN
      /\ Sound(said, pipe, r.line_buf, r.dcs_stripped, r.alternate_screen, sent)
      /\ last_alt_screen = r.alternate_screen
  BY DEF Inv, Readers
<1>2. /\ end > 0
      /\ r' = [r EXCEPT !.line_buf = tail, !.alternate_screen = alt,
                        !.saw_exit = event.kind \in {"Exit", "WindowClosed"}]
      /\ last_alt_screen' = IF event.kind = "Output" THEN alt ELSE last_alt_screen
      /\ sent' = sent \o Messages(event)
      /\ UNCHANGED <<pieces, pending, said, pipe>>
  BY Zenon DEF NextLine
<1>3. SoundAfter(said, pipe, tail, r.dcs_stripped, r.alternate_screen, sent, alt, event)
  BY <1>1, <1>2, SoundNext
<1> HIDE DEF end, line, tail, alt, event
<1>4. /\ tail \in Seq(Nat) /\ alt \in BOOLEAN
      /\ event.kind # "Output" => alt = r.alternate_screen
      /\ Sound(said, pipe, tail, r.dcs_stripped, alt, sent \o MessagesOf(event, r.alternate_screen))
  BY <1>3, Zenon DEF SoundAfter
<1>5. Messages(event) = MessagesOf(event, r.alternate_screen)
  BY <1>1, Zenon DEF Messages, MessagesOf
<1> DEFINE x == event.kind \in {"Exit", "WindowClosed"}
<1>6. r' \in Readers /\ r'.line_buf = tail /\ r'.dcs_stripped = r.dcs_stripped
      /\ r'.alternate_screen = alt
  <2>1. x \in BOOLEAN
    OBVIOUS
  <2>2. r' = [r EXCEPT !.line_buf = tail, !.alternate_screen = alt, !.saw_exit = x]
    BY <1>2, Zenon
  <2> HIDE DEF x
  <2> QED
    BY <1>1, <1>4, <2>1, <2>2 DEF Readers
<1>7. last_alt_screen' = alt
  BY <1>1, <1>2, <1>4
<1>8. /\ pieces' = pieces /\ pending' = pending /\ said' = said /\ pipe' = pipe
      /\ pieces \in 0..MaxPieces /\ pending \in Seq(Byte)
  BY <1>2 DEF Inv
<1>9. sent' = sent \o MessagesOf(event, r.alternate_screen)
  BY <1>2, <1>5, Zenon
<1>10. Sound(said', pipe', r'.line_buf, r'.dcs_stripped, r'.alternate_screen, sent')
  BY <1>4, <1>6, <1>8, <1>9, Zenon
<1> QED
  BY <1>1, <1>6, <1>7, <1>8, <1>10, Zenon DEF Inv

LEMMA NextInv == Inv /\ [Next]_vars => Inv'
<1> SUFFICES ASSUME Inv, [Next]_vars PROVE Inv'
  OBVIOUS
<1>1. ASSUME NEW piece \in Pieces, Write(piece) PROVE Inv'
  <2>1. pieces \in Nat /\ pieces \in 0..MaxPieces /\ MaxPieces \in Nat /\ pending \in Seq(Byte)
    BY StreamAssumption DEF Inv
  <2>2. piece \in Seq(Byte)
    BY StreamAssumption DEF Byte
  <2>3. /\ pieces' = pieces + 1 /\ pieces < MaxPieces /\ pending' = pending \o piece
        /\ UNCHANGED <<said, pipe, r, last_alt_screen, sent>>
    BY <1>1, Zenon DEF Write
  <2>4. pieces' \in 0..MaxPieces
    BY <2>1, <2>3
  <2>5. pending' \in Seq(Byte)
    BY <2>1, <2>2, <2>3, ConcatProperties
  <2>6. /\ said' = said /\ pipe' = pipe /\ r' = r /\ last_alt_screen' = last_alt_screen
        /\ sent' = sent
    BY <2>3
  <2> QED
    BY <2>4, <2>5, <2>6, Zenon DEF Inv
<1>2. ASSUME NEW n \in 1..Len(pending), TakeOutput(n) PROVE Inv'
  <2>1. pending \in Seq(Byte) /\ pieces \in 0..MaxPieces
    BY DEF Inv
  <2>2. n \in 0..Len(pending)
    BY <2>1, LenProperties
  <2> DEFINE data == SubSeq(pending, 1, n)
             rest == SubSeq(pending, n + 1, Len(pending))
  <2>3. Halved(Byte, pending, n, data, rest)
    BY <2>1, <2>2, Halves
  <2>4. data \in Seq(Byte) /\ rest \in Seq(Byte)
    BY <2>3, Zenon DEF Halved
  <2>5. Say(Output(Pane, data)) /\ pending' = rest /\ UNCHANGED <<pieces, r, last_alt_screen, sent>>
    BY <1>2, Zenon DEF TakeOutput
  <2> HIDE DEF data, rest
  <2>6. Output(Pane, data) \in Notes
    BY <2>4 DEF Notes, Outputs, Panes
  <2>7. pieces' \in 0..MaxPieces /\ pending' \in Seq(Byte) /\ UNCHANGED <<r, last_alt_screen, sent>>
    BY <2>1, <2>4, <2>5
  <2> QED
    BY <2>5, <2>6, <2>7, SayInv
<1>3. ASSUME NEW line \in Notices, Notify(line) PROVE Inv'
  <2>1. line \in Notes
    BY NoticesAre
  <2>2. Say(line) /\ UNCHANGED <<pieces, pending, r, last_alt_screen, sent>>
    BY <1>3, Zenon DEF Notify
  <2>3. pieces' \in 0..MaxPieces /\ pending' \in Seq(Byte) /\ UNCHANGED <<r, last_alt_screen, sent>>
    BY <2>2 DEF Inv
  <2> QED
    BY <2>1, <2>2, <2>3, SayInv
<1>4. ASSUME NEW n \in 1..Len(pipe), Read(n) PROVE Inv'
  BY <1>4, ReadInv
<1>5. ASSUME NextLine PROVE Inv'
  BY <1>5, NextLineInv
<1>6. ASSUME UNCHANGED vars PROVE Inv'
  <2>1. /\ pieces' = pieces /\ pending' = pending /\ said' = said /\ pipe' = pipe /\ r' = r
        /\ last_alt_screen' = last_alt_screen /\ sent' = sent
    BY <1>6 DEF vars
  <2> QED
    BY <2>1, Zenon DEF Inv
<1> QED
  BY <1>1, <1>2, <1>3, <1>4, <1>5, <1>6, Zenon DEF Next

LEMMA Invariance == Spec => []Inv
  BY InitInv, NextInv, PTL DEF Spec

-----------------------------------------------------------------------------
(* What the invariant says of the properties *)

LEMMA SoundFeeds ==
    ASSUME NEW lines \in Sayings, NEW pipes \in Seq(Nat), NEW buf \in Seq(Nat),
           NEW stripped, NEW alt, NEW out, Sound(lines, pipes, buf, stripped, alt, out),
           NEW p, p = Len(lines) - Feeds(pipes) - Feeds(buf)
    PROVE  p \in 0..Len(lines) /\ out = Hearing(lines, p) /\ alt = AltOf(lines, p)
<1>1. PICK q \in 0..Len(lines), d \in BOOLEAN :
        Framed(lines, d, q, buf, pipes, stripped) /\ out = Hearing(lines, q) /\ alt = AltOf(lines, q)
  BY DEF Sound
<1>2. Len(lines) - Feeds(pipes) - Feeds(buf) = q
  BY <1>1, FramedFeeds
<1> QED
  BY <1>1, <1>2

\* The lines that Passed counts are the ones that have passed.
LEMMA InvHeard ==
    ASSUME Inv
    PROVE  /\ said \in Sayings /\ Passed \in 0..Len(said)
           /\ sent = Hearing(said, Passed) /\ r.alternate_screen = AltOf(said, Passed)
<1>1. /\ pipe \in Seq(Nat) /\ said \in Sayings
      /\ r.line_buf \in Seq(Nat)
      /\ Sound(said, pipe, r.line_buf, r.dcs_stripped, r.alternate_screen, sent)
  BY DEF Inv, Readers
<1> DEFINE p == Passed
<1>2. p = Len(said) - Feeds(pipe) - Feeds(r.line_buf)
  BY Zenon DEF Passed, Feeds
<1> HIDE DEF p
<1>3. p \in 0..Len(said) /\ sent = Hearing(said, p) /\ r.alternate_screen = AltOf(said, p)
  BY <1>1, <1>2, SoundFeeds
<1> QED
  BY <1>1, <1>3 DEF p

LEMMA FramesAre ==
    ASSUME NEW f \in Frames
    PROVE  CASE f.type = "binary"     -> f.data \in Seq(0..255)
             [] f.type = "altscreen"  -> f.active \in BOOLEAN
             [] f.type = "pane_title" -> IsText(f.title)
             [] OTHER                 -> f.type = "pane_exit"
<1>1. CASE \E data \in Seq(Byte) : f = [type |-> "binary", data |-> data]
  <2>1. f.type = "binary" /\ f.data \in Seq(0..255)
    BY <1>1 DEF Byte
  <2> QED
    BY <2>1
<1>2. CASE \E active \in BOOLEAN : f = [type |-> "altscreen", active |-> active]
  <2>1. f.type = "altscreen" /\ f.active \in BOOLEAN
    BY <1>2
  <2> QED
    BY <2>1
<1>3. CASE \E title \in Seq(Text) : f = [type |-> "pane_title", title |-> title]
  <2>1. f.type = "pane_title" /\ f.title \in Seq(Text)
    BY <1>3
  <2> DEFINE title == f.title
  <2>2. title \in Seq(Text)
    BY <2>1
  <2> HIDE DEF title
  <2>3. DOMAIN title = 1..Len(title) /\ title \in [1..Len(title) -> Text]
    BY <2>2, LenProperties
  <2>4. \A i \in 1..Len(title) : title[i] \in Text
    BY <2>3
  <2>5. \A x \in Text : x < 255
    BY DEF Text
  <2>6. IsText(title)
    BY <2>3, <2>4, <2>5 DEF IsText
  <2> QED
    BY <2>1, <2>6 DEF title
<1>4. CASE f = [type |-> "pane_exit"]
  <2>1. f.type = "pane_exit"
    BY <1>4
  <2> QED
    BY <2>1
<1> QED
  BY <1>1, <1>2, <1>3, <1>4 DEF Frames

\* What was sent is made of Frames, so TypeOK follows from what was heard.
LEMMA InvType == Inv => TypeOK
<1> SUFFICES ASSUME Inv PROVE TypeOK
  OBVIOUS
<1>1. said \in Sayings /\ Passed \in 0..Len(said) /\ sent = Hearing(said, Passed)
  BY InvHeard
<1>2. sent \in Seq(Frames)
  BY <1>1, HearingType
<1>3. DOMAIN sent = 1..Len(sent)
  BY <1>2, LenProperties
<1>4. \A i \in DOMAIN sent : sent[i] \in Frames
  BY <1>2, <1>3, ElementOfSeq
<1>5. \A i \in DOMAIN sent :
        CASE sent[i].type = "binary"     -> sent[i].data \in Seq(0..255)
          [] sent[i].type = "altscreen"  -> sent[i].active \in BOOLEAN
          [] sent[i].type = "pane_title" -> IsText(sent[i].title)
          [] OTHER                       -> sent[i].type = "pane_exit"
  <2>1. ASSUME NEW i \in DOMAIN sent
        PROVE  CASE sent[i].type = "binary"     -> sent[i].data \in Seq(0..255)
                 [] sent[i].type = "altscreen"  -> sent[i].active \in BOOLEAN
                 [] sent[i].type = "pane_title" -> IsText(sent[i].title)
                 [] OTHER                       -> sent[i].type = "pane_exit"
    <3>1. sent[i] \in Frames
      BY <1>4
    <3> QED
      BY <3>1, FramesAre
  <2> QED
    BY <2>1, Zenon
<1>6. /\ pieces \in 0..MaxPieces /\ pending \in Seq(0..255)
      /\ r.line_buf \in Seq(Nat) /\ pipe \in Seq(Nat)
  BY DEF Inv, Readers, Byte
<1>7. {r.dcs_stripped, r.saw_exit, r.alternate_screen, last_alt_screen} \subseteq BOOLEAN
  BY DEF Inv, Readers
<1> QED
  BY <1>5, <1>6, <1>7, Zenon DEF TypeOK

\* The definitions of ControlStream are the ones above, of said.
LEMMA AltAtIs == \A n : AltAt(n) = AltOf(said, n)
  BY Zenon DEF AltAt, AltOf, Turning

LEMMA MeaningIs == \A n : Meaning(n) = MeaningOf(said, n)
<1>1. ASSUME NEW n PROVE Meaning(n) = MeaningOf(said, n)
  <2>1. AltAt(n) = AltOf(said, n) /\ AltAt(n - 1) = AltOf(said, n - 1)
    BY AltAtIs, Zenon
  <2> QED
    BY <2>1, Zenon DEF Meaning, MeaningOf, Tell, TellData
<1> QED
  BY <1>1, Zenon

LEMMA InvIntact == Inv => StreamIntact
<1> SUFFICES ASSUME Inv PROVE StreamIntact
  OBVIOUS
<1>1. sent = Hearing(said, Passed)
  BY InvHeard
<1>2. [n \in 1..Passed |-> Meaning(n)] = [n \in 1..Passed |-> MeaningOf(said, n)]
  BY MeaningIs
<1> QED
  BY <1>1, <1>2, Zenon DEF StreamIntact, Hearing

LEMMA OursIs == Ours = OursOf(said)
<1>1. [k \in DOMAIN said |-> IF IsOurs(said[k]) THEN <<said[k].data>> ELSE <<>>] =
      [k \in DOMAIN said |-> PieceOf(said[k])]
  BY DEF PieceOf
<1> QED
  BY <1>1, Zenon DEF Ours, OursOf

LEMMA CutIs == CutIn(Ours) => SwitchCut
  BY Zenon DEF CutIn, Straddles, SwitchCut, Words, Written

LEMMA InvTracked == Inv => AltScreenTracked
<1> SUFFICES ASSUME Inv, Passed = Len(said), ~SwitchCut
             PROVE  last_alt_screen = AltIn(Written, said[1].alt)
  BY Zenon DEF AltScreenTracked
<1>1. r.alternate_screen = AltOf(said, Passed)
  BY InvHeard
<1>2. last_alt_screen = AltOf(said, Len(said)) /\ AltTold(said)
  BY <1>1 DEF Inv
<1>3. ~CutIn(OursOf(said))
  BY CutIs, OursIs
<1>4. Written = FlattenSeq(OursOf(said))
  BY OursIs, Zenon DEF Written
<1> QED
  BY <1>2, <1>3, <1>4, Zenon DEF AltTold

\* Every state has its type: what is sent to the browser are bytes, flags, and
\* titles that are text.
THEOREM TypeCorrect == Spec => []TypeOK
  BY Invariance, InvType, PTL

\* The browser has heard what the lines that have passed mean, in order and each
\* once, however tmux divides the output and the PTY the lines.
THEOREM StreamArrives == Spec => []StreamIntact
  BY Invariance, InvIntact, PTL

\* When all has passed the browser is on the screen the application chose last,
\* unless a switch was cut in two.
THEOREM ScreenIsTracked == Spec => []AltScreenTracked
  BY Invariance, InvTracked, PTL
=============================================================================
