----------------------------- MODULE WireProofs -----------------------------
(***************************************************************************)
(* Lemmas about Wire and MemFS: what the encoder writes and the decoder    *)
(* makes of it, whatever the bytes, and what the file system keeps to.     *)
(***************************************************************************)
EXTENDS MemFS, Extrema, FiniteSetTheorems, SequenceTheorems

\* What the encoder writes: runs of at least one byte.
Run   == [w : Nat \ {0}, v : Int]
Bytes == Seq(Run)

-----------------------------------------------------------------------------
(***************************************************************************)
(* Sizes.                                                                  *)
(***************************************************************************)

\* The runs of an encoding.
LEMMA RunAt ==
    ASSUME NEW buf \in Bytes
    PROVE  /\ Len(buf) \in Nat /\ DOMAIN buf = 1..Len(buf)
           /\ \A i \in 1..Len(buf) :
                 /\ buf[i] \in Run /\ buf[i].w \in Nat /\ buf[i].w >= 1
                 /\ buf[i].v \in Int /\ buf[i] = Cell(buf[i].w, buf[i].v)
  <1>1. /\ Len(buf) \in Nat /\ DOMAIN buf = 1..Len(buf)
        /\ \A i \in 1..Len(buf) : buf[i] \in Run
    BY DEF Bytes
  <1>2. ASSUME NEW c \in Run
        PROVE  c.w \in Nat /\ c.w >= 1 /\ c.v \in Int /\ c = Cell(c.w, c.v)
    BY DEF Run, Cell
  <1> QED BY <1>1, <1>2

\* The sizes of the prefixes of an encoding.
LEMMA SizeGoes ==
    ASSUME NEW buf \in Bytes
    PROVE  \E sum \in [0..Len(buf) -> Nat] :
              /\ Size(buf) = sum[Len(buf)]
              /\ sum[0] = 0
              /\ \A i \in 1..Len(buf) : sum[i] = sum[i - 1] + buf[i].w
  <1> DEFINE N == Len(buf)
             sum == CHOOSE sum : sum = [i \in 0..N |-> IF i = 0 THEN 0 ELSE sum[i - 1] + buf[i].w]
             G == [i \in 1..N |-> [w \in Nat |-> w + buf[i].w]]
  <1>1. Size(buf) = sum[N]
    BY Zenon DEF Size
  <1>2. N \in Nat /\ \A i \in 1..N : buf[i].w \in Nat
    BY RunAt
  <1> HIDE DEF N
  <1>3. G \in [1..N -> [Nat -> Nat]]
    BY <1>2
  <1>4. PICK h \in [0..N -> Nat] : Goes(N, 0, G, h)
    <2>1. 0 \in Nat
      OBVIOUS
    <2> HIDE DEF G, sum
    <2> QED BY <1>2, <1>3, <2>1, StepsExist, Zenon
  <1>5. ASSUME NEW i \in 0..N
        PROVE  h[i] = IF i = 0 THEN 0 ELSE h[i - 1] + buf[i].w
    <2>1. CASE i = 0
      BY <1>4, <2>1 DEF Goes
    <2>2. CASE i # 0
      <3>1. i \in 1..N /\ i - 1 \in 0..N
        BY <1>2, <2>2
      <3>2. h[i - 1] \in Nat /\ h[i] = G[i][h[i - 1]]
        BY <1>4, <3>1 DEF Goes
      <3> QED BY <2>2, <3>1, <3>2
    <2> QED BY <2>1, <2>2
  <1>6. h = [i \in 0..N |-> IF i = 0 THEN 0 ELSE h[i - 1] + buf[i].w]
    <2> HIDE DEF G
    <2> QED BY <1>4, <1>5
  <1>7. sum = [i \in 0..N |-> IF i = 0 THEN 0 ELSE sum[i - 1] + buf[i].w]
    BY <1>6, Zenon
  <1> HIDE DEF sum, G
  <1>8. sum[0] = 0 /\ \A i \in 1..N : sum[i] = sum[i - 1] + buf[i].w
    BY <1>2, <1>7
  <1>9. sum \in [0..N -> Nat]
    <2>1. \A i \in 1..N : sum[i - 1] \in Nat => sum[i] = G[i][sum[i - 1]]
      BY <1>8 DEF G
    <2>2. sum = [i \in 0..N |-> sum[i]]
      BY <1>7
    <2>3. 0 \in Nat /\ GoesIn(N, Nat, 0, G, sum)
      BY <1>8, <2>1, <2>2, Zenon DEF GoesIn
    <2> QED BY <1>2, <1>3, <2>3, StepsStay, Zenon
  <1> QED BY <1>1, <1>8, <1>9, Zenon DEF N

\* Every run adds its bytes.
LEMMA SizeAppend ==
    ASSUME NEW buf \in Bytes, NEW c \in Run
    PROVE  Size(Append(buf, c)) = Size(buf) + c.w
  <1> DEFINE N == Len(buf)
             more == Append(buf, c)
  <1>1. /\ N \in Nat /\ more \in Bytes /\ Len(more) = N + 1 /\ more[N + 1] = c
        /\ \A i \in 1..N : more[i] = buf[i]
    BY DEF Bytes
  <1>2. PICK s \in [0..N -> Nat] :
           /\ Size(buf) = s[N] /\ s[0] = 0
           /\ \A i \in 1..N : s[i] = s[i - 1] + buf[i].w
    BY SizeGoes, Zenon
  <1>3. PICK t \in [0..Len(more) -> Nat] :
           /\ Size(more) = t[Len(more)] /\ t[0] = 0
           /\ \A i \in 1..Len(more) : t[i] = t[i - 1] + more[i].w
    <2> HIDE DEF more
    <2> QED BY <1>1, SizeGoes, Zenon
  <1> HIDE DEF N, more
  <1> DEFINE S == {i \in Nat : i \in 0..N => t[i] = s[i]}
  <1>4. 0 \in S
    BY <1>1, <1>2, <1>3
  <1>5. ASSUME NEW i \in 1..N, i - 1 \in S PROVE i \in S
    <2>1. i \in 1..Len(more) /\ i - 1 \in 0..N /\ i \in Nat
      BY <1>1
    <2>2. t[i] = t[i - 1] + more[i].w /\ s[i] = s[i - 1] + buf[i].w
      BY <1>2, <1>3, <2>1, Zenon
    <2>3. t[i - 1] = s[i - 1] /\ more[i] = buf[i]
      BY <1>1, <1>5, <2>1
    <2> QED BY <2>1, <2>2, <2>3
  <1>6. 0..N \subseteq S
    <2>1. S \in SUBSET Nat
      OBVIOUS
    <2> HIDE DEF S
    <2> QED BY <1>1, <1>4, <1>5, <2>1, UpTo
  <1>7. t[N] = s[N]
    BY <1>1, <1>6
  <1>8. N + 1 \in 1..Len(more) /\ (N + 1) - 1 = N
    BY <1>1
  <1>9. t[N + 1] = t[N] + c.w
    BY <1>1, <1>3, <1>8
  <1> QED BY <1>1, <1>2, <1>3, <1>7, <1>9 DEF more

\* Nothing has no bytes, and an encoding a number of them.
LEMMA SizeType ==
    /\ Size(<<>>) = 0
    /\ \A buf \in Bytes : Size(buf) \in Nat
  <1>1. Size(<<>>) = 0
    <2>1. <<>> \in Bytes /\ Len(<<>>) = 0
      BY DEF Bytes
    <2> QED BY <2>1, SizeGoes
  <1>2. ASSUME NEW buf \in Bytes PROVE Size(buf) \in Nat
    <2>1. PICK sum \in [0..Len(buf) -> Nat] : Size(buf) = sum[Len(buf)]
      BY SizeGoes, Zenon
    <2>2. Len(buf) \in 0..Len(buf)
      BY DEF Bytes
    <2> QED BY <2>1, <2>2
  <1> QED BY <1>1, <1>2

\* Encodings in a row.
LEMMA SizeConcat ==
    ASSUME NEW a \in Bytes, NEW b \in Bytes
    PROVE  a \o b \in Bytes /\ Size(a \o b) = Size(a) + Size(b)
  <1> DEFINE S == {s \in Bytes : a \o s \in Bytes /\ Size(a \o s) = Size(a) + Size(s)}
  <1>1. <<>> \in S
    <2>1. a \o <<>> = a /\ <<>> \in Bytes
      BY DEF Bytes
    <2>2. Size(a) \in Nat /\ Size(<<>>) = 0
      BY SizeType
    <2>3. Size(a) = Size(a) + 0
      BY <2>2
    <2> QED BY <2>1, <2>2, <2>3
  <1>2. ASSUME NEW s \in S, NEW c \in Run PROVE Append(s, c) \in S
    <2>1. s \in Bytes /\ a \o s \in Bytes /\ Size(a \o s) = Size(a) + Size(s)
      BY <1>2
    <2>2. a \o Append(s, c) = Append(a \o s, c) /\ Append(s, c) \in Bytes /\ Append(a \o s, c) \in Bytes
      BY <2>1 DEF Bytes
    <2>3. Size(Append(a \o s, c)) = Size(a \o s) + c.w /\ Size(Append(s, c)) = Size(s) + c.w
      BY <2>1, SizeAppend
    <2>4. Size(a) \in Nat /\ Size(s) \in Nat /\ c.w \in Nat
      BY <2>1, SizeType DEF Run
    <2>5. (Size(a) + Size(s)) + c.w = Size(a) + (Size(s) + c.w)
      BY <2>4
    <2> QED BY <2>1, <2>2, <2>3, <2>5
  <1>3. S \in SUBSET Seq(Run)
    BY DEF Bytes
  <1>4. \A s \in Seq(Run) : s \in S
    <2> HIDE DEF S
    <2> QED BY <1>1, <1>2, <1>3, EverySeq, Zenon
  <1>5. b \in S
    <2> HIDE DEF S
    <2> QED BY <1>4 DEF Bytes
  <1> QED BY <1>5

\* A run is an encoding of its own.
LEMMA SizeOne ==
    ASSUME NEW w \in Nat \ {0}, NEW v \in Int
    PROVE  Cell(w, v) \in Run /\ <<Cell(w, v)>> \in Bytes /\ Size(<<Cell(w, v)>>) = w
  <1>1. Cell(w, v) \in Run /\ Cell(w, v).w = w
    BY DEF Cell, Run
  <1>2. <<Cell(w, v)>> = Append(<<>>, Cell(w, v)) /\ <<>> \in Bytes
    BY DEF Bytes
  <1>3. <<Cell(w, v)>> \in Bytes
    BY <1>1 DEF Bytes
  <1>4. Size(Append(<<>>, Cell(w, v))) = Size(<<>>) + Cell(w, v).w
    BY <1>1, <1>2, SizeAppend
  <1>5. 0 + w = w
    OBVIOUS
  <1> QED BY <1>1, <1>2, <1>3, <1>4, <1>5, SizeType

\* Only nothing has no bytes.
LEMMA SizePositive ==
    ASSUME NEW buf \in Bytes, buf # <<>>
    PROVE  Size(buf) >= 1
  <1> DEFINE f == SubSeq(buf, 1, Len(buf) - 1)
             c == buf[Len(buf)]
  <1>1. Len(buf) \in Nat /\ Len(buf) # 0
    BY DEF Bytes
  <1>2. Len(buf) \in 1..Len(buf)
    BY <1>1
  <1>3. buf = Append(f, c) /\ f \in Bytes
    <2>1. buf = SubSeq(buf, 1, Len(buf)) /\ f \in Bytes
      BY <1>1 DEF Bytes
    <2>2. SubSeq(buf, 1, Len(buf)) = Append(f, c)
      BY <1>2, LongerPrefix DEF Bytes
    <2> QED BY <2>1, <2>2, Zenon
  <1>4. c \in Run /\ c.w \in Nat /\ c.w >= 1
    BY <1>2, RunAt
  <1>5. Size(buf) = Size(f) + c.w /\ Size(f) \in Nat
    <2> HIDE DEF f, c
    <2> QED BY <1>3, <1>4, SizeAppend, SizeType
  <1> QED BY <1>4, <1>5

\* The first runs of an encoding, and the others.
LEMMA PrefixSize ==
    ASSUME NEW buf \in Bytes, NEW i \in 0..Len(buf)
    PROVE  /\ SubSeq(buf, 1, i) \in Bytes /\ SubSeq(buf, i + 1, Len(buf)) \in Bytes
           /\ buf = SubSeq(buf, 1, i) \o SubSeq(buf, i + 1, Len(buf))
           /\ Size(buf) = Size(SubSeq(buf, 1, i)) + Size(SubSeq(buf, i + 1, Len(buf)))
           /\ i < Len(buf) =>
                 /\ buf[i + 1] \in Run
                 /\ Size(SubSeq(buf, 1, i + 1)) = Size(SubSeq(buf, 1, i)) + buf[i + 1].w
                 /\ SubSeq(buf, i + 1, Len(buf)) # <<>>
                 /\ SubSeq(buf, i + 1, Len(buf))[1] = buf[i + 1]
           /\ i = Len(buf) => SubSeq(buf, i + 1, Len(buf)) = <<>> /\ SubSeq(buf, 1, i) = buf
  <1> DEFINE a == SubSeq(buf, 1, i)
             b == SubSeq(buf, i + 1, Len(buf))
  <1>1. Len(buf) \in Nat /\ i \in Nat /\ i <= Len(buf)
    BY RunAt
  <1>2. a \in Bytes /\ b \in Bytes /\ buf = a \o b
    <2>1. a \in Bytes /\ b \in Bytes /\ SubSeq(buf, 1, Len(buf)) = buf
      BY <1>1 DEF Bytes
    <2>2. 1 \in 1..(Len(buf) + 1) /\ i \in (1 - 1)..Len(buf) /\ Len(buf) \in i..Len(buf)
      BY <1>1
    <2>3. a \o b = SubSeq(buf, 1, Len(buf))
      BY <2>2, ConcatAdjacentSubSeq, Zenon DEF Bytes
    <2> QED BY <2>1, <2>3, Zenon
  <1>3. Size(buf) = Size(a) + Size(b)
    <2> HIDE DEF a, b
    <2> QED BY <1>2, SizeConcat
  <1>4. ASSUME i < Len(buf)
        PROVE  /\ buf[i + 1] \in Run /\ Size(SubSeq(buf, 1, i + 1)) = Size(a) + buf[i + 1].w
               /\ b # <<>> /\ b[1] = buf[i + 1]
    <2>1. i + 1 \in 1..Len(buf) /\ (i + 1) - 1 = i
      BY <1>1, <1>4
    <2>2. SubSeq(buf, 1, i + 1) = Append(a, buf[i + 1])
      BY <2>1, LongerPrefix DEF Bytes
    <2>3. buf[i + 1] \in Run
      BY <2>1, RunAt
    <2>4. Size(Append(a, buf[i + 1])) = Size(a) + buf[i + 1].w
      <3> HIDE DEF a
      <3> QED BY <1>2, <2>3, SizeAppend
    <2>5. b # <<>> /\ b[1] = buf[i + 1]
      BY <1>1, <1>4 DEF Bytes
    <2> QED BY <2>2, <2>3, <2>4, <2>5
  <1>5. ASSUME i = Len(buf) PROVE b = <<>> /\ a = buf
    BY <1>1, <1>5 DEF Bytes
  <1> QED BY <1>2, <1>3, <1>4, <1>5

\* Longer prefixes are larger.
LEMMA PrefixGrows ==
    ASSUME NEW buf \in Bytes, NEW i \in 0..Len(buf), NEW j \in 0..Len(buf), i < j
    PROVE  Size(SubSeq(buf, 1, i)) < Size(SubSeq(buf, 1, j))
  <1> DEFINE p == SubSeq(buf, 1, j)
  <1>1. Len(buf) \in Nat /\ i \in Nat /\ j \in Nat /\ j <= Len(buf)
    BY RunAt
  <1>2. p \in Bytes /\ Len(p) = j /\ SubSeq(p, 1, i) = SubSeq(buf, 1, i)
    BY <1>1 DEF Bytes
  <1>3. SubSeq(p, i + 1, Len(p)) # <<>>
    BY <1>1, <1>2 DEF Bytes
  <1> HIDE DEF p
  <1>4. i \in 0..Len(p)
    BY <1>1, <1>2
  <1>5. /\ Size(p) = Size(SubSeq(p, 1, i)) + Size(SubSeq(p, i + 1, Len(p)))
        /\ SubSeq(p, 1, i) \in Bytes /\ SubSeq(p, i + 1, Len(p)) \in Bytes
    BY <1>2, <1>4, PrefixSize
  <1>6. Size(SubSeq(p, i + 1, Len(p))) >= 1
    BY <1>3, <1>5, SizePositive
  <1>7. Size(SubSeq(p, 1, i)) \in Nat /\ Size(SubSeq(p, i + 1, Len(p))) \in Nat
    BY <1>5, SizeType
  <1>8. Size(SubSeq(p, 1, i)) < Size(p)
    BY <1>5, <1>6, <1>7
  <1> QED BY <1>2, <1>8 DEF p

-----------------------------------------------------------------------------
(***************************************************************************)
(* Cutting an encoding.                                                    *)
(***************************************************************************)

\* The last whole run of the first n bytes.
LastWhole(buf, n, i) ==
    /\ Size(SubSeq(buf, 1, i)) <= n
    /\ i = Len(buf) \/ Size(SubSeq(buf, 1, i + 1)) > n

\* There is one, and a cut is there.
LEMMA CutFinds ==
    ASSUME NEW buf \in Bytes, NEW n \in Nat
    PROVE  \E i \in 0..Len(buf) : LastWhole(buf, n, i) /\ cut(buf, n) = splitAfter(buf, n, i)
  <1> DEFINE N == Len(buf)
             S == {i \in 0..N : Size(SubSeq(buf, 1, i)) <= n}
  <1>1. N \in Nat
    BY RunAt
  <1>2. 0 \in S
    <2>1. SubSeq(buf, 1, 0) = <<>>
      BY <1>1
    <2>2. Size(SubSeq(buf, 1, 0)) = 0
      BY <2>1, SizeType, Zenon
    <2>3. 0 <= n /\ 0 \in 0..N
      BY <1>1
    <2> HIDE DEF N
    <2> QED BY <2>2, <2>3
  <1>3. PICK k \in S : \A j \in S : j <= k
    <2>1. S \in SUBSET (0..N) /\ S # {}
      BY <1>2
    <2> HIDE DEF S, N
    <2> QED BY <1>1, <2>1, GreatestExists, Zenon
  <1>4. k \in 0..N /\ LastWhole(buf, n, k)
    <2>1. k \in 0..N /\ Size(SubSeq(buf, 1, k)) <= n
      BY <1>3
    <2>2. ASSUME k # N PROVE Size(SubSeq(buf, 1, k + 1)) > n
      <3>1. k + 1 \in 0..N /\ ~(k + 1 <= k)
        BY <1>1, <2>1, <2>2
      <3>2. k + 1 \notin S
        <4> HIDE DEF S
        <4> QED BY <1>3, <3>1
      <3>3. ~(Size(SubSeq(buf, 1, k + 1)) <= n)
        BY <3>1, <3>2
      <3>4. Size(SubSeq(buf, 1, k + 1)) \in Nat
        <4>1. SubSeq(buf, 1, k + 1) \in Bytes
          BY <3>1, PrefixSize
        <4> QED BY <4>1, SizeType
      <3> QED BY <3>3, <3>4
    <2> QED BY <2>1, <2>2 DEF LastWhole
  <1> DEFINE i == CHOOSE i \in 0..Len(buf) : LastWhole(buf, n, i)
  <1>5. i \in 0..Len(buf) /\ LastWhole(buf, n, i)
    <2> HIDE DEF S
    <2> QED BY <1>4, Zenon
  <1>6. cut(buf, n) = splitAfter(buf, n, i)
    BY Zenon DEF cut, LastWhole
  <1> QED BY <1>5, <1>6, Zenon

\* A cut between two runs takes the encoding apart there.
LEMMA CutWhole ==
    ASSUME NEW a \in Bytes, NEW b \in Bytes
    PROVE  cut(a \o b, Size(a)) = <<a, b>>
  <1> DEFINE buf == a \o b
             n == Size(a)
             N == Len(a)
  <1>1. n \in Nat /\ buf \in Bytes /\ N \in Nat /\ Len(buf) = N + Len(b) /\ Len(b) \in Nat
    <2>1. buf \in Bytes
      BY SizeConcat
    <2> QED BY <2>1, SizeType DEF Bytes
  <1>2. SubSeq(buf, 1, N) = a /\ SubSeq(buf, N + 1, Len(buf)) = b
    BY DEF Bytes
  <1>3. PICK i \in 0..Len(buf) : LastWhole(buf, n, i) /\ cut(buf, n) = splitAfter(buf, n, i)
    <2> HIDE DEF buf, n
    <2> QED BY <1>1, CutFinds
  <1>4. N \in 0..Len(buf) /\ Size(SubSeq(buf, 1, N)) = n
    <2>1. N \in 0..Len(buf)
      BY <1>1
    <2>2. Size(SubSeq(buf, 1, N)) = Size(a)
      BY <1>2, Zenon
    <2> QED BY <2>1, <2>2
  <1> HIDE DEF buf, N, n
  <1>5. ~(i < N)
    <2> SUFFICES ASSUME i < N PROVE FALSE
      OBVIOUS
    <2>1. i + 1 \in 0..Len(buf) /\ i # Len(buf) /\ i + 1 <= N /\ i \in Nat
      BY <1>1, <1>4
    <2>2. Size(SubSeq(buf, 1, i + 1)) > n
      BY <1>3, <2>1 DEF LastWhole
    <2>3. CASE i + 1 = N
      BY <1>1, <1>4, <2>2, <2>3
    <2>4. CASE i + 1 < N
      <3>1. Size(SubSeq(buf, 1, i + 1)) < Size(SubSeq(buf, 1, N))
        BY <1>1, <1>4, <2>1, <2>4, PrefixGrows
      <3>2. Size(SubSeq(buf, 1, i + 1)) \in Nat
        BY <1>1, <2>1, PrefixSize, SizeType
      <3> QED BY <1>1, <1>4, <2>2, <3>1, <3>2
    <2> QED BY <1>1, <2>1, <2>3, <2>4
  <1>6. ~(N < i)
    <2> SUFFICES ASSUME N < i PROVE FALSE
      OBVIOUS
    <2>1. Size(SubSeq(buf, 1, N)) < Size(SubSeq(buf, 1, i))
      BY <1>1, <1>3, <1>4, PrefixGrows
    <2>2. Size(SubSeq(buf, 1, i)) <= n
      BY <1>3 DEF LastWhole
    <2>3. Size(SubSeq(buf, 1, i)) \in Nat
      BY <1>1, PrefixSize, SizeType
    <2> QED BY <1>1, <1>4, <2>1, <2>2, <2>3
  <1>7. i = N
    BY <1>1, <1>5, <1>6
  <1>8. cut(buf, n) = split(a, b, n - n)
    BY <1>2, <1>3, <1>4, <1>7 DEF splitAfter
  <1>9. n - n = 0
    BY <1>1
  <1>10. cut(buf, n) = <<a, b>>
    BY <1>8, <1>9 DEF split
  <1> QED BY <1>10 DEF buf, n

\* A cut anywhere else leaves two encodings all the same.
LEMMA CutType ==
    ASSUME NEW buf \in Bytes, NEW n \in Nat, n <= Size(buf)
    PROVE  \E a \in Bytes, b \in Bytes :
              /\ cut(buf, n) = <<a, b>>
              /\ Size(a) = n /\ Size(b) = Size(buf) - n
  <1>1. PICK i \in 0..Len(buf) : LastWhole(buf, n, i) /\ cut(buf, n) = splitAfter(buf, n, i)
    BY CutFinds
  <1> DEFINE x == SubSeq(buf, 1, i)
             y == SubSeq(buf, i + 1, Len(buf))
             part == n - Size(x)
  <1>2. /\ x \in Bytes /\ y \in Bytes /\ Size(buf) = Size(x) + Size(y)
        /\ i < Len(buf) =>
              /\ buf[i + 1] \in Run /\ y # <<>> /\ y[1] = buf[i + 1]
              /\ Size(SubSeq(buf, 1, i + 1)) = Size(x) + buf[i + 1].w
        /\ i = Len(buf) => y = <<>> /\ x = buf
    BY PrefixSize
  <1>3. cut(buf, n) = split(x, y, part)
    BY <1>1 DEF splitAfter
  <1>4. Size(x) <= n /\ (i = Len(buf) \/ Size(SubSeq(buf, 1, i + 1)) > n)
    BY <1>1 DEF LastWhole
  <1>5. i < Len(buf) \/ i = Len(buf)
    BY RunAt
  <1> HIDE DEF x, y
  <1>6. Size(x) \in Nat /\ Size(y) \in Nat /\ Size(buf) \in Nat
    BY <1>2, SizeType
  <1>7. CASE part = 0
    <2>1. cut(buf, n) = <<x, y>>
      BY <1>3, <1>7 DEF split
    <2>2. Size(x) = n /\ Size(y) = Size(buf) - n
      BY <1>2, <1>6, <1>7
    <2> QED BY <1>2, <2>1, <2>2
  <1>8. CASE part # 0
    <2>1. i < Len(buf)
      <3>1. i # Len(buf)
        BY <1>2, <1>4, <1>6, <1>8
      <3> QED BY <1>5, <3>1
    <2> DEFINE c == y[1]
               z == Tail(y)
    <2>2. c \in Run /\ c.w \in Nat /\ y # <<>> /\ Size(x) + c.w > n
      BY <1>2, <1>4, <2>1 DEF Run
    <2>3. part \in Nat \ {0} /\ c.w - part \in Nat \ {0}
      BY <1>4, <1>6, <1>8, <2>2, SMTT(40)
    <2>4. Torn \in Int
      BY DEF Torn
    <2>5. z \in Bytes /\ y = <<c>> \o z /\ <<c>> \in Bytes
      BY <1>2, <2>2 DEF Bytes
    <2>6. Size(<<c>>) = c.w
      <3>1. <<c>> = Append(<<>>, c) /\ <<>> \in Bytes /\ Size(<<>>) = 0
        BY SizeType DEF Bytes
      <3>2. Size(Append(<<>>, c)) = Size(<<>>) + c.w
        BY <2>2, <3>1, SizeAppend
      <3> QED BY <2>2, <3>1, <3>2
    <2> HIDE DEF c, z, part
    <2>7. Size(y) = c.w + Size(z) /\ Size(z) \in Nat
      BY <2>5, <2>6, SizeConcat, SizeType
    <2> DEFINE t == Cell(part, Torn)
               u == Cell(c.w - part, Torn)
               p == Append(x, t)
               q == <<u>> \o z
    <2>8. t \in Run /\ <<u>> \in Bytes /\ Size(<<u>>) = c.w - part /\ t.w = part
      <3>1. t.w = part
        BY DEF Cell
      <3> QED BY <2>3, <2>4, <3>1, SizeOne
    <2>9. cut(buf, n) = <<p, q>>
      BY <1>3, <1>8 DEF split, c, z
    <2>10. p \in Bytes /\ Size(p) = Size(x) + part
      <3>1. p \in Bytes
        <4> HIDE DEF t
        <4> QED BY <1>2, <2>8 DEF Bytes
      <3> QED BY <1>2, <2>8, <3>1, SizeAppend
    <2>11. q \in Bytes /\ Size(q) = (c.w - part) + Size(z)
      <3> HIDE DEF u
      <3> QED BY <2>5, <2>8, SizeConcat
    <2>12. Size(p) = n /\ Size(q) = Size(buf) - n
      <3>1. part = n - Size(x)
        BY DEF part
      <3> HIDE DEF p, q
      <3>2. Size(p) = n
        BY <1>6, <2>3, <2>10, <3>1
      <3>3. Size(q) = Size(y) - part
        BY <2>2, <2>3, <2>7, <2>11
      <3> QED BY <1>2, <1>6, <2>3, <3>1, <3>2, <3>3
    <2> HIDE DEF p, q
    <2> QED BY <2>9, <2>10, <2>11, <2>12
  <1> QED BY <1>7, <1>8

-----------------------------------------------------------------------------
(***************************************************************************)
(* The decoder: it stays a decoder whatever it reads, and reads back what  *)
(* was written.                                                            *)
(***************************************************************************)

\* What it decodes: numbers and qids, lists of these and Stats, and data.
Scalars == Int \cup Seq(Int)
Values  == Scalars \cup Seq(Scalars) \cup Bytes

Decoder ==
    {d \in [buf : Bytes, left : Nat, ok : BOOLEAN, got : Bytes, vals : Seq(Values)] :
        d.left = Size(d.buf)}

\* e is d after it has decoded some value of S; it decodes on after no error.
Puts(d, e, S) ==
    /\ e \in Decoder /\ (e.ok => d.ok)
    /\ \E v \in S : e.vals = Append(d.vals, v)

\* d is about to read a, with b behind it.
On(d, a, b) == d \in Decoder /\ d.ok /\ a \in Bytes /\ b \in Bytes /\ d.buf = a \o b

\* e is d after it has read v, with b left to read.
Gets(d, e, b, v) == e \in Decoder /\ e.ok /\ e.buf = b /\ e.vals = Append(d.vals, v)

\* The parts of a decoder.
LEMMA DecoderParts ==
    ASSUME NEW d \in Decoder
    PROVE  /\ d.buf \in Bytes /\ d.left = Size(d.buf) /\ d.left \in Nat /\ d.ok \in BOOLEAN
           /\ d.got \in Bytes /\ d.vals \in Seq(Values)
           /\ d = [buf |-> d.buf, left |-> d.left, ok |-> d.ok, got |-> d.got, vals |-> d.vals]
  BY DEF Decoder

\* A decoder by its parts.
made(b, k, g, s) == [buf |-> b, left |-> Size(b), ok |-> k, got |-> g, vals |-> s]

Is(d, b, k, g, s) == d \in Decoder /\ d.buf = b /\ d.ok = k /\ d.got = g /\ d.vals = s

LEMMA DecoderMade ==
    ASSUME NEW b \in Bytes, NEW k \in BOOLEAN, NEW g \in Bytes, NEW s \in Seq(Values)
    PROVE  Is(made(b, k, g, s), b, k, g, s)
  BY SizeType DEF Decoder, made, Is

\* What the decoder's steps change of one.
LEMMA DecoderEdits ==
    ASSUME NEW d \in Decoder
    PROVE  /\ \A s : [d EXCEPT !.vals = s] = made(d.buf, d.ok, d.got, s)
           /\ \A k : [d EXCEPT !.ok = k] = made(d.buf, k, d.got, d.vals)
           /\ \A g : [d EXCEPT !.ok = FALSE, !.got = g] = made(d.buf, FALSE, g, d.vals)
           /\ \A p, n : d.left - n = Size(p[2]) =>
                 taken(d, n, p) = made(p[2], d.ok, p[1], d.vals)
  <1> DEFINE R(b, l, k, g, v) == [buf |-> b, left |-> l, ok |-> k, got |-> g, vals |-> v]
             B == d.buf
             L == d.left
             K == d.ok
             G == d.got
             V == d.vals
  <1>1. /\ \A b, l, k, g, v, x : [R(b, l, k, g, v) EXCEPT !.vals = x] = R(b, l, k, g, x)
        /\ \A b, l, k, g, v, x : [R(b, l, k, g, v) EXCEPT !.ok = x] = R(b, l, x, g, v)
        /\ \A b, l, k, g, v, x : [R(b, l, k, g, v) EXCEPT !.got = x] = R(b, l, k, x, v)
        /\ \A b, l, k, g, v, x : [R(b, l, k, g, v) EXCEPT !.buf = x] = R(x, l, k, g, v)
        /\ \A b, l, k, g, v, x : [R(b, l, k, g, v) EXCEPT !.left = x] = R(b, x, k, g, v)
    OBVIOUS
  <1>2. d = R(B, L, K, G, V) /\ L = Size(B) /\ d.left = L
    BY DecoderParts
  <1>3. \A b, k, g, v : made(b, k, g, v) = R(b, Size(b), k, g, v)
    BY DEF made
  <1>4. /\ \A k, g : [d EXCEPT !.ok = k, !.got = g] = [[d EXCEPT !.ok = k] EXCEPT !.got = g]
        /\ \A b, l, g : [d EXCEPT !.got = g, !.buf = b, !.left = l] =
                          [[[d EXCEPT !.got = g] EXCEPT !.buf = b] EXCEPT !.left = l]
    BY <1>2
  <1>5. \A p, n : taken(d, n, p) = [d EXCEPT !.got = p[1], !.buf = p[2], !.left = L - n]
    BY <1>2 DEF taken
  <1> HIDE DEF R, B, L, K, G, V
  <1>6. /\ \A s : [d EXCEPT !.vals = s] = made(B, K, G, s)
        /\ \A k : [d EXCEPT !.ok = k] = made(B, k, G, V)
        /\ \A g : [d EXCEPT !.got = g] = R(B, L, K, g, V)
    BY <1>1, <1>2, <1>3
  <1>7. \A k, g : [d EXCEPT !.ok = k, !.got = g] = made(B, k, g, V)
    <2> TAKE k, g
    <2> DEFINE e == [d EXCEPT !.ok = k]
    <2>1. e = R(B, L, k, G, V)
      BY <1>2, <1>3, <1>6
    <2>2. [d EXCEPT !.ok = k, !.got = g] = [e EXCEPT !.got = g]
      BY <1>4
    <2> HIDE DEF e
    <2>3. [e EXCEPT !.got = g] = R(B, L, k, g, V)
      BY <1>1, <2>1
    <2> QED BY <1>2, <1>3, <2>2, <2>3
  <1>8. \A b, l, g : [d EXCEPT !.got = g, !.buf = b, !.left = l] = R(b, l, K, g, V)
    <2> TAKE b, l, g
    <2> DEFINE e == [d EXCEPT !.got = g]
               f == [e EXCEPT !.buf = b]
    <2>1. e = R(B, L, K, g, V)
      BY <1>6
    <2>2. [d EXCEPT !.got = g, !.buf = b, !.left = l] = [f EXCEPT !.left = l]
      BY <1>4
    <2> HIDE DEF e
    <2>3. f = R(b, L, K, g, V)
      BY <1>1, <2>1
    <2> HIDE DEF f
    <2>4. [f EXCEPT !.left = l] = R(b, l, K, g, V)
      BY <1>1, <2>3
    <2> QED BY <2>2, <2>4
  <1>9. ASSUME NEW p, NEW n, L - n = Size(p[2])
        PROVE  taken(d, n, p) = made(p[2], K, p[1], V)
    <2>1. taken(d, n, p) = [d EXCEPT !.got = p[1], !.buf = p[2], !.left = L - n]
      BY <1>5, Zenon
    <2>2. [d EXCEPT !.got = p[1], !.buf = p[2], !.left = L - n] = R(p[2], L - n, K, p[1], V)
      BY <1>8, Zenon
    <2> QED BY <1>3, <1>9, <2>1, <2>2
  <1>10. \A g : [d EXCEPT !.ok = FALSE, !.got = g] = made(B, FALSE, g, V)
    BY <1>7, Zenon
  <1> QED BY <1>6, <1>9, <1>10 DEF B, L, K, G, V

\* A decoder begins.
LEMMA DecoderType ==
    ASSUME NEW b \in Bytes
    PROVE  Is(decoder(b), b, TRUE, <<>>, <<>>)
  <1>1. <<>> \in Bytes /\ <<>> \in Seq(Values) /\ TRUE \in BOOLEAN
    BY DEF Bytes
  <1>2. decoder(b) = made(b, TRUE, <<>>, <<>>)
    BY DEF decoder, made
  <1>3. Is(made(b, TRUE, <<>>, <<>>), b, TRUE, <<>>, <<>>)
    BY <1>1, DecoderMade, Zenon
  <1> QED BY <1>2, <1>3, Zenon

\* A decoder with other values decoded, and one that has failed.
LEMMA DecoderVals ==
    ASSUME NEW d \in Decoder, NEW s \in Seq(Values)
    PROVE  Is([d EXCEPT !.vals = s], d.buf, d.ok, d.got, s)
  <1>1. [d EXCEPT !.vals = s] = made(d.buf, d.ok, d.got, s)
    BY DecoderEdits, Zenon
  <1>2. d.buf \in Bytes /\ d.ok \in BOOLEAN /\ d.got \in Bytes
    BY DecoderParts
  <1>3. Is(made(d.buf, d.ok, d.got, s), d.buf, d.ok, d.got, s)
    BY <1>2, DecoderMade, Zenon
  <1> QED BY <1>1, <1>3, Zenon

LEMMA DecoderFlag ==
    ASSUME NEW d \in Decoder, NEW k \in BOOLEAN
    PROVE  Is([d EXCEPT !.ok = k], d.buf, k, d.got, d.vals)
  <1>1. [d EXCEPT !.ok = k] = made(d.buf, k, d.got, d.vals)
    BY DecoderEdits, Zenon
  <1>2. d.buf \in Bytes /\ d.got \in Bytes /\ d.vals \in Seq(Values)
    BY DecoderParts
  <1>3. Is(made(d.buf, k, d.got, d.vals), d.buf, k, d.got, d.vals)
    BY <1>2, DecoderMade, Zenon
  <1> QED BY <1>1, <1>3, Zenon

\* One more value.
LEMMA PutType ==
    ASSUME NEW d \in Decoder, NEW v \in Values
    PROVE  Is(put(d, v), d.buf, d.ok, d.got, Append(d.vals, v))
  <1> DEFINE s == Append(d.vals, v)
  <1>1. s \in Seq(Values)
    BY DecoderParts
  <1>2. put(d, v) = [d EXCEPT !.vals = s]
    BY DEF put
  <1>3. Is([d EXCEPT !.vals = s], d.buf, d.ok, d.got, s)
    <2> HIDE DEF s
    <2> QED BY <1>1, DecoderVals, Zenon
  <1> QED BY <1>2, <1>3, Zenon

\* take gets so many bytes, or fails.
LEMMA TakeType ==
    ASSUME NEW d \in Decoder, NEW n \in Int
    PROVE  /\ take(d, n) \in Decoder /\ take(d, n).vals = d.vals
           /\ take(d, n).ok => d.ok /\ n >= 0 /\ Size(take(d, n).got) = n
           /\ ~take(d, n).ok => take(d, n).got = <<>>
  <1>1. /\ d.buf \in Bytes /\ d.left = Size(d.buf) /\ d.left \in Nat /\ d.ok \in BOOLEAN
        /\ d.vals \in Seq(Values) /\ <<>> \in Bytes /\ FALSE \in BOOLEAN
    BY DecoderParts DEF Bytes
  <1>2. CASE ~d.ok \/ n < 0 \/ n > d.left
    <2>1. take(d, n) = [d EXCEPT !.ok = FALSE, !.got = <<>>]
      BY <1>2 DEF take
    <2>2. take(d, n) = made(d.buf, FALSE, <<>>, d.vals)
      BY <2>1, DecoderEdits, Zenon
    <2>3. Is(made(d.buf, FALSE, <<>>, d.vals), d.buf, FALSE, <<>>, d.vals)
      BY <1>1, DecoderMade, Zenon
    <2> QED BY <2>2, <2>3 DEF Is
  <1>3. CASE ~(~d.ok \/ n < 0 \/ n > d.left)
    <2>1. d.ok /\ n \in Nat /\ n <= Size(d.buf)
      BY <1>1, <1>3
    <2>2. PICK a \in Bytes, b \in Bytes :
             cut(d.buf, n) = <<a, b>> /\ Size(a) = n /\ Size(b) = Size(d.buf) - n
      BY <1>1, <2>1, CutType
    <2>3. take(d, n) = taken(d, n, <<a, b>>)
      BY <1>3, <2>2 DEF take
    <2> DEFINE p == <<a, b>>
    <2>4. p[1] = a /\ p[2] = b /\ d.left - n = Size(p[2])
      BY <1>1, <2>2
    <2>5. taken(d, n, p) = made(p[2], d.ok, p[1], d.vals)
      <3> HIDE DEF p
      <3> QED BY <2>4, DecoderEdits, Zenon
    <2>6. take(d, n) = made(b, d.ok, a, d.vals)
      BY <2>3, <2>4, <2>5
    <2>7. Is(made(b, d.ok, a, d.vals), b, d.ok, a, d.vals)
      BY <1>1, <2>2, DecoderMade, Zenon
    <2>8. Is(take(d, n), b, d.ok, a, d.vals)
      BY <2>6, <2>7, Zenon
    <2> HIDE DEF p
    <2> QED BY <2>1, <2>2, <2>8 DEF Is
  <1> QED BY <1>2, <1>3

\* It gets what was written with that size.
LEMMA TakeWhole ==
    ASSUME NEW d, NEW a, NEW b, On(d, a, b)
    PROVE  Is(take(d, Size(a)), b, TRUE, a, d.vals)
  <1>1. d \in Decoder /\ d.ok /\ a \in Bytes /\ b \in Bytes /\ d.buf = a \o b
    BY DEF On
  <1>2. d.left = Size(d.buf) /\ d.ok \in BOOLEAN /\ d.vals \in Seq(Values)
    BY <1>1, DecoderParts
  <1>3. Size(a) \in Nat /\ Size(b) \in Nat /\ d.left = Size(a) + Size(b)
    BY <1>1, <1>2, SizeType, SizeConcat
  <1>4. cut(d.buf, Size(a)) = <<a, b>>
    BY <1>1, CutWhole
  <1>5. ~(~d.ok \/ Size(a) < 0 \/ Size(a) > d.left)
    BY <1>1, <1>3
  <1>6. take(d, Size(a)) = taken(d, Size(a), <<a, b>>)
    BY <1>4, <1>5 DEF take
  <1> DEFINE p == <<a, b>>
  <1>7. p[1] = a /\ p[2] = b /\ d.left - Size(a) = Size(p[2])
    BY <1>3
  <1>8. taken(d, Size(a), p) = made(p[2], d.ok, p[1], d.vals)
    <2> HIDE DEF p
    <2> QED BY <1>1, <1>7, DecoderEdits, Zenon
  <1>9. take(d, Size(a)) = made(b, d.ok, a, d.vals)
    BY <1>6, <1>7, <1>8
  <1>10. d.ok = TRUE
    BY <1>1, <1>2, Zenon
  <1>11. Is(made(b, d.ok, a, d.vals), b, d.ok, a, d.vals)
    BY <1>1, <1>2, DecoderMade, Zenon
  <1> QED BY <1>9, <1>10, <1>11, Zenon

\* A number is an integer, whatever was read.
LEMMA UintType ==
    ASSUME NEW d \in Decoder, NEW w \in Nat
    PROVE  Puts(d, uint(d, w), Int)
  <1> DEFINE t == take(d, w)
             x == CASE t.got = <<>> -> 0 [] Len(t.got) = 1 -> t.got[1].v [] OTHER -> Torn
  <1>1. t \in Decoder /\ t.vals = d.vals /\ (t.ok => d.ok)
    BY TakeType
  <1>2. t.got \in Bytes
    BY <1>1, DecoderParts
  <1>3. x \in Int
    <2> DEFINE g == t.got
    <2>1. Len(g) = 1 => g[1].v \in Int
      <3> HIDE DEF g
      <3>1. g \in Bytes
        BY <1>2 DEF g
      <3> QED BY <3>1, RunAt
    <2> HIDE DEF t
    <2> QED BY <2>1 DEF Torn
  <1>4. x \in Values
    BY <1>3 DEF Values, Scalars
  <1>5. uint(d, w) = put(t, x)
    BY DEF uint, number
  <1> HIDE DEF t, x
  <1>6. put(t, x) \in Decoder /\ put(t, x).vals = Append(t.vals, x) /\ put(t, x).ok = t.ok
    BY <1>1, <1>4, PutType DEF Is
  <1>7. uint(d, w).vals = Append(d.vals, x)
    BY <1>1, <1>5, <1>6
  <1> QED BY <1>1, <1>3, <1>5, <1>6, <1>7, Zenon DEF Puts

\* A number that was written with its width is read back.
LEMMA UintGets ==
    ASSUME NEW d, NEW w \in Nat \ {0}, NEW v \in Int, NEW b, On(d, <<Cell(w, v)>>, b)
    PROVE  Gets(d, uint(d, w), b, v)
  <1> DEFINE c == <<Cell(w, v)>>
             t == take(d, w)
  <1>1. c \in Bytes /\ Size(c) = w
    BY SizeOne
  <1>2. t \in Decoder /\ t.ok /\ t.got = c /\ t.buf = b /\ t.vals = d.vals
    <2> HIDE DEF c
    <2>1. On(d, c, b)
      BY DEF c
    <2>2. Is(take(d, Size(c)), b, TRUE, c, d.vals)
      BY <2>1, TakeWhole, Zenon
    <2> QED BY <1>1, <2>2 DEF Is
  <1>3. c # <<>> /\ Len(c) = 1 /\ c[1].v = v
    BY DEF Cell
  <1>4. uint(d, w) = put(t, v)
    BY <1>2, <1>3 DEF uint, number
  <1>5. v \in Values
    BY DEF Values, Scalars
  <1> HIDE DEF t
  <1>6. Is(put(t, v), t.buf, t.ok, t.got, Append(t.vals, v))
    BY <1>2, <1>5, PutType, Zenon
  <1> QED BY <1>2, <1>4, <1>6 DEF Gets, Is


\* A value that was decoded last, and the decoder without it.
LEMMA DropType ==
    ASSUME NEW d \in Decoder, NEW s \in Seq(Values), NEW v, d.vals = Append(s, v)
    PROVE  num(d) = v /\ Is(drop(d), d.buf, d.ok, d.got, s)
  <1>1. d.vals \in Seq(Values)
    BY DecoderParts
  <1>2. Last(d.vals) = v /\ Front(d.vals) = s
    <2>1. v \in Values
      <3>1. Len(s) + 1 \in 1..Len(d.vals) /\ d.vals[Len(s) + 1] = v
        OBVIOUS
      <3> QED BY <1>1, <3>1
    <2> QED BY <2>1 DEF Last, Front
  <1>3. drop(d) = [d EXCEPT !.vals = s]
    BY <1>2 DEF drop
  <1>4. Is([d EXCEPT !.vals = s], d.buf, d.ok, d.got, s)
    BY DecoderVals, Zenon
  <1> QED BY <1>2, <1>3, <1>4 DEF num

-----------------------------------------------------------------------------
(***************************************************************************)
(* Strings, qids and numbers.                                              *)
(***************************************************************************)

Qids        == {q \in Seq(Int) : Len(q) = 3}
ScalarKinds == {"u8", "u16", "u32", "u64", "str", "qid"}

\* What a field of kind k may hold.
ScalarOf(k) == CASE k = "str" -> Nat [] k = "qid" -> Qids [] OTHER -> Int

\* Encodings in a row can be taken apart in any order.
LEMMA Associates ==
    ASSUME NEW a \in Bytes, NEW b \in Bytes, NEW c \in Bytes
    PROVE  (a \o b) \o c = a \o (b \o c)
  BY DEF Bytes

\* The decoder is on the first of two encodings if it is on both.
LEMMA OnFirst ==
    ASSUME NEW d, NEW a \in Bytes, NEW b \in Bytes, NEW c, On(d, a \o b, c)
    PROVE  On(d, a, b \o c)
  <1>1. d \in Decoder /\ d.ok /\ c \in Bytes /\ d.buf = (a \o b) \o c
    BY DEF On
  <1>2. b \o c \in Bytes /\ (a \o b) \o c = a \o (b \o c)
    BY <1>1, SizeConcat, Associates
  <1> QED BY <1>1, <1>2, Zenon DEF On

\* The bytes of a string, behind its length.
text(s) == IF truncated(s) = 0 THEN <<>> ELSE <<Cell(truncated(s), Text)>>

LEMMA StringBytes ==
    ASSUME NEW s \in Nat
    PROVE  /\ truncated(s) \in Nat
           /\ string(s) \in Bytes /\ Size(string(s)) = 2 + truncated(s)
           /\ text(s) \in Bytes /\ Size(text(s)) = truncated(s)
           /\ string(s) = <<Cell(2, truncated(s))>> \o text(s)
  <1> DEFINE n == truncated(s)
             r == text(s)
  <1>1. n \in Nat
    BY DEF truncated
  <1>2. r \in Bytes /\ Size(r) = n
    <2>1. CASE n = 0
      <3>1. r = <<>> /\ <<>> \in Bytes
        BY <2>1 DEF Bytes, text
      <3> QED BY <2>1, <3>1, SizeType
    <2>2. CASE n # 0
      <3>1. r = <<Cell(n, Text)>> /\ n \in Nat \ {0} /\ Text \in Int
        BY <1>1, <2>2 DEF Text, text
      <3> HIDE DEF r
      <3> QED BY <3>1, SizeOne
    <2> QED BY <2>1, <2>2
  <1>3. string(s) = <<Cell(2, n)>> \o r
    BY DEF string, text
  <1>4. <<Cell(2, n)>> \in Bytes /\ Size(<<Cell(2, n)>>) = 2
    <2>1. 2 \in Nat \ {0} /\ n \in Int
      BY <1>1
    <2> HIDE DEF n
    <2> QED BY <2>1, SizeOne
  <1> HIDE DEF n, r
  <1>5. string(s) \in Bytes /\ Size(string(s)) = 2 + n
    BY <1>2, <1>3, <1>4, SizeConcat
  <1> QED BY <1>1, <1>2, <1>3, <1>5 DEF n, r

LEMMA StringGets ==
    ASSUME NEW d, NEW s \in Nat, NEW b, On(d, string(s), b)
    PROVE  Gets(d, getString(d), b, truncated(s))
  <1> DEFINE n == truncated(s)
             c == <<Cell(2, n)>>
             u == uint(d, 2)
             t == take(u, n)
  <1>1. n \in Nat /\ n \in Values /\ n \in Int /\ 2 \in Nat \ {0}
    <2>1. n \in Nat
      BY StringBytes, Zenon
    <2> HIDE DEF n
    <2> QED BY <2>1 DEF Values, Scalars
  <1> DEFINE r == text(s)
  <1>2. r \in Bytes /\ Size(r) = n /\ string(s) = c \o r
    BY StringBytes
  <1> HIDE DEF r
  <1>3. c \in Bytes /\ b \in Bytes /\ d \in Decoder /\ d.vals \in Seq(Values)
    <2>1. b \in Bytes /\ d \in Decoder
      BY DEF On
    <2> HIDE DEF n
    <2> QED BY <1>1, <2>1, SizeOne, DecoderParts
  <1>4. Gets(d, u, r \o b, n)
    <2>1. On(d, c \o r, b)
      BY <1>2
    <2>2. On(d, c, r \o b)
      <3> HIDE DEF c
      <3> QED BY <1>2, <1>3, <2>1, OnFirst, Zenon
    <2> HIDE DEF n
    <2> QED BY <1>1, <2>2, UintGets
  <1>5. u \in Decoder /\ u.ok /\ u.buf = r \o b /\ u.vals = Append(d.vals, n)
    BY <1>4 DEF Gets
  <1> HIDE DEF u, n
  <1>6. num(u) = n
    BY <1>3, <1>5, DropType
  <1>7. Is(t, b, TRUE, r, u.vals)
    <2>1. On(u, r, b)
      BY <1>2, <1>3, <1>5, Zenon DEF On
    <2>2. Is(take(u, Size(r)), b, TRUE, r, u.vals)
      BY <2>1, TakeWhole, Zenon
    <2> QED BY <1>2, <2>2, Zenon
  <1>8. getString(d) = stringOf(t)
    BY <1>6 DEF getString, takeCounted, u
  <1> HIDE DEF t
  <1>9. t \in Decoder /\ t.ok /\ t.buf = b /\ t.vals = Append(d.vals, n)
    BY <1>5, <1>7 DEF Is
  <1>10. num(t) = n /\ Is(drop(t), t.buf, t.ok, t.got, d.vals)
    BY <1>3, <1>9, DropType
  <1> DEFINE e == drop(t)
  <1>11. stringOf(t) = put(e, n)
    BY <1>9, <1>10 DEF stringOf
  <1>12. e \in Decoder /\ e.buf = b /\ e.ok /\ e.vals = d.vals
    BY <1>9, <1>10 DEF Is
  <1> HIDE DEF e
  <1>13. Is(put(e, n), e.buf, e.ok, e.got, Append(e.vals, n))
    BY <1>1, <1>12, PutType, Zenon
  <1>14. Gets(d, put(e, n), b, n)
    BY <1>12, <1>13 DEF Gets, Is
  <1> QED BY <1>8, <1>11, <1>14 DEF n


\* Three runs, one after the other.
LEMMA ThreeInARow ==
    ASSUME NEW A, NEW x \in A, NEW y \in A, NEW z \in A
    PROVE  <<x, y, z>> = <<x>> \o (<<y>> \o <<z>>)
  <1>1. <<y>> \o <<z>> = Append(<<y>>, z) /\ <<y, z>> = Append(<<y>>, z)
    OBVIOUS
  <1>2. <<x>> \o Append(<<y>>, z) = Append(<<x>> \o <<y>>, z)
    OBVIOUS
  <1>3. <<x>> \o <<y>> = Append(<<x>>, y) /\ <<x, y>> = Append(<<x>>, y)
    OBVIOUS
  <1>4. <<x, y, z>> = Append(<<x, y>>, z)
    OBVIOUS
  <1> QED BY <1>1, <1>2, <1>3, <1>4, Zenon

\* A sequence of three elements.
LEMMA ThreeOf ==
    ASSUME NEW A, NEW q \in Seq(A), Len(q) = 3
    PROVE  q[1] \in A /\ q[2] \in A /\ q[3] \in A /\ q = <<q[1], q[2], q[3]>>
  <1>1. q[1] \in A
    OBVIOUS
  <1>2. q[2] \in A
    OBVIOUS
  <1>3. q[3] \in A
    OBVIOUS
  <1> DEFINE t == <<q[1], q[2], q[3]>>
  <1>4. t \in Seq(A) /\ Len(t) = 3 /\ \A i \in 1..3 : t[i] = q[i]
    BY <1>1, <1>2, <1>3
  <1> HIDE DEF t
  <1>5. t = q
    BY <1>4, SeqEqual, Zenon
  <1> QED BY <1>1, <1>2, <1>3, <1>5 DEF t

LEMMA QidBytes ==
    ASSUME NEW q \in Qids
    PROVE  /\ qid(q) \in Bytes /\ Size(qid(q)) = 13
           /\ q[1] \in Int /\ q[2] \in Int /\ q[3] \in Int /\ q = <<q[1], q[2], q[3]>>
           /\ <<Cell(1, q[1])>> \in Bytes /\ <<Cell(4, q[2])>> \in Bytes
           /\ <<Cell(8, q[3])>> \in Bytes
           /\ qid(q) = <<Cell(1, q[1])>> \o (<<Cell(4, q[2])>> \o <<Cell(8, q[3])>>)
  <1>1. q[1] \in Int /\ q[2] \in Int /\ q[3] \in Int /\ q = <<q[1], q[2], q[3]>>
    <2>1. q \in Seq(Int) /\ Len(q) = 3
      BY DEF Qids
    <2> QED BY <2>1, ThreeOf, Zenon
  <1> DEFINE a == Cell(1, q[1])
             b == Cell(4, q[2])
             c == Cell(8, q[3])
  <1>2. /\ a \in Run /\ b \in Run /\ c \in Run
        /\ <<a>> \in Bytes /\ <<b>> \in Bytes /\ <<c>> \in Bytes
        /\ Size(<<a>>) = 1 /\ Size(<<b>>) = 4 /\ Size(<<c>>) = 8
    <2>1. 1 \in Nat \ {0} /\ 4 \in Nat \ {0} /\ 8 \in Nat \ {0}
      OBVIOUS
    <2> QED BY <1>1, <2>1, SizeOne
  <1>3. qid(q) = <<a, b, c>>
    BY DEF qid
  <1> HIDE DEF a, b, c
  <1>4. <<a, b, c>> = <<a>> \o (<<b>> \o <<c>>)
    BY <1>2, ThreeInARow, Zenon
  <1>5. <<b>> \o <<c>> \in Bytes /\ Size(<<b>> \o <<c>>) = 4 + 8
    BY <1>2, SizeConcat
  <1>6. <<a>> \o (<<b>> \o <<c>>) \in Bytes /\ Size(<<a>> \o (<<b>> \o <<c>>)) = 1 + (4 + 8)
    BY <1>2, <1>5, SizeConcat
  <1>8. qid(q) = <<a>> \o (<<b>> \o <<c>>)
    BY <1>3, <1>4
  <1>7. qid(q) \in Bytes /\ Size(qid(q)) = 13
    <2>1. 1 + (4 + 8) = 13
      OBVIOUS
    <2> QED BY <1>6, <1>8, <2>1, Zenon
  <1> QED BY <1>1, <1>2, <1>7, <1>8 DEF a, b, c

\* The last three values of a sequence.
LastAre(t, x, y, z) == SubSeq(t, Len(t) - 2, Len(t)) = <<x, y, z>>

LEMMA LastThree ==
    ASSUME NEW A, NEW s \in Seq(A), NEW x \in A, NEW y \in A, NEW z \in A, NEW t,
           t = Append(Append(Append(s, x), y), z)
    PROVE  LastAre(t, x, y, z)
  <1> DEFINE n == Len(s)
             r == SubSeq(t, Len(t) - 2, Len(t))
  <1>1. n \in Nat /\ t \in Seq(A) /\ Len(t) = n + 3
    OBVIOUS
  <1>2. t[n + 1] = x /\ t[n + 2] = y /\ t[n + 3] = z
    OBVIOUS
  <1>3. r \in Seq(A) /\ Len(r) = 3 /\ \A i \in 1..3 : r[i] = t[n + i]
    <2> HIDE DEF n
    <2>1. Len(t) - 2 = n + 1
      BY <1>1
    <2>2. r = SubSeq(t, n + 1, n + 3)
      BY <1>1, <2>1
    <2> QED BY <1>1, <2>2
  <1> DEFINE w == <<x, y, z>>
  <1>4. w \in Seq(A) /\ Len(w) = 3 /\ w[1] = x /\ w[2] = y /\ w[3] = z
    OBVIOUS
  <1> HIDE DEF r, n, w
  <1>5. \A i \in 1..3 : i = 1 \/ i = 2 \/ i = 3
    OBVIOUS
  <1>6. \A i \in 1..3 : r[i] = w[i]
    BY <1>2, <1>3, <1>4, <1>5
  <1>7. r = w
    BY <1>3, <1>4, <1>6, SeqEqual, Zenon
  <1> QED BY <1>7 DEF r, w, LastAre

LEMMA QidGets ==
    ASSUME NEW d, NEW q \in Qids, NEW b, On(d, qid(q), b)
    PROVE  Gets(d, getQid(d), b, q)
  <1> DEFINE A == <<Cell(1, q[1])>>
             B == <<Cell(4, q[2])>>
             C == <<Cell(8, q[3])>>
             x == uint(d, 1)
             y == uint(x, 4)
             z == uint(y, 8)
  <1>1. /\ q[1] \in Int /\ q[2] \in Int /\ q[3] \in Int /\ q = <<q[1], q[2], q[3]>>
        /\ A \in Bytes /\ B \in Bytes /\ C \in Bytes /\ qid(q) = A \o (B \o C)
        /\ 1 \in Nat \ {0} /\ 4 \in Nat \ {0} /\ 8 \in Nat \ {0}
    <2>1. 1 \in Nat \ {0} /\ 4 \in Nat \ {0} /\ 8 \in Nat \ {0}
      OBVIOUS
    <2> QED BY <2>1, QidBytes, Zenon
  <1>2. b \in Bytes /\ d \in Decoder /\ d.vals \in Seq(Values)
    BY DecoderParts DEF On
  <1> HIDE DEF A, B, C
  <1>3. B \o C \in Bytes /\ C \o b \in Bytes /\ (B \o C) \o b = B \o (C \o b)
    BY <1>1, <1>2, SizeConcat, Associates
  <1>4. Gets(d, x, B \o (C \o b), q[1])
    <2>1. On(d, A, (B \o C) \o b)
      BY <1>1, <1>3, OnFirst, Zenon
    <2>2. On(d, <<Cell(1, q[1])>>, B \o (C \o b))
      BY <1>3, <2>1 DEF A
    <2> QED BY <1>1, <2>2, UintGets
  <1>5. x \in Decoder /\ x.ok /\ x.buf = B \o (C \o b) /\ x.vals = Append(d.vals, q[1])
    BY <1>4 DEF Gets
  <1> HIDE DEF x
  <1>6. Gets(x, y, C \o b, q[2])
    <2>1. On(x, B, C \o b)
      BY <1>1, <1>3, <1>5, Zenon DEF On
    <2>2. On(x, <<Cell(4, q[2])>>, C \o b)
      BY <2>1 DEF B
    <2> QED BY <1>1, <2>2, UintGets
  <1>7. y \in Decoder /\ y.ok /\ y.buf = C \o b /\ y.vals = Append(x.vals, q[2])
    BY <1>6 DEF Gets
  <1> HIDE DEF y
  <1>8. Gets(y, z, b, q[3])
    <2>1. On(y, C, b)
      BY <1>1, <1>2, <1>7, Zenon DEF On
    <2>2. On(y, <<Cell(8, q[3])>>, b)
      BY <2>1 DEF C
    <2> QED BY <1>1, <2>2, UintGets
  <1>9. z \in Decoder /\ z.ok /\ z.buf = b /\ z.vals = Append(y.vals, q[3])
    BY <1>8 DEF Gets
  <1>10. q[1] \in Values /\ q[2] \in Values /\ q[3] \in Values /\ q \in Values
    BY <1>1 DEF Values, Scalars, Qids
  <1> DEFINE s == Append(d.vals, q)
  <1>11. getQid(d) = [z EXCEPT !.vals = s]
    <2>1. z.vals = Append(Append(Append(d.vals, q[1]), q[2]), q[3])
      BY <1>5, <1>7, <1>9
    <2>2. SubSeq(z.vals, Len(z.vals) - 2, Len(z.vals)) = <<q[1], q[2], q[3]>>
      <3> DEFINE t == z.vals
                 e == d.vals
                 i == q[1]
                 j == q[2]
                 k == q[3]
      <3>1. /\ e \in Seq(Values) /\ i \in Values /\ j \in Values /\ k \in Values
            /\ t = Append(Append(Append(e, i), j), k)
        BY <1>2, <1>10, <2>1
      <3> HIDE DEF t, e, i, j, k
      <3>2. LastAre(t, i, j, k)
        BY <3>1, LastThree, Zenon
      <3> QED BY <3>2 DEF t, i, j, k, LastAre
    <2>3. SubSeq(z.vals, Len(z.vals) - 2, Len(z.vals)) = q
      BY <1>1, <2>2, Zenon
    <2>4. getQid(d) = lastThree(z, d.vals)
      BY DEF getQid, x, y
    <2>5. lastThree(z, d.vals) =
             [z EXCEPT !.vals = Append(d.vals, SubSeq(z.vals, Len(z.vals) - 2, Len(z.vals)))]
      BY DEF lastThree
    <2> QED BY <2>3, <2>4, <2>5
  <1>12. s \in Seq(Values)
    BY <1>2, <1>10
  <1> HIDE DEF z, s
  <1>13. Is([z EXCEPT !.vals = s], z.buf, z.ok, z.got, s)
    BY <1>9, <1>12, DecoderVals, Zenon
  <1>14. Gets(d, [z EXCEPT !.vals = s], b, q)
    BY <1>9, <1>13 DEF Gets, Is, s
  <1> QED BY <1>11, <1>14

\* Any of them.
LEMMA ScalarBytes ==
    ASSUME NEW k \in ScalarKinds, NEW v \in ScalarOf(k)
    PROVE  /\ scalar(k, v) \in Bytes /\ scalarCarried(k, v) \in ScalarOf(k)
           /\ scalarCarried(k, v) \in Scalars
           /\ k \notin {"str", "qid"} => Size(scalar(k, v)) = Width[k]
  <1>1. CASE k = "str"
    <2>1. v \in Nat /\ scalar(k, v) = string(v) /\ scalarCarried(k, v) = truncated(v)
      BY <1>1 DEF ScalarOf, scalar, scalarCarried
    <2>2. string(v) \in Bytes /\ truncated(v) \in Nat
      BY <2>1, StringBytes, Zenon
    <2>3. truncated(v) \in Scalars /\ ScalarOf(k) = Nat
      BY <1>1, <2>2 DEF Scalars, ScalarOf
    <2> QED BY <1>1, <2>1, <2>2, <2>3
  <1>2. CASE k = "qid"
    <2>1. v \in Qids /\ scalar(k, v) = qid(v) /\ scalarCarried(k, v) = v
      BY <1>2 DEF ScalarOf, scalar, scalarCarried
    <2>2. qid(v) \in Bytes
      BY <2>1, QidBytes
    <2> QED BY <1>2, <2>1, <2>2 DEF Scalars, Qids
  <1>3. CASE k \notin {"str", "qid"}
    <2>1. v \in Int /\ scalar(k, v) = <<Cell(Width[k], v)>> /\ scalarCarried(k, v) = v
      BY <1>3 DEF ScalarOf, scalar, scalarCarried
    <2>2. Width[k] \in Nat \ {0}
      BY <1>3 DEF Width, ScalarKinds
    <2>3. <<Cell(Width[k], v)>> \in Bytes /\ Size(<<Cell(Width[k], v)>>) = Width[k]
      BY <2>1, <2>2, SizeOne
    <2> QED BY <2>1, <2>3 DEF Scalars
  <1> QED BY <1>1, <1>2, <1>3

LEMMA ScalarGets ==
    ASSUME NEW d, NEW k \in ScalarKinds, NEW v \in ScalarOf(k), NEW b, On(d, scalar(k, v), b)
    PROVE  Gets(d, getScalar(d, k), b, scalarCarried(k, v))
  <1>1. CASE k = "str"
    <2>1. /\ v \in Nat /\ scalar(k, v) = string(v) /\ scalarCarried(k, v) = truncated(v)
          /\ getScalar(d, k) = getString(d)
      BY <1>1 DEF ScalarOf, scalar, scalarCarried, getScalar
    <2> QED BY <2>1, StringGets
  <1>2. CASE k = "qid"
    <2>1. /\ v \in Qids /\ scalar(k, v) = qid(v) /\ scalarCarried(k, v) = v
          /\ getScalar(d, k) = getQid(d)
      BY <1>2 DEF ScalarOf, scalar, scalarCarried, getScalar
    <2> QED BY <2>1, QidGets
  <1>3. CASE k \notin {"str", "qid"}
    <2>1. /\ v \in Int /\ scalar(k, v) = <<Cell(Width[k], v)>> /\ scalarCarried(k, v) = v
          /\ getScalar(d, k) = uint(d, Width[k])
      BY <1>3 DEF ScalarOf, scalar, scalarCarried, getScalar
    <2>2. Width[k] \in Nat \ {0}
      BY <1>3 DEF Width, ScalarKinds
    <2>3. On(d, <<Cell(Width[k], v)>>, b)
      BY <2>1
    <2>4. Gets(d, uint(d, Width[k]), b, v)
      BY <2>1, <2>2, <2>3, UintGets
    <2> QED BY <2>1, <2>4
  <1> QED BY <1>1, <1>2, <1>3


-----------------------------------------------------------------------------
(***************************************************************************)
(* Several fields in a row.                                                *)
(***************************************************************************)

\* F are the encodings of the first fields of P.
Flattens(F, P) ==
    /\ F \in [0..Len(P) -> Bytes] /\ F[0] = <<>>
    /\ \A i \in 1..Len(P) : F[i] = F[i - 1] \o P[i]

\* FlattenSeq puts them in a row.
LEMMA FlattenGoes ==
    ASSUME NEW P \in Seq(Bytes)
    PROVE  \E F : Flattens(F, P) /\ FlattenSeq(P) = F[Len(P)]
  <1> DEFINE N == Len(P)
             G == [i \in 1..N |-> [a \in Bytes |-> a \o P[i]]]
  <1>1. N \in Nat /\ (\A i \in 1..N : P[i] \in Bytes) /\ (N = 0 => P = <<>>)
    OBVIOUS
  <1>2. G \in [1..N -> [Bytes -> Bytes]]
    <2>1. \A i \in 1..N : \A a \in Bytes : a \o P[i] \in Bytes
      <3> HIDE DEF N
      <3> QED BY <1>1, SizeConcat
    <2> HIDE DEF N
    <2> QED BY <2>1
  <1>3. <<>> \in Bytes
    BY DEF Bytes
  <1>4. PICK F \in [0..N -> Bytes] : Goes(N, <<>>, G, F)
    <2> HIDE DEF G, N
    <2> QED BY <1>1, <1>2, <1>3, StepsExist, Zenon
  <1> HIDE DEF N
  <1>5. F[0] = <<>>
    BY <1>4 DEF Goes
  <1>6. ASSUME NEW i \in 1..N PROVE F[i] = F[i - 1] \o P[i]
    <2>1. F[i] = G[i][F[i - 1]] /\ i - 1 \in 0..N
      <3>1. i - 1 \in 0..N
        BY <1>1
      <3> HIDE DEF G
      <3> QED BY <1>4, <3>1, Zenon DEF Goes
    <2>2. F[i - 1] \in Bytes
      BY <1>4, <2>1
    <2> QED BY <2>1, <2>2
  <1>7. Flattens(F, P)
    <2> HIDE DEF G
    <2> QED BY <1>4, <1>5, <1>6 DEF Flattens, N
  <1>8. CASE N = 0
    <2>1. FlattenSeq(P) = P /\ P = <<>>
      BY <1>1, <1>8 DEF FlattenSeq, N
    <2> QED BY <1>5, <1>7, <1>8, <2>1 DEF N
  <1>9. CASE N # 0
    <2> DEFINE f == CHOOSE f : f = [i \in 1..N |-> IF i = 1 THEN P[i] ELSE f[i - 1] \o P[i]]
               g == [i \in 1..N |-> F[i]]
    <2>1. FlattenSeq(P) = f[N]
      BY <1>9, Zenon DEF FlattenSeq, N
    <2>2. ASSUME NEW i \in 1..N PROVE g[i] = IF i = 1 THEN P[i] ELSE g[i - 1] \o P[i]
      <3>1. CASE i = 1
        <4>1. F[1] = F[0] \o P[1]
          <5>1. 1 \in 1..N /\ 1 - 1 = 0
            BY <1>1, <1>9
          <5> QED BY <1>6, <5>1
        <4>2. P[1] \in Bytes
          BY <1>1, <3>1
        <4>3. <<>> \o P[1] = P[1]
          BY <4>2 DEF Bytes
        <4>4. g[1] = P[1]
          BY <1>5, <3>1, <4>1, <4>3
        <4> HIDE DEF g
        <4> QED BY <3>1, <4>4
      <3>2. CASE i # 1
        <4>1. i - 1 \in 1..N
          BY <1>1, <3>2
        <4>2. g[i - 1] = F[i - 1] /\ g[i] = F[i]
          BY <4>1
        <4> HIDE DEF g
        <4> QED BY <1>6, <3>2, <4>2
      <3> QED BY <3>1, <3>2
    <2>3. g = [i \in 1..N |-> IF i = 1 THEN P[i] ELSE g[i - 1] \o P[i]]
      <3>1. g = [i \in 1..N |-> g[i]]
        OBVIOUS
      <3> HIDE DEF g
      <3> QED BY <2>2, <3>1
    <2>4. f = [i \in 1..N |-> IF i = 1 THEN P[i] ELSE f[i - 1] \o P[i]]
      <3> HIDE DEF g, G
      <3> QED BY <2>3, Zenon
    <2> HIDE DEF f, g, G
    <2>5. \A i \in 1..N : f[i] = IF i = 1 THEN P[i] ELSE f[i - 1] \o P[i]
      BY <2>4
    <2> DEFINE S == {i \in Nat : i \in 1..N => f[i] = F[i]}
    <2>6. 0 \in S
      OBVIOUS
    <2>7. ASSUME NEW i \in 1..N, i - 1 \in S PROVE i \in S
      <3>1. f[i] = IF i = 1 THEN P[i] ELSE f[i - 1] \o P[i]
        BY <2>5
      <3>2. g[i] = (IF i = 1 THEN P[i] ELSE g[i - 1] \o P[i]) /\ g[i] = F[i]
        BY <2>2 DEF g
      <3>3. CASE i = 1
        BY <3>1, <3>2, <3>3
      <3>4. CASE i # 1
        <4>1. i - 1 \in 1..N
          BY <1>1, <3>4
        <4>2. f[i - 1] = F[i - 1] /\ F[i] = F[i - 1] \o P[i]
          BY <1>6, <2>7, <4>1
        <4>3. f[i] = F[i]
          BY <3>1, <3>4, <4>2
        <4> QED BY <4>3
      <3> QED BY <3>3, <3>4
    <2>8. 0..N \subseteq S
      <3>1. S \in SUBSET Nat
        OBVIOUS
      <3> HIDE DEF S
      <3> QED BY <1>1, <2>6, <2>7, <3>1, UpTo
    <2>9. f[N] = F[N]
      <3>1. N \in 0..N /\ N \in 1..N
        BY <1>1, <1>9
      <3>2. N \in S
        <4> HIDE DEF S
        <4> QED BY <2>8, <3>1
      <3> QED BY <3>1, <3>2
    <2> QED BY <1>7, <2>1, <2>9 DEF N
  <1> QED BY <1>8, <1>9

\* What is left to read, with b behind the fields: R[i] once i of them are read.
Remains(R, P, b) ==
    /\ R \in [0..Len(P) -> Bytes] /\ R[Len(P)] = b
    /\ \A i \in 1..Len(P) : R[i - 1] = P[i] \o R[i]

LEMMA FlattenRemains ==
    ASSUME NEW P \in Seq(Bytes), NEW b \in Bytes
    PROVE  /\ FlattenSeq(P) \in Bytes
           /\ \E R : Remains(R, P, b) /\ R[0] = FlattenSeq(P) \o b
  <1> DEFINE N == Len(P)
             G == [j \in 1..N |-> [a \in Bytes |-> P[N - j + 1] \o a]]
  <1>1. N \in Nat /\ (\A i \in 1..N : P[i] \in Bytes)
    OBVIOUS
  <1>2. PICK F : Flattens(F, P) /\ FlattenSeq(P) = F[N]
    BY FlattenGoes
  <1>3. /\ F \in [0..N -> Bytes] /\ F[0] = <<>>
        /\ \A i \in 1..N : F[i] = F[i - 1] \o P[i]
    BY <1>2 DEF Flattens
  <1>4. G \in [1..N -> [Bytes -> Bytes]]
    <2> HIDE DEF N
    <2>1. ASSUME NEW j \in 1..N, NEW a \in Bytes PROVE P[N - j + 1] \o a \in Bytes
      <3>1. N - j + 1 \in 1..N
        BY <1>1
      <3> QED BY <1>1, <3>1, SizeConcat
    <2> QED BY <2>1
  <1>5. PICK K \in [0..N -> Bytes] : Goes(N, b, G, K)
    <2> HIDE DEF G, N
    <2> QED BY <1>1, <1>4, StepsExist, Zenon
  <1> HIDE DEF N
  <1>6. K[0] = b
    BY <1>5 DEF Goes
  <1>7. ASSUME NEW j \in 1..N PROVE K[j] = P[N - j + 1] \o K[j - 1] /\ K[j - 1] \in Bytes
    <2>1. K[j] = G[j][K[j - 1]] /\ j - 1 \in 0..N
      <3>1. j - 1 \in 0..N
        BY <1>1
      <3> HIDE DEF G
      <3> QED BY <1>5, <3>1, Zenon DEF Goes
    <2>2. K[j - 1] \in Bytes
      BY <1>5, <2>1
    <2> QED BY <2>1, <2>2
  <1> HIDE DEF G
  <1> DEFINE R == [i \in 0..N |-> K[N - i]]
  <1>8. R \in [0..N -> Bytes] /\ R[N] = b
    <2>1. \A i \in 0..N : N - i \in 0..N
      BY <1>1
    <2>2. N \in 0..N /\ N - N = 0
      BY <1>1
    <2> QED BY <1>5, <1>6, <2>1, <2>2
  <1>9. ASSUME NEW i \in 1..N PROVE R[i - 1] = P[i] \o R[i]
    <2> DEFINE j == N - i + 1
    <2>1. /\ j \in 1..N /\ N - j + 1 = i /\ j - 1 = N - i /\ N - (i - 1) = j
          /\ i - 1 \in 0..N /\ i \in 0..N
      BY <1>1
    <2> HIDE DEF j
    <2>2. K[j] = P[i] \o K[N - i]
      BY <1>7, <2>1
    <2> QED BY <2>1, <2>2
  <1>10. Remains(R, P, b)
    <2> HIDE DEF R
    <2> QED BY <1>8, <1>9 DEF Remains, N
  <1> HIDE DEF R
  <1> DEFINE S == {i \in Nat : i \in 0..N => F[i] \o R[i] = R[0]}
  <1>11. 0 \in S
    <2>1. F[0] \o R[0] = R[0]
      <3>1. R[0] \in Bytes
        BY <1>1, <1>8
      <3>2. <<>> \o R[0] = R[0]
        BY <3>1 DEF Bytes
      <3> QED BY <1>3, <3>2
    <2> QED BY <2>1
  <1>12. ASSUME NEW i \in 1..N, i - 1 \in S PROVE i \in S
    <2>1. i - 1 \in 0..N /\ i \in 0..N /\ i \in Nat
      BY <1>1
    <2>2. F[i - 1] \o R[i - 1] = R[0]
      BY <1>12, <2>1
    <2>3. F[i] = F[i - 1] \o P[i] /\ R[i - 1] = P[i] \o R[i]
      BY <1>3, <1>9
    <2>4. F[i - 1] \in Bytes /\ P[i] \in Bytes /\ R[i] \in Bytes
      BY <1>1, <1>3, <1>8, <2>1
    <2>5. (F[i - 1] \o P[i]) \o R[i] = F[i - 1] \o (P[i] \o R[i])
      BY <2>4, Associates
    <2>6. F[i] \o R[i] = R[0]
      BY <2>2, <2>3, <2>5, Zenon
    <2> QED BY <2>1, <2>6
  <1>13. 0..N \subseteq S
    <2>1. S \in SUBSET Nat
      OBVIOUS
    <2> HIDE DEF S
    <2> QED BY <1>1, <1>11, <1>12, <2>1, UpTo
  <1>14. N \in 0..N
    BY <1>1
  <1>15. F[N] \o R[N] = R[0]
    BY <1>13, <1>14
  <1>16. R[0] = FlattenSeq(P) \o b
    BY <1>2, <1>8, <1>15
  <1>17. FlattenSeq(P) \in Bytes
    BY <1>2, <1>3, <1>14
  <1> QED BY <1>10, <1>16, <1>17


\* A decoder that has come to b, without an error, with vals decoded.
Reached(e, b, vals) == e \in Decoder /\ e.ok /\ e.buf = b /\ e.vals = vals

\* h[i] is a decoder that has read i of the fields P as V, if the one before it
\* was on the field.
Follows(h, d, P, R, V) ==
    /\ h[0] = d /\ Reached(d, R[0], d.vals)
    /\ V \in Seq(Values) /\ Len(V) = Len(P)
    /\ \A i \in 1..Len(P) : On(h[i - 1], P[i], R[i]) => Gets(h[i - 1], h[i], R[i], V[i])

\* A longer prefix of the values decoded.
LEMMA MoreDecoded ==
    ASSUME NEW s \in Seq(Values), NEW V \in Seq(Values), NEW i \in 1..Len(V)
    PROVE  s \o SubSeq(V, 1, i) = Append(s \o SubSeq(V, 1, i - 1), V[i])
  <1>1. SubSeq(V, 1, i) = Append(SubSeq(V, 1, i - 1), V[i])
    BY LongerPrefix
  <1> DEFINE t == SubSeq(V, 1, i - 1)
             x == V[i]
  <1>2. t \in Seq(Values) /\ x \in Values
    OBVIOUS
  <1> HIDE DEF t, x
  <1>3. s \o Append(t, x) = Append(s \o t, x)
    BY <1>2
  <1> QED BY <1>1, <1>3 DEF t, x

LEMMA FollowsReach ==
    ASSUME NEW P \in Seq(Bytes), NEW b \in Bytes, NEW R, Remains(R, P, b),
           NEW d, NEW V, NEW h, Follows(h, d, P, R, V)
    PROVE  /\ \A i \in 1..Len(P) : On(h[i - 1], P[i], R[i])
           /\ Reached(h[Len(P)], b, d.vals \o V)
  <1> DEFINE N == Len(P)
             S == {i \in Nat : i \in 0..N => Reached(h[i], R[i], d.vals \o SubSeq(V, 1, i))}
  <1>1. N \in Nat /\ Len(V) = N /\ V \in Seq(Values) /\ \A i \in 1..N : P[i] \in Bytes
    BY DEF Follows
  <1>2. R \in [0..N -> Bytes] /\ R[N] = b /\ \A i \in 1..N : R[i - 1] = P[i] \o R[i]
    BY DEF Remains
  <1>3. /\ h[0] = d /\ Reached(d, R[0], d.vals)
        /\ \A i \in 1..N : On(h[i - 1], P[i], R[i]) => Gets(h[i - 1], h[i], R[i], V[i])
    BY DEF Follows
  <1>4. d.vals \in Seq(Values)
    BY <1>3, DecoderParts DEF Reached
  <1> HIDE DEF N
  <1>5. 0 \in S
    <2>1. SubSeq(V, 1, 0) = <<>>
      BY <1>1
    <2>2. d.vals \o <<>> = d.vals
      BY <1>4
    <2>3. Reached(h[0], R[0], d.vals \o SubSeq(V, 1, 0))
      BY <1>3, <2>1, <2>2, Zenon
    <2> QED BY <2>3
  <1>6. ASSUME NEW i \in 1..N, i - 1 \in S PROVE i \in S /\ On(h[i - 1], P[i], R[i])
    <2>1. i - 1 \in 0..N /\ i \in 0..N /\ i \in Nat /\ i \in 1..Len(V)
      BY <1>1
    <2>2. Reached(h[i - 1], R[i - 1], d.vals \o SubSeq(V, 1, i - 1))
      BY <1>6, <2>1
    <2>3. P[i] \in Bytes /\ R[i] \in Bytes /\ R[i - 1] = P[i] \o R[i]
      BY <1>1, <1>2, <2>1
    <2>4. On(h[i - 1], P[i], R[i])
      BY <2>2, <2>3, Zenon DEF On, Reached
    <2>5. Gets(h[i - 1], h[i], R[i], V[i])
      BY <1>3, <2>4
    <2>6. d.vals \o SubSeq(V, 1, i) = Append(d.vals \o SubSeq(V, 1, i - 1), V[i])
      BY <1>1, <1>4, <2>1, MoreDecoded, Zenon
    <2>7. Reached(h[i], R[i], d.vals \o SubSeq(V, 1, i))
      BY <2>2, <2>5, <2>6, Zenon DEF Reached, Gets
    <2> QED BY <2>1, <2>4, <2>7
  <1>7. 0..N \subseteq S
    <2>1. S \in SUBSET Nat
      OBVIOUS
    <2> HIDE DEF S
    <2> QED BY <1>1, <1>5, <1>6, <2>1, UpTo
  <1>8. ASSUME NEW i \in 1..N PROVE On(h[i - 1], P[i], R[i])
    <2>1. i - 1 \in 0..N
      BY <1>1
    <2> HIDE DEF S
    <2> QED BY <1>6, <1>7, <2>1
  <1>9. Reached(h[N], b, d.vals \o V)
    <2>1. N \in 0..N /\ N \in Nat /\ SubSeq(V, 1, N) = V
      BY <1>1
    <2>2. N \in S
      <3> HIDE DEF S
      <3> QED BY <1>7, <2>1
    <2>3. Reached(h[N], R[N], d.vals \o SubSeq(V, 1, N))
      BY <2>1, <2>2
    <2> QED BY <1>2, <2>1, <2>3, Zenon
  <1> QED BY <1>8, <1>9 DEF N

\* The steps G read P as V, and h goes through them.
Reads(G, P, R, V) ==
    /\ G \in [1..Len(P) -> [Decoder -> Decoder]] /\ V \in Seq(Values) /\ Len(V) = Len(P)
    /\ \A i \in 1..Len(P) : \A e \in Decoder : On(e, P[i], R[i]) => Gets(e, G[i][e], R[i], V[i])

Reader(h, d, G, P, R) ==
    /\ h \in [0..Len(P) -> Decoder] /\ h[0] = d
    /\ \A i \in 1..Len(P) : h[i] = G[i][h[i - 1]] /\ On(h[i - 1], P[i], R[i])

\* There is such a series of decoders.
LEMMA FollowerExists ==
    ASSUME NEW P \in Seq(Bytes), NEW b \in Bytes, NEW R, Remains(R, P, b),
           NEW d, Reached(d, R[0], d.vals), NEW G, NEW V, Reads(G, P, R, V)
    PROVE  \E h : Reader(h, d, G, P, R)
  <1> DEFINE N == Len(P)
  <1>1. N \in Nat /\ d \in Decoder
    BY DEF Reached
  <1>2. PICK h \in [0..N -> Decoder] : Goes(N, d, G, h)
    <2>1. G \in [1..N -> [Decoder -> Decoder]]
      BY DEF Reads
    <2> HIDE DEF N
    <2> QED BY <1>1, <2>1, StepsExist, Zenon
  <1>3. h[0] = d /\ \A i \in 1..N : h[i] = G[i][h[i - 1]]
    BY <1>2, Zenon DEF Goes
  <1>4. ASSUME NEW i \in 1..N, On(h[i - 1], P[i], R[i])
        PROVE  Gets(h[i - 1], h[i], R[i], V[i])
    <2>1. h[i - 1] \in Decoder
      BY <1>4 DEF On
    <2>2. Gets(h[i - 1], G[i][h[i - 1]], R[i], V[i])
      BY <1>4, <2>1, Zenon DEF Reads
    <2> QED BY <1>3, <2>2, Zenon
  <1>5. Follows(h, d, P, R, V)
    BY <1>3, <1>4, Zenon DEF Follows, Reads
  <1>6. \A i \in 1..N : On(h[i - 1], P[i], R[i])
    BY <1>5, FollowsReach, Zenon
  <1>7. Reader(h, d, G, P, R)
    BY <1>2, <1>3, <1>6, Zenon DEF Reader
  <1> QED BY <1>7, Zenon

\* Numbers, strings and qids in a row are read back.
LEMMA ScalarsGet ==
    ASSUME NEW d, NEW fs \in Seq(ScalarKinds), NEW vs, NEW b,
           \A i \in 1..Len(fs) : vs[i] \in ScalarOf(fs[i]),
           On(d, FlattenSeq([i \in 1..Len(fs) |-> scalar(fs[i], vs[i])]), b)
    PROVE  Reached(getAll(d, fs, getScalar), b,
                   d.vals \o [i \in 1..Len(fs) |-> scalarCarried(fs[i], vs[i])])
  <1> DEFINE N == Len(fs)
             P == [i \in 1..N |-> scalar(fs[i], vs[i])]
             V == [i \in 1..N |-> scalarCarried(fs[i], vs[i])]
             go == CHOOSE go : go = [i \in 0..N |-> IF i = 0 THEN d ELSE getScalar(go[i - 1], fs[i])]
             G == [i \in 1..N |-> [e \in Decoder |->
                      IF getScalar(e, fs[i]) \in Decoder THEN getScalar(e, fs[i]) ELSE e]]
  <1>1. getAll(d, fs, getScalar) = go[N]
    BY Zenon DEF getAll
  <1>2. N \in Nat /\ \A i \in 1..N : fs[i] \in ScalarKinds /\ vs[i] \in ScalarOf(fs[i])
    OBVIOUS
  <1> HIDE DEF N
  <1>3. \A i \in 1..N : scalar(fs[i], vs[i]) \in Bytes /\ scalarCarried(fs[i], vs[i]) \in Values
    BY <1>2, ScalarBytes DEF Values
  <1>4. P \in Seq(Bytes) /\ Len(P) = N /\ V \in Seq(Values) /\ Len(V) = N
    BY <1>2, <1>3
  <1>5. b \in Bytes /\ d \in Decoder /\ d.ok /\ d.buf = FlattenSeq(P) \o b
    BY DEF On, N
  <1>6. PICK R : Remains(R, P, b) /\ R[0] = FlattenSeq(P) \o b
    <2> HIDE DEF P
    <2> QED BY <1>4, <1>5, FlattenRemains
  <1>7. Reached(d, R[0], d.vals)
    BY <1>5, <1>6, Zenon DEF Reached
  <1>8. G \in [1..N -> [Decoder -> Decoder]]
    OBVIOUS
  <1>9. ASSUME NEW i \in 1..N, NEW e, On(e, P[i], R[i])
        PROVE  Gets(e, getScalar(e, fs[i]), R[i], V[i])
    <2>1. On(e, scalar(fs[i], vs[i]), R[i]) /\ V[i] = scalarCarried(fs[i], vs[i])
      BY <1>9
    <2> HIDE DEF V, P, G
    <2>2. Gets(e, getScalar(e, fs[i]), R[i], scalarCarried(fs[i], vs[i]))
      BY <1>2, <2>1, ScalarGets, Zenon
    <2> QED BY <2>1, <2>2, Zenon
  <1>10. ASSUME NEW i \in 1..N, NEW e \in Decoder, On(e, P[i], R[i])
         PROVE  G[i][e] = getScalar(e, fs[i])
    <2>1. getScalar(e, fs[i]) \in Decoder
      BY <1>9, <1>10 DEF Gets
    <2> QED BY <2>1
  <1> HIDE DEF P, V, G
  <1>11. PICK h \in [0..N -> Decoder] :
            /\ h[0] = d
            /\ \A i \in 1..N : h[i] = G[i][h[i - 1]] /\ On(h[i - 1], P[i], R[i])
    <2>1. \A i \in 1..N : \A e \in Decoder : On(e, P[i], R[i]) => Gets(e, G[i][e], R[i], V[i])
      BY <1>9, <1>10
    <2>2. Reads(G, P, R, V)
      BY <1>4, <1>8, <2>1, Zenon DEF Reads
    <2>3. PICK h : Reader(h, d, G, P, R)
      BY <1>4, <1>5, <1>6, <1>7, <2>2, FollowerExists, Zenon
    <2> QED BY <1>4, <2>3, Zenon DEF Reader
  <1>12. ASSUME NEW i \in 0..N PROVE h[i] = IF i = 0 THEN d ELSE getScalar(h[i - 1], fs[i])
    <2>1. CASE i = 0
      BY <1>11, <2>1
    <2>2. CASE i # 0
      <3>1. i \in 1..N
        BY <1>2, <2>2
      <3>2. h[i - 1] \in Decoder /\ On(h[i - 1], P[i], R[i])
        BY <1>11, <3>1 DEF On
      <3>3. h[i] = getScalar(h[i - 1], fs[i])
        BY <1>10, <1>11, <3>1, <3>2
      <3> QED BY <2>2, <3>3
    <2> QED BY <2>1, <2>2
  <1>13. h = [i \in 0..N |-> IF i = 0 THEN d ELSE getScalar(h[i - 1], fs[i])]
    BY <1>11, <1>12
  <1>14. go = [i \in 0..N |-> IF i = 0 THEN d ELSE getScalar(go[i - 1], fs[i])]
    BY <1>13, Zenon
  <1> HIDE DEF go
  <1>15. go[0] = d /\ \A i \in 1..N : go[i] = getScalar(go[i - 1], fs[i])
    BY <1>2, <1>14
  <1>16. Follows(go, d, P, R, V)
    BY <1>4, <1>7, <1>9, <1>15 DEF Follows
  <1>17. Reached(go[N], b, d.vals \o V)
    BY <1>4, <1>5, <1>6, <1>16, FollowsReach
  <1> QED BY <1>1, <1>17 DEF V, N


-----------------------------------------------------------------------------
(***************************************************************************)
(* The other kinds of fields.                                              *)
(***************************************************************************)

\* The number in front of a field, and the field.
LEMMA CountGets ==
    ASSUME NEW d, NEW w \in Nat \ {0}, NEW n \in Nat, NEW a \in Bytes, NEW b,
           On(d, <<Cell(w, n)>> \o a, b)
    PROVE  /\ d \in Decoder /\ d.vals \in Seq(Values) /\ b \in Bytes
           /\ Reached(uint(d, w), a \o b, Append(d.vals, n)) /\ num(uint(d, w)) = n
           /\ On(uint(d, w), a, b)
  <1> DEFINE c == <<Cell(w, n)>>
             u == uint(d, w)
  <1>1. d \in Decoder /\ b \in Bytes /\ d.vals \in Seq(Values)
    BY DecoderParts DEF On
  <1>2. c \in Bytes /\ n \in Int
    BY SizeOne
  <1>3. On(d, c, a \o b)
    <2> HIDE DEF c
    <2>1. On(d, c \o a, b)
      BY DEF c
    <2> QED BY <1>2, <2>1, OnFirst, Zenon
  <1>4. Gets(d, u, a \o b, n)
    BY <1>2, <1>3, UintGets
  <1>5. u \in Decoder /\ u.ok /\ u.buf = a \o b /\ u.vals = Append(d.vals, n)
    BY <1>4 DEF Gets
  <1> HIDE DEF u
  <1>6. num(u) = n
    BY <1>1, <1>5, DropType
  <1>7. Reached(u, a \o b, Append(d.vals, n)) /\ On(u, a, b)
    BY <1>1, <1>5, Zenon DEF Reached, On
  <1> QED BY <1>1, <1>6, <1>7 DEF u

\* The counted bytes have been taken, and x is put in place of the count.
LEMMA CountedPut ==
    ASSUME NEW s \in Seq(Values), NEW n, NEW t \in Decoder, t.vals = Append(s, n),
           NEW x \in Values
    PROVE  Is(put(drop(t), x), t.buf, t.ok, t.got, Append(s, x))
  <1> DEFINE e == drop(t)
  <1>1. Is(e, t.buf, t.ok, t.got, s)
    BY DropType
  <1>2. e \in Decoder /\ e.buf = t.buf /\ e.ok = t.ok /\ e.got = t.got /\ e.vals = s
    BY <1>1 DEF Is
  <1> HIDE DEF e
  <1>3. Is(put(e, x), e.buf, e.ok, e.got, Append(e.vals, x))
    BY <1>2, PutType, Zenon
  <1> QED BY <1>2, <1>3, Zenon DEF e

\* Data: its size has been put in front.
LEMMA DataBytes ==
    ASSUME NEW v \in Bytes
    PROVE  /\ <<Cell(4, Size(v))>> \o v \in Bytes
           /\ Size(<<Cell(4, Size(v))>> \o v) = 4 + Size(v)
  <1>1. Size(v) \in Nat /\ 4 \in Nat \ {0}
    BY SizeType
  <1>2. <<Cell(4, Size(v))>> \in Bytes /\ Size(<<Cell(4, Size(v))>>) = 4
    BY <1>1, SizeOne
  <1> QED BY <1>2, SizeConcat

LEMMA DataGets ==
    ASSUME NEW d, NEW v \in Bytes, NEW b, On(d, <<Cell(4, Size(v))>> \o v, b)
    PROVE  Gets(d, getBytes(d), b, v)
  <1> DEFINE n == Size(v)
             u == uint(d, 4)
             t == take(u, n)
  <1>1. n \in Nat /\ 4 \in Nat \ {0}
    BY SizeType
  <1>2. /\ d \in Decoder /\ d.vals \in Seq(Values) /\ Reached(u, v \o b, Append(d.vals, n))
        /\ num(u) = n /\ On(u, v, b)
    BY <1>1, CountGets, Zenon
  <1>3. Is(t, b, TRUE, v, u.vals)
    <2> HIDE DEF u
    <2> QED BY <1>2, TakeWhole, Zenon
  <1>4. getBytes(d) = bytesOf(t)
    BY <1>2 DEF getBytes, takeCounted
  <1> HIDE DEF u, t, n
  <1>5. t \in Decoder /\ t.buf = b /\ t.ok /\ t.got = v /\ t.vals = Append(d.vals, n)
    BY <1>2, <1>3 DEF Is, Reached
  <1>6. v \in Values
    BY DEF Values
  <1>7. Is(put(drop(t), v), t.buf, t.ok, t.got, Append(d.vals, v))
    BY <1>2, <1>5, <1>6, CountedPut, Zenon
  <1>8. bytesOf(t) = put(drop(t), v)
    BY <1>5 DEF bytesOf
  <1>9. Gets(d, put(drop(t), v), b, v)
    BY <1>5, <1>7 DEF Gets, Is
  <1> QED BY <1>4, <1>8, <1>9

\* Lists of names and of qids.
ListOf(k) == {v \in Seq(ScalarOf(k)) : Len(v) <= MaxWElem}

listCarried(k, v) == [i \in 1..Len(v) |-> scalarCarried(k, v[i])]
list(k, v)        == <<Cell(2, Len(v))>> \o FlattenSeq([i \in 1..Len(v) |-> scalar(k, v[i])])

LEMMA ListBytes ==
    ASSUME NEW k \in ScalarKinds, NEW v \in ListOf(k)
    PROVE  /\ Len(v) \in Nat /\ \A i \in 1..Len(v) : v[i] \in ScalarOf(k)
           /\ FlattenSeq([i \in 1..Len(v) |-> scalar(k, v[i])]) \in Bytes
           /\ list(k, v) \in Bytes /\ listCarried(k, v) \in Values
  <1> DEFINE n == Len(v)
             P == [i \in 1..n |-> scalar(k, v[i])]
  <1>1. n \in Nat /\ \A i \in 1..n : v[i] \in ScalarOf(k)
    BY DEF ListOf
  <1>2. \A i \in 1..n : scalar(k, v[i]) \in Bytes /\ scalarCarried(k, v[i]) \in Scalars
    BY <1>1, ScalarBytes
  <1> HIDE DEF n
  <1>3. P \in Seq(Bytes) /\ listCarried(k, v) \in Seq(Scalars)
    BY <1>1, <1>2 DEF listCarried, n
  <1>4. FlattenSeq(P) \in Bytes
    <2>1. <<>> \in Bytes
      BY DEF Bytes
    <2> HIDE DEF P
    <2> QED BY <1>3, <2>1, FlattenRemains
  <1>5. <<Cell(2, n)>> \in Bytes
    <2>1. 2 \in Nat \ {0} /\ n \in Int
      BY <1>1
    <2> QED BY <2>1, SizeOne
  <1> HIDE DEF P
  <1>6. <<Cell(2, n)>> \o FlattenSeq(P) \in Bytes
    BY <1>4, <1>5, SizeConcat
  <1> QED BY <1>1, <1>3, <1>4, <1>6 DEF list, n, P, Values

LEMMA ListGets ==
    ASSUME NEW d, NEW k \in ScalarKinds, NEW v \in ListOf(k), NEW b, On(d, list(k, v), b)
    PROVE  Gets(d, getList(d, k), b, listCarried(k, v))
  <1> DEFINE n == Len(v)
             a == FlattenSeq([i \in 1..n |-> scalar(k, v[i])])
             c == uint(d, 2)
             z == [c EXCEPT !.vals = <<>>]
             fs == [i \in 1..n |-> k]
             e == getAll(z, fs, getScalar)
             V == listCarried(k, v)
  <1>1. /\ n \in Nat /\ a \in Bytes /\ V \in Values /\ 2 \in Nat \ {0}
        /\ \A i \in 1..n : v[i] \in ScalarOf(k)
    <2>1. 2 \in Nat \ {0}
      OBVIOUS
    <2> QED BY <2>1, ListBytes, Zenon
  <1>2. On(d, <<Cell(2, n)>> \o a, b)
    BY DEF list
  <1> HIDE DEF a
  <1>3. /\ d \in Decoder /\ d.vals \in Seq(Values) /\ Reached(c, a \o b, Append(d.vals, n))
        /\ num(c) = n /\ On(c, a, b) /\ b \in Bytes
    BY <1>1, <1>2, CountGets, Zenon
  <1>4. c \in Decoder /\ c.ok /\ c.buf = a \o b /\ c.vals = Append(d.vals, n)
    BY <1>3 DEF Reached
  <1>5. Is(drop(c), c.buf, c.ok, c.got, d.vals)
    <2> HIDE DEF c
    <2> QED BY <1>3, <1>4, DropType, Zenon
  <1>6. getList(d, k) = listed(drop(c), e)
    <2>1. n <= MaxWElem /\ MaxWElem \in Nat
      BY DEF ListOf, MaxWElem
    <2>2. ~(~c.ok \/ num(c) > MaxWElem)
      <3> HIDE DEF c
      <3> QED BY <1>1, <1>3, <1>4, <2>1
    <2> QED BY <1>3, <2>2 DEF getList, elements
  <1> HIDE DEF c
  <1>7. Is(z, c.buf, c.ok, c.got, <<>>)
    <2>1. <<>> \in Seq(Values)
      OBVIOUS
    <2> QED BY <1>4, <2>1, DecoderVals, Zenon
  <1> HIDE DEF z
  <1>8. z \in Decoder /\ z.ok /\ z.buf = a \o b /\ z.vals = <<>>
    BY <1>4, <1>7 DEF Is
  <1>9. Reached(e, b, z.vals \o [i \in 1..Len(fs) |-> scalarCarried(fs[i], v[i])])
    <2>1. fs \in Seq(ScalarKinds) /\ Len(fs) = n /\ \A i \in 1..n : fs[i] = k
      BY <1>1
    <2>2. On(z, a, b)
      BY <1>1, <1>3, <1>8, Zenon DEF On
    <2>3. [i \in 1..Len(fs) |-> scalar(fs[i], v[i])] = [i \in 1..n |-> scalar(k, v[i])]
      BY <2>1
    <2>4. On(z, FlattenSeq([i \in 1..Len(fs) |-> scalar(fs[i], v[i])]), b)
      BY <2>2, <2>3 DEF a
    <2>5. \A i \in 1..Len(fs) : v[i] \in ScalarOf(fs[i])
      BY <1>1, <2>1
    <2> HIDE DEF fs
    <2> QED BY <2>1, <2>4, <2>5, ScalarsGet, Zenon
  <1>10. z.vals \o [i \in 1..Len(fs) |-> scalarCarried(fs[i], v[i])] = V
    <2>1. Len(fs) = n /\ \A i \in 1..n : fs[i] = k
      BY <1>1
    <2>2. [i \in 1..Len(fs) |-> scalarCarried(fs[i], v[i])] = V
      BY <2>1 DEF listCarried
    <2>3. V \in Seq(Scalars)
      <3>1. \A i \in 1..n : scalarCarried(k, v[i]) \in Scalars
        BY <1>1, ScalarBytes
      <3> QED BY <1>1, <3>1 DEF listCarried
    <2>4. <<>> \o V = V
      <3> HIDE DEF V
      <3> QED BY <2>3
    <2> QED BY <1>8, <2>2, <2>4, Zenon
  <1>11. e \in Decoder /\ e.ok /\ e.buf = b /\ e.vals = V
    BY <1>9, <1>10 DEF Reached
  <1> DEFINE s == Append(d.vals, V)
  <1>12. listed(drop(c), e) = [e EXCEPT !.vals = s]
    <2>1. drop(c).vals = d.vals
      BY <1>5 DEF Is
    <2> HIDE DEF e, V
    <2> QED BY <1>11, <2>1 DEF listed
  <1>13. s \in Seq(Values)
    BY <1>1, <1>3
  <1> HIDE DEF e, s, V
  <1>14. Is([e EXCEPT !.vals = s], e.buf, e.ok, e.got, s)
    BY <1>11, <1>13, DecoderVals, Zenon
  <1>15. Gets(d, [e EXCEPT !.vals = s], b, V)
    BY <1>11, <1>14 DEF Gets, Is, s
  <1> QED BY <1>6, <1>12, <1>15 DEF V


-----------------------------------------------------------------------------
(***************************************************************************)
(* Stats.                                                                  *)
(***************************************************************************)

\* Two sequences in a row.
LEMMA ConcatParts ==
    ASSUME NEW A, NEW p \in Seq(A), NEW x \in Seq(A)
    PROVE  /\ p \o x \in Seq(A) /\ Len(p \o x) = Len(p) + Len(x)
           /\ \A i \in 1..Len(p) : (p \o x)[i] = p[i]
           /\ \A i \in 1..Len(x) : (p \o x)[Len(p) + i] = x[i]
           /\ p \o <<>> = p /\ <<>> \o p = p
  OBVIOUS

LEMMA ConcatFirst ==
    ASSUME NEW A, NEW p \in Seq(A), NEW x \in Seq(A), NEW i \in 1..Len(p)
    PROVE  (p \o x)[i] = p[i]
  BY ConcatParts

LEMMA NumberScalar == \A x \in Int : x \in Scalars
  BY DEF Scalars

\* The fields that both dialects have come first.
LEMMA StatFields ==
    ASSUME NEW unix \in BOOLEAN
    PROVE  /\ statFields(unix) \in Seq(ScalarKinds)
           /\ Len(statFields(unix)) = IF unix THEN 15 ELSE 11
           /\ \A i \in 1..Len(statFields(unix)) : statFields(unix)[i] = statFields(TRUE)[i]
  <1> DEFINE p == <<"u16", "u32", "qid", "u32", "u32", "u32", "u64", "str", "str", "str", "str">>
             x == <<"str", "u32", "u32", "u32">>
  <1>1. p \in Seq(ScalarKinds) /\ Len(p) = 11 /\ x \in Seq(ScalarKinds) /\ Len(x) = 4
    BY DEF ScalarKinds
  <1>2. statFields(TRUE) = p \o x /\ statFields(FALSE) = p \o <<>>
    BY DEF statFields
  <1> HIDE DEF p, x
  <1>3. p \o x \in Seq(ScalarKinds) /\ Len(p \o x) = 15 /\ p \o <<>> = p
    <2>1. p \o x \in Seq(ScalarKinds) /\ Len(p \o x) = Len(p) + Len(x) /\ p \o <<>> = p
      BY <1>1, ConcatParts, Zenon
    <2> QED BY <1>1, <2>1
  <1>4. \A i \in 1..11 : (p \o x)[i] = p[i]
    <2>1. \A i \in 1..Len(p) : (p \o x)[i] = p[i]
      BY <1>1, ConcatFirst, Zenon
    <2> QED BY <1>1, <2>1
  <1>5. CASE unix = TRUE
    BY <1>2, <1>3, <1>5
  <1>6. CASE unix = FALSE
    <2>1. statFields(unix) = p /\ statFields(TRUE) = p \o x
      BY <1>2, <1>3, <1>6
    <2> QED BY <1>1, <1>4, <1>6, <2>1
  <1> QED BY <1>5, <1>6

\* What a Stat may hold.
Stats == {s \in Seq(Scalars) :
             Len(s) = 15 /\ \A i \in 1..15 : s[i] \in ScalarOf(statFields(TRUE)[i])}

LEMMA StatBytes ==
    ASSUME NEW s \in Stats, NEW unix \in BOOLEAN
    PROVE  /\ statBody(s, unix) \in Bytes /\ Size(statBody(s, unix)) \in Nat
           /\ statBody(s, unix) =
                 FlattenSeq([i \in 1..Len(statFields(unix)) |-> scalar(statFields(unix)[i], s[i])])
           /\ statFields(unix) \in Seq(ScalarKinds) /\ Len(statFields(unix)) \in {11, 15}
           /\ \A i \in 1..Len(statFields(unix)) : s[i] \in ScalarOf(statFields(unix)[i])
           /\ statCarried(s, unix) \in Seq(Scalars)
  <1> DEFINE fs == statFields(unix)
             n == Len(fs)
             P == [i \in 1..n |-> scalar(fs[i], s[i])]
  <1>1. /\ fs \in Seq(ScalarKinds) /\ n \in {11, 15}
        /\ \A i \in 1..n : fs[i] = statFields(TRUE)[i]
    BY StatFields
  <1>2. \A i \in 1..n : i \in 1..15 /\ fs[i] \in ScalarKinds
    BY <1>1
  <1>3. /\ Len(s) = 15 /\ s \in Seq(Scalars)
        /\ \A i \in 1..15 : s[i] \in ScalarOf(statFields(TRUE)[i]) /\ s[i] \in Scalars
    <2>1. /\ Len(s) = 15 /\ s \in Seq(Scalars)
          /\ \A i \in 1..15 : s[i] \in ScalarOf(statFields(TRUE)[i])
      BY DEF Stats
    <2>2. \A i \in 1..Len(s) : s[i] \in Scalars
      BY <2>1, ElementOfSeq, Zenon
    <2> QED BY <2>1, <2>2
  <1>4. \A i \in 1..n : s[i] \in ScalarOf(fs[i])
    BY <1>1, <1>2, <1>3
  <1>5. \A i \in 1..n : scalar(fs[i], s[i]) \in Bytes
    <2> HIDE DEF fs
    <2> QED BY <1>2, <1>4, ScalarBytes
  <1>6. P \in Seq(Bytes)
    <2> HIDE DEF fs
    <2> QED BY <1>1, <1>5
  <1>7. FlattenSeq(P) \in Bytes
    <2>1. <<>> \in Bytes
      BY DEF Bytes
    <2> HIDE DEF P
    <2> QED BY <1>6, <2>1, FlattenRemains
  <1>8. statBody(s, unix) = FlattenSeq(P)
    <2>1. DOMAIN fs = 1..n
      BY <1>1
    <2>2. statBody(s, unix) = FlattenSeq([i \in DOMAIN fs |-> scalar(fs[i], s[i])])
      BY DEF statBody
    <2> QED BY <2>1, <2>2
  <1>9. statCarried(s, unix) \in Seq(Scalars)
    <2> DEFINE C(j) == IF j <= n THEN scalarCarried(statFields(TRUE)[j], s[j]) ELSE 0
    <2>1. ASSUME NEW j \in 1..15 PROVE C(j) \in Scalars
      <3>1. CASE j <= n
        <4>1. j \in 1..n
          BY <1>1, <3>1
        <4>2. fs[j] \in ScalarKinds /\ s[j] \in ScalarOf(fs[j]) /\ fs[j] = statFields(TRUE)[j]
          BY <1>1, <1>2, <1>4, <4>1
        <4>3. scalarCarried(statFields(TRUE)[j], s[j]) \in Scalars
          BY <4>2, ScalarBytes
        <4>4. C(j) = scalarCarried(statFields(TRUE)[j], s[j])
          BY <3>1
        <4> HIDE DEF C
        <4> QED BY <4>3, <4>4
      <3>2. CASE ~(j <= n)
        <4>1. C(j) = 0
          BY <3>2
        <4> HIDE DEF C
        <4> QED BY <4>1, NumberScalar
      <3> QED BY <3>1, <3>2
    <2>2. statCarried(s, unix) = [j \in 1..15 |-> C(j)]
      BY DEF statCarried
    <2> HIDE DEF C
    <2> QED BY <2>1, <2>2
  <1> HIDE DEF P, fs
  <1>10. statBody(s, unix) \in Bytes /\ Size(statBody(s, unix)) \in Nat
    BY <1>7, <1>8, SizeType
  <1> QED BY <1>1, <1>4, <1>8, <1>9, <1>10 DEF P, fs

\* What Stat's own decoder reads, with the fields of the other dialect zeroed.
LEMMA StatZeroed ==
    ASSUME NEW s \in Stats, NEW unix \in BOOLEAN
    PROVE  zeroed([i \in 1..Len(statFields(unix)) |-> scalarCarried(statFields(unix)[i], s[i])], 15)
               = statCarried(s, unix)
  <1> DEFINE fs == statFields(unix)
             n == Len(fs)
             V == [i \in 1..n |-> scalarCarried(fs[i], s[i])]
             Z == [i \in 1..(15 - n) |-> 0]
             W == statCarried(s, unix)
  <1>1. /\ fs \in Seq(ScalarKinds) /\ n \in {11, 15} /\ W \in Seq(Scalars)
        /\ \A i \in 1..n : s[i] \in ScalarOf(fs[i]) /\ fs[i] \in ScalarKinds
    <2>1. /\ fs \in Seq(ScalarKinds) /\ n \in {11, 15} /\ W \in Seq(Scalars)
          /\ \A i \in 1..n : s[i] \in ScalarOf(fs[i])
      BY StatBytes
    <2> HIDE DEF fs, W
    <2> QED BY <2>1
  <1>2. \A i \in 1..n : fs[i] = statFields(TRUE)[i]
    BY StatFields
  <1>3. zeroed(V, 15) = V \o Z /\ Len(V) = n
    <2> HIDE DEF fs
    <2>1. Len(V) = n
      BY <1>1
    <2> HIDE DEF V
    <2> QED BY <2>1 DEF zeroed
  <1>4. V \in Seq(Scalars) /\ Z \in Seq(Scalars) /\ Len(Z) = 15 - n
    <2> HIDE DEF fs
    <2>1. \A i \in 1..n : scalarCarried(fs[i], s[i]) \in Scalars
      BY <1>1, ScalarBytes
    <2>2. 0 \in Scalars /\ 15 - n \in Nat
      <3>1. 0 \in Scalars
        BY NumberScalar
      <3>2. ASSUME NEW m \in {11, 15} PROVE 15 - m \in Nat
        OBVIOUS
      <3>3. 15 - n \in Nat
        BY <1>1, <3>2
      <3> QED BY <3>1, <3>3
    <2> QED BY <1>1, <2>1, <2>2
  <1>5. \A i \in 1..n : V[i] = scalarCarried(fs[i], s[i])
    OBVIOUS
  <1>6. \A i \in 1..(15 - n) : Z[i] = 0
    OBVIOUS
  <1>7. /\ Len(W) = 15
        /\ \A j \in 1..15 : j > n => W[j] = 0
        /\ \A j \in 1..n : W[j] = scalarCarried(fs[j], s[j])
    <2>1. Len(W) = 15
      BY <1>1 DEF statCarried
    <2>2. ASSUME NEW j \in 1..15, j > n PROVE W[j] = 0
      <3>1. ~(j <= Len(statFields(unix)))
        BY <1>1, <2>2
      <3> QED BY <3>1 DEF statCarried
    <2>3. ASSUME NEW j \in 1..n PROVE W[j] = scalarCarried(fs[j], s[j])
      <3>1. j \in 1..15 /\ j <= Len(statFields(unix))
        <4>1. ASSUME NEW m \in {11, 15}, NEW i \in 1..m PROVE i \in 1..15 /\ i <= m
          OBVIOUS
        <4> QED BY <1>1, <4>1
      <3>2. W[j] = scalarCarried(statFields(TRUE)[j], s[j])
        BY <3>1 DEF statCarried
      <3>3. fs[j] = statFields(TRUE)[j]
        BY <1>2
      <3> HIDE DEF W, fs
      <3> QED BY <3>2, <3>3
    <2> QED BY <2>1, <2>2, <2>3
  <1> HIDE DEF V, Z, W, fs
  <1>8. /\ V \o Z \in Seq(Scalars) /\ Len(V \o Z) = 15
        /\ \A j \in 1..n : (V \o Z)[j] = V[j]
        /\ \A j \in 1..15 : j > n => (V \o Z)[j] = Z[j - n]
    <2>1. /\ V \o Z \in Seq(Scalars) /\ Len(V \o Z) = Len(V) + Len(Z)
          /\ \A j \in 1..Len(V) : (V \o Z)[j] = V[j]
          /\ \A j \in 1..Len(Z) : (V \o Z)[Len(V) + j] = Z[j]
      BY <1>4, ConcatParts
    <2>2. n \in Nat /\ n + (15 - n) = 15
      BY <1>1
    <2>3. ASSUME NEW j \in 1..15, j > n PROVE (V \o Z)[j] = Z[j - n]
      <3>1. j - n \in 1..Len(Z) /\ Len(V) + (j - n) = j
        BY <1>3, <1>4, <2>2, <2>3
      <3> QED BY <2>1, <3>1
    <2> QED BY <1>3, <1>4, <2>1, <2>2, <2>3
  <1>9. ASSUME NEW j \in 1..15 PROVE (V \o Z)[j] = W[j]
    <2>1. CASE j > n
      <3>1. j - n \in 1..(15 - n)
        BY <1>1, <2>1
      <3> QED BY <1>6, <1>7, <1>8, <2>1, <3>1
    <2>2. CASE ~(j > n)
      <3>1. j \in 1..n
        BY <1>1, <2>2
      <3> QED BY <1>5, <1>7, <1>8, <3>1
    <2> QED BY <2>1, <2>2
  <1>10. V \o Z = W
    BY <1>1, <1>7, <1>8, <1>9, SeqEqual, Zenon
  <1> QED BY <1>3, <1>10 DEF V, W, fs


\* take leaves what it does not get.
LEMMA TakeLeaves ==
    ASSUME NEW d \in Decoder, NEW n \in Int
    PROVE  Size(take(d, n).buf) = IF take(d, n).ok THEN Size(d.buf) - n ELSE Size(d.buf)
  <1>1. /\ d.buf \in Bytes /\ d.left = Size(d.buf) /\ d.left \in Nat /\ d.ok \in BOOLEAN
        /\ d.vals \in Seq(Values) /\ <<>> \in Bytes /\ FALSE \in BOOLEAN
    BY DecoderParts DEF Bytes
  <1>2. CASE ~d.ok \/ n < 0 \/ n > d.left
    <2>1. take(d, n) = [d EXCEPT !.ok = FALSE, !.got = <<>>]
      BY <1>2 DEF take
    <2>2. take(d, n) = made(d.buf, FALSE, <<>>, d.vals)
      BY <2>1, DecoderEdits, Zenon
    <2>3. Is(made(d.buf, FALSE, <<>>, d.vals), d.buf, FALSE, <<>>, d.vals)
      BY <1>1, DecoderMade, Zenon
    <2> QED BY <2>2, <2>3 DEF Is
  <1>3. CASE ~(~d.ok \/ n < 0 \/ n > d.left)
    <2>1. d.ok /\ n \in Nat /\ n <= Size(d.buf)
      BY <1>1, <1>3
    <2>2. PICK a \in Bytes, b \in Bytes :
             cut(d.buf, n) = <<a, b>> /\ Size(a) = n /\ Size(b) = Size(d.buf) - n
      BY <1>1, <2>1, CutType
    <2>3. take(d, n) = taken(d, n, <<a, b>>)
      BY <1>3, <2>2 DEF take
    <2> DEFINE p == <<a, b>>
    <2>4. p[1] = a /\ p[2] = b /\ d.left - n = Size(p[2])
      BY <1>1, <2>2
    <2>5. taken(d, n, p) = made(p[2], d.ok, p[1], d.vals)
      <3> HIDE DEF p
      <3> QED BY <2>4, DecoderEdits, Zenon
    <2>6. take(d, n) = made(b, d.ok, a, d.vals)
      BY <2>3, <2>4, <2>5
    <2>7. Is(made(b, d.ok, a, d.vals), b, d.ok, a, d.vals)
      BY <1>1, <2>2, DecoderMade, Zenon
    <2>8. Is(take(d, n), b, d.ok, a, d.vals)
      BY <2>6, <2>7, Zenon
    <2> HIDE DEF p
    <2> QED BY <2>1, <2>2, <2>8 DEF Is
  <1> QED BY <1>2, <1>3

\* The size of a Stat fits its 16 bits.
Counted(s, unix) == Size(statBody(s, unix)) < 65536

\* Such a Stat is read back.
LEMMA StatGets ==
    ASSUME NEW d, NEW s \in Stats, NEW unix \in BOOLEAN, Counted(s, unix),
           NEW b, On(d, stat(s, unix), b)
    PROVE  Gets(d, getStat(d, unix), b, statCarried(s, unix))
  <1> DEFINE a == statBody(s, unix)
             n == Size(a)
             u == uint(d, 2)
             t == take(u, n)
             fs == statFields(unix)
             V == [i \in 1..Len(fs) |-> scalarCarried(fs[i], s[i])]
             sd == getAll(decoder(a), fs, getScalar)
             x == statCarried(s, unix)
  <1>1. /\ a \in Bytes /\ n \in Nat /\ fs \in Seq(ScalarKinds)
        /\ a = FlattenSeq([i \in 1..Len(fs) |-> scalar(fs[i], s[i])])
        /\ \A i \in 1..Len(fs) : s[i] \in ScalarOf(fs[i])
        /\ x \in Seq(Scalars)
    BY StatBytes
  <1>2. 2 \in Nat \ {0}
    OBVIOUS
  <1>3. On(d, <<Cell(2, n)>> \o a, b)
    <2>1. n % 65536 = n
      BY <1>1 DEF Counted
    <2> QED BY <2>1 DEF stat
  <1> HIDE DEF a
  <1>4. /\ d \in Decoder /\ d.vals \in Seq(Values) /\ Reached(u, a \o b, Append(d.vals, n))
        /\ num(u) = n /\ On(u, a, b)
    BY <1>1, <1>2, <1>3, CountGets, SMTT(40)
  <1>5. Is(t, b, TRUE, a, u.vals)
    <2> HIDE DEF u
    <2> QED BY <1>4, TakeWhole, Zenon
  <1>6. getStat(d, unix) = statIn(t, unix)
    BY <1>4 DEF getStat, takeCounted
  <1> HIDE DEF u, t, n
  <1>7. t \in Decoder /\ t.buf = b /\ t.ok /\ t.ok = TRUE /\ t.got = a /\ t.vals = Append(d.vals, n)
    BY <1>4, <1>5 DEF Is, Reached
  <1>8. statIn(t, unix) = statOf(t, sd)
    BY <1>7 DEF statIn
  <1>9. decoder(a) \in Decoder /\ decoder(a).ok /\ decoder(a).buf = a /\ decoder(a).vals = <<>>
    BY <1>1, DecoderType DEF Is
  <1> DEFINE z == decoder(a)
  <1>10. On(z, a, <<>>)
    <2>1. <<>> \in Bytes /\ a = a \o <<>>
      BY <1>1 DEF Bytes
    <2> QED BY <1>1, <1>9, <2>1, Zenon DEF On
  <1> HIDE DEF z, fs
  <1>11. Reached(getAll(z, fs, getScalar), <<>>, z.vals \o V)
    <2>1. On(z, FlattenSeq([i \in 1..Len(fs) |-> scalar(fs[i], s[i])]), <<>>)
      BY <1>1, <1>10, Zenon
    <2> QED BY <1>1, <2>1, ScalarsGet, Zenon
  <1>12. sd.ok /\ sd.buf = <<>> /\ sd.vals = z.vals \o V
    BY <1>11 DEF Reached, z
  <1>13. z.vals \o V = V
    <2>1. \A i \in 1..Len(fs) : fs[i] \in ScalarKinds
      BY <1>1
    <2>2. \A i \in 1..Len(fs) : scalarCarried(fs[i], s[i]) \in Scalars
      BY <1>1, <2>1, ScalarBytes
    <2>3. V \in Seq(Scalars)
      BY <1>1, <2>2
    <2>4. z.vals = <<>>
      BY <1>9 DEF z
    <2> HIDE DEF V
    <2> QED BY <2>3, <2>4
  <1>14. zeroed(sd.vals, 15) = x
    <2>1. zeroed(V, 15) = x
      BY StatZeroed DEF fs
    <2> QED BY <1>12, <1>13, <2>1, Zenon
  <1>15. x \in Values
    BY <1>1 DEF Values
  <1> DEFINE e == put(drop(t), x)
  <1>16. Is(e, t.buf, t.ok, t.got, Append(d.vals, x))
    BY <1>4, <1>7, <1>15, CountedPut, Zenon
  <1>17. e \in Decoder /\ e.buf = b /\ e.ok = TRUE /\ e.vals = Append(d.vals, x)
    BY <1>7, <1>16 DEF Is
  <1>18. done(sd) = TRUE
    BY <1>12 DEF done
  <1>19. statOf(t, sd) = [e EXCEPT !.ok = (t.ok /\ done(sd))]
    BY <1>14 DEF statOf
  <1>20. (t.ok /\ done(sd)) = TRUE
    BY <1>7, <1>18, Zenon
  <1> HIDE DEF e, sd, x
  <1>21. statOf(t, sd) = [e EXCEPT !.ok = TRUE]
    BY <1>19, <1>20, Zenon
  <1>22. Is([e EXCEPT !.ok = TRUE], e.buf, TRUE, e.got, e.vals)
    <2>1. TRUE \in BOOLEAN
      OBVIOUS
    <2> QED BY <1>17, <2>1, DecoderFlag, Zenon
  <1>23. Gets(d, [e EXCEPT !.ok = TRUE], b, x)
    BY <1>17, <1>22 DEF Gets, Is
  <1> QED BY <1>6, <1>8, <1>21, <1>23 DEF x

\* One whose size has wrapped leaves some of its bytes unread.
LEMMA StatLeaves ==
    ASSUME NEW d, NEW s \in Stats, NEW unix \in BOOLEAN, ~Counted(s, unix),
           NEW b, On(d, stat(s, unix), b)
    PROVE  getStat(d, unix).buf # <<>>
  <1> DEFINE a == statBody(s, unix)
             m == Size(a)
             n == m % 65536
             u == uint(d, 2)
             t == take(u, n)
             sd == getAll(decoder(t.got), statFields(unix), getScalar)
  <1>1. a \in Bytes /\ m \in Nat
    BY StatBytes
  <1>2. n \in Nat /\ n < m /\ 2 \in Nat \ {0}
    BY <1>1 DEF Counted
  <1>3. On(d, <<Cell(2, n)>> \o a, b)
    BY DEF stat
  <1> HIDE DEF a, n
  <1>4. /\ d \in Decoder /\ d.vals \in Seq(Values) /\ b \in Bytes
        /\ Reached(u, a \o b, Append(d.vals, n)) /\ num(u) = n
    BY <1>1, <1>2, <1>3, CountGets
  <1>5. u \in Decoder /\ u.buf = a \o b /\ u.vals = Append(d.vals, n)
    BY <1>4 DEF Reached
  <1>6. getStat(d, unix) = statOf(t, sd)
    BY <1>4 DEF getStat, takeCounted, statIn
  <1> HIDE DEF u
  <1>7. t \in Decoder /\ t.vals = Append(d.vals, n) /\ n \in Int
    <2>1. n \in Int
      BY <1>2
    <2>2. t \in Decoder /\ t.vals = u.vals
      BY <1>5, <2>1, TakeType, Zenon
    <2> QED BY <1>5, <2>1, <2>2, Zenon
  <1>8. t.buf # <<>>
    <2>1. Size(u.buf) = m + Size(b) /\ Size(b) \in Nat
      BY <1>1, <1>4, <1>5, SizeConcat, SizeType
    <2>2. Size(t.buf) = IF t.ok THEN Size(u.buf) - n ELSE Size(u.buf)
      BY <1>5, <1>7, TakeLeaves, Zenon
    <2> HIDE DEF t, m
    <2>3. Size(t.buf) > 0
      BY <1>1, <1>2, <2>1, <2>2
    <2> QED BY <2>3, SizeType
  <1> HIDE DEF t, sd
  <1> DEFINE e == drop(t)
             z == zeroed(sd.vals, 15)
             k == t.ok /\ done(sd)
  <1>9. Is(e, t.buf, t.ok, t.got, d.vals)
    BY <1>4, <1>7, DropType
  <1>10. e \in Decoder /\ e.buf = t.buf
    BY <1>9 DEF Is
  <1>11. statOf(t, sd) = [put(e, z) EXCEPT !.ok = k]
    BY DEF statOf
  <1> HIDE DEF e, z, k
  <1>12. put(e, z) = made(e.buf, e.ok, e.got, Append(e.vals, z))
    <2>1. put(e, z) = [e EXCEPT !.vals = Append(e.vals, z)]
      BY DEF put
    <2> QED BY <1>10, <2>1, DecoderEdits, Zenon
  <1>14. statOf(t, sd).buf = e.buf
    <2> DEFINE r == Append(e.vals, z)
    <2>1. [made(e.buf, e.ok, e.got, r) EXCEPT !.ok = k].buf = e.buf
      <3> HIDE DEF r
      <3> QED BY DEF made
    <2>2. statOf(t, sd) = [made(e.buf, e.ok, e.got, r) EXCEPT !.ok = k]
      BY <1>11, <1>12, Zenon
    <2> QED BY <2>1, <2>2, Zenon
  <1> QED BY <1>6, <1>8, <1>10, <1>14


-----------------------------------------------------------------------------
(***************************************************************************)
(* Messages.                                                               *)
(***************************************************************************)

FieldKinds == ScalarKinds \cup {"names", "qids", "data", "stat"}

\* What a field of kind k may hold.
FieldOf(k) ==
    CASE k = "names" -> ListOf("str")
      [] k = "qids"  -> ListOf("qid")
      [] k = "data"  -> Bytes
      [] k = "stat"  -> Stats
      [] OTHER       -> ScalarOf(k)

\* A list of names or qids as field writes it, and as Carried has it.
LEMMA ListField ==
    ASSUME NEW unix, NEW v
    PROVE  /\ v \in ListOf("str") => /\ field("names", v, unix) = list("str", v)
                                     /\ fieldCarried("names", v, unix) = listCarried("str", v)
           /\ v \in ListOf("qid") => /\ field("qids", v, unix) = list("qid", v)
                                     /\ fieldCarried("qids", v, unix) = listCarried("qid", v)
  <1>1. ASSUME NEW A, NEW w \in Seq(A), Len(w) <= MaxWElem
        PROVE  DOMAIN w = 1..Len(w) /\ Len(w) % 65536 = Len(w)
    BY <1>1 DEF MaxWElem
  <1>2. ASSUME v \in ListOf("str")
        PROVE  /\ field("names", v, unix) = list("str", v)
               /\ fieldCarried("names", v, unix) = listCarried("str", v)
    <2>1. DOMAIN v = 1..Len(v) /\ Len(v) % 65536 = Len(v)
      BY <1>1, <1>2 DEF ListOf
    <2>2. [i \in DOMAIN v |-> string(v[i])] = [i \in 1..Len(v) |-> scalar("str", v[i])]
      BY <2>1 DEF scalar
    <2>3. fieldCarried("names", v, unix) = listCarried("str", v)
      BY <2>1 DEF fieldCarried, listCarried, scalarCarried
    <2>4. field("names", v, unix) =
             <<Cell(2, Len(v) % 65536)>> \o FlattenSeq([i \in DOMAIN v |-> string(v[i])])
      BY DEF field
    <2> DEFINE X == [i \in DOMAIN v |-> string(v[i])]
               Y == [i \in 1..Len(v) |-> scalar("str", v[i])]
    <2>5. list("str", v) = <<Cell(2, Len(v))>> \o FlattenSeq(Y)
      BY DEF list
    <2>6. Cell(2, Len(v) % 65536) = Cell(2, Len(v))
      BY <2>1
    <2>7. X = Y /\ field("names", v, unix) = <<Cell(2, Len(v) % 65536)>> \o FlattenSeq(X)
      BY <2>2, <2>4
    <2> HIDE DEF X, Y
    <2> QED BY <2>3, <2>5, <2>6, <2>7
  <1>3. ASSUME v \in ListOf("qid")
        PROVE  /\ field("qids", v, unix) = list("qid", v)
               /\ fieldCarried("qids", v, unix) = listCarried("qid", v)
    <2>1. DOMAIN v = 1..Len(v) /\ Len(v) % 65536 = Len(v)
      BY <1>1, <1>3 DEF ListOf
    <2>2. [i \in DOMAIN v |-> qid(v[i])] = [i \in 1..Len(v) |-> scalar("qid", v[i])]
      BY <2>1 DEF scalar
    <2>3. fieldCarried("qids", v, unix) = listCarried("qid", v)
      <3>1. fieldCarried("qids", v, unix) = v
        BY DEF fieldCarried, scalarCarried
      <3>2. listCarried("qid", v) = [i \in 1..Len(v) |-> v[i]]
        BY DEF listCarried, scalarCarried
      <3>3. v = [i \in 1..Len(v) |-> v[i]]
        BY <1>3 DEF ListOf
      <3> QED BY <3>1, <3>2, <3>3
    <2>4. field("qids", v, unix) =
             <<Cell(2, Len(v) % 65536)>> \o FlattenSeq([i \in DOMAIN v |-> qid(v[i])])
      BY DEF field
    <2> DEFINE X == [i \in DOMAIN v |-> qid(v[i])]
               Y == [i \in 1..Len(v) |-> scalar("qid", v[i])]
    <2>5. list("qid", v) = <<Cell(2, Len(v))>> \o FlattenSeq(Y)
      BY DEF list
    <2>6. Cell(2, Len(v) % 65536) = Cell(2, Len(v))
      BY <2>1
    <2>7. X = Y /\ field("qids", v, unix) = <<Cell(2, Len(v) % 65536)>> \o FlattenSeq(X)
      BY <2>2, <2>4
    <2> HIDE DEF X, Y
    <2> QED BY <2>3, <2>5, <2>6, <2>7
  <1> QED BY <1>2, <1>3

\* A field's encoding, and what arrives of it.
LEMMA FieldBytes ==
    ASSUME NEW k \in FieldKinds, NEW v \in FieldOf(k), NEW unix \in BOOLEAN
    PROVE  field(k, v, unix) \in Bytes /\ fieldCarried(k, v, unix) \in Values
  <1>1. CASE k = "names"
    <2>1. v \in ListOf("str") /\ "str" \in ScalarKinds
      BY <1>1 DEF FieldOf, ScalarKinds
    <2> QED BY <1>1, <2>1, ListField, ListBytes, Zenon
  <1>2. CASE k = "qids"
    <2>1. v \in ListOf("qid") /\ "qid" \in ScalarKinds
      BY <1>2 DEF FieldOf, ScalarKinds
    <2> QED BY <1>2, <2>1, ListField, ListBytes, Zenon
  <1>3. CASE k = "data"
    <2>1. /\ v \in Bytes /\ field(k, v, unix) = <<Cell(4, Size(v))>> \o v
          /\ fieldCarried(k, v, unix) = v
      BY <1>3 DEF FieldOf, field, fieldCarried, scalarCarried
    <2> QED BY <2>1, DataBytes DEF Values
  <1>4. CASE k = "stat"
    <2>1. v \in Stats /\ field(k, v, unix) = stat(v, unix) /\ fieldCarried(k, v, unix) = statCarried(v, unix)
      BY <1>4 DEF FieldOf, field, fieldCarried
    <2> DEFINE a == statBody(v, unix)
               n == Size(a) % 65536
    <2>2. a \in Bytes /\ Size(a) \in Nat /\ statCarried(v, unix) \in Seq(Scalars)
      BY <2>1, StatBytes
    <2>3. n \in Int /\ 2 \in Nat \ {0}
      BY <2>2
    <2>4. stat(v, unix) = <<Cell(2, n)>> \o a
      BY DEF stat
    <2> HIDE DEF a, n
    <2>5. <<Cell(2, n)>> \in Bytes
      BY <2>3, SizeOne
    <2>6. <<Cell(2, n)>> \o a \in Bytes
      BY <2>2, <2>5, SizeConcat
    <2> QED BY <2>1, <2>2, <2>4, <2>6 DEF Values
  <1>5. CASE k \notin {"names", "qids", "data", "stat"}
    <2>1. /\ k \in ScalarKinds /\ v \in ScalarOf(k) /\ field(k, v, unix) = scalar(k, v)
          /\ fieldCarried(k, v, unix) = scalarCarried(k, v)
      BY <1>5 DEF FieldOf, FieldKinds, field, fieldCarried
    <2>2. scalar(k, v) \in Bytes /\ scalarCarried(k, v) \in Scalars
      BY <2>1, ScalarBytes
    <2> QED BY <2>1, <2>2 DEF Values
  <1> QED BY <1>1, <1>2, <1>3, <1>4, <1>5

\* It is read back, in the dialect it was written in if it is a Stat.
Legible(k, v, unix, u) == k = "stat" => u = unix /\ Counted(v, unix)

LEMMA FieldGets ==
    ASSUME NEW d, NEW k \in FieldKinds, NEW v \in FieldOf(k), NEW unix \in BOOLEAN, NEW u,
           Legible(k, v, unix, u), NEW b, On(d, field(k, v, unix), b)
    PROVE  Gets(d, unmarshalField(d, k, u), b, fieldCarried(k, v, unix))
  <1>1. CASE k = "names"
    <2>1. v \in ListOf("str") /\ "str" \in ScalarKinds /\ unmarshalField(d, k, u) = getList(d, "str")
      BY <1>1 DEF FieldOf, ScalarKinds, unmarshalField
    <2>2. field(k, v, unix) = list("str", v) /\ fieldCarried(k, v, unix) = listCarried("str", v)
      BY <1>1, <2>1, ListField, Zenon
    <2>3. On(d, list("str", v), b)
      BY <2>2
    <2>4. Gets(d, getList(d, "str"), b, listCarried("str", v))
      BY <2>1, <2>3, ListGets, Zenon
    <2> QED BY <2>1, <2>2, <2>4
  <1>2. CASE k = "qids"
    <2>1. v \in ListOf("qid") /\ "qid" \in ScalarKinds /\ unmarshalField(d, k, u) = getList(d, "qid")
      BY <1>2 DEF FieldOf, ScalarKinds, unmarshalField
    <2>2. field(k, v, unix) = list("qid", v) /\ fieldCarried(k, v, unix) = listCarried("qid", v)
      BY <1>2, <2>1, ListField, Zenon
    <2>3. On(d, list("qid", v), b)
      BY <2>2
    <2>4. Gets(d, getList(d, "qid"), b, listCarried("qid", v))
      BY <2>1, <2>3, ListGets, Zenon
    <2> QED BY <2>1, <2>2, <2>4
  <1>3. CASE k = "data"
    <2>1. /\ v \in Bytes /\ field(k, v, unix) = <<Cell(4, Size(v))>> \o v
          /\ fieldCarried(k, v, unix) = v /\ unmarshalField(d, k, u) = getBytes(d)
      BY <1>3 DEF FieldOf, field, fieldCarried, scalarCarried, unmarshalField
    <2>2. On(d, <<Cell(4, Size(v))>> \o v, b)
      BY <2>1
    <2>3. Gets(d, getBytes(d), b, v)
      BY <2>1, <2>2, DataGets, Zenon
    <2> QED BY <2>1, <2>3
  <1>4. CASE k = "stat"
    <2>1. /\ v \in Stats /\ field(k, v, unix) = stat(v, unix) /\ u = unix /\ Counted(v, unix)
          /\ fieldCarried(k, v, unix) = statCarried(v, unix) /\ unmarshalField(d, k, u) = getStat(d, u)
      BY <1>4 DEF FieldOf, field, fieldCarried, Legible, unmarshalField
    <2>2. On(d, stat(v, unix), b)
      BY <2>1
    <2>3. Gets(d, getStat(d, unix), b, statCarried(v, unix))
      BY <2>1, <2>2, StatGets, Zenon
    <2> QED BY <2>1, <2>3
  <1>5. CASE k \notin {"names", "qids", "data", "stat"}
    <2>1. /\ k \in ScalarKinds /\ v \in ScalarOf(k) /\ field(k, v, unix) = scalar(k, v)
          /\ fieldCarried(k, v, unix) = scalarCarried(k, v) /\ unmarshalField(d, k, u) = getScalar(d, k)
      BY <1>5 DEF FieldOf, FieldKinds, field, fieldCarried, unmarshalField
    <2>2. On(d, scalar(k, v), b)
      BY <2>1
    <2>3. Gets(d, getScalar(d, k), b, scalarCarried(k, v))
      BY <2>1, <2>2, ScalarGets, Zenon
    <2> QED BY <2>1, <2>3
  <1> QED BY <1>1, <1>2, <1>3, <1>4, <1>5


\* The fields of a message are read back.
gotFields(d, fs, u)   == getAll(d, fs, LAMBDA e, k : unmarshalField(e, k, u))
written(fs, vs, unix) == FlattenSeq([i \in 1..Len(fs) |-> field(fs[i], vs[i], unix)])
carried(fs, vs, unix) == [i \in 1..Len(fs) |-> fieldCarried(fs[i], vs[i], unix)]

AllLegible(fs, vs, unix, u) ==
    \A i \in 1..Len(fs) : vs[i] \in FieldOf(fs[i]) /\ Legible(fs[i], vs[i], unix, u)

LEMMA FieldsGet ==
    ASSUME NEW d, NEW fs \in Seq(FieldKinds), NEW vs, NEW b, NEW unix \in BOOLEAN, NEW u,
           AllLegible(fs, vs, unix, u), On(d, written(fs, vs, unix), b)
    PROVE  Reached(gotFields(d, fs, u), b, d.vals \o carried(fs, vs, unix))
  <1> DEFINE N == Len(fs)
             P == [i \in 1..N |-> field(fs[i], vs[i], unix)]
             V == [i \in 1..N |-> fieldCarried(fs[i], vs[i], unix)]
             go == CHOOSE go :
                      go = [i \in 0..N |-> IF i = 0 THEN d ELSE unmarshalField(go[i - 1], fs[i], u)]
             G == [i \in 1..N |-> [e \in Decoder |->
                      IF unmarshalField(e, fs[i], u) \in Decoder
                      THEN unmarshalField(e, fs[i], u) ELSE e]]
  <1>1. gotFields(d, fs, u) = go[N]
    BY Zenon DEF gotFields, getAll
  <1>2. /\ N \in Nat
        /\ \A i \in 1..N : /\ fs[i] \in FieldKinds /\ vs[i] \in FieldOf(fs[i])
                           /\ Legible(fs[i], vs[i], unix, u)
    BY DEF AllLegible
  <1> HIDE DEF N
  <1>3. \A i \in 1..N : field(fs[i], vs[i], unix) \in Bytes /\ fieldCarried(fs[i], vs[i], unix) \in Values
    BY <1>2, FieldBytes
  <1>4. P \in Seq(Bytes) /\ Len(P) = N /\ V \in Seq(Values) /\ Len(V) = N
    BY <1>2, <1>3
  <1>5. b \in Bytes /\ d \in Decoder /\ d.ok /\ d.buf = FlattenSeq(P) \o b
    BY DEF On, N, written
  <1>6. PICK R : Remains(R, P, b) /\ R[0] = FlattenSeq(P) \o b
    <2> HIDE DEF P
    <2> QED BY <1>4, <1>5, FlattenRemains
  <1>7. Reached(d, R[0], d.vals)
    BY <1>5, <1>6, Zenon DEF Reached
  <1>8. G \in [1..N -> [Decoder -> Decoder]]
    OBVIOUS
  <1>9. ASSUME NEW i \in 1..N, NEW e, On(e, P[i], R[i])
        PROVE  Gets(e, unmarshalField(e, fs[i], u), R[i], V[i])
    <2>1. On(e, field(fs[i], vs[i], unix), R[i]) /\ V[i] = fieldCarried(fs[i], vs[i], unix)
      BY <1>9
    <2> HIDE DEF V, P, G
    <2>2. Gets(e, unmarshalField(e, fs[i], u), R[i], fieldCarried(fs[i], vs[i], unix))
      BY <1>2, <2>1, FieldGets, Zenon
    <2> QED BY <2>1, <2>2, Zenon
  <1>10. ASSUME NEW i \in 1..N, NEW e \in Decoder, On(e, P[i], R[i])
         PROVE  G[i][e] = unmarshalField(e, fs[i], u)
    <2>1. unmarshalField(e, fs[i], u) \in Decoder
      BY <1>9, <1>10 DEF Gets
    <2> QED BY <2>1
  <1> HIDE DEF P, V, G
  <1>11. PICK h \in [0..N -> Decoder] :
            /\ h[0] = d
            /\ \A i \in 1..N : h[i] = G[i][h[i - 1]] /\ On(h[i - 1], P[i], R[i])
    <2>1. \A i \in 1..N : \A e \in Decoder : On(e, P[i], R[i]) => Gets(e, G[i][e], R[i], V[i])
      BY <1>9, <1>10
    <2>2. Reads(G, P, R, V)
      BY <1>4, <1>8, <2>1, Zenon DEF Reads
    <2>3. PICK h : Reader(h, d, G, P, R)
      BY <1>4, <1>5, <1>6, <1>7, <2>2, FollowerExists, Zenon
    <2> QED BY <1>4, <2>3, Zenon DEF Reader
  <1>12. ASSUME NEW i \in 0..N PROVE h[i] = IF i = 0 THEN d ELSE unmarshalField(h[i - 1], fs[i], u)
    <2>1. CASE i = 0
      BY <1>11, <2>1
    <2>2. CASE i # 0
      <3>1. i \in 1..N
        BY <1>2, <2>2
      <3>2. h[i - 1] \in Decoder /\ On(h[i - 1], P[i], R[i])
        BY <1>11, <3>1 DEF On
      <3>3. h[i] = unmarshalField(h[i - 1], fs[i], u)
        BY <1>10, <1>11, <3>1, <3>2
      <3> QED BY <2>2, <3>3
    <2> QED BY <2>1, <2>2
  <1>13. h = [i \in 0..N |-> IF i = 0 THEN d ELSE unmarshalField(h[i - 1], fs[i], u)]
    BY <1>11, <1>12
  <1>14. go = [i \in 0..N |-> IF i = 0 THEN d ELSE unmarshalField(go[i - 1], fs[i], u)]
    BY <1>13, Zenon
  <1> HIDE DEF go
  <1>15. go[0] = d /\ \A i \in 1..N : go[i] = unmarshalField(go[i - 1], fs[i], u)
    BY <1>2, <1>14
  <1>16. Follows(go, d, P, R, V)
    BY <1>4, <1>7, <1>9, <1>15 DEF Follows
  <1>17. Reached(go[N], b, d.vals \o V)
    BY <1>4, <1>5, <1>6, <1>16, FollowsReach
  <1> QED BY <1>1, <1>17 DEF V, N, carried

\* The types of messages, and which have a Stat.
SessionTypes == {"Tversion", "Rversion", "Tauth", "Rauth", "Tattach", "Rattach", "Tflush", "Rflush",
                 "Rerror"}
TreeTypes    == {"Twalk", "Rwalk", "Topen", "Ropen", "Rcreate"}
FileTypes    == {"Tread", "Rread", "Twrite", "Rwrite", "Tclunk", "Rclunk", "Tremove", "Rremove",
                 "Tstat", "Rwstat"}
Types        == SessionTypes \cup TreeTypes \cup FileTypes \cup {"Tcreate", "Rstat", "Twstat"}

\* The fields that both dialects have come first, and a Stat comes last.
LEMMA MessageFields ==
    ASSUME NEW unix \in BOOLEAN
    PROVE  /\ \A t \in SessionTypes \cup TreeTypes \cup FileTypes :
                 /\ newMessage(unix)[t] = newMessage(TRUE)[t]
                 /\ newMessage(unix)[t] \in Seq(FieldKinds \ {"stat"})
           /\ newMessage(unix)["Tcreate"] =
                 IF unix THEN <<"u32", "str", "u32", "u8", "str">> ELSE <<"u32", "str", "u32", "u8">>
           /\ newMessage(unix)["Rstat"] = <<"stat">>
           /\ newMessage(unix)["Twstat"] = <<"u32", "stat">>
  <1> DEFINE session == {"Tversion", "Rversion", "Tauth", "Rauth", "Tattach", "Rattach",
                         "Tflush", "Rflush"}
             tree    == {"Twalk", "Rwalk", "Topen", "Ropen", "Tcreate", "Rcreate"}
             file    == {"Tread", "Rread", "Twrite", "Rwrite", "Tclunk", "Rclunk", "Tremove",
                         "Rremove", "Tstat", "Rstat", "Twstat", "Rwstat"}
             K       == FieldKinds \ {"stat"}
  <1>1. DOMAIN sessionFields = session /\ DOMAIN errorFields = {"Rerror"} /\ DOMAIN fileFields = file
    BY DEF sessionFields, errorFields, fileFields
  <1>2. \A u : DOMAIN treeFields(u) = tree
    BY DEF treeFields
  <1>3. ASSUME NEW u
        PROVE  /\ \A t \in session : newMessage(u)[t] = sessionFields[t]
               /\ newMessage(u)["Rerror"] = errorFields["Rerror"]
               /\ \A t \in file : newMessage(u)[t] = fileFields[t]
               /\ \A t \in tree : newMessage(u)[t] = treeFields(u)[t]
    <2>1. newMessage(u) = [t \in session \cup {"Rerror"} \cup tree \cup file |->
              IF t \in session THEN sessionFields[t]
              ELSE IF t \in {"Rerror"} THEN errorFields[t]
              ELSE IF t \in file THEN fileFields[t]
              ELSE treeFields(u)[t]]
      BY <1>1, <1>2, Zenon DEF newMessage
    <2> QED BY <2>1
  <1>4. "u8" \in K /\ "u16" \in K /\ "u32" \in K /\ "u64" \in K /\ "str" \in K /\ "qid" \in K
        /\ "names" \in K /\ "qids" \in K /\ "data" \in K
    BY DEF FieldKinds, ScalarKinds
  <1> HIDE DEF K
  <1>k. /\ <<>> \in Seq(K) /\ \A a \in K : <<a>> \in Seq(K)
        /\ \A a \in K, b \in K : <<a, b>> \in Seq(K)
        /\ \A a \in K, b \in K, c \in K : <<a, b, c>> \in Seq(K)
        /\ \A a \in K, b \in K, c \in K, d \in K : <<a, b, c, d>> \in Seq(K)
    OBVIOUS
  <1>5. \A t \in session : sessionFields[t] \in Seq(K)
    <2>1. /\ sessionFields["Tversion"] = <<"u32", "str">> /\ sessionFields["Rversion"] = <<"u32", "str">>
          /\ sessionFields["Tauth"] = <<"u32", "str", "str">> /\ sessionFields["Rauth"] = <<"qid">>
          /\ sessionFields["Tattach"] = <<"u32", "u32", "str", "str">> /\ sessionFields["Rattach"] = <<"qid">>
          /\ sessionFields["Tflush"] = <<"u16">> /\ sessionFields["Rflush"] = <<>>
      BY DEF sessionFields
    <2>2. sessionFields["Tversion"] \in Seq(K)
      BY <1>4, <1>k, <2>1, Zenon
    <2>3. sessionFields["Rversion"] \in Seq(K)
      BY <1>4, <1>k, <2>1, Zenon
    <2>4. sessionFields["Tauth"] \in Seq(K)
      BY <1>4, <1>k, <2>1, Zenon
    <2>5. sessionFields["Rauth"] \in Seq(K)
      BY <1>4, <1>k, <2>1, Zenon
    <2>6. sessionFields["Tattach"] \in Seq(K)
      BY <1>4, <1>k, <2>1, ZenonT(60)
    <2>7. sessionFields["Rattach"] \in Seq(K)
      BY <1>4, <1>k, <2>1, Zenon
    <2>8. sessionFields["Tflush"] \in Seq(K)
      BY <1>4, <1>k, <2>1, Zenon
    <2>9. sessionFields["Rflush"] \in Seq(K)
      BY <1>4, <1>k, <2>1, Zenon
    <2> QED BY <2>2, <2>3, <2>4, <2>5, <2>6, <2>7, <2>8, <2>9, Zenon
  <1>6. errorFields["Rerror"] \in Seq(K)
    BY <1>4 DEF errorFields
  <1>7. \A t \in FileTypes : fileFields[t] \in Seq(K)
    <2>1. /\ fileFields["Tread"] = <<"u32", "u64", "u32">> /\ fileFields["Rread"] = <<"data">>
          /\ fileFields["Twrite"] = <<"u32", "u64", "data">> /\ fileFields["Rwrite"] = <<"u32">>
          /\ fileFields["Tclunk"] = <<"u32">> /\ fileFields["Rclunk"] = <<>>
          /\ fileFields["Tremove"] = <<"u32">> /\ fileFields["Rremove"] = <<>>
          /\ fileFields["Tstat"] = <<"u32">> /\ fileFields["Rwstat"] = <<>>
      BY DEF fileFields
    <2>2. fileFields["Tread"] \in Seq(K)
      BY <1>4, <1>k, <2>1, Zenon
    <2>3. fileFields["Rread"] \in Seq(K)
      BY <1>4, <1>k, <2>1, Zenon
    <2>4. fileFields["Twrite"] \in Seq(K)
      BY <1>4, <1>k, <2>1, Zenon
    <2>5. fileFields["Rwrite"] \in Seq(K)
      BY <1>4, <1>k, <2>1, Zenon
    <2>6. fileFields["Tclunk"] \in Seq(K)
      BY <1>4, <1>k, <2>1, Zenon
    <2>7. fileFields["Rclunk"] \in Seq(K)
      BY <1>4, <1>k, <2>1, Zenon
    <2>8. fileFields["Tremove"] \in Seq(K)
      BY <1>4, <1>k, <2>1, Zenon
    <2>9. fileFields["Rremove"] \in Seq(K)
      BY <1>4, <1>k, <2>1, Zenon
    <2>10. fileFields["Tstat"] \in Seq(K)
      BY <1>4, <1>k, <2>1, Zenon
    <2>11. fileFields["Rwstat"] \in Seq(K)
      BY <1>4, <1>k, <2>1, Zenon
    <2> QED BY <2>2, <2>3, <2>4, <2>5, <2>6, <2>7, <2>8, <2>9, <2>10, <2>11, Zenon DEF FileTypes
  <1>8. ASSUME NEW t \in TreeTypes, NEW u
        PROVE  treeFields(u)[t] \in Seq(K) /\ treeFields(u)[t] = treeFields(TRUE)[t]
    <2>1. \A x : /\ treeFields(x)["Twalk"] = <<"u32", "u32", "names">> /\ treeFields(x)["Rwalk"] = <<"qids">>
                 /\ treeFields(x)["Topen"] = <<"u32", "u8">> /\ treeFields(x)["Ropen"] = <<"qid", "u32">>
                 /\ treeFields(x)["Rcreate"] = <<"qid", "u32">>
      BY DEF treeFields
    <2> QED BY <1>4, <1>k, <2>1, ZenonT(60) DEF TreeTypes
  <1>9. ASSUME NEW t \in SessionTypes \cup TreeTypes \cup FileTypes
        PROVE  /\ newMessage(unix)[t] = newMessage(TRUE)[t]
               /\ newMessage(unix)[t] \in Seq(K)
    <2>1. t \in session \/ t = "Rerror" \/ t \in TreeTypes \cap tree \/ t \in FileTypes \cap file
      BY DEF SessionTypes, TreeTypes, FileTypes
    <2> HIDE DEF session, tree, file
    <2> QED BY <1>3, <1>5, <1>6, <1>7, <1>8, <2>1, Zenon
  <1>10. newMessage(unix)["Rstat"] = <<"stat">> /\ newMessage(unix)["Twstat"] = <<"u32", "stat">>
    BY <1>3 DEF fileFields
  <1>11. newMessage(unix)["Tcreate"] =
            <<"u32", "str", "u32", "u8">> \o IF unix THEN <<"str">> ELSE <<>>
    BY <1>3 DEF treeFields
  <1>12. newMessage(unix)["Tcreate"] =
            IF unix THEN <<"u32", "str", "u32", "u8", "str">> ELSE <<"u32", "str", "u32", "u8">>
    BY <1>11
  <1> QED BY <1>9, <1>10, <1>12 DEF K

-----------------------------------------------------------------------------
(***************************************************************************)
(* Whole messages.                                                         *)
(***************************************************************************)

\* The arguments a message of type t may have, and the messages there are.
Contents(t) ==
    {vals \in Seq(Values) :
        /\ Len(vals) = Len(newMessage(TRUE)[t])
        /\ \A i \in 1..Len(vals) : vals[i] \in FieldOf(newMessage(TRUE)[t][i])}

WellFormed(m) == \E t \in Types : \E vals \in Contents(t) : m = Msg(t, vals)

\* The parts of a message.
LEMMA SeqParts ==
    ASSUME NEW A, NEW x \in A, NEW s \in Seq(A)
    PROVE  Head(<<x>> \o s) = x /\ Tail(<<x>> \o s) = s
  OBVIOUS

LEMMA MsgParts ==
    ASSUME NEW t, NEW A, NEW vals \in Seq(A)
    PROVE  type(Msg(t, vals)) = t /\ arg(Msg(t, vals)) = vals
  <1> DEFINE B == A \cup {t}
  <1>1. t \in B /\ vals \in Seq(B)
    OBVIOUS
  <1> HIDE DEF B
  <1> QED BY <1>1, SeqParts, Zenon DEF type, arg, Msg

\* zeroed fills up to n values.
LEMMA Zeroes ==
    ASSUME NEW A, NEW s \in Seq(A), NEW n \in Nat, Len(s) <= n
    PROVE  zeroed(s, n) = [i \in 1..n |-> IF i <= Len(s) THEN s[i] ELSE 0]
  <1> DEFINE B == A \cup {0}
             z == [i \in 1..(n - Len(s)) |-> 0]
  <1>1. s \in Seq(B) /\ z \in Seq(B) /\ Len(z) = n - Len(s)
    OBVIOUS
  <1>2. \A i \in 1..(n - Len(s)) : z[i] = 0
    OBVIOUS
  <1>3. zeroed(s, n) = s \o z
    BY DEF zeroed
  <1> HIDE DEF B, z
  <1>4. /\ s \o z \in Seq(B) /\ Len(s \o z) = n
        /\ \A i \in 1..Len(s) : (s \o z)[i] = s[i]
        /\ \A i \in 1..(n - Len(s)) : (s \o z)[Len(s) + i] = 0
    BY <1>1, <1>2
  <1>5. ASSUME NEW i \in 1..n PROVE (s \o z)[i] = IF i <= Len(s) THEN s[i] ELSE 0
    <2>0. Len(s) \in Nat
      OBVIOUS
    <2>1. CASE i <= Len(s)
      BY <1>4, <2>1
    <2>2. CASE ~(i <= Len(s))
      <3>1. i - Len(s) \in 1..(n - Len(s)) /\ i = Len(s) + (i - Len(s))
        BY <2>0, <2>2
      <3> QED BY <1>4, <2>2, <3>1
    <2> QED BY <2>1, <2>2, Zenon
  <1>6. s \o z = [i \in 1..n |-> (s \o z)[i]]
    <2>1. \A x \in Seq(B) : Len(x) = n => x = [i \in 1..n |-> x[i]]
      OBVIOUS
    <2> QED BY <1>4, <2>1, Zenon
  <1> QED BY <1>3, <1>5, <1>6

\* The fields a dialect has are the first of all.
Leads(f, a) ==
    /\ f \in Seq(FieldKinds) /\ a \in Seq(FieldKinds) /\ Len(f) <= Len(a)
    /\ \A i \in 1..Len(f) : f[i] = a[i]

LEMMA BodyFields ==
    ASSUME NEW t \in Types, NEW unix \in BOOLEAN
    PROVE  Leads(newMessage(unix)[t], newMessage(TRUE)[t])
  <1>1. CASE t \in SessionTypes \cup TreeTypes \cup FileTypes
    <2> DEFINE K == FieldKinds \ {"stat"}
    <2>1. newMessage(unix)[t] = newMessage(TRUE)[t] /\ newMessage(unix)[t] \in Seq(K)
      BY <1>1, MessageFields, Zenon
    <2>2. \A f \in Seq(K) : Leads(f, f)
      BY DEF Leads
    <2> QED BY <2>1, <2>2, Zenon
  <1>2. /\ "stat" \in FieldKinds /\ "u32" \in FieldKinds /\ "str" \in FieldKinds
        /\ "u8" \in FieldKinds
    BY DEF FieldKinds, ScalarKinds
  <1>3. CASE t = "Rstat"
    <2>1. newMessage(unix)[t] = <<"stat">> /\ newMessage(TRUE)[t] = <<"stat">>
      BY <1>3, MessageFields
    <2>2. Leads(<<"stat">>, <<"stat">>)
      BY <1>2 DEF Leads
    <2> QED BY <2>1, <2>2, Zenon
  <1>4. CASE t = "Twstat"
    <2>1. newMessage(unix)[t] = <<"u32", "stat">> /\ newMessage(TRUE)[t] = <<"u32", "stat">>
      BY <1>4, MessageFields
    <2>2. Leads(<<"u32", "stat">>, <<"u32", "stat">>)
      BY <1>2 DEF Leads
    <2> QED BY <2>1, <2>2, Zenon
  <1>5. CASE t = "Tcreate"
    <2> DEFINE p == <<"u32", "str", "u32", "u8">>
               a == <<"u32", "str", "u32", "u8", "str">>
    <2>1. newMessage(unix)[t] = (IF unix THEN a ELSE p) /\ newMessage(TRUE)[t] = a
      BY <1>5, MessageFields
    <2>2. Leads(p, a) /\ Leads(a, a)
      BY <1>2 DEF Leads
    <2> HIDE DEF a, p
    <2> QED BY <2>1, <2>2, Zenon
  <1> QED BY <1>1, <1>3, <1>4, <1>5 DEF Types

\* m, sent in the dialect unix, is decoded in the dialect u as what can be
\* expected to arrive.
Arrives(tag, m, unix, u) ==
    UnmarshalVersion(MarshalVersion(tag, m, unix), u) =
        [ok |-> TRUE, tag |-> tag, msg |-> Carried(m, unix)]

\* The fields that a dialect has, decoded and zeroed, are Carried's.
LEMMA CarriedZeroed ==
    ASSUME NEW t \in Types, NEW vals \in Contents(t), NEW unix \in BOOLEAN
    PROVE  Carried(Msg(t, vals), unix) =
              Msg(t, zeroed([i \in 1..Len(newMessage(unix)[t]) |->
                                fieldCarried(newMessage(unix)[t][i], vals[i], unix)],
                            Len(newMessage(TRUE)[t])))
  <1> DEFINE m   == Msg(t, vals)
             f   == newMessage(unix)[t]
             all == newMessage(TRUE)[t]
             V   == [i \in 1..Len(f) |-> fieldCarried(f[i], vals[i], unix)]
             C   == [i \in DOMAIN all |-> IF i <= Len(f) THEN fieldCarried(all[i], vals[i], unix) ELSE 0]
  <1>1. /\ Len(f) \in Nat /\ Len(all) \in Nat /\ Len(f) <= Len(all) /\ DOMAIN all = 1..Len(all)
        /\ \A i \in 1..Len(f) : f[i] = all[i] /\ f[i] \in FieldKinds
    <2>1. Leads(f, all)
      BY BodyFields, Zenon
    <2> HIDE DEF f, all
    <2> QED BY <2>1 DEF Leads
  <1>2. vals \in Seq(Values) /\ Len(vals) = Len(all) /\ \A i \in 1..Len(vals) : vals[i] \in FieldOf(all[i])
    BY DEF Contents
  <1>3. type(m) = t /\ arg(m) = vals
    BY <1>2, MsgParts
  <1>4. Carried(m, unix) = Msg(t, C)
    <2> HIDE DEF m
    <2> QED BY <1>3 DEF Carried
  <1> HIDE DEF f, all
  <1>5. \A i \in 1..Len(f) : fieldCarried(f[i], vals[i], unix) \in Values
    BY <1>1, <1>2, FieldBytes
  <1>6. V \in Seq(Values) /\ Len(V) = Len(f) /\ \A i \in 1..Len(f) : V[i] = fieldCarried(all[i], vals[i], unix)
    BY <1>1, <1>5
  <1>7. zeroed(V, Len(all)) = [i \in 1..Len(all) |-> IF i <= Len(V) THEN V[i] ELSE 0]
    <2> HIDE DEF V
    <2> QED BY <1>1, <1>6, Zeroes
  <1>8. zeroed(V, Len(all)) = C
    <2> HIDE DEF V
    <2> QED BY <1>1, <1>6, <1>7
  <1> QED BY <1>4, <1>8 DEF V, f, all, m


\* A message whose fields are all legible arrives.
LEMMA LegibleArrives ==
    ASSUME NEW t \in Types, NEW vals \in Contents(t), NEW unix \in BOOLEAN, NEW u \in BOOLEAN, NEW tag,
           newMessage(u)[t] = newMessage(unix)[t],
           \A i \in 1..Len(newMessage(unix)[t]) : Legible(newMessage(unix)[t][i], vals[i], unix, u)
    PROVE  Arrives(tag, Msg(t, vals), unix, u)
  <1> DEFINE m   == Msg(t, vals)
             f   == newMessage(unix)[t]
             n   == Len(newMessage(TRUE)[t])
             B   == written(f, vals, unix)
             V   == carried(f, vals, unix)
             e   == gotFields(decoder(B), f, u)
             r   == MarshalVersion(tag, m, unix)
  <1>1. Leads(f, newMessage(TRUE)[t]) /\ vals \in Seq(Values) /\ Len(vals) = n
        /\ \A i \in 1..Len(vals) : vals[i] \in FieldOf(newMessage(TRUE)[t][i])
    BY BodyFields, Zenon DEF Contents
  <1>2. f \in Seq(FieldKinds) /\ DOMAIN f = 1..Len(f)
        /\ \A i \in 1..Len(f) : f[i] \in FieldKinds /\ vals[i] \in FieldOf(f[i])
    <2> DEFINE all == newMessage(TRUE)[t]
    <2>1. Leads(f, all) /\ Len(vals) = Len(all) /\ \A i \in 1..Len(vals) : vals[i] \in FieldOf(all[i])
      BY <1>1
    <2> HIDE DEF f, all
    <2>2. f \in Seq(FieldKinds) /\ Len(f) \in Nat /\ Len(all) \in Nat /\ Len(f) <= Len(all)
          /\ \A i \in 1..Len(f) : f[i] = all[i]
      BY <2>1 DEF Leads
    <2>3. ASSUME NEW i \in 1..Len(f) PROVE f[i] \in FieldKinds /\ i \in 1..Len(vals) /\ f[i] = all[i]
      BY <2>1, <2>2
    <2>4. DOMAIN f = 1..Len(f)
      BY <2>2
    <2> QED BY <2>1, <2>2, <2>3, <2>4, Zenon
  <1>3. type(m) = t /\ arg(m) = vals
    BY <1>1, MsgParts
  <1>4. r.type = t /\ r.tag = tag /\ r.body = B
    <2>1. r.type = type(m) /\ r.tag = tag /\ r.body = marshalBody(m, unix)
      <3> HIDE DEF m
      <3> QED BY DEF MarshalVersion
    <2>2. marshalBody(m, unix) = B
      <3> HIDE DEF m
      <3> QED BY <1>2, <1>3 DEF marshalBody, written
    <2> QED BY <1>3, <2>1, <2>2
  <1>5. UnmarshalVersion(r, u) = decoded(r, e)
    <2>1. unmarshalBody(decoder(B), t, u) = e
      BY DEF unmarshalBody, gotFields
    <2> HIDE DEF B, e, r
    <2> QED BY <1>4, <2>1, Zenon DEF UnmarshalVersion
  <1>6. Reached(e, <<>>, <<>> \o V)
    <2>1. \A i \in 1..Len(f) : field(f[i], vals[i], unix) \in Bytes /\ fieldCarried(f[i], vals[i], unix) \in Values
      BY <1>2, FieldBytes
    <2>2. B \in Bytes /\ <<>> \in Bytes /\ B \o <<>> = B
      <3> DEFINE P == [i \in 1..Len(f) |-> field(f[i], vals[i], unix)]
      <3>1. P \in Seq(Bytes)
        BY <1>2, <2>1
      <3> HIDE DEF P
      <3>2. <<>> \in Bytes
        BY DEF Bytes
      <3>3. FlattenSeq(P) \in Bytes
        BY <3>1, <3>2, FlattenRemains
      <3>4. \A x \in Bytes : x \o <<>> = x
        BY DEF Bytes
      <3> QED BY <3>2, <3>3, <3>4 DEF P, written
    <2>3. On(decoder(B), B, <<>>) /\ decoder(B).vals = <<>>
      <3> HIDE DEF B
      <3> QED BY <2>2, DecoderType, Zenon DEF On, Is
    <2>4. Reached(e, <<>>, decoder(B).vals \o V)
      <3>1. AllLegible(f, vals, unix, u)
        BY <1>2 DEF AllLegible
      <3> HIDE DEF f
      <3> QED BY <1>2, <2>3, <3>1, FieldsGet, Zenon
    <2> QED BY <2>3, <2>4
  <1>7. V \in Seq(Values) /\ <<>> \o V = V
    <2>1. \A i \in 1..Len(f) : fieldCarried(f[i], vals[i], unix) \in Values
      BY <1>2, FieldBytes
    <2>2. V \in Seq(Values)
      BY <1>2, <2>1 DEF carried
    <2> HIDE DEF V
    <2> QED BY <2>2
  <1>8. done(e) /\ e.vals = V
    <2> HIDE DEF e, V
    <2> QED BY <1>6, <1>7, Zenon DEF Reached, done
  <1>9. Carried(m, unix) = Msg(t, zeroed(V, n))
    BY CarriedZeroed DEF carried
  <1>10. decoded(r, e) = [ok |-> TRUE, tag |-> tag, msg |-> Msg(t, zeroed(V, n))]
    <2> HIDE DEF r, e, V, n
    <2>1. done(e) = TRUE
      BY <1>8, Zenon DEF done
    <2>2. decoded(r, e) = [ok |-> done(e), tag |-> tag, msg |-> Msg(t, zeroed(V, n))]
      BY <1>4, <1>8 DEF decoded, n
    <2> QED BY <2>1, <2>2, Zenon
  <1> QED BY <1>5, <1>9, <1>10, Zenon DEF Arrives

\* A decoder of one field, or of two.
LEMMA GotOne ==
    ASSUME NEW d, NEW u, NEW k
    PROVE  gotFields(d, <<k>>, u) = unmarshalField(d, k, u)
  <1> DEFINE fs == <<k>>
             N  == Len(fs)
             go == CHOOSE go :
                      go = [i \in 0..N |-> IF i = 0 THEN d ELSE unmarshalField(go[i - 1], fs[i], u)]
             h  == [i \in 0..N |-> IF i = 0 THEN d ELSE unmarshalField(d, k, u)]
  <1>1. gotFields(d, fs, u) = go[N]
    BY Zenon DEF gotFields, getAll
  <1>2. N = 1 /\ fs[1] = k
    OBVIOUS
  <1> HIDE DEF N, fs
  <1>3. h = [i \in 0..N |-> IF i = 0 THEN d ELSE unmarshalField(h[i - 1], fs[i], u)]
    <2>1. h[0] = d
      BY <1>2
    <2>2. ASSUME NEW i \in 0..N
          PROVE  h[i] = IF i = 0 THEN d ELSE unmarshalField(h[i - 1], fs[i], u)
      <3>1. i = 0 \/ i = 1
        BY <1>2
      <3>2. h[1] = unmarshalField(d, k, u) /\ 1 - 1 = 0
        BY <1>2
      <3> HIDE DEF h
      <3> QED BY <1>2, <2>1, <3>1, <3>2
    <2> QED BY <2>2
  <1>4. go = [i \in 0..N |-> IF i = 0 THEN d ELSE unmarshalField(go[i - 1], fs[i], u)]
    BY <1>3, Zenon
  <1> HIDE DEF go
  <1>5. go[0] = d /\ go[1] = unmarshalField(go[0], fs[1], u)
    BY <1>2, <1>4
  <1> QED BY <1>1, <1>2, <1>5 DEF fs

LEMMA GotTwo ==
    ASSUME NEW d, NEW u, NEW k, NEW l
    PROVE  gotFields(d, <<k, l>>, u) = unmarshalField(unmarshalField(d, k, u), l, u)
  <1> DEFINE fs == <<k, l>>
             N  == Len(fs)
             go == CHOOSE go :
                      go = [i \in 0..N |-> IF i = 0 THEN d ELSE unmarshalField(go[i - 1], fs[i], u)]
             e  == unmarshalField(d, k, u)
             h  == [i \in 0..N |-> IF i = 0 THEN d ELSE IF i = 1 THEN e ELSE unmarshalField(e, l, u)]
  <1>1. gotFields(d, fs, u) = go[N]
    BY Zenon DEF gotFields, getAll
  <1>2. N = 2 /\ fs[1] = k /\ fs[2] = l
    OBVIOUS
  <1> HIDE DEF N, fs
  <1>3. h = [i \in 0..N |-> IF i = 0 THEN d ELSE unmarshalField(h[i - 1], fs[i], u)]
    <2>1. h[0] = d
      BY <1>2
    <2>2. ASSUME NEW i \in 0..N
          PROVE  h[i] = IF i = 0 THEN d ELSE unmarshalField(h[i - 1], fs[i], u)
      <3>1. i = 0 \/ i = 1 \/ i = 2
        BY <1>2
      <3>2. h[1] = unmarshalField(d, k, u) /\ 1 - 1 = 0
        BY <1>2
      <3>3. h[2] = unmarshalField(h[1], l, u) /\ 2 - 1 = 1
        BY <1>2
      <3> HIDE DEF h
      <3> QED BY <1>2, <2>1, <3>1, <3>2, <3>3
    <2> QED BY <2>2
  <1>4. go = [i \in 0..N |-> IF i = 0 THEN d ELSE unmarshalField(go[i - 1], fs[i], u)]
    BY <1>3, Zenon
  <1> HIDE DEF go
  <1>5. go[0] = d /\ go[1] = unmarshalField(go[0], fs[1], u) /\ go[2] = unmarshalField(go[1], fs[2], u)
    BY <1>2, <1>4
  <1> QED BY <1>1, <1>2, <1>5 DEF fs

\* A Stat whose size has wrapped, at the end of a message, leaves bytes behind.
LEMMA WrappedLeaves ==
    ASSUME NEW d, NEW s \in Stats, NEW unix \in BOOLEAN, ~Counted(s, unix), On(d, stat(s, unix), <<>>)
    PROVE  ~done(unmarshalField(d, "stat", unix))
  <1>1. unmarshalField(d, "stat", unix) = getStat(d, unix)
    BY DEF unmarshalField
  <1>2. getStat(d, unix).buf # <<>>
    BY StatLeaves
  <1> QED BY <1>1, <1>2, Zenon DEF done

LEMMA WrappedFails ==
    ASSUME NEW t \in {"Rstat", "Twstat"}, NEW vals \in Contents(t), NEW unix \in BOOLEAN, NEW tag,
           NEW s \in Stats, s = vals[Len(vals)], ~Counted(s, unix)
    PROVE  ~UnmarshalVersion(MarshalVersion(tag, Msg(t, vals), unix), unix).ok
  <1> DEFINE m == Msg(t, vals)
             f == newMessage(unix)[t]
             r == MarshalVersion(tag, m, unix)
             B == r.body
             e == gotFields(decoder(B), f, unix)
  <1>1. /\ vals \in Seq(Values) /\ newMessage(TRUE)[t] = f
        /\ f = IF t = "Rstat" THEN <<"stat">> ELSE <<"u32", "stat">>
    BY MessageFields DEF Contents
  <1>2. type(m) = t /\ arg(m) = vals
    BY <1>1, MsgParts
  <1>3. r.type = t /\ r.tag = tag /\ B = FlattenSeq([i \in DOMAIN f |-> field(f[i], vals[i], unix)])
    <2>1. r.type = type(m) /\ r.tag = tag /\ r.body = marshalBody(m, unix)
      <3> HIDE DEF m
      <3> QED BY DEF MarshalVersion
    <2>2. marshalBody(m, unix) = FlattenSeq([i \in DOMAIN f |-> field(f[i], vals[i], unix)])
      <3> HIDE DEF m
      <3> QED BY <1>2 DEF marshalBody
    <2> QED BY <1>2, <2>1, <2>2
  <1>4. UnmarshalVersion(r, unix) = decoded(r, e)
    <2>1. unmarshalBody(decoder(B), t, unix) = e
      BY DEF unmarshalBody, gotFields
    <2> HIDE DEF e, r
    <2> QED BY <1>3, <2>1, Zenon DEF UnmarshalVersion
  <1>5. Len(vals) = Len(f) /\ \A i \in 1..Len(vals) : vals[i] \in FieldOf(f[i])
    BY <1>1 DEF Contents
  <1>6. stat(s, unix) \in Bytes /\ field("stat", s, unix) = stat(s, unix) /\ <<>> \in Bytes
    <2>1. "stat" \in FieldKinds /\ FieldOf("stat") = Stats
      BY DEF FieldKinds, FieldOf
    <2>2. field("stat", s, unix) = stat(s, unix)
      BY DEF field
    <2>3. <<>> \in Bytes
      BY DEF Bytes
    <2> QED BY <2>1, <2>2, <2>3, FieldBytes
  <1>7. \A x \in Bytes : x \o <<>> = x /\ <<>> \o x = x
    BY DEF Bytes
  <1> HIDE DEF r
  <1>8. ~done(e)
    <2>1. CASE t = "Rstat"
      <3>1. f = <<"stat">> /\ s = vals[1]
        BY <1>1, <1>5, <2>1
      <3>2. B = FlattenSeq(<<stat(s, unix)>>)
        <4>1. [i \in DOMAIN f |-> field(f[i], vals[i], unix)] = <<field("stat", s, unix)>>
          <5> HIDE DEF f
          <5> QED BY <3>1
        <4> QED BY <1>3, <1>6, <4>1
      <3>3. B = stat(s, unix)
        <4>1. \A x \in Bytes : <<x>> \in Seq(Bytes) /\ Len(<<x>>) = 1 /\ <<x>>[1] = x
          OBVIOUS
        <4> DEFINE P == <<stat(s, unix)>>
        <4>2. PICK F : Flattens(F, P) /\ FlattenSeq(P) = F[Len(P)]
          BY <1>6, <4>1, FlattenGoes
        <4>3. Len(P) = 1 /\ P[1] = stat(s, unix)
          OBVIOUS
        <4> HIDE DEF P
        <4>4. F[0] = <<>> /\ F[1] = F[0] \o P[1]
          <5>1. F[0] = <<>> /\ \A i \in 1..1 : F[i] = F[i - 1] \o P[i]
            BY <4>2, <4>3, Zenon DEF Flattens
          <5>2. 1 \in 1..1 /\ 1 - 1 = 0
            OBVIOUS
          <5> QED BY <5>1, <5>2, Zenon
        <4>5. FlattenSeq(P) = stat(s, unix)
          BY <1>6, <1>7, <4>2, <4>3, <4>4
        <4> QED BY <3>2, <4>5 DEF P
      <3>4. On(decoder(B), stat(s, unix), <<>>)
        <4>1. Is(decoder(B), B, TRUE, <<>>, <<>>)
          BY <1>6, <3>3, DecoderType
        <4> QED BY <1>6, <1>7, <3>3, <4>1, Zenon DEF On, Is
      <3>5. e = unmarshalField(decoder(B), "stat", unix)
        <4> HIDE DEF f
        <4> QED BY <3>1, GotOne, Zenon
      <3> HIDE DEF e
      <3> QED BY <3>4, <3>5, WrappedLeaves, Zenon
    <2>2. CASE t = "Twstat"
      <3>1. f = <<"u32", "stat">> /\ s = vals[2] /\ vals[1] \in FieldOf("u32")
        BY <1>1, <1>5, <2>2
      <3> DEFINE A == field("u32", vals[1], unix)
                 P == <<A, stat(s, unix)>>
                 d == unmarshalField(decoder(B), "u32", unix)
      <3>2. B = FlattenSeq(P)
        <4>1. [i \in DOMAIN f |-> field(f[i], vals[i], unix)] = <<A, field("stat", s, unix)>>
          <5> HIDE DEF f
          <5> QED BY <3>1
        <4> QED BY <1>3, <1>6, <4>1
      <3>3. A \in Bytes
        BY <3>1, FieldBytes DEF FieldKinds, ScalarKinds
      <3> HIDE DEF A
      <3>4. B = A \o stat(s, unix)
        <4>1. P \in Seq(Bytes) /\ Len(P) = 2 /\ P[1] = A /\ P[2] = stat(s, unix)
          BY <1>6, <3>3
        <4> HIDE DEF P
        <4>2. PICK F : Flattens(F, P) /\ FlattenSeq(P) = F[Len(P)]
          BY <4>1, FlattenGoes
        <4>3. F[0] = <<>> /\ F[1] = F[0] \o P[1] /\ F[2] = F[1] \o P[2]
          <5>1. F[0] = <<>> /\ \A i \in 1..2 : F[i] = F[i - 1] \o P[i]
            BY <4>1, <4>2, Zenon DEF Flattens
          <5>2. 1 \in 1..2 /\ 2 \in 1..2 /\ 1 - 1 = 0 /\ 2 - 1 = 1
            OBVIOUS
          <5> QED BY <5>1, <5>2, Zenon
        <4> QED BY <1>7, <3>2, <3>3, <4>1, <4>2, <4>3
      <3>5. Is(decoder(B), B, TRUE, <<>>, <<>>)
        BY <1>6, <3>3, <3>4, SizeConcat, DecoderType
      <3>6. On(decoder(B), A, stat(s, unix))
        BY <1>6, <3>3, <3>4, <3>5, Zenon DEF On, Is
      <3>7. Gets(decoder(B), d, stat(s, unix), fieldCarried("u32", vals[1], unix))
        <4>1. "u32" \in FieldKinds /\ Legible("u32", vals[1], unix, unix)
          BY DEF FieldKinds, ScalarKinds, Legible
        <4> QED BY <3>1, <3>6, <4>1, FieldGets, Zenon DEF A
      <3> HIDE DEF d
      <3>8. On(d, stat(s, unix), <<>>)
        BY <1>6, <1>7, <3>7, Zenon DEF On, Gets
      <3>9. e = unmarshalField(d, "stat", unix)
        <4> HIDE DEF f
        <4> QED BY <3>1, GotTwo, Zenon DEF d
      <3> HIDE DEF e
      <3> QED BY <3>8, <3>9, WrappedLeaves, Zenon
    <2> QED BY <2>1, <2>2
  <1>9. decoded(r, e).ok = done(e)
    <2> HIDE DEF e
    <2> QED BY DEF decoded
  <1> QED BY <1>4, <1>8, <1>9, Zenon DEF r

\* Decoding takes back what was encoded: all that the dialect carries of it if
\* its Stat's size can be counted in 16 bits, and nothing otherwise.
RoundTrips(m) ==
    \A tag : \A unix \in BOOLEAN :
        LET u == UnmarshalVersion(MarshalVersion(tag, m, unix), unix)
        IN  IF StatFits(m, unix) THEN u = [ok |-> TRUE, tag |-> tag, msg |-> Carried(m, unix)]
            ELSE ~u.ok

\* Whatever a well-formed message holds, the other end decodes it exactly if
\* its Stat's size can be counted in 16 bits, and then has everything that the
\* dialect carries: nothing is left over, and no field is taken for another
\* (marshalBody and unmarshalBody of every type in fcall.go, encoder.stat and
\* decoder.stat).
THEOREM RoundTrip == \A m : WellFormed(m) => RoundTrips(m)
  <1> SUFFICES ASSUME NEW t \in Types, NEW vals \in Contents(t), NEW tag, NEW unix \in BOOLEAN
               PROVE  IF StatFits(Msg(t, vals), unix) THEN Arrives(tag, Msg(t, vals), unix, unix)
                      ELSE ~UnmarshalVersion(MarshalVersion(tag, Msg(t, vals), unix), unix).ok
    BY Zenon DEF WellFormed, RoundTrips, Arrives
  <1> DEFINE m   == Msg(t, vals)
             f   == newMessage(unix)[t]
             all == newMessage(TRUE)[t]
  <1>1. /\ Leads(f, all) /\ vals \in Seq(Values) /\ Len(vals) = Len(all)
        /\ \A i \in 1..Len(vals) : vals[i] \in FieldOf(all[i])
    BY BodyFields, Zenon DEF Contents
  <1>2. type(m) = t /\ arg(m) = vals
    BY <1>1, MsgParts
  <1>3. StatFits(m, unix) <=>
           \A i \in 1..Len(all) : all[i] = "stat" => Counted(vals[i], unix)
    <2>0. \A s \in Seq(Values) : DOMAIN s = 1..Len(s)
      OBVIOUS
    <2>1. DOMAIN vals = 1..Len(all)
      BY <1>1, <2>0, Zenon
    <2> HIDE DEF m
    <2> QED BY <1>2, <2>1 DEF StatFits, Counted
  <1>4. /\ Len(f) \in Nat /\ Len(all) \in Nat
        /\ \A i \in 1..Len(f) : i \in 1..Len(all) /\ f[i] = all[i]
    <2> HIDE DEF f, all
    <2> QED BY <1>1 DEF Leads
  <1>5. CASE StatFits(m, unix)
    <2>1. \A i \in 1..Len(f) : Legible(f[i], vals[i], unix, unix)
      <3> HIDE DEF f, all, m
      <3> QED BY <1>3, <1>4, <1>5, Zenon DEF Legible
    <2>2. Arrives(tag, m, unix, unix)
      BY <2>1, LegibleArrives
    <2> QED BY <1>5, <2>2
  <1>6. CASE ~StatFits(m, unix)
    <2>1. PICK i \in 1..Len(all) : all[i] = "stat" /\ ~Counted(vals[i], unix)
      BY <1>3, <1>6, Zenon
    <2>2. t \in {"Rstat", "Twstat"} /\ i = Len(vals)
      <3>1. ASSUME t \in SessionTypes \cup TreeTypes \cup FileTypes PROVE FALSE
        <4> DEFINE K == FieldKinds \ {"stat"}
        <4>1. all \in Seq(K)
          BY <3>1, MessageFields
        <4> HIDE DEF all
        <4>2. all[i] \in K
          BY <4>1
        <4> QED BY <2>1, <4>2
      <3>2. ASSUME t = "Tcreate" PROVE FALSE
        <4>1. all = <<"u32", "str", "u32", "u8", "str">>
          BY <3>2, MessageFields
        <4> HIDE DEF all
        <4> QED BY <2>1, <4>1
      <3>3. t = "Rstat" => i = Len(vals)
        <4>1. t = "Rstat" => all = <<"stat">>
          BY MessageFields
        <4> HIDE DEF all
        <4> QED BY <1>1, <2>1, <4>1
      <3>4. t = "Twstat" => i = Len(vals)
        <4>1. t = "Twstat" => all = <<"u32", "stat">>
          BY MessageFields
        <4> HIDE DEF all
        <4> QED BY <1>1, <2>1, <4>1
      <3> QED BY <3>1, <3>2, <3>3, <3>4 DEF Types
    <2>3. vals[Len(vals)] \in Stats /\ ~Counted(vals[Len(vals)], unix)
      <3>1. vals[i] \in FieldOf("stat")
        BY <1>1, <2>1
      <3>2. FieldOf("stat") = Stats
        BY DEF FieldOf
      <3> QED BY <2>1, <2>2, <3>1, <3>2
    <2>4. ~UnmarshalVersion(MarshalVersion(tag, m, unix), unix).ok
      BY <2>2, <2>3, WrappedFails
    <2> QED BY <1>6, <2>4
  <1> QED BY <1>5, <1>6

\* The types whose fields are the same in both dialects.
Plain(m) == type(m) \in SessionTypes \cup TreeTypes \cup FileTypes

\* A message of such a type arrives also when the two ends do not agree on a
\* dialect: Tversion, Rversion and Rerror do, which lets NewClient ask again
\* with another version.
THEOREM PlainEitherWay ==
    ASSUME NEW m, WellFormed(m), Plain(m), NEW tag, NEW unix \in BOOLEAN, NEW u \in BOOLEAN
    PROVE  Arrives(tag, m, unix, u) /\ StatFits(m, unix)
  <1>t. PICK t \in Types : \E vals \in Contents(t) : m = Msg(t, vals)
    BY DEF WellFormed
  <1>1. PICK vals \in Contents(t) : m = Msg(t, vals)
    BY <1>t
  <1>2. vals \in Seq(Values) /\ Len(vals) = Len(newMessage(TRUE)[t])
    BY DEF Contents
  <1>3. type(m) = t /\ arg(m) = vals
    BY <1>1, <1>2, MsgParts
  <1>4. t \in SessionTypes \cup TreeTypes \cup FileTypes
    BY <1>3 DEF Plain
  <1> DEFINE f == newMessage(unix)[t]
             K == FieldKinds \ {"stat"}
  <1>5. f = newMessage(TRUE)[t] /\ newMessage(u)[t] = f /\ f \in Seq(K)
    <2>1. \A b \in BOOLEAN : newMessage(b)[t] = newMessage(TRUE)[t] /\ newMessage(b)[t] \in Seq(K)
      BY <1>4, MessageFields
    <2> QED BY <2>1
  <1> HIDE DEF f
  <1>6. \A i \in 1..Len(f) : f[i] # "stat"
    <2>1. "stat" \notin K
      OBVIOUS
    <2> HIDE DEF K
    <2>2. \A g \in Seq(K) : \A i \in 1..Len(g) : g[i] \in K
      OBVIOUS
    <2> QED BY <1>5, <2>1, <2>2, Zenon
  <1>7. \A i \in 1..Len(f) : Legible(f[i], vals[i], unix, u)
    BY <1>6 DEF Legible
  <1>8. Arrives(tag, m, unix, u)
    BY <1>1, <1>5, <1>7, LegibleArrives DEF f
  <1>9. StatFits(m, unix)
    <2>1. \A s \in Seq(Values) : DOMAIN s = 1..Len(s)
      OBVIOUS
    <2>2. DOMAIN vals = 1..Len(f)
      BY <1>2, <1>5, <2>1, Zenon
    <2>3. StatFits(m, unix) <=>
             \A i \in DOMAIN arg(m) :
                newMessage(TRUE)[type(m)][i] = "stat" => Counted(arg(m)[i], unix)
      BY DEF StatFits, Counted
    <2> QED BY <1>3, <1>5, <1>6, <2>2, <2>3, Zenon
  <1> QED BY <1>8, <1>9

-----------------------------------------------------------------------------
(***************************************************************************)
(* Messages by their types.                                                *)
(***************************************************************************)

LEMMA MessageTable ==
    ASSUME NEW u \in BOOLEAN
    PROVE  /\ newMessage(u)["Tversion"] = <<"u32", "str">> /\ newMessage(u)["Rversion"] = <<"u32", "str">>
           /\ newMessage(u)["Rattach"] = <<"qid">> /\ newMessage(u)["Rflush"] = <<>>
           /\ newMessage(u)["Tattach"] = <<"u32", "u32", "str", "str">>
           /\ newMessage(u)["Rerror"] = <<"str">>
           /\ newMessage(u)["Twalk"] = <<"u32", "u32", "names">> /\ newMessage(u)["Rwalk"] = <<"qids">>
           /\ newMessage(u)["Topen"] = <<"u32", "u8">>
           /\ newMessage(u)["Ropen"] = <<"qid", "u32">> /\ newMessage(u)["Rcreate"] = <<"qid", "u32">>
           /\ newMessage(u)["Tread"] = <<"u32", "u64", "u32">> /\ newMessage(u)["Rread"] = <<"data">>
           /\ newMessage(u)["Twrite"] = <<"u32", "u64", "data">> /\ newMessage(u)["Rwrite"] = <<"u32">>
           /\ newMessage(u)["Tclunk"] = <<"u32">> /\ newMessage(u)["Rclunk"] = <<>>
           /\ newMessage(u)["Tremove"] = <<"u32">> /\ newMessage(u)["Rremove"] = <<>>
           /\ newMessage(u)["Tstat"] = <<"u32">> /\ newMessage(u)["Rstat"] = <<"stat">>
           /\ newMessage(u)["Twstat"] = <<"u32", "stat">> /\ newMessage(u)["Rwstat"] = <<>>
           /\ DOMAIN newMessage(u) = Types
  <1> DEFINE session == {"Tversion", "Rversion", "Tauth", "Rauth", "Tattach", "Rattach",
                         "Tflush", "Rflush"}
             tree    == {"Twalk", "Rwalk", "Topen", "Ropen", "Tcreate", "Rcreate"}
             file    == {"Tread", "Rread", "Twrite", "Rwrite", "Tclunk", "Rclunk", "Tremove",
                         "Rremove", "Tstat", "Rstat", "Twstat", "Rwstat"}
  <1>1. /\ DOMAIN sessionFields = session /\ DOMAIN errorFields = {"Rerror"} /\ DOMAIN fileFields = file
        /\ DOMAIN treeFields(u) = tree
    BY DEF sessionFields, errorFields, fileFields, treeFields
  <1>2. newMessage(u) = [t \in session \cup {"Rerror"} \cup tree \cup file |->
              IF t \in session THEN sessionFields[t]
              ELSE IF t \in {"Rerror"} THEN errorFields[t]
              ELSE IF t \in file THEN fileFields[t]
              ELSE treeFields(u)[t]]
    BY <1>1, Zenon DEF newMessage
  <1>3. /\ \A t \in session : newMessage(u)[t] = sessionFields[t]
        /\ newMessage(u)["Rerror"] = errorFields["Rerror"]
        /\ \A t \in file : newMessage(u)[t] = fileFields[t]
        /\ \A t \in tree : newMessage(u)[t] = treeFields(u)[t]
    BY <1>2
  <1>4. /\ newMessage(u)["Tversion"] = <<"u32", "str">> /\ newMessage(u)["Rversion"] = <<"u32", "str">>
        /\ newMessage(u)["Rattach"] = <<"qid">> /\ newMessage(u)["Rflush"] = <<>>
        /\ newMessage(u)["Tattach"] = <<"u32", "u32", "str", "str">>
        /\ newMessage(u)["Rerror"] = <<"str">>
    BY <1>3 DEF sessionFields, errorFields
  <1>5. /\ newMessage(u)["Twalk"] = <<"u32", "u32", "names">> /\ newMessage(u)["Rwalk"] = <<"qids">>
        /\ newMessage(u)["Topen"] = <<"u32", "u8">>
        /\ newMessage(u)["Ropen"] = <<"qid", "u32">> /\ newMessage(u)["Rcreate"] = <<"qid", "u32">>
    BY <1>3 DEF treeFields
  <1>6. /\ newMessage(u)["Tread"] = <<"u32", "u64", "u32">> /\ newMessage(u)["Rread"] = <<"data">>
        /\ newMessage(u)["Twrite"] = <<"u32", "u64", "data">> /\ newMessage(u)["Rwrite"] = <<"u32">>
        /\ newMessage(u)["Tclunk"] = <<"u32">> /\ newMessage(u)["Rclunk"] = <<>>
        /\ newMessage(u)["Tremove"] = <<"u32">> /\ newMessage(u)["Rremove"] = <<>>
        /\ newMessage(u)["Tstat"] = <<"u32">> /\ newMessage(u)["Rstat"] = <<"stat">>
        /\ newMessage(u)["Twstat"] = <<"u32", "stat">> /\ newMessage(u)["Rwstat"] = <<>>
    BY <1>3 DEF fileFields
  <1>7. DOMAIN newMessage(u) = Types
    BY <1>2 DEF Types, SessionTypes, TreeTypes, FileTypes
  <1> QED BY <1>4, <1>5, <1>6, <1>7

\* Every value of a field is a value.
LEMMA FieldValues ==
    ASSUME NEW k \in FieldKinds, NEW v \in FieldOf(k)
    PROVE  v \in Values
  <1>1. ASSUME NEW j \in ScalarKinds, NEW x \in ScalarOf(j) PROVE x \in Scalars
    BY <1>1 DEF ScalarOf, Scalars, Qids
  <1>2. CASE k \in {"names", "qids"}
    <2>1. PICK j \in ScalarKinds : v \in Seq(ScalarOf(j))
      BY <1>2 DEF FieldOf, ListOf, ScalarKinds
    <2>2. v \in Seq(Scalars)
      <3> DEFINE S == ScalarOf(j)
      <3>1. v \in Seq(S) /\ S \subseteq Scalars
        BY <1>1, <2>1
      <3> HIDE DEF S
      <3> QED BY <3>1
    <2> QED BY <2>2 DEF Values
  <1>3. CASE k = "data"
    BY <1>3 DEF FieldOf, Values
  <1>4. CASE k = "stat"
    BY <1>4 DEF FieldOf, Values, Stats
  <1>5. CASE k \in ScalarKinds
    BY <1>1, <1>5 DEF FieldOf, Values, ScalarKinds
  <1> QED BY <1>2, <1>3, <1>4, <1>5 DEF FieldKinds

\* Messages of no, one, two, three and four fields.
LEMMA MessageOf ==
    ASSUME NEW t \in Types, NEW f, newMessage(TRUE)[t] = f, NEW vals \in Seq(Values),
           Len(vals) = Len(f), \A i \in 1..Len(vals) : vals[i] \in FieldOf(f[i])
    PROVE  WellFormed(Msg(t, vals))
  BY Zenon DEF WellFormed, Contents

LEMMA Message0 ==
    ASSUME NEW t \in Types, newMessage(TRUE)[t] = <<>>
    PROVE  WellFormed(Msg(t, <<>>))
  <1> DEFINE f == <<>>
             v == <<>>
  <1>1. v \in Seq(Values) /\ Len(v) = Len(f) /\ \A i \in 1..Len(v) : v[i] \in FieldOf(f[i])
    OBVIOUS
  <1>2. newMessage(TRUE)[t] = f
    OBVIOUS
  <1> HIDE DEF f, v
  <1>3. WellFormed(Msg(t, v))
    BY <1>1, <1>2, MessageOf, Zenon
  <1> QED BY <1>3 DEF v

LEMMA Message1 ==
    ASSUME NEW t \in Types, NEW a \in FieldKinds,
           newMessage(TRUE)[t] = <<a>>,
           NEW x \in FieldOf(a)
    PROVE  WellFormed(Msg(t, <<x>>))
  <1> DEFINE f == <<a>>
             v == <<x>>
  <1>1. x \in Values
    BY FieldValues
  <1>2. v \in Seq(Values) /\ Len(v) = 1 /\ Len(f) = 1
    BY <1>1
  <1>3. v[1] = x /\ f[1] = a
    OBVIOUS
  <1>4. newMessage(TRUE)[t] = f
    OBVIOUS
  <1> HIDE DEF f, v
  <1>5. \A i \in 1..Len(v) : v[i] \in FieldOf(f[i])
    <2>1. \A i \in 1..1 : i = 1
      OBVIOUS
    <2> QED BY <1>2, <1>3, <2>1, Zenon
  <1>6. WellFormed(Msg(t, v))
    BY <1>2, <1>4, <1>5, MessageOf, Zenon
  <1> QED BY <1>6 DEF v

LEMMA Message2 ==
    ASSUME NEW t \in Types, NEW a \in FieldKinds, NEW b \in FieldKinds,
           newMessage(TRUE)[t] = <<a, b>>,
           NEW x \in FieldOf(a), NEW y \in FieldOf(b)
    PROVE  WellFormed(Msg(t, <<x, y>>))
  <1> DEFINE f == <<a, b>>
             v == <<x, y>>
  <1>1. x \in Values /\ y \in Values
    BY FieldValues
  <1>2. v \in Seq(Values) /\ Len(v) = 2 /\ Len(f) = 2
    BY <1>1
  <1>3. v[1] = x /\ f[1] = a /\ v[2] = y /\ f[2] = b
    OBVIOUS
  <1>4. newMessage(TRUE)[t] = f
    OBVIOUS
  <1> HIDE DEF f, v
  <1>5. \A i \in 1..Len(v) : v[i] \in FieldOf(f[i])
    <2>1. \A i \in 1..2 : i = 1 \/ i = 2
      OBVIOUS
    <2> QED BY <1>2, <1>3, <2>1, Zenon
  <1>6. WellFormed(Msg(t, v))
    BY <1>2, <1>4, <1>5, MessageOf, Zenon
  <1> QED BY <1>6 DEF v

LEMMA Message3 ==
    ASSUME NEW t \in Types, NEW a \in FieldKinds, NEW b \in FieldKinds, NEW c \in FieldKinds,
           newMessage(TRUE)[t] = <<a, b, c>>,
           NEW x \in FieldOf(a), NEW y \in FieldOf(b), NEW z \in FieldOf(c)
    PROVE  WellFormed(Msg(t, <<x, y, z>>))
  <1> DEFINE f == <<a, b, c>>
             v == <<x, y, z>>
  <1>1. x \in Values /\ y \in Values /\ z \in Values
    BY FieldValues
  <1>2. v \in Seq(Values) /\ Len(v) = 3 /\ Len(f) = 3
    BY <1>1
  <1>3. v[1] = x /\ f[1] = a /\ v[2] = y /\ f[2] = b /\ v[3] = z /\ f[3] = c
    OBVIOUS
  <1>4. newMessage(TRUE)[t] = f
    OBVIOUS
  <1> HIDE DEF f, v
  <1>5. \A i \in 1..Len(v) : v[i] \in FieldOf(f[i])
    <2>1. \A i \in 1..3 : i = 1 \/ i = 2 \/ i = 3
      OBVIOUS
    <2> QED BY <1>2, <1>3, <2>1, Zenon
  <1>6. WellFormed(Msg(t, v))
    BY <1>2, <1>4, <1>5, MessageOf, Zenon
  <1> QED BY <1>6 DEF v

LEMMA Message4 ==
    ASSUME NEW t \in Types, NEW a \in FieldKinds, NEW b \in FieldKinds, NEW c \in FieldKinds, NEW d \in FieldKinds,
           newMessage(TRUE)[t] = <<a, b, c, d>>,
           NEW x \in FieldOf(a), NEW y \in FieldOf(b), NEW z \in FieldOf(c), NEW w \in FieldOf(d)
    PROVE  WellFormed(Msg(t, <<x, y, z, w>>))
  <1> DEFINE f == <<a, b, c, d>>
             v == <<x, y, z, w>>
  <1>1. x \in Values /\ y \in Values /\ z \in Values /\ w \in Values
    BY FieldValues
  <1>2. v \in Seq(Values) /\ Len(v) = 4 /\ Len(f) = 4
    BY <1>1
  <1>3. v[1] = x /\ f[1] = a /\ v[2] = y /\ f[2] = b /\ v[3] = z /\ f[3] = c /\ v[4] = w /\ f[4] = d
    OBVIOUS
  <1>4. newMessage(TRUE)[t] = f
    OBVIOUS
  <1> HIDE DEF f, v
  <1>5. \A i \in 1..Len(v) : v[i] \in FieldOf(f[i])
    <2>1. \A i \in 1..4 : i = 1 \/ i = 2 \/ i = 3 \/ i = 4
      OBVIOUS
    <2> QED BY <1>2, <1>3, <2>1, Zenon
  <1>6. WellFormed(Msg(t, v))
    BY <1>2, <1>4, <1>5, MessageOf, Zenon
  <1> QED BY <1>6 DEF v

\* What the fields may hold, kind by kind.
LEMMA KindsHold ==
    /\ \A k \in {"u8", "u16", "u32", "u64"} : k \in FieldKinds /\ FieldOf(k) = Int
    /\ "str" \in FieldKinds /\ FieldOf("str") = Nat
    /\ "qid" \in FieldKinds /\ FieldOf("qid") = Qids
    /\ "names" \in FieldKinds /\ FieldOf("names") = ListOf("str") /\ ScalarOf("str") = Nat
    /\ "qids" \in FieldKinds /\ FieldOf("qids") = ListOf("qid") /\ ScalarOf("qid") = Qids
    /\ "data" \in FieldKinds /\ FieldOf("data") = Bytes
    /\ "stat" \in FieldKinds /\ FieldOf("stat") = Stats
  BY DEF FieldKinds, ScalarKinds, FieldOf, ScalarOf

\* The elements of a sequence.
LEMMA ElementsIn ==
    ASSUME NEW A, NEW s \in Seq(A), NEW n, Len(s) = n
    PROVE  \A i \in 1..n : s[i] \in A
  OBVIOUS

\* The fields of a Stat.
LEMMA StatKinds ==
    /\ \A i \in 1..15 : statFields(TRUE)[i] \in ScalarKinds
    /\ \A i \in 12..15 : statFields(TRUE)[i] \in {"str", "u32"}
    /\ \A unix \in BOOLEAN : Len(statFields(unix)) \in {11, 15}
  <1>2. \A unix \in BOOLEAN : Len(statFields(unix)) = IF unix THEN 15 ELSE 11
    BY StatFields, Zenon
  <1>3. \A unix \in BOOLEAN : Len(statFields(unix)) \in {11, 15}
    BY <1>2, Zenon
  <1>4. \A i \in 12..15 : statFields(TRUE)[i] \in {"str", "u32"}
    <2>1. \A i \in 12..15 : i = 12 \/ i = 13 \/ i = 14 \/ i = 15
      OBVIOUS
    <2> DEFINE p == <<"u16", "u32", "qid", "u32", "u32", "u32", "u64", "str", "str", "str", "str">>
               x == <<"str", "u32", "u32", "u32">>
    <2>2. statFields(TRUE) = p \o x
      BY DEF statFields
    <2>3. p \in Seq(ScalarKinds) /\ Len(p) = 11 /\ x \in Seq(ScalarKinds) /\ Len(x) = 4
      BY DEF ScalarKinds
    <2>4. x[1] = "str" /\ x[2] = "u32" /\ x[3] = "u32" /\ x[4] = "u32"
      OBVIOUS
    <2> HIDE DEF p, x
    <2>5. \A i \in 1..Len(x) : (p \o x)[Len(p) + i] = x[i]
      <3> DEFINE K == ScalarKinds
      <3>1. p \in Seq(K) /\ x \in Seq(K)
        BY <2>3
      <3> HIDE DEF K
      <3> QED BY <3>1
    <2>6. /\ statFields(TRUE)[12] = "str" /\ statFields(TRUE)[13] = "u32"
          /\ statFields(TRUE)[14] = "u32" /\ statFields(TRUE)[15] = "u32"
      <3>1. \A i \in 1..4 : statFields(TRUE)[11 + i] = x[i]
        BY <2>2, <2>3, <2>5
      <3>2. 11 + 1 = 12 /\ 11 + 2 = 13 /\ 11 + 3 = 14 /\ 11 + 4 = 15 /\ 1 \in 1..4 /\ 2 \in 1..4 /\ 3 \in 1..4 /\ 4 \in 1..4
        OBVIOUS
      <3> QED BY <2>4, <3>1, <3>2, Zenon
    <2> QED BY <2>1, <2>6, Zenon
  <1>5. \A i \in 1..15 : statFields(TRUE)[i] \in ScalarKinds
    <2>1. statFields(TRUE) \in Seq(ScalarKinds) /\ Len(statFields(TRUE)) = 15
      BY StatFields, Zenon
    <2> QED BY <2>1, ElementsIn, Zenon
  <1> QED BY <1>3, <1>4, <1>5

\* The predicates of Wire describe the same messages.
LEMMA HoldsField ==
    ASSUME NEW k \in FieldKinds, NEW v, holds(k, v)
    PROVE  v \in FieldOf(k)
  <1>1. ASSUME NEW j \in ScalarKinds, NEW x, holdsScalar(j, x) PROVE x \in ScalarOf(j)
    BY <1>1 DEF holdsScalar, ScalarOf, Qids
  <1>2. CASE k = "names"
    BY <1>2 DEF holds, FieldOf, ListOf, ScalarOf
  <1>3. CASE k = "qids"
    BY <1>3 DEF holds, FieldOf, ListOf, ScalarOf, Qids
  <1>4. CASE k = "data"
    BY <1>4 DEF holds, FieldOf, Bytes, Run
  <1>5. CASE k = "stat"
    <2>1. v = [i \in 1..15 |-> v[i]] /\ \A i \in 1..15 : holdsScalar(statFields(TRUE)[i], v[i])
      BY <1>5 DEF holds
    <2>2. \A i \in 1..15 : statFields(TRUE)[i] \in ScalarKinds
      BY StatKinds
    <2>3. \A i \in 1..15 : v[i] \in ScalarOf(statFields(TRUE)[i])
      BY <1>1, <2>1, <2>2, Zenon
    <2>4. \A i \in 1..15 : v[i] \in Scalars
      <3>1. ASSUME NEW j \in ScalarKinds, NEW x \in ScalarOf(j) PROVE x \in Scalars
        BY <3>1 DEF ScalarOf, Scalars, Qids
      <3> QED BY <2>2, <2>3, <3>1, Zenon
    <2>5. v \in Seq(Scalars) /\ Len(v) = 15
      <3>1. \A w : w = [i \in 1..15 |-> w[i]] /\ (\A i \in 1..15 : w[i] \in Scalars) =>
                      w \in Seq(Scalars) /\ Len(w) = 15
        <4> HIDE DEF Scalars
        <4> QED OBVIOUS
      <3> QED BY <2>1, <2>4, <3>1, Zenon
    <2>6. v \in Stats
      BY <2>3, <2>5, Zenon DEF Stats
    <2> QED BY <1>5, <2>6 DEF FieldOf
  <1>6. CASE k \in ScalarKinds
    <2>1. holdsScalar(k, v)
      BY <1>6 DEF holds, ScalarKinds
    <2>2. v \in ScalarOf(k)
      BY <1>1, <1>6, <2>1, Zenon
    <2> QED BY <1>6, <2>2 DEF FieldOf, ScalarKinds
  <1> QED BY <1>2, <1>3, <1>4, <1>5, <1>6 DEF FieldKinds

LEMMA MessageWellFormed ==
    ASSUME NEW m, isMessage(m)
    PROVE  WellFormed(m) /\ type(m) = m[1]
  <1> DEFINE t  == m[1]
             fs == newMessage(TRUE)[t]
             v  == [i \in DOMAIN fs |-> m[i + 1]]
  <1>1. t \in DOMAIN newMessage(TRUE) /\ m = Msg(t, v) /\ \A i \in DOMAIN fs : holds(fs[i], m[i + 1])
    BY DEF isMessage
  <1>2. t \in Types
    BY <1>1, MessageTable
  <1>3. fs \in Seq(FieldKinds)
    BY <1>2, BodyFields DEF Leads
  <1> HIDE DEF t, fs
  <1>4. Len(fs) \in Nat /\ DOMAIN fs = 1..Len(fs) /\ \A i \in 1..Len(fs) : fs[i] \in FieldKinds
    BY <1>3
  <1>5. \A i \in 1..Len(fs) : m[i + 1] \in FieldOf(fs[i]) /\ m[i + 1] \in Values
    BY <1>1, <1>4, HoldsField, FieldValues, Zenon
  <1>6. v \in Seq(Values) /\ Len(v) = Len(fs) /\ \A i \in 1..Len(fs) : v[i] = m[i + 1]
    BY <1>4, <1>5
  <1> HIDE DEF v
  <1>7. \A i \in 1..Len(v) : v[i] \in FieldOf(fs[i])
    BY <1>5, <1>6, Zenon
  <1>8. WellFormed(m)
    BY <1>1, <1>2, <1>6, <1>7, MessageOf, Zenon DEF fs
  <1>9. type(m) = t
    BY <1>1, <1>6, MsgParts, Zenon
  <1> QED BY <1>8, <1>9 DEF t

\* Every message that the structs of fcall.go can hold (isMessage) round-trips,
\* in either dialect: decoding returns all of it that the dialect carries, or
\* refuses a message whose Stat is too large for its 16-bit size.
THEOREM MessagesRoundTrip == \A m : isMessage(m) => RoundTrips(m)
  BY MessageWellFormed, RoundTrip, Zenon

\* What arrives of a message is a message: its numbers, Qids and data are the
\* ones that were sent.
Kept(k) == k \notin {"str", "names", "stat"}

LEMMA CarriedField ==
    ASSUME NEW k \in FieldKinds, NEW v \in FieldOf(k), NEW unix \in BOOLEAN
    PROVE  fieldCarried(k, v, unix) \in FieldOf(k) /\ (Kept(k) => fieldCarried(k, v, unix) = v)
  <1>1. \A s \in Nat : truncated(s) \in Nat
    BY DEF truncated
  <1>2. CASE k = "names"
    <2>1. v \in Seq(Nat) /\ Len(v) <= MaxWElem /\ FieldOf(k) = {w \in Seq(Nat) : Len(w) <= MaxWElem}
      BY <1>2 DEF FieldOf, ListOf, ScalarOf
    <2>2. fieldCarried(k, v, unix) = [j \in DOMAIN v |-> truncated(v[j])]
      BY <1>2 DEF fieldCarried
    <2>3. [j \in DOMAIN v |-> truncated(v[j])] \in Seq(Nat) /\ Len([j \in DOMAIN v |-> truncated(v[j])]) = Len(v)
      <3>1. DOMAIN v = 1..Len(v) /\ Len(v) \in Nat /\ \A j \in 1..Len(v) : v[j] \in Nat
        BY <2>1
      <3>2. \A j \in 1..Len(v) : truncated(v[j]) \in Nat
        BY <1>1, <3>1, Zenon
      <3> QED BY <3>1, <3>2
    <2> QED BY <1>2, <2>1, <2>2, <2>3 DEF Kept
  <1>3. CASE k = "qids"
    BY <1>3 DEF fieldCarried, scalarCarried
  <1>4. CASE k = "data"
    BY <1>4 DEF fieldCarried, scalarCarried
  <1>5. CASE k = "stat"
    <2> DEFINE c == statCarried(v, unix)
    <2>1. v \in Stats /\ FieldOf(k) = Stats /\ fieldCarried(k, v, unix) = c
      BY <1>5 DEF FieldOf, fieldCarried
    <2>2. c = [j \in 1..15 |-> IF j <= Len(statFields(unix)) THEN scalarCarried(statFields(TRUE)[j], v[j]) ELSE 0]
      BY DEF statCarried
    <2> HIDE DEF c
    <2>3. c \in Seq(Scalars) /\ Len(c) = 15
      <3>1. c \in Seq(Scalars)
        BY <2>1, StatBytes DEF c
      <3>2. DOMAIN c = 1..15
        BY <2>2, Zenon
      <3>3. \A s \in Seq(Scalars) : DOMAIN s = 1..15 => Len(s) = 15
        <4> HIDE DEF Scalars
        <4> QED OBVIOUS
      <3> QED BY <3>1, <3>2, <3>3, Zenon
    <2>4. ASSUME NEW i \in 1..15 PROVE c[i] \in ScalarOf(statFields(TRUE)[i])
      <3> DEFINE kind == statFields(TRUE)[i]
      <3>1. kind \in ScalarKinds /\ v[i] \in ScalarOf(kind)
        BY <2>1, StatKinds, Zenon DEF Stats
      <3>2. c[i] = IF i <= Len(statFields(unix)) THEN scalarCarried(kind, v[i]) ELSE 0
        BY <2>2, Zenon
      <3>3. i > Len(statFields(unix)) => 0 \in ScalarOf(kind)
        <4>1. Len(statFields(unix)) \in {11, 15}
          BY StatKinds, Zenon
        <4>2. i > Len(statFields(unix)) => i \in 12..15
          <5> DEFINE N == Len(statFields(unix))
          <5>1. N \in {11, 15}
            BY <4>1
          <5> HIDE DEF N
          <5>2. i > N => i \in 12..15
            BY <5>1
          <5> QED BY <5>2 DEF N
        <4>3. i \in 12..15 => kind \in {"str", "u32"}
          BY StatKinds, Zenon
        <4>4. 0 \in ScalarOf("str") /\ 0 \in ScalarOf("u32")
          BY DEF ScalarOf
        <4> HIDE DEF kind
        <4> QED BY <4>2, <4>3, <4>4, Zenon
      <3>4. scalarCarried(kind, v[i]) \in ScalarOf(kind)
        BY <3>1, ScalarBytes
      <3>5. Len(statFields(unix)) \in Nat
        <4>1. Len(statFields(unix)) \in {11, 15}
          BY StatKinds, Zenon
        <4> QED BY <4>1
      <3> HIDE DEF kind
      <3>6. CASE i <= Len(statFields(unix))
        BY <3>2, <3>4, <3>6 DEF kind
      <3>7. CASE ~(i <= Len(statFields(unix)))
        <4>1. 0 \in ScalarOf(kind)
          BY <3>3, <3>5, <3>7
        <4> QED BY <3>2, <3>7, <4>1 DEF kind
      <3> QED BY <3>6, <3>7, Zenon
    <2>5. c \in Stats
      BY <2>3, <2>4, Zenon DEF Stats
    <2> QED BY <1>5, <2>1, <2>5 DEF Kept
  <1>6. CASE k \in ScalarKinds
    <2>1. v \in ScalarOf(k) /\ FieldOf(k) = ScalarOf(k) /\ fieldCarried(k, v, unix) = scalarCarried(k, v)
      BY <1>6 DEF FieldOf, fieldCarried, ScalarKinds
    <2>2. scalarCarried(k, v) \in ScalarOf(k)
      BY <1>6, <2>1, ScalarBytes
    <2>3. k # "str" => scalarCarried(k, v) = v
      BY DEF scalarCarried
    <2> QED BY <2>1, <2>2, <2>3, Zenon DEF Kept
  <1> QED BY <1>2, <1>3, <1>4, <1>5, <1>6 DEF FieldKinds

Keeps(t, vals, C, unix) ==
    /\ C \in Contents(t)
    /\ \A i \in 1..Len(newMessage(unix)[t]) : Kept(newMessage(unix)[t][i]) => C[i] = vals[i]

LEMMA CarriedParts ==
    ASSUME NEW t \in Types, NEW vals \in Contents(t), NEW unix \in BOOLEAN
    PROVE  \E C : Carried(Msg(t, vals), unix) = Msg(t, C) /\ Keeps(t, vals, C, unix)
  <1> DEFINE m   == Msg(t, vals)
             f   == newMessage(unix)[t]
             all == newMessage(TRUE)[t]
             C   == [i \in DOMAIN all |-> IF i <= Len(f) THEN fieldCarried(all[i], vals[i], unix) ELSE 0]
  <1>1. Leads(f, all)
    BY BodyFields, Zenon
  <1>2. vals \in Seq(Values) /\ Len(vals) = Len(all) /\ \A i \in 1..Len(vals) : vals[i] \in FieldOf(all[i])
    BY DEF Contents
  <1>3. type(m) = t /\ arg(m) = vals
    BY <1>2, MsgParts
  <1>4. Carried(m, unix) = Msg(t, C)
    <2> HIDE DEF m
    <2> QED BY <1>3 DEF Carried
  <1>5. ASSUME NEW i \in 1..Len(all), ~(i <= Len(f)) PROVE all[i] = "str"
    <2>1. CASE t = "Tcreate"
      <3> DEFINE p == <<"u32", "str", "u32", "u8">>
                 a == <<"u32", "str", "u32", "u8", "str">>
      <3>0. all = a /\ (f = a \/ f = p)
        BY <2>1, MessageFields, Zenon
      <3> HIDE DEF all, f
      <3>1. all = <<"u32", "str", "u32", "u8", "str">> /\ Len(f) >= 4
        BY <3>0
      <3> QED BY <1>1, <1>5, <3>1 DEF Leads
    <2>2. CASE t # "Tcreate"
      <3>1. f = all
        BY <2>2, MessageFields, Zenon DEF Types
      <3> HIDE DEF all, f
      <3>2. Len(all) \in Nat
        BY <1>1 DEF Leads
      <3> QED BY <1>5, <3>1, <3>2
    <2> QED BY <2>1, <2>2
  <1> HIDE DEF f, all
  <1>6. /\ Len(f) \in Nat /\ Len(all) \in Nat /\ DOMAIN all = 1..Len(all) /\ Len(f) <= Len(all)
        /\ \A i \in 1..Len(f) : f[i] = all[i] /\ i \in 1..Len(all)
        /\ \A i \in 1..Len(all) : all[i] \in FieldKinds
    BY <1>1 DEF Leads
  <1>7. ASSUME NEW i \in 1..Len(all) PROVE C[i] \in FieldOf(all[i])
    <2>1. C[i] = IF i <= Len(f) THEN fieldCarried(all[i], vals[i], unix) ELSE 0
      BY <1>6
    <2>2. fieldCarried(all[i], vals[i], unix) \in FieldOf(all[i])
      BY <1>2, <1>6, CarriedField, Zenon
    <2>3. ~(i <= Len(f)) => 0 \in FieldOf(all[i])
      BY <1>5, KindsHold
    <2> QED BY <2>1, <2>2, <2>3
  <1>8. C \in Contents(t)
    <2>1. \A i \in 1..Len(all) : C[i] \in Values
      BY <1>6, <1>7, FieldValues, Zenon
    <2>2. C \in Seq(Values) /\ Len(C) = Len(all)
      BY <1>6, <2>1
    <2> HIDE DEF C
    <2> QED BY <1>7, <2>2, Zenon DEF Contents, all
  <1>9. ASSUME NEW i \in 1..Len(f), Kept(f[i]) PROVE C[i] = vals[i]
    <2>1. C[i] = fieldCarried(all[i], vals[i], unix) /\ vals[i] \in FieldOf(all[i]) /\ i \in 1..Len(all)
      BY <1>2, <1>6
    <2> QED BY <1>6, <1>9, <2>1, CarriedField, Zenon
  <1>10. Keeps(t, vals, C, unix)
    <2> HIDE DEF C
    <2> QED BY <1>8, <1>9, Zenon DEF Keeps, f
  <1> QED BY <1>4, <1>10

-----------------------------------------------------------------------------
(***************************************************************************)
(* MemFS: what its methods keep to.                                        *)
(***************************************************************************)

\* The children of a directory among n nodes, the nodes, and a file system.
Kids(n) == UNION {[D -> 1..n] : D \in {E \in SUBSET Nat : IsFiniteSet(E)}}
Node(n) == [name : Nat, dir : BOOLEAN, target : Nat, vers : Nat, data : Seq(Int),
            children : Kids(n), parent : 0..n]
Tree(fs) == fs \in Seq(Node(Len(fs))) /\ Len(fs) >= 2

\* t is what a method has made of fs.
Grown(fs, t) == Tree(t) /\ Len(fs) <= Len(t)

LEMMA KidsParts ==
    ASSUME NEW n, NEW c
    PROVE  c \in Kids(n) <=>
              /\ c \in [DOMAIN c -> 1..n]
              /\ DOMAIN c \subseteq Nat /\ IsFiniteSet(DOMAIN c)
  <1>1. ASSUME c \in Kids(n)
        PROVE  c \in [DOMAIN c -> 1..n] /\ DOMAIN c \subseteq Nat /\ IsFiniteSet(DOMAIN c)
    <2>1. PICK D \in SUBSET Nat : IsFiniteSet(D) /\ c \in [D -> 1..n]
      BY <1>1 DEF Kids
    <2>2. DOMAIN c = D
      BY <2>1
    <2> QED BY <2>1, <2>2
  <1>2. ASSUME c \in [DOMAIN c -> 1..n], DOMAIN c \subseteq Nat, IsFiniteSet(DOMAIN c)
        PROVE  c \in Kids(n)
    <2> DEFINE D == DOMAIN c
    <2>1. D \in {E \in SUBSET Nat : IsFiniteSet(E)} /\ c \in [D -> 1..n]
      BY <1>2
    <2> HIDE DEF D
    <2> QED BY <2>1, Zenon DEF Kids
  <1> QED BY <1>1, <1>2

\* Children stay children when one is added or removed, and among more nodes.
LEMMA KidsEdits ==
    ASSUME NEW n \in Nat, NEW c \in Kids(n)
    PROVE  /\ \A s \in Nat, m \in 1..n : with(c, s, m) \in Kids(n)
           /\ \A s : without(c, s) \in Kids(n)
           /\ c \in Kids(n + 1)
           /\ \A s \in DOMAIN c : s \in Nat /\ c[s] \in 1..n
  <1>1. c \in [DOMAIN c -> 1..n] /\ DOMAIN c \subseteq Nat /\ IsFiniteSet(DOMAIN c)
    BY KidsParts, Zenon
  <1>2. ASSUME NEW s \in Nat, NEW m \in 1..n PROVE with(c, s, m) \in Kids(n)
    <2> DEFINE e == with(c, s, m)
    <2>1. DOMAIN e = DOMAIN c \cup {s} /\ e \in [DOMAIN e -> 1..n]
      BY <1>1 DEF with
    <2>2. IsFiniteSet(DOMAIN c \cup {s})
      BY <1>1, FS_AddElement, Zenon
    <2>3. DOMAIN e \subseteq Nat /\ IsFiniteSet(DOMAIN e)
      BY <1>1, <2>1, <2>2
    <2> HIDE DEF e
    <2> QED BY <2>1, <2>3, KidsParts, Zenon DEF e
  <1>3. ASSUME NEW s PROVE without(c, s) \in Kids(n)
    <2> DEFINE e == without(c, s)
    <2>1. DOMAIN e = DOMAIN c \ {s} /\ e \in [DOMAIN e -> 1..n]
      BY <1>1 DEF without
    <2>2. IsFiniteSet(DOMAIN c \ {s})
      <3>1. DOMAIN c \ {s} \subseteq DOMAIN c
        OBVIOUS
      <3> QED BY <1>1, <3>1, FS_Subset, Zenon
    <2>3. DOMAIN e \subseteq Nat /\ IsFiniteSet(DOMAIN e)
      BY <1>1, <2>1, <2>2
    <2> HIDE DEF e
    <2> QED BY <2>1, <2>3, KidsParts, Zenon DEF e
  <1>4. c \in Kids(n + 1)
    <2>1. c \in [DOMAIN c -> 1..(n + 1)]
      BY <1>1
    <2> QED BY <1>1, <2>1, KidsParts, Zenon
  <1>5. \A s \in DOMAIN c : s \in Nat /\ c[s] \in 1..n
    BY <1>1
  <1> QED BY <1>2, <1>3, <1>4, <1>5

LEMMA NoKids ==
    ASSUME NEW n \in Nat
    PROVE  <<>> \in Kids(n)
  <1>1. DOMAIN <<>> = {} /\ <<>> \in [DOMAIN <<>> -> 1..n]
    OBVIOUS
  <1>2. IsFiniteSet(DOMAIN <<>>)
    BY <1>1, FS_EmptySet
  <1>3. DOMAIN <<>> \subseteq Nat
    BY <1>1
  <1> QED BY <1>1, <1>2, <1>3, KidsParts, Zenon

\* A node.
LEMMA NodeParts ==
    ASSUME NEW fs, Tree(fs), NEW n \in 1..Len(fs)
    PROVE  /\ Len(fs) \in Nat /\ DOMAIN fs = 1..Len(fs) /\ fs[n] \in Node(Len(fs))
           /\ fs[n].name \in Nat /\ fs[n].dir \in BOOLEAN /\ fs[n].target \in Nat
           /\ fs[n].vers \in Nat /\ fs[n].data \in Seq(Int) /\ fs[n].children \in Kids(Len(fs))
           /\ fs[n].parent \in 0..Len(fs)
  <1> DEFINE N == Node(Len(fs))
  <1>1. fs \in Seq(N)
    BY DEF Tree
  <1> HIDE DEF N
  <1>2. Len(fs) \in Nat /\ DOMAIN fs = 1..Len(fs) /\ fs[n] \in N
    BY <1>1
  <1> QED BY <1>2 DEF N, Node

\* One field of a node changes.
Same(fs, t) == Tree(t) /\ Len(t) = Len(fs)

LEMMA NodeEdits ==
    ASSUME NEW fs, Tree(fs), NEW n \in 1..Len(fs)
    PROVE  /\ \A x \in Nat : Same(fs, [fs EXCEPT ![n].name = x])
           /\ \A x \in Kids(Len(fs)) : Same(fs, [fs EXCEPT ![n].children = x])
           /\ \A x \in Seq(Int) : Same(fs, [fs EXCEPT ![n].data = x])
           /\ \A x \in Nat : Same(fs, [fs EXCEPT ![n].vers = x])
  <1> DEFINE N == Node(Len(fs))
  <1>1. fs \in Seq(N) /\ Len(fs) >= 2
    BY DEF Tree
  <1>2. fs[n] \in N
    BY NodeParts
  <1>3. ASSUME NEW y \in N PROVE Same(fs, [fs EXCEPT ![n] = y])
    <2> HIDE DEF N
    <2>1. [fs EXCEPT ![n] = y] \in Seq(N) /\ Len([fs EXCEPT ![n] = y]) = Len(fs)
      BY <1>1
    <2> DEFINE t == [fs EXCEPT ![n] = y]
    <2>2. t \in Seq(N) /\ Len(t) = Len(fs)
      BY <2>1
    <2> HIDE DEF t
    <2>3. t \in Seq(Node(Len(t))) /\ Len(t) >= 2
      BY <1>1, <2>2 DEF N
    <2>4. Same(fs, t)
      BY <2>2, <2>3, Zenon DEF Same, Tree
    <2> QED BY <2>4 DEF t
  <1>4. /\ \A x \in Nat : [fs[n] EXCEPT !.name = x] \in N
        /\ \A x \in Kids(Len(fs)) : [fs[n] EXCEPT !.children = x] \in N
        /\ \A x \in Seq(Int) : [fs[n] EXCEPT !.data = x] \in N
        /\ \A x \in Nat : [fs[n] EXCEPT !.vers = x] \in N
    BY <1>2 DEF Node
  <1> HIDE DEF N
  <1>5. ASSUME NEW x \in Nat PROVE Same(fs, [fs EXCEPT ![n].name = x])
    BY <1>3, <1>4
  <1>6. ASSUME NEW x \in Kids(Len(fs)) PROVE Same(fs, [fs EXCEPT ![n].children = x])
    BY <1>3, <1>4
  <1>7. ASSUME NEW x \in Seq(Int) PROVE Same(fs, [fs EXCEPT ![n].data = x])
    BY <1>3, <1>4
  <1>8. ASSUME NEW x \in Nat PROVE Same(fs, [fs EXCEPT ![n].vers = x])
    BY <1>3, <1>4
  <1> QED BY <1>5, <1>6, <1>7, <1>8

\* The outcomes of a method: an error, or a value and the file system after it.
Failed(r)          == \E len \in Nat : r = Failure(len)
Makes(r, fs, t, v) == r = Result(t, v) /\ Grown(fs, t)

LEMMA ResizeType ==
    ASSUME NEW b \in Seq(Int), NEW n \in Int
    PROVE  resize(b, n) \in Seq(Int)
  <1>1. \A i \in 1..n : (IF i <= Len(b) THEN b[i] ELSE 0) \in Int
    OBVIOUS
  <1>2. CASE n >= 0
    BY <1>1, <1>2 DEF resize
  <1>3. CASE n < 0
    <2>1. 1..n = 1..0
      BY <1>3
    <2>2. resize(b, n) = [i \in 1..0 |-> IF i <= Len(b) THEN b[i] ELSE 0]
      BY <2>1 DEF resize
    <2> QED BY <2>2
  <1> QED BY <1>2, <1>3

LEMMA WStatOutcome ==
    ASSUME NEW fs, Tree(fs), NEW n \in 1..Len(fs), NEW st \in Stats
    PROVE  Failed(WStat(fs, n, st)) \/ \E t : Makes(WStat(fs, n, st), fs, t, n)
  <1> DEFINE p       == fs[n].parent
             rename  == st[8] # 0 /\ st[8] # fs[n].name
             moved   == with(without(fs[p].children, fs[n].name), st[8], n)
             renamed == [fs EXCEPT ![n].name = st[8],
                                   ![p].children = with(without(@, fs[n].name), st[8], n)]
             base    == IF rename THEN renamed ELSE fs
             sized   == [base EXCEPT ![n].data = resize(@, st[7]), ![n].vers = @ + 1]
  <1>1. st[7] \in Int /\ st[8] \in Nat
    <2>0. \A i \in 1..15 : st[i] \in ScalarOf(statFields(TRUE)[i])
      BY Zenon DEF Stats
    <2>1. st[7] \in ScalarOf(statFields(TRUE)[7]) /\ st[8] \in ScalarOf(statFields(TRUE)[8])
      <3>1. 7 \in 1..15 /\ 8 \in 1..15
        OBVIOUS
      <3> QED BY <2>0, <3>1, Zenon
    <2>2. statFields(TRUE)[7] = "u64" /\ statFields(TRUE)[8] = "str"
      BY DEF statFields
    <2> QED BY <2>1, <2>2 DEF ScalarOf
  <1>2. Same(fs, fs)
    BY DEF Same
  <1>3. ASSUME p # 0 PROVE Same(fs, renamed)
    <2> DEFINE f1 == [fs EXCEPT ![n].name = st[8]]
               c  == with(without(f1[p].children, fs[n].name), st[8], n)
               f2 == [f1 EXCEPT ![p].children = c]
    <2>1. Same(fs, f1)
      BY <1>1, NodeEdits
    <2>2. p \in 1..Len(fs) /\ Len(fs) \in Nat
      BY <1>3, NodeParts
    <2>3. renamed = f2
      OBVIOUS
    <2> HIDE DEF f1, p
    <2>4. Tree(f1) /\ Len(f1) = Len(fs) /\ p \in 1..Len(f1)
      BY <2>1, <2>2 DEF Same
    <2>5. f1[p].children \in Kids(Len(fs))
      <3>1. f1[p].children \in Kids(Len(f1))
        BY <2>4, NodeParts
      <3> QED BY <2>4, <3>1
    <2>6. without(f1[p].children, fs[n].name) \in Kids(Len(fs))
      BY <2>2, <2>5, KidsEdits
    <2>7. c \in Kids(Len(fs))
      BY <1>1, <2>2, <2>6, KidsEdits
    <2> HIDE DEF c
    <2>8. Same(f1, f2)
      BY <2>4, <2>7, NodeEdits
    <2> QED BY <2>3, <2>4, <2>8 DEF Same
  <1>4. ASSUME NEW b, Same(fs, b)
        PROVE  Same(fs, [b EXCEPT ![n].data = resize(@, st[7]), ![n].vers = @ + 1])
    <2> DEFINE d  == resize(b[n].data, st[7])
               f1 == [b EXCEPT ![n].data = d]
               v  == f1[n].vers + 1
               f2 == [f1 EXCEPT ![n].vers = v]
    <2>1. Tree(b) /\ Len(b) = Len(fs) /\ n \in 1..Len(b)
      BY <1>4 DEF Same
    <2>2. b[n].data \in Seq(Int)
      BY <2>1, NodeParts
    <2>3. d \in Seq(Int)
      BY <1>1, <2>2, ResizeType
    <2>4. [b EXCEPT ![n].data = resize(@, st[7]), ![n].vers = @ + 1] = f2
      OBVIOUS
    <2> HIDE DEF d
    <2>5. Same(b, f1)
      BY <2>1, <2>3, NodeEdits
    <2> HIDE DEF f1
    <2>6. Tree(f1) /\ Len(f1) = Len(fs) /\ n \in 1..Len(f1)
      BY <2>1, <2>5 DEF Same
    <2>7. v \in Nat
      BY <2>6, NodeParts
    <2> HIDE DEF v
    <2>8. Same(f1, f2)
      BY <2>6, <2>7, NodeEdits
    <2> QED BY <2>4, <2>6, <2>8 DEF Same
  <1>5. WStat(fs, n, st) =
           IF rename /\ p = 0 THEN Failure(25)
           ELSE IF rename /\ st[8] \in DOMAIN fs[p].children THEN Failure(alreadyExists(st[8]))
           ELSE Result(IF st[7] # DontTouch /\ ~fs[n].dir THEN sized ELSE base, n)
    BY DEF WStat
  <1>6. alreadyExists(st[8]) \in Nat /\ 25 \in Nat
    BY <1>1 DEF alreadyExists
  <1>7. CASE ~(rename /\ p = 0)
    <2>1. Same(fs, base)
      <3> HIDE DEF renamed
      <3> QED BY <1>2, <1>3, <1>7
    <2> HIDE DEF base
    <2>2. Same(fs, sized)
      BY <1>4, <2>1
    <2>3. \A t : Same(fs, t) => Grown(fs, t)
      BY DEF Same, Grown, Tree
    <2> HIDE DEF sized, rename, p
    <2> QED BY <1>5, <1>6, <1>7, <2>1, <2>2, <2>3, Zenon DEF Failed, Makes
  <1>8. CASE rename /\ p = 0
    <2> HIDE DEF sized, base, rename, p
    <2> QED BY <1>5, <1>6, <1>8, Zenon DEF Failed
  <1> QED BY <1>7, <1>8

LEMMA WalkOutcome ==
    ASSUME NEW fs, Tree(fs), NEW n \in 1..Len(fs), NEW name \in Nat
    PROVE  Failed(Walk(fs, n, name)) \/ \E v \in 1..Len(fs) : Walk(fs, n, name) = Result(fs, v)
  <1>1. notADirectory \in Nat /\ noSuchFile(name) \in Nat
    BY DEF notADirectory, noSuchFile
  <1>2. \A s \in DOMAIN fs[n].children : fs[n].children[s] \in 1..Len(fs)
    BY NodeParts, KidsEdits
  <1> QED BY <1>1, <1>2, Zenon DEF Walk, Failed

LEMMA OpenOutcome ==
    ASSUME NEW fs, NEW n
    PROVE  Failed(Open(fs, n, FALSE)) \/ Open(fs, n, FALSE) = Result(fs, n)
  <1>1. 28 \in Nat
    OBVIOUS
  <1> QED BY <1>1, Zenon DEF Open, Failed

LEMMA AddOutcome ==
    ASSUME NEW fs, Tree(fs), NEW n \in 1..Len(fs), NEW name \in Nat, NEW dir \in BOOLEAN,
           NEW target \in Nat
    PROVE  \/ Failed(addChild(fs, n, name, dir, target))
           \/ \E t : /\ Makes(addChild(fs, n, name, dir, target), fs, t, Len(fs) + 1)
                     /\ Len(t) = Len(fs) + 1
  <1> DEFINE x == [name |-> name, dir |-> dir, target |-> target, vers |-> 0, data |-> <<>>,
                   children |-> <<>>, parent |-> n]
             grown == Append(fs, x)
             k == Len(fs) + 1
             c == with(grown[n].children, name, k)
             t == [grown EXCEPT ![n].children = c]
  <1>1. Len(fs) \in Nat /\ k \in Nat /\ fs \in Seq(Node(Len(fs))) /\ Len(fs) >= 2
    BY NodeParts DEF Tree
  <1>2. Node(Len(fs)) \subseteq Node(k)
    <2>1. Kids(Len(fs)) \subseteq Kids(k)
      BY <1>1, KidsEdits
    <2>2. 0..Len(fs) \subseteq 0..k
      BY <1>1
    <2> HIDE DEF k
    <2> QED BY <2>1, <2>2 DEF Node
  <1>3. x \in Node(k)
    <2>1. <<>> \in Kids(k) /\ n \in 0..k /\ <<>> \in Seq(Int)
      BY <1>1, NoKids
    <2> HIDE DEF k
    <2> QED BY <2>1 DEF Node
  <1>4. Tree(grown) /\ Len(grown) = k
    <2> DEFINE N == Node(k)
    <2>1. fs \in Seq(N) /\ x \in N
      <3> DEFINE M == Node(Len(fs))
      <3>1. fs \in Seq(M) /\ M \subseteq N
        BY <1>1, <1>2
      <3> HIDE DEF M, N
      <3>2. fs \in Seq(N)
        BY <3>1
      <3> QED BY <1>3, <3>2 DEF N
    <2> HIDE DEF N, x
    <2>2. grown \in Seq(N) /\ Len(grown) = k
      BY <2>1
    <2> HIDE DEF grown
    <2>3. Len(grown) >= 2
      BY <1>1, <2>2
    <2> QED BY <2>2, <2>3 DEF Tree, N
  <1>5. newNode(fs, name, dir, target, n) = grown
    BY DEF newNode
  <1> HIDE DEF x, grown
  <1>6. n \in 1..Len(grown) /\ k \in 1..k
    BY <1>1, <1>4
  <1>7. grown[n].children \in Kids(k)
    BY <1>4, <1>6, NodeParts
  <1>8. c \in Kids(k)
    BY <1>1, <1>6, <1>7, KidsEdits
  <1>9. Same(grown, t)
    <2> HIDE DEF c
    <2> QED BY <1>4, <1>6, <1>8, NodeEdits
  <1>10. Grown(fs, t) /\ Len(t) = k
    <2> HIDE DEF t
    <2> QED BY <1>1, <1>4, <1>9 DEF Same, Grown
  <1>11. addChild(fs, n, name, dir, target) =
            IF ~fs[n].dir THEN Failure(notADirectory)
            ELSE IF name \in DOMAIN fs[n].children THEN Failure(alreadyExists(name))
            ELSE Result(t, k)
    BY <1>4, <1>5 DEF addChild
  <1>12. notADirectory \in Nat /\ alreadyExists(name) \in Nat
    BY DEF notADirectory, alreadyExists
  <1> HIDE DEF t, k
  <1>13. \/ Failed(addChild(fs, n, name, dir, target))
         \/ Makes(addChild(fs, n, name, dir, target), fs, t, k)
    BY <1>10, <1>11, <1>12, Zenon DEF Failed, Makes
  <1> QED BY <1>10, <1>13 DEF k

LEMMA RemoveOutcome ==
    ASSUME NEW fs, Tree(fs), NEW n \in 1..Len(fs)
    PROVE  Failed(RemoveNode(fs, n)) \/ \E t : Makes(RemoveNode(fs, n), fs, t, n)
  <1> DEFINE p == fs[n].parent
             c == without(fs[p].children, fs[n].name)
             t == [fs EXCEPT ![p].children = c]
  <1>1. ASSUME p # 0 PROVE Grown(fs, t)
    <2>1. p \in 1..Len(fs) /\ Len(fs) \in Nat
      BY <1>1, NodeParts
    <2>2. fs[p].children \in Kids(Len(fs))
      BY <2>1, NodeParts
    <2>3. c \in Kids(Len(fs))
      BY <2>1, <2>2, KidsEdits
    <2> HIDE DEF c, p
    <2>4. Same(fs, t)
      BY <2>1, <2>3, NodeEdits
    <2> HIDE DEF t
    <2> QED BY <2>1, <2>4 DEF Same, Grown
  <1>2. RemoveNode(fs, n) =
           IF p = 0 THEN Failure(25)
           ELSE IF fs[n].dir /\ fs[n].children # <<>> THEN Failure(26)
           ELSE Result(t, n)
    BY DEF RemoveNode
  <1>3. 25 \in Nat /\ 26 \in Nat
    OBVIOUS
  <1> HIDE DEF p, t
  <1> QED BY <1>1, <1>2, <1>3, Zenon DEF Failed, Makes

LEMMA WriteOutcome ==
    ASSUME NEW fs, Tree(fs), NEW n \in 1..Len(fs), NEW offset \in Nat, NEW data \in Seq(Int)
    PROVE  Failed(Write(fs, n, offset, data)) \/ \E t : Makes(Write(fs, n, offset, data), fs, t, Len(data))
  <1> DEFINE end  == offset + Len(data)
             grow == IF end > Len(fs[n].data) THEN resize(fs[n].data, end) ELSE fs[n].data
             d    == [i \in DOMAIN grow |-> IF i > offset /\ i <= end THEN data[i - offset] ELSE grow[i]]
             v    == fs[n].vers + 1
             f1   == [fs EXCEPT ![n].vers = v]
             t    == [f1 EXCEPT ![n].data = d]
  <1>1. fs[n].vers \in Nat /\ fs[n].data \in Seq(Int) /\ Len(fs) \in Nat
    BY NodeParts
  <1>2. v \in Nat /\ end \in Nat /\ end \in Int
    BY <1>1
  <1>3. grow \in Seq(Int)
    <2>1. resize(fs[n].data, end) \in Seq(Int)
      BY <1>1, <1>2, ResizeType, Zenon
    <2> QED BY <1>1, <2>1
  <1>4. d \in Seq(Int)
    <2> HIDE DEF grow
    <2>1. DOMAIN grow = 1..Len(grow) /\ Len(grow) \in Nat /\ \A i \in 1..Len(grow) : grow[i] \in Int
      BY <1>3
    <2>2. ASSUME NEW i \in 1..Len(grow)
          PROVE  (IF i > offset /\ i <= end THEN data[i - offset] ELSE grow[i]) \in Int
      <3>1. CASE i > offset /\ i <= end
        <4>1. i - offset \in 1..Len(data)
          BY <2>1, <3>1
        <4> QED BY <3>1, <4>1
      <3>2. CASE ~(i > offset /\ i <= end)
        BY <2>1, <3>2
      <3> QED BY <3>1, <3>2
    <2> HIDE DEF end
    <2> QED BY <2>1, <2>2
  <1>5. Write(fs, n, offset, data) = IF fs[n].dir THEN Failure(34) ELSE Result(t, Len(data))
    BY DEF Write
  <1> HIDE DEF d, v, end, grow
  <1>6. Same(fs, f1)
    BY <1>2, NodeEdits
  <1>7. Same(f1, t)
    <2> HIDE DEF f1
    <2>1. Tree(f1) /\ n \in 1..Len(f1)
      BY <1>6 DEF Same
    <2> QED BY <1>4, <2>1, NodeEdits
  <1>8. Grown(fs, t)
    <2> HIDE DEF f1, t
    <2> QED BY <1>1, <1>6, <1>7 DEF Same, Grown
  <1>9. 34 \in Nat
    OBVIOUS
  <1> HIDE DEF t
  <1> QED BY <1>5, <1>8, <1>9, Zenon DEF Failed, Makes

\* A Qid and a Stat of a node.
LEMMA QidType ==
    ASSUME NEW fs, Tree(fs), NEW n \in 1..Len(fs)
    PROVE  Qid(fs, n) \in Qids
  <1>1. fs[n].vers \in Nat /\ n \in Int
    BY NodeParts
  <1> QED BY <1>1 DEF Qid, Qids, QTDIR, QTSYMLINK, QTFILE

LEMMA StatType ==
    ASSUME NEW fs, Tree(fs), NEW n \in 1..Len(fs)
    PROVE  statLocked(fs, n) \in Stats
  <1> DEFINE mode == IF fs[n].dir THEN DMDIR ELSE IF fs[n].target # 0 THEN DMSYMLINK ELSE 0
             q == Qid(fs, n)
             l == Len(fs[n].data)
             a == fs[n].name
             g == fs[n].target
             s == <<0, 0, q, mode, 0, 0, l, a, glenda, glenda, glenda, g, 0, 0, 0>>
             p == <<"u16", "u32", "qid", "u32", "u32", "u32", "u64", "str", "str", "str", "str">>
  <1>1. mode \in Int /\ l \in Int /\ a \in Nat /\ g \in Nat /\ glenda \in Nat
    BY NodeParts DEF DMDIR, DMSYMLINK, glenda
  <1>2. q \in Qids /\ q \in Scalars
    BY QidType DEF Qids, Scalars
  <1>3. statLocked(fs, n) = s
    BY DEF statLocked
  <1> HIDE DEF mode, q, l, a, g
  <1>4. s \in Seq(Scalars) /\ Len(s) = 15
    <2>1. /\ 0 \in Scalars /\ mode \in Scalars /\ l \in Scalars /\ a \in Scalars /\ g \in Scalars
          /\ glenda \in Scalars /\ q \in Scalars
      BY <1>1, <1>2, NumberScalar
    <2> HIDE DEF Scalars
    <2> QED BY <2>1
  <1>5. /\ s[1] = 0 /\ s[2] = 0 /\ s[3] = q /\ s[4] = mode /\ s[5] = 0 /\ s[6] = 0 /\ s[7] = l
        /\ s[8] = a /\ s[9] = glenda /\ s[10] = glenda /\ s[11] = glenda /\ s[12] = g /\ s[13] = 0
        /\ s[14] = 0 /\ s[15] = 0
    OBVIOUS
  <1>6. /\ p[1] = "u16" /\ p[2] = "u32" /\ p[3] = "qid" /\ p[4] = "u32" /\ p[5] = "u32" /\ p[6] = "u32"
        /\ p[7] = "u64" /\ p[8] = "str" /\ p[9] = "str" /\ p[10] = "str" /\ p[11] = "str"
    OBVIOUS
  <1>7. \A i \in 1..11 : statFields(TRUE)[i] = p[i]
    <2>1. statFields(FALSE) = p \o <<>>
      BY DEF statFields
    <2>2. p \in Seq(ScalarKinds) /\ Len(p) = 11
      BY DEF ScalarKinds
    <2> HIDE DEF p
    <2>3. statFields(FALSE) = p
      <3> DEFINE K == ScalarKinds
      <3>1. p \in Seq(K)
        BY <2>2
      <3> HIDE DEF K
      <3>2. p \o <<>> = p
        BY <3>1
      <3> QED BY <2>1, <3>2
    <2>4. \A i \in 1..Len(statFields(FALSE)) : statFields(FALSE)[i] = statFields(TRUE)[i]
      BY StatFields, Zenon
    <2> QED BY <2>2, <2>3, <2>4
  <1>8. statFields(TRUE)[12] \in {"str", "u32"} /\ statFields(TRUE)[13] \in {"str", "u32"}
        /\ statFields(TRUE)[14] \in {"str", "u32"} /\ statFields(TRUE)[15] \in {"str", "u32"}
    <2>1. 12 \in 12..15 /\ 13 \in 12..15 /\ 14 \in 12..15 /\ 15 \in 12..15
      OBVIOUS
    <2> QED BY <2>1, StatKinds, Zenon
  <1>9. /\ ScalarOf("u16") = Int /\ ScalarOf("u32") = Int /\ ScalarOf("u64") = Int
        /\ ScalarOf("str") = Nat /\ ScalarOf("qid") = Qids /\ 0 \in Nat /\ 0 \in Int /\ Nat \subseteq Int
    BY DEF ScalarOf
  <1> HIDE DEF s, p
  <1>10. ASSUME NEW i \in 1..15 PROVE s[i] \in ScalarOf(statFields(TRUE)[i])
    <2>1. CASE i \in 1..11
      <3>1. i = 1 \/ i = 2 \/ i = 3 \/ i = 4 \/ i = 5 \/ i = 6 \/ i = 7 \/ i = 8 \/ i = 9 \/ i = 10 \/ i = 11
        BY <2>1
      <3>2. statFields(TRUE)[i] = p[i]
        BY <1>7, <2>1
      <3>3. s[i] \in ScalarOf(p[i])
        BY <1>1, <1>2, <1>5, <1>6, <1>9, <3>1, Zenon
      <3> QED BY <3>2, <3>3
    <2>2. CASE i \notin 1..11
      <3>1. i = 12 \/ i = 13 \/ i = 14 \/ i = 15
        BY <2>2
      <3>2. s[i] \in Nat /\ statFields(TRUE)[i] \in {"str", "u32"}
        BY <1>1, <1>5, <1>8, <1>9, <3>1, Zenon
      <3> QED BY <1>9, <3>2, Zenon
    <2> QED BY <2>1, <2>2
  <1>11. s \in Stats
    BY <1>4, <1>10, Zenon DEF Stats
  <1> QED BY <1>3, <1>11

\* A finite set of names can be put in order.
Ordered(S, s) ==
    s \in [1..Cardinality(S) -> S] /\ \A i, j \in 1..Cardinality(S) : i < j => s[i] < s[j]

LEMMA OrderExists ==
    ASSUME NEW S \in SUBSET Nat, IsFiniteSet(S)
    PROVE  \E s : Ordered(S, s)
  <1> DEFINE Bad(n) == \E R \in SUBSET Nat : /\ IsFiniteSet(R) /\ Cardinality(R) = n
                                             /\ ~ \E s : Ordered(R, s)
             T == {n \in Nat : Bad(n)}
  <1>1. SUFFICES ASSUME T # {} PROVE FALSE
    <2>1. Cardinality(S) \in Nat
      BY FS_CardinalityType
    <2>2. T = {} => ~Bad(Cardinality(S))
      BY <2>1
    <2> HIDE DEF T
    <2> QED BY <2>2
  <1>2. PICK n \in T : \A j \in T : n <= j
    <2>1. T \in SUBSET Nat
      OBVIOUS
    <2> HIDE DEF T
    <2> QED BY <1>1, <2>1, LeastExists
  <1>3. n \in Nat
    BY <1>2
  <1>4. PICK R \in SUBSET Nat : IsFiniteSet(R) /\ Cardinality(R) = n /\ ~ \E s : Ordered(R, s)
    BY <1>2
  <1>5. R # {}
    <2> SUFFICES ASSUME R = {} PROVE FALSE
      OBVIOUS
    <2>1. n = 0
      BY <1>4, FS_EmptySet
    <2>2. Ordered(R, [i \in 1..0 |-> 0])
      BY <1>4, <2>1 DEF Ordered
    <2> QED BY <1>4, <2>2
  <1>6. PICK x \in R : \A y \in R : x <= y
    BY <1>5, LeastExists
  <1> DEFINE Q == R \ {x}
  <1>7. IsFiniteSet(Q) /\ Cardinality(Q) = n - 1
    BY <1>4, <1>6, FS_RemoveElement
  <1>8. n >= 1
    <2>1. Cardinality(Q) \in Nat
      BY <1>7, FS_CardinalityType
    <2> QED BY <1>3, <1>7, <2>1
  <1>9. PICK e : Ordered(Q, e)
    <2>1. n - 1 \in Nat /\ ~(n <= n - 1)
      BY <1>3, <1>8
    <2>2. n - 1 \notin T
      <3> HIDE DEF T
      <3> QED BY <1>2, <2>1
    <2>3. ~Bad(n - 1)
      BY <2>1, <2>2
    <2>4. Q \in SUBSET Nat
      OBVIOUS
    <2> HIDE DEF Q
    <2> QED BY <1>7, <2>3, <2>4
  <1>10. e \in [1..(n - 1) -> Q] /\ \A i, j \in 1..(n - 1) : i < j => e[i] < e[j]
    <2> HIDE DEF Q
    <2> QED BY <1>7, <1>9 DEF Ordered
  <1> DEFINE s == [i \in 1..n |-> IF i = 1 THEN x ELSE e[i - 1]]
  <1>11. s \in [1..n -> R]
    <2>1. \A i \in 1..n : i # 1 => i - 1 \in 1..(n - 1) /\ e[i - 1] \in R
      BY <1>3, <1>10
    <2> QED BY <2>1
  <1>12. ASSUME NEW i \in 1..n, NEW j \in 1..n, i < j PROVE s[i] < s[j]
    <2>1. j # 1 /\ j - 1 \in 1..(n - 1) /\ s[j] = e[j - 1]
      BY <1>3, <1>12
    <2>2. e[j - 1] \in R /\ e[j - 1] # x /\ e[j - 1] \in Nat /\ x \in Nat
      BY <1>10, <2>1
    <2>3. CASE i = 1
      BY <1>6, <2>1, <2>2, <2>3
    <2>4. CASE i # 1
      <3>1. i - 1 \in 1..(n - 1) /\ i - 1 < j - 1 /\ s[i] = e[i - 1]
        BY <1>3, <1>12, <2>4
      <3> QED BY <1>10, <2>1, <3>1
    <2> QED BY <2>3, <2>4
  <1>13. Ordered(R, s)
    <2> HIDE DEF s
    <2> QED BY <1>4, <1>11, <1>12 DEF Ordered
  <1> QED BY <1>4, <1>13

LEMMA SortedOrders ==
    ASSUME NEW S \in SUBSET Nat, IsFiniteSet(S)
    PROVE  Ordered(S, sorted(S)) /\ Cardinality(S) \in Nat
  <1>1. PICK s \in [1..Cardinality(S) -> S] :
           \A i, j \in 1..Cardinality(S) : i < j => s[i] < s[j]
    BY OrderExists DEF Ordered
  <1>2. Ordered(S, sorted(S))
    BY <1>1, Zenon DEF sorted, Ordered
  <1> QED BY <1>2, FS_CardinalityType

LEMMA ListingType ==
    ASSUME NEW fs, Tree(fs), NEW n \in 1..Len(fs)
    PROVE  listing(fs, n) \in Seq(Stats)
  <1> DEFINE c == fs[n].children
             D == DOMAIN c
             names == sorted(D)
             N == Cardinality(D)
  <1>1. c \in Kids(Len(fs)) /\ Len(fs) \in Nat
    BY NodeParts
  <1>2. D \in SUBSET Nat /\ IsFiniteSet(D) /\ \A s \in D : c[s] \in 1..Len(fs)
    <2> HIDE DEF c
    <2>1. D \subseteq Nat /\ IsFiniteSet(D)
      BY <1>1, KidsParts, Zenon
    <2>2. \A s \in D : c[s] \in 1..Len(fs)
      BY <1>1, KidsEdits
    <2> QED BY <2>1, <2>2
  <1>3. listing(fs, n) = [i \in DOMAIN names |-> statLocked(fs, c[names[i]])]
    BY DEF listing
  <1> HIDE DEF c
  <1>4. names \in [1..N -> D] /\ N \in Nat
    <2> HIDE DEF D
    <2> QED BY <1>2, SortedOrders DEF Ordered
  <1> HIDE DEF names, D, N
  <1>5. DOMAIN names = 1..N /\ \A i \in 1..N : c[names[i]] \in 1..Len(fs)
    BY <1>2, <1>4
  <1>6. \A i \in 1..N : statLocked(fs, c[names[i]]) \in Stats
    BY <1>5, StatType, Zenon
  <1> HIDE DEF Stats
  <1> QED BY <1>3, <1>4, <1>5, <1>6

\* Bytes of a file as cells.
LEMMA CellsSize ==
    ASSUME NEW x \in Seq(Int)
    PROVE  LET c == [i \in 1..Len(x) |-> Cell(1, x[i])] IN c \in Bytes /\ Size(c) = Len(x)
  <1> DEFINE n == Len(x)
             c == [i \in 1..n |-> Cell(1, x[i])]
  <1>1. n \in Nat /\ \A i \in 1..n : x[i] \in Int
    OBVIOUS
  <1>2. \A i \in 1..n : Cell(1, x[i]) \in Run /\ Cell(1, x[i]).w = 1
    BY <1>1 DEF Run, Cell
  <1> HIDE DEF n
  <1>3. c \in Bytes /\ Len(c) = n /\ \A i \in 1..n : c[i].w = 1
    BY <1>1, <1>2 DEF Bytes
  <1> HIDE DEF c
  <1>4. PICK sum \in [0..n -> Nat] :
           Size(c) = sum[n] /\ sum[0] = 0 /\ \A i \in 1..n : sum[i] = sum[i - 1] + c[i].w
    BY <1>3, SizeGoes
  <1> DEFINE S == {i \in Nat : i \in 0..n => sum[i] = i}
  <1>5. 0 \in S
    BY <1>4
  <1>6. ASSUME NEW i \in 1..n, i - 1 \in S PROVE i \in S
    <2>1. i - 1 \in 0..n /\ i \in Nat
      BY <1>1
    <2>2. sum[i - 1] = i - 1
      BY <1>6, <2>1
    <2>3. sum[i] = sum[i - 1] + 1
      BY <1>3, <1>4
    <2>4. sum[i] = i
      BY <2>2, <2>3
    <2> QED BY <2>1, <2>4
  <1>7. 0..n \subseteq S
    <2>1. S \in SUBSET Nat
      OBVIOUS
    <2> HIDE DEF S
    <2> QED BY <1>1, <1>5, <1>6, <2>1, UpTo
  <1>8. sum[n] = n
    BY <1>1, <1>7
  <1> QED BY <1>3, <1>4, <1>8 DEF c, n

\* The size of encodings in a row.
Sums(q, P) == q \in [0..Len(P) -> Nat] /\ \A i \in 1..Len(P) : q[i] = q[i - 1] + Size(P[i])

LEMMA FlattenSize ==
    ASSUME NEW P \in Seq(Bytes), NEW q, Sums(q, P)
    PROVE  FlattenSeq(P) \in Bytes /\ Size(FlattenSeq(P)) = q[Len(P)] - q[0]
  <1> DEFINE N == Len(P)
  <1>1. N \in Nat /\ \A i \in 1..N : P[i] \in Bytes
    <2> HIDE DEF Bytes
    <2> QED OBVIOUS
  <1>2. PICK F : Flattens(F, P) /\ FlattenSeq(P) = F[N]
    BY FlattenGoes
  <1>3. F \in [0..N -> Bytes] /\ F[0] = <<>> /\ \A i \in 1..N : F[i] = F[i - 1] \o P[i]
    BY <1>2 DEF Flattens
  <1>4. q \in [0..N -> Nat] /\ \A i \in 1..N : q[i] = q[i - 1] + Size(P[i])
    BY DEF Sums
  <1> HIDE DEF N
  <1>5. ASSUME NEW i \in 1..N PROVE Size(F[i]) = Size(F[i - 1]) + Size(P[i])
    <2>1. F[i - 1] \in Bytes /\ P[i] \in Bytes
      BY <1>1, <1>3
    <2> QED BY <1>3, <2>1, SizeConcat
  <1> DEFINE S == {i \in Nat : i \in 0..N => Size(F[i]) = q[i] - q[0]}
  <1>6. 0 \in S
    BY <1>1, <1>3, <1>4, SizeType
  <1>7. ASSUME NEW i \in 1..N, i - 1 \in S PROVE i \in S
    <2>1. i - 1 \in 0..N /\ i \in 0..N /\ 0 \in 0..N /\ i \in Nat
      BY <1>1
    <2>2. Size(F[i - 1]) = q[i - 1] - q[0]
      BY <1>7, <2>1
    <2>3. Size(P[i]) \in Nat /\ q[i] \in Nat /\ q[0] \in Nat /\ q[i - 1] \in Nat
      BY <1>1, <1>4, <2>1, SizeType
    <2>4. Size(F[i]) = q[i] - q[0]
      BY <1>4, <1>5, <2>2, <2>3
    <2> QED BY <2>1, <2>4
  <1>8. 0..N \subseteq S
    <2>1. S \in SUBSET Nat
      OBVIOUS
    <2> HIDE DEF S
    <2> QED BY <1>1, <1>6, <1>7, <2>1, UpTo
  <1>9. N \in 0..N
    BY <1>1
  <1>10. Size(F[N]) = q[N] - q[0]
    BY <1>8, <1>9
  <1> QED BY <1>2, <1>3, <1>9, <1>10 DEF N

\* The encoding of a Stat, whatever its size.
LEMMA StatEncoded ==
    ASSUME NEW s \in Stats, NEW unix \in BOOLEAN
    PROVE  stat(s, unix) \in Bytes /\ Size(stat(s, unix)) \in Nat /\ Size(stat(s, unix)) >= 1
  <1>1. field("stat", s, unix) = stat(s, unix) /\ "stat" \in FieldKinds /\ s \in FieldOf("stat")
    BY KindsHold DEF field
  <1>2. stat(s, unix) \in Bytes
    BY <1>1, FieldBytes
  <1>3. stat(s, unix) # <<>>
    <2> DEFINE b == statBody(s, unix)
               c == Cell(2, Size(b) % 65536)
    <2>1. b \in Bytes /\ Size(b) \in Nat
      BY StatBytes
    <2>2. stat(s, unix) = <<c>> \o b
      BY DEF stat
    <2>3. c \in Run
      <3> HIDE DEF b
      <3> QED BY <2>1 DEF Run, Cell
    <2> HIDE DEF b, c
    <2>4. <<c>> \o b # <<>>
      BY <2>1, <2>3 DEF Bytes
    <2> QED BY <2>2, <2>4
  <1> QED BY <1>2, <1>3, SizeType, SizePositive

\* Where the entries of a directory end.
EndsAt(pos, entries, unix) ==
    /\ pos \in [0..Len(entries) -> Nat] /\ pos[0] = 0
    /\ \A i \in 1..Len(entries) : pos[i] = pos[i - 1] + Size(stat(entries[i], unix))

LEMMA EndsGo ==
    ASSUME NEW entries \in Seq(Stats), NEW unix \in BOOLEAN
    PROVE  EndsAt(ends(entries, unix), entries, unix)
  <1> DEFINE N == Len(entries)
             pos == CHOOSE pos : pos = [i \in 0..N |-> IF i = 0 THEN 0
                                            ELSE pos[i - 1] + Size(stat(entries[i], unix))]
             G == [i \in 1..N |-> [w \in Nat |-> w + Size(stat(entries[i], unix))]]
  <1>1. ends(entries, unix) = pos
    BY Zenon DEF ends
  <1>2. N \in Nat /\ \A i \in 1..N : Size(stat(entries[i], unix)) \in Nat
    <2>1. N \in Nat /\ \A i \in 1..N : entries[i] \in Stats
      <3> HIDE DEF Stats
      <3> QED OBVIOUS
    <2> QED BY <2>1, StatEncoded
  <1> HIDE DEF N
  <1>3. G \in [1..N -> [Nat -> Nat]]
    BY <1>2
  <1>4. PICK h \in [0..N -> Nat] : Goes(N, 0, G, h)
    <2>1. 0 \in Nat
      OBVIOUS
    <2> HIDE DEF G, pos
    <2> QED BY <1>2, <1>3, <2>1, StepsExist, Zenon
  <1>5. ASSUME NEW i \in 0..N
        PROVE  h[i] = IF i = 0 THEN 0 ELSE h[i - 1] + Size(stat(entries[i], unix))
    <2>1. CASE i = 0
      BY <1>4, <2>1 DEF Goes
    <2>2. CASE i # 0
      <3>1. i \in 1..N /\ i - 1 \in 0..N
        BY <1>2, <2>2
      <3>2. h[i] = G[i][h[i - 1]] /\ h[i - 1] \in Nat
        BY <1>4, <3>1 DEF Goes
      <3>3. h[i] = h[i - 1] + Size(stat(entries[i], unix))
        BY <3>1, <3>2
      <3> QED BY <2>2, <3>3
    <2> QED BY <2>1, <2>2
  <1>6. h = [i \in 0..N |-> IF i = 0 THEN 0 ELSE h[i - 1] + Size(stat(entries[i], unix))]
    BY <1>4, <1>5
  <1>7. pos = [i \in 0..N |-> IF i = 0 THEN 0 ELSE pos[i - 1] + Size(stat(entries[i], unix))]
    BY <1>6, Zenon
  <1> HIDE DEF pos
  <1>8. pos[0] = 0 /\ \A i \in 1..N : pos[i] = pos[i - 1] + Size(stat(entries[i], unix))
    BY <1>2, <1>7
  <1>9. GoesIn(N, Nat, 0, G, pos)
    <2>1. pos = [i \in 0..N |-> pos[i]]
      BY <1>7
    <2>2. \A i \in 1..N : pos[i - 1] \in Nat => pos[i] = G[i][pos[i - 1]]
      BY <1>8
    <2> QED BY <1>8, <2>1, <2>2 DEF GoesIn
  <1>10. pos \in [0..N -> Nat]
    <2>1. 0 \in Nat
      OBVIOUS
    <2> HIDE DEF G
    <2> QED BY <1>2, <1>3, <1>9, <2>1, StepsStay, Zenon
  <1> QED BY <1>1, <1>8, <1>10 DEF EndsAt, N

\* A directory read: whole entries, no more than count bytes of them.
LEMMA MarshalDirOutcome ==
    ASSUME NEW entries \in Seq(Stats), NEW offset \in Nat, NEW count \in Nat, NEW unix \in BOOLEAN
    PROVE  LET r == MarshalDirVersion(entries, offset, count, unix)
           IN  Failed(r) \/ \E b \in Bytes : r = Result(entries, b) /\ Size(b) <= count
  <1> DEFINE pos   == ends(entries, unix)
             n     == Len(entries)
             start == CHOOSE i \in 0..n : pos[i] = offset
             stop  == CHOOSE i \in start..n :
                         pos[i] - offset <= count /\ (i = n \/ pos[i + 1] - offset > count)
             P     == [i \in 1..(stop - start) |-> stat(entries[start + i], unix)]
             r     == MarshalDirVersion(entries, offset, count, unix)
  <1>1. r = IF offset > pos[n] THEN Failure(39)
            ELSE IF \A i \in 0..n : pos[i] # offset THEN Failure(61)
            ELSE IF start = n THEN Result(entries, <<>>)
            ELSE IF stop = start THEN Failure(50)
            ELSE Result(entries, FlattenSeq(P))
    BY DEF MarshalDirVersion
  <1>2. EndsAt(pos, entries, unix)
    BY EndsGo, Zenon
  <1>3. n \in Nat /\ \A i \in 1..n : stat(entries[i], unix) \in Bytes
    <2>1. n \in Nat /\ \A i \in 1..n : entries[i] \in Stats
      <3> HIDE DEF Stats
      <3> QED OBVIOUS
    <2> QED BY <2>1, StatEncoded
  <1>4. /\ pos \in [0..n -> Nat]
        /\ \A i \in 1..n : pos[i] = pos[i - 1] + Size(stat(entries[i], unix))
    BY <1>2 DEF EndsAt
  <1> HIDE DEF pos, n
  <1>5. ASSUME NEW j \in 0..n, pos[j] = offset
        PROVE  FlattenSeq(P) \in Bytes /\ Size(FlattenSeq(P)) <= count
    <2>1. start \in 0..n /\ pos[start] = offset
      BY <1>5, Zenon
    <2> HIDE DEF start
    <2> DEFINE S == {i \in 0..n : i >= start /\ pos[i] - offset <= count}
    <2>2. start \in S
      BY <1>3, <1>4, <2>1
    <2>3. PICK k \in S : \A i \in S : i <= k
      <3>1. S \in SUBSET (0..n)
        OBVIOUS
      <3> HIDE DEF S
      <3> QED BY <1>3, <2>2, <3>1, GreatestExists
    <2>4. k \in start..n /\ pos[k] - offset <= count
      BY <1>3, <2>1, <2>3
    <2>5. k = n \/ pos[k + 1] - offset > count
      <3> SUFFICES ASSUME k # n, ~(pos[k + 1] - offset > count) PROVE FALSE
        OBVIOUS
      <3>1. k + 1 \in 0..n /\ k + 1 >= start /\ k \in Int
        BY <1>3, <2>1, <2>4
      <3>2. pos[k + 1] \in Nat
        BY <1>4, <3>1
      <3>3. k + 1 \in S
        BY <3>1, <3>2
      <3> HIDE DEF S
      <3> QED BY <2>3, <3>1, <3>3
    <2>6. stop \in start..n /\ pos[stop] - offset <= count
      BY <2>4, <2>5, Zenon
    <2> HIDE DEF stop
    <2>7. stop - start \in Nat /\ stop \in 0..n /\ \A i \in 1..(stop - start) : start + i \in 1..n
      BY <1>3, <2>1, <2>6
    <2>8. \A i \in 1..(stop - start) : stat(entries[start + i], unix) \in Bytes
      BY <1>3, <2>7, Zenon
    <2>9. P \in Seq(Bytes) /\ Len(P) = stop - start
          /\ \A i \in 1..(stop - start) : P[i] = stat(entries[start + i], unix)
      <3> HIDE DEF Bytes
      <3> QED BY <2>7, <2>8
    <2> HIDE DEF P
    <2> DEFINE q == [i \in 0..(stop - start) |-> pos[start + i]]
    <2>10. q \in [0..(stop - start) -> Nat] /\ q[0] = offset /\ q[stop - start] = pos[stop]
      <3>1. \A i \in 0..(stop - start) : start + i \in 0..n
        BY <2>1, <2>7
      <3>2. start + 0 = start /\ start + (stop - start) = stop /\ 0 \in 0..(stop - start)
            /\ stop - start \in 0..(stop - start)
        BY <2>1, <2>7
      <3> QED BY <1>4, <2>1, <3>1, <3>2
    <2>11. ASSUME NEW i \in 1..(stop - start) PROVE q[i] = q[i - 1] + Size(P[i])
      <3>1. i \in 0..(stop - start) /\ i - 1 \in 0..(stop - start) /\ start + (i - 1) = (start + i) - 1
        BY <2>1, <2>7
      <3>2. pos[start + i] = pos[(start + i) - 1] + Size(stat(entries[start + i], unix))
        BY <1>4, <2>7
      <3>3. q[i] = pos[start + i] /\ q[i - 1] = pos[(start + i) - 1]
        BY <3>1
      <3> HIDE DEF q
      <3> QED BY <2>9, <3>2, <3>3
    <2>12. Sums(q, P)
      <3> HIDE DEF q
      <3> QED BY <2>9, <2>10, <2>11 DEF Sums
    <2> HIDE DEF q
    <2>13. FlattenSeq(P) \in Bytes /\ Size(FlattenSeq(P)) = q[Len(P)] - q[0]
      BY <2>9, <2>12, FlattenSize, Zenon
    <2>14. Size(FlattenSeq(P)) = pos[stop] - offset
      BY <2>9, <2>10, <2>13
    <2> QED BY <2>6, <2>13, <2>14
  <1>6. 39 \in Nat /\ 61 \in Nat /\ 50 \in Nat
    OBVIOUS
  <1>7. <<>> \in Bytes /\ Size(<<>>) <= count
    BY SizeType DEF Bytes
  <1> HIDE DEF P, start, stop
  <1>8. CASE offset > pos[n]
    BY <1>1, <1>6, <1>8, Zenon DEF Failed
  <1>9. CASE ~(offset > pos[n]) /\ \A i \in 0..n : pos[i] # offset
    BY <1>1, <1>6, <1>9, Zenon DEF Failed
  <1>10. CASE ~(offset > pos[n]) /\ \E i \in 0..n : pos[i] = offset
    <2>1. FlattenSeq(P) \in Bytes /\ Size(FlattenSeq(P)) <= count
      BY <1>5, <1>10
    <2> HIDE DEF r
    <2> QED BY <1>1, <1>6, <1>7, <1>10, <2>1, Zenon DEF Failed, r
  <1> QED BY <1>8, <1>9, <1>10

LEMMA ReadOutcome ==
    ASSUME NEW fs, Tree(fs), NEW n \in 1..Len(fs), NEW offset \in Nat, NEW count \in Nat,
           NEW unix \in BOOLEAN
    PROVE  LET r == Read(fs, n, offset, count, unix)
           IN  Failed(r) \/ \E f : \E b \in Bytes : r = Result(f, b) /\ Size(b) <= count
  <1> DEFINE r    == Read(fs, n, offset, count, unix)
             have == Len(fs[n].data) - offset
             k    == IF have < count THEN have ELSE count
             c    == [i \in 1..k |-> Cell(1, fs[n].data[offset + i])]
  <1>1. r = IF fs[n].dir THEN MarshalDirVersion(listing(fs, n), offset, count, unix)
            ELSE Result(fs, IF have <= 0 THEN <<>> ELSE c)
    BY DEF Read
  <1>2. CASE fs[n].dir
    <2> DEFINE l == listing(fs, n)
               d == MarshalDirVersion(l, offset, count, unix)
    <2>1. l \in Seq(Stats)
      BY ListingType
    <2>2. r = d
      BY <1>1, <1>2
    <2> HIDE DEF l, r
    <2>3. Failed(d) \/ \E b \in Bytes : d = Result(l, b) /\ Size(b) <= count
      BY <2>1, MarshalDirOutcome
    <2> HIDE DEF d
    <2> QED BY <2>2, <2>3, Zenon DEF r
  <1>3. CASE ~fs[n].dir
    <2>1. fs[n].data \in Seq(Int)
      BY NodeParts
    <2>2. <<>> \in Bytes /\ Size(<<>>) <= count
      BY SizeType DEF Bytes
    <2>3. have > 0 => c \in Bytes /\ Size(c) <= count
      <3> SUFFICES ASSUME have > 0 PROVE c \in Bytes /\ Size(c) <= count
        OBVIOUS
      <3> DEFINE data == fs[n].data
      <3>0. data \in Seq(Int)
        BY <2>1
      <3> HIDE DEF data
      <3>1. k \in Nat /\ k <= count /\ \A i \in 1..k : data[offset + i] \in Int
        <4>1. Len(data) \in Nat /\ have = Len(data) - offset
          BY <3>0 DEF data
        <4> HIDE DEF have
        <4>2. k \in Nat /\ k <= count /\ k <= have
          BY <4>1
        <4> HIDE DEF k
        <4>3. \A i \in 1..k : offset + i \in 1..Len(data)
          BY <4>1, <4>2
        <4> QED BY <3>0, <4>2, <4>3
      <3> HIDE DEF k
      <3> DEFINE x == [i \in 1..k |-> data[offset + i]]
      <3>2. x \in Seq(Int) /\ Len(x) = k /\ \A i \in 1..k : x[i] = data[offset + i]
        BY <3>1
      <3> HIDE DEF x
      <3>3. c = [i \in 1..Len(x) |-> Cell(1, x[i])]
        BY <3>2 DEF data
      <3>4. c \in Bytes /\ Size(c) = Len(x)
        <4> HIDE DEF c
        <4> QED BY <3>2, <3>3, CellsSize
      <3> QED BY <3>1, <3>2, <3>4
    <2>4. Len(fs[n].data) \in Nat
      BY <2>1
    <2>5. have > 0 <=> ~(have <= 0)
      BY <2>4
    <2> HIDE DEF c, have, r
    <2>6. \E b \in Bytes : r = Result(fs, b) /\ Size(b) <= count
      BY <1>1, <1>3, <2>2, <2>3, <2>5, Zenon
    <2> QED BY <2>6, Zenon DEF r
  <1> QED BY <1>2, <1>3
=============================================================================
