-------------------------------- MODULE Wire --------------------------------
(***************************************************************************)
(* The wire format (src/encode.go, decode.go, stat.go, fcall.go and        *)
(* framing.go) as operators: a message to its encoding, and back.          *)
(*                                                                         *)
(* A string is abstracted to its length, which tells the names, versions   *)
(* and error texts of the models apart and is all a size depends on.  An   *)
(* encoding is a sequence of cells, each a run of w bytes written by one   *)
(* call of the encoder; the decoder may cut through a cell, and what it    *)
(* then reads is Torn.  2^w wraps where the code narrows a length (uint16);*)
(* numbers that the code never narrows are unbounded.                      *)
(***************************************************************************)
EXTENDS Integers, SequencesExt

minMsgSize   == 7
MaxWElem     == 16
DefaultMsize == 8192

\* "9P2000", "9P2000.u" and "unknown".
Version        == 6
VersionU       == 8
VersionUnknown == 7

\* The values of cells that are not numbers: cut through, the bytes of a
\* string, and the all-ones that leaves a field of a Twstat alone.
Torn      == -3
Text      == -2
DontTouch == -1

Cell(w, v) == [w |-> w, v |-> v]

\* len(buf).
Size(buf) ==
    LET sum[i \in 0..Len(buf)] == IF i = 0 THEN 0 ELSE sum[i - 1] + buf[i].w
    IN  sum[Len(buf)]

-----------------------------------------------------------------------------
(***************************************************************************)
(* What is in a message: the kinds of its fields, in wire order.           *)
(* marshalBody and unmarshalBody of a type go through the same fields.     *)
(***************************************************************************)

Width == [u8 |-> 1, u16 |-> 2, u32 |-> 4, u64 |-> 8]

\* Type, Dev, Qid, Mode, Atime, Mtime, Length, Name, Uid, Gid and Muid; in
\* 9P2000.u also Extension, Nuid, Ngid and Nmuid.
statFields(unix) ==
    <<"u16", "u32", "qid", "u32", "u32", "u32", "u64", "str", "str", "str", "str">>
        \o IF unix THEN <<"str", "u32", "u32", "u32">> ELSE <<>>

sessionFields ==
    [Tversion |-> <<"u32", "str">>, Rversion |-> <<"u32", "str">>,
     Tauth    |-> <<"u32", "str", "str">>, Rauth |-> <<"qid">>,
     Tattach  |-> <<"u32", "u32", "str", "str">>, Rattach |-> <<"qid">>,
     Tflush   |-> <<"u16">>, Rflush |-> <<>>]

errorFields == [Rerror |-> <<"str">>]

treeFields(unix) ==
    [Twalk   |-> <<"u32", "u32", "names">>, Rwalk |-> <<"qids">>,
     Topen   |-> <<"u32", "u8">>, Ropen |-> <<"qid", "u32">>,
     Tcreate |-> <<"u32", "str", "u32", "u8">> \o IF unix THEN <<"str">> ELSE <<>>,
     Rcreate |-> <<"qid", "u32">>]

fileFields ==
    [Tread   |-> <<"u32", "u64", "u32">>, Rread |-> <<"data">>,
     Twrite  |-> <<"u32", "u64", "data">>, Rwrite |-> <<"u32">>,
     Tclunk  |-> <<"u32">>, Rclunk |-> <<>>,
     Tremove |-> <<"u32">>, Rremove |-> <<>>,
     Tstat   |-> <<"u32">>, Rstat |-> <<"stat">>,
     Twstat  |-> <<"u32", "stat">>, Rwstat |-> <<>>]

\* newMessage: the types there are, each with its fields.
newMessage(unix) ==
    [t \in DOMAIN sessionFields \cup DOMAIN errorFields
               \cup DOMAIN treeFields(unix) \cup DOMAIN fileFields |->
        IF t \in DOMAIN sessionFields THEN sessionFields[t]
        ELSE IF t \in DOMAIN errorFields THEN errorFields[t]
        ELSE IF t \in DOMAIN fileFields THEN fileFields[t]
        ELSE treeFields(unix)[t]]

\* A message and its arguments, the 9P2000.u ones last.
Msg(t, vals) == <<t>> \o vals
type(m)      == Head(m)
arg(m)       == Tail(m)

\* What the structs of the messages and of a Stat declare a field to be.
holdsScalar(k, v) ==
    IF k = "str" THEN v \in Nat
    ELSE IF k = "qid" THEN v \in Seq(Int) /\ Len(v) = 3
    ELSE v \in Int

holds(k, v) ==
    CASE k = "names" -> v \in Seq(Nat) /\ Len(v) <= MaxWElem
      [] k = "qids"  -> v \in Seq({q \in Seq(Int) : Len(q) = 3}) /\ Len(v) <= MaxWElem
      [] k = "data"  -> v \in Seq([w : Nat \ {0}, v : Int])
      [] k = "stat"  -> /\ v = [i \in 1..15 |-> v[i]]
                        /\ \A i \in 1..15 : holdsScalar(statFields(TRUE)[i], v[i])
      [] OTHER       -> holdsScalar(k, v)

isMessage(m) ==
    LET fs == newMessage(TRUE)[m[1]]
    IN  /\ m[1] \in DOMAIN newMessage(TRUE)
        /\ m = Msg(m[1], [i \in DOMAIN fs |-> m[i + 1]])
        /\ \A i \in DOMAIN fs : holds(fs[i], m[i + 1])

\* Fields that were not on the wire have the zero value.
zeroed(vals, n) == vals \o [i \in 1..(n - Len(vals)) |-> 0]

-----------------------------------------------------------------------------
(***************************************************************************)
(* encoder.                                                                *)
(***************************************************************************)

truncated(s) == IF s > 65535 THEN 65535 ELSE s

string(s) ==
    LET n == truncated(s)
    IN  <<Cell(2, n)>> \o IF n = 0 THEN <<>> ELSE <<Cell(n, Text)>>

qid(q) == <<Cell(1, q[1]), Cell(4, q[2]), Cell(8, q[3])>>

\* uint8 to uint64, string and qid.
scalar(k, v) ==
    CASE k = "str" -> string(v)
      [] k = "qid" -> qid(v)
      [] OTHER     -> <<Cell(Width[k], v)>>

\* Stat.marshalBody and encoder.stat: the size in front has 16 bits.
statBody(s, unix) ==
    LET fs == statFields(unix) IN FlattenSeq([i \in DOMAIN fs |-> scalar(fs[i], s[i])])

stat(s, unix) ==
    LET body == statBody(s, unix) IN <<Cell(2, Size(body) % 65536)>> \o body

\* One field of a message.  Data is itself a sequence of cells.
field(k, v, unix) ==
    CASE k = "names" -> <<Cell(2, Len(v) % 65536)>> \o FlattenSeq([i \in DOMAIN v |-> string(v[i])])
      [] k = "qids"  -> <<Cell(2, Len(v) % 65536)>> \o FlattenSeq([i \in DOMAIN v |-> qid(v[i])])
      [] k = "data"  -> <<Cell(4, Size(v))>> \o v
      [] k = "stat"  -> stat(v, unix)
      [] OTHER       -> scalar(k, v)

marshalBody(m, unix) ==
    LET fs == newMessage(unix)[type(m)]
    IN  FlattenSeq([i \in DOMAIN fs |-> field(fs[i], arg(m)[i], unix)])

\* What MarshalVersion returns.  The type and the tag need no conversion and
\* stay as they are; size stands for the first four bytes.
MarshalVersion(tag, m, unix) ==
    LET body == marshalBody(m, unix)
    IN  [size |-> minMsgSize + Size(body), type |-> type(m), tag |-> tag, body |-> body]

-----------------------------------------------------------------------------
(***************************************************************************)
(* decoder.  buf, left = len(buf) and ok = (err == nil) are its state; got *)
(* is what the last take returned and vals the fields decoded so far.      *)
(***************************************************************************)

decoder(buf) == [buf |-> buf, left |-> Size(buf), ok |-> TRUE, got |-> <<>>, vals |-> <<>>]

\* The first n bytes of buf, and the others: whole cells, and part of the next.
split(whole, later, part) ==
    IF part = 0 THEN <<whole, later>>
    ELSE <<Append(whole, Cell(part, Torn)), <<Cell(later[1].w - part, Torn)>> \o Tail(later)>>

splitAfter(buf, n, i) ==
    split(SubSeq(buf, 1, i), SubSeq(buf, i + 1, Len(buf)), n - Size(SubSeq(buf, 1, i)))

cut(buf, n) ==
    splitAfter(buf, n, CHOOSE i \in 0..Len(buf) :
                           /\ Size(SubSeq(buf, 1, i)) <= n
                           /\ i = Len(buf) \/ Size(SubSeq(buf, 1, i + 1)) > n)

taken(d, n, p) == [d EXCEPT !.got = p[1], !.buf = p[2], !.left = @ - n]

take(d, n) ==
    IF ~d.ok \/ n < 0 \/ n > d.left THEN [d EXCEPT !.ok = FALSE, !.got = <<>>]
    ELSE taken(d, n, cut(d.buf, n))

put(d, v) == [d EXCEPT !.vals = Append(@, v)]

\* uint8 to uint64 by their width: the next number, 0 after an error.
number(d)  == put(d, CASE d.got = <<>> -> 0 [] Len(d.got) = 1 -> d.got[1].v [] OTHER -> Torn)
uint(d, w) == number(take(d, w))

\* The number decoded last, the decoder without it, and with so many bytes taken.
num(d)         == Last(d.vals)
drop(d)        == [d EXCEPT !.vals = Front(@)]
takeCounted(d) == take(d, num(d))

\* decoder.string
stringOf(t)  == put(drop(t), IF t.ok THEN num(t) ELSE 0)
getString(d) == stringOf(takeCounted(uint(d, 2)))

\* decoder.qid
lastThree(d, vals) == [d EXCEPT !.vals = Append(vals, SubSeq(@, Len(@) - 2, Len(@)))]
getQid(d)          == lastThree(uint(uint(uint(d, 1), 4), 8), d.vals)

getScalar(d, k) ==
    CASE k = "str" -> getString(d)
      [] k = "qid" -> getQid(d)
      [] OTHER     -> uint(d, Width[k])

\* The fields fs one after the other.
getAll(d, fs, get(_, _)) ==
    LET go[i \in 0..Len(fs)] == IF i = 0 THEN d ELSE get(go[i - 1], fs[i])
    IN  go[Len(fs)]

\* decoder.done
done(d) == d.ok /\ d.buf = <<>>

\* decoder.stat: a decoder of its own for the n bytes of the body.
statOf(t, sd)   == [put(drop(t), zeroed(sd.vals, 15)) EXCEPT !.ok = t.ok /\ done(sd)]
statIn(t, unix) == statOf(t, getAll(decoder(t.got), statFields(unix), getScalar))

\* One that does not ask for the dialect.
getStatPlain(d, unix) == statIn(takeCounted(uint(d, 2)), FALSE)
getStat(d, unix)      == statIn(takeCounted(uint(d, 2)), unix)

\* The counted elements of Twalk and Rwalk.
listed(d, e) == [e EXCEPT !.vals = Append(d.vals, @)]

elements(c, k) ==
    IF ~c.ok \/ num(c) > MaxWElem THEN [put(drop(c), <<>>) EXCEPT !.ok = FALSE]
    ELSE listed(drop(c), getAll([c EXCEPT !.vals = <<>>], [i \in 1..num(c) |-> k], getScalar))

getList(d, k) == elements(uint(d, 2), k)

bytesOf(t)  == put(drop(t), t.got)
getBytes(d) == bytesOf(takeCounted(uint(d, 4)))

unmarshalField(d, k, unix) ==
    CASE k = "names" -> getList(d, "str")
      [] k = "qids"  -> getList(d, "qid")
      [] k = "data"  -> getBytes(d)
      [] k = "stat"  -> getStat(d, unix)
      [] OTHER       -> getScalar(d, k)

unmarshalBody(d, t, unix) ==
    getAll(d, newMessage(unix)[t], LAMBDA e, k : unmarshalField(e, k, unix))

\* UnmarshalVersion: the message, or ok = FALSE.
decoded(raw, d) ==
    [ok |-> done(d), tag |-> raw.tag,
     msg |-> Msg(raw.type, zeroed(d.vals, Len(newMessage(TRUE)[raw.type])))]

UnmarshalVersion(raw, unix) == decoded(raw, unmarshalBody(decoder(raw.body), raw.type, unix))

\* ReadMessage reads raw from a peer: whether it accepts its size.
ReadMessage(raw, msize) == raw.size >= minMsgSize /\ (msize = 0 \/ raw.size <= msize)

\* UnmarshalStatVersion
theStat(d)                      == [ok |-> done(d), stat |-> d.vals[1]]
UnmarshalStatVersion(buf, unix) == theStat(getStat(decoder(buf), unix))

-----------------------------------------------------------------------------
\* What a message can be expected to arrive as: what plain 9P2000 has no place
\* for is gone, and strings keep 65535 bytes.
scalarCarried(k, v) == IF k = "str" THEN truncated(v) ELSE v

statCarried(s, unix) ==
    [j \in 1..15 |-> IF j <= Len(statFields(unix)) THEN scalarCarried(statFields(TRUE)[j], s[j]) ELSE 0]

fieldCarried(k, v, unix) ==
    CASE k = "names" -> [j \in DOMAIN v |-> truncated(v[j])]
      [] k = "stat"  -> statCarried(v, unix)
      [] OTHER       -> scalarCarried(k, v)

Carried(m, unix) ==
    LET all == newMessage(TRUE)[type(m)]
        n   == Len(newMessage(unix)[type(m)])
    IN  Msg(type(m), [i \in DOMAIN all |->
                        IF i <= n THEN fieldCarried(all[i], arg(m)[i], unix) ELSE 0])

\* A Stat's size in front has 16 bits; strings alone could exceed that.
StatFits(m, unix) ==
    \A i \in DOMAIN arg(m) :
        newMessage(TRUE)[type(m)][i] = "stat" => Size(statBody(arg(m)[i], unix)) < 65536
=============================================================================
