---------------------------- MODULE FileIOProofs ----------------------------
(***************************************************************************)
(* Proofs about FileIO, for every scenario, every set of goroutines and    *)
(* every program of calls: what the two ends agree on and may have on its  *)
(* way, what a call that waits is at, and what follows from that.          *)
(***************************************************************************)
EXTENDS FileIO, WireProofs, TLAPS

-----------------------------------------------------------------------------
(***************************************************************************)
(* The inductive invariant.                                                *)
(***************************************************************************)

\* Messages that are as the structs declare them, and of them the requests and
\* the replies of file I/O with counts of up to max.
Messages == {m \in Seq(Types \cup Values) : WellFormed(m)}

RequestTypes == OtherRequests \cup {"Tread", "Twrite"}
ReplyTypes   == {"Rerror", "Rattach", "Rflush", "Rclunk", "Rwalk", "Ropen", "Rcreate", "Rread",
                 "Rwrite", "Rremove", "Rstat", "Rwstat"}

Ranged(m, max) ==
    /\ type(m) = "Tread"  => arg(m)[2] \in Nat /\ arg(m)[3] \in 0..max
    /\ type(m) = "Twrite" => arg(m)[2] \in Nat /\ Size(arg(m)[3]) <= max
    /\ type(m) = "Rread"  => Size(arg(m)[1]) <= max
    /\ type(m) = "Rwrite" => arg(m)[1] \in Nat

Requests(max) == {m \in Messages : type(m) \in RequestTypes /\ Ranged(m, max)}
Replies(max)  == {m \in Messages : type(m) \in ReplyTypes /\ Ranged(m, max)}

Envelope(S, unix) == [tag : Procs, msg : S, unix : {unix}]

\* The two ends.
ClientStates ==
    [pc : {"new", "version", "up", "failed"}, version : {Version, VersionU}, retried : BOOLEAN,
     msize : Nat, limit : Nat, unix : BOOLEAN, reading : BOOLEAN]
ServerStates == [pc : {"first", "loop", "closed"}, msize : Nat, unix : BOOLEAN]

Ends == sc \in Scenarios /\ cl \in ClientStates /\ sv \in ServerStates

\* The message size that the two ends come to.
agreedSize == least(sc.msize, maxMsize)

\* A client that has not negotiated yet, and what NewClient has then sent and
\* may be answered.
Fresh == cl.reading /\ ~cl.unix /\ cl.msize = sc.msize /\ cl.limit = sc.msize

Question == Sent(NoTag, Msg("Tversion", <<sc.msize, cl.version>>), FALSE)
Refusal  == Sent(NoTag, Msg("Rerror", <<17>>), sv.unix)
Answer(v) == Sent(NoTag, Msg("Rversion", <<agreedSize, v>>), sv.unix)

Answered(v) ==
    /\ s2c = {Answer(v)}
    /\ sv.unix = (v = VersionU)
    /\ v = VersionU => cl.version = VersionU

Silent == c2s = <<>> /\ work = {} /\ s2c = {}

\* Until the handshake is done, nothing but its own messages is on its way.
Unversioned == cl.pc = "new" => Fresh /\ sv.pc = "first" /\ ~sv.unix /\ Silent

Versioning ==
    cl.pc = "version" =>
        /\ Fresh /\ work = {}
        /\ \/ c2s = <<Question>> /\ s2c = {} /\ ~sv.unix /\ sv.pc # "closed"
           \/ c2s = <<>> /\ s2c = {} /\ sv.pc = "closed"
           \/ /\ c2s = <<>> /\ sv.pc = "loop" /\ sv.msize = agreedSize
              /\ \/ s2c = {Refusal}
                 \/ \E v \in {Version, VersionU, VersionUnknown} : Answered(v)

GivenUp == cl.pc = "failed" => ~cl.reading /\ Silent

\* After it the two ends have the same dialect and size, and requests and
\* replies are on their way.
Agreed ==
    cl.pc = "up" =>
        /\ cl.unix = sv.unix /\ sv.pc # "first"
        /\ cl.msize = agreedSize /\ sv.msize = agreedSize /\ cl.limit \in {sc.msize, agreedSize}

OnWay ==
    cl.pc = "up" =>
        /\ c2s \in Seq(Envelope(Requests(maxIO), sv.unix))
        /\ work \subseteq Envelope(Requests(maxIO), sv.unix)
        /\ s2c \subseteq Envelope(Replies(maxIO), sv.unix)

\* Nothing has been misread.
Faults == {"clientTooLarge", "clientDecode", "serverTooLarge", "serverDecode"}

SessionInv ==
    /\ Ends /\ Unversioned /\ Versioning /\ GivenUp /\ Agreed /\ OnWay
    /\ lost \subseteq Faults

\* Where a call is: within what it was asked for, and a Read nowhere yet.
Midway(j) ==
    LET c == j.call IN
    \/ c.op = "Read" /\ j.at \in Nat /\ c.n \in Nat /\ j.total = 0
    \/ c.op = "ReadAt" /\ j.at \in Nat /\ c.n \in Nat /\ j.total \in 0..c.n
    \/ /\ c.op \in {"Write", "WriteAt"}
       /\ j.at \in Nat /\ c.data \in Seq(Int) /\ c.n = Len(c.data) /\ j.total \in 0..c.n
    \/ c.op = "Seek" /\ c.off \in Int
    \/ c.op = "ReadDir" /\ j.total \in Nat
    \/ c.op = "rpc" /\ c.msg \in Messages /\ type(c.msg) \in OtherRequests

Job(call, at, total, got, clean, names) ==
    [call |-> call, at |-> at, total |-> total, got |-> got, clean |-> clean, names |-> names]

GoodJob(j) == j = Job(j.call, j.at, j.total, j.got, j.clean, j.names) /\ Midway(j)

Jobs ==
    /\ pc \in [Procs -> {"idle", "wait"}]
    /\ job = [g \in Procs |-> job[g]] /\ \A g \in Procs : GoodJob(job[g])

\* File.mu is held across an rpc only by a Seek that waits.
Lock == mu # Nobody => mu \in Procs /\ pc[mu] = "wait" /\ job[mu].call.op = "Seek"

\* Before the program has started no call has been made, and one rpc at a time.
Quiet == cl.pc # "up" => opened = 0 /\ \A g \in Procs : pc[g] = "idle"

StartsAlone ==
    opened < Len(Start) => mu = Nobody /\ \A g, h \in Procs : pc[g] = "wait" /\ pc[h] = "wait" => g = h

Offset == offset \in Nat /\ returned = offset
Counts == begun \in 0..MaxCalls /\ opened \in 0..Len(Start)

\* A goroutine has one message on its way, in one place, and if readLoop runs
\* then only while it waits.
Absent(S, g)  == \A e \in S : e.tag # g
Single(S, g)  == \A e, f \in S : e.tag = g /\ f.tag = g => e = f
AbsentQ(q, g) == \A i \in DOMAIN q : q[i].tag # g
SingleQ(q, g) == \A i, j \in DOMAIN q : q[i].tag = g /\ q[j].tag = g => i = j

None(g) == AbsentQ(c2s, g) /\ Absent(work, g) /\ Absent(s2c, g)
Lone(g) == \/ SingleQ(c2s, g) /\ Absent(work, g) /\ Absent(s2c, g)
           \/ AbsentQ(c2s, g) /\ Single(work, g) /\ Absent(s2c, g)
           \/ AbsentQ(c2s, g) /\ Absent(work, g) /\ Single(s2c, g)

OneMessage == \A g \in Procs : Lone(g) /\ (cl.reading /\ pc[g] = "idle" => None(g))

\* The file system is a tree of nodes, and fids refer to them.
Fids(f, t) == f = [x \in DOMAIN f |-> f[x]] /\ \A x \in DOMAIN f : f[x] \in 1..Len(t)
Served == Tree(fs) /\ Fids(fids, fs)

CallsInv == Jobs /\ Lock /\ Quiet /\ StartsAlone /\ Offset /\ Counts

IInv == SessionInv /\ CallsInv /\ OneMessage /\ Served


-----------------------------------------------------------------------------
(***************************************************************************)
(* Messages and what arrives of them.                                      *)
(***************************************************************************)

LEMMA MessageIn ==
    ASSUME NEW t \in Types, NEW vals \in Contents(t)
    PROVE  /\ Msg(t, vals) \in Messages
           /\ type(Msg(t, vals)) = t /\ arg(Msg(t, vals)) = vals
  <1>1. vals \in Seq(Values)
    BY DEF Contents
  <1>2. WellFormed(Msg(t, vals))
    BY Zenon DEF WellFormed
  <1>3. type(Msg(t, vals)) = t /\ arg(Msg(t, vals)) = vals
    BY <1>1, MsgParts
  <1>4. \A A, B : \A x \in A : \A s \in Seq(B) : <<x>> \o s \in Seq(A \cup B)
    OBVIOUS
  <1>5. Msg(t, vals) \in Seq(Types \cup Values)
    BY <1>1, <1>4, Zenon DEF Msg
  <1> QED BY <1>2, <1>3, <1>5, Zenon DEF Messages

LEMMA MessageGives ==
    ASSUME NEW m \in Messages
    PROVE  /\ type(m) \in Types /\ arg(m) \in Contents(type(m)) /\ m = Msg(type(m), arg(m))
           /\ WellFormed(m)
  <1>1. WellFormed(m)
    BY Zenon DEF Messages
  <1>2. PICK t \in Types : \E vals \in Contents(t) : m = Msg(t, vals)
    BY <1>1, Zenon DEF WellFormed
  <1>3. PICK vals \in Contents(t) : m = Msg(t, vals)
    BY <1>2, Zenon
  <1>4. type(m) = t /\ arg(m) = vals
    BY <1>3, MessageIn, Zenon
  <1> QED BY <1>1, <1>3, <1>4, Zenon

LEMMA MessageMade ==
    ASSUME NEW m, WellFormed(m)
    PROVE  m \in Messages
  <1>2. PICK t \in Types : \E vals \in Contents(t) : m = Msg(t, vals)
    BY Zenon DEF WellFormed
  <1>3. PICK vals \in Contents(t) : m = Msg(t, vals)
    BY <1>2, Zenon
  <1> QED BY <1>3, MessageIn, Zenon

\* The messages of file I/O arrive as they are, whatever the dialect.
IOTypes == {"Tread", "Twrite", "Rread", "Rwrite"}

LEMMA CarriedMessage ==
    ASSUME NEW m \in Messages, NEW unix \in BOOLEAN
    PROVE  /\ Carried(m, unix) \in Messages /\ type(Carried(m, unix)) = type(m)
           /\ type(m) \in IOTypes => Carried(m, unix) = m
  <1> DEFINE t == type(m)
             vals == arg(m)
  <1>1. t \in Types /\ vals \in Contents(t) /\ m = Msg(t, vals)
    BY MessageGives, Zenon
  <1> HIDE DEF t, vals
  <1>2. PICK C : Carried(Msg(t, vals), unix) = Msg(t, C) /\ Keeps(t, vals, C, unix)
    BY <1>1, CarriedParts, Zenon
  <1>3. C \in Contents(t)
    BY <1>2, Zenon DEF Keeps
  <1>4. Carried(m, unix) \in Messages /\ type(Carried(m, unix)) = t
    BY <1>1, <1>2, <1>3, MessageIn, Zenon
  <1>5. ASSUME t \in IOTypes PROVE C = vals
    <2>1. /\ newMessage(unix)[t] = newMessage(TRUE)[t]
          /\ newMessage(unix)[t] \in {<<"u32", "u64", "u32">>, <<"u32", "u64", "data">>, <<"data">>, <<"u32">>}
      BY <1>5, MessageTable DEF IOTypes
    <2>2. \A i \in 1..Len(newMessage(unix)[t]) : Kept(newMessage(unix)[t][i])
      <3> DEFINE f == newMessage(unix)[t]
      <3>1. f = <<"u32", "u64", "u32">> => \A i \in 1..Len(f) : Kept(f[i])
        <4> HIDE DEF f
        <4> QED BY DEF Kept
      <3>2. f = <<"u32", "u64", "data">> => \A i \in 1..Len(f) : Kept(f[i])
        <4> HIDE DEF f
        <4> QED BY DEF Kept
      <3>3. f = <<"data">> \/ f = <<"u32">> => \A i \in 1..Len(f) : Kept(f[i])
        <4> HIDE DEF f
        <4> QED BY DEF Kept
      <3> HIDE DEF f
      <3>4. \A i \in 1..Len(f) : Kept(f[i])
        BY <2>1, <3>1, <3>2, <3>3, Zenon DEF f
      <3> QED BY <3>4 DEF f
    <2>3. \A i \in 1..Len(newMessage(unix)[t]) : C[i] = vals[i]
      BY <1>2, <2>2, Zenon DEF Keeps
    <2>4. /\ C \in Seq(Values) /\ vals \in Seq(Values)
          /\ Len(C) = Len(newMessage(unix)[t]) /\ Len(vals) = Len(newMessage(unix)[t])
      BY <1>1, <1>3, <2>1, Zenon DEF Contents
    <2> QED BY <2>3, <2>4
  <1> QED BY <1>1, <1>2, <1>4, <1>5, Zenon DEF t

LEMMA CarriedRanged ==
    ASSUME NEW max, NEW unix \in BOOLEAN
    PROVE  /\ \A m \in Requests(max) : Carried(m, unix) \in Requests(max)
           /\ \A m \in Replies(max)  : Carried(m, unix) \in Replies(max)
  <1>1. ASSUME NEW m \in Messages, Ranged(m, max)
        PROVE  Ranged(Carried(m, unix), max)
    <2>1. CASE type(m) \in IOTypes
      BY <1>1, <2>1, CarriedMessage, Zenon
    <2>2. CASE type(m) \notin IOTypes
      <3>1. type(Carried(m, unix)) \notin IOTypes
        BY <1>1, <2>2, CarriedMessage, Zenon
      <3> QED BY <3>1, Zenon DEF Ranged, IOTypes
    <2> QED BY <2>1, <2>2
  <1>2. \A m \in Messages : Carried(m, unix) \in Messages /\ type(Carried(m, unix)) = type(m)
    BY CarriedMessage, Zenon
  <1> QED BY <1>1, <1>2, Zenon DEF Requests, Replies

\* What an end makes of a message that was sent in its own dialect, and of one
\* that is the same in both.
Took(e, r) == misread(e, r) = {} /\ (r.ok => r.msg = Carried(e.msg, e.unix))

ReceivedAs(e, r, u, limit) ==
    /\ r.fits = ReadMessage(raw(e), limit) /\ r.ok = u.ok /\ r.msg = u.msg
    /\ r.same = (u.ok /\ u.msg = Carried(e.msg, e.unix))

LEMMA ReceivedParts ==
    ASSUME NEW e, NEW limit, NEW unix
    PROVE  ReceivedAs(e, Received(e, limit, unix), UnmarshalVersion(raw(e), unix), limit)
  <1> DEFINE u == UnmarshalVersion(raw(e), unix)
  <1>1. Received(e, limit, unix) = received(e, limit, u)
    BY DEF Received
  <1> HIDE DEF u
  <1>2. ReceivedAs(e, received(e, limit, u), u, limit)
    BY DEF received, ReceivedAs
  <1> QED BY <1>1, <1>2, Zenon DEF u

LEMMA TookIt ==
    ASSUME NEW e, e.msg \in Messages, e.unix \in BOOLEAN, NEW limit
    PROVE  Took(e, Received(e, limit, e.unix))
  <1> DEFINE u == UnmarshalVersion(raw(e), e.unix)
             r == Received(e, limit, e.unix)
  <1>1. ReceivedAs(e, r, u, limit)
    BY ReceivedParts, Zenon
  <1>2. RoundTrips(e.msg)
    BY RoundTrip, MessageGives, Zenon
  <1>3. u = UnmarshalVersion(MarshalVersion(e.tag, e.msg, e.unix), e.unix)
    BY Zenon DEF raw
  <1> HIDE DEF u, r
  <1>4. IF StatFits(e.msg, e.unix) THEN u = [ok |-> TRUE, tag |-> e.tag, msg |-> Carried(e.msg, e.unix)]
        ELSE ~u.ok
    BY <1>2, <1>3, Zenon DEF RoundTrips
  <1>5. CASE StatFits(e.msg, e.unix)
    <2>1. u.ok /\ u.msg = Carried(e.msg, e.unix)
      BY <1>4, <1>5
    <2> QED BY <1>1, <2>1, Zenon DEF ReceivedAs, Took, misread, r
  <1>6. CASE ~StatFits(e.msg, e.unix)
    BY <1>1, <1>4, <1>6, Zenon DEF ReceivedAs, Took, misread, r
  <1> QED BY <1>5, <1>6

LEMMA TookPlain ==
    ASSUME NEW e, e.msg \in Messages, Plain(e.msg), e.unix \in BOOLEAN, NEW limit, NEW unix \in BOOLEAN
    PROVE  LET r == Received(e, limit, unix) IN Took(e, r) /\ r.ok
  <1> DEFINE u == UnmarshalVersion(raw(e), unix)
             r == Received(e, limit, unix)
  <1>1. ReceivedAs(e, r, u, limit)
    BY ReceivedParts, Zenon
  <1>2. Arrives(e.tag, e.msg, e.unix, unix)
    <2> DEFINE m == e.msg
               x == e.unix
               tag == e.tag
    <2>1. WellFormed(m) /\ Plain(m) /\ x \in BOOLEAN
      BY MessageGives, Zenon
    <2> HIDE DEF m, x, tag
    <2>2. Arrives(tag, m, x, unix)
      BY <2>1, PlainEitherWay
    <2> QED BY <2>2 DEF m, x, tag
  <1>3. u = UnmarshalVersion(MarshalVersion(e.tag, e.msg, e.unix), unix)
    BY Zenon DEF raw
  <1>4. u = [ok |-> TRUE, tag |-> e.tag, msg |-> Carried(e.msg, e.unix)]
    BY <1>2, <1>3, Zenon DEF Arrives
  <1> HIDE DEF u, r
  <1>5. u.ok /\ u.msg = Carried(e.msg, e.unix)
    BY <1>4
  <1>6. Took(e, r) /\ r.ok
    BY <1>1, <1>5, Zenon DEF ReceivedAs, Took, misread
  <1> QED BY <1>6 DEF r


-----------------------------------------------------------------------------
(***************************************************************************)
(* The handshake.                                                          *)
(***************************************************************************)

LEMMA EndsParts ==
    ASSUME Ends
    PROVE  /\ sc.msize \in Nat /\ sc.version \in {Version, VersionU} /\ sc.smsize \in Nat
           /\ sc.server \in Kinds
           /\ maxMsize \in Nat /\ maxMsize # 0
           /\ agreedSize \in Nat /\ agreedSize <= sc.msize /\ agreedSize <= maxMsize
           /\ agreedSize = 0 => sc.msize = 0
           /\ cl.pc \in {"new", "version", "up", "failed"} /\ cl.version \in {Version, VersionU}
           /\ cl.retried \in BOOLEAN /\ cl.msize \in Nat /\ cl.limit \in Nat
           /\ cl.unix \in BOOLEAN /\ cl.reading \in BOOLEAN
           /\ sv.pc \in {"first", "loop", "closed"} /\ sv.msize \in Nat /\ sv.unix \in BOOLEAN
  <1>1. /\ sc.msize \in Nat /\ sc.version \in {Version, VersionU} /\ sc.smsize \in Nat
        /\ sc.server \in Kinds
    BY ScenariosAssumption DEF Ends
  <1>2. maxMsize \in Nat /\ maxMsize # 0
    BY <1>1 DEF maxMsize, DefaultMsize
  <1>3. /\ agreedSize \in Nat /\ agreedSize <= sc.msize /\ agreedSize <= maxMsize
        /\ agreedSize = 0 => sc.msize = 0
    BY <1>1, <1>2 DEF agreedSize, least
  <1>4. /\ cl.pc \in {"new", "version", "up", "failed"} /\ cl.version \in {Version, VersionU}
        /\ cl.retried \in BOOLEAN /\ cl.msize \in Nat /\ cl.limit \in Nat
        /\ cl.unix \in BOOLEAN /\ cl.reading \in BOOLEAN
    BY DEF Ends, ClientStates, ServerStates
  <1>5. sv.pc \in {"first", "loop", "closed"} /\ sv.msize \in Nat /\ sv.unix \in BOOLEAN
    BY DEF Ends, ClientStates, ServerStates
  <1> QED BY <1>1, <1>2, <1>3, <1>4, <1>5

\* How the client changes.
LEMMA ClientEdits ==
    ASSUME NEW c \in ClientStates
    PROVE  /\ \A p \in {"new", "version", "up", "failed"} : \A r \in BOOLEAN :
                 LET d == [c EXCEPT !.pc = p, !.reading = r]
                 IN  /\ d \in ClientStates /\ d.pc = p /\ d.reading = r /\ d.version = c.version
                     /\ d.msize = c.msize /\ d.limit = c.limit /\ d.unix = c.unix
           /\ \A p \in {"new", "version", "up", "failed"} :
                 LET d == [c EXCEPT !.pc = p]
                 IN  /\ d \in ClientStates /\ d.pc = p /\ d.reading = c.reading /\ d.version = c.version
                     /\ d.msize = c.msize /\ d.limit = c.limit /\ d.unix = c.unix
           /\ \A s \in Nat, l \in Nat, u \in BOOLEAN :
                 LET d == [c EXCEPT !.pc = "up", !.msize = s, !.limit = l, !.unix = u]
                 IN  /\ d \in ClientStates /\ d.pc = "up" /\ d.reading = c.reading /\ d.version = c.version
                     /\ d.msize = s /\ d.limit = l /\ d.unix = u
           /\ \A v \in {Version, VersionU} :
                 LET d == [c EXCEPT !.retried = TRUE, !.version = v]
                 IN  /\ d \in ClientStates /\ d.pc = c.pc /\ d.reading = c.reading /\ d.version = v
                     /\ d.msize = c.msize /\ d.limit = c.limit /\ d.unix = c.unix
  BY ZenonT(60) DEF ClientStates

LEMMA ServerEdits ==
    ASSUME NEW s \in ServerStates
    PROVE  /\ LET t == [s EXCEPT !.pc = "closed"]
              IN  t \in ServerStates /\ t.pc = "closed" /\ t.msize = s.msize /\ t.unix = s.unix
           /\ \A n \in Nat, u \in BOOLEAN :
                 LET t == [s EXCEPT !.pc = "loop", !.msize = n, !.unix = u]
                 IN  t \in ServerStates /\ t.pc = "loop" /\ t.msize = n /\ t.unix = u
  BY DEF ServerStates


\* The messages of the handshake arrive as they are.
LEMMA VersionCarried ==
    ASSUME NEW t \in {"Tversion", "Rversion"}, NEW n \in Nat, NEW unix \in BOOLEAN,
           NEW v \in {Version, VersionU, VersionUnknown}
    PROVE  LET m == Msg(t, <<n, v>>)
           IN  m \in Messages /\ Plain(m) /\ type(m) = t /\ arg(m) = <<n, v>> /\ Carried(m, unix) = m
  <1> DEFINE m == Msg(t, <<n, v>>)
             all == newMessage(TRUE)[t]
  <1>1. v \in Nat /\ truncated(v) = v
    BY DEF Version, VersionU, VersionUnknown, truncated
  <1>2. all = <<"u32", "str">> /\ newMessage(unix)[t] = <<"u32", "str">> /\ t \in Types
    BY MessageTable DEF Types, SessionTypes
  <1>3. WellFormed(m)
    <2>1. "u32" \in FieldKinds /\ "str" \in FieldKinds /\ n \in FieldOf("u32") /\ v \in FieldOf("str")
      BY <1>1, KindsHold
    <2> HIDE DEF all
    <2> QED BY <1>2, <2>1, Message2 DEF all
  <1>4. type(m) = t /\ arg(m) = <<n, v>>
    <2> DEFINE w == <<n, v>>
    <2>1. w \in Seq(Nat)
      BY <1>1
    <2> HIDE DEF w
    <2>2. type(Msg(t, w)) = t /\ arg(Msg(t, w)) = w
      BY <2>1, MsgParts
    <2> QED BY <2>2 DEF w
  <1>5. Plain(m)
    BY <1>4 DEF Plain, SessionTypes
  <1>6. Carried(m, unix) = m
    <2>1. fieldCarried("u32", n, unix) = n /\ fieldCarried("str", v, unix) = v
      BY <1>1 DEF fieldCarried, scalarCarried
    <2> HIDE DEF all
    <2>2. DOMAIN all = 1..2 /\ all[1] = "u32" /\ all[2] = "str" /\ Len(newMessage(unix)[t]) = 2
      BY <1>2
    <2> DEFINE w == [i \in DOMAIN all |-> IF i <= 2 THEN fieldCarried(all[i], <<n, v>>[i], unix) ELSE 0]
    <2>3. w = <<n, v>>
      BY <2>1, <2>2
    <2> HIDE DEF m
    <2>4. Carried(m, unix) = Msg(t, w)
      BY <1>4, <2>2 DEF Carried, all
    <2> QED BY <2>3, <2>4 DEF m
  <1>7. m \in Messages
    BY <1>3, MessageMade, Zenon
  <1> QED BY <1>3, <1>4, <1>5, <1>6, <1>7

LEMMA RefusalCarried ==
    ASSUME NEW unix \in BOOLEAN
    PROVE  LET m == Msg("Rerror", <<17>>)
           IN  m \in Messages /\ Plain(m) /\ type(Carried(m, unix)) = "Rerror"
  <1> DEFINE m == Msg("Rerror", <<17>>)
  <1>1. newMessage(TRUE)["Rerror"] = <<"str">> /\ "Rerror" \in Types
    BY MessageTable DEF Types, SessionTypes
  <1>2. WellFormed(m)
    <2>1. "str" \in FieldKinds /\ 17 \in FieldOf("str")
      BY KindsHold
    <2> QED BY <1>1, <2>1, Message1
  <1>3. type(m) = "Rerror"
    <2> DEFINE w == <<17>>
    <2>1. w \in Seq(Nat)
      OBVIOUS
    <2> HIDE DEF w
    <2>2. type(Msg("Rerror", w)) = "Rerror"
      BY <2>1, MsgParts
    <2> QED BY <2>2 DEF w
  <1>4. m \in Messages
    BY <1>2, MessageMade, Zenon
  <1>5. Plain(m)
    BY <1>3 DEF Plain, SessionTypes
  <1> QED BY <1>3, <1>4, <1>5, CarriedMessage


LEMMA NewClientSession ==
    ASSUME SessionInv, NewClient
    PROVE  SessionInv' /\ cl'.pc = "version" /\ cl'.reading = cl.reading
  <1>1. /\ Ends /\ cl.pc = "new" /\ Fresh /\ sv.pc = "first" /\ ~sv.unix /\ Silent
        /\ lost \subseteq Faults
    BY DEF SessionInv, Unversioned, NewClient
  <1>2. sc' = sc /\ sv' = sv /\ work' = work /\ s2c' = s2c /\ lost' = lost
    BY DEF NewClient
  <1>3. cl' = [cl EXCEPT !.pc = "version"] /\ cl \in ClientStates
    BY <1>1, SMTT(40) DEF NewClient, Ends
  <1>4. /\ cl' \in ClientStates /\ cl'.pc = "version" /\ cl'.reading = cl.reading /\ cl'.version = cl.version
        /\ cl'.msize = cl.msize /\ cl'.limit = cl.limit /\ cl'.unix = cl.unix
    BY <1>3, ClientEdits
  <1>5. Ends'
    BY <1>1, <1>2, <1>4, Zenon DEF Ends
  <1>6. Fresh'
    BY <1>1, <1>2, <1>4, Zenon DEF Fresh
  <1>7. c2s' = <<Question'>>
    <2>1. cl.unix = FALSE
      BY <1>1, EndsParts DEF Fresh
    <2>2. c2s' = Append(<<>>, Sent(NoTag, Msg("Tversion", <<sc.msize, cl.version>>), FALSE))
      BY <1>1, <2>1, Zenon DEF NewClient, write, Silent
    <2>3. Question' = Sent(NoTag, Msg("Tversion", <<sc.msize, cl.version>>), FALSE)
      BY <1>2, <1>4, Zenon DEF Question
    <2>4. \A x : Append(<<>>, x) = <<x>>
      OBVIOUS
    <2> QED BY <2>2, <2>3, <2>4, Zenon
  <1>8. /\ s2c' = {} /\ work' = {} /\ ~sv'.unix /\ sv'.pc # "closed"
    BY <1>1, <1>2 DEF Silent
  <1>9. Versioning'
    BY <1>6, <1>7, <1>8, Zenon DEF Versioning
  <1>10. cl'.pc # "new" /\ cl'.pc # "up" /\ cl'.pc # "failed"
    BY <1>4
  <1>11. Unversioned' /\ GivenUp' /\ Agreed' /\ OnWay'
    BY <1>10, Zenon DEF Unversioned, GivenUp, Agreed, OnWay
  <1>12. lost' \subseteq Faults
    BY <1>1, <1>2
  <1> QED BY <1>4, <1>5, <1>9, <1>11, <1>12, Zenon DEF SessionInv


\* The answer to a handshake, read with whatever limit.
LEMMA AnswerRead ==
    ASSUME SessionInv, cl.pc = "version", NEW e \in s2c
    PROVE  LET r == Received(e, cl.limit, cl.unix)
           IN  /\ misread(e, r) = {}
               /\ c2s = <<>> /\ sv.pc = "loop" /\ sv.msize = agreedSize /\ s2c = {e}
               /\ e.tag = NoTag
               /\ \/ type(r.msg) = "Rerror"
                  \/ \E v \in {Version, VersionU, VersionUnknown} :
                        /\ Answered(v)
                        /\ type(r.msg) = "Rversion" /\ arg(r.msg) = <<agreedSize, v>>
  <1> DEFINE r == Received(e, cl.limit, cl.unix)
  <1>1. Ends /\ Versioning
    BY DEF SessionInv
  <1>2. cl.unix \in BOOLEAN /\ sv.unix \in BOOLEAN /\ agreedSize \in Nat
    BY <1>1, EndsParts
  <1>3. s2c # {}
    OBVIOUS
  <1>4. /\ c2s = <<>> /\ sv.pc = "loop" /\ sv.msize = agreedSize
        /\ s2c = {Refusal} \/ \E v \in {Version, VersionU, VersionUnknown} : Answered(v)
    BY <1>1, <1>3, Zenon DEF Versioning
  <1>5. CASE s2c = {Refusal}
    <2>1. e = Refusal
      BY <1>5
    <2>2. e.tag = NoTag /\ e.unix = sv.unix /\ e.msg = Msg("Rerror", <<17>>)
      BY <2>1 DEF Refusal, Sent
    <2>3. e.msg \in Messages /\ Plain(e.msg) /\ type(Carried(e.msg, e.unix)) = "Rerror"
      BY <1>2, <2>2, RefusalCarried
    <2> HIDE DEF r
    <2>4. Took(e, r) /\ r.ok
      BY <1>2, <2>2, <2>3, TookPlain DEF r
    <2>5. misread(e, r) = {} /\ type(r.msg) = "Rerror"
      BY <2>3, <2>4 DEF Took
    <2> QED BY <1>4, <1>5, <2>1, <2>2, <2>5 DEF r
  <1>6. CASE \E v \in {Version, VersionU, VersionUnknown} : Answered(v)
    <2>0. PICK v \in {Version, VersionU, VersionUnknown} : Answered(v)
      BY <1>6
    <2>1. e = Answer(v) /\ s2c = {e}
      BY <2>0 DEF Answered
    <2>2. e.tag = NoTag /\ e.unix = sv.unix /\ e.msg = Msg("Rversion", <<agreedSize, v>>)
      BY <2>1 DEF Answer, Sent
    <2>3. /\ e.msg \in Messages /\ Plain(e.msg) /\ Carried(e.msg, e.unix) = e.msg
          /\ type(e.msg) = "Rversion" /\ arg(e.msg) = <<agreedSize, v>>
      BY <1>2, <2>2, VersionCarried, ZenonT(60)
    <2> HIDE DEF r
    <2>4. Took(e, r) /\ r.ok
      BY <1>2, <2>2, <2>3, TookPlain DEF r
    <2>5. misread(e, r) = {} /\ type(r.msg) = "Rversion" /\ arg(r.msg) = <<agreedSize, v>>
      BY <2>3, <2>4 DEF Took
    <2> QED BY <1>4, <2>0, <2>1, <2>2, <2>5, Zenon DEF r
  <1> QED BY <1>4, <1>5, <1>6

LEMMA ReadVersionSession ==
    ASSUME SessionInv, ReadVersion
    PROVE  /\ SessionInv' /\ cl.pc = "version"
           /\ c2s = <<>> /\ work = {} /\ s2c' = {} /\ work' = {}
           /\ c2s' = <<>> \/ c2s' = <<Question'>>
  <1>0. Ends /\ Versioning /\ lost \subseteq Faults
    BY DEF SessionInv
  <1>1. PICK e \in s2c :
          /\ e.tag = NoTag /\ cl.pc = "version"
          /\ deliver(e, Received(e, cl.limit, cl.unix))
          /\ versionReply(Received(e, cl.limit, cl.unix).msg)
          /\ sc' = sc /\ sv' = sv /\ work' = work
    BY Zenon DEF ReadVersion
  <1> DEFINE r == Received(e, cl.limit, cl.unix)
             m == r.msg
  <1>2. /\ misread(e, r) = {}
        /\ c2s = <<>> /\ sv.pc = "loop" /\ sv.msize = agreedSize /\ s2c = {e}
        /\ \/ type(m) = "Rerror"
           \/ \E v \in {Version, VersionU, VersionUnknown} :
                 Answered(v) /\ type(m) = "Rversion" /\ arg(m) = <<agreedSize, v>>
    BY <1>1, AnswerRead, Zenon
  <1>3. s2c' = s2c \ {e} /\ lost' = lost \cup misread(e, r)
    BY <1>1, Zenon DEF deliver
  <1>4. versionReply(m)
    BY <1>1
  <1> HIDE DEF r, m
  <1>5. s2c' = {} /\ lost' \subseteq Faults
    BY <1>0, <1>2, <1>3
  <1>6. Fresh /\ work = {} /\ cl \in ClientStates
    BY <1>0, <1>1 DEF Versioning, Ends
  <1>7. CASE cl' = [cl EXCEPT !.pc = "failed", !.reading = FALSE] /\ c2s' = c2s
    <2>1. cl' \in ClientStates /\ cl'.pc = "failed" /\ cl'.reading = FALSE
      BY <1>6, <1>7, ClientEdits
    <2>2. Ends'
      BY <1>0, <1>1, <2>1, Zenon DEF Ends
    <2>3. Silent' /\ GivenUp'
      BY <1>1, <1>2, <1>5, <1>6, <1>7, <2>1 DEF Silent, GivenUp
    <2>4. cl'.pc # "new" /\ cl'.pc # "version" /\ cl'.pc # "up"
      BY <2>1
    <2>5. Unversioned' /\ Versioning' /\ Agreed' /\ OnWay'
      BY <2>4, Zenon DEF Unversioned, Versioning, Agreed, OnWay
    <2>6. SessionInv'
      BY <1>5, <2>2, <2>3, <2>5, Zenon DEF SessionInv
    <2> QED BY <1>1, <1>2, <1>5, <1>6, <1>7, <2>6
  <1>8. CASE type(m) = "Rerror"
    <2>1. cl' = [cl EXCEPT !.pc = "failed", !.reading = FALSE] /\ c2s' = c2s
      BY <1>4, <1>8 DEF versionReply
    <2> QED BY <1>7, <2>1
  <1>9. ASSUME NEW v \in {Version, VersionU, VersionUnknown},
               Answered(v), type(m) = "Rversion", arg(m) = <<agreedSize, v>>
        PROVE  /\ SessionInv' /\ cl.pc = "version"
               /\ c2s = <<>> /\ work = {} /\ s2c' = {} /\ work' = {}
               /\ c2s' = <<>> \/ c2s' = <<Question'>>
    <2>1. arg(m)[1] = agreedSize /\ arg(m)[2] = v
      BY <1>9
    <2>2. least(sc.msize, agreedSize) = agreedSize /\ agreedSize \in Nat
      BY <1>0, EndsParts DEF least
    <2>3. \/ /\ v \in {cl.version, Version}
             /\ \E l \in {cl.limit, agreedSize} :
                  cl' = [cl EXCEPT !.pc = "up", !.msize = agreedSize, !.limit = l, !.unix = agreedUnix(v)]
             /\ c2s' = c2s
          \/ /\ v = VersionUnknown
             /\ cl' = [cl EXCEPT !.retried = TRUE, !.version = Version]
             /\ write(NoTag, Msg("Tversion", <<sc.msize, Version>>))
          \/ cl' = [cl EXCEPT !.pc = "failed", !.reading = FALSE] /\ c2s' = c2s
      BY <1>4, <1>9, <2>1, <2>2, Zenon DEF versionReply
    <2>4. sc'.msize = sc.msize /\ maxMsize' = maxMsize /\ agreedSize' = agreedSize
      BY <1>1 DEF maxMsize, agreedSize
    <2>5. ASSUME v \in {cl.version, Version}, c2s' = c2s, NEW l \in {cl.limit, agreedSize},
                 cl' = [cl EXCEPT !.pc = "up", !.msize = agreedSize, !.limit = l, !.unix = agreedUnix(v)]
          PROVE  SessionInv'
      <3>1. agreedUnix(v) \in BOOLEAN /\ l \in Nat
        BY <1>0, <2>2, <2>5, EndsParts DEF agreedUnix
      <3>2. /\ cl' \in ClientStates /\ cl'.pc = "up" /\ cl'.msize = agreedSize /\ cl'.limit = l
            /\ cl'.unix = agreedUnix(v)
        <4>1. PICK u \in BOOLEAN : u = agreedUnix(v)
          BY <3>1, Zenon
        <4>2. cl' = [cl EXCEPT !.pc = "up", !.msize = agreedSize, !.limit = l, !.unix = u]
          BY <2>5, <4>1, Zenon
        <4>3. /\ cl' \in ClientStates /\ cl'.pc = "up" /\ cl'.msize = agreedSize /\ cl'.limit = l
              /\ cl'.unix = u
          <5>1. cl \in ClientStates /\ l \in Nat /\ agreedSize \in Nat
            BY <1>6, <2>2, <3>1
          <5> QED BY <4>2, <5>1 DEF ClientStates
        <4> QED BY <4>1, <4>3, Zenon
      <3>3. agreedUnix(v) = sv.unix
        BY <1>9, Zenon DEF Answered, agreedUnix
      <3>4. Ends'
        BY <1>0, <1>1, <3>2, Zenon DEF Ends
      <3>5. l \in {sc.msize, agreedSize}
        BY <1>6, <2>5 DEF Fresh
      <3>6. Agreed'
        <4>1. sv'.pc # "first" /\ sv'.msize = agreedSize /\ cl'.unix = sv'.unix
          BY <1>1, <1>2, <3>2, <3>3
        <4> QED BY <1>1, <2>4, <3>2, <3>5, <4>1, Zenon DEF Agreed
      <3>7. OnWay'
        <4>1. c2s' = <<>> /\ work' = {} /\ s2c' = {}
          BY <1>1, <1>2, <1>5, <1>6, <2>5
        <4>2. \A S : <<>> \in Seq(S)
          OBVIOUS
        <4>3. \A S : {} \subseteq S
          OBVIOUS
        <4> QED BY <4>1, <4>2, <4>3, Zenon DEF OnWay
      <3>8. cl'.pc # "new" /\ cl'.pc # "version" /\ cl'.pc # "failed"
        BY <3>2
      <3>9. Unversioned' /\ Versioning' /\ GivenUp'
        BY <3>8, Zenon DEF Unversioned, Versioning, GivenUp
      <3> QED BY <1>5, <3>4, <3>6, <3>7, <3>9, Zenon DEF SessionInv
    <2>6. ASSUME v = VersionUnknown, cl' = [cl EXCEPT !.retried = TRUE, !.version = Version],
                 write(NoTag, Msg("Tversion", <<sc.msize, Version>>))
          PROVE  SessionInv' /\ c2s' = <<Question'>>
      <3>1. /\ cl' \in ClientStates /\ cl'.pc = cl.pc /\ cl'.reading = cl.reading /\ cl'.version = Version
            /\ cl'.msize = cl.msize /\ cl'.limit = cl.limit /\ cl'.unix = cl.unix
        BY <1>6, <2>6, ClientEdits
      <3>2. Ends'
        BY <1>0, <1>1, <3>1, Zenon DEF Ends
      <3>3. Fresh'
        BY <1>1, <1>6, <3>1, Zenon DEF Fresh
      <3>4. c2s' = <<Question'>>
        <4>1. cl.unix = FALSE
          BY <1>0, <1>6, EndsParts DEF Fresh
        <4>2. c2s' = Append(<<>>, Sent(NoTag, Msg("Tversion", <<sc.msize, Version>>), FALSE))
          BY <1>2, <2>6, <4>1, Zenon DEF write
        <4>3. Question' = Sent(NoTag, Msg("Tversion", <<sc.msize, Version>>), FALSE)
          BY <1>1, <3>1, Zenon DEF Question
        <4>4. \A x : Append(<<>>, x) = <<x>>
          OBVIOUS
        <4> QED BY <4>2, <4>3, <4>4, Zenon
      <3>5. v # VersionU
        BY <2>6 DEF VersionU, VersionUnknown
      <3>6. ~sv'.unix /\ sv'.pc # "closed" /\ s2c' = {} /\ work' = {}
        <4>1. ~sv.unix
          BY <1>9, <3>5, Zenon DEF Answered
        <4> QED BY <1>1, <1>2, <1>5, <1>6, <4>1
      <3>7. Versioning'
        BY <3>3, <3>4, <3>6, Zenon DEF Versioning
      <3>8. cl'.pc # "new" /\ cl'.pc # "up" /\ cl'.pc # "failed"
        BY <1>1, <3>1
      <3>9. Unversioned' /\ GivenUp' /\ Agreed' /\ OnWay'
        BY <3>8, Zenon DEF Unversioned, GivenUp, Agreed, OnWay
      <3> QED BY <1>5, <3>2, <3>4, <3>7, <3>9, ZenonT(60) DEF SessionInv
    <2> QED BY <1>1, <1>2, <1>5, <1>6, <1>7, <2>3, <2>5, <2>6
  <1> QED BY <1>2, <1>8, <1>9, <1>1, <1>7


\* A reply on its way in an established session.
LEMMA ReplyRead ==
    ASSUME SessionInv, cl.pc = "up", NEW e \in s2c
    PROVE  LET r == Received(e, cl.limit, cl.unix)
           IN  /\ misread(e, r) = {} /\ e.tag \in Procs
               /\ r.ok => r.msg \in Replies(maxIO)
  <1> DEFINE r == Received(e, cl.limit, cl.unix)
  <1>1. Ends /\ Agreed /\ OnWay
    BY DEF SessionInv
  <1>2. s2c \subseteq Envelope(Replies(maxIO), sv.unix) /\ cl.unix = sv.unix
    BY <1>1, Zenon DEF Agreed, OnWay
  <1> DEFINE S == Replies(maxIO)
  <1> HIDE DEF S
  <1>3. e.tag \in Procs /\ e.msg \in S /\ e.unix = sv.unix
    BY <1>2 DEF Envelope, S
  <1>4. sv.unix \in BOOLEAN /\ e.msg \in Messages
    BY <1>1, <1>3, EndsParts DEF S, Replies
  <1>5. Took(e, Received(e, cl.limit, e.unix))
    BY <1>3, <1>4, TookIt, Zenon
  <1>6. Took(e, r)
    BY <1>2, <1>3, <1>5, Zenon
  <1>7. Carried(e.msg, e.unix) \in Replies(maxIO)
    BY <1>3, <1>4, CarriedRanged, Zenon DEF S
  <1> HIDE DEF r
  <1> QED BY <1>3, <1>6, <1>7, Zenon DEF Took, r

\* maxIO depends on what the ends agreed on only.
LEMMA SameMax ==
    ASSUME sc' = sc, cl'.msize = cl.msize
    PROVE  maxIO' = maxIO /\ agreedSize' = agreedSize /\ maxMsize' = maxMsize
  BY DEF maxIO, agreedSize, maxMsize

LEMMA ReadFailsSession ==
    ASSUME SessionInv, ReadFails
    PROVE  /\ SessionInv' /\ ~cl'.reading /\ (cl.pc = "up" <=> cl'.pc = "up")
           /\ c2s' = c2s /\ work' = work /\ s2c' \subseteq s2c
  <1>0. Ends /\ Unversioned /\ Versioning /\ Agreed /\ OnWay /\ lost \subseteq Faults
    BY DEF SessionInv
  <1>1. /\ cl.reading /\ cl.pc # "failed"
        /\ cl' = [cl EXCEPT !.reading = FALSE, !.pc = IF cl.pc = "version" THEN "failed" ELSE cl.pc]
        /\ sc' = sc /\ sv' = sv /\ c2s' = c2s /\ work' = work
    BY DEF ReadFails, closeAll
  <1>2. \/ \E e \in s2c :
             LET r == Received(e, cl.limit, cl.unix)
             IN  /\ s2c' = s2c \ {e}
                 /\ lost' = lost \cup IF ~r.fits THEN {"clientTooLarge"}
                                      ELSE {"clientDecode"} \cup misread(e, r)
        \/ sv.pc = "closed" /\ s2c' = s2c /\ lost' = lost
    BY Zenon DEF ReadFails
  <1>3. cl.pc \in {"version", "up"}
    <2>1. cl.pc # "new"
      <3>1. CASE cl.pc = "new"
        <4>1. s2c = {} /\ sv.pc = "first"
          BY <1>0, <3>1 DEF Unversioned, Silent
        <4> QED BY <1>2, <4>1
      <3> QED BY <3>1
    <2> QED BY <1>0, <1>1, <2>1, EndsParts
  <1>4. cl' \in ClientStates /\ cl'.reading = FALSE /\ cl'.pc = (IF cl.pc = "version" THEN "failed" ELSE "up")
        /\ cl'.msize = cl.msize /\ cl'.limit = cl.limit /\ cl'.unix = cl.unix
    <2> DEFINE p == IF cl.pc = "version" THEN "failed" ELSE "up"
    <2>1. p \in {"failed", "up"} /\ cl' = [cl EXCEPT !.reading = FALSE, !.pc = p]
      BY <1>1, <1>3
    <2>2. cl \in ClientStates
      BY <1>0 DEF Ends
    <2> HIDE DEF p
    <2>3. cl' \in ClientStates /\ cl'.reading = FALSE /\ cl'.pc = p
          /\ cl'.msize = cl.msize /\ cl'.limit = cl.limit /\ cl'.unix = cl.unix
      BY <2>1, <2>2 DEF ClientStates
    <2> QED BY <2>3 DEF p
  <1>5. \A e \in s2c : misread(e, Received(e, cl.limit, cl.unix)) = {}
    BY <1>3, AnswerRead, ReplyRead
  <1>6. s2c' \subseteq s2c /\ lost' \subseteq Faults
    <2>1. CASE sv.pc = "closed" /\ s2c' = s2c /\ lost' = lost
      BY <1>0, <2>1
    <2>2. ASSUME NEW e \in s2c, s2c' = s2c \ {e}, NEW r, misread(e, r) = {},
                 lost' = lost \cup IF ~r.fits THEN {"clientTooLarge"}
                                   ELSE {"clientDecode"} \cup misread(e, r)
          PROVE  s2c' \subseteq s2c /\ lost' \subseteq Faults
      BY <1>0, <2>2 DEF Faults
    <2> QED BY <1>2, <1>5, <2>1, <2>2
  <1>7. Ends'
    BY <1>0, <1>1, <1>4, Zenon DEF Ends
  <1>8. CASE cl.pc = "version"
    <2>1. cl'.pc = "failed"
      BY <1>4, <1>8
    <2>2. c2s = <<>> /\ work = {} /\ s2c' = {}
      <3>1. CASE sv.pc = "closed" /\ s2c' = s2c
        BY <1>0, <1>8, <3>1 DEF Versioning
      <3>2. ASSUME NEW e \in s2c, s2c' = s2c \ {e} PROVE c2s = <<>> /\ s2c' = {}
        <4>1. c2s = <<>> /\ s2c = {e}
          BY <1>8, AnswerRead
        <4> QED BY <3>2, <4>1
      <3>3. work = {}
        BY <1>0, <1>8 DEF Versioning
      <3> QED BY <1>2, <3>1, <3>2, <3>3
    <2>3. GivenUp'
      BY <1>1, <1>4, <2>2 DEF GivenUp, Silent
    <2>4. cl'.pc # "new" /\ cl'.pc # "version" /\ cl'.pc # "up"
      BY <2>1
    <2>5. Unversioned' /\ Versioning' /\ Agreed' /\ OnWay'
      BY <2>4, Zenon DEF Unversioned, Versioning, Agreed, OnWay
    <2>6. SessionInv'
      BY <1>6, <1>7, <2>3, <2>5, Zenon DEF SessionInv
    <2> QED BY <1>1, <1>4, <1>6, <1>8, <2>4, <2>6
  <1>9. CASE cl.pc = "up"
    <2>1. cl'.pc = "up"
      BY <1>4, <1>9
    <2>2. maxIO' = maxIO /\ agreedSize' = agreedSize
      BY <1>1, <1>4, SameMax
    <2>3. Agreed'
      BY <1>0, <1>1, <1>4, <1>9, <2>1, <2>2, Zenon DEF Agreed
    <2>4. OnWay'
      <3>1. \A S, T, U : S \subseteq T /\ T \subseteq U => S \subseteq U
        OBVIOUS
      <3>2. /\ c2s' \in Seq(Envelope(Requests(maxIO), sv.unix))
            /\ work' \subseteq Envelope(Requests(maxIO), sv.unix)
            /\ s2c' \subseteq Envelope(Replies(maxIO), sv.unix)
        BY <1>0, <1>1, <1>6, <1>9, <3>1, Zenon DEF OnWay
      <3>3. \A m, x : Requests(m)' = Requests(m) /\ Replies(m)' = Replies(m) /\ Envelope(m, x)' = Envelope(m, x)
        BY Zenon DEF Requests, Replies, Envelope
      <3>4. (Envelope(Requests(maxIO), sv.unix))' = Envelope(Requests(maxIO), sv.unix)
        BY <1>1, <2>2
      <3>5. (Envelope(Replies(maxIO), sv.unix))' = Envelope(Replies(maxIO), sv.unix)
        BY <1>1, <2>2
      <3> QED BY <3>2, <3>4, <3>5, Zenon DEF OnWay
    <2>5. cl'.pc # "new" /\ cl'.pc # "version" /\ cl'.pc # "failed"
      BY <2>1
    <2>6. Unversioned' /\ Versioning' /\ GivenUp'
      BY <2>5, Zenon DEF Unversioned, Versioning, GivenUp
    <2>7. SessionInv'
      BY <1>6, <1>7, <2>3, <2>4, <2>6, Zenon DEF SessionInv
    <2> QED BY <1>1, <1>4, <1>6, <1>9, <2>1, <2>7
  <1> QED BY <1>3, <1>8, <1>9


\* A request on its way in an established session.
LEMMA RequestRead ==
    ASSUME Ends, NEW e \in Envelope(Requests(maxIO), sv.unix), NEW limit
    PROVE  LET r == Received(e, limit, sv.unix)
           IN  /\ misread(e, r) = {} /\ e.tag \in Procs /\ e.unix = sv.unix
               /\ r.ok => r.msg \in Requests(maxIO)
  <1> DEFINE r == Received(e, limit, sv.unix)
             S == Requests(maxIO)
  <1> HIDE DEF S
  <1>3. e.tag \in Procs /\ e.msg \in S /\ e.unix = sv.unix
    BY DEF Envelope, S
  <1>4. sv.unix \in BOOLEAN /\ e.msg \in Messages
    BY <1>3, EndsParts DEF S, Requests
  <1>5. Took(e, Received(e, limit, e.unix))
    BY <1>3, <1>4, TookIt, Zenon
  <1>6. Took(e, r)
    BY <1>3, <1>5, Zenon
  <1>7. Carried(e.msg, e.unix) \in Requests(maxIO)
    BY <1>3, <1>4, CarriedRanged, Zenon DEF S
  <1> HIDE DEF r
  <1> QED BY <1>3, <1>6, <1>7, Zenon DEF Took, r

LEMMA AnsweredVersion ==
    ASSUME Ends, NEW m, NEW v, v \in {Version, VersionU}, arg(m) = <<sc.msize, v>>, answerVersion(m)
    PROVE  \E w \in {Version, VersionU, VersionUnknown} :
              /\ w = VersionU => v = VersionU
              /\ sv' = [sv EXCEPT !.pc = "loop", !.msize = agreedSize, !.unix = (w = VersionU)]
              /\ \/ s2c' = s2c \cup {Sent(NoTag, Msg("Rerror", <<17>>), w = VersionU)}
                 \/ s2c' = s2c \cup {Sent(NoTag, Msg("Rversion", <<agreedSize, w>>), w = VersionU)}
  <1> DEFINE w == IF sc.server = "this" THEN tVersion(v) ELSE otherVersion(v)
  <1>1. arg(m)[1] = sc.msize /\ arg(m)[2] = v
    OBVIOUS
  <1>2. w \in {Version, VersionU, VersionUnknown} /\ (w = VersionU => v = VersionU)
    BY EndsParts DEF tVersion, otherVersion, Version, VersionU, VersionUnknown, Kinds
  <1>3. least(arg(m)[1], maxMsize) = agreedSize
    BY <1>1 DEF agreedSize
  <1>4. w = IF sc.server = "this" THEN tVersion(arg(m)[2]) ELSE otherVersion(arg(m)[2])
    BY <1>1
  <1> HIDE DEF w
  <1>5. /\ sv' = [sv EXCEPT !.pc = "loop", !.msize = agreedSize, !.unix = (w = VersionU)]
        /\ s2c' = s2c \cup {Sent(NoTag, IF sc.server = "refuse" THEN Msg("Rerror", <<17>>)
                                        ELSE Msg("Rversion", <<agreedSize, w>>), w = VersionU)}
    BY <1>3, <1>4, Zenon DEF answerVersion
  <1>6. CASE sc.server = "refuse"
    BY <1>2, <1>5, <1>6, Zenon
  <1>7. CASE sc.server # "refuse"
    BY <1>2, <1>5, <1>7, Zenon
  <1> QED BY <1>6, <1>7

\* What serve makes of the first message: it answers a Tversion, takes on a
\* request, or closes.
Took1(e) ==
    \E m \in Requests(maxIO) :
        /\ work' = work \cup {[tag |-> e.tag, msg |-> m, unix |-> sv.unix]}
        /\ sv' = sv /\ s2c' = s2c

Closes == sv' = [sv EXCEPT !.pc = "closed"] /\ work' = work /\ s2c' = s2c

LEMMA ServeUp ==
    ASSUME SessionInv, Serve, cl.pc = "up"
    PROVE  /\ c2s \in Seq(Envelope(Requests(maxIO), sv.unix)) /\ c2s # <<>> /\ c2s' = Tail(c2s)
           /\ lost' \subseteq Faults
           /\ Took1(Head(c2s)) \/ Closes
  <1> DEFINE S == Envelope(Requests(maxIO), sv.unix)
             e == Head(c2s)
             r == Received(e, sv.msize, sv.unix)
  <1>2. c2s # <<>> /\ c2s' = Tail(c2s)
    BY DEF Serve
  <1>0. Ends /\ c2s \in Seq(S) /\ lost \subseteq Faults
    BY Zenon DEF SessionInv, OnWay
  <1>3. e \in S
    <2> HIDE DEF S
    <2> QED BY <1>0, <1>2
  <1>4. misread(e, r) = {} /\ (r.ok => r.msg \in Requests(maxIO))
    <2> HIDE DEF e
    <2> QED BY <1>0, <1>3, RequestRead, Zenon
  <1>5. \A m \in Requests(maxIO) : type(m) # "Tversion"
    BY DEF Requests, RequestTypes, OtherRequests
  <1>6. \/ /\ r.fits /\ r.ok
           /\ lost' = lost \cup misread(e, r)
           /\ IF type(r.msg) = "Tversion" THEN answerVersion(r.msg) /\ work' = work
              ELSE /\ work' = work \cup {[tag |-> e.tag, msg |-> r.msg, unix |-> sv.unix]}
                   /\ sv' = sv /\ s2c' = s2c
        \/ /\ ~r.fits \/ ~r.ok
           /\ sv' = [sv EXCEPT !.pc = "closed"]
           /\ lost' = lost \cup IF ~r.fits THEN {"serverTooLarge"}
                                ELSE {"serverDecode"} \cup misread(e, r)
           /\ work' = work /\ s2c' = s2c
    BY Zenon DEF Serve
  <1> HIDE DEF e, r, S
  <1>7. lost' \subseteq Faults
    <2>1. lost' = lost \cup misread(e, r) \/ lost' = lost \cup {"serverTooLarge"}
          \/ lost' = lost \cup ({"serverDecode"} \cup misread(e, r))
      BY <1>6, Zenon
    <2> QED BY <1>0, <1>4, <2>1 DEF Faults
  <1>8. Took1(e) \/ Closes
    BY <1>4, <1>5, <1>6, Zenon DEF Took1, Closes
  <1> QED BY <1>0, <1>2, <1>7, <1>8 DEF S, e


LEMMA ServeVersion ==
    ASSUME SessionInv, Serve, cl.pc = "version"
    PROVE  /\ c2s = <<Question>> /\ s2c = {} /\ work = {} /\ work' = {} /\ c2s' = <<>>
           /\ lost' \subseteq Faults
           /\ Closes \/ \E w \in {Version, VersionU, VersionUnknown} :
                /\ w = VersionU => cl.version = VersionU
                /\ sv' = [sv EXCEPT !.pc = "loop", !.msize = agreedSize, !.unix = (w = VersionU)]
                /\ \/ s2c' = s2c \cup {Sent(NoTag, Msg("Rerror", <<17>>), w = VersionU)}
                   \/ s2c' = s2c \cup {Sent(NoTag, Msg("Rversion", <<agreedSize, w>>), w = VersionU)}
  <1> DEFINE e == Head(c2s)
             r == Received(e, sv.msize, sv.unix)
  <1>0. Ends /\ Versioning /\ lost \subseteq Faults
    BY DEF SessionInv
  <1>1. c2s # <<>> /\ c2s' = Tail(c2s)
    BY DEF Serve
  <1>2. c2s = <<Question>> /\ s2c = {} /\ work = {}
    BY <1>0, <1>1, Zenon DEF Versioning
  <1>3. e = Question /\ c2s' = <<>>
    <2> DEFINE q == Question
    <2> HIDE DEF q
    <2>1. c2s = <<q>>
      BY <1>2 DEF q
    <2>2. e = q /\ c2s' = <<>>
      BY <1>1, <2>1
    <2> QED BY <2>2 DEF q
  <1>4. e.unix = FALSE /\ e.msg = Msg("Tversion", <<sc.msize, cl.version>>)
    BY <1>3 DEF Question, Sent
  <1>5. sv.unix \in BOOLEAN /\ sc.msize \in Nat /\ cl.version \in {Version, VersionU}
    BY <1>0, EndsParts
  <1>6. /\ e.msg \in Messages /\ Plain(e.msg) /\ type(e.msg) = "Tversion"
        /\ arg(e.msg) = <<sc.msize, cl.version>> /\ Carried(e.msg, FALSE) = e.msg
    <2> DEFINE n == sc.msize
               v == cl.version
               m == Msg("Tversion", <<n, v>>)
    <2>1. n \in Nat /\ v \in {Version, VersionU, VersionUnknown} /\ FALSE \in BOOLEAN
      BY <1>5
    <2> HIDE DEF n, v
    <2>2. m \in Messages /\ Plain(m) /\ type(m) = "Tversion" /\ arg(m) = <<n, v>> /\ Carried(m, FALSE) = m
      BY <2>1, VersionCarried
    <2> HIDE DEF e, m
    <2>3. e.msg = m
      BY <1>4, Zenon DEF m, n, v
    <2> QED BY <2>2, <2>3, Zenon DEF n, v
  <1>7. \/ /\ r.fits /\ r.ok
           /\ lost' = lost \cup misread(e, r)
           /\ IF type(r.msg) = "Tversion" THEN answerVersion(r.msg) /\ work' = work
              ELSE /\ work' = work \cup {[tag |-> e.tag, msg |-> r.msg, unix |-> sv.unix]}
                   /\ sv' = sv /\ s2c' = s2c
        \/ /\ ~r.fits \/ ~r.ok
           /\ sv' = [sv EXCEPT !.pc = "closed"]
           /\ lost' = lost \cup IF ~r.fits THEN {"serverTooLarge"}
                                ELSE {"serverDecode"} \cup misread(e, r)
           /\ work' = work /\ s2c' = s2c
    BY Zenon DEF Serve
  <1> HIDE DEF e
  <1>8. Took(e, r) /\ r.ok
    BY <1>4, <1>5, <1>6, TookPlain
  <1> HIDE DEF r
  <1>9. misread(e, r) = {} /\ r.msg = e.msg
    BY <1>4, <1>6, <1>8 DEF Took
  <1>10. lost' \subseteq Faults
    <2>1. lost' = lost \cup misread(e, r) \/ lost' = lost \cup {"serverTooLarge"}
          \/ lost' = lost \cup ({"serverDecode"} \cup misread(e, r))
      BY <1>7, Zenon
    <2> QED BY <1>0, <1>9, <2>1 DEF Faults
  <1>11. (answerVersion(e.msg) /\ work' = work) \/ Closes
    BY <1>6, <1>7, <1>9, Zenon DEF Closes
  <1>12. CASE Closes
    BY <1>2, <1>3, <1>10, <1>12 DEF Closes
  <1>13. CASE answerVersion(e.msg) /\ work' = work
    <2>1. \E w \in {Version, VersionU, VersionUnknown} :
              /\ w = VersionU => cl.version = VersionU
              /\ sv' = [sv EXCEPT !.pc = "loop", !.msize = agreedSize, !.unix = (w = VersionU)]
              /\ \/ s2c' = s2c \cup {Sent(NoTag, Msg("Rerror", <<17>>), w = VersionU)}
                 \/ s2c' = s2c \cup {Sent(NoTag, Msg("Rversion", <<agreedSize, w>>), w = VersionU)}
      BY <1>0, <1>5, <1>6, <1>13, AnsweredVersion
    <2> QED BY <1>2, <1>3, <1>10, <1>13, <2>1, Zenon
  <1> QED BY <1>11, <1>12, <1>13

LEMMA ServeSession ==
    ASSUME SessionInv, Serve
    PROVE  SessionInv' /\ cl.pc \in {"version", "up"} /\ cl' = cl /\ sc' = sc
  <1>0. Ends /\ Unversioned /\ Versioning /\ GivenUp /\ Agreed /\ OnWay /\ sv.pc # "closed" /\ c2s # <<>>
    BY DEF SessionInv, Serve
  <1>1. cl' = cl /\ sc' = sc
    BY DEF Serve
  <1>2. cl.pc \in {"version", "up"}
    BY <1>0, EndsParts DEF Unversioned, GivenUp, Silent
  <1>3. sv \in ServerStates /\ cl \in ClientStates /\ sc \in Scenarios
    BY <1>0 DEF Ends
  <1>4. maxIO' = maxIO /\ agreedSize' = agreedSize
    BY <1>1, SameMax
  <1>5. CASE cl.pc = "version"
    <2>1. /\ s2c = {} /\ work' = {} /\ c2s' = <<>> /\ lost' \subseteq Faults
          /\ Closes \/ \E w \in {Version, VersionU, VersionUnknown} :
                /\ w = VersionU => cl.version = VersionU
                /\ sv' = [sv EXCEPT !.pc = "loop", !.msize = agreedSize, !.unix = (w = VersionU)]
                /\ \/ s2c' = s2c \cup {Sent(NoTag, Msg("Rerror", <<17>>), w = VersionU)}
                   \/ s2c' = s2c \cup {Sent(NoTag, Msg("Rversion", <<agreedSize, w>>), w = VersionU)}
      BY <1>5, ServeVersion
    <2>2. Fresh'
      BY <1>0, <1>1, <1>5, Zenon DEF Versioning, Fresh
    <2>3. cl'.pc # "new" /\ cl'.pc # "up" /\ cl'.pc # "failed"
      BY <1>1, <1>5
    <2>4. Unversioned' /\ GivenUp' /\ Agreed' /\ OnWay'
      BY <2>3, Zenon DEF Unversioned, GivenUp, Agreed, OnWay
    <2>5. CASE Closes
      <3>1. sv' \in ServerStates /\ sv'.pc = "closed" /\ s2c' = {}
        BY <1>3, <2>1, <2>5, ServerEdits DEF Closes
      <3>2. Ends'
        BY <1>1, <1>3, <3>1, Zenon DEF Ends
      <3>3. Versioning'
        BY <2>1, <2>2, <3>1, Zenon DEF Versioning
      <3> QED BY <1>1, <1>2, <2>1, <2>4, <3>2, <3>3, Zenon DEF SessionInv
    <2>6. ASSUME NEW w \in {Version, VersionU, VersionUnknown},
                 w = VersionU => cl.version = VersionU,
                 sv' = [sv EXCEPT !.pc = "loop", !.msize = agreedSize, !.unix = (w = VersionU)],
                 \/ s2c' = s2c \cup {Sent(NoTag, Msg("Rerror", << 17 >>), w = VersionU)}
                 \/ s2c' = s2c \cup {Sent(NoTag, Msg("Rversion", <<agreedSize, w>>), w = VersionU)}
          PROVE  SessionInv'
      <3>0. PICK u \in BOOLEAN : u = (w = VersionU)
        BY Zenon
      <3>1. sv' = [sv EXCEPT !.pc = "loop", !.msize = agreedSize, !.unix = u]
        BY <2>6, <3>0, Zenon
      <3>2. sv' \in ServerStates /\ sv'.pc = "loop" /\ sv'.msize = agreedSize /\ sv'.unix = u
        <4>1. agreedSize \in Nat
          BY <1>0, EndsParts
        <4> QED BY <1>3, <3>1, <4>1 DEF ServerStates
      <3>3. Ends'
        BY <1>1, <1>3, <3>2, Zenon DEF Ends
      <3>4. \A x : {} \cup {x} = {x}
        OBVIOUS
      <3>5. s2c' = {Refusal'} \/ s2c' = {Answer(w)'}
        <4>1. Refusal' = Sent(NoTag, Msg("Rerror", <<17>>), u) /\ Answer(w)' = Sent(NoTag, Msg("Rversion", <<agreedSize, w>>), u)
          BY <1>4, <3>2, Zenon DEF Refusal, Answer
        <4> QED BY <2>1, <2>6, <3>0, <3>4, <4>1, Zenon
      <3>6. s2c' = {Answer(w)'} => Answered(w)'
        BY <1>1, <2>6, <3>0, <3>2, Zenon DEF Answered
      <3>7. Versioning'
        <4>1. s2c' = {Refusal'} \/ \E v \in {Version, VersionU, VersionUnknown} : Answered(v)'
          BY <3>5, <3>6, Zenon
        <4>2. sv'.pc = "loop" /\ sv'.msize = agreedSize'
          BY <1>4, <3>2
        <4> QED BY <2>1, <2>2, <4>1, <4>2, Zenon DEF Versioning
      <3> QED BY <2>1, <2>4, <3>3, <3>7, Zenon DEF SessionInv
    <2> QED BY <1>1, <1>2, <2>1, <2>5, <2>6
  <1>6. CASE cl.pc = "up"
    <2> DEFINE S == Envelope(Requests(maxIO), sv.unix)
    <2>1. /\ c2s \in Seq(S) /\ c2s # <<>> /\ c2s' = Tail(c2s)
          /\ lost' \subseteq Faults /\ (Took1(Head(c2s)) \/ Closes)
      BY <1>6, ServeUp
    <2>2. Head(c2s) \in S /\ c2s' \in Seq(S)
      <3> HIDE DEF S
      <3> QED BY <2>1
    <2>3. work \subseteq S /\ s2c \subseteq Envelope(Replies(maxIO), sv.unix)
      BY <1>0, <1>6, Zenon DEF OnWay
    <2>4. /\ sv' \in ServerStates /\ sv'.pc # "first" /\ sv'.msize = sv.msize /\ sv'.unix = sv.unix
          /\ s2c' = s2c
      <3>0. sv.pc # "first"
        BY <1>0, <1>6 DEF Agreed
      <3>1. CASE Took1(Head(c2s))
        <4>1. sv' = sv /\ s2c' = s2c
          BY <3>1 DEF Took1
        <4> QED BY <1>3, <3>0, <4>1
      <3>2. CASE Closes
        <4>1. sv' = [sv EXCEPT !.pc = "closed"] /\ s2c' = s2c
          BY <3>2 DEF Closes
        <4> QED BY <1>3, <4>1, ServerEdits
      <3> QED BY <2>1, <3>1, <3>2
    <2>5. work' \subseteq S
      <3>1. CASE Took1(Head(c2s))
        <4>1. PICK m \in Requests(maxIO) :
                 work' = work \cup {[tag |-> Head(c2s).tag, msg |-> m, unix |-> sv.unix]}
          BY <3>1, Zenon DEF Took1
        <4>2. Head(c2s).tag \in Procs
          BY <1>0, <2>2, RequestRead
        <4> DEFINE R == Requests(maxIO)
        <4> HIDE DEF R
        <4>3. [tag |-> Head(c2s).tag, msg |-> m, unix |-> sv.unix] \in Envelope(R, sv.unix)
          BY <4>1, <4>2 DEF Envelope, R
        <4> QED BY <2>3, <4>1, <4>3 DEF R
      <3>2. CASE Closes
        BY <2>3, <3>2, Zenon DEF Closes
      <3> QED BY <2>1, <3>1, <3>2
    <2>6. Ends'
      BY <1>1, <1>3, <2>4, Zenon DEF Ends
    <2>7. Agreed'
      BY <1>0, <1>1, <1>4, <1>6, <2>4, Zenon DEF Agreed
    <2>8. OnWay'
      <3>1. (Envelope(Requests(maxIO), sv.unix))' = S
        BY <1>4, <2>4
      <3>2. (Envelope(Replies(maxIO), sv.unix))' = Envelope(Replies(maxIO), sv.unix)
        BY <1>4, <2>4
      <3> HIDE DEF S
      <3> QED BY <2>2, <2>3, <2>4, <2>5, <3>1, <3>2, Zenon DEF OnWay
    <2>9. cl'.pc # "new" /\ cl'.pc # "version" /\ cl'.pc # "failed"
      BY <1>1, <1>6
    <2>10. Unversioned' /\ Versioning' /\ GivenUp'
      BY <2>9, Zenon DEF Unversioned, Versioning, GivenUp
    <2>11. SessionInv'
      BY <2>1, <2>6, <2>7, <2>8, <2>10, Zenon DEF SessionInv
    <2> QED BY <1>1, <1>2, <2>11
  <1> QED BY <1>2, <1>5, <1>6


-----------------------------------------------------------------------------
(***************************************************************************)
(* One message for each goroutine.                                         *)
(***************************************************************************)

LEMMA QueueTail ==
    ASSUME NEW S, NEW q \in Seq(S), q # <<>>, NEW g
    PROVE  /\ AbsentQ(q, g) => AbsentQ(Tail(q), g) /\ Head(q).tag # g
           /\ SingleQ(q, g) => SingleQ(Tail(q), g)
           /\ SingleQ(q, g) /\ Head(q).tag = g => AbsentQ(Tail(q), g)
  <1>1. /\ Len(q) \in Nat /\ Len(q) >= 1 /\ DOMAIN q = 1..Len(q)
        /\ Tail(q) \in Seq(S) /\ DOMAIN Tail(q) = 1..(Len(q) - 1) /\ Head(q) = q[1]
        /\ \A i \in 1..(Len(q) - 1) : Tail(q)[i] = q[i + 1]
    OBVIOUS
  <1>2. \A i \in 1..(Len(q) - 1) : i + 1 \in 1..Len(q) /\ i + 1 # 1
    BY <1>1
  <1>3. \A i, j \in 1..(Len(q) - 1) : i + 1 = j + 1 => i = j
    BY <1>1
  <1>4. 1 \in 1..Len(q)
    BY <1>1
  <1>5. AbsentQ(q, g) => AbsentQ(Tail(q), g) /\ Head(q).tag # g
    BY <1>1, <1>2, <1>4, Zenon DEF AbsentQ
  <1>6. SingleQ(q, g) => SingleQ(Tail(q), g)
    <2>1. ASSUME SingleQ(q, g), NEW i \in 1..(Len(q) - 1), NEW j \in 1..(Len(q) - 1),
                 Tail(q)[i].tag = g, Tail(q)[j].tag = g
          PROVE  i = j
      <3>1. q[i + 1].tag = g /\ q[j + 1].tag = g /\ i + 1 \in DOMAIN q /\ j + 1 \in DOMAIN q
        BY <1>1, <1>2, <2>1, Zenon
      <3>2. i + 1 = j + 1
        BY <2>1, <3>1, Zenon DEF SingleQ
      <3> QED BY <1>3, <3>2, Zenon
    <2> QED BY <1>1, <2>1, Zenon DEF SingleQ
  <1>7. SingleQ(q, g) /\ Head(q).tag = g => AbsentQ(Tail(q), g)
    BY <1>1, <1>2, <1>4, Zenon DEF SingleQ, AbsentQ
  <1> QED BY <1>5, <1>6, <1>7

LEMMA QueueAppend ==
    ASSUME NEW S, NEW q \in Seq(S), NEW x \in S, NEW g
    PROVE  /\ AbsentQ(q, g) /\ x.tag # g => AbsentQ(Append(q, x), g)
           /\ SingleQ(q, g) /\ x.tag # g => SingleQ(Append(q, x), g)
           /\ AbsentQ(q, g) => SingleQ(Append(q, x), g)
  <1>1. /\ Len(q) \in Nat /\ DOMAIN q = 1..Len(q) /\ DOMAIN Append(q, x) = 1..(Len(q) + 1)
        /\ Append(q, x)[Len(q) + 1] = x
        /\ \A i \in 1..Len(q) : Append(q, x)[i] = q[i]
    OBVIOUS
  <1>2. \A i \in 1..(Len(q) + 1) : i \in 1..Len(q) \/ i = Len(q) + 1
    BY <1>1
  <1> QED BY <1>1, <1>2, Zenon DEF AbsentQ, SingleQ

LEMMA NoneLone ==
    ASSUME NEW g, None(g)
    PROVE  Lone(g)
  BY Zenon DEF None, Lone, AbsentQ, SingleQ

\* During the handshake nothing is a goroutine's.
LEMMA HandshakeNone ==
    ASSUME NEW q, NEW w, NEW s, NEW g \in Procs,
           q = <<>> \/ \E x : q = <<x>> /\ x.tag = NoTag,
           w = {}, \A x \in s : x.tag = NoTag
    PROVE  AbsentQ(q, g) /\ Absent(w, g) /\ Absent(s, g)
  <1>1. NoTag # g
    BY TagAssumption
  <1>2. AbsentQ(q, g)
    <2>1. CASE q = <<>>
      BY <2>1 DEF AbsentQ
    <2>2. ASSUME NEW x, q = <<x>>, x.tag = NoTag PROVE AbsentQ(q, g)
      <3>1. DOMAIN q = {1} /\ q[1] = x
        BY <2>2
      <3> QED BY <1>1, <2>2, <3>1 DEF AbsentQ
    <2> QED BY <2>1, <2>2
  <1> QED BY <1>1, <1>2, Zenon DEF Absent

LEMMA QuestionTag == Question'.tag = NoTag /\ \A m, u : Sent(NoTag, m, u).tag = NoTag
  BY DEF Question, Sent

LEMMA ServeOne ==
    ASSUME SessionInv, Serve, OneMessage, pc' = pc
    PROVE  OneMessage'
  <1>1. SessionInv' /\ cl.pc \in {"version", "up"} /\ cl' = cl /\ sc' = sc
    BY ServeSession
  <1>2. CASE cl.pc = "version"
    <2>1. /\ work' = {} /\ c2s' = <<>> /\ s2c = {}
          /\ Closes \/ \E w \in {Version, VersionU, VersionUnknown} :
                \/ s2c' = s2c \cup {Sent(NoTag, Msg("Rerror", <<17>>), w = VersionU)}
                \/ s2c' = s2c \cup {Sent(NoTag, Msg("Rversion", <<agreedSize, w>>), w = VersionU)}
      BY <1>2, ServeVersion
    <2>2. \A x \in s2c' : x.tag = NoTag
      <3>1. CASE Closes
        BY <2>1, <3>1 DEF Closes
      <3>2. ASSUME NEW w,
                   \/ s2c' = s2c \cup {Sent(NoTag, Msg("Rerror", << 17 >>), w = VersionU)}
                   \/ s2c' = s2c \cup {Sent(NoTag, Msg("Rversion", <<agreedSize, w>>), w = VersionU)}
            PROVE  \A x \in s2c' : x.tag = NoTag
        <4>1. \E m, u : s2c' = s2c \cup {Sent(NoTag, m, u)}
          BY <3>2, Zenon
        <4>2. PICK m, u : s2c' = s2c \cup {Sent(NoTag, m, u)}
          BY <4>1, Zenon
        <4>3. \A x \in s2c' : x = Sent(NoTag, m, u)
          BY <2>1, <4>2
        <4> QED BY <4>3, QuestionTag, Zenon
      <3> QED BY <2>1, <3>1, <3>2
    <2>3. ASSUME NEW g \in Procs PROVE None(g)'
      <3>1. AbsentQ(c2s', g) /\ Absent(work', g) /\ Absent(s2c', g)
        BY <2>1, <2>2, HandshakeNone
      <3> QED BY <3>1, Zenon DEF None, AbsentQ, Absent
    <2>4. ASSUME NEW g \in Procs PROVE Lone(g)'
      BY <2>3, Zenon DEF None, Lone, AbsentQ, SingleQ
    <2> QED BY <2>3, <2>4, Zenon DEF OneMessage
  <1>3. CASE cl.pc = "up"
    <2> DEFINE S == Envelope(Requests(maxIO), sv.unix)
               e == Head(c2s)
    <2>1. /\ c2s \in Seq(S) /\ c2s # <<>> /\ c2s' = Tail(c2s) /\ (Took1(e) \/ Closes)
      BY <1>3, ServeUp
    <2> HIDE DEF S
    <2>2. ASSUME NEW g \in Procs
          PROVE  Lone(g)' /\ (cl'.reading /\ pc'[g] = "idle" => None(g)')
      <3>1. /\ AbsentQ(c2s, g) => AbsentQ(Tail(c2s), g) /\ e.tag # g
            /\ SingleQ(c2s, g) => SingleQ(Tail(c2s), g)
            /\ SingleQ(c2s, g) /\ e.tag = g => AbsentQ(Tail(c2s), g)
        BY <2>1, QueueTail, Zenon
      <3>2. Lone(g) /\ (cl.reading /\ pc[g] = "idle" => None(g))
        BY Zenon DEF OneMessage
      <3>3. CASE Closes
        <4>1. work' = work /\ s2c' = s2c
          BY <3>3 DEF Closes
        <4>2. Lone(g)'
          BY <2>1, <3>1, <3>2, <4>1, Zenon DEF Lone, AbsentQ, SingleQ, Absent, Single
        <4>3. cl'.reading /\ pc'[g] = "idle" => None(g)'
          BY <1>1, <2>1, <3>1, <3>2, <4>1, Zenon DEF None, AbsentQ, Absent
        <4> QED BY <4>2, <4>3
      <3>4. CASE Took1(e)
        <4>1. PICK m \in Requests(maxIO) :
                 /\ work' = work \cup {[tag |-> e.tag, msg |-> m, unix |-> sv.unix]}
                 /\ s2c' = s2c
          BY <3>4, Zenon DEF Took1
        <4> DEFINE x == [tag |-> e.tag, msg |-> m, unix |-> sv.unix]
        <4>2. x.tag = e.tag
          OBVIOUS
        <4> HIDE DEF x, e
        <4>3. work' = work \cup {x}
          BY <4>1 DEF x
        <4>4. /\ Absent(work, g) /\ e.tag # g => Absent(work', g)
              /\ Single(work, g) /\ e.tag # g => Single(work', g)
              /\ Absent(work, g) => Single(work', g)
          BY <4>2, <4>3 DEF Absent, Single
        <4>5. CASE e.tag = g
          <5>1. SingleQ(c2s, g) /\ Absent(work, g) /\ Absent(s2c, g)
            BY <3>1, <3>2, <4>5, Zenon DEF Lone
          <5>2. AbsentQ(c2s', g) /\ Single(work', g) /\ Absent(s2c', g)
            BY <2>1, <3>1, <4>1, <4>4, <4>5, <5>1, Zenon
          <5>3. Lone(g)'
            BY <5>2, Zenon DEF Lone, AbsentQ, Single, Absent
          <5>4. ~(cl.reading /\ pc[g] = "idle")
            BY <3>1, <3>2, <4>5, Zenon DEF None
          <5> QED BY <1>1, <5>3, <5>4
        <4>6. CASE e.tag # g
          <5>1. /\ AbsentQ(c2s, g) => AbsentQ(c2s', g)
                /\ SingleQ(c2s, g) => SingleQ(c2s', g)
                /\ Absent(work, g) => Absent(work', g)
                /\ Single(work, g) => Single(work', g)
            BY <2>1, <3>1, <4>4, <4>6, Zenon
          <5>2. Lone(g)'
            BY <3>2, <4>1, <5>1, Zenon DEF Lone, AbsentQ, SingleQ, Absent, Single
          <5>3. cl'.reading /\ pc'[g] = "idle" => None(g)'
            BY <1>1, <3>2, <4>1, <5>1, Zenon DEF None, AbsentQ, Absent
          <5> QED BY <5>2, <5>3
        <4> QED BY <4>5, <4>6
      <3> QED BY <2>1, <3>3, <3>4
    <2> QED BY <2>2, Zenon DEF OneMessage
  <1> QED BY <1>1, <1>2, <1>3


\* The steps of the session keep the invariant.
LEMMA SessionStepKeeps ==
    ASSUME IInv, SessionStep
    PROVE  IInv'
  <1>0. SessionInv /\ CallsInv /\ OneMessage /\ Served
    BY DEF IInv
  <1>1. /\ fs' = fs /\ fids' = fids /\ offset' = offset /\ mu' = mu /\ pc' = pc /\ job' = job
        /\ begun' = begun /\ opened' = opened /\ returned' = returned
    BY DEF SessionStep, ioVars
  <1>2. ASSUME SessionInv', OneMessage', cl.pc = "up" => cl'.pc = "up"
        PROVE  IInv'
    <2>1. Jobs' /\ Lock' /\ StartsAlone' /\ Offset' /\ Counts'
      <3>1. Jobs /\ Lock /\ StartsAlone /\ Offset /\ Counts
        BY <1>0 DEF CallsInv
      <3>2. Jobs'
        BY <1>1, <3>1, Zenon DEF Jobs
      <3> QED BY <1>1, <3>1, <3>2, Zenon DEF Lock, StartsAlone, Offset, Counts
    <2>2. Quiet'
      BY <1>0, <1>1, <1>2, Zenon DEF CallsInv, Quiet
    <2>3. Served'
      BY <1>0, <1>1, Zenon DEF Served, Fids, Tree, Node, Kids
    <2> QED BY <1>2, <2>1, <2>2, <2>3, Zenon DEF IInv, CallsInv
  <1>3. ASSUME NEW q, NEW w, NEW s, q = c2s', w = work', s = s2c',
               q = <<>> \/ \E x : q = <<x>> /\ x.tag = NoTag, w = {}, \A x \in s : x.tag = NoTag
        PROVE  OneMessage'
    <2>1. ASSUME NEW g \in Procs PROVE None(g)'
      <3>1. AbsentQ(q, g) /\ Absent(w, g) /\ Absent(s, g)
        BY <1>3, HandshakeNone
      <3> QED BY <1>3, <3>1, Zenon DEF None, AbsentQ, Absent
    <2>2. ASSUME NEW g \in Procs PROVE Lone(g)'
      BY <2>1, Zenon DEF None, Lone, AbsentQ, SingleQ
    <2> QED BY <2>1, <2>2, Zenon DEF OneMessage
  <1>4. CASE NewClient
    <2>1. SessionInv' /\ cl'.pc = "version" /\ cl.pc # "up"
      BY <1>0, <1>4, NewClientSession DEF NewClient
    <2>2. c2s' = <<Question'>> /\ work' = {} /\ s2c' = {}
      <3>1. Versioning'
        BY <2>1 DEF SessionInv
      <3>2. s2c' = {} /\ work' = {}
        BY <1>0, <1>4 DEF SessionInv, Unversioned, Silent, NewClient
      <3>3. sv'.pc # "closed"
        BY <1>0, <1>4 DEF SessionInv, Unversioned, NewClient
      <3>4. \A x : {x} # {}
        OBVIOUS
      <3> QED BY <2>1, <3>1, <3>2, <3>3, <3>4, Zenon DEF Versioning, Answered
    <2>3. OneMessage'
      BY <1>3, <2>2, QuestionTag
    <2> QED BY <1>2, <2>1, <2>3
  <1>5. CASE ReadVersion
    <2>1. /\ SessionInv' /\ cl.pc = "version" /\ s2c' = {} /\ work' = {}
          /\ c2s' = <<>> \/ c2s' = <<Question'>>
      BY <1>0, <1>5, ReadVersionSession
    <2>2. OneMessage'
      BY <1>3, <2>1, QuestionTag
    <2> QED BY <1>2, <2>1, <2>2
  <1>6. CASE ReadFails
    <2>1. /\ SessionInv' /\ ~cl'.reading /\ (cl.pc = "up" <=> cl'.pc = "up")
          /\ c2s' = c2s /\ work' = work /\ s2c' \subseteq s2c
      BY <1>0, <1>6, ReadFailsSession
    <2>2. ASSUME NEW g \in Procs PROVE Lone(g)'
      <3>1. Lone(g)
        BY <1>0, Zenon DEF OneMessage
      <3>2. \A e \in s2c' : e \in s2c
        BY <2>1
      <3> QED BY <2>1, <3>1, <3>2, Zenon DEF Lone, AbsentQ, SingleQ, Absent, Single
    <2>3. OneMessage'
      BY <2>1, <2>2, Zenon DEF OneMessage
    <2> QED BY <1>2, <2>1, <2>3
  <1>7. CASE Serve
    <2>1. SessionInv' /\ cl' = cl
      BY <1>0, <1>7, ServeSession
    <2>2. OneMessage'
      BY <1>0, <1>1, <1>7, ServeOne
    <2> QED BY <1>2, <2>1, <2>2
  <1> QED BY <1>4, <1>5, <1>6, <1>7 DEF SessionStep


-----------------------------------------------------------------------------
(***************************************************************************)
(* The handlers.                                                           *)
(***************************************************************************)

\* What a handler leaves and replies.
Outcome(h, max) ==
    \E t, f, r : h = Handled(t, f, r) /\ Grown(fs, t) /\ Fids(f, t) /\ r \in Replies(max)

LEMMA ServedParts ==
    ASSUME Served
    PROVE  /\ Len(fs) \in Nat /\ Len(fs) >= 2 /\ Grown(fs, fs) /\ Fids(fids, fs)
           /\ \A x \in DOMAIN fids : fids[x] \in 1..Len(fs)
  BY DEF Served, Fids, Tree, Grown

LEMMA FidsEdits ==
    ASSUME Served, NEW t, Grown(fs, t)
    PROVE  /\ Fids(fids, t)
           /\ \A x : \A n \in 1..Len(t) : Fids(bound(x, n), t)
           /\ \A x : Fids(unbound(x), t)
  <1>1. \A n \in 1..Len(fs) : n \in 1..Len(t)
    <2>1. Len(fs) \in Nat /\ Len(t) \in Nat /\ Len(fs) <= Len(t)
      BY ServedParts DEF Grown, Tree
    <2> QED BY <2>1
  <1>2. fids = [x \in DOMAIN fids |-> fids[x]] /\ \A x \in DOMAIN fids : fids[x] \in 1..Len(t)
    BY <1>1, Zenon DEF Served, Fids
  <1>3. ASSUME NEW x, NEW n \in 1..Len(t) PROVE Fids(bound(x, n), t)
    BY <1>2 DEF Fids, bound
  <1>4. ASSUME NEW x PROVE Fids(unbound(x), t)
    BY <1>2 DEF Fids, unbound
  <1> QED BY <1>2, <1>3, <1>4, Zenon DEF Fids

\* A reply that is not about data.
LEMMA ReplyMade ==
    ASSUME NEW t \in ReplyTypes \ {"Rread", "Rwrite"}, NEW A, NEW vals \in Seq(A), NEW max,
           WellFormed(Msg(t, vals))
    PROVE  Msg(t, vals) \in Replies(max)
  <1> DEFINE m == Msg(t, vals)
  <1>1. m \in Messages
    BY MessageMade, Zenon
  <1>2. type(m) = t
    BY MsgParts, Zenon
  <1>3. t \notin IOTypes /\ t \in ReplyTypes
    BY DEF IOTypes, ReplyTypes
  <1> HIDE DEF m
  <1>4. Ranged(m, max)
    BY <1>2, <1>3, Zenon DEF Ranged, IOTypes
  <1> QED BY <1>1, <1>2, <1>3, <1>4, Zenon DEF Replies, m

LEMMA ErrorReply ==
    ASSUME NEW len \in Nat, NEW max
    PROVE  Msg("Rerror", <<len>>) \in Replies(max)
  <1>1. newMessage(TRUE)["Rerror"] = <<"str">> /\ "Rerror" \in Types
    BY MessageTable DEF Types, SessionTypes
  <1>2. WellFormed(Msg("Rerror", <<len>>))
    <2>1. "str" \in FieldKinds /\ len \in FieldOf("str")
      BY KindsHold
    <2> QED BY <1>1, <2>1, Message1
  <1>3. <<len>> \in Seq(Nat) /\ "Rerror" \in ReplyTypes \ {"Rread", "Rwrite"}
    BY DEF ReplyTypes
  <1> QED BY <1>2, <1>3, ReplyMade, Zenon

LEMMA ErrorOutcome ==
    ASSUME Served, NEW len \in Nat, NEW max
    PROVE  Outcome(errReply(len), max)
  BY ServedParts, ErrorReply, Zenon DEF Outcome, errReply

\* Replies without arguments, and with a qid.
LEMMA BareReply ==
    ASSUME NEW t \in {"Rflush", "Rclunk", "Rremove", "Rwstat"}, NEW max
    PROVE  Msg(t, <<>>) \in Replies(max)
  <1>1. newMessage(TRUE)[t] = <<>> /\ t \in Types
    BY MessageTable DEF Types, SessionTypes, FileTypes
  <1>2. WellFormed(Msg(t, <<>>))
    BY <1>1, Message0
  <1>3. <<>> \in Seq(Nat) /\ t \in ReplyTypes \ {"Rread", "Rwrite"}
    BY DEF ReplyTypes
  <1> QED BY <1>2, <1>3, ReplyMade, Zenon

LEMMA QidReply ==
    ASSUME NEW q \in Qids, NEW max
    PROVE  /\ Msg("Rattach", <<q>>) \in Replies(max)
           /\ \A n \in Nat : \A t \in {"Ropen", "Rcreate"} : Msg(t, <<q, n>>) \in Replies(max)
  <1>0. "qid" \in FieldKinds /\ q \in FieldOf("qid") /\ "u32" \in FieldKinds /\ FieldOf("u32") = Int
    BY KindsHold
  <1>1. Msg("Rattach", <<q>>) \in Replies(max)
    <2>1. newMessage(TRUE)["Rattach"] = <<"qid">> /\ "Rattach" \in Types
      BY MessageTable DEF Types, SessionTypes
    <2>2. WellFormed(Msg("Rattach", <<q>>))
      BY <1>0, <2>1, Message1
    <2>3. <<q>> \in Seq(Qids) /\ "Rattach" \in ReplyTypes \ {"Rread", "Rwrite"}
      BY DEF ReplyTypes
    <2> QED BY <2>2, <2>3, ReplyMade, Zenon
  <1>2. ASSUME NEW n \in Nat, NEW t \in {"Ropen", "Rcreate"}
        PROVE  Msg(t, <<q, n>>) \in Replies(max)
    <2>1. newMessage(TRUE)[t] = <<"qid", "u32">> /\ t \in Types
      BY MessageTable DEF Types, TreeTypes
    <2>2. WellFormed(Msg(t, <<q, n>>))
      <3>1. n \in FieldOf("u32")
        BY <1>0
      <3> QED BY <1>0, <2>1, <3>1, Message2
    <2>3. <<q, n>> \in Seq(Qids \cup Nat) /\ t \in ReplyTypes \ {"Rread", "Rwrite"}
      BY DEF ReplyTypes
    <2> QED BY <2>2, <2>3, ReplyMade, Zenon
  <1> QED BY <1>1, <1>2


\* The arguments of a request.
LEMMA ArgKinds ==
    ASSUME NEW m \in Messages
    PROVE  /\ type(m) = "Twalk"   => arg(m)[3] \in Seq(Nat) /\ Len(arg(m)[3]) <= MaxWElem
           /\ type(m) = "Tcreate" => arg(m)[2] \in Nat /\ arg(m)[5] \in Nat
           /\ type(m) = "Twrite"  => arg(m)[3] \in Bytes
           /\ type(m) = "Rread"   => arg(m)[1] \in Bytes
           /\ type(m) = "Rstat"   => arg(m)[1] \in Stats
           /\ type(m) = "Twstat"  => arg(m)[2] \in Stats
  <1> DEFINE t == type(m)
             a == arg(m)
  <1>0. a \in Contents(t)
    BY MessageGives, Zenon
  <1>1. Len(a) = Len(newMessage(TRUE)[t]) /\ \A i \in 1..Len(a) : a[i] \in FieldOf(newMessage(TRUE)[t][i])
    BY <1>0, Zenon DEF Contents
  <1>2. /\ newMessage(TRUE)["Twalk"] = <<"u32", "u32", "names">>
        /\ newMessage(TRUE)["Tcreate"] = <<"u32", "str", "u32", "u8", "str">>
        /\ newMessage(TRUE)["Twrite"] = <<"u32", "u64", "data">>
        /\ newMessage(TRUE)["Rread"] = <<"data">>
        /\ newMessage(TRUE)["Rstat"] = <<"stat">>
        /\ newMessage(TRUE)["Twstat"] = <<"u32", "stat">>
    BY MessageTable, MessageFields
  <1> HIDE DEF a, t
  <1>11. \A k : t = k => \A i \in 1..Len(newMessage(TRUE)[k]) : a[i] \in FieldOf(newMessage(TRUE)[k][i])
    BY <1>1, Zenon
  <1>3. t = "Twalk" => a[3] \in FieldOf("names")
    <2> DEFINE f == <<"u32", "u32", "names">>
    <2>1. 3 \in 1..Len(f) /\ f[3] = "names"
      OBVIOUS
    <2> HIDE DEF f
    <2>2. newMessage(TRUE)["Twalk"] = f
      BY <1>2 DEF f
    <2> QED BY <1>11, <2>1, <2>2, Zenon
  <1>4. t = "Tcreate" => a[2] \in FieldOf("str") /\ a[5] \in FieldOf("str")
    <2> DEFINE f == <<"u32", "str", "u32", "u8", "str">>
    <2>1. 2 \in 1..Len(f) /\ f[2] = "str" /\ 5 \in 1..Len(f) /\ f[5] = "str"
      OBVIOUS
    <2> HIDE DEF f
    <2>2. newMessage(TRUE)["Tcreate"] = f
      BY <1>2 DEF f
    <2> QED BY <1>11, <2>1, <2>2, Zenon
  <1>5. t = "Twrite" => a[3] \in FieldOf("data")
    <2> DEFINE f == <<"u32", "u64", "data">>
    <2>1. 3 \in 1..Len(f) /\ f[3] = "data"
      OBVIOUS
    <2> HIDE DEF f
    <2>2. newMessage(TRUE)["Twrite"] = f
      BY <1>2 DEF f
    <2> QED BY <1>11, <2>1, <2>2, Zenon
  <1>6. t = "Rread" => a[1] \in FieldOf("data")
    <2> DEFINE f == <<"data">>
    <2>1. 1 \in 1..Len(f) /\ f[1] = "data"
      OBVIOUS
    <2> HIDE DEF f
    <2>2. newMessage(TRUE)["Rread"] = f
      BY <1>2 DEF f
    <2> QED BY <1>11, <2>1, <2>2, Zenon
  <1>7. t = "Rstat" => a[1] \in FieldOf("stat")
    <2> DEFINE f == <<"stat">>
    <2>1. 1 \in 1..Len(f) /\ f[1] = "stat"
      OBVIOUS
    <2> HIDE DEF f
    <2>2. newMessage(TRUE)["Rstat"] = f
      BY <1>2 DEF f
    <2> QED BY <1>11, <2>1, <2>2, Zenon
  <1>8. t = "Twstat" => a[2] \in FieldOf("stat")
    <2> DEFINE f == <<"u32", "stat">>
    <2>1. 2 \in 1..Len(f) /\ f[2] = "stat"
      OBVIOUS
    <2> HIDE DEF f
    <2>2. newMessage(TRUE)["Twstat"] = f
      BY <1>2 DEF f
    <2> QED BY <1>11, <2>1, <2>2, Zenon
  <1>9. FieldOf("names") = {v \in Seq(Nat) : Len(v) <= MaxWElem}
    BY KindsHold, Zenon DEF ListOf
  <1>10. /\ t = "Twalk"   => a[3] \in Seq(Nat) /\ Len(a[3]) <= MaxWElem
         /\ t = "Tcreate" => a[2] \in Nat /\ a[5] \in Nat
         /\ t = "Twrite"  => a[3] \in Bytes
         /\ t = "Rread"   => a[1] \in Bytes
         /\ t = "Rstat"   => a[1] \in Stats
         /\ t = "Twstat"  => a[2] \in Stats
    BY <1>3, <1>4, <1>5, <1>6, <1>7, <1>8, <1>9, KindsHold, Zenon
  <1> QED BY <1>10 DEF a, t

\* The handlers that the file system has little part in.
LEMMA PlainHandlers ==
    ASSUME Served, NEW m, NEW max
    PROVE  /\ Outcome(tAttach(m), max) /\ Outcome(tClunk(m), max)
           /\ Outcome(Handled(fs, fids, Msg("Rflush", <<>>)), max)
           /\ arg(m)[1] \in DOMAIN fids => Outcome(tStat(m), max)
  <1>0. Grown(fs, fs) /\ Fids(fids, fs) /\ Tree(fs) /\ rootPath \in 1..Len(fs)
    BY ServedParts DEF rootPath, Served
  <1>1. Outcome(tAttach(m), max)
    <2>1. Fids(bound(arg(m)[1], rootPath), fs)
      BY <1>0, FidsEdits, Zenon
    <2>2. Qid(fs, rootPath) \in Qids
      BY <1>0, QidType, Zenon
    <2>3. Msg("Rattach", <<Qid(fs, rootPath)>>) \in Replies(max)
      BY <2>2, QidReply, Zenon
    <2> QED BY <1>0, <2>1, <2>3, Zenon DEF Outcome, tAttach
  <1>2. Outcome(tClunk(m), max)
    <2>1. Fids(unbound(arg(m)[1]), fs)
      BY <1>0, FidsEdits, Zenon
    <2>2. Msg("Rclunk", <<>>) \in Replies(max)
      BY BareReply, Zenon
    <2> QED BY <1>0, <2>1, <2>2, Zenon DEF Outcome, tClunk
  <1>3. Outcome(Handled(fs, fids, Msg("Rflush", <<>>)), max)
    <2>2. Msg("Rflush", <<>>) \in Replies(max)
      BY BareReply, Zenon
    <2> QED BY <1>0, <2>2, Zenon DEF Outcome
  <1>4. ASSUME arg(m)[1] \in DOMAIN fids PROVE Outcome(tStat(m), max)
    <2> DEFINE s == statLocked(fs, fids[arg(m)[1]])
    <2>1. s \in Stats
      BY <1>0, <1>4, ServedParts, StatType, Zenon
    <2> HIDE DEF s
    <2>2. newMessage(TRUE)["Rstat"] = <<"stat">> /\ "Rstat" \in Types
      BY MessageFields DEF Types
    <2>3. WellFormed(Msg("Rstat", <<s>>))
      <3>1. "stat" \in FieldKinds /\ s \in FieldOf("stat")
        BY <2>1, KindsHold, Zenon
      <3> QED BY <2>2, <3>1, Message1
    <2>4. <<s>> \in Seq(Stats) /\ "Rstat" \in ReplyTypes \ {"Rread", "Rwrite"}
      <3>1. \A S : \A x \in S : <<x>> \in Seq(S)
        OBVIOUS
      <3>2. "Rstat" \in ReplyTypes \ {"Rread", "Rwrite"}
        BY DEF ReplyTypes
      <3> QED BY <2>1, <3>1, <3>2, Zenon
    <2>5. Msg("Rstat", <<s>>) \in Replies(max)
      BY <2>3, <2>4, ReplyMade, Zenon
    <2> QED BY <1>0, <2>5, Zenon DEF Outcome, tStat, s
  <1> QED BY <1>1, <1>2, <1>3, <1>4

\* What the file system returned, as a handler passes it on.
LEMMA OutcomeParts ==
    /\ \A len : ~Failure(len).ok /\ Failure(len).err = len
    /\ \A t, v : Result(t, v).ok /\ Result(t, v).fs = t /\ Result(t, v).val = v
    /\ \A t, f, m : Handled(t, f, m).fs = t /\ Handled(t, f, m).fids = f /\ Handled(t, f, m).reply = m
  BY DEF Failure, Result, Handled

LEMMA PassedOn ==
    ASSUME Served, NEW r, NEW max, NEW v, Failed(r) \/ \E t : Makes(r, fs, t, v), NEW m \in Replies(max)
    PROVE  Outcome(orError(r, fids, m), max)
  <1>1. CASE Failed(r)
    <2>1. PICK len \in Nat : r = Failure(len)
      BY <1>1 DEF Failed
    <2>2. orError(r, fids, m) = errReply(len)
      BY <2>1, OutcomeParts, Zenon DEF orError
    <2> QED BY <2>2, ErrorOutcome, Zenon
  <1>2. ASSUME NEW t, Makes(r, fs, t, v) PROVE Outcome(orError(r, fids, m), max)
    <2>1. r = Result(t, v) /\ Grown(fs, t)
      BY <1>2 DEF Makes
    <2>2. orError(r, fids, m) = Handled(t, fids, m)
      BY <2>1, OutcomeParts, Zenon DEF orError
    <2> QED BY <2>1, <2>2, FidsEdits, Zenon DEF Outcome
  <1> QED BY <1>1, <1>2

Added(r) == Failed(r) \/ \E t : Makes(r, fs, t, Len(fs) + 1) /\ Len(t) = Len(fs) + 1

LEMMA AddedChild ==
    ASSUME Tree(fs), NEW n \in 1..Len(fs), NEW name \in Nat, NEW dir \in BOOLEAN, NEW target \in Nat
    PROVE  Added(addChild(fs, n, name, dir, target))
  BY AddOutcome DEF Added

LEMMA TreeHandlers ==
    ASSUME Served, NEW m \in Messages, NEW max, arg(m)[1] \in DOMAIN fids, sc \in Scenarios
    PROVE  /\ Outcome(tOpen(m), max)
           /\ type(m) = "Twstat" => Outcome(tWstat(m), max)
           /\ Outcome(tRemove(m), max)
           /\ type(m) = "Tcreate" => Outcome(tCreate(m), max)
  <1> DEFINE n == fids[arg(m)[1]]
  <1>0. Grown(fs, fs) /\ Tree(fs) /\ n \in 1..Len(fs)
    BY ServedParts DEF Served
  <1> HIDE DEF n
  <1>1. Outcome(tOpen(m), max)
    <2>1. Failed(Open(fs, n, FALSE)) \/ \E t : Makes(Open(fs, n, FALSE), fs, t, n)
      BY <1>0, OpenOutcome, Zenon DEF Makes
    <2>2. sc.iounit \in Nat
      BY CallsAssumption
    <2>3. Qid(fs, n) \in Qids
      BY <1>0, QidType, Zenon
    <2>4. Msg("Ropen", <<Qid(fs, n), sc.iounit>>) \in Replies(max)
      BY <2>2, <2>3, QidReply, Zenon
    <2> QED BY <2>1, <2>4, PassedOn, Zenon DEF tOpen, n
  <1>2. ASSUME type(m) = "Twstat" PROVE Outcome(tWstat(m), max)
    <2>1. arg(m)[2] \in Stats
      BY <1>2, ArgKinds, Zenon
    <2> DEFINE r == WStat(fs, n, arg(m)[2])
    <2>2. Failed(r) \/ \E t : Makes(r, fs, t, n)
      BY <1>0, <2>1, WStatOutcome, Zenon
    <2> HIDE DEF r
    <2>3. Msg("Rwstat", <<>>) \in Replies(max)
      BY BareReply, Zenon
    <2>4. Outcome(orError(r, fids, Msg("Rwstat", <<>>)), max)
      BY <2>2, <2>3, PassedOn, Zenon
    <2> QED BY <2>4, Zenon DEF tWstat, r, n
  <1>3. Outcome(tRemove(m), max)
    <2> DEFINE r == RemoveNode(fs, n)
               o == orError(r, fids, Msg("Rremove", <<>>))
    <2>1. Failed(r) \/ \E t : Makes(r, fs, t, n)
      BY <1>0, RemoveOutcome, Zenon
    <2> HIDE DEF r
    <2>2. Msg("Rremove", <<>>) \in Replies(max)
      BY BareReply, Zenon
    <2>3. Outcome(o, max)
      BY <2>1, <2>2, PassedOn, Zenon
    <2> HIDE DEF o
    <2>4. PICK t, f, p : o = Handled(t, f, p) /\ Grown(fs, t) /\ p \in Replies(max)
      BY <2>3, Zenon DEF Outcome
    <2>5. tRemove(m) = [o EXCEPT !.fids = unbound(arg(m)[1])]
      BY Zenon DEF tRemove, o, r, n
    <2>6. [o EXCEPT !.fids = unbound(arg(m)[1])] = Handled(t, unbound(arg(m)[1]), p)
      BY <2>4 DEF Handled
    <2>7. Fids(unbound(arg(m)[1]), t)
      BY <2>4, FidsEdits, Zenon
    <2> QED BY <2>4, <2>5, <2>6, <2>7, Zenon DEF Outcome
  <1>4. ASSUME type(m) = "Tcreate" PROVE Outcome(tCreate(m), max)
    <2>1. arg(m)[2] \in Nat /\ arg(m)[5] \in Nat
      BY <1>4, ArgKinds, Zenon
    <2> DEFINE r == IF sv.unix /\ arg(m)[3] = DMSYMLINK
                    THEN Symlink(fs, n, arg(m)[2], arg(m)[5])
                    ELSE Create(fs, n, arg(m)[2], arg(m)[3] = DMDIR)
    <2>2. Added(r)
      <3>1. CASE sv.unix /\ arg(m)[3] = DMSYMLINK
        <4>1. r = addChild(fs, n, arg(m)[2], FALSE, arg(m)[5])
          BY <3>1, Zenon DEF Symlink
        <4> HIDE DEF r
        <4>2. FALSE \in BOOLEAN
          BY Zenon
        <4> QED BY <1>0, <2>1, <4>1, <4>2, AddedChild, Zenon
      <3>2. CASE ~(sv.unix /\ arg(m)[3] = DMSYMLINK)
        <4>0. PICK d \in BOOLEAN : d = (arg(m)[3] = DMDIR)
          BY Zenon
        <4>1. r = addChild(fs, n, arg(m)[2], d, 0)
          BY <3>2, <4>0, Zenon DEF Create
        <4> HIDE DEF r
        <4>2. 0 \in Nat
          OBVIOUS
        <4> QED BY <1>0, <2>1, <4>1, <4>2, AddedChild, Zenon
      <3> QED BY <3>1, <3>2
    <2>3. tCreate(m) = IF r.ok THEN Handled(r.fs, bound(arg(m)[1], r.val),
                                            Msg("Rcreate", <<Qid(r.fs, r.val), 0>>))
                       ELSE errReply(r.err)
      BY Zenon DEF tCreate, n
    <2> HIDE DEF r
    <2>4. CASE Failed(r)
      <3>1. PICK len \in Nat : r = Failure(len)
        BY <2>4 DEF Failed
      <3>2. tCreate(m) = errReply(len)
        BY <2>3, <3>1, OutcomeParts, Zenon
      <3> QED BY <3>2, ErrorOutcome, Zenon
    <2>5. ASSUME NEW t, Makes(r, fs, t, Len(fs) + 1), Len(t) = Len(fs) + 1
          PROVE  Outcome(tCreate(m), max)
      <3> DEFINE k == Len(fs) + 1
      <3>1. r = Result(t, k) /\ Grown(fs, t) /\ k \in 1..Len(t) /\ Tree(t)
        <4>1. Len(fs) \in Nat
          BY ServedParts
        <4>2. k \in 1..Len(t)
          BY <2>5, <4>1
        <4> QED BY <2>5, <4>2 DEF Makes, Grown
      <3> HIDE DEF k
      <3>2. tCreate(m) = Handled(t, bound(arg(m)[1], k), Msg("Rcreate", <<Qid(t, k), 0>>))
        <4>1. r.ok /\ r.fs = t /\ r.val = k
          BY <3>1, OutcomeParts, ZenonT(60)
        <4> QED BY <2>3, <4>1
      <3>3. Fids(bound(arg(m)[1], k), t)
        BY <3>1, FidsEdits, Zenon
      <3>4. Qid(t, k) \in Qids /\ 0 \in Nat
        BY <3>1, QidType
      <3>5. Msg("Rcreate", <<Qid(t, k), 0>>) \in Replies(max)
        BY <3>4, QidReply, Zenon
      <3> QED BY <3>1, <3>2, <3>3, <3>5, Zenon DEF Outcome
    <2> QED BY <2>2, <2>4, <2>5 DEF Added
  <1> QED BY <1>1, <1>2, <1>3, <1>4


LEMMA DataReply ==
    ASSUME NEW max \in Nat
    PROVE  /\ \A b \in Bytes : Size(b) <= max => Msg("Rread", <<b>>) \in Replies(max)
           /\ \A n \in Nat : Msg("Rwrite", <<n>>) \in Replies(max)
  <1>0. \A S : \A x \in S : <<x>> \in Seq(S) /\ <<x>>[1] = x
    OBVIOUS
  <1>1. ASSUME NEW b \in Bytes, Size(b) <= max PROVE Msg("Rread", <<b>>) \in Replies(max)
    <2> DEFINE m == Msg("Rread", <<b>>)
    <2>1. newMessage(TRUE)["Rread"] = <<"data">> /\ "Rread" \in Types
      BY MessageTable DEF Types, FileTypes
    <2>2. WellFormed(m)
      <3>1. "data" \in FieldKinds /\ b \in FieldOf("data")
        BY KindsHold, Zenon
      <3> QED BY <2>1, <3>1, Message1
    <2>3. type(m) = "Rread" /\ arg(m) = <<b>>
      BY <1>0, MsgParts, Zenon
    <2>4. m \in Messages
      BY <2>2, MessageMade, Zenon
    <2> HIDE DEF m
    <2>5. Ranged(m, max)
      <3>1. Size(arg(m)[1]) <= max
        BY <1>0, <1>1, <2>3, Zenon
      <3> QED BY <2>3, <3>1 DEF Ranged
    <2>6. "Rread" \in ReplyTypes
      BY DEF ReplyTypes
    <2> QED BY <2>3, <2>4, <2>5, <2>6, Zenon DEF Replies, m
  <1>2. ASSUME NEW n \in Nat PROVE Msg("Rwrite", <<n>>) \in Replies(max)
    <2> DEFINE m == Msg("Rwrite", <<n>>)
    <2>1. newMessage(TRUE)["Rwrite"] = <<"u32">> /\ "Rwrite" \in Types
      BY MessageTable DEF Types, FileTypes
    <2>2. WellFormed(m)
      <3>1. "u32" \in FieldKinds /\ n \in FieldOf("u32")
        BY KindsHold
      <3> QED BY <2>1, <3>1, Message1
    <2>3. type(m) = "Rwrite" /\ arg(m) = <<n>>
      BY <1>0, MsgParts, Zenon
    <2>4. m \in Messages
      BY <2>2, MessageMade, Zenon
    <2> HIDE DEF m
    <2>5. Ranged(m, max)
      <3>1. arg(m)[1] \in Nat
        BY <1>0, <1>2, <2>3, Zenon
      <3> QED BY <2>3, <3>1 DEF Ranged
    <2>6. "Rwrite" \in ReplyTypes
      BY DEF ReplyTypes
    <2> QED BY <2>3, <2>4, <2>5, <2>6, Zenon DEF Replies, m
  <1> QED BY <1>1, <1>2

\* A read's outcome in one predicate.
ReadsUpTo(r, count) == Failed(r) \/ \E f : \E b \in Bytes : r = Result(f, b) /\ Size(b) <= count

LEMMA ReadsUp ==
    ASSUME Tree(fs), NEW n \in 1..Len(fs), NEW offset0 \in Nat, NEW count \in Nat, NEW unix \in BOOLEAN
    PROVE  ReadsUpTo(Read(fs, n, offset0, count, unix), count)
  <1>1. LET r == Read(fs, n, offset0, count, unix)
        IN  Failed(r) \/ \E f : \E b \in Bytes : r = Result(f, b) /\ Size(b) <= count
    BY ReadOutcome
  <1> QED BY <1>1, Zenon DEF ReadsUpTo

LEMMA DataHandlers ==
    ASSUME Served, NEW max \in Nat, NEW m \in Requests(max), arg(m)[1] \in DOMAIN fids,
           NEW unix \in BOOLEAN
    PROVE  /\ type(m) = "Tread" => Outcome(tRead(m, unix), max)
           /\ type(m) = "Twrite" => Outcome(tWrite(m), max)
  <1> DEFINE n == fids[arg(m)[1]]
  <1>0. Grown(fs, fs) /\ Tree(fs) /\ n \in 1..Len(fs) /\ Fids(fids, fs)
    BY ServedParts DEF Served
  <1>1. m \in Messages /\ Ranged(m, max)
    BY Zenon DEF Requests
  <1> HIDE DEF n
  <1>2. ASSUME type(m) = "Tread" PROVE Outcome(tRead(m, unix), max)
    <2>1. arg(m)[2] \in Nat /\ arg(m)[3] \in 0..max
      BY <1>1, <1>2, Zenon DEF Ranged
    <2> DEFINE count == arg(m)[3]
               r == Read(fs, n, arg(m)[2], count, unix)
    <2>2. count \in Nat /\ count <= max
      BY <2>1
    <2> HIDE DEF count
    <2>3. ReadsUpTo(r, count)
      BY <1>0, <2>1, <2>2, ReadsUp, Zenon
    <2>4. tRead(m, unix) = IF r.ok THEN Handled(fs, fids, Msg("Rread", <<r.val>>)) ELSE errReply(r.err)
      BY Zenon DEF tRead, n, count
    <2> HIDE DEF r
    <2>5. CASE Failed(r)
      <3>1. PICK len \in Nat : r = Failure(len)
        BY <2>5 DEF Failed
      <3>2. tRead(m, unix) = errReply(len)
        BY <2>4, <3>1, OutcomeParts, Zenon
      <3> QED BY <3>2, ErrorOutcome, Zenon
    <2>6. ASSUME NEW f, NEW b \in Bytes, r = Result(f, b), Size(b) <= count
          PROVE  Outcome(tRead(m, unix), max)
      <3>1. r.ok /\ r.val = b
        BY <2>6, OutcomeParts, ZenonT(60)
      <3>2. tRead(m, unix) = Handled(fs, fids, Msg("Rread", <<b>>))
        BY <2>4, <3>1
      <3>3. Size(b) <= max
        <4>1. Size(b) \in Nat
          BY SizeType, Zenon
        <4> QED BY <2>2, <2>6, <4>1
      <3>4. Msg("Rread", <<b>>) \in Replies(max)
        BY <3>3, DataReply, Zenon
      <3> QED BY <1>0, <3>2, <3>4, Zenon DEF Outcome
    <2> QED BY <2>3, <2>5, <2>6 DEF ReadsUpTo
  <1>3. ASSUME type(m) = "Twrite" PROVE Outcome(tWrite(m), max)
    <2>1. arg(m)[2] \in Nat /\ arg(m)[3] \in Bytes
      BY <1>1, <1>3, ArgKinds, Zenon DEF Ranged
    <2> DEFINE data == [i \in DOMAIN arg(m)[3] |-> arg(m)[3][i].v]
               r == Write(fs, n, arg(m)[2], data)
    <2>2. data \in Seq(Int) /\ Len(data) \in Nat
      <3> DEFINE B == arg(m)[3]
      <3>1. B \in Bytes
        BY <2>1
      <3> HIDE DEF B
      <3>2. Len(B) \in Nat /\ DOMAIN B = 1..Len(B) /\ \A i \in 1..Len(B) : B[i].v \in Int
        BY <3>1, RunAt, Zenon
      <3>3. [i \in DOMAIN B |-> B[i].v] \in Seq(Int)
        BY <3>2
      <3> HIDE DEF data
      <3>4. data \in Seq(Int)
        BY <3>3, Zenon DEF B, data
      <3> QED BY <3>4
    <2>4. tWrite(m) = IF r.ok THEN Handled(r.fs, fids, Msg("Rwrite", <<r.val>>)) ELSE errReply(r.err)
      BY Zenon DEF tWrite, n
    <2> HIDE DEF data
    <2>3. Failed(r) \/ \E t : Makes(r, fs, t, Len(data))
      BY <1>0, <2>1, <2>2, WriteOutcome
    <2> HIDE DEF r
    <2>5. CASE Failed(r)
      <3>1. PICK len \in Nat : r = Failure(len)
        BY <2>5 DEF Failed
      <3>2. tWrite(m) = errReply(len)
        BY <2>4, <3>1, OutcomeParts, Zenon
      <3> QED BY <3>2, ErrorOutcome, Zenon
    <2>6. ASSUME NEW t, Makes(r, fs, t, Len(data))
          PROVE  Outcome(tWrite(m), max)
      <3>0. r = Result(t, Len(data)) /\ Grown(fs, t)
        BY <2>6 DEF Makes
      <3>1. r.ok /\ r.val = Len(data) /\ r.fs = t
        BY <3>0, OutcomeParts, ZenonT(60)
      <3>2. tWrite(m) = Handled(t, fids, Msg("Rwrite", <<Len(data)>>))
        BY <2>4, <3>1
      <3>3. Fids(fids, t)
        BY <3>0, FidsEdits, Zenon
      <3>4. Msg("Rwrite", <<Len(data)>>) \in Replies(max)
        BY <2>2, DataReply, Zenon
      <3> QED BY <3>0, <3>2, <3>3, <3>4, Zenon DEF Outcome
    <2> QED BY <2>3, <2>5, <2>6
  <1> QED BY <1>2, <1>3


\* What a walk is at, name by name: a node, or the error that ended it.
Walked == {Result(fs, v) : v \in 1..Len(fs)} \cup {Failure(len) : len \in Nat}

LEMMA WalkedParts ==
    ASSUME NEW r \in Walked
    PROVE  \/ r.ok /\ r.val \in 1..Len(fs)
           \/ ~r.ok /\ r.err \in Nat
  BY OutcomeParts DEF Walked

walkOn(names, i, r) == IF r.ok THEN Walk(fs, r.val, names[i]) ELSE r

LEMMA WalkOn ==
    ASSUME Served, NEW names \in Seq(Nat), NEW i \in 1..Len(names), NEW r \in Walked
    PROVE  walkOn(names, i, r) \in Walked
  <1>0. Tree(fs) /\ names[i] \in Nat
    BY DEF Served
  <1>1. CASE r.ok
    <2>1. r.val \in 1..Len(fs)
      BY <1>1, WalkedParts
    <2> DEFINE w == Walk(fs, r.val, names[i])
    <2>2. Failed(w) \/ \E v \in 1..Len(fs) : w = Result(fs, v)
      BY <1>0, <2>1, WalkOutcome, Zenon
    <2> HIDE DEF w
    <2>3. w \in Walked
      BY <2>2, Zenon DEF Failed, Walked
    <2>4. walkOn(names, i, r) = w
      BY <1>1 DEF w, walkOn
    <2> QED BY <2>3, <2>4
  <1>2. CASE ~r.ok
    BY <1>2 DEF walkOn
  <1> QED BY <1>1, <1>2

\* The walk is well defined.
LEMMA WalkExists ==
    ASSUME Served, NEW names \in Seq(Nat), NEW v0 \in 1..Len(fs)
    PROVE  \E h : h = [i \in 0..Len(names) |->
                          IF i = 0 THEN Result(fs, v0)
                          ELSE IF h[i - 1].ok THEN Walk(fs, h[i - 1].val, names[i]) ELSE h[i - 1]]
  <1> DEFINE N == Len(names)
             G == [i \in 1..N |-> [r \in Walked |-> walkOn(names, i, r)]]
  <1>1. N \in Nat
    OBVIOUS
  <1>2. Result(fs, v0) \in Walked
    BY Zenon DEF Walked
  <1>3. \A i \in 1..N : \A r \in Walked : walkOn(names, i, r) \in Walked
    BY WalkOn
  <1> HIDE DEF N
  <1>4. G \in [1..N -> [Walked -> Walked]]
    BY <1>3
  <1>5. PICK h \in [0..N -> Walked] : Goes(N, Result(fs, v0), G, h)
    <2> HIDE DEF G
    <2> QED BY <1>1, <1>2, <1>4, StepsExist, Zenon
  <1>6. ASSUME NEW i \in 0..N
        PROVE  h[i] = IF i = 0 THEN Result(fs, v0)
                      ELSE IF h[i - 1].ok THEN Walk(fs, h[i - 1].val, names[i]) ELSE h[i - 1]
    <2>1. CASE i = 0
      BY <1>5, <2>1 DEF Goes
    <2>2. CASE i # 0
      <3>1. i \in 1..N /\ i - 1 \in 0..N
        BY <1>1, <2>2
      <3>2. h[i] = G[i][h[i - 1]] /\ h[i - 1] \in Walked
        BY <1>5, <3>1 DEF Goes
      <3>3. h[i] = walkOn(names, i, h[i - 1])
        BY <3>1, <3>2
      <3> QED BY <2>2, <3>3, Zenon DEF walkOn
    <2> QED BY <2>1, <2>2
  <1>7. h = [i \in 0..N |-> IF i = 0 THEN Result(fs, v0)
                             ELSE IF h[i - 1].ok THEN Walk(fs, h[i - 1].val, names[i]) ELSE h[i - 1]]
    <2>1. h = [i \in 0..N |-> h[i]]
      BY <1>5
    <2> DEFINE H(i) == IF i = 0 THEN Result(fs, v0)
                       ELSE IF h[i - 1].ok THEN Walk(fs, h[i - 1].val, names[i]) ELSE h[i - 1]
    <2>2. \A i \in 0..N : h[i] = H(i)
      BY <1>6
    <2> HIDE DEF H
    <2>3. h = [i \in 0..N |-> H(i)]
      BY <2>1, <2>2
    <2> QED BY <2>3 DEF H
  <1> QED BY <1>7, Zenon DEF N

LEMMA WalkGoes ==
    ASSUME Served, NEW names \in Seq(Nat), NEW v0 \in 1..Len(fs), NEW at,
           at = [i \in 0..Len(names) |->
                    IF i = 0 THEN Result(fs, v0)
                    ELSE IF at[i - 1].ok THEN Walk(fs, at[i - 1].val, names[i]) ELSE at[i - 1]]
    PROVE  /\ at \in [0..Len(names) -> Walked]
           /\ at[0].ok
           /\ \A i \in 1..Len(names) : ~at[i - 1].ok => ~at[i].ok
  <1> DEFINE N == Len(names)
             next(i, r) == IF r.ok THEN Walk(fs, r.val, names[i]) ELSE r
             G == [i \in 1..N |-> [r \in Walked |-> next(i, r)]]
  <1>1. N \in Nat /\ \A i \in 1..N : names[i] \in Nat
    OBVIOUS
  <1> HIDE DEF N
  <1>2. Tree(fs) /\ Result(fs, v0) \in Walked
    BY Zenon DEF Served, Walked
  <1>3. \A i \in 1..N : \A r \in Walked : next(i, r) \in Walked
    BY WalkOn DEF N, walkOn
  <1> HIDE DEF next
  <1>4. G \in [1..N -> [Walked -> Walked]]
    BY <1>3
  <1>5. at[0] = Result(fs, v0) /\ \A i \in 1..N : at[i] = next(i, at[i - 1])
    <2>1. 0 \in 0..N /\ \A i \in 1..N : i \in 0..N /\ i # 0
      BY <1>1
    <2>2. \A i \in 0..N : at[i] = IF i = 0 THEN Result(fs, v0)
                    ELSE IF at[i - 1].ok THEN Walk(fs, at[i - 1].val, names[i]) ELSE at[i - 1]
      BY Zenon DEF N
    <2> QED BY <2>1, <2>2, Zenon DEF next
  <1>6. GoesIn(N, Walked, Result(fs, v0), G, at)
    <2>1. at = [i \in 0..N |-> at[i]]
      BY DEF N
    <2>2. \A i \in 1..N : at[i - 1] \in Walked => at[i] = G[i][at[i - 1]]
      BY <1>5
    <2> QED BY <1>5, <2>1, <2>2, Zenon DEF GoesIn
  <1>7. at \in [0..N -> Walked]
    <2> HIDE DEF G
    <2> QED BY <1>1, <1>2, <1>4, <1>6, StepsStay, Zenon
  <1>8. at[0].ok
    <2>1. at[0] = Result(fs, v0)
      BY <1>5, Zenon
    <2>2. Result(fs, v0).ok
      BY OutcomeParts, Zenon
    <2> HIDE DEF N, G
    <2> QED BY <2>1, <2>2, Zenon
  <1>9. \A i \in 1..N : ~at[i - 1].ok => ~at[i].ok
    BY <1>5, Zenon DEF next
  <1> QED BY <1>7, <1>8, <1>9 DEF N

\* How far the walk got, and that every name before was found.
LEMMA WalkStops ==
    ASSUME NEW N \in Nat, NEW S, NEW at \in [0..N -> S], at[0].ok,
           \A i \in 1..N : ~at[i - 1].ok => ~at[i].ok, NEW n,
           n = CHOOSE i \in 0..N : at[i].ok /\ (i = N \/ ~at[i + 1].ok)
    PROVE  /\ n \in 0..N /\ (n = N \/ ~at[n + 1].ok)
           /\ \A i \in 0..n : at[i].ok
  <1> DEFINE Found == {i \in 0..N : at[i].ok}
  <1>1. Found \in SUBSET (0..N) /\ Found # {}
    <2>1. 0 \in 0..N
      OBVIOUS
    <2> QED BY <2>1
  <1>2. PICK k \in Found : \A j \in Found : j <= k
    <2> HIDE DEF Found
    <2> QED BY <1>1, GreatestExists
  <1>3. k \in 0..N /\ at[k].ok /\ (k = N \/ ~at[k + 1].ok)
    <2>1. ASSUME k # N, at[k + 1].ok PROVE FALSE
      <3>1. k \in 0..N
        BY <1>2
      <3>2. k + 1 \in 0..N /\ ~(k + 1 <= k)
        BY <2>1, <3>1
      <3>3. k + 1 \in Found
        BY <2>1, <3>2
      <3> HIDE DEF Found
      <3> QED BY <1>2, <3>2, <3>3
    <2> QED BY <1>2, <2>1
  <1>4. n \in 0..N /\ at[n].ok /\ (n = N \/ ~at[n + 1].ok)
    BY <1>3, Zenon
  <1>5. ASSUME NEW x \in 0..n, ~at[x].ok PROVE FALSE
    <2> DEFINE Lost == {i \in 0..n : ~at[i].ok}
    <2>1. Lost \in SUBSET (0..n) /\ Lost # {} /\ n \in Nat
      <3>1. x \in Lost
        BY <1>5, Zenon
      <3>2. n \in Nat
        BY <1>4
      <3>3. Lost \in SUBSET (0..n)
        BY Zenon
      <3> QED BY <3>1, <3>2, <3>3, Zenon
    <2>2. PICK l \in Lost : \A j \in Lost : j <= l
      <3> HIDE DEF Lost
      <3> QED BY <2>1, GreatestExists
    <2>3. l \in 0..n /\ ~at[l].ok /\ l # n
      BY <1>4, <2>2
    <2>4. l + 1 \in 1..N /\ l + 1 \in 0..n /\ (l + 1) - 1 = l /\ ~(l + 1 <= l)
      BY <1>4, <2>3
    <2>5. ~at[l + 1].ok
      <3>1. ~at[(l + 1) - 1].ok
        BY <2>3, <2>4
      <3> QED BY <2>4, <3>1, Zenon
    <2>6. l + 1 \in Lost
      BY <2>4, <2>5
    <2> HIDE DEF Lost
    <2> QED BY <2>2, <2>4, <2>6
  <1> QED BY <1>4, <1>5

LEMMA WalkHandler ==
    ASSUME Served, NEW m \in Messages, type(m) = "Twalk", arg(m)[1] \in DOMAIN fids, NEW max
    PROVE  Outcome(tWalk(m), max)
  <1> DEFINE names == arg(m)[3]
             v0 == fids[arg(m)[1]]
             N == Len(names)
             at == CHOOSE at : at = [i \in 0..Len(names) |->
                      IF i = 0 THEN Result(fs, v0)
                      ELSE IF at[i - 1].ok THEN Walk(fs, at[i - 1].val, names[i]) ELSE at[i - 1]]
             n == CHOOSE i \in 0..Len(names) : at[i].ok /\ (i = Len(names) \/ ~at[i + 1].ok)
             qids == [i \in 1..n |-> Qid(fs, at[i].val)]
  <1>1. tWalk(m) = IF n = 0 /\ names # <<>> THEN errReply(at[1].err)
                   ELSE Handled(fs, bound(arg(m)[2], at[n].val), Msg("Rwalk", <<qids>>))
    BY Zenon DEF tWalk
  <1>2. names \in Seq(Nat) /\ N <= MaxWElem /\ N \in Nat
    BY ArgKinds
  <1>3. v0 \in 1..Len(fs) /\ Tree(fs) /\ Grown(fs, fs)
    BY ServedParts DEF Served
  <1>4. at = [i \in 0..Len(names) |->
                 IF i = 0 THEN Result(fs, v0)
                 ELSE IF at[i - 1].ok THEN Walk(fs, at[i - 1].val, names[i]) ELSE at[i - 1]]
    <2> DEFINE P(h) == h = [i \in 0..Len(names) |->
                              IF i = 0 THEN Result(fs, v0)
                              ELSE IF h[i - 1].ok THEN Walk(fs, h[i - 1].val, names[i]) ELSE h[i - 1]]
    <2>1. \E h : P(h)
      BY <1>2, <1>3, WalkExists
    <2> QED BY <2>1, Zenon
  <1> HIDE DEF at, names, v0
  <1>5. /\ at \in [0..N -> Walked] /\ at[0].ok
        /\ \A i \in 1..N : ~at[i - 1].ok => ~at[i].ok
    BY <1>2, <1>3, <1>4, WalkGoes, ZenonT(60)
  <1>6. /\ n \in 0..N /\ (n = N \/ ~at[n + 1].ok)
        /\ \A i \in 0..n : at[i].ok
    <2>1. n = CHOOSE i \in 0..N : at[i].ok /\ (i = N \/ ~at[i + 1].ok)
      OBVIOUS
    <2> HIDE DEF n, N
    <2> QED BY <1>2, <1>5, <2>1, WalkStops
  <1> HIDE DEF n, N
  <1>7. \A i \in 0..n : at[i].val \in 1..Len(fs)
    <2>1. \A i \in 0..n : i \in 0..N
      BY <1>2, <1>6
    <2>2. ASSUME NEW i \in 0..n PROVE at[i].val \in 1..Len(fs)
      <3>1. at[i] \in Walked /\ at[i].ok
        BY <1>5, <1>6, <2>1
      <3> QED BY <3>1, WalkedParts
    <2> QED BY <2>2
  <1>8. CASE n = 0 /\ names # <<>>
    <2>1. N # 0
      BY <1>2, <1>8 DEF N
    <2>2. 1 \in 0..N /\ ~at[1].ok
      BY <1>2, <1>6, <1>8, <2>1
    <2>3. at[1].err \in Nat
      <3>1. at[1] \in Walked
        BY <1>5, <2>2
      <3> QED BY <2>2, <3>1, WalkedParts
    <2>4. tWalk(m) = errReply(at[1].err)
      BY <1>1, <1>8
    <2> QED BY <2>3, <2>4, ErrorOutcome, Zenon
  <1>9. CASE ~(n = 0 /\ names # <<>>)
    <2>1. tWalk(m) = Handled(fs, bound(arg(m)[2], at[n].val), Msg("Rwalk", <<qids>>))
      BY <1>1, <1>9
    <2>2. at[n].val \in 1..Len(fs)
      <3>1. n \in 0..n
        BY <1>2, <1>6
      <3> QED BY <1>7, <3>1, Zenon
    <2>3. Fids(bound(arg(m)[2], at[n].val), fs)
      BY <1>3, <2>2, FidsEdits, Zenon
    <2>4. qids \in Seq(Qids) /\ Len(qids) <= MaxWElem
      <3>1. ASSUME NEW i \in 1..n PROVE Qid(fs, at[i].val) \in Qids
        <4>1. i \in 0..n
          BY <1>6
        <4> QED BY <1>3, <1>7, <4>1, QidType, Zenon
      <3>2. n \in Nat /\ n <= MaxWElem
        BY <1>2, <1>6 DEF MaxWElem
      <3> DEFINE Q(i) == Qid(fs, at[i].val)
      <3> HIDE DEF Q
      <3>3. [i \in 1..n |-> Q(i)] \in Seq(Qids) /\ Len([i \in 1..n |-> Q(i)]) = n
        <4>1. \A i \in 1..n : Q(i) \in Qids
          BY <3>1 DEF Q
        <4> HIDE DEF Qids
        <4> QED BY <3>2, <4>1
      <3> QED BY <3>2, <3>3 DEF Q
    <2> HIDE DEF qids
    <2>5. Msg("Rwalk", <<qids>>) \in Replies(max)
      <3>1. newMessage(TRUE)["Rwalk"] = <<"qids">> /\ "Rwalk" \in Types
        BY MessageTable DEF Types, TreeTypes
      <3>2. "qids" \in FieldKinds /\ qids \in FieldOf("qids")
        BY <2>4, KindsHold, Zenon DEF ListOf
      <3>3. WellFormed(Msg("Rwalk", <<qids>>))
        BY <3>1, <3>2, Message1
      <3>4. \A S : \A x \in S : <<x>> \in Seq(S)
        OBVIOUS
      <3>5. "Rwalk" \in ReplyTypes \ {"Rread", "Rwrite"}
        BY DEF ReplyTypes
      <3> QED BY <2>4, <3>3, <3>4, <3>5, ReplyMade, Zenon
    <2> QED BY <1>3, <2>1, <2>3, <2>5, Zenon DEF Outcome
  <1> QED BY <1>8, <1>9


\* Whatever is asked, the server answers with a reply of its kind or an error.
LEMMA DispatchOutcome ==
    ASSUME Served, sc \in Scenarios, NEW max \in Nat, NEW m \in Requests(max), NEW unix \in BOOLEAN
    PROVE  Outcome(dispatch(m, unix), max)
  <1>0. m \in Messages /\ type(m) \in RequestTypes
    BY Zenon DEF Requests
  <1> DEFINE t == type(m)
  <1>1. CASE t = "Tauth"
    <2>1. dispatch(m, unix) = errReply(27) /\ 27 \in Nat
      BY <1>1 DEF dispatch
    <2> QED BY <2>1, ErrorOutcome, Zenon
  <1>2. CASE t = "Tattach"
    <2>1. dispatch(m, unix) = tAttach(m)
      BY <1>2 DEF dispatch
    <2> QED BY <2>1, PlainHandlers, Zenon
  <1>3. CASE t = "Tflush"
    <2>1. dispatch(m, unix) = Handled(fs, fids, Msg("Rflush", <<>>))
      BY <1>3 DEF dispatch
    <2> QED BY <2>1, PlainHandlers, Zenon
  <1>4. CASE t = "Tclunk"
    <2>1. dispatch(m, unix) = tClunk(m)
      BY <1>4 DEF dispatch
    <2> QED BY <2>1, PlainHandlers, Zenon
  <1>5. CASE t \notin {"Tauth", "Tattach", "Tflush", "Tclunk"}
    <2>1. dispatch(m, unix) = IF arg(m)[1] \in DOMAIN fids THEN onFid(m, unix) ELSE errUnknownFid
      BY <1>5 DEF dispatch
    <2>2. CASE arg(m)[1] \notin DOMAIN fids
      <3>1. dispatch(m, unix) = errReply(11) /\ 11 \in Nat
        BY <2>1, <2>2 DEF errUnknownFid
      <3> QED BY <3>1, ErrorOutcome, Zenon
    <2>3. CASE arg(m)[1] \in DOMAIN fids
      <3>1. dispatch(m, unix) = onFid(m, unix)
        BY <2>1, <2>3
      <3>2. t \in {"Twalk", "Topen", "Tcreate", "Tread", "Twrite", "Tremove", "Tstat", "Twstat"}
        BY <1>0, <1>5 DEF RequestTypes, OtherRequests
      <3>3. /\ t = "Twalk"   => onFid(m, unix) = tWalk(m)
            /\ t = "Topen"   => onFid(m, unix) = tOpen(m)
            /\ t = "Tcreate" => onFid(m, unix) = tCreate(m)
            /\ t = "Tread"   => onFid(m, unix) = tRead(m, unix)
            /\ t = "Twrite"  => onFid(m, unix) = tWrite(m)
            /\ t = "Tremove" => onFid(m, unix) = tRemove(m)
            /\ t = "Tstat"   => onFid(m, unix) = tStat(m)
            /\ t = "Twstat"  => onFid(m, unix) = tWstat(m)
        BY DEF onFid
      <3>4. CASE t = "Twalk"
        BY <1>0, <2>3, <3>1, <3>3, <3>4, WalkHandler, Zenon
      <3>5. CASE t \in {"Tread", "Twrite"}
        BY <2>3, <3>1, <3>3, <3>5, DataHandlers, Zenon
      <3>6. CASE t = "Tstat"
        BY <2>3, <3>1, <3>3, <3>6, PlainHandlers, Zenon
      <3>7. CASE t \in {"Topen", "Tcreate", "Tremove", "Twstat"}
        BY <1>0, <2>3, <3>1, <3>3, <3>7, TreeHandlers, Zenon
      <3> QED BY <3>2, <3>4, <3>5, <3>6, <3>7
    <2> QED BY <2>2, <2>3
  <1> QED BY <1>1, <1>2, <1>3, <1>4, <1>5

LEMMA MaxIO ==
    ASSUME Ends
    PROVE  maxIO \in Nat /\ maxIO >= 1
  <1>1. cl.msize \in Nat /\ sc.iounit \in Nat
    BY EndsParts, CallsAssumption DEF Ends
  <1> QED BY <1>1 DEF maxIO, ioHeaderSize

LEMMA HandleKeeps ==
    ASSUME IInv, Handle
    PROVE  IInv'
  <1>0. SessionInv /\ CallsInv /\ OneMessage /\ Served /\ Ends
    BY DEF IInv, SessionInv
  <1>1. PICK q \in work :
           LET h == dispatch(q.msg, q.unix)
               kids(t) == DOMAIN t[rootPath].children
           IN  /\ fs' = h.fs /\ fids' = h.fids
               /\ work' = work \ {q}
               /\ writeReply(q.tag, h.reply, sv.unix)
               /\ job' = [g \in Procs |->
                           [job[g] EXCEPT
                               !.names = @ \cup kids(h.fs),
                               !.clean = @ /\ \/ g = q.tag
                                              \/ /\ h.fs[FileNode].data = fs[FileNode].data
                                                 /\ kids(h.fs) = kids(fs)]]
               /\ UNCHANGED <<sc, cl, sv, c2s, lost, offset, mu, pc, begun, opened, returned, res>>
    BY Zenon DEF Handle
  <1> DEFINE h == dispatch(q.msg, q.unix)
             S == Envelope(Requests(maxIO), sv.unix)
             R == Envelope(Replies(maxIO), sv.unix)
             x == Sent(q.tag, h.reply, sv.unix)
  <1>2. /\ sc' = sc /\ cl' = cl /\ sv' = sv /\ c2s' = c2s /\ lost' = lost /\ offset' = offset /\ mu' = mu
        /\ pc' = pc /\ begun' = begun /\ opened' = opened /\ returned' = returned
        /\ fs' = h.fs /\ fids' = h.fids /\ work' = work \ {q}
        /\ s2c' = IF sv.pc = "closed" THEN s2c ELSE s2c \cup {x}
    BY <1>1 DEF writeReply
  <1>3. cl.pc = "up"
    <2>1. work # {}
      OBVIOUS
    <2> QED BY <1>0, <2>1, EndsParts DEF SessionInv, Unversioned, Versioning, GivenUp, Silent
  <1>4. c2s \in Seq(S) /\ work \subseteq S /\ s2c \subseteq R
    BY <1>0, <1>3, Zenon DEF SessionInv, OnWay
  <1>5. q.tag \in Procs /\ q.msg \in Requests(maxIO) /\ q.unix = sv.unix
    <2> DEFINE M == Requests(maxIO)
    <2> HIDE DEF M
    <2>1. q \in Envelope(M, sv.unix)
      BY <1>4 DEF M
    <2>2. q.tag \in Procs /\ q.msg \in M /\ q.unix = sv.unix
      BY <2>1 DEF Envelope
    <2> QED BY <2>2 DEF M
  <1>6. Outcome(h, maxIO)
    <2>1. sv.unix \in BOOLEAN /\ sc \in Scenarios /\ maxIO \in Nat
      BY <1>0, EndsParts, MaxIO DEF Ends
    <2> QED BY <1>0, <1>5, <2>1, DispatchOutcome, Zenon
  <1> HIDE DEF h
  <1>7. PICK t, f, r : h = Handled(t, f, r) /\ Grown(fs, t) /\ Fids(f, t) /\ r \in Replies(maxIO)
    BY <1>6, Zenon DEF Outcome
  <1>8. h.fs = t /\ h.fids = f /\ h.reply = r
    BY <1>7 DEF Handled
  <1>9. Served'
    <2>1. Tree(t) /\ Fids(f, t)
      BY <1>7 DEF Grown
    <2>2. fs' = t /\ fids' = f
      BY <1>2, <1>8
    <2> QED BY <2>1, <2>2, Zenon DEF Served, Fids, Tree, Node, Kids
  <1>10. x \in R /\ x.tag = q.tag
    <2> DEFINE M == Replies(maxIO)
    <2>1. h.reply \in M
      BY <1>7, <1>8
    <2> HIDE DEF M
    <2>2. x \in Envelope(M, sv.unix)
      BY <1>5, <2>1 DEF Sent, Envelope
    <2>3. x.tag = q.tag
      BY DEF Sent
    <2> QED BY <2>2, <2>3 DEF M
  <1> HIDE DEF x
  <1>11. SessionInv'
    <2>1. Ends' /\ lost' \subseteq Faults
      BY <1>0, <1>2, Zenon DEF SessionInv, Ends
    <2>2. maxIO' = maxIO /\ agreedSize' = agreedSize
      BY <1>2, SameMax
    <2>3. Agreed'
      BY <1>0, <1>2, <2>2, Zenon DEF SessionInv, Agreed
    <2>4. OnWay'
      <3>1. (Envelope(Requests(maxIO), sv.unix))' = S
        BY <1>2, <2>2
      <3>2. (Envelope(Replies(maxIO), sv.unix))' = R
        BY <1>2, <2>2
      <3> HIDE DEF S, R
      <3>3. work' \subseteq S /\ s2c' \subseteq R /\ c2s' \in Seq(S)
        BY <1>2, <1>4, <1>10
      <3> QED BY <3>1, <3>2, <3>3, Zenon DEF OnWay
    <2>5. cl'.pc # "new" /\ cl'.pc # "version" /\ cl'.pc # "failed"
      BY <1>2, <1>3
    <2>6. Unversioned' /\ Versioning' /\ GivenUp'
      BY <2>5, Zenon DEF Unversioned, Versioning, GivenUp
    <2> QED BY <2>1, <2>3, <2>4, <2>6, Zenon DEF SessionInv
  <1>12. OneMessage'
    <2>1. ASSUME NEW g \in Procs
          PROVE  Lone(g)' /\ (cl'.reading /\ pc'[g] = "idle" => None(g)')
      <3>1. Lone(g) /\ (cl.reading /\ pc[g] = "idle" => None(g))
        BY <1>0, Zenon DEF OneMessage
      <3>2. \A e \in work' : e \in work
        BY <1>2
      <3>3. \A e \in s2c' : e \in s2c \/ e = x
        BY <1>2
      <3>4. \A e \in work' : e # q
        BY <1>2
      <3>5. CASE q.tag = g
        <4>1. AbsentQ(c2s, g) /\ Single(work, g) /\ Absent(s2c, g)
          BY <3>1, <3>5, Zenon DEF Lone, Absent
        <4>2. Absent(work', g)
          BY <3>2, <3>4, <3>5, <4>1, Zenon DEF Single, Absent
        <4>3. Single(s2c', g)
          BY <3>3, <4>1, Zenon DEF Single, Absent
        <4>4. Lone(g)'
          BY <1>2, <4>1, <4>2, <4>3, Zenon DEF Lone, AbsentQ, Absent, Single
        <4>5. ~(cl.reading /\ pc[g] = "idle")
          BY <3>1, <3>5, Zenon DEF None, Absent
        <4> QED BY <1>2, <4>4, <4>5
      <3>6. CASE q.tag # g
        <4>1. \A e \in s2c' : e.tag = g => e \in s2c
          BY <1>10, <3>3, <3>6, Zenon
        <4>2. Lone(g)'
          BY <1>2, <3>1, <3>2, <4>1, Zenon DEF Lone, AbsentQ, SingleQ, Absent, Single
        <4>3. cl'.reading /\ pc'[g] = "idle" => None(g)'
          BY <1>2, <3>1, <3>2, <4>1, Zenon DEF None, AbsentQ, Absent
        <4> QED BY <4>2, <4>3
      <3> QED BY <3>5, <3>6
    <2> QED BY <2>1, Zenon DEF OneMessage
  <1>13. CallsInv'
    <2>0. Jobs /\ Lock /\ Quiet /\ StartsAlone /\ Offset /\ Counts
      BY <1>0 DEF CallsInv
    <2>1. Quiet' /\ StartsAlone' /\ Offset' /\ Counts'
      BY <1>2, <2>0, Zenon DEF Quiet, StartsAlone, Offset, Counts
    <2>2. \A g \in Procs : \E clean, names :
             job'[g] = [job[g] EXCEPT !.names = names, !.clean = clean]
      BY <1>1, Zenon
    <2>3. ASSUME NEW g \in Procs
          PROVE  GoodJob(job'[g]) /\ job'[g].call = job[g].call
      <3>1. PICK clean, names : job'[g] = [job[g] EXCEPT !.names = names, !.clean = clean]
        BY <2>2, Zenon
      <3>2. GoodJob(job[g])
        BY <2>0 DEF Jobs
      <3> DEFINE j == job[g]
                 k == job'[g]
      <3> HIDE DEF j, k
      <3>3. j = Job(j.call, j.at, j.total, j.got, j.clean, j.names) /\ Midway(j)
        BY <3>2 DEF GoodJob, j
      <3>4. k = [j EXCEPT !.names = names, !.clean = clean]
        BY <3>1 DEF j, k
      <3>5. k = Job(j.call, j.at, j.total, j.got, clean, names)
        BY <3>3, <3>4 DEF Job
      <3>6. /\ k.call = j.call /\ k.at = j.at /\ k.total = j.total /\ k.got = j.got /\ k.clean = clean
            /\ k.names = names
        BY <3>5 DEF Job
      <3>7. k = Job(k.call, k.at, k.total, k.got, k.clean, k.names)
        BY <3>5, <3>6, Zenon
      <3>8. Midway(k)
        BY <3>3, <3>6, Zenon DEF Midway
      <3>9. GoodJob(k) /\ k.call = j.call
        BY <3>6, <3>7, <3>8, Zenon DEF GoodJob
      <3> QED BY <3>9 DEF k, j
    <2>4. job' = [g \in Procs |-> job'[g]]
      BY <1>1
    <2>5. Jobs'
      <3>1. \A g \in Procs : GoodJob(job[g])'
        BY <2>3, Zenon DEF GoodJob, Midway, Job
      <3> QED BY <1>2, <2>0, <2>4, <3>1, Zenon DEF Jobs
    <2>6. Lock'
      BY <1>2, <2>0, <2>3, Zenon DEF Lock
    <2> QED BY <2>1, <2>5, <2>6, Zenon DEF CallsInv
  <1> QED BY <1>9, <1>11, <1>12, <1>13, Zenon DEF IInv


-----------------------------------------------------------------------------
(***************************************************************************)
(* The calls.                                                              *)
(***************************************************************************)

LEMMA JobParts ==
    ASSUME NEW c, NEW a, NEW t, NEW o, NEW l, NEW n, NEW k, k = Job(c, a, t, o, l, n)
    PROVE  k.call = c /\ k.at = a /\ k.total = t /\ k.got = o /\ k.clean = l /\ k.names = n
  BY DEF Job

LEMMA JobEdits ==
    ASSUME NEW j, j = Job(j.call, j.at, j.total, j.got, j.clean, j.names), NEW x, NEW y, NEW k
    PROVE  /\ k = [j EXCEPT !.total = x] => k = Job(j.call, j.at, x, j.got, j.clean, j.names)
           /\ k = [j EXCEPT !.total = x, !.got = y] =>
                 k = Job(j.call, j.at, x, y, j.clean, j.names)
           /\ k = [j EXCEPT !.got = y, !.total = x] =>
                 k = Job(j.call, j.at, x, y, j.clean, j.names)
  <1>1. ASSUME k = [j EXCEPT !.total = x] PROVE k = Job(j.call, j.at, x, j.got, j.clean, j.names)
    BY <1>1 DEF Job
  <1>2. ASSUME k = [j EXCEPT !.total = x, !.got = y]
        PROVE  k = Job(j.call, j.at, x, y, j.clean, j.names)
    BY <1>2 DEF Job
  <1>3. ASSUME k = [j EXCEPT !.got = y, !.total = x]
        PROVE  k = Job(j.call, j.at, x, y, j.clean, j.names)
    BY <1>3 DEF Job
  <1> QED BY <1>1, <1>2, <1>3

LEMMA NewJobs ==
    ASSUME NEW c, NEW n, NEW a, NEW k
    PROVE  /\ k = [NoJob EXCEPT !.call = c, !.names = n, !.at = a] =>
                 k = Job(c, a, 0, <<>>, TRUE, n)
           /\ k = [NoJob EXCEPT !.call = c] => k = Job(c, 0, 0, <<>>, TRUE, {})
  <1>1. ASSUME k = [NoJob EXCEPT !.call = c, !.names = n, !.at = a]
        PROVE  k = Job(c, a, 0, <<>>, TRUE, n)
    BY <1>1 DEF Job, NoJob
  <1>2. ASSUME k = [NoJob EXCEPT !.call = c] PROVE k = Job(c, 0, 0, <<>>, TRUE, {})
    BY <1>2 DEF Job, NoJob
  <1> QED BY <1>1, <1>2

LEMMA CallParts ==
    /\ \A p, o, n, d, m :
          LET c == Call(p, o, n, d, m)
          IN  c.op = p /\ c.off = o /\ c.n = n /\ c.data = d /\ c.msg = m
    /\ ListDir.op = "ReadDir"
    /\ \A m : Rpc(m).op = "rpc" /\ Rpc(m).msg = m
  BY DEF Call, ListDir, Rpc

LEMMA NoJobGood == GoodJob(NoJob)
  <1>1. /\ NoJob.call = ListDir /\ NoJob.total = 0
        /\ NoJob = Job(NoJob.call, NoJob.at, NoJob.total, NoJob.got, NoJob.clean, NoJob.names)
    BY DEF NoJob, Job
  <1>2. NoJob.call.op = "ReadDir" /\ NoJob.total \in Nat
    BY <1>1, CallParts
  <1> QED BY <1>1, <1>2, Zenon DEF GoodJob, Midway

\* What a call that goes on sends.
LEMMA ChunkFits ==
    ASSUME Ends, NEW j, j.call.n \in Nat, j.total \in 0..j.call.n
    PROVE  chunk(j) \in 0..maxIO /\ chunk(j) \in Nat /\ j.total + chunk(j) <= j.call.n
  <1>1. maxIO \in Nat
    BY MaxIO
  <1> DEFINE max == maxIO
  <1> HIDE DEF max
  <1>2. LET c == least(j.call.n - j.total, max) IN c \in 0..max /\ c \in Nat /\ j.total + c <= j.call.n
    BY <1>1 DEF least, max
  <1> QED BY <1>2, Zenon DEF chunk, max

LEMMA TreadMade ==
    ASSUME NEW f \in Nat, NEW off \in Nat, NEW max \in Nat, NEW count \in 0..max
    PROVE  Msg("Tread", <<f, off, count>>) \in Requests(max)
  <1> DEFINE v == <<f, off, count>>
             m == Msg("Tread", v)
  <1>1. newMessage(TRUE)["Tread"] = <<"u32", "u64", "u32">> /\ "Tread" \in Types
    BY MessageTable DEF Types, FileTypes
  <1>2. WellFormed(m)
    <2>1. "u32" \in FieldKinds /\ "u64" \in FieldKinds
          /\ f \in FieldOf("u32") /\ off \in FieldOf("u64") /\ count \in FieldOf("u32")
      BY KindsHold
    <2> QED BY <1>1, <2>1, Message3
  <1>3. v \in Seq(Nat) /\ v[2] = off /\ v[3] = count
    OBVIOUS
  <1> HIDE DEF v
  <1>4. type(m) = "Tread" /\ arg(m) = v
    BY <1>3, MsgParts, Zenon
  <1>5. m \in Messages
    BY <1>2, MessageMade, Zenon
  <1> HIDE DEF m
  <1>6. Ranged(m, max)
    BY <1>3, <1>4 DEF Ranged
  <1>7. "Tread" \in RequestTypes
    BY DEF RequestTypes
  <1> QED BY <1>4, <1>5, <1>6, <1>7, Zenon DEF Requests, m, v

LEMMA TwriteMade ==
    ASSUME NEW f \in Nat, NEW off \in Nat, NEW max \in Nat, NEW b \in Bytes, Size(b) <= max
    PROVE  Msg("Twrite", <<f, off, b>>) \in Requests(max)
  <1> DEFINE v == <<f, off, b>>
             m == Msg("Twrite", v)
  <1>1. newMessage(TRUE)["Twrite"] = <<"u32", "u64", "data">> /\ "Twrite" \in Types
    BY MessageTable DEF Types, FileTypes
  <1>2. WellFormed(m)
    <2>1. "u32" \in FieldKinds /\ "u64" \in FieldKinds /\ "data" \in FieldKinds
          /\ f \in FieldOf("u32") /\ off \in FieldOf("u64")
      BY KindsHold
    <2>2. b \in FieldOf("data")
      BY KindsHold, Zenon
    <2> QED BY <1>1, <2>1, <2>2, Message3
  <1>3. v \in Seq(Nat \cup Bytes) /\ v[2] = off /\ v[3] = b
    <2> HIDE DEF Bytes
    <2> QED OBVIOUS
  <1> HIDE DEF v
  <1>4. type(m) = "Twrite" /\ arg(m) = v
    BY <1>3, MsgParts, Zenon
  <1>5. m \in Messages
    BY <1>2, MessageMade, Zenon
  <1> HIDE DEF m
  <1>6. Ranged(m, max)
    <2>1. arg(m)[2] \in Nat /\ Size(arg(m)[3]) <= max
      BY <1>3, <1>4
    <2> QED BY <1>4, <2>1 DEF Ranged
  <1>7. "Twrite" \in RequestTypes
    BY DEF RequestTypes
  <1> QED BY <1>4, <1>5, <1>6, <1>7, Zenon DEF Requests, m, v

LEMMA OtherMade ==
    ASSUME NEW m \in Messages, type(m) \in OtherRequests, NEW max
    PROVE  m \in Requests(max)
  <1>1. type(m) \notin IOTypes /\ type(m) \in RequestTypes
    BY DEF OtherRequests, IOTypes, RequestTypes
  <1>2. Ranged(m, max)
    BY <1>1, Zenon DEF Ranged, IOTypes
  <1> QED BY <1>1, <1>2, Zenon DEF Requests

LEMMA RequestMade ==
    ASSUME Ends, NEW j, GoodJob(j)
    PROVE  request(j) \in Requests(maxIO)
  <1>0. Midway(j) /\ maxIO \in Nat
    BY MaxIO DEF GoodJob
  <1> DEFINE c == j.call
  <1>1. FileFid \in Nat /\ DirFid \in Nat
    BY DEF FileFid, DirFid
  <1>2. CASE c.op \in {"Read", "ReadAt"}
    <2>1. j.at \in Nat /\ c.n \in Nat /\ j.total \in 0..c.n
      BY <1>0, <1>2 DEF Midway
    <2>2. chunk(j) \in 0..maxIO /\ j.at + j.total \in Nat
      BY <2>1, ChunkFits
    <2>3. request(j) = Msg("Tread", <<FileFid, j.at + j.total, chunk(j)>>)
      BY <1>2 DEF request
    <2> QED BY <1>0, <1>1, <2>2, <2>3, TreadMade, Zenon
  <1>3. CASE c.op \in {"Write", "WriteAt"}
    <2>1. /\ j.at \in Nat /\ c.n \in Nat /\ j.total \in 0..c.n /\ c.data \in Seq(Int)
          /\ c.n = Len(c.data)
      BY <1>0, <1>3 DEF Midway
    <2>2. /\ chunk(j) \in 0..maxIO /\ j.at + j.total \in Nat /\ chunk(j) \in Nat
          /\ j.total + chunk(j) <= c.n
      BY <2>1, ChunkFits
    <2> DEFINE x == [i \in 1..chunk(j) |-> c.data[j.total + i]]
               b == [i \in 1..chunk(j) |-> Cell(1, c.data[j.total + i])]
    <2>3. x \in Seq(Int) /\ Len(x) = chunk(j)
      <3> DEFINE k == chunk(j)
                 d == c.data
                 o == j.total
                 N == c.n
      <3>1. k \in Nat /\ d \in Seq(Int) /\ o \in Nat /\ o + k <= N /\ N = Len(d) /\ N \in Nat
        BY <2>1, <2>2
      <3> HIDE DEF k, d, o, N
      <3>2. \A i \in 1..k : o + i \in 1..N
        BY <3>1
      <3>3. \A i \in 1..k : d[o + i] \in Int
        BY <3>1, <3>2
      <3>4. [i \in 1..k |-> d[o + i]] \in Seq(Int) /\ Len([i \in 1..k |-> d[o + i]]) = k
        BY <3>1, <3>3
      <3> QED BY <3>4 DEF k, d, o
    <2>4. b = [i \in 1..Len(x) |-> Cell(1, x[i])]
      <3>1. \A i \in 1..chunk(j) : x[i] = c.data[j.total + i]
        OBVIOUS
      <3> HIDE DEF x
      <3> QED BY <2>3, <3>1
    <2> HIDE DEF x
    <2>5. b \in Bytes /\ Size(b) = chunk(j)
      <3> HIDE DEF b
      <3>1. LET w == [i \in 1..Len(x) |-> Cell(1, x[i])] IN w \in Bytes /\ Size(w) = Len(x)
        BY <2>3, CellsSize
      <3> QED BY <2>3, <2>4, <3>1, Zenon
    <2>6. request(j) = Msg("Twrite", <<FileFid, j.at + j.total, b>>)
      BY <1>3 DEF request
    <2> HIDE DEF b
    <2>7. Size(b) <= maxIO
      BY <2>2, <2>5
    <2> QED BY <1>0, <1>1, <2>2, <2>5, <2>6, <2>7, TwriteMade, Zenon
  <1>4. CASE c.op = "Seek"
    <2>1. request(j) = Msg("Tstat", <<FileFid>>)
      BY <1>4 DEF request
    <2>2. newMessage(TRUE)["Tstat"] = <<"u32">> /\ "Tstat" \in Types
      BY MessageTable DEF Types, FileTypes
    <2>3. WellFormed(Msg("Tstat", <<FileFid>>))
      <3>1. "u32" \in FieldKinds /\ FileFid \in FieldOf("u32")
        BY <1>1, KindsHold
      <3> QED BY <2>2, <3>1, Message1
    <2>4. Msg("Tstat", <<FileFid>>) \in Messages
      BY <2>3, MessageMade, Zenon
    <2>5. type(Msg("Tstat", <<FileFid>>)) = "Tstat"
      <3>1. <<FileFid>> \in Seq(Nat)
        BY <1>1
      <3> QED BY <3>1, MsgParts, Zenon
    <2>6. "Tstat" \in OtherRequests
      BY DEF OtherRequests
    <2> QED BY <2>1, <2>4, <2>5, <2>6, OtherMade, Zenon
  <1>5. CASE c.op = "ReadDir"
    <2>1. j.total \in Nat
      BY <1>0, <1>5 DEF Midway
    <2>2. request(j) = Msg("Tread", <<DirFid, j.total, maxIO>>)
      BY <1>5 DEF request
    <2>3. maxIO \in 0..maxIO
      BY <1>0
    <2> QED BY <1>0, <1>1, <2>1, <2>2, <2>3, TreadMade, Zenon
  <1>6. CASE c.op = "rpc"
    <2>1. c.msg \in Messages /\ type(c.msg) \in OtherRequests
      BY <1>0, <1>6 DEF Midway
    <2>2. request(j) = c.msg
      BY <1>6 DEF request
    <2> QED BY <2>1, <2>2, OtherMade, Zenon
  <1> QED BY <1>0, <1>2, <1>3, <1>4, <1>5, <1>6, Zenon DEF Midway


-----------------------------------------------------------------------------
(***************************************************************************)
(* A call ends or goes on.                                                 *)
(***************************************************************************)

\* What every way to end has in common, and the next rpc.
Over(g) ==
    /\ pc' = [pc EXCEPT ![g] = "idle"] /\ job' = [job EXCEPT ![g] = NoJob]
    /\ offset' \in Nat /\ returned' = offset'
    /\ mu' = Nobody \/ (mu' = mu /\ mu # g)

AsksNext(g, j) ==
    /\ GoodJob(j) /\ rpc(g, j)
    /\ offset' = offset /\ returned' = returned
    /\ (mu' = mu /\ mu # g) \/ (mu' = g /\ j.call.op = "Seek")

Ended(g) == Over(g) /\ c2s' = c2s
Asked(g) == \E j : AsksNext(g, j)

LEMMA AdvanceEnds ==
    ASSUME Offset, NEW g, NEW j, NEW err, j.call.op \in {"Read", "Write"}, j.total \in Nat,
           advance(g, j, err)
    PROVE  Over(g)
  <1>1. returned' = returned + j.total
    BY DEF advance, end
  <1>2. offset' = offset + j.total /\ mu' = Nobody
    BY Zenon DEF advance
  <1>3. pc' = [pc EXCEPT ![g] = "idle"] /\ job' = [job EXCEPT ![g] = NoJob]
    BY Zenon DEF advance, end
  <1>4. offset' \in Nat /\ returned' = offset'
    BY <1>1, <1>2 DEF Offset
  <1> QED BY <1>2, <1>3, <1>4, Zenon DEF Over

LEMMA FinishEnds ==
    ASSUME Offset, NEW g, NEW j, NEW err, mu # g, finish(g, j, err),
           j.call.op \in {"Read", "Write"} => j.total = 0,
           j.call.op = "Seek" => err # "nil"
    PROVE  Over(g)
  <1>1. CASE j.call.op \in {"Read", "Write"}
    <2>1. returned' = returned + 0
      BY <1>1 DEF finish, end
    <2>2. returned' = returned
      BY <2>1 DEF Offset
    <2> QED BY <2>2, Zenon DEF finish, end, Over, Offset
  <1>2. CASE j.call.op \notin {"Read", "Write"}
    <2>1. returned' = returned
      BY <1>2 DEF finish, end
    <2> QED BY <2>1, Zenon DEF finish, end, Over, Offset
  <1> QED BY <1>1, <1>2, Zenon

LEMMA SoughtEnds ==
    ASSUME Offset, NEW g, NEW j, GoodJob(j), j.call.op = "Seek", NEW ok, NEW newOff,
           sought(g, j, ok, newOff), ok => newOff \in Int
    PROVE  Over(g)
  <1>1. CASE ok /\ newOff >= 0
    <2> DEFINE k == [j EXCEPT !.total = newOff]
    <2>1. k.call = j.call /\ k.total = newOff
      <3>1. k = [j EXCEPT !.total = newOff]
        OBVIOUS
      <3> HIDE DEF k
      <3>2. k = Job(j.call, j.at, newOff, j.got, j.clean, j.names)
        BY <3>1, JobEdits DEF GoodJob
      <3> QED BY <3>2, JobParts
    <2>2. offset' = newOff /\ mu' = Nobody /\ end(g, k, "nil")
      BY <1>1, Zenon DEF sought
    <2> HIDE DEF k
    <2>3. returned' = newOff
      BY <2>1, <2>2 DEF end
    <2>4. newOff \in Nat
      BY <1>1
    <2>5. pc' = [pc EXCEPT ![g] = "idle"] /\ job' = [job EXCEPT ![g] = NoJob]
      BY <2>2, Zenon DEF end
    <2> QED BY <2>2, <2>3, <2>4, <2>5, Zenon DEF Over
  <1>2. CASE ~(ok /\ newOff >= 0)
    <2>1. offset' = offset /\ mu' = Nobody /\ end(g, j, "error")
      BY <1>2, Zenon DEF sought
    <2>2. returned' = returned
      BY <2>1 DEF end
    <2>3. pc' = [pc EXCEPT ![g] = "idle"] /\ job' = [job EXCEPT ![g] = NoJob]
      BY <2>1, Zenon DEF end
    <2> QED BY <2>1, <2>2, <2>3, Zenon DEF Over, Offset
  <1> QED BY <1>1, <1>2, Zenon

\* A job that has got further.
LEMMA JobMoved ==
    ASSUME NEW j, GoodJob(j), NEW k, NEW t, NEW o, k = Job(j.call, j.at, t, o, j.clean, j.names)
    PROVE  /\ k.call = j.call /\ k.at = j.at /\ k.total = t
           /\ k = Job(k.call, k.at, k.total, k.got, k.clean, k.names)
  <1>1. /\ k.call = j.call /\ k.at = j.at /\ k.total = t /\ k.got = o /\ k.clean = j.clean
        /\ k.names = j.names
    BY JobParts
  <1> QED BY <1>1, Zenon


\* What the replies hold.
LEMMA ReplyArgs ==
    ASSUME Ends, NEW m \in Replies(maxIO)
    PROVE  /\ type(m) = "Rread"  => arg(m)[1] \in Bytes /\ Size(arg(m)[1]) \in Nat
           /\ type(m) = "Rwrite" => arg(m)[1] \in Nat
           /\ type(m) = "Rstat"  => arg(m)[1][7] \in Int
  <1>1. m \in Messages /\ Ranged(m, maxIO)
    BY Zenon DEF Replies
  <1>2. type(m) = "Rread" => arg(m)[1] \in Bytes /\ Size(arg(m)[1]) \in Nat
    BY <1>1, ArgKinds, SizeType, Zenon
  <1>3. type(m) = "Rwrite" => arg(m)[1] \in Nat
    BY <1>1, Zenon DEF Ranged
  <1>4. ASSUME type(m) = "Rstat" PROVE arg(m)[1][7] \in Int
    <2> DEFINE s == arg(m)[1]
    <2>1. s \in Stats
      BY <1>1, <1>4, ArgKinds, Zenon
    <2> HIDE DEF s
    <2>2. s[7] \in ScalarOf(statFields(TRUE)[7])
      <3>1. 7 \in 1..15
        OBVIOUS
      <3> QED BY <2>1, <3>1, Zenon DEF Stats
    <2>3. statFields(TRUE)[7] = "u64"
      BY DEF statFields
    <2>4. ScalarOf("u64") = Int
      BY DEF ScalarOf
    <2>5. s[7] \in Int
      BY <2>2, <2>3, <2>4, Zenon
    <2> QED BY <2>5 DEF s
  <1> QED BY <1>2, <1>3, <1>4, Zenon

\* How far a read has got with a reply of s bytes.
LEMMA ReadOn ==
    ASSUME Ends, NEW j, GoodJob(j), j.call.op \in {"Read", "ReadAt"}, NEW s \in Nat
    PROVE  LET n == least(chunk(j), s)
           IN  /\ n \in Nat /\ j.total \in Nat /\ j.call.n \in Nat /\ j.at \in Nat
               /\ j.total + n \in 0..j.call.n
  <1>1. j.total \in 0..j.call.n /\ j.call.n \in Nat /\ j.at \in Nat
    BY DEF GoodJob, Midway
  <1>2. chunk(j) \in Nat /\ j.total + chunk(j) <= j.call.n
    BY <1>1, ChunkFits
  <1> DEFINE c == chunk(j)
  <1> HIDE DEF c
  <1>3. least(c, s) \in Nat /\ j.total + least(c, s) \in 0..j.call.n
    BY <1>1, <1>2 DEF least, c
  <1> QED BY <1>1, <1>3 DEF c

LEMMA ReadReply ==
    ASSUME Ends, Offset, NEW g, mu # g, NEW j, GoodJob(j), NEW m \in Replies(maxIO),
           j.call.op = "Read", readReply(g, j, m)
    PROVE  Over(g)
  <1>1. CASE type(m) = "Rread"
    <2> DEFINE s == Size(arg(m)[1])
               n == least(chunk(j), s)
               o == cut(arg(m)[1], n)[1]
               k == [j EXCEPT !.total = n, !.got = o]
               err == IF n = 0 THEN "EOF" ELSE "nil"
    <2>1. s \in Nat
      BY <1>1, ReplyArgs
    <2>2. advance(g, k, err)
      BY <1>1, Zenon DEF readReply
    <2> HIDE DEF s
    <2>3. n \in Nat
      BY <2>1, ReadOn
    <2>4. k = [j EXCEPT !.total = n, !.got = o]
      OBVIOUS
    <2> HIDE DEF n, o, k, err
    <2>5. k = Job(j.call, j.at, n, o, j.clean, j.names)
      <3>1. j = Job(j.call, j.at, j.total, j.got, j.clean, j.names)
        BY DEF GoodJob
      <3> QED BY <2>4, <3>1 DEF Job
    <2>6. k.call = j.call /\ k.total = n
      BY <2>5, JobMoved
    <2> QED BY <2>2, <2>3, <2>6, AdvanceEnds
  <1>2. CASE type(m) # "Rread"
    <2>1. finish(g, j, "error")
      BY <1>2, Zenon DEF readReply
    <2>2. j.total = 0
      BY DEF GoodJob, Midway
    <2> QED BY <2>1, <2>2, FinishEnds
  <1> QED BY <1>1, <1>2

\* A call that goes on is at a good job.
LEMMA GoesOn ==
    ASSUME NEW g, mu # g, NEW k, GoodJob(k), rpc(g, k), UNCHANGED <<offset, returned, mu, res>>
    PROVE  Asked(g)
  BY Zenon DEF Asked, AsksNext

LEMMA ReadAtReply ==
    ASSUME Ends, Offset, NEW g, mu # g, NEW j, GoodJob(j), NEW m \in Replies(maxIO),
           j.call.op = "ReadAt", readAtReply(g, j, m)
    PROVE  Ended(g) \/ Asked(g)
  <1>1. CASE type(m) = "Rread"
    <2> DEFINE s == Size(arg(m)[1])
               n == least(chunk(j), s)
               o == j.got \o cut(arg(m)[1], n)[1]
               k == [j EXCEPT !.total = @ + n, !.got = @ \o cut(arg(m)[1], n)[1]]
    <2>1. s \in Nat
      BY <1>1, ReplyArgs
    <2>2. \/ \E err : finish(g, k, err) /\ c2s' = c2s
          \/ rpc(g, k) /\ UNCHANGED <<offset, returned, mu, res>>
      BY <1>1, Zenon DEF readAtReply
    <2> HIDE DEF s
    <2>3. j.total + n \in 0..j.call.n /\ j.call.n \in Nat /\ j.at \in Nat
      BY <2>1, ReadOn
    <2>4. k = [j EXCEPT !.total = j.total + n, !.got = o]
      OBVIOUS
    <2> HIDE DEF n, o, k
    <2>5. k = Job(j.call, j.at, j.total + n, o, j.clean, j.names)
      <3>1. j = Job(j.call, j.at, j.total, j.got, j.clean, j.names)
        BY DEF GoodJob
      <3> QED BY <2>4, <3>1 DEF Job
    <2>6. /\ k.call = j.call /\ k.at = j.at /\ k.total = j.total + n
          /\ k = Job(k.call, k.at, k.total, k.got, k.clean, k.names)
      BY <2>5, JobMoved
    <2>7. GoodJob(k)
      BY <2>3, <2>6, Zenon DEF GoodJob, Midway
    <2>8. ASSUME NEW err, finish(g, k, err), c2s' = c2s PROVE Ended(g)
      BY <2>6, <2>8, FinishEnds DEF Ended
    <2> QED BY <2>2, <2>7, <2>8, GoesOn, Zenon
  <1>2. CASE type(m) # "Rread"
    <2>1. finish(g, j, "error") /\ c2s' = c2s
      BY <1>2, Zenon DEF readAtReply
    <2> QED BY <2>1, FinishEnds DEF Ended
  <1> QED BY <1>1, <1>2

\* A Write that ends moves the offset, a WriteAt does not.
LEMMA WriteLeft ==
    ASSUME Offset, NEW g, mu # g, NEW j, NEW err, j.call.op \in {"Write", "WriteAt"},
           j.total \in Nat, leaveWrite(g, j, err), c2s' = c2s
    PROVE  Ended(g)
  <1>1. CASE j.call.op = "Write"
    <2>1. advance(g, j, err)
      BY <1>1, Zenon DEF leaveWrite
    <2> QED BY <1>1, <2>1, AdvanceEnds DEF Ended
  <1>2. CASE j.call.op = "WriteAt"
    <2>1. finish(g, j, err)
      BY <1>2 DEF leaveWrite
    <2> QED BY <1>2, <2>1, FinishEnds DEF Ended
  <1> QED BY <1>1, <1>2

LEMMA WriteAtReply ==
    ASSUME Ends, Offset, NEW g, mu # g, NEW j, GoodJob(j), NEW m \in Replies(maxIO),
           j.call.op \in {"Write", "WriteAt"}, writeAtReply(g, j, m)
    PROVE  Ended(g) \/ Asked(g)
  <1>0. /\ j.total \in Nat /\ j.at \in Nat /\ j.call.data \in Seq(Int)
        /\ j.call.n = Len(j.call.data) /\ j.call.n \in Nat
    BY DEF GoodJob, Midway
  <1>1. CASE type(m) = "Rwrite"
    <2> DEFINE n == arg(m)[1]
               k == [j EXCEPT !.total = @ + n]
    <2>1. n \in Nat
      BY <1>1, ReplyArgs
    <2>2. \/ leaveWrite(g, j, "error") /\ c2s' = c2s
          \/ leaveWrite(g, k, "nil") /\ c2s' = c2s
          \/ ~(k.total >= k.call.n) /\ rpc(g, k) /\ UNCHANGED <<offset, returned, mu, res>>
      BY <1>1, Zenon DEF writeAtReply
    <2>4. k = [j EXCEPT !.total = j.total + n]
      OBVIOUS
    <2> HIDE DEF n, k
    <2>5. k = Job(j.call, j.at, j.total + n, j.got, j.clean, j.names)
      <3>1. j = Job(j.call, j.at, j.total, j.got, j.clean, j.names)
        BY DEF GoodJob
      <3> QED BY <2>4, <3>1 DEF Job
    <2>6. /\ k.call = j.call /\ k.at = j.at /\ k.total = j.total + n
          /\ k = Job(k.call, k.at, k.total, k.got, k.clean, k.names)
      BY <2>5, JobMoved
    <2>7. k.total \in Nat /\ (~(k.total >= k.call.n) => k.total \in 0..k.call.n)
      BY <1>0, <2>1, <2>6
    <2>8. ASSUME ~(k.total >= k.call.n) PROVE GoodJob(k)
      BY <1>0, <2>6, <2>7, <2>8, Zenon DEF GoodJob, Midway
    <2>9. ASSUME leaveWrite(g, j, "error"), c2s' = c2s PROVE Ended(g)
      BY <1>0, <2>9, WriteLeft
    <2>10. ASSUME leaveWrite(g, k, "nil"), c2s' = c2s PROVE Ended(g)
      BY <2>6, <2>7, <2>10, WriteLeft
    <2> QED BY <2>2, <2>8, <2>9, <2>10, GoesOn, Zenon
  <1>2. CASE type(m) # "Rwrite"
    <2>1. leaveWrite(g, j, "error") /\ c2s' = c2s
      BY <1>2, Zenon DEF writeAtReply
    <2> QED BY <1>0, <2>1, WriteLeft
  <1> QED BY <1>1, <1>2

LEMMA SeekReply ==
    ASSUME Ends, Offset, NEW g, NEW j, GoodJob(j), NEW m \in Replies(maxIO),
           j.call.op = "Seek", seekReply(g, j, m)
    PROVE  Ended(g)
  <1>0. j.call.off \in Int /\ c2s' = c2s
    BY DEF GoodJob, Midway, seekReply
  <1>1. CASE type(m) = "Rstat"
    <2> DEFINE n == arg(m)[1][7] + j.call.off
    <2>1. sought(g, j, TRUE, n)
      BY <1>1, Zenon DEF seekReply
    <2>2. arg(m)[1][7] \in Int
      BY <1>1, ReplyArgs
    <2>3. n \in Int
      BY <1>0, <2>2
    <2> HIDE DEF n
    <2> QED BY <1>0, <2>1, <2>3, SoughtEnds DEF Ended
  <1>2. CASE type(m) # "Rstat"
    <2>1. sought(g, j, FALSE, 0)
      BY <1>2, Zenon DEF seekReply
    <2> QED BY <1>0, <2>1, SoughtEnds DEF Ended
  <1> QED BY <1>1, <1>2

LEMMA ReadDirReply ==
    ASSUME Ends, Offset, NEW g, mu # g, NEW j, GoodJob(j), NEW m \in Replies(maxIO),
           j.call.op = "ReadDir", readDirReply(g, j, m)
    PROVE  Ended(g) \/ Asked(g)
  <1>0. j.total \in Nat
    BY DEF GoodJob, Midway
  <1>1. CASE type(m) = "Rread"
    <2> DEFINE s == Size(arg(m)[1])
               d == entries(arg(m)[1], cl.unix)
               k == [j EXCEPT !.got = @ \o d.vals, !.total = @ + s]
               o == j.got \o d.vals
    <2>1. s \in Nat
      BY <1>1, ReplyArgs
    <2>2. \/ \E err : finish(g, k, err) /\ c2s' = c2s
          \/ \E err : finish(g, j, err) /\ c2s' = c2s
          \/ rpc(g, k) /\ UNCHANGED <<offset, returned, mu, res>>
      BY <1>1, Zenon DEF readDirReply
    <2> HIDE DEF s
    <2>4. k = [j EXCEPT !.got = o, !.total = j.total + s]
      OBVIOUS
    <2> HIDE DEF d, o, k
    <2>5. k = Job(j.call, j.at, j.total + s, o, j.clean, j.names)
      <3>1. j = Job(j.call, j.at, j.total, j.got, j.clean, j.names)
        BY DEF GoodJob
      <3> QED BY <2>4, <3>1 DEF Job
    <2>6. /\ k.call = j.call /\ k.at = j.at /\ k.total = j.total + s
          /\ k = Job(k.call, k.at, k.total, k.got, k.clean, k.names)
      BY <2>5, JobMoved
    <2>7. k.total \in Nat
      BY <1>0, <2>1, <2>6
    <2>8. GoodJob(k)
      BY <2>6, <2>7, Zenon DEF GoodJob, Midway
    <2>9. ASSUME NEW err, finish(g, k, err), c2s' = c2s PROVE Ended(g)
      BY <2>6, <2>9, FinishEnds DEF Ended
    <2>10. ASSUME NEW err, finish(g, j, err), c2s' = c2s PROVE Ended(g)
      BY <2>10, FinishEnds DEF Ended
    <2> QED BY <2>2, <2>8, <2>9, <2>10, GoesOn, Zenon
  <1>2. CASE type(m) # "Rread"
    <2>1. finish(g, j, "error") /\ c2s' = c2s
      BY <1>2, Zenon DEF readDirReply
    <2> QED BY <2>1, FinishEnds DEF Ended
  <1> QED BY <1>1, <1>2

LEMMA OtherReply ==
    ASSUME Offset, NEW g, mu # g, NEW j, NEW m, j.call.op = "rpc", otherReply(g, j, m)
    PROVE  Ended(g)
  <1>1. PICK err : finish(g, j, err) /\ c2s' = c2s
    BY Zenon DEF otherReply
  <1> QED BY <1>1, FinishEnds DEF Ended

\* Only a Seek that waits holds the lock.
LEMMA NotLocked ==
    ASSUME CallsInv, NEW g \in Procs, pc[g] # "wait" \/ job[g].call.op # "Seek"
    PROVE  mu # g
  <1>1. Lock
    BY DEF CallsInv
  <1> QED BY <1>1, CallsAssumption, Zenon DEF Lock

-----------------------------------------------------------------------------
(***************************************************************************)
(* A step of a call keeps the invariant.                                   *)
(***************************************************************************)

LEMMA UpSession ==
    ASSUME SessionInv, cl.pc = "up", sc' = sc, cl' = cl, sv' = sv, work' = work, lost' = lost,
           s2c' \subseteq s2c, c2s' \in Seq(Envelope(Requests(maxIO), sv.unix))
    PROVE  SessionInv'
  <1>0. Ends /\ Agreed /\ OnWay /\ lost \subseteq Faults
    BY DEF SessionInv
  <1>1. maxIO' = maxIO /\ agreedSize' = agreedSize
    BY SameMax
  <1>2. OnWay'
    <2>1. work \subseteq Envelope(Requests(maxIO), sv.unix) /\ s2c \subseteq Envelope(Replies(maxIO), sv.unix)
      BY <1>0, Zenon DEF OnWay
    <2>2. /\ Envelope(Requests(maxIO), sv.unix)' = Envelope(Requests(maxIO), sv.unix)
          /\ Envelope(Replies(maxIO), sv.unix)' = Envelope(Replies(maxIO), sv.unix)
      BY <1>1, Zenon DEF Envelope, Requests, Replies
    <2> QED BY <2>1, <2>2, Zenon DEF OnWay
  <1>3. Ends' /\ Agreed'
    BY <1>0, <1>1, Zenon DEF Ends, Agreed
  <1>4. Unversioned' /\ Versioning' /\ GivenUp'
    <2>1. cl'.pc # "new" /\ cl'.pc # "version" /\ cl'.pc # "failed"
      OBVIOUS
    <2> QED BY <2>1, Zenon DEF Unversioned, Versioning, GivenUp
  <1> QED BY <1>0, <1>2, <1>3, <1>4, Zenon DEF SessionInv

\* What follows for the messages of the goroutines.
LEMMA TakenOff ==
    ASSUME OneMessage, NEW g \in Procs, NEW e \in s2c, e.tag = g, s2c' = s2c \ {e}
    PROVE  AbsentQ(c2s, g) /\ Absent(work, g) /\ Absent(s2c', g)
  <1>1. Lone(g) /\ ~Absent(s2c, g)
    BY Zenon DEF OneMessage, Absent
  <1>2. AbsentQ(c2s, g) /\ Absent(work, g) /\ Single(s2c, g)
    BY <1>1, Zenon DEF Lone
  <1> QED BY <1>2, Zenon DEF Absent, Single

LEMMA LoneLess ==
    ASSUME NEW g, Lone(g), c2s' = c2s, work' = work, s2c' \subseteq s2c
    PROVE  Lone(g)' /\ (None(g) => None(g)')
  BY Zenon DEF Lone, None, Absent, Single, AbsentQ, SingleQ

LEMMA EndedOne ==
    ASSUME OneMessage, pc \in [Procs -> {"idle", "wait"}], NEW g \in Procs,
           pc' = [pc EXCEPT ![g] = "idle"], cl' = cl, c2s' = c2s, work' = work, s2c' \subseteq s2c,
           ~cl.reading \/ None(g)'
    PROVE  OneMessage'
  <1>1. \A h \in Procs : Lone(h)' /\ (None(h) => None(h)')
    BY LoneLess, Zenon DEF OneMessage
  <1>2. \A h \in Procs : h # g => pc'[h] = pc[h]
    OBVIOUS
  <1> QED BY <1>1, <1>2, Zenon DEF OneMessage

LEMMA AskedOne ==
    ASSUME OneMessage, pc \in [Procs -> {"idle", "wait"}], NEW g \in Procs, NEW m, NEW u, NEW S,
           pc' = [pc EXCEPT ![g] = "wait"], cl' = cl, work' = work, s2c' \subseteq s2c,
           c2s \in Seq(S), Sent(g, m, u) \in S, c2s' = Append(c2s, Sent(g, m, u)),
           AbsentQ(c2s, g), Absent(work, g), Absent(s2c', g)
    PROVE  OneMessage'
  <1> DEFINE x == Sent(g, m, u)
  <1>1. x.tag = g
    BY DEF Sent
  <1>2. x \in S /\ c2s' = Append(c2s, x)
    OBVIOUS
  <1> HIDE DEF x
  <1>3. Lone(g)' /\ pc'[g] = "wait"
    <2>1. SingleQ(c2s', g)
      BY <1>2, QueueAppend, Zenon
    <2>2. Lone(g)'
      BY <2>1, Zenon DEF Lone
    <2> QED BY <2>2
  <1>4. ASSUME NEW h \in Procs, h # g PROVE Lone(h)' /\ (cl'.reading /\ pc'[h] = "idle" => None(h)')
    <2>1. Lone(h) /\ (cl.reading /\ pc[h] = "idle" => None(h)) /\ pc'[h] = pc[h]
      BY <1>4 DEF OneMessage
    <2>2. /\ AbsentQ(c2s, h) => AbsentQ(c2s', h)
          /\ SingleQ(c2s, h) => SingleQ(c2s', h)
      <3>1. x.tag # h
        BY <1>1, <1>4
      <3> QED BY <1>2, <3>1, QueueAppend, Zenon
    <2>3. /\ Absent(s2c, h) => Absent(s2c', h)
          /\ Single(s2c, h) => Single(s2c', h)
      BY Zenon DEF Absent, Single
    <2>4. Lone(h)'
      BY <2>1, <2>2, <2>3, Zenon DEF Lone
    <2>5. None(h) => None(h)'
      BY <2>2, <2>3, Zenon DEF None
    <2> QED BY <2>1, <2>4, <2>5, Zenon
  <1>5. "wait" # "idle"
    OBVIOUS
  <1> QED BY <1>3, <1>4, <1>5, Zenon DEF OneMessage

LEMMA JobsKept ==
    ASSUME Jobs, NEW g \in Procs, NEW j, GoodJob(j), NEW p \in {"idle", "wait"},
           pc' = [pc EXCEPT ![g] = p], job' = [job EXCEPT ![g] = j]
    PROVE  /\ Jobs' /\ pc'[g] = p /\ job'[g] = j
           /\ \A h \in Procs : h # g => pc'[h] = pc[h] /\ job'[h] = job[h]
  <1>0. pc \in [Procs -> {"idle", "wait"}] /\ job = [h \in Procs |-> job[h]] /\ \A h \in Procs : GoodJob(job[h])
    BY DEF Jobs
  <1>1. /\ pc' \in [Procs -> {"idle", "wait"}] /\ pc'[g] = p
        /\ \A h \in Procs : h # g => pc'[h] = pc[h]
    BY <1>0
  <1>2. DOMAIN job = Procs
    BY <1>0
  <1>3. /\ job' = [h \in Procs |-> job'[h]] /\ job'[g] = j
        /\ \A h \in Procs : h # g => job'[h] = job[h]
    BY <1>2
  <1>4. \A h \in Procs : GoodJob(job'[h])
    BY <1>0, <1>3, Zenon
  <1>5. \A h \in Procs : GoodJob(job[h])'
    BY <1>4, Zenon DEF GoodJob, Midway, Job
  <1> QED BY <1>1, <1>3, <1>5, Zenon DEF Jobs

\* The program's start makes one call at a time, and leaves the lock alone.
Alone(g) == opened = Len(Start) \/ ((\A h \in Procs : pc[h] = "idle") /\ mu' = mu)

LEMMA EndedCalls ==
    ASSUME CallsInv, NEW g \in Procs, Over(g), cl.pc = "up", cl' = cl, opened' = opened,
           begun' \in 0..MaxCalls
    PROVE  CallsInv'
  <1>0. Jobs /\ Lock /\ StartsAlone /\ Counts
    BY DEF CallsInv
  <1>1. "idle" \in {"idle", "wait"} /\ GoodJob(NoJob)
    BY NoJobGood
  <1>2. /\ Jobs' /\ pc'[g] = "idle"
        /\ \A h \in Procs : h # g => pc'[h] = pc[h] /\ job'[h] = job[h]
    BY <1>0, <1>1, JobsKept, Zenon DEF Over
  <1>3. Lock'
    BY <1>0, <1>2, Zenon DEF Lock, Over
  <1>4. Offset'
    BY Zenon DEF Offset, Over
  <1>5. Quiet' /\ Counts'
    BY <1>0, Zenon DEF Quiet, Counts
  <1>6. StartsAlone'
    <2>1. \A h \in Procs : pc'[h] = "wait" => pc[h] = "wait"
      BY <1>2
    <2> QED BY <1>0, <2>1, Zenon DEF StartsAlone, Over
  <1> QED BY <1>2, <1>3, <1>4, <1>5, <1>6, Zenon DEF CallsInv

LEMMA AskedCalls ==
    ASSUME CallsInv, NEW g \in Procs, NEW j, AsksNext(g, j), cl.pc = "up", cl' = cl, opened' = opened,
           Alone(g), begun' \in 0..MaxCalls
    PROVE  CallsInv'
  <1>0. Jobs /\ Lock /\ StartsAlone /\ Counts /\ Offset
    BY DEF CallsInv
  <1>1. "wait" \in {"idle", "wait"} /\ GoodJob(j)
    BY DEF AsksNext
  <1>2. /\ Jobs' /\ pc'[g] = "wait" /\ job'[g] = j
        /\ \A h \in Procs : h # g => pc'[h] = pc[h] /\ job'[h] = job[h]
    BY <1>0, <1>1, JobsKept, Zenon DEF AsksNext, rpc
  <1>3. Lock'
    BY <1>0, <1>2, Zenon DEF Lock, AsksNext
  <1>4. Offset'
    BY <1>0, Zenon DEF Offset, AsksNext
  <1>5. Quiet' /\ Counts'
    BY <1>0, Zenon DEF Quiet, Counts
  <1>6. StartsAlone'
    <2>1. CASE opened = Len(Start)
      <3>1. ~(opened' < Len(Start))
        BY <1>0, <2>1 DEF Counts
      <3> QED BY <3>1, Zenon DEF StartsAlone
    <2>2. CASE (\A h \in Procs : pc[h] = "idle") /\ mu' = mu
      <3>1. \A h \in Procs : h # g => pc'[h] # "wait"
        BY <1>2, <2>2
      <3> QED BY <1>0, <2>2, <3>1, Zenon DEF StartsAlone
    <2> QED BY <2>1, <2>2, Zenon DEF Alone
  <1> QED BY <1>2, <1>3, <1>4, <1>5, <1>6, Zenon DEF CallsInv

\* The rest of the state is as it was, but that a reply may have been taken.
Leaves ==
    /\ sc' = sc /\ cl' = cl /\ sv' = sv /\ work' = work /\ lost' = lost /\ s2c' \subseteq s2c
    /\ fs' = fs /\ fids' = fids

LEMMA EndedKeeps ==
    ASSUME IInv, NEW g \in Procs, Ended(g), Leaves, cl.pc = "up", opened' = opened,
           begun' \in 0..MaxCalls, ~cl.reading \/ None(g)'
    PROVE  IInv'
  <1>0. SessionInv /\ CallsInv /\ OneMessage /\ Served
    BY DEF IInv
  <1>1. CallsInv'
    BY <1>0, EndedCalls, Zenon DEF Ended, Leaves
  <1>2. SessionInv'
    <2>1. c2s' \in Seq(Envelope(Requests(maxIO), sv.unix))
      BY <1>0, Zenon DEF SessionInv, OnWay, Ended
    <2> QED BY <1>0, <2>1, UpSession, Zenon DEF Leaves
  <1>3. OneMessage'
    <2>1. pc \in [Procs -> {"idle", "wait"}] /\ pc' = [pc EXCEPT ![g] = "idle"] /\ c2s' = c2s
      BY <1>0, Zenon DEF CallsInv, Jobs, Ended, Over
    <2>2. cl' = cl /\ work' = work /\ s2c' \subseteq s2c
      BY Zenon DEF Leaves
    <2> QED BY <1>0, <2>1, <2>2, EndedOne
  <1>4. Served'
    BY <1>0, Zenon DEF Served, Leaves
  <1> QED BY <1>1, <1>2, <1>3, <1>4, Zenon DEF IInv

LEMMA AskedKeeps ==
    ASSUME IInv, NEW g \in Procs, Asked(g), Leaves, cl.pc = "up", opened' = opened,
           Alone(g), begun' \in 0..MaxCalls, AbsentQ(c2s, g), Absent(work, g), Absent(s2c', g)
    PROVE  IInv'
  <1>0. SessionInv /\ CallsInv /\ OneMessage /\ Served
    BY DEF IInv
  <1>1. PICK j : AsksNext(g, j)
    BY Zenon DEF Asked
  <1>2. CallsInv'
    BY <1>0, <1>1, AskedCalls, Zenon DEF Leaves
  <1> DEFINE S == Envelope(Requests(maxIO), sv.unix)
             x == Sent(g, request(j), cl.unix)
  <1>3. c2s \in Seq(S) /\ Ends /\ cl.unix = sv.unix
    BY <1>0, Zenon DEF SessionInv, OnWay, Agreed
  <1>4. c2s' = Append(c2s, x)
    BY <1>1, Zenon DEF AsksNext, rpc, write
  <1>5. x \in S
    <2>1. request(j) \in Requests(maxIO)
      BY <1>1, <1>3, RequestMade, Zenon DEF AsksNext
    <2> DEFINE R == Requests(maxIO)
               r == request(j)
    <2> HIDE DEF R, r
    <2>2. r \in R
      BY <2>1 DEF R, r
    <2>3. [tag |-> g, msg |-> r, unix |-> cl.unix] \in [tag : Procs, msg : R, unix : {sv.unix}]
      BY <1>3, <2>2
    <2> QED BY <2>3, Zenon DEF Sent, Envelope, R, r
  <1> HIDE DEF S
  <1>6. SessionInv'
    <2> HIDE DEF x
    <2>1. Append(c2s, x) \in Seq(S)
      BY <1>3, <1>5
    <2>2. c2s' \in Seq(Envelope(Requests(maxIO), sv.unix))
      BY <1>4, <2>1, Zenon DEF S
    <2> QED BY <1>0, <2>2, UpSession, Zenon DEF Leaves
  <1>7. OneMessage'
    <2>1. pc \in [Procs -> {"idle", "wait"}] /\ pc' = [pc EXCEPT ![g] = "wait"]
      BY <1>0, <1>1, Zenon DEF CallsInv, Jobs, AsksNext, rpc
    <2>2. cl' = cl /\ work' = work /\ s2c' \subseteq s2c
      BY Zenon DEF Leaves
    <2> DEFINE m == request(j)
               u == cl.unix
    <2>3. Sent(g, m, u) \in S /\ c2s' = Append(c2s, Sent(g, m, u))
      BY <1>4, <1>5
    <2> HIDE DEF m, u
    <2> QED BY <1>0, <1>3, <2>1, <2>2, <2>3, AskedOne
  <1>8. Served'
    BY <1>0, Zenon DEF Served, Leaves
  <1> QED BY <1>2, <1>6, <1>7, <1>8, Zenon DEF IInv

-----------------------------------------------------------------------------
(***************************************************************************)
(* The actions of the goroutines.                                          *)
(***************************************************************************)

LEMMA WaitsUp ==
    ASSUME CallsInv, NEW g \in Procs, pc[g] = "wait" \/ opened = Len(Start)
    PROVE  cl.pc = "up"
  <1>1. Quiet
    BY DEF CallsInv
  <1>2. "wait" # "idle" /\ Len(Start) # 0
    BY DEF Start
  <1> QED BY <1>1, <1>2, Zenon DEF Quiet

LEMMA FailKeeps ==
    ASSUME IInv, NEW g \in Procs, Fail(g)
    PROVE  IInv'
  <1>0. CallsInv /\ Offset /\ GoodJob(job[g])
    BY Zenon DEF IInv, CallsInv, Jobs
  <1>1. /\ pc[g] = "wait" /\ ~cl.reading /\ cl.pc = "up"
    BY <1>0, WaitsUp, Zenon DEF Fail
  <1>2. Leaves /\ c2s' = c2s /\ opened' = opened /\ begun' = begun
    <2>1. /\ sc' = sc /\ cl' = cl /\ sv' = sv /\ work' = work /\ lost' = lost /\ s2c' = s2c
          /\ fs' = fs /\ fids' = fids /\ c2s' = c2s /\ opened' = opened /\ begun' = begun
      BY Zenon DEF Fail, sessionVars
    <2> QED BY <2>1, Zenon DEF Leaves
  <1> DEFINE j == job[g]
  <1>3. Midway(j)
    BY <1>0, Zenon DEF GoodJob
  <1>4. Ended(g)
    <2>1. CASE j.call.op \in {"Write", "WriteAt"}
      <3>1. leaveWrite(g, j, "error")
        BY <2>1 DEF Fail
      <3>2. j.total \in Nat
        BY <1>3, <2>1 DEF Midway
      <3>3. mu # g
        BY <1>0, <2>1, NotLocked
      <3> HIDE DEF j
      <3> QED BY <1>0, <1>2, <2>1, <3>1, <3>2, <3>3, WriteLeft
    <2>2. CASE j.call.op = "Seek"
      <3>1. sought(g, j, FALSE, 0)
        BY <2>2 DEF Fail
      <3>2. GoodJob(j)
        BY <1>0
      <3> HIDE DEF j
      <3> QED BY <1>0, <1>2, <2>2, <3>1, <3>2, SoughtEnds DEF Ended
    <2>3. CASE j.call.op \notin {"Write", "WriteAt", "Seek"}
      <3>1. finish(g, j, "error")
        BY <2>3 DEF Fail
      <3>2. j.call.op \in {"Read", "Write"} => j.total = 0
        BY <1>3, <2>3 DEF Midway
      <3>3. mu # g
        BY <1>0, <2>3, NotLocked
      <3> HIDE DEF j
      <3> QED BY <1>0, <1>2, <2>3, <3>1, <3>2, <3>3, FinishEnds DEF Ended
    <2> QED BY <2>1, <2>2, <2>3
  <1>5. begun' \in 0..MaxCalls
    BY <1>0, <1>2, Zenon DEF CallsInv, Counts
  <1> QED BY <1>1, <1>2, <1>4, <1>5, EndedKeeps

LEMMA ReceiveKeeps ==
    ASSUME IInv, NEW g \in Procs, Receive(g)
    PROVE  IInv'
  <1>0. SessionInv /\ CallsInv /\ OneMessage /\ Ends /\ Offset /\ GoodJob(job[g])
    BY Zenon DEF IInv, SessionInv, CallsInv, Jobs
  <1>1. /\ pc[g] = "wait" /\ opened = Len(Start) /\ sc' = sc /\ cl' = cl /\ sv' = sv /\ work' = work
        /\ fs' = fs /\ fids' = fids /\ begun' = begun /\ opened' = opened
    BY Zenon DEF Receive
  <1>2. cl.pc = "up"
    BY <1>0, <1>1, WaitsUp, Zenon
  <1> DEFINE j == job[g]
             op == j.call.op
             R(e) == Received(e, cl.limit, cl.unix)
  <1>3. PICK e \in s2c :
          /\ e.tag = g /\ deliver(e, R(e))
          /\ \/ op = "Read" /\ readReply(g, j, R(e).msg) /\ c2s' = c2s
             \/ op = "ReadAt" /\ readAtReply(g, j, R(e).msg)
             \/ op \in {"Write", "WriteAt"} /\ writeAtReply(g, j, R(e).msg)
             \/ op = "Seek" /\ seekReply(g, j, R(e).msg)
             \/ op = "ReadDir" /\ readDirReply(g, j, R(e).msg)
             \/ op = "rpc" /\ otherReply(g, j, R(e).msg)
    BY Zenon DEF Receive
  <1> DEFINE r == R(e)
             m == r.msg
  <1>4. r.ok /\ s2c' = s2c \ {e} /\ lost' = lost \cup misread(e, r)
    BY <1>3, Zenon DEF deliver
  <1>5. misread(e, r) = {} /\ (r.ok => m \in Replies(maxIO))
    BY <1>0, <1>2, ReplyRead, Zenon
  <1>6. m \in Replies(maxIO)
    BY <1>4, <1>5, Zenon
  <1>7. Leaves
    <2>1. lost' = lost /\ s2c' \subseteq s2c
      <3> HIDE DEF r
      <3> QED BY <1>4, <1>5
    <2> QED BY <1>1, <2>1, Zenon DEF Leaves
  <1>8. op # "Seek" => mu # g
    BY <1>0, NotLocked, Zenon
  <1>9. GoodJob(j)
    BY <1>0, Zenon
  <1>10. Ended(g) \/ Asked(g)
    <2>1. \/ op = "Read" /\ readReply(g, j, m) /\ c2s' = c2s
          \/ op = "ReadAt" /\ readAtReply(g, j, m)
          \/ op \in {"Write", "WriteAt"} /\ writeAtReply(g, j, m)
          \/ op = "Seek" /\ seekReply(g, j, m)
          \/ op = "ReadDir" /\ readDirReply(g, j, m)
          \/ op = "rpc" /\ otherReply(g, j, m)
      BY <1>3, Zenon
    <2> HIDE DEF j, m
    <2>2. ASSUME op = "Read", readReply(g, j, m), c2s' = c2s PROVE Ended(g)
      BY <1>0, <1>6, <1>8, <1>9, <2>2, ReadReply DEF Ended
    <2>3. ASSUME op = "ReadAt", readAtReply(g, j, m) PROVE Ended(g) \/ Asked(g)
      BY <1>0, <1>6, <1>8, <1>9, <2>3, ReadAtReply
    <2>4. ASSUME op \in {"Write", "WriteAt"}, writeAtReply(g, j, m) PROVE Ended(g) \/ Asked(g)
      BY <1>0, <1>6, <1>8, <1>9, <2>4, WriteAtReply
    <2>5. ASSUME op = "Seek", seekReply(g, j, m) PROVE Ended(g)
      BY <1>0, <1>6, <1>9, <2>5, SeekReply
    <2>6. ASSUME op = "ReadDir", readDirReply(g, j, m) PROVE Ended(g) \/ Asked(g)
      BY <1>0, <1>6, <1>8, <1>9, <2>6, ReadDirReply
    <2>7. ASSUME op = "rpc", otherReply(g, j, m) PROVE Ended(g)
      BY <1>0, <1>8, <2>7, OtherReply
    <2> QED BY <2>1, <2>2, <2>3, <2>4, <2>5, <2>6, <2>7, Zenon
  <1>11. AbsentQ(c2s, g) /\ Absent(work, g) /\ Absent(s2c', g)
    BY <1>0, <1>3, <1>4, TakenOff, Zenon
  <1>12. begun' \in 0..MaxCalls
    BY <1>0, <1>1, Zenon DEF CallsInv, Counts
  <1>13. ASSUME Ended(g) PROVE IInv'
    <2>1. None(g)'
      BY <1>1, <1>11, <1>13, Zenon DEF None, Ended
    <2> QED BY <1>1, <1>2, <1>7, <1>12, <1>13, <2>1, EndedKeeps
  <1>14. ASSUME Asked(g) PROVE IInv'
    <2>1. Alone(g)
      BY <1>1, Zenon DEF Alone
    <2> QED BY <1>1, <1>2, <1>7, <1>11, <1>12, <1>14, <2>1, AskedKeeps
  <1> QED BY <1>10, <1>13, <1>14

\* The job of a call that begins.
Begins(j, c) ==
    GoodJob(j) /\ j.call = c /\ j.total = 0 /\ (c.op = "Seek" => c.off \in Int)

LEMMA BegunJob ==
    ASSUME Offset, NEW c, isCall(c), NEW ns, NEW j, NEW a,
           a = IF c.op \in {"Read", "Write"} THEN offset ELSE c.off,
           j = Job(c, a, 0, <<>>, TRUE, ns)
    PROVE  Begins(j, c)
  <1>1. /\ j.call = c /\ j.at = a /\ j.total = 0
        /\ j = Job(j.call, j.at, j.total, j.got, j.clean, j.names)
    BY DEF Job
  <1>2. CASE c.op \in {"Read", "ReadAt"} /\ c.off \in Nat /\ c.n \in Nat
    <2>1. a \in Nat /\ 0 \in 0..c.n
      BY <1>2 DEF Offset
    <2>2. Midway(j) /\ c.op # "Seek"
      BY <1>1, <1>2, <2>1 DEF Midway
    <2> QED BY <1>1, <2>2, Zenon DEF GoodJob, Begins
  <1>3. CASE /\ c.op \in {"Write", "WriteAt"}
             /\ c.off \in Nat /\ c.data \in Seq(Int) /\ c.n = Len(c.data)
    <2>1. a \in Nat /\ 0 \in 0..c.n
      BY <1>3 DEF Offset
    <2>2. Midway(j) /\ c.op # "Seek"
      BY <1>1, <1>3, <2>1 DEF Midway
    <2> QED BY <1>1, <2>2, Zenon DEF GoodJob, Begins
  <1>4. CASE c.op = "Seek" /\ c.off \in Int
    BY <1>1, <1>4, Zenon DEF Midway, GoodJob, Begins
  <1>5. CASE c = ListDir
    <2>1. c.op = "ReadDir" /\ 0 \in Nat /\ "ReadDir" # "Seek"
      BY <1>5, CallParts
    <2> QED BY <1>1, <2>1, Zenon DEF Midway, GoodJob, Begins
  <1>6. CASE c.op = "rpc" /\ isMessage(c.msg) /\ type(c.msg) \in OtherRequests
    <2>1. c.msg \in Messages
      BY <1>6, MessageWellFormed, MessageMade, Zenon
    <2>2. c.op # "Seek"
      BY <1>6
    <2> QED BY <1>1, <1>6, <2>1, <2>2, Zenon DEF Midway, GoodJob, Begins
  <1> QED BY <1>2, <1>3, <1>4, <1>5, <1>6, Zenon DEF isCall

LEMMA BeginKeeps ==
    ASSUME IInv, NEW g \in Procs, NEW c \in Calls[sc.calls], Begin(g, c)
    PROVE  IInv'
  <1>0. SessionInv /\ CallsInv /\ OneMessage /\ Ends /\ Offset /\ Counts
    BY Zenon DEF IInv, SessionInv, CallsInv
  <1>1. isCall(c)
    BY <1>0, CallsAssumption, Zenon DEF Ends
  <1> DEFINE a == IF c.op \in {"Read", "Write"} THEN offset ELSE c.off
             j == [NoJob EXCEPT !.call = c, !.names = children, !.at = a]
  <1>2. /\ pc[g] = "idle" /\ opened = Len(Start) /\ begun < MaxCalls /\ begun' = begun + 1
        /\ sc' = sc /\ cl' = cl /\ sv' = sv /\ work' = work /\ s2c' = s2c /\ lost' = lost
        /\ fs' = fs /\ fids' = fids /\ opened' = opened
    BY Zenon DEF Begin
  <1>3. IF c.op = "Seek" /\ c.n # SeekEnd
        THEN /\ sought(g, j, TRUE, IF c.n = SeekStart THEN c.off ELSE offset + c.off)
             /\ c2s' = c2s
        ELSE IF c.op \in {"ReadAt", "Write", "WriteAt"} /\ c.n = 0
        THEN finish(g, j, "nil") /\ c2s' = c2s
        ELSE IF ~cl.reading
        THEN finish(g, j, "error") /\ c2s' = c2s
        ELSE /\ rpc(g, j)
             /\ mu' = IF c.op = "Seek" THEN g ELSE mu
             /\ UNCHANGED <<offset, returned, res>>
    BY DEF Begin
  <1>4. j = [NoJob EXCEPT !.call = c, !.names = children, !.at = a]
    OBVIOUS
  <1> DEFINE ns == children
  <1> HIDE DEF j, ns
  <1>5. GoodJob(j) /\ j.call = c /\ j.total = 0 /\ (c.op = "Seek" => c.off \in Int)
    <2>1. j = Job(c, a, 0, <<>>, TRUE, ns)
      <3> HIDE DEF a
      <3>1. j = [NoJob EXCEPT !.call = c, !.names = ns, !.at = a]
        BY <1>4 DEF ns
      <3> QED BY <3>1 DEF NoJob, Job
    <2>2. a = IF c.op \in {"Read", "Write"} THEN offset ELSE c.off
      OBVIOUS
    <2> HIDE DEF a
    <2>3. Offset /\ isCall(c)
      BY <1>0, <1>1
    <2>4. Begins(j, c)
      BY <2>1, <2>2, <2>3, BegunJob
    <2> QED BY <2>4, Zenon DEF Begins
  <1>6. Leaves /\ cl.pc = "up" /\ mu # g /\ begun' \in 0..MaxCalls /\ Alone(g)
    <2>1. cl.pc = "up" /\ mu # g
      <3>1. pc[g] # "wait"
        BY <1>2
      <3> QED BY <1>0, <1>2, <3>1, WaitsUp, NotLocked
    <2>2. begun' \in 0..MaxCalls
      BY <1>0, <1>2, CallsAssumption DEF Counts
    <2> QED BY <1>2, <2>1, <2>2, Zenon DEF Leaves, Alone
  <1>7. cl.reading => None(g)
    BY <1>0, <1>2, Zenon DEF OneMessage
  <1>8. ASSUME Ended(g) PROVE IInv'
    <2>1. ~cl.reading \/ None(g)'
      <3>1. CASE cl.reading
        BY <1>2, <1>7, <1>8, <3>1, Zenon DEF None, Ended
      <3> QED BY <3>1
    <2> QED BY <1>2, <1>6, <1>8, <2>1, EndedKeeps
  <1>9. CASE c.op = "Seek" /\ c.n # SeekEnd
    <2> DEFINE n == IF c.n = SeekStart THEN c.off ELSE offset + c.off
    <2>1. n \in Int
      BY <1>0, <1>5, <1>9 DEF Offset
    <2>2. sought(g, j, TRUE, n) /\ c2s' = c2s
      BY <1>3, <1>9
    <2> HIDE DEF n
    <2>3. Ended(g)
      BY <1>0, <1>5, <1>9, <2>1, <2>2, SoughtEnds DEF Ended
    <2> QED BY <1>8, <2>3
  <1> DEFINE empty == c.op \in {"ReadAt", "Write", "WriteAt"} /\ c.n = 0
  <1>10. CASE ~(c.op = "Seek" /\ c.n # SeekEnd) /\ (empty \/ ~cl.reading)
    <2>1. PICK err : finish(g, j, err) /\ c2s' = c2s /\ (c.op = "Seek" => err # "nil")
      <3>1. \/ finish(g, j, "nil") /\ c2s' = c2s /\ empty
            \/ finish(g, j, "error") /\ c2s' = c2s
        BY <1>3, <1>10, Zenon
      <3>2. empty => c.op # "Seek"
        OBVIOUS
      <3> HIDE DEF empty
      <3>3. "error" # "nil"
        OBVIOUS
      <3> QED BY <3>1, <3>2, <3>3, Zenon
    <2>2. Ended(g)
      BY <1>0, <1>5, <1>6, <2>1, FinishEnds DEF Ended
    <2> QED BY <1>8, <2>2
  <1>11. CASE ~(c.op = "Seek" /\ c.n # SeekEnd) /\ ~empty /\ cl.reading
    <2>1. rpc(g, j) /\ mu' = (IF c.op = "Seek" THEN g ELSE mu) /\ offset' = offset /\ returned' = returned
      BY <1>3, <1>11, Zenon
    <2>2. AsksNext(g, j)
      BY <1>5, <1>6, <2>1, Zenon DEF AsksNext
    <2>3. Asked(g)
      BY <2>2, Zenon DEF Asked
    <2>4. AbsentQ(c2s, g) /\ Absent(work, g) /\ Absent(s2c', g)
      BY <1>2, <1>7, <1>11, Zenon DEF None
    <2> QED BY <1>2, <1>6, <2>3, <2>4, AskedKeeps
  <1> QED BY <1>9, <1>10, <1>11

\* The requests of the program's start.
Begun(m) == m \in Messages /\ type(m) \in OtherRequests

LEMMA WalkBegun ==
    ASSUME NEW f \in Nat, NEW names \in Seq(Nat), Len(names) <= 1
    PROVE  Begun(Msg("Twalk", <<RootFid, f, names>>))
  <1>1. newMessage(TRUE)["Twalk"] = <<"u32", "u32", "names">> /\ "Twalk" \in Types /\ RootFid \in Nat
    BY MessageTable DEF Types, TreeTypes, RootFid
  <1>2. "u32" \in FieldKinds /\ "names" \in FieldKinds /\ RootFid \in FieldOf("u32") /\ f \in FieldOf("u32")
    BY <1>1, KindsHold
  <1>3. names \in FieldOf("names")
    <2>1. Len(names) <= MaxWElem
      BY DEF MaxWElem
    <2> QED BY <2>1, KindsHold, Zenon DEF ListOf
  <1> DEFINE v == <<RootFid, f, names>>
  <1>4. WellFormed(Msg("Twalk", v))
    BY <1>1, <1>2, <1>3, Message3
  <1>5. v \in Seq(Nat \cup Seq(Nat))
    BY <1>1
  <1> HIDE DEF v
  <1>6. type(Msg("Twalk", v)) = "Twalk"
    BY <1>5, MsgParts, Zenon
  <1>7. "Twalk" \in OtherRequests
    BY DEF OtherRequests
  <1>8. Begun(Msg("Twalk", v))
    BY <1>4, <1>6, <1>7, MessageMade, Zenon DEF Begun
  <1> QED BY <1>8 DEF v

LEMMA OpenBegun ==
    ASSUME NEW f \in Nat, NEW mode \in Nat
    PROVE  Begun(Msg("Topen", <<f, mode>>))
  <1>1. newMessage(TRUE)["Topen"] = <<"u32", "u8">> /\ "Topen" \in Types
    BY MessageTable DEF Types, TreeTypes
  <1>2. "u32" \in FieldKinds /\ "u8" \in FieldKinds /\ f \in FieldOf("u32") /\ mode \in FieldOf("u8")
    BY KindsHold
  <1> DEFINE v == <<f, mode>>
  <1>4. WellFormed(Msg("Topen", v))
    BY <1>1, <1>2, Message2
  <1>5. v \in Seq(Nat)
    OBVIOUS
  <1> HIDE DEF v
  <1>6. type(Msg("Topen", v)) = "Topen"
    BY <1>5, MsgParts, Zenon
  <1>7. "Topen" \in OtherRequests
    BY DEF OtherRequests
  <1>8. Begun(Msg("Topen", v))
    BY <1>4, <1>6, <1>7, MessageMade, Zenon DEF Begun
  <1> QED BY <1>8 DEF v

LEMMA AttachBegun == Begun(Msg("Tattach", <<RootFid, 0, 2, 0>>))
  <1>1. newMessage(TRUE)["Tattach"] = <<"u32", "u32", "str", "str">> /\ "Tattach" \in Types /\ RootFid \in Nat
    BY MessageTable DEF Types, SessionTypes, RootFid
  <1>2. /\ "u32" \in FieldKinds /\ "str" \in FieldKinds /\ RootFid \in FieldOf("u32")
        /\ 0 \in FieldOf("u32") /\ 2 \in FieldOf("str") /\ 0 \in FieldOf("str")
    BY <1>1, KindsHold
  <1> DEFINE v == <<RootFid, 0, 2, 0>>
  <1>4. WellFormed(Msg("Tattach", v))
    BY <1>1, <1>2, Message4
  <1>5. v \in Seq(Nat)
    BY <1>1
  <1> HIDE DEF v
  <1>6. type(Msg("Tattach", v)) = "Tattach"
    BY <1>5, MsgParts, Zenon
  <1>7. "Tattach" \in OtherRequests
    BY DEF OtherRequests
  <1>8. Begun(Msg("Tattach", v))
    BY <1>4, <1>6, <1>7, MessageMade, Zenon DEF Begun
  <1> QED BY <1>8 DEF v

LEMMA StartBegun ==
    Len(Start) = 6 /\ \A i \in 1..6 : Begun(Start[i])
  <1> DEFINE a == Msg("Tattach", <<RootFid, 0, 2, 0>>)
             b == Msg("Twalk", <<RootFid, FileFid, <<FileName>> >>)
             c == Msg("Topen", <<FileFid, 2>>)
             d == Msg("Twalk", <<RootFid, DirFid, <<>> >>)
             e == Msg("Topen", <<DirFid, 0>>)
             f == Msg("Twalk", <<RootFid, MakeFid, <<>> >>)
  <1>1. Start = <<a, b, c, d, e, f>>
    BY DEF Start
  <1>2. FileFid \in Nat /\ DirFid \in Nat /\ MakeFid \in Nat /\ FileName \in Nat /\ 0 \in Nat /\ 2 \in Nat
    BY DEF FileFid, DirFid, MakeFid, FileName
  <1>3. /\ <<FileName>> \in Seq(Nat) /\ Len(<<FileName>>) <= 1
        /\ <<>> \in Seq(Nat) /\ Len(<<>>) <= 1
    BY <1>2
  <1>4. Begun(a) /\ Begun(b) /\ Begun(c) /\ Begun(d) /\ Begun(e) /\ Begun(f)
    <2>1. Begun(b)
      BY <1>2, <1>3, WalkBegun, Zenon
    <2>2. Begun(d) /\ Begun(f)
      BY <1>2, <1>3, WalkBegun, Zenon
    <2>3. Begun(c) /\ Begun(e)
      BY <1>2, OpenBegun, Zenon
    <2> QED BY <2>1, <2>2, <2>3, AttachBegun, Zenon
  <1> DEFINE s == <<a, b, c, d, e, f>>
  <1> HIDE DEF a, b, c, d, e, f
  <1>5. Len(s) = 6 /\ s[1] = a /\ s[2] = b /\ s[3] = c /\ s[4] = d /\ s[5] = e /\ s[6] = f
    OBVIOUS
  <1>6. Start = s
    BY <1>1
  <1> HIDE DEF s
  <1>7. \A i \in 1..6 : i = 1 \/ i = 2 \/ i = 3 \/ i = 4 \/ i = 5 \/ i = 6
    OBVIOUS
  <1>8. \A i \in 1..6 : Begun(s[i])
    BY <1>4, <1>5, <1>7, Zenon
  <1> QED BY <1>5, <1>6, <1>8, Zenon

LEMMA StartingKeeps ==
    ASSUME IInv, Starting
    PROVE  IInv'
  <1>0. SessionInv /\ CallsInv /\ OneMessage /\ Served /\ Counts /\ StartsAlone /\ Jobs /\ Lock /\ Offset
    BY Zenon DEF IInv, CallsInv
  <1>1. /\ cl.pc = "up" /\ opened < Len(Start)
        /\ fs' = fs /\ fids' = fids /\ offset' = offset /\ mu' = mu /\ begun' = begun
        /\ returned' = returned
    BY Zenon DEF Starting
  <1>2. begun' \in 0..MaxCalls /\ opened \in Nat /\ opened + 1 \in 1..6 /\ mu = Nobody
    <2>1. mu = Nobody /\ begun' \in 0..MaxCalls
      BY <1>0, <1>1, Zenon DEF StartsAlone, Counts
    <2> QED BY <1>0, <1>1, <2>1, StartBegun DEF Counts
  <1>3. PICK g \in Procs :
          \/ /\ \A h \in Procs : pc[h] = "idle"
             /\ cl.reading
             /\ rpc(g, [NoJob EXCEPT !.call = Rpc(Start[opened + 1])])
             /\ UNCHANGED <<sc, cl, sv, work, s2c, lost, opened>>
          \/ /\ pc[g] = "wait"
             /\ \E e \in s2c : deliver(e, Received(e, cl.limit, cl.unix))
             /\ pc' = [pc EXCEPT ![g] = "idle"]
             /\ opened' = opened + 1
             /\ UNCHANGED <<sc, cl, sv, c2s, work, job>>
    BY Zenon DEF Starting
  <1>4. CASE /\ \A h \in Procs : pc[h] = "idle"
             /\ cl.reading
             /\ rpc(g, [NoJob EXCEPT !.call = Rpc(Start[opened + 1])])
             /\ UNCHANGED <<sc, cl, sv, work, s2c, lost, opened>>
    <2> DEFINE m == Start[opened + 1]
               c == Rpc(m)
               j == [NoJob EXCEPT !.call = c]
    <2>1. Begun(m)
      BY <1>2, StartBegun, Zenon
    <2>2. c.op = "rpc" /\ c.msg = m
      <3> HIDE DEF m
      <3> QED BY CallParts
    <2> HIDE DEF c
    <2>3. j = [NoJob EXCEPT !.call = c] /\ rpc(g, j)
      BY <1>4, Zenon DEF c
    <2> HIDE DEF j
    <2>4. j = Job(c, 0, 0, <<>>, TRUE, {})
      BY <2>3 DEF NoJob, Job
    <2>5. j.call = c /\ j = Job(j.call, j.at, j.total, j.got, j.clean, j.names)
      BY <2>4 DEF Job
    <2>6. GoodJob(j)
      BY <2>1, <2>2, <2>5, Zenon DEF GoodJob, Midway, Begun
    <2>7. mu # g
      BY <1>2, CallsAssumption, Zenon
    <2>8. Asked(g)
      BY <1>1, <2>3, <2>6, <2>7, Zenon DEF Asked, AsksNext
    <2>9. Leaves /\ opened' = opened /\ Alone(g)
      BY <1>1, <1>4, Zenon DEF Leaves, Alone
    <2>10. AbsentQ(c2s, g) /\ Absent(work, g) /\ Absent(s2c', g)
      BY <1>0, <1>4, Zenon DEF OneMessage, None
    <2> QED BY <1>1, <1>2, <2>8, <2>9, <2>10, AskedKeeps
  <1>5. CASE /\ pc[g] = "wait"
             /\ \E e \in s2c : deliver(e, Received(e, cl.limit, cl.unix))
             /\ pc' = [pc EXCEPT ![g] = "idle"]
             /\ opened' = opened + 1
             /\ UNCHANGED <<sc, cl, sv, c2s, work, job>>
    <2>1. PICK e \in s2c : deliver(e, Received(e, cl.limit, cl.unix))
      BY <1>5
    <2> DEFINE r == Received(e, cl.limit, cl.unix)
    <2>2. cl.reading /\ s2c' = s2c \ {e} /\ lost' = lost \cup misread(e, r)
      BY <2>1, Zenon DEF deliver
    <2>3. misread(e, r) = {} /\ e.tag \in Procs
      BY <1>0, <1>1, ReplyRead, Zenon
    <2> HIDE DEF r
    <2>4. e.tag = g
      <3>1. ~None(e.tag)
        BY Zenon DEF None, Absent
      <3>2. pc[e.tag] # "idle"
        BY <1>0, <2>2, <2>3, <3>1, Zenon DEF OneMessage
      <3>3. pc[e.tag] \in {"idle", "wait"}
        BY <1>0, <2>3 DEF Jobs
      <3>4. pc[e.tag] = "wait"
        BY <3>2, <3>3
      <3> QED BY <1>0, <1>1, <1>5, <2>3, <3>4, Zenon DEF StartsAlone
    <2>5. AbsentQ(c2s, g) /\ Absent(work, g) /\ Absent(s2c', g)
      BY <1>0, <2>2, <2>4, TakenOff, Zenon
    <2>6. /\ sc' = sc /\ cl' = cl /\ sv' = sv /\ c2s' = c2s /\ work' = work /\ job' = job
          /\ lost' = lost /\ s2c' \subseteq s2c
      BY <1>5, <2>2, <2>3
    <2>7. SessionInv'
      <3>1. c2s' \in Seq(Envelope(Requests(maxIO), sv.unix))
        BY <1>0, <1>1, <2>6, Zenon DEF SessionInv, OnWay
      <3> QED BY <1>0, <1>1, <2>6, <3>1, UpSession
    <2>8. OneMessage'
      <3>1. pc \in [Procs -> {"idle", "wait"}]
        BY <1>0 DEF Jobs
      <3>2. None(g)'
        BY <2>5, <2>6, Zenon DEF None
      <3> QED BY <1>0, <1>5, <2>6, <3>1, <3>2, EndedOne
    <2>9. /\ Jobs' /\ pc'[g] = "idle"
          /\ \A h \in Procs : h # g => pc'[h] = pc[h] /\ job'[h] = job[h]
      <3>1. job = [h \in Procs |-> job[h]] /\ GoodJob(job[g])
        BY <1>0, Zenon DEF Jobs
      <3>2. job' = [job EXCEPT ![g] = job[g]]
        BY <2>6, <3>1
      <3>3. "idle" \in {"idle", "wait"} /\ pc' = [pc EXCEPT ![g] = "idle"]
        BY <1>5
      <3> QED BY <1>0, <3>1, <3>2, <3>3, JobsKept, Zenon
    <2>10. CallsInv'
      <3>1. Lock' /\ Offset'
        BY <1>0, <1>1, <1>2, Zenon DEF Lock, Offset
      <3>2. Quiet'
        BY <1>1, <2>6, Zenon DEF Quiet
      <3>3. Counts'
        <4>1. opened' \in 0..Len(Start)
          BY <1>2, <1>5, StartBegun
        <4> QED BY <1>2, <4>1, Zenon DEF Counts
      <3>4. StartsAlone'
        <4>1. \A h \in Procs : pc'[h] = "wait" => pc[h] = "wait"
          BY <2>9
        <4>2. mu' = Nobody
          BY <1>1, <1>2
        <4> QED BY <1>0, <1>1, <4>1, <4>2, Zenon DEF StartsAlone
      <3> QED BY <2>9, <3>1, <3>2, <3>3, <3>4, Zenon DEF CallsInv
    <2>11. Served'
      BY <1>0, <1>1, Zenon DEF Served
    <2> QED BY <2>7, <2>8, <2>10, <2>11, Zenon DEF IInv
  <1> QED BY <1>3, <1>4, <1>5

LEMMA StutterKeeps ==
    ASSUME IInv, UNCHANGED vars
    PROVE  IInv'
  <1>1. /\ sc' = sc /\ cl' = cl /\ sv' = sv /\ c2s' = c2s /\ work' = work /\ s2c' = s2c /\ lost' = lost
        /\ fs' = fs /\ fids' = fids /\ offset' = offset /\ mu' = mu /\ pc' = pc /\ job' = job
        /\ begun' = begun /\ opened' = opened /\ returned' = returned
    BY DEF vars, sessionVars, ioVars
  <1>2. /\ Ends => Ends'
        /\ Unversioned => Unversioned'
        /\ GivenUp => GivenUp'
        /\ Agreed => Agreed'
    BY <1>1, Zenon DEF Ends, Unversioned, Fresh, Silent, GivenUp, Agreed, agreedSize, maxMsize, least
  <1>3. Versioning => Versioning'
    BY <1>1, Zenon DEF Versioning, Fresh, Question, Refusal, Answered, Answer, agreedSize, maxMsize, least
  <1>4. OnWay => OnWay'
    <2>1. maxIO' = maxIO
      BY <1>1, SameMax
    <2> QED BY <1>1, <2>1, Zenon DEF OnWay, Envelope, Requests, Replies
  <1>5. CallsInv => CallsInv'
    <2>1. ASSUME Jobs PROVE Jobs'
      <3>1. job' = [g \in Procs |-> job'[g]]
        BY <1>1, <2>1, Zenon DEF Jobs
      <3>2. \A g \in Procs : GoodJob(job'[g])
        BY <1>1, <2>1, Zenon DEF Jobs
      <3>3. \A g \in Procs : GoodJob(job[g])'
        BY <3>2, Zenon DEF GoodJob, Midway, Job
      <3> QED BY <1>1, <2>1, <3>1, <3>3, Zenon DEF Jobs
    <2>2. Lock /\ Quiet /\ StartsAlone => Lock' /\ Quiet' /\ StartsAlone'
      BY <1>1, Zenon DEF Lock, Quiet, StartsAlone
    <2>3. Offset /\ Counts => Offset' /\ Counts'
      BY <1>1, Zenon DEF Offset, Counts
    <2> QED BY <2>1, <2>2, <2>3, Zenon DEF CallsInv
  <1>6. OneMessage => OneMessage'
    BY <1>1, Zenon DEF OneMessage, Lone, None, Absent, AbsentQ, Single, SingleQ
  <1>7. Served => Served'
    BY <1>1, Zenon DEF Served
  <1> QED BY <1>1, <1>2, <1>3, <1>4, <1>5, <1>6, <1>7, Zenon DEF IInv, SessionInv


-----------------------------------------------------------------------------
(***************************************************************************)
(* The initial state.                                                      *)
(***************************************************************************)

\* The directory and the file that every scenario starts with.
File(name, dir, data, kids, parent) ==
    [name |-> name, dir |-> dir, target |-> 0, vers |-> 0, data |-> data, children |-> kids,
     parent |-> parent]

Linked(f, kids) == [f EXCEPT !.children = kids]
Filled(f, data) == [f EXCEPT !.data = data]

LEMMA FileLinked ==
    ASSUME NEW n, NEW dir, NEW data, NEW kids, NEW p, NEW k
    PROVE  Linked(File(n, dir, data, kids, p), k) = File(n, dir, data, k, p)
  BY DEF File, Linked

LEMMA FileFilled ==
    ASSUME NEW n, NEW dir, NEW data, NEW kids, NEW p, NEW d
    PROVE  Filled(File(n, dir, data, kids, p), d) = File(n, dir, d, kids, p)
  BY DEF File, Filled

LEMMA PairIn ==
    ASSUME NEW S, NEW x \in S, NEW y \in S, NEW s, s = <<x, y>>
    PROVE  s \in Seq(S)
  OBVIOUS

LEMMA PairMade ==
    ASSUME NEW x, NEW y
    PROVE  Append(<<x>>, y) = <<x, y>>
  <1> DEFINE S == {x, y}
             a == <<x>>
             b == <<x, y>>
             c == Append(a, y)
  <1>1. x \in S /\ y \in S
    OBVIOUS
  <1> HIDE DEF S
  <1>2. a \in Seq(S) /\ Len(a) = 1 /\ a[1] = x
    BY <1>1
  <1>3. b \in Seq(S) /\ Len(b) = 2 /\ b[1] = x /\ b[2] = y
    BY <1>1
  <1> HIDE DEF a, b
  <1>4. c \in Seq(S) /\ Len(c) = 2 /\ c[1] = x /\ c[2] = y
    <2>1. c \in Seq(S) /\ Len(c) = Len(a) + 1 /\ c[Len(a) + 1] = y
      BY <1>1, <1>2, AppendProperties, SMTT(40)
    <2>2. \A i \in 1..Len(a) : c[i] = a[i]
      BY <1>1, <1>2, AppendProperties
    <2> HIDE DEF c
    <2> QED BY <1>2, <2>1, <2>2
  <1> HIDE DEF c
  <1>5. c = b
    BY <1>3, <1>4
  <1> QED BY <1>5 DEF a, b, c

\* A file system of two nodes.
LEMMA PairPut ==
    ASSUME NEW r, NEW f, NEW s, s = <<r, f>>
    PROVE  /\ Len(s) = 2 /\ s[1] = r /\ s[2] = f
           /\ \A x : [s EXCEPT ![1] = x] = <<x, f>>
           /\ \A x : [s EXCEPT ![2] = x] = <<r, x>>
  <1>1. Len(s) = 2 /\ s[1] = r /\ s[2] = f
    OBVIOUS
  <1>2. ASSUME NEW x PROVE [s EXCEPT ![1] = x] = <<x, f>>
    OBVIOUS
  <1>3. ASSUME NEW x PROVE [s EXCEPT ![2] = x] = <<r, x>>
    OBVIOUS
  <1> QED BY <1>1, <1>2, <1>3

LEMMA FirstTree ==
    ASSUME NEW data \in Seq(Int), NEW K, K = with(<<>>, FileName, 2)
    PROVE  LET f == Create(New, rootPath, FileName, FALSE)
               d == [f.fs EXCEPT ![f.val].data = data]
           IN  d = <<File(1, TRUE, <<>>, K, 0), File(FileName, FALSE, data, <<>>, rootPath)>>
  <1> DEFINE root == File(1, TRUE, <<>>, <<>>, 0)
             kid  == File(FileName, FALSE, <<>>, <<>>, rootPath)
             grown == newNode(New, FileName, FALSE, 0, rootPath)
             t == [grown EXCEPT ![rootPath].children = with(@, FileName, Len(grown))]
             f == Create(New, rootPath, FileName, FALSE)
             d == [f.fs EXCEPT ![f.val].data = data]
  <1>1. New = <<root>>
    BY DEF New, newNode, File
  <1>2. grown = <<root, kid>>
    <2>1. grown = Append(New, kid)
      BY DEF newNode, File
    <2> HIDE DEF root, kid, grown
    <2>2. Append(<<root>>, kid) = <<root, kid>>
      BY PairMade
    <2> QED BY <1>1, <2>1, <2>2, Zenon
  <1>3. root.dir = TRUE /\ root.children = <<>>
    BY DEF File
  <1>4. f = Result(t, Len(grown))
    <2>1. New[rootPath] = root
      <3> HIDE DEF root
      <3> QED BY <1>1 DEF rootPath
    <2>2. FileName \notin DOMAIN New[rootPath].children /\ New[rootPath].dir
      <3> HIDE DEF root
      <3> QED BY <1>3, <2>1 DEF FileName
    <2> QED BY <2>2, Zenon DEF Create, addChild
  <1> DEFINE base == File(1, TRUE, <<>>, K, 0)
  <1>5. t = <<base, kid>> /\ Len(grown) = 2
    <2>1. Len(grown) = 2 /\ grown[1] = root
      <3> HIDE DEF root, kid, grown
      <3> QED BY <1>2, PairPut
    <2>2. t = [grown EXCEPT ![1] = [root EXCEPT !.children = K]]
      <3>1. t = [grown EXCEPT ![1] = [grown[1] EXCEPT !.children = with(grown[1].children, FileName, Len(grown))]]
        BY DEF rootPath
      <3> QED BY <1>3, <2>1, <3>1
    <2>3. [root EXCEPT !.children = K] = base
      <3>1. Linked(root, K) = base
        <4>1. \A e, is : Linked(File(1, is, e, e, 0), K) = File(1, is, e, K, 0)
          BY FileLinked, SMT
        <4> QED BY <4>1, Zenon
      <3> HIDE DEF root, base
      <3> QED BY <3>1 DEF Linked
    <2> HIDE DEF root, kid, grown, base, t
    <2>4. t = [grown EXCEPT ![1] = base]
      BY <2>2, <2>3
    <2> QED BY <1>2, <2>1, <2>4, PairPut
  <1> DEFINE file == File(FileName, FALSE, data, <<>>, rootPath)
  <1> HIDE DEF t, grown, f
  <1>6. f.fs = t /\ f.val = 2
    BY <1>4, <1>5 DEF Result
  <1>7. t[2] = kid
    <2> HIDE DEF base, kid
    <2> QED BY <1>5, PairPut
  <1>8. d = [t EXCEPT ![2] = [kid EXCEPT !.data = data]]
    BY <1>6, <1>7
  <1>9. [kid EXCEPT !.data = data] = file
    <2>1. Filled(kid, data) = file
      <3>1. \A e, is : Filled(File(FileName, is, e, e, rootPath), data) = File(FileName, is, data, e, rootPath)
        BY FileFilled, SMT
      <3> QED BY <3>1, Zenon
    <2> HIDE DEF kid, file
    <2> QED BY <2>1 DEF Filled
  <1>10. d = <<base, file>>
    <2> HIDE DEF base, kid, file, d
    <2>1. d = [t EXCEPT ![2] = file]
      BY <1>8, <1>9
    <2> QED BY <1>5, <2>1, PairPut
  <1> QED BY <1>10 DEF base, file, d, f

LEMMA FirstIsTree ==
    ASSUME NEW data \in Seq(Int), NEW K, K = with(<<>>, FileName, 2), NEW d,
           d = <<File(1, TRUE, <<>>, K, 0), File(FileName, FALSE, data, <<>>, rootPath)>>
    PROVE  /\ Tree(d) /\ d[rootPath].dir /\ DOMAIN d[rootPath].children = {FileName}
  <1> DEFINE r == File(1, TRUE, <<>>, K, 0)
             f == File(FileName, FALSE, data, <<>>, rootPath)
  <1>1. <<>> \in Kids(2)
    <2>1. /\ <<>> \in [DOMAIN <<>> -> 1..2] /\ DOMAIN <<>> \subseteq Nat /\ DOMAIN <<>> = {}
      OBVIOUS
    <2>2. IsFiniteSet(DOMAIN <<>>)
      BY <2>1, FS_EmptySet
    <2> QED BY <2>1, <2>2, KidsParts
  <1>2. K \in Kids(2) /\ DOMAIN K = {FileName}
    <2>1. FileName \in Nat /\ 2 \in 1..2 /\ 2 \in Nat
      BY DEF FileName
    <2>2. K \in Kids(2)
      BY <1>1, <2>1, KidsEdits
    <2>3. DOMAIN K = {FileName}
      BY DEF with
    <2> QED BY <2>2, <2>3
  <1>3. r \in Node(2)
    <2> HIDE DEF Kids
    <2> QED BY <1>2 DEF File, Node
  <1>4. f \in Node(2)
    <2> HIDE DEF Kids
    <2> QED BY <1>1 DEF File, Node, FileName, rootPath
  <1>5. r.dir /\ r.children = K
    BY DEF File
  <1> HIDE DEF r, f
  <1>6. d = <<r, f>>
    BY DEF r, f
  <1>7. d \in Seq(Node(2)) /\ Len(d) = 2 /\ d[1] = r
    <2> HIDE DEF Node
    <2>1. Len(d) = 2 /\ d[1] = r
      BY <1>6, PairPut, ZenonT(60)
    <2>2. d \in Seq(Node(2))
      BY <1>3, <1>4, <1>6, PairIn
    <2> QED BY <2>1, <2>2
  <1>8. Tree(d)
    <2>1. 2 >= 2
      OBVIOUS
    <2> QED BY <1>7, <2>1, Zenon DEF Tree
  <1> QED BY <1>2, <1>5, <1>7, <1>8 DEF rootPath

LEMMA InitTree ==
    ASSUME sc \in Scenarios
    PROVE  Tree(tree0)
  <1>1. sc.data \in Seq(Int) /\ sc.target \in Nat
    BY CallsAssumption, Zenon
  <1> DEFINE f == Create(New, rootPath, FileName, FALSE)
             d == [f.fs EXCEPT ![f.val].data = sc.data]
             K == with(<<>>, FileName, 2)
             r == Symlink(d, rootPath, LinkName, sc.target)
  <1>2. tree0 = IF sc.target = 0 THEN d ELSE r.fs
    BY Zenon DEF tree0
  <1>3. d = <<File(1, TRUE, <<>>, K, 0), File(FileName, FALSE, sc.data, <<>>, rootPath)>>
    <2> HIDE DEF K
    <2> QED BY <1>1, FirstTree DEF K
  <1> HIDE DEF f, d
  <1>4. Tree(d) /\ d[rootPath].dir /\ DOMAIN d[rootPath].children = {FileName}
    <2> HIDE DEF K
    <2>1. K = with(<<>>, FileName, 2)
      BY DEF K
    <2> QED BY <1>1, <1>3, <2>1, FirstIsTree
  <1>5. ASSUME sc.target # 0 PROVE Tree(r.fs)
    <2>1. /\ rootPath \in 1..Len(d) /\ LinkName \in Nat /\ FALSE \in BOOLEAN
          /\ LinkName \notin DOMAIN d[rootPath].children
      BY <1>4 DEF rootPath, LinkName, FileName, Tree
    <2>2. r = addChild(d, rootPath, LinkName, FALSE, sc.target)
      BY Zenon DEF Symlink
    <2>3. \/ Failed(r)
          \/ \E t : Makes(r, d, t, Len(d) + 1) /\ Len(t) = Len(d) + 1
      <3>1. \/ Failed(addChild(d, rootPath, LinkName, FALSE, sc.target))
            \/ \E t : /\ Makes(addChild(d, rootPath, LinkName, FALSE, sc.target), d, t, Len(d) + 1)
                      /\ Len(t) = Len(d) + 1
        BY <1>1, <1>4, <2>1, AddOutcome, Zenon
      <3> QED BY <2>2, <3>1, Zenon
    <2>4. \E t, v : r = Result(t, v)
      BY <1>4, <2>1, <2>2, Zenon DEF addChild
    <2> HIDE DEF r
    <2>5. r.ok
      BY <2>4 DEF Result
    <2>6. ~Failed(r)
      <3>1. \A len : ~(Failure(len).ok)
        BY DEF Failure
      <3> QED BY <2>5, <3>1, Zenon DEF Failed
    <2>7. PICK t : r = Result(t, Len(d) + 1) /\ Tree(t)
      BY <2>3, <2>6, Zenon DEF Makes, Grown
    <2>8. r.fs = t
      BY <2>7 DEF Result
    <2> QED BY <2>7, <2>8, Zenon
  <1> QED BY <1>2, <1>4, <1>5, Zenon

LEMMA InitKeeps == Init => IInv
  <1> SUFFICES ASSUME Init PROVE IInv
    OBVIOUS
  <1>1. SessionInit /\ sc \in Scenarios
    BY Zenon DEF Init, SessionInit
  <1>2. /\ fs = tree0 /\ fids = <<>> /\ offset = 0 /\ mu = Nobody /\ returned = 0
        /\ pc = [g \in Procs |-> "idle"] /\ job = [g \in Procs |-> NoJob]
        /\ begun = 0 /\ opened = 0
    BY Zenon DEF Init
  <1>3. /\ cl = [pc |-> "new", version |-> sc.version, retried |-> FALSE, msize |-> sc.msize,
                 limit |-> sc.msize, unix |-> FALSE, reading |-> TRUE]
        /\ sv = [pc |-> "first", msize |-> maxMsize, unix |-> FALSE]
        /\ c2s = <<>> /\ work = {} /\ s2c = {} /\ lost = {}
    BY <1>1, Zenon DEF SessionInit
  <1>4. sc.msize \in Nat /\ sc.version \in {Version, VersionU} /\ sc.smsize \in Nat
    BY <1>1, ScenariosAssumption
  <1>5. maxMsize \in Nat
    BY <1>4 DEF maxMsize, DefaultMsize
  <1>6. Ends /\ cl.pc = "new" /\ Fresh /\ sv.pc = "first" /\ ~sv.unix
    <2> HIDE DEF maxMsize
    <2>1. cl \in ClientStates
      BY <1>3, <1>4 DEF ClientStates
    <2>2. sv \in ServerStates
      BY <1>3, <1>5 DEF ServerStates
    <2>3. Fresh /\ cl.pc = "new"
      BY <1>3 DEF Fresh
    <2>4. sv.pc = "first" /\ ~sv.unix
      BY <1>3
    <2> QED BY <1>1, <2>1, <2>2, <2>3, <2>4, Zenon DEF Ends
  <1>7. SessionInv
    <2>1. Silent /\ lost \subseteq Faults
      BY <1>3 DEF Silent
    <2>2. Unversioned
      BY <1>6, <2>1, Zenon DEF Unversioned
    <2>3. cl.pc # "version" /\ cl.pc # "up" /\ cl.pc # "failed"
      BY <1>6
    <2>4. Versioning /\ GivenUp /\ Agreed /\ OnWay
      BY <2>3, Zenon DEF Versioning, GivenUp, Agreed, OnWay
    <2> QED BY <1>6, <2>1, <2>2, <2>4, Zenon DEF SessionInv
  <1>8. CallsInv
    <2>1. Jobs
      <3>1. pc \in [Procs -> {"idle", "wait"}]
        BY <1>2
      <3>2. job = [g \in Procs |-> job[g]] /\ \A g \in Procs : job[g] = NoJob
        BY <1>2
      <3> QED BY <3>1, <3>2, NoJobGood, Zenon DEF Jobs
    <2>2. Lock
      BY <1>2, Zenon DEF Lock
    <2>3. \A g \in Procs : pc[g] = "idle"
      BY <1>2
    <2>4. Quiet
      BY <1>2, <2>3, Zenon DEF Quiet
    <2>5. StartsAlone
      <3>1. "idle" # "wait"
        OBVIOUS
      <3> QED BY <1>2, <2>3, <3>1, Zenon DEF StartsAlone
    <2>6. Offset /\ Counts
      BY <1>2, StartBegun, CallsAssumption DEF Offset, Counts
    <2> QED BY <2>1, <2>2, <2>4, <2>5, <2>6, Zenon DEF CallsInv
  <1>9. OneMessage
    <2>1. \A g \in Procs : None(g)
      BY <1>3 DEF None, AbsentQ, Absent
    <2> QED BY <2>1, NoneLone, Zenon DEF OneMessage
  <1>10. Served
    <2>1. Tree(fs)
      BY <1>1, <1>2, InitTree, Zenon
    <2>2. Fids(<<>>, fs)
      BY DEF Fids
    <2> QED BY <1>2, <2>1, <2>2, Zenon DEF Served
  <1> QED BY <1>7, <1>8, <1>9, <1>10, Zenon DEF IInv


-----------------------------------------------------------------------------
(***************************************************************************)
(* The theorems.                                                           *)
(***************************************************************************)

LEMMA NextKeeps == IInv /\ [Next]_vars => IInv'
  <1> SUFFICES ASSUME IInv, [Next]_vars PROVE IInv'
    OBVIOUS
  <1>1. CASE SessionStep
    BY <1>1, SessionStepKeeps
  <1>2. CASE Handle
    BY <1>2, HandleKeeps
  <1>3. CASE Starting
    BY <1>3, StartingKeeps
  <1>4. ASSUME NEW g \in Procs, NEW c \in Calls[sc.calls], Begin(g, c) PROVE IInv'
    BY <1>4, BeginKeeps
  <1>5. ASSUME NEW g \in Procs, Receive(g) PROVE IInv'
    BY <1>5, ReceiveKeeps
  <1>6. ASSUME NEW g \in Procs, Fail(g) PROVE IInv'
    BY <1>6, FailKeeps
  <1>7. CASE UNCHANGED vars
    BY <1>7, StutterKeeps
  <1> QED BY <1>1, <1>2, <1>3, <1>4, <1>5, <1>6, <1>7, Zenon DEF Next, Finished

\* What the handshake, the requests and replies on their way, the calls that
\* wait and the file system are at always holds (IInv).
THEOREM SessionInvariant == Spec => []IInv
  BY InitKeeps, NextKeeps, PTL DEF Spec

\* No end ever takes a message for another one (NothingMisread): the codec
\* round-trips every message that the two ends send, and they read what is on
\* its way in the dialect it was written in, also across the handshake.
THEOREM MisreadsNothing == Spec => []NothingMisread
  <1>1. IInv => NothingMisread
    BY DEF IInv, SessionInv, Faults, NothingMisread
  <1> QED BY <1>1, SessionInvariant, PTL

\* Once NewClient has returned, the two ends have one dialect and one message
\* size, and readLoop's limit admits what the server may send (SessionAgrees),
\* for every pair of sizes, dialects and kinds of server.
THEOREM EndsAgree == Spec => []SessionAgrees
  <1>1. IInv => SessionAgrees
    <2> SUFFICES ASSUME IInv, cl.pc = "up", sv.pc # "closed"
                 PROVE  /\ cl.unix = sv.unix /\ cl.msize = sv.msize
                        /\ cl.limit # 0 => cl.limit >= cl.msize
                        /\ cl.msize = 0 => cl.limit = 0
      BY DEF SessionAgrees
    <2>1. Ends /\ Agreed
      BY Zenon DEF IInv, SessionInv
    <2>2. /\ cl.unix = sv.unix /\ cl.msize = agreedSize /\ sv.msize = agreedSize
          /\ cl.limit \in {sc.msize, agreedSize}
      BY <2>1, Zenon DEF Agreed
    <2>3. /\ agreedSize \in Nat /\ sc.msize \in Nat /\ agreedSize <= sc.msize
          /\ agreedSize = 0 => sc.msize = 0
      BY <2>1, EndsParts, Zenon
    <2> DEFINE s == agreedSize
    <2> HIDE DEF s
    <2>4. /\ cl.msize = s /\ sv.msize = s /\ cl.limit \in {sc.msize, s} /\ s \in Nat /\ s <= sc.msize
          /\ s = 0 => sc.msize = 0
      BY <2>2, <2>3 DEF s
    <2> QED BY <2>2, <2>3, <2>4
  <1> QED BY <1>1, SessionInvariant, PTL

\* The offset of the File is where the last Seek put it plus what Read and
\* Write have returned since (OffsetAccounts), however the calls of any number
\* of goroutines overlap and whichever of them fail.
THEOREM OffsetsAccounted == Spec => []OffsetAccounts
  <1>1. IInv => OffsetAccounts
    BY Zenon DEF IInv, CallsInv, Offset, OffsetAccounts
  <1> QED BY <1>1, SessionInvariant, PTL

\* A goroutine's messages are at most one, and none while it is idle.
LEMMA HereFew ==
    ASSUME IInv, cl.reading, NEW g \in Procs
    PROVE  LET here == {e \in ToSet(c2s) \cup work \cup s2c : e.tag = g}
           IN  Cardinality(here) <= IF pc[g] = "wait" THEN 1 ELSE 0
  <1> DEFINE here == {e \in ToSet(c2s) \cup work \cup s2c : e.tag = g}
  <1>1. Lone(g) /\ (pc[g] = "idle" => None(g)) /\ pc[g] \in {"idle", "wait"}
    BY DEF IInv, OneMessage, CallsInv, Jobs
  <1>2. \A e \in ToSet(c2s) : \E i \in DOMAIN c2s : e = c2s[i]
    BY DEF ToSet
  <1>3. None(g) => here = {}
    BY <1>2, Zenon DEF None, Absent, AbsentQ
  <1>4. \A e, f \in here : e = f
    <2>1. ASSUME SingleQ(c2s, g), Absent(work, g), Absent(s2c, g) PROVE \A e, f \in here : e = f
      BY <1>2, <2>1, Zenon DEF SingleQ, Absent
    <2>2. ASSUME AbsentQ(c2s, g), Single(work, g), Absent(s2c, g) PROVE \A e, f \in here : e = f
      BY <1>2, <2>2, Zenon DEF AbsentQ, Single, Absent
    <2>3. ASSUME AbsentQ(c2s, g), Absent(work, g), Single(s2c, g) PROVE \A e, f \in here : e = f
      BY <1>2, <2>3, Zenon DEF AbsentQ, Single, Absent
    <2> QED BY <1>1, <2>1, <2>2, <2>3, Zenon DEF Lone
  <1> HIDE DEF here
  <1>5. CASE here = {}
    <2>1. Cardinality(here) = 0
      BY <1>5, FS_EmptySet, Zenon
    <2>2. Cardinality(here) <= IF pc[g] = "wait" THEN 1 ELSE 0
      BY <2>1
    <2> QED BY <2>2 DEF here
  <1>6. CASE here # {}
    <2>1. PICK e : here = {e}
      BY <1>4, <1>6
    <2>2. Cardinality(here) = 1
      BY <2>1, FS_Singleton, Zenon
    <2>3. pc[g] = "wait"
      BY <1>1, <1>3, <1>6
    <2>4. Cardinality(here) <= IF pc[g] = "wait" THEN 1 ELSE 0
      BY <2>2, <2>3
    <2> QED BY <2>4 DEF here
  <1> QED BY <1>5, <1>6

\* The type invariant (TypeOK), with the fids and the tree intact, one message
\* per waiting goroutine and File.mu held only by a Seek that waits.
THEOREM Typed == Spec => []TypeOK
  <1>1. IInv => TypeOK
    <2> SUFFICES ASSUME IInv PROVE TypeOK
      OBVIOUS
    <2>0. SessionInv /\ CallsInv /\ Served /\ Ends
      BY Zenon DEF IInv, SessionInv
    <2>1. SessionTypeOK
      <3>1. sc \in Scenarios /\ lost \subseteq Faults
        BY <2>0, Zenon DEF Ends, SessionInv
      <3>2. lost \subseteq {"clientTooLarge", "clientDecode", "serverTooLarge", "serverDecode", "misread"}
        BY <3>1 DEF Faults
      <3> QED BY <2>0, <3>1, <3>2, EndsParts, Zenon DEF SessionTypeOK
    <2>2. \A n \in DOMAIN fs : \A s \in DOMAIN fs[n].children : fs[n].children[s] \in DOMAIN fs
      <3>0. Tree(fs)
        BY <2>0, Zenon DEF Served
      <3>1. ASSUME NEW n \in DOMAIN fs, NEW s \in DOMAIN fs[n].children
            PROVE  fs[n].children[s] \in DOMAIN fs
        <4>1. DOMAIN fs = 1..Len(fs) /\ Len(fs) \in Nat
          BY <3>0 DEF Tree
        <4>2. fs[n].children \in Kids(Len(fs))
          BY <3>0, <4>1, NodeParts
        <4>3. fs[n].children[s] \in 1..Len(fs)
          BY <4>1, <4>2, KidsEdits
        <4> QED BY <4>1, <4>3
      <3> QED BY <3>1
    <2>3. \A f \in DOMAIN fids : fids[f] \in DOMAIN fs
      <3>1. DOMAIN fs = 1..Len(fs)
        BY <2>0 DEF Served, Tree
      <3> QED BY <2>0, <3>1, Zenon DEF Served, Fids
    <2>4. offset \in Nat /\ begun \in 0..MaxCalls /\ opened \in 0..Len(Start)
      BY <2>0, Zenon DEF CallsInv, Offset, Counts
    <2>5. mu # Nobody => pc[mu] = "wait" /\ job[mu].call.op = "Seek"
      BY <2>0, Zenon DEF CallsInv, Lock
    <2> QED BY <2>1, <2>2, <2>3, <2>4, <2>5, HereFew DEF TypeOK
  <1> QED BY <1>1, SessionInvariant, PTL

\* The size of the messages of file I/O.
LEMMA FlattenOne ==
    ASSUME NEW a \in Bytes
    PROVE  Size(FlattenSeq(<<a>>)) = Size(a)
  <1> DEFINE P == <<a>>
             q == [i \in 0..1 |-> IF i = 0 THEN 0 ELSE Size(a)]
  <1>1. Size(a) \in Nat
    BY SizeType, Zenon
  <1>2. P \in Seq(Bytes) /\ Len(P) = 1 /\ P[1] = a
    <2> HIDE DEF Bytes
    <2> QED OBVIOUS
  <1> HIDE DEF P
  <1>3. Sums(q, P)
    BY <1>1, <1>2 DEF Sums
  <1>4. q[1] = Size(a) /\ q[0] = 0
    OBVIOUS
  <1> HIDE DEF q
  <1>5. Size(FlattenSeq(P)) = q[Len(P)] - q[0]
    BY <1>2, <1>3, FlattenSize
  <1>6. Size(FlattenSeq(P)) = Size(a)
    BY <1>1, <1>2, <1>4, <1>5
  <1> QED BY <1>6 DEF P

LEMMA FlattenThree ==
    ASSUME NEW a \in Bytes, NEW b \in Bytes, NEW c \in Bytes
    PROVE  Size(FlattenSeq(<<a, b, c>>)) = Size(a) + Size(b) + Size(c)
  <1> DEFINE P == <<a, b, c>>
             q == [i \in 0..3 |-> IF i = 0 THEN 0 ELSE IF i = 1 THEN Size(a)
                                  ELSE IF i = 2 THEN Size(a) + Size(b) ELSE Size(a) + Size(b) + Size(c)]
  <1>1. Size(a) \in Nat /\ Size(b) \in Nat /\ Size(c) \in Nat
    BY SizeType, Zenon
  <1>2. P \in Seq(Bytes) /\ Len(P) = 3 /\ P[1] = a /\ P[2] = b /\ P[3] = c
    <2> HIDE DEF Bytes
    <2> QED OBVIOUS
  <1> HIDE DEF P
  <1>3. Sums(q, P)
    <2>1. q \in [0..Len(P) -> Nat]
      BY <1>1, <1>2
    <2>2. \A i \in 1..3 : q[i] = q[i - 1] + Size(P[i])
      BY <1>1, <1>2
    <2> QED BY <1>2, <2>1, <2>2 DEF Sums
  <1>4. q[3] = Size(a) + Size(b) + Size(c) /\ q[0] = 0
    OBVIOUS
  <1> HIDE DEF q
  <1>5. Size(FlattenSeq(P)) = q[Len(P)] - q[0]
    BY <1>2, <1>3, FlattenSize
  <1>6. Size(FlattenSeq(P)) = Size(a) + Size(b) + Size(c)
    BY <1>1, <1>2, <1>4, <1>5
  <1> QED BY <1>6 DEF P

LEMMA FieldSizes ==
    ASSUME NEW unix
    PROVE  /\ \A v \in Int : field("u32", v, unix) \in Bytes /\ Size(field("u32", v, unix)) = 4
           /\ \A v \in Int : field("u64", v, unix) \in Bytes /\ Size(field("u64", v, unix)) = 8
           /\ \A v \in Bytes : /\ field("data", v, unix) \in Bytes
                               /\ Size(field("data", v, unix)) = 4 + Size(v)
  <1>1. ASSUME NEW v \in Int PROVE field("u32", v, unix) \in Bytes /\ Size(field("u32", v, unix)) = 4
    <2>1. field("u32", v, unix) = <<Cell(4, v)>>
      BY DEF field, scalar, Width
    <2> QED BY <2>1, SizeOne
  <1>2. ASSUME NEW v \in Int PROVE field("u64", v, unix) \in Bytes /\ Size(field("u64", v, unix)) = 8
    <2>1. field("u64", v, unix) = <<Cell(8, v)>>
      BY DEF field, scalar, Width
    <2> QED BY <2>1, SizeOne
  <1>3. ASSUME NEW v \in Bytes
        PROVE  field("data", v, unix) \in Bytes /\ Size(field("data", v, unix)) = 4 + Size(v)
    <2>1. field("data", v, unix) = <<Cell(4, Size(v))>> \o v
      BY DEF field
    <2>2. Size(v) \in Nat
      BY SizeType, Zenon
    <2> DEFINE a == <<Cell(4, Size(v))>>
    <2>3. a \in Bytes /\ Size(a) = 4
      BY <2>2, SizeOne
    <2> HIDE DEF a
    <2>4. a \o v \in Bytes /\ Size(a \o v) = Size(a) + Size(v)
      BY <2>3, SizeConcat
    <2> QED BY <2>1, <2>3, <2>4 DEF a
  <1> QED BY <1>1, <1>2, <1>3

\* The body of a message by its fields.
LEMMA BodyOne ==
    ASSUME NEW m, NEW unix, NEW k, newMessage(unix)[type(m)] = <<k>>
    PROVE  marshalBody(m, unix) = FlattenSeq(<<field(k, arg(m)[1], unix)>>)
  <1> DEFINE f == <<k>>
             F(i) == field(f[i], arg(m)[i], unix)
  <1>1. marshalBody(m, unix) = FlattenSeq([i \in DOMAIN f |-> F(i)])
    BY Zenon DEF marshalBody
  <1>2. DOMAIN f = 1..1 /\ f[1] = k
    OBVIOUS
  <1>3. F(1) = field(k, arg(m)[1], unix)
    BY <1>2, Zenon
  <1> HIDE DEF F, f
  <1>4. [i \in DOMAIN f |-> F(i)] = <<F(1)>>
    BY <1>2
  <1> QED BY <1>1, <1>3, <1>4, Zenon

LEMMA BodyThree ==
    ASSUME NEW m, NEW unix, NEW j, NEW k, NEW l, newMessage(unix)[type(m)] = <<j, k, l>>
    PROVE  marshalBody(m, unix) =
              FlattenSeq(<<field(j, arg(m)[1], unix), field(k, arg(m)[2], unix), field(l, arg(m)[3], unix)>>)
  <1> DEFINE f == <<j, k, l>>
             F(i) == field(f[i], arg(m)[i], unix)
  <1>1. marshalBody(m, unix) = FlattenSeq([i \in DOMAIN f |-> F(i)])
    BY Zenon DEF marshalBody
  <1>2. DOMAIN f = 1..3 /\ f[1] = j /\ f[2] = k /\ f[3] = l
    OBVIOUS
  <1>3. /\ F(1) = field(j, arg(m)[1], unix) /\ F(2) = field(k, arg(m)[2], unix)
        /\ F(3) = field(l, arg(m)[3], unix)
    BY <1>2, Zenon
  <1> HIDE DEF F, f
  <1>4. [i \in DOMAIN f |-> F(i)] = <<F(1), F(2), F(3)>>
    BY <1>2
  <1> QED BY <1>1, <1>3, <1>4, Zenon

LEMMA IOSizes ==
    ASSUME NEW m \in Messages, NEW unix \in BOOLEAN, NEW max \in Nat, Ranged(m, max)
    PROVE  LET n == Size(marshalBody(m, unix))
           IN  /\ type(m) = "Tread"  => n = 16
               /\ type(m) = "Twrite" => n \in 16..(16 + max)
               /\ type(m) = "Rread"  => n \in 4..(4 + max)
               /\ type(m) = "Rwrite" => n = 4
  <1> DEFINE n == Size(marshalBody(m, unix))
             a == arg(m)
             B == marshalBody(m, unix)
  <1>0. a \in Contents(type(m)) /\ type(m) \in Types
    BY MessageGives, Zenon
  <1>1. /\ newMessage(unix)["Tread"] = <<"u32", "u64", "u32">>
        /\ newMessage(unix)["Twrite"] = <<"u32", "u64", "data">>
        /\ newMessage(unix)["Rread"] = <<"data">> /\ newMessage(unix)["Rwrite"] = <<"u32">>
        /\ newMessage(TRUE)["Tread"] = <<"u32", "u64", "u32">>
        /\ newMessage(TRUE)["Twrite"] = <<"u32", "u64", "data">>
    BY MessageTable
  <1>2. type(m) \in {"Tread", "Twrite"} => a[1] \in Int
    <2>1. Len(a) = Len(newMessage(TRUE)[type(m)]) /\ \A i \in 1..Len(a) : a[i] \in FieldOf(newMessage(TRUE)[type(m)][i])
      BY <1>0, Zenon DEF Contents
    <2>2. FieldOf("u32") = Int
      BY KindsHold
    <2> HIDE DEF a
    <2>3. ASSUME NEW x, NEW f, f = <<"u32", "u64", x>>, newMessage(TRUE)[type(m)] = f PROVE a[1] \in Int
      <3>1. 1 \in 1..Len(f) /\ f[1] = "u32"
        BY <2>3
      <3> QED BY <2>1, <2>2, <2>3, <3>1, Zenon
    <2> QED BY <1>1, <2>3
  <1>3. CASE type(m) = "Tread"
    <2>1. a[1] \in Int /\ a[2] \in Int /\ a[3] \in Int
      BY <1>2, <1>3 DEF Ranged
    <2>2. B = FlattenSeq(<<field("u32", a[1], unix), field("u64", a[2], unix), field("u32", a[3], unix)>>)
      BY <1>1, <1>3, BodyThree
    <2> DEFINE x == field("u32", a[1], unix)
               y == field("u64", a[2], unix)
               z == field("u32", a[3], unix)
    <2>3. x \in Bytes /\ y \in Bytes /\ z \in Bytes /\ Size(x) = 4 /\ Size(y) = 8 /\ Size(z) = 4
      BY <2>1, FieldSizes, Zenon
    <2> HIDE DEF x, y, z, B
    <2>4. Size(B) = Size(x) + Size(y) + Size(z)
      BY <2>2, <2>3, FlattenThree, Zenon DEF x, y, z
    <2>5. Size(B) = 16
      BY <2>3, <2>4
    <2> QED BY <1>3, <2>5 DEF B
  <1>4. CASE type(m) = "Twrite"
    <2>1. a[1] \in Int /\ a[2] \in Int /\ a[3] \in Bytes /\ Size(a[3]) <= max /\ Size(a[3]) \in Nat
      <3>1. a[3] \in Bytes
        BY <1>4, ArgKinds, Zenon
      <3>2. Size(a[3]) \in Nat
        BY <3>1, SizeType, Zenon
      <3>3. a[2] \in Int /\ Size(a[3]) <= max
        BY <1>4 DEF Ranged
      <3> QED BY <1>2, <1>4, <3>1, <3>2, <3>3
    <2>2. B = FlattenSeq(<<field("u32", a[1], unix), field("u64", a[2], unix), field("data", a[3], unix)>>)
      BY <1>1, <1>4, BodyThree
    <2> DEFINE x == field("u32", a[1], unix)
               y == field("u64", a[2], unix)
               z == field("data", a[3], unix)
               s == Size(a[3])
    <2>3. x \in Bytes /\ y \in Bytes /\ z \in Bytes /\ Size(x) = 4 /\ Size(y) = 8 /\ Size(z) = 4 + s
      BY <2>1, FieldSizes, Zenon
    <2> HIDE DEF x, y, z, s, B
    <2>4. Size(B) = Size(x) + Size(y) + Size(z)
      BY <2>2, <2>3, FlattenThree, Zenon DEF x, y, z
    <2>5. s \in Nat /\ s <= max
      BY <2>1 DEF s
    <2>6. Size(B) \in 16..(16 + max)
      BY <2>3, <2>4, <2>5
    <2> QED BY <1>4, <2>6 DEF B
  <1>5. CASE type(m) = "Rread"
    <2>1. a[1] \in Bytes /\ Size(a[1]) <= max /\ Size(a[1]) \in Nat
      <3>1. a[1] \in Bytes
        BY <1>5, ArgKinds, Zenon
      <3>2. Size(a[1]) \in Nat
        BY <3>1, SizeType, Zenon
      <3>3. Size(a[1]) <= max
        BY <1>5 DEF Ranged
      <3> QED BY <3>1, <3>2, <3>3
    <2>2. B = FlattenSeq(<<field("data", a[1], unix)>>)
      BY <1>1, <1>5, BodyOne
    <2> DEFINE z == field("data", a[1], unix)
               s == Size(a[1])
    <2>3. z \in Bytes /\ Size(z) = 4 + s
      BY <2>1, FieldSizes, Zenon
    <2> HIDE DEF z, s, B
    <2>4. Size(B) = Size(z)
      BY <2>2, <2>3, FlattenOne, Zenon DEF z
    <2>5. s \in Nat /\ s <= max
      BY <2>1 DEF s
    <2>6. Size(B) \in 4..(4 + max)
      BY <2>3, <2>4, <2>5
    <2> QED BY <1>5, <2>6 DEF B
  <1>6. CASE type(m) = "Rwrite"
    <2>1. a[1] \in Int
      BY <1>6 DEF Ranged
    <2>2. B = FlattenSeq(<<field("u32", a[1], unix)>>)
      BY <1>1, <1>6, BodyOne
    <2> DEFINE z == field("u32", a[1], unix)
    <2>3. z \in Bytes /\ Size(z) = 4
      BY <2>1, FieldSizes, Zenon
    <2> HIDE DEF z, B
    <2>4. Size(B) = Size(z)
      BY <2>2, <2>3, FlattenOne, Zenon DEF z
    <2> QED BY <1>6, <2>3, <2>4 DEF B
  <1> QED BY <1>3, <1>4, <1>5, <1>6, Zenon

\* No request or reply of file I/O is larger than either end takes (IOFits), for
\* every message size the two ends may come to but those between 1 and 23, for
\* every iounit and whatever is read and written.
THEOREM IOAlwaysFits == Spec => []IOFits
  <1>1. IInv => IOFits
    <2> SUFFICES ASSUME IInv, cl.pc = "up", cl.msize = 0 \/ cl.msize >= 24,
                        NEW e \in ToSet(c2s) \cup s2c, type(e.msg) \in IOTypes
                 PROVE  ReadMessage(raw(e), sv.msize) /\ ReadMessage(raw(e), cl.msize)
      BY DEF IOFits, IOTypes
    <2>0. Ends /\ Agreed /\ OnWay
      BY Zenon DEF IInv, SessionInv
    <2>1. sv.msize = cl.msize /\ cl.msize \in Nat /\ sc.iounit \in Nat /\ sv.unix \in BOOLEAN
      BY <2>0, EndsParts, CallsAssumption DEF Agreed, Ends
    <2>2. maxIO \in Nat /\ (cl.msize >= 24 => maxIO <= cl.msize - 23)
      BY <2>0, <2>1, MaxIO DEF maxIO, ioHeaderSize
    <2> DEFINE max == maxIO
               S == Envelope(Requests(max), sv.unix)
               T == Envelope(Replies(max), sv.unix)
    <2>3. e \in S \/ e \in T
      <3>1. c2s \in Seq(S) /\ s2c \subseteq T
        BY <2>0, Zenon DEF OnWay
      <3> HIDE DEF S, T
      <3>2. \A x \in ToSet(c2s) : x \in S
        BY <3>1 DEF ToSet
      <3> QED BY <3>1, <3>2
    <2>4. e.msg \in Messages /\ Ranged(e.msg, max) /\ e.unix \in BOOLEAN
      <3> DEFINE R == Requests(max)
                 Q == Replies(max)
      <3>1. e \in [tag : Procs, msg : R, unix : {sv.unix}] \/ e \in [tag : Procs, msg : Q, unix : {sv.unix}]
        BY <2>3, Zenon DEF Envelope
      <3> HIDE DEF R, Q
      <3>2. (e.msg \in R \/ e.msg \in Q) /\ e.unix = sv.unix
        BY <3>1
      <3> QED BY <2>1, <3>2, Zenon DEF R, Q, Requests, Replies
    <2> DEFINE m == e.msg
               n == Size(marshalBody(m, e.unix))
    <2>5. /\ type(m) = "Tread"  => n = 16
          /\ type(m) = "Twrite" => n \in 16..(16 + max)
          /\ type(m) = "Rread"  => n \in 4..(4 + max)
          /\ type(m) = "Rwrite" => n = 4
      <3> DEFINE u == e.unix
      <3>1. m \in Messages /\ Ranged(m, max) /\ u \in BOOLEAN /\ max \in Nat
        BY <2>2, <2>4
      <3> HIDE DEF m, u, max
      <3> QED BY <3>1, IOSizes DEF u
    <2>6. raw(e).size = minMsgSize + n
      BY DEF raw, MarshalVersion
    <2> DEFINE z == raw(e).size
               t == type(m)
    <2>7. t \in {"Tread", "Twrite", "Rread", "Rwrite"}
      BY DEF IOTypes
    <2> HIDE DEF n, m, max, z, t
    <2>8. max \in Nat /\ (cl.msize >= 24 => max <= cl.msize - 23)
      BY <2>2 DEF max
    <2>9. /\ t = "Tread"  => n = 16
          /\ t = "Twrite" => n \in 16..(16 + max)
          /\ t = "Rread"  => n \in 4..(4 + max)
          /\ t = "Rwrite" => n = 4
      BY <2>5 DEF t
    <2>10. z >= minMsgSize /\ (cl.msize = 0 \/ z <= cl.msize)
      BY <2>1, <2>6, <2>7, <2>8, <2>9 DEF minMsgSize, z
    <2> QED BY <2>1, <2>10, Zenon DEF ReadMessage, z
  <1> QED BY <1>1, SessionInvariant, PTL

-----------------------------------------------------------------------------
(***************************************************************************)
(* What a call has read or written so far.                                 *)
(***************************************************************************)

\* The first n bytes of b are the file's from o on, and how many of n bytes
\* from o on it has.
Agree(b, n, d, o) == (n = 0 \/ o + n <= Len(d)) /\ \A i \in 1..n : b[i] = d[o + i]
Has(d, o, n)      == IF Len(d) <= o THEN 0 ELSE least(n, Len(d) - o)

Reading(j)  == j.call.op \in {"Read", "ReadAt"}
Writing(j) == j.call.op \in {"Write", "WriteAt"}

\* The request of a call at j, when max bytes fit a message.
ioChunk(j, max) == least(j.call.n - j.total, max)

ioRequest(j, max) ==
    IF Reading(j) THEN Msg("Tread", <<FileFid, j.at + j.total, ioChunk(j, max)>>)
    ELSE Msg("Twrite", <<FileFid, j.at + j.total,
                         [i \in 1..ioChunk(j, max) |-> Cell(1, j.call.data[j.total + i])]>>)

\* A call at j that has not ended, while the file is d.
SoFar(j, d) ==
    /\ Reading(j) =>
        /\ j.got \in Bytes /\ Len(j.got) = j.total
        /\ j.call.op = "ReadAt" => j.total < j.call.n
        /\ j.clean => Agree(ByteSeq(j.got), j.total, d, j.at)
    /\ Writing(j) =>
        /\ j.total < j.call.n
        /\ j.clean => Agree(j.call.data, j.total, d, j.at)

\* The reply to its request.
Answers(j, m, d, max) ==
    /\ Reading(j) /\ type(m) = "Rread" =>
        LET b == arg(m)[1] IN
        /\ \A i \in 1..Len(b) : b[i].w = 1
        /\ Len(b) <= ioChunk(j, max)
        /\ j.clean => /\ Len(b) = Has(d, j.at + j.total, ioChunk(j, max))
                      /\ Agree(ByteSeq(b), Len(b), d, j.at + j.total)
    /\ Writing(j) /\ type(m) = "Rwrite" =>
        /\ arg(m)[1] = ioChunk(j, max)
        /\ j.clean => Agree(j.call.data, j.total + ioChunk(j, max), d, j.at)

\* What IOExact says of a call that has ended.
Exact(j, err, d) ==
    j.clean =>
        /\ Reading(j) =>
            /\ ByteSeq(j.got) = SubSeq(d, j.at + 1, j.at + j.total)
            /\ j.call.op = "ReadAt" /\ err = "nil" => j.total = j.call.n
            /\ j.call.op = "ReadAt" /\ err = "EOF" => j.total < j.call.n /\ Len(d) - j.at <= j.total
            /\ j.call.op = "Read" /\ err = "EOF"   => Len(d) - j.at <= 0 \/ j.call.n = 0
            /\ j.call.op = "Read" /\ err = "nil"   => j.total \in 1..j.call.n
        /\ Writing(j) =>
            /\ SubSeq(d, j.at + 1, j.at + j.total) = SubSeq(j.call.data, 1, j.total)
            /\ err = "nil" => j.total = j.call.n

LEMMA PartOf ==
    ASSUME NEW d \in Seq(Int), NEW o \in Nat, NEW n \in Nat, NEW b \in Seq(Int), n <= Len(b),
           Agree(b, n, d, o)
    PROVE  SubSeq(d, o + 1, o + n) = SubSeq(b, 1, n)
  <1>1. CASE n = 0
    <2>1. SubSeq(d, o + 1, o + 0) = <<>> /\ SubSeq(b, 1, 0) = <<>>
      OBVIOUS
    <2> QED BY <1>1, <2>1
  <1>2. CASE n # 0
    <2>1. o + n <= Len(d) /\ \A i \in 1..n : b[i] = d[o + i]
      BY <1>2 DEF Agree
    <2>2. o + 1 \in 1..Len(d) + 1 /\ o + n \in (o + 1) - 1..Len(d) /\ 1 \in 1..Len(b) + 1
          /\ n \in 1 - 1..Len(b)
      BY <1>2, <2>1
    <2> DEFINE x == SubSeq(d, o + 1, o + n)
               y == SubSeq(b, 1, n)
    <2>3. x \in Seq(Int) /\ Len(x) = n /\ \A i \in 1..n : x[i] = d[o + i]
      <3>1. /\ x \in Seq(Int) /\ Len(x) = IF o + 1 <= o + n THEN (o + n) - (o + 1) + 1 ELSE 0
            /\ \A i \in 1..((o + n) - (o + 1) + 1) : x[i] = d[(o + 1) + i - 1]
        BY <2>2, SubSeqProperties
      <3> HIDE DEF x
      <3>2. Len(x) = n /\ (o + n) - (o + 1) + 1 = n
        BY <1>2, <3>1
      <3>3. \A i \in 1..n : (o + 1) + i - 1 = o + i
        OBVIOUS
      <3> QED BY <3>1, <3>2, <3>3
    <2>4. y \in Seq(Int) /\ Len(y) = n /\ \A i \in 1..n : y[i] = b[i]
      <3>1. /\ y \in Seq(Int) /\ Len(y) = IF 1 <= n THEN n - 1 + 1 ELSE 0
            /\ \A i \in 1..(n - 1 + 1) : y[i] = b[1 + i - 1]
        BY <2>2, SubSeqProperties
      <3> HIDE DEF y
      <3>2. Len(y) = n /\ n - 1 + 1 = n
        BY <1>2, <3>1
      <3>3. \A i \in 1..n : 1 + i - 1 = i
        OBVIOUS
      <3> QED BY <3>1, <3>2, <3>3
    <2> HIDE DEF x, y
    <2>5. \A i \in 1..n : x[i] = y[i]
      BY <2>1, <2>3, <2>4
    <2>6. x = y
      BY <2>3, <2>4, <2>5
    <2> QED BY <2>6 DEF x, y
  <1> QED BY <1>1, <1>2

LEMMA ByteValues ==
    ASSUME NEW b \in Bytes
    PROVE  /\ ByteSeq(b) \in Seq(Int) /\ Len(ByteSeq(b)) = Len(b)
           /\ \A i \in 1..Len(b) : ByteSeq(b)[i] = b[i].v
  <1>1. Len(b) \in Nat /\ DOMAIN b = 1..Len(b) /\ \A i \in 1..Len(b) : b[i].v \in Int
    BY RunAt
  <1> HIDE DEF Bytes
  <1> QED BY <1>1 DEF ByteSeq

\* What a read of the file returns.
fileBytes(d, o, c) ==
    IF Len(d) - o <= 0 THEN <<>>
    ELSE [i \in 1..(IF Len(d) - o < c THEN Len(d) - o ELSE c) |-> Cell(1, d[o + i])]

LEMMA FileBytes ==
    ASSUME NEW d \in Seq(Int), NEW o \in Nat, NEW c \in Nat, NEW b, b = fileBytes(d, o, c)
    PROVE  /\ b \in Bytes /\ \A i \in 1..Len(b) : b[i].w = 1
           /\ Len(b) <= c /\ Len(b) = Has(d, o, c) /\ Agree(ByteSeq(b), Len(b), d, o)
  <1> DEFINE k == IF Len(d) - o < c THEN Len(d) - o ELSE c
  <1>1. Len(d) \in Nat
    OBVIOUS
  <1>2. CASE Len(d) <= o
    <2>1. b = <<>> /\ Has(d, o, c) = 0
      BY <1>1, <1>2 DEF fileBytes, Has
    <2>2. b \in Bytes /\ Len(b) = 0
      BY <2>1 DEF Bytes
    <2>3. Agree(ByteSeq(b), 0, d, o)
      BY DEF Agree
    <2> QED BY <2>1, <2>2, <2>3
  <1>3. CASE ~(Len(d) <= o)
    <2>1. k \in Nat /\ k <= c /\ o + k <= Len(d) /\ k = least(c, Len(d) - o)
      BY <1>1, <1>3 DEF least
    <2>2. Has(d, o, c) = k
      BY <1>3, <2>1 DEF Has
    <2>3. b = [i \in 1..k |-> Cell(1, d[o + i])]
      BY <1>1, <1>3 DEF fileBytes
    <2> HIDE DEF k
    <2>4. ASSUME NEW i \in 1..k
          PROVE  Cell(1, d[o + i]) \in Run /\ Cell(1, d[o + i]).w = 1 /\ Cell(1, d[o + i]).v = d[o + i]
      <3>1. o + i \in 1..Len(d)
        BY <2>1
      <3>2. d[o + i] \in Int
        BY <3>1
      <3> DEFINE v == d[o + i]
      <3> HIDE DEF v
      <3>3. v \in Int
        BY <3>2 DEF v
      <3>4. Cell(1, v) \in Run
        <4>1. 1 \in Nat \ {0}
          OBVIOUS
        <4> QED BY <3>3, <4>1, SizeOne, Zenon
      <3>5. Cell(1, v).w = 1 /\ Cell(1, v).v = v
        BY DEF Cell
      <3> QED BY <3>4, <3>5 DEF v
    <2> DEFINE C(i) == Cell(1, d[o + i])
    <2>5. \A i \in 1..k : C(i) \in Run /\ C(i).w = 1 /\ C(i).v = d[o + i]
      BY <2>4
    <2>6. b = [i \in 1..k |-> C(i)]
      BY <2>3
    <2> HIDE DEF C
    <2>7. b \in Seq(Run) /\ Len(b) = k /\ \A i \in 1..k : b[i] = C(i)
      <3> HIDE DEF Run
      <3>1. \A i \in 1..k : C(i) \in Run
        BY <2>5
      <3>2. [i \in 1..k |-> C(i)] \in Seq(Run) /\ Len([i \in 1..k |-> C(i)]) = k
        BY <2>1, <3>1
      <3>3. \A i \in 1..k : [x \in 1..k |-> C(x)][i] = C(i)
        OBVIOUS
      <3> QED BY <2>6, <3>2, <3>3
    <2>8. b \in Bytes
      BY <2>7 DEF Bytes
    <2>9. \A i \in 1..Len(b) : b[i].w = 1 /\ b[i].v = d[o + i]
      BY <2>5, <2>7
    <2>10. Agree(ByteSeq(b), Len(b), d, o)
      <3>1. \A i \in 1..Len(b) : ByteSeq(b)[i] = d[o + i]
        BY <2>8, <2>9, ByteValues
      <3>2. Len(b) = 0 \/ o + Len(b) <= Len(d)
        BY <2>1, <2>7
      <3> QED BY <3>1, <3>2 DEF Agree
    <2> QED BY <2>1, <2>2, <2>7, <2>8, <2>9, <2>10
  <1> QED BY <1>2, <1>3

\* What a write leaves of the file.
fileWritten(d, o, w) ==
    LET stop == o + Len(w)
        grow == IF stop > Len(d) THEN resize(d, stop) ELSE d
    IN  [i \in DOMAIN grow |-> IF i > o /\ i <= stop THEN w[i - o] ELSE grow[i]]

WrittenAt(e, d, o, w) ==
    /\ Len(e) \in Nat /\ Len(e) >= o + Len(w) /\ Len(e) >= Len(d)
    /\ \A i \in 1..Len(d) : i <= o => e[i] = d[i]
    /\ \A i \in 1..Len(w) : e[o + i] = w[i]

LEMMA FileWritten ==
    ASSUME NEW d \in Seq(Int), NEW o \in Nat, NEW w \in Seq(Int)
    PROVE  WrittenAt(fileWritten(d, o, w), d, o, w)
  <1> DEFINE e    == fileWritten(d, o, w)
             stop == o + Len(w)
             grow == IF stop > Len(d) THEN resize(d, stop) ELSE d
  <1>1. Len(d) \in Nat /\ Len(w) \in Nat /\ stop \in Nat /\ stop >= o /\ DOMAIN d = 1..Len(d)
    OBVIOUS
  <1>2. e = [i \in DOMAIN grow |-> IF i > o /\ i <= stop THEN w[i - o] ELSE grow[i]]
    BY DEF fileWritten
  <1> HIDE DEF e
  <1>3. PICK L \in Nat : L >= stop /\ L >= Len(d) /\ DOMAIN grow = 1..L
                         /\ \A i \in 1..Len(d) : grow[i] = d[i]
    <2>1. CASE stop > Len(d)
      <3>1. grow = [i \in 1..stop |-> IF i <= Len(d) THEN d[i] ELSE 0]
        BY <2>1 DEF resize
      <3> HIDE DEF grow, stop
      <3>2. DOMAIN grow = 1..stop /\ \A i \in 1..Len(d) : grow[i] = d[i]
        BY <1>1, <2>1, <3>1, SMTT(40)
      <3> QED BY <1>1, <2>1, <3>2
    <2>2. CASE ~(stop > Len(d))
      <3>1. grow = d
        BY <2>2
      <3> HIDE DEF grow, stop
      <3>2. Len(d) >= stop /\ Len(d) >= Len(d) /\ DOMAIN grow = 1..Len(d)
            /\ \A i \in 1..Len(d) : grow[i] = d[i]
        BY <1>1, <2>2, <3>1
      <3> QED BY <1>1, <3>2
    <2> QED BY <2>1, <2>2
  <1> HIDE DEF grow
  <1>4. DOMAIN e = 1..L /\ e = [i \in 1..L |-> e[i]]
    BY <1>2, <1>3
  <1>5. Len(e) = L
    BY <1>3, <1>4
  <1>6. ASSUME NEW i \in 1..Len(d), i <= o PROVE e[i] = d[i]
    <2>1. i \in 1..L /\ ~(i > o)
      BY <1>1, <1>3, <1>6
    <2>2. e[i] = grow[i]
      BY <1>2, <1>3, <2>1
    <2> QED BY <1>3, <2>2
  <1>7. ASSUME NEW i \in 1..Len(w) PROVE e[o + i] = w[i]
    <2>1. o + i \in 1..L /\ o + i > o /\ o + i <= stop /\ (o + i) - o = i
      BY <1>1, <1>3
    <2> HIDE DEF stop
    <2>2. e[o + i] = w[(o + i) - o]
      BY <1>2, <1>3, <2>1
    <2> QED BY <2>1, <2>2
  <1> HIDE DEF stop
  <1>8. L >= o + Len(w)
    BY <1>3 DEF stop
  <1>9. WrittenAt(e, d, o, w)
    BY <1>3, <1>5, <1>6, <1>7, <1>8 DEF WrittenAt
  <1> QED BY <1>9 DEF e

\* A write goes on where the call is.
LEMMA WrittenOn ==
    ASSUME NEW d \in Seq(Int), NEW a \in Nat, NEW t \in Nat, NEW data \in Seq(Int), NEW c \in Nat,
           NEW w \in Seq(Int), Len(w) = c, \A i \in 1..c : w[i] = data[t + i], NEW e,
           e = fileWritten(d, a + t, w), Agree(data, t, d, a)
    PROVE  Agree(data, t, e, a) /\ Agree(data, t + c, e, a)
  <1>1. Len(d) \in Nat /\ a + t \in Nat
    OBVIOUS
  <1>2. /\ Len(e) \in Nat /\ Len(e) >= (a + t) + c /\ Len(e) >= Len(d)
        /\ \A i \in 1..Len(d) : i <= a + t => e[i] = d[i]
        /\ \A i \in 1..c : e[(a + t) + i] = w[i]
    <2> DEFINE o == a + t
    <2>1. o \in Nat /\ e = fileWritten(d, o, w)
      BY <1>1
    <2> HIDE DEF o
    <2>2. WrittenAt(e, d, o, w)
      BY <2>1, FileWritten, Zenon
    <2> QED BY <2>2 DEF WrittenAt, o
  <1>3. (t = 0 \/ a + t <= Len(d)) /\ \A i \in 1..t : data[i] = d[a + i]
    BY DEF Agree
  <1>4. a + t <= Len(e) /\ a + (t + c) <= Len(e)
    BY <1>2
  <1>5. ASSUME NEW i \in 1..t PROVE data[i] = e[a + i]
    <2>1. a + i \in 1..Len(d) /\ a + i <= a + t
      BY <1>1, <1>3, SMTT(40)
    <2> QED BY <1>2, <1>3, <2>1
  <1>6. ASSUME NEW i \in 1..(t + c), ~(i <= t) PROVE data[i] = e[a + i]
    <2>1. PICK k \in 1..c : i = t + k
      <3>1. i - t \in 1..c /\ i = t + (i - t)
        BY <1>6
      <3> QED BY <3>1
    <2>2. a + i = (a + t) + k
      BY <2>1
    <2> QED BY <1>2, <2>1, <2>2
  <1>7. \A i \in 1..(t + c) : data[i] = e[a + i]
    <2>1. \A i \in 1..(t + c) : i <= t => i \in 1..t
      OBVIOUS
    <2> QED BY <1>5, <1>6, <2>1
  <1> QED BY <1>4, <1>5, <1>7 DEF Agree

\* A read goes on where the call is.
LEMMA ReadFurther ==
    ASSUME NEW d \in Seq(Int), NEW a \in Nat, NEW t \in Nat, NEW got \in Bytes, Len(got) = t, NEW b \in Bytes
    PROVE  /\ got \o b \in Bytes /\ Len(got \o b) = t + Len(b)
           /\ Agree(ByteSeq(got), t, d, a) /\ Agree(ByteSeq(b), Len(b), d, a + t) =>
                 Agree(ByteSeq(got \o b), t + Len(b), d, a)
  <1> DEFINE n == Len(b)
             x == got \o b
  <1>1. n \in Nat /\ x \in Bytes /\ Len(x) = t + n
    BY DEF Bytes
  <1>2. (\A i \in 1..t : x[i] = got[i]) /\ \A i \in 1..n : x[t + i] = b[i]
    BY DEF Bytes
  <1> HIDE DEF x
  <1> DEFINE V(s) == Len(s) \in Nat /\ \A i \in 1..Len(s) : ByteSeq(s)[i] = s[i].v
  <1>2a. V(x) /\ V(got) /\ V(b)
    <2>1. ASSUME NEW s \in Bytes PROVE V(s)
      <3>1. \A i \in 1..Len(s) : ByteSeq(s)[i] = s[i].v
        BY ByteValues, Zenon
      <3> QED BY <3>1 DEF Bytes
    <2> QED BY <1>1, <2>1, Zenon
  <1> HIDE DEF V
  <1>3. ASSUME NEW i \in 1..t PROVE ByteSeq(x)[i] = ByteSeq(got)[i]
    <2>1. i \in 1..Len(x) /\ i \in 1..Len(got) /\ x[i] = got[i]
      BY <1>1, <1>2
    <2> QED BY <1>2a, <2>1, Zenon DEF V
  <1>4. ASSUME NEW i \in 1..n PROVE ByteSeq(x)[t + i] = ByteSeq(b)[i]
    <2>1. t + i \in 1..Len(x) /\ i \in 1..Len(b) /\ x[t + i] = b[i]
      BY <1>1, <1>2
    <2> QED BY <1>2a, <2>1, Zenon DEF V
  <1> DEFINE X == ByteSeq(x)
             G == ByteSeq(got)
             B == ByteSeq(b)
  <1> HIDE DEF X, G, B, n
  <1>5. ASSUME Agree(G, t, d, a), Agree(B, n, d, a + t) PROVE Agree(X, t + n, d, a)
    <2>1. (t = 0 \/ a + t <= Len(d)) /\ \A i \in 1..t : G[i] = d[a + i]
      BY <1>5 DEF Agree
    <2>2. (n = 0 \/ (a + t) + n <= Len(d)) /\ \A i \in 1..n : B[i] = d[(a + t) + i]
      BY <1>5 DEF Agree
    <2>3. t + n = 0 \/ a + (t + n) <= Len(d)
      BY <1>1, <2>1, <2>2
    <2>4. ASSUME NEW i \in 1..t PROVE X[i] = d[a + i]
      BY <1>3, <2>1 DEF X, G
    <2>5. ASSUME NEW k \in 1..n PROVE X[t + k] = d[a + (t + k)]
      <3>1. a + (t + k) = (a + t) + k
        BY <1>1
      <3>2. X[t + k] = B[k]
        BY <1>4 DEF X, B
      <3> QED BY <2>2, <3>1, <3>2
    <2>6. ASSUME NEW i \in 1..(t + n) PROVE X[i] = d[a + i]
      <3>1. CASE i <= t
        <4>1. i \in 1..t
          BY <3>1
        <4> QED BY <2>4, <4>1
      <3>2. CASE ~(i <= t)
        <4>1. i - t \in 1..n /\ i = t + (i - t)
          BY <1>1, <3>2
        <4> QED BY <2>5, <4>1
      <3> QED BY <3>1, <3>2
    <2> QED BY <2>3, <2>6 DEF Agree
  <1> QED BY <1>1, <1>5 DEF x, X, G, B, n

-----------------------------------------------------------------------------
(***************************************************************************)
(* A call ends with, or goes on from, what it has read or written.         *)
(***************************************************************************)

LEMMA IOJob ==
    ASSUME NEW j, GoodJob(j), Reading(j) \/ Writing(j)
    PROVE  /\ j.at \in Nat /\ j.call.n \in Nat /\ j.total \in Nat /\ j.total <= j.call.n
           /\ j.call.op = "Read" => j.total = 0
           /\ Writing(j) => j.call.data \in Seq(Int) /\ j.call.n = Len(j.call.data)
           /\ ~(Reading(j) /\ Writing(j))
  <1>1. Midway(j)
    BY DEF GoodJob
  <1>2. CASE Reading(j)
    <2>1. /\ j.at \in Nat /\ j.call.n \in Nat /\ j.total \in 0..j.call.n
          /\ j.call.op = "Read" => j.total = 0
      BY <1>1, <1>2 DEF Midway, Reading
    <2>2. ~Writing(j)
      BY <1>2 DEF Reading, Writing
    <2> QED BY <2>1, <2>2
  <1>3. CASE Writing(j)
    <2>1. /\ j.at \in Nat /\ j.call.data \in Seq(Int) /\ j.call.n = Len(j.call.data)
          /\ j.total \in 0..j.call.n /\ j.call.op # "Read"
      BY <1>1, <1>3 DEF Midway, Writing
    <2>2. ~Reading(j)
      BY <1>3 DEF Reading, Writing
    <2> QED BY <2>1, <2>2
  <1> QED BY <1>2, <1>3

LEMMA IOChunk ==
    ASSUME NEW j, GoodJob(j), Reading(j) \/ Writing(j), NEW max \in Nat, max >= 1, NEW c, c = ioChunk(j, max)
    PROVE  c \in 0..max /\ j.total + c <= j.call.n /\ (j.total < j.call.n => c >= 1)
  <1>1. j.total \in Nat /\ j.call.n \in Nat /\ j.total <= j.call.n
    BY IOJob
  <1> QED BY <1>1 DEF ioChunk, least

\* What holds of the first total bytes, as IOExact puts it.
LEMMA PartRead ==
    ASSUME NEW d \in Seq(Int), NEW o \in Nat, NEW b \in Bytes, Agree(ByteSeq(b), Len(b), d, o)
    PROVE  ByteSeq(b) = SubSeq(d, o + 1, o + Len(b))
  <1> DEFINE x == ByteSeq(b)
             n == Len(b)
  <1>1. x \in Seq(Int) /\ Len(x) = n /\ n \in Nat
    BY ByteValues
  <1>2. Agree(x, n, d, o)
    OBVIOUS
  <1> HIDE DEF x, n
  <1>3. SubSeq(d, o + 1, o + n) = SubSeq(x, 1, n)
    <2>1. n <= Len(x)
      BY <1>1
    <2> QED BY <1>1, <1>2, <2>1, PartOf, Zenon
  <1>4. SubSeq(x, 1, Len(x)) = x
    BY <1>1
  <1> QED BY <1>1, <1>3, <1>4 DEF x, n

LEMMA ExactIf ==
    ASSUME NEW d \in Seq(Int), NEW j, GoodJob(j) \/ (Reading(j) \/ Writing(j) => j.at \in Nat), NEW err,
           Reading(j) /\ j.clean =>
              /\ j.got \in Bytes /\ Len(j.got) = j.total /\ Agree(ByteSeq(j.got), j.total, d, j.at)
              /\ j.call.op = "ReadAt" /\ err = "nil" => j.total = j.call.n
              /\ j.call.op = "ReadAt" /\ err = "EOF" => j.total < j.call.n /\ Len(d) - j.at <= j.total
              /\ j.call.op = "Read" /\ err = "EOF"   => Len(d) - j.at <= 0 \/ j.call.n = 0
              /\ j.call.op = "Read" /\ err = "nil"   => j.total \in 1..j.call.n,
           Writing(j) /\ j.clean =>
              /\ j.total \in Nat /\ j.call.data \in Seq(Int) /\ j.total <= Len(j.call.data)
              /\ Agree(j.call.data, j.total, d, j.at)
              /\ err = "nil" => j.total = j.call.n
    PROVE  Exact(j, err, d)
  <1>0. Reading(j) \/ Writing(j) => j.at \in Nat
    BY IOJob
  <1>1. ASSUME j.clean, Reading(j) PROVE ByteSeq(j.got) = SubSeq(d, j.at + 1, j.at + j.total)
    <2> DEFINE b == j.got
               o == j.at
    <2>1. b \in Bytes /\ o \in Nat /\ Agree(ByteSeq(b), Len(b), d, o) /\ Len(b) = j.total
      BY <1>0, <1>1
    <2> HIDE DEF b, o
    <2>2. ByteSeq(b) = SubSeq(d, o + 1, o + Len(b))
      BY <2>1, PartRead
    <2> QED BY <2>1, <2>2 DEF b, o
  <1>2. ASSUME j.clean, Writing(j)
        PROVE  SubSeq(d, j.at + 1, j.at + j.total) = SubSeq(j.call.data, 1, j.total)
    <2> DEFINE b == j.call.data
               o == j.at
               n == j.total
    <2>1. b \in Seq(Int) /\ o \in Nat /\ n \in Nat /\ n <= Len(b) /\ Agree(b, n, d, o)
      BY <1>0, <1>2
    <2> HIDE DEF b, o, n
    <2>2. SubSeq(d, o + 1, o + n) = SubSeq(b, 1, n)
      BY <2>1, PartOf
    <2> QED BY <2>2 DEF b, o, n
  <1> QED BY <1>1, <1>2, Zenon DEF Exact

\* A call that fails where it is.
LEMMA StopsExact ==
    ASSUME NEW d \in Seq(Int), NEW j, GoodJob(j), Reading(j) \/ Writing(j) => SoFar(j, d)
    PROVE  Exact(j, "error", d)
  <1>1. CASE Reading(j) \/ Writing(j)
    <2>1. /\ j.at \in Nat /\ j.total \in Nat /\ j.total <= j.call.n
          /\ Writing(j) => j.call.data \in Seq(Int) /\ j.call.n = Len(j.call.data)
      BY <1>1, IOJob
    <2>2. Reading(j) /\ j.clean =>
             j.got \in Bytes /\ Len(j.got) = j.total /\ Agree(ByteSeq(j.got), j.total, d, j.at)
      BY <1>1, Zenon DEF SoFar
    <2>3. Writing(j) /\ j.clean => Agree(j.call.data, j.total, d, j.at)
      BY <1>1, Zenon DEF SoFar
    <2>4. "error" # "nil" /\ "error" # "EOF"
      OBVIOUS
    <2>5. Writing(j) => j.total <= Len(j.call.data)
      BY <2>1
    <2> QED BY <2>1, <2>2, <2>3, <2>4, <2>5, ExactIf, Zenon
  <1>2. CASE ~(Reading(j) \/ Writing(j))
    BY <1>2, Zenon DEF Exact
  <1> QED BY <1>1, <1>2

\* A call that begins, and one that has nothing to do.
LEMMA BeginsExact ==
    ASSUME NEW d \in Seq(Int), NEW j, GoodJob(j), j.total = 0, j.got = <<>>
    PROVE  /\ Exact(j, "error", d)
           /\ j.call.op \in {"ReadAt", "Write", "WriteAt"} /\ j.call.n = 0 => Exact(j, "nil", d)
           /\ ~(j.call.op \in {"ReadAt", "Write", "WriteAt"} /\ j.call.n = 0) => SoFar(j, d)
  <1>0. \A b : Agree(b, 0, d, j.at)
    BY DEF Agree
  <1>1. <<>> \in Bytes /\ Len(<<>>) = 0 /\ 0 \in Nat
    BY DEF Bytes
  <1>2. Writing(j) => j.call.data \in Seq(Int) /\ j.total <= Len(j.call.data)
    BY IOJob
  <1>3. j.got \in Bytes /\ Len(j.got) = j.total /\ Agree(ByteSeq(j.got), j.total, d, j.at)
        /\ j.total \in Nat /\ Agree(j.call.data, j.total, d, j.at)
    BY <1>0, <1>1, Zenon
  <1>4. Exact(j, "error", d)
    <2>1. "error" # "nil" /\ "error" # "EOF"
      OBVIOUS
    <2> QED BY <1>2, <1>3, <2>1, ExactIf, Zenon
  <1>5. ASSUME j.call.op \in {"ReadAt", "Write", "WriteAt"}, j.call.n = 0 PROVE Exact(j, "nil", d)
    <2>1. "nil" # "EOF" /\ j.call.op # "Read"
      BY <1>5
    <2>2. j.total = j.call.n
      BY <1>5, Zenon
    <2> QED BY <1>2, <1>3, <2>1, <2>2, ExactIf, Zenon
  <1>6. ASSUME ~(j.call.op \in {"ReadAt", "Write", "WriteAt"} /\ j.call.n = 0) PROVE SoFar(j, d)
    <2>1. j.call.op = "ReadAt" \/ Writing(j) => j.total < j.call.n
      <3>1. ASSUME j.call.op = "ReadAt" \/ Writing(j) PROVE j.total < j.call.n
        <4>1. j.call.n \in Nat
          BY <3>1, IOJob DEF Reading
        <4>2. j.call.n # 0
          BY <1>6, <3>1 DEF Writing
        <4> QED BY <4>1, <4>2
      <3> QED BY <3>1
    <2> QED BY <1>3, <2>1, Zenon DEF SoFar
  <1> QED BY <1>4, <1>5, <1>6
\* What copy takes of a reply whose runs are single bytes.
LEMMA WholeReply ==
    ASSUME NEW b \in Bytes, \A i \in 1..Len(b) : b[i].w = 1, NEW c \in Nat, Len(b) <= c
    PROVE  least(c, Size(b)) = Len(b) /\ cut(b, least(c, Size(b)))[1] = b
  <1>1. /\ Len(b) \in Nat /\ DOMAIN b = 1..Len(b)
        /\ \A i \in 1..Len(b) : b[i] = Cell(b[i].w, b[i].v)
    BY RunAt
  <1>2. Size(b) = Len(b)
    <2> DEFINE x == ByteSeq(b)
    <2>1. x \in Seq(Int) /\ Len(x) = Len(b) /\ \A i \in 1..Len(b) : x[i] = b[i].v
      BY ByteValues
    <2> HIDE DEF x
    <2>2. Size([i \in 1..Len(x) |-> Cell(1, x[i])]) = Len(x)
      BY <2>1, CellsSize
    <2>3. \A i \in 1..Len(b) : b[i] = Cell(1, x[i])
      BY <1>1, <2>1
    <2> DEFINE C(i) == Cell(1, x[i])
    <2> HIDE DEF C
    <2>4. \A i \in 1..Len(b) : b[i] = C(i)
      BY <2>3 DEF C
    <2>5. b = [i \in 1..Len(b) |-> b[i]]
      BY <1>1 DEF Bytes
    <2>6. b = [i \in 1..Len(b) |-> C(i)]
      BY <2>4, <2>5
    <2>7. b = [i \in 1..Len(x) |-> C(i)]
      BY <2>1, <2>6
    <2> QED BY <2>1, <2>2, <2>7 DEF C
  <1>3. least(c, Size(b)) = Size(b)
    <2> DEFINE s == Size(b)
               l == Len(b)
    <2>1. s = l /\ l \in Nat /\ l <= c
      BY <1>1, <1>2
    <2> HIDE DEF s, l
    <2>2. least(c, s) = s
      BY <2>1 DEF least
    <2> QED BY <2>2 DEF s
  <1>4. cut(b, Size(b))[1] = b
    <2>1. b \o <<>> = b /\ <<>> \in Bytes
      BY DEF Bytes
    <2>2. cut(b \o <<>>, Size(b)) = <<b, <<>> >>
      BY <2>1, CutWhole, Zenon
    <2>3. <<b, <<>> >>[1] = b
      OBVIOUS
    <2> QED BY <2>1, <2>2, <2>3, Zenon
  <1> QED BY <1>2, <1>3, <1>4, Zenon

\* A reply to Read ends it.
LEMMA ReadExact ==
    ASSUME NEW d \in Seq(Int), NEW max \in Nat, max >= 1, NEW j, GoodJob(j), j.call.op = "Read",
           NEW m, type(m) = "Rread", arg(m)[1] \in Bytes, Answers(j, m, d, max),
           NEW n, n = least(ioChunk(j, max), Size(arg(m)[1])),
           NEW k, k = Job(j.call, j.at, n, cut(arg(m)[1], n)[1], j.clean, j.names)
    PROVE  Exact(k, IF n = 0 THEN "EOF" ELSE "nil", d)
  <1> DEFINE b == arg(m)[1]
             c == ioChunk(j, max)
  <1>0. Reading(j) /\ ~Writing(j)
    BY DEF Reading, Writing
  <1>1. j.at \in Nat /\ j.call.n \in Nat /\ j.total = 0
    BY <1>0, IOJob
  <1>2. c \in Nat /\ c <= j.call.n /\ (j.call.n # 0 => c >= 1)
    <2>1. c \in 0..max /\ j.total + c <= j.call.n /\ (j.total < j.call.n => c >= 1)
      BY <1>0, IOChunk
    <2> HIDE DEF c
    <2> QED BY <1>1, <2>1
  <1>3. /\ \A i \in 1..Len(b) : b[i].w = 1
        /\ Len(b) <= c
        /\ j.clean => Len(b) = Has(d, j.at + j.total, c) /\ Agree(ByteSeq(b), Len(b), d, j.at + j.total)
    BY <1>0, Zenon DEF Answers
  <1>4. b \in Bytes /\ n = least(c, Size(b)) /\ k = Job(j.call, j.at, n, cut(b, n)[1], j.clean, j.names)
    OBVIOUS
  <1> HIDE DEF b, c
  <1>5. n = Len(b) /\ cut(b, n)[1] = b
    BY <1>2, <1>3, <1>4, WholeReply, Zenon
  <1>6. k.call = j.call /\ k.at = j.at /\ k.total = n /\ k.got = b /\ k.clean = j.clean
    BY <1>4, <1>5, JobParts
  <1>7. j.at + j.total = j.at /\ n \in Nat
    BY <1>1, <1>4, <1>5, RunAt
  <1>8. k.clean => Agree(ByteSeq(k.got), k.total, d, k.at) /\ n = Has(d, j.at, c)
    BY <1>3, <1>5, <1>6, <1>7, Zenon
  <1>9. ASSUME n = 0, k.clean PROVE Len(d) - k.at <= 0 \/ k.call.n = 0
    <2>1. Has(d, j.at, c) = 0
      BY <1>8, <1>9
    <2>2. Len(d) \in Nat
      OBVIOUS
    <2> QED BY <1>1, <1>2, <1>6, <2>1, <2>2 DEF Has, least
  <1>10. n # 0 => k.total \in 1..k.call.n
    BY <1>1, <1>2, <1>3, <1>5, <1>6, <1>7
  <1> DEFINE err == IF n = 0 THEN "EOF" ELSE "nil"
  <1>11. err \in {"EOF", "nil"} /\ (err = "EOF" => n = 0) /\ (err = "nil" => n # 0)
    OBVIOUS
  <1>12. k.call.op = "Read" /\ k.call.op # "ReadAt" /\ ~Writing(k) /\ k.at \in Nat /\ Len(k.got) = k.total /\ k.got \in Bytes
    BY <1>1, <1>4, <1>5, <1>6 DEF Writing
  <1> HIDE DEF err
  <1>13. Exact(k, err, d)
    BY <1>8, <1>9, <1>10, <1>11, <1>12, ExactIf
  <1> QED BY <1>13 DEF err

\* A reply to ReadAt ends it or takes it further.
LEMMA ReadAtExact ==
    ASSUME NEW d \in Seq(Int), NEW max \in Nat, max >= 1, NEW j, GoodJob(j), j.call.op = "ReadAt",
           SoFar(j, d), NEW m, type(m) = "Rread", arg(m)[1] \in Bytes, Answers(j, m, d, max),
           NEW n, n = least(ioChunk(j, max), Size(arg(m)[1])),
           NEW k, k = Job(j.call, j.at, j.total + n, j.got \o cut(arg(m)[1], n)[1], j.clean, j.names)
    PROVE  /\ n < ioChunk(j, max) => Exact(k, "EOF", d)
           /\ ~(n < ioChunk(j, max)) /\ k.total >= k.call.n => Exact(k, "nil", d)
           /\ ~(k.total >= k.call.n) => SoFar(k, d)
  <1> DEFINE b == arg(m)[1]
             c == ioChunk(j, max)
  <1>0. Reading(j) /\ ~Writing(j)
    BY DEF Reading, Writing
  <1>1. j.at \in Nat /\ j.call.n \in Nat /\ j.total \in Nat /\ j.total <= j.call.n
    BY <1>0, IOJob
  <1>2. c \in Nat /\ j.total + c <= j.call.n
    <2>1. c \in 0..max /\ j.total + c <= j.call.n
      BY <1>0, IOChunk
    <2> HIDE DEF c
    <2> QED BY <1>1, <2>1
  <1>3. /\ \A i \in 1..Len(b) : b[i].w = 1
        /\ Len(b) <= c
        /\ j.clean => Len(b) = Has(d, j.at + j.total, c) /\ Agree(ByteSeq(b), Len(b), d, j.at + j.total)
    BY <1>0, Zenon DEF Answers
  <1>4. /\ b \in Bytes /\ n = least(c, Size(b))
        /\ k = Job(j.call, j.at, j.total + n, j.got \o cut(b, n)[1], j.clean, j.names)
    OBVIOUS
  <1>5. /\ j.got \in Bytes /\ Len(j.got) = j.total /\ j.total < j.call.n
        /\ j.clean => Agree(ByteSeq(j.got), j.total, d, j.at)
    BY <1>0, Zenon DEF SoFar
  <1> HIDE DEF b
  <1>6. n = Len(b) /\ cut(b, n)[1] = b /\ n \in Nat /\ n <= c
    <2> HIDE DEF c
    <2>1. n = Len(b) /\ cut(b, n)[1] = b
      BY <1>2, <1>3, <1>4, WholeReply, Zenon
    <2> QED BY <1>3, <1>4, <2>1, RunAt
  <1>7. k.call = j.call /\ k.at = j.at /\ k.total = j.total + n /\ k.got = j.got \o b /\ k.clean = j.clean
    <2> DEFINE o == j.got \o b
               t == j.total + n
    <2>1. k = Job(j.call, j.at, t, o, j.clean, j.names)
      BY <1>4, <1>6
    <2> HIDE DEF o, t
    <2>2. k.call = j.call /\ k.at = j.at /\ k.total = t /\ k.got = o /\ k.clean = j.clean
      BY <2>1, JobParts
    <2> QED BY <2>2 DEF o, t
  <1>8. /\ k.got \in Bytes /\ Len(k.got) = k.total
        /\ k.clean => Agree(ByteSeq(k.got), k.total, d, k.at)
    <2> DEFINE got == j.got
               t == j.total
               a == j.at
    <2>1. got \in Bytes /\ Len(got) = t /\ t \in Nat /\ a \in Nat
          /\ (j.clean => Agree(ByteSeq(got), t, d, a) /\ Agree(ByteSeq(b), Len(b), d, a + t))
      BY <1>1, <1>3, <1>5
    <2>2. k.got = got \o b /\ k.total = t + Len(b) /\ k.at = a /\ k.clean = j.clean
      BY <1>6, <1>7
    <2> HIDE DEF got, t, a
    <2>3. /\ got \o b \in Bytes /\ Len(got \o b) = t + Len(b)
          /\ Agree(ByteSeq(got), t, d, a) /\ Agree(ByteSeq(b), Len(b), d, a + t) =>
                Agree(ByteSeq(got \o b), t + Len(b), d, a)
      BY <1>4, <2>1, ReadFurther
    <2> QED BY <2>1, <2>2, <2>3, Zenon
  <1>9. Reading(k) /\ ~Writing(k) /\ k.call.op = "ReadAt" /\ k.call.op # "Read" /\ k.at \in Nat
    BY <1>0, <1>1, <1>7 DEF Reading, Writing
  <1> HIDE DEF c
  <1>13. /\ n \in Nat /\ c \in Nat /\ n <= c /\ k.total = j.total + n /\ k.call.n = j.call.n /\ k.at = j.at
         /\ j.total + c <= j.call.n /\ j.total \in Nat /\ j.call.n \in Nat /\ j.at \in Nat
    BY <1>1, <1>2, <1>6, <1>7, Zenon
  <1>10. ASSUME n < c PROVE Exact(k, "EOF", d)
    <2>1. k.total < k.call.n
      BY <1>10, <1>13
    <2>2. k.clean => Len(d) - k.at <= k.total
      <3>1. ASSUME k.clean PROVE Len(d) - k.at <= k.total
        <4>1. n = Has(d, j.at + j.total, c)
          BY <1>3, <1>6, <1>7, <3>1, Zenon
        <4>2. Len(d) \in Nat
          OBVIOUS
        <4> DEFINE L == Len(d)
                   o == j.at + j.total
        <4> HIDE DEF L
        <4>3. L \in Nat /\ o \in Nat /\ n = IF L <= o THEN 0 ELSE least(c, L - o)
          BY <1>13, <4>1, <4>2 DEF Has, L
        <4>4. L <= o + n
          BY <1>10, <1>13, <4>3 DEF least
        <4>5. \A a, t \in Nat : L <= (a + t) + n => L - a <= t + n
          BY <1>13, <4>3
        <4>6. L - j.at <= j.total + n
          BY <1>13, <4>4, <4>5
        <4> QED BY <1>13, <4>6 DEF L
      <3> QED BY <3>1
    <2>3. "EOF" # "nil"
      OBVIOUS
    <2> QED BY <1>8, <1>9, <2>1, <2>2, <2>3, ExactIf, Zenon
  <1>11. ASSUME ~(n < c), k.total >= k.call.n PROVE Exact(k, "nil", d)
    <2>1. k.total = k.call.n
      BY <1>11, <1>13
    <2>2. "EOF" # "nil"
      OBVIOUS
    <2> QED BY <1>8, <1>9, <2>1, <2>2, ExactIf, Zenon
  <1>12. ASSUME ~(k.total >= k.call.n) PROVE SoFar(k, d)
    <2>1. k.total < k.call.n
      BY <1>12, <1>13
    <2> QED BY <1>8, <1>9, <2>1, Zenon DEF SoFar
  <1> QED BY <1>10, <1>11, <1>12 DEF c

\* A reply to Write or WriteAt.
LEMMA WriteAtExact ==
    ASSUME NEW d \in Seq(Int), NEW max \in Nat, max >= 1, NEW j, GoodJob(j), Writing(j),
           NEW m, type(m) = "Rwrite", Answers(j, m, d, max),
           NEW k, k = Job(j.call, j.at, j.total + arg(m)[1], j.got, j.clean, j.names)
    PROVE  /\ k.total >= k.call.n => Exact(k, "nil", d)
           /\ ~(k.total >= k.call.n) => SoFar(k, d)
  <1> DEFINE c == ioChunk(j, max)
  <1>1. /\ j.at \in Nat /\ j.call.n \in Nat /\ j.total \in Nat /\ ~Reading(j)
        /\ j.call.data \in Seq(Int) /\ j.call.n = Len(j.call.data)
    BY IOJob
  <1>2. c \in 0..max /\ j.total + c <= j.call.n
    BY IOChunk
  <1>3. arg(m)[1] = c /\ (j.clean => Agree(j.call.data, j.total + c, d, j.at))
    BY Zenon DEF Answers
  <1> HIDE DEF c
  <1>4. k.call = j.call /\ k.at = j.at /\ k.total = j.total + c /\ k.clean = j.clean
    <2>1. k = Job(j.call, j.at, j.total + c, j.got, j.clean, j.names)
      BY <1>3
    <2> QED BY <2>1, JobParts
  <1>5. Writing(k) /\ ~Reading(k)
    BY <1>1, <1>4 DEF Reading, Writing
  <1>6. /\ k.at \in Nat /\ k.total \in Nat /\ k.call.data \in Seq(Int) /\ k.total <= Len(k.call.data)
        /\ k.total <= k.call.n /\ k.call.n \in Nat
    BY <1>1, <1>2, <1>4
  <1>7. k.clean => Agree(k.call.data, k.total, d, k.at)
    BY <1>3, <1>4, Zenon
  <1>8. ASSUME k.total >= k.call.n PROVE Exact(k, "nil", d)
    <2>1. k.total = k.call.n
      BY <1>6, <1>8
    <2> QED BY <1>5, <1>6, <1>7, <2>1, ExactIf, Zenon
  <1>9. ASSUME ~(k.total >= k.call.n) PROVE SoFar(k, d)
    <2>1. k.total < k.call.n
      BY <1>6, <1>9
    <2> QED BY <1>5, <1>7, <2>1, Zenon DEF SoFar
  <1> QED BY <1>8, <1>9

-----------------------------------------------------------------------------
(***************************************************************************)
(* The program's file: its fid stays bound to it.                          *)
(***************************************************************************)

\* A request of the program's start: only one of them binds the file's fid.
StartMsg(m) ==
    \/ type(m) = "Tattach" /\ arg(m)[1] = RootFid
    \/ /\ type(m) = "Twalk" /\ arg(m)[1] = RootFid
       /\ \/ arg(m)[2] = FileFid /\ arg(m)[3] = <<FileName>>
          \/ arg(m)[2] \in {DirFid, MakeFid}
    \/ type(m) = "Topen"

\* A request that may be on its way when o requests of the start are answered.
Fitting(m, o) == IF o < Len(Start) THEN StartMsg(m) ELSE newFid(m)

Requested ==
    cl.pc = "up" => /\ \A i \in DOMAIN c2s : Fitting(c2s[i].msg, opened)
                    /\ \A q \in work : Fitting(q.msg, opened)

\* Once bound, FileFid is the file's, which is no directory.
FileKept(t, f) == ~t[FileNode].dir /\ (FileFid \in DOMAIN f => f[FileFid] = FileNode)
RootKept(t, f) == t = tree0 /\ (RootFid \in DOMAIN f => f[RootFid] = rootPath)

FilesInv == Requested /\ FileKept(fs, fids) /\ (opened < Len(Start) => RootKept(fs, fids))

LEMMA FileIn ==
    ASSUME NEW t, Tree(t)
    PROVE  FileNode \in 1..Len(t) /\ rootPath \in 1..Len(t)
  <1>1. Len(t) \in Nat /\ Len(t) >= 2
    BY DEF Tree
  <1> QED BY <1>1 DEF FileNode, rootPath

\* The nodes of t are directories in u as they are in t.
Dirs(t, u) == DOMAIN u = DOMAIN t /\ \A k \in DOMAIN t : "dir" \in DOMAIN u[k] /\ u[k].dir = t[k].dir

LEMMA DirsEdits ==
    ASSUME NEW t, NEW u, Dirs(t, u), NEW n \in DOMAIN t, NEW x
    PROVE  /\ Dirs(t, [u EXCEPT ![n].name = x]) /\ Dirs(t, [u EXCEPT ![n].children = x])
           /\ Dirs(t, [u EXCEPT ![n].data = x]) /\ Dirs(t, [u EXCEPT ![n].vers = x])
  <1>1. DOMAIN u = DOMAIN t /\ \A k \in DOMAIN t : "dir" \in DOMAIN u[k] /\ u[k].dir = t[k].dir
    BY DEF Dirs
  <1>2. ASSUME NEW y, "dir" \in DOMAIN y, y.dir = u[n].dir PROVE Dirs(t, [u EXCEPT ![n] = y])
    BY <1>1, <1>2 DEF Dirs
  <1> DEFINE z == u[n]
  <1> HIDE DEF z
  <1>3. "dir" \in DOMAIN z
    BY <1>1 DEF z
  <1>4. /\ "dir" \in DOMAIN [z EXCEPT !.name = x] /\ [z EXCEPT !.name = x].dir = z.dir
        /\ "dir" \in DOMAIN [z EXCEPT !.children = x] /\ [z EXCEPT !.children = x].dir = z.dir
        /\ "dir" \in DOMAIN [z EXCEPT !.data = x] /\ [z EXCEPT !.data = x].dir = z.dir
        /\ "dir" \in DOMAIN [z EXCEPT !.vers = x] /\ [z EXCEPT !.vers = x].dir = z.dir
    BY <1>3
  <1> QED BY <1>2, <1>4 DEF z

LEMMA DirsSelf ==
    ASSUME NEW t, Tree(t)
    PROVE  Dirs(t, t)
  <1>1. /\ DOMAIN t = 1..Len(t) /\ \A k \in 1..Len(t) : t[k] \in Node(Len(t))
    BY NodeParts, FileIn
  <1> QED BY <1>1 DEF Dirs, Node

\* No method of the file system makes a file of a directory, or a directory of a file.
DirKept(r, t) == r.ok => r.fs[FileNode].dir = t[FileNode].dir

LEMMA RemoveKeepsDir ==
    ASSUME NEW t, Tree(t), NEW n \in 1..Len(t)
    PROVE  DirKept(RemoveNode(t, n), t)
  <1> DEFINE p == t[n].parent
             x == without(t[p].children, t[n].name)
             u == [t EXCEPT ![p].children = x]
  <1>1. RemoveNode(t, n) = IF p = 0 THEN Failure(25)
            ELSE IF t[n].dir /\ t[n].children # <<>> THEN Failure(26)
            ELSE Result(u, n)
    BY DEF RemoveNode
  <1>2. ASSUME p # 0 PROVE u[FileNode].dir = t[FileNode].dir
    <2>1. p \in DOMAIN t /\ FileNode \in DOMAIN t
      BY <1>2, NodeParts, FileIn
    <2> HIDE DEF p, x
    <2>2. Dirs(t, u)
      BY <2>1, DirsSelf, DirsEdits
    <2> QED BY <2>1, <2>2 DEF Dirs
  <1> DEFINE r == RemoveNode(t, n)
  <1> HIDE DEF p, u, r
  <1>3. \/ \E len : r = Failure(len)
        \/ r = Result(u, n) /\ p # 0
    BY <1>1, Zenon DEF r
  <1>4. DirKept(r, t)
    BY <1>2, <1>3, OutcomeParts DEF DirKept
  <1> QED BY <1>4 DEF r

LEMMA AddKeepsDir ==
    ASSUME NEW t, Tree(t), NEW n \in 1..Len(t), NEW name \in Nat, NEW dir \in BOOLEAN, NEW target \in Nat
    PROVE  DirKept(addChild(t, n, name, dir, target), t)
  <1> DEFINE k == Len(t) + 1
             y == [name |-> name, dir |-> dir, target |-> target, vers |-> 0,
                   data |-> <<>>, children |-> <<>>, parent |-> n]
             grown == Append(t, y)
             x == with(grown[n].children, name, Len(grown))
             u == [grown EXCEPT ![n].children = x]
             N == Node(Len(t))
  <1>1. /\ Len(t) \in Nat /\ FileNode \in 1..Len(t) /\ t \in Seq(N)
    BY FileIn DEF Tree
  <1>2. Len(grown) = k /\ grown[n] = t[n] /\ grown[FileNode] = t[FileNode] /\ DOMAIN grown = 1..k
    <2> HIDE DEF N, y
    <2> QED BY <1>1
  <1>3. addChild(t, n, name, dir, target) =
           IF ~t[n].dir THEN Failure(notADirectory)
           ELSE IF name \in DOMAIN t[n].children THEN Failure(alreadyExists(name))
           ELSE Result(u, Len(grown))
    BY Zenon DEF addChild, newNode
  <1>4. t[n] \in N
    BY NodeParts
  <1> HIDE DEF grown, x
  <1>5. [t[n] EXCEPT !.children = x].dir = t[n].dir
    BY <1>4 DEF N, Node
  <1>6. u = [grown EXCEPT ![n] = [t[n] EXCEPT !.children = x]]
    BY <1>2
  <1>7. u[FileNode].dir = t[FileNode].dir
    <2> DEFINE z == [t[n] EXCEPT !.children = x]
    <2>1. z.dir = t[n].dir /\ u = [grown EXCEPT ![n] = z]
      BY <1>5, <1>6
    <2>2. FileNode \in 1..k /\ n \in 1..k
      BY <1>1
    <2> HIDE DEF z, u, k
    <2> QED BY <1>2, <2>1, <2>2
  <1> DEFINE r == addChild(t, n, name, dir, target)
  <1> HIDE DEF u, r
  <1>8. (\E len : r = Failure(len)) \/ r = Result(u, Len(grown))
    BY <1>3, Zenon DEF r
  <1>9. DirKept(r, t)
    BY <1>7, <1>8, OutcomeParts DEF DirKept
  <1> QED BY <1>9 DEF r

LEMMA WriteKeepsDir ==
    ASSUME NEW t, Tree(t), NEW n \in 1..Len(t), NEW o \in Nat, NEW w \in Seq(Int)
    PROVE  /\ DirKept(Write(t, n, o, w), t)
           /\ n = FileNode /\ ~t[FileNode].dir =>
                 /\ Write(t, n, o, w).ok /\ Write(t, n, o, w).val = Len(w)
                 /\ Write(t, n, o, w).fs[FileNode].data = fileWritten(t[FileNode].data, o, w)
  <1> DEFINE d == t[n].data
             x == fileWritten(d, o, w)
             v == t[n].vers + 1
             u == [t EXCEPT ![n].vers = v, ![n].data = x]
  <1>1. Write(t, n, o, w) = IF t[n].dir THEN Failure(34) ELSE Result(u, Len(w))
    BY DEF Write, fileWritten
  <1>2. /\ DOMAIN t = 1..Len(t) /\ t[n] \in Node(Len(t)) /\ FileNode \in 1..Len(t)
    BY NodeParts, FileIn
  <1> HIDE DEF x, v
  <1> DEFINE y == [[t[n] EXCEPT !.vers = v] EXCEPT !.data = x]
  <1>3. y.dir = t[n].dir /\ y.data = x
    BY <1>2 DEF Node
  <1>4. u = [t EXCEPT ![n] = y]
    BY <1>2
  <1> HIDE DEF y, u
  <1>5. u[FileNode].dir = t[FileNode].dir /\ (n = FileNode => u[FileNode].data = x)
    BY <1>2, <1>3, <1>4
  <1> DEFINE r == Write(t, n, o, w)
  <1> HIDE DEF r
  <1>6. \/ t[n].dir /\ r = Failure(34)
        \/ r = Result(u, Len(w))
    BY <1>1, Zenon DEF r
  <1>7. DirKept(r, t)
    BY <1>5, <1>6, OutcomeParts DEF DirKept
  <1>8. n = FileNode /\ ~t[FileNode].dir => r.ok /\ r.val = Len(w) /\ r.fs[FileNode].data = x
    BY <1>5, <1>6, OutcomeParts
  <1> QED BY <1>7, <1>8, Zenon DEF r, x
LEMMA WStatKeepsDir ==
    ASSUME NEW t, Tree(t), NEW n \in 1..Len(t), NEW st
    PROVE  DirKept(WStat(t, n, st), t)
  <1> DEFINE p       == t[n].parent
             rename  == st[8] # 0 /\ st[8] # t[n].name
             f1      == [t EXCEPT ![n].name = st[8]]
             kids    == with(without(f1[p].children, t[n].name), st[8], n)
             renamed == [f1 EXCEPT ![p].children = kids]
             base    == IF rename THEN renamed ELSE t
             d       == resize(base[n].data, st[7])
             f2      == [base EXCEPT ![n].data = d]
             v       == f2[n].vers + 1
             sized   == [f2 EXCEPT ![n].vers = v]
             r       == WStat(t, n, st)
  <1>1. r = IF rename /\ p = 0 THEN Failure(25)
            ELSE IF rename /\ st[8] \in DOMAIN t[p].children THEN Failure(alreadyExists(st[8]))
            ELSE Result(IF st[7] # DontTouch /\ ~t[n].dir THEN sized ELSE base, n)
    <2> DEFINE ren == [t EXCEPT ![n].name = st[8],
                                ![p].children = with(without(@, t[n].name), st[8], n)]
               b   == IF rename THEN ren ELSE t
               siz == [b EXCEPT ![n].data = resize(@, st[7]), ![n].vers = @ + 1]
    <2>1. r = IF rename /\ p = 0 THEN Failure(25)
            ELSE IF rename /\ st[8] \in DOMAIN t[p].children THEN Failure(alreadyExists(st[8]))
            ELSE Result(IF st[7] # DontTouch /\ ~t[n].dir THEN siz ELSE b, n)
      BY DEF WStat
    <2>2. ren = renamed
      OBVIOUS
    <2> HIDE DEF ren, renamed
    <2>3. b = base
      BY <2>2
    <2> HIDE DEF b, base
    <2>4. siz = sized
      BY <2>3
    <2> HIDE DEF siz, sized
    <2> QED BY <2>1, <2>3, <2>4, Zenon
  <1>2. /\ DOMAIN t = 1..Len(t) /\ FileNode \in 1..Len(t) /\ p \in 0..Len(t) /\ Len(t) \in Nat
    BY NodeParts, FileIn
  <1>3. Dirs(t, t)
    BY DirsSelf
  <1> HIDE DEF d, v, kids, rename, p
  <1>4. ASSUME p # 0 PROVE Dirs(t, renamed)
    <2>1. Dirs(t, f1)
      BY <1>2, <1>3, DirsEdits
    <2>2. p \in DOMAIN t
      BY <1>2, <1>4
    <2> HIDE DEF f1
    <2> QED BY <2>1, <2>2, DirsEdits
  <1> HIDE DEF renamed, r
  <1>5. ASSUME Dirs(t, base) PROVE Dirs(t, sized)
    <2> HIDE DEF base
    <2>1. Dirs(t, f2)
      BY <1>2, <1>5, DirsEdits
    <2> HIDE DEF f2
    <2> QED BY <1>2, <2>1, DirsEdits
  <1>6. (rename /\ p = 0) \/ Dirs(t, base)
    BY <1>3, <1>4
  <1> HIDE DEF base, sized
  <1>7. (\E len : r = Failure(len)) \/ \E u : Dirs(t, u) /\ r = Result(u, n)
    <2>1. CASE rename /\ p = 0
      BY <1>1, <2>1
    <2>2. CASE ~(rename /\ p = 0)
      BY <1>1, <1>5, <1>6, <2>2
    <2> QED BY <2>1, <2>2
  <1>8. DirKept(r, t)
    <2>1. CASE \E len : r = Failure(len)
      BY <2>1, OutcomeParts DEF DirKept
    <2>2. CASE \E u : Dirs(t, u) /\ r = Result(u, n)
      <3>1. PICK u : Dirs(t, u) /\ r = Result(u, n)
        BY <2>2
      <3>2. r.fs = u /\ u[FileNode].dir = t[FileNode].dir
        BY <1>2, <3>1, OutcomeParts DEF Dirs
      <3> QED BY <3>2 DEF DirKept
    <2> QED BY <1>7, <2>1, <2>2
  <1> QED BY <1>8 DEF r

\* What becomes of the fids.
LEMMA FidsBound ==
    ASSUME NEW f, NEW n, NEW t, FileKept(t, fids)
    PROVE  /\ f # FileFid => FileKept(t, bound(f, n))
           /\ FileKept(t, bound(FileFid, FileNode))
           /\ FileKept(t, unbound(f))
  BY DEF FileKept, bound, unbound

LEMMA RootBound ==
    ASSUME NEW f, NEW n, RootKept(fs, fids)
    PROVE  /\ RootKept(fs, bound(RootFid, rootPath))
           /\ f # RootFid => RootKept(fs, bound(f, n))
  BY DEF RootKept, bound

\* The tree the file system starts with.
LEMMA FirstFile ==
    ASSUME sc \in Scenarios
    PROVE  ~tree0[FileNode].dir /\ tree0[rootPath].children[FileName] = FileNode
  <1>1. sc.data \in Seq(Int) /\ sc.target \in Nat
    BY CallsAssumption, Zenon
  <1> DEFINE f == Create(New, rootPath, FileName, FALSE)
             d == [f.fs EXCEPT ![f.val].data = sc.data]
             K == with(<<>>, FileName, 2)
             r == Symlink(d, rootPath, LinkName, sc.target)
             a == File(1, TRUE, <<>>, K, 0)
             b == File(FileName, FALSE, sc.data, <<>>, rootPath)
  <1>2. tree0 = IF sc.target = 0 THEN d ELSE r.fs
    BY Zenon DEF tree0
  <1>3. d = <<a, b>>
    <2> HIDE DEF K
    <2> QED BY <1>1, FirstTree DEF K
  <1>4. K[FileName] = 2 /\ a.children = K /\ a.dir = TRUE /\ b.dir = FALSE
    BY DEF with, File
  <1> HIDE DEF f, d
  <1>5. Tree(d) /\ d[rootPath].dir /\ DOMAIN d[rootPath].children = {FileName}
    <2> HIDE DEF K
    <2>1. K = with(<<>>, FileName, 2)
      BY DEF K
    <2> QED BY <1>1, <1>3, <2>1, FirstIsTree
  <1>6. ~d[FileNode].dir /\ d[rootPath].children[FileName] = FileNode
    <2> HIDE DEF K, a, b
    <2> QED BY <1>3, <1>4 DEF FileNode, rootPath
  <1>7. ASSUME sc.target # 0
        PROVE  ~r.fs[FileNode].dir /\ r.fs[rootPath].children[FileName] = FileNode
    <2> DEFINE y == [name |-> LinkName, dir |-> FALSE, target |-> sc.target, vers |-> 0,
                     data |-> <<>>, children |-> <<>>, parent |-> rootPath]
               grown == Append(d, y)
               x == with(grown[rootPath].children, LinkName, Len(grown))
               u == [grown EXCEPT ![rootPath].children = x]
               N == Node(Len(d))
    <2>1. d \in Seq(N) /\ Len(d) \in Nat /\ Len(d) >= 2 /\ LinkName # FileName
      BY <1>5 DEF Tree, LinkName, FileName
    <2>2. r = Result(u, Len(grown))
      <3>1. LinkName \notin DOMAIN d[rootPath].children
        BY <1>5, <2>1
      <3> QED BY <1>5, <3>1, Zenon DEF Symlink, addChild, newNode
    <2>3. /\ grown[rootPath] = d[rootPath] /\ grown[FileNode] = d[FileNode]
          /\ rootPath \in DOMAIN grown /\ rootPath # FileNode
      <3> HIDE DEF N, y
      <3> QED BY <2>1 DEF rootPath, FileNode
    <2>4. x[FileName] = FileNode
      <3>1. FileName \in DOMAIN d[rootPath].children
        BY <1>5
      <3> HIDE DEF grown
      <3> QED BY <1>6, <2>1, <2>3, <3>1 DEF with
    <2> HIDE DEF grown, x
    <2>5. "children" \in DOMAIN d[rootPath]
      <3>1. d[rootPath] \in N
        BY <1>5, NodeParts, FileIn
      <3> QED BY <3>1 DEF N, Node
    <2>6. u[FileNode] = d[FileNode] /\ u[rootPath].children = x
      BY <2>3, <2>5
    <2>7. r.fs = u
      <3> HIDE DEF r, u
      <3> QED BY <2>2, OutcomeParts
    <2> QED BY <1>6, <2>4, <2>6, <2>7, Zenon
  <1> QED BY <1>2, <1>6, <1>7, Zenon

\* A walk binds a fid, for one name to that child.
WalkBinds(h, m, err) ==
    \/ h = errReply(err)
    \/ \E v, r : /\ h = Handled(fs, bound(arg(m)[2], v), r)
                 /\ arg(m)[3] = <<FileName>> => v = fs[fids[arg(m)[1]]].children[FileName]

LEMMA WalkBindsOne ==
    ASSUME Served, NEW m \in Messages, type(m) = "Twalk", arg(m)[1] \in DOMAIN fids
    PROVE  \E err : WalkBinds(tWalk(m), m, err)
  <1> DEFINE names == arg(m)[3]
             v0 == fids[arg(m)[1]]
             N == Len(names)
             at == CHOOSE at : at = [i \in 0..Len(names) |->
                      IF i = 0 THEN Result(fs, v0)
                      ELSE IF at[i - 1].ok THEN Walk(fs, at[i - 1].val, names[i]) ELSE at[i - 1]]
             n == CHOOSE i \in 0..Len(names) : at[i].ok /\ (i = Len(names) \/ ~at[i + 1].ok)
             qids == [i \in 1..n |-> Qid(fs, at[i].val)]
             h == tWalk(m)
  <1>1. h = IF n = 0 /\ names # <<>> THEN errReply(at[1].err)
            ELSE Handled(fs, bound(arg(m)[2], at[n].val), Msg("Rwalk", <<qids>>))
    BY Zenon DEF tWalk
  <1>2. names \in Seq(Nat) /\ N <= MaxWElem /\ N \in Nat
    BY ArgKinds
  <1>3. v0 \in 1..Len(fs) /\ Tree(fs)
    BY ServedParts DEF Served
  <1>4. at = [i \in 0..Len(names) |->
                 IF i = 0 THEN Result(fs, v0)
                 ELSE IF at[i - 1].ok THEN Walk(fs, at[i - 1].val, names[i]) ELSE at[i - 1]]
    <2> DEFINE P(k) == k = [i \in 0..Len(names) |->
                              IF i = 0 THEN Result(fs, v0)
                              ELSE IF k[i - 1].ok THEN Walk(fs, k[i - 1].val, names[i]) ELSE k[i - 1]]
    <2>1. \E k : P(k)
      BY <1>2, <1>3, WalkExists
    <2> QED BY <2>1, Zenon
  <1> HIDE DEF at, names, v0
  <1>5. /\ at \in [0..N -> Walked] /\ at[0].ok
        /\ \A i \in 1..N : ~at[i - 1].ok => ~at[i].ok
    BY <1>2, <1>3, <1>4, WalkGoes, ZenonT(60)
  <1>6. /\ n \in 0..N /\ (n = N \/ ~at[n + 1].ok)
        /\ \A i \in 0..n : at[i].ok
    <2>1. n = CHOOSE i \in 0..N : at[i].ok /\ (i = N \/ ~at[i + 1].ok)
      OBVIOUS
    <2> HIDE DEF n, N
    <2> QED BY <1>2, <1>5, <2>1, WalkStops
  <1> HIDE DEF n, h, qids
  <1>7. CASE n = 0 /\ names # <<>>
    <2>1. h = errReply(at[1].err)
      BY <1>1, <1>7
    <2> QED BY <2>1, Zenon DEF WalkBinds, h
  <1>8. CASE ~(n = 0 /\ names # <<>>)
    <2>1. h = Handled(fs, bound(arg(m)[2], at[n].val), Msg("Rwalk", <<qids>>))
      BY <1>1, <1>8
    <2>2. ASSUME names = <<FileName>> PROVE at[n].val = fs[v0].children[FileName]
      <3>1. N = 1 /\ names[1] = FileName /\ names # <<>>
        BY <2>2
      <3>2. n = 1
        BY <1>6, <1>8, <3>1
      <3>3. at[0] = Result(fs, v0) /\ at[1] = IF at[0].ok THEN Walk(fs, at[0].val, names[1]) ELSE at[0]
        BY <1>4, <3>1
      <3>4. at[1] = Walk(fs, v0, FileName)
        BY <1>5, <3>1, <3>3, OutcomeParts
      <3>5. at[1].ok
        BY <1>6, <3>2
      <3> DEFINE w == Walk(fs, v0, FileName)
      <3>6. (\E len : w = Failure(len)) \/ w = Result(fs, fs[v0].children[FileName])
        BY Zenon DEF Walk
      <3> HIDE DEF w
      <3>7. w.ok /\ w = at[1]
        BY <3>4, <3>5 DEF w
      <3>8. w.val = fs[v0].children[FileName]
        BY <3>6, <3>7, OutcomeParts
      <3> QED BY <3>2, <3>7, <3>8
    <2>3. WalkBinds(h, m, 0)
      BY <2>1, <2>2, Zenon DEF WalkBinds, names, v0
    <2> QED BY <2>3, Zenon DEF h
  <1> QED BY <1>7, <1>8

\* A handler leaves the file's fid and, during the start, the tree alone.
KeepsFile(h) == FileKept(h.fs, h.fids) /\ (opened < Len(Start) => RootKept(h.fs, h.fids))
Kindly == FileKept(fs, fids) /\ (opened < Len(Start) => RootKept(fs, fids))

LEMMA ErrorKeepsFile ==
    ASSUME Kindly, NEW len
    PROVE  KeepsFile(errReply(len)) /\ \A r : KeepsFile(Handled(fs, fids, r))
  <1>1. errReply(len) = Handled(fs, fids, Msg("Rerror", <<len>>))
    BY DEF errReply
  <1>2. \A r : Handled(fs, fids, r).fs = fs /\ Handled(fs, fids, r).fids = fids
    BY OutcomeParts
  <1> QED BY <1>1, <1>2, Zenon DEF KeepsFile, Kindly

LEMMA BoundKeepsFile ==
    ASSUME Kindly, NEW f, NEW n, NEW r,
           \/ f # FileFid /\ f # RootFid
           \/ f = RootFid /\ n = rootPath
           \/ f = FileFid /\ n = FileNode
    PROVE  KeepsFile(Handled(fs, bound(f, n), r))
  <1>0. RootFid # FileFid
    BY DEF RootFid, FileFid
  <1>1. FileKept(fs, bound(f, n))
    BY <1>0, FidsBound, Zenon DEF Kindly
  <1>2. opened < Len(Start) => RootKept(fs, bound(f, n))
    BY <1>0, RootBound, Zenon DEF Kindly
  <1>3. Handled(fs, bound(f, n), r).fs = fs /\ Handled(fs, bound(f, n), r).fids = bound(f, n)
    BY OutcomeParts
  <1> QED BY <1>1, <1>2, <1>3, Zenon DEF KeepsFile

\* After the start, a handler may change the tree too.
LEMMA TreeKeepsFile ==
    ASSUME Kindly, ~(opened < Len(Start)), NEW t, t[FileNode].dir = fs[FileNode].dir, NEW r
    PROVE  /\ KeepsFile(Handled(t, fids, r))
           /\ \A f : KeepsFile(Handled(t, unbound(f), r))
           /\ \A f, n : f # FileFid => KeepsFile(Handled(t, bound(f, n), r))
  <1>1. FileKept(t, fids)
    BY DEF Kindly, FileKept
  <1>2. /\ \A f : FileKept(t, unbound(f))
        /\ \A f, n : f # FileFid => FileKept(t, bound(f, n))
    BY <1>1, FidsBound, Zenon
  <1>3. \A f : Handled(t, f, r).fs = t /\ Handled(t, f, r).fids = f
    BY OutcomeParts
  <1> QED BY <1>1, <1>2, <1>3, Zenon DEF KeepsFile

losing(h, f) == [h EXCEPT !.fids = unbound(f)]

LEMMA OrErrorKeepsFile ==
    ASSUME Kindly, NEW r, DirKept(r, fs), NEW m,
           ~(opened < Len(Start)) \/ (r.ok => r.fs = fs)
    PROVE  /\ KeepsFile(orError(r, fids, m))
           /\ ~(opened < Len(Start)) =>
                 \A f : KeepsFile(losing(orError(r, fids, m), f))
  <1> DEFINE o == orError(r, fids, m)
             p(f) == losing(o, f)
  <1>0. \A t, x : o = Handled(t, fids, x) => \A f : p(f) = Handled(t, unbound(f), x)
    <2> HIDE DEF o
    <2> QED BY DEF Handled, losing
  <1>1. CASE ~r.ok
    <2>1. o = errReply(r.err) /\ o = Handled(fs, fids, Msg("Rerror", <<r.err>>))
      BY <1>1 DEF orError, errReply
    <2>2. \A f : p(f) = Handled(fs, unbound(f), Msg("Rerror", <<r.err>>))
      BY <1>0, <2>1, Zenon
    <2> HIDE DEF o, p
    <2>3. ~(opened < Len(Start)) => \A f : KeepsFile(Handled(fs, unbound(f), Msg("Rerror", <<r.err>>)))
      BY TreeKeepsFile, Zenon
    <2>4. KeepsFile(o) /\ (~(opened < Len(Start)) => \A f : KeepsFile(p(f)))
      BY <2>1, <2>2, <2>3, ErrorKeepsFile, Zenon
    <2> QED BY <2>4 DEF o, p
  <1>2. CASE r.ok
    <2> DEFINE t == r.fs
    <2>1. o = Handled(t, fids, m) /\ t[FileNode].dir = fs[FileNode].dir
      BY <1>2 DEF orError, DirKept
    <2>2. \A f : p(f) = Handled(t, unbound(f), m)
      BY <1>0, <2>1, Zenon
    <2>3. opened < Len(Start) => t = fs
      BY <1>2
    <2> HIDE DEF t, o, p
    <2>4. ~(opened < Len(Start)) =>
             KeepsFile(Handled(t, fids, m)) /\ \A f : KeepsFile(Handled(t, unbound(f), m))
      BY <2>1, TreeKeepsFile, Zenon
    <2>5. opened < Len(Start) => KeepsFile(Handled(t, fids, m))
      BY <2>3, ErrorKeepsFile, Zenon
    <2>6. KeepsFile(o) /\ (~(opened < Len(Start)) => \A f : KeepsFile(p(f)))
      BY <2>1, <2>2, <2>4, <2>5, Zenon
    <2> QED BY <2>6 DEF o, p
  <1> QED BY <1>1, <1>2

LEMMA CreateKeepsFile ==
    ASSUME Served, Kindly, ~(opened < Len(Start)), NEW m \in Messages, type(m) = "Tcreate",
           arg(m)[1] \in DOMAIN fids
    PROVE  KeepsFile(tCreate(m))
  <1> DEFINE n == fids[arg(m)[1]]
             is == arg(m)[3] = DMDIR
             a == addChild(fs, n, arg(m)[2], FALSE, arg(m)[5])
             b == addChild(fs, n, arg(m)[2], is, 0)
             r == IF sv.unix /\ arg(m)[3] = DMSYMLINK THEN a ELSE b
             h == tCreate(m)
  <1>1. h = IF r.ok THEN Handled(r.fs, bound(arg(m)[1], r.val), Msg("Rcreate", <<Qid(r.fs, r.val), 0>>))
            ELSE errReply(r.err)
    BY Zenon DEF tCreate, Create, Symlink
  <1>2. n \in 1..Len(fs) /\ Tree(fs)
    BY ServedParts DEF Served
  <1>3. arg(m)[2] \in Nat /\ arg(m)[5] \in Nat /\ is \in BOOLEAN /\ FALSE \in BOOLEAN /\ 0 \in Nat
    BY ArgKinds
  <1>4. DirKept(a, fs) /\ DirKept(b, fs)
    <2> HIDE DEF n, is
    <2> QED BY <1>2, <1>3, AddKeepsDir, Zenon
  <1>5. ~fs[n].dir => ~a.ok /\ ~b.ok
    <2> HIDE DEF is, n
    <2>1. ~fs[n].dir => a = Failure(notADirectory) /\ b = Failure(notADirectory)
      BY Zenon DEF addChild
    <2> HIDE DEF a, b
    <2> QED BY <2>1, OutcomeParts
  <1> HIDE DEF a, b
  <1>6. DirKept(r, fs) /\ (~fs[n].dir => ~r.ok)
    BY <1>4, <1>5
  <1>7. arg(m)[1] = FileFid => ~fs[n].dir
    BY DEF Kindly, FileKept
  <1> HIDE DEF r, n, h
  <1>8. CASE r.ok
    <2> DEFINE t == r.fs
    <2>1. arg(m)[1] # FileFid /\ t[FileNode].dir = fs[FileNode].dir
      BY <1>6, <1>7, <1>8 DEF DirKept
    <2>2. h = Handled(t, bound(arg(m)[1], r.val), Msg("Rcreate", <<Qid(t, r.val), 0>>))
      BY <1>1, <1>8
    <2> HIDE DEF t
    <2> QED BY <2>1, <2>2, TreeKeepsFile, Zenon DEF h
  <1>9. CASE ~r.ok
    <2>1. h = errReply(r.err)
      BY <1>1, <1>9
    <2> QED BY <2>1, ErrorKeepsFile, Zenon DEF h
  <1> QED BY <1>8, <1>9

\* A write of the file, as a handler does it.
LEMMA WriteRuns ==
    ASSUME Served, NEW m \in Messages, type(m) = "Twrite", arg(m)[1] \in DOMAIN fids, arg(m)[2] \in Nat
    PROVE  LET w == ByteSeq(arg(m)[3])
               r == Write(fs, fids[arg(m)[1]], arg(m)[2], w)
           IN  /\ w \in Seq(Int) /\ Len(w) = Len(arg(m)[3])
               /\ DirKept(r, fs)
               /\ tWrite(m) = IF r.ok THEN Handled(r.fs, fids, Msg("Rwrite", <<r.val>>))
                              ELSE errReply(r.err)
  <1> DEFINE w == ByteSeq(arg(m)[3])
             r == Write(fs, fids[arg(m)[1]], arg(m)[2], w)
  <1>1. arg(m)[3] \in Bytes
    BY ArgKinds
  <1>2. w \in Seq(Int) /\ Len(w) = Len(arg(m)[3])
    BY <1>1, ByteValues
  <1>3. tWrite(m) = IF r.ok THEN Handled(r.fs, fids, Msg("Rwrite", <<r.val>>)) ELSE errReply(r.err)
    BY Zenon DEF tWrite, ByteSeq
  <1>4. fids[arg(m)[1]] \in 1..Len(fs) /\ Tree(fs)
    BY ServedParts DEF Served
  <1>5. DirKept(r, fs)
    <2> HIDE DEF w
    <2> QED BY <1>2, <1>4, WriteKeepsDir, Zenon
  <1> QED BY <1>2, <1>3, <1>5, Zenon

LEMMA DispatchKeepsFile ==
    ASSUME Served, sc \in Scenarios, Kindly, opened \in 0..Len(Start),
           NEW max \in Nat, NEW m \in Requests(max), Fitting(m, opened), NEW unix \in BOOLEAN
    PROVE  KeepsFile(dispatch(m, unix))
  <1>0. m \in Messages /\ type(m) \in RequestTypes /\ Ranged(m, max)
    BY Zenon DEF Requests
  <1> DEFINE t == type(m)
             early == opened < Len(Start)
  <1>1. early => t \in {"Tattach", "Twalk", "Topen"} /\ StartMsg(m)
    BY DEF Fitting, StartMsg
  <1>2. ~early => newFid(m)
    BY DEF Fitting
  <1>3. \A f : f \notin RootFid..MakeFid => f # FileFid /\ f # RootFid
    BY DEF RootFid, FileFid, MakeFid
  <1>4. CASE t = "Tauth"
    <2>1. dispatch(m, unix) = errReply(27)
      BY <1>4 DEF dispatch
    <2> QED BY <2>1, ErrorKeepsFile, Zenon
  <1>5. CASE t = "Tattach"
    <2>1. dispatch(m, unix) = Handled(fs, bound(arg(m)[1], rootPath), Msg("Rattach", <<Qid(fs, rootPath)>>))
      BY <1>5 DEF dispatch, tAttach
    <2>2. arg(m)[1] = RootFid \/ (arg(m)[1] # FileFid /\ arg(m)[1] # RootFid)
      <3>1. CASE early
        BY <1>1, <1>5, <3>1 DEF StartMsg
      <3>2. CASE ~early
        BY <1>2, <1>3, <1>5, <3>2 DEF newFid
      <3> QED BY <3>1, <3>2
    <2> QED BY <2>1, <2>2, BoundKeepsFile, Zenon
  <1>6. CASE t = "Tflush"
    <2>1. dispatch(m, unix) = Handled(fs, fids, Msg("Rflush", <<>>))
      BY <1>6 DEF dispatch
    <2> QED BY <2>1, ErrorKeepsFile, Zenon
  <1>7. CASE t = "Tclunk"
    <2>1. dispatch(m, unix) = Handled(fs, unbound(arg(m)[1]), Msg("Rclunk", <<>>))
      BY <1>7 DEF dispatch, tClunk
    <2>2. ~early
      BY <1>1, <1>7
    <2> QED BY <2>1, <2>2, TreeKeepsFile, Zenon
  <1>8. CASE t \notin {"Tauth", "Tattach", "Tflush", "Tclunk"}
    <2>1. dispatch(m, unix) = IF arg(m)[1] \in DOMAIN fids THEN onFid(m, unix) ELSE errUnknownFid
      BY <1>8 DEF dispatch
    <2>2. CASE arg(m)[1] \notin DOMAIN fids
      <3>1. dispatch(m, unix) = errReply(11)
        BY <2>1, <2>2 DEF errUnknownFid
      <3> QED BY <3>1, ErrorKeepsFile, Zenon
    <2>3. CASE arg(m)[1] \in DOMAIN fids
      <3>1. dispatch(m, unix) = onFid(m, unix)
        BY <2>1, <2>3
      <3>2. t \in {"Twalk", "Topen", "Tcreate", "Tread", "Twrite", "Tremove", "Tstat", "Twstat"}
        BY <1>0, <1>8 DEF RequestTypes, OtherRequests
      <3>3. /\ t = "Twalk"   => onFid(m, unix) = tWalk(m)
            /\ t = "Topen"   => onFid(m, unix) = tOpen(m)
            /\ t = "Tcreate" => onFid(m, unix) = tCreate(m)
            /\ t = "Tread"   => onFid(m, unix) = tRead(m, unix)
            /\ t = "Twrite"  => onFid(m, unix) = tWrite(m)
            /\ t = "Tremove" => onFid(m, unix) = tRemove(m)
            /\ t = "Tstat"   => onFid(m, unix) = tStat(m)
            /\ t = "Twstat"  => onFid(m, unix) = tWstat(m)
        BY DEF onFid
      <3>4. fids[arg(m)[1]] \in 1..Len(fs) /\ Tree(fs)
        BY <2>3, ServedParts DEF Served
      <3>5. CASE t = "Twalk"
        <4>1. PICK err : WalkBinds(tWalk(m), m, err)
          BY <1>0, <2>3, <3>5, WalkBindsOne, Zenon
        <4>2. CASE tWalk(m) = errReply(err)
          BY <3>1, <3>3, <3>5, <4>2, ErrorKeepsFile, Zenon
        <4>3. CASE tWalk(m) # errReply(err)
          <5>1. PICK v, r : /\ tWalk(m) = Handled(fs, bound(arg(m)[2], v), r)
                            /\ arg(m)[3] = <<FileName>> => v = fs[fids[arg(m)[1]]].children[FileName]
            BY <4>1, <4>3, Zenon DEF WalkBinds
          <5>2. \/ arg(m)[2] # FileFid /\ arg(m)[2] # RootFid
                \/ arg(m)[2] = FileFid /\ v = FileNode
            <6>1. CASE early
              <7>1. fs = tree0 /\ arg(m)[1] = RootFid /\ fids[RootFid] = rootPath
                BY <1>1, <2>3, <3>5, <6>1 DEF Kindly, RootKept, StartMsg
              <7>2. \/ arg(m)[2] = FileFid /\ arg(m)[3] = <<FileName>>
                    \/ arg(m)[2] \in {DirFid, MakeFid}
                BY <1>1, <3>5, <6>1 DEF StartMsg
              <7>3. DirFid # FileFid /\ DirFid # RootFid /\ MakeFid # FileFid /\ MakeFid # RootFid
                BY DEF DirFid, FileFid, RootFid, MakeFid
              <7>4. tree0[rootPath].children[FileName] = FileNode
                BY FirstFile
              <7> QED BY <5>1, <7>1, <7>2, <7>3, <7>4
            <6>2. CASE ~early
              BY <1>2, <1>3, <3>5, <6>2 DEF newFid
            <6> QED BY <6>1, <6>2
          <5> QED BY <3>1, <3>3, <3>5, <5>1, <5>2, BoundKeepsFile, Zenon
        <4> QED BY <4>2, <4>3
      <3>6. CASE t = "Topen"
        <4> DEFINE r == Open(fs, fids[arg(m)[1]], FALSE)
        <4>1. onFid(m, unix) = orError(r, fids, Msg("Ropen", <<Qid(fs, fids[arg(m)[1]]), sc.iounit>>))
          BY <3>3, <3>6, Zenon DEF tOpen
        <4>2. (\E len : r = Failure(len)) \/ r = Result(fs, fids[arg(m)[1]])
          BY OpenOutcome, Zenon DEF Failed
        <4> HIDE DEF r
        <4>3. DirKept(r, fs) /\ (r.ok => r.fs = fs)
          BY <4>2, OutcomeParts DEF DirKept
        <4> QED BY <3>1, <4>1, <4>3, OrErrorKeepsFile, Zenon
      <3>7. CASE t = "Tread"
        <4> DEFINE r == Read(fs, fids[arg(m)[1]], arg(m)[2], arg(m)[3], unix)
        <4>1. onFid(m, unix) = IF r.ok THEN Handled(fs, fids, Msg("Rread", <<r.val>>)) ELSE errReply(r.err)
          BY <3>3, <3>7, Zenon DEF tRead
        <4> HIDE DEF r
        <4>2. (\E x : onFid(m, unix) = Handled(fs, fids, x)) \/ onFid(m, unix) = errReply(r.err)
          BY <4>1, Zenon
        <4> QED BY <3>1, <4>2, ErrorKeepsFile, Zenon
      <3>8. CASE t = "Tstat"
        BY <3>1, <3>3, <3>8, ErrorKeepsFile, Zenon DEF tStat
      <3>9. CASE t \in {"Tcreate", "Twrite", "Tremove", "Twstat"}
        <4>0. ~early
          BY <1>1, <3>9
        <4>1. CASE t = "Tcreate"
          BY <1>0, <2>3, <3>1, <3>3, <4>0, <4>1, CreateKeepsFile, Zenon
        <4>2. CASE t = "Twrite"
          <5> DEFINE w == ByteSeq(arg(m)[3])
                     r == Write(fs, fids[arg(m)[1]], arg(m)[2], w)
          <5>1. arg(m)[2] \in Nat
            BY <1>0, <4>2 DEF Ranged
          <5>2. /\ DirKept(r, fs)
                /\ tWrite(m) = IF r.ok THEN Handled(r.fs, fids, Msg("Rwrite", <<r.val>>)) ELSE errReply(r.err)
            BY <1>0, <2>3, <4>2, <5>1, WriteRuns, Zenon
          <5> HIDE DEF r
          <5>3. tWrite(m) = orError(r, fids, Msg("Rwrite", <<r.val>>))
            BY <5>2, Zenon DEF orError
          <5> QED BY <3>1, <3>3, <4>0, <4>2, <5>2, <5>3, OrErrorKeepsFile, Zenon
        <4>3. CASE t = "Tremove"
          <5> DEFINE r == RemoveNode(fs, fids[arg(m)[1]])
          <5>1. tRemove(m) = losing(orError(r, fids, Msg("Rremove", <<>>)), arg(m)[1])
            BY Zenon DEF tRemove, losing
          <5>2. DirKept(r, fs)
            BY <3>4, RemoveKeepsDir, Zenon
          <5> HIDE DEF r
          <5> QED BY <3>1, <3>3, <4>0, <4>3, <5>1, <5>2, OrErrorKeepsFile, Zenon
        <4>4. CASE t = "Twstat"
          <5> DEFINE r == WStat(fs, fids[arg(m)[1]], arg(m)[2])
          <5>1. tWstat(m) = orError(r, fids, Msg("Rwstat", <<>>))
            BY Zenon DEF tWstat
          <5>2. DirKept(r, fs)
            BY <3>4, WStatKeepsDir, Zenon
          <5> HIDE DEF r
          <5> QED BY <3>1, <3>3, <4>0, <4>4, <5>1, <5>2, OrErrorKeepsFile, Zenon
        <4> QED BY <3>9, <4>1, <4>2, <4>3, <4>4
      <3> QED BY <3>2, <3>5, <3>6, <3>7, <3>8, <3>9
    <2> QED BY <2>2, <2>3
  <1> QED BY <1>4, <1>5, <1>6, <1>7, <1>8

\* What arrives of a request fits where the request did.
LEMMA FitCarried ==
    ASSUME NEW m \in Messages, NEW unix \in BOOLEAN, NEW o, Fitting(m, o)
    PROVE  Fitting(Carried(m, unix), o)
  <1> DEFINE t == type(m)
             vals == arg(m)
             c == Carried(m, unix)
             f == newMessage(unix)[t]
  <1>1. t \in Types /\ vals \in Contents(t) /\ m = Msg(t, vals)
    BY MessageGives, Zenon
  <1>2. PICK C : Carried(Msg(t, vals), unix) = Msg(t, C) /\ Keeps(t, vals, C, unix)
    <2> HIDE DEF t, vals
    <2> QED BY <1>1, CarriedParts, Zenon
  <1>3. type(c) = t /\ arg(c) = C
    <2>1. C \in Contents(t)
      BY <1>2, Zenon DEF Keeps
    <2> HIDE DEF t, vals
    <2> QED BY <1>1, <1>2, <2>1, MessageIn, Zenon
  <1>4. \A i \in 1..Len(f) : Kept(f[i]) => C[i] = vals[i]
    BY <1>2, Zenon DEF Keeps
  <1>5. t = "Tattach" => C[1] = vals[1]
    <2>1. t = "Tattach" => f = <<"u32", "u32", "str", "str">>
      BY MessageTable
    <2>2. t = "Tattach" => 1 \in 1..Len(f) /\ Kept(f[1])
      <3> HIDE DEF t, f, vals
      <3> QED BY <2>1 DEF Kept
    <2> HIDE DEF t, f, vals
    <2> QED BY <1>4, <2>2, Zenon
  <1>6. t = "Twalk" => C[1] = vals[1] /\ C[2] = vals[2]
    <2>1. t = "Twalk" => f = <<"u32", "u32", "names">>
      BY MessageTable
    <2>2. t = "Twalk" => {1, 2} \subseteq 1..Len(f) /\ Kept(f[1]) /\ Kept(f[2])
      <3> HIDE DEF t, f, vals
      <3> QED BY <2>1 DEF Kept
    <2>3. t = "Twalk" => 1 \in 1..Len(f) /\ 2 \in 1..Len(f)
      BY <2>2, Zenon
    <2> HIDE DEF t, f, vals
    <2> QED BY <1>4, <2>2, <2>3, Zenon
  <1>7. ASSUME t = "Twalk", vals[3] = <<FileName>> PROVE C[3] = <<FileName>>
    <2> DEFINE all == newMessage(TRUE)["Twalk"]
               n == Len(newMessage(unix)["Twalk"])
               F(i) == fieldCarried(all[i], vals[i], unix)
               D == [i \in DOMAIN all |-> IF i <= n THEN F(i) ELSE 0]
    <2>1. c = Msg("Twalk", D)
      BY <1>7 DEF Carried
    <2>2. all = <<"u32", "u32", "names">> /\ n = 3
      <3>1. \A u \in BOOLEAN : newMessage(u)["Twalk"] = <<"u32", "u32", "names">>
        BY MessageTable
      <3>2. all = <<"u32", "u32", "names">> /\ newMessage(unix)["Twalk"] = <<"u32", "u32", "names">>
        BY <3>1
      <3>3. Len(<<"u32", "u32", "names">>) = 3
        OBVIOUS
      <3> QED BY <3>2, <3>3, Zenon
    <2>3. F(3) = fieldCarried("names", vals[3], unix)
      <3> HIDE DEF vals, all, n
      <3>1. all[3] = "names"
        BY <2>2
      <3> QED BY <3>1
    <2>4. fieldCarried("names", <<FileName>>, unix) = <<FileName>>
      BY DEF fieldCarried, truncated, FileName
    <2> HIDE DEF all, n, F
    <2>5. D = [i \in 1..3 |-> F(i)]
      <3>1. DOMAIN all = 1..3
        BY <2>2
      <3>2. \A i \in 1..3 : i <= n
        BY <2>2
      <3> QED BY <3>1, <3>2
    <2>6. D \in Seq({F(1), F(2), F(3)}) /\ D[3] = F(3)
      <3> HIDE DEF D
      <3>1. \A i \in 1..3 : F(i) \in {F(1), F(2), F(3)}
        <4>1. \A i \in 1..3 : i = 1 \/ i = 2 \/ i = 3
          OBVIOUS
        <4> QED BY <4>1, Zenon
      <3> DEFINE S == {F(1), F(2), F(3)}
      <3> HIDE DEF S
      <3>2. D \in Seq(S) /\ D[3] = F(3)
        <4>1. \A i \in 1..3 : F(i) \in S
          BY <3>1 DEF S
        <4> QED BY <2>5, <4>1
      <3> QED BY <3>2 DEF S
    <2> HIDE DEF D
    <2>7. arg(Msg("Twalk", D)) = D
      BY <2>6, MsgParts
    <2>8. arg(c) = D
      BY <2>1, <2>7
    <2> QED BY <1>3, <1>7, <2>3, <2>4, <2>6, <2>8
  <1> HIDE DEF t, vals, c
  <1>8. StartMsg(m) => StartMsg(c)
    BY <1>3, <1>5, <1>6, <1>7 DEF StartMsg, t, vals
  <1>9. newFid(m) => newFid(c)
    BY <1>3, <1>5, <1>6 DEF newFid, t, vals
  <1> QED BY <1>8, <1>9 DEF Fitting, c

-----------------------------------------------------------------------------
(***************************************************************************)
(* Every call that reads or writes is exact so far.                        *)
(***************************************************************************)

\* A call of g at j, with the file d and the messages q, w and s on their way.
Stage(j, d, max, q, w, s, g) ==
    /\ SoFar(j, d)
    /\ \A i \in DOMAIN q : q[i].tag = g => q[i].msg = ioRequest(j, max)
    /\ \A e \in w : e.tag = g => e.msg = ioRequest(j, max)
    /\ \A e \in s : e.tag = g => Answers(j, e.msg, d, max)

InIO(j) == Reading(j) \/ Writing(j)
file    == fs[FileNode].data

Exactly(g) == pc[g] = "wait" /\ InIO(job[g]) => Stage(job[g], file, maxIO, c2s, work, s2c, g)

\* The invariant that IOExact needs beside IInv.
EInv == FilesInv /\ (\A g \in Procs : Exactly(g)) /\ IOExact

LEMMA ExactIs == IOExact <=> Exact(res.job, res.err, res.file)
  BY Zenon DEF IOExact, Exact, Reading, Writing

\* Messages may move on, and be taken off.
Moved(u) ==
    /\ \A i \in DOMAIN c2s' : \E k \in DOMAIN c2s : c2s'[i] = c2s[k]
    /\ \A q \in work' : \/ q \in work
                        \/ \E k \in DOMAIN c2s : q.tag = c2s[k].tag /\ q.msg = Carried(c2s[k].msg, u)
    /\ s2c' \subseteq s2c

LEMMA MovedKeeps ==
    ASSUME IInv, EInv, cl.pc = "up", Moved(sv.unix), maxIO' = maxIO, fs' = fs, fids' = fids, pc' = pc,
           job' = job, opened' = opened, res' = res, sc' = sc
    PROVE  EInv'
  <1>0. SessionInv /\ Ends /\ sv.unix \in BOOLEAN
    BY EndsParts DEF IInv, SessionInv
  <1>1. \A k \in DOMAIN c2s : c2s[k].msg \in Messages
    <2> DEFINE M == Requests(maxIO)
               S == Envelope(M, sv.unix)
    <2>1. c2s \in Seq(S)
      BY <1>0, Zenon DEF SessionInv, OnWay
    <2> HIDE DEF M
    <2>2. \A x \in S : x.msg \in M
      BY DEF Envelope
    <2> HIDE DEF S
    <2>3. \A k \in DOMAIN c2s : c2s[k].msg \in M
      BY <2>1, <2>2
    <2> QED BY <2>3, Zenon DEF M, Requests
  <1>2. Requested'
    <2>1. /\ \A i \in DOMAIN c2s : Fitting(c2s[i].msg, opened)
          /\ \A q \in work : Fitting(q.msg, opened)
      BY DEF EInv, FilesInv, Requested
    <2>2. \A i \in DOMAIN c2s' : Fitting(c2s'[i].msg, opened)
      BY <2>1 DEF Moved
    <2>3. \A q \in work' : Fitting(q.msg, opened)
      BY <1>0, <1>1, <2>1, FitCarried, Zenon DEF Moved
    <2> QED BY <2>2, <2>3, Zenon DEF Requested
  <1>3. FilesInv'
    <2>1. tree0' = tree0
      BY DEF tree0
    <2> QED BY <1>2, <2>1, Zenon DEF EInv, FilesInv, FileKept, RootKept
  <1>4. ASSUME NEW g \in Procs PROVE Exactly(g)'
    <2> DEFINE j == job[g]
    <2>1. SUFFICES ASSUME pc[g] = "wait", InIO(j)
                   PROVE  Stage(j, file, maxIO, c2s', work', s2c', g)
      BY Zenon DEF Exactly, file
    <2>2. Stage(j, file, maxIO, c2s, work, s2c, g)
      BY <2>1, Zenon DEF EInv, Exactly
    <2>3. \A k \in DOMAIN c2s : c2s[k].tag = g => c2s[k].msg = ioRequest(j, maxIO)
      BY <2>2, Zenon DEF Stage
    <2>4. ASSUME ioRequest(j, maxIO) \in Messages
          PROVE  Carried(ioRequest(j, maxIO), sv.unix) = ioRequest(j, maxIO)
      <3>1. \E v : ioRequest(j, maxIO) = Msg("Tread", v) \/ ioRequest(j, maxIO) = Msg("Twrite", v)
        BY Zenon DEF ioRequest
      <3>2. \A t : \A v : Msg(t, v) \in Messages => type(Msg(t, v)) = t
        <4>1. SUFFICES ASSUME NEW t, NEW v, Msg(t, v) \in Messages PROVE type(Msg(t, v)) = t
          OBVIOUS
        <4> QED BY DEF Msg, type
      <3>3. type(ioRequest(j, maxIO)) \in IOTypes
        BY <2>4, <3>1, <3>2 DEF IOTypes
      <3> QED BY <1>0, <2>4, <3>3, CarriedMessage, Zenon
    <2>5. \A q \in work' : q.tag = g => q.msg = ioRequest(j, maxIO)
      BY <1>1, <2>2, <2>3, <2>4, Zenon DEF Moved, Stage
    <2>6. \A i \in DOMAIN c2s' : c2s'[i].tag = g => c2s'[i].msg = ioRequest(j, maxIO)
      BY <2>3, Zenon DEF Moved
    <2> QED BY <2>2, <2>5, <2>6, Zenon DEF Moved, Stage
  <1>5. IOExact'
    BY Zenon DEF EInv, IOExact
  <1> QED BY <1>3, <1>4, <1>5, Zenon DEF EInv

LEMMA ServeMoves ==
    ASSUME SessionInv, Serve, cl.pc = "up"
    PROVE  Moved(sv.unix)
  <1> DEFINE M == Requests(maxIO)
             S == Envelope(M, sv.unix)
             e == Head(c2s)
             r == Received(e, sv.msize, sv.unix)
  <1>2. c2s \in Seq(S) /\ c2s # <<>> /\ c2s' = Tail(c2s) /\ (Took1(e) \/ Closes)
    BY ServeUp
  <1> HIDE DEF M
  <1>3. 1 \in DOMAIN c2s /\ e = c2s[1] /\ e \in S
    <2> HIDE DEF S
    <2> QED BY <1>2
  <1>4. \A i \in DOMAIN c2s' : \E k \in DOMAIN c2s : c2s'[i] = c2s[k]
    <2> HIDE DEF S
    <2>1. \A i \in DOMAIN Tail(c2s) : i + 1 \in DOMAIN c2s /\ Tail(c2s)[i] = c2s[i + 1]
      BY <1>2
    <2> QED BY <1>2, <2>1
  <1>5. e.msg \in Messages /\ e.unix = sv.unix /\ sv.unix \in BOOLEAN
    <2>1. e.msg \in M /\ e.unix = sv.unix
      <3> HIDE DEF e
      <3> QED BY <1>3 DEF Envelope
    <2> QED BY <2>1, EndsParts DEF M, Requests, SessionInv
  <1>6. Took(e, r)
    <2> HIDE DEF e
    <2> QED BY <1>5, TookIt, Zenon
  <1>7. \/ /\ r.ok
           /\ IF type(r.msg) = "Tversion" THEN work' = work
              ELSE work' = work \cup {[tag |-> e.tag, msg |-> r.msg, unix |-> sv.unix]}
        \/ work' = work
    BY Zenon DEF Serve
  <1>8. s2c' = s2c
    BY <1>2, Zenon DEF Took1, Closes
  <1> HIDE DEF e, r, S
  <1>9. \/ work' = work
        \/ r.msg = Carried(e.msg, sv.unix) /\ work' = work \cup {[tag |-> e.tag, msg |-> r.msg, unix |-> sv.unix]}
    BY <1>5, <1>6, <1>7 DEF Took
  <1>10. \A q \in work' : q \in work \/ (q.tag = e.tag /\ q.msg = Carried(e.msg, sv.unix))
    BY <1>9
  <1> QED BY <1>3, <1>4, <1>8, <1>10 DEF Moved

LEMMA SessionExact ==
    ASSUME IInv, EInv, SessionStep
    PROVE  EInv'
  <1>0. SessionInv /\ CallsInv /\ Quiet /\ Ends
    BY DEF IInv, CallsInv, SessionInv
  <1>1. /\ fs' = fs /\ fids' = fids /\ pc' = pc /\ job' = job /\ opened' = opened /\ res' = res
        /\ NewClient \/ ReadVersion \/ ReadFails \/ Serve
    BY DEF SessionStep, ioVars
  <1>2. sc' = sc /\ (cl.pc = "up" => cl'.msize = cl.msize)
    <2>1. ReadFails => sc' = sc /\ cl'.msize = cl.msize
      <3>1. ReadFails => closeAll /\ sc' = sc
        BY DEF ReadFails
      <3> QED BY <1>0, <3>1 DEF closeAll, Ends, ClientStates
    <2>2. Serve => sc' = sc /\ cl' = cl
      BY DEF Serve
    <2>3. NewClient => sc' = sc /\ cl.pc = "new"
      BY DEF NewClient
    <2>4. ReadVersion => sc' = sc /\ cl.pc = "version"
      BY DEF ReadVersion
    <2> QED BY <1>1, <2>1, <2>2, <2>3, <2>4
  <1>3. CASE cl.pc = "up"
    <2>1. maxIO' = maxIO
      BY <1>2, <1>3, SameMax
    <2>2. Moved(sv.unix)
      <3>1. ~NewClient /\ ~ReadVersion
        BY <1>3 DEF NewClient, ReadVersion
      <3>2. CASE ReadFails
        <4>1. c2s' = c2s /\ work' = work /\ s2c' \subseteq s2c
          BY <1>0, <3>2, ReadFailsSession
        <4> QED BY <4>1, Zenon DEF Moved
      <3>3. CASE Serve
        BY <1>0, <1>3, <3>3, ServeMoves
      <3> QED BY <1>1, <3>1, <3>2, <3>3
    <2> QED BY <1>1, <1>2, <1>3, <2>1, <2>2, MovedKeeps
  <1>4. CASE cl.pc # "up"
    <2>1. Requested'
      <3>1. SUFFICES ASSUME cl'.pc = "up" PROVE c2s' = <<>> /\ work' = {}
        BY DEF Requested
      <3>2. CASE NewClient
        <4>1. cl'.pc = "version"
          BY <1>0, <3>2, NewClientSession
        <4> QED BY <3>1, <4>1
      <3>3. CASE ReadVersion
        <4>1. SessionInv' /\ work' = {} /\ (c2s' = <<>> \/ c2s' = <<Question'>>)
          BY <1>0, <3>3, ReadVersionSession, Zenon
        <4>2. c2s' # <<Question'>>
          <5> DEFINE M == Requests(maxIO)'
                     S == Envelope(M, sv'.unix)
          <5>1. c2s' \in Seq(S)
            BY <3>1, <4>1, Zenon DEF SessionInv, OnWay, Envelope
          <5>2. \A x \in S : x.tag \in Procs
            <6> HIDE DEF M
            <6> QED BY DEF Envelope
          <5> HIDE DEF S
          <5>3. c2s' = <<Question'>> => Question' \in S
            <6> DEFINE x == Question'
            <6> HIDE DEF x
            <6>1. c2s' = <<x>> => x \in S
              BY <5>1
            <6> QED BY <6>1 DEF x
          <5> QED BY <5>2, <5>3, QuestionTag, TagAssumption, Zenon
        <4> QED BY <4>1, <4>2
      <3>4. CASE ReadFails
        BY <1>0, <1>4, <3>1, <3>4, ReadFailsSession
      <3>5. CASE Serve
        BY <1>0, <1>4, <3>1, <3>5, ServeSession
      <3> QED BY <1>1, <3>2, <3>3, <3>4, <3>5
    <2>2. FilesInv'
      <3>1. tree0' = tree0
        BY <1>2 DEF tree0
      <3> QED BY <1>1, <2>1, <3>1, Zenon DEF EInv, FilesInv, FileKept, RootKept
    <2>3. \A g \in Procs : pc[g] = "idle"
      BY <1>0, <1>4 DEF Quiet
    <2>4. \A g \in Procs : Exactly(g)'
      <3>1. \A g \in Procs : pc'[g] # "wait"
        BY <1>1, <2>3
      <3> QED BY <3>1, Zenon DEF Exactly
    <2>5. IOExact'
      BY <1>1, Zenon DEF EInv, IOExact
    <2> QED BY <2>2, <2>4, <2>5, Zenon DEF EInv
  <1> QED BY <1>3, <1>4

-----------------------------------------------------------------------------
(***************************************************************************)
(* A handler runs.                                                         *)
(***************************************************************************)

LEMMA MsgOf ==
    /\ \A t, a : type(Msg(t, <<a>>)) = t /\ arg(Msg(t, <<a>>))[1] = a
    /\ \A t, a, b, c : /\ type(Msg(t, <<a, b, c>>)) = t /\ arg(Msg(t, <<a, b, c>>))[1] = a
                       /\ arg(Msg(t, <<a, b, c>>))[2] = b /\ arg(Msg(t, <<a, b, c>>))[3] = c
  <1>1. ASSUME NEW t, NEW a PROVE type(Msg(t, <<a>>)) = t /\ arg(Msg(t, <<a>>))[1] = a
    <2>1. <<a>> \in Seq({a}) /\ <<a>>[1] = a
      OBVIOUS
    <2> DEFINE v == <<a>>
               A == {a}
    <2> HIDE DEF v, A
    <2>2. type(Msg(t, v)) = t /\ arg(Msg(t, v)) = v
      BY <2>1, MsgParts DEF v, A
    <2> QED BY <2>1, <2>2 DEF v
  <1>2. ASSUME NEW t, NEW a, NEW b, NEW c
        PROVE  /\ type(Msg(t, <<a, b, c>>)) = t /\ arg(Msg(t, <<a, b, c>>))[1] = a
               /\ arg(Msg(t, <<a, b, c>>))[2] = b /\ arg(Msg(t, <<a, b, c>>))[3] = c
    <2> DEFINE v == <<a, b, c>>
               A == {a, b, c}
    <2>1. v \in Seq(A) /\ v[1] = a /\ v[2] = b /\ v[3] = c
      OBVIOUS
    <2> HIDE DEF v, A
    <2>2. type(Msg(t, v)) = t /\ arg(Msg(t, v)) = v
      BY <2>1, MsgParts
    <2> QED BY <2>1, <2>2 DEF v
  <1> QED BY <1>1, <1>2

\* The same call, at the same place.
SameAs(k, j) == k.call = j.call /\ k.at = j.at /\ k.total = j.total /\ k.got = j.got

LEMMA Later ==
    ASSUME NEW j, NEW k, SameAs(k, j), NEW d, NEW e, k.clean => j.clean /\ e = d, NEW max
    PROVE  /\ SoFar(j, d) => SoFar(k, e)
           /\ \A m : Answers(j, m, d, max) => Answers(k, m, e, max)
           /\ ioRequest(k, max) = ioRequest(j, max) /\ (InIO(k) <=> InIO(j))
  <1>0. k.call = j.call /\ k.at = j.at /\ k.total = j.total /\ k.got = j.got
    BY DEF SameAs
  <1>1. (Reading(k) <=> Reading(j)) /\ (Writing(k) <=> Writing(j)) /\ ioChunk(k, max) = ioChunk(j, max)
    BY <1>0, Zenon DEF Reading, Writing, ioChunk
  <1>2. SoFar(j, d) => SoFar(k, e)
    BY <1>0, <1>1, Zenon DEF SoFar
  <1>3. ASSUME NEW m, Answers(j, m, d, max) PROVE Answers(k, m, e, max)
    <2>1. ASSUME Reading(k), type(m) = "Rread"
          PROVE  LET b == arg(m)[1] IN
                 /\ \A i \in 1..Len(b) : b[i].w = 1
                 /\ Len(b) <= ioChunk(k, max)
                 /\ k.clean => /\ Len(b) = Has(e, k.at + k.total, ioChunk(k, max))
                               /\ Agree(ByteSeq(b), Len(b), e, k.at + k.total)
      BY <1>0, <1>1, <1>3, <2>1, Zenon DEF Answers
    <2>2. ASSUME Writing(k), type(m) = "Rwrite"
          PROVE  /\ arg(m)[1] = ioChunk(k, max)
                 /\ k.clean => Agree(k.call.data, k.total + ioChunk(k, max), e, k.at)
      BY <1>0, <1>1, <1>3, <2>2, Zenon DEF Answers
    <2> QED BY <2>1, <2>2, Zenon DEF Answers
  <1>4. ioRequest(k, max) = ioRequest(j, max)
    BY <1>0, <1>1 DEF ioRequest
  <1>5. InIO(k) <=> InIO(j)
    BY <1>1 DEF InIO
  <1> QED BY <1>2, <1>3, <1>4, <1>5

\* What a handler makes of a request that continues the call at j.
Serves(h, j, max) ==
    SoFar(j, h.fs[FileNode].data) /\ Answers(j, h.reply, h.fs[FileNode].data, max)

LEMMA ErrorServes ==
    ASSUME NEW j, SoFar(j, file), NEW max, NEW len
    PROVE  Serves(errReply(len), j, max)
  <1> DEFINE m == Msg("Rerror", <<len>>)
  <1>1. errReply(len).fs = fs /\ errReply(len).reply = m
    BY OutcomeParts DEF errReply
  <1>2. type(m) = "Rerror"
    BY MsgOf
  <1> HIDE DEF m
  <1>3. type(m) # "Rread" /\ type(m) # "Rwrite"
    BY <1>2
  <1>4. \A d : Answers(j, m, d, max)
    BY <1>3, Zenon DEF Answers
  <1> QED BY <1>1, <1>4 DEF Serves, file

LEMMA ReadServes ==
    ASSUME Served, FileKept(fs, fids), NEW max \in Nat, max >= 1, NEW j, GoodJob(j), Reading(j),
           SoFar(j, file), NEW unix
    PROVE  Serves(dispatch(ioRequest(j, max), unix), j, max)
  <1> DEFINE o == j.at + j.total
             c == ioChunk(j, max)
             m == ioRequest(j, max)
             d == file
             b == fileBytes(d, o, c)
  <1>1. j.at \in Nat /\ j.total \in Nat /\ o \in Nat /\ ~Writing(j)
    BY IOJob
  <1>2. c \in Nat
    <2>1. c \in 0..max
      BY IOChunk
    <2> QED BY <2>1
  <1>3. type(m) = "Tread" /\ arg(m)[1] = FileFid /\ arg(m)[2] = o /\ arg(m)[3] = c
    <2>1. m = Msg("Tread", <<FileFid, o, c>>)
      BY DEF ioRequest
    <2> HIDE DEF m, o, c
    <2> QED BY <2>1, MsgOf
  <1> HIDE DEF m
  <1>4. dispatch(m, unix) = IF FileFid \in DOMAIN fids THEN tRead(m, unix) ELSE errReply(11)
    BY <1>3 DEF dispatch, onFid, errUnknownFid
  <1>5. CASE FileFid \notin DOMAIN fids
    <2>1. dispatch(m, unix) = errReply(11)
      BY <1>4, <1>5
    <2> QED BY <2>1, ErrorServes DEF m
  <1>6. CASE FileFid \in DOMAIN fids
    <2>1. fids[FileFid] = FileNode /\ ~fs[FileNode].dir
      BY <1>6 DEF FileKept
    <2>2. d \in Seq(Int)
      BY NodeParts, FileIn DEF file, Served
    <2> DEFINE r == Read(fs, FileNode, o, c, unix)
    <2>3. r = Result(fs, b)
      BY <2>1 DEF Read, fileBytes, file
    <2>4. tRead(m, unix) = IF r.ok THEN Handled(fs, fids, Msg("Rread", <<r.val>>)) ELSE errReply(r.err)
      BY <1>3, <2>1 DEF tRead
    <2> HIDE DEF r, b
    <2>5. dispatch(m, unix) = Handled(fs, fids, Msg("Rread", <<b>>))
      BY <1>4, <1>6, <2>3, <2>4, OutcomeParts
    <2>6. /\ b \in Bytes /\ \A i \in 1..Len(b) : b[i].w = 1
          /\ Len(b) <= c /\ Len(b) = Has(d, o, c) /\ Agree(ByteSeq(b), Len(b), d, o)
      <3>1. b = fileBytes(d, o, c)
        BY DEF b
      <3> HIDE DEF d, o, c
      <3> QED BY <1>1, <1>2, <2>2, <3>1, FileBytes
    <2> DEFINE x == Msg("Rread", <<b>>)
    <2>7. arg(x)[1] = b
      BY MsgOf
    <2> HIDE DEF x
    <2>8. Answers(j, x, d, max)
      BY <1>1, <2>6, <2>7, Zenon DEF Answers
    <2>9. dispatch(m, unix).fs = fs /\ dispatch(m, unix).reply = x
      BY <2>5, OutcomeParts DEF x
    <2> QED BY <2>8, <2>9 DEF Serves, file, m
  <1> QED BY <1>5, <1>6

LEMMA WriteServes ==
    ASSUME Served, FileKept(fs, fids), NEW max \in Nat, max >= 1, NEW j, GoodJob(j), Writing(j),
           SoFar(j, file), NEW unix, ioRequest(j, max) \in Messages
    PROVE  Serves(dispatch(ioRequest(j, max), unix), j, max)
  <1> DEFINE o == j.at + j.total
             c == ioChunk(j, max)
             m == ioRequest(j, max)
             data == j.call.data
             t == j.total
             D(i) == Cell(1, data[t + i])
             d == file
  <1>1. /\ j.at \in Nat /\ t \in Nat /\ o \in Nat /\ ~Reading(j) /\ data \in Seq(Int)
        /\ j.call.n = Len(data) /\ t <= j.call.n
    BY IOJob
  <1>2. c \in Nat /\ t + c <= Len(data)
    <2>1. c \in 0..max /\ j.total + c <= j.call.n
      BY IOChunk
    <2> HIDE DEF c
    <2> QED BY <1>1, <2>1
  <1>3. type(m) = "Twrite" /\ arg(m)[1] = FileFid /\ arg(m)[2] = o /\ arg(m)[3] = [i \in 1..c |-> D(i)]
    <2>1. m = Msg("Twrite", <<FileFid, o, [i \in 1..c |-> D(i)]>>)
      BY <1>1 DEF ioRequest
    <2> DEFINE b == [i \in 1..c |-> D(i)]
    <2> HIDE DEF m, o, c, D, b
    <2>2. m = Msg("Twrite", <<FileFid, o, b>>)
      BY <2>1 DEF b
    <2>3. type(m) = "Twrite" /\ arg(m)[1] = FileFid /\ arg(m)[2] = o /\ arg(m)[3] = b
      BY <2>2, MsgOf
    <2> QED BY <2>3 DEF b
  <1> HIDE DEF m, c, o
  <1>4. dispatch(m, unix) = IF FileFid \in DOMAIN fids THEN tWrite(m) ELSE errReply(11)
    BY <1>3 DEF dispatch, onFid, errUnknownFid
  <1>5. CASE FileFid \notin DOMAIN fids
    <2>1. dispatch(m, unix) = errReply(11)
      BY <1>4, <1>5
    <2> QED BY <2>1, ErrorServes DEF m
  <1>6. CASE FileFid \in DOMAIN fids
    <2>1. fids[FileFid] = FileNode /\ ~fs[FileNode].dir
      BY <1>6 DEF FileKept
    <2>2. d \in Seq(Int) /\ FileNode \in 1..Len(fs) /\ Tree(fs)
      BY NodeParts, FileIn DEF file, Served
    <2> DEFINE w == ByteSeq(arg(m)[3])
               r == Write(fs, FileNode, o, w)
               e == r.fs[FileNode].data
    <2>3. /\ w \in Seq(Int) /\ Len(w) = Len(arg(m)[3])
          /\ tWrite(m) = IF r.ok THEN Handled(r.fs, fids, Msg("Rwrite", <<r.val>>)) ELSE errReply(r.err)
      <3>1. m \in Messages
        BY DEF m
      <3> HIDE DEF w
      <3>2. /\ w \in Seq(Int) /\ Len(w) = Len(arg(m)[3])
            /\ tWrite(m) = LET q == Write(fs, fids[arg(m)[1]], arg(m)[2], w) IN
                  IF q.ok THEN Handled(q.fs, fids, Msg("Rwrite", <<q.val>>)) ELSE errReply(q.err)
        BY <1>1, <1>3, <1>6, <3>1, WriteRuns, Zenon DEF w
      <3> QED BY <1>3, <2>1, <3>2, Zenon
    <2>4. Len(w) = c /\ \A i \in 1..c : w[i] = data[t + i]
      <3> DEFINE a == arg(m)[3]
      <3>1. a = [i \in 1..c |-> D(i)] /\ w = [i \in DOMAIN a |-> a[i].v]
        BY <1>3 DEF ByteSeq
      <3>2. \A i \in 1..c : D(i).v = data[t + i]
        BY DEF Cell
      <3> HIDE DEF a, D, w
      <3>3. Len(a) = c /\ DOMAIN a = 1..c
        BY <1>2, <3>1
      <3>4. \A i \in 1..c : w[i] = data[t + i]
        BY <3>1, <3>2, <3>3
      <3> QED BY <2>3, <3>3, <3>4 DEF a
    <2> HIDE DEF w
    <2>5. r.ok /\ r.val = Len(w) /\ e = fileWritten(d, o, w)
      <3>1. r.ok /\ r.val = Len(w) /\ r.fs[FileNode].data = fileWritten(fs[FileNode].data, o, w)
        <4>1. o \in Nat /\ w \in Seq(Int) /\ FileNode \in 1..Len(fs) /\ Tree(fs) /\ ~fs[FileNode].dir
          BY <1>1, <2>1, <2>2, <2>3
        <4> QED BY <4>1, WriteKeepsDir
      <3> QED BY <3>1 DEF file
    <2> DEFINE x == Msg("Rwrite", <<c>>)
    <2> HIDE DEF r
    <2>6. dispatch(m, unix) = Handled(r.fs, fids, x)
      BY <1>4, <1>6, <2>3, <2>4, <2>5
    <2>7. type(x) = "Rwrite" /\ arg(x)[1] = c
      BY MsgOf
    <2> HIDE DEF x, d
    <2>8. /\ t < j.call.n
          /\ j.clean => Agree(data, t, d, j.at)
      BY Zenon DEF SoFar, d
    <2>9. j.clean => Agree(data, t, e, j.at) /\ Agree(data, t + c, e, j.at)
      <3>1. e = fileWritten(d, j.at + t, w)
        BY <2>5 DEF o
      <3> HIDE DEF e, t, data
      <3> DEFINE a == j.at
      <3>2. a \in Nat
        BY <1>1
      <3> HIDE DEF a
      <3>3. ASSUME Agree(data, t, d, a) PROVE Agree(data, t, e, a) /\ Agree(data, t + c, e, a)
        <4>1. e = fileWritten(d, a + t, w)
          BY <3>1 DEF a
        <4>2. data \in Seq(Int) /\ t \in Nat /\ c \in Nat /\ d \in Seq(Int) /\ w \in Seq(Int)
          BY <1>1, <1>2, <2>2, <2>3
        <4> QED BY <2>4, <3>2, <3>3, <4>1, <4>2, WrittenOn, Zenon
      <3> QED BY <2>8, <3>3 DEF a
    <2>10. SoFar(j, e)
      <3> HIDE DEF e
      <3> QED BY <1>1, <2>8, <2>9, Zenon DEF SoFar
    <2>11. Answers(j, x, e, max)
      <3> HIDE DEF e
      <3> QED BY <1>1, <2>7, <2>9, Zenon DEF Answers, c
    <2>12. dispatch(m, unix).fs = r.fs /\ dispatch(m, unix).reply = x
      BY <2>6, OutcomeParts
    <2> QED BY <2>10, <2>11, <2>12 DEF Serves, m
  <1> QED BY <1>5, <1>6

LEMMA HandleExact ==
    ASSUME IInv, EInv, Handle
    PROVE  EInv'
  <1>0. SessionInv /\ CallsInv /\ OneMessage /\ Served /\ Ends /\ Jobs
    BY DEF IInv, SessionInv, CallsInv
  <1> DEFINE kids(t) == DOMAIN t[rootPath].children
             L(g, c, t) == /\ job[g].clean
                           /\ \/ g = c
                              \/ /\ t[FileNode].data = fs[FileNode].data
                                 /\ kids(t) = kids(fs)
  <1>1. PICK q \in work :
           LET h == dispatch(q.msg, q.unix)
           IN  /\ fs' = h.fs /\ fids' = h.fids
               /\ work' = work \ {q}
               /\ writeReply(q.tag, h.reply, sv.unix)
               /\ job' = [g \in Procs |->
                           [job[g] EXCEPT !.names = @ \cup kids(h.fs),
                                          !.clean = @ /\ \/ g = q.tag
                                                         \/ /\ h.fs[FileNode].data = fs[FileNode].data
                                                            /\ kids(h.fs) = kids(fs)]]
               /\ UNCHANGED <<sc, cl, sv, c2s, lost, offset, mu, pc, begun, opened, returned, res>>
    BY Zenon DEF Handle
  <1> DEFINE h == dispatch(q.msg, q.unix)
             S == Envelope(Requests(maxIO), sv.unix)
             x == Sent(q.tag, h.reply, sv.unix)
             e == h.fs[FileNode].data
  <1>2. /\ sc' = sc /\ cl' = cl /\ c2s' = c2s /\ pc' = pc /\ opened' = opened /\ res' = res
        /\ fs' = h.fs /\ fids' = h.fids /\ work' = work \ {q}
        /\ s2c' = IF sv.pc = "closed" THEN s2c ELSE s2c \cup {x}
    BY <1>1 DEF writeReply
  <1>3. cl.pc = "up"
    <2>1. work # {}
      OBVIOUS
    <2> QED BY <1>0, <2>1, EndsParts DEF SessionInv, Unversioned, Versioning, GivenUp, Silent
  <1>4. q.tag \in Procs /\ q.msg \in Requests(maxIO) /\ q.unix = sv.unix
    <2> DEFINE M == Requests(maxIO)
    <2>1. work \subseteq Envelope(M, sv.unix)
      BY <1>0, <1>3, Zenon DEF SessionInv, OnWay
    <2> HIDE DEF M
    <2>2. q.tag \in Procs /\ q.msg \in M /\ q.unix = sv.unix
      BY <2>1 DEF Envelope
    <2> QED BY <2>2 DEF M
  <1>5. sv.unix \in BOOLEAN /\ sc \in Scenarios /\ maxIO \in Nat /\ maxIO >= 1
    BY <1>0, EndsParts, MaxIO DEF Ends
  <1>6. KeepsFile(h)
    <2>1. opened \in 0..Len(Start)
      BY <1>0 DEF CallsInv, Counts
    <2>2. Kindly /\ Fitting(q.msg, opened)
      BY <1>3, Zenon DEF EInv, FilesInv, Kindly, Requested
    <2> QED BY <1>0, <1>4, <1>5, <2>1, <2>2, DispatchKeepsFile, Zenon
  <1>7. \A g \in Procs : \E names : job'[g] = [job[g] EXCEPT !.names = names, !.clean = L(g, q.tag, h.fs)]
    BY <1>1, Zenon
  <1>8. x.tag = q.tag /\ x.msg = h.reply
    BY DEF Sent
  <1>9. \A j : InIO(j) /\ GoodJob(j) /\ SoFar(j, file) /\ q.msg = ioRequest(j, maxIO) => Serves(h, j, maxIO)
    <2>1. SUFFICES ASSUME NEW j, InIO(j), GoodJob(j), SoFar(j, file), q.msg = ioRequest(j, maxIO)
                   PROVE  Serves(h, j, maxIO)
      OBVIOUS
    <2>2. FileKept(fs, fids)
      BY DEF EInv, FilesInv
    <2>3. q.msg \in Messages
      BY <1>4, Zenon DEF Requests
    <2>4. CASE Reading(j)
      BY <1>0, <1>5, <2>1, <2>2, <2>4, ReadServes, Zenon
    <2>5. CASE Writing(j)
      BY <1>0, <1>5, <2>1, <2>2, <2>3, <2>5, WriteServes, Zenon
    <2> QED BY <2>1, <2>4, <2>5 DEF InIO
  <1> HIDE DEF h, x
  <1>10. FilesInv'
    <2>1. Requested'
      <3>1. \A p \in work' : p \in work
        BY <1>2
      <3> QED BY <1>2, <3>1, Zenon DEF EInv, FilesInv, Requested
    <2>2. tree0' = tree0
      BY <1>2 DEF tree0
    <2> QED BY <1>2, <1>6, <2>1, <2>2, Zenon DEF FilesInv, KeepsFile, FileKept, RootKept
  <1>11. maxIO' = maxIO
    BY <1>2, SameMax
  <1>12. file' = e
    BY <1>2 DEF file
  <1> HIDE DEF e
  <1>13. ASSUME NEW g \in Procs PROVE Exactly(g)'
    <2> DEFINE j == job[g]
               k == job'[g]
    <2>1. PICK names : k = [j EXCEPT !.names = names, !.clean = L(g, q.tag, h.fs)]
      BY <1>7
    <2>2. GoodJob(j) /\ j = Job(j.call, j.at, j.total, j.got, j.clean, j.names)
      BY <1>0 DEF Jobs, GoodJob
    <2> DEFINE l == L(g, q.tag, h.fs)
    <2>3. l => j.clean /\ (g = q.tag \/ e = file)
      BY Zenon DEF e, file
    <2> HIDE DEF l, j, k
    <2>4. SameAs(k, j) /\ k.clean = l
      <3>1. k = [j EXCEPT !.names = names, !.clean = l]
        BY <2>1 DEF l
      <3>2. k = Job(j.call, j.at, j.total, j.got, l, names)
        BY <2>2, <3>1 DEF Job
      <3> QED BY <3>2, JobParts DEF SameAs
    <2>5. SUFFICES ASSUME pc[g] = "wait", InIO(k) PROVE Stage(k, e, maxIO, c2s, work', s2c', g)
      BY <1>2, <1>11, <1>12, Zenon DEF Exactly, k
    <2>6. InIO(j)
      BY <2>4, <2>5, Zenon DEF InIO, Reading, Writing, SameAs
    <2>7. Stage(j, file, maxIO, c2s, work, s2c, g)
      BY <2>5, <2>6, Zenon DEF EInv, Exactly, j
    <2>8. ASSUME NEW d, k.clean => j.clean /\ e = d, SoFar(j, d),
                 \A y \in s2c' : y.tag = g => Answers(j, y.msg, d, maxIO)
          PROVE  Stage(k, e, maxIO, c2s, work', s2c', g)
      <3>1. /\ SoFar(k, e)
            /\ \A m : Answers(j, m, d, maxIO) => Answers(k, m, e, maxIO)
            /\ ioRequest(k, maxIO) = ioRequest(j, maxIO)
        <4> DEFINE max == maxIO
        <4>1. SameAs(k, j) /\ (k.clean => j.clean /\ e = d)
          BY <2>4, <2>8
        <4> HIDE DEF max
        <4>2. /\ SoFar(j, d) => SoFar(k, e)
              /\ \A m : Answers(j, m, d, max) => Answers(k, m, e, max)
              /\ ioRequest(k, max) = ioRequest(j, max)
          BY <4>1, Later
        <4> QED BY <2>8, <4>2 DEF max
      <3>2. \A y \in work' : y \in work
        BY <1>2
      <3> QED BY <2>7, <2>8, <3>1, <3>2, Zenon DEF Stage
    <2>9. CASE g # q.tag
      <3>1. \A y \in s2c' : y.tag = g => y \in s2c
        BY <1>2, <1>8, <2>9
      <3> QED BY <2>3, <2>4, <2>7, <2>8, <2>9, <3>1, Zenon DEF Stage
    <2>10. CASE g = q.tag
      <3>1. q.msg = ioRequest(j, maxIO) /\ SoFar(j, file)
        BY <2>7, <2>10, Zenon DEF Stage
      <3>2. Serves(h, j, maxIO)
        BY <1>9, <2>2, <2>6, <3>1, Zenon
      <3>3. Absent(s2c, g)
        BY <1>0, <2>10, Zenon DEF OneMessage, Lone, Absent
      <3>4. \A y \in s2c' : y.tag = g => y = x
        BY <1>2, <3>3, Zenon DEF Absent
      <3>5. SoFar(j, e) /\ Answers(j, x.msg, e, maxIO)
        BY <1>8, <3>2, Zenon DEF Serves, e
      <3> QED BY <2>3, <2>4, <2>8, <3>4, <3>5, Zenon
    <2> QED BY <2>9, <2>10
  <1>14. IOExact'
    BY <1>2, Zenon DEF EInv, IOExact
  <1> QED BY <1>10, <1>13, <1>14, Zenon DEF EInv

-----------------------------------------------------------------------------
(***************************************************************************)
(* A call ends exact, or goes on from where it is.                         *)
(***************************************************************************)

EndsExact(g) ==
    /\ pc' = [pc EXCEPT ![g] = "idle"] /\ job' = [job EXCEPT ![g] = NoJob]
    /\ Exact(res'.job, res'.err, res'.file)

AsksExact(g) ==
    \E k : /\ GoodJob(k) /\ rpc(g, k) /\ res' = res
           /\ InIO(k) => SoFar(k, file)
           /\ Fitting(request(k), opened)

LEMMA ExactNext == IOExact' <=> Exact(res'.job, res'.err, res'.file)
  BY Zenon DEF IOExact, Exact, Reading, Writing

LEMMA EndExact ==
    ASSUME NEW g, NEW k, NEW err, end(g, k, err), Exact(k, err, file)
    PROVE  EndsExact(g)
  <1>1. /\ pc' = [pc EXCEPT ![g] = "idle"] /\ job' = [job EXCEPT ![g] = NoJob]
        /\ res' = [job |-> k, err |-> err, file |-> file, dir |-> listing(fs, rootPath), up |-> cl.reading]
    BY Zenon DEF end, file
  <1>2. res'.job = k /\ res'.err = err /\ res'.file = file
    BY <1>1
  <1> QED BY <1>1, <1>2, Zenon DEF EndsExact

LEMMA EndsEnd ==
    ASSUME NEW g, NEW k, NEW err,
           advance(g, k, err) \/ finish(g, k, err) \/ leaveWrite(g, k, err)
    PROVE  end(g, k, err)
  BY Zenon DEF advance, finish, leaveWrite

LEMMA OutsideExact ==
    ASSUME NEW k, k.call.op \notin {"Read", "ReadAt", "Write", "WriteAt"}
    PROVE  ~InIO(k) /\ \A err, d : Exact(k, err, d)
  <1>1. ~Reading(k) /\ ~Writing(k)
    BY DEF Reading, Writing
  <1> QED BY <1>1, Zenon DEF InIO, Exact

\* What a call asks for is what its stage says it has asked for.
LEMMA RequestIs ==
    ASSUME NEW k, GoodJob(k)
    PROVE  /\ InIO(k) => request(k) = ioRequest(k, maxIO) /\ chunk(k) = ioChunk(k, maxIO)
           /\ k.call.op # "rpc" => newFid(request(k))
           /\ k.call.op = "rpc" => request(k) = k.call.msg
  <1> DEFINE op == k.call.op
  <1>1. op \in {"Read", "ReadAt", "Write", "WriteAt", "Seek", "ReadDir", "rpc"}
    BY DEF GoodJob, Midway
  <1>2. chunk(k) = ioChunk(k, maxIO)
    BY Zenon DEF chunk, ioChunk
  <1>3. ASSUME Reading(k)
        PROVE  /\ request(k) = Msg("Tread", <<FileFid, k.at + k.total, chunk(k)>>)
               /\ request(k) = ioRequest(k, maxIO)
    <2>1. op \in {"Read", "ReadAt"}
      BY <1>3 DEF Reading
    <2>2. request(k) = Msg("Tread", <<FileFid, k.at + k.total, chunk(k)>>)
      BY <2>1 DEF request
    <2> QED BY <1>2, <1>3, <2>2 DEF ioRequest
  <1>4. ASSUME Writing(k)
        PROVE  /\ request(k) = Msg("Twrite", <<FileFid, k.at + k.total,
                                  [i \in 1..chunk(k) |-> Cell(1, k.call.data[k.total + i])]>>)
               /\ request(k) = ioRequest(k, maxIO)
    <2>1. op \in {"Write", "WriteAt"} /\ ~Reading(k)
      BY <1>4 DEF Writing, Reading
    <2>2. request(k) = Msg("Twrite", <<FileFid, k.at + k.total,
                                  [i \in 1..chunk(k) |-> Cell(1, k.call.data[k.total + i])]>>)
      BY <2>1 DEF request
    <2> QED BY <1>2, <2>1, <2>2 DEF ioRequest
  <1>6. op # "rpc" => type(request(k)) \in {"Tread", "Twrite", "Tstat"}
    <2>1. CASE op \in {"Read", "ReadAt"}
      <3>1. Reading(k)
        BY <2>1 DEF Reading
      <3> QED BY <1>3, <3>1, MsgOf
    <2>2. CASE op \in {"Write", "WriteAt"}
      <3>1. Writing(k)
        BY <2>2 DEF Writing
      <3> DEFINE b == [i \in 1..chunk(k) |-> Cell(1, k.call.data[k.total + i])]
      <3>2. request(k) = Msg("Twrite", <<FileFid, k.at + k.total, b>>)
        BY <1>4, <3>1
      <3> HIDE DEF b
      <3>3. type(request(k)) = "Twrite"
        BY <3>2, MsgOf
      <3> QED BY <3>3
    <2>3. CASE op = "Seek"
      <3>1. request(k) = Msg("Tstat", <<FileFid>>)
        BY <2>3 DEF request
      <3> QED BY <3>1, MsgOf
    <2>4. CASE op = "ReadDir"
      <3>1. request(k) = Msg("Tread", <<DirFid, k.total, maxIO>>)
        BY <2>4 DEF request
      <3> QED BY <3>1, MsgOf
    <2> QED BY <1>1, <2>1, <2>2, <2>3, <2>4
  <1>7. op # "rpc" => newFid(request(k))
    BY <1>6 DEF newFid
  <1>8. op = "rpc" => request(k) = k.call.msg
    BY DEF request
  <1> QED BY <1>2, <1>3, <1>4, <1>7, <1>8 DEF InIO

\* The call goes on after the program's start.
LEMMA AskExact ==
    ASSUME opened = Len(Start), NEW g, NEW k, GoodJob(k), rpc(g, k), res' = res,
           InIO(k) => SoFar(k, file), k.call.op # "rpc"
    PROVE  AsksExact(g)
  <1>1. Fitting(request(k), opened)
    <2>1. newFid(request(k))
      BY RequestIs
    <2>2. ~(opened < Len(Start))
      BY DEF Start
    <2> QED BY <2>1, <2>2, Zenon DEF Fitting
  <1> QED BY <1>1, Zenon DEF AsksExact

LEMMA EndsExactKeeps ==
    ASSUME IInv, EInv, NEW g \in Procs, EndsExact(g), c2s' = c2s, Leaves, opened' = opened
    PROVE  EInv'
  <1>0. Jobs
    BY DEF IInv, CallsInv
  <1>1. /\ sc' = sc /\ cl' = cl /\ work' = work /\ s2c' \subseteq s2c /\ fs' = fs /\ fids' = fids
        /\ maxIO' = maxIO /\ tree0' = tree0 /\ file' = file
    <2>1. sc' = sc /\ cl' = cl /\ work' = work /\ s2c' \subseteq s2c /\ fs' = fs /\ fids' = fids
      BY Zenon DEF Leaves
    <2> QED BY <2>1, SameMax DEF tree0, file
  <1>2. FilesInv'
    BY <1>1, Zenon DEF EInv, FilesInv, Requested, FileKept, RootKept
  <1>3. ASSUME NEW h \in Procs PROVE Exactly(h)'
    <2>1. /\ pc'[g] = "idle" /\ (h # g => pc'[h] = pc[h] /\ job'[h] = job[h])
      BY <1>0, JobsKept, NoJobGood, Zenon DEF EndsExact
    <2>2. "idle" # "wait"
      OBVIOUS
    <2>3. Exactly(h)
      BY Zenon DEF EInv
    <2> QED BY <1>1, <2>1, <2>2, <2>3, Zenon DEF Exactly, Stage
  <1>4. IOExact'
    BY ExactNext, Zenon DEF EndsExact
  <1> QED BY <1>2, <1>3, <1>4, Zenon DEF EInv

LEMMA AsksExactKeeps ==
    ASSUME IInv, EInv, NEW g \in Procs, AsksExact(g), Leaves, opened' = opened, cl.pc = "up",
           AbsentQ(c2s, g), Absent(work, g), Absent(s2c', g)
    PROVE  EInv'
  <1>0. Jobs /\ SessionInv
    BY DEF IInv, CallsInv
  <1>1. /\ sc' = sc /\ cl' = cl /\ work' = work /\ s2c' \subseteq s2c /\ fs' = fs /\ fids' = fids
        /\ maxIO' = maxIO /\ tree0' = tree0 /\ file' = file
    <2>1. sc' = sc /\ cl' = cl /\ work' = work /\ s2c' \subseteq s2c /\ fs' = fs /\ fids' = fids
      BY Zenon DEF Leaves
    <2> QED BY <2>1, SameMax DEF tree0, file
  <1>2. PICK k : /\ GoodJob(k) /\ rpc(g, k) /\ res' = res
                 /\ InIO(k) => SoFar(k, file)
                 /\ Fitting(request(k), opened)
    BY Zenon DEF AsksExact
  <1> DEFINE x == Sent(g, request(k), cl.unix)
             S == Envelope(Requests(maxIO), sv.unix)
  <1>3. c2s \in Seq(S) /\ c2s' = Append(c2s, x) /\ x.tag = g /\ x.msg = request(k)
    <2>1. c2s \in Seq(S)
      BY <1>0, Zenon DEF SessionInv, OnWay
    <2>2. c2s' = Append(c2s, x)
      BY <1>2, Zenon DEF rpc, write
    <2>3. x.tag = g /\ x.msg = request(k)
      BY DEF Sent
    <2> QED BY <2>1, <2>2, <2>3
  <1> HIDE DEF x, S
  <1>4. \A i \in DOMAIN c2s' : (i \in DOMAIN c2s /\ c2s'[i] = c2s[i]) \/ c2s'[i] = x
    <2>1. \A i \in DOMAIN Append(c2s, x) :
             (i \in DOMAIN c2s /\ Append(c2s, x)[i] = c2s[i]) \/ Append(c2s, x)[i] = x
      BY <1>3
    <2> QED BY <1>3, <2>1
  <1>5. FilesInv'
    <2>1. Requested'
      <3>1. /\ \A i \in DOMAIN c2s : Fitting(c2s[i].msg, opened)
            /\ \A q \in work : Fitting(q.msg, opened)
        BY DEF EInv, FilesInv, Requested
      <3>2. \A i \in DOMAIN c2s' : Fitting(c2s'[i].msg, opened)
        BY <1>2, <1>3, <1>4, <3>1
      <3> QED BY <1>1, <3>1, <3>2, Zenon DEF Requested
    <2> QED BY <1>1, <2>1, Zenon DEF EInv, FilesInv, FileKept, RootKept
  <1>6. /\ pc'[g] = "wait" /\ job'[g] = k
        /\ \A h \in Procs : h # g => pc'[h] = pc[h] /\ job'[h] = job[h]
    <2>1. "wait" \in {"idle", "wait"} /\ pc' = [pc EXCEPT ![g] = "wait"] /\ job' = [job EXCEPT ![g] = k]
      BY <1>2, Zenon DEF rpc
    <2> QED BY <1>0, <1>2, <2>1, JobsKept, Zenon
  <1>7. Exactly(g)'
    <2>1. SUFFICES ASSUME InIO(k) PROVE Stage(k, file, maxIO, c2s', work, s2c', g)
      BY <1>1, <1>6, Zenon DEF Exactly
    <2>2. SoFar(k, file) /\ request(k) = ioRequest(k, maxIO)
      BY <1>2, <2>1, RequestIs, Zenon
    <2>3. \A i \in DOMAIN c2s' : c2s'[i].tag = g => c2s'[i].msg = ioRequest(k, maxIO)
      BY <1>3, <1>4, <2>2 DEF AbsentQ
    <2> QED BY <2>2, <2>3, Zenon DEF Stage, Absent
  <1>8. ASSUME NEW h \in Procs, h # g PROVE Exactly(h)'
    <2> DEFINE j == job[h]
    <2>1. SUFFICES ASSUME pc[h] = "wait", InIO(j) PROVE Stage(j, file, maxIO, c2s', work, s2c', h)
      BY <1>1, <1>6, <1>8, Zenon DEF Exactly
    <2>2. Stage(j, file, maxIO, c2s, work, s2c, h)
      BY <2>1, Zenon DEF EInv, Exactly
    <2>3. \A i \in DOMAIN c2s' : c2s'[i].tag = h => c2s'[i].msg = ioRequest(j, maxIO)
      <3>1. \A i \in DOMAIN c2s : c2s[i].tag = h => c2s[i].msg = ioRequest(j, maxIO)
        BY <2>2, Zenon DEF Stage
      <3> QED BY <1>3, <1>4, <1>8, <3>1
    <2> QED BY <1>1, <2>2, <2>3, Zenon DEF Stage
  <1>9. IOExact'
    BY <1>2, Zenon DEF EInv, IOExact
  <1> QED BY <1>5, <1>7, <1>8, <1>9, Zenon DEF EInv

\* A reply to a call at j, once the program has started.
Replied(j, m) ==
    /\ Ends /\ opened = Len(Start) /\ file \in Seq(Int) /\ GoodJob(j) /\ m \in Replies(maxIO)
    /\ InIO(j) => SoFar(j, file) /\ Answers(j, m, file, maxIO)

LEMMA StopExact ==
    ASSUME NEW g, NEW j, NEW m, Replied(j, m), end(g, j, "error")
    PROVE  EndsExact(g)
  <1>1. Exact(j, "error", file)
    BY StopsExact, Zenon DEF Replied, InIO
  <1> QED BY <1>1, EndExact, Zenon

LEMMA ReadReplyExact ==
    ASSUME NEW g, NEW j, NEW m, Replied(j, m), j.call.op = "Read", readReply(g, j, m)
    PROVE  EndsExact(g)
  <1>0. /\ Ends /\ file \in Seq(Int) /\ GoodJob(j) /\ m \in Replies(maxIO) /\ InIO(j)
        /\ Answers(j, m, file, maxIO)
    BY DEF Replied, InIO, Reading
  <1>1. CASE type(m) = "Rread"
    <2> DEFINE n == least(chunk(j), Size(arg(m)[1]))
               o == cut(arg(m)[1], n)[1]
               k == [j EXCEPT !.total = n, !.got = o]
               err == IF n = 0 THEN "EOF" ELSE "nil"
    <2>1. advance(g, k, err)
      BY <1>1, Zenon DEF readReply
    <2>2. arg(m)[1] \in Bytes
      BY <1>0, <1>1, ReplyArgs
    <2>3. chunk(j) = ioChunk(j, maxIO)
      BY <1>0, RequestIs
    <2>4. n = least(ioChunk(j, maxIO), Size(arg(m)[1])) /\ o = cut(arg(m)[1], n)[1]
      BY <2>3
    <2>5. k = [j EXCEPT !.total = n, !.got = o]
      OBVIOUS
    <2> HIDE DEF n, o, k
    <2>6. k = Job(j.call, j.at, n, o, j.clean, j.names)
      <3>1. j = Job(j.call, j.at, j.total, j.got, j.clean, j.names)
        BY <1>0 DEF GoodJob
      <3> QED BY <2>5, <3>1 DEF Job
    <2>7. Exact(k, err, file)
      <3> DEFINE d == file
                 max == maxIO
      <3>1. max \in Nat /\ max >= 1
        BY <1>0, MaxIO
      <3>2. /\ d \in Seq(Int) /\ Answers(j, m, d, max) /\ n = least(ioChunk(j, max), Size(arg(m)[1]))
            /\ k = Job(j.call, j.at, n, cut(arg(m)[1], n)[1], j.clean, j.names)
        BY <1>0, <2>4, <2>6
      <3> HIDE DEF d, max
      <3>3. Exact(k, err, d)
        BY <1>0, <1>1, <2>2, <3>1, <3>2, ReadExact
      <3> QED BY <3>3 DEF d
    <2> HIDE DEF err
    <2> QED BY <2>1, <2>7, EndsEnd, EndExact, Zenon
  <1>2. CASE type(m) # "Rread"
    <2>1. finish(g, j, "error")
      BY <1>2, Zenon DEF readReply
    <2> QED BY <2>1, EndsEnd, StopExact, Zenon
  <1> QED BY <1>1, <1>2

LEMMA ReadAtReplyExact ==
    ASSUME NEW g, NEW j, NEW m, Replied(j, m), j.call.op = "ReadAt", readAtReply(g, j, m)
    PROVE  (EndsExact(g) /\ c2s' = c2s) \/ AsksExact(g)
  <1>0. /\ Ends /\ file \in Seq(Int) /\ GoodJob(j) /\ m \in Replies(maxIO) /\ InIO(j)
        /\ Answers(j, m, file, maxIO) /\ SoFar(j, file) /\ opened = Len(Start)
    BY DEF Replied, InIO, Reading
  <1>1. CASE type(m) = "Rread"
    <2> DEFINE n == least(chunk(j), Size(arg(m)[1]))
               o == j.got \o cut(arg(m)[1], n)[1]
               k == [j EXCEPT !.total = @ + n, !.got = @ \o cut(arg(m)[1], n)[1]]
    <2>1. \/ n < chunk(j) /\ finish(g, k, "EOF") /\ c2s' = c2s
          \/ ~(n < chunk(j)) /\ k.total >= k.call.n /\ finish(g, k, "nil") /\ c2s' = c2s
          \/ ~(k.total >= k.call.n) /\ rpc(g, k) /\ UNCHANGED <<offset, returned, mu, res>>
      BY <1>1, Zenon DEF readAtReply
    <2>2. arg(m)[1] \in Bytes /\ Size(arg(m)[1]) \in Nat
      BY <1>0, <1>1, ReplyArgs
    <2>3. chunk(j) = ioChunk(j, maxIO)
      BY <1>0, RequestIs
    <2>4. n = least(ioChunk(j, maxIO), Size(arg(m)[1])) /\ o = j.got \o cut(arg(m)[1], n)[1]
      BY <2>3
    <2>5. k = [j EXCEPT !.total = j.total + n, !.got = o]
      OBVIOUS
    <2>6. j.total + n \in 0..j.call.n /\ j.call.n \in Nat /\ j.at \in Nat
      <3> DEFINE s == Size(arg(m)[1])
      <3>1. s \in Nat
        BY <2>2
      <3>2. n = least(chunk(j), s)
        OBVIOUS
      <3> HIDE DEF s, n
      <3> QED BY <1>0, <3>1, <3>2, ReadOn
    <2> HIDE DEF n, o, k
    <2>7. k = Job(j.call, j.at, j.total + n, o, j.clean, j.names)
      <3>1. j = Job(j.call, j.at, j.total, j.got, j.clean, j.names)
        BY <1>0 DEF GoodJob
      <3> QED BY <2>5, <3>1 DEF Job
    <2>8. GoodJob(k) /\ k.call.op = "ReadAt"
      <3>1. /\ k.call = j.call /\ k.at = j.at /\ k.total = j.total + n
            /\ k = Job(k.call, k.at, k.total, k.got, k.clean, k.names)
        <4> DEFINE t == j.total + n
        <4>1. k = Job(j.call, j.at, t, o, j.clean, j.names)
          BY <2>7
        <4> HIDE DEF t
        <4>2. /\ k.call = j.call /\ k.at = j.at /\ k.total = t
              /\ k = Job(k.call, k.at, k.total, k.got, k.clean, k.names)
          BY <1>0, <4>1, JobMoved
        <4> QED BY <4>2 DEF t
      <3> QED BY <2>6, <3>1, Zenon DEF GoodJob, Midway
    <2>9. /\ n < chunk(j) => Exact(k, "EOF", file)
          /\ ~(n < chunk(j)) /\ k.total >= k.call.n => Exact(k, "nil", file)
          /\ ~(k.total >= k.call.n) => SoFar(k, file)
      <3> DEFINE d == file
                 max == maxIO
      <3>1. max \in Nat /\ max >= 1
        BY <1>0, MaxIO
      <3>2. /\ d \in Seq(Int) /\ Answers(j, m, d, max) /\ SoFar(j, d)
            /\ n = least(ioChunk(j, max), Size(arg(m)[1])) /\ chunk(j) = ioChunk(j, max)
            /\ k = Job(j.call, j.at, j.total + n, j.got \o cut(arg(m)[1], n)[1], j.clean, j.names)
        BY <1>0, <2>3, <2>4, <2>7
      <3> HIDE DEF d, max
      <3>3. /\ n < ioChunk(j, max) => Exact(k, "EOF", d)
            /\ ~(n < ioChunk(j, max)) /\ k.total >= k.call.n => Exact(k, "nil", d)
            /\ ~(k.total >= k.call.n) => SoFar(k, d)
        BY <1>0, <1>1, <2>2, <3>1, <3>2, ReadAtExact
      <3> QED BY <3>2, <3>3 DEF d
    <2>10. "ReadAt" # "rpc"
      OBVIOUS
    <2>11. \A err : finish(g, k, err) /\ Exact(k, err, file) => EndsExact(g)
      BY EndsEnd, EndExact, Zenon
    <2>12. rpc(g, k) /\ res' = res /\ SoFar(k, file) => AsksExact(g)
      BY <1>0, <2>8, <2>10, AskExact, Zenon
    <2> QED BY <2>1, <2>9, <2>11, <2>12, Zenon
  <1>2. CASE type(m) # "Rread"
    <2>1. finish(g, j, "error") /\ c2s' = c2s
      BY <1>2, Zenon DEF readAtReply
    <2> QED BY <2>1, EndsEnd, StopExact, Zenon
  <1> QED BY <1>1, <1>2

LEMMA WriteAtReplyExact ==
    ASSUME NEW g, NEW j, NEW m, Replied(j, m), j.call.op \in {"Write", "WriteAt"}, writeAtReply(g, j, m)
    PROVE  (EndsExact(g) /\ c2s' = c2s) \/ AsksExact(g)
  <1>0. /\ Ends /\ file \in Seq(Int) /\ GoodJob(j) /\ m \in Replies(maxIO) /\ InIO(j) /\ Writing(j)
        /\ Answers(j, m, file, maxIO) /\ SoFar(j, file) /\ opened = Len(Start)
    BY DEF Replied, InIO, Writing
  <1>1. CASE type(m) = "Rwrite"
    <2> DEFINE n == arg(m)[1]
               k == [j EXCEPT !.total = @ + n]
    <2>1. \/ leaveWrite(g, j, "error") /\ c2s' = c2s
          \/ k.total >= k.call.n /\ leaveWrite(g, k, "nil") /\ c2s' = c2s
          \/ ~(k.total >= k.call.n) /\ rpc(g, k) /\ UNCHANGED <<offset, returned, mu, res>>
      BY <1>1, Zenon DEF writeAtReply
    <2>2. n \in Nat
      BY <1>0, <1>1, ReplyArgs
    <2>3. k = [j EXCEPT !.total = j.total + n]
      OBVIOUS
    <2> HIDE DEF k
    <2>4. k = Job(j.call, j.at, j.total + n, j.got, j.clean, j.names)
      <3>1. j = Job(j.call, j.at, j.total, j.got, j.clean, j.names)
        BY <1>0 DEF GoodJob
      <3> HIDE DEF n
      <3> QED BY <2>3, <3>1 DEF Job
    <2>5. /\ k.total >= k.call.n => Exact(k, "nil", file)
          /\ ~(k.total >= k.call.n) => SoFar(k, file)
      <3> DEFINE d == file
                 max == maxIO
      <3>1. max \in Nat /\ max >= 1
        BY <1>0, MaxIO
      <3>2. d \in Seq(Int) /\ Answers(j, m, d, max)
        BY <1>0
      <3>3. k = Job(j.call, j.at, j.total + arg(m)[1], j.got, j.clean, j.names)
        BY <2>4
      <3> HIDE DEF d, max
      <3>4. /\ k.total >= k.call.n => Exact(k, "nil", d)
            /\ ~(k.total >= k.call.n) => SoFar(k, d)
        BY <1>0, <1>1, <3>1, <3>2, <3>3, WriteAtExact
      <3> QED BY <3>4 DEF d
    <2>6. k.call = j.call /\ (~(k.total >= k.call.n) => GoodJob(k))
      <3>1. /\ k.call = j.call /\ k.at = j.at /\ k.total = j.total + n
            /\ k = Job(k.call, k.at, k.total, k.got, k.clean, k.names)
        BY <1>0, <2>4, JobMoved, SMTT(40)
      <3>2. /\ j.total \in Nat /\ j.at \in Nat /\ j.call.n \in Nat /\ j.call.data \in Seq(Int)
            /\ j.call.n = Len(j.call.data)
        BY <1>0, IOJob
      <3> HIDE DEF n
      <3>3. ~(k.total >= k.call.n) => k.total \in 0..k.call.n
        BY <2>2, <3>1, <3>2
      <3> QED BY <3>1, <3>2, <3>3, Zenon DEF GoodJob, Midway
    <2>7. k.call.op # "rpc"
      BY <2>6
    <2>8. leaveWrite(g, k, "nil") /\ Exact(k, "nil", file) => EndsExact(g)
      BY EndsEnd, EndExact, Zenon
    <2>9. leaveWrite(g, j, "error") => EndsExact(g)
      BY EndsEnd, StopExact, Zenon
    <2>10. rpc(g, k) /\ res' = res /\ SoFar(k, file) /\ GoodJob(k) => AsksExact(g)
      BY <1>0, <2>7, AskExact, Zenon
    <2> QED BY <2>1, <2>5, <2>6, <2>8, <2>9, <2>10, Zenon
  <1>2. CASE type(m) # "Rwrite"
    <2>1. leaveWrite(g, j, "error") /\ c2s' = c2s
      BY <1>2, Zenon DEF writeAtReply
    <2> QED BY <2>1, EndsEnd, StopExact, Zenon
  <1> QED BY <1>1, <1>2

\* The calls that neither read nor write the file.
LEMMA SoughtExact ==
    ASSUME NEW g, NEW j, GoodJob(j), j.call.op = "Seek", NEW ok, NEW newOff, sought(g, j, ok, newOff)
    PROVE  EndsExact(g)
  <1> DEFINE k == [j EXCEPT !.total = newOff]
  <1>1. end(g, k, "nil") \/ end(g, j, "error")
    BY Zenon DEF sought
  <1>2. k = [j EXCEPT !.total = newOff]
    OBVIOUS
  <1> HIDE DEF k
  <1>3. k.call = j.call
    <2>1. k = Job(j.call, j.at, newOff, j.got, j.clean, j.names)
      BY <1>2, JobEdits DEF GoodJob
    <2> QED BY <2>1, JobParts, SMTT(40)
  <1>4. \A i : i.call = j.call => \A err : Exact(i, err, file)
    BY OutsideExact
  <1> QED BY <1>1, <1>3, <1>4, EndExact, Zenon

LEMMA ReadDirReplyExact ==
    ASSUME NEW g, NEW j, NEW m, Replied(j, m), j.call.op = "ReadDir", readDirReply(g, j, m)
    PROVE  (EndsExact(g) /\ c2s' = c2s) \/ AsksExact(g)
  <1>0. Ends /\ GoodJob(j) /\ m \in Replies(maxIO) /\ opened = Len(Start)
    BY DEF Replied
  <1>1. \A i : i.call = j.call => (~InIO(i) /\ \A err : Exact(i, err, file))
    BY OutsideExact
  <1>2. \A i : i.call = j.call => \A err : finish(g, i, err) => EndsExact(g)
    BY <1>1, EndsEnd, EndExact, Zenon
  <1>3. CASE type(m) = "Rread"
    <2> DEFINE s == Size(arg(m)[1])
               d == entries(arg(m)[1], cl.unix)
               k == [j EXCEPT !.got = @ \o d.vals, !.total = @ + s]
               o == j.got \o d.vals
    <2>1. s \in Nat
      BY <1>0, <1>3, ReplyArgs
    <2>2. \/ \E err : finish(g, k, err) /\ c2s' = c2s
          \/ \E err : finish(g, j, err) /\ c2s' = c2s
          \/ rpc(g, k) /\ UNCHANGED <<offset, returned, mu, res>>
      BY <1>3, Zenon DEF readDirReply
    <2> HIDE DEF s
    <2>4. k = [j EXCEPT !.got = o, !.total = j.total + s]
      OBVIOUS
    <2> HIDE DEF d, o, k
    <2>5. k = Job(j.call, j.at, j.total + s, o, j.clean, j.names)
      <3>1. j = Job(j.call, j.at, j.total, j.got, j.clean, j.names)
        BY <1>0 DEF GoodJob
      <3> QED BY <2>4, <3>1 DEF Job
    <2>6. /\ k.call = j.call /\ k.at = j.at /\ k.total = j.total + s
          /\ k = Job(k.call, k.at, k.total, k.got, k.clean, k.names)
      BY <1>0, <2>5, JobMoved
    <2>7. GoodJob(k)
      <3>1. j.total \in Nat
        BY <1>0 DEF GoodJob, Midway
      <3>2. k.total \in Nat
        BY <2>1, <2>6, <3>1
      <3> QED BY <2>6, <3>2, Zenon DEF GoodJob, Midway
    <2>8. k.call.op # "rpc"
      BY <2>6
    <2>9. rpc(g, k) /\ res' = res => AsksExact(g)
      BY <1>0, <1>1, <2>6, <2>7, <2>8, AskExact, Zenon
    <2> QED BY <1>2, <2>2, <2>6, <2>9, Zenon
  <1>4. CASE type(m) # "Rread"
    <2>1. finish(g, j, "error") /\ c2s' = c2s
      BY <1>4, Zenon DEF readDirReply
    <2> QED BY <1>2, <2>1, Zenon
  <1> QED BY <1>3, <1>4

LEMMA OtherReplyExact ==
    ASSUME NEW g, NEW j, NEW m, j.call.op = "rpc", otherReply(g, j, m)
    PROVE  EndsExact(g) /\ c2s' = c2s
  <1>1. PICK err : finish(g, j, err) /\ c2s' = c2s
    BY Zenon DEF otherReply
  <1>2. Exact(j, err, file)
    BY OutsideExact
  <1> QED BY <1>1, <1>2, EndsEnd, EndExact, Zenon

LEMMA ReplyAnswers ==
    ASSUME SessionInv, cl.pc = "up", NEW e \in s2c, NEW r, r = Received(e, cl.limit, cl.unix), r.ok,
           NEW j, NEW d, NEW max, Answers(j, e.msg, d, max)
    PROVE  Answers(j, r.msg, d, max)
  <1>1. Ends /\ Agreed /\ OnWay
    BY DEF SessionInv
  <1>2. e.msg \in Messages /\ e.unix = sv.unix /\ cl.unix = sv.unix /\ sv.unix \in BOOLEAN
    <2> DEFINE S == Replies(maxIO)
    <2>1. s2c \subseteq Envelope(S, sv.unix) /\ cl.unix = sv.unix
      BY <1>1, Zenon DEF Agreed, OnWay
    <2> HIDE DEF S
    <2>2. e.msg \in S /\ e.unix = sv.unix
      BY <2>1 DEF Envelope
    <2> QED BY <1>1, <2>1, <2>2, EndsParts DEF S, Replies
  <1>3. Took(e, r)
    <2>1. Took(e, Received(e, cl.limit, e.unix))
      BY <1>2, TookIt, Zenon
    <2> QED BY <1>2, <2>1, Zenon
  <1>4. r.msg = Carried(e.msg, sv.unix)
    BY <1>2, <1>3, Zenon DEF Took
  <1> DEFINE m == e.msg
             n == r.msg
  <1>5. type(n) = type(m) /\ (type(m) \in IOTypes => n = m)
    BY <1>2, <1>4, CarriedMessage, Zenon
  <1> HIDE DEF m, n
  <1>6. CASE type(m) \in IOTypes
    BY <1>5, <1>6, Zenon DEF m, n
  <1>7. CASE type(m) \notin IOTypes
    <2>1. type(n) # "Rread" /\ type(n) # "Rwrite"
      BY <1>5, <1>7 DEF IOTypes
    <2> QED BY <2>1, Zenon DEF Answers, n
  <1> QED BY <1>6, <1>7

LEMMA FileSeq ==
    ASSUME Served
    PROVE  file \in Seq(Int)
  BY NodeParts, FileIn DEF file, Served

LEMMA ReceiveExact ==
    ASSUME IInv, EInv, NEW g \in Procs, Receive(g)
    PROVE  EInv'
  <1>0. SessionInv /\ CallsInv /\ OneMessage /\ Ends /\ Served /\ GoodJob(job[g])
    BY Zenon DEF IInv, SessionInv, CallsInv, Jobs
  <1>1. /\ pc[g] = "wait" /\ opened = Len(Start) /\ sc' = sc /\ cl' = cl /\ sv' = sv /\ work' = work
        /\ fs' = fs /\ fids' = fids /\ begun' = begun /\ opened' = opened
    BY Zenon DEF Receive
  <1>2. cl.pc = "up"
    BY <1>0, <1>1, WaitsUp, Zenon
  <1> DEFINE j == job[g]
             op == j.call.op
             R(e) == Received(e, cl.limit, cl.unix)
  <1>3. PICK e \in s2c :
          /\ e.tag = g /\ deliver(e, R(e))
          /\ \/ op = "Read" /\ readReply(g, j, R(e).msg) /\ c2s' = c2s
             \/ op = "ReadAt" /\ readAtReply(g, j, R(e).msg)
             \/ op \in {"Write", "WriteAt"} /\ writeAtReply(g, j, R(e).msg)
             \/ op = "Seek" /\ seekReply(g, j, R(e).msg)
             \/ op = "ReadDir" /\ readDirReply(g, j, R(e).msg)
             \/ op = "rpc" /\ otherReply(g, j, R(e).msg)
    BY Zenon DEF Receive
  <1> DEFINE r == R(e)
             m == r.msg
  <1>4. r.ok /\ s2c' = s2c \ {e} /\ lost' = lost \cup misread(e, r)
    BY <1>3, Zenon DEF deliver
  <1>5. misread(e, r) = {} /\ m \in Replies(maxIO)
    BY <1>0, <1>2, <1>4, ReplyRead, Zenon
  <1>6. Leaves
    <2>1. lost' = lost /\ s2c' \subseteq s2c
      <3> HIDE DEF r
      <3> QED BY <1>4, <1>5
    <2> QED BY <1>1, <2>1, Zenon DEF Leaves
  <1>7. Replied(j, m)
    <2>1. ASSUME InIO(j) PROVE SoFar(j, file) /\ Answers(j, m, file, maxIO)
      <3>1. Stage(j, file, maxIO, c2s, work, s2c, g)
        BY <1>1, <2>1, Zenon DEF EInv, Exactly
      <3>2. SoFar(j, file) /\ Answers(j, e.msg, file, maxIO)
        BY <1>3, <3>1, Zenon DEF Stage
      <3> DEFINE d == file
                 max == maxIO
      <3> HIDE DEF d, max, r, j
      <3>3. Answers(j, e.msg, d, max) /\ r = Received(e, cl.limit, cl.unix)
        BY <3>2 DEF d, max, r
      <3>4. Answers(j, r.msg, d, max)
        BY <1>0, <1>2, <1>4, <3>3, ReplyAnswers, Zenon
      <3> QED BY <3>2, <3>4 DEF d, max
    <2>2. file \in Seq(Int)
      BY <1>0, FileSeq
    <2> HIDE DEF r
    <2> QED BY <1>0, <1>1, <1>5, <2>1, <2>2, Zenon DEF Replied
  <1>8. \/ op = "Read" /\ readReply(g, j, m) /\ c2s' = c2s
        \/ op = "ReadAt" /\ readAtReply(g, j, m)
        \/ op \in {"Write", "WriteAt"} /\ writeAtReply(g, j, m)
        \/ op = "Seek" /\ seekReply(g, j, m)
        \/ op = "ReadDir" /\ readDirReply(g, j, m)
        \/ op = "rpc" /\ otherReply(g, j, m)
    BY <1>3, Zenon
  <1>9. GoodJob(j)
    BY <1>0, Zenon
  <1> HIDE DEF j, m
  <1>10. (EndsExact(g) /\ c2s' = c2s) \/ AsksExact(g)
    <2>1. ASSUME op = "Seek", seekReply(g, j, m) PROVE EndsExact(g) /\ c2s' = c2s
      <3>1. PICK ok, newOff : sought(g, j, ok, newOff) /\ c2s' = c2s
        BY <2>1, Zenon DEF seekReply
      <3> QED BY <1>9, <2>1, <3>1, SoughtExact, Zenon
    <2> QED BY <1>7, <1>8, <2>1, ReadReplyExact, ReadAtReplyExact, WriteAtReplyExact, ReadDirReplyExact,
               OtherReplyExact, Zenon
  <1>11. AbsentQ(c2s, g) /\ Absent(work, g) /\ Absent(s2c', g)
    BY <1>0, <1>3, <1>4, TakenOff, Zenon
  <1> QED BY <1>1, <1>2, <1>6, <1>10, <1>11, EndsExactKeeps, AsksExactKeeps, Zenon

LEMMA FailExact ==
    ASSUME IInv, EInv, NEW g \in Procs, Fail(g)
    PROVE  EInv'
  <1>0. GoodJob(job[g]) /\ Served
    BY Zenon DEF IInv, CallsInv, Jobs
  <1>1. /\ pc[g] = "wait" /\ Leaves /\ c2s' = c2s /\ opened' = opened
    <2>1. /\ sc' = sc /\ cl' = cl /\ sv' = sv /\ work' = work /\ lost' = lost /\ s2c' = s2c
          /\ fs' = fs /\ fids' = fids /\ c2s' = c2s /\ opened' = opened /\ pc[g] = "wait"
      BY Zenon DEF Fail, sessionVars
    <2> QED BY <2>1, Zenon DEF Leaves
  <1> DEFINE j == job[g]
  <1>2. Exact(j, "error", file)
    <2>1. InIO(j) => SoFar(j, file)
      BY <1>1, Zenon DEF EInv, Exactly, Stage
    <2>2. file \in Seq(Int)
      BY <1>0, FileSeq
    <2> QED BY <1>0, <2>1, <2>2, StopsExact, Zenon DEF InIO
  <1>3. EndsExact(g)
    <2>1. CASE j.call.op \in {"Write", "WriteAt"}
      <3>1. leaveWrite(g, j, "error")
        BY <2>1 DEF Fail
      <3> QED BY <1>2, <3>1, EndsEnd, EndExact, Zenon
    <2>2. CASE j.call.op = "Seek"
      <3>1. sought(g, j, FALSE, 0)
        BY <2>2 DEF Fail
      <3> QED BY <1>0, <2>2, <3>1, SoughtExact, Zenon
    <2>3. CASE j.call.op \notin {"Write", "WriteAt", "Seek"}
      <3>1. finish(g, j, "error")
        BY <2>3 DEF Fail
      <3> QED BY <1>2, <3>1, EndsEnd, EndExact, Zenon
    <2> QED BY <2>1, <2>2, <2>3
  <1> QED BY <1>1, <1>3, EndsExactKeeps, Zenon

LEMMA BeginExact ==
    ASSUME IInv, EInv, NEW g \in Procs, NEW c \in Calls[sc.calls], Begin(g, c)
    PROVE  EInv'
  <1>0. SessionInv /\ CallsInv /\ OneMessage /\ Ends /\ Offset /\ Served
    BY Zenon DEF IInv, SessionInv, CallsInv
  <1>1. isCall(c)
    BY <1>0, CallsAssumption, Zenon DEF Ends
  <1> DEFINE a == IF c.op \in {"Read", "Write"} THEN offset ELSE c.off
             j == [NoJob EXCEPT !.call = c, !.names = children, !.at = a]
  <1>2. /\ pc[g] = "idle" /\ opened = Len(Start)
        /\ sc' = sc /\ cl' = cl /\ sv' = sv /\ work' = work /\ s2c' = s2c /\ lost' = lost
        /\ fs' = fs /\ fids' = fids /\ opened' = opened
    BY Zenon DEF Begin
  <1>3. IF c.op = "Seek" /\ c.n # SeekEnd
        THEN /\ sought(g, j, TRUE, IF c.n = SeekStart THEN c.off ELSE offset + c.off)
             /\ c2s' = c2s
        ELSE IF c.op \in {"ReadAt", "Write", "WriteAt"} /\ c.n = 0
        THEN finish(g, j, "nil") /\ c2s' = c2s
        ELSE IF ~cl.reading
        THEN finish(g, j, "error") /\ c2s' = c2s
        ELSE /\ rpc(g, j)
             /\ mu' = IF c.op = "Seek" THEN g ELSE mu
             /\ UNCHANGED <<offset, returned, res>>
    BY DEF Begin
  <1>4. j = [NoJob EXCEPT !.call = c, !.names = children, !.at = a]
    OBVIOUS
  <1> DEFINE ns == children
  <1> HIDE DEF j, ns
  <1>5. GoodJob(j) /\ j.call = c /\ j.total = 0 /\ j.got = <<>>
    <2>1. j = Job(c, a, 0, <<>>, TRUE, ns)
      <3> HIDE DEF a
      <3>1. j = [NoJob EXCEPT !.call = c, !.names = ns, !.at = a]
        BY <1>4 DEF ns
      <3> QED BY <3>1 DEF NoJob, Job
    <2>2. a = IF c.op \in {"Read", "Write"} THEN offset ELSE c.off
      OBVIOUS
    <2> HIDE DEF a
    <2>3. Offset /\ isCall(c)
      BY <1>0, <1>1
    <2>4. Begins(j, c)
      BY <2>1, <2>2, <2>3, BegunJob
    <2>5. j.got = <<>>
      BY <2>1 DEF Job
    <2> QED BY <2>4, <2>5, Zenon DEF Begins
  <1>6. Leaves /\ cl.pc = "up"
    <2>1. cl.pc = "up"
      BY <1>0, <1>2, WaitsUp
    <2> QED BY <1>2, <2>1, Zenon DEF Leaves
  <1> DEFINE empty == c.op \in {"ReadAt", "Write", "WriteAt"} /\ c.n = 0
             moves == c.op = "Seek" /\ c.n # SeekEnd
  <1>7. /\ Exact(j, "error", file)
        /\ empty => Exact(j, "nil", file)
        /\ ~empty => SoFar(j, file)
    <2>1. file \in Seq(Int)
      BY <1>0, FileSeq
    <2>2. /\ Exact(j, "error", file)
          /\ j.call.op \in {"ReadAt", "Write", "WriteAt"} /\ j.call.n = 0 => Exact(j, "nil", file)
          /\ ~(j.call.op \in {"ReadAt", "Write", "WriteAt"} /\ j.call.n = 0) => SoFar(j, file)
      BY <1>5, <2>1, BeginsExact, Zenon
    <2> QED BY <1>5, <2>2
  <1>8. \/ \E ok, n : moves /\ sought(g, j, ok, n) /\ c2s' = c2s
        \/ empty /\ finish(g, j, "nil") /\ c2s' = c2s
        \/ finish(g, j, "error") /\ c2s' = c2s
        \/ ~empty /\ cl.reading /\ rpc(g, j) /\ res' = res
    BY <1>3, Zenon
  <1>9. moves => c.op = "Seek"
    OBVIOUS
  <1> HIDE DEF empty, moves
  <1>10. ASSUME rpc(g, j), res' = res, ~empty PROVE AsksExact(g)
    <2>1. CASE c.op # "rpc"
      BY <1>2, <1>5, <1>7, <1>10, <2>1, AskExact, Zenon
    <2>2. CASE c.op = "rpc"
      <3>1. request(j) = c.msg
        BY <1>5, <2>2, RequestIs, Zenon
      <3>2. newFid(c.msg)
        <4>1. c # ListDir
          BY <2>2, CallParts
        <4>2. c.op \notin {"Read", "ReadAt"} /\ c.op \notin {"Write", "WriteAt"} /\ c.op # "Seek"
          BY <2>2
        <4> QED BY <1>1, <4>1, <4>2, Zenon DEF isCall
      <3>3. ~(opened < Len(Start))
        BY <1>2, StartBegun
      <3>4. Fitting(request(j), opened)
        BY <3>1, <3>2, <3>3, Zenon DEF Fitting
      <3> QED BY <1>5, <1>7, <1>10, <3>4, Zenon DEF AsksExact
    <2> QED BY <2>1, <2>2
  <1>11. (EndsExact(g) /\ c2s' = c2s) \/ (cl.reading /\ AsksExact(g))
    BY <1>5, <1>7, <1>8, <1>9, <1>10, SoughtExact, EndsEnd, EndExact, Zenon
  <1>12. cl.reading => AbsentQ(c2s, g) /\ Absent(work, g) /\ Absent(s2c', g)
    BY <1>0, <1>2, Zenon DEF OneMessage, None
  <1> QED BY <1>2, <1>6, <1>11, <1>12, EndsExactKeeps, AsksExactKeeps, Zenon

LEMMA StartsMsg == \A i \in 1..6 : StartMsg(Start[i])
  <1> DEFINE a == Msg("Tattach", <<RootFid, 0, 2, 0>>)
             b == Msg("Twalk", <<RootFid, FileFid, <<FileName>> >>)
             c == Msg("Topen", <<FileFid, 2>>)
             d == Msg("Twalk", <<RootFid, DirFid, <<>> >>)
             e == Msg("Topen", <<DirFid, 0>>)
             f == Msg("Twalk", <<RootFid, MakeFid, <<>> >>)
  <1>1. Start = <<a, b, c, d, e, f>>
    BY DEF Start
  <1>2. RootFid \in Nat /\ FileFid \in Nat /\ DirFid \in Nat
    BY DEF RootFid, FileFid, DirFid
  <1>3. StartMsg(a)
    <2> DEFINE v == <<RootFid, 0, 2, 0>>
    <2>1. v \in Seq(Nat) /\ v[1] = RootFid
      BY <1>2
    <2> HIDE DEF v
    <2>2. type(Msg("Tattach", v)) = "Tattach" /\ arg(Msg("Tattach", v)) = v
      BY <2>1, MsgParts, Zenon
    <2>3. StartMsg(Msg("Tattach", v))
      BY <2>1, <2>2, Zenon DEF StartMsg
    <2> QED BY <2>3 DEF v
  <1>4. ASSUME NEW y, NEW z, (y = FileFid /\ z = <<FileName>>) \/ y \in {DirFid, MakeFid}
        PROVE  StartMsg(Msg("Twalk", <<RootFid, y, z>>))
    <2> DEFINE w == Msg("Twalk", <<RootFid, y, z>>)
    <2>1. type(w) = "Twalk" /\ arg(w)[1] = RootFid /\ arg(w)[2] = y /\ arg(w)[3] = z
      BY MsgOf
    <2> HIDE DEF w
    <2>2. StartMsg(w)
      BY <1>4, <2>1 DEF StartMsg
    <2> QED BY <2>2 DEF w
  <1>5. StartMsg(b) /\ StartMsg(d) /\ StartMsg(f)
    <2>1. DirFid \in {DirFid, MakeFid} /\ MakeFid \in {DirFid, MakeFid}
      OBVIOUS
    <2> QED BY <1>4, <2>1, Zenon
  <1>6. ASSUME NEW x \in Nat, NEW y \in Nat PROVE StartMsg(Msg("Topen", <<x, y>>))
    <2> DEFINE v == <<x, y>>
    <2>1. v \in Seq(Nat)
      OBVIOUS
    <2> HIDE DEF v
    <2>2. type(Msg("Topen", v)) = "Topen"
      BY <2>1, MsgParts, Zenon
    <2>3. StartMsg(Msg("Topen", v))
      BY <2>2, Zenon DEF StartMsg
    <2> QED BY <2>3 DEF v
  <1>7. StartMsg(c) /\ StartMsg(e)
    <2>1. 0 \in Nat /\ 2 \in Nat
      OBVIOUS
    <2> QED BY <1>2, <1>6, <2>1, Zenon
  <1> DEFINE s == <<a, b, c, d, e, f>>
  <1> HIDE DEF a, b, c, d, e, f
  <1>8. s[1] = a /\ s[2] = b /\ s[3] = c /\ s[4] = d /\ s[5] = e /\ s[6] = f
    OBVIOUS
  <1>9. Start = s
    BY <1>1
  <1> HIDE DEF s
  <1>10. \A i \in 1..6 : i = 1 \/ i = 2 \/ i = 3 \/ i = 4 \/ i = 5 \/ i = 6
    OBVIOUS
  <1>11. \A i \in 1..6 : StartMsg(s[i])
    BY <1>3, <1>5, <1>7, <1>8, <1>10, Zenon
  <1> QED BY <1>9, <1>11, Zenon

\* When a request of the start is answered, no message is on its way.
LEMMA StartAnswered ==
    ASSUME IInv, cl.pc = "up", cl.reading, opened < Len(Start), NEW g \in Procs, pc[g] = "wait",
           AbsentQ(c2s, g), Absent(work, g)
    PROVE  DOMAIN c2s = {} /\ work = {}
  <1>0. SessionInv /\ OneMessage /\ StartsAlone /\ Jobs
    BY DEF IInv, CallsInv
  <1> DEFINE S == Requests(maxIO)
             u == sv.unix
  <1>1. c2s \in Seq(Envelope(S, u)) /\ work \subseteq Envelope(S, u)
    BY <1>0, Zenon DEF SessionInv, OnWay
  <1>2. ASSUME NEW h \in Procs PROVE AbsentQ(c2s, h) /\ Absent(work, h)
    <2>1. CASE h = g
      BY <2>1
    <2>2. CASE h # g
      <3>1. pc[h] \in {"idle", "wait"} /\ pc[h] # "wait"
        <4>1. pc[h] \in {"idle", "wait"}
          BY <1>0 DEF Jobs
        <4> QED BY <1>0, <2>2, <4>1, Zenon DEF StartsAlone
      <3>2. pc[h] = "idle"
        BY <3>1
      <3> QED BY <1>0, <3>2, Zenon DEF OneMessage, None
    <2> QED BY <2>1, <2>2
  <1> HIDE DEF S, u
  <1>3. \A x \in Envelope(S, u) : x.tag \in Procs
    BY DEF Envelope
  <1> DEFINE E == Envelope(S, u)
  <1> HIDE DEF E
  <1>4. \A i \in DOMAIN c2s : c2s[i] \in E
    <2>1. c2s \in Seq(E)
      BY <1>1 DEF E
    <2> QED BY <2>1
  <1>5. \A i \in DOMAIN c2s : FALSE
    BY <1>2, <1>3, <1>4, Zenon DEF AbsentQ, E
  <1>6. \A q \in work : FALSE
    BY <1>1, <1>2, <1>3, Zenon DEF Absent
  <1> QED BY <1>5, <1>6

LEMMA StartingExact ==
    ASSUME IInv, EInv, Starting
    PROVE  EInv'
  <1>0. SessionInv /\ CallsInv /\ OneMessage /\ Served /\ Counts /\ StartsAlone /\ Jobs
    BY Zenon DEF IInv, CallsInv
  <1>1. /\ cl.pc = "up" /\ opened < Len(Start) /\ fs' = fs /\ fids' = fids /\ res' = res
    BY Zenon DEF Starting
  <1>2. opened \in Nat /\ opened + 1 \in 1..6
    BY <1>0, <1>1, StartBegun DEF Counts
  <1>3. PICK g \in Procs :
          \/ /\ \A h \in Procs : pc[h] = "idle"
             /\ cl.reading
             /\ rpc(g, [NoJob EXCEPT !.call = Rpc(Start[opened + 1])])
             /\ UNCHANGED <<sc, cl, sv, work, s2c, lost, opened>>
          \/ /\ pc[g] = "wait"
             /\ \E e \in s2c : deliver(e, Received(e, cl.limit, cl.unix))
             /\ pc' = [pc EXCEPT ![g] = "idle"]
             /\ opened' = opened + 1
             /\ UNCHANGED <<sc, cl, sv, c2s, work, job>>
    BY Zenon DEF Starting
  <1>4. CASE /\ \A h \in Procs : pc[h] = "idle"
             /\ cl.reading
             /\ rpc(g, [NoJob EXCEPT !.call = Rpc(Start[opened + 1])])
             /\ UNCHANGED <<sc, cl, sv, work, s2c, lost, opened>>
    <2> DEFINE m == Start[opened + 1]
               c == Rpc(m)
               j == [NoJob EXCEPT !.call = c]
    <2>1. Begun(m) /\ StartMsg(m)
      BY <1>2, StartBegun, StartsMsg, Zenon
    <2>2. c.op = "rpc" /\ c.msg = m
      <3> HIDE DEF m
      <3> QED BY CallParts
    <2> HIDE DEF c
    <2>3. j = [NoJob EXCEPT !.call = c] /\ rpc(g, j)
      BY <1>4, Zenon DEF c
    <2> HIDE DEF j
    <2>4. j = Job(c, 0, 0, <<>>, TRUE, {})
      BY <2>3 DEF NoJob, Job
    <2>5. j.call = c /\ j = Job(j.call, j.at, j.total, j.got, j.clean, j.names)
      BY <2>4 DEF Job
    <2>6. GoodJob(j)
      BY <2>1, <2>2, <2>5, Zenon DEF GoodJob, Midway, Begun
    <2>7. ~InIO(j)
      <3>1. j.call.op \notin {"Read", "ReadAt", "Write", "WriteAt"}
        BY <2>2, <2>5
      <3> QED BY <3>1, OutsideExact
    <2>8. Fitting(request(j), opened)
      <3>1. request(j) = m
        BY <2>2, <2>5, <2>6, RequestIs, Zenon
      <3> QED BY <1>1, <2>1, <3>1, Zenon DEF Fitting
    <2>9. AsksExact(g)
      BY <1>1, <2>3, <2>6, <2>7, <2>8, Zenon DEF AsksExact
    <2>10. Leaves /\ opened' = opened
      BY <1>1, <1>4, Zenon DEF Leaves
    <2>11. AbsentQ(c2s, g) /\ Absent(work, g) /\ Absent(s2c', g)
      BY <1>0, <1>4, Zenon DEF OneMessage, None
    <2> QED BY <1>1, <2>9, <2>10, <2>11, AsksExactKeeps, Zenon
  <1>5. CASE /\ pc[g] = "wait"
             /\ \E e \in s2c : deliver(e, Received(e, cl.limit, cl.unix))
             /\ pc' = [pc EXCEPT ![g] = "idle"]
             /\ opened' = opened + 1
             /\ UNCHANGED <<sc, cl, sv, c2s, work, job>>
    <2>1. PICK e \in s2c : deliver(e, Received(e, cl.limit, cl.unix))
      BY <1>5
    <2>2. cl.reading /\ s2c' = s2c \ {e}
      BY <2>1, Zenon DEF deliver
    <2>3. e.tag \in Procs
      BY <1>0, <1>1, ReplyRead, Zenon
    <2>4. e.tag = g
      <3>1. ~None(e.tag)
        BY Zenon DEF None, Absent
      <3>2. pc[e.tag] # "idle"
        BY <1>0, <2>2, <2>3, <3>1, Zenon DEF OneMessage
      <3>3. pc[e.tag] \in {"idle", "wait"}
        BY <1>0, <2>3 DEF Jobs
      <3>4. pc[e.tag] = "wait"
        BY <3>2, <3>3
      <3> QED BY <1>0, <1>1, <1>5, <2>3, <3>4, Zenon DEF StartsAlone
    <2>5. AbsentQ(c2s, g) /\ Absent(work, g)
      BY <1>0, <2>2, <2>4, TakenOff, Zenon
    <2>6. DOMAIN c2s = {} /\ work = {}
      BY <1>1, <1>5, <2>2, <2>5, StartAnswered, Zenon
    <2>7. sc' = sc /\ cl' = cl /\ c2s' = c2s /\ work' = work /\ tree0' = tree0
      BY <1>5 DEF tree0
    <2>8. FilesInv'
      <3>1. Requested'
        <4>1. (\A i \in DOMAIN c2s' : FALSE) /\ (\A q \in work' : FALSE)
          BY <2>6, <2>7
        <4> QED BY <4>1, Zenon DEF Requested
      <3>2. FileKept(fs, fids) /\ RootKept(fs, fids)
        BY <1>1, Zenon DEF EInv, FilesInv
      <3>3. FileKept(fs, fids)' /\ RootKept(fs, fids)'
        BY <1>1, <2>7, <3>2, Zenon DEF FileKept, RootKept
      <3> QED BY <3>1, <3>3, Zenon DEF FilesInv
    <2>9. ASSUME NEW h \in Procs PROVE Exactly(h)'
      <3>1. pc'[h] # "wait"
        <4>1. pc \in [Procs -> {"idle", "wait"}]
          BY <1>0 DEF Jobs
        <4>2. pc[h] = "wait" => h = g
          BY <1>0, <1>1, <1>5, Zenon DEF StartsAlone
        <4> QED BY <1>5, <4>1, <4>2
      <3> QED BY <3>1, Zenon DEF Exactly
    <2>10. IOExact'
      BY <1>1, Zenon DEF EInv, IOExact
    <2> QED BY <2>8, <2>9, <2>10, Zenon DEF EInv
  <1> QED BY <1>3, <1>4, <1>5

LEMMA StutterExact ==
    ASSUME EInv, UNCHANGED vars
    PROVE  EInv'
  <1>1. /\ sc' = sc /\ cl' = cl /\ c2s' = c2s /\ work' = work /\ s2c' = s2c
        /\ fs' = fs /\ fids' = fids /\ pc' = pc /\ job' = job /\ opened' = opened /\ res' = res
    BY DEF vars, sessionVars, ioVars
  <1>2. maxIO' = maxIO /\ tree0' = tree0 /\ file' = file
    BY <1>1, SameMax DEF tree0, file
  <1>3. FilesInv'
    BY <1>1, <1>2, Zenon DEF EInv, FilesInv, Requested, FileKept, RootKept
  <1>4. ASSUME NEW h \in Procs PROVE Exactly(h)'
    <2>1. Exactly(h)
      BY Zenon DEF EInv
    <2> QED BY <1>1, <1>2, <2>1, Zenon DEF Exactly, Stage
  <1>5. IOExact'
    BY <1>1, Zenon DEF EInv, IOExact
  <1> QED BY <1>3, <1>4, <1>5, Zenon DEF EInv

LEMMA InitExact == Init => EInv
  <1> SUFFICES ASSUME Init PROVE EInv
    OBVIOUS
  <1>1. SessionInit /\ sc \in Scenarios
    BY Zenon DEF Init, SessionInit
  <1>2. /\ fs = tree0 /\ fids = <<>> /\ pc = [g \in Procs |-> "idle"] /\ res = NoResult
    BY Zenon DEF Init
  <1>3. c2s = <<>> /\ work = {}
    BY <1>1, Zenon DEF SessionInit
  <1>4. FilesInv
    <2>1. Requested
      BY <1>3 DEF Requested
    <2>2. FileKept(fs, fids) /\ RootKept(fs, fids)
      <3>1. \A x : x \notin DOMAIN <<>>
        OBVIOUS
      <3>2. ~fs[FileNode].dir
        BY <1>1, <1>2, FirstFile, Zenon
      <3> QED BY <1>2, <3>1, <3>2, Zenon DEF FileKept, RootKept
    <2> QED BY <2>1, <2>2, Zenon DEF FilesInv
  <1>5. ASSUME NEW g \in Procs PROVE Exactly(g)
    <2>1. pc[g] # "wait"
      BY <1>2
    <2> QED BY <2>1, Zenon DEF Exactly
  <1>6. IOExact
    <2>1. res.job = NoJob
      BY <1>2 DEF NoResult
    <2>2. NoJob.call.op \notin {"Read", "ReadAt", "Write", "WriteAt"}
      <3>1. NoJob.call = ListDir
        BY DEF NoJob
      <3> QED BY <3>1, CallParts
    <2> QED BY <2>1, <2>2, OutsideExact, ExactIs
  <1> QED BY <1>4, <1>5, <1>6, Zenon DEF EInv

LEMMA NextExact == IInv /\ EInv /\ [Next]_vars => EInv'
  <1> SUFFICES ASSUME IInv, EInv, [Next]_vars PROVE EInv'
    OBVIOUS
  <1>1. CASE SessionStep
    BY <1>1, SessionExact
  <1>2. CASE Handle
    BY <1>2, HandleExact
  <1>3. CASE Starting
    BY <1>3, StartingExact
  <1>4. ASSUME NEW g \in Procs, NEW c \in Calls[sc.calls], Begin(g, c) PROVE EInv'
    BY <1>4, BeginExact
  <1>5. ASSUME NEW g \in Procs, Receive(g) PROVE EInv'
    BY <1>5, ReceiveExact
  <1>6. ASSUME NEW g \in Procs, Fail(g) PROVE EInv'
    BY <1>6, FailExact
  <1>7. CASE UNCHANGED vars
    BY <1>7, StutterExact
  <1> QED BY <1>1, <1>2, <1>3, <1>4, <1>5, <1>6, <1>7, Zenon DEF Next, Finished

\* A Read or ReadAt that no other call disturbs returns the bytes that the file
\* has at its offset, and a Write or WriteAt puts its bytes there (IOExact):
\* all of them unless it fails, with io.EOF only where the file ends, however
\* the call is split over messages and whatever the others do meanwhile.
THEOREM IOIsExact == Spec => []IOExact
  <1>1. Spec => [](IInv /\ EInv)
    <2>1. Init => IInv /\ EInv
      BY InitKeeps, InitExact
    <2>2. (IInv /\ EInv) /\ [Next]_vars => (IInv /\ EInv)'
      BY NextKeeps, NextExact
    <2> QED BY <2>1, <2>2, PTL DEF Spec
  <1>2. EInv => IOExact
    BY DEF EInv
  <1> QED BY <1>1, <1>2, PTL

=============================================================================
