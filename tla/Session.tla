------------------------------ MODULE Session ------------------------------
(***************************************************************************)
(* One connection: the version handshake of client.NewClient, the client's *)
(* and the server's read loops with their size limits and dialects, and    *)
(* how either end gives the connection up (src/client/client.go,           *)
(* src/server/conn.go and server.go).                                      *)
(*                                                                         *)
(* A message on its way is what was marshalled and in which dialect; its   *)
(* bytes are MarshalVersion of that, and the receiver decodes those.       *)
(* Handlers run on goroutines of their own, so replies may leave in any    *)
(* order: s2c is a set.  How tags are found is CallMux's subject: here     *)
(* each goroutine of the client has its own.                               *)
(***************************************************************************)
EXTENDS Wire, FiniteSets

CONSTANTS
    Scenarios,  \* what the two ends were configured with; see TypeOK
    Procs,      \* the client's goroutines, whose tags are their names
    NoTag

VARIABLES
    sc,    \* the scenario
    cl,    \* the Client, its NewClient and its readLoop
    sv,    \* the server's conn and its serve
    c2s,   \* messages from the client that serve has not read
    work,  \* requests whose handlers have not replied
    s2c,   \* replies that readLoop has not read
    lost   \* why connections were given up or messages misread

sessionVars == <<sc, cl, sv, c2s, work, s2c, lost>>

Kinds == {"this", "strict", "down", "never", "refuse"}

ASSUME ScenariosAssumption ==
    \A s \in Scenarios : /\ s.msize \in Nat /\ s.version \in {Version, VersionU}
                         /\ s.smsize \in Nat /\ s.server \in Kinds
ASSUME TagAssumption == NoTag \notin Procs

\* msize and version are the client's options, smsize is Server.Msize.
SessionTypeOK ==
    /\ sc \in Scenarios
    /\ sc.msize \in Nat /\ sc.version \in {Version, VersionU}
    /\ sc.smsize \in Nat /\ sc.server \in Kinds
    /\ cl.pc \in {"new", "version", "up", "failed"}
    /\ cl.reading \in BOOLEAN /\ cl.unix \in BOOLEAN
    /\ cl.msize \in Nat /\ cl.limit \in Nat
    /\ sv.pc \in {"first", "loop", "closed"} /\ sv.unix \in BOOLEAN /\ sv.msize \in Nat
    /\ lost \subseteq {"clientTooLarge", "clientDecode", "serverTooLarge", "serverDecode", "misread"}

\* Server.maxMsize
maxMsize == IF sc.smsize = 0 THEN DefaultMsize ELSE sc.smsize

least(m, n) == IF m < n THEN m ELSE n

\* NewClient before its first rpc, and newConn.
SessionInit ==
    /\ sc \in Scenarios
    /\ cl = [pc |-> "new", version |-> sc.version, retried |-> FALSE, msize |-> sc.msize,
             limit |-> sc.msize, unix |-> FALSE, reading |-> TRUE]
    /\ sv = [pc |-> "first", msize |-> maxMsize, unix |-> FALSE]
    /\ c2s = <<>> /\ work = {} /\ s2c = {} /\ lost = {}

\* Client.call's writeMessage, and conn.writeReply.
Sent(tag, m, unix) == [tag |-> tag, msg |-> m, unix |-> unix]
raw(e)             == MarshalVersion(e.tag, e.msg, e.unix)
write(tag, m)      == c2s' = Append(c2s, Sent(tag, m, cl.unix))
writeReply(tag, m, unix) ==
    s2c' = IF sv.pc = "closed" THEN s2c ELSE s2c \cup {Sent(tag, m, unix)}

\* What becomes of e when an end reads it with a limit and a dialect: the
\* message, or why it gives the connection up.
received(e, limit, u) ==
    [fits |-> ReadMessage(raw(e), limit), ok |-> u.ok, msg |-> u.msg,
     same |-> u.ok /\ u.msg = Carried(e.msg, e.unix)]

Received(e, limit, unix) == received(e, limit, UnmarshalVersion(raw(e), unix))

\* Only a Stat beyond what its size field can count may be misread.
misread(e, r) == IF r.same \/ ~StatFits(e.msg, e.unix) THEN {} ELSE {"misread"}

-----------------------------------------------------------------------------
(***************************************************************************)
(* NewClient.                                                              *)
(***************************************************************************)

NewClient ==
    /\ cl.pc = "new"
    /\ cl' = [cl EXCEPT !.pc = "version"]
    /\ write(NoTag, Msg("Tversion", <<sc.msize, cl.version>>))
    /\ UNCHANGED <<sc, sv, work, s2c, lost>>

\* The dialect of a session whose server named v.
agreedUnixAsked(v) == cl.version = VersionU
agreedUnix(v)      == v = cl.version /\ v = VersionU

\* Rversion has been delivered.  readLoop may have read msize for its next
\* message before NewClient stores it.
versionReply(m) ==
    LET v      == arg(m)[2]
        agreed == v \in {cl.version, Version}
        again  == v = VersionUnknown /\ cl.version # Version /\ ~cl.retried
        size   == least(sc.msize, arg(m)[1])
    IN  \/ /\ type(m) = "Rversion" /\ agreed
           /\ \E l \in {cl.limit, size} :
                cl' = [cl EXCEPT !.pc = "up", !.msize = size, !.limit = l,
                                 !.unix = agreedUnix(v)]
           /\ UNCHANGED c2s
        \/ /\ type(m) = "Rversion" /\ ~agreed /\ again
           /\ cl' = [cl EXCEPT !.retried = TRUE, !.version = Version]
           /\ write(NoTag, Msg("Tversion", <<sc.msize, Version>>))
        \/ /\ type(m) = "Rversion" => ~agreed /\ ~again
           /\ cl' = [cl EXCEPT !.pc = "failed", !.reading = FALSE]
           /\ UNCHANGED c2s

\* readLoop gives up: every call fails, NewClient's too, which closes.
closeAll ==
    cl' = [cl EXCEPT !.reading = FALSE, !.pc = IF @ = "version" THEN "failed" ELSE @]

-----------------------------------------------------------------------------
(***************************************************************************)
(* Client.readLoop.                                                        *)
(***************************************************************************)

\* It reads e and delivers it: the caller says what the call then does.
deliver(e, r) ==
    /\ e \in s2c /\ cl.reading
    /\ r = Received(e, cl.limit, cl.unix)
    /\ r.fits /\ r.ok
    /\ s2c' = s2c \ {e}
    /\ lost' = lost \cup misread(e, r)

ReadVersion ==
    \E e \in s2c :
        /\ e.tag = NoTag /\ cl.pc = "version"
        /\ LET r == Received(e, cl.limit, cl.unix) IN deliver(e, r) /\ versionReply(r.msg)
        /\ UNCHANGED <<sc, sv, work>>

\* A message it cannot take, or the end of the connection.
ReadFails ==
    /\ cl.reading /\ cl.pc # "failed"
    /\ \/ \E e \in s2c :
            LET r == Received(e, cl.limit, cl.unix)
            IN  /\ ~r.fits \/ ~r.ok
                /\ s2c' = s2c \ {e}
                /\ lost' = lost \cup IF ~r.fits THEN {"clientTooLarge"}
                                     ELSE {"clientDecode"} \cup misread(e, r)
       \/ sv.pc = "closed" /\ UNCHANGED <<s2c, lost>>
    /\ closeAll
    /\ UNCHANGED <<sc, sv, c2s, work>>

-----------------------------------------------------------------------------
(***************************************************************************)
(* conn.serve.                                                             *)
(***************************************************************************)

\* tVersion of this server.  msize is always the smaller one.
tVersion(v) ==
    IF v = VersionU THEN VersionU ELSE IF v # Version THEN VersionUnknown ELSE Version

\* Other servers a client may meet: one that knows only 9P2000 and says so,
\* one that answers with it, one that knows neither, and one that answers with
\* an error.
otherVersion(v) ==
    CASE sc.server = "strict" -> IF v = Version THEN Version ELSE VersionUnknown
      [] sc.server = "down"   -> Version
      [] OTHER                -> VersionUnknown

answerVersion(m) ==
    LET v     == IF sc.server = "this" THEN tVersion(arg(m)[2]) ELSE otherVersion(arg(m)[2])
        msize == least(arg(m)[1], maxMsize)
        unix  == v = VersionU
    IN  /\ sv' = [sv EXCEPT !.pc = "loop", !.msize = msize, !.unix = unix]
        /\ s2c' = s2c \cup {Sent(NoTag, IF sc.server = "refuse" THEN Msg("Rerror", <<17>>)
                                        ELSE Msg("Rversion", <<msize, v>>), unix)}

\* serve reads a message.  The client sends a Tversion only where nothing else
\* is under way: it is answered in the same step.
Serve ==
    /\ sv.pc # "closed" /\ c2s # <<>>
    /\ c2s' = Tail(c2s)
    /\ LET e == Head(c2s)
           r == Received(e, sv.msize, sv.unix)
       IN  \/ /\ r.fits /\ r.ok
              /\ lost' = lost \cup misread(e, r)
              /\ IF type(r.msg) = "Tversion" THEN answerVersion(r.msg) /\ UNCHANGED work
                 ELSE /\ work' = work \cup {[tag |-> e.tag, msg |-> r.msg, unix |-> sv.unix]}
                      /\ UNCHANGED <<sv, s2c>>
           \/ /\ ~r.fits \/ ~r.ok
              /\ sv' = [sv EXCEPT !.pc = "closed"]
              /\ lost' = lost \cup IF ~r.fits THEN {"serverTooLarge"}
                                   ELSE {"serverDecode"} \cup misread(e, r)
              /\ UNCHANGED <<work, s2c>>
    /\ UNCHANGED <<sc, cl>>

-----------------------------------------------------------------------------
\* NewClient returned a Client whose dialect and message size are the
\* server's, whatever the server offered and however often it was asked; the
\* limit its readLoop works with, which may be the one from before the
\* handshake, never cuts off what the server may send.
SessionAgrees ==
    cl.pc = "up" /\ sv.pc # "closed" =>
        /\ cl.unix = sv.unix /\ cl.msize = sv.msize
        /\ cl.limit # 0 => cl.limit >= cl.msize
        /\ cl.msize = 0 => cl.limit = 0

\* Whatever one end sends arrives as it was sent, in the dialect the two ends
\* agreed on (no field taken for another, none left over): the only messages
\* the other end cannot decode hold a Stat of 64K or more, whose 16-bit size
\* has wrapped.
NothingMisread == "misread" \notin lost
=============================================================================
