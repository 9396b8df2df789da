----------------------------- MODULE ServerConn -----------------------------
(***************************************************************************)
(* One connection of the 9P server (src/server/conn.go and dispatch.go):   *)
(* the read loop, one goroutine per request, the optional concurrency      *)
(* semaphore, Tflush, the fid table and the Files behind it.               *)
(*                                                                         *)
(* A request is named by the order in which the read loop read it: request *)
(* 1 is the Tversion of the handshake.  An openFile and a File are named   *)
(* by the request that created them; 0 stands for nil.  What a backend     *)
(* call returns is chosen freely, a File it has handed out before          *)
(* included; WHEN it returns is the step that follows it, so a slow or     *)
(* stuck FileSystem is one whose step is not taken.                        *)
(***************************************************************************)
EXTENDS Naturals, Sequences, FiniteSets

CONSTANTS
    Tags,                   \* the tags the client draws from
    NoTag,                  \* p9.NoTag, one of Tags: the tag of Tversion
    Fids,                   \* the fids the client draws from
    Messages,               \* the T-messages the client may send
    MaxReqs,                \* bound on the messages of one connection
    MaxConcurrentRequests,  \* Server.MaxConcurrentRequests; 0 is unlimited
    Cloner,                 \* whether the backend's Files implement Cloner
    TagReuse,               \* whether the client reuses the tag of a
                            \* finished request (every conforming client
                            \* may; callMux does after 65535 calls)
    Failures                \* whether the transport may fail

\* The messages whose handler looks a fid up (getFid), those whose handler
\* takes it out of the table (delFid), and those that only pass a call on
\* to the File.
FileIO   == {"Topen", "Tread", "Twrite", "Tstat", "Twstat"}
GetsFid  == FileIO \cup {"Twalk", "Tcreate"}
DelsFid  == {"Tclunk", "Tremove"}
OwnType  == {"Tversion", "Tattach", "Tflush"}

\* Tauth, and an R-message or a T-message the dispatcher does not know.
Refused  == {"Tauth", "Tunexpected"}

Reqs     == 1..MaxReqs
Dialects == {"9P2000", "9P2000.u"}

\* The fields of each message: Tattach and the fid messages name a fid, Twalk
\* also a new fid and a number of names, Tflush a tag, Tversion a version
\* ("other" for one the server does not speak).
MessageOK(m) ==
    /\ m.type \in GetsFid \cup DelsFid \cup OwnType \cup Refused
    /\ m.type \in GetsFid \cup DelsFid \cup {"Tattach"} => m.fid \in Fids
    /\ m.type = "Twalk" => m.newfid \in Fids /\ m.names \in Nat
    /\ m.type = "Tflush" => m.oldtag \in Tags
    /\ m.type = "Tversion" => m.version \in Dialects \cup {"other"}

ASSUME MessagesAssumption == \A m \in Messages : MessageOK(m)
ASSUME NoTagAssumption == NoTag \in Tags
ASSUME MaxReqsAssumption == MaxReqs \in Nat \ {0}
ASSUME ConcurrencyAssumption == MaxConcurrentRequests \in Nat
ASSUME FlagsAssumption == {Cloner, TagReuse, Failures} \subseteq BOOLEAN

VARIABLES
    phase,      \* how far serve has got
    unix,       \* conn.unix: whether 9P2000.u was negotiated
    recv,       \* the requests read so far: tag, message, and the requests
                \* already answered when it was read (for the client's view)
    pc,         \* where each request's goroutine is
    cancelled,  \* whether each request's ctx is done
    slot,       \* tookSlot: whether the goroutine holds a place in sem
    sem,        \* the number of tokens in the sem channel
    inflight,   \* conn.inflight: the request whose cancel each tag maps to
    fids,       \* conn.fids: the openFile behind each fid
    ofile,      \* openFile.file of the openFile each request created
    of,         \* the openFile each handler looked up
    file,       \* the File each handler works on
    res,        \* the outcome dispatch returned
    out,        \* the dialect the reply was written in, or "none"
    closes,     \* how often Close was called on the File each request created
    shared      \* the Files the backend has handed out more than once

netVars  == <<phase, unix, recv>>
ctxVars  == <<cancelled, slot, sem, inflight>>
fidVars  == <<fids, ofile, closes, shared>>
goVars   == <<pc, of, file, res, out>>
vars     == <<netVars, ctxVars, fidVars, goVars>>

Read     == 1..Len(recv)
Msg(r)   == recv[r].msg
Is(r, T) == r \in Read /\ Msg(r).type \in T

NetTypeOK ==
    /\ phase \in {"hello", "serving", "broken", "closed"}
    /\ unix \in BOOLEAN
    /\ recv \in Seq([tag : Tags, msg : Messages, seen : SUBSET Reqs])
    /\ Len(recv) <= MaxReqs

CtxTypeOK ==
    /\ cancelled \in [Reqs -> BOOLEAN]
    /\ slot \in [Reqs -> BOOLEAN]
    /\ sem \in 0..MaxConcurrentRequests
    /\ inflight \in [Tags -> 0..MaxReqs]

FidTypeOK ==
    /\ fids \in [Fids -> 0..MaxReqs]
    /\ ofile \in [Reqs -> 0..MaxReqs]
    /\ closes \in [Reqs -> Nat]
    /\ shared \subseteq 0..MaxReqs

GoTypeOK ==
    /\ pc \in [Reqs -> {"unread", "queued", "running", "found", "file",
                        "reply", "cleanup", "done", "dropped"}]
    /\ of \in [Reqs -> 0..MaxReqs]
    /\ file \in [Reqs -> 0..MaxReqs]
    /\ res \in [Reqs -> {"none", "ok", "err", "unknown"}]
    /\ out \in [Reqs -> Dialects \cup {"none"}]

\* The type invariant.  Beyond the sets the variables range over it says that
\* sem never holds more tokens than its capacity nor goes below zero, through
\* dispatchOne's acquisition and handle's release.
TypeOK == NetTypeOK /\ CtxTypeOK /\ FidTypeOK /\ GoTypeOK

Init ==
    /\ phase = "hello"
    /\ unix = FALSE
    /\ recv = <<>>
    /\ pc = [r \in Reqs |-> "unread"]
    /\ cancelled = [r \in Reqs |-> FALSE]
    /\ slot = [r \in Reqs |-> FALSE]
    /\ sem = 0
    /\ inflight = [t \in Tags |-> 0]
    /\ fids = [f \in Fids |-> 0]
    /\ ofile = [r \in Reqs |-> 0]
    /\ of = [r \in Reqs |-> 0]
    /\ file = [r \in Reqs |-> 0]
    /\ res = [r \in Reqs |-> "none"]
    /\ out = [r \in Reqs |-> "none"]
    /\ closes = [r \in Reqs |-> 0]
    /\ shared = {}

-----------------------------------------------------------------------------
(***************************************************************************)
(* The client's side of the contract (9P2000, intro(5), flush(5) and       *)
(* version(5)): a tag is not reused while a request under it is            *)
(* unanswered, unflushed and not aborted by a Tversion, nor while a Tflush *)
(* naming it is unanswered.  A Tversion goes under NoTag, at any time,     *)
(* requests in flight or not, and the client waits for its Rversion.       *)
(***************************************************************************)
Answered(r) == out[r] # "none"

\* The request a Tflush is about: the last one read before it under oldtag.
Target(fl) ==
    LET S == {r \in 1..(fl - 1) : recv[r].tag = Msg(fl).oldtag}
    IN  IF S = {} THEN 0 ELSE CHOOSE r \in S : \A q \in S : q <= r

\* The Tflush messages read for request r, and whether one was answered.
FlushesOf(r) == {fl \in Read : Is(fl, {"Tflush"}) /\ Target(fl) = r}
Flushed(r)   == \E fl \in FlushesOf(r) : Answered(fl)

\* A Tversion read after r was answered: for the client, r is aborted.
Aborted(r) == \E v \in Read : v > r /\ Is(v, {"Tversion"}) /\ Answered(v)

Outstanding(r) == ~Answered(r) /\ ~Flushed(r) /\ ~Aborted(r)

TagFree(t) ==
    /\ \A r \in Read :
          recv[r].tag = t => ~Outstanding(r) /\ (TagReuse \/ t = NoTag)
    /\ \A fl \in Read : Is(fl, {"Tflush"}) /\ Msg(fl).oldtag = t => Answered(fl)

ClientMaySend(t, m) ==
    /\ TagFree(t)
    /\ \A r \in Read : Is(r, {"Tversion"}) => Answered(r)
    /\ m.type = "Tflush" => \E r \in Read : recv[r].tag = m.oldtag

Request(t, m) == [tag |-> t, msg |-> m, seen |-> {r \in Read : Answered(r)}]

-----------------------------------------------------------------------------
(***************************************************************************)
(* What several steps share.                                               *)
(***************************************************************************)
Dialect(u) == IF u THEN "9P2000.u" ELSE "9P2000"

\* dispatch returns a reply of kind v.
Return(r, v) ==
    /\ pc' = [pc EXCEPT ![r] = "reply"]
    /\ res' = [res EXCEPT ![r] = v]

\* putFid(f, &openFile{file: x}): the openFile is new, whatever f named before.
putFid(r, f, x) ==
    /\ fids' = [fids EXCEPT ![f] = r]
    /\ ofile' = [ofile EXCEPT ![r] = x]

-----------------------------------------------------------------------------
(***************************************************************************)
(* Faulty variants: slips this code could plausibly have.  They are no     *)
(* part of Spec; each is used to show that a property below would notice.  *)
(***************************************************************************)

\* A dialect once switched on is never switched off.
tVersionKeepsUnix(m) ==
    /\ fids' = [f \in Fids |-> 0]
    /\ unix' = (unix \/ m.version = "9P2000.u")

\* The read loop starts the goroutine without recording its cancel function.
serveReadUnrecorded(t, m) ==
    /\ phase \in {"serving", "broken"}
    /\ Len(recv) < MaxReqs
    /\ ClientMaySend(t, m)
    /\ recv' = Append(recv, Request(t, m))
    /\ pc' = [pc EXCEPT ![Len(recv) + 1] = "queued"]
    /\ UNCHANGED <<phase, unix, ctxVars, fidVars, of, file, res, out>>

\* Every request without a fid is let past the semaphore as Tflush is; or none.
ExemptNoFid(r)   == MaxConcurrentRequests = 0 \/ ~Is(r, GetsFid \cup DelsFid)
ExemptNothing(r) == MaxConcurrentRequests = 0

\* A request is given up because the connection is at its cap, not because it
\* was flushed.
dropWhenFull(r) ==
    /\ pc[r] = "queued"
    /\ MaxConcurrentRequests # 0 /\ ~Is(r, {"Tflush"})
    /\ sem = MaxConcurrentRequests
    /\ pc' = [pc EXCEPT ![r] = "dropped"]
    /\ inflight' = [inflight EXCEPT ![recv[r].tag] = 0]
    /\ UNCHANGED <<netVars, cancelled, slot, sem, fidVars, of, file, res, out>>

\* The ctx is looked at only once a slot is free.
dropAfterSlot(r) ==
    /\ pc[r] = "queued"
    /\ MaxConcurrentRequests # 0 /\ ~Is(r, {"Tflush"})
    /\ cancelled[r] /\ sem < MaxConcurrentRequests
    /\ pc' = [pc EXCEPT ![r] = "dropped"]
    /\ inflight' = [inflight EXCEPT ![recv[r].tag] = 0]
    /\ UNCHANGED <<netVars, cancelled, slot, sem, fidVars, of, file, res, out>>

\* Tclunk and Tremove look the fid up and leave it in the table.
delFidKeeps(r) ==
    /\ pc[r] = "running" /\ Is(r, DelsFid)
    /\ fids[Msg(r).fid] # 0
    /\ of' = [of EXCEPT ![r] = fids[Msg(r).fid]]
    /\ pc' = [pc EXCEPT ![r] = "found"]
    /\ UNCHANGED <<netVars, ctxVars, fidVars, file, res, out>>

\* A zero-name walk shares the File whether or not it is a Cloner.
walkFilesShared(r) == IF Msg(r).names = 0 THEN {file[r]} ELSE {r}

\* A walk that fails releases the fid it started from.
tWalkReleasesOnError(r) ==
    /\ pc[r] = "file" /\ Is(r, {"Twalk"})
    /\ \/ Return(r, "ok") /\ putFid(r, Msg(r).newfid, r)
       \/ /\ Return(r, "err")
          /\ fids' = [fids EXCEPT ![Msg(r).fid] = 0] /\ UNCHANGED ofile
    /\ UNCHANGED <<netVars, ctxVars, closes, shared, of, file, out>>

\* A Close that fails puts the fid back.
tClunkRestores(r) ==
    /\ pc[r] = "file" /\ Is(r, DelsFid)
    /\ closes' = [closes EXCEPT ![file[r]] = @ + 1]
    /\ \/ Return(r, "ok") /\ UNCHANGED fids
       \/ Return(r, "err") /\ fids' = [fids EXCEPT ![Msg(r).fid] = of[r]]
    /\ UNCHANGED <<netVars, ctxVars, ofile, shared, of, file, out>>

\* The cleanup takes a token out of sem for every request, or for none.
handleCleanupAlways(r) ==
    /\ pc[r] = "cleanup"
    /\ cancelled' = [cancelled EXCEPT ![r] = TRUE]
    /\ inflight' = [inflight EXCEPT ![recv[r].tag] = 0]
    /\ slot' = [slot EXCEPT ![r] = FALSE]
    /\ sem' = sem - 1
    /\ pc' = [pc EXCEPT ![r] = "done"]
    /\ UNCHANGED <<netVars, fidVars, of, file, res, out>>

handleCleanupLeaks(r) ==
    /\ pc[r] = "cleanup"
    /\ cancelled' = [cancelled EXCEPT ![r] = TRUE]
    /\ inflight' = [inflight EXCEPT ![recv[r].tag] = 0]
    /\ slot' = [slot EXCEPT ![r] = FALSE]
    /\ pc' = [pc EXCEPT ![r] = "done"]
    /\ UNCHANGED <<netVars, sem, fidVars, of, file, res, out>>

-----------------------------------------------------------------------------
(***************************************************************************)
(* serve: the handshake and the read loop.                                 *)
(***************************************************************************)

\* What tVersion stores: an empty fid table (the Files are not closed) and
\* the dialect; every version but "9P2000.u" clears unix.
tVersionStores(m) ==
    /\ fids' = [f \in Fids |-> 0]
    /\ unix' = (m.version = "9P2000.u")

\* The first message is a Tversion: answered by the read loop itself, without
\* an inflight entry or a slot.
serveHello(t, m) ==
    /\ phase = "hello"
    /\ m.type = "Tversion"
    /\ recv' = <<Request(t, m)>>
    /\ tVersionStores(m)
    /\ pc' = [pc EXCEPT ![1] = "done"]
    /\ res' = [res EXCEPT ![1] = "ok"]
    /\ \/ phase' = "serving" /\ out' = [out EXCEPT ![1] = Dialect(unix')]
       \/ Failures /\ phase' = "closed" /\ UNCHANGED out
    /\ UNCHANGED <<ctxVars, ofile, closes, shared, of, file>>

\* The first message is something else: Rerror "expected Tversion", and serve
\* returns.
serveRefuse(t, m) ==
    /\ phase = "hello"
    /\ m.type # "Tversion"
    /\ recv' = <<Request(t, m)>>
    /\ pc' = [pc EXCEPT ![1] = "done"]
    /\ res' = [res EXCEPT ![1] = "err"]
    /\ phase' = "closed"
    /\ \/ out' = [out EXCEPT ![1] = Dialect(unix)]
       \/ Failures /\ UNCHANGED out
    /\ UNCHANGED <<unix, ctxVars, fidVars, of, file>>

\* One turn of the loop: the cancel function is in inflight before the
\* request's goroutine exists.
serveRead(t, m) ==
    /\ phase \in {"serving", "broken"}
    /\ Len(recv) < MaxReqs
    /\ ClientMaySend(t, m)
    /\ recv' = Append(recv, Request(t, m))
    /\ inflight' = [inflight EXCEPT ![t] = Len(recv) + 1]
    /\ pc' = [pc EXCEPT ![Len(recv) + 1] = "queued"]
    /\ UNCHANGED <<phase, unix, cancelled, slot, sem, fidVars, of, file, res, out>>

\* ReadMessage or Unmarshal fails (the peer hung up, or sent what is not a
\* message): serve returns and leaves the goroutines running.
serveEnds ==
    /\ Failures
    /\ phase # "closed"
    /\ phase' = "closed"
    /\ UNCHANGED <<unix, recv, ctxVars, fidVars, goVars>>

-----------------------------------------------------------------------------
(***************************************************************************)
(* dispatchOne: wait for a slot, unless there is no limit or it is Tflush. *)
(***************************************************************************)
Exempt(r) == MaxConcurrentRequests = 0 \/ Is(r, {"Tflush"})

dispatchNow(r) ==
    /\ pc[r] = "queued"
    /\ Exempt(r)
    /\ pc' = [pc EXCEPT ![r] = "running"]
    /\ UNCHANGED <<netVars, ctxVars, fidVars, of, file, res, out>>

\* case c.sem <- struct{}{}
acquireSlot(r) ==
    /\ pc[r] = "queued"
    /\ ~Exempt(r)
    /\ sem < MaxConcurrentRequests
    /\ sem' = sem + 1
    /\ slot' = [slot EXCEPT ![r] = TRUE]
    /\ pc' = [pc EXCEPT ![r] = "running"]
    /\ UNCHANGED <<netVars, cancelled, inflight, fidVars, of, file, res, out>>

\* case <-ctx.Done(): forgotten without a reply.
dropQueued(r) ==
    /\ pc[r] = "queued"
    /\ ~Exempt(r)
    /\ cancelled[r]
    /\ pc' = [pc EXCEPT ![r] = "dropped"]
    /\ inflight' = [inflight EXCEPT ![recv[r].tag] = 0]
    /\ UNCHANGED <<netVars, cancelled, slot, sem, fidVars, of, file, res, out>>

-----------------------------------------------------------------------------
(***************************************************************************)
(* dispatch: the handlers.  Where a handler takes a lock, calls the        *)
(* backend or takes another lock, other goroutines run in between: getFid  *)
(* or delFid, then openFile.get, then the backend call and what follows.   *)
(***************************************************************************)

\* Tauth and unknown messages: an Rerror, nothing else.
refuse(r) ==
    /\ pc[r] = "running" /\ Is(r, Refused)
    /\ Return(r, "err")
    /\ UNCHANGED <<netVars, ctxVars, fidVars, of, file, out>>

tVersion(r) ==
    /\ pc[r] = "running" /\ Is(r, {"Tversion"})
    /\ tVersionStores(Msg(r))
    /\ Return(r, "ok")
    /\ UNCHANGED <<phase, recv, ctxVars, ofile, closes, shared, of, file, out>>

tFlush(r) ==
    /\ pc[r] = "running" /\ Is(r, {"Tflush"})
    /\ LET q == inflight[Msg(r).oldtag]
       IN  cancelled' = IF q = 0 THEN cancelled
                                 ELSE [cancelled EXCEPT ![q] = TRUE]
    /\ Return(r, "ok")
    /\ UNCHANGED <<netVars, slot, sem, inflight, fidVars, of, file, out>>

\* The Files Attach, Walk or Create may return: a new one, or one handed out
\* before (a FileSystem may keep its root; clientFile.Walk of ".." returns
\* its receiver).
backendFiles(r) ==
    {r} \cup {x \in Reqs : \E q \in Reqs : x = ofile[q] \/ x = file[q]}

tAttach(r) ==
    /\ pc[r] = "running" /\ Is(r, {"Tattach"})
    /\ \/ \E x \in backendFiles(r) :
             /\ Return(r, "ok") /\ putFid(r, Msg(r).fid, x)
             /\ shared' = shared \cup ({x} \ {r})
       \/ Return(r, "err") /\ UNCHANGED <<fids, ofile, shared>>
    /\ UNCHANGED <<netVars, ctxVars, closes, of, file, out>>

getFid(r) ==
    /\ pc[r] = "running" /\ Is(r, GetsFid)
    /\ fids[Msg(r).fid] # 0
    /\ of' = [of EXCEPT ![r] = fids[Msg(r).fid]]
    /\ pc' = [pc EXCEPT ![r] = "found"]
    /\ UNCHANGED <<netVars, ctxVars, fidVars, file, res, out>>

delFid(r) ==
    /\ pc[r] = "running" /\ Is(r, DelsFid)
    /\ fids[Msg(r).fid] # 0
    /\ of' = [of EXCEPT ![r] = fids[Msg(r).fid]]
    /\ fids' = [fids EXCEPT ![Msg(r).fid] = 0]
    /\ pc' = [pc EXCEPT ![r] = "found"]
    /\ UNCHANGED <<netVars, ctxVars, ofile, closes, shared, file, res, out>>

\* A fid that is not in the table: Rerror "unknown fid", but Rclunk for Tclunk.
errUnknownFid(r) ==
    /\ pc[r] = "running" /\ Is(r, GetsFid \cup DelsFid)
    /\ fids[Msg(r).fid] = 0
    /\ Return(r, IF Is(r, {"Tclunk"}) THEN "ok" ELSE "unknown")
    /\ UNCHANGED <<netVars, ctxVars, fidVars, of, file, out>>

\* openFile.get
openFileGet(r) ==
    /\ pc[r] = "found"
    /\ file' = [file EXCEPT ![r] = ofile[of[r]]]
    /\ pc' = [pc EXCEPT ![r] = "file"]
    /\ UNCHANGED <<netVars, ctxVars, fidVars, of, res, out>>

\* The Files the new fid of a walk may get.  A zero-name walk clones, or without
\* Cloner shares the instance; any other gets what the last Walk returned.
walkFiles(r) ==
    IF Msg(r).names = 0 THEN {IF Cloner THEN r ELSE file[r]} ELSE backendFiles(r)

\* Clone is the one call that must return a File of its own.
cloned(r) == Msg(r).names = 0 /\ Cloner

\* The first name (or Clone) fails: Rerror.  A later one fails: the walk ends
\* there and newfid is bound all the same.
tWalk(r) ==
    /\ pc[r] = "file" /\ Is(r, {"Twalk"})
    /\ \/ \E x \in walkFiles(r) :
             /\ Return(r, "ok") /\ putFid(r, Msg(r).newfid, x)
             /\ shared' = IF cloned(r) THEN shared ELSE shared \cup ({x} \ {r})
       \/ /\ Msg(r).names > 0 \/ Cloner
          /\ Return(r, "err") /\ UNCHANGED <<fids, ofile, shared>>
    /\ UNCHANGED <<netVars, ctxVars, closes, of, file, out>>

\* Topen, Tread, Twrite, Tstat and Twstat pass the call on.
tFileIO(r) ==
    /\ pc[r] = "file" /\ Is(r, FileIO)
    /\ Return(r, "ok") \/ Return(r, "err")
    /\ UNCHANGED <<netVars, ctxVars, fidVars, of, file, out>>

\* Create or Symlink returns a File and openFile.set repositions the fid; the
\* File it named before is not closed.
tCreate(r) ==
    /\ pc[r] = "file" /\ Is(r, {"Tcreate"})
    /\ \/ \E x \in backendFiles(r) :
             /\ Return(r, "ok") /\ ofile' = [ofile EXCEPT ![of[r]] = x]
             /\ shared' = shared \cup ({x} \ {r})
       \/ Return(r, "err") /\ UNCHANGED <<ofile, shared>>
    /\ UNCHANGED <<netVars, ctxVars, fids, closes, of, file, out>>

\* Tclunk closes the File; Tremove removes it and closes it whether or not
\* Remove failed.
tClunkRemove(r) ==
    /\ pc[r] = "file" /\ Is(r, DelsFid)
    /\ closes' = [closes EXCEPT ![file[r]] = @ + 1]
    /\ Return(r, "ok") \/ Return(r, "err")
    /\ UNCHANGED <<netVars, ctxVars, fids, ofile, shared, of, file, out>>

-----------------------------------------------------------------------------
(***************************************************************************)
(* handle: the reply is written first, the deferred cleanup runs after it. *)
(***************************************************************************)
writeReply(r) ==
    /\ pc[r] = "reply"
    /\ phase # "broken"
    /\ out' = [out EXCEPT ![r] = Dialect(unix)]
    /\ pc' = [pc EXCEPT ![r] = "cleanup"]
    /\ UNCHANGED <<netVars, ctxVars, fidVars, of, file, res>>

\* The write fails: the connection is dead, and the read loop has yet to see it.
writeFails(r) ==
    /\ Failures
    /\ pc[r] = "reply"
    /\ phase' = IF phase = "serving" THEN "broken" ELSE phase
    /\ pc' = [pc EXCEPT ![r] = "cleanup"]
    /\ UNCHANGED <<unix, recv, ctxVars, fidVars, of, file, res, out>>

\* cancel(), delete(c.inflight, tag) whoever's entry it is, and <-c.sem.
handleCleanup(r) ==
    /\ pc[r] = "cleanup"
    /\ cancelled' = [cancelled EXCEPT ![r] = TRUE]
    /\ inflight' = [inflight EXCEPT ![recv[r].tag] = 0]
    /\ slot' = [slot EXCEPT ![r] = FALSE]
    /\ sem' = IF slot[r] THEN sem - 1 ELSE sem
    /\ pc' = [pc EXCEPT ![r] = "done"]
    /\ UNCHANGED <<netVars, fidVars, of, file, res, out>>

-----------------------------------------------------------------------------
Serve == \E t \in Tags, m \in Messages :
            /\ t = NoTag <=> m.type = "Tversion"
            /\ serveHello(t, m) \/ serveRefuse(t, m) \/ serveRead(t, m)

\* The steps of request r's goroutine outside the backend ...
Local(r) ==
    \/ dispatchNow(r) \/ acquireSlot(r) \/ dropQueued(r)
    \/ refuse(r) \/ tVersion(r) \/ tFlush(r)
    \/ getFid(r) \/ delFid(r) \/ errUnknownFid(r) \/ openFileGet(r)
    \/ writeReply(r) \/ writeFails(r) \/ handleCleanup(r)

\* ... and those that wait for a backend call to return.
Backend(r) ==
    tAttach(r) \/ tWalk(r) \/ tFileIO(r) \/ tCreate(r) \/ tClunkRemove(r)

Next == Serve \/ serveEnds \/ \E r \in Reqs : Local(r) \/ Backend(r)

Spec == Init /\ [][Next]_vars

-----------------------------------------------------------------------------
(***************************************************************************)
(* Safety.                                                                 *)
(***************************************************************************)
InHandler(r) == pc[r] \in {"running", "found", "file", "reply", "cleanup"}

\* At most MaxConcurrentRequests requests other than Tflush are dispatched
\* into the FileSystem at any moment (the doc of Server.MaxConcurrentRequests,
\* dispatchOne and the release in handle), whatever is flushed, dropped or
\* lost meanwhile.
SlotBound ==
    MaxConcurrentRequests > 0 =>
        Cardinality({r \in Reqs : InHandler(r) /\ ~Is(r, {"Tflush"})})
            <= MaxConcurrentRequests

\* Once tFlush has run, the ctx of the request the Tflush names is done if that
\* request is still being served, queued for a slot or in its handler
\* (server.go: "ctx is cancelled if the client sends a Tflush for the request
\* being served").
FlushReaches ==
    \A fl \in Read :
        (Is(fl, {"Tflush"}) /\ res[fl] = "ok" /\ Target(fl) # 0) =>
            \/ pc[Target(fl)] \notin {"queued", "running", "found", "file"}
            \/ cancelled[Target(fl)]

\* A File the backend handed out once is not closed while the fid table leads to
\* it: no order of attaches, walks, creates, clunks and removes on several fids
\* makes one fid close what another still names.  For a File the backend itself
\* returned twice, or shared because it has no Cloner, nothing is claimed.
FileLive ==
    \A f \in Fids : fids[f] # 0 =>
        ofile[fids[f]] \in shared \/ closes[ofile[fids[f]]] = 0

\* Such a File is not closed twice either, however many Tclunk and Tremove race
\* for one fid: delFid hands the openFile to one.
NoDoubleClose == \A x \in Reqs \ shared : closes[x] <= 1

\* A handler past its last backend call; the requests that took an openFile out
\* of the fid table; those of them that have got its File, and closed it.
After    == {"reply", "cleanup", "done"}
Taker(c) == Is(c, DelsFid) /\ of[c] # 0
Got(c)   == Taker(c) /\ pc[c] \in {"file"} \cup After
Closed(c) == Taker(c) /\ pc[c] \in After

\* Only a request past its handler has created an openFile or a File, and what
\* the table, an openFile or a handler refers to has been created.
Created ==
    /\ \A o \in Reqs : ofile[o] # 0 => pc[o] \in After /\ pc[ofile[o]] \in After
    /\ \A f \in Fids : fids[f] # 0 => ofile[fids[f]] # 0
    /\ \A r \in Reqs : of[r] # 0 =>
          ofile[of[r]] # 0 /\ pc[r] \in {"found", "file"} \cup After
    /\ \A r \in Reqs : file[r] # 0 => pc[file[r]] \in After
    /\ \A r \in Reqs : pc[r] = "file" \/ Got(r) => file[r] # 0

\* An openFile is in the table under one fid at most, and leaves it with one
\* taker only.
Exclusive ==
    /\ \A f, g \in Fids : fids[f] # 0 /\ fids[f] = fids[g] => f = g
    /\ \A c \in Reqs, f \in Fids : Taker(c) => fids[f] # of[c]
    /\ \A c, d \in Reqs : Taker(c) /\ Taker(d) /\ of[c] = of[d] => c = d

\* Of the Files handed out once: no two openFiles hold one; the File a taker
\* got is held by no other openFile and got by no other taker; a closed File was
\* closed once, by the taker that got it.
Separate ==
    /\ \A o, p \in Reqs :
          ofile[o] # 0 /\ ofile[o] \notin shared /\ ofile[o] = ofile[p] => o = p
    /\ \A c, o \in Reqs :
          Got(c) /\ file[c] \notin shared /\ ofile[o] = file[c] => o = of[c]
    /\ \A c, d \in Reqs :
          Got(c) /\ Got(d) /\ file[c] \notin shared /\ file[c] = file[d] => c = d
    /\ \A x \in Reqs \ shared :
          closes[x] # 0 => closes[x] = 1 /\ \E c \in Reqs : Closed(c) /\ file[c] = x

\* Every File the backend handed out once has one owner, which alone may close
\* it: the reason why FileLive and NoDoubleClose hold through every race of
\* getFid, delFid, openFile.get, openFile.set and Close.
OneOwner == Created /\ Exclusive /\ Separate

Establishes(o, f) ==
    \/ Is(o, {"Tattach"}) /\ Msg(o).fid = f
    \/ Is(o, {"Twalk"}) /\ Msg(o).newfid = f

Releases(c, f) == Is(c, {"Tversion"}) \/ (Is(c, DelsFid) /\ Msg(c).fid = f)

\* "unknown fid" is never a surprise: a request gets it only if no Tattach or
\* Twalk had been answered with that fid before the request was read, or if
\* some Tclunk, Tremove or Tversion that could have come after it freed the
\* fid.  In particular a failed walk, create or I/O leaves its fid alone.
EstablishedFidWorks ==
    \A r \in Read : res[r] = "unknown" =>
        \A o \in recv[r].seen :
            res[o] = "ok" /\ Establishes(o, Msg(r).fid) =>
                \E c \in Read \ {r} :
                    Releases(c, Msg(r).fid) /\ c \notin recv[o].seen

\* A fid that was released stays released: once a Tclunk or Tremove of f (with
\* or without an error from Close) or a Tversion has been answered, the table
\* never again maps f to an openFile whose request was answered before that
\* message was read.
ReleasedStaysReleased ==
    \A c \in Read, f \in Fids :
        Answered(c) /\ Releases(c, f) => fids[f] \notin recv[c].seen

\* The last Tversion read before r.
VersionOf(r) ==
    LET V == {v \in 1..(r - 1) : Is(v, {"Tversion"})}
    IN  CHOOSE v \in V : \A w \in V : w <= v

\* A request is answered in the dialect of the last Tversion before it, or of a
\* later one that was read while it was unanswered.  So although writeReply reads
\* conn.unix when the reply is written, and handlers from before a Tversion still
\* write after it, no reply to a request sent after a Tversion is in an older
\* dialect, flushed or not.
ReplyDialect ==
    \A r \in Read \ {1} :
        Answered(r) /\ ~Is(r, {"Tversion"}) =>
            \E v \in Read :
                /\ Is(v, {"Tversion"})
                /\ v = VersionOf(r) \/ (v > r /\ r \notin recv[v].seen)
                /\ out[r] = Dialect(Msg(v).version = "9P2000.u")

\* The fate of a request, and the requests that some Tflush names.
Fate(r) ==
    CASE r \notin Read -> "unread"
      [] r \in Read /\ Answered(r) -> "answered"
      [] r \in Read /\ pc[r] = "dropped" -> "withdrawn"
      [] r \in Read /\ ~Answered(r) /\ pc[r] \in {"cleanup", "done"} -> "lost"
      [] OTHER -> "pending"

FlushTargets == {Target(fl) : fl \in {q \in Read : Is(q, {"Tflush"})}}

\* The connection's requests meet the abstract contract of RequestContract:
\* one fate each, and unanswered on a working connection only when flushed.
Contract == INSTANCE RequestContract WITH
    st <- [r \in Reqs |-> Fate(r)],
    flushed <- FlushTargets,
    open <- phase \in {"hello", "serving"}

\* Every request keeps that contract, for every client that keeps its own.
ContractHolds == Contract!Spec

-----------------------------------------------------------------------------
(***************************************************************************)
(* Liveness.                                                               *)
(***************************************************************************)

\* The Go scheduler runs every goroutine that can run.  The backend may hang.
FairSpec == Spec /\ \A r \in Reqs : WF_vars(Local(r))

\* Every backend call returns.
BackendReturns == \A r \in Reqs : WF_vars(Backend(r))

\* A Tflush is answered even when every slot is held by a request stuck in the
\* backend (dispatchOne's exemption), as long as the connection works.
FlushAnswered ==
    \A r \in Reqs :
        pc[r] = "queued" /\ Is(r, {"Tflush"}) ~> Answered(r) \/ phase # "serving"

\* A request waiting for a slot does not keep waiting once it was flushed, even
\* if no slot ever frees.
FlushedLeavesQueue ==
    \A r \in Reqs :
        pc[r] = "queued" /\ Flushed(r) ~> pc[r] # "queued"

\* If the backend's calls return, every request is answered, dropped because it
\* was flushed, or the connection is gone: slots are never leaked.
EveryRequestEnds ==
    BackendReturns =>
        \A r \in Reqs :
            pc[r] = "queued" ~> Answered(r) \/ pc[r] = "dropped" \/ phase # "serving"
=============================================================================
