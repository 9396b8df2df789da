------------------------------- MODULE FileIO -------------------------------
(***************************************************************************)
(* client.File (src/client/file.go) end to end: two goroutines read,       *)
(* write, seek and list through one Client, whose requests go over a       *)
(* Session to the handlers of src/server/dispatch.go and a MemFS behind    *)
(* them.                                                                   *)
(*                                                                         *)
(* A call is a series of rpcs: it begins with the first of them, and each  *)
(* reply it receives ends it or sends the next.  Nothing the others can    *)
(* see happens in between.  File.mu is held across an rpc only by Seek.    *)
(***************************************************************************)
EXTENDS Session, MemFS

CONSTANTS
    Nobody,    \* no goroutine
    Calls,     \* the calls goroutines may make, by what the scenario names
    MaxCalls   \* bound on the calls of a behaviour

\* The fids of the program: the root, the file, the directory it lists and a
\* clone of that to create entries through.
RootFid == 1
FileFid == 2
DirFid  == 3
MakeFid == 4

FileName == 1
LinkName == 3

\* The room kept for the header of a Tread or Twrite; 19 is one
\* without its count.
ioHeaderNoCount == 19
ioHeaderSize    == 24

VARIABLES
    fs,        \* memfs.FS
    fids,      \* conn.fids: the node of each fid
    offset,    \* File.offset
    mu,        \* who holds File.mu across an rpc
    pc, job,   \* where each goroutine is, and its call
    begun,     \* how many calls have begun
    opened,    \* how much of the program's start is done
    returned,  \* the bytes Read and Write have returned since the last Seek
    res        \* the last call that has ended

ioVars == <<fs, fids, offset, mu, pc, job, begun, opened, returned, res>>
vars   == <<sessionVars, ioVars>>

\* The program attaches, walks and opens before it starts any goroutine.
Start ==
    << Msg("Tattach", <<RootFid, 0, 2, 0>>),
       Msg("Twalk", <<RootFid, FileFid, <<FileName>> >>), Msg("Topen", <<FileFid, 2>>),
       Msg("Twalk", <<RootFid, DirFid, <<>> >>), Msg("Topen", <<DirFid, 0>>),
       Msg("Twalk", <<RootFid, MakeFid, <<>> >>) >>

Call(op, off, n, data, msg) == [op |-> op, off |-> off, n |-> n, data |-> data, msg |-> msg]
NoMsg     == Msg("none", <<>>)
ReadN(n)        == Call("Read", 0, n, <<>>, NoMsg)
ReadAtN(off, n) == Call("ReadAt", off, n, <<>>, NoMsg)
WriteB(b)       == Call("Write", 0, Len(b), b, NoMsg)
WriteAtB(off, b) == Call("WriteAt", off, Len(b), b, NoMsg)
SeekTo(off, whence) == Call("Seek", off, whence, <<>>, NoMsg)
ListDir         == Call("ReadDir", 0, 0, <<>>, NoMsg)
Rpc(m)          == Call("rpc", 0, 0, <<>>, m)

SeekStart   == 0
SeekCurrent == 1
SeekEnd     == 2

\* The requests that a program makes through the other methods of the client.
OtherRequests == {"Tauth", "Tattach", "Tflush", "Twalk", "Topen", "Tcreate", "Tclunk", "Tremove",
                  "Tstat", "Twstat"}

\* allocFid gives out each fid once, so no fid of the start is made again.
newFid(m) ==
    /\ type(m) = "Tattach" => arg(m)[1] \notin RootFid..MakeFid
    /\ type(m) = "Twalk"   => arg(m)[2] \notin RootFid..MakeFid

isCall(c) ==
    /\ c = Call(c.op, c.off, c.n, c.data, c.msg)
    /\ \/ c.op \in {"Read", "ReadAt"} /\ c.off \in Nat /\ c.n \in Nat
       \/ /\ c.op \in {"Write", "WriteAt"}
          /\ c.off \in Nat /\ c.data \in Seq(Int) /\ c.n = Len(c.data)
       \/ c.op = "Seek" /\ c.off \in Int /\ c.n \in {SeekStart, SeekCurrent, SeekEnd}
       \/ c = ListDir
       \/ c.op = "rpc" /\ isMessage(c.msg) /\ type(c.msg) \in OtherRequests /\ newFid(c.msg)

ASSUME CallsAssumption ==
    /\ MaxCalls \in Nat /\ Nobody \notin Procs
    /\ \A s \in Scenarios : /\ s.iounit \in Nat /\ s.target \in Nat /\ s.data \in Seq(Int)
                            /\ \A c \in Calls[s.calls] : isCall(c)

\* at: the offset the call started from; total: how far it has got; got: what
\* it has read; clean: no other call has changed the file, or the directory,
\* since it began; names: what the directory has held since.
NoJob == [call |-> ListDir, at |-> 0, total |-> 0, got |-> <<>>, clean |-> TRUE, names |-> {}]

\* The tree: one file and, if the scenario has one, a symlink.
tree0 ==
    LET f == Create(New, rootPath, FileName, FALSE)
        d == [f.fs EXCEPT ![f.val].data = sc.data]
    IN  IF sc.target = 0 THEN d ELSE Symlink(d, rootPath, LinkName, sc.target).fs

FileNode  == 2
children  == DOMAIN fs[rootPath].children
NoResult  == [job |-> NoJob, err |-> "nil", file |-> <<>>, dir |-> <<>>, up |-> TRUE]

\* The type invariant; a goroutine that waits has at most one message on its
\* way while readLoop runs, and File.mu is held only by one that waits for a Stat.
TypeOK ==
    /\ SessionTypeOK
    /\ \A n \in DOMAIN fs : \A s \in DOMAIN fs[n].children : fs[n].children[s] \in DOMAIN fs
    /\ \A f \in DOMAIN fids : fids[f] \in DOMAIN fs
    /\ offset \in Nat /\ begun \in 0..MaxCalls /\ opened \in 0..Len(Start)
    /\ mu # Nobody => pc[mu] = "wait" /\ job[mu].call.op = "Seek"
    /\ cl.reading => \A g \in Procs :
        LET here == {e \in ToSet(c2s) \cup work \cup s2c : e.tag = g}
        IN  Cardinality(here) <= IF pc[g] = "wait" THEN 1 ELSE 0

Init ==
    /\ SessionInit
    /\ fs = tree0 /\ fids = <<>>
    /\ offset = 0 /\ mu = Nobody /\ returned = 0
    /\ pc = [g \in Procs |-> "idle"] /\ job = [g \in Procs |-> NoJob]
    /\ begun = 0 /\ opened = 0 /\ res = NoResult

-----------------------------------------------------------------------------
(***************************************************************************)
(* The server's handlers, each with what it makes of the tree, the fids    *)
(* and its reply.                                                          *)
(***************************************************************************)

Handled(t, f, m) == [fs |-> t, fids |-> f, reply |-> m]
errReply(len)    == Handled(fs, fids, Msg("Rerror", <<len>>))
errUnknownFid    == errReply(11)

\* r is what the file system returned, f the fids and m the reply after it.
orError(r, f, m) == IF r.ok THEN Handled(r.fs, f, m) ELSE errReply(r.err)

bound(f, n)  == [x \in DOMAIN fids \cup {f} |-> IF x = f THEN n ELSE fids[x]]
unbound(f)   == [x \in DOMAIN fids \ {f} |-> fids[x]]

tAttach(m) ==
    Handled(fs, bound(arg(m)[1], rootPath), Msg("Rattach", <<Qid(fs, rootPath)>>))

\* A memfs file is not a Cloner; the walk stops where a name is not found.
tWalk(m) ==
    LET names == arg(m)[3]
        at[i \in 0..Len(names)] ==
            IF i = 0 THEN Result(fs, fids[arg(m)[1]])
            ELSE IF at[i - 1].ok THEN Walk(fs, at[i - 1].val, names[i]) ELSE at[i - 1]
        n == CHOOSE i \in 0..Len(names) : at[i].ok /\ (i = Len(names) \/ ~at[i + 1].ok)
    IN  IF n = 0 /\ names # <<>> THEN errReply(at[1].err)
        ELSE Handled(fs, bound(arg(m)[2], at[n].val),
                     Msg("Rwalk", <<[i \in 1..n |-> Qid(fs, at[i].val)]>>))

\* The models never ask for OTRUNC.  This server's iounit is always 0; another
\* kind of server may name one.
tOpen(m) ==
    LET r == Open(fs, fids[arg(m)[1]], FALSE)
    IN  orError(r, fids, Msg("Ropen", <<Qid(fs, fids[arg(m)[1]]), sc.iounit>>))

tCreate(m) ==
    LET n == fids[arg(m)[1]]
        r == IF sv.unix /\ arg(m)[3] = DMSYMLINK
             THEN Symlink(fs, n, arg(m)[2], arg(m)[5])
             ELSE Create(fs, n, arg(m)[2], arg(m)[3] = DMDIR)
    IN  IF r.ok THEN Handled(r.fs, bound(arg(m)[1], r.val),
                             Msg("Rcreate", <<Qid(r.fs, r.val), 0>>))
        ELSE errReply(r.err)

\* unix is the dialect in the request's context.
tRead(m, unix) ==
    LET r == Read(fs, fids[arg(m)[1]], arg(m)[2], arg(m)[3], unix)
    IN  IF r.ok THEN Handled(fs, fids, Msg("Rread", <<r.val>>)) ELSE errReply(r.err)

tWrite(m) ==
    LET r == Write(fs, fids[arg(m)[1]], arg(m)[2], [i \in DOMAIN arg(m)[3] |-> arg(m)[3][i].v])
    IN  IF r.ok THEN Handled(r.fs, fids, Msg("Rwrite", <<r.val>>)) ELSE errReply(r.err)

\* A memfs Close never fails, and a clunk of an unknown fid is no error.
tClunk(m) == Handled(fs, unbound(arg(m)[1]), Msg("Rclunk", <<>>))

tRemove(m) ==
    LET r == RemoveNode(fs, fids[arg(m)[1]])
    IN  [orError(r, fids, Msg("Rremove", <<>>)) EXCEPT !.fids = unbound(arg(m)[1])]

tStat(m) == Handled(fs, fids, Msg("Rstat", <<statLocked(fs, fids[arg(m)[1]])>>))

tWstat(m) ==
    LET r == WStat(fs, fids[arg(m)[1]], arg(m)[2]) IN orError(r, fids, Msg("Rwstat", <<>>))

\* The requests about a fid that the connection knows.
onFid(m, unix) ==
    CASE type(m) = "Twalk"   -> tWalk(m)
      [] type(m) = "Topen"   -> tOpen(m)
      [] type(m) = "Tcreate" -> tCreate(m)
      [] type(m) = "Tread"   -> tRead(m, unix)
      [] type(m) = "Twrite"  -> tWrite(m)
      [] type(m) = "Tremove" -> tRemove(m)
      [] type(m) = "Tstat"   -> tStat(m)
      [] type(m) = "Twstat"  -> tWstat(m)

\* conn.dispatch.  memfs ignores its context, so a Tflush changes nothing.
dispatch(m, unix) ==
    CASE type(m) = "Tauth"   -> errReply(27)
      [] type(m) = "Tattach" -> tAttach(m)
      [] type(m) = "Tflush"  -> Handled(fs, fids, Msg("Rflush", <<>>))
      [] type(m) = "Tclunk"  -> tClunk(m)
      [] OTHER -> IF arg(m)[1] \in DOMAIN fids THEN onFid(m, unix) ELSE errUnknownFid

\* Some handler runs and replies.  It goes on when the connection is closed.
Handle ==
    \E q \in work :
        LET h == dispatch(q.msg, q.unix)
            kids(t) == DOMAIN t[rootPath].children
        IN  /\ fs' = h.fs /\ fids' = h.fids
            /\ work' = work \ {q}
            /\ writeReply(q.tag, h.reply, sv.unix)
            /\ job' = [g \in Procs |->
                        [job[g] EXCEPT
                            !.names = @ \cup kids(h.fs),
                            !.clean = @ /\ \/ g = q.tag
                                           \/ /\ h.fs[FileNode].data = fs[FileNode].data
                                              /\ kids(h.fs) = kids(fs)]]
            /\ UNCHANGED <<sc, cl, sv, c2s, lost, offset, mu, pc, begun, opened, returned, res>>

-----------------------------------------------------------------------------
(***************************************************************************)
(* client.File.                                                            *)
(***************************************************************************)

\* File.maxIO
maxIO ==
    LET max == cl.msize - ioHeaderSize
        m   == IF sc.iounit > 0 /\ sc.iounit < max THEN sc.iounit ELSE max
    IN  IF m <= 0 THEN 1 ELSE m

\* The chunk of the loops of readAt and writeAt, and of Read.
chunk(j) == least(j.call.n - j.total, maxIO)

\* The request the call sends next.
request(j) ==
    LET c == j.call IN
    CASE c.op \in {"Read", "ReadAt"} -> Msg("Tread", <<FileFid, j.at + j.total, chunk(j)>>)
      [] c.op \in {"Write", "WriteAt"} ->
            Msg("Twrite", <<FileFid, j.at + j.total,
                            [i \in 1..chunk(j) |-> Cell(1, c.data[j.total + i])]>>)
      [] c.op = "Seek"    -> Msg("Tstat", <<FileFid>>)
      [] c.op = "ReadDir" -> Msg("Tread", <<DirFid, j.total, maxIO>>)
      [] c.op = "rpc"     -> c.msg

\* rpc of a call that is at j.
rpc(g, j) ==
    /\ pc' = [pc EXCEPT ![g] = "wait"]
    /\ job' = [job EXCEPT ![g] = j]
    /\ write(g, request(j))

\* The call of g ends at j with err; a Seek's total is where it got to.
end(g, j, err) ==
    /\ pc' = [pc EXCEPT ![g] = "idle"]
    /\ returned' = CASE j.call.op \in {"Read", "Write"} -> returned + j.total
                     [] j.call.op = "Seek" /\ err = "nil" -> j.total
                     [] OTHER -> returned
    /\ job' = [job EXCEPT ![g] = NoJob]
    /\ res' = [job |-> j, err |-> err, file |-> fs[FileNode].data,
               dir |-> listing(fs, rootPath), up |-> cl.reading]

\* A store of where the call itself got to, computed from the offset it read.
advanceFrom(g, j, err) ==
    /\ mu = Nobody
    /\ offset' = j.at + j.total
    /\ end(g, j, err) /\ UNCHANGED mu

\* Read and Write end by moving the offset, under mu.
advance(g, j, err) ==
    /\ mu = Nobody
    /\ offset' = offset + j.total
    /\ end(g, j, err) /\ UNCHANGED mu

\* An error path that forgets the lock.
soughtKeeps(g, j, ok, newOff) ==
    IF ok /\ newOff >= 0
    THEN mu' = Nobody /\ offset' = newOff /\ end(g, [j EXCEPT !.total = newOff], "nil")
    ELSE UNCHANGED <<offset, mu>> /\ end(g, j, "error")

\* Seek ends, at newOff or with an error.
sought(g, j, ok, newOff) ==
    /\ mu' = Nobody
    /\ IF ok /\ newOff >= 0
       THEN offset' = newOff /\ end(g, [j EXCEPT !.total = newOff], "nil")
       ELSE UNCHANGED offset /\ end(g, j, "error")

\* Any other call ends.
finish(g, j, err) == end(g, j, err) /\ UNCHANGED <<offset, mu>>

\* A call is made.  Seek takes mu, and keeps it if it needs the length; Read
\* and Write take it to look at the offset.  The loops of readAt and writeAt do
\* nothing for an empty buffer.
Begin(g, c) ==
    LET j == [NoJob EXCEPT !.call = c, !.names = children,
                           !.at = IF c.op \in {"Read", "Write"} THEN offset ELSE c.off]
    IN  /\ pc[g] = "idle" /\ opened = Len(Start)
        /\ begun < MaxCalls /\ begun' = begun + 1
        /\ c.op \in {"Read", "Write", "Seek"} => mu = Nobody
        /\ IF c.op = "Seek" /\ c.n # SeekEnd
           THEN /\ sought(g, j, TRUE, IF c.n = SeekStart THEN c.off ELSE offset + c.off)
                /\ UNCHANGED c2s
           ELSE IF c.op \in {"ReadAt", "Write", "WriteAt"} /\ c.n = 0
           THEN finish(g, j, "nil") /\ UNCHANGED c2s
           ELSE IF ~cl.reading
           THEN finish(g, j, "error") /\ UNCHANGED c2s
           ELSE /\ rpc(g, j)
                /\ mu' = IF c.op = "Seek" THEN g ELSE mu
                /\ UNCHANGED <<offset, returned, res>>
        /\ UNCHANGED <<sc, cl, sv, work, s2c, lost, fs, fids, opened>>

\* A reply to Read: copy(p, rr.Data).
readReply(g, j, m) ==
    LET n == least(chunk(j), Size(arg(m)[1]))
        k == [j EXCEPT !.total = n, !.got = cut(arg(m)[1], n)[1]]
    IN  IF type(m) = "Rread" THEN advance(g, k, IF n = 0 THEN "EOF" ELSE "nil")
        ELSE finish(g, j, "error")

\* A short read taken for a whole one.
readAtReplyShort(g, j, m) ==
    LET n == least(chunk(j), Size(arg(m)[1]))
        k == [j EXCEPT !.total = @ + n, !.got = @ \o cut(arg(m)[1], n)[1]]
    IN  IF type(m) # "Rread" THEN finish(g, j, "error") /\ UNCHANGED c2s
        ELSE IF n < chunk(j) \/ k.total >= k.call.n THEN finish(g, k, "nil") /\ UNCHANGED c2s
        ELSE rpc(g, k) /\ UNCHANGED <<offset, returned, mu, res>>

\* The body of readAt's loop.
readAtReply(g, j, m) ==
    LET n == least(chunk(j), Size(arg(m)[1]))
        k == [j EXCEPT !.total = @ + n, !.got = @ \o cut(arg(m)[1], n)[1]]
    IN  IF type(m) # "Rread" THEN finish(g, j, "error") /\ UNCHANGED c2s
        ELSE IF n < chunk(j) THEN finish(g, k, "EOF") /\ UNCHANGED c2s
        ELSE IF k.total >= k.call.n THEN finish(g, k, "nil") /\ UNCHANGED c2s
        ELSE rpc(g, k) /\ UNCHANGED <<offset, returned, mu, res>>

\* The body of writeAt's loop, and what Write does after it.
leaveWrite(g, j, err) == IF j.call.op = "Write" THEN advance(g, j, err) ELSE finish(g, j, err)

writeAtReply(g, j, m) ==
    LET k == [j EXCEPT !.total = @ + arg(m)[1]]
    IN  IF type(m) # "Rwrite" \/ arg(m)[1] = 0 THEN leaveWrite(g, j, "error") /\ UNCHANGED c2s
        ELSE IF k.total >= k.call.n THEN leaveWrite(g, k, "nil") /\ UNCHANGED c2s
        ELSE rpc(g, k) /\ UNCHANGED <<offset, returned, mu, res>>

seekReply(g, j, m) ==
    /\ IF type(m) = "Rstat" THEN sought(g, j, TRUE, arg(m)[1][7] + j.call.off)
       ELSE sought(g, j, FALSE, 0)
    /\ UNCHANGED c2s

\* The entries in a reply to ReadDir, up to the first that is not one.
entry(d, unix) ==
    LET size  == uint(decoder(d.buf), 2)
        total == 2 + num(size)
        p     == cut(d.buf, total)
        st    == UnmarshalStatVersion(p[1], unix)
    IN  IF d.buf = <<>> \/ ~d.ok THEN d
        ELSE IF ~size.ok \/ total > Size(d.buf) THEN [d EXCEPT !.ok = FALSE]
        ELSE IF ~st.ok THEN [d EXCEPT !.ok = FALSE]
        ELSE [d EXCEPT !.buf = p[2], !.vals = Append(@, st.stat)]

entries(data, unix) ==
    LET go[i \in 0..Len(data)] == IF i = 0 THEN decoder(data) ELSE entry(go[i - 1], unix)
    IN  go[Len(data)]

\* Reading on from what was asked for instead of from what came.
readDirReplyByCount(g, j, m) ==
    LET d == entries(arg(m)[1], cl.unix)
        k == [j EXCEPT !.got = @ \o d.vals, !.total = @ + maxIO]
    IN  IF type(m) # "Rread" THEN finish(g, j, "error") /\ UNCHANGED c2s
        ELSE IF arg(m)[1] = <<>> THEN finish(g, j, "nil") /\ UNCHANGED c2s
        ELSE IF ~d.ok THEN finish(g, k, "error") /\ UNCHANGED c2s
        ELSE rpc(g, k) /\ UNCHANGED <<offset, returned, mu, res>>

\* The body of ReadDir's loop.
readDirReply(g, j, m) ==
    LET d == entries(arg(m)[1], cl.unix)
        k == [j EXCEPT !.got = @ \o d.vals, !.total = @ + Size(arg(m)[1])]
    IN  IF type(m) # "Rread" THEN finish(g, j, "error") /\ UNCHANGED c2s
        ELSE IF arg(m)[1] = <<>> THEN finish(g, j, "nil") /\ UNCHANGED c2s
        ELSE IF ~d.ok THEN finish(g, k, "error") /\ UNCHANGED c2s
        ELSE rpc(g, k) /\ UNCHANGED <<offset, returned, mu, res>>

otherReply(g, j, m) ==
    finish(g, j, IF type(m) = "Rerror" THEN "error" ELSE "nil") /\ UNCHANGED c2s

\* readLoop delivers g's reply, and its call goes on or ends.
Receive(g) ==
    /\ pc[g] = "wait" /\ opened = Len(Start)
    /\ \E e \in s2c :
        /\ e.tag = g
        /\ LET r  == Received(e, cl.limit, cl.unix)
               op == job[g].call.op
           IN  /\ deliver(e, r)
               /\ \/ op = "Read" /\ readReply(g, job[g], r.msg) /\ UNCHANGED c2s
                  \/ op = "ReadAt" /\ readAtReply(g, job[g], r.msg)
                  \/ op \in {"Write", "WriteAt"} /\ writeAtReply(g, job[g], r.msg)
                  \/ op = "Seek" /\ seekReply(g, job[g], r.msg)
                  \/ op = "ReadDir" /\ readDirReply(g, job[g], r.msg)
                  \/ op = "rpc" /\ otherReply(g, job[g], r.msg)
    /\ UNCHANGED <<sc, cl, sv, work, fs, fids, begun, opened>>

\* readLoop has ended: the call fails.
Fail(g) ==
    /\ pc[g] = "wait" /\ ~cl.reading
    /\ CASE job[g].call.op \in {"Write", "WriteAt"} -> leaveWrite(g, job[g], "error")
         [] job[g].call.op = "Seek" -> sought(g, job[g], FALSE, 0)
         [] OTHER -> finish(g, job[g], "error")
    /\ UNCHANGED <<sessionVars, fs, fids, begun, opened>>

\* The program's start, one rpc after the other.
Starting ==
    /\ cl.pc = "up" /\ opened < Len(Start)
    /\ \E g \in Procs :
        \/ /\ \A h \in Procs : pc[h] = "idle"
           /\ cl.reading
           /\ rpc(g, [NoJob EXCEPT !.call = Rpc(Start[opened + 1])])
           /\ UNCHANGED <<sc, cl, sv, work, s2c, lost, opened>>
        \/ /\ pc[g] = "wait"
           /\ \E e \in s2c : LET r == Received(e, cl.limit, cl.unix)
                             IN  deliver(e, r) /\ type(r.msg) # "Rerror"
           /\ pc' = [pc EXCEPT ![g] = "idle"]
           /\ opened' = opened + 1
           /\ UNCHANGED <<sc, cl, sv, c2s, work, job>>
    /\ UNCHANGED <<fs, fids, offset, mu, begun, returned, res>>

\* Nothing is left to do.
Finished ==
    /\ \A g \in Procs : pc[g] = "idle"
    /\ \/ cl.pc = "failed" \/ begun = MaxCalls \/ ~cl.reading
    /\ UNCHANGED vars

SessionStep == (NewClient \/ ReadVersion \/ ReadFails \/ Serve) /\ UNCHANGED ioVars

Next ==
    \/ SessionStep
    \/ Handle
    \/ Starting
    \/ \E g \in Procs : \/ \E c \in Calls[sc.calls] : Begin(g, c)
                        \/ Receive(g)
                        \/ Fail(g)
    \/ Finished

Spec == Init /\ [][Next]_vars

-----------------------------------------------------------------------------
ByteSeq(cells) == [i \in DOMAIN cells |-> cells[i].v]

\* No request or reply of file I/O is larger than the receiver takes, for any
\* message size but the ones between 1 and 23: maxIO leaves room for the header
\* of a Twrite, and at 24, where it has none left for data, for one byte more.
IOFits ==
    cl.pc = "up" /\ (cl.msize = 0 \/ cl.msize >= 24) =>
        \A e \in ToSet(c2s) \cup s2c :
            type(e.msg) \in {"Tread", "Twrite", "Rread", "Rwrite"} =>
                /\ ReadMessage(raw(e), sv.msize)
                /\ ReadMessage(raw(e), cl.msize)

\* What a call returns is what the file held while nobody else changed it,
\* over however many messages.  ReadAt: all that was asked for, or up to the
\* end and EOF.  Read: as much as fits one message, EOF only at the end or for an
\* empty buffer.  Write and WriteAt: the bytes they say they wrote are in the file.
IOExact ==
    LET j == res.job  c == j.call  have == Len(res.file) - j.at IN
    j.clean =>
        /\ c.op \in {"Read", "ReadAt"} =>
            /\ ByteSeq(j.got) = SubSeq(res.file, j.at + 1, j.at + j.total)
            /\ c.op = "ReadAt" /\ res.err = "nil" => j.total = c.n
            /\ c.op = "ReadAt" /\ res.err = "EOF" => j.total < c.n /\ have <= j.total
            /\ c.op = "Read" /\ res.err = "EOF"   => have <= 0 \/ c.n = 0
            /\ c.op = "Read" /\ res.err = "nil"   => j.total \in 1..c.n
        /\ c.op \in {"Write", "WriteAt"} =>
            /\ SubSeq(res.file, j.at + 1, j.at + j.total) = SubSeq(c.data, 1, j.total)
            /\ res.err = "nil" => j.total = c.n

\* The offset is where the last Seek put it plus every byte that Read and
\* Write have returned since, also when they overlap: none is counted twice
\* and none is forgotten.
OffsetAccounts == offset = returned

\* ReadDir returns the directory's entries, each once and in order, if the
\* directory did not change meanwhile, and fails only when an entry does not
\* fit a message or the connection was lost; if it did change, it still returns
\* nothing that was never there.
ReadDirComplete ==
    LET j == res.job
        names == [i \in DOMAIN j.got |-> j.got[i][8]]
        whole == [i \in DOMAIN res.dir |-> res.dir[i][8]]
        large == {i \in DOMAIN res.dir : Size(stat(res.dir[i], cl.unix)) > maxIO}
    IN  j.call = ListDir /\ res # NoResult =>
            /\ ToSet(names) \subseteq j.names
            /\ j.clean => IF res.err = "nil" THEN names = whole
                          ELSE IsPrefix(names, whole) /\ (large # {} \/ ~res.up)
=============================================================================
