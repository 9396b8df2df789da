---------------------------- MODULE RemoteMount ----------------------------
(***************************************************************************)
(* A remote 9P tree grafted with ns.FromFid (src/ns/fid.go): the handlers  *)
(* of a front server (src/server/dispatch.go) call clientFiles, each with  *)
(* a fid of its own at the remote server, and every call is a series of    *)
(* rpcs over one client connection.  Requests on one front fid run         *)
(* concurrently, may be flushed at any moment, and the remote server may   *)
(* refuse anything; the connection to it stays up.                         *)
(*                                                                         *)
(* The tree behind the remote server is left out: a walk finds all, some   *)
(* or none of its names.  A step is one rpc with what its caller does      *)
(* until the next one.                                                     *)
(***************************************************************************)
EXTENDS Integers, FiniteSets, SequencesExt

CONSTANTS
    Fids,         \* the front client's fids
    Names,        \* path elements
    Requests,     \* what it may ask for; see Begin
    Handlers,     \* goroutines of the front server
    Nobody,
    MaxRequests,  \* bound on the requests of a behaviour
    MaxDepth      \* longest path the remote tree has

Paths == Seq(Names)

\* What reaches a clientFile; Clone is a Twalk without names, Rename a Twstat with a
\* name, Use a Tstat, a Twrite or another Twstat.
Asked ==
    [op : {"Attach"}, newfid : Fids]
        \cup [op : {"Clone"}, fid : Fids, newfid : Fids]
        \cup [op : {"Walk"}, fid : Fids, newfid : Fids, names : Paths \ {<<>>}]
        \cup [op : {"Create", "Clunk", "Remove", "Use"}, fid : Fids]
        \cup [op : {"Open"}, fid : Fids, mode : {"OREAD", "OWRITE"}]
        \cup [op : {"Read"}, fid : Fids, off : Nat]
        \cup [op : {"Rename"}, fid : Fids, name : Names \ {".."}]

ASSUME NamesAssumption == "x" \in Names
ASSUME RequestsAssumption == Requests \subseteq Asked
ASSUME HandlersAssumption == Nobody \notin Handlers
ASSUME BoundsAssumption == MaxRequests \in Nat /\ MaxDepth \in Nat

VARIABLES
    ftab,     \* conn.fids of the front server: fid to openFile
    ofs,      \* the openFiles: their clientFile
    files,    \* the clientFiles
    offs,     \* the client.Files: their offset
    rtab,     \* the remote server's fids: where they are, whether open
    nfid,     \* the last remote fid given out
    pc, job,  \* where each handler is, and with what
    used,     \* how many requests there have been
    shared,   \* clientFiles that ".." has returned once more
    moved,    \* remote fids whose file a rename has moved since they were made
    dropped   \* remote fids that nobody will ever clunk

vars == <<ftab, ofs, files, offs, rtab, nfid, pc, job, used, shared, moved, dropped>>

\* clientFS.root, which is never clunked.
RootFid == 1

\* fid is f.fid, open the client.File or 0, mu who holds the lock.
clientFile(path, fid, open) == [path |-> path, fid |-> fid, open |-> open, mu |-> Nobody]

\* f.st.Qid.IsDir: names other than "x" and "y" are directories.
IsDir(path) == IF path = <<>> THEN TRUE ELSE Last(path) \notin {"x", "y"}

\* req: the request; of, cf: its openFile and clientFile; cur, i: how far a
\* Twalk has got; path, new: where the rpc goes and the remote fid it makes;
\* file, at: the client.File of a Tread and the offset it is read at; flushed: ctx
\* is done.
NoJob == [req |-> [op |-> "none"], of |-> 0, cf |-> 0, cur |-> 0, i |-> 0, path |-> <<>>, new |-> 0,
          file |-> 0, at |-> 0, flushed |-> FALSE]

Init ==
    /\ ftab = <<>> /\ ofs = <<>> /\ files = <<>> /\ offs = <<>>
    /\ rtab = [f \in {RootFid} |-> [path |-> <<>>, open |-> FALSE]] /\ nfid = RootFid
    /\ pc = [h \in Handlers |-> "idle"] /\ job = [h \in Handlers |-> NoJob]
    /\ used = 0 /\ shared = {} /\ moved = {} /\ dropped = {}

tables == <<ftab, ofs, files, offs>>
ghosts == <<shared, moved, dropped>>

goto(h, l)    == pc' = [pc EXCEPT ![h] = l]
return(h)     == goto(h, "idle") /\ job' = [job EXCEPT ![h] = NoJob]
file(h)       == files[job[h].cf]
drop(fids)    == dropped' = dropped \cup fids

\* A table with an entry put into it, or taken out.
with(t, f, v) == [x \in DOMAIN t \cup {f} |-> IF x = f THEN v ELSE t[x]]
without(t, f) == [x \in DOMAIN t \ {f} |-> t[x]]

Labels == {"idle", "name", "walk", "quiet", "stat", "lock", "open", "opened", "seek", "send", "read",
           "use", "rename", "clone", "create", "undo", "created", "get", "remove", "close"}

\* The type invariant: the tables refer to what there is, fids of the remote
\* server are given out once, and f.mu is held by a handler that is in an rpc
\* of Open or readable on that clientFile.
TypeOK ==
    /\ DOMAIN ftab \subseteq Fids /\ Range(ftab) \subseteq DOMAIN ofs
    /\ Range(ofs) \subseteq DOMAIN files
    /\ \A c, d \in DOMAIN files : files[c].fid = files[d].fid => c = d
    /\ \A c \in DOMAIN files :
        /\ files[c].fid \in 2..nfid /\ files[c].open \in 0..Len(offs)
        /\ files[c].mu # Nobody =>
                pc[files[c].mu] \in {"open", "opened"} /\ job[files[c].mu].cf = c
    /\ \A h \in Handlers : pc[h] = "open" => file(h).mu = h
    /\ DOMAIN rtab \cup moved \cup dropped \subseteq 1..nfid /\ shared \subseteq DOMAIN files
    /\ pc \in [Handlers -> Labels] /\ used \in 0..MaxRequests

\* The clientFiles that fids name.
Named(ft, of) == {of[ft[f]] : f \in DOMAIN ft}

\* conn.putFid of a new openFile.  What the fid named before is not closed.
putFid(fid, cf) ==
    /\ ofs' = Append(ofs, cf)
    /\ ftab' = with(ftab, fid, Len(ofs'))
    /\ drop({files[c].fid : c \in Named(ftab, ofs) \ Named(ftab', ofs')})

-----------------------------------------------------------------------------
(***************************************************************************)
(* An rpc to the remote server.                                            *)
(***************************************************************************)

\* What an rpc under ctx may come to: ok; refused; and after a flush lost,
\* which the remote server carries out although the call has failed.
rpc(h, fid, out) ==
    /\ out = "ok" => fid \in DOMAIN rtab
    /\ out = "lost" => job[h].flushed /\ fid \in DOMAIN rtab
    /\ out \in {"ok", "refused", "lost"}

\* One without ctx, which nothing interrupts.
rpcBackground(fid, out) == out = "refused" \/ (out = "ok" /\ fid \in DOMAIN rtab)

reached(fid, path, open) == rtab' = with(rtab, fid, [path |-> path, open |-> open])

-----------------------------------------------------------------------------
(***************************************************************************)
(* The front server takes a request.                                       *)
(***************************************************************************)

\* The clientFile's own method begins where Label says.
Label ==
    [Attach |-> "walk", Walk |-> "name", Clone |-> "walk", Open |-> "lock", Read |-> "lock",
     Create |-> "clone", Clunk |-> "get", Remove |-> "get", Use |-> "use",
     Rename |-> "rename"]

\* A fid to be established is not in use, or the walk is in place.
Establishes(r) ==
    "newfid" \in DOMAIN r =>
        \/ r.op = "Walk" /\ r.newfid = r.fid
        \/ /\ r.newfid \notin DOMAIN ftab
           /\ \A h \in Handlers : "newfid" \in DOMAIN job[h].req => job[h].req.newfid # r.newfid

Begin(h, r) ==
    LET known == r.op # "Attach"
        of    == IF known THEN ftab[r.fid] ELSE 0
        cf    == IF known THEN ofs[of] ELSE 0
        path  == IF r.op = "Clone" THEN files[cf].path ELSE <<>>
    IN  /\ pc[h] = "idle" /\ used < MaxRequests
        /\ known => r.fid \in DOMAIN ftab
        /\ Establishes(r)
        /\ used' = used + 1
        /\ goto(h, Label[r.op])
        /\ job' = [job EXCEPT ![h] = [NoJob EXCEPT !.req = r, !.of = of, !.cf = cf, !.cur = cf,
                                                   !.path = path]]
        /\ ftab' = IF r.op \in {"Clunk", "Remove"} THEN without(ftab, r.fid) ELSE ftab
        /\ UNCHANGED <<ofs, files, offs, rtab, nfid, ghosts>>

\* A Tflush cancels the request's ctx.
tFlush(h) ==
    /\ pc[h] # "idle" /\ ~job[h].flushed
    /\ job' = [job EXCEPT ![h].flushed = TRUE]
    /\ UNCHANGED <<tables, rtab, nfid, pc, used, ghosts>>

-----------------------------------------------------------------------------
(***************************************************************************)
(* clientFS.Attach, clientFile.Walk and Clone, with tAttach and tWalk.     *)
(***************************************************************************)

\* The next name of a Twalk.
Walk(h) ==
    LET names == job[h].req.names
        i     == job[h].i + 1
        path  == files[job[h].cur].path
    IN  /\ pc[h] = "name"
        /\ \/ /\ i > Len(names)
              /\ putFid(job[h].req.newfid, job[h].cur)
              /\ return(h) /\ UNCHANGED <<shared, moved>>
           \/ /\ i <= Len(names) /\ names[i] = ".." /\ path = <<>>
              /\ job' = [job EXCEPT ![h].i = i]
              /\ shared' = shared \cup {job[h].cur}
              /\ UNCHANGED <<ftab, ofs, pc, moved, dropped>>
           \/ /\ i <= Len(names) /\ ~(names[i] = ".." /\ path = <<>>)
              /\ job' = [job EXCEPT ![h].i = i, ![h].path =
                            IF names[i] = ".." THEN Front(path) ELSE Append(path, names[i])]
              /\ goto(h, "walk") /\ UNCHANGED <<ftab, ofs, ghosts>>
        /\ UNCHANGED <<files, offs, rtab, nfid, used>>

\* A walk has failed and left lost behind: tWalk answers with what it has, if
\* it was not the first name.
walkFails(h, lost) ==
    IF job[h].req.op = "Walk" /\ job[h].i > 1
    THEN /\ goto(h, "name")
         /\ job' = [job EXCEPT ![h].req.names = SubSeq(@, 1, job[h].i - 1), ![h].i = @ - 1]
         /\ drop(lost)
    ELSE return(h) /\ drop(lost)

\* Fid.WalkContext from the root.
walkTo(h) ==
    LET new  == nfid + 1
        path == job[h].path
    IN  /\ pc[h] = "walk"
        /\ nfid' = new
        /\ \E out \in {"ok", "refused", "lost", "partial"} :
            \/ /\ out = "ok" /\ rpc(h, RootFid, out) /\ Len(path) <= MaxDepth
               /\ reached(new, path, FALSE)
               /\ goto(h, "stat") /\ job' = [job EXCEPT ![h].new = new]
               /\ UNCHANGED dropped
            \/ /\ out = "partial" /\ Len(path) > 1
               /\ reached(new, Front(path), FALSE)
               /\ goto(h, "quiet") /\ job' = [job EXCEPT ![h].new = new]
               /\ UNCHANGED dropped
            \/ /\ out = "refused" /\ rpc(h, RootFid, out)
               /\ walkFails(h, {}) /\ UNCHANGED rtab
            \/ /\ out = "lost" /\ rpc(h, RootFid, out) /\ Len(path) <= MaxDepth
               /\ reached(new, path, FALSE)
               /\ walkFails(h, {new})
        /\ UNCHANGED <<tables, used, shared, moved>>

\* Only some names were found: clunkQuiet.
clunkQuiet(h) ==
    /\ pc[h] = "quiet"
    /\ rtab' = without(rtab, job[h].new)
    /\ walkFails(h, {})
    /\ UNCHANGED <<tables, nfid, used, shared, moved>>

\* StatContext, and the new clientFile.  tWalk does not close the ones between.
walkStat(h) ==
    LET cf   == Len(files) + 1
        r    == job[h].req
        left == IF job[h].cur = job[h].cf THEN {} ELSE {files[job[h].cur].fid}
    IN  /\ pc[h] = "stat"
        /\ \/ /\ rpc(h, job[h].new, "ok")
              /\ files' = Append(files, clientFile(job[h].path, job[h].new, 0))
              /\ IF r.op = "Walk"
                 THEN /\ goto(h, "name")
                      /\ job' = [job EXCEPT ![h].cur = cf, ![h].new = 0]
                      /\ drop(left) /\ UNCHANGED <<ftab, ofs>>
                 ELSE /\ return(h)
                      /\ putFid(r.newfid, cf)
           \/ /\ rpc(h, job[h].new, "refused")
              /\ walkFails(h, {job[h].new}) /\ UNCHANGED <<ftab, ofs, files>>
        /\ UNCHANGED <<offs, rtab, nfid, used, shared, moved>>

-----------------------------------------------------------------------------
(***************************************************************************)
(* clientFile.Open, and Read with readable.                                *)
(***************************************************************************)

\* f.mu; a File that is open already, or one that must be opened first.
lockMu(h) ==
    LET open == file(h).open # 0
        dir  == IsDir(file(h).path)
        read == job[h].req.op = "Read"
        done == open /\ dir /\ job[h].req.mode = "OREAD"
    IN  /\ pc[h] = "lock" /\ file(h).mu = Nobody
        /\ \/ /\ read /\ open
              /\ goto(h, "seek") /\ job' = [job EXCEPT ![h].file = file(h).open]
              /\ UNCHANGED files
           \/ /\ IF read THEN ~open /\ ~dir ELSE done
              /\ return(h) /\ UNCHANGED files
           \/ /\ IF read THEN ~open /\ dir ELSE ~done
              /\ files' = [files EXCEPT ![job[h].cf].mu = h]
              /\ goto(h, "open") /\ UNCHANGED job
        /\ UNCHANGED <<ftab, ofs, offs, rtab, nfid, used, ghosts>>

\* The lock is kept when the Topen fails.
OpenFileKeepsMu(h) ==
    LET fid == file(h).fid
    IN  /\ pc[h] = "open"
        /\ \/ /\ rpc(h, fid, "ok")
              /\ reached(fid, rtab[fid].path, TRUE)
              /\ offs' = Append(offs, 0)
              /\ files' = [files EXCEPT ![job[h].cf].open = Len(offs'), ![job[h].cf].mu = h]
              /\ goto(h, "opened") /\ job' = [job EXCEPT ![h].file = Len(offs')]
           \/ rpc(h, fid, "refused") /\ return(h) /\ UNCHANGED <<files, offs, rtab>>
        /\ UNCHANGED <<ftab, ofs, nfid, used, ghosts>>

\* OpenFileContext.
OpenFile(h) ==
    LET fid == file(h).fid
    IN  /\ pc[h] = "open"
        /\ \E out \in {"ok", "refused", "lost"} :
            /\ rpc(h, fid, out)
            /\ IF out = "refused" THEN UNCHANGED rtab ELSE reached(fid, rtab[fid].path, TRUE)
            /\ IF out = "ok"
               THEN /\ offs' = Append(offs, 0)
                    /\ files' = [files EXCEPT ![job[h].cf].open = Len(offs'),
                                    ![job[h].cf].mu = IF job[h].req.op = "Read" THEN Nobody ELSE h]
                    /\ goto(h, IF job[h].req.op = "Read" THEN "seek" ELSE "opened")
                    /\ job' = [job EXCEPT ![h].file = Len(offs')]
               ELSE /\ files' = [files EXCEPT ![job[h].cf].mu = Nobody]
                    /\ return(h) /\ UNCHANGED offs
        /\ UNCHANGED <<ftab, ofs, nfid, used, ghosts>>

\* Open's of.Stat, whose failure is ignored; then it returns.
openStat(h) ==
    /\ pc[h] = "opened"
    /\ files' = [files EXCEPT ![job[h].cf].mu = Nobody]
    /\ return(h)
    /\ UNCHANGED <<ftab, ofs, offs, rtab, nfid, used, ghosts>>

\* of.Seek
Seek(h) ==
    /\ pc[h] = "seek"
    /\ offs' = [offs EXCEPT ![job[h].file] = job[h].req.off]
    /\ goto(h, "send")
    /\ UNCHANGED <<ftab, ofs, files, rtab, nfid, job, used, ghosts>>

\* of.Read up to its rpc, and after it.
readSend(h) ==
    /\ pc[h] = "send"
    /\ job' = [job EXCEPT ![h].at = offs[job[h].file]]
    /\ goto(h, "read")
    /\ UNCHANGED <<tables, rtab, nfid, used, ghosts>>

readReply(h) ==
    /\ pc[h] = "read"
    /\ \/ rpcBackground(file(h).fid, "ok") /\ offs' = [offs EXCEPT ![job[h].file] = @ + 1]
       \/ rpcBackground(file(h).fid, "refused") /\ UNCHANGED offs
    /\ return(h)
    /\ UNCHANGED <<ftab, ofs, files, rtab, nfid, used, ghosts>>

\* Stat, Write, and a WStat without a name: one rpc, and nothing of this state
\* changes.
Use(h) ==
    /\ pc[h] = "use"
    /\ return(h)
    /\ UNCHANGED <<tables, rtab, nfid, used, ghosts>>

\* WStat with a name: the remote server renames the file in its directory, and the
\* fids at it and below it go along.  The clientFiles keep the path they have.
WStat(h) ==
    LET fid  == file(h).fid
        name == job[h].req.name
        at   == rtab[fid].path
        Goes == {r \in DOMAIN rtab : IsPrefix(at, rtab[r].path)}
    IN  /\ pc[h] = "rename"
        /\ \E out \in {"ok", "refused", "lost"} :
            /\ rpc(h, fid, out)
            /\ out # "refused" => at # <<>> /\ IsDir(<<name>>) = IsDir(at)
            /\ IF out = "refused" THEN UNCHANGED <<rtab, moved>>
               ELSE /\ rtab' = [r \in DOMAIN rtab |->
                        IF r \in Goes THEN [path |-> [rtab[r].path EXCEPT ![Len(at)] = name],
                                            open |-> rtab[r].open]
                        ELSE rtab[r]]
                    /\ moved' = moved \cup Goes
        /\ return(h)
        /\ UNCHANGED <<tables, nfid, used, shared, dropped>>

-----------------------------------------------------------------------------
(***************************************************************************)
(* clientFile.Create with tCreate.                                         *)
(***************************************************************************)

\* Creating through the directory's own fid.
CreateInPlace(h) ==
    /\ pc[h] = "clone"
    /\ goto(h, "create")
    /\ job' = [job EXCEPT ![h].new = file(h).fid]
    /\ UNCHANGED <<tables, rtab, nfid, used, ghosts>>

\* f.fid.WalkContext: the clone that Tcreate may move.
Create(h) ==
    LET new == nfid + 1
        fid == file(h).fid
    IN  /\ pc[h] = "clone"
        /\ nfid' = new
        /\ \E out \in {"ok", "refused", "lost"} :
            /\ rpc(h, fid, out)
            /\ IF out = "refused" THEN UNCHANGED rtab ELSE reached(new, rtab[fid].path, FALSE)
            /\ IF out = "ok" THEN goto(h, "create") /\ job' = [job EXCEPT ![h].new = new]
               ELSE return(h)
            /\ drop(IF out = "lost" THEN {new} ELSE {})
        /\ moved' = IF fid \in moved THEN moved \cup {new} ELSE moved
        /\ UNCHANGED <<tables, used, shared>>

\* Failing without a clunk.
CreateFileKeeps(h) ==
    LET new  == job[h].new
        path == Append(rtab[new].path, "x")
    IN  /\ pc[h] = "create"
        /\ \/ /\ IsDir(file(h).path) /\ Len(path) <= MaxDepth /\ rpc(h, new, "ok")
              /\ reached(new, path, TRUE)
              /\ goto(h, "created") /\ UNCHANGED job
           \/ rpc(h, new, "refused") /\ UNCHANGED rtab /\ return(h)
        /\ UNCHANGED <<tables, nfid, used, ghosts>>

\* CreateFileContext.
CreateFile(h) ==
    LET new  == job[h].new
        path == Append(rtab[new].path, "x")
    IN  /\ pc[h] = "create"
        /\ \E out \in {"ok", "refused", "lost"} :
            /\ rpc(h, new, out)
            /\ out # "refused" => IsDir(file(h).path) /\ Len(path) <= MaxDepth
            /\ IF out = "refused" THEN UNCHANGED rtab ELSE reached(new, path, TRUE)
            /\ goto(h, IF out = "ok" THEN "created" ELSE "undo")
        /\ UNCHANGED <<tables, nfid, job, used, ghosts>>

\* The clunk of the clone, under the ctx of the request.
createUndo(h) ==
    /\ pc[h] = "undo"
    /\ \/ rtab' = without(rtab, job[h].new) /\ UNCHANGED dropped
       \/ job[h].flushed /\ drop({job[h].new}) /\ UNCHANGED rtab
    /\ return(h)
    /\ UNCHANGED <<tables, nfid, used, shared, moved>>

\* of.Stat, the new clientFile, and openFile.set, which closes nothing.  The fid
\* may have been released meanwhile: then only one of the two is closed.
createSet(h) ==
    LET new == job[h].new
        old == files[ofs[job[h].of]].fid
    IN  /\ pc[h] = "created"
        /\ offs' = Append(offs, 0)
        /\ files' = Append(files, clientFile(Append(file(h).path, "x"), new, Len(offs')))
        /\ ofs' = [ofs EXCEPT ![job[h].of] = Len(files')]
        /\ drop({files[c].fid : c \in Named(ftab, ofs) \ Named(ftab, ofs')}
                    \cup IF job[h].of \in Range(ftab) THEN {} ELSE {old, new})
        /\ return(h)
        /\ UNCHANGED <<ftab, rtab, nfid, used, shared, moved>>

-----------------------------------------------------------------------------
(***************************************************************************)
(* clientFile.Close and Remove, with tClunk and tRemove.                   *)
(***************************************************************************)

\* openFile.get, after delFid.
getFile(h) ==
    /\ pc[h] = "get"
    /\ job' = [job EXCEPT ![h].cf = ofs[job[h].of]]
    /\ goto(h, IF job[h].req.op = "Remove" THEN "remove" ELSE "close")
    /\ UNCHANGED <<tables, rtab, nfid, used, ghosts>>

\* The remote server releases the fid, whether it removes the file or not.
RemoveFile(h) ==
    /\ pc[h] = "remove"
    /\ \/ rtab' = without(rtab, file(h).fid)
       \/ job[h].flushed /\ UNCHANGED rtab
    /\ goto(h, "close")
    /\ UNCHANGED <<tables, nfid, job, used, ghosts>>

\* A Tclunk, also of a fid that Tremove has released.
Close(h) ==
    /\ pc[h] = "close"
    /\ rtab' = without(rtab, file(h).fid)
    /\ return(h)
    /\ UNCHANGED <<tables, nfid, used, ghosts>>

-----------------------------------------------------------------------------
\* No request is under way.
Finished == (\A h \in Handlers : pc[h] = "idle") /\ UNCHANGED vars

Next ==
    \/ \E h \in Handlers :
        \/ \E r \in Requests : Begin(h, r)
        \/ tFlush(h)
        \/ Walk(h) \/ walkTo(h) \/ clunkQuiet(h) \/ walkStat(h)
        \/ lockMu(h) \/ OpenFile(h) \/ openStat(h) \/ Seek(h) \/ readSend(h) \/ readReply(h)
        \/ Use(h) \/ WStat(h)
        \/ Create(h) \/ CreateFile(h) \/ createUndo(h) \/ createSet(h)
        \/ getFile(h) \/ RemoveFile(h) \/ Close(h)
    \/ Finished

Spec == Init /\ [][Next]_vars

-----------------------------------------------------------------------------
\* A fid that the front client has established goes on working, whatever is
\* flushed, refused, created, renamed, clunked or removed around it: its clientFile's
\* remote fid is there, open if the clientFile says so, and at the clientFile's
\* path, which Walk, Clone and Create build on, as long as no Twstat has renamed the
\* file or a directory above it.  A clientFile that ".." at the root has returned a
\* second time is excepted: one of its fids may be clunked, and the others are lost
\* with it.
FrontFidWorks ==
    \A f \in DOMAIN ftab :
        LET cf == ofs[ftab[f]]
        IN  cf \notin shared =>
                /\ files[cf].fid \in DOMAIN rtab
                /\ files[cf].fid \notin moved => rtab[files[cf].fid].path = files[cf].path
                /\ files[cf].open # 0 => rtab[files[cf].fid].open

\* Every remote fid is the root, or named by a fid of the front client, or in
\* the hands of a handler, or was dropped where the code does not clunk: by
\* tWalk between its names, in a walk in place, by Tcreate for the directory and
\* for a fid clunked meanwhile, after a Stat that failed, or by a flush.
NoFidLost ==
    LET held(h) == {job[h].new} \cup {files[c].fid : c \in {job[h].cf, job[h].cur} \ {0}}
    IN  \A r \in DOMAIN rtab \ {RootFid} :
            \/ r \in {files[c].fid : c \in Named(ftab, ofs)}
            \/ \E h \in Handlers : pc[h] # "idle" /\ r \in held(h)
            \/ r \in dropped
=============================================================================
