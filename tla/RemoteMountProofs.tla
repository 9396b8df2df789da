------------------------- MODULE RemoteMountProofs -------------------------
(***************************************************************************)
(* Proofs about RemoteMount for any number of handlers, front fids and     *)
(* requests, and paths of any length.                                      *)
(***************************************************************************)
EXTENDS RemoteMount, SequenceTheorems, TLAPS

Ops == {"none", "Attach", "Walk", "Clone", "Open", "Read", "Create", "Clunk", "Remove", "Use",
        "Rename"}

NoReq == [op |-> "none"]

Job == [req : Asked \cup {NoReq}, of : Nat, cf : Nat, cur : Nat, i : Nat, path : Paths, new : Nat,
        file : Nat, at : Nat, flushed : BOOLEAN]

ClientFile == [path : Paths, fid : Nat, open : Nat, mu : Handlers \cup {Nobody}]

\* The labels at which a handler has a remote fid of its own, a walk or a create.
Making == {"quiet", "stat", "create", "undo", "created"}

\* Those of a request that releases its fid.
Releasing == {"get", "remove", "close"}

Locking == {"open", "opened"}

Twalk(h) == pc[h] \in {"name", "walk", "quiet", "stat"} /\ job[h].req.op = "Walk"

\* Which request is at which label.
OpOK(h) ==
    LET op == job[h].req.op
    IN  /\ pc[h] = "idle" <=> op = "none"
        /\ pc[h] = "name" => op = "Walk"
        /\ pc[h] \in {"walk", "quiet", "stat"} => op \in {"Attach", "Walk", "Clone"}
        /\ pc[h] \in {"lock", "open"} => op \in {"Open", "Read"}
        /\ pc[h] = "opened" => op = "Open"
        /\ pc[h] \in {"seek", "send", "read"} => op = "Read"
        /\ pc[h] = "use" => op = "Use"
        /\ pc[h] = "rename" => op = "Rename"
        /\ pc[h] \in {"clone", "create", "undo", "created"} => op = "Create"
        /\ pc[h] \in {"get", "close"} => op \in {"Clunk", "Remove"}
        /\ pc[h] = "remove" => op = "Remove"

JobOK(h) ==
    LET j == job[h]
    IN  /\ OpOK(h)
        /\ j.of \in 0..Len(ofs) /\ j.cf \in 0..Len(files) /\ j.cur \in 0..Len(files)
        /\ j.req.op \notin {"none", "Attach"} => j.of # 0 /\ j.cf # 0 /\ j.cur # 0
        /\ j.file \in 0..Len(offs)
        /\ pc[h] \in {"seek", "send", "read"} => j.file # 0
        /\ Twalk(h) =>
              /\ j.i <= Len(j.req.names)
              /\ pc[h] = "name" /\ j.i = 0 => j.cur = j.cf
              /\ pc[h] # "name" => j.i # 0 /\ (j.i = 1 => j.cur = j.cf)

Types ==
    /\ DOMAIN ftab \subseteq Fids /\ \A f \in DOMAIN ftab : ftab[f] \in 1..Len(ofs)
    /\ ofs \in Seq(Nat) /\ \A o \in 1..Len(ofs) : ofs[o] \in 1..Len(files)
    /\ files \in Seq(ClientFile) /\ offs \in Seq(Nat) /\ nfid \in Nat \ {0}
    /\ \A c \in 1..Len(files) : files[c].fid \in 2..nfid /\ files[c].open \in 0..Len(offs)
    /\ DOMAIN rtab \subseteq 1..nfid /\ dropped \subseteq 1..nfid /\ shared \subseteq 1..Len(files)
    /\ pc \in [Handlers -> Labels] /\ job \in [Handlers -> Job] /\ used \in 0..MaxRequests

Shape == Types /\ \A h \in Handlers : JobOK(h)

\* f.mu is held by the handler that is in an rpc under it.
Locks ==
    /\ \A c \in 1..Len(files) : files[c].mu # Nobody =>
          pc[files[c].mu] \in Locking /\ job[files[c].mu].cf = c
    /\ \A h \in Handlers : pc[h] \in Locking => file(h).mu = h

\* Nobody else knows a remote fid that is being made.
News ==
    /\ \A c, d \in 1..Len(files) : files[c].fid = files[d].fid => c = d
    /\ \A h \in Handlers : pc[h] \in Making =>
          /\ job[h].new \in 2..nfid
          /\ \A c \in 1..Len(files) : files[c].fid # job[h].new
          /\ \A g \in Handlers \ {h} : pc[g] \in Making => job[g].new # job[h].new

\* c's remote fid is there.
Works(c) ==
    /\ files[c].fid \in DOMAIN rtab
    /\ files[c].open # 0 => rtab[files[c].fid].open

\* h's Twalk has got to a clientFile of its own.
Far(h) == Twalk(h) /\ job[h].cur \notin shared /\ job[h].cur # job[h].cf

\* That is known to h only.
Mine(h) ==
    /\ \A o \in 1..Len(ofs) : ofs[o] # job[h].cur
    /\ \A g \in Handlers : job[g].cf # job[h].cur /\ (g # h => job[g].cur # job[h].cur)

\* What h releases is not in the table any more, nor is its clientFile unless it is
\* shared.
Released(h) ==
    \A f \in DOMAIN ftab : pc[h] \in Releasing =>
        /\ ftab[f] # job[h].of
        /\ pc[h] # "get" /\ ofs[ftab[f]] = job[h].cf => job[h].cf \in shared

\* A Twalk whose clientFile is the one it began with, unless that is shared, has
\* not got past its first name.
AtStart(h) ==
    Twalk(h) /\ job[h].cur = job[h].cf =>
        job[h].cur \in shared \/ job[h].i = IF pc[h] = "name" THEN 0 ELSE 1

\* Each openFile has one fid, and each clientFile one openFile unless it is shared.
Fronts ==
    /\ \A e, f \in DOMAIN ftab : ftab[e] = ftab[f] => e = f
    /\ \A o, p \in 1..Len(ofs) : ofs[o] = ofs[p] => o = p \/ ofs[o] \in shared
    /\ \A h \in Handlers : Released(h) /\ (Far(h) => Mine(h)) /\ AtStart(h)

\* The remote fid that h has made is in place.
Prepared(h) ==
    /\ pc[h] \in {"stat", "created"} => job[h].new \in DOMAIN rtab
    /\ pc[h] = "created" => rtab[job[h].new].open

\* So are those of front fids, and those that are about to be.
InPlace ==
    /\ \A f \in DOMAIN ftab : ofs[ftab[f]] \notin shared => Works(ofs[ftab[f]])
    /\ \A h \in Handlers : (Far(h) => Works(job[h].cur)) /\ Prepared(h)

\* h will clunk r, drop it or put it into the front server's table.
Sees(h, r) ==
    \/ pc[h] \in Releasing /\ r = file(h).fid /\ (pc[h] = "get" => job[h].cf = ofs[job[h].of])
    \/ pc[h] \in Making /\ r = job[h].new
    \/ Twalk(h) /\ job[h].cur # job[h].cf /\ r = files[job[h].cur].fid

\* r is named by a front fid, in the hands of a handler, or dropped.
Known(r) ==
    \/ r \in dropped
    \/ \E f \in DOMAIN ftab : r = files[ofs[ftab[f]]].fid
    \/ \E h \in Handlers : Sees(h, r)

Accounted == \A r \in DOMAIN rtab \ {RootFid} : Known(r)

Inv == Shape /\ Locks /\ News /\ Fronts /\ InPlace /\ Accounted

-----------------------------------------------------------------------------
(***************************************************************************)
(* Requests, jobs and tables.                                              *)
(***************************************************************************)

\* The fields of a request, by its kind.
LEMMA ReqFacts ==
    ASSUME NEW r \in Asked
    PROVE  /\ r.op \in Ops \ {"none"}
           /\ r.op = "Walk" => r.names \in Paths \ {<<>>}
           /\ r.op \in {"Attach", "Walk", "Clone"} => r.newfid \in Fids
           /\ r.op = "Read" => r.off \in Nat
           /\ r.op # "Attach" => r.fid \in Fids
  BY DEF Asked, Ops

\* A Twalk that answers with some of its names.
LEMMA ShorterWalk ==
    ASSUME NEW r \in Asked, r.op = "Walk", NEW names \in Paths \ {<<>>}
    PROVE  /\ [r EXCEPT !.names = names] \in Asked
           /\ [r EXCEPT !.names = names].op = "Walk"
           /\ [r EXCEPT !.names = names].names = names
  <1>1. r \in [op : {"Walk"}, fid : Fids, newfid : Fids, names : Paths \ {<<>>}]
    BY DEF Asked
  <1>2. [r EXCEPT !.names = names] \in [op : {"Walk"}, fid : Fids, newfid : Fids, names : Paths \ {<<>>}]
    BY <1>1
  <1> QED BY <1>1, <1>2 DEF Asked

\* The job of a handler that is idle.
LEMMA NoJobType ==
    /\ NoJob \in Job /\ NoJob.req.op = "none" /\ NoJob.of = 0 /\ NoJob.cf = 0 /\ NoJob.cur = 0
    /\ NoJob.file = 0
  <1> DEFINE e == <<>>
             no == FALSE
  <1>1. e \in Paths /\ no \in BOOLEAN
    BY EmptySeq DEF Paths
  <1>2. NoJob = [req |-> NoReq, of |-> 0, cf |-> 0, cur |-> 0, i |-> 0, path |-> e, new |-> 0,
                 file |-> 0, at |-> 0, flushed |-> no]
    BY DEF NoJob, NoReq
  <1> HIDE DEF e, no
  <1>4. NoJob \in Job
    BY <1>1, <1>2 DEF Job
  <1> QED BY <1>2, <1>4 DEF NoReq

\* The job a request begins with.
NewJob(r, of, cf, path) ==
    [NoJob EXCEPT !.req = r, !.of = of, !.cf = cf, !.cur = cf, !.path = path]

\* The job that a request begins with.
LEMMA NewJobFacts ==
    ASSUME NEW r \in Asked, NEW of \in Nat, NEW cf \in Nat, NEW path \in Paths
    PROVE  LET j == NewJob(r, of, cf, path)
           IN  /\ j \in Job /\ j.req = r /\ j.of = of /\ j.cf = cf /\ j.cur = cf /\ j.i = 0
               /\ j.file = 0
  <1> DEFINE e == <<>>
             no == FALSE
  <1>1. e \in Paths /\ no \in BOOLEAN
    BY EmptySeq DEF Paths
  <1>2. NoJob = [req |-> NoReq, of |-> 0, cf |-> 0, cur |-> 0, i |-> 0, path |-> e, new |-> 0,
                 file |-> 0, at |-> 0, flushed |-> no]
    BY DEF NoJob, NoReq
  <1> HIDE DEF e, no
  <1>3. NewJob(r, of, cf, path) \in Job
    BY <1>1, <1>2 DEF Job, NewJob
  <1> QED BY <1>2, <1>3 DEF NewJob

\* A clientFile's lock changes hands.
LEMMA FileLocked ==
    ASSUME NEW x \in ClientFile, NEW m \in Handlers \cup {Nobody}, NEW y, y = [x EXCEPT !.mu = m]
    PROVE  /\ y \in ClientFile /\ y.mu = m
           /\ y.fid = x.fid /\ y.open = x.open /\ y.path = x.path
  BY DEF ClientFile

\* What a Tflush and Read's send change of a job, and what they leave.
LEMMA JobFlushed ==
    ASSUME NEW j \in Job, NEW b \in BOOLEAN, NEW k, k = [j EXCEPT !.flushed = b]
    PROVE  /\ k \in Job
           /\ k.req = j.req /\ k.of = j.of /\ k.cf = j.cf /\ k.cur = j.cur /\ k.i = j.i
           /\ k.path = j.path /\ k.new = j.new /\ k.file = j.file /\ k.at = j.at
  BY DEF Job

LEMMA JobAt ==
    ASSUME NEW j \in Job, NEW n \in Nat, NEW k, k = [j EXCEPT !.at = n]
    PROVE  /\ k \in Job /\ k.at = n
           /\ k.req = j.req /\ k.of = j.of /\ k.cf = j.cf /\ k.cur = j.cur /\ k.file = j.file
  BY DEF Job

\* Entries of tables.
LEMMA TableFacts ==
    ASSUME NEW t, NEW f, NEW v
    PROVE  /\ DOMAIN with(t, f, v) = DOMAIN t \cup {f}
           /\ with(t, f, v)[f] = v
           /\ \A x \in DOMAIN t \ {f} : with(t, f, v)[x] = t[x]
           /\ DOMAIN without(t, f) = DOMAIN t \ {f}
           /\ \A x \in DOMAIN t \ {f} : without(t, f)[x] = t[x]
  BY DEF with, without

\* A sequence grows at its end.
LEMMA AppendFacts ==
    ASSUME NEW S, NEW s \in Seq(S), NEW x \in S
    PROVE  /\ Append(s, x) \in Seq(S) /\ Len(s) \in Nat
           /\ Len(Append(s, x)) = Len(s) + 1
           /\ Append(s, x)[Len(s) + 1] = x
           /\ \A k \in 1..Len(s) : Append(s, x)[k] = s[k]
  BY AppendProperties, LenProperties

-----------------------------------------------------------------------------
(***************************************************************************)
(* Shape.                                                                  *)
(***************************************************************************)

\* A step of another handler.
Kept(g) ==
    /\ pc'[g] = pc[g]
    /\ job'[g].req = job[g].req /\ job'[g].of = job[g].of /\ job'[g].cf = job[g].cf
    /\ job'[g].cur = job[g].cur /\ job'[g].i = job[g].i /\ job'[g].path = job[g].path
    /\ job'[g].new = job[g].new /\ job'[g].file = job[g].file /\ job'[g].at = job[g].at

Others(h) == \A g \in Handlers \ {h} : pc'[g] = pc[g] /\ job'[g] = job[g]

Ends(h) == pc'[h] = "idle" /\ job'[h] = NoJob

\* The tables are sequences.
LEMMA Lengths ==
    ASSUME Shape
    PROVE  Len(ofs) \in Nat /\ Len(files) \in Nat /\ Len(offs) \in Nat
  BY LenProperties DEF Shape, Types

\* Shape survives a step of h that takes nothing out of the tables and leaves the
\* other handlers where they are.
LEMMA ShapeFrame ==
    ASSUME Shape, Types', NEW h \in Handlers, \A g \in Handlers \ {h} : Kept(g), JobOK(h)',
           Len(ofs) <= Len(ofs'), Len(files) <= Len(files'), Len(offs) <= Len(offs')
    PROVE  Shape'
  <1>1. /\ Len(ofs) \in Nat /\ Len(files) \in Nat /\ Len(offs) \in Nat
        /\ Len(ofs') \in Nat /\ Len(files') \in Nat /\ Len(offs') \in Nat
    BY LenProperties, Lengths DEF Types
  <1>2. /\ 0..Len(ofs) \subseteq 0..Len(ofs') /\ 0..Len(files) \subseteq 0..Len(files')
        /\ 0..Len(offs) \subseteq 0..Len(offs')
    BY <1>1
  <1>3. ASSUME NEW g \in Handlers, g # h PROVE JobOK(g)'
    <2>1. JobOK(g) /\ Kept(g)
      BY <1>3 DEF Shape
    <2> QED BY <1>2, <2>1 DEF JobOK, OpOK, Kept, Twalk
  <1> QED BY <1>3 DEF Shape

\* A call that has ended.
LEMMA EndsOK ==
    ASSUME NEW h \in Handlers, Ends(h), Types'
    PROVE  JobOK(h)'
  <1>1. 0 \in 0..Len(ofs') /\ 0 \in 0..Len(files') /\ 0 \in 0..Len(offs')
    BY LenProperties DEF Types
  <1> QED BY <1>1, NoJobType DEF Ends, JobOK, OpOK, Twalk

\* What return does.
LEMMA Returns ==
    ASSUME Shape, NEW h \in Handlers, return(h)
    PROVE  Ends(h) /\ Others(h) /\ pc' \in [Handlers -> Labels] /\ job' \in [Handlers -> Job]
  BY NoJobType DEF return, goto, Ends, Others, Shape, Types, Labels

\* A step that leaves the tables alone.
LEMMA ShapeLocal ==
    ASSUME Shape, NEW h \in Handlers, UNCHANGED <<ftab, ofs, files, offs, shared>>,
           nfid' \in Nat, nfid <= nfid', DOMAIN rtab' \subseteq 1..nfid', dropped' \subseteq 1..nfid',
           used' \in 0..MaxRequests, \A g \in Handlers \ {h} : Kept(g),
           pc' \in [Handlers -> Labels], job' \in [Handlers -> Job], JobOK(h)' \/ Ends(h)
    PROVE  Shape'
  <1>1. \A c \in 1..Len(files) : files[c].fid \in 2..nfid'
    BY DEF Shape, Types
  <1>2. Types'
    BY <1>1 DEF Shape, Types
  <1>3. Len(ofs) <= Len(ofs') /\ Len(files) <= Len(files') /\ Len(offs) <= Len(offs')
    BY Lengths
  <1> QED BY <1>2, <1>3, ShapeFrame, EndsOK

-----------------------------------------------------------------------------
(***************************************************************************)
(* What each step does, as far as the other parts of the invariant care.   *)
(***************************************************************************)

\* Nothing but a ctx.
Flushes(h) ==
    /\ UNCHANGED <<ftab, ofs, files, offs, rtab, nfid, shared, dropped>>
    /\ \A g \in Handlers : Kept(g)

\* tFlush only marks its request.
LEMMA FlushStep ==
    ASSUME Shape, NEW h \in Handlers, tFlush(h)
    PROVE  Shape' /\ Flushes(h)
  <1>1. /\ UNCHANGED <<ftab, ofs, files, offs, rtab, nfid, shared, dropped, pc, used>>
        /\ job' = [job EXCEPT ![h].flushed = TRUE]
    BY DEF tFlush, tables, ghosts
  <1>2. TRUE \in BOOLEAN
    OBVIOUS
  <1>3. PICK yes \in BOOLEAN : job' = [job EXCEPT ![h].flushed = yes]
    BY <1>1, <1>2
  <1>4. job \in [Handlers -> Job]
    BY DEF Shape, Types
  <1>5. job' \in [Handlers -> Job] /\ \A g \in Handlers : Kept(g)
    <2>1. job[h] \in Job /\ job'[h] = [job[h] EXCEPT !.flushed = yes]
      BY <1>3, <1>4
    <2>2. job'[h] \in Job /\ Kept(h)
      BY <1>1, <2>1, JobFlushed DEF Kept
    <2>3. \A g \in Handlers \ {h} : job'[g] = job[g]
      BY <1>3, <1>4
    <2>4. job' \in [Handlers -> Job]
      BY <1>3, <1>4, <2>1, <2>2
    <2> QED BY <1>1, <2>2, <2>3, <2>4 DEF Kept
  <1>6. JobOK(h)'
    BY <1>1, <1>5 DEF Shape, JobOK, OpOK, Kept, Twalk
  <1>7. nfid' \in Nat /\ nfid <= nfid' /\ DOMAIN rtab' \subseteq 1..nfid' /\ dropped' \subseteq 1..nfid'
        /\ pc' \in [Handlers -> Labels] /\ used' \in 0..MaxRequests
    BY <1>1 DEF Shape, Types
  <1>8. Shape'
    BY <1>1, <1>5, <1>6, <1>7, ShapeLocal
  <1> QED BY <1>1, <1>5, <1>8 DEF Flushes

\* The remote fids stay, open if they were, and where they were unless they are moved.
RemoteKept ==
    /\ DOMAIN rtab' = DOMAIN rtab
    /\ \A r \in DOMAIN rtab : /\ rtab[r].open => rtab'[r].open
                              /\ r \in moved' \/ rtab'[r].path = rtab[r].path

\* Nothing happens at the remote server.
LEMMA RemoteSame ==
    ASSUME rtab' = rtab
    PROVE  RemoteKept
  BY DEF RemoteKept

\* A step of Read, and of the methods that make and release nothing.
Plain(h) ==
    /\ UNCHANGED <<ftab, ofs, files, nfid, shared, dropped>> /\ RemoteKept
    /\ \A g \in Handlers \ {h} : Kept(g)
    /\ pc[h] \in {"lock", "seek", "send", "read", "use", "rename"}
    /\ pc'[h] \in {"seek", "send", "read", "idle"}
    /\ job'[h].cf \in {job[h].cf, 0} /\ job'[h].cur \in {job[h].cur, 0}

\* A step that only changes the job of h, to one of the same request.
LEMMA PlainShape ==
    ASSUME Shape, NEW h \in Handlers, UNCHANGED <<ftab, ofs, files, nfid, shared, dropped>>,
           RemoteKept, used' = used, offs' \in Seq(Nat), Len(offs') = Len(offs), \A g \in Handlers \ {h} : Kept(g),
           pc[h] \in {"lock", "seek", "send", "read", "use", "rename"},
           pc'[h] \in {"seek", "send", "read", "idle"},
           pc' \in [Handlers -> Labels], job' \in [Handlers -> Job],
           \/ Ends(h)
           \/ /\ job[h].req.op = "Read" /\ pc'[h] # "idle" /\ job'[h].req = job[h].req
              /\ job'[h].of = job[h].of /\ job'[h].cf = job[h].cf /\ job'[h].cur = job[h].cur
              /\ job'[h].file \in 1..Len(offs)
    PROVE  Shape' /\ Plain(h)
  <1>1. Types'
    BY DEF Shape, Types, RemoteKept
  <1>2. JobOK(h)'
    <2>1. CASE Ends(h)
      BY <1>1, <2>1, EndsOK
    <2>2. CASE ~Ends(h)
      <3>1. JobOK(h) /\ Len(offs) \in Nat
        BY Lengths DEF Shape
      <3>2. job'[h].file \in 0..Len(offs') /\ job'[h].file # 0
        BY <2>2, <3>1
      <3>3. OpOK(h)' /\ ~Twalk(h)'
        BY <2>2 DEF OpOK, Twalk
      <3> QED BY <2>2, <3>1, <3>2, <3>3 DEF JobOK
    <2> QED BY <2>1, <2>2
  <1>3. Shape'
    BY <1>1, <1>2, Lengths, ShapeFrame
  <1> QED BY <1>3, NoJobType DEF Plain, Ends

\* f.mu is taken.
TakesMu(h) ==
    /\ UNCHANGED <<ftab, ofs, offs, rtab, nfid, shared, dropped, job>> /\ Others(h)
    /\ pc[h] = "lock" /\ pc'[h] = "open" /\ file(h).mu = Nobody
    /\ files' = [files EXCEPT ![job[h].cf].mu = h]

\* lockMu takes the lock, or finds the File open and goes on without it.
LEMMA PlainLock ==
    ASSUME Shape, NEW h \in Handlers, lockMu(h)
    PROVE  Shape' /\ (TakesMu(h) \/ Plain(h))
  <1>0. /\ UNCHANGED <<ftab, ofs, offs, rtab, nfid, used, shared, dropped>> /\ pc[h] = "lock"
        /\ job \in [Handlers -> Job] /\ pc \in [Handlers -> Labels] /\ offs \in Seq(Nat)
        /\ Len(offs) \in Nat /\ JobOK(h)
    BY Lengths DEF lockMu, ghosts, Shape, Types
  <1>1. job[h].cf \in 1..Len(files) /\ file(h).open \in 0..Len(offs) /\ file(h).open \in Nat
    <2>1. job[h].cf \in 1..Len(files)
      BY <1>0, Lengths DEF JobOK, OpOK
    <2>2. file(h).open \in 0..Len(offs)
      BY <2>1 DEF Shape, Types, file
    <2> QED BY <1>0, <2>1, <2>2
  <1>2. CASE job[h].req.op = "Read" /\ file(h).open # 0 /\ goto(h, "seek")
             /\ job' = [job EXCEPT ![h].file = file(h).open] /\ files' = files
    <2>1. job' \in [Handlers -> Job] /\ pc' \in [Handlers -> Labels] /\ pc'[h] = "seek" /\ Others(h)
      BY <1>0, <1>1, <1>2 DEF Job, goto, Labels, Others
    <2>2. /\ job'[h].req = job[h].req /\ job'[h].of = job[h].of /\ job'[h].cf = job[h].cf
          /\ job'[h].cur = job[h].cur /\ job'[h].file \in 1..Len(offs)
      BY <1>0, <1>1, <1>2 DEF Job
    <2>3. \A g \in Handlers \ {h} : Kept(g)
      BY <2>1 DEF Others, Kept
    <2>4. Shape' /\ Plain(h)
      BY <1>0, <1>2, <2>1, <2>2, <2>3, PlainShape, RemoteSame
    <2> QED BY <1>0, <2>1, <2>4
  <1>3. CASE return(h) /\ files' = files
    <2>1. Ends(h) /\ Others(h) /\ pc' \in [Handlers -> Labels] /\ job' \in [Handlers -> Job]
      BY <1>3, Returns
    <2>2. (\A g \in Handlers \ {h} : Kept(g)) /\ pc'[h] = "idle"
      BY <2>1 DEF Others, Kept, Ends
    <2>3. Shape' /\ Plain(h)
      BY <1>0, <1>3, <2>1, <2>2, PlainShape, RemoteSame
    <2> QED BY <1>0, <2>1, <2>2, <2>3
  <1>4. CASE files' = [files EXCEPT ![job[h].cf].mu = h] /\ goto(h, "open") /\ job' = job
    <2>1. pc' \in [Handlers -> Labels] /\ pc'[h] = "open" /\ Others(h)
      BY <1>0, <1>4 DEF goto, Labels, Others
    <2>2. Types'
      <3>1. files' \in Seq(ClientFile) /\ Len(files') = Len(files)
            /\ \A c \in 1..Len(files) : files'[c].fid = files[c].fid /\ files'[c].open = files[c].open
        <4>1. \A c \in 1..Len(files) : files[c] \in ClientFile
          BY ElementOfSeq DEF Shape, Types
        <4>2. PICK x : x = [files[job[h].cf] EXCEPT !.mu = h]
          OBVIOUS
        <4>3. x \in ClientFile /\ x.fid = file(h).fid /\ x.open = file(h).open
          BY <1>1, <4>1, <4>2, FileLocked DEF file
        <4>4. files' = [files EXCEPT ![job[h].cf] = x] /\ files \in Seq(ClientFile)
          BY <1>4, <4>2 DEF Shape, Types
        <4>5. files' \in Seq(ClientFile) /\ Len(files') = Len(files)
          BY <1>1, <4>3, <4>4, ExceptSeq
        <4> QED BY <1>1, <4>3, <4>4, <4>5 DEF file
      <3> QED BY <1>0, <1>4, <2>1, <3>1 DEF Shape, Types
    <2>3. Len(files') = Len(files)
      BY <1>4, LenProperties DEF Shape, Types
    <2>4. JobOK(h)'
      BY <1>0, <1>4, <2>1, <2>3 DEF JobOK, OpOK, Twalk
    <2>5. Shape'
      BY <1>0, <2>1, <2>2, <2>3, <2>4, Lengths, ShapeFrame DEF Others, Kept
    <2> QED BY <1>0, <1>4, <2>1, <2>5 DEF TakesMu, lockMu
  <1> QED BY <1>2, <1>3, <1>4 DEF lockMu

\* Seek sets the offset of h's File.
LEMMA SeekStep ==
    ASSUME Shape, NEW h \in Handlers, Seek(h)
    PROVE  Shape' /\ Plain(h)
  <1>0. /\ UNCHANGED <<ftab, ofs, files, rtab, nfid, used, shared, dropped, job>> /\ pc[h] = "seek"
        /\ job \in [Handlers -> Job] /\ pc \in [Handlers -> Labels] /\ offs \in Seq(Nat) /\ JobOK(h)
        /\ pc' = [pc EXCEPT ![h] = "send"] /\ Len(offs) \in Nat
        /\ offs' = [offs EXCEPT ![job[h].file] = job[h].req.off]
    BY Lengths DEF Seek, goto, ghosts, Shape, Types
  <1>1. job[h].file \in 1..Len(offs) /\ job[h].req \in Asked /\ job[h].req.op = "Read"
    BY <1>0 DEF JobOK, OpOK, Job, NoReq
  <1>2. offs' \in Seq(Nat) /\ Len(offs') = Len(offs)
    BY <1>0, <1>1, ReqFacts, ExceptSeq
  <1>3. pc' \in [Handlers -> Labels] /\ pc'[h] = "send" /\ job' \in [Handlers -> Job]
    BY <1>0 DEF Labels
  <1>4. \A g \in Handlers \ {h} : Kept(g)
    BY <1>0 DEF Kept
  <1> QED BY <1>0, <1>1, <1>2, <1>3, <1>4, PlainShape, RemoteSame

\* readSend takes the offset that Seek, or somebody since, has set.
LEMMA SendStep ==
    ASSUME Shape, NEW h \in Handlers, readSend(h)
    PROVE  Shape' /\ Plain(h)
  <1>0. /\ UNCHANGED <<ftab, ofs, files, offs, rtab, nfid, used, shared, dropped>> /\ pc[h] = "send"
        /\ job \in [Handlers -> Job] /\ pc \in [Handlers -> Labels] /\ offs \in Seq(Nat) /\ JobOK(h)
        /\ pc' = [pc EXCEPT ![h] = "read"] /\ Len(offs) \in Nat
        /\ job' = [job EXCEPT ![h].at = offs[job[h].file]]
    BY Lengths DEF readSend, goto, tables, ghosts, Shape, Types
  <1>1. job[h].file \in 1..Len(offs) /\ job[h].req.op = "Read" /\ job[h] \in Job
    BY <1>0 DEF JobOK, OpOK
  <1>2. PICK n \in Nat : n = offs[job[h].file]
    BY <1>0, <1>1, ElementOfSeq
  <1>3. job' = [job EXCEPT ![h].at = n]
    BY <1>0, <1>2
  <1>4. /\ job'[h] \in Job
        /\ job'[h].req = job[h].req /\ job'[h].of = job[h].of /\ job'[h].cf = job[h].cf
        /\ job'[h].cur = job[h].cur /\ job'[h].file = job[h].file
    <2>1. job'[h] = [job[h] EXCEPT !.at = n]
      BY <1>0, <1>3
    <2> QED BY <1>1, <2>1, JobAt
  <1>5. job' \in [Handlers -> Job] /\ Others(h) /\ pc' \in [Handlers -> Labels] /\ pc'[h] = "read"
    BY <1>0, <1>3, <1>4 DEF Labels, Others
  <1>6. \A g \in Handlers \ {h} : Kept(g)
    BY <1>5 DEF Kept, Others
  <1> QED BY <1>0, <1>1, <1>4, <1>5, <1>6, PlainShape, RemoteSame

\* The end of a Read or of a Tstat changes at most the offset of h's File.
LEMMA ReplyStep ==
    ASSUME Shape, NEW h \in Handlers, readReply(h) \/ Use(h)
    PROVE  Shape' /\ Plain(h)
  <1>0. /\ UNCHANGED <<ftab, ofs, files, rtab, nfid, used, shared, dropped>> /\ pc[h] \in {"read", "use"}
        /\ offs \in Seq(Nat) /\ JobOK(h) /\ Len(offs) \in Nat /\ return(h)
        /\ offs' = offs \/ (pc[h] = "read" /\ offs' = [offs EXCEPT ![job[h].file] = @ + 1])
    BY Lengths DEF readReply, Use, tables, ghosts, Shape, Types
  <1>1. pc[h] = "read" => job[h].file \in 1..Len(offs)
    BY <1>0 DEF JobOK
  <1>2. offs' \in Seq(Nat) /\ Len(offs') = Len(offs)
    <2>1. CASE pc[h] = "read" /\ offs' = [offs EXCEPT ![job[h].file] = @ + 1]
      <3>1. offs[job[h].file] + 1 \in Nat
        BY <1>0, <1>1, <2>1, ElementOfSeq
      <3> QED BY <1>0, <1>1, <2>1, <3>1, ExceptSeq
    <2> QED BY <1>0, <2>1
  <1>3. Ends(h) /\ Others(h) /\ pc' \in [Handlers -> Labels] /\ job' \in [Handlers -> Job]
    BY <1>0, Returns
  <1>4. (\A g \in Handlers \ {h} : Kept(g)) /\ pc'[h] = "idle"
    BY <1>3 DEF Others, Kept, Ends
  <1> QED BY <1>0, <1>2, <1>3, <1>4, PlainShape, RemoteSame

\* A rename moves remote fids and opens or closes none.
LEMMA RenameStep ==
    ASSUME Shape, NEW h \in Handlers, WStat(h)
    PROVE  Shape' /\ Plain(h)
  <1>0. /\ UNCHANGED <<ftab, ofs, files, offs, nfid, used, shared, dropped>> /\ pc[h] = "rename"
        /\ offs \in Seq(Nat) /\ return(h)
    BY DEF WStat, tables, Shape, Types
  <1>1. RemoteKept
    <2>1. CASE rtab' = rtab
      BY <2>1, RemoteSame
    <2>2. ASSUME NEW Goes, NEW to, moved' = moved \cup Goes,
                 rtab' = [r \in DOMAIN rtab |->
                            IF r \in Goes THEN [path |-> to[r], open |-> rtab[r].open] ELSE rtab[r]]
          PROVE  RemoteKept
      BY <2>2 DEF RemoteKept
    <2>3. CASE rtab' # rtab
      <3>1. PICK Goes, to :
              /\ moved' = moved \cup Goes
              /\ rtab' = [r \in DOMAIN rtab |->
                            IF r \in Goes THEN [path |-> to[r], open |-> rtab[r].open] ELSE rtab[r]]
        <4> DEFINE at == rtab[file(h).fid].path
                   G  == {r \in DOMAIN rtab : IsPrefix(at, rtab[r].path)}
                   t  == [r \in DOMAIN rtab |-> [rtab[r].path EXCEPT ![Len(at)] = job[h].req.name]]
        <4>1. /\ moved' = moved \cup G
              /\ rtab' = [r \in DOMAIN rtab |->
                            IF r \in G THEN [path |-> [rtab[r].path EXCEPT ![Len(at)] = job[h].req.name],
                                             open |-> rtab[r].open]
                            ELSE rtab[r]]
          BY <2>3 DEF WStat
        <4>2. \A r \in DOMAIN rtab : t[r] = [rtab[r].path EXCEPT ![Len(at)] = job[h].req.name]
          OBVIOUS
        <4> HIDE DEF at, G, t
        <4>3. rtab' = [r \in DOMAIN rtab |->
                          IF r \in G THEN [path |-> t[r], open |-> rtab[r].open] ELSE rtab[r]]
          BY <4>1, <4>2
        <4> QED BY <4>1, <4>3
      <3> QED BY <2>2, <3>1
    <2> QED BY <2>1, <2>3
  <1>2. Ends(h) /\ Others(h) /\ pc' \in [Handlers -> Labels] /\ job' \in [Handlers -> Job]
    BY <1>0, Returns
  <1>3. (\A g \in Handlers \ {h} : Kept(g)) /\ pc'[h] = "idle"
    BY <1>2 DEF Others, Kept, Ends
  <1> QED BY <1>0, <1>1, <1>2, <1>3, PlainShape

\* A step under f.mu: the clientFile is opened, at the remote server too, and the lock
\* is kept for Open's Stat or given back.
Holds(h) ==
    LET c == job[h].cf
    IN  /\ UNCHANGED <<ftab, ofs, nfid, shared, dropped>> /\ Others(h) /\ c \in 1..Len(files)
        /\ pc[h] \in Locking /\ pc'[h] \in {"seek", "opened", "idle"}
        /\ job'[h].cf \in {c, 0} /\ job'[h].cur \in {job[h].cur, 0}
        /\ pc'[h] = "opened" => job'[h].cf = c
        /\ Len(files') = Len(files) /\ \A d \in (1..Len(files)) \ {c} : files'[d] = files[d]
        /\ files'[c].fid = files[c].fid /\ files'[c].path = files[c].path
        /\ files'[c].mu = IF pc'[h] = "opened" THEN h ELSE Nobody
        /\ files'[c].open # files[c].open => files[c].fid \in DOMAIN rtab /\ rtab'[files[c].fid].open
        /\ \A k \in 1..Len(offs) : offs'[k] = offs[k]
        /\ DOMAIN rtab' = DOMAIN rtab
        /\ \A r \in DOMAIN rtab : /\ rtab'[r].path = rtab[r].path /\ (rtab[r].open => rtab'[r].open)
                                  /\ r # files[c].fid => rtab'[r] = rtab[r]

\* What it means to change one clientFile.
LEMMA FileChanges ==
    ASSUME Shape, NEW c \in 1..Len(files), NEW x \in ClientFile, files' = [files EXCEPT ![c] = x]
    PROVE  /\ files' \in Seq(ClientFile) /\ Len(files') = Len(files) /\ files'[c] = x
           /\ \A d \in (1..Len(files)) \ {c} : files'[d] = files[d]
  <1>1. files \in Seq(ClientFile)
    BY DEF Shape, Types
  <1>2. files' \in Seq(ClientFile) /\ Len(files') = Len(files)
    BY <1>1, ExceptSeq
  <1> QED BY <1>1, <1>2, LenProperties

\* Shape is kept by such a step.
LEMMA HoldsShape ==
    ASSUME Shape, NEW h \in Handlers, Holds(h), used' = used, files' \in Seq(ClientFile), offs' \in Seq(Nat),
           Len(offs) <= Len(offs'), files'[job[h].cf].open \in 0..Len(offs'),
           pc' \in [Handlers -> Labels], job' \in [Handlers -> Job],
           \/ Ends(h)
           \/ /\ pc'[h] = IF job[h].req.op = "Read" THEN "seek" ELSE "opened"
              /\ job'[h].req = job[h].req /\ job'[h].of = job[h].of /\ job'[h].cf = job[h].cf
              /\ job'[h].cur = job[h].cur /\ job'[h].file \in 1..Len(offs')
    PROVE  Shape'
  <1>0. /\ Len(offs) \in Nat /\ Len(offs') \in Nat /\ Len(files) \in Nat /\ Len(ofs) \in Nat
    BY Lengths, LenProperties
  <1>1. \A c \in 1..Len(files) : files'[c].fid \in 2..nfid /\ files'[c].open \in 0..Len(offs')
    <2>1. \A c \in 1..Len(files) : files[c].fid \in 2..nfid /\ files[c].open \in 0..Len(offs)
      BY DEF Shape, Types
    <2>2. 0..Len(offs) \subseteq 0..Len(offs')
      BY <1>0
    <2> QED BY <2>1, <2>2 DEF Holds
  <1>2. Types'
    BY <1>1 DEF Holds, Shape, Types
  <1>3. JobOK(h)'
    <2>1. CASE Ends(h)
      BY <1>2, <2>1, EndsOK
    <2>2. CASE ~Ends(h)
      <3>1. JobOK(h) /\ job[h].req.op \in {"Open", "Read"} /\ pc'[h] \in {"seek", "opened"}
        BY <2>2 DEF Shape, JobOK, OpOK, Holds, Locking
      <3>2. job'[h].file \in 0..Len(offs') /\ job'[h].file # 0
        BY <1>0, <2>2
      <3>3. OpOK(h)' /\ ~Twalk(h)'
        BY <2>2, <3>1 DEF OpOK, Twalk
      <3> QED BY <2>2, <3>1, <3>2, <3>3 DEF JobOK, Holds
    <2> QED BY <2>1, <2>2
  <1>4. \A g \in Handlers \ {h} : Kept(g)
    BY DEF Holds, Others, Kept
  <1> QED BY <1>0, <1>2, <1>3, <1>4, ShapeFrame DEF Holds

\* Open and readable run under the lock until they return.
LEMMA OpenStatStep ==
    ASSUME Shape, NEW h \in Handlers, openStat(h)
    PROVE  Shape' /\ Holds(h)
  <1>0. /\ UNCHANGED <<ftab, ofs, offs, rtab, nfid, used, shared, dropped>> /\ pc[h] = "opened"
        /\ offs \in Seq(Nat) /\ JobOK(h) /\ Len(offs) \in Nat /\ return(h)
        /\ files' = [files EXCEPT ![job[h].cf].mu = Nobody]
    BY Lengths DEF openStat, ghosts, Shape, Types
  <1>1. job[h].cf \in 1..Len(files)
    BY <1>0, Lengths DEF JobOK, OpOK
  <1>2. PICK x : x = [files[job[h].cf] EXCEPT !.mu = Nobody]
    OBVIOUS
  <1>3. x \in ClientFile /\ x.mu = Nobody /\ x.fid = file(h).fid /\ x.open = file(h).open /\ x.path = file(h).path
    <2>1. files[job[h].cf] \in ClientFile
      BY <1>1, ElementOfSeq DEF Shape, Types
    <2> QED BY <1>2, <2>1, FileLocked DEF file
  <1>4. /\ files' \in Seq(ClientFile) /\ Len(files') = Len(files) /\ files'[job[h].cf] = x
        /\ \A d \in (1..Len(files)) \ {job[h].cf} : files'[d] = files[d]
    <2>1. files' = [files EXCEPT ![job[h].cf] = x]
      BY <1>0, <1>2
    <2> QED BY <1>1, <1>3, <2>1, FileChanges
  <1>5. Ends(h) /\ Others(h) /\ pc' \in [Handlers -> Labels] /\ job' \in [Handlers -> Job]
    BY <1>0, Returns
  <1>6. Holds(h)
    BY <1>0, <1>1, <1>3, <1>4, <1>5, NoJobType DEF Holds, Locking, Ends, file
  <1>7. files'[job[h].cf].open \in 0..Len(offs') /\ Len(offs) <= Len(offs')
    BY <1>0, <1>1, <1>3, <1>4 DEF file, Shape, Types
  <1> QED BY <1>0, <1>4, <1>5, <1>6, <1>7, HoldsShape

LEMMA OpenStep ==
    ASSUME Shape, NEW h \in Handlers, OpenFile(h)
    PROVE  Shape' /\ Holds(h)
  <1> DEFINE fid == file(h).fid
  <1>0. /\ UNCHANGED <<ftab, ofs, nfid, used, shared, dropped>> /\ pc[h] = "open"
        /\ offs \in Seq(Nat) /\ JobOK(h) /\ Len(offs) \in Nat
        /\ job \in [Handlers -> Job] /\ pc \in [Handlers -> Labels]
    BY Lengths DEF OpenFile, ghosts, Shape, Types
  <1>1. job[h].cf \in 1..Len(files) /\ job[h].req.op \in {"Open", "Read"}
    BY <1>0, Lengths DEF JobOK, OpOK
  <1>2. PICK out \in {"ok", "refused", "lost"} :
            /\ rpc(h, fid, out)
            /\ IF out = "refused" THEN UNCHANGED rtab ELSE reached(fid, rtab[fid].path, TRUE)
            /\ IF out = "ok"
               THEN /\ offs' = Append(offs, 0)
                    /\ files' = [files EXCEPT ![job[h].cf].open = Len(offs'),
                                    ![job[h].cf].mu = IF job[h].req.op = "Read" THEN Nobody ELSE h]
                    /\ goto(h, IF job[h].req.op = "Read" THEN "seek" ELSE "opened")
                    /\ job' = [job EXCEPT ![h].file = Len(offs')]
               ELSE /\ files' = [files EXCEPT ![job[h].cf].mu = Nobody]
                    /\ return(h) /\ UNCHANGED offs
    BY DEF OpenFile
  <1>3. files[job[h].cf] \in ClientFile /\ file(h) = files[job[h].cf]
    BY <1>1, ElementOfSeq DEF Shape, Types, file
  <1>4. /\ DOMAIN rtab' = DOMAIN rtab
        /\ \A r \in DOMAIN rtab : /\ rtab'[r].path = rtab[r].path /\ (rtab[r].open => rtab'[r].open)
                                  /\ r # fid => rtab'[r] = rtab[r]
        /\ out = "ok" => fid \in DOMAIN rtab /\ rtab'[fid].open
    <2>1. CASE out = "refused"
      BY <1>2, <2>1
    <2>2. CASE out # "refused"
      <3>1. fid \in DOMAIN rtab /\ rtab' = with(rtab, fid, [path |-> rtab[fid].path, open |-> TRUE])
        BY <1>2, <2>2 DEF rpc, reached
      <3>2. PICK v : v.path = rtab[fid].path /\ v.open = TRUE /\ rtab' = with(rtab, fid, v)
        BY <3>1
      <3> HIDE DEF fid
      <3>3. /\ DOMAIN rtab' = DOMAIN rtab /\ rtab'[fid] = v
            /\ \A r \in DOMAIN rtab : r # fid => rtab'[r] = rtab[r]
        BY <3>1, <3>2 DEF with
      <3>4. rtab'[fid].path = rtab[fid].path /\ rtab'[fid].open
        BY <3>2, <3>3
      <3> QED BY <3>1, <3>3, <3>4
    <2> QED BY <2>1, <2>2
  <1>5. CASE out = "ok"
    <2>0. /\ offs' = Append(offs, 0)
          /\ files' = [files EXCEPT ![job[h].cf].open = Len(offs'),
                          ![job[h].cf].mu = IF job[h].req.op = "Read" THEN Nobody ELSE h]
      BY <1>2, <1>5
    <2>1. /\ offs' \in Seq(Nat) /\ Len(offs') = Len(offs) + 1 /\ \A k \in 1..Len(offs) : offs'[k] = offs[k]
      BY <1>0, <2>0, AppendFacts
    <2>2. PICK m \in Handlers \cup {Nobody}, n \in Nat :
            m = (IF job[h].req.op = "Read" THEN Nobody ELSE h) /\ n = Len(offs')
      <3>1. PICK m \in Handlers \cup {Nobody} : m = (IF job[h].req.op = "Read" THEN Nobody ELSE h)
        OBVIOUS
      <3>2. Len(offs') \in Nat
        BY <1>0, <2>1
      <3> QED BY <3>1, <3>2
    <2>3. PICK z, x : z \in ClientFile /\ z = files[job[h].cf] /\ x = [z EXCEPT !.open = n, !.mu = m]
      BY <1>3
    <2>4. x \in ClientFile /\ x.mu = m /\ x.open = n /\ x.fid = fid /\ x.path = file(h).path
      <3>1. x \in ClientFile /\ x.mu = m /\ x.open = n /\ x.fid = z.fid /\ x.path = z.path
        <4>1. z \in ClientFile /\ m \in Handlers \cup {Nobody} /\ n \in Nat /\ x = [z EXCEPT !.open = n, !.mu = m]
          BY <2>2, <2>3
        <4> QED BY <4>1 DEF ClientFile
      <3> QED BY <1>3, <2>3, <3>1
    <2>5. /\ files' \in Seq(ClientFile) /\ Len(files') = Len(files) /\ files'[job[h].cf] = x
          /\ \A d \in (1..Len(files)) \ {job[h].cf} : files'[d] = files[d]
      <3>1. files' = [files EXCEPT ![job[h].cf] = x]
        BY <2>0, <2>2, <2>3
      <3> QED BY <1>1, <2>4, <3>1, FileChanges
    <2>6. /\ job' \in [Handlers -> Job] /\ Others(h) /\ pc' \in [Handlers -> Labels]
          /\ pc'[h] = IF job[h].req.op = "Read" THEN "seek" ELSE "opened"
      <3>1. job' = [job EXCEPT ![h].file = n] /\ pc' = [pc EXCEPT ![h] = IF job[h].req.op = "Read" THEN "seek" ELSE "opened"]
        BY <1>2, <1>5, <2>2 DEF goto
      <3>2. job' \in [Handlers -> Job] /\ \A g \in Handlers \ {h} : job'[g] = job[g]
        BY <1>0, <3>1 DEF Job
      <3> QED BY <1>0, <3>1, <3>2 DEF Labels, Others
    <2>7. /\ job'[h].req = job[h].req /\ job'[h].of = job[h].of /\ job'[h].cf = job[h].cf
          /\ job'[h].cur = job[h].cur /\ job'[h].file = n
      <3>1. job' = [job EXCEPT ![h].file = n]
        BY <1>2, <1>5, <2>2
      <3> QED BY <1>0, <3>1 DEF Job
    <2>8. Holds(h)
      BY <1>0, <1>1, <1>3, <1>4, <1>5, <2>1, <2>2, <2>4, <2>5, <2>6, <2>7 DEF Holds, Locking
    <2>9. n \in 1..Len(offs') /\ files'[job[h].cf].open \in 0..Len(offs') /\ Len(offs) <= Len(offs')
      BY <1>0, <2>1, <2>2, <2>4, <2>5
    <2> QED BY <1>0, <2>1, <2>5, <2>6, <2>7, <2>8, <2>9, HoldsShape
  <1>6. CASE out # "ok"
    <2>1. files' = [files EXCEPT ![job[h].cf].mu = Nobody] /\ return(h) /\ offs' = offs
      BY <1>2, <1>6
    <2>2. PICK x : x = [files[job[h].cf] EXCEPT !.mu = Nobody]
      OBVIOUS
    <2>3. x \in ClientFile /\ x.mu = Nobody /\ x.fid = fid /\ x.open = file(h).open /\ x.path = file(h).path
      BY <1>3, <2>2, FileLocked
    <2>4. /\ files' \in Seq(ClientFile) /\ Len(files') = Len(files) /\ files'[job[h].cf] = x
          /\ \A d \in (1..Len(files)) \ {job[h].cf} : files'[d] = files[d]
      <3>1. files' = [files EXCEPT ![job[h].cf] = x]
        BY <2>1, <2>2
      <3> QED BY <1>1, <2>3, <3>1, FileChanges
    <2>5. Ends(h) /\ Others(h) /\ pc' \in [Handlers -> Labels] /\ job' \in [Handlers -> Job]
      BY <2>1, Returns
    <2>6. Holds(h)
      BY <1>0, <1>1, <1>3, <1>4, <2>1, <2>3, <2>4, <2>5, NoJobType DEF Holds, Locking, Ends
    <2>7. files'[job[h].cf].open \in 0..Len(offs') /\ Len(offs) <= Len(offs')
      BY <1>0, <1>1, <2>1, <2>3, <2>4 DEF file, Shape, Types
    <2> QED BY <1>0, <2>1, <2>4, <2>5, <2>6, <2>7, HoldsShape
  <1> QED BY <1>5, <1>6

\* The clientFile of a fid that was taken out of the table is looked up,
Gets(h) ==
    /\ UNCHANGED <<ftab, ofs, files, offs, rtab, nfid, shared, dropped>> /\ Others(h)
    /\ pc[h] = "get" /\ pc'[h] \in {"remove", "close"} /\ job[h].of \in 1..Len(ofs)
    /\ job'[h].cf = ofs[job[h].of] /\ job'[h].of = job[h].of /\ job'[h].cur = job[h].cur
    /\ job'[h].req = job[h].req

\* A Tclunk or Tremove takes its fid out of the table,
LEMMA GetStep ==
    ASSUME Shape, NEW h \in Handlers, getFile(h)
    PROVE  Shape' /\ Gets(h)
  <1>0. /\ UNCHANGED <<ftab, ofs, files, offs, rtab, nfid, used, shared, dropped>> /\ pc[h] = "get"
        /\ job \in [Handlers -> Job] /\ pc \in [Handlers -> Labels] /\ JobOK(h)
        /\ job' = [job EXCEPT ![h].cf = ofs[job[h].of]]
        /\ pc' = [pc EXCEPT ![h] = IF job[h].req.op = "Remove" THEN "remove" ELSE "close"]
    BY DEF getFile, goto, tables, ghosts, Shape, Types
  <1>1. job[h].of \in 1..Len(ofs) /\ job[h].req.op \in {"Clunk", "Remove"}
    BY <1>0, Lengths DEF JobOK, OpOK
  <1>2. PICK n \in Nat : n = ofs[job[h].of] /\ n \in 1..Len(files)
    BY <1>1, ElementOfSeq DEF Shape, Types
  <1>3. /\ job' \in [Handlers -> Job] /\ \A g \in Handlers \ {h} : job'[g] = job[g]
        /\ job'[h].cf = n /\ job'[h].of = job[h].of /\ job'[h].cur = job[h].cur
        /\ job'[h].req = job[h].req /\ job'[h].file = job[h].file
    <2>1. job' = [job EXCEPT ![h].cf = n]
      BY <1>0, <1>2
    <2> QED BY <1>0, <2>1 DEF Job
  <1>4. /\ pc' \in [Handlers -> Labels] /\ \A g \in Handlers \ {h} : pc'[g] = pc[g]
        /\ pc'[h] = IF job[h].req.op = "Remove" THEN "remove" ELSE "close"
    BY <1>0 DEF Labels
  <1>5. JobOK(h)'
    <2>1. n \in 0..Len(files) /\ n # 0
      BY <1>2, Lengths
    <2>2. OpOK(h)' /\ ~Twalk(h)' /\ pc'[h] \notin {"seek", "send", "read"}
      BY <1>1, <1>3, <1>4 DEF OpOK, Twalk
    <2> QED BY <1>0, <1>3, <2>1, <2>2 DEF JobOK
  <1>6. Shape'
    <2>1. nfid' \in Nat /\ nfid <= nfid' /\ DOMAIN rtab' \subseteq 1..nfid' /\ dropped' \subseteq 1..nfid'
          /\ used' \in 0..MaxRequests
      BY <1>0 DEF Shape, Types
    <2>2. \A g \in Handlers \ {h} : Kept(g)
      BY <1>3, <1>4 DEF Kept
    <2> QED BY <1>0, <1>3, <1>4, <1>5, <2>1, <2>2, ShapeLocal
  <1> QED BY <1>0, <1>1, <1>2, <1>3, <1>4, <1>6 DEF Gets, Others

\* and its remote fid released.
Releases(h) ==
    /\ UNCHANGED <<ftab, ofs, files, offs, nfid, shared, dropped>> /\ Others(h) /\ job[h].cf \in 1..Len(files)
    /\ \/ pc[h] = "remove" /\ pc'[h] = "close" /\ job'[h] = job[h] /\ rtab' = rtab
       \/ /\ rtab' = without(rtab, file(h).fid)
          /\ \/ pc[h] = "remove" /\ pc'[h] = "close" /\ job'[h] = job[h]
             \/ pc[h] = "close" /\ Ends(h)

\* and then gives up the remote fid.
LEMMA ReleaseStep ==
    ASSUME Shape, NEW h \in Handlers, RemoveFile(h) \/ Close(h)
    PROVE  Shape' /\ Releases(h)
  <1>0. /\ UNCHANGED <<ftab, ofs, files, offs, nfid, used, shared, dropped>>
        /\ job \in [Handlers -> Job] /\ pc \in [Handlers -> Labels] /\ JobOK(h)
        /\ rtab' = without(rtab, file(h).fid) \/ (rtab' = rtab /\ pc[h] = "remove")
        /\ \/ pc[h] = "remove" /\ pc' = [pc EXCEPT ![h] = "close"] /\ job' = job
           \/ pc[h] = "close" /\ return(h)
    BY DEF RemoveFile, Close, goto, tables, ghosts, Shape, Types
  <1>1. job[h].cf \in 1..Len(files)
    BY <1>0, Lengths DEF JobOK, OpOK
  <1>2. /\ Others(h) /\ pc' \in [Handlers -> Labels] /\ job' \in [Handlers -> Job]
        /\ \/ pc[h] = "remove" /\ pc'[h] = "close" /\ job'[h] = job[h]
           \/ pc[h] = "close" /\ Ends(h)
    BY <1>0, Returns DEF Labels, Others
  <1>3. JobOK(h)' \/ Ends(h)
    <2>1. CASE pc[h] = "remove" /\ pc'[h] = "close" /\ job'[h] = job[h]
      BY <1>0, <2>1 DEF JobOK, OpOK, Twalk
    <2> QED BY <1>2, <2>1
  <1>4. Shape'
    <2>1. nfid' \in Nat /\ nfid <= nfid' /\ dropped' \subseteq 1..nfid' /\ used' \in 0..MaxRequests
      BY <1>0 DEF Shape, Types
    <2>2. DOMAIN rtab' \subseteq 1..nfid'
      <3>1. DOMAIN rtab' \subseteq DOMAIN rtab
        BY <1>0 DEF without
      <3> QED BY <1>0, <3>1 DEF Shape, Types
    <2>3. \A g \in Handlers \ {h} : Kept(g)
      BY <1>2 DEF Others, Kept
    <2> QED BY <1>0, <1>2, <1>3, <2>1, <2>2, <2>3, ShapeLocal
  <1> QED BY <1>0, <1>1, <1>2, <1>4 DEF Releases

\* A Tcreate through the clone.
Creates(h) ==
    LET new == job[h].new
    IN  /\ UNCHANGED <<ftab, ofs, files, offs, nfid, shared, dropped, job>> /\ Others(h)
        /\ pc[h] = "create" /\ pc'[h] \in {"created", "undo"}
        /\ DOMAIN rtab' = DOMAIN rtab /\ \A r \in DOMAIN rtab \ {new} : rtab'[r] = rtab[r]
        /\ pc'[h] = "created" =>
              /\ new \in DOMAIN rtab /\ rtab'[new].open
              /\ rtab'[new].path = Append(rtab[new].path, "x")

\* Create moves the fid that it has cloned to the new file.
LEMMA CreateFileStep ==
    ASSUME Shape, NEW h \in Handlers, CreateFile(h)
    PROVE  Shape' /\ Creates(h)
  <1>0. /\ UNCHANGED <<ftab, ofs, files, offs, nfid, used, shared, dropped, job>> /\ pc[h] = "create"
        /\ job \in [Handlers -> Job] /\ pc \in [Handlers -> Labels] /\ JobOK(h)
    BY DEF CreateFile, goto, tables, ghosts, Shape, Types
  <1>1. PICK out \in {"ok", "refused", "lost"} :
            /\ rpc(h, job[h].new, out)
            /\ IF out = "refused" THEN UNCHANGED rtab
               ELSE reached(job[h].new, Append(rtab[job[h].new].path, "x"), TRUE)
            /\ goto(h, IF out = "ok" THEN "created" ELSE "undo")
    BY DEF CreateFile
  <1>2. /\ pc' \in [Handlers -> Labels] /\ Others(h) /\ pc'[h] = IF out = "ok" THEN "created" ELSE "undo"
    BY <1>0, <1>1 DEF goto, Labels, Others
  <1>3. /\ DOMAIN rtab' = DOMAIN rtab /\ \A r \in DOMAIN rtab \ {job[h].new} : rtab'[r] = rtab[r]
        /\ out = "ok" => /\ job[h].new \in DOMAIN rtab /\ rtab'[job[h].new].open
                         /\ rtab'[job[h].new].path = Append(rtab[job[h].new].path, "x")
    <2>1. CASE out = "refused"
      BY <1>1, <2>1
    <2>2. CASE out # "refused"
      <3>1. PICK n, v : /\ n = job[h].new /\ n \in DOMAIN rtab /\ rtab' = with(rtab, n, v)
                        /\ v.path = Append(rtab[n].path, "x") /\ v.open = TRUE
        BY <1>1, <2>2 DEF rpc, reached
      <3>2. DOMAIN rtab' = DOMAIN rtab /\ rtab'[n] = v /\ \A r \in DOMAIN rtab \ {n} : rtab'[r] = rtab[r]
        BY <3>1 DEF with
      <3> QED BY <3>1, <3>2
    <2> QED BY <2>1, <2>2
  <1>4. JobOK(h)'
    BY <1>0, <1>2 DEF JobOK, OpOK, Twalk
  <1>5. Shape'
    <2>1. nfid' \in Nat /\ nfid <= nfid' /\ DOMAIN rtab' \subseteq 1..nfid' /\ dropped' \subseteq 1..nfid'
          /\ used' \in 0..MaxRequests /\ job' \in [Handlers -> Job]
      BY <1>0, <1>3 DEF Shape, Types
    <2>2. \A g \in Handlers \ {h} : Kept(g)
      BY <1>2 DEF Others, Kept
    <2> QED BY <1>0, <1>2, <1>4, <2>1, <2>2, ShapeLocal
  <1> QED BY <1>0, <1>2, <1>3, <1>5 DEF Creates

\* A walk or a clone makes a remote fid.
Makes(h) ==
    /\ UNCHANGED <<ftab, ofs, files, offs, shared, dropped>> /\ Others(h)
    /\ nfid' = nfid + 1
    /\ \/ pc[h] = "walk" /\ pc'[h] \in {"stat", "quiet"}
       \/ pc[h] = "clone" /\ pc'[h] = "create"
    /\ job'[h].new = nfid' /\ job'[h].req = job[h].req /\ job'[h].of = job[h].of /\ job'[h].cf = job[h].cf
    /\ job'[h].cur = job[h].cur /\ job'[h].i = job[h].i /\ job'[h].path = job[h].path
    /\ DOMAIN rtab' = DOMAIN rtab \cup {nfid'} /\ \A r \in DOMAIN rtab : rtab'[r] = rtab[r]
    /\ pc'[h] = "stat" => rtab'[nfid'].path = job[h].path
    /\ pc'[h] = "create" => file(h).fid \in DOMAIN rtab /\ rtab'[nfid'].path = rtab[file(h).fid].path

\* What allocating a remote fid changes of a job.
LEMMA JobNew ==
    ASSUME NEW j \in Job, NEW n \in Nat, NEW k, k = [j EXCEPT !.new = n]
    PROVE  /\ k \in Job /\ k.new = n
           /\ k.req = j.req /\ k.of = j.of /\ k.cf = j.cf /\ k.cur = j.cur /\ k.i = j.i
           /\ k.path = j.path /\ k.file = j.file
  BY DEF Job

\* A step that makes a remote fid keeps Shape.
LEMMA MakesShape ==
    ASSUME Shape, NEW h \in Handlers, NEW label, NEW path, NEW open,
           UNCHANGED <<ftab, ofs, files, offs, used, shared, dropped>>, nfid' = nfid + 1,
           pc' = [pc EXCEPT ![h] = label], job' = [job EXCEPT ![h].new = nfid + 1],
           \/ pc[h] = "walk" /\ label \in {"stat", "quiet"}
           \/ pc[h] = "clone" /\ label = "create",
           reached(nfid + 1, path, open), label = "stat" => path = job[h].path,
           label = "create" => file(h).fid \in DOMAIN rtab /\ path = rtab[file(h).fid].path
    PROVE  Shape' /\ Makes(h)
  <1>0. /\ job \in [Handlers -> Job] /\ pc \in [Handlers -> Labels] /\ JobOK(h)
        /\ nfid \in Nat \ {0} /\ DOMAIN rtab \subseteq 1..nfid
    BY DEF Shape, Types
  <1>1. PICK n \in Nat : n = nfid + 1
    BY <1>0
  <1>2. job'[h] = [job[h] EXCEPT !.new = n] /\ job[h] \in Job /\ \A g \in Handlers \ {h} : job'[g] = job[g]
    BY <1>0, <1>1
  <1>3. /\ job'[h] \in Job /\ job'[h].new = n /\ job'[h].req = job[h].req /\ job'[h].of = job[h].of
        /\ job'[h].cf = job[h].cf /\ job'[h].cur = job[h].cur /\ job'[h].i = job[h].i
        /\ job'[h].path = job[h].path /\ job'[h].file = job[h].file
    BY <1>2, JobNew
  <1>4. job' \in [Handlers -> Job]
    BY <1>0, <1>2, <1>3
  <1>5. pc' \in [Handlers -> Labels] /\ pc'[h] = label /\ Others(h)
    BY <1>0, <1>2 DEF Labels, Others
  <1>6. n \notin DOMAIN rtab /\ n \in 1..n /\ 1..nfid \subseteq 1..n /\ nfid <= n
    BY <1>0, <1>1
  <1>7. PICK v : v.path = path /\ rtab' = with(rtab, n, v)
    BY <1>1 DEF reached
  <1>8. DOMAIN rtab' = DOMAIN rtab \cup {n} /\ rtab'[n] = v /\ \A r \in DOMAIN rtab : rtab'[r] = rtab[r]
    BY <1>6, <1>7 DEF with
  <1>9. JobOK(h)'
    <2>1. OpOK(h)' /\ (Twalk(h)' => Twalk(h)) /\ pc'[h] \notin {"name", "seek", "send", "read"}
      BY <1>0, <1>3, <1>5 DEF JobOK, OpOK, Twalk
    <2>2. Twalk(h) => pc[h] = "walk"
      BY DEF Twalk
    <2> QED BY <1>0, <1>3, <1>5, <2>1, <2>2 DEF JobOK
  <1>10. Shape'
    <2>1. dropped' \subseteq 1..nfid' /\ used' \in 0..MaxRequests
      BY <1>1, <1>6 DEF Shape, Types
    <2>2. DOMAIN rtab' \subseteq 1..nfid' /\ nfid' \in Nat /\ nfid <= nfid'
      BY <1>0, <1>1, <1>6, <1>8
    <2>3. \A g \in Handlers \ {h} : Kept(g)
      BY <1>5 DEF Others, Kept
    <2> QED BY <1>4, <1>5, <1>9, <2>1, <2>2, <2>3, ShapeLocal
  <1> QED BY <1>1, <1>3, <1>5, <1>7, <1>8, <1>10 DEF Makes

\* A walk fails: the Twalk answers with what it has.
Retreats(h) ==
    /\ pc'[h] = "name" /\ Twalk(h) /\ job[h].i > 1 /\ job'[h].i = job[h].i - 1
    /\ job'[h].req.op = "Walk" /\ job'[h].of = job[h].of /\ job'[h].cf = job[h].cf /\ job'[h].cur = job[h].cur

\* A walk, a clone or a create ends without a new clientFile, and leaves a remote fid
\* behind or not.
Quits(h) ==
    /\ UNCHANGED <<ftab, ofs, files, offs, shared>> /\ Others(h)
    /\ pc[h] \in {"walk", "quiet", "stat", "clone", "undo"}
    /\ Retreats(h) \/ (Ends(h) /\ (Twalk(h) => job[h].i = 1))
    /\ nfid' \in {nfid, nfid + 1} /\ dropped \subseteq dropped'
    /\ \A r \in DOMAIN rtab :
          \/ pc[h] \in Making /\ r = job[h].new
          \/ r \in DOMAIN rtab' /\ rtab'[r] = rtab[r]
    /\ \A r \in DOMAIN rtab' :
          r \in dropped' \/ (r \in DOMAIN rtab /\ ~(pc[h] \in Making /\ r = job[h].new))
    /\ \A r \in DOMAIN rtab' : r \in DOMAIN rtab \/ r = nfid + 1

\* What walkFails does.
LEMMA WalkFails ==
    ASSUME Shape, NEW h \in Handlers, NEW lost, walkFails(h, lost), pc[h] \in {"walk", "quiet", "stat"}
    PROVE  /\ Others(h) /\ dropped' = dropped \cup lost
           /\ Retreats(h) \/ (Ends(h) /\ (Twalk(h) => job[h].i = 1))
           /\ pc' \in [Handlers -> Labels] /\ job' \in [Handlers -> Job]
           /\ UNCHANGED <<ofs, files, offs>> => JobOK(h)' \/ Ends(h)
  <1>0. /\ job \in [Handlers -> Job] /\ pc \in [Handlers -> Labels] /\ JobOK(h) /\ job[h] \in Job
        /\ job[h].i \in Nat
    BY DEF Shape, Types, Job
  <1>1. CASE job[h].req.op = "Walk" /\ job[h].i > 1
    <2>1. /\ pc' = [pc EXCEPT ![h] = "name"] /\ dropped' = dropped \cup lost
          /\ job' = [job EXCEPT ![h].req.names = SubSeq(@, 1, job[h].i - 1), ![h].i = @ - 1]
      BY <1>1 DEF walkFails, goto, drop
    <2>2. Twalk(h) /\ job[h].i \in 2..Len(job[h].req.names) /\ job[h].req \in Asked
          /\ job[h].req.names \in Paths \ {<<>>} /\ Len(job[h].req.names) \in Nat
      <3>1. Twalk(h) /\ job[h].req \in Asked
        BY <1>0, <1>1 DEF Twalk, Job, NoReq
      <3>2. job[h].req.names \in Paths \ {<<>>}
        BY <1>1, <3>1, ReqFacts
      <3>3. Len(job[h].req.names) \in Nat
        BY <3>2, LenProperties DEF Paths
      <3> QED BY <1>0, <1>1, <3>1, <3>2, <3>3 DEF JobOK
    <2>3. PICK s, n : s = SubSeq(job[h].req.names, 1, job[h].i - 1) /\ n = job[h].i - 1
      OBVIOUS
    <2>4. s \in Paths \ {<<>>} /\ Len(s) = n /\ n \in Nat \ {0}
      <3>1. \A k \in 1..(job[h].i - 1) : job[h].req.names[k] \in Names
        BY <2>2, ElementOfSeq DEF Paths
      <3>2. s \in Paths /\ Len(s) = job[h].i - 1
        BY <2>2, <2>3, <3>1, SubSeqProperties DEF Paths
      <3> QED BY <2>2, <2>3, <3>2, EmptySeq
    <2>5. PICK r : r = [job[h].req EXCEPT !.names = s]
      OBVIOUS
    <2>6. r \in Asked /\ r.op = "Walk" /\ r.names = s
      BY <1>1, <2>2, <2>4, <2>5, ShorterWalk
    <2>7. job'[h] = [job[h] EXCEPT !.req = r, !.i = n] /\ \A g \in Handlers \ {h} : job'[g] = job[g]
      BY <1>0, <2>1, <2>3, <2>5
    <2>8. /\ job'[h] \in Job /\ job'[h].req = r /\ job'[h].i = n /\ job'[h].of = job[h].of
          /\ job'[h].cf = job[h].cf /\ job'[h].cur = job[h].cur /\ job'[h].file = job[h].file
      BY <1>0, <2>4, <2>6, <2>7 DEF Job
    <2>9. job' \in [Handlers -> Job]
      <3>1. job' \in [Handlers -> {job'[g] : g \in Handlers}]
        BY <1>0, <2>1
      <3> QED BY <1>0, <2>7, <2>8, <3>1
    <2>10. pc' \in [Handlers -> Labels] /\ pc'[h] = "name" /\ Others(h)
      BY <1>0, <2>1, <2>7 DEF Labels, Others
    <2>11. Retreats(h)
      BY <1>1, <2>2, <2>3, <2>6, <2>8, <2>10 DEF Retreats
    <2>12. ASSUME UNCHANGED <<ofs, files, offs>> PROVE JobOK(h)'
      <3>1. OpOK(h)'
        BY <2>6, <2>8, <2>10 DEF OpOK
      <3>2. n <= Len(s) /\ n # 0
        BY <2>4
      <3>3. job[h].of # 0 /\ job[h].cf # 0 /\ job[h].cur # 0
        BY <1>0, <1>1 DEF JobOK
      <3> QED BY <1>0, <2>6, <2>8, <2>10, <2>12, <3>1, <3>2, <3>3 DEF JobOK
    <2> QED BY <2>1, <2>9, <2>10, <2>11, <2>12
  <1>2. CASE ~(job[h].req.op = "Walk" /\ job[h].i > 1)
    <2>1. return(h) /\ dropped' = dropped \cup lost
      BY <1>2 DEF walkFails, drop
    <2>2. Twalk(h) => job[h].i = 1
      BY <1>0, <1>2 DEF JobOK, Twalk
    <2> QED BY <2>1, <2>2, Returns
  <1> QED BY <1>1, <1>2

\* A step that gives a walk or a create up keeps Shape.
LEMMA QuitsShape ==
    ASSUME Shape, NEW h \in Handlers, UNCHANGED <<ftab, ofs, files, offs, used, shared>>,
           pc[h] \in {"walk", "quiet", "stat", "clone", "undo"}, Others(h),
           Retreats(h) \/ (Ends(h) /\ (Twalk(h) => job[h].i = 1)), JobOK(h)' \/ Ends(h),
           pc' \in [Handlers -> Labels], job' \in [Handlers -> Job],
           nfid' \in {nfid, nfid + 1}, dropped \subseteq dropped', dropped' \subseteq 1..nfid',
           \A r \in DOMAIN rtab :
              \/ pc[h] \in Making /\ r = job[h].new
              \/ r \in DOMAIN rtab' /\ rtab'[r] = rtab[r],
           \A r \in DOMAIN rtab' :
              r \in dropped' \/ (r \in DOMAIN rtab /\ ~(pc[h] \in Making /\ r = job[h].new)),
           \A r \in DOMAIN rtab' : r \in DOMAIN rtab \/ r = nfid + 1
    PROVE  Shape' /\ Quits(h)
  <1>1. nfid \in Nat /\ DOMAIN rtab \subseteq 1..nfid /\ used' \in 0..MaxRequests
    BY DEF Shape, Types
  <1>2. nfid' \in Nat /\ nfid <= nfid' /\ 1..nfid \subseteq 1..nfid'
    BY <1>1
  <1>3. DOMAIN rtab' \subseteq 1..nfid'
    BY <1>1, <1>2
  <1>4. \A g \in Handlers \ {h} : Kept(g)
    BY DEF Others, Kept
  <1>5. Shape'
    BY <1>1, <1>2, <1>3, <1>4, ShapeLocal
  <1> QED BY <1>5 DEF Quits

\* A Twalk to the remote server makes a fid or ends the walk.
LEMMA WalkToStep ==
    ASSUME Shape, NEW h \in Handlers, walkTo(h)
    PROVE  Shape' /\ (Makes(h) \/ Quits(h))
  <1>0. /\ UNCHANGED <<ftab, ofs, files, offs, used, shared>> /\ pc[h] = "walk" /\ nfid' = nfid + 1
        /\ nfid \in Nat \ {0} /\ DOMAIN rtab \subseteq 1..nfid /\ dropped \subseteq 1..nfid
    BY DEF walkTo, tables, Shape, Types
  <1>1. PICK n \in Nat : n = nfid + 1
    BY <1>0
  <1>2. n \notin DOMAIN rtab /\ n \in 1..n /\ 1..nfid \subseteq 1..n
    BY <1>0, <1>1
  <1>3. CASE /\ reached(nfid + 1, job[h].path, FALSE) /\ dropped' = dropped
             /\ goto(h, "stat") /\ job' = [job EXCEPT ![h].new = nfid + 1]
    <2>1. Shape' /\ Makes(h)
      BY <1>0, <1>3, MakesShape DEF goto
    <2> QED BY <2>1
  <1>4. CASE /\ reached(nfid + 1, Front(job[h].path), FALSE) /\ dropped' = dropped
             /\ goto(h, "quiet") /\ job' = [job EXCEPT ![h].new = nfid + 1]
    <2>1. Shape' /\ Makes(h)
      BY <1>0, <1>4, MakesShape DEF goto
    <2> QED BY <2>1
  <1>5. CASE walkFails(h, {}) /\ rtab' = rtab
    <2>0. PICK lost : lost = {} /\ walkFails(h, lost)
      BY <1>5
    <2>1. /\ Others(h) /\ dropped' = dropped
          /\ Retreats(h) \/ (Ends(h) /\ (Twalk(h) => job[h].i = 1))
          /\ pc' \in [Handlers -> Labels] /\ job' \in [Handlers -> Job] /\ (JobOK(h)' \/ Ends(h))
      <3>1. /\ Others(h) /\ dropped' = dropped \cup lost
            /\ Retreats(h) \/ (Ends(h) /\ (Twalk(h) => job[h].i = 1))
            /\ pc' \in [Handlers -> Labels] /\ job' \in [Handlers -> Job] /\ (JobOK(h)' \/ Ends(h))
        BY <1>0, <1>5, <2>0, WalkFails
      <3> QED BY <2>0, <3>1
    <2>2. dropped' \subseteq 1..nfid'
      BY <1>0, <1>1, <1>2, <2>1
    <2>3. pc[h] \notin Making
      BY <1>0 DEF Making
    <2>4. Shape' /\ Quits(h)
      BY <1>0, <1>5, <2>1, <2>2, <2>3, QuitsShape
    <2> QED BY <2>4
  <1>6. CASE walkFails(h, {nfid + 1}) /\ reached(nfid + 1, job[h].path, FALSE)
    <2>0. PICK lost : lost = {nfid + 1} /\ walkFails(h, lost)
      BY <1>6
    <2>1. /\ Others(h) /\ dropped' = dropped \cup {nfid + 1}
          /\ Retreats(h) \/ (Ends(h) /\ (Twalk(h) => job[h].i = 1))
          /\ pc' \in [Handlers -> Labels] /\ job' \in [Handlers -> Job] /\ (JobOK(h)' \/ Ends(h))
      <3>1. /\ Others(h) /\ dropped' = dropped \cup lost
            /\ Retreats(h) \/ (Ends(h) /\ (Twalk(h) => job[h].i = 1))
            /\ pc' \in [Handlers -> Labels] /\ job' \in [Handlers -> Job] /\ (JobOK(h)' \/ Ends(h))
        BY <1>0, <1>6, <2>0, WalkFails
      <3> QED BY <2>0, <3>1
    <2>2. dropped' \subseteq 1..nfid' /\ dropped \subseteq dropped' /\ n \in dropped'
      BY <1>0, <1>1, <1>2, <2>1
    <2>3. pc[h] \notin Making
      BY <1>0 DEF Making
    <2>4. PICK v : rtab' = with(rtab, n, v)
      BY <1>1, <1>6 DEF reached
    <2>5. DOMAIN rtab' = DOMAIN rtab \cup {n} /\ \A r \in DOMAIN rtab : rtab'[r] = rtab[r]
      BY <1>2, <2>4 DEF with
    <2>6. /\ \A r \in DOMAIN rtab : r \in DOMAIN rtab' /\ rtab'[r] = rtab[r]
          /\ \A r \in DOMAIN rtab' : r \in dropped' \/ r \in DOMAIN rtab
          /\ \A r \in DOMAIN rtab' : r \in DOMAIN rtab \/ r = nfid + 1
      BY <1>1, <2>2, <2>5
    <2>7. Shape' /\ Quits(h)
      BY <1>0, <2>1, <2>2, <2>3, <2>6, QuitsShape
    <2> QED BY <2>7
  <1> QED BY <1>3, <1>4, <1>5, <1>6 DEF walkTo

\* Without the remote fid that h has made.
LEMMA UnmakeFacts ==
    ASSUME NEW h \in Handlers, rtab' = without(rtab, job[h].new), pc[h] \in Making
    PROVE  /\ \A r \in DOMAIN rtab : r = job[h].new \/ (r \in DOMAIN rtab' /\ rtab'[r] = rtab[r])
           /\ \A r \in DOMAIN rtab' : r \in DOMAIN rtab /\ r # job[h].new
  <1>1. PICK n : n = job[h].new /\ rtab' = without(rtab, n)
    OBVIOUS
  <1>2. DOMAIN rtab' = DOMAIN rtab \ {n} /\ \A r \in DOMAIN rtab \ {n} : rtab'[r] = rtab[r]
    BY <1>1 DEF without
  <1> QED BY <1>1, <1>2

\* The clunk after a short walk ends it.
LEMMA QuietStep ==
    ASSUME Shape, NEW h \in Handlers, clunkQuiet(h)
    PROVE  Shape' /\ Quits(h)
  <1>0. /\ UNCHANGED <<ftab, ofs, files, offs, used, shared, nfid>> /\ pc[h] = "quiet"
        /\ dropped \subseteq 1..nfid /\ walkFails(h, {}) /\ rtab' = without(rtab, job[h].new)
    BY DEF clunkQuiet, tables, Shape, Types
  <1>1. /\ Others(h) /\ dropped' = dropped
        /\ Retreats(h) \/ (Ends(h) /\ (Twalk(h) => job[h].i = 1))
        /\ pc' \in [Handlers -> Labels] /\ job' \in [Handlers -> Job] /\ (JobOK(h)' \/ Ends(h))
    <2>0. PICK lost : lost = {} /\ walkFails(h, lost)
      BY <1>0
    <2>1. /\ Others(h) /\ dropped' = dropped \cup lost
          /\ Retreats(h) \/ (Ends(h) /\ (Twalk(h) => job[h].i = 1))
          /\ pc' \in [Handlers -> Labels] /\ job' \in [Handlers -> Job] /\ (JobOK(h)' \/ Ends(h))
      BY <1>0, <2>0, WalkFails
    <2> QED BY <2>0, <2>1
  <1>2. pc[h] \in Making
    BY <1>0 DEF Making
  <1>3. /\ \A r \in DOMAIN rtab : r = job[h].new \/ (r \in DOMAIN rtab' /\ rtab'[r] = rtab[r])
        /\ \A r \in DOMAIN rtab' : r \in DOMAIN rtab /\ r # job[h].new
    BY <1>0, <1>2, UnmakeFacts
  <1> QED BY <1>0, <1>1, <1>2, <1>3, QuitsShape

\* So does the clunk after a Tcreate that failed.
LEMMA UndoStep ==
    ASSUME Shape, News, NEW h \in Handlers, createUndo(h)
    PROVE  Shape' /\ Quits(h)
  <1>0. /\ UNCHANGED <<ftab, ofs, files, offs, used, shared, nfid>> /\ pc[h] = "undo"
        /\ dropped \subseteq 1..nfid /\ return(h)
        /\ \/ rtab' = without(rtab, job[h].new) /\ dropped' = dropped
           \/ rtab' = rtab /\ dropped' = dropped \cup {job[h].new}
    BY DEF createUndo, drop, tables, Shape, Types
  <1>1. Ends(h) /\ Others(h) /\ pc' \in [Handlers -> Labels] /\ job' \in [Handlers -> Job]
    BY <1>0, Returns
  <1>2. pc[h] \in Making /\ ~Twalk(h)
    BY <1>0 DEF Making, Twalk
  <1>3. CASE rtab' = without(rtab, job[h].new) /\ dropped' = dropped
    <2>1. /\ \A r \in DOMAIN rtab : r = job[h].new \/ (r \in DOMAIN rtab' /\ rtab'[r] = rtab[r])
          /\ \A r \in DOMAIN rtab' : r \in DOMAIN rtab /\ r # job[h].new
      BY <1>2, <1>3, UnmakeFacts
    <2> QED BY <1>0, <1>1, <1>2, <1>3, <2>1, QuitsShape
  <1>4. CASE rtab' = rtab /\ dropped' = dropped \cup {job[h].new}
    <2>1. job[h].new \in 1..nfid
      BY <1>2 DEF News, Shape, Types
    <2>2. dropped' \subseteq 1..nfid' /\ dropped \subseteq dropped' /\ job[h].new \in dropped'
      BY <1>0, <1>4, <2>1
    <2> QED BY <1>0, <1>1, <1>2, <1>4, <2>2, QuitsShape
  <1> QED BY <1>0, <1>3, <1>4

\* Create begins with a clone of the directory, or ends.
LEMMA CreateStep ==
    ASSUME Shape, NEW h \in Handlers, Create(h)
    PROVE  Shape' /\ (Makes(h) \/ Quits(h))
  <1>0. /\ UNCHANGED <<ftab, ofs, files, offs, used, shared>> /\ pc[h] = "clone" /\ nfid' = nfid + 1
        /\ nfid \in Nat \ {0} /\ DOMAIN rtab \subseteq 1..nfid /\ dropped \subseteq 1..nfid
    BY DEF Create, tables, Shape, Types
  <1>1. PICK n \in Nat : n = nfid + 1
    BY <1>0
  <1>2. n \notin DOMAIN rtab /\ n \in 1..n /\ 1..nfid \subseteq 1..n
    BY <1>0, <1>1
  <1>3. pc[h] \notin Making /\ ~Twalk(h)
    BY <1>0 DEF Making, Twalk
  <1>4. CASE /\ reached(nfid + 1, rtab[file(h).fid].path, FALSE) /\ dropped' = dropped
             /\ file(h).fid \in DOMAIN rtab /\ goto(h, "create") /\ job' = [job EXCEPT ![h].new = nfid + 1]
    <2>1. Shape' /\ Makes(h)
      BY <1>0, <1>4, MakesShape DEF goto
    <2> QED BY <2>1
  <1>5. CASE return(h) /\ rtab' = rtab /\ dropped' = dropped
    <2>1. Ends(h) /\ Others(h) /\ pc' \in [Handlers -> Labels] /\ job' \in [Handlers -> Job]
      BY <1>5, Returns
    <2>2. dropped' \subseteq 1..nfid'
      BY <1>0, <1>1, <1>2, <1>5
    <2>3. Shape' /\ Quits(h)
      BY <1>0, <1>3, <1>5, <2>1, <2>2, QuitsShape
    <2> QED BY <2>3
  <1>6. CASE /\ return(h) /\ reached(nfid + 1, rtab[file(h).fid].path, FALSE)
             /\ dropped' = dropped \cup {nfid + 1}
    <2>1. Ends(h) /\ Others(h) /\ pc' \in [Handlers -> Labels] /\ job' \in [Handlers -> Job]
      BY <1>6, Returns
    <2>2. dropped' \subseteq 1..nfid' /\ dropped \subseteq dropped' /\ n \in dropped'
      BY <1>0, <1>1, <1>2, <1>6
    <2>4. PICK v : rtab' = with(rtab, n, v)
      BY <1>1, <1>6 DEF reached
    <2>5. DOMAIN rtab' = DOMAIN rtab \cup {n} /\ \A r \in DOMAIN rtab : rtab'[r] = rtab[r]
      BY <1>2, <2>4 DEF with
    <2>6. /\ \A r \in DOMAIN rtab : r \in DOMAIN rtab' /\ rtab'[r] = rtab[r]
          /\ \A r \in DOMAIN rtab' : r \in dropped' \/ r \in DOMAIN rtab
          /\ \A r \in DOMAIN rtab' : r \in DOMAIN rtab \/ r = nfid + 1
      BY <1>1, <2>2, <2>5
    <2>7. Shape' /\ Quits(h)
      BY <1>0, <1>3, <2>1, <2>2, <2>6, QuitsShape
    <2> QED BY <2>7
  <1> QED BY <1>4, <1>5, <1>6 DEF Create, drop, rpc

\* The next name of a Twalk.
Steps(h) ==
    /\ UNCHANGED <<ftab, ofs, files, offs, rtab, nfid, dropped>> /\ Others(h)
    /\ pc[h] = "name" /\ pc'[h] \in {"name", "walk"} /\ job'[h].i = job[h].i + 1
    /\ job'[h].req = job[h].req /\ job'[h].of = job[h].of /\ job'[h].cf = job[h].cf /\ job'[h].cur = job[h].cur
    /\ shared \subseteq shared' /\ (pc'[h] = "name" => job[h].cur \in shared')

\* The paths it goes to.
LEMMA PathFacts ==
    ASSUME NEW path \in Paths, NEW name \in Names
    PROVE  /\ Append(path, name) \in Paths
           /\ path # <<>> => Front(path) \in Paths
  <1>1. Append(path, name) \in Paths
    BY AppendProperties DEF Paths
  <1>2. ASSUME path # <<>> PROVE Front(path) \in Paths
    <2>1. Len(path) \in Nat /\ Len(path) # 0
      BY <1>2, EmptySeq, LenProperties DEF Paths
    <2>2. \A k \in 1..(Len(path) - 1) : path[k] \in Names
      BY <2>1, ElementOfSeq DEF Paths
    <2>3. SubSeq(path, 1, Len(path) - 1) \in Seq(Names)
      BY <2>1, <2>2, SubSeqProperties DEF Paths
    <2> QED BY <2>3 DEF Front, Paths
  <1> QED BY <1>1, <1>2

\* Walk goes on to its next name,
LEMMA NameStep ==
    ASSUME Shape, NEW h \in Handlers, Walk(h), job[h].i + 1 <= Len(job[h].req.names)
    PROVE  Shape' /\ Steps(h)
  <1>0. /\ UNCHANGED <<ftab, ofs, files, offs, rtab, nfid, used, dropped>> /\ pc[h] = "name"
        /\ job \in [Handlers -> Job] /\ pc \in [Handlers -> Labels] /\ JobOK(h) /\ job[h] \in Job
        /\ job[h].i \in Nat /\ job[h].cur \in 1..Len(files) /\ job[h].req.op = "Walk"
    <2>1. Len(job[h].req.names) \in Nat /\ pc[h] = "name"
      <3>1. job[h].req \in Asked /\ job[h].req.op = "Walk" /\ pc[h] = "name"
        BY DEF Shape, Types, JobOK, OpOK, Walk, Job, NoReq
      <3> QED BY <3>1, ReqFacts, LenProperties DEF Paths
    <2>2. job[h].i + 1 \in Int /\ ~(job[h].i + 1 > Len(job[h].req.names))
      BY <2>1 DEF Shape, Types, Job
    <2>3. UNCHANGED <<ftab, ofs, dropped>>
      BY <2>2 DEF Walk, ghosts
    <2>4. UNCHANGED <<files, offs, rtab, nfid, used>>
      BY DEF Walk
    <2>5. /\ job \in [Handlers -> Job] /\ pc \in [Handlers -> Labels] /\ JobOK(h) /\ job[h] \in Job
          /\ job[h].i \in Nat
      BY DEF Shape, Types, Job
    <2> QED BY <2>1, <2>3, <2>4, <2>5, Lengths DEF JobOK, OpOK
  <1>1. PICK n \in Nat, names \in Paths, path \in Paths :
          n = job[h].i + 1 /\ names = job[h].req.names /\ path = files[job[h].cur].path
    <2>1. job[h].req.names \in Paths
      BY <1>0, ReqFacts DEF Job, NoReq
    <2>2. files[job[h].cur].path \in Paths
      <3>1. files[job[h].cur] \in ClientFile
        BY <1>0, ElementOfSeq DEF Shape, Types
      <3> QED BY <3>1 DEF ClientFile
    <2> QED BY <1>0, <2>1, <2>2
  <1>2. n \in 1..Len(names) /\ Len(names) \in Nat /\ names[n] \in Names
    BY <1>0, <1>1, LenProperties, ElementOfSeq, SMTT(40) DEF Paths
  <1>3. PICK p \in Paths : \/ /\ job' = [job EXCEPT ![h].i = n] /\ pc' = pc
                              /\ shared' = shared \cup {job[h].cur}
                           \/ /\ job' = [job EXCEPT ![h].i = n, ![h].path = p]
                              /\ pc' = [pc EXCEPT ![h] = "walk"] /\ shared' = shared
    <2>0. ~(n > Len(names))
      BY <1>2
    <2>1. CASE /\ job' = [job EXCEPT ![h].i = n] /\ pc' = pc
               /\ shared' = shared \cup {job[h].cur}
      BY <1>1, <2>1
    <2>2. CASE /\ ~(names[n] = ".." /\ path = <<>>) /\ goto(h, "walk") /\ shared' = shared
               /\ job' = [job EXCEPT ![h].i = n, ![h].path =
                              IF names[n] = ".." THEN Front(path) ELSE Append(path, names[n])]
      <3>1. (IF names[n] = ".." THEN Front(path) ELSE Append(path, names[n])) \in Paths
        BY <1>2, <2>2, PathFacts
      <3> QED BY <2>2, <3>1 DEF goto
    <2> QED BY <1>1, <2>0, <2>1, <2>2 DEF Walk, ghosts
  <1>4. /\ job'[h] = [job[h] EXCEPT !.i = n] \/ job'[h] = [job[h] EXCEPT !.i = n, !.path = p]
        /\ \A g \in Handlers \ {h} : job'[g] = job[g]
    BY <1>0, <1>3
  <1>5. /\ job'[h] \in Job /\ job'[h].i = n /\ job'[h].req = job[h].req /\ job'[h].of = job[h].of
        /\ job'[h].cf = job[h].cf /\ job'[h].cur = job[h].cur /\ job'[h].file = job[h].file
    <2>1. PICK j, k : /\ j \in Job /\ j = job[h] /\ k = job'[h]
                      /\ k = [j EXCEPT !.i = n] \/ k = [j EXCEPT !.i = n, !.path = p]
      BY <1>0, <1>4
    <2>2. k \in Job /\ k.i = n /\ k.req = j.req /\ k.of = j.of /\ k.cf = j.cf /\ k.cur = j.cur /\ k.file = j.file
      BY <2>1 DEF Job
    <2> QED BY <2>1, <2>2
  <1>6. job' \in [Handlers -> Job]
    <2>1. job' \in [Handlers -> {job'[g] : g \in Handlers}]
      BY <1>0, <1>3
    <2> QED BY <1>0, <1>4, <1>5, <2>1
  <1>7. /\ pc' \in [Handlers -> Labels] /\ pc'[h] \in {"name", "walk"} /\ Others(h)
        /\ shared \subseteq shared' /\ shared' \subseteq 1..Len(files)
        /\ pc'[h] = "name" => job[h].cur \in shared'
    BY <1>0, <1>3, <1>4 DEF Labels, Others, Shape, Types
  <1>8. Steps(h)
    BY <1>0, <1>1, <1>5, <1>7 DEF Steps
  <1>9. Types'
    BY <1>0, <1>6, <1>7 DEF Shape, Types
  <1>10. JobOK(h)'
    <2>1. OpOK(h)' /\ Twalk(h) /\ pc'[h] \notin {"seek", "send", "read"}
      BY <1>0, <1>5, <1>7 DEF JobOK, OpOK, Twalk
    <2>2. n # 0 /\ n <= Len(names)
      BY <1>2
    <2>3. n = 1 => job[h].cur = job[h].cf
      BY <1>0, <1>1, <2>1 DEF JobOK
    <2> QED BY <1>0, <1>1, <1>5, <2>1, <2>2, <2>3 DEF JobOK
  <1>11. Shape'
    BY <1>0, <1>7, <1>9, <1>10, Lengths, ShapeFrame DEF Others, Kept
  <1> QED BY <1>8, <1>11

\* What putFid does.
Puts(fid, c) ==
    /\ Len(ofs') = Len(ofs) + 1 /\ ofs'[Len(ofs) + 1] = c /\ \A o \in 1..Len(ofs) : ofs'[o] = ofs[o]
    /\ DOMAIN ftab' = DOMAIN ftab \cup {fid} /\ ftab'[fid] = Len(ofs) + 1
    /\ \A f \in DOMAIN ftab \ {fid} : ftab'[f] = ftab[f]
    /\ dropped \subseteq dropped'
    /\ \A f \in DOMAIN ftab : \/ files[ofs[ftab[f]]].fid \in dropped'
                              \/ \E e \in DOMAIN ftab' : ofs'[ftab'[e]] = ofs[ftab[f]]

\* What putFid does to the tables.
LEMMA PutFid ==
    ASSUME Shape, NEW fid \in Fids, NEW c \in Nat, putFid(fid, c)
    PROVE  /\ Puts(fid, c) /\ ofs' \in Seq(Nat) /\ DOMAIN ftab' \subseteq Fids
           /\ \A f \in DOMAIN ftab' : ftab'[f] \in 1..Len(ofs')
           /\ dropped' \subseteq 1..nfid
  <1>0. /\ ofs \in Seq(Nat) /\ Len(ofs) \in Nat /\ DOMAIN ftab \subseteq Fids /\ nfid \in Nat
        /\ \A f \in DOMAIN ftab : ftab[f] \in 1..Len(ofs) /\ ofs[ftab[f]] \in 1..Len(files)
        /\ \A d \in 1..Len(files) : files[d].fid \in 2..nfid
        /\ dropped \subseteq 1..nfid
    BY Lengths DEF Shape, Types
  <1>1. /\ ofs' \in Seq(Nat) /\ Len(ofs') = Len(ofs) + 1 /\ ofs'[Len(ofs) + 1] = c
        /\ \A o \in 1..Len(ofs) : ofs'[o] = ofs[o]
    BY <1>0, AppendFacts DEF putFid
  <1>2. PICK n : n = Len(ofs) + 1 /\ ftab' = with(ftab, fid, n)
    BY <1>1 DEF putFid
  <1>3. DOMAIN ftab' = DOMAIN ftab \cup {fid} /\ ftab'[fid] = n /\ \A f \in DOMAIN ftab \ {fid} : ftab'[f] = ftab[f]
    BY <1>2 DEF with
  <1>4. n \in 1..Len(ofs') /\ 1..Len(ofs) \subseteq 1..Len(ofs')
    BY <1>0, <1>1, <1>2
  <1>5. dropped' = dropped \cup {files[d].fid : d \in Named(ftab, ofs) \ Named(ftab', ofs')}
    BY DEF putFid, drop
  <1>6. dropped' \subseteq 1..nfid
    <2>1. Named(ftab, ofs) \subseteq 1..Len(files)
      BY <1>0 DEF Named
    <2>2. \A d \in Named(ftab, ofs) : files[d].fid \in 1..nfid
      BY <1>0, <2>1
    <2> QED BY <1>0, <1>5, <2>2
  <1>7. ASSUME NEW f \in DOMAIN ftab
        PROVE  \/ files[ofs[ftab[f]]].fid \in dropped'
               \/ \E e \in DOMAIN ftab' : ofs'[ftab'[e]] = ofs[ftab[f]]
    <2>1. ofs[ftab[f]] \in Named(ftab, ofs)
      BY DEF Named
    <2> QED BY <1>5, <2>1 DEF Named
  <1>8. Puts(fid, c)
    BY <1>1, <1>2, <1>3, <1>5, <1>7 DEF Puts
  <1> QED BY <1>0, <1>1, <1>3, <1>4, <1>6, <1>8

\* A Twalk that has all its names establishes its fid.
Finishes(h) ==
    /\ UNCHANGED <<files, offs, rtab, nfid, shared>> /\ Others(h) /\ Ends(h)
    /\ pc[h] = "name" /\ Twalk(h) /\ job[h].i # 0
    /\ \E fid \in Fids : Puts(fid, job[h].cur)

\* or, after the last, puts the clientFile it has reached.
LEMMA FinishStep ==
    ASSUME Shape, NEW h \in Handlers, Walk(h), ~(job[h].i + 1 <= Len(job[h].req.names))
    PROVE  Shape' /\ Finishes(h)
  <1>0. /\ pc[h] = "name" /\ JobOK(h) /\ job[h].req.op = "Walk" /\ job[h].req \in Asked
        /\ job[h].cur \in 1..Len(files) /\ job[h].cur \in Nat /\ job[h].i \in Nat
    <2>1. pc[h] = "name" /\ JobOK(h) /\ job[h] \in Job
      BY DEF Walk, Shape, Types
    <2> QED BY <2>1, Lengths DEF JobOK, OpOK, Job, NoReq
  <1>1. job[h].req.newfid \in Fids /\ job[h].req.names \in Paths \ {<<>>}
    BY <1>0, ReqFacts
  <1>2. Len(job[h].req.names) \in Nat \ {0}
    BY <1>1, EmptySeq, LenProperties DEF Paths
  <1>3. putFid(job[h].req.newfid, job[h].cur) /\ return(h) /\ shared' = shared
    BY DEF Walk
  <1>4. UNCHANGED <<files, offs, rtab, nfid, used>>
    BY DEF Walk
  <1>5. PICK fid \in Fids, c \in Nat :
          fid = job[h].req.newfid /\ c = job[h].cur /\ c \in 1..Len(files) /\ putFid(fid, c)
    BY <1>0, <1>1, <1>3
  <1>6. /\ Puts(fid, c) /\ ofs' \in Seq(Nat) /\ DOMAIN ftab' \subseteq Fids
        /\ \A f \in DOMAIN ftab' : ftab'[f] \in 1..Len(ofs')
        /\ dropped' \subseteq 1..nfid
    BY <1>5, PutFid
  <1>7. Ends(h) /\ Others(h) /\ pc' \in [Handlers -> Labels] /\ job' \in [Handlers -> Job]
    BY <1>3, Returns
  <1>8. \A o \in 1..Len(ofs') : ofs'[o] \in 1..Len(files)
    <2>1. \A o \in 1..Len(ofs) : ofs'[o] \in 1..Len(files)
      BY <1>6 DEF Puts, Shape, Types
    <2>2. ofs'[Len(ofs) + 1] \in 1..Len(files) /\ Len(ofs') = Len(ofs) + 1
      BY <1>5, <1>6 DEF Puts
    <2>3. \A o \in 1..(Len(ofs) + 1) : o \in 1..Len(ofs) \/ o = Len(ofs) + 1
      BY Lengths
    <2> QED BY <2>1, <2>2, <2>3
  <1>9. Types'
    BY <1>3, <1>4, <1>6, <1>7, <1>8 DEF Shape, Types
  <1>10. Len(ofs) <= Len(ofs') /\ Len(files) <= Len(files') /\ Len(offs) <= Len(offs')
    BY <1>4, <1>6, Lengths DEF Puts
  <1>11. Shape'
    BY <1>7, <1>9, <1>10, ShapeFrame, EndsOK DEF Others, Kept
  <1>12. job[h].i # 0
    BY <1>0, <1>2
  <1>13. Finishes(h)
    BY <1>0, <1>3, <1>4, <1>5, <1>6, <1>7, <1>12 DEF Finishes, Twalk
  <1> QED BY <1>11, <1>13

\* A clientFile for the remote fid that h has made.
Adds(h, path, open) ==
    /\ Len(files') = Len(files) + 1 /\ \A c \in 1..Len(files) : files'[c] = files[c]
    /\ files'[Len(files) + 1].fid = job[h].new /\ files'[Len(files) + 1].path = path
    /\ files'[Len(files) + 1].open = open /\ files'[Len(files) + 1].mu = Nobody

\* A new clientFile has a remote fid that no other has.
LEMMA AddFile ==
    ASSUME Shape, News, NEW h \in Handlers, NEW path \in Paths, NEW open \in Nat, pc[h] \in Making,
           files' = Append(files, clientFile(path, job[h].new, open)), nfid' = nfid,
           Len(offs) <= Len(offs'), Len(offs') \in Nat, open <= Len(offs')
    PROVE  /\ Adds(h, path, open) /\ files' \in Seq(ClientFile)
           /\ \A c \in 1..Len(files') : files'[c].fid \in 2..nfid' /\ files'[c].open \in 0..Len(offs')
  <1>1. PICK n, x : n \in Nat /\ n = job[h].new /\ x = clientFile(path, n, open) /\ n \in 2..nfid
    BY DEF News, Shape, Types
  <1>2. x \in ClientFile /\ x.fid = n /\ x.path = path /\ x.open = open /\ x.mu = Nobody
    BY <1>1 DEF clientFile, ClientFile
  <1>3. files \in Seq(ClientFile) /\ files' = Append(files, x) /\ Len(files) \in Nat
    BY <1>1, Lengths DEF Shape, Types
  <1>4. /\ files' \in Seq(ClientFile) /\ Len(files') = Len(files) + 1
        /\ files'[Len(files) + 1] = x /\ \A c \in 1..Len(files) : files'[c] = files[c]
    BY <1>2, <1>3, AppendFacts
  <1>5. Adds(h, path, open)
    BY <1>1, <1>2, <1>4 DEF Adds
  <1>6. \A c \in 1..(Len(files) + 1) : c \in 1..Len(files) \/ c = Len(files) + 1
    BY <1>3
  <1>7. \A c \in 1..Len(files) : files[c].fid \in 2..nfid /\ files[c].open \in 0..Len(offs)
    BY DEF Shape, Types
  <1>8. 0..Len(offs) \subseteq 0..Len(offs') /\ open \in 0..Len(offs')
    BY Lengths
  <1> QED BY <1>1, <1>2, <1>4, <1>5, <1>6, <1>7, <1>8

\* A Twalk has found its next file,
Arrives(h) ==
    /\ UNCHANGED <<ftab, ofs, offs, rtab, nfid, shared>> /\ Others(h)
    /\ pc[h] = "stat" /\ pc'[h] = "name" /\ Twalk(h) /\ Adds(h, job[h].path, 0)
    /\ job'[h].req = job[h].req /\ job'[h].of = job[h].of /\ job'[h].cf = job[h].cf /\ job'[h].i = job[h].i
    /\ job'[h].cur = Len(files) + 1
    /\ dropped \subseteq dropped' /\ (job[h].cur # job[h].cf => files[job[h].cur].fid \in dropped')

\* or a Tattach or a clone the file of its fid.
Attaches(h) ==
    /\ UNCHANGED <<offs, rtab, nfid, shared>> /\ Others(h) /\ Ends(h)
    /\ pc[h] = "stat" /\ ~Twalk(h) /\ Adds(h, job[h].path, 0)
    /\ \E fid \in Fids : Puts(fid, Len(files) + 1)

\* The Stat after a walk yields a new clientFile, or ends the walk.
LEMMA StatStep ==
    ASSUME Shape, News, NEW h \in Handlers, walkStat(h)
    PROVE  Shape' /\ (Arrives(h) \/ Attaches(h) \/ Quits(h))
  <1>0. /\ UNCHANGED <<offs, rtab, nfid, used, shared>> /\ pc[h] = "stat"
        /\ job \in [Handlers -> Job] /\ pc \in [Handlers -> Labels] /\ JobOK(h) /\ job[h] \in Job
        /\ job[h].path \in Paths /\ pc[h] \in Making /\ Len(offs) \in Nat /\ Len(files) \in Nat
        /\ Len(ofs) \in Nat /\ dropped \subseteq 1..nfid
    <2>1. pc[h] = "stat" /\ job \in [Handlers -> Job] /\ job[h] \in Job
      BY DEF walkStat, Shape, Types
    <2> QED BY <2>1, Lengths DEF walkStat, Shape, Types, Job, Making
  <1>1. CASE /\ files' = Append(files, clientFile(job[h].path, job[h].new, 0))
             /\ \/ /\ job[h].req.op = "Walk" /\ goto(h, "name") /\ UNCHANGED <<ftab, ofs>>
                   /\ job' = [job EXCEPT ![h].cur = Len(files) + 1, ![h].new = 0]
                   /\ drop(IF job[h].cur = job[h].cf THEN {} ELSE {files[job[h].cur].fid})
                \/ job[h].req.op # "Walk" /\ return(h) /\ putFid(job[h].req.newfid, Len(files) + 1)
    <2>1. /\ Adds(h, job[h].path, 0) /\ files' \in Seq(ClientFile)
          /\ \A c \in 1..Len(files') : files'[c].fid \in 2..nfid' /\ files'[c].open \in 0..Len(offs')
      BY <1>0, <1>1, AddFile
    <2>2. Len(files') = Len(files) + 1 /\ 1..Len(files) \subseteq 1..Len(files') /\ Len(files) + 1 \in 1..Len(files')
      BY <1>0, <2>1 DEF Adds
    <2>3. CASE /\ job[h].req.op = "Walk" /\ goto(h, "name") /\ UNCHANGED <<ftab, ofs>>
               /\ job' = [job EXCEPT ![h].cur = Len(files) + 1, ![h].new = 0]
               /\ drop(IF job[h].cur = job[h].cf THEN {} ELSE {files[job[h].cur].fid})
      <3>1. PICK n \in Nat : n = Len(files) + 1
        BY <1>0
      <3>2. job'[h] = [job[h] EXCEPT !.cur = n, !.new = 0] /\ \A g \in Handlers \ {h} : job'[g] = job[g]
        BY <1>0, <2>3, <3>1
      <3>3. /\ job'[h] \in Job /\ job'[h].cur = n /\ job'[h].req = job[h].req /\ job'[h].of = job[h].of
            /\ job'[h].cf = job[h].cf /\ job'[h].i = job[h].i /\ job'[h].file = job[h].file
        <4>0. PICK m \in Nat : m = 0
          OBVIOUS
        <4>1. PICK j, k : j \in Job /\ j = job[h] /\ k = job'[h] /\ k = [j EXCEPT !.cur = n, !.new = m]
          BY <1>0, <3>2, <4>0
        <4>2. /\ k \in Job /\ k.cur = n /\ k.req = j.req /\ k.of = j.of /\ k.cf = j.cf /\ k.i = j.i
              /\ k.file = j.file
          BY <4>1 DEF Job
        <4> QED BY <4>1, <4>2
      <3>4. job' \in [Handlers -> Job]
        <4>1. job' \in [Handlers -> {job'[g] : g \in Handlers}]
          BY <1>0, <2>3
        <4> QED BY <1>0, <3>2, <3>3, <4>1
      <3>5. pc' \in [Handlers -> Labels] /\ pc'[h] = "name" /\ Others(h) /\ Twalk(h)
        BY <1>0, <2>3, <3>2 DEF goto, Labels, Others, Twalk
      <3>6. /\ dropped \subseteq dropped' /\ (job[h].cur # job[h].cf => files[job[h].cur].fid \in dropped')
            /\ dropped' \subseteq 1..nfid'
        <4>1. job[h].cur \in 1..Len(files)
          BY <1>0, <2>3 DEF JobOK
        <4>2. files[job[h].cur].fid \in 1..nfid
          BY <4>1 DEF Shape, Types
        <4> QED BY <1>0, <2>3, <4>2 DEF drop
      <3>7. Arrives(h)
        BY <1>0, <2>1, <2>3, <3>1, <3>3, <3>5, <3>6 DEF Arrives
      <3>8. Types'
        BY <1>0, <2>1, <2>2, <2>3, <3>4, <3>5, <3>6 DEF Shape, Types
      <3>9. JobOK(h)'
        <4>1. n \in 0..Len(files') /\ n # 0 /\ 0..Len(files) \subseteq 0..Len(files')
          BY <1>0, <2>2, <3>1
        <4>2. OpOK(h)'
          BY <2>3, <3>3, <3>5 DEF OpOK
        <4>3. job[h].i # 0
          BY <1>0, <3>5 DEF JobOK
        <4> QED BY <1>0, <2>3, <3>3, <3>5, <4>1, <4>2, <4>3 DEF JobOK
      <3>10. Len(ofs) <= Len(ofs') /\ Len(files) <= Len(files') /\ Len(offs) <= Len(offs')
        BY <1>0, <2>2, <2>3
      <3>11. Shape'
        BY <3>5, <3>8, <3>9, <3>10, ShapeFrame DEF Others, Kept
      <3> QED BY <3>7, <3>11
    <2>4. CASE job[h].req.op # "Walk" /\ return(h) /\ putFid(job[h].req.newfid, Len(files) + 1)
      <3>1. job[h].req.newfid \in Fids
        <4>1. job[h].req \in Asked /\ job[h].req.op \in {"Attach", "Walk", "Clone"}
          BY <1>0 DEF JobOK, OpOK, Job, NoReq
        <4> QED BY <4>1, ReqFacts
      <3>2. PICK fid \in Fids, c \in Nat : c = Len(files) + 1 /\ putFid(fid, c)
        BY <1>0, <2>4, <3>1
      <3>3. /\ Puts(fid, c) /\ ofs' \in Seq(Nat) /\ DOMAIN ftab' \subseteq Fids
            /\ \A f \in DOMAIN ftab' : ftab'[f] \in 1..Len(ofs')
            /\ dropped' \subseteq 1..nfid
        BY <3>2, PutFid
      <3>4. Ends(h) /\ Others(h) /\ pc' \in [Handlers -> Labels] /\ job' \in [Handlers -> Job]
        BY <2>4, Returns
      <3>5. \A o \in 1..Len(ofs') : ofs'[o] \in 1..Len(files')
        <4>1. \A o \in 1..Len(ofs) : ofs'[o] \in 1..Len(files')
          BY <2>2, <3>3 DEF Puts, Shape, Types
        <4>2. ofs'[Len(ofs) + 1] \in 1..Len(files') /\ Len(ofs') = Len(ofs) + 1
          BY <2>2, <3>2, <3>3 DEF Puts
        <4>3. \A o \in 1..(Len(ofs) + 1) : o \in 1..Len(ofs) \/ o = Len(ofs) + 1
          BY <1>0
        <4> QED BY <4>1, <4>2, <4>3
      <3>6. Types'
        BY <1>0, <2>1, <2>2, <3>3, <3>4, <3>5 DEF Shape, Types
      <3>7. Len(ofs) <= Len(ofs') /\ Len(files) <= Len(files') /\ Len(offs) <= Len(offs')
        BY <1>0, <2>2, <3>3 DEF Puts
      <3>8. Shape'
        BY <3>4, <3>6, <3>7, ShapeFrame, EndsOK DEF Others, Kept
      <3>9. Attaches(h)
        BY <1>0, <2>1, <2>4, <3>2, <3>3, <3>4 DEF Attaches, Twalk
      <3> QED BY <3>8, <3>9
    <2> QED BY <1>1, <2>3, <2>4
  <1>2. CASE walkFails(h, {job[h].new}) /\ UNCHANGED <<ftab, ofs, files>>
    <2>0. PICK lost : lost = {job[h].new} /\ walkFails(h, lost)
      BY <1>2
    <2>1. /\ Others(h) /\ dropped' = dropped \cup {job[h].new}
          /\ Retreats(h) \/ (Ends(h) /\ (Twalk(h) => job[h].i = 1))
          /\ pc' \in [Handlers -> Labels] /\ job' \in [Handlers -> Job] /\ (JobOK(h)' \/ Ends(h))
      <3>1. /\ Others(h) /\ dropped' = dropped \cup lost
            /\ Retreats(h) \/ (Ends(h) /\ (Twalk(h) => job[h].i = 1))
            /\ pc' \in [Handlers -> Labels] /\ job' \in [Handlers -> Job] /\ (JobOK(h)' \/ Ends(h))
        BY <1>0, <1>2, <2>0, WalkFails
      <3> QED BY <2>0, <3>1
    <2>2. job[h].new \in 1..nfid
      BY <1>0 DEF News, Shape, Types
    <2>3. dropped' \subseteq 1..nfid' /\ dropped \subseteq dropped' /\ job[h].new \in dropped'
      BY <1>0, <2>1, <2>2
    <2>4. Shape' /\ Quits(h)
      BY <1>0, <1>2, <2>1, <2>3, QuitsShape
    <2> QED BY <2>4
  <1> QED BY <1>1, <1>2 DEF walkStat

\* A Tcreate moves its fid to the new file.
Sets(h) ==
    /\ UNCHANGED <<ftab, rtab, nfid, shared>> /\ Others(h) /\ Ends(h)
    /\ pc[h] = "created" /\ job[h].of \in 1..Len(ofs)
    /\ Adds(h, Append(file(h).path, "x"), Len(offs) + 1)
    /\ Len(ofs') = Len(ofs) /\ ofs'[job[h].of] = Len(files) + 1
    /\ \A o \in (1..Len(ofs)) \ {job[h].of} : ofs'[o] = ofs[o]
    /\ \A k \in 1..Len(offs) : offs'[k] = offs[k]
    /\ dropped \subseteq dropped'
    /\ \A f \in DOMAIN ftab : \/ files[ofs[ftab[f]]].fid \in dropped'
                              \/ \E e \in DOMAIN ftab : ofs'[ftab[e]] = ofs[ftab[f]]
    /\ \/ \E f \in DOMAIN ftab : ftab[f] = job[h].of
       \/ files[ofs[job[h].of]].fid \in dropped' /\ job[h].new \in dropped'

\* A Tcreate that succeeded puts a new clientFile into its openFile.
LEMMA SetStep ==
    ASSUME Shape, News, NEW h \in Handlers, createSet(h)
    PROVE  Shape' /\ Sets(h)
  <1>0. /\ UNCHANGED <<ftab, rtab, nfid, used, shared>> /\ pc[h] = "created" /\ return(h)
        /\ offs' = Append(offs, 0)
        /\ files' = Append(files, clientFile(Append(file(h).path, "x"), job[h].new, Len(offs')))
        /\ ofs' = [ofs EXCEPT ![job[h].of] = Len(files')]
    BY DEF createSet
  <1>1. /\ JobOK(h) /\ pc[h] \in Making /\ Len(offs) \in Nat /\ Len(files) \in Nat /\ Len(ofs) \in Nat
        /\ ofs \in Seq(Nat) /\ offs \in Seq(Nat) /\ dropped \subseteq 1..nfid
    BY <1>0, Lengths DEF Shape, Types, Making
  <1>2. job[h].of \in 1..Len(ofs) /\ job[h].cf \in 1..Len(files)
    BY <1>0, <1>1 DEF JobOK, OpOK
  <1>3. /\ offs' \in Seq(Nat) /\ Len(offs') = Len(offs) + 1 /\ \A k \in 1..Len(offs) : offs'[k] = offs[k]
    BY <1>0, <1>1, AppendFacts
  <1>4. PICK path \in Paths, open \in Nat : path = Append(file(h).path, "x") /\ open = Len(offs')
    <2>1. files[job[h].cf] \in ClientFile
      BY <1>2, ElementOfSeq DEF Shape, Types
    <2>2. file(h).path \in Paths
      BY <2>1 DEF ClientFile, file
    <2>3. Append(file(h).path, "x") \in Paths
      BY <2>2, NamesAssumption, PathFacts
    <2>4. Len(offs') \in Nat
      BY <1>1, <1>3
    <2> QED BY <2>3, <2>4
  <1>5. /\ Adds(h, path, open) /\ files' \in Seq(ClientFile)
        /\ \A c \in 1..Len(files') : files'[c].fid \in 2..nfid' /\ files'[c].open \in 0..Len(offs')
    <2>1. Len(offs) <= Len(offs') /\ Len(offs') \in Nat /\ open <= Len(offs')
      BY <1>1, <1>3, <1>4
    <2> QED BY <1>0, <1>1, <1>4, <2>1, AddFile
  <1>6. /\ Len(files') = Len(files) + 1 /\ 1..Len(files) \subseteq 1..Len(files')
        /\ Len(files) + 1 \in 1..Len(files') /\ Len(files) + 1 \in Nat
    BY <1>1, <1>5 DEF Adds
  <1>7. PICK o \in 1..Len(ofs), n \in Nat : o = job[h].of /\ n = Len(files) + 1 /\ ofs' = [ofs EXCEPT ![o] = n]
    BY <1>0, <1>2, <1>6
  <1>8. ofs' \in Seq(Nat) /\ Len(ofs') = Len(ofs) /\ ofs'[o] = n /\ \A p \in (1..Len(ofs)) \ {o} : ofs'[p] = ofs[p]
    <2>1. ofs' \in Seq(Nat) /\ Len(ofs') = Len(ofs)
      BY <1>1, <1>7, ExceptSeq
    <2> QED BY <1>1, <1>7, <2>1, LenProperties
  <1>9. Ends(h) /\ Others(h) /\ pc' \in [Handlers -> Labels] /\ job' \in [Handlers -> Job]
    BY <1>0, Returns
  <1>10. dropped' = dropped \cup {files[c].fid : c \in Named(ftab, ofs) \ Named(ftab, ofs')}
                       \cup IF o \in Range(ftab) THEN {} ELSE {files[ofs[o]].fid, job[h].new}
    BY <1>7 DEF createSet, drop
  <1>11. /\ \A f \in DOMAIN ftab : ofs[ftab[f]] \in 1..Len(files)
         /\ \A p \in 1..Len(ofs) : ofs[p] \in 1..Len(files)
         /\ \A d \in 1..Len(files) : files[d].fid \in 1..nfid
         /\ job[h].new \in 1..nfid
    <2>1. job[h].new \in 1..nfid
      BY <1>1 DEF News, Shape, Types
    <2>2. \A d \in 1..Len(files) : files[d].fid \in 1..nfid
      BY DEF Shape, Types
    <2> QED BY <2>1, <2>2 DEF Shape, Types
  <1>12. dropped' \subseteq 1..nfid'
    <2>1. Named(ftab, ofs) \subseteq 1..Len(files)
      BY <1>11 DEF Named
    <2>2. \A d \in Named(ftab, ofs) : files[d].fid \in 1..nfid
      BY <1>11, <2>1
    <2>3. files[ofs[o]].fid \in 1..nfid
      BY <1>11
    <2>4. (IF o \in Range(ftab) THEN {} ELSE {files[ofs[o]].fid, job[h].new}) \subseteq 1..nfid
      BY <1>11, <2>3
    <2>5. {files[c].fid : c \in Named(ftab, ofs) \ Named(ftab, ofs')} \subseteq 1..nfid
      BY <2>2
    <2> QED BY <1>0, <1>1, <1>10, <2>4, <2>5
  <1>13. ASSUME NEW f \in DOMAIN ftab
         PROVE  \/ files[ofs[ftab[f]]].fid \in dropped'
                \/ \E e \in DOMAIN ftab : ofs'[ftab[e]] = ofs[ftab[f]]
    <2>1. ofs[ftab[f]] \in Named(ftab, ofs)
      BY DEF Named
    <2> QED BY <1>10, <2>1 DEF Named
  <1>14. \/ \E f \in DOMAIN ftab : ftab[f] = o
         \/ files[ofs[o]].fid \in dropped' /\ job[h].new \in dropped'
    BY <1>10, SMTT(40) DEF Range
  <1>15. Sets(h)
    BY <1>0, <1>2, <1>3, <1>4, <1>5, <1>7, <1>8, <1>9, <1>10, <1>13, <1>14 DEF Sets
  <1>16. Types'
    <2>1. \A p \in 1..Len(ofs') : ofs'[p] \in 1..Len(files')
      BY <1>6, <1>7, <1>8, <1>11
    <2>2. shared' \subseteq 1..Len(files') /\ \A f \in DOMAIN ftab' : ftab'[f] \in 1..Len(ofs')
      BY <1>0, <1>6, <1>8 DEF Shape, Types
    <2> QED BY <1>0, <1>3, <1>5, <1>8, <1>9, <1>12, <2>1, <2>2 DEF Shape, Types
  <1>17. Len(ofs) <= Len(ofs') /\ Len(files) <= Len(files') /\ Len(offs) <= Len(offs')
    BY <1>1, <1>3, <1>6, <1>8
  <1>18. Shape'
    BY <1>9, <1>16, <1>17, ShapeFrame, EndsOK DEF Others, Kept
  <1> QED BY <1>15, <1>18

\* The labels a request begins at.
Beginning == {"walk", "name", "lock", "clone", "get", "use", "rename"}

\* A request begins; a Tclunk or Tremove has taken its fid out of the table.
Begins(h) ==
    /\ UNCHANGED <<ofs, files, offs, rtab, nfid, shared, dropped>> /\ Others(h)
    /\ pc[h] = "idle" /\ pc'[h] \in Beginning
    /\ Twalk(h)' => pc'[h] = "name" /\ job'[h].i = 0
    /\ job'[h].cur = job'[h].cf
    /\ DOMAIN ftab' \subseteq DOMAIN ftab /\ \A f \in DOMAIN ftab' : ftab'[f] = ftab[f]
    /\ \/ job'[h].cf = 0 /\ pc'[h] = "walk" /\ ~Twalk(h)' /\ ftab' = ftab
       \/ \E f \in DOMAIN ftab :
             /\ job'[h].of = ftab[f] /\ job'[h].cf = ofs[ftab[f]]
             /\ DOMAIN ftab' = IF pc'[h] = "get" THEN DOMAIN ftab \ {f} ELSE DOMAIN ftab

\* Where each kind of request begins.
LEMMA Labelled ==
    ASSUME NEW op \in Ops \ {"none"}
    PROVE  /\ Label[op] \in Beginning
           /\ Label[op] = "name" <=> op = "Walk"
           /\ Label[op] = "walk" <=> op \in {"Attach", "Clone"}
           /\ Label[op] = "lock" <=> op \in {"Open", "Read"}
           /\ Label[op] = "clone" <=> op = "Create"
           /\ Label[op] = "get" <=> op \in {"Clunk", "Remove"}
           /\ Label[op] = "use" <=> op = "Use"
           /\ Label[op] = "rename" <=> op = "Rename"
  BY DEF Label, Beginning, Ops

\* A handler that begins has what its request needs.
LEMMA BeginStep ==
    ASSUME Shape, NEW h \in Handlers, NEW r \in Requests, Begin(h, r)
    PROVE  Shape' /\ Begins(h)
  <1>0. /\ UNCHANGED <<ofs, files, offs, rtab, nfid, shared, dropped>> /\ pc[h] = "idle"
        /\ used' = used + 1 /\ used < MaxRequests /\ pc' = [pc EXCEPT ![h] = Label[r.op]]
        /\ r.op # "Attach" => r.fid \in DOMAIN ftab
        /\ ftab' = IF r.op \in {"Clunk", "Remove"} THEN without(ftab, r.fid) ELSE ftab
    BY DEF Begin, ghosts, goto
  <1>1. /\ job \in [Handlers -> Job] /\ pc \in [Handlers -> Labels] /\ used \in 0..MaxRequests
        /\ Len(ofs) \in Nat /\ Len(files) \in Nat /\ Len(offs) \in Nat /\ MaxRequests \in Nat
    BY Lengths, BoundsAssumption DEF Shape, Types
  <1>2. r \in Asked /\ r.op \in Ops \ {"none"}
    BY RequestsAssumption, ReqFacts
  <1>3. PICK of \in 0..Len(ofs), cf \in 0..Len(files), path \in Paths :
          /\ r.op # "Attach" => of = ftab[r.fid] /\ of # 0 /\ cf = ofs[of] /\ cf # 0
          /\ r.op = "Attach" => cf = 0
          /\ job' = [job EXCEPT ![h] = NewJob(r, of, cf, path)]
    <2>1. CASE r.op = "Attach"
      <3>1. job' = [job EXCEPT ![h] = NewJob(r, 0, 0, <<>>)]
        BY <2>1 DEF Begin, NewJob
      <3>2. <<>> \in Paths /\ 0 \in 0..Len(ofs) /\ 0 \in 0..Len(files)
        BY <1>1, EmptySeq DEF Paths
      <3> QED BY <2>1, <3>1, <3>2
    <2>2. CASE r.op # "Attach"
      <3>1. PICK of \in 1..Len(ofs), cf \in 1..Len(files) : of = ftab[r.fid] /\ cf = ofs[of]
        BY <1>0, <2>2 DEF Shape, Types
      <3>2. PICK path : path = IF r.op = "Clone" THEN files[cf].path ELSE <<>>
        OBVIOUS
      <3>3. path \in Paths
        <4>1. files[cf] \in ClientFile
          BY <3>1, ElementOfSeq DEF Shape, Types
        <4>2. files[cf].path \in Paths /\ <<>> \in Paths
          BY <4>1, EmptySeq DEF ClientFile, Paths
        <4> QED BY <3>2, <4>2
      <3>4. job' = [job EXCEPT ![h] = NewJob(r, of, cf, path)]
        BY <2>2, <3>1, <3>2 DEF Begin, NewJob
      <3>5. of \in 0..Len(ofs) /\ cf \in 0..Len(files) /\ of # 0 /\ cf # 0
        BY <1>1, <3>1
      <3> QED BY <2>2, <3>1, <3>3, <3>4, <3>5
    <2> QED BY <2>1, <2>2
  <1>4. PICK j : j = NewJob(r, of, cf, path)
    OBVIOUS
  <1>5. j \in Job /\ j.req = r /\ j.of = of /\ j.cf = cf /\ j.cur = cf /\ j.i = 0 /\ j.file = 0
    <2>1. of \in Nat /\ cf \in Nat
      BY <1>1
    <2> QED BY <1>2, <1>4, <2>1, NewJobFacts
  <1>6. job' \in [Handlers -> Job] /\ job'[h] = j /\ \A g \in Handlers \ {h} : job'[g] = job[g]
    BY <1>1, <1>3, <1>4, <1>5
  <1>7. PICK label : label = Label[r.op]
    OBVIOUS
  <1>8. /\ label \in Beginning /\ (label = "name" <=> r.op = "Walk")
        /\ label = "walk" <=> r.op \in {"Attach", "Clone"}
        /\ label = "lock" <=> r.op \in {"Open", "Read"}
        /\ label = "clone" <=> r.op = "Create"
        /\ label = "get" <=> r.op \in {"Clunk", "Remove"}
        /\ label = "use" <=> r.op = "Use"
        /\ label = "rename" <=> r.op = "Rename"
    BY <1>2, <1>7, Labelled
  <1>9. pc' \in [Handlers -> Labels] /\ pc'[h] = label /\ Others(h)
    <2>1. label \in Labels
      BY <1>8 DEF Beginning, Labels
    <2> QED BY <1>0, <1>1, <1>6, <1>7, <2>1 DEF Others
  <1>10. /\ DOMAIN ftab' \subseteq DOMAIN ftab /\ \A f \in DOMAIN ftab' : ftab'[f] = ftab[f]
         /\ DOMAIN ftab' = IF label = "get" THEN DOMAIN ftab \ {r.fid} ELSE DOMAIN ftab
         /\ r.op = "Attach" => ftab' = ftab
    BY <1>0, <1>8 DEF without
  <1>11. Begins(h)
    <2>1. Twalk(h)' => label = "name" /\ job'[h].i = 0
      BY <1>5, <1>6, <1>8, <1>9 DEF Twalk
    <2>2. CASE r.op = "Attach"
      BY <1>0, <1>3, <1>5, <1>6, <1>8, <1>9, <1>10, <2>1, <2>2 DEF Begins, Twalk
    <2>3. CASE r.op # "Attach"
      <3>1. r.fid \in DOMAIN ftab /\ of = ftab[r.fid] /\ cf = ofs[of]
        BY <1>0, <1>3, <2>3
      <3> QED BY <1>0, <1>5, <1>6, <1>8, <1>9, <1>10, <2>1, <3>1 DEF Begins
    <2> QED BY <2>2, <2>3
  <1>12. Types'
    <2>1. used' \in 0..MaxRequests
      BY <1>0, <1>1
    <2> QED BY <1>0, <1>6, <1>9, <1>10, <2>1 DEF Shape, Types
  <1>13. JobOK(h)'
    <2>1. OpOK(h)'
      BY <1>2, <1>5, <1>6, <1>8, <1>9 DEF OpOK, Beginning, Ops
    <2>2. pc'[h] \notin {"seek", "send", "read"} /\ job'[h].file \in 0..Len(offs')
      BY <1>0, <1>1, <1>5, <1>6, <1>8, <1>9 DEF Beginning
    <2>3. Twalk(h)' => /\ pc'[h] = "name" /\ job'[h].i = 0 /\ 0 <= Len(job'[h].req.names)
      <3>1. r.op = "Walk" => Len(r.names) \in Nat
        BY <1>2, ReqFacts, LenProperties DEF Paths
      <3> QED BY <1>5, <1>6, <1>8, <1>9, <3>1 DEF Twalk
    <2>4. r.op \notin {"none", "Attach"} => of # 0 /\ cf # 0
      BY <1>3
    <2> QED BY <1>0, <1>5, <1>6, <2>1, <2>2, <2>3, <2>4 DEF JobOK
  <1>14. Shape'
    BY <1>0, <1>1, <1>9, <1>12, <1>13, ShapeFrame DEF Others, Kept
  <1> QED BY <1>11, <1>14

-----------------------------------------------------------------------------
(***************************************************************************)
(* Locks and News.                                                         *)
(***************************************************************************)

\* Locks survives what neither takes nor releases f.mu.
LEMMA LocksFrame ==
    ASSUME Shape, Locks, NEW h \in Handlers, \A g \in Handlers \ {h} : Kept(g),
           Kept(h) \/ (pc[h] \notin Locking /\ pc'[h] \notin Locking),
           Len(files) <= Len(files'), Len(files') \in Nat,
           \A c \in 1..Len(files) : files'[c].mu = files[c].mu,
           \A c \in 1..Len(files') : c \notin 1..Len(files) => files'[c].mu = Nobody
    PROVE  Locks'
  <1>1. ASSUME NEW g \in Handlers, pc[g] \in Locking
        PROVE  pc'[g] = pc[g] /\ job'[g].cf = job[g].cf
    BY <1>1 DEF Kept
  <1>2. ASSUME NEW c \in 1..Len(files'), files'[c].mu # Nobody
        PROVE  pc'[files'[c].mu] \in Locking /\ job'[files'[c].mu].cf = c
    <2>1. c \in 1..Len(files) /\ files'[c].mu = files[c].mu
      BY <1>2
    <2>2. pc[files[c].mu] \in Locking /\ job[files[c].mu].cf = c
      BY <1>2, <2>1 DEF Locks
    <2>3. files[c].mu \in Handlers
      <3>1. files[c] \in ClientFile
        BY <2>1, ElementOfSeq DEF Shape, Types
      <3> QED BY <1>2, <2>1, <3>1 DEF ClientFile
    <2> QED BY <1>1, <2>1, <2>2, <2>3
  <1>3. ASSUME NEW g \in Handlers, pc'[g] \in Locking
        PROVE  files'[job'[g].cf].mu = g
    <2>1. pc[g] \in Locking
      BY <1>3 DEF Kept
    <2>2. job[g].cf \in 1..Len(files)
      <3>1. JobOK(g) /\ Len(files) \in Nat
        BY Lengths DEF Shape
      <3> QED BY <2>1, <3>1 DEF JobOK, OpOK, Locking
    <2>3. files[job[g].cf].mu = g
      BY <2>1 DEF Locks, file
    <2> QED BY <1>1, <2>1, <2>2, <2>3
  <1> QED BY <1>2, <1>3 DEF Locks, file

\* It survives taking it,
LEMMA LocksTaken ==
    ASSUME Shape, Locks, NEW h \in Handlers, TakesMu(h)
    PROVE  Locks'
  <1>1. job[h].cf \in 1..Len(files) /\ h # Nobody /\ files \in Seq(ClientFile)
    <2>1. JobOK(h) /\ Len(files) \in Nat
      BY Lengths DEF Shape
    <2> QED BY <2>1, HandlersAssumption DEF JobOK, OpOK, TakesMu, Shape, Types
  <1>2. PICK d, x : d \in 1..Len(files) /\ d = job[h].cf /\ x = [files[d] EXCEPT !.mu = h] /\ files' = [files EXCEPT ![d] = x]
    BY <1>1 DEF TakesMu
  <1>3. x \in ClientFile /\ x.mu = h
    <2>1. files[d] \in ClientFile
      BY <1>1, <1>2, ElementOfSeq
    <2> QED BY <1>2, <2>1, FileLocked
  <1>4. Len(files') = Len(files) /\ files'[d].mu = h /\ \A c \in (1..Len(files)) \ {d} : files'[c] = files[c]
    BY <1>2, <1>3, FileChanges
  <1>5. \A g \in Handlers \ {h} : pc'[g] = pc[g] /\ job'[g] = job[g]
    BY DEF TakesMu, Others
  <1>6. pc[h] \notin Locking /\ pc'[h] \in Locking /\ job'[h].cf = d
    BY <1>2 DEF TakesMu, Locking
  <1>7. ASSUME NEW c \in 1..Len(files'), files'[c].mu # Nobody
        PROVE  pc'[files'[c].mu] \in Locking /\ job'[files'[c].mu].cf = c
    <2>1. CASE c = d
      BY <1>4, <1>6, <2>1
    <2>2. CASE c # d
      <3>1. files'[c] = files[c] /\ c \in 1..Len(files)
        BY <1>4, <2>2
      <3>2. files[c].mu \in Handlers
        <4>1. files[c] \in ClientFile
          BY <1>1, <3>1, ElementOfSeq
        <4> QED BY <1>7, <3>1, <4>1 DEF ClientFile
      <3>3. pc[files[c].mu] \in Locking /\ job[files[c].mu].cf = c
        BY <1>7, <3>1 DEF Locks
      <3> QED BY <1>5, <1>6, <3>1, <3>2, <3>3
    <2> QED BY <2>1, <2>2
  <1>8. ASSUME NEW g \in Handlers, pc'[g] \in Locking
        PROVE  files'[job'[g].cf].mu = g
    <2>1. CASE g = h
      BY <1>4, <1>6, <2>1
    <2>2. CASE g # h
      <3>1. pc[g] \in Locking /\ job'[g].cf = job[g].cf
        BY <1>5, <1>8, <2>2
      <3>2. files[job[g].cf].mu = g /\ job[g].cf \in 1..Len(files)
        <4>1. JobOK(g) /\ Len(files) \in Nat
          BY Lengths DEF Shape
        <4> QED BY <3>1, <4>1 DEF JobOK, OpOK, Locking, Locks, file
      <3>3. job[g].cf # d
        BY <1>2, <2>2, <3>2, HandlersAssumption DEF TakesMu, file
      <3> QED BY <1>4, <3>1, <3>2, <3>3
    <2> QED BY <2>1, <2>2
  <1> QED BY <1>7, <1>8 DEF Locks, file

\* and every step of the holder.
LEMMA LocksHeld ==
    ASSUME Shape, Locks, NEW h \in Handlers, Holds(h)
    PROVE  Locks'
  <1>0. PICK d \in 1..Len(files) : d = job[h].cf
    BY DEF Holds
  <1>1. /\ Len(files') = Len(files) /\ \A c \in (1..Len(files)) \ {d} : files'[c] = files[c]
        /\ files'[d].mu = IF pc'[h] = "opened" THEN h ELSE Nobody
        /\ pc[h] \in Locking /\ pc'[h] \in {"seek", "opened", "idle"}
        /\ pc'[h] = "opened" => job'[h].cf = d
    BY <1>0 DEF Holds
  <1>2. \A g \in Handlers \ {h} : pc'[g] = pc[g] /\ job'[g] = job[g]
    BY DEF Holds, Others
  <1>3. files[d].mu = h /\ h # Nobody
    BY <1>0, <1>1, HandlersAssumption DEF Locks, file
  <1>4. ASSUME NEW c \in 1..Len(files'), files'[c].mu # Nobody
        PROVE  pc'[files'[c].mu] \in Locking /\ job'[files'[c].mu].cf = c
    <2>1. CASE c = d
      BY <1>1, <1>3, <1>4, <2>1 DEF Locking
    <2>2. CASE c # d
      <3>1. files'[c] = files[c] /\ c \in 1..Len(files)
        BY <1>1, <2>2
      <3>2. files[c].mu \in Handlers
        <4>1. files[c] \in ClientFile
          BY <3>1, ElementOfSeq DEF Shape, Types
        <4> QED BY <1>4, <3>1, <4>1 DEF ClientFile
      <3>3. pc[files[c].mu] \in Locking /\ job[files[c].mu].cf = c
        BY <1>4, <3>1 DEF Locks
      <3>4. files[c].mu # h
        BY <1>0, <2>2, <3>3
      <3> QED BY <1>2, <3>1, <3>2, <3>3, <3>4
    <2> QED BY <2>1, <2>2
  <1>5. ASSUME NEW g \in Handlers, pc'[g] \in Locking
        PROVE  files'[job'[g].cf].mu = g
    <2>1. CASE g = h
      BY <1>1, <1>5, <2>1 DEF Locking
    <2>2. CASE g # h
      <3>1. pc[g] \in Locking /\ job'[g].cf = job[g].cf
        BY <1>2, <1>5, <2>2
      <3>2. files[job[g].cf].mu = g /\ job[g].cf \in 1..Len(files)
        <4>1. JobOK(g) /\ Len(files) \in Nat
          BY Lengths DEF Shape
        <4> QED BY <3>1, <4>1 DEF JobOK, OpOK, Locking, Locks, file
      <3>3. job[g].cf # d
        BY <1>3, <2>2, <3>2
      <3> QED BY <1>1, <3>1, <3>2, <3>3
    <2> QED BY <2>1, <2>2
  <1> QED BY <1>4, <1>5 DEF Locks, file

\* News survives a step that makes no clientFile: the counter gives out new fids.
LEMMA NewsFrame ==
    ASSUME Shape, News, NEW h \in Handlers, \A g \in Handlers \ {h} : Kept(g),
           nfid' \in {nfid, nfid + 1}, Len(files') = Len(files),
           \A c \in 1..Len(files) : files'[c].fid = files[c].fid,
           pc'[h] \in Making =>
              \/ pc[h] \in Making /\ job'[h].new = job[h].new
              \/ job'[h].new = nfid' /\ nfid' = nfid + 1
    PROVE  News'
  <1>1. /\ nfid \in Nat \ {0} /\ \A c \in 1..Len(files) : files[c].fid \in 2..nfid
        /\ \A g \in Handlers : pc[g] \in Making => job[g].new \in 2..nfid
    BY DEF Shape, Types, News
  <1>2. nfid + 1 \in 2..(nfid + 1) /\ nfid + 1 \notin 2..nfid /\ 2..nfid \subseteq 2..(nfid + 1)
    BY <1>1
  <1>3. 2..nfid \subseteq 2..nfid'
    BY <1>1, <1>2
  <1>4. ASSUME NEW g \in Handlers, pc'[g] \in Making
        PROVE  \/ pc[g] \in Making /\ job'[g].new = job[g].new
               \/ g = h /\ job'[g].new = nfid' /\ nfid' = nfid + 1
    BY <1>4 DEF Kept
  <1>5. ASSUME NEW g \in Handlers, pc'[g] \in Making
        PROVE  job'[g].new \in 2..nfid' /\ \A c \in 1..Len(files) : files[c].fid # job'[g].new
    <2>1. CASE pc[g] \in Making /\ job'[g].new = job[g].new
      BY <1>1, <1>3, <2>1 DEF News
    <2>2. CASE job'[g].new = nfid' /\ nfid' = nfid + 1
      BY <1>1, <1>2, <2>2
    <2> QED BY <1>4, <1>5, <2>1, <2>2
  <1>6. ASSUME NEW g \in Handlers, NEW k \in Handlers \ {g}, pc'[g] \in Making, pc'[k] \in Making
        PROVE  job'[k].new # job'[g].new
    <2>1. CASE pc[g] \in Making /\ job'[g].new = job[g].new /\ pc[k] \in Making /\ job'[k].new = job[k].new
      BY <2>1 DEF News
    <2>2. CASE g = h /\ job'[g].new = nfid' /\ nfid' = nfid + 1
      <3>1. pc[k] \in Making /\ job'[k].new = job[k].new
        BY <1>4, <1>6, <2>2
      <3> QED BY <1>1, <1>2, <2>2, <3>1
    <2>3. CASE k = h /\ job'[k].new = nfid' /\ nfid' = nfid + 1
      <3>1. pc[g] \in Making /\ job'[g].new = job[g].new
        BY <1>4, <1>6, <2>3
      <3> QED BY <1>1, <1>2, <2>3, <3>1
    <2> QED BY <1>4, <1>6, <2>1, <2>2, <2>3
  <1>7. \A c, d \in 1..Len(files') : files'[c].fid = files'[d].fid => c = d
    BY DEF News
  <1> QED BY <1>5, <1>6, <1>7 DEF News

\* It survives one that puts the fid of its maker into a clientFile.
LEMMA NewsAdded ==
    ASSUME Shape, News, NEW h \in Handlers, \A g \in Handlers \ {h} : Kept(g), nfid' = nfid,
           pc[h] \in Making, pc'[h] \notin Making, NEW path, NEW open, Adds(h, path, open)
    PROVE  News'
  <1>0. PICK n : n = Len(files) + 1
    OBVIOUS
  <1>1. /\ \A c \in 1..Len(files') : c \in 1..Len(files) \/ c = n
        /\ \A c \in 1..Len(files) : files'[c] = files[c]
        /\ files'[n].fid = job[h].new
    BY <1>0, Lengths DEF Adds
  <1>2. \A c \in 1..Len(files) : files[c].fid # job[h].new
    BY DEF News
  <1>3. \A c, d \in 1..Len(files') : files'[c].fid = files'[d].fid => c = d
    BY <1>1, <1>2 DEF News
  <1>4. ASSUME NEW g \in Handlers, pc'[g] \in Making
        PROVE  pc[g] \in Making /\ job'[g].new = job[g].new /\ g # h
    BY <1>4 DEF Kept
  <1>5. ASSUME NEW g \in Handlers, pc'[g] \in Making, NEW c \in 1..Len(files')
        PROVE  files'[c].fid # job'[g].new
    BY <1>1, <1>4, <1>5 DEF News
  <1> QED BY <1>3, <1>4, <1>5 DEF News

-----------------------------------------------------------------------------
(***************************************************************************)
(* Fronts.                                                                 *)
(***************************************************************************)

\* Another handler's Twalk is not disturbed.
LEMMA WalkKept ==
    ASSUME Fronts, NEW h \in Handlers, NEW g \in Handlers \ {h}, \A k \in Handlers \ {h} : Kept(k),
           shared \subseteq shared',
           Far(g) => /\ \A o \in 1..Len(ofs') : ofs'[o] # job[g].cur
                     /\ job'[h].cf # job[g].cur /\ job'[h].cur # job[g].cur
    PROVE  (Far(g)' => Far(g) /\ Mine(g)') /\ AtStart(g)'
  <1>1. Kept(g) /\ (Twalk(g)' <=> Twalk(g))
    BY DEF Kept, Twalk
  <1>2. Far(g)' => Far(g)
    BY <1>1 DEF Far, Kept
  <1>3. ASSUME Far(g)' PROVE Mine(g)'
    <2>1. Mine(g) /\ Far(g)
      BY <1>2, <1>3 DEF Fronts
    <2>2. ASSUME NEW k \in Handlers
          PROVE  job'[k].cf # job[g].cur /\ (k # g => job'[k].cur # job[g].cur)
      <3>1. CASE k = h
        BY <2>1, <3>1
      <3>2. CASE k # h
        BY <2>1, <3>2 DEF Mine, Kept
      <3> QED BY <3>1, <3>2
    <2> QED BY <1>1, <2>1, <2>2 DEF Mine, Kept
  <1>4. AtStart(g)'
    <2>1. AtStart(g)
      BY DEF Fronts
    <2> QED BY <1>1, <2>1 DEF AtStart, Kept
  <1> QED BY <1>2, <1>3, <1>4

\* Walks know the clientFile they are at.
LEMMA FarCur ==
    ASSUME Shape, NEW h \in Handlers, Twalk(h)
    PROVE  job[h].cur \in 1..Len(files) /\ job[h].cf \in 1..Len(files) /\ job[h].cur # 0 /\ job[h].cf # 0
  <1>1. JobOK(h) /\ Len(files) \in Nat
    BY Lengths DEF Shape
  <1> QED BY <1>1 DEF JobOK, Twalk

\* Fronts survives a step that puts no fid.
LEMMA FrontsFrame ==
    ASSUME Shape, Fronts, NEW h \in Handlers, ofs' = ofs, DOMAIN ftab' \subseteq DOMAIN ftab,
           \A f \in DOMAIN ftab' : ftab'[f] = ftab[f], shared \subseteq shared',
           \A g \in Handlers \ {h} : Kept(g),
           job'[h].cf \in {job[h].cf, 0}, job'[h].cur \in {job[h].cur, 0},
           pc'[h] \in Releasing =>
              /\ pc[h] \in Releasing /\ (pc[h] = "get" <=> pc'[h] = "get")
              /\ job'[h].of = job[h].of /\ job'[h].cf = job[h].cf,
           Twalk(h)' => Twalk(h) /\ job'[h].cur = job[h].cur /\ job'[h].cf = job[h].cf,
           AtStart(h)'
    PROVE  Fronts'
  <1>1. /\ \A e, f \in DOMAIN ftab' : ftab'[e] = ftab'[f] => e = f
        /\ \A o, p \in 1..Len(ofs') : ofs'[o] = ofs'[p] => o = p \/ ofs'[o] \in shared'
    BY DEF Fronts
  <1>2. ASSUME NEW g \in Handlers PROVE Released(g)'
    <2>1. Released(g)
      BY DEF Fronts
    <2>2. pc'[g] \in Releasing =>
              /\ pc[g] \in Releasing /\ (pc[g] = "get" <=> pc'[g] = "get")
              /\ job'[g].of = job[g].of /\ job'[g].cf = job[g].cf
      BY DEF Kept
    <2> QED BY <2>1, <2>2 DEF Released
  <1>3. ASSUME NEW g \in Handlers \ {h} PROVE (Far(g)' => Mine(g)') /\ AtStart(g)'
    <2>1. Far(g) => /\ \A o \in 1..Len(ofs') : ofs'[o] # job[g].cur
                    /\ job'[h].cf # job[g].cur /\ job'[h].cur # job[g].cur
      <3>1. SUFFICES ASSUME Far(g)
                     PROVE  /\ \A o \in 1..Len(ofs') : ofs'[o] # job[g].cur
                            /\ job'[h].cf # job[g].cur /\ job'[h].cur # job[g].cur
        OBVIOUS
      <3>2. Mine(g) /\ job[g].cur # 0
        BY <3>1, FarCur DEF Far, Fronts
      <3> QED BY <3>2 DEF Mine
    <2> QED BY <2>1, WalkKept
  <1>4. Far(h)' => Mine(h)'
    <2>1. SUFFICES ASSUME Far(h)' PROVE Mine(h)'
      OBVIOUS
    <2>2. Far(h) /\ job'[h].cur = job[h].cur /\ job'[h].cf = job[h].cf
      BY <2>1 DEF Far
    <2>3. Mine(h)
      BY <2>2 DEF Fronts
    <2>4. ASSUME NEW k \in Handlers
          PROVE  job'[k].cf # job[h].cur /\ (k # h => job'[k].cur # job[h].cur)
      BY <2>2, <2>3 DEF Mine, Kept
    <2> QED BY <2>2, <2>3, <2>4 DEF Mine
  <1> QED BY <1>1, <1>2, <1>3, <1>4 DEF Fronts

\* A clientFile is looked up.
LEMMA FrontsGot ==
    ASSUME Shape, Fronts, NEW h \in Handlers, Gets(h)
    PROVE  Fronts'
  <1>0. \A g \in Handlers \ {h} : Kept(g)
    BY DEF Gets, Others, Kept
  <1>1. /\ \A e, f \in DOMAIN ftab' : ftab'[e] = ftab'[f] => e = f
        /\ \A o, p \in 1..Len(ofs') : ofs'[o] = ofs'[p] => o = p \/ ofs'[o] \in shared'
    BY DEF Gets, Fronts
  <1>2. ASSUME NEW g \in Handlers \ {h} PROVE Released(g)'
    <2>1. Released(g) /\ Kept(g)
      BY <1>0 DEF Fronts
    <2> QED BY <2>1 DEF Released, Gets, Kept
  <1>3. Released(h)'
    <2>1. ASSUME NEW f \in DOMAIN ftab
          PROVE  ftab[f] # job[h].of /\ (ofs[ftab[f]] = ofs[job[h].of] => ofs[job[h].of] \in shared)
      <3>1. ftab[f] # job[h].of
        BY DEF Released, Gets, Releasing, Fronts
      <3>2. ftab[f] \in 1..Len(ofs) /\ job[h].of \in 1..Len(ofs)
        BY DEF Shape, Types, Gets
      <3> QED BY <3>1, <3>2 DEF Fronts
    <2> QED BY <2>1 DEF Released, Gets
  <1>4. ASSUME NEW g \in Handlers \ {h} PROVE (Far(g)' => Mine(g)') /\ AtStart(g)'
    <2>1. Far(g) => /\ \A o \in 1..Len(ofs') : ofs'[o] # job[g].cur
                    /\ job'[h].cf # job[g].cur /\ job'[h].cur # job[g].cur
      BY DEF Gets, Mine, Fronts
    <2>2. shared \subseteq shared'
      BY DEF Gets
    <2> QED BY <1>0, <2>1, <2>2, WalkKept
  <1>5. ~Twalk(h)'
    BY DEF Gets, Twalk
  <1> QED BY <1>1, <1>2, <1>3, <1>4, <1>5 DEF Far, AtStart, Fronts

\* A request begins.
LEMMA FrontsBegun ==
    ASSUME Shape, Fronts, NEW h \in Handlers, Begins(h)
    PROVE  Fronts'
  <1>0. /\ \A g \in Handlers \ {h} : Kept(g)
        /\ ofs' = ofs /\ shared' = shared /\ DOMAIN ftab' \subseteq DOMAIN ftab
        /\ \A f \in DOMAIN ftab' : ftab'[f] = ftab[f]
    BY DEF Begins, Others, Kept
  <1>1. /\ \A e, f \in DOMAIN ftab' : ftab'[e] = ftab'[f] => e = f
        /\ \A o, p \in 1..Len(ofs') : ofs'[o] = ofs'[p] => o = p \/ ofs'[o] \in shared'
    BY <1>0 DEF Fronts
  <1>2. ASSUME NEW g \in Handlers \ {h} PROVE Released(g)'
    <2>1. Released(g) /\ Kept(g)
      BY <1>0 DEF Fronts
    <2> QED BY <1>0, <2>1 DEF Released, Kept
  <1>3. Released(h)'
    <2>1. SUFFICES ASSUME NEW f \in DOMAIN ftab', pc'[h] \in Releasing
                   PROVE  pc'[h] = "get" /\ ftab[f] # job'[h].of
      BY <1>0 DEF Released
    <2>2. pc'[h] = "get"
      BY <2>1 DEF Begins, Beginning, Releasing
    <2>3. PICK e \in DOMAIN ftab : job'[h].of = ftab[e] /\ DOMAIN ftab' = DOMAIN ftab \ {e}
      BY <2>2 DEF Begins
    <2> QED BY <2>1, <2>2, <2>3 DEF Fronts
  <1>4. ASSUME NEW g \in Handlers \ {h} PROVE (Far(g)' => Mine(g)') /\ AtStart(g)'
    <2>1. Far(g) => /\ \A o \in 1..Len(ofs') : ofs'[o] # job[g].cur
                    /\ job'[h].cf # job[g].cur /\ job'[h].cur # job[g].cur
      <3>1. SUFFICES ASSUME Far(g)
                     PROVE  /\ \A o \in 1..Len(ofs') : ofs'[o] # job[g].cur
                            /\ job'[h].cf # job[g].cur /\ job'[h].cur # job[g].cur
        OBVIOUS
      <3>2. Mine(g) /\ job[g].cur # 0
        BY <3>1, FarCur DEF Far, Fronts
      <3>3. job'[h].cur = job'[h].cf
        BY DEF Begins
      <3>4. job'[h].cf = 0 \/ \E o \in 1..Len(ofs) : job'[h].cf = ofs[o]
        BY DEF Begins, Shape, Types
      <3> QED BY <1>0, <3>2, <3>3, <3>4 DEF Mine
    <2> QED BY <1>0, <2>1, WalkKept
  <1>5. ~Far(h)' /\ AtStart(h)'
    BY DEF Begins, Far, AtStart
  <1> QED BY <1>1, <1>2, <1>3, <1>4, <1>5 DEF Fronts

\* An openFile for a clientFile that has none, or is shared, gets a fid.
LEMMA FrontsPut ==
    ASSUME Shape, Fronts, NEW h \in Handlers, Others(h), Ends(h), shared' = shared,
           NEW fid \in Fids, NEW c, Puts(fid, c),
           c \in shared \/ \A o \in 1..Len(ofs) : ofs[o] # c,
           \A g \in Handlers \ {h} : Far(g) => c # job[g].cur,
           \A g \in Handlers \ {h} : pc[g] \in Releasing /\ job[g].cf = c => c \in shared
    PROVE  Fronts'
  <1>0. PICK n \in Nat : n = Len(ofs) + 1 /\ n \notin 1..Len(ofs) /\ n \notin 0..Len(ofs)
    BY Lengths
  <1>1. /\ \A o \in 1..Len(ofs') : o = n \/ o \in 1..Len(ofs)
        /\ ofs'[n] = c /\ \A o \in 1..Len(ofs) : ofs'[o] = ofs[o]
        /\ DOMAIN ftab' = DOMAIN ftab \cup {fid} /\ ftab'[fid] = n
        /\ \A f \in DOMAIN ftab \ {fid} : ftab'[f] = ftab[f] /\ ftab[f] \in 1..Len(ofs)
    BY <1>0, Lengths DEF Puts, Shape, Types
  <1>2. \A g \in Handlers \ {h} : Kept(g)
    BY DEF Others, Kept
  <1>3. pc'[h] \notin Releasing /\ ~Twalk(h)' /\ job'[h].cf = 0 /\ job'[h].cur = 0
    BY NoJobType DEF Ends, Releasing, Twalk
  <1>4. \A e, f \in DOMAIN ftab' : ftab'[e] = ftab'[f] => e = f
    BY <1>0, <1>1 DEF Fronts
  <1>5. \A o, p \in 1..Len(ofs') : ofs'[o] = ofs'[p] => o = p \/ ofs'[o] \in shared'
    BY <1>1 DEF Fronts
  <1>6. ASSUME NEW g \in Handlers \ {h} PROVE Released(g)'
    <2>1. SUFFICES ASSUME NEW f \in DOMAIN ftab', pc[g] \in Releasing
                   PROVE  /\ ftab'[f] # job[g].of
                          /\ pc[g] # "get" /\ ofs'[ftab'[f]] = job[g].cf => job[g].cf \in shared
      BY <1>2 DEF Released, Kept
    <2>2. job[g].of \in 0..Len(ofs) /\ Released(g)
      BY DEF Shape, JobOK, Fronts
    <2>3. CASE f = fid
      BY <1>0, <1>1, <2>1, <2>2, <2>3
    <2>4. CASE f # fid
      <3>1. f \in DOMAIN ftab /\ ftab'[f] = ftab[f] /\ ofs'[ftab'[f]] = ofs[ftab[f]]
        BY <1>1, <2>4
      <3> QED BY <2>1, <2>2, <3>1 DEF Released
    <2> QED BY <2>3, <2>4
  <1>7. ASSUME NEW g \in Handlers \ {h} PROVE (Far(g)' => Mine(g)') /\ AtStart(g)'
    <2>1. Far(g) => /\ \A o \in 1..Len(ofs') : ofs'[o] # job[g].cur
                    /\ job'[h].cf # job[g].cur /\ job'[h].cur # job[g].cur
      <3>1. SUFFICES ASSUME Far(g)
                     PROVE  /\ \A o \in 1..Len(ofs') : ofs'[o] # job[g].cur
                            /\ job'[h].cf # job[g].cur /\ job'[h].cur # job[g].cur
        OBVIOUS
      <3>2. Mine(g) /\ job[g].cur # 0
        BY <3>1, FarCur DEF Far, Fronts
      <3> QED BY <1>1, <1>3, <3>1, <3>2 DEF Mine
    <2> QED BY <1>2, <2>1, WalkKept
  <1>8. Released(h)' /\ ~Far(h)' /\ AtStart(h)'
    BY <1>3 DEF Released, Far, AtStart
  <1> QED BY <1>4, <1>5, <1>6, <1>7, <1>8 DEF Fronts

\* All openFiles, jobs and shared clientFiles are old.
LEMMA OldFiles ==
    ASSUME Shape, NEW n, n = Len(files) + 1
    PROVE  /\ n \notin 0..Len(files) /\ n # 0
           /\ \A o \in 1..Len(ofs) : ofs[o] # n
           /\ \A g \in Handlers : job[g].cf # n /\ job[g].cur # n
  <1>1. n \notin 0..Len(files) /\ n \notin 1..Len(files) /\ n # 0
    BY Lengths
  <1>2. \A g \in Handlers : JobOK(g)
    BY DEF Shape
  <1> QED BY <1>1, <1>2 DEF Shape, Types, JobOK

\* The steps that put one, or reach a new clientFile, use one that nobody else has
\* or that becomes shared.
LEMMA FrontsFinished ==
    ASSUME Shape, Fronts, NEW h \in Handlers, Finishes(h)
    PROVE  Fronts'
  <1>1. PICK fid \in Fids : Puts(fid, job[h].cur)
    BY DEF Finishes
  <1>2. job[h].cur \in shared \/ Far(h)
    BY DEF Finishes, Fronts, AtStart, Far
  <1>3. job[h].cur \in shared \/ \A o \in 1..Len(ofs) : ofs[o] # job[h].cur
    BY <1>2 DEF Fronts, Mine
  <1>4. \A g \in Handlers \ {h} : Far(g) => job[h].cur # job[g].cur
    BY DEF Fronts, Mine
  <1>5. \A g \in Handlers \ {h} : pc[g] \in Releasing /\ job[g].cf = job[h].cur => job[h].cur \in shared
    BY <1>2 DEF Fronts, Mine
  <1>6. Others(h) /\ Ends(h) /\ shared' = shared
    BY DEF Finishes
  <1> QED BY <1>1, <1>3, <1>4, <1>5, <1>6, FrontsPut

LEMMA FrontsAttached ==
    ASSUME Shape, Fronts, NEW h \in Handlers, Attaches(h)
    PROVE  Fronts'
  <1>1. PICK fid, n : fid \in Fids /\ n = Len(files) + 1 /\ Puts(fid, n)
    BY DEF Attaches
  <1>2. /\ \A o \in 1..Len(ofs) : ofs[o] # n
        /\ \A g \in Handlers : job[g].cf # n /\ job[g].cur # n
    BY <1>1, OldFiles
  <1>3. Others(h) /\ Ends(h) /\ shared' = shared
    BY DEF Attaches
  <1> QED BY <1>1, <1>2, <1>3, FrontsPut

LEMMA FrontsArrived ==
    ASSUME Shape, Fronts, NEW h \in Handlers, Arrives(h)
    PROVE  Fronts'
  <1>0. PICK n : n = Len(files) + 1
    OBVIOUS
  <1>1. /\ \A o \in 1..Len(ofs) : ofs[o] # n
        /\ \A g \in Handlers : job[g].cf # n /\ job[g].cur # n
    BY <1>0, OldFiles
  <1>2. /\ \A g \in Handlers \ {h} : Kept(g)
        /\ UNCHANGED <<ftab, ofs, shared>> /\ pc'[h] = "name" /\ job'[h].cf = job[h].cf /\ job'[h].cur = n
    BY <1>0 DEF Arrives, Others, Kept
  <1>3. ASSUME NEW g \in Handlers PROVE Released(g)'
    <2>1. Released(g)
      BY DEF Fronts
    <2> QED BY <1>2, <2>1 DEF Released, Kept, Releasing
  <1>4. ASSUME NEW g \in Handlers \ {h} PROVE (Far(g)' => Mine(g)') /\ AtStart(g)'
    <2>1. Far(g) => /\ \A o \in 1..Len(ofs') : ofs'[o] # job[g].cur
                    /\ job'[h].cf # job[g].cur /\ job'[h].cur # job[g].cur
      BY <1>1, <1>2 DEF Fronts, Mine
    <2> QED BY <1>2, <2>1, WalkKept
  <1>5. Mine(h)'
    <2>1. \A k \in Handlers : job'[k].cf # n /\ (k # h => job'[k].cur # n)
      BY <1>1, <1>2 DEF Kept
    <2> QED BY <1>1, <1>2, <2>1 DEF Mine
  <1>6. AtStart(h)'
    BY <1>1, <1>2 DEF AtStart
  <1>7. /\ \A e, f \in DOMAIN ftab' : ftab'[e] = ftab'[f] => e = f
        /\ \A o, p \in 1..Len(ofs') : ofs'[o] = ofs'[p] => o = p \/ ofs'[o] \in shared'
    BY <1>2 DEF Fronts
  <1> QED BY <1>3, <1>4, <1>5, <1>6, <1>7 DEF Fronts

LEMMA FrontsSet ==
    ASSUME Shape, Fronts, NEW h \in Handlers, Sets(h)
    PROVE  Fronts'
  <1>0. PICK n, of : n = Len(files) + 1 /\ of = job[h].of
    OBVIOUS
  <1>1. /\ \A o \in 1..Len(ofs) : ofs[o] # n
        /\ \A g \in Handlers : job[g].cf # n /\ job[g].cur # n
    BY <1>0, OldFiles
  <1>2. /\ \A g \in Handlers \ {h} : Kept(g)
        /\ UNCHANGED <<ftab, shared>> /\ Len(ofs') = Len(ofs) /\ ofs'[of] = n
        /\ \A o \in (1..Len(ofs)) \ {of} : ofs'[o] = ofs[o]
        /\ \A f \in DOMAIN ftab : ftab[f] \in 1..Len(ofs)
    BY <1>0 DEF Sets, Others, Kept, Shape, Types
  <1>3. pc'[h] \notin Releasing /\ ~Twalk(h)' /\ job'[h].cf = 0 /\ job'[h].cur = 0
    BY NoJobType DEF Sets, Ends, Releasing, Twalk
  <1>4. /\ \A e, f \in DOMAIN ftab' : ftab'[e] = ftab'[f] => e = f
        /\ \A o, p \in 1..Len(ofs') : ofs'[o] = ofs'[p] => o = p \/ ofs'[o] \in shared'
    BY <1>1, <1>2 DEF Fronts
  <1>5. ASSUME NEW g \in Handlers \ {h} PROVE Released(g)'
    <2>1. Released(g)
      BY DEF Fronts
    <2> QED BY <1>1, <1>2, <2>1 DEF Released, Kept
  <1>6. ASSUME NEW g \in Handlers \ {h} PROVE (Far(g)' => Mine(g)') /\ AtStart(g)'
    <2>1. Far(g) => /\ \A o \in 1..Len(ofs') : ofs'[o] # job[g].cur
                    /\ job'[h].cf # job[g].cur /\ job'[h].cur # job[g].cur
      <3>1. SUFFICES ASSUME Far(g)
                     PROVE  /\ \A o \in 1..Len(ofs') : ofs'[o] # job[g].cur
                            /\ job'[h].cf # job[g].cur /\ job'[h].cur # job[g].cur
        OBVIOUS
      <3>2. Mine(g) /\ job[g].cur # 0
        BY <3>1, FarCur DEF Far, Fronts
      <3> QED BY <1>1, <1>2, <1>3, <3>1, <3>2 DEF Mine
    <2> QED BY <1>2, <2>1, WalkKept
  <1>7. Released(h)' /\ ~Far(h)' /\ AtStart(h)'
    BY <1>3 DEF Released, Far, AtStart
  <1> QED BY <1>4, <1>5, <1>6, <1>7 DEF Fronts

-----------------------------------------------------------------------------
(***************************************************************************)
(* InPlace.                                                                *)
(***************************************************************************)

\* The remote fid r is still there.
Stays(r) ==
    r \in DOMAIN rtab' /\ (rtab[r].open => rtab'[r].open)

\* So is the clientFile c, and if it was opened its remote fid was.
Same(c) ==
    /\ files'[c].fid = files[c].fid /\ files'[c].path = files[c].path
    /\ files'[c].open # files[c].open => rtab'[files[c].fid].open

\* A clientFile works as long as it and its remote fid stay.
LEMMA WorksKept ==
    ASSUME NEW c, Works(c), Same(c), Stays(files[c].fid)
    PROVE  Works(c)'
  BY DEF Works, Same, Stays

\* A remote fid being made stays in place as long as nobody clunks it.
LEMMA PreparedKept ==
    ASSUME NEW g \in Handlers, Prepared(g), Kept(g),
           pc[g] \in Making /\ job[g].new \in DOMAIN rtab => Stays(job[g].new)
    PROVE  Prepared(g)'
  <1>1. CASE pc[g] \in {"stat", "created"}
    BY <1>1 DEF Prepared, Kept, Stays, Making
  <1>2. CASE pc[g] \notin {"stat", "created"}
    BY <1>2 DEF Prepared, Kept
  <1> QED BY <1>1, <1>2

\* What the other handlers have is in place, if only h's own remote fid may go.
LEMMA OthersInPlace ==
    ASSUME Shape, News, InPlace, NEW h \in Handlers, NEW g \in Handlers \ {h}, Kept(g),
           shared \subseteq shared', \A c \in 1..Len(files) : Same(c),
           \A r \in DOMAIN rtab : (pc[h] \in Making /\ r = job[h].new) \/ Stays(r)
    PROVE  (Far(g)' => Works(job[g].cur)') /\ Prepared(g)'
  <1>1. ASSUME Far(g)' PROVE Works(job[g].cur)'
    <2>1. Far(g) /\ job'[g].cur = job[g].cur
      BY <1>1 DEF Far, Twalk, Kept
    <2>2. PICK c \in 1..Len(files) : c = job[g].cur
      BY <2>1, FarCur DEF Far
    <2>3. Works(c) /\ Same(c)
      BY <2>1, <2>2 DEF InPlace
    <2>4. Stays(files[c].fid)
      BY <2>3 DEF News, Works
    <2>5. Works(c)'
      BY <2>3, <2>4, WorksKept
    <2> QED BY <2>1, <2>2, <2>5 DEF Works
  <1>2. Prepared(g)'
    <2>1. pc[g] \in Making /\ job[g].new \in DOMAIN rtab => Stays(job[g].new)
      BY DEF News
    <2>2. Prepared(g)
      BY DEF InPlace
    <2> QED BY <2>1, <2>2, PreparedKept
  <1> QED BY <1>1, <1>2

\* InPlace survives a step that puts no fid and clunks none of those in use.
LEMMA InPlaceFrame ==
    ASSUME Shape, News, InPlace, NEW h \in Handlers, ofs' = ofs, DOMAIN ftab' \subseteq DOMAIN ftab,
           \A f \in DOMAIN ftab' : ftab'[f] = ftab[f], shared \subseteq shared',
           \A g \in Handlers \ {h} : Kept(g), Prepared(h)',
           Far(h)' => Far(h) /\ job'[h].cur = job[h].cur,
           \A c \in 1..Len(files) : Same(c),
           \A r \in DOMAIN rtab : (pc[h] \in Making /\ r = job[h].new) \/ Stays(r)
    PROVE  InPlace'
  <1>1. ASSUME NEW c \in 1..Len(files), Works(c) PROVE Works(c)'
    <2>1. Stays(files[c].fid)
      BY <1>1 DEF News, Works
    <2> QED BY <1>1, <2>1, WorksKept
  <1>2. ASSUME NEW f \in DOMAIN ftab', ofs'[ftab'[f]] \notin shared' PROVE Works(ofs[ftab[f]])'
    <2>1. PICK c \in 1..Len(files) : c = ofs[ftab[f]] /\ c = ofs'[ftab'[f]]
      BY DEF Shape, Types
    <2>2. Works(c)
      BY <1>2, <2>1 DEF InPlace
    <2> QED BY <1>1, <2>1, <2>2 DEF Works
  <1>3. ASSUME Far(h)' PROVE Works(job[h].cur)'
    <2>1. PICK c \in 1..Len(files) : c = job[h].cur /\ c = job'[h].cur
      BY <1>3, FarCur DEF Far
    <2>2. Works(c)
      BY <1>3, <2>1 DEF InPlace
    <2> QED BY <1>1, <2>1, <2>2 DEF Works
  <1>4. \A g \in Handlers \ {h} : (Far(g)' => Works(job[g].cur)') /\ Prepared(g)'
    BY OthersInPlace
  <1> QED BY <1>2, <1>3, <1>4 DEF InPlace, Works

\* A remote fid is released: that of a clientFile which no fid names any more, unless
\* it is shared.
LEMMA InPlaceReleased ==
    ASSUME Shape, News, Fronts, InPlace, NEW h \in Handlers, Releases(h)
    PROVE  InPlace'
  <1>0. PICK d \in 1..Len(files) : d = job[h].cf
    BY DEF Releases
  <1>1. /\ UNCHANGED <<ftab, ofs, files, shared>> /\ \A g \in Handlers \ {h} : Kept(g)
        /\ pc[h] \in {"remove", "close"} /\ pc'[h] \in {"close", "idle"}
    BY DEF Releases, Others, Kept, Ends
  <1>2. \A r \in DOMAIN rtab : r # files[d].fid => Stays(r)
    <2>1. rtab' = rtab \/ rtab' = without(rtab, files[d].fid)
      BY <1>0 DEF Releases, file
    <2>2. PICK x : x = files[d].fid /\ (rtab' = rtab \/ rtab' = without(rtab, x))
      BY <2>1
    <2>3. \A r \in DOMAIN rtab : r # x => r \in DOMAIN rtab' /\ rtab'[r] = rtab[r]
      BY <2>2 DEF without
    <2> QED BY <2>2, <2>3 DEF Stays
  <1>3. \A c \in 1..Len(files) : Same(c)
    BY <1>1 DEF Same
  <1>4. ASSUME NEW c \in 1..Len(files), c # d, Works(c) PROVE Works(c)'
    <2>1. files[c].fid # files[d].fid
      BY <1>4 DEF News
    <2>2. Stays(files[c].fid)
      BY <1>2, <1>4, <2>1 DEF Works
    <2> QED BY <1>3, <1>4, <2>2, WorksKept
  <1>5. ASSUME NEW f \in DOMAIN ftab', ofs'[ftab'[f]] \notin shared' PROVE Works(ofs[ftab[f]])'
    <2>1. PICK c \in 1..Len(files) : c = ofs[ftab[f]] /\ c = ofs'[ftab'[f]]
      BY <1>1 DEF Shape, Types
    <2>2. c # d
      BY <1>0, <1>1, <1>5, <2>1 DEF Fronts, Released, Releasing
    <2>3. Works(c)
      BY <1>1, <1>5, <2>1 DEF InPlace
    <2> QED BY <1>4, <2>1, <2>2, <2>3 DEF Works
  <1>6. ASSUME NEW g \in Handlers, Far(g)' PROVE Works(job[g].cur)'
    <2>1. g # h
      BY <1>1, <1>6 DEF Far, Twalk
    <2>2. Far(g) /\ job'[g].cur = job[g].cur
      BY <1>1, <1>6, <2>1 DEF Far, Twalk, Kept
    <2>3. PICK c \in 1..Len(files) : c = job[g].cur /\ c = job'[g].cur
      BY <2>2, FarCur DEF Far
    <2>4. c # d /\ Works(c)
      BY <1>0, <2>2, <2>3 DEF Fronts, Mine, InPlace
    <2> QED BY <1>4, <2>3, <2>4 DEF Works
  <1>7. ASSUME NEW g \in Handlers PROVE Prepared(g)'
    <2>1. CASE g = h
      BY <1>1, <2>1 DEF Prepared
    <2>2. CASE g # h
      <3>1. pc[g] \in Making /\ job[g].new \in DOMAIN rtab => Stays(job[g].new)
        BY <1>2 DEF News
      <3>2. Prepared(g) /\ Kept(g)
        BY <1>1, <2>2 DEF InPlace
      <3> QED BY <1>3, <3>1, <3>2, PreparedKept
    <2> QED BY <2>1, <2>2
  <1> QED BY <1>5, <1>6, <1>7 DEF InPlace

\* Nothing of the old clientFiles and remote fids changes.
LEMMA AllStay ==
    ASSUME NEW h \in Handlers, Finishes(h) \/ Arrives(h) \/ Attaches(h) \/ Sets(h)
    PROVE  /\ \A c \in 1..Len(files) : Same(c) /\ (Works(c) => Works(c)')
           /\ \A r \in DOMAIN rtab : Stays(r)
           /\ shared' = shared /\ \A g \in Handlers \ {h} : Kept(g)
           /\ pc'[h] \in {"name", "idle"} /\ (Far(h)' => Arrives(h))
           /\ Arrives(h) => pc[h] \in Making
  <1>1. rtab' = rtab /\ shared' = shared /\ \A c \in 1..Len(files) : files'[c] = files[c]
    BY DEF Finishes, Arrives, Attaches, Sets, Adds
  <1>2. (\A g \in Handlers \ {h} : Kept(g)) /\ pc'[h] \in {"name", "idle"}
    BY DEF Finishes, Arrives, Attaches, Sets, Others, Kept, Ends
  <1>3. Far(h)' => Arrives(h)
    BY DEF Finishes, Attaches, Sets, Ends, Far, Twalk
  <1> QED BY <1>1, <1>2, <1>3 DEF Same, Works, Stays, Arrives, Making

\* A new clientFile works.
LEMMA AddedWorks ==
    ASSUME Shape, News, InPlace, NEW h \in Handlers, NEW n, n = Len(files) + 1,
           Arrives(h) \/ Attaches(h) \/ Sets(h)
    PROVE  Works(n)'
  <1>1. CASE Arrives(h) \/ Attaches(h)
    <2>1. /\ pc[h] = "stat" /\ rtab' = rtab /\ files'[n].fid = job[h].new /\ files'[n].path = job[h].path
          /\ files'[n].open = 0
      BY <1>1 DEF Arrives, Attaches, Adds
    <2> QED BY <2>1 DEF InPlace, Prepared, Works
  <1>2. CASE Sets(h)
    <2>1. /\ pc[h] = "created" /\ rtab' = rtab /\ files'[n].fid = job[h].new
          /\ files'[n].path = Append(file(h).path, "x")
      BY <1>2 DEF Sets, Adds
    <2> QED BY <2>1 DEF InPlace, Prepared, Works
  <1> QED BY <1>1, <1>2

\* What is put into the table is in place.
LEMMA InPlaceAdded ==
    ASSUME Shape, News, Fronts, InPlace, NEW h \in Handlers,
           Finishes(h) \/ Arrives(h) \/ Attaches(h) \/ Sets(h)
    PROVE  InPlace'
  <1>0. PICK n : n = Len(files) + 1
    OBVIOUS
  <1>1. /\ \A c \in 1..Len(files) : Same(c) /\ (Works(c) => Works(c)')
        /\ \A r \in DOMAIN rtab : Stays(r)
        /\ shared' = shared /\ \A g \in Handlers \ {h} : Kept(g)
        /\ pc'[h] \in {"name", "idle"} /\ (Far(h)' => Arrives(h))
    BY AllStay
  <1>2. ASSUME NEW f \in DOMAIN ftab', ofs'[ftab'[f]] \notin shared'
        PROVE  \/ ofs'[ftab'[f]] = n /\ ~Finishes(h)
               \/ \E c \in 1..Len(files) : c = ofs'[ftab'[f]] /\ Works(c)
    <2>1. CASE f \in DOMAIN ftab /\ ofs'[ftab'[f]] = ofs[ftab[f]]
      <3>1. ofs[ftab[f]] \in 1..Len(files)
        BY <2>1 DEF Shape, Types
      <3> QED BY <1>1, <1>2, <2>1, <3>1 DEF InPlace
    <2>2. CASE Finishes(h)
      <3>1. PICK fid \in Fids : Puts(fid, job[h].cur)
        BY <2>2 DEF Finishes
      <3>2. CASE f = fid
        <4>1. ofs'[ftab'[f]] = job[h].cur /\ job[h].cur \in 1..Len(files)
          BY <2>2, <3>1, <3>2, FarCur DEF Puts, Finishes
        <4>2. Far(h)
          BY <1>1, <1>2, <2>2, <4>1 DEF Finishes, Fronts, AtStart, Far
        <4> QED BY <4>1, <4>2 DEF InPlace
      <3>3. CASE f # fid
        <4>1. f \in DOMAIN ftab /\ ftab'[f] = ftab[f] /\ ftab[f] \in 1..Len(ofs)
          BY <3>1, <3>3 DEF Puts, Shape, Types
        <4>2. ofs'[ftab'[f]] = ofs[ftab[f]]
          BY <3>1, <4>1 DEF Puts
        <4> QED BY <2>1, <4>1, <4>2
      <3> QED BY <3>2, <3>3
    <2>3. CASE Attaches(h)
      <3>1. PICK fid \in Fids : Puts(fid, n)
        BY <1>0, <2>3 DEF Attaches
      <3>2. CASE f = fid
        <4>1. ofs'[ftab'[f]] = n
          BY <3>1, <3>2 DEF Puts
        <4>2. ~Finishes(h)
          BY <2>3 DEF Attaches, Finishes
        <4> QED BY <4>1, <4>2
      <3>3. CASE f # fid
        <4>1. f \in DOMAIN ftab /\ ftab'[f] = ftab[f] /\ ftab[f] \in 1..Len(ofs)
          BY <3>1, <3>3 DEF Puts, Shape, Types
        <4>2. ofs'[ftab'[f]] = ofs[ftab[f]]
          BY <3>1, <4>1 DEF Puts
        <4> QED BY <2>1, <4>1, <4>2
      <3> QED BY <3>2, <3>3
    <2>4. CASE Arrives(h)
      BY <2>1, <2>4 DEF Arrives
    <2>5. CASE Sets(h)
      <3>1. f \in DOMAIN ftab /\ ftab'[f] = ftab[f] /\ ftab[f] \in 1..Len(ofs)
        BY <2>5 DEF Sets, Shape, Types
      <3>2. CASE ftab[f] = job[h].of
        <4>1. ofs'[ftab'[f]] = n
          BY <1>0, <2>5, <3>1, <3>2 DEF Sets
        <4>2. ~Finishes(h)
          BY <2>5 DEF Sets, Finishes
        <4> QED BY <4>1, <4>2
      <3>3. CASE ftab[f] # job[h].of
        <4>1. ofs'[ftab'[f]] = ofs[ftab[f]]
          BY <2>5, <3>1, <3>3 DEF Sets
        <4> QED BY <2>1, <3>1, <4>1
      <3> QED BY <3>2, <3>3
    <2> QED BY <2>2, <2>3, <2>4, <2>5
  <1>3. ASSUME NEW f \in DOMAIN ftab', ofs'[ftab'[f]] \notin shared' PROVE Works(ofs[ftab[f]])'
    <2>1. CASE ofs'[ftab'[f]] = n /\ ~Finishes(h)
      <3>1. Works(n)'
        BY <1>0, <2>1, AddedWorks
      <3> QED BY <2>1, <3>1 DEF Works
    <2>2. CASE \E c \in 1..Len(files) : c = ofs'[ftab'[f]] /\ Works(c)
      <3>1. PICK c \in 1..Len(files) : c = ofs'[ftab'[f]] /\ Works(c)
        BY <2>2
      <3>2. Works(c)'
        BY <1>1, <3>1
      <3> QED BY <3>1, <3>2 DEF Works
    <2> QED BY <1>2, <1>3, <2>1, <2>2
  <1>4. ASSUME Far(h)' PROVE Works(job[h].cur)'
    <2>1. Works(n)' /\ job'[h].cur = n
      BY <1>0, <1>1, <1>4, AddedWorks DEF Arrives
    <2> QED BY <2>1 DEF Works
  <1>5. Prepared(h)'
    BY <1>1 DEF Prepared
  <1>6. \A g \in Handlers \ {h} : (Far(g)' => Works(job[g].cur)') /\ Prepared(g)'
    BY <1>1, OthersInPlace
  <1> QED BY <1>3, <1>4, <1>5, <1>6 DEF InPlace

-----------------------------------------------------------------------------
(***************************************************************************)
(* Accounted.                                                              *)
(***************************************************************************)

\* The clientFiles' remote fids stay.
FidsStay == \A c \in 1..Len(files) : files'[c].fid = files[c].fid

\* A handler that releases a fid has its openFile and clientFile.
LEMMA ReleasedFile ==
    ASSUME Shape, NEW g \in Handlers, pc[g] \in Releasing
    PROVE  job[g].cf \in 1..Len(files) /\ job[g].of \in 1..Len(ofs)
  <1>1. JobOK(g) /\ Len(files) \in Nat /\ Len(ofs) \in Nat
    BY Lengths DEF Shape
  <1> QED BY <1>1 DEF JobOK, OpOK, Releasing

\* A handler that does not move keeps seeing to its remote fids.
LEMMA SeesKept ==
    ASSUME Shape, NEW g \in Handlers, Kept(g), FidsStay, NEW r, Sees(g, r),
           pc[g] = "get" => ofs'[job[g].of] = ofs[job[g].of]
    PROVE  Sees(g, r)'
  <1>1. CASE pc[g] \in Releasing /\ r = file(g).fid /\ (pc[g] = "get" => job[g].cf = ofs[job[g].of])
    <2>1. files'[job[g].cf].fid = files[job[g].cf].fid
      BY <1>1, ReleasedFile DEF FidsStay
    <2> QED BY <1>1, <2>1 DEF Sees, Kept, file
  <1>2. CASE pc[g] \in Making /\ r = job[g].new
    BY <1>2 DEF Sees, Kept
  <1>3. CASE Twalk(g) /\ job[g].cur # job[g].cf /\ r = files[job[g].cur].fid
    <2>1. files'[job[g].cur].fid = files[job[g].cur].fid
      BY <1>3, FarCur DEF FidsStay
    <2> QED BY <1>3, <2>1 DEF Sees, Kept, Twalk
  <1> QED BY <1>1, <1>2, <1>3 DEF Sees

\* Accounted survives a step that hands nothing over, if h answers for what it lets go.
LEMMA AccountedFrame ==
    ASSUME Shape, Accounted, NEW h \in Handlers, \A g \in Handlers \ {h} : Kept(g),
           ofs' = ofs, ftab' = ftab, FidsStay, dropped \subseteq dropped',
           \A r \in DOMAIN rtab' \ {RootFid} :
              Known(r)' \/ (r \in DOMAIN rtab /\ (Sees(h, r) => Known(r)'))
    PROVE  Accounted'
  <1>1. ASSUME NEW r \in DOMAIN rtab' \ {RootFid}, r \in DOMAIN rtab, Sees(h, r) => Known(r)'
        PROVE  Known(r)'
    <2>1. Known(r)
      BY <1>1 DEF Accounted
    <2>2. CASE \E f \in DOMAIN ftab : r = files[ofs[ftab[f]]].fid
      <3>1. \A f \in DOMAIN ftab : files'[ofs[ftab[f]]].fid = files[ofs[ftab[f]]].fid
        BY DEF FidsStay, Shape, Types
      <3> QED BY <2>2, <3>1 DEF Known
    <2>3. CASE \E g \in Handlers : Sees(g, r)
      <3>1. PICK g \in Handlers : Sees(g, r)
        BY <2>3
      <3>2. CASE g = h
        BY <1>1, <3>1, <3>2
      <3>3. CASE g # h
        <4>1. Sees(g, r)'
          BY <3>1, <3>3, SeesKept
        <4> QED BY <4>1 DEF Known
      <3> QED BY <3>2, <3>3
    <2> QED BY <2>1, <2>2, <2>3 DEF Known
  <1> QED BY <1>1 DEF Accounted

\* A handler that is in none of the calls that make or release remote fids.
LEMMA SeesNothing ==
    ASSUME NEW h \in Handlers, pc[h] \notin Releasing, pc[h] \notin Making, ~Twalk(h), NEW r
    PROVE  ~Sees(h, r)
  BY DEF Sees

\* The fid that a handler makes is in its hands until it is clunked or dropped.
LEMMA AccountedMade ==
    ASSUME Shape, Accounted, NEW h \in Handlers, Makes(h) \/ Quits(h) \/ Creates(h) \/ Steps(h)
    PROVE  Accounted'
  <1>1. /\ \A g \in Handlers \ {h} : Kept(g)
        /\ UNCHANGED <<ftab, ofs, files>> /\ dropped \subseteq dropped'
    BY DEF Makes, Quits, Creates, Steps, Others, Kept
  <1>2. FidsStay
    BY <1>1 DEF FidsStay
  <1>3. CASE Makes(h)
    <2>1. pc'[h] \in Making /\ pc[h] \notin Making /\ pc[h] \notin Releasing
      BY <1>3 DEF Makes, Making, Releasing
    <2>0. PICK n : n = nfid'
      OBVIOUS
    <2>2. Sees(h, n)'
      BY <1>3, <2>0, <2>1 DEF Makes, Sees
    <2>3. ASSUME NEW r, Sees(h, r) PROVE Sees(h, r)'
      <3>1. Twalk(h) /\ job[h].cur # job[h].cf /\ r = files[job[h].cur].fid
        BY <2>1, <2>3 DEF Sees
      <3>2. Twalk(h)'
        BY <1>3, <3>1 DEF Makes, Twalk
      <3> QED BY <1>1, <1>3, <3>1, <3>2 DEF Makes, Sees
    <2>4. \A r \in DOMAIN rtab' : r \in DOMAIN rtab \/ r = n
      BY <1>3, <2>0 DEF Makes
    <2>5. \A r \in DOMAIN rtab' \ {RootFid} :
              Known(r)' \/ (r \in DOMAIN rtab /\ (Sees(h, r) => Known(r)'))
      BY <2>2, <2>3, <2>4 DEF Known
    <2> QED BY <1>1, <1>2, <2>5, AccountedFrame
  <1>4. CASE Quits(h)
    <2>1. pc[h] \notin Releasing
      BY <1>4 DEF Quits, Releasing
    <2>2. ASSUME NEW r, Twalk(h), job[h].cur # job[h].cf, r = files[job[h].cur].fid PROVE Sees(h, r)'
      <3>1. job[h].i # 1
        <4>1. JobOK(h) /\ pc[h] # "name"
          BY <1>4 DEF Shape, Quits
        <4> QED BY <2>2, <4>1 DEF JobOK
      <3>2. Retreats(h)
        BY <1>4, <2>2, <3>1 DEF Quits
      <3> QED BY <1>1, <2>2, <3>2 DEF Retreats, Sees, Twalk
    <2>3. \A r \in DOMAIN rtab' : r \in dropped' \/ (r \in DOMAIN rtab /\ ~(pc[h] \in Making /\ r = job[h].new))
      BY <1>4 DEF Quits
    <2>4. \A r \in DOMAIN rtab' : r \in dropped' \/ (r \in DOMAIN rtab /\ (Sees(h, r) => Sees(h, r)'))
      BY <2>1, <2>2, <2>3 DEF Sees
    <2>5. \A r \in DOMAIN rtab' \ {RootFid} :
              Known(r)' \/ (r \in DOMAIN rtab /\ (Sees(h, r) => Known(r)'))
      BY <2>4, SMTT(40) DEF Known
    <2> QED BY <1>1, <1>2, <2>5, AccountedFrame
  <1>5. CASE Creates(h)
    <2>1. pc[h] \notin Releasing /\ ~Twalk(h) /\ pc'[h] \in Making
      BY <1>5, SMTT(40) DEF Creates, Releasing, Twalk, Making
    <2>2. \A r : Sees(h, r) => Sees(h, r)'
      BY <1>5, <2>1, SMTT(40) DEF Creates, Sees
    <2>3. \A r \in DOMAIN rtab' \ {RootFid} :
              Known(r)' \/ (r \in DOMAIN rtab /\ (Sees(h, r) => Known(r)'))
      BY <1>5, <2>2 DEF Known, Creates
    <2> QED BY <1>1, <1>2, <2>3, AccountedFrame
  <1>6. CASE Steps(h)
    <2>1. pc[h] \notin Releasing /\ pc[h] \notin Making /\ (Twalk(h) => Twalk(h)')
      BY <1>6 DEF Steps, Releasing, Twalk, Making
    <2>2. \A r : Sees(h, r) => Sees(h, r)'
      BY <1>1, <1>6, <2>1 DEF Steps, Sees
    <2>3. \A r \in DOMAIN rtab' \ {RootFid} :
              Known(r)' \/ (r \in DOMAIN rtab /\ (Sees(h, r) => Known(r)'))
      BY <1>6, <2>2 DEF Known, Steps
    <2> QED BY <1>1, <1>2, <2>3, AccountedFrame
  <1> QED BY <1>3, <1>4, <1>5, <1>6, SMTT(40)

\* So is the one it releases.
LEMMA AccountedReleased ==
    ASSUME Shape, Accounted, NEW h \in Handlers, Gets(h) \/ Releases(h)
    PROVE  Accounted'
  <1>1. /\ \A g \in Handlers \ {h} : Kept(g)
        /\ UNCHANGED <<ftab, ofs, files>> /\ dropped \subseteq dropped'
    BY DEF Gets, Releases, Others, Kept
  <1>2. FidsStay
    BY <1>1 DEF FidsStay
  <1>3. pc[h] \notin Making /\ ~Twalk(h)
    BY DEF Gets, Releases, Making, Twalk
  <1>4. CASE Gets(h)
    <2>1. ASSUME NEW r, Sees(h, r) PROVE Sees(h, r)'
      <3>1. r = files[job[h].cf].fid /\ job[h].cf = ofs[job[h].of]
        BY <1>3, <1>4, <2>1 DEF Sees, Gets, file
      <3>2. pc'[h] \in Releasing /\ pc'[h] # "get" /\ job'[h].cf = ofs[job[h].of]
        BY <1>4 DEF Gets, Releasing
      <3> QED BY <1>1, <3>1, <3>2 DEF Sees, file
    <2>2. \A r \in DOMAIN rtab' \ {RootFid} :
              Known(r)' \/ (r \in DOMAIN rtab /\ (Sees(h, r) => Known(r)'))
      BY <1>4, <2>1 DEF Known, Gets
    <2> QED BY <1>1, <1>2, <2>2, AccountedFrame
  <1>5. CASE Releases(h)
    <2>1. ASSUME NEW r \in DOMAIN rtab' PROVE r \in DOMAIN rtab /\ (Sees(h, r) => Sees(h, r)')
      <3>1. CASE rtab' = rtab /\ pc[h] = "remove" /\ pc'[h] = "close" /\ job'[h] = job[h]
        BY <1>1, <1>3, <2>1, <3>1 DEF Sees, Releasing, file
      <3>2. CASE rtab' = without(rtab, file(h).fid)
        <4>1. PICK x : x = file(h).fid /\ rtab' = without(rtab, x)
          BY <3>2
        <4>2. r \in DOMAIN rtab /\ r # x
          BY <2>1, <4>1 DEF without
        <4> QED BY <1>3, <4>1, <4>2 DEF Sees
      <3> QED BY <1>5, <3>1, <3>2 DEF Releases
    <2>2. \A r \in DOMAIN rtab' \ {RootFid} :
              Known(r)' \/ (r \in DOMAIN rtab /\ (Sees(h, r) => Known(r)'))
      BY <2>1 DEF Known
    <2> QED BY <1>1, <1>2, <2>2, AccountedFrame
  <1> QED BY <1>4, <1>5

\* So is that of the clientFile which a Twalk has reached;
LEMMA AccountedArrived ==
    ASSUME Shape, Accounted, NEW h \in Handlers, Arrives(h)
    PROVE  Accounted'
  <1>0. PICK n : n = Len(files) + 1
    OBVIOUS
  <1>1. /\ \A g \in Handlers \ {h} : Kept(g)
        /\ UNCHANGED <<ftab, ofs, rtab>> /\ dropped \subseteq dropped'
        /\ files'[n].fid = job[h].new /\ job'[h].cur = n /\ job'[h].cf = job[h].cf
    BY <1>0 DEF Arrives, Others, Kept, Adds
  <1>2. FidsStay
    BY DEF FidsStay, Arrives, Adds
  <1>3. Twalk(h) /\ Twalk(h)' /\ pc[h] \notin Releasing /\ job[h].cf # n
    BY <1>0, OldFiles DEF Arrives, Twalk, Releasing
  <1>4. ASSUME NEW r, Sees(h, r) PROVE Known(r)'
    <2>1. CASE r = job[h].new
      <3>1. Sees(h, r)'
        BY <1>1, <1>3, <2>1 DEF Sees
      <3> QED BY <3>1 DEF Known
    <2>2. CASE job[h].cur # job[h].cf /\ r = files[job[h].cur].fid
      BY <2>2 DEF Known, Arrives
    <2> QED BY <1>3, <1>4, <2>1, <2>2 DEF Sees
  <1> QED BY <1>1, <1>2, <1>4, AccountedFrame

\* nothing changes hands when a request begins, but a Tclunk takes its fid over;
LEMMA AccountedBegun ==
    ASSUME Shape, Accounted, NEW h \in Handlers, Begins(h)
    PROVE  Accounted'
  <1>1. /\ \A g \in Handlers \ {h} : Kept(g)
        /\ UNCHANGED <<ofs, files, rtab, dropped>>
    BY DEF Begins, Others, Kept
  <1>2. FidsStay
    BY <1>1 DEF FidsStay
  <1>3. \A r : ~Sees(h, r)
    BY DEF Begins, Sees, Releasing, Making, Twalk
  <1>4. ASSUME NEW r \in DOMAIN rtab' \ {RootFid} PROVE Known(r)'
    <2>1. Known(r)
      BY <1>1, <1>4 DEF Accounted
    <2>2. CASE \E f \in DOMAIN ftab : r = files[ofs[ftab[f]]].fid
      <3>1. PICK f \in DOMAIN ftab : r = files[ofs[ftab[f]]].fid
        BY <2>2
      <3>2. CASE f \in DOMAIN ftab'
        <4>1. ftab'[f] = ftab[f]
          BY <3>2 DEF Begins
        <4> QED BY <1>1, <3>1, <3>2, <4>1 DEF Known
      <3>3. CASE f \notin DOMAIN ftab'
        <4>1. pc'[h] = "get" /\ job'[h].of = ftab[f] /\ job'[h].cf = ofs[ftab[f]]
          BY <3>1, <3>3 DEF Begins
        <4>2. Sees(h, r)'
          BY <1>1, <3>1, <4>1 DEF Sees, Releasing, file
        <4> QED BY <4>2 DEF Known
      <3> QED BY <3>2, <3>3
    <2>3. CASE \E g \in Handlers : Sees(g, r)
      <3>1. PICK g \in Handlers \ {h} : Sees(g, r)
        BY <1>3, <2>3
      <3>2. Sees(g, r)'
        BY <1>1, <1>2, <3>1, SeesKept
      <3> QED BY <3>2 DEF Known
    <2> QED BY <1>1, <2>1, <2>2, <2>3 DEF Known
  <1> QED BY <1>4 DEF Accounted

\* putFid, for the clientFile whose remote fid h sees.
LEMMA AccountedPut ==
    ASSUME Shape, Accounted, NEW h \in Handlers, Others(h), FidsStay, rtab' = rtab,
           NEW fid \in Fids, NEW c, Puts(fid, c), \A r : Sees(h, r) => r = files'[c].fid
    PROVE  Accounted'
  <1>1. \A g \in Handlers \ {h} : Kept(g)
    BY DEF Others, Kept
  <1>2. ASSUME NEW r \in DOMAIN rtab' \ {RootFid} PROVE Known(r)'
    <2>1. Known(r)
      BY <1>2 DEF Accounted
    <2>2. CASE r \in dropped
      BY <2>2 DEF Known, Puts
    <2>3. CASE \E f \in DOMAIN ftab : r = files[ofs[ftab[f]]].fid
      <3>1. PICK f \in DOMAIN ftab : r = files[ofs[ftab[f]]].fid
        BY <2>3
      <3>2. files'[ofs[ftab[f]]].fid = r
        BY <3>1 DEF FidsStay, Shape, Types
      <3>3. r \in dropped' \/ \E e \in DOMAIN ftab' : ofs'[ftab'[e]] = ofs[ftab[f]]
        BY <3>1 DEF Puts
      <3> QED BY <3>2, <3>3 DEF Known
    <2>4. CASE Sees(h, r)
      <3>1. r = files'[c].fid /\ fid \in DOMAIN ftab' /\ ofs'[ftab'[fid]] = c
        BY <2>4 DEF Puts
      <3> QED BY <3>1 DEF Known
    <2>5. CASE \E g \in Handlers \ {h} : Sees(g, r)
      <3>1. PICK g \in Handlers \ {h} : Sees(g, r)
        BY <2>5
      <3>2. pc[g] = "get" => ofs'[job[g].of] = ofs[job[g].of]
        BY ReleasedFile DEF Releasing, Puts
      <3>3. Sees(g, r)'
        BY <1>1, <3>1, <3>2, SeesKept
      <3> QED BY <3>3 DEF Known
    <2> QED BY <2>1, <2>2, <2>3, <2>4, <2>5 DEF Known
  <1> QED BY <1>2 DEF Accounted

\* what was put is in the table, and putFid drops what it overwrites;
LEMMA AccountedFinished ==
    ASSUME Shape, Accounted, NEW h \in Handlers, Finishes(h) \/ Attaches(h)
    PROVE  Accounted'
  <1>1. Others(h) /\ FidsStay /\ rtab' = rtab
    BY DEF Finishes, Attaches, FidsStay, Adds
  <1>2. CASE Finishes(h)
    <2>1. PICK fid \in Fids : Puts(fid, job[h].cur)
      BY <1>2 DEF Finishes
    <2>2. \A r : Sees(h, r) => r = files'[job[h].cur].fid
      BY <1>2 DEF Finishes, Sees, Releasing, Making
    <2> QED BY <1>1, <2>1, <2>2, AccountedPut
  <1>3. CASE Attaches(h)
    <2>1. PICK fid, n : fid \in Fids /\ n = Len(files) + 1 /\ Puts(fid, n)
      BY <1>3 DEF Attaches
    <2>2. \A r : Sees(h, r) => r = files'[n].fid
      BY <1>3, <2>1 DEF Attaches, Adds, Sees, Releasing
    <2> QED BY <1>1, <2>1, <2>2, AccountedPut
  <1> QED BY <1>2, <1>3

\* and openFile.set drops the directory.
LEMMA AccountedSet ==
    ASSUME Shape, Fronts, Accounted, NEW h \in Handlers, Sets(h)
    PROVE  Accounted'
  <1>0. PICK of, n : of \in 1..Len(ofs) /\ n = Len(files) + 1 /\ of = job[h].of
    BY DEF Sets
  <1>1. /\ \A g \in Handlers \ {h} : Kept(g)
        /\ UNCHANGED <<ftab, rtab>> /\ dropped \subseteq dropped'
        /\ files'[n].fid = job[h].new /\ ofs'[of] = n
        /\ \A o \in (1..Len(ofs)) \ {of} : ofs'[o] = ofs[o]
        /\ \A f \in DOMAIN ftab : \/ files[ofs[ftab[f]]].fid \in dropped'
                                  \/ \E e \in DOMAIN ftab : ofs'[ftab[e]] = ofs[ftab[f]]
        /\ \/ \E f \in DOMAIN ftab : ftab[f] = of
           \/ files[ofs[of]].fid \in dropped' /\ job[h].new \in dropped'
    BY <1>0 DEF Sets, Others, Kept, Adds
  <1>2. FidsStay
    BY DEF FidsStay, Sets, Adds
  <1>3. \A r : Sees(h, r) => r = job[h].new
    BY DEF Sets, Sees, Releasing, Twalk
  <1>4. ASSUME NEW r \in DOMAIN rtab' \ {RootFid} PROVE Known(r)'
    <2>1. Known(r)
      BY <1>1, <1>4 DEF Accounted
    <2>2. CASE r \in dropped
      BY <1>1, <2>2 DEF Known
    <2>3. CASE \E f \in DOMAIN ftab : r = files[ofs[ftab[f]]].fid
      <3>1. PICK f \in DOMAIN ftab : r = files[ofs[ftab[f]]].fid
        BY <2>3
      <3>2. files'[ofs[ftab[f]]].fid = r
        BY <1>2, <3>1 DEF FidsStay, Shape, Types
      <3>3. r \in dropped' \/ \E e \in DOMAIN ftab : ofs'[ftab[e]] = ofs[ftab[f]]
        BY <1>1, <3>1
      <3> QED BY <1>1, <3>2, <3>3 DEF Known
    <2>4. CASE Sees(h, r)
      <3>1. r = job[h].new
        BY <1>3, <2>4
      <3> QED BY <1>1, <3>1 DEF Known
    <2>5. CASE \E g \in Handlers \ {h} : Sees(g, r)
      <3>1. PICK g \in Handlers \ {h} : Sees(g, r)
        BY <2>5
      <3>2. CASE pc[g] = "get" /\ job[g].of = of
        <4>1. \A f \in DOMAIN ftab : ftab[f] # of
          BY <3>2 DEF Fronts, Released, Releasing
        <4>2. r = files[ofs[of]].fid
          BY <3>1, <3>2 DEF Sees, file, Making, Twalk
        <4> QED BY <1>1, <4>1, <4>2 DEF Known
      <3>3. CASE ~(pc[g] = "get" /\ job[g].of = of)
        <4>1. pc[g] = "get" => ofs'[job[g].of] = ofs[job[g].of]
          BY <1>1, <3>3, ReleasedFile DEF Releasing
        <4>2. Sees(g, r)'
          BY <1>1, <1>2, <3>1, <4>1, SeesKept
        <4> QED BY <4>2 DEF Known
      <3> QED BY <3>2, <3>3
    <2> QED BY <2>1, <2>2, <2>3, <2>4, <2>5 DEF Known
  <1> QED BY <1>4 DEF Accounted

-----------------------------------------------------------------------------
(***************************************************************************)
(* The invariant, effect by effect.                                        *)
(***************************************************************************)

\* Handlers that a step leaves alone.
LEMMA OthersKept ==
    ASSUME NEW h \in Handlers, Others(h)
    PROVE  \A g \in Handlers \ {h} : Kept(g)
  BY DEF Others, Kept

\* Steps with no new clientFile and no lock.
LEMMA UnlockedLocks ==
    ASSUME Shape, Locks, NEW h \in Handlers, \A g \in Handlers \ {h} : Kept(g), files' = files,
           Kept(h) \/ (pc[h] \notin Locking /\ pc'[h] \notin Locking)
    PROVE  Locks'
  BY Lengths, LocksFrame

\* The remote fids, if all of them stay.
LEMMA StaySame ==
    ASSUME files' = files, rtab' = rtab \/ RemoteKept
    PROVE  (\A c \in 1..Len(files) : Same(c)) /\ (\A r \in DOMAIN rtab : Stays(r)) /\ FidsStay
  BY DEF Same, Stays, FidsStay, RemoteKept

\* Each effect keeps the parts it can disturb by the lemmas above, the others by their
\* frame.
LEMMA InvFlushes ==
    ASSUME Inv, Shape', NEW h \in Handlers, Flushes(h)
    PROVE  Inv'
  <1>0. /\ UNCHANGED <<ftab, ofs, files, offs, rtab, nfid, shared, dropped>>
        /\ \A g \in Handlers : Kept(g)
    BY DEF Flushes
  <1> USE DEF Inv
  <1>1. Locks'
    BY <1>0, UnlockedLocks
  <1>2. News'
    <2>1. pc'[h] = pc[h] /\ job'[h].new = job[h].new
      BY <1>0 DEF Kept
    <2> QED BY <1>0, <2>1, NewsFrame
  <1>4. Twalk(h)' <=> Twalk(h)
    BY <1>0 DEF Kept, Twalk
  <1>5. Fronts'
    <2>1. AtStart(h)'
      BY <1>0, <1>4 DEF Fronts, AtStart, Kept
    <2>2. /\ job'[h].cf = job[h].cf /\ job'[h].cur = job[h].cur /\ job'[h].of = job[h].of
          /\ pc'[h] = pc[h]
      BY <1>0 DEF Kept
    <2> QED BY <1>0, <1>4, <2>1, <2>2, FrontsFrame
  <1>6. InPlace'
    <2>1. (\A c \in 1..Len(files) : Same(c)) /\ (\A r \in DOMAIN rtab : Stays(r))
      BY <1>0, StaySame
    <2>2. Prepared(h) /\ Kept(h)
      BY <1>0 DEF InPlace
    <2>3. pc[h] \in Making /\ job[h].new \in DOMAIN rtab => Stays(job[h].new)
      BY <2>1
    <2>4. Prepared(h)'
      BY <2>1, <2>2, <2>3, PreparedKept
    <2>5. Far(h)' => Far(h) /\ job'[h].cur = job[h].cur
      BY <1>0, <1>4 DEF Far, Kept
    <2> QED BY <1>0, <2>1, <2>4, <2>5, InPlaceFrame
  <1>7. Accounted'
    <2>1. FidsStay
      BY <1>0, StaySame
    <2>2. ASSUME NEW r, Sees(h, r) PROVE Known(r)'
      <3>1. Sees(h, r)'
        BY <1>0, <2>1, <2>2, SeesKept
      <3> QED BY <3>1 DEF Known
    <2> QED BY <1>0, <2>1, <2>2, AccountedFrame
  <1> QED BY <1>1, <1>2, <1>5, <1>6, <1>7

LEMMA InvPlain ==
    ASSUME Inv, Shape', NEW h \in Handlers, Plain(h)
    PROVE  Inv'
  <1>0. /\ UNCHANGED <<ftab, ofs, files, nfid, shared, dropped>> /\ RemoteKept
        /\ DOMAIN rtab' = DOMAIN rtab /\ \A g \in Handlers \ {h} : Kept(g)
        /\ job'[h].cf \in {job[h].cf, 0} /\ job'[h].cur \in {job[h].cur, 0}
        /\ pc[h] \notin Locking /\ pc'[h] \notin Locking /\ pc[h] \notin Making /\ pc'[h] \notin Making
        /\ pc[h] \notin Releasing /\ pc'[h] \notin Releasing /\ ~Twalk(h) /\ ~Twalk(h)' /\ pc'[h] \notin {"stat", "created"}
    BY DEF Plain, RemoteKept, Locking, Making, Releasing, Twalk
  <1> USE DEF Inv
  <1>1. Locks'
    BY <1>0, UnlockedLocks
  <1>2. News'
    BY <1>0, NewsFrame
  <1>3. Fronts'
    <2>1. AtStart(h)'
      BY <1>0 DEF AtStart
    <2> QED BY <1>0, <2>1, FrontsFrame
  <1>4. InPlace'
    <2>1. (\A c \in 1..Len(files) : Same(c)) /\ (\A r \in DOMAIN rtab : Stays(r))
      BY <1>0, StaySame
    <2>2. Prepared(h)' /\ ~Far(h)'
      BY <1>0 DEF Prepared, Far
    <2> QED BY <1>0, <2>1, <2>2, InPlaceFrame
  <1>5. Accounted'
    <2>1. FidsStay
      BY <1>0, StaySame
    <2>2. \A r : ~Sees(h, r)
      BY <1>0, SeesNothing
    <2> QED BY <1>0, <2>1, <2>2, AccountedFrame
  <1> QED BY <1>1, <1>2, <1>3, <1>4, <1>5

\* A step under f.mu, or one that takes it.
LEMMA InvHolds ==
    ASSUME Inv, Shape', NEW h \in Handlers, TakesMu(h) \/ Holds(h)
    PROVE  Inv'
  <1> USE DEF Inv
  <1>0. /\ UNCHANGED <<ftab, ofs, nfid, shared, dropped>>
        /\ \A g \in Handlers \ {h} : Kept(g)
        /\ job'[h].cf \in {job[h].cf, 0} /\ job'[h].cur \in {job[h].cur, 0}
        /\ pc[h] \notin Making /\ pc'[h] \notin Making /\ pc'[h] \notin {"stat", "created"}
        /\ pc[h] \notin Releasing /\ pc'[h] \notin Releasing /\ ~Twalk(h) /\ ~Twalk(h)'
    BY DEF TakesMu, Holds, Locking, Making, Releasing, Twalk, Others, Kept
  <1>1. Locks'
    BY LocksTaken, LocksHeld
  <1>2. /\ Len(files') = Len(files) /\ DOMAIN rtab' = DOMAIN rtab
        /\ \A k \in 1..Len(offs) : offs'[k] = offs[k]
        /\ \A c \in 1..Len(files) : Same(c)
        /\ \A r \in DOMAIN rtab : Stays(r)
    <2>1. CASE TakesMu(h)
      <3>1. job[h].cf \in 1..Len(files)
        <4>1. JobOK(h) /\ Len(files) \in Nat
          BY Lengths DEF Shape
        <4> QED BY <2>1, <4>1 DEF JobOK, OpOK, TakesMu
      <3>2. PICK d, x : d \in 1..Len(files) /\ d = job[h].cf /\ x = [files[d] EXCEPT !.mu = h] /\ files' = [files EXCEPT ![d] = x]
        BY <2>1, <3>1 DEF TakesMu
      <3>3. x \in ClientFile /\ x.fid = files[d].fid /\ x.path = files[d].path /\ x.open = files[d].open
        <4>1. files[d] \in ClientFile
          BY <3>2, ElementOfSeq DEF Shape, Types
        <4> QED BY <3>2, <4>1, FileLocked
      <3>4. Len(files') = Len(files) /\ files'[d] = x /\ \A c \in (1..Len(files)) \ {d} : files'[c] = files[c]
        BY <3>2, <3>3, FileChanges
      <3>5. rtab' = rtab /\ offs' = offs
        BY <2>1 DEF TakesMu
      <3> QED BY <3>3, <3>4, <3>5 DEF Same, Stays
    <2>2. CASE Holds(h)
      <3>1. PICK d \in 1..Len(files) : d = job[h].cf
        BY <2>2 DEF Holds
      <3>2. \A c \in 1..Len(files) : Same(c)
        BY <2>2, <3>1 DEF Holds, Same
      <3>3. \A r \in DOMAIN rtab : Stays(r)
        BY <2>2 DEF Holds, Stays
      <3> QED BY <2>2, <3>2, <3>3 DEF Holds
    <2> QED BY <2>1, <2>2
  <1>3. News'
    BY <1>0, <1>2, NewsFrame DEF Same
  <1>5. Fronts'
    <2>1. AtStart(h)'
      BY <1>0 DEF AtStart
    <2> QED BY <1>0, <2>1, FrontsFrame
  <1>6. InPlace'
    <2>1. Prepared(h)' /\ ~Far(h)'
      BY <1>0 DEF Prepared, Far
    <2> QED BY <1>0, <1>2, <2>1, InPlaceFrame
  <1>7. Accounted'
    <2>1. FidsStay
      BY <1>2 DEF FidsStay, Same
    <2>2. \A r : ~Sees(h, r)
      BY <1>0, SeesNothing
    <2> QED BY <1>0, <1>2, <2>1, <2>2, AccountedFrame
  <1> QED BY <1>1, <1>3, <1>5, <1>6, <1>7

\* The steps of Clunk and Remove.
LEMMA InvReleases ==
    ASSUME Inv, Shape', NEW h \in Handlers, Gets(h) \/ Releases(h)
    PROVE  Inv'
  <1> USE DEF Inv
  <1>0. /\ UNCHANGED <<ftab, ofs, files, offs, nfid, shared, dropped>>
        /\ \A g \in Handlers \ {h} : Kept(g)
        /\ pc[h] \notin Locking /\ pc'[h] \notin Locking /\ pc'[h] \notin Making
        /\ ~Twalk(h) /\ ~Twalk(h)' /\ pc'[h] \notin {"stat", "created"}
    BY DEF Gets, Releases, Ends, Locking, Making, Twalk, Others, Kept
  <1>1. Locks'
    BY <1>0, UnlockedLocks
  <1>2. News'
    BY <1>0, NewsFrame
  <1>4. Prepared(h)' /\ ~Far(h)' /\ AtStart(h)'
    BY <1>0 DEF Prepared, Far, AtStart
  <1>5. Fronts'
    <2>1. CASE Releases(h)
      <3>1. /\ job'[h].cf \in {job[h].cf, 0} /\ job'[h].cur \in {job[h].cur, 0}
            /\ pc'[h] \in Releasing =>
                  /\ pc[h] \in Releasing /\ (pc[h] = "get" <=> pc'[h] = "get")
                  /\ job'[h].of = job[h].of /\ job'[h].cf = job[h].cf
        BY <2>1, NoJobType DEF Releases, Ends, Releasing
      <3> QED BY <1>0, <1>4, <3>1, FrontsFrame
    <2> QED BY <2>1, FrontsGot
  <1>6. InPlace'
    <2>1. CASE Gets(h)
      <3>1. (\A c \in 1..Len(files) : Same(c)) /\ (\A r \in DOMAIN rtab : Stays(r))
        BY <2>1, StaySame DEF Gets
      <3> QED BY <1>0, <1>4, <3>1, InPlaceFrame
    <2> QED BY <2>1, InPlaceReleased
  <1>7. Accounted'
    BY AccountedReleased
  <1> QED BY <1>1, <1>2, <1>5, <1>6, <1>7

\* The steps of walks and creates up to the new clientFile.
LEMMA InvMakes ==
    ASSUME Inv, Shape', NEW h \in Handlers, Makes(h) \/ Quits(h) \/ Creates(h) \/ Steps(h)
    PROVE  Inv'
  <1> USE DEF Inv
  <1>0. /\ UNCHANGED <<ftab, ofs, files, offs>> /\ shared \subseteq shared'
        /\ \A g \in Handlers \ {h} : Kept(g)
        /\ pc[h] \notin Locking /\ pc'[h] \notin Locking /\ pc'[h] \notin Releasing
        /\ nfid' \in {nfid, nfid + 1}
    BY DEF Makes, Quits, Creates, Steps, Ends, Retreats, Locking, Releasing, Others, Kept
  <1>1. Locks'
    BY <1>0, UnlockedLocks
  <1>2. News'
    <2>1. pc'[h] \in Making =>
              \/ pc[h] \in Making /\ job'[h].new = job[h].new
              \/ job'[h].new = nfid' /\ nfid' = nfid + 1
      BY DEF Makes, Quits, Creates, Steps, Ends, Retreats, Making
    <2> QED BY <1>0, <2>1, NewsFrame
  <1>4. Twalk(h)' => /\ Twalk(h) /\ job'[h].cur = job[h].cur /\ job'[h].cf = job[h].cf
    BY DEF Makes, Quits, Creates, Steps, Ends, Retreats, Twalk
  <1>5. job'[h].cf \in {job[h].cf, 0} /\ job'[h].cur \in {job[h].cur, 0}
    BY NoJobType DEF Makes, Quits, Creates, Steps, Ends, Retreats
  <1>6. Fronts'
    <2>1. AtStart(h)'
      <3>1. SUFFICES ASSUME Twalk(h)', job'[h].cur = job'[h].cf, job'[h].cur \notin shared'
                     PROVE  job'[h].i = IF pc'[h] = "name" THEN 0 ELSE 1
        BY DEF AtStart
      <3>2. /\ Twalk(h) /\ job'[h].cur = job[h].cur /\ job[h].cur = job[h].cf /\ job[h].cur \notin shared
            /\ job[h].cur \notin shared'
        BY <1>0, <1>4, <3>1
      <3>3. job[h].i = IF pc[h] = "name" THEN 0 ELSE 1
        BY <3>2 DEF Fronts, AtStart
      <3>4. CASE Makes(h)
        BY <3>2, <3>3, <3>4 DEF Makes, Twalk
      <3>5. CASE Quits(h)
        <4>1. Retreats(h) /\ pc[h] # "name"
          BY <3>1, <3>5, SMTT(40) DEF Quits, Ends, Twalk
        <4> QED BY <3>3, <4>1 DEF Retreats
      <3>6. CASE Creates(h)
        BY <3>2, <3>6 DEF Creates, Twalk
      <3>7. CASE Steps(h)
        BY <3>2, <3>3, <3>7 DEF Steps
      <3> QED BY <3>4, <3>5, <3>6, <3>7
    <2> QED BY <1>0, <1>4, <1>5, <2>1, FrontsFrame
  <1>7. InPlace'
    <2>1. \A c \in 1..Len(files) : Same(c)
      BY <1>0 DEF Same
    <2>2. \A r \in DOMAIN rtab : (pc[h] \in Making /\ r = job[h].new) \/ Stays(r)
      BY DEF Makes, Quits, Creates, Steps, Stays, Making
    <2>3. Prepared(h)'
      <3>1. CASE Makes(h)
        <4>1. pc'[h] # "created"
          BY <3>1 DEF Makes
        <4> QED BY <3>1, <4>1 DEF Makes, Prepared
      <3>2. CASE Quits(h) \/ Steps(h)
        BY <3>2, SMTT(40) DEF Quits, Steps, Ends, Retreats, Prepared
      <3>3. CASE Creates(h)
        BY <3>3 DEF Creates, Prepared, file
      <3> QED BY <3>1, <3>2, <3>3
    <2>4. Far(h)' => Far(h) /\ job'[h].cur = job[h].cur
      BY <1>0, <1>4 DEF Far
    <2> QED BY <1>0, <2>1, <2>2, <2>3, <2>4, InPlaceFrame
  <1>8. Accounted'
    BY AccountedMade
  <1> QED BY <1>1, <1>2, <1>6, <1>7, <1>8, SMTT(40)

\* Those that add a clientFile or establish a fid.
LEMMA InvAdds ==
    ASSUME Inv, Shape', NEW h \in Handlers, Finishes(h) \/ Arrives(h) \/ Attaches(h) \/ Sets(h)
    PROVE  Inv'
  <1> USE DEF Inv
  <1>0. /\ shared' = shared /\ nfid' = nfid /\ Others(h)
        /\ \A k \in 1..Len(offs) : offs'[k] = offs[k]
        /\ pc[h] \notin Locking /\ pc'[h] \notin Locking /\ pc'[h] \notin Making
    BY DEF Finishes, Arrives, Attaches, Sets, Ends, Locking, Making
  <1>1. \A g \in Handlers \ {h} : Kept(g)
    BY <1>0, OthersKept
  <1>2. Locks' /\ News'
    <2>1. CASE Finishes(h)
      <3>1. files' = files
        BY <2>1 DEF Finishes
      <3> QED BY <1>0, <1>1, <3>1, UnlockedLocks, NewsFrame
    <2>2. CASE ~Finishes(h)
      <3>1. PICK path, open : Adds(h, path, open)
        BY <2>2 DEF Arrives, Attaches, Sets
      <3>2. pc[h] \in Making
        BY <2>2 DEF Arrives, Attaches, Sets, Making
      <3>3. News'
        BY <1>0, <1>1, <3>1, <3>2, NewsAdded
      <3>4. /\ Len(files) <= Len(files') /\ Len(files') \in Nat
            /\ \A c \in 1..Len(files) : files'[c].mu = files[c].mu
            /\ \A c \in 1..Len(files') : c \notin 1..Len(files) => files'[c].mu = Nobody
        <4>1. Len(files) \in Nat /\ Len(files') = Len(files) + 1
          BY <3>1, Lengths DEF Adds
        <4>2. \A c \in 1..(Len(files) + 1) : c \in 1..Len(files) \/ c = Len(files) + 1
          BY <4>1
        <4> QED BY <3>1, <4>1, <4>2 DEF Adds
      <3>5. Locks'
        BY <1>0, <1>1, <3>4, LocksFrame
      <3> QED BY <3>3, <3>5
    <2> QED BY <2>1, <2>2
  <1>4. Fronts'
    BY FrontsFinished, FrontsArrived, FrontsAttached, FrontsSet
  <1>5. InPlace'
    BY InPlaceAdded
  <1>6. Accounted'
    BY AccountedFinished, AccountedArrived, AccountedSet
  <1> QED BY <1>2, <1>4, <1>5, <1>6

LEMMA InvBegins ==
    ASSUME Inv, Shape', NEW h \in Handlers, Begins(h)
    PROVE  Inv'
  <1> USE DEF Inv
  <1>0. /\ UNCHANGED <<ofs, files, offs, rtab, nfid, shared, dropped>>
        /\ \A g \in Handlers \ {h} : Kept(g)
        /\ pc[h] \notin Locking /\ pc'[h] \notin Locking /\ pc'[h] \notin Making
        /\ pc'[h] \notin {"stat", "created"}
    BY DEF Begins, Beginning, Locking, Making, Others, Kept
  <1>1. Locks'
    BY <1>0, UnlockedLocks
  <1>2. News'
    BY <1>0, NewsFrame
  <1>4. Fronts'
    BY FrontsBegun
  <1>5. InPlace'
    <2>1. (\A c \in 1..Len(files) : Same(c)) /\ (\A r \in DOMAIN rtab : Stays(r))
      BY <1>0, StaySame
    <2>2. Prepared(h)' /\ ~Far(h)'
      BY <1>0 DEF Prepared, Far, Begins
    <2>3. DOMAIN ftab' \subseteq DOMAIN ftab /\ \A f \in DOMAIN ftab' : ftab'[f] = ftab[f]
      BY DEF Begins
    <2> QED BY <1>0, <2>1, <2>2, <2>3, InPlaceFrame
  <1>6. Accounted'
    BY AccountedBegun
  <1> QED BY <1>1, <1>2, <1>4, <1>5, <1>6

\* The steps of Read, and Stat, WStat and Write.
LEMMA InvReads ==
    ASSUME Inv, NEW h \in Handlers,
           lockMu(h) \/ Seek(h) \/ readSend(h) \/ readReply(h) \/ Use(h) \/ WStat(h)
    PROVE  Inv'
  <1>1. Shape
    BY DEF Inv
  <1>2. Shape' /\ (TakesMu(h) \/ Plain(h))
    BY <1>1, PlainLock, SeekStep, SendStep, ReplyStep, RenameStep
  <1> QED BY <1>2, InvHolds, InvPlain

-----------------------------------------------------------------------------
(***************************************************************************)
(* Where the remote fids are.                                              *)
(***************************************************************************)

\* The remote fid r is at path, as far as no rename has moved it.
At(r, path) == r \in DOMAIN rtab \ moved => rtab[r].path = path

\* c's remote fid is where c says, and the one that h has made where h walks to.
Here(c) == At(files[c].fid, files[c].path)

Hand(h) ==
    /\ pc[h] = "stat" => At(job[h].new, job[h].path)
    /\ pc[h] = "create" => At(job[h].new, file(h).path)
    /\ pc[h] = "created" => At(job[h].new, Append(file(h).path, "x"))

Located ==
    /\ moved \subseteq 1..nfid
    /\ \A c \in 1..Len(files) : Here(c)
    /\ \A h \in Handlers : Hand(h)

\* r is not moved, unless that is recorded.
Steady(r) == r \in DOMAIN rtab' \ moved' => r \in DOMAIN rtab \ moved /\ rtab'[r].path = rtab[r].path

\* Then it is where it was.
LEMMA AtKept ==
    ASSUME NEW r, NEW path, At(r, path), Steady(r)
    PROVE  At(r, path)'
  BY DEF At, Steady

\* Located survives a step of h that moves only the remote fid it is making.
LEMMA LocatedFrame ==
    ASSUME Shape, News, Located, NEW h \in Handlers, \A g \in Handlers \ {h} : Kept(g),
           moved' \subseteq 1..nfid',
           \A r \in 1..nfid : Steady(r) \/ (pc[h] \in Making /\ r = job[h].new),
           \A c \in 1..Len(files) : files'[c].fid = files[c].fid /\ files'[c].path = files[c].path,
           \A c \in 1..Len(files') : c \in 1..Len(files) \/ Here(c)',
           Hand(h)'
    PROVE  Located'
  <1>1. ASSUME NEW c \in 1..Len(files) PROVE Here(c)'
    <2>1. PICK r, p : r = files[c].fid /\ p = files[c].path /\ At(r, p)
      BY DEF Located, Here
    <2>2. r \in 1..nfid /\ ~(pc[h] \in Making /\ r = job[h].new)
      BY <2>1 DEF Shape, Types, News
    <2>3. At(r, p)'
      BY <2>1, <2>2, AtKept
    <2> QED BY <2>1, <2>3 DEF Here, At
  <1>2. ASSUME NEW g \in Handlers \ {h} PROVE Hand(g)'
    <2>1. CASE pc[g] \in {"stat", "create", "created"}
      <3>1. PICK r : r = job[g].new
        OBVIOUS
      <3>2. Steady(r)
        <4>1. pc[g] \in Making
          BY <2>1 DEF Making
        <4>2. r \in 1..nfid /\ ~(pc[h] \in Making /\ r = job[h].new)
          BY <3>1, <4>1 DEF News, Shape, Types
        <4> QED BY <4>2
      <3>3. Kept(g) /\ Hand(g)
        BY DEF Located
      <3>4. CASE pc[g] = "stat"
        <4>1. PICK p : p = job[g].path /\ At(r, p)
          BY <3>1, <3>3, <3>4 DEF Hand
        <4>2. At(r, p)'
          BY <3>2, <4>1, AtKept
        <4> QED BY <3>1, <3>3, <3>4, <4>1, <4>2 DEF Hand, Kept, At
      <3>5. CASE pc[g] \in {"create", "created"}
        <4>1. job[g].cf \in 1..Len(files)
          <5>1. JobOK(g) /\ Len(files) \in Nat
            BY Lengths DEF Shape
          <5> QED BY <3>5, <5>1 DEF JobOK, OpOK
        <4>2. PICK p : p = file(g).path /\ p = files'[job'[g].cf].path
          BY <3>3, <4>1 DEF file, Kept
        <4>3. CASE pc[g] = "create"
          <5>1. At(r, p)
            BY <3>1, <3>3, <4>2, <4>3 DEF Hand
          <5>2. At(r, p)'
            BY <3>2, <5>1, AtKept, SMTT(40)
          <5> QED BY <3>1, <3>3, <4>2, <4>3, <5>2 DEF Hand, Kept, At, file
        <4>4. CASE pc[g] = "created"
          <5>1. PICK q : q = Append(p, "x")
            OBVIOUS
          <5>2. At(r, q)
            BY <3>1, <3>3, <4>2, <4>4, <5>1 DEF Hand
          <5>3. At(r, q)'
            BY <3>2, <5>2, AtKept
          <5> QED BY <3>1, <3>3, <4>2, <4>4, <5>1, <5>3 DEF Hand, Kept, At, file
        <4> QED BY <3>5, <4>3, <4>4
      <3> QED BY <2>1, <3>4, <3>5
    <2>2. CASE pc[g] \notin {"stat", "create", "created"}
      BY <2>2 DEF Hand, Kept
    <2> QED BY <2>1, <2>2
  <1> QED BY <1>1, <1>2 DEF Located

\* It survives what makes no clientFile and no remote fid,
LEMMA LocatedKept ==
    ASSUME Shape, News, Located, NEW h \in Handlers, Shape', moved \subseteq moved', moved' \subseteq 1..nfid',
           Flushes(h) \/ Plain(h) \/ TakesMu(h) \/ Holds(h) \/ Gets(h) \/ Releases(h) \/ Quits(h)
                      \/ Steps(h) \/ Begins(h) \/ Finishes(h)
    PROVE  Located'
  <1>1. \A g \in Handlers \ {h} : Kept(g)
    BY DEF Flushes, Plain, TakesMu, Holds, Gets, Releases, Quits, Steps, Begins, Finishes, Others, Kept
  <1>2. /\ Len(files') = Len(files)
        /\ \A c \in 1..Len(files) : files'[c].fid = files[c].fid /\ files'[c].path = files[c].path
    <2>1. CASE TakesMu(h)
      <3>1. PICK d, x : d \in 1..Len(files) /\ x = [files[d] EXCEPT !.mu = h] /\ files' = [files EXCEPT ![d] = x]
        <4>1. JobOK(h) /\ Len(files) \in Nat
          BY Lengths DEF Shape
        <4>2. job[h].cf \in 1..Len(files)
          BY <2>1, <4>1 DEF JobOK, OpOK, TakesMu
        <4> QED BY <2>1, <4>2 DEF TakesMu
      <3>2. x \in ClientFile /\ x.fid = files[d].fid /\ x.path = files[d].path
        <4>1. files[d] \in ClientFile
          BY <3>1, ElementOfSeq DEF Shape, Types
        <4> QED BY <3>1, <4>1, FileLocked
      <3>3. Len(files') = Len(files) /\ files'[d] = x /\ \A c \in (1..Len(files)) \ {d} : files'[c] = files[c]
        BY <3>1, <3>2, FileChanges
      <3> QED BY <3>2, <3>3
    <2>2. CASE Holds(h)
      BY <2>2 DEF Holds
    <2>3. CASE ~TakesMu(h) /\ ~Holds(h)
      <3>1. files' = files
        BY <2>3 DEF Flushes, Plain, Gets, Releases, Quits, Steps, Begins, Finishes
      <3> QED BY <3>1
    <2> QED BY <2>1, <2>2, <2>3
  <1>3. \A r \in 1..nfid : Steady(r) \/ (pc[h] \in Making /\ r = job[h].new)
    <2>1. CASE Plain(h)
      BY <2>1 DEF Plain, RemoteKept, Steady
    <2>2. CASE Holds(h)
      BY <2>2 DEF Holds, Steady
    <2>3. CASE Releases(h)
      <3>1. PICK x : x = file(h).fid /\ (rtab' = rtab \/ rtab' = without(rtab, x))
        BY <2>3 DEF Releases
      <3> QED BY <3>1 DEF without, Steady
    <2>4. CASE Quits(h)
      <3>1. nfid \in Nat
        BY DEF Shape, Types
      <3>2. ASSUME NEW r \in 1..nfid, r \in DOMAIN rtab' PROVE r \in DOMAIN rtab
        BY <2>4, <3>1, <3>2 DEF Quits
      <3> QED BY <2>4, <3>2 DEF Quits, Steady
    <2>5. CASE Flushes(h) \/ TakesMu(h) \/ Gets(h) \/ Steps(h) \/ Begins(h) \/ Finishes(h)
      <3>1. rtab' = rtab
        BY <2>5 DEF Flushes, TakesMu, Gets, Steps, Begins, Finishes
      <3> QED BY <3>1 DEF Steady
    <2> QED BY <2>1, <2>2, <2>3, <2>4, <2>5
  <1>4. CASE Flushes(h)
    <2>1. UNCHANGED <<files, rtab>> /\ Kept(h) /\ Hand(h)
      BY <1>4 DEF Flushes, Located
    <2>2. Hand(h)'
      BY <2>1 DEF Hand, At, Kept, file
    <2> QED BY <1>1, <1>2, <1>3, <2>2, LocatedFrame
  <1>5. CASE ~Flushes(h)
    <2>1. pc'[h] \notin {"stat", "create", "created"}
      BY <1>5 DEF Plain, TakesMu, Holds, Gets, Releases, Quits, Retreats, Steps, Begins, Beginning, Finishes, Ends
    <2>2. Hand(h)'
      BY <2>1 DEF Hand
    <2> QED BY <1>1, <1>2, <1>3, <2>2, LocatedFrame
  <1> QED BY <1>4, <1>5, SMTT(40)

\* a walk or a clone that makes a remote fid where it was asked to,
LEMMA LocatedMade ==
    ASSUME Inv, Located, NEW h \in Handlers, Makes(h), moved \subseteq moved', moved' \subseteq 1..nfid',
           pc'[h] = "create" /\ file(h).fid \in moved => nfid' \in moved'
    PROVE  Located'
  <1>1. Shape /\ News /\ JobOK(h) /\ nfid \in Nat /\ Len(files) \in Nat
    BY Lengths DEF Inv, Shape, Types
  <1>2. \A g \in Handlers \ {h} : Kept(g)
    BY DEF Makes, Others, Kept
  <1>3. \A r \in 1..nfid : Steady(r)
    <2>1. \A r \in 1..nfid : r # nfid'
      BY <1>1 DEF Makes
    <2> QED BY <2>1 DEF Makes, Steady
  <1>4. Hand(h)'
    <2>1. CASE pc'[h] = "create"
      <3>1. job[h].cf \in 1..Len(files)
        BY <1>1, <2>1 DEF Makes, JobOK, OpOK
      <3>2. Here(job[h].cf)
        BY <3>1 DEF Located
      <3>3. PICK p, n : /\ p = file(h).path /\ n = nfid' /\ n = job'[h].new
                        /\ file(h).fid \in DOMAIN rtab /\ rtab'[n].path = rtab[file(h).fid].path
                        /\ p = files'[job'[h].cf].path
        BY <2>1 DEF Makes, file
      <3>4. At(n, p)'
        BY <2>1, <3>2, <3>3 DEF Here, At, file
      <3> QED BY <2>1, <3>3, <3>4 DEF Hand, At, file
    <2>2. CASE pc'[h] # "create"
      BY <2>2 DEF Makes, Hand, At
    <2> QED BY <2>1, <2>2
  <1>5. files' = files
    BY DEF Makes
  <1> QED BY <1>1, <1>2, <1>3, <1>4, <1>5, LocatedFrame

\* a Tcreate that moves it to the new file,
LEMMA LocatedCreated ==
    ASSUME Inv, Located, NEW h \in Handlers, Creates(h), moved' = moved
    PROVE  Located'
  <1>1. Shape /\ News
    BY DEF Inv
  <1>2. (\A g \in Handlers \ {h} : Kept(g)) /\ UNCHANGED <<files, nfid, job>>
    BY DEF Creates, Others, Kept
  <1>3. \A r \in 1..nfid : Steady(r) \/ (pc[h] \in Making /\ r = job[h].new)
    BY DEF Creates, Steady, Making
  <1>4. Hand(h)'
    <2>1. CASE pc'[h] = "created"
      <3>1. PICK p, n : p = file(h).path /\ n = job[h].new /\ At(n, p)
        BY DEF Located, Hand, Creates
      <3>2. n \in DOMAIN rtab /\ rtab'[n].path = Append(rtab[n].path, "x")
        BY <2>1, <3>1 DEF Creates
      <3>3. At(n, Append(p, "x"))'
        BY <3>1, <3>2 DEF At
      <3> QED BY <1>2, <2>1, <3>1, <3>3 DEF Hand, At, file
    <2>2. CASE pc'[h] # "created"
      BY <2>2 DEF Creates, Hand
    <2> QED BY <2>1, <2>2
  <1>5. moved' \subseteq 1..nfid'
    BY <1>2 DEF Located
  <1> QED BY <1>1, <1>2, <1>3, <1>4, <1>5, LocatedFrame

\* and the clientFile for it.
LEMMA LocatedAdded ==
    ASSUME Inv, Located, NEW h \in Handlers, Arrives(h) \/ Attaches(h) \/ Sets(h), moved' = moved
    PROVE  Located'
  <1>1. Shape /\ News /\ Len(files) \in Nat
    BY Lengths DEF Inv
  <1>2. /\ \A g \in Handlers \ {h} : Kept(g)
        /\ rtab' = rtab /\ nfid' = nfid /\ pc'[h] \in {"name", "idle"}
    BY DEF Arrives, Attaches, Sets, Others, Kept, Ends
  <1>3. PICK p, open : Adds(h, p, open) /\ At(job[h].new, p)
    <2>1. CASE Arrives(h) \/ Attaches(h)
      BY <2>1 DEF Arrives, Attaches, Located, Hand
    <2>2. CASE Sets(h)
      BY <2>2 DEF Sets, Located, Hand
    <2> QED BY <2>1, <2>2
  <1>4. PICK n : n = Len(files) + 1
    OBVIOUS
  <1>5. /\ \A c \in 1..Len(files) : files'[c] = files[c]
        /\ files'[n].fid = job[h].new /\ files'[n].path = p
        /\ \A c \in 1..Len(files') : c \in 1..Len(files) \/ c = n
    BY <1>1, <1>3, <1>4 DEF Adds
  <1>6. Here(n)'
    BY <1>2, <1>3, <1>5 DEF Here, At
  <1>7. \A c \in 1..Len(files') : c \in 1..Len(files) \/ Here(c)'
    <2>1. ASSUME NEW c \in 1..Len(files'), c = n PROVE Here(c)'
      BY <1>6, <2>1 DEF Here, At
    <2> QED BY <1>5, <2>1
  <1>8. Hand(h)' /\ \A r \in 1..nfid : Steady(r)
    BY <1>2 DEF Hand, Steady
  <1>9. moved' \subseteq 1..nfid'
    BY <1>2 DEF Located
  <1> QED BY <1>1, <1>2, <1>5, <1>7, <1>8, <1>9, LocatedFrame

\* A Twstat records what it moves, and Create that its clone is of a moved file.
LEMMA MovedGrows ==
    ASSUME Inv, Located, Next
    PROVE  moved \subseteq moved' /\ moved' \subseteq 1..nfid'
  <1>1. Shape /\ nfid \in Nat /\ DOMAIN rtab \subseteq 1..nfid /\ moved \subseteq 1..nfid
    BY DEF Inv, Shape, Types, Located
  <1>2. ASSUME NEW h \in Handlers, WStat(h) PROVE moved \subseteq moved' /\ moved' \subseteq 1..nfid'
    BY <1>1, <1>2 DEF WStat
  <1>3. ASSUME NEW h \in Handlers, Create(h) PROVE moved \subseteq moved' /\ moved' \subseteq 1..nfid'
    <2>1. nfid' = nfid + 1 /\ (moved' = moved \/ moved' = moved \cup {nfid + 1})
      BY <1>3 DEF Create
    <2>2. 1..nfid \subseteq 1..(nfid + 1) /\ nfid + 1 \in 1..(nfid + 1)
      BY <1>1
    <2> QED BY <1>1, <2>1, <2>2
  <1>4. ASSUME NEW h \in Handlers, walkTo(h) PROVE moved \subseteq moved' /\ moved' \subseteq 1..nfid'
    <2>1. nfid' = nfid + 1 /\ moved' = moved
      BY <1>4 DEF walkTo
    <2> QED BY <1>1, <2>1
  <1>5. ASSUME moved' = moved, nfid' = nfid PROVE moved \subseteq moved' /\ moved' \subseteq 1..nfid'
    BY <1>1, <1>5
  <1>6. ASSUME NEW h \in Handlers,
               \/ \E r \in Requests : Begin(h, r)
               \/ tFlush(h) \/ Walk(h) \/ clunkQuiet(h) \/ walkStat(h) \/ lockMu(h) \/ OpenFile(h)
               \/ openStat(h) \/ Seek(h) \/ readSend(h) \/ readReply(h) \/ Use(h) \/ CreateFile(h)
               \/ createUndo(h) \/ createSet(h) \/ getFile(h) \/ RemoveFile(h) \/ Close(h)
        PROVE  moved' = moved /\ nfid' = nfid
    <2>1. CASE \E r \in Requests : Begin(h, r)
      BY <2>1, SMTT(40) DEF Begin, ghosts
    <2>2. CASE tFlush(h) \/ Walk(h) \/ clunkQuiet(h) \/ walkStat(h) \/ lockMu(h) \/ OpenFile(h)
      BY <2>2 DEF tFlush, Walk, clunkQuiet, walkStat, lockMu, OpenFile, ghosts
    <2>3. CASE openStat(h) \/ Seek(h) \/ readSend(h) \/ readReply(h) \/ Use(h) \/ CreateFile(h)
      BY <2>3 DEF openStat, Seek, readSend, readReply, Use, CreateFile, ghosts
    <2>4. CASE createUndo(h) \/ createSet(h) \/ getFile(h) \/ RemoveFile(h) \/ Close(h)
      BY <2>4 DEF createUndo, createSet, getFile, RemoveFile, Close, ghosts
    <2> QED BY <1>6, <2>1, <2>2, <2>3, <2>4
  <1>7. Finished => moved' = moved /\ nfid' = nfid
    BY DEF Finished, vars
  <1> QED BY <1>2, <1>3, <1>4, <1>5, <1>6, <1>7 DEF Next

-----------------------------------------------------------------------------
(***************************************************************************)
(* The theorems.                                                           *)
(***************************************************************************)

\* A graft begins with the root's fid and nothing else.
LEMMA InvInit == Init => Inv
  <1> SUFFICES ASSUME Init PROVE Inv
    OBVIOUS
  <1>0. /\ ftab = <<>> /\ ofs = <<>> /\ files = <<>> /\ offs = <<>> /\ nfid = 1
        /\ DOMAIN rtab = {1} /\ pc = [h \in Handlers |-> "idle"] /\ job = [h \in Handlers |-> NoJob]
        /\ used = 0 /\ shared = {} /\ dropped = {}
    BY DEF Init, RootFid
  <1>1. /\ DOMAIN ftab = {} /\ ofs \in Seq(Nat) /\ files \in Seq(ClientFile) /\ offs \in Seq(Nat)
        /\ Len(ofs) = 0 /\ Len(files) = 0 /\ Len(offs) = 0 /\ 1..Len(ofs) = {} /\ 1..Len(files) = {}
    <2>1. Len(<<>>) = 0 /\ <<>> \in Seq(Nat) /\ <<>> \in Seq(ClientFile) /\ 1..0 = {} /\ DOMAIN <<>> = {}
      BY EmptySeq
    <2> QED BY <1>0, <2>1
  <1>2. \A h \in Handlers : pc[h] = "idle" /\ job[h] = NoJob
    BY <1>0
  <1>3. Types
    <2>1. pc \in [Handlers -> Labels] /\ job \in [Handlers -> Job]
      BY <1>0, NoJobType DEF Labels
    <2>2. used \in 0..MaxRequests
      BY <1>0, BoundsAssumption
    <2>3. nfid \in Nat \ {0} /\ DOMAIN rtab \subseteq 1..nfid
      BY <1>0
    <2> QED BY <1>0, <1>1, <2>1, <2>2, <2>3 DEF Types
  <1>4. \A h \in Handlers : JobOK(h)
    <2>1. 0 \in 0..Len(ofs) /\ 0 \in 0..Len(files) /\ 0 \in 0..Len(offs)
      BY <1>1
    <2> QED BY <1>2, <2>1, NoJobType DEF JobOK, OpOK, Twalk
  <1>5. Locks /\ News
    BY <1>1, <1>2 DEF Locks, News, Locking, Making
  <1>6. Fronts /\ InPlace
    <2>1. \A h \in Handlers : ~Twalk(h)
      BY <1>2 DEF Twalk
    <2> QED BY <1>1, <1>2, <2>1 DEF Fronts, InPlace, Released, AtStart, Far, Prepared, Releasing
  <1>7. Accounted
    BY <1>0 DEF Accounted, RootFid
  <1> QED BY <1>3, <1>4, <1>5, <1>6, <1>7 DEF Inv, Shape

\* Every step is one of these effects.
LEMMA InvNext == Inv /\ [Next]_vars => Inv'
  <1> SUFFICES ASSUME Inv, [Next]_vars PROVE Inv'
    OBVIOUS
  <1>0. Shape /\ News
    BY DEF Inv
  <1>1. CASE UNCHANGED vars
    <2> USE <1>1 DEF vars
    <2>1. Shape'
      BY DEF Inv, Shape, Types, JobOK, OpOK, Twalk
    <2>2. Locks' /\ News'
      BY DEF Inv, Locks, News, file
    <2>3. Fronts' /\ InPlace'
      BY DEF Inv, Fronts, InPlace, Released, AtStart, Far, Mine, Twalk, Prepared, Works, file
    <2>4. Accounted'
      BY DEF Inv, Accounted, Known, Sees, Twalk, file
    <2> QED BY <2>1, <2>2, <2>3, <2>4 DEF Inv
  <1>2. ASSUME NEW h \in Handlers, NEW r \in Requests, Begin(h, r) PROVE Inv'
    BY <1>0, <1>2, BeginStep, InvBegins
  <1>3. ASSUME NEW h \in Handlers, tFlush(h) PROVE Inv'
    BY <1>0, <1>3, FlushStep, InvFlushes
  <1>4. ASSUME NEW h \in Handlers, Walk(h) PROVE Inv'
    <2>1. CASE job[h].i + 1 <= Len(job[h].req.names)
      BY <1>0, <1>4, <2>1, NameStep, InvMakes
    <2>2. CASE ~(job[h].i + 1 <= Len(job[h].req.names))
      BY <1>0, <1>4, <2>2, FinishStep, InvAdds
    <2> QED BY <2>1, <2>2
  <1>5. ASSUME NEW h \in Handlers, walkTo(h) \/ clunkQuiet(h) PROVE Inv'
    BY <1>0, <1>5, WalkToStep, QuietStep, InvMakes
  <1>6. ASSUME NEW h \in Handlers, walkStat(h) PROVE Inv'
    BY <1>0, <1>6, StatStep, InvMakes, InvAdds
  <1>7. ASSUME NEW h \in Handlers,
                lockMu(h) \/ Seek(h) \/ readSend(h) \/ readReply(h) \/ Use(h) \/ WStat(h)
         PROVE  Inv'
    BY <1>7, InvReads
  <1>8. ASSUME NEW h \in Handlers, OpenFile(h) \/ openStat(h) PROVE Inv'
    BY <1>0, <1>8, OpenStep, OpenStatStep, InvHolds
  <1>9. ASSUME NEW h \in Handlers, Create(h) \/ CreateFile(h) \/ createUndo(h) PROVE Inv'
    BY <1>0, <1>9, CreateStep, CreateFileStep, UndoStep, InvMakes
  <1>10. ASSUME NEW h \in Handlers, createSet(h) PROVE Inv'
    BY <1>0, <1>10, SetStep, InvAdds
  <1>11. ASSUME NEW h \in Handlers, getFile(h) \/ RemoveFile(h) \/ Close(h) PROVE Inv'
    BY <1>0, <1>11, GetStep, ReleaseStep, InvReleases
  <1> QED BY <1>1, <1>2, <1>3, <1>4, <1>5, <1>6, <1>7, <1>8, <1>9, <1>10, <1>11 DEF Next, Finished

\* The invariant behind the theorems below: what clientFile and the front server keep
\* between two rpcs of any handler (src/ns/fid.go, src/server/conn.go).
THEOREM InvInvariant == Spec => []Inv
  BY InvInit, InvNext, PTL DEF Spec

\* Located beside Inv: a clientFile's path goes wrong only by a rename (src/ns/fid.go).
LEMMA LocatedNext == Inv /\ Located /\ [Next]_vars => Located'
  <1> SUFFICES ASSUME Inv, Located, [Next]_vars PROVE Located'
    OBVIOUS
  <1>0. Shape /\ News /\ Inv' /\ Shape'
    <2>1. Inv'
      BY InvNext
    <2> QED BY <2>1 DEF Inv
  <1>1. CASE UNCHANGED vars
    BY <1>1 DEF vars, Located, Here, Hand, At, file
  <1>2. CASE Next
    <2>0. moved \subseteq moved' /\ moved' \subseteq 1..nfid'
      BY <1>2, MovedGrows
    <2>1. ASSUME NEW h \in Handlers, NEW r \in Requests, Begin(h, r) PROVE Located'
      BY <1>0, <2>0, <2>1, BeginStep, LocatedKept
    <2>2. ASSUME NEW h \in Handlers, tFlush(h) PROVE Located'
      BY <1>0, <2>0, <2>2, FlushStep, LocatedKept
    <2>3. ASSUME NEW h \in Handlers, Walk(h) PROVE Located'
      <3>1. CASE job[h].i + 1 <= Len(job[h].req.names)
        BY <1>0, <2>0, <2>3, <3>1, NameStep, LocatedKept
      <3>2. CASE ~(job[h].i + 1 <= Len(job[h].req.names))
        BY <1>0, <2>0, <2>3, <3>2, FinishStep, LocatedKept
      <3> QED BY <3>1, <3>2
    <2>4. ASSUME NEW h \in Handlers, walkTo(h) PROVE Located'
      <3>1. Makes(h) => pc'[h] # "create"
        BY <2>4 DEF walkTo, Makes
      <3> QED BY <1>0, <2>0, <2>4, <3>1, WalkToStep, LocatedKept, LocatedMade
    <2>5. ASSUME NEW h \in Handlers, clunkQuiet(h) PROVE Located'
      BY <1>0, <2>0, <2>5, QuietStep, LocatedKept
    <2>6. ASSUME NEW h \in Handlers, walkStat(h) PROVE Located'
      <3>1. moved' = moved
        BY <2>6 DEF walkStat
      <3> QED BY <1>0, <2>0, <2>6, <3>1, StatStep, LocatedKept, LocatedAdded
    <2>7. ASSUME NEW h \in Handlers,
                 lockMu(h) \/ Seek(h) \/ readSend(h) \/ readReply(h) \/ Use(h) \/ WStat(h)
          PROVE  Located'
      BY <1>0, <2>0, <2>7, PlainLock, SeekStep, SendStep, ReplyStep, RenameStep, LocatedKept
    <2>8. ASSUME NEW h \in Handlers, OpenFile(h) \/ openStat(h) PROVE Located'
      BY <1>0, <2>0, <2>8, OpenStep, OpenStatStep, LocatedKept
    <2>9. ASSUME NEW h \in Handlers, Create(h) PROVE Located'
      <3>1. file(h).fid \in moved => nfid' \in moved'
        BY <2>9 DEF Create
      <3> QED BY <1>0, <2>0, <2>9, <3>1, CreateStep, LocatedKept, LocatedMade
    <2>10. ASSUME NEW h \in Handlers, CreateFile(h) PROVE Located'
      <3>1. moved' = moved
        BY <2>10 DEF CreateFile, ghosts
      <3> QED BY <1>0, <2>10, <3>1, CreateFileStep, LocatedCreated
    <2>11. ASSUME NEW h \in Handlers, createUndo(h) PROVE Located'
      BY <1>0, <2>0, <2>11, UndoStep, LocatedKept
    <2>12. ASSUME NEW h \in Handlers, createSet(h) PROVE Located'
      <3>1. moved' = moved
        BY <2>12 DEF createSet
      <3> QED BY <1>0, <2>12, <3>1, SetStep, LocatedAdded
    <2>13. ASSUME NEW h \in Handlers, getFile(h) \/ RemoveFile(h) \/ Close(h) PROVE Located'
      BY <1>0, <2>0, <2>13, GetStep, ReleaseStep, LocatedKept
    <2> QED BY <1>1, <1>2, <2>1, <2>2, <2>3, <2>4, <2>5, <2>6, <2>7, <2>8, <2>9, <2>10, <2>11, <2>12,
               <2>13 DEF Next, Finished
  <1> QED BY <1>1, <1>2

\* So it is in every state, beside Inv.
LEMMA LocatedInvariant == Spec => [](Inv /\ Located)
  <1>1. Init => Located
    <2> SUFFICES ASSUME Init PROVE Located
      OBVIOUS
    <2>1. Len(files) = 0 /\ 1..Len(files) = {} /\ moved = {} /\ \A h \in Handlers : pc[h] = "idle"
      <3>1. Len(<<>>) = 0 /\ 1..0 = {}
        BY EmptySeq
      <3> QED BY <3>1 DEF Init
    <2> QED BY <2>1 DEF Located, Hand
  <1> QED BY <1>1, InvInit, InvNext, LocatedNext, PTL DEF Spec

\* The tables of the front server refer to openFiles and clientFiles that exist, no
\* two clientFiles have the same remote fid, and f.mu is held exactly by the handler
\* that is in an rpc of Open or readable (src/ns/fid.go).
THEOREM TypeCorrect == Spec => []TypeOK
  <1>1. Inv /\ Located => TypeOK
    <2> SUFFICES ASSUME Inv, Located PROVE TypeOK
      OBVIOUS
    <2>1. Shape /\ Types /\ Locks /\ News
      BY DEF Inv, Shape
    <2>2. DOMAIN ofs = 1..Len(ofs) /\ DOMAIN files = 1..Len(files)
      BY <2>1, LenProperties DEF Types
    <2>3. DOMAIN ftab \subseteq Fids /\ Range(ftab) \subseteq DOMAIN ofs /\ Range(ofs) \subseteq DOMAIN files
      BY <2>1, <2>2 DEF Types, Range
    <2>4. \A c, d \in DOMAIN files : files[c].fid = files[d].fid => c = d
      BY <2>1, <2>2 DEF News
    <2>5. \A c \in DOMAIN files :
            /\ files[c].fid \in 2..nfid /\ files[c].open \in 0..Len(offs)
            /\ files[c].mu # Nobody =>
                    pc[files[c].mu] \in {"open", "opened"} /\ job[files[c].mu].cf = c
      BY <2>1, <2>2 DEF Types, Locks, Locking
    <2>6. \A h \in Handlers : pc[h] = "open" => file(h).mu = h
      BY <2>1 DEF Locks, Locking
    <2>7. /\ DOMAIN rtab \cup moved \cup dropped \subseteq 1..nfid /\ shared \subseteq DOMAIN files
          /\ pc \in [Handlers -> Labels] /\ used \in 0..MaxRequests
      BY <2>1, <2>2 DEF Types, Located
    <2> QED BY <2>3, <2>4, <2>5, <2>6, <2>7 DEF TypeOK
  <1> QED BY <1>1, LocatedInvariant, PTL

\* A fid that the front client has established works until it is clunked: its
\* clientFile's remote fid is there, open if the clientFile is, and at the clientFile's
\* path until a Twstat renames the file or a directory above it, whatever walks,
\* creates, clunks and flushes go on around it (src/ns/fid.go with putFid, delFid and
\* openFile.set of src/server/conn.go).  A clientFile that ".." at the root of the
\* graft has returned a second time is excepted.
THEOREM FrontFidsWork == Spec => []FrontFidWorks
  <1>1. Inv /\ Located => FrontFidWorks
    <2> SUFFICES ASSUME Inv, Located, NEW f \in DOMAIN ftab, ofs[ftab[f]] \notin shared
                 PROVE  LET cf == ofs[ftab[f]]
                        IN  /\ files[cf].fid \in DOMAIN rtab
                            /\ files[cf].fid \notin moved => rtab[files[cf].fid].path = files[cf].path
                            /\ files[cf].open # 0 => rtab[files[cf].fid].open
      BY DEF FrontFidWorks
    <2>1. PICK c \in 1..Len(files) : c = ofs[ftab[f]]
      BY DEF Inv, Shape, Types
    <2>2. Works(c) /\ Here(c)
      BY <2>1 DEF Inv, InPlace, Located
    <2> QED BY <2>1, <2>2 DEF Works, Here, At
  <1> QED BY <1>1, LocatedInvariant, PTL

\* The remote fids that nobody can clunk any more are those of the places where the
\* code drops one: every other is named by a front fid or in the hands of a handler
\* (src/ns/fid.go).
THEOREM FidsNotLost == Spec => []NoFidLost
  <1>1. Inv => NoFidLost
    <2> SUFFICES ASSUME Inv, NEW r \in DOMAIN rtab \ {RootFid}
                 PROVE  \/ r \in {files[c].fid : c \in Named(ftab, ofs)}
                        \/ \E h \in Handlers :
                              /\ pc[h] # "idle"
                              /\ r \in {job[h].new} \cup {files[c].fid : c \in {job[h].cf, job[h].cur} \ {0}}
                        \/ r \in dropped
      BY DEF NoFidLost
    <2>1. Known(r) /\ Shape
      BY DEF Inv, Accounted
    <2>2. CASE \E f \in DOMAIN ftab : r = files[ofs[ftab[f]]].fid
      BY <2>2 DEF Named
    <2>3. CASE \E h \in Handlers : Sees(h, r)
      <3>1. PICK h \in Handlers : Sees(h, r)
        BY <2>3
      <3>2. CASE pc[h] \in Releasing /\ r = file(h).fid
        <4>1. pc[h] # "idle" /\ job[h].cf # 0 /\ r = files[job[h].cf].fid
          BY <2>1, <3>2, ReleasedFile DEF Releasing, file
        <4> QED BY <4>1
      <3>3. CASE pc[h] \in Making /\ r = job[h].new
        BY <3>3 DEF Making
      <3>4. CASE Twalk(h) /\ r = files[job[h].cur].fid
        <4>1. pc[h] # "idle" /\ job[h].cur # 0
          BY <2>1, <3>4, FarCur DEF Twalk
        <4> QED BY <3>4, <4>1
      <3> QED BY <3>1, <3>2, <3>3, <3>4 DEF Sees
    <2> QED BY <2>1, <2>2, <2>3 DEF Known
  <1> QED BY <1>1, InvInvariant, PTL
=============================================================================
