-------------------------- MODULE ClientFidsProofs --------------------------
(***************************************************************************)
(* Proofs about ClientFids for any number of goroutines, paths of any      *)
(* length, any batch size and any number of calls.                         *)
(***************************************************************************)
EXTENDS ClientFids, SequenceTheorems, TLAPS

\* The calls' jobs.
Ops == {"none", "Attach", "Walk", "Open", "Create", "Symlink", "Tclunk", "Tremove", "Tcreate"}

Job == [op : Ops, path : Place, names : Place, done : Nat, from : 0..MaxFid,
        fid : 0..MaxFid, cur : 0..MaxFid, quiet : BOOLEAN]

\* g establishes job[g].fid, or gives it up after a failure.
Creating(g) == pc[g] \notin {"idle", "fid"}

Walking(g) == pc[g] \in {"walk", "walking"}

\* g's call may still return its fid.
OnCourse(g) ==
    /\ pc[g] \in {"attach", "walk", "walking", "use", "using"}
    /\ reply[g] \in {"none", "ok"}

\* What a job is at each step of its call.
JobOK(g) ==
    LET j == job[g]
    IN  /\ pc[g] = "idle" => j = NoJob
        /\ j.from \in 0..nextFid
        /\ pc[g] # "idle" => j.fid \in 1..nextFid
        /\ pc[g] \in {"idle", "walk", "use", "clunk"} => reply[g] = "none"
        /\ pc[g] = "attach" => j.path = <<>> /\ j.from = 0
        /\ pc[g] = "fid" => j.op \in {"Tclunk", "Tremove", "Tcreate"} /\ j.from = 0
        /\ Walking(g) =>
              /\ j.op \in {"Walk", "Open", "Create", "Symlink"}
              /\ j.from \in 1..nextFid
              /\ j.cur = IF j.done = 0 THEN j.from ELSE j.fid
        /\ pc[g] \in {"use", "using"} => j.op \in {"Open", "Create", "Symlink"}
        /\ Walking(g) \/ pc[g] \in {"use", "using"} =>
              /\ j.op \in {"Walk", "Open"} => j.names = j.path
              /\ j.op \in {"Create", "Symlink"} =>
                    j.path # <<>> /\ j.names = SubSeq(j.path, 1, Len(j.path) - 1)

Shape ==
    /\ TypeOK
    /\ job \in [Procs -> Job]
    /\ handle \in [Fids -> Place \cup {None}]
    /\ table \in [Fids -> Place \cup {None}]
    /\ \A g \in Procs : JobOK(g)

\* The fid whose entry in the table request r may change.
Changes(r) == IF r.type = "Twalk" THEN r.newfid ELSE r.fid

\* The fid that g walks from, or the one it establishes, has been moved by a Create.
Tainted(g) == job[g].from \in moved \/ job[g].fid \in moved

\* r is the request that g waits for.
Matches(g, r) ==
    /\ reply[g] = "none"
    /\ Changes(r) = job[g].fid
    /\ \/ pc[g] = "attach" /\ r.type = "Tattach"
       \/ /\ pc[g] = "walking" /\ r.type = "Twalk"
          /\ r.fid = job[g].cur /\ r.names = batch(g)
          /\ r.base = None \/ Tainted(g) \/ r.base = SubSeq(job[g].names, 1, job[g].done)
       \/ pc[g] = "using" /\ job[g].op = "Open" /\ r.type = "Topen"
       \/ /\ pc[g] = "using" /\ job[g].op # "Open" /\ r.type = "Tcreate"
          /\ r.names = <<job[g].path[Len(job[g].path)]>>
       \/ pc[g] = "clunking" /\ r.type = "Tclunk"
       \/ pc[g] = "fid" /\ r.type = job[g].op

\* Each goroutine has one request at the server at most, the one it waits for; the
\* others are left over from cancelled calls.
Matched ==
    /\ \A r \in reqs : r.by # None => Matches(r.by, r)
    /\ \A r, q \in reqs : r.by # None /\ r.by = q.by => r = q
    /\ \A r \in reqs : Changes(r) \in 1..nextFid
    /\ \A r \in reqs : r.by = None => Changes(r) \in spoiled

\* A fid that is being established is known to its call only.
Own ==
    /\ \A f \in Fids : handle[f] # None => f <= nextFid
    /\ \A g \in Procs : Creating(g) =>
          /\ handle[job[g].fid] = None /\ root # job[g].fid
          /\ \A h \in Procs : job[h].from # job[g].fid /\ (h # g => job[h].fid # job[g].fid)

\* Nobody else's request changes a fid that may yet be returned, and nobody's but
\* a Create a fid that has been.
Settled ==
    /\ \A g \in Procs, r \in reqs :
          OnCourse(g) /\ Changes(r) = job[g].fid => r.by = g
    /\ \A r \in reqs : handle[Changes(r)] # None =>
          r.type = "Topen" \/ (r.type = "Tcreate" /\ r.fid \in moved)

\* g's fid is at place p, or wherever the fid it comes from was moved to.
At(g, p) == table[job[g].fid] # None /\ (Tainted(g) \/ table[job[g].fid] = p)

\* How far each call has got at the server.
PlacedAt(g) ==
    LET j == job[g]
    IN  /\ pc[g] = "attach" /\ reply[g] = "ok" => table[j.fid] = <<>>
        /\ Walking(g) /\ reply[g] = "none" /\ j.done > 0 => At(g, SubSeq(j.names, 1, j.done))
        /\ pc[g] = "walking" /\ reply[g] = "ok" =>
              At(g, SubSeq(j.names, 1, j.done + Len(batch(g))))
        /\ pc[g] = "use" \/ (pc[g] = "using" /\ reply[g] = "none") => At(g, j.names)
        /\ pc[g] = "using" /\ reply[g] = "ok" /\ j.op # "Symlink" => At(g, j.path)

Placed == \A g \in Procs : PlacedAt(g)

\* The fids that walks start from.
Start(f) == f = root \/ handle[f] = <<>> \/ \E g \in Procs : Walking(g) /\ job[g].from = f

\* Such a fid, unless it was moved, is at the root or released.
Rooted ==
    \A f \in Fids \ moved : Start(f) =>
        /\ table[f] \in {None, <<>>}
        /\ \A r \in reqs : Changes(r) = f => r.type \in {"Topen", "Tclunk", "Tremove"}

\* g will see to it that f is in the hands of the program or released.
Holding(g, f) ==
    /\ job[g].fid = f
    /\ \/ Creating(g)
       \/ pc[g] = "fid" /\ job[g].op \in {"Tclunk", "Tremove"} /\ reply[g] = "none"

\* g's fid is not established yet, or released already.
Void(g) ==
    \/ pc[g] = "attach" /\ reply[g] # "ok"
    \/ Walking(g) /\ job[g].done = 0 /\ reply[g] \in {"none", "error"}
    \/ pc[g] = "clunking" /\ reply[g] # "none"

Accounted ==
    /\ \A f \in Fids : table[f] # None /\ handle[f] = None =>
          f \in spoiled \/ \E g \in Procs : Holding(g, f)
    /\ \A g \in Procs : Void(g) => table[job[g].fid] = None \/ job[g].fid \in spoiled

Inv == Shape /\ Matched /\ Own /\ Settled /\ Placed /\ Rooted /\ Accounted

-----------------------------------------------------------------------------
(***************************************************************************)
(* Sequences.                                                              *)
(***************************************************************************)

\* No place is None, and the root is a place.
LEMMA PlaceFacts ==
    <<>> \in Place /\ None \notin Place /\ None \notin Procs
  BY NoneAssumption, EmptySeq DEF Place

\* A path below a place is a place.
LEMMA JoinFacts ==
    ASSUME NEW p \in Place, NEW q \in Place
    PROVE  p \o q \in Place /\ p \o q # None
  <1>1. p \o q \in Place
    BY ConcatProperties DEF Place
  <1> QED BY <1>1, PlaceFacts

\* A batch is made of names and goes no further than they do; it is empty only if
\* there are none left.
LEMMA BatchFacts ==
    ASSUME NEW g \in Procs, job[g].names \in Place, job[g].done \in 0..Len(job[g].names)
    PROVE  /\ batch(g) \in Place
           /\ job[g].done + Len(batch(g)) \in job[g].done..Len(job[g].names)
           /\ Len(batch(g)) = 0 => job[g].done = Len(job[g].names)
           /\ SubSeq(job[g].names, 1, job[g].done) \o batch(g)
                = SubSeq(job[g].names, 1, job[g].done + Len(batch(g)))
  <1> DEFINE j == job[g]
             end == IF j.done + MaxWElem < Len(j.names) THEN j.done + MaxWElem ELSE Len(j.names)
  <1>1. Len(j.names) \in Nat /\ j.done \in Nat /\ MaxWElem \in Nat \ {0} /\ end \in j.done..Len(j.names)
    BY LenProperties, BoundsAssumption DEF Place
  <1>2. batch(g) = SubSeq(j.names, j.done + 1, end)
    BY DEF batch
  <1>3. batch(g) \in Place /\ Len(batch(g)) = end - j.done
    <2>1. \A i \in (j.done + 1)..end : j.names[i] \in Names
      BY <1>1, ElementOfSeq DEF Place
    <2>2. batch(g) \in Seq(Names)
      BY <1>1, <1>2, <2>1, SubSeqProperties, SMTT(40)
    <2>3. Len(batch(g)) = IF j.done + 1 <= end THEN end - (j.done + 1) + 1 ELSE 0
      BY <1>1, <1>2, <2>1, SubSeqProperties
    <2> HIDE DEF end, j
    <2> QED BY <1>1, <2>2, <2>3 DEF Place
  <1>4. SubSeq(j.names, 1, j.done) \o SubSeq(j.names, j.done + 1, end) = SubSeq(j.names, 1, end)
    <2>1. 1 \in 1..(Len(j.names) + 1) /\ j.done \in (1 - 1)..Len(j.names) /\ end \in j.done..Len(j.names)
      BY <1>1
    <2> HIDE DEF end, j
    <2> QED BY <2>1, ConcatAdjacentSubSeq DEF j, Place
  <1>5. (end - j.done = 0) => j.done = Len(j.names)
    BY <1>1
  <1> HIDE DEF end, j
  <1>6. j.done + Len(batch(g)) = end
    BY <1>1, <1>3
  <1>7. j.done + Len(batch(g)) \in j.done..Len(j.names) /\ (Len(batch(g)) = 0 => j.done = Len(j.names))
    BY <1>1, <1>3, <1>5, <1>6, SMTT(40)
  <1> QED BY <1>2, <1>3, <1>4, <1>6, <1>7 DEF j

\* The last element of a path completes its directory.
LEMMA PathFacts ==
    ASSUME NEW p \in Place
    PROVE  /\ SubSeq(p, 1, 0) = <<>> /\ SubSeq(p, 1, Len(p)) = p
           /\ p # <<>> => /\ SubSeq(p, 1, Len(p) - 1) \in Place
                          /\ <<p[Len(p)]>> \in Place
                          /\ SubSeq(p, 1, Len(p) - 1) \o <<p[Len(p)]>> = p
  <1>1. SubSeq(p, 1, 0) = <<>>
    BY SubSeqEmpty
  <1>2. SubSeq(p, 1, Len(p)) = p
    BY SubSeqFull, SMTT(40) DEF Place
  <1>3. ASSUME p # <<>>
        PROVE  /\ SubSeq(p, 1, Len(p) - 1) \in Place
               /\ <<p[Len(p)]>> \in Place
               /\ SubSeq(p, 1, Len(p) - 1) \o <<p[Len(p)]>> = p
    <2>1. Len(p) \in Nat \ {0}
      BY <1>3, EmptySeq DEF Place
    <2>2. p[Len(p)] \in Names /\ \A i \in 1..(Len(p) - 1) : p[i] \in Names
      BY <2>1, ElementOfSeq DEF Place
    <2>3. SubSeq(p, 1, Len(p) - 1) \in Place
      BY <2>1, <2>2, SubSeqProperties DEF Place
    <2>4. <<p[Len(p)]>> \in Place
      BY <2>2 DEF Place
    <2>5. SubSeq(p, 1, Len(p)) = SubSeq(p, 1, Len(p) - 1) \o <<p[Len(p)]>>
      BY <2>1, SubSeqRecursiveSecond DEF Place
    <2> QED BY <1>2, <2>3, <2>4, <2>5
  <1> QED BY <1>1, <1>2, <1>3

-----------------------------------------------------------------------------
(***************************************************************************)
(* Shape.                                                                  *)
(***************************************************************************)

Labels == {"idle", "attach", "walk", "walking", "use", "using", "clunk", "clunking", "fid"}

Replies == {"none", "ok", "short", "error"}

\* Bounds of the constants, as numbers.
LEMMA Numbers == MaxFid \in Nat \ {0} /\ MaxWElem \in Nat \ {0} /\ MaxCalls \in Nat \ {0}
  BY BoundsAssumption

\* The fids of a job are fids.
LEMMA FidFacts ==
    ASSUME Shape
    PROVE  /\ \A g \in Procs : pc[g] # "idle" => job[g].fid \in Fids
           /\ \A g \in Procs : Walking(g) => job[g].cur \in Fids /\ job[g].from \in Fids
           /\ nextFid \in 0..MaxFid /\ (nextFid < MaxFid => nextFid + 1 \in Fids)
  <1>1. nextFid \in 0..MaxFid
    BY DEF Shape, TypeOK
  <1>2. \A g \in Procs : pc[g] # "idle" => job[g].fid \in 1..nextFid
    BY DEF Shape, JobOK
  <1>3. \A g \in Procs : Walking(g) => job[g].from \in 1..nextFid /\ job[g].cur \in {job[g].from, job[g].fid}
    BY DEF Shape, JobOK
  <1> QED BY <1>1, <1>2, <1>3, Numbers DEF Fids, Walking

\* What begin is given.
LEMMA NewJob ==
    ASSUME NEW op \in Ops, NEW fid \in 0..MaxFid
    PROVE  LET j == [NoJob EXCEPT !.op = op, !.fid = fid]
           IN  /\ j \in Job /\ j.op = op /\ j.fid = fid
               /\ j.path = <<>> /\ j.names = <<>> /\ j.done = 0 /\ j.from = 0
  <1> DEFINE e == <<>>
             no == FALSE
  <1>1. NoJob = [op |-> "none", path |-> e, names |-> e, done |-> 0, from |-> 0,
                 fid |-> 0, cur |-> 0, quiet |-> no]
    BY DEF NoJob
  <1>2. 0 \in 0..MaxFid /\ no \in BOOLEAN /\ e \in Place /\ "none" \in Ops
    BY PlaceFacts, Numbers DEF Ops
  <1> HIDE DEF e, no
  <1>3. [NoJob EXCEPT !.op = op, !.fid = fid] \in Job
    BY <1>1, <1>2 DEF Job
  <1> QED BY <1>1, <1>3 DEF e

WalkJob(op, path, names, from, fid) ==
    [NoJob EXCEPT !.op = op, !.path = path, !.names = names,
                  !.from = from, !.fid = fid, !.cur = from]

\* The job that a walk begins with.
LEMMA NewWalkJob ==
    ASSUME NEW op \in Ops, NEW path \in Place, NEW names \in Place,
           NEW from \in 0..MaxFid, NEW fid \in 0..MaxFid
    PROVE  LET j == WalkJob(op, path, names, from, fid)
           IN  /\ j \in Job /\ j.op = op /\ j.path = path /\ j.names = names /\ j.done = 0
               /\ j.from = from /\ j.fid = fid /\ j.cur = from
  <1> DEFINE e == <<>>
             no == FALSE
  <1>1. NoJob = [op |-> "none", path |-> e, names |-> e, done |-> 0, from |-> 0,
                 fid |-> 0, cur |-> 0, quiet |-> no]
    BY DEF NoJob
  <1>2. 0 \in 0..MaxFid /\ no \in BOOLEAN /\ e \in Place /\ "none" \in Ops
    BY PlaceFacts, Numbers DEF Ops
  <1> HIDE DEF e, no
  <1>3. WalkJob(op, path, names, from, fid) \in Job
    BY <1>1, <1>2 DEF Job, WalkJob
  <1> QED BY <1>1, <1>3 DEF WalkJob

\* What rpc sends.
LEMMA RequestType ==
    ASSUME NEW type \in {"Tattach", "Twalk", "Topen", "Tcreate", "Tclunk", "Tremove"},
           NEW fid \in Fids, NEW newfid \in 0..MaxFid, NEW names \in Place, NEW g \in Procs
    PROVE  [type |-> type, fid |-> fid, newfid |-> newfid, names |-> names,
            base |-> None, by |-> g] \in Request
  BY DEF Request, Place

\* A step of goroutine g leaves the others' calls alone.
LEMMA ShapeFrame ==
    ASSUME Shape, NEW g \in Procs,
           nextFid' \in {nextFid, nextFid + 1}, nextFid' \in 0..MaxFid, root' \in 0..nextFid',
           table' = table, handle' \in [Fids -> Place \cup {None}],
           pc' \in [Procs -> Labels], reply' \in [Procs -> Replies], job' \in [Procs -> Job],
           \A h \in Procs \ {g} : pc'[h] = pc[h] /\ reply'[h] = reply[h] /\ job'[h] = job[h],
           job'[g].done \in 0..Len(job'[g].names), job'[g].fid \in 0..nextFid', JobOK(g)',
           \A r \in reqs' : r \in Request,
           spoiled' \subseteq Fids, moved' \subseteq Fids, calls' \in 0..MaxCalls
    PROVE  Shape'
  <1>1. ASSUME NEW h \in Procs \ {g} PROVE JobOK(h)'
    <2>1. pc'[h] = pc[h] /\ reply'[h] = reply[h] /\ job'[h] = job[h] /\ JobOK(h)
      BY DEF Shape
    <2>2. nextFid \in Nat /\ nextFid' \in Nat /\ nextFid <= nextFid' /\ 1..nextFid \subseteq 1..nextFid'
          /\ 0..nextFid \subseteq 0..nextFid'
      BY DEF Shape, TypeOK
    <2> QED BY <2>1, <2>2 DEF JobOK, Walking
  <1>2. \A h \in Procs : job'[h].done \in 0..Len(job'[h].names) /\ job'[h].fid \in 0..nextFid'
    BY DEF Shape, TypeOK
  <1>3. \A f \in Fids : table[f] # None => f <= nextFid'
    BY DEF Shape, TypeOK, Fids
  <1>4. \A f \in Fids : handle'[f] \in Place \cup {None} /\ table'[f] \in Place \cup {None}
    BY DEF Shape
  <1>5. DOMAIN handle' = Fids /\ DOMAIN table' = Fids
    BY DEF Shape
  <1>6. TypeOK'
    BY <1>2, <1>3, <1>4, <1>5 DEF TypeOK, Labels, Replies
  <1> QED BY <1>1, <1>6 DEF Shape

\* Attach begins.
LEMMA ShapeAttach ==
    ASSUME Shape, NEW g \in Procs, Attach(g)
    PROVE  Shape'
  <1>1. nextFid + 1 \in Fids /\ nextFid' = nextFid + 1 /\ nextFid \in 0..MaxFid /\ nextFid' \in 0..MaxFid
    BY FidFacts DEF Attach, allocFid, Fids
  <1>2. /\ pc' = [pc EXCEPT ![g] = "attach"] /\ reply' = reply
        /\ job' = [job EXCEPT ![g] = [NoJob EXCEPT !.op = "Attach", !.fid = nextFid + 1]]
        /\ root' = root /\ table' = table /\ handle' = handle /\ moved' = moved /\ spoiled' = spoiled
        /\ reqs' = reqs \cup {[type |-> "Tattach", fid |-> nextFid + 1, newfid |-> 0, names |-> <<>>,
                               base |-> None, by |-> g]}
        /\ calls' \in 0..MaxCalls
    BY Numbers DEF Attach, begin, rpc, Shape, TypeOK
  <1>3. [NoJob EXCEPT !.op = "Attach", !.fid = nextFid + 1] \in Job
    BY <1>1, NewJob DEF Ops, Fids
  <1>4. \A r \in reqs' : r \in Request
    BY <1>1, <1>2, Numbers, PlaceFacts, RequestType DEF Shape, TypeOK
  <1>5. pc' \in [Procs -> Labels] /\ reply' \in [Procs -> Replies] /\ job' \in [Procs -> Job]
    BY <1>2, <1>3 DEF Shape, TypeOK, Labels, Replies
  <1>6. JobOK(g)' /\ job'[g].done \in 0..Len(job'[g].names) /\ job'[g].fid \in 0..nextFid'
    BY <1>1, <1>2, <1>5, EmptySeq DEF JobOK, NoJob, Walking, Shape
  <1>7. \A h \in Procs \ {g} : pc'[h] = pc[h] /\ reply'[h] = reply[h] /\ job'[h] = job[h]
    BY <1>2 DEF Shape, TypeOK
  <1>8. root' \in 0..nextFid' /\ nextFid' \in {nextFid, nextFid + 1}
    BY <1>1, <1>2 DEF Shape, TypeOK
  <1>9. handle' \in [Fids -> Place \cup {None}] /\ spoiled' \subseteq Fids /\ moved' \subseteq Fids
    BY <1>2 DEF Shape, TypeOK
  <1> QED BY <1>1, <1>2, <1>4, <1>5, <1>6, <1>7, <1>8, <1>9, ShapeFrame

\* A walk begins: Walk, Open, Create or Symlink.
LEMMA ShapeWalkBegins ==
    ASSUME Shape, NEW g \in Procs, NEW op \in {"Walk", "Open", "Create", "Symlink"},
           NEW f \in 1..nextFid, NEW names \in Place, NEW path \in Place,
           op \in {"Walk", "Open"} => names = path,
           op \in {"Create", "Symlink"} =>
               path # <<>> /\ names = SubSeq(path, 1, Len(path) - 1),
           walkBegins(g, op, f, names, path)
    PROVE  Shape'
  <1> DEFINE j == WalkJob(op, path, names, f, nextFid + 1)
  <1>1. /\ nextFid \in 0..MaxFid /\ nextFid + 1 \in 0..MaxFid /\ nextFid' = nextFid + 1
        /\ f \in 0..MaxFid /\ f \in 1..nextFid' /\ nextFid + 1 \in 1..nextFid'
    BY FidFacts, Numbers DEF walkBegins, allocFid, Fids
  <1>2. /\ pc[g] = "idle" /\ pc' = [pc EXCEPT ![g] = "walk"] /\ reply' = reply
        /\ job' = [job EXCEPT ![g] = j] /\ calls' \in 0..MaxCalls
        /\ root' = root /\ table' = table /\ handle' = handle /\ moved' = moved /\ spoiled' = spoiled
        /\ reqs' = reqs
    BY Numbers DEF walkBegins, begin, Shape, TypeOK, WalkJob
  <1>3. /\ j \in Job /\ j.op = op /\ j.path = path /\ j.names = names /\ j.done = 0
        /\ j.from = f /\ j.fid = nextFid + 1 /\ j.cur = f
    <2>1. op \in Ops
      BY DEF Ops
    <2>2. /\ nextFid + 1 \in 0..MaxFid /\ f \in 0..MaxFid /\ names \in Place /\ path \in Place
      BY <1>1
    <2> QED BY <2>1, <2>2, NewWalkJob
  <1> HIDE DEF j
  <1>4. pc' \in [Procs -> Labels] /\ reply' \in [Procs -> Replies] /\ job' \in [Procs -> Job]
    BY <1>2, <1>3 DEF Shape, TypeOK, Labels, Replies
  <1>5. pc'[g] = "walk" /\ reply'[g] = "none" /\ job'[g] = j
    BY <1>2 DEF Shape, TypeOK, JobOK
  <1>6. JobOK(g)'
    BY <1>1, <1>3, <1>5 DEF JobOK, Walking
  <1>7. job'[g].done \in 0..Len(job'[g].names) /\ job'[g].fid \in 0..nextFid'
    BY <1>1, <1>3, <1>5, LenProperties DEF Place
  <1>8. \A h \in Procs \ {g} : pc'[h] = pc[h] /\ reply'[h] = reply[h] /\ job'[h] = job[h]
    BY <1>2 DEF Shape, TypeOK
  <1>9. root' \in 0..nextFid' /\ nextFid' \in {nextFid, nextFid + 1}
    BY <1>1, <1>2 DEF Shape, TypeOK
  <1>10. /\ handle' \in [Fids -> Place \cup {None}] /\ spoiled' \subseteq Fids /\ moved' \subseteq Fids
         /\ \A r \in reqs' : r \in Request
    BY <1>2 DEF Shape, TypeOK
  <1> QED BY <1>1, <1>2, <1>4, <1>6, <1>7, <1>8, <1>9, <1>10, ShapeFrame

\* Clunk, Remove or Create of a Fid begins.
LEMMA ShapeFid ==
    ASSUME Shape, Own, NEW g \in Procs, NEW f \in Fids,
           \/ \E type \in {"Tclunk", "Tremove"} : FidRelease(g, f, type)
           \/ \E name \in Names : FidCreate(g, f, name)
    PROVE  Shape'
  <1>1. PICK type \in {"Tclunk", "Tremove", "Tcreate"}, names \in Place :
          /\ pc[g] = "idle" /\ pc' = [pc EXCEPT ![g] = "fid"] /\ reply' = reply
          /\ job' = [job EXCEPT ![g] = [NoJob EXCEPT !.op = type, !.fid = f]]
          /\ calls < MaxCalls /\ calls' = calls + 1
          /\ nextFid' = nextFid /\ root' = root /\ table' = table /\ spoiled' = spoiled
          /\ handle[f] # None
          /\ reqs' = reqs \cup {[type |-> type, fid |-> f, newfid |-> 0, names |-> names,
                                 base |-> None, by |-> g]}
    <2>1. \A name \in Names : <<name>> \in Place
      BY DEF Place
    <2> QED BY <2>1, PlaceFacts DEF FidRelease, FidCreate, begin, rpc
  <1>2. f \in 0..MaxFid /\ f \in 1..nextFid /\ f \in 0..nextFid /\ nextFid \in 0..MaxFid
    BY <1>1, FidFacts, Numbers DEF Own, Fids
  <1> DEFINE j == [NoJob EXCEPT !.op = type, !.fid = f]
  <1>3. j \in Job /\ j.op = type /\ j.fid = f /\ j.names = <<>> /\ j.done = 0 /\ j.from = 0
    <2>1. type \in Ops
      BY DEF Ops
    <2> QED BY ONLY <1>2, <2>1, NewJob, ZenonT(60)
  <1> HIDE DEF j
  <1>4. pc' \in [Procs -> Labels] /\ reply' \in [Procs -> Replies] /\ job' \in [Procs -> Job]
    BY <1>1, <1>3 DEF Shape, TypeOK, Labels, Replies, j
  <1>5. pc'[g] = "fid" /\ job'[g] = j
    BY <1>1 DEF Shape, TypeOK, j
  <1>6. JobOK(g)'
    <2>1. 0 \in 0..nextFid' /\ f \in 1..nextFid'
      BY <1>1, <1>2
    <2>2. job'[g].fid = f /\ job'[g].from = 0 /\ job'[g].op = type
      BY <1>3, <1>5
    <2> QED BY <1>5, <2>1, <2>2 DEF JobOK, Walking
  <1>7. job'[g].done \in 0..Len(job'[g].names) /\ job'[g].fid \in 0..nextFid'
    <2>1. Len(job'[g].names) = 0
      BY <1>3, <1>5
    <2>2. job'[g].done = 0 /\ job'[g].fid = f
      BY <1>3, <1>5
    <2> QED BY <1>1, <1>2, <2>1, <2>2
  <1>8. \A h \in Procs \ {g} : pc'[h] = pc[h] /\ reply'[h] = reply[h] /\ job'[h] = job[h]
    BY <1>1 DEF Shape, TypeOK
  <1>9. root' \in 0..nextFid' /\ calls' \in 0..MaxCalls /\ spoiled' \subseteq Fids
    BY <1>1, Numbers DEF Shape, TypeOK
  <1>10. handle' \in [Fids -> Place \cup {None}]
    BY DEF Shape, FidRelease, FidCreate
  <1>11. moved' \subseteq Fids
    <2>1. \A h \in Procs : job[h].from = f => job[h].fid \in Fids
      <3> SUFFICES ASSUME NEW h \in Procs, job[h].from = f PROVE job[h].fid \in Fids
        OBVIOUS
      <3>1. pc[h] # "idle"
        BY <1>2 DEF Shape, JobOK, NoJob
      <3> QED BY <3>1, FidFacts
    <2>2. moved \subseteq Fids
      BY DEF Shape, TypeOK
    <2>3. moved' \subseteq moved \cup {f} \cup {job[h].fid : h \in {x \in Procs : job[x].from = f}}
      BY DEF FidRelease, FidCreate
    <2> QED BY <2>1, <2>2, <2>3
  <1>12. \A r \in reqs' : r \in Request
    BY <1>1, Numbers, RequestType DEF Shape, TypeOK
  <1>13. nextFid' \in {nextFid, nextFid + 1} /\ nextFid' \in 0..MaxFid /\ table' = table
    BY <1>1, <1>2
  <1> QED BY <1>4, <1>6, <1>7, <1>8, <1>9, <1>10, <1>11, <1>12, <1>13, ShapeFrame

\* A request is sent for a call under way.
LEMMA ShapeSend ==
    ASSUME Shape, NEW g \in Procs, walkBatch(g) \/ use(g) \/ clunk(g)
    PROVE  Shape'
  <1>1. PICK type \in {"Twalk", "Topen", "Tcreate", "Tclunk"}, fid \in Fids, newfid \in 0..MaxFid,
             names \in Place, label \in {"walking", "using", "clunking"} :
          /\ pc' = [pc EXCEPT ![g] = label]
          /\ reqs' = reqs \cup {[type |-> type, fid |-> fid, newfid |-> newfid, names |-> names,
                                 base |-> None, by |-> g]}
          /\ <<pc[g], label>> \in {<<"walk", "walking">>, <<"use", "using">>, <<"clunk", "clunking">>}
    <2>1. CASE walkBatch(g)
      <3>1. pc[g] = "walk" /\ Walking(g) /\ job[g].names \in Place /\ job[g].fid \in 0..MaxFid
        BY <2>1 DEF walkBatch, Walking, Shape, Job
      <3>2. batch(g) \in Place
        BY <3>1, BatchFacts DEF Shape, TypeOK
      <3> QED BY <2>1, <3>1, <3>2, FidFacts DEF walkBatch, rpc
    <2>2. CASE use(g)
      <3>1. pc[g] = "use" /\ job[g].fid \in Fids /\ 0 \in 0..MaxFid /\ <<>> \in Place
        BY <2>2, FidFacts, PlaceFacts, Numbers DEF use
      <3>2. job[g].op # "Open" => <<job[g].path[Len(job[g].path)]>> \in Place
        <4>1. job[g].path \in Place
          BY DEF Shape, Job
        <4>2. job[g].op # "Open" => job[g].path # <<>>
          BY <3>1 DEF Shape, JobOK
        <4> QED BY <4>1, <4>2, PathFacts
      <3> QED BY <2>2, <3>1, <3>2 DEF use, rpc
    <2>3. CASE clunk(g)
      BY <2>3, FidFacts, PlaceFacts, Numbers DEF clunk, rpc
    <2> QED BY <2>1, <2>2, <2>3
  <1>2. UNCHANGED <<nextFid, root, handle, job, reply, table, moved, spoiled, calls>>
    BY DEF walkBatch, use, clunk
  <1>3. pc' \in [Procs -> Labels] /\ reply' \in [Procs -> Replies] /\ job' \in [Procs -> Job]
    BY <1>1, <1>2 DEF Shape, TypeOK, Labels, Replies
  <1>4. JobOK(g)'
    <2>1. <<pc[g], pc'[g]>> \in {<<"walk", "walking">>, <<"use", "using">>, <<"clunk", "clunking">>}
      BY <1>1 DEF Shape, TypeOK
    <2> QED BY <1>2, <2>1 DEF Shape, JobOK, Walking
  <1>5. \A h \in Procs \ {g} : pc'[h] = pc[h] /\ reply'[h] = reply[h] /\ job'[h] = job[h]
    BY <1>1, <1>2 DEF Shape, TypeOK
  <1>6. \A r \in reqs' : r \in Request
    BY <1>1, RequestType DEF Shape, TypeOK
  <1> QED BY <1>2, <1>3, <1>4, <1>5, <1>6, ShapeFrame DEF Shape, TypeOK

\* The job of a goroutine that is idle.
LEMMA NoJobType == NoJob \in Job /\ NoJob.fid = 0 /\ NoJob.done = 0 /\ NoJob.from = 0 /\ Len(NoJob.names) = 0
  <1> DEFINE e == <<>>
             no == FALSE
  <1>1. NoJob = [op |-> "none", path |-> e, names |-> e, done |-> 0, from |-> 0,
                 fid |-> 0, cur |-> 0, quiet |-> no]
    BY DEF NoJob
  <1>2. 0 \in 0..MaxFid /\ no \in BOOLEAN /\ e \in Place /\ "none" \in Ops /\ Len(e) = 0
    BY PlaceFacts, Numbers DEF Ops
  <1> HIDE DEF e, no
  <1> QED BY <1>1, <1>2 DEF Job

\* What a reply may lead to.  The call returns its fid:
Delivers(g) ==
    /\ pc'[g] = "idle" /\ job'[g] = NoJob /\ reply[g] = "ok"
    /\ handle' = [handle EXCEPT ![job[g].fid] = job[g].path]
    /\ moved' = IF job[g].from \in moved THEN moved \cup {job[g].fid} ELSE moved
    /\ \/ pc[g] = "attach" /\ root' = job[g].fid
       \/ /\ pc[g] = "walking" /\ root' = root /\ job[g].op = "Walk"
          /\ job[g].done + Len(batch(g)) = Len(job[g].names)
       \/ pc[g] = "using" /\ root' = root /\ job[g].op # "Symlink"

\* or an error, with nothing to release;
Fails(g) ==
    /\ pc'[g] = "idle" /\ job'[g] = NoJob
    /\ handle' = handle /\ moved' = moved /\ root' = root
    /\ \/ pc[g] = "attach" /\ reply[g] # "ok"
       \/ pc[g] = "walking" /\ reply[g] \notin {"ok", "short"} /\ job[g].done = 0
       \/ pc[g] = "clunking"
       \/ pc[g] = "fid"

\* or it has to clunk its fid;
GivesUp(g) ==
    /\ pc'[g] = "clunk" /\ pc[g] \in {"walking", "using"}
    /\ job' = [job EXCEPT ![g].quiet = TRUE] \/ job' = job
    /\ handle' = handle /\ moved' = moved /\ root' = root

\* or goes on with the next batch, or with the use of the fid.
Advances(g) ==
    LET n == job[g].done + Len(batch(g))
    IN  /\ pc[g] = "walking" /\ reply[g] = "ok" /\ job' = walked(g, n)
        /\ \/ pc'[g] = "walk" /\ n < Len(job[g].names)
           \/ pc'[g] = "use" /\ n = Len(job[g].names) /\ job[g].op # "Walk"
        /\ handle' = handle /\ moved' = moved /\ root' = root

TakesReply(g) ==
    attachReply(g) \/ walkReply(g) \/ useReply(g) \/ clunkReply(g) \/ fidReply(g)

\* A step that takes a reply is one of the four, and changes nothing else.
LEMMA ReplyFrame ==
    ASSUME Shape, NEW g \in Procs, TakesReply(g)
    PROVE  /\ UNCHANGED <<nextFid, reqs, table, spoiled, calls>>
           /\ pc[g] \in {"attach", "walking", "using", "clunking", "fid"} /\ reply[g] # "none"
           /\ \A h \in Procs \ {g} : pc'[h] = pc[h] /\ reply'[h] = reply[h] /\ job'[h] = job[h]
           /\ reply'[g] = "none"
           /\ pc' \in [Procs -> Labels] /\ reply' \in [Procs -> Replies] /\ job' \in [Procs -> Job]
           /\ Delivers(g) \/ Fails(g) \/ GivesUp(g) \/ Advances(g)
  <1> USE DEF attachReply, walkReply, useReply, clunkReply, fidReply, returnFid, returnErr, return, goto
  <1>1. /\ UNCHANGED <<nextFid, reqs, table, spoiled, calls>>
        /\ pc[g] \in {"attach", "walking", "using", "clunking", "fid"} /\ reply[g] # "none"
        /\ reply' = [reply EXCEPT ![g] = "none"]
    BY DEF TakesReply
  <1>2. PICK l \in {"idle", "walk", "use", "clunk"} : pc' = [pc EXCEPT ![g] = l]
    BY DEF TakesReply
  <1>3. \/ job' = [job EXCEPT ![g] = NoJob]
        \/ job' = [job EXCEPT ![g].quiet = TRUE] \/ job' = job
        \/ job' = walked(g, job[g].done + Len(batch(g))) /\ pc[g] = "walking"
    BY DEF TakesReply
  <1>4. pc \in [Procs -> Labels] /\ reply \in [Procs -> Replies] /\ job \in [Procs -> Job]
    BY DEF Shape, TypeOK, Labels, Replies
  <1>5. pc' \in [Procs -> Labels] /\ reply' \in [Procs -> Replies]
    BY <1>1, <1>2, <1>4 DEF Labels, Replies
  <1>6. (\A h \in Procs \ {g} : pc'[h] = pc[h] /\ reply'[h] = reply[h]) /\ reply'[g] = "none"
    BY <1>1, <1>2, <1>4
  <1>7. job' \in [Procs -> Job] /\ \A h \in Procs \ {g} : job'[h] = job[h]
    <2>1. CASE job' = [job EXCEPT ![g] = NoJob]
      BY <1>4, <2>1, NoJobType
    <2>2. CASE job' = [job EXCEPT ![g].quiet = TRUE]
      BY <1>4, <2>2 DEF Job
    <2>3. CASE job' = job
      BY <1>4, <2>3
    <2>4. CASE job' = walked(g, job[g].done + Len(batch(g))) /\ pc[g] = "walking"
      <3>1. job[g].done + Len(batch(g)) \in job[g].done..Len(job[g].names) /\ job[g].done \in Nat
        BY <1>4, BatchFacts DEF Shape, TypeOK, Job
      <3>2. job[g].done + Len(batch(g)) \in Nat
        <4>1. Len(job[g].names) \in Nat
          BY <1>4, LenProperties DEF Job, Place
        <4> QED BY <3>1, <4>1
      <3> QED BY <1>4, <2>4, <3>2 DEF walked, Job
    <2> QED BY <1>3, <2>1, <2>2, <2>3, <2>4
  <1>8. Delivers(g) \/ Fails(g) \/ GivesUp(g) \/ Advances(g)
    <2>1. CASE attachReply(g)
      BY <1>4, <2>1 DEF Delivers, Fails
    <2>2. CASE walkReply(g)
      <3>0. job[g].done \in Nat
        BY <1>4 DEF Job
      <3>1. CASE reply[g] = "ok" /\ job[g].op = "Walk"
        BY <1>4, <2>2, <3>1 DEF Delivers, Advances
      <3>2. CASE reply[g] = "ok" /\ job[g].op # "Walk"
        BY <1>4, <2>2, <3>2 DEF Advances
      <3>3. CASE reply[g] # "ok"
        BY <1>4, <2>2, <3>0, <3>3 DEF Fails, GivesUp, clunkNeeded
      <3> QED BY <3>1, <3>2, <3>3
    <2>3. CASE useReply(g)
      BY <1>4, <2>3 DEF Delivers, GivesUp
    <2>4. CASE clunkReply(g) \/ fidReply(g)
      BY <1>4, <2>4 DEF Fails
    <2> QED BY <2>1, <2>2, <2>3, <2>4 DEF TakesReply
  <1> QED BY <1>1, <1>5, <1>6, <1>7, <1>8

\* The new state of a job that advances.
LEMMA AdvanceFacts ==
    ASSUME Shape, NEW g \in Procs, Advances(g)
    PROVE  /\ job'[g].op = job[g].op /\ job'[g].path = job[g].path /\ job'[g].names = job[g].names
           /\ job'[g].from = job[g].from /\ job'[g].fid = job[g].fid /\ job'[g].cur = job[g].fid
           /\ job'[g].done = job[g].done + Len(batch(g))
           /\ job'[g].done \in 0..Len(job[g].names)
           /\ pc'[g] = "walk" => job'[g].done # 0
  <1>1. job \in [Procs -> Job]
    BY DEF Shape
  <1>2. job'[g] = [job[g] EXCEPT !.done = job[g].done + Len(batch(g)), !.cur = job[g].fid]
    BY <1>1 DEF Advances, walked
  <1>3. job[g] \in Job
    BY <1>1
  <1>4. /\ job'[g].op = job[g].op /\ job'[g].path = job[g].path /\ job'[g].names = job[g].names
        /\ job'[g].from = job[g].from /\ job'[g].fid = job[g].fid /\ job'[g].cur = job[g].fid
        /\ job'[g].done = job[g].done + Len(batch(g))
    BY <1>2, <1>3 DEF Job
  <1>5. /\ job[g].done + Len(batch(g)) \in job[g].done..Len(job[g].names)
        /\ Len(batch(g)) = 0 => job[g].done = Len(job[g].names)
        /\ job[g].done \in Nat /\ Len(batch(g)) \in Nat /\ Len(job[g].names) \in Nat
    BY <1>3, BatchFacts, LenProperties DEF Shape, TypeOK, Job, Place
  <1>6. pc'[g] = "walk" => job[g].done + Len(batch(g)) < Len(job[g].names)
    BY DEF Advances
  <1>7. job[g].done + Len(batch(g)) \in 0..Len(job[g].names)
    BY <1>5
  <1>8. pc'[g] = "walk" => job[g].done + Len(batch(g)) # 0
    BY <1>5, <1>6
  <1> QED BY <1>4, <1>7, <1>8

\* Shape survives each way of taking a reply,
LEMMA ShapeReply ==
    ASSUME Shape, NEW g \in Procs, TakesReply(g)
    PROVE  Shape'
  <1>1. /\ UNCHANGED <<nextFid, reqs, table, spoiled, calls>>
        /\ pc[g] \in {"attach", "walking", "using", "clunking", "fid"} /\ reply[g] # "none"
        /\ \A h \in Procs \ {g} : pc'[h] = pc[h] /\ reply'[h] = reply[h] /\ job'[h] = job[h]
        /\ reply'[g] = "none"
        /\ pc' \in [Procs -> Labels] /\ reply' \in [Procs -> Replies] /\ job' \in [Procs -> Job]
        /\ Delivers(g) \/ Fails(g) \/ GivesUp(g) \/ Advances(g)
    BY ReplyFrame
  <1>2. job[g].fid \in Fids /\ job[g].fid \in 1..nextFid /\ job[g].path \in Place /\ job \in [Procs -> Job]
    BY <1>1, FidFacts DEF Shape, JobOK, Job
  <1>3. handle' \in [Fids -> Place \cup {None}] /\ moved' \subseteq Fids /\ root' \in 0..nextFid'
    <2>1. handle \in [Fids -> Place \cup {None}] /\ moved \subseteq Fids /\ root \in 0..nextFid
      BY DEF Shape, TypeOK
    <2>2. CASE Delivers(g)
      <3>1. root' \in {root, job[g].fid}
        BY <2>2 DEF Delivers
      <3>2. root' \in 0..nextFid'
        BY <1>1, <1>2, <2>1, <3>1
      <3>3. handle' \in [Fids -> Place \cup {None}] /\ moved' \subseteq Fids
        BY <1>2, <2>1, <2>2 DEF Delivers
      <3> QED BY <3>2, <3>3
    <2>3. CASE Fails(g) \/ GivesUp(g) \/ Advances(g)
      BY <1>1, <2>1, <2>3 DEF Fails, GivesUp, Advances
    <2> QED BY <1>1, <2>2, <2>3
  <1>4. JobOK(g)' /\ job'[g].done \in 0..Len(job'[g].names) /\ job'[g].fid \in 0..nextFid'
    <2>1. CASE Delivers(g) \/ Fails(g)
      <3>1. pc'[g] = "idle" /\ job'[g] = NoJob
        BY <2>1 DEF Delivers, Fails
      <3>2. 0 \in 0..nextFid'
        BY <1>1, FidFacts
      <3> QED BY <1>1, <3>1, <3>2, NoJobType DEF JobOK, Walking
    <2>2. CASE GivesUp(g)
      <3>1. pc'[g] = "clunk" /\ job'[g].fid = job[g].fid /\ job'[g].done = job[g].done
            /\ job'[g].names = job[g].names /\ job'[g].from = job[g].from
        BY <1>2, <2>2 DEF GivesUp, Job
      <3> QED BY <1>1, <1>2, <3>1 DEF JobOK, Walking, Shape, TypeOK
    <2>3. CASE Advances(g)
      <3>1. JobOK(g) /\ Walking(g)
        BY <2>3 DEF Shape, Advances, Walking
      <3>2. pc'[g] \in {"walk", "use"} /\ (pc'[g] = "use" => job[g].op # "Walk")
        BY <2>3 DEF Advances
      <3>3. JobOK(g)'
        BY <1>1, <1>2, <2>3, <3>1, <3>2, AdvanceFacts DEF JobOK, Walking
      <3>4. job'[g].fid \in 0..nextFid'
        BY <1>1, <1>2, <2>3, AdvanceFacts
      <3> QED BY <2>3, <3>3, <3>4, AdvanceFacts
    <2> QED BY <1>1, <2>1, <2>2, <2>3
  <1>5. /\ nextFid' = nextFid /\ nextFid' \in 0..MaxFid /\ spoiled' \subseteq Fids /\ calls' \in 0..MaxCalls
        /\ \A r \in reqs' : r \in Request
    BY <1>1 DEF Shape, TypeOK
  <1> QED BY <1>1, <1>3, <1>4, <1>5, ShapeFrame

\* A call that fails by itself and spoils its fid: cancel leaves its request behind
\* or takes it back, and registerFails takes back a Tclunk or a Tremove.
Withdraws(g) ==
    /\ pc[g] \in {"attach", "walking", "using", "clunking", "fid"}
    /\ reply[g] = "none"
    /\ \E r \in reqs :
          /\ r.by = g
          /\ \/ reqs' = (reqs \ {r}) \cup {[r EXCEPT !.by = None]}
             \/ r.base = None /\ reqs' = reqs \ {r}
    /\ reply' = [reply EXCEPT ![g] = "error"]
    /\ spoiled' = spoiled \cup {job[g].fid}
    /\ UNCHANGED <<nextFid, root, handle, pc, job, table, moved, calls>>

LEMMA CancelFrame ==
    ASSUME Shape, NEW g \in Procs, Withdraws(g)
    PROVE  /\ UNCHANGED <<nextFid, root, handle, pc, job, table, moved, calls>>
           /\ pc[g] \in {"attach", "walking", "using", "clunking", "fid"} /\ reply[g] = "none"
           /\ reply' \in [Procs -> Replies] /\ reply'[g] = "error"
           /\ \A h \in Procs \ {g} : reply'[h] = reply[h]
           /\ spoiled' = spoiled \cup {job[g].fid} /\ job[g].fid \in Fids
           /\ \E r \in reqs :
                 /\ r.by = g
                 /\ \A q \in reqs' : q \in reqs \ {r} \/ q = [r EXCEPT !.by = None]
  <1>1. reply \in [Procs -> Replies]
    BY DEF Shape, TypeOK, Replies
  <1>2. pc[g] \in {"attach", "walking", "using", "clunking", "fid"}
    BY DEF Withdraws
  <1> QED BY <1>1, <1>2, FidFacts DEF Withdraws, Replies

\* Such a request differs from what it was in who waits for it.
LEMMA OrphanFacts ==
    ASSUME NEW r \in Request, NEW q, q = [r EXCEPT !.by = None]
    PROVE  /\ q \in Request /\ q.by = None /\ q.type = r.type /\ q.fid = r.fid
           /\ q.newfid = r.newfid /\ q.names = r.names /\ q.base = r.base /\ Changes(q) = Changes(r)
  BY DEF Request, Changes

\* a cancellation,
LEMMA ShapeCancel ==
    ASSUME Shape, NEW g \in Procs, Withdraws(g)
    PROVE  Shape'
  <1>1. /\ UNCHANGED <<nextFid, root, handle, pc, job, table, moved, calls>>
        /\ pc[g] \in {"attach", "walking", "using", "clunking", "fid"}
        /\ reply' \in [Procs -> Replies]
        /\ \A h \in Procs \ {g} : reply'[h] = reply[h]
        /\ spoiled' = spoiled \cup {job[g].fid} /\ job[g].fid \in Fids
    BY CancelFrame
  <1>2. \A q \in reqs' : q \in Request
    <2>1. PICK r \in reqs : \A q \in reqs' : q \in reqs \ {r} \/ q = [r EXCEPT !.by = None]
      BY CancelFrame
    <2>2. \A q \in reqs : q \in Request
      BY DEF Shape, TypeOK
    <2> QED BY <2>1, <2>2, OrphanFacts
  <1>3. JobOK(g)'
    BY <1>1 DEF Shape, JobOK, Walking
  <1>4. /\ pc' \in [Procs -> Labels] /\ job' \in [Procs -> Job] /\ spoiled' \subseteq Fids
        /\ \A h \in Procs \ {g} : pc'[h] = pc[h] /\ reply'[h] = reply[h] /\ job'[h] = job[h]
    BY <1>1 DEF Shape, TypeOK, Labels
  <1>5. job'[g].done \in 0..Len(job'[g].names) /\ job'[g].fid \in 0..nextFid'
    BY <1>1 DEF Shape, TypeOK
  <1>6. /\ nextFid' = nextFid /\ nextFid' \in 0..MaxFid /\ root' \in 0..nextFid'
        /\ table' = table /\ handle' \in [Fids -> Place \cup {None}]
        /\ moved' \subseteq Fids /\ calls' \in 0..MaxCalls
    BY <1>1 DEF Shape, TypeOK
  <1> QED BY <1>1, <1>2, <1>3, <1>4, <1>5, <1>6, ShapeFrame

\* What the handler of r does to the entry it may change: the entry becomes v, and
\* the outcome is res.
Effect(r, res, v) ==
    LET old == table[Changes(r)]
    IN  \/ r.type = "Tattach" /\ res = "ok" /\ v = <<>>
        \/ /\ r.type = "Twalk" /\ r.base # None
           /\ \E n \in 0..Len(r.names) :
                 /\ v = r.base \o SubSeq(r.names, 1, n)
                 /\ res = IF n = Len(r.names) THEN "ok" ELSE "short"
        \/ r.type = "Topen" /\ old # None /\ res = "ok" /\ v = old
        \/ r.type = "Tcreate" /\ old # None /\ res = "ok" /\ v = old \o r.names
        \/ r.type \in {"Tattach", "Twalk", "Topen", "Tcreate"} /\ res = "error" /\ v = old
        \/ r.type \in {"Tclunk", "Tremove"} /\ res \in {"ok", "error"} /\ v = None

Answers(r) ==
    /\ UNCHANGED <<nextFid, root, handle, pc, job, moved, spoiled, calls>>
    /\ reqs' = reqs \ {r}
    /\ \E res \in {"ok", "short", "error"}, v \in Place \cup {None} :
          /\ Effect(r, res, v)
          /\ reply' = IF r.by = None THEN reply ELSE [reply EXCEPT ![r.by] = res]
          /\ table' = [table EXCEPT ![Changes(r)] = v]

\* The requests at the server, and the entries they may change.
LEMMA RequestFacts ==
    ASSUME Shape, Matched, NEW r \in reqs
    PROVE  /\ r \in Request /\ Changes(r) \in Fids /\ r.names \in Place
           /\ r.base \in Place \cup {None} /\ r.fid \in Fids
           /\ r.by # None => r.by \in Procs
  <1>1. r \in Request
    BY DEF Shape, TypeOK
  <1>2. Changes(r) \in 1..nextFid /\ nextFid \in 0..MaxFid
    BY DEF Matched, Shape, TypeOK
  <1>3. Changes(r) \in Fids
    BY <1>2, Numbers DEF Fids
  <1> QED BY <1>1, <1>3 DEF Request, Place

\* A step of the server is a lookup or the end of a handler.
LEMMA ServerFrame ==
    ASSUME Shape, Matched, NEW r \in reqs, Server(r)
    PROVE  tWalkFinds(r) \/ Answers(r)
  <1>1. /\ r \in Request /\ Changes(r) \in Fids /\ r.names \in Place
        /\ r.base \in Place \cup {None} /\ r.fid \in Fids
    BY RequestFacts
  <1>2. table \in [Fids -> Place \cup {None}]
    BY DEF Shape
  <1>3. table = [table EXCEPT ![Changes(r)] = table[Changes(r)]] /\ table[Changes(r)] \in Place \cup {None}
    BY <1>1, <1>2
  <1>4. CASE tAttach(r)
    <2>1. CASE answer(r, "ok") /\ table' = [table EXCEPT ![r.fid] = <<>>]
      <3>1. Effect(r, "ok", <<>>) /\ Changes(r) = r.fid
        BY <1>4 DEF tAttach, Effect, Changes
      <3> QED BY <2>1, <3>1, PlaceFacts DEF answer, Answers
    <2>2. CASE answer(r, "error") /\ UNCHANGED table
      <3>1. Effect(r, "error", table[Changes(r)])
        BY <1>4 DEF tAttach, Effect
      <3> QED BY <1>3, <2>2, <3>1 DEF answer, Answers
    <2> QED BY <1>4, <2>1, <2>2 DEF tAttach
  <1>5. CASE tWalkFails(r)
    <2>1. Effect(r, "error", table[Changes(r)])
      BY <1>5 DEF tWalkFails, Effect
    <2> QED BY <1>3, <1>5, <2>1 DEF tWalkFails, answer, Answers
  <1>6. ASSUME NEW n \in 0..Len(r.names), tWalkPuts(r, n) PROVE Answers(r)
    <2> DEFINE res == IF n = Len(r.names) THEN "ok" ELSE "short"
               v == r.base \o SubSeq(r.names, 1, n)
    <2>1. Effect(r, res, v) /\ Changes(r) = r.newfid /\ res \in {"ok", "short", "error"}
      BY <1>6 DEF tWalkPuts, Effect, Changes
    <2>2. v \in Place
      <3>1. Len(r.names) \in Nat /\ \A i \in 1..n : r.names[i] \in Names
        BY <1>1, LenProperties, ElementOfSeq DEF Place
      <3>2. SubSeq(r.names, 1, n) \in Place
        BY <3>1, SubSeqProperties DEF Place
      <3>3. r.base \in Place
        BY <1>1, <1>6 DEF tWalkPuts
      <3> QED BY <3>2, <3>3, ConcatProperties DEF Place
    <2>3. answer(r, res) /\ table' = [table EXCEPT ![Changes(r)] = v]
      BY <1>6, <2>1 DEF tWalkPuts
    <2> HIDE DEF res, v
    <2> QED BY <2>1, <2>2, <2>3 DEF answer, Answers
  <1>7. CASE tUse(r)
    <2>0. Changes(r) = r.fid
      BY <1>7 DEF tUse, Changes
    <2>1. CASE answer(r, "error") /\ UNCHANGED table
      <3>1. Effect(r, "error", table[Changes(r)])
        BY <1>7 DEF tUse, Effect
      <3> QED BY <1>3, <2>1, <3>1 DEF answer, Answers
    <2>2. CASE table[r.fid] # None /\ answer(r, "ok") /\ r.type = "Topen" /\ UNCHANGED table
      <3>1. Effect(r, "ok", table[Changes(r)])
        BY <2>0, <2>2 DEF Effect
      <3> QED BY <1>3, <2>2, <3>1 DEF answer, Answers
    <2>3. CASE /\ table[r.fid] # None /\ answer(r, "ok") /\ r.type = "Tcreate"
               /\ table' = [table EXCEPT ![r.fid] = @ \o r.names]
      <3>1. Effect(r, "ok", table[r.fid] \o r.names)
        BY <2>0, <2>3 DEF Effect
      <3>2. table[r.fid] \o r.names \in Place
        BY <1>1, <1>2, <2>3, ConcatProperties DEF Place
      <3>3. table' = [table EXCEPT ![r.fid] = table[r.fid] \o r.names]
        BY <2>3
      <3> QED BY <2>0, <2>3, <3>1, <3>2, <3>3 DEF answer, Answers
    <2> QED BY <1>7, <2>1, <2>2, <2>3 DEF tUse
  <1>8. CASE tClunkRemove(r)
    <2>1. Effect(r, "ok", None) /\ Effect(r, "error", None) /\ Changes(r) = r.fid
      BY <1>8 DEF tClunkRemove, Effect, Changes
    <2> QED BY <1>8, <2>1 DEF tClunkRemove, answer, Answers
  <1> QED BY <1>4, <1>5, <1>6, <1>7, <1>8 DEF Server

\* A request whose fid has been looked up differs in its base.
LEMMA FoundFacts ==
    ASSUME NEW r \in Request, NEW p \in Place, NEW q, q = [r EXCEPT !.base = p]
    PROVE  /\ q \in Request /\ q.base = p /\ q.type = r.type /\ q.fid = r.fid
           /\ q.newfid = r.newfid /\ q.names = r.names /\ q.by = r.by /\ Changes(q) = Changes(r)
  BY DEF Request, Changes

\* and what the server does.
LEMMA ShapeServer ==
    ASSUME Shape, Matched, NEW r \in reqs, tWalkFinds(r) \/ Answers(r)
    PROVE  Shape'
  <1>1. /\ r \in Request /\ Changes(r) \in Fids /\ r.fid \in Fids /\ Changes(r) <= nextFid
        /\ r.by # None => r.by \in Procs
    BY RequestFacts, FidFacts DEF Matched
  <1>2. UNCHANGED <<nextFid, root, handle, pc, job, moved, spoiled, calls>>
    BY DEF tWalkFinds, Answers
  <1>3. \A q \in reqs' : q \in Request
    <2>1. \A q \in reqs : q \in Request
      BY DEF Shape, TypeOK
    <2>2. CASE tWalkFinds(r)
      <3>1. table[r.fid] \in Place
        BY <1>1, <2>2 DEF tWalkFinds, Shape
      <3> QED BY <1>1, <2>1, <2>2, <3>1, FoundFacts DEF tWalkFinds
    <2>3. CASE Answers(r)
      BY <2>1, <2>3 DEF Answers
    <2> QED BY <2>2, <2>3
  <1>4. /\ table' \in [Fids -> Place \cup {None}]
        /\ \A f \in Fids : table'[f] # None => f <= nextFid'
    BY <1>1, <1>2 DEF tWalkFinds, Answers, Shape, TypeOK
  <1>5. reply' \in [Procs -> Replies] /\ \A g \in Procs : reply'[g] = reply[g] \/ r.by = g
    BY <1>1, ZenonT(60) DEF tWalkFinds, Answers, Shape, TypeOK, Replies
  <1>6. ASSUME NEW g \in Procs PROVE JobOK(g)'
    <2>1. reply'[g] = reply[g] \/ pc[g] \notin {"idle", "walk", "use", "clunk"}
      BY <1>1, <1>5, NoneAssumption DEF Matched, Matches
    <2> QED BY <1>2, <2>1 DEF Shape, JobOK, Walking
  <1>7. TypeOK'
    BY <1>2, <1>3, <1>4, <1>5 DEF Shape, TypeOK, Replies
  <1> QED BY <1>2, <1>4, <1>6, <1>7 DEF Shape

-----------------------------------------------------------------------------
(***************************************************************************)
(* What the other steps of a goroutine change.                             *)
(***************************************************************************)

\* The calls of everybody but g stay as they are.
Others(g) == \A h \in Procs \ {g} : pc'[h] = pc[h] /\ reply'[h] = reply[h] /\ job'[h] = job[h]

\* g begins to establish a new fid.
Begins(g) ==
    /\ Others(g) /\ UNCHANGED <<reply, root, handle, table, moved, spoiled>>
    /\ pc[g] = "idle" /\ nextFid' = nextFid + 1 /\ job'[g].fid = nextFid + 1
    /\ \/ /\ pc'[g] = "attach" /\ job'[g].from = 0
          /\ reqs' = reqs \cup {[type |-> "Tattach", fid |-> nextFid + 1, newfid |-> 0,
                                 names |-> <<>>, base |-> None, by |-> g]}
       \/ /\ pc'[g] = "walk" /\ reqs' = reqs /\ job'[g].done = 0
          /\ Start(job'[g].from) /\ job'[g].from \in 1..nextFid

\* g begins to release Fid f, or to create through it.
UsesFid(g, f) ==
    /\ Others(g) /\ UNCHANGED <<nextFid, reply, root, table, spoiled>>
    /\ pc[g] = "idle" /\ pc'[g] = "fid" /\ handle[f] # None
    /\ job'[g].fid = f /\ job'[g].from = 0 /\ job'[g].op \in {"Tclunk", "Tremove", "Tcreate"}
    /\ \E names \in Place :
          reqs' = reqs \cup {[type |-> job'[g].op, fid |-> f, newfid |-> 0,
                              names |-> names, base |-> None, by |-> g]}
    /\ \/ /\ job'[g].op # "Tcreate" /\ moved' = moved
          /\ handle' = [handle EXCEPT ![f] = None]
       \/ /\ job'[g].op = "Tcreate" /\ handle' = handle
          /\ moved' = moved \cup {f} \cup {job[h].fid : h \in {x \in Procs : job[x].from = f}}

\* g sends a request that is part of its call.
Sends(g, q) ==
    /\ UNCHANGED <<nextFid, root, handle, job, reply, table, moved, spoiled>>
    /\ \A h \in Procs \ {g} : pc'[h] = pc[h]
    /\ reqs' = reqs \cup {q} /\ q \in Request /\ q.by = g /\ q.base = None
    /\ \/ /\ pc[g] = "walk" /\ pc'[g] = "walking" /\ q.type = "Twalk"
          /\ q.fid = job[g].cur /\ q.newfid = job[g].fid /\ q.names = batch(g)
       \/ /\ pc[g] = "use" /\ pc'[g] = "using" /\ q.fid = job[g].fid
          /\ \/ job[g].op = "Open" /\ q.type = "Topen"
             \/ /\ job[g].op # "Open" /\ q.type = "Tcreate"
                /\ q.names = <<job[g].path[Len(job[g].path)]>>
       \/ /\ pc[g] = "clunk" /\ pc'[g] = "clunking" /\ q.fid = job[g].fid /\ q.type = "Tclunk"

\* A fid in the hands of a program, or the root, has been allocated.
LEMMA StartFacts ==
    ASSUME Shape, Own, NEW f \in Fids, Start(f)
    PROVE  f \in 1..nextFid
  <1>1. nextFid \in Nat /\ f \in Nat /\ f >= 1 /\ root \in 0..nextFid
    BY FidFacts DEF Shape, TypeOK, Fids
  <1>2. CASE f = root
    BY <1>1, <1>2
  <1>3. CASE handle[f] = <<>>
    BY <1>1, <1>3, PlaceFacts DEF Own
  <1>4. ASSUME NEW g \in Procs, Walking(g), job[g].from = f PROVE f \in 1..nextFid
    BY <1>4 DEF Shape, JobOK
  <1> QED BY <1>2, <1>3, <1>4 DEF Start

\* Attach takes a new fid.
LEMMA AttachBegins ==
    ASSUME Shape, NEW g \in Procs, Attach(g)
    PROVE  Shape' /\ Begins(g)
  <1>1. /\ nextFid' = nextFid + 1 /\ pc[g] = "idle" /\ reply' = reply /\ root' = root
        /\ table' = table /\ handle' = handle /\ moved' = moved /\ spoiled' = spoiled
        /\ pc' = [pc EXCEPT ![g] = "attach"]
        /\ job' = [job EXCEPT ![g] = [NoJob EXCEPT !.op = "Attach", !.fid = nextFid + 1]]
        /\ reqs' = reqs \cup {[type |-> "Tattach", fid |-> nextFid + 1, newfid |-> 0, names |-> <<>>,
                               base |-> None, by |-> g]}
    BY DEF Attach, allocFid, begin, rpc
  <1>2. job \in [Procs -> Job] /\ pc \in [Procs -> Labels]
    BY DEF Shape, TypeOK, Labels
  <1>3. job'[g].fid = nextFid + 1 /\ job'[g].from = 0
    <2>1. job'[g] = [NoJob EXCEPT !.op = "Attach", !.fid = nextFid + 1]
      BY <1>1, <1>2
    <2> QED BY <2>1 DEF NoJob
  <1>4. Others(g) /\ pc'[g] = "attach"
    BY <1>1, <1>2 DEF Others
  <1> QED BY <1>1, <1>3, <1>4, ShapeAttach DEF Begins

\* So do Walk, Open, Create and Symlink, and start from a fid that exists.
LEMMA WalkBegins ==
    ASSUME Shape, Own, NEW g \in Procs,
           \/ \E f \in Fids, p \in Paths \cup {<<>>} : Walk(g, f, p)
           \/ \E p \in Paths : OpenPath(g, p) \/ \E op \in {"Create", "Symlink"} : CreatePath(g, op, p)
    PROVE  Shape' /\ Begins(g)
  <1>1. PICK op \in {"Walk", "Open", "Create", "Symlink"}, f \in Fids, names \in Place, path \in Place :
          /\ op \in {"Walk", "Open"} => names = path
          /\ op \in {"Create", "Symlink"} =>
                path # <<>> /\ names = SubSeq(path, 1, Len(path) - 1)
          /\ Start(f) /\ walkBegins(g, op, f, names, path)
    <2>1. Paths \subseteq Place /\ <<>> \in Place /\ <<>> \notin Paths
      BY PathsAssumption, PlaceFacts DEF Place
    <2>2. root # 0 => root \in Fids /\ Start(root)
      <3>1. root \in 0..nextFid /\ nextFid \in 0..MaxFid
        BY DEF Shape, TypeOK
      <3> QED BY <3>1, Numbers DEF Start, Fids
    <2>3. ASSUME NEW f \in Fids, NEW p \in Paths \cup {<<>>}, Walk(g, f, p)
          PROVE  p \in Place /\ Start(f) /\ walkBegins(g, "Walk", f, p, p)
      BY <2>1, <2>3 DEF Walk, Start
    <2>4. ASSUME NEW p \in Paths, OpenPath(g, p)
          PROVE  p \in Place /\ root \in Fids /\ Start(root) /\ walkBegins(g, "Open", root, p, p)
      BY <2>1, <2>2, <2>4 DEF OpenPath
    <2>5. ASSUME NEW p \in Paths, NEW op \in {"Create", "Symlink"}, CreatePath(g, op, p)
          PROVE  /\ p \in Place /\ p # <<>> /\ SubSeq(p, 1, Len(p) - 1) \in Place /\ root \in Fids /\ Start(root)
                 /\ walkBegins(g, op, root, SubSeq(p, 1, Len(p) - 1), p)
      BY <2>1, <2>2, <2>5, PathFacts DEF CreatePath
    <2>6. CASE \E f \in Fids, p \in Paths \cup {<<>>} : Walk(g, f, p)
      BY <2>3, <2>6
    <2>7. CASE \E p \in Paths : OpenPath(g, p)
      BY <2>4, <2>7
    <2>8. CASE \E p \in Paths : \E op \in {"Create", "Symlink"} : CreatePath(g, op, p)
      BY <2>5, <2>8
    <2> QED BY <2>6, <2>7, <2>8
  <1>2. f \in 1..nextFid
    BY <1>1, StartFacts
  <1>3. Shape'
    BY <1>1, <1>2, ShapeWalkBegins
  <1>4. /\ nextFid' = nextFid + 1 /\ pc[g] = "idle" /\ reply' = reply /\ root' = root
        /\ table' = table /\ handle' = handle /\ moved' = moved /\ spoiled' = spoiled /\ reqs' = reqs
        /\ pc' = [pc EXCEPT ![g] = "walk"]
        /\ job' = [job EXCEPT ![g] = WalkJob(op, path, names, f, nextFid + 1)]
    BY <1>1 DEF walkBegins, allocFid, begin, WalkJob
  <1>5. job \in [Procs -> Job] /\ pc \in [Procs -> Labels]
    BY DEF Shape, TypeOK, Labels
  <1>6. job'[g].fid = nextFid + 1 /\ job'[g].from = f /\ job'[g].done = 0
    <2>1. job'[g] = WalkJob(op, path, names, f, nextFid + 1)
      BY <1>4, <1>5
    <2> QED BY <2>1 DEF WalkJob, NoJob
  <1>7. Others(g) /\ pc'[g] = "walk"
    BY <1>4, <1>5 DEF Others
  <1> QED BY <1>1, <1>2, <1>3, <1>4, <1>6, <1>7 DEF Begins

\* Clunk, Remove and Create of a Fid work on a handle.
LEMMA FidBegins ==
    ASSUME Shape, Own, NEW g \in Procs, NEW f \in Fids,
           \/ \E type \in {"Tclunk", "Tremove"} : FidRelease(g, f, type)
           \/ \E name \in Names : FidCreate(g, f, name)
    PROVE  Shape' /\ UsesFid(g, f)
  <1>1. PICK type \in {"Tclunk", "Tremove", "Tcreate"}, names \in Place :
          /\ pc[g] = "idle" /\ pc' = [pc EXCEPT ![g] = "fid"] /\ reply' = reply
          /\ job' = [job EXCEPT ![g] = [NoJob EXCEPT !.op = type, !.fid = f]]
          /\ nextFid' = nextFid /\ root' = root /\ table' = table /\ spoiled' = spoiled
          /\ handle[f] # None
          /\ reqs' = reqs \cup {[type |-> type, fid |-> f, newfid |-> 0, names |-> names,
                                 base |-> None, by |-> g]}
          /\ \/ type # "Tcreate" /\ moved' = moved /\ handle' = [handle EXCEPT ![f] = None]
             \/ /\ type = "Tcreate" /\ handle' = handle
                /\ moved' = moved \cup {f} \cup {job[h].fid : h \in {x \in Procs : job[x].from = f}}
    <2>1. \A name \in Names : <<name>> \in Place
      BY DEF Place
    <2>2. CASE \E name \in Names : FidCreate(g, f, name)
      BY <2>1, <2>2 DEF FidCreate, begin, rpc
    <2>3. CASE \E type \in {"Tclunk", "Tremove"} : FidRelease(g, f, type)
      BY <2>3, PlaceFacts DEF FidRelease, begin, rpc
    <2> QED BY <2>2, <2>3
  <1>2. job \in [Procs -> Job] /\ pc \in [Procs -> Labels]
    BY DEF Shape, TypeOK, Labels
  <1>3. job'[g].fid = f /\ job'[g].from = 0 /\ job'[g].op = type
    <2>1. job'[g] = [NoJob EXCEPT !.op = type, !.fid = f]
      BY <1>1, <1>2
    <2> QED BY <2>1 DEF NoJob
  <1>4. Others(g) /\ pc'[g] = "fid"
    BY <1>1, <1>2 DEF Others
  <1> QED BY <1>1, <1>3, <1>4, ShapeFid DEF UsesFid

\* The later rpcs of a call are sent for the fid it establishes.
LEMMA SendFrame ==
    ASSUME Shape, NEW g \in Procs, walkBatch(g) \/ use(g) \/ clunk(g)
    PROVE  Shape' /\ \E q : Sends(g, q)
  <1>1. Shape'
    BY ShapeSend
  <1>2. PICK q : reqs' = reqs \cup {q}
                 /\ \/ walkBatch(g) /\ q = [type |-> "Twalk", fid |-> job[g].cur, newfid |-> job[g].fid,
                                            names |-> batch(g), base |-> None, by |-> g]
                    \/ use(g) /\ job[g].op = "Open"
                         /\ q = [type |-> "Topen", fid |-> job[g].fid, newfid |-> 0,
                                 names |-> <<>>, base |-> None, by |-> g]
                    \/ use(g) /\ job[g].op # "Open"
                         /\ q = [type |-> "Tcreate", fid |-> job[g].fid, newfid |-> 0,
                                 names |-> <<job[g].path[Len(job[g].path)]>>, base |-> None, by |-> g]
                    \/ clunk(g) /\ q = [type |-> "Tclunk", fid |-> job[g].fid, newfid |-> 0,
                                        names |-> <<>>, base |-> None, by |-> g]
    BY DEF walkBatch, use, clunk, rpc
  <1>3. q \in Request
    BY <1>1, <1>2 DEF Shape, TypeOK
  <1>4. pc \in [Procs -> Labels]
    BY DEF Shape, TypeOK, Labels
  <1>5. /\ UNCHANGED <<nextFid, root, handle, job, reply, table, moved, spoiled>>
        /\ \A h \in Procs \ {g} : pc'[h] = pc[h]
    BY <1>4 DEF walkBatch, use, clunk, rpc
  <1>6. /\ walkBatch(g) => pc[g] = "walk" /\ pc'[g] = "walking"
        /\ use(g) => pc[g] = "use" /\ pc'[g] = "using"
        /\ clunk(g) => pc[g] = "clunk" /\ pc'[g] = "clunking"
    BY <1>4 DEF walkBatch, use, clunk, rpc
  <1>7. Sends(g, q)
    BY <1>2, <1>3, <1>5, <1>6 DEF Sends
  <1> QED BY <1>1, <1>7

-----------------------------------------------------------------------------
(***************************************************************************)
(* Requests and who waits for them.                                        *)
(***************************************************************************)

\* A goroutine that does not wait has no request at the server.
LEMMA NoRequest ==
    ASSUME Matched, NEW g \in Procs,
           pc[g] \in {"idle", "walk", "use", "clunk"} \/ reply[g] # "none"
    PROVE  \A r \in reqs : r.by # g
  BY PlaceFacts DEF Matched, Matches

\* A request still matches when its call has not changed.
LEMMA MatchKept ==
    ASSUME NEW h, NEW r, Matches(h, r),
           pc'[h] = pc[h], reply'[h] = reply[h], job'[h] = job[h], moved \subseteq moved'
    PROVE  Matches(h, r)'
  BY DEF Matches, Changes, Tainted, batch

\* A goroutine sends a request only when it has none at the server.
LEMMA MatchedClient ==
    ASSUME Inv, NEW g \in Procs, Shape',
           Begins(g) \/ (\E f \in Fids : UsesFid(g, f)) \/ (\E q : Sends(g, q)) \/ TakesReply(g)
    PROVE  Matched'
  <1> USE DEF Inv
  <1>1. \A r \in reqs : r \in Request /\ (r.by # None => r.by \in Procs)
    BY RequestFacts
  <1>2. Others(g) /\ moved \subseteq moved' /\ spoiled' = spoiled
    <2>1. CASE TakesReply(g)
      BY <2>1, ReplyFrame DEF Others, Delivers, Fails, GivesUp, Advances
    <2> QED BY <2>1 DEF Begins, UsesFid, Sends, Others
  <1>3. \A r \in reqs : r.by # g
    <2>1. pc[g] \in {"idle", "walk", "use", "clunk"} \/ reply[g] # "none"
      BY ReplyFrame DEF Begins, UsesFid, Sends
    <2> QED BY <2>1, NoRequest
  <1>4. \A r \in reqs : r.by # None => Matches(r.by, r)'
    BY <1>1, <1>2, <1>3, MatchKept DEF Matched, Others
  <1>5. nextFid' \in {nextFid, nextFid + 1} /\ nextFid \in Nat
    BY ReplyFrame, FidFacts DEF Begins, UsesFid, Sends
  <1>6. reqs' = reqs \/ \E q : /\ reqs' = reqs \cup {q} /\ q.by = g /\ Matches(g, q)'
                               /\ Changes(q) = job'[g].fid /\ pc'[g] # "idle"
    <2>1. CASE TakesReply(g)
      BY <2>1, ReplyFrame
    <2>2. CASE Begins(g) /\ pc'[g] = "walk"
      BY <2>2 DEF Begins
    <2>3. CASE Begins(g) /\ pc'[g] = "attach"
      <3>0. PICK q : q = [type |-> "Tattach", fid |-> nextFid + 1, newfid |-> 0,
                          names |-> <<>>, base |-> None, by |-> g]
        OBVIOUS
      <3>1. reqs' = reqs \cup {q} /\ job'[g].fid = nextFid + 1 /\ reply'[g] = "none"
        BY <2>3, <3>0 DEF Begins, Shape, JobOK
      <3>2. q.by = g /\ q.type = "Tattach" /\ q.fid = nextFid + 1
        BY <3>0
      <3>3. Changes(q) = job'[g].fid
        BY <3>1, <3>2 DEF Changes
      <3>4. Matches(g, q)'
        BY <2>3, <3>1, <3>2, <3>3 DEF Matches, Changes
      <3> QED BY <2>3, <3>1, <3>2, <3>3, <3>4
    <2>4. ASSUME NEW f \in Fids, UsesFid(g, f)
          PROVE  \E q : /\ reqs' = reqs \cup {q} /\ q.by = g /\ Matches(g, q)'
                        /\ Changes(q) = job'[g].fid /\ pc'[g] # "idle"
      <3>1. PICK names \in Place :
               reqs' = reqs \cup {[type |-> job'[g].op, fid |-> f, newfid |-> 0,
                                   names |-> names, base |-> None, by |-> g]}
        BY <2>4 DEF UsesFid
      <3>0. PICK q : q = [type |-> job'[g].op, fid |-> f, newfid |-> 0,
                          names |-> names, base |-> None, by |-> g]
        OBVIOUS
      <3>2. q.by = g /\ q.type = job'[g].op /\ q.fid = f /\ reqs' = reqs \cup {q}
        BY <3>0, <3>1
      <3>3. /\ job'[g].fid = f /\ job'[g].op \in {"Tclunk", "Tremove", "Tcreate"}
            /\ pc'[g] = "fid" /\ reply'[g] = "none"
        BY <2>4 DEF UsesFid, Shape, JobOK
      <3>4. Changes(q) = job'[g].fid
        BY <3>2, <3>3 DEF Changes
      <3>5. Matches(g, q)'
        BY <3>2, <3>3, <3>4 DEF Matches, Changes
      <3> QED BY <3>2, <3>3, <3>4, <3>5
    <2>5. ASSUME NEW q, Sends(g, q)
          PROVE  /\ reqs' = reqs \cup {q} /\ q.by = g /\ Matches(g, q)'
                 /\ Changes(q) = job'[g].fid /\ pc'[g] # "idle"
      <3>1. job' = job /\ reply' = reply /\ reply[g] = "none"
        BY <2>5 DEF Sends, Shape, JobOK
      <3>2. Changes(q) = job'[g].fid
        BY <2>5, <3>1 DEF Sends, Changes
      <3>3. Matches(g, q)'
        BY <2>5, <3>1, <3>2 DEF Matches, Changes, Sends, batch
      <3> QED BY <2>5, <3>2, <3>3 DEF Sends
    <2> QED BY <2>1, <2>2, <2>3, <2>4, <2>5 DEF Begins
  <1>7. \A r \in reqs : Changes(r) \in 1..nextFid' /\ (r.by = None => Changes(r) \in spoiled')
    BY <1>2, <1>5 DEF Matched
  <1>8. pc'[g] # "idle" => job'[g].fid \in 1..nextFid'
    BY DEF Shape, JobOK
  <1>9. g # None
    BY PlaceFacts
  <1> QED BY <1>3, <1>4, <1>6, <1>7, <1>8, <1>9 DEF Matched, Changes

\* The request that a cancelled call leaves behind.
LEMMA CancelFacts ==
    ASSUME Inv, NEW g \in Procs, Withdraws(g)
    PROVE  /\ \A q \in reqs' : \/ q \in reqs /\ q.by # g
                               \/ /\ q.by = None /\ Changes(q) = job[g].fid
                                  /\ \E r \in reqs : r.by = g /\ q.type = r.type /\ q.fid = r.fid
  <1> USE DEF Inv
  <1>1. PICK r \in reqs : /\ r.by = g
                          /\ \A q \in reqs' : q \in reqs \ {r} \/ q = [r EXCEPT !.by = None]
    BY CancelFrame
  <1>2. r \in Request /\ g # None
    BY RequestFacts, PlaceFacts
  <1>3. Changes(r) = job[g].fid
    BY <1>1, <1>2 DEF Matched, Matches
  <1>4. ASSUME NEW q, q = [r EXCEPT !.by = None]
        PROVE  q.by = None /\ Changes(q) = job[g].fid /\ q.type = r.type /\ q.fid = r.fid
    BY <1>2, <1>3, <1>4, OrphanFacts
  <1>5. \A q \in reqs \ {r} : q.by # g
    BY <1>1, <1>2 DEF Matched
  <1> QED BY <1>1, <1>4, <1>5

\* A request that is cancelled is spoiled or gone.
LEMMA MatchedCancel ==
    ASSUME Inv, NEW g \in Procs, Withdraws(g)
    PROVE  Matched'
  <1> USE DEF Inv
  <1>1. /\ UNCHANGED <<nextFid, pc, job, moved>> /\ spoiled' = spoiled \cup {job[g].fid}
        /\ \A h \in Procs \ {g} : reply'[h] = reply[h]
    BY CancelFrame
  <1>2. \A r \in reqs : r.by # None => r.by \in Procs
    BY RequestFacts
  <1>3. \A q \in reqs' : \/ q \in reqs /\ q.by # g
                         \/ q.by = None /\ Changes(q) = job[g].fid
    BY CancelFacts
  <1>4. job[g].fid \in 1..nextFid
    <2>1. pc[g] # "idle"
      BY CancelFrame
    <2> QED BY <2>1 DEF Shape, JobOK
  <1>5. \A q \in reqs' : q.by # None => Matches(q.by, q)'
    BY <1>1, <1>2, <1>3, MatchKept DEF Matched
  <1>6. \A q, r \in reqs' : q.by # None /\ q.by = r.by => q = r
    BY <1>3 DEF Matched
  <1>7. \A q \in reqs' : Changes(q) \in 1..nextFid' /\ (q.by = None => Changes(q) \in spoiled')
    BY <1>1, <1>3, <1>4 DEF Matched
  <1> QED BY <1>5, <1>6, <1>7 DEF Matched, Changes

\* Where a handler finds the fid that g walks from.
LEMMA BaseFound ==
    ASSUME Inv, NEW r \in reqs, tWalkFinds(r), r.by # None
    PROVE  LET g == r.by
           IN  /\ pc[g] = "walking"
               /\ Tainted(g) \/ table[r.fid] = SubSeq(job[g].names, 1, job[g].done)
  <1> USE DEF Inv
  <1> DEFINE g == r.by
  <1>1. g \in Procs /\ Matches(g, r) /\ r.type = "Twalk" /\ table[r.fid] # None
    BY RequestFacts DEF Matched, tWalkFinds
  <1>2. pc[g] = "walking" /\ r.fid = job[g].cur /\ Walking(g) /\ reply[g] = "none"
    <2>1. pc[g] = "fid" => job[g].op # "Twalk"
      BY <1>1 DEF Shape, JobOK
    <2> QED BY <1>1, <2>1 DEF Matches, Walking
  <1>3. job[g].cur = IF job[g].done = 0 THEN job[g].from ELSE job[g].fid
    BY <1>1, <1>2 DEF Shape, JobOK
  <1>4. job[g].names \in Place /\ job[g].done \in Nat /\ job[g].from \in Fids
    BY <1>1, <1>2, FidFacts DEF Shape, Job
  <1>5. CASE job[g].done = 0 /\ ~Tainted(g)
    <2>1. Start(job[g].from) /\ job[g].from \in Fids \ moved
      BY <1>1, <1>2, <1>4, <1>5 DEF Start, Tainted
    <2>2. table[job[g].from] = <<>>
      BY <1>1, <1>2, <1>3, <1>5, <2>1 DEF Rooted
    <2>3. SubSeq(job[g].names, 1, 0) = <<>>
      BY <1>4, PathFacts
    <2> QED BY <1>2, <1>3, <1>5, <2>2, <2>3
  <1>6. CASE job[g].done # 0
    <2>1. job[g].done > 0
      BY <1>4, <1>6
    <2>2. At(g, SubSeq(job[g].names, 1, job[g].done))
      BY <1>1, <1>2, <2>1 DEF Placed, PlacedAt
    <2> QED BY <1>2, <1>3, <1>6, <2>2 DEF At
  <1> QED BY <1>2, <1>5, <1>6

\* The server answers a request once.
LEMMA MatchedServer ==
    ASSUME Inv, NEW r \in reqs, tWalkFinds(r) \/ Answers(r)
    PROVE  Matched'
  <1> USE DEF Inv
  <1>1. UNCHANGED <<nextFid, pc, job, moved, spoiled>>
    BY DEF tWalkFinds, Answers
  <1>2. \A q \in reqs : q \in Request /\ q.fid \in Fids /\ (q.by # None => q.by \in Procs)
    BY RequestFacts
  <1>3. CASE tWalkFinds(r)
    <2>1. PICK s : s = [r EXCEPT !.base = table[r.fid]] /\ reqs' = (reqs \ {r}) \cup {s} /\ reply' = reply
      BY <1>3 DEF tWalkFinds
    <2>2. table[r.fid] \in Place
      BY <1>2, <1>3 DEF tWalkFinds, Shape
    <2>3. /\ s.base = table[r.fid] /\ s.type = r.type /\ s.fid = r.fid /\ s.names = r.names
          /\ s.by = r.by /\ Changes(s) = Changes(r)
      BY <1>2, <2>1, <2>2, FoundFacts
    <2>4. ASSUME s.by # None PROVE Matches(s.by, s)'
      <3>1. Matches(r.by, r) /\ r.type = "Twalk"
        BY <1>3, <2>3, <2>4 DEF Matched, tWalkFinds
      <3>2. pc[r.by] = "walking" /\ (Tainted(r.by) \/ s.base = SubSeq(job[r.by].names, 1, job[r.by].done))
        BY <1>3, <2>3, <2>4, BaseFound
      <3> QED BY <1>1, <2>1, <2>3, <3>1, <3>2 DEF Matches, Changes, Tainted, batch
    <2>5. \A q \in reqs : q.by # None => Matches(q.by, q)'
      BY <1>1, <1>2, <2>1, MatchKept DEF Matched
    <2>6. \A q, t \in reqs' : q.by # None /\ q.by = t.by => q = t
      <3>1. \A q, t \in reqs : q.by # None /\ q.by = t.by => q = t
        BY DEF Matched
      <3>2. \A t \in reqs' : t = s \/ (t \in reqs /\ t # r)
        BY <2>1
      <3> QED BY <2>3, <3>1, <3>2
    <2>7. \A q \in reqs' : Changes(q) \in 1..nextFid /\ (q.by = None => Changes(q) \in spoiled)
      BY <2>1, <2>3 DEF Matched
    <2>8. \A q \in reqs' : q.by # None => Matches(q.by, q)'
      BY <2>1, <2>4, <2>5
    <2> QED BY <1>1, <2>6, <2>7, <2>8 DEF Matched, Changes
  <1>4. CASE Answers(r)
    <2>1. reqs' = reqs \ {r}
      BY <1>4 DEF Answers
    <2>2. ASSUME NEW q \in reqs', q.by # None PROVE Matches(q.by, q)'
      <3>1. q \in reqs /\ q.by \in Procs /\ q.by # r.by
        BY <1>2, <2>1, <2>2 DEF Matched
      <3>2. reply'[q.by] = reply[q.by]
        BY <1>2, <1>4, <3>1 DEF Answers, Shape, TypeOK
      <3> QED BY <1>1, <2>2, <3>1, <3>2, MatchKept DEF Matched
    <2> QED BY <1>1, <2>1, <2>2 DEF Matched, Changes
  <1> QED BY <1>3, <1>4

-----------------------------------------------------------------------------
(***************************************************************************)
(* Whose a fid is.                                                         *)
(***************************************************************************)

\* The fids of jobs have been allocated.
LEMMA JobFids ==
    ASSUME Shape
    PROVE  /\ nextFid \in Nat /\ root \in 0..nextFid
           /\ \A h \in Procs : job[h].fid \in 0..nextFid /\ job[h].from \in 0..nextFid
           /\ \A h \in Procs : pc[h] # "idle" => job[h].fid \in 1..nextFid /\ job[h].fid \in Fids
           /\ \A h \in Procs : pc[h] = "idle" => job[h].fid = 0 /\ job[h].from = 0
  <1>1. \A h \in Procs : pc[h] = "idle" => job[h].fid = 0 /\ job[h].from = 0
    BY NoJobType DEF Shape, JobOK
  <1>2. nextFid \in Nat /\ root \in 0..nextFid
    BY FidFacts DEF Shape, TypeOK
  <1>3. \A h \in Procs : job[h].fid \in 0..nextFid /\ job[h].from \in 0..nextFid
    BY DEF Shape, TypeOK, JobOK
  <1>4. \A h \in Procs : pc[h] # "idle" => job[h].fid \in 1..nextFid
    BY DEF Shape, JobOK
  <1> QED BY <1>1, <1>2, <1>3, <1>4, FidFacts

\* The fid a call begins with was not given out before.
LEMMA OwnBegins ==
    ASSUME Inv, NEW g \in Procs, Begins(g), nextFid + 1 \in Fids
    PROVE  Own'
  <1> USE DEF Inv
  <1> DEFINE new == nextFid + 1
  <1>1. nextFid \in Nat /\ root \in 0..nextFid /\ root # new /\ handle[new] = None
    BY JobFids DEF Own, Fids
  <1>2. \A h \in Procs : job[h].fid # new /\ job[h].from # new
    <2>1. \A h \in Procs : job[h].fid \in 0..nextFid /\ job[h].from \in 0..nextFid
      BY JobFids
    <2> QED BY <1>1, <2>1
  <1>3. Creating(g)' /\ job'[g].fid = new /\ job'[g].from # new
    BY <1>1 DEF Begins, Creating
  <1>4. \A h \in Procs \ {g} : Creating(h)' <=> Creating(h)
    BY DEF Begins, Others, Creating
  <1>5. \A h \in Procs \ {g} : Creating(h) => job'[g].from # job[h].fid
    <2>1. CASE job'[g].from = 0
      BY <2>1, JobFids DEF Creating
    <2>2. CASE Start(job'[g].from)
      BY <2>2, PlaceFacts DEF Start, Own
    <2> QED BY <2>1, <2>2 DEF Begins
  <1> HIDE DEF new
  <1>6. \A f \in Fids : handle'[f] # None => f <= nextFid'
    BY <1>1 DEF Own, Begins, Fids
  <1>7. ASSUME NEW h \in Procs \ {g}, Creating(h)
        PROVE  /\ handle'[job'[h].fid] = None /\ root' # job'[h].fid
               /\ \A k \in Procs : job'[k].from # job'[h].fid /\ (k # h => job'[k].fid # job'[h].fid)
    BY <1>2, <1>3, <1>5, <1>7 DEF Own, Begins, Others
  <1>8. /\ handle'[job'[g].fid] = None /\ root' # job'[g].fid
        /\ \A k \in Procs : job'[k].from # job'[g].fid /\ (k # g => job'[k].fid # job'[g].fid)
    BY <1>1, <1>2, <1>3 DEF Begins, Others, new
  <1> QED BY <1>4, <1>6, <1>7, <1>8 DEF Own

\* A handle is nobody's fid that is being established.
LEMMA OwnUses ==
    ASSUME Inv, NEW g \in Procs, NEW f \in Fids, UsesFid(g, f)
    PROVE  Own'
  <1> USE DEF Inv
  <1>1. /\ Others(g) /\ nextFid' = nextFid /\ root' = root /\ handle[f] # None
        /\ job'[g].fid = f /\ job'[g].from = 0 /\ pc'[g] = "fid"
        /\ \A x \in Fids : handle'[x] = handle[x] \/ handle'[x] = None
    BY DEF UsesFid, Shape
  <1>2. \A h \in Procs \ {g} : (Creating(h)' <=> Creating(h)) /\ (Creating(h) => job[h].fid \in Fids /\ job[h].fid # 0)
    BY <1>1, JobFids DEF Others, Creating, Fids
  <1>3. ASSUME NEW h \in Procs \ {g}, Creating(h)
        PROVE  /\ handle'[job'[h].fid] = None /\ root' # job'[h].fid
               /\ \A k \in Procs : job'[k].from # job'[h].fid /\ (k # h => job'[k].fid # job'[h].fid)
    BY <1>1, <1>2, <1>3 DEF Own, Others
  <1>4. ~Creating(g)'
    BY <1>1 DEF Creating
  <1> QED BY <1>1, <1>2, <1>3, <1>4 DEF Own

\* A call that returns its fid gives it up.
LEMMA OwnReply ==
    ASSUME Inv, NEW g \in Procs, TakesReply(g)
    PROVE  Own'
  <1> USE DEF Inv
  <1>1. /\ Others(g) /\ nextFid' = nextFid /\ pc[g] # "idle"
        /\ Delivers(g) \/ Fails(g) \/ GivesUp(g) \/ Advances(g)
    BY ReplyFrame DEF Others
  <1>2. CASE Delivers(g) \/ Fails(g)
    <2>1. pc'[g] = "idle" /\ job'[g].fid = 0 /\ job'[g].from = 0
      BY <1>2, NoJobType DEF Delivers, Fails
    <2>2. /\ \A x \in Fids : handle'[x] = handle[x] \/ (x = job[g].fid /\ Creating(g))
          /\ root' = root \/ (root' = job[g].fid /\ Creating(g))
      BY <1>2 DEF Delivers, Fails, Shape, Creating
    <2>3. \A h \in Procs \ {g} : (Creating(h)' <=> Creating(h)) /\ (Creating(h) => job[h].fid \in Fids /\ job[h].fid # 0)
      BY <1>1, JobFids DEF Others, Creating, Fids
    <2>4. ASSUME NEW h \in Procs \ {g}, Creating(h)
          PROVE  /\ handle'[job'[h].fid] = None /\ root' # job'[h].fid
                 /\ \A k \in Procs : job'[k].from # job'[h].fid /\ (k # h => job'[k].fid # job'[h].fid)
      BY <1>1, <2>1, <2>2, <2>3, <2>4 DEF Own, Others
    <2>5. \A x \in Fids : handle'[x] # None => x <= nextFid'
      <3>1. Creating(g) => job[g].fid \in 1..nextFid
        BY JobFids DEF Creating
      <3> QED BY <1>1, <2>2, <3>1, JobFids DEF Own
    <2>6. ~Creating(g)'
      BY <2>1 DEF Creating
    <2> QED BY <2>3, <2>4, <2>5, <2>6 DEF Own
  <1>3. CASE GivesUp(g) \/ Advances(g)
    <2>1. /\ job'[g].fid = job[g].fid /\ job'[g].from = job[g].from /\ handle' = handle /\ root' = root
          /\ Creating(g) /\ Creating(g)'
      <3>1. CASE GivesUp(g)
        BY <3>1 DEF GivesUp, Creating, Shape, Job
      <3>2. CASE Advances(g)
        BY <3>2, AdvanceFacts DEF Advances, Creating
      <3> QED BY <1>3, <3>1, <3>2
    <2>2. \A h \in Procs : job'[h].fid = job[h].fid /\ job'[h].from = job[h].from /\ (Creating(h)' <=> Creating(h))
      BY <1>1, <2>1 DEF Others, Creating
    <2> QED BY <1>1, <2>1, <2>2 DEF Own
  <1> QED BY <1>1, <1>2, <1>3

\* Everything else leaves owners alone.
LEMMA OwnKept ==
    ASSUME Own, UNCHANGED <<nextFid, root, handle, job>>,
           \A h \in Procs : Creating(h)' => Creating(h)
    PROVE  Own'
  BY DEF Own

-----------------------------------------------------------------------------
(***************************************************************************)
(* Nobody interferes with a fid that may be returned or has been.          *)
(***************************************************************************)

\* No request is about a fid that was just given out.
LEMMA SettledBegins ==
    ASSUME Inv, NEW g \in Procs, Begins(g), nextFid + 1 \in Fids
    PROVE  Settled'
  <1> USE DEF Inv
  <1>1. nextFid \in Nat /\ job'[g].fid = nextFid + 1 /\ handle[nextFid + 1] = None /\ handle' = handle /\ moved' = moved
    BY JobFids DEF Begins, Own, Fids
  <1>2. \A r \in reqs' : r \in reqs \/ (r.by = g /\ Changes(r) = nextFid + 1)
    BY DEF Begins, Changes
  <1>3. \A r \in reqs : Changes(r) # nextFid + 1
    BY <1>1 DEF Matched
  <1>4. \A h \in Procs \ {g} : (OnCourse(h)' <=> OnCourse(h)) /\ job'[h].fid = job[h].fid /\ job[h].fid # nextFid + 1
    <2>1. \A h \in Procs : job[h].fid # nextFid + 1
      BY <1>1, JobFids
    <2> QED BY <2>1 DEF OnCourse, Begins, Others
  <1> QED BY <1>1, <1>2, <1>3, <1>4 DEF Settled, Changes

\* Clunk and Remove take the handle back before they send; a Create marks it moved.
LEMMA SettledUses ==
    ASSUME Inv, NEW g \in Procs, NEW f \in Fids, UsesFid(g, f)
    PROVE  Settled'
  <1> USE DEF Inv
  <1>1. /\ handle[f] # None /\ moved \subseteq moved' /\ ~OnCourse(g)'
        /\ \A x \in Fids : handle'[x] # None => handle[x] # None
    BY DEF UsesFid, OnCourse, Shape
  <1>2. \A r \in reqs' : \/ r \in reqs
                         \/ /\ Changes(r) = f
                            /\ handle'[f] = None \/ (r.type = "Tcreate" /\ r.fid = f /\ f \in moved')
    BY DEF UsesFid, Changes, Shape
  <1>3. \A h \in Procs \ {g} : (OnCourse(h)' <=> OnCourse(h)) /\ job'[h].fid = job[h].fid /\ (OnCourse(h) => job[h].fid # f)
    BY <1>1 DEF OnCourse, UsesFid, Others, Own, Creating
  <1>4. \A r \in reqs : Changes(r) \in Fids
    BY RequestFacts
  <1>5. ASSUME NEW h \in Procs, NEW r \in reqs', OnCourse(h)', Changes(r) = job'[h].fid PROVE r.by = h
    BY <1>1, <1>2, <1>3, <1>5 DEF Settled
  <1>6. ASSUME NEW r \in reqs', handle'[Changes(r)] # None
        PROVE  r.type = "Topen" \/ (r.type = "Tcreate" /\ r.fid \in moved')
    BY <1>1, <1>2, <1>4, <1>6 DEF Settled
  <1> QED BY <1>5, <1>6 DEF Settled, Changes

\* A call's later rpcs are about its own fid.
LEMMA SettledSends ==
    ASSUME Inv, NEW g \in Procs, NEW q, Sends(g, q)
    PROVE  Settled'
  <1> USE DEF Inv
  <1>1. /\ Changes(q) = job[g].fid /\ q.by = g /\ Creating(g) /\ reqs' = reqs \cup {q}
        /\ UNCHANGED <<job, handle, moved>> /\ handle[job[g].fid] = None
    BY DEF Sends, Changes, Creating, Own
  <1>2. \A h \in Procs : OnCourse(h)' => OnCourse(h)
    BY DEF Sends, OnCourse
  <1>3. \A h \in Procs \ {g} : job[h].fid # job[g].fid
    BY <1>1 DEF Own
  <1> QED BY <1>1, <1>2, <1>3 DEF Settled, Changes

\* A call returns its fid when none of its requests is left.
LEMMA SettledReply ==
    ASSUME Inv, NEW g \in Procs, TakesReply(g)
    PROVE  Settled'
  <1> USE DEF Inv
  <1>1. /\ Others(g) /\ reqs' = reqs /\ reply[g] # "none"
        /\ Delivers(g) \/ Fails(g) \/ GivesUp(g) \/ Advances(g)
    BY ReplyFrame DEF Others
  <1>2. \A r \in reqs : r.by # g /\ Changes(r) \in Fids
    BY <1>1, NoRequest, RequestFacts
  <1>3. \A h \in Procs : OnCourse(h)' => OnCourse(h) /\ job'[h].fid = job[h].fid
    <2>1. OnCourse(g)' => Advances(g)
      BY <1>1 DEF Delivers, Fails, GivesUp, OnCourse
    <2>2. Advances(g) => OnCourse(g) /\ job'[g].fid = job[g].fid
      BY AdvanceFacts DEF Advances, OnCourse
    <2> QED BY <1>1, <2>1, <2>2 DEF Others, OnCourse
  <1>4. moved \subseteq moved' /\ \A r \in reqs : handle'[Changes(r)] = handle[Changes(r)]
    <2>1. CASE Delivers(g)
      <3>1. OnCourse(g) /\ job[g].fid \in Fids
        BY <2>1, JobFids DEF Delivers, OnCourse
      <3>2. \A r \in reqs : Changes(r) # job[g].fid
        BY <1>2, <3>1 DEF Settled
      <3> QED BY <1>2, <2>1, <3>1, <3>2 DEF Delivers, Shape
    <2> QED BY <1>1, <2>1 DEF Fails, GivesUp, Advances
  <1>5. ASSUME NEW h \in Procs, NEW r \in reqs', OnCourse(h)', Changes(r) = job'[h].fid PROVE r.by = h
    BY <1>1, <1>3, <1>5 DEF Settled
  <1>6. ASSUME NEW r \in reqs', handle'[Changes(r)] # None
        PROVE  r.type = "Topen" \/ (r.type = "Tcreate" /\ r.fid \in moved')
    BY <1>1, <1>4, <1>6 DEF Settled
  <1> QED BY <1>5, <1>6 DEF Settled, Changes

\* A call that was cancelled does not return its fid.
LEMMA SettledCancel ==
    ASSUME Inv, NEW g \in Procs, Withdraws(g)
    PROVE  Settled'
  <1> USE DEF Inv
  <1>1. /\ UNCHANGED <<handle, pc, job, moved>> /\ reply'[g] = "error"
        /\ \A h \in Procs \ {g} : reply'[h] = reply[h]
    BY CancelFrame
  <1>2. \A q \in reqs' : \/ q \in reqs
                         \/ /\ Changes(q) = job[g].fid
                            /\ \E r \in reqs : r.by = g /\ q.type = r.type /\ q.fid = r.fid
    BY CancelFacts
  <1>3. ~OnCourse(g)' /\ \A h \in Procs \ {g} : (OnCourse(h)' => OnCourse(h)) /\ (OnCourse(h) => job[g].fid # job[h].fid)
    BY <1>1 DEF OnCourse, Own, Creating
  <1>4. \A r \in reqs : r.by = g => Changes(r) = job[g].fid
    BY PlaceFacts DEF Matched, Matches
  <1>5. ASSUME NEW h \in Procs, NEW r \in reqs', OnCourse(h)', Changes(r) = job'[h].fid PROVE r.by = h
    BY <1>1, <1>2, <1>3, <1>5 DEF Settled
  <1>6. ASSUME NEW r \in reqs', handle'[Changes(r)] # None
        PROVE  r.type = "Topen" \/ (r.type = "Tcreate" /\ r.fid \in moved')
    BY <1>1, <1>2, <1>4, <1>6 DEF Settled
  <1> QED BY <1>5, <1>6 DEF Settled, Changes

\* After a lookup or an answer no new request is there.
LEMMA ServerRequests ==
    ASSUME Inv, NEW r \in reqs, tWalkFinds(r) \/ Answers(r)
    PROVE  /\ \A q \in reqs' : \E s \in reqs : /\ q.type = s.type /\ q.fid = s.fid /\ q.by = s.by
                                               /\ Changes(q) = Changes(s)
           /\ \A h \in Procs : OnCourse(h)' => OnCourse(h)
           /\ UNCHANGED <<nextFid, root, handle, pc, job, moved, spoiled, calls>>
  <1> USE DEF Inv
  <1>1. UNCHANGED <<nextFid, root, handle, pc, job, moved, spoiled, calls>>
    BY DEF tWalkFinds, Answers
  <1>2. r \in Request /\ r.fid \in Fids /\ (r.by # None => r.by \in Procs /\ reply[r.by] = "none")
    BY RequestFacts DEF Matched, Matches
  <1>3. CASE tWalkFinds(r)
    <2>1. PICK s : s = [r EXCEPT !.base = table[r.fid]] /\ reqs' = (reqs \ {r}) \cup {s} /\ reply' = reply
      BY <1>3 DEF tWalkFinds
    <2>2. table[r.fid] \in Place
      BY <1>2, <1>3 DEF tWalkFinds, Shape
    <2>3. s.type = r.type /\ s.fid = r.fid /\ s.by = r.by /\ Changes(s) = Changes(r)
      BY <1>2, <2>1, <2>2, FoundFacts
    <2> QED BY <1>1, <2>1, <2>3 DEF OnCourse
  <1>4. CASE Answers(r)
    <2>1. reqs' = reqs \ {r} /\ \A h \in Procs : reply'[h] = reply[h] \/ reply[h] = "none"
      BY <1>2, <1>4 DEF Answers, Shape, TypeOK
    <2>2. \A h \in Procs : OnCourse(h)' => OnCourse(h)
      BY <1>1, <2>1 DEF OnCourse
    <2> QED BY <1>1, <2>1, <2>2
  <1> QED BY <1>3, <1>4

\* The server sends no requests.
LEMMA SettledServer ==
    ASSUME Inv, NEW r \in reqs, tWalkFinds(r) \/ Answers(r)
    PROVE  Settled'
  <1> USE DEF Inv
  <1>1. /\ \A q \in reqs' : \E s \in reqs : /\ q.type = s.type /\ q.fid = s.fid /\ q.by = s.by
                                            /\ Changes(q) = Changes(s)
        /\ \A h \in Procs : OnCourse(h)' => OnCourse(h)
        /\ UNCHANGED <<handle, job, moved>>
    BY ServerRequests
  <1>2. ASSUME NEW h \in Procs, NEW q \in reqs', OnCourse(h)', Changes(q) = job'[h].fid PROVE q.by = h
    BY <1>1, <1>2 DEF Settled
  <1>3. ASSUME NEW q \in reqs', handle'[Changes(q)] # None
        PROVE  q.type = "Topen" \/ (q.type = "Tcreate" /\ q.fid \in moved')
    BY <1>1, <1>3 DEF Settled
  <1> QED BY <1>2, <1>3 DEF Settled, Changes

-----------------------------------------------------------------------------
(***************************************************************************)
(* How far calls have got.                                                 *)
(***************************************************************************)

\* Nothing changes for a call that a step does not touch.
LEMMA PlacedFrame ==
    ASSUME NEW h, PlacedAt(h), pc'[h] = pc[h], reply'[h] = reply[h], job'[h] = job[h],
           table'[job[h].fid] = table[job[h].fid], moved \subseteq moved'
    PROVE  PlacedAt(h)'
  BY DEF PlacedAt, At, Tainted, Walking, batch

\* A goroutine's step leaves the server's table alone and counts a batch when it was
\* answered.
LEMMA PlacedClient ==
    ASSUME Inv, Shape', NEW g \in Procs,
           \/ Begins(g) \/ (\E f \in Fids : UsesFid(g, f)) \/ (\E q : Sends(g, q))
           \/ TakesReply(g) \/ Withdraws(g)
    PROVE  Placed'
  <1> USE DEF Inv
  <1>1. Others(g) /\ moved \subseteq moved' /\ table' = table
    <2>1. CASE TakesReply(g)
      BY <2>1, ReplyFrame DEF Others, Delivers, Fails, GivesUp, Advances
    <2>2. CASE Withdraws(g)
      BY <2>2, CancelFrame DEF Others
    <2> QED BY <2>1, <2>2 DEF Begins, UsesFid, Sends, Others
  <1>2. \A h \in Procs \ {g} : PlacedAt(h)'
    BY <1>1, PlacedFrame DEF Placed, Others
  <1>3. PlacedAt(g)'
    <2>0. PlacedAt(g)
      BY DEF Placed
    <2>1. CASE Begins(g)
      <3>1. reply'[g] = "none" /\ pc'[g] \in {"attach", "walk"} /\ (pc'[g] = "walk" => job'[g].done = 0)
        BY <2>1 DEF Begins, Shape, JobOK
      <3> QED BY <3>1 DEF PlacedAt, Walking
    <2>2. CASE \E f \in Fids : UsesFid(g, f)
      BY <2>2 DEF UsesFid, PlacedAt, Walking
    <2>3. ASSUME NEW q, Sends(g, q) PROVE PlacedAt(g)'
      <3>1. reply' = reply /\ reply[g] = "none" /\ job' = job /\ moved' = moved
        BY <2>3 DEF Sends, Shape, JobOK
      <3>2. <<pc[g], pc'[g]>> \in {<<"walk", "walking">>, <<"use", "using">>, <<"clunk", "clunking">>}
        BY <2>3 DEF Sends
      <3> QED BY <1>1, <2>0, <3>1, <3>2 DEF PlacedAt, At, Tainted, Walking
    <2>4. CASE Withdraws(g)
      <3>1. reply'[g] = "error" /\ pc'[g] = pc[g] /\ pc[g] # "use"
        BY <2>4, CancelFrame
      <3> QED BY <3>1 DEF PlacedAt, Walking
    <2>5. CASE TakesReply(g)
      <3>1. reply'[g] = "none" /\ (Delivers(g) \/ Fails(g) \/ GivesUp(g) \/ Advances(g))
        BY <2>5, ReplyFrame
      <3>2. CASE ~Advances(g)
        BY <3>1, <3>2 DEF Delivers, Fails, GivesUp, PlacedAt, Walking
      <3>3. CASE Advances(g)
        <4>1. At(g, SubSeq(job[g].names, 1, job[g].done + Len(batch(g))))
          BY <2>0, <3>3 DEF PlacedAt, Advances
        <4>2. /\ job'[g].names = job[g].names /\ job'[g].from = job[g].from /\ job'[g].fid = job[g].fid
              /\ job'[g].done = job[g].done + Len(batch(g))
          BY <3>3, AdvanceFacts
        <4>3. moved' = moved /\ pc'[g] \in {"walk", "use"}
              /\ (pc'[g] = "use" => job'[g].done = Len(job[g].names))
          BY <3>3, <4>2 DEF Advances
        <4>4. /\ table'[job'[g].fid] # None
              /\ Tainted(g)' \/ table'[job'[g].fid] = SubSeq(job'[g].names, 1, job'[g].done)
          BY <1>1, <4>1, <4>2, <4>3 DEF At, Tainted
        <4>5. pc'[g] = "use" => SubSeq(job'[g].names, 1, job'[g].done) = job'[g].names
          <5>1. job[g].names \in Place
            BY DEF Shape, Job
          <5> QED BY <4>2, <4>3, <5>1, PathFacts
        <4> QED BY <3>1, <4>3, <4>4, <4>5 DEF PlacedAt, At, Walking
      <3> QED BY <3>2, <3>3
    <2> QED BY <2>1, <2>2, <2>3, <2>4, <2>5
  <1> QED BY <1>2, <1>3 DEF Placed

\* An answered batch took the fid on by its names.
LEMMA PlacedServer ==
    ASSUME Inv, Shape', NEW r \in reqs, tWalkFinds(r) \/ Answers(r)
    PROVE  Placed'
  <1> USE DEF Inv
  <1>1. CASE tWalkFinds(r)
    BY <1>1, PlacedFrame DEF tWalkFinds, Placed
  <1>2. CASE Answers(r)
    <2>1. PICK res \in {"ok", "short", "error"}, v \in Place \cup {None} :
            /\ Effect(r, res, v)
            /\ reply' = IF r.by = None THEN reply ELSE [reply EXCEPT ![r.by] = res]
            /\ table' = [table EXCEPT ![Changes(r)] = v]
      BY <1>2 DEF Answers
    <2>2. UNCHANGED <<nextFid, root, handle, pc, job, moved, spoiled, calls>>
      BY <1>2 DEF Answers
    <2>3. /\ Changes(r) \in Fids /\ table \in [Fids -> Place \cup {None}]
          /\ r.names \in Place /\ r.base \in Place \cup {None} /\ reply \in [Procs -> Replies]
      BY RequestFacts DEF Shape, TypeOK, Replies
    <2> SUFFICES ASSUME NEW h \in Procs PROVE PlacedAt(h)'
      BY DEF Placed
    <2>4. PlacedAt(h)
      BY DEF Placed
    <2>5. CASE Changes(r) # job[h].fid
      <3>1. r.by # h
        BY <2>5, PlaceFacts DEF Matched, Matches
      <3>2. reply'[h] = reply[h]
        BY <2>1, <2>3, <3>1
      <3>3. table'[job[h].fid] = table[job[h].fid]
        BY <2>1, <2>3, <2>5
      <3> QED BY <2>2, <2>4, <3>2, <3>3, PlacedFrame
    <2>6. CASE ~OnCourse(h)'
      BY <2>6 DEF PlacedAt, OnCourse, Walking, Shape, JobOK
    <2>7. CASE Changes(r) = job[h].fid /\ OnCourse(h)'
      <3>1. OnCourse(h)
        BY <1>2, <2>7, ServerRequests
      <3>2. r.by = h /\ Matches(h, r) /\ h # None
        BY <2>7, <3>1, PlaceFacts DEF Settled, Matched
      <3>3. reply'[h] = res /\ res = "ok" /\ reply[h] = "none"
        BY <2>1, <2>3, <2>7, <3>2 DEF OnCourse, Matches
      <3>4. table'[job[h].fid] = v /\ pc'[h] = pc[h] /\ job'[h] = job[h] /\ moved' = moved
        BY <2>1, <2>2, <2>3, <2>7
      <3>5. CASE pc[h] = "attach"
        BY <2>1, <3>2, <3>3, <3>4, <3>5 DEF Matches, Effect, PlacedAt, Walking
      <3>6. CASE pc[h] = "walking"
        <4>1. r.type = "Twalk" /\ r.names = batch(h) /\ r.base # None
          BY <2>1, <3>2, <3>3, <3>6 DEF Matches, Effect
        <4>2. v = r.base \o batch(h)
          <5>1. PICK n \in 0..Len(r.names) : v = r.base \o SubSeq(r.names, 1, n) /\ n = Len(r.names)
            BY <2>1, <3>3, <4>1 DEF Effect
          <5> QED BY <2>3, <4>1, <5>1, PathFacts
        <4>3. Tainted(h) \/ r.base = SubSeq(job[h].names, 1, job[h].done)
          BY <3>2, <3>6, <4>1 DEF Matches
        <4>4. v # None
          <5>1. r.base \in Place /\ batch(h) \in Place
            BY <2>3, <4>1
          <5> QED BY <4>2, <5>1, JoinFacts
        <4>5. job[h].names \in Place /\ job[h].done \in 0..Len(job[h].names)
          BY DEF Shape, TypeOK, Job
        <4>6. Tainted(h) \/ v = SubSeq(job[h].names, 1, job[h].done + Len(batch(h)))
          BY <4>2, <4>3, <4>5, BatchFacts
        <4> QED BY <3>3, <3>4, <3>6, <4>4, <4>6 DEF PlacedAt, At, Tainted, Walking, batch
      <3>7. CASE pc[h] = "using"
        <4>1. At(h, job[h].names) /\ JobOK(h)
          BY <2>4, <3>3, <3>7 DEF PlacedAt, Shape
        <4>2. CASE job[h].op = "Open"
          <5>1. r.type = "Topen" /\ job[h].names = job[h].path
            BY <3>2, <3>7, <4>1, <4>2 DEF Matches, JobOK
          <5>2. v = table[job[h].fid]
            BY <2>1, <2>7, <3>3, <5>1 DEF Effect
          <5> QED BY <3>3, <3>4, <3>7, <4>1, <5>1, <5>2 DEF PlacedAt, At, Tainted, Walking
        <4>3. CASE job[h].op # "Open"
          <5>1. /\ r.type = "Tcreate" /\ r.names = <<job[h].path[Len(job[h].path)]>>
                /\ job[h].path # <<>> /\ job[h].names = SubSeq(job[h].path, 1, Len(job[h].path) - 1)
            BY <3>2, <3>7, <4>1, <4>3 DEF Matches, JobOK
          <5>2. v = table[job[h].fid] \o r.names /\ table[job[h].fid] \in Place
            BY <2>1, <2>3, <2>7, <3>3, <5>1 DEF Effect
          <5>3. v # None
            BY <2>3, <5>2, JoinFacts
          <5>4. job[h].path \in Place
            BY DEF Shape, Job
          <5>5. Tainted(h) \/ v = job[h].path
            BY <4>1, <5>1, <5>2, <5>4, PathFacts DEF At
          <5> QED BY <3>3, <3>4, <3>7, <5>3, <5>5 DEF PlacedAt, At, Tainted, Walking
        <4> QED BY <4>2, <4>3
      <3> QED BY <3>1, <3>2, <3>5, <3>6, <3>7 DEF OnCourse, Matches
    <2> QED BY <2>5, <2>6, <2>7
  <1> QED BY <1>1, <1>2

-----------------------------------------------------------------------------
(***************************************************************************)
(* Where walks start.                                                      *)
(***************************************************************************)

\* Rooted survives a step that makes no start of a walk and moves none.
LEMMA RootedStep ==
    ASSUME Rooted, moved \subseteq moved',
           \A f \in Fids \ moved' : Start(f)' => Start(f),
           \A f \in Fids \ moved' : Start(f) => table'[f] \in {table[f], None},
           \A q \in reqs' : \/ q.type \in {"Topen", "Tclunk", "Tremove"}
                            \/ Changes(q) \in moved' \/ ~Start(Changes(q))
                            \/ \E s \in reqs : Changes(s) = Changes(q) /\ s.type = q.type
    PROVE  Rooted'
  <1> SUFFICES ASSUME NEW f \in Fids \ moved', Start(f)'
               PROVE  /\ table'[f] \in {None, <<>>}
                      /\ \A r \in reqs' : Changes(r) = f => r.type \in {"Topen", "Tclunk", "Tremove"}
    BY DEF Rooted, Changes
  <1>1. /\ f \in Fids \ moved /\ Start(f) /\ table[f] \in {None, <<>>}
        /\ \A r \in reqs : Changes(r) = f => r.type \in {"Topen", "Tclunk", "Tremove"}
    BY DEF Rooted
  <1> QED BY <1>1

\* A fid that is being established is no start of a walk.
LEMMA NewNotStart ==
    ASSUME Own, NEW g \in Procs, Creating(g)
    PROVE  ~Start(job[g].fid)
  BY PlaceFacts DEF Own, Start

\* A new walk starts at a handle or the root.
LEMMA RootedBegins ==
    ASSUME Inv, NEW g \in Procs, Begins(g), nextFid + 1 \in Fids
    PROVE  Rooted'
  <1> USE DEF Inv
  <1>1. /\ UNCHANGED <<root, handle, table, moved>>
        /\ \A h \in Procs \ {g} : pc'[h] = pc[h] /\ job'[h] = job[h]
        /\ pc'[g] = "attach" \/ Start(job'[g].from)
    BY DEF Begins, Others
  <1>2. \A f \in Fids : Start(f)' => Start(f)
    BY <1>1 DEF Start, Walking
  <1>3. ~Start(nextFid + 1)
    <2>1. nextFid + 1 \notin 1..nextFid
      BY JobFids
    <2> QED BY <2>1, StartFacts
  <1>4. \A q \in reqs' : q \in reqs \/ Changes(q) = nextFid + 1
    BY DEF Begins, Changes
  <1> QED BY <1>1, <1>2, <1>3, <1>4, RootedStep

\* A Create on a fid marks it as moved.
LEMMA RootedUses ==
    ASSUME Inv, NEW g \in Procs, NEW f \in Fids, UsesFid(g, f)
    PROVE  Rooted'
  <1> USE DEF Inv
  <1>1. /\ UNCHANGED <<root, table>> /\ moved \subseteq moved' /\ pc'[g] = "fid"
        /\ \A h \in Procs \ {g} : pc'[h] = pc[h] /\ job'[h] = job[h]
    BY DEF UsesFid, Others
  <1>2. \A x \in Fids : handle'[x] = handle[x] \/ handle'[x] = None
    BY DEF UsesFid, Shape
  <1>3. \A x \in Fids : Start(x)' => Start(x)
    BY <1>1, <1>2, PlaceFacts DEF Start, Walking
  <1>4. \A q \in reqs' : q \in reqs \/ (q.type = job'[g].op /\ Changes(q) = f)
    BY DEF UsesFid, Changes
  <1>5. job'[g].op \in {"Tclunk", "Tremove"} \/ f \in moved'
    BY DEF UsesFid
  <1> QED BY <1>1, <1>3, <1>4, <1>5, RootedStep

\* The fid that a call establishes is no start of a walk.
LEMMA RootedSends ==
    ASSUME Inv, NEW g \in Procs, NEW q, Sends(g, q)
    PROVE  Rooted'
  <1> USE DEF Inv
  <1>1. UNCHANGED <<root, handle, table, moved, job>> /\ reqs' = reqs \cup {q}
    BY DEF Sends
  <1>2. Creating(g) /\ Changes(q) = job[g].fid /\ \A h \in Procs : Walking(h)' => Walking(h)
    BY DEF Sends, Changes, Creating, Walking
  <1>3. \A x \in Fids : Start(x)' => Start(x)
    BY <1>1, <1>2 DEF Start
  <1> QED BY <1>1, <1>2, <1>3, NewNotStart, RootedStep

\* What a call that returns a Fid or File has done.
LEMMA DeliverFacts ==
    ASSUME Inv, NEW g \in Procs, TakesReply(g), Delivers(g)
    PROVE  /\ job[g].fid \in Fids /\ job[g].path \in Place /\ Creating(g)
           /\ table[job[g].fid] # None
           /\ job[g].fid \notin moved' => table[job[g].fid] = job[g].path
           /\ \A r \in reqs : Changes(r) # job[g].fid
           /\ \A f \in Fids \ {job[g].fid} : handle'[f] = handle[f]
           /\ handle'[job[g].fid] = job[g].path
           /\ moved \subseteq moved' /\ moved' \subseteq moved \cup {job[g].fid}
  <1> USE DEF Inv
  <1>1. job[g].fid \in Fids /\ job[g].path \in Place /\ job[g].names \in Place
    BY JobFids DEF Shape, Job, Delivers
  <1>2. OnCourse(g) /\ Creating(g) /\ reply[g] = "ok"
    BY DEF Delivers, OnCourse, Creating
  <1>3. \A r \in reqs : Changes(r) # job[g].fid
    <2>1. \A r \in reqs : r.by # g
      BY <1>2, NoRequest
    <2> QED BY <1>2, <2>1 DEF Settled
  <1>4. /\ \A f \in Fids \ {job[g].fid} : handle'[f] = handle[f]
        /\ handle'[job[g].fid] = job[g].path
        /\ moved \subseteq moved' /\ moved' \subseteq moved \cup {job[g].fid}
    BY <1>1 DEF Delivers, Shape
  <1>5. table[job[g].fid] # None /\ (Tainted(g) \/ table[job[g].fid] = job[g].path)
    <2>1. PlacedAt(g) /\ JobOK(g)
      BY DEF Placed, Shape
    <2>2. CASE pc[g] = "attach"
      BY <1>2, <2>1, <2>2, PlaceFacts DEF PlacedAt, JobOK
    <2>3. CASE pc[g] = "walking"
      <3>1. job[g].names = job[g].path /\ job[g].done + Len(batch(g)) = Len(job[g].names)
        BY <2>1, <2>3 DEF Delivers, JobOK, Walking
      <3>2. At(g, SubSeq(job[g].names, 1, job[g].done + Len(batch(g))))
        BY <1>2, <2>1, <2>3 DEF PlacedAt
      <3> QED BY <1>1, <3>1, <3>2, PathFacts DEF At
    <2>4. CASE pc[g] = "using"
      BY <1>2, <2>1, <2>4 DEF PlacedAt, At, Delivers
    <2> QED BY <2>2, <2>3, <2>4 DEF Delivers
  <1>6. Tainted(g) => job[g].fid \in moved'
    BY DEF Tainted, Delivers
  <1> QED BY <1>1, <1>2, <1>3, <1>4, <1>5, <1>6

\* What Attach returns is at the root.
LEMMA RootedReply ==
    ASSUME Inv, NEW g \in Procs, TakesReply(g)
    PROVE  Rooted'
  <1> USE DEF Inv
  <1>1. /\ Others(g) /\ UNCHANGED <<reqs, table>>
        /\ Delivers(g) \/ Fails(g) \/ GivesUp(g) \/ Advances(g)
    BY ReplyFrame DEF Others
  <1>2. \A h \in Procs : Walking(h)' => Walking(h) /\ job'[h].from = job[h].from
    <2>1. Walking(g)' => Advances(g)
      BY <1>1 DEF Walking, Delivers, Fails, GivesUp
    <2>2. Advances(g) => Walking(g) /\ job'[g].from = job[g].from
      BY AdvanceFacts DEF Advances, Walking
    <2> QED BY <1>1, <2>1, <2>2 DEF Others, Walking
  <1>3. CASE Delivers(g)
    <2>0. PICK n : n = job[g].fid
      OBVIOUS
    <2>1. /\ n \in Fids /\ \A r \in reqs : Changes(r) # n
          /\ n \notin moved' => table[n] = job[g].path
          /\ \A f \in Fids \ {n} : handle'[f] = handle[f]
          /\ handle'[n] = job[g].path /\ moved \subseteq moved'
      BY <1>3, <2>0, DeliverFacts
    <2>2. root' = root \/ (root' = n /\ job[g].path = <<>>)
      BY <1>3, <2>0 DEF Delivers, Shape, JobOK
    <2>3. ~Start(n)
      BY <1>3, <2>0, NewNotStart, DeliverFacts
    <2>4. Start(n)' => job[g].path = <<>>
      BY <1>2, <2>1, <2>2, <2>3 DEF Start
    <2>5. \A f \in Fids \ {n} : Start(f)' => Start(f)
      BY <1>2, <2>1, <2>2 DEF Start
    <2> SUFFICES ASSUME NEW f \in Fids \ moved', Start(f)'
                 PROVE  /\ table'[f] \in {None, <<>>}
                        /\ \A r \in reqs' : Changes(r) = f => r.type \in {"Topen", "Tclunk", "Tremove"}
      BY DEF Rooted, Changes
    <2>6. CASE f = n
      BY <1>1, <2>1, <2>4, <2>6
    <2>7. CASE f # n
      BY <1>1, <2>1, <2>5, <2>7 DEF Rooted
    <2> QED BY <2>6, <2>7
  <1>4. CASE Fails(g) \/ GivesUp(g) \/ Advances(g)
    <2>1. UNCHANGED <<handle, moved, root>>
      BY <1>4 DEF Fails, GivesUp, Advances
    <2>2. \A x \in Fids : Start(x)' => Start(x)
      BY <1>2, <2>1 DEF Start
    <2> QED BY <1>1, <2>1, <2>2, RootedStep
  <1> QED BY <1>1, <1>3, <1>4

\* A cancellation moves nothing.
LEMMA RootedCancel ==
    ASSUME Inv, NEW g \in Procs, Withdraws(g)
    PROVE  Rooted'
  <1> USE DEF Inv
  <1>1. UNCHANGED <<root, handle, pc, job, table, moved>>
    BY CancelFrame
  <1>2. \A r \in reqs : r.by = g => Changes(r) = job[g].fid
    BY PlaceFacts DEF Matched, Matches
  <1>3. \A q \in reqs' : \E s \in reqs : Changes(s) = Changes(q) /\ s.type = q.type
    BY <1>2, CancelFacts
  <1>4. \A x \in Fids : Start(x)' => Start(x)
    BY <1>1 DEF Start, Walking
  <1> QED BY <1>1, <1>3, <1>4, RootedStep

\* Of a start the server may only release the fid.
LEMMA RootedServer ==
    ASSUME Inv, NEW r \in reqs, tWalkFinds(r) \/ Answers(r)
    PROVE  Rooted'
  <1> USE DEF Inv
  <1>1. /\ \A q \in reqs' : \E s \in reqs : Changes(s) = Changes(q) /\ s.type = q.type
        /\ UNCHANGED <<root, handle, pc, job, moved>>
    BY ServerRequests
  <1>2. \A x \in Fids : Start(x)' => Start(x)
    BY <1>1 DEF Start, Walking
  <1>3. ASSUME NEW f \in Fids \ moved, Start(f) PROVE table'[f] \in {table[f], None}
    <2>1. CASE tWalkFinds(r)
      BY <2>1 DEF tWalkFinds
    <2>2. CASE Answers(r)
      <3>1. PICK res, v : Effect(r, res, v) /\ table' = [table EXCEPT ![Changes(r)] = v]
        BY <2>2 DEF Answers
      <3>2. Changes(r) = f => r.type \in {"Topen", "Tclunk", "Tremove"}
        BY <1>3 DEF Rooted
      <3>3. Changes(r) = f => v \in {table[f], None}
        BY <3>1, <3>2 DEF Effect
      <3> QED BY <3>1, <3>3 DEF Shape
    <2> QED BY <2>1, <2>2
  <1> QED BY <1>1, <1>2, <1>3, RootedStep

-----------------------------------------------------------------------------
(***************************************************************************)
(* Every fid of the server's table is accounted for.                       *)
(***************************************************************************)

\* Nothing changes for a goroutine that a step does not touch.
LEMMA HoldingFrame ==
    ASSUME NEW h, pc'[h] = pc[h], reply'[h] = reply[h], job'[h] = job[h]
    PROVE  /\ \A f : Holding(h, f) => Holding(h, f)'
           /\ Void(h)' => Void(h)
  BY DEF Holding, Void, Creating, Walking

\* A new fid is not at the server yet.
LEMMA AccountedBegins ==
    ASSUME Inv, NEW g \in Procs, Begins(g), nextFid + 1 \in Fids
    PROVE  Accounted'
  <1> USE DEF Inv
  <1>1. UNCHANGED <<table, handle, spoiled>> /\ Others(g) /\ pc[g] = "idle" /\ job'[g].fid = nextFid + 1
    BY DEF Begins
  <1>2. ASSUME NEW h \in Procs, h # g
        PROVE  /\ \A f : Holding(h, f) => Holding(h, f)'
               /\ Void(h)' => Void(h) /\ job'[h] = job[h]
    BY <1>1, <1>2, HoldingFrame DEF Others
  <1>3. \A f \in Fids : ~Holding(g, f)
    BY <1>1 DEF Holding, Creating
  <1>4. ASSUME NEW f \in Fids, table'[f] # None, handle'[f] = None
        PROVE  f \in spoiled' \/ \E h \in Procs : Holding(h, f)'
    BY <1>1, <1>2, <1>3, <1>4 DEF Accounted
  <1>5. table[nextFid + 1] = None
    <2>1. ~(nextFid + 1 <= nextFid)
      BY JobFids
    <2> QED BY <2>1 DEF Shape, TypeOK
  <1>6. ASSUME NEW h \in Procs, Void(h)'
        PROVE  table'[job'[h].fid] = None \/ job'[h].fid \in spoiled'
    BY <1>1, <1>2, <1>5, <1>6 DEF Accounted
  <1> QED BY <1>4, <1>6 DEF Accounted

\* A handle that is taken back is in the hands of its Clunk or Remove.
LEMMA AccountedUses ==
    ASSUME Inv, NEW g \in Procs, NEW f \in Fids, UsesFid(g, f)
    PROVE  Accounted'
  <1> USE DEF Inv
  <1>1. /\ UNCHANGED <<table, spoiled, reply>> /\ Others(g) /\ pc[g] = "idle" /\ reply[g] = "none"
        /\ pc'[g] = "fid" /\ job'[g].fid = f
    BY DEF UsesFid, Shape, JobOK
  <1>2. ASSUME NEW h \in Procs, h # g
        PROVE  /\ \A x : Holding(h, x) => Holding(h, x)'
               /\ Void(h)' => Void(h) /\ job'[h] = job[h]
    BY <1>1, <1>2, HoldingFrame DEF Others
  <1>3. (\A x \in Fids : ~Holding(g, x)) /\ ~Void(g)'
    BY <1>1 DEF Holding, Creating, Void, Walking
  <1>4. ASSUME NEW x \in Fids, table'[x] # None, handle'[x] = None
        PROVE  x \in spoiled' \/ \E h \in Procs : Holding(h, x)'
    <2>1. CASE handle[x] = None
      BY <1>1, <1>2, <1>3, <1>4, <2>1 DEF Accounted
    <2>2. CASE handle[x] # None
      <3>1. x = f /\ job'[g].op \in {"Tclunk", "Tremove"}
        BY <1>4, <2>2 DEF UsesFid, Shape
      <3> QED BY <1>1, <3>1 DEF Holding
    <2> QED BY <2>1, <2>2
  <1>5. ASSUME NEW h \in Procs, Void(h)'
        PROVE  table'[job'[h].fid] = None \/ job'[h].fid \in spoiled'
    BY <1>1, <1>2, <1>3, <1>5 DEF Accounted
  <1> QED BY <1>4, <1>5 DEF Accounted

\* A fid that is being clunked is accounted for until the clunk is answered.
LEMMA AccountedSends ==
    ASSUME Inv, NEW g \in Procs, NEW q, Sends(g, q)
    PROVE  Accounted'
  <1> USE DEF Inv
  <1>1. /\ UNCHANGED <<table, spoiled, handle, reply, job>>
        /\ \A h \in Procs \ {g} : pc'[h] = pc[h]
        /\ <<pc[g], pc'[g]>> \in {<<"walk", "walking">>, <<"use", "using">>, <<"clunk", "clunking">>}
    BY DEF Sends
  <1>2. reply[g] = "none"
    BY <1>1 DEF Shape, JobOK
  <1>3. \A h \in Procs : (\A x : Holding(h, x) => Holding(h, x)') /\ (Void(h)' => Void(h))
    BY <1>1, <1>2 DEF Holding, Creating, Void, Walking
  <1>4. ASSUME NEW x \in Fids, table'[x] # None, handle'[x] = None
        PROVE  x \in spoiled' \/ \E h \in Procs : Holding(h, x)'
    BY <1>1, <1>3, <1>4 DEF Accounted
  <1>5. ASSUME NEW h \in Procs, Void(h)'
        PROVE  table'[job'[h].fid] = None \/ job'[h].fid \in spoiled'
    BY <1>1, <1>3, <1>5 DEF Accounted
  <1> QED BY <1>4, <1>5 DEF Accounted

\* A call that ends has returned its fid, has had it released, or never had it.
LEMMA AccountedReply ==
    ASSUME Inv, NEW g \in Procs, TakesReply(g)
    PROVE  Accounted'
  <1> USE DEF Inv
  <1>1. /\ UNCHANGED <<table, spoiled>> /\ Others(g) /\ reply[g] # "none" /\ reply[g] \in Replies
        /\ Delivers(g) \/ Fails(g) \/ GivesUp(g) \/ Advances(g)
    BY ReplyFrame DEF Others, Shape, TypeOK, Replies
  <1>2. ASSUME NEW h \in Procs, h # g
        PROVE  /\ \A x : Holding(h, x) => Holding(h, x)'
               /\ Void(h)' => Void(h) /\ job'[h] = job[h]
    BY <1>1, <1>2, HoldingFrame DEF Others
  <1>3. ~Void(g)'
    <2>1. CASE Advances(g)
      BY <2>1, AdvanceFacts DEF Advances, Void, Walking
    <2> QED BY <1>1, <2>1 DEF Delivers, Fails, GivesUp, Void, Walking
  <1>4. ASSUME NEW x \in Fids, table'[x] # None, handle'[x] = None
        PROVE  x \in spoiled' \/ \E h \in Procs : Holding(h, x)'
    <2>1. handle[x] = None /\ (Delivers(g) => x # job[g].fid)
      <3>1. CASE Delivers(g)
        BY <1>4, <3>1, DeliverFacts, PlaceFacts
      <3> QED BY <1>1, <1>4, <3>1 DEF Fails, GivesUp, Advances
    <2>2. x \in spoiled \/ \E h \in Procs : Holding(h, x)
      BY <1>1, <1>4, <2>1 DEF Accounted
    <2>3. ASSUME Holding(g, x) PROVE x \in spoiled \/ Holding(g, x)'
      <3>1. x = job[g].fid
        BY <2>3 DEF Holding
      <3>2. CASE Fails(g)
        <4>1. Void(g)
          BY <1>1, <2>3, <3>2 DEF Fails, Void, Walking, Holding, Creating, Replies
        <4> QED BY <1>1, <1>4, <3>1, <4>1 DEF Accounted
      <3>3. CASE GivesUp(g)
        <4>1. job'[g].fid = job[g].fid
          BY <3>3 DEF GivesUp, Shape, Job
        <4> QED BY <3>1, <3>3, <4>1 DEF GivesUp, Holding, Creating
      <3>4. CASE Advances(g)
        BY <3>1, <3>4, AdvanceFacts DEF Advances, Holding, Creating
      <3> QED BY <1>1, <2>1, <3>1, <3>2, <3>3, <3>4
    <2> QED BY <1>1, <1>2, <2>2, <2>3
  <1>5. ASSUME NEW h \in Procs, Void(h)'
        PROVE  table'[job'[h].fid] = None \/ job'[h].fid \in spoiled'
    BY <1>1, <1>2, <1>3, <1>5 DEF Accounted
  <1> QED BY <1>4, <1>5 DEF Accounted

\* Only a cancelled call lets its fid go, and then the fid is spoiled.
LEMMA AccountedCancel ==
    ASSUME Inv, NEW g \in Procs, Withdraws(g)
    PROVE  Accounted'
  <1> USE DEF Inv
  <1>1. /\ UNCHANGED <<handle, pc, job, table>> /\ spoiled' = spoiled \cup {job[g].fid}
        /\ \A h \in Procs \ {g} : reply'[h] = reply[h]
    BY CancelFrame
  <1>2. ASSUME NEW h \in Procs, h # g
        PROVE  (\A x : Holding(h, x) => Holding(h, x)') /\ (Void(h)' => Void(h))
    BY <1>1, <1>2, HoldingFrame
  <1>3. \A x : Holding(g, x) => x \in spoiled'
    BY <1>1 DEF Holding
  <1>4. ASSUME NEW x \in Fids, table'[x] # None, handle'[x] = None
        PROVE  x \in spoiled' \/ \E h \in Procs : Holding(h, x)'
    BY <1>1, <1>2, <1>3, <1>4 DEF Accounted
  <1>5. ASSUME NEW h \in Procs, Void(h)'
        PROVE  table'[job'[h].fid] = None \/ job'[h].fid \in spoiled'
    BY <1>1, <1>2, <1>5 DEF Accounted
  <1> QED BY <1>4, <1>5 DEF Accounted

\* The server establishes a fid only for the call in whose hands it is, or spoiled.
LEMMA AccountedServer ==
    ASSUME Inv, NEW r \in reqs, tWalkFinds(r) \/ Answers(r)
    PROVE  Accounted'
  <1> USE DEF Inv
  <1>1. CASE tWalkFinds(r)
    BY <1>1 DEF tWalkFinds, Accounted, Holding, Void, Creating, Walking
  <1>2. CASE Answers(r)
    <2>1. PICK res \in {"ok", "short", "error"}, v \in Place \cup {None} :
            /\ Effect(r, res, v)
            /\ reply' = IF r.by = None THEN reply ELSE [reply EXCEPT ![r.by] = res]
            /\ table' = [table EXCEPT ![Changes(r)] = v]
      BY <1>2 DEF Answers
    <2>2. UNCHANGED <<handle, pc, job, spoiled>>
      BY <1>2 DEF Answers
    <2>3. /\ Changes(r) \in Fids /\ DOMAIN table = Fids
          /\ reply \in [Procs -> Replies] /\ (r.by # None => r.by \in Procs /\ Matches(r.by, r))
          /\ r.by = None => Changes(r) \in spoiled
      BY RequestFacts DEF Shape, TypeOK, Replies, Matched
    <2>4. ASSUME NEW h \in Procs, h # r.by
          PROVE  (\A x : Holding(h, x) => Holding(h, x)') /\ (Void(h)' => Void(h))
      <3>1. reply'[h] = reply[h]
        BY <2>1, <2>3, <2>4
      <3> QED BY <2>2, <3>1, HoldingFrame
    <2>5. ASSUME r.by # None PROVE job[r.by].fid = Changes(r) /\ reply[r.by] = "none" /\ reply'[r.by] = res
      BY <2>1, <2>3, <2>5 DEF Matches
    <2>6. ASSUME NEW x \in Fids, x # Changes(r) PROVE table'[x] = table[x]
      BY <2>1, <2>3, <2>6
    <2>7. table'[Changes(r)] = v
      BY <2>1, <2>3
    <2>8. ASSUME NEW x \in Fids, table'[x] # None, handle'[x] = None
          PROVE  x \in spoiled' \/ \E h \in Procs : Holding(h, x)'
      <3>1. CASE x # Changes(r)
        <4>1. x \in spoiled \/ \E h \in Procs : Holding(h, x)
          BY <2>2, <2>6, <2>8, <3>1 DEF Accounted
        <4>2. \A h \in Procs : Holding(h, x) => h # r.by
          BY <2>5, <3>1, PlaceFacts DEF Holding
        <4> QED BY <2>2, <2>4, <4>1, <4>2
      <3>2. CASE x = Changes(r) /\ r.by = None
        BY <2>2, <2>3, <3>2
      <3>3. CASE x = Changes(r) /\ r.by # None
        <4>1. PICK g \in Procs : g = r.by /\ Matches(g, r) /\ job[g].fid = x
          BY <2>3, <2>5, <3>3
        <4>2. CASE Creating(g)
          BY <2>2, <4>1, <4>2 DEF Holding, Creating
        <4>3. CASE ~Creating(g)
          <5>1. pc[g] = "fid" /\ r.type = job[g].op /\ r.type \in {"Tclunk", "Tremove", "Tcreate"}
            BY <4>1, <4>3 DEF Matches, Creating, Shape, JobOK
          <5>2. v # None
            BY <2>7, <2>8, <3>3
          <5>3. r.type = "Tcreate" /\ table[x] # None
            BY <2>1, <3>3, <5>1, <5>2 DEF Effect
          <5>4. x \in spoiled \/ \E h \in Procs : Holding(h, x)
            BY <2>2, <2>8, <5>3 DEF Accounted
          <5>5. ~Holding(g, x)
            BY <4>3, <5>1, <5>3 DEF Holding
          <5> QED BY <2>2, <2>4, <4>1, <5>4, <5>5
        <4> QED BY <4>2, <4>3
      <3> QED BY <3>1, <3>2, <3>3
    <2>9. ASSUME NEW h \in Procs, Void(h)'
          PROVE  table'[job'[h].fid] = None \/ job'[h].fid \in spoiled'
      <3>1. Creating(h) /\ job[h].fid \in Fids
        BY <2>2, <2>9, JobFids DEF Void, Walking, Creating
      <3>2. CASE r.by = h
        <4>1. h # None /\ Matches(h, r) /\ reply[h] = "none" /\ reply'[h] = res /\ job[h].fid = Changes(r)
          BY <2>3, <2>5, <3>2, PlaceFacts
        <4>2. CASE pc[h] = "clunking"
          <5>1. v = None
            BY <2>1, <4>1, <4>2 DEF Matches, Effect
          <5> QED BY <2>2, <2>7, <4>1, <5>1
        <4>3. CASE pc[h] # "clunking"
          <5>1. Void(h) /\ pc[h] \in {"attach", "walk", "walking"}
            BY <2>2, <2>9, <4>1, <4>3 DEF Void, Walking
          <5>2. r.type \in {"Tattach", "Twalk"} /\ res = "error"
            <6>1. r.type = IF pc[h] = "attach" THEN "Tattach" ELSE "Twalk"
              BY <4>1, <5>1 DEF Matches
            <6>2. CASE pc[h] = "attach"
              <7>1. res # "ok"
                BY <2>2, <2>9, <4>1, <6>2 DEF Void, Walking
              <7> QED BY <2>1, <6>1, <6>2, <7>1 DEF Effect
            <6>3. CASE pc[h] # "attach"
              <7>1. res \in {"none", "error"}
                BY <2>2, <2>9, <4>1, <5>1, <6>3 DEF Void, Walking
              <7> QED BY <2>1, <6>1, <6>3, <7>1
            <6> QED BY <6>2, <6>3
          <5>3. v = table[job[h].fid]
            BY <2>1, <4>1, <5>2 DEF Effect
          <5> QED BY <2>2, <2>7, <4>1, <5>1, <5>3 DEF Accounted
        <4> QED BY <4>2, <4>3
      <3>3. CASE r.by # h /\ Changes(r) # job[h].fid
        BY <2>2, <2>4, <2>6, <2>9, <3>1, <3>3 DEF Accounted
      <3>4. CASE r.by # h /\ Changes(r) = job[h].fid
        <4>1. r.by = None
          BY <2>3, <2>5, <3>1, <3>4 DEF Own
        <4> QED BY <2>2, <2>3, <3>4, <4>1
      <3> QED BY <3>2, <3>3, <3>4
    <2> QED BY <2>8, <2>9 DEF Accounted
  <1> QED BY <1>1, <1>2

-----------------------------------------------------------------------------
(***************************************************************************)
(* The steps together.                                                     *)
(***************************************************************************)

\* A session begins without fids.
LEMMA InvInit ==
    ASSUME Init
    PROVE  Inv /\ HandleWorks
  <1>1. /\ \A g \in Procs : pc[g] = "idle" /\ job[g] = NoJob /\ reply[g] = "none"
        /\ \A f \in Fids : handle[f] = None /\ table[f] = None
        /\ reqs = {} /\ nextFid = 0 /\ root = 0 /\ moved = {} /\ spoiled = {} /\ calls = 0
    BY DEF Init
  <1>2. Shape
    <2>1. 0 \in 0..MaxFid /\ 0 \in 0..MaxCalls /\ 0 \in 0..0
      BY Numbers
    <2>2. /\ pc \in [Procs -> Labels] /\ reply \in [Procs -> Replies] /\ job \in [Procs -> Job]
          /\ handle \in [Fids -> Place \cup {None}] /\ table \in [Fids -> Place \cup {None}]
      BY NoJobType DEF Init, Labels, Replies
    <2>3. \A g \in Procs : JobOK(g) /\ job[g].done \in 0..Len(job[g].names) /\ job[g].fid \in 0..nextFid
      BY <1>1, <2>1, NoJobType DEF JobOK, Walking
    <2>4. TypeOK
      BY <1>1, <2>1, <2>2, <2>3 DEF TypeOK, Labels, Replies
    <2> QED BY <2>2, <2>3, <2>4 DEF Shape
  <1>3. Matched /\ Own /\ Settled /\ Placed
    BY <1>1 DEF Matched, Own, Creating, Settled, OnCourse, Placed, PlacedAt, Walking
  <1>4. Rooted /\ Accounted /\ HandleWorks
    BY <1>1 DEF Rooted, Accounted, Void, Walking, HandleWorks
  <1> QED BY <1>2, <1>3, <1>4 DEF Inv

\* A request that finds no free tag fails as at the server, or spoils its fid.
LEMMA RegisterFrame ==
    ASSUME Shape, Matched, NEW g \in Procs, registerFails(g)
    PROVE  Withdraws(g) \/ \E r \in reqs : Answers(r)
  <1>1. PICK r \in reqs :
           /\ r.by = g /\ r.base = None
           /\ reqs' = reqs \ {r}
           /\ spoiled' = IF r.type \in {"Tclunk", "Tremove"}
                            THEN spoiled \cup {job[g].fid} ELSE spoiled
    BY DEF registerFails
  <1>2. r \in Request /\ Changes(r) \in Fids /\ g # None
    BY RequestFacts, PlaceFacts
  <1>3. CASE r.type \in {"Tclunk", "Tremove"}
    BY <1>1, <1>3 DEF registerFails, Withdraws
  <1>4. CASE r.type \notin {"Tclunk", "Tremove"}
    <2>1. r.type \in {"Tattach", "Twalk", "Topen", "Tcreate"}
      BY <1>2, <1>4 DEF Request
    <2>2. table \in [Fids -> Place \cup {None}]
      BY DEF Shape
    <2>3. table[Changes(r)] \in Place \cup {None} /\ table = [table EXCEPT ![Changes(r)] = table[Changes(r)]]
      BY <1>2, <2>2
    <2>4. Effect(r, "error", table[Changes(r)])
      BY <2>1 DEF Effect
    <2>5. UNCHANGED <<nextFid, root, handle, pc, job, table, moved, spoiled, calls>>
      BY <1>1, <1>4 DEF registerFails
    <2>6. reply' = IF r.by = None THEN reply ELSE [reply EXCEPT ![r.by] = "error"]
      BY <1>1, <1>2 DEF registerFails
    <2>7. /\ Effect(r, "error", table[Changes(r)])
          /\ reply' = IF r.by = None THEN reply ELSE [reply EXCEPT ![r.by] = "error"]
          /\ table' = [table EXCEPT ![Changes(r)] = table[Changes(r)]]
      BY <2>3, <2>4, <2>5, <2>6
    <2> QED BY <1>1, <2>3, <2>5, <2>7 DEF Answers
  <1> QED BY <1>3, <1>4

\* What a step of a goroutine is.
LEMMA ClientSteps ==
    ASSUME Inv, NEW g \in Procs, Client(g)
    PROVE  /\ Shape'
           /\ \/ Begins(g) /\ nextFid + 1 \in Fids
              \/ \E f \in Fids : UsesFid(g, f)
              \/ \E q : Sends(g, q)
              \/ TakesReply(g)
              \/ Withdraws(g)
              \/ \E r \in reqs : Answers(r)
  <1> USE DEF Inv
  <1>1. Begins(g) /\ Shape' => nextFid + 1 \in Fids
    BY Numbers DEF Begins, Shape, TypeOK, Fids
  <1>2. CASE Attach(g)
    BY <1>1, <1>2, AttachBegins
  <1>3. CASE \/ \E f \in Fids, p \in Paths \cup {<<>>} : Walk(g, f, p)
             \/ \E p \in Paths : OpenPath(g, p) \/ \E op \in {"Create", "Symlink"} : CreatePath(g, op, p)
    BY <1>1, <1>3, WalkBegins
  <1>4. CASE \E f \in Fids : \/ \E type \in {"Tclunk", "Tremove"} : FidRelease(g, f, type)
                            \/ \E name \in Names : FidCreate(g, f, name)
    BY <1>4, FidBegins
  <1>5. CASE walkBatch(g) \/ use(g) \/ clunk(g)
    BY <1>5, SendFrame
  <1>6. CASE TakesReply(g)
    BY <1>6, ShapeReply
  <1>7. CASE cancel(g) \/ registerFails(g)
    <2>1. Withdraws(g) \/ \E r \in reqs : Answers(r)
      <3>1. CASE cancel(g)
        BY <3>1 DEF cancel, Withdraws
      <3> QED BY <1>7, <3>1, RegisterFrame
    <2> QED BY <2>1, ShapeCancel, ShapeServer
  <1> QED BY <1>2, <1>3, <1>4, <1>5, <1>6, <1>7 DEF Client, TakesReply

\* The steps of the server, part by part.
LEMMA InvServer ==
    ASSUME Inv, NEW r \in reqs, tWalkFinds(r) \/ Answers(r)
    PROVE  Inv'
  <1>1. tWalkFinds(r) \/ Answers(r)
    OBVIOUS
  <1>2. Shape'
    BY <1>1, ShapeServer DEF Inv
  <1>3. Own'
    <2>1. UNCHANGED <<nextFid, root, handle, job>> /\ \A h \in Procs : Creating(h)' => Creating(h)
      BY <1>1, ServerRequests DEF Creating
    <2> QED BY <2>1, OwnKept DEF Inv
  <1> QED BY <1>1, <1>2, <1>3, MatchedServer, SettledServer, PlacedServer, RootedServer,
             AccountedServer DEF Inv

\* The steps of goroutines, part by part.
LEMMA InvClient ==
    ASSUME Inv, NEW g \in Procs, Client(g)
    PROVE  Inv'
  <1>1. CASE Begins(g) /\ nextFid + 1 \in Fids
    BY <1>1, ClientSteps, MatchedClient, OwnBegins, SettledBegins, PlacedClient, RootedBegins,
       AccountedBegins DEF Inv
  <1>2. CASE \E f \in Fids : UsesFid(g, f)
    BY <1>2, ClientSteps, MatchedClient, OwnUses, SettledUses, PlacedClient, RootedUses,
       AccountedUses DEF Inv
  <1>3. CASE \E q : Sends(g, q)
    <2>1. Own'
      <3>1. UNCHANGED <<nextFid, root, handle, job>> /\ \A h \in Procs : Creating(h)' => Creating(h)
        BY <1>3 DEF Sends, Creating
      <3> QED BY <3>1, OwnKept DEF Inv
    <2> QED BY <1>3, <2>1, ClientSteps, MatchedClient, SettledSends, PlacedClient, RootedSends,
               AccountedSends DEF Inv
  <1>4. CASE TakesReply(g)
    BY <1>4, ClientSteps, MatchedClient, OwnReply, SettledReply, PlacedClient, RootedReply,
       AccountedReply DEF Inv
  <1>5. CASE Withdraws(g)
    <2>1. Own'
      <3>1. UNCHANGED <<nextFid, root, handle, job>> /\ \A h \in Procs : Creating(h)' => Creating(h)
        BY <1>5, CancelFrame DEF Creating, Inv
      <3> QED BY <3>1, OwnKept DEF Inv
    <2> QED BY <1>5, <2>1, ClientSteps, MatchedCancel, SettledCancel, PlacedClient, RootedCancel,
               AccountedCancel DEF Inv
  <1>6. CASE \E r \in reqs : Answers(r)
    BY <1>6, InvServer
  <1> QED BY <1>1, <1>2, <1>3, <1>4, <1>5, <1>6, ClientSteps

\* All steps keep the invariant.
LEMMA InvNext ==
    ASSUME Inv, [Next]_vars
    PROVE  Inv'
  <1>1. CASE UNCHANGED vars
    <2> USE <1>1 DEF vars
    <2>1. Shape'
      BY DEF Inv, Shape, TypeOK, JobOK, Walking
    <2>2. Matched'
      BY DEF Inv, Matched, Matches, Changes, Tainted, batch
    <2>3. Own' /\ Settled'
      BY DEF Inv, Own, Creating, Settled, OnCourse, Changes
    <2>4. Placed'
      BY PlacedFrame DEF Inv, Placed
    <2>5. Rooted'
      BY DEF Inv, Rooted, Start, Walking, Changes
    <2>6. Accounted'
      BY DEF Inv, Accounted, Holding, Void, Creating, Walking
    <2> QED BY <2>1, <2>2, <2>3, <2>4, <2>5, <2>6 DEF Inv
  <1> QED BY <1>1, InvClient, InvServer, ServerFrame DEF Next, Inv

\* The end of a handler leaves the Fids and Files that programs hold where they are,
LEMMA WorksServer ==
    ASSUME Inv, HandleWorks, NEW r \in reqs, tWalkFinds(r) \/ Answers(r)
    PROVE  HandleWorks'
  <1> USE DEF Inv
  <1>1. CASE tWalkFinds(r)
    BY <1>1 DEF tWalkFinds, HandleWorks
  <1>2. CASE Answers(r)
    <2>1. PICK res, v : Effect(r, res, v) /\ table' = [table EXCEPT ![Changes(r)] = v]
      BY <1>2 DEF Answers
    <2>2. handle' = handle /\ moved' = moved /\ Changes(r) \in Fids /\ r.names \in Place
      BY <1>2, RequestFacts DEF Answers
    <2> SUFFICES ASSUME NEW f \in Fids, handle[f] # None
                 PROVE  table'[f] # None /\ (f \notin moved => table'[f] = handle[f])
      BY <2>2 DEF HandleWorks
    <2>3. table[f] # None /\ table[f] \in Place /\ (f \notin moved => table[f] = handle[f])
      BY DEF HandleWorks, Shape
    <2>4. CASE f # Changes(r)
      BY <2>1, <2>3, <2>4 DEF Shape
    <2>5. CASE f = Changes(r)
      <3>1. r.type = "Topen" \/ (r.type = "Tcreate" /\ f \in moved)
        BY <2>5 DEF Settled, Changes
      <3>2. v = table[f] \/ (f \in moved /\ v = table[f] \o r.names)
        BY <2>1, <2>5, <3>1 DEF Effect
      <3>3. v # None
        BY <2>2, <2>3, <3>2, JoinFacts
      <3>4. table'[f] = v
        BY <2>1, <2>5 DEF Shape
      <3> QED BY <2>3, <3>2, <3>3, <3>4
    <2> QED BY <2>4, <2>5
  <1> QED BY <1>1, <1>2

\* and so does every other step.
LEMMA WorksNext ==
    ASSUME Inv, HandleWorks, [Next]_vars
    PROVE  HandleWorks'
  <1> USE DEF Inv
  <1>1. CASE UNCHANGED vars
    BY <1>1 DEF vars, HandleWorks
  <1>2. ASSUME NEW g \in Procs, Client(g) PROVE HandleWorks'
    <2>1. CASE Begins(g) \/ (\E q : Sends(g, q)) \/ Withdraws(g)
      <3>1. UNCHANGED <<handle, table, moved>>
        BY <2>1, CancelFrame DEF Begins, Sends
      <3> QED BY <3>1 DEF HandleWorks
    <2>2. ASSUME NEW f \in Fids, UsesFid(g, f) PROVE HandleWorks'
      <3>1. table' = table /\ moved \subseteq moved' /\ \A x \in Fids : handle'[x] \in {handle[x], None}
        BY <2>2 DEF UsesFid, Shape
      <3> QED BY <3>1 DEF HandleWorks
    <2>3. CASE TakesReply(g)
      <3>1. table' = table /\ (Delivers(g) \/ Fails(g) \/ GivesUp(g) \/ Advances(g))
        BY <2>3, ReplyFrame
      <3>2. CASE Delivers(g)
        BY <2>3, <3>1, <3>2, DeliverFacts DEF HandleWorks
      <3> QED BY <3>1, <3>2 DEF HandleWorks, Fails, GivesUp, Advances
    <2>4. CASE \E r \in reqs : Answers(r)
      BY <2>4, WorksServer
    <2> QED BY <1>2, <2>1, <2>2, <2>3, <2>4, ClientSteps
  <1> QED BY <1>1, <1>2, WorksServer, ServerFrame DEF Next

-----------------------------------------------------------------------------
(***************************************************************************)
(* The theorems.                                                           *)
(***************************************************************************)

\* Whatever calls of the client (session.go, fid.go, file.go) fail, are cancelled or
\* overtake each other, each request at the server is the one its goroutine waits
\* for or a leftover of a cancelled call, and a fid being established is known to
\* its call only.
THEOREM InvInvariant == Spec => [](Inv /\ HandleWorks)
  BY InvInit, InvNext, WorksNext, PTL DEF Spec

\* The type invariant: no batch of a walk goes beyond the names asked for, and
\* neither the root nor the server's table holds a fid allocFid has not given out.
THEOREM TypeCorrect == Spec => []TypeOK
  <1>1. Inv => TypeOK
    BY DEF Inv, Shape
  <1> QED BY <1>1, InvInvariant, PTL

\* What Attach, Walk, Open and Create return (session.go, fid.go, file.go) is
\* established at the server exactly where the program asked for, however many
\* batches the walk took and whatever else is cancelled or still runs at the server.
THEOREM HandlesWork == Spec => []HandleWorks
  BY InvInvariant, PTL

\* No failure of a call leaves a fid behind at the server (the clunks of walk, Open,
\* Create and Symlink in fid.go and file.go): only a cancelled call may, and one whose
\* Tclunk or Tremove finds no free tag (rpc in client.go).
THEOREM LeaksAreExplained == Spec => []LeaksExplained
  <1>1. Inv => LeaksExplained
    BY DEF Inv, Accounted, LeaksExplained, InUse, Holding
  <1> QED BY <1>1, InvInvariant, PTL
=============================================================================
