----------------------------- MODULE ClientFids -----------------------------
(***************************************************************************)
(* What the client's calls do to fids (src/client/session.go, fid.go and   *)
(* the Open, Create and Symlink of file.go): each is a series of rpcs that *)
(* may fail or be cancelled half way, while other goroutines use the same  *)
(* client.                                                                 *)
(*                                                                         *)
(* The server is this repository's, reduced to its fid table: a handler    *)
(* may still be running, and change the table, after its request has been  *)
(* flushed.  How replies find their calls is CallMux's subject: here every *)
(* call gets its own.                                                      *)
(***************************************************************************)
EXTENDS Naturals, Sequences, FiniteSets

CONSTANTS
    Names,      \* path elements
    Paths,      \* the paths programs ask for
    Procs,      \* goroutines using the client
    MaxWElem,   \* p9.MaxWElem
    MaxFid,     \* bound on the fids allocated
    MaxCalls,   \* bound on the calls
    None        \* no fid, no place, no process

Fids == 1..MaxFid

ASSUME PathsAssumption == Paths \subseteq Seq(Names) /\ <<>> \notin Paths
ASSUME BoundsAssumption == {MaxWElem, MaxFid, MaxCalls} \subseteq Nat \ {0}
ASSUME NoneAssumption == None \notin Seq(Names) \cup Procs

\* Where a fid is: a path below the root.
Place == Seq(Names)

VARIABLES
    nextFid,   \* Client.nextFid
    root,      \* Client.root, 0 for nil
    handle,    \* the Fids and Files programs hold: where they take each to be
    pc,        \* what each goroutine waits for, or is about to send
    job,       \* the call each goroutine is making
    reply,     \* the reply that has arrived for it
    reqs,      \* the requests at the server
    table,     \* conn.fids: where each fid is
    moved,     \* the fids a program has used Fid.Create on, which it cannot
               \* place any more, and those walked to from them
    calls,     \* how many calls have begun
    spoiled    \* the fids of calls that were cancelled, and those whose Tclunk
               \* or Tremove could not be sent

vars == <<nextFid, root, handle, pc, job, reqs, reply, table, moved, calls, spoiled>>

\* op: the call; path: where it is to get; names: what it walks, done of them
\* reached; from: the fid it walks from; fid: the fid it establishes or uses;
\* cur: the fid the next batch starts from; quiet: clunkQuiet, whose ctx is
\* never done.
NoJob == [op |-> "none", path |-> <<>>, names |-> <<>>, done |-> 0, from |-> 0,
          fid |-> 0, cur |-> 0, quiet |-> FALSE]

Request == [type : {"Tattach", "Twalk", "Topen", "Tcreate", "Tclunk", "Tremove"},
            fid : Fids, newfid : 0..MaxFid, names : Seq(Names),
            base : Place \cup {None}, by : Procs \cup {None}]

\* The type invariant; no batch goes beyond the names asked for, and the root
\* and everything in the server's table are fids that were allocated.
TypeOK ==
    /\ nextFid \in 0..MaxFid
    /\ root \in 0..nextFid
    /\ DOMAIN handle = Fids /\ DOMAIN table = Fids
    /\ \A f \in Fids : /\ handle[f] \in Place \cup {None}
                       /\ table[f] \in Place \cup {None}
                       /\ table[f] # None => f <= nextFid
    /\ pc \in [Procs -> {"idle", "attach", "walk", "walking", "use", "using",
                         "clunk", "clunking", "fid"}]
    /\ \A g \in Procs : job[g].done \in 0..Len(job[g].names) /\ job[g].fid \in 0..nextFid
    /\ reply \in [Procs -> {"none", "ok", "short", "error"}]
    /\ \A r \in reqs : r \in Request
    /\ spoiled \subseteq Fids /\ moved \subseteq Fids
    /\ calls \in 0..MaxCalls

Init ==
    /\ nextFid = 0
    /\ root = 0
    /\ handle = [f \in Fids |-> None]
    /\ pc = [g \in Procs |-> "idle"]
    /\ job = [g \in Procs |-> NoJob]
    /\ reply = [g \in Procs |-> "none"]
    /\ reqs = {}
    /\ table = [f \in Fids |-> None]
    /\ spoiled = {} /\ moved = {} /\ calls = 0

-----------------------------------------------------------------------------
(***************************************************************************)
(* rpc.                                                                    *)
(***************************************************************************)

\* rpc: g sends a request and waits at label (or registerFails takes it back).
rpc(g, type, fid, newfid, names, label) ==
    /\ reqs' = reqs \cup {[type |-> type, fid |-> fid, newfid |-> newfid,
                           names |-> names, base |-> None, by |-> g]}
    /\ pc' = [pc EXCEPT ![g] = label]

\* g takes its reply and goes on at label.
goto(g, label) ==
    /\ pc' = [pc EXCEPT ![g] = label]
    /\ reply' = [reply EXCEPT ![g] = "none"]

\* The call ends: the program gets an error, or a Fid or File.
return(g) ==
    /\ goto(g, "idle")
    /\ job' = [job EXCEPT ![g] = NoJob]

returnErr(g) == return(g) /\ UNCHANGED <<handle, moved>>

returnFid(g) ==
    /\ return(g)
    /\ handle' = [handle EXCEPT ![job[g].fid] = job[g].path]
    /\ moved' = IF job[g].from \in moved THEN moved \cup {job[g].fid} ELSE moved

\* g begins a call.
begin(g, j) ==
    /\ pc[g] = "idle"
    /\ calls < MaxCalls /\ calls' = calls + 1
    /\ job' = [job EXCEPT ![g] = j]

\* allocFid
allocFid == nextFid < MaxFid /\ nextFid' = nextFid + 1

-----------------------------------------------------------------------------
(***************************************************************************)
(* Faulty variants: slips this code could plausibly have.  They are no     *)
(* part of Spec; each is used to show that a property below would notice.  *)
(***************************************************************************)

\* Every batch starts from the Fid that Walk was called on.
walkFromStart(g, n) == [job EXCEPT ![g].done = n]

\* The index goes on by a whole batch, the last one too.
walkPastEnd(g, n) == [job EXCEPT ![g].done = @ + MaxWElem, ![g].cur = job[g].fid]

\* A failure of a later batch is returned without a clunk.
clunkOnShortOnly(g) == reply[g] = "short"

-----------------------------------------------------------------------------
(***************************************************************************)
(* The calls.                                                              *)
(***************************************************************************)

\* AttachContext
Attach(g) ==
    /\ allocFid
    /\ begin(g, [NoJob EXCEPT !.op = "Attach", !.fid = nextFid + 1])
    /\ rpc(g, "Tattach", nextFid + 1, 0, <<>>, "attach")
    /\ UNCHANGED <<root, handle, reply, table, moved, spoiled>>

attachReply(g) ==
    /\ pc[g] = "attach" /\ reply[g] # "none"
    /\ \/ reply[g] = "ok" /\ root' = job[g].fid /\ returnFid(g)
       \/ reply[g] # "ok" /\ UNCHANGED root /\ returnErr(g)
    /\ UNCHANGED <<nextFid, reqs, table, spoiled, calls>>

\* WalkContext of names from fid f begins, in a call that is to get to path.
walkBegins(g, op, f, names, path) ==
    /\ allocFid
    /\ begin(g, [NoJob EXCEPT !.op = op, !.path = path, !.names = names,
                              !.from = f, !.fid = nextFid + 1, !.cur = f])
    /\ pc' = [pc EXCEPT ![g] = "walk"]
    /\ UNCHANGED <<root, handle, reply, reqs, table, moved, spoiled>>

\* Fid.WalkContext, to clone the fid too.  The Fids walked from here are roots,
\* so that every place is a path.
Walk(g, f, p) == handle[f] = <<>> /\ walkBegins(g, "Walk", f, p, p)

\* Client.OpenContext walks to the path, CreateContext and SymlinkContext to its
\* directory.
OpenPath(g, p) == root # 0 /\ walkBegins(g, "Open", root, p, p)

CreatePath(g, op, p) ==
    root # 0 /\ walkBegins(g, op, root, SubSeq(p, 1, Len(p) - 1), p)

\* The next names, MaxWElem at most.
batch(g) ==
    LET j   == job[g]
        end == IF j.done + MaxWElem < Len(j.names) THEN j.done + MaxWElem ELSE Len(j.names)
    IN  SubSeq(j.names, j.done + 1, end)

walkBatch(g) ==
    /\ pc[g] = "walk"
    /\ rpc(g, "Twalk", job[g].cur, job[g].fid, batch(g), "walking")
    /\ UNCHANGED <<nextFid, root, handle, job, reply, table, moved, spoiled, calls>>

\* n names reached: the next batch starts from the new fid.
walked(g, n) == [job EXCEPT ![g].done = n, ![g].cur = job[g].fid]

\* Whether a walk that failed has a fid to release.
clunkNeeded(g) == job[g].done > 0 \/ reply[g] = "short"

walkReply(g) ==
    /\ pc[g] = "walking" /\ reply[g] # "none"
    /\ LET n == job[g].done + Len(batch(g))
       IN  \/ /\ reply[g] = "ok" /\ n < Len(job[g].names)
              /\ job' = walked(g, n)
              /\ goto(g, "walk") /\ UNCHANGED <<handle, moved>>
           \/ /\ reply[g] = "ok" /\ n = Len(job[g].names) /\ job[g].op # "Walk"
              /\ job' = walked(g, n)
              /\ goto(g, "use") /\ UNCHANGED <<handle, moved>>
           \/ /\ reply[g] = "ok" /\ n = Len(job[g].names) /\ job[g].op = "Walk"
              /\ returnFid(g)
           \/ /\ reply[g] # "ok" /\ clunkNeeded(g)
              /\ job' = [job EXCEPT ![g].quiet = TRUE]
              /\ goto(g, "clunk") /\ UNCHANGED <<handle, moved>>
           \/ /\ reply[g] # "ok" /\ ~clunkNeeded(g)
              /\ returnErr(g)
    /\ UNCHANGED <<nextFid, root, reqs, table, spoiled, calls>>

\* OpenFileContext, CreateFileContext or Fid.SymlinkContext on the new fid.
use(g) ==
    /\ pc[g] = "use"
    /\ \/ /\ job[g].op = "Open"
          /\ rpc(g, "Topen", job[g].fid, 0, <<>>, "using")
       \/ /\ job[g].op # "Open"
          /\ rpc(g, "Tcreate", job[g].fid, 0, <<job[g].path[Len(job[g].path)]>>, "using")
    /\ UNCHANGED <<nextFid, root, handle, job, reply, table, moved, spoiled, calls>>

\* A File is returned; after a failure, and always after Symlink, the fid is
\* clunked, under the same ctx.
useReply(g) ==
    /\ pc[g] = "using" /\ reply[g] # "none"
    /\ \/ /\ reply[g] = "ok" /\ job[g].op # "Symlink"
          /\ returnFid(g)
       \/ /\ reply[g] # "ok" \/ job[g].op = "Symlink"
          /\ goto(g, "clunk") /\ UNCHANGED <<job, handle, moved>>
    /\ UNCHANGED <<nextFid, root, reqs, table, spoiled, calls>>

clunk(g) ==
    /\ pc[g] = "clunk"
    /\ rpc(g, "Tclunk", job[g].fid, 0, <<>>, "clunking")
    /\ UNCHANGED <<nextFid, root, handle, job, reply, table, moved, spoiled, calls>>

clunkReply(g) ==
    /\ pc[g] = "clunking" /\ reply[g] # "none"
    /\ returnErr(g)
    /\ UNCHANGED <<nextFid, root, reqs, table, spoiled, calls>>

\* Fid.Clunk and Remove: the program gives the Fid up when it calls them.
FidRelease(g, f, type) ==
    /\ handle[f] # None
    /\ begin(g, [NoJob EXCEPT !.op = type, !.fid = f])
    /\ handle' = [handle EXCEPT ![f] = None]
    /\ rpc(g, type, f, 0, <<>>, "fid")
    /\ UNCHANGED <<nextFid, root, reply, table, moved, spoiled>>

\* Fid.Create and Fid.Symlink; once on each Fid, a bound.  (Open, Stat, WStat,
\* Read and Write on a Fid or File change nothing here.)
FidCreate(g, f, name) ==
    /\ handle[f] # None /\ f \notin moved
    /\ begin(g, [NoJob EXCEPT !.op = "Tcreate", !.fid = f])
    /\ rpc(g, "Tcreate", f, 0, <<name>>, "fid")
    /\ moved' = moved \cup {f} \cup {job[h].fid : h \in {x \in Procs : job[x].from = f}}
    /\ UNCHANGED <<nextFid, root, handle, reply, table, spoiled>>

fidReply(g) ==
    /\ pc[g] = "fid" /\ reply[g] # "none"
    /\ returnErr(g)
    /\ UNCHANGED <<nextFid, root, reqs, table, spoiled, calls>>

\* ctx is done while the call waits: after the Tflush the call fails.  A request
\* that waits for a slot may be dropped; a handler runs on, for nobody.
cancel(g) ==
    /\ pc[g] \in {"attach", "walking", "using", "clunking", "fid"}
    /\ reply[g] = "none" /\ ~job[g].quiet
    /\ \E r \in reqs :
          /\ r.by = g
          /\ \/ reqs' = (reqs \ {r}) \cup {[r EXCEPT !.by = None]}
             \/ r.base = None /\ reqs' = reqs \ {r}
    /\ reply' = [reply EXCEPT ![g] = "error"]
    /\ spoiled' = spoiled \cup {job[g].fid}
    /\ UNCHANGED <<nextFid, root, handle, pc, job, table, moved, calls>>

\* register finds no free tag: the call fails, the request was never sent.
registerFails(g) ==
    /\ pc[g] \in {"attach", "walking", "using", "clunking", "fid"}
    /\ reply[g] = "none"
    /\ \E r \in reqs :
          /\ r.by = g /\ r.base = None
          /\ reqs' = reqs \ {r}
          /\ spoiled' = IF r.type \in {"Tclunk", "Tremove"}
                           THEN spoiled \cup {job[g].fid} ELSE spoiled
    /\ reply' = [reply EXCEPT ![g] = "error"]
    /\ UNCHANGED <<nextFid, root, handle, pc, job, table, moved, calls>>

-----------------------------------------------------------------------------
(***************************************************************************)
(* The server's handlers.  Any of them may fail.                           *)
(***************************************************************************)

\* The handler of r ends with outcome res.
answer(r, res) ==
    /\ reqs' = reqs \ {r}
    /\ reply' = IF r.by = None THEN reply ELSE [reply EXCEPT ![r.by] = res]
    /\ UNCHANGED <<nextFid, root, handle, pc, job, moved, spoiled, calls>>

tAttach(r) ==
    /\ r.type = "Tattach"
    /\ \/ answer(r, "ok") /\ table' = [table EXCEPT ![r.fid] = <<>>]
       \/ answer(r, "error") /\ UNCHANGED table

\* tWalk looks the fid up, and walks from there; what it reaches becomes newfid,
\* also when only some of the names were found.
tWalkFinds(r) ==
    /\ r.type = "Twalk" /\ r.base = None /\ table[r.fid] # None
    /\ reqs' = (reqs \ {r}) \cup {[r EXCEPT !.base = table[r.fid]]}
    /\ UNCHANGED <<nextFid, root, handle, pc, job, reply, table, moved, spoiled, calls>>

tWalkPuts(r, n) ==
    /\ r.type = "Twalk" /\ r.base # None
    /\ answer(r, IF n = Len(r.names) THEN "ok" ELSE "short")
    /\ n \in 1..Len(r.names) \/ n = Len(r.names)
    /\ table' = [table EXCEPT ![r.newfid] = r.base \o SubSeq(r.names, 1, n)]

tWalkFails(r) ==
    /\ r.type = "Twalk" /\ (r.base # None \/ table[r.fid] = None)
    /\ answer(r, "error") /\ UNCHANGED table

\* tOpen, and tCreate, which repositions the fid.
tUse(r) ==
    /\ r.type \in {"Topen", "Tcreate"}
    /\ \/ /\ table[r.fid] # None
          /\ answer(r, "ok")
          /\ \/ r.type = "Topen" /\ UNCHANGED table
             \/ r.type = "Tcreate" /\ table' = [table EXCEPT ![r.fid] = @ \o r.names]
       \/ answer(r, "error") /\ UNCHANGED table

\* tClunk and tRemove: the fid goes, whatever becomes of the File.
tClunkRemove(r) ==
    /\ r.type \in {"Tclunk", "Tremove"}
    /\ answer(r, "ok") \/ answer(r, "error")
    /\ table' = [table EXCEPT ![r.fid] = None]

-----------------------------------------------------------------------------
Client(g) ==
    \/ Attach(g) \/ attachReply(g) \/ cancel(g) \/ registerFails(g)
    \/ \E f \in Fids, p \in Paths \cup {<<>>} : Walk(g, f, p)
    \/ \E p \in Paths : OpenPath(g, p) \/ \E op \in {"Create", "Symlink"} : CreatePath(g, op, p)
    \/ walkBatch(g) \/ walkReply(g) \/ use(g) \/ useReply(g) \/ clunk(g) \/ clunkReply(g)
    \/ \E f \in Fids : \/ \E type \in {"Tclunk", "Tremove"} : FidRelease(g, f, type)
                      \/ \E name \in Names : FidCreate(g, f, name)
    \/ fidReply(g)

Server(r) ==
    \/ tAttach(r) \/ tWalkFinds(r) \/ tWalkFails(r) \/ tUse(r) \/ tClunkRemove(r)
    \/ \E n \in 0..Len(r.names) : tWalkPuts(r, n)

Next ==
    \/ \E g \in Procs : Client(g)
    \/ \E r \in reqs : Server(r)

Spec == Init /\ [][Next]_vars

-----------------------------------------------------------------------------
(***************************************************************************)
(* Properties.                                                             *)
(***************************************************************************)

\* A Fid or File that Attach, Walk, Open or Create has returned is established at
\* the server, exactly where the program asked for, however many batches the walk
\* took and whatever else fails, is cancelled or still runs at the server, until
\* the program itself clunks, removes or repositions it.
HandleWorks ==
    \A f \in Fids :
        handle[f] # None =>
            table[f] # None /\ (f \notin moved => table[f] = handle[f])

\* The fids some call or handler is at work on.
InUse == {job[g].fid : g \in Procs} \cup {r.newfid : r \in reqs} \cup {r.fid : r \in reqs}

\* A call that fails leaves no fid behind at the server (walk in batches, a short
\* walk, a failed open or create, Symlink): a fid nobody holds is one whose call
\* was cancelled, or whose Tclunk or Tremove found no free tag.
LeaksExplained ==
    \A f \in Fids :
        table[f] # None /\ handle[f] = None /\ f \notin InUse => f \in spoiled
=============================================================================
