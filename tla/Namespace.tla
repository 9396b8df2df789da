----------------------------- MODULE Namespace -----------------------------
(***************************************************************************)
(* The namespaces of src/ns: a bind tree whose nodes carry layers (ns.go), *)
(* how a name is walked, listed, resolved and mapped to a host path        *)
(* through it (file.go, binds.go, hostpath.go), the bind log (bindlog.go)  *)
(* and Clone (clone.go), under concurrent binds, unbinds and clones.       *)
(*                                                                         *)
(* A node is a namespace and a path: ensureNode never makes two for one    *)
(* path and none is ever removed.  What a layer serves is a FileSystem     *)
(* with a fixed tree of names that may be reachable or not; caching its    *)
(* attached root in the layer (layer.resolved) therefore has no effect.    *)
(* The readers are operators on one state: a walk that overlaps a bind     *)
(* sees each node before or after it.                                      *)
(***************************************************************************)
EXTENDS Naturals, FiniteSets, SequencesExt

CONSTANTS
    Names,      \* path elements; ".." is not among them
    Nodes,      \* the paths a bind may create nodes at
    FSs,        \* the FileSystems that may be bound
    NoFS,       \* nil
    Content,    \* the paths inside each FileSystem
    Hosts,      \* the FileSystems that are host directories (HostDirer)
    Flaky,      \* the FileSystems that may be unreachable for a while
    Requests,   \* the calls a program may make on a namespace
    Procs,      \* goroutines making them
    MaxNS,      \* bound on the namespaces: the original and its clones
    MaxOps,     \* bound on the calls
    MaxLog,     \* maxLogEntries
    MaxHops,    \* maxHostPathHops
    DevRange    \* how many values a dev has: 2^32

Namespaces   == 1..MaxNS
Path         == Seq(Names)
Dispositions == {"replace", "before", "after"}

\* A server.File: an nsFile on the node at path of namespace ns, "direct" if it
\* is that nsFile (or a roFile around it), not one that another nsFile delegates
\* to; or the file at path inside fs, stamped with dev.  ro: some roFile is
\* around it.
NodeFiles == [fs : {NoFS}, ns : Namespaces, path : Nodes,
              direct : BOOLEAN, ro : BOOLEAN, dev : {0}]
FSFiles   == [fs : FSs, ns : {0}, path : Path,
              direct : {FALSE}, ro : BOOLEAN, dev : Nat]
File      == NodeFiles \cup FSFiles

NodeFile(n, p)    == [fs |-> NoFS, ns |-> n, path |-> p,
                      direct |-> TRUE, ro |-> FALSE, dev |-> 0]
FSFile(x, p, ro)  == [fs |-> x, ns |-> 0, path |-> p,
                      direct |-> FALSE, ro |-> ro, dev |-> 0]

\* The error result, and the zero value of a layer's resolved field.
NoFile == NodeFile(0, <<>>)
ok(f)  == f # NoFile

\* BindFS makes a layer with fs and sub, BindPath one with the File it walked
\* to, which it wraps if the bind is read-only, and the path it walked.
Layer == {l \in [fs : FSs \cup {NoFS}, sub : Path, resolved : File \cup {NoFile}, src : Path,
                 seq : Nat, ro : BOOLEAN] :
             l.fs = NoFS /\ l.ro => l.resolved.ro}

FSCall(r)   == r.op = "BindFS"   /\ r.fs \in FSs /\ r.sub \in Path /\ r.dst \in Nodes
\* (Without a source BindPathOpts fails before it changes anything.)
PathCall(r) ==
    r.op = "BindPath" /\ r.srcs \in Seq(Path) \ {<<>>} /\ r.dst \in Nodes

ASSUME NodesAssumption ==
    /\ IsFiniteSet(Nodes) /\ <<>> \in Nodes
    /\ \A p \in Nodes : p \in Path /\ Prefixes(p) \subseteq Nodes
ASSUME ContentAssumption ==
    \A x \in FSs : <<>> \in Content[x] /\ \A p \in Content[x] : Prefixes(p) \subseteq Content[x]
ASSUME RequestsAssumption ==
    \A r \in Requests :
        \/ (FSCall(r) \/ PathCall(r)) /\ r.disp \in Dispositions /\ r.ro \in BOOLEAN
        \/ r.op = "Unbind" /\ r.dst \in Path
        \/ r.op = "Clone"
ASSUME FSAssumption == NoFS \notin FSs /\ Hosts \subseteq FSs /\ Flaky \subseteq FSs
ASSUME BoundsAssumption == {MaxNS, MaxOps, MaxLog, MaxHops, DevRange} \subseteq Nat \ {0}

VARIABLES
    tree,      \* the nodes of each namespace
    layers,    \* node.layers
    seq,       \* Namespace.seq
    log,       \* bindLog.entries
    dropped,   \* bindLog.dropped
    live,      \* the namespaces New or Clone has returned
    dead,      \* the FileSystems that cannot be reached
    pc, job,   \* where each goroutine is, and the call it is making
    ops,       \* how many calls have been made
    raced,     \* namespaces whose calls overlapped, or cloned from one in use
    outrun     \* clones of a namespace that gave out numbers meanwhile, and theirs

nsVars   == <<tree, layers, seq, log, dropped, live, outrun>>
procVars == <<pc, job, ops>>
vars     == <<nsVars, procVars, dead, raced>>

Entry ==
    [seq : Nat, op : {"bind"}, dst : Nodes, disp : Dispositions, ro : BOOLEAN,
     src : Seq([fs : FSs \cup {NoFS}, path : Path])]
    \cup
    [seq : Nat, op : {"unbind"}, dst : Nodes, disp : {""}, ro : {FALSE}, src : {<<>>}]

NoJob == [ns |-> 0, dst |-> <<>>, disp |-> "", new |-> <<>>, to |-> 0,
          seq |-> 0, copied |-> {}, ro |-> FALSE]

\* The type invariant; a node's parent is a node, and every layer is at a node.
TypeOK ==
    /\ tree \in [Namespaces -> SUBSET Nodes]
    /\ \A n \in Namespaces : \A p \in tree[n] : Prefixes(p) \subseteq tree[n] \/ n \notin live
    /\ layers \in [Namespaces -> [Nodes -> Seq(Layer)]]
    /\ \A n \in Namespaces, p \in Nodes : layers[n][p] # <<>> => p \in tree[n]
    /\ seq \in [Namespaces -> Nat]
    /\ log \in [Namespaces -> Seq(Entry)]
    /\ dropped \in [Namespaces -> Nat]
    /\ live \subseteq Namespaces /\ raced \subseteq Namespaces /\ outrun \subseteq live
    /\ dead \subseteq Flaky
    /\ pc \in [Procs -> {"idle", "add", "log", "copy", "fix"}]
    /\ DOMAIN job = Procs
    /\ ops \in 0..MaxOps

\* New.
Init ==
    /\ tree = [n \in Namespaces |-> IF n = 1 THEN {<<>>} ELSE {}]
    /\ layers = [n \in Namespaces |-> [p \in Nodes |-> <<>>]]
    /\ seq = [n \in Namespaces |-> 0]
    /\ log = [n \in Namespaces |-> <<>>]
    /\ dropped = [n \in Namespaces |-> 0]
    /\ live = {1}
    /\ dead = {}
    /\ pc = [g \in Procs |-> "idle"]
    /\ job = [g \in Procs |-> NoJob]
    /\ ops = 0
    /\ raced = {} /\ outrun = {}

-----------------------------------------------------------------------------
(***************************************************************************)
(* Faulty variants: slips this code could plausibly have.  They are no     *)
(* part of Spec; each is used to show that a property below would notice.  *)
(***************************************************************************)

\* Only the last node of the path is made.
ensureNodeLast(n, p) == tree' = [tree EXCEPT ![n] = @ \cup {p}]

\* The layer's read-only flag, or its dev, is not looked at.
throughForgets(f, l, got) ==
    [got EXCEPT !.ro = got.ro \/ f.ro, !.direct = FALSE]

\* Resolve stays with the first layer, reachable or not.
servingFirst(ls, name) == IF ls = <<>> THEN 0 ELSE 1

\* The subtree that a layer was bound with is forgotten.
hostFileRoot(l, inner) == FSFile(l.fs, inner, FALSE)

\* "before" goes behind.
addLayersBehind(g) ==
    /\ pc[g] = "add"
    /\ layers' = [layers EXCEPT ![job[g].ns][job[g].dst] =
                     IF job[g].disp = "replace" THEN job[g].new ELSE @ \o job[g].new]
    /\ pc' = [pc EXCEPT ![g] = "log"]
    /\ UNCHANGED <<tree, seq, log, dropped, live, outrun, dead, job, ops, raced>>

\* A cloned layer keeps its reference into the original's tree.
remapFileNot(f, n, c) == f

-----------------------------------------------------------------------------
(***************************************************************************)
(* Walk: tree children first, then the layers in union order.              *)
(***************************************************************************)

\* layer.dev: a layer that binds a path passes its files' dev through.
dev(l) == IF l.fs = NoFS THEN 0 ELSE l.seq % DevRange

\* layer.root
root(l) ==
    IF l.fs = NoFS THEN l.resolved
    ELSE IF l.fs \in dead \/ l.sub \notin Content[l.fs] THEN NoFile
    ELSE FSFile(l.fs, l.sub, l.ro)

\* Walk of a name inside a FileSystem.
walkFS(f, name) ==
    IF f.fs \in dead \/ Append(f.path, name) \notin Content[f.fs] THEN NoFile
    ELSE [f EXCEPT !.path = Append(@, name)]

\* The nsFile around what a layer of node f served: dev as the layer says, and
\* read-only if f is.
through(f, l, got) ==
    [got EXCEPT !.ro = got.ro \/ f.ro, !.direct = FALSE,
                !.dev = IF dev(l) # 0 THEN dev(l) ELSE @]

\* nsFile.Walk and roFile.Walk, where inner walks the roots of the layers.
walkNode(inner, f, name) ==
    IF Append(f.path, name) \in tree[f.ns] THEN [f EXCEPT !.path = Append(@, name)]
    ELSE LET ls  == layers[f.ns][f.path]
             got == [i \in DOMAIN ls |->
                        IF ok(root(ls[i])) THEN inner[root(ls[i])][name] ELSE NoFile]
             i   == SelectInSeq(got, ok)
         IN  IF i = 0 THEN NoFile ELSE through(f, ls[i], got[i])

\* The recursion goes from a node to the nodes its path binds refer to, and last
\* into a FileSystem.  Depth bounds it: path binds that form a cycle lead the code
\* into it without end.
Depth == Cardinality(Nodes) * MaxNS + 1
noWalk == [f \in File |-> [name \in Names |-> NoFile]]
Walks[d \in 0..Depth] ==
    [f \in File |-> [name \in Names |->
        IF f.fs # NoFS THEN walkFS(f, name)
        ELSE walkNode(IF d = 0 THEN noWalk ELSE Walks[d - 1], f, name)]]

Walk(f, name) == IF ok(f) THEN Walks[Depth][f][name] ELSE NoFile

walkAll(f, parts) ==
    LET at[i \in 0..Len(parts)] == IF i = 0 THEN f ELSE Walk(at[i - 1], parts[i])
    IN  at[Len(parts)]

\* Attach
Root(n) == NodeFile(n, <<>>)

-----------------------------------------------------------------------------
(***************************************************************************)
(* Directory listings: the names, each with its dev, unless they fail.     *)
(***************************************************************************)
Listing   == [ok : BOOLEAN, es : SUBSET [name : Names, dev : Nat]]
ListError == [ok |-> FALSE, es |-> {}]

children(n, p) == {x \in Names : Append(p, x) \in tree[n]}

\* The entries of es whose names are not in the listing yet.
unseen(es, seen) == {e \in es : \A s \in seen : s.name # e.name}

\* layer.list: every entry carries the layer's dev, if it has one.
stamped(es, l) == IF dev(l) = 0 THEN es ELSE {[e EXCEPT !.dev = dev(l)] : e \in es}

\* ReadDirEntries of a directory inside a FileSystem.
listFS(f) ==
    IF f.fs \in dead THEN ListError
    ELSE [ok |-> TRUE,
          es |-> {[name |-> x, dev |-> f.dev] :
                     x \in {y \in Names : Append(f.path, y) \in Content[f.fs]}}]

\* nsFile.Read and listLocalDir, where inner lists the roots of the layers: the
\* children, and from every layer what no child and no layer before it shows.  A
\* layer that fails is skipped, unless all do and there is nothing else to show.
listNode(inner, f) ==
    LET ls  == layers[f.ns][f.path]
        own == {[name |-> x, dev |-> 0] : x \in children(f.ns, f.path)}
        got == [i \in DOMAIN ls |->
                   IF ok(root(ls[i])) THEN inner[root(ls[i])] ELSE ListError]
        new(i) == unseen(unseen(stamped(got[i].es, ls[i]), own),
                         UNION {got[j].es : j \in 1..(i - 1)})
    IN  [ok |-> ls = <<>> \/ own # {} \/ \E i \in DOMAIN ls : got[i].ok,
         es |-> own \cup UNION {new(i) : i \in DOMAIN ls}]

noList == [f \in File |-> ListError]
Lists[d \in 0..Depth] ==
    [f \in File |->
        IF f.fs # NoFS THEN listFS(f)
        ELSE listNode(IF d = 0 THEN noList ELSE Lists[d - 1], f)]

-----------------------------------------------------------------------------
(***************************************************************************)
(* Resolve and HostPath.                                                   *)
(***************************************************************************)

\* The number of leading elements of a path that are nodes.
inTree(n, p) ==
    CHOOSE k \in 0..Len(p) :
        /\ SubSeq(p, 1, k) \in tree[n]
        /\ k < Len(p) => SubSeq(p, 1, k + 1) \notin tree[n]

\* Walk of the first name outside the tree from the root of a layer, which is one
\* level of the recursion down, and the layer resolve settles on for it, or 0.
below(l, name)    == IF ok(root(l)) THEN Walks[Depth - 1][root(l)][name] ELSE NoFile
serving(ls, name) == SelectInSeq(ls, LAMBDA l : ok(below(l, name)))

\* resolve: the layer (0 for none; the first one for a bind point), the path
\* inside it, and the dev and ro it reports.
Unresolved == [kind |-> "error", dst |-> <<>>, layer |-> 0, inner |-> <<>>,
               dev |-> 0, ro |-> FALSE]
resolve(n, p) ==
    LET k    == inTree(n, p)
        dst  == SubSeq(p, 1, k)
        rest == SubSeq(p, k + 1, Len(p))
        ls   == layers[n][dst]
    IN  IF rest = <<>>
        THEN [Unresolved EXCEPT
                 !.kind = IF ls = <<>> THEN "tree" ELSE "bindpoint", !.dst = dst,
                 !.layer = IF ls = <<>> THEN 0 ELSE 1,
                 !.ro = ls # <<>> /\ ls[1].ro]
        ELSE LET i == serving(ls, rest[1])
                 f == IF i = 0 THEN NoFile ELSE walkAll(below(ls[i], rest[1]), Tail(rest))
             IN  IF ~ok(f) THEN Unresolved
                 ELSE [kind |-> "layer", dst |-> dst, layer |-> i, inner |-> rest,
                       dev |-> IF dev(ls[i]) # 0 THEN dev(ls[i]) ELSE f.dev,
                       ro |-> ls[i].ro]

\* The host file of a path inside a layer.
hostFile(l, inner) == FSFile(l.fs, l.sub \o inner, FALSE)

\* HostPath: the file inside a host directory, following path binds by path; next
\* is what is found of the path in the source.  (A source is a path from the root:
\* one given without its leading "/" is not followed.)
hostStep(next, n, p) ==
    LET res == resolve(n, p)
        l   == layers[n][res.dst][res.layer]
    IN  IF res.kind \in {"error", "tree"} THEN NoFile
        ELSE IF l.fs \in Hosts THEN hostFile(l, res.inner)
        ELSE IF l.fs = NoFS THEN next[n][l.src \o res.inner]
        ELSE NoFile
noHost == [n \in live |-> [p \in Path |-> NoFile]]
HostPaths[hops \in 0..MaxHops] ==
    IF hops = 0 THEN noHost
    ELSE [n \in live |-> [p \in Path |-> hostStep(HostPaths[hops - 1], n, p)]]
HostPath(n, p) == HostPaths[MaxHops][n][p]

-----------------------------------------------------------------------------
(***************************************************************************)
(* Bind and unbind.  The counter, the node and the log each have a lock of *)
(* their own, so other calls run in between.                               *)
(***************************************************************************)
Busy(n) == \E h \in Procs : pc[h] # "idle" /\ job[h].ns = n

\* Goroutine g begins a call on namespace n.
Begin(g, n, label, j) ==
    /\ pc[g] = "idle" /\ n \in live /\ ops < MaxOps
    /\ pc' = [pc EXCEPT ![g] = label]
    /\ job' = [job EXCEPT ![g] = j]
    /\ ops' = ops + 1
    /\ raced' = IF Busy(n) THEN raced \cup {n} ELSE raced

End(g) == pc' = [pc EXCEPT ![g] = "idle"] /\ job' = [job EXCEPT ![g] = NoJob]

\* A node cloneNode holds the read lock of: it has been copied, and not yet
\* everything below it.
Locked(n, p) ==
    \E h \in Procs :
        /\ pc[h] = "copy" /\ job[h].ns = n /\ p \in job[h].copied
        /\ \E q \in tree[n] \ job[h].copied : IsStrictPrefix(p, q)

\* ensureNode locks every node above the one it returns.
ensureNode(n, p) ==
    /\ \A q \in Prefixes(p) \ {p} : ~Locked(n, q)
    /\ tree' = [tree EXCEPT ![n] = @ \cup Prefixes(p)]

\* BindFSOpts, up to addLayers.
BindFS(g, n, r) ==
    /\ r.op = "BindFS"
    /\ ensureNode(n, r.dst)
    /\ seq' = [seq EXCEPT ![n] = @ + 1]
    /\ LET l == [fs |-> r.fs, sub |-> r.sub, resolved |-> NoFile, src |-> <<>>,
                 seq |-> seq[n] + 1, ro |-> r.ro]
       IN  Begin(g, n, "add", [NoJob EXCEPT !.ns = n, !.dst = r.dst, !.disp = r.disp,
                                            !.new = <<l>>, !.ro = r.ro])
    /\ UNCHANGED <<layers, log, dropped, live, outrun, dead>>

\* BindPathOpts: every source is walked, and wrapped if the bind is read-only.
Sources(n, r) == [i \in DOMAIN r.srcs |-> walkAll(Root(n), r.srcs[i])]

BindPath(g, n, r) ==
    /\ r.op = "BindPath"
    /\ LET fs == Sources(n, r)
           ls == [i \in DOMAIN fs |->
                     [fs |-> NoFS, sub |-> <<>>, src |-> r.srcs[i],
                      resolved |-> [fs[i] EXCEPT !.ro = @ \/ r.ro],
                      seq |-> seq[n] + i, ro |-> r.ro]]
       IN  /\ \A i \in DOMAIN fs : ok(fs[i])
           /\ Begin(g, n, "add", [NoJob EXCEPT !.ns = n, !.dst = r.dst, !.disp = r.disp,
                                               !.new = ls, !.ro = r.ro])
    /\ seq' = [seq EXCEPT ![n] = @ + Len(r.srcs)]
    /\ ensureNode(n, r.dst)
    /\ UNCHANGED <<layers, log, dropped, live, outrun, dead>>

\* A source does not resolve: nothing is bound, but the numbers given to the
\* sources before it are used up.
BindPathFails(g, n, r) ==
    /\ r.op = "BindPath"
    /\ pc[g] = "idle" /\ n \in live /\ ops < MaxOps
    /\ \E i \in DOMAIN r.srcs :
          /\ ~ok(Sources(n, r)[i])
          /\ \A j \in 1..(i - 1) : ok(Sources(n, r)[j])
          /\ seq' = [seq EXCEPT ![n] = @ + (i - 1)]
    /\ ops' = ops + 1
    /\ UNCHANGED <<tree, layers, log, dropped, live, outrun, dead, pc, job, raced>>

spliced(old, new, disp) ==
    CASE disp = "replace" -> new
      [] disp = "before"  -> new \o old
      [] disp = "after"   -> old \o new

addLayers(g) ==
    /\ pc[g] = "add"
    /\ ~Locked(job[g].ns, job[g].dst)
    /\ layers' = [layers EXCEPT ![job[g].ns][job[g].dst] =
                                    spliced(@, job[g].new, job[g].disp)]
    /\ pc' = [pc EXCEPT ![g] = "log"]
    /\ UNCHANGED <<tree, seq, log, dropped, live, outrun, dead, job, ops, raced>>

\* Unbind a path with nothing bound at it: an error and no change.
Unbind(g, n, r) ==
    /\ r.op = "Unbind"
    /\ r.dst \in tree[n] /\ layers[n][r.dst] # <<>>
    /\ ~Locked(n, r.dst)
    /\ layers' = [layers EXCEPT ![n][r.dst] = <<>>]
    /\ Begin(g, n, "log", [NoJob EXCEPT !.ns = n, !.dst = r.dst])
    /\ UNCHANGED <<tree, seq, log, dropped, live, outrun, dead>>

\* The entry goroutine g writes about what it did.
logEntry(g) ==
    LET n == job[g].ns
    IN  [seq |-> dropped[n] + Len(log[n]) + 1,
         op |-> IF job[g].new = <<>> THEN "unbind" ELSE "bind",
         dst |-> job[g].dst, disp |-> job[g].disp, ro |-> job[g].ro,
         src |-> [i \in DOMAIN job[g].new |->
                     [fs |-> job[g].new[i].fs, path |-> job[g].new[i].src]]]

\* bindLog.record: add under the log's lock.  (The hook runs after it.)
record(g) ==
    /\ pc[g] = "log"
    /\ LET n    == job[g].ns
           full == Len(log[n]) = MaxLog
       IN  /\ log' = [log EXCEPT ![n] = Append(IF full THEN Tail(@) ELSE @, logEntry(g))]
           /\ dropped' = [dropped EXCEPT ![n] = IF full THEN @ + 1 ELSE @]
    /\ End(g)
    /\ UNCHANGED <<tree, layers, seq, live, outrun, dead, ops, raced>>

-----------------------------------------------------------------------------
(***************************************************************************)
(* Clone: the counter first, then the nodes depth first, then the layers   *)
(* (which only the clone can see by now) and the log.                      *)
(***************************************************************************)
cloneSeq(g, n) ==
    /\ [op |-> "Clone"] \in Requests
    /\ live # Namespaces
    /\ \A h \in Procs : job[h].to = 0   \* one clone at a time: a bound
    /\ Begin(g, n, "copy", [NoJob EXCEPT !.ns = n, !.to = Cardinality(live) + 1,
                                         !.seq = seq[n]])
    /\ UNCHANGED <<nsVars, dead>>

\* cloneNode copies node p, while the nodes above it stay locked.
cloneNode(g, p) ==
    /\ pc[g] = "copy"
    /\ LET n == job[g].ns
           c == job[g].to
       IN  /\ p \in tree[n] \ job[g].copied
           /\ p # <<>> => Front(p) \in job[g].copied
           /\ \A q \in tree[n] : Locked(n, q) => IsStrictPrefix(q, p)
           /\ tree' = [tree EXCEPT ![c] = @ \cup {p}]
           /\ layers' = [layers EXCEPT ![c][p] = layers[n][p]]
           /\ job' = [job EXCEPT ![g].copied = @ \cup {p}]
           /\ pc' = IF tree[n] = job[g].copied \cup {p}
                    THEN [pc EXCEPT ![g] = "fix"] ELSE pc
    /\ UNCHANGED <<seq, log, dropped, live, outrun, dead, ops, raced>>

\* remapFile: a reference to a node of n becomes one to c's copy of it, but only
\* where the File is the nsFile of that node or a roFile around it.
remapFile(f, n, c) ==
    IF f.fs = NoFS /\ f.direct /\ f.ns = n /\ f.path \in tree[c]
    THEN [f EXCEPT !.ns = c] ELSE f

\* A faulty variant of cloneFinish: the clone's counter starts afresh.
cloneFinishAfresh(g) ==
    /\ pc[g] = "fix"
    /\ LET n == job[g].ns
           c == job[g].to
           cloneLayer(l) == [l EXCEPT !.resolved = remapFile(@, n, c)]
       IN  /\ layers' = [layers EXCEPT ![c] = [p \in Nodes |->
                            [i \in DOMAIN layers[c][p] |-> cloneLayer(layers[c][p][i])]]]
           /\ log' = [log EXCEPT ![c] = log[n]]
           /\ dropped' = [dropped EXCEPT ![c] = dropped[n]]
           /\ live' = live \cup {c}
    /\ End(g)
    /\ UNCHANGED <<tree, seq, dead, ops, raced, outrun>>

\* fix, cloneLayer, the log, and the return of Clone.
cloneFinish(g) ==
    /\ pc[g] = "fix"
    /\ LET n == job[g].ns
           c == job[g].to
           cloneLayer(l) == [l EXCEPT !.resolved = remapFile(@, n, c)]
       IN  /\ layers' = [layers EXCEPT ![c] = [p \in Nodes |->
                            [i \in DOMAIN layers[c][p] |-> cloneLayer(layers[c][p][i])]]]
           /\ log' = [log EXCEPT ![c] = log[n]]
           /\ dropped' = [dropped EXCEPT ![c] = dropped[n]]
           /\ seq' = [seq EXCEPT ![c] = job[g].seq]
           /\ live' = live \cup {c}
           /\ raced' = IF n \in raced THEN raced \cup {c} ELSE raced
           /\ outrun' = IF n \in outrun \/ seq[n] # job[g].seq
                         THEN outrun \cup {c} ELSE outrun
    /\ End(g)
    /\ UNCHANGED <<tree, dead, ops>>

\* A FileSystem becomes unreachable, or reachable again.
flip(x) ==
    /\ dead' = IF x \in dead THEN dead \ {x} ELSE dead \cup {x}
    /\ UNCHANGED <<nsVars, procVars, raced>>

-----------------------------------------------------------------------------
Call(g, n) ==
    \/ \E r \in Requests :
          BindFS(g, n, r) \/ BindPath(g, n, r) \/ BindPathFails(g, n, r) \/ Unbind(g, n, r)
    \/ cloneSeq(g, n)

Next ==
    \/ \E g \in Procs, n \in Namespaces : Call(g, n)
    \/ \E g \in Procs : addLayers(g) \/ record(g) \/ cloneFinish(g)
    \/ \E g \in Procs, p \in Nodes : cloneNode(g, p)
    \/ \E x \in Flaky : flip(x)

Spec == Init /\ [][Next]_vars

-----------------------------------------------------------------------------
(***************************************************************************)
(* Properties.                                                             *)
(***************************************************************************)

\* The paths the properties look at: those of three elements at most.
Probes ==
    {<<>>} \cup {<<x>> : x \in Names} \cup {<<x, y>> : x, y \in Names}
        \cup {<<x, y, w>> : x, y, w \in Names}

\* A directory of the bind tree lists exactly the names that can be walked to
\* in it, each with the dev its Stat reports, through unions, aliases, shadowing
\* tree children and unreachable layers; it fails to list only when nothing can
\* be walked to (listLocalDir's "matching Walk's own tree-before-layers
\* precedence").
ListingMatchesWalk ==
    \A n \in live : \A p \in tree[n] :
        LET f  == NodeFile(n, p)
            es == Lists[Depth][f].es
        IN  \A x \in Names :
                {e.dev : e \in {d \in es : d.name = x}} =
                    IF ok(Walk(f, x)) THEN {Walk(f, x).dev} ELSE {}

\* Resolve reports "the same answer a real Walk would give": it fails when the
\* walk does, and names the dev the walked file carries; a path it calls
\* read-only is one that refuses writes.
ResolveMatchesWalk ==
    \A n \in live : \A p \in Probes :
        LET w   == walkAll(Root(n), p)
            res == resolve(n, p)
        IN  /\ res.kind = "error" <=> ~ok(w)
            /\ res.kind = "layer" => res.dev = w.dev /\ (res.ro => w.ro)
            /\ res.kind \in {"tree", "bindpoint"} => w = NodeFile(n, p)

\* The source of every path bind still leads to the file that was captured.
SourcesCurrent(n) ==
    \A p \in tree[n] : \A i \in DOMAIN layers[n][p] :
        LET l == layers[n][p][i]
            w == walkAll(Root(n), l.src)
        IN  l.fs = NoFS => w.fs = l.resolved.fs /\ w.ns = l.resolved.ns /\ w.path = l.resolved.path

HostPathRight(n) ==
    \A p \in Probes :
        LET w == walkAll(Root(n), p)
            h == HostPath(n, p)
        IN  ok(h) /\ w.fs # NoFS => h.fs = w.fs /\ h.path = w.path

\* HostPath "names the file a real Walk reads", through unions, read-only
\* layers, subtrees and aliases of aliases, unless the source of a path bind has
\* been rebound since: HostPath looks the source up again, Walk does not.  (A bind
\* of several sources is taken for the union that the code makes of it; the doc of
\* HostPath, src/ns/hostpath.go:51, says that HostPath fails for it.)
HostPathNamesWalked == \A n \in live : SourcesCurrent(n) => HostPathRight(n)

\* An alias refers to a node of its own namespace, so that what is bound and
\* unbound in another one does not show through it: the layers of a clone "are
\* remapped to the corresponding node of the clone, so rebinding /work inside the
\* clone changes /alias inside the clone too - and not the original's".
AliasesStayHome ==
    \A n \in live : \A p \in tree[n] : \A i \in DOMAIN layers[n][p] :
        LET f == layers[n][p][i].resolved
        IN  ok(f) /\ f.fs = NoFS => f.ns = n /\ f.path \in tree[n]

\* No two layers of FileSystems in a namespace have the same dev.
DevsApart(n) ==
    \A p, q \in Nodes : \A i \in DOMAIN layers[n][p], k \in DOMAIN layers[n][q] :
        LET l == layers[n][p][i]
            m == layers[n][q][k]
        IN  l.fs # NoFS /\ m.fs # NoFS /\ dev(l) = dev(m) => p = q /\ i = k

\* None of their devs is the 0 that means "pass through", or still to be given out.
DevsGiven(n) ==
    \A p \in Nodes : \A i \in DOMAIN layers[n][p] :
        layers[n][p][i].fs # NoFS => dev(layers[n][p][i]) \in 1..seq[n]

\* A dev "is never reused (unbind then rebind gets a new one, so a stale id can't
\* alias a later layer)", however binds overlap each other, unbinds and clones;
\* except in a clone whose original gave out a number while it was being made, and
\* until the counter runs past the 32 bits of a dev.
DevNeverReused ==
    \A n \in live \ outrun : seq[n] < DevRange => DevsApart(n) /\ DevsGiven(n)

\* The bind points and their layers as the log tells them.
toldLayers(e) == [i \in DOMAIN e.src |-> [src |-> e.src[i], ro |-> e.ro]]
tell(st, e) ==
    [st EXCEPT ![e.dst] =
        IF e.op = "unbind" THEN <<>> ELSE spliced(@, toldLayers(e), e.disp)]
Replay(entries) ==
    LET at[i \in 0..Len(entries)] ==
            IF i = 0 THEN [p \in Nodes |-> <<>>] ELSE tell(at[i - 1], entries[i])
    IN  at[Len(entries)]

\* The bind points and their layers as the log would tell them.
Shown(n) ==
    [p \in Nodes |-> [i \in DOMAIN layers[n][p] |->
        LET l == layers[n][p][i]
        IN  [src |-> [fs |-> l.fs, path |-> l.src], ro |-> l.ro]]]

\* The log is numbered without gaps through its cap, and as long as nothing was
\* dropped and no calls overlapped, replaying it gives the layers now bound; the
\* log of a clone "is the original's history plus what happens in the clone".
LogFaithful ==
    \A n \in live :
        /\ \A i \in DOMAIN log[n] : log[n][i].seq = dropped[n] + i
        /\ n \notin raced /\ dropped[n] = 0 /\ ~Busy(n) => Replay(log[n]) = Shown(n)
=============================================================================
