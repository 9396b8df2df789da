-------------------------- MODULE NamespaceProofs --------------------------
(***************************************************************************)
(* What Namespace keeps invariant, proved for any file systems, names,     *)
(* calls and goroutines and any number of clones: its type invariant, that *)
(* device numbers are never reused, that the log tells what is bound, that *)
(* directories list what can be walked to in them, that Resolve and        *)
(* HostPath answer for the file a walk leads to, and that aliases stay in  *)
(* their own namespace.                                                    *)
(***************************************************************************)
EXTENDS Namespace, Extrema, FiniteSetTheorems

Job == [ns : 0..MaxNS, dst : Nodes, disp : Dispositions \cup {""}, new : Seq(Layer),
        to : 0..MaxNS, seq : Nat, copied : SUBSET Nodes, ro : BOOLEAN]

\* A clone being made.
Cloning(g) == pc[g] \in {"copy", "fix"}

\* What the call a goroutine is in the middle of looks like.
JobOK(g) ==
    LET j == job[g]
    IN  /\ j \in Job
        /\ pc[g] = "idle" => j = NoJob
        /\ pc[g] # "idle" => j.ns \in live
        /\ pc[g] = "add" => j.new # <<>>
        /\ pc[g] \in {"add", "log"} =>
              /\ j.dst \in tree[j.ns] /\ j.to = 0
              /\ IF j.new = <<>> THEN j.disp = "" /\ ~j.ro ELSE j.disp \in Dispositions
              /\ \A i \in DOMAIN j.new : j.new[i].ro = j.ro
        /\ Cloning(g) =>
              /\ j.new = <<>>
              /\ j.to \in Namespaces \ live
              /\ \A m \in Namespaces : m <= j.to => m \in live \cup {j.to}
              /\ tree[j.to] = j.copied /\ j.copied \subseteq tree[j.ns]
              /\ \A p \in j.copied : Prefixes(p) \subseteq j.copied

\* The namespaces are numbered in the order they were made in, one at a time.
LiveOK ==
    /\ \E k \in Namespaces : live = 1..k
    /\ \A g, h \in Procs : job[g].to # 0 /\ job[h].to # 0 => g = h
    /\ \A m \in Namespaces \ live :
          (\A g \in Procs : job[g].to # m) => tree[m] = {}

\* Unless calls overlapped, a namespace has one goroutine in a call on it.
AloneOK ==
    \A n \in live \ raced : \A g, h \in Procs :
        /\ pc[g] # "idle" /\ job[g].ns = n
        /\ pc[h] # "idle" /\ job[h].ns = n
        => g = h

\* What a clone has copied is as it was, for as long as nothing overlaps it.
CopyOK ==
    \A g \in Procs : Cloning(g) /\ job[g].ns \notin raced =>
        LET n == job[g].ns
            c == job[g].to
        IN  /\ \A p \in job[g].copied : layers[c][p] = layers[n][p]
            /\ pc[g] = "fix" => tree[n] = job[g].copied

\* The log is one entry behind while a goroutine has that entry to write.
ToldFor(n) ==
    dropped[n] = 0 =>
        /\ \A g \in Procs : pc[g] = "log" /\ job[g].ns = n =>
              Shown(n) = tell(Replay(log[n]), logEntry(g))
        /\ (\A g \in Procs : ~(pc[g] = "log" /\ job[g].ns = n)) =>
              Shown(n) = Replay(log[n])
ToldOK == \A n \in live \ raced : ToldFor(n)

Numbered == \A n \in Namespaces : \A i \in DOMAIN log[n] : log[n][i].seq = dropped[n] + i

TypeInv == TypeOK /\ (\A g \in Procs : JobOK(g)) /\ LiveOK

Inv ==
    /\ TypeInv /\ AloneOK
    /\ CopyOK /\ ToldOK /\ Numbered

-----------------------------------------------------------------------------
(***************************************************************************)
(* Walking.                                                                *)
(***************************************************************************)

\* A File, or the error.
Walked == File \cup {NoFile}

\* An nsFile on a node is no file of a FileSystem, and neither is the error.
LEMMA FileKinds ==
    /\ NoFile \notin File
    /\ \A f \in NodeFiles : f.fs = NoFS /\ f.ns \in Namespaces /\ f.path \in Nodes /\ f.dev = 0
    /\ \A f \in FSFiles : f.fs # NoFS
  <1>1. \A f \in NodeFiles : f.fs = NoFS /\ f.ns \in Namespaces /\ f.path \in Nodes /\ f.dev = 0
    BY DEF NodeFiles
  <1>2. \A f \in FSFiles : f.fs # NoFS
    BY FSAssumption DEF FSFiles
  <1>3. NoFile.fs = NoFS /\ NoFile.ns = 0
    BY DEF NoFile, NodeFile
  <1>4. 0 \notin Namespaces
    BY DEF Namespaces
  <1> QED BY <1>1, <1>2, <1>3, <1>4 DEF File

\* layer.root: a File or the error; a FileSystem's root is a file inside it.
LEMMA RootType ==
    ASSUME NEW l \in Layer
    PROVE  root(l) \in Walked /\ (l.fs # NoFS => root(l) \in FSFiles \cup {NoFile})
  <1>1. CASE l.fs = NoFS
    BY <1>1 DEF root, Layer, Walked
  <1>2. CASE l.fs # NoFS
    <2>1. FSFile(l.fs, l.sub, l.ro) \in FSFiles
      BY <1>2 DEF FSFile, FSFiles, Layer
    <2> QED BY <1>2, <2>1 DEF root, Walked, File
  <1> QED BY <1>1, <1>2

\* Walking in a FileSystem stays in it.
LEMMA WalkFSType ==
    ASSUME NEW f \in FSFiles, NEW x \in Names
    PROVE  walkFS(f, x) \in FSFiles \cup {NoFile} /\ walkFS(f, x) \in Walked
  <1>1. Append(f.path, x) \in Path
    BY DEF FSFiles, Path
  <1>2. [f EXCEPT !.path = Append(@, x)] \in FSFiles
    BY <1>1 DEF FSFiles
  <1> QED BY <1>2 DEF walkFS, Walked, File

\* The first result that is not an error, if there is one.
LEMMA FirstOk ==
    ASSUME NEW S, NEW got \in Seq(S)
    PROVE  LET i == SelectInSeq(got, ok)
           IN  \/ i = 0 /\ \A j \in 1..Len(got) : ~ok(got[j])
               \/ /\ i \in 1..Len(got) /\ ok(got[i])
                  /\ \A j \in 1..(i - 1) : ~ok(got[j])
  <1> DEFINE I == {i \in 1..Len(got) : ok(got[i])}
             m == Min(I)
  <1>1. SelectInSeq(got, ok) = IF I # {} THEN m ELSE 0
    BY DEF SelectInSeq
  <1>2. ASSUME I # {} PROVE m \in I /\ \A j \in I : m <= j
    <2>1. I \in SUBSET Nat
      OBVIOUS
    <2> HIDE DEF I
    <2>2. \E k \in I : \A j \in I : k <= j
      BY <1>2, <2>1, LeastExists
    <2> QED BY <2>2 DEF Min
  <1>3. CASE I = {}
    BY <1>1, <1>3
  <1>4. CASE I # {}
    <2>1. m \in I /\ \A j \in I : m <= j
      BY <1>2, <1>4
    <2>2. SelectInSeq(got, ok) = m
      BY <1>1, <1>4
    <2> HIDE DEF m
    <2>3. m \in 1..Len(got) /\ ok(got[m])
      BY <2>1
    <2>4. ASSUME NEW j \in 1..(m - 1) PROVE ~ok(got[j])
      <3>1. j \in 1..Len(got) /\ ~(m <= j)
        BY <2>3
      <3> QED BY <2>1, <3>1
    <2> QED BY <2>2, <2>3, <2>4
  <1> QED BY <1>3, <1>4

\* What walks the roots of the layers, one level down.
Walking == {w \in [File -> [Names -> Walked]] :
               \A f \in FSFiles, x \in Names : w[f][x] \in FSFiles \cup {NoFile}}

\* What the layers of the node f is on give for the name x.
gotWalks(inner, f, x) ==
    LET ls == layers[f.ns][f.path]
    IN  [i \in DOMAIN ls |-> IF ok(root(ls[i])) THEN inner[root(ls[i])][x] ELSE NoFile]

\* The layers of a node are layers.
LEMMA LayersType ==
    ASSUME TypeOK, NEW f \in NodeFiles
    PROVE  /\ layers[f.ns][f.path] \in Seq(Layer)
           /\ \A i \in DOMAIN layers[f.ns][f.path] : layers[f.ns][f.path][i] \in Layer
  <1>1. f.ns \in Namespaces /\ f.path \in Nodes
    BY DEF NodeFiles
  <1>2. layers \in [Namespaces -> [Nodes -> Seq(Layer)]]
    BY DEF TypeOK
  <1>3. layers[f.ns][f.path] \in Seq(Layer)
    BY <1>1, <1>2
  <1> QED BY <1>3

\* They give Files or errors, and FileSystems give their own files.
LEMMA GotWalksType ==
    ASSUME TypeOK, NEW inner \in Walking, NEW f \in NodeFiles, NEW x \in Names
    PROVE  LET ls == layers[f.ns][f.path]
               got == gotWalks(inner, f, x)
           IN  /\ got \in Seq(Walked) /\ DOMAIN got = DOMAIN ls
               /\ DOMAIN got = 1..Len(got)
               /\ \A i \in DOMAIN ls :
                     ls[i].fs # NoFS => got[i] \in FSFiles \cup {NoFile}
  <1> DEFINE ls  == layers[f.ns][f.path]
             got == gotWalks(inner, f, x)
             g(i) == IF ok(root(ls[i])) THEN inner[root(ls[i])][x] ELSE NoFile
  <1>1. ls \in Seq(Layer) /\ \A i \in DOMAIN ls : ls[i] \in Layer
    BY LayersType, Zenon
  <1>2. got = [i \in DOMAIN ls |-> g(i)]
    BY Zenon DEF gotWalks
  <1> HIDE DEF ls, got
  <1>3. ASSUME NEW i \in DOMAIN ls
        PROVE  g(i) \in Walked /\ (ls[i].fs # NoFS => g(i) \in FSFiles \cup {NoFile})
    <2>1. ls[i] \in Layer
      BY <1>1
    <2>2. root(ls[i]) \in Walked /\ (ls[i].fs # NoFS => root(ls[i]) \in FSFiles \cup {NoFile})
      BY <2>1, RootType, Zenon
    <2>3. CASE ok(root(ls[i]))
      <3>1. root(ls[i]) \in File /\ (ls[i].fs # NoFS => root(ls[i]) \in FSFiles)
        BY <2>2, <2>3, Zenon DEF ok, Walked
      <3>2. inner \in [File -> [Names -> Walked]]
        BY DEF Walking
      <3>3. inner[root(ls[i])][x] \in Walked
        BY <3>1, <3>2
      <3>4. ls[i].fs # NoFS => inner[root(ls[i])][x] \in FSFiles \cup {NoFile}
        BY <3>1, Zenon DEF Walking
      <3> QED BY <2>3, <3>3, <3>4, Zenon
    <2>4. CASE ~ok(root(ls[i]))
      BY <2>4, Zenon DEF Walked
    <2> QED BY <2>3, <2>4
  <1>4. DOMAIN ls = 1..Len(ls) /\ Len(ls) \in Nat
    BY <1>1
  <1> HIDE DEF g
  <1>5. got \in Seq(Walked) /\ DOMAIN got = DOMAIN ls
    BY <1>2, <1>3, <1>4
  <1>6. DOMAIN got = 1..Len(got)
    BY <1>5
  <1>7. \A i \in DOMAIN ls : got[i] = g(i)
    BY <1>2
  <1> QED BY <1>3, <1>5, <1>6, <1>7, Zenon DEF ls, got

\* The dev of a layer is a number.
LEMMA DevNat ==
    ASSUME NEW l \in Layer
    PROVE  dev(l) \in Nat
  <1>1. l.seq \in Nat /\ DevRange \in Nat \ {0}
    BY BoundsAssumption DEF Layer
  <1>2. \A x \in Nat : x % DevRange \in Nat
    BY <1>1
  <1> QED BY <1>1, <1>2 DEF dev

\* The nsFile around what a layer served is a File, with the layer's dev or the
\* one the file has.
LEMMA ThroughType ==
    ASSUME NEW f \in NodeFiles, NEW l \in Layer, NEW got \in File,
           l.fs # NoFS => got \in FSFiles
    PROVE  /\ through(f, l, got) \in File
           /\ through(f, l, got).dev = IF dev(l) # 0 THEN dev(l) ELSE got.dev
  <1>1. CASE got \in FSFiles
    <2>1. dev(l) \in Nat
      BY DevNat
    <2>2. through(f, l, got) \in FSFiles
      BY <1>1, <2>1 DEF through, FSFiles, NodeFiles
    <2> QED BY <1>1, <2>2 DEF through, FSFiles, File
  <1>2. CASE got \in NodeFiles
    <2>1. l.fs = NoFS
      BY <1>2, FileKinds, Zenon
    <2>2. dev(l) = 0
      BY <2>1 DEF dev
    <2>3. through(f, l, got) \in NodeFiles
      BY <1>2, <2>2 DEF through, NodeFiles
    <2> QED BY <1>2, <2>2, <2>3 DEF through, NodeFiles, File
  <1> QED BY <1>1, <1>2 DEF File

\* nsFile.Walk: a tree child, or the first layer that has the name.
LEMMA WalkNodeIs ==
    ASSUME TypeOK, NEW inner \in Walking, NEW f \in NodeFiles, NEW x \in Names
    PROVE  LET ls  == layers[f.ns][f.path]
               got == gotWalks(inner, f, x)
               w   == walkNode(inner, f, x)
           IN  /\ w \in Walked
               /\ x \in children(f.ns, f.path) => w \in File /\ w.dev = 0
               /\ x \notin children(f.ns, f.path) =>
                     \/ w = NoFile /\ \A i \in DOMAIN ls : ~ok(got[i])
                     \/ \E i \in DOMAIN ls :
                           /\ ok(got[i]) /\ (\A j \in 1..(i - 1) : ~ok(got[j]))
                           /\ w \in File
                           /\ w.dev = IF dev(ls[i]) # 0 THEN dev(ls[i]) ELSE got[i].dev
  <1> DEFINE ls  == layers[f.ns][f.path]
             got == gotWalks(inner, f, x)
             i   == SelectInSeq(got, ok)
  <1>1. x \in children(f.ns, f.path) <=> Append(f.path, x) \in tree[f.ns]
    BY DEF children
  <1>2. CASE Append(f.path, x) \in tree[f.ns]
    <2>1. Append(f.path, x) \in Nodes
      BY <1>2 DEF TypeOK, NodeFiles
    <2>2. [f EXCEPT !.path = Append(@, x)] \in NodeFiles
      BY <2>1 DEF NodeFiles
    <2>3. [f EXCEPT !.path = Append(@, x)].dev = 0
      BY <2>2, FileKinds, Zenon
    <2>4. walkNode(inner, f, x) = [f EXCEPT !.path = Append(@, x)]
      BY <1>2 DEF walkNode
    <2> QED BY <1>1, <1>2, <2>2, <2>3, <2>4, Zenon DEF File, Walked
  <1>3. CASE Append(f.path, x) \notin tree[f.ns]
    <2>1. walkNode(inner, f, x) = IF i = 0 THEN NoFile ELSE through(f, ls[i], got[i])
      BY <1>3, Zenon DEF walkNode, gotWalks
    <2>2. /\ got \in Seq(Walked) /\ DOMAIN got = DOMAIN ls /\ DOMAIN got = 1..Len(got)
          /\ \A k \in DOMAIN ls : ls[k].fs # NoFS => got[k] \in FSFiles \cup {NoFile}
      BY GotWalksType, Zenon
    <2>3. \/ i = 0 /\ \A j \in 1..Len(got) : ~ok(got[j])
          \/ /\ i \in 1..Len(got) /\ ok(got[i])
             /\ \A j \in 1..(i - 1) : ~ok(got[j])
      <3> HIDE DEF got
      <3> QED BY <2>2, FirstOk, Zenon
    <2>4. \A k \in DOMAIN ls : ls[k] \in Layer
      BY LayersType, Zenon
    <2> HIDE DEF ls, got, i
    <2>5. CASE i = 0
      <3>1. ~ (i \in 1..Len(got))
        BY <2>5
      <3> QED BY <1>1, <1>3, <2>1, <2>2, <2>3, <2>5, <3>1, Zenon DEF Walked, ls, got
    <2>6. CASE i # 0
      <3>1. i \in DOMAIN ls /\ ok(got[i]) /\ \A j \in 1..(i - 1) : ~ok(got[j])
        BY <2>2, <2>3, <2>6, Zenon
      <3>2. got[i] \in Walked
        BY <2>2, <3>1
      <3>3. got[i] \in File /\ (ls[i].fs # NoFS => got[i] \in FSFiles) /\ ls[i] \in Layer
        BY <2>2, <2>4, <3>1, <3>2, Zenon DEF Walked, ok
      <3>4. /\ through(f, ls[i], got[i]) \in File
            /\ through(f, ls[i], got[i]).dev = IF dev(ls[i]) # 0 THEN dev(ls[i]) ELSE got[i].dev
        BY <3>3, ThroughType, Zenon
      <3> QED BY <1>1, <1>3, <2>1, <2>6, <3>1, <3>4, Zenon DEF Walked, ls, got
    <2> QED BY <2>5, <2>6
  <1> QED BY <1>2, <1>3

\* The bound on the recursion is a number.
LEMMA DepthNat == Depth \in Nat
  <1>1. Cardinality(Nodes) \in Nat
    BY NodesAssumption, FS_CardinalityType
  <1> QED BY <1>1, BoundsAssumption DEF Depth

\* One level of the recursion of Walks.
walkStep(inner) ==
    [f \in File |-> [name \in Names |->
        IF f.fs # NoFS THEN walkFS(f, name) ELSE walkNode(inner, f, name)]]

\* It walks one level more.
LEMMA WalkStepType ==
    ASSUME TypeOK, NEW inner \in Walking
    PROVE  walkStep(inner) \in Walking
  <1>1. ASSUME NEW f \in File, NEW x \in Names
        PROVE  /\ (IF f.fs # NoFS THEN walkFS(f, x) ELSE walkNode(inner, f, x)) \in Walked
               /\ f \in FSFiles => walkFS(f, x) \in FSFiles \cup {NoFile}
    <2>1. CASE f \in FSFiles
      BY <2>1, FileKinds, WalkFSType, Zenon
    <2>2. CASE f \in NodeFiles
      <3>1. f.fs = NoFS
        BY <2>2, FileKinds, Zenon
      <3>2. walkNode(inner, f, x) \in Walked
        BY <2>2, WalkNodeIs, Zenon
      <3>3. f \notin FSFiles
        BY <3>1, FileKinds, Zenon
      <3> QED BY <3>1, <3>2, <3>3, Zenon
    <2> QED BY <2>1, <2>2, Zenon DEF File
  <1>2. walkStep(inner) \in [File -> [Names -> Walked]]
    BY <1>1 DEF walkStep
  <1>3. ASSUME NEW f \in FSFiles, NEW x \in Names
        PROVE  walkStep(inner)[f][x] \in FSFiles \cup {NoFile}
    <2>1. f \in File /\ f.fs # NoFS
      BY FileKinds, Zenon DEF File
    <2>2. walkStep(inner)[f][x] = walkFS(f, x)
      BY <2>1 DEF walkStep
    <2> QED BY <1>1, <2>1, <2>2, Zenon
  <1> QED BY <1>2, <1>3, Zenon DEF Walking

\* Walking no level at all.
LEMMA NoWalkType == noWalk \in Walking
  <1>1. noWalk \in [File -> [Names -> Walked]]
    BY DEF noWalk, Walked
  <1>2. ASSUME NEW f \in FSFiles, NEW x \in Names PROVE noWalk[f][x] = NoFile
    BY DEF noWalk, File
  <1> QED BY <1>1, <1>2, Zenon DEF Walking

\* Walks is what its definition says, and walks.
LEMMA WalksAre ==
    ASSUME TypeOK
    PROVE  /\ DOMAIN Walks = 0..Depth
           /\ \A d \in 0..Depth :
                 /\ Walks[d] = walkStep(IF d = 0 THEN noWalk ELSE Walks[d - 1])
                 /\ Walks[d] \in Walking
                 /\ (IF d = 0 THEN noWalk ELSE Walks[d - 1]) \in Walking
  <1> DEFINE G == [d \in 1..Depth |-> [w \in Walking |-> walkStep(w)]]
             b == walkStep(noWalk)
  <1>1. b \in Walking /\ Depth \in Nat
    BY NoWalkType, WalkStepType, DepthNat
  <1>2. G \in [1..Depth -> [Walking -> Walking]]
    <2>1. [w \in Walking |-> walkStep(w)] \in [Walking -> Walking]
      BY WalkStepType
    <2> QED BY <2>1
  <1>3. PICK h \in [0..Depth -> Walking] : Goes(Depth, b, G, h)
    <2> HIDE DEF G, b
    <2> QED BY <1>1, <1>2, StepsExist, Zenon
  <1>4. ASSUME NEW d \in 0..Depth
        PROVE  /\ h[d] = walkStep(IF d = 0 THEN noWalk ELSE h[d - 1])
               /\ (IF d = 0 THEN noWalk ELSE h[d - 1]) \in Walking
    <2>1. CASE d = 0
      BY <1>3, <2>1, NoWalkType DEF Goes
    <2>2. CASE d # 0
      <3>1. d \in 1..Depth /\ d - 1 \in 0..Depth
        BY <1>1, <2>2
      <3>2. h[d - 1] \in Walking
        BY <1>3, <3>1
      <3>3. h[d] = G[d][h[d - 1]]
        BY <1>3, <3>1 DEF Goes
      <3> QED BY <2>2, <3>1, <3>2, <3>3
    <2> QED BY <2>1, <2>2
  <1>5. h = [d \in 0..Depth |-> walkStep(IF d = 0 THEN noWalk ELSE h[d - 1])]
    <2> HIDE DEF G, b
    <2> QED BY <1>3, <1>4
  <1>6. Walks = [d \in 0..Depth |-> walkStep(IF d = 0 THEN noWalk ELSE Walks[d - 1])]
    BY <1>5, Zenon DEF Walks, walkStep
  <1> HIDE DEF G, b
  <1>7. DOMAIN Walks = 0..Depth
    BY <1>6, Zenon
  <1>8. \A d \in 0..Depth : Walks[d] = walkStep(IF d = 0 THEN noWalk ELSE Walks[d - 1])
    BY <1>6, Zenon
  <1> DEFINE S == {d \in Nat : d \in 0..Depth => Walks[d] \in Walking}
  <1>9. 0 \in S
    <2>1. 0 \in 0..Depth
      BY <1>1
    <2>2. Walks[0] = walkStep(noWalk)
      BY <1>8, <2>1, Zenon
    <2> QED BY <2>2, NoWalkType, WalkStepType
  <1>10. ASSUME NEW d \in 1..Depth, d - 1 \in S PROVE d \in S
    <2>1. d \in 0..Depth /\ d - 1 \in 0..Depth /\ d # 0 /\ d \in Nat
      BY <1>1
    <2>2. Walks[d - 1] \in Walking
      BY <1>10, <2>1
    <2>3. Walks[d] = walkStep(Walks[d - 1])
      BY <1>8, <2>1, Zenon
    <2> QED BY <2>1, <2>2, <2>3, WalkStepType
  <1>11. 0..Depth \subseteq S
    <2>1. S \in SUBSET Nat
      OBVIOUS
    <2> HIDE DEF S
    <2> QED BY <1>1, <1>9, <1>10, <2>1, UpTo
  <1>12. ASSUME NEW d \in 0..Depth PROVE Walks[d] \in Walking
    BY <1>11
  <1>13. ASSUME NEW d \in 0..Depth
         PROVE  (IF d = 0 THEN noWalk ELSE Walks[d - 1]) \in Walking
    <2>1. d # 0 => d - 1 \in 0..Depth
      BY <1>1
    <2> QED BY <1>12, <2>1, NoWalkType
  <1> QED BY <1>7, <1>8, <1>12, <1>13, Zenon

-----------------------------------------------------------------------------
(***************************************************************************)
(* Listing.                                                                *)
(***************************************************************************)

\* A listing shows the name x with the dev v.
Has(es, x, v) == \E e \in es : e.name = x /\ e.dev = v

\* What a listing shows under x is what a walk to x came to.
Agrees(es, x, w) == \A v : Has(es, x, v) <=> ok(w) /\ v = w.dev

\* Lists of all files, one level down.
Listings == [File -> Listing]

\* A FileSystem lists what can be walked to in it.
LEMMA ListFSAgrees ==
    ASSUME NEW f \in FSFiles, NEW x \in Names
    PROVE  listFS(f) \in Listing /\ Agrees(listFS(f).es, x, walkFS(f, x))
  <1>1. f.dev \in Nat
    BY DEF FSFiles
  <1>2. CASE f.fs \in dead
    <2>1. listFS(f) = ListError /\ walkFS(f, x) = NoFile
      BY <1>2 DEF listFS, walkFS
    <2> QED BY <2>1 DEF ListError, Listing, Agrees, Has, ok
  <1>3. CASE f.fs \notin dead
    <2> DEFINE Y == {y \in Names : Append(f.path, y) \in Content[f.fs]}
    <2>1. listFS(f) = [ok |-> TRUE, es |-> {[name |-> y, dev |-> f.dev] : y \in Y}]
      BY <1>3 DEF listFS
    <2>2. listFS(f) \in Listing
      BY <1>1, <2>1 DEF Listing
    <2>3. ASSUME NEW v PROVE Has(listFS(f).es, x, v) <=> x \in Y /\ v = f.dev
      <3> HIDE DEF Y
      <3>1. listFS(f).es = {[name |-> y, dev |-> f.dev] : y \in Y}
        BY <2>1
      <3>2. \A y : [name |-> y, dev |-> f.dev].name = y /\ [name |-> y, dev |-> f.dev].dev = f.dev
        OBVIOUS
      <3> QED BY <3>1, <3>2, Zenon DEF Has
    <2>4. ok(walkFS(f, x)) <=> x \in Y
      <3>1. Append(f.path, x) \in Path
        BY DEF FSFiles, Path
      <3>2. [f EXCEPT !.path = Append(@, x)] \in FSFiles
        BY <3>1 DEF FSFiles
      <3>3. [f EXCEPT !.path = Append(@, x)] # NoFile
        BY <3>2, FileKinds, Zenon DEF File
      <3> QED BY <1>3, <3>3 DEF walkFS, ok
    <2>5. x \in Y => walkFS(f, x).dev = f.dev
      BY <1>3 DEF walkFS, FSFiles
    <2> QED BY <2>2, <2>3, <2>4, <2>5, Zenon DEF Agrees
  <1> QED BY <1>2, <1>3

\* Stamping shows the same names, with the layer's dev if it has one.
LEMMA StampedHas ==
    ASSUME NEW es \in SUBSET [name : Names, dev : Nat], NEW l \in Layer, NEW x, NEW v
    PROVE  Has(stamped(es, l), x, v) <=>
              IF dev(l) = 0 THEN Has(es, x, v) ELSE v = dev(l) /\ \E u : Has(es, x, u)
  <1>1. CASE dev(l) = 0
    BY <1>1 DEF stamped
  <1>2. CASE dev(l) # 0
    <2>1. stamped(es, l) = {[e EXCEPT !.dev = dev(l)] : e \in es}
      BY <1>2 DEF stamped
    <2>2. \A e \in es : [e EXCEPT !.dev = dev(l)].name = e.name /\ [e EXCEPT !.dev = dev(l)].dev = dev(l)
      OBVIOUS
    <2>3. Has(stamped(es, l), x, v) <=> \E e \in es : e.name = x /\ v = dev(l)
      BY <2>1, <2>2 DEF Has
    <2> QED BY <1>2, <2>3 DEF Has
  <1> QED BY <1>1, <1>2

\* And stays a set of entries.
LEMMA StampedType ==
    ASSUME NEW es \in SUBSET [name : Names, dev : Nat], NEW l \in Layer
    PROVE  stamped(es, l) \in SUBSET [name : Names, dev : Nat]
  <1>1. dev(l) \in Nat
    BY DevNat
  <1> QED BY <1>1 DEF stamped

\* What the layers of the node f is on list.
gotLists(inner, f) ==
    LET ls == layers[f.ns][f.path]
    IN  [i \in DOMAIN ls |-> IF ok(root(ls[i])) THEN inner[root(ls[i])] ELSE ListError]

\* The tree children of the node f is on.
ownEntries(f) == {[name |-> x, dev |-> 0] : x \in children(f.ns, f.path)}

\* What layer i adds to the listing.
newEntries(inner, f, i) ==
    unseen(unseen(stamped(gotLists(inner, f)[i].es, layers[f.ns][f.path][i]), ownEntries(f)),
           UNION {gotLists(inner, f)[j].es : j \in 1..(i - 1)})

\* The layers give listings.
LEMMA GotListsType ==
    ASSUME TypeOK, NEW inner \in Listings, NEW f \in NodeFiles,
           NEW i \in DOMAIN layers[f.ns][f.path]
    PROVE  gotLists(inner, f)[i] \in Listing
  <1> DEFINE l == layers[f.ns][f.path][i]
  <1>1. l \in Layer
    BY LayersType, Zenon
  <1>2. gotLists(inner, f)[i] = IF ok(root(l)) THEN inner[root(l)] ELSE ListError
    BY Zenon DEF gotLists
  <1>3. root(l) \in Walked
    BY <1>1, RootType, Zenon
  <1> HIDE DEF l
  <1>4. ok(root(l)) => inner[root(l)] \in Listing
    BY <1>3 DEF ok, Walked, Listings
  <1>5. ListError \in Listing
    BY DEF ListError, Listing
  <1> QED BY <1>2, <1>4, <1>5, Zenon

\* What listNode shows, entry by entry.
LEMMA ListNodeIs ==
    ASSUME TypeOK, NEW inner \in Listings, NEW f \in NodeFiles
    PROVE  LET ls == layers[f.ns][f.path]
           IN  /\ listNode(inner, f) \in Listing
               /\ listNode(inner, f).es =
                     ownEntries(f) \cup UNION {newEntries(inner, f, i) : i \in DOMAIN ls}
  <1> DEFINE ls == layers[f.ns][f.path]
             o  == ls = <<>> \/ ownEntries(f) # {} \/ \E i \in DOMAIN ls : gotLists(inner, f)[i].ok
             es == ownEntries(f) \cup UNION {newEntries(inner, f, i) : i \in DOMAIN ls}
  <1>1. listNode(inner, f) = [ok |-> o, es |-> es]
    BY Zenon DEF listNode, ownEntries, newEntries, gotLists
  <1>2. ownEntries(f) \subseteq [name : Names, dev : Nat]
    BY DEF ownEntries, children
  <1>3. ASSUME NEW i \in DOMAIN ls PROVE newEntries(inner, f, i) \subseteq [name : Names, dev : Nat]
    <2>1. gotLists(inner, f)[i] \in Listing /\ ls[i] \in Layer
      BY GotListsType, LayersType, Zenon
    <2>2. gotLists(inner, f)[i].es \in SUBSET [name : Names, dev : Nat]
      BY <2>1 DEF Listing
    <2>3. stamped(gotLists(inner, f)[i].es, ls[i]) \in SUBSET [name : Names, dev : Nat]
      BY <2>1, <2>2, StampedType, Zenon
    <2> QED BY <2>3, Zenon DEF newEntries, unseen
  <1>4. es \in SUBSET [name : Names, dev : Nat]
    BY <1>2, <1>3, Zenon
  <1>5. o \in BOOLEAN
    OBVIOUS
  <1> HIDE DEF es, o
  <1>6. [ok |-> o, es |-> es] \in Listing /\ [ok |-> o, es |-> es].es = es
    BY <1>4, <1>5 DEF Listing
  <1> QED BY <1>1, <1>6, Zenon DEF es

\* A layer lists x the way it walks to it, if files do one level down.
LEMMA GotAgree ==
    ASSUME TypeOK, NEW wi \in Walking, NEW li \in Listings, NEW f \in NodeFiles, NEW x \in Names,
           \A g \in File : Agrees(li[g].es, x, wi[g][x]),
           NEW i \in DOMAIN layers[f.ns][f.path]
    PROVE  Agrees(gotLists(li, f)[i].es, x, gotWalks(wi, f, x)[i])
  <1> DEFINE l == layers[f.ns][f.path][i]
  <1>1. root(l) \in Walked
    BY LayersType, RootType, Zenon
  <1>2. gotLists(li, f)[i] = IF ok(root(l)) THEN li[root(l)] ELSE ListError
    BY Zenon DEF gotLists
  <1>3. gotWalks(wi, f, x)[i] = IF ok(root(l)) THEN wi[root(l)][x] ELSE NoFile
    BY Zenon DEF gotWalks
  <1> HIDE DEF l
  <1>4. CASE ok(root(l))
    <2>1. root(l) \in File
      BY <1>1, <1>4, Zenon DEF ok, Walked
    <2> QED BY <1>2, <1>3, <1>4, <2>1, Zenon
  <1>5. CASE ~ok(root(l))
    <2>1. ListError.es = {}
      BY DEF ListError
    <2> QED BY <1>2, <1>3, <1>5, <2>1, Zenon DEF Agrees, Has, ok
  <1> QED BY <1>4, <1>5

\* A layer adds x to a listing if it is the first that walks to it and no tree
\* child has the name.
LEMMA NewEntriesHas ==
    ASSUME TypeOK, NEW wi \in Walking, NEW li \in Listings, NEW f \in NodeFiles, NEW x \in Names,
           \A g \in File : Agrees(li[g].es, x, wi[g][x]),
           NEW i \in DOMAIN layers[f.ns][f.path], NEW v
    PROVE  LET got == gotWalks(wi, f, x)
               l   == layers[f.ns][f.path][i]
           IN  Has(newEntries(li, f, i), x, v) <=>
                  /\ x \notin children(f.ns, f.path)
                  /\ \A j \in 1..(i - 1) : ~ok(got[j])
                  /\ ok(got[i])
                  /\ v = IF dev(l) # 0 THEN dev(l) ELSE got[i].dev
  <1> DEFINE ls == layers[f.ns][f.path]
             l  == ls[i]
             gl == gotLists(li, f)
             gw == gotWalks(wi, f, x)
             st == stamped(gl[i].es, l)
             before == UNION {gl[j].es : j \in 1..(i - 1)}
  <1>1. \A k \in DOMAIN ls : Agrees(gl[k].es, x, gw[k])
    BY GotAgree, Zenon
  <1>2. ls \in Seq(Layer) /\ l \in Layer
    BY LayersType, Zenon
  <1>3. gl[i].es \in SUBSET [name : Names, dev : Nat]
    <2>1. gl[i] \in Listing
      BY GotListsType, Zenon
    <2> QED BY <2>1 DEF Listing
  <1>4. newEntries(li, f, i) = unseen(unseen(st, ownEntries(f)), before)
    BY Zenon DEF newEntries
  <1> HIDE DEF gl, gw
  <1>5. Has(st, x, v) <=> IF dev(l) = 0 THEN Has(gl[i].es, x, v)
                          ELSE v = dev(l) /\ \E u : Has(gl[i].es, x, u)
    BY <1>2, <1>3, StampedHas, Zenon
  <1>6. Has(st, x, v) <=> ok(gw[i]) /\ v = IF dev(l) # 0 THEN dev(l) ELSE gw[i].dev
    <2>1. \A u : Has(gl[i].es, x, u) <=> ok(gw[i]) /\ u = gw[i].dev
      BY <1>1, Zenon DEF Agrees
    <2>2. CASE dev(l) = 0
      BY <1>5, <2>1, <2>2, Zenon
    <2>3. CASE dev(l) # 0
      BY <1>5, <2>1, <2>3, Zenon
    <2> QED BY <2>2, <2>3, Zenon
  <1>7. (\A s \in ownEntries(f) : s.name # x) <=> x \notin children(f.ns, f.path)
    <2>1. \A y : [name |-> y, dev |-> 0].name = y
      OBVIOUS
    <2> QED BY <2>1, Zenon DEF ownEntries
  <1>8. (\A s \in before : s.name # x) <=> \A j \in 1..(i - 1) : ~ok(gw[j])
    <2>1. \A j \in 1..(i - 1) : j \in DOMAIN ls
      <3>1. ls \in Seq(Layer) /\ i \in DOMAIN ls
        BY <1>2
      <3> HIDE DEF ls
      <3> QED BY <3>1
    <2>2. \A j \in 1..(i - 1) : (\A s \in gl[j].es : s.name # x) <=> ~ok(gw[j])
      BY <1>1, <2>1, Zenon DEF Agrees, Has
    <2> QED BY <2>2, Zenon
  <1>9. Has(newEntries(li, f, i), x, v) <=>
           /\ Has(st, x, v)
           /\ \A s \in ownEntries(f) : s.name # x
           /\ \A s \in before : s.name # x
    <2> HIDE DEF st, before
    <2> QED BY <1>4, Zenon DEF Has, unseen
  <1> QED BY <1>6, <1>7, <1>8, <1>9, Zenon DEF gw

\* A node lists what can be walked to in it, if files do one level down.
LEMMA ListNodeAgrees ==
    ASSUME TypeOK, NEW wi \in Walking, NEW li \in Listings, NEW f \in NodeFiles, NEW x \in Names,
           \A g \in File : Agrees(li[g].es, x, wi[g][x])
    PROVE  Agrees(listNode(li, f).es, x, walkNode(wi, f, x))
  <1> DEFINE ls == layers[f.ns][f.path]
             gw == gotWalks(wi, f, x)
             w  == walkNode(wi, f, x)
             kid == x \in children(f.ns, f.path)
             d(i) == IF dev(ls[i]) # 0 THEN dev(ls[i]) ELSE gw[i].dev
  <1> SUFFICES ASSUME NEW v PROVE Has(listNode(li, f).es, x, v) <=> ok(w) /\ v = w.dev
    BY Zenon DEF Agrees
  <1>1. listNode(li, f).es = ownEntries(f) \cup UNION {newEntries(li, f, i) : i \in DOMAIN ls}
    BY ListNodeIs, Zenon
  <1>2. \A i \in DOMAIN ls : Has(newEntries(li, f, i), x, v) <=>
           ~kid /\ (\A j \in 1..(i - 1) : ~ok(gw[j])) /\ ok(gw[i]) /\ v = d(i)
    <2> SUFFICES ASSUME NEW i \in DOMAIN ls
                 PROVE  Has(newEntries(li, f, i), x, v) <=>
                           /\ ~kid
                           /\ \A j \in 1..(i - 1) : ~ok(gw[j])
                           /\ ok(gw[i])
                           /\ v = d(i)
      BY Zenon
    <2> QED BY NewEntriesHas
  <1>3. Has(ownEntries(f), x, v) <=> kid /\ v = 0
    <2>1. \A y : [name |-> y, dev |-> 0].name = y /\ [name |-> y, dev |-> 0].dev = 0
      OBVIOUS
    <2> QED BY <2>1, Zenon DEF ownEntries, Has
  <1>4. Has(listNode(li, f).es, x, v) <=>
           Has(ownEntries(f), x, v) \/ \E i \in DOMAIN ls : Has(newEntries(li, f, i), x, v)
    BY <1>1, Zenon DEF Has
  <1>5. /\ kid => w \in File /\ w.dev = 0
        /\ ~kid => \/ w = NoFile /\ \A i \in DOMAIN ls : ~ok(gw[i])
                   \/ \E i \in DOMAIN ls :
                         /\ ok(gw[i]) /\ (\A j \in 1..(i - 1) : ~ok(gw[j]))
                         /\ w \in File
                         /\ w.dev = d(i)
    BY WalkNodeIs, Zenon
  <1>6. ls \in Seq(Layer)
    BY LayersType, Zenon
  <1>7. w \in File => ok(w)
    BY FileKinds, Zenon DEF ok
  <1> HIDE DEF ls, gw, w, d, kid
  <1>8. CASE kid
    BY <1>2, <1>3, <1>4, <1>5, <1>7, <1>8, Zenon
  <1>9. CASE ~kid
    <2>1. CASE w = NoFile /\ \A i \in DOMAIN ls : ~ok(gw[i])
      BY <1>2, <1>3, <1>4, <1>9, <2>1, Zenon DEF ok
    <2>2. ASSUME NEW i \in DOMAIN ls, ok(gw[i]), \A j \in 1..(i - 1) : ~ok(gw[j]),
                 w \in File, w.dev = d(i)
          PROVE  Has(listNode(li, f).es, x, v) <=> ok(w) /\ v = w.dev
      <3>1. ASSUME NEW k \in DOMAIN ls, ok(gw[k]), \A j \in 1..(k - 1) : ~ok(gw[j])
            PROVE  k = i
        <4>1. k \in 1..Len(ls) /\ i \in 1..Len(ls) /\ Len(ls) \in Nat
          BY <1>6
        <4>2. ~(k \in 1..(i - 1)) /\ ~(i \in 1..(k - 1))
          BY <2>2, <3>1, Zenon
        <4> QED BY <4>1, <4>2
      <3>2. (\E k \in DOMAIN ls : Has(newEntries(li, f, k), x, v)) <=> v = d(i)
        BY <1>2, <1>9, <2>2, <3>1, Zenon
      <3> QED BY <1>3, <1>4, <1>7, <1>9, <2>2, <3>2, Zenon
    <2> QED BY <1>5, <1>9, <2>1, <2>2, Zenon
  <1> QED BY <1>8, <1>9

\* One level of the recursion of Lists.
listStep(inner) ==
    [f \in File |-> IF f.fs # NoFS THEN listFS(f) ELSE listNode(inner, f)]

\* It lists one level more.
LEMMA ListStepType ==
    ASSUME TypeOK, NEW inner \in Listings
    PROVE  listStep(inner) \in Listings
  <1>1. ASSUME NEW f \in File
        PROVE  (IF f.fs # NoFS THEN listFS(f) ELSE listNode(inner, f)) \in Listing
    <2>1. CASE f \in FSFiles
      <3>1. listFS(f) \in Listing
        <4>1. CASE f.fs \in dead
          BY <4>1 DEF listFS, ListError, Listing
        <4>2. CASE f.fs \notin dead
          <5>1. f.dev \in Nat
            BY <2>1 DEF FSFiles
          <5> QED BY <4>2, <5>1 DEF listFS, Listing
        <4> QED BY <4>1, <4>2
      <3> QED BY <2>1, <3>1, FileKinds, Zenon
    <2>2. CASE f \in NodeFiles
      <3>1. f.fs = NoFS
        BY <2>2, FileKinds, Zenon
      <3>2. listNode(inner, f) \in Listing
        BY <2>2, ListNodeIs, Zenon
      <3> QED BY <3>1, <3>2, Zenon
    <2> QED BY <2>1, <2>2, Zenon DEF File
  <1> QED BY <1>1 DEF listStep, Listings

\* What listings and walks agree on, they agree on one level up.
LEMMA StepsAgree ==
    ASSUME TypeOK, NEW wi \in Walking, NEW li \in Listings,
           \A g \in File, x \in Names : Agrees(li[g].es, x, wi[g][x])
    PROVE  \A g \in File, x \in Names :
              Agrees(listStep(li)[g].es, x, walkStep(wi)[g][x])
  <1> SUFFICES ASSUME NEW f \in File, NEW x \in Names
               PROVE  Agrees(listStep(li)[f].es, x, walkStep(wi)[f][x])
    BY Zenon
  <1>1. walkStep(wi)[f] = [name \in Names |->
            IF f.fs # NoFS THEN walkFS(f, name) ELSE walkNode(wi, f, name)]
    BY Zenon DEF walkStep
  <1>2. walkStep(wi)[f][x] = IF f.fs # NoFS THEN walkFS(f, x) ELSE walkNode(wi, f, x)
    BY <1>1, Zenon
  <1>3. listStep(li)[f] = IF f.fs # NoFS THEN listFS(f) ELSE listNode(li, f)
    BY Zenon DEF listStep
  <1>4. CASE f \in FSFiles
    <2>1. f.fs # NoFS
      BY <1>4, FileKinds, Zenon
    <2>2. Agrees(listFS(f).es, x, walkFS(f, x))
      BY <1>4, ListFSAgrees, Zenon
    <2> QED BY <1>2, <1>3, <2>1, <2>2, Zenon
  <1>5. CASE f \in NodeFiles
    <2>1. f.fs = NoFS
      BY <1>5, FileKinds, Zenon
    <2>2. Agrees(listNode(li, f).es, x, walkNode(wi, f, x))
      BY <1>5, ListNodeAgrees, Zenon
    <2> QED BY <1>2, <1>3, <2>1, <2>2, Zenon
  <1> QED BY <1>4, <1>5, Zenon DEF File

\* Lists is what its definition says.
LEMMA ListsAre ==
    ASSUME TypeOK
    PROVE  \A d \in 0..Depth :
              /\ Lists[d] = listStep(IF d = 0 THEN noList ELSE Lists[d - 1])
              /\ Lists[d] \in Listings
  <1> DEFINE G == [d \in 1..Depth |-> [l \in Listings |-> listStep(l)]]
             b == listStep(noList)
  <1>0. noList \in Listings
    BY DEF noList, Listings, Listing, ListError
  <1>1. b \in Listings /\ Depth \in Nat
    BY <1>0, ListStepType, DepthNat
  <1>2. G \in [1..Depth -> [Listings -> Listings]]
    <2>1. [l \in Listings |-> listStep(l)] \in [Listings -> Listings]
      BY ListStepType
    <2> QED BY <2>1
  <1>3. PICK h \in [0..Depth -> Listings] : Goes(Depth, b, G, h)
    <2> HIDE DEF G, b
    <2> QED BY <1>1, <1>2, StepsExist, Zenon
  <1>4. ASSUME NEW d \in 0..Depth
        PROVE  h[d] = listStep(IF d = 0 THEN noList ELSE h[d - 1])
    <2>1. CASE d = 0
      BY <1>3, <2>1 DEF Goes
    <2>2. CASE d # 0
      <3>1. d \in 1..Depth /\ d - 1 \in 0..Depth
        BY <1>1, <2>2
      <3>2. h[d - 1] \in Listings
        BY <1>3, <3>1
      <3>3. h[d] = G[d][h[d - 1]]
        BY <1>3, <3>1 DEF Goes
      <3> QED BY <2>2, <3>1, <3>2, <3>3
    <2> QED BY <2>1, <2>2
  <1>5. h = [d \in 0..Depth |-> listStep(IF d = 0 THEN noList ELSE h[d - 1])]
    <2> HIDE DEF G, b
    <2> QED BY <1>3, <1>4
  <1>6. Lists = [d \in 0..Depth |-> listStep(IF d = 0 THEN noList ELSE Lists[d - 1])]
    BY <1>5, Zenon DEF Lists, listStep
  <1> HIDE DEF G, b
  <1>7. \A d \in 0..Depth : Lists[d] = listStep(IF d = 0 THEN noList ELSE Lists[d - 1])
    BY <1>6, Zenon
  <1> DEFINE S == {d \in Nat : d \in 0..Depth => Lists[d] \in Listings}
  <1>8. 0 \in S
    <2>1. 0 \in 0..Depth
      BY <1>1
    <2>2. Lists[0] = listStep(noList)
      BY <1>7, <2>1, Zenon
    <2> QED BY <1>0, <2>2, ListStepType
  <1>9. ASSUME NEW d \in 1..Depth, d - 1 \in S PROVE d \in S
    <2>1. d \in 0..Depth /\ d - 1 \in 0..Depth /\ d # 0 /\ d \in Nat
      BY <1>1
    <2>2. Lists[d - 1] \in Listings
      BY <1>9, <2>1
    <2>3. Lists[d] = listStep(Lists[d - 1])
      BY <1>7, <2>1, Zenon
    <2> QED BY <2>1, <2>2, <2>3, ListStepType
  <1>10. 0..Depth \subseteq S
    <2>1. S \in SUBSET Nat
      OBVIOUS
    <2> HIDE DEF S
    <2> QED BY <1>1, <1>8, <1>9, <2>1, UpTo
  <1> QED BY <1>7, <1>10

\* At every depth, every File lists the names that can be walked to in it.
LEMMA ListsAgree ==
    ASSUME TypeOK
    PROVE  \A d \in 0..Depth : \A f \in File, x \in Names :
              Agrees(Lists[d][f].es, x, Walks[d][f][x])
  <1> DEFINE A(d) == \A f \in File, x \in Names : Agrees(Lists[d][f].es, x, Walks[d][f][x])
             S == {d \in Nat : d \in 0..Depth => A(d)}
  <1>0. Depth \in Nat
    BY DepthNat
  <1>1. 0 \in S
    <2>1. 0 \in 0..Depth
      BY <1>0
    <2>2. Lists[0] = listStep(noList) /\ Walks[0] = walkStep(noWalk)
      BY <2>1, ListsAre, WalksAre, Zenon
    <2>3. noList \in Listings
      BY DEF noList, Listings, Listing, ListError
    <2>4. ASSUME NEW f \in File, NEW x \in Names
          PROVE  Agrees(noList[f].es, x, noWalk[f][x])
      <3>1. noList[f].es = {} /\ noWalk[f][x] = NoFile
        BY DEF noList, noWalk, ListError
      <3> QED BY <3>1, Zenon DEF Agrees, Has, ok
    <2>5. A(0)
      BY <2>2, <2>3, <2>4, NoWalkType, StepsAgree, Zenon
    <2> HIDE DEF A
    <2> QED BY <2>5
  <1>2. ASSUME NEW d \in 1..Depth, d - 1 \in S PROVE d \in S
    <2>1. d \in 0..Depth /\ d - 1 \in 0..Depth /\ d # 0 /\ d \in Nat
      BY <1>0
    <2>2. A(d - 1)
      <3> HIDE DEF A
      <3> QED BY <1>2, <2>1
    <2>3. Lists[d] = listStep(Lists[d - 1]) /\ Walks[d] = walkStep(Walks[d - 1])
      BY <2>1, ListsAre, WalksAre, Zenon
    <2>4. Lists[d - 1] \in Listings /\ Walks[d - 1] \in Walking
      BY <2>1, ListsAre, WalksAre, Zenon
    <2>5. A(d)
      BY <2>2, <2>3, <2>4, StepsAgree, Zenon
    <2> HIDE DEF A
    <2> QED BY <2>1, <2>5
  <1>3. 0..Depth \subseteq S
    <2>1. S \in SUBSET Nat
      OBVIOUS
    <2> HIDE DEF S
    <2> QED BY <1>0, <1>1, <1>2, <2>1, UpTo
  <1>4. ASSUME NEW d \in 0..Depth PROVE A(d)
    <2> HIDE DEF A
    <2> QED BY <1>3
  <1> QED BY <1>4, Zenon

\* So a directory of the bind tree lists exactly what can be walked to in it.
LEMMA ListingsFollow ==
    ASSUME TypeOK
    PROVE  ListingMatchesWalk
  <1> SUFFICES ASSUME NEW n \in live, NEW p \in tree[n], NEW x \in Names
               PROVE  LET f == NodeFile(n, p)
                      IN  {e.dev : e \in {d \in Lists[Depth][f].es : d.name = x}} =
                             IF ok(Walk(f, x)) THEN {Walk(f, x).dev} ELSE {}
    BY Zenon DEF ListingMatchesWalk
  <1> DEFINE f  == NodeFile(n, p)
             es == Lists[Depth][f].es
             w  == Walks[Depth][f][x]
  <1>1. n \in Namespaces /\ p \in Nodes
    BY DEF TypeOK
  <1>2. f \in NodeFiles
    BY <1>1 DEF NodeFile, NodeFiles
  <1>3. f \in File /\ ok(f)
    BY <1>2, FileKinds, Zenon DEF File, ok
  <1>4. Depth \in 0..Depth
    BY DepthNat
  <1> HIDE DEF f
  <1>5. Walk(f, x) = w
    BY <1>3, Zenon DEF Walk
  <1>6. Agrees(es, x, w)
    BY <1>3, <1>4, ListsAgree, Zenon
  <1> HIDE DEF es, w
  <1>7. \A v : v \in {e.dev : e \in {d \in es : d.name = x}} <=> Has(es, x, v)
    BY Zenon DEF Has
  <1>8. \A v : v \in {e.dev : e \in {d \in es : d.name = x}} <=> ok(w) /\ v = w.dev
    BY <1>6, <1>7, Zenon DEF Agrees
  <1>9. {e.dev : e \in {d \in es : d.name = x}} = IF ok(w) THEN {w.dev} ELSE {}
    BY <1>8
  <1> QED BY <1>5, <1>9, Zenon DEF f, es

-----------------------------------------------------------------------------
(***************************************************************************)
(* Walks of whole paths, and what the log tells: both go step by step.     *)
(***************************************************************************)

\* A walk gives a File or the error.
LEMMA WalkType ==
    ASSUME TypeOK, NEW f \in Walked, NEW x \in Names
    PROVE  Walk(f, x) \in Walked
  <1>1. CASE ok(f)
    <2>1. f \in File /\ Depth \in 0..Depth
      BY <1>1, DepthNat DEF ok, Walked
    <2>2. Walks[Depth] \in Walking
      BY <2>1, WalksAre, Zenon
    <2>3. Walks[Depth][f][x] \in Walked
      BY <2>1, <2>2 DEF Walking
    <2> QED BY <1>1, <2>3, Zenon DEF Walk
  <1>2. CASE ~ok(f)
    BY <1>2, Zenon DEF Walk, Walked
  <1> QED BY <1>1, <1>2

\* walkAll goes name by name.
LEMMA WalkAllGoes ==
    ASSUME TypeOK, NEW f \in Walked, NEW parts \in Path
    PROVE  \E at \in [0..Len(parts) -> Walked] :
              /\ walkAll(f, parts) = at[Len(parts)]
              /\ at[0] = f
              /\ \A i \in 1..Len(parts) : at[i] = Walk(at[i - 1], parts[i])
  <1> DEFINE N == Len(parts)
             at == CHOOSE at : at = [i \in 0..N |-> IF i = 0 THEN f ELSE Walk(at[i - 1], parts[i])]
             G == [i \in 1..N |-> [w \in Walked |-> Walk(w, parts[i])]]
  <1>1. walkAll(f, parts) = at[N]
    BY Zenon DEF walkAll
  <1>2. N \in Nat /\ \A i \in 1..N : parts[i] \in Names
    BY DEF Path
  <1> HIDE DEF N
  <1>3. G \in [1..N -> [Walked -> Walked]]
    BY <1>2, WalkType
  <1>4. PICK h \in [0..N -> Walked] : Goes(N, f, G, h)
    <2>1. f \in Walked /\ N \in Nat
      BY <1>2
    <2> HIDE DEF G, at
    <2> QED BY <1>3, <2>1, StepsExist, Zenon
  <1>5. ASSUME NEW i \in 0..N
        PROVE  h[i] = IF i = 0 THEN f ELSE Walk(h[i - 1], parts[i])
    <2>1. CASE i = 0
      BY <1>4, <2>1 DEF Goes
    <2>2. CASE i # 0
      <3>1. i \in 1..N /\ i - 1 \in 0..N
        BY <1>2, <2>2
      <3>2. h[i - 1] \in Walked /\ h[i] = G[i][h[i - 1]]
        BY <1>4, <3>1 DEF Goes
      <3> QED BY <2>2, <3>1, <3>2
    <2> QED BY <2>1, <2>2
  <1>6. h = [i \in 0..N |-> IF i = 0 THEN f ELSE Walk(h[i - 1], parts[i])]
    <2> HIDE DEF G
    <2> QED BY <1>4, <1>5
  <1>7. at = [i \in 0..N |-> IF i = 0 THEN f ELSE Walk(at[i - 1], parts[i])]
    BY <1>6, Zenon
  <1> HIDE DEF at, G
  <1>8. \A i \in 0..N : at[i] = IF i = 0 THEN f ELSE Walk(at[i - 1], parts[i])
    BY <1>7, Zenon
  <1> DEFINE S == {i \in Nat : i \in 0..N => at[i] \in Walked}
  <1>9. 0 \in S
    BY <1>2, <1>8
  <1>10. ASSUME NEW i \in 1..N, i - 1 \in S PROVE i \in S
    <2>1. i \in 0..N /\ i - 1 \in 0..N /\ i # 0 /\ i \in Nat
      BY <1>2
    <2>2. at[i - 1] \in Walked /\ parts[i] \in Names
      BY <1>2, <1>10, <2>1
    <2>3. at[i] = Walk(at[i - 1], parts[i])
      BY <1>8, <2>1, Zenon
    <2> QED BY <2>1, <2>2, <2>3, WalkType
  <1>11. 0..N \subseteq S
    <2>1. S \in SUBSET Nat
      OBVIOUS
    <2> HIDE DEF S
    <2> QED BY <1>2, <1>9, <1>10, <2>1, UpTo
  <1>12. at \in [0..N -> Walked]
    <2>1. \A i \in 0..N : at[i] \in Walked
      BY <1>11
    <2>2. at = [i \in 0..N |-> at[i]]
      BY <1>7
    <2> QED BY <2>1, <2>2
  <1>13. at[0] = f /\ \A i \in 1..N : at[i] = Walk(at[i - 1], parts[i])
    BY <1>2, <1>8
  <1> QED BY <1>1, <1>12, <1>13, Zenon DEF N

\* It gives a File or the error, and stays where it is without a name.
LEMMA WalkAllType ==
    ASSUME TypeOK, NEW f \in Walked
    PROVE  /\ \A parts \in Path : walkAll(f, parts) \in Walked
           /\ walkAll(f, <<>>) = f
  <1>1. ASSUME NEW parts \in Path PROVE walkAll(f, parts) \in Walked
    <2>1. PICK at \in [0..Len(parts) -> Walked] : walkAll(f, parts) = at[Len(parts)]
      BY WalkAllGoes, Zenon
    <2>2. Len(parts) \in 0..Len(parts)
      BY DEF Path
    <2> QED BY <2>1, <2>2
  <1>2. <<>> \in Path /\ Len(<<>>) = 0
    BY DEF Path
  <1>3. walkAll(f, <<>>) = f
    BY <1>2, WalkAllGoes
  <1> QED BY <1>1, <1>3

\* The bind points and their layers as a log tells them.
Story == [Nodes -> Seq([src : [fs : FSs \cup {NoFS}, path : Path], ro : BOOLEAN])]

\* Layers go before, after or in the place of layers.
LEMMA SplicedType ==
    ASSUME NEW S, NEW old \in Seq(S), NEW new \in Seq(S), NEW disp \in Dispositions
    PROVE  spliced(old, new, disp) \in Seq(S)
  <1>1. CASE disp = "replace"
    BY <1>1 DEF spliced
  <1>2. CASE disp = "before"
    BY <1>2 DEF spliced
  <1>3. CASE disp = "after"
    BY <1>3 DEF spliced
  <1> QED BY <1>1, <1>2, <1>3 DEF Dispositions

\* An entry tells a story on.
LEMMA TellType ==
    ASSUME NEW st \in Story, NEW e \in Entry
    PROVE  tell(st, e) \in Story
  <1> DEFINE B == [src : [fs : FSs \cup {NoFS}, path : Path], ro : BOOLEAN]
  <1>1. e.dst \in Nodes /\ st[e.dst] \in Seq(B)
    BY DEF Entry, Story
  <1>2. CASE e.op = "unbind"
    <2>1. <<>> \in Seq(B)
      OBVIOUS
    <2> HIDE DEF B
    <2> QED BY <1>1, <1>2, <2>1 DEF tell, Story, B
  <1>3. CASE e.op # "unbind"
    <2>1. /\ e.disp \in Dispositions /\ e.ro \in BOOLEAN
          /\ e.src \in Seq([fs : FSs \cup {NoFS}, path : Path])
      BY <1>3 DEF Entry
    <2>2. toldLayers(e) \in Seq(B)
      <3>1. DOMAIN e.src = 1..Len(e.src) /\ Len(e.src) \in Nat
        BY <2>1
      <3>2. ASSUME NEW i \in DOMAIN e.src PROVE [src |-> e.src[i], ro |-> e.ro] \in B
        <4>1. e.src[i] \in [fs : FSs \cup {NoFS}, path : Path]
          <5> DEFINE R == [fs : FSs \cup {NoFS}, path : Path]
                     t == e.src
          <5>1. t \in Seq(R) /\ i \in DOMAIN t
            BY <2>1
          <5> HIDE DEF R, t
          <5>2. t[i] \in R
            BY <5>1
          <5> QED BY <5>2 DEF R, t
        <4> QED BY <2>1, <4>1
      <3> HIDE DEF B
      <3>3. toldLayers(e) \in [1..Len(e.src) -> B]
        BY <3>1, <3>2 DEF toldLayers
      <3> QED BY <3>1, <3>3
    <2> HIDE DEF B
    <2>3. spliced(st[e.dst], toldLayers(e), e.disp) \in Seq(B)
      BY <1>1, <2>1, <2>2, SplicedType
    <2> QED BY <1>1, <1>3, <2>3 DEF tell, Story, B
  <1> QED BY <1>2, <1>3

\* Replay goes through the entries one by one.
LEMMA ReplayGoes ==
    ASSUME NEW entries \in Seq(Entry)
    PROVE  \E at \in [0..Len(entries) -> Story] :
              /\ Replay(entries) = at[Len(entries)]
              /\ at[0] = [p \in Nodes |-> <<>>]
              /\ \A i \in 1..Len(entries) : at[i] = tell(at[i - 1], entries[i])
  <1> DEFINE N == Len(entries)
             none == [p \in Nodes |-> <<>>]
             at == CHOOSE at : at = [i \in 0..N |-> IF i = 0 THEN none ELSE tell(at[i - 1], entries[i])]
             G == [i \in 1..N |-> [st \in Story |-> tell(st, entries[i])]]
  <1>1. Replay(entries) = at[N]
    BY Zenon DEF Replay
  <1>2. N \in Nat /\ \A i \in 1..N : entries[i] \in Entry
    OBVIOUS
  <1>3. none \in Story
    BY DEF Story
  <1> HIDE DEF N, none
  <1>4. G \in [1..N -> [Story -> Story]]
    BY <1>2, TellType
  <1>5. PICK h \in [0..N -> Story] : Goes(N, none, G, h)
    <2> HIDE DEF G
    <2> QED BY <1>2, <1>3, <1>4, StepsExist, Zenon
  <1>6. ASSUME NEW i \in 0..N
        PROVE  h[i] = IF i = 0 THEN none ELSE tell(h[i - 1], entries[i])
    <2>1. CASE i = 0
      BY <1>5, <2>1 DEF Goes
    <2>2. CASE i # 0
      <3>1. i \in 1..N /\ i - 1 \in 0..N
        BY <1>2, <2>2
      <3>2. h[i - 1] \in Story /\ h[i] = G[i][h[i - 1]]
        BY <1>5, <3>1 DEF Goes
      <3> QED BY <2>2, <3>1, <3>2
    <2> QED BY <2>1, <2>2
  <1>7. h = [i \in 0..N |-> IF i = 0 THEN none ELSE tell(h[i - 1], entries[i])]
    <2> HIDE DEF G
    <2> QED BY <1>5, <1>6
  <1>8. at = [i \in 0..N |-> IF i = 0 THEN none ELSE tell(at[i - 1], entries[i])]
    BY <1>7, Zenon
  <1> HIDE DEF at, G
  <1>9. \A i \in 0..N : at[i] = IF i = 0 THEN none ELSE tell(at[i - 1], entries[i])
    BY <1>8, Zenon
  <1> DEFINE S == {i \in Nat : i \in 0..N => at[i] \in Story}
  <1>10. 0 \in S
    BY <1>2, <1>3, <1>9
  <1>11. ASSUME NEW i \in 1..N, i - 1 \in S PROVE i \in S
    <2>1. i \in 0..N /\ i - 1 \in 0..N /\ i # 0 /\ i \in Nat
      BY <1>2
    <2>2. at[i - 1] \in Story /\ entries[i] \in Entry
      BY <1>2, <1>11, <2>1
    <2>3. at[i] = tell(at[i - 1], entries[i])
      BY <1>9, <2>1, Zenon
    <2> QED BY <2>1, <2>2, <2>3, TellType
  <1>12. 0..N \subseteq S
    <2>1. S \in SUBSET Nat
      OBVIOUS
    <2> HIDE DEF S
    <2> QED BY <1>2, <1>10, <1>11, <2>1, UpTo
  <1>13. at \in [0..N -> Story]
    <2>1. \A i \in 0..N : at[i] \in Story
      BY <1>12
    <2>2. at = [i \in 0..N |-> at[i]]
      BY <1>8
    <2> QED BY <2>1, <2>2
  <1>14. at[0] = none /\ \A i \in 1..N : at[i] = tell(at[i - 1], entries[i])
    BY <1>2, <1>9
  <1> QED BY <1>1, <1>13, <1>14, Zenon DEF N, none

\* Replaying is telling a story.
LEMMA ReplayType ==
    ASSUME NEW entries \in Seq(Entry)
    PROVE  Replay(entries) \in Story
  <1>1. PICK at \in [0..Len(entries) -> Story] : Replay(entries) = at[Len(entries)]
    BY ReplayGoes, Zenon
  <1>2. Len(entries) \in 0..Len(entries)
    OBVIOUS
  <1> QED BY <1>1, <1>2

\* An empty log tells of no layers.
LEMMA ReplayEmpty == Replay(<<>>) = [p \in Nodes |-> <<>>]
  <1>1. <<>> \in Seq(Entry) /\ Len(<<>>) = 0
    OBVIOUS
  <1> QED BY <1>1, ReplayGoes

\* One entry more tells one thing more.
LEMMA ReplayAppend ==
    ASSUME NEW entries \in Seq(Entry), NEW e \in Entry
    PROVE  Replay(Append(entries, e)) = tell(Replay(entries), e)
  <1> DEFINE N == Len(entries)
             more == Append(entries, e)
  <1>1. /\ N \in Nat /\ more \in Seq(Entry) /\ Len(more) = N + 1 /\ more[N + 1] = e
        /\ \A i \in 1..N : more[i] = entries[i]
    OBVIOUS
  <1>2. PICK at \in [0..N -> Story] :
           /\ Replay(entries) = at[N]
           /\ at[0] = [p \in Nodes |-> <<>>]
           /\ \A i \in 1..N : at[i] = tell(at[i - 1], entries[i])
    BY ReplayGoes, Zenon
  <1>3. PICK to \in [0..Len(more) -> Story] :
           /\ Replay(more) = to[Len(more)]
           /\ to[0] = [p \in Nodes |-> <<>>]
           /\ \A i \in 1..Len(more) : to[i] = tell(to[i - 1], more[i])
    <2> HIDE DEF more
    <2> QED BY <1>1, ReplayGoes, Zenon
  <1> HIDE DEF N, more
  <1> DEFINE S == {i \in Nat : i \in 0..N => to[i] = at[i]}
  <1>4. 0 \in S
    BY <1>1, <1>2, <1>3
  <1>5. ASSUME NEW i \in 1..N, i - 1 \in S PROVE i \in S
    <2>1. i \in 1..Len(more) /\ i - 1 \in 0..N
      BY <1>1
    <2>2. to[i - 1] = at[i - 1]
      BY <1>5, <2>1
    <2>3. to[i] = tell(to[i - 1], more[i]) /\ at[i] = tell(at[i - 1], entries[i]) /\ more[i] = entries[i]
      BY <1>1, <1>2, <1>3, <2>1, Zenon
    <2>4. to[i] = at[i]
      BY <2>2, <2>3, Zenon
    <2> QED BY <2>4
  <1>6. 0..N \subseteq S
    <2>1. S \in SUBSET Nat
      OBVIOUS
    <2> HIDE DEF S
    <2> QED BY <1>1, <1>4, <1>5, <2>1, UpTo
  <1>7. to[N] = at[N]
    BY <1>1, <1>6
  <1>8. N + 1 \in 1..Len(more) /\ (N + 1) - 1 = N
    BY <1>1
  <1>9. to[N + 1] = tell(to[N], more[N + 1])
    <2>1. to[N + 1] = tell(to[(N + 1) - 1], more[N + 1])
      BY <1>3, <1>8, Zenon
    <2> QED BY <1>8, <2>1
  <1> QED BY <1>1, <1>2, <1>3, <1>7, <1>9, Zenon DEF more

-----------------------------------------------------------------------------
(***************************************************************************)
(* Paths, and what a call does first.                                      *)
(***************************************************************************)

\* The prefixes of a path have their prefixes among them.
LEMMA PrefixesClosed ==
    ASSUME NEW p \in Path
    PROVE  p \in Prefixes(p) /\ \A q \in Prefixes(p) : Prefixes(q) \subseteq Prefixes(p)
  <1>1. p \in Prefixes(p)
    <2>1. p = SubSeq(p, 1, Len(p)) /\ Len(p) \in 0..Len(p)
      BY DEF Path
    <2> QED BY <2>1 DEF Prefixes
  <1>2. ASSUME NEW k \in 0..Len(p), NEW j \in 0..Len(SubSeq(p, 1, k))
        PROVE  j \in 0..Len(p) /\ SubSeq(SubSeq(p, 1, k), 1, j) = SubSeq(p, 1, j)
    <2>1. Len(SubSeq(p, 1, k)) = k
      BY DEF Path
    <2> QED BY <2>1 DEF Path
  <1>3. ASSUME NEW q \in Prefixes(p), NEW t \in Prefixes(q) PROVE t \in Prefixes(p)
    <2>1. PICK k \in 0..Len(p) : q = SubSeq(p, 1, k)
      BY DEF Prefixes
    <2>2. PICK j \in 0..Len(q) : t = SubSeq(q, 1, j)
      BY DEF Prefixes
    <2> QED BY <1>2, <2>1, <2>2 DEF Prefixes
  <1> QED BY <1>1, <1>3

\* The prefixes of a path are it and the prefixes of the path above it.
LEMMA PrefixesFront ==
    ASSUME NEW p \in Path
    PROVE  Prefixes(p) \subseteq {p} \cup (IF p = <<>> THEN {} ELSE Prefixes(Front(p)))
  <1> SUFFICES ASSUME NEW k \in 0..Len(p), SubSeq(p, 1, k) # p
               PROVE  p # <<>> /\ SubSeq(p, 1, k) \in Prefixes(Front(p))
    BY DEF Prefixes
  <1>1. k < Len(p) /\ Len(p) \in Nat /\ p # <<>>
    BY DEF Path
  <1>2. Front(p) = SubSeq(p, 1, Len(p) - 1) /\ Len(Front(p)) = Len(p) - 1
    <2>0. Len(p) - 1 \in 0..Len(p)
      BY <1>1
    <2>1. PICK m \in 0..Len(p) : m = Len(p) - 1
      BY <2>0, Zenon
    <2>2. Len(SubSeq(p, 1, m)) = m
      BY DEF Path
    <2> QED BY <2>1, <2>2 DEF Front
  <1>3. k \in 0..Len(Front(p)) /\ SubSeq(p, 1, k) = SubSeq(Front(p), 1, k)
    BY <1>1, <1>2 DEF Path
  <1> QED BY <1>1, <1>3 DEF Prefixes

\* What a request is, by its op.
LEMMA RequestKinds ==
    ASSUME NEW r \in Requests
    PROVE  /\ r.op = "BindFS" => FSCall(r) /\ r.disp \in Dispositions /\ r.ro \in BOOLEAN
           /\ r.op = "BindPath" => PathCall(r) /\ r.disp \in Dispositions /\ r.ro \in BOOLEAN
  BY RequestsAssumption DEF FSCall, PathCall

\* The job of a bind of the layers new at dst.
bindJob(n, dst, disp, new, ro) ==
    [NoJob EXCEPT !.ns = n, !.dst = dst, !.disp = disp, !.new = new, !.ro = ro]

\* What BindFS and BindPath do alike.
Binding(g, n, dst, disp, new, ro) ==
    /\ dst \in Nodes /\ disp \in Dispositions /\ ro \in BOOLEAN
    /\ new \in Seq(Layer) /\ new # <<>>
    /\ \A i \in DOMAIN new : new[i].ro = ro /\ new[i].seq = seq[n] + i
    /\ tree' = [tree EXCEPT ![n] = @ \cup Prefixes(dst)]
    /\ seq' = [seq EXCEPT ![n] = @ + Len(new)]
    /\ Begin(g, n, "add", bindJob(n, dst, disp, new, ro))
    /\ UNCHANGED <<layers, log, dropped, live, outrun, dead>>

\* What it takes to be a layer.
LayerFields == [fs : FSs \cup {NoFS}, sub : Path, resolved : Walked, src : Path,
                seq : Nat, ro : BOOLEAN]
LEMMA LayerIs ==
    /\ \A l \in LayerFields : (l.fs = NoFS /\ l.ro => l.resolved.ro) => l \in Layer
    /\ Layer \subseteq LayerFields
  BY DEF LayerFields, Layer, Walked

\* BindFS binds one layer.
LEMMA BindFSBinds ==
    ASSUME TypeOK, NEW g \in Procs, NEW n \in Namespaces, NEW r \in Requests, BindFS(g, n, r)
    PROVE  \E new : Binding(g, n, r.dst, r.disp, new, r.ro)
  <1> DEFINE l == [fs |-> r.fs, sub |-> r.sub, resolved |-> NoFile, src |-> <<>>,
                   seq |-> seq[n] + 1, ro |-> r.ro]
             new == <<l>>
  <1>1. FSCall(r) /\ r.disp \in Dispositions /\ r.ro \in BOOLEAN
    BY RequestKinds, Zenon DEF BindFS
  <1>2. r.fs \in FSs /\ r.sub \in Path /\ r.dst \in Nodes
    BY <1>1 DEF FSCall
  <1>3. seq[n] \in Nat
    BY DEF TypeOK
  <1>4. l \in Layer
    <2>1. l \in LayerFields
      BY <1>1, <1>2, <1>3 DEF LayerFields, Path, Walked
    <2>2. l.fs # NoFS
      BY <1>2, FSAssumption
    <2> HIDE DEF l
    <2> QED BY <2>1, <2>2, LayerIs
  <1>5. l.seq = seq[n] + 1 /\ l.ro = r.ro
    OBVIOUS
  <1>6. Begin(g, n, "add", bindJob(n, r.dst, r.disp, new, r.ro))
    BY Zenon DEF BindFS, bindJob
  <1> HIDE DEF l
  <1>7. new \in Seq(Layer) /\ new # <<>> /\ Len(new) = 1 /\ DOMAIN new = {1} /\ new[1] = l
    BY <1>4
  <1>8. \A i \in DOMAIN new : new[i].ro = r.ro /\ new[i].seq = seq[n] + i
    BY <1>5, <1>7
  <1>9. seq' = [seq EXCEPT ![n] = @ + Len(new)]
    BY <1>7 DEF BindFS
  <1>10. tree' = [tree EXCEPT ![n] = @ \cup Prefixes(r.dst)] /\ UNCHANGED <<layers, log, dropped, live, outrun, dead>>
    BY DEF BindFS, ensureNode
  <1> HIDE DEF new
  <1> QED BY <1>1, <1>2, <1>6, <1>7, <1>8, <1>9, <1>10, Zenon DEF Binding

\* BindPath binds one layer for every source.
LEMMA BindPathBinds ==
    ASSUME TypeOK, NEW g \in Procs, NEW n \in Namespaces, NEW r \in Requests, BindPath(g, n, r)
    PROVE  \E new : Binding(g, n, r.dst, r.disp, new, r.ro)
  <1> DEFINE fs == Sources(n, r)
             l(i) == [fs |-> NoFS, sub |-> <<>>, src |-> r.srcs[i],
                      resolved |-> [fs[i] EXCEPT !.ro = @ \/ r.ro],
                      seq |-> seq[n] + i, ro |-> r.ro]
             new == [i \in DOMAIN fs |-> l(i)]
  <1>1. PathCall(r) /\ r.disp \in Dispositions /\ r.ro \in BOOLEAN
    BY RequestKinds, Zenon DEF BindPath
  <1>2. r.srcs \in Seq(Path) /\ r.srcs # <<>> /\ r.dst \in Nodes
    BY <1>1 DEF PathCall
  <1>3. seq[n] \in Nat
    BY DEF TypeOK
  <1>4. DOMAIN fs = 1..Len(r.srcs) /\ Len(r.srcs) \in Nat /\ \A i \in 1..Len(r.srcs) : r.srcs[i] \in Path
    BY <1>2 DEF Sources
  <1>5. /\ \A i \in DOMAIN fs : ok(fs[i])
        /\ Begin(g, n, "add", bindJob(n, r.dst, r.disp, new, r.ro))
    BY Zenon DEF BindPath, bindJob
  <1>6. ASSUME NEW i \in DOMAIN fs PROVE fs[i] \in File
    <2>1. Root(n) \in Walked
      BY NodesAssumption DEF Root, NodeFile, NodeFiles, File, Walked
    <2>2. fs[i] = walkAll(Root(n), r.srcs[i])
      BY DEF Sources
    <2>3. walkAll(Root(n), r.srcs[i]) \in Walked
      BY <1>4, <2>1, WalkAllType
    <2> QED BY <1>5, <2>2, <2>3 DEF Walked, ok
  <1> HIDE DEF fs
  <1>7. ASSUME NEW i \in DOMAIN fs
        PROVE  l(i) \in Layer /\ l(i).ro = r.ro /\ l(i).seq = seq[n] + i
    <2>1. [fs[i] EXCEPT !.ro = @ \/ r.ro] \in File /\ (r.ro => [fs[i] EXCEPT !.ro = @ \/ r.ro].ro)
      BY <1>1, <1>6 DEF File, NodeFiles, FSFiles
    <2>2. r.srcs[i] \in Path /\ <<>> \in Path /\ seq[n] + i \in Nat
      BY <1>3, <1>4 DEF Path
    <2>3. l(i) \in LayerFields /\ l(i).ro = r.ro /\ l(i).seq = seq[n] + i
      BY <1>1, <2>1, <2>2 DEF LayerFields, Walked
    <2>4. l(i).ro => l(i).resolved.ro
      BY <2>1
    <2> HIDE DEF l
    <2> QED BY <2>3, <2>4, LayerIs
  <1> HIDE DEF l
  <1>8. /\ new \in Seq(Layer) /\ new # <<>> /\ Len(new) = Len(r.srcs)
        /\ \A i \in DOMAIN new : new[i].ro = r.ro /\ new[i].seq = seq[n] + i
    BY <1>2, <1>4, <1>7
  <1>9. seq' = [seq EXCEPT ![n] = @ + Len(new)]
    BY <1>8 DEF BindPath
  <1>10. tree' = [tree EXCEPT ![n] = @ \cup Prefixes(r.dst)] /\ UNCHANGED <<layers, log, dropped, live, outrun, dead>>
    BY DEF BindPath, ensureNode
  <1> HIDE DEF new
  <1> QED BY <1>1, <1>2, <1>5, <1>8, <1>9, <1>10, Zenon DEF Binding

-----------------------------------------------------------------------------
(***************************************************************************)
(* The types, the calls under way and the namespaces made so far.          *)
(***************************************************************************)

\* No call, and a job for one.
LEMMA NoJobType == NoJob \in Job
  BY NodesAssumption, BoundsAssumption DEF NoJob, Job, Path, Dispositions

\* Writing one place of a function of two arguments.
LEMMA Update2 ==
    ASSUME NEW A, NEW B, NEW S, NEW f \in [A -> [B -> S]], NEW a \in A, NEW b \in B, NEW x \in S
    PROVE  /\ [f EXCEPT ![a][b] = x] \in [A -> [B -> S]]
           /\ \A m \in A, q \in B :
                 [f EXCEPT ![a][b] = x][m][q] = IF m = a /\ q = b THEN x ELSE f[m][q]
  OBVIOUS

\* A goroutine that begins a call was idle, and no other is concerned.
LEMMA BeginIs ==
    ASSUME TypeOK, NEW g \in Procs, NEW n, NEW label, NEW j, Begin(g, n, label, j)
    PROVE  /\ pc[g] = "idle" /\ n \in live /\ n \in Namespaces /\ ops' \in 0..MaxOps
           /\ DOMAIN pc' = Procs /\ DOMAIN job' = Procs
           /\ pc'[g] = label /\ job'[g] = j
           /\ \A h \in Procs : h # g => pc'[h] = pc[h] /\ job'[h] = job[h]
           /\ raced \subseteq raced' /\ raced' \subseteq raced \cup {n}
           /\ raced' \subseteq Namespaces
  <1>1. pc[g] = "idle" /\ n \in live /\ n \in Namespaces
    BY DEF Begin, TypeOK
  <1>2. ops' \in 0..MaxOps
    BY BoundsAssumption DEF Begin, TypeOK
  <1>3. /\ DOMAIN pc' = Procs /\ DOMAIN job' = Procs
        /\ pc'[g] = label /\ job'[g] = j
        /\ \A h \in Procs : h # g => pc'[h] = pc[h] /\ job'[h] = job[h]
    BY DEF Begin, TypeOK
  <1>4. raced \subseteq raced' /\ raced' \subseteq raced \cup {n} /\ raced' \subseteq Namespaces
    BY <1>1 DEF Begin, TypeOK
  <1> QED BY <1>1, <1>2, <1>3, <1>4

\* A goroutine that ends one is idle again.
LEMMA EndIs ==
    ASSUME TypeOK, NEW g \in Procs, End(g)
    PROVE  /\ DOMAIN pc' = Procs /\ DOMAIN job' = Procs
           /\ pc'[g] = "idle" /\ job'[g] = NoJob
           /\ \A h \in Procs : h # g => pc'[h] = pc[h] /\ job'[h] = job[h]
  BY DEF End, TypeOK

Labels == {"idle", "add", "log", "copy", "fix"}

\* The types of what goroutines are doing, when one of them goes on.
LEMMA PcType ==
    ASSUME TypeOK, NEW g \in Procs, NEW N \in Labels, pc' = [pc EXCEPT ![g] = N]
    PROVE  pc' \in [Procs -> Labels]
  BY DEF TypeOK, Labels

\* A call goes on undisturbed if nothing of its own changes.
LEMMA JobFrame ==
    ASSUME NEW h \in Procs, JobOK(h), job'[h] = job[h], pc'[h] = pc[h], live \subseteq live',
           \A m \in Namespaces : tree[m] \subseteq tree'[m],
           live \subseteq Namespaces,
           Cloning(h) => live' = live /\ tree'[job[h].to] = tree[job[h].to]
    PROVE  JobOK(h)'
  <1>1. pc[h] # "idle" => job[h].ns \in Namespaces
    BY DEF JobOK
  <1>2. CASE Cloning(h)
    <2>1. Cloning(h)' /\ pc[h] # "idle"
      BY <1>2 DEF Cloning
    <2>2. tree[job[h].ns] \subseteq tree'[job[h].ns]
      BY <1>1, <2>1
    <2> QED BY <1>2, <2>1, <2>2 DEF JobOK, Cloning
  <1>3. CASE ~Cloning(h)
    <2>1. ~Cloning(h)'
      BY <1>3 DEF Cloning
    <2>2. pc[h] \in {"add", "log"} => tree[job[h].ns] \subseteq tree'[job[h].ns]
      BY <1>1
    <2> QED BY <1>3, <2>1, <2>2 DEF JobOK
  <1> QED BY <1>2, <1>3

\* A namespace that is being made is not one of those that exist.
LEMMA CloneApart ==
    ASSUME TypeInv, NEW g \in Procs, Cloning(g)
    PROVE  /\ job[g].ns \in live /\ job[g].ns \in Namespaces
           /\ job[g].to \in Namespaces /\ job[g].to \notin live /\ job[g].to # job[g].ns
           /\ job[g].to # 0
           /\ \A h \in Procs : h # g => ~Cloning(h) /\ job[h].to = 0
  <1>1. /\ JobOK(g) /\ pc[g] # "idle" /\ live \subseteq Namespaces
    BY DEF TypeInv, TypeOK, Cloning
  <1>2. /\ job[g].ns \in live /\ job[g].ns \in Namespaces
        /\ job[g].to \in Namespaces /\ job[g].to \notin live /\ job[g].to # job[g].ns
    BY <1>1 DEF JobOK
  <1>3. job[g].to # 0
    BY <1>2 DEF Namespaces
  <1>4. ASSUME NEW h \in Procs, h # g PROVE ~Cloning(h) /\ job[h].to = 0
    <2>1. job[h].to = 0
      BY <1>3, <1>4 DEF TypeInv, LiveOK
    <2>2. JobOK(h)
      BY DEF TypeInv
    <2>3. Cloning(h) => job[h].to \in Namespaces
      BY <2>2 DEF JobOK
    <2> QED BY <2>1, <2>3 DEF Namespaces
  <1> QED BY <1>1, <1>2, <1>3, <1>4

\* A bind makes the nodes of its path and has layers to add.
LEMMA BindingType ==
    ASSUME TypeInv, NEW g \in Procs, NEW n \in Namespaces, NEW dst, NEW disp, NEW new, NEW ro,
           Binding(g, n, dst, disp, new, ro)
    PROVE  TypeInv'
  <1> DEFINE j == bindJob(n, dst, disp, new, ro)
  <1>1. TypeOK /\ LiveOK /\ \A h \in Procs : JobOK(h)
    BY DEF TypeInv
  <1>2. /\ dst \in Nodes /\ disp \in Dispositions /\ ro \in BOOLEAN
        /\ new \in Seq(Layer) /\ new # <<>>
        /\ \A i \in DOMAIN new : new[i].ro = ro
        /\ tree' = [tree EXCEPT ![n] = @ \cup Prefixes(dst)]
        /\ seq' = [seq EXCEPT ![n] = @ + Len(new)]
        /\ Begin(g, n, "add", j)
        /\ UNCHANGED <<layers, log, dropped, live, outrun, dead>>
    BY DEF Binding
  <1> HIDE DEF j
  <1>3. /\ pc[g] = "idle" /\ n \in live /\ n \in Namespaces /\ ops' \in 0..MaxOps
        /\ DOMAIN pc' = Procs /\ DOMAIN job' = Procs
        /\ pc'[g] = "add" /\ job'[g] = j
        /\ \A h \in Procs : h # g => pc'[h] = pc[h] /\ job'[h] = job[h]
        /\ raced' \subseteq Namespaces
    BY <1>1, <1>2, BeginIs
  <1>4. dst \in Path /\ Prefixes(dst) \subseteq Nodes /\ dst \in Prefixes(dst)
    BY <1>2, NodesAssumption, PrefixesClosed, Zenon
  <1>5. /\ tree' \in [Namespaces -> SUBSET Nodes] /\ tree'[n] = tree[n] \cup Prefixes(dst)
        /\ \A m \in Namespaces : m # n => tree'[m] = tree[m]
        /\ \A m \in Namespaces : tree[m] \subseteq tree'[m]
    BY <1>1, <1>2, <1>4 DEF TypeOK
  <1>6. /\ j \in Job /\ j.ns = n /\ j.dst = dst /\ j.disp = disp /\ j.new = new /\ j.to = 0
        /\ j.ro = ro
    <2>1. n \in 0..MaxNS
      BY <1>3 DEF Namespaces
    <2> QED BY <1>2, <2>1, NoJobType DEF j, bindJob, Job, NoJob
  <1>7. TypeOK'
    <2>1. \A m \in Namespaces : \A p \in tree'[m] : Prefixes(p) \subseteq tree'[m] \/ m \notin live'
      <3> SUFFICES ASSUME NEW m \in Namespaces, NEW p \in tree'[m], m \in live
                   PROVE  Prefixes(p) \subseteq tree'[m]
        BY <1>2
      <3>1. CASE p \in tree[m]
        BY <1>1, <1>5, <3>1 DEF TypeOK
      <3>2. CASE p \notin tree[m]
        <4>1. m = n /\ p \in Prefixes(dst)
          BY <1>5, <3>2
        <4> QED BY <1>4, <1>5, <4>1, PrefixesClosed
      <3> QED BY <3>1, <3>2
    <2>2. \A m \in Namespaces, p \in Nodes : layers'[m][p] # <<>> => p \in tree'[m]
      BY <1>1, <1>2, <1>5 DEF TypeOK
    <2>3. seq' \in [Namespaces -> Nat]
      <3>1. Len(new) \in Nat
        BY <1>2
      <3> QED BY <1>1, <1>2, <3>1 DEF TypeOK
    <2>4. pc' \in [Procs -> Labels]
      BY <1>1, <1>2, PcType DEF Begin, Labels
    <2> QED BY <1>1, <1>2, <1>3, <1>5, <2>1, <2>2, <2>3, <2>4 DEF TypeOK, Labels
  <1>8. JobOK(g)'
    BY <1>2, <1>3, <1>4, <1>5, <1>6 DEF JobOK, Cloning
  <1>9. ASSUME NEW h \in Procs, h # g PROVE JobOK(h)'
    <2>1. Cloning(h) => tree'[job[h].to] = tree[job[h].to]
      BY <1>3, <1>5, CloneApart
    <2> QED BY <1>1, <1>2, <1>3, <1>5, <1>9, <2>1, JobFrame DEF TypeOK
  <1>10. LiveOK'
    <2>0. job[g].to = 0
      <3>1. job[g] = NoJob
        BY <1>1, <1>3, Zenon DEF JobOK
      <3>2. NoJob.to = 0
        BY DEF NoJob
      <3> QED BY <3>1, <3>2
    <2>1. \A h \in Procs : job'[h].to = job[h].to
      BY <1>3, <1>6, <2>0
    <2>2. \A m \in Namespaces \ live' : (\A h \in Procs : job'[h].to # m) => tree'[m] = {}
      BY <1>1, <1>2, <1>3, <1>5, <2>1, SMTT(40) DEF LiveOK
    <2> QED BY <1>1, <1>2, <2>1, <2>2 DEF LiveOK
  <1> QED BY <1>7, <1>8, <1>9, <1>10 DEF TypeInv

\* A goroutine that is in no call has no job.
LEMMA IdleJob ==
    ASSUME TypeInv, NEW g \in Procs, pc[g] = "idle"
    PROVE  job[g] = NoJob /\ job[g].to = 0 /\ job[g].new = <<>> /\ ~Cloning(g)
  <1>1. job[g] = NoJob
    <2>1. JobOK(g)
      BY DEF TypeInv
    <2> QED BY <2>1, Zenon DEF JobOK
  <1>2. NoJob.to = 0 /\ NoJob.new = <<>>
    BY DEF NoJob
  <1> QED BY <1>1, <1>2 DEF Cloning

\* A bind of paths that fails uses up numbers and no more.
LEMMA BindPathFailsType ==
    ASSUME TypeInv, NEW g \in Procs, NEW n \in Namespaces, NEW r \in Requests, BindPathFails(g, n, r)
    PROVE  TypeInv' /\ seq' \in [Namespaces -> Nat] /\ \A m \in Namespaces : seq[m] <= seq'[m]
  <1>1. r.op = "BindPath" /\ ops < MaxOps /\ ops' = ops + 1
    BY DEF BindPathFails
  <1>2. PathCall(r)
    BY <1>1, RequestKinds
  <1>3. r.srcs \in Seq(Path)
    BY <1>2 DEF PathCall
  <1>4. PICK i \in DOMAIN r.srcs : seq' = [seq EXCEPT ![n] = @ + (i - 1)]
    BY DEF BindPathFails
  <1>5. i \in Nat /\ i - 1 \in Nat
    BY <1>3
  <1>6. seq \in [Namespaces -> Nat] /\ ops \in 0..MaxOps
    BY DEF TypeInv, TypeOK
  <1>7. seq' \in [Namespaces -> Nat] /\ \A m \in Namespaces : seq[m] <= seq'[m]
    BY <1>4, <1>5, <1>6
  <1>8. ops' \in 0..MaxOps
    BY <1>1, <1>6, BoundsAssumption
  <1>9. UNCHANGED <<tree, layers, log, dropped, live, outrun, dead, pc, job, raced>>
    BY DEF BindPathFails
  <1>10. TypeOK'
    BY <1>7, <1>8, <1>9 DEF TypeInv, TypeOK
  <1>11. ASSUME NEW h \in Procs PROVE JobOK(h)'
    BY <1>9 DEF TypeInv, JobOK, Cloning
  <1>12. LiveOK'
    BY <1>9 DEF TypeInv, LiveOK
  <1> QED BY <1>7, <1>10, <1>11, <1>12 DEF TypeInv

\* Unbind takes the layers of a node away.
LEMMA UnbindType ==
    ASSUME TypeInv, NEW g \in Procs, NEW n \in Namespaces, NEW r \in Requests, Unbind(g, n, r)
    PROVE  /\ TypeInv' /\ r.dst \in Nodes
           /\ \A m \in Namespaces, q \in Nodes :
                 layers'[m][q] = IF m = n /\ q = r.dst THEN <<>> ELSE layers[m][q]
  <1> DEFINE j == [NoJob EXCEPT !.ns = n, !.dst = r.dst]
  <1>1. TypeOK /\ LiveOK /\ \A h \in Procs : JobOK(h)
    BY DEF TypeInv
  <1>2. /\ r.dst \in tree[n]
        /\ layers' = [layers EXCEPT ![n][r.dst] = <<>>]
        /\ Begin(g, n, "log", j)
        /\ UNCHANGED <<tree, seq, log, dropped, live, outrun, dead>>
    BY DEF Unbind
  <1>3. r.dst \in Nodes
    BY <1>1, <1>2 DEF TypeOK
  <1>4. /\ j \in Job /\ j.ns = n /\ j.dst = r.dst /\ j.disp = "" /\ j.new = <<>> /\ j.to = 0
        /\ j.ro = FALSE
    <2>1. n \in 0..MaxNS
      BY DEF Namespaces
    <2> QED BY <1>3, <2>1, NoJobType DEF Job, NoJob
  <1> HIDE DEF j
  <1>5. /\ pc[g] = "idle" /\ n \in live /\ ops' \in 0..MaxOps
        /\ DOMAIN pc' = Procs /\ DOMAIN job' = Procs
        /\ pc'[g] = "log" /\ job'[g] = j
        /\ \A h \in Procs : h # g => pc'[h] = pc[h] /\ job'[h] = job[h]
        /\ raced' \subseteq Namespaces
    BY <1>1, <1>2, BeginIs
  <1>6. layers \in [Namespaces -> [Nodes -> Seq(Layer)]] /\ <<>> \in Seq(Layer)
    BY <1>1 DEF TypeOK
  <1>7. /\ layers' \in [Namespaces -> [Nodes -> Seq(Layer)]]
        /\ \A m \in Namespaces, q \in Nodes :
              layers'[m][q] = IF m = n /\ q = r.dst THEN <<>> ELSE layers[m][q]
    BY <1>2, <1>3, <1>6, Update2
  <1>8. TypeOK'
    <2>1. pc' \in [Procs -> Labels]
      BY <1>1, <1>2, PcType DEF Begin, Labels
    <2>2. \A m \in Namespaces, p \in Nodes : layers'[m][p] # <<>> => p \in tree'[m]
      BY <1>1, <1>2, <1>7 DEF TypeOK
    <2> QED BY <1>1, <1>2, <1>5, <1>7, <2>1, <2>2 DEF TypeOK, Labels
  <1>9. JobOK(g)'
    <2>1. \A i \in DOMAIN j.new : j.new[i].ro = j.ro
      <3>1. DOMAIN <<>> = {}
        OBVIOUS
      <3> QED BY <1>4, <3>1, Zenon
    <2> QED BY <1>2, <1>4, <1>5, <2>1 DEF JobOK, Cloning
  <1>10. ASSUME NEW h \in Procs, h # g PROVE JobOK(h)'
    BY <1>1, <1>2, <1>5, <1>10, JobFrame DEF TypeOK
  <1>11. LiveOK'
    <2>1. \A h \in Procs : job'[h].to = job[h].to
      BY <1>4, <1>5, IdleJob
    <2> QED BY <1>1, <1>2, <2>1 DEF LiveOK
  <1> QED BY <1>3, <1>7, <1>8, <1>9, <1>10, <1>11 DEF TypeInv

\* Clone takes the next number there is, and starts with nothing copied.
LEMMA CloneSeqType ==
    ASSUME TypeInv, NEW g \in Procs, NEW n \in Namespaces, cloneSeq(g, n)
    PROVE  TypeInv'
  <1> DEFINE c == Cardinality(live) + 1
             j == [NoJob EXCEPT !.ns = n, !.to = c, !.seq = seq[n]]
  <1>1. TypeOK /\ LiveOK /\ \A h \in Procs : JobOK(h)
    BY DEF TypeInv
  <1>2. /\ live # Namespaces /\ \A h \in Procs : job[h].to = 0
        /\ Begin(g, n, "copy", j)
        /\ UNCHANGED <<tree, layers, seq, log, dropped, live, outrun, dead>>
    BY DEF cloneSeq, nsVars
  <1>3. PICK k \in Namespaces : live = 1..k
    BY <1>1 DEF LiveOK
  <1>4. c = k + 1 /\ c \in Namespaces /\ c \notin live /\ c # 0
        /\ \A m \in Namespaces : m <= c => m \in live \cup {c}
    <2>1. k \in Nat /\ 1 <= k /\ k <= MaxNS /\ MaxNS \in Nat
      BY BoundsAssumption DEF Namespaces
    <2>2. Cardinality(1..k) = k
      BY <2>1, FS_Interval
    <2>3. c = k + 1
      BY <1>3, <2>2
    <2>4. k # MaxNS
      BY <1>2, <1>3 DEF Namespaces
    <2> HIDE DEF c
    <2> QED BY <1>3, <2>1, <2>3, <2>4 DEF Namespaces
  <1> HIDE DEF c
  <1>5. /\ j \in Job /\ j.ns = n /\ j.new = <<>> /\ j.to = c /\ j.copied = {}
    <2>1. n \in 0..MaxNS /\ c \in 0..MaxNS /\ seq[n] \in Nat
      BY <1>1, <1>4 DEF Namespaces, TypeOK
    <2> QED BY <2>1, NoJobType DEF Job, NoJob
  <1> HIDE DEF j
  <1>6. /\ pc[g] = "idle" /\ n \in live /\ ops' \in 0..MaxOps
        /\ DOMAIN pc' = Procs /\ DOMAIN job' = Procs
        /\ pc'[g] = "copy" /\ job'[g] = j
        /\ \A h \in Procs : h # g => pc'[h] = pc[h] /\ job'[h] = job[h]
        /\ raced' \subseteq Namespaces
    BY <1>1, <1>2, BeginIs
  <1>7. TypeOK'
    <2>1. pc' \in [Procs -> Labels]
      BY <1>1, <1>2, PcType DEF Begin, Labels
    <2> QED BY <1>1, <1>2, <1>6, <2>1 DEF TypeOK, Labels
  <1>8. tree[c] = {}
    BY <1>1, <1>2, <1>4 DEF LiveOK
  <1>9. JobOK(g)'
    BY <1>2, <1>4, <1>5, <1>6, <1>8 DEF JobOK, Cloning
  <1>10. ASSUME NEW h \in Procs, h # g PROVE JobOK(h)'
    BY <1>1, <1>2, <1>6, <1>10, JobFrame DEF TypeOK
  <1>11. LiveOK'
    <2>1. \A h \in Procs : job'[h].to = IF h = g THEN c ELSE 0
      BY <1>2, <1>5, <1>6
    <2>2. \A m \in Namespaces \ live : tree[m] = {}
      <3>1. \A m \in Namespaces : m # 0
        BY DEF Namespaces
      <3> QED BY <1>1, <1>2, <3>1 DEF LiveOK
    <2> QED BY <1>1, <1>2, <2>1, <2>2 DEF LiveOK
  <1> QED BY <1>7, <1>9, <1>10, <1>11 DEF TypeInv

\* addLayers puts the new layers at a node.
LEMMA AddLayersType ==
    ASSUME TypeInv, NEW g \in Procs, addLayers(g)
    PROVE  LET n == job[g].ns
               p == job[g].dst
           IN  /\ TypeInv' /\ n \in live /\ n \in Namespaces /\ p \in Nodes
               /\ job[g].new \in Seq(Layer) /\ job[g].new # <<>> /\ job[g].disp \in Dispositions
               /\ \A i \in DOMAIN job[g].new : job[g].new[i].ro = job[g].ro
               /\ \A m \in Namespaces, q \in Nodes :
                     layers'[m][q] = IF m = n /\ q = p
                                     THEN spliced(layers[m][q], job[g].new, job[g].disp)
                                     ELSE layers[m][q]
               /\ pc'[g] = "log" /\ \A h \in Procs : h # g => pc'[h] = pc[h]
  <1> DEFINE n == job[g].ns
             p == job[g].dst
             ls == spliced(layers[n][p], job[g].new, job[g].disp)
  <1>1. TypeOK /\ LiveOK /\ JobOK(g) /\ \A h \in Procs : JobOK(h)
    BY DEF TypeInv
  <1>2. /\ pc[g] = "add"
        /\ layers' = [layers EXCEPT ![n][p] = ls]
        /\ pc' = [pc EXCEPT ![g] = "log"]
        /\ UNCHANGED <<tree, seq, log, dropped, live, outrun, dead, job, ops, raced>>
    BY DEF addLayers
  <1>3. /\ n \in live /\ p \in tree[n] /\ job[g].new # <<>> /\ job[g].new \in Seq(Layer)
        /\ job[g].disp \in Dispositions /\ \A i \in DOMAIN job[g].new : job[g].new[i].ro = job[g].ro
    BY <1>1, <1>2 DEF JobOK, Job
  <1>4. n \in Namespaces /\ p \in Nodes
    BY <1>1, <1>3 DEF TypeOK
  <1>5. layers \in [Namespaces -> [Nodes -> Seq(Layer)]]
    BY <1>1 DEF TypeOK
  <1> HIDE DEF n, p
  <1>6. layers[n][p] \in Seq(Layer)
    BY <1>4, <1>5
  <1>7. ls \in Seq(Layer)
    BY <1>3, <1>6, SplicedType
  <1>8. /\ layers' \in [Namespaces -> [Nodes -> Seq(Layer)]]
        /\ \A m \in Namespaces, q \in Nodes :
              layers'[m][q] = IF m = n /\ q = p THEN ls ELSE layers[m][q]
    <2> HIDE DEF ls
    <2> QED BY <1>2, <1>4, <1>5, <1>7, Update2
  <1>9. TypeOK'
    <2>1. pc' \in [Procs -> Labels]
      BY <1>1, <1>2, PcType DEF Labels
    <2>2. \A m \in Namespaces, q \in Nodes : layers'[m][q] # <<>> => q \in tree'[m]
      <3> HIDE DEF ls
      <3> QED BY <1>1, <1>2, <1>3, <1>8 DEF TypeOK
    <2> HIDE DEF ls
    <2> QED BY <1>1, <1>2, <1>8, <2>1, <2>2 DEF TypeOK, Labels
  <1>10. pc'[g] = "log" /\ \A h \in Procs : h # g => pc'[h] = pc[h]
    BY <1>1, <1>2 DEF TypeOK
  <1> HIDE DEF ls
  <1>11. JobOK(g)'
    BY <1>1, <1>2, <1>10 DEF JobOK, Cloning
  <1>12. ASSUME NEW h \in Procs, h # g PROVE JobOK(h)'
    BY <1>1, <1>2, <1>10, <1>12, JobFrame DEF TypeOK
  <1>13. LiveOK'
    BY <1>1, <1>2 DEF LiveOK
  <1>14. TypeInv'
    BY <1>9, <1>11, <1>12, <1>13 DEF TypeInv
  <1>15. \A m \in Namespaces, q \in Nodes :
            layers'[m][q] = IF m = n /\ q = p
                            THEN spliced(layers[m][q], job[g].new, job[g].disp)
                            ELSE layers[m][q]
    BY <1>8, Zenon DEF ls
  <1> QED BY <1>3, <1>4, <1>10, <1>14, <1>15, Zenon DEF n, p

\* What a goroutine writes to the log is an entry.
LEMMA LogEntryType ==
    ASSUME TypeInv, NEW g \in Procs, pc[g] = "log"
    PROVE  logEntry(g) \in Entry
  <1> DEFINE n == job[g].ns
             new == job[g].new
             R == [fs : FSs \cup {NoFS}, path : Path]
             src == [i \in DOMAIN new |-> [fs |-> new[i].fs, path |-> new[i].src]]
             s == dropped[n] + Len(log[n]) + 1
  <1>1. /\ new \in Seq(Layer) /\ n \in live /\ job[g].dst \in Nodes /\ job[g].ro \in BOOLEAN
        /\ IF new = <<>> THEN job[g].disp = "" /\ ~job[g].ro ELSE job[g].disp \in Dispositions
    BY DEF TypeInv, JobOK, Job
  <1>2. logEntry(g) = [seq |-> s, op |-> IF new = <<>> THEN "unbind" ELSE "bind",
                       dst |-> job[g].dst, disp |-> job[g].disp, ro |-> job[g].ro, src |-> src]
    BY Zenon DEF logEntry
  <1> HIDE DEF new
  <1>3. new \in Seq(Layer)
    BY <1>1, Zenon
  <1>4. job[g].dst \in Nodes /\ job[g].ro \in BOOLEAN
    BY <1>1, Zenon
  <1>5. s \in Nat
    <2>1. n \in Namespaces /\ log[n] \in Seq(Entry) /\ dropped[n] \in Nat
      BY <1>1 DEF TypeInv, TypeOK
    <2> HIDE DEF n
    <2>2. Len(log[n]) \in Nat
      BY <2>1
    <2> QED BY <2>1, <2>2
  <1>6. ASSUME NEW i \in DOMAIN new
        PROVE  [fs |-> new[i].fs, path |-> new[i].src] \in R
    <2>1. new[i] \in Layer
      BY <1>3
    <2> QED BY <2>1 DEF Layer
  <1>7. src \in Seq(R)
    <2>1. DOMAIN new = 1..Len(new) /\ Len(new) \in Nat
      BY <1>3
    <2> HIDE DEF R
    <2> QED BY <1>6, <2>1
  <1>8. CASE new = <<>>
    <2>1. src = <<>>
      BY <1>8
    <2>2. job[g].disp = "" /\ job[g].ro = FALSE
      <3>1. job[g].disp = "" /\ ~job[g].ro
        BY <1>1, <1>8, Zenon
      <3> QED BY <1>4, <3>1
    <2>3. logEntry(g) = [seq |-> s, op |-> "unbind", dst |-> job[g].dst, disp |-> "",
                         ro |-> FALSE, src |-> <<>>]
      <3> HIDE DEF s, src
      <3> QED BY <1>2, <1>8, <2>1, <2>2
    <2> HIDE DEF s
    <2>4. [seq |-> s, op |-> "unbind", dst |-> job[g].dst, disp |-> "", ro |-> FALSE, src |-> <<>>]
             \in [seq : Nat, op : {"unbind"}, dst : Nodes, disp : {""}, ro : {FALSE}, src : {<<>>}]
      BY <1>4, <1>5
    <2> QED BY <2>3, <2>4, Zenon DEF Entry
  <1>9. CASE new # <<>>
    <2>1. job[g].disp \in Dispositions
      BY <1>1, <1>9, Zenon
    <2> HIDE DEF s, src
    <2> QED BY <1>4, <2>1, <1>5, <1>7, <1>2, <1>9 DEF Entry
  <1> QED BY <1>8, <1>9

\* record writes one entry to the log of the namespace and ends the call.
LEMMA RecordType ==
    ASSUME TypeInv, NEW g \in Procs, record(g)
    PROVE  LET n == job[g].ns
               full == Len(log[n]) = MaxLog
           IN  /\ TypeInv' /\ pc[g] = "log" /\ n \in live /\ n \in Namespaces
               /\ log'[n] = Append(IF full THEN Tail(log[n]) ELSE log[n], logEntry(g))
               /\ dropped'[n] = IF full THEN dropped[n] + 1 ELSE dropped[n]
               /\ \A m \in Namespaces : m # n => log'[m] = log[m] /\ dropped'[m] = dropped[m]
               /\ UNCHANGED <<tree, layers, seq, live, raced, outrun>>
               /\ pc'[g] = "idle" /\ job'[g] = NoJob
               /\ \A h \in Procs : h # g => pc'[h] = pc[h] /\ job'[h] = job[h]
  <1> DEFINE n == job[g].ns
             full == Len(log[n]) = MaxLog
             lg == Append(IF full THEN Tail(log[n]) ELSE log[n], logEntry(g))
             dr == IF full THEN dropped[n] + 1 ELSE dropped[n]
  <1>1. TypeOK /\ LiveOK /\ JobOK(g) /\ \A h \in Procs : JobOK(h)
    BY DEF TypeInv
  <1>2. /\ pc[g] = "log"
        /\ log' = [log EXCEPT ![n] = lg]
        /\ dropped' = [dropped EXCEPT ![n] = dr]
        /\ End(g)
        /\ UNCHANGED <<tree, layers, seq, live, outrun, dead, ops, raced>>
    BY DEF record
  <1>3. n \in live /\ n \in Namespaces
    BY <1>1, <1>2 DEF JobOK, TypeOK
  <1>4. log \in [Namespaces -> Seq(Entry)] /\ dropped \in [Namespaces -> Nat]
    BY <1>1 DEF TypeOK
  <1>5. logEntry(g) \in Entry
    BY <1>2, LogEntryType
  <1> HIDE DEF n
  <1>6. lg \in Seq(Entry) /\ dr \in Nat
    <2>1. log[n] \in Seq(Entry) /\ dropped[n] \in Nat
      BY <1>3, <1>4
    <2>2. full => log[n] # <<>>
      BY <2>1, BoundsAssumption
    <2>3. full => Tail(log[n]) \in Seq(Entry)
      <3> HIDE DEF full
      <3> QED BY <2>1, <2>2
    <2> HIDE DEF full
    <2> QED BY <1>5, <2>1, <2>3
  <1> HIDE DEF lg, dr
  <1>7. /\ log' \in [Namespaces -> Seq(Entry)] /\ dropped' \in [Namespaces -> Nat]
        /\ log'[n] = lg /\ dropped'[n] = dr
        /\ \A m \in Namespaces : m # n => log'[m] = log[m] /\ dropped'[m] = dropped[m]
    BY <1>2, <1>3, <1>4, <1>6
  <1>8. /\ DOMAIN pc' = Procs /\ DOMAIN job' = Procs
        /\ pc'[g] = "idle" /\ job'[g] = NoJob
        /\ \A h \in Procs : h # g => pc'[h] = pc[h] /\ job'[h] = job[h]
    BY <1>1, <1>2, EndIs
  <1>9. TypeOK'
    <2>1. pc' \in [Procs -> Labels]
      BY <1>1, <1>2, PcType DEF Labels, End
    <2> QED BY <1>1, <1>2, <1>7, <1>8, <2>1 DEF TypeOK, Labels
  <1>10. JobOK(g)'
    BY <1>8, NoJobType DEF JobOK, Cloning
  <1>11. ASSUME NEW h \in Procs, h # g PROVE JobOK(h)'
    BY <1>1, <1>2, <1>8, <1>11, JobFrame DEF TypeOK
  <1>12. LiveOK'
    <2>1. job[g].to = 0 /\ NoJob.to = 0
      BY <1>1, <1>2 DEF JobOK, NoJob
    <2>2. \A h \in Procs : job'[h].to = job[h].to
      BY <1>8, <2>1
    <2> QED BY <1>1, <1>2, <2>2 DEF LiveOK
  <1>13. TypeInv'
    BY <1>9, <1>10, <1>11, <1>12 DEF TypeInv
  <1> QED BY <1>2, <1>3, <1>7, <1>8, <1>13, Zenon DEF n, lg, dr

\* cloneNode copies one node, below one that has been copied.
LEMMA CloneNodeType ==
    ASSUME TypeInv, NEW g \in Procs, NEW p \in Nodes, cloneNode(g, p)
    PROVE  LET n == job[g].ns
               c == job[g].to
           IN  /\ TypeInv' /\ Cloning(g) /\ p \in tree[n]
               /\ \A m \in Namespaces, q \in Nodes :
                     layers'[m][q] = IF m = c /\ q = p THEN layers[n][p] ELSE layers[m][q]
               /\ \A m \in Namespaces : m # c => tree'[m] = tree[m]
               /\ job'[g] = [job[g] EXCEPT !.copied = @ \cup {p}]
               /\ job'[g].ns = n /\ job'[g].to = c /\ job'[g].copied = job[g].copied \cup {p}
               /\ job'[g].seq = job[g].seq /\ job'[g].new = <<>>
               /\ pc'[g] = IF tree[n] = job[g].copied \cup {p} THEN "fix" ELSE "copy"
               /\ \A h \in Procs : h # g => pc'[h] = pc[h] /\ job'[h] = job[h]
               /\ UNCHANGED <<seq, log, dropped, live, raced, outrun>>
  <1> DEFINE n == job[g].ns
             c == job[g].to
             j == [job[g] EXCEPT !.copied = @ \cup {p}]
  <1>1. TypeOK /\ LiveOK /\ JobOK(g) /\ \A h \in Procs : JobOK(h)
    BY DEF TypeInv
  <1>2. /\ pc[g] = "copy"
        /\ p \in tree[n] \ job[g].copied
        /\ p # <<>> => Front(p) \in job[g].copied
        /\ tree' = [tree EXCEPT ![c] = @ \cup {p}]
        /\ layers' = [layers EXCEPT ![c][p] = layers[n][p]]
        /\ job' = [job EXCEPT ![g].copied = @ \cup {p}]
        /\ pc' = IF tree[n] = job[g].copied \cup {p} THEN [pc EXCEPT ![g] = "fix"] ELSE pc
        /\ UNCHANGED <<seq, log, dropped, live, outrun, dead, ops, raced>>
    BY DEF cloneNode
  <1>3. Cloning(g)
    BY <1>2 DEF Cloning
  <1>4. /\ n \in live /\ n \in Namespaces /\ c \in Namespaces /\ c \notin live /\ c # n
        /\ \A h \in Procs : h # g => ~Cloning(h) /\ job[h].to = 0
    BY <1>3, CloneApart
  <1>5. /\ job[g] \in Job /\ job[g].new = <<>> /\ tree[c] = job[g].copied
        /\ job[g].copied \subseteq tree[n]
        /\ \A q \in job[g].copied : Prefixes(q) \subseteq job[g].copied
        /\ \A m \in Namespaces : m <= c => m \in live \cup {c}
    BY <1>1, <1>3 DEF JobOK
  <1>6. /\ DOMAIN job' = Procs /\ job'[g] = j
        /\ \A h \in Procs : h # g => pc'[h] = pc[h] /\ job'[h] = job[h]
        /\ pc'[g] = IF tree[n] = job[g].copied \cup {p} THEN "fix" ELSE "copy"
    BY <1>1, <1>2 DEF TypeOK
  <1>7. /\ j \in Job /\ j.ns = n /\ j.to = c /\ j.copied = job[g].copied \cup {p}
        /\ j.seq = job[g].seq /\ j.new = <<>>
    BY <1>5 DEF Job
  <1> HIDE DEF n, c, j
  <1>8. layers \in [Namespaces -> [Nodes -> Seq(Layer)]] /\ layers[n][p] \in Seq(Layer)
    BY <1>1, <1>4 DEF TypeOK
  <1>9. /\ layers' \in [Namespaces -> [Nodes -> Seq(Layer)]]
        /\ \A m \in Namespaces, q \in Nodes :
              layers'[m][q] = IF m = c /\ q = p THEN layers[n][p] ELSE layers[m][q]
    <2> DEFINE x == layers[n][p]
    <2>1. layers' = [layers EXCEPT ![c][p] = x] /\ x \in Seq(Layer)
      BY <1>2, <1>8, Zenon
    <2> HIDE DEF x
    <2>2. /\ layers' \in [Namespaces -> [Nodes -> Seq(Layer)]]
          /\ \A m \in Namespaces, q \in Nodes :
                layers'[m][q] = IF m = c /\ q = p THEN x ELSE layers[m][q]
      BY <1>4, <1>8, <2>1, Update2
    <2> QED BY <2>2, Zenon DEF x
  <1>10. /\ tree' \in [Namespaces -> SUBSET Nodes] /\ tree'[c] = tree[c] \cup {p}
         /\ \A m \in Namespaces : m # c => tree'[m] = tree[m]
         /\ \A m \in Namespaces : tree[m] \subseteq tree'[m]
    BY <1>1, <1>2, <1>4 DEF TypeOK
  <1>11. Cloning(g)'
    BY <1>6 DEF Cloning
  <1>12. TypeOK'
    <2>1. pc' \in [Procs -> Labels]
      BY <1>1, <1>2, PcType DEF Labels, TypeOK
    <2>2. \A m \in Namespaces : \A q \in tree'[m] : Prefixes(q) \subseteq tree'[m] \/ m \notin live'
      BY <1>1, <1>2, <1>4, <1>10 DEF TypeOK
    <2>3. \A m \in Namespaces, q \in Nodes : layers'[m][q] # <<>> => q \in tree'[m]
      BY <1>1, <1>9, <1>10, ZenonT(60) DEF TypeOK
    <2> QED BY <1>1, <1>2, <1>6, <1>9, <1>10, <2>1, <2>2, <2>3 DEF TypeOK, Labels
  <1>13. JobOK(g)'
    <2>1. \A q \in job[g].copied \cup {p} : Prefixes(q) \subseteq job[g].copied \cup {p}
      <3>1. p \in Path
        BY NodesAssumption
      <3>2. Prefixes(p) \subseteq job[g].copied \cup {p}
        BY <1>2, <1>5, <3>1, PrefixesFront
      <3> QED BY <1>5, <3>2
    <2>2. tree'[c] = j.copied /\ j.copied \subseteq tree'[n] /\ p \in tree[n]
      BY <1>2, <1>4, <1>5, <1>7, <1>10
    <2> QED BY <1>2, <1>4, <1>5, <1>6, <1>7, <1>11, <2>1, <2>2 DEF JobOK, Cloning
  <1>14. ASSUME NEW h \in Procs, h # g PROVE JobOK(h)'
    BY <1>1, <1>2, <1>4, <1>6, <1>10, <1>14, JobFrame DEF TypeOK
  <1>15. LiveOK'
    <2>1. \A h \in Procs : job'[h].to = job[h].to
      BY <1>6, <1>7 DEF c
    <2>2. \A m \in Namespaces \ live' : (\A h \in Procs : job'[h].to # m) => tree'[m] = {}
      <3> SUFFICES ASSUME NEW m \in Namespaces \ live, \A h \in Procs : job[h].to # m
                   PROVE  tree'[m] = {}
        BY <1>2, <2>1
      <3>1. m # c
        BY DEF c
      <3> QED BY <1>1, <1>10, <3>1 DEF LiveOK
    <2> QED BY <1>1, <1>2, <2>1, <2>2 DEF LiveOK
  <1>16. TypeInv'
    BY <1>12, <1>13, <1>14, <1>15 DEF TypeInv
  <1> QED BY <1>2, <1>3, <1>6, <1>7, <1>9, <1>10, <1>16, Zenon DEF n, c, j

\* remapFile gives a File, and changes no error into one.
LEMMA RemapType ==
    ASSUME TypeOK, NEW f \in Walked, NEW n \in Namespaces, NEW c \in Namespaces
    PROVE  remapFile(f, n, c) \in Walked /\ remapFile(f, n, c).ro = f.ro
  <1>1. CASE f \in NodeFiles
    BY <1>1 DEF remapFile, NodeFiles, File, Walked
  <1>2. CASE f \in FSFiles
    <2>1. f.fs # NoFS
      BY <1>2, FileKinds
    <2> QED BY <2>1 DEF remapFile
  <1>3. CASE f = NoFile
    <2>1. f.ns # n
      BY <1>3 DEF NoFile, NodeFile, Namespaces
    <2> QED BY <2>1 DEF remapFile
  <1> QED BY <1>1, <1>2, <1>3 DEF Walked, File

\* cloneFinish fixes the layers of the clone and lets it out.
LEMMA CloneFinishType ==
    ASSUME TypeInv, NEW g \in Procs, cloneFinish(g)
    PROVE  LET n == job[g].ns
               c == job[g].to
           IN  /\ TypeInv' /\ Cloning(g) /\ pc[g] = "fix" /\ live' = live \cup {c}
               /\ \A m \in Namespaces, q \in Nodes : m # c => layers'[m][q] = layers[m][q]
               /\ \A q \in Nodes :
                     /\ DOMAIN layers'[c][q] = DOMAIN layers[c][q]
                     /\ \A i \in DOMAIN layers[c][q] :
                           /\ layers'[c][q][i].seq = layers[c][q][i].seq
                           /\ layers'[c][q][i].fs = layers[c][q][i].fs
                           /\ layers'[c][q][i].src = layers[c][q][i].src
                           /\ layers'[c][q][i].ro = layers[c][q][i].ro
               /\ \A m \in Namespaces : m # c =>
                     log'[m] = log[m] /\ dropped'[m] = dropped[m] /\ seq'[m] = seq[m]
               /\ log'[c] = log[n] /\ dropped'[c] = dropped[n] /\ seq'[c] = job[g].seq
               /\ raced' = (IF n \in raced THEN raced \cup {c} ELSE raced)
               /\ outrun' = (IF n \in outrun \/ seq[n] # job[g].seq THEN outrun \cup {c} ELSE outrun)
               /\ pc'[g] = "idle" /\ job'[g] = NoJob /\ tree' = tree
               /\ \A h \in Procs : h # g => pc'[h] = pc[h] /\ job'[h] = job[h]
  <1> DEFINE n == job[g].ns
             c == job[g].to
             cl(l) == [l EXCEPT !.resolved = remapFile(@, n, c)]
             cls == [p \in Nodes |-> [i \in DOMAIN layers[c][p] |-> cl(layers[c][p][i])]]
  <1>1. TypeOK /\ LiveOK /\ JobOK(g) /\ \A h \in Procs : JobOK(h)
    BY DEF TypeInv
  <1>2. /\ pc[g] = "fix"
        /\ layers' = [layers EXCEPT ![c] = cls]
        /\ log' = [log EXCEPT ![c] = log[n]]
        /\ dropped' = [dropped EXCEPT ![c] = dropped[n]]
        /\ seq' = [seq EXCEPT ![c] = job[g].seq]
        /\ live' = live \cup {c}
        /\ raced' = (IF n \in raced THEN raced \cup {c} ELSE raced)
        /\ outrun' = (IF n \in outrun \/ seq[n] # job[g].seq THEN outrun \cup {c} ELSE outrun)
        /\ End(g)
        /\ UNCHANGED <<tree, dead, ops>>
    BY DEF cloneFinish
  <1>3. Cloning(g)
    BY <1>2 DEF Cloning
  <1>4. /\ n \in live /\ n \in Namespaces /\ c \in Namespaces /\ c \notin live /\ c # n
        /\ \A h \in Procs : h # g => ~Cloning(h) /\ job[h].to = 0
    BY <1>3, CloneApart
  <1>5. /\ job[g].seq \in Nat /\ tree[c] = job[g].copied
        /\ \A q \in job[g].copied : Prefixes(q) \subseteq job[g].copied
        /\ \A m \in Namespaces : m <= c => m \in live \cup {c}
    BY <1>1, <1>3 DEF JobOK, Job
  <1>6. /\ DOMAIN pc' = Procs /\ DOMAIN job' = Procs
        /\ pc'[g] = "idle" /\ job'[g] = NoJob
        /\ \A h \in Procs : h # g => pc'[h] = pc[h] /\ job'[h] = job[h]
    BY <1>1, <1>2, EndIs
  <1>7. layers \in [Namespaces -> [Nodes -> Seq(Layer)]]
    BY <1>1 DEF TypeOK
  <1> HIDE DEF n, c
  <1>8. ASSUME NEW l \in Layer
        PROVE  cl(l) \in Layer /\ cl(l).seq = l.seq /\ cl(l).fs = l.fs /\ cl(l).src = l.src /\ cl(l).ro = l.ro
    <2>1. l.resolved \in Walked /\ l \in LayerFields /\ (l.fs = NoFS /\ l.ro => l.resolved.ro)
      BY DEF Layer, LayerFields, Walked
    <2>2. /\ remapFile(l.resolved, n, c) \in Walked
          /\ remapFile(l.resolved, n, c).ro = l.resolved.ro
      BY <1>1, <1>4, <2>1, RemapType
    <2>3. /\ cl(l) \in LayerFields /\ cl(l).resolved = remapFile(l.resolved, n, c)
          /\ cl(l).seq = l.seq /\ cl(l).fs = l.fs /\ cl(l).src = l.src /\ cl(l).ro = l.ro
      BY <2>1, <2>2 DEF LayerFields
    <2> HIDE DEF cl
    <2> QED BY <2>1, <2>2, <2>3, LayerIs
  <1> HIDE DEF cl
  <1>9. ASSUME NEW q \in Nodes
        PROVE  /\ cls[q] \in Seq(Layer) /\ DOMAIN cls[q] = DOMAIN layers[c][q]
               /\ cls[q] # <<>> => layers[c][q] # <<>>
               /\ \A i \in DOMAIN layers[c][q] :
                     cls[q][i] = cl(layers[c][q][i]) /\ layers[c][q][i] \in Layer
    <2> DEFINE t == layers[c][q]
    <2>1. t \in Seq(Layer)
      BY <1>4, <1>7
    <2>2. cls[q] = [i \in DOMAIN t |-> cl(t[i])]
      BY Zenon
    <2> HIDE DEF t, cls
    <2>3. DOMAIN t = 1..Len(t) /\ Len(t) \in Nat /\ \A i \in DOMAIN t : t[i] \in Layer
      BY <2>1
    <2>4. \A i \in DOMAIN t : cl(t[i]) \in Layer
      BY <1>8, <2>3
    <2>5. cls[q] \in [1..Len(t) -> Layer] /\ cls[q] \in Seq(Layer)
      BY <2>2, <2>3, <2>4
    <2>6. cls[q] # <<>> => t # <<>>
      BY <2>1, <2>2
    <2> QED BY <2>2, <2>3, <2>5, <2>6 DEF t
  <1>10. /\ layers' \in [Namespaces -> [Nodes -> Seq(Layer)]] /\ layers'[c] = cls
         /\ \A m \in Namespaces : m # c => layers'[m] = layers[m]
    <2>1. cls \in [Nodes -> Seq(Layer)]
      BY <1>9
    <2> HIDE DEF cls
    <2> QED BY <1>2, <1>4, <1>7, <2>1
  <1> HIDE DEF cls
  <1>11. /\ log' \in [Namespaces -> Seq(Entry)] /\ dropped' \in [Namespaces -> Nat]
         /\ seq' \in [Namespaces -> Nat]
         /\ log'[c] = log[n] /\ dropped'[c] = dropped[n] /\ seq'[c] = job[g].seq
         /\ \A m \in Namespaces : m # c =>
               log'[m] = log[m] /\ dropped'[m] = dropped[m] /\ seq'[m] = seq[m]
    BY <1>1, <1>2, <1>4, <1>5 DEF TypeOK
  <1>12. TypeOK'
    <2>1. pc' \in [Procs -> Labels]
      BY <1>1, <1>2, PcType DEF Labels, End
    <2>2. \A m \in Namespaces : \A q \in tree'[m] : Prefixes(q) \subseteq tree'[m] \/ m \notin live'
      BY <1>1, <1>2, <1>5 DEF TypeOK
    <2>3. \A m \in Namespaces, q \in Nodes : layers'[m][q] # <<>> => q \in tree'[m]
      BY <1>1, <1>2, <1>4, <1>9, <1>10 DEF TypeOK
    <2>4. live' \subseteq Namespaces /\ raced' \subseteq Namespaces /\ outrun' \subseteq live'
      BY <1>1, <1>2, <1>4 DEF TypeOK
    <2> QED BY <1>1, <1>2, <1>6, <1>10, <1>11, <2>1, <2>2, <2>3, <2>4 DEF TypeOK, Labels
  <1>13. JobOK(g)'
    BY <1>6, NoJobType DEF JobOK, Cloning
  <1>14. ASSUME NEW h \in Procs, h # g PROVE JobOK(h)'
    BY <1>1, <1>2, <1>4, <1>6, <1>14, JobFrame DEF TypeOK
  <1>15. LiveOK'
    <2>1. \E k \in Namespaces : live' = 1..k
      <3>1. PICK k \in Namespaces : live = 1..k
        BY <1>1 DEF LiveOK
      <3>2. k \in Nat /\ c \in Nat /\ k < c
        BY <1>4, <3>1 DEF Namespaces
      <3>3. k + 1 \in Namespaces /\ k + 1 <= c
        BY <1>4, <3>1, <3>2, BoundsAssumption DEF Namespaces
      <3>4. k + 1 = c
        BY <1>5, <3>1, <3>2, <3>3
      <3>5. live' = 1..c
        BY <1>2, <3>1, <3>2, <3>4
      <3> QED BY <1>4, <3>5
    <2>2. \A h \in Procs : job'[h].to = 0
      <3>1. NoJob.to = 0
        BY DEF NoJob
      <3> QED BY <1>4, <1>6, <3>1
    <2>3. ASSUME NEW m \in Namespaces, m \notin live' PROVE tree'[m] = {}
      <3>1. m # c /\ m \notin live /\ m # 0
        BY <1>2, <2>3 DEF Namespaces
      <3>2. \A h \in Procs : job[h].to # m
        BY <1>4, <3>1 DEF c
      <3> QED BY <1>1, <1>2, <3>1, <3>2 DEF LiveOK
    <2> QED BY <2>1, <2>2, <2>3 DEF LiveOK
  <1>16. TypeInv'
    BY <1>12, <1>13, <1>14, <1>15 DEF TypeInv
  <1>17. ASSUME NEW q \in Nodes
         PROVE  /\ DOMAIN layers'[c][q] = DOMAIN layers[c][q]
                /\ \A i \in DOMAIN layers[c][q] :
                      /\ layers'[c][q][i].seq = layers[c][q][i].seq
                      /\ layers'[c][q][i].fs = layers[c][q][i].fs
                      /\ layers'[c][q][i].src = layers[c][q][i].src
                      /\ layers'[c][q][i].ro = layers[c][q][i].ro
    <2>1. layers'[c][q] = cls[q] /\ DOMAIN cls[q] = DOMAIN layers[c][q]
      BY <1>9, <1>10
    <2>2. ASSUME NEW i \in DOMAIN layers[c][q]
          PROVE  /\ cls[q][i].seq = layers[c][q][i].seq /\ cls[q][i].fs = layers[c][q][i].fs
                 /\ cls[q][i].src = layers[c][q][i].src /\ cls[q][i].ro = layers[c][q][i].ro
      <3>1. cls[q][i] = cl(layers[c][q][i]) /\ layers[c][q][i] \in Layer
        BY <1>9
      <3> QED BY <1>8, <3>1
    <2> QED BY <2>1, <2>2
  <1>18. \A m \in Namespaces, q \in Nodes : m # c => layers'[m][q] = layers[m][q]
    BY <1>10, Zenon
  <1> QED BY <1>2, <1>3, <1>6, <1>11, <1>16, <1>17, <1>18, Zenon DEF n, c

-----------------------------------------------------------------------------
(***************************************************************************)
(* Who is alone on a namespace, and what of it then stays as it is.        *)
(***************************************************************************)

\* Goroutine h is in a call on namespace n.
On(h, n) == pc[h] # "idle" /\ job[h].ns = n

\* Unless calls overlap, the goroutine that begins one is alone on the namespace.
LEMMA BeginAlone ==
    ASSUME TypeInv, AloneOK, NEW g \in Procs, NEW n, NEW label, NEW j,
           Begin(g, n, label, j), j.ns = n, live' = live
    PROVE  /\ AloneOK'
           /\ n \notin raced' => n \notin raced /\ \A h \in Procs : ~On(h, n)
           /\ raced \subseteq raced'
  <1>1. TypeOK
    BY DEF TypeInv
  <1>2. /\ pc[g] = "idle" /\ pc'[g] = label /\ job'[g] = j /\ raced \subseteq raced'
        /\ \A h \in Procs : h # g => pc'[h] = pc[h] /\ job'[h] = job[h]
    BY <1>1, BeginIs
  <1>3. n \notin raced' => n \notin raced /\ \A h \in Procs : ~On(h, n)
    BY DEF Begin, Busy, On
  <1>4. ASSUME NEW m \in live \ raced', NEW h1 \in Procs, NEW h2 \in Procs,
               On(h1, m)', On(h2, m)'
        PROVE  h1 = h2
    <2>1. CASE m = n
      <3>1. \A h \in Procs : h # g => ~On(h, m)'
        BY <1>2, <1>3, <1>4, <2>1 DEF On
      <3> QED BY <1>4, <3>1
    <2>2. CASE m # n
      <3>1. h1 # g /\ h2 # g
        BY <1>2, <1>4, <2>2 DEF On
      <3>2. On(h1, m) /\ On(h2, m)
        BY <1>2, <1>4, <3>1 DEF On
      <3>3. m \in live \ raced
        BY <1>2, <1>4
      <3> QED BY <3>2, <3>3 DEF AloneOK, On
    <2> QED BY <2>1, <2>2
  <1>5. AloneOK'
    BY <1>4 DEF AloneOK, On
  <1> QED BY <1>2, <1>3, <1>5

\* One that goes on with a call, or ends it, leaves the others as they are.
LEMMA GoOnAlone ==
    ASSUME TypeInv, AloneOK, raced \subseteq raced',
           \A h \in Procs : pc'[h] # "idle" => pc[h] # "idle" /\ job'[h].ns = job[h].ns
    PROVE  AloneOK'
  <1> SUFFICES ASSUME NEW m \in live' \ raced', NEW h1 \in Procs, NEW h2 \in Procs,
                      On(h1, m)', On(h2, m)'
               PROVE  h1 = h2
    BY DEF AloneOK, On
  <1>1. On(h1, m) /\ On(h2, m)
    BY DEF On
  <1>2. JobOK(h1)
    BY DEF TypeInv
  <1>3. m \in live \ raced
    BY <1>1, <1>2 DEF JobOK, On
  <1> QED BY <1>1, <1>3 DEF AloneOK, On

\* What the log has to tell of namespace m, when nothing about it changes.
LEMMA ToldFrame ==
    ASSUME NEW m \in Namespaces, ToldFor(m),
           layers \in [Namespaces -> [Nodes -> Seq(Layer)]],
           \A q \in Nodes : layers'[m][q] = layers[m][q],
           log'[m] = log[m], dropped'[m] = dropped[m],
           \A h \in Procs : (pc'[h] = "log" /\ job'[h].ns = m) <=> (pc[h] = "log" /\ job[h].ns = m),
           \A h \in Procs : pc[h] = "log" /\ job[h].ns = m => job'[h] = job[h]
    PROVE  ToldFor(m)'
  <1>1. Shown(m)' = Shown(m)
    BY Zenon DEF Shown
  <1>2. ASSUME NEW h \in Procs, pc[h] = "log", job[h].ns = m PROVE logEntry(h)' = logEntry(h)
    <2>1. job'[h] = job[h]
      BY <1>2, Zenon
    <2> QED BY <1>2, <2>1, Zenon DEF logEntry
  <1>3. SUFFICES ASSUME dropped[m] = 0
                 PROVE  /\ \A h \in Procs : pc'[h] = "log" /\ job'[h].ns = m =>
                              Shown(m) = tell(Replay(log[m]), logEntry(h)')
                        /\ (\A h \in Procs : ~(pc'[h] = "log" /\ job'[h].ns = m)) =>
                              Shown(m) = Replay(log[m])
    BY <1>1, Zenon DEF ToldFor
  <1>4. ASSUME NEW h \in Procs, pc'[h] = "log", job'[h].ns = m
        PROVE  Shown(m) = tell(Replay(log[m]), logEntry(h)')
    <2>1. pc[h] = "log" /\ job[h].ns = m
      BY <1>4, Zenon
    <2> QED BY <1>2, <1>3, <2>1, Zenon DEF ToldFor
  <1>5. ASSUME \A h \in Procs : ~(pc'[h] = "log" /\ job'[h].ns = m)
        PROVE  Shown(m) = Replay(log[m])
    BY <1>3, <1>5, Zenon DEF ToldFor
  <1> QED BY <1>4, <1>5, Zenon

-----------------------------------------------------------------------------
(***************************************************************************)
(* Copies and the log, call by call.                                       *)
(***************************************************************************)

\* A bind draws numbers that no layer has.
LEMMA BindingKeeps ==
    ASSUME Inv, NEW g \in Procs, NEW n \in Namespaces, NEW dst, NEW disp, NEW new, NEW ro,
           Binding(g, n, dst, disp, new, ro)
    PROVE  Inv'
  <1> DEFINE j == bindJob(n, dst, disp, new, ro)
  <1>1. TypeInv' /\ TypeInv /\ TypeOK
    BY BindingType DEF Inv, TypeInv
  <1>2. /\ new \in Seq(Layer)
        /\ \A i \in DOMAIN new : new[i].seq = seq[n] + i
        /\ tree' = [tree EXCEPT ![n] = @ \cup Prefixes(dst)]
        /\ seq' = [seq EXCEPT ![n] = @ + Len(new)]
        /\ Begin(g, n, "add", j)
        /\ UNCHANGED <<layers, log, dropped, live, outrun, dead>>
    BY DEF Binding
  <1>3. j.ns = n /\ j.new = new
    BY DEF bindJob, NoJob
  <1> HIDE DEF j
  <1>4. /\ pc[g] = "idle" /\ n \in live
        /\ pc'[g] = "add" /\ job'[g] = j
        /\ \A h \in Procs : h # g => pc'[h] = pc[h] /\ job'[h] = job[h]
    BY <1>1, <1>2, BeginIs
  <1>5. /\ AloneOK' /\ raced \subseteq raced'
        /\ n \notin raced' => n \notin raced /\ \A h \in Procs : ~On(h, n)
    BY <1>1, <1>2, <1>3, BeginAlone DEF Inv
  <1>6. \A m \in Namespaces : m # n => tree'[m] = tree[m] /\ seq'[m] = seq[m]
    BY <1>1, <1>2 DEF TypeOK
  <1>7. seq[n] \in Nat /\ Len(new) \in Nat /\ seq'[n] = seq[n] + Len(new)
    BY <1>1, <1>2 DEF TypeOK
  <1>9. ASSUME NEW h \in Procs, h # g, pc[h] # "idle", job[h].ns \notin raced'
        PROVE  job[h].ns # n /\ job[h].ns \in Namespaces /\ job[h].ns \in live \ raced
    <2>1. JobOK(h)
      BY <1>1 DEF TypeInv
    <2> QED BY <1>1, <1>5, <1>9, <2>1 DEF On, JobOK, TypeOK
  <1>10. CopyOK'
    <2> SUFFICES ASSUME NEW h \in Procs, Cloning(h)', (job[h].ns \notin raced)'
                 PROVE  LET m == job'[h].ns
                            c == job'[h].to
                        IN  /\ \A p \in job'[h].copied : layers'[c][p] = layers'[m][p]
                            /\ pc'[h] = "fix" => tree'[m] = job'[h].copied
      BY DEF CopyOK
    <2>1. h # g /\ Cloning(h) /\ job'[h] = job[h] /\ pc'[h] = pc[h] /\ pc[h] # "idle"
      BY <1>4 DEF Cloning
    <2>2. job[h].ns # n /\ job[h].ns \in Namespaces /\ job[h].ns \notin raced
      BY <1>9, <2>1
    <2> QED BY <1>2, <1>6, <2>1, <2>2 DEF Inv, CopyOK
  <1>13. ToldOK'
    <2> SUFFICES ASSUME NEW m \in live \ raced' PROVE ToldFor(m)'
      BY <1>2 DEF ToldOK
    <2>1. m \in live \ raced /\ m \in Namespaces /\ ToldFor(m)
      BY <1>1, <1>5 DEF Inv, ToldOK, TypeOK
    <2>2. \A h \in Procs : (pc'[h] = "log" /\ job'[h].ns = m) <=> (pc[h] = "log" /\ job[h].ns = m)
      BY <1>4
    <2>3. \A h \in Procs : pc[h] = "log" /\ job[h].ns = m => job'[h] = job[h]
      BY <1>4
    <2> QED BY <1>1, <1>2, <2>1, <2>2, <2>3, ToldFrame DEF TypeOK
  <1>14. Numbered'
    BY <1>2 DEF Inv, Numbered
  <1> QED BY <1>1, <1>5, <1>10, <1>13, <1>14 DEF Inv

\* What a clone has copied stays good, when nothing about it changes.
LEMMA CopyFrame ==
    ASSUME CopyOK, NEW h \in Procs, Cloning(h), job[h].ns \notin raced,
           job'[h] = job[h], pc'[h] = pc[h], tree'[job[h].ns] = tree[job[h].ns],
           \A q \in Nodes : layers'[job[h].ns][q] = layers[job[h].ns][q],
           job[h].copied \subseteq Nodes,
           \A q \in Nodes : layers'[job[h].to][q] = layers[job[h].to][q]
    PROVE  LET m == job'[h].ns
               c == job'[h].to
           IN  /\ \A p \in job'[h].copied : layers'[c][p] = layers'[m][p]
               /\ pc'[h] = "fix" => tree'[m] = job'[h].copied
  <1>1. /\ \A p \in job[h].copied : layers[job[h].to][p] = layers[job[h].ns][p]
        /\ pc[h] = "fix" => tree[job[h].ns] = job[h].copied
    BY DEF CopyOK
  <1> QED BY <1>1

\* Numbers are used up and nothing else changes.
LEMMA BindPathFailsKeeps ==
    ASSUME Inv, NEW g \in Procs, NEW n \in Namespaces, NEW r \in Requests, BindPathFails(g, n, r)
    PROVE  Inv'
  <1>1. TypeInv' /\ TypeInv /\ TypeOK /\ TypeOK' /\ \A m \in Namespaces : seq[m] <= seq'[m]
    BY BindPathFailsType DEF Inv, TypeInv
  <1>2. UNCHANGED <<tree, layers, log, dropped, live, outrun, dead, pc, job, raced>>
    BY DEF BindPathFails
  <1>3. AloneOK' /\ CopyOK' /\ Numbered'
    BY <1>2 DEF Inv, AloneOK, CopyOK, Numbered, Cloning
  <1>6. ToldOK'
    <2> SUFFICES ASSUME NEW m \in live \ raced PROVE ToldFor(m)'
      BY <1>2 DEF ToldOK
    <2>1. m \in Namespaces /\ ToldFor(m)
      BY <1>1 DEF Inv, ToldOK, TypeOK
    <2> QED BY <1>1, <1>2, <2>1, ToldFrame DEF TypeOK
  <1> QED BY <1>1, <1>3, <1>6 DEF Inv

\* A clone begins with nothing copied and with the counter past every number.
LEMMA CloneSeqKeeps ==
    ASSUME Inv, NEW g \in Procs, NEW n \in Namespaces, cloneSeq(g, n)
    PROVE  Inv'
  <1> DEFINE j == [NoJob EXCEPT !.ns = n, !.to = Cardinality(live) + 1, !.seq = seq[n]]
  <1>1. TypeInv' /\ TypeInv /\ TypeOK /\ TypeOK'
    BY CloneSeqType DEF Inv, TypeInv
  <1>2. /\ Begin(g, n, "copy", j)
        /\ UNCHANGED <<tree, layers, seq, log, dropped, live, outrun, dead>>
    BY DEF cloneSeq, nsVars
  <1>3. j.ns = n /\ j.copied = {} /\ j.seq = seq[n]
    BY DEF NoJob
  <1> HIDE DEF j
  <1>4. /\ pc[g] = "idle" /\ n \in live
        /\ pc'[g] = "copy" /\ job'[g] = j
        /\ \A h \in Procs : h # g => pc'[h] = pc[h] /\ job'[h] = job[h]
    BY <1>1, <1>2, BeginIs
  <1>5. /\ AloneOK' /\ raced \subseteq raced'
        /\ n \notin raced' => n \notin raced
    BY <1>1, <1>2, <1>3, BeginAlone DEF Inv
  <1>6. CopyOK'
    <2> SUFFICES ASSUME NEW h \in Procs, Cloning(h)', job'[h].ns \notin raced'
                 PROVE  LET m == job'[h].ns
                            c == job'[h].to
                        IN  /\ \A p \in job'[h].copied : layers'[c][p] = layers'[m][p]
                            /\ pc'[h] = "fix" => tree'[m] = job'[h].copied
      BY DEF CopyOK
    <2>1. CASE h # g
      <3>1. Cloning(h) /\ job'[h] = job[h] /\ pc'[h] = pc[h] /\ job[h].ns \notin raced
        BY <1>4, <1>5, <2>1 DEF Cloning
      <3> QED BY <1>2, <3>1 DEF Inv, CopyOK
    <2>2. CASE h = g
      <3>1. n \in live \ raced /\ job'[h] = j /\ pc'[h] = "copy"
        BY <1>3, <1>4, <1>5, <2>2
      <3> QED BY <1>2, <1>3, <3>1
    <2> QED BY <2>1, <2>2
  <1>9. ToldOK'
    <2> SUFFICES ASSUME NEW m \in live \ raced' PROVE ToldFor(m)'
      BY <1>2 DEF ToldOK
    <2>1. m \in live \ raced /\ m \in Namespaces /\ ToldFor(m)
      BY <1>1, <1>5 DEF Inv, ToldOK, TypeOK
    <2>2. \A h \in Procs : (pc'[h] = "log" /\ job'[h].ns = m) <=> (pc[h] = "log" /\ job[h].ns = m)
      BY <1>4
    <2>3. \A h \in Procs : pc[h] = "log" /\ job[h].ns = m => job'[h] = job[h]
      BY <1>4
    <2> QED BY <1>1, <1>2, <2>1, <2>2, <2>3, ToldFrame DEF TypeOK
  <1>10. Numbered'
    BY <1>2 DEF Inv, Numbered
  <1> QED BY <1>1, <1>5, <1>6, <1>9, <1>10 DEF Inv

\* Layers as the log would tell them.
shownOf(ls) ==
    [i \in DOMAIN ls |-> [src |-> [fs |-> ls[i].fs, path |-> ls[i].src], ro |-> ls[i].ro]]

\* What is shown of a node is what is shown of its layers.
LEMMA ShownIs ==
    /\ \A n : Shown(n) = [p \in Nodes |-> shownOf(layers[n][p])]
    /\ shownOf(<<>>) = <<>>
  <1>1. \A n : Shown(n) = [p \in Nodes |-> shownOf(layers[n][p])]
    BY Zenon DEF Shown, shownOf
  <1>2. shownOf(<<>>) = <<>>
    BY DEF shownOf
  <1> QED BY <1>1, <1>2

\* Showing layers put together is putting together what is shown.
LEMMA ShownConcat ==
    ASSUME NEW s \in Seq(Layer), NEW t \in Seq(Layer)
    PROVE  shownOf(s \o t) = shownOf(s) \o shownOf(t)
  <1> DEFINE B == {shownOf(s)[i] : i \in DOMAIN s} \cup {shownOf(t)[i] : i \in DOMAIN t}
             u == s \o t
             one(l) == [src |-> [fs |-> l.fs, path |-> l.src], ro |-> l.ro]
  <1>1. /\ u \in Seq(Layer) /\ Len(u) = Len(s) + Len(t) /\ Len(s) \in Nat /\ Len(t) \in Nat
        /\ DOMAIN u = 1..Len(u) /\ DOMAIN s = 1..Len(s) /\ DOMAIN t = 1..Len(t)
        /\ \A i \in 1..Len(u) : u[i] = IF i <= Len(s) THEN s[i] ELSE t[i - Len(s)]
    OBVIOUS
  <1>2. /\ shownOf(u) = [i \in DOMAIN u |-> one(u[i])]
        /\ shownOf(s) = [i \in DOMAIN s |-> one(s[i])]
        /\ shownOf(t) = [i \in DOMAIN t |-> one(t[i])]
    BY Zenon DEF shownOf
  <1> HIDE DEF u, one
  <1>3. shownOf(s) \in Seq(B) /\ Len(shownOf(s)) = Len(s)
    <2>1. shownOf(s) \in [1..Len(s) -> B]
      BY <1>1, <1>2
    <2> HIDE DEF B
    <2> QED BY <1>1, <2>1, SMTT(40)
  <1>4. shownOf(t) \in Seq(B) /\ Len(shownOf(t)) = Len(t)
    <2>1. shownOf(t) \in [1..Len(t) -> B]
      BY <1>1, <1>2
    <2> HIDE DEF B
    <2> QED BY <1>1, <2>1
  <1> DEFINE v == shownOf(s) \o shownOf(t)
  <1>5. /\ v \in Seq(B) /\ Len(v) = Len(s) + Len(t)
        /\ \A i \in 1..Len(v) :
              v[i] = IF i <= Len(s) THEN shownOf(s)[i] ELSE shownOf(t)[i - Len(s)]
    <2> DEFINE x == shownOf(s)
               y == shownOf(t)
    <2> HIDE DEF B, x, y
    <2>1. x \in Seq(B) /\ y \in Seq(B) /\ Len(x) = Len(s) /\ Len(y) = Len(t)
      BY <1>3, <1>4 DEF x, y
    <2>2. /\ x \o y \in Seq(B) /\ Len(x \o y) = Len(s) + Len(t)
          /\ \A i \in 1..Len(x \o y) : (x \o y)[i] = IF i <= Len(s) THEN x[i] ELSE y[i - Len(s)]
      BY <2>1
    <2> QED BY <2>2, Zenon DEF x, y
  <1> HIDE DEF B, v
  <1>6. DOMAIN v = 1..Len(u) /\ DOMAIN shownOf(u) = 1..Len(u)
    BY <1>1, <1>2, <1>5
  <1>7. ASSUME NEW i \in 1..Len(u) PROVE shownOf(u)[i] = v[i]
    <2>1. shownOf(u)[i] = one(u[i])
      BY <1>1, <1>2
    <2>2. CASE i <= Len(s)
      <3>1. i \in DOMAIN s /\ i \in 1..Len(v)
        BY <1>1, <1>5, <2>2
      <3> QED BY <1>1, <1>2, <1>5, <2>1, <2>2, <3>1
    <2>3. CASE ~(i <= Len(s))
      <3>1. i - Len(s) \in DOMAIN t /\ i \in 1..Len(v)
        BY <1>1, <1>5, <2>3
      <3>2. v[i] = shownOf(t)[i - Len(s)] /\ u[i] = t[i - Len(s)]
        BY <1>1, <1>5, <2>3, <3>1
      <3> QED BY <1>2, <2>1, <3>1, <3>2
    <2> QED BY <2>2, <2>3
  <1>8. shownOf(u) = v
    <2>1. shownOf(u) = [i \in 1..Len(u) |-> shownOf(u)[i]]
      BY <1>2, <1>6
    <2>2. v = [i \in 1..Len(u) |-> v[i]]
      BY <1>5, <1>6
    <2> QED BY <1>7, <2>1, <2>2
  <1> QED BY <1>8 DEF u, v

\* So it goes with layers before, after and in the place of others.
LEMMA ShownSpliced ==
    ASSUME NEW old \in Seq(Layer), NEW new \in Seq(Layer), NEW disp \in Dispositions
    PROVE  shownOf(spliced(old, new, disp)) = spliced(shownOf(old), shownOf(new), disp)
  <1>1. CASE disp = "replace"
    BY <1>1 DEF spliced
  <1>2. CASE disp = "before"
    <2>1. spliced(old, new, disp) = new \o old
      BY <1>2 DEF spliced
    <2>2. spliced(shownOf(old), shownOf(new), disp) = shownOf(new) \o shownOf(old)
      BY <1>2 DEF spliced
    <2> QED BY <2>1, <2>2, ShownConcat
  <1>3. CASE disp = "after"
    <2>1. spliced(old, new, disp) = old \o new
      BY <1>3 DEF spliced
    <2>2. spliced(shownOf(old), shownOf(new), disp) = shownOf(old) \o shownOf(new)
      BY <1>3 DEF spliced
    <2> QED BY <2>1, <2>2, ShownConcat
  <1> QED BY <1>1, <1>2, <1>3 DEF Dispositions

\* What the entry of a bind tells of is the layers it binds.
LEMMA ToldLayersAre ==
    ASSUME NEW g \in Procs, job[g].new \in Seq(Layer),
           \A i \in DOMAIN job[g].new : job[g].new[i].ro = job[g].ro
    PROVE  toldLayers(logEntry(g)) = shownOf(job[g].new)
  <1> DEFINE new == job[g].new
             src == [i \in DOMAIN new |-> [fs |-> new[i].fs, path |-> new[i].src]]
             e == logEntry(g)
  <1>1. e.src = src /\ e.ro = job[g].ro
    BY DEF logEntry
  <1> HIDE DEF e
  <1>2. toldLayers(e) = [i \in DOMAIN src |-> [src |-> src[i], ro |-> job[g].ro]]
    BY <1>1, Zenon DEF toldLayers
  <1>3. DOMAIN src = DOMAIN new /\ \A i \in DOMAIN new : src[i] = [fs |-> new[i].fs, path |-> new[i].src]
    BY Zenon
  <1>4. shownOf(new) = [i \in DOMAIN new |-> [src |-> [fs |-> new[i].fs, path |-> new[i].src], ro |-> new[i].ro]]
    BY Zenon DEF shownOf
  <1>5. \A i \in DOMAIN new : new[i].ro = job[g].ro
    OBVIOUS
  <1> HIDE DEF src, new
  <1>6. toldLayers(e) = shownOf(new)
    BY <1>2, <1>3, <1>4, <1>5
  <1> QED BY <1>6 DEF new, e

\* Unbinding leaves the log one entry behind.
LEMMA UnbindKeeps ==
    ASSUME Inv, NEW g \in Procs, NEW n \in Namespaces, NEW r \in Requests, Unbind(g, n, r)
    PROVE  Inv'
  <1> DEFINE j == [NoJob EXCEPT !.ns = n, !.dst = r.dst]
  <1>1. /\ TypeInv' /\ TypeInv /\ TypeOK /\ TypeOK' /\ r.dst \in Nodes
        /\ \A m \in Namespaces, q \in Nodes :
              layers'[m][q] = IF m = n /\ q = r.dst THEN <<>> ELSE layers[m][q]
    BY UnbindType DEF Inv, TypeInv
  <1>2. /\ Begin(g, n, "log", j)
        /\ UNCHANGED <<tree, seq, log, dropped, live, outrun, dead>>
    BY DEF Unbind
  <1>3. j.ns = n /\ j.new = <<>> /\ j.dst = r.dst
    BY DEF NoJob
  <1> HIDE DEF j
  <1>4. /\ pc[g] = "idle" /\ n \in live
        /\ pc'[g] = "log" /\ job'[g] = j
        /\ \A h \in Procs : h # g => pc'[h] = pc[h] /\ job'[h] = job[h]
    BY <1>1, <1>2, BeginIs
  <1>5. /\ AloneOK' /\ raced \subseteq raced'
        /\ n \notin raced' => n \notin raced /\ \A h \in Procs : ~On(h, n)
    BY <1>1, <1>2, <1>3, BeginAlone DEF Inv
  <1>6. ASSUME NEW h \in Procs, h # g, pc[h] # "idle", job[h].ns \notin raced'
        PROVE  job[h].ns # n /\ job[h].ns \in Namespaces /\ job[h].ns \notin raced
    <2>1. JobOK(h)
      BY <1>1 DEF TypeInv
    <2> QED BY <1>1, <1>5, <1>6, <2>1 DEF On, JobOK, TypeOK
  <1>7. CopyOK'
    <2> SUFFICES ASSUME NEW h \in Procs, Cloning(h)', job'[h].ns \notin raced'
                 PROVE  LET m == job'[h].ns
                            c == job'[h].to
                        IN  /\ \A p \in job'[h].copied : layers'[c][p] = layers'[m][p]
                            /\ pc'[h] = "fix" => tree'[m] = job'[h].copied
      BY DEF CopyOK
    <2>1. h # g /\ Cloning(h) /\ job'[h] = job[h] /\ pc'[h] = pc[h] /\ pc[h] # "idle"
      BY <1>4 DEF Cloning
    <2>2. job[h].ns # n /\ job[h].ns \in Namespaces /\ job[h].ns \notin raced
      BY <1>6, <2>1
    <2>3. job[h].to # n /\ job[h].to \in Namespaces
      BY <1>1, <1>4, <2>1, CloneApart
    <2>4. job[h].copied \subseteq Nodes
      BY <1>1, <2>1 DEF TypeInv, JobOK, Job
    <2>5. /\ \A q \in Nodes : layers'[job[h].ns][q] = layers[job[h].ns][q]
          /\ \A q \in Nodes : layers'[job[h].to][q] = layers[job[h].to][q]
      BY <1>1, <2>2, <2>3
    <2> QED BY <1>2, <2>1, <2>2, <2>4, <2>5, CopyFrame DEF Inv
  <1>10. ToldOK'
    <2> SUFFICES ASSUME NEW m \in live \ raced' PROVE ToldFor(m)'
      BY <1>2 DEF ToldOK
    <2>1. m \in live \ raced /\ m \in Namespaces /\ ToldFor(m)
      BY <1>1, <1>5 DEF Inv, ToldOK, TypeOK
    <2>2. CASE m # n
      <3>1. \A h \in Procs : (pc'[h] = "log" /\ job'[h].ns = m) <=> (pc[h] = "log" /\ job[h].ns = m)
        BY <1>3, <1>4, <2>2
      <3>2. \A h \in Procs : pc[h] = "log" /\ job[h].ns = m => job'[h] = job[h]
        BY <1>4
      <3>3. \A q \in Nodes : layers'[m][q] = layers[m][q]
        BY <1>1, <2>1, <2>2
      <3> QED BY <1>1, <1>2, <2>1, <3>1, <3>2, <3>3, ToldFrame DEF TypeOK
    <2>3. CASE m = n
      <3> SUFFICES ASSUME dropped[n] = 0
                   PROVE  \A h \in Procs : pc'[h] = "log" /\ job'[h].ns = n =>
                             Shown(n)' = tell(Replay(log[n]), logEntry(h)')
        BY <1>2, <1>3, <1>4, <2>3 DEF ToldFor
      <3> SUFFICES ASSUME NEW h \in Procs, pc'[h] = "log", job'[h].ns = n
                   PROVE  Shown(n)' = tell(Replay(log[n]), logEntry(h)')
        OBVIOUS
      <3>1. h = g
        BY <1>4, <1>5, <2>3 DEF On
      <3>2. Shown(n) = Replay(log[n])
        <4>1. \A h1 \in Procs : ~(pc[h1] = "log" /\ job[h1].ns = n)
          BY <1>5, <2>3 DEF On
        <4> QED BY <2>1, <2>3, <4>1 DEF ToldFor
      <3>3. logEntry(h)'.op = "unbind" /\ logEntry(h)'.dst = r.dst
        BY <1>3, <1>4, <3>1 DEF logEntry
      <3>4. tell(Replay(log[n]), logEntry(h)') = [Shown(n) EXCEPT ![r.dst] = <<>>]
        BY <3>2, <3>3 DEF tell
      <3>5. Shown(n)' = [p \in Nodes |-> shownOf(layers'[n][p])]
        BY Zenon DEF Shown, shownOf
      <3>6. Shown(n) = [p \in Nodes |-> shownOf(layers[n][p])] /\ shownOf(<<>>) = <<>>
        BY ShownIs
      <3>7. \A p \in Nodes : shownOf(layers'[n][p]) =
                IF p = r.dst THEN <<>> ELSE shownOf(layers[n][p])
        BY <1>1, <3>6
      <3>8. Shown(n)' = [Shown(n) EXCEPT ![r.dst] = <<>>]
        BY <1>1, <3>5, <3>6, <3>7
      <3> QED BY <3>4, <3>8
    <2> QED BY <2>2, <2>3
  <1>11. Numbered'
    BY <1>2 DEF Inv, Numbered
  <1> QED BY <1>1, <1>5, <1>7, <1>10, <1>11 DEF Inv

\* Adding layers makes their numbers the node's, and leaves the log behind.
LEMMA AddLayersKeeps ==
    ASSUME Inv, NEW g \in Procs, addLayers(g)
    PROVE  Inv'
  <1> DEFINE n == job[g].ns
             d == job[g].dst
             new == job[g].new
             disp == job[g].disp
             ls == spliced(layers[n][d], new, disp)
  <1>1. /\ TypeInv' /\ n \in live /\ n \in Namespaces /\ d \in Nodes
        /\ new \in Seq(Layer) /\ new # <<>> /\ disp \in Dispositions
        /\ \A i \in DOMAIN new : new[i].ro = job[g].ro
        /\ \A m \in Namespaces, q \in Nodes :
              layers'[m][q] = IF m = n /\ q = d THEN spliced(layers[m][q], new, disp)
                              ELSE layers[m][q]
        /\ pc'[g] = "log" /\ \A h \in Procs : h # g => pc'[h] = pc[h]
    BY AddLayersType DEF Inv
  <1>2. TypeInv /\ TypeOK /\ TypeOK'
    BY <1>1 DEF Inv, TypeInv
  <1>3. pc[g] = "add" /\ UNCHANGED <<tree, seq, log, dropped, live, outrun, dead, job, ops, raced>>
    BY DEF addLayers
  <1> HIDE DEF n, d, new, disp
  <1>4. AloneOK'
    BY <1>1, <1>2, <1>3, GoOnAlone DEF Inv
  <1>5. ASSUME NEW h \in Procs, h # g, pc[h] # "idle", job[h].ns \notin raced
        PROVE  job[h].ns # n /\ job[h].ns \in Namespaces
    <2>1. JobOK(h)
      BY <1>2 DEF TypeInv
    <2> QED BY <1>2, <1>3, <1>5, <2>1 DEF Inv, AloneOK, JobOK, TypeOK, n
  <1>6. CopyOK'
    <2> SUFFICES ASSUME NEW h \in Procs, Cloning(h)', job'[h].ns \notin raced'
                 PROVE  LET m == job'[h].ns
                            c == job'[h].to
                        IN  /\ \A p \in job'[h].copied : layers'[c][p] = layers'[m][p]
                            /\ pc'[h] = "fix" => tree'[m] = job'[h].copied
      BY DEF CopyOK
    <2>1. h # g /\ Cloning(h) /\ job'[h] = job[h] /\ pc'[h] = pc[h] /\ pc[h] # "idle"
      BY <1>1, <1>3 DEF Cloning
    <2>2. job[h].ns # n /\ job[h].ns \in Namespaces /\ job[h].ns \notin raced
      BY <1>3, <1>5, <2>1
    <2>3. job[h].to # n /\ job[h].to \in Namespaces
      BY <1>1, <1>2, <2>1, CloneApart
    <2>4. job[h].copied \subseteq Nodes
      BY <1>2, <2>1 DEF TypeInv, JobOK, Job
    <2>5. /\ \A q \in Nodes : layers'[job[h].ns][q] = layers[job[h].ns][q]
          /\ \A q \in Nodes : layers'[job[h].to][q] = layers[job[h].to][q]
      BY <1>1, <2>2, <2>3
    <2> QED BY <1>3, <2>1, <2>2, <2>4, <2>5, CopyFrame DEF Inv
  <1>9. ToldOK'
    <2> SUFFICES ASSUME NEW m \in live \ raced PROVE ToldFor(m)'
      BY <1>3 DEF ToldOK
    <2>1. m \in Namespaces /\ ToldFor(m)
      BY <1>2 DEF Inv, ToldOK, TypeOK
    <2>2. CASE m # n
      <3>1. \A h \in Procs : (pc'[h] = "log" /\ job'[h].ns = m) <=> (pc[h] = "log" /\ job[h].ns = m)
        BY <1>1, <1>3, <2>2 DEF n
      <3>2. \A q \in Nodes : layers'[m][q] = layers[m][q]
        BY <1>1, <2>1, <2>2
      <3> QED BY <1>2, <1>3, <2>1, <3>1, <3>2, ToldFrame DEF TypeOK
    <2>3. CASE m = n
      <3>0. \A h \in Procs : h # g => ~(pc[h] # "idle" /\ job[h].ns = m)
        BY <1>5, <2>3
      <3> SUFFICES ASSUME dropped[m] = 0, NEW h \in Procs, pc'[h] = "log", job'[h].ns = m
                   PROVE  Shown(m)' = tell(Replay(log[m]), logEntry(h)')
        BY <1>1, <1>3, <2>3 DEF ToldFor, n
      <3>1. h = g
        BY <1>1, <1>3, <3>0
      <3>2. Shown(m) = Replay(log[m])
        <4>1. \A h1 \in Procs : ~(pc[h1] = "log" /\ job[h1].ns = m)
          BY <1>3, <3>0
        <4> QED BY <2>1, <2>3, <4>1 DEF ToldFor
      <3>3. logEntry(h)' = logEntry(g)
        BY <1>3, <3>1 DEF logEntry
      <3>4. logEntry(g).op = "bind" /\ logEntry(g).dst = d /\ logEntry(g).disp = disp
        BY <1>1 DEF logEntry, new, d, disp
      <3>5. toldLayers(logEntry(g)) = shownOf(new)
        BY <1>1, ToldLayersAre DEF new
      <3>6. tell(Shown(m), logEntry(g)) = [Shown(m) EXCEPT ![d] = spliced(@, shownOf(new), disp)]
        BY <3>4, <3>5 DEF tell
      <3>7. Shown(m)' = [p \in Nodes |-> shownOf(layers'[m][p])]
        BY Zenon DEF Shown, shownOf
      <3>8. Shown(m) = [p \in Nodes |-> shownOf(layers[m][p])]
        BY ShownIs
      <3>9. layers[m][d] \in Seq(Layer)
        BY <1>1, <1>2, <2>3 DEF TypeOK
      <3>10. shownOf(layers'[m][d]) = spliced(shownOf(layers[m][d]), shownOf(new), disp)
        <4>1. layers'[m][d] = spliced(layers[m][d], new, disp)
          BY <1>1, <2>3
        <4> QED BY <1>1, <3>9, <4>1, ShownSpliced
      <3>11. \A p \in Nodes : p # d => shownOf(layers'[m][p]) = shownOf(layers[m][p])
        BY <1>1, <2>3
      <3>12. Shown(m)[d] = shownOf(layers[m][d])
        BY <1>1, <3>8
      <3> DEFINE x == spliced(shownOf(layers[m][d]), shownOf(new), disp)
      <3>13. tell(Shown(m), logEntry(g)) = [Shown(m) EXCEPT ![d] = x]
        BY <1>1, <3>6, <3>8, <3>12
      <3> HIDE DEF x
      <3>14. Shown(m)' = [Shown(m) EXCEPT ![d] = x]
        BY <1>1, <3>7, <3>8, <3>10, <3>11 DEF x
      <3> QED BY <3>2, <3>3, <3>13, <3>14
    <2> QED BY <2>2, <2>3
  <1>10. Numbered'
    BY <1>3 DEF Inv, Numbered
  <1> QED BY <1>1, <1>4, <1>6, <1>9, <1>10 DEF Inv

\* The numbers of the entries go on, also when the oldest one is dropped.
LEMMA AppendNumbered ==
    ASSUME NEW s \in Seq(Entry), NEW e \in Entry, NEW d \in Nat, NEW d2 \in Nat,
           NEW t \in Seq(Entry),
           \A i \in DOMAIN s : s[i].seq = d + i,
           e.seq = d + Len(s) + 1,
           \/ t = Append(s, e) /\ d2 = d
           \/ s # <<>> /\ t = Append(Tail(s), e) /\ d2 = d + 1
    PROVE  \A i \in DOMAIN t : t[i].seq = d2 + i
  <1>1. CASE t = Append(s, e) /\ d2 = d
    <2>1. /\ DOMAIN t = 1..(Len(s) + 1) /\ Len(s) \in Nat /\ t[Len(s) + 1] = e
          /\ \A i \in 1..Len(s) : t[i] = s[i]
      BY <1>1
    <2>2. ASSUME NEW i \in DOMAIN t PROVE t[i].seq = d2 + i
      <3>1. CASE i = Len(s) + 1
        BY <1>1, <2>1, <3>1
      <3>2. CASE i # Len(s) + 1
        <4>1. i \in 1..Len(s) /\ i \in DOMAIN s
          BY <2>1, <3>2
        <4> QED BY <1>1, <2>1, <4>1
      <3> QED BY <3>1, <3>2
    <2> QED BY <2>2
  <1>2. CASE s # <<>> /\ t = Append(Tail(s), e) /\ d2 = d + 1
    <2>1. /\ Tail(s) \in Seq(Entry) /\ Len(Tail(s)) = Len(s) - 1 /\ Len(s) \in Nat \ {0}
          /\ \A i \in 1..(Len(s) - 1) : Tail(s)[i] = s[i + 1]
      BY <1>2
    <2>2. /\ DOMAIN t = 1..Len(s) /\ t[Len(s)] = e
          /\ \A i \in 1..(Len(s) - 1) : t[i] = s[i + 1]
      <3> DEFINE u == Tail(s)
                 k == Len(s)
      <3>1. u \in Seq(Entry) /\ Len(u) = k - 1 /\ k \in Nat \ {0} /\ t = Append(u, e)
        BY <1>2, <2>1
      <3>2. \A i \in 1..(k - 1) : u[i] = s[i + 1]
        BY <2>1
      <3> HIDE DEF u, k
      <3>3. DOMAIN t = 1..k /\ t[k] = e /\ \A i \in 1..(k - 1) : t[i] = u[i]
        BY <3>1
      <3> QED BY <3>2, <3>3, SMTT(40) DEF k
    <2>3. ASSUME NEW i \in DOMAIN t PROVE t[i].seq = d2 + i
      <3>1. CASE i = Len(s)
        <4>1. t[i] = e /\ Len(s) \in Nat
          BY <2>1, <2>2, <3>1
        <4> QED BY <1>2, <3>1, <4>1, SMTT(40)
      <3>2. CASE i # Len(s)
        <4>0. i \in 1..Len(s) /\ DOMAIN s = 1..Len(s)
          BY <2>2
        <4>1. i \in 1..(Len(s) - 1) /\ i + 1 \in DOMAIN s /\ i \in Nat
          BY <2>1, <3>2, <4>0
        <4>2. s[i + 1].seq = d + (i + 1)
          BY <4>1
        <4> QED BY <1>2, <2>2, <4>1, <4>2
      <3> QED BY <3>1, <3>2
    <2> QED BY <2>3
  <1> QED BY <1>1, <1>2

\* The entry that was missing is written.
LEMMA RecordKeeps ==
    ASSUME Inv, NEW g \in Procs, record(g)
    PROVE  Inv'
  <1> DEFINE n == job[g].ns
             full == Len(log[n]) = MaxLog
  <1>1. /\ TypeInv' /\ pc[g] = "log" /\ n \in live /\ n \in Namespaces
        /\ log'[n] = Append(IF full THEN Tail(log[n]) ELSE log[n], logEntry(g))
        /\ dropped'[n] = IF full THEN dropped[n] + 1 ELSE dropped[n]
        /\ \A m \in Namespaces : m # n => log'[m] = log[m] /\ dropped'[m] = dropped[m]
        /\ UNCHANGED <<tree, layers, seq, live, raced, outrun>>
        /\ pc'[g] = "idle" /\ job'[g] = NoJob
        /\ \A h \in Procs : h # g => pc'[h] = pc[h] /\ job'[h] = job[h]
    BY RecordType, Zenon DEF Inv
  <1>2. TypeInv /\ TypeOK /\ TypeOK'
    BY <1>1 DEF Inv, TypeInv
  <1>3. logEntry(g) \in Entry
    BY <1>1, <1>2, LogEntryType
  <1>4. logEntry(g).seq = dropped[n] + Len(log[n]) + 1
    BY DEF logEntry
  <1> HIDE DEF n
  <1>5. log[n] \in Seq(Entry) /\ dropped[n] \in Nat
    BY <1>1, <1>2 DEF TypeOK
  <1>6. AloneOK'
    BY <1>1, <1>2, GoOnAlone DEF Inv
  <1>7. CopyOK'
    <2> SUFFICES ASSUME NEW h \in Procs, Cloning(h)', job'[h].ns \notin raced'
                 PROVE  LET m == job'[h].ns
                            c == job'[h].to
                        IN  /\ \A p \in job'[h].copied : layers'[c][p] = layers'[m][p]
                            /\ pc'[h] = "fix" => tree'[m] = job'[h].copied
      BY DEF CopyOK
    <2>1. Cloning(h) /\ job'[h] = job[h] /\ pc'[h] = pc[h] /\ job[h].ns \notin raced
      BY <1>1 DEF Cloning
    <2>2. job[h].copied \subseteq Nodes
      BY <1>2, <2>1 DEF TypeInv, JobOK, Job
    <2> QED BY <1>1, <2>1, <2>2, CopyFrame DEF Inv
  <1>10. ToldOK'
    <2> SUFFICES ASSUME NEW m \in live \ raced PROVE ToldFor(m)'
      BY <1>1 DEF ToldOK
    <2>1. m \in Namespaces /\ ToldFor(m)
      BY <1>2 DEF Inv, ToldOK, TypeOK
    <2>2. CASE m # n
      <3>1. \A h \in Procs : (pc'[h] = "log" /\ job'[h].ns = m) <=> (pc[h] = "log" /\ job[h].ns = m)
        BY <1>1, <2>2 DEF n
      <3>2. \A h \in Procs : pc[h] = "log" /\ job[h].ns = m => job'[h] = job[h]
        BY <1>1, <2>2 DEF n
      <3>3. log'[m] = log[m] /\ dropped'[m] = dropped[m]
        BY <1>1, <2>1, <2>2
      <3> QED BY <1>1, <1>2, <2>1, <3>1, <3>2, <3>3, ToldFrame DEF TypeOK
    <2>3. CASE m = n
      <3>0. \A h \in Procs : ~(pc'[h] = "log" /\ job'[h].ns = m)
        <4> SUFFICES ASSUME NEW h \in Procs, pc'[h] = "log", job'[h].ns = m PROVE FALSE
          OBVIOUS
        <4>1. h # g /\ pc[h] = "log" /\ job[h].ns = m
          BY <1>1
        <4> QED BY <1>1, <2>3, <4>1 DEF Inv, AloneOK, n
      <3> SUFFICES ASSUME dropped'[m] = 0 PROVE Shown(m)' = Replay(log'[m])
        BY <3>0 DEF ToldFor
      <3>1. ~full /\ dropped[m] = 0
        BY <1>1, <1>5, <2>3
      <3>2. log'[m] = Append(log[m], logEntry(g))
        BY <1>1, <2>3, <3>1
      <3>3. Shown(m) = tell(Replay(log[m]), logEntry(g))
        BY <1>1, <2>1, <2>3, <3>1 DEF ToldFor, n
      <3>4. Shown(m)' = Shown(m)
        BY <1>1 DEF Shown
      <3>5. Replay(log'[m]) = tell(Replay(log[m]), logEntry(g))
        BY <1>3, <1>5, <2>3, <3>2, ReplayAppend
      <3> QED BY <3>3, <3>4, <3>5
    <2> QED BY <2>2, <2>3
  <1>11. Numbered'
    <2> SUFFICES ASSUME NEW m \in Namespaces
                 PROVE  \A i \in DOMAIN log'[m] : log'[m][i].seq = dropped'[m] + i
      BY DEF Numbered
    <2>1. \A i \in DOMAIN log[m] : log[m][i].seq = dropped[m] + i
      BY DEF Inv, Numbered
    <2>2. CASE m # n
      BY <1>1, <2>1, <2>2
    <2>3. CASE m = n
      <3>1. full => log[n] # <<>>
        BY <1>5, BoundsAssumption
      <3>2. dropped'[n] \in Nat /\ log'[n] \in Seq(Entry)
        BY <1>1, <1>2 DEF TypeOK
      <3>3. \/ log'[n] = Append(log[n], logEntry(g)) /\ dropped'[n] = dropped[n]
            \/ log[n] # <<>> /\ log'[n] = Append(Tail(log[n]), logEntry(g))
                             /\ dropped'[n] = dropped[n] + 1
        BY <1>1, <3>1
      <3>4. \A i \in DOMAIN log[n] : log[n][i].seq = dropped[n] + i
        BY <2>1, <2>3
      <3>5. \A i \in DOMAIN log'[n] : log'[n][i].seq = dropped'[n] + i
        <4> DEFINE s == log[n]
                   e == logEntry(g)
                   d == dropped[n]
                   t == log'[n]
                   d2 == dropped'[n]
        <4>1. /\ s \in Seq(Entry) /\ e \in Entry /\ d \in Nat /\ d2 \in Nat
              /\ t \in Seq(Entry)
              /\ \A i \in DOMAIN s : s[i].seq = d + i
              /\ e.seq = d + Len(s) + 1
              /\ \/ t = Append(s, e) /\ d2 = d
                 \/ s # <<>> /\ t = Append(Tail(s), e) /\ d2 = d + 1
          BY <1>3, <1>4, <1>5, <3>2, <3>3, <3>4, Zenon DEF n
        <4> HIDE DEF s, e, d, t, d2
        <4>2. \A i \in DOMAIN t : t[i].seq = d2 + i
          BY <4>1, AppendNumbered
        <4> QED BY <4>2 DEF t, d2
      <3> QED BY <2>3, <3>5
    <2> QED BY <2>2, <2>3
  <1> QED BY <1>1, <1>6, <1>7, <1>10, <1>11 DEF Inv

\* One node more is as it was.
LEMMA CloneNodeKeeps ==
    ASSUME Inv, NEW g \in Procs, NEW p \in Nodes, cloneNode(g, p)
    PROVE  Inv'
  <1> DEFINE n == job[g].ns
             c == job[g].to
  <1>1. /\ TypeInv' /\ Cloning(g) /\ p \in tree[n]
        /\ \A m \in Namespaces, q \in Nodes :
              layers'[m][q] = IF m = c /\ q = p THEN layers[n][p] ELSE layers[m][q]
        /\ \A m \in Namespaces : m # c => tree'[m] = tree[m]
        /\ job'[g] = [job[g] EXCEPT !.copied = @ \cup {p}]
        /\ job'[g].ns = n /\ job'[g].to = c /\ job'[g].copied = job[g].copied \cup {p}
        /\ job'[g].seq = job[g].seq /\ job'[g].new = <<>>
        /\ pc'[g] = IF tree[n] = job[g].copied \cup {p} THEN "fix" ELSE "copy"
        /\ \A h \in Procs : h # g => pc'[h] = pc[h] /\ job'[h] = job[h]
        /\ UNCHANGED <<seq, log, dropped, live, raced, outrun>>
    BY CloneNodeType, Zenon DEF Inv
  <1>2. TypeInv /\ TypeOK /\ TypeOK'
    BY <1>1 DEF Inv, TypeInv
  <1>3. /\ n \in live /\ n \in Namespaces /\ c \in Namespaces /\ c \notin live /\ c # n
        /\ \A h \in Procs : h # g => ~Cloning(h)
    BY <1>1, <1>2, CloneApart
  <1>4. \A m \in live, q \in Nodes : m \in Namespaces /\ layers'[m][q] = layers[m][q]
    BY <1>1, <1>2, <1>3 DEF TypeOK
  <1>5. AloneOK'
    BY <1>1, <1>2, GoOnAlone DEF Inv, Cloning
  <1>6. CopyOK'
    <2> SUFFICES ASSUME NEW h \in Procs, Cloning(h)', job'[h].ns \notin raced'
                 PROVE  LET m == job'[h].ns
                            d == job'[h].to
                        IN  /\ \A q \in job'[h].copied : layers'[d][q] = layers'[m][q]
                            /\ pc'[h] = "fix" => tree'[m] = job'[h].copied
      BY DEF CopyOK
    <2>1. h = g
      BY <1>1, <1>3 DEF Cloning
    <2>2. n \notin raced /\ job[g].copied \subseteq Nodes
      BY <1>1, <1>2, <2>1 DEF TypeInv, JobOK, Job
    <2>3. \A q \in job[g].copied : layers[c][q] = layers[n][q]
      BY <1>1, <2>2 DEF Inv, CopyOK
    <2> HIDE DEF n, c
    <2>4. \A q \in job'[g].copied : layers'[c][q] = layers'[n][q]
      <3> SUFFICES ASSUME NEW q \in job[g].copied \cup {p} PROVE layers'[c][q] = layers'[n][q]
        BY <1>1
      <3>1. q \in Nodes /\ layers'[n][q] = layers[n][q]
        BY <1>3, <1>4, <2>2
      <3>2. CASE q = p
        BY <1>1, <1>3, <3>1, <3>2
      <3>3. CASE q # p
        BY <1>1, <1>3, <2>3, <3>1, <3>3
      <3> QED BY <3>2, <3>3
    <2>5. pc'[g] = "fix" => tree'[n] = job'[g].copied
      BY <1>1, <1>3
    <2> QED BY <1>1, <2>1, <2>4, <2>5
  <1>9. ToldOK'
    <2> SUFFICES ASSUME NEW m \in live \ raced PROVE ToldFor(m)'
      BY <1>1 DEF ToldOK
    <2>1. m \in Namespaces /\ ToldFor(m)
      BY <1>2 DEF Inv, ToldOK, TypeOK
    <2>2. /\ \A h \in Procs : (pc'[h] = "log" /\ job'[h].ns = m) <=> (pc[h] = "log" /\ job[h].ns = m)
          /\ \A h \in Procs : pc[h] = "log" /\ job[h].ns = m => job'[h] = job[h]
      BY <1>1 DEF Cloning
    <2>3. /\ \A q \in Nodes : layers'[m][q] = layers[m][q]
          /\ log'[m] = log[m] /\ dropped'[m] = dropped[m]
      BY <1>1, <1>4
    <2> QED BY <1>2, <2>1, <2>2, <2>3, ToldFrame DEF TypeOK
  <1>10. Numbered'
    BY <1>1 DEF Inv, Numbered
  <1> QED BY <1>1, <1>5, <1>6, <1>9, <1>10 DEF Inv

\* A FileSystem goes away or comes back, and no namespace notices.
LEMMA FlipKeeps ==
    ASSUME Inv, dead' \subseteq Flaky,
           UNCHANGED <<tree, layers, seq, log, dropped, live, outrun, pc, job, ops, raced>>
    PROVE  Inv'
  <1>1. UNCHANGED <<tree, layers, seq, log, dropped, live, outrun, pc, job, ops, raced>>
    OBVIOUS
  <1>2. TypeOK'
    BY <1>1 DEF Inv, TypeInv, TypeOK
  <1>3. (\A g \in Procs : JobOK(g)') /\ LiveOK'
    <2>1. LiveOK'
      BY <1>1 DEF Inv, TypeInv, LiveOK
    <2>2. ASSUME NEW g \in Procs PROVE JobOK(g)'
      <3>1. JobOK(g)
        BY DEF Inv, TypeInv
      <3> QED BY <1>1, <3>1 DEF JobOK, Cloning
    <2> QED BY <2>1, <2>2
  <1>4. AloneOK' /\ CopyOK' /\ Numbered'
    BY <1>1 DEF Inv, AloneOK, CopyOK, Numbered, Cloning
  <1>5. ToldOK'
    <2> SUFFICES ASSUME NEW m \in live \ raced PROVE ToldFor(m)'
      BY <1>1 DEF ToldOK
    <2>1. m \in Namespaces /\ ToldFor(m)
      BY DEF Inv, ToldOK, TypeInv, TypeOK
    <2> QED BY <1>1, <2>1, ToldFrame DEF Inv, TypeInv, TypeOK
  <1> QED BY <1>2, <1>3, <1>4, <1>5 DEF Inv, TypeInv

\* The clone comes out as the original is, unless calls overlapped its making.
LEMMA CloneFinishKeeps ==
    ASSUME Inv, NEW g \in Procs, cloneFinish(g)
    PROVE  Inv'
  <1> DEFINE n == job[g].ns
             c == job[g].to
  <1>1. /\ TypeInv' /\ Cloning(g) /\ pc[g] = "fix" /\ live' = live \cup {c}
        /\ \A m \in Namespaces, q \in Nodes : m # c => layers'[m][q] = layers[m][q]
        /\ \A q \in Nodes :
              /\ DOMAIN layers'[c][q] = DOMAIN layers[c][q]
              /\ \A i \in DOMAIN layers[c][q] :
                    /\ layers'[c][q][i].seq = layers[c][q][i].seq
                    /\ layers'[c][q][i].fs = layers[c][q][i].fs
                    /\ layers'[c][q][i].src = layers[c][q][i].src
                    /\ layers'[c][q][i].ro = layers[c][q][i].ro
        /\ \A m \in Namespaces : m # c =>
              log'[m] = log[m] /\ dropped'[m] = dropped[m] /\ seq'[m] = seq[m]
        /\ log'[c] = log[n] /\ dropped'[c] = dropped[n] /\ seq'[c] = job[g].seq
        /\ raced' = (IF n \in raced THEN raced \cup {c} ELSE raced)
        /\ pc'[g] = "idle" /\ job'[g] = NoJob /\ tree' = tree
        /\ \A h \in Procs : h # g => pc'[h] = pc[h] /\ job'[h] = job[h]
    BY CloneFinishType, Zenon DEF Inv
  <1>2. TypeInv /\ TypeOK /\ TypeOK'
    BY <1>1 DEF Inv, TypeInv
  <1>3. /\ n \in live /\ n \in Namespaces /\ c \in Namespaces /\ c \notin live /\ c # n
        /\ \A h \in Procs : h # g => ~Cloning(h)
    BY <1>1, <1>2, CloneApart
  <1>4. raced \subseteq raced' /\ (c \notin raced' => n \notin raced)
    BY <1>1
  <1>5. \A m \in live, q \in Nodes : m \in Namespaces /\ layers'[m][q] = layers[m][q]
    BY <1>1, <1>2, <1>3, SMTT(40) DEF TypeOK
  <1>6. ASSUME n \notin raced
        PROVE  /\ \A q \in Nodes : layers[c][q] = layers[n][q]
               /\ \A h \in Procs : ~(pc[h] = "log" /\ job[h].ns = n)
    <2>1. /\ \A q \in job[g].copied : layers[c][q] = layers[n][q]
          /\ tree[n] = job[g].copied
      BY <1>1, <1>6 DEF Inv, CopyOK
    <2>2. tree[c] = job[g].copied
      BY <1>1, <1>2 DEF TypeInv, JobOK
    <2>3. ASSUME NEW q \in Nodes PROVE layers[c][q] = layers[n][q]
      <3>1. CASE q \in job[g].copied
        BY <2>1, <3>1
      <3>2. CASE q \notin job[g].copied
        BY <1>2, <1>3, <2>1, <2>2, <3>2 DEF TypeOK
      <3> QED BY <3>1, <3>2
    <2>4. \A h \in Procs : ~(pc[h] = "log" /\ job[h].ns = n)
      BY <1>1, <1>3, <1>6 DEF Inv, AloneOK
    <2> QED BY <2>1, <2>3, <2>4
  <1>7. AloneOK'
    BY <1>1, <1>2, <1>4, GoOnAlone DEF Inv
  <1>8. CopyOK'
    BY <1>1, <1>3 DEF CopyOK, Cloning
  <1>9. \A h \in Procs : pc'[h] # "idle" =>
           /\ h # g /\ pc[h] = pc'[h] /\ job'[h] = job[h] /\ job[h].ns \in live /\ job[h].ns # c
    BY <1>1, <1>2, <1>3, ZenonT(60) DEF TypeInv, JobOK
  <1> HIDE DEF n, c
  <1> HIDE DEF n, c
  <1>12. ToldOK'
    <2> SUFFICES ASSUME NEW m \in live' \ raced' PROVE ToldFor(m)'
      BY DEF ToldOK
    <2>1. CASE m # c
      <3>1. m \in live \ raced /\ m \in Namespaces
        BY <1>1, <1>4, <1>5, <1>2, <2>1 DEF TypeOK
      <3>2. ToldFor(m)
        BY <3>1 DEF Inv, ToldOK
      <3>3. /\ \A h \in Procs : (pc'[h] = "log" /\ job'[h].ns = m) <=> (pc[h] = "log" /\ job[h].ns = m)
            /\ \A h \in Procs : pc[h] = "log" /\ job[h].ns = m => job'[h] = job[h]
        BY <1>1
      <3>4. /\ \A q \in Nodes : layers'[m][q] = layers[m][q]
            /\ log'[m] = log[m] /\ dropped'[m] = dropped[m]
        BY <1>1, <2>1, <3>1
      <3> QED BY <1>2, <3>1, <3>2, <3>3, <3>4, ToldFrame DEF TypeOK
    <2>2. CASE m = c
      <3>1. n \in live \ raced
        BY <1>3, <1>4, <2>2
      <3>2. \A h \in Procs : ~(pc'[h] = "log" /\ job'[h].ns = m)
        BY <1>9, <2>2
      <3> SUFFICES ASSUME dropped'[m] = 0 PROVE Shown(m)' = Replay(log'[m])
        BY <3>2 DEF ToldFor
      <3>3. Shown(n) = Replay(log[n])
        <4>1. ToldFor(n)
          BY <3>1 DEF Inv, ToldOK
        <4>2. dropped[n] = 0
          BY <1>1, <2>2
        <4> QED BY <1>6, <3>1, <4>1, <4>2 DEF ToldFor
      <3>4. Shown(m)' = [q \in Nodes |-> shownOf(layers'[m][q])]
        BY Zenon DEF Shown, shownOf
      <3>5. Shown(n) = [q \in Nodes |-> shownOf(layers[n][q])]
        BY ShownIs
      <3>6. ASSUME NEW q \in Nodes PROVE shownOf(layers'[m][q]) = shownOf(layers[n][q])
        <4>1. layers[c][q] = layers[n][q]
          BY <1>6, <3>1
        <4>2. /\ DOMAIN layers'[m][q] = DOMAIN layers[n][q]
              /\ \A i \in DOMAIN layers[n][q] :
                    /\ layers'[m][q][i].fs = layers[n][q][i].fs
                    /\ layers'[m][q][i].src = layers[n][q][i].src
                    /\ layers'[m][q][i].ro = layers[n][q][i].ro
          BY <1>1, <2>2, <4>1
        <4> QED BY <4>2, Zenon DEF shownOf
      <3>7. Shown(m)' = Shown(n)
        BY <3>4, <3>5, <3>6, Zenon
      <3>8. log'[m] = log[n]
        BY <1>1, <2>2
      <3> QED BY <3>3, <3>7, <3>8
    <2> QED BY <2>1, <2>2
  <1>13. Numbered'
    <2> SUFFICES ASSUME NEW m \in Namespaces
                 PROVE  \A i \in DOMAIN log'[m] : log'[m][i].seq = dropped'[m] + i
      BY DEF Numbered
    <2>1. CASE m # c
      BY <1>1, <2>1 DEF Inv, Numbered
    <2>2. CASE m = c
      BY <1>1, <1>3, <2>2 DEF Inv, Numbered
    <2> QED BY <2>1, <2>2
  <1> QED BY <1>1, <1>7, <1>8, <1>12, <1>13 DEF Inv

-----------------------------------------------------------------------------
(***************************************************************************)
(* The theorems.                                                           *)
(***************************************************************************)

\* New makes a namespace of which there is nothing to tell.
LEMMA InitKeeps == Init => Inv
  <1> SUFFICES ASSUME Init PROVE Inv
    OBVIOUS
  <1>1. /\ tree = [n \in Namespaces |-> IF n = 1 THEN {<<>>} ELSE {}]
        /\ layers = [n \in Namespaces |-> [p \in Nodes |-> <<>>]]
        /\ seq = [n \in Namespaces |-> 0] /\ log = [n \in Namespaces |-> <<>>]
        /\ dropped = [n \in Namespaces |-> 0] /\ live = {1} /\ dead = {}
        /\ pc = [g \in Procs |-> "idle"] /\ job = [g \in Procs |-> NoJob]
        /\ ops = 0 /\ raced = {} /\ outrun = {}
    BY DEF Init
  <1>2. 1 \in Namespaces /\ 0 \in 0..MaxOps
    BY BoundsAssumption DEF Namespaces
  <1>3. \A n \in Namespaces, p \in Nodes : layers[n][p] = <<>> /\ DOMAIN layers[n][p] = {}
    BY <1>1
  <1>4. \A g \in Procs : pc[g] = "idle" /\ job[g] = NoJob /\ ~Cloning(g)
    BY <1>1 DEF Cloning
  <1>5. TypeOK
    <2>1. tree \in [Namespaces -> SUBSET Nodes]
      BY <1>1, NodesAssumption
    <2>2. Prefixes(<<>>) = {<<>>}
      <3>1. Len(<<>>) = 0 /\ 0..0 = {0}
        OBVIOUS
      <3>2. Prefixes(<<>>) = {SubSeq(<<>>, 1, k) : k \in {0}}
        BY <3>1 DEF Prefixes
      <3>3. SubSeq(<<>>, 1, 0) = <<>>
        OBVIOUS
      <3> QED BY <3>2, <3>3
    <2>3. \A n \in Namespaces : \A p \in tree[n] : Prefixes(p) \subseteq tree[n] \/ n \notin live
      BY <1>1, <2>2
    <2>4. layers \in [Namespaces -> [Nodes -> Seq(Layer)]] /\ log \in [Namespaces -> Seq(Entry)]
      BY <1>1
    <2>5. seq \in [Namespaces -> Nat] /\ dropped \in [Namespaces -> Nat]
      BY <1>1
    <2> QED BY <1>1, <1>2, <1>3, <2>1, <2>3, <2>4, <2>5 DEF TypeOK
  <1>6. LiveOK
    <2>1. live = 1..1
      BY <1>1
    <2>2. \A g \in Procs : job[g].to = 0
      <3>1. NoJob.to = 0
        BY DEF NoJob
      <3> QED BY <1>4, <3>1
    <2>3. \A m \in Namespaces \ live : tree[m] = {}
      BY <1>1
    <2> QED BY <1>2, <2>1, <2>2, <2>3 DEF LiveOK
  <1>7. \A g \in Procs : JobOK(g)
    BY <1>4, NoJobType DEF JobOK
  <1>8. AloneOK /\ CopyOK
    BY <1>4 DEF AloneOK, CopyOK
  <1>10. ToldOK
    <2>1. Shown(1) = Replay(log[1])
      <3>1. Shown(1) = [p \in Nodes |-> shownOf(layers[1][p])] /\ shownOf(<<>>) = <<>>
        BY ShownIs
      <3>2. log[1] = <<>>
        BY <1>1, <1>2
      <3>3. Shown(1) = [p \in Nodes |-> <<>>]
        BY <1>2, <1>3, <3>1
      <3> QED BY <3>2, <3>3, ReplayEmpty
    <2> QED BY <1>1, <1>4, <2>1 DEF ToldOK, ToldFor
  <1>11. Numbered
    BY <1>1 DEF Numbered
  <1> QED BY <1>5, <1>6, <1>7, <1>8, <1>10, <1>11 DEF Inv, TypeInv

\* Every step keeps all of it.
LEMMA NextKeeps == Inv /\ [Next]_vars => Inv'
  <1> SUFFICES ASSUME Inv, [Next]_vars PROVE Inv'
    OBVIOUS
  <1>0. TypeOK
    BY DEF Inv, TypeInv
  <1>1. ASSUME NEW g \in Procs, NEW n \in Namespaces, NEW r \in Requests,
               BindFS(g, n, r) \/ BindPath(g, n, r)
        PROVE  Inv'
    <2>1. PICK new : Binding(g, n, r.dst, r.disp, new, r.ro)
      BY <1>0, <1>1, BindFSBinds, BindPathBinds, Zenon
    <2> QED BY <2>1, BindingKeeps
  <1>2. ASSUME NEW g \in Procs, NEW n \in Namespaces, NEW r \in Requests, BindPathFails(g, n, r)
        PROVE  Inv'
    BY <1>2, BindPathFailsKeeps
  <1>3. ASSUME NEW g \in Procs, NEW n \in Namespaces, NEW r \in Requests, Unbind(g, n, r)
        PROVE  Inv'
    BY <1>3, UnbindKeeps
  <1>4. ASSUME NEW g \in Procs, NEW n \in Namespaces, cloneSeq(g, n)
        PROVE  Inv'
    BY <1>4, CloneSeqKeeps
  <1>5. ASSUME NEW g \in Procs, addLayers(g) PROVE Inv'
    BY <1>5, AddLayersKeeps
  <1>6. ASSUME NEW g \in Procs, record(g) PROVE Inv'
    BY <1>6, RecordKeeps
  <1>7. ASSUME NEW g \in Procs, cloneFinish(g) PROVE Inv'
    BY <1>7, CloneFinishKeeps
  <1>8. ASSUME NEW g \in Procs, NEW p \in Nodes, cloneNode(g, p) PROVE Inv'
    BY <1>8, CloneNodeKeeps
  <1>9. ASSUME NEW x \in Flaky, flip(x) PROVE Inv'
    <2>1. UNCHANGED <<tree, layers, seq, log, dropped, live, outrun, pc, job, ops, raced>>
      BY <1>9 DEF flip, nsVars, procVars
    <2>2. dead' \subseteq Flaky
      BY <1>0, <1>9 DEF flip, TypeOK
    <2> QED BY <2>1, <2>2, FlipKeeps
  <1>10. CASE UNCHANGED vars
    <2>1. UNCHANGED <<tree, layers, seq, log, dropped, live, outrun, pc, job, ops, raced, dead>>
      BY <1>10 DEF vars, nsVars, procVars
    <2>2. dead' \subseteq Flaky
      BY <1>0, <2>1 DEF TypeOK
    <2> QED BY <2>1, <2>2, FlipKeeps
  <1> QED BY <1>1, <1>2, <1>3, <1>4, <1>5, <1>6, <1>7, <1>8, <1>9, <1>10, Zenon DEF Next, Call

\* However binds, unbinds and clones of ns.go and clone.go interleave, a namespace
\* nobody's calls overlapped on has one goroutine in it at most; what a Clone has
\* copied of it is as it was, and the log lacks at most the entry being written.
THEOREM InvInvariant == Spec => []Inv
  BY InitKeeps, NextKeeps, PTL DEF Spec

\* The type invariant: ensureNode leaves no node without its parents, in a clone too,
\* and no layer is anywhere but at a node.
THEOREM TypeCorrect == Spec => []TypeOK
  <1>1. Inv => TypeOK
    BY DEF Inv, TypeInv
  <1> QED BY <1>1, InvInvariant, PTL

\* The bind log (bindlog.go) is numbered without gaps, beyond maxLogEntries and in
\* clones, and replaying one that is complete gives the layers that are bound.
THEOREM LogTold == Spec => []LogFaithful
  <1>1. ASSUME Inv PROVE LogFaithful
    <2> SUFFICES ASSUME NEW n \in live
                 PROVE  /\ \A i \in DOMAIN log[n] : log[n][i].seq = dropped[n] + i
                        /\ n \notin raced /\ dropped[n] = 0 /\ ~Busy(n) =>
                              Replay(log[n]) = Shown(n)
      BY DEF LogFaithful
    <2>1. n \in Namespaces
      BY <1>1 DEF Inv, TypeInv, TypeOK
    <2>2. \A i \in DOMAIN log[n] : log[n][i].seq = dropped[n] + i
      BY <1>1, <2>1 DEF Inv, Numbered
    <2>3. ASSUME n \notin raced, dropped[n] = 0, ~Busy(n) PROVE Replay(log[n]) = Shown(n)
      <3>1. \A g \in Procs : ~(pc[g] = "log" /\ job[g].ns = n)
        BY <2>3 DEF Busy
      <3> QED BY <1>1, <2>3, <3>1 DEF Inv, ToldOK, ToldFor
    <2> QED BY <2>2, <2>3
  <1> QED BY <1>1, InvInvariant, PTL

\* A directory of the bind tree lists exactly the names that can be walked to in it,
\* with the devs they have (listLocalDir and nsFile.Walk in file.go), whatever has
\* been bound over what and whichever FileSystems cannot be reached.
THEOREM ListingsMatch == Spec => []ListingMatchesWalk
  <1>1. TypeOK => ListingMatchesWalk
    BY ListingsFollow
  <1> QED BY <1>1, TypeCorrect, PTL

-----------------------------------------------------------------------------
(***************************************************************************)
(* The numbers of layers, however the calls overlap.                       *)
(***************************************************************************)

\* The numbers of a sequence of layers; the layers have different ones, of those
\* given out when the counter is at k; two sequences have none in common.
nums(s)     == {s[i].seq : i \in DOMAIN s}
Drawn(k, s) ==
    /\ \A i, j \in DOMAIN s : s[i].seq = s[j].seq => i = j
    /\ \A x \in nums(s) : x \in 1..k
Apart(s, t) == \A x \in nums(s) : x \notin nums(t)

\* Goroutine g has layers to add to n; it is making a clone of n, which has given
\* out no number since.
Adding(g, n)    == pc[g] = "add" /\ job[g].ns = n
Following(g, n) == Cloning(g) /\ job[g].ns = n /\ job[g].seq = seq[n]

\* The numbers of the layers that are bound, of the ones about to be, and of the
\* ones a clone has so far.  A number never moves from one node to another, which
\* is why nodes copied at different times do not share one.
BoundOK(n) ==
    /\ \A p \in Nodes : Drawn(seq[n], layers[n][p])
    /\ \A p, q \in Nodes : p # q => Apart(layers[n][p], layers[n][q])
AddOK(n) ==
    \A g \in Procs : Adding(g, n) =>
        /\ Drawn(seq[n], job[g].new)
        /\ \A p \in Nodes : Apart(job[g].new, layers[n][p])
        /\ \A h \in Procs : h # g /\ Adding(h, n) => Apart(job[g].new, job[h].new)
FollowOK(n) ==
    \A g \in Procs : Following(g, n) =>
        /\ \A p \in Nodes : Drawn(seq[n], layers[job[g].to][p])
        /\ \A p, q \in Nodes : p # q =>
              /\ Apart(layers[job[g].to][p], layers[job[g].to][q])
              /\ Apart(layers[job[g].to][p], layers[n][q])
        /\ \A p \in Nodes, h \in Procs : Adding(h, n) => Apart(job[h].new, layers[job[g].to][p])

\* The counter does not go back to where a clone has read it.
Behind == \A g \in Procs : Cloning(g) => job[g].seq <= seq[job[g].ns]

Numbers == Behind /\ \A n \in live \ outrun : BoundOK(n) /\ AddOK(n) /\ FollowOK(n)

\* What has no layers has no numbers.
LEMMA NoNumbers ==
    /\ nums(<<>>) = {} /\ \A k : Drawn(k, <<>>)
    /\ \A s : Apart(<<>>, s) /\ Apart(s, <<>>)
  <1>1. DOMAIN <<>> = {}
    OBVIOUS
  <1>2. nums(<<>>) = {}
    BY <1>1 DEF nums
  <1> QED BY <1>1, <1>2, Zenon DEF Drawn, Apart

\* A number that was given out stays so.
LEMMA DrawnGrows ==
    ASSUME NEW k \in Nat, NEW m \in Nat, k <= m, NEW s, Drawn(k, s)
    PROVE  Drawn(m, s)
  BY DEF Drawn

LEMMA ApartSym ==
    ASSUME NEW s, NEW t, Apart(s, t)
    PROVE  Apart(t, s)
  BY DEF Apart

\* Layers with different numbers, put together.
LEMMA ConcatDistinct ==
    ASSUME NEW s \in Seq(Layer), NEW t \in Seq(Layer),
           \A i, k \in DOMAIN s : s[i].seq = s[k].seq => i = k,
           \A i, k \in DOMAIN t : t[i].seq = t[k].seq => i = k,
           \A i \in DOMAIN s, k \in DOMAIN t : s[i].seq # t[k].seq
    PROVE  LET u == s \o t
           IN  /\ \A i, k \in DOMAIN u : u[i].seq = u[k].seq => i = k
               /\ \A i \in DOMAIN u :
                     (\E k \in DOMAIN s : u[i] = s[k]) \/ (\E k \in DOMAIN t : u[i] = t[k])
  <1> DEFINE u == s \o t
  <1>1. /\ Len(u) = Len(s) + Len(t) /\ Len(s) \in Nat /\ Len(t) \in Nat
        /\ DOMAIN u = 1..Len(u) /\ DOMAIN s = 1..Len(s) /\ DOMAIN t = 1..Len(t)
        /\ \A i \in 1..Len(u) : u[i] = IF i <= Len(s) THEN s[i] ELSE t[i - Len(s)]
    OBVIOUS
  <1> HIDE DEF u
  <1>2. ASSUME NEW i \in DOMAIN u
        PROVE  \/ i <= Len(s) /\ i \in DOMAIN s /\ u[i] = s[i]
               \/ ~(i <= Len(s)) /\ i - Len(s) \in DOMAIN t /\ u[i] = t[i - Len(s)]
    BY <1>1
  <1>3. ASSUME NEW i \in DOMAIN u, NEW k \in DOMAIN u, u[i].seq = u[k].seq PROVE i = k
    <2>1. i \in Nat /\ k \in Nat
      BY <1>1
    <2>2. CASE i <= Len(s) /\ k <= Len(s)
      <3>1. i \in DOMAIN s /\ k \in DOMAIN s /\ u[i] = s[i] /\ u[k] = s[k]
        BY <1>2, <2>2
      <3> QED BY <1>3, <3>1
    <2>3. CASE ~(i <= Len(s)) /\ ~(k <= Len(s))
      <3>1. i - Len(s) \in DOMAIN t /\ k - Len(s) \in DOMAIN t /\ u[i] = t[i - Len(s)] /\ u[k] = t[k - Len(s)]
        BY <1>2, <2>3
      <3>2. i - Len(s) = k - Len(s)
        BY <1>3, <3>1
      <3> QED BY <1>1, <2>1, <3>2
    <2>4. CASE i <= Len(s) /\ ~(k <= Len(s))
      BY <1>2, <1>3, <2>4
    <2>5. CASE ~(i <= Len(s)) /\ k <= Len(s)
      BY <1>2, <1>3, <2>5
    <2> QED BY <2>2, <2>3, <2>4, <2>5
  <1>4. ASSUME NEW i \in DOMAIN u
        PROVE  (\E k \in DOMAIN s : u[i] = s[k]) \/ (\E k \in DOMAIN t : u[i] = t[k])
    BY <1>2
  <1> QED BY <1>3, <1>4 DEF u

\* And spliced.
LEMMA SplicedDistinct ==
    ASSUME NEW old \in Seq(Layer), NEW new \in Seq(Layer), NEW disp \in Dispositions,
           \A i, k \in DOMAIN old : old[i].seq = old[k].seq => i = k,
           \A i, k \in DOMAIN new : new[i].seq = new[k].seq => i = k,
           \A i \in DOMAIN old, k \in DOMAIN new : old[i].seq # new[k].seq
    PROVE  LET u == spliced(old, new, disp)
           IN  /\ \A i, k \in DOMAIN u : u[i].seq = u[k].seq => i = k
               /\ \A i \in DOMAIN u :
                     (\E k \in DOMAIN old : u[i] = old[k]) \/ (\E k \in DOMAIN new : u[i] = new[k])
  <1>1. CASE disp = "replace"
    <2>1. spliced(old, new, disp) = new
      BY <1>1 DEF spliced
    <2> QED BY <2>1
  <1>2. CASE disp = "before"
    <2>1. spliced(old, new, disp) = new \o old
      BY <1>2 DEF spliced
    <2>2. /\ \A i, k \in DOMAIN (new \o old) : (new \o old)[i].seq = (new \o old)[k].seq => i = k
          /\ \A i \in DOMAIN (new \o old) :
                (\E k \in DOMAIN new : (new \o old)[i] = new[k])
                \/ (\E k \in DOMAIN old : (new \o old)[i] = old[k])
      BY ConcatDistinct, SMTT(40)
    <2> QED BY <2>1, <2>2, Zenon
  <1>3. CASE disp = "after"
    <2>1. spliced(old, new, disp) = old \o new
      BY <1>3 DEF spliced
    <2>2. /\ \A i, k \in DOMAIN (old \o new) : (old \o new)[i].seq = (old \o new)[k].seq => i = k
          /\ \A i \in DOMAIN (old \o new) :
                (\E k \in DOMAIN old : (old \o new)[i] = old[k])
                \/ (\E k \in DOMAIN new : (old \o new)[i] = new[k])
      BY ConcatDistinct
    <2> QED BY <2>1, <2>2, Zenon
  <1> QED BY <1>1, <1>2, <1>3 DEF Dispositions

\* The numbers of old and new layers, spliced.
LEMMA SplicedNums ==
    ASSUME NEW old \in Seq(Layer), NEW new \in Seq(Layer), NEW disp \in Dispositions, NEW k,
           Drawn(k, old), Drawn(k, new), Apart(new, old)
    PROVE  LET u == spliced(old, new, disp)
           IN  Drawn(k, u) /\ \A x \in nums(u) : x \in nums(old) \/ x \in nums(new)
  <1> DEFINE u == spliced(old, new, disp)
  <1>1. /\ \A i, j \in DOMAIN old : old[i].seq = old[j].seq => i = j
        /\ \A i, j \in DOMAIN new : new[i].seq = new[j].seq => i = j
        /\ \A i \in DOMAIN old, j \in DOMAIN new : old[i].seq # new[j].seq
    BY SMTT(40) DEF Drawn, Apart, nums
  <1>2. /\ \A i, j \in DOMAIN u : u[i].seq = u[j].seq => i = j
        /\ \A i \in DOMAIN u :
              (\E j \in DOMAIN old : u[i] = old[j]) \/ (\E j \in DOMAIN new : u[i] = new[j])
    BY <1>1, SplicedDistinct
  <1> HIDE DEF u
  <1>3. \A x \in nums(u) : x \in nums(old) \/ x \in nums(new)
    BY <1>2 DEF nums
  <1>4. Drawn(k, u)
    BY <1>2, <1>3 DEF Drawn
  <1> QED BY <1>3, <1>4 DEF u

\* What is bound and about to be keeps its numbers, if none is new.
LEMMA HeldKept ==
    ASSUME NEW m, BoundOK(m), AddOK(m), seq[m] \in Nat, seq'[m] \in Nat, seq[m] <= seq'[m],
           \A q \in Nodes : layers'[m][q] = layers[m][q] \/ layers'[m][q] = <<>>,
           \A h \in Procs : Adding(h, m)' => Adding(h, m) /\ job'[h].new = job[h].new
    PROVE  BoundOK(m)' /\ AddOK(m)'
  <1>1. \A s : Drawn(seq[m], s) => Drawn(seq'[m], s)
    BY DrawnGrows
  <1>2. ASSUME NEW p \in Nodes
        PROVE  /\ Drawn(seq'[m], layers'[m][p])
               /\ \A q \in Nodes : p # q => Apart(layers'[m][p], layers'[m][q])
               /\ \A s : Apart(s, layers[m][p]) => Apart(s, layers'[m][p])
    BY <1>1, NoNumbers, Zenon DEF BoundOK
  <1>3. BoundOK(m)'
    BY <1>2, Zenon DEF BoundOK
  <1>4. ASSUME NEW g \in Procs, Adding(g, m)'
        PROVE  /\ Drawn(seq'[m], job'[g].new)
               /\ \A p \in Nodes : Apart(job'[g].new, layers'[m][p])
               /\ \A h \in Procs : h # g /\ Adding(h, m)' => Apart(job'[g].new, job'[h].new)
    <2>1. Adding(g, m) /\ job'[g].new = job[g].new
      BY <1>4
    <2>2. /\ Drawn(seq[m], job[g].new)
          /\ \A p \in Nodes : Apart(job[g].new, layers[m][p])
          /\ \A h \in Procs : h # g /\ Adding(h, m) => Apart(job[g].new, job[h].new)
      BY <2>1, Zenon DEF AddOK
    <2>3. \A h \in Procs : h # g /\ Adding(h, m)' => Apart(job'[g].new, job'[h].new)
      BY <2>1, <2>2, Zenon
    <2> QED BY <1>1, <1>2, <2>1, <2>2, <2>3, Zenon
  <1>5. AddOK(m)'
    BY <1>4, Zenon DEF AddOK
  <1> QED BY <1>3, <1>5

\* And so does what a clone has copied.
LEMMA FollowKept ==
    ASSUME NEW m, FollowOK(m), seq'[m] = seq[m],
           \A q \in Nodes : layers'[m][q] = layers[m][q] \/ layers'[m][q] = <<>>,
           \A h \in Procs : Adding(h, m)' => Adding(h, m) /\ job'[h].new = job[h].new,
           \A h \in Procs : Following(h, m)' =>
               /\ Following(h, m) /\ job'[h].to = job[h].to
               /\ \A q \in Nodes : layers'[job[h].to][q] = layers[job[h].to][q]
    PROVE  FollowOK(m)'
  <1> SUFFICES ASSUME NEW g \in Procs, Following(g, m)'
               PROVE  /\ \A p \in Nodes : Drawn(seq'[m], layers'[job'[g].to][p])
                      /\ \A p, q \in Nodes : p # q =>
                            /\ Apart(layers'[job'[g].to][p], layers'[job'[g].to][q])
                            /\ Apart(layers'[job'[g].to][p], layers'[m][q])
                      /\ \A p \in Nodes, h \in Procs : Adding(h, m)' =>
                            Apart(job'[h].new, layers'[job'[g].to][p])
    BY Zenon DEF FollowOK
  <1> DEFINE c == job[g].to
  <1>1. /\ Following(g, m) /\ job'[g].to = c
        /\ \A q \in Nodes : layers'[c][q] = layers[c][q]
    OBVIOUS
  <1>2. /\ \A p \in Nodes : Drawn(seq[m], layers[c][p])
        /\ \A p, q \in Nodes : p # q =>
              Apart(layers[c][p], layers[c][q]) /\ Apart(layers[c][p], layers[m][q])
        /\ \A p \in Nodes, h \in Procs : Adding(h, m) => Apart(job[h].new, layers[c][p])
    BY <1>1, Zenon DEF FollowOK
  <1> HIDE DEF c
  <1>3. ASSUME NEW p \in Nodes, NEW q \in Nodes, p # q
        PROVE  Apart(layers'[c][p], layers'[c][q]) /\ Apart(layers'[c][p], layers'[m][q])
    BY <1>1, <1>2, <1>3, NoNumbers, Zenon
  <1>4. ASSUME NEW p \in Nodes, NEW h \in Procs, Adding(h, m)'
        PROVE  Apart(job'[h].new, layers'[c][p])
    BY <1>1, <1>2, <1>4, Zenon
  <1> QED BY <1>1, <1>2, <1>3, <1>4, Zenon

\* Goroutines that make a clone are not behind more than they were.
LEMMA BehindKept ==
    ASSUME TypeInv, Behind, seq' \in [Namespaces -> Nat],
           \A m \in live : seq[m] <= seq'[m],
           \A h \in Procs : Cloning(h)' => Cloning(h) /\ job'[h].ns = job[h].ns /\ job'[h].seq = job[h].seq
    PROVE  Behind'
  <1> SUFFICES ASSUME NEW h \in Procs, Cloning(h)' PROVE job'[h].seq <= seq'[job'[h].ns]
    BY DEF Behind
  <1> DEFINE m == job[h].ns
  <1>1. Cloning(h) /\ job'[h].ns = m /\ job'[h].seq = job[h].seq
    OBVIOUS
  <1>2. m \in live /\ m \in Namespaces /\ job[h].seq \in Nat
    <2>1. m \in live /\ m \in Namespaces
      BY <1>1, CloneApart
    <2>2. job[h] \in Job
      BY DEF TypeInv, JobOK
    <2>3. job[h].seq \in Nat
      BY <2>2 DEF Job
    <2> QED BY <2>1, <2>3
  <1>3. job[h].seq <= seq[m]
    BY <1>1 DEF Behind
  <1>4. seq[m] \in Nat /\ seq'[m] \in Nat /\ seq[m] <= seq'[m]
    BY <1>2 DEF TypeInv, TypeOK
  <1> HIDE DEF m
  <1> QED BY <1>1, <1>2, <1>3, <1>4

\* A bind draws numbers that nothing has, and outruns the clones being made.
LEMMA BindingNumbers ==
    ASSUME TypeInv, Numbers, NEW g \in Procs, NEW n \in Namespaces, NEW dst, NEW disp, NEW new, NEW ro,
           Binding(g, n, dst, disp, new, ro)
    PROVE  Numbers'
  <1> DEFINE j == bindJob(n, dst, disp, new, ro)
  <1>1. TypeOK /\ TypeInv' /\ TypeOK'
    BY BindingType DEF TypeInv
  <1>2. /\ new \in Seq(Layer) /\ new # <<>>
        /\ \A i \in DOMAIN new : new[i].seq = seq[n] + i
        /\ seq' = [seq EXCEPT ![n] = @ + Len(new)]
        /\ Begin(g, n, "add", j)
        /\ layers' = layers /\ live' = live /\ outrun' = outrun
    BY DEF Binding
  <1>3. j.ns = n /\ j.new = new
    BY DEF bindJob, NoJob
  <1> HIDE DEF j
  <1>4. /\ pc'[g] = "add" /\ job'[g] = j
        /\ \A h \in Procs : h # g => pc'[h] = pc[h] /\ job'[h] = job[h]
    BY <1>1, <1>2, BeginIs
  <1>5. /\ seq[n] \in Nat /\ Len(new) \in Nat /\ Len(new) > 0 /\ seq'[n] = seq[n] + Len(new)
        /\ \A m \in Namespaces : m # n => seq'[m] = seq[m]
        /\ seq' \in [Namespaces -> Nat]
    BY <1>1, <1>2 DEF TypeOK
  <1>6. ASSUME NEW m \in Namespaces
        PROVE  seq[m] \in Nat /\ seq'[m] \in Nat /\ seq[m] <= seq'[m]
    <2>1. seq[m] \in Nat /\ seq'[m] \in Nat
      BY <1>1 DEF TypeOK
    <2>2. CASE m = n
      BY <1>5, <2>1, <2>2
    <2>3. CASE m # n
      BY <1>5, <2>1, <2>3
    <2> QED BY <2>1, <2>2, <2>3
  <1>7. \A h \in Procs : Cloning(h)' => h # g /\ Cloning(h) /\ job'[h] = job[h]
    BY <1>4 DEF Cloning
  <1>8. Behind'
    <2>1. \A m \in live : seq[m] <= seq'[m]
      BY <1>1, <1>6 DEF TypeOK
    <2> QED BY <1>5, <1>7, <2>1, BehindKept DEF Numbers
  <1>9. ASSUME NEW m \in live \ outrun PROVE BoundOK(m)' /\ AddOK(m)' /\ FollowOK(m)'
    <2>1. m \in Namespaces /\ BoundOK(m) /\ AddOK(m) /\ FollowOK(m)
      BY <1>1 DEF Numbers, TypeOK
    <2>2. \A q \in Nodes : layers'[m][q] = layers[m][q]
      BY <1>2
    <2>3. CASE m # n
      <3>1. \A h \in Procs : Adding(h, m)' => Adding(h, m) /\ job'[h].new = job[h].new
        BY <1>3, <1>4, <2>3 DEF Adding
      <3>2. \A h \in Procs : Following(h, m)' => Following(h, m) /\ job'[h].to = job[h].to
        BY <1>5, <1>7, <2>1, <2>3 DEF Following
      <3>3. seq'[m] = seq[m]
        BY <1>5, <2>1, <2>3
      <3>4. BoundOK(m)' /\ AddOK(m)'
        BY <1>6, <2>1, <2>2, <3>1, HeldKept
      <3> QED BY <1>2, <2>1, <2>2, <3>1, <3>2, <3>3, <3>4, FollowKept
    <2>4. CASE m = n
      <3>1. \A s : Drawn(seq[n], s) => Drawn(seq'[n], s)
        BY <1>5, <1>6, DrawnGrows
      <3>2. \A i \in DOMAIN new : i \in 1..Len(new) /\ new[i].seq = seq[n] + i
        BY <1>2
      <3>3. Drawn(seq'[n], new)
        BY <1>5, <3>2 DEF Drawn, nums
      <3>4. ASSUME NEW s, Drawn(seq[n], s) PROVE Apart(new, s) /\ Apart(s, new)
        <4>1. \A x \in nums(s) : x \in 1..seq[n]
          BY <3>4 DEF Drawn
        <4>2. \A x \in nums(new) : \E i \in 1..Len(new) : x = seq[n] + i
          BY <3>2 DEF nums
        <4>3. \A x \in nums(new) : x \notin 1..seq[n]
          BY <1>5, <4>2
        <4> QED BY <4>1, <4>3 DEF Apart
      <3>5. BoundOK(n)'
        <4>1. \A p \in Nodes : Drawn(seq'[n], layers'[n][p])
          BY <2>1, <2>2, <2>4, <3>1, Zenon DEF BoundOK
        <4>2. \A p, q \in Nodes : p # q => Apart(layers'[n][p], layers'[n][q])
          BY <2>1, <2>2, <2>4, Zenon DEF BoundOK
        <4> QED BY <4>1, <4>2, Zenon DEF BoundOK
      <3>6. ASSUME NEW h \in Procs, Adding(h, n)', h # g
            PROVE  /\ Adding(h, n) /\ job'[h].new = job[h].new
                   /\ Drawn(seq[n], job[h].new)
                   /\ \A p \in Nodes : Apart(job[h].new, layers[n][p])
                   /\ \A e \in Procs : e # h /\ Adding(e, n) => Apart(job[h].new, job[e].new)
        <4>1. Adding(h, n) /\ job'[h].new = job[h].new
          BY <1>4, <3>6 DEF Adding
        <4> QED BY <2>1, <2>4, <4>1, Zenon DEF AddOK
      <3>7. ASSUME NEW h \in Procs, Adding(h, n)'
            PROVE  /\ Drawn(seq'[n], job'[h].new)
                   /\ \A p \in Nodes : Apart(job'[h].new, layers'[n][p])
                   /\ \A e \in Procs : e # h /\ Adding(e, n)' => Apart(job'[h].new, job'[e].new)
        <4>1. job'[g].new = new
          BY <1>3, <1>4
        <4>2. CASE h = g
          <5>1. \A p \in Nodes : Apart(new, layers'[n][p])
            BY <2>1, <2>2, <2>4, <3>4, Zenon DEF BoundOK
          <5>2. \A e \in Procs : e # g /\ Adding(e, n)' => Apart(new, job'[e].new)
            BY <3>4, <3>6, Zenon
          <5> QED BY <3>3, <4>1, <4>2, <5>1, <5>2, Zenon
        <4>3. CASE h # g
          <5>1. /\ job'[h].new = job[h].new /\ Drawn(seq[n], job[h].new)
                /\ \A p \in Nodes : Apart(job[h].new, layers[n][p])
                /\ \A e \in Procs : e # h /\ Adding(e, n) => Apart(job[h].new, job[e].new)
            BY <3>6, <3>7, <4>3, Zenon
          <5>2. ASSUME NEW e \in Procs, e # h, Adding(e, n)' PROVE Apart(job'[h].new, job'[e].new)
            <6>1. CASE e = g
              BY <3>4, <4>1, <5>1, <6>1, Zenon
            <6>2. CASE e # g
              BY <3>6, <5>1, <5>2, <6>2, Zenon
            <6> QED BY <6>1, <6>2
          <5> QED BY <2>2, <2>4, <3>1, <5>1, <5>2, Zenon
        <4> QED BY <4>2, <4>3
      <3>8. AddOK(n)'
        BY <3>7, Zenon DEF AddOK
      <3>9. \A h \in Procs : ~Following(h, n)'
        <4> SUFFICES ASSUME NEW h \in Procs, Following(h, n)' PROVE FALSE
          OBVIOUS
        <4>1. Cloning(h) /\ job[h].ns = n /\ job[h].seq = seq'[n]
          BY <1>7 DEF Following
        <4>2. job[h].seq <= seq[n]
          BY <4>1 DEF Numbers, Behind
        <4> QED BY <1>5, <4>1, <4>2
      <3>10. FollowOK(n)'
        BY <3>9, Zenon DEF FollowOK
      <3> QED BY <2>4, <3>5, <3>8, <3>10
    <2> QED BY <2>3, <2>4
  <1> QED BY <1>2, <1>8, <1>9 DEF Numbers

\* A bind of paths that fails may have drawn some, too.
LEMMA BindPathFailsNumbers ==
    ASSUME TypeInv, Numbers, NEW g \in Procs, NEW n \in Namespaces, NEW r \in Requests,
           BindPathFails(g, n, r)
    PROVE  Numbers'
  <1>1. /\ TypeOK /\ seq' \in [Namespaces -> Nat]
        /\ \A m \in Namespaces : seq[m] \in Nat /\ seq'[m] \in Nat /\ seq[m] <= seq'[m]
    BY BindPathFailsType DEF TypeInv, TypeOK
  <1>2. UNCHANGED <<layers, live, outrun, pc, job>>
    BY DEF BindPathFails
  <1>3. \A h \in Procs : Cloning(h)' <=> Cloning(h)
    BY <1>2 DEF Cloning
  <1>4. Behind'
    <2>1. \A m \in live : seq[m] <= seq'[m]
      BY <1>1 DEF TypeOK
    <2> QED BY <1>1, <1>2, <1>3, <2>1, BehindKept DEF Numbers
  <1>5. ASSUME NEW m \in live \ outrun PROVE BoundOK(m)' /\ AddOK(m)' /\ FollowOK(m)'
    <2>1. m \in Namespaces /\ BoundOK(m) /\ AddOK(m) /\ FollowOK(m)
      BY <1>1 DEF Numbers, TypeOK
    <2>2. \A h \in Procs : Adding(h, m)' => Adding(h, m) /\ job'[h].new = job[h].new
      BY <1>2 DEF Adding
    <2>3. \A q \in Nodes : layers'[m][q] = layers[m][q]
      BY <1>2
    <2>4. BoundOK(m)' /\ AddOK(m)'
      BY <1>1, <2>1, <2>2, <2>3, HeldKept
    <2>5. CASE seq'[m] = seq[m]
      <3>1. \A h \in Procs : Following(h, m)' => Following(h, m) /\ job'[h].to = job[h].to
        BY <1>2, <1>3, <2>5 DEF Following
      <3> QED BY <1>2, <2>1, <2>2, <2>3, <2>4, <2>5, <3>1, FollowKept
    <2>6. CASE seq'[m] # seq[m]
      <3>1. ASSUME NEW h \in Procs, Following(h, m)' PROVE FALSE
        <4>1. Cloning(h) /\ job[h].ns = m /\ job[h].seq = seq'[m]
          BY <1>2, <1>3, <3>1 DEF Following
        <4>2. job[h].seq <= seq[m]
          BY <4>1 DEF Numbers, Behind
        <4> QED BY <1>1, <2>1, <2>6, <4>1, <4>2
      <3>2. FollowOK(m)'
        BY <3>1, Zenon DEF FollowOK
      <3> QED BY <2>4, <3>2
    <2> QED BY <2>5, <2>6
  <1> QED BY <1>2, <1>4, <1>5 DEF Numbers

\* When no counter moves, no layer comes and no clone goes on, the numbers stay.
LEMMA NumbersKept ==
    ASSUME TypeInv, Numbers, UNCHANGED <<seq, live, outrun>>,
           \A m \in Namespaces, q \in Nodes : layers'[m][q] = layers[m][q] \/ layers'[m][q] = <<>>,
           \A m \in Namespaces \ live, q \in Nodes : layers'[m][q] = layers[m][q],
           \A h \in Procs : pc'[h] = "add" => pc[h] = "add" /\ job'[h] = job[h],
           \A h \in Procs : Cloning(h)' => Cloning(h) /\ job'[h] = job[h]
    PROVE  Numbers'
  <1>1. TypeOK /\ seq' = seq /\ live' = live /\ outrun' = outrun
    BY DEF TypeInv
  <1>2. \A m \in Namespaces : seq[m] \in Nat /\ seq[m] <= seq'[m]
    BY <1>1 DEF TypeOK
  <1>3. Behind'
    <2>1. \A m \in live : seq[m] <= seq'[m]
      BY <1>1, <1>2 DEF TypeOK
    <2>2. seq' \in [Namespaces -> Nat]
      BY <1>1 DEF TypeOK
    <2> QED BY <2>1, <2>2, BehindKept DEF Numbers
  <1>4. ASSUME NEW m \in live \ outrun PROVE BoundOK(m)' /\ AddOK(m)' /\ FollowOK(m)'
    <2>1. m \in Namespaces /\ BoundOK(m) /\ AddOK(m) /\ FollowOK(m)
      BY <1>1 DEF Numbers, TypeOK
    <2>2. \A h \in Procs : Adding(h, m)' => Adding(h, m) /\ job'[h].new = job[h].new
      BY DEF Adding
    <2>3. \A q \in Nodes : layers'[m][q] = layers[m][q] \/ layers'[m][q] = <<>>
      BY <2>1
    <2>4. BoundOK(m)' /\ AddOK(m)'
      BY <1>1, <1>2, <2>1, <2>2, <2>3, HeldKept
    <2>5. ASSUME NEW h \in Procs, Following(h, m)'
          PROVE  /\ Following(h, m) /\ job'[h].to = job[h].to
                 /\ \A q \in Nodes : layers'[job[h].to][q] = layers[job[h].to][q]
      <3>1. Cloning(h) /\ job'[h] = job[h] /\ Following(h, m)
        BY <1>1, <2>5 DEF Following
      <3>2. job[h].to \in Namespaces \ live
        BY <3>1, CloneApart
      <3> QED BY <3>1, <3>2
    <2>6. seq'[m] = seq[m]
      BY <1>1
    <2> QED BY <2>1, <2>2, <2>3, <2>4, <2>5, <2>6, FollowKept
  <1> QED BY <1>1, <1>3, <1>4 DEF Numbers

\* Unbind only takes layers away.
LEMMA UnbindNumbers ==
    ASSUME TypeInv, Numbers, NEW g \in Procs, NEW n \in Namespaces, NEW r \in Requests, Unbind(g, n, r)
    PROVE  Numbers'
  <1> DEFINE j == [NoJob EXCEPT !.ns = n, !.dst = r.dst]
  <1>1. /\ TypeOK /\ Begin(g, n, "log", j) /\ UNCHANGED <<seq, live, outrun>>
    BY DEF Unbind, TypeInv
  <1> HIDE DEF j
  <1>2. \A m \in Namespaces, q \in Nodes :
           layers'[m][q] = IF m = n /\ q = r.dst THEN <<>> ELSE layers[m][q]
    BY UnbindType
  <1>3. /\ n \in live /\ pc'[g] = "log"
        /\ \A h \in Procs : h # g => pc'[h] = pc[h] /\ job'[h] = job[h]
    BY <1>1, BeginIs
  <1>4. \A h \in Procs : (pc'[h] = "add" \/ Cloning(h)') => h # g
    BY <1>3 DEF Cloning
  <1>5. /\ \A h \in Procs : pc'[h] = "add" => pc[h] = "add" /\ job'[h] = job[h]
        /\ \A h \in Procs : Cloning(h)' => Cloning(h) /\ job'[h] = job[h]
    BY <1>3, <1>4 DEF Cloning
  <1>6. /\ \A m \in Namespaces, q \in Nodes : layers'[m][q] = layers[m][q] \/ layers'[m][q] = <<>>
        /\ \A m \in Namespaces \ live, q \in Nodes : layers'[m][q] = layers[m][q]
    BY <1>2, <1>3
  <1> QED BY <1>1, <1>5, <1>6, NumbersKept

\* A clone starts out with no layers and with every number given out so far.
LEMMA CloneSeqNumbers ==
    ASSUME TypeInv, Numbers, NEW g \in Procs, NEW n \in Namespaces, cloneSeq(g, n)
    PROVE  Numbers'
  <1> DEFINE j == [NoJob EXCEPT !.ns = n, !.to = Cardinality(live) + 1, !.seq = seq[n]]
  <1>1. /\ TypeOK /\ TypeInv' /\ TypeOK'
        /\ Begin(g, n, "copy", j)
        /\ UNCHANGED <<layers, seq, live, outrun>>
    BY CloneSeqType DEF cloneSeq, nsVars, TypeInv
  <1>2. j.ns = n /\ j.seq = seq[n] /\ j.copied = {}
    BY DEF NoJob
  <1> HIDE DEF j
  <1>3. /\ n \in live /\ pc'[g] = "copy" /\ job'[g] = j
        /\ \A h \in Procs : h # g => pc'[h] = pc[h] /\ job'[h] = job[h]
    BY <1>1, BeginIs
  <1>4. Cloning(g)' /\ \A h \in Procs : h # g => ~Cloning(h)'
    <2>1. Cloning(g)'
      BY <1>3 DEF Cloning
    <2>2. ASSUME NEW h \in Procs, h # g, Cloning(h)' PROVE FALSE
      <3>1. Cloning(h)
        BY <1>3, <2>2 DEF Cloning
      <3>2. job[h].to # 0
        BY <3>1, CloneApart
      <3>3. job[h].to = 0
        BY DEF cloneSeq
      <3> QED BY <3>2, <3>3
    <2> QED BY <2>1, <2>2
  <1>5. \A m \in Namespaces : seq[m] \in Nat /\ seq[m] <= seq'[m]
    BY <1>1 DEF TypeOK
  <1>6. Behind'
    BY <1>1, <1>2, <1>3, <1>4, <1>5 DEF Behind
  <1>7. \A q \in Nodes : layers'[job'[g].to][q] = <<>>
    <2>1. JobOK(g)'
      BY <1>1 DEF TypeInv
    <2>2. job'[g].to \in Namespaces /\ tree'[job'[g].to] = {}
      BY <1>2, <1>3, <1>4, <2>1 DEF JobOK
    <2> QED BY <1>1, <2>2 DEF TypeOK
  <1>8. ASSUME NEW m \in live \ outrun PROVE BoundOK(m)' /\ AddOK(m)' /\ FollowOK(m)'
    <2>1. m \in Namespaces /\ BoundOK(m) /\ AddOK(m) /\ FollowOK(m)
      BY <1>1 DEF Numbers, TypeOK
    <2>2. \A h \in Procs : Adding(h, m)' => Adding(h, m) /\ job'[h].new = job[h].new
      BY <1>3 DEF Adding
    <2>3. \A q \in Nodes : layers'[m][q] = layers[m][q]
      BY <1>1
    <2>4. BoundOK(m)' /\ AddOK(m)'
      BY <1>1, <1>5, <2>1, <2>2, <2>3, HeldKept
    <2>5. ASSUME NEW h \in Procs, Following(h, m)'
          PROVE  h = g
      BY <1>4, <2>5 DEF Following
    <2>6. FollowOK(m)'
      BY <1>7, <2>5, NoNumbers, Zenon DEF FollowOK
    <2> QED BY <2>4, <2>6
  <1> QED BY <1>1, <1>6, <1>8 DEF Numbers

\* Layers that are added take their numbers with them.
LEMMA AddLayersNumbers ==
    ASSUME TypeInv, Numbers, NEW g \in Procs, addLayers(g)
    PROVE  Numbers'
  <1>0. PICK n, d, new : n = job[g].ns /\ d = job[g].dst /\ new = job[g].new
    OBVIOUS
  <1> DEFINE u == spliced(layers[n][d], new, job[g].disp)
  <1>1. /\ TypeOK /\ pc[g] = "add" /\ seq' = seq /\ live' = live /\ outrun' = outrun /\ job' = job
    BY DEF addLayers, TypeInv
  <1>2. /\ n \in live /\ n \in Namespaces /\ d \in Nodes
        /\ new \in Seq(Layer) /\ job[g].disp \in Dispositions
        /\ \A m \in Namespaces, q \in Nodes :
              layers'[m][q] = IF m = n /\ q = d THEN spliced(layers[m][q], new, job[g].disp)
                              ELSE layers[m][q]
        /\ pc'[g] = "log" /\ \A h \in Procs : h # g => pc'[h] = pc[h]
    BY <1>0, AddLayersType
  <1>3. layers'[n][d] = u /\ \A m \in Namespaces, q \in Nodes : m # n \/ q # d => layers'[m][q] = layers[m][q]
    BY <1>2
  <1>4. layers[n][d] \in Seq(Layer)
    BY <1>1, <1>2 DEF TypeOK
  <1>5. /\ \A h \in Procs : pc'[h] = "add" => h # g /\ pc[h] = "add"
        /\ \A h \in Procs : Cloning(h)' => Cloning(h)
    BY <1>2 DEF Cloning
  <1>6. \A m \in Namespaces : seq[m] \in Nat /\ seq'[m] \in Nat /\ seq[m] <= seq'[m]
    BY <1>1 DEF TypeOK
  <1>7. Behind'
    BY <1>1, <1>5 DEF Behind, Numbers
  <1>8. ASSUME NEW h \in Procs, Cloning(h)
        PROVE  /\ job[h].to # n /\ job[h].to \in Namespaces
               /\ \A q \in Nodes : layers'[job[h].to][q] = layers[job[h].to][q]
    <2>1. job[h].to \in Namespaces /\ job[h].to \notin live
      BY <1>8, CloneApart
    <2>2. job[h].to # n
      BY <1>2, <2>1
    <2> QED BY <1>3, <2>1, <2>2
  <1>9. ASSUME NEW m \in live \ outrun PROVE BoundOK(m)' /\ AddOK(m)' /\ FollowOK(m)'
    <2>1. m \in Namespaces /\ BoundOK(m) /\ AddOK(m) /\ FollowOK(m)
      BY <1>1 DEF Numbers, TypeOK
    <2>2. \A h \in Procs : Adding(h, m)' => h # g /\ Adding(h, m) /\ job'[h].new = job[h].new
      BY <1>1, <1>5 DEF Adding
    <2>3. \A h \in Procs : Following(h, m)' =>
             /\ Following(h, m) /\ job'[h].to = job[h].to
             /\ \A q \in Nodes : layers'[job[h].to][q] = layers[job[h].to][q]
      BY <1>1, <1>5, <1>8 DEF Following
    <2>4. CASE m # n
      <3>1. \A q \in Nodes : layers'[m][q] = layers[m][q]
        BY <1>3, <2>1, <2>4
      <3>2. BoundOK(m)' /\ AddOK(m)'
        BY <1>6, <2>1, <2>2, <3>1, HeldKept
      <3> QED BY <1>1, <2>1, <2>2, <2>3, <3>1, <3>2, FollowKept
    <2>5. CASE m = n
      <3>1. /\ Adding(g, n) /\ Drawn(seq[n], new)
            /\ \A p \in Nodes : Apart(new, layers[n][p])
            /\ \A h \in Procs : h # g /\ Adding(h, n) => Apart(new, job[h].new)
        <4>1. Adding(g, n)
          BY <1>0, <1>1 DEF Adding
        <4> QED BY <1>0, <2>1, <2>5, <4>1, Zenon DEF AddOK
      <3>2. /\ \A p \in Nodes : Drawn(seq[n], layers[n][p])
            /\ \A p, q \in Nodes : p # q => Apart(layers[n][p], layers[n][q])
        BY <2>1, <2>5, Zenon DEF BoundOK
      <3>3. Drawn(seq[n], layers[n][d]) /\ Apart(new, layers[n][d])
        BY <1>2, <3>1, <3>2
      <3>4. Drawn(seq[n], u) /\ \A x \in nums(u) : x \in nums(layers[n][d]) \/ x \in nums(new)
        <4>1. /\ Drawn(seq[n], spliced(layers[n][d], new, job[g].disp))
              /\ \A x \in nums(spliced(layers[n][d], new, job[g].disp)) :
                    x \in nums(layers[n][d]) \/ x \in nums(new)
          BY <1>2, <1>4, <3>1, <3>3, SplicedNums
        <4> QED BY <4>1
      <3> HIDE DEF u
      <3>5. ASSUME NEW s, Apart(s, layers[n][d]), Apart(s, new)
            PROVE  Apart(s, u) /\ Apart(u, s)
        BY <3>4, <3>5 DEF Apart
      <3>6. ASSUME NEW p \in Nodes
            PROVE  /\ Drawn(seq'[n], layers'[n][p])
                   /\ \A q \in Nodes : p # q => Apart(layers'[n][p], layers'[n][q])
        <4>1. CASE p = d
          <5>1. layers'[n][p] = u /\ \A q \in Nodes : p # q => layers'[n][q] = layers[n][q]
            BY <1>2, <1>3, <4>1
          <5>2. ASSUME NEW q \in Nodes, p # q PROVE Apart(u, layers[n][q])
            <6>1. Apart(layers[n][q], layers[n][d])
              BY <1>2, <3>2, <4>1, <5>2, Zenon
            <6>2. Apart(layers[n][q], new)
              BY <3>1, ApartSym
            <6> QED BY <3>5, <6>1, <6>2
          <5> QED BY <1>1, <3>4, <5>1, <5>2
        <4>2. CASE p # d
          <5>1. layers'[n][p] = layers[n][p]
            BY <1>2, <1>3, <4>2
          <5>2. Apart(layers[n][p], u)
            <6>1. Apart(layers[n][p], layers[n][d])
              BY <1>2, <3>2, <4>2, Zenon
            <6>2. Apart(layers[n][p], new)
              BY <3>1, ApartSym
            <6> QED BY <3>5, <6>1, <6>2
          <5>3. ASSUME NEW q \in Nodes, p # q PROVE Apart(layers[n][p], layers'[n][q])
            <6>1. CASE q = d
              BY <1>3, <5>2, <6>1
            <6>2. CASE q # d
              BY <1>2, <1>3, <3>2, <5>3, <6>2
            <6> QED BY <6>1, <6>2
          <5> QED BY <1>1, <3>2, <5>1, <5>3
        <4> QED BY <4>1, <4>2
      <3>7. BoundOK(n)'
        BY <3>6, Zenon DEF BoundOK
      <3>8. ASSUME NEW s, Apart(s, new), NEW p \in Nodes, Apart(s, layers[n][p])
            PROVE  Apart(s, layers'[n][p])
        <4>1. CASE p = d
          BY <1>3, <3>5, <3>8, <4>1
        <4>2. CASE p # d
          BY <1>2, <1>3, <3>8, <4>2
        <4> QED BY <4>1, <4>2
      <3>9. ASSUME NEW h \in Procs, Adding(h, n)'
            PROVE  /\ Drawn(seq'[n], job'[h].new)
                   /\ \A p \in Nodes : Apart(job'[h].new, layers'[n][p])
                   /\ \A e \in Procs : e # h /\ Adding(e, n)' => Apart(job'[h].new, job'[e].new)
        <4>1. h # g /\ Adding(h, n) /\ job'[h].new = job[h].new
          BY <2>2, <2>5, <3>9
        <4>2. /\ Drawn(seq[n], job[h].new)
              /\ \A p \in Nodes : Apart(job[h].new, layers[n][p])
              /\ \A e \in Procs : e # h /\ Adding(e, n) => Apart(job[h].new, job[e].new)
          BY <2>1, <2>5, <4>1, Zenon DEF AddOK
        <4>3. Apart(job[h].new, new)
          BY <3>1, <4>1, ApartSym
        <4>4. \A p \in Nodes : Apart(job[h].new, layers'[n][p])
          BY <3>8, <4>2, <4>3
        <4>5. \A e \in Procs : e # h /\ Adding(e, n)' => Apart(job'[h].new, job'[e].new)
          BY <2>2, <2>5, <4>1, <4>2, Zenon
        <4> QED BY <1>1, <4>1, <4>2, <4>4, <4>5
      <3>10. AddOK(n)'
        BY <3>9, Zenon DEF AddOK
      <3>11. ASSUME NEW h \in Procs, Following(h, n)'
             PROVE  /\ \A p \in Nodes : Drawn(seq'[n], layers'[job'[h].to][p])
                    /\ \A p, q \in Nodes : p # q =>
                          /\ Apart(layers'[job'[h].to][p], layers'[job'[h].to][q])
                          /\ Apart(layers'[job'[h].to][p], layers'[n][q])
                    /\ \A p \in Nodes, e \in Procs : Adding(e, n)' =>
                          Apart(job'[e].new, layers'[job'[h].to][p])
        <4> DEFINE c == job[h].to
        <4>1. /\ Following(h, n) /\ job'[h].to = c
              /\ \A q \in Nodes : layers'[c][q] = layers[c][q]
          BY <2>3, <2>5, <3>11
        <4>2. /\ \A p \in Nodes : Drawn(seq[n], layers[c][p])
              /\ \A p, q \in Nodes : p # q =>
                    Apart(layers[c][p], layers[c][q]) /\ Apart(layers[c][p], layers[n][q])
              /\ \A p \in Nodes, e \in Procs : Adding(e, n) => Apart(job[e].new, layers[c][p])
          BY <2>1, <2>5, <4>1, Zenon DEF FollowOK
        <4> HIDE DEF c
        <4>3. \A p \in Nodes : Apart(layers[c][p], new)
          <5>1. \A p \in Nodes : Apart(new, layers[c][p])
            BY <1>0, <3>1, <4>2
          <5> QED BY <5>1, ApartSym
        <4>4. ASSUME NEW p \in Nodes, NEW q \in Nodes, p # q
              PROVE  /\ Apart(layers'[c][p], layers'[c][q])
                     /\ Apart(layers'[c][p], layers'[n][q])
          <5>1. Apart(layers[c][p], layers[c][q]) /\ Apart(layers[c][p], layers[n][q])
            BY <4>2, <4>4, Zenon
          <5>2. Apart(layers[c][p], layers'[n][q])
            BY <3>8, <4>3, <5>1
          <5> QED BY <4>1, <5>1, <5>2
        <4>5. ASSUME NEW p \in Nodes, NEW e \in Procs, Adding(e, n)'
              PROVE  Apart(job'[e].new, layers'[c][p])
          <5>1. Adding(e, n) /\ job'[e].new = job[e].new
            BY <2>2, <2>5, <4>5
          <5> QED BY <4>1, <4>2, <5>1
        <4>6. \A p \in Nodes : Drawn(seq'[n], layers'[c][p])
          BY <1>1, <4>1, <4>2
        <4> QED BY <4>1, <4>4, <4>5, <4>6, Zenon
      <3>12. FollowOK(n)'
        BY <3>11, Zenon DEF FollowOK
      <3> QED BY <2>5, <3>7, <3>10, <3>12
    <2> QED BY <2>4, <2>5
  <1> QED BY <1>1, <1>7, <1>9 DEF Numbers

\* Writing to the log draws none.
LEMMA RecordNumbers ==
    ASSUME TypeInv, Numbers, NEW g \in Procs, record(g)
    PROVE  Numbers'
  <1>1. /\ UNCHANGED <<layers, seq, live, outrun>> /\ pc'[g] = "idle"
        /\ \A h \in Procs : h # g => pc'[h] = pc[h] /\ job'[h] = job[h]
    BY RecordType
  <1>2. \A h \in Procs : (pc'[h] = "add" \/ Cloning(h)') => h # g
    BY <1>1 DEF Cloning
  <1>3. /\ \A h \in Procs : pc'[h] = "add" => pc[h] = "add" /\ job'[h] = job[h]
        /\ \A h \in Procs : Cloning(h)' => Cloning(h) /\ job'[h] = job[h]
    BY <1>1, <1>2 DEF Cloning
  <1> QED BY <1>1, <1>3, NumbersKept

\* A clone takes the layers of one node with the numbers they have now, which no
\* node it has copied had.
LEMMA CloneNodeNumbers ==
    ASSUME TypeInv, Numbers, NEW g \in Procs, NEW p \in Nodes, cloneNode(g, p)
    PROVE  Numbers'
  <1>0. PICK n, c : n = job[g].ns /\ c = job[g].to
    OBVIOUS
  <1>1. /\ Cloning(g)
        /\ \A m \in Namespaces, q \in Nodes :
              layers'[m][q] = IF m = c /\ q = p THEN layers[n][p] ELSE layers[m][q]
        /\ job'[g].ns = n /\ job'[g].to = c /\ job'[g].seq = job[g].seq
        /\ pc'[g] = IF tree[n] = job[g].copied \cup {p} THEN "fix" ELSE "copy"
        /\ \A h \in Procs : h # g => pc'[h] = pc[h] /\ job'[h] = job[h]
        /\ UNCHANGED <<seq, live, outrun>>
    <2> DEFINE a == job[g].ns
               b == job[g].to
    <2>1. /\ TypeInv' /\ Cloning(g) /\ p \in tree[a]
          /\ \A m \in Namespaces, q \in Nodes :
                layers'[m][q] = IF m = b /\ q = p THEN layers[a][p] ELSE layers[m][q]
          /\ \A m \in Namespaces : m # b => tree'[m] = tree[m]
          /\ job'[g] = [job[g] EXCEPT !.copied = @ \cup {p}]
          /\ job'[g].ns = a /\ job'[g].to = b /\ job'[g].copied = job[g].copied \cup {p}
          /\ job'[g].seq = job[g].seq /\ job'[g].new = <<>>
          /\ pc'[g] = IF tree[a] = job[g].copied \cup {p} THEN "fix" ELSE "copy"
          /\ \A h \in Procs : h # g => pc'[h] = pc[h] /\ job'[h] = job[h]
          /\ UNCHANGED <<seq, log, dropped, live, raced, outrun>>
      BY CloneNodeType, Zenon
    <2>2. a = n /\ b = c
      BY <1>0
    <2> HIDE DEF a, b
    <2> QED BY <2>1, <2>2
  <1>2. /\ n \in live /\ n \in Namespaces /\ c \in Namespaces /\ c \notin live
        /\ \A h \in Procs : h # g => ~Cloning(h)
    BY <1>0, <1>1, CloneApart
  <1>3. TypeOK /\ \A m \in Namespaces : seq[m] \in Nat /\ seq'[m] \in Nat /\ seq[m] <= seq'[m]
    BY <1>1 DEF TypeInv, TypeOK
  <1>4. pc'[g] # "add" /\ \A h \in Procs : h # g => ~Cloning(h)'
    BY <1>1, <1>2 DEF Cloning
  <1>5. Behind'
    BY <1>0, <1>1, <1>4 DEF Behind, Numbers
  <1>6. layers'[c][p] = layers[n][p] /\ \A q \in Nodes : q # p => layers'[c][q] = layers[c][q]
    BY <1>1, <1>2
  <1>7. \A m \in live, q \in Nodes : layers'[m][q] = layers[m][q]
    BY <1>1, <1>2, <1>3 DEF TypeOK
  <1>8. ASSUME NEW m \in live \ outrun PROVE BoundOK(m)' /\ AddOK(m)' /\ FollowOK(m)'
    <2>1. m \in Namespaces /\ BoundOK(m) /\ AddOK(m) /\ FollowOK(m)
      BY <1>3 DEF Numbers, TypeOK
    <2>2. \A h \in Procs : Adding(h, m)' => h # g /\ Adding(h, m) /\ job'[h].new = job[h].new
      BY <1>1, <1>4 DEF Adding
    <2>3. \A q \in Nodes : layers'[m][q] = layers[m][q]
      BY <1>7
    <2>4. BoundOK(m)' /\ AddOK(m)'
      BY <1>3, <2>1, <2>2, <2>3, HeldKept
    <2>5. ASSUME NEW h \in Procs, Following(h, m)'
          PROVE  /\ \A a \in Nodes : Drawn(seq'[m], layers'[job'[h].to][a])
                 /\ \A a, b \in Nodes : a # b =>
                       /\ Apart(layers'[job'[h].to][a], layers'[job'[h].to][b])
                       /\ Apart(layers'[job'[h].to][a], layers'[m][b])
                 /\ \A a \in Nodes, e \in Procs : Adding(e, m)' =>
                       Apart(job'[e].new, layers'[job'[h].to][a])
      <3>1. h = g
        BY <1>4, <2>5 DEF Following
      <3>2. m = n /\ Following(g, m) /\ job'[g].to = c /\ job[g].to = c
        BY <1>0, <1>1, <2>5, <3>1 DEF Following
      <3>3. /\ \A a \in Nodes : Drawn(seq[m], layers[c][a])
            /\ \A a, b \in Nodes : a # b =>
                  Apart(layers[c][a], layers[c][b]) /\ Apart(layers[c][a], layers[m][b])
            /\ \A a \in Nodes, e \in Procs : Adding(e, m) => Apart(job[e].new, layers[c][a])
        BY <2>1, <3>2, Zenon DEF FollowOK
      <3>4. /\ \A a \in Nodes : Drawn(seq[m], layers[m][a])
            /\ \A a, b \in Nodes : a # b => Apart(layers[m][a], layers[m][b])
        BY <2>1, Zenon DEF BoundOK
      <3>5. \A e \in Procs : Adding(e, m)' =>
               /\ job'[e].new = job[e].new /\ Adding(e, m)
               /\ \A a \in Nodes : Apart(job[e].new, layers[m][a])
        BY <2>1, <2>2, Zenon DEF AddOK
      <3>6. layers'[c][p] = layers[m][p]
        BY <1>6, <3>2
      <3>7. \A a \in Nodes : Drawn(seq'[m], layers'[c][a])
        BY <1>1, <1>6, <3>3, <3>4, <3>6
      <3>8. ASSUME NEW a \in Nodes, NEW b \in Nodes, a # b
            PROVE  /\ Apart(layers'[c][a], layers'[c][b])
                   /\ Apart(layers'[c][a], layers'[m][b])
        <4>1. CASE a = p
          <5>1. layers'[c][a] = layers[m][a] /\ layers'[c][b] = layers[c][b]
            BY <1>6, <3>6, <3>8, <4>1
          <5>2. Apart(layers[c][b], layers[m][a]) /\ Apart(layers[m][a], layers[m][b])
            BY <3>3, <3>4, <3>8, Zenon
          <5>3. Apart(layers[m][a], layers[c][b])
            BY <5>2, ApartSym
          <5> QED BY <2>3, <5>1, <5>2, <5>3
        <4>2. CASE a # p
          <5>1. layers'[c][a] = layers[c][a]
            BY <1>6, <4>2
          <5>2. Apart(layers[c][a], layers[c][b]) /\ Apart(layers[c][a], layers[m][b])
            BY <3>3, <3>8, Zenon
          <5>3. layers'[c][b] = layers[c][b] \/ layers'[c][b] = layers[m][b]
            BY <1>6, <3>6
          <5> QED BY <2>3, <5>1, <5>2, <5>3
        <4> QED BY <4>1, <4>2
      <3>9. ASSUME NEW a \in Nodes, NEW e \in Procs, Adding(e, m)'
            PROVE  Apart(job'[e].new, layers'[c][a])
        <4>1. layers'[c][a] = layers[c][a] \/ layers'[c][a] = layers[m][a]
          BY <1>6, <3>6
        <4> QED BY <3>3, <3>5, <3>9, <4>1
      <3> QED BY <3>1, <3>2, <3>7, <3>8, <3>9, Zenon
    <2>6. FollowOK(m)'
      BY <2>5, Zenon DEF FollowOK
    <2> QED BY <2>4, <2>6
  <1> QED BY <1>1, <1>5, <1>8 DEF Numbers

\* A clone that was not outrun has the numbers its counter has given out.
LEMMA CloneFinishNumbers ==
    ASSUME TypeInv, Numbers, NEW g \in Procs, cloneFinish(g)
    PROVE  Numbers'
  <1>0. PICK n, c : n = job[g].ns /\ c = job[g].to
    OBVIOUS
  <1>1. /\ Cloning(g) /\ live' = live \cup {c}
        /\ \A m \in Namespaces, q \in Nodes : m # c => layers'[m][q] = layers[m][q]
        /\ \A q \in Nodes :
              /\ DOMAIN layers'[c][q] = DOMAIN layers[c][q]
              /\ \A i \in DOMAIN layers[c][q] : layers'[c][q][i].seq = layers[c][q][i].seq
        /\ \A m \in Namespaces : m # c => seq'[m] = seq[m]
        /\ seq'[c] = job[g].seq
        /\ outrun' = (IF n \in outrun \/ seq[n] # job[g].seq THEN outrun \cup {c} ELSE outrun)
        /\ pc'[g] = "idle"
        /\ \A h \in Procs : h # g => pc'[h] = pc[h] /\ job'[h] = job[h]
    BY <1>0, CloneFinishType
  <1>2. /\ n \in live /\ n \in Namespaces /\ c \in Namespaces /\ c \notin live
        /\ \A h \in Procs : h # g => ~Cloning(h)
    BY <1>0, <1>1, CloneApart
  <1>3. TypeOK /\ \A m \in Namespaces : seq[m] \in Nat
    BY DEF TypeInv, TypeOK
  <1>4. pc'[g] # "add" /\ \A h \in Procs : ~Cloning(h)'
    BY <1>1, <1>2 DEF Cloning
  <1>5. Behind'
    BY <1>4 DEF Behind
  <1>6. \A h \in Procs : pc[h] = "add" => job[h].ns # c
    <2> SUFFICES ASSUME NEW h \in Procs, pc[h] = "add" PROVE job[h].ns # c
      OBVIOUS
    <2>1. JobOK(h)
      BY DEF TypeInv
    <2>2. job[h].ns \in live
      BY <2>1 DEF JobOK
    <2> QED BY <1>2, <2>2
  <1>7. \A m : FollowOK(m)'
    BY <1>4, Zenon DEF FollowOK, Following
  <1>8. ASSUME NEW m \in live \ outrun PROVE BoundOK(m)' /\ AddOK(m)'
    <2>1. m \in Namespaces /\ m # c /\ BoundOK(m) /\ AddOK(m)
      BY <1>2, <1>3 DEF Numbers, TypeOK
    <2>2. \A h \in Procs : Adding(h, m)' => Adding(h, m) /\ job'[h].new = job[h].new
      BY <1>1, <1>4 DEF Adding
    <2>3. seq'[m] = seq[m] /\ seq[m] \in Nat /\ seq[m] <= seq[m]
      BY <1>1, <1>3, <2>1
    <2>4. \A q \in Nodes : layers'[m][q] = layers[m][q]
      BY <1>1, <2>1
    <2> QED BY <2>1, <2>2, <2>3, <2>4, HeldKept
  <1>9. ASSUME c \notin outrun' PROVE BoundOK(c)' /\ AddOK(c)'
    <2>1. n \notin outrun /\ seq[n] = job[g].seq
      BY <1>1, <1>9
    <2>2. Following(g, n) /\ FollowOK(n) /\ seq'[c] = seq[n] /\ job[g].to = c
      BY <1>0, <1>1, <1>2, <2>1 DEF Following, Numbers
    <2>3. /\ \A p \in Nodes : Drawn(seq[n], layers[c][p])
          /\ \A p, q \in Nodes : p # q => Apart(layers[c][p], layers[c][q])
      BY <2>2, Zenon DEF FollowOK
    <2>4. \A p \in Nodes : nums(layers'[c][p]) = nums(layers[c][p])
      BY <1>1 DEF nums
    <2>5. ASSUME NEW p \in Nodes PROVE Drawn(seq'[c], layers'[c][p])
      <3>1. /\ \A i, j \in DOMAIN layers[c][p] : layers[c][p][i].seq = layers[c][p][j].seq => i = j
            /\ \A x \in nums(layers[c][p]) : x \in 1..seq[n]
        BY <2>3 DEF Drawn
      <3>2. \A i, j \in DOMAIN layers'[c][p] : layers'[c][p][i].seq = layers'[c][p][j].seq => i = j
        BY <1>1, <3>1
      <3> QED BY <2>2, <2>4, <3>1, <3>2 DEF Drawn
    <2>6. \A p, q \in Nodes : p # q => Apart(layers'[c][p], layers'[c][q])
      BY <2>3, <2>4 DEF Apart
    <2>7. BoundOK(c)'
      BY <2>5, <2>6, Zenon DEF BoundOK
    <2>8. \A h \in Procs : ~Adding(h, c)'
      BY <1>1, <1>4, <1>6 DEF Adding
    <2>9. AddOK(c)'
      BY <2>8, Zenon DEF AddOK
    <2> QED BY <2>7, <2>9
  <1>10. ASSUME NEW m \in live' \ outrun' PROVE BoundOK(m)' /\ AddOK(m)' /\ FollowOK(m)'
    <2>1. m = c \/ m \in live \ outrun
      BY <1>1
    <2> QED BY <1>7, <1>8, <1>9, <1>10, <2>1
  <1> QED BY <1>5, <1>10 DEF Numbers

\* At first there are none.
LEMMA InitNumbers == Init => Numbers
  <1> SUFFICES ASSUME Init PROVE Numbers
    OBVIOUS
  <1>1. /\ layers = [n \in Namespaces |-> [p \in Nodes |-> <<>>]]
        /\ live = {1} /\ pc = [g \in Procs |-> "idle"]
    BY DEF Init
  <1>2. 1 \in Namespaces
    BY BoundsAssumption DEF Namespaces
  <1>3. \A p \in Nodes : layers[1][p] = <<>>
    BY <1>1, <1>2
  <1>4. \A g \in Procs : pc[g] # "add" /\ ~Cloning(g)
    BY <1>1 DEF Cloning
  <1>5. BoundOK(1)
    BY <1>3, NoNumbers, Zenon DEF BoundOK
  <1>6. AddOK(1) /\ FollowOK(1) /\ Behind
    BY <1>4, Zenon DEF AddOK, FollowOK, Behind, Adding, Following
  <1> QED BY <1>1, <1>5, <1>6 DEF Numbers

\* And every step keeps them so.
LEMMA NumbersNext == TypeInv /\ Numbers /\ [Next]_vars => Numbers'
  <1> SUFFICES ASSUME TypeInv, Numbers, [Next]_vars PROVE Numbers'
    OBVIOUS
  <1>0. TypeOK
    BY DEF TypeInv
  <1>1. ASSUME NEW g \in Procs, NEW n \in Namespaces, NEW r \in Requests,
               BindFS(g, n, r) \/ BindPath(g, n, r)
        PROVE  Numbers'
    <2>1. PICK new : Binding(g, n, r.dst, r.disp, new, r.ro)
      BY <1>0, <1>1, BindFSBinds, BindPathBinds, Zenon
    <2> QED BY <2>1, BindingNumbers
  <1>2. ASSUME NEW g \in Procs, NEW n \in Namespaces, NEW r \in Requests, BindPathFails(g, n, r)
        PROVE  Numbers'
    BY <1>2, BindPathFailsNumbers
  <1>3. ASSUME NEW g \in Procs, NEW n \in Namespaces, NEW r \in Requests, Unbind(g, n, r)
        PROVE  Numbers'
    BY <1>3, UnbindNumbers
  <1>4. ASSUME NEW g \in Procs, NEW n \in Namespaces, cloneSeq(g, n)
        PROVE  Numbers'
    BY <1>4, CloneSeqNumbers
  <1>5. ASSUME NEW g \in Procs, addLayers(g) PROVE Numbers'
    BY <1>5, AddLayersNumbers
  <1>6. ASSUME NEW g \in Procs, record(g) PROVE Numbers'
    BY <1>6, RecordNumbers
  <1>7. ASSUME NEW g \in Procs, cloneFinish(g) PROVE Numbers'
    BY <1>7, CloneFinishNumbers
  <1>8. ASSUME NEW g \in Procs, NEW p \in Nodes, cloneNode(g, p) PROVE Numbers'
    BY <1>8, CloneNodeNumbers
  <1>9. CASE (\E x \in Flaky : flip(x)) \/ UNCHANGED vars
    <2>1. UNCHANGED <<layers, seq, live, outrun, pc, job>>
      BY <1>9 DEF flip, vars, nsVars, procVars
    <2>2. \A h \in Procs : Cloning(h)' <=> Cloning(h)
      BY <2>1 DEF Cloning
    <2> QED BY <2>1, <2>2, NumbersKept
  <1> QED BY <1>1, <1>2, <1>3, <1>4, <1>5, <1>6, <1>7, <1>8, <1>9, Zenon DEF Next, Call

\* A dev (layer.dev, a uint32) is never given to two layers of a namespace, nor to
\* one when it stands for none, whatever binds, unbinds and clones overlap; but for
\* a clone that gave out numbers its original had given out meanwhile, and until
\* the counter has passed 32 bits.
THEOREM DevsNeverReused == Spec => []DevNeverReused
  <1>1. TypeInv /\ Numbers => DevNeverReused
    <2> SUFFICES ASSUME TypeInv, Numbers, NEW n \in live \ outrun, seq[n] < DevRange
                 PROVE  DevsApart(n) /\ DevsGiven(n)
      BY DEF DevNeverReused
    <2>1. BoundOK(n)
      BY DEF Numbers
    <2>2. \A p \in Nodes : \A i \in DOMAIN layers[n][p] : layers[n][p][i].seq \in 1..seq[n]
      BY <2>1 DEF BoundOK, Drawn, nums
    <2>3. \A x \in 1..seq[n] : x % DevRange = x
      <3>1. seq[n] \in Nat /\ DevRange \in Nat \ {0}
        BY BoundsAssumption DEF TypeInv, TypeOK
      <3>2. ASSUME NEW x \in Nat, NEW r \in Nat \ {0}, x < r PROVE x % r = x
        BY <3>2
      <3> QED BY <3>1, <3>2
    <2>4. ASSUME NEW p \in Nodes, NEW i \in DOMAIN layers[n][p], layers[n][p][i].fs # NoFS
          PROVE  dev(layers[n][p][i]) = layers[n][p][i].seq
      BY <2>2, <2>3, <2>4, Zenon DEF dev
    <2>5. ASSUME NEW p \in Nodes, NEW q \in Nodes,
                 NEW i \in DOMAIN layers[n][p], NEW k \in DOMAIN layers[n][q],
                 layers[n][p][i].seq = layers[n][q][k].seq
          PROVE  p = q /\ i = k
      <3>1. CASE p = q
        BY <2>1, <2>5, <3>1 DEF BoundOK, Drawn
      <3>2. CASE p # q
        <4>1. Apart(layers[n][p], layers[n][q])
          BY <2>1, <3>2 DEF BoundOK
        <4> QED BY <2>5, <4>1 DEF Apart, nums
      <3> QED BY <3>1, <3>2
    <2>6. DevsApart(n)
      <3> SUFFICES ASSUME NEW p \in Nodes, NEW q \in Nodes,
                          NEW i \in DOMAIN layers[n][p], NEW k \in DOMAIN layers[n][q],
                          layers[n][p][i].fs # NoFS, layers[n][q][k].fs # NoFS,
                          dev(layers[n][p][i]) = dev(layers[n][q][k])
                   PROVE  p = q /\ i = k
        BY ZenonT(60) DEF DevsApart
      <3>1. layers[n][p][i].seq = layers[n][q][k].seq
        BY <2>4
      <3> QED BY <2>5, <3>1
    <2>7. DevsGiven(n)
      BY <2>2, <2>4, Zenon DEF DevsGiven
    <2> QED BY <2>6, <2>7
  <1>2. Inv => TypeInv
    BY DEF Inv
  <1> QED BY <1>1, <1>2, InitNumbers, NumbersNext, InvInvariant, PTL DEF Spec

-----------------------------------------------------------------------------
(***************************************************************************)
(* Walking on, from the same file however it was come by.                  *)
(***************************************************************************)

\* One file, whatever wraps it.
Same(x, y) == x.fs = y.fs /\ x.ns = y.ns /\ x.path = y.path

\* An error is no file.
LEMMA SameOk ==
    ASSUME NEW x \in Walked, NEW y \in Walked, Same(x, y)
    PROVE  /\ ok(x) <=> ok(y)
           /\ x \in NodeFiles <=> y \in NodeFiles
           /\ x \in FSFiles <=> y \in FSFiles
  <1>1. NoFile.fs = NoFS /\ NoFile.ns = 0 /\ 0 \notin Namespaces
    BY DEF NoFile, NodeFile, Namespaces
  <1>2. ASSUME NEW w \in Walked
        PROVE  \/ w \in NodeFiles /\ w \notin FSFiles /\ w # NoFile /\ w.fs = NoFS /\ w.ns # 0
               \/ w \in FSFiles /\ w \notin NodeFiles /\ w # NoFile /\ w.fs # NoFS
               \/ w = NoFile /\ w \notin NodeFiles /\ w \notin FSFiles /\ w.fs = NoFS /\ w.ns = 0
    <2>1. \/ w \in NodeFiles \/ w \in FSFiles \/ w = NoFile
      BY DEF Walked, File
    <2> QED BY <1>1, <2>1, FileKinds, Zenon DEF File
  <1> QED BY <1>2, Zenon DEF Same, ok

\* One level of walking finds the same from the same node.
LEMMA WalkNodeSame ==
    ASSUME TypeOK, NEW inner \in Walking, NEW f \in NodeFiles, NEW h \in NodeFiles, Same(f, h),
           NEW x \in Names
    PROVE  /\ Same(walkNode(inner, f, x), walkNode(inner, h, x))
           /\ walkNode(inner, f, x).dev = walkNode(inner, h, x).dev
  <1>1. f.ns = h.ns /\ f.path = h.path /\ f.dev = 0 /\ h.dev = 0
    BY FileKinds, Zenon DEF Same
  <1>2. CASE Append(f.path, x) \in tree[f.ns]
    <2>1. /\ walkNode(inner, f, x) = [f EXCEPT !.path = Append(@, x)]
          /\ walkNode(inner, h, x) = [h EXCEPT !.path = Append(@, x)]
      BY <1>1, <1>2 DEF walkNode
    <2>2. /\ [f EXCEPT !.path = Append(@, x)].fs = f.fs
          /\ [f EXCEPT !.path = Append(@, x)].ns = f.ns
          /\ [f EXCEPT !.path = Append(@, x)].path = Append(f.path, x)
          /\ [f EXCEPT !.path = Append(@, x)].dev = f.dev
          /\ [h EXCEPT !.path = Append(@, x)].fs = h.fs
          /\ [h EXCEPT !.path = Append(@, x)].ns = h.ns
          /\ [h EXCEPT !.path = Append(@, x)].path = Append(h.path, x)
          /\ [h EXCEPT !.path = Append(@, x)].dev = h.dev
      BY DEF NodeFiles
    <2> QED BY <1>1, <2>1, <2>2 DEF Same
  <1>3. CASE Append(f.path, x) \notin tree[f.ns]
    <2> DEFINE ls  == layers[f.ns][f.path]
               got == gotWalks(inner, f, x)
               i   == SelectInSeq(got, ok)
    <2>1. walkNode(inner, f, x) = IF i = 0 THEN NoFile ELSE through(f, ls[i], got[i])
      BY <1>3, Zenon DEF walkNode, gotWalks
    <2>2. walkNode(inner, h, x) = IF i = 0 THEN NoFile ELSE through(h, ls[i], got[i])
      <3>1. layers[h.ns][h.path] = ls /\ gotWalks(inner, h, x) = got
        BY <1>1 DEF gotWalks
      <3>2. Append(h.path, x) \notin tree[h.ns]
        BY <1>1, <1>3
      <3> DEFINE hs == layers[h.ns][h.path]
                 hot == gotWalks(inner, h, x)
                 k == SelectInSeq(hot, ok)
      <3>3. walkNode(inner, h, x) = IF k = 0 THEN NoFile ELSE through(h, hs[k], hot[k])
        BY <3>2, Zenon DEF walkNode, gotWalks
      <3> QED BY <3>1, <3>3
    <2>3. /\ got \in Seq(Walked) /\ DOMAIN got = DOMAIN ls /\ DOMAIN got = 1..Len(got)
          /\ \A k \in DOMAIN ls : ls[k].fs # NoFS => got[k] \in FSFiles \cup {NoFile}
      BY GotWalksType, Zenon
    <2>4. \/ i = 0 /\ \A j \in 1..Len(got) : ~ok(got[j])
          \/ /\ i \in 1..Len(got) /\ ok(got[i])
             /\ \A j \in 1..(i - 1) : ~ok(got[j])
      <3> HIDE DEF got
      <3> QED BY <2>3, FirstOk, Zenon
    <2> HIDE DEF ls, got, i
    <2>5. CASE i = 0
      BY <2>1, <2>2, <2>5 DEF Same
    <2>6. CASE i # 0
      <3>1. got[i] \in Walked
        BY <2>3, <2>4, <2>6
      <3>2. got[i] \in File
        BY <2>4, <2>6, <3>1 DEF ok, Walked
      <3>3. /\ Same(through(f, ls[i], got[i]), through(h, ls[i], got[i]))
            /\ through(f, ls[i], got[i]).dev = through(h, ls[i], got[i]).dev
        BY <3>2 DEF through, Same, File, NodeFiles, FSFiles
      <3> QED BY <2>1, <2>2, <2>6, <3>3
    <2> QED BY <2>5, <2>6
  <1> QED BY <1>2, <1>3

\* A walk at some level of the recursion.
LEMMA WalksIs ==
    ASSUME TypeOK, NEW d \in 0..Depth, NEW f \in File, NEW x \in Names
    PROVE  LET inner == IF d = 0 THEN noWalk ELSE Walks[d - 1]
           IN  /\ inner \in Walking /\ Walks[d] \in Walking /\ Walks[d][f][x] \in Walked
               /\ f \in FSFiles => Walks[d][f][x] = walkFS(f, x)
               /\ f \in NodeFiles => Walks[d][f][x] = walkNode(inner, f, x)
  <1> DEFINE inner == IF d = 0 THEN noWalk ELSE Walks[d - 1]
  <1>1. inner \in Walking /\ Walks[d] \in Walking /\ Walks[d] = walkStep(inner)
    BY WalksAre, Zenon
  <1> HIDE DEF inner
  <1>2. Walks[d][f][x] \in Walked
    BY <1>1 DEF Walking
  <1>3. Walks[d][f][x] = IF f.fs # NoFS THEN walkFS(f, x) ELSE walkNode(inner, f, x)
    BY <1>1 DEF walkStep
  <1> QED BY <1>1, <1>2, <1>3, FileKinds, Zenon DEF inner

\* From the same file, the same file.
LEMMA WalkSame ==
    ASSUME TypeOK, NEW f \in Walked, NEW h \in Walked, Same(f, h), NEW x \in Names
    PROVE  /\ Same(Walk(f, x), Walk(h, x))
           /\ f.dev = h.dev => Walk(f, x).dev = Walk(h, x).dev
  <1>0. Depth \in 0..Depth
    BY DepthNat
  <1>1. CASE ~ok(f)
    <2>1. ~ok(h)
      BY <1>1, SameOk
    <2> QED BY <1>1, <2>1 DEF Walk, Same
  <1>2. CASE f \in FSFiles
    <2>1. h \in FSFiles /\ f \in File /\ h \in File /\ ok(f) /\ ok(h)
      BY <1>2, SameOk, FileKinds DEF File, ok
    <2>2. Walk(f, x) = walkFS(f, x) /\ Walk(h, x) = walkFS(h, x)
      BY <1>0, <1>2, <2>1, WalksIs, Zenon DEF Walk
    <2>3. f.fs = h.fs /\ f.ns = h.ns /\ f.path = h.path
      BY DEF Same
    <2>4. CASE f.fs \in dead \/ Append(f.path, x) \notin Content[f.fs]
      BY <2>2, <2>3, <2>4 DEF walkFS, Same
    <2>5. CASE ~(f.fs \in dead \/ Append(f.path, x) \notin Content[f.fs])
      <3>1. Walk(f, x) = [f EXCEPT !.path = Append(@, x)] /\ Walk(h, x) = [h EXCEPT !.path = Append(@, x)]
        BY <2>2, <2>3, <2>5 DEF walkFS
      <3> QED BY <1>2, <2>1, <2>3, <3>1 DEF FSFiles, Same
    <2> QED BY <2>4, <2>5
  <1>3. CASE f \in NodeFiles
    <2>1. h \in NodeFiles /\ f \in File /\ h \in File /\ ok(f) /\ ok(h)
      BY <1>3, SameOk, FileKinds DEF File, ok
    <2> DEFINE inner == IF Depth = 0 THEN noWalk ELSE Walks[Depth - 1]
    <2>2. /\ Walk(f, x) = walkNode(inner, f, x) /\ Walk(h, x) = walkNode(inner, h, x)
          /\ inner \in Walking
      BY <1>0, <1>3, <2>1, WalksIs, Zenon DEF Walk
    <2> HIDE DEF inner
    <2> QED BY <1>3, <2>1, <2>2, WalkNodeSame
  <1> QED BY <1>1, <1>2, <1>3 DEF Walked, File, ok

\* What is read-only stays so on the way down.
LEMMA WalkNodeRO ==
    ASSUME TypeOK, NEW inner \in Walking, NEW f \in NodeFiles, NEW x \in Names,
           ok(walkNode(inner, f, x))
    PROVE  f.ro => walkNode(inner, f, x).ro
  <1>1. CASE Append(f.path, x) \in tree[f.ns]
    <2>1. walkNode(inner, f, x) = [f EXCEPT !.path = Append(@, x)]
      BY <1>1 DEF walkNode
    <2> QED BY <2>1, SMTT(40) DEF NodeFiles
  <1>2. CASE Append(f.path, x) \notin tree[f.ns]
    <2> DEFINE ls  == layers[f.ns][f.path]
               got == gotWalks(inner, f, x)
               i   == SelectInSeq(got, ok)
    <2>1. walkNode(inner, f, x) = IF i = 0 THEN NoFile ELSE through(f, ls[i], got[i])
      BY <1>2, Zenon DEF walkNode, gotWalks
    <2>2. /\ got \in Seq(Walked) /\ DOMAIN got = DOMAIN ls /\ DOMAIN got = 1..Len(got)
          /\ \A k \in DOMAIN ls : ls[k].fs # NoFS => got[k] \in FSFiles \cup {NoFile}
      BY GotWalksType, Zenon
    <2>3. \/ i = 0 /\ \A j \in 1..Len(got) : ~ok(got[j])
          \/ /\ i \in 1..Len(got) /\ ok(got[i])
             /\ \A j \in 1..(i - 1) : ~ok(got[j])
      <3> HIDE DEF got
      <3> QED BY <2>2, FirstOk, Zenon
    <2> HIDE DEF ls, got, i
    <2>4. i # 0 /\ i \in 1..Len(got) /\ ok(got[i]) /\ walkNode(inner, f, x) = through(f, ls[i], got[i])
      BY <2>1, <2>3 DEF ok
    <2>5. got[i] \in File
      BY <2>2, <2>4 DEF ok, Walked
    <2>6. f.ro => through(f, ls[i], got[i]).ro
      BY <2>5 DEF through, File, NodeFiles, FSFiles
    <2> QED BY <2>4, <2>6
  <1> QED BY <1>1, <1>2

\* In FileSystems too, at every level of the recursion.
LEMMA WalksRO ==
    ASSUME TypeOK, NEW d \in 0..Depth, NEW f \in File, f.ro, NEW x \in Names, ok(Walks[d][f][x])
    PROVE  Walks[d][f][x].ro
  <1> DEFINE inner == IF d = 0 THEN noWalk ELSE Walks[d - 1]
             w == Walks[d][f][x]
  <1>1. /\ inner \in Walking /\ w \in Walked
        /\ f \in FSFiles => w = walkFS(f, x)
        /\ f \in NodeFiles => w = walkNode(inner, f, x)
    BY WalksIs, Zenon
  <1>2. ok(w)
    OBVIOUS
  <1> HIDE DEF inner, w
  <1>3. CASE f \in FSFiles
    <2>1. w = [f EXCEPT !.path = Append(@, x)]
      BY <1>1, <1>2, <1>3 DEF walkFS, ok
    <2> QED BY <1>3, <2>1 DEF FSFiles, w
  <1>4. CASE f \in NodeFiles
    <2>1. inner \in Walking /\ w = walkNode(inner, f, x)
      BY <1>1, <1>4
    <2>2. w.ro
      BY <1>2, <1>4, <2>1, WalkNodeRO
    <2> QED BY <2>2 DEF w
  <1> QED BY <1>3, <1>4 DEF File

\* A walk inside a FileSystem stays in it, with the dev it has.
LEMMA WalkFSDev ==
    ASSUME TypeOK, NEW f \in FSFiles, NEW x \in Names
    PROVE  /\ Walk(f, x) \in FSFiles \cup {NoFile}
           /\ ok(Walk(f, x)) => Walk(f, x).dev = f.dev /\ Walk(f, x).path = Append(f.path, x)
                                /\ Walk(f, x).fs = f.fs
  <1>0. Depth \in 0..Depth
    BY DepthNat
  <1>1. f \in File /\ ok(f)
    BY FileKinds DEF File, ok
  <1>2. Walk(f, x) = walkFS(f, x)
    BY <1>0, <1>1, WalksIs, Zenon DEF Walk
  <1>3. walkFS(f, x) \in FSFiles \cup {NoFile}
    BY WalkFSType
  <1>4. ok(walkFS(f, x)) => walkFS(f, x) = [f EXCEPT !.path = Append(@, x)]
    BY DEF walkFS, ok
  <1>5. /\ [f EXCEPT !.path = Append(@, x)].dev = f.dev
        /\ [f EXCEPT !.path = Append(@, x)].path = Append(f.path, x)
        /\ [f EXCEPT !.path = Append(@, x)].fs = f.fs
    BY DEF FSFiles
  <1> QED BY <1>2, <1>3, <1>4, <1>5

\* And so with read-only files.
LEMMA WalkRO ==
    ASSUME TypeOK, NEW f \in Walked, f.ro, NEW x \in Names, ok(Walk(f, x))
    PROVE  Walk(f, x).ro
  <1>1. Depth \in 0..Depth
    BY DepthNat
  <1>2. ok(f)
    BY DEF Walk, ok
  <1>3. f \in File
    BY <1>2 DEF Walked, ok
  <1>4. Walk(f, x) = Walks[Depth][f][x]
    BY <1>2 DEF Walk
  <1> QED BY <1>1, <1>3, <1>4, WalksRO

-----------------------------------------------------------------------------
(***************************************************************************)
(* Whole paths.                                                            *)
(***************************************************************************)

\* One name more is one walk more.
LEMMA WalkAllAppend ==
    ASSUME TypeOK, NEW f \in Walked, NEW parts \in Path, NEW x \in Names
    PROVE  walkAll(f, Append(parts, x)) = Walk(walkAll(f, parts), x)
  <1> DEFINE N == Len(parts)
             more == Append(parts, x)
  <1>1. /\ N \in Nat /\ more \in Path /\ Len(more) = N + 1 /\ more[N + 1] = x
        /\ \A i \in 1..N : more[i] = parts[i]
    BY DEF Path
  <1>2. PICK at \in [0..N -> Walked] :
           /\ walkAll(f, parts) = at[N]
           /\ at[0] = f
           /\ \A i \in 1..N : at[i] = Walk(at[i - 1], parts[i])
    BY WalkAllGoes, Zenon
  <1>3. PICK to \in [0..Len(more) -> Walked] :
           /\ walkAll(f, more) = to[Len(more)]
           /\ to[0] = f
           /\ \A i \in 1..Len(more) : to[i] = Walk(to[i - 1], more[i])
    <2> HIDE DEF more
    <2> QED BY <1>1, WalkAllGoes, Zenon
  <1> HIDE DEF N, more
  <1> DEFINE S == {i \in Nat : i \in 0..N => to[i] = at[i]}
  <1>4. 0 \in S
    BY <1>1, <1>2, <1>3
  <1>5. ASSUME NEW i \in 1..N, i - 1 \in S PROVE i \in S
    <2>1. i \in 1..Len(more) /\ i - 1 \in 0..N
      BY <1>1
    <2>2. to[i - 1] = at[i - 1]
      BY <1>5, <2>1
    <2>3. to[i] = Walk(to[i - 1], more[i]) /\ at[i] = Walk(at[i - 1], parts[i]) /\ more[i] = parts[i]
      BY <1>1, <1>2, <1>3, <2>1, Zenon
    <2>4. to[i] = at[i]
      BY <2>2, <2>3, Zenon
    <2> QED BY <2>4
  <1>6. 0..N \subseteq S
    <2>1. S \in SUBSET Nat
      OBVIOUS
    <2> HIDE DEF S
    <2> QED BY <1>1, <1>4, <1>5, <2>1, UpTo
  <1>7. to[N] = at[N]
    BY <1>1, <1>6
  <1>8. N + 1 \in 1..Len(more) /\ (N + 1) - 1 = N
    BY <1>1
  <1>9. to[N + 1] = Walk(to[N], more[N + 1])
    <2>1. to[N + 1] = Walk(to[(N + 1) - 1], more[N + 1])
      BY <1>3, <1>8, Zenon
    <2> QED BY <1>8, <2>1
  <1> QED BY <1>1, <1>2, <1>3, <1>7, <1>9, Zenon DEF more

\* What holds of the empty path, and with a path of one with a name more, holds
\* of every path.
LEMMA EveryPath ==
    ASSUME NEW S \in SUBSET Path, <<>> \in S,
           \A s \in S, x \in Names : Append(s, x) \in S
    PROVE  \A p \in Path : p \in S
  BY EverySeq, Zenon DEF Path

\* A path in two parts is walked one part after the other.
LEMMA WalkAllConcat ==
    ASSUME TypeOK, NEW f \in Walked, NEW s \in Path
    PROVE  \A t \in Path : walkAll(f, s \o t) = walkAll(walkAll(f, s), t)
  <1> DEFINE S == {t \in Path : walkAll(f, s \o t) = walkAll(walkAll(f, s), t)}
  <1>1. <<>> \in S
    <2>1. s \o <<>> = s /\ <<>> \in Path
      BY DEF Path
    <2>2. walkAll(walkAll(f, s), <<>>) = walkAll(f, s)
      BY WalkAllType
    <2> QED BY <2>1, <2>2
  <1>2. ASSUME NEW t \in S, NEW x \in Names PROVE Append(t, x) \in S
    <2>1. /\ t \in Path /\ Append(t, x) \in Path /\ s \o t \in Path
          /\ s \o Append(t, x) = Append(s \o t, x)
      BY DEF Path
    <2>2. walkAll(f, s \o t) = walkAll(walkAll(f, s), t)
      OBVIOUS
    <2>3. walkAll(f, s) \in Walked
      BY WalkAllType
    <2>4. walkAll(f, Append(s \o t, x)) = Walk(walkAll(f, s \o t), x)
      BY <2>1, WalkAllAppend
    <2>5. walkAll(walkAll(f, s), Append(t, x)) = Walk(walkAll(walkAll(f, s), t), x)
      BY <2>1, <2>3, WalkAllAppend
    <2> QED BY <2>1, <2>2, <2>4, <2>5
  <1>3. S \in SUBSET Path
    OBVIOUS
  <1>4. \A t \in Path : t \in S
    <2> HIDE DEF S
    <2> QED BY <1>1, <1>2, <1>3, EveryPath
  <1> QED BY <1>4

\* From the same file, the same file.
LEMMA WalkAllSame ==
    ASSUME TypeOK, NEW f \in Walked, NEW h \in Walked, Same(f, h)
    PROVE  \A t \in Path : /\ Same(walkAll(f, t), walkAll(h, t))
                           /\ f.dev = h.dev => walkAll(f, t).dev = walkAll(h, t).dev
  <1> DEFINE Q(t) == /\ Same(walkAll(f, t), walkAll(h, t))
                     /\ f.dev = h.dev => walkAll(f, t).dev = walkAll(h, t).dev
             S == {t \in Path : Q(t)}
  <1>1. <<>> \in S
    <2>1. walkAll(f, <<>>) = f /\ walkAll(h, <<>>) = h /\ <<>> \in Path
      BY WalkAllType DEF Path
    <2> QED BY <2>1
  <1>2. ASSUME NEW t \in S, NEW x \in Names PROVE Append(t, x) \in S
    <2>1. t \in Path /\ Append(t, x) \in Path
      BY DEF Path
    <2>2. walkAll(f, t) \in Walked /\ walkAll(h, t) \in Walked
      BY <2>1, WalkAllType
    <2>3. Q(t)
      OBVIOUS
    <2>4. /\ walkAll(f, Append(t, x)) = Walk(walkAll(f, t), x)
          /\ walkAll(h, Append(t, x)) = Walk(walkAll(h, t), x)
      BY <2>1, WalkAllAppend
    <2>5. /\ Same(Walk(walkAll(f, t), x), Walk(walkAll(h, t), x))
          /\ walkAll(f, t).dev = walkAll(h, t).dev =>
                Walk(walkAll(f, t), x).dev = Walk(walkAll(h, t), x).dev
      BY <2>2, <2>3, WalkSame
    <2>6. Q(Append(t, x))
      BY <2>3, <2>4, <2>5, Zenon
    <2> QED BY <2>1, <2>6
  <1>3. S \in SUBSET Path
    OBVIOUS
  <1>4. \A t \in Path : t \in S
    <2> HIDE DEF S
    <2> QED BY <1>1, <1>2, <1>3, EveryPath
  <1> QED BY <1>4

\* What is read-only stays so, and an error stays one.
LEMMA WalkAllRO ==
    ASSUME TypeOK, NEW f \in Walked
    PROVE  \A t \in Path : ok(walkAll(f, t)) => ok(f) /\ (f.ro => walkAll(f, t).ro)
  <1> DEFINE Q(t) == ok(walkAll(f, t)) => ok(f) /\ (f.ro => walkAll(f, t).ro)
             S == {t \in Path : Q(t)}
  <1>1. <<>> \in S
    <2>1. walkAll(f, <<>>) = f /\ <<>> \in Path
      BY WalkAllType DEF Path
    <2> QED BY <2>1
  <1>2. ASSUME NEW t \in S, NEW x \in Names PROVE Append(t, x) \in S
    <2>1. t \in Path /\ Append(t, x) \in Path
      BY DEF Path
    <2>2. walkAll(f, t) \in Walked
      BY <2>1, WalkAllType
    <2>3. Q(t)
      OBVIOUS
    <2>4. walkAll(f, Append(t, x)) = Walk(walkAll(f, t), x)
      BY <2>1, WalkAllAppend
    <2>5. ok(Walk(walkAll(f, t), x)) => ok(walkAll(f, t))
      BY DEF Walk, ok
    <2>6. ok(Walk(walkAll(f, t), x)) /\ walkAll(f, t).ro => Walk(walkAll(f, t), x).ro
      BY <2>2, WalkRO
    <2>7. Q(Append(t, x))
      BY <2>3, <2>4, <2>5, <2>6, Zenon
    <2> QED BY <2>1, <2>7
  <1>3. S \in SUBSET Path
    OBVIOUS
  <1>4. \A t \in Path : t \in S
    <2> HIDE DEF S
    <2> QED BY <1>1, <1>2, <1>3, EveryPath
  <1> QED BY <1>4

\* Inside a FileSystem, a path leads to the file of that name.
LEMMA WalkAllFS ==
    ASSUME TypeOK, NEW f \in FSFiles
    PROVE  \A t \in Path :
              LET w == walkAll(f, t)
              IN  ok(w) => w \in FSFiles /\ w.fs = f.fs /\ w.dev = f.dev /\ w.path = f.path \o t
  <1> DEFINE Q(t) == LET w == walkAll(f, t)
                     IN  ok(w) => /\ w \in FSFiles /\ w.fs = f.fs /\ w.dev = f.dev
                                  /\ w.path = f.path \o t
             S == {t \in Path : Q(t)}
  <1>0. f \in Walked /\ f.path \in Seq(Names)
    BY DEF Walked, File, FSFiles, Path
  <1>1. <<>> \in S
    <2>1. walkAll(f, <<>>) = f /\ <<>> \in Path
      BY <1>0, WalkAllType DEF Path
    <2>2. f.path \o <<>> = f.path
      BY <1>0
    <2> QED BY <2>1, <2>2
  <1>2. ASSUME NEW t \in S, NEW x \in Names PROVE Append(t, x) \in S
    <2> DEFINE w == walkAll(f, t)
    <2>1. /\ t \in Path /\ Append(t, x) \in Path
          /\ f.path \o Append(t, x) = Append(f.path \o t, x)
      <3>1. t \in Seq(Names)
        BY DEF Path
      <3>2. \A u \in Seq(Names) : u \o Append(t, x) = Append(u \o t, x)
        BY <3>1
      <3>3. Append(t, x) \in Seq(Names)
        BY <3>1
      <3> QED BY <1>0, <3>1, <3>2, <3>3, Zenon DEF Path
    <2>3. Q(t)
      OBVIOUS
    <2>4. walkAll(f, Append(t, x)) = Walk(w, x)
      BY <1>0, <2>1, WalkAllAppend
    <2> HIDE DEF w
    <2>5. CASE ~ok(Walk(w, x))
      BY <2>1, <2>4, <2>5
    <2>6. CASE ok(Walk(w, x))
      <3>1. ok(w)
        BY <2>6 DEF Walk, ok
      <3>2. w \in FSFiles /\ w.fs = f.fs /\ w.dev = f.dev /\ w.path = f.path \o t
        BY <2>3, <3>1, Zenon DEF w
      <3>3. /\ Walk(w, x) \in FSFiles \cup {NoFile}
            /\ Walk(w, x).dev = w.dev /\ Walk(w, x).path = Append(w.path, x) /\ Walk(w, x).fs = w.fs
        BY <2>6, <3>2, WalkFSDev, Zenon
      <3>4. Walk(w, x) \in FSFiles
        BY <2>6, <3>3, Zenon DEF ok
      <3>5. Q(Append(t, x))
        BY <2>1, <2>4, <3>2, <3>3, <3>4, Zenon
      <3> QED BY <2>1, <3>5
    <2> QED BY <2>5, <2>6
  <1>3. S \in SUBSET Path
    OBVIOUS
  <1>4. \A t \in Path : t \in S
    <2> HIDE DEF S
    <2> QED BY <1>1, <1>2, <1>3, EveryPath
  <1>5. \A t \in Path : Q(t)
    BY <1>4
  <1> QED BY <1>5, Zenon


-----------------------------------------------------------------------------
(***************************************************************************)
(* Resolve.                                                                *)
(***************************************************************************)

\* A walk of nodes of the tree stays in it.
LEMMA TreeWalk ==
    ASSUME TypeOK, NEW n \in live, <<>> \in tree[n]
    PROVE  \A p \in tree[n] : walkAll(Root(n), p) = NodeFile(n, p)
  <1>1. n \in Namespaces /\ tree[n] \subseteq Nodes /\ tree[n] \subseteq Path
    BY NodesAssumption DEF TypeOK
  <1>2. \A q \in Nodes : NodeFile(n, q) \in NodeFiles /\ NodeFile(n, q) \in Walked
    BY <1>1 DEF NodeFile, NodeFiles, Walked, File
  <1>3. Root(n) = NodeFile(n, <<>>) /\ Root(n) \in Walked
    BY <1>1, <1>2 DEF Root
  <1> DEFINE S == {p \in Path : p \in tree[n] => walkAll(Root(n), p) = NodeFile(n, p)}
  <1>4. <<>> \in S
    BY <1>3, WalkAllType DEF Path
  <1>5. ASSUME NEW s \in S, NEW x \in Names PROVE Append(s, x) \in S
    <2>1. s \in Seq(Names) /\ s \in Path /\ Append(s, x) \in Path
      BY DEF Path
    <2>2. SUFFICES ASSUME Append(s, x) \in tree[n]
                   PROVE  walkAll(Root(n), Append(s, x)) = NodeFile(n, Append(s, x))
      BY <2>1
    <2>3. s \in tree[n]
      <3>1. Prefixes(Append(s, x)) \subseteq tree[n]
        BY <1>1, <2>2 DEF TypeOK
      <3>2. Len(s) \in 0..Len(Append(s, x)) /\ SubSeq(Append(s, x), 1, Len(s)) = s
        BY <2>1
      <3>3. s \in Prefixes(Append(s, x))
        BY <3>2, Zenon DEF Prefixes
      <3> QED BY <3>1, <3>3
    <2>4. walkAll(Root(n), s) = NodeFile(n, s)
      BY <2>3
    <2>5. walkAll(Root(n), Append(s, x)) = Walk(NodeFile(n, s), x)
      BY <1>3, <2>1, <2>4, WalkAllAppend
    <2> DEFINE f == NodeFile(n, s)
               inner == IF Depth = 0 THEN noWalk ELSE Walks[Depth - 1]
    <2>6. f \in NodeFiles /\ f \in File /\ ok(f) /\ Depth \in 0..Depth
      BY <1>1, <1>2, <2>3, FileKinds, DepthNat DEF File, ok
    <2> HIDE DEF f
    <2>7. Walk(f, x) = walkNode(inner, f, x)
      BY <2>6, WalksIs, Zenon DEF Walk
    <2>8. f.path = s /\ f.ns = n /\ [f EXCEPT !.path = Append(@, x)] = NodeFile(n, Append(s, x))
      <3>1. f.path = s /\ f.ns = n /\ f.fs = NoFS /\ f.direct = TRUE /\ f.ro = FALSE /\ f.dev = 0
        BY DEF f, NodeFile
      <3>2. Append(s, x) \in Nodes
        BY <1>1, <2>2
      <3>3. [f EXCEPT !.path = Append(s, x)] \in NodeFiles /\ NodeFile(n, Append(s, x)) \in NodeFiles
        BY <1>2, <2>6, <3>2 DEF NodeFiles
      <3>4. [f EXCEPT !.path = Append(s, x)] = NodeFile(n, Append(s, x))
        <4> DEFINE a == [f EXCEPT !.path = Append(s, x)]
                   b == NodeFile(n, Append(s, x))
        <4>1. a.fs = b.fs /\ a.ns = b.ns /\ a.path = b.path /\ a.dev = b.dev
          BY <2>6, <3>1 DEF NodeFiles, NodeFile
        <4>2. a.direct = b.direct /\ a.ro = b.ro
          BY <2>6, <3>1 DEF NodeFiles, NodeFile
        <4> HIDE DEF a, b
        <4>3. a \in NodeFiles /\ b \in NodeFiles
          BY <3>3 DEF a, b
        <4>4. a = b
          BY <4>1, <4>2, <4>3 DEF NodeFiles
        <4> QED BY <4>4 DEF a, b
      <3> QED BY <3>1, <3>4
    <2>9. walkNode(inner, f, x) = [f EXCEPT !.path = Append(@, x)]
      BY <2>2, <2>8 DEF walkNode
    <2> QED BY <2>5, <2>7, <2>8, <2>9 DEF f
  <1>6. S \in SUBSET Path
    OBVIOUS
  <1>7. \A p \in Path : p \in S
    <2> HIDE DEF S
    <2> QED BY <1>4, <1>5, <1>6, EveryPath
  <1> QED BY <1>1, <1>7

\* Some leading elements of a path are nodes, and no more are.
LEMMA InTree ==
    ASSUME TypeOK, NEW n, <<>> \in tree[n], NEW p \in Path
    PROVE  LET k == inTree(n, p)
           IN  /\ k \in 0..Len(p) /\ SubSeq(p, 1, k) \in tree[n]
               /\ k < Len(p) => SubSeq(p, 1, k + 1) \notin tree[n]
  <1> DEFINE Q(k) == /\ SubSeq(p, 1, k) \in tree[n]
                     /\ k < Len(p) => SubSeq(p, 1, k + 1) \notin tree[n]
             S == {k \in 0..Len(p) : SubSeq(p, 1, k) \in tree[n]}
  <1>1. Len(p) \in Nat /\ SubSeq(p, 1, 0) = <<>>
    BY DEF Path
  <1>2. 0 \in S
    <2>1. 0 \in 0..Len(p)
      BY <1>1
    <2>2. SubSeq(p, 1, 0) \in tree[n]
      BY <1>1, Zenon
    <2> QED BY <2>1, <2>2, Zenon
  <1>3. PICK k \in S : \A j \in S : j <= k
    <2>1. S \in SUBSET (0..Len(p)) /\ S # {}
      BY <1>2
    <2> HIDE DEF S
    <2> QED BY <1>1, <2>1, GreatestExists
  <1>4. k \in 0..Len(p) /\ Q(k)
    <2>1. ASSUME k < Len(p), SubSeq(p, 1, k + 1) \in tree[n] PROVE FALSE
      <3>1. k + 1 \in 0..Len(p)
        BY <1>1, <1>3, <2>1
      <3>2. k + 1 \in S
        BY <2>1, <3>1
      <3>3. k + 1 <= k /\ k \in Nat
        BY <1>1, <1>3, <3>2
      <3> QED BY <3>3
    <2> QED BY <1>3, <2>1
  <1>5. inTree(n, p) = CHOOSE j \in 0..Len(p) : Q(j)
    BY Zenon DEF inTree
  <1> HIDE DEF Q
  <1>6. inTree(n, p) \in 0..Len(p) /\ Q(inTree(n, p))
    BY <1>4, <1>5, Zenon
  <1> QED BY <1>6, Zenon DEF Q

\* There is a level below the first.
LEMMA DepthPos == Depth \in Nat /\ Depth >= 1 /\ Depth - 1 \in 0..Depth /\ Depth \in 0..Depth
  <1>1. Cardinality(Nodes) * MaxNS \in Nat
    <2>1. Cardinality(Nodes) \in Nat /\ MaxNS \in Nat
      BY NodesAssumption, BoundsAssumption, FS_CardinalityType
    <2> QED BY <2>1
  <1> QED BY <1>1 DEF Depth

\* The layer resolve settles on is the one a walk takes.
LEMMA ServingIs ==
    ASSUME TypeOK, NEW f \in NodeFiles, NEW x \in Names
    PROVE  LET ls  == layers[f.ns][f.path]
               got == gotWalks(Walks[Depth - 1], f, x)
           IN  /\ serving(ls, x) = SelectInSeq(got, ok)
               /\ \A i \in DOMAIN ls : got[i] = below(ls[i], x)
  <1> DEFINE ls  == layers[f.ns][f.path]
             got == gotWalks(Walks[Depth - 1], f, x)
  <1>1. \A i \in DOMAIN ls : got[i] = below(ls[i], x)
    BY DEF gotWalks, below
  <1>2. ls \in Seq(Layer)
    BY LayersType, Zenon
  <1>3. DOMAIN got = DOMAIN ls
    BY DEF gotWalks
  <1> HIDE DEF ls, got
  <1>4. DOMAIN ls = 1..Len(ls)
    BY <1>2
  <1>5. Len(got) = Len(ls)
    BY <1>2, <1>3, <1>4
  <1>6. {i \in 1..Len(ls) : ok(below(ls[i], x))} = {i \in 1..Len(got) : ok(got[i])}
    BY <1>1, <1>4, <1>5
  <1>7. serving(ls, x) = SelectInSeq(got, ok)
    BY <1>6, Zenon DEF serving, SelectInSeq
  <1> QED BY <1>1, <1>7, ZenonT(60) DEF ls, got

\* A path that leaves the tree after its first k elements.
LEMMA Leaves ==
    ASSUME NEW p \in Path, NEW k \in 0..Len(p), k < Len(p)
    PROVE  LET dst  == SubSeq(p, 1, k)
               rest == SubSeq(p, k + 1, Len(p))
           IN  /\ dst \in Path /\ rest \in Path /\ rest # <<>>
               /\ rest[1] \in Names /\ Tail(rest) \in Path
               /\ Append(dst, rest[1]) \in Path /\ Append(dst, rest[1]) = SubSeq(p, 1, k + 1)
               /\ p = Append(dst, rest[1]) \o Tail(rest)
               /\ rest = <<rest[1]>> \o Tail(rest)
  <1> DEFINE dst  == SubSeq(p, 1, k)
             rest == SubSeq(p, k + 1, Len(p))
  <1>1. p \in Seq(Names) /\ Len(p) \in Nat /\ k \in Nat /\ \A j \in 1..Len(p) : p[j] \in Names
    BY DEF Path
  <1>2. /\ dst \in Seq(Names) /\ Len(dst) = k /\ \A j \in 1..k : dst[j] = p[j]
        /\ rest \in Seq(Names) /\ Len(rest) = Len(p) - k
        /\ \A j \in 1..(Len(p) - k) : rest[j] = p[k + j]
    BY <1>1
  <1> HIDE DEF dst, rest
  <1>3. rest # <<>> /\ rest[1] \in Names /\ rest[1] = p[k + 1]
    BY <1>1, <1>2
  <1>4. /\ Tail(rest) \in Seq(Names) /\ Len(Tail(rest)) = Len(p) - k - 1
        /\ \A j \in 1..(Len(p) - k - 1) : Tail(rest)[j] = p[k + 1 + j]
    BY <1>1, <1>2, <1>3
  <1>5. /\ Append(dst, rest[1]) \in Seq(Names) /\ Len(Append(dst, rest[1])) = k + 1
        /\ \A j \in 1..(k + 1) : Append(dst, rest[1])[j] = p[j]
    BY <1>1, <1>2, <1>3
  <1>6. Append(dst, rest[1]) = SubSeq(p, 1, k + 1)
    BY <1>1, <1>5
  <1> DEFINE a == Append(dst, rest[1])
             b == Tail(rest)
  <1>7. p = a \o b
    <2> HIDE DEF a, b
    <2>1. a \in Seq(Names) /\ b \in Seq(Names) /\ Len(a) = k + 1 /\ Len(b) = Len(p) - k - 1
      BY <1>4, <1>5 DEF a, b
    <2>2. \A j \in 1..(k + 1) : a[j] = p[j]
      BY <1>5 DEF a
    <2>3. \A j \in 1..(Len(p) - k - 1) : b[j] = p[k + 1 + j]
      BY <1>4 DEF b
    <2>4. Len(a \o b) = Len(p) /\ a \o b \in Seq(Names)
      BY <1>1, <2>1, SMTT(40)
    <2>5. ASSUME NEW j \in 1..Len(p) PROVE (a \o b)[j] = p[j]
      <3>1. CASE j <= k + 1
        BY <1>1, <2>1, <2>2, <3>1
      <3>2. CASE j > k + 1
        <4>1. (a \o b)[j] = b[j - (k + 1)]
          BY <1>1, <2>1, <3>2
        <4>2. j - (k + 1) \in 1..(Len(p) - k - 1)
          BY <1>1, <3>2
        <4>3. b[j - (k + 1)] = p[k + 1 + (j - (k + 1))]
          BY <2>3, <4>2
        <4>4. k + 1 + (j - (k + 1)) = j
          BY <1>1
        <4> QED BY <4>1, <4>3, <4>4
      <3>3. j <= k + 1 \/ j > k + 1
        BY <1>1
      <3> QED BY <3>1, <3>2, <3>3, Zenon
    <2>6. \A j \in 1..Len(p) : (a \o b)[j] = p[j]
      BY <2>5, Zenon
    <2> DEFINE c == a \o b
    <2>7. c \in Seq(Names) /\ Len(c) = Len(p) /\ \A j \in 1..Len(p) : c[j] = p[j]
      BY <2>4, <2>6, Zenon
    <2> HIDE DEF c
    <2>8. c = p
      BY <1>1, <2>7
    <2> QED BY <2>8 DEF c
  <1>8. rest = <<rest[1]>> \o Tail(rest)
    BY <1>2, <1>3
  <1> QED BY <1>2, <1>3, <1>4, <1>5, <1>6, <1>7, <1>8, Zenon DEF dst, rest, Path

\* Leaving the tree for a layer: the layer that serves the name, and the nsFile
\* around what it serves.
LEMMA LeaveTree ==
    ASSUME TypeOK, NEW n \in Namespaces, NEW q \in tree[n], NEW x \in Names,
           Append(q, x) \notin tree[n]
    PROVE  LET f  == NodeFile(n, q)
               ls == layers[n][q]
               i  == serving(ls, x)
               g  == below(ls[i], x)
           IN  /\ f \in NodeFiles
               /\ IF i = 0 THEN Walk(f, x) = NoFile
                  ELSE /\ i \in DOMAIN ls /\ ls[i] \in Layer /\ ok(g) /\ g \in File
                       /\ ls[i].fs # NoFS => g \in FSFiles
                       /\ Walk(f, x) = through(f, ls[i], g)
  <1> DEFINE f == NodeFile(n, q)
  <1>1. q \in Nodes
    BY DEF TypeOK
  <1>2. f \in NodeFiles /\ f.ns = n /\ f.path = q
    BY <1>1 DEF NodeFile, NodeFiles
  <1>3. f \in File /\ ok(f)
    BY <1>2, FileKinds DEF File, ok
  <1> HIDE DEF f
  <1> DEFINE inner == Walks[Depth - 1]
             ls  == layers[n][q]
             got == gotWalks(inner, f, x)
             i   == SelectInSeq(got, ok)
  <1>4. inner \in Walking /\ Walk(f, x) = walkNode(inner, f, x)
    <2>1. (IF Depth = 0 THEN noWalk ELSE Walks[Depth - 1]) = Walks[Depth - 1]
      BY DepthPos
    <2>2. /\ (IF Depth = 0 THEN noWalk ELSE Walks[Depth - 1]) \in Walking
          /\ Walks[Depth][f][x] = walkNode(IF Depth = 0 THEN noWalk ELSE Walks[Depth - 1], f, x)
      BY <1>2, <1>3, DepthPos, WalksIs, Zenon
    <2>3. Walk(f, x) = Walks[Depth][f][x]
      BY <1>3 DEF Walk
    <2> QED BY <2>1, <2>2, <2>3
  <1>5. layers[f.ns][f.path] = ls
    BY <1>2
  <1>6. walkNode(inner, f, x) = IF i = 0 THEN NoFile ELSE through(f, ls[i], got[i])
    <2>1. Append(f.path, x) \notin tree[f.ns]
      BY <1>2
    <2> DEFINE hs == layers[f.ns][f.path]
    <2>2. walkNode(inner, f, x) = IF i = 0 THEN NoFile ELSE through(f, hs[i], got[i])
      BY <2>1, Zenon DEF walkNode, gotWalks
    <2> QED BY <1>5, <2>2
  <1>7. /\ got \in Seq(Walked) /\ DOMAIN got = DOMAIN ls /\ DOMAIN got = 1..Len(got)
        /\ \A k \in DOMAIN ls : ls[k].fs # NoFS => got[k] \in FSFiles \cup {NoFile}
    <2> HIDE DEF inner
    <2> DEFINE hs == layers[f.ns][f.path]
    <2>1. /\ got \in Seq(Walked) /\ DOMAIN got = DOMAIN hs /\ DOMAIN got = 1..Len(got)
          /\ \A k \in DOMAIN hs : hs[k].fs # NoFS => got[k] \in FSFiles \cup {NoFile}
      BY <1>2, <1>4, GotWalksType, Zenon
    <2> QED BY <1>5, <2>1
  <1>8. \/ i = 0 /\ \A j \in 1..Len(got) : ~ok(got[j])
        \/ /\ i \in 1..Len(got) /\ ok(got[i])
           /\ \A j \in 1..(i - 1) : ~ok(got[j])
    <2> HIDE DEF got
    <2> QED BY <1>7, FirstOk, Zenon
  <1>9. serving(ls, x) = i /\ \A k \in DOMAIN ls : got[k] = below(ls[k], x)
    <2> DEFINE hs == layers[f.ns][f.path]
    <2>1. serving(hs, x) = i /\ \A k \in DOMAIN hs : got[k] = below(hs[k], x)
      BY <1>2, ServingIs, Zenon
    <2> QED BY <1>5, <2>1
  <1>10. \A k \in DOMAIN ls : ls[k] \in Layer
    BY <1>1 DEF TypeOK
  <1> HIDE DEF ls, got, i, inner
  <1>11. CASE i = 0
    BY <1>2, <1>4, <1>6, <1>9, <1>11, Zenon DEF f, ls
  <1>12. CASE i # 0
    <2>1. i \in DOMAIN ls /\ ok(got[i]) /\ got[i] = below(ls[i], x)
      BY <1>7, <1>8, <1>9, <1>12, Zenon
    <2>2. got[i] \in Walked
      BY <1>7, <2>1
    <2>3. got[i] \in File /\ (ls[i].fs # NoFS => got[i] \in FSFiles)
      BY <1>7, <2>1, <2>2, Zenon DEF ok, Walked
    <2>4. Walk(f, x) = through(f, ls[i], got[i])
      BY <1>4, <1>6, <1>12
    <2>5. ls[i] \in Layer
      BY <1>10, <2>1
    <2> DEFINE j == serving(ls, x)
    <2>6. /\ j \in DOMAIN ls /\ ls[j] \in Layer /\ ok(below(ls[j], x)) /\ below(ls[j], x) \in File
          /\ ls[j].fs # NoFS => below(ls[j], x) \in FSFiles
          /\ Walk(f, x) = through(f, ls[j], below(ls[j], x))
      BY <1>9, <2>1, <2>3, <2>4, <2>5, Zenon
    <2> QED BY <1>2, <1>9, <1>12, <2>6, Zenon DEF f, ls
  <1> QED BY <1>11, <1>12

\* What the nsFile around a layer's file keeps of it, and adds to it.
LEMMA Wraps ==
    ASSUME TypeOK, NEW f \in NodeFiles, NEW l \in Layer, NEW x \in Names,
           ok(below(l, x)), below(l, x) \in File, l.fs # NoFS => below(l, x) \in FSFiles
    PROVE  LET g == below(l, x)
               h == through(f, l, g)
           IN  /\ h \in File /\ Same(g, h)
               /\ h.dev = IF dev(l) # 0 THEN dev(l) ELSE g.dev
               /\ l.ro => h.ro
               /\ l.fs # NoFS => h \in FSFiles
               /\ dev(l) # 0 => l.fs # NoFS
  <1> DEFINE g == below(l, x)
             h == through(f, l, g)
  <1>1. h \in File /\ h.dev = IF dev(l) # 0 THEN dev(l) ELSE g.dev
    <2> HIDE DEF g
    <2> QED BY ThroughType, Zenon DEF g
  <1>2. g \in File
    OBVIOUS
  <1>3. root(l) \in File /\ ok(root(l)) /\ g = Walks[Depth - 1][root(l)][x]
    <2>1. ok(root(l)) /\ g = Walks[Depth - 1][root(l)][x]
      BY DEF below, ok
    <2>2. root(l) \in Walked
      BY RootType
    <2> QED BY <2>1, <2>2 DEF Walked, ok
  <1>4. l.ro => root(l).ro
    <2>1. CASE l.fs = NoFS
      BY <2>1 DEF root, Layer
    <2>2. CASE l.fs # NoFS
      <3>1. root(l) = FSFile(l.fs, l.sub, l.ro)
        BY <1>3, <2>2 DEF root, ok
      <3> QED BY <3>1 DEF FSFile
    <2> QED BY <2>1, <2>2
  <1>5. l.ro => g.ro
    <2>1. ok(g)
      OBVIOUS
    <2> HIDE DEF g
    <2> QED BY <1>3, <1>4, <2>1, WalksRO, DepthPos
  <1>6. dev(l) # 0 => l.fs # NoFS
    BY DEF dev
  <1> HIDE DEF g
  <1>7. Same(g, h)
    BY <1>2 DEF through, Same, File, NodeFiles, FSFiles
  <1>8. g.ro => h.ro
    BY <1>2 DEF through, File, NodeFiles, FSFiles
  <1>9. l.fs # NoFS => h \in FSFiles
    <2>1. SUFFICES ASSUME l.fs # NoFS PROVE h \in FSFiles
      OBVIOUS
    <2>2. g \in FSFiles
      BY <2>1 DEF g
    <2>3. g \in Walked /\ h \in Walked
      BY <1>1, <1>2 DEF Walked
    <2> HIDE DEF h
    <2> QED BY <1>7, <2>2, <2>3, SameOk
  <1> HIDE DEF h
  <1>10. l.ro => h.ro
    BY <1>5, <1>8
  <1> QED BY <1>1, <1>6, <1>7, <1>9, <1>10, Zenon DEF g, h

\* The answer of resolve, where the path leaves the tree.
LEMMA ResolveOut ==
    ASSUME NEW n, NEW p \in Path, inTree(n, p) \in 0..Len(p), inTree(n, p) < Len(p)
    PROVE  LET k    == inTree(n, p)
               dst  == SubSeq(p, 1, k)
               rest == SubSeq(p, k + 1, Len(p))
               ls   == layers[n][dst]
               i    == serving(ls, rest[1])
               f    == IF i = 0 THEN NoFile ELSE walkAll(below(ls[i], rest[1]), Tail(rest))
           IN  /\ ~ok(f) => resolve(n, p) = Unresolved
               /\ ok(f) => resolve(n, p) =
                     [kind |-> "layer", dst |-> dst, layer |-> i, inner |-> rest,
                      dev |-> IF dev(ls[i]) # 0 THEN dev(ls[i]) ELSE f.dev,
                      ro |-> ls[i].ro]
  <1> DEFINE k    == inTree(n, p)
             dst  == SubSeq(p, 1, k)
             rest == SubSeq(p, k + 1, Len(p))
             ls   == layers[n][dst]
             i    == serving(ls, rest[1])
             f    == IF i = 0 THEN NoFile ELSE walkAll(below(ls[i], rest[1]), Tail(rest))
  <1>1. rest # <<>>
    BY Leaves, Zenon
  <1>2. resolve(n, p) =
           IF ~ok(f) THEN Unresolved
           ELSE [kind |-> "layer", dst |-> dst, layer |-> i, inner |-> rest,
                 dev |-> IF dev(ls[i]) # 0 THEN dev(ls[i]) ELSE f.dev, ro |-> ls[i].ro]
    BY <1>1, Zenon DEF resolve
  <1> QED BY <1>2, Zenon

\* The answer of resolve, for a node of the tree.
LEMMA ResolveIn ==
    ASSUME NEW n, NEW p \in Path, inTree(n, p) = Len(p)
    PROVE  LET ls == layers[n][p]
           IN  resolve(n, p) = [Unresolved EXCEPT
                  !.kind = IF ls = <<>> THEN "tree" ELSE "bindpoint", !.dst = p,
                  !.layer = IF ls = <<>> THEN 0 ELSE 1, !.ro = ls # <<>> /\ ls[1].ro]
  <1> DEFINE k    == inTree(n, p)
             dst  == SubSeq(p, 1, k)
             rest == SubSeq(p, k + 1, Len(p))
             hs   == layers[n][dst]
  <1>1. rest = <<>> /\ dst = p
    BY DEF Path
  <1>2. resolve(n, p) = [Unresolved EXCEPT
           !.kind = IF hs = <<>> THEN "tree" ELSE "bindpoint", !.dst = dst,
           !.layer = IF hs = <<>> THEN 0 ELSE 1, !.ro = hs # <<>> /\ hs[1].ro]
    BY <1>1, Zenon DEF resolve
  <1> QED BY <1>1, <1>2, Zenon

\* Resolve answers as a walk does, for every path.
Answers(n, p) ==
    LET w   == walkAll(Root(n), p)
        res == resolve(n, p)
    IN  /\ res.kind = "error" <=> ~ok(w)
        /\ res.kind = "layer" => res.dev = w.dev /\ (res.ro => w.ro)
        /\ res.kind \in {"tree", "bindpoint"} => w = NodeFile(n, p)

\* And where it finds the file: the layer, and what the layer serves.
Served(n, p) ==
    LET w   == walkAll(Root(n), p)
        res == resolve(n, p)
        l   == layers[n][res.dst][res.layer]
        x   == res.inner[1]
        t   == Tail(res.inner)
        g   == below(l, x)
    IN  /\ res.kind \in {"error", "tree", "bindpoint", "layer"}
        /\ res.kind = "bindpoint" =>
              /\ res.dst \in tree[n] /\ res.layer \in DOMAIN layers[n][res.dst]
              /\ res.inner = <<>>
        /\ res.kind = "layer" =>
              /\ res.dst \in tree[n] /\ res.layer \in DOMAIN layers[n][res.dst]
              /\ res.inner \in Path /\ x \in Names /\ t \in Path /\ res.inner = <<x>> \o t
              /\ ok(g) /\ g \in File /\ (l.fs # NoFS => g \in FSFiles)
              /\ Same(walkAll(g, t), w)

LEMMA ResolveAnswers ==
    ASSUME TypeOK, NEW n \in live, <<>> \in tree[n], NEW p \in Path
    PROVE  Answers(n, p) /\ Served(n, p)
  <1>0. n \in Namespaces
    BY DEF TypeOK
  <1> DEFINE k == inTree(n, p)
             w == walkAll(Root(n), p)
  <1>1. /\ k \in 0..Len(p) /\ SubSeq(p, 1, k) \in tree[n]
        /\ k < Len(p) => SubSeq(p, 1, k + 1) \notin tree[n]
    BY InTree, Zenon
  <1>2. Len(p) \in Nat /\ SubSeq(p, 1, Len(p)) = p
    BY DEF Path
  <1>3. CASE k = Len(p)
    <2>1. p \in tree[n]
      BY <1>1, <1>2, <1>3
    <2>2. w = NodeFile(n, p)
      BY <2>1, TreeWalk, Zenon
    <2>3. ok(w)
      <3>1. NodeFile(n, p).ns = n /\ NoFile.ns = 0 /\ n # 0
        BY <1>0 DEF NodeFile, NoFile, Namespaces
      <3> QED BY <2>2, <3>1 DEF ok
    <2> DEFINE ls == layers[n][p]
    <2>4. resolve(n, p) = [Unresolved EXCEPT
             !.kind = IF ls = <<>> THEN "tree" ELSE "bindpoint", !.dst = p,
             !.layer = IF ls = <<>> THEN 0 ELSE 1, !.ro = ls # <<>> /\ ls[1].ro]
      BY <1>3, ResolveIn, Zenon
    <2>5. resolve(n, p).kind \in {"tree", "bindpoint"}
      BY <2>4 DEF Unresolved
    <2>6. Served(n, p)
      <3>1. ls \in Seq(Layer)
        BY <1>0, <2>1 DEF TypeOK
      <3>2. ls # <<>> => 1 \in DOMAIN ls
        <4> HIDE DEF ls
        <4> QED BY <3>1
      <3>3. resolve(n, p).dst = p /\ resolve(n, p).inner = <<>>
        BY <2>4 DEF Unresolved
      <3>4. resolve(n, p).kind = "bindpoint" => ls # <<>> /\ resolve(n, p).layer = 1
        BY <2>4 DEF Unresolved
      <3> QED BY <2>1, <2>5, <3>2, <3>3, <3>4 DEF Served
    <2> HIDE DEF w
    <2> QED BY <2>2, <2>3, <2>5, <2>6 DEF Answers, w
  <1>4. CASE k < Len(p)
    <2> DEFINE dst  == SubSeq(p, 1, k)
               rest == SubSeq(p, k + 1, Len(p))
               x    == rest[1]
               t    == Tail(rest)
               ls   == layers[n][dst]
               i    == serving(ls, x)
               g    == below(ls[i], x)
               f    == NodeFile(n, dst)
               v    == IF i = 0 THEN NoFile ELSE walkAll(g, t)
    <2>1. /\ dst \in Path /\ x \in Names /\ t \in Path
          /\ Append(dst, x) \in Path /\ Append(dst, x) = SubSeq(p, 1, k + 1)
          /\ p = Append(dst, x) \o t
          /\ rest \in Path /\ rest = <<x>> \o t
      <3> HIDE DEF k
      <3> QED BY <1>1, <1>4, Leaves, Zenon
    <2>2. /\ ~ok(v) => resolve(n, p) = Unresolved
          /\ ok(v) => resolve(n, p) =
                [kind |-> "layer", dst |-> dst, layer |-> i, inner |-> rest,
                 dev |-> IF dev(ls[i]) # 0 THEN dev(ls[i]) ELSE v.dev, ro |-> ls[i].ro]
      BY <1>1, <1>4, ResolveOut, Zenon
    <2>3. dst \in tree[n] /\ Append(dst, x) \notin tree[n]
      BY <1>1, <1>4, <2>1
    <2>4. /\ f \in NodeFiles
          /\ IF i = 0 THEN Walk(f, x) = NoFile
             ELSE /\ i \in DOMAIN ls /\ ls[i] \in Layer /\ ok(g) /\ g \in File
                  /\ ls[i].fs # NoFS => g \in FSFiles
                  /\ Walk(f, x) = through(f, ls[i], g)
      <3> HIDE DEF dst, x, k
      <3> QED BY <1>0, <2>1, <2>3, LeaveTree, Zenon
    <2>5. walkAll(Root(n), dst) = f
      BY <2>3, TreeWalk, Zenon
    <2> HIDE DEF k, dst, rest, x, t, f, i, ls, g
    <2>6. Root(n) \in Walked
      BY <1>0, NodesAssumption DEF Root, NodeFile, Walked, File, NodeFiles
    <2>7. w = walkAll(Walk(f, x), t)
      <3>1. walkAll(Root(n), Append(dst, x)) = Walk(f, x)
        BY <2>1, <2>5, <2>6, WalkAllAppend
      <3>2. walkAll(Root(n), Append(dst, x) \o t) = walkAll(walkAll(Root(n), Append(dst, x)), t)
        BY <2>1, <2>6, WalkAllConcat
      <3> QED BY <2>1, <3>1, <3>2
    <2> HIDE DEF w
    <2>8. CASE i = 0
      <3>1. NoFile \in Walked /\ ~ok(NoFile)
        BY DEF Walked, ok
      <3>2. w = walkAll(NoFile, t)
        BY <2>4, <2>7, <2>8
      <3>3. ~ok(w)
        BY <2>1, <3>1, <3>2, WalkAllRO
      <3>4. resolve(n, p) = Unresolved
        BY <2>2, <2>8, <3>1
      <3>5. resolve(n, p).kind = "error"
        BY <3>4 DEF Unresolved
      <3> QED BY <3>3, <3>5 DEF Answers, Served, w
    <2>9. CASE i # 0
      <3> DEFINE l == ls[i]
                 h == through(f, l, g)
      <3>1. /\ l \in Layer /\ ok(g) /\ g \in File /\ (l.fs # NoFS => g \in FSFiles)
            /\ Walk(f, x) = h
        BY <2>4, <2>9, Zenon
      <3>2. /\ h \in File /\ Same(g, h)
            /\ h.dev = IF dev(l) # 0 THEN dev(l) ELSE g.dev
            /\ l.ro => h.ro
            /\ l.fs # NoFS => h \in FSFiles
            /\ dev(l) # 0 => l.fs # NoFS
        <4>1. g = below(l, x)
          BY DEF g
        <4> HIDE DEF l
        <4> QED BY <2>1, <2>4, <3>1, <4>1, Wraps, Zenon
      <3> HIDE DEF l, h
      <3>3. v = walkAll(g, t) /\ w = walkAll(h, t)
        BY <2>7, <2>9, <3>1
      <3> HIDE DEF v
      <3>4. g \in Walked /\ h \in Walked /\ v \in Walked /\ w \in Walked
        BY <2>1, <3>1, <3>2, <3>3, WalkAllType DEF Walked
      <3>5. Same(v, w) /\ (g.dev = h.dev => v.dev = w.dev)
        BY <2>1, <3>2, <3>3, <3>4, WalkAllSame, Zenon
      <3>6. ok(v) <=> ok(w)
        BY <3>4, <3>5, SameOk
      <3>7. CASE ~ok(v)
        <4>1. resolve(n, p).kind = "error"
          BY <2>2, <3>7 DEF Unresolved
        <4> QED BY <3>6, <3>7, <4>1 DEF Answers, Served, w
      <3>8. CASE ok(v)
        <4>1. /\ resolve(n, p).kind = "layer"
              /\ resolve(n, p).dev = IF dev(l) # 0 THEN dev(l) ELSE v.dev
              /\ resolve(n, p).ro = l.ro
          BY <2>2, <3>8 DEF l
        <4>2. ok(w)
          BY <3>6, <3>8
        <4>3. l.ro => w.ro
          BY <2>1, <3>2, <3>3, <3>4, <4>2, WalkAllRO, Zenon
        <4>4. resolve(n, p).dev = w.dev
          <5>1. CASE dev(l) = 0
            BY <3>2, <3>5, <4>1, <5>1
          <5>2. CASE dev(l) # 0
            <6>1. h \in FSFiles /\ h.dev = dev(l)
              BY <3>2, <5>2
            <6>2. w.dev = h.dev
              BY <2>1, <3>3, <4>2, <6>1, WalkAllFS, Zenon
            <6> QED BY <4>1, <5>2, <6>1, <6>2
          <5> QED BY <5>1, <5>2
        <4>5. Served(n, p)
          <5>1. /\ resolve(n, p).dst = dst /\ resolve(n, p).layer = i
                /\ resolve(n, p).inner = rest
            BY <2>2, <3>8
          <5>2. /\ layers[n][dst][i] = l /\ rest[1] = x /\ Tail(rest) = t /\ g = below(l, x)
                /\ i \in DOMAIN layers[n][dst]
            BY <2>4, <2>9 DEF l, ls, x, t, g
          <5>3. Same(walkAll(g, t), walkAll(Root(n), p))
            BY <3>3, <3>5 DEF w
          <5> QED BY <2>1, <2>3, <3>1, <4>1, <5>1, <5>2, <5>3 DEF Served
        <4> QED BY <4>1, <4>2, <4>3, <4>4, <4>5 DEF Answers, w
      <3> QED BY <3>7, <3>8
    <2> QED BY <2>8, <2>9
  <1> QED BY <1>1, <1>2, <1>3, <1>4

\* Every namespace has its root node, and a clone has it before its layers are.
Rooted ==
    /\ \A n \in live : <<>> \in tree[n]
    /\ \A g \in Procs : pc[g] = "fix" => <<>> \in job[g].copied

\* What makes no namespace and finishes no copying.
LEMMA RootedFrame ==
    ASSUME TypeInv, Rooted, live' = live, \A m \in Namespaces : tree[m] \subseteq tree'[m],
           \A h \in Procs : pc'[h] = "fix" => pc[h] = "fix" /\ job'[h] = job[h]
    PROVE  Rooted'
  BY DEF Rooted, TypeInv, TypeOK

\* Every step keeps the roots.
LEMMA RootedKeeps == TypeInv /\ Rooted /\ [Next]_vars => Rooted'
  <1> SUFFICES ASSUME TypeInv, Rooted, [Next]_vars PROVE Rooted'
    OBVIOUS
  <1>0. TypeOK
    BY DEF TypeInv
  <1>1. ASSUME NEW g \in Procs, NEW n \in Namespaces, NEW r \in Requests,
               BindFS(g, n, r) \/ BindPath(g, n, r)
        PROVE  Rooted'
    <2>1. PICK new : Binding(g, n, r.dst, r.disp, new, r.ro)
      BY <1>0, <1>1, BindFSBinds, BindPathBinds, Zenon
    <2> DEFINE j == bindJob(n, r.dst, r.disp, new, r.ro)
    <2>2. /\ tree' = [tree EXCEPT ![n] = @ \cup Prefixes(r.dst)] /\ live' = live
          /\ Begin(g, n, "add", j)
      BY <2>1 DEF Binding
    <2>3. \A m \in Namespaces : tree[m] \subseteq tree'[m]
      BY <1>0, <2>2 DEF TypeOK
    <2>4. pc'[g] = "add" /\ \A h \in Procs : h # g => pc'[h] = pc[h] /\ job'[h] = job[h]
      <3> HIDE DEF j
      <3> QED BY <1>0, <2>2, BeginIs, Zenon
    <2> QED BY <2>2, <2>3, <2>4, RootedFrame
  <1>2. ASSUME NEW g \in Procs, NEW n \in Namespaces, NEW r \in Requests,
               BindPathFails(g, n, r)
        PROVE  Rooted'
    BY <1>2, RootedFrame DEF BindPathFails
  <1>3. ASSUME NEW g \in Procs, NEW n \in Namespaces, NEW r \in Requests, Unbind(g, n, r)
        PROVE  Rooted'
    <2> DEFINE j == [NoJob EXCEPT !.ns = n, !.dst = r.dst]
    <2>1. tree' = tree /\ live' = live /\ Begin(g, n, "log", j)
      BY <1>3 DEF Unbind
    <2>2. pc'[g] = "log" /\ \A h \in Procs : h # g => pc'[h] = pc[h] /\ job'[h] = job[h]
      <3> HIDE DEF j
      <3> QED BY <1>0, <2>1, BeginIs, Zenon
    <2> QED BY <2>1, <2>2, RootedFrame
  <1>4. ASSUME NEW g \in Procs, NEW n \in Namespaces, cloneSeq(g, n) PROVE Rooted'
    <2> DEFINE j == [NoJob EXCEPT !.ns = n, !.to = Cardinality(live) + 1, !.seq = seq[n]]
    <2>1. tree' = tree /\ live' = live /\ Begin(g, n, "copy", j)
      BY <1>4 DEF cloneSeq, nsVars
    <2>2. pc'[g] = "copy" /\ \A h \in Procs : h # g => pc'[h] = pc[h] /\ job'[h] = job[h]
      <3> HIDE DEF j
      <3> QED BY <1>0, <2>1, BeginIs, Zenon
    <2> QED BY <2>1, <2>2, RootedFrame
  <1>5. ASSUME NEW g \in Procs, addLayers(g) PROVE Rooted'
    <2>1. /\ tree' = tree /\ live' = live /\ pc' = [pc EXCEPT ![g] = "log"] /\ job' = job
      BY <1>5 DEF addLayers
    <2>2. \A h \in Procs : pc'[h] = "fix" => pc[h] = "fix" /\ job'[h] = job[h]
      BY <1>0, <2>1 DEF TypeOK
    <2> QED BY <2>1, <2>2, RootedFrame
  <1>6. ASSUME NEW g \in Procs, record(g) PROVE Rooted'
    <2>1. tree' = tree /\ live' = live /\ End(g)
      BY <1>6 DEF record
    <2>2. \A h \in Procs : pc'[h] = "fix" => pc[h] = "fix" /\ job'[h] = job[h]
      BY <1>0, <2>1, EndIs
    <2> QED BY <2>1, <2>2, RootedFrame
  <1>7. ASSUME NEW g \in Procs, cloneFinish(g) PROVE Rooted'
    <2>1. /\ pc[g] = "fix" /\ live' = live \cup {job[g].to} /\ tree' = tree /\ pc'[g] = "idle"
          /\ \A h \in Procs : h # g => pc'[h] = pc[h] /\ job'[h] = job[h]
      BY <1>7, CloneFinishType, Zenon
    <2>2. <<>> \in job[g].copied /\ tree[job[g].to] = job[g].copied
      BY <2>1 DEF Rooted, TypeInv, JobOK, Cloning
    <2> QED BY <2>1, <2>2 DEF Rooted
  <1>8. ASSUME NEW g \in Procs, NEW p \in Nodes, cloneNode(g, p) PROVE Rooted'
    <2> DEFINE n == job[g].ns
               c == job[g].to
    <2>1. /\ pc[g] = "copy" /\ tree' = [tree EXCEPT ![c] = @ \cup {p}] /\ live' = live
      BY <1>8 DEF cloneNode
    <2>2. /\ job'[g].copied = job[g].copied \cup {p}
          /\ pc'[g] = IF tree[n] = job[g].copied \cup {p} THEN "fix" ELSE "copy"
          /\ \A h \in Procs : h # g => pc'[h] = pc[h] /\ job'[h] = job[h]
      BY <1>8, CloneNodeType, Zenon
    <2>3. n \in live
      BY <2>1 DEF TypeInv, JobOK
    <2>4. \A m \in live : <<>> \in tree'[m]
      BY <1>0, <2>1 DEF Rooted, TypeOK
    <2>5. ASSUME NEW h \in Procs, pc'[h] = "fix" PROVE <<>> \in job'[h].copied
      <3>1. CASE h = g
        BY <2>2, <2>3, <2>5, <3>1 DEF Rooted
      <3>2. CASE h # g
        BY <2>2, <2>5, <3>2 DEF Rooted
      <3> QED BY <3>1, <3>2
    <2> QED BY <2>1, <2>4, <2>5 DEF Rooted
  <1>9. ASSUME NEW x \in Flaky, flip(x) PROVE Rooted'
    BY <1>9 DEF flip, nsVars, procVars, Rooted
  <1>10. CASE UNCHANGED vars
    BY <1>10 DEF vars, nsVars, procVars, Rooted
  <1> QED BY <1>1, <1>2, <1>3, <1>4, <1>5, <1>6, <1>7, <1>8, <1>9, <1>10, Zenon DEF Next, Call

\* The paths that are looked at are paths.
LEMMA ProbesType == Probes \subseteq Path
  <1>1. <<>> \in Path
    BY DEF Path
  <1>2. \A x \in Names : <<x>> \in Path
    BY DEF Path
  <1>3. \A x, y \in Names : <<x, y>> \in Path
    BY DEF Path
  <1>4. \A x, y, w \in Names : <<x, y, w>> \in Path
    BY DEF Path
  <1>5. ASSUME NEW p \in Probes PROVE p \in Path
    <2>1. \/ p \in {<<>>}
          \/ p \in {<<x>> : x \in Names}
          \/ p \in {<<x, y>> : x, y \in Names}
          \/ p \in {<<x, y, w>> : x, y, w \in Names}
      BY DEF Probes
    <2>2. CASE p \in {<<>>}
      BY <1>1, <2>2
    <2>3. CASE p \in {<<x>> : x \in Names}
      BY <1>2, <2>3
    <2>4. CASE p \in {<<x, y>> : x, y \in Names}
      BY <1>3, <2>4
    <2>5. CASE p \in {<<x, y, w>> : x, y, w \in Names}
      BY <1>4, <2>5
    <2> QED BY <2>1, <2>2, <2>3, <2>4, <2>5
  <1> QED BY <1>5

\* Every namespace New and Clone return has a root.
LEMMA RootedAlways == Spec => [](TypeOK /\ Rooted)
  <1>1. Init => Rooted
    BY BoundsAssumption DEF Init, Rooted, Namespaces
  <1>2. Inv => TypeInv /\ TypeOK
    BY DEF Inv, TypeInv
  <1> QED BY <1>1, <1>2, RootedKeeps, InvInvariant, PTL DEF Spec

\* Resolve (binds.go) answers what a walk of ns.go and file.go would, whatever the
\* path: it fails when the walk does, names the dev of the file, calls only what
\* refuses writes read-only, and takes only nodes of the tree for bind points.
THEOREM ResolvesAnyPath == Spec => [](\A n \in live : \A p \in Path : Answers(n, p))
  <1>1. TypeOK /\ Rooted => \A n \in live : \A p \in Path : Answers(n, p)
    BY ResolveAnswers DEF Rooted
  <1> QED BY <1>1, RootedAlways, PTL

\* And so for the paths that are looked at.
THEOREM ResolvesMatch == Spec => []ResolveMatchesWalk
  <1>1. ASSUME \A n \in live : \A p \in Path : Answers(n, p) PROVE ResolveMatchesWalk
    <2>1. Probes \subseteq Path
      BY ProbesType
    <2>2. ASSUME NEW n \in live, NEW p \in Probes PROVE Answers(n, p)
      BY <1>1, <2>1
    <2> QED BY <2>2, Zenon DEF ResolveMatchesWalk, Answers
  <1> QED BY <1>1, ResolvesAnyPath, PTL

-----------------------------------------------------------------------------
(***************************************************************************)
(* HostPath.                                                               *)
(***************************************************************************)

\* Path binds form no cycle: every node can be given a rank above those of the
\* nodes its path binds refer to.  (Depth - 1 is the number of nodes.)
Descends(r) ==
    \A n \in Namespaces, p \in Nodes :
        /\ r[n][p] < Depth - 1
        /\ \A i \in DOMAIN layers[n][p] :
              LET f == layers[n][p][i].resolved
              IN  layers[n][p][i].fs = NoFS /\ ok(f) /\ f.fs = NoFS => r[f.ns][f.path] < r[n][p]
Acyclic == \E r \in [Namespaces -> [Nodes -> Nat]] : Descends(r)

\* What a walk makes of what the layers give.
taken(f, x, got) ==
    IF Append(f.path, x) \in tree[f.ns] THEN [f EXCEPT !.path = Append(@, x)]
    ELSE LET i == SelectInSeq(got, ok)
         IN  IF i = 0 THEN NoFile ELSE through(f, layers[f.ns][f.path][i], got[i])

\* Then Depth levels of the recursion are enough.
LEMMA Settles ==
    ASSUME TypeOK, NEW r \in [Namespaces -> [Nodes -> Nat]], Descends(r),
           NEW f \in File, NEW x \in Names
    PROVE  Walks[Depth][f][x] = Walks[Depth - 1][f][x]
  <1> DEFINE Low(d, h) == h \in NodeFiles => r[h.ns][h.path] < d
             C(d) == \A h \in File, y \in Names :
                        Low(d, h) => Walks[d + 1][h][y] = Walks[d][h][y]
             N == Depth - 1
             S == {d \in Nat : d \in 0..N => C(d)}
  <1>0. Depth \in Nat /\ N \in Nat /\ \A d \in 0..N : d \in 0..Depth /\ d + 1 \in 0..Depth
    BY DepthPos
  <1>1. ASSUME NEW d \in 0..N, NEW h \in FSFiles, NEW y \in Names
        PROVE  Walks[d + 1][h][y] = Walks[d][h][y]
    <2>1. h \in File /\ d \in 0..Depth /\ d + 1 \in 0..Depth
      BY <1>0 DEF File
    <2>2. Walks[d][h][y] = walkFS(h, y)
      BY <2>1, WalksIs, Zenon
    <2>3. Walks[d + 1][h][y] = walkFS(h, y)
      BY <2>1, WalksIs, Zenon
    <2> QED BY <2>2, <2>3
  <1>2. 0 \in S
    <2> SUFFICES ASSUME NEW h \in File, NEW y \in Names, Low(0, h), 0 \in 0..N
                 PROVE  Walks[0 + 1][h][y] = Walks[0][h][y]
      OBVIOUS
    <2>1. h \notin NodeFiles
      <3>1. h \in NodeFiles => h.ns \in Namespaces /\ h.path \in Nodes
        BY FileKinds
      <3>2. h \in NodeFiles => r[h.ns][h.path] \in Nat
        BY <3>1
      <3> QED BY <3>2
    <2>2. h \in FSFiles
      BY <2>1 DEF File
    <2> QED BY <1>1, <2>2
  <1>3. ASSUME NEW d \in 1..N, d - 1 \in S PROVE d \in S
    <2>0. d \in Nat /\ d - 1 \in 0..N /\ d \in 0..N /\ (d - 1) + 1 = d /\ (d + 1) - 1 = d
          /\ d # 0 /\ d + 1 # 0
      BY <1>0
    <2>1. C(d - 1)
      BY <1>3, <2>0
    <2>2. \A h \in File, y \in Names : Low(d - 1, h) => Walks[d][h][y] = Walks[d - 1][h][y]
      BY <2>0, <2>1
    <2>3. ASSUME NEW h \in File, NEW y \in Names, Low(d, h)
          PROVE  Walks[d + 1][h][y] = Walks[d][h][y]
      <3>1. CASE h \in FSFiles
        BY <1>1, <2>0, <3>1
      <3>2. CASE h \in NodeFiles
        <4> DEFINE ls == layers[h.ns][h.path]
        <4>1. /\ Walks[d][h][y] = walkNode(Walks[d - 1], h, y)
              /\ Walks[d + 1][h][y] = walkNode(Walks[d], h, y)
          <5>1. d \in 0..Depth /\ d + 1 \in 0..Depth
            BY <1>0, <2>0
          <5>2. Walks[d][h][y] = walkNode(IF d = 0 THEN noWalk ELSE Walks[d - 1], h, y)
            BY <3>2, <5>1, WalksIs, Zenon
          <5>3. Walks[d + 1][h][y] =
                   walkNode(IF d + 1 = 0 THEN noWalk ELSE Walks[(d + 1) - 1], h, y)
            BY <3>2, <5>1, WalksIs, Zenon
          <5> QED BY <2>0, <5>2, <5>3
        <4>2. /\ h.ns \in Namespaces /\ h.path \in Nodes
              /\ r[h.ns][h.path] \in Nat /\ r[h.ns][h.path] < d
          BY <2>3, <3>2, FileKinds
        <4>3. ASSUME NEW i \in DOMAIN ls, ok(root(ls[i]))
              PROVE  Walks[d][root(ls[i])][y] = Walks[d - 1][root(ls[i])][y]
          <5> DEFINE l == ls[i]
          <5>1. l \in Layer
            BY <3>2, LayersType, Zenon
          <5>2. root(l) \in Walked /\ (l.fs # NoFS => root(l) \in FSFiles \cup {NoFile})
            BY <5>1, RootType
          <5>3. root(l) \in File /\ ok(root(l))
            BY <4>3, <5>2 DEF Walked, ok
          <5>4. Low(d - 1, root(l))
            <6> SUFFICES ASSUME root(l) \in NodeFiles
                         PROVE  r[root(l).ns][root(l).path] < d - 1
              OBVIOUS
            <6>1. root(l).fs = NoFS /\ root(l).ns \in Namespaces /\ root(l).path \in Nodes
              BY FileKinds
            <6>2. root(l) \notin FSFiles \cup {NoFile}
              BY <5>3, <6>1, FileKinds, Zenon DEF ok
            <6>3. l.fs = NoFS
              BY <5>2, <6>2, Zenon
            <6>4. root(l) = l.resolved
              BY <6>3, SMTT(40) DEF root
            <6>5. r[root(l).ns][root(l).path] < r[h.ns][h.path]
              BY <4>2, <5>3, <6>1, <6>3, <6>4 DEF Descends
            <6>6. r[root(l).ns][root(l).path] \in Nat
              BY <6>1
            <6> HIDE DEF l
            <6> QED BY <2>0, <4>2, <6>5, <6>6
          <5> HIDE DEF l
          <5>5. Walks[d][root(l)][y] = Walks[d - 1][root(l)][y]
            BY <2>2, <5>3, <5>4, Zenon
          <5> QED BY <5>5 DEF l
        <4>4. gotWalks(Walks[d], h, y) = gotWalks(Walks[d - 1], h, y)
          BY <4>3, Zenon DEF gotWalks
        <4>5. /\ walkNode(Walks[d], h, y) = taken(h, y, gotWalks(Walks[d], h, y))
              /\ walkNode(Walks[d - 1], h, y) = taken(h, y, gotWalks(Walks[d - 1], h, y))
          BY Zenon DEF walkNode, gotWalks, taken
        <4>6. walkNode(Walks[d], h, y) = walkNode(Walks[d - 1], h, y)
          BY <4>4, <4>5
        <4> QED BY <4>1, <4>6, Zenon
      <3> QED BY <3>1, <3>2 DEF File
    <2>4. C(d)
      BY <2>3
    <2> QED BY <2>0, <2>4
  <1>4. 0..N \subseteq S
    <2>1. S \in SUBSET Nat
      OBVIOUS
    <2> HIDE DEF S
    <2> QED BY <1>0, <1>2, <1>3, <2>1, UpTo
  <1>5. C(N)
    <2>1. N \in 0..N
      BY <1>0
    <2> QED BY <1>4, <2>1
  <1>6. Low(N, f)
    <2>1. f \in NodeFiles => f.ns \in Namespaces /\ f.path \in Nodes
      BY FileKinds
    <2> QED BY <2>1 DEF Descends
  <1>7. N + 1 = Depth
    BY <1>0
  <1>8. Walks[N + 1][f][x] = Walks[N][f][x]
    <2> HIDE DEF N
    <2> QED BY <1>5, <1>6, Zenon
  <1> QED BY <1>7, <1>8

\* What may be found: host files, or nothing.
Found == FSFiles \cup {NoFile}
Finds == [live -> [Path -> Found]]

\* One hop of HostPath, from any path.
hostAll(next) == [n \in live |-> [p \in Path |-> hostStep(next, n, p)]]

\* It finds a host file or nothing.
LEMMA HostStepType ==
    ASSUME TypeOK, NEW n \in live, <<>> \in tree[n], NEW p \in Path, NEW next \in Finds
    PROVE  hostStep(next, n, p) \in Found
  <1> DEFINE res == resolve(n, p)
             l   == layers[n][res.dst][res.layer]
  <1>1. Served(n, p)
    BY ResolveAnswers
  <1>2. hostStep(next, n, p) =
           IF res.kind \in {"error", "tree"} THEN NoFile
           ELSE IF l.fs \in Hosts THEN hostFile(l, res.inner)
           ELSE IF l.fs = NoFS THEN next[n][l.src \o res.inner] ELSE NoFile
    BY Zenon DEF hostStep
  <1>3. CASE res.kind \in {"error", "tree"}
    BY <1>2, <1>3 DEF Found
  <1>4. CASE res.kind \notin {"error", "tree"}
    <2>1. /\ res.dst \in tree[n] /\ res.layer \in DOMAIN layers[n][res.dst]
          /\ res.inner \in Path
      <3>1. res.kind \in {"bindpoint", "layer"}
        BY <1>1, <1>4 DEF Served
      <3>2. <<>> \in Path
        BY DEF Path
      <3> QED BY <1>1, <3>1, <3>2 DEF Served
    <2>2. l \in Layer
      <3>1. layers[n][res.dst] \in Seq(Layer)
        BY <2>1 DEF TypeOK
      <3> QED BY <2>1, <3>1
    <2> HIDE DEF res, l
    <2>3. l.src \in Path /\ l.sub \in Path
      BY <2>2 DEF Layer
    <2>4. \A s, t \in Path : s \o t \in Path
      BY DEF Path
    <2>5. l.src \o res.inner \in Path /\ l.sub \o res.inner \in Path
      BY <2>1, <2>3, <2>4, Zenon
    <2>6. next[n][l.src \o res.inner] \in Found
      BY <2>5 DEF Finds
    <2>7. l.fs \in Hosts => hostFile(l, res.inner) \in Found
      <3>1. SUFFICES ASSUME l.fs \in Hosts PROVE hostFile(l, res.inner) \in FSFiles
        BY DEF Found
      <3>2. l.fs \in FSs
        BY <3>1, FSAssumption
      <3> QED BY <2>5, <3>2 DEF hostFile, FSFile, FSFiles
    <2>8. NoFile \in Found
      BY DEF Found
    <2> QED BY <1>2, <1>4, <2>6, <2>7, <2>8, Zenon
  <1> QED BY <1>3, <1>4

\* HostPaths is what its definition says.
LEMMA HostPathsAre ==
    ASSUME TypeOK, Rooted
    PROVE  \A d \in 0..MaxHops :
              /\ HostPaths[d] \in Finds
              /\ HostPaths[d] = IF d = 0 THEN noHost ELSE hostAll(HostPaths[d - 1])
  <1> DEFINE N == MaxHops
             G == [d \in 1..N |-> [w \in Finds |-> hostAll(w)]]
  <1>1. noHost \in Finds /\ N \in Nat
    BY BoundsAssumption DEF noHost, Finds, Found
  <1>2. ASSUME NEW w \in Finds PROVE hostAll(w) \in Finds
    <2>1. \A n \in live, p \in Path : hostStep(w, n, p) \in Found
      BY HostStepType DEF Rooted
    <2> QED BY <2>1 DEF hostAll, Finds
  <1>3. G \in [1..N -> [Finds -> Finds]]
    BY <1>2
  <1>4. PICK h \in [0..N -> Finds] : Goes(N, noHost, G, h)
    <2> HIDE DEF G, N
    <2> QED BY <1>1, <1>3, StepsExist, Zenon
  <1>5. ASSUME NEW d \in 0..N
        PROVE  h[d] = IF d = 0 THEN noHost ELSE hostAll(h[d - 1])
    <2>1. CASE d = 0
      BY <1>4, <2>1 DEF Goes
    <2>2. CASE d # 0
      <3>1. d \in 1..N /\ d - 1 \in 0..N
        BY <1>1, <2>2
      <3>2. h[d - 1] \in Finds /\ h[d] = G[d][h[d - 1]]
        BY <1>4, <3>1 DEF Goes
      <3> QED BY <2>2, <3>1, <3>2
    <2> QED BY <2>1, <2>2
  <1>6. h = [d \in 0..N |-> IF d = 0 THEN noHost ELSE hostAll(h[d - 1])]
    <2> HIDE DEF G
    <2> QED BY <1>4, <1>5
  <1>7. HostPaths = [d \in 0..N |-> IF d = 0 THEN noHost ELSE hostAll(HostPaths[d - 1])]
    BY <1>6, Zenon DEF HostPaths, hostAll
  <1> HIDE DEF G
  <1>8. \A d \in 0..N : HostPaths[d] = IF d = 0 THEN noHost ELSE hostAll(HostPaths[d - 1])
    BY <1>7, Zenon
  <1> DEFINE S == {d \in Nat : d \in 0..N => HostPaths[d] \in Finds}
  <1>9. 0 \in S
    BY <1>1, <1>8
  <1>10. ASSUME NEW d \in 1..N, d - 1 \in S PROVE d \in S
    <2>1. d \in 0..N /\ d - 1 \in 0..N /\ d # 0 /\ d \in Nat
      BY <1>1
    <2>2. HostPaths[d - 1] \in Finds
      BY <1>10, <2>1
    <2>3. HostPaths[d] = hostAll(HostPaths[d - 1])
      BY <1>8, <2>1, Zenon
    <2> QED BY <1>2, <2>1, <2>2, <2>3
  <1>11. 0..N \subseteq S
    <2>1. S \in SUBSET Nat
      OBVIOUS
    <2> HIDE DEF S
    <2> QED BY <1>1, <1>9, <1>10, <2>1, UpTo
  <1>12. \A d \in 0..N : HostPaths[d] \in Finds
    BY <1>11
  <1> QED BY <1>8, <1>12, Zenon

\* The host file h is the walked file w, if both are files.
Agreed(h, w) == ok(h) /\ w.fs # NoFS => h.fs = w.fs /\ h.path = w.path

\* A name in between goes with either side.
LEMMA AppendFirst ==
    ASSUME NEW x \in Names, NEW s \in Path, NEW t \in Path
    PROVE  Append(s, x) \o t = s \o (<<x>> \o t)
  <1> DEFINE a == Append(s, x) \o t
             b == s \o (<<x>> \o t)
             k == Len(s)
  <1>0. s \in Seq(Names) /\ t \in Seq(Names) /\ <<x>> \in Seq(Names) /\ k \in Nat /\ Len(t) \in Nat
    BY DEF Path
  <1>1. /\ <<x>> \o t \in Seq(Names) /\ Len(<<x>> \o t) = Len(t) + 1 /\ (<<x>> \o t)[1] = x
        /\ \A j \in 1..Len(t) : (<<x>> \o t)[j + 1] = t[j]
    BY <1>0
  <1>2. /\ Append(s, x) \in Seq(Names) /\ Len(Append(s, x)) = k + 1 /\ Append(s, x)[k + 1] = x
        /\ \A j \in 1..k : Append(s, x)[j] = s[j]
    BY <1>0
  <1>3. a \in Seq(Names) /\ Len(a) = k + 1 + Len(t) /\ b \in Seq(Names) /\ Len(b) = k + 1 + Len(t)
    BY <1>0, <1>1, <1>2
  <1>4. ASSUME NEW j \in 1..(k + 1 + Len(t)) PROVE a[j] = b[j]
    <2>1. CASE j <= k
      BY <1>0, <1>1, <1>2, <2>1
    <2>2. CASE j = k + 1
      BY <1>0, <1>1, <1>2, <2>2
    <2>3. CASE j > k + 1
      <3>1. a[j] = t[j - (k + 1)]
        BY <1>0, <1>2, <2>3
      <3>2. b[j] = (<<x>> \o t)[j - k]
        BY <1>0, <1>1, <2>3
      <3>3. j - (k + 1) \in 1..Len(t) /\ (j - (k + 1)) + 1 = j - k
        BY <1>0, <2>3
      <3>4. (<<x>> \o t)[(j - (k + 1)) + 1] = t[j - (k + 1)]
        BY <1>1, <3>3, Zenon
      <3> QED BY <3>1, <3>2, <3>3, <3>4
    <2>4. j <= k \/ j = k + 1 \/ j > k + 1
      BY <1>0
    <2> QED BY <2>1, <2>2, <2>3, <2>4, Zenon
  <1>5. \A j \in 1..(k + 1 + Len(t)) : a[j] = b[j]
    BY <1>4, Zenon
  <1> HIDE DEF a, b
  <1>6. a = b
    BY <1>0, <1>3, <1>5
  <1> QED BY <1>6 DEF a, b

\* One hop: the layer is a host directory that holds the file at that path, or an
\* alias whose source leads to the same file.
LEMMA HostStepAgrees ==
    ASSUME TypeOK, NEW n \in live, <<>> \in tree[n], Acyclic, SourcesCurrent(n),
           NEW next \in Finds, \A q \in Path : Agreed(next[n][q], walkAll(Root(n), q)),
           NEW p \in Path
    PROVE  Agreed(hostStep(next, n, p), walkAll(Root(n), p))
  <1> DEFINE res == resolve(n, p)
             l   == layers[n][res.dst][res.layer]
             x   == res.inner[1]
             t   == Tail(res.inner)
             g   == below(l, x)
             w   == walkAll(Root(n), p)
  <1>1. Answers(n, p) /\ Served(n, p)
    BY ResolveAnswers
  <1>2. hostStep(next, n, p) =
           IF res.kind \in {"error", "tree"} THEN NoFile
           ELSE IF l.fs \in Hosts THEN hostFile(l, res.inner)
           ELSE IF l.fs = NoFS THEN next[n][l.src \o res.inner] ELSE NoFile
    BY Zenon DEF hostStep
  <1>3. CASE res.kind \in {"error", "tree"}
    BY <1>2, <1>3 DEF Agreed, ok
  <1>4. CASE res.kind = "bindpoint"
    <2>1. w = NodeFile(n, p)
      BY <1>1, <1>4 DEF Answers
    <2>2. w.fs = NoFS
      BY <2>1 DEF NodeFile
    <2> QED BY <2>2 DEF Agreed
  <1>5. CASE res.kind = "layer"
    <2>1. /\ res.dst \in tree[n] /\ res.layer \in DOMAIN layers[n][res.dst]
          /\ res.inner \in Path /\ x \in Names /\ t \in Path /\ res.inner = <<x>> \o t
          /\ ok(g) /\ g \in File /\ (l.fs # NoFS => g \in FSFiles)
          /\ Same(walkAll(g, t), w)
      BY <1>1, <1>5, Zenon DEF Served
    <2>2. l \in Layer
      <3>1. layers[n][res.dst] \in Seq(Layer)
        BY <2>1 DEF TypeOK
      <3> QED BY <2>1, <3>1
    <2>3. l.fs = NoFS =>
             LET v == walkAll(Root(n), l.src)
             IN  v.fs = l.resolved.fs /\ v.ns = l.resolved.ns /\ v.path = l.resolved.path
      BY <2>1, Zenon DEF SourcesCurrent
    <2>4. hostStep(next, n, p) =
             IF l.fs \in Hosts THEN hostFile(l, res.inner)
             ELSE IF l.fs = NoFS THEN next[n][l.src \o res.inner] ELSE NoFile
      BY <1>2, <1>5, SMTT(40)
    <2>5. ok(root(l)) /\ g = Walks[Depth - 1][root(l)][x]
      BY <2>1, ZenonT(60) DEF below, ok
    <2>6. root(l) \in Walked /\ root(l) \in File /\ g \in Walked
      BY <2>1, <2>2, <2>5, RootType DEF Walked, ok
    <2>7. Root(n) \in Walked
      BY NodesAssumption DEF Root, NodeFile, Walked, File, NodeFiles, TypeOK
    <2>8. w \in Walked /\ walkAll(g, t) \in Walked
      BY <2>1, <2>6, <2>7, WalkAllType
    <2> HIDE DEF res, l, x, t, g, w
    <2>9. l.src \in Path /\ l.sub \in Path
      BY <2>2 DEF Layer
    <2>10. CASE l.fs \in Hosts
      <3>1. l.fs # NoFS
        BY <2>10, FSAssumption
      <3>2. g \in FSFiles
        BY <2>1, <3>1
      <3>3. root(l) = FSFile(l.fs, l.sub, l.ro)
        BY <2>5, <3>1 DEF root, ok
      <3>4. root(l) \in FSFiles /\ root(l).fs = l.fs /\ root(l).path = l.sub
        BY <2>2, <2>6, <3>1, <3>3, RootType DEF FSFile, FSFiles, Layer
      <3>5. g = walkFS(root(l), x)
        BY <2>1, <2>5, <2>6, <3>4, DepthPos, WalksIs, Zenon
      <3>6. g = [root(l) EXCEPT !.path = Append(@, x)]
        BY <2>1, <3>5 DEF walkFS, ok
      <3>7. g.fs = l.fs /\ g.path = Append(l.sub, x)
        BY <3>4, <3>6 DEF FSFiles
      <3>8. ASSUME w.fs # NoFS
            PROVE  w.fs = l.fs /\ w.path = Append(l.sub, x) \o t
        <4>1. walkAll(g, t).fs = w.fs /\ walkAll(g, t).path = w.path
          BY <2>1 DEF Same
        <4>2. ok(walkAll(g, t))
          BY <3>8, <4>1 DEF ok, NoFile, NodeFile
        <4>3. walkAll(g, t).fs = g.fs /\ walkAll(g, t).path = g.path \o t
          BY <2>1, <3>2, <4>2, WalkAllFS, Zenon
        <4> QED BY <3>7, <4>1, <4>3
      <3>9. Append(l.sub, x) \o t = l.sub \o res.inner
        <4>1. \A s \in Path : Append(s, x) \o t = s \o (<<x>> \o t)
          BY <2>1, AppendFirst
        <4> QED BY <2>1, <2>9, <4>1
      <3>10. /\ hostStep(next, n, p).fs = l.fs
             /\ hostStep(next, n, p).path = l.sub \o res.inner
        <4>1. hostStep(next, n, p) = hostFile(l, res.inner)
          BY <2>4, <2>10
        <4>2. \A k, e : hostFile(k, e).fs = k.fs /\ hostFile(k, e).path = k.sub \o e
          BY DEF hostFile, FSFile
        <4> QED BY <4>1, <4>2
      <3> QED BY <3>8, <3>9, <3>10 DEF Agreed, w
    <2>11. CASE l.fs = NoFS
      <3> DEFINE q == l.src \o res.inner
                 v == walkAll(Root(n), l.src)
                 u == walkAll(Root(n), q)
                 f == l.resolved
      <3>0. NoFS \notin Hosts
        BY FSAssumption
      <3>1. hostStep(next, n, p) = next[n][q]
        BY <2>4, <2>11, <3>0
      <3>2. q \in Path
        BY <2>1, <2>9 DEF Path
      <3>3. Agreed(next[n][q], u)
        BY <3>2
      <3>4. Same(v, f) /\ v \in Walked
        BY <2>3, <2>7, <2>9, <2>11, WalkAllType DEF Same
      <3>5. u = walkAll(v, res.inner)
        BY <2>1, <2>7, <2>9, WalkAllConcat
      <3>6. root(l) = f
        BY <2>11 DEF root
      <3>7. f \in Walked /\ f \in File /\ ok(f)
        BY <2>5, <2>6, <3>6
      <3> HIDE DEF f, v, u, q
      <3>8. Same(u, walkAll(f, res.inner))
        BY <2>1, <3>4, <3>5, <3>7, WalkAllSame, Zenon
      <3>9. walkAll(f, res.inner) = walkAll(g, t)
        <4>1. <<x>> \in Path /\ <<>> \in Path /\ <<x>> = Append(<<>>, x)
          BY <2>1 DEF Path
        <4>2. walkAll(f, <<x>> \o t) = walkAll(walkAll(f, <<x>>), t)
          BY <2>1, <3>7, <4>1, WalkAllConcat, Zenon
        <4>3. walkAll(f, <<x>>) = Walk(f, x)
          <5>1. walkAll(f, Append(<<>>, x)) = Walk(walkAll(f, <<>>), x)
            BY <2>1, <3>7, <4>1, WalkAllAppend, Zenon
          <5>2. walkAll(f, <<>>) = f
            BY <3>7, WalkAllType, Zenon
          <5> QED BY <4>1, <5>1, <5>2
        <4>4. Walk(f, x) = Walks[Depth][f][x]
          BY <3>7 DEF Walk
        <4>5. Walks[Depth][f][x] = Walks[Depth - 1][f][x]
          BY <2>1, <3>7, Settles, Zenon DEF Acyclic
        <4>6. Walk(f, x) = g
          BY <2>5, <3>6, <4>4, <4>5
        <4> QED BY <2>1, <4>2, <4>3, <4>6
      <3>10. w.fs = u.fs /\ w.path = u.path
        BY <2>1, <3>8, <3>9 DEF Same
      <3>11. Agreed(next[n][q], w)
        BY <3>3, <3>10 DEF Agreed
      <3> QED BY <3>1, <3>11 DEF w
    <2>12. CASE l.fs \notin Hosts /\ l.fs # NoFS
      <3>1. hostStep(next, n, p) = NoFile
        BY <2>4, <2>12
      <3> QED BY <3>1 DEF Agreed, ok
    <2> QED BY <2>10, <2>11, <2>12
  <1> QED BY <1>1, <1>3, <1>4, <1>5 DEF Served

\* However many hops it takes.
LEMMA HostPathAgrees ==
    ASSUME TypeOK, Rooted, Acyclic, NEW n \in live, SourcesCurrent(n)
    PROVE  \A p \in Path : Agreed(HostPath(n, p), walkAll(Root(n), p))
  <1> DEFINE C(d) == \A p \in Path : Agreed(HostPaths[d][n][p], walkAll(Root(n), p))
             S == {d \in Nat : d \in 0..MaxHops => C(d)}
  <1>1. MaxHops \in Nat /\ <<>> \in tree[n]
    BY BoundsAssumption DEF Rooted
  <1>2. \A d \in 0..MaxHops :
           /\ HostPaths[d] \in Finds
           /\ HostPaths[d] = IF d = 0 THEN noHost ELSE hostAll(HostPaths[d - 1])
    BY HostPathsAre
  <1>3. 0 \in S
    <2>1. HostPaths[0] = noHost
      BY <1>1, <1>2
    <2>2. \A p \in Path : HostPaths[0][n][p] = NoFile
      BY <2>1 DEF noHost
    <2> QED BY <2>2 DEF Agreed, ok
  <1>4. ASSUME NEW d \in 1..MaxHops, d - 1 \in S PROVE d \in S
    <2>1. d \in 0..MaxHops /\ d - 1 \in 0..MaxHops /\ d # 0 /\ d \in Nat
      BY <1>1
    <2> DEFINE next == HostPaths[d - 1]
    <2>2. next \in Finds /\ C(d - 1) /\ HostPaths[d] = hostAll(next)
      BY <1>2, <1>4, <2>1
    <2>3. \A q \in Path : Agreed(next[n][q], walkAll(Root(n), q))
      BY <2>2
    <2> HIDE DEF next
    <2>4. ASSUME NEW p \in Path PROVE Agreed(HostPaths[d][n][p], walkAll(Root(n), p))
      <3>1. HostPaths[d][n][p] = hostStep(next, n, p)
        BY <2>2 DEF hostAll
      <3>2. Agreed(hostStep(next, n, p), walkAll(Root(n), p))
        BY <1>1, <2>2, <2>3, HostStepAgrees
      <3> QED BY <3>1, <3>2
    <2> QED BY <2>1, <2>4
  <1>5. 0..MaxHops \subseteq S
    <2>1. S \in SUBSET Nat
      OBVIOUS
    <2> HIDE DEF S
    <2> QED BY <1>1, <1>3, <1>4, <2>1, UpTo
  <1>6. C(MaxHops)
    <2>1. MaxHops \in 0..MaxHops
      BY <1>1
    <2> QED BY <1>5, <2>1
  <1> QED BY <1>6 DEF HostPath

\* HostPath (hostpath.go) "names the file a real Walk reads", through any number of
\* aliases of aliases, as long as the sources of the path binds are as they were and
\* the path binds form no cycle (in which the code's Walk would recurse without end).
THEOREM HostPathsName == Spec => [](Acyclic => HostPathNamesWalked)
  <1>1. ASSUME TypeOK, Rooted, Acyclic PROVE HostPathNamesWalked
    <2>1. \A n \in live : SourcesCurrent(n) =>
             \A p \in Path : Agreed(HostPath(n, p), walkAll(Root(n), p))
      BY <1>1, HostPathAgrees
    <2>2. Probes \subseteq Path
      BY ProbesType
    <2>3. \A n \in live : SourcesCurrent(n) =>
             \A p \in Probes : Agreed(HostPath(n, p), walkAll(Root(n), p))
      BY <2>1, <2>2
    <2> QED BY <2>3, Zenon DEF HostPathNamesWalked, HostPathRight, Agreed
  <1> QED BY <1>1, RootedAlways, PTL

-----------------------------------------------------------------------------
(***************************************************************************)
(* Aliases, and the clones of them.                                        *)
(***************************************************************************)

\* If f is the nsFile of a node, or a roFile around it, the node is one of nodes,
\* in namespace n.
Home(f, n, nodes) == f \in NodeFiles /\ f.direct => f.ns = n /\ f.path \in nodes

\* A walk from home finds a node at home or a file that is not the node's own.
LEMMA WalkHome ==
    ASSUME TypeOK, NEW n \in Namespaces, NEW f \in Walked, Home(f, n, tree[n]), NEW x \in Names
    PROVE  Home(Walk(f, x), n, tree[n])
  <1>0. Depth \in 0..Depth
    BY DepthPos
  <1>1. CASE ~ok(f)
    BY <1>1, FileKinds DEF Walk, Home, File
  <1>2. CASE f \in FSFiles
    <2>1. Walk(f, x) \in FSFiles \cup {NoFile}
      BY <1>2, WalkFSDev
    <2>2. Walk(f, x) \notin NodeFiles
      BY <2>1, FileKinds DEF File
    <2> QED BY <2>2 DEF Home
  <1>3. CASE f \in NodeFiles
    <2>1. f \in File /\ ok(f)
      BY <1>3, FileKinds DEF File, ok
    <2> DEFINE inner == IF Depth = 0 THEN noWalk ELSE Walks[Depth - 1]
    <2>2. Walk(f, x) = walkNode(inner, f, x) /\ inner \in Walking
      BY <1>0, <1>3, <2>1, WalksIs, Zenon DEF Walk
    <2> HIDE DEF inner
    <2>3. CASE Append(f.path, x) \in tree[f.ns]
      <3>1. Walk(f, x) = [f EXCEPT !.path = Append(@, x)]
        BY <2>2, <2>3 DEF walkNode
      <3>2. Walk(f, x).direct = f.direct /\ Walk(f, x).ns = f.ns /\ Walk(f, x).path = Append(f.path, x)
        BY <1>3, <3>1 DEF NodeFiles
      <3> QED BY <1>3, <2>3, <3>2, SMTT(40) DEF Home
    <2>4. CASE Append(f.path, x) \notin tree[f.ns]
      <3> DEFINE ls  == layers[f.ns][f.path]
                 got == gotWalks(inner, f, x)
                 i   == SelectInSeq(got, ok)
      <3>1. walkNode(inner, f, x) = IF i = 0 THEN NoFile ELSE through(f, ls[i], got[i])
        BY <2>4, Zenon DEF walkNode, gotWalks
      <3>2. /\ got \in Seq(Walked) /\ DOMAIN got = DOMAIN ls /\ DOMAIN got = 1..Len(got)
            /\ \A k \in DOMAIN ls : ls[k].fs # NoFS => got[k] \in FSFiles \cup {NoFile}
        BY <1>3, <2>2, GotWalksType, Zenon
      <3>3. \/ i = 0 /\ \A j \in 1..Len(got) : ~ok(got[j])
            \/ /\ i \in 1..Len(got) /\ ok(got[i])
               /\ \A j \in 1..(i - 1) : ~ok(got[j])
        <4> HIDE DEF got
        <4> QED BY <3>2, FirstOk, Zenon
      <3> HIDE DEF ls, got, i
      <3>4. CASE i = 0
        BY <2>2, <3>1, <3>4, FileKinds DEF Home, File
      <3>5. CASE i # 0
        <4>1. got[i] \in File
          BY <3>2, <3>3, <3>5 DEF ok, Walked
        <4>2. through(f, ls[i], got[i]).direct = FALSE
          BY <4>1 DEF through, File, NodeFiles, FSFiles
        <4> QED BY <2>2, <3>1, <3>5, <4>2 DEF Home
      <3> QED BY <3>4, <3>5
    <2> QED BY <2>3, <2>4
  <1> QED BY <1>1, <1>2, <1>3 DEF Walked, File, ok

\* And so does a walk of a path.
LEMMA WalkAllHome ==
    ASSUME TypeOK, NEW n \in Namespaces, NEW f \in Walked, Home(f, n, tree[n])
    PROVE  \A t \in Path : Home(walkAll(f, t), n, tree[n])
  <1> DEFINE S == {t \in Path : Home(walkAll(f, t), n, tree[n])}
  <1>1. <<>> \in S
    <2>1. walkAll(f, <<>>) = f /\ <<>> \in Path
      BY WalkAllType DEF Path
    <2> QED BY <2>1
  <1>2. ASSUME NEW t \in S, NEW x \in Names PROVE Append(t, x) \in S
    <2>1. t \in Path /\ Append(t, x) \in Path
      BY DEF Path
    <2>2. walkAll(f, t) \in Walked /\ Home(walkAll(f, t), n, tree[n])
      BY <2>1, WalkAllType
    <2>3. walkAll(f, Append(t, x)) = Walk(walkAll(f, t), x)
      BY <2>1, WalkAllAppend
    <2>4. Home(Walk(walkAll(f, t), x), n, tree[n])
      BY <2>2, WalkHome
    <2> QED BY <2>1, <2>3, <2>4
  <1>3. S \in SUBSET Path
    OBVIOUS
  <1>4. \A t \in Path : t \in S
    <2> HIDE DEF S
    <2> QED BY <1>1, <1>2, <1>3, EveryPath
  <1> QED BY <1>4

\* The layers of a sequence are at home.
AllHome(ls, n, nodes) == \A i \in DOMAIN ls : Home(ls[i].resolved, n, nodes)

\* The aliases that are the nsFile of a node are at home: the bound ones, those
\* about to be bound, and those that a clone has copied and not remapped yet, for
\* which the nodes are those of the original, and at last those it has copied.
HomeOK ==
    /\ \A n \in live : \A p \in Nodes : AllHome(layers[n][p], n, tree[n])
    /\ \A g \in Procs :
          /\ pc[g] = "add" => AllHome(job[g].new, job[g].ns, tree[job[g].ns])
          /\ Cloning(g) => \A p \in Nodes :
                AllHome(layers[job[g].to][p], job[g].ns,
                        IF pc[g] = "fix" THEN job[g].copied ELSE tree[job[g].ns])

\* What is at home among some nodes is so among more.
LEMMA HomeGrows ==
    ASSUME NEW ls, NEW n, NEW A, NEW B, A \subseteq B, AllHome(ls, n, A)
    PROVE  AllHome(ls, n, B)
  BY DEF AllHome, Home

\* The layers a bind is about to add are at home.
LEMMA BindHome ==
    ASSUME TypeOK, NEW g \in Procs, NEW n \in Namespaces, <<>> \in tree[n], NEW r \in Requests,
           BindFS(g, n, r) \/ BindPath(g, n, r)
    PROVE  AllHome(job'[g].new, n, tree[n])
  <1>1. CASE BindFS(g, n, r)
    <2> DEFINE l == [fs |-> r.fs, sub |-> r.sub, resolved |-> NoFile, src |-> <<>>,
                     seq |-> seq[n] + 1, ro |-> r.ro]
               j == bindJob(n, r.dst, r.disp, <<l>>, r.ro)
    <2>1. Begin(g, n, "add", j)
      BY <1>1, Zenon DEF BindFS, bindJob
    <2>2. job'[g] = j
      <3> HIDE DEF j
      <3> QED BY <2>1, BeginIs, Zenon
    <2>3. l.resolved = NoFile
      OBVIOUS
    <2> HIDE DEF l
    <2>4. j.new = <<l>>
      BY DEF bindJob, NoJob
    <2>5. \A i \in DOMAIN <<l>> : <<l>>[i] = l
      OBVIOUS
    <2>6. NoFile \notin NodeFiles
      BY FileKinds DEF File
    <2> HIDE DEF j
    <2> QED BY <2>2, <2>3, <2>4, <2>5, <2>6 DEF AllHome, Home
  <1>2. CASE BindPath(g, n, r)
    <2> DEFINE fs == Sources(n, r)
               l(i) == [fs |-> NoFS, sub |-> <<>>, src |-> r.srcs[i],
                        resolved |-> [fs[i] EXCEPT !.ro = @ \/ r.ro],
                        seq |-> seq[n] + i, ro |-> r.ro]
               new == [i \in DOMAIN fs |-> l(i)]
               j == bindJob(n, r.dst, r.disp, new, r.ro)
    <2>1. PathCall(r) /\ r.ro \in BOOLEAN
      BY <1>2, RequestKinds, Zenon DEF BindPath
    <2>2. \A i \in DOMAIN fs : r.srcs[i] \in Path /\ fs[i] = walkAll(Root(n), r.srcs[i])
      BY <2>1 DEF Sources, PathCall
    <2>3. Begin(g, n, "add", j) /\ \A i \in DOMAIN fs : ok(fs[i])
      BY <1>2, Zenon DEF BindPath, bindJob
    <2>4. Root(n) \in Walked /\ Home(Root(n), n, tree[n])
      BY NodesAssumption DEF Root, NodeFile, NodeFiles, File, Walked, Home
    <2>5. job'[g] = j
      <3> HIDE DEF j
      <3> QED BY <2>3, BeginIs, Zenon
    <2>6. j.new = new
      BY DEF bindJob, NoJob
    <2> HIDE DEF j, fs
    <2>7. ASSUME NEW i \in DOMAIN fs PROVE Home(new[i].resolved, n, tree[n])
      <3> DEFINE e == [fs[i] EXCEPT !.ro = @ \/ r.ro]
      <3>1. fs[i] \in File /\ Home(fs[i], n, tree[n])
        <4>1. walkAll(Root(n), r.srcs[i]) \in Walked /\ Home(walkAll(Root(n), r.srcs[i]), n, tree[n])
          BY <2>2, <2>4, WalkAllType, WalkAllHome
        <4> QED BY <2>2, <2>3, <4>1 DEF Walked, ok
      <3>2. new[i].resolved = e
        OBVIOUS
      <3>3. CASE fs[i] \in NodeFiles
        <4>1. e.ns = fs[i].ns /\ e.path = fs[i].path /\ e.direct = fs[i].direct
          BY <3>3 DEF NodeFiles
        <4> HIDE DEF e
        <4> QED BY <3>1, <3>2, <3>3, <4>1 DEF Home
      <3>4. CASE fs[i] \in FSFiles
        <4>1. e.fs = fs[i].fs
          BY <3>4 DEF FSFiles
        <4>2. e \notin NodeFiles
          <5> HIDE DEF e
          <5> QED BY <3>4, <4>1, FileKinds, Zenon
        <4> HIDE DEF e
        <4> QED BY <3>2, <4>2 DEF Home
      <3> QED BY <3>1, <3>3, <3>4 DEF File
    <2>8. DOMAIN new = DOMAIN fs
      OBVIOUS
    <2> HIDE DEF new
    <2> QED BY <2>5, <2>6, <2>7, <2>8 DEF AllHome
  <1> QED BY <1>1, <1>2

\* What leaves the layers alone.
LEMMA HomeFrame ==
    ASSUME TypeInv, HomeOK, live' = live, layers' = layers,
           \A m \in Namespaces : tree[m] \subseteq tree'[m],
           \A h \in Procs :
              /\ pc'[h] = "add" =>
                    /\ job'[h].ns \in Namespaces
                    /\ AllHome(job'[h].new, job'[h].ns, tree[job'[h].ns])
              /\ Cloning(h)' =>
                    \/ Cloning(h) /\ pc'[h] = pc[h] /\ job'[h] = job[h]
                    \/ pc'[h] = "copy" /\ \A p \in Nodes : layers[job'[h].to][p] = <<>>
    PROVE  HomeOK'
  <1>1. ASSUME NEW n \in live', NEW p \in Nodes PROVE AllHome(layers'[n][p], n, tree'[n])
    <2>1. n \in Namespaces /\ AllHome(layers[n][p], n, tree[n])
      BY DEF HomeOK, TypeInv, TypeOK
    <2> QED BY <2>1, HomeGrows
  <1>2. ASSUME NEW h \in Procs, pc'[h] = "add"
        PROVE  AllHome(job'[h].new, job'[h].ns, tree'[job'[h].ns])
    BY <1>2, HomeGrows
  <1>3. ASSUME NEW h \in Procs, Cloning(h)', NEW p \in Nodes
        PROVE  AllHome(layers'[job'[h].to][p], job'[h].ns,
                       IF pc'[h] = "fix" THEN job'[h].copied ELSE tree'[job'[h].ns])
    <2>1. CASE Cloning(h) /\ pc'[h] = pc[h] /\ job'[h] = job[h]
      <3>1. job[h].ns \in Namespaces
        BY <2>1 DEF TypeInv, TypeOK, JobOK, Cloning
      <3> DEFINE A == IF pc[h] = "fix" THEN job[h].copied ELSE tree[job[h].ns]
                 B == IF pc'[h] = "fix" THEN job'[h].copied ELSE tree'[job'[h].ns]
      <3>2. AllHome(layers[job[h].to][p], job[h].ns, A)
        BY <2>1 DEF HomeOK
      <3>3. A \subseteq B
        BY <2>1, <3>1
      <3> HIDE DEF A, B
      <3>4. AllHome(layers[job[h].to][p], job[h].ns, B)
        BY <3>2, <3>3, HomeGrows
      <3> QED BY <2>1, <3>4 DEF B
    <2>2. CASE pc'[h] = "copy" /\ \A q \in Nodes : layers[job'[h].to][q] = <<>>
      <3>1. layers'[job'[h].to][p] = <<>>
        BY <2>2
      <3>2. \A m, A : AllHome(<<>>, m, A)
        BY DEF AllHome
      <3> QED BY <3>1, <3>2
    <2> QED BY <1>3, <2>1, <2>2
  <1> QED BY <1>1, <1>2, <1>3 DEF HomeOK

\* Changing the layers of one node of a live namespace.
LEMMA HomeEdit ==
    ASSUME TypeInv, HomeOK, NEW n \in live, NEW dst \in Nodes, NEW ls,
           AllHome(ls, n, tree[n]), live' = live, tree' = tree,
           \A m \in Namespaces, q \in Nodes :
              layers'[m][q] = IF m = n /\ q = dst THEN ls ELSE layers[m][q],
           \A h \in Procs :
              /\ pc'[h] = "add" => pc[h] = "add" /\ job'[h] = job[h]
              /\ Cloning(h)' => Cloning(h) /\ pc'[h] = pc[h] /\ job'[h] = job[h]
    PROVE  HomeOK'
  <1>0. live \subseteq Namespaces
    BY DEF TypeInv, TypeOK
  <1>1. ASSUME NEW m \in live', NEW p \in Nodes PROVE AllHome(layers'[m][p], m, tree'[m])
    <2>1. m \in live /\ m \in Namespaces /\ AllHome(layers[m][p], m, tree[m])
      BY <1>0 DEF HomeOK
    <2>2. layers'[m][p] = IF m = n /\ p = dst THEN ls ELSE layers[m][p]
      BY <2>1
    <2> QED BY <2>1, <2>2
  <1>2. ASSUME NEW h \in Procs, pc'[h] = "add"
        PROVE  AllHome(job'[h].new, job'[h].ns, tree'[job'[h].ns])
    BY <1>2 DEF HomeOK
  <1>3. ASSUME NEW h \in Procs, Cloning(h)', NEW p \in Nodes
        PROVE  AllHome(layers'[job'[h].to][p], job'[h].ns,
                       IF pc'[h] = "fix" THEN job'[h].copied ELSE tree'[job'[h].ns])
    <2>1. Cloning(h) /\ pc'[h] = pc[h] /\ job'[h] = job[h]
      BY <1>3
    <2>2. job[h].to \in Namespaces \ live
      BY <2>1, CloneApart
    <2>3. layers'[job[h].to][p] = layers[job[h].to][p]
      BY <2>2
    <2>4. AllHome(layers[job[h].to][p], job[h].ns,
                  IF pc[h] = "fix" THEN job[h].copied ELSE tree[job[h].ns])
      BY <2>1 DEF HomeOK
    <2> QED BY <2>1, <2>3, <2>4
  <1> QED BY <1>1, <1>2, <1>3 DEF HomeOK

\* Layers at home, spliced into layers at home, are so.
LEMMA SplicedHome ==
    ASSUME NEW S, NEW old \in Seq(S), NEW new \in Seq(S), NEW disp \in Dispositions,
           NEW n, NEW nodes, AllHome(old, n, nodes), AllHome(new, n, nodes)
    PROVE  AllHome(spliced(old, new, disp), n, nodes)
  <1>1. ASSUME NEW s \in Seq(S), NEW t \in Seq(S), AllHome(s, n, nodes), AllHome(t, n, nodes)
        PROVE  AllHome(s \o t, n, nodes)
    <2>1. ASSUME NEW i \in DOMAIN (s \o t) PROVE Home((s \o t)[i].resolved, n, nodes)
      <3>1. /\ Len(s) \in Nat /\ Len(t) \in Nat /\ i \in 1..(Len(s) + Len(t))
            /\ DOMAIN s = 1..Len(s) /\ DOMAIN t = 1..Len(t)
        OBVIOUS
      <3>2. CASE i <= Len(s)
        <4>1. (s \o t)[i] = s[i] /\ i \in DOMAIN s
          BY <3>1, <3>2
        <4> QED BY <1>1, <4>1 DEF AllHome
      <3>3. CASE i > Len(s)
        <4>1. (s \o t)[i] = t[i - Len(s)] /\ i - Len(s) \in DOMAIN t
          BY <3>1, <3>3
        <4> QED BY <1>1, <4>1 DEF AllHome
      <3>4. i <= Len(s) \/ i > Len(s)
        BY <3>1
      <3> QED BY <3>2, <3>3, <3>4, Zenon
    <2> QED BY <2>1 DEF AllHome
  <1>2. CASE disp = "replace"
    BY <1>2 DEF spliced
  <1>3. CASE disp = "before"
    BY <1>1, <1>3 DEF spliced
  <1>4. CASE disp = "after"
    BY <1>1, <1>4 DEF spliced
  <1> QED BY <1>2, <1>3, <1>4 DEF Dispositions

\* remapFile brings home what refers to the original.
LEMMA RemapHome ==
    ASSUME NEW f \in Walked, NEW n \in Namespaces, NEW c \in Namespaces, Home(f, n, tree[c])
    PROVE  Home(remapFile(f, n, c), c, tree[c])
  <1>1. CASE f \in NodeFiles /\ f.direct
    <2>1. f.fs = NoFS /\ f.ns = n /\ f.path \in tree[c]
      BY <1>1, FileKinds DEF Home
    <2>2. remapFile(f, n, c) = [f EXCEPT !.ns = c]
      BY <1>1, <2>1 DEF remapFile
    <2>3. [f EXCEPT !.ns = c].ns = c /\ [f EXCEPT !.ns = c].path = f.path
      BY <1>1 DEF NodeFiles
    <2> QED BY <2>1, <2>2, <2>3 DEF Home
  <1>2. CASE f \in NodeFiles /\ ~f.direct
    <2>1. remapFile(f, n, c) = f
      BY <1>2 DEF remapFile
    <2> QED BY <1>2, <2>1 DEF Home
  <1>3. CASE f \notin NodeFiles
    <2>1. remapFile(f, n, c) = f
      <3>1. f.fs # NoFS \/ f.ns # n
        BY <1>3, FileKinds DEF Walked, File, NoFile, NodeFile, Namespaces
      <3> QED BY <3>1 DEF remapFile
    <2> QED BY <1>3, <2>1 DEF Home
  <1> QED BY <1>1, <1>2, <1>3

\* Every step keeps the aliases at home.
LEMMA HomeKeeps == TypeInv /\ Rooted /\ HomeOK /\ [Next]_vars => HomeOK'
  <1> SUFFICES ASSUME TypeInv, Rooted, HomeOK, [Next]_vars PROVE HomeOK'
    OBVIOUS
  <1>0. TypeOK /\ live \subseteq Namespaces
    BY DEF TypeInv, TypeOK
  <1>00. \A h \in Procs : pc[h] = "add" => /\ job[h].ns \in Namespaces
                                           /\ AllHome(job[h].new, job[h].ns, tree[job[h].ns])
    BY <1>0 DEF HomeOK, TypeInv, JobOK
  <1>1. ASSUME NEW g \in Procs, NEW n \in Namespaces, NEW r \in Requests,
               BindFS(g, n, r) \/ BindPath(g, n, r)
        PROVE  HomeOK'
    <2>1. PICK new : Binding(g, n, r.dst, r.disp, new, r.ro)
      BY <1>0, <1>1, BindFSBinds, BindPathBinds, Zenon
    <2> DEFINE j == bindJob(n, r.dst, r.disp, new, r.ro)
    <2>2. /\ tree' = [tree EXCEPT ![n] = @ \cup Prefixes(r.dst)] /\ live' = live
          /\ Begin(g, n, "add", j) /\ layers' = layers
      BY <2>1 DEF Binding
    <2>3. \A m \in Namespaces : tree[m] \subseteq tree'[m]
      BY <1>0, <2>2 DEF TypeOK
    <2>4. j.ns = n
      BY DEF bindJob, NoJob
    <2> HIDE DEF j
    <2>5. /\ n \in live /\ pc'[g] = "add" /\ job'[g] = j
          /\ \A h \in Procs : h # g => pc'[h] = pc[h] /\ job'[h] = job[h]
      BY <1>0, <2>2, BeginIs, Zenon
    <2>6. AllHome(job'[g].new, n, tree[n])
      BY <1>0, <1>1, <2>5, BindHome DEF Rooted
    <2>7. ASSUME NEW h \in Procs
          PROVE  /\ pc'[h] = "add" =>
                       /\ job'[h].ns \in Namespaces
                       /\ AllHome(job'[h].new, job'[h].ns, tree[job'[h].ns])
                 /\ Cloning(h)' => Cloning(h) /\ pc'[h] = pc[h] /\ job'[h] = job[h]
      <3>1. CASE h = g
        BY <2>4, <2>5, <2>6, <3>1 DEF Cloning
      <3>2. CASE h # g
        BY <1>00, <2>5, <3>2 DEF Cloning
      <3> QED BY <3>1, <3>2
    <2> QED BY <2>2, <2>3, <2>7, HomeFrame
  <1>2. ASSUME UNCHANGED <<tree, layers, live, pc, job>> PROVE HomeOK'
    BY <1>2 DEF HomeOK, Cloning
  <1>3. ASSUME NEW g \in Procs, NEW n \in Namespaces, NEW r \in Requests, Unbind(g, n, r)
        PROVE  HomeOK'
    <2> DEFINE j == [NoJob EXCEPT !.ns = n, !.dst = r.dst]
    <2>1. tree' = tree /\ live' = live /\ Begin(g, n, "log", j)
      BY <1>3 DEF Unbind
    <2>2. /\ n \in live /\ pc'[g] = "log"
          /\ \A h \in Procs : h # g => pc'[h] = pc[h] /\ job'[h] = job[h]
      <3> HIDE DEF j
      <3> QED BY <1>0, <2>1, BeginIs, Zenon
    <2>3. /\ r.dst \in Nodes
          /\ \A m \in Namespaces, q \in Nodes :
                layers'[m][q] = IF m = n /\ q = r.dst THEN <<>> ELSE layers[m][q]
      BY <1>3, UnbindType
    <2>4. AllHome(<<>>, n, tree[n])
      BY DEF AllHome
    <2>5. \A h \in Procs :
             /\ pc'[h] = "add" => pc[h] = "add" /\ job'[h] = job[h]
             /\ Cloning(h)' => Cloning(h) /\ pc'[h] = pc[h] /\ job'[h] = job[h]
      BY <2>2 DEF Cloning
    <2> DEFINE none == <<>>
               dst == r.dst
    <2>6. /\ AllHome(none, n, tree[n]) /\ dst \in Nodes
          /\ \A m \in Namespaces, q \in Nodes :
                layers'[m][q] = IF m = n /\ q = dst THEN none ELSE layers[m][q]
      BY <2>3, <2>4
    <2> HIDE DEF none, j, dst
    <2> QED BY <2>1, <2>2, <2>5, <2>6, HomeEdit
  <1>4. ASSUME NEW g \in Procs, NEW n \in Namespaces, cloneSeq(g, n) PROVE HomeOK'
    <2> DEFINE j == [NoJob EXCEPT !.ns = n, !.to = Cardinality(live) + 1, !.seq = seq[n]]
    <2>1. tree' = tree /\ live' = live /\ layers' = layers /\ Begin(g, n, "copy", j)
      BY <1>4 DEF cloneSeq, nsVars
    <2>2. j.copied = {}
      BY DEF NoJob
    <2> HIDE DEF j
    <2>3. /\ pc'[g] = "copy" /\ job'[g] = j
          /\ \A h \in Procs : h # g => pc'[h] = pc[h] /\ job'[h] = job[h]
      BY <1>0, <2>1, BeginIs, Zenon
    <2>4. TypeInv'
      BY <1>4, CloneSeqType
    <2>5. job'[g].to \in Namespaces /\ tree'[job'[g].to] = {}
      BY <2>2, <2>3, <2>4 DEF TypeInv, JobOK, Cloning
    <2>6. \A p \in Nodes : layers[job'[g].to][p] = <<>>
      BY <2>1, <2>5, <1>0 DEF TypeOK
    <2>7. ASSUME NEW h \in Procs
          PROVE  /\ pc'[h] = "add" =>
                       /\ job'[h].ns \in Namespaces
                       /\ AllHome(job'[h].new, job'[h].ns, tree[job'[h].ns])
                 /\ Cloning(h)' =>
                       \/ Cloning(h) /\ pc'[h] = pc[h] /\ job'[h] = job[h]
                       \/ pc'[h] = "copy" /\ \A p \in Nodes : layers[job'[h].to][p] = <<>>
      <3>1. CASE h = g
        BY <2>3, <2>6, <3>1
      <3>2. CASE h # g
        BY <1>00, <2>3, <3>2 DEF Cloning
      <3> QED BY <3>1, <3>2
    <2> QED BY <2>1, <2>7, HomeFrame
  <1>5. ASSUME NEW g \in Procs, addLayers(g) PROVE HomeOK'
    <2> DEFINE n == job[g].ns
               p == job[g].dst
               ls == spliced(layers[n][p], job[g].new, job[g].disp)
    <2>1. /\ pc[g] = "add" /\ tree' = tree /\ live' = live /\ job' = job
      BY <1>5 DEF addLayers
    <2>2. /\ n \in live /\ n \in Namespaces /\ p \in Nodes
          /\ job[g].new \in Seq(Layer) /\ job[g].disp \in Dispositions
          /\ \A m \in Namespaces, q \in Nodes :
                layers'[m][q] = IF m = n /\ q = p
                                THEN spliced(layers[m][q], job[g].new, job[g].disp)
                                ELSE layers[m][q]
          /\ pc'[g] = "log" /\ \A h \in Procs : h # g => pc'[h] = pc[h]
      BY <1>5, AddLayersType, Zenon
    <2>3. layers[n][p] \in Seq(Layer)
      BY <1>0, <2>2 DEF TypeOK
    <2>4. AllHome(layers[n][p], n, tree[n]) /\ AllHome(job[g].new, n, tree[n])
      BY <2>1, <2>2 DEF HomeOK
    <2>5. AllHome(ls, n, tree[n])
      BY <2>2, <2>3, <2>4, SplicedHome
    <2>6. \A m \in Namespaces, q \in Nodes :
             layers'[m][q] = IF m = n /\ q = p THEN ls ELSE layers[m][q]
      BY <2>2
    <2>7. \A h \in Procs :
             /\ pc'[h] = "add" => pc[h] = "add" /\ job'[h] = job[h]
             /\ Cloning(h)' => Cloning(h) /\ pc'[h] = pc[h] /\ job'[h] = job[h]
      BY <2>1, <2>2 DEF Cloning
    <2> HIDE DEF ls, n, p
    <2> QED BY <2>1, <2>2, <2>5, <2>6, <2>7, HomeEdit
  <1>6. ASSUME NEW g \in Procs, record(g) PROVE HomeOK'
    <2>1. tree' = tree /\ live' = live /\ layers' = layers /\ End(g)
      BY <1>6 DEF record
    <2>2. pc'[g] = "idle" /\ \A h \in Procs : h # g => pc'[h] = pc[h] /\ job'[h] = job[h]
      BY <1>0, <2>1, EndIs
    <2>3. ASSUME NEW h \in Procs
          PROVE  /\ pc'[h] = "add" =>
                       /\ job'[h].ns \in Namespaces
                       /\ AllHome(job'[h].new, job'[h].ns, tree[job'[h].ns])
                 /\ Cloning(h)' => Cloning(h) /\ pc'[h] = pc[h] /\ job'[h] = job[h]
      BY <1>00, <2>2 DEF Cloning
    <2> QED BY <2>1, <2>3, HomeFrame
  <1>7. ASSUME NEW g \in Procs, cloneFinish(g) PROVE HomeOK'
    <2> DEFINE n == job[g].ns
               c == job[g].to
               cl(l) == [l EXCEPT !.resolved = remapFile(@, n, c)]
               cls == [p \in Nodes |-> [i \in DOMAIN layers[c][p] |-> cl(layers[c][p][i])]]
    <2>1. layers' = [layers EXCEPT ![c] = cls] /\ pc[g] = "fix"
      BY <1>7, Zenon DEF cloneFinish
    <2>2. /\ Cloning(g) /\ live' = live \cup {c} /\ tree' = tree /\ pc'[g] = "idle"
          /\ \A h \in Procs : h # g => pc'[h] = pc[h] /\ job'[h] = job[h]
      BY <1>7, CloneFinishType, Zenon
    <2>3. /\ n \in live /\ n \in Namespaces /\ c \in Namespaces /\ c \notin live
          /\ \A h \in Procs : h # g => ~Cloning(h)
      BY <2>2, CloneApart
    <2>4. tree[c] = job[g].copied
      BY <2>2 DEF TypeInv, JobOK
    <2>5. ASSUME NEW p \in Nodes PROVE AllHome(layers'[c][p], c, tree[c])
      <3>1. layers[c][p] \in Seq(Layer)
        BY <1>0, <2>3 DEF TypeOK
      <3>2. layers'[c][p] = [i \in DOMAIN layers[c][p] |-> cl(layers[c][p][i])]
        BY <1>0, <2>1, <2>3 DEF TypeOK
      <3>3. AllHome(layers[c][p], n, tree[c])
        BY <2>1, <2>2, <2>4 DEF HomeOK
      <3>4. ASSUME NEW i \in DOMAIN layers[c][p]
            PROVE  Home(cl(layers[c][p][i]).resolved, c, tree[c])
        <4> DEFINE l == layers[c][p][i]
        <4>1. l \in Layer
          BY <3>1
        <4>2. l.resolved \in Walked /\ Home(l.resolved, n, tree[c])
          BY <3>3, <4>1 DEF AllHome, Layer, Walked
        <4> HIDE DEF l, n, c
        <4>3. cl(l).resolved = remapFile(l.resolved, n, c)
          BY <4>1 DEF Layer
        <4>4. Home(remapFile(l.resolved, n, c), c, tree[c])
          BY <2>3, <4>2, RemapHome
        <4>5. Home(cl(l).resolved, c, tree[c])
          BY <4>3, <4>4
        <4> QED BY <4>5 DEF l
      <3> HIDE DEF cl
      <3> QED BY <3>2, <3>4 DEF AllHome
    <2>6. ASSUME NEW m \in live', NEW p \in Nodes PROVE AllHome(layers'[m][p], m, tree'[m])
      <3>1. CASE m = c
        BY <2>2, <2>5, <3>1
      <3>2. CASE m # c
        <4>1. m \in live /\ m \in Namespaces
          BY <1>0, <2>2, <3>2
        <4>2. layers'[m][p] = layers[m][p]
          BY <1>0, <2>1, <3>2, <4>1 DEF TypeOK
        <4> QED BY <2>2, <4>1, <4>2 DEF HomeOK
      <3> QED BY <3>1, <3>2
    <2>7. ASSUME NEW h \in Procs, pc'[h] = "add"
          PROVE  AllHome(job'[h].new, job'[h].ns, tree'[job'[h].ns])
      BY <1>00, <2>2, <2>7
    <2>8. ASSUME NEW h \in Procs PROVE ~Cloning(h)'
      BY <2>2, <2>3 DEF Cloning
    <2> QED BY <2>6, <2>7, <2>8 DEF HomeOK
  <1>8. ASSUME NEW g \in Procs, NEW p \in Nodes, cloneNode(g, p) PROVE HomeOK'
    <2> DEFINE n == job[g].ns
               c == job[g].to
    <2>1. pc[g] = "copy" /\ tree' = [tree EXCEPT ![c] = @ \cup {p}] /\ live' = live
      BY <1>8 DEF cloneNode
    <2>2. /\ Cloning(g)
          /\ \A m \in Namespaces, q \in Nodes :
                layers'[m][q] = IF m = c /\ q = p THEN layers[n][p] ELSE layers[m][q]
          /\ job'[g].ns = n /\ job'[g].to = c /\ job'[g].copied = job[g].copied \cup {p}
          /\ pc'[g] = IF tree[n] = job[g].copied \cup {p} THEN "fix" ELSE "copy"
          /\ \A h \in Procs : h # g => pc'[h] = pc[h] /\ job'[h] = job[h]
      <3>1. /\ TypeInv' /\ Cloning(g) /\ p \in tree[n]
            /\ \A m \in Namespaces, q \in Nodes :
                  layers'[m][q] = IF m = c /\ q = p THEN layers[n][p] ELSE layers[m][q]
            /\ \A m \in Namespaces : m # c => tree'[m] = tree[m]
            /\ job'[g] = [job[g] EXCEPT !.copied = @ \cup {p}]
            /\ job'[g].ns = n /\ job'[g].to = c /\ job'[g].copied = job[g].copied \cup {p}
            /\ job'[g].seq = job[g].seq /\ job'[g].new = <<>>
            /\ pc'[g] = IF tree[n] = job[g].copied \cup {p} THEN "fix" ELSE "copy"
            /\ \A h \in Procs : h # g => pc'[h] = pc[h] /\ job'[h] = job[h]
            /\ UNCHANGED <<seq, log, dropped, live, raced, outrun>>
        BY <1>8, CloneNodeType, Zenon
      <3> HIDE DEF n, c
      <3> QED BY <3>1, Zenon
    <2>3. /\ n \in live /\ n \in Namespaces /\ c \in Namespaces /\ c \notin live /\ c # n
          /\ \A h \in Procs : h # g => ~Cloning(h)
      BY <2>2, CloneApart
    <2>4. \A m \in Namespaces : m # c => tree'[m] = tree[m]
      BY <1>0, <2>1 DEF TypeOK
    <2>5. \A m \in Namespaces : tree[m] \subseteq tree'[m]
      BY <1>0, <2>1 DEF TypeOK
    <2>6. ASSUME NEW m \in live', NEW q \in Nodes PROVE AllHome(layers'[m][q], m, tree'[m])
      <3>1. m \in live /\ m \in Namespaces /\ m # c
        BY <1>0, <2>1, <2>3
      <3>2. layers'[m][q] = layers[m][q] /\ tree'[m] = tree[m]
        BY <2>2, <2>4, <3>1
      <3> QED BY <3>1, <3>2 DEF HomeOK
    <2>7. ASSUME NEW h \in Procs, pc'[h] = "add"
          PROVE  AllHome(job'[h].new, job'[h].ns, tree'[job'[h].ns])
      <3>1. h # g
        BY <2>2, <2>7
      <3>2. pc[h] = "add" /\ job'[h] = job[h]
        BY <2>2, <2>7, <3>1
      <3> QED BY <1>00, <2>5, <3>2, HomeGrows
    <2>8. ASSUME NEW q \in Nodes
          PROVE  AllHome(layers'[c][q], n, IF pc'[g] = "fix" THEN job'[g].copied ELSE tree'[n])
      <3>1. (IF pc'[g] = "fix" THEN job'[g].copied ELSE tree'[n]) = tree[n]
        BY <2>2, <2>3, <2>4
      <3>2. layers'[c][q] = IF q = p THEN layers[n][p] ELSE layers[c][q]
        BY <2>2, <2>3
      <3>3. AllHome(layers[n][p], n, tree[n])
        BY <2>3 DEF HomeOK
      <3>4. AllHome(layers[c][q], n, tree[n])
        BY <2>1, <2>2 DEF HomeOK
      <3> QED BY <3>1, <3>2, <3>3, <3>4
    <2>9. ASSUME NEW h \in Procs, Cloning(h)', NEW q \in Nodes
          PROVE  AllHome(layers'[job'[h].to][q], job'[h].ns,
                         IF pc'[h] = "fix" THEN job'[h].copied ELSE tree'[job'[h].ns])
      <3>1. h = g
        BY <2>2, <2>3, <2>9 DEF Cloning
      <3>2. job'[h].to = c /\ job'[h].ns = n
        BY <2>2, <3>1
      <3> HIDE DEF c, n
      <3> QED BY <2>8, <3>1, <3>2
    <2> QED BY <2>6, <2>7, <2>9 DEF HomeOK
  <1>9. ASSUME NEW g \in Procs, NEW n \in Namespaces, NEW r \in Requests,
               BindPathFails(g, n, r)
        PROVE  HomeOK'
    BY <1>2, <1>9 DEF BindPathFails
  <1>10. ASSUME NEW x \in Flaky, flip(x) PROVE HomeOK'
    BY <1>2, <1>10 DEF flip, nsVars, procVars
  <1>11. CASE UNCHANGED vars
    BY <1>2, <1>11 DEF vars, nsVars, procVars
  <1> QED BY <1>1, <1>3, <1>4, <1>5, <1>6, <1>7, <1>8, <1>9, <1>10, <1>11, Zenon DEF Next, Call

\* No alias was bound through another alias.
AliasesDirect ==
    \A n \in live : \A p \in tree[n] : \A i \in DOMAIN layers[n][p] :
        LET f == layers[n][p][i].resolved
        IN  ok(f) /\ f.fs = NoFS => f.direct

\* However binds and Clone interleave, remapFile (clone.go) leaves no alias that
\* refers into another namespace: as long as every alias was bound to a node by the
\* node's own path.  (Through another alias, Walk gives an nsFile that remapFile
\* does not see through.)
THEOREM AliasesHome == Spec => [](AliasesDirect => AliasesStayHome)
  <1>1. Init => HomeOK
    <2> SUFFICES ASSUME Init PROVE HomeOK
      OBVIOUS
    <2>1. live = {1} /\ 1 \in Namespaces /\ \A n \in Namespaces, p \in Nodes : layers[n][p] = <<>>
      BY BoundsAssumption DEF Init, Namespaces
    <2>2. \A g \in Procs : pc[g] = "idle"
      BY DEF Init
    <2>3. \A m, A : AllHome(<<>>, m, A)
      BY DEF AllHome
    <2> QED BY <2>1, <2>2, <2>3 DEF HomeOK, Cloning
  <1>2. ASSUME TypeOK, HomeOK, AliasesDirect PROVE AliasesStayHome
    <2> SUFFICES ASSUME NEW n \in live, NEW p \in tree[n], NEW i \in DOMAIN layers[n][p]
                 PROVE  LET f == layers[n][p][i].resolved
                        IN  ok(f) /\ f.fs = NoFS => f.ns = n /\ f.path \in tree[n]
      BY DEF AliasesStayHome
    <2> DEFINE f == layers[n][p][i].resolved
    <2>1. p \in Nodes /\ n \in Namespaces
      BY <1>2 DEF TypeOK
    <2>2. layers[n][p] \in Seq(Layer)
      BY <1>2, <2>1 DEF TypeOK
    <2>3. layers[n][p][i] \in Layer
      BY <2>2
    <2>4. f \in File \cup {NoFile} /\ Home(f, n, tree[n])
      BY <1>2, <2>1, <2>3 DEF Layer, HomeOK, AllHome
    <2>5. ASSUME ok(f), f.fs = NoFS PROVE f \in NodeFiles /\ f.direct
      <3>1. f.direct
        BY <1>2, <2>5 DEF AliasesDirect
      <3> HIDE DEF f
      <3>2. f \in NodeFiles
        BY <2>4, <2>5, FileKinds DEF File, ok
      <3> QED BY <3>1, <3>2
    <2> QED BY <2>4, <2>5 DEF Home
  <1>3. Inv => TypeInv /\ TypeOK
    BY DEF Inv, TypeInv
  <1> QED BY <1>1, <1>2, <1>3, HomeKeeps, RootedAlways, InvInvariant, PTL DEF Spec
=============================================================================
