------------------------------- MODULE MemFS -------------------------------
(***************************************************************************)
(* The in-memory file system (src/examples/memfs/memfs.go) and the cutting *)
(* of a directory into reads that server.MarshalDir does for it            *)
(* (src/server/dir.go), as operators on the state of the file system.      *)
(* Every method runs under FS.mu, so one application is one step of the    *)
(* server.                                                                 *)
(*                                                                         *)
(* A name is its length (see Wire), and longer names sort later.  Times    *)
(* and permission bits are left out.                                       *)
(***************************************************************************)
EXTENDS Wire

QTDIR     == 128
QTSYMLINK == 2
QTFILE    == 0

\* Mode bits that mark a file's kind; TLC's integers end below DMDIR's own.
DMDIR     == 1
DMSYMLINK == 2

\* "..", which is also two bytes long, is not walked to in these models.
glenda == 6

\* A file system is its nodes by qid path, from the root's on.  A node that
\* has been removed stays for the Files that still refer to it.
rootPath == 1

newNode(fs, name, dir, target, parent) ==
    Append(fs, [name |-> name, dir |-> dir, target |-> target, vers |-> 0,
                data |-> <<>>, children |-> <<>>, parent |-> parent])

\* New; "/" is one byte long.
New == newNode(<<>>, 1, TRUE, 0, 0)

Qid(fs, n) ==
    <<IF fs[n].dir THEN QTDIR ELSE IF fs[n].target # 0 THEN QTSYMLINK ELSE QTFILE,
      fs[n].vers, n>>

statLocked(fs, n) ==
    LET mode == IF fs[n].dir THEN DMDIR ELSE IF fs[n].target # 0 THEN DMSYMLINK ELSE 0
    IN  <<0, 0, Qid(fs, n), mode, 0, 0, Len(fs[n].data), fs[n].name,
          glenda, glenda, glenda, fs[n].target, 0, 0, 0>>

\* The result of a method: an error of some length, or a value and the file
\* system after it.
Failure(len)   == [ok |-> FALSE, err |-> len]
Result(fs, v)  == [ok |-> TRUE, fs |-> fs, val |-> v]

\* Error texts, by length; the name in the middle of one adds its own.
notADirectory    == 22
alreadyExists(s) == 23 + s
noSuchFile(s)    == 21 + s

without(children, name) == [s \in DOMAIN children \ {name} |-> children[s]]
with(children, name, n) ==
    [s \in DOMAIN children \cup {name} |-> IF s = name THEN n ELSE children[s]]

resize(b, n) == [i \in 1..n |-> IF i <= Len(b) THEN b[i] ELSE 0]

\* Name (8) and Length (7).  The code also applies Mode, which is left out here,
\* and no other field.
WStat(fs, n, st) ==
    LET p       == fs[n].parent
        rename  == st[8] # 0 /\ st[8] # fs[n].name
        renamed == [fs EXCEPT ![n].name = st[8],
                              ![p].children = with(without(@, fs[n].name), st[8], n)]
        base    == IF rename THEN renamed ELSE fs
        sized   == [base EXCEPT ![n].data = resize(@, st[7]), ![n].vers = @ + 1]
    IN  IF rename /\ p = 0 THEN Failure(25)
        ELSE IF rename /\ st[8] \in DOMAIN fs[p].children THEN Failure(alreadyExists(st[8]))
        ELSE Result(IF st[7] # DontTouch /\ ~fs[n].dir THEN sized ELSE base, n)

Walk(fs, n, name) ==
    IF ~fs[n].dir THEN Failure(notADirectory)
    ELSE IF name \notin DOMAIN fs[n].children THEN Failure(noSuchFile(name))
    ELSE Result(fs, fs[n].children[name])

Open(fs, n, trunc) ==
    IF fs[n].target # 0 THEN Failure(28)
    ELSE IF ~trunc \/ fs[n].dir THEN Result(fs, n)
    ELSE Result([fs EXCEPT ![n].data = <<>>, ![n].vers = @ + 1], n)

\* Create and Symlink.
addChild(fs, n, name, dir, target) ==
    LET grown == newNode(fs, name, dir, target, n)
    IN  IF ~fs[n].dir THEN Failure(notADirectory)
        ELSE IF name \in DOMAIN fs[n].children THEN Failure(alreadyExists(name))
        ELSE Result([grown EXCEPT ![n].children = with(@, name, Len(grown))], Len(grown))

Create(fs, n, name, dir)     == addChild(fs, n, name, dir, 0)
Symlink(fs, n, name, target) == addChild(fs, n, name, FALSE, target)

\* Remove.  What goes is the entry under the node's name, whatever it is by now.
RemoveNode(fs, n) ==
    LET p == fs[n].parent
    IN  IF p = 0 THEN Failure(25)
        ELSE IF fs[n].dir /\ fs[n].children # <<>> THEN Failure(26)
        ELSE Result([fs EXCEPT ![p].children = without(@, fs[n].name)], n)

Write(fs, n, offset, data) ==
    LET end  == offset + Len(data)
        grow == IF end > Len(fs[n].data) THEN resize(fs[n].data, end) ELSE fs[n].data
    IN  IF fs[n].dir THEN Failure(34)
        ELSE Result([fs EXCEPT ![n].vers = @ + 1,
                               ![n].data = [i \in DOMAIN grow |->
                                    IF i > offset /\ i <= end THEN data[i - offset] ELSE grow[i]]],
                    Len(data))

-----------------------------------------------------------------------------

\* Where each entry ends in the directory's encoding.
ends(entries, unix) ==
    LET pos[i \in 0..Len(entries)] ==
            IF i = 0 THEN 0 ELSE pos[i - 1] + Size(stat(entries[i], unix))
    IN  pos

\* MarshalDirVersion with a buffer of count bytes.
MarshalDirVersion(entries, offset, count, unix) ==
    LET pos   == ends(entries, unix)
        n     == Len(entries)
        start == CHOOSE i \in 0..n : pos[i] = offset
        stop  == CHOOSE i \in start..n :
                    pos[i] - offset <= count /\ (i = n \/ pos[i + 1] - offset > count)
    IN  IF offset > pos[n] THEN Failure(39)
        ELSE IF \A i \in 0..n : pos[i] # offset THEN Failure(61)
        ELSE IF start = n THEN Result(entries, <<>>)
        ELSE IF stop = start THEN Failure(50)
        ELSE Result(entries, FlattenSeq([i \in 1..(stop - start) |-> stat(entries[start + i], unix)]))

\* A set of names in order.
sorted(S) ==
    CHOOSE s \in [1..Cardinality(S) -> S] : \A i, j \in 1..Cardinality(S) : i < j => s[i] < s[j]

\* readDir: the entries in the order of their names.
listing(fs, n) ==
    LET names == sorted(DOMAIN fs[n].children)
    IN  [i \in DOMAIN names |-> statLocked(fs, fs[n].children[names[i]])]

\* A read of nothing is the end of the file.
Read(fs, n, offset, count, unix) ==
    LET have == Len(fs[n].data) - offset
        k    == IF have < count THEN have ELSE count
    IN  IF fs[n].dir THEN MarshalDirVersion(listing(fs, n), offset, count, unix)
        ELSE Result(fs, IF have <= 0 THEN <<>>
                        ELSE [i \in 1..k |-> Cell(1, fs[n].data[offset + i])])
=============================================================================
