# A TLA+ model of the 9p library

This directory specifies and checks a Go library for the 9P2000 file protocol:
the wire format, the server's connection (`src/server`), the client
(`src/client`), Plan 9 style namespaces and remote mounts (`src/ns`), and the
in-memory example file system. TLC checks small
instances of every module; TLAPS proves the invariants of the server connection,
the client's multiplexer, its fids, sessions and files, remote mounts and
namespaces, that the codec round-trips, and the server's refinement of its contract,
for every value of their constants.

## The system

| part | state | operations | what makes it hard |
|---|---|---|---|
| server connection (`server/conn.go`, `dispatch.go`) | fid table, `inflight` cancel functions, slot semaphore, msize and dialect | read loop, one goroutine per request, a handler per T-message | handlers run concurrently and outlive a Tflush, a renegotiation or the connection |
| server interfaces (`server/server.go`) | `MaxConcurrentRequests`, the FileSystem | `Serve`, `ServeConn` | what a File may rely on (ctx, Cloner, Close) |
| client multiplexer (`client/mux.go`, `client.go`) | tag to channel table, next-tag counter, closed flag, msize and dialect | NewClient, register, forget, deliver, closeAll, call, flush, readLoop, Close | tags are freed by replies, by cancellation and by Close, and are reused; the handshake may be repeated while readLoop runs |
| client fids (`client/session.go`, `fid.go`, half of `file.go`) | fid counter, root, handles of programs | Attach, Walk in batches, Open, Create, Symlink, Clunk, Remove | a series of rpcs fails or is cancelled half way |
| client files (`client/file.go`) | offset | Read, Write, Seek, ReadAt, WriteAt, ReadDir | offsets under concurrent use, chunking by msize |
| namespace (`ns/ns.go`, `file.go`, `binds.go`, `hostpath.go`) | tree of nodes, layers of each | BindFS, BindPath, Unbind, Walk, list, Create, Resolve, Binds, HostPath | unions, shadowing, aliases, members that are down |
| clone, log, dev (`ns/clone.go`, `bindlog.go`, `dev.go`) | bind log, layer counter | Clone, record, OnBind, stamping | three locks; Clone runs against concurrent binds |
| wrappers (`ns/rofile.go`, `subtree.go`) | none | refusing writes, re-rooting | |
| remote mounts (`ns/fid.go`) | clientFiles: a remote fid, a path, an open File, a lock | attach, walk, clone, open, read, create, remove, close | each call is several rpcs that fail or are flushed half way; a shared File is read by concurrent requests |
| directory marshalling (`server/dir.go`) | none | `MarshalDir` | entry boundaries, small buffers |
| wire codec (`framing.go`, `encode.go`, `decode.go`, `fcall.go`, `stat.go`, ...) | none | marshal, unmarshal, framing | lengths, two dialects |
| examples and commands (`examples/`, `cmd/`) | memfs tree, host directory | | |

They interact as follows. A client call takes a tag from the multiplexer, writes
a T-message and waits on a channel; the server's read loop starts a goroutine
for the message, which calls the FileSystem and writes the reply; the client's
read loop routes that by tag. Cancelling a call's ctx sends a Tflush, which
cancels the ctx of the handler. A Namespace is a FileSystem: it may be served by
a Server, and a layer of it may be a remote tree reached through a Client.

What has to hold:

* *server*: each request is answered once, or dropped without a reply only if it
  was flushed; a Tflush reaches the request it names; the concurrency cap holds
  and nobody waits for ever; a File is closed at most once and never while a fid
  names it; replies keep to the negotiated dialect;
* *client*: a call gets its own reply; Close and cancellation end calls; the read
  loop never blocks; a handle that was returned works; a call that fails leaves
  nothing behind at the server;
* *wire, sessions and files*: the two ends agree on dialect and size; what is sent
  arrives as it was sent and fits; reads, writes and listings of several messages
  are exact, and offsets survive concurrent use;
* *remote mounts*: a fid that was established works until it is released, and its
  remote fid is given back;
* *namespace*: listing, Resolve and HostPath agree with Walk; a clone is
  independent; dev numbers are not reused; the log tells what is bound.

`PROJECT.json` lists each hazard with the line where it bites.

## The modules

**ServerConn** models `conn.serve`, `dispatchOne`, `handle` and every handler. A
request is named by the order in which it was read, an openFile and a File by
the request that created them. `pc[r]` is where request r's goroutine is:
`queued` (waiting for a slot), `running`, `found` (the fid was looked up),
`file` (the openFile was dereferenced), `reply`, `cleanup`, `done` or
`dropped`. Each shared-memory access that another goroutine can come between is
a step: the lookup in `fids`, the openFile, the backend call, `putFid`, the
reply, the deferred cleanup. One step each are: the critical sections, Tflush's
lookup with the cancel that follows it (nothing can observe the difference but
a cleanup of the same request), and the stores of `tVersion` (a handler that reads the fid table between
them and the dialect after them, or the other way round, is taken to have done
both on one side), and marshalling a reply in the dialect of the moment and writing it.
What a backend call returns is free: an error, a new File, or for an attach, a walk and
a create also one that it has returned before, as `clientFile` does for ".." at
the root. `shared` remembers the Files that were handed out again; only what `Clone`
returns is always new, which is what Cloner promises. A backend that hangs is a step
that is never taken. The ConnContext is taken to be `context.Background`. The
client is the environment: it sends any message of `Messages`, under a tag that
is free by the rules of the protocol, and a Tversion at any time, whatever is still
running; after a Tversion it waits for the Rversion, and takes what was outstanding
as aborted (`Aborted`). `TagReuse` says whether it ever uses the
tag of a finished request again, which `callMux` does after its counter has
wrapped.

**RequestContract** is what the connection promises about each request, without
goroutines, slots or fids: read in order, then answered once, withdrawn (only if
some Tflush names it) or lost with the connection. `ServerConn!ContractHolds`
states that ServerConn implements it: `Fate` maps each request's goroutine and
reply to one of these states, `FlushTargets` are the requests that Tflushes name,
and the contract's connection is open as long as the read loop is.

**CallMux** models `callMux` and `Client.rpc`, `call`, `flush`, `readLoop` and
`Close`. A channel is named by the call and by whether it waits for the reply or
for the Rflush. The server answers every request at most once, in any order;
`LateReplies` says whether also after the Rflush (this library's server does).
The critical sections of the mux are single steps; so is `deliver`, whose send
goes to a channel of capacity one that `PendingFresh` shows to be empty, and so
is Close, whose two halves differ only for writers that are about to fail.
`NoTag` is the tag type's greatest value, 65535 in the code and a small number
in the instances; the search for a tag wraps at its width. `robbed` is a history
variable: the channels whose entry somebody else took out of the table, another
call's `forget` or the reply to another request. `RightReply` speaks of it.

**ClientFids** models what calls do to fids: `Attach`, `Walk` with its batches of
`MaxWElem`, `Open`, `Create` and `Symlink` by path with their clean-up, and
`Clunk`, `Remove` and `Create` on a Fid. Each rpc is a request at the server and
a reply, with the server's handlers reduced to the fid table. A request that is
cancelled is dropped if it had not started, and otherwise runs on and still has
its effect (as in ServerConn); this includes a Twalk that puts its new fid after
that was clunked. Errors come from anywhere, also from the client itself before
anything is sent (`registerFails`: no free tag). `spoiled` remembers the fids of
cancelled calls and those whose Tclunk or Tremove was never sent.

**Wire** is the codec as operators. A string is its length. An encoding is a
sequence of cells, one for each thing the encoder writes, and the decoder may cut
a cell in two, which is how a message read in the wrong dialect goes wrong. Each
message type is the list of its fields' kinds, and `isMessage` says what its struct
can hold; lengths that the code narrows to 16 bits wrap.

**MemFS** is memfs and `MarshalDirVersion` as operators on a file system, which is
the sequence of its nodes by qid path. Names are lengths, too, and sort as
such. Each method runs under `FS.mu` and is one step of its caller.

**Session** is one connection: `NewClient` with its fallback, both read loops with
their size limits and dialects, and how either end gives up. A message on its way
is what was marshalled and in which dialect; the receiver decodes the bytes that
makes with the dialect and the limit it has by then. The limit is read before the
read blocks, so it may be the one from before the handshake. Besides this
library's server there are four others: one that knows only 9P2000, one that
answers every version with 9P2000, one that knows neither, and one that answers
with an error. Tversion in mid-session is ServerConn's subject.

**FileIO** puts `client.File`, a Session, the handlers and a MemFS together. A call
is the series of its rpcs; between a request and its reply others run. A scenario
fixes the options of both ends, the file's contents, a symlink's target and the
calls that goroutines may make. `res` is the last call that ended, with the file
and the directory as they then were, and `clean` whether anybody else changed
them meanwhile: that is what the properties compare results with. Calls are not
cancelled here (that is CallMux's and ClientFids' subject).

**RemoteMount** is `ns/fid.go` under the handlers of a front server. A step is one
rpc to the remote server with what its caller does until the next; `f.mu` is
explicit. An rpc succeeds, is refused, or, once its request has been flushed, is
lost: the call fails and the remote server has carried it out. `Read` and `Write`
use no ctx and cannot be interrupted. `shared` remembers clientFiles that ".." at
the root has returned a second time, `moved` the remote fids whose file a rename has
moved, and `dropped` the remote fids that the code lets
go of without a clunk, recorded at the step where it does. What the remote tree
holds is free up to `MaxDepth`: a walk may also find another file where one was renamed
from. A rename (`WStat`) takes the fids at the file and below it along and leaves every
clientFile's path as it is. `Asked` are the requests that can reach a
clientFile, over any path elements (`Names`, of which "x" is the file that a
Tcreate makes); an instance picks `Requests` out of them.

**Namespace** models the bind tree. A node is a namespace and a path, a layer what
BindFS or BindPath put there. `walkNode` and `listNode` are `nsFile.Walk` and
`listLocalDir` at a node, given how the roots of its layers are walked and listed;
`Walks` and `Lists` apply them over and over, from a node to the nodes its path
binds refer to and last into a FileSystem, up to `Depth`, which is one more than
there are nodes. `resolve` and `HostPaths` translate `resolve` and `HostPath`;
`hostStep` is one round of the latter's loop, and `below` the walk of the first name
outside the tree, one level further down. All of these read one
state, whereas the code takes a node's lock at a time. A bind is three steps, as
it has three locks: node and number, layers, log. Making the nodes of the path
and taking the number are one step (they touch different state; a bind whose
nodes are half made is not distinguished). Clone copies node by node, holding
the read locks of the nodes above (`Locked`), after it has read the counter. What
a FileSystem contains is fixed (`Content`); it may become unreachable (`Flaky`).
The instances bind no path in a cycle: the code recurses without end on one, and
`Walks` gives up at `Depth`. A layer's dev is its number modulo `DevRange`, 2^32 in
the code and a small number in the instances; in `ns_binds` the counter runs past it. `raced` remembers
which namespaces had overlapping calls, `outrun` the clones whose original gave out a
number while they were being made, and the clones of those. A path bind's source is
taken to be written from the root: one without its leading "/" has no host path in the
code (`hostpath.go:72`). `Replay` is what the entries of a log tell, `Shown` what they should.

`MC*` modules hold the message sets, paths and requests of the instances and
their symmetries. Faulty variants of some definitions, in a section of their own or
right before the definition they vary, show for each property a slip that it
detects; they are not part of any specification.

## The runs

| run | checks | instance |
|---|---|---|
| `server_flush` | `TypeOK`, `SlotBound`, `FlushReaches`, `ReplyDialect`, `ContractHolds` | 5 messages: attach, renegotiation in two versions at any time, flushes of any tag; one slot; the transport may fail |
| `server_fids` | `FileLive`, `NoDoubleClose`, `OneOwner`, `EstablishedFidWorks`, `ReleasedStaysReleased` | 4 messages of every kind that touches the table, two fids, no cap; a backend that may return known Files |
| `server_live` | `FlushAnswered`, `FlushedLeavesQueue`, `EveryRequestEnds` | 4 messages, one slot, fair |
| `server_reuse` | `FlushReaches` is violated | as above, tags reused |
| `mux_cancel` | `TypeOK`, `PendingFresh`, `RightReply`, `NoFreeTagsAlmostTrue` | 3 calls, tags 0 to 2 (`NoTag` = 3), fewer than the calls and their flushes need; cancellation, failure, Close |
| `mux_live` | `CloseFailsOutstanding`, `AnsweredOrCancelledReturns` | 2 calls, 4 tags (no reuse), fair, late replies |
| `mux_hang` | `CloseFailsOutstanding` is violated | 2 calls, 2 tags, fair |
| `client_fids` | `TypeOK`, `HandleWorks`, `LeaksExplained` | 2 goroutines, 4 calls, 3 fids, a path of two batches |
| `ns_binds` | `TypeOK`, `ListingMatchesWalk`, `ResolveMatchesWalk`, `AliasesStayHome`, `DevNeverReused`, `LogFaithful`, `HostPathNamesWalked` | 2 goroutines, 4 calls out of 8 (unions, an alias of a tree and one of a union, read-only, unbind, clone), a file system that fails, a log of 2, devs of 2 bits |
| `ns_clone` | `AliasesStayHome` is violated | an alias of an alias, then Clone |
| `file_io` | `TypeOK`, `SessionAgrees`, `NothingMisread`, `IOFits`, `IOExact`, `OffsetAccounts`, `ReadDirComplete` | 14 scenarios, 2 goroutines, 3 calls |
| `graft` | `TypeOK`, `FrontFidWorks`, `NoFidLost` | 3 handlers, 4 requests, 2 front fids, paths of 2 names |

Why the bounds are enough: the races of the server need a request, one or two
that compete for its tag, fid or slot, and a Tflush or Tversion; the handshake
takes the first message. One slot is the smallest cap at which requests queue
behind a stuck one. The mux's races are between two calls and the read loop; the
third call of `mux_cancel` makes the counter wrap while tags are in use. A walk
of two batches has a first and a later batch, and each batch of two names can be
short. In a namespace, two binds give a union or an alias, and a clone and one
more bind tell copy and original apart. In `file_io`, message sizes are chosen
around the edges: 23, 24 and 26 bytes, where `maxIO` is 1, 1 and 2; 110 and 120,
where a directory of three takes two or three reads, or an entry does not fit; 0 and
8192. Three calls are two that overlap and one that sees what they left; the calls
include names of 65500 and 70000 bytes, at which a Stat's size wraps and a string
is cut. In `graft`, a fid takes one or two requests to establish and two compete
for it; the third handler lets a clunk overlap both. `graft` and `file_io` check
for deadlock, with an explicit step for a program that is finished; the others do
not: a connection that has read its last message, and a program that has made its
last call, stop.

*Fairness.* `server_live` assumes that a request's goroutine that can run does
(`WF` of `Local`, which excludes backend calls); `EveryRequestEnds` in addition
assumes that backend calls return, while the other two hold with a backend that
never does. No fairness is assumed of the client or the transport.
`mux_live` and `mux_hang` assume that the client's goroutines run and that the
server answers each Tflush, which is `FlushAnswered`; they assume no answer to
anything else, no cancellation and no Close.

## What the runs found

* **A flush can miss its request** (`server_reuse`). `handle` writes the reply
  before its deferred cleanup deletes `inflight[tag]`. A client that reuses the
  tag at once has its new request's cancel function deleted.
* **A call may hang through Close** (`mux_hang`). When the reply and the
  cancellation race, deliver frees the tag, another call takes it, and the
  cancelled call's last `forget(tag)` removes the other call's entry.
* **A clone follows the original** (`ns_clone`). `remapFile` does not look inside
  an nsFile that delegates to another, so an alias of an alias keeps its node of
  the original namespace.

Some properties hold only under a condition that they state, because the code
needs it. `FlushReaches` holds without tag reuse. `RightReply` allows a call the reply
to another request if that request was abandoned (its call returned without an
Rflush of its own, or with one from a server that answers late) or robbed of its
entry. `NoFreeTagsAlmostTrue` says "almost" because `register` makes
one try fewer than there are tags. `LeaksExplained` allows for cancelled calls
(`Walk` does not clunk after a failure of its first batch, and `ClunkContext`
runs under the ctx that is already done) and for a Tclunk or Tremove that finds no free
tag. `FileLive`, `NoDoubleClose` and `OneOwner` are about the Files a backend has handed
out once: the server closes what it is given for each fid, and if a walk returns a known
File (`clientFile` does at the root), a clunk of one fid closes the File of the other.
`ReplyDialect` allows an old request to be answered in the dialect of a Tversion that
overtook it, because `writeReply` reads the dialect when it writes. `DevNeverReused`
holds however calls overlap, except for a clone whose original gave out a
number while it was being made, which `outrun` names, and until the counter passes
what a dev can hold. The replay in `LogFaithful` excludes namespaces whose calls overlapped: layers and log are updated
under different locks.
`HostPathNamesWalked` is for namespaces in which every path bind's source is still
what it was when bound, and takes a bind of several sources as the
union that the code makes of it. `IOFits` is for message sizes of 24 and more (and 0,
which is no limit): below, `maxIO` is 1 and a Twrite does not fit. `NothingMisread` leaves out Stats of
64K and more, whose 16-bit size wraps and whose receiver drops the connection.
`IOExact` and the first half of `ReadDirComplete` are about calls during which
nobody else changed what they read; a Read of an empty buffer returns EOF wherever it
is in the file, which `IOExact` allows. `FrontFidWorks` leaves out clientFiles that ".."
at the root returned again: they have two fids, and clunking one ends both. After a
rename it asks only that the remote fid is there and open if it should be, not that the
clientFile's path is where it is. `NoFidLost` names the places where
remote fids are left behind: the files between the names of one Twalk, a walk in
place, Tcreate's directory, a Stat that fails after its walk, a flush.

More places where code and comments part were met, which no run is about.
`client.go:198` says that a reply which still arrives for the flushed tag is
dropped by `deliver`, "since forget removes it from the pending table first".
forget also frees the tag, so a reply that this library's server writes after the
Rflush (`conn.go:184`) goes to the tag's next holder once the counter has come
round; `Abandoned` in `RightReply` makes room for exactly this.
`server.go:130` says that a request gets no reply when it is flushed after starting;
a handler that is running always replies, and may do so after the Rflush (ContractHolds
allows for it). `binds.go:33` says that replaying Binds top to bottom
respects the order of sources; bind X at /b, Y at /a and /a after /b, and the list
has the layer taken from /a before /a. And `OnBind` says "in order", while the hook
is called after the log's lock has been released.

The following contradicts a comment too. TLC reaches each of these states in the
models, given the calls named, and the properties' conditions leave them out.

* *A Tversion does not end what it aborts.* `conn.go:187` says that tVersion resets
  the fid table. It empties it, and a Tattach or Twalk read before the Tversion puts
  its fid into the new table afterwards.
* *A clone can give out a dev twice.* A dev "is never reused" (`dev.go:31`). `Clone` reads
  the counter before it copies the layers; one bound in between is copied with a
  number that the clone has yet to give out.
* *HostPath answers for a union of sources*, where its doc says that it fails, "rather
  than guessing" (`hostpath.go:51`): it takes the first source that serves the path.
* *HostPath follows a source that was rebound*: it looks the path up again, whereas a
  walk reads the File that was captured. So it does not always name "the file a real
  Walk reads" (`hostpath.go:54`).
* *A Clone after a rename is elsewhere.* Clone "returns a new File positioned at the same
  file as the receiver" (`server.go:85`); `clientFile.Clone` walks the path that the
  file had before a Twstat renamed it, and finds nothing or another file.
* *Concurrent reads of a grafted fid.* Read follows "io.ReaderAt-like conventions"
  (`server.go:29`), but `clientFile.Read` is a Seek and a Read of a shared File, and another Tread may seek in
  between.

## What is proved

The theorems hold for every set of messages, tags, fids, names and paths, every cap,
batch size and tag width, and any number of requests, calls, goroutines and
handlers. They rest on the named ASSUMEs of the component's module, which say
no more than that the constants have the right kind (TLC evaluates them on the
instances), and on the library's theorems about finite sets and sequences. `Extrema`
holds the lemmas about least and greatest elements that a CHOOSE of a first or last
candidate needs, and what follows from them: a step that is taken N times goes
through a sequence of values (`StepsExist`, `StepsStay`), what holds at 0 and goes on
from each number to the next holds up to N (`UpTo`), and what holds of the empty
sequence and goes on to one that is longer by an element holds of all (`EverySeq`).
They stand in for induction over data: they speak of sets, not of a predicate.

| module | theorems (and the property each states) |
|---|---|
| `ServerConnProofs` | `TypeCorrect` (`TypeOK`), `SlotsBounded` (`SlotBound`), `OwnerInvariant` (`OneOwner`), `FilesLive` (`FileLive`), `ClosedOnce` (`NoDoubleClose`), `ReleasedFidsStayReleased` (`ReleasedStaysReleased`), `EstablishedFidsWork` (`EstablishedFidWorks`), `FlushesReach` (`FlushReaches`), `RepliesInDialect` (`ReplyDialect`), `ContractRefined` (`ContractHolds`) |
| `CallMuxProofs` | `TypeCorrect` (`TypeOK`), `ChannelsFresh` (`PendingFresh`), `TagsAlmostExhausted` (`NoFreeTagsAlmostTrue`), `RepliesRouted` (`RightReply`) |
| `ClientFidsProofs` | `TypeCorrect` (`TypeOK`), `HandlesWork` (`HandleWorks`), `LeaksAreExplained` (`LeaksExplained`) |
| `WireProofs` | `MessagesRoundTrip`, `PlainEitherWay` (what `NothingMisread` rests on) |
| `FileIOProofs` | `SessionInvariant`, `Typed` (`TypeOK`), `EndsAgree` (`SessionAgrees`), `MisreadsNothing` (`NothingMisread`), `OffsetsAccounted` (`OffsetAccounts`), `IOAlwaysFits` (`IOFits`), `IOIsExact` (`IOExact`) |
| `RemoteMountProofs` | `TypeCorrect` (`TypeOK`), `FrontFidsWork` (`FrontFidWorks`), `FidsNotLost` (`NoFidLost`) |
| `NamespaceProofs` | `TypeCorrect` (`TypeOK`), `DevsNeverReused` (`DevNeverReused`), `LogTold` (`LogFaithful`), `ListingsMatch` (`ListingMatchesWalk`), `ResolvesAnyPath`, `ResolvesMatch` (`ResolveMatchesWalk`), `HostPathsName` (`HostPathNamesWalked`, if path binds form no cycle), `AliasesHome` (`AliasesStayHome`, if no alias was bound through another) |

**The server, one state at a time** (`ServerConnProofs`). `Base` adds to `TypeOK` that
a request is unread exactly while it is not in `recv` (`ReadInv`), that a handler
past its lookup has an openFile (`FoundInv`), and that the requests holding a slot
are the ones in a handler that had to take one, `sem` being their number
(`SlotInv`). Without `SlotInv` the cap is not inductive: nothing would tie the
semaphore's count to the handlers. `OneOwner` says that each File the backend has
handed out once belongs to one
openFile or to one handler that is about to put it somewhere, and each openFile to
one fid or to one handler that took it from the table; a File being closed has no
other owner. It gives `FileLive` and `NoDoubleClose`, for a cloning backend.

**The server over time.** `History` says
of every request that its reply was written by a goroutine past its handler
(`Ended`), that what the client had seen answered was answered (`Seen`), and that
`inflight` holds the last request read under a tag, if any (`Latest`). On it rest
`Gone` (once a release of a fid has run, the fid names no openFile that the client
had seen established when it sent the release) and `Standing` (a fid that was
established still names something, or was released by a request that was not
answered yet when the one that established it was read). The
second half of the argument is about the client: `Client` collects what the rules of
the protocol make true of any two requests (`Versions`, `Held`, `Opening`), and that
`inflight` has every request that is still at it if no tag is used twice (`Unique`).
`FlushesReach` has the hypothesis `~TagReuse`; the run `server_reuse` shows that the
code needs it. `Spoken` ties the connection's dialect to the last Tversion whose
handler has run, and gives `ReplyDialect`. For the refinement, `Withdrawable` says
that a queued request whose ctx is done was named by a Tflush that has been read;
every step of ServerConn is then a step of RequestContract under `Fate` or leaves
all fates alone. Tags may be reused there.

**The multiplexer** (`CallMuxProofs`). `Base` adds to `TypeOK` that a channel in the
table is empty, open, under its own tag and its owner still at it (`Registered`), and
that one not yet registered was never sent to (`Unused`). `TagsAlmostExhausted` is
arithmetic: the tries of `register` meet every tag but one, wherever the counter
stands. `Route` is the invariant behind `RightReply`: a call that is at it keeps its
entry until it is answered, dropped or robbed (`Kept`), an Rflush means that the
request is settled (`Dropping`, `Arrived`, `Returned`), so whatever is answered later
goes to a channel that is its own or is a stray (`Own`).

**Client fids** (`ClientFidsProofs`). `Matched`: a goroutine has at most one request at
the server, the one it waits for, and every other is left over from a cancelled call.
`Own`: a fid that is being established is known to its call only. `Settled`: nobody
else's request changes a fid that may yet be returned. These make `Placed`
inductive, which says after each batch and rpc where the fid is at the server;
`Rooted` is the same for the fids that walks start from. `HandleWorks` follows when
the call returns. `Accounted` (each fid of the table is in the hands of a program, of
a call, or spoiled by a cancellation or a clunk that was not sent) gives
`LeaksExplained`.

**The codec** (`WireProofs`). What the encoder writes is a sequence of runs of bytes
(`Bytes`). `Size` is additive over them, and cutting off what was written first
returns it and leaves the rest; from that each kind of field is shown to be taken back
by its decoder in front of any rest, a Stat as its fifteen fields and a list as its
elements by `EverySeq`. A message is its fields one after the other
(`MessagesRoundTrip`), with the one exception that the code has: the 16-bit size in
front of a Stat. The second part of the module shows that the file system stays a
tree of nodes (`Tree`) through every method of MemFS, and how much a read returns,
entries of a directory included.

**Sessions and files** (`FileIOProofs`). The invariant `IInv` has four parts, and TLC
checked it on every state of `file_io` before it was proved. `SessionInv` says, phase by
phase, what can be on its way: before the handshake nothing, during it one question or
one answer in the server's dialect (`Versioning`), after it requests and replies of
the agreed dialect whose counts are within `maxIO` (`Agreed`, `OnWay`). `CallsInv` says
where a call is within what it was asked for (`Midway`), that only a Seek that waits
holds `File.mu` (`Lock`), and that the program's first rpcs run alone (`StartsAlone`).
`OneMessage` says that a goroutine's message is in one place only, and `Served` that
the tree and the fids are intact. None of them is inductive alone: a message is read
correctly because of the dialect it was written in, which follows from the phase of the
handshake; a handler keeps the tree intact because the request it has is well formed,
which follows from the call that made it; and `maxIO` stays what it was for a request on
its way because the size is agreed only once. Each handler is
then shown to make an `Outcome` (a tree, fids, and a reply of the right kind and size),
and each reply to end the call (`Ended`) or to let it ask again (`Asked`).

`IOIsExact` needs a second invariant beside `IInv`, `EInv`, which TLC also checked on
every state of `file_io` first. `FilesInv` says that the fid of the program's file, once
it is bound, stays bound to that file and that the file does not become a directory: the
requests of the program's start bind it, which run alone and on a tree nobody has
changed yet, and no later request may make it again (`Fitting`). `Exactly` says of each
call that waits what it has read or written so far (`SoFar`), that a request on its way
is the one for the next part of its buffer, and that a reply on its way holds the
file's bytes there, or follows a write that put the call's bytes there (`Answers`);
each of these only while the call is `clean`, that is as long as nobody else has
changed the file since it began. The server's step from a request to its reply
relates these two, and its write takes `clean` from everybody else.

The assumptions are that a scenario's options are message sizes and one of the two
versions (`ScenariosAssumption`), that NOTAG is nobody's tag (`TagAssumption`), and
that calls are made with offsets, lengths and messages as Go's types have them and
with fids that `allocFid` has not given out before (`CallsAssumption`).

The proofs led to corrections of the model. Two CASE expressions had arms that overlap
(what a message may arrive as, and the dispatch of a request), which TLC takes in order
and the semantics of TLA+ leaves open; they are now disjoint. And a call with an empty
buffer sent a request, whereas the loops of readAt and writeAt send none; `file_io`
now has such calls.

**Remote mounts** (`RemoteMountProofs`). `Shape`: tables refer to what exists, and
which request is at which label. `Locks`: `f.mu` is held by exactly the handler that
is in an rpc under it. `News`: a remote fid being made is known to its maker only.
`Fronts`: each openFile has one fid and each
clientFile one openFile, unless shared; what a handler releases is not in the table;
what a Twalk has got to beyond its start is its own. `InPlace`: the remote fids of
front fids, of such walks and of creates about to finish are there. Neither `Fronts`
nor `InPlace` is inductive without the clauses about walks: a Twalk of several names
has clientFiles that no fid names yet. `Accounted`: a remote fid is named, in a
handler's hands or dropped. Where the remote fids are is a layer of its own on top
(`Located`: a remote fid whose file no rename has moved is at the path its clientFile
or its maker has for it). The module's steps are first reduced to what they do
(`Makes`, `Quits`, `Finishes`, `Sets`, ...); each part of the invariant then has one
lemma for the steps that do not concern it and one for each of the others.

**Namespaces: binds, log and clones** (`NamespaceProofs`). `Inv` adds to `TypeOK` what
the call a goroutine is in looks like (`JobOK`: among the rest, that a clone has
copied a part of the original's tree that is closed under parents), that namespaces are
made one at a time (`LiveOK`), that a namespace on which no calls overlapped has one
goroutine in it at most (`AloneOK`), and that what a Clone of such a namespace has copied
is still as it was (`CopyOK`). The log's half is `ToldOK`: as long as
nothing was dropped, the log tells what is bound, but for the one entry that its
goroutine is about to write.

**Namespaces: numbers.** `DevNeverReused` is about overlapping calls too, and has an
invariant of its own, `Numbers`, which TLC checked first. In a namespace that is not
`outrun`, the layers that are bound (`BoundOK`), the ones that goroutines have numbered
and not yet added (`AddOK`) and the ones that a clone has copied (`FollowOK`) have numbers
that the counter has given out, and no two of them in different places share one. The
point is that nodes are copied at different times: a number never moves from one node to
another, so what was copied from one node earlier has none in common with what is at
another now. `FollowOK` speaks of clones for which the counter still is what they read
(`Following`); a bind ends that, and `Behind` (no clone has read more than the counter
has) keeps it ended. A dev is the number itself below `DevRange`.

**Namespaces: what the readers find.** A walk through path binds is a recursive
function. `StepsExist` gives such a function, so that `Walks`, `Lists`, `HostPaths`,
`walkAll` and `Replay` satisfy their equations, and facts about them go up
with `UpTo` from a depth to the next and with `EveryPath` from a path to one that is
longer by a name. `ListingsMatch` then needs `TypeOK` alone: at each depth a
directory lists what a walk of that depth finds, with the same dev. It therefore
speaks of cycles too, for a walk and a listing that both give up at `Depth`.
`ResolvesAnyPath` needs that every namespace has its root node (`Rooted`), and is
about all paths, whereas TLC looks at those of three names; the argument is that what a layer serves
for a path is what the walk through the tree gets there, but for `ro` and `dev`.

Two theorems have a hypothesis. `HostPathsName` is for states in which path binds
form no cycle (`Acyclic`: the nodes can be ranked such that a path bind refers to a
node of a lower rank). Otherwise the code's Walk has no result to compare HostPath
with. Under `Acyclic`, a walk of `Depth` and one of `Depth - 1` agree, so that
following a source by its path and following the File that was captured lead to the
same place; every state of `ns_binds` satisfies it, those with aliases of aliases
too. `AliasesHome` is for states in which no alias was bound through another
(`AliasesDirect`), which the run `ns_clone` shows to be needed. Its invariant `HomeOK`
follows the aliases through a Clone: while it copies they refer to nodes of the
original, and when it remaps them it has copied each of these nodes.

Only model-checked:

* liveness (`server_live`, `mux_live`), since fairness is out of the prover's reach;
* `HostPathNamesWalked` and `AliasesStayHome` without the hypotheses above: the first
  compares with a walk that need not end, the second is violated (`ns_clone`);
* `ReadDirComplete`: it follows the entries of a directory through a listing of several
  messages, each cut where an entry no longer fits, by induction over the entries.

## Not modelled

* `examples/dirfs` is a translation of requests into operating-system calls, and
  the commands in `cmd/` parse arguments and copy bytes.
* `Serve`'s accept loop, `ConnContext` and `Dial`: connections share nothing but
  the FileSystem.
* Of the namespace: `Binds`, `OnBind` hooks (one more step for each bind takes the
  instance out of reach), `NamespaceBound` file systems, `Subtree`, `Unstamped`,
  Create, Open and Write through unions, the refusals of `roFile`, and cycles of
  path binds, on which the code recurses without end.
* Of memfs: walks to "..", times, permission bits, and OTRUNC (an Open does not change
  the contents; no call of the scenarios opens a file with it). Of Wire: type numbers, error
  texts, `String` methods. Of remote mounts: bytes, the dialect of listings (they
  are relayed in the dialect of the remote connection), and the loss of the
  connection to the remote server.
* Small effects of the size limit other than on file I/O: an Rstat, Rwalk or
  Rerror that exceeds a very small msize makes the client give the connection up
  (Session shows it; no property excludes it).

## Plan

1. *Namespace, rest*: `Binds` with replay, hooks, Create through unions.
2. *Files*: prove `ReadDirComplete`, as `IOExact` was proved: from an invariant that says
   which entries a listing has returned so far while nobody else changed the directory.
