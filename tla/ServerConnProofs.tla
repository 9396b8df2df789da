-------------------------- MODULE ServerConnProofs --------------------------
(***************************************************************************)
(* Proofs about ServerConn for every set of tags, fids and messages, every *)
(* number of requests and every concurrency limit: first what holds of one *)
(* state, then what relates a request to earlier ones, and last what rests *)
(* on the client's side of the contract, with the refinement.              *)
(***************************************************************************)
EXTENDS ServerConn, Extrema, FiniteSetTheorems, SequenceTheorems, TLAPS

\* serve reads requests one after the other, and a goroutine exists exactly for
\* the requests that were read; nothing was read before the handshake.
ReadInv ==
    /\ phase = "hello" => recv = <<>>
    /\ \A r \in Reqs : pc[r] = "unread" <=> r \notin Read

\* A handler that found its openFile has one.
FoundInv == \A r \in Reqs : pc[r] \in {"found", "file"} => of[r] # 0

\* The requests holding a slot are the ones in a handler that had to take one,
\* and sem counts them.
Holders == {r \in Reqs : slot[r]}
SlotInv ==
    /\ \A r \in Reqs : slot[r] <=> InHandler(r) /\ ~Exempt(r)
    /\ sem = Cardinality(Holders)

Base == TypeOK /\ ReadInv /\ FoundInv /\ SlotInv

\* The holders are finitely many, so sem counts them in Nat.
LEMMA HoldersFinite == IsFiniteSet(Holders)
  <1>1. IsFiniteSet(1..MaxReqs)
    BY FS_Interval, MaxReqsAssumption
  <1> QED
    BY <1>1, FS_Subset DEF Holders, Reqs

\* Init establishes the base invariant.
LEMMA BaseInit == Init => Base
  <1> SUFFICES ASSUME Init PROVE Base
    OBVIOUS
  <1> USE DEF Init
  <1>1. NetTypeOK /\ CtxTypeOK
    <2>1. /\ recv \in Seq([tag : Tags, msg : Messages, seen : SUBSET Reqs])
          /\ Len(recv) <= MaxReqs
      BY MaxReqsAssumption
    <2>2. NetTypeOK
      BY <2>1 DEF NetTypeOK
    <2>3. CtxTypeOK
      BY MaxReqsAssumption, ConcurrencyAssumption DEF CtxTypeOK
    <2> QED BY <2>2, <2>3
  <1>2. FidTypeOK /\ GoTypeOK
    BY MaxReqsAssumption DEF FidTypeOK, GoTypeOK
  <1>3. ReadInv /\ FoundInv
    BY DEF ReadInv, FoundInv, Read
  <1>4. Holders = {}
    BY DEF Holders
  <1>5. SlotInv
    BY <1>4, FS_EmptySet DEF SlotInv, InHandler
  <1> QED
    BY <1>1, <1>2, <1>3, <1>5 DEF Base, TypeOK

\* What the read loop records of a request is well formed.
LEMMA RequestType ==
    ASSUME Base, NEW t \in Tags, NEW m \in Messages
    PROVE  Request(t, m) \in [tag : Tags, msg : Messages, seen : SUBSET Reqs]
  BY MaxReqsAssumption DEF Base, TypeOK, NetTypeOK, Request, Read, Reqs

\* The base invariant is kept by the read loop.
LEMMA BaseServe ==
    ASSUME Base, NEW t \in Tags, NEW m \in Messages,
           serveHello(t, m) \/ serveRefuse(t, m) \/ serveRead(t, m)
    PROVE  Base'
  <1> USE MaxReqsAssumption, ConcurrencyAssumption DEF Base, TypeOK
  <1>0. Request(t, m) \in [tag : Tags, msg : Messages, seen : SUBSET Reqs]
    BY RequestType
  <1>1. CASE serveHello(t, m)
    <2>1. NetTypeOK'
      BY <1>0, <1>1 DEF NetTypeOK, serveHello, tVersionStores, ReadInv, Reqs
    <2>2. CtxTypeOK' /\ FidTypeOK'
      BY <1>1 DEF NetTypeOK, CtxTypeOK, FidTypeOK, serveHello, tVersionStores, ctxVars, fidVars, Reqs
    <2>3. GoTypeOK'
      BY <1>1 DEF GoTypeOK, serveHello, Dialect, Dialects
    <2>4. ReadInv'
      BY <1>0, <1>1 DEF NetTypeOK, GoTypeOK, ReadInv, serveHello, Read, Reqs
    <2>5. FoundInv'
      BY <1>1 DEF GoTypeOK, FoundInv, serveHello
    <2>6. SlotInv'
      BY <1>0, <1>1 DEF NetTypeOK, GoTypeOK, ReadInv, SlotInv, serveHello, Holders, InHandler, ctxVars, Exempt, Is, Msg, Read
    <2> QED BY <2>1, <2>2, <2>3, <2>4, <2>5, <2>6
  <1>2. CASE serveRefuse(t, m)
    <2>1. NetTypeOK'
      BY <1>0, <1>2 DEF NetTypeOK, serveRefuse, ReadInv, Reqs
    <2>2. CtxTypeOK' /\ FidTypeOK'
      BY <1>2 DEF NetTypeOK, CtxTypeOK, FidTypeOK, serveRefuse, tVersionStores, ctxVars, fidVars, Reqs
    <2>3. GoTypeOK'
      BY <1>2 DEF GoTypeOK, serveRefuse, Dialect, Dialects
    <2>4. ReadInv'
      BY <1>0, <1>2 DEF NetTypeOK, GoTypeOK, ReadInv, serveRefuse, Read, Reqs
    <2>5. FoundInv'
      BY <1>2 DEF GoTypeOK, FoundInv, serveRefuse
    <2>6. SlotInv'
      BY <1>0, <1>2 DEF NetTypeOK, GoTypeOK, ReadInv, SlotInv, serveRefuse, Holders, InHandler, ctxVars, Exempt, Is, Msg, Read
    <2> QED BY <2>1, <2>2, <2>3, <2>4, <2>5, <2>6
  <1>3. CASE serveRead(t, m)
    <2>1. NetTypeOK'
      BY <1>0, <1>3 DEF NetTypeOK, serveRead, Reqs
    <2>2. CtxTypeOK' /\ FidTypeOK'
      <3>1. CtxTypeOK'
        BY <1>3 DEF NetTypeOK, CtxTypeOK, serveRead
      <3>2. FidTypeOK'
        BY <1>3 DEF FidTypeOK, serveRead, fidVars
      <3> QED BY <3>1, <3>2
    <2>3. GoTypeOK'
      BY <1>3 DEF GoTypeOK, serveRead, Dialect, Dialects
    <2>4. ReadInv'
      BY <1>0, <1>3, SMTT(40) DEF NetTypeOK, GoTypeOK, ReadInv, serveRead, Read, Reqs
    <2>5. FoundInv'
      BY <1>3 DEF GoTypeOK, FoundInv, serveRead
    <2>6. SlotInv'
      BY <1>0, <1>3 DEF NetTypeOK, GoTypeOK, ReadInv, SlotInv, serveRead, Holders, InHandler, ctxVars, Exempt, Is, Msg, Read
    <2> QED BY <2>1, <2>2, <2>3, <2>4, <2>5, <2>6
  <1> QED BY <1>1, <1>2, <1>3

\* A request that was read carries a message, with the fields of its type.
LEMMA MsgType ==
    ASSUME Base, NEW r \in Read
    PROVE  MessageOK(Msg(r)) /\ recv[r].tag \in Tags
  <1> DEFINE S == [tag : Tags, msg : Messages, seen : SUBSET Reqs]
  <1>1. recv[r] \in S
    <2>1. recv \in Seq(S) /\ r \in 1..Len(recv)
      BY DEF Base, TypeOK, NetTypeOK, Read
    <2> HIDE DEF S
    <2> QED BY <2>1, ElementOfSeq
  <1>2. recv[r].tag \in Tags /\ recv[r].msg \in Messages
    BY <1>1
  <1> QED
    BY <1>2, MessagesAssumption, Zenon DEF Msg

\* The base invariant is kept by a goroutine's steps that leave the semaphore
\* alone and stay inside the handler.
LEMMA BaseHandler ==
    ASSUME Base, NEW r \in Reqs,
           \/ refuse(r) \/ tVersion(r) \/ tFlush(r)
           \/ getFid(r) \/ delFid(r) \/ errUnknownFid(r) \/ openFileGet(r)
           \/ writeReply(r) \/ writeFails(r)
           \/ Backend(r)
    PROVE  Base'
  <1> USE MaxReqsAssumption, ConcurrencyAssumption DEF Base, TypeOK
  <1>0. /\ recv' = recv /\ slot' = slot /\ sem' = sem
        /\ InHandler(r) /\ InHandler(r)'
        /\ phase' = "hello" => phase = "hello"
        /\ \A q \in Reqs \ {r} : pc'[q] = pc[q]
    BY DEF GoTypeOK, InHandler, refuse, tVersion, tVersionStores, tFlush, getFid, delFid, errUnknownFid, openFileGet, writeReply, writeFails, Backend, tAttach, tWalk, tFileIO, tCreate, tClunkRemove, Return, putFid, netVars, ctxVars
  <1>1. NetTypeOK'
    BY <1>0 DEF NetTypeOK, refuse, tVersion, tVersionStores, tFlush, getFid, delFid, errUnknownFid, openFileGet, writeReply, writeFails, Backend, tAttach, tWalk, tFileIO, tCreate, tClunkRemove, Return, putFid, netVars
  <1>2. CtxTypeOK'
    BY DEF CtxTypeOK, refuse, tVersion, tVersionStores, tFlush, getFid, delFid, errUnknownFid, openFileGet, writeReply, writeFails, Backend, tAttach, tWalk, tFileIO, tCreate, tClunkRemove, Return, putFid, ctxVars
  <1>3. FidTypeOK'
    <2>1. r \in 0..MaxReqs
      BY DEF Reqs
    <2>2. CASE Backend(r)
      <3>1. fids' \in [Fids -> 0..MaxReqs]
        BY <2>1, <2>2 DEF FidTypeOK, Backend, tAttach, tWalk, tFileIO, tCreate, tClunkRemove, putFid, fidVars
      <3>2. backendFiles(r) \subseteq 0..MaxReqs /\ walkFiles(r) \subseteq 0..MaxReqs
        BY <2>1 DEF GoTypeOK, backendFiles, walkFiles, Reqs
      <3>3. ofile' \in [Reqs -> 0..MaxReqs] /\ shared' \subseteq 0..MaxReqs
        BY <2>2, <3>2 DEF FidTypeOK, Backend, tAttach, tWalk, tFileIO, tCreate, tClunkRemove, putFid, fidVars
      <3>4. closes' \in [Reqs -> Nat]
        BY <2>2 DEF FidTypeOK, Backend, tAttach, tWalk, tFileIO, tCreate, tClunkRemove, fidVars
      <3> QED BY <3>1, <3>3, <3>4 DEF FidTypeOK
    <2>3. CASE ~Backend(r)
      <3>1. UNCHANGED <<ofile, closes, shared>>
        BY <2>3 DEF refuse, tVersion, tFlush, getFid, delFid, errUnknownFid, openFileGet, writeReply, writeFails, fidVars
      <3>2. fids' \in [Fids -> 0..MaxReqs]
        BY <2>3 DEF FidTypeOK, refuse, tVersion, tVersionStores, tFlush, getFid, delFid, errUnknownFid, openFileGet, writeReply, writeFails, fidVars
      <3> QED BY <3>1, <3>2 DEF FidTypeOK
    <2> QED BY <2>2, <2>3
  <1>4. GoTypeOK'
    <2>1. CASE getFid(r) \/ delFid(r)
      <3>1. Msg(r).fid \in Fids
        BY <2>1, MsgType DEF getFid, delFid, Is, MessageOK
      <3> QED
        BY <2>1, <3>1 DEF GoTypeOK, FidTypeOK, getFid, delFid
    <2>2. CASE openFileGet(r)
      <3>1. of[r] \in Reqs
        BY <2>2 DEF GoTypeOK, FoundInv, openFileGet, Reqs
      <3> QED
        BY <2>2, <3>1 DEF GoTypeOK, FidTypeOK, openFileGet
    <2>3. CASE writeReply(r)
      BY <2>3 DEF GoTypeOK, writeReply, Dialect, Dialects
    <2>4. CASE ~(getFid(r) \/ delFid(r) \/ openFileGet(r) \/ writeReply(r))
      BY <2>4 DEF GoTypeOK, refuse, tVersion, tVersionStores, tFlush, getFid, delFid, errUnknownFid, openFileGet, writeReply, writeFails, Backend, tAttach, tWalk, tFileIO, tCreate, tClunkRemove, Return, putFid
    <2> QED BY <2>1, <2>2, <2>3, <2>4
  <1>5. ReadInv'
    BY <1>0 DEF ReadInv, InHandler, Read, GoTypeOK
  <1>6. FoundInv'
    BY <1>0 DEF FoundInv, GoTypeOK, refuse, tVersion, tVersionStores, tFlush, getFid, delFid, errUnknownFid, openFileGet, writeReply, writeFails, Backend, tAttach, tWalk, tFileIO, tCreate, tClunkRemove, Return, putFid
  <1>7. SlotInv'
    BY <1>0 DEF SlotInv, Holders, InHandler, Exempt, Is, Msg, Read
  <1> QED BY <1>1, <1>2, <1>3, <1>4, <1>5, <1>6, <1>7

\* Deleting an entry of inflight leaves a table of the same type.
LEMMA DeleteInflight ==
    ASSUME CtxTypeOK, NEW x
    PROVE  [inflight EXCEPT ![x] = 0] \in [Tags -> 0..MaxReqs]
  <1>1. ASSUME NEW S, NEW T, NEW g \in [S -> T], NEW v \in T
        PROVE  [g EXCEPT ![x] = v] \in [S -> T]
    OBVIOUS
  <1>2. 0 \in 0..MaxReqs /\ inflight \in [Tags -> 0..MaxReqs]
    BY MaxReqsAssumption DEF CtxTypeOK
  <1> QED BY <1>1, <1>2

\* The base invariant is kept where a goroutine starts or gives up.
LEMMA BaseDispatch ==
    ASSUME Base, NEW r \in Reqs, dispatchNow(r) \/ acquireSlot(r) \/ dropQueued(r)
    PROVE  Base'
  <1> USE MaxReqsAssumption, ConcurrencyAssumption DEF Base, TypeOK
  <1>0. /\ UNCHANGED <<netVars, fidVars, of, file, res, out>>
        /\ pc[r] = "queued" /\ pc'[r] \in {"running", "dropped"}
        /\ \A q \in Reqs \ {r} : pc'[q] = pc[q]
    BY DEF GoTypeOK, dispatchNow, acquireSlot, dropQueued
  <1>1. NetTypeOK' /\ FidTypeOK'
    BY <1>0 DEF NetTypeOK, FidTypeOK, netVars, fidVars
  <1>2. GoTypeOK'
    BY DEF GoTypeOK, dispatchNow, acquireSlot, dropQueued
  <1>3. CtxTypeOK'
    <2>1. CASE dispatchNow(r)
      BY <2>1 DEF CtxTypeOK, dispatchNow, ctxVars
    <2>2. CASE acquireSlot(r)
      BY <2>2 DEF CtxTypeOK, acquireSlot
    <2>3. CASE dropQueued(r)
      BY <2>3, DeleteInflight DEF CtxTypeOK, dropQueued
    <2> QED BY <2>1, <2>2, <2>3
  <1>4. ReadInv' /\ FoundInv'
    BY <1>0 DEF ReadInv, FoundInv, Read, netVars
  <1>5. SlotInv'
    <2>1. CASE dispatchNow(r)
      BY <1>0, <2>1 DEF SlotInv, Holders, InHandler, Exempt, Is, Msg, Read, dispatchNow, netVars, ctxVars
    <2>2. CASE dropQueued(r)
      BY <1>0, <2>2 DEF SlotInv, Holders, InHandler, Exempt, Is, Msg, Read, dropQueued, netVars
    <2>3. CASE acquireSlot(r)
      <3>1. r \notin Holders /\ Holders' = Holders \cup {r}
        BY <1>0, <2>3 DEF SlotInv, CtxTypeOK, Holders, InHandler, acquireSlot
      <3>2. Cardinality(Holders') = Cardinality(Holders) + 1
        BY <3>1, HoldersFinite, FS_AddElement
      <3> QED
        BY <1>0, <2>3, <3>2 DEF SlotInv, CtxTypeOK, InHandler, Exempt, Is, Msg, Read, acquireSlot, netVars
    <2> QED BY <2>1, <2>2, <2>3
  <1> QED BY <1>1, <1>2, <1>3, <1>4, <1>5

\* The base invariant is kept by the deferred cleanup: a slot that is given back
\* was counted.
LEMMA BaseCleanup ==
    ASSUME Base, NEW r \in Reqs, handleCleanup(r)
    PROVE  Base'
  <1> USE MaxReqsAssumption, ConcurrencyAssumption DEF Base, TypeOK, handleCleanup
  <1>1. NetTypeOK' /\ FidTypeOK'
    BY DEF NetTypeOK, FidTypeOK, netVars, fidVars
  <1>2. GoTypeOK' /\ ReadInv' /\ FoundInv'
    BY DEF GoTypeOK, ReadInv, FoundInv, Read, netVars
  <1>3. /\ Holders' = Holders \ {r}
        /\ sem' = Cardinality(Holders') /\ sem' \in 0..MaxConcurrentRequests
    <2>1. Holders' = Holders \ {r}
      BY DEF CtxTypeOK, Holders
    <2>2. CASE slot[r]
      <3>1. Cardinality(Holders \ {r}) = Cardinality(Holders) - 1
        BY <2>2, HoldersFinite, FS_RemoveElement DEF Holders
      <3>2. Cardinality(Holders \ {r}) \in Nat
        BY HoldersFinite, FS_RemoveElement, FS_CardinalityType, FS_Subset
      <3> QED
        BY <2>1, <2>2, <3>1, <3>2 DEF SlotInv, CtxTypeOK
    <2>3. CASE ~slot[r]
      BY <2>1, <2>3 DEF SlotInv, CtxTypeOK, Holders
    <2> QED BY <2>1, <2>2, <2>3
  <1>4. CtxTypeOK'
    <2>1. cancelled' \in [Reqs -> BOOLEAN] /\ slot' \in [Reqs -> BOOLEAN]
      BY DEF CtxTypeOK
    <2>2. inflight' \in [Tags -> 0..MaxReqs]
      BY DeleteInflight
    <2> QED BY <1>3, <2>1, <2>2 DEF CtxTypeOK
  <1>5. SlotInv'
    BY <1>3 DEF SlotInv, CtxTypeOK, GoTypeOK, InHandler, Exempt, Is, Msg, Read, netVars
  <1> QED BY <1>1, <1>2, <1>4, <1>5

\* The base invariant is inductive.
THEOREM BaseInvariant == Spec => []Base
  <1>1. Base /\ [Next]_vars => Base'
    <2> SUFFICES ASSUME Base, [Next]_vars PROVE Base'
      OBVIOUS
    <2>1. CASE Serve
      BY <2>1, BaseServe DEF Serve
    <2>2. CASE serveEnds
      BY <2>2 DEF serveEnds, Base, TypeOK, NetTypeOK, CtxTypeOK, FidTypeOK, GoTypeOK, ReadInv, FoundInv, SlotInv, Holders, InHandler, Exempt, Is, Msg, Read, ctxVars, fidVars, goVars
    <2>3. ASSUME NEW r \in Reqs, Local(r) \/ Backend(r) PROVE Base'
      BY <2>3, BaseHandler, BaseDispatch, BaseCleanup DEF Local
    <2>4. CASE UNCHANGED vars
      BY <2>4 DEF vars, Base, TypeOK, NetTypeOK, CtxTypeOK, FidTypeOK, GoTypeOK, ReadInv, FoundInv, SlotInv, Holders, InHandler, Exempt, Is, Msg, Read, netVars, ctxVars, fidVars, goVars
    <2> QED BY <2>1, <2>2, <2>3, <2>4 DEF Next
  <1> QED BY BaseInit, <1>1, PTL DEF Spec

\* The type invariant, sem within its capacity included, for every instance.
THEOREM TypeCorrect == Spec => []TypeOK
  <1>1. Base => TypeOK
    BY DEF Base
  <1> QED BY BaseInvariant, <1>1, PTL

\* At most MaxConcurrentRequests requests other than Tflush are in a handler, for
\* every limit and every number of requests (dispatchOne, handle).
THEOREM SlotsBounded == Spec => []SlotBound
  <1>1. Base => SlotBound
    <2> SUFFICES ASSUME Base, MaxConcurrentRequests > 0
                 PROVE  Cardinality({r \in Reqs : InHandler(r) /\ ~Is(r, {"Tflush"})})
                            <= MaxConcurrentRequests
      BY DEF SlotBound
    <2> DEFINE Busy == {r \in Reqs : InHandler(r) /\ ~Is(r, {"Tflush"})}
    <2>1. Busy \subseteq Holders
      BY ConcurrencyAssumption DEF Base, SlotInv, Exempt, Holders
    <2>2. Cardinality(Busy) <= Cardinality(Holders)
      BY <2>1, HoldersFinite, FS_Subset
    <2>3. IsFiniteSet(Busy) /\ Cardinality(Busy) \in Nat /\ Cardinality(Holders) \in Nat
      BY <2>1, HoldersFinite, FS_Subset, FS_CardinalityType
    <2> QED
      BY <2>2, <2>3, ConcurrencyAssumption DEF Base, TypeOK, CtxTypeOK, SlotInv
  <1> QED BY BaseInvariant, <1>1, PTL

-----------------------------------------------------------------------------
(***************************************************************************)
(* Ownership of Files.                                                     *)
(***************************************************************************)

\* Init establishes ownership: there is nothing to own.
LEMMA OwnerInit == Init => OneOwner
  BY DEF Init, OneOwner, Created, Exclusive, Separate, Taker, Got, Closed

\* A reference that is not nil is to a request.
LEMMA References ==
    ASSUME Base
    PROVE  /\ \A q \in Reqs : ofile[q] # 0 => ofile[q] \in Reqs
           /\ \A q \in Reqs : file[q] # 0 => file[q] \in Reqs
           /\ \A q \in Reqs : of[q] # 0 => of[q] \in Reqs
           /\ \A f \in Fids : fids[f] # 0 => fids[f] \in Reqs
  BY MaxReqsAssumption, SMTT(40) DEF Base, TypeOK, GoTypeOK, FidTypeOK, Reqs

\* A request that has not looked up a fid, or looked one up without taking it,
\* may move on, and fids may be dropped: neither changes who owns what.
LEMMA OwnerQuiet ==
    ASSUME Base, OneOwner, NEW r \in Reqs,
           UNCHANGED <<ofile, closes, shared, of, file>>,
           \A f \in Fids : fids'[f] \in {0, fids[f]},
           \A q \in Read : Is(q, DelsFid)' <=> Is(q, DelsFid),
           pc' = [pc EXCEPT ![r] = pc'[r]],
           \/ pc[r] \in After /\ pc'[r] \in After
           \/ /\ pc[r] \in {"unread", "queued", "running"}
              /\ pc'[r] \in After \cup {"queued", "running", "dropped"}
           \/ pc[r] = "file" /\ ~Is(r, DelsFid) /\ pc'[r] \in After
    PROVE  OneOwner'
  <1>0. \A q \in Reqs : /\ pc[q] \in After => pc'[q] \in After
                        /\ pc'[q] = "file" => pc[q] = "file"
    BY DEF Base, TypeOK, GoTypeOK, After
  <1>1. \A q \in Reqs : Taker(q)' <=> Taker(q)
    <2>1. \A q \in Reqs : of[q] # 0 => q \in Read
      BY DEF Base, ReadInv, OneOwner, Created, After
    <2> QED BY <2>1 DEF Taker
  <1>2. \A q \in Reqs : (Got(q)' => Got(q)) /\ (Closed(q)' <=> Closed(q))
    <2>1. \A q \in Reqs : Taker(q) => pc[q] \in {"found", "file"} \cup After /\ Is(q, DelsFid)
      BY DEF OneOwner, Created, Taker
    <2> QED
      BY <1>1, <2>1 DEF Base, TypeOK, GoTypeOK, After, Got, Closed
  <1>3. Created'
    <2>1. \A q \in Reqs : of[q] # 0 => pc'[q] \in {"found", "file"} \cup After
      BY DEF Base, TypeOK, GoTypeOK, OneOwner, Created, After
    <2>2. \A o \in Reqs : ofile[o] # 0 => pc'[o] \in After /\ pc'[ofile[o]] \in After
      BY <1>0, References DEF OneOwner, Created
    <2>3. \A q \in Reqs : file[q] # 0 => pc'[file[q]] \in After
      BY <1>0, References DEF OneOwner, Created
    <2> QED
      BY <1>0, <1>2, <2>1, <2>2, <2>3 DEF OneOwner, Created
  <1>4. Exclusive'
    BY <1>1 DEF OneOwner, Exclusive, Taker
  <1>5. Separate'
    BY <1>1, <1>2 DEF OneOwner, Separate
  <1> QED BY <1>3, <1>4, <1>5 DEF OneOwner

\* Ownership is kept by the read loop and by every step of a goroutine that
\* neither creates, takes nor closes anything.
LEMMA OwnerKept ==
    ASSUME Base, OneOwner,
           \/ Serve \/ serveEnds \/ UNCHANGED vars
           \/ \E r \in Reqs :
                 \/ dispatchNow(r) \/ acquireSlot(r) \/ dropQueued(r)
                 \/ refuse(r) \/ tVersion(r) \/ tFlush(r) \/ errUnknownFid(r)
                 \/ tFileIO(r) \/ writeReply(r) \/ writeFails(r) \/ handleCleanup(r)
    PROVE  OneOwner'
  <1>1. ASSUME NEW t \in Tags, NEW m \in Messages, serveHello(t, m) PROVE OneOwner'
    <2>1. recv = <<>> /\ 1 \in Reqs /\ pc[1] = "unread"
      BY <1>1, MaxReqsAssumption DEF Base, ReadInv, serveHello, Read, Reqs
    <2>2. /\ UNCHANGED <<ofile, closes, shared, of, file>>
          /\ \A f \in Fids : fids'[f] \in {0, fids[f]}
          /\ \A q \in Read : Is(q, DelsFid)' <=> Is(q, DelsFid)
          /\ pc' = [pc EXCEPT ![1] = pc'[1]] /\ pc'[1] \in After
      BY <1>1, <2>1 DEF serveHello, tVersionStores, Read, Base, TypeOK, GoTypeOK, After
    <2> QED BY <2>1, <2>2, OwnerQuiet
  <1>2. ASSUME NEW t \in Tags, NEW m \in Messages, serveRefuse(t, m) PROVE OneOwner'
    <2>1. recv = <<>> /\ 1 \in Reqs /\ pc[1] = "unread"
      BY <1>2, MaxReqsAssumption DEF Base, ReadInv, serveRefuse, Read, Reqs
    <2>2. /\ UNCHANGED <<ofile, closes, shared, of, file>>
          /\ \A f \in Fids : fids'[f] \in {0, fids[f]}
          /\ \A q \in Read : Is(q, DelsFid)' <=> Is(q, DelsFid)
          /\ pc' = [pc EXCEPT ![1] = pc'[1]] /\ pc'[1] \in After
      BY <1>2, <2>1 DEF serveRefuse, fidVars, Read, Base, TypeOK, GoTypeOK, After
    <2> QED BY <2>1, <2>2, OwnerQuiet
  <1>3. ASSUME NEW t \in Tags, NEW m \in Messages, serveRead(t, m) PROVE OneOwner'
    <2> DEFINE n == Len(recv) + 1
    <2>1. n \in Reqs /\ pc[n] = "unread"
      BY <1>3, MaxReqsAssumption DEF Base, TypeOK, NetTypeOK, ReadInv, serveRead, Read, Reqs
    <2>2. /\ UNCHANGED <<ofile, closes, shared, of, file>>
          /\ \A f \in Fids : fids'[f] \in {0, fids[f]}
          /\ pc' = [pc EXCEPT ![n] = pc'[n]] /\ pc'[n] = "queued"
      BY <1>3, <2>1 DEF serveRead, fidVars, Base, TypeOK, GoTypeOK
    <2>3. \A q \in Read : Is(q, DelsFid)' <=> Is(q, DelsFid)
      BY <1>3, RequestType DEF serveRead, Base, TypeOK, NetTypeOK, Is, Msg, Read
    <2> HIDE DEF n
    <2> QED BY <2>1, <2>2, <2>3, OwnerQuiet
  <1>4. CASE serveEnds \/ UNCHANGED vars
    BY <1>4 DEF serveEnds, vars, netVars, ctxVars, fidVars, goVars, OneOwner, Created, Exclusive, Separate, Taker, Got, Closed, Is, Msg, Read
  <1>5. ASSUME NEW r \in Reqs,
               \/ dispatchNow(r) \/ acquireSlot(r) \/ dropQueued(r)
               \/ refuse(r) \/ tVersion(r) \/ tFlush(r) \/ errUnknownFid(r)
               \/ tFileIO(r) \/ writeReply(r) \/ writeFails(r) \/ handleCleanup(r)
        PROVE  OneOwner'
    <2> USE DEF dispatchNow, acquireSlot, dropQueued, refuse, tVersion, tVersionStores, tFlush, errUnknownFid, tFileIO, writeReply, writeFails, handleCleanup, Return
    <2>1. /\ UNCHANGED <<recv, ofile, closes, shared, of, file>>
          /\ \A f \in Fids : fids'[f] \in {0, fids[f]}
      BY <1>5 DEF netVars, fidVars
    <2>2. \A q \in Read : Is(q, DelsFid)' <=> Is(q, DelsFid)
      BY <2>1 DEF Is, Msg, Read
    <2>3. /\ pc' = [pc EXCEPT ![r] = pc'[r]]
          /\ \/ pc[r] \in After /\ pc'[r] \in After
             \/ /\ pc[r] \in {"unread", "queued", "running"}
                /\ pc'[r] \in After \cup {"queued", "running", "dropped"}
             \/ pc[r] = "file" /\ Is(r, FileIO) /\ pc'[r] \in After
      BY <1>5 DEF Base, TypeOK, GoTypeOK, After
    <2>4. Is(r, FileIO) => ~Is(r, DelsFid)
      BY DEF Is, FileIO, DelsFid
    <2> QED BY <2>1, <2>2, <2>3, <2>4, OwnerQuiet
  <1> QED BY <1>1, <1>2, <1>3, <1>4, <1>5 DEF Serve

\* Ownership is kept by a handler that looks a fid up, or takes it: the openFile
\* leaves the table with the taker.
LEMMA OwnerLookup ==
    ASSUME Base, OneOwner, NEW r \in Reqs, getFid(r) \/ delFid(r)
    PROVE  OneOwner'
  <1> DEFINE f == Msg(r).fid
  <1>0. f \in Fids /\ fids[f] # 0 /\ fids[f] \in Reqs
    <2>1. f \in Fids
      BY MsgType DEF getFid, delFid, Is, MessageOK
    <2> QED BY <2>1, References DEF getFid, delFid
  <1>1. /\ UNCHANGED <<recv, ofile, closes, shared, file>>
        /\ pc[r] = "running" /\ pc' = [pc EXCEPT ![r] = "found"]
        /\ of' = [of EXCEPT ![r] = fids[f]]
        /\ of[r] = 0
    BY DEF getFid, delFid, netVars, fidVars, OneOwner, Created, After
  <1>2. \A q \in Reqs : /\ pc'[q] \in After <=> pc[q] \in After
                        /\ pc'[q] = "file" <=> pc[q] = "file"
                        /\ q # r => of'[q] = of[q] /\ (Taker(q)' <=> Taker(q))
    BY <1>1 DEF Base, TypeOK, GoTypeOK, After, Taker, Is, Msg, Read
  <1>3. \A q \in Reqs : (Got(q)' <=> Got(q)) /\ (Closed(q)' <=> Closed(q))
    BY <1>1, <1>2 DEF Base, TypeOK, GoTypeOK, After, Got, Closed, Taker
  <1>4. of'[r] = fids[f] /\ pc'[r] = "found" /\ ofile[fids[f]] # 0
    BY <1>0, <1>1 DEF Base, TypeOK, GoTypeOK, OneOwner, Created
  <1> HIDE DEF f
  <1>5. Created'
    <2>1. \A o \in Reqs : ofile[o] # 0 => pc'[o] \in After /\ pc'[ofile[o]] \in After
      BY <1>2, References DEF OneOwner, Created
    <2>2. \A q \in Reqs : file[q] # 0 => pc'[file[q]] \in After
      BY <1>2, References DEF OneOwner, Created
    <2>3. \A q \in Reqs : of'[q] # 0 =>
             ofile[of'[q]] # 0 /\ pc'[q] \in {"found", "file"} \cup After
      BY <1>1, <1>2, <1>4 DEF Base, TypeOK, GoTypeOK, OneOwner, Created
    <2>4. \A g \in Fids : fids'[g] # 0 => fids'[g] = fids[g]
      BY <1>0 DEF Base, TypeOK, FidTypeOK, getFid, delFid, fidVars
    <2> QED
      BY <1>1, <1>2, <1>3, <2>1, <2>2, <2>3, <2>4 DEF OneOwner, Created
  <1>6. CASE getFid(r)
    <2>1. ~Taker(r)' /\ fids' = fids
      BY <1>1, <1>6 DEF getFid, Taker, Is, Msg, Read, GetsFid, DelsFid, FileIO, fidVars
    <2>2. Exclusive'
      BY <1>1, <1>2, <2>1 DEF OneOwner, Exclusive
    <2>3. Separate'
      BY <1>1, <1>2, <1>3, <2>1 DEF OneOwner, Separate, Got, Taker
    <2> QED BY <1>5, <2>2, <2>3 DEF OneOwner
  <1>7. CASE delFid(r)
    <2>1. fids' = [fids EXCEPT ![f] = 0]
      BY <1>7 DEF delFid, f
    <2>2. \A g \in Fids : fids'[g] = IF g = f THEN 0 ELSE fids[g]
      BY <2>1 DEF Base, TypeOK, FidTypeOK
    <2>3. Exclusive'
      <3>1. \A g, h \in Fids : fids'[g] # 0 /\ fids'[g] = fids'[h] => g = h
        BY <2>2 DEF OneOwner, Exclusive
      <3>2. \A c \in Reqs, g \in Fids : Taker(c)' => fids'[g] # of'[c]
        BY <1>0, <1>2, <1>4, <2>2 DEF OneOwner, Exclusive, Taker
      <3>3. \A c, d \in Reqs : Taker(c)' /\ Taker(d)' /\ of'[c] = of'[d] => c = d
        BY <1>0, <1>2, <1>4 DEF OneOwner, Exclusive
      <3> QED BY <3>1, <3>2, <3>3 DEF Exclusive
    <2>4. ~Got(r)
      BY <1>1 DEF Got, Taker
    <2>5. Separate'
      BY <1>1, <1>2, <1>3, <2>4 DEF OneOwner, Separate
    <2> QED BY <1>5, <2>3, <2>5 DEF OneOwner
  <1> QED BY <1>6, <1>7

\* Ownership is kept when a handler gets the File out of its openFile.
LEMMA OwnerGet ==
    ASSUME Base, OneOwner, NEW r \in Reqs, openFileGet(r)
    PROVE  OneOwner'
  <1> DEFINE x == ofile[of[r]]
  <1>0. of[r] \in Reqs /\ x # 0 /\ x \in Reqs
    <2>1. of[r] # 0
      BY DEF Base, FoundInv, openFileGet
    <2> QED BY <2>1, References DEF OneOwner, Created
  <1>1. /\ UNCHANGED <<recv, fids, ofile, closes, shared, of>>
        /\ pc[r] = "found" /\ pc' = [pc EXCEPT ![r] = "file"]
        /\ file' = [file EXCEPT ![r] = x]
    BY DEF openFileGet, netVars, fidVars
  <1>2. \A q \in Reqs : /\ pc'[q] \in After <=> pc[q] \in After
                        /\ q # r => file'[q] = file[q] /\ pc'[q] = pc[q]
                        /\ Taker(q)' <=> Taker(q)
    BY <1>1 DEF Base, TypeOK, GoTypeOK, After, Taker, Is, Msg, Read
  <1>3. file'[r] = x /\ pc'[r] = "file" /\ ~Got(r) /\ ~Closed(r)
    BY <1>1 DEF Base, TypeOK, GoTypeOK, Got, Closed, After
  <1>4. \A q \in Reqs : (q # r => (Got(q)' <=> Got(q))) /\ (Closed(q)' <=> Closed(q))
    BY <1>2, <1>3 DEF Got, Closed, After
  <1> HIDE DEF x
  <1>5. Created'
    <2>1. \A o \in Reqs : ofile[o] # 0 => pc'[o] \in After /\ pc'[ofile[o]] \in After
      BY <1>2, References DEF OneOwner, Created
    <2>2. pc'[x] \in After
      BY <1>0, <1>2 DEF OneOwner, Created, x
    <2>3. \A q \in Reqs : file'[q] # 0 => pc'[file'[q]] \in After
      BY <1>2, <1>3, <2>2, References DEF OneOwner, Created
    <2>4. \A q \in Reqs : pc'[q] = "file" \/ Got(q)' => file'[q] # 0
      BY <1>0, <1>2, <1>3, <1>4 DEF OneOwner, Created
    <2>5. \A q \in Reqs : of[q] # 0 => pc'[q] \in {"found", "file"} \cup After
      BY <1>2, <1>3 DEF OneOwner, Created
    <2> QED
      BY <1>1, <2>1, <2>3, <2>4, <2>5 DEF OneOwner, Created
  <1>6. Exclusive'
    BY <1>1, <1>2 DEF OneOwner, Exclusive
  <1>7. Separate'
    <2>1. \A c, o \in Reqs : Got(c)' /\ file'[c] \notin shared /\ ofile[o] = file'[c] => o = of[c]
      BY <1>0, <1>2, <1>3, <1>4 DEF OneOwner, Separate, x
    <2>2. \A d \in Reqs : d # r /\ Got(d) /\ Got(r)' /\ x \notin shared => file[d] # x
      <3> SUFFICES ASSUME NEW d \in Reqs, d # r, Got(d), Got(r)', x \notin shared, file[d] = x PROVE FALSE
        OBVIOUS
      <3>1. of[r] = of[d]
        BY <1>0 DEF OneOwner, Separate, x
      <3>2. Taker(r) /\ Taker(d)
        BY <1>2 DEF Got
      <3> QED BY <3>1, <3>2 DEF OneOwner, Exclusive
    <2>3. \A c, d \in Reqs : Got(c)' /\ Got(d)' /\ file'[c] \notin shared /\ file'[c] = file'[d] => c = d
      BY <1>2, <1>3, <1>4, <2>2 DEF OneOwner, Separate
    <2>4. \A c \in Reqs : Closed(c) => file'[c] = file[c]
      BY <1>2, <1>3
    <2> QED
      BY <1>1, <1>4, <2>1, <2>3, <2>4 DEF OneOwner, Separate
  <1> QED BY <1>5, <1>6, <1>7 DEF OneOwner

\* A request whose handler has not returned is named by nothing.
LEMMA Fresh ==
    ASSUME Base, OneOwner, NEW r \in Reqs, pc[r] \notin After
    PROVE  /\ \A q \in Reqs : ofile[q] # r /\ of[q] # r /\ file[q] # r
           /\ \A f \in Fids : fids[f] # r
           /\ ofile[r] = 0
  <1>1. r # 0
    BY MaxReqsAssumption DEF Reqs
  <1> QED BY <1>1 DEF OneOwner, Created

\* Ownership is kept by an attach and by a walk: a new openFile, with a File of
\* its own or one that from now on counts as shared.
LEMMA OwnerPut ==
    ASSUME Base, OneOwner, NEW r \in Reqs, NEW g \in Fids, NEW x \in Reqs,
           putFid(r, g, x), UNCHANGED <<recv, closes, of, file>>,
           pc[r] \in {"running", "file"}, pc' = [pc EXCEPT ![r] = "reply"],
           ~Is(r, DelsFid),
           x = r \/ pc[x] \in After,
           shared' = shared \cup ({x} \ {r})
    PROVE  OneOwner'
  <1>0. r # 0 /\ x # 0 /\ pc[r] \notin After
    BY MaxReqsAssumption DEF Reqs, After
  <1>1. /\ \A q \in Reqs : pc'[q] = IF q = r THEN "reply" ELSE pc[q]
        /\ \A q \in Reqs : ofile'[q] = IF q = r THEN x ELSE ofile[q]
        /\ \A f \in Fids : fids'[f] = IF f = g THEN r ELSE fids[f]
    BY DEF Base, TypeOK, GoTypeOK, FidTypeOK, putFid
  <1>2. \A q \in Reqs : (Taker(q)' <=> Taker(q)) /\ (Taker(q) => q # r)
    BY DEF Taker, Is, Msg, Read
  <1>3. \A q \in Reqs : (Got(q)' <=> Got(q)) /\ (Closed(q)' <=> Closed(q))
    BY <1>1, <1>2 DEF Got, Closed
  <1>4. Created'
    <2>1. \A q \in Reqs : pc[q] \in After => pc'[q] \in After
      BY <1>0, <1>1
    <2>2. pc'[r] \in After /\ pc'[x] \in After
      <3>1. pc'[r] \in After
        BY <1>1 DEF After
      <3> QED BY <2>1, <3>1
    <2>3. \A o \in Reqs : ofile'[o] # 0 => pc'[o] \in After /\ pc'[ofile'[o]] \in After
      BY <1>1, <2>1, <2>2, References DEF OneOwner, Created
    <2>4. \A f \in Fids : fids'[f] # 0 => ofile'[fids'[f]] # 0
      BY <1>0, <1>1, References DEF OneOwner, Created
    <2>5. \A q \in Reqs : of[q] # 0 =>
             ofile'[of[q]] # 0 /\ pc'[q] \in {"found", "file"} \cup After
      BY <1>0, <1>1, <2>2, References DEF OneOwner, Created
    <2>6. \A q \in Reqs : file[q] # 0 => pc'[file[q]] \in After
      BY <2>1, References DEF OneOwner, Created
    <2>7. \A q \in Reqs : pc'[q] = "file" \/ Got(q) => file[q] # 0
      BY <1>1 DEF OneOwner, Created
    <2> QED BY <1>3, <2>3, <2>4, <2>5, <2>6, <2>7 DEF Created
  <1>5. Exclusive'
    BY <1>0, <1>1, <1>2, Fresh DEF OneOwner, Exclusive
  <1>6. Separate'
    <2>1. shared \subseteq shared' /\ (x = r \/ x \in shared')
      OBVIOUS
    <2>2. \A o, p \in Reqs :
             ofile'[o] # 0 /\ ofile'[o] \notin shared' /\ ofile'[o] = ofile'[p] => o = p
      BY <1>0, <1>1, <2>1, Fresh DEF OneOwner, Separate
    <2>3. \A c, o \in Reqs :
             Got(c) /\ file[c] \notin shared' /\ ofile'[o] = file[c] => o = of[c]
      BY <1>0, <1>1, <2>1, Fresh DEF OneOwner, Separate
    <2>4. \A c, d \in Reqs :
             Got(c) /\ Got(d) /\ file[c] \notin shared' /\ file[c] = file[d] => c = d
      BY <2>1 DEF OneOwner, Separate
    <2>5. \A y \in Reqs \ shared' : closes[y] # 0 =>
             closes[y] = 1 /\ \E c \in Reqs : Closed(c) /\ file[c] = y
      BY <2>1 DEF OneOwner, Separate
    <2> QED BY <1>3, <2>2, <2>3, <2>4, <2>5 DEF Separate
  <1> QED BY <1>4, <1>5, <1>6 DEF OneOwner

\* A backend call returns a new File or one that was created before.
LEMMA BackendFilesCreated ==
    ASSUME Base, OneOwner, NEW r \in Reqs, NEW x \in backendFiles(r)
    PROVE  x \in Reqs /\ (x = r \/ pc[x] \in After)
  <1>1. 0 \notin Reqs
    BY MaxReqsAssumption DEF Reqs
  <1> QED BY <1>1 DEF backendFiles, OneOwner, Created

\* Ownership is kept by tAttach and tWalk, successful or not.
LEMMA OwnerAttachWalk ==
    ASSUME Base, OneOwner, NEW r \in Reqs, tAttach(r) \/ tWalk(r)
    PROVE  OneOwner'
  <1>1. /\ UNCHANGED <<recv, closes, of, file>>
        /\ pc[r] \in {"running", "file"} /\ pc' = [pc EXCEPT ![r] = "reply"]
        /\ ~Is(r, DelsFid)
    BY DEF tAttach, tWalk, Return, netVars, Is, DelsFid
  <1>2. CASE UNCHANGED <<fids, ofile, shared>>
    <2>1. pc'[r] = "reply"
      BY <1>1 DEF Base, TypeOK, GoTypeOK
    <2>2. \A q \in Read : Is(q, DelsFid)' <=> Is(q, DelsFid)
      BY <1>1 DEF Is, Msg, Read
    <2> QED BY <1>1, <1>2, <2>1, <2>2, OwnerQuiet DEF After
  <1>3. ASSUME tAttach(r), NEW x \in backendFiles(r),
               putFid(r, Msg(r).fid, x), shared' = shared \cup ({x} \ {r})
        PROVE  OneOwner'
    <2>1. Msg(r).fid \in Fids
      BY <1>3, MsgType DEF tAttach, Is, MessageOK
    <2>2. x \in Reqs /\ (x = r \/ pc[x] \in After)
      BY BackendFilesCreated
    <2> QED BY <1>1, <1>3, <2>1, <2>2, OwnerPut
  <1>4. ASSUME tWalk(r), NEW x \in walkFiles(r), putFid(r, Msg(r).newfid, x),
               shared' = IF cloned(r) THEN shared ELSE shared \cup ({x} \ {r})
        PROVE  OneOwner'
    <2>1. Msg(r).newfid \in Fids
      BY <1>4, MsgType DEF tWalk, Is, MessageOK
    <2>2. file[r] \in Reqs /\ pc[file[r]] \in After
      <3>1. pc[r] = "file"
        BY <1>4 DEF tWalk
      <3> QED BY <3>1, References DEF OneOwner, Created
    <2>3. x \in Reqs /\ (x = r \/ pc[x] \in After) /\ (cloned(r) => x = r)
      BY <2>2, BackendFilesCreated DEF walkFiles, cloned
    <2>4. shared' = shared \cup ({x} \ {r})
      BY <1>4, <2>3
    <2> QED BY <1>1, <1>4, <2>1, <2>3, <2>4, OwnerPut
  <1> QED BY <1>2, <1>3, <1>4 DEF tAttach, tWalk

\* Ownership is kept by tCreate: the openFile gets a File nobody else has, or one
\* that from now on counts as shared.
LEMMA OwnerCreate ==
    ASSUME Base, OneOwner, NEW r \in Reqs, tCreate(r)
    PROVE  OneOwner'
  <1>1. /\ UNCHANGED <<recv, fids, closes, of, file>>
        /\ pc[r] = "file" /\ pc' = [pc EXCEPT ![r] = "reply"]
        /\ ~Is(r, DelsFid)
    BY DEF tCreate, Return, netVars, Is, DelsFid
  <1>2. \A q \in Reqs : (Taker(q)' <=> Taker(q)) /\ (Taker(q) => q # r)
    BY <1>1 DEF Taker, Is, Msg, Read
  <1>3. CASE UNCHANGED <<ofile, shared>>
    <2>1. pc'[r] = "reply"
      BY <1>1 DEF Base, TypeOK, GoTypeOK
    <2>2. \A q \in Read : Is(q, DelsFid)' <=> Is(q, DelsFid)
      BY <1>1 DEF Is, Msg, Read
    <2> QED BY <1>1, <1>3, <2>1, <2>2, OwnerQuiet DEF After
  <1>4. ASSUME NEW x \in backendFiles(r), ofile' = [ofile EXCEPT ![of[r]] = x],
               shared' = shared \cup ({x} \ {r})
        PROVE  OneOwner'
    <2>0. r # 0 /\ pc[r] \notin After /\ of[r] \in Reqs /\ ofile[of[r]] # 0
      <3>1. of[r] # 0
        BY <1>1 DEF Base, FoundInv
      <3> QED BY <1>1, <3>1, References, MaxReqsAssumption DEF OneOwner, Created, Reqs, After
    <2>1. /\ \A q \in Reqs : pc'[q] = IF q = r THEN "reply" ELSE pc[q]
          /\ \A q \in Reqs : ofile'[q] = IF q = of[r] THEN x ELSE ofile[q]
      BY <1>1, <1>4 DEF Base, TypeOK, GoTypeOK, FidTypeOK
    <2>x. x \in Reqs /\ x # 0 /\ (x = r \/ pc[x] \in After)
      BY BackendFilesCreated, MaxReqsAssumption DEF Reqs
    <2>2. \A q \in Reqs : (Got(q)' <=> Got(q)) /\ (Closed(q)' <=> Closed(q))
      BY <1>1, <1>2, <2>1 DEF Got, Closed
    <2>3. Created'
      <3>1. \A q \in Reqs : pc[q] \in After => pc'[q] \in After
        BY <2>0, <2>1
      <3>2. pc'[r] \in After /\ pc'[x] \in After
        BY <2>1, <2>x, <3>1 DEF After
      <3>3. \A o \in Reqs : ofile'[o] # 0 => ofile[o] # 0
        BY <2>0, <2>1
      <3>4. \A o \in Reqs : ofile'[o] # 0 => pc'[o] \in After /\ pc'[ofile'[o]] \in After
        BY <2>1, <3>1, <3>2, <3>3, References DEF OneOwner, Created
      <3>5. \A q \in Reqs : ofile[q] # 0 => ofile'[q] # 0
        BY <2>1, <2>x
      <3>6. \A q \in Reqs : of[q] # 0 =>
               ofile'[of[q]] # 0 /\ pc'[q] \in {"found", "file"} \cup After
        BY <2>1, <3>2, <3>5, References DEF OneOwner, Created
      <3>7. \A q \in Reqs : file[q] # 0 => pc'[file[q]] \in After
        BY <3>1, References DEF OneOwner, Created
      <3>8. \A q \in Reqs : pc'[q] = "file" \/ Got(q) => file[q] # 0
        BY <2>1 DEF OneOwner, Created
      <3>9. \A f \in Fids : fids[f] # 0 => ofile'[fids[f]] # 0
        BY <3>5, References DEF OneOwner, Created
      <3> QED BY <1>1, <2>2, <3>4, <3>6, <3>7, <3>8, <3>9 DEF Created
    <2>4. Exclusive'
      BY <1>1, <1>2 DEF OneOwner, Exclusive
    <2>5. Separate'
      <3>0. shared \subseteq shared' /\ (x = r \/ x \in shared')
        BY <1>4
      <3>1. \A o, p \in Reqs :
               ofile'[o] # 0 /\ ofile'[o] \notin shared' /\ ofile'[o] = ofile'[p] => o = p
        BY <2>0, <2>1, <3>0, Fresh DEF OneOwner, Separate
      <3>2. \A c, o \in Reqs :
               Got(c) /\ file[c] \notin shared' /\ ofile'[o] = file[c] => o = of[c]
        BY <2>0, <2>1, <3>0, Fresh DEF OneOwner, Separate
      <3>3. \A c, d \in Reqs :
               Got(c) /\ Got(d) /\ file[c] \notin shared' /\ file[c] = file[d] => c = d
        BY <3>0 DEF OneOwner, Separate
      <3>4. \A y \in Reqs \ shared' : closes[y] # 0 =>
               closes[y] = 1 /\ \E c \in Reqs : Closed(c) /\ file[c] = y
        BY <3>0 DEF OneOwner, Separate
      <3> QED BY <1>1, <2>2, <3>1, <3>2, <3>3, <3>4 DEF Separate
    <2> QED BY <2>3, <2>4, <2>5 DEF OneOwner
  <1> QED BY <1>3, <1>4 DEF tCreate

\* Ownership is kept by tClunk and tRemove: the taker closes the File it got,
\* which nobody has closed before.
LEMMA OwnerClose ==
    ASSUME Base, OneOwner, NEW r \in Reqs, tClunkRemove(r)
    PROVE  OneOwner'
  <1>1. /\ UNCHANGED <<recv, fids, ofile, shared, of, file>>
        /\ pc[r] = "file" /\ pc' = [pc EXCEPT ![r] = "reply"]
        /\ closes' = [closes EXCEPT ![file[r]] = closes[file[r]] + 1]
    BY DEF tClunkRemove, Return, netVars
  <1>2. of[r] # 0 /\ file[r] # 0 /\ file[r] \in Reqs
    BY <1>1, References DEF Base, FoundInv, OneOwner, Created
  <1>3. \A q \in Reqs : /\ pc'[q] = IF q = r THEN "reply" ELSE pc[q]
                        /\ closes'[q] = IF q = file[r] THEN closes[q] + 1 ELSE closes[q]
    BY <1>1, <1>2 DEF Base, TypeOK, GoTypeOK, FidTypeOK
  <1>4. \A q \in Reqs : Taker(q)' <=> Taker(q)
    BY <1>1 DEF Taker, Is, Msg, Read
  <1>5. Taker(r) /\ Got(r) /\ ~Closed(r) /\ Closed(r)'
    <2>1. Taker(r)
      BY <1>2 DEF tClunkRemove, Taker
    <2> QED BY <1>1, <1>3, <1>4, <2>1 DEF Got, Closed, After
  <1>6. \A q \in Reqs : (Got(q)' <=> Got(q)) /\ (Closed(q) => Closed(q)')
    BY <1>1, <1>3, <1>4 DEF Got, Closed, After
  <1>7. Created'
    <2>1. \A q \in Reqs : /\ pc[q] \in After => pc'[q] \in After
                          /\ pc'[q] = "file" => pc[q] = "file"
      BY <1>1, <1>3 DEF After
    <2>2. \A o \in Reqs : ofile[o] # 0 => pc'[o] \in After /\ pc'[ofile[o]] \in After
      BY <2>1, References DEF OneOwner, Created
    <2>3. \A q \in Reqs : file[q] # 0 => pc'[file[q]] \in After
      BY <2>1, References DEF OneOwner, Created
    <2>4. \A q \in Reqs : of[q] # 0 => pc'[q] \in {"found", "file"} \cup After
      BY <1>3 DEF OneOwner, Created, After
    <2> QED BY <1>1, <1>6, <2>1, <2>2, <2>3, <2>4 DEF OneOwner, Created
  <1>8. Exclusive'
    BY <1>1, <1>4 DEF OneOwner, Exclusive
  <1>9. Separate'
    <2>1. file[r] \notin shared => closes[file[r]] = 0
      <3> SUFFICES ASSUME file[r] \notin shared, NEW c \in Reqs, Closed(c), file[c] = file[r] PROVE FALSE
        BY <1>2 DEF OneOwner, Separate
      <3>1. Got(c)
        BY DEF Closed, Got
      <3> QED BY <1>5, <3>1 DEF OneOwner, Separate
    <2>2. ASSUME NEW y \in Reqs \ shared, closes'[y] # 0
          PROVE  closes'[y] = 1 /\ \E c \in Reqs : Closed(c)' /\ file[c] = y
      <3>1. CASE y = file[r]
        BY <1>3, <1>5, <2>1, <3>1
      <3>2. CASE y # file[r]
        BY <1>3, <1>6, <2>2, <3>2 DEF OneOwner, Separate
      <3> QED BY <3>1, <3>2
    <2> QED BY <1>1, <1>6, <2>2 DEF OneOwner, Separate
  <1> QED BY <1>7, <1>8, <1>9 DEF OneOwner

\* Every File handed out once has one owner (OneOwner), for any number of requests, fids and
\* tags and any order of the goroutines' steps.
THEOREM OwnerInvariant == Spec => []OneOwner
  <1>1. Base /\ OneOwner /\ [Next]_vars => OneOwner'
    <2> SUFFICES ASSUME Base, OneOwner, [Next]_vars PROVE OneOwner'
      OBVIOUS
    <2>1. CASE Serve \/ serveEnds \/ UNCHANGED vars
      BY <2>1, OwnerKept
    <2>2. ASSUME NEW r \in Reqs, Local(r) \/ Backend(r) PROVE OneOwner'
      <3>1. CASE getFid(r) \/ delFid(r)
        BY <3>1, OwnerLookup
      <3>2. CASE openFileGet(r)
        BY <3>2, OwnerGet
      <3>3. CASE tAttach(r) \/ tWalk(r)
        BY <3>3, OwnerAttachWalk
      <3>4. CASE tCreate(r)
        BY <3>4, OwnerCreate
      <3>5. CASE tClunkRemove(r)
        BY <3>5, OwnerClose
      <3>6. CASE \/ dispatchNow(r) \/ acquireSlot(r) \/ dropQueued(r)
                 \/ refuse(r) \/ tVersion(r) \/ tFlush(r) \/ errUnknownFid(r)
                 \/ tFileIO(r) \/ writeReply(r) \/ writeFails(r) \/ handleCleanup(r)
        BY <3>6, OwnerKept
      <3> QED BY <2>2, <3>1, <3>2, <3>3, <3>4, <3>5, <3>6 DEF Local, Backend
    <2> QED BY <2>1, <2>2 DEF Next
  <1> QED BY <1>1, OwnerInit, BaseInvariant, PTL DEF Spec

\* No fid ever names a File that was closed, of those the backend handed out once
\* (FileLive).
THEOREM FilesLive == Spec => []FileLive
  <1>1. Base /\ OneOwner => FileLive
    <2> SUFFICES ASSUME Base, OneOwner, NEW f \in Fids, fids[f] # 0,
                        ofile[fids[f]] \notin shared, closes[ofile[fids[f]]] # 0
                 PROVE  FALSE
      BY DEF FileLive
    <2> DEFINE o == fids[f]
    <2>1. o \in Reqs /\ ofile[o] # 0 /\ ofile[o] \in Reqs
      BY References DEF OneOwner, Created
    <2>2. PICK c \in Reqs : Closed(c) /\ file[c] = ofile[o]
      BY <2>1 DEF OneOwner, Separate
    <2>3. Got(c) /\ Taker(c)
      BY <2>2 DEF Closed, Got
    <2>4. o = of[c]
      BY <2>1, <2>2, <2>3 DEF OneOwner, Separate
    <2> QED BY <2>3, <2>4 DEF OneOwner, Exclusive
  <1> QED BY <1>1, BaseInvariant, OwnerInvariant, PTL

\* No File the backend handed out once is closed twice (NoDoubleClose).
THEOREM ClosedOnce == Spec => []NoDoubleClose
  <1>1. Base /\ OneOwner => NoDoubleClose
    BY DEF NoDoubleClose, OneOwner, Separate, Base, TypeOK, FidTypeOK
  <1> QED BY <1>1, BaseInvariant, OwnerInvariant, PTL

-----------------------------------------------------------------------------
(***************************************************************************)
(* A request and the earlier ones: what is known of those answered before  *)
(* it was read, and what becomes of the fids they established or released. *)
(***************************************************************************)

\* A reply is written by a goroutine past its handler, the outcome is known from
\* the handler on, and a request that was not read is untouched.
Ended ==
    \A r \in Reqs :
        /\ Answered(r) => pc[r] \in {"cleanup", "done"}
        /\ res[r] # "none" => pc[r] \in After
        /\ pc[r] = "unread" => ~cancelled[r]

\* What the client saw answered when it sent a request was answered.
Seen == \A r \in Read : \A q \in recv[r].seen : q \in Reqs /\ Answered(q)

\* The request inflight holds for a tag is the last one read under it.
Latest ==
    \A t \in Tags : inflight[t] # 0 =>
        /\ inflight[t] \in Read
        /\ recv[inflight[t]].tag = t
        /\ \A r \in Read : recv[r].tag = t => r <= inflight[t]

History == Base /\ Ended /\ Seen /\ Latest

-----------------------------------------------------------------------------
(***************************************************************************)
(* What a step does to the record of requests.                             *)
(***************************************************************************)

\* A step of the read loop appends the request it read.
LEMMA ServeAppends ==
    ASSUME Base, Serve
    PROVE  \E t \in Tags, m \in Messages :
             LET n == Len(recv) + 1
             IN  /\ t = NoTag <=> m.type = "Tversion"
                 /\ recv' = Append(recv, Request(t, m))
                 /\ n \in Reqs /\ pc[n] = "unread" /\ n \notin Read
                 /\ Len(recv) \in Nat /\ Len(recv') = n
                 /\ \A q \in Reqs : q # n => pc'[q] = pc[q] /\ res'[q] = res[q] /\ out'[q] = out[q]
                 /\ cancelled' = cancelled /\ of' = of /\ ofile' = ofile
                 /\ \/ serveRead(t, m) /\ pc'[n] = "queued" /\ UNCHANGED <<fids, unix, res, out>>
                    \/ serveHello(t, m) /\ recv = <<>> /\ n = 1 /\ pc'[n] = "done" /\ res'[n] = "ok"
                    \/ /\ serveRefuse(t, m) /\ recv = <<>> /\ n = 1 /\ pc'[n] = "done" /\ res'[n] = "err"
                       /\ UNCHANGED <<fids, unix>>
  <1> USE MaxReqsAssumption
  <1>1. PICK t \in Tags, m \in Messages :
              /\ t = NoTag <=> m.type = "Tversion"
              /\ serveHello(t, m) \/ serveRefuse(t, m) \/ serveRead(t, m)
    BY DEF Serve
  <1> DEFINE n == Len(recv) + 1
             x == Request(t, m)
             S == [tag : Tags, msg : Messages, seen : SUBSET Reqs]
  <1>2. x \in S /\ recv \in Seq(S) /\ Len(recv) \in Nat
    BY RequestType DEF Base, TypeOK, NetTypeOK
  <1>3. phase = "hello" => recv = <<>> /\ n = 1
    BY DEF Base, ReadInv
  <1> HIDE DEF x, S
  <1>4. recv' = Append(recv, x) /\ Len(recv') = n
    <2>1. Append(<<>>, x) = <<x>>
      BY <1>2
    <2>2. recv' = Append(recv, x)
      BY <1>1, <1>3, <2>1 DEF serveHello, serveRefuse, serveRead, x
    <2> QED BY <1>2, <2>2
  <1>5. n \in Reqs /\ n \notin Read /\ pc[n] = "unread"
    <2>1. n \in Reqs
      BY <1>1, <1>2, <1>3 DEF serveHello, serveRefuse, serveRead, Reqs
    <2>2. n \notin Read
      BY <1>2 DEF Read
    <2> QED BY <2>1, <2>2 DEF Base, ReadInv
  <1> HIDE DEF n
  <1>6. CASE serveRead(t, m)
    <2>1. pc' = [pc EXCEPT ![n] = "queued"] /\ UNCHANGED <<fids, unix, res, out, cancelled, of, ofile>>
      BY <1>6 DEF serveRead, fidVars, n
    <2> QED BY <1>1, <1>2, <1>4, <1>5, <1>6, <2>1 DEF Base, TypeOK, GoTypeOK, x, n
  <1>7. CASE serveHello(t, m)
    <2>1. /\ pc' = [pc EXCEPT ![1] = "done"] /\ res' = [res EXCEPT ![1] = "ok"]
          /\ UNCHANGED <<cancelled, of, ofile>> /\ n = 1 /\ recv = <<>>
          /\ \A q \in Reqs : q # 1 => out'[q] = out[q]
      BY <1>3, <1>7 DEF serveHello, ctxVars, Base, TypeOK, GoTypeOK
    <2> QED BY <1>1, <1>2, <1>4, <1>5, <1>7, <2>1 DEF Base, TypeOK, GoTypeOK, x, n
  <1>8. CASE serveRefuse(t, m)
    <2>1. /\ pc' = [pc EXCEPT ![1] = "done"] /\ res' = [res EXCEPT ![1] = "err"]
          /\ UNCHANGED <<cancelled, of, ofile, fids, unix>> /\ n = 1 /\ recv = <<>>
          /\ \A q \in Reqs : q # 1 => out'[q] = out[q]
      BY <1>3, <1>8 DEF serveRefuse, ctxVars, fidVars, Base, TypeOK, GoTypeOK
    <2> QED BY <1>1, <1>2, <1>4, <1>5, <1>8, <2>1 DEF Base, TypeOK, GoTypeOK, x, n
  <1> QED BY <1>1, <1>6, <1>7, <1>8

\* A step of a goroutine, or none, leaves the record as it is.
LEMMA OthersKeepRecord ==
    ASSUME [Next]_vars, ~Serve
    PROVE  recv' = recv
  BY DEF Next, Local, Backend, serveEnds, dispatchNow, acquireSlot, dropQueued, refuse, tVersion, tFlush, getFid, delFid, errUnknownFid, openFileGet, writeReply, writeFails, handleCleanup, tAttach, tWalk, tFileIO, tCreate, tClunkRemove, netVars, vars

\* What was read stays as it was read.
LEMMA RecordKept ==
    ASSUME Base, [Next]_vars
    PROVE  \A r \in Read : r \in Read' /\ recv'[r] = recv[r] /\ Msg(r)' = Msg(r)
  <1>1. CASE Serve
    <2>1. PICK t \in Tags, m \in Messages :
             recv' = Append(recv, Request(t, m)) /\ Len(recv) \in Nat /\ Len(recv') = Len(recv) + 1
      BY <1>1, ServeAppends
    <2> DEFINE S == [tag : Tags, msg : Messages, seen : SUBSET Reqs]
    <2>2. recv \in Seq(S) /\ Request(t, m) \in S
      BY RequestType DEF Base, TypeOK, NetTypeOK
    <2> HIDE DEF S
    <2>3. Read \subseteq Read' /\ \A r \in Read : recv'[r] = recv[r]
      BY <2>1, <2>2 DEF Read
    <2> QED BY <2>3 DEF Msg
  <1>2. CASE ~Serve
    BY <1>2, OthersKeepRecord DEF Read, Msg
  <1> QED BY <1>1, <1>2
\* A step of a goroutine moves that request alone one stage on.
LEMMA GoStep ==
    ASSUME Base, NEW r \in Reqs, Local(r) \/ Backend(r)
    PROVE  /\ recv' = recv /\ r \in Read
           /\ \A q \in Reqs : q # r => pc'[q] = pc[q] /\ res'[q] = res[q] /\ out'[q] = out[q]
           /\ \A q \in Reqs : cancelled[q] => cancelled'[q]
           /\ \A t \in Tags : inflight'[t] \in {0, inflight[t]}
           /\ \/ pc[r] = "queued" /\ pc'[r] \in {"running", "dropped"} /\ UNCHANGED <<res, out, fids>>
              \/ pc[r] = "running" /\ pc'[r] = "found" /\ UNCHANGED <<res, out>>
              \/ pc[r] = "found" /\ pc'[r] = "file" /\ UNCHANGED <<res, out, fids>>
              \/ pc[r] \in {"running", "file"} /\ pc'[r] = "reply" /\ UNCHANGED out
              \/ pc[r] = "reply" /\ pc'[r] = "cleanup" /\ UNCHANGED <<res, fids>>
              \/ pc[r] = "cleanup" /\ pc'[r] = "done" /\ UNCHANGED <<res, out, fids>>
  <1> USE DEF Base, TypeOK, GoTypeOK, CtxTypeOK
  <1>1. CASE dispatchNow(r) \/ acquireSlot(r) \/ dropQueued(r)
    BY <1>1 DEF dispatchNow, acquireSlot, dropQueued, netVars, ctxVars, fidVars, ReadInv
  <1>2. CASE getFid(r) \/ delFid(r) \/ openFileGet(r)
    BY <1>2 DEF getFid, delFid, openFileGet, netVars, ctxVars, fidVars, ReadInv
  <1>3. CASE refuse(r) \/ tVersion(r) \/ errUnknownFid(r) \/ Backend(r)
    BY <1>3 DEF refuse, tVersion, errUnknownFid, Return, Backend, tAttach, tWalk, tFileIO, tCreate, tClunkRemove, netVars, ctxVars, ReadInv
  <1>4. CASE tFlush(r)
    <2>1. \A q \in Reqs : cancelled[q] => cancelled'[q]
      BY <1>4 DEF tFlush
    <2> QED BY <1>4, <2>1 DEF tFlush, Return, netVars, ReadInv
  <1>5. CASE writeReply(r) \/ writeFails(r)
    BY <1>5 DEF writeReply, writeFails, netVars, ctxVars, fidVars, ReadInv
  <1>6. CASE handleCleanup(r)
    BY <1>6 DEF handleCleanup, netVars, fidVars, ReadInv
  <1> QED BY <1>1, <1>2, <1>3, <1>4, <1>5, <1>6 DEF Local

\* The steps that are neither the read loop's nor a goroutine's.
LEMMA QuietStep ==
    ASSUME [Next]_vars, ~Serve, ~\E r \in Reqs : Local(r) \/ Backend(r)
    PROVE  UNCHANGED <<unix, recv, ctxVars, fidVars, goVars>>
  BY DEF Next, serveEnds, vars, netVars, ctxVars, fidVars, goVars

\* What is final stays: a reply, an outcome, a done ctx, and having come so far.
LEMMA Progress ==
    ASSUME Base, Ended, [Next]_vars
    PROVE  \A r \in Reqs :
             /\ Answered(r) => Answered(r)' /\ out'[r] = out[r]
             /\ res[r] # "none" => res'[r] = res[r]
             /\ pc[r] \in After => pc'[r] \in After /\ res'[r] = res[r]
             /\ pc[r] \notin {"unread", "queued", "running"} => pc'[r] \notin {"unread", "queued", "running"}
             /\ pc[r] # "unread" => pc'[r] # "unread"
             /\ pc'[r] \in {"queued", "running", "found", "file"} =>
                   pc[r] \in {"unread", "queued", "running", "found", "file"}
             /\ cancelled[r] => cancelled'[r]
  <1>1. CASE Serve
    <2>1. PICK t \in Tags, m \in Messages :
             LET n == Len(recv) + 1
             IN  /\ n \in Reqs /\ pc[n] = "unread"
                 /\ \A q \in Reqs : q # n => pc'[q] = pc[q] /\ res'[q] = res[q] /\ out'[q] = out[q]
                 /\ cancelled' = cancelled
                 /\ pc'[n] \in {"queued", "done"}
      BY <1>1, ServeAppends
    <2> QED BY <2>1 DEF Ended, Answered, After
  <1>2. CASE \E q \in Reqs : Local(q) \/ Backend(q)
    <2>1. PICK q \in Reqs : Local(q) \/ Backend(q)
      BY <1>2
    <2> QED BY <2>1, GoStep DEF Ended, Answered, After
  <1>3. CASE ~Serve /\ ~\E q \in Reqs : Local(q) \/ Backend(q)
    <2>1. UNCHANGED <<pc, res, out, cancelled>>
      BY <1>3, QuietStep DEF ctxVars, goVars
    <2> QED BY <2>1 DEF Answered
  <1> QED BY <1>1, <1>2, <1>3

\* Ended and Seen are kept by every step.
LEMMA HistoryStep ==
    ASSUME History, Base', [Next]_vars
    PROVE  History'
  <1> USE DEF History
  <1>1. CASE Serve
    <2>1. PICK t \in Tags, m \in Messages :
             LET n == Len(recv) + 1
             IN  /\ n \in Reqs /\ pc[n] = "unread" /\ n \notin Read
                 /\ recv' = Append(recv, Request(t, m))
                 /\ Len(recv) \in Nat /\ Len(recv') = n
                 /\ \A q \in Reqs : q # n => pc'[q] = pc[q] /\ res'[q] = res[q] /\ out'[q] = out[q]
                 /\ cancelled' = cancelled
                 /\ \/ pc'[n] = "queued" /\ UNCHANGED <<res, out>>
                    \/ pc'[n] = "done"
                 /\ \/ inflight' = [inflight EXCEPT ![t] = n]
                    \/ inflight' = inflight /\ recv = <<>>
      BY <1>1, ServeAppends DEF serveHello, serveRefuse, serveRead, ctxVars
    <2> DEFINE n == Len(recv) + 1
               S == [tag : Tags, msg : Messages, seen : SUBSET Reqs]
    <2>2. recv'[n] = Request(t, m) /\ Read' = Read \cup {n}
      <3>1. recv \in Seq(S) /\ Request(t, m) \in S
        BY RequestType DEF Base, TypeOK, NetTypeOK
      <3> HIDE DEF S
      <3> QED BY <2>1, <3>1 DEF Read
    <2>3. Ended'
      <3> HIDE DEF n
      <3> QED BY <2>1 DEF Ended, Answered, After, n
    <2>4. recv'[n].seen = {q \in Read : Answered(q)}
      BY <2>2 DEF Request
    <2>5. \A q \in Read : q \in Reqs
      BY MaxReqsAssumption DEF Base, TypeOK, NetTypeOK, Read, Reqs
    <2>6. Seen'
      <3> HIDE DEF n
      <3> QED BY <2>2, <2>4, <2>5, RecordKept, Progress DEF Seen
    <2>7. Latest'
      <3>1. \A q \in Read : q < n
        BY <2>1 DEF Read
      <3>3. recv'[n].tag = t
        BY <2>2 DEF Request
      <3>4. \A u \in Tags :
               \/ inflight'[u] = 0
               \/ inflight'[u] = n /\ u = t
               \/ inflight'[u] = inflight[u] /\ u # t
        <4>1. CASE inflight' = [inflight EXCEPT ![t] = n]
          BY <4>1 DEF Base, TypeOK, CtxTypeOK
        <4>2. CASE inflight' = inflight /\ recv = <<>>
          BY <4>2 DEF Latest, Read
        <4> QED BY <2>1, <4>1, <4>2
      <3>2. \A q \in Read : recv'[q] = recv[q]
        BY RecordKept
      <3> HIDE DEF n
      <3> QED BY <2>1, <2>2, <3>1, <3>2, <3>3, <3>4 DEF Latest, Read
    <2> QED BY <2>3, <2>6, <2>7
  <1>2. CASE ~Serve
    <2>1. recv' = recv /\ Read' = Read
      BY <1>2, OthersKeepRecord DEF Read
    <2>2. Seen'
      BY <2>1, Progress DEF Seen
    <2>3. Ended'
      <3>1. CASE \E q \in Reqs : Local(q) \/ Backend(q)
        <4>1. PICK q \in Reqs : Local(q) \/ Backend(q)
          BY <3>1
        <4>2. pc[q] # "unread" /\ pc'[q] # "unread"
          BY <4>1, GoStep
        <4>3. \A p \in Reqs : pc'[p] = "unread" => ~cancelled'[p]
          <5>1. CASE tFlush(q)
            <6> DEFINE i == inflight[Msg(q).oldtag]
            <6>1. Msg(q).oldtag \in Tags
              BY <4>1, <5>1, GoStep, MsgType DEF tFlush, Is, MessageOK
            <6>2. i # 0 => i \in Read
              BY <6>1 DEF Latest
            <6>3. cancelled' = cancelled \/ (i # 0 /\ cancelled' = [cancelled EXCEPT ![i] = TRUE])
              BY <5>1 DEF tFlush
            <6> HIDE DEF i
            <6> QED BY <4>1, <4>2, <6>2, <6>3, GoStep DEF Ended, Base, TypeOK, CtxTypeOK, ReadInv
          <5>2. CASE ~tFlush(q)
            <6>1. cancelled' = cancelled \/ cancelled' = [cancelled EXCEPT ![q] = TRUE]
              BY <4>1, <5>2 DEF Local, Backend, dispatchNow, acquireSlot, dropQueued, refuse, tVersion, getFid, delFid, errUnknownFid, openFileGet, writeReply, writeFails, handleCleanup, tAttach, tWalk, tFileIO, tCreate, tClunkRemove, ctxVars
            <6> QED BY <4>1, <4>2, <6>1, GoStep DEF Ended, Base, TypeOK, CtxTypeOK
          <5> QED BY <5>1, <5>2
        <4> QED BY <4>1, <4>3, GoStep DEF Ended, Answered, After
      <3>2. CASE ~\E q \in Reqs : Local(q) \/ Backend(q)
        <4>1. UNCHANGED <<pc, res, out, cancelled>>
          BY <1>2, <3>2, QuietStep DEF ctxVars, goVars
        <4> QED BY <4>1 DEF Ended, Answered
      <3> QED BY <3>1, <3>2
    <2>4. Latest'
      <3>1. \A t \in Tags : inflight'[t] \in {0, inflight[t]}
        BY <1>2, GoStep, QuietStep DEF ctxVars
      <3> QED BY <2>1, <3>1 DEF Latest
    <2> QED BY <2>2, <2>3, <2>4
  <1> QED BY <1>1, <1>2
\* Nothing was read at first.
LEMMA HistoryInit == Init => Ended /\ Seen /\ Latest
  BY DEF Init, Ended, Seen, Latest, Answered, Read

\* The record of requests is sound in every behaviour.
THEOREM HistoryInvariant == Spec => []History
  <1>1. History /\ Base' /\ [Next]_vars => History'
    BY HistoryStep
  <1>2. Init /\ Base => History
    BY HistoryInit DEF History
  <1> QED BY BaseInvariant, <1>1, <1>2, PTL DEF Spec

-----------------------------------------------------------------------------
(***************************************************************************)
(* Fids established and released.                                          *)
(***************************************************************************)

\* A request whose handler has touched the fid table.
Executed(r) == pc[r] \in {"found", "file"} \cup After

\* A fid that was released names nothing the client had seen established.
Gone ==
    \A c \in Read, f \in Fids :
        Releases(c, f) /\ Executed(c) => fids[f] \notin recv[c].seen

\* A fid that was established still names something, or was released by a request
\* that was not answered yet when the one that established it was read.
Standing ==
    \A o \in Read, f \in Fids :
        pc[o] \in After /\ res[o] = "ok" /\ Establishes(o, f) =>
            \/ fids[f] # 0
            \/ \E c \in Read : Releases(c, f) /\ Executed(c) /\ c \notin recv[o].seen

\* What a goroutine's step does to the fid table.
LEMMA FidStep ==
    ASSUME Base, NEW r \in Reqs, Local(r) \/ Backend(r), NEW f \in Fids
    PROVE  /\ \/ fids'[f] = fids[f]
              \/ fids'[f] = 0 /\ Releases(r, f) /\ pc[r] = "running" /\ Executed(r)'
              \/ fids'[f] = r /\ pc[r] \in {"running", "file"}
           /\ Releases(r, f) /\ ~Executed(r) /\ Executed(r)' => fids'[f] = 0
           /\ Establishes(r, f) /\ pc[r] \notin After /\ pc'[r] \in After /\ res'[r] = "ok" =>
                 fids'[f] = r
           /\ res'[r] = "unknown" /\ res[r] # "unknown" =>
                 /\ pc[r] = "running" /\ Is(r, GetsFid \cup DelsFid)
                 /\ fids[Msg(r).fid] = 0
  <1> USE DEF Base, TypeOK, GoTypeOK, FidTypeOK, Executed, After
  <1>1. CASE \/ dispatchNow(r) \/ acquireSlot(r) \/ dropQueued(r) \/ openFileGet(r)
             \/ writeReply(r) \/ writeFails(r) \/ handleCleanup(r)
    BY <1>1 DEF dispatchNow, acquireSlot, dropQueued, openFileGet, writeReply, writeFails, handleCleanup, fidVars
  <1>2. CASE refuse(r) \/ tFlush(r) \/ tFileIO(r) \/ tCreate(r) \/ tClunkRemove(r)
    BY <1>2 DEF refuse, tFlush, tFileIO, tCreate, tClunkRemove, Return, fidVars, Is, Establishes, Releases, DelsFid, FileIO, Refused
  <1>3. CASE tVersion(r)
    BY <1>3 DEF tVersion, tVersionStores, Return, Is, Establishes, Releases
  <1>4. CASE getFid(r) \/ delFid(r)
    BY <1>4 DEF getFid, delFid, fidVars, Is, Establishes, Releases, DelsFid, GetsFid, FileIO
  <1>5. CASE errUnknownFid(r)
    <2>1. Is(r, {"Tattach"}) => FALSE
      BY <1>5 DEF errUnknownFid, Is, DelsFid, GetsFid, FileIO
    <2>2. Is(r, {"Twalk"}) => ~Is(r, {"Tclunk"})
      BY DEF Is
    <2>3. Is(r, {"Tversion"}) => FALSE
      BY <1>5 DEF errUnknownFid, Is, DelsFid, GetsFid, FileIO
    <2>4. /\ pc[r] = "running" /\ Is(r, GetsFid \cup DelsFid) /\ fids[Msg(r).fid] = 0
          /\ fids' = fids /\ pc'[r] = "reply"
          /\ res'[r] = IF Is(r, {"Tclunk"}) THEN "ok" ELSE "unknown"
      BY <1>5 DEF errUnknownFid, Return, fidVars
    <2> QED BY <2>1, <2>2, <2>3, <2>4 DEF Establishes, Releases
  <1>6. CASE tAttach(r) \/ tWalk(r)
    BY <1>6 DEF tAttach, tWalk, Return, putFid, Is, Establishes, Releases, DelsFid
  <1> QED BY <1>1, <1>2, <1>3, <1>4, <1>5, <1>6 DEF Local, Backend

\* Gone and Standing are kept by the read loop.
LEMMA FidsServe ==
    ASSUME History, Gone, Standing, Serve
    PROVE  Gone' /\ Standing'
  <1> USE DEF History
  <1>0. [Next]_vars
    BY DEF Next
  <1>1. PICK t \in Tags, m \in Messages :
             LET n == Len(recv) + 1
             IN  /\ recv' = Append(recv, Request(t, m))
                 /\ n \in Reqs /\ n \notin Read
                 /\ Len(recv) \in Nat /\ Len(recv') = n
                 /\ \A q \in Reqs : q # n => pc'[q] = pc[q] /\ res'[q] = res[q]
                 /\ \/ pc'[n] = "queued" /\ UNCHANGED fids
                    \/ recv = <<>> /\ res'[n] = "err"
                    \/ recv = <<>> /\ m.type = "Tversion"
    BY ServeAppends DEF serveHello
  <1>n. PICK n \in Reqs : n = Len(recv) + 1
    BY <1>1
  <1> DEFINE S == [tag : Tags, msg : Messages, seen : SUBSET Reqs]
  <1>2. recv'[n] = Request(t, m) /\ Read' = Read \cup {n}
    <2>1. recv \in Seq(S) /\ Request(t, m) \in S
      BY RequestType DEF Base, TypeOK, NetTypeOK
    <2> HIDE DEF S
    <2> QED BY <1>1, <1>n, <2>1 DEF Read
  <1>3. \A q \in Read : q \in Reqs /\ q # n /\ recv'[q] = recv[q] /\ Msg(q)' = Msg(q) /\ q \in Read'
    <2>1. Read \subseteq Reqs
      BY MaxReqsAssumption DEF Base, TypeOK, NetTypeOK, Read, Reqs
    <2> QED BY <1>0, <1>1, <1>n, <2>1, RecordKept
  <1>4. CASE recv = <<>>
    <2>1. Read = {} /\ recv'[n].seen = {}
      BY <1>2, <1>4 DEF Read, Request
    <2>2. Gone'
      BY <1>2, <2>1 DEF Gone
    <2>3. \A f \in Fids : ~(res'[n] = "ok" /\ Establishes(n, f)') \/ pc'[n] = "queued"
      <3>1. Msg(n)' = m
        BY <1>2 DEF Msg, Request
      <3> QED BY <1>1, <1>n, <3>1 DEF Establishes, Is
    <2>4. Standing'
      BY <1>2, <2>1, <2>3 DEF Standing, After
    <2> QED BY <2>2, <2>4
  <1>5. CASE pc'[n] = "queued" /\ UNCHANGED fids
    <2>1. \A q \in Read, f \in Fids :
             /\ Releases(q, f)' <=> Releases(q, f)
             /\ Establishes(q, f)' <=> Establishes(q, f)
             /\ Executed(q)' <=> Executed(q)
      BY <1>1, <1>3, <1>n DEF Releases, Establishes, Is, Executed
    <2>2. ~Executed(n)'
      BY <1>5 DEF Executed, After
    <2>3. Gone'
      BY <1>2, <1>3, <1>5, <2>1, <2>2 DEF Gone
    <2>4. \A o \in Read : pc'[o] = pc[o] /\ res'[o] = res[o]
      BY <1>1, <1>3, <1>n
    <2>5. Standing'
      BY <1>2, <1>3, <1>5, <2>1, <2>2, <2>4 DEF Standing, Executed
    <2> QED BY <2>3, <2>5
  <1> QED BY <1>1, <1>n, <1>4, <1>5

\* Gone and Standing are kept by a goroutine.
LEMMA FidsGo ==
    ASSUME History, Gone, Standing, NEW r \in Reqs, Local(r) \/ Backend(r)
    PROVE  Gone' /\ Standing'
  <1> USE DEF History
  <1>0. [Next]_vars /\ recv' = recv /\ Read' = Read /\ r \in Read /\ Read \subseteq Reqs
    BY GoStep, MaxReqsAssumption DEF Next, Read, Base, TypeOK, NetTypeOK, Reqs
  <1>1. \A q \in Read, f \in Fids :
           /\ Releases(q, f)' <=> Releases(q, f)
           /\ Establishes(q, f)' <=> Establishes(q, f)
    BY <1>0 DEF Releases, Establishes, Is, Msg
  <1>2. \A q \in Reqs : Executed(q) => Executed(q)'
    BY GoStep DEF Executed, After
  <1>3. \A q \in Reqs : q # r => (Executed(q)' <=> Executed(q)) /\ pc'[q] = pc[q] /\ res'[q] = res[q]
    BY GoStep DEF Executed
  <1>4. \A q \in Read : 0 \notin recv[q].seen /\ (pc[r] \in {"running", "file"} => r \notin recv[q].seen)
    <2>1. 0 \notin Reqs
      BY DEF Reqs
    <2>2. pc[r] \in {"running", "file"} => ~Answered(r)
      BY DEF Ended
    <2> QED BY <2>1, <2>2 DEF Seen
  <1>5. Gone'
    <2> SUFFICES ASSUME NEW c \in Read, NEW f \in Fids, Releases(c, f), Executed(c)'
                 PROVE  fids'[f] \notin recv[c].seen
      BY <1>0, <1>1 DEF Gone
    <2>1. CASE c # r \/ Executed(r)
      <3>1. fids[f] \notin recv[c].seen
        BY <1>0, <1>3, <2>1 DEF Gone
      <3> QED BY <1>4, <3>1, FidStep
    <2>2. CASE c = r /\ ~Executed(r)
      BY <1>4, <2>2, FidStep
    <2> QED BY <2>1, <2>2
  <1>6. Standing'
    <2> SUFFICES ASSUME NEW o \in Read, NEW f \in Fids, pc'[o] \in After, res'[o] = "ok", Establishes(o, f),
                        fids'[f] = 0
                 PROVE  \E c \in Read : Releases(c, f) /\ Executed(c)' /\ c \notin recv[o].seen
      BY <1>0, <1>1 DEF Standing
    <2>1. pc[o] \in After /\ res[o] = "ok"
      <3>1. o = r /\ pc[r] \notin After => fids'[f] = r
        BY FidStep
      <3>2. r # 0
        BY MaxReqsAssumption DEF Reqs
      <3> QED BY <1>0, <1>3, <3>1, <3>2, Progress
    <2>2. CASE fids[f] = 0
      BY <1>0, <1>2, <2>1, <2>2 DEF Standing
    <2>3. CASE fids[f] # 0
      <3>1. Releases(r, f) /\ pc[r] = "running" /\ Executed(r)'
        BY <2>3, FidStep, MaxReqsAssumption DEF Reqs
      <3> QED BY <1>0, <1>4, <3>1
    <2> QED BY <2>2, <2>3
  <1> QED BY <1>5, <1>6

\* Gone and Standing hold in every behaviour.
LEMMA FidsInvariant == Spec => [](Gone /\ Standing)
  <1>1. Init => Gone /\ Standing
    BY DEF Init, Gone, Standing, Read
  <1>2. History /\ Gone /\ Standing /\ [Next]_vars => Gone' /\ Standing'
    <2> SUFFICES ASSUME History, Gone, Standing, [Next]_vars PROVE Gone' /\ Standing'
      OBVIOUS
    <2>1. CASE Serve \/ \E r \in Reqs : Local(r) \/ Backend(r)
      BY <2>1, FidsServe, FidsGo
    <2>2. CASE ~(Serve \/ \E r \in Reqs : Local(r) \/ Backend(r))
      <3>1. UNCHANGED <<recv, fids, pc, res>>
        BY <2>2, QuietStep DEF fidVars, goVars
      <3> QED BY <3>1 DEF Gone, Standing, Read, Releases, Establishes, Is, Msg, Executed
    <2> QED BY <2>1, <2>2
  <1> QED BY HistoryInvariant, <1>1, <1>2, PTL DEF Spec

\* A released fid stays released (ReleasedStaysReleased), through every race of
\* walks, attaches, clunks, removes and renegotiation.
THEOREM ReleasedFidsStayReleased == Spec => []ReleasedStaysReleased
  <1>1. History /\ Gone => ReleasedStaysReleased
    <2>1. ASSUME History PROVE Read \subseteq Reqs
      BY <2>1, MaxReqsAssumption DEF History, Base, TypeOK, NetTypeOK, Read, Reqs
    <2> QED BY <2>1 DEF ReleasedStaysReleased, Gone, History, Ended, Executed, After
  <1> QED BY HistoryInvariant, FidsInvariant, <1>1, PTL
\* "unknown fid" is never a surprise (EstablishedFidWorks): whoever had established
\* the fid, somebody has released it since.
THEOREM EstablishedFidsWork == Spec => []EstablishedFidWorks
  <1>1. Init => EstablishedFidWorks
    BY DEF Init, EstablishedFidWorks, Read
  <1>2. History /\ Standing /\ EstablishedFidWorks /\ [Next]_vars => EstablishedFidWorks'
    <2> SUFFICES ASSUME History, Standing, EstablishedFidWorks, [Next]_vars,
                        NEW r \in Read', res'[r] = "unknown",
                        NEW o \in recv'[r].seen, res'[o] = "ok", Establishes(o, Msg(r).fid)'
                 PROVE  \E c \in Read' \ {r} : Releases(c, Msg(r).fid)' /\ c \notin recv'[o].seen
      BY DEF EstablishedFidWorks
    <2> USE DEF History
    <2>0. Read \subseteq Reqs /\ Base
      BY MaxReqsAssumption DEF Base, TypeOK, NetTypeOK, Read, Reqs
    <2>1. r \in Read
      <3>1. CASE Serve
        <4>1. PICK t \in Tags, m \in Messages :
                 /\ Len(recv) \in Nat /\ Len(recv') = Len(recv) + 1
                 /\ Len(recv) + 1 \in Reqs
                 /\ res'[Len(recv) + 1] # "unknown"
          <5>1. \A n \in Reqs : pc[n] = "unread" => res[n] = "none"
            BY DEF Ended, After
          <5> QED BY <3>1, <2>0, <5>1, ServeAppends
        <4> QED BY <4>1 DEF Read
      <3>2. CASE ~Serve
        BY <3>2, OthersKeepRecord DEF Read
      <3> QED BY <3>1, <3>2
    <2>2. /\ r \in Reqs /\ recv'[r] = recv[r] /\ Msg(r)' = Msg(r) /\ o \in recv[r].seen /\ o \in Reqs
          /\ o \in Read /\ recv'[o] = recv[o] /\ Msg(o)' = Msg(o) /\ Answered(o)
      <3>1. recv'[r] = recv[r] /\ Msg(r)' = Msg(r) /\ o \in recv[r].seen /\ r \in Reqs
        BY <2>0, <2>1, RecordKept
      <3>2. o \in Reqs /\ Answered(o)
        BY <2>1, <3>1 DEF Seen
      <3>3. o \in Read
        BY <2>0, <3>2 DEF Ended, ReadInv, Base
      <3> QED BY <2>0, <3>1, <3>2, <3>3, RecordKept
    <2>3. pc[o] \in After /\ res[o] = "ok" /\ Establishes(o, Msg(r).fid)
      <3>1. pc[o] \in After
        BY <2>2 DEF Ended, After
      <3> QED BY <2>0, <2>2, <3>1, Progress DEF Establishes, Is
    <2>4. ASSUME NEW c \in Read, c # r, Releases(c, Msg(r).fid), c \notin recv[o].seen
          PROVE  \E d \in Read' \ {r} : Releases(d, Msg(r).fid)' /\ d \notin recv'[o].seen
      <3>1. c \in Read' /\ Msg(c)' = Msg(c)
        BY <2>0, RecordKept
      <3>2. Releases(c, Msg(r).fid)'
        BY <2>2, <2>4, <3>1 DEF Releases, Is
      <3> QED BY <2>2, <2>4, <3>1, <3>2
    <2>5. CASE res[r] = "unknown"
      BY <2>1, <2>2, <2>3, <2>4, <2>5 DEF EstablishedFidWorks
    <2>6. CASE res[r] # "unknown"
      <3>1. Local(r) \/ Backend(r)
        <4>1. CASE Serve
          BY <2>0, <2>1, <2>2, <2>6, <4>1, ServeAppends
        <4>2. CASE \E q \in Reqs : Local(q) \/ Backend(q)
          BY <2>0, <2>2, <2>6, <4>2, GoStep
        <4>3. CASE ~Serve /\ ~\E q \in Reqs : Local(q) \/ Backend(q)
          BY <2>6, <4>3, QuietStep DEF goVars
        <4> QED BY <4>1, <4>2, <4>3
      <3>2. Msg(r).fid \in Fids
        BY <2>3, <2>2, <2>0, MsgType DEF Establishes, Is, MessageOK
      <3>3. pc[r] = "running" /\ fids[Msg(r).fid] = 0
        BY <2>0, <2>2, <2>6, <3>1, <3>2, FidStep
      <3>4. PICK c \in Read : Releases(c, Msg(r).fid) /\ Executed(c) /\ c \notin recv[o].seen
        BY <2>2, <2>3, <3>2, <3>3 DEF Standing
      <3>5. c # r
        BY <3>3, <3>4 DEF Executed, After
      <3> QED BY <2>4, <3>4, <3>5
    <2> QED BY <2>5, <2>6
  <1> QED BY HistoryInvariant, FidsInvariant, <1>1, <1>2, PTL DEF Spec

-----------------------------------------------------------------------------
(***************************************************************************)
(* The client's side of the contract: which request a Tflush reaches, in   *)
(* which dialect a request is answered, and that the connection implements *)
(* RequestContract.                                                        *)
(***************************************************************************)

\* What ClientMaySend guarantees of two requests, one read before the other.
\* Every Tversion was answered before the next request was read.
Versions == \A v, r \in Read : v < r /\ Is(v, {"Tversion"}) => Answered(v)

\* A tag named by a Tflush was not used again before the Tflush was answered.
Held ==
    \A fl, r \in Read :
        fl < r /\ Is(fl, {"Tflush"}) /\ Msg(fl).oldtag = recv[r].tag => Answered(fl)

\* Only a Tversion has the tag NoTag, and requests follow a Tversion.
Opening ==
    /\ \A r \in Read : recv[r].tag = NoTag <=> Is(r, {"Tversion"})
    /\ phase \in {"serving", "broken"} \/ Len(recv) > 1 => 1 \in Read /\ Is(1, {"Tversion"})

\* A client that does not reuse tags has used each but NoTag once, and inflight
\* maps it to its request until that is done or dropped.
Unique ==
    ~TagReuse =>
        /\ \A q, r \in Read : recv[q].tag = recv[r].tag /\ recv[q].tag # NoTag => q = r
        /\ \A r \in Read :
              recv[r].tag # NoTag /\ pc[r] \in {"queued", "running", "found", "file", "reply", "cleanup"} =>
                  inflight[recv[r].tag] = r

Client == Versions /\ Held /\ Opening /\ Unique

-----------------------------------------------------------------------------
(***************************************************************************)
(* The request a Tflush is about.                                          *)
(***************************************************************************)

\* Target is the last request under oldtag before the Tflush, or 0.
LEMMA TargetIs ==
    ASSUME History, NEW fl \in Read
    PROVE  /\ Target(fl) = 0 => \A q \in 1..(fl - 1) : recv[q].tag # Msg(fl).oldtag
           /\ Target(fl) # 0 =>
                 /\ Target(fl) \in 1..(fl - 1) /\ recv[Target(fl)].tag = Msg(fl).oldtag
                 /\ \A q \in 1..(fl - 1) : recv[q].tag = Msg(fl).oldtag => q <= Target(fl)
  <1> DEFINE S == {r \in 1..(fl - 1) : recv[r].tag = Msg(fl).oldtag}
  <1>0. fl \in Nat \ {0}
    BY DEF History, Base, TypeOK, NetTypeOK, Read
  <1>1. CASE S = {}
    BY <1>1 DEF Target
  <1>2. CASE S # {}
    <2>1. S \in SUBSET (0..fl)
      BY <1>0
    <2>2. \E r \in S : \A q \in S : q <= r
      <3> HIDE DEF S
      <3> QED BY <1>0, <1>2, <2>1, GreatestExists
    <2>3. Target(fl) = CHOOSE r \in S : \A q \in S : q <= r
      BY <1>2 DEF Target
    <2>4. Target(fl) \in S /\ \A q \in S : q <= Target(fl)
      <3> HIDE DEF S
      <3> QED BY <2>2, <2>3
    <2> QED BY <1>0, <2>4
  <1> QED BY <1>1, <1>2

\* It does not change once the Tflush was read.
LEMMA TargetKept ==
    ASSUME History, [Next]_vars, NEW fl \in Read
    PROVE  Target(fl)' = Target(fl)
  <1>1. \A r \in 1..(fl - 1) : r \in Read
    BY DEF History, Base, TypeOK, NetTypeOK, Read
  <1>2. /\ Msg(fl)' = Msg(fl)
        /\ \A r \in Read : recv'[r] = recv[r]
    BY RecordKept DEF History
  <1> DEFINE S == {r \in 1..(fl - 1) : recv[r].tag = Msg(fl).oldtag}
  <1>3. S' = S
    BY <1>1, <1>2
  <1>4. Target(fl) = (IF S = {} THEN 0 ELSE CHOOSE r \in S : \A q \in S : q <= r)
    BY DEF Target
  <1>5. Target(fl)' = (IF S' = {} THEN 0 ELSE CHOOSE r \in S' : \A q \in S' : q <= r)
    BY DEF Target
  <1> HIDE DEF S
  <1> QED BY <1>3, <1>4, <1>5

\* What was answered stays so.
LEMMA AnsweredKept ==
    ASSUME History, [Next]_vars, NEW r \in Read
    PROVE  Answered(r) => Answered(r)'
  <1>0. Read \subseteq Reqs /\ Base
    BY MaxReqsAssumption DEF History, Base, TypeOK, NetTypeOK, Read, Reqs
  <1> QED BY <1>0, Progress DEF History
-----------------------------------------------------------------------------
(***************************************************************************)
(* What the client's discipline amounts to.                                *)
(***************************************************************************)

\* Nothing was read at first.
LEMMA ClientInit == Init => Client
  BY DEF Init, Client, Versions, Held, Opening, Unique, Read

\* The client's discipline is kept by the read loop: ClientMaySend restores it for
\* the request that is read.
LEMMA ClientServe ==
    ASSUME History, Client, Serve
    PROVE  Client'
  <1> USE DEF History
  <1>0. [Next]_vars /\ Base /\ Read \subseteq Reqs
    BY MaxReqsAssumption DEF Next, Base, TypeOK, NetTypeOK, Read, Reqs
  <1>1. PICK t \in Tags, m \in Messages :
             LET n == Len(recv) + 1
             IN  /\ t = NoTag <=> m.type = "Tversion"
                 /\ recv' = Append(recv, Request(t, m))
                 /\ n \in Reqs /\ n \notin Read
                 /\ Len(recv) \in Nat /\ Len(recv') = n
                 /\ \A q \in Reqs : q # n => pc'[q] = pc[q]
                 /\ \/ serveRead(t, m) /\ pc'[n] = "queued"
                    \/ serveHello(t, m) /\ recv = <<>> /\ n = 1 /\ pc'[n] = "done"
                    \/ serveRefuse(t, m) /\ recv = <<>> /\ n = 1 /\ pc'[n] = "done"
    BY <1>0, ServeAppends
  <1>2. PICK n \in Reqs : n = Len(recv) + 1
    BY <1>1
  <1> DEFINE S == [tag : Tags, msg : Messages, seen : SUBSET Reqs]
  <1>3. recv'[n] = Request(t, m) /\ Read' = Read \cup {n} /\ \A q \in Read : q < n
    <2>1. recv \in Seq(S) /\ Request(t, m) \in S
      BY <1>0, RequestType DEF Base, TypeOK, NetTypeOK
    <2> HIDE DEF S
    <2> QED BY <1>1, <1>2, <2>1 DEF Read
  <1>4. recv'[n].tag = t /\ Msg(n)' = m
    BY <1>3 DEF Request, Msg
  <1>5. \A q \in Read : q \in Reqs /\ recv'[q] = recv[q] /\ Msg(q)' = Msg(q) /\ q # n
    BY <1>0, <1>1, <1>2, RecordKept
  <1>6. \A q \in Read : Answered(q) => Answered(q)'
    BY <1>0, AnsweredKept
  <1>7. recv = <<>> => Read = {}
    BY DEF Read
  <1>8. recv # <<>> =>
           /\ serveRead(t, m) /\ pc'[n] = "queued" /\ inflight' = [inflight EXCEPT ![t] = n]
           /\ phase \in {"serving", "broken"} /\ ClientMaySend(t, m)
    BY <1>1, <1>2 DEF serveRead
  <1>9. Versions'
    <2>1. \A v \in Read, r \in Read : v < r /\ Is(v, {"Tversion"})' => Answered(v)'
      BY <1>5, <1>6 DEF Client, Versions, Is
    <2>2. \A v \in Read : Is(v, {"Tversion"})' => Answered(v)'
      <3> SUFFICES ASSUME NEW v \in Read PROVE Is(v, {"Tversion"}) => Answered(v)
        BY <1>4, <1>5, <1>6 DEF Is
      <3> QED BY <1>7, <1>8 DEF ClientMaySend
    <2>3. \A v, r \in Read' : v < r => v \in Read
      BY <1>2, <1>3, MaxReqsAssumption DEF Reqs, Read
    <2> QED BY <1>3, <2>1, <2>2, <2>3 DEF Versions
  <1>10. Held'
    <2>1. \A fl \in Read, r \in Read :
             fl < r /\ Is(fl, {"Tflush"})' /\ Msg(fl)'.oldtag = recv'[r].tag => Answered(fl)'
      BY <1>5, <1>6 DEF Client, Held, Is
    <2>2. \A fl \in Read : Is(fl, {"Tflush"})' /\ Msg(fl)'.oldtag = t => Answered(fl)'
      <3> SUFFICES ASSUME NEW fl \in Read, Is(fl, {"Tflush"}), Msg(fl).oldtag = t
                   PROVE  Answered(fl)
        BY <1>5, <1>6 DEF Is
      <3> QED BY <1>7, <1>8 DEF ClientMaySend, TagFree
    <2>3. \A v, r \in Read' : v < r => v \in Read
      BY <1>2, <1>3, MaxReqsAssumption DEF Reqs, Read
    <2> QED BY <1>3, <1>4, <2>1, <2>2, <2>3 DEF Held
  <1>11. Opening'
    <2>1. \A r \in Read' : recv'[r].tag = NoTag <=> Is(r, {"Tversion"})'
      BY <1>1, <1>3, <1>4, <1>5, ZenonT(60) DEF Client, Opening, Is
    <2>2. CASE serveRead(t, m)
      <3>1. 1 \in Read /\ Is(1, {"Tversion"})
        BY <2>2 DEF Client, Opening, serveRead
      <3> QED BY <1>3, <1>5, <2>1, <3>1 DEF Opening, Is
    <2>3. CASE serveHello(t, m) /\ n = 1
      BY <1>3, <1>4, <2>1, <2>3 DEF serveHello, Opening, Is
    <2>4. CASE serveRefuse(t, m) /\ n = 1
      BY <1>1, <1>2, <2>1, <2>4 DEF serveRefuse, Opening
    <2> QED BY <1>1, <1>2, <2>2, <2>3, <2>4
  <1>12. Unique'
    <2> SUFFICES ASSUME ~TagReuse
                 PROVE  /\ \A q, r \in Read' : recv'[q].tag = recv'[r].tag /\ recv'[q].tag # NoTag => q = r
                        /\ \A r \in Read' :
                              recv'[r].tag # NoTag /\ pc'[r] \in {"queued", "running", "found", "file", "reply", "cleanup"} =>
                                  inflight'[recv'[r].tag] = r
      BY DEF Unique
    <2>1. \A q \in Read : t # NoTag => recv[q].tag # t
      BY <1>7, <1>8 DEF ClientMaySend, TagFree
    <2>2. \A q, r \in Read' : recv'[q].tag = recv'[r].tag /\ recv'[q].tag # NoTag => q = r
      BY <1>3, <1>4, <1>5, <2>1 DEF Client, Unique
    <2>3. \A r \in Read : recv[r].tag \in Tags
      BY <1>0, MsgType
    <2>4. ASSUME NEW r \in Read, recv[r].tag # NoTag,
                 pc[r] \in {"queued", "running", "found", "file", "reply", "cleanup"}
          PROVE  inflight'[recv[r].tag] = r
      <3>1. inflight[recv[r].tag] = r /\ recv[r].tag # t
        BY <2>1, <2>4 DEF Client, Unique
      <3> QED BY <1>7, <1>8, <2>3, <3>1 DEF Base, TypeOK, CtxTypeOK
    <2>5. pc'[n] = "queued" => inflight'[t] = n
      <3>1. pc'[n] = "queued" => inflight' = [inflight EXCEPT ![t] = n]
        BY <1>1, <1>2 DEF serveRead
      <3> QED BY <3>1 DEF Base, TypeOK, CtxTypeOK
    <2>6. pc'[n] \in {"queued", "done"} /\ \A r \in Read : pc'[r] = pc[r]
      BY <1>1, <1>2, <1>5
    <2> QED BY <1>3, <1>4, <1>5, <2>2, <2>4, <2>5, <2>6
  <1> QED BY <1>9, <1>10, <1>11, <1>12 DEF Client

\* What a goroutine's step does to inflight: an entry goes only when the request is
\* done or dropped, and it is the one under that request's tag.
LEMMA InflightStep ==
    ASSUME Base, NEW r \in Reqs, Local(r) \/ Backend(r)
    PROVE  \/ inflight' = inflight
           \/ inflight' = [inflight EXCEPT ![recv[r].tag] = 0] /\ pc'[r] \in {"dropped", "done"}
  BY DEF Local, Backend, dispatchNow, acquireSlot, dropQueued, refuse, tVersion, tFlush, getFid, delFid, errUnknownFid, openFileGet, writeReply, writeFails, handleCleanup, tAttach, tWalk, tFileIO, tCreate, tClunkRemove, ctxVars, Base, TypeOK, GoTypeOK

\* The client's discipline is kept by every other step.
LEMMA ClientOthers ==
    ASSUME History, Client, [Next]_vars, ~Serve
    PROVE  Client'
  <1> USE DEF History
  <1>0. recv' = recv /\ Read' = Read /\ Base /\ Read \subseteq Reqs
    BY OthersKeepRecord, MaxReqsAssumption DEF Base, TypeOK, NetTypeOK, Read, Reqs
  <1>1. \A q \in Read : Answered(q) => Answered(q)'
    BY AnsweredKept
  <1>2. \A q \in Read : Msg(q)' = Msg(q)
    BY <1>0 DEF Msg
  <1>3. Versions' /\ Held'
    BY <1>0, <1>1, <1>2 DEF Client, Versions, Held, Is
  <1>4. Opening'
    <2>1. phase' \in {"serving", "broken"} => phase \in {"serving", "broken"}
      BY DEF Next, Local, Backend, serveEnds, dispatchNow, acquireSlot, dropQueued, refuse, tVersion, tFlush, getFid, delFid, errUnknownFid, openFileGet, writeReply, writeFails, handleCleanup, tAttach, tWalk, tFileIO, tCreate, tClunkRemove, netVars, vars
    <2> QED BY <1>0, <1>2, <2>1 DEF Client, Opening, Is
  <1>5. Unique'
    <2> DEFINE Busy == {"queued", "running", "found", "file", "reply", "cleanup"}
    <2> SUFFICES ASSUME ~TagReuse, NEW q \in Read, recv[q].tag # NoTag, pc'[q] \in Busy
                 PROVE  inflight'[recv[q].tag] = q
      BY <1>0 DEF Client, Unique
    <2>1. CASE \E r \in Reqs : Local(r) \/ Backend(r)
      <3>1. PICK r \in Reqs : Local(r) \/ Backend(r)
        BY <2>1
      <3>2. pc[q] \in Busy
        BY <1>0, <3>1, GoStep
      <3>3. inflight[recv[q].tag] = q
        BY <3>2 DEF Client, Unique
      <3>4. r \in Read /\ (recv[r].tag = recv[q].tag => r = q)
        BY <1>0, <3>1, GoStep DEF Client, Unique
      <3>5. recv[q].tag \in Tags
        BY <1>0, MsgType
      <3> QED BY <1>0, <3>1, <3>3, <3>4, <3>5, InflightStep DEF Base, TypeOK, CtxTypeOK
    <2>2. CASE ~\E r \in Reqs : Local(r) \/ Backend(r)
      <3>1. UNCHANGED <<pc, inflight>>
        BY <2>2, QuietStep DEF goVars, ctxVars
      <3> QED BY <3>1 DEF Client, Unique
    <2> QED BY <2>1, <2>2
  <1> QED BY <1>3, <1>4, <1>5 DEF Client

\* The client's discipline holds in every behaviour.
THEOREM ClientInvariant == Spec => []Client
  <1>1. History /\ Client /\ [Next]_vars => Client'
    BY ClientServe, ClientOthers
  <1> QED BY HistoryInvariant, ClientInit, <1>1, PTL DEF Spec
-----------------------------------------------------------------------------
(***************************************************************************)
(* Tflush.                                                                 *)
(***************************************************************************)

\* The outcome of a Tflush is set by tFlush.
LEMMA FlushReturns ==
    ASSUME History, [Next]_vars, NEW fl \in Read', Is(fl, {"Tflush"})', res'[fl] = "ok",
           ~(fl \in Read /\ res[fl] = "ok")
    PROVE  fl \in Read /\ fl \in Reqs /\ tFlush(fl)
  <1> USE DEF History
  <1>0. Base /\ Read \subseteq Reqs
    BY MaxReqsAssumption DEF Base, TypeOK, NetTypeOK, Read, Reqs
  <1>1. CASE Serve
    <2>1. PICK t \in Tags, m \in Messages :
             LET n == Len(recv) + 1
             IN  /\ recv' = Append(recv, Request(t, m))
                 /\ n \in Reqs /\ pc[n] = "unread"
                 /\ Len(recv) \in Nat /\ Len(recv') = n
                 /\ \A q \in Reqs : q # n => res'[q] = res[q]
                 /\ \/ UNCHANGED res
                    \/ m.type = "Tversion"
                    \/ res'[n] = "err"
      BY <1>0, <1>1, ServeAppends DEF serveHello
    <2>2. PICK n \in Reqs : n = Len(recv) + 1
      BY <2>1
    <2> DEFINE S == [tag : Tags, msg : Messages, seen : SUBSET Reqs]
    <2>3. recv'[n] = Request(t, m) /\ Read' = Read \cup {n}
      <3>1. recv \in Seq(S) /\ Request(t, m) \in S
        BY <1>0, RequestType DEF Base, TypeOK, NetTypeOK
      <3> HIDE DEF S
      <3> QED BY <2>1, <2>2, <3>1 DEF Read
    <2>4. Msg(n)' = m
      BY <2>3 DEF Request, Msg
    <2>5. res[n] = "none"
      BY <2>1, <2>2 DEF Ended, After
    <2>6. fl = n
      BY <1>0, <2>1, <2>2, <2>3
    <2> QED BY <2>1, <2>2, <2>4, <2>5, <2>6 DEF Is
  <1>2. CASE \E r \in Reqs : Local(r) \/ Backend(r)
    <2>1. PICK r \in Reqs : Local(r) \/ Backend(r)
      BY <1>2
    <2>2. recv' = recv /\ Read' = Read /\ fl \in Read /\ fl \in Reqs
      BY <1>0, <2>1, GoStep DEF Read
    <2>3. r = fl
      BY <1>0, <2>1, <2>2, GoStep
    <2>4. Msg(r).type = "Tflush" /\ res'[r] # res[r]
      BY <2>2, <2>3 DEF Is, Msg
    <2>5. tFlush(r)
      BY <2>1, <2>4 DEF Local, Backend, dispatchNow, acquireSlot, dropQueued, refuse, tVersion, getFid, delFid, errUnknownFid, openFileGet, writeReply, writeFails, handleCleanup, tAttach, tWalk, tFileIO, tCreate, tClunkRemove, Is, Refused, GetsFid, DelsFid, FileIO
    <2> QED BY <2>2, <2>3, <2>5
  <1>3. CASE ~Serve /\ ~\E r \in Reqs : Local(r) \/ Backend(r)
    <2>1. UNCHANGED <<recv, res>>
      BY <1>3, QuietStep DEF goVars
    <2> QED BY <2>1 DEF Read
  <1> QED BY <1>1, <1>2, <1>3

\* A Tflush reaches the request it names (FlushReaches) as long as the client does
\* not reuse tags; the run with reuse shows that it need not otherwise.
THEOREM FlushesReach ==
    ASSUME ~TagReuse
    PROVE  Spec => []FlushReaches
  <1>1. Init => FlushReaches
    BY DEF Init, FlushReaches, Read
  <1>2. History /\ Client /\ FlushReaches /\ [Next]_vars => FlushReaches'
    <2> SUFFICES ASSUME History, Client, FlushReaches, [Next]_vars,
                        NEW fl \in Read', Is(fl, {"Tflush"})', res'[fl] = "ok", Target(fl)' # 0,
                        pc'[Target(fl)'] \in {"queued", "running", "found", "file"}
                 PROVE  cancelled'[Target(fl)']
      BY DEF FlushReaches
    <2> DEFINE q == Target(fl)
    <2>0. Base /\ Read \subseteq Reqs
      BY MaxReqsAssumption DEF History, Base, TypeOK, NetTypeOK, Read, Reqs
    <2>1. fl \in Read
      BY FlushReturns
    <2>2. Target(fl)' = q /\ Is(fl, {"Tflush"})
      BY <2>0, <2>1, TargetKept, RecordKept DEF Is
    <2>3. /\ q \in Read /\ q < fl /\ recv[q].tag = Msg(fl).oldtag
      <3>1. q \in 1..(fl - 1) /\ recv[q].tag = Msg(fl).oldtag
        BY <2>1, <2>2, TargetIs
      <3> HIDE DEF q
      <3> QED BY <2>0, <2>1, <3>1 DEF Read, Base, TypeOK, NetTypeOK
    <2> HIDE DEF q
    <2>4. pc[q] \in {"queued", "running", "found", "file"}
      <3>1. pc[q] # "unread"
        BY <2>0, <2>3 DEF Base, ReadInv
      <3> QED BY <2>0, <2>2, <2>3, <3>1, Progress DEF History
    <2>5. CASE res[fl] = "ok"
      BY <2>0, <2>1, <2>2, <2>3, <2>4, <2>5, Progress DEF FlushReaches, History, q
    <2>6. CASE res[fl] # "ok"
      <3>1. tFlush(fl)
        BY <2>6, FlushReturns
      <3>2. recv[q].tag # NoTag
        <4>1. ~Answered(q)
          BY <2>0, <2>3, <2>4 DEF History, Ended
        <4> QED BY <2>1, <2>3, <4>1 DEF Client, Opening, Versions
      <3>3. inflight[Msg(fl).oldtag] = q
        BY <2>3, <2>4, <3>2 DEF Client, Unique
      <3>4. q \in Reqs /\ q # 0
        BY <2>0, <2>3 DEF Reqs
      <3> QED BY <2>2, <3>1, <3>3, <3>4 DEF tFlush, Base, TypeOK, CtxTypeOK, History
    <2> QED BY <2>5, <2>6
  <1> QED BY HistoryInvariant, ClientInvariant, <1>1, <1>2, PTL DEF Spec
-----------------------------------------------------------------------------
(***************************************************************************)
(* The dialect of a reply.                                                 *)
(***************************************************************************)

\* A Tversion whose handler has run.
Stored(v) == Is(v, {"Tversion"}) /\ pc[v] \in After

\* unix is what the last Tversion whose handler has run asked for.
Spoken ==
    \A v \in Read :
        Stored(v) /\ (\A w \in Read : Stored(w) => w <= v)
            => (unix <=> Msg(v).version = "9P2000.u")

\* VersionOf is the last Tversion before a request.
LEMMA VersionIs ==
    ASSUME History, Opening, NEW r \in Read \ {1}
    PROVE  /\ VersionOf(r) \in Read /\ VersionOf(r) < r /\ Is(VersionOf(r), {"Tversion"})
           /\ \A w \in Read : w < r /\ Is(w, {"Tversion"}) => w <= VersionOf(r)
  <1> DEFINE V == {v \in 1..(r - 1) : Is(v, {"Tversion"})}
  <1>0. r \in Nat \ {0, 1} /\ Len(recv) \in Nat /\ r <= Len(recv)
    BY DEF History, Base, TypeOK, NetTypeOK, Read
  <1>1. 1 \in V /\ V \in SUBSET (0..r)
    BY <1>0 DEF Opening
  <1> HIDE DEF V
  <1>2. \E v \in V : \A w \in V : w <= v
    BY <1>0, <1>1, GreatestExists
  <1>3. VersionOf(r) = CHOOSE v \in V : \A w \in V : w <= v
    BY DEF VersionOf, V
  <1>4. VersionOf(r) \in V /\ \A w \in V : w <= VersionOf(r)
    BY <1>2, <1>3
  <1> QED BY <1>0, <1>4 DEF V, Read

\* It does not change.
LEMMA VersionKept ==
    ASSUME History, [Next]_vars, NEW r \in Read
    PROVE  VersionOf(r)' = VersionOf(r)
  <1>1. \A v \in 1..(r - 1) : v \in Read
    BY DEF History, Base, TypeOK, NetTypeOK, Read
  <1> DEFINE V == {v \in 1..(r - 1) : Is(v, {"Tversion"})}
  <1>2. V' = V
    BY <1>1, RecordKept DEF History, Is
  <1>3. VersionOf(r) = CHOOSE v \in V : \A w \in V : w <= v
    BY DEF VersionOf
  <1>4. VersionOf(r)' = CHOOSE v \in V' : \A w \in V' : w <= v
    BY DEF VersionOf
  <1> HIDE DEF V
  <1> QED BY <1>2, <1>3, <1>4

\* Spoken is kept: a Tversion whose handler runs is the last one read, because the
\* client waits for Rversion.
LEMMA SpokenStep ==
    ASSUME History, Client, Spoken, [Next]_vars
    PROVE  Spoken'
  <1> USE DEF History
  <1>0. Base /\ Read \subseteq Reqs
    BY MaxReqsAssumption DEF Base, TypeOK, NetTypeOK, Read, Reqs
  <1>1. CASE Serve
    <2>1. PICK t \in Tags, m \in Messages :
             LET n == Len(recv) + 1
             IN  /\ recv' = Append(recv, Request(t, m))
                 /\ n \in Reqs /\ n \notin Read
                 /\ Len(recv) \in Nat /\ Len(recv') = n
                 /\ \A q \in Reqs : q # n => pc'[q] = pc[q]
                 /\ \/ pc'[n] = "queued" /\ UNCHANGED unix
                    \/ recv = <<>> /\ m.type = "Tversion" /\ unix' = (m.version = "9P2000.u")
                    \/ recv = <<>> /\ m.type # "Tversion"
      BY <1>0, <1>1, ServeAppends DEF serveHello, serveRefuse, tVersionStores
    <2>2. PICK n \in Reqs : n = Len(recv) + 1
      BY <2>1
    <2> DEFINE S == [tag : Tags, msg : Messages, seen : SUBSET Reqs]
    <2>3. recv'[n] = Request(t, m) /\ Read' = Read \cup {n} /\ n \notin Read
      <3>1. recv \in Seq(S) /\ Request(t, m) \in S
        BY <1>0, RequestType DEF Base, TypeOK, NetTypeOK
      <3> HIDE DEF S
      <3> QED BY <2>1, <2>2, <3>1 DEF Read
    <2>4. Msg(n)' = m
      BY <2>3 DEF Request, Msg
    <2>5. \A q \in Read : Msg(q)' = Msg(q) /\ pc'[q] = pc[q] /\ q \in Read'
      BY <1>0, <2>1, <2>2, RecordKept
    <2>6. CASE recv = <<>>
      <3>1. Read = {}
        BY <2>6 DEF Read
      <3> QED BY <2>1, <2>2, <2>3, <2>4, <3>1 DEF Spoken, Stored, Is, After
    <2>7. CASE pc'[n] = "queued" /\ UNCHANGED unix
      <3>1. ~Stored(n)' /\ \A q \in Read : Stored(q)' <=> Stored(q)
        BY <2>3, <2>5, <2>7 DEF Stored, Is, After
      <3> QED BY <2>3, <2>5, <2>7, <3>1 DEF Spoken
    <2> QED BY <2>1, <2>2, <2>6, <2>7
  <1>2. CASE \E r \in Reqs : tVersion(r)
    <2>1. PICK r \in Reqs : tVersion(r)
      BY <1>2
    <2>2. /\ recv' = recv /\ Read' = Read /\ r \in Read /\ Is(r, {"Tversion"}) /\ ~Answered(r)
          /\ unix' = (Msg(r).version = "9P2000.u")
      BY <2>1 DEF tVersion, tVersionStores, Read, Is, Ended
    <2>3. \A w \in Read : w <= r
      <3> SUFFICES ASSUME NEW w \in Read, r < w PROVE FALSE
        BY <2>2 DEF Read, Base, TypeOK, NetTypeOK
      <3> QED BY <2>2 DEF Client, Versions
    <2>4. Stored(r)'
      BY <2>1, <2>2 DEF tVersion, Return, Stored, Is, Msg, After, Base, TypeOK, GoTypeOK
    <2>5. \A v \in Read : (\A w \in Read : Stored(w)' => w <= v) => v = r
      BY <2>2, <2>3, <2>4 DEF Read, Base, TypeOK, NetTypeOK
    <2> QED BY <2>2, <2>5 DEF Spoken, Msg
  <1>3. CASE ~Serve /\ ~\E r \in Reqs : tVersion(r)
    <2>1. recv' = recv /\ Read' = Read /\ unix' = unix
      <3>1. unix' = unix
        BY <1>3 DEF Next, Local, Backend, serveEnds, dispatchNow, acquireSlot, dropQueued, refuse, tFlush, getFid, delFid, errUnknownFid, openFileGet, writeReply, writeFails, handleCleanup, tAttach, tWalk, tFileIO, tCreate, tClunkRemove, netVars, vars
      <3> QED BY <1>3, <3>1, OthersKeepRecord DEF Read
    <2>2. \A v \in Read : Is(v, {"Tversion"}) /\ pc'[v] \in After => pc[v] \in After
      <3> SUFFICES ASSUME NEW v \in Read, Msg(v).type = "Tversion", pc'[v] \in After, pc[v] \notin After
                   PROVE  FALSE
        BY DEF Is
      <3>1. PICK r \in Reqs : Local(r) \/ Backend(r)
        BY <1>0, <1>3, QuietStep DEF goVars
      <3>2. v = r /\ v \in Reqs
        BY <1>0, <3>1, GoStep
      <3> QED
        BY <1>0, <1>3, <3>1, <3>2 DEF Local, Backend, dispatchNow, acquireSlot, dropQueued, refuse, tFlush, getFid, delFid, errUnknownFid, openFileGet, writeReply, writeFails, handleCleanup, tAttach, tWalk, tFileIO, tCreate, tClunkRemove, Is, Refused, GetsFid, DelsFid, FileIO, After, Base, TypeOK, GoTypeOK
    <2>3. \A v \in Read : Stored(v)' <=> Stored(v)
      BY <1>0, <2>1, <2>2, Progress DEF Stored, Is, Msg
    <2> QED BY <2>1, <2>3 DEF Spoken, Msg
  <1> QED BY <1>1, <1>2, <1>3

\* The Tversion whose dialect a reply written now is in: the last before the
\* request, or a later one that was read while the request was unanswered.
LEMMA DialectNow ==
    ASSUME History, Client, Spoken, NEW r \in Read \ {1}, ~Answered(r), ~Is(r, {"Tversion"})
    PROVE  \E v \in Read :
             /\ Is(v, {"Tversion"})
             /\ v = VersionOf(r) \/ (v > r /\ r \notin recv[v].seen)
             /\ unix <=> Msg(v).version = "9P2000.u"
  <1> USE DEF History
  <1>0. Base /\ Read \subseteq Reqs /\ Len(recv) \in Nat
    BY MaxReqsAssumption DEF Base, TypeOK, NetTypeOK, Read, Reqs
  <1>1. PICK u \in Read : /\ u = VersionOf(r) /\ u < r /\ Is(u, {"Tversion"})
                          /\ \A w \in Read : w < r /\ Is(w, {"Tversion"}) => w <= u
    BY VersionIs DEF Client
  <1>2. Stored(u)
    BY <1>0, <1>1 DEF Client, Versions, Ended, Stored, After
  <1> DEFINE V == {v \in Read : Stored(v)}
  <1>3. u \in V /\ V \in SUBSET (0..Len(recv))
    BY <1>0, <1>1, <1>2 DEF Read
  <1>4. PICK v \in V : \A w \in V : w <= v
    <2> HIDE DEF V
    <2> QED BY <1>0, <1>3, GreatestExists
  <1>5. v \in Read /\ Stored(v) /\ Is(v, {"Tversion"}) /\ u <= v /\ v # r
    BY <1>3, <1>4 DEF Stored
  <1>6. unix <=> Msg(v).version = "9P2000.u"
    BY <1>4, <1>5 DEF Spoken
  <1>7. CASE v < r
    <2>1. v = u
      BY <1>0, <1>1, <1>5, <1>7 DEF Read
    <2> QED BY <1>1, <1>5, <1>6, <2>1
  <1>8. CASE v > r
    <2>1. r \notin recv[v].seen
      BY <1>5 DEF Seen
    <2> QED BY <1>5, <1>6, <1>8, <2>1
  <1> QED BY <1>0, <1>5, <1>7, <1>8 DEF Read

\* A reply is in the dialect of the last Tversion before its request, or of one
\* that was read while the request was unanswered (ReplyDialect).
THEOREM RepliesInDialect == Spec => []ReplyDialect
  <1>1. Init => Spoken /\ ReplyDialect
    BY DEF Init, Spoken, ReplyDialect, Read
  <1>2. History /\ Client /\ Spoken /\ ReplyDialect /\ [Next]_vars => ReplyDialect'
    <2> SUFFICES ASSUME History, Client, Spoken, ReplyDialect, [Next]_vars,
                        NEW r \in Read' \ {1}, Answered(r)', ~Is(r, {"Tversion"})'
                 PROVE  \E v \in Read' :
                          /\ Is(v, {"Tversion"})'
                          /\ v = VersionOf(r)' \/ (v > r /\ r \notin recv'[v].seen)
                          /\ out'[r] = Dialect((Msg(v).version = "9P2000.u")')
      BY DEF ReplyDialect, Dialect
    <2> USE DEF History
    <2>0. Base /\ Read \subseteq Reqs
      BY MaxReqsAssumption DEF Base, TypeOK, NetTypeOK, Read, Reqs
    <2>1. r \in Read
      <3>1. CASE Serve
        <4>1. PICK t \in Tags, m \in Messages :
                 LET n == Len(recv) + 1
                 IN  /\ n \in Reqs /\ pc[n] = "unread"
                     /\ Len(recv) \in Nat /\ Len(recv') = n
                     /\ n = 1 \/ UNCHANGED out
          BY <2>0, <3>1, ServeAppends
        <4>2. \A n \in Reqs : pc[n] = "unread" => ~Answered(n)
          BY DEF Ended
        <4> QED BY <4>1, <4>2 DEF Read, Answered
      <3>2. CASE ~Serve
        BY <3>2, OthersKeepRecord DEF Read
      <3> QED BY <3>1, <3>2
    <2>2. VersionOf(r)' = VersionOf(r) /\ ~Is(r, {"Tversion"}) /\ r \in Reqs
      BY <2>0, <2>1, VersionKept, RecordKept DEF Is
    <2>3. \A v \in Read : v \in Read' /\ recv'[v] = recv[v] /\ Msg(v)' = Msg(v) /\ (Is(v, {"Tversion"})' <=> Is(v, {"Tversion"}))
      BY <2>0, RecordKept DEF Is
    <2>4. SUFFICES \E v \in Read :
                     /\ Is(v, {"Tversion"})
                     /\ v = VersionOf(r) \/ (v > r /\ r \notin recv[v].seen)
                     /\ out'[r] = Dialect(Msg(v).version = "9P2000.u")
      BY <2>2, <2>3 DEF Dialect
    <2>5. CASE Answered(r)
      <3>1. out'[r] = out[r]
        BY <2>0, <2>2, <2>5, Progress
      <3> QED BY <2>1, <2>2, <2>5, <3>1 DEF ReplyDialect
    <2>6. CASE ~Answered(r)
      <3>1. writeReply(r)
        <4>1. CASE Serve
          <5>1. out'[r] = out[r]
            BY <2>0, <2>1, <2>2, <4>1, ServeAppends
          <5> QED BY <2>6, <5>1 DEF Answered
        <4>2. CASE \E q \in Reqs : Local(q) \/ Backend(q)
          <5>1. PICK q \in Reqs : Local(q) \/ Backend(q)
            BY <4>2
          <5>2. q = r
            BY <2>0, <2>2, <2>6, <5>1, GoStep DEF Answered
          <5> QED BY <2>6, <5>1, <5>2 DEF Answered, Local, Backend, dispatchNow, acquireSlot, dropQueued, refuse, tVersion, tFlush, getFid, delFid, errUnknownFid, openFileGet, writeFails, handleCleanup, tAttach, tWalk, tFileIO, tCreate, tClunkRemove
        <4>3. CASE ~Serve /\ ~\E q \in Reqs : Local(q) \/ Backend(q)
          BY <2>6, <4>3, QuietStep DEF goVars, Answered
        <4> QED BY <4>1, <4>2, <4>3
      <3>2. out'[r] = Dialect(unix)
        BY <2>2, <3>1 DEF writeReply, Base, TypeOK, GoTypeOK
      <3>3. PICK v \in Read : /\ Is(v, {"Tversion"})
                              /\ v = VersionOf(r) \/ (v > r /\ r \notin recv[v].seen)
                              /\ unix <=> Msg(v).version = "9P2000.u"
        BY <2>1, <2>2, <2>6, DialectNow
      <3>4. Dialect(unix) = Dialect(Msg(v).version = "9P2000.u")
        BY <3>3 DEF Dialect
      <3> QED BY <3>2, <3>3, <3>4
    <2> QED BY <2>5, <2>6
  <1> QED BY HistoryInvariant, ClientInvariant, SpokenStep, <1>1, <1>2, PTL DEF Spec
-----------------------------------------------------------------------------
(***************************************************************************)
(* The refinement of RequestContract.                                      *)
(***************************************************************************)

\* A queued request whose ctx is done was named by a Tflush.
Withdrawable ==
    \A q \in Reqs : cancelled[q] /\ pc[q] = "queued" => q \in FlushTargets

\* What a Tflush named once it still names.
LEMMA TargetsGrow ==
    ASSUME History, [Next]_vars
    PROVE  /\ FlushTargets \subseteq FlushTargets'
           /\ recv' = recv => FlushTargets' = FlushTargets
  <1>1. \A fl \in Read : fl \in Read' /\ Msg(fl)' = Msg(fl) /\ Target(fl)' = Target(fl)
    BY RecordKept, TargetKept DEF History
  <1>2. recv' = recv => Read' = Read
    BY DEF Read
  <1> QED BY <1>1, <1>2 DEF FlushTargets, Is

\* Withdrawable is kept: inflight leads tFlush to the request the Tflush is about,
\* unless that one is gone.
LEMMA WithdrawableStep ==
    ASSUME History, Client, Withdrawable, [Next]_vars
    PROVE  Withdrawable'
  <1> SUFFICES ASSUME NEW q \in Reqs, cancelled'[q], pc'[q] = "queued"
               PROVE  q \in FlushTargets'
    BY DEF Withdrawable
  <1> USE DEF History
  <1>0. Base /\ Read \subseteq Reqs
    BY MaxReqsAssumption DEF Base, TypeOK, NetTypeOK, Read, Reqs
  <1>1. CASE cancelled[q]
    <2>1. pc[q] = "queued"
      <3>1. pc[q] # "unread"
        BY <1>1 DEF Ended
      <3>2. CASE Serve
        BY <1>0, <3>1, <3>2, ServeAppends
      <3>3. CASE \E r \in Reqs : Local(r) \/ Backend(r)
        BY <1>0, <3>1, <3>3, GoStep
      <3>4. CASE ~Serve /\ ~\E r \in Reqs : Local(r) \/ Backend(r)
        BY <3>4, QuietStep DEF goVars
      <3> QED BY <3>2, <3>3, <3>4
    <2> QED BY <1>1, <2>1, TargetsGrow DEF Withdrawable
  <1>2. CASE ~cancelled[q]
    <2>1. PICK r \in Reqs : Local(r) \/ Backend(r)
      <3>1. CASE Serve
        BY <1>0, <1>2, <3>1, ServeAppends
      <3>2. CASE ~Serve /\ ~\E r \in Reqs : Local(r) \/ Backend(r)
        BY <1>2, <3>2, QuietStep DEF ctxVars
      <3> QED BY <3>1, <3>2
    <2>2. pc[q] = "queued" /\ recv' = recv /\ r \in Read
      <3>1. r \in Read /\ recv' = recv /\ (pc[q] = "queued" \/ pc'[q] = pc[q])
        BY <1>0, <2>1, GoStep
      <3> QED BY <3>1
    <2>3. tFlush(r)
      BY <1>0, <1>2, <2>1 DEF Local, Backend, dispatchNow, acquireSlot, dropQueued, refuse, tVersion, getFid, delFid, errUnknownFid, openFileGet, writeReply, writeFails, handleCleanup, tAttach, tWalk, tFileIO, tCreate, tClunkRemove, ctxVars, Base, TypeOK, CtxTypeOK, GoTypeOK
    <2>4. Msg(r).oldtag \in Tags /\ Is(r, {"Tflush"}) /\ pc[r] = "running" /\ ~Answered(r)
      BY <1>0, <2>2, <2>3, MsgType DEF tFlush, Is, MessageOK, Ended
    <2>5. q = inflight[Msg(r).oldtag] /\ q # 0
      BY <1>0, <1>2, <2>3 DEF tFlush, Base, TypeOK, CtxTypeOK
    <2>6. /\ q \in Read /\ recv[q].tag = Msg(r).oldtag
          /\ \A p \in Read : recv[p].tag = Msg(r).oldtag => p <= q
      BY <2>4, <2>5 DEF Latest
    <2>7. q < r
      <3>1. ~(r < q)
        BY <2>2, <2>4, <2>6 DEF Client, Held
      <3>2. r # q
        BY <2>2, <2>4
      <3> QED BY <3>1, <3>2, MaxReqsAssumption DEF Reqs
    <2>8. Target(r) = q
      <3>1. q \in 1..(r - 1)
        BY <2>7, MaxReqsAssumption DEF Reqs
      <3>2. Target(r) # 0 /\ Target(r) \in 1..(r - 1) /\ recv[Target(r)].tag = Msg(r).oldtag /\ q <= Target(r)
        BY <2>2, <2>6, <3>1, TargetIs
      <3>3. Target(r) \in Read
        BY <1>0, <2>2, <3>2 DEF Read, Base, TypeOK, NetTypeOK
      <3>4. Target(r) <= q
        BY <2>6, <3>2, <3>3
      <3> QED BY <3>2, <3>4, MaxReqsAssumption DEF Reqs
    <2>9. q \in FlushTargets
      BY <2>2, <2>4, <2>8 DEF FlushTargets
    <2> QED BY <2>9, TargetsGrow
  <1> QED BY <1>1, <1>2
\* A goroutine's step keeps the contract.
LEMMA ContractGo ==
    ASSUME History, Withdrawable, NEW r \in Reqs, Local(r) \/ Backend(r)
    PROVE  [Contract!Next]_(Contract!vars)
  <1> USE DEF History
  <1> DEFINE st == [q \in Reqs |-> Fate(q)]
             open == phase \in {"hello", "serving"}
  <1>0. Base /\ Reqs = 1..MaxReqs /\ [Next]_vars
    BY DEF Reqs, Next
  <1>1. /\ recv' = recv /\ Read' = Read /\ r \in Read
        /\ FlushTargets' = FlushTargets
    BY <1>0, GoStep, TargetsGrow DEF Read
  <1>2. \A q \in Reqs : q # r => Fate(q)' = Fate(q)
    BY <1>0, <1>1, GoStep DEF Fate, Answered
  <1>3. pc[r] \notin {"cleanup", "done"} => ~Answered(r)
    BY DEF Ended
  <1>4. CASE writeReply(r)
    <2>1. /\ pc[r] = "reply" /\ pc'[r] = "cleanup" /\ phase' = phase /\ Answered(r)'
      BY <1>0, <1>4 DEF writeReply, netVars, Answered, Dialect, Base, TypeOK, GoTypeOK
    <2>2. Fate(r) = "pending" /\ Fate(r)' = "answered"
      BY <1>1, <1>3, <2>1 DEF Fate
    <2>3. st' = [st EXCEPT ![r] = "answered"] /\ st[r] = "pending" /\ open' = open
      BY <1>2, <2>1, <2>2
    <2>4. Contract!Answer(r)
      BY <1>1, <2>3 DEF Contract!Answer
    <2> QED BY <1>0, <2>4 DEF Contract!Next, Contract!Ids
  <1>5. CASE writeFails(r)
    <2>1. /\ pc[r] = "reply" /\ pc'[r] = "cleanup" /\ out' = out
          /\ phase' = "broken" \/ phase' = "closed"
      <3>1. phase # "hello"
        BY <1>0, <1>1 DEF Base, ReadInv, Read
      <3> QED BY <1>0, <1>5, <3>1 DEF writeFails, Base, TypeOK, GoTypeOK, NetTypeOK
    <2>2. Fate(r) = "pending" /\ Fate(r)' = "lost"
      BY <1>1, <1>3, <2>1 DEF Fate, Answered
    <2>3. st' = [st EXCEPT ![r] = "lost"] /\ st[r] = "pending"
      BY <1>2, <2>2
    <2>4. open' = FALSE
      BY <2>1
    <2>5. Contract!Lose(r)
      BY <1>1, <2>3, <2>4 DEF Contract!Lose
    <2> QED BY <1>0, <2>5 DEF Contract!Next, Contract!Ids
  <1>6. CASE dropQueued(r)
    <2>1. pc[r] = "queued" /\ pc'[r] = "dropped" /\ out' = out /\ phase' = phase /\ r \in FlushTargets
      BY <1>0, <1>6 DEF dropQueued, netVars, Withdrawable, Base, TypeOK, GoTypeOK
    <2>2. Fate(r) = "pending" /\ Fate(r)' = "withdrawn"
      BY <1>1, <1>3, <2>1 DEF Fate, Answered
    <2>3. st' = [st EXCEPT ![r] = "withdrawn"] /\ st[r] = "pending" /\ open' = open
      BY <1>2, <2>1, <2>2
    <2>4. Contract!Withdraw(r)
      BY <1>1, <2>1, <2>3 DEF Contract!Withdraw
    <2> QED BY <1>0, <2>4 DEF Contract!Next, Contract!Ids
  <1>7. CASE ~(writeReply(r) \/ writeFails(r) \/ dropQueued(r))
    <2>1. out' = out /\ phase' = phase /\ pc'[r] # "dropped" /\ pc[r] # "reply"
      BY <1>0, <1>7 DEF Local, Backend, dispatchNow, acquireSlot, refuse, tVersion, tFlush, getFid, delFid, errUnknownFid, openFileGet, handleCleanup, tAttach, tWalk, tFileIO, tCreate, tClunkRemove, Return, netVars, Base, TypeOK, GoTypeOK
    <2>2. Fate(r)' = Fate(r)
      BY <1>0, <1>1, <1>3, <2>1, GoStep DEF Fate, Answered
    <2>3. st' = st /\ open' = open
      BY <1>2, <2>1, <2>2
    <2> QED BY <1>1, <2>3 DEF Contract!vars
  <1> QED BY <1>4, <1>5, <1>6, <1>7

\* A step of the read loop keeps the contract.
LEMMA ContractServe ==
    ASSUME History, Serve
    PROVE  Contract!Next
  <1> USE DEF History
  <1> DEFINE st == [q \in Reqs |-> Fate(q)]
             open == phase \in {"hello", "serving"}
  <1>0. Base /\ Reqs = 1..MaxReqs /\ [Next]_vars /\ Read \subseteq Reqs
    BY MaxReqsAssumption DEF Next, Base, TypeOK, NetTypeOK, Read, Reqs
  <1>1. PICK t \in Tags, m \in Messages :
             LET n == Len(recv) + 1
             IN  /\ recv' = Append(recv, Request(t, m))
                 /\ n \in Reqs /\ n \notin Read /\ pc[n] = "unread"
                 /\ Len(recv) \in Nat /\ Len(recv') = n
                 /\ \A q \in Reqs : q # n => pc'[q] = pc[q] /\ out'[q] = out[q]
                 /\ \/ serveRead(t, m) /\ pc'[n] = "queued" /\ UNCHANGED out
                    \/ serveHello(t, m) /\ recv = <<>> /\ n = 1 /\ pc'[n] = "done"
                    \/ serveRefuse(t, m) /\ recv = <<>> /\ n = 1 /\ pc'[n] = "done"
    BY <1>0, ServeAppends
  <1>2. PICK n \in Reqs : n = Len(recv) + 1
    BY <1>1
  <1>3. Read' = Read \cup {n} /\ n \notin Read /\ Read = 1..(n - 1)
    BY <1>1, <1>2 DEF Read
  <1>4. \A q \in Reqs : q # n => Fate(q)' = Fate(q)
    BY <1>1, <1>2, <1>3 DEF Fate, Answered
  <1>5. Fate(n) = "unread"
    BY <1>3 DEF Fate
  <1>6. \A fl \in Read : Msg(fl)' = Msg(fl) /\ Target(fl)' = Target(fl)
    BY <1>0, RecordKept, TargetKept
  <1>7. FlushTargets' = FlushTargets \/ FlushTargets' = FlushTargets \cup {Target(n)'}
    BY <1>3, <1>6 DEF FlushTargets, Is
  <1>8. Target(n)' \in 0..(n - 1)
    <2> DEFINE S == {q \in 1..(n - 1) : recv[q].tag = Msg(n).oldtag}
    <2>1. n \in Nat \ {0} /\ S' \in SUBSET (0..n)
      BY <1>1, <1>2
    <2>2. Target(n)' = (IF S' = {} THEN 0 ELSE CHOOSE q \in S' : \A p \in S' : p <= q)
      BY DEF Target
    <2>3. \A q \in S' : q \in 1..(n - 1)
      OBVIOUS
    <2> HIDE DEF S
    <2>4. S' # {} => \E q \in S' : \A p \in S' : p <= q
      BY <2>1, GreatestExists
    <2>5. Target(n)' = 0 \/ Target(n)' \in S'
      BY <2>2, <2>4
    <2>6. Target(n)' = 0 \/ Target(n)' \in 1..(n - 1)
      BY <2>3, <2>5
    <2>7. 0 \in 0..(n - 1) /\ 1..(n - 1) \subseteq 0..(n - 1)
      BY <2>1
    <2> QED BY <2>6, <2>7, Zenon
  <1>9. CASE serveRead(t, m)
    <2>1. pc'[n] = "queued" /\ out' = out /\ phase' = phase
      BY <1>1, <1>2, <1>9 DEF serveRead, serveHello, serveRefuse
    <2>2. Fate(n)' = "pending"
      BY <1>1, <1>2, <1>3, <2>1 DEF Fate, Answered, Ended
    <2>3. st' = [st EXCEPT ![n] = "pending"] /\ st[n] = "unread" /\ open' = open
      BY <1>4, <1>5, <2>1, <2>2
    <2>4. \A q \in 1..(n - 1) : st[q] # "unread"
      BY <1>0, <1>3 DEF Fate
    <2>5. \E q \in 0..(n - 1) : FlushTargets' \in {FlushTargets, FlushTargets \cup {q}}
      BY <1>7, <1>8
    <2>6. Contract!Arrive(n)
      BY <2>3, <2>4, <2>5 DEF Contract!Arrive
    <2> QED BY <1>0, <2>6 DEF Contract!Next, Contract!Ids
  <1>10. CASE serveHello(t, m) \/ serveRefuse(t, m)
    <2>1. n = 1 /\ Read = {} /\ pc'[1] = "done"
      BY <1>1, <1>2, <1>10 DEF serveRead, serveHello, serveRefuse, Read, Base, ReadInv
    <2>2. /\ \A q \in Reqs : Fate(q) = "unread"
          /\ FlushTargets = {}
      BY <2>1 DEF Fate, FlushTargets
    <2>3. FlushTargets' \in {{}, {0}}
      BY <1>7, <1>8, <2>1, <2>2
    <2>4. Fate(1)' \in {"answered", "lost"} /\ (Fate(1)' = "lost" => phase' = "closed")
      <3>1. ~Answered(1)' => phase' = "closed"
        BY <1>0, <1>2, <1>10, <2>1 DEF serveHello, serveRefuse, Answered, Dialect, Base, TypeOK, GoTypeOK
      <3> QED BY <1>3, <2>1, <3>1 DEF Fate
    <2>5. st' = [st EXCEPT ![1] = Fate(1)'] /\ st'[1] = Fate(1)' /\ \A q \in Reqs : st[q] = "unread"
      BY <1>2, <1>4, <2>1, <2>2
    <2>6. Contract!Greet
      <3>1. open' \in BOOLEAN /\ (st'[1] = "lost" => ~open')
        BY <2>4, <2>5
      <3> QED BY <1>0, <2>3, <2>4, <2>5, <3>1 DEF Contract!Greet, Contract!Ids
    <2> QED BY <2>6 DEF Contract!Next
  <1> QED BY <1>1, <1>9, <1>10

\* The connection keeps the request contract (ContractHolds): every request has one
\* fate, and one that is withdrawn without a reply was named by a Tflush; for any
\* number of requests and slots, and whether or not the client reuses tags.
THEOREM ContractRefined == Spec => ContractHolds
  <1>1. Init => Contract!Init /\ Withdrawable
    BY DEF Init, Contract!Init, Contract!Ids, Reqs, Read, Fate, FlushTargets, Withdrawable
  <1>2. History /\ Client /\ Withdrawable /\ [Next]_vars => [Contract!Next]_(Contract!vars)
    <2> SUFFICES ASSUME History, Client, Withdrawable, [Next]_vars
                 PROVE  [Contract!Next]_(Contract!vars)
      OBVIOUS
    <2>1. CASE Serve
      BY <2>1, ContractServe
    <2>2. CASE \E r \in Reqs : Local(r) \/ Backend(r)
      BY <2>2, ContractGo
    <2>3. CASE ~Serve /\ ~\E r \in Reqs : Local(r) \/ Backend(r)
      <3>1. UNCHANGED <<recv, pc, out>> /\ FlushTargets' = FlushTargets
        BY <2>3, QuietStep, TargetsGrow DEF goVars
      <3>2. \A q \in Reqs : Fate(q)' = Fate(q)
        BY <3>1 DEF Fate, Answered, Read
      <3>3. [q \in Reqs |-> Fate(q)]' = [q \in Reqs |-> Fate(q)]
        BY <3>2
      <3>4. phase' = phase \/ phase' = "closed"
        BY <2>3 DEF Next, serveEnds, vars, netVars
      <3>5. (phase \in {"hello", "serving"})' = (phase \in {"hello", "serving"})
               \/ ((phase \in {"hello", "serving"}) /\ (phase \in {"hello", "serving"})' = FALSE)
        BY <3>4
      <3> QED BY <3>1, <3>3, <3>5 DEF Contract!vars, Contract!Next, Contract!Close
    <2> QED BY <2>1, <2>2, <2>3
  <1> QED
    BY HistoryInvariant, ClientInvariant, WithdrawableStep, <1>1, <1>2, PTL DEF Spec, ContractHolds, Contract!Spec
=============================================================================
