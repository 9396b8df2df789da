------------------------------ MODULE CallMux ------------------------------
(***************************************************************************)
(* The client's call path (src/client/mux.go and client.go): concurrent    *)
(* calls share one connection, callMux hands each a tag and a channel, the *)
(* read loop routes replies by tag, a cancelled call flushes its request,  *)
(* and Close or a read error fails whoever still waits.                    *)
(*                                                                         *)
(* A channel is <<c, "call">> for the reply to call c's request or         *)
(* <<c, "flush">> for the reply to its Tflush, and it also names the       *)
(* request sent for it.  The server is not part of this component: it      *)
(* answers each request at most once, in any order.                        *)
(***************************************************************************)
EXTENDS Naturals, Sequences

CONSTANTS
    Calls,        \* the rpc calls made on the connection
    NoTag,        \* p9.NoTag, the greatest value of the tag type (65535)
    Cancels,      \* whether a call's ctx may be cancelled
    Failures,     \* whether the transport may fail
    LateReplies   \* whether the server may answer a request after it has
                  \* answered the Tflush for it (ServerConn does)

ASSUME NoTagAssumption == NoTag \in Nat \ {0}
ASSUME SwitchesAssumption == {Cancels, Failures, LateReplies} \subseteq BOOLEAN

Chans == Calls \X {"call", "flush"}
Nil   == <<"nil", "nil">>
Tag   == 0..NoTag

VARIABLES
    pending,    \* callMux.pending: the channel registered under each tag
    next,       \* callMux.next
    closed,     \* callMux.closed
    up,         \* whether writes reach the server: no Close, no failed write
    pc,         \* where each call's goroutine is
    tag,        \* the tag registered for each channel
    buf,        \* the messages in each channel, named by the request answered
    shut,       \* the channels closeAll closed
    result,     \* how each call returned
    got,        \* the request whose reply each call returned
    sent,       \* the requests the server has received
    settled,    \* those it has answered or, after a Tflush, dropped
    drops,      \* the requests each call's Tflush has the server drop
    robbed      \* the channels whose entry somebody else took out of the
                \* table: another call's forget, or another request's reply

muxVars  == <<pending, next, closed, robbed>>
chanVars == <<buf, shut>>
callVars == <<pc, result, got>>
wireVars == <<sent, settled, drops>>
vars     == <<muxVars, chanVars, callVars, wireVars, up, tag>>

TypeOK ==
    /\ pending \in [Tag -> Chans \cup {Nil}]
    /\ next \in Tag
    /\ closed \in BOOLEAN /\ up \in BOOLEAN
    /\ pc \in [Calls -> {"idle", "write", "wait", "flush", "flushwrite",
                         "flushwait", "forget", "done"}]
    /\ tag \in [Chans -> Tag]
    /\ buf \in [Chans -> Seq(Chans)]
    /\ shut \subseteq Chans
    /\ result \in [Calls -> {"none", "reply", "error", "notags", "cancelled"}]
    /\ got \in [Calls -> Chans \cup {Nil}]
    /\ sent \subseteq Chans /\ settled \subseteq Chans
    /\ drops \in [Calls -> SUBSET Chans]
    /\ robbed \subseteq Chans

Init ==
    /\ pending = [t \in Tag |-> Nil]
    /\ next = 0
    /\ closed = FALSE
    /\ up = TRUE
    /\ pc = [c \in Calls |-> "idle"]
    /\ tag = [x \in Chans |-> NoTag]
    /\ buf = [x \in Chans |-> <<>>]
    /\ shut = {}
    /\ result = [c \in Calls |-> "none"]
    /\ got = [c \in Calls |-> Nil]
    /\ sent = {} /\ settled = {}
    /\ drops = [c \in Calls |-> {}]
    /\ robbed = {}

-----------------------------------------------------------------------------
(***************************************************************************)
(* Faulty variants: slips this code could plausibly have.  They are no     *)
(* part of Spec; each is used to show that a property below would notice.  *)
(***************************************************************************)

\* The counter is not cut back to the width of a tag after a failed search.
registerFailsNoWrap ==
    /\ closed \/ \A k \in 0..(NoTag - 1) :
                    LET t == (next + k) % (NoTag + 1)
                    IN  t = NoTag \/ pending[t] # Nil
    /\ next' = IF closed THEN next ELSE next + NoTag
    /\ UNCHANGED <<pending, closed, robbed, tag>>

\* register gives up after half as many tries.
registerFailsEarly ==
    /\ closed \/ \A k \in 0..(NoTag \div 2 - 1) :
                    LET t == (next + k) % (NoTag + 1)
                    IN  t = NoTag \/ pending[t] # Nil
    /\ next' = IF closed THEN next ELSE (next + NoTag \div 2) % (NoTag + 1)
    /\ UNCHANGED <<pending, closed, robbed, tag>>

\* deliver leaves the entry in the table.
deliverKeeps(t, msg) ==
    /\ buf' = IF pending[t] = Nil THEN buf
              ELSE [buf EXCEPT ![pending[t]] = Append(@, msg)]
    /\ UNCHANGED <<pending, next, closed, robbed, shut>>

\* closeAll empties the table without closing the channels.
closeAllQuiet ==
    /\ closed' = TRUE
    /\ pending' = [t \in Tag |-> Nil]
    /\ UNCHANGED <<next, robbed, buf, shut>>

\* flush returns without waiting for Rflush; or waits for nothing but Rflush.
flushWaitNot(c) ==
    /\ pc[c] = "flushwait"
    /\ pc' = [pc EXCEPT ![c] = "forget"]
    /\ UNCHANGED <<muxVars, chanVars, result, got, wireVars, up, tag>>

flushWaitReplyOnly(c) ==
    /\ pc[c] = "flushwait"
    /\ buf[<<c, "flush">>] # <<>>
    /\ pc' = [pc EXCEPT ![c] = "forget"]
    /\ UNCHANGED <<muxVars, chanVars, result, got, wireVars, up, tag>>

-----------------------------------------------------------------------------
(***************************************************************************)
(* callMux.                                                                *)
(***************************************************************************)

\* register tries as many tags as the greatest tag has value, from next on,
\* wrapping around: one fewer than there are tags.
Tries  == NoTag
Try(k) == (next + k) % (NoTag + 1)

Usable(t) == t # NoTag /\ pending[t] = Nil

\* The first try that finds a usable tag, or Tries if none does.
FirstUsable ==
    LET K == {k \in 0..(Tries - 1) : Usable(Try(k))}
    IN  IF K = {} THEN Tries ELSE CHOOSE k \in K : \A j \in K : k <= j

\* register succeeds for channel x.
register(x) ==
    /\ ~closed
    /\ FirstUsable < Tries
    /\ pending' = [pending EXCEPT ![Try(FirstUsable)] = x]
    /\ tag' = [tag EXCEPT ![x] = Try(FirstUsable)]
    /\ next' = Try(FirstUsable + 1)
    /\ UNCHANGED <<closed, robbed>>

\* register fails: the mux is closed, or the tries found nothing.
registerFails ==
    /\ closed \/ FirstUsable = Tries
    /\ next' = IF closed THEN next ELSE Try(Tries)
    /\ UNCHANGED <<pending, closed, robbed, tag>>

\* The entry under tag t goes, on behalf of channel x.
delete(t, x) ==
    /\ pending' = [pending EXCEPT ![t] = Nil]
    /\ robbed' = robbed \cup ({pending[t]} \ {x, Nil})
    /\ UNCHANGED <<next, closed>>

\* forget of the tag that was registered for x.  After closeAll the table is
\* nil, and deleting from it does nothing.
forget(x) == delete(tag[x], x)

\* The entry goes before the message is sent, so a tag is delivered to once.
deliver(t, msg) ==
    /\ delete(t, msg)
    /\ buf' = IF pending[t] = Nil THEN buf
              ELSE [buf EXCEPT ![pending[t]] = Append(@, msg)]
    /\ UNCHANGED shut

closeAll ==
    /\ closed' = TRUE
    /\ pending' = [t \in Tag |-> Nil]
    /\ shut' = shut \cup {pending[t] : t \in {u \in Tag : pending[u] # Nil}}
    /\ UNCHANGED <<next, robbed, buf>>

-----------------------------------------------------------------------------
(***************************************************************************)
(* A call: rpc, call and flush.                                            *)
(***************************************************************************)
Goto(c, l) == pc' = [pc EXCEPT ![c] = l]

Finish(c, how, what) ==
    /\ Goto(c, "done")
    /\ result' = [result EXCEPT ![c] = how]
    /\ got' = [got EXCEPT ![c] = what]

rpc(c) ==
    /\ pc[c] = "idle"
    /\ \/ register(<<c, "call">>) /\ Goto(c, "write") /\ UNCHANGED <<result, got>>
       \/ registerFails /\ Finish(c, IF closed THEN "error" ELSE "notags", Nil)
    /\ UNCHANGED <<chanVars, wireVars, up>>

\* A write fails on a closed connection, or breaks it: later writes fail too.
writeMessageFails == (Failures \/ ~up) /\ up' = FALSE

callWrite(c) ==
    /\ pc[c] = "write"
    /\ up
    /\ sent' = sent \cup {<<c, "call">>}
    /\ Goto(c, "wait")
    /\ UNCHANGED <<muxVars, chanVars, result, got, settled, drops, up, tag>>

callWriteFails(c) ==
    /\ pc[c] = "write"
    /\ writeMessageFails
    /\ forget(<<c, "call">>)
    /\ Finish(c, "error", Nil)
    /\ UNCHANGED <<chanVars, wireVars, tag>>

\* case msg, ok := <-ch, with a message or on a closed channel.
callReply(c) ==
    /\ pc[c] = "wait"
    /\ buf[<<c, "call">>] # <<>>
    /\ Finish(c, "reply", Head(buf[<<c, "call">>]))
    /\ buf' = [buf EXCEPT ![<<c, "call">>] = Tail(@)]
    /\ UNCHANGED <<muxVars, shut, wireVars, up, tag>>

callClosed(c) ==
    /\ pc[c] = "wait"
    /\ buf[<<c, "call">>] = <<>> /\ <<c, "call">> \in shut
    /\ Finish(c, "error", Nil)
    /\ UNCHANGED <<muxVars, chanVars, wireVars, up, tag>>

\* case <-ctx.Done(): also when a reply is there to be received.
callCancelled(c) ==
    /\ Cancels
    /\ pc[c] = "wait"
    /\ Goto(c, "flush")
    /\ UNCHANGED <<muxVars, chanVars, result, got, wireVars, up, tag>>

\* flush gives up without a Tflush when it gets no tag.
flushRegister(c) ==
    /\ pc[c] = "flush"
    /\ \/ register(<<c, "flush">>) /\ Goto(c, "flushwrite")
       \/ registerFails /\ Goto(c, "forget")
    /\ UNCHANGED <<chanVars, result, got, wireVars, up>>

\* What a Tflush from call c makes the server drop: the unanswered request it
\* has received under oldtag, which need not be c's own any more.
Withdrawn(c) ==
    IF LateReplies THEN {}
    ELSE {y \in sent \ settled : tag[y] = tag[<<c, "call">>]}

flushWrite(c) ==
    /\ pc[c] = "flushwrite"
    /\ up
    /\ sent' = sent \cup {<<c, "flush">>}
    /\ drops' = [drops EXCEPT ![c] = Withdrawn(c)]
    /\ Goto(c, "flushwait")
    /\ UNCHANGED <<muxVars, chanVars, result, got, settled, up, tag>>

flushWriteFails(c) ==
    /\ pc[c] = "flushwrite"
    /\ writeMessageFails
    /\ forget(<<c, "flush">>)
    /\ Goto(c, "forget")
    /\ UNCHANGED <<chanVars, result, got, wireVars, tag>>

\* <-ch in flush: any reply will do, and so will a closed channel.
flushWait(c) ==
    /\ pc[c] = "flushwait"
    /\ buf[<<c, "flush">>] # <<>> \/ <<c, "flush">> \in shut
    /\ Goto(c, "forget")
    /\ UNCHANGED <<muxVars, chanVars, result, got, wireVars, up, tag>>

\* forget(tag) after flush, whoever holds the tag by now.
callForget(c) ==
    /\ pc[c] = "forget"
    /\ forget(<<c, "call">>)
    /\ Finish(c, "cancelled", Nil)
    /\ UNCHANGED <<chanVars, wireVars, up, tag>>

-----------------------------------------------------------------------------
(***************************************************************************)
(* The other goroutines.                                                   *)
(***************************************************************************)

\* The server answers request x, and readLoop delivers it.  The stream is in
\* order, so answering and delivering are one step.
readLoopDeliver(x) ==
    /\ ~closed
    /\ x \in sent \ settled
    /\ settled' = settled \cup {x} \cup (IF x[2] = "flush" THEN drops[x[1]] ELSE {})
    /\ deliver(tag[x], x)
    /\ UNCHANGED <<callVars, sent, drops, up, tag>>

\* ReadMessage or Unmarshal fails, and readLoop ends.
readLoopFails ==
    /\ Failures
    /\ ~closed
    /\ closeAll
    /\ UNCHANGED <<callVars, wireVars, up, tag>>

\* Client.Close; a second Close, or one after readLoop ended, finds the mux
\* closed already.
Close ==
    /\ up \/ ~closed
    /\ up' = FALSE
    /\ IF closed THEN UNCHANGED <<muxVars, chanVars>> ELSE closeAll
    /\ UNCHANGED <<callVars, wireVars, tag>>

-----------------------------------------------------------------------------
Step(c) ==
    \/ callWrite(c) \/ callWriteFails(c) \/ callReply(c) \/ callClosed(c)
    \/ flushRegister(c) \/ flushWrite(c) \/ flushWriteFails(c)
    \/ flushWait(c) \/ callForget(c)

Next ==
    \/ \E c \in Calls : rpc(c) \/ Step(c) \/ callCancelled(c)
    \/ \E x \in Chans : readLoopDeliver(x)
    \/ readLoopFails \/ Close

Spec == Init /\ [][Next]_vars

-----------------------------------------------------------------------------
(***************************************************************************)
(* Safety.                                                                 *)
(***************************************************************************)

\* A channel that is still registered is one nothing was ever sent to and that
\* is not closed: so deliver never blocks readLoop on a full channel, never
\* sends on a closed one, and each registration "will receive exactly one
\* reply" (register's comment).
PendingFresh ==
    \A t \in Tag : pending[t] # Nil =>
        /\ buf[pending[t]] = <<>>
        /\ pending[t] \notin shut
        /\ tag[pending[t]] = t
        /\ pc[pending[t][1]] # "done"

\* The call of request x was cancelled and let its tag go while the server may
\* still answer x: no Tflush was sent (no free tag, or a failed write), the
\* Rflush went astray, or the server answers late.
Abandoned(x) ==
    LET c == x[1]
    IN  /\ x[2] = "call" /\ result[c] = "cancelled"
        /\ <<c, "flush">> \notin sent \/ <<c, "flush">> \in robbed \/ LateReplies

\* A call returns the reply to its own request, through any reuse of tags; when it
\* returns another's, that other request had been abandoned, or its entry had
\* been taken out of the table by somebody else.  So a call that waits for its
\* Rflush, or that is not cancelled and keeps its entry, spoils nothing.
RightReply ==
    \A c \in Calls : result[c] = "reply" =>
        got[c] = <<c, "call">> \/ Abandoned(got[c]) \/ got[c] \in robbed

\* register reports "no free tags" only when at most one tag is free: its loop
\* makes one try fewer than there are tag values, and spends one on NoTag.
NoFreeTagsAlmostTrue ==
    [][\A c \in Calls : result'[c] = "notags" /\ result[c] # "notags" =>
            \A t, u \in {v \in Tag \ {NoTag} : pending[v] = Nil} : t = u]_vars

-----------------------------------------------------------------------------
(***************************************************************************)
(* Liveness: every goroutine of the client that can run does, and the      *)
(* server answers every Tflush (ServerConn's FlushAnswered) but perhaps    *)
(* nothing else.                                                           *)
(***************************************************************************)
FlushesAnswered ==
    \A c \in Calls : WF_vars(readLoopDeliver(<<c, "flush">>))

FairSpec == Spec /\ (\A c \in Calls : WF_vars(Step(c))) /\ FlushesAnswered

\* "Close closes the underlying connection and fails any outstanding calls":
\* after Close, or a read error, no call stays blocked.
CloseFailsOutstanding ==
    \A c \in Calls : closed /\ pc[c] # "idle" ~> pc[c] = "done"

\* A call whose reply has been delivered, or whose ctx was cancelled, returns,
\* even if the server never answers the request itself.
AnsweredOrCancelledReturns ==
    \A c \in Calls :
        buf[<<c, "call">>] # <<>> \/ pc[c] = "flush" ~> pc[c] = "done"
=============================================================================
