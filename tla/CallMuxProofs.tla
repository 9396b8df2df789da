--------------------------- MODULE CallMuxProofs ---------------------------
(***************************************************************************)
(* Proofs about CallMux for any number of calls, any width of the tag type *)
(* and any combination of cancellation, failure and late replies.          *)
(***************************************************************************)
EXTENDS CallMux, Extrema, TLAPS

CallOf(c)  == <<c, "call">>
FlushOf(c) == <<c, "flush">>

\* A call between register and its return, and a flush between register and the
\* receipt of its answer.
Calling  == {"write", "wait", "flush", "flushwrite", "flushwait", "forget"}
Flushing == {"flushwrite", "flushwait"}

\* A registered channel is one nothing was sent to, under its own tag, whose
\* owner is still at it.
Registered ==
    /\ \A t \in Tag : pending[t] # Nil =>
          /\ t # NoTag
          /\ buf[pending[t]] = <<>>
          /\ pending[t] \notin shut
          /\ tag[pending[t]] = t
    /\ \A t \in Tag, c \in Calls :
          /\ pending[t] = CallOf(c) => pc[c] \in Calling
          /\ pending[t] = FlushOf(c) => pc[c] \in Flushing
    /\ closed => \A t \in Tag : pending[t] = Nil
    /\ shut # {} => closed

\* A channel that was not registered yet is empty, open and unknown to the server.
Unused ==
    \A c \in Calls :
        /\ pc[c] = "idle" =>
              buf[CallOf(c)] = <<>> /\ CallOf(c) \notin shut
        /\ pc[c] \in {"idle", "write", "wait", "flush"} =>
              buf[FlushOf(c)] = <<>> /\ FlushOf(c) \notin shut
        /\ pc[c] \in {"idle", "write"} => CallOf(c) \notin sent
        /\ pc[c] \in {"idle", "write", "wait", "flush", "flushwrite"} => FlushOf(c) \notin sent
        /\ result[c] # "none" <=> pc[c] = "done"

Base == TypeOK /\ Registered /\ Unused

\* The server settles only what it has received, and a call that waits or is
\* past waiting has sent its request.
Received ==
    /\ settled \subseteq sent
    /\ \A c \in Calls :
          /\ drops[c] \subseteq sent
          /\ pc[c] \in Calling \ {"write"} => CallOf(c) \in sent

\* While a call is at it, its request is registered unless it has been answered
\* or dropped, its entry has been taken, or the mux is closed; so is its Tflush.
Kept ==
    \A c \in Calls : ~closed =>
        /\ pc[c] \in Calling /\ CallOf(c) \notin settled \cup robbed =>
              pending[tag[CallOf(c)]] = CallOf(c)
        /\ pc[c] \in Flushing /\ FlushOf(c) \notin settled \cup robbed =>
              pending[tag[FlushOf(c)]] = FlushOf(c)

\* The server has settled the request of a call whose Tflush it has answered,
\* unless it answers late; until then it knows that it is to drop it.
Dropping ==
    \A c \in Calls : FlushOf(c) \in sent =>
        LateReplies \/ CallOf(c) \in settled \cup drops[c]

\* What a non-empty channel says about its request.
Arrived ==
    \A c \in Calls :
        /\ buf[CallOf(c)] # <<>> => CallOf(c) \in settled \cup robbed
        /\ buf[FlushOf(c)] # <<>> =>
              \/ FlushOf(c) \in robbed
              \/ FlushOf(c) \in settled /\ (LateReplies \/ CallOf(c) \in settled)

\* What the return of a call, or of flush, says about its requests.
Returned ==
    \A c \in Calls : ~closed =>
        /\ pc[c] \in {"forget", "done"} /\ FlushOf(c) \in sent =>
              \/ FlushOf(c) \in robbed
              \/ FlushOf(c) \in settled /\ (LateReplies \/ CallOf(c) \in settled)
        /\ result[c] = "reply" => CallOf(c) \in settled \cup robbed
        /\ result[c] \in {"error", "notags"} => CallOf(c) \notin sent

\* A message in a channel, or one a call has returned, is its own or a stray.
Strays == {x \in Chans : Abandoned(x) \/ x \in robbed}

Own ==
    \A c \in Calls :
        /\ \A i \in 1..Len(buf[CallOf(c)]) : buf[CallOf(c)][i] \in Strays \cup {CallOf(c)}
        /\ result[c] = "reply" => got[c] \in Strays \cup {CallOf(c)}

Route == Received /\ Kept /\ Dropping /\ Arrived /\ Returned /\ Own

-----------------------------------------------------------------------------
(***************************************************************************)
(* The search for a tag.                                                   *)
(***************************************************************************)

\* The counter stays within the width of a tag.
LEMMA TryType ==
    ASSUME TypeOK, NEW k \in Nat
    PROVE  Try(k) \in Tag
  <1>1. ASSUME NEW m \in Nat \ {0}, NEW a \in Nat PROVE a % m \in 0..(m - 1)
    OBVIOUS
  <1>2. NoTag + 1 \in Nat \ {0} /\ next + k \in Nat
    BY NoTagAssumption DEF TypeOK, Tag
  <1>3. (next + k) % (NoTag + 1) \in 0..((NoTag + 1) - 1)
    BY <1>1, <1>2
  <1> QED BY <1>3, NoTagAssumption DEF Try, Tag

\* Every tag is tried within one turn of the counter, the last at the try that
\* register does not make.
LEMMA EveryTagTried ==
    ASSUME TypeOK, NEW t \in Tag
    PROVE  \E k \in 0..NoTag : Try(k) = t
  <1>1. ASSUME NEW m \in Nat \ {0}, NEW a \in Nat, a < 2 * m
        PROVE  a % m = IF a < m THEN a ELSE a - m
    BY <1>1
  <1> DEFINE k == IF next <= t THEN t - next ELSE t + NoTag + 1 - next
             n == NoTag + 1
             b == next + k
  <1>2. k \in 0..NoTag /\ n \in Nat \ {0} /\ b \in Nat /\ b < 2 * n
    BY NoTagAssumption DEF TypeOK, Tag
  <1>3. (IF b < n THEN b ELSE b - n) = t
    BY NoTagAssumption DEF TypeOK, Tag
  <1>4. b % n = t
    <2> HIDE DEF b, n
    <2> QED BY <1>1, <1>2, <1>3
  <1> QED BY <1>2, <1>4 DEF Try

\* FirstUsable finds a usable tag if one of the tries does.
LEMMA FirstUsableFinds ==
    /\ FirstUsable \in 0..Tries
    /\ FirstUsable < Tries => Usable(Try(FirstUsable))
    /\ FirstUsable = Tries => \A k \in 0..(Tries - 1) : ~Usable(Try(k))
  <1> DEFINE K == {k \in 0..(Tries - 1) : Usable(Try(k))}
  <1>1. Tries \in Nat
    BY NoTagAssumption DEF Tries
  <1>2. CASE K = {}
    <2>1. FirstUsable = Tries
      BY <1>2 DEF FirstUsable
    <2> QED BY <1>1, <1>2, <2>1
  <1>3. CASE K # {}
    <2>1. \E k \in K : \A j \in K : k <= j
      <3>1. K \in SUBSET Nat
        BY <1>1
      <3> HIDE DEF K
      <3> QED BY <1>3, <3>1, LeastExists
    <2>2. FirstUsable = CHOOSE k \in K : \A j \in K : k <= j
      BY <1>3 DEF FirstUsable
    <2>3. FirstUsable \in K
      <3> HIDE DEF K
      <3> QED BY <2>1, <2>2
    <2> QED BY <1>1, <2>3
  <1> QED BY <1>2, <1>3

\* What a successful register does: a tag that was free, and is not NoTag, now
\* belongs to channel x.
LEMMA RegisterTakes ==
    ASSUME TypeOK, NEW x \in Chans, register(x)
    PROVE  /\ ~closed /\ closed' = closed /\ robbed' = robbed /\ next' \in Tag
           /\ \E t \in Tag : /\ t # NoTag /\ pending[t] = Nil
                              /\ pending' = [pending EXCEPT ![t] = x]
                              /\ tag' = [tag EXCEPT ![x] = t]
  <1>1. FirstUsable \in Nat /\ FirstUsable + 1 \in Nat /\ Usable(Try(FirstUsable))
    BY FirstUsableFinds, NoTagAssumption DEF register, Tries
  <1>2. Try(FirstUsable) \in Tag /\ Try(FirstUsable + 1) \in Tag
    BY <1>1, TryType
  <1> QED BY <1>1, <1>2 DEF register, Usable

\* What a failed register does.
LEMMA RegisterFailsKeeps ==
    ASSUME TypeOK, registerFails
    PROVE  next' \in Tag /\ UNCHANGED <<pending, closed, robbed, tag>>
  <1>1. Try(Tries) \in Tag
    BY TryType, NoTagAssumption DEF Tries
  <1> QED BY <1>1 DEF registerFails, TypeOK

-----------------------------------------------------------------------------
(***************************************************************************)
(* The base invariant: types, and registered channels are fresh.           *)
(***************************************************************************)

\* Channels are told apart by their call and their kind.
LEMMA ChanFacts ==
    /\ \A c \in Calls : CallOf(c) \in Chans /\ FlushOf(c) \in Chans
    /\ \A c, d \in Calls : CallOf(c) = CallOf(d) \/ FlushOf(c) = FlushOf(d) => c = d
    /\ \A c, d \in Calls : CallOf(c) # FlushOf(d)
    /\ \A x \in Chans : x[1] \in Calls /\ (x = CallOf(x[1]) \/ x = FlushOf(x[1]))
    /\ Nil \notin Chans
  BY DEF Chans, CallOf, FlushOf, Nil

\* Nothing is registered or sent at first.
LEMMA BaseInit == Init => Base
  <1> SUFFICES ASSUME Init PROVE Base
    OBVIOUS
  <1>1. TypeOK
    <2>1. \A x \in Chans : buf[x] \in Seq(Chans)
      BY DEF Init
    <2>2. buf \in [Chans -> Seq(Chans)]
      BY <2>1 DEF Init
    <2>3. drops \in [Calls -> SUBSET Chans] /\ robbed \subseteq Chans
      BY DEF Init
    <2>4. next \in Tag /\ tag \in [Chans -> Tag] /\ pending \in [Tag -> Chans \cup {Nil}]
      BY NoTagAssumption DEF Init, Tag
    <2> QED BY <2>2, <2>3, <2>4 DEF Init, TypeOK
  <1>2. Registered /\ Unused
    BY ChanFacts DEF Init, Registered, Unused, Calling, Flushing
  <1> QED BY <1>1, <1>2 DEF Base

\* The base invariant is kept by rpc and by flush's register.
LEMMA BaseRegister ==
    ASSUME Base, NEW c \in Calls, rpc(c) \/ flushRegister(c)
    PROVE  Base'
  <1> USE ChanFacts
  <1>1. ASSUME NEW x \in {CallOf(c), FlushOf(c)}, NEW l, register(x), Goto(c, l),
               UNCHANGED <<chanVars, wireVars, up, result, got>>,
               \/ x = CallOf(c) /\ pc[c] = "idle" /\ l = "write"
               \/ x = FlushOf(c) /\ pc[c] = "flush" /\ l = "flushwrite"
        PROVE  Base'
    <2>0. x \in Chans /\ TypeOK
      BY DEF Base
    <2>1. /\ ~closed /\ closed' = closed /\ robbed' = robbed /\ next' \in Tag
          /\ \E t \in Tag : /\ t # NoTag /\ pending[t] = Nil
                             /\ pending' = [pending EXCEPT ![t] = x]
                             /\ tag' = [tag EXCEPT ![x] = t]
      BY <1>1, <2>0, RegisterTakes
    <2>2. PICK t \in Tag : /\ t # NoTag /\ pending[t] = Nil
                           /\ pending' = [pending EXCEPT ![t] = x]
                           /\ tag' = [tag EXCEPT ![x] = t]
      BY <2>1
    <2>3. /\ \A u \in Tag : pending'[u] = IF u = t THEN x ELSE pending[u]
          /\ \A y \in Chans : tag'[y] = IF y = x THEN t ELSE tag[y]
          /\ \A d \in Calls : pc'[d] = IF d = c THEN l ELSE pc[d]
      BY <1>1, <2>0, <2>2 DEF TypeOK, Goto
    <2>4. TypeOK'
      BY <1>1, <2>0, <2>1, <2>2 DEF TypeOK, Goto, chanVars, wireVars
    <2>5. Registered'
      <3>1. \A u \in Tag : pending[u] # x
        BY <1>1 DEF Base, Registered, Calling, Flushing
      <3>2. buf[x] = <<>> /\ x \notin shut
        BY <1>1 DEF Base, Unused
      <3>3. \A u \in Tag : pending'[u] # Nil =>
                u # NoTag /\ buf[pending'[u]] = <<>> /\ pending'[u] \notin shut /\ tag'[pending'[u]] = u
        BY <2>0, <2>2, <2>3, <3>1, <3>2 DEF Base, TypeOK, Registered
      <3>4. \A u \in Tag, d \in Calls :
                /\ pending'[u] = CallOf(d) => pc'[d] \in Calling
                /\ pending'[u] = FlushOf(d) => pc'[d] \in Flushing
        BY <1>1, <2>3 DEF Base, Registered, Calling, Flushing
      <3> QED BY <1>1, <2>1, <3>3, <3>4 DEF Base, Registered, chanVars
    <2>6. Unused'
      BY <1>1, <2>3 DEF Base, Unused, chanVars, wireVars
    <2> QED BY <2>4, <2>5, <2>6 DEF Base
  <1>2. ASSUME registerFails, pc[c] \in {"idle", "flush"}, UNCHANGED <<chanVars, wireVars, up>>,
               \/ pc[c] = "idle" /\ Finish(c, IF closed THEN "error" ELSE "notags", Nil)
               \/ pc[c] = "flush" /\ Goto(c, "forget") /\ UNCHANGED <<result, got>>
        PROVE  Base'
    <2>1. next' \in Tag /\ UNCHANGED <<pending, closed, robbed, tag>>
      BY <1>2, RegisterFailsKeeps DEF Base
    <2>2. TypeOK'
      <3>1. CASE pc[c] = "idle"
        <4>1. PICK how \in {"error", "notags"} : Finish(c, how, Nil)
          BY <1>2, <3>1 DEF Finish
        <4> QED BY <1>2, <2>1, <3>1, <4>1 DEF Base, TypeOK, Goto, Finish, chanVars, wireVars
      <3>2. CASE pc[c] = "flush"
        BY <1>2, <2>1, <3>2 DEF Base, TypeOK, Goto, chanVars, wireVars
      <3> QED BY <1>2, <3>1, <3>2
    <2>3. Registered'
      <3>1. \A d \in Calls : pc[d] \in Calling => pc'[d] \in Calling
        BY <1>2 DEF Base, TypeOK, Goto, Finish, Calling
      <3>2. \A d \in Calls : pc[d] \in Flushing => pc'[d] \in Flushing
        BY <1>2 DEF Base, TypeOK, Goto, Finish, Flushing
      <3> QED BY <1>2, <2>1, <3>1, <3>2 DEF Base, Registered, chanVars
    <2>4. Unused'
      BY <1>2, <2>1 DEF Base, TypeOK, Unused, Goto, Finish, chanVars, wireVars
    <2> QED BY <2>2, <2>3, <2>4 DEF Base
  <1> QED BY <1>1, <1>2 DEF rpc, flushRegister, CallOf, FlushOf

\* The base invariant is kept by the steps of a call that leave the table alone.
LEMMA BaseCall ==
    ASSUME Base, NEW c \in Calls,
           \/ callWrite(c) \/ flushWrite(c) \/ callCancelled(c) \/ flushWait(c)
           \/ callReply(c) \/ callClosed(c)
    PROVE  Base'
  <1> USE ChanFacts
  <1>1. UNCHANGED <<pending, next, closed, robbed, tag, shut, up>>
    BY DEF callWrite, flushWrite, callCancelled, flushWait, callReply, callClosed, muxVars, chanVars
  <1>2. CASE callWrite(c)
    <2>1. TypeOK'
      BY <1>1, <1>2 DEF Base, TypeOK, callWrite, Goto, chanVars, CallOf
    <2>2. Registered'
      BY <1>1, <1>2 DEF Base, TypeOK, Registered, callWrite, Goto, chanVars, Calling, Flushing
    <2>3. Unused'
      BY <1>1, <1>2 DEF Base, TypeOK, Unused, callWrite, Goto, chanVars, CallOf, FlushOf
    <2> QED BY <2>1, <2>2, <2>3 DEF Base
  <1>3. CASE flushWrite(c)
    <2>1. TypeOK'
      <3>1. Withdrawn(c) \subseteq Chans
        BY DEF Base, TypeOK, Withdrawn
      <3> QED
        BY <1>1, <1>3, <3>1 DEF Base, TypeOK, flushWrite, Goto, chanVars, FlushOf
    <2>2. Registered'
      BY <1>1, <1>3 DEF Base, TypeOK, Registered, flushWrite, Goto, chanVars, Calling, Flushing
    <2>3. Unused'
      BY <1>1, <1>3 DEF Base, TypeOK, Unused, flushWrite, Goto, chanVars, CallOf, FlushOf
    <2> QED BY <2>1, <2>2, <2>3 DEF Base
  <1>4. CASE callCancelled(c) \/ flushWait(c)
    <2>1. TypeOK'
      BY <1>1, <1>4 DEF Base, TypeOK, callCancelled, flushWait, Goto, chanVars, wireVars
    <2>2. Registered'
      <3>1. flushWait(c) => \A t \in Tag : pending[t] # FlushOf(c)
        BY DEF Base, Registered, flushWait, FlushOf
      <3>2. \A d \in Calls : d # c => pc'[d] = pc[d]
        BY <1>4 DEF Base, TypeOK, callCancelled, flushWait, Goto
      <3>3. /\ pc[c] \in Calling /\ pc'[c] \in Calling /\ buf' = buf
            /\ pc[c] \in Flushing => flushWait(c)
        BY <1>4 DEF Base, TypeOK, callCancelled, flushWait, Goto, chanVars, Calling, Flushing
      <3> QED
        BY <1>1, <3>1, <3>2, <3>3 DEF Base, Registered
    <2>3. Unused'
      BY <1>1, <1>4 DEF Base, TypeOK, Unused, callCancelled, flushWait, Goto, chanVars, wireVars
    <2> QED BY <2>1, <2>2, <2>3 DEF Base
  <1>5. CASE callReply(c) \/ callClosed(c)
    <2> DEFINE x == CallOf(c)
    <2>1. /\ x \in Chans /\ (\A t \in Tag : pending[t] # x)
          /\ pc[c] = "wait" /\ Goto(c, "done") /\ UNCHANGED wireVars
      BY <1>5 DEF Base, Registered, callReply, callClosed, Finish, CallOf
    <2>2. /\ \A y \in Chans : y # x => buf'[y] = buf[y]
          /\ buf' \in [Chans -> Seq(Chans)]
      <3>1. CASE callReply(c)
        <4>1. buf[x] # <<>> /\ buf' = [buf EXCEPT ![x] = Tail(buf[x])]
          BY <3>1 DEF callReply, CallOf
        <4>2. Tail(buf[x]) \in Seq(Chans)
          BY <2>1, <4>1 DEF Base, TypeOK
        <4> HIDE DEF x
        <4> QED BY <4>1, <4>2 DEF Base, TypeOK
      <3>2. CASE callClosed(c)
        BY <3>2 DEF Base, TypeOK, callClosed, chanVars
      <3> QED BY <1>5, <3>1, <3>2
    <2>3. TypeOK'
      <3>1. \/ result' = [result EXCEPT ![c] = "reply"] /\ got' = [got EXCEPT ![c] = Head(buf[x])]
            \/ result' = [result EXCEPT ![c] = "error"] /\ got' = [got EXCEPT ![c] = Nil]
        BY <1>5 DEF callReply, callClosed, Finish, CallOf
      <3>2. callReply(c) => Head(buf[x]) \in Chans
        BY <2>1 DEF Base, TypeOK, callReply, CallOf
      <3>3. got' \in [Calls -> Chans \cup {Nil}]
        <4>1. PICK m \in Chans \cup {Nil} : got' = [got EXCEPT ![c] = m]
          BY <1>5, <3>2 DEF callReply, callClosed, Finish, CallOf
        <4> QED BY <4>1 DEF Base, TypeOK
      <3> HIDE DEF x
      <3>4. result' \in [Calls -> {"none", "reply", "error", "notags", "cancelled"}]
        BY <3>1 DEF Base, TypeOK
      <3>5. pc' \in [Calls -> {"idle", "write", "wait", "flush", "flushwrite",
                               "flushwait", "forget", "done"}]
        BY <2>1 DEF Base, TypeOK, Goto
      <3> QED
        BY <1>1, <2>1, <2>2, <3>3, <3>4, <3>5 DEF Base, TypeOK, wireVars
    <2>4. \A d \in Calls : d # c => pc'[d] = pc[d]
      BY <2>1 DEF Goto
    <2>5. Registered'
      <3> HIDE DEF x
      <3>1. \A t \in Tag : pending[t] # Nil => pending[t] \in Chans
        BY DEF Base, TypeOK
      <3>2. \A t \in Tag : pending[t] # FlushOf(c)
        BY <2>1 DEF Base, Registered, Flushing
      <3> QED
        BY <1>1, <2>1, <2>2, <2>4, <3>1, <3>2 DEF Base, Registered, x
    <2>6. Unused'
      <3>1. /\ pc'[c] = "done" /\ result'[c] # "none"
            /\ \A d \in Calls : d # c => result'[d] = result[d]
        BY <1>5, <2>1 DEF Base, TypeOK, callReply, callClosed, Finish, Goto
      <3> HIDE DEF x
      <3> QED
        BY <1>1, <2>1, <2>2, <2>4, <3>1 DEF Base, Unused, wireVars, x
    <2> QED BY <2>3, <2>5, <2>6 DEF Base
  <1> QED BY <1>2, <1>3, <1>4, <1>5

\* The base invariant is kept by the steps of a call that forget a tag.
LEMMA BaseForget ==
    ASSUME Base, NEW c \in Calls, callWriteFails(c) \/ flushWriteFails(c) \/ callForget(c)
    PROVE  Base'
  <1> USE ChanFacts
  <1> DEFINE x == IF flushWriteFails(c) THEN FlushOf(c) ELSE CallOf(c)
             l == IF flushWriteFails(c) THEN "forget" ELSE "done"
  <1>1. /\ x \in Chans /\ delete(tag[x], x) /\ Goto(c, l)
        /\ UNCHANGED <<buf, shut, wireVars, tag>> /\ up' \in BOOLEAN
    BY DEF callWriteFails, flushWriteFails, callForget, forget, writeMessageFails, Finish, chanVars, CallOf, FlushOf, Base, TypeOK
  <1>2. \/ pc[c] = "write" /\ x = CallOf(c) /\ l = "done"
        \/ pc[c] = "flushwrite" /\ x = FlushOf(c) /\ l = "forget"
        \/ pc[c] = "forget" /\ x = CallOf(c) /\ l = "done"
    BY DEF callWriteFails, flushWriteFails, callForget
  <1>3. /\ \A d \in Calls : d # c => result'[d] = result[d]
        /\ result'[c] = "none" <=> l # "done"
        /\ result' \in [Calls -> {"none", "reply", "error", "notags", "cancelled"}]
        /\ got' \in [Calls -> Chans \cup {Nil}]
    <2>1. CASE flushWriteFails(c)
      BY <2>1 DEF flushWriteFails, Base, TypeOK, Unused
    <2>2. CASE callWriteFails(c) \/ callForget(c)
      BY <2>2, ZenonT(60) DEF callWriteFails, flushWriteFails, callForget, Finish, Base, TypeOK
    <2> QED BY <2>1, <2>2
  <1> HIDE DEF x, l
  <1>4. /\ tag[x] \in Tag
        /\ \A t \in Tag : pending'[t] = IF t = tag[x] THEN Nil ELSE pending[t]
        /\ \A d \in Calls : pc'[d] = IF d = c THEN l ELSE pc[d]
    BY <1>1 DEF Base, TypeOK, delete, Goto
  <1>5. TypeOK'
    <2>1. pending' \in [Tag -> Chans \cup {Nil}] /\ robbed' \subseteq Chans
      BY <1>1, <1>4 DEF Base, TypeOK, delete
    <2>2. pc' \in [Calls -> {"idle", "write", "wait", "flush", "flushwrite",
                             "flushwait", "forget", "done"}]
      BY <1>1, <1>2 DEF Base, TypeOK, Goto
    <2> QED BY <1>1, <1>3, <2>1, <2>2 DEF Base, TypeOK, delete, wireVars
  <1>6. Registered'
    <2>1. \A t \in Tag : pending'[t] # x
      BY <1>1, <1>4 DEF Base, Registered
    <2>2. \A t \in Tag : l = "done" => pending[t] # FlushOf(c)
      BY <1>2 DEF Base, Registered, Flushing
    <2>3. \A t \in Tag, d \in Calls :
             /\ pending'[t] = CallOf(d) => pc'[d] \in Calling
             /\ pending'[t] = FlushOf(d) => pc'[d] \in Flushing
      BY <1>2, <1>4, <2>1, <2>2 DEF Base, Registered, Calling, Flushing
    <2> QED
      BY <1>1, <1>4, <2>3 DEF Base, Registered, delete
  <1>7. Unused'
    BY <1>1, <1>2, <1>3, <1>4 DEF Base, Unused, wireVars
  <1> QED BY <1>5, <1>6, <1>7 DEF Base

\* The base invariant is kept when a reply is delivered: an entry goes with the
\* one message its channel gets.
LEMMA BaseDeliver ==
    ASSUME Base, NEW y \in Chans, readLoopDeliver(y)
    PROVE  Base'
  <1> USE ChanFacts
  <1> DEFINE t == tag[y]
             x == pending[t]
  <1>1. /\ t \in Tag /\ (x \in Chans \/ x = Nil)
        /\ delete(t, y) /\ UNCHANGED <<shut, callVars, sent, drops, up, tag>>
        /\ buf' = IF x = Nil THEN buf ELSE [buf EXCEPT ![x] = Append(buf[x], y)]
    BY DEF readLoopDeliver, deliver, Base, TypeOK
  <1>2. /\ \A u \in Tag : pending'[u] = IF u = t THEN Nil ELSE pending[u]
        /\ \A z \in Chans : z # x => buf'[z] = buf[z]
    BY <1>1 DEF Base, TypeOK, delete
  <1>3. TypeOK'
    <2>1. buf' \in [Chans -> Seq(Chans)]
      BY <1>1 DEF Base, TypeOK
    <2>2. settled' \subseteq Chans
      BY DEF readLoopDeliver, Base, TypeOK
    <2> QED
      BY <1>1, <2>1, <2>2 DEF Base, TypeOK, delete, callVars
  <1>4. Registered'
    <2>1. \A u \in Tag : pending'[u] # Nil => pending'[u] # x /\ pending'[u] \in Chans
      BY <1>1, <1>2 DEF Base, Registered, TypeOK
    <2> HIDE DEF t, x
    <2> QED
      BY <1>1, <1>2, <2>1 DEF Base, Registered, callVars, delete
  <1>5. Unused'
    <2>1. \A c \in Calls :
             /\ x = CallOf(c) => pc[c] \in Calling
             /\ x = FlushOf(c) => pc[c] \in Flushing
      BY <1>1 DEF Base, Registered
    <2> HIDE DEF x
    <2> QED
      BY <1>1, <1>2, <2>1 DEF Base, Unused, callVars, Calling, Flushing
  <1> QED BY <1>3, <1>4, <1>5 DEF Base

\* The base invariant is kept by closeAll.
LEMMA BaseClose ==
    ASSUME Base, readLoopFails \/ Close
    PROVE  Base'
  <1> USE ChanFacts
  <1>1. /\ UNCHANGED <<callVars, wireVars, tag>> /\ up' \in BOOLEAN
        /\ (UNCHANGED <<muxVars, chanVars>> \/ closeAll)
    BY DEF readLoopFails, Close, Base, TypeOK
  <1>2. CASE UNCHANGED <<muxVars, chanVars>>
    BY <1>1, <1>2 DEF Base, TypeOK, Registered, Unused, muxVars, chanVars, callVars, wireVars
  <1>3. CASE closeAll
    <2>1. /\ closed' = TRUE /\ UNCHANGED <<next, robbed, buf>>
          /\ pending' = [t \in Tag |-> Nil]
          /\ \A t \in Tag : pending'[t] = Nil
          /\ \A x \in shut' : x \in shut \/ \E t \in Tag : pending[t] # Nil /\ x = pending[t]
      BY <1>3 DEF closeAll
    <2>2. shut' \subseteq Chans
      BY <2>1 DEF Base, TypeOK
    <2>3. TypeOK'
      BY <1>1, <2>1, <2>2 DEF Base, TypeOK, callVars, wireVars
    <2>4. Registered'
      BY <2>1 DEF Registered
    <2>5. Unused'
      <3>1. \A c \in Calls, t \in Tag :
               /\ pc[c] = "idle" => pending[t] # CallOf(c)
               /\ pc[c] \in {"idle", "write", "wait", "flush"} => pending[t] # FlushOf(c)
        BY DEF Base, Registered, Calling, Flushing
      <3> QED
        BY <1>1, <2>1, <3>1 DEF Base, Unused, callVars, wireVars
    <2> QED BY <2>3, <2>4, <2>5 DEF Base
  <1> QED BY <1>1, <1>2, <1>3

\* The base invariant is inductive.
THEOREM BaseInvariant == Spec => []Base
  <1>1. Base /\ [Next]_vars => Base'
    <2> SUFFICES ASSUME Base, [Next]_vars PROVE Base'
      OBVIOUS
    <2>1. ASSUME NEW c \in Calls, rpc(c) \/ Step(c) \/ callCancelled(c) PROVE Base'
      BY <2>1, BaseRegister, BaseCall, BaseForget DEF Step
    <2>2. ASSUME NEW x \in Chans, readLoopDeliver(x) PROVE Base'
      BY <2>2, BaseDeliver
    <2>3. CASE readLoopFails \/ Close
      BY <2>3, BaseClose
    <2>4. CASE UNCHANGED vars
      BY <2>4 DEF vars, muxVars, chanVars, callVars, wireVars, Base, TypeOK, Registered, Unused
    <2> QED BY <2>1, <2>2, <2>3, <2>4 DEF Next
  <1> QED BY BaseInit, <1>1, PTL DEF Spec

\* The type invariant, the tag counter within the width of a tag included.
THEOREM TypeCorrect == Spec => []TypeOK
  <1>1. Base => TypeOK
    BY DEF Base
  <1> QED BY BaseInvariant, <1>1, PTL

\* Registered channels are fresh (PendingFresh): deliver never blocks readLoop and
\* never sends on a closed channel, for any number of calls and tags and whatever
\* the server answers.
THEOREM ChannelsFresh == Spec => []PendingFresh
  <1>1. Base => PendingFresh
    <2> SUFFICES ASSUME Base, NEW t \in Tag, pending[t] # Nil
                 PROVE  /\ buf[pending[t]] = <<>> /\ pending[t] \notin shut
                        /\ tag[pending[t]] = t /\ pc[pending[t][1]] # "done"
      BY DEF PendingFresh
    <2>1. pending[t] \in Chans
      BY DEF Base, TypeOK
    <2>2. pending[t][1] \in Calls /\ pc[pending[t][1]] \in Calling \cup Flushing
      BY <2>1, ChanFacts DEF Base, Registered
    <2> QED BY <2>2 DEF Base, Registered, Calling, Flushing
  <1> QED BY BaseInvariant, <1>1, PTL

\* "no free tags" is reported only when at most one tag is free
\* (NoFreeTagsAlmostTrue), whatever the width of the tag type.
THEOREM TagsAlmostExhausted == Spec => NoFreeTagsAlmostTrue
  <1> DEFINE Free == {v \in Tag \ {NoTag} : pending[v] = Nil}
  <1>1. ASSUME TypeOK, registerFails, ~closed
        PROVE  \A t, u \in Free : t = u
    <2>1. \A k \in 0..(Tries - 1) : ~Usable(Try(k))
      BY <1>1, FirstUsableFinds DEF registerFails
    <2>2. ASSUME NEW t \in Free PROVE t = Try(NoTag)
      <3>1. PICK k \in 0..NoTag : Try(k) = t
        BY <1>1, EveryTagTried
      <3>2. Usable(Try(k))
        BY <3>1 DEF Usable
      <3> QED BY <2>1, <3>1, <3>2, NoTagAssumption DEF Tries
    <2> QED BY <2>2
  <1>2. TypeOK /\ [Next]_vars =>
            [\A c \in Calls : result'[c] = "notags" /\ result[c] # "notags" =>
                \A t, u \in Free : t = u]_vars
    <2> SUFFICES ASSUME TypeOK, Next, NEW c \in Calls, result'[c] = "notags", result[c] # "notags"
                 PROVE  \A t, u \in Free : t = u
      OBVIOUS
    <2>1. registerFails /\ ~closed
      BY DEF Next, rpc, Step, callCancelled, callWrite, callWriteFails, callReply, callClosed, flushRegister, flushWrite, flushWriteFails, flushWait, callForget, Finish, readLoopDeliver, readLoopFails, Close, callVars, TypeOK
    <2> QED BY <1>1, <2>1
  <1> QED BY <1>2, TypeCorrect, PTL DEF Spec, NoFreeTagsAlmostTrue
-----------------------------------------------------------------------------
(***************************************************************************)
(* Routing: whose reply a call can get.                                    *)
(***************************************************************************)

\* What no step takes back.
LEMMA Monotone ==
    ASSUME Base, [Next]_vars
    PROVE  /\ sent \subseteq sent' /\ settled \subseteq settled' /\ robbed \subseteq robbed'
           /\ closed => closed'
           /\ \A c \in Calls : result[c] # "none" =>
                 /\ result'[c] = result[c] /\ got'[c] = got[c]
                 /\ FlushOf(c) \in sent' => FlushOf(c) \in sent
  <1> USE ChanFacts
  <1>1. ASSUME NEW c \in Calls, rpc(c) \/ flushRegister(c)
        PROVE  /\ UNCHANGED <<wireVars, closed, robbed>>
               /\ result[c] = "none"
               /\ \A d \in Calls : d # c => result'[d] = result[d] /\ got'[d] = got[d]
    BY <1>1 DEF rpc, flushRegister, register, registerFails, Finish, Base, TypeOK, Unused
  <1>2. ASSUME NEW c \in Calls, callWriteFails(c) \/ flushWriteFails(c) \/ callForget(c)
        PROVE  /\ UNCHANGED <<wireVars, closed>> /\ robbed \subseteq robbed'
               /\ result[c] = "none"
               /\ \A d \in Calls : d # c => result'[d] = result[d] /\ got'[d] = got[d]
    BY <1>2 DEF callWriteFails, flushWriteFails, callForget, forget, delete, Finish, Base, TypeOK, Unused
  <1>3. ASSUME NEW c \in Calls,
               \/ callReply(c) \/ callClosed(c) \/ callCancelled(c) \/ flushWait(c)
        PROVE  /\ UNCHANGED <<wireVars, closed, robbed>>
               /\ result[c] = "none"
               /\ \A d \in Calls : d # c => result'[d] = result[d] /\ got'[d] = got[d]
    BY <1>3 DEF callReply, callClosed, callCancelled, flushWait, muxVars, Finish, Base, TypeOK, Unused
  <1>4. ASSUME NEW c \in Calls, callWrite(c) \/ flushWrite(c)
        PROVE  /\ UNCHANGED <<settled, closed, robbed, result, got>>
               /\ result[c] = "none"
               /\ sent' = sent \cup {CallOf(c)} \/ sent' = sent \cup {FlushOf(c)}
    BY <1>4 DEF callWrite, flushWrite, muxVars, Base, TypeOK, Unused, CallOf, FlushOf
  <1>5. ASSUME NEW x \in Chans, readLoopDeliver(x)
        PROVE  /\ UNCHANGED <<sent, closed, result, got>>
               /\ settled \subseteq settled' /\ robbed \subseteq robbed'
    BY <1>5 DEF readLoopDeliver, deliver, delete, callVars
  <1>6. ASSUME readLoopFails \/ Close \/ UNCHANGED vars
        PROVE  UNCHANGED <<wireVars, robbed, result, got>> /\ (closed => closed')
    BY <1>6 DEF readLoopFails, Close, closeAll, callVars, muxVars, vars, wireVars
  <1>7. CASE \E c \in Calls : rpc(c) \/ Step(c) \/ callCancelled(c)
    BY <1>1, <1>2, <1>3, <1>4, <1>7 DEF Step, wireVars
  <1>8. CASE \E x \in Chans : readLoopDeliver(x)
    BY <1>5, <1>8
  <1>9. CASE readLoopFails \/ Close \/ UNCHANGED vars
    BY <1>6, <1>9 DEF wireVars
  <1> QED BY <1>7, <1>8, <1>9 DEF Next

\* Once a request is astray it stays so.
LEMMA StrayStays ==
    ASSUME Base, [Next]_vars
    PROVE  Strays \subseteq Strays'
  <1> SUFFICES ASSUME NEW x \in Chans, Abandoned(x) \/ x \in robbed
               PROVE  Abandoned(x)' \/ x \in robbed'
    BY DEF Strays
  <1>1. CASE x \in robbed
    BY <1>1, Monotone
  <1>2. CASE Abandoned(x)
    BY <1>2, Monotone, ChanFacts DEF Abandoned, FlushOf
  <1> QED BY <1>1, <1>2

\* A step that delivers nothing and returns no reply keeps what Own says.
LEMMA OwnKept ==
    ASSUME Base, Own, [Next]_vars, buf' = buf,
           \A c \in Calls : result'[c] = "reply" => result[c] = "reply"
    PROVE  Own'
  BY Monotone, StrayStays DEF Own

\* Nor is anything on its way.
LEMMA RouteInit == Init => Route
  BY ChanFacts DEF Init, Route, Received, Kept, Dropping, Arrived, Returned, Own, Calling, Flushing
\* Routing is kept by rpc and by flush's register.
LEMMA RouteRegister ==
    ASSUME Base, Route, NEW c \in Calls, rpc(c) \/ flushRegister(c)
    PROVE  Route'
  <1> USE ChanFacts
  <1>0. [Next]_vars /\ UNCHANGED <<buf, wireVars, robbed, closed>>
    BY DEF rpc, flushRegister, register, registerFails, chanVars, Next, Step
  <1>1. Received' /\ Kept' /\ Returned' /\ \A d \in Calls : result'[d] = "reply" => result[d] = "reply"
    <2>1. ASSUME NEW x \in {CallOf(c), FlushOf(c)}, NEW l, register(x), Goto(c, l),
                 UNCHANGED <<result, got>>,
                 \/ x = CallOf(c) /\ pc[c] = "idle" /\ l = "write"
                 \/ x = FlushOf(c) /\ pc[c] = "flush" /\ l = "flushwrite"
          PROVE  Received' /\ Kept' /\ Returned'
      <3>1. x \in Chans /\ TypeOK
        BY DEF Base
      <3>2. PICK t \in Tag : /\ pending[t] = Nil
                             /\ pending' = [pending EXCEPT ![t] = x]
                             /\ tag' = [tag EXCEPT ![x] = t]
        BY <2>1, <3>1, RegisterTakes
      <3>3. /\ \A u \in Tag : pending'[u] = IF u = t THEN x ELSE pending[u]
            /\ \A y \in Chans : tag'[y] = IF y = x THEN t ELSE tag[y]
            /\ \A y \in Chans : tag[y] \in Tag
            /\ \A d \in Calls : pc'[d] = IF d = c THEN l ELSE pc[d]
        BY <2>1, <3>1, <3>2 DEF TypeOK, Goto
      <3>4. Received'
        BY <1>0, <2>1, <3>3 DEF Route, Received, Calling, wireVars
      <3>5. \A y \in Chans : pending[tag[y]] = y => pending'[tag'[y]] = y
        BY <3>2, <3>3
      <3>6. pending'[tag'[x]] = x
        BY <3>1, <3>3
      <3>7. Kept'
        BY <1>0, <2>1, <3>3, <3>5, <3>6 DEF Route, Kept, Calling, Flushing, wireVars
      <3>8. Returned'
        BY <1>0, <2>1, <3>3 DEF Route, Returned, wireVars
      <3> QED BY <3>4, <3>7, <3>8
    <2>2. ASSUME registerFails, pc[c] \in {"idle", "flush"},
                 \/ pc[c] = "idle" /\ Finish(c, IF closed THEN "error" ELSE "notags", Nil)
                 \/ pc[c] = "flush" /\ Goto(c, "forget") /\ UNCHANGED <<result, got>>
          PROVE  Received' /\ Kept' /\ Returned' /\ result'[c] # "reply"
      <3>1. UNCHANGED <<pending, tag>>
        BY <2>2 DEF registerFails
      <3>2. /\ \A d \in Calls : d # c => pc'[d] = pc[d] /\ result'[d] = result[d]
            /\ \/ pc[c] = "idle" /\ pc'[c] = "done" /\ result'[c] \in {"error", "notags"}
               \/ pc[c] = "flush" /\ pc'[c] = "forget" /\ result'[c] = "none"
        BY <2>2 DEF Base, TypeOK, Unused, Finish, Goto
      <3>3. FlushOf(c) \notin sent /\ (pc[c] = "idle" => CallOf(c) \notin sent)
        BY <2>2 DEF Base, Unused
      <3>4. Received'
        BY <1>0, <3>2 DEF Route, Received, Calling, wireVars
      <3>5. Kept'
        BY <1>0, <3>1, <3>2 DEF Route, Kept, Calling, Flushing, wireVars
      <3>6. Returned'
        BY <1>0, <3>2, <3>3 DEF Route, Returned, wireVars
      <3> QED BY <3>2, <3>4, <3>5, <3>6
    <2>3. \A d \in Calls : d # c => result'[d] = result[d]
      BY DEF rpc, flushRegister, Finish, Base, TypeOK
    <2>4. CASE rpc(c) /\ register(CallOf(c)) /\ Goto(c, "write") /\ UNCHANGED <<result, got>>
      BY <2>1, <2>4 DEF rpc
    <2>5. CASE flushRegister(c) /\ register(FlushOf(c)) /\ Goto(c, "flushwrite")
      BY <2>1, <2>5 DEF flushRegister
    <2>6. CASE rpc(c) /\ registerFails /\ Finish(c, IF closed THEN "error" ELSE "notags", Nil)
      BY <2>2, <2>3, <2>6 DEF rpc
    <2>7. CASE flushRegister(c) /\ registerFails /\ Goto(c, "forget")
      BY <2>2, <2>3, <2>7 DEF flushRegister
    <2> QED BY <2>4, <2>5, <2>6, <2>7 DEF rpc, flushRegister, CallOf, FlushOf
  <1>2. Dropping' /\ Arrived'
    BY <1>0 DEF Route, Dropping, Arrived, wireVars
  <1> QED BY <1>0, <1>1, <1>2, OwnKept DEF Route

\* Routing is kept by the steps of a call that leave the table alone.
LEMMA RouteCall ==
    ASSUME Base, Route, NEW c \in Calls,
           \/ callWrite(c) \/ flushWrite(c) \/ callCancelled(c) \/ flushWait(c)
           \/ callReply(c) \/ callClosed(c)
    PROVE  Route'
  <1> USE ChanFacts
  <1>0. [Next]_vars /\ UNCHANGED <<pending, closed, robbed, tag, settled>>
    BY DEF callWrite, flushWrite, callCancelled, flushWait, callReply, callClosed, muxVars, wireVars, Next, Step
  <1>1. CASE callWrite(c) \/ flushWrite(c)
    <2>1. /\ UNCHANGED <<buf, result, got>>
          /\ \A d \in Calls : d # c => pc'[d] = pc[d] /\ drops'[d] = drops[d]
          /\ \/ pc[c] = "write" /\ pc'[c] = "wait" /\ sent' = sent \cup {CallOf(c)} /\ drops' = drops
             \/ pc[c] = "flushwrite" /\ pc'[c] = "flushwait" /\ sent' = sent \cup {FlushOf(c)}
                   /\ drops'[c] = Withdrawn(c)
      BY <1>1 DEF callWrite, flushWrite, Goto, Base, TypeOK, chanVars, CallOf, FlushOf
    <2>2. Received'
      BY <1>0, <2>1 DEF Route, Received, Calling, Withdrawn
    <2>3. Kept'
      BY <1>0, <2>1 DEF Route, Kept, Calling, Flushing
    <2>4. Dropping'
      <3>1. pc[c] = "flushwrite" => LateReplies \/ CallOf(c) \in settled \cup Withdrawn(c)
        BY DEF Route, Received, Calling, Withdrawn, CallOf
      <3>2. \A d \in Calls : d # c => (FlushOf(d) \in sent' => FlushOf(d) \in sent)
        BY <2>1
      <3>3. pc[c] = "write" => FlushOf(c) \notin sent'
        BY <2>1 DEF Base, Unused
      <3> QED BY <1>0, <2>1, <3>1, <3>2, <3>3 DEF Route, Dropping
    <2>5. Arrived'
      BY <1>0, <2>1 DEF Route, Arrived
    <2>6. Returned'
      <3>1. result[c] = "none"
        BY <2>1 DEF Base, TypeOK, Unused
      <3> QED BY <1>0, <2>1, <3>1 DEF Route, Returned
    <2> QED BY <1>0, <2>1, <2>2, <2>3, <2>4, <2>5, <2>6, OwnKept DEF Route
  <1>2. CASE callCancelled(c) \/ flushWait(c)
    <2>1. /\ UNCHANGED <<buf, result, got, sent, drops>>
          /\ \A d \in Calls : d # c => pc'[d] = pc[d]
          /\ \/ pc[c] = "wait" /\ pc'[c] = "flush"
             \/ pc[c] = "flushwait" /\ pc'[c] = "forget" /\ (~closed => buf[FlushOf(c)] # <<>>)
      BY <1>2 DEF callCancelled, flushWait, Goto, Base, TypeOK, Registered, chanVars, wireVars, FlushOf
    <2>2. Received' /\ Dropping' /\ Arrived'
      BY <1>0, <2>1 DEF Route, Received, Calling, Dropping, Arrived
    <2>3. Kept'
      BY <1>0, <2>1 DEF Route, Kept, Calling, Flushing
    <2>4. Returned'
      <3>1. result[c] = "none"
        BY <2>1 DEF Base, TypeOK, Unused
      <3> QED BY <1>0, <2>1, <3>1 DEF Route, Returned, Arrived
    <2> QED BY <1>0, <2>1, <2>2, <2>3, <2>4, OwnKept DEF Route
  <1>3. CASE callReply(c)
    <2> DEFINE x == CallOf(c)
    <2>1. /\ UNCHANGED <<sent, drops>>
          /\ \A d \in Calls : d # c => pc'[d] = pc[d] /\ result'[d] = result[d] /\ got'[d] = got[d]
          /\ pc[c] = "wait" /\ pc'[c] = "done" /\ result'[c] = "reply"
          /\ buf[x] # <<>> /\ got'[c] = Head(buf[x]) /\ buf' = [buf EXCEPT ![x] = Tail(buf[x])]
          /\ x \in Chans /\ FlushOf(c) \notin sent
      BY <1>3 DEF callReply, Finish, Goto, Base, TypeOK, Unused, wireVars, CallOf
    <2>2. /\ buf'[x] = Tail(buf[x])
          /\ \A y \in Chans : y # x => buf'[y] = buf[y]
          /\ buf[x] \in Seq(Chans)
      BY <2>1 DEF Base, TypeOK
    <2>3. \A m \in 1..Len(buf[x]) : buf[x][m] \in Chans /\ buf[x][m] \in Strays' \cup {x}
      BY <1>0, <2>2, StrayStays DEF Route, Own
    <2> HIDE DEF x
    <2>4. Received' /\ Dropping'
      BY <1>0, <2>1 DEF Route, Received, Calling, Dropping
    <2>5. Arrived'
      BY <1>0, <2>1, <2>2 DEF Route, Arrived, x
    <2>6. Kept'
      BY <1>0, <2>1 DEF Route, Kept, Calling, Flushing
    <2>7. Returned'
      BY <1>0, <2>1 DEF Route, Returned, Arrived, x
    <2>8. Own'
      <3>1. Head(buf[x]) = buf[x][1] /\ 1 \in 1..Len(buf[x])
        BY <2>1, <2>2
      <3>2. \A i \in 1..Len(buf'[x]) : buf'[x][i] \in Strays' \cup {x}
        <4>1. Len(Tail(buf[x])) = Len(buf[x]) - 1 /\ Len(buf[x]) \in Nat \ {0}
          BY <2>1, <2>2
        <4>2. \A i \in 1..Len(Tail(buf[x])) : Tail(buf[x])[i] = buf[x][i + 1]
          BY <2>1, <2>2
        <4>3. \A i \in 1..Len(Tail(buf[x])) : i + 1 \in 1..Len(buf[x])
          BY <4>1
        <4> QED BY <2>2, <2>3, <4>2, <4>3
      <3>3. \A d \in Calls : d # c => CallOf(d) # x
        BY DEF x
      <3>4. \A d \in Calls : d # c =>
               /\ \A i \in 1..Len(buf'[CallOf(d)]) : buf'[CallOf(d)][i] \in Strays' \cup {CallOf(d)}
               /\ result'[d] = "reply" => got'[d] \in Strays' \cup {CallOf(d)}
        BY <1>0, <2>1, <2>2, <3>3, StrayStays DEF Route, Own
      <3>5. got'[c] \in Strays' \cup {x}
        BY <2>1, <2>3, <3>1
      <3> QED BY <3>2, <3>4, <3>5 DEF Own, x
    <2> QED BY <2>4, <2>5, <2>6, <2>7, <2>8 DEF Route
  <1>4. CASE callClosed(c)
    <2>1. /\ UNCHANGED <<buf, sent, drops>> /\ closed
          /\ \A d \in Calls : d # c => pc'[d] = pc[d] /\ result'[d] = result[d]
          /\ pc[c] = "wait" /\ pc'[c] = "done" /\ result'[c] = "error"
      BY <1>4 DEF callClosed, Finish, Goto, Base, TypeOK, Registered, chanVars, wireVars
    <2>2. Received' /\ Dropping' /\ Arrived' /\ Kept' /\ Returned'
      BY <1>0, <2>1 DEF Route, Received, Calling, Dropping, Arrived, Kept, Returned
    <2> QED BY <1>0, <2>1, <2>2, OwnKept DEF Route
  <1> QED BY <1>1, <1>2, <1>3, <1>4
\* Routing is kept by the steps of a call that forget a tag: whoever else holds
\* it is robbed.
LEMMA RouteForget ==
    ASSUME Base, Route, NEW c \in Calls, callWriteFails(c) \/ flushWriteFails(c) \/ callForget(c)
    PROVE  Route'
  <1> USE ChanFacts
  <1> DEFINE x == IF flushWriteFails(c) THEN FlushOf(c) ELSE CallOf(c)
  <1>1. /\ x \in Chans /\ delete(tag[x], x) /\ [Next]_vars
        /\ UNCHANGED <<buf, wireVars, tag>>
    BY DEF callWriteFails, flushWriteFails, callForget, forget, chanVars, CallOf, FlushOf, Next, Step
  <1>2. /\ \A d \in Calls : d # c => pc'[d] = pc[d] /\ result'[d] = result[d]
        /\ \/ pc[c] = "write" /\ pc'[c] = "done" /\ result'[c] = "error"
           \/ pc[c] = "flushwrite" /\ pc'[c] = "forget" /\ x = FlushOf(c) /\ result'[c] = "none"
           \/ pc[c] = "forget" /\ pc'[c] = "done" /\ result'[c] = "cancelled"
    BY DEF callWriteFails, flushWriteFails, callForget, Finish, Goto, Base, TypeOK, Unused
  <1> HIDE DEF x
  <1>3. /\ robbed \subseteq robbed' /\ closed' = closed
        /\ \A y \in Chans : pending[tag[y]] = y /\ y \notin robbed' /\ y # x => pending'[tag[y]] = y
    BY <1>1 DEF Base, TypeOK, delete
  <1>4. Received' /\ Dropping' /\ Arrived'
    BY <1>1, <1>2, <1>3 DEF Route, Received, Dropping, Arrived, Calling, wireVars
  <1>5. Kept'
    <2>1. ASSUME NEW d \in Calls, pc'[d] \in Calling PROVE CallOf(d) # x
      BY <1>2, <2>1 DEF x, Calling, flushWriteFails
    <2>2. ASSUME NEW d \in Calls, pc'[d] \in Flushing PROVE FlushOf(d) # x
      BY <1>2, <2>2 DEF x, Flushing
    <2>3. \A d \in Calls : (pc'[d] \in Calling => pc[d] \in Calling)
                           /\ (pc'[d] \in Flushing => pc[d] \in Flushing)
      BY <1>2 DEF Calling, Flushing
    <2> QED
      BY <1>1, <1>3, <2>1, <2>2, <2>3 DEF Route, Kept, wireVars
  <1>6. Returned'
    <2>1. /\ pc[c] \in {"write", "flushwrite"} => FlushOf(c) \notin sent
          /\ pc[c] = "write" => CallOf(c) \notin sent
      BY DEF Base, Unused
    <2>2. \A d \in Calls : d # c =>
             (~closed' =>
                /\ pc'[d] \in {"forget", "done"} /\ FlushOf(d) \in sent' =>
                      \/ FlushOf(d) \in robbed'
                      \/ FlushOf(d) \in settled' /\ (LateReplies \/ CallOf(d) \in settled')
                /\ result'[d] = "reply" => CallOf(d) \in settled' \cup robbed'
                /\ result'[d] \in {"error", "notags"} => CallOf(d) \notin sent')
      BY <1>1, <1>2, <1>3 DEF Route, Returned, wireVars
    <2>3. ~closed' =>
             /\ pc'[c] \in {"forget", "done"} /\ FlushOf(c) \in sent' =>
                   \/ FlushOf(c) \in robbed'
                   \/ FlushOf(c) \in settled' /\ (LateReplies \/ CallOf(c) \in settled')
             /\ result'[c] # "reply"
             /\ result'[c] \in {"error", "notags"} => CallOf(c) \notin sent'
      BY <1>1, <1>2, <1>3, <2>1 DEF Route, Returned, wireVars
    <2> QED BY <2>2, <2>3 DEF Returned
  <1> QED BY <1>1, <1>2, <1>4, <1>5, <1>6, OwnKept DEF Route

\* A reply that is delivered to another request's channel is a stray: its call is
\* past waiting for it, with no Tflush answered, or its entry was taken.
LEMMA MisdeliveredIsStray ==
    ASSUME Base, Route, NEW y \in sent \ settled, ~closed, pending[tag[y]] # y
    PROVE  y \in Strays
  <1> USE ChanFacts
  <1>1. y \in Chans
    BY DEF Base, TypeOK
  <1>2. CASE y = CallOf(y[1])
    <2> DEFINE c == y[1]
    <2>1. c \in Calls /\ pc[c] # "idle"
      BY <1>1, <1>2 DEF Base, Unused
    <2>2. CASE pc[c] \in Calling
      BY <1>1, <1>2, <2>1, <2>2 DEF Route, Kept, Strays
    <2>3. CASE pc[c] = "done"
      <3>1. result[c] \in {"reply", "error", "notags", "cancelled"}
        BY <2>1, <2>3 DEF Base, TypeOK, Unused
      <3>2. result[c] \notin {"error", "notags"} /\ (result[c] = "reply" => y \in robbed)
        BY <1>2, <2>1 DEF Route, Returned
      <3>3. FlushOf(c) \in sent => FlushOf(c) \in robbed \/ LateReplies
        BY <1>2, <2>1, <2>3 DEF Route, Returned
      <3>4. result[c] = "cancelled" => Abandoned(y)
        BY <1>2, <3>3 DEF Abandoned, CallOf, FlushOf
      <3> QED BY <1>1, <3>1, <3>2, <3>4 DEF Strays
    <2> QED BY <2>1, <2>2, <2>3 DEF Base, TypeOK, Calling
  <1>3. CASE y = FlushOf(y[1])
    <2> DEFINE c == y[1]
    <2>1. c \in Calls /\ pc[c] \in {"flushwait", "forget", "done"}
      BY <1>1, <1>3 DEF Base, TypeOK, Unused
    <2>2. y \in robbed
      BY <1>1, <1>3, <2>1 DEF Route, Kept, Returned, Flushing
    <2> QED BY <1>1, <2>2 DEF Strays
  <1> QED BY <1>1, <1>2, <1>3

\* Routing is kept when a reply is delivered.
LEMMA RouteDeliver ==
    ASSUME Base, Route, NEW y \in Chans, readLoopDeliver(y)
    PROVE  Route'
  <1> USE ChanFacts
  <1> DEFINE t == tag[y]
             x == pending[t]
  <1>1. /\ t \in Tag /\ (x \in Chans \/ x = Nil) /\ [Next]_vars
        /\ ~closed /\ y \in sent \ settled
        /\ delete(t, y) /\ UNCHANGED <<pc, result, got, sent, drops, tag>>
        /\ buf' = IF x = Nil THEN buf ELSE [buf EXCEPT ![x] = Append(buf[x], y)]
        /\ settled' = settled \cup {y} \cup (IF y[2] = "flush" THEN drops[y[1]] ELSE {})
    BY DEF readLoopDeliver, deliver, callVars, Base, TypeOK, Next
  <1>2. /\ \A u \in Tag : pending'[u] = IF u = t THEN Nil ELSE pending[u]
        /\ \A z \in Chans : z # x => buf'[z] = buf[z]
        /\ \A z \in Chans : z # x \/ z \in robbed' \cup {y}
        /\ settled \cup {y} \subseteq settled'
        /\ robbed \subseteq robbed' /\ closed' = closed
    BY <1>1 DEF Base, TypeOK, delete
  <1>3. \A c \in Calls : y = FlushOf(c) => settled' = settled \cup {y} \cup drops[c]
    BY <1>1 DEF FlushOf
  <1>4. Received'
    <2>1. settled' \subseteq sent
      BY <1>1 DEF Route, Received
    <2> QED BY <1>1, <2>1 DEF Route, Received
  <1>5. Kept'
    <2>1. \A z \in Chans : tag[z] \in Tag
      BY DEF Base, TypeOK
    <2>2. \A z \in Chans : pending[tag[z]] = z /\ z \notin settled' \cup robbed' => pending'[tag[z]] = z
      <3> HIDE DEF x, t
      <3> QED BY <1>2, <2>1 DEF x
    <2> HIDE DEF x, t
    <2> QED BY <1>1, <1>2, <2>2 DEF Route, Kept
  <1>6. Dropping'
    BY <1>1, <1>2 DEF Route, Dropping
  <1>7. Arrived'
    <2>1. ASSUME NEW c \in Calls, y = FlushOf(c) PROVE LateReplies \/ CallOf(c) \in settled'
      BY <1>1, <1>3, <2>1 DEF Route, Dropping
    <2> HIDE DEF x, t
    <2> QED BY <1>2, <2>1 DEF Route, Arrived
  <1>8. Returned'
    BY <1>1, <1>2 DEF Route, Returned
  <1>9. Own'
    <2>1. x \notin {y, Nil} => y \in Strays'
      BY <1>1, MisdeliveredIsStray, StrayStays
    <2>2. Strays \subseteq Strays'
      BY <1>1, StrayStays
    <2>3. ASSUME NEW c \in Calls, NEW i \in 1..Len(buf'[CallOf(c)])
          PROVE  buf'[CallOf(c)][i] \in Strays' \cup {CallOf(c)}
      <3>1. CASE x = CallOf(c)
        <4>1. x \in Chans /\ buf[x] \in Seq(Chans) /\ buf'[x] = Append(buf[x], y)
          BY <1>1, <3>1 DEF Base, TypeOK
        <4>2. y \in Strays' \cup {x}
          BY <2>1, <4>1
        <4>3. i \in 1..Len(buf[x]) + 1 /\ Len(buf[x]) \in Nat
          BY <2>3, <3>1, <4>1
        <4>4. buf'[x][i] = y \/ (i \in 1..Len(buf[x]) /\ buf'[x][i] = buf[x][i])
          BY <4>1, <4>3
        <4> HIDE DEF x
        <4> QED BY <2>2, <3>1, <4>2, <4>4 DEF Route, Own
      <3>2. CASE x # CallOf(c)
        <4> HIDE DEF x
        <4> QED BY <1>2, <2>2, <2>3, <3>2 DEF Route, Own
      <3> QED BY <3>1, <3>2
    <2> HIDE DEF x
    <2> QED BY <1>1, <2>2, <2>3 DEF Route, Own
  <1> QED BY <1>4, <1>5, <1>6, <1>7, <1>8, <1>9 DEF Route

\* Routing is kept by closeAll, after which nothing more is delivered.
LEMMA RouteClose ==
    ASSUME Base, Route, readLoopFails \/ Close \/ UNCHANGED vars
    PROVE  Route'
  <1>1. /\ [Next]_vars /\ UNCHANGED <<pc, result, got, wireVars, tag, robbed, buf>>
        /\ (closed' \/ UNCHANGED <<pending, closed>>)
    BY DEF readLoopFails, Close, closeAll, callVars, muxVars, chanVars, vars, Next
  <1>2. Received' /\ Kept' /\ Dropping' /\ Arrived' /\ Returned'
    BY <1>1 DEF Route, Received, Kept, Dropping, Arrived, Returned, wireVars
  <1> QED BY <1>1, <1>2, OwnKept DEF Route

\* A call returns the reply to its own request, or one to a request that had been
\* abandoned or robbed of its entry (RightReply): for any number of calls and
\* tags, with any cancellation, failure and order of replies.
THEOREM RepliesRouted == Spec => []RightReply
  <1>1. Base /\ Route /\ [Next]_vars => Route'
    <2> SUFFICES ASSUME Base, Route, [Next]_vars PROVE Route'
      OBVIOUS
    <2>1. ASSUME NEW c \in Calls, rpc(c) \/ Step(c) \/ callCancelled(c) PROVE Route'
      BY <2>1, RouteRegister, RouteCall, RouteForget DEF Step
    <2>2. ASSUME NEW x \in Chans, readLoopDeliver(x) PROVE Route'
      BY <2>2, RouteDeliver
    <2>3. CASE readLoopFails \/ Close \/ UNCHANGED vars
      BY <2>3, RouteClose
    <2> QED BY <2>1, <2>2, <2>3 DEF Next
  <1>2. Route => RightReply
    BY DEF Route, Own, Strays, RightReply, CallOf
  <1> QED BY BaseInvariant, RouteInit, <1>1, <1>2, PTL DEF Spec
=============================================================================
