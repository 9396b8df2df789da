---------------------------- MODULE MCServerConn ----------------------------
(***************************************************************************)
(* Instances of ServerConn for TLC: the sets of messages the client of each *)
(* run draws from.                                                         *)
(***************************************************************************)
EXTENDS ServerConn, TLC

Version(v)    == [type |-> "Tversion", version |-> v]
Attach(f)     == [type |-> "Tattach", fid |-> f]
Walk(f, g, n) == [type |-> "Twalk", fid |-> f, newfid |-> g, names |-> n]
On(ty, f)     == [type |-> ty, fid |-> f]
Flush(t)      == [type |-> "Tflush", oldtag |-> t]
Auth          == [type |-> "Tauth"]

Flushes == {Flush(t) : t \in Tags \ {NoTag}}

Plain == {Version("9P2000")}

\* Everything that touches the fid table.
FidMessages ==
    Plain \cup {Attach(f) : f \in Fids}
          \cup {Walk(f, g, n) : f, g \in Fids, n \in {0, 2}}
          \cup {On(ty, f) : ty \in {"Tclunk", "Tremove", "Tcreate", "Tstat"}, f \in Fids}

\* A client that renegotiates, with requests that queue, hold a slot in the
\* backend and are flushed in between.
FlushMessages ==
    {Version(v) : v \in {"9P2000.u", "other"}}
        \cup {Attach(f) : f \in Fids} \cup Flushes

\* Attaches, flushes, and a request that is refused.
QueueMessages ==
    Plain \cup {Attach(f) : f \in Fids} \cup Flushes \cup {Auth}

TagSymmetry == Permutations(Tags \ {NoTag})
Symmetry    == Permutations(Tags \ {NoTag}) \cup Permutations(Fids)
=============================================================================
