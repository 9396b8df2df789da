--------------------------- MODULE MCRemoteMount ---------------------------
(***************************************************************************)
(* Instances of RemoteMount for TLC.                                       *)
(***************************************************************************)
EXTENDS RemoteMount, TLC

\* The handlers are alike.
Symmetry == Permutations(Handlers)

\* Where a fid may be walked to, a directory below the root being "d".
Walked == {<<"d">>, <<"..">>, <<"d", "..">>, <<"d", "x">>}

MCRequests ==
    [op : {"Attach"}, newfid : {1}]
        \cup [op : {"Clone"}, fid : {1}, newfid : {2}]
        \cup [op : {"Walk"}, fid : {1, 2}, newfid : {2}, names : Walked]
        \cup [op : {"Create", "Clunk", "Remove", "Use"}, fid : Fids]
        \cup [op : {"Open"}, fid : Fids, mode : {"OREAD", "OWRITE"}]
        \cup [op : {"Read"}, fid : Fids, off : {0, 2}]
        \cup [op : {"Rename"}, fid : Fids, name : {"e", "y"}]
=============================================================================
