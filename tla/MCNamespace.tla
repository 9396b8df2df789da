---------------------------- MODULE MCNamespace ----------------------------
(***************************************************************************)
(* Instances of Namespace for TLC.                                         *)
(***************************************************************************)
EXTENDS Namespace, TLC

CONSTANTS a, b, z, f1, f2

MCNames == {a, b}
MCNodes == {<<>>, <<a>>, <<b>>, <<a, b>>}
MCFSs   == {f1, f2}

\* Two trees that share a name and each have one of their own.
MCContent == (f1 :> {<<>>, <<a>>, <<b>>, <<b, a>>}) @@ (f2 :> {<<>>, <<b>>, <<b, a>>, <<b, b>>})

\* The goroutines are alike.
Symmetry == Permutations(Procs)

OnFS(fs, sub, dst, disp, ro) ==
    [op |-> "BindFS", fs |-> fs, sub |-> sub, dst |-> dst, disp |-> disp, ro |-> ro]
OnPath(srcs, dst, disp, ro) ==
    [op |-> "BindPath", srcs |-> srcs, dst |-> dst, disp |-> disp, ro |-> ro]
Off(dst) == [op |-> "Unbind", dst |-> dst]
Copy     == [op |-> "Clone"]

\* Unions at /a, a bind below it, and /b bound to paths at and below /a.
UnionRequests ==
    {OnFS(f1, <<>>, <<a>>, "replace", FALSE), OnFS(f2, <<>>, <<a>>, "before", TRUE),
     OnFS(f2, <<b>>, <<a, b>>, "after", FALSE),
     OnPath(<< <<a>> >>, <<b>>, "after", FALSE),
     OnPath(<< <<a, b>>, <<a>> >>, <<b>>, "replace", TRUE),
     Off(<<a>>), Off(<<b>>), Copy}

\* An alias of an alias: /b is /a, and /z is /b/b.
AliasNames    == {a, b, z}
AliasNodes    == MCNodes \cup {<<z>>}
AliasRequests ==
    {OnFS(f1, <<>>, <<a, b>>, "replace", FALSE), OnFS(f2, <<>>, <<a, b>>, "replace", FALSE),
     OnPath(<< <<a>> >>, <<b>>, "replace", FALSE),
     OnPath(<< <<b, b>> >>, <<z>>, "replace", FALSE), Copy}
=============================================================================
