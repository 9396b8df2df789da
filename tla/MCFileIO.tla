------------------------------ MODULE MCFileIO ------------------------------
(***************************************************************************)
(* Instances of FileIO for TLC.                                            *)
(***************************************************************************)
EXTENDS FileIO, TLC

\* The goroutines are alike.
Symmetry == Permutations(Procs)

Between(msize, version, smsize, server, iounit, data, target, calls) ==
    [msize |-> msize, version |-> version, smsize |-> smsize, server |-> server,
     iounit |-> iounit, data |-> data, target |-> target, calls |-> calls]

Three == <<1, 2, 3>>

\* Twstat of a new name, or of a new length; the other fields are left alone.
Wstat(f, name, length) ==
    Rpc(Msg("Twstat", <<f, <<DontTouch, DontTouch, <<DontTouch, DontTouch, DontTouch>>, DontTouch,
                             DontTouch, DontTouch, length, name, 0, 0, 0, 0, 0, 0, 0>> >>))
Make(name, mode, target) == Rpc(Msg("Tcreate", <<MakeFid, name, mode, 0, target>>))
Unlink(f)  == Rpc(Msg("Tremove", <<f>>))

\* Reads and writes of up to two messages, with seeks in between.
Chunked == {ReadAtN(0, 3), ReadAtN(1, 3), WriteAtB(1, <<4, 5, 6>>), WriteB(<<7, 8, 9>>),
            ReadN(3), SeekTo(1, SeekStart)}

\* Listings while entries come, go and change places.
Listing == {ListDir, Make(2, 0, 0), Make(4, DMSYMLINK, 9), Unlink(MakeFid),
            Wstat(FileFid, 5, DontTouch)}

\* Lengths and what changes them.
Sizing == {SeekTo(-1, SeekEnd), SeekTo(-2, SeekCurrent), ReadN(2), Wstat(FileFid, 0, 1),
           WriteB(<<7>>), Unlink(FileFid), ReadN(0), ReadAtN(0, 0), WriteB(<<>>)}

\* One of every other request.
Others == {Rpc(Msg("Tauth", <<9, 2, 0>>)), Rpc(Msg("Tflush", <<7>>)), Rpc(Msg("Tclunk", <<MakeFid>>)),
           Rpc(Msg("Tstat", <<RootFid>>)), Rpc(Msg("Twalk", <<RootFid, 9, <<LinkName, 2>> >>)),
           Rpc(Msg("Twalk", <<RootFid, 9, <<2>> >>)), Make(2, DMDIR, 0), Make(70000, 0, 0),
           Wstat(FileFid, 65500, DontTouch), ReadAtN(0, 2)}

MCCalls == [chunked |-> Chunked, listing |-> Listing, sizing |-> Sizing, others |-> Others,
            short |-> {ReadAtN(0, 3), ReadAtN(1, 3), WriteB(<<4, 5, 6>>)}, list |-> {ListDir}]

MCScenarios ==
    {Between(26, Version, 0, "this", 0, Three, 0, "chunked"),
     Between(8192, Version, 24, "this", 0, Three, 0, "short"),
     Between(8192, VersionU, 8192, "down", 2, Three, 0, "short"),
     Between(110, Version, 0, "this", 0, Three, 5, "listing"),
     Between(8192, VersionU, 120, "this", 0, Three, 5, "listing"),
     Between(110, VersionU, 8192, "strict", 0, Three, 5, "listing"),
     Between(8192, VersionU, 110, "this", 0, Three, 5, "list"),
     Between(8192, VersionU, 0, "this", 0, Three, 0, "sizing"),
     Between(0, VersionU, 8192, "this", 0, Three, 5, "others"),
     Between(8192, Version, 8192, "this", 0, Three, 5, "others"),
     Between(8192, VersionU, 20, "this", 0, Three, 0, "others"),
     Between(23, Version, 0, "this", 0, Three, 0, "others"),
     Between(8192, VersionU, 0, "never", 0, Three, 0, "others"),
     Between(8192, Version, 0, "refuse", 0, Three, 0, "others")}
=============================================================================
