------------------------------ MODULE MCRestore ------------------------------
(***************************************************************************)
(* A backup with a directory d that its owner may not write into, which     *)
(* holds a file f and a directory e with a file g; and a symbolic link s.   *)
(***************************************************************************)
EXTENDS Restore

AllNodes == {"root", "d", "f", "e", "g", "s"}
AllKinds == [root |-> "dir", d |-> "dir", f |-> "file", e |-> "dir", g |-> "file", s |-> "symlink"]
AllListings == [root |-> <<"d", "s">>, d |-> <<"f", "e">>, e |-> <<"g">>,
             f |-> <<>>, g |-> <<>>, s |-> <<>>]
AllBlobs == [root |-> 0, d |-> 0, f |-> 2, e |-> 0, g |-> 1, s |-> 0]
AllModes == [root |-> {"r", "w"}, d |-> {"r"}, f |-> {"r"}, e |-> {"r", "w"}, g |-> {"r", "w"}, s |-> {"r", "w"}]

\* Nanoseconds: whole microseconds and others, before and after 1970.
AllMtimes == [root |-> 1000000500, d |-> 1999, f |-> -1500, e |-> 3000, g |-> -2000, s |-> -1500000001]

=============================================================================
