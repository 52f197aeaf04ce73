---------------------------- MODULE MCComebackFS ----------------------------
(***************************************************************************)
(* A small backup: /, /d, /d/f with two chunks, /g a hard link of /d/f, /s *)
(* a symlink and /p a pipe.                                                *)
(***************************************************************************)
EXTENDS ComebackFS, TLC

Entries == {"root", "d", "f", "g", "s", "p"}
Types == [e \in Entries |-> CASE e \in {"root", "d"} -> "dir"
                              [] e \in {"f", "g"} -> "file"
                              [] e = "s" -> "symlink" [] OTHER -> "other"]
NameOf == [e \in Entries |-> e]
Numbers == [root |-> 1, d |-> 2, f |-> 3, g |-> 3, s |-> 4, p |-> 5]
Listings == [e \in Entries |-> CASE e = "root" -> <<"d", "g", "s", "p">>
                                 [] e = "d" -> <<"f">> [] OTHER -> <<>>]
HardLinks == [e \in Entries |-> IF e \in {"f", "g"} THEN <<"x", "y">> ELSE <<>>]

Threads == Permutations(Thread)
=============================================================================
