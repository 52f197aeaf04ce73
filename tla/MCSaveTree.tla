----------------------------- MODULE MCSaveTree -----------------------------
(* Small trees for SaveTree. *)
EXTENDS SaveTree

\* An excluded directory with a symbolic link, which stay; a directory that a file
\* may replace, with a file that a symbolic link may replace; and a symbolic link
\* or a pipe.
TreePath == {"", "c", "c/f", "d", "d/f", "e"}
TreeNames == [n \in TreePath |-> CASE n = "" -> <<"c", "d", "e">> [] n = "c" -> <<"c/f">>
                                    [] n = "d" -> <<"d/f">> [] OTHER -> <<>>]
TreeMayBe == [n \in TreePath |-> CASE n \in {"", "c"} -> {"dir"} [] n = "c/f" -> {"symlink"}
                                    [] n = "d" -> {"none", "file", "dir"}
                                    [] n = "d/f" -> {"none", "file", "symlink"}
                                    [] n = "e" -> {"none", "symlink", "pipe"}]

=============================================================================
