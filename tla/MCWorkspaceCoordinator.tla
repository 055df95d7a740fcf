----------------------- MODULE MCWorkspaceCoordinator -----------------------
(***************************************************************************)
(* A project p with a file f and the Git directory p/.git, and a linked    *)
(* work tree w of the same repository.  A script runs in p and edits f     *)
(* twice; another session edits f; the Git panel works on w and then on    *)
(* the common directory p/.git; a checkpoint restore locks p.              *)
(***************************************************************************)
EXTENDS WorkspaceCoordinator

MCPath == {"p", "p/f", "p/.git", "w"}

MCInside == {<<x, x>> : x \in MCPath} \union {<<"p", "p/f">>, <<"p", "p/.git">>}

MCOp == {"script", "edit1", "edit2", "other", "git", "common", "restore"}

MCScope == [script |-> "p", edit1 |-> "p/f", edit2 |-> "p/f", other |-> "p/f",
            git |-> "w", common |-> "p/.git", restore |-> "p"]

MCKind == [o \in MCOp |-> IF o \in {"edit1", "edit2", "other"} THEN "file" ELSE "directory"]

MCOwner == [script |-> "S", edit1 |-> "S", edit2 |-> "S", other |-> "O",
            git |-> "G", common |-> "G", restore |-> "R"]

MCParent == [o \in MCOp |-> CASE o \in {"edit1", "edit2"} -> "script"
                              [] o = "common" -> "git"
                              [] OTHER -> "none"]
=============================================================================
