----------------------------- MODULE MCFileStore -----------------------------
(* Small instances of FileStore. *)
EXTENDS FileStore

CONSTANTS t1, x, y, p1, p2
=============================================================================
