---------------------------- MODULE MCMediaStore ----------------------------
(* Small instances of MediaStore for TLC. *)
EXTENDS MediaStore

CONSTANTS d1, r1, r2, p1, p2, p3
=============================================================================
