---------------------------- MODULE MCHandshake ----------------------------
(***************************************************************************)
(* Names and passwords are strings of bytes, and their fields hold two: a  *)
(* name and a password are longer, and are cut to another one's bytes.     *)
(***************************************************************************)
EXTENDS Handshake

FieldLen == 2
Cut(s) == IF Len(s) > FieldLen THEN SubSeq(s, 1, FieldLen) ELSE s

MCNames == {<<3>>, <<3, 4>>, <<3, 4, 3>>}
MCPasswords == {<<4>>, <<4, 1>>, <<4, 1, 1>>}
MCStored == [n \in MCNames |-> Cut(n)]
MCKept == [p \in MCPasswords |-> Cut(p)]
MCNoName == <<>>
=============================================================================
