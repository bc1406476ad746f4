-------------------------- MODULE MCSendmeReceive ---------------------------
(* SendmeReceive on small instances: a collection with a path of its own for *)
(* each entry, and one whose last entry names the path of the first.         *)
EXTENDS SendmeReceive

OwnPaths == [i \in Entries |-> i]
SamePath == [i \in Entries |-> IF i = NFiles THEN 1 ELSE i]
AnyPaths == {OwnPaths, SamePath}
=============================================================================
