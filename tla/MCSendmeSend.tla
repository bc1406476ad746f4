---------------------------- MODULE MCSendmeSend ----------------------------
(* SendmeSend with two requests on one connection and one on another. *)
EXTENDS SendmeSend

TwoConns == [s \in Stream |-> IF s = 3 THEN "c2" ELSE "c1"]
=============================================================================
