----------------------------- MODULE MCDumbPipe -----------------------------
(* DumbPipe on a small instance: one unit after the handshake one way, two   *)
(* the other, and a flow-control window that both directions can exhaust.    *)
EXTENDS DumbPipe

OneAndTwo == [e \in End |-> IF e = "dialer" THEN 1 ELSE 2]
=============================================================================
