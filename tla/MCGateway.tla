----------------------------- MODULE MCGateway ------------------------------
(* Gateway with names of up to two characters, one of each kind, and         *)
(* collections of up to two entries, named and no two alike.                 *)
EXTENDS Gateway, SequencesExt

CONSTANTS letter, blank, query, stray, escape

Letters == [c \in {escape} |-> letter]
Names == BoundedSeq({letter, blank, query, stray, escape}, 2)
SmallCollections ==
  {c \in BoundedSeq([name : Names \ {<<>>}, hash : Hash], 2) :
     \A i, j \in DOMAIN c : c[i].name = c[j].name => i = j}
=============================================================================
