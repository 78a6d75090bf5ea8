---------------------------- MODULE MCPacketPool ----------------------------
EXTENDS PacketPool, TLC

CONSTANTS t1, t2, v1, v2, v3

(* Image and bitmap types of the same size, and one that has a size of its own. *)
MCSizeOf == ("image" :> 1) @@ ("bitmap" :> 1) @@ ("context" :> 0) @@ ("inexact" :> 1) @@ ("matrix" :> 1)
MCSize == [t \in Type |-> MCSizeOf[t]]
MCCanon == [t \in Type |-> IF t = "inexact" THEN "image" ELSE t]

PoolSymmetry == Permutations(Thread) \union Permutations(Var)
=============================================================================
