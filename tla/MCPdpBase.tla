------------------------------ MODULE MCPdpBase ------------------------------
EXTENDS PdpBase, TLC

CONSTANTS n, f, g, m

MCKind == (n :> "noise") @@ (f :> "gain") @@ (g :> "zoom") @@ (m :> "mat")

(* The generator feeds the zoom, whose packets reach both inlets of the     *)
(* filter; the filter feeds the matrix object and back to the zoom.        *)
MCWire ==
    (n :> <<<<g, 0>>>>) @@ (g :> <<<<f, 0>>, <<f, 1>>>>)
    @@ (f :> <<<<m, 0>>, <<g, 1>>>>) @@ (m :> <<>>)

(* The outlet of the zoom is connected to its own hot inlet. *)
LoopWire == (n :> <<<<g, 0>>>>) @@ (g :> <<<<g, 0>>>>)

(* The generator drives one object, through its hot or its cold inlet. *)
HotWire == (n :> <<<<m, 0>>>>) @@ (m :> <<>>)
ColdWire == (n :> <<<<f, 1>>>>) @@ (f :> <<>>)
MCKinds == [o \in Obj |-> MCKind[o]]
=============================================================================
