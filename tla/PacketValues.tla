----------------------------- MODULE PacketValues -----------------------------
(***************************************************************************)
(* What the packet pool promises its users: a packet variable behaves as   *)
(* if it held its own value.  Copying a variable copies the value, writing *)
(* one variable changes no other, and nothing else changes a value.  There *)
(* are no handles, reference counts or shared buffers here.                *)
(***************************************************************************)
CONSTANTS Holder,     \* the packet variables of the program
          Value,
          Empty       \* the variable holds no packet

VARIABLE val

ValuesInit == val = [v \in Holder |-> Empty]

(* A fresh packet has unspecified contents. *)
Fill(v) == \E x \in Value : val[v] = Empty /\ val' = [val EXCEPT ![v] = x]
CopyOf(v, w) == val[v] # Empty /\ val[w] = Empty /\ val' = [val EXCEPT ![w] = val[v]]
Change(v) == \E x \in Value : val[v] # Empty /\ val' = [val EXCEPT ![v] = x]
Release(v) == val' = [val EXCEPT ![v] = Empty]

ValuesNext ==
    \/ \E v \in Holder : Fill(v) \/ Change(v) \/ Release(v)
    \/ \E v, w \in Holder : CopyOf(v, w)

ValuesSpec == ValuesInit /\ [][ValuesNext]_val
=============================================================================
