------------------------------ MODULE MCKernel ------------------------------
(* The kernel's parts below the packet pool: the atom lists, their reader   *)
(* and syntax check, the packet types and the conversion cache.  They share *)
(* no state, so a behaviour is one of one part, chosen initially.  A part   *)
(* of its own is a display under every failure and every answer of the      *)
(* patch, which MCObjects has under those that the code survives.           *)
EXTENDS AtomList, ListSyntax, PacketTypes, ConvertCache, Display

VARIABLE part

MCSources ==
    {pdp_packet_new_image_YCrCb(8, 4, <<"Y", "V", "U">>), pdp_packet_new_image_grey(8, 4, <<"Y">>),
     pdp_packet_new_image_mchp(8, 4, 1, <<"C0">>), pdp_packet_new_image_mchp(8, 4, 2, <<"C0", "C1">>),
     pdp_packet_new_image_mchp(8, 4, 3, <<"C0", "C1", "C2">>),
     pdp_packet_new_image_mchp(8, 4, 4, <<"C0", "C1", "C2", "C3">>),
     pdp_packet_new_bitmap("rgb", 8, 4, <<"R", "G", "B">>),
     pdp_packet_new_bitmap("rgba", 8, 4, <<"R", "G", "B", "A">>),
     pdp_packet_new_bitmap("grey", 8, 4, <<"Y">>),
     pdp_packet_new_bitmap("yv12", 8, 4, <<"Y", "V", "U">>),
     pdp_packet_new_bitmap("i420", 8, 4, <<"Y", "U", "V">>),
     pdp_packet_new_matrix(4, 8, "double", "real", <<"Y">>),
     pdp_packet_new_matrix(4, 8, "float", "complex", <<"Y">>)}
(* With and without dimensions, with those the conversions cannot reach. *)
MCTemplates ==
    {Image(e, d) : e \in {"YCrCb", "grey", "multi", "*", "other"}, d \in {Star, <<4, 4>>, <<4, 4, 3>>}}
    \cup {Bitmap(e, d) : e \in {"rgb", "rgba", "grey", "yv12", "i420", "*"}, d \in {Star, <<4, 4>>}}
    \cup {Matrix("double", "real", Star), Matrix("*", "*", Star), Matrix("float", "complex", <<4, 8>>)}

MCRounds == [a |-> 1, b |-> 2, c |-> 1, d |-> 0, e |-> 1]
MCConvertible == {"a", "b", "c"}
MCBucket == [n \in {"p", "q"} |-> 1]
MCViewSizes == {<<4, 4>>}
OneRound == [a |-> 1, b |-> 1, c |-> 1, d |-> 1]
AllKeys == DOMAIN OneRound

Init == /\ part \in {"lists", "reader", "types", "cache", "faults"}
        /\ ListInit /\ SynInit /\ TypeInit /\ CacheInit
        /\ DisplayInit /\ (part = "faults" \/ view.class = "xv")

Next ==
    \/ part = "lists" /\ ListNext /\ UNCHANGED <<part, synVars, typeVars, cacheVars, displayVars>>
    \/ part = "reader" /\ SynNext /\ UNCHANGED <<part, listVars, typeVars, cacheVars, displayVars>>
    \/ part = "types" /\ TypeNext /\ UNCHANGED <<part, listVars, synVars, cacheVars, displayVars>>
    \/ part = "cache" /\ CacheNext /\ UNCHANGED <<part, listVars, synVars, typeVars, displayVars>>
    \/ part = "faults" /\ ViewNext /\ UNCHANGED <<part, listVars, synVars, typeVars, cacheVars, sdlVars>>

Spec == Init /\ [][Next]_<<part, listVars, synVars, typeVars, cacheVars, displayVars>>
=============================================================================
