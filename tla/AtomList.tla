------------------------------ MODULE AtomList ------------------------------
(* Lists and trees of atoms (system/kernel/pdp_list.c) in the memory of the *)
(* fast allocator (system/kernel/pdp_mem.c).  Cells are linked through      *)
(* `next', which is the link of a list while a cell is an atom and the link *)
(* of the free list once it is given back: both are the first word of the   *)
(* cell.  An operation is one step, as its callers use it under their own   *)
(* lock.  The callers follow the convention of pdp_list.h: "tree"           *)
(* operations own sublists, "list" operations get flat lists.               *)
EXTENDS Integers, Sequences, FiniteSets, SequencesExt

CONSTANTS
    MaxCells,      (* bound on the cells that malloc hands out *)
    MaxFilled,     (* bound on the cells in use when another one is filled *)
    Block,         (* PDP_FASTALLOC_BLOCK_ELEMENTS *)
    NbLists,       (* bound on list headers *)
    MaxNew,        (* bound on the lists that exist when a new one is made *)
    Values,        (* values of int atoms *)
    IntRange,      (* words are compared as w_int: modulo 2^32 *)
    NoList         (* what ListSpec calls a list that does not exist *)

VARIABLES
    heap,          (* next, word: by cell; free, top: allocator; list: headers *)
    users          (* the references to the packet that lists hold *)

listVars == <<heap, users>>

Null == 0
Cell == 1..MaxCells
Link == Cell \cup {Null}
Depth == 0..MaxCells + 1
Header == 1..NbLists
Freed == [elements |-> -1, first |-> Null, last |-> Null]
Undef == [t |-> "undef", v |-> 0]
PacketWord == [t |-> "packet", v |-> 1]
NoPacketWord == [t |-> "packet", v |-> 0]
ListWord(l) == [t |-> "list", v |-> l]
Ints == {[t |-> "int", v |-> i] : i \in Values}
Word == Ints \cup {Undef, PacketWord, NoPacketWord}
            \cup {ListWord(l) : l \in Header}

ListInit ==
    /\ heap = [next |-> [c \in Cell |-> Null], word |-> [c \in Cell |-> Undef],
               free |-> Null, top |-> 0, list |-> [l \in Header |-> Freed]]
    /\ users = 0

--------------------------------------------------------------------------------
(* The chain of cells that starts at c, cut after MaxCells + 1 of them so   *)
(* that a cycle shows.                                                      *)
ChainFrom(h, c) ==
    LET Walk[x \in Link, n \in Depth] ==
            IF x = Null \/ n = 0 THEN <<>> ELSE <<x>> \o Walk[h.next[x], n - 1]
    IN  Walk[c, MaxCells + 1]

Chain(h, l) == ChainFrom(h, h.list[l].first)
Contents(h, l) == LET ch == Chain(h, l) IN [i \in DOMAIN ch |-> h.word[ch[i]]]
IsLive(h, l) == h.list[l] # Freed
FreeHeader(h) == CHOOSE l \in Header : ~IsLive(h, l) /\ \A k \in 1..l - 1 : IsLive(h, k)
Room(h, n) == Len(ChainFrom(h, h.free)) + MaxCells - h.top >= n
MayFill(h) == Room(h, MaxCells - MaxFilled + 1)
HeaderRoom(h, n) == Cardinality({l \in Header : ~IsLive(h, l)}) >= n

(* A new block is linked only when the free list is empty. *)
_pdp_fastalloc_refill_freelist(h) ==
    [h EXCEPT !.free = h.top + 1, !.top = @ + Block,
        !.next = [c \in Cell |-> IF c \in h.top + 1..h.top + Block - 1 THEN c + 1
                                 ELSE IF c = h.top + Block THEN Null ELSE h.next[c]]]

Supplied(h) == IF h.free = Null THEN _pdp_fastalloc_refill_freelist(h) ELSE h

(* The atom the allocator hands out, and the heap without it. *)
NewCell(h) == Supplied(h).free
pdp_fastalloc_new_atom(h) ==
    LET s == Supplied(h) IN [s EXCEPT !.free = s.next[s.free], !.next[s.free] = Null]

(* Nobody reads the word of a free cell: it is forgotten here. *)
pdp_fastalloc_save_atom(h, c) ==
    [h EXCEPT !.next[c] = h.free, !.free = c, !.word[c] = Undef]

DeallocHeader(h, l) == [h EXCEPT !.list[l] = Freed]

--------------------------------------------------------------------------------
pdp_list_add_atom(h, l, a) ==
    [h EXCEPT !.next[a] = h.list[l].first,
              !.list[l] = [elements |-> @.elements + 1, first |-> a,
                           last |-> IF @.last = Null THEN a ELSE @.last]]

pdp_list_add(h, l, w) ==
    LET a == NewCell(h)
    IN  pdp_list_add_atom([pdp_fastalloc_new_atom(h) EXCEPT !.word[a] = w], l, a)

pdp_list_add_back_atom(h, l, a) ==
    LET hd == h.list[l]
        linked == [h EXCEPT !.next = [h.next EXCEPT ![a] = Null]]
    IN  [linked EXCEPT !.next = IF hd.last = Null THEN @ ELSE [@ EXCEPT ![hd.last] = a],
                       !.list[l] = [elements |-> hd.elements + 1, last |-> a,
                                    first |-> IF hd.last = Null THEN a ELSE hd.first]]

pdp_list_add_back(h, l, w) ==
    LET a == NewCell(h)
    IN  pdp_list_add_back_atom([pdp_fastalloc_new_atom(h) EXCEPT !.word[a] = w], l, a)

(* n undefined atoms, each new one in front. *)
pdp_list_new(h, l, n) ==
    FoldLeft(LAMBDA g, i : pdp_list_add(g, l, Undef),
             [h EXCEPT !.list[l] = [elements |-> 0, first |-> Null, last |-> Null]],
             [i \in 1..n |-> i])

pdp_list_clear(h, l) ==
    [FoldLeft(pdp_fastalloc_save_atom, h, Chain(h, l))
        EXCEPT !.list[l] = [elements |-> 0, first |-> Null, last |-> Null]]

pdp_list_free(h, l) == DeallocHeader(pdp_list_clear(h, l), l)

(* The first atom is unlinked; the list is not empty. *)
pdp_list_pop_atom(h, l) ==
    LET a == h.list[l].first
        rest == h.next[a]
    IN  [h EXCEPT !.list[l] = [elements |-> @.elements - 1, first |-> rest,
                               last |-> IF rest = Null THEN Null ELSE @.last],
                  !.next[a] = Null]

pdp_list_pop(h, l) ==
    pdp_fastalloc_save_atom(pdp_list_pop_atom(h, l), h.list[l].first)

(* Words are compared by type and by their low 32 bits. *)
SameWord(u, w) == u.t = w.t /\ u.v % IntRange = w.v % IntRange

pdp_list_contains(h, l, w) == \E i \in DOMAIN Contents(h, l) : SameWord(Contents(h, l)[i], w)

(* The first equal atom goes; last moves back, or to null at the head. *)
pdp_list_remove(h, l, w) ==
    LET ch == Chain(h, l)
        hits == {i \in DOMAIN ch : SameWord(h.word[ch[i]], w)}
        i == CHOOSE k \in hits : \A j \in hits : k <= j
        rest == h.next[ch[i]]
    IN  IF hits = {} THEN h
        ELSE pdp_fastalloc_save_atom(
               [h EXCEPT !.next = IF i = 1 THEN @ ELSE [@ EXCEPT ![ch[i - 1]] = rest],
                         !.list[l] = [elements |-> @.elements - 1,
                                      first |-> IF i = 1 THEN rest ELSE @.first,
                                      last |-> IF @.last # ch[i] THEN @.last
                                               ELSE IF i = 1 THEN Null ELSE ch[i - 1]]],
               ch[i])

pdp_list_add_to_set(h, l, w) ==
    IF pdp_list_contains(h, l, w) THEN h ELSE pdp_list_add(h, l, w)

pdp_list_reverse(h, l) ==
    FoldLeft(LAMBDA g, a : pdp_list_add_atom(g, l, a),
             [h EXCEPT !.list[l] = [elements |-> 0, first |-> Null, last |-> Null]],
             Chain(h, l))

(* Mutant: the last pointer is not moved. *)
JoinKeepsLast(h, l, tail) ==
    LET hd == h.list[l]
        tl == h.list[tail]
    IN  DeallocHeader(
          IF tl.elements = 0 THEN h
          ELSE [h EXCEPT
                 !.next = IF hd.last = Null THEN @ ELSE [@ EXCEPT ![hd.last] = tl.first],
                 !.list[l] = [elements |-> hd.elements + tl.elements, last |-> hd.last,
                              first |-> IF hd.last = Null THEN tl.first ELSE hd.first]],
          tail)
(* The atoms of tail are taken over and its header is given back. *)
pdp_list_join(h, l, tail) ==
    LET hd == h.list[l]
        tl == h.list[tail]
    IN  DeallocHeader(
          IF tl.elements = 0 THEN h
          ELSE [h EXCEPT
                 !.next = IF hd.last = Null THEN @ ELSE [@ EXCEPT ![hd.last] = tl.first],
                 !.list[l] = [elements |-> hd.elements + tl.elements, last |-> tl.last,
                              first |-> IF hd.last = Null THEN tl.first ELSE hd.first]],
          tail)

(* A list of the same length whose words are then overwritten in order. *)
Overwrite(h, k, words) ==
    LET ch == Chain(h, k)
    IN  FoldLeft(LAMBDA g, i : [g EXCEPT !.word[ch[i]] = words[i]], h, [i \in DOMAIN ch |-> i])

pdp_list_copy(h, l, k) ==
    Overwrite(pdp_list_new(h, k, h.list[l].elements), k, Contents(h, l))

pdp_list_copy_reverse(h, l, k) ==
    FoldLeft(LAMBDA g, w : pdp_list_add(g, k, w), pdp_list_new(h, k, 0), Contents(h, l))

(* cat copies the tail and joins the copy. *)
pdp_list_cat(h, l, tail) ==
    LET tmp == FreeHeader(h)
        g == pdp_list_copy(h, tail, tmp)
    IN  pdp_list_join(g, l, tmp)

(* The list is cleared and gets the cells of a reversed copy. *)
pdp_list_reverse_old(h, l) ==
    LET k == FreeHeader(h)
        g == pdp_list_clear(pdp_list_copy_reverse(h, l, k), l)
    IN  DeallocHeader([g EXCEPT !.list[l] = g.list[k]], k)

--------------------------------------------------------------------------------
(* Trees: a sublist is freed, copied and visited with the list that owns it. *)
Sublists(h, l) == {w.v : w \in {x \in ToSet(Contents(h, l)) : x.t = "list"}}

pdp_tree_clear(h, l) ==
    pdp_list_clear(FoldLeft(pdp_list_free, h, SetToSeq(Sublists(h, l))), l)
pdp_tree_free(h, l) == DeallocHeader(pdp_tree_clear(h, l), l)

(* Each word is added in front, a sublist after its own copy was made. *)
pdp_tree_copy_reverse(h, l, k) ==
    LET Put(g, w) == IF w.t # "list" THEN pdp_list_add(g, k, w)
                     ELSE LET s == FreeHeader(g)
                          IN  pdp_list_add(pdp_list_copy_reverse(g, w.v, s), k, ListWord(s))
    IN  FoldLeft(Put, pdp_list_new(h, k, 0), Contents(h, l))

(* Mutant: sublists are not copied. *)
TreeCopyShares(h, l, k) == pdp_list_copy(h, l, k)
(* As in pdp_list_copy the cells exist before the words are copied. *)
pdp_tree_copy(h, l, k) ==
    LET n == pdp_list_new(h, k, h.list[l].elements)
        cells == Chain(n, k)
        words == Contents(h, l)
        Put(g, i) == IF words[i].t # "list" THEN [g EXCEPT !.word[cells[i]] = words[i]]
                     ELSE LET s == FreeHeader(g)
                          IN  [pdp_list_copy(g, words[i].v, s) EXCEPT !.word[cells[i]] = ListWord(s)]
    IN  FoldLeft(Put, n, [i \in DOMAIN cells |-> i])

TreeOf(h, l) == {l} \cup Sublists(h, l)
TreeCells(h, l) == UNION {ToSet(Chain(h, k)) : k \in TreeOf(h, l)}
PacketCells(h, l) == {c \in TreeCells(h, l) : h.word[c] = PacketWord}

(* mark_unused for each packet of the tree, whose words become invalid. *)
_atom_packet_mark_unused(h, l) ==
    [h EXCEPT !.word = [c \in Cell |-> IF c \in PacketCells(h, l) THEN NoPacketWord ELSE h.word[c]]]

--------------------------------------------------------------------------------
Flat(l) == Sublists(heap, l) = {}
NoPacket(l) == PacketCells(heap, l) = {}
Root(l) == IsLive(heap, l) /\ \A k \in Header : IsLive(heap, k) => l \notin Sublists(heap, k)
Roots == {l \in Header : Root(l)}

List_New == HeaderRoom(heap, NbLists - MaxNew + 1)
    /\ heap' = pdp_list_new(heap, FreeHeader(heap), 0) /\ UNCHANGED users

(* Lists are emptied and freed once their packets were taken out. *)
List_Clear(l) == Flat(l) /\ NoPacket(l)
    /\ heap' = pdp_list_clear(heap, l) /\ UNCHANGED users

List_Free(l) == Flat(l) /\ NoPacket(l)
    /\ heap' = pdp_list_free(heap, l) /\ UNCHANGED users

Tree_Clear(l) == NoPacket(l)
    /\ heap' = pdp_tree_clear(heap, l) /\ UNCHANGED users

Tree_Free(l) == NoPacket(l)
    /\ heap' = pdp_tree_free(heap, l) /\ UNCHANGED users

(* A word enters at either end.  A caller that adds a packet made a         *)
(* reference for it; a list that enters another one is owned by it.         *)
List_Add(l) ==
    /\ MayFill(heap)
    /\ \E w \in Ints \cup {PacketWord} \cup {ListWord(m) : m \in {r \in Roots \ {l} : Flat(r)}} :
         /\ heap' \in {pdp_list_add(heap, l, w), pdp_list_add_back(heap, l, w)}
         /\ users' = users + (IF w = PacketWord THEN 1 ELSE 0)

List_AddToSet(l) == MayFill(heap)
    /\ \E w \in Ints : heap' = pdp_list_add_to_set(heap, l, w)
    /\ UNCHANGED users

(* A caller that pops a packet marks it unused when it is done. *)
List_Pop(l) == heap.list[l].elements > 0
    /\ heap' = pdp_list_pop(heap, l)
    /\ users' = users - (IF heap.word[heap.list[l].first] = PacketWord THEN 1 ELSE 0)

List_Remove(l) ==
    /\ \E w \in Ints : heap' = pdp_list_remove(heap, l, w)
    /\ heap' # heap /\ UNCHANGED users

(* Lists are copied while headers are left for a list with a sublist. *)
List_Copy(l) == Flat(l) /\ NoPacket(l) /\ HeaderRoom(heap, NbLists - MaxNew)
    /\ Room(heap, heap.list[l].elements)
    /\ heap' \in {pdp_list_copy(heap, l, FreeHeader(heap)), pdp_list_copy_reverse(heap, l, FreeHeader(heap))}
    /\ UNCHANGED users

TreeRoom(l) == HeaderRoom(heap, NbLists - MaxNew)
               /\ HeaderRoom(heap, Cardinality(TreeOf(heap, l)))
               /\ Room(heap, Cardinality(TreeCells(heap, l)))

(* pdp_tree_copy_ro copies the tree and then every packet in it. *)
Tree_CopyRo(l) == TreeRoom(l)
    /\ heap' = pdp_tree_copy(heap, l, FreeHeader(heap))
    /\ users' = users + Cardinality(PacketCells(heap', FreeHeader(heap)))

Tree_CopyReverse(l) == NoPacket(l) /\ TreeRoom(l)
    /\ heap' = pdp_tree_copy_reverse(heap, l, FreeHeader(heap))
    /\ UNCHANGED users

(* As pdp_rawin_free does: the packets are stripped, then the tree is freed. *)
Tree_Strip(l) == ~NoPacket(l)
    /\ heap' = pdp_tree_free(_atom_packet_mark_unused(heap, l), l)
    /\ users' = users - Cardinality(PacketCells(heap, l))

List_Join(l) == Flat(l) /\ \E m \in Roots \ {l} : Flat(m)
    /\ heap' = pdp_list_join(heap, l, m) /\ UNCHANGED users

List_Cat(l) == Flat(l) /\ HeaderRoom(heap, 1)
    /\ \E m \in Roots \ {l} : Flat(m) /\ NoPacket(m) /\ Room(heap, heap.list[m].elements)
         /\ heap' = pdp_list_cat(heap, l, m) /\ UNCHANGED users

List_Reverse(l) == Flat(l) /\ heap.list[l].elements > 1
    /\ \/ heap' = pdp_list_reverse(heap, l)
       \/ HeaderRoom(heap, 1) /\ Room(heap, heap.list[l].elements)
          /\ heap' = pdp_list_reverse_old(heap, l)
    /\ UNCHANGED users

ListNext ==
    \/ List_New
    \/ \E l \in Roots :
          \/ List_Clear(l) \/ List_Free(l) \/ Tree_Clear(l) \/ Tree_Free(l) \/ List_Add(l)
          \/ List_AddToSet(l) \/ List_Pop(l) \/ List_Remove(l) \/ List_Copy(l)
          \/ Tree_CopyRo(l) \/ Tree_CopyReverse(l) \/ Tree_Strip(l)
          \/ List_Join(l) \/ List_Cat(l) \/ List_Reverse(l)

ListSpecification == ListInit /\ [][ListNext]_listVars

(* Not called in the repository: source->last and dest->last are set by     *)
(* the wrong tests of the counts (lines 747 and 752).                       *)
pdp_list_pop_push(h, l, k) ==
    LET a == h.list[l].first
        src == h.list[l]
        dst == h.list[k]
    IN  [h EXCEPT
          !.list = [@ EXCEPT
             ![l] = [elements |-> src.elements - 1, first |-> h.next[a],
                     last |-> IF src.elements - 1 # 0 THEN Null ELSE src.last],
             ![k] = [elements |-> dst.elements + 1, first |-> a,
                     last |-> IF dst.elements # 0 THEN a ELSE dst.last]],
          !.next[a] = dst.first]

PopPushSpecification == ListInit /\ [][ListNext \/ \E l, m \in Roots :
    /\ l # m /\ heap.list[l].elements > 0
    /\ heap' = pdp_list_pop_push(heap, l, m) /\ UNCHANGED users]_listVars

--------------------------------------------------------------------------------
ListTypeOK ==
    /\ heap.next \in [Cell -> Link] /\ heap.word \in [Cell -> Word]
    /\ heap.free \in Link /\ heap.top \in 0..MaxCells
    /\ heap.list \in [Header -> [elements : -1..MaxCells, first : Link,
                                 last : Link]]
    /\ users \in 0..MaxCells

(* elements is the length of the chain and last its end, which add_back and *)
(* join write to without looking (pdp_list_add_back_atom, pdp_list_join).   *)
ListEnds == \A l \in Header : IsLive(heap, l) =>
    LET ch == Chain(heap, l)
    IN  /\ heap.list[l].elements = Len(ch)
        /\ heap.list[l].last = IF ch = <<>> THEN Null ELSE ch[Len(ch)]

(* Every cell that malloc handed out is in exactly one list or in the free  *)
(* list, once: nothing is lost, freed twice or shared between two lists.    *)
CellsPartitioned ==
    \A c \in 1..heap.top :
        LET Places(ch) == {i \in DOMAIN ch : ch[i] = c}
            inLists == {<<l, i>> \in Header \X (1..MaxCells + 1) :
                           IsLive(heap, l) /\ i \in Places(Chain(heap, l))}
        IN  Cardinality(inLists) + Cardinality(Places(ChainFrom(heap, heap.free))) = 1

(* A sublist has one owner and is alive: pdp_tree_free frees each list once. *)
SublistOwned == \A l \in Header : IsLive(heap, l) =>
    \A m \in Sublists(heap, l) :
        /\ IsLive(heap, m)
        /\ \A k \in Header \ {l} : IsLive(heap, k) => m \notin Sublists(heap, k)
        /\ Cardinality({i \in DOMAIN Contents(heap, l) : Contents(heap, l)[i] = ListWord(m)}) = 1

(* The packet's users are the atoms that hold it: pdp_tree_copy_ro and      *)
(* pdp_tree_strip_packets reach every atom of a tree, once.                 *)
PacketsCounted ==
    users = Cardinality({c \in Cell : heap.word[c] = PacketWord /\
              \E l \in Header : IsLive(heap, l) /\ c \in ToSet(Chain(heap, l))})

(* The linked lists behave as the sequences of ListSpec. *)
Seqs == INSTANCE ListSpec WITH
    List <- Header, seq <- [l \in Header |-> IF IsLive(heap, l) THEN Contents(heap, l) ELSE NoList]
ListsAreSequences == Seqs!Spec

(* Through every sequence of list operations the heap stays whole: each     *)
(* cell is free or in one list once, last and elements say what the chain   *)
(* says, a nested list has one owner, and the packet's users are the atoms  *)
(* that hold it.                                                            *)
HeapSound == ListTypeOK /\ ListEnds /\ CellsPartitioned /\ SublistOwned /\ PacketsCounted
=============================================================================
