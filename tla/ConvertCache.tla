---------------------------- MODULE ConvertCache ----------------------------
(* The conversion cache (system/kernel/pdp_type.c) and the symbol table     *)
(* (pdp_symbol.c), shared by the pd thread and the threads of the           *)
(* processing queues.  A key stands for a source type and a template; what  *)
(* the methods of its program do to a packet is in PacketTypes.  Each step  *)
(* is what a thread does between two mutex operations or two methods.       *)
EXTENDS Integers, Sequences, FiniteSets

CONSTANTS
    Threads,
    Rounds,          (* key -> methods that are run before the search ends *)
    Convertible,     (* keys whose search ends with a packet that fits *)
    max_cache_size,
    Bucket,          (* type name -> its slot in the symbol hash *)
    MaxPrograms      (* bound on the programs that are made *)

Keys == DOMAIN Rounds
Names == DOMAIN Bucket

(* The threads and the names are finitely many, and the cache has room for  *)
(* a program (pdp_type_setup sets its size to 32).                          *)
ASSUME CacheAssumption ==
    /\ IsFiniteSet(Threads) /\ IsFiniteSet(Names)
    /\ Rounds \in [Keys -> Nat]
    /\ max_cache_size \in Nat \ {0}
    /\ MaxPrograms \in Nat

VARIABLES
    cached_conversion_list,  (* sequence of [key, program] *)
    programs,       (* live programs: id -> number of methods *)
    made,           (* number of programs made so far *)
    packets,        (* packets made by methods and not yet released *)
    recent,         (* keys of the cache, the least recently used first *)
    thread,         (* state of each thread *)
    pdp_symhash,    (* bucket -> chain of [name, typed]: typed when s_type is set *)
    lists           (* parsed type lists that are allocated *)

convVars == <<cached_conversion_list, programs, made, packets, recent, thread>>
symVars == <<pdp_symhash, lists>>
cacheVars == <<convVars, symVars>>

Idle == [pc |-> "idle", key |-> 0, program |-> 0, ran |-> 0, packet |-> FALSE, name |-> 0]
NewProgram == made + 1
Buckets == {Bucket[n] : n \in Names}

CacheInit ==
    /\ cached_conversion_list = <<>> /\ recent = <<>>
    /\ programs = <<>> /\ made = 0 /\ packets = 0 /\ lists = 0
    /\ thread = [t \in Threads |-> Idle]
    /\ pdp_symhash = [b \in Buckets |-> <<>>]

Forget(s, k) == SelectSeq(s, LAMBDA x : x # k)
Dealloc(ps, id) == [p \in DOMAIN ps \ {id} |-> ps[p]]
Alloc(ps, id, n) == [p \in DOMAIN ps \cup {id} |-> IF p = id THEN n ELSE ps[p]]
CachedAt(k) == {i \in DOMAIN cached_conversion_list : cached_conversion_list[i].key = k}
First(S) == CHOOSE i \in S : \A j \in S : i <= j

(* The entry that is found changes places with the last one. *)
SwapWithLast(s, i) == [s EXCEPT ![i] = s[Len(s)], ![Len(s)] = s[i]]

_pdp_type_find_cached_conversion_program(t, k) ==
    /\ thread[t].pc = "idle"
    /\ IF CachedAt(k) # {}
       THEN LET i == First(CachedAt(k)) IN
            /\ thread' = [thread EXCEPT ![t] = [Idle EXCEPT !.pc = "cached", !.key = k,
                                                 !.program = cached_conversion_list[i].program]]
            /\ cached_conversion_list' = SwapWithLast(cached_conversion_list, i)
            /\ recent' = Append(Forget(recent, k), k)
       ELSE /\ thread' = [thread EXCEPT ![t] = [Idle EXCEPT !.pc = "search", !.key = k]]
            /\ UNCHANGED <<cached_conversion_list, recent>>
    /\ UNCHANGED <<programs, made, packets, symVars>>

(* One method of a cached program makes a packet; the one before, unless it *)
(* is the source packet, is released.                                       *)
RunCachedMethod(t) ==
    /\ thread[t].pc = "cached" /\ thread[t].ran < Rounds[thread[t].key]
    /\ packets' = IF thread[t].packet THEN packets ELSE packets + 1
    /\ thread' = [thread EXCEPT ![t].ran = @ + 1, ![t].packet = TRUE,
                     ![t].pc = IF thread[t].ran + 1 = Rounds[thread[t].key] THEN "result" ELSE "cached"]
    /\ UNCHANGED <<cached_conversion_list, programs, made, recent, symVars>>

(* A method of a cached program finds no memory: the packet before it is    *)
(* released.  The last one ends the conversion; one before it hands -1 to   *)
(* the next method, which reads the header of no packet ("lost").           *)
CachedMethodFails(t) ==
    /\ thread[t].pc = "cached" /\ thread[t].ran < Rounds[thread[t].key]
    /\ packets' = IF thread[t].packet THEN packets - 1 ELSE packets
    /\ thread' = [thread EXCEPT ![t] = IF thread[t].ran + 1 = Rounds[thread[t].key] THEN Idle
                                       ELSE [Idle EXCEPT !.pc = "lost"]]
    /\ UNCHANGED <<cached_conversion_list, programs, made, recent, symVars>>

(* Without a cached program: the first conversion that matches is copied    *)
(* into a new program and run, those of the next rounds are added to it.    *)
ConvertFirst(t) ==
    /\ thread[t].pc = "search" /\ Rounds[thread[t].key] > 0 /\ made < MaxPrograms
    /\ made' = NewProgram /\ programs' = Alloc(programs, NewProgram, 1)
    /\ packets' = packets + 1
    /\ thread' = [thread EXCEPT ![t].pc = "loop", ![t].program = NewProgram, ![t].ran = 1,
                                ![t].packet = TRUE]
    /\ UNCHANGED <<cached_conversion_list, recent, symVars>>

(* No conversion matches, or the first method fails: the program it is a    *)
(* copy of is freed again.                                                  *)
ConvertNone(t) ==
    /\ thread[t].pc = "search"
    /\ thread' = [thread EXCEPT ![t] = Idle]
    /\ UNCHANGED <<cached_conversion_list, programs, made, packets, recent, symVars>>

ConvertMore(t) ==
    /\ thread[t].pc = "loop" /\ thread[t].ran < Rounds[thread[t].key]
    /\ programs' = [programs EXCEPT ![thread[t].program] = @ + 1]
    /\ thread' = [thread EXCEPT ![t].ran = @ + 1]
    /\ UNCHANGED <<cached_conversion_list, made, packets, recent, symVars>>

(* Mutant: the intermediate packet is not released. *)
FailKeepsPacket(t) ==
    /\ thread[t].pc = "loop"
    /\ thread[t].ran < Rounds[thread[t].key] \/ thread[t].key \notin Convertible
    /\ programs' = Dealloc(programs, thread[t].program)
    /\ thread' = [thread EXCEPT ![t] = Idle]
    /\ UNCHANGED <<cached_conversion_list, made, packets, recent, symVars>>
(* The last packet does not fit and no conversion matches it, or the next   *)
(* method fails and nothing matches an invalid packet: the packet and the   *)
(* program are given back.                                                  *)
ConvertFails(t) ==
    /\ thread[t].pc = "loop"
    /\ thread[t].ran < Rounds[thread[t].key] \/ thread[t].key \notin Convertible
    /\ packets' = packets - 1
    /\ programs' = Dealloc(programs, thread[t].program)
    /\ thread' = [thread EXCEPT ![t] = Idle]
    /\ UNCHANGED <<cached_conversion_list, made, recent, symVars>>

(* The packet fits: the front of a full cache is freed and the program goes *)
(* to the back, also when another thread put one there for the same key.    *)
Register(t, room) ==
    /\ thread[t].pc = "loop" /\ thread[t].ran = Rounds[thread[t].key]
    /\ thread[t].key \in Convertible
    /\ LET old == cached_conversion_list
           k == thread[t].key
           new == [key |-> k, program |-> thread[t].program]
       IN  IF Len(old) >= room
           THEN /\ cached_conversion_list' = Append(Tail(old), new)
                /\ programs' = Dealloc(programs, Head(old).program)
                /\ recent' = LET s == Forget(recent, k)
                             IN  Append(IF \E i \in 2..Len(old) : old[i].key = Head(old).key
                                        THEN s ELSE Forget(s, Head(old).key), k)
           ELSE /\ cached_conversion_list' = Append(old, new)
                /\ recent' = Append(Forget(recent, k), k)
                /\ UNCHANGED programs
    /\ thread' = [thread EXCEPT ![t].pc = "result"]
    /\ UNCHANGED <<made, packets, symVars>>

pdp_type_register_cached_conversion(t) == Register(t, max_cache_size)

(* The caller is done with the packet it got. *)
pdp_packet_mark_unused(t) ==
    /\ thread[t].pc = "result"
    /\ packets' = packets - 1 /\ thread' = [thread EXCEPT ![t] = Idle]
    /\ UNCHANGED <<cached_conversion_list, programs, made, recent, symVars>>

--------------------------------------------------------------------------------
(* Symbols.  Under the hash lock the chain is searched and the name is      *)
(* added at its end when it is not there.                                   *)
NamedAt(chain, n) == {i \in DOMAIN chain : chain[i].name = n}

_pdp_dogensym(t, n) ==
    LET b == Bucket[n]
    IN  /\ thread[t].pc = "idle"
        /\ pdp_symhash' = IF NamedAt(pdp_symhash[b], n) # {} THEN pdp_symhash
                          ELSE [pdp_symhash EXCEPT ![b] = Append(@, [name |-> n, typed |-> FALSE])]
        /\ thread' = [thread EXCEPT ![t].pc = "symbol", ![t].name = n]
        /\ UNCHANGED <<cached_conversion_list, programs, made, packets, recent, lists>>

Sym(n) == pdp_symhash[Bucket[n]][First(NamedAt(pdp_symhash[Bucket[n]], n))]

(* A match needs the type list of the symbol: s_type is read without the    *)
(* lock, and a list is parsed when it is not there yet.                     *)
pdp_type_to_list(t) ==
    /\ thread[t].pc = "symbol"
    /\ IF Sym(thread[t].name).typed
       THEN thread' = [thread EXCEPT ![t] = Idle] /\ UNCHANGED lists
       ELSE thread' = [thread EXCEPT ![t].pc = "parsed"] /\ lists' = lists + 1
    /\ UNCHANGED <<cached_conversion_list, programs, made, packets, recent, pdp_symhash>>

(* Mutant: the second list is not freed. *)
SetLosesList(t) ==
    LET n == thread[t].name
        b == Bucket[n]
    IN  /\ thread[t].pc = "parsed"
        /\ pdp_symhash' = [pdp_symhash EXCEPT ![b][First(NamedAt(pdp_symhash[b], n))].typed = TRUE]
        /\ thread' = [thread EXCEPT ![t] = Idle]
        /\ UNCHANGED <<cached_conversion_list, programs, made, packets, recent, lists>>
(* Under the lock the list becomes the symbol's, unless another thread was  *)
(* first: then it is freed.                                                 *)
pdp_symbol_set_typelist(t) ==
    LET n == thread[t].name
        b == Bucket[n]
    IN  /\ thread[t].pc = "parsed"
        /\ IF Sym(n).typed THEN lists' = lists - 1 /\ UNCHANGED pdp_symhash
           ELSE /\ pdp_symhash' = [pdp_symhash EXCEPT ![b][First(NamedAt(pdp_symhash[b], n))].typed = TRUE]
                /\ UNCHANGED lists
        /\ thread' = [thread EXCEPT ![t] = Idle]
        /\ UNCHANGED <<cached_conversion_list, programs, made, packets, recent>>

CacheNext == \E t \in Threads :
    \/ \E k \in Keys : _pdp_type_find_cached_conversion_program(t, k)
    \/ RunCachedMethod(t) \/ CachedMethodFails(t)
    \/ ConvertFirst(t) \/ ConvertNone(t) \/ ConvertMore(t) \/ ConvertFails(t)
    \/ pdp_type_register_cached_conversion(t) \/ pdp_packet_mark_unused(t)
    \/ \E n \in Names : _pdp_dogensym(t, n)
    \/ pdp_type_to_list(t) \/ pdp_symbol_set_typelist(t)

CacheSpec == CacheInit /\ [][CacheNext]_cacheVars

--------------------------------------------------------------------------------
InCache == {cached_conversion_list[i].program : i \in DOMAIN cached_conversion_list}
Building == {t \in Threads : thread[t].pc = "loop"}

(* The cache stays within its size and owns its programs: each entry has a  *)
(* live program of its own, and a live program is in the cache or is being  *)
(* built by one thread.  None is lost on the paths that fail.               *)
ProgramsOwned ==
    /\ Len(cached_conversion_list) <= max_cache_size
    /\ Cardinality(InCache) = Len(cached_conversion_list)
    /\ InCache \cap {thread[t].program : t \in Building} = {}
    /\ DOMAIN programs = InCache \cup {thread[t].program : t \in Building}

(* A cached program is the whole program of its key: two threads that miss  *)
(* the same key at the same time do not mix their programs up.              *)
CachedWhole == \A i \in DOMAIN cached_conversion_list :
    /\ programs[cached_conversion_list[i].program] = Rounds[cached_conversion_list[i].key]
    /\ cached_conversion_list[i].key \in Convertible

(* The packets that are alive are the ones the threads hold: intermediates  *)
(* are released on every path, the one that gives up included.              *)
IntermediatesReleased == packets = Cardinality({t \in Threads : thread[t].packet})

(* Threads that make the same symbol or type its name at the same time end  *)
(* with one symbol and one list: the list that came second is freed.        *)
SymbolsUnique ==
    /\ \A n \in Names : Cardinality(NamedAt(pdp_symhash[Bucket[n]], n)) <= 1
    /\ lists = Cardinality({t \in Threads : thread[t].pc = "parsed"})
               + Cardinality({n \in Names : NamedAt(pdp_symhash[Bucket[n]], n) # {} /\ Sym(n).typed})

(* pdp_type.c:288 calls the front of the cache its least recently used      *)
(* entry.  It does not hold: a hit swaps two entries.                       *)
EvictsLRU ==
    [][\A i \in DOMAIN recent : recent[i] \notin {recent'[j] : j \in DOMAIN recent'} => i = 1]_cacheVars

(* A thread runs a program that is alive.  It does not hold: the program is *)
(* found under the mutex and run after it was released.                     *)
RunsLiveProgram == \A t \in Threads : thread[t].pc = "cached" => thread[t].program \in DOMAIN programs

(* A method of a cached program gets a packet.  It does not hold: unlike    *)
(* the search, _pdp_type_run_conversion_program goes on after a -1.         *)
MethodsGetPackets == \A t \in Threads : thread[t].pc # "lost"

(* Threads that look up, extend and evict conversion programs at the same   *)
(* time leave a cache of whole programs that are its own, and no            *)
(* intermediate packet behind.                                              *)
CacheSound == ProgramsOwned /\ CachedWhole /\ IntermediatesReleased
=============================================================================
