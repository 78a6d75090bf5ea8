--------------------------- MODULE Kernel_proofs ---------------------------
(***************************************************************************)
(* The conversion cache and the symbol table for any number of threads,    *)
(* keys, names and cache entries.                                          *)
(***************************************************************************)
EXTENDS ConvertCache, RingArithmetic, SequenceTheorems, FiniteSetTheorems, TLAPS

-----------------------------------------------------------------------------
(* The inductive invariant.  Its parts, first the types. *)
ThreadRecord ==
    [pc : {"idle", "cached", "lost", "search", "loop", "result", "symbol", "parsed"},
     key : Keys \cup {0}, program : Nat, ran : Nat, packet : BOOLEAN, name : Names \cup {0}]
Entry == [key : Keys, program : Nat]
Symbol == [name : Names, typed : BOOLEAN]

CacheTypes ==
    /\ thread \in [Threads -> ThreadRecord]
    /\ cached_conversion_list \in Seq(Entry)
    /\ made \in Nat
    /\ programs \in [DOMAIN programs -> Nat]
    /\ DOMAIN programs \subseteq 1 .. made
    /\ pdp_symhash \in [Buckets -> Seq(Symbol)]

(* What a thread has at each point: a key while it converts, a packet from  *)
(* its first conversion on, a program of its own while it builds one.       *)
PhaseOf(t) ==
    /\ thread[t].pc # "cached" => (thread[t].packet = TRUE <=> thread[t].pc \in {"loop", "result"})
    /\ thread[t].pc \in {"cached", "search", "loop"} => thread[t].key \in Keys
    /\ thread[t].pc = "loop" => /\ thread[t].program \in DOMAIN programs
                                /\ programs[thread[t].program] = thread[t].ran
    /\ thread[t].pc \in {"symbol", "parsed"} =>
           /\ thread[t].name \in Names
           /\ NamedAt(pdp_symhash[Bucket[thread[t].name]], thread[t].name) # {}
CachePhases == \A t \in Threads : PhaseOf(t)

(* A program has one owner: an entry of the cache or a thread. *)
OneOwner ==
    /\ Len(cached_conversion_list) <= max_cache_size
    /\ \A i, j \in DOMAIN cached_conversion_list :
           cached_conversion_list[i].program = cached_conversion_list[j].program => i = j
    /\ \A t, u \in Building : thread[t].program = thread[u].program => t = u
    /\ \A i \in DOMAIN cached_conversion_list, t \in Building :
           cached_conversion_list[i].program # thread[t].program
    /\ \A i \in DOMAIN cached_conversion_list : cached_conversion_list[i].program \in DOMAIN programs
    /\ \A p \in DOMAIN programs :
           \/ \E i \in DOMAIN cached_conversion_list : cached_conversion_list[i].program = p
           \/ \E t \in Building : thread[t].program = p

(* A name is once in its chain. *)
OneSymbol == \A b \in Buckets : \A i, j \in DOMAIN pdp_symhash[b] :
    pdp_symhash[b][i].name = pdp_symhash[b][j].name => i = j

Holding == {t \in Threads : thread[t].packet = TRUE}
Parsing == {t \in Threads : thread[t].pc = "parsed"}
Typed == {n \in Names : \E i \in DOMAIN pdp_symhash[Bucket[n]] :
              pdp_symhash[Bucket[n]][i].name = n /\ pdp_symhash[Bucket[n]][i].typed = TRUE}

(* A parsed list belongs to the thread that parsed it or to a symbol. *)
Accounted ==
    /\ packets = Cardinality(Holding)
    /\ lists = Cardinality(Parsing) + Cardinality(Typed)

CacheIInv == CacheTypes /\ CachePhases /\ OneOwner /\ CachedWhole /\ OneSymbol /\ Accounted

-----------------------------------------------------------------------------
(* Facts about the operators. *)
LEMMA FirstIn ==
    ASSUME NEW S \in SUBSET Nat, S # {}
    PROVE  First(S) \in S
<1>1. \E i \in S : \A j \in S : i <= j
  BY Smallest
<1> QED
  BY <1>1 DEF First

(* Exchanging two entries keeps the entries and their number. *)
LEMMA SwapKeeps ==
    ASSUME NEW S, NEW s \in Seq(S), NEW i \in DOMAIN s
    PROVE  /\ SwapWithLast(s, i) \in Seq(S)
           /\ Len(SwapWithLast(s, i)) = Len(s)
           /\ \A j \in DOMAIN s :
                  SwapWithLast(s, i)[j] = s[IF j = Len(s) THEN i ELSE IF j = i THEN Len(s) ELSE j]
<1> DEFINE r == SwapWithLast(s, i)
<1>1. Len(s) \in Nat /\ DOMAIN s = 1 .. Len(s) /\ Len(s) \in DOMAIN s
  OBVIOUS
<1>2. DOMAIN r = 1 .. Len(s) /\ \A j \in 1 .. Len(s) : r[j] \in S
  BY <1>1 DEF SwapWithLast
<1>3. r \in Seq(S) /\ Len(r) = Len(s)
  <2>1. r = [j \in 1 .. Len(s) |-> r[j]]
    BY <1>2 DEF SwapWithLast
  <2> HIDE DEF r
  <2>2. r \in [1 .. Len(s) -> S]
    BY <2>1, <1>2
  <2> QED
    BY <2>2, <1>1
<1>4. \A j \in DOMAIN s : r[j] = s[IF j = Len(s) THEN i ELSE IF j = i THEN Len(s) ELSE j]
  BY <1>1 DEF SwapWithLast
<1> QED
  BY <1>3, <1>4

(* The threads that hold a packet and the ones that parse are finitely      *)
(* many, and so are the typed names.                                        *)
LEMMA Finite ==
    /\ IsFiniteSet(Holding) /\ IsFiniteSet(Parsing) /\ IsFiniteSet(Typed)
    /\ Cardinality(Holding) \in Nat /\ Cardinality(Parsing) \in Nat /\ Cardinality(Typed) \in Nat
<1>1. Holding \subseteq Threads /\ Parsing \subseteq Threads /\ Typed \subseteq Names
  BY DEF Holding, Parsing, Typed
<1>2. IsFiniteSet(Holding) /\ IsFiniteSet(Parsing) /\ IsFiniteSet(Typed)
  BY <1>1, CacheAssumption, FS_Subset
<1> QED
  BY <1>2, FS_CardinalityType

(* A step that leaves the symbols alone and no thread parsing. *)
LEMMA SymbolsLeft ==
    ASSUME CacheIInv, UNCHANGED symVars, Parsing' = Parsing
    PROVE  OneSymbol' /\ lists' = Cardinality(Parsing') + Cardinality(Typed')
<1>1. Typed' = Typed
  BY DEF Typed, symVars
<1>2. OneSymbol'
  BY DEF OneSymbol, CacheIInv, symVars
<1> QED
  BY <1>1, <1>2 DEF CacheIInv, Accounted, symVars

(* A step that leaves the cache, the programs and their builders alone. *)
LEMMA ProgramsLeft ==
    ASSUME CacheIInv, UNCHANGED <<cached_conversion_list, programs>>,
           Building' = Building, \A t \in Building : thread'[t].program = thread[t].program
    PROVE  OneOwner' /\ CachedWhole'
BY DEF CacheIInv, OneOwner, CachedWhole

(* A step of a thread leaves the others alone. *)
LEMMA OneThread ==
    ASSUME CacheTypes, NEW t \in Threads, NEW r \in ThreadRecord, thread' = [thread EXCEPT ![t] = r]
    PROVE  /\ thread' \in [Threads -> ThreadRecord]
           /\ thread'[t] = r
           /\ \A u \in Threads \ {t} : thread'[u] = thread[u]
BY DEF CacheTypes

(* It leaves them in their phases when it keeps what they build and what    *)
(* they look up.                                                            *)
LEMMA OthersKept ==
    ASSUME CacheIInv, NEW t \in Threads, PhaseOf(t)',
           \A u \in Threads \ {t} : thread'[u] = thread[u],
           \A u \in Building \ {t} : /\ thread[u].program \in DOMAIN programs'
                                     /\ programs'[thread[u].program] = programs[thread[u].program],
           \A n \in Names : NamedAt(pdp_symhash[Bucket[n]], n) # {} => NamedAt(pdp_symhash'[Bucket[n]], n) # {}
    PROVE  CachePhases'
<1> SUFFICES ASSUME NEW u \in Threads \ {t} PROVE PhaseOf(u)'
  BY DEF CachePhases
<1>1. PhaseOf(u) /\ thread'[u] = thread[u]
  BY DEF CacheIInv, CachePhases
<1> QED
  BY <1>1 DEF PhaseOf, Building

(* No packet changes hands, one is taken, one is given back. *)
LEMMA HoldingSteps ==
    ASSUME CacheIInv, NEW t \in Threads, thread' \in [Threads -> ThreadRecord],
           \A u \in Threads \ {t} : thread'[u] = thread[u]
    PROVE  /\ thread'[t].packet = thread[t].packet => Cardinality(Holding') = packets
           /\ thread'[t].packet = TRUE /\ thread[t].packet = FALSE => Cardinality(Holding') = packets + 1
           /\ thread'[t].packet = FALSE /\ thread[t].packet = TRUE => Cardinality(Holding') = packets - 1
<1>1. packets = Cardinality(Holding) /\ IsFiniteSet(Holding)
  BY Finite DEF CacheIInv, Accounted
<1>2. CASE thread'[t].packet = thread[t].packet
  <2>1. Holding' = Holding
    BY <1>2 DEF Holding
  <2> QED
    BY <1>1, <1>2, <2>1
<1>3. CASE thread'[t].packet = TRUE /\ thread[t].packet = FALSE
  <2>1. Holding' = Holding \cup {t} /\ t \notin Holding
    BY <1>3 DEF Holding
  <2> QED
    BY <1>1, <1>3, <2>1, FS_AddElement
<1>4. CASE thread'[t].packet = FALSE /\ thread[t].packet = TRUE
  <2>1. Holding' = Holding \ {t} /\ t \in Holding
    BY <1>4 DEF Holding
  <2> QED
    BY <1>1, <1>4, <2>1, FS_RemoveElement
<1> QED
  BY <1>2, <1>3, <1>4

(* A step of a thread that neither builds a program nor parses a name. *)
LEMMA NotParsing ==
    ASSUME NEW t \in Threads, thread[t].pc # "parsed", thread'[t].pc # "parsed",
           \A u \in Threads \ {t} : thread'[u] = thread[u]
    PROVE  Parsing' = Parsing
BY DEF Parsing

LEMMA NotBuilding ==
    ASSUME NEW t \in Threads, thread[t].pc # "loop", thread'[t].pc # "loop",
           \A u \in Threads \ {t} : thread'[u] = thread[u]
    PROVE  Building' = Building /\ \A u \in Building : thread'[u].program = thread[u].program
BY DEF Building

-----------------------------------------------------------------------------
(* Every step keeps the invariant, an action at a time. *)
LEMMA SetPacket ==
    ASSUME NEW r \in ThreadRecord
    PROVE  [r EXCEPT !.packet = TRUE] \in ThreadRecord
<1>1. \A b \in BOOLEAN : [r EXCEPT !.packet = b] \in ThreadRecord
  BY DEF ThreadRecord
<1> QED
  BY <1>1, Zenon

LEMMA SetProgress ==
    ASSUME NEW r \in ThreadRecord, NEW c \in {"loop", "result", "cached"}, NEW p \in Nat, NEW n \in Nat
    PROVE  /\ [r EXCEPT !.pc = c, !.program = p, !.ran = n] \in ThreadRecord
           /\ [r EXCEPT !.ran = n, !.pc = c] \in ThreadRecord
BY DEF ThreadRecord

LEMMA SetTyped ==
    ASSUME NEW s \in Symbol
    PROVE  [s EXCEPT !.typed = TRUE] \in Symbol
<1>1. \A b \in BOOLEAN : [s EXCEPT !.typed = b] \in Symbol
  BY DEF Symbol
<1> QED
  BY <1>1, Zenon

LEMMA IdleType == Idle \in ThreadRecord /\ Idle.pc = "idle" /\ Idle.packet = FALSE
BY Zenon DEF Idle, ThreadRecord

(* A thread that has nothing of its own goes on to a phase without a        *)
(* program, and keeps or gives back its packet.                             *)
LEMMA QuietStep ==
    ASSUME CacheIInv, NEW t \in Threads, NEW r \in ThreadRecord, thread' = [thread EXCEPT ![t] = r],
           thread[t].pc \notin {"loop", "parsed"}, r.pc \in {"idle", "search", "cached", "lost", "result"},
           r.pc \in {"cached", "search"} => r.key \in Keys,
           r.pc # "cached" => (r.packet = TRUE <=> r.pc = "result"),
           packets' = packets + (IF r.packet THEN 1 ELSE 0) - (IF thread[t].packet THEN 1 ELSE 0),
           UNCHANGED <<cached_conversion_list, programs, made, symVars>>
    PROVE  CacheIInv'
<1>1. thread' \in [Threads -> ThreadRecord] /\ thread'[t] = r /\ \A u \in Threads \ {t} : thread'[u] = thread[u]
  BY OneThread DEF CacheIInv
<1>2. CacheTypes'
  BY <1>1 DEF CacheIInv, CacheTypes, symVars
<1>3. PhaseOf(t)'
  BY <1>1 DEF PhaseOf
<1>4. CachePhases'
  BY <1>1, <1>3, OthersKept DEF symVars, CacheIInv, CachePhases, PhaseOf, Building
<1>5. OneOwner' /\ CachedWhole'
  BY <1>1, NotBuilding, ProgramsLeft
<1>6. OneSymbol' /\ lists' = Cardinality(Parsing') + Cardinality(Typed')
  BY <1>1, NotParsing, SymbolsLeft
<1>7. packets' = Cardinality(Holding')
  <2>1. packets \in Nat
    BY Finite DEF CacheIInv, Accounted
  <2>2. r.packet \in BOOLEAN /\ thread[t].packet \in BOOLEAN
    BY DEF CacheIInv, CacheTypes, ThreadRecord
  <2>3. CASE r.packet = TRUE /\ thread[t].packet = TRUE
    <3>1. packets' = packets
      BY <2>1, <2>3
    <3>2. thread'[t].packet = TRUE
      BY <1>1, <2>3
    <3> QED
      BY <1>1, <2>3, <3>1, <3>2, HoldingSteps
  <2>4. CASE r.packet = FALSE /\ thread[t].packet = TRUE
    <3>1. packets' = packets - 1
      BY <2>1, <2>4
    <3>2. thread'[t].packet = FALSE
      BY <1>1, <2>4
    <3> QED
      BY <1>1, <2>4, <3>1, <3>2, HoldingSteps
  <2>5. CASE r.packet = TRUE /\ thread[t].packet = FALSE
    <3>1. packets' = packets + 1
      BY <2>1, <2>5
    <3>2. thread'[t].packet = TRUE
      BY <1>1, <2>5
    <3> QED
      BY <1>1, <2>5, <3>1, <3>2, HoldingSteps
  <2>6. CASE r.packet = FALSE /\ thread[t].packet = FALSE
    <3>1. packets' = packets
      BY <2>1, <2>6
    <3>2. thread'[t].packet = FALSE
      BY <1>1, <2>6
    <3> QED
      BY <1>1, <2>6, <3>1, <3>2, HoldingSteps
  <2> QED
    BY <2>2, <2>3, <2>4, <2>5, <2>6
<1> QED
  BY <1>2, <1>4, <1>5, <1>6, <1>7 DEF CacheIInv, Accounted

LEMMA FindStep ==
    ASSUME CacheIInv, NEW t \in Threads, NEW k \in Keys, _pdp_type_find_cached_conversion_program(t, k)
    PROVE  CacheIInv'
<1>1. CASE CachedAt(k) # {}
  <2> DEFINE L == cached_conversion_list
             i == First(CachedAt(k))
             r == [Idle EXCEPT !.pc = "cached", !.key = k, !.program = L[i].program]
             at(j) == IF j = Len(L) THEN i ELSE IF j = i THEN Len(L) ELSE j
  <2>1. L \in Seq(Entry) /\ i \in DOMAIN L /\ L[i] \in Entry
    <3>1. L \in Seq(Entry) /\ DOMAIN L \subseteq Nat
      BY DEF CacheIInv, CacheTypes
    <3>2. i \in CachedAt(k)
      BY <1>1, <3>1, FirstIn DEF CachedAt
    <3> HIDE DEF i
    <3> QED
      BY <3>1, <3>2 DEF CachedAt
  <2>2. thread[t].pc = "idle" /\ thread' = [thread EXCEPT ![t] = r] /\ L' = SwapWithLast(L, i)
        /\ UNCHANGED <<programs, made, packets, symVars>>
    BY <1>1 DEF _pdp_type_find_cached_conversion_program
  <2>3. L' \in Seq(Entry) /\ Len(L') = Len(L) /\ \A j \in DOMAIN L : L'[j] = L[at(j)]
    BY <2>1, <2>2, SwapKeeps
  <2> HIDE DEF i
  <2>4. /\ DOMAIN L = 1 .. Len(L) /\ DOMAIN L' = DOMAIN L /\ Len(L) \in Nat
        /\ \A j \in DOMAIN L : at(j) \in DOMAIN L /\ at(at(j)) = j
    BY <2>1, <2>3
  <2>5. r \in ThreadRecord /\ r.pc = "cached" /\ r.packet = FALSE /\ r.key = k
    BY <2>1 DEF Idle, ThreadRecord, Entry
  <2> HIDE DEF r
  <2>6. thread' \in [Threads -> ThreadRecord] /\ thread'[t] = r /\ \A u \in Threads \ {t} : thread'[u] = thread[u]
    BY <2>2, <2>5, OneThread DEF CacheIInv
  <2>7. Building' = Building /\ \A u \in Building : thread'[u].program = thread[u].program
    BY <2>2, <2>5, <2>6, NotBuilding
  <2>8. OneOwner'
    <3>1. Len(L') <= max_cache_size
      BY <2>3 DEF CacheIInv, OneOwner
    <3> HIDE DEF at
    <3>2. \A a, b \in DOMAIN L' : L'[a].program = L'[b].program => a = b
      <4> SUFFICES ASSUME NEW a \in DOMAIN L', NEW b \in DOMAIN L', L'[a].program = L'[b].program PROVE a = b
        OBVIOUS
      <4>1. at(a) = at(b)
        BY <2>3, <2>4 DEF CacheIInv, OneOwner
      <4> QED
        BY <4>1, <2>4
    <3>3. \A a \in DOMAIN L', u \in Building' : L'[a].program # thread'[u].program
      BY <2>3, <2>4, <2>7 DEF CacheIInv, OneOwner
    <3>4. \A a \in DOMAIN L' : L'[a].program \in DOMAIN programs'
      BY <2>2, <2>3, <2>4 DEF CacheIInv, OneOwner
    <3>5. \A p \in DOMAIN programs' : \/ \E a \in DOMAIN L' : L'[a].program = p
                                     \/ \E u \in Building' : thread'[u].program = p
      <4> SUFFICES ASSUME NEW p \in DOMAIN programs', ~ \E u \in Building' : thread'[u].program = p
                   PROVE  \E a \in DOMAIN L' : L'[a].program = p
        OBVIOUS
      <4>1. PICK a \in DOMAIN L : L[a].program = p
        BY <2>2, <2>7 DEF CacheIInv, OneOwner
      <4>2. at(a) \in DOMAIN L' /\ L'[at(a)] = L[a]
        BY <2>3, <2>4
      <4> QED
        BY <4>1, <4>2
    <3>6. \A u, v \in Building' : thread'[u].program = thread'[v].program => u = v
      BY <2>7 DEF CacheIInv, OneOwner
    <3> QED
      BY <3>1, <3>2, <3>3, <3>4, <3>5, <3>6 DEF OneOwner
  <2>9. CachedWhole'
    <3> HIDE DEF at
    <3> QED
      BY <2>2, <2>3, <2>4 DEF CacheIInv, CachedWhole
  <2>10. PhaseOf(t)'
    BY <2>5, <2>6 DEF PhaseOf
  <2>11. CachePhases'
    BY <2>2, <2>6, <2>10, OthersKept DEF symVars, CacheIInv, CachePhases, PhaseOf, Building
  <2>12. CacheTypes'
    BY <2>2, <2>3, <2>6 DEF CacheIInv, CacheTypes, symVars
  <2>13. ~ thread[t].packet /\ thread[t].packet = FALSE
    BY <2>2 DEF CacheIInv, CachePhases, PhaseOf, CacheTypes, ThreadRecord
  <2>14. packets' = Cardinality(Holding')
    BY <2>2, <2>5, <2>6, <2>13, HoldingSteps
  <2>15. OneSymbol' /\ lists' = Cardinality(Parsing') + Cardinality(Typed')
    BY <2>2, <2>5, <2>6, NotParsing, SymbolsLeft
  <2> QED
    BY <2>8, <2>9, <2>11, <2>12, <2>14, <2>15 DEF CacheIInv, Accounted
<1>2. CASE CachedAt(k) = {}
  <2> DEFINE r == [Idle EXCEPT !.pc = "search", !.key = k]
  <2>1. thread[t].pc = "idle" /\ thread' = [thread EXCEPT ![t] = r]
        /\ UNCHANGED <<cached_conversion_list, programs, made, packets, symVars>>
    BY <1>2 DEF _pdp_type_find_cached_conversion_program
  <2>2. r \in ThreadRecord /\ r.pc = "search" /\ r.packet = FALSE /\ r.key = k
    BY DEF Idle, ThreadRecord
  <2> HIDE DEF r
  <2>3. thread[t].packet = FALSE /\ packets \in Nat
    BY <2>1, Finite DEF CacheIInv, Accounted, CachePhases, PhaseOf, CacheTypes, ThreadRecord
  <2>4. packets' = packets + (IF r.packet THEN 1 ELSE 0) - (IF thread[t].packet THEN 1 ELSE 0)
    BY <2>1, <2>2, <2>3
  <2> QED
    BY <2>1, <2>2, <2>4, QuietStep
<1> QED
  BY <1>1, <1>2

LEMMA RunStep ==
    ASSUME CacheIInv, NEW t \in Threads, RunCachedMethod(t)
    PROVE  CacheIInv'
<1> DEFINE r == [thread[t] EXCEPT !.ran = @ + 1, !.packet = TRUE,
                     !.pc = IF thread[t].ran + 1 = Rounds[thread[t].key] THEN "result" ELSE "cached"]
<1>1. thread[t] \in ThreadRecord /\ thread[t].pc = "cached" /\ thread[t].key \in Keys /\ packets \in Nat
  BY Finite DEF CacheIInv, Accounted, CachePhases, PhaseOf, CacheTypes, RunCachedMethod
<1>2. thread' = [thread EXCEPT ![t] = r] /\ UNCHANGED <<cached_conversion_list, programs, made, symVars>>
  BY DEF RunCachedMethod, CacheIInv, CacheTypes, ThreadRecord
<1>3. r \in ThreadRecord /\ r.pc \in {"result", "cached"} /\ r.packet = TRUE /\ r.key = thread[t].key
  <2>1. r.pc \in {"result", "cached"} /\ r.packet = TRUE /\ r.key = thread[t].key /\ r.ran = thread[t].ran + 1
        /\ r.name = thread[t].name /\ r.program = thread[t].program
    BY <1>1 DEF ThreadRecord
  <2>2. [thread[t] EXCEPT !.ran = @ + 1, !.pc = IF thread[t].ran + 1 = Rounds[thread[t].key]
                                                THEN "result" ELSE "cached"] \in ThreadRecord
    <3>1. thread[t].ran + 1 \in Nat
      BY <1>1 DEF ThreadRecord
    <3> QED
      BY <1>1, <3>1, SetProgress
  <2>3. r \in ThreadRecord
    BY <1>1, <2>2, SetPacket DEF ThreadRecord
  <2> QED
    BY <2>1, <2>3
<1> HIDE DEF r
<1>4. packets' = packets + (IF r.packet THEN 1 ELSE 0) - (IF thread[t].packet THEN 1 ELSE 0)
  BY <1>1, <1>3 DEF RunCachedMethod, ThreadRecord
<1> QED
  BY <1>1, <1>2, <1>3, <1>4, QuietStep

LEMMA RunFailsStep ==
    ASSUME CacheIInv, NEW t \in Threads, CachedMethodFails(t)
    PROVE  CacheIInv'
<1> DEFINE r == IF thread[t].ran + 1 = Rounds[thread[t].key] THEN Idle ELSE [Idle EXCEPT !.pc = "lost"]
<1>1. thread[t] \in ThreadRecord /\ thread[t].pc = "cached" /\ thread[t].packet \in BOOLEAN /\ packets \in Nat
  BY Finite DEF CacheIInv, Accounted, CacheTypes, CachedMethodFails, ThreadRecord
<1>2. thread' = [thread EXCEPT ![t] = r] /\ UNCHANGED <<cached_conversion_list, programs, made, symVars>>
      /\ packets' = IF thread[t].packet THEN packets - 1 ELSE packets
  BY DEF CachedMethodFails
<1>3. r \in ThreadRecord /\ r.pc \in {"idle", "lost"} /\ r.packet = FALSE
  BY IdleType DEF Idle, ThreadRecord
<1> HIDE DEF r
<1>4. packets' = packets + (IF r.packet THEN 1 ELSE 0) - (IF thread[t].packet THEN 1 ELSE 0)
  BY <1>1, <1>2, <1>3
<1> QED
  BY <1>1, <1>2, <1>3, <1>4, QuietStep

LEMMA NoneStep ==
    ASSUME CacheIInv, NEW t \in Threads, ConvertNone(t)
    PROVE  CacheIInv'
<1>1. thread[t].pc = "search" /\ thread[t].packet = FALSE /\ packets \in Nat
  BY Finite DEF CacheIInv, Accounted, CachePhases, PhaseOf, CacheTypes, ConvertNone, ThreadRecord
<1>2. packets' = packets + (IF Idle.packet THEN 1 ELSE 0) - (IF thread[t].packet THEN 1 ELSE 0)
  BY <1>1, IdleType DEF ConvertNone
<1> QED
  BY <1>1, <1>2, IdleType, QuietStep DEF ConvertNone

LEMMA UnusedStep ==
    ASSUME CacheIInv, NEW t \in Threads, pdp_packet_mark_unused(t)
    PROVE  CacheIInv'
<1>1. thread[t].pc = "result" /\ thread[t].packet = TRUE /\ packets \in Nat
  BY Finite DEF CacheIInv, Accounted, CachePhases, PhaseOf, CacheTypes, pdp_packet_mark_unused, ThreadRecord
<1>2. packets' = packets + (IF Idle.packet THEN 1 ELSE 0) - (IF thread[t].packet THEN 1 ELSE 0)
  BY <1>1, IdleType DEF pdp_packet_mark_unused
<1> QED
  BY <1>1, <1>2, IdleType, QuietStep DEF pdp_packet_mark_unused

(* A thread that builds a program owns one that no other thread and no      *)
(* entry has.                                                               *)
LEMMA FirstStep ==
    ASSUME CacheIInv, NEW t \in Threads, ConvertFirst(t)
    PROVE  CacheIInv'
<1> DEFINE L == cached_conversion_list
           r == [thread[t] EXCEPT !.pc = "loop", !.program = NewProgram, !.ran = 1, !.packet = TRUE]
<1>1. /\ thread[t] \in ThreadRecord /\ thread[t].pc = "search" /\ thread[t].key \in Keys
      /\ thread[t].packet = FALSE /\ packets \in Nat /\ made \in Nat
  BY Finite DEF CacheIInv, Accounted, CachePhases, PhaseOf, CacheTypes, ConvertFirst, ThreadRecord
<1>2. thread' = [thread EXCEPT ![t] = r] /\ UNCHANGED <<L, symVars>> /\ made' = NewProgram
      /\ programs' = Alloc(programs, NewProgram, 1) /\ packets' = packets + 1
  BY DEF ConvertFirst, CacheIInv, CacheTypes, ThreadRecord
<1>3. r \in ThreadRecord /\ r.pc = "loop" /\ r.packet = TRUE /\ r.key = thread[t].key
      /\ r.program = NewProgram /\ r.ran = 1
  <2>1. r.pc = "loop" /\ r.packet = TRUE /\ r.key = thread[t].key /\ r.program = NewProgram /\ r.ran = 1
        /\ r.name = thread[t].name
    BY <1>1 DEF ThreadRecord
  <2>2. [thread[t] EXCEPT !.pc = "loop", !.program = NewProgram, !.ran = 1] \in ThreadRecord
    <3>1. NewProgram \in Nat
      BY <1>1 DEF NewProgram
    <3> QED
      BY <1>1, <3>1, SetProgress
  <2>3. r \in ThreadRecord
    BY <1>1, <2>2, SetPacket DEF ThreadRecord
  <2> QED
    BY <2>1, <2>3
<1> HIDE DEF r
<1>4. thread' \in [Threads -> ThreadRecord] /\ thread'[t] = r /\ \A u \in Threads \ {t} : thread'[u] = thread[u]
  BY <1>2, <1>3, OneThread DEF CacheIInv
<1>5. /\ DOMAIN programs' = DOMAIN programs \cup {NewProgram} /\ programs'[NewProgram] = 1
      /\ NewProgram \notin DOMAIN programs
      /\ \A p \in DOMAIN programs : programs'[p] = programs[p]
  BY <1>1, <1>2 DEF Alloc, NewProgram, CacheIInv, CacheTypes
<1>6. CacheTypes'
  <2>1. programs' \in [DOMAIN programs' -> Nat]
    BY <1>1, <1>2, <1>5 DEF Alloc, CacheIInv, CacheTypes
  <2>2. DOMAIN programs' \subseteq 1 .. made'
    BY <1>1, <1>2, <1>5 DEF NewProgram, CacheIInv, CacheTypes
  <2> QED
    BY <1>1, <1>2, <1>4, <2>1, <2>2 DEF NewProgram, CacheIInv, CacheTypes, symVars
<1>7. PhaseOf(t)'
  BY <1>1, <1>3, <1>4, <1>5 DEF PhaseOf
<1>8. CachePhases'
  BY <1>2, <1>4, <1>5, <1>7, OthersKept DEF symVars, CacheIInv, CachePhases, PhaseOf, Building
<1>9. Building' = Building \cup {t} /\ \A u \in Building : u # t /\ thread'[u] = thread[u]
  BY <1>1, <1>3, <1>4 DEF Building
<1>10. \A u \in Building : thread[u].program \in DOMAIN programs
  BY DEF Building, CacheIInv, CachePhases, PhaseOf
<1>11. OneOwner'
  <2>1. \A u, v \in Building' : thread'[u].program = thread'[v].program => u = v
    BY <1>3, <1>4, <1>5, <1>9, <1>10 DEF CacheIInv, OneOwner
  <2>2. \A i \in DOMAIN L', u \in Building' : L'[i].program # thread'[u].program
    BY <1>2, <1>3, <1>4, <1>5, <1>9 DEF CacheIInv, OneOwner
  <2>3. \A i \in DOMAIN L' : L'[i].program \in DOMAIN programs'
    BY <1>2, <1>5 DEF CacheIInv, OneOwner
  <2>4. \A p \in DOMAIN programs' : \/ \E i \in DOMAIN L' : L'[i].program = p
                                   \/ \E u \in Building' : thread'[u].program = p
    BY <1>2, <1>3, <1>4, <1>5, <1>9 DEF CacheIInv, OneOwner
  <2> QED
    BY <1>2, <2>1, <2>2, <2>3, <2>4 DEF CacheIInv, OneOwner
<1>12. CachedWhole'
  BY <1>2, <1>5 DEF CacheIInv, CachedWhole, OneOwner
<1>13. OneSymbol' /\ lists' = Cardinality(Parsing') + Cardinality(Typed')
  BY <1>1, <1>2, <1>3, <1>4, NotParsing, SymbolsLeft
<1>14. packets' = Cardinality(Holding')
  BY <1>1, <1>2, <1>3, <1>4, HoldingSteps
<1> QED
  BY <1>6, <1>8, <1>11, <1>12, <1>13, <1>14 DEF CacheIInv, Accounted

LEMMA MoreStep ==
    ASSUME CacheIInv, NEW t \in Threads, ConvertMore(t)
    PROVE  CacheIInv'
<1> DEFINE L == cached_conversion_list
           p == thread[t].program
           r == [thread[t] EXCEPT !.ran = @ + 1]
<1>1. /\ thread[t] \in ThreadRecord /\ thread[t].pc = "loop" /\ thread[t].key \in Keys
      /\ thread[t].packet = TRUE /\ packets \in Nat /\ p \in DOMAIN programs /\ programs[p] = thread[t].ran
      /\ t \in Building
  BY Finite DEF CacheIInv, Accounted, CachePhases, PhaseOf, CacheTypes, ConvertMore, ThreadRecord, Building
<1>2. thread' = [thread EXCEPT ![t] = r] /\ UNCHANGED <<L, symVars, made, packets>>
      /\ programs' = [programs EXCEPT ![p] = @ + 1]
  BY DEF ConvertMore, CacheIInv, CacheTypes, ThreadRecord
<1>3. r \in ThreadRecord /\ r.pc = "loop" /\ r.packet = TRUE /\ r.key = thread[t].key
      /\ r.program = p /\ r.ran = thread[t].ran + 1
  BY <1>1 DEF ThreadRecord
<1> HIDE DEF r
<1>4. thread' \in [Threads -> ThreadRecord] /\ thread'[t] = r /\ \A u \in Threads \ {t} : thread'[u] = thread[u]
  BY <1>2, <1>3, OneThread DEF CacheIInv
<1>5. /\ DOMAIN programs' = DOMAIN programs /\ programs'[p] = thread[t].ran + 1
      /\ \A q \in DOMAIN programs \ {p} : programs'[q] = programs[q]
      /\ programs' \in [DOMAIN programs' -> Nat]
  BY <1>1, <1>2 DEF CacheIInv, CacheTypes, ThreadRecord
<1>6. CacheTypes'
  BY <1>2, <1>4, <1>5 DEF CacheIInv, CacheTypes, symVars
<1>7. PhaseOf(t)'
  BY <1>1, <1>3, <1>4, <1>5 DEF PhaseOf
<1>8. \A u \in Building \ {t} : thread[u].program \in DOMAIN programs /\ thread[u].program # p
  BY <1>1 DEF CacheIInv, OneOwner, CachePhases, PhaseOf, Building
<1>9. CachePhases'
  BY <1>2, <1>4, <1>5, <1>7, <1>8, OthersKept DEF symVars
<1>10. Building' = Building /\ \A u \in Building : thread'[u].program = thread[u].program
  BY <1>1, <1>3, <1>4 DEF Building
<1>11. OneOwner'
  BY <1>2, <1>5, <1>10 DEF CacheIInv, OneOwner
<1>12. \A i \in DOMAIN L : L[i].program \in DOMAIN programs \ {p}
  BY <1>1 DEF CacheIInv, OneOwner
<1>13. CachedWhole'
  BY <1>2, <1>5, <1>12 DEF CacheIInv, CachedWhole
<1>14. OneSymbol' /\ lists' = Cardinality(Parsing') + Cardinality(Typed')
  BY <1>1, <1>2, <1>3, <1>4, NotParsing, SymbolsLeft
<1>15. packets' = Cardinality(Holding')
  BY <1>1, <1>2, <1>3, <1>4, HoldingSteps
<1> QED
  BY <1>6, <1>9, <1>11, <1>13, <1>14, <1>15 DEF CacheIInv, Accounted

LEMMA FailsStep ==
    ASSUME CacheIInv, NEW t \in Threads, ConvertFails(t)
    PROVE  CacheIInv'
<1> DEFINE L == cached_conversion_list
           p == thread[t].program
<1>1. /\ thread[t] \in ThreadRecord /\ thread[t].pc = "loop"
      /\ thread[t].packet = TRUE /\ packets \in Nat /\ p \in DOMAIN programs /\ t \in Building
  BY Finite DEF CacheIInv, Accounted, CachePhases, PhaseOf, CacheTypes, ConvertFails, ThreadRecord, Building
<1>2. thread' = [thread EXCEPT ![t] = Idle] /\ UNCHANGED <<L, symVars, made>>
      /\ programs' = Dealloc(programs, p) /\ packets' = packets - 1
  BY DEF ConvertFails
<1>3. thread' \in [Threads -> ThreadRecord] /\ thread'[t] = Idle /\ \A u \in Threads \ {t} : thread'[u] = thread[u]
  BY <1>2, IdleType, OneThread DEF CacheIInv
<1>4. /\ DOMAIN programs' = DOMAIN programs \ {p}
      /\ \A q \in DOMAIN programs \ {p} : programs'[q] = programs[q]
      /\ programs' \in [DOMAIN programs' -> Nat]
  BY <1>1, <1>2 DEF CacheIInv, CacheTypes, Dealloc
<1>5. CacheTypes'
  BY <1>2, <1>3, <1>4 DEF CacheIInv, CacheTypes, symVars
<1>6. PhaseOf(t)'
  BY <1>3, IdleType DEF PhaseOf
<1>7. \A u \in Building \ {t} : thread[u].program \in DOMAIN programs /\ thread[u].program # p
  BY <1>1 DEF CacheIInv, OneOwner, CachePhases, PhaseOf, Building
<1>8. CachePhases'
  BY <1>2, <1>3, <1>4, <1>6, <1>7, OthersKept DEF symVars
<1>9. Building' = Building \ {t} /\ \A u \in Building' : thread'[u].program = thread[u].program
  BY <1>1, <1>3, IdleType DEF Building
<1>10. \A i \in DOMAIN L : L[i].program \in DOMAIN programs \ {p}
  BY <1>1 DEF CacheIInv, OneOwner
<1>11. OneOwner'
  BY <1>2, <1>4, <1>9, <1>10 DEF CacheIInv, OneOwner
<1>12. CachedWhole'
  BY <1>2, <1>4, <1>10 DEF CacheIInv, CachedWhole
<1>13. OneSymbol' /\ lists' = Cardinality(Parsing') + Cardinality(Typed')
  BY <1>1, <1>2, <1>3, IdleType, NotParsing, SymbolsLeft
<1>14. packets' = Cardinality(Holding')
  BY <1>1, <1>2, <1>3, IdleType, HoldingSteps
<1> QED
  BY <1>5, <1>8, <1>11, <1>12, <1>13, <1>14 DEF CacheIInv, Accounted

(* The entries of a program that enters the cache are its own, and the one  *)
(* that leaves takes its program along.                                     *)
LEMMA RegisterStep ==
    ASSUME CacheIInv, NEW t \in Threads, pdp_type_register_cached_conversion(t)
    PROVE  CacheIInv'
<1> DEFINE L == cached_conversion_list
           p == thread[t].program
           new == [key |-> thread[t].key, program |-> p]
           r == [thread[t] EXCEPT !.pc = "result"]
<1>1. /\ thread[t] \in ThreadRecord /\ thread[t].pc = "loop" /\ thread[t].key \in Keys
      /\ thread[t].packet = TRUE /\ packets \in Nat /\ p \in DOMAIN programs
      /\ programs[p] = Rounds[thread[t].key] /\ thread[t].key \in Convertible /\ t \in Building
  BY Finite DEF CacheIInv, Accounted, CachePhases, PhaseOf, CacheTypes, ThreadRecord, Building,
                pdp_type_register_cached_conversion, Register
<1>2. thread' = [thread EXCEPT ![t] = r] /\ UNCHANGED <<symVars, made, packets>>
  BY DEF pdp_type_register_cached_conversion, Register, CacheIInv, CacheTypes, ThreadRecord
<1>3. r \in ThreadRecord /\ r.pc = "result" /\ r.packet = TRUE
  BY <1>1 DEF ThreadRecord
<1> HIDE DEF r
<1>4. thread' \in [Threads -> ThreadRecord] /\ thread'[t] = r /\ \A u \in Threads \ {t} : thread'[u] = thread[u]
  BY <1>2, <1>3, OneThread DEF CacheIInv
<1>5. Building' = Building \ {t} /\ \A u \in Building' : thread'[u].program = thread[u].program
  BY <1>1, <1>3, <1>4 DEF Building
<1>6. \A u \in Building \ {t} : thread[u].program \in DOMAIN programs /\ thread[u].program # p
  BY <1>1 DEF CacheIInv, OneOwner, CachePhases, PhaseOf, Building
<1>7. PhaseOf(t)'
  BY <1>3, <1>4 DEF PhaseOf
<1>8. OneSymbol' /\ lists' = Cardinality(Parsing') + Cardinality(Typed')
  BY <1>1, <1>2, <1>3, <1>4, NotParsing, SymbolsLeft
<1>9. packets' = Cardinality(Holding')
  BY <1>1, <1>2, <1>3, <1>4, HoldingSteps
<1>10. /\ L \in Seq(Entry) /\ Len(L) \in Nat /\ DOMAIN L = 1 .. Len(L) /\ new \in Entry
       /\ max_cache_size \in Nat \ {0} /\ new.program = p /\ new.key = thread[t].key
  BY <1>1, CacheAssumption DEF CacheIInv, CacheTypes, Entry, ThreadRecord
<1>11. CASE Len(L) >= max_cache_size
  <2> DEFINE q == Head(L).program
  <2>1. L' = Append(Tail(L), new) /\ programs' = Dealloc(programs, q)
    BY <1>11 DEF pdp_type_register_cached_conversion, Register
  <2>2. L # <<>> /\ Head(L) = L[1] /\ Tail(L) \in Seq(Entry) /\ Len(Tail(L)) = Len(L) - 1
        /\ \A i \in 1 .. Len(L) - 1 : Tail(L)[i] = L[i + 1]
    BY <1>10, <1>11
  <2>3. L' \in Seq(Entry) /\ Len(L') = Len(L) /\ DOMAIN L' = 1 .. Len(L) /\ L'[Len(L)] = new
        /\ \A i \in 1 .. Len(L) - 1 : L'[i] = L[i + 1]
    <3> HIDE DEF new
    <3> QED
      BY <1>10, <2>1, <2>2
  <2>4. q = L[1].program /\ q \in DOMAIN programs /\ q # p /\ \A i \in 2 .. Len(L) : L[i].program # q
    BY <1>1, <1>10, <1>11, <2>2 DEF CacheIInv, OneOwner
  <2>5. /\ DOMAIN programs' = DOMAIN programs \ {q}
        /\ \A x \in DOMAIN programs \ {q} : programs'[x] = programs[x]
        /\ programs' \in [DOMAIN programs' -> Nat]
    BY <2>1 DEF CacheIInv, CacheTypes, Dealloc
  <2> HIDE DEF new, q
  <2>6. CacheTypes'
    BY <1>2, <1>4, <2>3, <2>5 DEF CacheIInv, CacheTypes, symVars
  <2>7. \A u \in Building : thread[u].program # q
    BY <1>10, <1>11, <2>4 DEF CacheIInv, OneOwner
  <2>8. CachePhases'
    BY <1>2, <1>4, <1>6, <1>7, <2>5, <2>7, OthersKept DEF symVars
  <2>9. \A i \in DOMAIN L' : (i = Len(L) /\ L'[i] = new) \/ (i + 1 \in DOMAIN L /\ L'[i] = L[i + 1])
    BY <1>10, <2>3
  <2>10. \A i \in DOMAIN L : L[i].program # p /\ L[i].program \in DOMAIN programs
    BY <1>1 DEF CacheIInv, OneOwner
  <2>11. OneOwner'
    <3>1. Len(L') <= max_cache_size
      BY <2>3 DEF CacheIInv, OneOwner
    <3>2. \A i, j \in DOMAIN L' : L'[i].program = L'[j].program => i = j
      <4> SUFFICES ASSUME NEW i \in DOMAIN L', NEW j \in DOMAIN L', L'[i].program = L'[j].program PROVE i = j
        OBVIOUS
      <4>1. i \in Nat /\ j \in Nat
        BY <2>3, <1>10
      <4>2. CASE i = Len(L) \/ j = Len(L)
        BY <1>10, <2>3, <2>9, <2>10, <4>1, <4>2
      <4>3. CASE i # Len(L) /\ j # Len(L)
        <5>1. i + 1 \in DOMAIN L /\ j + 1 \in DOMAIN L /\ L[i + 1].program = L[j + 1].program
          BY <2>9, <4>3
        <5>2. i + 1 = j + 1
          BY <5>1 DEF CacheIInv, OneOwner
        <5> QED
          BY <5>2, <4>1
      <4> QED
        BY <4>2, <4>3
    <3>3. \A u, v \in Building' : thread'[u].program = thread'[v].program => u = v
      BY <1>5 DEF CacheIInv, OneOwner
    <3>4. \A i \in DOMAIN L', u \in Building' : L'[i].program # thread'[u].program
      <4> SUFFICES ASSUME NEW i \in DOMAIN L', NEW u \in Building' PROVE L'[i].program # thread'[u].program
        OBVIOUS
      <4>1. u \in Building \ {t} /\ thread'[u].program = thread[u].program
        BY <1>5
      <4> QED
        BY <1>6, <1>10, <2>9, <4>1 DEF CacheIInv, OneOwner
    <3>5. \A i \in DOMAIN L' : L'[i].program \in DOMAIN programs'
      <4> SUFFICES ASSUME NEW i \in DOMAIN L' PROVE L'[i].program \in DOMAIN programs \ {q}
        BY <2>5
      <4>1. CASE i = Len(L) /\ L'[i] = new
        BY <1>1, <1>10, <2>4, <4>1
      <4>2. CASE i + 1 \in DOMAIN L /\ L'[i] = L[i + 1]
        <5>1. i + 1 \in 2 .. Len(L)
          BY <1>10, <2>3, <4>2
        <5> QED
          BY <2>4, <2>10, <4>2, <5>1
      <4> QED
        BY <2>9, <4>1, <4>2
    <3>6. \A x \in DOMAIN programs' : \/ \E i \in DOMAIN L' : L'[i].program = x
                                     \/ \E u \in Building' : thread'[u].program = x
      <4> SUFFICES ASSUME NEW x \in DOMAIN programs \ {q}, ~ \E i \in DOMAIN L' : L'[i].program = x
                   PROVE  \E u \in Building' : thread'[u].program = x
        BY <2>5
      <4>1. x # p
        BY <1>10, <1>11, <2>3
      <4>2. CASE \E u \in Building : thread[u].program = x
        BY <1>5, <4>1, <4>2
      <4>3. CASE \E i \in DOMAIN L : L[i].program = x
        <5>1. PICK i \in DOMAIN L : L[i].program = x
          BY <4>3
        <5>2. i # 1 /\ i - 1 \in 1 .. Len(L) - 1 /\ i - 1 \in DOMAIN L'
          BY <1>10, <2>3, <2>4, <5>1
        <5>3. L'[i - 1] = L[(i - 1) + 1] /\ (i - 1) + 1 = i
          BY <1>10, <2>3, <5>2
        <5> QED
          BY <5>1, <5>2, <5>3
      <4> QED
        BY <4>2, <4>3 DEF CacheIInv, OneOwner
    <3> QED
      BY <3>1, <3>2, <3>3, <3>4, <3>5, <3>6 DEF OneOwner
  <2>12. CachedWhole'
    <3> SUFFICES ASSUME NEW i \in DOMAIN L'
                 PROVE  programs'[L'[i].program] = Rounds[L'[i].key] /\ L'[i].key \in Convertible
      BY DEF CachedWhole
    <3>1. CASE i = Len(L) /\ L'[i] = new
      BY <1>1, <1>10, <2>4, <2>5, <3>1
    <3>2. CASE i + 1 \in DOMAIN L /\ L'[i] = L[i + 1]
      <4>1. i + 1 \in 2 .. Len(L)
        BY <1>10, <2>3, <3>2
      <4>2. L[i + 1].program \in DOMAIN programs \ {q}
        BY <2>4, <2>10, <4>1, <3>2
      <4> QED
        BY <2>5, <3>2, <4>2 DEF CacheIInv, CachedWhole
    <3> QED
      BY <2>9, <3>1, <3>2
  <2> QED
    BY <1>8, <1>9, <2>6, <2>8, <2>11, <2>12 DEF CacheIInv, Accounted
<1>12. CASE Len(L) < max_cache_size
  <2>1. L' = Append(L, new) /\ programs' = programs
    BY <1>10, <1>12 DEF pdp_type_register_cached_conversion, Register
  <2>2. L' \in Seq(Entry) /\ Len(L') = Len(L) + 1 /\ DOMAIN L' = 1 .. Len(L) + 1 /\ L'[Len(L) + 1] = new
        /\ \A i \in 1 .. Len(L) : L'[i] = L[i]
    <3> HIDE DEF new
    <3> QED
      BY <1>10, <2>1
  <2> HIDE DEF new
  <2>3. \A i \in DOMAIN L' : (i = Len(L) + 1 /\ L'[i] = new) \/ (i \in DOMAIN L /\ L'[i] = L[i])
    BY <1>10, <2>2
  <2>4. CacheTypes'
    BY <1>2, <1>4, <2>1, <2>2 DEF CacheIInv, CacheTypes, symVars
  <2>5. CachePhases'
    BY <1>2, <1>4, <1>6, <1>7, <2>1, OthersKept DEF symVars
  <2>6. \A i \in DOMAIN L : L[i].program # p /\ L[i].program \in DOMAIN programs
    BY <1>1 DEF CacheIInv, OneOwner
  <2>7. OneOwner'
    <3>1. Len(L') <= max_cache_size
      BY <1>10, <1>12, <2>2
    <3>2. \A i, j \in DOMAIN L' : L'[i].program = L'[j].program => i = j
      BY <1>10, <2>3, <2>6 DEF CacheIInv, OneOwner
    <3>3. \A u, v \in Building' : thread'[u].program = thread'[v].program => u = v
      BY <1>5 DEF CacheIInv, OneOwner
    <3>4. \A i \in DOMAIN L', u \in Building' : L'[i].program # thread'[u].program
      BY <1>5, <1>6, <1>10, <2>3 DEF CacheIInv, OneOwner
    <3>5. \A i \in DOMAIN L' : L'[i].program \in DOMAIN programs'
      BY <1>1, <1>10, <2>1, <2>3, <2>6
    <3>6. \A x \in DOMAIN programs' : \/ \E i \in DOMAIN L' : L'[i].program = x
                                     \/ \E u \in Building' : thread'[u].program = x
      <4> SUFFICES ASSUME NEW x \in DOMAIN programs, ~ \E i \in DOMAIN L' : L'[i].program = x
                   PROVE  \E u \in Building' : thread'[u].program = x
        BY <2>1
      <4>1. x # p
        BY <1>10, <2>2
      <4>2. ~ \E i \in DOMAIN L : L[i].program = x
        BY <1>10, <2>2
      <4> QED
        BY <1>5, <4>1, <4>2 DEF CacheIInv, OneOwner
    <3> QED
      BY <3>1, <3>2, <3>3, <3>4, <3>5, <3>6 DEF OneOwner
  <2>8. CachedWhole'
    BY <1>1, <1>10, <2>1, <2>3 DEF CacheIInv, CachedWhole
  <2> QED
    BY <1>8, <1>9, <2>4, <2>5, <2>7, <2>8 DEF CacheIInv, Accounted
<1> QED
  BY <1>10, <1>11, <1>12

-----------------------------------------------------------------------------
(* The symbols.  The symbol of a name that is there is the only one. *)
LEMMA SymbolOf ==
    ASSUME CacheIInv, NEW n \in Names, NamedAt(pdp_symhash[Bucket[n]], n) # {}
    PROVE  LET i == First(NamedAt(pdp_symhash[Bucket[n]], n))
           IN  /\ i \in DOMAIN pdp_symhash[Bucket[n]]
               /\ pdp_symhash[Bucket[n]][i].name = n
               /\ pdp_symhash[Bucket[n]][i] \in Symbol
               /\ Sym(n) = pdp_symhash[Bucket[n]][i]
               /\ Sym(n).typed = TRUE <=> n \in Typed
<1> DEFINE c == pdp_symhash[Bucket[n]]
           i == First(NamedAt(c, n))
<1>1. Bucket[n] \in Buckets /\ c \in Seq(Symbol)
  BY DEF CacheIInv, CacheTypes, Buckets
<1>2. i \in NamedAt(c, n)
  <2>1. NamedAt(c, n) \in SUBSET Nat
    BY <1>1 DEF NamedAt
  <2> QED
    BY <2>1, FirstIn
<1>3. Sym(n) = c[i]
  BY DEF Sym
<1> HIDE DEF i
<1>4. i \in DOMAIN c /\ c[i].name = n /\ c[i] \in Symbol
  BY <1>1, <1>2 DEF NamedAt
<1>5. Sym(n).typed = TRUE <=> n \in Typed
  BY <1>1, <1>3, <1>4 DEF Typed, CacheIInv, OneSymbol
<1> QED
  BY <1>3, <1>4, <1>5 DEF i

(* A step of a thread that works on a name leaves the conversions alone. *)
LEMMA ConversionsLeft ==
    ASSUME CacheIInv, NEW t \in Threads, NEW r \in ThreadRecord, thread' = [thread EXCEPT ![t] = r],
           thread[t].pc \in {"idle", "symbol", "parsed"}, r.pc \in {"idle", "symbol", "parsed"},
           r.packet = thread[t].packet,
           pdp_symhash' \in [Buckets -> Seq(Symbol)],
           \A n \in Names : NamedAt(pdp_symhash[Bucket[n]], n) # {} => NamedAt(pdp_symhash'[Bucket[n]], n) # {},
           r.pc # "idle" => r.name \in Names /\ NamedAt(pdp_symhash'[Bucket[r.name]], r.name) # {},
           OneSymbol', lists' = Cardinality(Parsing') + Cardinality(Typed'),
           UNCHANGED <<cached_conversion_list, programs, made, packets>>
    PROVE  CacheIInv'
<1>1. thread' \in [Threads -> ThreadRecord] /\ thread'[t] = r /\ \A u \in Threads \ {t} : thread'[u] = thread[u]
  BY OneThread DEF CacheIInv
<1>2. CacheTypes'
  BY <1>1 DEF CacheIInv, CacheTypes
<1>3. thread[t].packet = FALSE
  BY DEF CacheIInv, CachePhases, PhaseOf, CacheTypes, ThreadRecord
<1>4. PhaseOf(t)'
  BY <1>1, <1>3 DEF PhaseOf
<1>5. \A u \in Building : thread[u].program \in DOMAIN programs
  BY DEF CacheIInv, CachePhases, PhaseOf, Building
<1>6. CachePhases'
  BY <1>1, <1>4, <1>5, OthersKept
<1>7. OneOwner' /\ CachedWhole'
  BY <1>1, NotBuilding, ProgramsLeft
<1>8. packets' = Cardinality(Holding')
  BY <1>1, HoldingSteps
<1> QED
  BY <1>2, <1>6, <1>7, <1>8 DEF CacheIInv, Accounted

LEMMA GensymStep ==
    ASSUME CacheIInv, NEW t \in Threads, NEW n \in Names, _pdp_dogensym(t, n)
    PROVE  CacheIInv'
<1> DEFINE b == Bucket[n]
           c == pdp_symhash[b]
           e == [name |-> n, typed |-> FALSE]
           r == [thread[t] EXCEPT !.pc = "symbol", !.name = n]
<1>1. /\ thread[t].pc = "idle" /\ thread[t] \in ThreadRecord /\ b \in Buckets
      /\ c \in Seq(Symbol) /\ pdp_symhash \in [Buckets -> Seq(Symbol)]
  BY DEF _pdp_dogensym, CacheIInv, CacheTypes, Buckets
<1>2. thread' = [thread EXCEPT ![t] = r]
      /\ UNCHANGED <<cached_conversion_list, programs, made, packets, recent, lists>>
      /\ pdp_symhash' = IF NamedAt(c, n) # {} THEN pdp_symhash ELSE [pdp_symhash EXCEPT ![b] = Append(c, e)]
  BY <1>1 DEF _pdp_dogensym, CacheIInv, CacheTypes, ThreadRecord
<1>3. r \in ThreadRecord /\ r.pc = "symbol" /\ r.packet = thread[t].packet /\ r.name = n
  BY <1>1 DEF ThreadRecord
<1> HIDE DEF r
<1>4. thread' \in [Threads -> ThreadRecord] /\ thread'[t] = r /\ \A u \in Threads \ {t} : thread'[u] = thread[u]
  BY <1>2, <1>3, OneThread DEF CacheIInv
<1>5. Parsing' = Parsing
  BY <1>1, <1>3, <1>4, NotParsing
<1>6. CASE NamedAt(c, n) # {}
  <2>1. pdp_symhash' = pdp_symhash
    BY <1>2, <1>6
  <2>2. OneSymbol' /\ lists' = Cardinality(Parsing') + Cardinality(Typed')
    BY <1>2, <1>5, <2>1, SymbolsLeft DEF symVars
  <2> QED
    BY <1>1, <1>2, <1>3, <1>6, <2>1, <2>2, ConversionsLeft
<1>7. CASE NamedAt(c, n) = {}
  <2>1. pdp_symhash' = [pdp_symhash EXCEPT ![b] = Append(c, e)]
    BY <1>2, <1>7
  <2>2. e \in Symbol /\ e.name = n /\ e.typed = FALSE
    BY Zenon DEF Symbol
  <2> HIDE DEF e
  <2> DEFINE d == Append(c, e)
  <2>3. d \in Seq(Symbol) /\ Len(d) = Len(c) + 1 /\ Len(c) \in Nat /\ DOMAIN d = 1 .. Len(c) + 1
        /\ DOMAIN c = 1 .. Len(c) /\ d[Len(c) + 1] = e /\ \A i \in 1 .. Len(c) : d[i] = c[i]
    BY <1>1, <2>2
  <2>4. pdp_symhash'[b] = d /\ \A a \in Buckets \ {b} : pdp_symhash'[a] = pdp_symhash[a]
    BY <1>1, <2>1
  <2> HIDE DEF d
  <2>5. pdp_symhash' \in [Buckets -> Seq(Symbol)]
    BY <1>1, <2>1, <2>3 DEF d
  <2>6. \A i \in DOMAIN c : c[i].name # n
    BY <1>7 DEF NamedAt
  <2>7. \A i \in DOMAIN d : (i = Len(c) + 1 /\ d[i] = e) \/ (i \in DOMAIN c /\ d[i] = c[i])
    BY <2>3
  <2>8. OneSymbol'
    <3> SUFFICES ASSUME NEW a \in Buckets, NEW i \in DOMAIN pdp_symhash'[a], NEW j \in DOMAIN pdp_symhash'[a],
                        pdp_symhash'[a][i].name = pdp_symhash'[a][j].name
                 PROVE  i = j
      BY DEF OneSymbol, Buckets
    <3>1. CASE a # b
      BY <2>4, <3>1 DEF CacheIInv, OneSymbol
    <3>2. CASE a = b
      BY <1>1, <2>2, <2>4, <2>6, <2>7, <3>2 DEF CacheIInv, OneSymbol
    <3> QED
      BY <3>1, <3>2
  <2>9. Typed' = Typed
    <3> SUFFICES ASSUME NEW m \in Names PROVE m \in Typed' <=> m \in Typed
      BY DEF Typed
    <3>1. Bucket[m] \in Buckets
      BY DEF Buckets
    <3>2. CASE Bucket[m] # b
      BY <2>4, <3>1, <3>2 DEF Typed
    <3>3. CASE Bucket[m] = b
      <4>1. (\E i \in DOMAIN d : d[i].name = m /\ d[i].typed = TRUE) <=> \E i \in DOMAIN c : c[i].name = m /\ c[i].typed = TRUE
        BY <2>2, <2>3, <2>7
      <4> QED
        BY <2>4, <3>3, <4>1 DEF Typed
    <3> QED
      BY <3>2, <3>3
  <2>10. lists' = Cardinality(Parsing') + Cardinality(Typed')
    BY <1>2, <1>5, <2>9 DEF CacheIInv, Accounted
  <2>11. \A m \in Names : NamedAt(pdp_symhash[Bucket[m]], m) # {} => NamedAt(pdp_symhash'[Bucket[m]], m) # {}
    <3> SUFFICES ASSUME NEW m \in Names, NamedAt(pdp_symhash[Bucket[m]], m) # {}
                 PROVE  NamedAt(pdp_symhash'[Bucket[m]], m) # {}
      OBVIOUS
    <3>1. Bucket[m] \in Buckets
      BY DEF Buckets
    <3>2. PICK i \in DOMAIN pdp_symhash[Bucket[m]] : pdp_symhash[Bucket[m]][i].name = m
      BY DEF NamedAt
    <3>3. i \in DOMAIN pdp_symhash'[Bucket[m]] /\ pdp_symhash'[Bucket[m]][i] = pdp_symhash[Bucket[m]][i]
      BY <2>3, <2>4, <3>1, <3>2
    <3> QED
      BY <3>2, <3>3 DEF NamedAt
  <2>12. NamedAt(pdp_symhash'[Bucket[r.name]], r.name) # {}
    <3>1. Len(c) + 1 \in DOMAIN pdp_symhash'[b] /\ pdp_symhash'[b][Len(c) + 1].name = n
      BY <2>2, <2>3, <2>4
    <3> QED
      BY <1>3, <3>1 DEF NamedAt
  <2> QED
    BY <1>1, <1>2, <1>3, <2>5, <2>8, <2>10, <2>11, <2>12, ConversionsLeft
<1> QED
  BY <1>6, <1>7

LEMMA ListStep ==
    ASSUME CacheIInv, NEW t \in Threads, pdp_type_to_list(t)
    PROVE  CacheIInv'
<1>1. /\ thread[t].pc = "symbol" /\ thread[t] \in ThreadRecord /\ thread[t].name \in Names
      /\ NamedAt(pdp_symhash[Bucket[thread[t].name]], thread[t].name) # {}
      /\ pdp_symhash \in [Buckets -> Seq(Symbol)] /\ thread[t].packet = FALSE
  BY DEF pdp_type_to_list, CacheIInv, CacheTypes, CachePhases, PhaseOf, ThreadRecord
<1>2. UNCHANGED <<cached_conversion_list, programs, made, packets, recent, pdp_symhash>>
  BY DEF pdp_type_to_list
<1>3. Typed' = Typed
  BY <1>2 DEF Typed
<1>4. OneSymbol'
  BY <1>2 DEF CacheIInv, OneSymbol
<1>5. CASE Sym(thread[t].name).typed
  <2>1. thread' = [thread EXCEPT ![t] = Idle] /\ UNCHANGED lists
    BY <1>5 DEF pdp_type_to_list
  <2>2. thread'[t] = Idle /\ \A u \in Threads \ {t} : thread'[u] = thread[u]
    BY <2>1, IdleType, OneThread DEF CacheIInv
  <2>3. Parsing' = Parsing
    BY <1>1, <2>2, IdleType, NotParsing
  <2>4. lists' = Cardinality(Parsing') + Cardinality(Typed')
    BY <1>3, <2>1, <2>3 DEF CacheIInv, Accounted
  <2> QED
    BY <1>1, <1>2, <1>4, <2>1, <2>4, IdleType, ConversionsLeft
<1>6. CASE ~ Sym(thread[t].name).typed
  <2> DEFINE r == [thread[t] EXCEPT !.pc = "parsed"]
  <2>1. thread' = [thread EXCEPT ![t] = r] /\ lists' = lists + 1
    BY <1>6 DEF pdp_type_to_list, CacheIInv, CacheTypes, ThreadRecord
  <2>2. r \in ThreadRecord /\ r.pc = "parsed" /\ r.packet = thread[t].packet /\ r.name = thread[t].name
    BY <1>1 DEF ThreadRecord
  <2> HIDE DEF r
  <2>3. thread'[t] = r /\ \A u \in Threads \ {t} : thread'[u] = thread[u]
    BY <2>1, <2>2, OneThread DEF CacheIInv
  <2>4. Parsing' = Parsing \cup {t} /\ t \notin Parsing
    BY <1>1, <2>2, <2>3 DEF Parsing
  <2>5. Cardinality(Parsing') = Cardinality(Parsing) + 1
    BY <2>4, Finite, FS_AddElement
  <2>6. lists' = Cardinality(Parsing') + Cardinality(Typed')
    BY <1>3, <2>1, <2>5, Finite DEF CacheIInv, Accounted
  <2> QED
    BY <1>1, <1>2, <1>4, <2>1, <2>2, <2>6, ConversionsLeft
<1> QED
  BY <1>5, <1>6

LEMMA TypelistStep ==
    ASSUME CacheIInv, NEW t \in Threads, pdp_symbol_set_typelist(t)
    PROVE  CacheIInv'
<1> DEFINE n == thread[t].name
           b == Bucket[n]
           c == pdp_symhash[b]
           i == First(NamedAt(c, n))
<1>1. /\ thread[t].pc = "parsed" /\ thread[t] \in ThreadRecord /\ n \in Names /\ b \in Buckets
      /\ NamedAt(c, n) # {} /\ c \in Seq(Symbol)
      /\ pdp_symhash \in [Buckets -> Seq(Symbol)] /\ thread[t].packet = FALSE
  BY DEF pdp_symbol_set_typelist, CacheIInv, CacheTypes, CachePhases, PhaseOf, ThreadRecord, Buckets
<1>2. UNCHANGED <<cached_conversion_list, programs, made, packets, recent>> /\ thread' = [thread EXCEPT ![t] = Idle]
  BY DEF pdp_symbol_set_typelist
<1>3. thread'[t] = Idle /\ \A u \in Threads \ {t} : thread'[u] = thread[u]
  BY <1>2, IdleType, OneThread DEF CacheIInv
<1>4. Parsing' = Parsing \ {t} /\ t \in Parsing
  BY <1>1, <1>3, IdleType DEF Parsing
<1>5. Cardinality(Parsing') = Cardinality(Parsing) - 1 /\ lists = Cardinality(Parsing) + Cardinality(Typed)
  BY <1>4, Finite, FS_RemoveElement DEF CacheIInv, Accounted
<1>6. i \in DOMAIN c /\ c[i].name = n /\ c[i] \in Symbol /\ Sym(n) = c[i] /\ (Sym(n).typed = TRUE <=> n \in Typed)
  BY <1>1, SymbolOf
<1>7. CASE Sym(n).typed
  <2>1. lists' = lists - 1 /\ pdp_symhash' = pdp_symhash
    BY <1>7 DEF pdp_symbol_set_typelist
  <2>2. Typed' = Typed /\ OneSymbol'
    BY <2>1 DEF Typed, CacheIInv, OneSymbol
  <2>3. lists' = Cardinality(Parsing') + Cardinality(Typed')
    BY <1>5, <2>1, <2>2, Finite
  <2> QED
    BY <1>1, <1>2, <2>1, <2>2, <2>3, IdleType, ConversionsLeft
<1>8. CASE ~ Sym(n).typed
  <2>1. lists' = lists /\ pdp_symhash' = [pdp_symhash EXCEPT ![b][i].typed = TRUE]
    BY <1>8 DEF pdp_symbol_set_typelist
  <2>2. n \notin Typed
    BY <1>6, <1>8
  <2> HIDE DEF i
  <2>3. /\ DOMAIN pdp_symhash'[b] = DOMAIN c
        /\ \A j \in DOMAIN c \ {i} : pdp_symhash'[b][j] = c[j]
        /\ pdp_symhash'[b][i].name = n /\ pdp_symhash'[b][i].typed = TRUE
        /\ \A a \in Buckets \ {b} : pdp_symhash'[a] = pdp_symhash[a]
    BY <1>1, <1>6, <2>1 DEF Symbol
  <2>4. pdp_symhash' \in [Buckets -> Seq(Symbol)]
    <3>1. [c[i] EXCEPT !.typed = TRUE] \in Symbol
      BY <1>6, SetTyped
    <3> DEFINE x == [c[i] EXCEPT !.typed = TRUE]
               d == [c EXCEPT ![i] = x]
    <3>2. pdp_symhash' = [pdp_symhash EXCEPT ![b] = d]
      BY <1>1, <1>6, <2>1
    <3> HIDE DEF x
    <3>3. d \in Seq(Symbol)
      BY <1>1, <1>6, <3>1 DEF x
    <3> HIDE DEF d
    <3> QED
      BY <1>1, <3>2, <3>3
  <2>5. OneSymbol'
    <3> SUFFICES ASSUME NEW a \in Buckets, NEW j \in DOMAIN pdp_symhash'[a], NEW k \in DOMAIN pdp_symhash'[a],
                        pdp_symhash'[a][j].name = pdp_symhash'[a][k].name
                 PROVE  j = k
      BY DEF OneSymbol, Buckets
    <3>1. CASE a # b
      BY <2>3, <3>1 DEF CacheIInv, OneSymbol
    <3>2. CASE a = b
      <4>1. j \in DOMAIN c /\ k \in DOMAIN c /\ c[j].name = c[k].name
        BY <1>6, <2>3, <3>2
      <4> QED
        BY <1>1, <4>1 DEF CacheIInv, OneSymbol
    <3> QED
      BY <3>1, <3>2
  <2>6. Typed' = Typed \cup {n}
    <3> SUFFICES ASSUME NEW m \in Names PROVE m \in Typed' <=> (m \in Typed \/ m = n)
      <4>1. Typed' \subseteq Names /\ Typed \subseteq Names /\ n \in Names
        BY <1>1 DEF Typed
      <4> QED
        BY <4>1
    <3>1. Bucket[m] \in Buckets
      BY DEF Buckets
    <3>2. CASE m = n
      BY <1>6, <2>3, <3>2 DEF Typed
    <3>3. CASE m # n /\ Bucket[m] # b
      BY <2>3, <3>1, <3>3 DEF Typed
    <3>4. CASE m # n /\ Bucket[m] = b
      <4>1. \A j \in DOMAIN c : c[j].name = m => j # i
        BY <1>6, <3>4
      <4>2. \A j \in DOMAIN c : pdp_symhash'[b][j].name = m => j # i
        BY <2>3, <3>4
      <4>3. (\E j \in DOMAIN c : pdp_symhash'[b][j].name = m /\ pdp_symhash'[b][j].typed = TRUE)
              <=> \E j \in DOMAIN c : c[j].name = m /\ c[j].typed = TRUE
        BY <2>3, <4>1, <4>2
      <4>4. m \in Typed' <=> \E j \in DOMAIN c : pdp_symhash'[b][j].name = m /\ pdp_symhash'[b][j].typed = TRUE
        BY <2>3, <3>4, Zenon DEF Typed
      <4>5. m \in Typed <=> \E j \in DOMAIN c : c[j].name = m /\ c[j].typed = TRUE
        BY <3>4, Zenon DEF Typed
      <4> QED
        BY <3>4, <4>3, <4>4, <4>5
    <3> QED
      BY <3>2, <3>3, <3>4
  <2>7. Cardinality(Typed') = Cardinality(Typed) + 1
    BY <2>2, <2>6, Finite, FS_AddElement
  <2>8. lists' = Cardinality(Parsing') + Cardinality(Typed')
    BY <1>5, <2>1, <2>7, Finite
  <2>9. \A m \in Names : NamedAt(pdp_symhash[Bucket[m]], m) # {} => NamedAt(pdp_symhash'[Bucket[m]], m) # {}
    <3> SUFFICES ASSUME NEW m \in Names, NamedAt(pdp_symhash[Bucket[m]], m) # {}
                 PROVE  NamedAt(pdp_symhash'[Bucket[m]], m) # {}
      OBVIOUS
    <3>1. Bucket[m] \in Buckets
      BY DEF Buckets
    <3>2. PICK j \in DOMAIN pdp_symhash[Bucket[m]] : pdp_symhash[Bucket[m]][j].name = m
      BY DEF NamedAt
    <3>3. j \in DOMAIN pdp_symhash'[Bucket[m]] /\ pdp_symhash'[Bucket[m]][j].name = m
      BY <1>6, <2>3, <3>1, <3>2
    <3> QED
      BY <3>3 DEF NamedAt
  <2> QED
    BY <1>1, <1>2, <2>1, <2>4, <2>5, <2>8, <2>9, IdleType, ConversionsLeft
<1> QED
  BY <1>7, <1>8

-----------------------------------------------------------------------------
LEMMA CacheStarts == CacheInit => CacheIInv
<1> SUFFICES ASSUME CacheInit PROVE CacheIInv
  OBVIOUS
<1>1. CacheTypes
  BY IdleType DEF CacheInit, CacheTypes, Entry, Symbol
<1>2. CachePhases
  BY IdleType DEF CacheInit, CachePhases, PhaseOf
<1>3. OneOwner
  BY CacheAssumption, IdleType DEF CacheInit, OneOwner, Building
<1>4. CachedWhole
  BY DEF CacheInit, CachedWhole
<1>5. OneSymbol
  BY DEF CacheInit, OneSymbol
<1>6. Holding = {} /\ Parsing = {} /\ Typed = {}
  BY IdleType DEF CacheInit, Holding, Parsing, Typed, Buckets
<1>7. Accounted
  BY <1>6, FS_EmptySet DEF CacheInit, Accounted
<1> QED
  BY <1>1, <1>2, <1>3, <1>4, <1>5, <1>7 DEF CacheIInv

LEMMA CacheKept == CacheIInv /\ [CacheNext]_cacheVars => CacheIInv'
<1> SUFFICES ASSUME CacheIInv, [CacheNext]_cacheVars PROVE CacheIInv'
  OBVIOUS
<1>1. CASE UNCHANGED cacheVars
  <2>1. CacheTypes' /\ CachePhases'
    BY <1>1 DEF cacheVars, convVars, symVars, CacheIInv, CacheTypes, CachePhases, PhaseOf
  <2>2. OneOwner' /\ CachedWhole' /\ OneSymbol'
    BY <1>1 DEF cacheVars, convVars, symVars, CacheIInv, OneOwner, CachedWhole, OneSymbol, Building
  <2>3. Holding' = Holding /\ Parsing' = Parsing /\ Typed' = Typed
    BY <1>1 DEF cacheVars, convVars, symVars, Holding, Parsing, Typed
  <2>4. Accounted'
    BY <1>1, <2>3 DEF cacheVars, convVars, symVars, CacheIInv, Accounted
  <2> QED
    BY <2>1, <2>2, <2>4 DEF CacheIInv
<1>2. CASE CacheNext
  <2>1. PICK t \in Threads :
          \/ \E k \in Keys : _pdp_type_find_cached_conversion_program(t, k)
          \/ RunCachedMethod(t) \/ CachedMethodFails(t)
          \/ ConvertFirst(t) \/ ConvertNone(t) \/ ConvertMore(t) \/ ConvertFails(t)
          \/ pdp_type_register_cached_conversion(t) \/ pdp_packet_mark_unused(t)
          \/ \E n \in Names : _pdp_dogensym(t, n)
          \/ pdp_type_to_list(t) \/ pdp_symbol_set_typelist(t)
    BY <1>2 DEF CacheNext
  <2> QED
    BY <2>1, FindStep, RunStep, RunFailsStep, FirstStep, NoneStep, MoreStep, FailsStep, RegisterStep, UnusedStep,
       GensymStep, ListStep, TypelistStep
<1> QED
  BY <1>1, <1>2

(* CacheIInv is an invariant of the conversion cache and the symbol table. *)
THEOREM CacheInvariant == CacheSpec => []CacheIInv
BY CacheStarts, CacheKept, PTL DEF CacheSpec

(* A list without repetitions has as many elements as entries. *)
LEMMA CacheCounted ==
    ASSUME CacheIInv
    PROVE  Cardinality(InCache) = Len(cached_conversion_list)
<1> DEFINE L == cached_conversion_list
           f == [i \in 1 .. Len(L) |-> L[i].program]
<1>1. Len(L) \in Nat /\ DOMAIN L = 1 .. Len(L)
  BY DEF CacheIInv, CacheTypes
<1>2. \A i, j \in 1 .. Len(L) : L[i].program = L[j].program => i = j
  BY <1>1 DEF CacheIInv, OneOwner
<1>3. f \in [1 .. Len(L) -> InCache] /\ \A p \in InCache : \E i \in 1 .. Len(L) : f[i] = p
  BY <1>1 DEF InCache
<1>4. f \in Injection(1 .. Len(L), InCache) /\ f \in Surjection(1 .. Len(L), InCache)
  BY <1>2, <1>3 DEF Injection, Surjection, IsInjective
<1>5. ExistsBijection(1 .. Len(L), InCache)
  BY <1>4 DEF ExistsBijection, Bijection
<1> QED
  BY <1>1, <1>5, FS_CountingElements

(* However many threads look up, build, register and evict programs at the  *)
(* same time (_pdp_type_find_cached_conversion_program,                     *)
(* pdp_type_register_cached_conversion), the cache holds whole programs     *)
(* that are its own, and no intermediate packet is lost.                    *)
THEOREM CacheCorrect == CacheSpec => []CacheSound
<1>1. CacheIInv => CacheSound
  <2> SUFFICES ASSUME CacheIInv PROVE CacheSound
    OBVIOUS
  <2>1. ProgramsOwned
    <3>1. DOMAIN programs = InCache \cup {thread[t].program : t \in Building}
      <4>1. \A t \in Building : thread[t].program \in DOMAIN programs
        BY DEF CacheIInv, CachePhases, PhaseOf, Building
      <4>2. \A p \in DOMAIN programs : p \in InCache \/ p \in {thread[t].program : t \in Building}
        BY DEF CacheIInv, OneOwner, InCache
      <4>3. InCache \subseteq DOMAIN programs
        BY DEF CacheIInv, OneOwner, InCache
      <4> QED
        BY <4>1, <4>2, <4>3
    <3>2. InCache \cap {thread[t].program : t \in Building} = {}
      BY DEF CacheIInv, OneOwner, InCache
    <3> QED
      BY <3>1, <3>2, CacheCounted DEF ProgramsOwned, CacheIInv, OneOwner
  <2>2. IntermediatesReleased
    <3>1. Holding = {t \in Threads : thread[t].packet}
      BY DEF Holding, CacheIInv, CacheTypes, ThreadRecord
    <3> QED
      BY <3>1 DEF IntermediatesReleased, CacheIInv, Accounted
  <2> QED
    BY <2>1, <2>2 DEF CacheSound, CacheIInv
<1> QED
  BY <1>1, CacheInvariant, PTL

(* However many threads make a symbol and parse its type list at the same   *)
(* time (_pdp_dogensym, pdp_type_to_list, pdp_symbol_set_typelist), the     *)
(* name has one symbol, and every list but the symbol's is freed.           *)
THEOREM SymbolsCorrect == CacheSpec => []SymbolsUnique
<1>1. CacheIInv => SymbolsUnique
  <2> SUFFICES ASSUME CacheIInv PROVE SymbolsUnique
    OBVIOUS
  <2>1. ASSUME NEW n \in Names
        PROVE  Cardinality(NamedAt(pdp_symhash[Bucket[n]], n)) <= 1
    <3> DEFINE N == NamedAt(pdp_symhash[Bucket[n]], n)
    <3>1. CASE N = {}
      BY <3>1, FS_EmptySet
    <3>2. CASE N # {}
      <4>1. PICK i : i \in N
        BY <3>2
      <4>2. N = {i}
        BY <4>1 DEF NamedAt, CacheIInv, OneSymbol, Buckets
      <4>3. Cardinality(N) = 1
        BY <4>2, FS_Singleton
      <4> QED
        BY <4>3
    <3> QED
      BY <3>1, <3>2
  <2>2. Typed = {n \in Names : NamedAt(pdp_symhash[Bucket[n]], n) # {} /\ Sym(n).typed}
    <3> SUFFICES ASSUME NEW n \in Names
                 PROVE  n \in Typed <=> NamedAt(pdp_symhash[Bucket[n]], n) # {} /\ Sym(n).typed
      BY DEF Typed
    <3>1. CASE NamedAt(pdp_symhash[Bucket[n]], n) = {}
      BY <3>1 DEF Typed, NamedAt
    <3>2. CASE NamedAt(pdp_symhash[Bucket[n]], n) # {}
      <4>1. Sym(n) \in Symbol /\ (Sym(n).typed = TRUE <=> n \in Typed)
        BY <3>2, SymbolOf
      <4>2. Sym(n).typed \in BOOLEAN
        BY <4>1 DEF Symbol
      <4> QED
        BY <3>2, <4>1, <4>2
    <3> QED
      BY <3>1, <3>2
  <2> QED
    BY <2>1, <2>2 DEF SymbolsUnique, CacheIInv, Accounted, Parsing
<1> QED
  BY <1>1, CacheInvariant, PTL
=============================================================================
