------------------------------ MODULE ListSpec ------------------------------
(* What the list operations of system/kernel/pdp_list.c promise: a list is  *)
(* a finite sequence of words, a word that is a list owns that list, and an *)
(* operation changes the lists it is given and no others.                   *)
EXTENDS Naturals, Sequences, SequencesExt

CONSTANTS List, Word, NoList

VARIABLE seq      (* the sequence each list holds, or NoList *)

Owned(s, l) == {w.v : w \in {x \in ToSet(s[l]) : x.t = "list"}}

Live(s) == {l \in List : s[l] # NoList}

SpecInit == seq = [l \in List |-> NoList]

(* The operations relate the lists before, s, and after, t. *)
Create(s, t) == \E l \in List \ Live(s) : t = [s EXCEPT ![l] = <<>>]

Drop(s, t) == \E l \in Live(s) :
    t = [k \in List |-> IF k = l \/ k \in Owned(s, l) THEN NoList ELSE s[k]]

Empty(s, t) == \E l \in Live(s) :
    t = [k \in List |-> IF k = l THEN <<>> ELSE IF k \in Owned(s, l) THEN NoList ELSE s[k]]

Insert(s, t) == \E l \in Live(s), w \in Word :
    \/ t = [s EXCEPT ![l] = <<w>> \o @]
    \/ t = [s EXCEPT ![l] = Append(@, w)]

(* The first of the equal words goes. *)
Delete(s, t) == \E l \in Live(s) : \E i \in DOMAIN s[l] :
    /\ \A j \in 1..i - 1 : s[l][j] # s[l][i]
    /\ t = [s EXCEPT ![l] = RemoveAt(@, i)]

(* A copy is a new list, forwards or backwards, whose sublists are new. *)
Duplicate(s, t) == \E l \in Live(s), k \in Live(t) \ Live(s), back \in BOOLEAN :
    LET Turned(x) == IF back THEN Reverse(x) ELSE x
        src == Turned(s[l])
    IN  /\ Len(t[k]) = Len(src)
        /\ \A i \in DOMAIN src :
              /\ t[k][i].t = src[i].t
              /\ IF src[i].t # "list" THEN t[k][i] = src[i]
                 ELSE t[k][i].v \notin Live(s) /\ t[t[k][i].v] = Turned(s[src[i].v])
        /\ \A o \in List \ ({k} \cup Owned(t, k)) : t[o] = s[o]

Concatenate(s, t) == \E l, m \in Live(s) : l # m /\ \E rest \in {s[m], NoList} :
    t = [s EXCEPT ![l] = @ \o s[m], ![m] = rest]

Turn(s, t) == \E l \in Live(s) : t = [s EXCEPT ![l] = Reverse(@)]

SpecNext == \E s \in {seq}, t \in {seq'} :
    \/ Create(s, t) \/ Drop(s, t) \/ Empty(s, t) \/ Insert(s, t) \/ Delete(s, t)
    \/ Duplicate(s, t) \/ Concatenate(s, t) \/ Turn(s, t)

Spec == SpecInit /\ [][SpecNext]_seq
=============================================================================
