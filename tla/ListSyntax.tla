----------------------------- MODULE ListSyntax -----------------------------
(* The reader of lists (system/kernel/pdp_list.c, parser code) and the      *)
(* syntax check of trees.  A text is a sequence of character classes: the   *)
(* two brackets, a blank, a newline, the comment sign, a digit, a letter    *)
(* and the decimal point.  A text, and a list to check, grow one element    *)
(* at a time, so every one within the bounds is read.                       *)
EXTENDS Naturals, Integers, Sequences, FiniteSets, SequencesExt

CONSTANTS MaxText, MaxList

VARIABLES text, tree

synVars == <<text, tree>>

Char == {"(", ")", " ", "nl", "#", "1", "x", "."}

At(s, i) == IF i > Len(s) THEN "end" ELSE s[i]
_is_whitespace(c) == c \in {" ", "nl"}
_is_separator(c) == c \in {"end", "(", ")", " ", "nl"}

RECURSIVE _skip_comment(_, _)
_skip_comment(s, i) ==
    CASE At(s, i) = "end" -> i
      [] At(s, i) = "nl" -> i + 1
      [] OTHER -> _skip_comment(s, i + 1)

(* Blanks and comments, until the position does not move any more. *)
RECURSIVE _skip_whitespace(_, _)
_skip_whitespace(s, i) ==
    CASE _is_whitespace(At(s, i)) -> _skip_whitespace(s, i + 1)
      [] At(s, i) = "#" -> _skip_whitespace(s, _skip_comment(s, i + 1))
      [] OTHER -> i

(* A number is read whole by strtol, or by strtod when there is a point. *)
_parse_pure_atom(w) ==
    LET digits == \A i \in DOMAIN w : w[i] \in {"1", "."}
        points == Cardinality({i \in DOMAIN w : w[i] = "."})
    IN  CASE points = 0 /\ digits -> "int"
          [] points = 1 /\ digits /\ Len(w) > 1 -> "float"
          [] OTHER -> "symbol"

RECURSIVE AtomEnd(_, _)
AtomEnd(s, i) == IF _is_separator(At(s, i)) THEN i ELSE AtomEnd(s, i + 1)

RECURSIVE pdp_atom_from_cstring(_, _), ReadAtoms(_, _, _), pdp_tree_from_cstring(_, _),
          ReadFreesHead(_, _, _)

(* Result: the atom if there is one, the next position, and the lists and atoms     *)
(* that were allocated and not freed.                                       *)
pdp_atom_from_cstring(s, i0) ==
    LET i == _skip_whitespace(s, i0)
        e == AtomEnd(s, i)
    IN  CASE At(s, i) \in {"end", ")"} -> [ok |-> FALSE, next |-> i, live |-> 0]
          [] At(s, i) = "(" ->
               LET r == pdp_tree_from_cstring(s, i)
               IN  [r EXCEPT !.live = @ + IF ~r.ok THEN 0 ELSE 1]
          [] OTHER -> [ok |-> TRUE, a |-> _parse_pure_atom(SubSeq(s, i, e - 1)), next |-> e, live |-> 1]

(* Mutant: the sublists are not freed. *)
ReadFreesHead(s, i, acc) ==
    LET r == pdp_atom_from_cstring(s, i)
        e == _skip_whitespace(s, r.next)
    IN  IF r.ok THEN ReadFreesHead(s, r.next, [a |-> Append(acc.a, r.a), live |-> acc.live + r.live])
        ELSE IF At(s, e) = ")" THEN [ok |-> TRUE, a |-> acc.a, next |-> e + 1, live |-> acc.live + r.live]
        ELSE [ok |-> FALSE, next |-> e, live |-> acc.live + r.live - 1]
(* Atoms are read until there is none, an unreadable sublist included; then *)
(* the bracket must follow, or the tree with all its sublists is freed.     *)
ReadAtoms(s, i, acc) ==
    LET r == pdp_atom_from_cstring(s, i)
        e == _skip_whitespace(s, r.next)
    IN  IF r.ok THEN ReadAtoms(s, r.next, [a |-> Append(acc.a, r.a), live |-> acc.live + r.live])
        ELSE IF At(s, e) = ")" THEN [ok |-> TRUE, a |-> acc.a, next |-> e + 1, live |-> acc.live + r.live]
        ELSE [ok |-> FALSE, next |-> e, live |-> r.live]

pdp_tree_from_cstring(s, i0) ==
    LET i == _skip_whitespace(s, i0)
    IN  IF At(s, i) # "(" THEN [ok |-> FALSE, next |-> i, live |-> 0]
        ELSE ReadAtoms(s, i + 1, [a |-> <<>>, live |-> 1])

--------------------------------------------------------------------------------
(* Syntax: types by name, a wildcard, sublists, and an ellipsis that goes   *)
(* back to the first element.                                               *)
RECURSIVE pdp_tree_check_syntax(_, _), CheckFrom(_, _, _, _)

ElementMatches(la, sa) ==
    IF sa.t = "list" THEN la.t = "list" /\ pdp_tree_check_syntax(la.v, sa.v)
    ELSE sa.v = "*" \/ sa.v = la.t

(* la is the i-th atom of the list and sa the j-th of the syntax. *)
CheckFrom(l, i, syn, j) ==
    IF i > Len(l) THEN j > Len(syn) \/ syn[j].v = "..."
    ELSE IF j > Len(syn) THEN FALSE
    ELSE IF syn[j].v = "..." THEN j # 1 /\ CheckFrom(l, i, syn, 1)
    ELSE ElementMatches(l[i], syn[j]) /\ CheckFrom(l, i + 1, syn, j + 1)

pdp_tree_check_syntax(l, syn) ==
    IF l = <<>> THEN syn = <<>> \/ syn[Len(syn)].v = "..."
    ELSE CheckFrom(l, 1, syn, 1)

--------------------------------------------------------------------------------
Leaf(t) == [t |-> t, v |-> "value"]
Sub(s) == [t |-> "list", v |-> s]
Atoms == {Leaf("int"), Leaf("float"), Sub(<<>>), Sub(<<Leaf("int")>>)}
Name(n) == [t |-> "symbol", v |-> n]
Syntaxes == UNION {{<<>>, <<Name("int")>>, <<Name("..."), Name("int")>>, <<Name("*"), Name("float")>>,
                    <<Name("int"), Name("...")>>, <<Name("int"), Name("float"), Name("...")>>,
                    <<Sub(<<Name("int"), Name("...")>>), Name("...")>>,
                    <<Name("*"), Name("list"), Name("*")>>}}

SynInit == text = <<>> /\ tree = <<>>
ReadChar == tree = <<>> /\ Len(text) < MaxText /\ \E c \in Char :
    text' = Append(text, c) /\ UNCHANGED tree
Grow == text = <<>> /\ Len(tree) < MaxList /\ \E a \in Atoms :
    tree' = Append(tree, a) /\ UNCHANGED text
SynNext == ReadChar \/ Grow

(* Reference: one scan of the text that counts brackets outside comments.   *)
(* A comment starts only where no atom is being read.                       *)
Scan ==
    LET Step(st, c) ==
          IF st.mode = "comment" THEN [st EXCEPT !.mode = IF c = "nl" THEN "blank" ELSE "comment"]
          ELSE IF st.mode = "done" THEN st
          ELSE IF c = "#" /\ st.mode = "blank" THEN [st EXCEPT !.mode = "comment"]
          ELSE IF c = "(" THEN [mode |-> "blank", depth |-> st.depth + 1]
          ELSE IF c = ")" THEN [mode |-> IF st.depth <= 1 THEN "done" ELSE "blank", depth |-> st.depth - 1]
          ELSE IF _is_whitespace(c) THEN [st EXCEPT !.mode = "blank"]
          ELSE IF st.depth = 0 THEN [mode |-> "done", depth |-> -1]
          ELSE [st EXCEPT !.mode = "atom"]
    IN  FoldLeft(Step, [mode |-> "blank", depth |-> 0], text)

(* The recursive reader accepts exactly the texts that start with a closed  *)
(* bracket, however brackets, comments and the end of the text meet.        *)
ReaderBrackets ==
    (pdp_tree_from_cstring(text, 1).ok) <=> Scan.mode = "done" /\ Scan.depth = 0

(* A text that is refused leaves no atom or list behind: the error path     *)
(* frees what was read, sublists included.                                  *)
ReaderFreesAll ==
    LET r == pdp_tree_from_cstring(text, 1) IN ~r.ok => r.live = 0

(* Reference: the ellipsis repeats the whole syntax before it. *)
RECURSIVE SyntaxFits(_, _)
SyntaxFits(l, syn) ==
    LET OneFits(a, s) == IF s.t = "list" THEN a.t = "list" /\ SyntaxFits(a.v, s.v)
                         ELSE s.v \in {"*", a.t}
        m == Len(syn) - 1
    IN  IF syn # <<>> /\ syn[Len(syn)].v = "..."
        THEN /\ m = 0 => l = <<>>
             /\ m > 0 => Len(l) % m = 0 /\ \A i \in DOMAIN l : OneFits(l[i], syn[((i - 1) % m) + 1])
        ELSE Len(l) = Len(syn) /\ \A i \in DOMAIN l : OneFits(l[i], syn[i])

(* The syntax check agrees with the repetition it documents, wherever the   *)
(* end of the list meets the ellipsis (the rewind of check_syntax).         *)
SyntaxRepeats == \A syn \in Syntaxes :
    (syn = <<>> \/ syn[1].v # "...") => (pdp_tree_check_syntax(tree, syn) <=> SyntaxFits(tree, syn))

(* The reader takes what has matching brackets and frees all it made when   *)
(* it gives up, and the syntax check agrees with the repetition that it     *)
(* documents.                                                               *)
ReaderSound == ReaderBrackets /\ ReaderFreesAll /\ SyntaxRepeats
=============================================================================
