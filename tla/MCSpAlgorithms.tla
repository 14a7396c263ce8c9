------------------------------ MODULE MCSpAlgorithms ------------------------------
(* Instances of SpReading, and the variables of rules (SpVar) held against *)
(* what their texts say.                                                   *)
EXTENDS SpReading, SpVar

MCOperands  == 0..2
MCOperators == Binary \ {">=", "<=", ">"}
MCLexemes   == Delimiters \cup {"$", "v"}
MCMasks     == {<<-1>>, <<1, -1>>, <<0, 0, 0, 1>>, <<0, 0, 3>>, <<1, 0>>} \cup {<<n>> : n \in 0..7}

-----------------------------------------------------------------------------
(* What a tree stands for, with one kind of quotes.                         *)

RECURSIVE Text(_), Dropped(_)
Quoted(s) == [i \in 1..Len(s) |-> IF s[i] = "\"" THEN "'" ELSE s[i]]
Node(n) == CASE n.type = "OBJECT" -> n.value \o <<"->">>
             [] n.type = "CLASS" -> n.value \o <<"::">>
             [] n.type = "ARRAY" -> n.value \o <<"[">> \o Text(n.idx[1]) \o <<"]">>
             [] n.type = "INTERPRETED_STRING" -> <<"'">> \o Quoted(n.value) \o <<"'">>
             [] OTHER -> n.value
Text(tree)    == FoldLeft(LAMBDA s, n : s \o Node(n), <<>>, tree)
Dropped(tree) == \E i \in 1..Len(tree) : /\ tree[i].type = "ARRAY"
                                         /\ tree[i].idx = <<>> \/ Dropped(tree[i].idx[1])

\* A quote opens behind a character that is no delimiter.
Opens(s, i) == LET quote == FoldLeft(Quote, "UNDEFINED", [j \in 1..i - 1 |-> IF s[j] \in Delimiters THEN Type(s[j]) ELSE "VAR"])
               IN  s[i] \in {"'", "\""} /\ quote = "UNDEFINED"
Loose(s) == \E i \in 2..Len(s) : Opens(s, i) /\ s[i - 1] \in {"$", "v"}

\* What the parser takes it has read to the last character: no part of the
\* text is lost or read twice (but for an index it could not read, and the
\* character before a quote that stands behind one).
NothingIsLost ==
  kind = "variable" =>
    LET parsed == sp_parse_var(input)
    IN  (parsed # <<>> /\ ~Loose(input)) => Dropped(parsed[1]) \/ Text(parsed[1]) = Quoted(input)

=============================================================================
