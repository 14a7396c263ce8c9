---------------------------------- MODULE SpVar ----------------------------------
(* The variable a rule names with .var() or .param(), from its text to a   *)
(* list of nodes (sp_var_parser.c). A text is a sequence of delimiters and *)
(* characters, of which few are told apart; its places count from 0.       *)
EXTENDS Integers, Sequences, SequencesExt

Delimiters == {"->", "[", "]", "\"", "'", "::"}
Type(d) == CASE d = "->" -> "OBJECT"
             [] d = "[" -> "ARRAY"
             [] d = "]" -> "ARRAY_END"
             [] d = "\"" -> "INTERPRETED_STRING"
             [] d = "'" -> "LITERAL_STRING"
             [] d = "::" -> "CLASS"
Strings == {"INTERPRETED_STRING", "LITERAL_STRING"}

\* The places of the delimiters, found one kind after the other and then sorted.
Tokens(line) == SetToSortSeq({i \in 0..Len(line) - 1 : line[i + 1] \in Delimiters}, <)

\* What REGEXP_VAR and REGEXP_CONST take: "v" stands for the letters.
is_var_name_valid(name) ==
  LET word == IF name # <<>> /\ name[1] = "$" THEN Tail(name) ELSE name
  IN  ToSet(word) \subseteq {"v"} /\ (word = name \/ word # <<>>)

\* The parser: where the text of the next node starts, the open brackets, where
\* the outermost one opened (-1: nowhere), the open quote, the nodes so far.
Start == [pos |-> 0, array_count |-> 0, pos_idx_start |-> -1, quote |-> "UNDEFINED",
          tree |-> <<>>, valid |-> TRUE]
Slice(line, from, len) == SubSeq(line, from + 1, from + len)

\* A token is followed by the next one, or by the end of the text.
is_next_token_empty(line, tokens, i) ==
  IF i < Len(tokens) THEN tokens[i + 1] = tokens[i] + 1 ELSE tokens[i] = Len(line) - 1

is_token_valid(line, tokens, i, p) ==
  LET TypeAt(j) == Type(line[tokens[j] + 1])
      unquoted  == p.quote = "UNDEFINED"
  IN  CASE TypeAt(i) \in Strings -> p.quote = TypeAt(i) => is_next_token_empty(line, tokens, i)
        [] TypeAt(i) = "ARRAY_END" ->
             unquoted => /\ p.array_count > 0
                         /\ IF i < Len(tokens) THEN TypeAt(i + 1) \notin Strings
                            ELSE tokens[i] = Len(line) - 1
        [] TypeAt(i) = "OBJECT" -> /\ ~(unquoted /\ is_next_token_empty(line, tokens, i))
                                   /\ p.pos = 0 => line[1] = "$"
        [] TypeAt(i) = "CLASS" -> ~(unquoted /\ is_next_token_empty(line, tokens, i))
        [] OTHER -> TRUE

\* A quote opens, ends the string it opened, or is part of a string of the other.
Quote(quote, type) == CASE type \notin Strings -> quote
                        [] type \in Strings /\ quote = "UNDEFINED" -> type
                        [] type \in Strings /\ quote = type -> "UNDEFINED"
                        [] OTHER -> quote

\* A node, or a refusal. idx has what sp_parse_var made of the text between
\* brackets: it is empty when that was refused, too.
create_var(p, value, type, idx) ==
  LET kind == IF type = "CONSTANT" /\ value # <<>> /\ value[1] = "$" THEN "VAR" ELSE type
  IN  IF kind # "INTERPRETED_STRING" /\ ~is_var_name_valid(value) THEN [p EXCEPT !.valid = FALSE]
      ELSE [p EXCEPT !.tree = Append(@, [type |-> kind, value |-> value, idx |-> idx])]

Length(p, at, type) == (at - p.pos) - (IF type = "ARRAY" THEN 1 ELSE 0)
                       - (IF p.pos_idx_start > 0 THEN at - p.pos_idx_start ELSE 0)

RECURSIVE sp_parse_var(_)

\* Slip: where the brackets opened is not forgotten.
EndNodeKeepsStart(line, p, at, type) ==
  LET idx == IF p.pos_idx_start > 0 THEN sp_parse_var(Slice(line, p.pos_idx_start, at - p.pos_idx_start))
             ELSE <<>>
  IN  [create_var(p, Slice(line, p.pos, Length(p, at, type)), type, idx) EXCEPT !.pos = at + 1]
\* A token that is outside of quotes and brackets, or closes them, ends a node.
EndNode(line, p, at, type) ==
  LET idx == IF p.pos_idx_start > 0 THEN sp_parse_var(Slice(line, p.pos_idx_start, at - p.pos_idx_start))
             ELSE <<>>
  IN  [create_var(p, Slice(line, p.pos, Length(p, at, type)), type, idx)
         EXCEPT !.pos = at + 1, !.pos_idx_start = -1]

parse_token(line, tokens, i, p) ==
  LET at     == tokens[i]
      type   == Type(line[at + 1])
      string == type \in Strings
      quote  == Quote(p.quote, type)
      opens  == quote = "UNDEFINED" /\ type = "ARRAY"
      closes == quote = "UNDEFINED" /\ type = "ARRAY_END"
      count  == CASE opens -> p.array_count + 1 [] closes -> p.array_count - 1 [] OTHER -> p.array_count
      q == [p EXCEPT
             !.quote = quote, !.array_count = count,
             !.pos = IF string /\ p.quote = "UNDEFINED" /\ p.array_count = 0 THEN @ + 1 ELSE @,
             !.pos_idx_start = IF opens /\ p.array_count = 0 THEN at + 1 ELSE @]
  IN  CASE ~p.valid -> p
        [] p.valid /\ ~is_token_valid(line, tokens, i, p) -> [p EXCEPT !.valid = FALSE]
        [] OTHER -> IF quote # "UNDEFINED" \/ count # 0 THEN q
                    ELSE EndNode(line, q, at, CASE string -> "INTERPRETED_STRING" [] closes -> "ARRAY" [] OTHER -> type)

parse_tokens(line, tokens) ==
  LET p    == FoldLeft(LAMBDA q, i : parse_token(line, tokens, i, q), Start, [i \in 1..Len(tokens) |-> i])
      rest == Slice(line, p.pos, Len(line) - p.pos)
      last == IF p.pos # Len(line) THEN create_var(p, rest, "CONSTANT", <<>>) ELSE p
  IN  IF p.valid /\ p.array_count = 0 /\ p.quote = "UNDEFINED" /\ last.valid THEN <<last.tree>> ELSE <<>>

\* <<tree>>, or <<>> for a text that is refused.
sp_parse_var(line) ==
  LET parsed == parse_tokens(line, Tokens(line))
  IN  IF parsed = <<<<>>>> THEN <<<<[type |-> "CONSTANT", value |-> <<>>, idx |-> <<>>]>>>> ELSE parsed
=============================================================================
