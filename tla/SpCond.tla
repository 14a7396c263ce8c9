-------------------------------- MODULE SpCond --------------------------------
(* The value of a @condition of the configuration: the shunting yard of    *)
(* the scanner, one token at a time. A token is <<"num", n>>, or           *)
(* <<op>> for an operator or a parenthesis.                                *)
EXTENDS Integers, Sequences, SequencesExt

CONSTANT MAX_CONDITIONS   \* places on each of the two stacks
ASSUME StacksHavePlaces == MAX_CONDITIONS \in Nat

Binary  == {"==", "||", "&&", "<", ">", "<=", ">="}
Applied == Binary \cup {"!"}

sy_op_precedence(op) ==
  CASE op = "!" -> 120
    [] op \in {"<", ">", "<=", ">="} -> 90
    [] op = "&&" -> 70
    [] op = "||" -> 60
    [] op = "==" -> 20

Truth(b) == IF b THEN 1 ELSE 0

\* a is the operand popped first, the right one.
sy_apply_op(op, a, b) ==
  CASE op = "!"  -> Truth(a = 0)
    [] op = "&&" -> Truth(b # 0 /\ a # 0)
    [] op = "||" -> Truth(b # 0 \/ a # 0)
    [] op = "<"  -> Truth(b < a)
    [] op = "<=" -> Truth(b <= a)
    [] op = ">=" -> Truth(b >= a)
    [] op = ">"  -> Truth(b > a)
    [] op = "==" -> Truth(b = a)

\* The yard: the two stacks, and what the scanner expects or has met.
Empty   == [res |-> <<>>, ops |-> <<>>, at |-> "operand"]
Going(y)       == y.at \in {"operand", "operator"}
Error(y, what) == [y EXCEPT !.at = what]

PushRes(y, v) == IF Len(y.res) >= MAX_CONDITIONS THEN Error(y, "too complex")
                 ELSE [y EXCEPT !.res = Append(@, v), !.at = "operator"]
PushOp(y, op) == IF Len(y.ops) >= MAX_CONDITIONS THEN Error(y, "too complex")
                 ELSE [y EXCEPT !.ops = Append(@, op), !.at = "operand"]

\* SY_APPLY_OP_FROM_STACK
ApplyTop(y) ==
  LET op == Last(y.ops)
      n  == Len(y.res)
      k  == IF op = "!" THEN 1 ELSE 2
  IN  IF n < k THEN Error(y, "not enough input")
      ELSE LET v == sy_apply_op(op, y.res[n], IF k = 1 THEN 0 ELSE y.res[n - 1])
           IN  [y EXCEPT !.ops = Front(@), !.res = Append(SubSeq(@, 1, n - k), v)]

\* Operators are applied from the top of the stack as long as they are some of
\* those, down to the innermost open parenthesis.
Reduce(y, those) ==
  LET Down[i \in 0..Len(y.ops)] ==
        IF i = 0 THEN y
        ELSE LET z == Down[i - 1] IN
             IF Going(z) /\ z.ops # <<>> /\ Last(z.ops) \in those THEN ApplyTop(z) ELSE z
  IN  Down[Len(y.ops)]

\* Slip: of two operators that bind as tightly, the right one goes first.
OperatorRight(y, op) ==
  LET z == Reduce(y, {o \in Applied : sy_op_precedence(o) > sy_op_precedence(op)})
  IN  IF Going(z) THEN PushOp(z, op) ELSE z

\* A binary operator applies those on the stack that bind as tightly: all of
\* them associate to the left.
Operator(y, op) ==
  LET z == Reduce(y, {o \in Applied : sy_op_precedence(o) >= sy_op_precedence(op)})
  IN  IF Going(z) THEN PushOp(z, op) ELSE z

Close(y) ==
  LET z == Reduce(y, Applied)
  IN  CASE ~Going(z) -> z
        [] Going(z) /\ z.ops = <<>> -> Error(z, "unbalanced")
        [] OTHER -> [z EXCEPT !.ops = Front(@)]

Token(y, t) ==
  CASE ~Going(y)                               -> y
    [] y.at = "operand" /\ t[1] = "num"        -> PushRes(y, t[2])
    [] y.at = "operand" /\ t[1] \in {"!", "("} -> PushOp(y, t[1])
    [] y.at = "operator" /\ t[1] \in Binary    -> Operator(y, t[1])
    [] y.at = "operator" /\ t[1] = ")"         -> Close(y)
    [] OTHER                                   -> Error(y, "syntax")

\* The ";" that ends the condition.
Finish(y) ==
  LET z == Reduce(y, Applied)
  IN  CASE ~Going(y)          -> y
        [] y.at = "operand"   -> Error(y, "syntax")
        [] y.at = "operator"  ->
             CASE ~Going(z) -> z
               [] Going(z) /\ z.ops # <<>> -> Error(z, "unbalanced")
               [] OTHER -> Error(z, IF Len(z.res) > 1 THEN "invalid" ELSE "done")

\* The yard after some tokens, and where the scanner ends on the tokens of a
\* condition; when it is "done", res[1] is the value.
Scan(tokens) ==
  LET Upto[i \in 0..Len(tokens)] == IF i = 0 THEN Empty ELSE Token(Upto[i - 1], tokens[i])
  IN  Upto[Len(tokens)]
Condition(tokens) == Finish(Scan(tokens))
=============================================================================
