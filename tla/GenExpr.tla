------------------------------ MODULE GenExpr ------------------------------
(****************************************************************************)
(* The expression of a generator node: tokens taken one at a time by the     *)
(* shunting yard of to_rpn, the program it emits checked by stack_depth, and *)
(* the program run on a stack of trees instead of numbers.  "n" is any        *)
(* value, "f" a function of one argument, "g" one of two, "?" an unknown name.*)
(****************************************************************************)
EXTENDS Integers, Sequences, SequencesExt

CONSTANTS Tokens,        \* the tokens the expressions are made of
          MaxTokens      \* bound: the length of an expression

VARIABLES source, out, pending, expectValue, verdict

exprVars == <<source, out, pending, expectValue, verdict>>

Functions == {"f", "g"}                              \* FUNCTIONS
Operators == {"+", "-", "*", "^"}

\* binary: precedence, and whether it groups to the left.
Precedence(op) == CASE op \in {"+", "-"} -> 1 [] op = "*" -> 2 [] op = "^" -> 3
GroupsLeft(op) == op # "^"

\* Whether the pending entry on top is emitted before the operator is pushed.
Yields(top, op) ==
  \/ top \in Operators /\ (Precedence(top) > Precedence(op) \/ (GroupsLeft(op) /\ Precedence(top) = Precedence(op)))
  \/ top = "neg" /\ Precedence(op) < 3
  \/ top \in Functions

\* How many entries from the top give way, and what is left and emitted.
Yielding(op) ==
  LET n == Len(pending)
      stay == {i \in 1..n : ~Yields(pending[i], op)}
  IN  IF stay = {} THEN 0 ELSE CHOOSE i \in stay : \A j \in stay : j <= i

Opens == {i \in DOMAIN pending : pending[i] = "("}
LastOpen == CHOOSE i \in Opens : \A j \in Opens : j <= i
Emitted(from) == Reverse(SubSeq(pending, from, Len(pending)))       \* popped last in, first out

-----------------------------------------------------------------------------
Refuse == verdict' = "error" /\ UNCHANGED <<out, pending, expectValue>>

AValue ==
  IF ~expectValue THEN Refuse
  ELSE /\ out' = Append(out, "n") /\ expectValue' = FALSE
       /\ UNCHANGED <<pending, verdict>>

\* A function's name; whether its bracket follows is seen when the next token comes.
AFunction(name) ==
  IF ~expectValue THEN Refuse
  ELSE pending' = Append(pending, name) /\ UNCHANGED <<out, expectValue, verdict>>

AnOperator(op) ==
  CASE expectValue /\ op = "-" -> pending' = Append(pending, "neg") /\ UNCHANGED <<out, expectValue, verdict>>
    [] expectValue /\ op = "+" -> UNCHANGED <<out, pending, expectValue, verdict>>
    [] expectValue /\ op \notin {"+", "-"} -> Refuse
    [] OTHER -> /\ out' = out \o Emitted(Yielding(op) + 1)
                /\ pending' = Append(SubSeq(pending, 1, Yielding(op)), op)
                /\ expectValue' = TRUE /\ UNCHANGED verdict

AComma ==
  IF expectValue \/ Opens = {} THEN Refuse
  ELSE /\ out' = out \o Emitted(LastOpen + 1)
       /\ pending' = SubSeq(pending, 1, LastOpen)
       /\ expectValue' = TRUE /\ UNCHANGED verdict

AnOpening ==
  IF ~expectValue THEN Refuse
  ELSE pending' = Append(pending, "(") /\ UNCHANGED <<out, expectValue, verdict>>

AClosing ==
  IF expectValue \/ Opens = {} THEN Refuse
  ELSE LET below == SubSeq(pending, 1, LastOpen - 1)
           called == below # <<>> /\ Last(below) \in Functions
       IN  /\ out' = out \o Emitted(LastOpen + 1) \o (IF called THEN <<Last(below)>> ELSE <<>>)
           /\ pending' = IF called THEN Front(below) ELSE below
           /\ expectValue' = FALSE /\ UNCHANGED verdict

\* The code looks one token ahead of a function's name; here the next token tells.
Unopened(token) == source # <<>> /\ Last(source) \in Functions /\ token # "("

Take(token) ==
  /\ verdict = "reading" /\ Len(source) < MaxTokens
  /\ source' = Append(source, token)
  /\ IF Unopened(token) THEN Refuse
     ELSE CASE token = "n" -> AValue
            [] token \in Functions -> AFunction(token)
            [] token \in Operators -> AnOperator(token)
            [] token = "," -> AComma
            [] token = "(" -> AnOpening
            [] token = ")" -> AClosing
            [] OTHER -> Refuse

\* stack_depth: what each operation takes and gives; -1 once a value is missing.
Takes(op) == CASE op = "n" -> 0 [] op \in {"neg", "f"} -> 1 [] OTHER -> 2
DepthAfter(ops) ==
  LET D[i \in 0..Len(ops)] ==
        IF i = 0 THEN 0 ELSE IF D[i - 1] < Takes(ops[i]) THEN -1 ELSE D[i - 1] - Takes(ops[i]) + 1
  IN  [i \in 0..Len(ops) |-> D[i]]

Compiles(ops) ==
  LET d == DepthAfter(ops) IN (\A i \in 0..Len(ops) : d[i] >= 0) /\ d[Len(ops)] = 1

End ==
  /\ verdict = "reading" /\ source # <<>>
  /\ LET ops == out \o Emitted(1)
     IN  /\ verdict' = IF expectValue \/ Opens # {} \/ ~Compiles(ops) THEN "error" ELSE "compiled"
         /\ out' = ops
  /\ pending' = <<>>
  /\ UNCHANGED <<source, expectValue>>

ExprInit == source = <<>> /\ out = <<>> /\ pending = <<>> /\ expectValue = TRUE /\ verdict = "reading"
ExprNext == End \/ \E t \in Tokens : Take(t)

-----------------------------------------------------------------------------
\* eval_into, on trees: a missing value would be "nan".
RECURSIVE Run(_, _)
Run(ops, stack) ==
  IF ops = <<>> THEN stack
  ELSE LET op == Head(ops)
           n == Len(stack)
           Top(k) == IF n - k > 0 THEN stack[n - k] ELSE <<"nan">>
           Below(k) == SubSeq(stack, 1, n - k)
       IN  Run(Tail(ops),
               CASE Takes(op) = 0 -> Append(stack, <<"n">>)
                 [] Takes(op) = 1 -> Append(Below(1), <<op, Top(0)>>)
                 [] Takes(op) = 2 -> Append(Below(2), <<op, Top(1), Top(0)>>))

\* The grammar, by what an expression is: sums of products of signed powers.
RECURSIVE SumOf(_), ProductOf(_), SignedOf(_), PowerOf(_), AtomOf(_)
Before(s, i) == SubSeq(s, 1, i - 1)
After(s, i) == SubSeq(s, i + 1, Len(s))
At(s, ops) == {i \in DOMAIN s : s[i] \in ops}
SumOf(s) == ProductOf(s) \cup UNION {{<<s[i], a, b>> : a \in SumOf(Before(s, i)), b \in ProductOf(After(s, i))} :
                                       i \in At(s, {"+", "-"})}
ProductOf(s) == SignedOf(s) \cup UNION {{<<s[i], a, b>> : a \in ProductOf(Before(s, i)), b \in SignedOf(After(s, i))} :
                                          i \in At(s, {"*"})}
SignedOf(s) ==
  IF s = <<>> THEN {}
  ELSE PowerOf(s) \cup (IF s[1] = "-" THEN {<<"neg", a>> : a \in SignedOf(Tail(s))} ELSE {})
                  \cup (IF s[1] = "+" THEN SignedOf(Tail(s)) ELSE {})
PowerOf(s) == AtomOf(s) \cup UNION {{<<"^", a, b>> : a \in AtomOf(Before(s, i)), b \in SignedOf(After(s, i))} :
                                      i \in At(s, {"^"})}
AtomOf(s) ==
  LET inside == SubSeq(s, 2, Len(s) - 1)
      args == SubSeq(s, 3, Len(s) - 1)
      bracketed == Len(s) > 2 /\ Last(s) = ")"
  IN  CASE s = <<"n">> -> {<<"n">>}
        [] bracketed /\ s[1] = "(" -> SumOf(inside)
        [] bracketed /\ s[1] = "f" /\ s[2] = "(" -> {<<"f", a>> : a \in SumOf(args)}
        [] bracketed /\ s[1] = "g" /\ s[2] = "(" ->
             UNION {{<<"g", a, b>> : a \in SumOf(Before(args, i)), b \in SumOf(After(args, i))} : i \in At(args, {","})}
        [] OTHER -> {}

\* Nothing is waiting once the verdict is in, and what compiles leaves one value.
ExprTypeOK ==
  /\ verdict \in {"reading", "error", "compiled"}
  /\ verdict = "compiled" => Len(Run(out, <<>>)) = 1

\* An expression the grammar reads one way is accepted, and its program computes
\* that reading: precedence, signs and grouping are those of the grammar.
MeansWhatItSays ==
  LET readings == SumOf(source)
  IN  verdict # "reading" /\ readings # {} => verdict = "compiled" /\ readings = {Run(out, <<>>)[1]}
=============================================================================
