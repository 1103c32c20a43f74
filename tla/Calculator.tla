---- MODULE Calculator ----
(***************************************************************************)
(* The calculator of typed search: what it takes a line of arithmetic to   *)
(* mean.  A line is a sequence of tokens, one of each class that the       *)
(* parser tells apart, with spaces between them; what it means is the      *)
(* order in which the operations are applied, written after their          *)
(* operands.  The values themselves, the words and signs normalize_math    *)
(* replaces, and errors of arithmetic are left out.                        *)
(***************************************************************************)
EXTENDS Integers, Sequences, FiniteSets, SequencesExt, FiniteSetsExt

CONSTANTS
    Tokens,     \* of "2", "e", "pi", "f", "-", "*", "^", "!", "%", "(", ")"
    MaxTokens,  \* bound: the length of a line
    AllowBare   \* whether a bare number is to be evaluated, too

VARIABLES
    line,       \* what is typed
    meaning     \* what evaluate_arithmetic made of it, or NoValue

calcVars == <<line, meaning>>

NoValue == <<>>

CalcTypeOK == line \in Seq(Tokens) /\ meaning \in Seq({"2", "e", "pi", "f", "-", "*", "^", "!", "%", "mod", "neg"})

Operators == {"-", "*", "^", "!", "%"}
Identifiers == {"e", "pi", "f"}

(***************************************************************************)
(* The parser: each parse_ function goes from a position to the value it   *)
(* read and the position behind it, or fails.                              *)
(***************************************************************************)
Fail == [value |-> NoValue, at |-> 0]
Read(value, at) == [value |-> value, at |-> at]
Failed(r) == r.value = NoValue

Peek(s, i) == IF i \in DOMAIN s THEN s[i] ELSE "end"

IsImplicitFactor(s, i) == Peek(s, i) \in {"(", "pi", "f"}
IsBinaryModulo(s, i) == Peek(s, i) = "%" /\ Peek(s, i + 1) = "2"

PostfixFact(s, r) == IF Peek(s, r.at) = "!" THEN Read(Append(r.value, "!"), r.at + 1) ELSE r

PostfixPercent(s, r) ==
    IF Peek(s, r.at) = "%" /\ ~IsBinaryModulo(s, r.at) THEN Read(Append(r.value, "%"), r.at + 1) ELSE r

FinishValue(s, r) == PostfixPercent(s, PostfixFact(s, r))

RECURSIVE ParseExpression(_, _), ParseSum(_, _), ParseTerm(_, _), ParseProduct(_, _), ParseUnary(_, _)

ParseParentheses(s, i) ==
    LET inner == ParseExpression(s, i + 1)
    IN  IF Failed(inner) \/ Peek(s, inner.at) # ")" THEN Fail ELSE Read(inner.value, inner.at + 1)

ApplyFunc(s, r) == IF Failed(r) THEN Fail ELSE FinishValue(s, Read(Append(r.value, "f"), r.at))

ParsePrimary(s, i) ==
    LET token == Peek(s, i)
        inner == ParseParentheses(s, i)
    IN  CASE token = "(" -> IF Failed(inner) THEN Fail ELSE FinishValue(s, inner)
          [] token = "f" -> ApplyFunc(s, IF Peek(s, i + 1) = "(" THEN ParseParentheses(s, i + 1)
                                         ELSE ParseUnary(s, i + 1))
          [] token \in {"e", "pi", "2"} -> FinishValue(s, Read(<<token>>, i + 1))
          [] OTHER -> Fail

(* Mutant: a power binds to the left. *)
ParsePowerLeft(s, i) ==
    LET base == ParsePrimary(s, i)
        exponent == ParsePrimary(s, base.at + 1)
    IN  CASE Failed(base) -> Fail
          [] ~Failed(base) /\ Peek(s, base.at) # "^" -> base
          [] OTHER -> IF Failed(exponent) THEN Fail
                      ELSE Read(base.value \o exponent.value \o <<"^">>, exponent.at)
ParsePower(s, i) ==
    LET base == ParsePrimary(s, i)
        exponent == ParseUnary(s, base.at + 1)
    IN  CASE Failed(base) -> Fail
          [] ~Failed(base) /\ Peek(s, base.at) # "^" -> base
          [] OTHER -> IF Failed(exponent) THEN Fail
                      ELSE Read(base.value \o exponent.value \o <<"^">>, exponent.at)

ParseUnary(s, i) ==
    LET operand == ParseUnary(s, i + 1)
    IN  IF Peek(s, i) # "-" THEN ParsePower(s, i)
        ELSE IF Failed(operand) THEN Fail ELSE Read(Append(operand.value, "neg"), operand.at)

(* The loops of parse_term and parse_expression, from the operand read so far. *)
ParseProduct(s, left) ==
    LET implicit == IsImplicitFactor(s, left.at)
        operation == IF Peek(s, left.at) = "%" THEN "mod" ELSE "*"
        right == ParseUnary(s, IF implicit THEN left.at ELSE left.at + 1)
    IN  IF ~implicit /\ Peek(s, left.at) \notin {"*", "%"} THEN left
        ELSE IF Failed(right) THEN Fail
        ELSE ParseProduct(s, Read(left.value \o right.value \o <<operation>>, right.at))

ParseTerm(s, i) == LET first == ParseUnary(s, i) IN IF Failed(first) THEN Fail ELSE ParseProduct(s, first)

ParseSum(s, left) ==
    LET right == ParseTerm(s, left.at + 1)
    IN  IF Peek(s, left.at) # "-" THEN left
        ELSE IF Failed(right) THEN Fail
        ELSE ParseSum(s, Read(left.value \o right.value \o <<"-">>, right.at))

ParseExpression(s, i) == LET first == ParseTerm(s, i) IN IF Failed(first) THEN Fail ELSE ParseSum(s, first)

HasEvaluableValue(s) ==
    \/ {"2", "pi"} \cap Range(s) # {}
    \/ "e" \in Range(s) /\ (AllowBare \/ (Operators \cup {"(", ")"}) \cap Range(s) # {})

LooksLikeMath(s) == AllowBare \/ (Operators \cup Identifiers) \cap Range(s) # {}

EvaluateArithmetic(s) ==
    LET all == ParseExpression(s, 1)
    IN  IF HasEvaluableValue(s) /\ LooksLikeMath(s) /\ ~Failed(all) /\ all.at = Len(s) + 1
        THEN all.value ELSE NoValue

TypeToken(t) ==
    /\ Len(line) < MaxTokens
    /\ line' = Append(line, t)
    /\ meaning' = EvaluateArithmetic(line')

CalcInit == line = <<>> /\ meaning = NoValue

CalcNext == \E t \in Tokens : TypeToken(t)

CalcSpec == CalcInit /\ [][CalcNext]_calcVars

(***************************************************************************)
(* How arithmetic is read, by what is applied last: the rightmost minus    *)
(* between two operands, else the rightmost product, else a sign in front, *)
(* else the leftmost power, else what is written behind an operand, once   *)
(* each, and a name in front of one.  Within parentheses nothing counts.   *)
(***************************************************************************)
Depth(s, i) ==
    Cardinality({j \in 1 .. i - 1 : s[j] = "("}) - Cardinality({j \in 1 .. i : s[j] = ")"})

Modulo(s, i) == s[i] = "%" /\ (Peek(s, i + 1) = "2" \/ Peek(s, i - 1) = "%")
EndsOperand(s, i) == i > 0 /\ (s[i] \in {"2", "e", "pi", ")", "!"} \/ (s[i] = "%" /\ ~Modulo(s, i)))

Open(s, i) == Depth(s, i) = 0
Sums(s) == {i \in DOMAIN s : s[i] = "-" /\ Open(s, i) /\ EndsOperand(s, i - 1)}
Products(s) == {i \in DOMAIN s : Open(s, i) /\ EndsOperand(s, i - 1)
                                 /\ (s[i] \in {"*", "(", "pi", "f"} \/ Modulo(s, i))}
Powers(s) == {i \in DOMAIN s : s[i] = "^" /\ Open(s, i)}
InParentheses(s) == s # <<>> /\ s[1] = "(" /\ Last(s) = ")" /\ \A i \in 2 .. Len(s) - 1 : Depth(s, i) > 0

RECURSIVE Reading(_)

Both(left, right, operation) ==
    LET a == Reading(left)
        b == Reading(right)
    IN  IF a = NoValue \/ b = NoValue THEN NoValue ELSE a \o b \o <<operation>>

After(operand, operation) == LET a == Reading(operand) IN IF a = NoValue THEN a ELSE Append(a, operation)

BothAt(s, i, operation) == Both(SubSeq(s, 1, i - 1), SubSeq(s, i + 1, Len(s)), operation)

Behind == {"!", "%"}
NamesFirst(s) == s[1] = "f" /\ Peek(s, 2) # "("

(* A line without a sum or a product outside parentheses. *)
Factor(s) ==
    CASE s[1] = "-" -> After(Tail(s), "neg")
      [] NamesFirst(s) -> After(Tail(s), "f")
      [] s[1] # "-" /\ ~NamesFirst(s) /\ Powers(s) # {} -> BothAt(s, Min(Powers(s)), "^")
      [] OTHER ->
            CASE Last(s) \in Behind ->
                    IF Peek(s, Len(s) - 1) \in {"%", Last(s)} THEN NoValue ELSE After(Front(s), Last(s))
              [] InParentheses(s) -> Reading(SubSeq(s, 2, Len(s) - 1))
              [] s[1] = "f" /\ InParentheses(Tail(s)) -> After(SubSeq(s, 3, Len(s) - 1), "f")
              [] OTHER -> IF Len(s) = 1 /\ s[1] \in {"2", "e", "pi"} THEN s ELSE NoValue

Reading(s) ==
    LET sums == Sums(s)
        products == Products(s)
        last == Max(products)
    IN  CASE s = <<>> -> NoValue
          [] sums # {} -> BothAt(s, Max(sums), "-")
          [] s # <<>> /\ sums = {} /\ products = {} -> Factor(s)
          [] OTHER -> CASE s[last] = "*" -> BothAt(s, last, "*")
                        [] s[last] = "%" -> BothAt(s, last, "mod")
                        [] OTHER -> Both(SubSeq(s, 1, last - 1), SubSeq(s, last, Len(s)), "*")

(***************************************************************************)
(* A line is read as arithmetic is read, and one that cannot be read has   *)
(* no answer (evaluate_arithmetic); left open is what several signs in a   *)
(* row belong to after a name.                                             *)
(***************************************************************************)
SignsInARow(s) == \E i \in 1 .. Len(s) - 1 : {s[i], s[i + 1]} \subseteq Behind

ReadAsWritten ==
    \/ "f" \in Range(line) /\ SignsInARow(line)
    \/ meaning = (IF HasEvaluableValue(line) /\ LooksLikeMath(line) THEN Reading(line) ELSE NoValue)
====
