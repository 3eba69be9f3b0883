------------------------------ MODULE QueryDsl ------------------------------
(***************************************************************************)
(* The boolean query language (refmatrix/query.py): _Parser, a recursive   *)
(* descent over tokens, and QueryEngine._eval.  Parsing changes no state   *)
(* and evaluation follows the tree, so a node is evaluated here when it is *)
(* built.  `stack' is the pending calls that hold something: an operator   *)
(* with its left operand, a NOT, an open parenthesis; `level' is the       *)
(* method that has just returned `value'.  An action is a method's next    *)
(* step.                                                                   *)
(***************************************************************************)
EXTENDS Naturals, Sequences

CONSTANTS Term,       \* terms of a query
          Entity,
          Universe,   \* the entities of the partition
          Row,        \* of a term, the union of its rows
          MaxTokens   \* bound: tokens of a query

ASSUME DslAssumption ==
    /\ Universe \subseteq Entity /\ Row \in [Term -> SUBSET Entity]
    /\ Term \cap {"(", ")", "and", "or", "not", "end"} = {}
    /\ MaxTokens \in Nat

Token == Term \cup {"(", ")", "and", "or", "not"}
Call  == [kind : {"(", "and", "or", "not"}, left : SUBSET Entity]

VARIABLES toks, pos,
          stack,
          level,   \* "start" before an operand
          value

dslVars == <<toks, pos, stack, level, value>>

DslTypeOK ==
    /\ toks \in Seq(Token) /\ pos \in 1..Len(toks)+1
    /\ stack \in Seq(Call)
    /\ level \in {"start", "atom", "not", "and", "or", "done", "error"}
    /\ value \subseteq Entity

DslInit ==
    /\ \E n \in 0..MaxTokens : toks \in [1..n -> Token]
    /\ pos = 1 /\ stack = <<>> /\ level = "start" /\ value = {}

-----------------------------------------------------------------------------
Peek == IF pos <= Len(toks) THEN toks[pos] ELSE "end"
Top  == IF stack = <<>> THEN "bottom" ELSE stack[Len(stack)].kind
Left == stack[Len(stack)].left
Pop  == stack' = SubSeq(stack, 1, Len(stack) - 1)

Push(kind, left) ==
    /\ stack' = Append(stack, [kind |-> kind, left |-> left])
    /\ pos' = pos + 1
    /\ level' = "start" /\ value' = {}

Returns(l, v) == level' = l /\ value' = v
Fails == /\ Returns("error", {})
         /\ UNCHANGED <<toks, pos, stack>>

-----------------------------------------------------------------------------
\* _not, at its first token.
TakeNot ==
    /\ level = "start" /\ Peek = "not" /\ Top # "not"
    /\ Push("not", {})
    /\ UNCHANGED toks

\* _atom.
TakeTerm ==
    /\ level = "start" /\ Peek \in Term
    /\ pos' = pos + 1
    /\ Returns("atom", Row[Peek])
    /\ UNCHANGED <<toks, stack>>

OpenParen ==
    /\ level = "start" /\ Peek = "("
    /\ Push("(", {})
    /\ UNCHANGED toks

\* What an atom cannot begin with, a second NOT and the end of input included.
NoAtom ==
    /\ level = "start"
    /\ Peek \in {")", "and", "or", "end"} \/ (Peek = "not" /\ Top = "not")
    /\ Fails

\* _not returns: the operand's complement within the partition.
ReturnNot ==
    /\ level = "atom"
    /\ IF Top = "not" THEN Pop /\ Returns("not", Universe \ value)
       ELSE UNCHANGED stack /\ Returns("not", value)
    /\ UNCHANGED <<toks, pos>>

\* _and has an operand: it joins it to the one on its left, ...
JoinAnd ==
    /\ level = "not"
    /\ IF Top = "and" THEN Pop /\ Returns("and", Left \cap value)
       ELSE UNCHANGED stack /\ Returns("and", value)
    /\ UNCHANGED <<toks, pos>>

\* ... and goes on for as long as an AND follows.
TakeAnd ==
    /\ level = "and" /\ Peek = "and"
    /\ Push("and", value)
    /\ UNCHANGED toks

JoinOr ==
    /\ level = "and" /\ Peek # "and"
    /\ IF Top = "or" THEN Pop /\ Returns("or", Left \cup value)
       ELSE UNCHANGED stack /\ Returns("or", value)
    /\ UNCHANGED <<toks, pos>>

TakeOr ==
    /\ level = "or" /\ Peek = "or"
    /\ Push("or", value)
    /\ UNCHANGED toks

\* Mutated form: what follows the operand of a parenthesis is taken for its end.
CloseParen_Unchecked ==
    /\ level = "or" /\ Peek # "or" /\ Top = "("
    /\ Pop /\ pos' = pos + 1 /\ Returns("atom", value)
    /\ UNCHANGED toks

\* _atom again, behind a parenthesis.
CloseParen ==
    /\ level = "or" /\ Peek # "or" /\ Top = "("
    /\ IF Peek = ")" THEN Pop /\ pos' = pos + 1 /\ Returns("atom", value) /\ UNCHANGED toks
       ELSE Fails

\* Mutated form: parse ignores tokens that are left.
End_Trailing ==
    /\ level = "or" /\ Peek # "or" /\ Top = "bottom"
    /\ Returns("done", value)
    /\ UNCHANGED <<toks, pos, stack>>

\* parse: nothing may be left.
End ==
    /\ level = "or" /\ Peek # "or" /\ Top = "bottom"
    /\ IF Peek = "end" THEN Returns("done", value) /\ UNCHANGED <<toks, pos, stack>>
       ELSE Fails

DslNext == \/ TakeNot \/ TakeTerm \/ OpenParen \/ NoAtom \/ ReturnNot \/ JoinAnd \/ TakeAnd
           \/ JoinOr \/ TakeOr \/ CloseParen \/ End
DslSpec == DslInit /\ [][DslNext]_dslVars

-----------------------------------------------------------------------------
(* The grammar of the docstring: or := and (OR and)*; and := not (AND not)*; *)
(* not := NOT? atom; atom := TERM | (or).                                    *)

Rule     == {"atom", "not", "and", "or"}
Place    == DOMAIN toks
Phrase   == Rule \X Place \X Place
When(c, S) == IF c THEN S ELSE {}
Signs(t, a, b) == {k \in a+1..b-1 : toks[k] = t}

\* What the tokens from a to b mean by rule r, when D says what shorter phrases
\* mean, and the same one by an inner rule.
AtomMeans(D, a, b) == When(a = b /\ toks[a] \in Term, {Row[toks[a]]})
                      \cup When(a + 1 < b /\ toks[a] = "(" /\ toks[b] = ")", D[<<"or", a + 1, b - 1>>])
NotMeans(D, a, b)  == D[<<"atom", a, b>>]
                      \cup {Universe \ x : x \in When(a < b /\ toks[a] = "not", D[<<"atom", a + 1, b>>])}
Both(D, a, k, b)   == {x \cap y : x \in D[<<"and", a, k - 1>>], y \in D[<<"not", k + 1, b>>]}
AndMeans(D, a, b)  == D[<<"not", a, b>>] \cup UNION {Both(D, a, k, b) : k \in Signs("and", a, b)}
Either(D, a, k, b) == {x \cup y : x \in D[<<"or", a, k - 1>>], y \in D[<<"and", k + 1, b>>]}
OrMeans(D, a, b)   == D[<<"and", a, b>>] \cup UNION {Either(D, a, k, b) : k \in Signs("or", a, b)}
Meanings(D, r, a, b) ==
    CASE r = "atom" -> AtomMeans(D, a, b) [] r = "not" -> NotMeans(D, a, b)
      [] r = "and"  -> AndMeans(D, a, b)  [] r = "or"  -> OrMeans(D, a, b)
Meaning[p \in Phrase] == Meanings(Meaning, p[1], p[2], p[3])
QueryMeans == IF toks = <<>> THEN {} ELSE Meaning[<<"or", 1, Len(toks)>>]

\* A query has at most one meaning; the parser finds it, and refuses a query that
\* has none.
QueriesMeanTheirGrammar ==
    /\ level = "done" => QueryMeans = {value}
    /\ level = "error" => QueryMeans = {}
=============================================================================
