------------------------------- MODULE Parser -------------------------------
(***************************************************************************)
(* Parser: tokens to the statements of a program (parser/parser.cpp).       *)
(* Every parse_ function peeks at a token, throws unless it has one of the  *)
(* types expected there, and advances; in between it builds its node.  A    *)
(* parse is a record                                                        *)
(*   at    : position in tokens, m_current_token + 1;                       *)
(*   read  : the tokens it has advanced over;                               *)
(*   error : None, or the exception that ended it.                          *)
(***************************************************************************)
EXTENDS Language, Lexer

CONSTANT IntBits   \* the width of int

None == [kind |-> "none"]

\* std::out_of_range, thrown by peek or by stoi.
OutOfRange(by) == [kind |-> "out_of_range", by |-> by]

\* exceptions::unexpected_token, with the position of the token instead of it;
\* peek throws behind the last token.
Unexpected(tokens, at, types) ==
  IF at > Len(tokens) THEN OutOfRange("peek")
  ELSE [kind |-> "unexpected_token", at |-> at, expected |-> types]

TypeAt(tokens, at) == IF at > Len(tokens) THEN "NONE" ELSE tokens[at].type

From(at) == [at |-> at, read |-> <<>>, error |-> None]

Fail(p, error) == [p EXCEPT !.error = error]

\* peek, the test of its type, advance; nothing once an exception was thrown.
Take(tokens, p, types) ==
  CASE p.error # None -> p
    [] p.error = None /\ TypeAt(tokens, p.at) \in types ->
         [p EXCEPT !.at = @ + 1, !.read = Append(@, tokens[p.at])]
    [] OTHER -> Fail(p, Unexpected(tokens, p.at, types))

TakeEach(tokens, p, shape) ==
  FoldLeft(LAMBDA q, types : Take(tokens, q, types), p, shape)

\* The types of the tokens that name a register or a label, and a location.
Name     == {"IDENTIFIER"}
Location == {"LOCATION"}
Order    == {"MEMORY_ORDER"}
Operator == {"PLUS", "MINUS", "MULT", "DIV"}

\* What a parse_ function returns: the node built from what was read.
Result(p, Node(_)) ==
  [at |-> p.at, error |-> p.error, node |-> IF p.error = None THEN Node(p.read) ELSE End]

Failure(at, error) == [at |-> at, error |-> error, node |-> End]

ParseShape(tokens, at, shape, Node(_)) == Result(TakeEach(tokens, From(at), shape), Node)

ToBinopType(type) ==
  CASE type = "PLUS" -> "+" [] type = "MINUS" -> "-" [] type = "MULT" -> "*" [] type = "DIV" -> "/"

ToMemoryOrder(lexeme) == CHOOSE k \in OrderKeyword : Keyword[k] = lexeme

----------------------------------------------------------------------------
(* Calls *)

ParseDoubleArgumentCall(tokens, at, type, Node(_, _, _)) ==
  ParseShape(tokens, at, <<{type}, Order, Location, Name>>,
             LAMBDA w : Node(ToMemoryOrder(w[2].lexeme), w[3].lexeme, w[4].lexeme))

\* Mutant of ParseCas: the registers change places.
ParseCasSwapped(tokens, at) ==
  ParseShape(tokens, at, <<{"CAS"}, Order, Location, Name, Name>>,
             LAMBDA w : Cas(ToMemoryOrder(w[2].lexeme), w[3].lexeme, w[5].lexeme, w[4].lexeme))

ParseCas(tokens, at) ==
  ParseShape(tokens, at, <<{"CAS"}, Order, Location, Name, Name>>,
             LAMBDA w : Cas(ToMemoryOrder(w[2].lexeme), w[3].lexeme, w[4].lexeme, w[5].lexeme))

ParseFai(tokens, at) == ParseDoubleArgumentCall(tokens, at, "FAI", Fai)

ParseFence(tokens, at) ==
  ParseShape(tokens, at, <<{"FENCE"}, Order>>, LAMBDA w : FenceOf(ToMemoryOrder(w[2].lexeme)))

----------------------------------------------------------------------------
(* Assignments *)

DigitValue ==
  [d \in Digit |-> CASE d = "0" -> 0 [] d = "1" -> 1 [] d = "2" -> 2 [] d = "3" -> 3
                     [] d = "4" -> 4 [] d = "5" -> 5 [] d = "6" -> 6 [] d = "7" -> 7
                     [] d = "8" -> 8 [] d = "9" -> 9]

ValueOf(lexeme) == FoldLeft(LAMBDA n, d : 10 * n + DigitValue[d], 0, lexeme)

MaxInt == 2 ^ (IntBits - 1) - 1

\* Mutant of ParseNumber: the largest number is refused.
ParseNumberBelowMax(tokens, at) ==
  IF ValueOf(tokens[at].lexeme) >= MaxInt
  THEN Failure(at, OutOfRange("stoi"))
  ELSE ParseShape(tokens, at, <<{"NUMBER"}>>, LAMBDA w : Number(ValueOf(w[1].lexeme)))

\* std::stoi throws for a number that int cannot hold.
ParseNumber(tokens, at) ==
  IF ValueOf(tokens[at].lexeme) > MaxInt
  THEN Failure(at, OutOfRange("stoi"))
  ELSE ParseShape(tokens, at, <<{"NUMBER"}>>, LAMBDA w : Number(ValueOf(w[1].lexeme)))

ParseBinop(tokens, at) ==
  ParseShape(tokens, at, <<Name, Operator, Name>>,
             LAMBDA w : BinOp(ToBinopType(w[2].type), w[1].lexeme, w[3].lexeme))

\* What stands behind the equals sign.
ParseExpression(tokens, at) ==
  LET type == TypeAt(tokens, at)
  IN  CASE type = "CAS"        -> ParseCas(tokens, at)
        [] type = "FAI"        -> ParseFai(tokens, at)
        [] type = "IDENTIFIER" -> ParseBinop(tokens, at)
        [] type = "NUMBER"     -> ParseNumber(tokens, at)
        [] OTHER -> Failure(at, Unexpected(tokens, at, {"IDENTIFIER", "NUMBER", "CAS", "FAI"}))

ParseAssignment(tokens, at) ==
  LET target == TakeEach(tokens, From(at), <<Name, {"EQ"}>>)
      value  == ParseExpression(tokens, target.at)
  IN  IF target.error # None THEN Failure(target.at, target.error)
      ELSE [value EXCEPT !.node = Assign(target.read[1].lexeme, @)]

----------------------------------------------------------------------------
(* Statements *)

\* Mutant of ParseCondition: goto may be left out.
ParseConditionWithoutGoto(tokens, at) ==
  ParseShape(tokens, at, <<{"CONDITION"}, Name, Name \cup {"GOTO"}>>,
             LAMBDA w : If(w[2].lexeme, w[3].lexeme))

ParseCondition(tokens, at) ==
  ParseShape(tokens, at, <<{"CONDITION"}, Name, {"GOTO"}, Name>>,
             LAMBDA w : If(w[2].lexeme, w[4].lexeme))

ParseGoto(tokens, at) ==
  ParseShape(tokens, at, <<{"GOTO"}, Name>>, LAMBDA w : Goto(w[2].lexeme))

ParseThreadGoto(tokens, at) ==
  ParseShape(tokens, at, <<{"THREAD_GOTO"}, Name>>, LAMBDA w : ThreadGoto(w[2].lexeme))

\* is_labeled_statement_next
IsLabeled(tokens, at) ==
  at < Len(tokens) /\ tokens[at].type = "IDENTIFIER" /\ tokens[at + 1].type = "SEMICOLON"

\* The types parse_statement names when a statement starts with none of its own.
StatementStart ==
  {"IDENTIFIER", "CONDITION", "LOAD", "STORE", "FAI", "CAS", "FENCE", "END"}

ParseUnlabeled(tokens, at) ==
  LET type == TypeAt(tokens, at)
  IN  CASE type = "IDENTIFIER"  -> ParseAssignment(tokens, at)
        [] type = "CONDITION"   -> ParseCondition(tokens, at)
        [] type = "GOTO"        -> ParseGoto(tokens, at)
        [] type = "THREAD_GOTO" -> ParseThreadGoto(tokens, at)
        [] type = "LOAD"        -> ParseDoubleArgumentCall(tokens, at, "LOAD", LoadTo)
        [] type = "STORE"       -> ParseDoubleArgumentCall(tokens, at, "STORE", StoreFrom)
        [] type = "FAI"         -> ParseFai(tokens, at)
        [] type = "CAS"         -> ParseCas(tokens, at)
        [] type = "FENCE"       -> ParseFence(tokens, at)
        [] type = "END"         -> ParseShape(tokens, at, <<{"END"}>>, LAMBDA w : End)
        [] OTHER -> Failure(at, Unexpected(tokens, at, StatementStart))

\* Mutant of ParseStatement: only one token of the label is skipped.
ParseStatementAtColon(tokens, at) ==
  LET labeled == IsLabeled(tokens, at)
      parsed  == ParseUnlabeled(tokens, IF labeled THEN at + 1 ELSE at)
  IN  [at |-> parsed.at, error |-> parsed.error, node |-> parsed.node,
       label |-> IF labeled THEN tokens[at].lexeme ELSE <<>>]

\* parse_statement: a label, empty if there is none, and the statement.
ParseStatement(tokens, at) ==
  LET labeled == IsLabeled(tokens, at)
      parsed  == ParseUnlabeled(tokens, IF labeled THEN at + 2 ELSE at)
  IN  [at |-> parsed.at, error |-> parsed.error, node |-> parsed.node,
       label |-> IF labeled THEN tokens[at].lexeme ELSE <<>>]

=============================================================================
