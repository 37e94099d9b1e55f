--------------------------- MODULE NodeStringifier ---------------------------
(***************************************************************************)
(* NodeStringifier: a statement as the interpreters print it                *)
(* (utils/node-stringifier).  The output is the sequence of its words: a    *)
(* word is a sequence of characters, or for a number its value.  Blanks are *)
(* left out; # stands with its location.                                    *)
(***************************************************************************)
EXTENDS Language, Lexer

\* The call of a memory instruction with the given registers.
Call(keyword, node, registers) == <<Keyword[keyword], Keyword[node.order], <<"#">> \o node.loc>> \o registers

\* visit, of each kind of expression.
ExpressionWords(e) ==
  CASE e.kind = "number" -> <<e.value>>
    [] e.kind = "binop"  -> <<e.left, <<e.op>>, e.right>>
    [] e.kind = "cas"    -> Call("CAS", e, <<e.expected, e.desired>>)
    [] e.kind = "fai"    -> Call("FAI", e, <<e.reg>>)

\* visit, of each kind of statement.
StatementWords(stmt) ==
  CASE stmt.kind = "goto"        -> <<Keyword["GOTO"], stmt.label>>
    [] stmt.kind = "thread_goto" -> <<Keyword["THREAD_GOTO"], stmt.label>>
    [] stmt.kind = "if"     -> <<Keyword["CONDITION"], stmt.reg, Keyword["GOTO"], stmt.label>>
    [] stmt.kind = "assign" -> <<stmt.reg, <<"=">>>> \o ExpressionWords(stmt.expr)
    [] stmt.kind = "load"   -> Call("LOAD", stmt, <<stmt.reg>>)
    [] stmt.kind = "store"  -> Call("STORE", stmt, <<stmt.reg>>)
    [] stmt.kind \in {"cas", "fai"} -> ExpressionWords(stmt)
    [] stmt.kind = "fence"  -> <<Keyword["FENCE"], Keyword[stmt.order]>>
    [] stmt.kind = "end"    -> <<<<"e", "n", "d">>>>

\* visit(StatementNode): the label first.
Stringify(label, stmt) ==
  IF label = <<>> THEN StatementWords(stmt) ELSE <<label, <<":">>>> \o StatementWords(stmt)

=============================================================================
