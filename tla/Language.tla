------------------------------ MODULE Language ------------------------------
(***************************************************************************)
(* The programs the interpreters run: the abstract syntax tree the parser   *)
(* builds (ast/).  A program is a record                                    *)
(*   statements : sequence of statements; the code's index i is i + 1 here; *)
(*   labels     : label -> index of the statement it stands before.         *)
(* The lexer ends every token list with END, so that a program has exactly  *)
(* one End statement and it is the last one.                                *)
(***************************************************************************)
EXTENDS Integers, Sequences, MemoryOrder

Goto(label)       == [kind |-> "goto", label |-> label]
ThreadGoto(label) == [kind |-> "thread_goto", label |-> label]
If(reg, label)    == [kind |-> "if", reg |-> reg, label |-> label]
LoadTo(order, loc, reg)    == [kind |-> "load", order |-> order, loc |-> loc, reg |-> reg]
StoreFrom(order, loc, reg) == [kind |-> "store", order |-> order, loc |-> loc, reg |-> reg]
FenceOf(order)    == [kind |-> "fence", order |-> order]
End               == [kind |-> "end"]
Assign(reg, expr) == [kind |-> "assign", reg |-> reg, expr |-> expr]

\* The expressions an assignment can have; the last two are statements as well.
Number(n) == [kind |-> "number", value |-> n]
BinOp(op, left, right) == [kind |-> "binop", op |-> op, left |-> left, right |-> right]
Cas(order, loc, expected, desired) ==
  [kind |-> "cas", order |-> order, loc |-> loc, expected |-> expected, desired |-> desired]
Fai(order, loc, reg) == [kind |-> "fai", order |-> order, loc |-> loc, reg |-> reg]

\* The nodes the parser makes a statement, and the right-hand side of an
\* assignment, of.
StatementKinds ==
  {"goto", "thread_goto", "if", "load", "store", "fence", "end", "assign", "cas", "fai"}

ExpressionKinds == {"number", "binop", "cas", "fai"}

\* What parsing guarantees.  A label may be missing: it is looked up when the
\* jump is executed.
WellFormed(p) ==
  /\ p.statements \in Seq({p.statements[i] : i \in DOMAIN p.statements})
  /\ p.statements # <<>>
  /\ \A i \in DOMAIN p.statements :
       /\ p.statements[i].kind \in StatementKinds
       /\ p.statements[i].kind = "end" <=> i = Len(p.statements)
       /\ p.statements[i].kind = "assign" => p.statements[i].expr.kind \in ExpressionKinds
  /\ \A label \in DOMAIN p.labels : p.labels[label] \in DOMAIN p.statements

\* What a statement evaluates: the visitors of an assignment go on to its
\* expression, and cas and fai may also stand alone, their value unused.
Evaluated(stmt) == IF stmt.kind = "assign" THEN stmt.expr ELSE stmt

\* Mutant of AllowsInterleaving: visit(StoreNode) is missing.
AllowsNoneAfterStore(stmt) == Evaluated(stmt).kind \in {"load", "cas", "fai", "fence", "end"}

\* NodeEvaluator: the statements after which the model checker may switch
\* threads, those that can touch storage and the end of a thread.
AllowsInterleaving(stmt) ==
  Evaluated(stmt).kind \in {"load", "store", "cas", "fai", "fence", "end"}

=============================================================================
