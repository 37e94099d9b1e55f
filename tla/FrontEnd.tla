------------------------------ MODULE FrontEnd ------------------------------
(***************************************************************************)
(* main(), from its arguments to the start of an interpreter: the options,  *)
(* the program file, the lexer's and the parser's loops, the label table,   *)
(* and where an exception leads.  A step is an iteration of a loop; "cursor" *)
(* is the loop's variable, counted from 1.                                  *)
(*                                                                          *)
(* An input is a record                                                     *)
(*   argv  : the arguments, the name of the program first;                  *)
(*   files : the files that can be opened: path -> text.                    *)
(***************************************************************************)
EXTENDS Parser, NodeStringifier, Maps

CONSTANTS Inputs,
          FirstWord   \* the arguments that are not a single word -> their
                      \* first word, "" if they are blank

ASSUME InputsAssumption ==
  \A i \in Inputs : /\ i.argv \in Seq(STRING)
                   /\ \A path \in DOMAIN i.files : i.files[path] \in Seq(STRING)

VARIABLES input,
          phase,      \* options, open, lex, parse, label; run, failed, aborted
          cursor,
          opts,       \* ProgramOptions
          pos,        \* of the lexer
          tokens,
          nodes,      \* the statements parsed so far, [label, node]
          labels,     \* label -> index of its statement
          error       \* the exception that ended the process

vars == <<input, phase, cursor, opts, pos, tokens, nodes, labels, error>>

\* The empty string: no file was asked for, or nothing could be extracted.
NoWord == ""

Init ==
  /\ input \in Inputs
  /\ phase = "options" /\ cursor = 1
  /\ opts = [file |-> NoWord, mm |-> "sc", it |-> "nd"]
  /\ pos = Start
  /\ tokens = <<>> /\ nodes = <<>> /\ labels = EmptyMap
  /\ error = None

\* Mutant of Throw: the exception is caught within the loop.
ThrowInLoop(e) == error' = e /\ UNCHANGED phase

\* main catches runtime_error and returns EXIT_FAILURE; out_of_range is a
\* logic_error, which nothing catches.
Throw(e) ==
  /\ error' = e
  /\ phase' = IF e.kind = "out_of_range" THEN "aborted" ELSE "failed"

Goes(next) == phase' = next /\ cursor' = 1 /\ UNCHANGED error

----------------------------------------------------------------------------
(* Options *)

OptionName == [arg \in {"--file", "--mm", "--it"} |->
                 CASE arg = "--file" -> "file" [] arg = "--mm" -> "mm" [] arg = "--it" -> "it"]

\* What operator>> extracts from an argument.
Extracted(arg) == IF arg \in DOMAIN FirstWord THEN FirstWord[arg] ELSE arg

\* Mutant of OptionsAfter: an option never takes the last argument.
OptionsButLast(argv, i) ==
  IF argv[i] \in DOMAIN OptionName /\ i + 1 < Len(argv) /\ Extracted(argv[i + 1]) # NoWord
  THEN [opts EXCEPT ![OptionName[argv[i]]] = Extracted(argv[i + 1])]
  ELSE opts

\* The callbacks at argument i: an option takes the argument behind it, which
\* stays an argument of its own; nothing is extracted from a blank one.
OptionsAfter(argv, i) ==
  IF argv[i] \in DOMAIN OptionName /\ i < Len(argv) /\ Extracted(argv[i + 1]) # NoWord
  THEN [opts EXCEPT ![OptionName[argv[i]]] = Extracted(argv[i + 1])]
  ELSE opts

ParseArgument ==
  /\ phase = "options" /\ cursor <= Len(input.argv)
  /\ opts' = OptionsAfter(input.argv, cursor)
  /\ cursor' = cursor + 1
  /\ UNCHANGED <<input, phase, pos, tokens, nodes, labels, error>>

OptionsAccepted ==
  /\ opts.file # NoWord
  /\ opts.it \in {"nd", "tr", "mc", "i"}
  /\ opts.mm \in {"sc", "tso", "pso", "sra"}

CheckOptions ==
  /\ phase = "options" /\ cursor > Len(input.argv)
  /\ IF OptionsAccepted THEN Goes("open")
     ELSE Throw([kind |-> "invalid_arguments"]) /\ UNCHANGED cursor
  /\ UNCHANGED <<input, opts, pos, tokens, nodes, labels>>

OpenFile ==
  /\ phase = "open"
  /\ IF opts.file \in DOMAIN input.files THEN Goes("lex")
     ELSE Throw([kind |-> "unable_to_open_file"]) /\ UNCHANGED cursor
  /\ UNCHANGED <<input, opts, pos, tokens, nodes, labels>>

\* read_file ends every line it reads, the empty one behind a final newline
\* included, with a newline.
text == Append(input.files[opts.file], "\n")

----------------------------------------------------------------------------
(* Lexer::get_tokens and Parser::parse *)

LexToken ==
  LET step == NextToken(text, pos)
  IN  /\ phase = "lex"
      /\ tokens' = Append(tokens, step.token)
      /\ pos' = step.pos
      /\ IF step.token.type \in {"END", "INVALID"} THEN Goes("parse")
         ELSE UNCHANGED <<phase, cursor, error>>
      /\ UNCHANGED <<input, opts, nodes, labels>>

Invalid == {i \in DOMAIN tokens : tokens[i].type = "INVALID"}

RejectToken ==
  /\ phase = "parse" /\ Invalid # {}
  /\ Throw([kind |-> "invalid_token", at |-> Min(Invalid)])
  /\ UNCHANGED <<input, cursor, opts, pos, tokens, nodes, labels>>

ParseNext ==
  LET parsed == ParseStatement(tokens, cursor)
  IN  /\ phase = "parse" /\ Invalid = {} /\ cursor <= Len(tokens)
      /\ IF parsed.error = None
         THEN /\ nodes' = Append(nodes, [label |-> parsed.label, node |-> parsed.node])
              /\ cursor' = parsed.at
              /\ UNCHANGED <<phase, error>>
         ELSE Throw(parsed.error) /\ UNCHANGED <<nodes, cursor>>
      /\ UNCHANGED <<input, opts, pos, tokens, labels>>

Parsed ==
  /\ phase = "parse" /\ Invalid = {} /\ cursor > Len(tokens)
  /\ Goes("label")
  /\ UNCHANGED <<input, opts, pos, tokens, nodes, labels>>

\* Mutant of Labelled: the number of labels so far instead of the statement's.
LabelledInOrder(label) == Put(labels, label, Cardinality(DOMAIN labels) + 1)

Labelled(label) == Put(labels, label, cursor)

\* LabeledInstructionsRetriever, statement by statement.
LabelStatement ==
  LET label == nodes[cursor].label
  IN  /\ phase = "label" /\ cursor <= Len(nodes)
      /\ IF label \in DOMAIN labels
         THEN Throw([kind |-> "multiple_statements_with_same_label"]) /\ UNCHANGED <<labels, cursor>>
         ELSE /\ labels' = IF label = <<>> THEN labels ELSE Labelled(label)
              /\ cursor' = cursor + 1
              /\ UNCHANGED <<phase, error>>
      /\ UNCHANGED <<input, opts, pos, tokens, nodes>>

RunInterpreter ==
  /\ phase = "label" /\ cursor > Len(nodes)
  /\ Goes("run")
  /\ UNCHANGED <<input, opts, pos, tokens, nodes, labels>>

Next ==
  \/ ParseArgument \/ CheckOptions \/ OpenFile
  \/ LexToken \/ RejectToken \/ ParseNext \/ Parsed
  \/ LabelStatement \/ RunInterpreter

Spec == Init /\ [][Next]_vars

\* What the interpreter is given.
program == [statements |-> [i \in DOMAIN nodes |-> nodes[i].node], labels |-> labels]

----------------------------------------------------------------------------
(* The language: the statements of README.md's list, goto L, and cas and fai *)
(* without a target, as sequences of token types.                            *)

CasCall == <<"CAS", "MEMORY_ORDER", "LOCATION", "IDENTIFIER", "IDENTIFIER">>
FaiCall == <<"FAI", "MEMORY_ORDER", "LOCATION", "IDENTIFIER">>

Instructions ==
  {<<"IDENTIFIER", "EQ">> \o value :
     value \in {<<"NUMBER">>, CasCall, FaiCall}
                 \cup {<<"IDENTIFIER", op, "IDENTIFIER">> : op \in {"PLUS", "MINUS", "MULT", "DIV"}}}
  \cup {<<"CONDITION", "IDENTIFIER", "GOTO", "IDENTIFIER">>, <<"GOTO", "IDENTIFIER">>,
        <<"THREAD_GOTO", "IDENTIFIER">>, <<"FENCE", "MEMORY_ORDER">>, CasCall, FaiCall}
  \cup {<<access, "MEMORY_ORDER", "LOCATION", "IDENTIFIER">> : access \in {"LOAD", "STORE"}}

Labelable(forms) == forms \cup {<<"IDENTIFIER", "SEMICOLON">> \o form : form \in forms}

\* Whether the types before i are whole instructions, for each i.
WholeBefore(types) ==
  LET whole[i \in 1..Len(types) + 1] ==
        \/ i = 1
        \/ \E form \in Labelable(Instructions) :
             /\ Len(form) < i
             /\ SubSeq(types, i - Len(form), i - 1) = form
             /\ whole[i - Len(form)]
  IN  whole

IsProgram(types) ==
  \E last \in Labelable({<<"END">>}) :
    IsSuffix(last, types) /\ WholeBefore(types)[Len(types) - Len(last) + 1]

\* The types can be continued to a program.
IsProgramPrefix(types) ==
  \E i \in 1..Len(types) + 1 :
    /\ WholeBefore(types)[i]
    /\ \E form \in Labelable(Instructions \cup {<<"END">>}) :
         IsPrefix(SubSeq(types, i, Len(types)), form)

----------------------------------------------------------------------------
(* Properties *)

Types == [i \in DOMAIN tokens |-> tokens[i].type]

\* Type correctness: one exception ends the process, and ends it for good.
TypeOK ==
  /\ phase \in {"options", "open", "lex", "parse", "label", "run", "failed", "aborted"}
  /\ phase \in {"failed", "aborted"} <=> error # None
  /\ \A i \in DOMAIN tokens : tokens[i].type \in TokenTypes
  /\ cursor \in 1..Len(input.argv) + Len(tokens) + 1
  /\ Len(nodes) <= Len(tokens)
  /\ DOMAIN labels \subseteq {nodes[i].label : i \in DOMAIN nodes}

\* Where a token begins, a location with its #, and ends, counted from 0.
Begin(token) == token.pos.index - IF token.type = "LOCATION" THEN 1 ELSE 0
Behind(token) == token.pos.index + Len(token.lexeme)

\* Nothing of the text is lost, taken twice or cut short: between tokens there
\* are only blanks, a lexeme is what the text holds at its place and as long as
\* it can be, and the last token is behind all of the text, or names what does
\* not belong to the language.
TokensCoverText ==
  /\ \A i \in DOMAIN tokens : tokens[i].type # "INVALID" =>
       LET from == IF i = 1 THEN 0 ELSE Behind(tokens[i - 1])
           next == Behind(tokens[i]) + 1
       IN  /\ \A k \in from + 1..Begin(tokens[i]) : text[k] \in {" ", "\t", "\r", "\n"}
           /\ SubSeq(text, tokens[i].pos.index + 1, next - 1) = tokens[i].lexeme
           /\ tokens[i].type = "LOCATION" => text[tokens[i].pos.index] = "#"
           /\ tokens[i].type = "END" => next \notin DOMAIN text \/ text[next] = NUL
           /\ /\ tokens[i].lexeme # <<>>
              /\ \A k \in DOMAIN tokens[i].lexeme : tokens[i].lexeme[k] \in IdentifierChar
              =>
              text[next] \notin IF tokens[i].type = "NUMBER" THEN Digit ELSE IdentifierChar
  /\ \A i \in DOMAIN tokens : tokens[i].type \in {"END", "INVALID"} =>
       i = Len(tokens) /\ phase # "lex"

\* The positions error messages give: the line is the number of newlines before
\* the token, and the column its distance from the last of them.
PositionsAreTrue ==
  \A i \in DOMAIN tokens :
    LET place    == tokens[i].pos
        newlines == {k \in 1..place.index : k \in DOMAIN text /\ text[k] = "\n"}
    IN  /\ place.line = Cardinality(newlines)
        /\ place.column = place.index - (IF newlines = {} THEN 0 ELSE Max(newlines))

\* The numbers int cannot hold.
TooLarge == {i \in DOMAIN tokens : tokens[i].type = "NUMBER" /\ ValueOf(tokens[i].lexeme) > MaxInt}

\* A text is run if and only if it is a program of the language, no two
\* statements of it have the same label, and its numbers fit.
RunsThePrograms ==
  LET labelNames == {i \in DOMAIN tokens : i < Len(tokens) /\ tokens[i + 1].type = "SEMICOLON"}
      distinct   == \A i, j \in labelNames : tokens[i].lexeme = tokens[j].lexeme => i = j
  IN  phase \in {"run", "failed", "aborted"} /\ tokens # <<>> =>
        (phase = "run" <=> IsProgram(Types) /\ distinct /\ TooLarge = {})

\* The parser stops at the first token that no program continues with, and the
\* types it names as expected are ones a program could have had there.
RejectsAtFirstBadToken ==
  error.kind = "unexpected_token" =>
    LET before == SubSeq(Types, 1, error.at - 1)
    IN  /\ IsProgramPrefix(before)
        /\ ~IsProgramPrefix(Append(before, Types[error.at]))
        /\ \A type \in error.expected : IsProgramPrefix(Append(before, type))

\* The only exception that escapes main is that of a number too large for int,
\* met where a program could go on with it; no loop reads behind the tokens.
AbortsOnNumbersOnly ==
  phase = "aborted" =>
    \E i \in TooLarge : Invalid = {} /\ IsProgramPrefix(SubSeq(Types, 1, i))

\* The words of a token: a number counts by its value.
Written(token) ==
  CASE token.type = "NUMBER"   -> ValueOf(token.lexeme)
    [] token.type = "LOCATION" -> <<"#">> \o token.lexeme
    [] OTHER -> token.lexeme

\* Printing the statements gives the text back, blanks and leading zeros apart:
\* no register, label, location, mode or operator changes place or is lost
\* between the lexer and the output of the tracing interpreter.
ParsedAsWritten ==
  phase = "run" =>
    FlattenSeq([i \in DOMAIN nodes |-> Stringify(nodes[i].label, nodes[i].node)])
      = [i \in DOMAIN tokens |-> IF tokens[i].type = "END" THEN <<"e", "n", "d">>
                                                           ELSE Written(tokens[i])]

\* What interpreters take for granted of their program: it ends with its only
\* End, and a label leads to the statement it was written before.
ProgramIsWellFormed ==
  phase = "run" =>
    /\ WellFormed(program)
    /\ \A i \in DOMAIN nodes :
         nodes[i].label # <<>> => nodes[i].label \in DOMAIN labels /\ labels[nodes[i].label] = i

\* An interpreter runs with what the arguments ask for last, and never with a
\* model or an interpreter that does not exist.
RunsAsAsked ==
  phase = "run" =>
    \A name \in DOMAIN OptionName :
      LET given == {i \in 1..Len(input.argv) - 1 :
                      input.argv[i] = name /\ Extracted(input.argv[i + 1]) # NoWord}
          default == [file |-> NoWord, mm |-> "sc", it |-> "nd"]
      IN  opts[OptionName[name]] =
            IF given = {} THEN default[OptionName[name]]
            ELSE Extracted(input.argv[Max(given) + 1])

=============================================================================
