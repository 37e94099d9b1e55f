-------------------------------- MODULE Lexer --------------------------------
(***************************************************************************)
(* Lexer: program text to tokens (lexer/lexer.cpp, lexer/token.h).          *)
(* A text is a sequence of characters, strings of length 1 or NUL.  A       *)
(* position is the lexer's whole state: its index, counted from 0 as in the *)
(* code, tells where m_program_ptr points.  A token is a record [type,      *)
(* lexeme, pos]; its length is that of its lexeme.                          *)
(***************************************************************************)
EXTENDS Integers, SequencesExt, FiniteSetsExt

CONSTANT Keyword   \* the fields of struct Keyword -> how each is spelt

NUL == "NUL"

Space == {" ", "\t", "\r", "\n"}

Digit == {"0", "1", "2", "3", "4", "5", "6", "7", "8", "9"}

Letter == {"a", "b", "c", "d", "e", "f", "g", "h", "i", "j", "k", "l", "m",
           "n", "o", "p", "q", "r", "s", "t", "u", "v", "w", "x", "y", "z",
           "A", "B", "C", "D", "E", "F", "G", "H", "I", "J", "K", "L", "M",
           "N", "O", "P", "Q", "R", "S", "T", "U", "V", "W", "X", "Y", "Z"}

IdentifierChar == Letter \cup Digit \cup {"_"}

\* The keywords of statements, each a token type, and those of access modes.
StatementKeyword ==
  {"CONDITION", "GOTO", "THREAD_GOTO", "LOAD", "STORE", "CAS", "FAI", "FENCE"}
OrderKeyword == {"SEQ_CST", "REL", "ACQ", "REL_ACQ", "RLX"}

ASSUME KeywordAssumption ==
  /\ DOMAIN Keyword = StatementKeyword \cup OrderKeyword
  /\ \A k \in DOMAIN Keyword :
       /\ Keyword[k] # <<>> /\ Keyword[k][1] \notin Digit
       /\ \A i \in DOMAIN Keyword[k] : Keyword[k][i] \in IdentifierChar
       /\ \A other \in DOMAIN Keyword : Keyword[other] = Keyword[k] => other = k

Atom == [c \in {"=", "+", "-", "*", "/", ":"} |->
           CASE c = "=" -> "EQ" [] c = "+" -> "PLUS" [] c = "-" -> "MINUS"
             [] c = "*" -> "MULT" [] c = "/" -> "DIV" [] c = ":" -> "SEMICOLON"]

TokenTypes ==
  StatementKeyword \cup Range(Atom)
    \cup {"IDENTIFIER", "LOCATION", "NUMBER", "MEMORY_ORDER", "END", "INVALID"}

Token(type, lexeme, pos) == [type |-> type, lexeme |-> lexeme, pos |-> pos]

----------------------------------------------------------------------------

Start == [index |-> 0, column |-> 0, line |-> 0]

\* The text ends at its first NUL: it reaches the lexer through c_str().
Peek(text, pos) == IF pos.index < Len(text) THEN text[pos.index + 1] ELSE NUL

\* Mutant of Advance: the column goes on over a new line.
AdvanceKeepsColumn(c, pos) ==
  [index  |-> pos.index + 1,
   line   |-> IF c = "\n" THEN pos.line + 1 ELSE pos.line,
   column |-> pos.column + 1]

\* advance, over the character c.
Advance(c, pos) ==
  [index  |-> pos.index + 1,
   line   |-> IF c = "\n" THEN pos.line + 1 ELSE pos.line,
   column |-> IF c = "\n" THEN 0 ELSE pos.column + 1]

\* The longest run of the characters chars from pos on, possibly empty.
Run(text, pos, chars) ==
  LET ends == {i \in pos.index..Len(text) : i = Len(text) \/ text[i + 1] \notin chars}
  IN  SubSeq(text, pos.index + 1, Min(ends))

\* Where the lexer is once it has advanced over the characters of run.
After(run, pos) == FoldLeft(LAMBDA p, c : Advance(c, p), pos, run)

SkipBlank(text, pos) == After(Run(text, pos, Space), pos)

\* A lexer step: the token, and the position behind it.
Word(type, run, pos) == [token |-> Token(type, run, pos), pos |-> After(run, pos)]

AtomToken(type, text, pos) ==
  LET c == Peek(text, pos)
  IN  [token |-> Token(type, <<c>>, pos), pos |-> Advance(c, pos)]

KeywordType(lexeme) ==
  CASE \E k \in StatementKeyword : Keyword[k] = lexeme ->
         CHOOSE k \in StatementKeyword : Keyword[k] = lexeme
    [] \E k \in OrderKeyword : Keyword[k] = lexeme -> "MEMORY_ORDER"
    [] OTHER -> "IDENTIFIER"

\* Mutant of KeywordOrIdentifier: the loop asks for letters.
KeywordOrLetters(text, pos) ==
  LET run == Run(text, pos, Letter) IN Word(KeywordType(run), run, pos)

KeywordOrIdentifier(text, pos) ==
  LET run == Run(text, pos, IdentifierChar) IN Word(KeywordType(run), run, pos)

\* get_location_token, behind the #: a location may start with a digit.
LocationToken(text, pos) ==
  IF Peek(text, pos) \in IdentifierChar
  THEN Word("LOCATION", Run(text, pos, IdentifierChar), pos)
  ELSE AtomToken("INVALID", text, pos)

\* get_next_token
NextToken(text, from) ==
  LET pos == SkipBlank(text, from)
      c   == Peek(text, pos)
  IN  CASE c = NUL -> [token |-> Token("END", <<>>, pos), pos |-> pos]
        [] c \in Digit -> Word("NUMBER", Run(text, pos, Digit), pos)
        [] c \in IdentifierChar \ Digit -> KeywordOrIdentifier(text, pos)
        [] c \in DOMAIN Atom -> AtomToken(Atom[c], text, pos)
        [] c = "#" -> LocationToken(text, Advance(c, pos))
        [] OTHER -> AtomToken("INVALID", text, pos)

=============================================================================
