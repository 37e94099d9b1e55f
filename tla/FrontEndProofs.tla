---------------------------- MODULE FrontEndProofs ----------------------------
(***************************************************************************)
(* Proofs about FrontEnd: whatever the arguments and the files, what the    *)
(* lexer cuts a text into, what an interpreter is given, and which texts    *)
(* are run.                                                                 *)
(*                                                                          *)
(* The first part shows an invariant of the loops and five theorems that    *)
(* follow from it.  The second takes the language apart: its statements are *)
(* finitely many forms, one of which a statement's first tokens determine.  *)
(* The third shows that parse_statement reads such a form or stops at the   *)
(* first token that is in none.  The fourth adds to the invariant what has  *)
(* been read, and shows that main runs the programs of the language.  The   *)
(* last adds what has been printed: the words of a statement's node are the *)
(* tokens that it was read from.                                            *)
(***************************************************************************)
EXTENDS FrontEnd, WellFoundedInduction, SequenceTheorems, FiniteSetTheorems, TLAPS

----------------------------------------------------------------------------
(* Sets of numbers. *)

\* Induction, for a set of numbers.
LEMMA NumbersByInduction ==
  ASSUME NEW S, 0 \in S, \A k \in Nat : k \in S => k + 1 \in S
  PROVE  Nat \subseteq S
<1> DEFINE T == {k \in Nat : k \notin S}
<1>1. CASE T = {}
  BY <1>1
<1>2. CASE T # {}
  <2>1. PICK x \in T : \A y \in T : <<y, x>> \notin OpToRel(<, Nat)
    BY <1>2, NatLessThanWellFounded, WFMin
  <2>2. \A y \in T : ~(y < x)
    BY <2>1 DEF OpToRel
  <2>3. x \in Nat /\ x # 0
    OBVIOUS
  <2>4. x - 1 \in Nat /\ x - 1 < x /\ (x - 1) + 1 = x
    BY <2>3
  <2>5. x - 1 \notin T
    BY <2>2, <2>4
  <2> QED
    BY <2>4, <2>5
<1> QED
  BY <1>1, <1>2

LEMMA MinIsLeast ==
  ASSUME NEW I, I \subseteq Nat, I # {}
  PROVE  Min(I) \in I /\ \A i \in I : Min(I) <= i
<1>1. PICK x \in I : \A y \in I : <<y, x>> \notin OpToRel(<, Nat)
  BY NatLessThanWellFounded, WFMin
<1>2. \A y \in I : ~(y < x)
  BY <1>1 DEF OpToRel
<1>3. \A y \in I : x <= y
  BY <1>2
<1> QED
  BY <1>3 DEF Min

LEMMA MaxIsGreatest ==
  ASSUME NEW n \in Nat, NEW I, I \subseteq 1..n, I # {}
  PROVE  Max(I) \in I /\ \A i \in I : Max(I) >= i
<1> DEFINE T == {n - i : i \in I}
<1>1. T \subseteq Nat /\ T # {}
  <2>1. T \subseteq Nat
    OBVIOUS
  <2>2. T # {}
    OBVIOUS
  <2> QED
    BY <2>1, <2>2
<1>2. Min(T) \in T /\ \A y \in T : Min(T) <= y
  BY <1>1, MinIsLeast
<1>3. PICK m \in I : Min(T) = n - m
  BY <1>2
<1>4. ASSUME NEW i \in I
      PROVE  m >= i
  <2>1. n - i \in T /\ i \in Nat /\ m \in Nat
    OBVIOUS
  <2>2. n - m <= n - i
    BY <1>2, <1>3, <2>1
  <2> QED
    BY <2>1, <2>2
<1> QED
  BY <1>4 DEF Max

LEMMA GreatestIsMax ==
  ASSUME NEW n \in Nat, NEW I, I \subseteq 1..n, NEW m \in I, \A i \in I : m >= i
  PROVE  Max(I) = m
<1>1. Max(I) \in I /\ \A i \in I : Max(I) >= i
  BY MaxIsGreatest
<1>2. PICK x : x = Max(I)
  OBVIOUS
<1>3. x \in 1..n /\ m \in 1..n /\ x >= m /\ m >= x
  BY <1>1, <1>2
<1>4. x = m
  BY <1>3
<1> QED
  BY <1>2, <1>4

----------------------------------------------------------------------------
(* The folds of the lexer, over the characters of a run, and of the parser, *)
(* over the types of the tokens to take.                                    *)

Folded(over, ts, acc, e) == IF over = "characters" THEN Advance(e, acc) ELSE Take(ts, acc, e)

IsFold(over, ts, base, seq, k, f) ==
  f = [I \in SUBSET (1..k) |->
         IF I = {} THEN base ELSE Folded(over, ts, f[I \ {Max(I)}], seq[Max(I)])]

LEMMA FoldExists ==
  ASSUME NEW over, NEW ts, NEW base, NEW seq, NEW n \in Nat
  PROVE  \E f : IsFold(over, ts, base, seq, n, f)
<1> DEFINE S == {k \in Nat : \E f : IsFold(over, ts, base, seq, k, f)}
<1>1. 0 \in S
  <2> DEFINE f == [I \in SUBSET (1..0) |-> base]
  <2>1. IsFold(over, ts, base, seq, 0, f)
    BY DEF IsFold
  <2> QED
    BY <2>1
<1>2. ASSUME NEW k \in Nat, k \in S
      PROVE  k + 1 \in S
  <2>1. PICK f : IsFold(over, ts, base, seq, k, f)
    BY <1>2
  <2> DEFINE last(I) == Max(I)
             g == [I \in SUBSET (1..k + 1) |->
                     IF I = {} THEN base
                     ELSE Folded(over, ts, f[I \ {last(I)}], seq[last(I)])]
  <2>2. \A I \in SUBSET (1..k) : g[I] = f[I]
    <3>1. SUBSET (1..k) \subseteq SUBSET (1..k + 1)
      OBVIOUS
    <3> QED
      BY <2>1, <3>1 DEF IsFold
  <2>3. ASSUME NEW I \in SUBSET (1..k + 1), I # {}
        PROVE  I \ {last(I)} \in SUBSET (1..k)
    <3>1. k + 1 \in Nat /\ I \subseteq 1..k + 1
      OBVIOUS
    <3>2. last(I) \in I /\ \A i \in I : last(I) >= i
      BY <2>3, <3>1, MaxIsGreatest
    <3> HIDE DEF last
    <3>3. ASSUME NEW i \in I, i # last(I)
          PROVE  i \in 1..k
      <4>1. i \in 1..k + 1 /\ last(I) \in 1..k + 1 /\ last(I) >= i
        BY <3>2
      <4> QED
        BY <3>3, <4>1
    <3> QED
      BY <3>3
  <2>4. g = [I \in SUBSET (1..k + 1) |->
               IF I = {} THEN base
               ELSE Folded(over, ts, g[I \ {last(I)}], seq[last(I)])]
    <3>1. \A I \in SUBSET (1..k + 1) : I # {} => g[I \ {last(I)}] = f[I \ {last(I)}]
      BY <2>2, <2>3
    <3> HIDE DEF last
    <3> QED
      BY <3>1
  <2>5. IsFold(over, ts, base, seq, k + 1, g)
    BY <2>4 DEF IsFold
  <2> QED
    BY <2>5
<1> HIDE DEF S
<1>3. n \in S
  BY <1>1, <1>2, NumbersByInduction
<1> QED
  BY <1>3 DEF S

\* The results g[0], g[1], ..., g[n] after 0, 1, ..., n elements.
IsSteps(over, ts, base, seq, n, last, g) ==
  /\ g[0] = base
  /\ \A k \in 1..n : g[k] = Folded(over, ts, g[k - 1], seq[k])
  /\ g[n] = last

LEMMA FoldSteps ==
  ASSUME NEW over, NEW ts, NEW base, NEW seq, NEW n \in Nat,
         NEW f, IsFold(over, ts, base, seq, n, f)
  PROVE  \E g : IsSteps(over, ts, base, seq, n, f[1..n], g)
<1> DEFINE g == [k \in 0..n |-> f[1..k]]
<1>1. g[0] = base
  BY DEF IsFold
<1>2. ASSUME NEW k \in 1..n
      PROVE  g[k] = Folded(over, ts, g[k - 1], seq[k])
  <2>1. k \in 1..k /\ 1..k \in SUBSET (1..n) /\ 1..k # {} /\ k \in 0..n /\ k - 1 \in 0..n
    OBVIOUS
  <2>2. Max(1..k) = k
    <3>1. k \in Nat /\ 1..k \subseteq 1..k /\ \A i \in 1..k : k >= i
      OBVIOUS
    <3> QED
      BY <2>1, <3>1, GreatestIsMax
  <2>3. (1..k) \ {k} = 1..k - 1
    OBVIOUS
  <2>4. f[1..k] = Folded(over, ts, f[(1..k) \ {Max(1..k)}], seq[Max(1..k)])
    BY <2>1 DEF IsFold
  <2> QED
    BY <2>1, <2>2, <2>3, <2>4
<1>3. g[n] = f[1..n]
  OBVIOUS
<1> HIDE DEF g
<1>4. IsSteps(over, ts, base, seq, n, f[1..n], g)
  BY <1>1, <1>2, <1>3 DEF IsSteps
<1> QED
  BY <1>4

LEMMA AfterSteps ==
  ASSUME NEW run, NEW n \in Nat, DOMAIN run = 1..n, NEW p
  PROVE  \E g : /\ g[0] = p
                /\ \A k \in 1..n : g[k] = Advance(run[k], g[k - 1])
                /\ After(run, p) = g[n]
<1> DEFINE f == CHOOSE h : IsFold("characters", p, p, run, n, h)
<1>1. IsFold("characters", p, p, run, n, f)
  BY FoldExists
<1>2. After(run, p) = f[1..n]
  BY DEF After, FoldLeft, MapThenFoldSet, IsFold, Folded
<1> HIDE DEF f
<1>3. PICK g : /\ g[0] = p
               /\ \A k \in 1..n : g[k] = Folded("characters", p, g[k - 1], run[k])
               /\ g[n] = f[1..n]
  <2>1. \E g : IsSteps("characters", p, p, run, n, f[1..n], g)
    BY <1>1, FoldSteps
  <2> QED
    BY <2>1 DEF IsSteps
<1>4. \A k \in 1..n : g[k] = Advance(run[k], g[k - 1])
  BY <1>3 DEF Folded
<1> QED
  BY <1>2, <1>3, <1>4

TakesFrom(ts, p, shape, n, g) ==
  /\ g[0] = p
  /\ \A k \in 1..n : g[k] = Take(ts, g[k - 1], shape[k])
  /\ TakeEach(ts, p, shape) = g[n]

LEMMA TakeSteps ==
  ASSUME NEW ts, NEW shape, NEW n \in Nat, DOMAIN shape = 1..n, NEW p
  PROVE  \E g : TakesFrom(ts, p, shape, n, g)
<1>1. PICK over : over = "types"
  OBVIOUS
<1> DEFINE f == CHOOSE h : IsFold("types", ts, p, shape, n, h)
<1>2. IsFold("types", ts, p, shape, n, f)
  BY FoldExists
<1>3. TakeEach(ts, p, shape) = f[1..n]
  BY DEF TakeEach, FoldLeft, MapThenFoldSet, IsFold, Folded
<1> HIDE DEF f
<1>4. IsFold(over, ts, p, shape, n, f)
  BY <1>1, <1>2
<1>5. PICK g : /\ g[0] = p
               /\ \A k \in 1..n : g[k] = Folded(over, ts, g[k - 1], shape[k])
               /\ g[n] = f[1..n]
  <2>1. \E g : IsSteps(over, ts, p, shape, n, f[1..n], g)
    BY <1>4, FoldSteps
  <2> QED
    BY <2>1 DEF IsSteps
<1>6. \A k \in 1..n : g[k] = Take(ts, g[k - 1], shape[k])
  BY <1>1, <1>5 DEF Folded
<1> QED
  BY <1>3, <1>5, <1>6 DEF TakesFrom

----------------------------------------------------------------------------
(* Positions *)

\* The characters of a text: those of the file, and the newline read_file adds.
Char == STRING \cup {"\n"}

Position(p) ==
  /\ p = [index |-> p.index, column |-> p.column, line |-> p.line]
  /\ p.index \in Nat

\* The newlines among the first n characters of t.
Newlines(t, n) == {k \in 1..n : k \in DOMAIN t /\ t[k] = "\n"}

\* The line and the column of position p are those of its index in t.
IsTrue(t, p) ==
  /\ p.line = Cardinality(Newlines(t, p.index))
  /\ p.column = p.index - (IF Newlines(t, p.index) = {} THEN 0 ELSE Max(Newlines(t, p.index)))

LEMMA StartIsTrue == ASSUME NEW t PROVE Position(Start) /\ IsTrue(t, Start)
<1>1. Newlines(t, 0) = {}
  BY DEF Newlines
<1> QED
  BY <1>1, FS_EmptySet DEF Start, Position, IsTrue

LEMMA AdvanceIsTrue ==
  ASSUME NEW t \in Seq(Char), NEW p, Position(p), IsTrue(t, p)
  PROVE  LET next == Advance(Peek(t, p), p)
         IN  Position(next) /\ IsTrue(t, next) /\ next.index = p.index + 1
<1> DEFINE next == Advance(Peek(t, p), p)
           n == p.index
<1>1. n \in Nat /\ next.index = n + 1 /\ Position(next)
  BY DEF Position, Advance
<1>2. Peek(t, p) = "\n" <=> n + 1 \in DOMAIN t /\ t[n + 1] = "\n"
  BY <1>1 DEF Peek, NUL
<1>3. IsFiniteSet(Newlines(t, n)) /\ Newlines(t, n) \subseteq 1..n
  <2>1. IsFiniteSet(1..n)
    BY <1>1, FS_Interval
  <2> QED
    BY <2>1, FS_Subset DEF Newlines
<1>4. CASE Peek(t, p) = "\n"
  <2>1. Newlines(t, n + 1) = Newlines(t, n) \cup {n + 1}
    BY <1>1, <1>2, <1>4 DEF Newlines
  <2>2. n + 1 \notin Newlines(t, n)
    BY <1>1, <1>3
  <2>3. Cardinality(Newlines(t, n + 1)) = Cardinality(Newlines(t, n)) + 1
    BY <1>3, <2>1, <2>2, FS_AddElement
  <2>4. Max(Newlines(t, n + 1)) = n + 1
    <3>1. /\ n + 1 \in Nat /\ Newlines(t, n + 1) \subseteq 1..n + 1
          /\ n + 1 \in Newlines(t, n + 1) /\ \A i \in Newlines(t, n + 1) : n + 1 >= i
      BY <1>1, <1>3, <2>1
    <3> QED
      BY <3>1, GreatestIsMax
  <2>5. Newlines(t, n + 1) # {}
    BY <2>1
  <2>6. next.line = p.line + 1 /\ next.column = 0
    BY <1>4 DEF Advance
  <2>7. next.column = next.index - Max(Newlines(t, n + 1))
    BY <1>1, <2>4, <2>6
  <2> QED
    BY <1>1, <2>3, <2>5, <2>6, <2>7 DEF IsTrue
<1>5. CASE Peek(t, p) # "\n"
  <2>1. Newlines(t, n + 1) = Newlines(t, n)
    BY <1>1, <1>2, <1>5 DEF Newlines
  <2>2. next.line = p.line /\ next.column = p.column + 1
    BY <1>5 DEF Advance
  <2>3. PICK m : /\ m = IF Newlines(t, n) = {} THEN 0 ELSE Max(Newlines(t, n))
                 /\ p.column = n - m
    BY DEF IsTrue
  <2>4. m \in Nat
    <3>1. CASE Newlines(t, n) = {}
      BY <2>3, <3>1
    <3>2. CASE Newlines(t, n) # {}
      <4>1. Max(Newlines(t, n)) \in Newlines(t, n)
        BY <1>1, <1>3, <3>2, MaxIsGreatest
      <4> QED
        BY <1>3, <2>3, <3>2, <4>1
    <3> QED
      BY <3>1, <3>2
  <2>5. next.column = next.index - m
    BY <1>1, <2>2, <2>3, <2>4
  <2> QED
    BY <1>1, <2>1, <2>2, <2>3, <2>5 DEF IsTrue
<1> QED
  BY <1>1, <1>4, <1>5

----------------------------------------------------------------------------
(* Runs of characters *)

IsRun(t, p, chars, run) ==
  /\ run \in Seq(Char) /\ p.index + Len(run) \in p.index..Len(t)
  /\ run = SubSeq(t, p.index + 1, p.index + Len(run))
  /\ \A k \in 1..Len(run) : run[k] = t[p.index + k] /\ run[k] \in chars
  /\ \A k \in p.index + 1..p.index + Len(run) : t[k] \in chars
  /\ \/ p.index + Len(run) = Len(t)
     \/ t[p.index + Len(run) + 1] \notin chars

LEMMA RunIs ==
  ASSUME NEW t \in Seq(Char), NEW p, p.index \in 0..Len(t), NEW chars
  PROVE  IsRun(t, p, chars, Run(t, p, chars))
<1> DEFINE n == p.index
           ends == {i \in n..Len(t) : i = Len(t) \/ t[i + 1] \notin chars}
           m == Min(ends)
           run == SubSeq(t, n + 1, m)
<1>1. n \in Nat /\ Len(t) \in Nat /\ n <= Len(t)
  OBVIOUS
<1>2. ends \subseteq Nat /\ Len(t) \in ends
  BY <1>1
<1>3. m \in ends /\ \A i \in ends : m <= i
  BY <1>2, MinIsLeast
<1>4. m \in n..Len(t) /\ (m = Len(t) \/ t[m + 1] \notin chars)
  BY <1>3
<1>5. ASSUME NEW k \in n + 1..m
      PROVE  t[k] \in chars
  <2>1. k - 1 \in n..Len(t) /\ k - 1 < m /\ (k - 1) + 1 = k
    BY <1>1, <1>4
  <2>2. k - 1 \notin ends
    BY <1>1, <1>3, <1>4, <2>1
  <2> QED
    BY <2>1, <2>2
<1> HIDE DEF m
<1>6. run \in Seq(Char) /\ Len(run) = m - n /\ \A k \in 1..m - n : run[k] = t[n + k]
  <2>1. PICK lo, hi : lo = n /\ hi = m
    OBVIOUS
  <2>2. lo \in Nat /\ hi \in Nat /\ lo <= hi /\ hi <= Len(t)
    BY <1>1, <1>4, <2>1
  <2> DEFINE part == SubSeq(t, lo + 1, hi)
  <2>3. part \in Seq(Char) /\ Len(part) = hi - lo
    BY <2>2
  <2>4. \A k \in 1..hi - lo : part[k] = t[lo + k]
    BY <2>2
  <2> QED
    BY <2>1, <2>3, <2>4
<1>7. n + Len(run) = m
  BY <1>1, <1>4, <1>6
<1>8. \A k \in 1..m - n : n + k \in n + 1..m
  BY <1>1, <1>4
<1>9. Run(t, p, chars) = run
  BY DEF Run, m
<1> QED
  BY <1>4, <1>5, <1>6, <1>7, <1>8, <1>9 DEF IsRun

LEMMA AfterRun ==
  ASSUME NEW t \in Seq(Char), NEW p, p.index \in 0..Len(t), Position(p), IsTrue(t, p),
         NEW chars
  PROVE  LET run == Run(t, p, chars)
             next == After(run, p)
         IN  Position(next) /\ IsTrue(t, next) /\ next.index = p.index + Len(run)
<1> DEFINE run == Run(t, p, chars)
           n == Len(run)
<1>1. /\ run \in Seq(Char) /\ p.index + n \in p.index..Len(t)
      /\ \A k \in 1..n : run[k] = t[p.index + k]
  BY RunIs DEF IsRun
<1> HIDE DEF run
<1>2. n \in Nat /\ DOMAIN run = 1..n /\ p.index \in Nat /\ Len(t) \in Nat
  BY <1>1
<1>3. PICK g : /\ g[0] = p
               /\ \A k \in 1..n : g[k] = Advance(run[k], g[k - 1])
               /\ After(run, p) = g[n]
  BY <1>2, AfterSteps
<1> HIDE DEF n
<1> DEFINE Reached(k) == Position(g[k]) /\ IsTrue(t, g[k]) /\ g[k].index = p.index + k
           S == {k \in Nat : k <= n => Reached(k)}
<1>4. 0 \in S
  BY <1>2, <1>3
<1>5. ASSUME NEW k \in Nat, k \in S
      PROVE  k + 1 \in S
  <2> SUFFICES ASSUME k + 1 <= n
               PROVE  Reached(k + 1)
    OBVIOUS
  <2>1. Position(g[k]) /\ IsTrue(t, g[k]) /\ g[k].index = p.index + k
    BY <1>2, <1>5
  <2>2. k + 1 \in 1..n /\ (k + 1) - 1 = k
    BY <1>2
  <2>3. PICK q : q = g[k]
    OBVIOUS
  <2>4. run[k + 1] = Peek(t, q)
    <3>1. run[k + 1] = t[p.index + (k + 1)] /\ p.index + (k + 1) = (p.index + k) + 1
      BY <1>1, <1>2, <2>2
    <3>2. q.index = p.index + k /\ p.index + k < Len(t)
      BY <1>1, <1>2, <2>1, <2>2, <2>3
    <3> QED
      BY <3>1, <3>2 DEF Peek
  <2>5. g[k + 1] = Advance(Peek(t, q), q)
    BY <1>3, <2>2, <2>3, <2>4
  <2>6. Position(g[k + 1]) /\ IsTrue(t, g[k + 1]) /\ g[k + 1].index = q.index + 1
    BY <2>1, <2>3, <2>5, AdvanceIsTrue
  <2>7. g[k + 1].index = p.index + (k + 1)
    BY <1>2, <2>1, <2>3, <2>6
  <2> QED
    BY <2>6, <2>7
<1> HIDE DEF S
<1>6. n \in S
  BY <1>2, <1>4, <1>5, NumbersByInduction
<1> QED
  BY <1>2, <1>3, <1>6 DEF S, n, run

----------------------------------------------------------------------------
(* get_next_token *)

\* A token cut at a true position; a name has a character.
Placed(t, token) ==
  /\ token = [type |-> token.type, lexeme |-> token.lexeme, pos |-> token.pos]
  /\ token.type \in TokenTypes
  /\ token.type = "IDENTIFIER" => token.lexeme # <<>>
  /\ Position(token.pos) /\ IsTrue(t, token.pos)

\* What TokensCoverText asks of a token that follows the first n characters.
Covers(t, n, token) ==
  LET next == Behind(token) + 1
  IN  /\ \A k \in n + 1..Begin(token) : t[k] \in Space
      /\ SubSeq(t, token.pos.index + 1, next - 1) = token.lexeme
      /\ token.type = "LOCATION" => t[token.pos.index] = "#"
      /\ token.type = "END" => next \notin DOMAIN t \/ t[next] = NUL
      /\ /\ token.lexeme # <<>>
         /\ \A k \in DOMAIN token.lexeme : token.lexeme[k] \in IdentifierChar
         =>
         t[next] \notin IF token.type = "NUMBER" THEN Digit ELSE IdentifierChar

\* A lexer step from position p of t.
Lexed(t, p, step) ==
  /\ Placed(t, step.token)
  /\ Position(step.pos) /\ IsTrue(t, step.pos)
  /\ step.token.type # "INVALID" =>
       /\ step.pos.index \in 0..Len(t) /\ step.pos.index = Behind(step.token)
       /\ Covers(t, p.index, step.token)

LEMMA Characters ==
  /\ NUL \notin IdentifierChar /\ NUL \notin DOMAIN Atom /\ NUL # "#"
  /\ DOMAIN Atom \cap IdentifierChar = {} /\ "#" \notin DOMAIN Atom
  /\ "#" \notin IdentifierChar /\ "\n" \notin IdentifierChar /\ Digit \subseteq IdentifierChar
BY DEF NUL, IdentifierChar, Letter, Digit, Atom

\* A token that is a run of characters.
LEMMA WordLexed ==
  ASSUME NEW t \in Seq(Char), t # <<>>, t[Len(t)] \notin IdentifierChar,
         NEW from, from.index \in Nat,
         NEW p, p.index \in 0..Len(t), Position(p), IsTrue(t, p),
         NEW chars \in {Digit, IdentifierChar}, Peek(t, p) \in chars,
         NEW type \in TokenTypes \ {"END"},
         chars = IF type = "NUMBER" THEN Digit ELSE IdentifierChar,
         LET begin == IF type = "LOCATION" THEN p.index - 1 ELSE p.index
         IN  \A k \in from.index + 1..begin : t[k] \in Space,
         type = "LOCATION" => t[p.index] = "#"
  PROVE  Lexed(t, from, Word(type, Run(t, p, chars), p))
<1> DEFINE run == Run(t, p, chars)
           step == Word(type, run, p)
           n == Len(run)
<1>1. /\ run \in Seq(Char) /\ p.index + n \in p.index..Len(t)
      /\ run = SubSeq(t, p.index + 1, p.index + n)
      /\ p.index + n = Len(t) \/ t[p.index + n + 1] \notin chars
      /\ \A k \in p.index + 1..p.index + n : t[k] \in chars
  <2>1. IsRun(t, p, chars, run)
    BY RunIs
  <2> HIDE DEF run
  <2> QED
    BY <2>1 DEF IsRun
<1>2. Position(After(run, p)) /\ IsTrue(t, After(run, p)) /\ After(run, p).index = p.index + n
  BY AfterRun
<1> HIDE DEF run
<1>3. /\ step.token = [type |-> type, lexeme |-> run, pos |-> p] /\ step.pos = After(run, p)
      /\ step.token.type = type /\ step.token.lexeme = run /\ step.token.pos = p
  BY DEF Word, Token
<1>4. p.index \in Nat /\ n \in Nat /\ Len(t) \in Nat \ {0} /\ chars \subseteq IdentifierChar
  <2>1. Len(t) # 0
    BY EmptySeq
  <2>2. Digit \subseteq IdentifierChar
    BY DEF IdentifierChar
  <2> QED
    BY <1>1, <2>1, <2>2
<1>5. p.index + n # Len(t)
  <2> SUFFICES ASSUME p.index + n = Len(t)
               PROVE  FALSE
    OBVIOUS
  <2>1. CASE n = 0
    <3>1. p.index = Len(t)
      BY <1>4, <2>1
    <3> QED
      BY <1>4, <3>1, Characters DEF Peek
  <2>2. CASE n # 0
    <3>1. Len(t) \in p.index + 1..p.index + n
      BY <1>4, <2>2
    <3> QED
      BY <1>1, <1>4, <3>1
  <2> QED
    BY <2>1, <2>2
<1>6. t[p.index + n + 1] \notin chars
  BY <1>1, <1>5
<1>7. Placed(t, step.token)
  <2>1. n # 0
    BY <1>4, <1>5, <1>6 DEF Peek
  <2>2. run # <<>>
    BY <1>1, <2>1
  <2> QED
    BY <1>1, <1>3, <2>2 DEF Placed
<1>8. Behind(step.token) = p.index + n
  BY <1>3 DEF Behind
<1>9. Begin(step.token) = IF type = "LOCATION" THEN p.index - 1 ELSE p.index
  BY <1>3, <1>4 DEF Begin
<1>10. (p.index + n + 1) - 1 = p.index + n
  BY <1>4
<1>11. Covers(t, from.index, step.token)
  BY <1>1, <1>3, <1>6, <1>8, <1>9, <1>10 DEF Covers
<1>12. step.pos.index \in 0..Len(t) /\ step.pos.index = Behind(step.token)
  BY <1>1, <1>2, <1>3, <1>4, <1>8
<1> QED
  BY <1>2, <1>3, <1>7, <1>11, <1>12 DEF Lexed, run

LEMMA KeywordTypeIs ==
  ASSUME NEW lexeme
  PROVE  KeywordType(lexeme) \in StatementKeyword \cup {"MEMORY_ORDER", "IDENTIFIER"}
<1>1. CASE \E k \in StatementKeyword : Keyword[k] = lexeme
  BY <1>1 DEF KeywordType
<1>2. CASE ~\E k \in StatementKeyword : Keyword[k] = lexeme
  BY <1>2 DEF KeywordType
<1> QED
  BY <1>1, <1>2

LEMMA Singleton ==
  ASSUME NEW S, NEW s \in Seq(S), Len(s) = 1
  PROVE  s = <<s[1]>>
<1>1. s[1] \in S /\ <<s[1]>> \in Seq(S) /\ Len(<<s[1]>>) = 1 /\ <<s[1]>>[1] = s[1]
  BY ElementOfSeq
<1> QED
  BY <1>1, SeqEqual

\* A token that is one character, or none.
LEMMA AtomLexed ==
  ASSUME NEW t \in Seq(Char), NEW from, from.index \in Nat,
         NEW p, p.index \in Nat, Position(p), IsTrue(t, p),
         NEW type \in TokenTypes \ {"END", "LOCATION", "NUMBER"},
         type # "INVALID" =>
           /\ Peek(t, p) # NUL /\ Peek(t, p) \notin IdentifierChar
           /\ \A k \in from.index + 1..p.index : t[k] \in Space
  PROVE  Lexed(t, from, AtomToken(type, t, p))
<1> DEFINE step == AtomToken(type, t, p)
           c == Peek(t, p)
<1>1. /\ step.token = [type |-> type, lexeme |-> <<c>>, pos |-> p] /\ step.pos = Advance(c, p)
      /\ step.token.type = type /\ step.token.lexeme = <<c>> /\ step.token.pos = p
  BY DEF AtomToken, Token
<1>3. Placed(t, step.token)
  <2>1. <<c>> # <<>>
    OBVIOUS
  <2> QED
    BY <1>1, <2>1 DEF Placed
<1>4. Position(step.pos) /\ IsTrue(t, step.pos) /\ step.pos.index = p.index + 1
  BY <1>1, AdvanceIsTrue
<1>5. ASSUME type # "INVALID"
      PROVE  /\ step.pos.index \in 0..Len(t) /\ step.pos.index = Behind(step.token)
             /\ Covers(t, from.index, step.token)
  <2>1. p.index < Len(t) /\ c = t[p.index + 1] /\ Len(t) \in Nat
    BY <1>5 DEF Peek
  <2>2. Behind(step.token) = p.index + 1 /\ Begin(step.token) = p.index
    BY <1>1 DEF Behind, Begin
  <2>3. (p.index + 1 + 1) - 1 = p.index + 1
    OBVIOUS
  <2>4. SubSeq(t, p.index + 1, p.index + 1) = <<c>>
    <3>1. PICK i \in 1..Len(t) : i = p.index + 1 /\ t[i] = c
      BY <2>1
    <3>2. SubSeq(t, i, i) \in Seq(Char) /\ Len(SubSeq(t, i, i)) = 1 /\ SubSeq(t, i, i)[1] = t[i]
      OBVIOUS
    <3> QED
      BY <3>1, <3>2, Singleton
  <2>5. <<c>>[1] \notin IdentifierChar /\ 1 \in DOMAIN <<c>>
    BY <1>5
  <2>6. Covers(t, from.index, step.token)
    BY <1>1, <1>5, <2>2, <2>3, <2>4, <2>5 DEF Covers
  <2> QED
    BY <1>4, <2>1, <2>2, <2>6
<1> QED
  BY <1>1, <1>3, <1>4, <1>5 DEF Lexed

LEMMA NextTokenLexed ==
  ASSUME NEW t \in Seq(Char), t # <<>>, t[Len(t)] = "\n",
         NEW from, from.index \in 0..Len(t), Position(from), IsTrue(t, from)
  PROVE  Lexed(t, from, NextToken(t, from))
<1> DEFINE blank == Run(t, from, Space)
           p == SkipBlank(t, from)
           c == Peek(t, p)
<1>1. /\ from.index + Len(blank) \in from.index..Len(t)
      /\ \A k \in from.index + 1..from.index + Len(blank) : t[k] \in Space
  BY RunIs DEF IsRun
<1>2. Position(p) /\ IsTrue(t, p) /\ p.index = from.index + Len(blank)
  BY AfterRun DEF SkipBlank
<1>3. /\ p.index \in 0..Len(t) /\ p.index \in Nat /\ from.index \in Nat /\ Len(t) \in Nat
      /\ \A k \in from.index + 1..p.index : t[k] \in Space
  BY <1>1, <1>2
<1>4. t[Len(t)] \notin IdentifierChar
  BY Characters
<1> HIDE DEF p
<1>5. NextToken(t, from) =
        CASE c = NUL -> [token |-> Token("END", <<>>, p), pos |-> p]
          [] c \in Digit -> Word("NUMBER", Run(t, p, Digit), p)
          [] c \in IdentifierChar \ Digit -> KeywordOrIdentifier(t, p)
          [] c \in DOMAIN Atom -> AtomToken(Atom[c], t, p)
          [] c = "#" -> LocationToken(t, Advance(c, p))
          [] OTHER -> AtomToken("INVALID", t, p)
  BY DEF NextToken, p
<1>7. CASE c = NUL
  <2> DEFINE step == [token |-> Token("END", <<>>, p), pos |-> p]
  <2>1. NextToken(t, from) = step
    BY <1>5, Characters, <1>7
  <2>2. /\ step.token = [type |-> "END", lexeme |-> <<>>, pos |-> p] /\ step.pos = p
        /\ step.token.type = "END" /\ step.token.lexeme = <<>> /\ step.token.pos = p
    BY DEF Token
  <2>3. Placed(t, step.token)
    BY <1>2, <2>2 DEF Placed, TokenTypes
  <2>4. Behind(step.token) = p.index /\ Begin(step.token) = p.index
    BY <1>3, <2>2 DEF Behind, Begin
  <2>5. p.index + 1 \notin DOMAIN t \/ t[p.index + 1] = NUL
    BY <1>3, <1>7 DEF Peek
  <2>6. SubSeq(t, p.index + 1, (p.index + 1) - 1) = <<>>
    BY <1>3
  <2>7. Covers(t, from.index, step.token)
    BY <1>3, <2>2, <2>4, <2>5, <2>6 DEF Covers
  <2> HIDE DEF step
  <2> QED
    BY <1>2, <1>3, <2>1, <2>2, <2>3, <2>4, <2>7 DEF Lexed
<1>8. CASE c \in Digit
  <2>1. NextToken(t, from) = Word("NUMBER", Run(t, p, Digit), p)
    BY <1>5, Characters, <1>8
  <2>2. "NUMBER" \in TokenTypes \ {"END"}
    BY DEF TokenTypes
  <2> QED
    BY <1>2, <1>3, <1>4, <1>8, <2>1, <2>2, WordLexed
<1>9. CASE c \in IdentifierChar \ Digit
  <2> DEFINE type == KeywordType(Run(t, p, IdentifierChar))
  <2>1. NextToken(t, from) = Word(type, Run(t, p, IdentifierChar), p)
    BY <1>5, Characters, <1>9 DEF KeywordOrIdentifier
  <2>2. type \in TokenTypes \ {"END"} /\ type # "NUMBER" /\ type # "LOCATION"
    <3>1. type \in StatementKeyword \cup {"MEMORY_ORDER", "IDENTIFIER"}
      BY KeywordTypeIs
    <3> QED
      BY <3>1 DEF TokenTypes, StatementKeyword
  <2> HIDE DEF type
  <2> QED
    BY <1>2, <1>3, <1>4, <1>9, <2>1, <2>2, WordLexed
<1>10. CASE c \in DOMAIN Atom
  <2>1. NextToken(t, from) = AtomToken(Atom[c], t, p)
    BY <1>5, Characters, <1>10
  <2>2. Atom[c] \in TokenTypes \ {"END", "LOCATION", "NUMBER", "INVALID"}
    <3>1. Atom[c] \in {"EQ", "PLUS", "MINUS", "MULT", "DIV", "SEMICOLON"}
      BY <1>10 DEF Atom
    <3>2. Atom[c] \in Range(Atom)
      BY <1>10 DEF Range
    <3> QED
      BY <3>1, <3>2 DEF TokenTypes
  <2>3. c # NUL /\ c \notin IdentifierChar
    BY Characters, <1>10
  <2> QED
    BY <1>2, <1>3, <2>1, <2>2, <2>3, AtomLexed
<1>11. CASE c = "#"
  <2> DEFINE q == Advance(c, p)
  <2>1. NextToken(t, from) = LocationToken(t, q)
    BY <1>5, Characters, <1>11
  <2>2. Position(q) /\ IsTrue(t, q) /\ q.index = p.index + 1
    BY <1>2, AdvanceIsTrue
  <2>3. p.index < Len(t) /\ t[p.index + 1] = "#"
    BY <1>11 DEF Peek, NUL
  <2> HIDE DEF q
  <2>4. q.index \in 0..Len(t) /\ q.index \in Nat /\ q.index - 1 = p.index /\ t[q.index] = "#"
    BY <1>3, <2>2, <2>3
  <2>5. CASE Peek(t, q) \in IdentifierChar
    <3>1. LocationToken(t, q) = Word("LOCATION", Run(t, q, IdentifierChar), q)
      BY <2>5 DEF LocationToken
    <3>2. "LOCATION" \in TokenTypes \ {"END"}
      BY DEF TokenTypes
    <3> QED
      BY <1>3, <1>4, <2>1, <2>2, <2>4, <2>5, <3>1, <3>2, WordLexed
  <2>6. CASE Peek(t, q) \notin IdentifierChar
    <3>1. LocationToken(t, q) = AtomToken("INVALID", t, q)
      BY <2>6 DEF LocationToken
    <3>2. "INVALID" \in TokenTypes \ {"END", "LOCATION", "NUMBER"}
      BY DEF TokenTypes
    <3> QED
      BY <1>3, <2>1, <2>2, <2>4, <3>1, <3>2, AtomLexed
  <2> QED
    BY <2>5, <2>6
<1>12. CASE c # NUL /\ c \notin IdentifierChar /\ c \notin DOMAIN Atom /\ c # "#"
  <2>1. NextToken(t, from) = AtomToken("INVALID", t, p)
    BY <1>5, Characters, <1>12
  <2>2. "INVALID" \in TokenTypes \ {"END", "LOCATION", "NUMBER"}
    BY DEF TokenTypes
  <2> QED
    BY <1>2, <1>3, <2>1, <2>2, AtomLexed
<1> QED
  BY Characters, <1>7, <1>8, <1>9, <1>10, <1>11, <1>12
----------------------------------------------------------------------------
(* What the parser takes *)

\* The first k tokens from at on have the types of shape.
Matches(ts, at, shape, k) ==
  /\ at + k <= Len(ts) + 1
  /\ \A i \in 1..k : ts[at + i - 1].type \in shape[i]

\* Where TakeEach stands after the first k sets of shape: behind their tokens,
\* or at the first token with a type that is not expected.
Taken(ts, at, shape, k, p) ==
  /\ p = [at |-> p.at, read |-> p.read, error |-> p.error]
  /\ \/ /\ p.error = None /\ p.at = at + k
        /\ Matches(ts, at, shape, k)
        /\ p.read \in Seq({ts[i] : i \in DOMAIN ts}) /\ Len(p.read) = k
        /\ \A i \in 1..k : p.read[i] = ts[at + i - 1]
     \/ \E j \in 1..k :
          /\ p.error = Unexpected(ts, p.at, shape[j]) /\ p.at = at + j - 1
          /\ at + j - 1 <= Len(ts) + 1 /\ \A i \in 1..j - 1 : ts[at + i - 1].type \in shape[i]
          /\ TypeAt(ts, p.at) \notin shape[j]

LEMMA UnexpectedIsError ==
  ASSUME NEW ts, NEW at, NEW types
  PROVE  Unexpected(ts, at, types) # None
<1>1. Unexpected(ts, at, types).kind # None.kind
  BY DEF Unexpected, OutOfRange, None
<1> QED
  BY <1>1

LEMMA TakeTaken ==
  ASSUME NEW S, NEW ts \in Seq(S), NEW at \in 1..Len(ts) + 1, NEW shape, NEW k \in Nat,
         "NONE" \notin shape[k + 1], NEW p, Taken(ts, at, shape, k, p)
  PROVE  Taken(ts, at, shape, k + 1, Take(ts, p, shape[k + 1]))
<1> DEFINE types == shape[k + 1]
           q == Take(ts, p, types)
<1>1. p = [at |-> p.at, read |-> p.read, error |-> p.error]
  BY DEF Taken
<1>2. Len(ts) \in Nat /\ at \in Nat
  OBVIOUS
<1>3. CASE p.error # None
  <2>1. q = p
    BY <1>3 DEF Take
  <2>2. PICK j \in 1..k :
          /\ p.error = Unexpected(ts, p.at, shape[j]) /\ p.at = at + j - 1
          /\ at + j - 1 <= Len(ts) + 1 /\ \A i \in 1..j - 1 : ts[at + i - 1].type \in shape[i]
          /\ TypeAt(ts, p.at) \notin shape[j]
    BY <1>3 DEF Taken
  <2>3. j \in 1..k + 1
    OBVIOUS
  <2> QED
    BY <1>1, <2>1, <2>2, <2>3 DEF Taken
<1>4. CASE p.error = None
  <2>1. /\ p.at = at + k /\ Matches(ts, at, shape, k)
        /\ p.read \in Seq({ts[i] : i \in DOMAIN ts}) /\ Len(p.read) = k
        /\ \A i \in 1..k : p.read[i] = ts[at + i - 1]
    <3>1. \A j \in 1..k : Unexpected(ts, p.at, shape[j]) # None
      BY UnexpectedIsError
    <3> QED
      BY <1>4, <3>1 DEF Taken
  <2>2. at + k <= Len(ts) + 1 /\ \A i \in 1..k : ts[at + i - 1].type \in shape[i]
    BY <2>1 DEF Matches
  <2>3. CASE TypeAt(ts, p.at) \in types
    <3>1. q = [p EXCEPT !.at = @ + 1, !.read = Append(@, ts[p.at])]
      BY <1>4, <2>3 DEF Take
    <3>2. q.at = p.at + 1 /\ q.read = Append(p.read, ts[p.at]) /\ q.error = None
          /\ q = [at |-> q.at, read |-> q.read, error |-> q.error]
      BY <1>1, <1>4, <3>1
    <3>3. p.at <= Len(ts) /\ ts[p.at].type \in types
      BY <1>2, <2>1, <2>3 DEF TypeAt
    <3>4. p.at \in DOMAIN ts /\ at + (k + 1) - 1 = p.at /\ q.at = at + (k + 1)
      <4> HIDE DEF q, types
      <4>1. p.at \in Nat /\ p.at >= 1
        BY <1>2, <2>1
      <4>2. p.at \in DOMAIN ts
        BY <3>3, <4>1
      <4>3. at \in Nat /\ p.at = at + k /\ q.at = p.at + 1
        BY <1>2, <2>1, <3>2
      <4>4. at + (k + 1) - 1 = p.at /\ q.at = at + (k + 1)
        BY <4>3
      <4> QED
        BY <4>2, <4>4
    <3>5. Matches(ts, at, shape, k + 1)
      <4>1. at + (k + 1) <= Len(ts) + 1
        BY <1>2, <2>1, <3>3
      <4>2. \A i \in 1..k + 1 : i \in 1..k \/ i = k + 1
        OBVIOUS
      <4> QED
        BY <2>2, <3>3, <3>4, <4>1, <4>2 DEF Matches
    <3> HIDE DEF q
    <3>6. /\ q.read \in Seq({ts[i] : i \in DOMAIN ts}) /\ Len(q.read) = k + 1
          /\ \A i \in 1..k : q.read[i] = p.read[i]
          /\ q.read[k + 1] = ts[p.at]
      <4>1. PICK U : U = {ts[i] : i \in DOMAIN ts}
        OBVIOUS
      <4>2. PICK x \in U : x = ts[p.at]
        BY <3>4, <4>1
      <4>3. PICK read \in Seq(U) : read = p.read /\ Len(read) = k
        BY <2>1, <4>1
      <4>4. /\ Append(read, x) \in Seq(U) /\ Len(Append(read, x)) = k + 1
            /\ \A i \in 1..k : Append(read, x)[i] = read[i]
            /\ Append(read, x)[k + 1] = x
        BY <4>3
      <4> QED
        BY <3>2, <4>1, <4>2, <4>3, <4>4
    <3>7. \A i \in 1..k + 1 : q.read[i] = ts[at + i - 1]
      <4>1. \A i \in 1..k + 1 : i \in 1..k \/ i = k + 1
        OBVIOUS
      <4> QED
        BY <2>1, <3>4, <3>6, <4>1
    <3> QED
      BY <3>2, <3>4, <3>5, <3>6, <3>7 DEF Taken, q
  <2>4. CASE TypeAt(ts, p.at) \notin types
    <3>1. q = [p EXCEPT !.error = Unexpected(ts, p.at, types)]
      BY <1>4, <2>4 DEF Take, Fail
    <3>2. q.at = p.at /\ q.error = Unexpected(ts, p.at, types)
          /\ q = [at |-> q.at, read |-> q.read, error |-> q.error]
      BY <1>1, <3>1
    <3> HIDE DEF q
    <3>3. /\ k + 1 \in 1..k + 1 /\ q.at = at + (k + 1) - 1 /\ (k + 1) - 1 = k
          /\ at + (k + 1) - 1 <= Len(ts) + 1
      BY <1>2, <2>1, <2>2, <3>2
    <3>4. \A i \in 1..(k + 1) - 1 : ts[at + i - 1].type \in shape[i]
      BY <2>2, <3>3
    <3> QED
      BY <2>4, <3>2, <3>3, <3>4 DEF Taken, q
  <2> QED
    BY <2>3, <2>4
<1> QED
  BY <1>3, <1>4

LEMMA TakeEachTaken ==
  ASSUME NEW S, NEW ts \in Seq(S), NEW at \in 1..Len(ts) + 1,
         NEW shape, NEW n \in Nat, DOMAIN shape = 1..n, \A i \in 1..n : "NONE" \notin shape[i]
  PROVE  Taken(ts, at, shape, n, TakeEach(ts, From(at), shape))
<1>1. PICK g : /\ g[0] = From(at)
               /\ \A k \in 1..n : g[k] = Take(ts, g[k - 1], shape[k])
               /\ TakeEach(ts, From(at), shape) = g[n]
  <2>1. PICK first : first = From(at)
    OBVIOUS
  <2>2. PICK g : TakesFrom(ts, first, shape, n, g)
    BY TakeSteps
  <2> QED
    BY <2>1, <2>2 DEF TakesFrom
<1> DEFINE R == {k \in Nat : k <= n => Taken(ts, at, shape, k, g[k])}
<1>2. 0 \in R
  <2>1. /\ g[0] = [at |-> at, read |-> <<>>, error |-> None]
        /\ g[0].at = at /\ g[0].read = <<>> /\ g[0].error = None
    BY <1>1 DEF From
  <2>2. Matches(ts, at, shape, 0)
    BY DEF Matches
  <2>3. <<>> \in Seq({ts[i] : i \in DOMAIN ts}) /\ Len(<<>>) = 0 /\ at + 0 = at
    OBVIOUS
  <2>4. Taken(ts, at, shape, 0, g[0])
    BY <2>1, <2>2, <2>3 DEF Taken
  <2> QED
    BY <2>4
<1>3. ASSUME NEW k \in Nat, k \in R
      PROVE  k + 1 \in R
  <2> SUFFICES ASSUME k + 1 <= n
               PROVE  Taken(ts, at, shape, k + 1, g[k + 1])
    OBVIOUS
  <2>1. Taken(ts, at, shape, k, g[k])
    BY <1>3
  <2>2. k + 1 \in 1..n /\ (k + 1) - 1 = k
    OBVIOUS
  <2>3. g[k + 1] = Take(ts, g[k], shape[k + 1])
    <3>1. g[k + 1] = Take(ts, g[(k + 1) - 1], shape[k + 1])
      BY <1>1, <2>2
    <3> QED
      BY <2>2, <3>1
  <2>4. PICK p : p = g[k]
    OBVIOUS
  <2> QED
    BY <2>1, <2>2, <2>3, <2>4, TakeTaken
<1> HIDE DEF R
<1>4. n \in R
  BY <1>2, <1>3, NumbersByInduction
<1> QED
  BY <1>1, <1>4 DEF R

----------------------------------------------------------------------------
(* What the parser makes of it *)

\* A parse_ function that was called at token at and has not thrown: it went
\* on, though not behind the last token and over no END.
Advanced(ts, at, r) ==
  /\ r.at \in at + 1..Len(ts) + 1
  /\ \A i \in at..r.at - 1 : ts[i].type # "END"

LEMMA ShapeAdvances ==
  ASSUME NEW S, NEW ts \in Seq(S), NEW at \in 1..Len(ts) + 1,
         NEW shape, NEW n \in Nat \ {0}, DOMAIN shape = 1..n,
         \A i \in 1..n : "NONE" \notin shape[i] /\ "END" \notin shape[i],
         NEW p, p = TakeEach(ts, From(at), shape), p.error = None
  PROVE  Advanced(ts, at, p)
<1>1. Taken(ts, at, shape, n, p)
  BY TakeEachTaken
<1>2. p.at = at + n /\ Matches(ts, at, shape, n)
  <2>1. \A j \in 1..n : Unexpected(ts, p.at, shape[j]) # None
    BY UnexpectedIsError
  <2> QED
    BY <1>1, <2>1 DEF Taken
<1>3. at \in Nat /\ Len(ts) \in Nat
  OBVIOUS
<1>4. p.at \in at + 1..Len(ts) + 1
  BY <1>2, <1>3 DEF Matches
<1>5. ASSUME NEW i \in at..p.at - 1
      PROVE  ts[i].type # "END"
  <2>1. PICK j \in 1..n : i = at + j - 1
    <3>1. i - at + 1 \in 1..n /\ at + (i - at + 1) - 1 = i
      BY <1>2, <1>3
    <3> QED
      BY <3>1
  <2>2. ts[at + j - 1].type \in shape[j]
    BY <1>2 DEF Matches
  <2> QED
    BY <2>1, <2>2
<1> QED
  BY <1>4, <1>5 DEF Advanced

\* A parse_ function returns a node of this kind, unless it throws.
ParsedAs(ts, at, r, kind) ==
  /\ r = [at |-> r.at, error |-> r.error, node |-> r.node]
  /\ r.error = None => Advanced(ts, at, r) /\ r.node.kind = kind

LEMMA ShapeParsed ==
  ASSUME NEW S, NEW ts \in Seq(S), NEW at \in 1..Len(ts) + 1,
         NEW shape, NEW n \in Nat \ {0}, DOMAIN shape = 1..n,
         \A i \in 1..n : "NONE" \notin shape[i] /\ "END" \notin shape[i],
         NEW p, p = TakeEach(ts, From(at), shape), NEW node,
         NEW r, r = [at |-> p.at, error |-> p.error, node |-> IF p.error = None THEN node ELSE End]
  PROVE  ParsedAs(ts, at, r, node.kind)
<1>1. r.at = p.at /\ r.error = p.error /\ r = [at |-> r.at, error |-> r.error, node |-> r.node]
  OBVIOUS
<1>2. ASSUME r.error = None
      PROVE  Advanced(ts, at, r) /\ r.node = node
  <2>1. Advanced(ts, at, p)
    BY <1>1, <1>2, ShapeAdvances
  <2> QED
    BY <1>1, <1>2, <2>1 DEF Advanced
<1> QED
  BY <1>1, <1>2 DEF ParsedAs

LEMMA FailureParsed ==
  ASSUME NEW ts, NEW at, NEW from, NEW e, e # None, NEW kind
  PROVE  ParsedAs(ts, from, Failure(at, e), kind)
BY DEF ParsedAs, Failure

LEMMA LoadParsed ==
  ASSUME NEW S, NEW ts \in Seq(S), NEW at \in 1..Len(ts) + 1
  PROVE  ParsedAs(ts, at, ParseDoubleArgumentCall(ts, at, "LOAD", LoadTo), "load")
<1>0. PICK n \in Nat \ {0} : n = 4
  OBVIOUS
<1>1. PICK shape : shape = <<{"LOAD"}, Order, Location, Name>>
  OBVIOUS
<1>2. DOMAIN shape = 1..n /\ \A i \in 1..n : "NONE" \notin shape[i] /\ "END" \notin shape[i]
  BY <1>0, <1>1 DEF Order, Location, Name, Operator
<1>3. PICK p, node : /\ p = TakeEach(ts, From(at), shape)
                    /\ node = LoadTo(ToMemoryOrder(p.read[2].lexeme), p.read[3].lexeme, p.read[4].lexeme)
  OBVIOUS
<1>4. PICK r : r = ParseDoubleArgumentCall(ts, at, "LOAD", LoadTo)
  OBVIOUS
<1>5. r = [at |-> p.at, error |-> p.error, node |-> IF p.error = None THEN node ELSE End]
  BY <1>1, <1>3, <1>4 DEF ParseDoubleArgumentCall, ParseShape, Result
<1>6. ParsedAs(ts, at, r, node.kind)
  BY <1>2, <1>3, <1>5, ShapeParsed
<1> QED
  BY <1>3, <1>4, <1>6 DEF LoadTo

LEMMA StoreParsed ==
  ASSUME NEW S, NEW ts \in Seq(S), NEW at \in 1..Len(ts) + 1
  PROVE  ParsedAs(ts, at, ParseDoubleArgumentCall(ts, at, "STORE", StoreFrom), "store")
<1>0. PICK n \in Nat \ {0} : n = 4
  OBVIOUS
<1>1. PICK shape : shape = <<{"STORE"}, Order, Location, Name>>
  OBVIOUS
<1>2. DOMAIN shape = 1..n /\ \A i \in 1..n : "NONE" \notin shape[i] /\ "END" \notin shape[i]
  BY <1>0, <1>1 DEF Order, Location, Name, Operator
<1>3. PICK p, node : /\ p = TakeEach(ts, From(at), shape)
                    /\ node = StoreFrom(ToMemoryOrder(p.read[2].lexeme), p.read[3].lexeme, p.read[4].lexeme)
  OBVIOUS
<1>4. PICK r : r = ParseDoubleArgumentCall(ts, at, "STORE", StoreFrom)
  OBVIOUS
<1>5. r = [at |-> p.at, error |-> p.error, node |-> IF p.error = None THEN node ELSE End]
  BY <1>1, <1>3, <1>4 DEF ParseDoubleArgumentCall, ParseShape, Result
<1>6. ParsedAs(ts, at, r, node.kind)
  BY <1>2, <1>3, <1>5, ShapeParsed
<1> QED
  BY <1>3, <1>4, <1>6 DEF StoreFrom

LEMMA FaiParsed ==
  ASSUME NEW S, NEW ts \in Seq(S), NEW at \in 1..Len(ts) + 1
  PROVE  ParsedAs(ts, at, ParseFai(ts, at), "fai")
<1>0. PICK n \in Nat \ {0} : n = 4
  OBVIOUS
<1>1. PICK shape : shape = <<{"FAI"}, Order, Location, Name>>
  OBVIOUS
<1>2. DOMAIN shape = 1..n /\ \A i \in 1..n : "NONE" \notin shape[i] /\ "END" \notin shape[i]
  BY <1>0, <1>1 DEF Order, Location, Name, Operator
<1>3. PICK p, node : /\ p = TakeEach(ts, From(at), shape)
                    /\ node = Fai(ToMemoryOrder(p.read[2].lexeme), p.read[3].lexeme, p.read[4].lexeme)
  OBVIOUS
<1>4. PICK r : r = ParseFai(ts, at)
  OBVIOUS
<1>5. r = [at |-> p.at, error |-> p.error, node |-> IF p.error = None THEN node ELSE End]
  BY <1>1, <1>3, <1>4 DEF ParseFai, ParseDoubleArgumentCall, ParseShape, Result
<1>6. ParsedAs(ts, at, r, node.kind)
  BY <1>2, <1>3, <1>5, ShapeParsed
<1> QED
  BY <1>3, <1>4, <1>6 DEF Fai

LEMMA CasParsed ==
  ASSUME NEW S, NEW ts \in Seq(S), NEW at \in 1..Len(ts) + 1
  PROVE  ParsedAs(ts, at, ParseCas(ts, at), "cas")
<1>0. PICK n \in Nat \ {0} : n = 5
  OBVIOUS
<1>1. PICK shape : shape = <<{"CAS"}, Order, Location, Name, Name>>
  OBVIOUS
<1>2. DOMAIN shape = 1..n /\ \A i \in 1..n : "NONE" \notin shape[i] /\ "END" \notin shape[i]
  BY <1>0, <1>1 DEF Order, Location, Name, Operator
<1>3. PICK p, node : /\ p = TakeEach(ts, From(at), shape)
                    /\ node = Cas(ToMemoryOrder(p.read[2].lexeme), p.read[3].lexeme, p.read[4].lexeme, p.read[5].lexeme)
  OBVIOUS
<1>4. PICK r : r = ParseCas(ts, at)
  OBVIOUS
<1>5. r = [at |-> p.at, error |-> p.error, node |-> IF p.error = None THEN node ELSE End]
  BY <1>1, <1>3, <1>4 DEF ParseCas, ParseShape, Result
<1>6. ParsedAs(ts, at, r, node.kind)
  BY <1>2, <1>3, <1>5, ShapeParsed
<1> QED
  BY <1>3, <1>4, <1>6 DEF Cas

LEMMA FenceParsed ==
  ASSUME NEW S, NEW ts \in Seq(S), NEW at \in 1..Len(ts) + 1
  PROVE  ParsedAs(ts, at, ParseFence(ts, at), "fence")
<1>0. PICK n \in Nat \ {0} : n = 2
  OBVIOUS
<1>1. PICK shape : shape = <<{"FENCE"}, Order>>
  OBVIOUS
<1>2. DOMAIN shape = 1..n /\ \A i \in 1..n : "NONE" \notin shape[i] /\ "END" \notin shape[i]
  BY <1>0, <1>1 DEF Order, Location, Name, Operator
<1>3. PICK p, node : /\ p = TakeEach(ts, From(at), shape)
                    /\ node = FenceOf(ToMemoryOrder(p.read[2].lexeme))
  OBVIOUS
<1>4. PICK r : r = ParseFence(ts, at)
  OBVIOUS
<1>5. r = [at |-> p.at, error |-> p.error, node |-> IF p.error = None THEN node ELSE End]
  BY <1>1, <1>3, <1>4 DEF ParseFence, ParseShape, Result
<1>6. ParsedAs(ts, at, r, node.kind)
  BY <1>2, <1>3, <1>5, ShapeParsed
<1> QED
  BY <1>3, <1>4, <1>6 DEF FenceOf

LEMMA ConditionParsed ==
  ASSUME NEW S, NEW ts \in Seq(S), NEW at \in 1..Len(ts) + 1
  PROVE  ParsedAs(ts, at, ParseCondition(ts, at), "if")
<1>0. PICK n \in Nat \ {0} : n = 4
  OBVIOUS
<1>1. PICK shape : shape = <<{"CONDITION"}, Name, {"GOTO"}, Name>>
  OBVIOUS
<1>2. DOMAIN shape = 1..n /\ \A i \in 1..n : "NONE" \notin shape[i] /\ "END" \notin shape[i]
  BY <1>0, <1>1 DEF Order, Location, Name, Operator
<1>3. PICK p, node : /\ p = TakeEach(ts, From(at), shape)
                    /\ node = If(p.read[2].lexeme, p.read[4].lexeme)
  OBVIOUS
<1>4. PICK r : r = ParseCondition(ts, at)
  OBVIOUS
<1>5. r = [at |-> p.at, error |-> p.error, node |-> IF p.error = None THEN node ELSE End]
  BY <1>1, <1>3, <1>4 DEF ParseCondition, ParseShape, Result
<1>6. ParsedAs(ts, at, r, node.kind)
  BY <1>2, <1>3, <1>5, ShapeParsed
<1> QED
  BY <1>3, <1>4, <1>6 DEF If

LEMMA GotoParsed ==
  ASSUME NEW S, NEW ts \in Seq(S), NEW at \in 1..Len(ts) + 1
  PROVE  ParsedAs(ts, at, ParseGoto(ts, at), "goto")
<1>0. PICK n \in Nat \ {0} : n = 2
  OBVIOUS
<1>1. PICK shape : shape = <<{"GOTO"}, Name>>
  OBVIOUS
<1>2. DOMAIN shape = 1..n /\ \A i \in 1..n : "NONE" \notin shape[i] /\ "END" \notin shape[i]
  BY <1>0, <1>1 DEF Order, Location, Name, Operator
<1>3. PICK p, node : /\ p = TakeEach(ts, From(at), shape)
                    /\ node = Goto(p.read[2].lexeme)
  OBVIOUS
<1>4. PICK r : r = ParseGoto(ts, at)
  OBVIOUS
<1>5. r = [at |-> p.at, error |-> p.error, node |-> IF p.error = None THEN node ELSE End]
  BY <1>1, <1>3, <1>4 DEF ParseGoto, ParseShape, Result
<1>6. ParsedAs(ts, at, r, node.kind)
  BY <1>2, <1>3, <1>5, ShapeParsed
<1> QED
  BY <1>3, <1>4, <1>6 DEF Goto

LEMMA ThreadGotoParsed ==
  ASSUME NEW S, NEW ts \in Seq(S), NEW at \in 1..Len(ts) + 1
  PROVE  ParsedAs(ts, at, ParseThreadGoto(ts, at), "thread_goto")
<1>0. PICK n \in Nat \ {0} : n = 2
  OBVIOUS
<1>1. PICK shape : shape = <<{"THREAD_GOTO"}, Name>>
  OBVIOUS
<1>2. DOMAIN shape = 1..n /\ \A i \in 1..n : "NONE" \notin shape[i] /\ "END" \notin shape[i]
  BY <1>0, <1>1 DEF Order, Location, Name, Operator
<1>3. PICK p, node : /\ p = TakeEach(ts, From(at), shape)
                    /\ node = ThreadGoto(p.read[2].lexeme)
  OBVIOUS
<1>4. PICK r : r = ParseThreadGoto(ts, at)
  OBVIOUS
<1>5. r = [at |-> p.at, error |-> p.error, node |-> IF p.error = None THEN node ELSE End]
  BY <1>1, <1>3, <1>4 DEF ParseThreadGoto, ParseShape, Result
<1>6. ParsedAs(ts, at, r, node.kind)
  BY <1>2, <1>3, <1>5, ShapeParsed
<1> QED
  BY <1>3, <1>4, <1>6 DEF ThreadGoto

LEMMA BinopParsed ==
  ASSUME NEW S, NEW ts \in Seq(S), NEW at \in 1..Len(ts) + 1
  PROVE  ParsedAs(ts, at, ParseBinop(ts, at), "binop")
<1>0. PICK n \in Nat \ {0} : n = 3
  OBVIOUS
<1>1. PICK shape : shape = <<Name, Operator, Name>>
  OBVIOUS
<1>2. DOMAIN shape = 1..n /\ \A i \in 1..n : "NONE" \notin shape[i] /\ "END" \notin shape[i]
  BY <1>0, <1>1 DEF Order, Location, Name, Operator
<1>3. PICK p, node : /\ p = TakeEach(ts, From(at), shape)
                    /\ node = BinOp(ToBinopType(p.read[2].type), p.read[1].lexeme, p.read[3].lexeme)
  OBVIOUS
<1>4. PICK r : r = ParseBinop(ts, at)
  OBVIOUS
<1>5. r = [at |-> p.at, error |-> p.error, node |-> IF p.error = None THEN node ELSE End]
  BY <1>1, <1>3, <1>4 DEF ParseBinop, ParseShape, Result
<1>6. ParsedAs(ts, at, r, node.kind)
  BY <1>2, <1>3, <1>5, ShapeParsed
<1> QED
  BY <1>3, <1>4, <1>6 DEF BinOp

LEMMA NumberParsed ==
  ASSUME NEW S, NEW ts \in Seq(S), NEW at \in 1..Len(ts) + 1
  PROVE  ParsedAs(ts, at, ParseNumber(ts, at), "number")
<1>1. CASE ValueOf(ts[at].lexeme) > MaxInt
  <2>1. OutOfRange("stoi") # None
    BY DEF OutOfRange, None
  <2> QED
    BY <1>1, <2>1, FailureParsed DEF ParseNumber
<1>2. CASE ~(ValueOf(ts[at].lexeme) > MaxInt)
  <2>0. PICK n \in Nat \ {0} : n = 1
    OBVIOUS
  <2>1. PICK shape : shape = <<{"NUMBER"}>>
    OBVIOUS
  <2>2. DOMAIN shape = 1..n /\ \A i \in 1..n : "NONE" \notin shape[i] /\ "END" \notin shape[i]
    BY <2>0, <2>1
  <2>3. PICK p, node : /\ p = TakeEach(ts, From(at), shape)
                      /\ node = Number(ValueOf(p.read[1].lexeme))
    OBVIOUS
  <2>4. PICK r : r = ParseNumber(ts, at)
    OBVIOUS
  <2>5. r = [at |-> p.at, error |-> p.error, node |-> IF p.error = None THEN node ELSE End]
    BY <1>2, <2>1, <2>3, <2>4 DEF ParseNumber, ParseShape, Result
  <2>6. ParsedAs(ts, at, r, node.kind)
    BY <2>2, <2>3, <2>5, ShapeParsed
  <2> QED
    BY <2>3, <2>4, <2>6 DEF Number
<1> QED
  BY <1>1, <1>2

LEMMA ExpressionParsed ==
  ASSUME NEW S, NEW ts \in Seq(S), NEW at \in 1..Len(ts) + 1
  PROVE  \E kind \in ExpressionKinds : ParsedAs(ts, at, ParseExpression(ts, at), kind)
<1> DEFINE type == TypeAt(ts, at)
<1>1. CASE type = "CAS"
  BY <1>1, CasParsed DEF ParseExpression, ExpressionKinds
<1>2. CASE type = "FAI"
  BY <1>2, FaiParsed DEF ParseExpression, ExpressionKinds
<1>3. CASE type = "IDENTIFIER"
  BY <1>3, BinopParsed DEF ParseExpression, ExpressionKinds
<1>4. CASE type = "NUMBER"
  BY <1>4, NumberParsed DEF ParseExpression, ExpressionKinds
<1>5. CASE type \notin {"CAS", "FAI", "IDENTIFIER", "NUMBER"}
  <2>1. PICK types : types = {"IDENTIFIER", "NUMBER", "CAS", "FAI"}
    OBVIOUS
  <2>2. ParseExpression(ts, at) = Failure(at, Unexpected(ts, at, types))
    BY <1>5, <2>1 DEF ParseExpression
  <2> QED
    BY <2>2, UnexpectedIsError, FailureParsed DEF ExpressionKinds
<1> QED
  BY <1>1, <1>2, <1>3, <1>4, <1>5

LEMMA AssignmentParsed ==
  ASSUME NEW S, NEW ts \in Seq(S), NEW at \in 1..Len(ts) + 1
  PROVE  LET r == ParseAssignment(ts, at)
         IN  /\ ParsedAs(ts, at, r, "assign")
             /\ r.error = None => r.node.expr.kind \in ExpressionKinds
<1>0. PICK n \in Nat \ {0} : n = 2
  OBVIOUS
<1>1. PICK shape : shape = <<Name, {"EQ"}>>
  OBVIOUS
<1>2. DOMAIN shape = 1..n /\ \A i \in 1..n : "NONE" \notin shape[i] /\ "END" \notin shape[i]
  BY <1>0, <1>1 DEF Name
<1>3. PICK p : p = TakeEach(ts, From(at), shape)
  OBVIOUS
<1>4. PICK r : r = ParseAssignment(ts, at)
  OBVIOUS
<1>5. CASE p.error # None
  <2>1. r = Failure(p.at, p.error)
    BY <1>1, <1>3, <1>4, <1>5 DEF ParseAssignment
  <2>2. ParsedAs(ts, at, r, "assign")
    BY <1>5, <2>1, FailureParsed
  <2>3. r.error # None
    BY <1>5, <2>1 DEF Failure
  <2> QED
    BY <1>4, <2>2, <2>3
<1>6. CASE p.error = None
  <2>1. Advanced(ts, at, p)
    BY <1>2, <1>3, <1>6, ShapeAdvances
  <2>2. p.at \in 1..Len(ts) + 1
    BY <2>1 DEF Advanced
  <2>3. PICK value : value = ParseExpression(ts, p.at)
    OBVIOUS
  <2>4. PICK kind \in ExpressionKinds : ParsedAs(ts, p.at, value, kind)
    BY <2>2, <2>3, ExpressionParsed
  <2>5. PICK node : node = Assign(p.read[1].lexeme, value.node)
    OBVIOUS
  <2>6. r = [value EXCEPT !.node = node]
    BY <1>1, <1>3, <1>4, <1>6, <2>3, <2>5 DEF ParseAssignment
  <2>7. r = [at |-> value.at, error |-> value.error, node |-> node]
    BY <2>4, <2>6 DEF ParsedAs
  <2>8. r.at = value.at /\ r.error = value.error /\ r.node = node
    BY <2>7
  <2>9. node.kind = "assign" /\ node.expr = value.node
    BY <2>5 DEF Assign
  <2>10. ASSUME r.error = None
         PROVE  Advanced(ts, at, r) /\ value.node.kind = kind
    <3>1. Advanced(ts, p.at, value) /\ value.node.kind = kind
      BY <2>4, <2>8, <2>10 DEF ParsedAs
    <3>2. p.at \in at + 1..Len(ts) + 1 /\ value.at \in p.at + 1..Len(ts) + 1
      BY <2>1, <3>1 DEF Advanced
    <3>3. r.at \in at + 1..Len(ts) + 1
      BY <2>8, <3>2
    <3>4. \A i \in at..r.at - 1 : i \in at..p.at - 1 \/ i \in p.at..value.at - 1
      BY <2>8, <3>2
    <3>5. \A i \in at..r.at - 1 : ts[i].type # "END"
      BY <2>1, <3>1, <3>4 DEF Advanced
    <3> QED
      BY <3>1, <3>3, <3>5 DEF Advanced
  <2>11. ParsedAs(ts, at, r, "assign")
    BY <2>7, <2>8, <2>9, <2>10 DEF ParsedAs
  <2> QED
    BY <1>4, <2>8, <2>9, <2>10, <2>11
<1> QED
  BY <1>5, <1>6

\* A statement that was parsed at token "at": it is an END, or it went on over
\* tokens none of which is one.
StatementParsed(ts, at, r) ==
  r.error = None =>
    /\ r.at \in at + 1..Len(ts) + 1
    /\ r.node.kind \in StatementKinds
    /\ r.node.kind = "assign" => r.node.expr.kind \in ExpressionKinds
    /\ r.node.kind = "end" => ts[r.at - 1].type = "END"
    /\ r.node.kind # "end" => \A i \in at..r.at - 1 : ts[i].type # "END"

LEMMA KindParsed ==
  ASSUME NEW ts, NEW at, NEW r, NEW kind \in StatementKinds \ {"end", "assign"},
         ParsedAs(ts, at, r, kind)
  PROVE  StatementParsed(ts, at, r)
BY DEF ParsedAs, StatementParsed, Advanced

LEMMA UnlabeledParsed ==
  ASSUME NEW S, NEW ts \in Seq(S), NEW at \in 1..Len(ts) + 1
  PROVE  StatementParsed(ts, at, ParseUnlabeled(ts, at))
<1> DEFINE type == TypeAt(ts, at)
           r == ParseUnlabeled(ts, at)
<1>0. {"if", "goto", "thread_goto", "load", "store", "cas", "fai", "fence"}
        \subseteq StatementKinds \ {"end", "assign"}
  BY DEF StatementKinds
<1>1. CASE type = "IDENTIFIER"
  <2>1. r = ParseAssignment(ts, at)
    BY <1>1 DEF ParseUnlabeled
  <2>2. ParsedAs(ts, at, r, "assign") /\ (r.error = None => r.node.expr.kind \in ExpressionKinds)
    BY <2>1, AssignmentParsed
  <2> QED
    BY <2>2 DEF ParsedAs, StatementParsed, Advanced, StatementKinds
<1>2. CASE type = "CONDITION"
  <2>1. r = ParseCondition(ts, at)
    BY <1>2 DEF ParseUnlabeled
  <2> QED
    BY <1>0, <2>1, ConditionParsed, KindParsed
<1>3. CASE type = "GOTO"
  <2>1. r = ParseGoto(ts, at)
    BY <1>3 DEF ParseUnlabeled
  <2> QED
    BY <1>0, <2>1, GotoParsed, KindParsed
<1>4. CASE type = "THREAD_GOTO"
  <2>1. r = ParseThreadGoto(ts, at)
    BY <1>4 DEF ParseUnlabeled
  <2> QED
    BY <1>0, <2>1, ThreadGotoParsed, KindParsed
<1>5. CASE type = "LOAD"
  <2>1. r = ParseDoubleArgumentCall(ts, at, "LOAD", LoadTo)
    BY <1>5 DEF ParseUnlabeled
  <2> QED
    BY <1>0, <2>1, LoadParsed, KindParsed
<1>6. CASE type = "STORE"
  <2>1. r = ParseDoubleArgumentCall(ts, at, "STORE", StoreFrom)
    BY <1>6 DEF ParseUnlabeled
  <2> QED
    BY <1>0, <2>1, StoreParsed, KindParsed
<1>7. CASE type = "FAI"
  <2>1. r = ParseFai(ts, at)
    BY <1>7 DEF ParseUnlabeled
  <2> QED
    BY <1>0, <2>1, FaiParsed, KindParsed
<1>8. CASE type = "CAS"
  <2>1. r = ParseCas(ts, at)
    BY <1>8 DEF ParseUnlabeled
  <2> QED
    BY <1>0, <2>1, CasParsed, KindParsed
<1>9. CASE type = "FENCE"
  <2>1. r = ParseFence(ts, at)
    BY <1>9 DEF ParseUnlabeled
  <2> QED
    BY <1>0, <2>1, FenceParsed, KindParsed
<1>10. CASE type = "END"
  <2>0. PICK n \in Nat : n = 1
    OBVIOUS
  <2>1. PICK shape : shape = <<{"END"}>>
    OBVIOUS
  <2>2. DOMAIN shape = 1..n /\ \A i \in 1..n : "NONE" \notin shape[i]
    BY <2>0, <2>1
  <2>3. PICK p : p = TakeEach(ts, From(at), shape)
    OBVIOUS
  <2>4. r = [at |-> p.at, error |-> p.error, node |-> IF p.error = None THEN End ELSE End]
    BY <1>10, <2>1, <2>3 DEF ParseUnlabeled, ParseShape, Result
  <2>5. r.at = p.at /\ r.error = p.error /\ r.node.kind = "end"
    BY <2>4 DEF End
  <2>6. Taken(ts, at, shape, n, p)
    BY <2>2, <2>3, TakeEachTaken
  <2>7. ASSUME p.error = None
        PROVE  p.at = at + n /\ Matches(ts, at, shape, n)
    <3>1. \A j \in 1..n : Unexpected(ts, p.at, shape[j]) # None
      BY UnexpectedIsError
    <3> QED
      BY <2>6, <2>7, <3>1 DEF Taken
  <2>8. ASSUME p.error = None
        PROVE  p.at \in at + 1..Len(ts) + 1 /\ ts[p.at - 1].type = "END"
    <3>1. p.at = at + 1 /\ at + 1 <= Len(ts) + 1 /\ ts[at + 1 - 1].type \in shape[1]
      BY <2>0, <2>7, <2>8 DEF Matches
    <3>2. at + 1 - 1 = at /\ p.at - 1 = at
      BY <3>1
    <3> QED
      BY <2>1, <3>1, <3>2
  <2> QED
    BY <2>5, <2>8 DEF StatementParsed, StatementKinds
<1>11. CASE type \notin {"IDENTIFIER", "CONDITION", "GOTO", "THREAD_GOTO", "LOAD", "STORE",
                         "FAI", "CAS", "FENCE", "END"}
  <2>1. r = Failure(at, Unexpected(ts, at, StatementStart))
    BY <1>11 DEF ParseUnlabeled
  <2>2. r.error # None
    BY <2>1, UnexpectedIsError DEF Failure
  <2> QED
    BY <2>2 DEF StatementParsed
<1> QED
  BY <1>1, <1>2, <1>3, <1>4, <1>5, <1>6, <1>7, <1>8, <1>9, <1>10, <1>11

LEMMA ParseStatementParsed ==
  ASSUME NEW S, NEW ts \in Seq(S), NEW at \in 1..Len(ts) + 1
  PROVE  StatementParsed(ts, at, ParseStatement(ts, at))
<1> DEFINE labeled == IsLabeled(ts, at)
           start == IF labeled THEN at + 2 ELSE at
<1>1. PICK parsed : parsed = ParseUnlabeled(ts, start)
  OBVIOUS
<1>2. PICK r : r = ParseStatement(ts, at)
  OBVIOUS
<1>3. r = [at |-> parsed.at, error |-> parsed.error, node |-> parsed.node,
           label |-> IF labeled THEN ts[at].lexeme ELSE <<>>]
  BY <1>1, <1>2 DEF ParseStatement
<1>4. r.at = parsed.at /\ r.error = parsed.error /\ r.node = parsed.node
  BY <1>3
<1>5. start \in at..Len(ts) + 1 /\ \A i \in at..start - 1 : ts[i].type # "END"
  <2>1. CASE labeled
    <3>1. at < Len(ts) /\ ts[at].type = "IDENTIFIER" /\ ts[at + 1].type = "SEMICOLON"
      BY <2>1 DEF IsLabeled
    <3>2. start = at + 2 /\ \A i \in at..start - 1 : i = at \/ i = at + 1
      BY <2>1
    <3>3. start \in at..Len(ts) + 1
      BY <3>1, <3>2
    <3> QED
      BY <3>1, <3>2, <3>3
  <2>2. CASE ~labeled
    BY <2>2
  <2> QED
    BY <2>1, <2>2
<1> HIDE DEF start
<1>6. start \in 1..Len(ts) + 1
  BY <1>5
<1>7. StatementParsed(ts, start, parsed)
  BY <1>1, <1>6, UnlabeledParsed
<1>8. ASSUME r.error = None
      PROVE  /\ r.at \in at + 1..Len(ts) + 1
             /\ r.node.kind # "end" => \A i \in at..r.at - 1 : ts[i].type # "END"
  <2>1. /\ parsed.at \in start + 1..Len(ts) + 1
        /\ parsed.node.kind # "end" => \A i \in start..parsed.at - 1 : ts[i].type # "END"
    BY <1>4, <1>7, <1>8 DEF StatementParsed
  <2>2. r.at \in at + 1..Len(ts) + 1
    BY <1>4, <1>5, <2>1
  <2>3. \A i \in at..r.at - 1 : i \in at..start - 1 \/ i \in start..parsed.at - 1
    BY <1>4, <1>5, <2>1
  <2> QED
    BY <1>4, <1>5, <2>1, <2>2, <2>3
<1> QED
  BY <1>2, <1>4, <1>7, <1>8 DEF StatementParsed
----------------------------------------------------------------------------
(* The invariant *)

\* The options are those that the arguments before the n-th ask for last.
AskedFor(o, argv, n) ==
  /\ DOMAIN o = {"file", "mm", "it"}
  /\ \A name \in DOMAIN OptionName :
       LET given == {i \in 1..Len(argv) - 1 :
                       i < n /\ argv[i] = name /\ Extracted(argv[i + 1]) # NoWord}
           default == [file |-> NoWord, mm |-> "sc", it |-> "nd"]
       IN  o[OptionName[name]] =
             IF given = {} THEN default[OptionName[name]] ELSE Extracted(argv[Max(given) + 1])

\* Where the last token ends.
Reached(ts) == IF ts = <<>> THEN 0 ELSE Behind(ts[Len(ts)])

\* The tokens so far; one that ends the lexer's loop is the last.
TokensOK(t, ts) ==
  /\ ts \in Seq({ts[i] : i \in DOMAIN ts})
  /\ \A i \in DOMAIN ts :
       /\ Placed(t, ts[i])
       /\ ts[i].type # "INVALID" => Covers(t, IF i = 1 THEN 0 ELSE Behind(ts[i - 1]), ts[i])
       /\ ts[i].type \in {"END", "INVALID"} => i = Len(ts)

\* While the lexer runs it stands behind the last token, and has met no end.
LexerOK ==
  /\ opts.file \in DOMAIN input.files
  /\ Position(pos) /\ IsTrue(text, pos) /\ pos.index \in 0..Len(text)
  /\ pos.index = Reached(tokens)
  /\ \A i \in DOMAIN tokens : tokens[i].type \notin {"END", "INVALID"}

Ended(ts) == ts # <<>> /\ ts[Len(ts)].type \in {"END", "INVALID"}

\* The statements parsed so far: only the last can be an end, and it is one if
\* and only if all tokens have been read.
NodesOK(ns, finished) ==
  /\ ns \in Seq({ns[i] : i \in DOMAIN ns})
  /\ \A i \in DOMAIN ns :
       /\ ns[i].node.kind \in StatementKinds
       /\ ns[i].node.kind = "assign" => ns[i].node.expr.kind \in ExpressionKinds
       /\ ns[i].node.kind = "end" <=> i = Len(ns) /\ finished

\* The labels of the statements before the n-th.
LabelsOK(ls, ns, n) ==
  /\ DOMAIN ls \subseteq {ns[i].label : i \in DOMAIN ns}
  /\ \A label \in DOMAIN ls : ls[label] \in DOMAIN ns
  /\ \A i \in DOMAIN ns :
       i < n /\ ns[i].label # <<>> => ns[i].label \in DOMAIN ls /\ ls[ns[i].label] = i

Ending == {"failed", "aborted"}

(***************************************************************************)
(* The inductive invariant.  Beyond the properties: what has been done of   *)
(* the loop main is in, where the lexer stands, and that parsing begins     *)
(* with an END or an INVALID behind all other tokens.                       *)
(***************************************************************************)
IInv ==
  /\ input \in Inputs
  /\ phase \in {"options", "open", "lex", "parse", "label", "run"} \cup Ending
  /\ phase \in Ending <=> error # None
  /\ AskedFor(opts, input.argv, IF phase = "options" THEN cursor ELSE Len(input.argv) + 1)
  /\ phase = "options" => cursor \in 1..Len(input.argv) + 1
  /\ phase \in {"options", "open"} => tokens = <<>> /\ pos = Start
  /\ phase \in {"open", "lex"} => cursor = 1
  /\ phase = "lex" => LexerOK
  /\ phase \in {"options", "open", "lex"} => nodes = <<>>
  /\ phase \in {"options", "open", "lex", "parse"} => labels = EmptyMap
  /\ TokensOK(text, tokens)
  /\ phase \in {"parse", "label", "run"} =>
       Ended(tokens) /\ NodesOK(nodes, phase # "parse" \/ cursor > Len(tokens))
  /\ phase = "parse" => /\ cursor \in 1..Len(tokens) + 1 /\ Len(nodes) < cursor
                        /\ nodes = <<>> => cursor = 1
  /\ phase \in {"label", "run"} =>
       /\ nodes # <<>> /\ Len(nodes) <= Len(tokens)
       /\ LabelsOK(labels, nodes, IF phase = "label" THEN cursor ELSE Len(nodes) + 1)
  /\ phase = "label" => cursor \in 1..Len(nodes) + 1
  /\ phase = "run" => cursor = 1
  /\ phase \in Ending =>
       /\ cursor \in 1..Len(input.argv) + Len(tokens) + 1
       /\ Len(nodes) \in 0..Len(tokens)
       /\ DOMAIN labels \subseteq {nodes[i].label : i \in DOMAIN nodes}

LEMMA TextIs ==
  ASSUME IInv, opts.file \in DOMAIN input.files
  PROVE  text \in Seq(Char) /\ text # <<>> /\ text[Len(text)] = "\n"
<1>1. PICK s : s = input.files[opts.file]
  OBVIOUS
<1>2. s \in Seq(STRING)
  BY <1>1, InputsAssumption DEF IInv
<1>3. Len(s) \in Nat
  BY <1>2
<1>4. Append(s, "\n") \in Seq(Char)
  BY <1>2 DEF Char
<1>5. Len(Append(s, "\n")) = Len(s) + 1 /\ Append(s, "\n")[Len(s) + 1] = "\n"
  BY <1>2, <1>3
<1>6. Append(s, "\n") # <<>>
  BY <1>3, <1>5
<1> QED
  BY <1>1, <1>4, <1>5, <1>6 DEF text

LEMMA InitInv == Init => IInv
<1> SUFFICES ASSUME Init
             PROVE  IInv
  OBVIOUS
<1> USE DEF Init
<1>1. AskedFor(opts, input.argv, 1)
  <2>1. DOMAIN opts = {"file", "mm", "it"}
    OBVIOUS
  <2>2. \A i \in 1..Len(input.argv) - 1 : ~(i < 1)
    OBVIOUS
  <2> QED
    BY <2>1, <2>2 DEF AskedFor
<1>2. 1 \in 1..Len(input.argv) + 1
  BY InputsAssumption
<1>3. TokensOK(text, tokens)
  BY DEF TokensOK
<1> QED
  BY <1>1, <1>2, <1>3 DEF IInv, Ending

\* The option that argument n names takes the argument behind it.
LEMMA AskedNext ==
  ASSUME NEW argv \in Seq(STRING), NEW n \in 1..Len(argv), NEW o, AskedFor(o, argv, n),
         NEW q,
         q = IF argv[n] \in DOMAIN OptionName /\ n < Len(argv) /\ Extracted(argv[n + 1]) # NoWord
             THEN [o EXCEPT ![OptionName[argv[n]]] = Extracted(argv[n + 1])]
             ELSE o
  PROVE  AskedFor(q, argv, n + 1)
<1> DEFINE Given(name, k) == {i \in 1..Len(argv) - 1 :
                                i < k /\ argv[i] = name /\ Extracted(argv[i + 1]) # NoWord}
           default == [file |-> NoWord, mm |-> "sc", it |-> "nd"]
           Newest(name, k) == IF Given(name, k) = {} THEN default[OptionName[name]]
                              ELSE Extracted(argv[Max(Given(name, k)) + 1])
<1>1. DOMAIN o = {"file", "mm", "it"} /\ \A name \in DOMAIN OptionName : o[OptionName[name]] = Newest(name, n)
  BY DEF AskedFor
<1>2. DOMAIN OptionName = {"--file", "--mm", "--it"} /\ OptionName["--file"] = "file"
      /\ OptionName["--mm"] = "mm" /\ OptionName["--it"] = "it"
  BY DEF OptionName
<1>3. DOMAIN q = {"file", "mm", "it"}
  BY <1>1
<1>4. ASSUME NEW name \in DOMAIN OptionName
      PROVE  q[OptionName[name]] = Newest(name, n + 1)
  <2>1. CASE argv[n] = name /\ n < Len(argv) /\ Extracted(argv[n + 1]) # NoWord
    <3>1. q = [o EXCEPT ![OptionName[name]] = Extracted(argv[n + 1])]
      BY <2>1
    <3>2. OptionName[name] \in DOMAIN o
      BY <1>1, <1>2
    <3>3. q[OptionName[name]] = Extracted(argv[n + 1])
      BY <3>1, <3>2
    <3>4. n \in Given(name, n + 1)
      BY <2>1
    <3>5. \A i \in Given(name, n + 1) : n >= i
      OBVIOUS
    <3>6. Given(name, n + 1) \subseteq 1..Len(argv)
      OBVIOUS
    <3> HIDE DEF Given
    <3>7. PICK m \in Nat : m = Len(argv)
      OBVIOUS
    <3>8. Max(Given(name, n + 1)) = n
      BY <3>4, <3>5, <3>6, <3>7, GreatestIsMax
    <3> QED
      BY <3>3, <3>4, <3>8
  <2>2. CASE ~(argv[n] = name /\ n < Len(argv) /\ Extracted(argv[n + 1]) # NoWord)
    <3>1. Given(name, n + 1) = Given(name, n)
      <4>1. ASSUME NEW i \in 1..Len(argv) - 1
            PROVE  i < n + 1 /\ argv[i] = name /\ Extracted(argv[i + 1]) # NoWord
                     <=> i < n /\ argv[i] = name /\ Extracted(argv[i + 1]) # NoWord
        BY <2>2
      <4> QED
        BY <4>1
    <3>2. q[OptionName[name]] = o[OptionName[name]]
      <4>1. CASE argv[n] \in DOMAIN OptionName /\ n < Len(argv) /\ Extracted(argv[n + 1]) # NoWord
        <5>1. argv[n] # name
          BY <2>2, <4>1
        <5>2. OptionName[argv[n]] # OptionName[name]
          BY <1>2, <4>1, <5>1
        <5>3. q = [o EXCEPT ![OptionName[argv[n]]] = Extracted(argv[n + 1])]
          BY <4>1
        <5>4. OptionName[name] \in DOMAIN o
          BY <1>1, <1>2
        <5> QED
          BY <5>2, <5>3, <5>4
      <4>2. CASE ~(argv[n] \in DOMAIN OptionName /\ n < Len(argv) /\ Extracted(argv[n + 1]) # NoWord)
        BY <4>2
      <4> QED
        BY <4>1, <4>2
    <3> QED
      BY <1>1, <3>1, <3>2
  <2> QED
    BY <2>1, <2>2
<1> QED
  BY <1>3, <1>4 DEF AskedFor

LEMMA SequenceOver ==
  ASSUME NEW S, NEW s \in Seq(S), NEW T, \A i \in DOMAIN s : s[i] \in T
  PROVE  s \in Seq(T)
OBVIOUS

\* The lexer's next token.
LEMMA TokenLexed ==
  ASSUME NEW t, NEW ts, TokensOK(t, ts), NEW p, p.index = Reached(ts),
         \A i \in DOMAIN ts : ts[i].type \notin {"END", "INVALID"},
         NEW step, Lexed(t, p, step)
  PROVE  LET more == Append(ts, step.token)
         IN  /\ TokensOK(t, more) /\ more # <<>> /\ more[Len(more)] = step.token
             /\ step.token.type # "INVALID" =>
                  step.pos.index \in 0..Len(t) /\ step.pos.index = Reached(more)
             /\ step.token.type \notin {"END", "INVALID"} =>
                  \A i \in DOMAIN more : more[i].type \notin {"END", "INVALID"}
<1> DEFINE more == Append(ts, step.token)
<1>1. PICK token : token = step.token
  OBVIOUS
<1>2. PICK n \in Nat : n = Len(ts)
  BY DEF TokensOK
<1>3. /\ Len(more) = n + 1 /\ DOMAIN more = 1..n + 1 /\ more[n + 1] = token
      /\ \A i \in 1..n : more[i] = ts[i]
  BY <1>1, <1>2 DEF TokensOK
<1>4. more \in Seq({more[i] : i \in DOMAIN more})
  <2>1. ts \in Seq({more[i] : i \in DOMAIN more})
    <3>1. \A i \in DOMAIN ts : ts[i] \in {more[j] : j \in DOMAIN more}
      BY <1>2, <1>3 DEF TokensOK
    <3>2. PICK S : ts \in Seq(S)
      BY DEF TokensOK
    <3> QED
      BY <3>1, <3>2, SequenceOver
  <2>2. token \in {more[i] : i \in DOMAIN more}
    BY <1>2, <1>3
  <2> HIDE DEF more
  <2>3. Append(ts, token) \in Seq({more[i] : i \in DOMAIN more})
    BY <2>1, <2>2
  <2> QED
    BY <1>1, <2>3 DEF more
<1>5. /\ DOMAIN ts = 1..n
      /\ \A i \in 1..n : /\ Placed(t, ts[i]) /\ ts[i].type \notin {"END", "INVALID"}
                         /\ Covers(t, IF i = 1 THEN 0 ELSE Behind(ts[i - 1]), ts[i])
  <2>1. PICK S : ts \in Seq(S)
    BY DEF TokensOK
  <2>2. DOMAIN ts = 1..n
    BY <1>2, <2>1
  <2>3. \A i \in DOMAIN ts :
          /\ Placed(t, ts[i])
          /\ ts[i].type # "INVALID" => Covers(t, IF i = 1 THEN 0 ELSE Behind(ts[i - 1]), ts[i])
    BY DEF TokensOK
  <2> QED
    BY <2>2, <2>3
<1>6. /\ Placed(t, token)
      /\ token.type # "INVALID" => /\ step.pos.index \in 0..Len(t)
                                   /\ step.pos.index = Behind(token)
                                   /\ Covers(t, p.index, token)
  BY <1>1 DEF Lexed
<1>7. p.index = IF n + 1 = 1 THEN 0 ELSE Behind(more[(n + 1) - 1])
  <2>1. CASE n = 0
    <3>1. ts = <<>>
      <4>1. PICK S : ts \in Seq(S)
        BY DEF TokensOK
      <4> QED
        BY <1>2, <2>1, <4>1, EmptySeq
    <3> QED
      BY <2>1, <3>1 DEF Reached
  <2>2. CASE n # 0
    <3>1. ts # <<>> /\ (n + 1) - 1 \in 1..n /\ (n + 1) - 1 = n
      BY <1>2, <2>2
    <3> QED
      BY <1>2, <1>3, <3>1 DEF Reached
  <2> QED
    BY <2>1, <2>2
<1>8. ASSUME NEW i \in 1..n + 1
      PROVE  /\ Placed(t, more[i])
             /\ more[i].type # "INVALID" =>
                  Covers(t, IF i = 1 THEN 0 ELSE Behind(more[i - 1]), more[i])
             /\ more[i].type \in {"END", "INVALID"} => i = n + 1
  <2>1. CASE i = n + 1
    BY <1>3, <1>6, <1>7, <2>1
  <2>2. CASE i # n + 1
    <3>1. i \in 1..n /\ more[i] = ts[i] /\ (i # 1 => more[i - 1] = ts[i - 1])
      <4>1. i \in 1..n /\ (i # 1 => i - 1 \in 1..n)
        BY <2>2
      <4> QED
        BY <1>3, <4>1
    <3> QED
      BY <1>5, <3>1
  <2> QED
    BY <2>1, <2>2
<1>9. TokensOK(t, more)
  BY <1>3, <1>4, <1>8 DEF TokensOK
<1>10. more # <<>> /\ more[Len(more)] = token
  BY <1>2, <1>3
<1> HIDE DEF more
<1>11. token.type # "INVALID" => step.pos.index \in 0..Len(t) /\ step.pos.index = Reached(more)
  BY <1>6, <1>10 DEF Reached
<1>12. token.type \notin {"END", "INVALID"} =>
         \A i \in DOMAIN more : more[i].type \notin {"END", "INVALID"}
  <2>1. \A i \in 1..n + 1 : i \in 1..n \/ i = n + 1
    OBVIOUS
  <2> QED
    BY <1>3, <1>5, <2>1
<1> QED
  BY <1>1, <1>9, <1>10, <1>11, <1>12 DEF more

\* With the statement read at "at", the statements are more.
StatementAdded(ts, ns, at, r, more) ==
  /\ NodesOK(more, r.at > Len(ts)) /\ Len(more) = Len(ns) + 1
  /\ r.at \in at + 1..Len(ts) + 1

\* The parser's next statement.
LEMMA StatementAppended ==
  ASSUME NEW t, NEW ts, TokensOK(t, ts), Ended(ts), \A i \in DOMAIN ts : ts[i].type # "INVALID",
         NEW at \in 1..Len(ts), NEW ns, NodesOK(ns, FALSE),
         NEW r, StatementParsed(ts, at, r), r.error = None, NEW label
  PROVE  StatementAdded(ts, ns, at, r, Append(ns, [label |-> label, node |-> r.node]))
<1> DEFINE new == [label |-> label, node |-> r.node]
           more == Append(ns, new)
<1>1. /\ r.at \in at + 1..Len(ts) + 1
      /\ r.node.kind \in StatementKinds
      /\ r.node.kind = "assign" => r.node.expr.kind \in ExpressionKinds
      /\ r.node.kind = "end" => ts[r.at - 1].type = "END"
      /\ r.node.kind # "end" => \A i \in at..r.at - 1 : ts[i].type # "END"
  BY DEF StatementParsed
<1>2. PICK m \in Nat : m = Len(ts)
  BY DEF TokensOK
<1>3. DOMAIN ts = 1..m /\ (\A i \in 1..m : ts[i].type = "END" => i = m) /\ ts[m].type = "END" /\ m # 0
  <2>1. DOMAIN ts = 1..m /\ \A i \in 1..m : ts[i].type = "END" => i = m
    BY <1>2 DEF TokensOK
  <2>2. m # 0
    BY <1>2
  <2> QED
    BY <1>2, <2>1, <2>2 DEF Ended
<1>4. r.node.kind = "end" <=> r.at > m
  <2>1. r.at - 1 \in 1..m /\ r.at - 1 \in at..r.at - 1
    BY <1>1, <1>2
  <2>2. CASE r.node.kind = "end"
    <3>1. r.at - 1 = m
      BY <1>1, <1>3, <2>1, <2>2
    <3> QED
      BY <1>1, <1>2, <2>2, <3>1
  <2>3. CASE r.node.kind # "end"
    <3>1. m \notin at..r.at - 1
      BY <1>1, <1>3, <2>3
    <3>2. ~(r.at > m)
      BY <1>1, <1>2, <3>1
    <3> QED
      BY <2>3, <3>2
  <2> QED
    BY <2>2, <2>3
<1>5. PICK n \in Nat : n = Len(ns)
  BY DEF NodesOK
<1>6. PICK x : x = new
  OBVIOUS
<1>7. x.node = r.node /\ more = Append(ns, x)
  BY <1>6
<1> HIDE DEF new
<1>8. /\ Len(more) = n + 1 /\ DOMAIN more = 1..n + 1 /\ more[n + 1] = x
      /\ DOMAIN ns = 1..n /\ \A i \in 1..n : more[i] = ns[i]
  BY <1>5, <1>7 DEF NodesOK
<1>9. more \in Seq({more[i] : i \in DOMAIN more})
  <2>1. ns \in Seq({more[i] : i \in DOMAIN more})
    <3>1. \A i \in DOMAIN ns : ns[i] \in {more[j] : j \in DOMAIN more}
      BY <1>5, <1>8
    <3>2. PICK S : ns \in Seq(S)
      BY DEF NodesOK
    <3> QED
      BY <3>1, <3>2, SequenceOver
  <2>2. x \in {more[i] : i \in DOMAIN more}
    BY <1>5, <1>8
  <2> HIDE DEF more
  <2>3. Append(ns, x) \in Seq({more[i] : i \in DOMAIN more})
    BY <2>1, <2>2
  <2> QED
    BY <1>7, <2>3
<1> HIDE DEF more
<1>10. ASSUME NEW i \in 1..n + 1
       PROVE  /\ more[i].node.kind \in StatementKinds
              /\ more[i].node.kind = "assign" => more[i].node.expr.kind \in ExpressionKinds
              /\ more[i].node.kind = "end" <=> i = n + 1 /\ r.at > m
  <2>1. CASE i = n + 1
    BY <1>1, <1>4, <1>7, <1>8, <2>1
  <2>2. CASE i # n + 1
    <3>1. i \in 1..n /\ more[i] = ns[i]
      BY <1>8, <2>2
    <3> QED
      BY <1>5, <1>8, <2>2, <3>1 DEF NodesOK
  <2> QED
    BY <2>1, <2>2
<1>11. NodesOK(more, r.at > m)
  BY <1>8, <1>9, <1>10 DEF NodesOK
<1> QED
  BY <1>1, <1>2, <1>5, <1>8, <1>11 DEF more, new, StatementAdded

\* The label table's next label.
LEMMA LabelAdded ==
  ASSUME NEW ns, NEW n \in DOMAIN ns, DOMAIN ns \subseteq Int, NEW ls, LabelsOK(ls, ns, n),
         ns[n].label \notin DOMAIN ls
  PROVE  LabelsOK(IF ns[n].label = <<>> THEN ls ELSE Put(ls, ns[n].label, n), ns, n + 1)
<1> DEFINE label == ns[n].label
           next == IF label = <<>> THEN ls ELSE Put(ls, label, n)
<1>1. /\ DOMAIN ls \subseteq {ns[i].label : i \in DOMAIN ns}
      /\ \A l \in DOMAIN ls : ls[l] \in DOMAIN ns
      /\ \A i \in DOMAIN ns : i < n /\ ns[i].label # <<>> =>
           ns[i].label \in DOMAIN ls /\ ls[ns[i].label] = i
  BY DEF LabelsOK
<1>2. \A i \in DOMAIN ns : i < n + 1 => i < n \/ i = n
  OBVIOUS
<1>3. CASE label = <<>>
  BY <1>1, <1>2, <1>3 DEF LabelsOK
<1>4. CASE label # <<>>
  <2>1. /\ DOMAIN next = DOMAIN ls \cup {label} /\ next[label] = n
        /\ \A l \in DOMAIN ls : next[l] = ls[l]
    BY <1>4 DEF Put
  <2> HIDE DEF next
  <2>2. LabelsOK(next, ns, n + 1)
    BY <1>1, <1>2, <2>1 DEF LabelsOK
  <2> QED
    BY <2>2 DEF next
<1> QED
  BY <1>3, <1>4

----------------------------------------------------------------------------
(* The actions *)

\* The number of arguments.
LEMMA Arguments == IInv => input.argv \in Seq(STRING) /\ Len(input.argv) \in Nat
<1> SUFFICES ASSUME IInv
             PROVE  input.argv \in Seq(STRING) /\ Len(input.argv) \in Nat
  OBVIOUS
<1>1. input.argv \in Seq(STRING)
  BY InputsAssumption DEF IInv
<1> QED
  BY <1>1

LEMMA Lengths == IInv => Len(tokens) \in Nat /\ DOMAIN tokens = 1..Len(tokens)
BY DEF IInv, TokensOK

\* An exception leaves all else alone.
LEMMA ThrowInv ==
  ASSUME IInv, phase \in {"options", "open", "parse", "label"},
         phase = "options" => cursor > Len(input.argv),
         NEW e, e # None, Throw(e),
         UNCHANGED <<input, cursor, opts, pos, tokens, nodes, labels>>
  PROVE  IInv'
<1>1. phase' \in Ending /\ error' = e
  BY DEF Throw, Ending
<1>2. text' = text
  BY DEF text
<1>3. PICK l \in Nat, m \in Nat : l = Len(input.argv) /\ m = Len(tokens)
  BY Arguments, Lengths
<1>4. AskedFor(opts, input.argv, l + 1)
  <2>1. CASE phase = "options"
    <3>1. cursor = l + 1
      BY <1>3, <2>1 DEF IInv
    <3> QED
      BY <2>1, <3>1 DEF IInv
  <2>2. CASE phase # "options"
    BY <1>3, <2>2 DEF IInv
  <2> QED
    BY <2>1, <2>2
<1>5. /\ Len(nodes) \in 0..m /\ cursor \in 1..l + m + 1
      /\ DOMAIN labels \subseteq {nodes[i].label : i \in DOMAIN nodes}
  <2>1. CASE phase \in {"options", "open"}
    BY <1>3, <2>1 DEF IInv, EmptyMap
  <2>2. CASE phase = "parse"
    <3>1. Len(nodes) \in Nat
      BY <2>2 DEF IInv, NodesOK
    <3> QED
      BY <1>3, <2>2, <3>1 DEF IInv, EmptyMap
  <2>3. CASE phase = "label"
    <3>1. Len(nodes) \in Nat /\ Len(nodes) <= m /\ cursor \in 1..Len(nodes) + 1
      BY <1>3, <2>3 DEF IInv, NodesOK
    <3>2. DOMAIN labels \subseteq {nodes[i].label : i \in DOMAIN nodes}
      BY <2>3 DEF IInv, LabelsOK
    <3> QED
      BY <3>1, <3>2
  <2> QED
    BY <2>1, <2>2, <2>3
<1>6. TokensOK(text, tokens)' /\ AskedFor(opts, input.argv, Len(input.argv) + 1)'
  BY <1>2, <1>3, <1>4 DEF IInv
<1>7. /\ phase' \notin {"options", "open", "lex", "parse", "label", "run"}
      /\ input' \in Inputs /\ error' # None
  BY <1>1 DEF Ending, IInv
<1>8. /\ cursor' \in 1..Len(input'.argv) + Len(tokens') + 1
      /\ Len(nodes') \in 0..Len(tokens')
      /\ DOMAIN labels' \subseteq {nodes'[i].label : i \in DOMAIN nodes'}
  BY <1>3, <1>5
<1> QED
  BY <1>1, <1>6, <1>7, <1>8 DEF IInv

LEMMA ParseArgumentInv == IInv /\ ParseArgument => IInv'
<1> SUFFICES ASSUME IInv, ParseArgument
             PROVE  IInv'
  OBVIOUS
<1>1. /\ phase = "options" /\ cursor <= Len(input.argv)
      /\ opts' = OptionsAfter(input.argv, cursor) /\ cursor' = cursor + 1
      /\ UNCHANGED <<input, phase, pos, tokens, nodes, labels, error>>
  BY DEF ParseArgument
<1>2. PICK argv, n, o, q : argv = input.argv /\ n = cursor /\ o = opts /\ q = opts'
  OBVIOUS
<1>3. argv \in Seq(STRING) /\ n \in 1..Len(argv) /\ AskedFor(o, argv, n)
  BY <1>1, <1>2, Arguments DEF IInv
<1>4. AskedFor(q, argv, n + 1)
  BY <1>1, <1>2, <1>3, AskedNext DEF OptionsAfter
<1>5. TokensOK(text, tokens)'
  BY <1>1 DEF IInv, TokensOK
<1>6. cursor' \in 1..Len(input'.argv) + 1
  BY <1>1, <1>2, <1>3
<1> QED
  BY <1>1, <1>2, <1>4, <1>5, <1>6 DEF IInv, Ending

LEMMA CheckOptionsInv == IInv /\ CheckOptions => IInv'
<1> SUFFICES ASSUME IInv, CheckOptions
             PROVE  IInv'
  OBVIOUS
<1>1. /\ phase = "options" /\ cursor > Len(input.argv)
      /\ UNCHANGED <<input, opts, pos, tokens, nodes, labels>>
  BY DEF CheckOptions
<1>2. CASE OptionsAccepted
  <2>1. phase' = "open" /\ cursor' = 1 /\ UNCHANGED error
    BY <1>2 DEF CheckOptions, Goes
  <2>2. AskedFor(opts, input.argv, Len(input.argv) + 1)
    <3>1. cursor = Len(input.argv) + 1
      BY <1>1, Arguments DEF IInv
    <3> QED
      BY <1>1, <3>1 DEF IInv
  <2>3. TokensOK(text, tokens)'
    BY <1>1 DEF IInv, TokensOK, text
  <2> QED
    BY <1>1, <2>1, <2>2, <2>3 DEF IInv, Ending
<1>3. CASE ~OptionsAccepted
  <2>1. PICK e : e = [kind |-> "invalid_arguments"]
    OBVIOUS
  <2>2. e # None
    <3>1. e.kind # None.kind
      BY <2>1 DEF None
    <3> QED
      BY <3>1
  <2>3. Throw(e) /\ UNCHANGED cursor
    BY <1>3, <2>1 DEF CheckOptions
  <2> QED
    BY <1>1, <2>2, <2>3, ThrowInv
<1> QED
  BY <1>2, <1>3

LEMMA OpenFileInv == IInv /\ OpenFile => IInv'
<1> SUFFICES ASSUME IInv, OpenFile
             PROVE  IInv'
  OBVIOUS
<1>1. phase = "open" /\ UNCHANGED <<input, opts, pos, tokens, nodes, labels>>
  BY DEF OpenFile
<1>2. CASE opts.file \in DOMAIN input.files
  <2>1. phase' = "lex" /\ cursor' = 1 /\ UNCHANGED error
    BY <1>2 DEF OpenFile, Goes
  <2>2. text' = text
    BY <1>1 DEF text
  <2>3. LexerOK
    <3>1. PICK t : t = text
      OBVIOUS
    <3>2. Len(t) \in Nat
      BY <1>2, <3>1, TextIs
    <3>3. Position(Start) /\ IsTrue(t, Start)
      BY StartIsTrue
    <3>4. Start.index = 0 /\ tokens = <<>> /\ pos = Start /\ DOMAIN tokens = {}
      BY <1>1 DEF IInv, Start
    <3> QED
      BY <1>2, <3>1, <3>2, <3>3, <3>4 DEF LexerOK, Reached
  <2>4. LexerOK'
    BY <1>1, <2>2, <2>3 DEF LexerOK
  <2>5. TokensOK(text, tokens)'
    BY <1>1, <2>2 DEF IInv
  <2> QED
    BY <1>1, <2>1, <2>4, <2>5 DEF IInv, Ending
<1>3. CASE opts.file \notin DOMAIN input.files
  <2>1. PICK e : e = [kind |-> "unable_to_open_file"]
    OBVIOUS
  <2>2. e # None
    <3>1. e.kind # None.kind
      BY <2>1 DEF None
    <3> QED
      BY <3>1
  <2>3. Throw(e) /\ UNCHANGED cursor
    BY <1>3, <2>1 DEF OpenFile
  <2> QED
    BY <1>1, <2>2, <2>3, ThrowInv
<1> QED
  BY <1>2, <1>3

LEMMA LexTokenInv == IInv /\ LexToken => IInv'
<1> SUFFICES ASSUME IInv, LexToken
             PROVE  IInv'
  OBVIOUS
<1>1. PICK step : step = NextToken(text, pos)
  OBVIOUS
<1>2. /\ phase = "lex"
      /\ tokens' = Append(tokens, step.token) /\ pos' = step.pos
      /\ IF step.token.type \in {"END", "INVALID"} THEN Goes("parse")
         ELSE UNCHANGED <<phase, cursor, error>>
      /\ UNCHANGED <<input, opts, nodes, labels>>
  BY <1>1 DEF LexToken
<1>3. LexerOK /\ TokensOK(text, tokens) /\ nodes = <<>> /\ labels = EmptyMap /\ cursor = 1
  BY <1>2 DEF IInv
<1>4. PICK t, ts, p : t = text /\ ts = tokens /\ p = pos
  OBVIOUS
<1>5. t \in Seq(Char) /\ t # <<>> /\ t[Len(t)] = "\n"
  BY <1>3, <1>4, TextIs DEF LexerOK
<1>6. /\ Position(p) /\ IsTrue(t, p) /\ p.index \in 0..Len(t) /\ p.index = Reached(ts)
      /\ \A i \in DOMAIN ts : ts[i].type \notin {"END", "INVALID"}
  BY <1>3, <1>4 DEF LexerOK
<1>7. Lexed(t, p, step)
  BY <1>1, <1>4, <1>5, <1>6, NextTokenLexed
<1>8. PICK more : more = Append(ts, step.token)
  OBVIOUS
<1>9. /\ TokensOK(t, more) /\ more # <<>> /\ more[Len(more)] = step.token
      /\ step.token.type # "INVALID" =>
           step.pos.index \in 0..Len(t) /\ step.pos.index = Reached(more)
      /\ step.token.type \notin {"END", "INVALID"} =>
           \A i \in DOMAIN more : more[i].type \notin {"END", "INVALID"}
  BY <1>3, <1>4, <1>6, <1>7, <1>8, TokenLexed
<1>10. text' = t /\ tokens' = more
  BY <1>2, <1>4, <1>8 DEF text
<1>11. TokensOK(text, tokens)'
  BY <1>9, <1>10
<1>12. input' \in Inputs /\ AskedFor(opts, input.argv, Len(input.argv) + 1)' /\ error = None
  BY <1>2 DEF IInv, Ending
<1>13. CASE step.token.type \in {"END", "INVALID"}
  <2>1. phase' = "parse" /\ cursor' = 1 /\ error' = None
    BY <1>2, <1>12, <1>13 DEF Goes
  <2>2. Ended(tokens)'
    BY <1>9, <1>10, <1>13 DEF Ended
  <2>3. Len(more) \in Nat /\ Len(more) # 0
    <3>1. PICK S : more \in Seq(S)
      BY <1>9 DEF TokensOK
    <3> QED
      BY <1>9, <3>1, EmptySeq
  <2>4. nodes' = <<>> /\ labels' = EmptyMap
    BY <1>2, <1>3
  <2>5. NodesOK(nodes, phase # "parse" \/ cursor > Len(tokens))'
    BY <2>4 DEF NodesOK
  <2>6. cursor' \in 1..Len(tokens') + 1 /\ Len(nodes') < cursor'
    BY <1>10, <2>1, <2>3, <2>4
  <2> QED
    BY <1>11, <1>12, <2>1, <2>2, <2>4, <2>5, <2>6 DEF IInv, Ending
<1>14. CASE step.token.type \notin {"END", "INVALID"}
  <2>1. phase' = "lex" /\ cursor' = 1 /\ error' = None
    BY <1>2, <1>3, <1>12, <1>14
  <2>2. Position(step.pos) /\ IsTrue(t, step.pos)
    BY <1>7 DEF Lexed
  <2>3. LexerOK'
    BY <1>2, <1>3, <1>9, <1>10, <1>14, <2>2 DEF LexerOK
  <2> QED
    BY <1>2, <1>3, <1>11, <1>12, <2>1, <2>3 DEF IInv, Ending
<1> QED
  BY <1>13, <1>14

LEMMA RejectTokenInv == IInv /\ RejectToken => IInv'
<1> SUFFICES ASSUME IInv, RejectToken
             PROVE  IInv'
  OBVIOUS
<1>1. PICK e : e = [kind |-> "invalid_token", at |-> Min(Invalid)]
  OBVIOUS
<1>2. e # None
  <2>1. e.kind # None.kind
    BY <1>1 DEF None
  <2> QED
    BY <2>1
<1>3. phase = "parse" /\ Throw(e) /\ UNCHANGED <<input, cursor, opts, pos, tokens, nodes, labels>>
  BY <1>1 DEF RejectToken
<1> QED
  BY <1>2, <1>3, ThrowInv

LEMMA ParseNextInv == IInv /\ ParseNext => IInv'
<1> SUFFICES ASSUME IInv, ParseNext
             PROVE  IInv'
  OBVIOUS
<1>1. PICK r : r = ParseStatement(tokens, cursor)
  OBVIOUS
<1>2. /\ phase = "parse" /\ Invalid = {} /\ cursor <= Len(tokens)
      /\ UNCHANGED <<input, opts, pos, tokens, labels>>
  BY DEF ParseNext
<1>3. PICK t, ts, at, ns : t = text /\ ts = tokens /\ at = cursor /\ ns = nodes
  OBVIOUS
<1>4. /\ TokensOK(t, ts) /\ Ended(ts) /\ at \in 1..Len(ts) /\ Len(ts) \in Nat
      /\ labels = EmptyMap /\ error = None /\ Len(ns) < at
  BY <1>2, <1>3, Lengths DEF IInv, Ending
<1>5. \A i \in DOMAIN ts : ts[i].type # "INVALID"
  BY <1>2, <1>3 DEF Invalid
<1>6. NodesOK(ns, FALSE) /\ Len(ns) \in Nat
  <2>1. ~(at > Len(ts))
    BY <1>4
  <2>2. NodesOK(nodes, phase # "parse" \/ cursor > Len(tokens))
    BY <1>2 DEF IInv
  <2>3. NodesOK(ns, FALSE)
    BY <1>2, <1>3, <2>1, <2>2 DEF NodesOK
  <2> QED
    BY <2>3 DEF NodesOK
<1>7. StatementParsed(ts, at, r)
  <2>1. PICK S : ts \in Seq(S)
    BY <1>4 DEF TokensOK
  <2>2. at \in 1..Len(ts) + 1
    BY <1>4
  <2> QED
    BY <1>1, <1>3, <2>1, <2>2, ParseStatementParsed
<1>8. CASE r.error = None
  <2>1. PICK label : label = r.label
    OBVIOUS
  <2>2. PICK more : more = Append(ns, [label |-> label, node |-> r.node])
    OBVIOUS
  <2>3. nodes' = more /\ cursor' = r.at /\ UNCHANGED <<phase, error>>
    BY <1>1, <1>3, <1>8, <2>1, <2>2 DEF ParseNext
  <2>4. /\ NodesOK(more, r.at > Len(ts)) /\ Len(more) = Len(ns) + 1
        /\ r.at \in at + 1..Len(ts) + 1
    <3>1. StatementAdded(ts, ns, at, r, more)
      BY <1>4, <1>5, <1>6, <1>7, <1>8, <2>2, StatementAppended
    <3> QED
      BY <3>1 DEF StatementAdded
  <2>5. NodesOK(nodes, phase # "parse" \/ cursor > Len(tokens))'
    BY <1>2, <1>3, <2>3, <2>4 DEF NodesOK
  <2>6. r.at \in 1..Len(ts) + 1 /\ Len(more) < r.at /\ more # <<>>
    <3>1. r.at \in 1..Len(ts) + 1 /\ Len(more) < r.at /\ Len(more) # 0
      BY <1>4, <1>6, <2>4
    <3> QED
      BY <3>1
  <2>7. text' = text
    BY <1>2 DEF text
  <2>8. TokensOK(text, tokens)' /\ Ended(tokens)' /\ phase' = "parse" /\ labels' = EmptyMap
        /\ error' = None
    BY <1>2, <1>3, <1>4, <2>3, <2>7
  <2>9. input' \in Inputs /\ AskedFor(opts, input.argv, Len(input.argv) + 1)'
    BY <1>2 DEF IInv
  <2>10. cursor' \in 1..Len(tokens') + 1 /\ Len(nodes') < cursor' /\ nodes' # <<>>
    BY <1>2, <1>3, <2>3, <2>6
  <2> QED
    BY <2>5, <2>8, <2>9, <2>10 DEF IInv, Ending
<1>9. CASE r.error # None
  <2>1. PICK e : e = r.error
    OBVIOUS
  <2>2. e # None /\ Throw(e) /\ UNCHANGED <<nodes, cursor>>
    BY <1>1, <1>9, <2>1 DEF ParseNext
  <2> QED
    BY <1>2, <2>2, ThrowInv
<1> QED
  BY <1>8, <1>9

LEMMA ParsedInv == IInv /\ Parsed => IInv'
<1> SUFFICES ASSUME IInv, Parsed
             PROVE  IInv'
  OBVIOUS
<1>1. /\ phase = "parse" /\ Invalid = {} /\ cursor > Len(tokens)
      /\ phase' = "label" /\ cursor' = 1 /\ UNCHANGED error
      /\ UNCHANGED <<input, opts, pos, tokens, nodes, labels>>
  BY DEF Parsed, Goes
<1>2. /\ Ended(tokens) /\ labels = EmptyMap /\ error = None
      /\ cursor \in 1..Len(tokens) + 1 /\ Len(nodes) < cursor /\ (nodes = <<>> => cursor = 1)
  BY <1>1 DEF IInv, Ending
<1>3. NodesOK(nodes, TRUE) /\ Len(nodes) \in Nat
  <2>1. NodesOK(nodes, phase # "parse" \/ cursor > Len(tokens))
    BY <1>1 DEF IInv
  <2>2. NodesOK(nodes, TRUE)
    BY <1>1, <2>1 DEF NodesOK
  <2> QED
    BY <2>2 DEF NodesOK
<1>4. nodes # <<>> /\ Len(nodes) <= Len(tokens)
  <2>1. Len(tokens) \in Nat /\ Len(tokens) # 0
    <3>1. PICK S : tokens \in Seq(S)
      BY DEF IInv, TokensOK
    <3> QED
      BY <1>2, <3>1, EmptySeq DEF Ended
  <2>2. cursor # 1
    BY <1>1, <2>1
  <2> QED
    BY <1>2, <1>3, <2>1, <2>2
<1>5. LabelsOK(labels, nodes, 1)
  <2>1. \A i \in DOMAIN nodes : ~(i < 1)
    BY <1>3 DEF NodesOK
  <2>2. DOMAIN labels = {}
    BY <1>2 DEF EmptyMap
  <2> QED
    BY <2>1, <2>2 DEF LabelsOK
<1>6. text' = text
  BY <1>1 DEF text
<1>7. /\ TokensOK(text, tokens)' /\ Ended(tokens)' /\ input' \in Inputs
      /\ AskedFor(opts, input.argv, Len(input.argv) + 1)'
  BY <1>1, <1>2, <1>6 DEF IInv
<1>8. NodesOK(nodes, phase # "parse" \/ cursor > Len(tokens))'
  BY <1>1, <1>3 DEF NodesOK
<1>9. cursor' \in 1..Len(nodes') + 1
  BY <1>1, <1>3
<1> QED
  BY <1>1, <1>2, <1>4, <1>5, <1>7, <1>8, <1>9 DEF IInv, Ending

LEMMA LabelStatementInv == IInv /\ LabelStatement => IInv'
<1> SUFFICES ASSUME IInv, LabelStatement
             PROVE  IInv'
  OBVIOUS
<1>1. /\ phase = "label" /\ cursor <= Len(nodes)
      /\ UNCHANGED <<input, opts, pos, tokens, nodes>>
  BY DEF LabelStatement
<1>2. PICK ns, n, ls : ns = nodes /\ n = cursor /\ ls = labels
  OBVIOUS
<1>3. /\ NodesOK(ns, TRUE) /\ LabelsOK(ls, ns, n) /\ n \in 1..Len(ns) /\ Len(ns) \in Nat
      /\ DOMAIN ns = 1..Len(ns) /\ error = None
  <2>1. NodesOK(nodes, phase # "parse" \/ cursor > Len(tokens)) /\ cursor \in 1..Len(nodes) + 1
        /\ LabelsOK(labels, nodes, cursor) /\ error = None
    BY <1>1 DEF IInv, Ending
  <2>2. NodesOK(ns, TRUE)
    BY <1>1, <1>2, <2>1 DEF NodesOK
  <2>3. Len(ns) \in Nat /\ DOMAIN ns = 1..Len(ns)
    BY <2>2 DEF NodesOK
  <2>4. n \in 1..Len(ns) + 1 /\ n <= Len(ns) /\ LabelsOK(ls, ns, n)
    BY <1>1, <1>2, <2>1
  <2>5. n \in 1..Len(ns)
    BY <2>3, <2>4
  <2> QED
    BY <2>1, <2>2, <2>3, <2>4, <2>5
<1>4. CASE ns[n].label \in DOMAIN ls
  <2>1. PICK e : e = [kind |-> "multiple_statements_with_same_label"]
    OBVIOUS
  <2>2. e # None
    <3>1. e.kind # None.kind
      BY <2>1 DEF None
    <3> QED
      BY <3>1
  <2>3. Throw(e) /\ UNCHANGED <<labels, cursor>>
    BY <1>2, <1>4, <2>1 DEF LabelStatement
  <2> QED
    BY <1>1, <2>2, <2>3, ThrowInv
<1>5. CASE ns[n].label \notin DOMAIN ls
  <2>1. PICK next : next = IF ns[n].label = <<>> THEN ls ELSE Put(ls, ns[n].label, n)
    OBVIOUS
  <2>2. labels' = next /\ cursor' = n + 1 /\ UNCHANGED <<phase, error>>
    BY <1>2, <1>5, <2>1 DEF LabelStatement, Labelled
  <2>3. LabelsOK(next, ns, n + 1)
    <3>1. n \in DOMAIN ns /\ DOMAIN ns \subseteq Int
      BY <1>3
    <3> QED
      BY <1>3, <1>5, <2>1, <3>1, LabelAdded
  <2>4. text' = text
    BY <1>1 DEF text
  <2>5. /\ TokensOK(text, tokens)' /\ Ended(tokens)' /\ input' \in Inputs
        /\ AskedFor(opts, input.argv, Len(input.argv) + 1)'
        /\ nodes' # <<>> /\ Len(nodes') <= Len(tokens')
    BY <1>1, <2>4 DEF IInv
  <2>6. NodesOK(nodes, phase # "parse" \/ cursor > Len(tokens))'
    BY <1>1, <1>2, <1>3, <2>2 DEF NodesOK
  <2>7. cursor' \in 1..Len(nodes') + 1
    BY <1>1, <1>2, <1>3, <2>2
  <2>8. LabelsOK(labels, nodes, cursor)'
    BY <1>1, <1>2, <2>2, <2>3
  <2> QED
    BY <1>1, <1>3, <2>2, <2>5, <2>6, <2>7, <2>8 DEF IInv, Ending
<1> QED
  BY <1>4, <1>5

LEMMA RunInterpreterInv == IInv /\ RunInterpreter => IInv'
<1> SUFFICES ASSUME IInv, RunInterpreter
             PROVE  IInv'
  OBVIOUS
<1>1. /\ phase = "label" /\ cursor > Len(nodes)
      /\ phase' = "run" /\ cursor' = 1 /\ UNCHANGED error
      /\ UNCHANGED <<input, opts, pos, tokens, nodes, labels>>
  BY DEF RunInterpreter, Goes
<1>2. NodesOK(nodes, phase # "parse" \/ cursor > Len(tokens)) /\ cursor \in 1..Len(nodes) + 1
      /\ LabelsOK(labels, nodes, cursor) /\ error = None
  BY <1>1 DEF IInv, Ending
<1>3. cursor = Len(nodes) + 1
  <2>1. Len(nodes) \in Nat
    BY <1>2 DEF NodesOK
  <2> QED
    BY <1>1, <1>2, <2>1
<1>4. text' = text
  BY <1>1 DEF text
<1>5. /\ TokensOK(text, tokens)' /\ Ended(tokens)' /\ input' \in Inputs
      /\ AskedFor(opts, input.argv, Len(input.argv) + 1)'
      /\ nodes' # <<>> /\ Len(nodes') <= Len(tokens')
  BY <1>1, <1>4 DEF IInv
<1>6. NodesOK(nodes, phase # "parse" \/ cursor > Len(tokens))'
  BY <1>1, <1>2 DEF NodesOK
<1>7. LabelsOK(labels, nodes, Len(nodes) + 1)'
  BY <1>1, <1>2, <1>3
<1> QED
  BY <1>1, <1>2, <1>5, <1>6, <1>7 DEF IInv, Ending

LEMMA NextInv == IInv /\ [Next]_vars => IInv'
<1> SUFFICES ASSUME IInv, [Next]_vars
             PROVE  IInv'
  OBVIOUS
<1>1. CASE ParseArgument
  BY <1>1, ParseArgumentInv
<1>2. CASE CheckOptions
  BY <1>2, CheckOptionsInv
<1>3. CASE OpenFile
  BY <1>3, OpenFileInv
<1>4. CASE LexToken
  BY <1>4, LexTokenInv
<1>5. CASE RejectToken
  BY <1>5, RejectTokenInv
<1>6. CASE ParseNext
  BY <1>6, ParseNextInv
<1>7. CASE Parsed
  BY <1>7, ParsedInv
<1>8. CASE LabelStatement
  BY <1>8, LabelStatementInv
<1>9. CASE RunInterpreter
  BY <1>9, RunInterpreterInv
<1>10. CASE UNCHANGED vars
  <2>1. text' = text
    BY <1>10 DEF vars, text
  <2>2. TokensOK(text, tokens)' = TokensOK(text, tokens)
    BY <1>10, <2>1 DEF vars
  <2>3. LexerOK' = LexerOK
    BY <1>10, <2>1 DEF vars, LexerOK
  <2> QED
    BY <1>10, <2>2, <2>3 DEF vars, IInv
<1> QED
  BY <1>1, <1>2, <1>3, <1>4, <1>5, <1>6, <1>7, <1>8, <1>9, <1>10 DEF Next

LEMMA Invariance == Spec => []IInv
<1>1. Init => IInv
  BY InitInv
<1>2. IInv /\ [Next]_vars => IInv'
  BY NextInv
<1> QED
  BY <1>1, <1>2, PTL DEF Spec

----------------------------------------------------------------------------
(* The theorems *)

\* For any arguments, files and keywords, main ends by at most one exception,
\* and ends for good: no loop runs behind the end of what it reads, no more
\* statements are parsed than there are tokens, and the label table names
\* labels of statements only.
THEOREM TypeCorrectness == Spec => []TypeOK
<1>1. IInv => TypeOK
  <2> SUFFICES ASSUME IInv
               PROVE  TypeOK
    OBVIOUS
  <2>1. PICK l \in Nat, m \in Nat : l = Len(input.argv) /\ m = Len(tokens)
    BY Arguments, Lengths
  <2>2. \A i \in DOMAIN tokens : tokens[i].type \in TokenTypes
    BY DEF IInv, TokensOK, Placed
  <2>3. Len(nodes) \in Nat /\ Len(nodes) <= m
    <3>1. CASE phase \in {"options", "open", "lex"}
      BY <2>1, <3>1 DEF IInv
    <3>2. CASE phase = "parse"
      <4>1. Len(nodes) \in Nat
        BY <3>2 DEF IInv, NodesOK
      <4> QED
        BY <2>1, <3>2, <4>1 DEF IInv
    <3>3. CASE phase \in {"label", "run"}
      <4>1. Len(nodes) \in Nat
        BY <3>3 DEF IInv, NodesOK
      <4> QED
        BY <2>1, <3>3, <4>1 DEF IInv
    <3>4. CASE phase \in Ending
      BY <2>1, <3>4 DEF IInv
    <3> QED
      BY <3>1, <3>2, <3>3, <3>4 DEF IInv
  <2>4. cursor \in 1..l + m + 1
    <3>1. CASE phase = "options"
      <4>1. cursor \in 1..l + 1
        BY <2>1, <3>1 DEF IInv
      <4> QED
        BY <4>1
    <3>2. CASE phase \in {"open", "lex", "run"}
      BY <3>2 DEF IInv
    <3>3. CASE phase = "parse"
      <4>1. cursor \in 1..m + 1
        BY <2>1, <3>3 DEF IInv
      <4> QED
        BY <4>1
    <3>4. CASE phase = "label"
      <4>1. cursor \in 1..Len(nodes) + 1
        BY <3>4 DEF IInv
      <4> QED
        BY <2>3, <4>1
    <3>5. CASE phase \in Ending
      BY <2>1, <3>5 DEF IInv
    <3> QED
      BY <3>1, <3>2, <3>3, <3>4, <3>5 DEF IInv
  <2>5. DOMAIN labels \subseteq {nodes[i].label : i \in DOMAIN nodes}
    <3>1. CASE phase \in {"options", "open", "lex", "parse"}
      BY <3>1 DEF IInv, EmptyMap
    <3>2. CASE phase \in {"label", "run"}
      BY <3>2 DEF IInv, LabelsOK
    <3>3. CASE phase \in Ending
      BY <3>3 DEF IInv
    <3> QED
      BY <3>1, <3>2, <3>3 DEF IInv
  <2>6. /\ phase \in {"options", "open", "lex", "parse", "label", "run", "failed", "aborted"}
        /\ phase \in {"failed", "aborted"} <=> error # None
    BY DEF IInv, Ending
  <2> QED
    BY <2>1, <2>2, <2>3, <2>4, <2>5, <2>6 DEF TypeOK
<1> QED
  BY <1>1, Invariance, PTL

\* For any files and keywords, the lexer neither loses nor repeats nor cuts
\* short a character of the text, and ends with its first END or INVALID.
THEOREM NothingLost == Spec => []TokensCoverText
<1>1. IInv => TokensCoverText
  <2> SUFFICES ASSUME IInv
               PROVE  TokensCoverText
    OBVIOUS
  <2>1. ASSUME NEW i \in DOMAIN tokens, tokens[i].type # "INVALID"
        PROVE  Covers(text, IF i = 1 THEN 0 ELSE Behind(tokens[i - 1]), tokens[i])
    BY <2>1 DEF IInv, TokensOK
  <2>2. ASSUME NEW i \in DOMAIN tokens, tokens[i].type \in {"END", "INVALID"}
        PROVE  i = Len(tokens) /\ phase # "lex"
    <3>1. i = Len(tokens)
      BY <2>2 DEF IInv, TokensOK
    <3>2. phase = "lex" => tokens[i].type \notin {"END", "INVALID"}
      BY DEF IInv, LexerOK
    <3> QED
      BY <2>2, <3>1, <3>2
  <2> QED
    BY <2>1, <2>2 DEF TokensCoverText, Covers, Space
<1> QED
  BY <1>1, Invariance, PTL

\* For any files, the line and the column of every token, which the exceptions
\* print, are those of the text.
THEOREM TruePositions == Spec => []PositionsAreTrue
<1>1. IInv => PositionsAreTrue
  <2> SUFFICES ASSUME IInv, NEW i \in DOMAIN tokens
               PROVE  IsTrue(text, tokens[i].pos)
    BY DEF PositionsAreTrue, IsTrue, Newlines
  <2> QED
    BY DEF IInv, TokensOK, Placed
<1> QED
  BY <1>1, Invariance, PTL

\* For any files, what interpreters take for granted of their program: it has
\* statements, the last is its only End, and its labels are places in it.
THEOREM WellFormedPrograms == Spec => []ProgramIsWellFormed
<1>1. IInv => ProgramIsWellFormed
  <2> SUFFICES ASSUME IInv, phase = "run"
               PROVE  /\ WellFormed(program)
                      /\ \A i \in DOMAIN nodes :
                           nodes[i].label # <<>> =>
                             nodes[i].label \in DOMAIN labels /\ labels[nodes[i].label] = i
    BY DEF ProgramIsWellFormed
  <2>1. /\ NodesOK(nodes, TRUE) /\ nodes # <<>>
        /\ LabelsOK(labels, nodes, Len(nodes) + 1)
    <3>1. NodesOK(nodes, phase # "parse" \/ cursor > Len(tokens))
      BY DEF IInv
    <3>2. NodesOK(nodes, TRUE)
      BY <3>1 DEF NodesOK
    <3> QED
      BY <3>2 DEF IInv
  <2>2. PICK n \in Nat : n = Len(nodes) /\ DOMAIN nodes = 1..n
    BY <2>1 DEF NodesOK
  <2>3. PICK s : s = [i \in DOMAIN nodes |-> nodes[i].node]
    OBVIOUS
  <2>4. /\ program = [statements |-> s, labels |-> labels]
        /\ program.statements = s /\ program.labels = labels
    BY <2>3 DEF program
  <2>5. /\ DOMAIN s = 1..n /\ Len(s) = n /\ s # <<>> /\ s \in Seq({s[i] : i \in DOMAIN s})
        /\ \A i \in 1..n : s[i] = nodes[i].node
    <3>1. DOMAIN s = 1..n /\ \A i \in 1..n : s[i] = nodes[i].node
      BY <2>2, <2>3
    <3>2. n # 0
      <4>1. PICK S : nodes \in Seq(S)
        BY <2>1 DEF NodesOK
      <4> QED
        BY <2>1, <2>2, <4>1, EmptySeq
    <3>3. s \in Seq({s[i] : i \in 1..n})
      BY <2>2, <2>3
    <3>4. Len(s) = n /\ s \in Seq({s[i] : i \in DOMAIN s})
      BY <3>1, <3>3
    <3> QED
      BY <3>1, <3>2, <3>4
  <2>6. \A i \in 1..n : /\ s[i].kind \in StatementKinds
                        /\ s[i].kind = "end" <=> i = n
                        /\ s[i].kind = "assign" => s[i].expr.kind \in ExpressionKinds
    BY <2>1, <2>2, <2>5 DEF NodesOK
  <2>7. \A label \in DOMAIN labels : labels[label] \in 1..n
    BY <2>1, <2>2 DEF LabelsOK
  <2>8. WellFormed(program)
    <3>1. PICK p : p = program
      OBVIOUS
    <3>2. p.statements = s /\ p.labels = labels
      BY <2>4, <3>1
    <3>3. WellFormed(p)
      BY <2>5, <2>6, <2>7, <3>2 DEF WellFormed
    <3> QED
      BY <3>1, <3>3
  <2>9. \A i \in DOMAIN nodes : i < Len(nodes) + 1
    BY <2>2
  <2> QED
    BY <2>1, <2>8, <2>9 DEF LabelsOK
<1> QED
  BY <1>1, Invariance, PTL

\* For any arguments, an interpreter runs with the file, the memory model and
\* the mode that the arguments name last, or with main's own.
THEOREM OptionsAsAsked == Spec => []RunsAsAsked
<1>1. IInv => RunsAsAsked
  <2> SUFFICES ASSUME IInv, phase = "run"
               PROVE  RunsAsAsked
    BY DEF RunsAsAsked
  <2>1. AskedFor(opts, input.argv, Len(input.argv) + 1)
    BY DEF IInv
  <2>2. \A i \in 1..Len(input.argv) - 1 : i < Len(input.argv) + 1
    BY Arguments
  <2> QED
    BY <2>1, <2>2 DEF AskedFor, RunsAsAsked
<1> QED
  BY <1>1, Invariance, PTL


----------------------------------------------------------------------------
(* The forms of a statement.  It is determined by whether it has a label    *)
(* (two tokens), whether it assigns (two tokens), and the type of the token *)
(* behind these, its head.                                                  *)

ValueHeads == {"NUMBER", "IDENTIFIER", "CAS", "FAI"}

InstructionHeads ==
  {"CONDITION", "GOTO", "THREAD_GOTO", "FENCE", "CAS", "FAI", "LOAD", "STORE"}

Heads == ValueHeads \cup InstructionHeads \cup {"END"}

Forms ==
  {f \in [label : {0, 2}, target : {0, 2}, head : Heads] :
     IF f.target = 0 THEN f.head \in InstructionHeads \cup {"END"} ELSE f.head \in ValueHeads}

\* The types of the tokens from the head on.
Body(head) ==
  CASE head \in {"NUMBER", "END"} -> <<{head}>>
    [] head = "IDENTIFIER" -> <<Name, Operator, Name>>
    [] head = "CONDITION" -> <<{"CONDITION"}, Name, {"GOTO"}, Name>>
    [] head \in {"GOTO", "THREAD_GOTO"} -> <<{head}, Name>>
    [] head = "FENCE" -> <<{"FENCE"}, Order>>
    [] head = "CAS" -> <<{"CAS"}, Order, Location, Name, Name>>
    [] head \in {"FAI", "LOAD", "STORE"} -> <<{head}, Order, Location, Name>>

Before(f) == f.label + f.target

Size(f) == Before(f) + Len(Body(f.head))

\* The types the i-th token can have.
Expects(f, i) ==
  IF i > Before(f) THEN Body(f.head)[i - Before(f)]
  ELSE IF i \in {1, 3} THEN Name
  ELSE IF i <= f.label THEN {"SEMICOLON"} ELSE {"EQ"}

\* The n types from at on are the first of this form.
Fits(q, at, f, n) ==
  /\ n <= Size(f) /\ at + n <= Len(q) + 1
  /\ \A i \in 1..n : q[at + i - 1] \in Expects(f, i)

\* An instruction from b up to i.
Step(q, b, i) == \E f \in Forms : f.head # "END" /\ b + Size(f) = i /\ Fits(q, b, f, Size(f))

LEMMA BodyIs ==
  ASSUME NEW head \in Heads
  PROVE  /\ Len(Body(head)) \in 1..5 /\ DOMAIN Body(head) = 1..Len(Body(head))
         /\ Body(head)[1] = {head}
         /\ \A i \in 2..Len(Body(head)) :
              Body(head)[i] \in {Name, Operator, Location, Order, {"GOTO"}}
         /\ head \in {"END", "NUMBER"} => Len(Body(head)) = 1
<1>1. CASE head \in {"NUMBER", "END"}
  <2>1. PICK n : n = 1
    OBVIOUS
  <2>2. Body(head) = <<{head}>>
    BY <1>1 DEF Body
  <2> QED
    BY <2>2
<1>2. CASE head = "IDENTIFIER"
  <2>1. PICK B : B = <<Name, Operator, Name>>
    OBVIOUS
  <2>2. Body(head) = B
    BY <1>2, <2>1 DEF Body
  <2>3. Len(B) = 3 /\ DOMAIN B = 1..3 /\ B[1] = {head} /\ B[2] = Operator /\ B[3] = Name
    BY <1>2, <2>1 DEF Name
  <2> QED
    BY <1>2, <2>2, <2>3
<1>3. CASE head = "CONDITION"
  <2>1. PICK B : B = <<{head}, Name, {"GOTO"}, Name>>
    OBVIOUS
  <2>2. Body(head) = B
    BY <1>3, <2>1 DEF Body
  <2>3. Len(B) = 4 /\ DOMAIN B = 1..4 /\ B[1] = {head} /\ B[2] = Name /\ B[3] = {"GOTO"} /\ B[4] = Name
    BY <2>1
  <2> QED
    BY <1>3, <2>2, <2>3
<1>4. CASE head \in {"GOTO", "THREAD_GOTO"}
  <2>1. PICK B : B = <<{head}, Name>>
    OBVIOUS
  <2>2. Body(head) = B
    BY <1>4, <2>1 DEF Body
  <2>3. Len(B) = 2 /\ DOMAIN B = 1..2 /\ B[1] = {head} /\ B[2] = Name
    BY <2>1
  <2> QED
    BY <1>4, <2>2, <2>3
<1>5. CASE head = "FENCE"
  <2>1. PICK B : B = <<{head}, Order>>
    OBVIOUS
  <2>2. Body(head) = B
    BY <1>5, <2>1 DEF Body
  <2>3. Len(B) = 2 /\ DOMAIN B = 1..2 /\ B[1] = {head} /\ B[2] = Order
    BY <2>1
  <2> QED
    BY <1>5, <2>2, <2>3
<1>6. CASE head = "CAS"
  <2>1. PICK B : B = <<{head}, Order, Location, Name, Name>>
    OBVIOUS
  <2>2. Body(head) = B
    BY <1>6, <2>1 DEF Body
  <2>3. /\ Len(B) = 5 /\ DOMAIN B = 1..5 /\ B[1] = {head} /\ B[2] = Order /\ B[3] = Location
        /\ B[4] = Name /\ B[5] = Name
    BY <2>1
  <2> QED
    BY <1>6, <2>2, <2>3
<1>7. CASE head \in {"FAI", "LOAD", "STORE"}
  <2>1. PICK B : B = <<{head}, Order, Location, Name>>
    OBVIOUS
  <2>2. Body(head) = B
    BY <1>7, <2>1 DEF Body
  <2>3. Len(B) = 4 /\ DOMAIN B = 1..4 /\ B[1] = {head} /\ B[2] = Order /\ B[3] = Location /\ B[4] = Name
    BY <2>1
  <2> QED
    BY <1>7, <2>2, <2>3
<1> QED
  BY <1>1, <1>2, <1>3, <1>4, <1>5, <1>6, <1>7 DEF Heads, ValueHeads, InstructionHeads

\* What a form says of its tokens.
LEMMA FormIs ==
  ASSUME NEW f \in Forms
  PROVE  /\ f.label \in {0, 2} /\ f.target \in {0, 2} /\ f.head \in Heads
         /\ f = [label |-> f.label, target |-> f.target, head |-> f.head]
         /\ f.target = 0 => f.head # "IDENTIFIER" /\ f.head # "NUMBER"
         /\ f.target = 2 => f.head \in ValueHeads /\ f.head # "END"
         /\ Before(f) \in 0..4 /\ Size(f) \in Before(f) + 1..Before(f) + 5
         /\ Expects(f, Before(f) + 1) = {f.head}
         /\ f.label = 2 => Expects(f, 1) = {"IDENTIFIER"} /\ Expects(f, 2) = {"SEMICOLON"}
         /\ f.target = 2 => /\ Expects(f, f.label + 1) = {"IDENTIFIER"}
                            /\ Expects(f, f.label + 2) = {"EQ"}
         /\ \A i \in 1..Len(Body(f.head)) : Expects(f, Before(f) + i) = Body(f.head)[i]
<1>1. PICK l, t, h : l = f.label /\ t = f.target /\ h = f.head
  OBVIOUS
<1>2. /\ l \in {0, 2} /\ t \in {0, 2} /\ h \in Heads
      /\ f = [label |-> f.label, target |-> f.target, head |-> f.head]
      /\ IF t = 0 THEN h \in InstructionHeads \cup {"END"} ELSE h \in ValueHeads
  BY <1>1 DEF Forms
<1>3. /\ t = 0 => h # "IDENTIFIER" /\ h # "NUMBER"
      /\ t = 2 => h \in ValueHeads /\ h # "END"
  BY <1>2 DEF InstructionHeads, ValueHeads
<1>4. PICK n : n = Len(Body(h))
  OBVIOUS
<1>5. n \in 1..5 /\ Body(h)[1] = {h}
  BY <1>2, <1>4, BodyIs
<1>6. Before(f) = l + t /\ Before(f) \in 0..4
  BY <1>1, <1>2 DEF Before
<1>7. Size(f) = Before(f) + n
  BY <1>1, <1>4 DEF Size
<1>8. Size(f) \in Before(f) + 1..Before(f) + 5
  BY <1>5, <1>6, <1>7
<1>9. ASSUME NEW i \in 1..n
      PROVE  Expects(f, Before(f) + i) = Body(h)[i]
  <2>1. Before(f) + i > Before(f) /\ (Before(f) + i) - Before(f) = i
    BY <1>5, <1>6
  <2> QED
    BY <1>1, <2>1 DEF Expects
<1>10. Expects(f, Before(f) + 1) = {h}
  BY <1>5, <1>9
<1>11. l = 2 => Expects(f, 1) = {"IDENTIFIER"} /\ Expects(f, 2) = {"SEMICOLON"}
  BY <1>1, <1>2, <1>6 DEF Expects, Name
<1>12. t = 2 => Expects(f, l + 1) = {"IDENTIFIER"} /\ Expects(f, l + 2) = {"EQ"}
  BY <1>1, <1>2, <1>6 DEF Expects, Name
<1> QED
  BY <1>1, <1>2, <1>3, <1>4, <1>6, <1>8, <1>9, <1>10, <1>11, <1>12

\* Where a form differs from the others.
LEMMA LabelOf ==
  ASSUME NEW q, NEW at \in Nat, NEW g \in Forms, NEW n \in Nat, n >= 2, Fits(q, at, g, n)
  PROVE  g.label = IF q[at + 1] = "SEMICOLON" THEN 2 ELSE 0
<1>1. q[at + 1] \in Expects(g, 2)
  <2>1. 2 \in 1..n /\ at + 2 - 1 = at + 1
    OBVIOUS
  <2>2. q[at + 2 - 1] \in Expects(g, 2)
    BY <2>1 DEF Fits
  <2> QED
    BY <2>1, <2>2
<1>2. CASE g.label = 2
  BY <1>1, <1>2, FormIs
<1>3. CASE g.label = 0
  <2>1. PICK B : B = Body(g.head)
    OBVIOUS
  <2>2. CASE g.target = 2
    <3>1. Expects(g, 0 + 2) = {"EQ"}
      BY <1>3, <2>2, FormIs
    <3> QED
      BY <1>1, <1>3, <3>1
  <2>3. CASE g.target = 0
    <3>1. Before(g) = 0 /\ Size(g) = Len(B) /\ g.head \in Heads
      <4>1. Before(g) = 0 /\ g.head \in Heads
        BY <1>3, <2>3, FormIs DEF Before
      <4>2. Len(B) \in 1..5
        BY <2>1, <4>1, BodyIs
      <4> QED
        BY <2>1, <4>1, <4>2 DEF Size
    <3>2. 2 \in 2..Len(B)
      BY <2>1, <3>1, BodyIs DEF Fits
    <3>3. Expects(g, 0 + 2) = B[2]
      <4>1. 2 \in 1..Len(Body(g.head))
        BY <2>1, <3>2
      <4>2. Expects(g, Before(g) + 2) = Body(g.head)[2]
        BY <4>1, FormIs
      <4> QED
        BY <2>1, <3>1, <4>2
    <3>4. B[2] \in {Name, Operator, Location, Order, {"GOTO"}}
      BY <2>1, <3>1, <3>2, BodyIs
    <3>5. "SEMICOLON" \notin B[2]
      BY <3>4 DEF Name, Operator, Location, Order
    <3> QED
      BY <1>1, <1>3, <3>3, <3>5
  <2> QED
    BY <2>2, <2>3, FormIs
<1> QED
  BY <1>2, <1>3, FormIs

LEMMA TargetOf ==
  ASSUME NEW q, NEW at \in Nat, NEW g \in Forms, NEW n \in Nat, n > g.label, Fits(q, at, g, n)
  PROVE  /\ g.target = IF q[at + g.label] = "IDENTIFIER" THEN 2 ELSE 0
         /\ g.target = 0 => g.head = q[at + g.label]
<1>1. PICK l : l = g.label
  OBVIOUS
<1>2. l \in {0, 2} /\ g.target \in {0, 2}
  BY <1>1, FormIs
<1>3. l + 1 \in 1..n /\ at + (l + 1) - 1 = at + l
  BY <1>1, <1>2
<1>4. q[at + l] \in Expects(g, l + 1)
  <2>1. q[at + (l + 1) - 1] \in Expects(g, l + 1)
    BY <1>3 DEF Fits
  <2> QED
    BY <1>3, <2>1
<1>5. CASE g.target = 2
  <2>1. Expects(g, l + 1) = {"IDENTIFIER"}
    BY <1>1, <1>5, FormIs
  <2> QED
    BY <1>1, <1>4, <1>5, <2>1
<1>6. CASE g.target = 0
  <2>1. Before(g) = l
    BY <1>1, <1>2, <1>6 DEF Before
  <2>2. Expects(g, l + 1) = {g.head} /\ g.head # "IDENTIFIER"
    BY <1>6, <2>1, FormIs
  <2> QED
    BY <1>1, <1>4, <1>6, <2>2
<1> QED
  BY <1>2, <1>5, <1>6

LEMMA HeadOf ==
  ASSUME NEW q, NEW at \in Nat, NEW g \in Forms, NEW n \in Nat, n > Before(g), Fits(q, at, g, n)
  PROVE  g.head = q[at + Before(g)]
<1>1. PICK k : k = Before(g)
  OBVIOUS
<1>2. k + 1 \in 1..n /\ at + (k + 1) - 1 = at + k
  BY <1>1, FormIs
<1>3. q[at + (k + 1) - 1] \in Expects(g, k + 1) /\ Expects(g, k + 1) = {g.head}
  BY <1>1, <1>2, FormIs DEF Fits
<1> QED
  BY <1>1, <1>2, <1>3

\* A head determines the form it is the head of.
LEMMA SameForm ==
  ASSUME NEW q, NEW at \in Nat, NEW f \in Forms, NEW g \in Forms, NEW m \in Nat, NEW n \in Nat,
         m > Before(f), n >= m, Fits(q, at, f, m), Fits(q, at, g, n)
  PROVE  g = f
<1>1. /\ f.label \in {0, 2} /\ f.target \in {0, 2} /\ Before(f) = f.label + f.target
      /\ f = [label |-> f.label, target |-> f.target, head |-> f.head]
      /\ f.target = 0 => f.head # "IDENTIFIER"
  BY FormIs DEF Before
<1>2. /\ g.label \in {0, 2} /\ g.target \in {0, 2} /\ Before(g) = g.label + g.target
      /\ g = [label |-> g.label, target |-> g.target, head |-> g.head]
  BY FormIs DEF Before
<1>3. g.label = f.label
  <2>1. CASE m >= 2
    <3>1. f.label = IF q[at + 1] = "SEMICOLON" THEN 2 ELSE 0
      BY <2>1, LabelOf
    <3>2. g.label = IF q[at + 1] = "SEMICOLON" THEN 2 ELSE 0
      BY <2>1, LabelOf
    <3> QED
      BY <3>1, <3>2
  <2>2. CASE m = 1
    <3>1. Before(f) = 0 /\ f.label = 0 /\ f.target = 0 /\ f.head # "IDENTIFIER"
      BY <1>1, <2>2
    <3>2. f.head = q[at + 0]
      BY <3>1, HeadOf
    <3>3. q[at + 1 - 1] \in Expects(g, 1)
      BY <2>2 DEF Fits
    <3>4. g.label # 2
      <4>1. at + 1 - 1 = at /\ at + 0 = at
        OBVIOUS
      <4> QED
        BY <3>1, <3>2, <3>3, <4>1, FormIs
    <3> QED
      BY <1>2, <3>1, <3>4
  <2> QED
    BY <1>1, <2>1, <2>2
<1>4. g.target = f.target /\ (g.target = 0 => g.head = f.head)
  <2>1. m > f.label /\ n > g.label
    BY <1>1, <1>3
  <2>2. /\ f.target = IF q[at + f.label] = "IDENTIFIER" THEN 2 ELSE 0
        /\ f.target = 0 => f.head = q[at + f.label]
    BY <2>1, TargetOf
  <2>3. /\ g.target = IF q[at + g.label] = "IDENTIFIER" THEN 2 ELSE 0
        /\ g.target = 0 => g.head = q[at + g.label]
    BY <2>1, TargetOf
  <2> QED
    BY <1>3, <2>2, <2>3
<1>5. g.head = f.head
  <2>1. Before(g) = Before(f) /\ n > Before(g)
    BY <1>1, <1>2, <1>3, <1>4
  <2>2. f.head = q[at + Before(f)]
    BY HeadOf
  <2>3. g.head = q[at + Before(g)]
    BY <2>1, HeadOf
  <2> QED
    BY <2>1, <2>2, <2>3
<1> QED
  BY <1>1, <1>2, <1>3, <1>4, <1>5

\* No instruction is the beginning of another.
LEMMA SameSize ==
  ASSUME NEW q, NEW at \in Nat, NEW f \in Forms, NEW g \in Forms, NEW n \in Nat, n >= Size(f),
         Fits(q, at, f, Size(f)), Fits(q, at, g, n)
  PROVE  g = f /\ n = Size(f)
<1>1. Size(f) \in Nat /\ Size(f) > Before(f)
  BY FormIs
<1>2. g = f
  BY <1>1, SameForm
<1> QED
  BY <1>1, <1>2 DEF Fits

----------------------------------------------------------------------------
(* The forms are the sequences of types the language is defined by. *)

LEMMA SameSequence ==
  ASSUME NEW S, NEW s \in Seq(S), NEW t \in Seq(S), Len(s) = Len(t), \A i \in 1..Len(s) : s[i] = t[i]
  PROVE  s = t
OBVIOUS

\* The types of v are as the body expects them.
Spelled(v, body) ==
  /\ v = [i \in 1..Len(body) |-> v[i]]
  /\ \A i \in 1..Len(body) : v[i] \in body[i]

LEMMA SpelledByOne ==
  ASSUME NEW v, NEW a
  PROVE  Spelled(v, <<{a}>>) <=> v = <<a>>
<1>1. PICK w, B : w = <<a>> /\ B = <<{a}>>
  OBVIOUS
<1>2. Len(w) = 1 /\ w[1] = a
  BY <1>1
<1>3. Len(B) = 1 /\ B[1] = {a}
  BY <1>1
<1>4. w = [i \in 1..1 |-> w[i]]
  BY <1>1
<1>5. ASSUME Spelled(v, B)
      PROVE  v = w
  <2>1. v = [i \in 1..1 |-> v[i]]
    BY <1>3, <1>5 DEF Spelled
  <2>2. \A i \in 1..1 : v[i] \in B[i]
    BY <1>3, <1>5 DEF Spelled
  <2>3. \A i \in 1..1 : v[i] = w[i]
    BY <1>2, <1>3, <2>2
  <2> QED
    BY <1>4, <2>1, <2>3
<1>6. Spelled(w, B)
  BY <1>2, <1>3, <1>4 DEF Spelled
<1> QED
  BY <1>1, <1>5, <1>6

LEMMA SpelledByTwo ==
  ASSUME NEW v, NEW a, NEW b
  PROVE  Spelled(v, <<{a}, {b}>>) <=> v = <<a, b>>
<1>1. PICK w, B : w = <<a, b>> /\ B = <<{a}, {b}>>
  OBVIOUS
<1>2. Len(w) = 2 /\ w[1] = a /\ w[2] = b
  BY <1>1
<1>3. Len(B) = 2 /\ B[1] = {a} /\ B[2] = {b}
  BY <1>1
<1>4. w = [i \in 1..2 |-> w[i]]
  BY <1>1
<1>5. ASSUME Spelled(v, B)
      PROVE  v = w
  <2>1. v = [i \in 1..2 |-> v[i]]
    BY <1>3, <1>5 DEF Spelled
  <2>2. \A i \in 1..2 : v[i] \in B[i]
    BY <1>3, <1>5 DEF Spelled
  <2>3. \A i \in 1..2 : v[i] = w[i]
    BY <1>2, <1>3, <2>2
  <2> QED
    BY <1>4, <2>1, <2>3
<1>6. Spelled(w, B)
  BY <1>2, <1>3, <1>4 DEF Spelled
<1> QED
  BY <1>1, <1>5, <1>6

LEMMA SpelledByThree ==
  ASSUME NEW v, NEW a, NEW b, NEW c
  PROVE  Spelled(v, <<{a}, {b}, {c}>>) <=> v = <<a, b, c>>
<1>1. PICK w, B : w = <<a, b, c>> /\ B = <<{a}, {b}, {c}>>
  OBVIOUS
<1>2. Len(w) = 3 /\ w[1] = a /\ w[2] = b /\ w[3] = c
  BY <1>1
<1>3. Len(B) = 3 /\ B[1] = {a} /\ B[2] = {b} /\ B[3] = {c}
  BY <1>1
<1>4. w = [i \in 1..3 |-> w[i]]
  BY <1>1
<1>5. ASSUME Spelled(v, B)
      PROVE  v = w
  <2>1. v = [i \in 1..3 |-> v[i]]
    BY <1>3, <1>5 DEF Spelled
  <2>2. \A i \in 1..3 : v[i] \in B[i]
    BY <1>3, <1>5 DEF Spelled
  <2>3. \A i \in 1..3 : v[i] = w[i]
    BY <1>2, <1>3, <2>2
  <2> QED
    BY <1>4, <2>1, <2>3
<1>6. Spelled(w, B)
  BY <1>2, <1>3, <1>4 DEF Spelled
<1> QED
  BY <1>1, <1>5, <1>6

LEMMA SpelledByFour ==
  ASSUME NEW v, NEW a, NEW b, NEW c, NEW d
  PROVE  Spelled(v, <<{a}, {b}, {c}, {d}>>) <=> v = <<a, b, c, d>>
<1>1. PICK w, B : w = <<a, b, c, d>> /\ B = <<{a}, {b}, {c}, {d}>>
  OBVIOUS
<1>2. Len(w) = 4 /\ w[1] = a /\ w[2] = b /\ w[3] = c /\ w[4] = d
  BY <1>1
<1>3. Len(B) = 4 /\ B[1] = {a} /\ B[2] = {b} /\ B[3] = {c} /\ B[4] = {d}
  BY <1>1
<1>4. w = [i \in 1..4 |-> w[i]]
  BY <1>1
<1>5. ASSUME Spelled(v, B)
      PROVE  v = w
  <2>1. v = [i \in 1..4 |-> v[i]]
    BY <1>3, <1>5 DEF Spelled
  <2>2. \A i \in 1..4 : v[i] \in B[i]
    BY <1>3, <1>5 DEF Spelled
  <2>3. \A i \in 1..4 : v[i] = w[i]
    BY <1>2, <1>3, <2>2
  <2> QED
    BY <1>4, <2>1, <2>3
<1>6. Spelled(w, B)
  BY <1>2, <1>3, <1>4 DEF Spelled
<1> QED
  BY <1>1, <1>5, <1>6

LEMMA SpelledByFive ==
  ASSUME NEW v, NEW a, NEW b, NEW c, NEW d, NEW e
  PROVE  Spelled(v, <<{a}, {b}, {c}, {d}, {e}>>) <=> v = <<a, b, c, d, e>>
<1>1. PICK w, B : w = <<a, b, c, d, e>> /\ B = <<{a}, {b}, {c}, {d}, {e}>>
  OBVIOUS
<1>2. Len(w) = 5 /\ w[1] = a /\ w[2] = b /\ w[3] = c /\ w[4] = d /\ w[5] = e
  BY <1>1
<1>3. Len(B) = 5 /\ B[1] = {a} /\ B[2] = {b} /\ B[3] = {c} /\ B[4] = {d} /\ B[5] = {e}
  BY <1>1
<1>4. w = [i \in 1..5 |-> w[i]]
  BY <1>1
<1>5. ASSUME Spelled(v, B)
      PROVE  v = w
  <2>1. v = [i \in 1..5 |-> v[i]]
    BY <1>3, <1>5 DEF Spelled
  <2>2. \A i \in 1..5 : v[i] \in B[i]
    BY <1>3, <1>5 DEF Spelled
  <2>3. \A i \in 1..5 : v[i] = w[i]
    BY <1>2, <1>3, <2>2
  <2> QED
    BY <1>4, <2>1, <2>3
<1>6. Spelled(w, B)
  BY <1>2, <1>3, <1>4 DEF Spelled
<1> QED
  BY <1>1, <1>5, <1>6

LEMMA SpelledByBinop ==
  ASSUME NEW v, NEW a, NEW ops, NEW c
  PROVE  Spelled(v, <<{a}, ops, {c}>>) <=> \E op \in ops : v = <<a, op, c>>
<1>1. ASSUME Spelled(v, <<{a}, ops, {c}>>)
      PROVE  \E op \in ops : v = <<a, op, c>>
  <2>1. PICK B : B = <<{a}, ops, {c}>>
    OBVIOUS
  <2>2. Len(B) = 3 /\ B[1] = {a} /\ B[2] = ops /\ B[3] = {c}
    BY <2>1
  <2>3. v = [i \in 1..3 |-> v[i]] /\ \A i \in 1..3 : v[i] \in B[i]
    BY <1>1, <2>1, <2>2 DEF Spelled
  <2>4. PICK b \in ops : b = v[2]
    BY <2>2, <2>3
  <2>5. PICK E : E = <<{a}, {b}, {c}>>
    OBVIOUS
  <2>6. Len(E) = 3 /\ E[1] = {a} /\ E[2] = {b} /\ E[3] = {c}
    BY <2>5
  <2>7. Spelled(v, E)
    BY <2>2, <2>3, <2>4, <2>6 DEF Spelled
  <2> QED
    BY <2>5, <2>7, SpelledByThree
<1>2. ASSUME NEW b \in ops, v = <<a, b, c>>
      PROVE  Spelled(v, <<{a}, ops, {c}>>)
  <2>1. PICK B, E : B = <<{a}, ops, {c}>> /\ E = <<{a}, {b}, {c}>>
    OBVIOUS
  <2>2. /\ Len(B) = 3 /\ B[1] = {a} /\ B[2] = ops /\ B[3] = {c}
        /\ Len(E) = 3 /\ E[1] = {a} /\ E[2] = {b} /\ E[3] = {c}
    BY <2>1
  <2>3. Spelled(v, E)
    BY <1>2, <2>1, SpelledByThree
  <2>4. v = [i \in 1..3 |-> v[i]] /\ \A i \in 1..3 : v[i] \in E[i]
    BY <2>2, <2>3 DEF Spelled
  <2>5. \A i \in 1..3 : v[i] \in B[i]
    BY <2>2, <2>4
  <2>6. Spelled(v, B)
    BY <2>2, <2>4, <2>5 DEF Spelled
  <2> QED
    BY <2>1, <2>6
<1> QED
  BY <1>1, <1>2

\* The sequences the language has from a head on.
Words(head) ==
  CASE head \in {"NUMBER", "END"} -> {<<head>>}
    [] head = "IDENTIFIER" -> {<<"IDENTIFIER", op, "IDENTIFIER">> : op \in Operator}
    [] head = "CONDITION" -> {<<"CONDITION", "IDENTIFIER", "GOTO", "IDENTIFIER">>}
    [] head \in {"GOTO", "THREAD_GOTO"} -> {<<head, "IDENTIFIER">>}
    [] head = "FENCE" -> {<<"FENCE", "MEMORY_ORDER">>}
    [] head = "CAS" -> {CasCall}
    [] head \in {"FAI", "LOAD", "STORE"} -> {<<head, "MEMORY_ORDER", "LOCATION", "IDENTIFIER">>}

LEMMA SpelledIs ==
  ASSUME NEW head \in Heads, NEW v
  PROVE  Spelled(v, Body(head)) <=> v \in Words(head)
<1>0. PICK name, goto, loc, order :
        name = "IDENTIFIER" /\ goto = "GOTO" /\ loc = "LOCATION" /\ order = "MEMORY_ORDER"
  OBVIOUS
<1>1. Name = {name} /\ Location = {loc} /\ Order = {order}
  BY <1>0 DEF Name, Location, Order
<1>2. CASE head \in {"NUMBER", "END"}
  <2>1. Body(head) = <<{head}>> /\ Words(head) = {<<head>>}
    BY <1>2 DEF Body, Words
  <2> QED
    BY <1>1, <2>1, SpelledByOne
<1>3. CASE head = "IDENTIFIER"
  <2>1. Body(head) = <<{head}, Operator, {name}>> /\ Words(head) = {<<head, op, name>> : op \in Operator}
    BY <1>0, <1>1, <1>3 DEF Body, Words
  <2>2. Spelled(v, <<{head}, Operator, {name}>>) <=> \E op \in Operator : v = <<head, op, name>>
    BY <1>1, SpelledByBinop
  <2> QED
    BY <2>1, <2>2
<1>4. CASE head = "CONDITION"
  <2>1. /\ Body(head) = <<{head}, {name}, {goto}, {name}>>
        /\ Words(head) = {<<head, name, goto, name>>}
    BY <1>0, <1>1, <1>4 DEF Body, Words
  <2> QED
    BY <1>1, <2>1, SpelledByFour
<1>5. CASE head \in {"GOTO", "THREAD_GOTO"}
  <2>1. Body(head) = <<{head}, {name}>> /\ Words(head) = {<<head, name>>}
    BY <1>0, <1>1, <1>5 DEF Body, Words
  <2>2. Spelled(v, <<{head}, {name}>>) <=> v = <<head, name>>
    BY SpelledByTwo
  <2> QED
    BY <2>1, <2>2
<1>6. CASE head = "FENCE"
  <2>1. Body(head) = <<{head}, {order}>> /\ Words(head) = {<<head, order>>}
    BY <1>0, <1>1, <1>6 DEF Body, Words
  <2> QED
    BY <1>1, <2>1, SpelledByTwo
<1>7. CASE head = "CAS"
  <2>1. /\ Body(head) = <<{head}, {order}, {loc}, {name}, {name}>>
        /\ Words(head) = {<<head, order, loc, name, name>>}
    BY <1>0, <1>1, <1>7 DEF Body, Words, CasCall
  <2>2. Spelled(v, <<{head}, {order}, {loc}, {name}, {name}>>) <=> v = <<head, order, loc, name, name>>
    BY SpelledByFive
  <2> QED
    BY <2>1, <2>2
<1>8. CASE head \in {"FAI", "LOAD", "STORE"}
  <2>1. /\ Body(head) = <<{head}, {order}, {loc}, {name}>>
        /\ Words(head) = {<<head, order, loc, name>>}
    BY <1>0, <1>1, <1>8 DEF Body, Words
  <2> QED
    BY <1>1, <2>1, SpelledByFour
<1> QED
  BY <1>2, <1>3, <1>4, <1>5, <1>6, <1>7, <1>8 DEF Heads, ValueHeads, InstructionHeads

LEMMA TwoBefore ==
  ASSUME NEW a, NEW b, NEW n \in Nat, NEW w, w = [i \in 1..n |-> w[i]], NEW v, v = <<a, b>> \o w
  PROVE  /\ v = [i \in 1..n + 2 |-> v[i]] /\ v[1] = a /\ v[2] = b
         /\ \A i \in 1..n : v[i + 2] = w[i]
<1>1. PICK S : S = {w[i] : i \in 1..n} \cup {a, b}
  OBVIOUS
<1>2. w \in Seq(S) /\ Len(w) = n
  <2>1. w \in [1..n -> S]
    BY <1>1
  <2> QED
    BY <2>1
<1>3. PICK u : u = <<a, b>>
  OBVIOUS
<1>4. u \in Seq(S) /\ Len(u) = 2 /\ u[1] = a /\ u[2] = b
  BY <1>1, <1>3
<1>5. v = u \o w
  BY <1>3
<1>6. v \in Seq(S) /\ Len(v) = n + 2
      /\ \A i \in 1..n + 2 : v[i] = IF i <= 2 THEN u[i] ELSE w[i - 2]
  BY <1>2, <1>4, <1>5
<1>7. v = [i \in 1..n + 2 |-> v[i]]
  BY <1>6
<1>8. v[1] = a /\ v[2] = b
  BY <1>4, <1>6
<1>9. ASSUME NEW i \in 1..n
      PROVE  v[i + 2] = w[i]
  <2>1. i + 2 \in 1..n + 2 /\ ~(i + 2 <= 2) /\ (i + 2) - 2 = i
    OBVIOUS
  <2> QED
    BY <1>6, <2>1
<1> QED
  BY <1>7, <1>8, <1>9

LEMMA TwoSplit ==
  ASSUME NEW n \in Nat, NEW v, v = [i \in 1..n + 2 |-> v[i]], NEW w, w = [i \in 1..n |-> v[i + 2]]
  PROVE  v = <<v[1], v[2]>> \o w
<1>1. PICK a, b, u : a = v[1] /\ b = v[2] /\ u = <<a, b>> \o w
  OBVIOUS
<1>2. w = [i \in 1..n |-> w[i]]
  OBVIOUS
<1>3. /\ u = [i \in 1..n + 2 |-> u[i]] /\ u[1] = a /\ u[2] = b
      /\ \A i \in 1..n : u[i + 2] = w[i]
  BY <1>1, <1>2, TwoBefore
<1>4. ASSUME NEW i \in 1..n + 2
      PROVE  u[i] = v[i]
  <2>1. CASE i = 1
    BY <1>1, <1>3, <2>1
  <2>2. CASE i = 2
    BY <1>1, <1>3, <2>2
  <2>3. CASE i > 2
    <3>1. i - 2 \in 1..n /\ (i - 2) + 2 = i
      BY <2>3
    <3>2. u[(i - 2) + 2] = w[i - 2] /\ w[i - 2] = v[(i - 2) + 2]
      BY <1>3, <3>1
    <3> QED
      BY <3>1, <3>2
  <2> QED
    BY <2>1, <2>2, <2>3
<1>5. u = v
  BY <1>3, <1>4
<1> QED
  BY <1>1, <1>5

\* A sequence of types is of this form.
Spells(v, f) ==
  /\ v = [i \in 1..Size(f) |-> v[i]]
  /\ \A i \in 1..Size(f) : v[i] \in Expects(f, i)

Prefixed(a, b, w) == <<a, b>> \o w

\* Two more tokens before the types of f are those of g.
LEMMA TwoMore ==
  ASSUME NEW f \in Forms, NEW g \in Forms, NEW a, NEW b,
         Size(g) = Size(f) + 2, Expects(g, 1) = {a}, Expects(g, 2) = {b},
         \A i \in 1..Size(f) : Expects(g, i + 2) = Expects(f, i), NEW v
  PROVE  Spells(v, g) <=> \E w : Spells(w, f) /\ v = Prefixed(a, b, w)
<1>1. PICK n \in Nat : n = Size(f)
  BY FormIs
<1>2. ASSUME Spells(v, g)
      PROVE  \E w : Spells(w, f) /\ v = Prefixed(a, b, w)
  <2>1. v = [i \in 1..n + 2 |-> v[i]] /\ \A i \in 1..n + 2 : v[i] \in Expects(g, i)
    BY <1>1, <1>2 DEF Spells
  <2>2. PICK w : w = [i \in 1..n |-> v[i + 2]]
    OBVIOUS
  <2>3. v = <<v[1], v[2]>> \o w
    BY <2>1, <2>2, TwoSplit
  <2>4. v[1] = a /\ v[2] = b
    <3>1. 1 \in 1..n + 2 /\ 2 \in 1..n + 2
      OBVIOUS
    <3> QED
      BY <2>1, <3>1
  <2>5. ASSUME NEW i \in 1..n
        PROVE  w[i] \in Expects(f, i)
    <3>1. i + 2 \in 1..n + 2
      OBVIOUS
    <3> QED
      BY <1>1, <2>1, <2>2, <3>1
  <2>6. w = [i \in 1..n |-> w[i]]
    BY <2>2
  <2>7. Spells(w, f)
    BY <1>1, <2>5, <2>6 DEF Spells
  <2> QED
    BY <2>3, <2>4, <2>7 DEF Prefixed
<1>3. ASSUME NEW w, Spells(w, f), v = Prefixed(a, b, w)
      PROVE  Spells(v, g)
  <2>1. w = [i \in 1..n |-> w[i]] /\ \A i \in 1..n : w[i] \in Expects(f, i)
    BY <1>1, <1>3 DEF Spells
  <2>2. /\ v = [i \in 1..n + 2 |-> v[i]] /\ v[1] = a /\ v[2] = b
        /\ \A i \in 1..n : v[i + 2] = w[i]
    BY <1>3, <2>1, TwoBefore DEF Prefixed
  <2>3. ASSUME NEW i \in 1..n + 2
        PROVE  v[i] \in Expects(g, i)
    <3>1. CASE i = 1
      BY <2>2, <3>1
    <3>2. CASE i = 2
      BY <2>2, <3>2
    <3>3. CASE i > 2
      <4>1. i - 2 \in 1..n /\ (i - 2) + 2 = i
        BY <3>3
      <4>2. v[(i - 2) + 2] = w[i - 2] /\ w[i - 2] \in Expects(f, i - 2)
            /\ Expects(g, (i - 2) + 2) = Expects(f, i - 2)
        BY <1>1, <2>1, <2>2, <4>1
      <4> QED
        BY <4>1, <4>2
    <3> QED
      BY <3>1, <3>2, <3>3
  <2> QED
    BY <1>1, <2>2, <2>3 DEF Spells
<1> QED
  BY <1>2, <1>3

\* A form without label and target is its body.
LEMMA BodyOnly ==
  ASSUME NEW f \in Forms, f.label = 0, f.target = 0, NEW v
  PROVE  Spells(v, f) <=> Spelled(v, Body(f.head))
<1>1. PICK n \in Nat : n = Len(Body(f.head))
  BY FormIs, BodyIs
<1>2. Before(f) = 0 /\ Size(f) = n
  BY <1>1, FormIs DEF Before, Size
<1>3. \A i \in 1..n : Expects(f, 0 + i) = Body(f.head)[i] /\ 0 + i = i
  BY <1>1, <1>2, FormIs
<1> QED
  BY <1>1, <1>2, <1>3 DEF Spells, Spelled

AssignedTo(w) == <<"IDENTIFIER", "EQ">> \o w

LabelBefore(w) == <<"IDENTIFIER", "SEMICOLON">> \o w

AddLabel(f) == [f EXCEPT !.label = 2]

LEMMA FormSpelled ==
  ASSUME NEW f \in Forms, f.label = 0, NEW v
  PROVE  Spells(v, f) <=>
           IF f.target = 0 THEN v \in Words(f.head)
           ELSE \E w \in Words(f.head) : v = AssignedTo(w)
<1>1. CASE f.target = 0
  <2>1. f.head \in Heads
    BY FormIs
  <2> QED
    BY <1>1, <2>1, BodyOnly, SpelledIs
<1>2. CASE f.target = 2
  <2>1. PICK n \in Nat : n = Len(Body(f.head))
    BY FormIs, BodyIs
  <2>2. Before(f) = 2 /\ Size(f) = n + 2 /\ f.head \in Heads
    BY <1>2, <2>1, FormIs DEF Before, Size
  <2>3. PICK a, b : a = "IDENTIFIER" /\ b = "EQ"
    OBVIOUS
  <2>4. Expects(f, 1) = {a} /\ Expects(f, 2) = {b}
    <3>1. Expects(f, 0 + 1) = {a} /\ Expects(f, 0 + 2) = {b}
      BY <1>2, <2>3, FormIs
    <3> QED
      BY <3>1
  <2>5. \A i \in 1..n : Expects(f, 2 + i) = Body(f.head)[i] /\ 2 + i = i + 2
    BY <2>1, <2>2, FormIs
  <2>6. ASSUME Spells(v, f)
        PROVE  \E w \in Words(f.head) : v = <<a, b>> \o w
    <3>1. v = [i \in 1..n + 2 |-> v[i]] /\ \A i \in 1..n + 2 : v[i] \in Expects(f, i)
      BY <2>2, <2>6 DEF Spells
    <3>2. PICK w : w = [i \in 1..n |-> v[i + 2]]
      OBVIOUS
    <3>3. v = <<v[1], v[2]>> \o w
      BY <3>1, <3>2, TwoSplit
    <3>4. v[1] = a /\ v[2] = b
      <4>1. 1 \in 1..n + 2 /\ 2 \in 1..n + 2
        OBVIOUS
      <4> QED
        BY <2>4, <3>1, <4>1
    <3>5. ASSUME NEW i \in 1..n
          PROVE  w[i] \in Body(f.head)[i]
      <4>1. i + 2 \in 1..n + 2
        OBVIOUS
      <4> QED
        BY <2>5, <3>1, <3>2, <4>1
    <3>6. w = [i \in 1..n |-> w[i]]
      BY <3>2
    <3>7. w \in Words(f.head)
      BY <2>1, <2>2, <3>5, <3>6, SpelledIs DEF Spelled
    <3> QED
      BY <3>3, <3>4, <3>7
  <2>7. ASSUME NEW w \in Words(f.head), v = <<a, b>> \o w
        PROVE  Spells(v, f)
    <3>1. w = [i \in 1..n |-> w[i]] /\ \A i \in 1..n : w[i] \in Body(f.head)[i]
      BY <2>1, <2>2, SpelledIs DEF Spelled
    <3>2. /\ v = [i \in 1..n + 2 |-> v[i]] /\ v[1] = a /\ v[2] = b
          /\ \A i \in 1..n : v[i + 2] = w[i]
      BY <2>7, <3>1, TwoBefore
    <3>3. ASSUME NEW i \in 1..n + 2
          PROVE  v[i] \in Expects(f, i)
      <4>1. CASE i = 1
        BY <2>4, <3>2, <4>1
      <4>2. CASE i = 2
        BY <2>4, <3>2, <4>2
      <4>3. CASE i > 2
        <5>1. i - 2 \in 1..n /\ (i - 2) + 2 = i /\ 2 + (i - 2) = i
          BY <4>3
        <5>2. v[(i - 2) + 2] = w[i - 2] /\ w[i - 2] \in Body(f.head)[i - 2]
              /\ Expects(f, 2 + (i - 2)) = Body(f.head)[i - 2]
          BY <2>5, <3>1, <3>2, <5>1
        <5> QED
          BY <5>1, <5>2
      <4> QED
        BY <4>1, <4>2, <4>3
    <3> QED
      BY <2>2, <3>2, <3>3 DEF Spells
  <2>8. \A w : AssignedTo(w) = <<a, b>> \o w
    BY <2>3 DEF AssignedTo
  <2> HIDE DEF AssignedTo
  <2>9. Spells(v, f) <=> \E w \in Words(f.head) : v = AssignedTo(w)
    <3>1. ASSUME Spells(v, f)
          PROVE  \E w \in Words(f.head) : v = AssignedTo(w)
      BY <2>6, <2>8, <3>1
    <3>2. ASSUME NEW w \in Words(f.head), v = AssignedTo(w)
          PROVE  Spells(v, f)
      BY <2>7, <2>8, <3>2
    <3> QED
      BY <3>1, <3>2
  <2> QED
    BY <1>2, <2>9
<1> QED
  BY <1>1, <1>2, FormIs

LEMMA ValueWords ==
  ASSUME NEW w
  PROVE  w \in {<<"NUMBER">>, CasCall, FaiCall}
                 \cup {<<"IDENTIFIER", op, "IDENTIFIER">> : op \in {"PLUS", "MINUS", "MULT", "DIV"}}
           <=> \E head \in ValueHeads : w \in Words(head)
<1>1. Words("NUMBER") = {<<"NUMBER">>}
  BY DEF Words
<1>2. Words("CAS") = {CasCall}
  BY DEF Words
<1>3. Words("FAI") = {FaiCall}
  BY DEF Words, FaiCall
<1>4. Words("IDENTIFIER") = {<<"IDENTIFIER", op, "IDENTIFIER">> : op \in {"PLUS", "MINUS", "MULT", "DIV"}}
  BY DEF Words, Operator
<1>5. PICK binops : binops = {<<"IDENTIFIER", op, "IDENTIFIER">> : op \in {"PLUS", "MINUS", "MULT", "DIV"}}
  OBVIOUS
<1>6. (\E head \in ValueHeads : w \in Words(head)) <=>
         w \in Words("NUMBER") \/ w \in Words("CAS") \/ w \in Words("FAI") \/ w \in Words("IDENTIFIER")
  BY DEF ValueHeads
<1>7. w \in {<<"NUMBER">>, CasCall, FaiCall} \cup binops <=>
         w \in {<<"NUMBER">>} \/ w \in {CasCall} \/ w \in {FaiCall} \/ w \in binops
  OBVIOUS
<1> QED
  BY <1>1, <1>2, <1>3, <1>4, <1>5, <1>6, <1>7

LEMMA InstructionWords ==
  ASSUME NEW v
  PROVE  v \in {<<"CONDITION", "IDENTIFIER", "GOTO", "IDENTIFIER">>, <<"GOTO", "IDENTIFIER">>,
                <<"THREAD_GOTO", "IDENTIFIER">>, <<"FENCE", "MEMORY_ORDER">>, CasCall, FaiCall}
                 \cup {<<access, "MEMORY_ORDER", "LOCATION", "IDENTIFIER">> : access \in {"LOAD", "STORE"}}
           <=> \E head \in InstructionHeads : v \in Words(head)
<1>1. Words("CONDITION") = {<<"CONDITION", "IDENTIFIER", "GOTO", "IDENTIFIER">>}
  BY DEF Words
<1>2. Words("GOTO") = {<<"GOTO", "IDENTIFIER">>} /\ Words("THREAD_GOTO") = {<<"THREAD_GOTO", "IDENTIFIER">>}
  BY DEF Words
<1>3. Words("FENCE") = {<<"FENCE", "MEMORY_ORDER">>}
  BY DEF Words
<1>4. Words("CAS") = {CasCall}
  BY DEF Words
<1>5. Words("FAI") = {FaiCall}
  BY DEF Words, FaiCall
<1>6. \A access \in {"LOAD", "STORE"} :
        Words(access) = {<<access, "MEMORY_ORDER", "LOCATION", "IDENTIFIER">>}
  BY DEF Words
<1>7. (\E head \in InstructionHeads : v \in Words(head)) <=>
         \/ v \in Words("CONDITION") \/ v \in Words("GOTO") \/ v \in Words("THREAD_GOTO")
         \/ v \in Words("FENCE") \/ v \in Words("CAS") \/ v \in Words("FAI")
         \/ \E access \in {"LOAD", "STORE"} : v \in Words(access)
  BY DEF InstructionHeads
<1> QED
  BY <1>1, <1>2, <1>3, <1>4, <1>5, <1>6, <1>7

LEMMA InstructionForms ==
  ASSUME NEW v
  PROVE  v \in Instructions <=> \E f \in Forms : f.label = 0 /\ f.head # "END" /\ Spells(v, f)
<1>1. v \in Instructions <=>
        \/ \E head \in ValueHeads : \E w \in Words(head) : v = AssignedTo(w)
        \/ \E head \in InstructionHeads : v \in Words(head)
  <2>1. PICK values : values = {<<"NUMBER">>, CasCall, FaiCall}
          \cup {<<"IDENTIFIER", op, "IDENTIFIER">> : op \in {"PLUS", "MINUS", "MULT", "DIV"}}
    OBVIOUS
  <2>2. PICK others : others =
          {<<"CONDITION", "IDENTIFIER", "GOTO", "IDENTIFIER">>, <<"GOTO", "IDENTIFIER">>,
           <<"THREAD_GOTO", "IDENTIFIER">>, <<"FENCE", "MEMORY_ORDER">>, CasCall, FaiCall}
    OBVIOUS
  <2>3. PICK accesses : accesses =
          {<<access, "MEMORY_ORDER", "LOCATION", "IDENTIFIER">> : access \in {"LOAD", "STORE"}}
    OBVIOUS
  <2>4. Instructions = {<<"IDENTIFIER", "EQ">> \o value : value \in values} \cup others \cup accesses
    BY <2>1, <2>2, <2>3 DEF Instructions
  <2>5. \A w : w \in values <=> \E head \in ValueHeads : w \in Words(head)
    BY <2>1, ValueWords
  <2>6. v \in others \cup accesses <=> \E head \in InstructionHeads : v \in Words(head)
    BY <2>2, <2>3, InstructionWords
  <2>7. v \in Instructions <=>
          (\E w \in values : v = AssignedTo(w)) \/ v \in others \cup accesses
    BY <2>4 DEF AssignedTo
  <2> QED
    BY <2>5, <2>6, <2>7
<1>2. ASSUME NEW head \in ValueHeads, NEW w \in Words(head), v = AssignedTo(w)
      PROVE  \E f \in Forms : f.label = 0 /\ f.head # "END" /\ Spells(v, f)
  <2>1. PICK f : f = [label |-> 0, target |-> 2, head |-> head]
    OBVIOUS
  <2>2. f \in Forms /\ f.label = 0 /\ f.target = 2 /\ f.head = head
    BY <2>1 DEF Forms, Heads
  <2>3. f.head # "END"
    BY <2>2, FormIs
  <2>4. Spells(v, f) <=> \E u \in Words(f.head) : v = AssignedTo(u)
    BY <2>2, FormSpelled
  <2>5. Spells(v, f)
    BY <1>2, <2>2, <2>4
  <2> QED
    BY <2>2, <2>3, <2>5
<1>3. ASSUME NEW head \in InstructionHeads, v \in Words(head)
      PROVE  \E f \in Forms : f.label = 0 /\ f.head # "END" /\ Spells(v, f)
  <2>1. PICK f : f = [label |-> 0, target |-> 0, head |-> head]
    OBVIOUS
  <2>2. f \in Forms /\ f.label = 0 /\ f.target = 0 /\ f.head = head /\ f.head # "END"
    BY <2>1 DEF Forms, Heads, InstructionHeads
  <2> QED
    BY <1>3, <2>2, FormSpelled
<1>4. ASSUME NEW f \in Forms, f.label = 0, f.head # "END", Spells(v, f)
      PROVE  \/ \E head \in ValueHeads : \E w \in Words(head) : v = AssignedTo(w)
             \/ \E head \in InstructionHeads : v \in Words(head)
  <2>1. IF f.target = 0 THEN f.head \in InstructionHeads \cup {"END"} ELSE f.head \in ValueHeads
    BY DEF Forms
  <2> QED
    BY <1>4, <2>1, FormSpelled
<1> QED
  BY <1>1, <1>2, <1>3, <1>4

LEMMA EndForms ==
  ASSUME NEW v
  PROVE  v \in {<<"END">>} <=> \E f \in Forms : f.label = 0 /\ f.head = "END" /\ Spells(v, f)
<1>1. PICK e : e = "END"
  OBVIOUS
<1>2. PICK f : f = [label |-> 0, target |-> 0, head |-> e]
  OBVIOUS
<1>3. f \in Forms /\ f.label = 0 /\ f.target = 0 /\ f.head = e
  BY <1>1, <1>2 DEF Forms, Heads
<1>4. \A g \in Forms : g.label = 0 /\ g.head = e => g = f
  <2>1. ASSUME NEW g \in Forms, g.label = 0, g.head = e
        PROVE  g = f
    <3>1. g.target = 0 /\ g = [label |-> g.label, target |-> g.target, head |-> g.head]
      BY <1>1, <2>1, FormIs
    <3> QED
      BY <1>2, <2>1, <3>1
  <2> QED
    BY <2>1
<1>5. Spells(v, f) <=> v \in Words(e)
  BY <1>3, FormSpelled
<1>6. Words(e) = {<<e>>}
  BY <1>1 DEF Words
<1> QED
  BY <1>1, <1>3, <1>4, <1>5, <1>6

\* The same form, with a label.
LEMMA WithLabel ==
  ASSUME NEW f \in Forms, f.label = 0, NEW g, g = AddLabel(f), NEW v
  PROVE  /\ g \in Forms /\ g.label = 2 /\ g.head = f.head
         /\ Spells(v, g) <=> \E w : Spells(w, f) /\ v = LabelBefore(w)
<1>1. PICK t, h : t = f.target /\ h = f.head
  OBVIOUS
<1>2. f = [label |-> 0, target |-> t, head |-> h] /\ t \in {0, 2} /\ h \in Heads
  BY <1>1, FormIs
<1>3. g = [label |-> 2, target |-> t, head |-> h]
  BY <1>2 DEF AddLabel
<1>4. g.label = 2 /\ g.target = t /\ g.head = h
  BY <1>3
<1>5. g \in Forms
  BY <1>1, <1>2, <1>3, <1>4 DEF Forms
<1>6. PICK n \in Nat : n = Len(Body(h))
  BY <1>2, BodyIs
<1>7. Before(f) = t /\ Before(g) = t + 2 /\ Size(f) = t + n /\ Size(g) = t + n + 2
  BY <1>1, <1>2, <1>4, <1>6 DEF Before, Size
<1>8. PICK a, b : a = "IDENTIFIER" /\ b = "SEMICOLON"
  OBVIOUS
<1>9. Expects(g, 1) = {a} /\ Expects(g, 2) = {b}
  BY <1>4, <1>5, <1>8, FormIs
<1>10. ASSUME NEW i \in 1..t + n
       PROVE  Expects(g, i + 2) = Expects(f, i)
  <2>1. CASE i > t
    <3>1. i + 2 > t + 2 /\ (i + 2) - (t + 2) = i - t
      BY <1>2, <2>1
    <3>2. Expects(g, i + 2) = Body(h)[(i + 2) - (t + 2)]
      BY <1>4, <1>7, <3>1 DEF Expects
    <3>3. Expects(f, i) = Body(h)[i - t]
      BY <1>1, <1>7, <2>1 DEF Expects
    <3> QED
      BY <3>1, <3>2, <3>3
  <2>2. CASE ~(i > t)
    <3>1. t = 2 /\ i \in {1, 2}
      BY <1>2, <2>2
    <3>2. CASE i = 1
      <4>1. Expects(g, 2 + 1) = {"IDENTIFIER"} /\ Expects(f, 0 + 1) = {"IDENTIFIER"}
        BY <1>1, <1>4, <1>5, <3>1, FormIs
      <4> QED
        BY <3>2, <4>1
    <3>3. CASE i = 2
      <4>1. Expects(g, 2 + 2) = {"EQ"} /\ Expects(f, 0 + 2) = {"EQ"}
        BY <1>1, <1>4, <1>5, <3>1, FormIs
      <4> QED
        BY <3>3, <4>1
    <3> QED
      BY <3>1, <3>2, <3>3
  <2> QED
    BY <2>1, <2>2
<1>11. Spells(v, g) <=> \E w : Spells(w, f) /\ v = Prefixed(a, b, w)
  <2>1. Size(g) = Size(f) + 2
    BY <1>2, <1>6, <1>7
  <2>2. \A i \in 1..Size(f) : Expects(g, i + 2) = Expects(f, i)
    BY <1>7, <1>10
  <2> QED
    BY <1>5, <1>9, <2>1, <2>2, TwoMore
<1> QED
  BY <1>1, <1>4, <1>5, <1>8, <1>11 DEF LabelBefore, Prefixed

\* Of forms with this head or not, those with a label are the ones behind one.
LEMMA LabelableForms ==
  ASSUME NEW A, NEW H,
         \A v : v \in A <=> \E f \in Forms : f.label = 0 /\ f.head \in H /\ Spells(v, f), NEW v
  PROVE  v \in Labelable(A) <=> \E f \in Forms : f.head \in H /\ Spells(v, f)
<1>1. ASSUME NEW w \in A, v = LabelBefore(w)
      PROVE  \E f \in Forms : f.head \in H /\ Spells(v, f)
  <2>1. PICK f \in Forms : f.label = 0 /\ f.head \in H /\ Spells(w, f)
    OBVIOUS
  <2>2. PICK g : g = AddLabel(f)
    OBVIOUS
  <2>3. /\ g \in Forms /\ g.head = f.head
        /\ Spells(v, g) <=> \E u : Spells(u, f) /\ v = LabelBefore(u)
    BY <2>1, <2>2, WithLabel
  <2>4. Spells(v, g)
    BY <1>1, <2>1, <2>3
  <2> QED
    BY <2>1, <2>3, <2>4
<1>2. ASSUME NEW f \in Forms, f.head \in H, Spells(v, f), f.label = 2
      PROVE  \E w \in A : v = LabelBefore(w)
  <2>1. PICK e : e = [f EXCEPT !.label = 0]
    OBVIOUS
  <2>2. f = [label |-> 2, target |-> f.target, head |-> f.head] /\ f.target \in {0, 2} /\ f.head \in Heads
    BY <1>2, FormIs
  <2>3. e = [label |-> 0, target |-> f.target, head |-> f.head]
    BY <2>1, <2>2
  <2>4. e.label = 0 /\ e.head = f.head /\ e.target = f.target
    BY <2>3
  <2>5. e \in Forms
    BY <2>2, <2>3, <2>4 DEF Forms
  <2>6. AddLabel(e) = f
    BY <2>2, <2>3 DEF AddLabel
  <2>7. PICK w : Spells(w, e) /\ v = LabelBefore(w)
    BY <1>2, <2>4, <2>5, <2>6, WithLabel
  <2> QED
    BY <1>2, <2>4, <2>5, <2>7
<1>3. v \in Labelable(A) <=> v \in A \/ \E w \in A : v = LabelBefore(w)
  BY DEF Labelable, LabelBefore
<1> QED
  BY <1>1, <1>2, <1>3, FormIs

LEMMA LanguageForms ==
  ASSUME NEW v
  PROVE  /\ v \in Labelable(Instructions) <=> \E f \in Forms : f.head # "END" /\ Spells(v, f)
         /\ v \in Labelable({<<"END">>}) <=> \E f \in Forms : f.head = "END" /\ Spells(v, f)
         /\ v \in Labelable(Instructions \cup {<<"END">>}) <=> \E f \in Forms : Spells(v, f)
<1>1. PICK H, E : H = Heads \ {"END"} /\ E = {"END"}
  OBVIOUS
<1>2. \A f \in Forms : (f.head # "END" <=> f.head \in H) /\ (f.head = "END" <=> f.head \in E)
  BY <1>1, FormIs
<1>3. v \in Labelable(Instructions) <=> \E f \in Forms : f.head \in H /\ Spells(v, f)
  <2>1. \A w : w \in Instructions <=> \E f \in Forms : f.label = 0 /\ f.head \in H /\ Spells(w, f)
    BY <1>2, InstructionForms
  <2> QED
    BY <2>1, LabelableForms
<1>4. v \in Labelable({<<"END">>}) <=> \E f \in Forms : f.head \in E /\ Spells(v, f)
  <2>1. \A w : w \in {<<"END">>} <=> \E f \in Forms : f.label = 0 /\ f.head \in E /\ Spells(w, f)
    BY <1>2, EndForms
  <2> QED
    BY <2>1, LabelableForms
<1>5. PICK ends : ends = {<<"END">>}
  OBVIOUS
<1>6. v \in Labelable(Instructions \cup ends) <=> v \in Labelable(Instructions) \/ v \in Labelable(ends)
  BY DEF Labelable
<1> QED
  BY <1>2, <1>3, <1>4, <1>5, <1>6

----------------------------------------------------------------------------
(* Sequences of whole instructions.  A position is one that they lead to if *)
(* a chain of positions does, each an instruction behind an earlier one.    *)

Chain(q, C, i) ==
  /\ C \in SUBSET (1..i) /\ 1 \in C /\ i \in C
  /\ \A x \in C : x = 1 \/ \E b \in C : b < x /\ Step(q, b, x)

Whole(q, i) == \E C : Chain(q, C, i)

LEMMA StepForward ==
  ASSUME NEW q, NEW b \in Nat, NEW i \in Nat, Step(q, b, i)
  PROVE  b < i /\ i <= Len(q) + 1
<1>1. PICK f \in Forms : f.head # "END" /\ b + Size(f) = i /\ Fits(q, b, f, Size(f))
  BY DEF Step
<1>2. Size(f) \in Nat /\ Size(f) > 0
  BY FormIs
<1> QED
  BY <1>1, <1>2 DEF Fits

LEMMA WholeFirst == ASSUME NEW q PROVE Whole(q, 1)
<1>1. Chain(q, {1}, 1)
  BY DEF Chain
<1> QED
  BY <1>1 DEF Whole

LEMMA WholeStep ==
  ASSUME NEW q, NEW b \in Nat, NEW i \in Nat, Step(q, b, i), Whole(q, b)
  PROVE  Whole(q, i)
<1>1. PICK C : Chain(q, C, b)
  BY DEF Whole
<1>2. b < i
  BY StepForward
<1>3. C \cup {i} \in SUBSET (1..i)
  BY <1>1, <1>2 DEF Chain
<1>4. 1 \in C \cup {i} /\ i \in C \cup {i}
  BY <1>1 DEF Chain
<1>5. \A x \in C \cup {i} : x = 1 \/ \E y \in C \cup {i} : y < x /\ Step(q, y, x)
  BY <1>1, <1>2 DEF Chain
<1>6. Chain(q, C \cup {i}, i)
  BY <1>3, <1>4, <1>5 DEF Chain
<1> QED
  BY <1>6 DEF Whole

LEMMA WholeLast ==
  ASSUME NEW q, NEW i \in Nat, i # 1, Whole(q, i)
  PROVE  \E b \in 1..i - 1 : Step(q, b, i) /\ Whole(q, b)
<1>1. PICK C : Chain(q, C, i)
  BY DEF Whole
<1>2. PICK b \in C : b < i /\ Step(q, b, i)
  BY <1>1 DEF Chain
<1>3. b \in 1..i - 1
  BY <1>1, <1>2 DEF Chain
<1> DEFINE D == {x \in C : x <= b}
<1>4. D \in SUBSET (1..b)
  <2>1. \A x \in C : x \in 1..i
    BY <1>1 DEF Chain
  <2>2. \A x \in D : x \in 1..i /\ x <= b
    BY <2>1
  <2>3. \A x \in D : x \in 1..b
    BY <1>3, <2>2
  <2> QED
    BY <2>3
<1>5. 1 \in D /\ b \in D
  BY <1>1, <1>3 DEF Chain
<1>6. ASSUME NEW x \in D, x # 1
      PROVE  \E y \in D : y < x /\ Step(q, y, x)
  <2>1. PICK y \in C : y < x /\ Step(q, y, x)
    BY <1>1, <1>6 DEF Chain
  <2>2. y \in D
    BY <1>1, <1>3, <2>1 DEF Chain
  <2> QED
    BY <2>1, <2>2
<1> HIDE DEF D
<1>7. Chain(q, D, b)
  BY <1>4, <1>5, <1>6 DEF Chain
<1> QED
  BY <1>2, <1>3, <1>7 DEF Whole

\* Whether instructions lead to a position depends on the types before it.
LEMMA FitsAlike ==
  ASSUME NEW p, NEW q, NEW m \in Nat, m <= Len(q), Len(q) \in Nat,
         \A k \in 1..m : p[k] = q[k],
         NEW b \in Nat \ {0}, NEW f, NEW n \in Nat, b + n <= m + 1, Fits(p, b, f, n)
  PROVE  Fits(q, b, f, n)
<1>1. \A i \in 1..n : b + i - 1 \in 1..m
  OBVIOUS
<1>2. \A i \in 1..n : p[b + i - 1] = q[b + i - 1]
  BY <1>1
<1>3. b + n <= Len(q) + 1
  OBVIOUS
<1> QED
  BY <1>2, <1>3 DEF Fits

LEMMA WholeAlike ==
  ASSUME NEW p, NEW q, NEW m \in Nat, m <= Len(q), Len(q) \in Nat,
         \A k \in 1..m : p[k] = q[k], NEW i \in Nat, i <= m + 1, Whole(p, i)
  PROVE  Whole(q, i)
<1>1. PICK C : Chain(p, C, i)
  BY DEF Whole
<1>2. ASSUME NEW b \in C, NEW x \in C, Step(p, b, x)
      PROVE  Step(q, b, x)
  <2>1. PICK f \in Forms : f.head # "END" /\ b + Size(f) = x /\ Fits(p, b, f, Size(f))
    BY <1>2 DEF Step
  <2>2. b \in Nat \ {0} /\ x <= m + 1
    BY <1>1 DEF Chain
  <2>3. Size(f) \in Nat
    BY FormIs
  <2>4. Fits(q, b, f, Size(f))
    BY <2>1, <2>2, <2>3, FitsAlike
  <2> QED
    BY <2>1, <2>4 DEF Step
<1>3. Chain(q, C, i)
  BY <1>1, <1>2 DEF Chain
<1> QED
  BY <1>3 DEF Whole

\* There is one way to go on.
LEMMA StepUnique ==
  ASSUME NEW q, NEW b \in Nat, NEW x \in Nat, NEW y \in Nat, Step(q, b, x), Step(q, b, y)
  PROVE  x = y
<1>1. PICK f \in Forms : b + Size(f) = x /\ Fits(q, b, f, Size(f))
  BY DEF Step
<1>2. PICK g \in Forms : b + Size(g) = y /\ Fits(q, b, g, Size(g))
  BY DEF Step
<1>3. Size(f) \in Nat /\ Size(g) \in Nat
  BY FormIs
<1>4. CASE Size(f) <= Size(g)
  <2>1. Size(g) = Size(f)
    BY <1>1, <1>2, <1>3, <1>4, SameSize
  <2> QED
    BY <1>1, <1>2, <2>1
<1>5. CASE Size(g) <= Size(f)
  <2>1. Size(g) = Size(f)
    BY <1>1, <1>2, <1>3, <1>5, SameSize
  <2> QED
    BY <1>1, <1>2, <2>1
<1> QED
  BY <1>3, <1>4, <1>5

\* Of two positions that instructions lead to, they lead from one to the other.
LEMMA WholeGoesOn ==
  ASSUME NEW q, NEW c \in Nat, Whole(q, c), NEW i \in Nat, Whole(q, i), i < c
  PROVE  \E b \in 1..c : Step(q, i, b)
<1> DEFINE GoesOn(x) == \A j \in 1..x - 1 : Whole(q, x) /\ Whole(q, j) => \E b \in 1..x : Step(q, j, b)
           Bad == {x \in Nat : ~GoesOn(x)}
<1>1. ASSUME Bad # {}
      PROVE  FALSE
  <2>1. PICK x : x = Min(Bad)
    OBVIOUS
  <2>2. x \in Bad /\ \A y \in Bad : x <= y
    <3>1. Bad \subseteq Nat
      OBVIOUS
    <3> QED
      BY <1>1, <2>1, <3>1, MinIsLeast
  <2>3. x \in Nat /\ \A y \in Nat : y < x => GoesOn(y)
    BY <2>2
  <2>4. PICK j \in 1..x - 1 : Whole(q, x) /\ Whole(q, j) /\ ~\E b \in 1..x : Step(q, j, b)
    BY <2>2
  <2>5. PICK z \in 1..x - 1 : Step(q, z, x) /\ Whole(q, z)
    <3>1. x # 1
      BY <2>3, <2>4
    <3> QED
      BY <2>3, <2>4, <3>1, WholeLast
  <2>6. CASE j = z
    <3>1. x \in 1..x
      BY <2>3, <2>4
    <3> QED
      BY <2>4, <2>5, <2>6, <3>1
  <2>7. CASE j < z
    <3>1. GoesOn(z) /\ j \in 1..z - 1
      BY <2>3, <2>5, <2>7
    <3>2. PICK b \in 1..z : Step(q, j, b)
      BY <2>4, <2>5, <3>1
    <3>3. b \in 1..x
      BY <2>3
    <3> QED
      BY <2>4, <3>2, <3>3
  <2>8. CASE z < j
    <3>1. GoesOn(j) /\ z \in 1..j - 1
      BY <2>3, <2>4, <2>8
    <3>2. PICK b \in 1..j : Step(q, z, b)
      BY <2>4, <2>5, <3>1
    <3>3. b = x
      BY <2>3, <2>5, <3>2, StepUnique
    <3> QED
      BY <2>3, <3>3
  <2> QED
    BY <2>3, <2>6, <2>7, <2>8
<1>2. GoesOn(c)
  BY <1>1
<1>3. i \in 1..c - 1
  <2>1. i # 0
    BY DEF Whole, Chain
  <2> QED
    BY <2>1
<1> QED
  BY <1>2, <1>3

LEMMA SizeIs == ASSUME NEW f \in Forms PROVE Size(f) \in Nat \ {0}
BY FormIs

\* v is the k elements from b on.
IsCut(S, q, b, k, v) ==
  /\ Len(v) = k /\ v \in Seq(S) /\ v = [i \in 1..k |-> v[i]]
  /\ \A i \in 1..k : v[i] = q[b + i - 1]

LEMMA SubSeqIs ==
  ASSUME NEW S, NEW q \in Seq(S), NEW b \in Nat \ {0}, NEW k \in Nat, b + k <= Len(q) + 1
  PROVE  IsCut(S, q, b, k, SubSeq(q, b, b + k - 1))
<1>0. PICK v : v = SubSeq(q, b, b + k - 1)
  OBVIOUS
<1>1. PICK m \in Int : m = b + k - 1
  OBVIOUS
<1>2. m - b + 1 = k /\ (IF b <= m THEN m - b + 1 ELSE 0) = k
  BY <1>1
<1>3. \A i \in b..m : q[i] \in S
  BY <1>1
<1>4. /\ SubSeq(q, b, m) \in Seq(S)
      /\ Len(SubSeq(q, b, m)) = IF b <= m THEN m - b + 1 ELSE 0
      /\ \A i \in 1..m - b + 1 : SubSeq(q, b, m)[i] = q[b + i - 1]
  BY <1>3, SubSeqProperties
<1>5. v \in Seq(S) /\ Len(v) = k /\ \A i \in 1..k : v[i] = q[b + i - 1]
  BY <1>0, <1>1, <1>2, <1>4
<1>6. v = [i \in 1..k |-> v[i]]
  <2>1. v \in [1..Len(v) -> S]
    BY <1>5, LenProperties
  <2> QED
    BY <1>5, <2>1
<1> QED
  BY <1>0, <1>5, <1>6 DEF IsCut

\* The first k elements, and the elements from b on.
IsFirsts(S, q, k, v) ==
  /\ Len(v) = k /\ v \in Seq(S) /\ v = [i \in 1..k |-> v[i]]
  /\ \A i \in 1..k : v[i] = q[i]

LEMMA FirstsIs ==
  ASSUME NEW S, NEW q \in Seq(S), NEW k \in Nat, k <= Len(q)
  PROVE  IsFirsts(S, q, k, SubSeq(q, 1, k))
<1>1. PICK one \in Nat \ {0} : one = 1
  OBVIOUS
<1>2. one + k <= Len(q) + 1 /\ one + k - 1 = k
  BY <1>1
<1>3. PICK v : v = SubSeq(q, one, one + k - 1)
  OBVIOUS
<1>4. IsCut(S, q, one, k, v)
  BY <1>2, <1>3, SubSeqIs
<1>5. \A i \in 1..k : one + i - 1 = i
  BY <1>1
<1>6. IsFirsts(S, q, k, v)
  BY <1>4, <1>5 DEF IsCut, IsFirsts
<1> QED
  BY <1>1, <1>2, <1>3, <1>6

IsRest(S, q, b, v) ==
  /\ v \in Seq(S) /\ Len(v) = Len(q) + 1 - b /\ v = [i \in 1..Len(q) + 1 - b |-> v[i]]
  /\ \A i \in 1..Len(q) + 1 - b : v[i] = q[b + i - 1]

LEMMA RestIs ==
  ASSUME NEW S, NEW q \in Seq(S), NEW b \in 1..Len(q) + 1
  PROVE  IsRest(S, q, b, SubSeq(q, b, Len(q)))
<1>7. PICK n \in Nat, k \in Nat : n = Len(q) /\ k = n + 1 - b
  OBVIOUS
<1>8. PICK v : v = SubSeq(q, b, n)
  OBVIOUS
<1>1. n = Len(q) /\ k = n + 1 - b /\ v = SubSeq(q, b, n)
  BY <1>7, <1>8
<1>2. n - b + 1 = k /\ (IF b <= n THEN n - b + 1 ELSE 0) = k /\ n \in Int /\ b \in Int
  BY <1>1
<1>3. \A i \in b..n : q[i] \in S
  BY <1>1
<1>4. /\ SubSeq(q, b, n) \in Seq(S)
      /\ Len(SubSeq(q, b, n)) = IF b <= n THEN n - b + 1 ELSE 0
      /\ \A i \in 1..n - b + 1 : SubSeq(q, b, n)[i] = q[b + i - 1]
  BY <1>2, <1>3, SubSeqProperties
<1>5. v \in Seq(S) /\ Len(v) = k /\ \A i \in 1..k : v[i] = q[b + i - 1]
  BY <1>1, <1>2, <1>4
<1>6. v = [i \in 1..k |-> v[i]]
  <2>1. v \in [1..Len(v) -> S]
    BY <1>5, LenProperties
  <2> QED
    BY <1>5, <2>1
<1> QED
  BY <1>1, <1>5, <1>6 DEF IsRest

LEMMA FitsIsSpelled ==
  ASSUME NEW S, NEW q \in Seq(S), NEW b \in Nat \ {0}, NEW f \in Forms, b + Size(f) <= Len(q) + 1,
         NEW v, v = SubSeq(q, b, b + Size(f) - 1)
  PROVE  Fits(q, b, f, Size(f)) <=> Spells(v, f)
<1>1. PICK k \in Nat : k = Size(f)
  BY SizeIs
<1>2. Len(v) = k /\ v = [i \in 1..k |-> v[i]] /\ \A i \in 1..k : v[i] = q[b + i - 1]
  <2>1. b + k <= Len(q) + 1 /\ v = SubSeq(q, b, b + k - 1)
    BY <1>1
  <2>2. IsCut(S, q, b, k, v)
    BY <2>1, SubSeqIs
  <2> QED
    BY <2>2 DEF IsCut
<1>3. b + k <= Len(q) + 1 /\ k <= k
  BY <1>1
<1>4. Fits(q, b, f, k) <=> \A i \in 1..k : q[b + i - 1] \in Expects(f, i)
  BY <1>1, <1>3 DEF Fits
<1>5. Spells(v, f) <=> \A i \in 1..k : v[i] \in Expects(f, i)
  BY <1>1, <1>2 DEF Spells
<1> QED
  BY <1>1, <1>2, <1>4, <1>5

LEMMA FitsLast ==
  ASSUME NEW S, NEW q \in Seq(S), NEW n \in Nat, n = Len(q), NEW b \in Nat \ {0}, NEW f \in Forms,
         NEW k \in Nat, k = Size(f), b + k = n + 1, NEW v, v = SubSeq(q, b, n)
  PROVE  Fits(q, b, f, Size(f)) <=> Spells(v, f)
<1>1. b + Size(f) <= Len(q) + 1 /\ b + Size(f) - 1 = n
  OBVIOUS
<1>2. v = SubSeq(q, b, b + Size(f) - 1)
  BY <1>1
<1> QED
  BY <1>1, <1>2, FitsIsSpelled

LEMMA SpelledLength ==
  ASSUME NEW f \in Forms, NEW v, Spells(v, f)
  PROVE  Len(v) = Size(f)
<1>1. PICK k \in Nat : k = Size(f)
  BY SizeIs
<1>2. v = [i \in 1..k |-> v[i]]
  BY <1>1 DEF Spells
<1> QED
  BY <1>1, <1>2

\* A cut of k from b ends just before b + k.
LEMMA CutEnds ==
  ASSUME NEW i \in Nat, NEW b \in Nat \ {0}, NEW k \in Nat, k > 0, b + k = i
  PROVE  b + k - 1 = i - 1 /\ b \in 1..i - 1
OBVIOUS

\* The types from b up to i are an instruction.
LEMMA StepIsInstruction ==
  ASSUME NEW S, NEW q \in Seq(S), NEW i \in 1..Len(q) + 1, NEW form \in Labelable(Instructions),
         Len(form) < i, SubSeq(q, i - Len(form), i - 1) = form
  PROVE  i - Len(form) \in 1..i - 1 /\ Step(q, i - Len(form), i)
<1>1. PICK f \in Forms : f.head # "END" /\ Spells(form, f)
  BY LanguageForms
<1>2. PICK k \in Nat : k = Size(f) /\ k > 0
  <2>1. Size(f) \in Nat /\ Size(f) > 0
    BY SizeIs
  <2> QED
    BY <2>1
<1>3. Len(form) = k
  BY <1>1, <1>2, SpelledLength
<1>4. PICK b \in Nat \ {0} : b = i - k
  BY <1>3
<1>5. b + k = i /\ b + k <= Len(q) + 1 /\ b + k - 1 = i - 1 /\ b \in 1..i - 1
  <2>1. i \in Nat /\ i <= Len(q) + 1
    OBVIOUS
  <2>2. b + k = i
    BY <1>4, <2>1
  <2>3. b + k - 1 = i - 1 /\ b \in 1..i - 1
    BY <1>2, <2>1, <2>2, CutEnds
  <2> QED
    BY <2>1, <2>2, <2>3
<1>6. form = SubSeq(q, b, b + k - 1)
  BY <1>3, <1>4, <1>5
<1>7. Fits(q, b, f, Size(f))
  BY <1>1, <1>2, <1>5, <1>6, FitsIsSpelled
<1> QED
  BY <1>1, <1>2, <1>3, <1>4, <1>5, <1>7 DEF Step

LEMMA InstructionOfStep ==
  ASSUME NEW S, NEW q \in Seq(S), NEW i \in 1..Len(q) + 1, NEW b \in 1..i - 1, Step(q, b, i)
  PROVE  \E form \in Labelable(Instructions) :
           Len(form) < i /\ SubSeq(q, i - Len(form), i - 1) = form /\ i - Len(form) = b
<1>1. PICK f \in Forms : f.head # "END" /\ b + Size(f) = i /\ Fits(q, b, f, Size(f))
  BY DEF Step
<1>2. PICK k \in Nat : k = Size(f)
  BY SizeIs
<1>3. PICK form : form = SubSeq(q, b, b + k - 1)
  OBVIOUS
<1>4. b \in Nat \ {0} /\ b + k <= Len(q) + 1 /\ b + k = i
  BY <1>1, <1>2
<1>5. Spells(form, f)
  BY <1>1, <1>2, <1>3, <1>4, FitsIsSpelled
<1>6. Len(form) = k /\ form \in Labelable(Instructions)
  BY <1>1, <1>2, <1>5, SpelledLength, LanguageForms
<1>7. k < i /\ i - k = b /\ b + k - 1 = i - 1
  BY <1>4
<1> QED
  BY <1>3, <1>6, <1>7

\* The equation of WholeBefore's function.
Equation(q, w) ==
  w = [i \in 1..Len(q) + 1 |->
         \/ i = 1
         \/ \E form \in Labelable(Instructions) :
              /\ Len(form) < i
              /\ SubSeq(q, i - Len(form), i - 1) = form
              /\ w[i - Len(form)]]

LEMMA EquationIs ==
  ASSUME NEW S, NEW q \in Seq(S), NEW w, NEW i \in 1..Len(q) + 1
  PROVE  (\E form \in Labelable(Instructions) :
              /\ Len(form) < i
              /\ SubSeq(q, i - Len(form), i - 1) = form
              /\ w[i - Len(form)])
           <=> \E b \in 1..i - 1 : Step(q, b, i) /\ w[b]
<1>1. ASSUME NEW form \in Labelable(Instructions), Len(form) < i,
             SubSeq(q, i - Len(form), i - 1) = form, w[i - Len(form)]
      PROVE  \E b \in 1..i - 1 : Step(q, b, i) /\ w[b]
  BY <1>1, StepIsInstruction
<1>2. ASSUME NEW b \in 1..i - 1, Step(q, b, i), w[b]
      PROVE  \E form \in Labelable(Instructions) :
               /\ Len(form) < i
               /\ SubSeq(q, i - Len(form), i - 1) = form
               /\ w[i - Len(form)]
  <2>1. PICK form \in Labelable(Instructions) :
          Len(form) < i /\ SubSeq(q, i - Len(form), i - 1) = form /\ i - Len(form) = b
    BY <1>2, InstructionOfStep
  <2> QED
    BY <1>2, <2>1
<1> QED
  BY <1>1, <1>2

LEMMA WholeSolves ==
  ASSUME NEW S, NEW q \in Seq(S)
  PROVE  \E w : Equation(q, w)
<1>1. PICK n \in Nat : n = Len(q)
  OBVIOUS
<1>2. PICK w : w = [i \in 1..n + 1 |-> i = 1 \/ Whole(q, i)]
  OBVIOUS
<1>3. ASSUME NEW i \in 1..n + 1
      PROVE  Whole(q, i) <=>
               \/ i = 1
               \/ \E form \in Labelable(Instructions) :
                    /\ Len(form) < i
                    /\ SubSeq(q, i - Len(form), i - 1) = form
                    /\ w[i - Len(form)]
  <2>1. ASSUME NEW b \in 1..i - 1
        PROVE  w[b] <=> Whole(q, b)
    <3>1. b \in 1..n + 1
      OBVIOUS
    <3>2. w[b] <=> b = 1 \/ Whole(q, b)
      BY <1>2, <3>1
    <3> QED
      BY <3>2, WholeFirst
  <2>2. Whole(q, i) <=> i = 1 \/ \E b \in 1..i - 1 : Step(q, b, i) /\ Whole(q, b)
    BY WholeFirst, WholeStep, WholeLast
  <2>3. (\E form \in Labelable(Instructions) :
           /\ Len(form) < i
           /\ SubSeq(q, i - Len(form), i - 1) = form
           /\ w[i - Len(form)])
         <=> \E b \in 1..i - 1 : Step(q, b, i) /\ w[b]
    BY <1>1, EquationIs
  <2> QED
    BY <2>1, <2>2, <2>3
<1>4. w = [i \in 1..n + 1 |->
             \/ i = 1
             \/ \E form \in Labelable(Instructions) :
                  /\ Len(form) < i
                  /\ SubSeq(q, i - Len(form), i - 1) = form
                  /\ w[i - Len(form)]]
  <2> DEFINE whole(i) ==
             \/ i = 1
             \/ \E form \in Labelable(Instructions) :
                  /\ Len(form) < i
                  /\ SubSeq(q, i - Len(form), i - 1) = form
                  /\ w[i - Len(form)]
  <2>1. \A i \in 1..n + 1 : Whole(q, i) <=> whole(i)
    BY <1>3
  <2>2. \A i \in 1..n + 1 : (i = 1 \/ Whole(q, i)) = whole(i)
    BY <2>1, WholeFirst
  <2> HIDE DEF whole
  <2>3. w = [i \in 1..n + 1 |-> whole(i)]
    BY <1>2, <2>2
  <2> QED
    BY <2>3 DEF whole
<1> QED
  BY <1>1, <1>4 DEF Equation

LEMMA WholeBeforeIs ==
  ASSUME NEW S, NEW q \in Seq(S), NEW i \in 1..Len(q) + 1
  PROVE  WholeBefore(q)[i] <=> Whole(q, i)
<1>1. PICK w : w = WholeBefore(q)
  OBVIOUS
<1>2. WholeBefore(q) = CHOOSE v : Equation(q, v)
  BY DEF WholeBefore, Equation
<1>3. Equation(q, w)
  BY <1>1, <1>2, WholeSolves
<1>4. ASSUME NEW x \in 1..Len(q) + 1
      PROVE  w[x] <=> x = 1 \/ \E b \in 1..x - 1 : Step(q, b, x) /\ w[b]
  <2>1. w[x] <=> \/ x = 1
                 \/ \E form \in Labelable(Instructions) :
                      /\ Len(form) < x
                      /\ SubSeq(q, x - Len(form), x - 1) = form
                      /\ w[x - Len(form)]
    BY <1>3 DEF Equation
  <2> QED
    BY <2>1, EquationIs
<1> DEFINE Bad == {x \in 1..Len(q) + 1 : ~(w[x] <=> Whole(q, x))}
<1>5. ASSUME Bad # {}
      PROVE  FALSE
  <2>1. PICK x : x = Min(Bad)
    OBVIOUS
  <2>2. x \in Bad /\ \A y \in Bad : x <= y
    <3>1. Bad \subseteq Nat
      OBVIOUS
    <3> QED
      BY <1>5, <2>1, <3>1, MinIsLeast
  <2>3. x \in 1..Len(q) + 1 /\ ~(w[x] <=> Whole(q, x))
    BY <2>2
  <2>4. \A y \in 1..x - 1 : w[y] <=> Whole(q, y)
    <3>1. \A y \in 1..x - 1 : y \in 1..Len(q) + 1 /\ ~(x <= y)
      BY <2>3
    <3> QED
      BY <2>2, <3>1
  <2> HIDE DEF Bad
  <2>5. x \in Nat
    BY <2>3
  <2>6. Whole(q, x) <=> x = 1 \/ \E b \in 1..x - 1 : Step(q, b, x) /\ Whole(q, b)
    BY <2>5, WholeFirst, WholeStep, WholeLast
  <2> QED
    BY <1>4, <2>3, <2>4, <2>6
<1> QED
  BY <1>1, <1>5

LEMMA SuffixIs ==
  ASSUME NEW S, NEW q \in Seq(S), NEW T, NEW v \in Seq(T)
  PROVE  IsSuffix(v, q) <=>
           Len(v) <= Len(q) /\ SubSeq(q, Len(q) - Len(v) + 1, Len(q)) = v
<1>1. PICK n \in Nat, k \in Nat : n = Len(q) /\ k = Len(v)
  OBVIOUS
<1>2. PICK rq, rv : rq = Reverse(q) /\ rv = Reverse(v)
  OBVIOUS
<1>3. rq \in Seq(S) /\ Len(rq) = n /\ \A i \in 1..n : rq[i] = q[n - i + 1]
  <2>1. rq = [i \in 1..n |-> q[(n - i) + 1]]
    BY <1>1, <1>2 DEF Reverse
  <2>2. \A i \in 1..n : (n - i) + 1 \in 1..n
    OBVIOUS
  <2>3. rq \in [1..n -> S]
    BY <1>1, <2>1, <2>2
  <2> QED
    BY <2>1, <2>3
<1>4. rv \in Seq(T) /\ Len(rv) = k /\ \A i \in 1..k : rv[i] = v[k - i + 1]
  <2>1. rv = [i \in 1..k |-> v[(k - i) + 1]]
    BY <1>1, <1>2 DEF Reverse
  <2>2. \A i \in 1..k : (k - i) + 1 \in 1..k
    OBVIOUS
  <2>3. rv \in [1..k -> T]
    BY <1>1, <2>1, <2>2
  <2> QED
    BY <2>1, <2>3
<1>5. IsSuffix(v, q) <=> k <= n /\ SubSeq(rv, 1, k) = SubSeq(rq, 1, k)
  BY <1>2, <1>4, <1>3 DEF IsSuffix, IsPrefix
<1>6. ASSUME k <= n
      PROVE  SubSeq(rv, 1, k) = SubSeq(rq, 1, k) <=> SubSeq(q, n - k + 1, n) = v
  <2>1. PICK a, c : a = SubSeq(rv, 1, k) /\ c = SubSeq(rq, 1, k)
    OBVIOUS
  <2>2. PICK b \in Nat \ {0} : b = n - k + 1
    BY <1>6
  <2>3. PICK d : d = SubSeq(q, b, n)
    OBVIOUS
  <2>4. k <= Len(rv) /\ k <= Len(rq) /\ b + k = n + 1
    BY <1>3, <1>4, <1>6, <2>2
  <2>5. a = [i \in 1..k |-> a[i]] /\ \A i \in 1..k : a[i] = rv[i]
    <3>1. IsFirsts(T, rv, k, a)
      BY <1>4, <2>1, <2>4, FirstsIs
    <3> QED
      BY <3>1 DEF IsFirsts
  <2>6. c = [i \in 1..k |-> c[i]] /\ \A i \in 1..k : c[i] = rq[i]
    <3>1. IsFirsts(S, rq, k, c)
      BY <1>3, <2>1, <2>4, FirstsIs
    <3> QED
      BY <3>1 DEF IsFirsts
  <2>11. d = [i \in 1..k |-> d[i]] /\ \A i \in 1..k : d[i] = q[b + i - 1]
    <3>1. b \in 1..Len(q) + 1 /\ Len(q) + 1 - b = k
      BY <1>1, <2>4
    <3>2. IsRest(S, q, b, SubSeq(q, b, Len(q)))
      BY <3>1, RestIs
    <3>3. IsRest(S, q, b, d)
      BY <1>1, <2>3, <3>2
    <3> QED
      BY <3>1, <3>3 DEF IsRest
  <2>7. v = [i \in 1..k |-> v[i]]
    BY <1>1
  <2>8. ASSUME NEW i \in 1..k
        PROVE  /\ k - i + 1 \in 1..k /\ k - (k - i + 1) + 1 = i
               /\ a[i] = v[k - i + 1] /\ c[i] = d[k - i + 1]
    <3>1. k - i + 1 \in 1..k /\ k - (k - i + 1) + 1 = i
      OBVIOUS
    <3>2. a[i] = v[k - i + 1]
      BY <1>4, <2>5, <3>1
    <3>3. i \in 1..n /\ b + (k - i + 1) - 1 = n - i + 1
      BY <1>6, <2>2
    <3>4. c[i] = q[n - i + 1] /\ d[k - i + 1] = q[n - i + 1]
      BY <1>3, <2>6, <2>11, <3>1, <3>3
    <3> QED
      BY <3>1, <3>2, <3>4
  <2>9. ASSUME a = c
        PROVE  d = v
    <3>1. ASSUME NEW i \in 1..k
          PROVE  d[i] = v[i]
      <4>1. PICK j : j = k - i + 1
        OBVIOUS
      <4>2. j \in 1..k /\ k - j + 1 = i
        BY <4>1
      <4> QED
        BY <2>8, <2>9, <4>2
    <3> QED
      BY <2>11, <2>7, <3>1
  <2>10. ASSUME d = v
         PROVE  a = c
    <3>1. \A i \in 1..k : a[i] = c[i]
      BY <2>8, <2>10
    <3> QED
      BY <2>5, <2>6, <3>1
  <2> QED
    BY <2>1, <2>2, <2>3, <2>9, <2>10
<1> QED
  BY <1>1, <1>5, <1>6

LEMMA SpelledIsSeq ==
  ASSUME NEW f \in Forms, NEW v, Spells(v, f)
  PROVE  \E T : v \in Seq(T)
<1>1. PICK k \in Nat : k = Size(f)
  BY SizeIs
<1>2. v = [i \in 1..k |-> v[i]]
  BY <1>1 DEF Spells
<1>3. PICK T : T = {v[i] : i \in 1..k}
  OBVIOUS
<1>4. v \in [1..k -> T]
  BY <1>2, <1>3
<1>5. v \in Seq(T)
  BY <1>4
<1> QED
  BY <1>5

\* A program: whole instructions, and behind them an end.
Ends(q, i) ==
  /\ Whole(q, i)
  /\ \E f \in Forms : f.head = "END" /\ i + Size(f) = Len(q) + 1 /\ Fits(q, i, f, Size(f))

LEMMA ProgramIs ==
  ASSUME NEW S, NEW q \in Seq(S)
  PROVE  IsProgram(q) <=> \E i \in 1..Len(q) + 1 : Ends(q, i)
<1>1. PICK n \in Nat : n = Len(q)
  OBVIOUS
<1>2. ASSUME NEW last \in Labelable({<<"END">>}),
             IsSuffix(last, q), WholeBefore(q)[n - Len(last) + 1]
      PROVE  \E i \in 1..n + 1 : Ends(q, i)
  <2>1. PICK f \in Forms : f.head = "END" /\ Spells(last, f)
    BY LanguageForms
  <2>2. PICK k \in Nat : k = Size(f) /\ k # 0
    BY SizeIs
  <2>3. Len(last) = k /\ \E T : last \in Seq(T)
    BY <2>1, <2>2, SpelledLength, SpelledIsSeq
  <2>4. k <= n /\ SubSeq(q, n - k + 1, n) = last
    BY <1>1, <1>2, <2>3, SuffixIs
  <2>5. PICK i \in 1..n + 1 : i = n - k + 1
    BY <2>4
  <2>6. i + k = n + 1 /\ i \in Nat \ {0} /\ last = SubSeq(q, i, n)
    BY <2>4, <2>5
  <2>7. Fits(q, i, f, Size(f))
    BY <1>1, <2>1, <2>2, <2>6, FitsLast
  <2>8. Whole(q, i)
    BY <1>1, <1>2, <2>3, <2>5, WholeBeforeIs
  <2> QED
    BY <1>1, <2>1, <2>2, <2>6, <2>7, <2>8 DEF Ends
<1>3. ASSUME NEW i \in 1..n + 1, Ends(q, i)
      PROVE  IsProgram(q)
  <2>1. PICK f \in Forms : f.head = "END" /\ i + Size(f) = n + 1 /\ Fits(q, i, f, Size(f))
    BY <1>1, <1>3 DEF Ends
  <2>2. PICK k \in Nat : k = Size(f) /\ k # 0
    BY SizeIs
  <2>3. PICK last : last = SubSeq(q, i, n)
    OBVIOUS
  <2>4. i \in Nat \ {0} /\ i + k = n + 1 /\ n - k + 1 = i /\ k <= n
    BY <2>1, <2>2
  <2>5. Spells(last, f)
    BY <1>1, <2>1, <2>2, <2>3, <2>4, FitsLast
  <2>6. last \in Labelable({<<"END">>}) /\ Len(last) = k /\ \E T : last \in Seq(T)
    BY <2>1, <2>2, <2>5, LanguageForms, SpelledLength, SpelledIsSeq
  <2>7. IsSuffix(last, q)
    BY <1>1, <2>3, <2>4, <2>6, SuffixIs
  <2>8. WholeBefore(q)[n - Len(last) + 1]
    BY <1>1, <1>3, <2>4, <2>6, WholeBeforeIs DEF Ends
  <2> QED
    BY <1>1, <2>6, <2>7, <2>8 DEF IsProgram
<1> QED
  BY <1>1, <1>2, <1>3 DEF IsProgram

\* What can be continued: whole instructions, and behind them the first types
\* of an instruction or an end.
Continues(q, i) ==
  Whole(q, i) /\ \E f \in Forms : Fits(q, i, f, Len(q) + 1 - i)

\* The first types of a form can be completed.
LEMMA Completed ==
  ASSUME NEW S, NEW v \in Seq(S), NEW f \in Forms, Len(v) <= Size(f),
         \A i \in 1..Len(v) : v[i] \in Expects(f, i)
  PROVE  \E w : Spells(w, f) /\ IsPrefix(v, w)
<1>1. PICK m \in Nat, k \in Nat : m = Len(v) /\ k = Size(f)
  BY SizeIs
<1>2. ASSUME NEW i \in 1..k
      PROVE  Expects(f, i) # {}
  <2>1. PICK b : b = Before(f)
    OBVIOUS
  <2>2. b \in 0..4 /\ f.head \in Heads /\ k = b + Len(Body(f.head)) /\ Len(Body(f.head)) \in 1..5
    BY <1>1, <2>1, FormIs, BodyIs DEF Size
  <2>3. CASE i > b
    <3>1. PICK j \in 1..Len(Body(f.head)) : i = b + j
      <4>1. i - b \in 1..Len(Body(f.head)) /\ b + (i - b) = i
        BY <2>2, <2>3
      <4> QED
        BY <4>1
    <3>2. Expects(f, i) = Body(f.head)[j]
      BY <2>1, <3>1, FormIs
    <3>3. Body(f.head)[1] # {} /\ \A x \in 2..Len(Body(f.head)) : Body(f.head)[x] # {}
      <4>1. \A types \in {Name, Operator, Location, Order, {"GOTO"}} : types # {}
        BY DEF Name, Operator, Location, Order
      <4> QED
        BY <2>2, <4>1, BodyIs
    <3>4. j = 1 \/ j \in 2..Len(Body(f.head))
      BY <2>2
    <3> QED
      BY <3>2, <3>3, <3>4
  <2>4. CASE ~(i > b)
    BY <2>1, <2>4 DEF Expects, Name
  <2> QED
    BY <2>3, <2>4
<1>3. PICK w : w = [i \in 1..k |-> IF i <= m THEN v[i] ELSE CHOOSE type : type \in Expects(f, i)]
  OBVIOUS
<1>4. \A i \in 1..k : w[i] \in Expects(f, i)
  BY <1>1, <1>2, <1>3
<1>5. w = [i \in 1..k |-> w[i]]
  BY <1>3
<1>6. Spells(w, f)
  BY <1>1, <1>4, <1>5 DEF Spells
<1>7. PICK T : w \in Seq(T)
  BY <1>6, SpelledIsSeq
<1>8. Len(w) = k /\ m <= k
  BY <1>1, <1>6, SpelledLength
<1>9. PICK a, c : a = SubSeq(v, 1, m) /\ c = SubSeq(w, 1, m)
  OBVIOUS
<1>10. m <= Len(v) /\ m <= Len(w)
  BY <1>1, <1>8
<1>11. a = [i \in 1..m |-> a[i]] /\ \A i \in 1..m : a[i] = v[i]
  <2>1. IsFirsts(S, v, m, a)
    BY <1>9, <1>10, FirstsIs
  <2> QED
    BY <2>1 DEF IsFirsts
<1>12. c = [i \in 1..m |-> c[i]] /\ \A i \in 1..m : c[i] = w[i]
  <2>1. IsFirsts(T, w, m, c)
    BY <1>7, <1>9, <1>10, FirstsIs
  <2> QED
    BY <2>1 DEF IsFirsts
<1>13. \A i \in 1..m : a[i] = c[i]
  <2>1. \A i \in 1..m : w[i] = v[i]
    BY <1>3, <1>8
  <2> QED
    BY <1>11, <1>12, <2>1
<1>14. a = c
  BY <1>11, <1>12, <1>13
<1>15. IsPrefix(v, w)
  BY <1>1, <1>8, <1>9, <1>10, <1>14 DEF IsPrefix
<1> QED
  BY <1>6, <1>15

\* What being a prefix says of the elements.
LEMMA PrefixElements ==
  ASSUME NEW S, NEW v \in Seq(S), NEW T, NEW w \in Seq(T), IsPrefix(v, w)
  PROVE  Len(v) <= Len(w) /\ \A j \in 1..Len(v) : w[j] = v[j]
<1>1. PICK m \in Nat : m = Len(v)
  OBVIOUS
<1>2. m <= Len(v) /\ m <= Len(w) /\ SubSeq(v, 1, m) = SubSeq(w, 1, m)
  BY <1>1 DEF IsPrefix
<1>3. PICK a : a = SubSeq(v, 1, m) /\ a = SubSeq(w, 1, m)
  BY <1>2
<1>4. IsFirsts(S, v, m, a)
  BY <1>2, <1>3, FirstsIs
<1>5. IsFirsts(T, w, m, a)
  BY <1>2, <1>3, FirstsIs
<1>6. \A j \in 1..m : w[j] = v[j]
  BY <1>4, <1>5 DEF IsFirsts
<1> QED
  BY <1>1, <1>2, <1>6

\* The last m types are the first of a form.
LEMMA PrefixOfForm ==
  ASSUME NEW S, NEW q \in Seq(S), NEW n \in Nat, n = Len(q), NEW i \in Nat \ {0},
         NEW m \in Nat, i + m = n + 1, NEW v, v = SubSeq(q, i, n)
  PROVE  (\E form \in Labelable(Instructions \cup {<<"END">>}) : IsPrefix(v, form))
           <=> \E f \in Forms : Fits(q, i, f, m)
<1>1. v \in Seq(S) /\ Len(v) = m /\ v = [j \in 1..m |-> v[j]] /\ \A j \in 1..m : v[j] = q[i + j - 1]
  <2>1. i \in 1..Len(q) + 1 /\ Len(q) + 1 - i = m
    OBVIOUS
  <2>2. IsRest(S, q, i, SubSeq(q, i, Len(q)))
    BY <2>1, RestIs
  <2>3. IsRest(S, q, i, v)
    BY <2>2
  <2> QED
    BY <2>1, <2>3 DEF IsRest
<1>5. ASSUME NEW form \in Labelable(Instructions \cup {<<"END">>}), IsPrefix(v, form)
      PROVE  \E f \in Forms : Fits(q, i, f, m)
  <2>1. PICK f \in Forms : Spells(form, f)
    BY LanguageForms
  <2>2. PICK k \in Nat : k = Size(f)
    BY SizeIs
  <2>3. PICK T : form \in Seq(T)
    BY <2>1, SpelledIsSeq
  <2>4. Len(form) = k /\ \A j \in 1..k : form[j] \in Expects(f, j)
    BY <2>1, <2>2, SpelledLength DEF Spells
  <2>5. v \in Seq(S) /\ m = Len(v)
    BY <1>1
  <2>6. Len(v) <= Len(form) /\ \A j \in 1..Len(v) : form[j] = v[j]
    BY <1>5, <2>3, <2>5, PrefixElements
  <2>7. m <= k
    BY <2>4, <2>5, <2>6
  <2>8. \A j \in 1..m : form[j] = v[j]
    BY <2>5, <2>6
  <2>9. ASSUME NEW j \in 1..m
        PROVE  q[i + j - 1] \in Expects(f, j)
    <3>1. j \in 1..k
      BY <2>7
    <3>2. q[i + j - 1] = form[j]
      BY <1>1, <2>8
    <3> QED
      BY <2>4, <3>1, <3>2
  <2>10. \A j \in 1..m : q[i + j - 1] \in Expects(f, j)
    BY <2>9
  <2> QED
    BY <2>2, <2>7, <2>10 DEF Fits
<1>6. ASSUME NEW f \in Forms, Fits(q, i, f, m)
      PROVE  \E form \in Labelable(Instructions \cup {<<"END">>}) : IsPrefix(v, form)
  <2>1. m <= Size(f) /\ \A j \in 1..m : v[j] \in Expects(f, j)
    BY <1>1, <1>6 DEF Fits
  <2>2. PICK w : Spells(w, f) /\ IsPrefix(v, w)
    BY <1>1, <2>1, Completed
  <2>3. w \in Labelable(Instructions \cup {<<"END">>})
    BY <2>2, LanguageForms
  <2> QED
    BY <2>2, <2>3
<1> QED
  BY <1>5, <1>6

LEMMA PrefixIs ==
  ASSUME NEW S, NEW q \in Seq(S)
  PROVE  IsProgramPrefix(q) <=> \E i \in 1..Len(q) + 1 : Continues(q, i)
<1>1. PICK n \in Nat : n = Len(q)
  OBVIOUS
<1>2. ASSUME NEW i \in 1..n + 1
      PROVE  (\E form \in Labelable(Instructions \cup {<<"END">>}) : IsPrefix(SubSeq(q, i, n), form))
               <=> \E f \in Forms : Fits(q, i, f, n + 1 - i)
  <2>1. PICK m \in Nat : m = n + 1 - i
    OBVIOUS
  <2>2. PICK b \in Nat \ {0} : b = i
    OBVIOUS
  <2>3. PICK v : v = SubSeq(q, b, n)
    OBVIOUS
  <2>4. b + m = n + 1
    BY <2>1, <2>2
  <2>5. (\E form \in Labelable(Instructions \cup {<<"END">>}) : IsPrefix(v, form))
           <=> \E f \in Forms : Fits(q, b, f, m)
    BY <1>1, <2>3, <2>4, PrefixOfForm
  <2> QED
    BY <2>1, <2>2, <2>3, <2>5
<1>3. \A i \in 1..n + 1 : WholeBefore(q)[i] <=> Whole(q, i)
  BY <1>1, WholeBeforeIs
<1> QED
  BY <1>1, <1>2, <1>3 DEF IsProgramPrefix, Continues

----------------------------------------------------------------------------
(* What the parser makes of the types: it reads a form to its end, or stops  *)
(* at the first token that no form goes on with.                             *)

Typed(ts, q) == q = [i \in DOMAIN ts |-> ts[i].type]

LEMMA TypedSeq ==
  ASSUME NEW S, NEW ts \in Seq(S), NEW q, Typed(ts, q)
  PROVE  \E T : q \in Seq(T)
<1>1. PICK n \in Nat : n = Len(ts) /\ DOMAIN ts = 1..n
  OBVIOUS
<1>2. PICK T : T = {ts[i].type : i \in DOMAIN ts}
  OBVIOUS
<1>3. q \in [1..n -> T]
  BY <1>1, <1>2 DEF Typed
<1>4. q \in Seq(T)
  BY <1>3
<1> QED
  BY <1>4

LEMMA TypedIs ==
  ASSUME NEW S, NEW ts \in Seq(S), NEW q, Typed(ts, q)
  PROVE  /\ Len(q) = Len(ts) /\ Len(q) \in Nat /\ DOMAIN q = 1..Len(q)
         /\ \A i \in 1..Len(q) : q[i] = ts[i].type
<1>1. PICK n \in Nat : n = Len(ts) /\ DOMAIN ts = 1..n
  OBVIOUS
<1>2. PICK T : T = {ts[i].type : i \in DOMAIN ts}
  OBVIOUS
<1>3. q \in [1..n -> T] /\ \A i \in 1..n : q[i] = ts[i].type
  BY <1>1, <1>2 DEF Typed
<1>4. q \in Seq(T) /\ Len(q) = n /\ DOMAIN q = 1..n
  BY <1>3
<1> QED
  BY <1>1, <1>2, <1>3, <1>4

\* The statement at c is of the form f, and ends before at.
Accepted(q, c, f, at) == Fits(q, c, f, Size(f)) /\ at = c + Size(f)

\* What follows the x - c tokens from c on is in no form, and types are what
\* could be there instead.
Rejected(q, c, x, types) ==
  /\ x \in c..Len(q) + 1
  /\ \E f \in Forms : Fits(q, c, f, x - c) /\ x - c < Size(f)
  /\ \A f \in Forms : ~Fits(q, c, f, x - c + 1)
  /\ \A type \in types :
       \E f \in Forms : Fits(q, c, f, x - c) /\ x - c < Size(f) /\ type \in Expects(f, x - c + 1)

RejectedWith(ts, q, c, e) == \E x, types : e = Unexpected(ts, x, types) /\ Rejected(q, c, x, types)

\* What parsing a body at b comes to.
BodyRead(ts, q, b, head, at, e) ==
  LET body == Body(head)
  IN  \/ /\ e = None /\ at = b + Len(body) /\ b + Len(body) <= Len(q) + 1
         /\ \A i \in 1..Len(body) : q[b + i - 1] \in body[i]
      \/ \E j \in 1..Len(body) :
           /\ at = b + j - 1 /\ e = Unexpected(ts, at, body[j]) /\ at <= Len(q) + 1
           /\ \A i \in 1..j - 1 : q[b + i - 1] \in body[i]
           /\ at <= Len(q) => q[at] \notin body[j]

LEMMA BodyTaken ==
  ASSUME NEW S, NEW ts \in Seq(S), NEW q, Typed(ts, q), NEW b \in 1..Len(ts) + 1,
         NEW head \in Heads, NEW p, p = TakeEach(ts, From(b), Body(head))
  PROVE  BodyRead(ts, q, b, head, p.at, p.error)
<1>1. PICK shape : shape = Body(head)
  OBVIOUS
<1>2. PICK n \in Nat : n = Len(shape) /\ n > 0 /\ DOMAIN shape = 1..n
  <2>1. Len(shape) \in 1..5 /\ DOMAIN shape = 1..Len(shape)
    BY <1>1, BodyIs
  <2>2. PICK x \in 1..5 : x = Len(shape)
    BY <2>1
  <2>3. x \in Nat /\ x > 0
    OBVIOUS
  <2> QED
    BY <2>1, <2>2, <2>3
<1>3. \A i \in 1..n : "NONE" \notin shape[i]
  <2>1. shape[1] = {head} /\ \A i \in 2..n : shape[i] \in {Name, Operator, Location, Order, {"GOTO"}}
    BY <1>1, <1>2, BodyIs
  <2>2. \A i \in 1..n : i = 1 \/ i \in 2..n
    OBVIOUS
  <2>3. "NONE" \notin Heads
    BY DEF Heads, ValueHeads, InstructionHeads
  <2>4. \A types \in {Name, Operator, Location, Order, {"GOTO"}} : "NONE" \notin types
    BY DEF Name, Operator, Location, Order
  <2> QED
    BY <2>1, <2>2, <2>3, <2>4
<1>4. Taken(ts, b, shape, n, p)
  BY <1>1, <1>2, <1>3, TakeEachTaken
<1>5. Len(q) = Len(ts) /\ Len(q) \in Nat /\ \A i \in 1..Len(q) : q[i] = ts[i].type
  BY TypedIs
<1>6. CASE p.error = None
  <2>1. p.at = b + n /\ Matches(ts, b, shape, n)
    <3>1. \A j \in 1..n : Unexpected(ts, p.at, shape[j]) # None
      BY UnexpectedIsError
    <3> QED
      BY <1>4, <1>6, <3>1 DEF Taken
  <2>2. b + n <= Len(q) + 1
    BY <1>5, <2>1 DEF Matches
  <2>3. ASSUME NEW i \in 1..n
        PROVE  q[b + i - 1] \in shape[i]
    <3>1. b + i - 1 \in 1..Len(q)
      BY <1>5, <2>2
    <3>2. ts[b + i - 1].type \in shape[i]
      BY <2>1 DEF Matches
    <3> QED
      BY <1>5, <3>1, <3>2
  <2> QED
    BY <1>1, <1>2, <1>6, <2>1, <2>2, <2>3 DEF BodyRead
<1>7. CASE p.error # None
  <2>1. PICK j \in 1..n :
          /\ p.error = Unexpected(ts, p.at, shape[j]) /\ p.at = b + j - 1
          /\ b + j - 1 <= Len(ts) + 1 /\ \A i \in 1..j - 1 : ts[b + i - 1].type \in shape[i]
          /\ TypeAt(ts, p.at) \notin shape[j]
    BY <1>4, <1>7 DEF Taken
  <2>2. ASSUME NEW i \in 1..j - 1
        PROVE  q[b + i - 1] \in shape[i]
    <3>1. b + i - 1 \in 1..Len(q)
      BY <1>5, <2>1
    <3>2. ts[b + i - 1].type \in shape[i]
      BY <2>1
    <3> QED
      BY <1>5, <3>1, <3>2
  <2>3. p.at \in Nat /\ p.at >= 1 /\ p.at <= Len(q) + 1
    BY <1>5, <2>1
  <2>4. ASSUME p.at <= Len(q)
        PROVE  q[p.at] \notin shape[j]
    <3>1. p.at \in 1..Len(q) /\ ~(p.at > Len(ts))
      BY <1>5, <2>3, <2>4
    <3> QED
      BY <1>5, <2>1, <3>1 DEF TypeAt
  <2> QED
    BY <1>1, <1>2, <2>1, <2>2, <2>3, <2>4 DEF BodyRead
<1> QED
  BY <1>6, <1>7

LEMMA BodyOutcome ==
  ASSUME NEW ts, NEW q, Len(q) \in Nat, NEW c \in Nat \ {0}, NEW f \in Forms,
         NEW b \in Nat, b = c + Before(f), Fits(q, c, f, Before(f) + 1),
         NEW at, NEW e, BodyRead(ts, q, b, f.head, at, e)
  PROVE  (e = None /\ Accepted(q, c, f, at)) \/ RejectedWith(ts, q, c, e)
<1>1. PICK k \in Nat, n \in Nat : k = Before(f) /\ n = Len(Body(f.head)) /\ n > 0
  <2>1. Before(f) \in 0..4 /\ f.head \in Heads
    BY FormIs
  <2>2. Len(Body(f.head)) \in 1..5
    BY <2>1, BodyIs
  <2>3. PICK x \in 0..4, y \in 1..5 : x = Before(f) /\ y = Len(Body(f.head))
    BY <2>1, <2>2
  <2>4. x \in Nat /\ y \in Nat /\ y > 0
    OBVIOUS
  <2> QED
    BY <2>3, <2>4
<1>2. Size(f) = k + n /\ b = c + k
  BY <1>1 DEF Size
<1>3. \A i \in 1..n : Expects(f, k + i) = Body(f.head)[i]
  BY <1>1, FormIs
<1>4. \A i \in 1..k + 1 : q[c + i - 1] \in Expects(f, i)
  BY <1>1 DEF Fits
<1>5. ASSUME NEW m \in 0..n, c + k + m <= Len(q) + 1, \A i \in 1..m : q[b + i - 1] \in Body(f.head)[i]
      PROVE  Fits(q, c, f, k + m)
  <2>1. ASSUME NEW i \in 1..k + m
        PROVE  q[c + i - 1] \in Expects(f, i)
    <3>1. CASE i \in 1..k + 1
      BY <1>4, <3>1
    <3>2. CASE i \notin 1..k + 1
      <4>1. PICK j \in 1..m : i = k + j
        <5>1. i - k \in 1..m /\ i = k + (i - k)
          BY <3>2
        <5> QED
          BY <5>1
      <4>2. j \in 1..n /\ c + i - 1 = b + j - 1
        BY <1>2, <4>1
      <4>3. q[b + j - 1] \in Body(f.head)[j]
        BY <1>5
      <4> QED
        BY <1>3, <4>1, <4>2, <4>3
    <3> QED
      BY <3>1, <3>2
  <2>2. k + m <= Size(f) /\ c + (k + m) <= Len(q) + 1
    BY <1>2, <1>5
  <2> QED
    BY <2>1, <2>2 DEF Fits
<1>6. CASE /\ e = None /\ at = b + n /\ b + n <= Len(q) + 1
           /\ \A i \in 1..n : q[b + i - 1] \in Body(f.head)[i]
  <2>1. n \in 0..n /\ c + k + n <= Len(q) + 1
    BY <1>2, <1>6
  <2>2. Fits(q, c, f, k + n)
    BY <1>5, <1>6, <2>1
  <2>3. at = c + Size(f)
    BY <1>2, <1>6
  <2> QED
    BY <1>2, <1>6, <2>2, <2>3 DEF Accepted
<1>7. ASSUME NEW j \in 1..n, at = b + j - 1, e = Unexpected(ts, at, Body(f.head)[j]), at <= Len(q) + 1,
             \A i \in 1..j - 1 : q[b + i - 1] \in Body(f.head)[i],
             at <= Len(q) => q[at] \notin Body(f.head)[j]
      PROVE  RejectedWith(ts, q, c, e)
  <2>1. j # 1
    <3>1. k + 1 \in 1..k + 1 /\ c + (k + 1) - 1 = b /\ 1 \in 1..n
      BY <1>1, <1>2
    <3>2. q[b] \in Body(f.head)[1]
      BY <1>3, <1>4, <3>1
    <3>3. b <= Len(q)
      <4>1. c + (k + 1) <= Len(q) + 1
        BY <1>1 DEF Fits
      <4> QED
        BY <1>2, <4>1
    <3>4. j = 1 => at = b
      BY <1>7
    <3> QED
      BY <1>7, <3>2, <3>3, <3>4
  <2>2. PICK m \in Nat : m = k + (j - 1) /\ j - 1 \in 0..n
    OBVIOUS
  <2>3. at - c = m /\ at \in c..Len(q) + 1 /\ m < Size(f) /\ m > k /\ m + 1 = k + j
    BY <1>2, <1>7, <2>1, <2>2
  <2>4. Fits(q, c, f, m)
    <3>1. c + k + (j - 1) <= Len(q) + 1
      BY <1>2, <1>7
    <3> QED
      BY <1>5, <1>7, <2>2, <3>1
  <2>5. Expects(f, m + 1) = Body(f.head)[j]
    BY <1>3, <2>3
  <2>6. ASSUME NEW g \in Forms, Fits(q, c, g, m + 1)
        PROVE  FALSE
    <3>1. m > Before(f) /\ m + 1 >= m /\ m + 1 \in Nat
      BY <1>1, <2>3
    <3>2. PICK m1 \in Nat : m1 = m + 1 /\ m1 >= m /\ Fits(q, c, g, m1)
      BY <2>6, <3>1
    <3>3. g = f
      BY <2>4, <3>1, <3>2, SameForm
    <3>4. m + 1 \in 1..m + 1 /\ c + (m + 1) - 1 = at
      BY <2>3
    <3>5. q[at] \in Expects(f, m + 1) /\ c + (m + 1) <= Len(q) + 1
      BY <2>6, <3>3, <3>4 DEF Fits
    <3>6. at <= Len(q)
      BY <3>4, <3>5
    <3> QED
      BY <1>7, <2>5, <3>5, <3>6
  <2>7. Rejected(q, c, at, Body(f.head)[j])
    BY <2>3, <2>4, <2>5, <2>6 DEF Rejected
  <2> QED
    BY <1>7, <2>7 DEF RejectedWith
<1> QED
  BY <1>1, <1>6, <1>7 DEF BodyRead

\* The statement at c has a label, which is two tokens, or none.
LabelRead(q, c, l) ==
  /\ l \in {0, 2} /\ c + l <= Len(q)
  /\ l = 2 => q[c] = "IDENTIFIER" /\ q[c + 1] = "SEMICOLON"
  /\ l = 0 => ~(c < Len(q) /\ q[c] = "IDENTIFIER" /\ q[c + 1] = "SEMICOLON")

FormOf(l, t, head) == [label |-> l, target |-> t, head |-> head]

LEMMA FormOfIs ==
  ASSUME NEW l \in {0, 2}, NEW t \in {0, 2}, NEW head,
         IF t = 0 THEN head \in InstructionHeads \cup {"END"} ELSE head \in ValueHeads
  PROVE  /\ FormOf(l, t, head) \in Forms
         /\ FormOf(l, t, head).label = l /\ FormOf(l, t, head).target = t
         /\ FormOf(l, t, head).head = head /\ Before(FormOf(l, t, head)) = l + t
BY DEF FormOf, Forms, Heads, Before

LEMMA FitsOneMore ==
  ASSUME NEW q, NEW c \in Nat, NEW f \in Forms, NEW n \in Nat, Fits(q, c, f, n), n < Size(f),
         Len(q) \in Nat, c + n <= Len(q), q[c + n] \in Expects(f, n + 1)
  PROVE  Fits(q, c, f, n + 1)
<1>1. n + 1 <= Size(f) /\ c + (n + 1) <= Len(q) + 1
  BY FormIs
<1>2. ASSUME NEW i \in 1..n + 1
      PROVE  q[c + i - 1] \in Expects(f, i)
  <2>1. CASE i \in 1..n
    BY <2>1 DEF Fits
  <2>2. CASE i = n + 1
    <3>1. c + i - 1 = c + n
      BY <2>2
    <3> QED
      BY <2>2, <3>1
  <2> QED
    BY <2>1, <2>2
<1> QED
  BY <1>1, <1>2 DEF Fits

LEMMA LabelFits ==
  ASSUME NEW q, Len(q) \in Nat, NEW c \in Nat, NEW f \in Forms, NEW l, l = f.label, LabelRead(q, c, l)
  PROVE  Fits(q, c, f, l)
<1>1. l \in {0, 2} /\ c + l <= Len(q) + 1 /\ l <= Size(f)
  <2>1. Before(f) = l + f.target /\ f.target \in {0, 2} /\ Size(f) \in Before(f) + 1..Before(f) + 5
        /\ l \in {0, 2}
    BY FormIs DEF Before
  <2>2. c + l <= Len(q)
    BY DEF LabelRead
  <2> QED
    BY <2>1, <2>2
<1>2. ASSUME NEW i \in 1..l
      PROVE  q[c + i - 1] \in Expects(f, i)
  <2>1. l = 2 /\ (i = 1 \/ i = 2) /\ c + 1 - 1 = c /\ c + 2 - 1 = c + 1
    BY <1>1
  <2>2. Expects(f, 1) = {"IDENTIFIER"} /\ Expects(f, 2) = {"SEMICOLON"}
    BY <2>1, FormIs
  <2>3. q[c] = "IDENTIFIER" /\ q[c + 1] = "SEMICOLON"
    BY <2>1 DEF LabelRead
  <2> QED
    BY <2>1, <2>2, <2>3
<1> QED
  BY <1>1, <1>2 DEF Fits

\* A form that goes on behind the label has a label if and only if that is one.
LEMMA LabelDecided ==
  ASSUME NEW q, Len(q) \in Nat, NEW c \in Nat, NEW l, LabelRead(q, c, l), NEW g \in Forms,
         NEW n \in Nat, n > l, n >= 2 \/ q[c] # "IDENTIFIER", Fits(q, c, g, n)
  PROVE  g.label = l
<1>1. l \in {0, 2} /\ g.label \in {0, 2}
  BY FormIs DEF LabelRead
<1>2. CASE n >= 2
  <2>1. g.label = IF q[c + 1] = "SEMICOLON" THEN 2 ELSE 0
    BY <1>2, LabelOf
  <2>2. CASE l = 2
    BY <2>1, <2>2 DEF LabelRead
  <2>3. CASE l = 0
    <3>1. ASSUME g.label = 2
          PROVE  FALSE
      <4>1. 1 \in 1..n /\ c + 1 - 1 = c
        BY <1>2
      <4>2. q[c] \in Expects(g, 1)
        BY <4>1 DEF Fits
      <4>3. q[c] = "IDENTIFIER"
        BY <3>1, <4>2, FormIs
      <4>4. c < Len(q)
        BY <1>2 DEF Fits
      <4> QED
        BY <2>1, <2>3, <3>1, <4>3, <4>4 DEF LabelRead
    <3> QED
      BY <1>1, <2>3, <3>1
  <2> QED
    BY <1>1, <2>2, <2>3
<1>3. CASE ~(n >= 2)
  <2>1. n = 1 /\ l = 0 /\ q[c] # "IDENTIFIER"
    BY <1>1, <1>3
  <2>2. 1 \in 1..n /\ c + 1 - 1 = c
    BY <2>1
  <2>3. q[c] \in Expects(g, 1)
    BY <2>2 DEF Fits
  <2>4. g.label # 2
    BY <2>1, <2>3, FormIs
  <2> QED
    BY <1>1, <2>1, <2>4
<1> QED
  BY <1>2, <1>3

\* The three places a statement can fail at before its body.
LEMMA NoStart ==
  ASSUME NEW q, Len(q) \in Nat, NEW c \in Nat \ {0}, NEW l, LabelRead(q, c, l),
         NEW x \in Nat, x = c + l, q[x] \notin InstructionHeads \cup {"END", "IDENTIFIER"}
  PROVE  Rejected(q, c, x, StatementStart)
<1>1. l \in {0, 2} /\ l \in Nat /\ x <= Len(q)
  BY DEF LabelRead
<1>2. x - c = l /\ x \in c..Len(q) + 1
  BY <1>1
<1>3. ASSUME NEW type \in StatementStart
      PROVE  \E f \in Forms : Fits(q, c, f, l) /\ l < Size(f) /\ type \in Expects(f, l + 1)
  <2>1. CASE type = "IDENTIFIER"
    <3>1. PICK f \in Forms : f.label = l /\ f.target = 2
      <4>1. PICK t \in {0, 2} : t = 2
        OBVIOUS
      <4>2. PICK head \in ValueHeads : head = "NUMBER"
        BY DEF ValueHeads
      <4> QED
        BY <1>1, <4>1, <4>2, FormOfIs
    <3>2. Fits(q, c, f, l)
      BY <3>1, LabelFits
    <3>3. l < Size(f)
      BY <1>1, <3>1, FormIs DEF Before
    <3>4. Expects(f, l + 1) = {"IDENTIFIER"}
      BY <3>1, FormIs
    <3> QED
      BY <2>1, <3>2, <3>3, <3>4
  <2>2. CASE type # "IDENTIFIER"
    <3>1. type \in InstructionHeads \cup {"END"}
      BY <2>2 DEF StatementStart, InstructionHeads
    <3>2. PICK f \in Forms : f.label = l /\ f.target = 0 /\ f.head = type
      <4>1. PICK t \in {0, 2} : t = 0
        OBVIOUS
      <4> QED
        BY <1>1, <3>1, <4>1, FormOfIs
    <3>3. Fits(q, c, f, l)
      BY <3>2, LabelFits
    <3>4. Before(f) = l
      BY <1>1, <3>2 DEF Before
    <3>5. l < Size(f) /\ Expects(f, l + 1) = {type}
      BY <1>1, <3>2, <3>4, FormIs
    <3> QED
      BY <3>3, <3>5
  <2> QED
    BY <2>1, <2>2
<1>4. \E f \in Forms : Fits(q, c, f, l) /\ l < Size(f)
  <2>1. "END" \in StatementStart
    BY DEF StatementStart
  <2> QED
    BY <1>3, <2>1
<1>5. ASSUME NEW g \in Forms, Fits(q, c, g, l + 1)
      PROVE  FALSE
  <2>1. PICK n \in Nat : n = l + 1
    BY <1>1
  <2>2. n >= 2 \/ q[c] # "IDENTIFIER"
    <3>1. CASE l = 0
      <4>1. x = c
        BY <3>1
      <4> QED
        BY <4>1
    <3>2. CASE l = 2
      BY <2>1, <3>2
    <3> QED
      BY <1>1, <3>1, <3>2
  <2>3. n > l /\ Fits(q, c, g, n)
    BY <1>1, <1>5, <2>1
  <2>4. g.label = l
    BY <2>2, <2>3, LabelDecided
  <2>5. /\ g.target = IF q[c + g.label] = "IDENTIFIER" THEN 2 ELSE 0
        /\ g.target = 0 => g.head = q[c + g.label]
    BY <2>3, <2>4, TargetOf
  <2>6. g.target = 0 /\ g.head = q[x]
    BY <2>4, <2>5
  <2>7. g.head \in InstructionHeads \cup {"END"}
    BY <2>6 DEF Forms
  <2> QED
    BY <2>6, <2>7
<1> QED
  BY <1>2, <1>3, <1>4, <1>5 DEF Rejected

LEMMA NoEq ==
  ASSUME NEW q, Len(q) \in Nat, NEW c \in Nat \ {0}, NEW l, LabelRead(q, c, l),
         NEW x \in Nat, x = c + l + 1, q[c + l] = "IDENTIFIER", x <= Len(q) => q[x] # "EQ"
  PROVE  Rejected(q, c, x, {"EQ"})
<1>1. l \in {0, 2} /\ l \in Nat /\ c + l <= Len(q)
  BY DEF LabelRead
<1>2. x - c = l + 1 /\ x \in c..Len(q) + 1 /\ l + 1 + 1 = l + 2
  BY <1>1
<1>3. PICK f \in Forms : f.label = l /\ f.target = 2
  <2>1. PICK t \in {0, 2} : t = 2
    OBVIOUS
  <2>2. PICK head \in ValueHeads : head = "NUMBER"
    BY DEF ValueHeads
  <2> QED
    BY <1>1, <2>1, <2>2, FormOfIs
<1>4. l + 1 < Size(f) /\ l < Size(f)
  BY <1>1, <1>3, FormIs DEF Before
<1>5. Expects(f, l + 1) = {"IDENTIFIER"} /\ Expects(f, l + 2) = {"EQ"}
  BY <1>3, FormIs
<1>6. Fits(q, c, f, l + 1)
  <2>1. Fits(q, c, f, l)
    BY <1>3, LabelFits
  <2> QED
    BY <1>1, <1>4, <1>5, <2>1, FitsOneMore
<1>7. ASSUME NEW g \in Forms, Fits(q, c, g, l + 2)
      PROVE  FALSE
  <2>1. PICK n \in Nat : n = l + 2
    BY <1>1
  <2>2. n >= 2 /\ n > l /\ Fits(q, c, g, n)
    BY <1>1, <1>7, <2>1
  <2>3. g.label = l
    BY <2>2, LabelDecided
  <2>4. g.target = IF q[c + g.label] = "IDENTIFIER" THEN 2 ELSE 0
    BY <2>2, <2>3, TargetOf
  <2>5. Expects(g, l + 2) = {"EQ"}
    BY <2>3, <2>4, FormIs
  <2>6. l + 2 \in 1..l + 2 /\ c + (l + 2) - 1 = x
    BY <1>1
  <2>7. q[x] \in Expects(g, l + 2) /\ c + (l + 2) <= Len(q) + 1
    BY <1>7, <2>6 DEF Fits
  <2>8. x <= Len(q)
    BY <1>1, <2>7
  <2> QED
    BY <2>5, <2>7, <2>8
<1> QED
  BY <1>2, <1>4, <1>5, <1>6, <1>7 DEF Rejected

LEMMA NoValue ==
  ASSUME NEW q, Len(q) \in Nat, NEW c \in Nat \ {0}, NEW l, LabelRead(q, c, l),
         NEW x \in Nat, x = c + l + 2, q[c + l] = "IDENTIFIER", q[c + l + 1] = "EQ", x <= Len(q) + 1,
         x <= Len(q) => q[x] \notin ValueHeads
  PROVE  Rejected(q, c, x, ValueHeads)
<1>1. l \in {0, 2} /\ l \in Nat /\ c + l <= Len(q) /\ c + (l + 1) <= Len(q)
  BY DEF LabelRead
<1>2. x - c = l + 2 /\ x \in c..Len(q) + 1 /\ l + 2 + 1 = l + 3 /\ l + 1 + 1 = l + 2
      /\ c + (l + 1) = c + l + 1
  BY <1>1
<1>3. ASSUME NEW type \in ValueHeads
      PROVE  \E f \in Forms : Fits(q, c, f, l + 2) /\ l + 2 < Size(f) /\ type \in Expects(f, l + 3)
  <2>1. PICK f \in Forms : f.label = l /\ f.target = 2 /\ f.head = type
    <3>1. PICK t \in {0, 2} : t = 2
      OBVIOUS
    <3> QED
      BY <1>1, <3>1, FormOfIs
  <2>2. Before(f) = l + 2 /\ Before(f) + 1 = l + 3
    BY <1>1, <2>1 DEF Before
  <2>3. l + 2 < Size(f) /\ l + 1 < Size(f) /\ l < Size(f)
    <3>1. Size(f) \in Before(f) + 1..Before(f) + 5 /\ Before(f) \in 0..4
      BY FormIs
    <3>2. Size(f) \in Nat /\ Size(f) > l + 2
      BY <1>1, <2>2, <3>1
    <3> QED
      BY <1>1, <3>2
  <2>4. Expects(f, l + 3) = {type}
    BY <2>1, <2>2, FormIs
  <2>5. Expects(f, l + 1) = {"IDENTIFIER"} /\ Expects(f, l + 2) = {"EQ"}
    BY <2>1, FormIs
  <2>6. Fits(q, c, f, l)
    BY <2>1, LabelFits
  <2>7. Fits(q, c, f, l + 1)
    BY <1>1, <2>3, <2>5, <2>6, FitsOneMore
  <2>8. Fits(q, c, f, l + 1 + 1)
    <3>1. PICK n \in Nat : n = l + 1
      BY <1>1
    <3>2. Fits(q, c, f, n) /\ n < Size(f) /\ c + n <= Len(q) /\ q[c + n] \in Expects(f, n + 1)
      BY <1>1, <1>2, <2>3, <2>5, <2>7, <3>1
    <3> QED
      BY <3>1, <3>2, FitsOneMore
  <2> QED
    BY <1>2, <2>3, <2>4, <2>8
<1>4. \E f \in Forms : Fits(q, c, f, l + 2) /\ l + 2 < Size(f)
  <2>1. "NUMBER" \in ValueHeads
    BY DEF ValueHeads
  <2> QED
    BY <1>3, <2>1
<1>5. ASSUME NEW g \in Forms, Fits(q, c, g, l + 3)
      PROVE  FALSE
  <2>1. PICK n \in Nat : n = l + 3
    BY <1>1
  <2>2. n >= 2 /\ n > l /\ Fits(q, c, g, n)
    BY <1>1, <1>5, <2>1
  <2>3. g.label = l
    BY <2>2, LabelDecided
  <2>4. g.target = IF q[c + g.label] = "IDENTIFIER" THEN 2 ELSE 0
    BY <2>2, <2>3, TargetOf
  <2>5. g.target = 2 /\ Before(g) = l + 2
    BY <1>1, <2>3, <2>4 DEF Before
  <2>6. n > Before(g)
    BY <1>1, <2>1, <2>5
  <2>7. g.head = q[c + Before(g)]
    BY <2>2, <2>6, HeadOf
  <2>8. c + Before(g) = x /\ x <= Len(q)
    <3>1. c + (l + 3) <= Len(q) + 1
      BY <1>5 DEF Fits
    <3> QED
      BY <1>1, <2>5, <3>1
  <2> QED
    BY <2>5, <2>7, <2>8, FormIs
<1> QED
  BY <1>2, <1>3, <1>4, <1>5 DEF Rejected

LEMMA ShapeRead ==
  ASSUME NEW S, NEW ts \in Seq(S), NEW q, Typed(ts, q), NEW b \in 1..Len(ts) + 1,
         NEW head \in Heads, NEW shape, shape = Body(head),
         NEW p, p = TakeEach(ts, From(b), shape), NEW node,
         NEW r, r = [at |-> p.at, error |-> p.error, node |-> node]
  PROVE  BodyRead(ts, q, b, head, r.at, r.error)
<1>1. r.at = p.at /\ r.error = p.error
  OBVIOUS
<1>2. p = TakeEach(ts, From(b), Body(head))
  OBVIOUS
<1>3. BodyRead(ts, q, b, head, p.at, p.error)
  BY <1>2, BodyTaken
<1> QED
  BY <1>1, <1>3

LEMMA LoadRead ==
  ASSUME NEW S, NEW ts \in Seq(S), NEW q, Typed(ts, q), NEW b \in 1..Len(ts) + 1,
         NEW head, head = "LOAD", NEW r, r = ParseDoubleArgumentCall(ts, b, "LOAD", LoadTo)
  PROVE  BodyRead(ts, q, b, head, r.at, r.error)
<1>1. head \in Heads
  BY DEF Heads, ValueHeads, InstructionHeads
<1>2. PICK shape : shape = <<{"LOAD"}, Order, Location, Name>>
  OBVIOUS
<1>3. shape = Body(head)
  BY <1>2 DEF Body
<1>4. PICK p : p = TakeEach(ts, From(b), shape)
  OBVIOUS
<1>5. PICK node : node = IF p.error = None THEN LoadTo(ToMemoryOrder(p.read[2].lexeme), p.read[3].lexeme, p.read[4].lexeme) ELSE End
  OBVIOUS
<1>6. r = [at |-> p.at, error |-> p.error, node |-> node]
  BY <1>2, <1>4, <1>5 DEF ParseDoubleArgumentCall, ParseShape, Result
<1> QED
  BY <1>1, <1>3, <1>4, <1>6, ShapeRead

LEMMA StoreRead ==
  ASSUME NEW S, NEW ts \in Seq(S), NEW q, Typed(ts, q), NEW b \in 1..Len(ts) + 1,
         NEW head, head = "STORE", NEW r, r = ParseDoubleArgumentCall(ts, b, "STORE", StoreFrom)
  PROVE  BodyRead(ts, q, b, head, r.at, r.error)
<1>1. head \in Heads
  BY DEF Heads, ValueHeads, InstructionHeads
<1>2. PICK shape : shape = <<{"STORE"}, Order, Location, Name>>
  OBVIOUS
<1>3. shape = Body(head)
  BY <1>2 DEF Body
<1>4. PICK p : p = TakeEach(ts, From(b), shape)
  OBVIOUS
<1>5. PICK node : node = IF p.error = None THEN StoreFrom(ToMemoryOrder(p.read[2].lexeme), p.read[3].lexeme, p.read[4].lexeme) ELSE End
  OBVIOUS
<1>6. r = [at |-> p.at, error |-> p.error, node |-> node]
  BY <1>2, <1>4, <1>5 DEF ParseDoubleArgumentCall, ParseShape, Result
<1> QED
  BY <1>1, <1>3, <1>4, <1>6, ShapeRead

LEMMA FaiRead ==
  ASSUME NEW S, NEW ts \in Seq(S), NEW q, Typed(ts, q), NEW b \in 1..Len(ts) + 1,
         NEW head, head = "FAI", NEW r, r = ParseFai(ts, b)
  PROVE  BodyRead(ts, q, b, head, r.at, r.error)
<1>1. head \in Heads
  BY DEF Heads, ValueHeads, InstructionHeads
<1>2. PICK shape : shape = <<{"FAI"}, Order, Location, Name>>
  OBVIOUS
<1>3. shape = Body(head)
  BY <1>2 DEF Body
<1>4. PICK p : p = TakeEach(ts, From(b), shape)
  OBVIOUS
<1>5. PICK node : node = IF p.error = None THEN Fai(ToMemoryOrder(p.read[2].lexeme), p.read[3].lexeme, p.read[4].lexeme) ELSE End
  OBVIOUS
<1>6. r = [at |-> p.at, error |-> p.error, node |-> node]
  BY <1>2, <1>4, <1>5 DEF ParseFai, ParseDoubleArgumentCall, ParseShape, Result
<1> QED
  BY <1>1, <1>3, <1>4, <1>6, ShapeRead

LEMMA CasRead ==
  ASSUME NEW S, NEW ts \in Seq(S), NEW q, Typed(ts, q), NEW b \in 1..Len(ts) + 1,
         NEW head, head = "CAS", NEW r, r = ParseCas(ts, b)
  PROVE  BodyRead(ts, q, b, head, r.at, r.error)
<1>1. head \in Heads
  BY DEF Heads, ValueHeads, InstructionHeads
<1>2. PICK shape : shape = <<{"CAS"}, Order, Location, Name, Name>>
  OBVIOUS
<1>3. shape = Body(head)
  BY <1>2 DEF Body
<1>4. PICK p : p = TakeEach(ts, From(b), shape)
  OBVIOUS
<1>5. PICK node : node = IF p.error = None THEN Cas(ToMemoryOrder(p.read[2].lexeme), p.read[3].lexeme, p.read[4].lexeme, p.read[5].lexeme) ELSE End
  OBVIOUS
<1>6. r = [at |-> p.at, error |-> p.error, node |-> node]
  BY <1>2, <1>4, <1>5 DEF ParseCas, ParseShape, Result
<1> QED
  BY <1>1, <1>3, <1>4, <1>6, ShapeRead

LEMMA FenceRead ==
  ASSUME NEW S, NEW ts \in Seq(S), NEW q, Typed(ts, q), NEW b \in 1..Len(ts) + 1,
         NEW head, head = "FENCE", NEW r, r = ParseFence(ts, b)
  PROVE  BodyRead(ts, q, b, head, r.at, r.error)
<1>1. head \in Heads
  BY DEF Heads, ValueHeads, InstructionHeads
<1>2. PICK shape : shape = <<{"FENCE"}, Order>>
  OBVIOUS
<1>3. shape = Body(head)
  BY <1>2 DEF Body
<1>4. PICK p : p = TakeEach(ts, From(b), shape)
  OBVIOUS
<1>5. PICK node : node = IF p.error = None THEN FenceOf(ToMemoryOrder(p.read[2].lexeme)) ELSE End
  OBVIOUS
<1>6. r = [at |-> p.at, error |-> p.error, node |-> node]
  BY <1>2, <1>4, <1>5 DEF ParseFence, ParseShape, Result
<1> QED
  BY <1>1, <1>3, <1>4, <1>6, ShapeRead

LEMMA ConditionRead ==
  ASSUME NEW S, NEW ts \in Seq(S), NEW q, Typed(ts, q), NEW b \in 1..Len(ts) + 1,
         NEW head, head = "CONDITION", NEW r, r = ParseCondition(ts, b)
  PROVE  BodyRead(ts, q, b, head, r.at, r.error)
<1>1. head \in Heads
  BY DEF Heads, ValueHeads, InstructionHeads
<1>2. PICK shape : shape = <<{"CONDITION"}, Name, {"GOTO"}, Name>>
  OBVIOUS
<1>3. shape = Body(head)
  BY <1>2 DEF Body
<1>4. PICK p : p = TakeEach(ts, From(b), shape)
  OBVIOUS
<1>5. PICK node : node = IF p.error = None THEN If(p.read[2].lexeme, p.read[4].lexeme) ELSE End
  OBVIOUS
<1>6. r = [at |-> p.at, error |-> p.error, node |-> node]
  BY <1>2, <1>4, <1>5 DEF ParseCondition, ParseShape, Result
<1> QED
  BY <1>1, <1>3, <1>4, <1>6, ShapeRead

LEMMA GotoRead ==
  ASSUME NEW S, NEW ts \in Seq(S), NEW q, Typed(ts, q), NEW b \in 1..Len(ts) + 1,
         NEW head, head = "GOTO", NEW r, r = ParseGoto(ts, b)
  PROVE  BodyRead(ts, q, b, head, r.at, r.error)
<1>1. head \in Heads
  BY DEF Heads, ValueHeads, InstructionHeads
<1>2. PICK shape : shape = <<{"GOTO"}, Name>>
  OBVIOUS
<1>3. shape = Body(head)
  BY <1>2 DEF Body
<1>4. PICK p : p = TakeEach(ts, From(b), shape)
  OBVIOUS
<1>5. PICK node : node = IF p.error = None THEN Goto(p.read[2].lexeme) ELSE End
  OBVIOUS
<1>6. r = [at |-> p.at, error |-> p.error, node |-> node]
  BY <1>2, <1>4, <1>5 DEF ParseGoto, ParseShape, Result
<1> QED
  BY <1>1, <1>3, <1>4, <1>6, ShapeRead

LEMMA ThreadGotoRead ==
  ASSUME NEW S, NEW ts \in Seq(S), NEW q, Typed(ts, q), NEW b \in 1..Len(ts) + 1,
         NEW head, head = "THREAD_GOTO", NEW r, r = ParseThreadGoto(ts, b)
  PROVE  BodyRead(ts, q, b, head, r.at, r.error)
<1>1. head \in Heads
  BY DEF Heads, ValueHeads, InstructionHeads
<1>2. PICK shape : shape = <<{"THREAD_GOTO"}, Name>>
  OBVIOUS
<1>3. shape = Body(head)
  BY <1>2 DEF Body
<1>4. PICK p : p = TakeEach(ts, From(b), shape)
  OBVIOUS
<1>5. PICK node : node = IF p.error = None THEN ThreadGoto(p.read[2].lexeme) ELSE End
  OBVIOUS
<1>6. r = [at |-> p.at, error |-> p.error, node |-> node]
  BY <1>2, <1>4, <1>5 DEF ParseThreadGoto, ParseShape, Result
<1> QED
  BY <1>1, <1>3, <1>4, <1>6, ShapeRead

LEMMA BinopRead ==
  ASSUME NEW S, NEW ts \in Seq(S), NEW q, Typed(ts, q), NEW b \in 1..Len(ts) + 1,
         NEW head, head = "IDENTIFIER", NEW r, r = ParseBinop(ts, b)
  PROVE  BodyRead(ts, q, b, head, r.at, r.error)
<1>1. head \in Heads
  BY DEF Heads, ValueHeads, InstructionHeads
<1>2. PICK shape : shape = <<Name, Operator, Name>>
  OBVIOUS
<1>3. shape = Body(head)
  BY <1>2 DEF Body
<1>4. PICK p : p = TakeEach(ts, From(b), shape)
  OBVIOUS
<1>5. PICK node : node = IF p.error = None THEN BinOp(ToBinopType(p.read[2].type), p.read[1].lexeme, p.read[3].lexeme) ELSE End
  OBVIOUS
<1>6. r = [at |-> p.at, error |-> p.error, node |-> node]
  BY <1>2, <1>4, <1>5 DEF ParseBinop, ParseShape, Result
<1> QED
  BY <1>1, <1>3, <1>4, <1>6, ShapeRead

LEMMA EndRead ==
  ASSUME NEW S, NEW ts \in Seq(S), NEW q, Typed(ts, q), NEW b \in 1..Len(ts) + 1,
         NEW head, head = "END", NEW r, r = ParseUnlabeled(ts, b), TypeAt(ts, b) = head
  PROVE  BodyRead(ts, q, b, head, r.at, r.error)
<1>1. head \in Heads
  BY DEF Heads
<1>2. PICK shape : shape = <<{"END"}>>
  OBVIOUS
<1>3. shape = Body(head)
  BY <1>2 DEF Body
<1>4. PICK p : p = TakeEach(ts, From(b), shape)
  OBVIOUS
<1>5. PICK node : node = IF p.error = None THEN End ELSE End
  OBVIOUS
<1>6. r = [at |-> p.at, error |-> p.error, node |-> node]
  BY <1>2, <1>4, <1>5 DEF ParseUnlabeled, ParseShape, Result
<1> QED
  BY <1>1, <1>3, <1>4, <1>6, ShapeRead

\* A number that int cannot hold.
Overflows(ts, i) == ValueOf(ts[i].lexeme) > MaxInt

LEMMA NumberRead ==
  ASSUME NEW S, NEW ts \in Seq(S), NEW q, Typed(ts, q), NEW b \in 1..Len(ts) + 1,
         NEW head, head = "NUMBER", NEW r, r = ParseNumber(ts, b)
  PROVE  IF Overflows(ts, b) THEN r.error = OutOfRange("stoi")
         ELSE BodyRead(ts, q, b, head, r.at, r.error)
<1>1. CASE Overflows(ts, b)
  <2>1. r = Failure(b, OutOfRange("stoi"))
    BY <1>1 DEF ParseNumber, Overflows
  <2>2. r.error = OutOfRange("stoi")
    BY <2>1 DEF Failure
  <2> QED
    BY <1>1, <2>2
<1>2. CASE ~Overflows(ts, b)
  <2>1. head \in Heads
    BY DEF Heads, ValueHeads
  <2>2. PICK shape : shape = <<{"NUMBER"}>>
    OBVIOUS
  <2>3. shape = Body(head)
    BY <2>2 DEF Body
  <2>4. PICK p : p = TakeEach(ts, From(b), shape)
    OBVIOUS
  <2>5. PICK node : node = IF p.error = None THEN Number(ValueOf(p.read[1].lexeme)) ELSE End
    OBVIOUS
  <2>6. r = [at |-> p.at, error |-> p.error, node |-> node]
    BY <1>2, <2>2, <2>4, <2>5 DEF ParseNumber, ParseShape, Result, Overflows
  <2>7. BodyRead(ts, q, b, head, r.at, r.error)
    BY <2>1, <2>3, <2>4, <2>6, ShapeRead
  <2> QED
    BY <1>2, <2>7
<1> QED
  BY <1>1, <1>2

\* What parsing the statement at c comes to, which has a label of l tokens: a
\* form is read, the statement is rejected, or a number is too large.
Outcome(ts, q, c, l, at, e) ==
  \/ /\ e = None
     /\ \E f \in Forms : /\ f.label = l /\ Accepted(q, c, f, at)
                         /\ f.head = "NUMBER" => ~Overflows(ts, at - 1)
  \/ RejectedWith(ts, q, c, e)
  \/ /\ e = OutOfRange("stoi")
     /\ \E f \in Forms : /\ f.label = l /\ f.head = "NUMBER" /\ Fits(q, c, f, Size(f))
                         /\ Overflows(ts, c + Size(f) - 1)

\* A head at b, behind a label and a target.
HeadRead(q, c, f, b) == b = c + Before(f) /\ Fits(q, c, f, Before(f) + 1)

LEMMA HeadOutcome ==
  ASSUME NEW ts, NEW q, Len(q) \in Nat, NEW c \in Nat \ {0}, NEW f \in Forms, NEW b \in Nat,
         HeadRead(q, c, f, b), NEW at, NEW e, BodyRead(ts, q, b, f.head, at, e),
         f.head = "NUMBER" => ~Overflows(ts, b)
  PROVE  Outcome(ts, q, c, f.label, at, e)
<1>1. (e = None /\ Accepted(q, c, f, at)) \/ RejectedWith(ts, q, c, e)
  BY BodyOutcome DEF HeadRead
<1>2. ASSUME f.head = "NUMBER", Accepted(q, c, f, at)
      PROVE  ~Overflows(ts, at - 1)
  <2>1. Len(Body(f.head)) = 1
    BY <1>2, FormIs, BodyIs
  <2>2. at = c + (Before(f) + 1) /\ b = c + Before(f) /\ Before(f) \in 0..4
    BY <1>2, <2>1, FormIs DEF Accepted, HeadRead, Size
  <2>3. at - 1 = b
    BY <2>2
  <2> QED
    BY <1>2, <2>3
<1> QED
  BY <1>1, <1>2 DEF Outcome

LEMMA ExpressionOutcome ==
  ASSUME NEW S, NEW ts \in Seq(S), NEW q, Typed(ts, q), NEW c \in Nat \ {0}, NEW l, LabelRead(q, c, l),
         NEW x \in Nat, x = c + l + 2, q[c + l] = "IDENTIFIER", q[c + l + 1] = "EQ", x <= Len(q) + 1,
         NEW r, r = ParseExpression(ts, x)
  PROVE  Outcome(ts, q, c, l, r.at, r.error)
<1>1. Len(q) = Len(ts) /\ Len(q) \in Nat /\ \A i \in 1..Len(q) : q[i] = ts[i].type
  BY TypedIs
<1>2. l \in {0, 2} /\ l \in Nat /\ c + l <= Len(q) /\ c + (l + 1) <= Len(q) /\ x \in 1..Len(ts) + 1
  BY <1>1 DEF LabelRead
<1>3. x <= Len(q) => TypeAt(ts, x) = q[x]
  BY <1>1, <1>2 DEF TypeAt
<1>4. x > Len(q) => TypeAt(ts, x) = "NONE"
  BY <1>1 DEF TypeAt
<1>5. ASSUME NEW head \in ValueHeads, TypeAt(ts, x) = head
      PROVE  \E f \in Forms : f.label = l /\ f.head = head /\ HeadRead(q, c, f, x)
  <2>1. PICK f \in Forms : f.label = l /\ f.target = 2 /\ f.head = head
    <3>1. PICK t \in {0, 2} : t = 2
      OBVIOUS
    <3> QED
      BY <1>2, <3>1, FormOfIs
  <2>2. Before(f) = l + 2 /\ Before(f) + 1 = l + 3
    BY <1>2, <2>1 DEF Before
  <2>3. l + 2 < Size(f) /\ l + 1 < Size(f) /\ l < Size(f)
    <3>1. Size(f) \in Before(f) + 1..Before(f) + 5 /\ Before(f) \in 0..4
      BY FormIs
    <3>2. Size(f) \in Nat /\ Size(f) > l + 2
      BY <1>2, <2>2, <3>1
    <3> QED
      BY <1>2, <3>2
  <2>4. Expects(f, l + 3) = {head}
    BY <2>1, <2>2, FormIs
  <2>5. Expects(f, l + 1) = {"IDENTIFIER"} /\ Expects(f, l + 2) = {"EQ"}
    BY <2>1, FormIs
  <2>6. Fits(q, c, f, l)
    BY <1>1, <2>1, LabelFits
  <2>7. PICK m \in Nat, n \in Nat : m = l + 1 /\ n = l + 2
    BY <1>2
  <2>8. Fits(q, c, f, l + 1)
    BY <1>1, <1>2, <2>3, <2>5, <2>6, FitsOneMore
  <2>9. Fits(q, c, f, m + 1)
    <3>1. Fits(q, c, f, m) /\ m < Size(f) /\ c + m <= Len(q) /\ q[c + m] \in Expects(f, m + 1)
      <4>1. c + m = c + l + 1 /\ m + 1 = l + 2
        BY <1>2, <2>7
      <4> QED
        BY <1>2, <2>3, <2>5, <2>7, <2>8, <4>1
    <3> QED
      BY <1>1, <3>1, FitsOneMore
  <2>10. x <= Len(q) /\ q[x] = head
    <3>1. head # "NONE"
      BY <1>5 DEF ValueHeads
    <3>2. ~(x > Len(q))
      BY <1>4, <1>5, <3>1
    <3>3. x <= Len(q)
      BY <1>1, <3>2
    <3> QED
      BY <1>3, <1>5, <3>3
  <2>11. Fits(q, c, f, n + 1)
    <3>1. m + 1 = n /\ c + n = x /\ n + 1 = l + 3
      BY <1>2, <2>7
    <3>2. Fits(q, c, f, n) /\ n < Size(f) /\ c + n <= Len(q) /\ q[c + n] \in Expects(f, n + 1)
      BY <2>3, <2>4, <2>7, <2>9, <2>10, <3>1
    <3> QED
      BY <1>1, <3>2, FitsOneMore
  <2>12. x = c + Before(f) /\ n = Before(f)
    BY <1>2, <2>2, <2>7
  <2> QED
    BY <2>1, <2>11, <2>12 DEF HeadRead
<1>6. ASSUME NEW head \in ValueHeads, TypeAt(ts, x) = head, BodyRead(ts, q, x, head, r.at, r.error),
             head = "NUMBER" => ~Overflows(ts, x)
      PROVE  Outcome(ts, q, c, l, r.at, r.error)
  <2>1. PICK f \in Forms : f.label = l /\ f.head = head /\ HeadRead(q, c, f, x)
    BY <1>5, <1>6
  <2>2. BodyRead(ts, q, x, f.head, r.at, r.error) /\ (f.head = "NUMBER" => ~Overflows(ts, x))
    BY <1>6, <2>1
  <2>3. PICK at, e : at = r.at /\ e = r.error
    OBVIOUS
  <2>4. Outcome(ts, q, c, f.label, at, e)
    BY <1>1, <2>1, <2>2, <2>3, HeadOutcome
  <2> QED
    BY <2>1, <2>3, <2>4
<1>7. PICK cas, fai, name, number : cas = "CAS" /\ fai = "FAI" /\ name = "IDENTIFIER" /\ number = "NUMBER"
  OBVIOUS
<1>8. cas \in ValueHeads /\ fai \in ValueHeads /\ name \in ValueHeads /\ number \in ValueHeads
  BY <1>7 DEF ValueHeads
<1>9. CASE TypeAt(ts, x) = cas
  <2>1. r = ParseCas(ts, x)
    BY <1>7, <1>9 DEF ParseExpression
  <2>2. BodyRead(ts, q, x, cas, r.at, r.error)
    BY <1>2, <1>7, <2>1, CasRead
  <2> QED
    BY <1>6, <1>7, <1>8, <1>9, <2>2
<1>10. CASE TypeAt(ts, x) = fai
  <2>1. r = ParseFai(ts, x)
    BY <1>7, <1>10 DEF ParseExpression
  <2>2. BodyRead(ts, q, x, fai, r.at, r.error)
    BY <1>2, <1>7, <2>1, FaiRead
  <2> QED
    BY <1>6, <1>7, <1>8, <1>10, <2>2
<1>11. CASE TypeAt(ts, x) = name
  <2>1. r = ParseBinop(ts, x)
    BY <1>7, <1>11 DEF ParseExpression
  <2>2. BodyRead(ts, q, x, name, r.at, r.error)
    BY <1>2, <1>7, <2>1, BinopRead
  <2> QED
    BY <1>6, <1>7, <1>8, <1>11, <2>2
<1>12. CASE TypeAt(ts, x) = number
  <2>1. r = ParseNumber(ts, x)
    BY <1>7, <1>12 DEF ParseExpression
  <2>2. IF Overflows(ts, x) THEN r.error = OutOfRange("stoi")
        ELSE BodyRead(ts, q, x, number, r.at, r.error)
    BY <1>2, <1>7, <2>1, NumberRead
  <2>3. CASE Overflows(ts, x)
    <3>1. PICK f \in Forms : f.label = l /\ f.head = number /\ HeadRead(q, c, f, x)
      BY <1>5, <1>8, <1>12
    <3>2. Len(Body(f.head)) = 1 /\ Before(f) \in 0..4
      BY <1>7, <3>1, FormIs, BodyIs
    <3>3. Size(f) = Before(f) + 1 /\ x = c + Before(f) /\ Fits(q, c, f, Before(f) + 1)
      BY <3>1, <3>2 DEF HeadRead, Size
    <3>4. c + Size(f) - 1 = x
      BY <3>2, <3>3
    <3> QED
      BY <1>7, <2>2, <2>3, <3>1, <3>3, <3>4 DEF Outcome
  <2>4. CASE ~Overflows(ts, x)
    BY <1>6, <1>8, <1>12, <2>2, <2>4
  <2> QED
    BY <2>3, <2>4
<1>13. CASE TypeAt(ts, x) \notin ValueHeads
  <2>1. r = Failure(x, Unexpected(ts, x, ValueHeads))
    <3>1. PICK heads : heads = {"IDENTIFIER", "NUMBER", "CAS", "FAI"}
      OBVIOUS
    <3>2. r = Failure(x, Unexpected(ts, x, heads))
      BY <1>13, <3>1 DEF ParseExpression, ValueHeads
    <3>3. heads = ValueHeads
      BY <3>1 DEF ValueHeads
    <3> QED
      BY <3>2, <3>3
  <2>2. r.error = Unexpected(ts, x, ValueHeads)
    BY <2>1 DEF Failure
  <2>3. Rejected(q, c, x, ValueHeads)
    BY <1>1, <1>3, <1>13, NoValue
  <2> QED
    BY <2>2, <2>3 DEF Outcome, RejectedWith
<1> QED
  BY <1>7, <1>9, <1>10, <1>11, <1>12, <1>13 DEF ValueHeads

LEMMA AssignmentOutcome ==
  ASSUME NEW S, NEW ts \in Seq(S), NEW q, Typed(ts, q), NEW c \in Nat \ {0}, NEW l, LabelRead(q, c, l),
         NEW s \in Nat, s = c + l, q[s] = "IDENTIFIER", NEW r, r = ParseAssignment(ts, s)
  PROVE  Outcome(ts, q, c, l, r.at, r.error)
<1>1. Len(q) = Len(ts) /\ Len(q) \in Nat /\ \A i \in 1..Len(q) : q[i] = ts[i].type
  BY TypedIs
<1>2. l \in {0, 2} /\ s \in 1..Len(ts) /\ s \in 1..Len(ts) + 1 /\ s <= Len(q)
  BY <1>1 DEF LabelRead
<1>3. PICK n \in Nat : n = 2
  OBVIOUS
<1>4. PICK shape : shape = <<Name, {"EQ"}>>
  OBVIOUS
<1>5. DOMAIN shape = 1..n /\ (\A i \in 1..n : "NONE" \notin shape[i]) /\ shape[1] = Name /\ shape[2] = {"EQ"}
  BY <1>3, <1>4 DEF Name
<1>6. PICK p : p = TakeEach(ts, From(s), shape)
  OBVIOUS
<1>7. Taken(ts, s, shape, n, p)
  BY <1>2, <1>5, <1>6, TakeEachTaken
<1>8. CASE p.error # None
  <2>1. r = Failure(p.at, p.error)
    BY <1>4, <1>6, <1>8 DEF ParseAssignment
  <2>2. r.error = p.error
    BY <2>1 DEF Failure
  <2>3. PICK j \in 1..n :
          /\ p.error = Unexpected(ts, p.at, shape[j]) /\ p.at = s + j - 1
          /\ s + j - 1 <= Len(ts) + 1 /\ TypeAt(ts, p.at) \notin shape[j]
    BY <1>7, <1>8 DEF Taken
  <2>4. j # 1
    <3>1. ASSUME j = 1
          PROVE  FALSE
      <4>1. p.at = s /\ ~(s > Len(ts))
        BY <1>2, <2>3, <3>1
      <4>2. TypeAt(ts, p.at) = q[s]
        BY <1>1, <1>2, <4>1 DEF TypeAt
      <4> QED
        BY <1>5, <2>3, <3>1, <4>2 DEF Name
    <3> QED
      BY <3>1
  <2>5. j = 2
    BY <1>3, <2>4
  <2>6. PICK x \in Nat : x = s + 1 /\ x = p.at /\ x = c + l + 1
    BY <1>2, <2>3, <2>5
  <2>7. p.error = Unexpected(ts, x, {"EQ"}) /\ TypeAt(ts, x) # "EQ"
    BY <1>5, <2>3, <2>5, <2>6
  <2>8. x <= Len(q) => q[x] # "EQ"
    <3>1. ASSUME x <= Len(q)
          PROVE  q[x] # "EQ"
      <4>1. x \in 1..Len(q) /\ ~(x > Len(ts))
        BY <1>1, <1>2, <2>6, <3>1
      <4>2. TypeAt(ts, x) = q[x]
        BY <1>1, <4>1 DEF TypeAt
      <4> QED
        BY <2>7, <4>2
    <3> QED
      BY <3>1
  <2>9. q[c + l] = "IDENTIFIER"
    OBVIOUS
  <2>10. Rejected(q, c, x, {"EQ"})
    BY <1>1, <2>6, <2>8, <2>9, NoEq
  <2> QED
    BY <2>2, <2>7, <2>10 DEF Outcome, RejectedWith
<1>9. CASE p.error = None
  <2>1. p.at = s + n /\ Matches(ts, s, shape, n)
    <3>1. \A j \in 1..n : Unexpected(ts, p.at, shape[j]) # None
      BY UnexpectedIsError
    <3> QED
      BY <1>7, <1>9, <3>1 DEF Taken
  <2>2. PICK x \in Nat : x = p.at /\ x = c + l + 2 /\ x = s + 2
    BY <1>2, <1>3, <2>1
  <2>3. x <= Len(q) + 1 /\ x \in 1..Len(ts) + 1
    BY <1>1, <1>2, <1>3, <2>1, <2>2 DEF Matches
  <2>4. q[s + 1] = "EQ"
    <3>1. 2 \in 1..n /\ s + 2 - 1 = s + 1
      BY <1>3
    <3>2. ts[s + 1].type \in shape[2]
      BY <2>1, <3>1 DEF Matches
    <3>3. s + 1 \in 1..Len(q)
      BY <1>1, <1>2, <2>2, <2>3
    <3> QED
      BY <1>1, <1>5, <3>2, <3>3
  <2>5. q[c + l] = "IDENTIFIER" /\ q[c + l + 1] = "EQ"
    BY <2>4
  <2>6. PICK value : value = ParseExpression(ts, x)
    OBVIOUS
  <2>7. Outcome(ts, q, c, l, value.at, value.error)
    BY <2>2, <2>3, <2>5, <2>6, ExpressionOutcome
  <2>8. PICK kind : ParsedAs(ts, x, value, kind)
    BY <2>3, <2>6, ExpressionParsed
  <2>9. PICK node : node = Assign(p.read[1].lexeme, value.node)
    OBVIOUS
  <2>10. r = [value EXCEPT !.node = node]
    BY <1>4, <1>6, <1>9, <2>2, <2>6, <2>9 DEF ParseAssignment
  <2>11. r.at = value.at /\ r.error = value.error
    BY <2>8, <2>10 DEF ParsedAs
  <2> QED
    BY <2>7, <2>11
<1> QED
  BY <1>8, <1>9

LEMMA UnlabeledOutcome ==
  ASSUME NEW S, NEW ts \in Seq(S), NEW q, Typed(ts, q), NEW c \in Nat \ {0}, NEW l, LabelRead(q, c, l),
         NEW s \in Nat, s = c + l, NEW r, r = ParseUnlabeled(ts, s)
  PROVE  Outcome(ts, q, c, l, r.at, r.error)
<1>1. Len(q) = Len(ts) /\ Len(q) \in Nat /\ \A i \in 1..Len(q) : q[i] = ts[i].type
  BY TypedIs
<1>2. l \in {0, 2} /\ s \in 1..Len(ts) /\ s \in 1..Len(ts) + 1 /\ s <= Len(q)
  BY <1>1 DEF LabelRead
<1>3. PICK head : head = q[s]
  OBVIOUS
<1>4. TypeAt(ts, s) = head
  BY <1>1, <1>2, <1>3 DEF TypeAt
<1>5. CASE head = "IDENTIFIER"
  <2>1. r = ParseAssignment(ts, s)
    BY <1>4, <1>5 DEF ParseUnlabeled
  <2> QED
    BY <1>3, <1>5, <2>1, AssignmentOutcome
<1>6. ASSUME head \in InstructionHeads \cup {"END"}, BodyRead(ts, q, s, head, r.at, r.error)
      PROVE  Outcome(ts, q, c, l, r.at, r.error)
  <2>1. PICK f \in Forms : f.label = l /\ f.target = 0 /\ f.head = head
    <3>1. PICK t \in {0, 2} : t = 0
      OBVIOUS
    <3> QED
      BY <1>2, <1>6, <3>1, FormOfIs
  <2>2. Before(f) = l /\ s = c + Before(f)
    BY <1>2, <2>1 DEF Before
  <2>3. Fits(q, c, f, l)
    BY <1>1, <2>1, LabelFits
  <2>4. Fits(q, c, f, l + 1)
    <3>1. l \in Nat /\ l < Size(f) /\ Expects(f, l + 1) = {head}
      BY <1>2, <2>1, <2>2, FormIs
    <3> QED
      BY <1>1, <1>2, <1>3, <2>3, <3>1, FitsOneMore
  <2>5. HeadRead(q, c, f, s)
    BY <2>2, <2>4 DEF HeadRead
  <2>6. f.head # "NUMBER"
    BY <1>6, <2>1 DEF InstructionHeads
  <2>7. PICK at, e : at = r.at /\ e = r.error
    OBVIOUS
  <2>8. BodyRead(ts, q, s, f.head, at, e)
    BY <1>6, <2>1, <2>7
  <2>9. Outcome(ts, q, c, f.label, at, e)
    BY <1>1, <2>5, <2>6, <2>8, HeadOutcome
  <2> QED
    BY <2>1, <2>7, <2>9
<1>7. CASE head = "CONDITION"
  <2>1. r = ParseCondition(ts, s)
    BY <1>4, <1>7 DEF ParseUnlabeled
  <2>2. BodyRead(ts, q, s, head, r.at, r.error)
    BY <1>2, <1>7, <2>1, ConditionRead
  <2> QED
    BY <1>6, <1>7, <2>2 DEF InstructionHeads
<1>8. CASE head = "GOTO"
  <2>1. r = ParseGoto(ts, s)
    BY <1>4, <1>8 DEF ParseUnlabeled
  <2>2. BodyRead(ts, q, s, head, r.at, r.error)
    BY <1>2, <1>8, <2>1, GotoRead
  <2> QED
    BY <1>6, <1>8, <2>2 DEF InstructionHeads
<1>9. CASE head = "THREAD_GOTO"
  <2>1. r = ParseThreadGoto(ts, s)
    BY <1>4, <1>9 DEF ParseUnlabeled
  <2>2. BodyRead(ts, q, s, head, r.at, r.error)
    BY <1>2, <1>9, <2>1, ThreadGotoRead
  <2> QED
    BY <1>6, <1>9, <2>2 DEF InstructionHeads
<1>10. CASE head = "LOAD"
  <2>1. r = ParseDoubleArgumentCall(ts, s, "LOAD", LoadTo)
    BY <1>4, <1>10 DEF ParseUnlabeled
  <2>2. BodyRead(ts, q, s, head, r.at, r.error)
    BY <1>2, <1>10, <2>1, LoadRead
  <2> QED
    BY <1>6, <1>10, <2>2 DEF InstructionHeads
<1>11. CASE head = "STORE"
  <2>1. r = ParseDoubleArgumentCall(ts, s, "STORE", StoreFrom)
    BY <1>4, <1>11 DEF ParseUnlabeled
  <2>2. BodyRead(ts, q, s, head, r.at, r.error)
    BY <1>2, <1>11, <2>1, StoreRead
  <2> QED
    BY <1>6, <1>11, <2>2 DEF InstructionHeads
<1>12. CASE head = "FAI"
  <2>1. r = ParseFai(ts, s)
    BY <1>4, <1>12 DEF ParseUnlabeled
  <2>2. BodyRead(ts, q, s, head, r.at, r.error)
    BY <1>2, <1>12, <2>1, FaiRead
  <2> QED
    BY <1>6, <1>12, <2>2 DEF InstructionHeads
<1>13. CASE head = "CAS"
  <2>1. r = ParseCas(ts, s)
    BY <1>4, <1>13 DEF ParseUnlabeled
  <2>2. BodyRead(ts, q, s, head, r.at, r.error)
    BY <1>2, <1>13, <2>1, CasRead
  <2> QED
    BY <1>6, <1>13, <2>2 DEF InstructionHeads
<1>14. CASE head = "FENCE"
  <2>1. r = ParseFence(ts, s)
    BY <1>4, <1>14 DEF ParseUnlabeled
  <2>2. BodyRead(ts, q, s, head, r.at, r.error)
    BY <1>2, <1>14, <2>1, FenceRead
  <2> QED
    BY <1>6, <1>14, <2>2 DEF InstructionHeads
<1>15. CASE head = "END"
  <2>1. BodyRead(ts, q, s, head, r.at, r.error)
    BY <1>2, <1>4, <1>15, EndRead
  <2> QED
    BY <1>6, <1>15, <2>1
<1>16. CASE head \notin InstructionHeads \cup {"END", "IDENTIFIER"}
  <2>1. r = Failure(s, Unexpected(ts, s, StatementStart))
    BY <1>4, <1>16 DEF ParseUnlabeled, InstructionHeads
  <2>2. r.error = Unexpected(ts, s, StatementStart)
    BY <2>1 DEF Failure
  <2>3. q[s] \notin InstructionHeads \cup {"END", "IDENTIFIER"}
    BY <1>3, <1>16
  <2>4. Rejected(q, c, s, StatementStart)
    BY <1>1, <2>3, NoStart
  <2> QED
    BY <2>2, <2>4 DEF Outcome, RejectedWith
<1> QED
  BY <1>5, <1>7, <1>8, <1>9, <1>10, <1>11, <1>12, <1>13, <1>14, <1>15, <1>16 DEF InstructionHeads

\* A statement at c, in front of an END.
LEMMA StatementOutcome ==
  ASSUME NEW S, NEW ts \in Seq(S), NEW q, Typed(ts, q), NEW c \in 1..Len(q), q[Len(q)] = "END",
         NEW r, r = ParseStatement(ts, c)
  PROVE  \E l : /\ LabelRead(q, c, l) /\ Outcome(ts, q, c, l, r.at, r.error)
                /\ r.label = IF l = 2 THEN ts[c].lexeme ELSE <<>>
<1>1. Len(q) = Len(ts) /\ Len(q) \in Nat /\ \A i \in 1..Len(q) : q[i] = ts[i].type
  BY TypedIs
<1>2. PICK l : l = IF IsLabeled(ts, c) THEN 2 ELSE 0
  OBVIOUS
<1>3. PICK s \in Nat : s = c + l /\ s = IF IsLabeled(ts, c) THEN c + 2 ELSE c
  BY <1>1, <1>2
<1>4. PICK parsed : parsed = ParseUnlabeled(ts, s)
  OBVIOUS
<1>5. r = [at |-> parsed.at, error |-> parsed.error, node |-> parsed.node,
           label |-> IF IsLabeled(ts, c) THEN ts[c].lexeme ELSE <<>>]
  BY <1>3, <1>4 DEF ParseStatement
<1>6. /\ r.at = parsed.at /\ r.error = parsed.error
      /\ r.label = IF l = 2 THEN ts[c].lexeme ELSE <<>>
  BY <1>2, <1>5
<1>7. LabelRead(q, c, l)
  <2>1. c \in 1..Len(q) /\ q[c] = ts[c].type
    BY <1>1
  <2>2. c < Len(q) => q[c + 1] = ts[c + 1].type
    <3>1. c < Len(q) => c + 1 \in 1..Len(q)
      BY <1>1
    <3> QED
      BY <1>1, <3>1
  <2>3. IsLabeled(ts, c) <=> c < Len(q) /\ q[c] = "IDENTIFIER" /\ q[c + 1] = "SEMICOLON"
    BY <1>1, <2>1, <2>2 DEF IsLabeled
  <2>4. CASE IsLabeled(ts, c)
    <3>1. l = 2 /\ c < Len(q) /\ q[c] = "IDENTIFIER" /\ q[c + 1] = "SEMICOLON"
      BY <1>2, <2>3, <2>4
    <3>2. c + 1 # Len(q)
      BY <3>1
    <3>3. c + l <= Len(q)
      BY <1>1, <3>1, <3>2
    <3> QED
      BY <3>1, <3>3 DEF LabelRead
  <2>5. CASE ~IsLabeled(ts, c)
    BY <1>1, <1>2, <2>3, <2>5 DEF LabelRead
  <2> QED
    BY <2>4, <2>5
<1>8. Outcome(ts, q, c, l, parsed.at, parsed.error)
  <2>1. c \in Nat \ {0}
    OBVIOUS
  <2> QED
    BY <1>3, <1>4, <1>7, <2>1, UnlabeledOutcome
<1> QED
  BY <1>6, <1>7, <1>8

----------------------------------------------------------------------------
(* What that says of programs *)

\* Numbers and ends are the last tokens of their forms.
LEMMA LastOnly ==
  ASSUME NEW f \in Forms, NEW i \in 1..Size(f), NEW type \in {"END", "NUMBER"}, type \in Expects(f, i)
  PROVE  f.head = type /\ i = Size(f)
<1>1. f.head \in Heads /\ Before(f) \in 0..4
  BY FormIs
<1>2. PICK k \in Nat : k = Before(f)
  BY <1>1
<1>3. PICK n \in 1..5 : n = Len(Body(f.head))
  BY <1>1, BodyIs
<1>4. Size(f) = k + n
  BY <1>2, <1>3 DEF Size
<1>5. CASE i > k
  <2>1. PICK j \in 1..n : i = k + j
    <3>1. i - k \in 1..n /\ i = k + (i - k)
      BY <1>4, <1>5
    <3> QED
      BY <3>1
  <2>2. type \in Body(f.head)[j]
    BY <1>2, <1>3, <2>1, FormIs
  <2>3. CASE j = 1
    <3>1. f.head = type
      BY <1>1, <2>2, <2>3, BodyIs
    <3>2. n = 1
      BY <1>1, <1>3, <3>1, BodyIs
    <3> QED
      BY <1>4, <2>1, <2>3, <3>1, <3>2
  <2>4. CASE j # 1
    <3>1. j \in 2..Len(Body(f.head))
      BY <1>3, <2>4
    <3>2. Body(f.head)[j] \in {Name, Operator, Location, Order, {"GOTO"}}
      BY <1>1, <3>1, BodyIs
    <3> QED
      BY <2>2, <3>2 DEF Name, Operator, Location, Order
  <2> QED
    BY <2>3, <2>4
<1>6. CASE ~(i > k)
  BY <1>2, <1>6 DEF Expects, Name
<1> QED
  BY <1>5, <1>6

LEMMA FitsLess ==
  ASSUME NEW q, NEW c \in Nat, NEW f \in Forms, NEW n \in Nat, Fits(q, c, f, n), NEW m \in Nat, m <= n,
         Len(q) \in Nat
  PROVE  Fits(q, c, f, m)
<1>1. m <= Size(f) /\ c + m <= Len(q) + 1
  <2>1. n <= Size(f) /\ c + n <= Len(q) + 1 /\ Size(f) \in Nat
    BY SizeIs DEF Fits
  <2> QED
    BY <2>1
<1>2. \A i \in 1..m : i \in 1..n
  OBVIOUS
<1> QED
  BY <1>1, <1>2 DEF Fits

\* A program ends with its only END: a statement is rejected there or before.
LEMMA RejectedAt ==
  ASSUME NEW q, Len(q) \in Nat, NEW c \in 1..Len(q), q[Len(q)] = "END",
         NEW x, NEW types, Rejected(q, c, x, types)
  PROVE  x \in c..Len(q)
<1>1. x \in c..Len(q) + 1
  BY DEF Rejected
<1>2. ASSUME x = Len(q) + 1
      PROVE  FALSE
  <2>1. PICK m \in Nat : m = x - c /\ m > 0 /\ c + m - 1 = Len(q)
    BY <1>2
  <2>2. PICK f \in Forms : Fits(q, c, f, m) /\ m < Size(f)
    BY <2>1 DEF Rejected
  <2>3. PICK k \in Nat : k = Size(f)
    BY SizeIs
  <2>4. m \in 1..Size(f) /\ m \in 1..m
    BY <2>1, <2>2, <2>3
  <2>5. q[c + m - 1] \in Expects(f, m)
    BY <2>2, <2>4 DEF Fits
  <2>6. PICK type \in {"END", "NUMBER"} : type = "END"
    OBVIOUS
  <2>7. type \in Expects(f, m)
    BY <2>1, <2>5, <2>6
  <2>8. m = Size(f)
    BY <2>4, <2>7, LastOnly
  <2> QED
    BY <2>2, <2>3, <2>8
<1> QED
  BY <1>1, <1>2

LEMMA AcceptedAt ==
  ASSUME NEW q, Len(q) \in Nat, NEW c \in 1..Len(q), q[Len(q)] = "END",
         \A i \in 1..Len(q) : q[i] = "END" => i = Len(q),
         NEW f \in Forms, NEW at, Accepted(q, c, f, at)
  PROVE  at \in c + 1..Len(q) + 1 /\ (f.head = "END" <=> at = Len(q) + 1)
<1>1. PICK k \in Nat : k = Size(f) /\ k > 0
  <2>1. PICK k \in Nat \ {0} : k = Size(f)
    BY SizeIs
  <2>2. k \in Nat /\ k > 0
    OBVIOUS
  <2> QED
    BY <2>1, <2>2
<1>2. /\ at = c + k /\ c + k <= Len(q) + 1
      /\ \A i \in 1..k : q[c + i - 1] \in Expects(f, i)
  BY <1>1 DEF Accepted, Fits
<1>3. k \in 1..k /\ k \in 1..Size(f) /\ c + k - 1 \in 1..Len(q)
  BY <1>1, <1>2
<1>4. q[c + k - 1] \in Expects(f, k)
  BY <1>2, <1>3
<1>5. ASSUME f.head = "END"
      PROVE  at = Len(q) + 1
  <2>1. Len(Body(f.head)) = 1 /\ Before(f) \in 0..4
    BY <1>5, FormIs, BodyIs
  <2>2. k = Before(f) + 1
    BY <1>1, <2>1 DEF Size
  <2>3. Expects(f, k) = {"END"}
    BY <1>5, <2>2, FormIs
  <2>4. c + k - 1 = Len(q)
    BY <1>3, <1>4, <2>3
  <2> QED
    BY <1>2, <2>4
<1>6. ASSUME at = Len(q) + 1
      PROVE  f.head = "END"
  <2>1. PICK type \in {"END", "NUMBER"} : type = "END"
    OBVIOUS
  <2>2. c + k - 1 = Len(q)
    BY <1>2, <1>6
  <2>3. type \in Expects(f, k)
    BY <1>4, <2>1, <2>2
  <2> QED
    BY <1>3, <2>1, <2>3, LastOnly
<1> QED
  BY <1>1, <1>2, <1>5, <1>6

\* Where a statement is rejected, no form goes on, and none ends before.
LEMMA RejectedStops ==
  ASSUME NEW q, Len(q) \in Nat, NEW c \in 1..Len(q), NEW x \in c..Len(q), NEW types,
         Rejected(q, c, x, types), NEW g \in Forms, NEW n \in Nat, Fits(q, c, g, n)
  PROVE  n <= x - c /\ n < Size(g)
<1>1. PICK m \in Nat : m = x - c
  OBVIOUS
<1>2. PICK f \in Forms : Fits(q, c, f, m) /\ m < Size(f)
  BY <1>1 DEF Rejected
<1>3. n <= m
  <2>1. ASSUME ~(n <= m)
        PROVE  FALSE
    <3>1. PICK m1 \in Nat : m1 = m + 1 /\ m1 <= n
      BY <2>1
    <3>2. Fits(q, c, g, m1)
      <4>1. c \in Nat
        OBVIOUS
      <4> QED
        BY <3>1, <4>1, FitsLess
    <3> QED
      BY <1>1, <3>1, <3>2 DEF Rejected
  <2> QED
    BY <2>1
<1>4. n # Size(g)
  <2>1. ASSUME n = Size(g)
        PROVE  FALSE
    <3>1. m >= Size(g) /\ Fits(q, c, g, Size(g)) /\ c \in Nat
      BY <1>3, <2>1
    <3>2. f = g /\ m = Size(g)
      BY <1>2, <3>1, SameSize
    <3> QED
      BY <1>2, <3>2, SizeIs
  <2> QED
    BY <2>1
<1>5. n <= Size(g)
  BY DEF Fits
<1>6. PICK k \in Nat : k = Size(g)
  BY SizeIs
<1> QED
  BY <1>1, <1>3, <1>4, <1>5, <1>6

\* Nothing leads over the token a statement is rejected at.
LEMMA RejectedWhole ==
  ASSUME NEW q, Len(q) \in Nat, NEW c \in 1..Len(q), Whole(q, c), NEW x \in c..Len(q), NEW types,
         Rejected(q, c, x, types), NEW i \in 1..Len(q) + 1, Whole(q, i),
         NEW g \in Forms, NEW n \in Nat, Fits(q, i, g, n)
  PROVE  i + n <= x
<1>1. c \in Nat /\ i \in Nat /\ x \in Nat /\ c <= x
  OBVIOUS
<1>2. CASE i = c
  <2>1. n <= x - c
    BY <1>2, RejectedStops
  <2> QED
    BY <1>1, <1>2, <2>1
<1>3. CASE i < c
  <2>1. PICK b \in 1..c : Step(q, i, b)
    BY <1>1, <1>3, WholeGoesOn
  <2>2. PICK f \in Forms : i + Size(f) = b /\ Fits(q, i, f, Size(f))
    BY <2>1 DEF Step
  <2>3. PICK k \in Nat : k = Size(f)
    BY SizeIs
  <2>4. ASSUME ~(i + n <= x)
        PROVE  FALSE
    <3>1. n >= Size(f)
      BY <1>1, <2>2, <2>3, <2>4
    <3>2. n = Size(f)
      BY <1>1, <2>2, <3>1, SameSize
    <3> QED
      BY <1>1, <2>2, <2>3, <2>4, <3>2
  <2> QED
    BY <2>4
<1>4. CASE i > c
  <2>1. PICK b \in 1..i : Step(q, c, b)
    BY <1>1, <1>4, WholeGoesOn
  <2>2. PICK f \in Forms : c + Size(f) = b /\ Fits(q, c, f, Size(f))
    BY <2>1 DEF Step
  <2>3. PICK k \in Nat : k = Size(f)
    BY SizeIs
  <2>4. Fits(q, c, f, k)
    BY <2>2, <2>3
  <2>5. k < Size(f)
    BY <2>4, RejectedStops
  <2> QED
    BY <2>3, <2>5
<1> QED
  BY <1>1, <1>2, <1>3, <1>4

LEMMA RejectedIsNoProgram ==
  ASSUME NEW S, NEW q \in Seq(S), NEW c \in 1..Len(q), Whole(q, c), NEW x \in c..Len(q), NEW types,
         Rejected(q, c, x, types)
  PROVE  ~IsProgram(q)
<1> SUFFICES ASSUME IsProgram(q)
             PROVE  FALSE
  OBVIOUS
<1>1. PICK i \in 1..Len(q) + 1 : Ends(q, i)
  BY ProgramIs
<1>2. PICK f \in Forms : i + Size(f) = Len(q) + 1 /\ Fits(q, i, f, Size(f))
  BY <1>1 DEF Ends
<1>3. PICK k \in Nat : k = Size(f)
  BY SizeIs
<1>4. Fits(q, i, f, k) /\ Len(q) \in Nat /\ Whole(q, i)
  BY <1>1, <1>2, <1>3 DEF Ends
<1>5. i + k <= x
  BY <1>4, RejectedWhole
<1> QED
  BY <1>2, <1>3, <1>5

\* What agrees with whole instructions and the beginning of a form behind them
\* can be continued.
LEMMA CanContinue ==
  ASSUME NEW S, NEW q \in Seq(S), NEW c \in Nat \ {0}, Whole(q, c), NEW f \in Forms, NEW n \in Nat,
         Fits(q, c, f, n), NEW T, NEW p \in Seq(T), Len(p) + 1 = c + n, \A k \in 1..Len(p) : p[k] = q[k]
  PROVE  IsProgramPrefix(p)
<1>1. PICK m \in Nat : m = Len(p)
  OBVIOUS
<1>2. Len(q) \in Nat /\ m + 1 = c + n /\ m <= Len(q) /\ m <= Len(p) /\ Len(p) \in Nat
  BY <1>1 DEF Fits
<1>3. \A k \in 1..m : q[k] = p[k]
  BY <1>1
<1>4. c \in Nat /\ c <= m + 1 /\ c + n <= m + 1
  BY <1>2
<1>5. Whole(p, c)
  BY <1>2, <1>3, <1>4, WholeAlike
<1>6. Fits(p, c, f, n)
  BY <1>2, <1>3, <1>4, FitsAlike
<1>7. c \in 1..Len(p) + 1 /\ Len(p) + 1 - c = n
  BY <1>1, <1>2
<1>8. Continues(p, c)
  BY <1>5, <1>6, <1>7 DEF Continues
<1> QED
  BY <1>7, <1>8, PrefixIs

LEMMA AppendIs ==
  ASSUME NEW S, NEW q \in Seq(S), NEW x \in Nat \ {0}, x <= Len(q), NEW type
  PROVE  LET p == SubSeq(q, 1, x - 1)
             more == Append(p, type)
         IN  /\ p \in Seq(S) /\ Len(p) = x - 1 /\ \A k \in 1..x - 1 : p[k] = q[k]
             /\ more \in Seq(S \cup {type}) /\ Len(more) = x
             /\ more[x] = type /\ \A k \in 1..x - 1 : more[k] = q[k]
<1>1. PICK k \in Nat : k = x - 1 /\ k <= Len(q) /\ k + 1 = x
  OBVIOUS
<1>2. PICK p : p = SubSeq(q, 1, k)
  OBVIOUS
<1>3. p \in Seq(S) /\ Len(p) = k /\ \A i \in 1..k : p[i] = q[i]
  <2>1. IsFirsts(S, q, k, p)
    BY <1>1, <1>2, FirstsIs
  <2> QED
    BY <2>1 DEF IsFirsts
<1>4. PICK T : T = S \cup {type}
  OBVIOUS
<1>5. p \in Seq(T) /\ type \in T
  <2>1. S \subseteq T /\ type \in T
    BY <1>4
  <2>2. \A i \in 1..k : p[i] \in T
    BY <1>3, <2>1
  <2>3. p \in [1..k -> T]
    BY <1>3, <2>2
  <2> QED
    BY <2>1, <2>3
<1>6. PICK more : more = Append(p, type)
  OBVIOUS
<1>7. more \in Seq(T) /\ Len(more) = k + 1 /\ more[k + 1] = type /\ \A i \in 1..k : more[i] = p[i]
  BY <1>3, <1>5, <1>6
<1> QED
  BY <1>1, <1>2, <1>3, <1>4, <1>6, <1>7

LEMMA RejectsFirst ==
  ASSUME NEW S, NEW q \in Seq(S), NEW c \in 1..Len(q), Whole(q, c), NEW x \in c..Len(q), NEW types,
         Rejected(q, c, x, types)
  PROVE  LET before == SubSeq(q, 1, x - 1)
         IN  /\ IsProgramPrefix(before)
             /\ ~IsProgramPrefix(Append(before, q[x]))
             /\ \A type \in types : IsProgramPrefix(Append(before, type))
<1>1. x \in Nat \ {0} /\ x <= Len(q) /\ c \in Nat \ {0} /\ c <= x /\ Len(q) \in Nat
  OBVIOUS
<1>2. PICK before : before = SubSeq(q, 1, x - 1)
  OBVIOUS
<1>3. PICK m \in Nat : m = x - c /\ c + m = x
  BY <1>1
<1>4. IsProgramPrefix(before)
  <2>1. PICK f \in Forms : Fits(q, c, f, m)
    BY <1>3 DEF Rejected
  <2>2. before \in Seq(S) /\ Len(before) = x - 1 /\ \A k \in 1..x - 1 : before[k] = q[k]
    BY <1>1, <1>2, AppendIs
  <2>3. Len(before) + 1 = c + m
    BY <1>1, <1>3, <2>2
  <2> QED
    BY <1>1, <2>1, <2>2, <2>3, CanContinue
<1>5. ASSUME NEW type \in types
      PROVE  IsProgramPrefix(Append(before, type))
  <2>1. PICK more : more = Append(before, type)
    OBVIOUS
  <2>2. PICK T : T = S \cup {type}
    OBVIOUS
  <2>3. more \in Seq(T) /\ Len(more) = x /\ more[x] = type /\ \A k \in 1..x - 1 : more[k] = q[k]
    BY <1>1, <1>2, <2>1, <2>2, AppendIs
  <2>4. PICK f \in Forms : Fits(q, c, f, m) /\ m < Size(f) /\ type \in Expects(f, m + 1)
    BY <1>3 DEF Rejected
  <2>5. PICK y \in Nat : y = x - 1 /\ y <= Len(more) /\ y <= Len(q) /\ Len(more) \in Nat
    BY <1>1, <2>3
  <2>6. \A k \in 1..y : q[k] = more[k]
    BY <2>3, <2>5
  <2>7. c \in Nat /\ c <= y + 1 /\ c + m <= y + 1
    BY <1>1, <1>3, <2>5
  <2>8. Whole(more, c)
    BY <2>5, <2>6, <2>7, WholeAlike
  <2>9. Fits(more, c, f, m)
    BY <1>1, <2>4, <2>5, <2>6, <2>7, FitsAlike
  <2>14. c + m <= Len(more) /\ more[c + m] \in Expects(f, m + 1)
    BY <1>1, <1>3, <2>3, <2>4
  <2>10. Fits(more, c, f, m + 1)
    BY <2>4, <2>5, <2>7, <2>9, <2>14, FitsOneMore
  <2>11. PICK n \in Nat : n = m + 1 /\ Len(more) + 1 = c + n
    BY <1>1, <1>3, <2>3
  <2>12. Fits(more, c, f, n)
    BY <2>10, <2>11
  <2>13. IsProgramPrefix(more)
    BY <1>1, <2>3, <2>8, <2>11, <2>12, CanContinue
  <2> QED
    BY <2>1, <2>13
<1>6. ASSUME IsProgramPrefix(Append(before, q[x]))
      PROVE  FALSE
  <2>0. PICK type : type = q[x]
    OBVIOUS
  <2>1. PICK more : more = Append(before, type)
    OBVIOUS
  <2>2. PICK T : T = S \cup {type}
    OBVIOUS
  <2>3. more \in Seq(T) /\ Len(more) = x /\ more[x] = type /\ \A k \in 1..x - 1 : more[k] = q[k]
    BY <1>1, <1>2, <2>1, <2>2, AppendIs
  <2>4. \A k \in 1..x : more[k] = q[k]
    <3>1. \A k \in 1..x : k = x \/ k \in 1..x - 1
      BY <1>1
    <3> QED
      BY <2>0, <2>3, <3>1
  <2>5. PICK i \in 1..x + 1 : Continues(more, i)
    <3>1. IsProgramPrefix(more)
      BY <1>6, <2>0, <2>1
    <3>2. \E i \in 1..Len(more) + 1 : Continues(more, i)
      BY <2>3, <3>1, PrefixIs
    <3> QED
      BY <2>3, <3>2
  <2>6. PICK n \in Nat : n = x + 1 - i
    BY <1>1
  <2>7. PICK g \in Forms : Fits(more, i, g, n)
    BY <2>3, <2>5, <2>6 DEF Continues
  <2>8. i \in Nat \ {0} /\ i \in Nat /\ i <= x + 1 /\ i + n = x + 1 /\ i + n <= x + 1 /\ x \in Nat
        /\ i \in 1..Len(q) + 1
    BY <1>1, <2>6
  <2>9. Whole(q, i)
    <3>1. Whole(more, i)
      BY <2>5 DEF Continues
    <3> QED
      BY <1>1, <2>4, <2>8, <3>1, WholeAlike
  <2>10. Fits(q, i, g, n)
    BY <1>1, <2>4, <2>7, <2>8, FitsAlike
  <2>11. i + n <= x
    BY <1>1, <2>8, <2>9, <2>10, RejectedWhole
  <2> QED
    BY <1>1, <2>8, <2>11
<1> QED
  BY <1>2, <1>4, <1>5, <1>6

----------------------------------------------------------------------------
(* What the parser has read and what it stops with *)

LabelNames(ts) == {i \in DOMAIN ts : i < Len(ts) /\ ts[i + 1].type = "SEMICOLON"}

Distinct(ts) == \A i, j \in LabelNames(ts) : ts[i].lexeme = ts[j].lexeme => i = j

\* The tokens the parser gets.
Readable(ts) ==
  /\ ts \in Seq({ts[i] : i \in DOMAIN ts}) /\ ts # <<>> /\ ts[Len(ts)].type = "END"
  /\ \A i \in DOMAIN ts : /\ ts[i].type = "END" => i = Len(ts)
                          /\ ts[i].type = "IDENTIFIER" => ts[i].lexeme # <<>>

\* Up to c there are whole instructions, or with an end behind them all tokens.
ReadTo(q, c) == IF c <= Len(q) THEN Whole(q, c) ELSE \E i \in 1..Len(q) + 1 : Ends(q, i)

FitNumbers(ts, c) == \A i \in 1..c - 1 : ts[i].type = "NUMBER" => ~Overflows(ts, i)

\* A colon is behind token k, before c.
Colon(ts, k, c) == k + 1 < c /\ ts[k + 1].type = "SEMICOLON"

\* The statements of ns begin at the tokens g, and their labels are the tokens
\* there that have a colon behind them.
BeginAt(ts, ns, c, g) ==
  /\ DOMAIN g = DOMAIN ns
  /\ \A i \in DOMAIN ns :
       /\ g[i] \in 1..c - 1
       /\ Colon(ts, g[i], c) => ns[i].label = ts[g[i]].lexeme /\ ns[i].label # <<>>
       /\ ~Colon(ts, g[i], c) => ns[i].label = <<>>
       /\ \A j \in DOMAIN ns : g[i] = g[j] => i = j
  /\ \A k \in 1..c - 1 : Colon(ts, k, c) => \E i \in DOMAIN ns : g[i] = k

ParsedTo(ts, q, ns, c) ==
  ReadTo(q, c) /\ FitNumbers(ts, c) /\ \E g : BeginAt(ts, ns, c, g)

\* An exception the parser has thrown.
StoppedBy(ts, q, e) ==
  \E c \in 1..Len(q) :
    /\ Whole(q, c)
    /\ \/ \E x \in c..Len(q) : \E types :
            /\ e = [kind |-> "unexpected_token", at |-> x, expected |-> types]
            /\ Rejected(q, c, x, types)
       \/ /\ e = OutOfRange("stoi")
          /\ \E f \in Forms : /\ f.head = "NUMBER" /\ Fits(q, c, f, Size(f))
                              /\ Overflows(ts, c + Size(f) - 1)

LEMMA ReadableSeq ==
  ASSUME NEW ts, Readable(ts), NEW q, Typed(ts, q)
  PROVE  \E S : q \in Seq(S)
<1>1. PICK S : ts \in Seq(S)
  BY DEF Readable
<1> QED
  BY <1>1, TypedSeq

LEMMA ReadableIs ==
  ASSUME NEW ts, Readable(ts), NEW q, Typed(ts, q)
  PROVE  /\ Len(q) = Len(ts) /\ Len(q) \in Nat /\ Len(q) > 0
         /\ DOMAIN ts = 1..Len(q)
         /\ \A i \in 1..Len(q) : q[i] = ts[i].type
         /\ q[Len(q)] = "END" /\ \A i \in 1..Len(q) : q[i] = "END" => i = Len(q)
<1>1. PICK S : ts \in Seq(S)
  BY DEF Readable
<1>2. /\ Len(q) = Len(ts) /\ Len(q) \in Nat /\ \A i \in 1..Len(q) : q[i] = ts[i].type
  BY <1>1, TypedIs
<1>3. DOMAIN ts = 1..Len(q) /\ Len(q) > 0
  <2>1. Len(ts) # 0
    BY <1>1, EmptySeq DEF Readable
  <2> QED
    BY <1>1, <1>2, <2>1
<1>4. Len(q) \in 1..Len(q)
  BY <1>2, <1>3
<1> QED
  BY <1>2, <1>3, <1>4 DEF Readable

LEMMA ParseStops ==
  ASSUME NEW ts, Readable(ts), NEW q, Typed(ts, q), NEW c \in 1..Len(q), Whole(q, c),
         NEW r, r = ParseStatement(ts, c), r.error # None
  PROVE  StoppedBy(ts, q, r.error)
<1>1. PICK S : ts \in Seq(S)
  BY DEF Readable
<1>2. Len(q) = Len(ts) /\ Len(q) \in Nat /\ q[Len(q)] = "END"
  BY ReadableIs
<1>3. PICK l : Outcome(ts, q, c, l, r.at, r.error)
  BY <1>1, <1>2, StatementOutcome
<1>4. CASE RejectedWith(ts, q, c, r.error)
  <2>1. PICK x, types : r.error = Unexpected(ts, x, types) /\ Rejected(q, c, x, types)
    BY <1>4 DEF RejectedWith
  <2>2. x \in c..Len(q)
    BY <1>2, <2>1, RejectedAt
  <2>3. ~(x > Len(ts))
    BY <1>2, <2>2
  <2>4. r.error = [kind |-> "unexpected_token", at |-> x, expected |-> types]
    BY <2>1, <2>3 DEF Unexpected
  <2> QED
    BY <2>1, <2>2, <2>4 DEF StoppedBy
<1>5. CASE ~RejectedWith(ts, q, c, r.error)
  <2>1. /\ r.error = OutOfRange("stoi")
        /\ \E f \in Forms : /\ f.label = l /\ f.head = "NUMBER" /\ Fits(q, c, f, Size(f))
                            /\ Overflows(ts, c + Size(f) - 1)
    BY <1>3, <1>5 DEF Outcome
  <2> QED
    BY <2>1 DEF StoppedBy
<1> QED
  BY <1>4, <1>5

\* Within a form, a colon is behind the label only.
LEMMA ColonOnly ==
  ASSUME NEW f \in Forms, NEW i \in 1..Size(f), "SEMICOLON" \in Expects(f, i)
  PROVE  i = 2 /\ f.label = 2
<1>1. f.head \in Heads /\ Before(f) \in 0..4 /\ f.label \in {0, 2} /\ f.target \in {0, 2}
      /\ Before(f) = f.label + f.target
  BY FormIs DEF Before
<1>2. PICK k \in Nat : k = Before(f)
  BY <1>1
<1>3. PICK n \in 1..5 : n = Len(Body(f.head))
  BY <1>1, BodyIs
<1>4. Size(f) = k + n
  BY <1>2, <1>3 DEF Size
<1>5. ~(i > k)
  <2>1. ASSUME i > k
        PROVE  FALSE
    <3>1. PICK j \in 1..n : i = k + j
      <4>1. i - k \in 1..n /\ i = k + (i - k)
        BY <1>4, <2>1
      <4> QED
        BY <4>1
    <3>2. "SEMICOLON" \in Body(f.head)[j]
      BY <1>2, <1>3, <3>1, FormIs
    <3>3. CASE j = 1
      <4>1. f.head = "SEMICOLON"
        BY <1>1, <3>2, <3>3, BodyIs
      <4> QED
        BY <1>1, <4>1 DEF Heads, ValueHeads, InstructionHeads
    <3>4. CASE j # 1
      <4>1. j \in 2..Len(Body(f.head))
        BY <1>3, <3>4
      <4>2. Body(f.head)[j] \in {Name, Operator, Location, Order, {"GOTO"}}
        BY <1>1, <4>1, BodyIs
      <4> QED
        BY <3>2, <4>2 DEF Name, Operator, Location, Order
    <3> QED
      BY <3>3, <3>4
  <2> QED
    BY <2>1
<1>6. i \notin {1, 3} /\ i <= f.label
  BY <1>2, <1>5 DEF Expects, Name
<1> QED
  BY <1>1, <1>6

\* The statement that was read at c.
StatementRead(ts, q, c, r, f) ==
  /\ f \in Forms /\ Accepted(q, c, f, r.at) /\ LabelRead(q, c, f.label)
  /\ r.label = IF f.label = 2 THEN ts[c].lexeme ELSE <<>>
  /\ f.head = "NUMBER" => ~Overflows(ts, r.at - 1)

LEMMA StatementReadIs ==
  ASSUME NEW ts, NEW q, NEW c, NEW r, NEW f, StatementRead(ts, q, c, r, f)
  PROVE  f \in Forms /\ Accepted(q, c, f, r.at)
BY DEF StatementRead

LEMMA ParseReads ==
  ASSUME NEW ts, Readable(ts), NEW q, Typed(ts, q), NEW c \in 1..Len(q),
         NEW r, r = ParseStatement(ts, c), r.error = None
  PROVE  \E f : StatementRead(ts, q, c, r, f)
<1>1. PICK S : ts \in Seq(S)
  BY DEF Readable
<1>2. Len(q) = Len(ts) /\ Len(q) \in Nat /\ q[Len(q)] = "END"
  BY ReadableIs
<1>3. PICK l : /\ LabelRead(q, c, l) /\ Outcome(ts, q, c, l, r.at, r.error)
               /\ r.label = IF l = 2 THEN ts[c].lexeme ELSE <<>>
  BY <1>1, <1>2, StatementOutcome
<1>4. ~RejectedWith(ts, q, c, r.error)
  BY UnexpectedIsError DEF RejectedWith
<1>5. r.error # OutOfRange("stoi")
  <2>1. OutOfRange("stoi").kind # None.kind
    BY DEF OutOfRange, None
  <2> QED
    BY <2>1
<1>6. PICK f \in Forms : /\ f.label = l /\ Accepted(q, c, f, r.at)
                         /\ f.head = "NUMBER" => ~Overflows(ts, r.at - 1)
  BY <1>3, <1>4, <1>5 DEF Outcome
<1>7. StatementRead(ts, q, c, r, f)
  BY <1>3, <1>6 DEF StatementRead
<1> QED
  BY <1>7

\* The colon of a statement is that of its label.
LEMMA ColonRead ==
  ASSUME NEW q, NEW c \in Nat, NEW f \in Forms, NEW at, Accepted(q, c, f, at),
         NEW k \in c..at - 1, q[k] = "SEMICOLON"
  PROVE  k = c + 1 /\ f.label = 2
<1>1. PICK n \in Nat : n = Size(f)
  BY SizeIs
<1>2. at = c + n /\ \A i \in 1..n : q[c + i - 1] \in Expects(f, i)
  BY <1>1 DEF Accepted, Fits
<1>3. PICK i \in 1..n : i = k - c + 1 /\ c + i - 1 = k
  <2>1. k - c + 1 \in 1..n /\ c + (k - c + 1) - 1 = k
    BY <1>2
  <2> QED
    BY <2>1
<1>4. "SEMICOLON" \in Expects(f, i)
  BY <1>2, <1>3
<1>5. i = 2 /\ f.label = 2
  BY <1>1, <1>4, ColonOnly
<1> QED
  BY <1>3, <1>5

\* Numbers that were read fit.
LEMMA NumbersStep ==
  ASSUME NEW ts, Readable(ts), NEW q, Typed(ts, q), NEW c \in 1..Len(q), FitNumbers(ts, c),
         NEW r, NEW f, StatementRead(ts, q, c, r, f)
  PROVE  FitNumbers(ts, r.at)
<1>1. Len(q) \in Nat /\ c \in Nat /\ f \in Forms /\ Accepted(q, c, f, r.at)
      /\ \A i \in 1..Len(q) : q[i] = ts[i].type
  BY ReadableIs, StatementReadIs
<1>2. PICK n \in Nat : n = Size(f)
  BY <1>1, SizeIs
<1>3. r.at = c + n /\ c + n <= Len(q) + 1 /\ \A i \in 1..n : q[c + i - 1] \in Expects(f, i)
  BY <1>1, <1>2 DEF Accepted, Fits
<1>4. ASSUME NEW k \in 1..r.at - 1, ts[k].type = "NUMBER"
      PROVE  ~Overflows(ts, k)
  <2>1. CASE k < c
    <3>1. k \in 1..c - 1
      BY <1>1, <1>3, <2>1
    <3> QED
      BY <1>4, <3>1 DEF FitNumbers
  <2>2. CASE ~(k < c)
    <3>1. PICK i \in 1..n : i = k - c + 1 /\ c + i - 1 = k
      <4>1. k - c + 1 \in 1..n /\ c + (k - c + 1) - 1 = k
        BY <1>1, <1>3, <2>2
      <4> QED
        BY <4>1
    <3>2. k \in 1..Len(q)
      BY <1>1, <1>3
    <3>3. PICK type \in {"END", "NUMBER"} : type = "NUMBER"
      OBVIOUS
    <3>4. type \in Expects(f, i)
      BY <1>1, <1>3, <1>4, <3>1, <3>2, <3>3
    <3>5. f.head = type /\ i = n
      BY <1>1, <1>2, <3>1, <3>4, LastOnly
    <3>6. k = r.at - 1
      BY <1>1, <1>3, <3>1, <3>5
    <3> QED
      BY <3>3, <3>5, <3>6 DEF StatementRead
  <2> QED
    BY <1>1, <1>3, <2>1, <2>2
<1> QED
  BY <1>4 DEF FitNumbers

\* The instructions read are whole.
LEMMA ReadStep ==
  ASSUME NEW ts, Readable(ts), NEW q, Typed(ts, q), NEW c \in 1..Len(q), Whole(q, c),
         NEW r, NEW f, StatementRead(ts, q, c, r, f)
  PROVE  ReadTo(q, r.at) /\ r.at \in c + 1..Len(q) + 1
<1>1. /\ Len(q) \in Nat /\ c \in Nat /\ f \in Forms /\ Accepted(q, c, f, r.at) /\ q[Len(q)] = "END"
      /\ \A i \in 1..Len(q) : q[i] = "END" => i = Len(q)
  BY ReadableIs, StatementReadIs
<1>2. PICK at : at = r.at
  OBVIOUS
<1>3. at \in c + 1..Len(q) + 1 /\ (f.head = "END" <=> at = Len(q) + 1)
  BY <1>1, <1>2, AcceptedAt
<1>4. Fits(q, c, f, Size(f)) /\ at = c + Size(f)
  BY <1>1, <1>2 DEF Accepted
<1>5. CASE at = Len(q) + 1
  <2>1. Ends(q, c) /\ c \in 1..Len(q) + 1
    BY <1>1, <1>3, <1>4, <1>5 DEF Ends
  <2>2. ~(at <= Len(q))
    BY <1>1, <1>5
  <2> QED
    BY <1>2, <1>3, <2>1, <2>2 DEF ReadTo
<1>6. CASE at # Len(q) + 1
  <2>1. at \in Nat /\ at <= Len(q)
    BY <1>1, <1>3, <1>6
  <2>2. Step(q, c, at)
    BY <1>1, <1>3, <1>4, <1>6 DEF Step
  <2>3. Whole(q, at)
    BY <1>1, <2>1, <2>2, WholeStep
  <2> QED
    BY <1>2, <1>3, <2>1, <2>3 DEF ReadTo
<1> QED
  BY <1>5, <1>6

\* The colons before at: those before c, and the one of the label at c.
LEMMA ColonsThen ==
  ASSUME NEW ts, Readable(ts), NEW q, Typed(ts, q), NEW c \in 1..Len(q),
         NEW r, NEW f, StatementRead(ts, q, c, r, f)
  PROVE  /\ r.at \in c + 1..Len(q) + 1
         /\ Colon(ts, c, r.at) <=> f.label = 2
         /\ \A k \in 1..c - 1 : Colon(ts, k, r.at) <=> Colon(ts, k, c)
         /\ \A k \in c + 1..r.at - 1 : ~Colon(ts, k, r.at)
<1>1. /\ Len(q) \in Nat /\ c \in Nat /\ f \in Forms /\ Accepted(q, c, f, r.at) /\ q[Len(q)] = "END"
      /\ \A i \in 1..Len(q) : q[i] = "END" => i = Len(q)
      /\ \A i \in 1..Len(q) : q[i] = ts[i].type
  BY ReadableIs, StatementReadIs
<1>2. PICK at : at = r.at
  OBVIOUS
<1>3. at \in c + 1..Len(q) + 1
  BY <1>1, <1>2, AcceptedAt
<1>4. ASSUME NEW k \in 1..at - 1, Colon(ts, k, at), ~(k + 1 < c)
      PROVE  k = c /\ f.label = 2
  <2>1. PICK k1 : k1 = k + 1
    OBVIOUS
  <2>2. k1 \in c..at - 1 /\ k1 \in 1..Len(q) /\ ts[k1].type = "SEMICOLON"
    BY <1>1, <1>3, <1>4, <2>1 DEF Colon
  <2>3. q[k1] = "SEMICOLON"
    BY <1>1, <2>2
  <2>4. Accepted(q, c, f, at)
    BY <1>1, <1>2
  <2>5. k1 = c + 1 /\ f.label = 2
    BY <1>1, <2>2, <2>3, <2>4, ColonRead
  <2> QED
    BY <1>1, <2>1, <2>5
<1>5. ASSUME f.label = 2
      PROVE  Colon(ts, c, at)
  <2>1. q[c + 1] = "SEMICOLON" /\ c + 2 <= Len(q)
    BY <1>5 DEF StatementRead, LabelRead
  <2>2. c + 1 \in 1..Len(q)
    BY <1>1, <2>1
  <2>3. ts[c + 1].type = "SEMICOLON"
    BY <1>1, <2>1, <2>2
  <2>4. PICK n \in Nat : n = Size(f) /\ n >= 3
    <3>1. PICK m : m = Before(f)
      OBVIOUS
    <3>2. m \in 0..4 /\ Size(f) \in m + 1..m + 5 /\ m = 2 + f.target /\ f.target \in {0, 2}
      BY <1>1, <1>5, <3>1, FormIs DEF Before
    <3>3. Size(f) \in Nat /\ Size(f) >= 3
      BY <3>2
    <3> QED
      BY <3>3
  <2>5. at = c + n
    BY <1>1, <1>2, <2>4 DEF Accepted
  <2>6. c + 1 < at
    BY <1>1, <2>4, <2>5
  <2> QED
    BY <2>3, <2>6 DEF Colon
<1>6. ASSUME NEW k \in 1..c - 1
      PROVE  Colon(ts, k, at) <=> Colon(ts, k, c)
  <2>1. k \in 1..at - 1 /\ k # c
    BY <1>1, <1>3
  <2>2. k + 1 < c => k + 1 < at
    BY <1>1, <1>3
  <2> QED
    BY <1>4, <2>1, <2>2 DEF Colon
<1>7. ASSUME NEW k \in c + 1..at - 1
      PROVE  ~Colon(ts, k, at)
  <2>1. k \in 1..at - 1 /\ k # c /\ ~(k + 1 < c)
    BY <1>1, <1>3
  <2> QED
    BY <1>4, <2>1
<1>8. Colon(ts, c, at) => f.label = 2
  <2>1. c \in 1..at - 1 /\ ~(c + 1 < c)
    BY <1>1, <1>3
  <2> QED
    BY <1>4, <2>1
<1> QED
  BY <1>2, <1>3, <1>5, <1>6, <1>7, <1>8

\* One more statement begins at c.
LEMMA BeginStep ==
  ASSUME NEW ts, Readable(ts), NEW q, Typed(ts, q), NEW c \in 1..Len(q),
         NEW r, NEW f, StatementRead(ts, q, c, r, f),
         NEW S, NEW ns \in Seq(S), NEW g, BeginAt(ts, ns, c, g),
         NEW new, new.label = r.label, NEW more, more = Append(ns, new)
  PROVE  \E h : BeginAt(ts, more, r.at, h)
<1>1. PICK n \in Nat : n = Len(ns)
  OBVIOUS
<1>2. /\ DOMAIN ns = 1..n /\ DOMAIN more = 1..n + 1 /\ more[n + 1] = new
      /\ \A i \in 1..n : more[i] = ns[i]
  <2>1. PICK T : T = S \cup {new}
    OBVIOUS
  <2>2. ns \in Seq(T) /\ new \in T
    <3>1. S \subseteq T /\ new \in T
      BY <2>1
    <3>2. ns \in [1..n -> T]
      BY <1>1, <3>1
    <3> QED
      BY <3>1, <3>2
  <2> QED
    BY <1>1, <2>2
<1>3. PICK at : at = r.at
  OBVIOUS
<1>4. /\ at \in c + 1..Len(q) + 1 /\ Len(q) \in Nat /\ c \in Nat
      /\ Colon(ts, c, at) <=> f.label = 2
      /\ \A k \in 1..c - 1 : Colon(ts, k, at) <=> Colon(ts, k, c)
      /\ \A k \in c + 1..at - 1 : ~Colon(ts, k, at)
  BY <1>3, ReadableIs, ColonsThen
<1> DEFINE h == [i \in 1..n + 1 |-> IF i = n + 1 THEN c ELSE g[i]]
<1>5. DOMAIN h = 1..n + 1 /\ h[n + 1] = c /\ \A i \in 1..n : h[i] = g[i]
  <2>1. n + 1 \in 1..n + 1 /\ \A i \in 1..n : i \in 1..n + 1 /\ i # n + 1
    OBVIOUS
  <2> QED
    BY <2>1
<1> HIDE DEF h
<1>6. /\ \A i \in 1..n :
           /\ g[i] \in 1..c - 1
           /\ Colon(ts, g[i], c) => ns[i].label = ts[g[i]].lexeme /\ ns[i].label # <<>>
           /\ ~Colon(ts, g[i], c) => ns[i].label = <<>>
           /\ \A j \in 1..n : g[i] = g[j] => i = j
      /\ \A k \in 1..c - 1 : Colon(ts, k, c) => \E i \in 1..n : g[i] = k
  BY <1>2 DEF BeginAt
<1>7. f.label = 2 => ts[c].lexeme # <<>>
  <2>1. c \in DOMAIN ts /\ q[c] = ts[c].type
    <3>1. DOMAIN ts = 1..Len(q) /\ \A i \in 1..Len(q) : q[i] = ts[i].type
      BY ReadableIs
    <3> QED
      BY <3>1
  <2>2. f.label = 2 => q[c] = "IDENTIFIER"
    BY DEF StatementRead, LabelRead
  <2> QED
    BY <2>1, <2>2 DEF Readable
<1>8. new.label = IF f.label = 2 THEN ts[c].lexeme ELSE <<>>
  BY DEF StatementRead
<1>9. ASSUME NEW i \in 1..n + 1
      PROVE  /\ h[i] \in 1..at - 1
             /\ Colon(ts, h[i], at) => more[i].label = ts[h[i]].lexeme /\ more[i].label # <<>>
             /\ ~Colon(ts, h[i], at) => more[i].label = <<>>
             /\ \A j \in 1..n + 1 : h[i] = h[j] => i = j
  <2>1. \A j \in 1..n + 1 : j = n + 1 \/ j \in 1..n
    OBVIOUS
  <2>2. \A j \in 1..n : g[j] # c
    BY <1>4, <1>6
  <2>3. CASE i = n + 1
    <3>1. h[i] = c /\ more[i] = new /\ c \in 1..at - 1
      BY <1>2, <1>4, <1>5, <2>3
    <3>2. \A j \in 1..n + 1 : h[i] = h[j] => i = j
      BY <1>5, <2>1, <2>2, <2>3, <3>1
    <3> QED
      BY <1>4, <1>7, <1>8, <3>1, <3>2
  <2>4. CASE i # n + 1
    <3>1. i \in 1..n /\ h[i] = g[i] /\ more[i] = ns[i]
      BY <1>2, <1>5, <2>1, <2>4
    <3>2. PICK k \in 1..c - 1 : k = g[i]
      BY <1>6, <3>1
    <3>3. k \in 1..at - 1
      BY <1>4
    <3>4. Colon(ts, k, at) <=> Colon(ts, k, c)
      BY <1>4
    <3>5. ASSUME NEW j \in 1..n + 1, h[i] = h[j]
          PROVE  i = j
      <4>1. j # n + 1
        BY <1>5, <2>2, <3>1, <3>5
      <4>2. j \in 1..n /\ g[i] = g[j]
        BY <1>5, <2>1, <3>1, <3>5, <4>1
      <4> QED
        BY <1>6, <3>1, <4>2
    <3> QED
      BY <1>6, <3>1, <3>2, <3>3, <3>4, <3>5
  <2> QED
    BY <2>3, <2>4
<1>10. ASSUME NEW k \in 1..at - 1, Colon(ts, k, at)
       PROVE  \E i \in 1..n + 1 : h[i] = k
  <2>1. k \in 1..c - 1 \/ k = c \/ k \in c + 1..at - 1
    BY <1>4
  <2>2. CASE k \in 1..c - 1
    <3>1. PICK i \in 1..n : g[i] = k
      BY <1>4, <1>6, <1>10, <2>2
    <3>2. i \in 1..n + 1 /\ h[i] = k
      BY <1>5, <3>1
    <3> QED
      BY <3>2
  <2>3. CASE k = c
    <3>1. n + 1 \in 1..n + 1 /\ h[n + 1] = k
      BY <1>5, <2>3
    <3> QED
      BY <3>1
  <2> QED
    BY <1>4, <1>10, <2>1, <2>2, <2>3
<1>11. BeginAt(ts, more, at, h)
  BY <1>2, <1>5, <1>9, <1>10 DEF BeginAt
<1> QED
  BY <1>3, <1>11

LEMMA ParseStep ==
  ASSUME NEW ts, Readable(ts), NEW q, Typed(ts, q), NEW c \in 1..Len(q),
         NEW S, NEW ns \in Seq(S), ParsedTo(ts, q, ns, c),
         NEW r, r = ParseStatement(ts, c), r.error = None,
         NEW new, new.label = r.label
  PROVE  ParsedTo(ts, q, Append(ns, new), r.at)
<1>1. PICK f : StatementRead(ts, q, c, r, f)
  BY ParseReads
<1>2. Len(q) \in Nat /\ c <= Len(q)
  BY ReadableIs
<1>3. Whole(q, c)
  BY <1>2 DEF ParsedTo, ReadTo
<1>4. FitNumbers(ts, r.at)
  BY <1>1, NumbersStep DEF ParsedTo
<1>5. ReadTo(q, r.at)
  BY <1>1, <1>3, ReadStep
<1>6. PICK g : BeginAt(ts, ns, c, g)
  BY DEF ParsedTo
<1>7. PICK more : more = Append(ns, new)
  OBVIOUS
<1>8. \E h : BeginAt(ts, more, r.at, h)
  BY <1>1, <1>6, <1>7, BeginStep
<1> QED
  BY <1>4, <1>5, <1>7, <1>8 DEF ParsedTo

LEMMA ParseBegins ==
  ASSUME NEW ts, Readable(ts), NEW q, Typed(ts, q)
  PROVE  ParsedTo(ts, q, <<>>, 1)
<1>1. Len(q) \in Nat /\ 1 <= Len(q)
  <2>1. Len(q) \in Nat /\ Len(q) > 0
    BY ReadableIs
  <2> QED
    BY <2>1
<1>2. ReadTo(q, 1)
  BY <1>1, WholeFirst DEF ReadTo
<1>3. FitNumbers(ts, 1)
  BY DEF FitNumbers
<1>4. BeginAt(ts, <<>>, 1, <<>>)
  BY DEF BeginAt
<1> QED
  BY <1>2, <1>3, <1>4 DEF ParsedTo

\* All tokens read are a program, and its numbers fit.
LEMMA ReadIsProgram ==
  ASSUME NEW ts, Readable(ts), NEW q, Typed(ts, q), NEW ns, ParsedTo(ts, q, ns, Len(ts) + 1)
  PROVE  IsProgram(q) /\ \A i \in DOMAIN ts : ts[i].type = "NUMBER" => ~Overflows(ts, i)
<1>1. PICK S : q \in Seq(S)
  BY ReadableSeq
<1>2. q \in Seq(S) /\ Len(q) = Len(ts) /\ Len(q) \in Nat /\ DOMAIN ts = 1..Len(q)
  BY <1>1, ReadableIs
<1>3. PICK c : c = Len(q) + 1
  OBVIOUS
<1>4. ReadTo(q, c) /\ FitNumbers(ts, c) /\ ~(c <= Len(q)) /\ c - 1 = Len(q)
  BY <1>2, <1>3 DEF ParsedTo
<1>5. \E i \in 1..Len(q) + 1 : Ends(q, i)
  BY <1>4 DEF ReadTo
<1>6. IsProgram(q)
  BY <1>2, <1>5, ProgramIs
<1> QED
  BY <1>2, <1>4, <1>6 DEF FitNumbers

\* Two statements with a label of the same name.
LEMMA LabelsClash ==
  ASSUME NEW ts, Readable(ts), NEW ns, NEW g, BeginAt(ts, ns, Len(ts) + 1, g),
         NEW i \in DOMAIN ns, NEW j \in DOMAIN ns, i # j, ns[i].label = ns[j].label, ns[i].label # <<>>
  PROVE  ~Distinct(ts)
<1>1. PICK m \in Nat : m = Len(ts) /\ DOMAIN ts = 1..m
  BY DEF Readable
<1>2. PICK k, l : k = g[i] /\ l = g[j]
  OBVIOUS
<1>3. /\ k \in 1..m /\ l \in 1..m /\ k # l
      /\ Colon(ts, k, m + 1) /\ Colon(ts, l, m + 1) /\ ts[k].lexeme = ts[l].lexeme
  <2>1. (m + 1) - 1 = m /\ BeginAt(ts, ns, m + 1, g)
    BY <1>1
  <2>2. k \in 1..m /\ l \in 1..m /\ k # l
    BY <1>2, <2>1 DEF BeginAt
  <2>3. Colon(ts, k, m + 1) /\ ns[i].label = ts[k].lexeme
    BY <1>2, <2>1 DEF BeginAt
  <2>4. Colon(ts, l, m + 1) /\ ns[j].label = ts[l].lexeme
    BY <1>2, <2>1 DEF BeginAt
  <2> QED
    BY <2>2, <2>3, <2>4
<1>4. k \in LabelNames(ts) /\ l \in LabelNames(ts)
  BY <1>1, <1>3 DEF LabelNames, Colon
<1> QED
  BY <1>3, <1>4 DEF Distinct

\* The label table is complete only if no name labels two statements.
LEMMA LabelsDistinct ==
  ASSUME NEW ts, Readable(ts), NEW S, NEW ns \in Seq(S), NEW g, BeginAt(ts, ns, Len(ts) + 1, g),
         NEW ls, LabelsOK(ls, ns, Len(ns) + 1)
  PROVE  Distinct(ts)
<1>1. PICK m \in Nat : m = Len(ts) /\ DOMAIN ts = 1..m
  BY DEF Readable
<1>2. PICK n \in Nat : n = Len(ns) /\ DOMAIN ns = 1..n
  OBVIOUS
<1>3. ASSUME NEW k \in LabelNames(ts)
      PROVE  \E i \in 1..n : /\ g[i] = k /\ ns[i].label = ts[k].lexeme
                             /\ ls[ns[i].label] = i
  <2>1. k \in 1..m /\ k < m /\ Colon(ts, k, m + 1)
    BY <1>1, <1>3 DEF LabelNames, Colon
  <2>2. (m + 1) - 1 = m /\ BeginAt(ts, ns, m + 1, g)
    BY <1>1
  <2>3. PICK i \in 1..n : g[i] = k
    BY <1>2, <2>1, <2>2 DEF BeginAt
  <2>4. ns[i].label = ts[k].lexeme /\ ns[i].label # <<>>
    BY <1>2, <2>1, <2>2, <2>3 DEF BeginAt
  <2>5. i < Len(ns) + 1
    BY <1>2
  <2>6. ls[ns[i].label] = i
    BY <1>2, <2>4, <2>5 DEF LabelsOK
  <2> QED
    BY <2>3, <2>4, <2>6
<1>4. ASSUME NEW k \in LabelNames(ts), NEW l \in LabelNames(ts), ts[k].lexeme = ts[l].lexeme
      PROVE  k = l
  <2>1. PICK i \in 1..n : g[i] = k /\ ns[i].label = ts[k].lexeme /\ ls[ns[i].label] = i
    BY <1>3
  <2>2. PICK j \in 1..n : g[j] = l /\ ns[j].label = ts[l].lexeme /\ ls[ns[j].label] = j
    BY <1>3
  <2>3. i = j
    BY <1>4, <2>1, <2>2
  <2> QED
    BY <2>1, <2>2, <2>3
<1> QED
  BY <1>4 DEF Distinct

\* A number too large, at the end of a form that whole instructions precede.
LEMMA StoppedAtNumber ==
  ASSUME NEW ts, Readable(ts), NEW q, Typed(ts, q), NEW c \in 1..Len(q), Whole(q, c),
         NEW f \in Forms, f.head = "NUMBER", Fits(q, c, f, Size(f)), Overflows(ts, c + Size(f) - 1)
  PROVE  \E i \in DOMAIN ts : /\ ts[i].type = "NUMBER" /\ Overflows(ts, i)
                              /\ IsProgramPrefix(SubSeq(q, 1, i))
<1>1. PICK S : q \in Seq(S)
  BY ReadableSeq
<1>2. /\ q \in Seq(S) /\ Len(q) \in Nat /\ DOMAIN ts = 1..Len(q)
      /\ \A i \in 1..Len(q) : q[i] = ts[i].type
  BY <1>1, ReadableIs
<1>3. PICK n \in Nat : n = Size(f) /\ n = Before(f) + 1
  <2>1. PICK m : m = Before(f)
    OBVIOUS
  <2>2. PICK b : b = Len(Body(f.head))
    OBVIOUS
  <2>3. b = 1 /\ m \in 0..4
    BY <2>1, <2>2, FormIs, BodyIs
  <2>4. Size(f) = m + b
    BY <2>1, <2>2 DEF Size
  <2>5. Size(f) = m + 1 /\ m + 1 \in Nat
    BY <2>3, <2>4
  <2> QED
    BY <2>1, <2>5
<1>4. PICK i : i = c + n - 1
  OBVIOUS
<1>5. /\ n \in 1..n /\ c + n <= Len(q) + 1
      /\ \A k \in 1..n : q[c + k - 1] \in Expects(f, k)
  <2>1. n # 0
    BY <1>3, FormIs
  <2>2. n \in 1..n
    BY <2>1
  <2> QED
    BY <1>3, <2>2 DEF Fits
<1>6. i \in 1..Len(q)
  BY <1>2, <1>4, <1>5
<1>7. ts[i].type = "NUMBER"
  <2>1. q[i] \in Expects(f, n)
    BY <1>4, <1>5
  <2>2. Expects(f, n) = {"NUMBER"}
    BY <1>3, FormIs
  <2> QED
    BY <1>2, <1>6, <2>1, <2>2
<1>8. Overflows(ts, i)
  BY <1>3, <1>4
<1>9. PICK p : p = SubSeq(q, 1, i)
  OBVIOUS
<1>10. p \in Seq(S) /\ Len(p) = i /\ \A k \in 1..i : p[k] = q[k]
  <2>1. IsFirsts(S, q, i, p)
    BY <1>2, <1>6, <1>9, FirstsIs
  <2> QED
    BY <2>1 DEF IsFirsts
<1>11. Len(p) + 1 = c + n /\ c \in Nat \ {0} /\ Fits(q, c, f, n)
  <2>1. Len(p) = i /\ c \in Nat \ {0}
    BY <1>2, <1>10
  <2>2. Len(p) + 1 = c + n
    BY <1>3, <1>4, <2>1
  <2>3. Fits(q, c, f, n)
    BY <1>3
  <2> QED
    BY <2>1, <2>2, <2>3
<1>12. IsProgramPrefix(p)
  BY <1>2, <1>10, <1>11, CanContinue
<1> QED
  BY <1>2, <1>6, <1>7, <1>8, <1>9, <1>12

\* The parser stops for what is no program, or has a number too large.
LEMMA StoppedIsNoProgram ==
  ASSUME NEW ts, Readable(ts), NEW q, Typed(ts, q), NEW e, StoppedBy(ts, q, e)
  PROVE  ~IsProgram(q) \/ \E i \in DOMAIN ts : ts[i].type = "NUMBER" /\ Overflows(ts, i)
<1>1. PICK S : q \in Seq(S)
  BY ReadableSeq
<1>2. q \in Seq(S)
  BY <1>1
<1>3. PICK c \in 1..Len(q) :
        /\ Whole(q, c)
        /\ \/ \E x \in c..Len(q) : \E types : Rejected(q, c, x, types)
           \/ \E f \in Forms : /\ f.head = "NUMBER" /\ Fits(q, c, f, Size(f))
                               /\ Overflows(ts, c + Size(f) - 1)
  BY DEF StoppedBy
<1>4. CASE \E x \in c..Len(q) : \E types : Rejected(q, c, x, types)
  BY <1>2, <1>3, <1>4, RejectedIsNoProgram
<1>5. CASE \E f \in Forms : /\ f.head = "NUMBER" /\ Fits(q, c, f, Size(f))
                            /\ Overflows(ts, c + Size(f) - 1)
  BY <1>3, <1>5, StoppedAtNumber
<1> QED
  BY <1>3, <1>4, <1>5

\* A program ends with an END.
LEMMA ProgramEnds ==
  ASSUME NEW S, NEW q \in Seq(S), IsProgram(q)
  PROVE  Len(q) \in Nat \ {0} /\ q[Len(q)] = "END"
<1>1. PICK i \in 1..Len(q) + 1 : Ends(q, i)
  BY ProgramIs
<1>2. PICK f \in Forms : f.head = "END" /\ i + Size(f) = Len(q) + 1 /\ Fits(q, i, f, Size(f))
  BY <1>1 DEF Ends
<1>3. PICK n \in Nat : n = Size(f) /\ n = Before(f) + 1 /\ n > 0
  <2>1. Len(Body(f.head)) = 1 /\ Before(f) \in 0..4
    BY <1>2, FormIs, BodyIs
  <2>2. Size(f) = Before(f) + 1 /\ Size(f) \in Nat /\ Size(f) > 0
    BY <2>1 DEF Size
  <2> QED
    BY <2>2
<1>4. n \in 1..n /\ i + n - 1 = Len(q) /\ Len(q) \in Nat \ {0}
  BY <1>2, <1>3
<1>5. q[i + n - 1] \in Expects(f, n)
  BY <1>2, <1>3, <1>4 DEF Fits
<1>6. Expects(f, n) = {"END"}
  BY <1>2, <1>3, FormIs
<1> QED
  BY <1>4, <1>5, <1>6

----------------------------------------------------------------------------
(* The invariant, of what has been read *)

\* What ended main, and why it had to.
Stopped ==
  /\ phase = "aborted" <=> error.kind = "out_of_range"
  /\ \/ tokens = <<>> /\ error.kind \in {"invalid_arguments", "unable_to_open_file"}
     \/ Invalid # {} /\ error.kind = "invalid_token"
     \/ /\ Invalid = {} /\ Readable(tokens)
        /\ \/ StoppedBy(tokens, Types, error)
           \/ error.kind = "multiple_statements_with_same_label" /\ ~Distinct(tokens)

\* The labels in the table are those of statements before the cursor.
Entered(ls, ns, n) ==
  \A label \in DOMAIN ls : label # <<>> /\ \E j \in DOMAIN ns : j < n /\ ns[j].label = label

(***************************************************************************)
(* Beyond IInv: up to the cursor the tokens are whole instructions, their   *)
(* numbers fit, and statements and labels begin where they should; and the  *)
(* exception that ended main has its cause in the tokens.                   *)
(***************************************************************************)
ReadInv ==
  /\ phase = "parse" /\ Invalid = {} => ParsedTo(tokens, Types, nodes, cursor)
  /\ phase \in {"label", "run"} => /\ Invalid = {}
                                   /\ ParsedTo(tokens, Types, nodes, Len(tokens) + 1)
  /\ phase = "label" => Entered(labels, nodes, cursor)
  /\ phase \in Ending => Stopped

LEMMA TokensReadable ==
  ASSUME NEW t, NEW ts, TokensOK(t, ts), Ended(ts), \A i \in DOMAIN ts : ts[i].type # "INVALID"
  PROVE  Readable(ts)
<1>1. PICK n \in Nat : n = Len(ts) /\ DOMAIN ts = 1..n
  BY DEF TokensOK
<1>2. n # 0
  <2>1. PICK S : ts \in Seq(S)
    BY DEF TokensOK
  <2>2. Len(ts) # 0
    BY <2>1, EmptySeq DEF Ended
  <2> QED
    BY <1>1, <2>2
<1>3. ts[Len(ts)].type = "END"
  BY <1>1, <1>2 DEF Ended
<1>4. \A i \in DOMAIN ts : /\ ts[i].type = "END" => i = Len(ts)
                           /\ ts[i].type = "IDENTIFIER" => ts[i].lexeme # <<>>
  BY DEF TokensOK, Placed
<1>5. ts \in Seq({ts[i] : i \in DOMAIN ts}) /\ ts # <<>>
  BY DEF TokensOK, Ended
<1> QED
  BY <1>3, <1>4, <1>5 DEF Readable

LEMMA ParserReads ==
  ASSUME IInv, phase \in {"parse", "label", "run"}, Invalid = {}
  PROVE  Readable(tokens) /\ Typed(tokens, Types)
<1>1. PICK t, ts : t = text /\ ts = tokens
  OBVIOUS
<1>2. TokensOK(t, ts) /\ Ended(ts)
  BY <1>1 DEF IInv
<1>3. \A i \in DOMAIN ts : ts[i].type # "INVALID"
  BY <1>1 DEF Invalid
<1>4. Readable(ts)
  BY <1>2, <1>3, TokensReadable
<1> QED
  BY <1>1, <1>4 DEF Typed, Types

LEMMA InitRead == Init => ReadInv
BY DEF Init, ReadInv, Ending

LEMMA ParseArgumentRead == IInv /\ ParseArgument => ReadInv'
BY DEF ParseArgument, ReadInv, Ending

LEMMA CheckOptionsRead == IInv /\ CheckOptions => ReadInv'
<1> SUFFICES ASSUME IInv, CheckOptions
             PROVE  ReadInv'
  OBVIOUS
<1>1. phase = "options" /\ UNCHANGED tokens
  BY DEF CheckOptions
<1>2. CASE OptionsAccepted
  <2>1. phase' = "open"
    BY <1>2 DEF CheckOptions, Goes
  <2> QED
    BY <2>1 DEF ReadInv, Ending
<1>3. CASE ~OptionsAccepted
  <2>1. error'.kind = "invalid_arguments" /\ phase' = "failed" /\ tokens' = <<>>
    BY <1>1, <1>3 DEF CheckOptions, Throw, IInv
  <2>2. Stopped'
    BY <2>1 DEF Stopped
  <2> QED
    BY <2>1, <2>2 DEF ReadInv, Ending
<1> QED
  BY <1>2, <1>3

LEMMA OpenFileRead == IInv /\ OpenFile => ReadInv'
<1> SUFFICES ASSUME IInv, OpenFile
             PROVE  ReadInv'
  OBVIOUS
<1>1. phase = "open" /\ UNCHANGED tokens
  BY DEF OpenFile
<1>2. CASE opts.file \in DOMAIN input.files
  <2>1. phase' = "lex"
    BY <1>2 DEF OpenFile, Goes
  <2> QED
    BY <2>1 DEF ReadInv, Ending
<1>3. CASE opts.file \notin DOMAIN input.files
  <2>1. error'.kind = "unable_to_open_file" /\ phase' = "failed" /\ tokens' = <<>>
    BY <1>1, <1>3 DEF OpenFile, Throw, IInv
  <2>2. Stopped'
    BY <2>1 DEF Stopped
  <2> QED
    BY <2>1, <2>2 DEF ReadInv, Ending
<1> QED
  BY <1>2, <1>3

LEMMA LexTokenRead == IInv /\ IInv' /\ LexToken => ReadInv'
<1> SUFFICES ASSUME IInv, IInv', LexToken
             PROVE  ReadInv'
  OBVIOUS
<1>1. phase = "lex" /\ UNCHANGED nodes /\ nodes = <<>> /\ cursor = 1
  BY DEF LexToken, IInv
<1>2. phase' \in {"lex", "parse"} /\ cursor' = 1
  BY <1>1 DEF LexToken, Goes
<1>3. ASSUME phase' = "parse", Invalid' = {}
      PROVE  ParsedTo(tokens, Types, nodes, cursor)'
  <2>1. PICK ts, q : ts = tokens' /\ q = Types'
    OBVIOUS
  <2>2. PICK t : t = text'
    OBVIOUS
  <2>3. TokensOK(t, ts) /\ Ended(ts)
    BY <1>3, <2>1, <2>2 DEF IInv
  <2>4. \A i \in DOMAIN ts : ts[i].type # "INVALID"
    BY <1>3, <2>1 DEF Invalid
  <2>5. Readable(ts)
    BY <2>3, <2>4, TokensReadable
  <2>6. Typed(ts, q)
    BY <2>1 DEF Typed, Types
  <2>7. ParsedTo(ts, q, <<>>, 1)
    BY <2>5, <2>6, ParseBegins
  <2> QED
    BY <1>1, <1>2, <2>1, <2>7
<1> QED
  BY <1>2, <1>3 DEF ReadInv, Ending

LEMMA RejectTokenRead == IInv /\ RejectToken => ReadInv'
<1> SUFFICES ASSUME IInv, RejectToken
             PROVE  ReadInv'
  OBVIOUS
<1>1. Invalid # {} /\ UNCHANGED tokens /\ error'.kind = "invalid_token" /\ phase' = "failed"
  BY DEF RejectToken, Throw
<1>2. Invalid' # {}
  BY <1>1 DEF Invalid
<1>3. Stopped'
  BY <1>1, <1>2 DEF Stopped
<1> QED
  BY <1>1, <1>3 DEF ReadInv, Ending

LEMMA ParseNextRead == IInv /\ ReadInv /\ ParseNext => ReadInv'
<1> SUFFICES ASSUME IInv, ReadInv, ParseNext
             PROVE  ReadInv'
  OBVIOUS
<1>1. PICK r : r = ParseStatement(tokens, cursor)
  OBVIOUS
<1>2. phase = "parse" /\ Invalid = {} /\ cursor <= Len(tokens) /\ UNCHANGED tokens
  BY DEF ParseNext
<1>3. PICK ts, q, ns, c : ts = tokens /\ q = Types /\ ns = nodes /\ c = cursor
  OBVIOUS
<1>4. Readable(ts) /\ Typed(ts, q) /\ ParsedTo(ts, q, ns, c)
  BY <1>2, <1>3, ParserReads DEF ReadInv
<1>5. Len(q) = Len(ts) /\ Len(q) \in Nat
  BY <1>4, ReadableIs
<1>6. c \in 1..Len(q) /\ \E S : ns \in Seq(S)
  <2>1. c \in 1..Len(ts) + 1 /\ c <= Len(ts)
    BY <1>2, <1>3 DEF IInv
  <2>2. \E S : ns \in Seq(S)
    BY <1>2, <1>3 DEF IInv, NodesOK
  <2> QED
    BY <1>5, <2>1, <2>2
<1>7. PICK S : ns \in Seq(S)
  BY <1>6
<1>8. tokens' = ts /\ Types' = q /\ Invalid' = {}
  BY <1>2, <1>3 DEF Types, Invalid
<1>9. CASE r.error = None
  <2>1. PICK new : new = [label |-> r.label, node |-> r.node]
    OBVIOUS
  <2>2. new.label = r.label
    BY <2>1
  <2>3. nodes' = Append(ns, new) /\ cursor' = r.at /\ phase' = "parse"
    BY <1>1, <1>2, <1>3, <1>9, <2>1 DEF ParseNext
  <2>4. r = ParseStatement(ts, c)
    BY <1>1, <1>3
  <2>5. ParsedTo(ts, q, Append(ns, new), r.at)
    BY <1>4, <1>6, <1>7, <1>9, <2>2, <2>4, ParseStep
  <2> QED
    BY <1>8, <2>3, <2>5 DEF ReadInv, Ending
<1>10. CASE r.error # None
  <2>1. Throw(r.error)
    BY <1>1, <1>10 DEF ParseNext
  <2>2. error' = r.error /\ phase' = IF error'.kind = "out_of_range" THEN "aborted" ELSE "failed"
    BY <2>1 DEF Throw
  <2>3. Whole(q, c)
    <3>1. c <= Len(q)
      BY <1>5, <1>6
    <3> QED
      BY <1>4, <3>1 DEF ParsedTo, ReadTo
  <2>4. r = ParseStatement(ts, c)
    BY <1>1, <1>3
  <2>5. StoppedBy(ts, q, r.error)
    BY <1>4, <1>6, <1>10, <2>3, <2>4, ParseStops
  <2>6. Stopped'
    BY <1>4, <1>8, <2>2, <2>5 DEF Stopped
  <2>7. phase' \in Ending
    BY <2>2 DEF Ending
  <2> QED
    BY <2>6, <2>7 DEF ReadInv, Ending
<1> QED
  BY <1>9, <1>10

LEMMA ParsedRead == IInv /\ ReadInv /\ Parsed => ReadInv'
<1> SUFFICES ASSUME IInv, ReadInv, Parsed
             PROVE  ReadInv'
  OBVIOUS
<1>1. /\ phase = "parse" /\ Invalid = {} /\ cursor > Len(tokens) /\ phase' = "label" /\ cursor' = 1
      /\ UNCHANGED <<tokens, nodes, labels>>
  BY DEF Parsed, Goes
<1>2. Len(tokens) \in Nat /\ cursor \in 1..Len(tokens) + 1 /\ labels = EmptyMap
  BY <1>1, Lengths DEF IInv
<1>3. cursor = Len(tokens) + 1
  BY <1>1, <1>2
<1>4. ParsedTo(tokens, Types, nodes, Len(tokens) + 1)
  BY <1>1, <1>3 DEF ReadInv
<1>5. Types' = Types /\ Invalid' = {}
  BY <1>1 DEF Types, Invalid
<1>6. ParsedTo(tokens, Types, nodes, Len(tokens) + 1)'
  BY <1>1, <1>4, <1>5
<1>7. Entered(labels, nodes, cursor)'
  BY <1>1, <1>2 DEF Entered, EmptyMap
<1> QED
  BY <1>1, <1>5, <1>6, <1>7 DEF ReadInv, Ending

LEMMA LabelEntered ==
  ASSUME NEW ns, NEW n \in DOMAIN ns, DOMAIN ns \subseteq Int, NEW ls, Entered(ls, ns, n),
         NEW next, next = IF ns[n].label = <<>> THEN ls ELSE Put(ls, ns[n].label, n)
  PROVE  Entered(next, ns, n + 1)
<1>1. \A j \in DOMAIN ns : j < n => j < n + 1
  OBVIOUS
<1>2. n < n + 1
  OBVIOUS
<1>3. ASSUME NEW label \in DOMAIN next
      PROVE  label # <<>> /\ \E j \in DOMAIN ns : j < n + 1 /\ ns[j].label = label
  <2>1. CASE label \in DOMAIN ls
    BY <1>1, <2>1 DEF Entered
  <2>2. CASE label \notin DOMAIN ls
    <3>1. ns[n].label # <<>> /\ label = ns[n].label
      BY <1>3, <2>2 DEF Put
    <3> QED
      BY <1>2, <3>1
  <2> QED
    BY <2>1, <2>2
<1> QED
  BY <1>3 DEF Entered

LEMMA LabelStatementRead == IInv /\ ReadInv /\ LabelStatement => ReadInv'
<1> SUFFICES ASSUME IInv, ReadInv, LabelStatement
             PROVE  ReadInv'
  OBVIOUS
<1>1. phase = "label" /\ cursor <= Len(nodes) /\ UNCHANGED <<tokens, nodes>>
  BY DEF LabelStatement
<1>2. PICK ts, q, ns, n, ls : ts = tokens /\ q = Types /\ ns = nodes /\ n = cursor /\ ls = labels
  OBVIOUS
<1>3. /\ Invalid = {} /\ ParsedTo(ts, q, ns, Len(ts) + 1) /\ Entered(ls, ns, n)
  BY <1>1, <1>2 DEF ReadInv
<1>4. Readable(ts)
  BY <1>1, <1>2, <1>3, ParserReads
<1>5. n \in DOMAIN ns /\ DOMAIN ns \subseteq Int
  <2>1. NodesOK(nodes, phase # "parse" \/ cursor > Len(tokens)) /\ cursor \in 1..Len(nodes) + 1
    BY <1>1 DEF IInv
  <2>2. Len(nodes) \in Nat /\ DOMAIN nodes = 1..Len(nodes)
    BY <2>1 DEF NodesOK
  <2> QED
    BY <1>1, <1>2, <2>1, <2>2
<1>6. tokens' = ts /\ Types' = q /\ nodes' = ns /\ Invalid' = {}
  BY <1>1, <1>2, <1>3 DEF Types, Invalid
<1>7. CASE ns[n].label \in DOMAIN ls
  <2>1. error'.kind = "multiple_statements_with_same_label" /\ phase' = "failed"
    BY <1>2, <1>7 DEF LabelStatement, Throw
  <2>2. PICK j \in DOMAIN ns : j < n /\ ns[j].label = ns[n].label /\ ns[n].label # <<>>
    BY <1>3, <1>7 DEF Entered
  <2>3. j # n
    BY <1>5, <2>2
  <2>4. PICK g : BeginAt(ts, ns, Len(ts) + 1, g)
    BY <1>3 DEF ParsedTo
  <2>5. ns[j].label # <<>>
    BY <2>2
  <2>6. ~Distinct(ts)
    BY <1>4, <1>5, <2>2, <2>3, <2>4, <2>5, LabelsClash
  <2>7. Stopped'
    BY <1>4, <1>6, <2>1, <2>6 DEF Stopped
  <2> QED
    BY <2>1, <2>7 DEF ReadInv, Ending
<1>8. CASE ns[n].label \notin DOMAIN ls
  <2>1. PICK next : next = IF ns[n].label = <<>> THEN ls ELSE Put(ls, ns[n].label, n)
    OBVIOUS
  <2>2. labels' = next /\ cursor' = n + 1 /\ phase' = "label"
    BY <1>1, <1>2, <1>8, <2>1 DEF LabelStatement, Labelled
  <2>3. Entered(next, ns, n + 1)
    BY <1>3, <1>5, <2>1, LabelEntered
  <2>4. ParsedTo(tokens, Types, nodes, Len(tokens) + 1)'
    BY <1>3, <1>6
  <2>5. Entered(labels, nodes, cursor)'
    BY <1>6, <2>2, <2>3
  <2> QED
    BY <1>6, <2>2, <2>4, <2>5 DEF ReadInv, Ending
<1> QED
  BY <1>7, <1>8

LEMMA RunInterpreterRead == ReadInv /\ RunInterpreter => ReadInv'
<1> SUFFICES ASSUME ReadInv, RunInterpreter
             PROVE  ReadInv'
  OBVIOUS
<1>1. phase = "label" /\ phase' = "run" /\ UNCHANGED <<tokens, nodes>>
  BY DEF RunInterpreter, Goes
<1>2. Types' = Types /\ Invalid' = Invalid
  BY <1>1 DEF Types, Invalid
<1> QED
  BY <1>1, <1>2 DEF ReadInv, Ending

LEMMA NextRead == IInv /\ IInv' /\ ReadInv /\ [Next]_vars => ReadInv'
<1> SUFFICES ASSUME IInv, IInv', ReadInv, [Next]_vars
             PROVE  ReadInv'
  OBVIOUS
<1>1. CASE ParseArgument
  BY <1>1, ParseArgumentRead
<1>2. CASE CheckOptions
  BY <1>2, CheckOptionsRead
<1>3. CASE OpenFile
  BY <1>3, OpenFileRead
<1>4. CASE LexToken
  BY <1>4, LexTokenRead
<1>5. CASE RejectToken
  BY <1>5, RejectTokenRead
<1>6. CASE ParseNext
  BY <1>6, ParseNextRead
<1>7. CASE Parsed
  BY <1>7, ParsedRead
<1>8. CASE LabelStatement
  BY <1>8, LabelStatementRead
<1>9. CASE RunInterpreter
  BY <1>9, RunInterpreterRead
<1>10. CASE UNCHANGED vars
  BY <1>10 DEF vars, ReadInv, Stopped, Types, Invalid
<1> QED
  BY <1>1, <1>2, <1>3, <1>4, <1>5, <1>6, <1>7, <1>8, <1>9, <1>10 DEF Next

LEMMA ReadInvariance == Spec => [](IInv /\ ReadInv)
<1>1. Init => IInv /\ ReadInv
  BY InitInv, InitRead
<1>2. (IInv /\ ReadInv) /\ [Next]_vars => (IInv /\ ReadInv)'
  BY NextInv, NextRead
<1> QED
  BY <1>1, <1>2, PTL DEF Spec

----------------------------------------------------------------------------
(* The theorems about the parser *)

\* For any program text, of any length, and for any keywords: what main runs is
\* a program of the language whose labels differ and whose numbers fit int, and
\* nothing that is one is refused.
THEOREM RunsPrograms == Spec => []RunsThePrograms
<1>1. IInv /\ ReadInv => RunsThePrograms
  <2> SUFFICES ASSUME IInv, ReadInv, phase \in {"run", "failed", "aborted"}, tokens # <<>>
               PROVE  phase = "run" <=> IsProgram(Types) /\ Distinct(tokens) /\ TooLarge = {}
    BY DEF RunsThePrograms, Distinct, LabelNames
  <2>1. PICK ts, q, ns, ls : ts = tokens /\ q = Types /\ ns = nodes /\ ls = labels
    OBVIOUS
  <2>2. Typed(ts, q)
    BY <2>1 DEF Typed, Types
  <2>3. TooLarge = {i \in DOMAIN ts : ts[i].type = "NUMBER" /\ Overflows(ts, i)}
    BY <2>1 DEF TooLarge, Overflows
  <2>4. CASE phase = "run"
    <3>1. Invalid = {} /\ ParsedTo(ts, q, ns, Len(ts) + 1)
      BY <2>1, <2>4 DEF ReadInv
    <3>2. Readable(ts)
      BY <2>1, <2>4, <3>1, ParserReads
    <3>3. IsProgram(q) /\ \A i \in DOMAIN ts : ts[i].type = "NUMBER" => ~Overflows(ts, i)
      BY <2>2, <3>1, <3>2, ReadIsProgram
    <3>4. PICK g : BeginAt(ts, ns, Len(ts) + 1, g)
      BY <3>1 DEF ParsedTo
    <3>5. LabelsOK(ls, ns, Len(ns) + 1) /\ \E S : ns \in Seq(S)
      BY <2>1, <2>4 DEF IInv, NodesOK
    <3>6. PICK S : ns \in Seq(S)
      BY <3>5
    <3>7. Distinct(ts)
      BY <3>2, <3>4, <3>5, <3>6, LabelsDistinct
    <3> QED
      BY <2>1, <2>3, <2>4, <3>3, <3>7
  <2>5. CASE phase # "run"
    <3>1. phase \in Ending /\ Stopped
      BY <2>5 DEF ReadInv, Ending
    <3>2. CASE Invalid # {}
      <4>1. ASSUME IsProgram(q)
            PROVE  FALSE
        <5>1. PICK i \in DOMAIN ts : ts[i].type = "INVALID"
          BY <2>1, <3>2 DEF Invalid
        <5>2. i = Len(ts) /\ \E T : ts \in Seq(T)
          BY <2>1, <5>1 DEF IInv, TokensOK
        <5>3. PICK T : ts \in Seq(T)
          BY <5>2
        <5>4. PICK S : q \in Seq(S)
          BY <2>2, <5>3, TypedSeq
        <5>5. Len(q) = Len(ts) /\ \A j \in 1..Len(q) : q[j] = ts[j].type
          BY <2>2, <5>3, TypedIs
        <5>6. q[Len(q)] = "END" /\ Len(q) \in Nat \ {0}
          BY <4>1, <5>4, ProgramEnds
        <5> QED
          BY <5>1, <5>2, <5>5, <5>6
      <4> QED
        BY <2>1, <2>5, <4>1
    <3>3. CASE Readable(tokens) /\ StoppedBy(tokens, Types, error)
      <4>1. PICK e : e = error
        OBVIOUS
      <4>2. Readable(ts) /\ StoppedBy(ts, q, e)
        BY <2>1, <3>3, <4>1
      <4>3. ~IsProgram(q) \/ \E i \in DOMAIN ts : ts[i].type = "NUMBER" /\ Overflows(ts, i)
        BY <2>2, <4>2, StoppedIsNoProgram
      <4> QED
        BY <2>1, <2>3, <2>5, <4>3
    <3>4. CASE ~Distinct(tokens)
      BY <2>5, <3>4
    <3> QED
      BY <3>1, <3>2, <3>3, <3>4 DEF Stopped
  <2> QED
    BY <2>4, <2>5
<1> QED
  BY <1>1, ReadInvariance, PTL

\* For any program text: the token an unexpected_token exception names is the
\* first that no program goes on with, and each type it says was expected is
\* one that a program could have had in its place.
THEOREM FirstBadToken == Spec => []RejectsAtFirstBadToken
<1>1. IInv /\ ReadInv => RejectsAtFirstBadToken
  <2> SUFFICES ASSUME IInv, ReadInv, error.kind = "unexpected_token"
               PROVE  LET before == SubSeq(Types, 1, error.at - 1)
                      IN  /\ IsProgramPrefix(before)
                          /\ ~IsProgramPrefix(Append(before, Types[error.at]))
                          /\ \A type \in error.expected : IsProgramPrefix(Append(before, type))
    BY DEF RejectsAtFirstBadToken
  <2>1. Stopped
    <3>1. error # None
      <4>1. error.kind # None.kind
        BY DEF None
      <4> QED
        BY <4>1
    <3> QED
      BY <3>1 DEF IInv, ReadInv
  <2>2. PICK ts, q, e : ts = tokens /\ q = Types /\ e = error
    OBVIOUS
  <2>3. Readable(ts) /\ StoppedBy(ts, q, e) /\ Typed(ts, q)
    BY <2>1, <2>2 DEF Stopped, Typed, Types
  <2>4. e # OutOfRange("stoi")
    <3>1. OutOfRange("stoi").kind # e.kind
      BY <2>2 DEF OutOfRange
    <3> QED
      BY <3>1
  <2>5. PICK c \in 1..Len(q) : /\ Whole(q, c)
                               /\ \E x \in c..Len(q) : \E types :
                                    /\ e = [kind |-> "unexpected_token", at |-> x, expected |-> types]
                                    /\ Rejected(q, c, x, types)
    BY <2>3, <2>4 DEF StoppedBy
  <2>6. PICK x \in c..Len(q) : \E types :
               /\ e = [kind |-> "unexpected_token", at |-> x, expected |-> types]
               /\ Rejected(q, c, x, types)
    BY <2>5
  <2>7. PICK types : /\ e = [kind |-> "unexpected_token", at |-> x, expected |-> types]
                     /\ Rejected(q, c, x, types)
    BY <2>6
  <2>8. e.at = x /\ e.expected = types
    BY <2>7
  <2>9. PICK S : q \in Seq(S)
    BY <2>3, ReadableSeq
  <2>10. PICK before : before = SubSeq(q, 1, x - 1)
    OBVIOUS
  <2>11. /\ IsProgramPrefix(before)
         /\ ~IsProgramPrefix(Append(before, q[x]))
         /\ \A type \in types : IsProgramPrefix(Append(before, type))
    BY <2>5, <2>7, <2>9, <2>10, RejectsFirst
  <2> QED
    BY <2>2, <2>8, <2>10, <2>11
<1> QED
  BY <1>1, ReadInvariance, PTL

\* For any input, the only exception main does not catch is that of a number
\* that int cannot hold, where a program could have a number.
THEOREM OnlyNumbersAbort == Spec => []AbortsOnNumbersOnly
<1>1. IInv /\ ReadInv => AbortsOnNumbersOnly
  <2> SUFFICES ASSUME IInv, ReadInv, phase = "aborted"
               PROVE  \E i \in TooLarge : Invalid = {} /\ IsProgramPrefix(SubSeq(Types, 1, i))
    BY DEF AbortsOnNumbersOnly
  <2>1. Stopped /\ error.kind = "out_of_range"
    BY DEF ReadInv, Ending, Stopped
  <2>2. PICK ts, q, e : ts = tokens /\ q = Types /\ e = error
    OBVIOUS
  <2>3. Invalid = {} /\ Readable(ts) /\ StoppedBy(ts, q, e) /\ Typed(ts, q) /\ e.kind = "out_of_range"
    BY <2>1, <2>2 DEF Stopped, Typed, Types
  <2>4. \A x, types : e # [kind |-> "unexpected_token", at |-> x, expected |-> types]
    BY <2>3
  <2>5. PICK c \in 1..Len(q) : /\ Whole(q, c)
                               /\ \E f \in Forms : /\ f.head = "NUMBER" /\ Fits(q, c, f, Size(f))
                                                   /\ Overflows(ts, c + Size(f) - 1)
    BY <2>3, <2>4 DEF StoppedBy
  <2>6. PICK i \in DOMAIN ts : /\ ts[i].type = "NUMBER" /\ Overflows(ts, i)
                               /\ IsProgramPrefix(SubSeq(q, 1, i))
    BY <2>3, <2>5, StoppedAtNumber
  <2>7. i \in TooLarge
    BY <2>2, <2>6 DEF TooLarge, Overflows
  <2> QED
    BY <2>2, <2>3, <2>6, <2>7
<1> QED
  BY <1>1, ReadInvariance, PTL

----------------------------------------------------------------------------
(* What is printed *)

\* A token whose type tells its lexeme has that lexeme; a name has a character.
Spelt(token) ==
  /\ token.type \in StatementKeyword => token.lexeme = Keyword[token.type]
  /\ token.type = "MEMORY_ORDER" => \E k \in OrderKeyword : Keyword[k] = token.lexeme
  /\ token.type \in Operator => token.lexeme = <<ToBinopType(token.type)>>
  /\ token.type = "EQ" => token.lexeme = <<"=">>
  /\ token.type = "SEMICOLON" => token.lexeme = <<":">>

LEMMA TypeNames ==
  /\ \A type \in StatementKeyword \cup Operator \cup {"EQ", "SEMICOLON", "MEMORY_ORDER", "IDENTIFIER"} :
       type \notin {"END", "NUMBER", "LOCATION", "INVALID"}
  /\ StatementKeyword \cap (Operator \cup {"EQ", "SEMICOLON", "MEMORY_ORDER"}) = {}
  /\ Operator \cap {"EQ", "SEMICOLON", "MEMORY_ORDER"} = {}
BY DEF StatementKeyword, Operator

LEMMA PlainSpelt ==
  ASSUME NEW token, token.type \in {"END", "NUMBER", "LOCATION", "INVALID", "IDENTIFIER"}
  PROVE  Spelt(token)
<1>1. /\ token.type \notin StatementKeyword /\ token.type \notin Operator
      /\ token.type # "MEMORY_ORDER" /\ token.type # "EQ" /\ token.type # "SEMICOLON"
  BY DEF StatementKeyword, Operator
<1> QED
  BY <1>1 DEF Spelt

LEMMA WordSpelt ==
  ASSUME NEW run, NEW token, token.lexeme = run, token.type = KeywordType(run)
  PROVE  Spelt(token)
<1>1. CASE \E k \in StatementKeyword : Keyword[k] = run
  <2>1. token.type \in StatementKeyword /\ Keyword[token.type] = run
    <3>1. StatementKeyword \cap OrderKeyword = {}
      BY DEF StatementKeyword, OrderKeyword
    <3>2. \A k \in StatementKeyword, other \in OrderKeyword : Keyword[k] # Keyword[other]
      BY <3>1, KeywordAssumption
    <3>3. ~\E k \in OrderKeyword : Keyword[k] = run
      BY <1>1, <3>2
    <3>4. KeywordType(run) = CHOOSE k \in StatementKeyword : Keyword[k] = run
      BY <1>1, <3>3 DEF KeywordType
    <3> QED
      BY <1>1, <3>4
  <2>2. token.type \notin Operator \cup {"MEMORY_ORDER", "EQ", "SEMICOLON"}
    BY <2>1, TypeNames
  <2> QED
    BY <2>1, <2>2 DEF Spelt
<1>2. CASE /\ ~\E k \in StatementKeyword : Keyword[k] = run
           /\ \E k \in OrderKeyword : Keyword[k] = run
  <2>1. token.type = "MEMORY_ORDER"
    BY <1>2 DEF KeywordType
  <2>2. token.type \notin StatementKeyword \cup Operator \cup {"EQ", "SEMICOLON"}
    BY <2>1, TypeNames
  <2> QED
    BY <1>2, <2>1, <2>2 DEF Spelt
<1>3. CASE /\ ~\E k \in StatementKeyword : Keyword[k] = run
           /\ ~\E k \in OrderKeyword : Keyword[k] = run
  <2>1. token.type = "IDENTIFIER"
    BY <1>3 DEF KeywordType
  <2> QED
    BY <2>1, PlainSpelt
<1> QED
  BY <1>1, <1>2, <1>3

LEMMA AtomSpelt ==
  ASSUME NEW c \in DOMAIN Atom, NEW token, token.type = Atom[c], token.lexeme = <<c>>
  PROVE  Spelt(token)
<1>1. c \in {"=", "+", "-", "*", "/", ":"}
  BY DEF Atom
<1>2. /\ token.type \in {"EQ", "SEMICOLON", "PLUS", "MINUS", "MULT", "DIV"}
      /\ token.type = "EQ" => c = "="
      /\ token.type = "SEMICOLON" => c = ":"
      /\ token.type \in Operator => ToBinopType(token.type) = c
  BY <1>1 DEF Atom, ToBinopType, Operator
<1>3. token.type \notin StatementKeyword /\ token.type # "MEMORY_ORDER"
  BY <1>2 DEF StatementKeyword
<1> QED
  BY <1>2, <1>3 DEF Spelt

LEMMA NextTokenSpelt ==
  ASSUME NEW t, NEW from
  PROVE  Spelt(NextToken(t, from).token)
<1> DEFINE p == SkipBlank(t, from)
           c == Peek(t, p)
<1>1. NextToken(t, from) =
        CASE c = NUL -> [token |-> Token("END", <<>>, p), pos |-> p]
          [] c \in Digit -> Word("NUMBER", Run(t, p, Digit), p)
          [] c \in IdentifierChar \ Digit -> KeywordOrIdentifier(t, p)
          [] c \in DOMAIN Atom -> AtomToken(Atom[c], t, p)
          [] c = "#" -> LocationToken(t, Advance(c, p))
          [] OTHER -> AtomToken("INVALID", t, p)
  BY DEF NextToken
<1>2. PICK token : token = NextToken(t, from).token
  OBVIOUS
<1> HIDE DEF p
<1>3. CASE c = NUL
  <2>1. token.type = "END"
    BY <1>1, <1>2, <1>3, Characters DEF Token
  <2> QED
    BY <1>2, <2>1, PlainSpelt
<1>4. CASE c \in Digit
  <2>1. token.type = "NUMBER"
    BY <1>1, <1>2, <1>4, Characters DEF Word, Token
  <2> QED
    BY <1>2, <2>1, PlainSpelt
<1>5. CASE c \in IdentifierChar \ Digit
  <2>1. PICK run : run = Run(t, p, IdentifierChar)
    OBVIOUS
  <2>2. NextToken(t, from) = Word(KeywordType(run), run, p)
    BY <1>1, <1>5, <2>1, Characters DEF KeywordOrIdentifier
  <2>3. token.lexeme = run /\ token.type = KeywordType(run)
    BY <1>2, <2>2 DEF Word, Token
  <2> QED
    BY <1>2, <2>3, WordSpelt
<1>6. CASE c \in DOMAIN Atom
  <2>1. NextToken(t, from) = AtomToken(Atom[c], t, p)
    BY <1>1, <1>6, Characters
  <2>2. token.type = Atom[c] /\ token.lexeme = <<c>>
    BY <1>2, <2>1 DEF AtomToken, Token
  <2> QED
    BY <1>2, <1>6, <2>2, AtomSpelt
<1>7. CASE c = "#"
  <2>1. PICK q : q = Advance(c, p)
    OBVIOUS
  <2>2. NextToken(t, from) = LocationToken(t, q)
    BY <1>1, <1>7, <2>1, Characters
  <2>3. token.type \in {"LOCATION", "INVALID"}
    BY <1>2, <2>2 DEF LocationToken, Word, AtomToken, Token
  <2> QED
    BY <1>2, <2>3, PlainSpelt
<1>8. CASE c # NUL /\ c \notin IdentifierChar /\ c \notin DOMAIN Atom /\ c # "#"
  <2>1. NextToken(t, from) = AtomToken("INVALID", t, p)
    BY <1>1, <1>8, Characters
  <2>2. token.type = "INVALID"
    BY <1>2, <2>1 DEF AtomToken, Token
  <2> QED
    BY <1>2, <2>2, PlainSpelt
<1> QED
  BY <1>3, <1>4, <1>5, <1>6, <1>7, <1>8, Characters

\* A token as it is printed, a number by its value.
WordOf(token) == IF token.type = "END" THEN <<"e", "n", "d">> ELSE Written(token)

LEMMA WordOfIs ==
  ASSUME NEW token, Spelt(token)
  PROVE  /\ token.type \in StatementKeyword => WordOf(token) = Keyword[token.type]
         /\ token.type \in Order => WordOf(token) = Keyword[ToMemoryOrder(token.lexeme)]
         /\ token.type \in Operator => WordOf(token) = <<ToBinopType(token.type)>>
         /\ token.type \in Name => WordOf(token) = token.lexeme
         /\ token.type \in Location => WordOf(token) = <<"#">> \o token.lexeme
         /\ token.type = "NUMBER" => WordOf(token) = ValueOf(token.lexeme)
         /\ token.type = "EQ" => WordOf(token) = <<"=">>
         /\ token.type = "SEMICOLON" => WordOf(token) = <<":">>
         /\ token.type = "END" => WordOf(token) = <<"e", "n", "d">>
<1>1. token.type \notin {"END", "NUMBER", "LOCATION"} => WordOf(token) = token.lexeme
  BY DEF WordOf, Written
<1>2. /\ token.type \in Location => WordOf(token) = <<"#">> \o token.lexeme
      /\ token.type = "NUMBER" => WordOf(token) = ValueOf(token.lexeme)
      /\ token.type = "END" => WordOf(token) = <<"e", "n", "d">>
  BY DEF WordOf, Written, Location
<1>3. ASSUME token.type \in Order
      PROVE  Keyword[ToMemoryOrder(token.lexeme)] = token.lexeme
  BY <1>3 DEF Spelt, Order, ToMemoryOrder
<1>4. token.type \in StatementKeyword \cup Operator \cup Order \cup Name \cup {"EQ", "SEMICOLON"}
        => token.type \notin {"END", "NUMBER", "LOCATION"}
  BY TypeNames DEF Order, Name
<1> QED
  BY <1>1, <1>2, <1>3, <1>4 DEF Spelt

----------------------------------------------------------------------------
(* Sequences of words *)

\* s is the tokens from "at" up to "to", to excluded, as they are printed.
Printed(ts, at, to, s) ==
  /\ at \in Nat /\ to \in Nat /\ at <= to
  /\ s = [i \in 1..to - at |-> WordOf(ts[at + i - 1])]

\* A sequence of n elements, whatever they are.
IsList(n, s) == s = [i \in 1..n |-> s[i]]

LEMMA FunctionIsSeq ==
  ASSUME NEW S, NEW n \in Nat, NEW s \in [1..n -> S]
  PROVE  s \in Seq(S) /\ Len(s) = n
OBVIOUS

LEMMA ListIs ==
  ASSUME NEW n \in Nat, NEW s, IsList(n, s), NEW S, \A i \in 1..n : s[i] \in S
  PROVE  s \in Seq(S) /\ Len(s) = n
<1>1. s \in [1..n -> S]
  BY DEF IsList
<1> QED
  BY <1>1, FunctionIsSeq

\* s is u and then v.
Joins(m, u, n, v, s) ==
  /\ IsList(m + n, s)
  /\ \A i \in 1..m : s[i] = u[i]
  /\ \A i \in 1..n : s[m + i] = v[i]

\* s is m elements u and then n elements v, all of S.
Follows(S, m, u, n, v, s) ==
  /\ s \in Seq(S) /\ Len(s) = m + n
  /\ \A i \in 1..m : s[i] = u[i]
  /\ \A i \in 1..n : s[m + i] = v[i]

LEMMA ConcatIs ==
  ASSUME NEW S, NEW u \in Seq(S), NEW v \in Seq(S), NEW m \in Nat, NEW n \in Nat, m = Len(u), n = Len(v)
  PROVE  Follows(S, m, u, n, v, u \o v)
<1>1. u \o v \in Seq(S) /\ Len(u \o v) = m + n
  OBVIOUS
<1>2. ASSUME NEW i \in 1..m PROVE (u \o v)[i] = u[i]
  OBVIOUS
<1>3. ASSUME NEW i \in 1..n PROVE (u \o v)[m + i] = v[i]
  <2>1. m + i \in 1..m + n /\ ~(m + i <= m) /\ (m + i) - m = i
    OBVIOUS
  <2> QED
    BY <2>1
<1> QED
  BY <1>1, <1>2, <1>3 DEF Follows

LEMMA ListsJoined ==
  ASSUME NEW m \in Nat, NEW u, IsList(m, u), NEW n \in Nat, NEW v, IsList(n, v)
  PROVE  Joins(m, u, n, v, u \o v)
<1>0. PICK s : s = u \o v
  OBVIOUS
<1>1. PICK S : S = {u[i] : i \in 1..m} \cup {v[i] : i \in 1..n}
  OBVIOUS
<1>2. u \in Seq(S) /\ Len(u) = m
  <2>1. \A i \in 1..m : u[i] \in S
    BY <1>1
  <2> QED
    BY <2>1, ListIs
<1>3. v \in Seq(S) /\ Len(v) = n
  <2>1. \A i \in 1..n : v[i] \in S
    BY <1>1
  <2> QED
    BY <2>1, ListIs
<1>4. /\ s \in Seq(S) /\ Len(s) = m + n
      /\ \A i \in 1..m : s[i] = u[i]
      /\ \A i \in 1..n : s[m + i] = v[i]
  <2>1. Follows(S, m, u, n, v, u \o v)
    BY <1>2, <1>3, ConcatIs
  <2>2. Follows(S, m, u, n, v, s)
    BY <1>0, <2>1
  <2> QED
    BY <2>2 DEF Follows
<1>5. s = [i \in 1..m + n |-> s[i]]
  BY <1>4
<1> QED
  BY <1>0, <1>4, <1>5 DEF Joins, IsList

\* What is printed one behind the other.
LEMMA PrintedOn ==
  ASSUME NEW ts, NEW at, NEW mid, NEW to, NEW u, NEW v,
         Printed(ts, at, mid, u), Printed(ts, mid, to, v)
  PROVE  Printed(ts, at, to, u \o v)
<1>1. PICK m \in Nat : m = mid - at
  BY DEF Printed
<1>2. PICK n \in Nat : n = to - mid
  BY DEF Printed
<1>3. at \in Nat /\ mid = at + m /\ to = mid + n /\ to - at = m + n
  BY <1>1, <1>2 DEF Printed
<1>4. u = [i \in 1..m |-> WordOf(ts[at + i - 1])] /\ v = [i \in 1..n |-> WordOf(ts[mid + i - 1])]
  BY <1>1, <1>2 DEF Printed
<1>5. IsList(m, u) /\ \A i \in 1..m : u[i] = WordOf(ts[at + i - 1])
  BY <1>4 DEF IsList
<1>6. IsList(n, v) /\ \A i \in 1..n : v[i] = WordOf(ts[mid + i - 1])
  BY <1>4 DEF IsList
<1>7. PICK s : s = u \o v
  OBVIOUS
<1>8. /\ s = [i \in 1..m + n |-> s[i]]
      /\ \A i \in 1..m : s[i] = u[i]
      /\ \A i \in 1..n : s[m + i] = v[i]
  <2>1. Joins(m, u, n, v, u \o v)
    BY <1>5, <1>6, ListsJoined
  <2>2. Joins(m, u, n, v, s)
    BY <1>7, <2>1
  <2> QED
    BY <2>2 DEF Joins, IsList
<1>9. ASSUME NEW i \in 1..m + n
      PROVE  s[i] = WordOf(ts[at + i - 1])
  <2>1. CASE i \in 1..m
    BY <1>5, <1>8, <2>1
  <2>2. CASE i \notin 1..m
    <3>1. PICK j \in 1..n : i = m + j
      <4>1. i - m \in 1..n /\ i = m + (i - m)
        BY <2>2
      <4> QED
        BY <4>1
    <3>2. mid + j - 1 = at + i - 1
      BY <1>3, <3>1
    <3>3. s[i] = v[j] /\ v[j] = WordOf(ts[mid + j - 1])
      BY <1>6, <1>8, <3>1
    <3> QED
      BY <3>2, <3>3
  <2> QED
    BY <2>1, <2>2
<1>10. s = [i \in 1..m + n |-> WordOf(ts[at + i - 1])]
  BY <1>8, <1>9
<1>11. to \in Nat /\ at <= to
  BY <1>3
<1> QED
  BY <1>3, <1>7, <1>10, <1>11 DEF Printed

\* Lists of one, two, three words, from the tokens at c.
LEMMA PrintedOne ==
  ASSUME NEW ts, NEW c \in Nat
  PROVE  Printed(ts, c, c + 1, <<WordOf(ts[c])>>)
<1>1. PICK a : a = WordOf(ts[c])
  OBVIOUS
<1>2. PICK n \in Nat : n = 1
  OBVIOUS
<1>3. PICK s : s = <<a>>
  OBVIOUS
<1>4. s = [i \in 1..n |-> s[i]] /\ s[1] = a
  BY <1>2, <1>3
<1>5. ASSUME NEW i \in 1..n
      PROVE  s[i] = WordOf(ts[c + i - 1])
  <2>1. i = 1 /\ c + i - 1 = c
    BY <1>2
  <2> QED
    BY <1>1, <1>4, <2>1
<1>6. s = [i \in 1..n |-> WordOf(ts[c + i - 1])]
  BY <1>4, <1>5
<1>7. (c + 1) - c = n /\ c + 1 \in Nat /\ c <= c + 1
  BY <1>2
<1>8. Printed(ts, c, c + 1, s)
  BY <1>6, <1>7 DEF Printed
<1> QED
  BY <1>1, <1>3, <1>8

LEMMA PrintedTwo ==
  ASSUME NEW ts, NEW c \in Nat
  PROVE  Printed(ts, c, c + 2, <<WordOf(ts[c]), WordOf(ts[c + 1])>>)
<1>1. PICK a, b : a = WordOf(ts[c]) /\ b = WordOf(ts[c + 1])
  OBVIOUS
<1>2. PICK n \in Nat : n = 2
  OBVIOUS
<1>3. PICK s : s = <<a, b>>
  OBVIOUS
<1>4. s = [i \in 1..n |-> s[i]] /\ s[1] = a /\ s[2] = b
  BY <1>2, <1>3
<1>5. ASSUME NEW i \in 1..n
      PROVE  s[i] = WordOf(ts[c + i - 1])
  <2>1. (i = 1 /\ c + i - 1 = c) \/ (i = 2 /\ c + i - 1 = c + 1)
    BY <1>2
  <2> QED
    BY <1>1, <1>4, <2>1
<1>6. s = [i \in 1..n |-> WordOf(ts[c + i - 1])]
  BY <1>4, <1>5
<1>7. (c + 2) - c = n /\ c + 2 \in Nat /\ c <= c + 2
  BY <1>2
<1>8. Printed(ts, c, c + 2, s)
  BY <1>6, <1>7 DEF Printed
<1> QED
  BY <1>1, <1>3, <1>8

LEMMA PrintedThree ==
  ASSUME NEW ts, NEW c \in Nat
  PROVE  Printed(ts, c, c + 3, <<WordOf(ts[c]), WordOf(ts[c + 1]), WordOf(ts[c + 2])>>)
<1>1. PICK a, b, x : a = WordOf(ts[c]) /\ b = WordOf(ts[c + 1]) /\ x = WordOf(ts[c + 2])
  OBVIOUS
<1>2. PICK n \in Nat : n = 3
  OBVIOUS
<1>3. PICK s : s = <<a, b, x>>
  OBVIOUS
<1>4. s = [i \in 1..n |-> s[i]] /\ s[1] = a /\ s[2] = b /\ s[3] = x
  BY <1>2, <1>3
<1>5. ASSUME NEW i \in 1..n
      PROVE  s[i] = WordOf(ts[c + i - 1])
  <2>1. (i = 1 /\ c + i - 1 = c) \/ (i = 2 /\ c + i - 1 = c + 1) \/ (i = 3 /\ c + i - 1 = c + 2)
    BY <1>2
  <2> QED
    BY <1>1, <1>4, <2>1
<1>6. s = [i \in 1..n |-> WordOf(ts[c + i - 1])]
  BY <1>4, <1>5
<1>7. (c + 3) - c = n /\ c + 3 \in Nat /\ c <= c + 3
  BY <1>2
<1>8. Printed(ts, c, c + 3, s)
  BY <1>6, <1>7 DEF Printed
<1> QED
  BY <1>1, <1>3, <1>8

LEMMA PrintedFour ==
  ASSUME NEW ts, NEW c \in Nat
  PROVE  Printed(ts, c, c + 4,
                 <<WordOf(ts[c]), WordOf(ts[c + 1]), WordOf(ts[c + 2]), WordOf(ts[c + 3])>>)
<1>1. PICK a, b, x, y : /\ a = WordOf(ts[c]) /\ b = WordOf(ts[c + 1])
                       /\ x = WordOf(ts[c + 2]) /\ y = WordOf(ts[c + 3])
  OBVIOUS
<1>2. PICK n \in Nat : n = 4
  OBVIOUS
<1>3. PICK s : s = <<a, b, x, y>>
  OBVIOUS
<1>4. s = [i \in 1..n |-> s[i]] /\ s[1] = a /\ s[2] = b /\ s[3] = x /\ s[4] = y
  BY <1>2, <1>3
<1>5. ASSUME NEW i \in 1..n
      PROVE  s[i] = WordOf(ts[c + i - 1])
  <2>1. \/ i = 1 /\ c + i - 1 = c
        \/ i = 2 /\ c + i - 1 = c + 1
        \/ i = 3 /\ c + i - 1 = c + 2
        \/ i = 4 /\ c + i - 1 = c + 3
    BY <1>2
  <2> QED
    BY <1>1, <1>4, <2>1
<1>6. s = [i \in 1..n |-> WordOf(ts[c + i - 1])]
  BY <1>4, <1>5
<1>7. (c + 4) - c = n /\ c + 4 \in Nat /\ c <= c + 4
  BY <1>2
<1>8. Printed(ts, c, c + 4, s)
  BY <1>6, <1>7 DEF Printed
<1> QED
  BY <1>1, <1>3, <1>8

----------------------------------------------------------------------------
(* What the parser reads is what its node prints *)

\* The tokens of a parse_ function: spelt as the lexer made them.
AllSpelt(ts) == \A i \in DOMAIN ts : Spelt(ts[i])

\* The n tokens at "at" have been read, each of a type that shape expects.
ReadAs(ts, at, shape, n, p) ==
  /\ p.at = at + n
  /\ \A i \in 1..n : /\ p.read[i] = ts[at + i - 1] /\ Spelt(ts[at + i - 1])
                     /\ ts[at + i - 1].type \in shape[i]

LEMMA ShapeReads ==
  ASSUME NEW S, NEW ts \in Seq(S), AllSpelt(ts), NEW at \in 1..Len(ts) + 1,
         NEW shape, NEW n \in Nat, DOMAIN shape = 1..n, \A i \in 1..n : "NONE" \notin shape[i],
         NEW p, p = TakeEach(ts, From(at), shape), p.error = None
  PROVE  ReadAs(ts, at, shape, n, p)
<1>1. Taken(ts, at, shape, n, p)
  BY TakeEachTaken
<1>2. /\ p.at = at + n /\ Matches(ts, at, shape, n)
      /\ \A i \in 1..n : p.read[i] = ts[at + i - 1]
  <2>1. \A j \in 1..n : Unexpected(ts, p.at, shape[j]) # None
    BY UnexpectedIsError
  <2> QED
    BY <1>1, <2>1 DEF Taken
<1>3. ASSUME NEW i \in 1..n
      PROVE  Spelt(ts[at + i - 1]) /\ ts[at + i - 1].type \in shape[i]
  <2>1. at + n <= Len(ts) + 1 /\ ts[at + i - 1].type \in shape[i]
    BY <1>2 DEF Matches
  <2>2. PICK c \in Nat : c = at + i - 1
    OBVIOUS
  <2>3. c \in 1..Len(ts)
    BY <2>1, <2>2
  <2> QED
    BY <2>1, <2>2, <2>3 DEF AllSpelt
<1> QED
  BY <1>2, <1>3 DEF ReadAs

\* The word w of a token with one of these types.
IsWord(types, token, w) ==
  /\ \A k \in StatementKeyword : types = {k} => w = Keyword[k]
  /\ types = Order    => w = Keyword[ToMemoryOrder(token.lexeme)]
  /\ types = Location => w = <<"#">> \o token.lexeme
  /\ types = Name     => w = token.lexeme
  /\ types = Operator => w = <<ToBinopType(token.type)>>
  /\ types = {"EQ"}   => w = <<"=">>
  /\ types = {"NUMBER"} => w = ValueOf(token.lexeme)

LEMMA TokenIsWord ==
  ASSUME NEW token, Spelt(token), NEW types, token.type \in types
  PROVE  IsWord(types, token, WordOf(token))
<1>1. PICK w : w = WordOf(token)
  OBVIOUS
<1>2. /\ token.type \in StatementKeyword => w = Keyword[token.type]
      /\ token.type \in Order => w = Keyword[ToMemoryOrder(token.lexeme)]
      /\ token.type \in Operator => w = <<ToBinopType(token.type)>>
      /\ token.type \in Name => w = token.lexeme
      /\ token.type \in Location => w = <<"#">> \o token.lexeme
      /\ token.type = "NUMBER" => w = ValueOf(token.lexeme)
      /\ token.type = "EQ" => w = <<"=">>
  BY <1>1, WordOfIs
<1> QED
  BY <1>1, <1>2 DEF IsWord

LEMMA WordRead ==
  ASSUME NEW ts, NEW at \in Nat, NEW shape, NEW n \in Nat, NEW p, ReadAs(ts, at, shape, n, p),
         NEW i \in 1..n, NEW c, c = at + i - 1
  PROVE  IsWord(shape[i], p.read[i], WordOf(ts[c]))
<1>1. PICK token : token = ts[c]
  OBVIOUS
<1>2. p.read[i] = token /\ Spelt(token) /\ token.type \in shape[i]
  BY <1>1 DEF ReadAs
<1> QED
  BY <1>1, <1>2, TokenIsWord

CallWords(keyword, order, loc) == <<Keyword[keyword], Keyword[order], <<"#">> \o loc>>

\* The tokens that all memory instructions begin with.
LEMMA CallRead ==
  ASSUME NEW ts, NEW at \in Nat, NEW shape, NEW n \in Nat, n >= 3, NEW p, ReadAs(ts, at, shape, n, p),
         NEW keyword \in StatementKeyword,
         shape[1] = {keyword}, shape[2] = Order, shape[3] = Location
  PROVE  Printed(ts, at, at + 3,
                 CallWords(keyword, ToMemoryOrder(p.read[2].lexeme), p.read[3].lexeme))
<1>1. 1 \in 1..n /\ 2 \in 1..n /\ 3 \in 1..n
  OBVIOUS
<1>2. at + 1 - 1 = at /\ at + 2 - 1 = at + 1 /\ at + 3 - 1 = at + 2
  OBVIOUS
<1>3. PICK order, loc : order = ToMemoryOrder(p.read[2].lexeme) /\ loc = p.read[3].lexeme
  OBVIOUS
<1>4. WordOf(ts[at]) = Keyword[keyword]
  <2>1. IsWord(shape[1], p.read[1], WordOf(ts[at]))
    BY <1>1, <1>2, WordRead
  <2> QED
    BY <2>1 DEF IsWord
<1>5. WordOf(ts[at + 1]) = Keyword[order]
  <2>1. IsWord(shape[2], p.read[2], WordOf(ts[at + 1]))
    BY <1>1, <1>2, WordRead
  <2> QED
    BY <1>3, <2>1 DEF IsWord
<1>6. WordOf(ts[at + 2]) = <<"#">> \o loc
  <2>1. IsWord(shape[3], p.read[3], WordOf(ts[at + 2]))
    BY <1>1, <1>2, WordRead
  <2> QED
    BY <1>3, <2>1 DEF IsWord
<1>7. Printed(ts, at, at + 3, <<WordOf(ts[at]), WordOf(ts[at + 1]), WordOf(ts[at + 2])>>)
  BY PrintedThree
<1>8. Printed(ts, at, at + 3, CallWords(keyword, order, loc))
  BY <1>4, <1>5, <1>6, <1>7 DEF CallWords
<1> QED
  BY <1>3, <1>8

\* Where a name is expected, the token's lexeme is printed.
NamesRead(ts, at, shape, n, p) ==
  \A i \in 1..n : \A c : c = at + i - 1 /\ shape[i] = Name => WordOf(ts[c]) = p.read[i].lexeme

LEMMA RegisterRead ==
  ASSUME NEW ts, NEW at \in Nat, NEW shape, NEW n \in Nat, NEW p, ReadAs(ts, at, shape, n, p)
  PROVE  NamesRead(ts, at, shape, n, p)
<1>1. ASSUME NEW i \in 1..n, NEW c, c = at + i - 1, shape[i] = Name
      PROVE  WordOf(ts[c]) = p.read[i].lexeme
  <2>1. IsWord(shape[i], p.read[i], WordOf(ts[c]))
    BY <1>1, WordRead
  <2> QED
    BY <1>1, <2>1 DEF IsWord
<1> QED
  BY <1>1 DEF NamesRead

\* A call with one register.
LEMMA OneRegister ==
  ASSUME NEW ts, NEW at \in Nat, NEW keyword \in StatementKeyword, NEW n \in Nat, n = 4,
         NEW shape, shape[1] = {keyword}, shape[2] = Order, shape[3] = Location, shape[4] = Name,
         NEW p, ReadAs(ts, at, shape, n, p)
  PROVE  Printed(ts, at, p.at,
                 CallWords(keyword, ToMemoryOrder(p.read[2].lexeme), p.read[3].lexeme)
                   \o <<p.read[4].lexeme>>)
<1>2. PICK words : words = CallWords(keyword, ToMemoryOrder(p.read[2].lexeme), p.read[3].lexeme)
  OBVIOUS
<1>3. Printed(ts, at, at + 3, words)
  BY <1>2, CallRead
<1>4. PICK c \in Nat : c = at + 3
  OBVIOUS
<1>5. WordOf(ts[c]) = p.read[4].lexeme
  <2>1. NamesRead(ts, at, shape, n, p)
    BY RegisterRead
  <2>2. PICK i \in 1..n : i = 4
    OBVIOUS
  <2>3. shape[i] = Name
    BY <2>2
  <2>4. c = at + i - 1
    BY <1>4, <2>2
  <2>5. WordOf(ts[c]) = p.read[i].lexeme
    BY <2>1, <2>3, <2>4 DEF NamesRead
  <2> QED
    BY <2>2, <2>5
<1>6. Printed(ts, c, c + 1, <<WordOf(ts[c])>>)
  BY PrintedOne
<1>7. PICK s : s = <<p.read[4].lexeme>>
  OBVIOUS
<1>8. Printed(ts, c, c + 1, s)
  BY <1>5, <1>4, <1>6, <1>7
<1>9. p.at = c + 1
  BY <1>4 DEF ReadAs
<1>10. Printed(ts, at, p.at, words \o s)
  BY <1>3, <1>4, <1>8, <1>9, PrintedOn
<1> QED
  BY <1>2, <1>7, <1>10

\* A call with two.
LEMMA TwoRegisters ==
  ASSUME NEW ts, NEW at \in Nat, NEW keyword \in StatementKeyword, NEW n \in Nat, n = 5,
         NEW shape, shape[1] = {keyword}, shape[2] = Order, shape[3] = Location,
         shape[4] = Name, shape[5] = Name, NEW p, ReadAs(ts, at, shape, n, p)
  PROVE  Printed(ts, at, p.at,
                 CallWords(keyword, ToMemoryOrder(p.read[2].lexeme), p.read[3].lexeme)
                   \o <<p.read[4].lexeme, p.read[5].lexeme>>)
<1>2. PICK words : words = CallWords(keyword, ToMemoryOrder(p.read[2].lexeme), p.read[3].lexeme)
  OBVIOUS
<1>3. Printed(ts, at, at + 3, words)
  BY <1>2, CallRead
<1>4. PICK c \in Nat : c = at + 3
  OBVIOUS
<1>5. WordOf(ts[c]) = p.read[4].lexeme /\ WordOf(ts[c + 1]) = p.read[5].lexeme
  <2>1. NamesRead(ts, at, shape, n, p)
    BY RegisterRead
  <2>2. PICK i \in 1..n, j \in 1..n : i = 4 /\ j = 5
    OBVIOUS
  <2>3. shape[i] = Name /\ shape[j] = Name
    BY <2>2
  <2>4. c = at + i - 1 /\ c + 1 = at + j - 1
    BY <1>4, <2>2
  <2>5. WordOf(ts[c]) = p.read[i].lexeme
    BY <2>1, <2>3, <2>4 DEF NamesRead
  <2>6. WordOf(ts[c + 1]) = p.read[j].lexeme
    BY <2>1, <2>3, <2>4 DEF NamesRead
  <2> QED
    BY <2>2, <2>5, <2>6
<1>6. Printed(ts, c, c + 2, <<WordOf(ts[c]), WordOf(ts[c + 1])>>)
  BY PrintedTwo
<1>7. PICK s : s = <<p.read[4].lexeme, p.read[5].lexeme>>
  OBVIOUS
<1>8. Printed(ts, c, c + 2, s)
  BY <1>5, <1>6, <1>7
<1>9. p.at = c + 2
  BY <1>4 DEF ReadAs
<1>10. Printed(ts, at, p.at, words \o s)
  BY <1>3, <1>4, <1>8, <1>9, PrintedOn
<1> QED
  BY <1>2, <1>7, <1>10

\* A parse_ function that was called at token "at" and has not thrown: what it
\* went over is what its node prints.
PrintsExpression(ts, at, r) == r.error = None => Printed(ts, at, r.at, ExpressionWords(r.node))

PrintsStatement(ts, at, r) == r.error = None => Printed(ts, at, r.at, StatementWords(r.node))

\* A node that was built from what p has read.
BuiltFrom(p, r, node) == r = [at |-> p.at, error |-> p.error, node |-> IF p.error = None THEN node ELSE End]

LEMMA BuiltPrints ==
  ASSUME NEW ts, NEW at, NEW p, NEW r, NEW node, BuiltFrom(p, r, node),
         p.error = None => Printed(ts, at, p.at, StatementWords(node))
  PROVE  PrintsStatement(ts, at, r)
<1>1. r.at = p.at /\ r.error = p.error /\ r.node = IF p.error = None THEN node ELSE End
  BY DEF BuiltFrom
<1> QED
  BY <1>1 DEF PrintsStatement

LEMMA BuiltExpressionPrints ==
  ASSUME NEW ts, NEW at, NEW p, NEW r, NEW node, BuiltFrom(p, r, node),
         p.error = None => Printed(ts, at, p.at, ExpressionWords(node))
  PROVE  PrintsExpression(ts, at, r)
<1>1. r.at = p.at /\ r.error = p.error /\ r.node = IF p.error = None THEN node ELSE End
  BY DEF BuiltFrom
<1> QED
  BY <1>1 DEF PrintsExpression

\* A call as a statement is what it is as an expression.
LEMMA CallPrints ==
  ASSUME NEW ts, NEW at, NEW r, PrintsExpression(ts, at, r),
         r.error = None => r.node.kind \in {"cas", "fai"}
  PROVE  PrintsStatement(ts, at, r)
<1>1. r.error = None => StatementWords(r.node) = ExpressionWords(r.node)
  BY DEF StatementWords
<1> QED
  BY <1>1 DEF PrintsExpression, PrintsStatement

LEMMA LoadPrints ==
  ASSUME NEW S, NEW ts \in Seq(S), AllSpelt(ts), NEW at \in 1..Len(ts) + 1
  PROVE  PrintsStatement(ts, at, ParseDoubleArgumentCall(ts, at, "LOAD", LoadTo))
<1>0. PICK n \in Nat : n = 4
  OBVIOUS
<1>1. PICK shape : shape = <<{"LOAD"}, Order, Location, Name>>
  OBVIOUS
<1>2. DOMAIN shape = 1..n /\ \A i \in 1..n : "NONE" \notin shape[i]
  BY <1>0, <1>1 DEF Order, Location, Name, Operator
<1>3. PICK p : p = TakeEach(ts, From(at), shape)
  OBVIOUS
<1>4. PICK node : node = LoadTo(ToMemoryOrder(p.read[2].lexeme), p.read[3].lexeme, p.read[4].lexeme)
  OBVIOUS
<1>5. PICK r : r = ParseDoubleArgumentCall(ts, at, "LOAD", LoadTo)
  OBVIOUS
<1>6. BuiltFrom(p, r, node)
  BY <1>1, <1>3, <1>4, <1>5 DEF ParseDoubleArgumentCall, ParseShape, Result, BuiltFrom
<1>7. p.error = None => ReadAs(ts, at, shape, n, p)
  BY <1>2, <1>3, ShapeReads
<1>8. at \in Nat
  OBVIOUS
<1>9. ASSUME p.error = None
      PROVE  Printed(ts, at, p.at, StatementWords(node))
  <2>1. PICK order, loc, registers :
          /\ order = ToMemoryOrder(p.read[2].lexeme) /\ loc = p.read[3].lexeme
          /\ registers = <<p.read[4].lexeme>>
    OBVIOUS
  <2>2. "LOAD" \in StatementKeyword
    BY DEF StatementKeyword
  <2>3. Printed(ts, at, p.at, CallWords("LOAD", order, loc) \o registers)
    <3>1. shape[1] = {"LOAD"} /\ shape[2] = Order /\ shape[3] = Location /\ shape[4] = Name
      BY <1>1
    <3>2. ReadAs(ts, at, shape, n, p)
      BY <1>7, <1>9
    <3> QED
      BY <1>0, <1>8, <2>1, <2>2, <3>1, <3>2, OneRegister
  <2>4. node.order = order /\ node.loc = loc /\ registers = <<node.reg>> /\ node.kind = "load"
    BY <1>4, <2>1 DEF LoadTo
  <2>5. StatementWords(node) = CallWords("LOAD", order, loc) \o registers
    BY <2>4 DEF StatementWords, Call, CallWords
  <2> QED
    BY <2>3, <2>5
<1> QED
  BY <1>5, <1>6, <1>9, BuiltPrints

LEMMA StorePrints ==
  ASSUME NEW S, NEW ts \in Seq(S), AllSpelt(ts), NEW at \in 1..Len(ts) + 1
  PROVE  PrintsStatement(ts, at, ParseDoubleArgumentCall(ts, at, "STORE", StoreFrom))
<1>0. PICK n \in Nat : n = 4
  OBVIOUS
<1>1. PICK shape : shape = <<{"STORE"}, Order, Location, Name>>
  OBVIOUS
<1>2. DOMAIN shape = 1..n /\ \A i \in 1..n : "NONE" \notin shape[i]
  BY <1>0, <1>1 DEF Order, Location, Name, Operator
<1>3. PICK p : p = TakeEach(ts, From(at), shape)
  OBVIOUS
<1>4. PICK node : node = StoreFrom(ToMemoryOrder(p.read[2].lexeme), p.read[3].lexeme, p.read[4].lexeme)
  OBVIOUS
<1>5. PICK r : r = ParseDoubleArgumentCall(ts, at, "STORE", StoreFrom)
  OBVIOUS
<1>6. BuiltFrom(p, r, node)
  BY <1>1, <1>3, <1>4, <1>5 DEF ParseDoubleArgumentCall, ParseShape, Result, BuiltFrom
<1>7. p.error = None => ReadAs(ts, at, shape, n, p)
  BY <1>2, <1>3, ShapeReads
<1>8. at \in Nat
  OBVIOUS
<1>9. ASSUME p.error = None
      PROVE  Printed(ts, at, p.at, StatementWords(node))
  <2>1. PICK order, loc, registers :
          /\ order = ToMemoryOrder(p.read[2].lexeme) /\ loc = p.read[3].lexeme
          /\ registers = <<p.read[4].lexeme>>
    OBVIOUS
  <2>2. "STORE" \in StatementKeyword
    BY DEF StatementKeyword
  <2>3. Printed(ts, at, p.at, CallWords("STORE", order, loc) \o registers)
    <3>1. shape[1] = {"STORE"} /\ shape[2] = Order /\ shape[3] = Location /\ shape[4] = Name
      BY <1>1
    <3>2. ReadAs(ts, at, shape, n, p)
      BY <1>7, <1>9
    <3> QED
      BY <1>0, <1>8, <2>1, <2>2, <3>1, <3>2, OneRegister
  <2>4. node.order = order /\ node.loc = loc /\ registers = <<node.reg>> /\ node.kind = "store"
    BY <1>4, <2>1 DEF StoreFrom
  <2>5. StatementWords(node) = CallWords("STORE", order, loc) \o registers
    BY <2>4 DEF StatementWords, Call, CallWords
  <2> QED
    BY <2>3, <2>5
<1> QED
  BY <1>5, <1>6, <1>9, BuiltPrints

LEMMA FaiPrints ==
  ASSUME NEW S, NEW ts \in Seq(S), AllSpelt(ts), NEW at \in 1..Len(ts) + 1
  PROVE  PrintsExpression(ts, at, ParseFai(ts, at))
<1>0. PICK n \in Nat : n = 4
  OBVIOUS
<1>1. PICK shape : shape = <<{"FAI"}, Order, Location, Name>>
  OBVIOUS
<1>2. DOMAIN shape = 1..n /\ \A i \in 1..n : "NONE" \notin shape[i]
  BY <1>0, <1>1 DEF Order, Location, Name, Operator
<1>3. PICK p : p = TakeEach(ts, From(at), shape)
  OBVIOUS
<1>4. PICK node : node = Fai(ToMemoryOrder(p.read[2].lexeme), p.read[3].lexeme, p.read[4].lexeme)
  OBVIOUS
<1>5. PICK r : r = ParseFai(ts, at)
  OBVIOUS
<1>6. BuiltFrom(p, r, node)
  BY <1>1, <1>3, <1>4, <1>5 DEF ParseFai, ParseDoubleArgumentCall, ParseShape, Result, BuiltFrom
<1>7. p.error = None => ReadAs(ts, at, shape, n, p)
  BY <1>2, <1>3, ShapeReads
<1>8. at \in Nat
  OBVIOUS
<1>9. ASSUME p.error = None
      PROVE  Printed(ts, at, p.at, ExpressionWords(node))
  <2>1. PICK order, loc, registers :
          /\ order = ToMemoryOrder(p.read[2].lexeme) /\ loc = p.read[3].lexeme
          /\ registers = <<p.read[4].lexeme>>
    OBVIOUS
  <2>2. "FAI" \in StatementKeyword
    BY DEF StatementKeyword
  <2>3. Printed(ts, at, p.at, CallWords("FAI", order, loc) \o registers)
    <3>1. shape[1] = {"FAI"} /\ shape[2] = Order /\ shape[3] = Location /\ shape[4] = Name
      BY <1>1
    <3>2. ReadAs(ts, at, shape, n, p)
      BY <1>7, <1>9
    <3> QED
      BY <1>0, <1>8, <2>1, <2>2, <3>1, <3>2, OneRegister
  <2>4. node.order = order /\ node.loc = loc /\ registers = <<node.reg>> /\ node.kind = "fai"
    BY <1>4, <2>1 DEF Fai
  <2>5. ExpressionWords(node) = CallWords("FAI", order, loc) \o registers
    BY <2>4 DEF ExpressionWords, Call, CallWords
  <2> QED
    BY <2>3, <2>5
<1> QED
  BY <1>5, <1>6, <1>9, BuiltExpressionPrints

LEMMA CasPrints ==
  ASSUME NEW S, NEW ts \in Seq(S), AllSpelt(ts), NEW at \in 1..Len(ts) + 1
  PROVE  PrintsExpression(ts, at, ParseCas(ts, at))
<1>0. PICK n \in Nat : n = 5
  OBVIOUS
<1>1. PICK shape : shape = <<{"CAS"}, Order, Location, Name, Name>>
  OBVIOUS
<1>2. DOMAIN shape = 1..n /\ \A i \in 1..n : "NONE" \notin shape[i]
  BY <1>0, <1>1 DEF Order, Location, Name, Operator
<1>3. PICK p : p = TakeEach(ts, From(at), shape)
  OBVIOUS
<1>4. PICK node : node = Cas(ToMemoryOrder(p.read[2].lexeme), p.read[3].lexeme,
                             p.read[4].lexeme, p.read[5].lexeme)
  OBVIOUS
<1>5. PICK r : r = ParseCas(ts, at)
  OBVIOUS
<1>6. BuiltFrom(p, r, node)
  BY <1>1, <1>3, <1>4, <1>5 DEF ParseCas, ParseShape, Result, BuiltFrom
<1>7. p.error = None => ReadAs(ts, at, shape, n, p)
  BY <1>2, <1>3, ShapeReads
<1>8. at \in Nat
  OBVIOUS
<1>9. ASSUME p.error = None
      PROVE  Printed(ts, at, p.at, ExpressionWords(node))
  <2>1. PICK order, loc, registers :
          /\ order = ToMemoryOrder(p.read[2].lexeme) /\ loc = p.read[3].lexeme
          /\ registers = <<p.read[4].lexeme, p.read[5].lexeme>>
    OBVIOUS
  <2>2. "CAS" \in StatementKeyword
    BY DEF StatementKeyword
  <2>3. Printed(ts, at, p.at, CallWords("CAS", order, loc) \o registers)
    <3>1. shape[1] = {"CAS"} /\ shape[2] = Order /\ shape[3] = Location /\ shape[4] = Name /\ shape[5] = Name
      BY <1>1
    <3>2. ReadAs(ts, at, shape, n, p)
      BY <1>7, <1>9
    <3> QED
      BY <1>0, <1>8, <2>1, <2>2, <3>1, <3>2, TwoRegisters
  <2>4. node.order = order /\ node.loc = loc /\ registers = <<node.expected, node.desired>>
        /\ node.kind = "cas"
    BY <1>4, <2>1 DEF Cas
  <2>5. ExpressionWords(node) = CallWords("CAS", order, loc) \o registers
    BY <2>4 DEF ExpressionWords, Call, CallWords
  <2> QED
    BY <2>3, <2>5
<1> QED
  BY <1>5, <1>6, <1>9, BuiltExpressionPrints

LEMMA FencePrints ==
  ASSUME NEW S, NEW ts \in Seq(S), AllSpelt(ts), NEW at \in 1..Len(ts) + 1
  PROVE  PrintsStatement(ts, at, ParseFence(ts, at))
<1>0. PICK n \in Nat : n = 2
  OBVIOUS
<1>1. PICK shape : shape = <<{"FENCE"}, Order>>
  OBVIOUS
<1>2. DOMAIN shape = 1..n /\ \A i \in 1..n : "NONE" \notin shape[i]
  BY <1>0, <1>1 DEF Order, Location, Name, Operator
<1>3. PICK p : p = TakeEach(ts, From(at), shape)
  OBVIOUS
<1>4. PICK node : node = FenceOf(ToMemoryOrder(p.read[2].lexeme))
  OBVIOUS
<1>5. PICK r : r = ParseFence(ts, at)
  OBVIOUS
<1>6. BuiltFrom(p, r, node)
  BY <1>1, <1>3, <1>4, <1>5 DEF ParseFence, ParseShape, Result, BuiltFrom
<1>7. p.error = None => ReadAs(ts, at, shape, n, p)
  BY <1>2, <1>3, ShapeReads
<1>8. at \in Nat
  OBVIOUS
<1>9. ASSUME p.error = None
      PROVE  Printed(ts, at, p.at, StatementWords(node))
  <2>1. ReadAs(ts, at, shape, n, p)
    BY <1>7, <1>9
  <2>2. WordOf(ts[at]) = Keyword["FENCE"]
    <3>1. 1 \in 1..n /\ at = at + 1 - 1 /\ shape[1] = {"FENCE"}
      BY <1>0, <1>1, <1>8
    <3>2. IsWord(shape[1], p.read[1], WordOf(ts[at]))
      BY <1>8, <2>1, <3>1, WordRead
    <3> QED
      BY <1>4, <3>1, <3>2 DEF IsWord, FenceOf, StatementKeyword
  <2>3. WordOf(ts[at + 1]) = Keyword[node.order]
    <3>1. 2 \in 1..n /\ at + 1 = at + 2 - 1 /\ shape[2] = Order
      BY <1>0, <1>1, <1>8
    <3>2. IsWord(shape[2], p.read[2], WordOf(ts[at + 1]))
      BY <1>8, <2>1, <3>1, WordRead
    <3> QED
      BY <1>4, <3>1, <3>2 DEF IsWord, FenceOf
  <2>4. p.at = at + 2
    BY <1>0, <2>1 DEF ReadAs
  <2>5. StatementWords(node) = <<Keyword["FENCE"], Keyword[node.order]>>
    BY <1>4 DEF StatementWords, FenceOf
  <2>6. Printed(ts, at, at + 2, <<WordOf(ts[at]), WordOf(ts[at + 1])>>)
    BY <1>8, PrintedTwo
  <2> QED
    BY <2>2, <2>3, <2>4, <2>5, <2>6
<1> QED
  BY <1>5, <1>6, <1>9, BuiltPrints

LEMMA GotoPrints ==
  ASSUME NEW S, NEW ts \in Seq(S), AllSpelt(ts), NEW at \in 1..Len(ts) + 1
  PROVE  PrintsStatement(ts, at, ParseGoto(ts, at))
<1>0. PICK n \in Nat : n = 2
  OBVIOUS
<1>1. PICK shape : shape = <<{"GOTO"}, Name>>
  OBVIOUS
<1>2. DOMAIN shape = 1..n /\ \A i \in 1..n : "NONE" \notin shape[i]
  BY <1>0, <1>1 DEF Order, Location, Name, Operator
<1>3. PICK p : p = TakeEach(ts, From(at), shape)
  OBVIOUS
<1>4. PICK node : node = Goto(p.read[2].lexeme)
  OBVIOUS
<1>5. PICK r : r = ParseGoto(ts, at)
  OBVIOUS
<1>6. BuiltFrom(p, r, node)
  BY <1>1, <1>3, <1>4, <1>5 DEF ParseGoto, ParseShape, Result, BuiltFrom
<1>7. p.error = None => ReadAs(ts, at, shape, n, p)
  BY <1>2, <1>3, ShapeReads
<1>8. at \in Nat
  OBVIOUS
<1>9. ASSUME p.error = None
      PROVE  Printed(ts, at, p.at, StatementWords(node))
  <2>1. ReadAs(ts, at, shape, n, p)
    BY <1>7, <1>9
  <2>2. WordOf(ts[at]) = Keyword["GOTO"]
    <3>1. 1 \in 1..n /\ at = at + 1 - 1 /\ shape[1] = {"GOTO"}
      BY <1>0, <1>1, <1>8
    <3>2. IsWord(shape[1], p.read[1], WordOf(ts[at]))
      BY <1>8, <2>1, <3>1, WordRead
    <3> QED
      BY <1>4, <3>1, <3>2 DEF IsWord, Goto, StatementKeyword
  <2>3. WordOf(ts[at + 1]) = node.label
    <3>1. 2 \in 1..n /\ at + 1 = at + 2 - 1 /\ shape[2] = Name
      BY <1>0, <1>1, <1>8
    <3>2. IsWord(shape[2], p.read[2], WordOf(ts[at + 1]))
      BY <1>8, <2>1, <3>1, WordRead
    <3> QED
      BY <1>4, <3>1, <3>2 DEF IsWord, Goto
  <2>4. p.at = at + 2
    BY <1>0, <2>1 DEF ReadAs
  <2>5. StatementWords(node) = <<Keyword["GOTO"], node.label>>
    BY <1>4 DEF StatementWords, Goto
  <2>6. Printed(ts, at, at + 2, <<WordOf(ts[at]), WordOf(ts[at + 1])>>)
    BY <1>8, PrintedTwo
  <2> QED
    BY <2>2, <2>3, <2>4, <2>5, <2>6
<1> QED
  BY <1>5, <1>6, <1>9, BuiltPrints

LEMMA ThreadGotoPrints ==
  ASSUME NEW S, NEW ts \in Seq(S), AllSpelt(ts), NEW at \in 1..Len(ts) + 1
  PROVE  PrintsStatement(ts, at, ParseThreadGoto(ts, at))
<1>0. PICK n \in Nat : n = 2
  OBVIOUS
<1>1. PICK shape : shape = <<{"THREAD_GOTO"}, Name>>
  OBVIOUS
<1>2. DOMAIN shape = 1..n /\ \A i \in 1..n : "NONE" \notin shape[i]
  BY <1>0, <1>1 DEF Order, Location, Name, Operator
<1>3. PICK p : p = TakeEach(ts, From(at), shape)
  OBVIOUS
<1>4. PICK node : node = ThreadGoto(p.read[2].lexeme)
  OBVIOUS
<1>5. PICK r : r = ParseThreadGoto(ts, at)
  OBVIOUS
<1>6. BuiltFrom(p, r, node)
  BY <1>1, <1>3, <1>4, <1>5 DEF ParseThreadGoto, ParseShape, Result, BuiltFrom
<1>7. p.error = None => ReadAs(ts, at, shape, n, p)
  BY <1>2, <1>3, ShapeReads
<1>8. at \in Nat
  OBVIOUS
<1>9. ASSUME p.error = None
      PROVE  Printed(ts, at, p.at, StatementWords(node))
  <2>1. ReadAs(ts, at, shape, n, p)
    BY <1>7, <1>9
  <2>2. WordOf(ts[at]) = Keyword["THREAD_GOTO"]
    <3>1. 1 \in 1..n /\ at = at + 1 - 1 /\ shape[1] = {"THREAD_GOTO"}
      BY <1>0, <1>1, <1>8
    <3>2. IsWord(shape[1], p.read[1], WordOf(ts[at]))
      BY <1>8, <2>1, <3>1, WordRead
    <3> QED
      BY <1>4, <3>1, <3>2 DEF IsWord, ThreadGoto, StatementKeyword
  <2>3. WordOf(ts[at + 1]) = node.label
    <3>1. 2 \in 1..n /\ at + 1 = at + 2 - 1 /\ shape[2] = Name
      BY <1>0, <1>1, <1>8
    <3>2. IsWord(shape[2], p.read[2], WordOf(ts[at + 1]))
      BY <1>8, <2>1, <3>1, WordRead
    <3> QED
      BY <1>4, <3>1, <3>2 DEF IsWord, ThreadGoto
  <2>4. p.at = at + 2
    BY <1>0, <2>1 DEF ReadAs
  <2>5. StatementWords(node) = <<Keyword["THREAD_GOTO"], node.label>>
    BY <1>4 DEF StatementWords, ThreadGoto
  <2>6. Printed(ts, at, at + 2, <<WordOf(ts[at]), WordOf(ts[at + 1])>>)
    BY <1>8, PrintedTwo
  <2> QED
    BY <2>2, <2>3, <2>4, <2>5, <2>6
<1> QED
  BY <1>5, <1>6, <1>9, BuiltPrints

LEMMA BinopPrints ==
  ASSUME NEW S, NEW ts \in Seq(S), AllSpelt(ts), NEW at \in 1..Len(ts) + 1
  PROVE  PrintsExpression(ts, at, ParseBinop(ts, at))
<1>0. PICK n \in Nat : n = 3
  OBVIOUS
<1>1. PICK shape : shape = <<Name, Operator, Name>>
  OBVIOUS
<1>2. DOMAIN shape = 1..n /\ \A i \in 1..n : "NONE" \notin shape[i]
  BY <1>0, <1>1 DEF Order, Location, Name, Operator
<1>3. PICK p : p = TakeEach(ts, From(at), shape)
  OBVIOUS
<1>4. PICK node : node = BinOp(ToBinopType(p.read[2].type), p.read[1].lexeme, p.read[3].lexeme)
  OBVIOUS
<1>5. PICK r : r = ParseBinop(ts, at)
  OBVIOUS
<1>6. BuiltFrom(p, r, node)
  BY <1>1, <1>3, <1>4, <1>5 DEF ParseBinop, ParseShape, Result, BuiltFrom
<1>7. p.error = None => ReadAs(ts, at, shape, n, p)
  BY <1>2, <1>3, ShapeReads
<1>8. at \in Nat
  OBVIOUS
<1>9. ASSUME p.error = None
      PROVE  Printed(ts, at, p.at, ExpressionWords(node))
  <2>1. ReadAs(ts, at, shape, n, p)
    BY <1>7, <1>9
  <2>2. WordOf(ts[at]) = node.left
    <3>1. 1 \in 1..n /\ at = at + 1 - 1 /\ shape[1] = Name
      BY <1>0, <1>1, <1>8
    <3>2. IsWord(shape[1], p.read[1], WordOf(ts[at]))
      BY <1>8, <2>1, <3>1, WordRead
    <3> QED
      BY <1>4, <3>1, <3>2 DEF IsWord, BinOp
  <2>3. WordOf(ts[at + 1]) = <<node.op>>
    <3>1. 2 \in 1..n /\ at + 1 = at + 2 - 1 /\ shape[2] = Operator
      BY <1>0, <1>1, <1>8
    <3>2. IsWord(shape[2], p.read[2], WordOf(ts[at + 1]))
      BY <1>8, <2>1, <3>1, WordRead
    <3> QED
      BY <1>4, <3>1, <3>2 DEF IsWord, BinOp
  <2>4. WordOf(ts[at + 2]) = node.right
    <3>1. 3 \in 1..n /\ at + 2 = at + 3 - 1 /\ shape[3] = Name
      BY <1>0, <1>1, <1>8
    <3>2. IsWord(shape[3], p.read[3], WordOf(ts[at + 2]))
      BY <1>8, <2>1, <3>1, WordRead
    <3> QED
      BY <1>4, <3>1, <3>2 DEF IsWord, BinOp
  <2>5. p.at = at + 3
    BY <1>0, <2>1 DEF ReadAs
  <2>6. ExpressionWords(node) = <<node.left, <<node.op>>, node.right>>
    BY <1>4 DEF ExpressionWords, BinOp
  <2>7. Printed(ts, at, at + 3, <<WordOf(ts[at]), WordOf(ts[at + 1]), WordOf(ts[at + 2])>>)
    BY <1>8, PrintedThree
  <2> QED
    BY <2>2, <2>3, <2>4, <2>5, <2>6, <2>7
<1> QED
  BY <1>5, <1>6, <1>9, BuiltExpressionPrints

LEMMA ConditionPrints ==
  ASSUME NEW S, NEW ts \in Seq(S), AllSpelt(ts), NEW at \in 1..Len(ts) + 1
  PROVE  PrintsStatement(ts, at, ParseCondition(ts, at))
<1>0. PICK n \in Nat : n = 4
  OBVIOUS
<1>1. PICK shape : shape = <<{"CONDITION"}, Name, {"GOTO"}, Name>>
  OBVIOUS
<1>2. DOMAIN shape = 1..n /\ \A i \in 1..n : "NONE" \notin shape[i]
  BY <1>0, <1>1 DEF Order, Location, Name, Operator
<1>3. PICK p : p = TakeEach(ts, From(at), shape)
  OBVIOUS
<1>4. PICK node : node = If(p.read[2].lexeme, p.read[4].lexeme)
  OBVIOUS
<1>5. PICK r : r = ParseCondition(ts, at)
  OBVIOUS
<1>6. BuiltFrom(p, r, node)
  BY <1>1, <1>3, <1>4, <1>5 DEF ParseCondition, ParseShape, Result, BuiltFrom
<1>7. p.error = None => ReadAs(ts, at, shape, n, p)
  BY <1>2, <1>3, ShapeReads
<1>8. at \in Nat
  OBVIOUS
<1>9. ASSUME p.error = None
      PROVE  Printed(ts, at, p.at, StatementWords(node))
  <2>1. ReadAs(ts, at, shape, n, p)
    BY <1>7, <1>9
  <2>2. WordOf(ts[at]) = Keyword["CONDITION"]
    <3>1. 1 \in 1..n /\ at = at + 1 - 1 /\ shape[1] = {"CONDITION"}
      BY <1>0, <1>1, <1>8
    <3>2. IsWord(shape[1], p.read[1], WordOf(ts[at]))
      BY <1>8, <2>1, <3>1, WordRead
    <3> QED
      BY <1>4, <3>1, <3>2 DEF IsWord, If, StatementKeyword
  <2>3. WordOf(ts[at + 1]) = node.reg
    <3>1. 2 \in 1..n /\ at + 1 = at + 2 - 1 /\ shape[2] = Name
      BY <1>0, <1>1, <1>8
    <3>2. IsWord(shape[2], p.read[2], WordOf(ts[at + 1]))
      BY <1>8, <2>1, <3>1, WordRead
    <3> QED
      BY <1>4, <3>1, <3>2 DEF IsWord, If
  <2>4. WordOf(ts[at + 2]) = Keyword["GOTO"]
    <3>1. 3 \in 1..n /\ at + 2 = at + 3 - 1 /\ shape[3] = {"GOTO"}
      BY <1>0, <1>1, <1>8
    <3>2. IsWord(shape[3], p.read[3], WordOf(ts[at + 2]))
      BY <1>8, <2>1, <3>1, WordRead
    <3> QED
      BY <1>4, <3>1, <3>2 DEF IsWord, If, StatementKeyword
  <2>5. WordOf(ts[at + 3]) = node.label
    <3>1. 4 \in 1..n /\ at + 3 = at + 4 - 1 /\ shape[4] = Name
      BY <1>0, <1>1, <1>8
    <3>2. IsWord(shape[4], p.read[4], WordOf(ts[at + 3]))
      BY <1>8, <2>1, <3>1, WordRead
    <3> QED
      BY <1>4, <3>1, <3>2 DEF IsWord, If
  <2>6. p.at = at + 4
    BY <1>0, <2>1 DEF ReadAs
  <2>7. StatementWords(node) = <<Keyword["CONDITION"], node.reg, Keyword["GOTO"], node.label>>
    BY <1>4 DEF StatementWords, If
  <2>8. Printed(ts, at, at + 4,
                <<WordOf(ts[at]), WordOf(ts[at + 1]), WordOf(ts[at + 2]), WordOf(ts[at + 3])>>)
    BY <1>8, PrintedFour
  <2> QED
    BY <2>2, <2>3, <2>4, <2>5, <2>6, <2>7, <2>8
<1> QED
  BY <1>5, <1>6, <1>9, BuiltPrints

LEMMA NumberPrints ==
  ASSUME NEW S, NEW ts \in Seq(S), AllSpelt(ts), NEW at \in 1..Len(ts) + 1
  PROVE  PrintsExpression(ts, at, ParseNumber(ts, at))
<1>1. CASE ValueOf(ts[at].lexeme) > MaxInt
  <2>1. OutOfRange("stoi") # None
    BY DEF OutOfRange, None
  <2> QED
    BY <1>1, <2>1 DEF ParseNumber, Failure, PrintsExpression
<1>2. CASE ~(ValueOf(ts[at].lexeme) > MaxInt)
  <2>0. PICK n \in Nat : n = 1
    OBVIOUS
  <2>1. PICK shape : shape = <<{"NUMBER"}>>
    OBVIOUS
  <2>2. DOMAIN shape = 1..n /\ \A i \in 1..n : "NONE" \notin shape[i]
    BY <2>0, <2>1
  <2>3. PICK p : p = TakeEach(ts, From(at), shape)
    OBVIOUS
  <2>4. PICK node : node = Number(ValueOf(p.read[1].lexeme))
    OBVIOUS
  <2>5. PICK r : r = ParseNumber(ts, at)
    OBVIOUS
  <2>6. BuiltFrom(p, r, node)
    BY <1>2, <2>1, <2>3, <2>4, <2>5 DEF ParseNumber, ParseShape, Result, BuiltFrom
  <2>7. p.error = None => ReadAs(ts, at, shape, n, p)
    BY <2>2, <2>3, ShapeReads
  <2>8. at \in Nat
    OBVIOUS
  <2>9. ASSUME p.error = None
        PROVE  Printed(ts, at, p.at, ExpressionWords(node))
    <3>1. ReadAs(ts, at, shape, n, p)
      BY <2>7, <2>9
    <3>2. 1 \in 1..n /\ at = at + 1 - 1 /\ shape[1] = {"NUMBER"}
      BY <2>0, <2>1, <2>8
    <3>3. IsWord(shape[1], p.read[1], WordOf(ts[at]))
      BY <2>8, <3>1, <3>2, WordRead
    <3>4. WordOf(ts[at]) = node.value
      BY <2>4, <3>2, <3>3 DEF IsWord, Number
    <3>5. p.at = at + 1
      BY <2>0, <3>1 DEF ReadAs
    <3>6. ExpressionWords(node) = <<node.value>>
      BY <2>4 DEF ExpressionWords, Number
    <3>7. Printed(ts, at, at + 1, <<WordOf(ts[at])>>)
      BY <2>8, PrintedOne
    <3> QED
      BY <3>4, <3>5, <3>6, <3>7
  <2> QED
    BY <2>5, <2>6, <2>9, BuiltExpressionPrints
<1> QED
  BY <1>1, <1>2

LEMMA EndPrints ==
  ASSUME NEW S, NEW ts \in Seq(S), AllSpelt(ts), NEW at \in 1..Len(ts) + 1
  PROVE  PrintsStatement(ts, at, ParseShape(ts, at, <<{"END"}>>, LAMBDA w : End))
<1>0. PICK n \in Nat : n = 1
  OBVIOUS
<1>1. PICK shape : shape = <<{"END"}>>
  OBVIOUS
<1>2. DOMAIN shape = 1..n /\ \A i \in 1..n : "NONE" \notin shape[i]
  BY <1>0, <1>1
<1>3. PICK p : p = TakeEach(ts, From(at), shape)
  OBVIOUS
<1>4. PICK node : node = End
  OBVIOUS
<1>5. PICK r : r = ParseShape(ts, at, <<{"END"}>>, LAMBDA w : End)
  OBVIOUS
<1>6. BuiltFrom(p, r, node)
  BY <1>1, <1>3, <1>4, <1>5 DEF ParseShape, Result, BuiltFrom
<1>7. p.error = None => ReadAs(ts, at, shape, n, p)
  BY <1>2, <1>3, ShapeReads
<1>8. at \in Nat
  OBVIOUS
<1>9. ASSUME p.error = None
      PROVE  Printed(ts, at, p.at, StatementWords(node))
  <2>1. ReadAs(ts, at, shape, n, p)
    BY <1>7, <1>9
  <2>2. 1 \in 1..n /\ at + 1 - 1 = at /\ shape[1] = {"END"}
    BY <1>0, <1>1, <1>8
  <2>3. ts[at].type = "END"
    <3>1. ts[at + 1 - 1].type \in shape[1]
      BY <2>1, <2>2 DEF ReadAs
    <3> QED
      BY <2>2, <3>1
  <2>4. WordOf(ts[at]) = <<"e", "n", "d">>
    BY <2>3 DEF WordOf
  <2>5. p.at = at + 1
    BY <1>0, <2>1 DEF ReadAs
  <2>6. StatementWords(node) = <<<<"e", "n", "d">>>>
    BY <1>4 DEF StatementWords, End
  <2>7. Printed(ts, at, at + 1, <<WordOf(ts[at])>>)
    BY <1>8, PrintedOne
  <2> QED
    BY <2>4, <2>5, <2>6, <2>7
<1> QED
  BY <1>5, <1>6, <1>9, BuiltPrints

LEMMA ExpressionPrints ==
  ASSUME NEW S, NEW ts \in Seq(S), AllSpelt(ts), NEW at \in 1..Len(ts) + 1
  PROVE  PrintsExpression(ts, at, ParseExpression(ts, at))
<1>0. PICK type : type = TypeAt(ts, at)
  OBVIOUS
<1>1. CASE type = "CAS"
  BY <1>0, <1>1, CasPrints DEF ParseExpression
<1>2. CASE type = "FAI"
  BY <1>0, <1>2, FaiPrints DEF ParseExpression
<1>3. CASE type = "IDENTIFIER"
  BY <1>0, <1>3, BinopPrints DEF ParseExpression
<1>4. CASE type = "NUMBER"
  BY <1>0, <1>4, NumberPrints DEF ParseExpression
<1>5. CASE type \notin {"CAS", "FAI", "IDENTIFIER", "NUMBER"}
  <2>1. PICK types : types = {"IDENTIFIER", "NUMBER", "CAS", "FAI"}
    OBVIOUS
  <2>2. ParseExpression(ts, at) = Failure(at, Unexpected(ts, at, types))
    BY <1>0, <1>5, <2>1 DEF ParseExpression
  <2>3. ParseExpression(ts, at).error # None
    BY <2>2, UnexpectedIsError DEF Failure
  <2> QED
    BY <2>3 DEF PrintsExpression
<1> QED
  BY <1>1, <1>2, <1>3, <1>4, <1>5

LEMMA AssignmentPrints ==
  ASSUME NEW S, NEW ts \in Seq(S), AllSpelt(ts), NEW at \in 1..Len(ts) + 1
  PROVE  PrintsStatement(ts, at, ParseAssignment(ts, at))
<1>0. PICK n \in Nat \ {0} : n = 2
  OBVIOUS
<1>1. PICK shape : shape = <<Name, {"EQ"}>>
  OBVIOUS
<1>2. DOMAIN shape = 1..n /\ \A i \in 1..n : "NONE" \notin shape[i] /\ "END" \notin shape[i]
  BY <1>0, <1>1 DEF Name
<1>3. PICK p : p = TakeEach(ts, From(at), shape)
  OBVIOUS
<1>4. PICK r : r = ParseAssignment(ts, at)
  OBVIOUS
<1>5. CASE p.error # None
  <2>1. r = Failure(p.at, p.error)
    BY <1>1, <1>3, <1>4, <1>5 DEF ParseAssignment
  <2>2. r.error # None
    BY <1>5, <2>1 DEF Failure
  <2> QED
    BY <1>4, <2>2 DEF PrintsStatement
<1>6. CASE p.error = None
  <2>1. p.at \in 1..Len(ts) + 1
    <3>1. Advanced(ts, at, p)
      BY <1>2, <1>3, <1>6, ShapeAdvances
    <3> QED
      BY <3>1 DEF Advanced
  <2>2. ReadAs(ts, at, shape, n, p)
    BY <1>2, <1>3, <1>6, ShapeReads
  <2>3. PICK c \in Nat : c = at /\ p.at = c + 2
    BY <1>0, <2>2 DEF ReadAs
  <2>4. PICK reg : reg = p.read[1].lexeme
    OBVIOUS
  <2>5. WordOf(ts[c]) = reg
    <3>1. PICK i \in 1..n : i = 1
      BY <1>0
    <3>2. n \in Nat /\ at \in Nat /\ shape[i] = Name
      BY <1>0, <1>1, <2>3, <3>1
    <3>3. c = at + i - 1
      BY <2>3, <3>1
    <3>4. NamesRead(ts, at, shape, n, p)
      BY <2>2, <3>2, RegisterRead
    <3>5. WordOf(ts[c]) = p.read[i].lexeme
      BY <3>2, <3>3, <3>4 DEF NamesRead
    <3> QED
      BY <2>4, <3>1, <3>5
  <2>6. WordOf(ts[c + 1]) = <<"=">>
    <3>1. n \in Nat /\ at \in Nat /\ 2 \in 1..n /\ shape[2] = {"EQ"}
      BY <1>0, <1>1, <2>3
    <3>2. c + 1 = at + 2 - 1
      BY <2>3
    <3>3. IsWord(shape[2], p.read[2], WordOf(ts[c + 1]))
      BY <2>2, <3>1, <3>2, WordRead
    <3> QED
      BY <3>1, <3>3 DEF IsWord
  <2>7. PICK target : target = <<reg, <<"=">>>>
    OBVIOUS
  <2>8. Printed(ts, c, c + 2, target)
    <3>1. Printed(ts, c, c + 2, <<WordOf(ts[c]), WordOf(ts[c + 1])>>)
      BY PrintedTwo
    <3> QED
      BY <2>5, <2>6, <2>7, <3>1
  <2>9. PICK value : value = ParseExpression(ts, p.at)
    OBVIOUS
  <2>10. PrintsExpression(ts, p.at, value)
    BY <2>1, <2>9, ExpressionPrints
  <2>11. PICK node : node = Assign(reg, value.node)
    OBVIOUS
  <2>12. r.at = value.at /\ r.error = value.error /\ r.node = node
    <3>1. PICK kind : ParsedAs(ts, p.at, value, kind)
      BY <2>1, <2>9, ExpressionParsed
    <3>2. value = [at |-> value.at, error |-> value.error, node |-> value.node]
      BY <3>1 DEF ParsedAs
    <3>3. r = [value EXCEPT !.node = node]
      BY <1>1, <1>3, <1>4, <1>6, <2>4, <2>9, <2>11 DEF ParseAssignment
    <3> QED
      BY <3>2, <3>3
  <2>13. PICK words : words = ExpressionWords(value.node)
    OBVIOUS
  <2>14. StatementWords(node) = target \o words
    BY <2>7, <2>11, <2>13 DEF StatementWords, Assign
  <2>15. ASSUME r.error = None
         PROVE  Printed(ts, at, r.at, StatementWords(r.node))
    <3>1. Printed(ts, c + 2, r.at, words)
      BY <2>3, <2>10, <2>12, <2>13, <2>15 DEF PrintsExpression
    <3>2. Printed(ts, c, r.at, target \o words)
      BY <2>8, <3>1, PrintedOn
    <3> QED
      BY <2>3, <2>12, <2>14, <3>2
  <2> QED
    BY <1>4, <2>15 DEF PrintsStatement
<1> QED
  BY <1>5, <1>6

LEMMA UnlabeledPrints ==
  ASSUME NEW S, NEW ts \in Seq(S), AllSpelt(ts), NEW at \in 1..Len(ts) + 1
  PROVE  PrintsStatement(ts, at, ParseUnlabeled(ts, at))
<1>0. PICK type : type = TypeAt(ts, at)
  OBVIOUS
<1>1. CASE type = "IDENTIFIER"
  BY <1>0, <1>1, AssignmentPrints DEF ParseUnlabeled
<1>2. CASE type = "CONDITION"
  BY <1>0, <1>2, ConditionPrints DEF ParseUnlabeled
<1>3. CASE type = "GOTO"
  BY <1>0, <1>3, GotoPrints DEF ParseUnlabeled
<1>4. CASE type = "THREAD_GOTO"
  BY <1>0, <1>4, ThreadGotoPrints DEF ParseUnlabeled
<1>5. CASE type = "LOAD"
  BY <1>0, <1>5, LoadPrints DEF ParseUnlabeled
<1>6. CASE type = "STORE"
  BY <1>0, <1>6, StorePrints DEF ParseUnlabeled
<1>7. CASE type = "FAI"
  <2>1. PICK r : r = ParseFai(ts, at)
    OBVIOUS
  <2>2. PrintsExpression(ts, at, r) /\ ParsedAs(ts, at, r, "fai")
    BY <2>1, FaiPrints, FaiParsed
  <2>3. PrintsStatement(ts, at, r)
    BY <2>2, CallPrints DEF ParsedAs
  <2> QED
    BY <1>0, <1>7, <2>1, <2>3 DEF ParseUnlabeled
<1>8. CASE type = "CAS"
  <2>1. PICK r : r = ParseCas(ts, at)
    OBVIOUS
  <2>2. PrintsExpression(ts, at, r) /\ ParsedAs(ts, at, r, "cas")
    BY <2>1, CasPrints, CasParsed
  <2>3. PrintsStatement(ts, at, r)
    BY <2>2, CallPrints DEF ParsedAs
  <2> QED
    BY <1>0, <1>8, <2>1, <2>3 DEF ParseUnlabeled
<1>9. CASE type = "FENCE"
  BY <1>0, <1>9, FencePrints DEF ParseUnlabeled
<1>10. CASE type = "END"
  BY <1>0, <1>10, EndPrints DEF ParseUnlabeled
<1>11. CASE type \notin {"IDENTIFIER", "CONDITION", "GOTO", "THREAD_GOTO", "LOAD", "STORE",
                         "FAI", "CAS", "FENCE", "END"}
  <2>1. ParseUnlabeled(ts, at) = Failure(at, Unexpected(ts, at, StatementStart))
    BY <1>0, <1>11 DEF ParseUnlabeled
  <2>2. ParseUnlabeled(ts, at).error # None
    BY <2>1, UnexpectedIsError DEF Failure
  <2> QED
    BY <2>2 DEF PrintsStatement
<1> QED
  BY <1>1, <1>2, <1>3, <1>4, <1>5, <1>6, <1>7, <1>8, <1>9, <1>10, <1>11

\* A statement with its label.
LEMMA StatementPrints ==
  ASSUME NEW S, NEW ts \in Seq(S), AllSpelt(ts), NEW at \in 1..Len(ts) + 1,
         \A i \in DOMAIN ts : ts[i].type = "IDENTIFIER" => ts[i].lexeme # <<>>,
         NEW r, r = ParseStatement(ts, at), r.error = None
  PROVE  Printed(ts, at, r.at, Stringify(r.label, r.node))
<1>1. PICK labeled \in BOOLEAN : labeled <=> IsLabeled(ts, at)
  OBVIOUS
<1>2. PICK start : start = IF labeled THEN at + 2 ELSE at
  OBVIOUS
<1>3. PICK parsed : parsed = ParseUnlabeled(ts, start)
  OBVIOUS
<1>4. r = [at |-> parsed.at, error |-> parsed.error, node |-> parsed.node,
           label |-> IF labeled THEN ts[at].lexeme ELSE <<>>]
  BY <1>1, <1>2, <1>3 DEF ParseStatement
<1>5. /\ r.at = parsed.at /\ r.error = parsed.error /\ r.node = parsed.node
      /\ r.label = IF labeled THEN ts[at].lexeme ELSE <<>>
  BY <1>4
<1>6. labeled => /\ at \in DOMAIN ts /\ at < Len(ts) /\ at + 1 \in DOMAIN ts
                 /\ ts[at].type = "IDENTIFIER" /\ ts[at + 1].type = "SEMICOLON"
  BY <1>1 DEF IsLabeled
<1>7. start \in 1..Len(ts) + 1
  BY <1>2, <1>6
<1>8. PICK words : words = StatementWords(r.node)
  OBVIOUS
<1>9. Printed(ts, start, r.at, words)
  <2>1. PrintsStatement(ts, start, parsed)
    BY <1>3, <1>7, UnlabeledPrints
  <2> QED
    BY <1>5, <1>8, <2>1 DEF PrintsStatement
<1>10. CASE ~labeled
  BY <1>2, <1>5, <1>8, <1>9, <1>10 DEF Stringify
<1>11. CASE labeled
  <2>1. PICK c \in Nat : c = at
    OBVIOUS
  <2>2. PICK label : label = r.label
    OBVIOUS
  <2>3. label = ts[c].lexeme /\ label # <<>> /\ start = c + 2
    BY <1>2, <1>5, <1>6, <1>11, <2>1, <2>2
  <2>4. WordOf(ts[c]) = label
    <3>1. Spelt(ts[c]) /\ ts[c].type \in Name
      BY <1>6, <1>11, <2>1 DEF AllSpelt, Name
    <3> QED
      BY <2>3, <3>1, WordOfIs
  <2>5. WordOf(ts[c + 1]) = <<":">>
    <3>1. Spelt(ts[c + 1]) /\ ts[c + 1].type = "SEMICOLON"
      BY <1>6, <1>11, <2>1 DEF AllSpelt
    <3> QED
      BY <3>1, WordOfIs
  <2>6. PICK before : before = <<label, <<":">>>>
    OBVIOUS
  <2>7. Printed(ts, c, c + 2, before)
    <3>1. Printed(ts, c, c + 2, <<WordOf(ts[c]), WordOf(ts[c + 1])>>)
      BY PrintedTwo
    <3> QED
      BY <2>4, <2>5, <2>6, <3>1
  <2>8. Printed(ts, c, r.at, before \o words)
    BY <1>9, <2>3, <2>7, PrintedOn
  <2>9. Stringify(r.label, r.node) = before \o words
    BY <1>8, <2>2, <2>3, <2>6 DEF Stringify
  <2> QED
    BY <2>1, <2>8, <2>9
<1> QED
  BY <1>10, <1>11

----------------------------------------------------------------------------
(* Statement after statement *)

\* Row i is what the tokens from g[i] up to g[i + 1] are printed as.
InRows(ts, n, rows, c, g) ==
  g[1] = 1 /\ g[n + 1] = c /\ \A i \in 1..n : Printed(ts, g[i], g[i + 1], rows[i])

\* The statements of ns, printed.
RowsOf(ns) == [i \in DOMAIN ns |-> Stringify(ns[i].label, ns[i].node)]

\* The statements of ns are the tokens before c.
PrintedTo(ts, ns, c) == \E g : InRows(ts, Len(ns), RowsOf(ns), c, g)

LEMMA PrintedFirst == ASSUME NEW ts PROVE PrintedTo(ts, <<>>, 1)
<1>1. PICK n \in Nat : n = 0 /\ Len(<<>>) = n
  OBVIOUS
<1>2. PICK g : g = [i \in {1} |-> 1]
  OBVIOUS
<1>3. g[1] = 1 /\ n + 1 = 1
  BY <1>1, <1>2
<1>4. PICK rows : rows = RowsOf(<<>>)
  OBVIOUS
<1>5. \A i \in 1..n : FALSE
  BY <1>1
<1>6. InRows(ts, n, rows, 1, g)
  BY <1>3, <1>5 DEF InRows
<1> QED
  BY <1>1, <1>4, <1>6 DEF PrintedTo

LEMMA RowsMore ==
  ASSUME NEW ts, NEW n \in Nat, NEW rows, NEW c, NEW g, InRows(ts, n, rows, c, g),
         NEW more, \A i \in 1..n : more[i] = rows[i],
         NEW to, Printed(ts, c, to, more[n + 1])
  PROVE  \E h : InRows(ts, n + 1, more, to, h)
<1> DEFINE h == [i \in 1..n + 2 |-> IF i = n + 2 THEN to ELSE g[i]]
<1>1. h[n + 2] = to /\ \A i \in 1..n + 1 : h[i] = g[i]
  <2>1. n + 2 \in 1..n + 2 /\ \A i \in 1..n + 1 : i \in 1..n + 2 /\ i # n + 2
    OBVIOUS
  <2> QED
    BY <2>1
<1> HIDE DEF h
<1>2. h[1] = 1
  BY <1>1 DEF InRows
<1>3. ASSUME NEW i \in 1..n + 1
      PROVE  Printed(ts, h[i], h[i + 1], more[i])
  <2>1. CASE i = n + 1
    <3>1. i + 1 = n + 2 /\ i \in 1..n + 1
      BY <2>1
    <3>2. h[i] = c
      BY <1>1, <2>1 DEF InRows
    <3> QED
      BY <1>1, <2>1, <3>1, <3>2
  <2>2. CASE i # n + 1
    <3>1. i \in 1..n /\ i + 1 \in 1..n + 1
      BY <2>2
    <3>2. Printed(ts, g[i], g[i + 1], rows[i])
      BY <3>1 DEF InRows
    <3> QED
      BY <1>1, <3>1, <3>2
  <2> QED
    BY <2>1, <2>2
<1>4. (n + 1) + 1 = n + 2
  OBVIOUS
<1>5. InRows(ts, n + 1, more, to, h)
  BY <1>1, <1>2, <1>3, <1>4 DEF InRows
<1> QED
  BY <1>5

LEMMA PrintedStep ==
  ASSUME NEW ts, NEW S, NEW ns \in Seq(S), NEW c, PrintedTo(ts, ns, c),
         NEW new, NEW to, Printed(ts, c, to, Stringify(new.label, new.node))
  PROVE  PrintedTo(ts, Append(ns, new), to)
<1>1. PICK n \in Nat : n = Len(ns)
  OBVIOUS
<1>2. PICK more : more = Append(ns, new)
  OBVIOUS
<1>3. /\ DOMAIN ns = 1..n /\ DOMAIN more = 1..n + 1 /\ Len(more) = n + 1 /\ more[n + 1] = new
      /\ \A i \in 1..n : more[i] = ns[i]
  <2>1. PICK T : T = S \cup {new}
    OBVIOUS
  <2>2. ns \in Seq(T) /\ new \in T
    <3>1. S \subseteq T /\ new \in T
      BY <2>1
    <3>2. ns \in [1..n -> T]
      BY <1>1, <3>1
    <3> QED
      BY <3>1, <3>2
  <2> QED
    BY <1>1, <1>2, <2>2
<1>4. PICK rows, after : rows = RowsOf(ns) /\ after = RowsOf(more)
  OBVIOUS
<1>5. \A i \in 1..n : after[i] = rows[i]
  BY <1>3, <1>4 DEF RowsOf
<1>6. after[n + 1] = Stringify(new.label, new.node)
  <2>1. n + 1 \in 1..n + 1
    OBVIOUS
  <2> QED
    BY <1>3, <1>4, <2>1 DEF RowsOf
<1>7. PICK g : InRows(ts, n, rows, c, g)
  BY <1>1, <1>4 DEF PrintedTo
<1>8. \E h : InRows(ts, n + 1, after, to, h)
  BY <1>5, <1>6, <1>7, RowsMore
<1>9. PrintedTo(ts, more, to)
  BY <1>3, <1>4, <1>8 DEF PrintedTo
<1> QED
  BY <1>2, <1>9

\* FlattenSeq: f[i] is the first i rows behind one another.
IsFlat(rows, n, f) == f = [i \in 1..n |-> IF i = 1 THEN rows[i] ELSE f[i - 1] \o rows[i]]

LEMMA FlatExists ==
  ASSUME NEW rows, NEW n \in Nat
  PROVE  \E f : IsFlat(rows, n, f)
<1> DEFINE S == {k \in Nat : \E f : IsFlat(rows, k, f)}
<1>1. 0 \in S
  <2> DEFINE f == [i \in 1..0 |-> rows[i]]
  <2>1. IsFlat(rows, 0, f)
    BY DEF IsFlat
  <2> QED
    BY <2>1
<1>2. ASSUME NEW k \in Nat, k \in S
      PROVE  k + 1 \in S
  <2>1. PICK f : IsFlat(rows, k, f)
    BY <1>2
  <2> DEFINE g == [i \in 1..k + 1 |-> IF i = 1 THEN rows[i] ELSE f[i - 1] \o rows[i]]
  <2>2. \A i \in 1..k : g[i] = f[i]
    <3>1. \A i \in 1..k : i \in 1..k + 1
      OBVIOUS
    <3> QED
      BY <2>1, <3>1 DEF IsFlat
  <2>3. g = [i \in 1..k + 1 |-> IF i = 1 THEN rows[i] ELSE g[i - 1] \o rows[i]]
    <3>1. ASSUME NEW i \in 1..k + 1, i # 1
          PROVE  g[i - 1] = f[i - 1]
      <4>1. i - 1 \in 1..k
        BY <3>1
      <4> QED
        BY <2>2, <4>1
    <3> QED
      BY <3>1
  <2>4. IsFlat(rows, k + 1, g)
    BY <2>3 DEF IsFlat
  <2> QED
    BY <2>4
<1> HIDE DEF S
<1>3. n \in S
  BY <1>1, <1>2, NumbersByInduction
<1> QED
  BY <1>3 DEF S

LEMMA FlatPrinted ==
  ASSUME NEW ts, NEW n \in Nat, NEW rows, NEW c, NEW g, InRows(ts, n, rows, c, g),
         NEW f, IsFlat(rows, n, f), n # 0
  PROVE  Printed(ts, 1, c, f[n])
<1> DEFINE R == {k \in Nat : k + 1 <= n => Printed(ts, 1, g[k + 2], f[k + 1])}
<1>1. 0 \in R
  <2>1. 1 \in 1..n /\ 0 + 1 = 1 /\ 0 + 2 = 1 + 1
    OBVIOUS
  <2>2. f[1] = rows[1]
    BY <2>1 DEF IsFlat
  <2>3. Printed(ts, 1, g[1 + 1], rows[1])
    BY <2>1 DEF InRows
  <2>4. Printed(ts, 1, g[0 + 2], f[0 + 1])
    BY <2>1, <2>2, <2>3
  <2> QED
    BY <2>4
<1>2. ASSUME NEW k \in Nat, k \in R
      PROVE  k + 1 \in R
  <2> SUFFICES ASSUME (k + 1) + 1 <= n
               PROVE  Printed(ts, 1, g[(k + 1) + 2], f[(k + 1) + 1])
    OBVIOUS
  <2>1. PICK i \in Nat : i = k + 2
    OBVIOUS
  <2>2. /\ i \in 1..n /\ i # 1 /\ i - 1 = k + 1 /\ k + 1 <= n
        /\ (k + 1) + 1 = i /\ (k + 1) + 2 = i + 1
    BY <2>1
  <2>3. f[i] = f[k + 1] \o rows[i]
    <3>1. f[i] = f[i - 1] \o rows[i]
      BY <2>2 DEF IsFlat
    <3> QED
      BY <2>2, <3>1
  <2>4. Printed(ts, 1, g[i], f[k + 1])
    BY <1>2, <2>1, <2>2
  <2>5. Printed(ts, g[i], g[i + 1], rows[i])
    BY <2>2 DEF InRows
  <2>6. Printed(ts, 1, g[i + 1], f[k + 1] \o rows[i])
    BY <2>4, <2>5, PrintedOn
  <2> QED
    BY <2>2, <2>3, <2>6
<1> HIDE DEF R
<1>3. \A k \in Nat : k \in R
  BY <1>1, <1>2, NumbersByInduction
<1>4. PICK k \in Nat : k = n - 1
  OBVIOUS
<1>5. k + 1 = n /\ k + 2 = n + 1
  BY <1>4
<1>6. Printed(ts, 1, g[k + 2], f[k + 1])
  BY <1>3, <1>5 DEF R
<1> QED
  BY <1>5, <1>6 DEF InRows

LEMMA FlattenedIs ==
  ASSUME NEW S, NEW rows \in Seq(S), NEW n \in Nat, n = Len(rows), n # 0
  PROVE  \E f : IsFlat(rows, n, f) /\ FlattenSeq(rows) = f[n]
<1> DEFINE f == CHOOSE h : IsFlat(rows, n, h)
<1>1. IsFlat(rows, n, f)
  BY FlatExists
<1>2. FlattenSeq(rows) = f[n]
  BY DEF FlattenSeq, IsFlat
<1> HIDE DEF f
<1> QED
  BY <1>1, <1>2

\* All statements, one behind the other, are all tokens.
LEMMA AllPrinted ==
  ASSUME NEW T, NEW ts \in Seq(T), NEW S, NEW ns \in Seq(S), ns # <<>>,
         PrintedTo(ts, ns, Len(ts) + 1)
  PROVE  FlattenSeq(RowsOf(ns)) = [i \in DOMAIN ts |-> WordOf(ts[i])]
<1>1. PICK n \in Nat : n = Len(ns)
  OBVIOUS
<1>2. n # 0
  BY <1>1, EmptySeq
<1>3. PICK rows : rows = RowsOf(ns)
  OBVIOUS
<1>4. DOMAIN ns = 1..n
  BY <1>1
<1>5. PICK W : W = {Stringify(ns[i].label, ns[i].node) : i \in 1..n}
  OBVIOUS
<1>6. rows \in [1..n -> W]
  BY <1>3, <1>4, <1>5 DEF RowsOf
<1>7. rows \in Seq(W) /\ Len(rows) = n
  BY <1>6, FunctionIsSeq
<1>8. PICK f : IsFlat(rows, n, f) /\ FlattenSeq(rows) = f[n]
  BY <1>2, <1>7, FlattenedIs
<1>9. PICK c \in Nat : c = Len(ts) + 1
  OBVIOUS
<1>10. PICK g : InRows(ts, n, rows, c, g)
  BY <1>1, <1>3, <1>9 DEF PrintedTo
<1>11. Printed(ts, 1, c, f[n])
  BY <1>2, <1>8, <1>10, FlatPrinted
<1>12. f[n] = [i \in 1..c - 1 |-> WordOf(ts[1 + i - 1])]
  BY <1>11 DEF Printed
<1>13. DOMAIN ts = 1..c - 1 /\ \A i \in 1..c - 1 : 1 + i - 1 = i
  BY <1>9
<1>14. f[n] = [i \in DOMAIN ts |-> WordOf(ts[i])]
  BY <1>12, <1>13
<1> QED
  BY <1>3, <1>8, <1>14

----------------------------------------------------------------------------
(* The invariant, of what is printed *)

(***************************************************************************)
(* Beyond IInv and ReadInv: the tokens are spelt as their types say, and    *)
(* the statements parsed so far are printed as the tokens before the cursor. *)
(***************************************************************************)
PrintInv ==
  /\ AllSpelt(tokens)
  /\ phase = "parse" /\ Invalid = {} => PrintedTo(tokens, nodes, cursor)
  /\ phase \in {"label", "run"} => PrintedTo(tokens, nodes, Len(tokens) + 1)

LEMMA InitPrint == Init => PrintInv
BY DEF Init, PrintInv, AllSpelt

\* Before the parser, and after an exception, nothing is said of the statements.
LEMMA NothingParsed ==
  ASSUME PrintInv, UNCHANGED tokens, phase' \in {"options", "open", "lex"} \cup Ending
  PROVE  PrintInv'
<1>1. phase' \notin {"parse", "label", "run"}
  BY DEF Ending
<1>2. AllSpelt(tokens)'
  BY DEF PrintInv, AllSpelt
<1> QED
  BY <1>1, <1>2 DEF PrintInv

LEMMA ParseArgumentPrint == PrintInv /\ ParseArgument => PrintInv'
<1> SUFFICES ASSUME PrintInv, ParseArgument
             PROVE  PrintInv'
  OBVIOUS
<1>1. UNCHANGED tokens /\ phase' = "options"
  BY DEF ParseArgument
<1> QED
  BY <1>1, NothingParsed

LEMMA CheckOptionsPrint == PrintInv /\ CheckOptions => PrintInv'
<1> SUFFICES ASSUME PrintInv, CheckOptions
             PROVE  PrintInv'
  OBVIOUS
<1>1. UNCHANGED tokens /\ phase' \in {"open", "failed", "aborted"}
  BY DEF CheckOptions, Goes, Throw
<1> QED
  BY <1>1, NothingParsed DEF Ending

LEMMA OpenFilePrint == PrintInv /\ OpenFile => PrintInv'
<1> SUFFICES ASSUME PrintInv, OpenFile
             PROVE  PrintInv'
  OBVIOUS
<1>1. UNCHANGED tokens /\ phase' \in {"lex", "failed", "aborted"}
  BY DEF OpenFile, Goes, Throw
<1> QED
  BY <1>1, NothingParsed DEF Ending

LEMMA SpeltMore ==
  ASSUME NEW S, NEW ts \in Seq(S), AllSpelt(ts), NEW token, Spelt(token)
  PROVE  AllSpelt(Append(ts, token))
<1>1. PICK n \in Nat : n = Len(ts)
  OBVIOUS
<1>2. PICK more : more = Append(ts, token)
  OBVIOUS
<1>3. DOMAIN more = 1..n + 1 /\ more[n + 1] = token /\ \A i \in 1..n : more[i] = ts[i]
  <2>1. PICK T : T = S \cup {token}
    OBVIOUS
  <2>2. ts \in Seq(T) /\ token \in T
    <3>1. S \subseteq T /\ token \in T
      BY <2>1
    <3>2. ts \in [1..n -> T]
      BY <1>1, <3>1
    <3> QED
      BY <1>1, <3>1, <3>2
  <2> QED
    BY <1>1, <1>2, <2>2
<1>4. \A i \in 1..n + 1 : i \in 1..n \/ i = n + 1
  OBVIOUS
<1>5. DOMAIN ts = 1..n
  BY <1>1
<1>6. AllSpelt(more)
  BY <1>3, <1>4, <1>5 DEF AllSpelt
<1> QED
  BY <1>2, <1>6

LEMMA LexTokenPrint == IInv /\ PrintInv /\ LexToken => PrintInv'
<1> SUFFICES ASSUME IInv, PrintInv, LexToken
             PROVE  PrintInv'
  OBVIOUS
<1>1. phase = "lex" /\ UNCHANGED nodes /\ nodes = <<>> /\ cursor = 1
  BY DEF LexToken, IInv
<1>2. phase' \in {"lex", "parse"} /\ cursor' = 1
  BY <1>1 DEF LexToken, Goes
<1>3. AllSpelt(tokens)'
  <2>1. PICK ts, token : ts = tokens /\ token = NextToken(text, pos).token
    OBVIOUS
  <2>2. PICK S : ts \in Seq(S)
    BY <2>1 DEF IInv, TokensOK
  <2>3. tokens' = Append(ts, token)
    BY <2>1 DEF LexToken
  <2>4. Spelt(token)
    <3>1. PICK t, from : t = text /\ from = pos
      OBVIOUS
    <3>2. Spelt(NextToken(t, from).token)
      BY NextTokenSpelt
    <3> QED
      BY <2>1, <3>1, <3>2
  <2>5. AllSpelt(Append(ts, token))
    BY <2>1, <2>2, <2>4, SpeltMore DEF PrintInv
  <2> QED
    BY <2>3, <2>5
<1>4. PrintedTo(tokens, nodes, cursor)'
  <2>1. PICK ts : ts = tokens'
    OBVIOUS
  <2>2. PrintedTo(ts, <<>>, 1)
    BY PrintedFirst
  <2> QED
    BY <1>1, <1>2, <2>1, <2>2
<1> QED
  BY <1>2, <1>3, <1>4 DEF PrintInv

LEMMA RejectTokenPrint == PrintInv /\ RejectToken => PrintInv'
<1> SUFFICES ASSUME PrintInv, RejectToken
             PROVE  PrintInv'
  OBVIOUS
<1>1. UNCHANGED tokens /\ phase' \in Ending
  BY DEF RejectToken, Throw, Ending
<1> QED
  BY <1>1, NothingParsed

LEMMA ParseNextPrint == IInv /\ PrintInv /\ ParseNext => PrintInv'
<1> SUFFICES ASSUME IInv, PrintInv, ParseNext
             PROVE  PrintInv'
  OBVIOUS
<1>1. PICK r : r = ParseStatement(tokens, cursor)
  OBVIOUS
<1>2. phase = "parse" /\ Invalid = {} /\ cursor <= Len(tokens) /\ UNCHANGED tokens
  BY DEF ParseNext
<1>3. PICK ts, ns, c : ts = tokens /\ ns = nodes /\ c = cursor
  OBVIOUS
<1>4. CASE r.error # None
  <2>1. Throw(r.error)
    BY <1>1, <1>4 DEF ParseNext
  <2>2. phase' \in Ending
    BY <2>1 DEF Throw, Ending
  <2> QED
    BY <1>2, <2>2, NothingParsed
<1>5. CASE r.error = None
  <2>1. PICK new : new = [label |-> r.label, node |-> r.node]
    OBVIOUS
  <2>2. new.label = r.label /\ new.node = r.node
    BY <2>1
  <2>3. nodes' = Append(ns, new) /\ cursor' = r.at /\ phase' = "parse" /\ tokens' = ts
    BY <1>1, <1>2, <1>3, <1>5, <2>1 DEF ParseNext
  <2>4. Readable(ts)
    BY <1>2, <1>3, ParserReads
  <2>5. PICK T : ts \in Seq(T)
    BY <2>4 DEF Readable
  <2>6. PICK S : ns \in Seq(S)
    BY <1>2, <1>3 DEF IInv, NodesOK
  <2>7. c \in 1..Len(ts) + 1 /\ AllSpelt(ts) /\ PrintedTo(ts, ns, c)
    BY <1>2, <1>3 DEF IInv, PrintInv
  <2>8. \A i \in DOMAIN ts : ts[i].type = "IDENTIFIER" => ts[i].lexeme # <<>>
    BY <2>4 DEF Readable
  <2>9. r = ParseStatement(ts, c)
    BY <1>1, <1>3
  <2>10. Printed(ts, c, r.at, Stringify(r.label, r.node))
    BY <1>5, <2>5, <2>7, <2>8, <2>9, StatementPrints
  <2>11. PICK to : to = r.at
    OBVIOUS
  <2>12. Printed(ts, c, to, Stringify(new.label, new.node))
    BY <2>2, <2>10, <2>11
  <2>13. PrintedTo(ts, Append(ns, new), to)
    BY <2>6, <2>7, <2>12, PrintedStep
  <2> QED
    BY <2>3, <2>7, <2>11, <2>13 DEF PrintInv
<1> QED
  BY <1>4, <1>5

LEMMA ParsedPrint == IInv /\ PrintInv /\ Parsed => PrintInv'
<1> SUFFICES ASSUME IInv, PrintInv, Parsed
             PROVE  PrintInv'
  OBVIOUS
<1>1. /\ phase = "parse" /\ Invalid = {} /\ cursor > Len(tokens) /\ phase' = "label"
      /\ UNCHANGED <<tokens, nodes>>
  BY DEF Parsed, Goes
<1>2. Len(tokens) \in Nat /\ cursor \in 1..Len(tokens) + 1
  BY <1>1, Lengths DEF IInv
<1>3. cursor = Len(tokens) + 1
  BY <1>1, <1>2
<1>4. AllSpelt(tokens) /\ PrintedTo(tokens, nodes, Len(tokens) + 1)
  BY <1>1, <1>3 DEF PrintInv
<1>5. AllSpelt(tokens)' /\ PrintedTo(tokens, nodes, Len(tokens) + 1)'
  BY <1>1, <1>4
<1> QED
  BY <1>1, <1>5 DEF PrintInv

\* The table of labels is made of the statements, which stay as they are.
LEMMA NothingMoreParsed ==
  ASSUME PrintInv, phase = "label", phase' \in {"label", "run"} \cup Ending,
         UNCHANGED <<tokens, nodes>>
  PROVE  PrintInv'
<1>1. AllSpelt(tokens) /\ PrintedTo(tokens, nodes, Len(tokens) + 1)
  BY DEF PrintInv
<1>2. AllSpelt(tokens)' /\ PrintedTo(tokens, nodes, Len(tokens) + 1)'
  BY <1>1
<1>3. phase' # "parse"
  BY DEF Ending
<1> QED
  BY <1>2, <1>3 DEF PrintInv

LEMMA LabelStatementPrint == PrintInv /\ LabelStatement => PrintInv'
<1> SUFFICES ASSUME PrintInv, LabelStatement
             PROVE  PrintInv'
  OBVIOUS
<1>1. phase = "label" /\ UNCHANGED <<tokens, nodes>> /\ phase' \in {"label"} \cup Ending
  BY DEF LabelStatement, Throw, Ending
<1> QED
  BY <1>1, NothingMoreParsed

LEMMA RunInterpreterPrint == PrintInv /\ RunInterpreter => PrintInv'
<1> SUFFICES ASSUME PrintInv, RunInterpreter
             PROVE  PrintInv'
  OBVIOUS
<1>1. phase = "label" /\ UNCHANGED <<tokens, nodes>> /\ phase' = "run"
  BY DEF RunInterpreter, Goes
<1> QED
  BY <1>1, NothingMoreParsed

LEMMA NextPrint == IInv /\ PrintInv /\ [Next]_vars => PrintInv'
<1> SUFFICES ASSUME IInv, PrintInv, [Next]_vars
             PROVE  PrintInv'
  OBVIOUS
<1>1. CASE ParseArgument
  BY <1>1, ParseArgumentPrint
<1>2. CASE CheckOptions
  BY <1>2, CheckOptionsPrint
<1>3. CASE OpenFile
  BY <1>3, OpenFilePrint
<1>4. CASE LexToken
  BY <1>4, LexTokenPrint
<1>5. CASE RejectToken
  BY <1>5, RejectTokenPrint
<1>6. CASE ParseNext
  BY <1>6, ParseNextPrint
<1>7. CASE Parsed
  BY <1>7, ParsedPrint
<1>8. CASE LabelStatement
  BY <1>8, LabelStatementPrint
<1>9. CASE RunInterpreter
  BY <1>9, RunInterpreterPrint
<1>10. CASE UNCHANGED vars
  BY <1>10 DEF vars, PrintInv, AllSpelt, Invalid
<1> QED
  BY <1>1, <1>2, <1>3, <1>4, <1>5, <1>6, <1>7, <1>8, <1>9, <1>10 DEF Next

LEMMA PrintInvariance == Spec => [](IInv /\ PrintInv)
<1>1. Init => IInv /\ PrintInv
  BY InitInv, InitPrint
<1>2. (IInv /\ PrintInv) /\ [Next]_vars => (IInv /\ PrintInv)'
  BY NextInv, NextPrint
<1> QED
  BY <1>1, <1>2, PTL DEF Spec

\* For any program text that is run: its statements, printed one behind the
\* other, are its tokens, each number by its value; the parser and the printing
\* visitor agree on the place of every register, label, location and mode.
THEOREM PrintsBack == Spec => []ParsedAsWritten
<1>1. IInv /\ PrintInv => ParsedAsWritten
  <2> SUFFICES ASSUME IInv, PrintInv, phase = "run"
               PROVE  ParsedAsWritten
    BY DEF ParsedAsWritten
  <2>1. PICK ts, ns : ts = tokens /\ ns = nodes
    OBVIOUS
  <2>2. PICK T : ts \in Seq(T)
    BY <2>1 DEF IInv, TokensOK
  <2>3. PICK S : ns \in Seq(S)
    BY <2>1 DEF IInv, NodesOK
  <2>4. ns # <<>> /\ PrintedTo(ts, ns, Len(ts) + 1)
    BY <2>1 DEF IInv, PrintInv
  <2>5. FlattenSeq(RowsOf(ns)) = [i \in DOMAIN ts |-> WordOf(ts[i])]
    BY <2>2, <2>3, <2>4, AllPrinted
  <2> QED
    BY <2>1, <2>5 DEF ParsedAsWritten, RowsOf, WordOf
<1> QED
  BY <1>1, PrintInvariance, PTL

=============================================================================
