----------------------------- MODULE MCFrontEnd -----------------------------
(***************************************************************************)
(* FrontEnd for TLC, on every short text, every short list of tokens, every *)
(* instruction with one token changed, programs that differ in their labels, *)
(* numbers around the largest, and every short list of arguments.           *)
(***************************************************************************)
EXTENDS FrontEnd, TLC

\* Short spellings that overlap as the real ones do: thread_goto ends with
\* goto, REL_ACQ starts with REL and ends with ACQ.
Spelling ==
  [CONDITION |-> <<"i">>, GOTO |-> <<"g">>, THREAD_GOTO |-> <<"t", "_", "g">>,
   LOAD |-> <<"l">>, STORE |-> <<"s">>, CAS |-> <<"c">>, FAI |-> <<"f">>, FENCE |-> <<"f", "e">>,
   SEQ_CST |-> <<"S">>, REL |-> <<"R">>, ACQ |-> <<"A">>, REL_ACQ |-> <<"R", "_", "A">>,
   RLX |-> <<"X">>]

\* Arguments that are not words: a blank one, and one of two words.
Words == (" " :> "") @@ ("tso nd" :> "tso")

Running(code) == [argv |-> <<"simulator", "--file", "p">>, files |-> ("p" :> code)]

SeqsUpTo(set, n) == UNION {TupleOf(set, k) : k \in 0..n}

Characters == {"g", "_", "R", "A", "1", "#", "=", ":", "?", " ", "\n", NUL}

Texts == SeqsUpTo(Characters, 3)
           \cup TupleOf({"g", "R", "_", "A", "1", " ", "\n", "#"}, 4)

----------------------------------------------------------------------------
(* Texts given by the types of their tokens, a blank between each two. *)

Sample ==
  [type \in TokenTypes \ {"END"} |->
     CASE type \in StatementKeyword -> Spelling[type]
       [] type = "IDENTIFIER"   -> <<"a">>
       [] type = "LOCATION"     -> <<"#", "x">>
       [] type = "NUMBER"       -> <<"1">>
       [] type = "MEMORY_ORDER" -> Spelling["REL"]
       [] type = "INVALID"      -> <<"?">>
       [] OTHER -> <<CHOOSE c \in DOMAIN Atom : Atom[c] = type>>]

Spaced(words) == FlattenSeq([i \in DOMAIN words |-> words[i] \o <<" ">>])

TextOf(types) == Spaced([i \in DOMAIN types |-> Sample[types[i]]])

Edits(types) ==
  {types}
    \cup {RemoveAt(types, i) : i \in DOMAIN types}
    \cup {ReplaceAt(types, i, type) : i \in DOMAIN types, type \in DOMAIN Sample}
    \cup {InsertAt(types, i, type) : i \in 1..Len(types) + 1, type \in DOMAIN Sample}

TokenLists ==
  SeqsUpTo(DOMAIN Sample, 2)
    \cup UNION {Edits(form) : form \in Labelable(Instructions)}
    \cup {first \o second : first, second \in Labelable(Instructions)}

----------------------------------------------------------------------------
(* Programs *)

\* Jumps, each behind a label or none, and possibly a label before the end.
Labels == {<<>>, <<"a">>, <<"b">>}

Labeled(label, words) == IF label = <<>> THEN words ELSE <<label, <<":">>>> \o words

LabelledTexts ==
  {Spaced(Labeled(l1, <<<<"g">>, <<"b">>>>) \o Labeled(l2, <<<<"i">>, <<"r">>, <<"g">>, <<"a">>>>)
            \o Labeled(l3, <<<<"t", "_", "g">>, <<"b">>>>) \o Labeled(l4, <<>>)) :
     l1, l2, l3, l4 \in Labels}

\* Each mode, and registers that can be told apart.
ModeTexts ==
  {Spaced(<<<<"r">>, <<"=">>, <<"c">>, Spelling[m], <<"#", "x">>, <<"e">>, <<"d">>,
            <<"r">>, <<"=">>, <<"e">>, <<"-">>, <<"d">>>>) : m \in OrderKeyword}

\* Numbers around the largest, alone, before a mistake and behind one.
NumberTexts ==
  UNION {{Spaced(<<<<"r">>, <<"=">>, n>>), Spaced(<<<<"r">>, <<"=">>, n, <<"?">>>>),
          Spaced(<<<<"r">>, <<"=">>, n, <<"=">>>>), Spaced(<<<<"g">>, n>>),
          Spaced(<<<<"g">>, <<"g">>, <<"r">>, <<"=">>, n>>)} :
           n \in {<<"0">>, <<"7">>, <<"8">>, <<"0", "7">>, <<"0", "8">>, <<"9", "9">>}}

----------------------------------------------------------------------------

Arguments == {"--file", "--mm", "--it", "p", "q", "tso", "mc", " ", "tso nd"}

ArgumentLists ==
  {<<"simulator">> \o rest : rest \in SeqsUpTo(Arguments, 3)}
    \cup {<<"simulator", "--file", "p">> \o rest : rest \in SeqsUpTo(Arguments, 4)}

AllInputs ==
  {Running(code) : code \in Texts \cup {TextOf(types) : types \in TokenLists}
                                \cup LabelledTexts \cup ModeTexts \cup NumberTexts}
    \cup {[argv |-> argv, files |-> ("p" :> <<>>)] : argv \in ArgumentLists}

=============================================================================
