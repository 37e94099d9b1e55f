----------------------------- MODULE StoreOrder -----------------------------
(***************************************************************************)
(* The promise of a store-buffering memory, with no memory and no buffer in *)
(* it: stores of a thread take effect one after the other in an order that  *)
(* respects program order, for all its stores (total store order) or only   *)
(* for its stores to one location (partial store order); a load returns the *)
(* thread's own newest pending store or else the last store in effect; and  *)
(* a SEQ_CST store, fence or read-modify-write that writes leaves nothing   *)
(* of its thread pending.  A SEQ_CST load and a cas that fails promise no   *)
(* such thing.                                                              *)
(*                                                                          *)
(* "answer" is what the last operation let its caller see: whether it was   *)
(* a SEQ_CST access ("strong") and the value it returned, <<>> if none.     *)
(***************************************************************************)
EXTENDS StoreHistory

CONSTANTS Threads, Locations, Values,
          SameLocationOnly    \* TRUE: partial store order, FALSE: total

VARIABLES history, answer

vars == <<history, answer>>

Answer(strong, value) == [strong |-> strong, value |-> value]

Init == history = NewHistory(Threads) /\ answer = Answer(FALSE, <<>>)

\* Store i of t may take effect: no earlier pending store has to precede it.
MayCommit(t, i) ==
  \A j \in Pending(history, t) :
    j < i => SameLocationOnly /\ history.stores[t][j].loc # history.stores[t][i].loc

TakeEffect(t) ==
  /\ answer' = Answer(FALSE, <<>>)
  /\ \E i \in Pending(history, t) : MayCommit(t, i) /\ history' = Commit(history, t, {i})

Store(t, l, v, strong) ==
  LET issued == Issue(history, t, l, v)
  IN  /\ answer' = Answer(strong, <<>>)
      /\ history' = IF strong THEN Drain(issued, t) ELSE issued

Fence(t, strong) ==
  /\ answer' = Answer(strong, <<>>)
  /\ history' = IF strong THEN Drain(history, t) ELSE history

Load(t, l, strong) ==
  /\ UNCHANGED history
  /\ answer' = Answer(strong, <<VisibleValue(history, t, l)>>)

\* A read-modify-write may drain its thread first.  A weak one may leave its
\* store pending, so that another thread's store takes effect in between; a
\* strong one reads the last store in effect and its own directly follows it.
WeakRmw(t, l, v) ==
  \E h \in {history, Drain(history, t)} :
    /\ history' = Issue(h, t, l, v)
    /\ answer' = Answer(FALSE, <<VisibleValue(h, t, l)>>)

StrongRmw(t, l, v) ==
  /\ \E h \in {history, Drain(history, t)} : history' = Drain(Issue(h, t, l, v), t)
  /\ answer' = Answer(TRUE, <<LatestValue(Drain(history, t), l)>>)

FailedCas(t, l, strong) ==
  \E h \in {history, Drain(history, t)} :
    history' = h /\ answer' = Answer(strong, <<VisibleValue(h, t, l)>>)

Next ==
  \E t \in Threads :
    \/ TakeEffect(t)
    \/ \E strong \in BOOLEAN :
         \/ Fence(t, strong)
         \/ \E l \in Locations :
              \/ Load(t, l, strong)
              \/ FailedCas(t, l, strong)
              \/ \E v \in Values : Store(t, l, v, strong)
    \/ \E l \in Locations, v \in Values : WeakRmw(t, l, v) \/ StrongRmw(t, l, v)

Spec == Init /\ [][Next]_vars

=============================================================================
