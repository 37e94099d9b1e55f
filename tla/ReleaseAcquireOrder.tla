------------------------- MODULE ReleaseAcquireOrder -------------------------
(***************************************************************************)
(* The promise of a release-acquire memory, with no views and no timestamps *)
(* in it.  Stores are ordered as they are made.  A thread knows the stores  *)
(* it made and read, and through an acquiring read of a releasing store all *)
(* that the store's author knew.  A load returns any store to its location  *)
(* that no known store follows; before any is known also the initial 0.  A  *)
(* read-modify-write promises no more than its load and its store: another  *)
(* store may come between them.                                             *)
(***************************************************************************)
EXTENDS Integers, Sequences

CONSTANTS Threads, Locations, Values

VARIABLES stores,  \* sequence of [loc, val, carries]: the stores a reader learns of
          known,   \* thread -> the stores, by position, that it knows
          answer   \* the value the last operation returned, <<>> if none

vars == <<stores, known, answer>>

Init ==
  /\ stores = <<>>
  /\ known = [t \in Threads |-> {}]
  /\ answer = <<>>

KnownTo(t, l) == {i \in known[t] : stores[i].loc = l}

\* What t may see for l: a value, and what t knows having seen it.
Seen(t, l, acquire) ==
  {[value |-> stores[i].val,
    past  |-> known[t] \cup {i} \cup IF acquire THEN stores[i].carries ELSE {}] :
     i \in {j \in DOMAIN stores : stores[j].loc = l /\ \A k \in KnownTo(t, l) : k <= j}}
  \cup IF KnownTo(t, l) = {} THEN {[value |-> 0, past |-> known[t]]} ELSE {}

\* Thread t, knowing past, stores to l; a releasing store hands on what t knows.
Publish(t, l, past) ==
  LET all == past \cup {Len(stores) + 1}
  IN  /\ known' = [known EXCEPT ![t] = all]
      /\ \E v \in Values, carries \in {all, {Len(stores) + 1}} :
           stores' = Append(stores, [loc |-> l, val |-> v, carries |-> carries])

Load(t, l, acquire) ==
  /\ UNCHANGED stores
  /\ \E seen \in Seen(t, l, acquire) :
       answer' = <<seen.value>> /\ known' = [known EXCEPT ![t] = seen.past]

Store(t, l) == answer' = <<>> /\ Publish(t, l, known[t])

Rmw(t, l, acquire) ==
  \E seen \in Seen(t, l, acquire) :
    answer' = <<seen.value>> /\ Publish(t, l, seen.past)

Next ==
  \E t \in Threads, l \in Locations :
    \/ Store(t, l)
    \/ \E acquire \in BOOLEAN : Load(t, l, acquire) \/ Rmw(t, l, acquire)

Spec == Init /\ [][Next]_vars

=============================================================================
