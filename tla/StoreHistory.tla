---------------------------- MODULE StoreHistory ----------------------------
(***************************************************************************)
(* What the threads have stored so far, and when each store took effect.    *)
(* No code corresponds to this module: it is the vocabulary in which the    *)
(* promises of the buffering storages are stated, and the history variable  *)
(* of their models.                                                         *)
(*                                                                          *)
(* A history is a record                                                    *)
(*   stores : thread -> sequence, in program order, of [loc, val, at];      *)
(*            at = 0 while the store is pending, and the time at which it   *)
(*            took effect once it is committed;                             *)
(*   clock  : the time of the last commit.                                  *)
(* Stores that one indivisible flush commits share their time; their        *)
(* program order decides among them.                                        *)
(***************************************************************************)
EXTENDS Integers, Sequences

NewHistory(threads) == [stores |-> [t \in threads |-> <<>>], clock |-> 0]

Pending(h, t) == {i \in DOMAIN h.stores[t] : h.stores[t][i].at = 0}

PendingTo(h, t, l) == {i \in Pending(h, t) : h.stores[t][i].loc = l}

\* Thread t issues a store of v to l.
Issue(h, t, l, v) ==
  [h EXCEPT !.stores[t] = Append(@, [loc |-> l, val |-> v, at |-> 0])]

\* The stores I of thread t take effect, in program order and at once.
Commit(h, t, I) ==
  IF I = {} THEN h
  ELSE [stores |-> [h.stores EXCEPT ![t] =
                      [i \in DOMAIN @ |-> IF i \in I THEN [@[i] EXCEPT !.at = h.clock + 1]
                                                     ELSE @[i]]],
        clock |-> h.clock + 1]

\* Everything thread t has pending takes effect.
Drain(h, t) == Commit(h, t, Pending(h, t))

\* The oldest of the stores I, as a set of at most one; and the newest.
Oldest(I) == {i \in I : \A j \in I : i <= j}
Newest(I) == CHOOSE i \in I : \A j \in I : i >= j

\* The committed stores to l, as pairs of a thread and a position.
CommittedTo(h, l) ==
  {w \in UNION {{t} \X DOMAIN h.stores[t] : t \in DOMAIN h.stores} :
     LET e == h.stores[w[1]][w[2]] IN e.loc = l /\ e.at > 0}

\* Store w took effect after store x.
Later(h, w, x) ==
  LET a == h.stores[w[1]][w[2]].at
      b == h.stores[x[1]][x[2]].at
  IN  a > b \/ (a = b /\ w[1] = x[1] /\ w[2] > x[2])

\* What memory must hold for l: the value of the last committed store, or 0.
LatestValue(h, l) ==
  LET W == CommittedTo(h, l)
      last == CHOOSE w \in W : \A x \in W : x = w \/ Later(h, w, x)
  IN  IF W = {} THEN 0 ELSE h.stores[last[1]][last[2]].val

\* What thread t must see for l: its own newest pending store, else memory.
VisibleValue(h, t, l) ==
  LET own == PendingTo(h, t, l)
  IN  IF own # {} THEN h.stores[t][Newest(own)].val ELSE LatestValue(h, l)

=============================================================================
