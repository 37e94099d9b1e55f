----------------------------- MODULE SRAStorage -----------------------------
(***************************************************************************)
(* The strong release-acquire storage as a value and the operations of      *)
(* SRAStorageSubsystem on it (storage-subsystem/sra).                       *)
(*                                                                          *)
(* A storage is a record                                                    *)
(*   messages : the stores in the order they were made, [loc, val, view];   *)
(*   views    : thread -> view, for the threads prepared so far;            *)
(*   stamps   : location -> timestamp of its newest message.                *)
(* A view maps locations to timestamps; a location it lacks is at 0.  The   *)
(* access mode a message also records is only printed.  fence() throws      *)
(* whatever its mode: there is no operator for it.                          *)
(***************************************************************************)
EXTENDS Integers, SequencesExt, FiniteSetsExt, Maps

New == [messages |-> <<>>, views |-> EmptyMap, stamps |-> EmptyMap]

\* ThreadView::get_timestamp
Timestamp(view, l) == At(view, l, 0)

\* m_thread_views[thread]: a thread that was not prepared gets an empty view.
View(s, t) == At(s.views, t, EmptyMap)

\* Mutants of Join: insert, which keeps what is there; assignment.
JoinKeepsOwn(v, w) ==
  [l \in DOMAIN v \cup DOMAIN w |-> IF l \in DOMAIN v THEN v[l] ELSE w[l]]

JoinTakesMessage(v, w) ==
  [l \in DOMAIN v \cup DOMAIN w |-> IF l \in DOMAIN w THEN w[l] ELSE v[l]]

Join(v, w) ==
  [l \in DOMAIN v \cup DOMAIN w |->
     IF Timestamp(v, l) >= Timestamp(w, l) THEN Timestamp(v, l) ELSE Timestamp(w, l)]

Acquires(m) == m \in {"ACQ", "REL_ACQ"}
Releases(m) == m \in {"REL", "REL_ACQ"}

\* prepare_thread: insert keeps a view that is already there.
PrepareThread(s, t) ==
  IF t \in DOMAIN s.views THEN s ELSE [s EXCEPT !.views = Put(@, t, EmptyMap)]

\* The positions of the messages thread t reads from for l; the code takes the
\* first.  There is none while the thread's view of l is at 0.
ReadFrom(s, t, l) ==
  {i \in DOMAIN s.messages :
     /\ s.messages[i].loc = l
     /\ Timestamp(s.messages[i].view, l) = Timestamp(View(s, t), l)}

\* read: the message at the thread's own timestamp, 0 without one; an acquiring
\* read joins the message's view.
Read(s, t, l, m) ==
  LET from == ReadFrom(s, t, l)
      msg  == s.messages[Min(from)]
      view == IF from # {} /\ Acquires(m) THEN Join(View(s, t), msg.view) ELSE View(s, t)
  IN  [value   |-> IF from = {} THEN 0 ELSE msg.val,
       storage |-> [s EXCEPT !.views = Put(@, t, view)]]

\* Mutant of Write: the timestamp follows the thread's own view.
WriteAfterOwnView(s, t, l, v, m) ==
  LET stamp == Timestamp(View(s, t), l) + 1
      view  == Put(View(s, t), l, stamp)
  IN  [messages |-> Append(s.messages,
                           [loc  |-> l, val |-> v,
                            view |-> IF Releases(m) THEN view ELSE Put(EmptyMap, l, stamp)]),
       views    |-> Put(s.views, t, view),
       stamps   |-> Put(s.stamps, l, stamp)]

\* Mutant of Write: a releasing message carries its own location only.
WriteForgetsView(s, t, l, v, m) ==
  LET stamp == At(s.stamps, l, 0) + 1
  IN  [messages |-> Append(s.messages, [loc |-> l, val |-> v, view |-> Put(EmptyMap, l, stamp)]),
       views    |-> Put(s.views, t, Put(View(s, t), l, stamp)),
       stamps   |-> Put(s.stamps, l, stamp)]

\* write: the message gets the next timestamp of its location; a releasing one
\* carries the whole view of its thread.
Write(s, t, l, v, m) ==
  LET stamp == At(s.stamps, l, 0) + 1
      view  == Put(View(s, t), l, stamp)
  IN  [messages |-> Append(s.messages,
                           [loc  |-> l, val |-> v,
                            view |-> IF Releases(m) THEN view ELSE Put(EmptyMap, l, stamp)]),
       views    |-> Put(s.views, t, view),
       stamps   |-> Put(s.stamps, l, stamp)]

\* get_increase_locations: where the thread's view is behind.
IncreaseLocations(s, t) ==
  {l \in DOMAIN s.stamps : Timestamp(View(s, t), l) < s.stamps[l]}

HasEps(s, t) == t \in DOMAIN s.views /\ IncreaseLocations(s, t) # {}

\* increase_location_local_timestamp: one step forward, without reading.  Both
\* maps are accessed with operator[], which inserts what is missing.
Increase(s, t, l) ==
  LET own    == Timestamp(View(s, t), l)
      newest == At(s.stamps, l, 0)
  IN  [s EXCEPT !.stamps = Put(@, l, newest),
                !.views  = Put(@, t, IF own < newest THEN Put(View(s, t), l, own + 1)
                                                     ELSE View(s, t))]

\* get_eps_transitions: one successor per location.
EpsStorages(s, t) ==
  IF HasEps(s, t) THEN {Increase(s, t, l) : l \in IncreaseLocations(s, t)} ELSE {}

=============================================================================
