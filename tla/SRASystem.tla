------------------------------ MODULE SRASystem ------------------------------
(***************************************************************************)
(* The strong release-acquire storage under threads that are prepared, and  *)
(* then call it, in any order: the statements that reach storage and the    *)
(* epsilon transitions.  flush and flush(int) are the base class's no-ops.  *)
(*                                                                          *)
(* "known", "carries" and "answer" are history variables: the messages      *)
(* (positions in storage.messages) that happen before the present of each   *)
(* thread, those a reader that acquires each message learns of, and the     *)
(* value the last operation returned.                                       *)
(***************************************************************************)
EXTENDS SRAStorage, MemoryOrder

CONSTANTS Threads, Locations,
          Values,      \* bound: the integers that may occur
          Operands,    \* what registers hold: values to store, to add, to compare
          Modes,       \* the access modes that occur
          MaxStores    \* bound: the stores in a behaviour

ASSUME ConstantsAssumption ==
  /\ Values \subseteq Int
  /\ Operands \subseteq Values
  /\ 0 \in Values
  /\ Modes \subseteq MemoryOrders

VARIABLES storage, known, carries, answer

vars == <<storage, known, carries, answer>>

Init ==
  /\ storage = New
  /\ known = [t \in Threads |-> {}]
  /\ carries = <<>>
  /\ answer = <<>>

Prepared(t) == t \in DOMAIN storage.views

WithinBound == Len(storage.messages) < MaxStores

----------------------------------------------------------------------------
(* The history variables.  A read of a message learns of the message; an     *)
(* acquiring one also of what the message carries.                           *)

Learnt(t, l, m) ==
  LET from == ReadFrom(storage, t, l)
  IN  known[t] \cup from \cup IF Acquires(m) THEN UNION {carries[i] : i \in from} ELSE {}

\* Thread t, knowing "past", adds the next message.
Publishes(t, past, m) ==
  LET new == Len(storage.messages) + 1
  IN  /\ known' = [known EXCEPT ![t] = past \cup {new}]
      /\ carries' = Append(carries, IF Releases(m) THEN past \cup {new} ELSE {new})

----------------------------------------------------------------------------

Prepare(t) ==
  /\ ~Prepared(t)
  /\ storage' = PrepareThread(storage, t)
  /\ UNCHANGED <<known, carries, answer>>

Load(t, l, m) ==
  LET read == Read(storage, t, l, m)
  IN  /\ storage' = read.storage
      /\ answer' = <<read.value>>
      /\ known' = [known EXCEPT ![t] = Learnt(t, l, m)]
      /\ UNCHANGED carries

Store(t, l, v, m) ==
  /\ WithinBound
  /\ storage' = Write(storage, t, l, v, m)
  /\ answer' = <<>>
  /\ Publishes(t, known[t], m)

Cas(t, l, expected, desired, m) ==
  LET read == Read(storage, t, l, m)
  IN  /\ WithinBound
      /\ read.value = expected
      /\ storage' = Write(read.storage, t, l, desired, m)
      /\ answer' = <<read.value>>
      /\ Publishes(t, Learnt(t, l, m), m)

CasFails(t, l, expected, m) ==
  Read(storage, t, l, m).value # expected /\ Load(t, l, m)

Fai(t, l, increment, m) ==
  LET read == Read(storage, t, l, m)
  IN  /\ WithinBound /\ read.value + increment \in Values
      /\ storage' = Write(read.storage, t, l, read.value + increment, m)
      /\ answer' = <<read.value>>
      /\ Publishes(t, Learnt(t, l, m), m)

Epsilon(t) ==
  /\ HasEps(storage, t)
  /\ storage' \in EpsStorages(storage, t)
  /\ UNCHANGED <<known, carries, answer>>

Next ==
  \E t \in Threads :
    \/ Prepare(t)
    \/ /\ Prepared(t)
       /\ \/ Epsilon(t)
          \/ \E m \in Modes, l \in Locations :
               \/ Load(t, l, m)
               \/ \E v \in Operands :
                    \/ Store(t, l, v, m)
                    \/ Fai(t, l, v, m)
                    \/ CasFails(t, l, v, m)
                    \/ \E e \in Operands \cup {0} : Cas(t, l, e, v, m)

Spec == Init /\ [][Next]_vars

----------------------------------------------------------------------------
(* Properties *)

\* Type correctness: no view, of a thread or in a message, is ahead of the
\* newest message of a location.
TypeOK ==
  /\ DOMAIN storage.stamps \subseteq Locations
  /\ DOMAIN storage.views \subseteq Threads
  /\ Len(carries) = Len(storage.messages)
  /\ \A i \in DOMAIN storage.messages :
       /\ storage.messages[i].loc \in Locations
       /\ storage.messages[i].val \in Values
  /\ \A view \in Range(storage.views) \cup {storage.messages[i].view : i \in DOMAIN storage.messages} :
       \A l \in DOMAIN view : view[l] \in 1..At(storage.stamps, l, 0)

\* The timestamp of the message at position i.
StampOf(i) == Timestamp(storage.messages[i].view, storage.messages[i].loc)

\* Every timestamp of a location up to its newest names exactly one message,
\* and later messages have later timestamps.  SRAStorageSubsystem::read returns
\* 0 when it finds no message, as if the location had never been written, and
\* takes the first when there are several.
OneMessagePerTimestamp ==
  \A l \in Locations :
    LET stored == {i \in DOMAIN storage.messages : storage.messages[i].loc = l}
        newest == At(storage.stamps, l, 0)
    IN  /\ \A i \in stored : StampOf(i) \in 1..newest
        /\ \A n \in 1..newest : \E i \in stored : StampOf(i) = n
        /\ \A i, j \in stored : i < j => StampOf(i) < StampOf(j)

\* Causality: once a message happens before a thread's present, through what
\* it read, stored and acquired from others, the thread never reads an older
\* message of that location.
CausalityRespected ==
  \A t \in Threads : \A i \in known[t] :
    LET msg == storage.messages[i]
    IN  Timestamp(View(storage, t), msg.loc) >= Timestamp(msg.view, msg.loc)

\* No step, of its own thread or another's, takes a view back.
ViewsOnlyAdvance ==
  [][\A t \in Threads, l \in Locations :
       Timestamp(View(storage', t), l) >= Timestamp(View(storage, t), l)]_vars

Promise ==
  INSTANCE ReleaseAcquireOrder
    WITH stores <- [i \in DOMAIN storage.messages |->
                      [loc     |-> storage.messages[i].loc,
                       val     |-> storage.messages[i].val,
                       carries |-> carries[i]]]

\* Whatever the views and epsilon transitions, every operation returns what a
\* release-acquire memory may return: views, timestamps and the joins of views
\* in read and write add up to knowing what was read, stored and acquired.
ImplementsReleaseAcquire == Promise!Spec

=============================================================================
