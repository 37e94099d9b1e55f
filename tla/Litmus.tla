------------------------------- MODULE Litmus -------------------------------
(***************************************************************************)
(* Programs to run the interpreters on: those of tests/test-data, others in *)
(* the same style for what the tests do not reach, and the outcomes each    *)
(* memory model forbids.                                                    *)
(***************************************************************************)
EXTENDS Language, SequencesExt

ThreadLabels == <<"T1", "T2", "T3">>

\* A main thread that starts one thread per body and ends; each body ends with
\* goto END.  Thread i of the execution runs bodies[i], thread 0 is main.
Parallel(bodies) ==
  LET main == [i \in DOMAIN bodies |-> ThreadGoto(ThreadLabels[i])] \o <<Goto("END")>>
      Text(n) == FoldLeft(LAMBDA text, body : text \o body \o <<Goto("END")>>,
                          main, SubSeq(bodies, 1, n))
      code == Text(Len(bodies)) \o <<End>>
      started == {ThreadLabels[i] : i \in DOMAIN bodies}
  IN  [statements |-> code,
       labels     |-> [label \in started \cup {"END"} |->
                         IF label = "END" THEN Len(code)
                         ELSE Len(Text((CHOOSE i \in DOMAIN bodies : ThreadLabels[i] = label) - 1)) + 1]]

Sequential(body) ==
  [statements |-> Append(body, End), labels |-> [label \in {"END"} |-> Len(body) + 1]]

One == Assign("r", Number(1))
Two == Assign("r", Number(2))

----------------------------------------------------------------------------
(* tests/test-data *)

StoreBuffering == Parallel(<<
  <<One, StoreFrom("RLX", "x", "r"), LoadTo("RLX", "y", "a")>>,
  <<One, StoreFrom("RLX", "y", "r"), LoadTo("RLX", "x", "b")>> >>)

StoreBufferingStrong == Parallel(<<
  <<One, StoreFrom("SEQ_CST", "x", "r"), LoadTo("RLX", "y", "a")>>,
  <<One, StoreFrom("SEQ_CST", "y", "r"), LoadTo("RLX", "x", "b")>> >>)

MessagePassing == Parallel(<<
  <<One, StoreFrom("RLX", "x", "r"), StoreFrom("RLX", "y", "r")>>,
  <<LoadTo("RLX", "y", "a"), LoadTo("RLX", "x", "b")>> >>)

MessagePassingSeqCst == Parallel(<<
  <<One, StoreFrom("SEQ_CST", "x", "r"), StoreFrom("SEQ_CST", "y", "r")>>,
  <<LoadTo("RLX", "y", "a"), LoadTo("RLX", "x", "b")>> >>)

MessagePassingRelAcq == Parallel(<<
  <<One, StoreFrom("REL", "x", "r"), StoreFrom("REL", "y", "r")>>,
  <<LoadTo("ACQ", "y", "a"), LoadTo("ACQ", "x", "b")>> >>)

LoadBuffering == Parallel(<<
  <<One, LoadTo("RLX", "x", "a"), StoreFrom("RLX", "y", "r")>>,
  <<One, LoadTo("RLX", "y", "b"), StoreFrom("RLX", "x", "r")>> >>)

SingleThread == Sequential(<<
  One, StoreFrom("RLX", "x", "r"),
  Assign("r", Number(3)), StoreFrom("RLX", "x", "r"), LoadTo("RLX", "x", "a")>>)

----------------------------------------------------------------------------
(* More of them *)

\* Store buffering with a fence between the store and the load.
StoreBufferingFenced == Parallel(<<
  <<One, StoreFrom("RLX", "x", "r"), FenceOf("SEQ_CST"), LoadTo("RLX", "y", "a")>>,
  <<One, StoreFrom("RLX", "y", "r"), FenceOf("SEQ_CST"), LoadTo("RLX", "x", "b")>> >>)

\* Message passing with a fence between the stores.
MessagePassingFenced == Parallel(<<
  <<One, StoreFrom("RLX", "x", "r"), FenceOf("SEQ_CST"), StoreFrom("RLX", "y", "r")>>,
  <<LoadTo("RLX", "y", "a"), LoadTo("RLX", "x", "b")>> >>)

\* Two stores to one location, read twice.
Coherence == Parallel(<<
  <<One, StoreFrom("RLX", "x", "r"), Two, StoreFrom("RLX", "x", "r")>>,
  <<LoadTo("RLX", "x", "a"), LoadTo("RLX", "x", "b")>> >>)

\* Two writers of two locations in opposite orders; memory decides.
TwoPlusTwoWrites == Parallel(<<
  <<One, StoreFrom("RLX", "x", "r"), Two, StoreFrom("RLX", "y", "r")>>,
  <<One, StoreFrom("RLX", "y", "r"), Two, StoreFrom("RLX", "x", "r")>> >>)

\* A message handed on: the first store must be visible two threads away.
Causality == Parallel(<<
  <<One, StoreFrom("REL", "x", "r")>>,
  <<LoadTo("ACQ", "x", "a"), StoreFrom("REL", "y", "a")>>,
  <<LoadTo("ACQ", "y", "b"), LoadTo("ACQ", "x", "c")>> >>)

\* Two fetch-and-increments of one counter, with the given mode.
Increments(order) == Parallel(<<
  <<One, Assign("a", Fai(order, "x", "r"))>>,
  <<One, Assign("b", Fai(order, "x", "r"))>> >>)

\* A store handed over by a fetch-and-increment of y.
Publish(order) == Parallel(<<
  <<One, StoreFrom("RLX", "x", "r"), Assign("a", Fai(order, "y", "r"))>>,
  <<One, StoreFrom("RLX", "z", "r"), Assign("b", Fai(order, "y", "r")),
    LoadTo("RLX", "x", "c")>> >>)

\* Two attempts to take one lock.
Locks(order) == Parallel(<<
  <<One, Assign("e", Number(0)), Assign("a", Cas(order, "x", "e", "r"))>>,
  <<Two, Assign("e", Number(0)), Assign("b", Cas(order, "x", "e", "r"))>> >>)

\* Read-modify-writes that stand alone: increments by 1 and by 2, and a lock
\* taken with whatever outcome.
Discarding(order) == Parallel(<<
  <<One, Assign("e", Number(0)), Fai(order, "x", "r"), Cas(order, "y", "e", "r")>>,
  <<Two, Assign("e", Number(0)), Fai(order, "x", "r"), Cas(order, "y", "e", "r"),
    LoadTo(order, "y", "a")>> >>)

\* An increment that stands alone, and a reader.
Tally == Parallel(<<
  <<One, Fai("SEQ_CST", "x", "r")>>,
  <<LoadTo("RLX", "x", "a"), LoadTo("RLX", "x", "b")>> >>)

\* A writer, and a reader that waits for the flag y before it reads x.
Waiting(flagMode, loadMode) == [
  statements |-> <<ThreadGoto("T1"), ThreadGoto("T2"), Goto("END"),
                   One, StoreFrom("RLX", "x", "r"), StoreFrom(flagMode, "y", "r"), Goto("END"),
                   LoadTo(loadMode, "y", "a"), If("a", "READ"), Goto("T2"),
                   LoadTo(loadMode, "x", "b"), End>>,
  labels |-> [label \in {"T1", "T2", "READ", "END"} |->
                CASE label = "T1" -> 4 [] label = "T2" -> 8
                  [] label = "READ" -> 11 [] label = "END" -> 12]]

\* The main thread goes on after it has started another.
SpawnAndStore == [
  statements |-> <<ThreadGoto("T1"), One, StoreFrom("SEQ_CST", "x", "r"), Goto("END"),
                   LoadTo("SEQ_CST", "x", "a"), End>>,
  labels |-> [label \in {"T1", "END"} |-> IF label = "T1" THEN 5 ELSE 6]]

\* The main thread stores before it starts another.
Handover == [
  statements |-> <<One, StoreFrom("SEQ_CST", "x", "r"), ThreadGoto("T1"), Goto("END"),
                   LoadTo("SEQ_CST", "x", "a"), End>>,
  labels |-> [label \in {"T1", "END"} |-> IF label = "T1" THEN 5 ELSE 6]]

\* Thread 2 starts a further thread unless it sees the store of thread 1, and
\* ends with the same registers in both cases.
SpawnOnDemand == [
  statements |-> <<ThreadGoto("T1"), ThreadGoto("T2"), Goto("END"),
                   One, StoreFrom("SEQ_CST", "x", "r"), Goto("END"),
                   LoadTo("SEQ_CST", "x", "b"), If("b", "LATE"),
                   Assign("b", Number(1)), ThreadGoto("END"), Goto("END")>>
                 \o [i \in 1..6 |-> Assign("b", Number(1))] \o <<Goto("END"), End>>,
  labels |-> [label \in {"T1", "T2", "LATE", "END"} |->
                CASE label = "T1" -> 4 [] label = "T2" -> 7
                  [] label = "LATE" -> 12 [] label = "END" -> 19]]

\* Arithmetic, and jumps taken and not taken, in one thread.
Arithmetic == [
  statements |-> <<Assign("a", Number(7)), Assign("b", Number(2)),
                   Assign("c", BinOp("/", "a", "b")), Assign("d", BinOp("*", "a", "c")),
                   Assign("z", BinOp("-", "a", "a")), If("z", "NOWHERE"),
                   Assign("e", BinOp("-", "z", "a")), Assign("e", BinOp("/", "e", "b")),
                   If("a", "LAST"), Assign("a", Number(0)),
                   Assign("f", BinOp("+", "d", "d")), End>>,
  labels |-> [label \in {"LAST", "END"} |-> IF label = "LAST" THEN 11 ELSE 12]]

\* Results beyond the largest integer, which is max, and below the smallest.
Overflow(max) == Sequential(<<
  Assign("a", Number(max)), One, Assign("c", BinOp("+", "a", "r")),
  Assign("d", BinOp("-", "c", "r")), Assign("e", BinOp("*", "a", "a")),
  Assign("f", BinOp("-", "a", "c")), Assign("g", BinOp("*", "c", "f")),
  Assign("h", BinOp("/", "a", "f")),
  StoreFrom("RLX", "x", "a"), Assign("b", Fai("RLX", "x", "r")), LoadTo("RLX", "x", "i")>>)

\* Programs that parse and fail when run.
SmallestByMinusOne(max) == Sequential(<<
  Assign("a", Number(max)), One, Assign("c", BinOp("+", "a", "r")),
  Assign("f", BinOp("-", "a", "c")), Assign("q", BinOp("/", "c", "f"))>>)
DivisionByZero   == Sequential(<<One, Assign("z", Number(0)), Assign("q", BinOp("/", "r", "z"))>>)
UnassignedSource == Sequential(<<StoreFrom("RLX", "x", "r")>>)
UnknownLabel     == Sequential(<<One, If("r", "NOWHERE")>>)

=============================================================================
