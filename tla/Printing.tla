------------------------------ MODULE Printing ------------------------------
(***************************************************************************)
(* The get_printable_state methods and print_state: what of a state reaches *)
(* the terminal.  A printed state is the set of its lines, each a sequence  *)
(* that starts with the heading it stands under; the order of lines is that *)
(* of hash maps for the most part.  "[empty]" and a heading with nothing    *)
(* under it are the absence of lines.                                       *)
(* Words and layout are left out, and the mode of SRA's messages, which the *)
(* model does not keep.                                                     *)
(***************************************************************************)
EXTENDS Integers, Sequences, Maps

EntryLines(heading, map) == {heading \o <<key, map[key]>> : key \in DOMAIN map}

SCLines(s) == EntryLines(<<"Memory">>, s.memory)

\* A line per thread: its queue, oldest store first.
TSOLines(s) == EntryLines(<<"Memory">>, s.memory) \cup EntryLines(<<"Store buffers">>, s.buffers)

\* A line per thread and location.
PSOLines(s) ==
  EntryLines(<<"Memory">>, s.memory)
    \cup UNION {EntryLines(<<"Store buffers", t>>, s.buffers[t]) : t \in DOMAIN s.buffers}

\* Mutant of SRALines: the views of the threads are left out.
SRALinesWithoutViews(s) ==
  {<<"Memory", i, s.messages[i].loc, s.messages[i].val,
     At(s.messages[i].view, s.messages[i].loc, 0)>> : i \in DOMAIN s.messages}
    \cup EntryLines(<<"Global timestamps">>, s.stamps)

\* Of a message's view only the timestamp of its own location is printed.
SRALines(s) ==
  {<<"Memory", i, s.messages[i].loc, s.messages[i].val,
     At(s.messages[i].view, s.messages[i].loc, 0)>> : i \in DOMAIN s.messages}
    \cup EntryLines(<<"Global timestamps">>, s.stamps)
    \cup UNION {EntryLines(<<"Thread views", t>>, s.views[t]) : t \in DOMAIN s.views}

\* StorageSubsystem::get_printable_state
PrintableState(mm, s) ==
  CASE mm = "sc"  -> SCLines(s)
    [] mm = "tso" -> TSOLines(s)
    [] mm = "pso" -> PSOLines(s)
    [] mm = "sra" -> SRALines(s)

\* ThreadSubsystem::get_printable_state
RegisterLines(regs) == EntryLines(<<"Registers">>, regs)

\* Interpreter::print_state, of a state whose threads have all ended.
FinalLines(mm, s) ==
  PrintableState(mm, s.storage)
    \cup UNION {EntryLines(<<"Thread", t>>, s.finished[t]) : t \in DOMAIN s.finished}

=============================================================================
