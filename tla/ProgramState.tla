---------------------------- MODULE ProgramState ----------------------------
(***************************************************************************)
(* One state of an execution (state/program-state.cpp), and the effect of   *)
(* the statements on it (interpreter/interpreter.cpp).                      *)
(*                                                                          *)
(* A state is a record                                                      *)
(*   next     : next_thread_id;                                             *)
(*   current  : current_thread_id, possibly of a thread that has ended;     *)
(*   allowed  : is_allowed_interleaving;                                    *)
(*   storage  : the storage subsystem;                                      *)
(*   threads  : id -> [pc, regs] of the active threads;                     *)
(*   finished : id -> registers of the threads that have ended.             *)
(* last_evaluated_value and goto_instruction carry a value from one visit   *)
(* method to the next within a statement and are not part of the state.     *)
(***************************************************************************)
EXTENDS Language, Maps, FiniteSets

CONSTANT IntBits    \* the width of int

ASSUME IntBitsAssumption == IntBits \in Nat \ {0}

Storage == INSTANCE StorageSubsystem

Half == 2 ^ (IntBits - 1)

\* Arithmetic of int as the build does it: overflow wraps around.
Wrap(n) == ((n + Half) % (2 * Half)) - Half

\* Division truncates towards zero.
Quotient(a, b) ==
  LET Abs(n) == IF n < 0 THEN -n ELSE n
      q == Abs(a) \div Abs(b)
  IN  IF (a < 0) = (b < 0) THEN q ELSE -q

Compute(op, a, b) ==
  CASE op = "+" -> Wrap(a + b)
    [] op = "-" -> Wrap(a - b)
    [] op = "*" -> Wrap(a * b)
    [] op = "/" -> Quotient(a, b)

----------------------------------------------------------------------------
(* ProgramState *)

\* add_thread
AddThread(mm, s, pc) ==
  [s EXCEPT !.threads = Put(@, s.next, [pc |-> pc, regs |-> EmptyMap]),
            !.storage = Storage!PrepareThread(mm, @, s.next),
            !.next    = @ + 1]

\* The constructor, followed by the add_thread(0) of every run().
InitialState(mm) ==
  AddThread(mm,
    [next |-> 0, current |-> 0, allowed |-> TRUE, storage |-> Storage!New(mm),
     threads |-> EmptyMap, finished |-> EmptyMap],
    1)

Active(s) == DOMAIN s.threads

HasActiveThreads(s) == Active(s) # {}

IsInterleavingPossible(s) ==
  s.allowed /\ (Cardinality(Active(s)) > 1 \/ s.current \notin Active(s))

\* get_interleaving_state(t), which throws unless t is active and not current.
CanSwitchTo(s, t) == t \in Active(s) \ {s.current}

SwitchTo(s, t) == [s EXCEPT !.current = t]

HasEps(mm, s) == Storage!HasEps(mm, s.storage, s.current)

\* get_eps_transition_states
EpsStates(mm, s) ==
  {[s EXCEPT !.storage = new] : new \in Storage!EpsStorages(mm, s.storage, s.current)}

\* The current thread, its registers and the statement it is at.
Regs(s) == s.threads[s.current].regs
StatementAt(p, s) == p.statements[s.threads[s.current].pc]

SetReg(s, reg, value) == [s EXCEPT !.threads[s.current].regs = Put(@, reg, value)]

\* update_current_thread_instruction: to the next statement, or to the target
\* of the jump the statement took.
Advance(s) == [s EXCEPT !.threads[s.current].pc = @ + 1]
Jump(p, s, label) == [s EXCEPT !.threads[s.current].pc = p.labels[label]]

----------------------------------------------------------------------------
(* Expressions: the value and the storage after the evaluation. *)

EvaluateCas(mm, s, e) ==
  LET flushed == Storage!FlushThread(mm, s.storage, s.current)
      read    == Storage!Read(mm, flushed, s.current, e.loc, e.order)
  IN  [value   |-> read.value,
       storage |-> IF read.value = Regs(s)[e.expected]
                   THEN Storage!Write(mm, read.storage, s.current, e.loc,
                                      Regs(s)[e.desired], e.order)
                   ELSE read.storage]

\* Mutant of EvaluateFai: the store does not get the mode.
FaiForgetsMode(mm, s, e) ==
  LET flushed == Storage!FlushThread(mm, s.storage, s.current)
      read    == Storage!Read(mm, flushed, s.current, e.loc, e.order)
  IN  [value   |-> read.value,
       storage |-> Storage!Write(mm, read.storage, s.current, e.loc,
                                 Wrap(read.value + Regs(s)[e.reg]), "RLX")]

EvaluateFai(mm, s, e) ==
  LET flushed == Storage!FlushThread(mm, s.storage, s.current)
      read    == Storage!Read(mm, flushed, s.current, e.loc, e.order)
  IN  [value   |-> read.value,
       storage |-> Storage!Write(mm, read.storage, s.current, e.loc,
                                 Wrap(read.value + Regs(s)[e.reg]), e.order)]

Evaluate(mm, s, e) ==
  CASE e.kind = "number" -> [value |-> e.value, storage |-> s.storage]
    [] e.kind = "binop"  -> [value |-> Compute(e.op, Regs(s)[e.left], Regs(s)[e.right]),
                             storage |-> s.storage]
    [] e.kind = "cas"    -> EvaluateCas(mm, s, e)
    [] e.kind = "fai"    -> EvaluateFai(mm, s, e)

----------------------------------------------------------------------------
(* Statements: what each does to the state of the thread that executes it. *)

Assigned(mm, s, stmt) ==
  LET result == Evaluate(mm, s, stmt.expr)
  IN  [SetReg(s, stmt.reg, result.value) EXCEPT !.storage = result.storage]

Loaded(mm, s, stmt) ==
  LET read == Storage!Read(mm, s.storage, s.current, stmt.loc, stmt.order)
  IN  [SetReg(s, stmt.reg, read.value) EXCEPT !.storage = read.storage]

Stored(mm, s, stmt) ==
  [s EXCEPT !.storage = Storage!Write(mm, @, s.current, stmt.loc, Regs(s)[stmt.reg], stmt.order)]

\* Mutant of Ended: the thread stays in the map.
EndedStaysActive(s) == [s EXCEPT !.finished = Put(@, s.current, Regs(s))]

Ended(s) ==
  [s EXCEPT !.finished = Put(@, s.current, Regs(s)),
            !.threads  = Erase(@, s.current)]

\* get_transition_state: the state after the current thread's statement.
Transition(p, mm, s) ==
  LET stmt == StatementAt(p, s)
  IN  CASE stmt.kind = "goto"        -> Jump(p, s, stmt.label)
        [] stmt.kind = "if"          -> IF Regs(s)[stmt.reg] # 0 THEN Jump(p, s, stmt.label)
                                                                 ELSE Advance(s)
        [] stmt.kind = "thread_goto" -> Advance(AddThread(mm, s, p.labels[stmt.label]))
        [] stmt.kind = "assign"      -> Advance(Assigned(mm, s, stmt))
        [] stmt.kind = "load"        -> Advance(Loaded(mm, s, stmt))
        [] stmt.kind = "store"       -> Advance(Stored(mm, s, stmt))
        [] stmt.kind \in {"cas", "fai"} ->
             Advance([s EXCEPT !.storage = Evaluate(mm, s, stmt).storage])
        [] stmt.kind = "fence"       -> Advance([s EXCEPT !.storage =
                                          Storage!Fence(mm, @, s.current, stmt.order)])
        [] stmt.kind = "end"         -> Ended(s)

\* The registers a statement reads: get() throws for one never assigned.
RegistersRead(stmt) ==
  LET node == Evaluated(stmt)
  IN  CASE node.kind \in {"if", "store", "fai"} -> {node.reg}
        [] node.kind = "binop" -> {node.left, node.right}
        [] node.kind = "cas"   -> {node.expected, node.desired}
        [] OTHER -> {}

\* Mutant of Completes: the label is looked up whether the jump is taken or not.
CompletesWithLabels(p, mm, s) ==
  LET stmt == StatementAt(p, s)
  IN  /\ RegistersRead(stmt) \subseteq DOMAIN Regs(s)
      /\ stmt.kind \in {"goto", "thread_goto", "if"} => stmt.label \in DOMAIN p.labels
      /\ stmt.kind = "fence" => ~Storage!FenceThrows(mm)
      /\ stmt.kind = "assign" /\ stmt.expr.kind = "binop" => stmt.expr.op # "/" \/ Regs(s)[stmt.expr.right] # 0

\* The statement completes.  Otherwise the process ends there, with an exception
\* or, for a division, a signal.  A jump that is not taken looks nothing up.
Completes(p, mm, s) ==
  LET stmt == StatementAt(p, s)
  IN  /\ RegistersRead(stmt) \subseteq DOMAIN Regs(s)
      /\ stmt.kind \in {"goto", "thread_goto"} => stmt.label \in DOMAIN p.labels
      /\ stmt.kind = "if" => Regs(s)[stmt.reg] = 0 \/ stmt.label \in DOMAIN p.labels
      /\ stmt.kind = "fence" => ~Storage!FenceThrows(mm)
      /\ stmt.kind = "assign" /\ stmt.expr.kind = "binop" /\ stmt.expr.op = "/" =>
           /\ Regs(s)[stmt.expr.right] # 0
           /\ ~(Regs(s)[stmt.expr.right] = -1 /\ Regs(s)[stmt.expr.left] = -Half)

=============================================================================
