---------------------------- MODULE BaseContext ----------------------------
(***************************************************************************)
(* The context of a host (src/base/base_context): the tasks posted to its  *)
(* event loop and the visitors called when it ends; and the thread or the  *)
(* main program that runs the loop while it is not told to stop.           *)
(*                                                                         *)
(* Here every task is "delete this" of the object that posted it, so the   *)
(* queue holds objects.  A context is a record, and each method an         *)
(* operator from a context to its next value.                              *)
(***************************************************************************)
EXTENDS Sequences, FiniteSets

\* running: running_ of the thread, g_running of a main program;
\* gone: the context was destroyed, with everything that belonged to it.
Context(Objects) ==
  [ tasks : Seq(Objects), visitors : SUBSET Objects,
    running : BOOLEAN, gone : BOOLEAN ]

\* Start (or main): the loop is entered.
NewContext == [tasks |-> <<>>, visitors |-> {}, running |-> TRUE, gone |-> FALSE]

PostTask(c, object) == [c EXCEPT !.tasks = Append(@, object)]

RegisterExitVisitor(c, object) == [c EXCEPT !.visitors = @ \cup {object}]
UnRegisterExitVisitor(c, object) == [c EXCEPT !.visitors = @ \ {object}]

\* ExecuteTask takes the whole queue and runs it; tasks posted meanwhile stay.
TasksOf(c) == {c.tasks[i] : i \in DOMAIN c.tasks}
ExecuteTask(c) == [c EXCEPT !.tasks = <<>>]

\* Stop, or the handler of a signal: the loop ends after the round it is in.
Stop(c) == [c EXCEPT !.running = FALSE]

InLoop(c) == ~ c.gone
LoopEnds(c) == ~ c.running /\ ~ c.gone

\* ~BaseContext: every visitor exits, the tasks run, nothing is left.
Destroy(c) == [c EXCEPT !.tasks = <<>>, !.visitors = {}, !.gone = TRUE]
=============================================================================
