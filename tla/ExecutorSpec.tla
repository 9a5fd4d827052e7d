--------------------------- MODULE ExecutorSpec ---------------------------
(* What woki::task promises of any native Executor, whatever runs the work:  *)
(* a bounded queue that accepts work until it is stopped, starts accepted    *)
(* work in the order it was accepted, and after a stop starts nothing more   *)
(* but disposes of what it still holds.  TaskExecutor (the thread pool of    *)
(* Scheduler and IoExecutor) and CompletionQueue are shown to implement it.  *)
EXTENDS Naturals, Sequences

CONSTANTS Works,     \* the work items that may be submitted
          Capacity   \* the bound of the queue

VARIABLES pending,   \* accepted, neither started nor disposed of, oldest first
          running,   \* started, not returned
          ran,       \* returned
          disposed,  \* given up after the stop
          stopped

specVars == <<pending, running, ran, disposed, stopped>>

Held == {pending[k] : k \in 1..Len(pending)} \cup running \cup ran \cup disposed

SpecInit ==
    /\ pending = <<>>
    /\ running = {} /\ ran = {} /\ disposed = {}
    /\ stopped = FALSE

SpecAccept(w) ==
    /\ ~stopped
    /\ w \notin Held
    /\ Len(pending) < Capacity
    /\ pending' = Append(pending, w)
    /\ UNCHANGED <<running, ran, disposed, stopped>>

SpecStart ==
    /\ ~stopped
    /\ pending # <<>>
    /\ pending' = Tail(pending)
    /\ running' = running \cup {Head(pending)}
    /\ UNCHANGED <<ran, disposed, stopped>>

SpecReturn(w) ==
    /\ w \in running
    /\ running' = running \ {w}
    /\ ran' = ran \cup {w}
    /\ UNCHANGED <<pending, disposed, stopped>>

SpecStop ==
    /\ stopped' = TRUE
    /\ UNCHANGED <<pending, running, ran, disposed>>

SpecDispose ==
    /\ stopped
    /\ pending # <<>>
    /\ pending' = Tail(pending)
    /\ disposed' = disposed \cup {Head(pending)}
    /\ UNCHANGED <<running, ran, stopped>>

SpecNext ==
    \/ \E w \in Works : SpecAccept(w) \/ SpecReturn(w)
    \/ SpecStart \/ SpecStop \/ SpecDispose

ExecutorSafety == SpecInit /\ [][SpecNext]_specVars

=============================================================================
