---------------------------- MODULE IoContextPool ----------------------------
(***************************************************************************)
(* The worker threads of the proxy (src/io_context_pool.hpp): one          *)
(* io_context for each thread.  An accepted connection gets one of them;   *)
(* that they are given out in turn makes no difference to what follows.    *)
(* Of the handlers of a context only the start of a session is kept, named *)
(* by the port its client came to.                                         *)
(***************************************************************************)
EXTENDS Integers, Sequences

CONSTANTS
    Workers,    \* the threads and their contexts
    Ports       \* the ports a configuration may name

\* get_executor would index an empty vector otherwise.
ASSUME PoolIsNotEmpty == Workers # {} /\ Ports \subseteq Nat

VARIABLES
    tasks,      \* sessions that were posted to a context, in order
    thread,     \* what each thread does
    stopped     \* the contexts have been stopped

pool == <<tasks, thread, stopped>>

\* A "busy" thread runs the handler of the first of its tasks.
\*
\* A thread that faults handles the same signal over and over: asio's signal
\* handler returns to the instruction that faulted.  It may hold the lock of
\* the configuration ("locked") or not ("spinning").
ThreadState == {"running", "busy", "spinning", "locked", "done"}

PoolTypeOK ==
    /\ tasks \in [Workers -> Seq(Ports)]
    /\ thread \in [Workers -> ThreadState]
    /\ stopped \in BOOLEAN

PoolInit ==
    /\ tasks = [k \in Workers |-> <<>>]
    /\ thread = [k \in Workers |-> "running"]
    /\ stopped = FALSE

\* get_executor, and the first handler of the new session.
Post(p) ==
    /\ \E k \in Workers : tasks' = [tasks EXCEPT ![k] = Append(@, p)]
    /\ UNCHANGED <<thread, stopped>>

\* The thread takes the next handler.  It runs it to its end, also when the
\* context is stopped in the meantime.
WorkerTakes(k) ==
    /\ ~stopped
    /\ thread[k] = "running"
    /\ tasks[k] # <<>>
    /\ thread' = [thread EXCEPT ![k] = "busy"]
    /\ UNCHANGED <<tasks, stopped>>

\* stop: every context returns after the handler it runs, the rest is dropped.
StopPool == stopped' = TRUE /\ UNCHANGED <<tasks, thread>>

WorkerReturns(k) ==
    /\ stopped
    /\ thread[k] = "running"
    /\ thread' = [thread EXCEPT ![k] = "done"]
    /\ UNCHANGED <<tasks, stopped>>

\* Mutant: one thread is joined.
JoinedOne == \E k \in Workers : thread[k] = "done"

Joined == \A k \in Workers : thread[k] = "done"

Faulted == \E k \in Workers : thread[k] \in {"spinning", "locked"}
=============================================================================
