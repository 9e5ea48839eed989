------------------------------ MODULE ProxyMain ------------------------------
(***************************************************************************)
(* The proxy process as a whole (main in src/cpp_proxy/cpp_proxy.cpp): the *)
(* main thread with listeners, monitor and signals, the pool of workers,   *)
(* the flush thread of the loggers, and the order in which they go.        *)
(***************************************************************************)
EXTENDS ListenerConfig, FlushThread

VARIABLES
    phase,      \* how far main, and what follows it, has come
    signal      \* somebody has sent SIGINT or SIGTERM

vars == <<pool, configVars, flushVars, phase, signal>>

\* io_context.run has returned in "unwinding"; the signals have their default
\* action again in "disarmed"; the pool is stopped in "joining"; main has
\* returned in "returned"; the statics go one by one from there.
Phase == {"run", "unwinding", "disarmed", "joining", "returned", "freed",
          "stopping", "flushing", "exited", "killed"}

Init ==
    /\ PoolInit
    /\ ConfigInit
    /\ FlushInit
    /\ phase = "run"
    /\ signal = FALSE

Alive == phase \notin {"exited", "killed"}

Becomes(from, to) == phase = from /\ phase' = to /\ UNCHANGED signal

NotMain == UNCHANGED <<phase, signal>>

-----------------------------------------------------------------------------
(***************************************************************************)
(* The threads.                                                            *)
(***************************************************************************)
ListenStep ==
    /\ phase = "run"
    /\ \/ ListenerStarts
       \/ \E i \in 1..Len(listeners) : Accepted(i) \/ NotAccepted(i)
    /\ UNCHANGED flushVars
    /\ NotMain

MonitorStep ==
    /\ phase = "run"
    /\ MonitorStarts \/ ChangeSeen \/ SizeTaken \/ ParseConf \/ Swap \/ Apply
    /\ UNCHANGED flushVars
    /\ NotMain

WorkerStep(k) ==
    /\ Alive
    /\ Lookup(k) \/ ((WorkerTakes(k) \/ WorkerReturns(k)) /\ UNCHANGED configVars)
    /\ UNCHANGED flushVars
    /\ NotMain

Flush == Alive /\ FlushStep /\ UNCHANGED <<pool, configVars>> /\ NotMain

\* The flush thread uses a logger that is gone: it may come to nothing, or to
\* the end of the process.
FlushFreed ==
    /\ Alive
    /\ flusher = "flush"
    /\ ~logger
    /\ \/ FlushGoes(Tested) /\ NotMain
       \/ phase' = "killed" /\ UNCHANGED <<flushVars, signal>>
    /\ UNCHANGED <<pool, configVars>>

-----------------------------------------------------------------------------
(***************************************************************************)
(* The end of the process.                                                 *)
(***************************************************************************)
\* A faulting worker sends SIGSEGV.
Signalled == signal \/ Faulted

\* The signal handler stops io_context: its run returns.
SignalHandled ==
    /\ MainFree
    /\ Signalled
    /\ Becomes("run", "unwinding")
    /\ UNCHANGED <<pool, configVars, flushVars>>

\* acceptors and signals go out of scope.
Disarmed ==
    /\ Becomes("unwinding", "disarmed")
    /\ acceptors' = [p \in Ports |-> 0]
    /\ UNCHANGED <<pool, file, config, watch, starting, listeners, clients, refused,
                   removed, flushVars>>

\* io_context goes out of scope, and the coroutines of listeners and monitor
\* with it; then icp.
PoolStops ==
    /\ Becomes("disarmed", "joining")
    /\ monitor' = "dead" /\ seen' = 0 /\ size' = 0
    /\ starting' = {} /\ listeners' = <<>>
    /\ StopPool
    /\ UNCHANGED <<file, config, acceptors, clients, refused, removed, flushVars>>

\* Mutant: main does not wait for all threads.
MainReturnsEarly ==
    /\ JoinedOne
    /\ Becomes("joining", "returned")
    /\ UNCHANGED <<pool, configVars, flushVars>>

MainReturns ==
    /\ Joined
    /\ Becomes("joining", "returned")
    /\ UNCHANGED <<pool, configVars, flushVars>>

\* The configuration, which was made last, goes first, then the logger.
StaticsGo ==
    /\ Becomes("returned", "freed")
    /\ entities' = {} /\ add' = {} /\ del' = {}
    /\ FreeLogger
    /\ UNCHANGED <<pool, file, watch, listening, removed>>

FlusherStops == Becomes("freed", "stopping") /\ ClearRun /\ UNCHANGED <<pool, configVars>>

FlusherNotified ==
    Becomes("stopping", "flushing") /\ NotifyOne /\ UNCHANGED <<pool, configVars>>

Exits ==
    /\ flusher = "done"
    /\ Becomes("flushing", "exited")
    /\ UNCHANGED <<pool, configVars, flushVars>>

EndStep ==
    \/ SignalHandled \/ Disarmed \/ PoolStops \/ MainReturns
    \/ StaticsGo \/ FlusherStops \/ FlusherNotified \/ Exits

Armed == phase \in {"run", "unwinding"}

\* A fault, or a signal, for which nobody has a handler any more.
Killed ==
    /\ Alive
    /\ ~Armed
    /\ Faulted
    /\ phase' = "killed"
    /\ UNCHANGED <<signal, pool, configVars, flushVars>>

SignalArrives ==
    /\ Alive
    /\ \/ Armed /\ ~signal /\ signal' = TRUE /\ UNCHANGED phase
       \/ ~Armed /\ phase' = "killed" /\ UNCHANGED signal
    /\ UNCHANGED <<pool, configVars, flushVars>>

\* Clients and files matter as long as main handles them.
Outside ==
    /\ phase = "run"
    /\ \/ \E i \in 1..Len(listeners) : ClientConnects(i) \/ AcceptFails(i)
       \/ SaveBegins
       \/ Saved
    /\ UNCHANGED flushVars
    /\ NotMain

\* The main thread waits for a lock that no worker will release, or faults
\* without end itself.
MainStuck ==
    /\ phase = "run"
    /\ \/ monitor = "parsed" /\ \E k \in Workers : thread[k] = "locked"
       \/ monitor = "faulted"

Terminated == (~Alive \/ MainStuck) /\ UNCHANGED vars

Next ==
    \/ ListenStep \/ MonitorStep
    \/ \E k \in Workers : WorkerStep(k)
    \/ Flush \/ FlushFreed
    \/ EndStep \/ Killed
    \/ SignalArrives \/ Outside
    \/ Terminated

Spec == Init /\ [][Next]_vars

\* Every thread runs, and the queue of main is served in order: neither the
\* monitor nor a signal waits for ever behind accepts that fail.
Fairness ==
    /\ WF_vars(ListenStep)
    /\ WF_vars(MonitorStep)
    /\ WF_vars(EndStep)
    /\ WF_vars(Killed)
    /\ WF_vars(Flush \/ FlushFreed)
    /\ \A k \in Workers : WF_vars(WorkerStep(k))

FairSpec == Spec /\ Fairness

-----------------------------------------------------------------------------
TypeOK ==
    /\ PoolTypeOK
    /\ ConfigTypeOK
    /\ FlushTypeOK
    /\ phase \in Phase
    /\ signal \in BOOLEAN

\* Whenever the main thread is through with a handler, it listens on exactly
\* the ports of the configuration in force but for those that could not be
\* bound, with one listener each, and the map of acceptors, by which the next
\* reload closes them, says so (cpp_proxy.cpp 36-38, 79-93).
AcceptorsFollow ==
    phase = "run" /\ monitor \in {"waiting", "dead"} /\ starting = {} =>
        LET open == {i \in 1..Len(listeners) : listeners[i].open}
        IN  /\ {listeners[i].port : i \in open} = entities \ refused
            /\ \A i \in open : acceptors[listeners[i].port] = i
            /\ \A p \in Ports : acceptors[p] # 0 => acceptors[p] \in open

\* A worker faults in get_proxy_server for two reasons only: its client came
\* to a port that has been removed since, or to one without servers; however
\* the reload falls between accept, post and lookup, and however the end of
\* the proxy falls into the handler that looks up: the configuration is still
\* there (session.hpp 107-111, io_context_pool.hpp 56-69, cpp_proxy.cpp 112).
FaultsOnlyOnRemoval ==
    \A k \in Workers :
        /\ thread[k] = "spinning" => Head(tasks[k]) \in removed
        /\ thread[k] = "locked" => Head(tasks[k]) \in Serverless

\* The proxy runs until somebody stops it: a changed configuration is dealt
\* with while it serves its clients (config.hpp 117).
EndsOnlyOnSignal == phase # "run" => signal

\* A change that the monitor has not seen comes into force, unless the monitor
\* found the file in pieces, the main thread is stuck or the process ends
\* (cpp_proxy.cpp 63-94).
Reloads ==
    monitor = "waiting" /\ file.stamp # seen
        ~> \/ file.state = "whole" /\ entities = file.ports
           \/ monitor \in {"dead", "faulted"}
           \/ MainStuck
           \/ phase # "run"

\* A signal ends the process, whatever the threads are doing, also when the
\* notification of the flush thread is lost; but not if the main thread waits
\* for a lock that a faulting worker holds (cpp_proxy.cpp 121-124, config.hpp
\* 150, easylog.hpp 108-114).
Ends == Signalled ~> (~Alive \/ MainStuck)
=============================================================================
