---------------------------- MODULE ListenerConfig ----------------------------
(***************************************************************************)
(* The configuration of the proxy, its listeners and its hot reload        *)
(* (src/cpp_proxy/config.hpp, listener and handle_config_change in         *)
(* src/cpp_proxy/cpp_proxy.cpp).  An entry is named by its port.           *)
(*                                                                         *)
(* The main thread runs the handlers of listeners and monitor one at a     *)
(* time, in any order.  The handler of a change is cut where the file or a *)
(* worker can come between; no other handler runs until it is through.     *)
(***************************************************************************)
EXTENDS IoContextPool, FiniteSets, SequencesExt

CONSTANTS
    Serverless, \* ports whose entry has an empty list of servers
    Busy,       \* ports that cannot always be bound
    MaxStamp,   \* how often the file changes
    MaxClients  \* how many clients connect

ASSUME ListenerBounds ==
    /\ IsFiniteSet(Ports)
    /\ Serverless \subseteq Ports
    /\ Busy \subseteq Ports
    /\ MaxStamp \in Nat
    /\ MaxClients \in Nat

VARIABLES
    file,       \* the configuration file
    entities, add, del,     \* entities_, add_ and del_
    monitor,    \* where handle_config_change is
    seen,       \* its last_time
    size,       \* the file_size that parse_conf found
    starting,   \* entries whose listener main has spawned
    listeners,  \* the listeners in the order they were opened
    acceptors,  \* the listener that each port has in the map; 0 is none
    clients,    \* how many clients have connected
    refused,    \* entries whose listener could not be opened
    removed     \* ports that were ever removed

config == <<entities, add, del>>
watch == <<monitor, seen, size>>
listening == <<starting, listeners, acceptors, clients, refused>>
configVars == <<file, config, watch, listening, removed>>

\* One time stamp for every change of the file.
File == [state : {"whole", "part", "missing"}, ports : SUBSET Ports, stamp : 0..MaxStamp]

\* The accept of a listener is pending, or has completed with a connection or
\* an error.
Listener == [port : Ports, open : BOOLEAN, at : {"accepting", "got", "failed", "gone"}]

MonitorState == {"init", "waiting", "changed", "sized", "parsed", "swapped",
                 "dead", "faulted"}

ConfigTypeOK ==
    /\ file \in File
    /\ entities \subseteq Ports /\ add \subseteq Ports /\ del \subseteq Ports
    /\ monitor \in MonitorState
    /\ seen \in 0..MaxStamp
    /\ size \in 0..Cardinality(Ports) + 1
    /\ starting \subseteq Ports
    /\ listeners \in Seq(Listener)
    /\ acceptors \in [Ports -> 0..Len(listeners)]
    /\ clients \in 0..MaxClients
    /\ refused \subseteq Ports
    /\ removed \subseteq Ports

\* main has parsed the file and spawned the listeners and the monitor.
ConfigInit ==
    /\ file \in [state : {"whole"}, ports : SUBSET Ports, stamp : {0}]
    /\ entities = file.ports
    /\ add = file.ports
    /\ del = {}
    /\ monitor = "init"
    /\ seen = 0
    /\ size = 0
    /\ starting = entities
    /\ listeners = <<>>
    /\ acceptors = [p \in Ports |-> 0]
    /\ clients = 0
    /\ refused = {}
    /\ removed = {}

\* The main thread can take another handler.
MainFree == monitor \in {"init", "waiting", "dead"}

-----------------------------------------------------------------------------
(***************************************************************************)
(* listener                                                                *)
(***************************************************************************)
NewListener(p) == [port |-> p, open |-> TRUE, at |-> "accepting"]

IsOpen(p) == \E i \in 1..Len(listeners) : listeners[i].port = p /\ listeners[i].open

\* The ports of new that cannot be bound: another socket has them, or the
\* address is not one.  The exception ends the listener and nothing else.
CanRefuse(new) ==
    {no \in SUBSET new :
        /\ {p \in new : IsOpen(p)} \subseteq no
        /\ no \subseteq Busy \cup {p \in new : IsOpen(p)}}

\* In which order they are opened does not matter.
Opened(ports) ==
    LET s == SetToSeq(ports)
    IN  listeners \o [j \in 1..Len(s) |-> NewListener(s[j])]

\* Mutant: an acceptor is taken for the one after it.
EmplacedNext(ports) ==
    LET s == SetToSeq(ports)
    IN  [p \in Ports |->
            IF p \in ports /\ acceptors[p] = 0
            THEN Len(listeners) + 1 + (CHOOSE j \in 1..Len(s) : s[j] = p)
            ELSE acceptors[p]]

\* emplace: a port that is in the map keeps its acceptor.
Emplaced(ports) ==
    LET s == SetToSeq(ports)
    IN  [p \in Ports |->
            IF p \in ports /\ acceptors[p] = 0
            THEN Len(listeners) + (CHOOSE j \in 1..Len(s) : s[j] = p)
            ELSE acceptors[p]]

ListenerStarts ==
    \E p \in starting :
        /\ MainFree
        /\ starting' = starting \ {p}
        /\ \E no \in CanRefuse({p}) :
               /\ refused' = refused \cup no
               /\ listeners' = Opened({p} \ no)
               /\ acceptors' = Emplaced({p} \ no)
        /\ UNCHANGED <<file, config, watch, clients, removed, pool>>

\* A client connects to a port, or an accept fails for want of descriptors.
AcceptEnds(i, how) ==
    /\ listeners[i].at = "accepting"
    /\ listeners' = [listeners EXCEPT ![i].at = how]
    /\ UNCHANGED <<file, config, watch, starting, acceptors, refused, removed, pool>>

ClientConnects(i) ==
    clients < MaxClients /\ clients' = clients + 1 /\ AcceptEnds(i, "got")

AcceptFails(i) == UNCHANGED clients /\ AcceptEnds(i, "failed")

\* The loop goes on; async_accept fails at once on an acceptor that has been
\* closed.
AcceptAgain(i) ==
    listeners' = [listeners EXCEPT
                     ![i].at = IF listeners[i].open THEN "accepting" ELSE "failed"]

Accepted(i) ==
    /\ MainFree
    /\ listeners[i].at = "got"
    /\ Post(listeners[i].port)
    /\ AcceptAgain(i)
    /\ UNCHANGED <<file, config, watch, starting, acceptors, clients, refused, removed>>

NotAccepted(i) ==
    /\ MainFree
    /\ listeners[i].at = "failed"
    /\ \/ listeners[i].open /\ AcceptAgain(i)
       \/ ~listeners[i].open /\ listeners' = [listeners EXCEPT ![i].at = "gone"]
    /\ UNCHANGED <<file, config, watch, starting, acceptors, clients, refused, removed, pool>>

-----------------------------------------------------------------------------
(***************************************************************************)
(* handle_config_change and parse_conf                                     *)
(***************************************************************************)
\* How long the file is: one with more entries is longer.
FileSize ==
    CASE file.state = "whole" -> Cardinality(file.ports) + 1
      [] file.state = "part" -> 0

WatchGoes(l) ==
    /\ monitor' = l
    /\ UNCHANGED <<file, listening, removed, pool>>

\* The first handler of the monitor takes the time of the file as it is then.
\* A file that does not exist ends the coroutine with an exception.
MonitorStarts ==
    /\ monitor = "init"
    /\ starting = {}
    /\ \/ /\ file.state # "missing"
          /\ seen' = file.stamp
          /\ WatchGoes("waiting")
       \/ file.state = "missing" /\ UNCHANGED seen /\ WatchGoes("dead")
    /\ UNCHANGED <<config, size>>

\* The timer of the monitor finds a file with another time, or none.
ChangeSeen ==
    /\ monitor = "waiting"
    /\ \/ /\ file.state # "missing"
          /\ file.stamp # seen
          /\ seen' = file.stamp
          /\ WatchGoes("changed")
       \/ file.state = "missing" /\ UNCHANGED seen /\ WatchGoes("dead")
    /\ UNCHANGED <<config, size>>

SizeTaken ==
    /\ monitor = "changed"
    /\ \/ file.state # "missing" /\ size' = FileSize /\ WatchGoes("sized")
       \/ file.state = "missing" /\ UNCHANGED size /\ WatchGoes("dead")
    /\ UNCHANGED <<config, seen>>

\* As much as was the size is read.  What is cut off does not parse, and the
\* exception ends the monitor; zeros at the end do no harm.  The result of
\* fopen is not looked at: without a file the main thread faults.
ParseConf ==
    /\ monitor = "sized"
    /\ \/ /\ file.state = "whole" /\ FileSize <= size
          /\ del' = entities \ file.ports
          /\ add' = file.ports \ entities
          /\ WatchGoes("parsed")
       \/ /\ file.state = "part" \/ (file.state = "whole" /\ FileSize > size)
          /\ UNCHANGED <<add, del>>
          /\ WatchGoes("dead")
       \/ file.state = "missing" /\ UNCHANGED <<add, del>> /\ WatchGoes("faulted")
    /\ UNCHANGED <<entities, seen, size>>

\* Mutant: the entries that are new are forgotten.
SwapForgetsAdded ==
    /\ monitor = "parsed"
    /\ \A k \in Workers : thread[k] # "locked"
    /\ entities' = entities \ del
    /\ removed' = removed \cup del
    /\ monitor' = "swapped"
    /\ UNCHANGED <<file, add, del, seen, size, listening, pool>>

\* The unique lock is there once no worker holds the shared one.
Swap ==
    /\ monitor = "parsed"
    /\ \A k \in Workers : thread[k] # "locked"
    /\ entities' = (entities \ del) \cup add
    /\ removed' = removed \cup del
    /\ monitor' = "swapped"
    /\ UNCHANGED <<file, add, del, seen, size, listening, pool>>

\* Closing an acceptor aborts its pending accept.
Closed(l) ==
    [l EXCEPT !.open = FALSE, !.at = IF @ = "accepting" THEN "failed" ELSE @]

\* Mutant: a closed acceptor stays in the map.
ApplyWithoutErase ==
    /\ monitor = "swapped"
    /\ \E no \in CanRefuse(add) :
           /\ refused' = (refused \ del) \cup no
           /\ LET opened == Opened(add \ no)
                  map == Emplaced(add \ no)
              IN  /\ listeners' = [i \in 1..Len(opened) |->
                                      IF \E p \in del : map[p] = i
                                      THEN Closed(opened[i]) ELSE opened[i]]
                  /\ acceptors' = map
    /\ monitor' = "waiting"
    /\ UNCHANGED <<file, config, seen, size, starting, clients, removed, pool>>

\* Listeners for the new entries run up to their first accept; then those of
\* the removed ones are closed.
Apply ==
    /\ monitor = "swapped"
    /\ \E no \in CanRefuse(add) :
           /\ refused' = (refused \ del) \cup no
           /\ LET opened == Opened(add \ no)
                  map == Emplaced(add \ no)
              IN  /\ listeners' = [i \in 1..Len(opened) |->
                                      IF \E p \in del : map[p] = i
                                      THEN Closed(opened[i]) ELSE opened[i]]
                  /\ acceptors' = [p \in Ports |-> IF p \in del THEN 0 ELSE map[p]]
    /\ monitor' = "waiting"
    /\ UNCHANGED <<file, config, seen, size, starting, clients, removed, pool>>

-----------------------------------------------------------------------------
(***************************************************************************)
(* A worker starts a session: get_proxy_server.                            *)
(***************************************************************************)
\* The session goes on as module Session says, or the worker reads through a
\* null pointer: that of a server that was not found, after the lock, or the
\* first of a list that is empty, under the lock.
Lookup(k) ==
    LET p == Head(tasks[k])
    IN  /\ thread[k] = "busy"
        /\ \/ /\ p \in entities \ Serverless
              /\ tasks' = [tasks EXCEPT ![k] = Tail(@)]
              /\ thread' = [thread EXCEPT ![k] = "running"]
           \/ /\ p \notin entities
              /\ thread' = [thread EXCEPT ![k] = "spinning"]
              /\ UNCHANGED tasks
           \/ /\ p \in entities \cap Serverless
              /\ thread' = [thread EXCEPT ![k] = "locked"]
              /\ UNCHANGED tasks
        /\ UNCHANGED <<stopped, configVars>>

-----------------------------------------------------------------------------
(***************************************************************************)
(* Whoever edits the file writes it in place, replaces it at once, or      *)
(* moves it away first.                                                    *)
(***************************************************************************)
FileBecomes(st, ports) ==
    /\ file.stamp < MaxStamp
    /\ file' = [state |-> st, ports |-> ports, stamp |-> file.stamp + 1]
    /\ UNCHANGED <<config, watch, listening, removed, pool>>

SaveBegins == \E st \in {"part", "missing"} :
                  file.state = "whole" /\ FileBecomes(st, {})

Saved ==
    \E ports \in SUBSET Ports :
        /\ file.state = "whole" => ports # file.ports
        /\ FileBecomes("whole", ports)
=============================================================================
