--------------------------- MODULE ProxyMain_proof ---------------------------
(***************************************************************************)
(* What the workers rely on, for every number of workers, ports, clients   *)
(* and changes of the configuration: a lookup fails only for a port that   *)
(* was removed or one without servers, also while the proxy ends.  And     *)
(* what main keeps about its listeners: one open listener for every port   *)
(* in force that could be bound, and the map of acceptors that finds it.   *)
(***************************************************************************)
EXTENDS ProxyMain, FiniteSetTheorems, SequenceTheorems, TLAPS

Types ==
    /\ file \in File
    /\ entities \subseteq Ports /\ add \subseteq Ports /\ del \subseteq Ports
    /\ removed \subseteq Ports
    /\ starting \subseteq Ports
    /\ listeners \in Seq(Listener)
    /\ tasks \in [Workers -> Seq(Ports)]
    /\ thread \in [Workers -> ThreadState]

\* Ports that are in the configuration or have been.
Known == entities \cup removed

\* Whatever still leads to a lookup is about a known port.
AllKnown ==
    /\ starting \subseteq Known
    /\ \A i \in 1..Len(listeners) : listeners[i].port \in Known
    /\ \A k \in Workers : \A j \in 1..Len(tasks[k]) : tasks[k][j] \in Known
    /\ monitor = "swapped" => add \subseteq Known

\* A thread that is busy has its task at the head of its queue, and one that
\* faults keeps the task it faulted on.
FaultsExplained ==
    \A k \in Workers :
        /\ thread[k] = "busy" => tasks[k] # <<>>
        /\ thread[k] = "spinning" => tasks[k] # <<>> /\ Head(tasks[k]) \in removed
        /\ thread[k] = "locked" => tasks[k] # <<>> /\ Head(tasks[k]) \in Serverless

\* There is no configuration any more.
Gone == phase \in {"freed", "stopping", "flushing", "exited", "killed"}

\* When main has returned no thread of the pool is left.
NoneLeft ==
    phase \in {"returned", "freed", "stopping", "flushing", "exited"} => Joined

IInv ==
    /\ Types
    /\ ~Gone => AllKnown
    /\ FaultsExplained
    /\ NoneLeft

-----------------------------------------------------------------------------
\* Every element of a finite set is at one place of the sequence.
LEMMA SetToSeqHits ==
    ASSUME NEW S, IsFiniteSet(S)
    PROVE  /\ SetToSeq(S) \in Seq(S)
           /\ \A x \in S : \E j \in 1..Len(SetToSeq(S)) : SetToSeq(S)[j] = x
           /\ \A i, j \in 1..Len(SetToSeq(S)) : SetToSeq(S)[i] = SetToSeq(S)[j] => i = j
<1> DEFINE n == Cardinality(S)
           s == SetToSeq(S)
<1>1. n \in Nat
  BY FS_CardinalityType
<1>2. PICK f \in Bijection(1..n, S) : TRUE
  BY FS_CardinalityType DEF ExistsBijection
<1>3. f \in [1..n -> S] /\ IsInjective(f)
  BY <1>2 DEF Bijection, Injection, IsInjective
<1>4. s \in [1..n -> S] /\ IsInjective(s)
  BY <1>3 DEF SetToSeq
<1> HIDE DEF s
<1>5. s \in Seq(S) /\ Len(s) = n
  BY <1>1, <1>4
<1>6. \A i, j \in 1..n : s[i] = s[j] => i = j
  BY <1>4 DEF IsInjective
<1>7. \A x \in S : \E j \in 1..n : s[j] = x
  <2>1. s \in Injection(1..n, S)
    BY <1>4, <1>6 DEF Injection
  <2>2. IsFiniteSet(1..n) /\ Cardinality(1..n) = n
    BY <1>1, FS_Interval
  <2>3. s \in Surjection(1..n, S)
    BY <2>1, <2>2, FS_Injection
  <2> QED
    BY <2>3 DEF Surjection
<1> QED
  BY <1>5, <1>6, <1>7 DEF s

\* New listeners go behind the old ones, each on a port of its own.
LEMMA OpenedAt ==
    ASSUME Types, NEW P \in SUBSET Ports
    PROVE  /\ Opened(P) \in Seq(Listener)
           /\ Len(Opened(P)) = Len(listeners) + Len(SetToSeq(P))
           /\ Len(listeners) <= Len(Opened(P))
           /\ \A i \in 1..Len(listeners) : Opened(P)[i] = listeners[i]
           /\ \A j \in 1..Len(SetToSeq(P)) :
                  Opened(P)[Len(listeners) + j] = NewListener(SetToSeq(P)[j])
<1> DEFINE s == SetToSeq(P)
           new == [j \in 1..Len(s) |-> NewListener(s[j])]
<1>1. IsFiniteSet(P)
  BY ListenerBounds, FS_Subset
<1>2. s \in Seq(P) /\ Len(s) \in Nat
  BY <1>1, SetToSeqHits
<1>3. Opened(P) = listeners \o new
  BY DEF Opened
<1> HIDE DEF s
<1>4. \A j \in 1..Len(s) : NewListener(s[j]) \in Listener
  BY <1>2 DEF NewListener, Listener
<1>5. new \in Seq(Listener) /\ Len(new) = Len(s)
      /\ \A j \in 1..Len(s) : new[j] = NewListener(s[j])
  BY <1>2, <1>4
<1> HIDE DEF new
<1>6. listeners \in Seq(Listener) /\ Len(listeners) \in Nat
  BY DEF Types
<1>7. /\ Opened(P) \in Seq(Listener)
      /\ Len(Opened(P)) = Len(listeners) + Len(new)
      /\ \A i \in 1..Len(listeners) + Len(new) :
             Opened(P)[i] = IF i <= Len(listeners) THEN listeners[i]
                            ELSE new[i - Len(listeners)]
  <2>1. /\ listeners \o new \in Seq(Listener)
        /\ Len(listeners \o new) = Len(listeners) + Len(new)
        /\ \A i \in 1..Len(listeners) + Len(new) :
               (listeners \o new)[i] = IF i <= Len(listeners) THEN listeners[i]
                                       ELSE new[i - Len(listeners)]
    BY <1>5, <1>6, ConcatProperties, Zenon
  <2> QED
    BY <1>3, <2>1, Zenon
<1>8. \A i \in 1..Len(listeners) : Opened(P)[i] = listeners[i]
  BY <1>2, <1>5, <1>6, <1>7
<1>9. ASSUME NEW j \in 1..Len(s)
      PROVE  Opened(P)[Len(listeners) + j] = NewListener(s[j])
  <2>1. /\ Len(listeners) + j \in 1..Len(listeners) + Len(new)
        /\ ~(Len(listeners) + j <= Len(listeners))
        /\ (Len(listeners) + j) - Len(listeners) = j
    BY <1>2, <1>5, <1>6, <1>9
  <2>2. Opened(P)[Len(listeners) + j] = new[(Len(listeners) + j) - Len(listeners)]
    BY <1>7, <2>1, Zenon
  <2> QED
    BY <1>5, <2>1, <2>2, Zenon
<1>10. Len(Opened(P)) = Len(listeners) + Len(s) /\ Len(listeners) <= Len(Opened(P))
  BY <1>2, <1>5, <1>6, <1>7
<1> QED
  BY <1>7, <1>8, <1>9, <1>10 DEF s

\* Opening listeners adds listeners for these ports only.
LEMMA OpenedIs ==
    ASSUME Types, NEW P \in SUBSET Ports
    PROVE  /\ Opened(P) \in Seq(Listener)
           /\ \A i \in 1..Len(Opened(P)) :
                  \/ i \in 1..Len(listeners) /\ Opened(P)[i] = listeners[i]
                  \/ Opened(P)[i].port \in P
<1> DEFINE s == SetToSeq(P)
           o == Opened(P)
           n == Len(listeners)
<1>1. /\ o \in Seq(Listener) /\ Len(o) = n + Len(s)
      /\ \A i \in 1..n : o[i] = listeners[i]
      /\ \A j \in 1..Len(s) : o[n + j] = NewListener(s[j])
  BY OpenedAt
<1>2. IsFiniteSet(P) /\ n \in Nat
  BY ListenerBounds, FS_Subset DEF Types
<1>3. Len(s) \in Nat /\ \A j \in 1..Len(s) : NewListener(s[j]).port \in P
  <2>1. s \in Seq(P)
    BY <1>2, SetToSeqHits
  <2> HIDE DEF s
  <2> QED
    BY <2>1 DEF NewListener
<1> HIDE DEF s, o, n
<1>4. ASSUME NEW i \in 1..Len(o), i \notin 1..n
      PROVE  o[i].port \in P
  <2>1. i - n \in 1..Len(s) /\ n + (i - n) = i
    BY <1>1, <1>2, <1>3, <1>4
  <2>2. o[n + (i - n)] = NewListener(s[i - n])
    BY <1>1, <2>1
  <2> QED
    BY <1>3, <2>1, <2>2
<1> QED
  BY <1>1, <1>4 DEF o, n

\* Listeners that are changed in place keep their ports.
LEMMA ListenersKept ==
    ASSUME Types, NEW i \in 1..Len(listeners), NEW a \in {"accepting", "got", "failed", "gone"},
           listeners' = [listeners EXCEPT ![i].at = a]
    PROVE  /\ listeners' \in Seq(Listener)
           /\ Len(listeners') = Len(listeners)
           /\ \A j \in 1..Len(listeners) : listeners'[j].port = listeners[j].port
<1>1. listeners \in Seq(Listener) /\ listeners[i] \in Listener
  BY DEF Types
<1>2. [listeners[i] EXCEPT !.at = a] \in Listener
      /\ [listeners[i] EXCEPT !.at = a].port = listeners[i].port
  BY <1>1 DEF Listener
<1>3. listeners' = [listeners EXCEPT ![i] = [listeners[i] EXCEPT !.at = a]]
  OBVIOUS
<1> QED
  BY <1>1, <1>2, <1>3

-----------------------------------------------------------------------------
LEMMA InitIInv == Init => IInv
<1> SUFFICES ASSUME Init PROVE IInv
  OBVIOUS
<1>1. file \in File /\ file.ports \subseteq Ports
  BY ListenerBounds DEF Init, ConfigInit, File
<1>2. Types
  BY <1>1 DEF Types, Init, ConfigInit, PoolInit, ThreadState
<1>3. AllKnown /\ FaultsExplained /\ NoneLeft
  BY <1>2 DEF AllKnown, Known, FaultsExplained, NoneLeft, Gone, Init, ConfigInit, PoolInit
<1> QED
  BY <1>2, <1>3 DEF IInv

\* A step of none of the parts the invariant is about.
LEMMA Unmoved ==
    ASSUME IInv, NoneLeft', ~Gone' => ~Gone,
           UNCHANGED <<file, config, monitor, removed, starting, listeners, pool>>
    PROVE  IInv'
BY DEF IInv, Types, AllKnown, Known, FaultsExplained, config, pool

\* A step that moves neither main nor a thread.
LEMMA PhaseKept ==
    ASSUME IInv, UNCHANGED <<phase, thread>>
    PROVE  NoneLeft' /\ Gone' = Gone
BY DEF IInv, NoneLeft, Gone, Joined

LEMMA ListenerStartsIInv ==
    ASSUME IInv, ListenerStarts, NotMain
    PROVE  IInv'
<1>1. PICK p \in starting, no \in SUBSET Ports :
          /\ starting' = starting \ {p}
          /\ listeners' = Opened({p} \ no)
          /\ UNCHANGED <<file, config, watch, removed, pool>>
  <2>1. PICK p \in starting :
            /\ starting' = starting \ {p}
            /\ \E no \in CanRefuse({p}) : listeners' = Opened({p} \ no)
            /\ UNCHANGED <<file, config, watch, removed, pool>>
    BY DEF ListenerStarts
  <2>2. \A no \in CanRefuse({p}) : no \in SUBSET Ports
    BY DEF CanRefuse, IInv, Types
  <2> QED
    BY <2>1, <2>2
<1>2. Types /\ {p} \ no \in SUBSET Ports
  BY DEF IInv, Types
<1>3. /\ listeners' \in Seq(Listener)
      /\ \A i \in 1..Len(listeners') :
            \/ i \in 1..Len(listeners) /\ listeners'[i] = listeners[i]
            \/ listeners'[i].port = p
  BY <1>1, <1>2, OpenedIs
<1>4. Types'
  BY <1>1, <1>3 DEF IInv, Types, config, pool
<1>5. ~Gone => AllKnown'
  BY <1>1, <1>3 DEF IInv, AllKnown, Known, config, watch, pool
<1>6. FaultsExplained'
  BY <1>1 DEF IInv, FaultsExplained, pool
<1>7. NoneLeft' /\ Gone' = Gone
  BY <1>1, PhaseKept DEF NotMain, pool
<1> QED
  BY <1>1, <1>4, <1>5, <1>6, <1>7 DEF IInv, pool

\* An accept that completes, or is started again, moves no port.
LEMMA AcceptIInv ==
    ASSUME IInv, NEW i \in 1..Len(listeners), NEW a \in {"accepting", "got", "failed", "gone"},
           listeners' = [listeners EXCEPT ![i].at = a],
           UNCHANGED <<file, config, monitor, removed, starting, pool, phase>>
    PROVE  IInv'
<1>1. Types
  BY DEF IInv
<1>2. /\ listeners' \in Seq(Listener)
      /\ Len(listeners') = Len(listeners)
      /\ \A j \in 1..Len(listeners) : listeners'[j].port = listeners[j].port
  BY <1>1, ListenersKept
<1>3. Types'
  BY <1>1, <1>2 DEF Types, config, pool
<1>4. ~Gone => AllKnown'
  BY <1>2 DEF IInv, AllKnown, Known, config, pool
<1>5. FaultsExplained'
  BY DEF IInv, FaultsExplained, pool
<1>6. NoneLeft' /\ Gone' = Gone
  BY PhaseKept DEF pool
<1> QED
  BY <1>3, <1>4, <1>5, <1>6 DEF IInv, pool

\* A new session is about the port of its listener and waits behind the task
\* that a thread may have faulted on.
LEMMA AcceptedIInv ==
    ASSUME IInv, NEW i \in 1..Len(listeners), Accepted(i), NotMain
    PROVE  IInv'
<1>1. Types /\ listeners[i].port \in Ports
  <2>1. Types /\ listeners[i] \in Listener
    BY DEF IInv, Types
  <2> QED
    BY <2>1 DEF Listener
<1>2. PICK k \in Workers : tasks' = [tasks EXCEPT ![k] = Append(@, listeners[i].port)]
  BY DEF Accepted, Post
<1>3. PICK a \in {"accepting", "failed"} : listeners' = [listeners EXCEPT ![i].at = a]
  BY DEF Accepted, AcceptAgain
<1>4. /\ listeners' \in Seq(Listener)
      /\ Len(listeners') = Len(listeners)
      /\ \A j \in 1..Len(listeners) : listeners'[j].port = listeners[j].port
  BY <1>1, <1>3, ListenersKept
<1>5. UNCHANGED <<file, config, watch, removed, starting, thread, stopped, phase>>
  BY DEF Accepted, Post, NotMain
<1>6. /\ tasks' \in [Workers -> Seq(Ports)]
      /\ \A w \in Workers : tasks[w] # <<>> =>
            tasks'[w] # <<>> /\ Head(tasks'[w]) = Head(tasks[w])
      /\ \A w \in Workers : \A j \in 1..Len(tasks'[w]) :
            \/ j \in 1..Len(tasks[w]) /\ tasks'[w][j] = tasks[w][j]
            \/ tasks'[w][j] = listeners[i].port
  <2>1. tasks \in [Workers -> Seq(Ports)]
    BY <1>1 DEF Types
  <2>2. tasks'[k] = Append(tasks[k], listeners[i].port)
        /\ \A w \in Workers \ {k} : tasks'[w] = tasks[w]
    BY <1>2, <2>1
  <2>3. \A w \in Workers : tasks[w] \in Seq(Ports)
    BY <2>1
  <2> QED
    BY <1>1, <1>2, <2>1, <2>2, <2>3
<1>7. Types'
  BY <1>1, <1>4, <1>5, <1>6 DEF Types, config
<1>8. ~Gone => AllKnown'
  <2>1. SUFFICES ASSUME ~Gone PROVE AllKnown'
    OBVIOUS
  <2>2. AllKnown /\ Known' = Known
    BY <1>5, <2>1 DEF IInv, Known, config
  <2>3. /\ starting' \subseteq Known'
        /\ monitor' = "swapped" => add' \subseteq Known'
    BY <1>5, <2>2 DEF AllKnown, config, watch
  <2>4. \A j \in 1..Len(listeners') : listeners'[j].port \in Known'
    BY <1>4, <2>2 DEF AllKnown
  <2>5. \A w \in Workers : \A j \in 1..Len(tasks'[w]) : tasks'[w][j] \in Known'
    BY <1>6, <2>2 DEF AllKnown
  <2> QED
    BY <2>3, <2>4, <2>5 DEF AllKnown
<1>9. FaultsExplained'
  BY <1>5, <1>6 DEF IInv, FaultsExplained
<1>10. NoneLeft' /\ Gone' = Gone
  BY <1>5, PhaseKept
<1> QED
  BY <1>5, <1>7, <1>8, <1>9, <1>10 DEF IInv

\* The monitor but for the two steps that change what is configured.
LEMMA WatchIInv ==
    ASSUME IInv, MonitorStarts \/ ChangeSeen \/ SizeTaken \/ ParseConf, NotMain
    PROVE  IInv'
<1>1. /\ UNCHANGED <<file, entities, removed, starting, listeners, pool, phase>>
      /\ monitor' # "swapped"
      /\ add' \subseteq Ports /\ del' \subseteq Ports
  BY DEF MonitorStarts, ChangeSeen, SizeTaken, ParseConf, WatchGoes, NotMain, config,
         listening, IInv, Types, File
<1>2. Types'
  BY <1>1 DEF IInv, Types, pool
<1>3. ~Gone => AllKnown'
  BY <1>1 DEF IInv, AllKnown, Known, pool
<1>4. FaultsExplained'
  BY <1>1 DEF IInv, FaultsExplained, pool
<1>5. NoneLeft' /\ Gone' = Gone
  BY <1>1, PhaseKept DEF pool
<1> QED
  BY <1>1, <1>2, <1>3, <1>4, <1>5 DEF IInv, pool

\* What leaves the configuration is removed, so it stays known.
LEMMA SwapIInv ==
    ASSUME IInv, Swap, NotMain
    PROVE  IInv'
<1>1. /\ UNCHANGED <<file, add, del, starting, listeners, pool, phase>>
      /\ entities' = (entities \ del) \cup add
      /\ removed' = removed \cup del
      /\ monitor' = "swapped"
  BY DEF Swap, NotMain, listening
<1>2. Types'
  BY <1>1 DEF IInv, Types, pool
<1>3. Known \subseteq Known' /\ add' \subseteq Known' /\ removed \subseteq removed'
  BY <1>1 DEF Known
<1>4. ~Gone => AllKnown'
  BY <1>1, <1>3 DEF IInv, AllKnown, pool
<1>5. FaultsExplained'
  BY <1>1, <1>3 DEF IInv, FaultsExplained, pool
<1>6. NoneLeft' /\ Gone' = Gone
  BY <1>1, PhaseKept DEF pool
<1> QED
  BY <1>1, <1>2, <1>4, <1>5, <1>6 DEF IInv, pool

\* Listeners are opened for ports that came into force before.
LEMMA ApplyIInv ==
    ASSUME IInv, Apply, NotMain
    PROVE  IInv'
<1>1. PICK no \in CanRefuse(add) :
          listeners' = [i \in 1..Len(Opened(add \ no)) |->
                           IF \E p \in del : Emplaced(add \ no)[p] = i
                           THEN Closed(Opened(add \ no)[i]) ELSE Opened(add \ no)[i]]
  BY DEF Apply
<1> DEFINE o == Opened(add \ no)
<1>2. /\ o \in Seq(Listener)
      /\ \A i \in 1..Len(o) :
            \/ i \in 1..Len(listeners) /\ o[i] = listeners[i]
            \/ o[i].port \in add
  <2>1. Types /\ add \ no \in SUBSET Ports
    BY DEF IInv, Types
  <2> QED
    BY <2>1, OpenedIs
<1> HIDE DEF o
<1>3. \A l \in Listener : Closed(l) \in Listener /\ Closed(l).port = l.port
  BY DEF Closed, Listener
<1>4. Len(o) \in Nat /\ \A i \in 1..Len(o) : o[i] \in Listener
  BY <1>2
<1> DEFINE e(i) == IF \E p \in del : Emplaced(add \ no)[p] = i THEN Closed(o[i]) ELSE o[i]
<1>5. \A i \in 1..Len(o) : e(i) \in Listener /\ e(i).port = o[i].port
  BY <1>3, <1>4, Zenon
<1>6. /\ listeners' \in Seq(Listener) /\ Len(listeners') = Len(o)
      /\ \A i \in 1..Len(o) : listeners'[i].port = o[i].port
  <2>1. listeners' = [i \in 1..Len(o) |-> e(i)]
    BY <1>1 DEF o
  <2> HIDE DEF e
  <2> QED
    BY <1>4, <1>5, <2>1
<1>7. /\ monitor = "swapped" /\ monitor' = "waiting"
      /\ UNCHANGED <<file, config, starting, removed, pool, phase>>
  BY DEF Apply, NotMain
<1>8. Types'
  BY <1>6, <1>7 DEF IInv, Types, config, pool
<1>9. ~Gone => AllKnown'
  <2>1. SUFFICES ASSUME ~Gone PROVE AllKnown'
    OBVIOUS
  <2>2. AllKnown /\ Known' = Known /\ add \subseteq Known
    BY <1>7, <2>1 DEF IInv, AllKnown, Known, config
  <2>3. \A i \in 1..Len(listeners') : listeners'[i].port \in Known'
    BY <1>2, <1>6, <2>2 DEF AllKnown
  <2> QED
    BY <1>7, <2>2, <2>3 DEF AllKnown, pool
<1>10. FaultsExplained'
  BY <1>7 DEF IInv, FaultsExplained, pool
<1>11. NoneLeft' /\ Gone' = Gone
  BY <1>7, PhaseKept DEF pool
<1> QED
  BY <1>7, <1>8, <1>9, <1>10, <1>11 DEF IInv, pool

\* A lookup that fails is about a port that is known but not configured, or
\* about one without servers.
LEMMA LookupIInv ==
    ASSUME IInv, NEW k \in Workers, Lookup(k), Alive, NotMain
    PROVE  IInv'
<1> DEFINE p == Head(tasks[k])
<1>1. /\ thread[k] = "busy" /\ tasks[k] # <<>>
      /\ UNCHANGED <<file, config, watch, removed, starting, listeners, phase>>
  BY DEF Lookup, NotMain, configVars, listening, IInv, FaultsExplained
<1>2. ~Gone /\ Gone' = Gone /\ NoneLeft'
  <2>1. ~Joined
    BY <1>1 DEF Joined
  <2> QED
    BY <1>1, <2>1 DEF IInv, NoneLeft, Gone, Alive
<1>3. /\ tasks \in [Workers -> Seq(Ports)] /\ tasks[k] \in Seq(Ports)
      /\ thread \in [Workers -> ThreadState]
  BY DEF IInv, Types
<1>4. p \in Known
  <2>1. p = tasks[k][1] /\ 1 \in 1..Len(tasks[k])
    BY <1>1, <1>3
  <2> QED
    BY <1>1, <1>2, <2>1 DEF IInv, AllKnown
<1>5. CASE /\ tasks' = [tasks EXCEPT ![k] = Tail(@)]
           /\ thread' = [thread EXCEPT ![k] = "running"]
  <2>1. /\ tasks'[k] = Tail(tasks[k]) /\ tasks' \in [Workers -> Seq(Ports)]
        /\ \A w \in Workers \ {k} : tasks'[w] = tasks[w]
    BY <1>1, <1>3, <1>5
  <2>2. \A j \in 1..Len(tasks'[k]) :
            j + 1 \in 1..Len(tasks[k]) /\ tasks'[k][j] = tasks[k][j + 1]
    BY <1>1, <1>3, <2>1
  <2>3. Types'
    BY <1>1, <1>3, <1>5, <2>1 DEF IInv, Types, config, ThreadState
  <2>4. AllKnown'
    <3>1. Known' = Known /\ AllKnown
      BY <1>1, <1>2 DEF IInv, Known, config
    <3>2. \A w \in Workers : \A j \in 1..Len(tasks'[w]) : tasks'[w][j] \in Known
      BY <2>1, <2>2, <3>1 DEF AllKnown
    <3> QED
      BY <1>1, <3>1, <3>2 DEF AllKnown, config, watch
  <2>5. FaultsExplained'
    BY <1>1, <1>3, <1>5, <2>1 DEF IInv, FaultsExplained
  <2> QED
    BY <1>2, <2>3, <2>4, <2>5 DEF IInv
<1>6. ASSUME UNCHANGED tasks,
             \/ p \in removed /\ thread' = [thread EXCEPT ![k] = "spinning"]
             \/ p \in Serverless /\ thread' = [thread EXCEPT ![k] = "locked"]
      PROVE  IInv'
  <2>1. Types'
    BY <1>1, <1>3, <1>6 DEF IInv, Types, config, ThreadState
  <2>2. AllKnown'
    BY <1>1, <1>2, <1>6 DEF IInv, AllKnown, Known, config, watch
  <2>3. FaultsExplained'
    BY <1>1, <1>3, <1>6 DEF IInv, FaultsExplained
  <2> QED
    BY <1>2, <2>1, <2>2, <2>3 DEF IInv
<1> QED
  BY <1>4, <1>5, <1>6 DEF Lookup, Known

\* A thread takes a task, or is through with its context.
LEMMA WorkerGoesIInv ==
    ASSUME IInv, NEW k \in Workers, WorkerTakes(k) \/ WorkerReturns(k),
           UNCHANGED configVars, NotMain
    PROVE  IInv'
<1>1. /\ thread[k] = "running"
      /\ \/ tasks[k] # <<>> /\ thread' = [thread EXCEPT ![k] = "busy"]
         \/ thread' = [thread EXCEPT ![k] = "done"]
      /\ UNCHANGED <<tasks, phase, file, config, watch, removed, starting, listeners>>
  BY DEF WorkerTakes, WorkerReturns, NotMain, configVars, listening
<1>2. Types'
  BY <1>1 DEF IInv, Types, config, ThreadState
<1>3. ~Gone => AllKnown'
  BY <1>1 DEF IInv, AllKnown, Known, config, watch
<1>4. FaultsExplained'
  BY <1>1 DEF IInv, Types, FaultsExplained
<1>5. NoneLeft' /\ Gone' = Gone
  BY <1>1 DEF IInv, NoneLeft, Gone, Joined
<1> QED
  BY <1>2, <1>3, <1>4, <1>5 DEF IInv

LEMMA ListenIInv ==
    ASSUME IInv, ListenStep
    PROVE  IInv'
<1>1. CASE ListenerStarts
  BY <1>1, ListenerStartsIInv DEF ListenStep
<1>2. ASSUME NEW i \in 1..Len(listeners), Accepted(i)
      PROVE  IInv'
  BY <1>2, AcceptedIInv DEF ListenStep
<1>3. ASSUME NEW i \in 1..Len(listeners), NotAccepted(i)
      PROVE  IInv'
  <2>1. PICK a \in {"accepting", "failed", "gone"} :
            listeners' = [listeners EXCEPT ![i].at = a]
    BY <1>3 DEF NotAccepted, AcceptAgain
  <2>2. UNCHANGED <<file, config, monitor, removed, starting, pool, phase>>
    BY <1>3 DEF NotAccepted, watch, ListenStep, NotMain
  <2> QED
    BY <2>1, <2>2, AcceptIInv
<1> QED
  BY <1>1, <1>2, <1>3 DEF ListenStep

\* Clients and whoever edits the file leave the pool alone.
LEMMA OutsideIInv ==
    ASSUME IInv, Outside
    PROVE  IInv'
<1>1. ASSUME NEW i \in 1..Len(listeners), NEW a \in {"got", "failed"}, AcceptEnds(i, a)
      PROVE  IInv'
  <2>1. /\ listeners' = [listeners EXCEPT ![i].at = a]
        /\ UNCHANGED <<file, config, monitor, removed, starting, pool, phase>>
    BY <1>1 DEF AcceptEnds, watch, Outside, NotMain
  <2> QED
    BY <2>1, AcceptIInv
<1>2. ASSUME NEW st \in {"whole", "part", "missing"}, NEW P \in SUBSET Ports,
             FileBecomes(st, P)
      PROVE  IInv'
  <2>1. /\ file.stamp < MaxStamp
        /\ file' = [state |-> st, ports |-> P, stamp |-> file.stamp + 1]
        /\ UNCHANGED <<config, monitor, removed, starting, listeners, pool, phase>>
    BY <1>2 DEF FileBecomes, watch, listening, Outside, NotMain
  <2>2. file' \in File
    <3>1. file \in File
      BY DEF IInv, Types
    <3>2. file.stamp + 1 \in 0..MaxStamp
      BY <2>1, <3>1, ListenerBounds DEF File
    <3> QED
      BY <2>1, <3>2 DEF File
  <2>3. Types'
    BY <2>1, <2>2 DEF IInv, Types, config, pool
  <2>4. ~Gone => AllKnown'
    BY <2>1 DEF IInv, AllKnown, Known, config, pool
  <2>5. FaultsExplained'
    BY <2>1 DEF IInv, FaultsExplained, pool
  <2>6. NoneLeft' /\ Gone' = Gone
    BY <2>1, PhaseKept DEF pool
  <2> QED
    BY <2>1, <2>3, <2>4, <2>5, <2>6 DEF IInv, pool
<1>3. CASE \E i \in 1..Len(listeners) : ClientConnects(i) \/ AcceptFails(i)
  BY <1>1, <1>3 DEF ClientConnects, AcceptFails
<1>4. CASE SaveBegins \/ Saved
  BY <1>2, <1>4 DEF SaveBegins, Saved
<1> QED
  BY <1>3, <1>4 DEF Outside

\* The end of the process: the threads are joined before the configuration
\* goes, so none of them is still about to look something up.
LEMMA EndIInv ==
    ASSUME IInv, EndStep
    PROVE  IInv'
<1>1. CASE SignalHandled \/ Disarmed
  <2>1. /\ phase' \in {"unwinding", "disarmed"} /\ phase \in {"run", "unwinding"}
        /\ UNCHANGED <<file, config, monitor, removed, starting, listeners, pool>>
    BY <1>1 DEF SignalHandled, Disarmed, Becomes, configVars, watch, listening
  <2>2. NoneLeft' /\ ~Gone
    BY <2>1 DEF NoneLeft, Gone
  <2> QED
    BY <2>1, <2>2, Unmoved
<1>2. CASE PoolStops
  <2>1. /\ phase = "disarmed" /\ phase' = "joining" /\ monitor' = "dead"
        /\ starting' = {} /\ listeners' = <<>>
        /\ UNCHANGED <<file, config, removed, tasks, thread>>
    BY <1>2 DEF PoolStops, Becomes, StopPool
  <2>2. Types'
    BY <2>1 DEF IInv, Types, config
  <2>3. AllKnown'
    BY <2>1 DEF IInv, Gone, AllKnown, Known, config
  <2>4. FaultsExplained' /\ NoneLeft'
    BY <2>1 DEF IInv, FaultsExplained, NoneLeft
  <2> QED
    BY <2>2, <2>3, <2>4 DEF IInv
<1>3. CASE MainReturns
  <2>1. /\ phase = "joining" /\ phase' = "returned" /\ Joined
        /\ UNCHANGED <<file, config, monitor, removed, starting, listeners, pool>>
    BY <1>3 DEF MainReturns, Becomes, configVars, watch, listening
  <2>2. NoneLeft' /\ ~Gone
    BY <2>1 DEF NoneLeft, Gone, Joined, pool
  <2> QED
    BY <2>1, <2>2, Unmoved
<1>4. CASE StaticsGo
  <2>1. /\ phase = "returned" /\ phase' = "freed"
        /\ entities' = {} /\ add' = {} /\ del' = {}
        /\ UNCHANGED <<file, removed, starting, listeners, pool>>
    BY <1>4 DEF StaticsGo, Becomes, listening
  <2>2. Gone'
    BY <2>1 DEF Gone
  <2>3. Types'
    BY <2>1 DEF IInv, Types, pool
  <2>4. FaultsExplained' /\ NoneLeft'
    BY <2>1 DEF IInv, FaultsExplained, NoneLeft, Joined, pool
  <2> QED
    BY <2>2, <2>3, <2>4 DEF IInv
<1>5. CASE FlusherStops \/ FlusherNotified \/ Exits
  <2>1. /\ phase \in {"freed", "stopping", "flushing"}
        /\ phase' \in {"stopping", "flushing", "exited"}
        /\ UNCHANGED <<file, config, monitor, removed, starting, listeners, pool>>
    BY <1>5 DEF FlusherStops, FlusherNotified, Exits, Becomes, configVars, watch,
           listening
  <2>2. NoneLeft' /\ Gone'
    BY <2>1 DEF IInv, NoneLeft, Gone, Joined, pool
  <2> QED
    BY <2>1, <2>2, Unmoved
<1> QED
  BY <1>1, <1>2, <1>3, <1>4, <1>5 DEF EndStep

\* The rest of the steps: the flush thread, a signal, the death of the process.
LEMMA ElseIInv ==
    ASSUME IInv, Flush \/ FlushFreed \/ Killed \/ SignalArrives \/ UNCHANGED vars
    PROVE  IInv'
<1>1. /\ UNCHANGED <<file, config, monitor, removed, starting, listeners, pool>>
      /\ phase' = phase \/ phase' = "killed"
  BY DEF Flush, FlushFreed, Killed, SignalArrives, vars, NotMain, configVars, watch,
         listening
<1>2. NoneLeft' /\ (~Gone' => ~Gone)
  BY <1>1 DEF IInv, NoneLeft, Gone, Joined, pool
<1> QED
  BY <1>1, <1>2, Unmoved

LEMMA NextIInv == IInv /\ [Next]_vars => IInv'
<1> SUFFICES ASSUME IInv, [Next]_vars PROVE IInv'
  OBVIOUS
<1>1. CASE ListenStep
  BY <1>1, ListenIInv
<1>2. CASE MonitorStep
  BY <1>2, WatchIInv, SwapIInv, ApplyIInv DEF MonitorStep
<1>3. ASSUME NEW k \in Workers, WorkerStep(k)
      PROVE  IInv'
  BY <1>3, LookupIInv, WorkerGoesIInv DEF WorkerStep
<1>4. CASE EndStep
  BY <1>4, EndIInv
<1>5. CASE Outside
  BY <1>5, OutsideIInv
<1>6. CASE Flush \/ FlushFreed \/ Killed \/ SignalArrives \/ UNCHANGED vars
  BY <1>6, ElseIInv
<1> QED
  BY <1>1, <1>2, <1>3, <1>4, <1>5, <1>6 DEF Next, Terminated

LEMMA AlwaysIInv == Spec => []IInv
BY InitIInv, NextIInv, PTL DEF Spec

\* However reloads, accepts, lookups and the end of the proxy interleave, for
\* any number of workers and ports, a worker faults in get_proxy_server only for
\* a port that was removed or one without servers: in particular no worker that
\* is still in a handler when the pool is stopped finds the configuration
\* destroyed (session.hpp 106-111, config.hpp 174-181, io_context_pool.hpp
\* 56-69, cpp_proxy.cpp 111-142).
THEOREM LookupsFailOnRemoval == Spec => []FaultsOnlyOnRemoval
<1>1. IInv => FaultsOnlyOnRemoval
  BY DEF IInv, FaultsExplained, FaultsOnlyOnRemoval
<1> QED
  BY <1>1, AlwaysIInv, PTL

-----------------------------------------------------------------------------
(***************************************************************************)
(* The listeners.                                                          *)
(***************************************************************************)
\* The rest of the types, which the proofs above do without.
MainTypes ==
    /\ stopped \in BOOLEAN
    /\ monitor \in MonitorState
    /\ seen \in 0..MaxStamp
    /\ size \in 0..Cardinality(Ports) + 1
    /\ clients \in 0..MaxClients
    /\ FlushTypeOK
    /\ phase \in Phase
    /\ signal \in BOOLEAN

ListenTypes ==
    /\ acceptors \in [Ports -> 0..Len(listeners)]
    /\ refused \subseteq Ports

\* The listeners go after their acceptors.
Emptied == phase = "disarmed" => \A p \in Ports : acceptors[p] = 0

\* The map names every open listener under its port, and no other.
Mapped ==
    /\ \A i \in 1..Len(listeners) :
           listeners[i].open => acceptors[listeners[i].port] = i
    /\ \A p \in Ports : acceptors[p] # 0 =>
           listeners[acceptors[p]].open /\ listeners[acceptors[p]].port = p

\* The entries the listeners have been told of: in the midst of a reload those
\* from before it.
Told == IF monitor = "swapped" THEN (entities \ add) \cup del ELSE entities

\* Those of them that are listened on.
Settled ==
    /\ starting \subseteq Told
    /\ refused \subseteq Told \ starting
    /\ \A p \in Ports : acceptors[p] # 0 <=> p \in Told \ (starting \cup refused)

\* A reload adds what is not in force and deletes what is.
Reloading ==
    /\ monitor # "init" => starting = {}
    /\ monitor = "parsed" => del \subseteq entities /\ add \cap entities = {}
    /\ monitor = "swapped" => add \subseteq entities /\ del \cap entities = {}

Listening == Mapped /\ Settled /\ Reloading

LInv ==
    /\ MainTypes
    /\ ListenTypes
    /\ Emptied
    /\ phase = "run" => Listening

-----------------------------------------------------------------------------
\* A port that is new in the map gets the place of its listener, and no place
\* is given twice.
LEMMA EmplacedAt ==
    ASSUME Types, ListenTypes, NEW P \in SUBSET Ports
    PROVE  /\ Emplaced(P) \in [Ports -> 0..Len(Opened(P))]
           /\ \A p \in Ports : acceptors[p] # 0 \/ p \notin P =>
                  Emplaced(P)[p] = acceptors[p]
           /\ \A p \in P : acceptors[p] = 0 =>
                  \E j \in 1..Len(SetToSeq(P)) :
                      SetToSeq(P)[j] = p /\ Emplaced(P)[p] = Len(listeners) + j
<1> DEFINE s == SetToSeq(P)
           place(p) == CHOOSE j \in 1..Len(s) : s[j] = p
<1>1. IsFiniteSet(P)
  BY ListenerBounds, FS_Subset
<1>2. s \in Seq(P) /\ Len(s) \in Nat /\ \A x \in P : \E j \in 1..Len(s) : s[j] = x
  BY <1>1, SetToSeqHits
<1>3. Emplaced(P) = [p \in Ports |-> IF p \in P /\ acceptors[p] = 0
                                     THEN Len(listeners) + place(p) ELSE acceptors[p]]
  BY DEF Emplaced
<1>4. Len(Opened(P)) = Len(listeners) + Len(s) /\ Len(listeners) \in Nat
  <2>1. Len(Opened(P)) = Len(listeners) + Len(s)
    BY OpenedAt
  <2>2. listeners \in Seq(Listener)
    BY DEF Types
  <2> QED
    BY <2>1, <2>2
<1> HIDE DEF s
<1>5. \A p \in P : place(p) \in 1..Len(s) /\ s[place(p)] = p
  BY <1>2
<1> HIDE DEF place
<1>6. ASSUME NEW p \in P
      PROVE  Len(listeners) + place(p) \in 0..Len(Opened(P))
  <2>1. \A a, b \in Nat : \A c \in 1..b : a + c \in 0..a + b
    OBVIOUS
  <2>2. Len(listeners) + place(p) \in 0..Len(listeners) + Len(s)
    BY <1>2, <1>4, <1>5, <2>1, Zenon
  <2> QED
    BY <1>4, <2>2, Zenon
<1>7. \A p \in Ports : acceptors[p] \in 0..Len(Opened(P))
  BY <1>2, <1>4 DEF ListenTypes
<1>8. Emplaced(P) \in [Ports -> 0..Len(Opened(P))]
  BY <1>3, <1>6, <1>7
<1>9. \A p \in Ports : acceptors[p] # 0 \/ p \notin P => Emplaced(P)[p] = acceptors[p]
  BY <1>3
<1>10. \A p \in P : acceptors[p] = 0 => Emplaced(P)[p] = Len(listeners) + place(p)
  BY <1>3
<1>11. \A p \in P : acceptors[p] = 0 =>
           \E j \in 1..Len(s) : s[j] = p /\ Emplaced(P)[p] = Len(listeners) + j
  BY <1>5, <1>10
<1> QED
  BY <1>8, <1>9, <1>11 DEF s

-----------------------------------------------------------------------------
LEMMA InitLInv == Init => LInv
<1> SUFFICES ASSUME Init PROVE LInv
  OBVIOUS
<1>1. Cardinality(Ports) \in Nat /\ MaxStamp \in Nat /\ MaxClients \in Nat
  BY ListenerBounds, FS_CardinalityType
<1>2. MainTypes
  <2>1. FlushTypeOK /\ signal \in BOOLEAN /\ stopped \in BOOLEAN
    BY Zenon DEF Init, FlushInit, FlushTypeOK, PoolInit
  <2>2. seen \in 0..MaxStamp /\ size \in 0..Cardinality(Ports) + 1 /\ clients \in 0..MaxClients
    BY <1>1 DEF Init, ConfigInit
  <2>3. monitor \in MonitorState /\ phase \in Phase
    BY DEF Init, ConfigInit, MonitorState, Phase
  <2> QED
    BY <2>1, <2>2, <2>3 DEF MainTypes
<1>3. entities \subseteq Ports /\ listeners = <<>> /\ starting = entities
      /\ acceptors = [p \in Ports |-> 0] /\ refused = {} /\ monitor = "init"
      /\ phase = "run"
  BY InitIInv DEF Init, ConfigInit, IInv, Types
<1>4. ListenTypes /\ Emptied
  BY <1>3 DEF ListenTypes, Emptied
<1>5. Listening
  BY <1>3 DEF Listening, Mapped, Settled, Told, Reloading
<1> QED
  BY <1>2, <1>4, <1>5 DEF LInv

\* What no step of the listeners is about.
LEMMA Elsewhere ==
    ASSUME LInv, MainTypes', phase' = "run" => phase = "run",
           phase' = "disarmed" => phase = "disarmed",
           UNCHANGED <<config, monitor, listening>>
    PROVE  LInv'
<1>1. UNCHANGED <<entities, add, del, monitor, starting, listeners, acceptors, refused>>
  BY DEF config, listening
<1>2. ListenTypes' /\ Emptied'
  BY <1>1 DEF LInv, ListenTypes, Emptied
<1>3. Listening => Listening'
  BY <1>1 DEF Listening, Mapped, Settled, Told, Reloading
<1> QED
  BY <1>2, <1>3 DEF LInv

\* An accept that completes, or is started again, leaves the map as it is.
LEMMA AcceptLInv ==
    ASSUME IInv, LInv, MainTypes', phase' = phase,
           NEW i \in 1..Len(listeners), NEW a \in {"accepting", "got", "failed", "gone"},
           listeners' = [listeners EXCEPT ![i].at = a],
           UNCHANGED <<config, monitor, starting, acceptors, refused>>
    PROVE  LInv'
<1>1. listeners \in Seq(Listener) /\ Types
  BY DEF IInv, Types
<1>2. /\ Len(listeners') = Len(listeners)
      /\ \A j \in 1..Len(listeners) : listeners'[j].port = listeners[j].port
  BY <1>1, ListenersKept
<1>3. \A j \in 1..Len(listeners) : listeners'[j].open = listeners[j].open
  <2>1. listeners[i] \in Listener
    BY <1>1
  <2>2. [listeners[i] EXCEPT !.at = a].open = listeners[i].open
    BY <2>1 DEF Listener
  <2>3. listeners' = [listeners EXCEPT ![i] = [listeners[i] EXCEPT !.at = a]]
    OBVIOUS
  <2> QED
    BY <1>1, <2>2, <2>3
<1>4. ListenTypes' /\ Emptied'
  BY <1>2 DEF LInv, ListenTypes, Emptied
<1>5. Mapped => Mapped'
  <2>1. SUFFICES ASSUME Mapped PROVE Mapped'
    OBVIOUS
  <2>2. \A p \in Ports : acceptors[p] # 0 => acceptors[p] \in 1..Len(listeners)
    BY <1>1 DEF LInv, ListenTypes
  <2> QED
    BY <1>2, <1>3, <2>1, <2>2 DEF Mapped
<1>6. Settled /\ Reloading => Settled' /\ Reloading'
  BY DEF Settled, Told, Reloading, config
<1> QED
  BY <1>4, <1>5, <1>6 DEF LInv, Listening

\* The listeners on the ports of P are opened and emplaced, none of which is in
\* the map yet.
LEMMA OpenMapped ==
    ASSUME IInv, LInv, Mapped, NEW P \in SUBSET Ports, \A p \in P : acceptors[p] = 0
    PROVE  LET o == Opened(P)
               m == Emplaced(P)
           IN  /\ \A i \in 1..Len(o) : o[i].open => m[o[i].port] = i
               /\ \A p \in Ports : m[p] # 0 =>
                      m[p] \in 1..Len(o) /\ o[m[p]].open /\ o[m[p]].port = p
               /\ \A p \in Ports : m[p] # 0 <=> acceptors[p] # 0 \/ p \in P
<1> DEFINE o == Opened(P)
           m == Emplaced(P)
           s == SetToSeq(P)
           n == Len(listeners)
<1>1. /\ listeners \in Seq(Listener) /\ n \in Nat
      /\ Types /\ ListenTypes /\ acceptors \in [Ports -> 0..n]
  BY DEF IInv, LInv, Types, ListenTypes
<1>2. /\ Len(o) = n + Len(s) /\ Len(s) \in Nat
      /\ \A i \in 1..n : o[i] = listeners[i]
      /\ \A j \in 1..Len(s) : o[n + j] = NewListener(s[j])
  <2>1. IsFiniteSet(P)
    BY ListenerBounds, FS_Subset
  <2>2. Len(s) \in Nat
    BY <2>1, SetToSeqHits
  <2> QED
    BY <1>1, <2>2, OpenedAt
<1>3. /\ \A p \in Ports : p \notin P => m[p] = acceptors[p]
      /\ \A p \in P : \E j \in 1..Len(s) : s[j] = p /\ m[p] = n + j
  BY <1>1, EmplacedAt
<1>4. /\ \A j \in 1..Len(s) : s[j] \in P
      /\ \A i, j \in 1..Len(s) : s[i] = s[j] => i = j
  <2>1. IsFiniteSet(P)
    BY ListenerBounds, FS_Subset
  <2>2. s \in Seq(P) /\ \A i, j \in 1..Len(s) : s[i] = s[j] => i = j
    BY <2>1, SetToSeqHits
  <2> QED
    BY <2>2
<1> HIDE DEF o, m, s
<1>5. \A j \in 1..Len(s) : o[n + j].open /\ o[n + j].port = s[j] /\ m[s[j]] = n + j
  <2>1. ASSUME NEW j \in 1..Len(s)
        PROVE  m[s[j]] = n + j
    <3>1. s[j] \in P
      BY <1>4
    <3>2. PICK i \in 1..Len(s) : s[i] = s[j] /\ m[s[j]] = n + i
      BY <1>3, <3>1
    <3> QED
      BY <1>4, <3>2
  <2> QED
    <3>1. \A p : NewListener(p).open /\ NewListener(p).port = p
      BY DEF NewListener
    <3>2. \A j \in 1..Len(s) : o[n + j] = NewListener(s[j])
      BY <1>2
    <3> HIDE DEF n
    <3> QED
      BY <2>1, <3>1, <3>2, Zenon
<1>6. ASSUME NEW i \in 1..Len(o), o[i].open
      PROVE  m[o[i].port] = i
  <2>1. CASE i \in 1..n
    <3>1. listeners[i].open /\ o[i] = listeners[i] /\ listeners[i] \in Listener
      BY <1>1, <1>2, <1>6, <2>1
    <3>2. acceptors[listeners[i].port] = i /\ listeners[i].port \in Ports
      BY <2>1, <3>1 DEF Mapped, Listener
    <3>3. listeners[i].port \notin P
      BY <2>1, <3>2
    <3> QED
      BY <1>3, <3>1, <3>2, <3>3
  <2>2. CASE i \notin 1..n
    <3>1. \E j \in 1..Len(s) : i = n + j
      <4>1. i - n \in 1..Len(s) /\ i = n + (i - n)
        BY <1>1, <1>2, <2>2
      <4> QED
        BY <4>1
    <3> QED
      BY <1>5, <3>1
  <2> QED
    BY <2>1, <2>2
<1>7. ASSUME NEW p \in Ports, m[p] # 0
      PROVE  m[p] \in 1..Len(o) /\ o[m[p]].open /\ o[m[p]].port = p
  <2>1. CASE p \in P
    <3>1. PICK j \in 1..Len(s) : s[j] = p /\ m[p] = n + j
      BY <1>3, <2>1
    <3>2. n + j \in 1..Len(o)
      BY <1>1, <1>2
    <3> QED
      BY <1>5, <3>1, <3>2
  <2>2. CASE p \notin P
    <3>1. acceptors[p] # 0 /\ m[p] = acceptors[p]
      BY <1>3, <1>7, <2>2
    <3>2. acceptors[p] \in 1..n /\ acceptors[p] \in 1..Len(o)
      BY <1>1, <1>2, <3>1
    <3>3. listeners[acceptors[p]].open /\ listeners[acceptors[p]].port = p
      BY <3>1 DEF Mapped
    <3> QED
      BY <1>2, <3>1, <3>2, <3>3
  <2> QED
    BY <2>1, <2>2
<1>8. ASSUME NEW p \in Ports
      PROVE  m[p] # 0 <=> acceptors[p] # 0 \/ p \in P
  <2>1. CASE p \in P
    <3>1. PICK j \in 1..Len(s) : m[p] = n + j
      BY <1>3, <2>1
    <3>2. n + j # 0
      BY <1>1
    <3> QED
      BY <2>1, <3>1, <3>2
  <2> QED
    BY <1>3, <2>1
<1> QED
  BY <1>6, <1>7, <1>8 DEF o, m

-----------------------------------------------------------------------------
LEMMA FlushTypes == FlushTypeOK /\ [Next]_vars => FlushTypeOK'
<1> SUFFICES ASSUME FlushTypeOK, [Next]_vars PROVE FlushTypeOK'
  OBVIOUS
<1>1. CASE UNCHANGED flushVars
  BY <1>1 DEF flushVars, FlushTypeOK
<1>2. ASSUME NEW l, l \in {"blocking", "blocked", "flush", "done"}, FlushGoes(l)
      PROVE  FlushTypeOK'
  BY <1>2 DEF FlushGoes, FlushTypeOK
<1>3. CASE FlushStep \/ FlushGoes(Tested)
  <2>1. /\ Tested \in {"blocking", "blocked", "flush", "done"}
        /\ (IF run THEN "flush" ELSE "done") \in {"blocking", "blocked", "flush", "done"}
    BY DEF Tested
  <2> QED
    BY <1>2, <1>3, <2>1 DEF FlushStep, FlushBlocks, FlushWakes, Flushes
<1>4. CASE FreeLogger \/ ClearRun \/ NotifyOne
  <2>1. (flusher = "blocked") \in BOOLEAN
    OBVIOUS
  <2> QED
    BY <1>4, <2>1, Zenon DEF FreeLogger, ClearRun, NotifyOne, FlushTypeOK
<1>5. \/ UNCHANGED flushVars \/ FlushStep \/ FlushGoes(Tested)
      \/ FreeLogger \/ ClearRun \/ NotifyOne
  BY Zenon DEF Next, vars, ListenStep, MonitorStep, WorkerStep, Flush, FlushFreed, EndStep,
         SignalHandled, Disarmed, PoolStops, MainReturns, StaticsGo, FlusherStops,
         FlusherNotified, Exits, Killed, SignalArrives, Outside, Terminated
<1> QED
  BY <1>1, <1>3, <1>4, <1>5

\* The phases only name what they are.
LEMMA PhaseTypes ==
    ASSUME MainTypes, [Next]_vars
    PROVE  phase' \in Phase /\ signal' \in BOOLEAN
<1>1. ASSUME NEW a, NEW b, b \in Phase, Becomes(a, b)
      PROVE  phase' \in Phase /\ signal' \in BOOLEAN
  BY <1>1 DEF Becomes, MainTypes
<1>2. CASE NotMain
  BY <1>2 DEF NotMain, MainTypes
<1>3. CASE EndStep
  <2>1. {"unwinding", "disarmed", "joining", "returned", "freed", "stopping", "flushing",
         "exited"} \subseteq Phase
    BY DEF Phase
  <2> QED
    BY <1>1, <1>3, <2>1 DEF EndStep, SignalHandled, Disarmed, PoolStops, MainReturns,
       StaticsGo, FlusherStops, FlusherNotified, Exits
<1>4. CASE Killed \/ SignalArrives \/ FlushFreed
  BY <1>2, <1>4 DEF Killed, SignalArrives, FlushFreed, MainTypes, Phase
<1>5. NotMain \/ EndStep \/ Killed \/ SignalArrives \/ FlushFreed
  BY Zenon DEF Next, vars, ListenStep, MonitorStep, WorkerStep, Flush, Outside, Terminated,
         NotMain
<1> QED
  BY <1>2, <1>3, <1>4, <1>5

\* What the monitor knows of the file, and who has connected.
LEMMA WatchTypes ==
    ASSUME IInv, MainTypes, [Next]_vars
    PROVE  /\ stopped' \in BOOLEAN
           /\ monitor' \in MonitorState
           /\ seen' \in 0..MaxStamp
           /\ size' \in 0..Cardinality(Ports) + 1
           /\ clients' \in 0..MaxClients
<1> DEFINE Goal == /\ stopped' \in BOOLEAN
                   /\ monitor' \in MonitorState
                   /\ seen' \in 0..MaxStamp
                   /\ size' \in 0..Cardinality(Ports) + 1
                   /\ clients' \in 0..MaxClients
<1>1. /\ Cardinality(Ports) \in Nat /\ MaxStamp \in Nat /\ MaxClients \in Nat
      /\ file \in File
  BY ListenerBounds, FS_CardinalityType DEF IInv, Types
<1>2. CASE UNCHANGED <<stopped, watch, clients>>
  BY <1>2 DEF watch, MainTypes
<1>3. CASE MonitorStep
  <2>1. UNCHANGED <<stopped, clients>>
    BY <1>3 DEF MonitorStep, MonitorStarts, ChangeSeen, SizeTaken, ParseConf, Swap, Apply,
       WatchGoes, pool, listening
  <2>2. monitor' \in MonitorState
    BY <1>3 DEF MonitorStep, MonitorStarts, ChangeSeen, SizeTaken, ParseConf, Swap, Apply,
       WatchGoes, MonitorState
  <2>3. seen' = seen \/ seen' = file.stamp
    BY <1>3 DEF MonitorStep, MonitorStarts, ChangeSeen, SizeTaken, ParseConf, Swap, Apply
  <2>4. size' = size \/ (file.state # "missing" /\ size' = FileSize)
    BY <1>3 DEF MonitorStep, MonitorStarts, ChangeSeen, SizeTaken, ParseConf, Swap, Apply
  <2>5. file.stamp \in 0..MaxStamp
    BY <1>1 DEF File
  <2>6. file.state # "missing" => FileSize \in 0..Cardinality(Ports) + 1
    <3>1. file.ports \subseteq Ports /\ file.state \in {"whole", "part", "missing"}
      BY <1>1 DEF File
    <3>2. Cardinality(file.ports) \in Nat /\ Cardinality(file.ports) <= Cardinality(Ports)
      BY <3>1, ListenerBounds, FS_Subset, FS_CardinalityType
    <3>3. Cardinality(file.ports) + 1 \in 0..Cardinality(Ports) + 1
          /\ 0 \in 0..Cardinality(Ports) + 1
      BY <1>1, <3>2
    <3> QED
      BY <3>1, <3>3 DEF FileSize
  <2> QED
    BY <2>1, <2>2, <2>3, <2>4, <2>5, <2>6 DEF MainTypes
<1>4. CASE Outside
  <2>1. UNCHANGED <<stopped, watch>>
    BY <1>4 DEF Outside, ClientConnects, AcceptFails, AcceptEnds, SaveBegins, Saved,
       FileBecomes, pool
  <2>2. clients' = clients \/ (clients < MaxClients /\ clients' = clients + 1)
    BY <1>4 DEF Outside, ClientConnects, AcceptFails, AcceptEnds, SaveBegins, Saved,
       FileBecomes, listening
  <2>3. clients' \in 0..MaxClients
    BY <1>1, <2>2 DEF MainTypes
  <2> QED
    BY <2>1, <2>3 DEF watch, MainTypes
<1>5. CASE PoolStops
  BY <1>1, <1>5 DEF PoolStops, StopPool, MainTypes, MonitorState
<1>6. \/ UNCHANGED <<stopped, watch, clients>>
      \/ MonitorStep \/ Outside \/ PoolStops
  <2>1. CASE ListenStep
    BY <2>1 DEF ListenStep, ListenerStarts, Accepted, NotAccepted, Post, pool
  <2>2. ASSUME NEW k \in Workers, WorkerStep(k)
        PROVE  UNCHANGED <<stopped, watch, clients>>
    BY <2>2 DEF WorkerStep, Lookup, WorkerTakes, WorkerReturns, configVars, listening
  <2>3. CASE EndStep /\ ~PoolStops
    BY <2>3 DEF EndStep, SignalHandled, Disarmed, MainReturns, StaticsGo, FlusherStops,
       FlusherNotified, Exits, configVars, listening, pool
  <2>4. CASE Flush \/ FlushFreed \/ Killed \/ SignalArrives \/ UNCHANGED vars
    BY <2>4 DEF Flush, FlushFreed, Killed, SignalArrives, vars, configVars, listening, pool
  <2> QED
    BY <2>1, <2>2, <2>3, <2>4 DEF Next, Terminated
<1> QED
  BY <1>2, <1>3, <1>4, <1>5, <1>6

LEMMA MainTypesKept ==
    ASSUME IInv, MainTypes, [Next]_vars
    PROVE  MainTypes'
<1>1. FlushTypeOK'
  BY FlushTypes DEF MainTypes
<1> QED
  BY <1>1, PhaseTypes, WatchTypes DEF MainTypes

-----------------------------------------------------------------------------
\* A listener that starts opens its port, or is refused it.
LEMMA ListenerStartsLInv ==
    ASSUME IInv, LInv, MainTypes', phase = "run", phase' = "run", ListenerStarts
    PROVE  LInv'
<1>1. PICK p \in starting, no \in SUBSET Ports :
          /\ no \subseteq {p}
          /\ starting' = starting \ {p}
          /\ refused' = refused \cup no
          /\ listeners' = Opened({p} \ no)
          /\ acceptors' = Emplaced({p} \ no)
          /\ UNCHANGED <<config, watch>>
          /\ monitor # "swapped"
  <2>1. PICK p \in starting :
            /\ starting' = starting \ {p}
            /\ \E no \in CanRefuse({p}) :
                   /\ refused' = refused \cup no
                   /\ listeners' = Opened({p} \ no)
                   /\ acceptors' = Emplaced({p} \ no)
            /\ UNCHANGED <<config, watch>>
    BY DEF ListenerStarts
  <2>2. \A no \in CanRefuse({p}) : no \in SUBSET Ports /\ no \subseteq {p}
    BY DEF CanRefuse, IInv, Types
  <2>3. monitor # "swapped"
    BY DEF ListenerStarts, MainFree
  <2> QED
    BY <2>1, <2>2, <2>3
<1>2. Types /\ Listening /\ ListenTypes /\ p \in Ports
  BY DEF IInv, Types, LInv
<1>3. UNCHANGED <<monitor, entities, add, del>> /\ Told' = Told
  BY <1>1 DEF config, watch, Told
<1> DEFINE P == {p} \ no
<1>4. P \in SUBSET Ports /\ \A q \in P : acceptors[q] = 0
  BY <1>1, <1>2 DEF Listening, Settled
<1>5. /\ \A i \in 1..Len(listeners') : listeners'[i].open => acceptors'[listeners'[i].port] = i
      /\ \A q \in Ports : acceptors'[q] # 0 =>
             listeners'[acceptors'[q]].open /\ listeners'[acceptors'[q]].port = q
      /\ \A q \in Ports : acceptors'[q] # 0 <=> acceptors[q] # 0 \/ q \in P
  <2> HIDE DEF P
  <2>1. Mapped
    BY <1>2 DEF Listening
  <2>2. listeners' = Opened(P) /\ acceptors' = Emplaced(P)
    BY <1>1 DEF P
  <2> QED
    BY <1>4, <2>1, <2>2, OpenMapped
<1>6. Mapped'
  BY <1>5 DEF Mapped
<1>7. Settled'
  <2>1. starting \subseteq Told /\ refused \subseteq Told \ starting
        /\ \A q \in Ports : acceptors[q] # 0 <=> q \in Told \ (starting \cup refused)
    BY <1>2 DEF Listening, Settled
  <2>2. starting' \subseteq Told /\ refused' \subseteq Told \ starting'
    BY <1>1, <2>1
  <2>3. ASSUME NEW q \in Ports
        PROVE  acceptors'[q] # 0 <=> q \in Told \ (starting' \cup refused')
    <3>1. acceptors'[q] # 0 <=> q \in Told \ (starting \cup refused) \/ q \in {p} \ no
      BY <1>5, <2>1
    <3>2. starting' = starting \ {p} /\ refused' = refused \cup no /\ no \subseteq {p}
      BY <1>1
    <3>3. p \in starting /\ starting \subseteq Told /\ refused \cap starting = {}
      BY <2>1
    <3> QED
      BY <3>1, <3>2, <3>3
  <2> QED
    BY <1>3, <2>2, <2>3 DEF Settled
<1>8. Reloading'
  BY <1>1, <1>2, <1>3 DEF Listening, Reloading
<1>9. ListenTypes' /\ Emptied'
  <2>1. acceptors' \in [Ports -> 0..Len(listeners')]
    BY <1>1, <1>2, <1>4, EmplacedAt
  <2>2. refused' \subseteq Ports
    BY <1>1, <1>2 DEF ListenTypes
  <2> QED
    BY <2>1, <2>2 DEF ListenTypes, Emptied
<1> QED
  BY <1>6, <1>7, <1>8, <1>9 DEF LInv, Listening

\* The monitor up to the lock: what it finds out is what a reload adds to the
\* entries in force and takes from them.
LEMMA WatchLInv ==
    ASSUME LInv, MainTypes', phase = "run", phase' = "run",
           MonitorStarts \/ ChangeSeen \/ SizeTaken \/ ParseConf
    PROVE  LInv'
<1>1. /\ UNCHANGED <<entities, starting, listeners, acceptors, refused>>
      /\ monitor # "swapped" /\ monitor' \notin {"swapped", "init"}
      /\ monitor = "init" => starting = {}
      /\ monitor' = "parsed" => del' = entities \ file.ports /\ add' = file.ports \ entities
  BY DEF MonitorStarts, ChangeSeen, SizeTaken, ParseConf, WatchGoes, config, listening
<1>2. ListenTypes' /\ Emptied'
  BY <1>1 DEF LInv, ListenTypes, Emptied
<1>3. Listening
  BY DEF LInv
<1>4. Mapped' /\ Settled'
  BY <1>1, <1>3 DEF Listening, Mapped, Settled, Told
<1>5. Reloading'
  BY <1>1, <1>3 DEF Listening, Reloading
<1> QED
  BY <1>2, <1>4, <1>5 DEF LInv, Listening

\* The swap changes what is in force, not what is listened on.
LEMMA SwapLInv ==
    ASSUME LInv, MainTypes', phase = "run", phase' = "run", Swap
    PROVE  LInv'
<1>1. /\ UNCHANGED <<add, del, starting, listeners, acceptors, refused>>
      /\ monitor = "parsed" /\ monitor' = "swapped"
      /\ entities' = (entities \ del) \cup add
  BY DEF Swap, listening
<1>2. ListenTypes' /\ Emptied'
  BY <1>1 DEF LInv, ListenTypes, Emptied
<1>3. Listening /\ del \subseteq entities /\ add \cap entities = {} /\ starting = {}
  BY <1>1 DEF LInv, Listening, Reloading
<1>4. Told' = Told
  <2>1. Told = entities /\ Told' = (entities' \ add) \cup del
    BY <1>1 DEF Told
  <2> QED
    BY <1>1, <1>3, <2>1
<1>5. Mapped' /\ Settled'
  BY <1>1, <1>3, <1>4 DEF Listening, Mapped, Settled
<1>6. Reloading'
  BY <1>1, <1>3 DEF Reloading
<1> QED
  BY <1>2, <1>5, <1>6 DEF LInv, Listening

\* The reload opens what was added, then closes what was deleted: a port that
\* was in the map before keeps its listener, so the map finds the right one.
LEMMA ApplyLInv ==
    ASSUME IInv, LInv, MainTypes', phase = "run", phase' = "run", Apply
    PROVE  LInv'
<1>1. PICK no \in SUBSET add :
          /\ refused' = (refused \ del) \cup no
          /\ listeners' = [i \in 1..Len(Opened(add \ no)) |->
                              IF \E p \in del : Emplaced(add \ no)[p] = i
                              THEN Closed(Opened(add \ no)[i]) ELSE Opened(add \ no)[i]]
          /\ acceptors' = [p \in Ports |-> IF p \in del THEN 0 ELSE Emplaced(add \ no)[p]]
  BY DEF Apply, CanRefuse
<1>2. /\ monitor = "swapped" /\ monitor' = "waiting"
      /\ UNCHANGED <<entities, add, del, starting>>
  BY DEF Apply, config
<1>3. /\ Types /\ Listening /\ Mapped /\ Settled /\ ListenTypes
      /\ del \subseteq Ports /\ add \subseteq Ports /\ entities \subseteq Ports
      /\ add \subseteq entities /\ del \cap entities = {} /\ starting = {}
      /\ Told = (entities \ add) \cup del
  BY <1>2 DEF IInv, Types, LInv, Listening, Reloading, Told
<1>4. /\ refused \subseteq Told
      /\ \A p \in Ports : acceptors[p] # 0 <=> p \in Told \ refused
  BY <1>3 DEF Settled
<1> DEFINE P == add \ no
           o == Opened(P)
           m == Emplaced(P)
           closes(i) == \E p \in del : m[p] = i
<1>5. P \in SUBSET Ports /\ \A p \in P : acceptors[p] = 0
  BY <1>3, <1>4
<1>6. /\ listeners' = [i \in 1..Len(o) |-> IF closes(i) THEN Closed(o[i]) ELSE o[i]]
      /\ acceptors' = [p \in Ports |-> IF p \in del THEN 0 ELSE m[p]]
  BY <1>1, Zenon
<1>7. P \subseteq add /\ refused' = (refused \ del) \cup (add \ P)
  BY <1>1
<1> HIDE DEF P
<1>8. /\ o \in Seq(Listener)
      /\ m \in [Ports -> 0..Len(o)]
  BY <1>3, <1>5, OpenedAt, EmplacedAt
<1>9. /\ \A i \in 1..Len(o) : o[i].open => m[o[i].port] = i
      /\ \A p \in Ports : m[p] # 0 => m[p] \in 1..Len(o) /\ o[m[p]].open /\ o[m[p]].port = p
      /\ \A p \in Ports : m[p] # 0 <=> acceptors[p] # 0 \/ p \in P
  BY <1>3, <1>5, OpenMapped
<1> HIDE DEF o, m
<1>10. Len(o) \in Nat /\ \A i \in 1..Len(o) : o[i] \in Listener
  BY <1>8
<1>11. \A l \in Listener : Closed(l) \in Listener /\ ~Closed(l).open
  BY DEF Closed, Listener
<1> HIDE DEF closes
<1>12. /\ Len(listeners') = Len(o)
       /\ \A i \in 1..Len(o) : listeners'[i] = IF closes(i) THEN Closed(o[i]) ELSE o[i]
  BY <1>6, <1>10
<1>13. \A p \in Ports : acceptors'[p] = IF p \in del THEN 0 ELSE m[p]
  BY <1>6
<1>14. ASSUME NEW i \in 1..Len(listeners'), listeners'[i].open
       PROVE  acceptors'[listeners'[i].port] = i
  <2>1. ~closes(i) /\ listeners'[i] = o[i]
    BY <1>10, <1>11, <1>12, <1>14
  <2>2. m[o[i].port] = i /\ o[i].port \in Ports
    <3>1. o[i] \in Listener
      BY <1>10, <1>12
    <3> QED
      BY <1>9, <1>12, <1>14, <2>1, <3>1 DEF Listener
  <2>3. o[i].port \notin del
    BY <2>1, <2>2 DEF closes
  <2> QED
    BY <1>13, <2>1, <2>2, <2>3
<1>15. ASSUME NEW p \in Ports, acceptors'[p] # 0
       PROVE  listeners'[acceptors'[p]].open /\ listeners'[acceptors'[p]].port = p
  <2>1. p \notin del /\ acceptors'[p] = m[p] /\ m[p] # 0
    BY <1>13, <1>15
  <2>2. m[p] \in 1..Len(o) /\ o[m[p]].open /\ o[m[p]].port = p
    BY <1>9, <2>1
  <2>3. ~closes(m[p])
    <3>1. SUFFICES ASSUME NEW q \in del, m[q] = m[p] PROVE FALSE
      BY DEF closes
    <3>2. m[q] # 0 /\ q \in Ports
      BY <1>3, <2>1, <3>1
    <3>3. o[m[q]].port = q
      BY <1>9, <3>2
    <3> QED
      BY <2>1, <2>2, <3>1, <3>3
  <2> QED
    BY <1>12, <2>1, <2>2, <2>3
<1>16. Mapped'
  BY <1>14, <1>15 DEF Mapped
<1>17. Settled'
  <2>1. Told' = entities /\ starting' = {}
    BY <1>2, <1>3 DEF Told
  <2>2. refused' \subseteq entities
    BY <1>3, <1>4, <1>7
  <2>3. \A p \in Ports : acceptors'[p] # 0 <=> p \in entities \ refused'
    BY <1>3, <1>4, <1>7, <1>9, <1>13
  <2> QED
    BY <2>1, <2>2, <2>3 DEF Settled
<1>18. Reloading'
  BY <1>2, <1>3 DEF Reloading
<1>19. ListenTypes' /\ Emptied'
  <2>1. acceptors' \in [Ports -> 0..Len(listeners')]
    <3>1. \A p \in Ports : (IF p \in del THEN 0 ELSE m[p]) \in 0..Len(o)
      BY <1>8, <1>10
    <3> QED
      BY <1>6, <1>12, <3>1
  <2>2. refused' \subseteq Ports
    BY <1>3, <1>7 DEF ListenTypes
  <2> QED
    BY <2>1, <2>2 DEF ListenTypes, Emptied
<1> QED
  BY <1>16, <1>17, <1>18, <1>19 DEF LInv, Listening

LEMMA ListenLInv ==
    ASSUME IInv, LInv, MainTypes', ListenStep
    PROVE  LInv'
<1>1. phase = "run" /\ phase' = "run"
  BY DEF ListenStep, NotMain
<1>2. CASE ListenerStarts
  BY <1>1, <1>2, ListenerStartsLInv
<1>3. ASSUME NEW i \in 1..Len(listeners), Accepted(i) \/ NotAccepted(i)
      PROVE  LInv'
  <2>1. PICK a \in {"accepting", "failed", "gone"} :
            listeners' = [listeners EXCEPT ![i].at = a]
    BY <1>3 DEF Accepted, NotAccepted, AcceptAgain
  <2>2. UNCHANGED <<config, monitor, starting, acceptors, refused>>
    BY <1>3 DEF Accepted, NotAccepted, watch
  <2> QED
    BY <1>1, <2>1, <2>2, AcceptLInv
<1> QED
  BY <1>2, <1>3 DEF ListenStep

LEMMA OutsideLInv ==
    ASSUME IInv, LInv, MainTypes', Outside
    PROVE  LInv'
<1>1. phase = "run" /\ phase' = "run"
  BY DEF Outside, NotMain
<1>2. ASSUME NEW i \in 1..Len(listeners), NEW a \in {"got", "failed"}, AcceptEnds(i, a)
      PROVE  LInv'
  <2>1. /\ listeners' = [listeners EXCEPT ![i].at = a]
        /\ UNCHANGED <<config, monitor, starting, acceptors, refused>>
    BY <1>2 DEF AcceptEnds, watch
  <2> QED
    BY <1>1, <2>1, AcceptLInv
<1>3. CASE SaveBegins \/ Saved
  <2>1. UNCHANGED <<config, monitor, listening>>
    BY <1>3 DEF SaveBegins, Saved, FileBecomes, watch
  <2> QED
    BY <1>1, <2>1, Elsewhere
<1> QED
  BY <1>2, <1>3 DEF Outside, ClientConnects, AcceptFails

\* After main no listener runs: only its map is cleared, then they all go.
LEMMA EndLInv ==
    ASSUME LInv, MainTypes', EndStep
    PROVE  LInv'
<1>1. CASE SignalHandled \/ MainReturns \/ FlusherStops \/ FlusherNotified \/ Exits
  <2>1. /\ phase' \notin {"run", "disarmed"}
        /\ UNCHANGED <<config, monitor, listening>>
    BY <1>1 DEF SignalHandled, MainReturns, FlusherStops, FlusherNotified, Exits, Becomes,
       configVars, watch
  <2> QED
    BY <2>1, Elsewhere
<1>2. CASE Disarmed
  <2>1. /\ phase' = "disarmed" /\ acceptors' = [p \in Ports |-> 0]
        /\ UNCHANGED <<listeners, refused>>
    BY <1>2 DEF Disarmed, Becomes
  <2>2. ListenTypes
    BY DEF LInv
  <2>3. Len(listeners) \in Nat \/ Ports = {}
    <3>1. SUFFICES ASSUME NEW p \in Ports PROVE Len(listeners) \in Nat
      OBVIOUS
    <3> QED
      BY <2>2 DEF ListenTypes
  <2> QED
    BY <2>1, <2>2, <2>3 DEF LInv, ListenTypes, Emptied
<1>3. CASE PoolStops
  <2>1. /\ phase = "disarmed" /\ phase' = "joining" /\ listeners' = <<>>
        /\ UNCHANGED <<acceptors, refused>>
    BY <1>3 DEF PoolStops, Becomes
  <2>2. \A p \in Ports : acceptors[p] = 0
    BY <2>1 DEF LInv, Emptied
  <2>3. acceptors' \in [Ports -> 0..Len(listeners')]
    BY <2>1, <2>2 DEF LInv, ListenTypes
  <2> QED
    BY <2>1, <2>3 DEF LInv, ListenTypes, Emptied
<1>4. CASE StaticsGo
  <2>1. phase' = "freed" /\ UNCHANGED <<listeners, acceptors, refused>>
    BY <1>4 DEF StaticsGo, Becomes, listening
  <2> QED
    BY <2>1 DEF LInv, ListenTypes, Emptied
<1> QED
  BY <1>1, <1>2, <1>3, <1>4 DEF EndStep

LEMMA ElseLInv ==
    ASSUME LInv, MainTypes',
           \/ \E k \in Workers : WorkerStep(k)
           \/ Flush \/ FlushFreed \/ Killed \/ SignalArrives \/ UNCHANGED vars
    PROVE  LInv'
<1>1. /\ phase' = phase \/ phase' = "killed"
      /\ UNCHANGED <<config, monitor, listening>>
  BY DEF WorkerStep, Lookup, WorkerTakes, WorkerReturns, Flush, FlushFreed, Killed,
         SignalArrives, vars, NotMain, configVars, watch
<1> QED
  BY <1>1, Elsewhere

LEMMA NextLInv ==
    ASSUME IInv, LInv, [Next]_vars
    PROVE  LInv'
<1>1. MainTypes'
  BY MainTypesKept DEF LInv
<1>2. CASE ListenStep
  BY <1>1, <1>2, ListenLInv
<1>3. CASE MonitorStep
  BY <1>1, <1>3, WatchLInv, SwapLInv, ApplyLInv DEF MonitorStep, NotMain
<1>4. CASE EndStep
  BY <1>1, <1>4, EndLInv
<1>5. CASE Outside
  BY <1>1, <1>5, OutsideLInv
<1>6. CASE \/ \E k \in Workers : WorkerStep(k)
           \/ Flush \/ FlushFreed \/ Killed \/ SignalArrives \/ UNCHANGED vars
  BY <1>1, <1>6, ElseLInv
<1> QED
  BY <1>2, <1>3, <1>4, <1>5, <1>6 DEF Next, Terminated

LEMMA AlwaysLInv == Spec => [](IInv /\ LInv)
BY InitIInv, InitLInv, NextIInv, NextLInv, PTL DEF Spec

-----------------------------------------------------------------------------
\* The variables of the process have their types; above all, no entry of the
\* map of acceptors outlives the listeners it points to (cpp_proxy.cpp 22-38,
\* 61-94, 101-141).
THEOREM MainTypeOK == Spec => []TypeOK
<1>1. IInv /\ LInv => TypeOK
  BY Zenon DEF IInv, Types, LInv, MainTypes, ListenTypes, TypeOK, PoolTypeOK, ConfigTypeOK
<1> QED
  BY <1>1, AlwaysLInv, PTL

\* For any number of ports, and however reloads, refused ports and accepts
\* interleave: when the main thread is through with a handler, it listens on
\* exactly the ports of the configuration in force that could be bound, with
\* one listener each, and the map by which the next reload will close them
\* names those listeners and no other (cpp_proxy.cpp 36-38, 79-93).
THEOREM ListenersFollow == Spec => []AcceptorsFollow
<1>1. IInv /\ LInv => AcceptorsFollow
  <2> SUFFICES ASSUME IInv, LInv, phase = "run", monitor \in {"waiting", "dead"}, starting = {}
               PROVE  LET open == {i \in 1..Len(listeners) : listeners[i].open}
                      IN  /\ {listeners[i].port : i \in open} = entities \ refused
                          /\ \A i \in open : acceptors[listeners[i].port] = i
                          /\ \A p \in Ports : acceptors[p] # 0 => acceptors[p] \in open
    BY DEF AcceptorsFollow
  <2> DEFINE open == {i \in 1..Len(listeners) : listeners[i].open}
  <2>1. /\ Mapped /\ listeners \in Seq(Listener) /\ entities \subseteq Ports
        /\ acceptors \in [Ports -> 0..Len(listeners)]
        /\ \A p \in Ports : acceptors[p] # 0 <=> p \in entities \ refused
    BY DEF IInv, Types, LInv, ListenTypes, Listening, Settled, Told
  <2>2. ASSUME NEW p \in Ports, acceptors[p] # 0
        PROVE  acceptors[p] \in open /\ listeners[acceptors[p]].port = p
    <3>1. acceptors[p] \in 1..Len(listeners)
      BY <2>1, <2>2
    <3> QED
      BY <2>1, <2>2, <3>1 DEF Mapped
  <2>3. ASSUME NEW i \in open
        PROVE  acceptors[listeners[i].port] = i /\ listeners[i].port \in entities \ refused
    <3>1. i \in 1..Len(listeners) /\ listeners[i].open /\ i # 0
      BY <2>3
    <3>2. listeners[i] \in Listener
      BY <2>1, <3>1
    <3>3. acceptors[listeners[i].port] = i /\ listeners[i].port \in Ports
      BY <2>1, <3>1, <3>2 DEF Mapped, Listener
    <3> QED
      BY <2>1, <3>1, <3>3
  <2>4. ASSUME NEW p \in entities \ refused
        PROVE  \E i \in open : listeners[i].port = p
    <3>1. p \in Ports /\ acceptors[p] # 0
      BY <2>1
    <3> QED
      BY <2>2, <3>1
  <2> QED
    BY <2>2, <2>3, <2>4
<1> QED
  BY <1>1, AlwaysLInv, PTL
=============================================================================
