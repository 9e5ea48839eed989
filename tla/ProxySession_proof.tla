--------------------------- MODULE ProxySession_proof ---------------------------
(***************************************************************************)
(* What holds in every session of the proxy, whatever its peers and the    *)
(* process do, however many bytes there are, whatever the bounds and       *)
(* however many frames its coroutines have.                                *)
(*                                                                         *)
(* The inductive invariant is Inv.  Its core is Sane (module SessionFacts),*)
(* which the operators of Session preserve; SetupAlone says that the       *)
(* coroutine setup_proxy is over before any other one starts, so that the  *)
(* facts about the others need not mention it; Surroundings gives types to *)
(* what lies outside the session.  There is one lemma per group of actions.*)
(***************************************************************************)
EXTENDS ProxySession, SessionFacts

\* setup_proxy is alone: it starts the other coroutines in its last step.
SetupAlone ==
    ses.pc["setup"] # "idle" =>
        /\ ~ses.closed
        /\ \A c \in Coro \ {"setup"} : ses.pc[c] = "idle"

\* The types of the peers, of the process and of what was sent.
Surroundings ==
    /\ sent \in [Dir -> Nat]
    /\ got \in [Dir -> Nat]
    /\ deliv \in [Dir -> Seq(Nat)]
    /\ vetted \in [Dir -> SUBSET Nat]
    /\ peer \in [Peers -> {"up", "fin", "rst"}]
    /\ link \in LinkState
    /\ listening \in BOOLEAN
    /\ faults \in Nat

\* The inductive invariant.
Inv == Sane(ses) /\ SetupAlone /\ Surroundings

\* What every step does to has_closed_: grace_close never goes back.
StaysClosed == ses.closed => ses'.closed

\* A session without a process connection has a well-formed link.
LEMMA NoLinkType == NoLink \in LinkState
<1>1. \A S : <<>> \in Seq(S)
  OBVIOUS
<1> QED
  BY <1>1 DEF NoLink, LinkState

\* A session that setup_proxy has just started satisfies the invariant.
LEMMA InitInv == Init => Inv
<1> SUFFICES ASSUME Init PROVE Inv
  OBVIOUS
<1>1. \A S : <<>> \in Seq(S)
  OBVIOUS
<1>2. <<"setup">> \in Seq(Coro) /\ <<"setup">> \in Seq({"setup"})
  BY DEF Coro
<1>3. NoHead \in ResponseHead
  BY DEF NoHead, ResponseHead
<1>4. NewSession \in SessionState
  <2>1. [ch \in Chan |-> IF ch = "resolve" THEN <<"setup">> ELSE <<>>]
           \in [Chan -> Seq(Coro)]
    BY <1>1, <1>2
  <2> QED
    BY <1>1, <1>3, <2>1 DEF NewSession, SessionState, Sock, SockState, Label, Result
<1>5. /\ NewSession.wait = [ch \in Chan |-> IF ch = "resolve" THEN <<"setup">> ELSE <<>>]
      /\ NewSession.pc = [c \in Coro |-> IF c = "setup" THEN "resolve" ELSE "idle"]
      /\ NewSession.stored = [d \in Dir |-> <<>>]
      /\ ~NewSession.closed /\ ~NewSession.connecting
  BY DEF NewSession
<1>6. Waited(NewSession)
  <2> SUFFICES ASSUME NEW ch \in Chan PROVE NewSession.wait[ch] \in Seq(Waiters[ch])
    BY DEF Waited
  <2>1. CASE ch = "resolve"
    BY <1>2, <1>5, <2>1 DEF Waiters
  <2>2. CASE ch # "resolve"
    BY <1>1, <1>5, <2>2
  <2> QED
    BY <2>1, <2>2
<1>7. Formed(NewSession) /\ Shut(NewSession)
  BY <1>4, <1>5, <1>6 DEF Formed, Ended, Shut
<1>8. /\ \A k \in Connectors : NewSession.pc[k] = "idle"
      /\ \A r \in Readers : NewSession.pc[r] = "idle"
  BY <1>5, FramesAreDistinct DEF Coro
<1>9. OneTrying(NewSession) /\ Heads(NewSession)
  BY <1>5, <1>8 DEF OneTrying, Trying, Heads, Headed
<1>10. SetupAlone
  BY <1>5 DEF Init, SetupAlone
<1>11. Surroundings
  BY <1>1, NoLinkType DEF Init, Surroundings
<1> QED
  BY <1>7, <1>9, <1>10, <1>11 DEF Inv, Sane, Init

\* What a run of a coroutine other than setup_proxy has to show.
LEMMA RunKeeps ==
  ASSUME Inv, NEW c \in Coro \ {"setup"}, ses.pc[c] # "idle",
         NEW st, Sane(st), Keeps(ses, st), Becomes(st)
  PROVE  Inv' /\ StaysClosed
<1>1. ses.pc["setup"] = "idle"
  BY DEF Inv, SetupAlone
<1>2. Surroundings'
  BY NoLinkType DEF Inv, Surroundings, Becomes, outside
<1> QED
  BY <1>1, <1>2 DEF Inv, SetupAlone, StaysClosed, Becomes, Keeps

\* Taking the head off the ready queue leaves a sane session: every handler
\* starts from it.
LEMMA Running ==
  ASSUME Inv, NEW c, NEW ls, NEW r, Runs(c, ls, r)
  PROVE  Sane(st0) /\ Keeps(ses, st0) /\ st0.pc = ses.pc /\ st0.msg = ses.msg
         /\ st0.closed = ses.closed /\ st0.connecting = ses.connecting
<1>1. Sane(st0) /\ Keeps(ses, st0)
  BY PopSane DEF Inv, Runs, st0
<1> QED
  BY <1>1 DEF Inv, Sane, Formed, SessionState, st0, Pop

\* A frame given to co_spawn is one of its pool.
LEMMA Frames ==
  ASSUME NEW st, NEW pool, NEW f \in Frame(st, pool)
  PROVE  f \in pool
BY DEF Frame

-----------------------------------------------------------------------------
\* setup_proxy: it resolves, connects to the server and starts the loops and
\* connect_process.
LEMMA SetupSteps ==
  ASSUME Inv, Resolved \/ SetupFails \/ Dialed
  PROVE  Inv' /\ StaysClosed
<1>1. /\ "setup" \in Coro /\ "setup" \notin Connectors /\ "setup" \notin Readers
      /\ "server" \in Sock /\ "serverWr" \in Chan /\ "setup" \in Waiters["serverWr"]
      /\ "dial" \in Label /\ "open" \in SockState
  BY FramesAreDistinct DEF Coro, Sock, Chan, Waiters, Label, SockState
<1>2. /\ Sane(st0) /\ st0.pc = ses.pc /\ st0.closed = ses.closed
      /\ ~ses.closed /\ \A c \in Coro \ {"setup"} : ses.pc[c] = "idle"
  <2>1. PICK ls, r : Runs("setup", ls, r) /\ "idle" \notin ls
    BY DEF Resolved, SetupFails, Dialed
  <2> QED
    BY <2>1, Running DEF Inv, SetupAlone, Runs
<1>3. ASSUME NEW st, Becomes(st), Sane(st),
             \/ st.pc["setup"] = "idle"
             \/ ~st.closed /\ \A c \in Coro \ {"setup"} : st.pc[c] = "idle"
      PROVE  Inv' /\ StaysClosed
  <2>1. Surroundings'
    BY <1>3, NoLinkType DEF Inv, Surroundings, Becomes, outside
  <2> QED
    BY <1>2, <1>3, <2>1 DEF Inv, SetupAlone, StaysClosed, Becomes
<1>4. ASSUME NEW st, Sane(st)
      PROVE  Sane(Return(st, "setup")) /\ Return(st, "setup").pc["setup"] = "idle"
  <2>1. Return(st, "setup").pc = [st.pc EXCEPT !["setup"] = "idle"]
    BY <1>1, <1>4, ReturnFormed DEF Sane
  <2>2. st.pc \in [Coro -> Label]
    BY <1>4 DEF Sane, Formed, SessionState
  <2> QED
    BY <1>1, <1>4, <2>1, <2>2, ReturnSane
<1>5. CASE Resolved
  <2> DEFINE s == [st0 EXCEPT !.sock["server"] = "open"]
             u == Await(s, "setup", "dial", "serverWr")
  <2>1. Sane(s) /\ Same(st0, s)
    BY <1>1, <1>2, OpenSane
  <2> HIDE DEF s
  <2>2. Formed(u)
    BY <1>1, <2>1, AwaitFormed DEF Sane
  <2>3. /\ u.closed = s.closed /\ u.connecting = s.connecting
        /\ u.pc = [s.pc EXCEPT !["setup"] = "dial"] /\ u.msg = s.msg
    BY <1>1, <2>1, AwaitEffects DEF Sane
  <2>4. s.pc \in [Coro -> Label] /\ Connectors \subseteq Coro /\ Readers \subseteq Coro
    BY <2>1 DEF Sane, Formed, SessionState, Coro
  <2>5. OneTrying(u) /\ Heads(u)
    BY <1>1, <2>1, <2>3, <2>4 DEF Sane, OneTrying, Trying, Heads
  <2>6. ~u.closed /\ \A c \in Coro \ {"setup"} : u.pc[c] = "idle"
    BY <1>2, <2>1, <2>3, <2>4 DEF Same
  <2>7. Becomes(u)
    BY <1>5 DEF Resolved, s
  <2>8. Sane(u)
    BY <2>2, <2>5, <2>6 DEF Sane, Shut
  <2> HIDE DEF u
  <2> QED
    BY <1>3, <2>6, <2>7, <2>8
<1>6. CASE SetupFails
  <2>1. Sane(GraceClose(st0))
    BY <1>2, GraceCloseSane
  <2>2. Becomes(Return(GraceClose(st0), "setup"))
    BY <1>6 DEF SetupFails, GiveUp
  <2> QED
    BY <1>3, <1>4, <2>1, <2>2
<1>7. CASE Dialed
  <2>1. PICK k \in Connectors :
           Becomes(Return(NextRound(NextRound(ConnectProcess(st0, k), "req"), "res"),
                          "setup"))
    BY <1>7, Frames DEF Dialed
  <2>2. Sane(NextRound(NextRound(ConnectProcess(st0, k), "req"), "res"))
    BY <1>2, ConnectProcessSane, NextRoundSane DEF Dir
  <2> QED
    BY <1>3, <1>4, <2>1, <2>2
<1> QED
  BY <1>5, <1>6, <1>7

\* The handlers of client_request and server_response.
LEMMA LoopSteps ==
  ASSUME Inv, NEW d \in Dir,
         \/ ReadDirect(d) \/ ReadForProcess(d) \/ ReadEof(d) \/ Written(d)
         \/ LoopFails(d) \/ Notified(d) \/ ProcessWriteFails(d) \/ StoredWritten(d)
  PROVE  Inv' /\ StaysClosed
<1>1. /\ d \in Coro \ {"setup"} /\ d \notin Connectors /\ From[d] \in Sock
      /\ d \in Waiters[Rd[From[d]]] /\ "dread" \in Label \ Headed
  BY LoopChannels DEF Label, Headed
<1>2. Sane(st0) /\ Keeps(ses, st0) /\ ses.pc[d] # "idle"
  <2>1. PICK ls, r : Runs(d, ls, r) /\ "idle" \notin ls
    BY DEF ReadDirect, ReadForProcess, ReadEof, Written, LoopFails, Notified,
           ProcessWriteFails, StoredWritten
  <2> QED
    BY <2>1, Running DEF Runs
<1>3. ASSUME NEW st, Sane(st), Keeps(st0, st), Becomes(st)
      PROVE  Inv' /\ StaysClosed
  BY <1>1, <1>2, <1>3, RunKeeps, KeepsTransitive
<1>4. CASE ReadDirect(d)
  BY <1>2, <1>3, <1>4, WriteDirectSane DEF ReadDirect
<1>5. CASE ReadForProcess(d)
  BY <1>2, <1>3, <1>5, StoreAndSendSane DEF ReadForProcess
<1>6. CASE ReadEof(d)
  <2> DEFINE s == [st0 EXCEPT !.eof = TRUE]
  <2>1. /\ s \in SessionState /\ s.closed = st0.closed /\ s.connecting = st0.connecting
        /\ s.sock = st0.sock /\ s.wait = st0.wait /\ s.pc = st0.pc /\ s.msg = st0.msg
        /\ s.stored = st0.stored
    BY <1>2 DEF Sane, Formed, SessionState
  <2>2. Becomes(NextRound(s, d))
    BY <1>6 DEF ReadEof
  <2> HIDE DEF s
  <2>3. Ended(s)
    BY <1>2, <2>1 DEF Sane, Formed, Ended
  <2>4. Sane(s) /\ Keeps(st0, s)
    BY <1>2, <2>1, <2>3, SameSane
  <2> QED
    BY <1>3, <2>2, <2>4, NextRoundSane, KeepsTransitive
<1>7. CASE Written(d)
  BY <1>2, <1>3, <1>7, NextRoundSane DEF Written
<1>8. CASE LoopFails(d)
  BY <1>1, <1>2, <1>3, <1>8, GiveUpSane DEF LoopFails
<1>9. CASE Notified(d)
  BY <1>1, <1>2, <1>3, <1>9, AwaitIoSane DEF Notified
<1>10. CASE ProcessWriteFails(d)
  BY <1>2, <1>3, <1>10, Frames, SendFailedSane DEF ProcessWriteFails
<1>11. CASE StoredWritten(d)
  BY <1>2, <1>3, <1>11, Frames, FlushedSane, ReconnectSane, KeepsTransitive
     DEF StoredWritten
<1> QED
  BY <1>4, <1>5, <1>6, <1>7, <1>8, <1>9, <1>10, <1>11

\* The handlers of connect_process.  Only the one that is trying may sleep,
\* connect again or lower process_connecting_.
LEMMA ConnectSteps ==
  ASSUME Inv, NEW k \in Connectors,
         \/ ProcessConnected(k) \/ ConnectFails(k) \/ ConnectAgain(k)
         \/ Introduced(k) \/ NotIntroduced(k)
  PROVE  Inv' /\ StaysClosed
<1>1. k \in Coro \ {"setup"} /\ k \notin Readers
  BY FramesAreDistinct DEF Coro
<1>2. /\ Sane(st0) /\ Keeps(ses, st0) /\ ses.pc[k] # "idle" /\ st0.pc = ses.pc
      /\ st0.closed = ses.closed /\ st0.connecting = ses.connecting
  <2>1. PICK ls, r : Runs(k, ls, r) /\ "idle" \notin ls
    BY DEF ProcessConnected, ConnectFails, ConnectAgain, Introduced, NotIntroduced
  <2> QED
    BY <2>1, Running DEF Runs
<1>3. ASSUME NEW st, Sane(st), Keeps(st0, st), Becomes(st)
      PROVE  Inv' /\ StaysClosed
  BY <1>1, <1>2, <1>3, RunKeeps, KeepsTransitive
<1>4. CASE ProcessConnected(k)
  <2>1. Trying(st0, k)
    BY <1>2, <1>4 DEF ProcessConnected, Runs, Trying
  <2> QED
    BY <1>2, <1>3, <1>4, <2>1, ConnectedSane DEF ProcessConnected
<1>5. CASE ConnectFails(k)
  <2> DEFINE u == Await(st0, k, "retry", "retry")
  <2>1. /\ "retry" \in Chan /\ k \in Waiters["retry"] /\ "retry" \in Label
        /\ \A j \in Sock : "retry" \notin {Rd[j], Wr[j]}
    BY DEF Chan, Waiters, Label, Sock, Rd, Wr
  <2>2. Formed(u)
    BY <1>2, <2>1, AwaitFormed DEF Sane
  <2>3. /\ u.closed = st0.closed /\ u.connecting = st0.connecting /\ u.sock = st0.sock
        /\ u.pc = [st0.pc EXCEPT ![k] = "retry"] /\ u.msg = st0.msg
        /\ \A x \in Chan \ {"retry"} : u.wait[x] = st0.wait[x]
    BY <1>2, <2>1, AwaitEffects DEF Sane
  <2>4. Shut(u)
    BY <1>2, <2>1, <2>3, SockChannels DEF Sane, Shut, Dead
  <2>5. /\ st0.pc \in [Coro -> Label] /\ Connectors \subseteq Coro /\ Readers \subseteq Coro
        /\ "setup" \in Coro
    BY <1>2 DEF Sane, Formed, SessionState, Coro
  <2>6. Trying(st0, k)
    BY <1>2, <1>5 DEF ConnectFails, Runs, Trying
  <2>7. \A j \in Connectors : Trying(u, j) <=> Trying(st0, j)
    BY <2>3, <2>5, <2>6 DEF Trying
  <2>8. OneTrying(u) /\ Heads(u) /\ Keeps(st0, u)
    BY <1>1, <1>2, <2>3, <2>5, <2>7 DEF Sane, OneTrying, Heads, Keeps
  <2>9. Becomes(u)
    BY <1>5 DEF ConnectFails
  <2> HIDE DEF u
  <2> QED
    BY <1>3, <2>2, <2>4, <2>8, <2>9 DEF Sane
<1>6. CASE ConnectAgain(k)
  <2>1. Trying(st0, k)
    BY <1>2, <1>6 DEF ConnectAgain, Runs, Trying
  <2>2. /\ \A l \in Connectors : Trying(st0, l) => (l = k \/ st0.closed)
        /\ \A l, m \in Connectors : Trying(st0, l) /\ Trying(st0, m) => l = m
        /\ st0.closed \/ st0.connecting
    BY <1>2, <2>1 DEF Sane, OneTrying
  <2>3. Sane(TryConnect(st0, k)) /\ Keeps(st0, TryConnect(st0, k))
    BY <1>2, <2>2, TryConnectSane DEF Sane
  <2> QED
    BY <1>3, <1>6, <2>3 DEF ConnectAgain
<1>7. CASE Introduced(k)
  <2>1. ~Trying(st0, k)
    BY <1>2, <1>7 DEF Introduced, Runs, Trying
  <2> QED
    BY <1>2, <1>3, <1>7, <2>1, Frames, ServedSane DEF Introduced
<1>8. CASE NotIntroduced(k)
  <2>1. ~Trying(st0, k)
    BY <1>2, <1>8 DEF NotIntroduced, Runs, Trying
  <2> QED
    BY <1>1, <1>2, <1>3, <1>8, <2>1, ReturnSane DEF NotIntroduced
<1> QED
  BY <1>4, <1>5, <1>6, <1>7, <1>8

\* The handlers of process_2proxy_2client_or_2server.  Past the head, a reader
\* holds an answer for a direction, never a heartbeat.
LEMMA ReaderSteps ==
  ASSUME Inv, NEW r \in Readers,
         \/ Heartbeat(r) \/ HeadRead(r) \/ BodyRead(r) \/ NewWritten(r)
         \/ HandledWritten(r) \/ ReaderFails(r) \/ ProcessReadFails(r)
         \/ RequestsFlushed(r) \/ ResponsesFlushed(r)
  PROVE  Inv' /\ StaysClosed
<1>1. /\ r \in Coro \ {"setup"} /\ r \notin Connectors
      /\ "process" \in Sock /\ Rd["process"] = "processRd" /\ r \in Waiters["processRd"]
      /\ "detect" \in Chan /\ "body" \in Label
  BY FramesAreDistinct DEF Coro, Sock, Rd, Waiters, Chan, Label
<1>2. /\ Sane(st0) /\ Keeps(ses, st0) /\ ses.pc[r] # "idle" /\ st0.pc = ses.pc
      /\ st0.msg = ses.msg
  <2>1. PICK ls, x : Runs(r, ls, x) /\ "idle" \notin ls
    BY DEF Heartbeat, HeadRead, BodyRead, NewWritten, HandledWritten, ReaderFails,
           ProcessReadFails, RequestsFlushed, ResponsesFlushed
  <2> QED
    BY <2>1, Running DEF Runs
<1>3. ASSUME NEW st, Sane(st), Keeps(st0, st), Becomes(st)
      PROVE  Inv' /\ StaysClosed
  BY <1>1, <1>2, <1>3, RunKeeps, KeepsTransitive
<1>4. ses.pc[r] \in Headed => st0.msg[r].type \in Dir
  BY <1>2 DEF Sane, Heads
<1>5. CASE Heartbeat(r)
  BY <1>1, <1>2, <1>3, <1>5, CancelSane, ReadHeadSane, KeepsTransitive DEF Heartbeat
<1>6. CASE HeadRead(r)
  <2>1. st0.msg[r].type \in Dir
    BY <1>2, <1>6 DEF HeadRead
  <2>2. Sane(Decide(st0, r)) /\ Keeps(st0, Decide(st0, r))
    BY <1>2, <2>1, DecideSane
  <2>3. LET u == AwaitIo(st0, r, "body", "process", "processRd")
        IN  Sane(u) /\ Keeps(st0, u)
    BY <1>1, <1>2, <2>1, AwaitIoSane
  <2> QED
    BY <1>3, <1>6, <2>2, <2>3 DEF HeadRead
<1>7. CASE BodyRead(r)
  <2>1. st0.msg[r].type \in Dir
    BY <1>4, <1>7 DEF BodyRead, Runs, Headed
  <2> QED
    BY <1>2, <1>3, <1>7, <2>1, WriteNewSane DEF BodyRead
<1>8. CASE NewWritten(r)
  <2>1. st0.msg[r].type \in Dir
    BY <1>4, <1>8 DEF NewWritten, Runs, Headed
  <2> QED
    BY <1>2, <1>3, <1>8, <2>1, DecideSane DEF NewWritten
<1>9. CASE HandledWritten(r)
  <2>1. st0.msg[r].type \in Dir
    BY <1>4, <1>9 DEF HandledWritten, Runs, Headed
  <2> QED
    BY <1>2, <1>3, <1>9, <2>1, ClearedSane DEF HandledWritten
<1>10. CASE ReaderFails(r)
  BY <1>1, <1>2, <1>3, <1>10, GiveUpSane DEF ReaderFails
<1>11. CASE ProcessReadFails(r)
  BY <1>2, <1>3, <1>11, Frames, ReadFailedSane DEF ProcessReadFails
<1>12. Sane(GraceClose(st0)) /\ Keeps(st0, GraceClose(st0))
  BY <1>2, GraceCloseSane DEF Keeps
<1>13. CASE RequestsFlushed(r)
  <2>1. PICK k \in Connectors : \/ Becomes(FlushResponses(Flushed(st0, "req"), r, k))
                                \/ Becomes(FlushResponses(GraceClose(st0), r, k))
    BY <1>13, Frames DEF RequestsFlushed
  <2>2. Sane(Flushed(st0, "req")) /\ Keeps(st0, Flushed(st0, "req"))
    BY <1>2, FlushedSane DEF Dir
  <2> QED
    BY <1>3, <1>12, <2>1, <2>2, FlushResponsesSane, KeepsTransitive
<1>14. CASE ResponsesFlushed(r)
  <2>1. PICK k \in Connectors : \/ Becomes(LoseReader(Flushed(st0, "res"), r, k))
                                \/ Becomes(LoseReader(GraceClose(st0), r, k))
    BY <1>14, Frames DEF ResponsesFlushed
  <2>2. Sane(Flushed(st0, "res")) /\ Keeps(st0, Flushed(st0, "res"))
    BY <1>2, FlushedSane DEF Dir
  <2> QED
    BY <1>3, <1>12, <2>1, <2>2, LoseReaderSane, KeepsTransitive
<1> QED
  BY <1>5, <1>6, <1>7, <1>8, <1>9, <1>10, <1>11, <1>13, <1>14

\* The handlers of detect_process_timeout.
LEMMA DetectorSteps ==
  ASSUME Inv, NEW t \in Detectors, Rearm(t) \/ TimedOut(t)
  PROVE  Inv' /\ StaysClosed
<1>1. t \in Coro \ {"setup"} /\ t \notin Connectors /\ "process" \in Sock
  BY FramesAreDistinct DEF Coro, Sock
<1>2. Sane(st0) /\ Keeps(ses, st0) /\ ses.pc[t] # "idle"
  <2>1. PICK ls, r : Runs(t, ls, r) /\ "idle" \notin ls
    BY DEF Rearm, TimedOut
  <2> QED
    BY <2>1, Running DEF Runs
<1>3. ASSUME NEW st, Sane(st), Keeps(st0, st), Becomes(st)
      PROVE  Inv' /\ StaysClosed
  BY <1>1, <1>2, <1>3, RunKeeps, KeepsTransitive
<1>4. CASE Rearm(t)
  BY <1>2, <1>3, <1>4, DetectSane DEF Rearm
<1>5. CASE TimedOut(t)
  BY <1>1, <1>2, <1>3, <1>5, CloseSockSane, ReturnSane, KeepsTransitive DEF TimedOut
<1> QED
  BY <1>4, <1>5

\* No handler of the session breaks the invariant or reopens the session.
LEMMA HandlerKeepsInv ==
  ASSUME Inv, Handler
  PROVE  Inv' /\ StaysClosed
BY SetupSteps, LoopSteps, ConnectSteps, ReaderSteps, DetectorSteps DEF Handler

-----------------------------------------------------------------------------
\* What a step outside the session has to show: an operation of the session
\* completes, or the session does not change.
LEMMA OutsideKeeps ==
  ASSUME Inv, Sane(ses'), Same(ses, ses'), Surroundings'
  PROVE  Inv' /\ StaysClosed
BY DEF Inv, SetupAlone, StaysClosed, Same

\* A step that leaves the session alone only has to keep the types outside.
LEMMA Idles ==
  ASSUME Inv, UNCHANGED ses, Surroundings'
  PROVE  Inv' /\ StaysClosed
BY DEF Inv, SetupAlone, StaysClosed

\* A completed operation puts its coroutine on the ready queue.
LEMMA Completes ==
  ASSUME Inv, NEW ch \in Chan, NEW r \in Result, ses.wait[ch] # <<>>,
         ses' = CompleteHead(ses, ch, r), Surroundings'
  PROVE  Inv' /\ StaysClosed
BY CompleteHeadSane, OutsideKeeps DEF Inv

\* The client, the server and the resolver.  A connect to the server that
\* completes finds the session open, for grace_close would have ended it.
LEMMA PeerSteps ==
  ASSUME Inv, PeerStep
  PROVE  Inv' /\ StaysClosed
<1>1. /\ sent \in [Dir -> Nat] /\ got \in [Dir -> Nat] /\ deliv \in [Dir -> Seq(Nat)]
      /\ {"ok", "err", "eof"} \subseteq Result /\ {"resolve", "serverWr"} \subseteq Chan
  BY DEF Inv, Surroundings, Result, Chan
<1>2. ASSUME NEW d \in Dir, PeerSends(d) PROVE Inv' /\ StaysClosed
  BY <1>1, <1>2, Idles DEF Inv, Surroundings, PeerSends
<1>3. ASSUME NEW p \in Peers, PeerCloses(p) PROVE Inv' /\ StaysClosed
  BY <1>3, Idles, BoundsAreNumbers DEF Inv, Surroundings, PeerCloses
<1>4. ASSUME NEW d \in Dir, PeerRead(d) PROVE Inv' /\ StaysClosed
  <2> DEFINE ch == Rd[From[d]]
             q == [i \in 1..(sent[d] - got[d]) |-> got[d] + i]
             s == [ses EXCEPT !.data[d] = q]
  <2>1. ch \in Chan /\ ses.wait[ch] # <<>>
    BY <1>4, LoopChannels, SockChannels DEF PeerRead
  <2>2. \/ /\ got[d] < sent[d]
           /\ got' = [got EXCEPT ![d] = sent[d]]
           /\ ses' = CompleteHead(s, ch, "ok")
        \/ UNCHANGED got /\ \E r \in Result : ses' = CompleteHead(ses, ch, r)
    BY <1>1, <1>4 DEF PeerRead
  <2>3. Surroundings'
    BY <1>1, <1>4, <2>2 DEF Inv, Surroundings, PeerRead
  <2> HIDE DEF ch
  <2>4. CASE got[d] < sent[d] /\ ses' = CompleteHead(s, ch, "ok")
    <3>1. sent[d] \in Nat /\ got[d] \in Nat /\ sent[d] - got[d] \in Nat
      BY <1>1, <2>4
    <3>2. q \in [1..(sent[d] - got[d]) -> Nat]
      BY <3>1
    <3>3. q \in Seq(Nat)
      BY <3>1, <3>2, SeqDef
    <3> HIDE DEF q
    <3>4. Sane(s) /\ Same(ses, s) /\ s.wait = ses.wait
      <4>1. Sane(s)
        BY <3>3, BufferSane DEF Inv
      <4> QED
        BY <4>1 DEF Inv, Sane, Formed, SessionState, Same
    <3> HIDE DEF s
    <3>5. Sane(CompleteHead(s, ch, "ok")) /\ Same(s, CompleteHead(s, ch, "ok"))
      BY <1>1, <2>1, <3>4, CompleteHeadSane
    <3> QED
      BY <2>3, <2>4, <3>4, <3>5, OutsideKeeps DEF Same
  <2>5. CASE \E r \in Result : ses' = CompleteHead(ses, ch, r)
    BY <2>1, <2>3, <2>5, Completes
  <2> QED
    BY <2>2, <2>4, <2>5
<1>5. ASSUME NEW d \in Dir, PeerWritten(d) PROVE Inv' /\ StaysClosed
  <2> DEFINE ch == Wr[To[d]]
             c == Head(ses.wait[ch])
  <2>1. ch \in Chan /\ ses.wait[ch] # <<>> /\ c # "setup"
    BY <1>5, LoopChannels, SockChannels DEF PeerWritten
  <2>2. c \in Waiters[ch]
    BY <2>1, HeadTailProperties DEF Inv, Sane, Formed, Waited
  <2>3. c \in Dir \cup Readers
    <3>1. CASE d = "req"
      BY <2>1, <2>2, <3>1 DEF Waiters, To, Wr
    <3>2. CASE d = "res"
      BY <2>1, <2>2, <3>2 DEF Waiters, To, Wr
    <3> QED
      BY <3>1, <3>2 DEF Dir
  <2>4. ses.data[c] \in Seq(Nat)
    BY <2>3 DEF Inv, Sane, Formed, SessionState
  <2>5. deliv[d] \o ses.data[c] \in Seq(Nat)
    BY <1>1, <2>4
  <2>6. /\ \E r \in Result : ses' = CompleteHead(ses, ch, r)
        /\ deliv' \in {deliv, [deliv EXCEPT ![d] = @ \o ses.data[c]]}
        /\ UNCHANGED <<sent, got, vetted, peer, link, listening, faults>>
    BY <1>1, <1>5 DEF PeerWritten
  <2> HIDE DEF ch, c
  <2>7. deliv' \in [Dir -> Seq(Nat)]
    BY <1>1, <2>5, <2>6
  <2>8. Surroundings'
    BY <2>6, <2>7 DEF Inv, Surroundings
  <2> QED
    BY <2>1, <2>6, <2>8, Completes
<1>6. CASE ResolverDone
  <2>1. Surroundings'
    BY <1>6 DEF Inv, Surroundings, ResolverDone
  <2> QED
    BY <1>1, <1>6, <2>1, Completes DEF ResolverDone
<1>7. CASE DialDone
  <2> DEFINE s == [ses EXCEPT !.sock["server"] = "conn"]
  <2>1. Surroundings' /\ ses.wait["serverWr"] # <<>>
    BY <1>7 DEF Inv, Surroundings, DialDone
  <2>2. CASE ses' = CompleteHead(ses, "serverWr", "err")
    BY <1>1, <2>1, <2>2, Completes
  <2>3. CASE ses' = CompleteHead(s, "serverWr", "ok")
    <3>1. ~ses.closed
      BY <2>1 DEF Inv, Sane, Shut, Dead, Sock, Wr
    <3>2. Sane(s) /\ Same(ses, s) /\ s.wait = ses.wait
      BY <3>1, OpenSane DEF Inv, Sock, SockState
    <3> HIDE DEF s
    <3>3. /\ Sane(CompleteHead(s, "serverWr", "ok"))
          /\ Same(s, CompleteHead(s, "serverWr", "ok"))
      BY <1>1, <2>1, <3>2, CompleteHeadSane
    <3> QED
      BY <2>1, <2>3, <3>2, <3>3, OutsideKeeps DEF Same
  <2> QED
    BY <1>7, <2>2, <2>3 DEF DialDone
<1> QED
  BY <1>2, <1>3, <1>4, <1>5, <1>6, <1>7 DEF PeerStep

\* The local socket.  A connect to the process that completes finds the
\* session open, for the same reason.
LEMMA LocalSteps ==
  ASSUME Inv, LocalStep
  PROVE  Inv' /\ StaysClosed
<1>1. /\ link \in LinkState
      /\ {"ok", "err"} \subseteq Result /\ {"processRd", "processWr"} \subseteq Chan
      /\ "process" \in Sock /\ "conn" \in SockState
  BY DEF Inv, Surroundings, Result, Chan, Sock, SockState
<1>2. ASSUME link' \in LinkState, UNCHANGED outside PROVE Surroundings'
  BY <1>2 DEF Inv, Surroundings, outside
<1>3. CASE ProcessAccepts
  <2> DEFINE s == [ses EXCEPT !.sock["process"] = "conn"]
  <2>1. [NoLink EXCEPT !.st = "ok"] \in LinkState
    BY NoLinkType DEF LinkState
  <2>2. Surroundings' /\ ses.wait["processWr"] # <<>>
    BY <1>1, <1>2, <1>3, <2>1 DEF ProcessAccepts, outside
  <2>3. CASE ses' = CompleteHead(ses, "processWr", "err")
    BY <1>1, <2>2, <2>3, Completes
  <2>4. CASE ses' = CompleteHead(s, "processWr", "ok")
    <3>1. ~ses.closed
      BY <2>2 DEF Inv, Sane, Shut, Dead, Sock, Wr
    <3>2. Sane(s) /\ Same(ses, s) /\ s.wait = ses.wait
      BY <1>1, <3>1, OpenSane DEF Inv
    <3> HIDE DEF s
    <3>3. /\ Sane(CompleteHead(s, "processWr", "ok"))
          /\ Same(s, CompleteHead(s, "processWr", "ok"))
      BY <1>1, <2>2, <3>2, CompleteHeadSane
    <3> QED
      BY <2>2, <2>4, <3>2, <3>3, OutsideKeeps DEF Same
  <2> QED
    BY <1>3, <2>3, <2>4 DEF ProcessAccepts
<1>4. CASE ProcessWritten
  <2> DEFINE c == Head(ses.wait["processWr"])
  <2>1. c \in Connectors \cup Dir
    BY <1>1, <1>4, HeadTailProperties DEF ProcessWritten, Inv, Sane, Formed, Waited, Waiters
  <2>2. MessageOf(c) \in Message
    <3>1. CASE c \in Dir
      <4>1. ses.data[c] \in Seq(Nat) /\ <<>> \in Seq(Nat)
        BY <3>1 DEF Inv, Sane, Formed, SessionState
      <4> QED
        BY <3>1, <4>1 DEF MessageOf, Message
    <3>2. CASE c \notin Dir
      BY <3>2 DEF MessageOf, Message
    <3> QED
      BY <3>1, <3>2
  <2>3. link.toProc \in Seq(Message)
    BY <1>1 DEF LinkState
  <2>4. Append(link.toProc, MessageOf(c)) \in Seq(Message)
    BY <2>2, <2>3
  <2>5. /\ \/ link' = link
           \/ link' = [link EXCEPT !.toProc = Append(link.toProc, MessageOf(c))]
        /\ \E r \in Result : ses' = CompleteHead(ses, "processWr", r)
        /\ ses.wait["processWr"] # <<>>
        /\ UNCHANGED outside
    BY <1>1, <1>4 DEF ProcessWritten, outside
  <2> HIDE DEF c
  <2>6. \A q \in Seq(Message) : [link EXCEPT !.toProc = q] \in LinkState
    BY <1>1 DEF LinkState
  <2>7. link' \in LinkState
    BY <1>1, <2>4, <2>5, <2>6
  <2> QED
    BY <1>1, <1>2, <2>5, <2>7, Completes
<1>5. CASE ProcessRead
  <2> DEFINE r == Head(ses.wait["processRd"])
             m == Head(link.fromProc)
             s == [ses EXCEPT !.msg[r] = m]
  <2>1. ses.wait["processRd"] # <<>> /\ UNCHANGED outside
    BY <1>5 DEF ProcessRead, outside
  <2>2. r \in Readers
    BY <1>1, <2>1, HeadTailProperties DEF Inv, Sane, Formed, Waited, Waiters
  <2>3. CASE UNCHANGED link /\ ses' = CompleteHead(ses, "processRd", "err")
    BY <1>1, <1>2, <2>1, <2>3, Completes
  <2>4. CASE /\ link.fromProc # <<>>
             /\ link' = [link EXCEPT !.fromProc = Tail(@)]
             /\ \/ ses' = Undefined(ses)
                \/ m = NewData /\ ses' = CompleteHead(ses, "processRd", "ok")
                \/ /\ m # NewData
                   /\ ses.pc[r] = "head"
                   /\ ses' = CompleteHead(s, "processRd", "ok")
    <3>1. link.fromProc \in Seq(ResponseHead \cup {NewData})
      BY <1>1 DEF LinkState
    <3>2. /\ m \in ResponseHead \cup {NewData}
          /\ Tail(link.fromProc) \in Seq(ResponseHead \cup {NewData})
      BY <2>4, <3>1, HeadTailProperties
    <3>3. \A q \in Seq(ResponseHead \cup {NewData}) :
             [link EXCEPT !.fromProc = q] \in LinkState
      BY <1>1 DEF LinkState
    <3>4. link' \in LinkState
      BY <2>4, <3>2, <3>3
    <3>5. Surroundings'
      BY <1>2, <2>1, <3>4
    <3> HIDE DEF r, m
    <3>6. CASE ses' = Undefined(ses)
      <4>1. Sane(ses') /\ ses'.closed /\ ses'.pc = [c \in Coro |-> "idle"]
        BY <3>6, UndefinedSane DEF Inv, Undefined, Sane, Formed, SessionState
      <4> QED
        BY <3>5, <4>1 DEF Inv, SetupAlone, StaysClosed, Coro
    <3>7. CASE m = NewData /\ ses' = CompleteHead(ses, "processRd", "ok")
      BY <1>1, <2>1, <3>5, <3>7, Completes
    <3>8. CASE /\ m # NewData
               /\ ses.pc[r] = "head"
               /\ ses' = CompleteHead(s, "processRd", "ok")
      <4>1. m \in ResponseHead
        BY <3>2, <3>8
      <4>2. Sane(s) /\ Same(ses, s) /\ s.wait = ses.wait
        BY <2>2, <3>8, <4>1, HeadArrivesSane DEF Inv
      <4> HIDE DEF s
      <4>3. /\ Sane(CompleteHead(s, "processRd", "ok"))
            /\ Same(s, CompleteHead(s, "processRd", "ok"))
        BY <1>1, <2>1, <4>2, CompleteHeadSane
      <4> QED
        BY <3>5, <3>8, <4>2, <4>3, OutsideKeeps DEF Same
    <3> QED
      BY <2>4, <3>6, <3>7, <3>8
  <2> QED
    BY <1>5, <2>3, <2>4 DEF ProcessRead
<1> QED
  BY <1>3, <1>4, <1>5 DEF LocalStep

\* The retry timers and the shared timer of the detector.
LEMMA TimerSteps ==
  ASSUME Inv, TimerStep
  PROVE  Inv' /\ StaysClosed
<1>1. "ok" \in Result /\ "retry" \in Chan /\ "detect" \in Chan
  BY DEF Result, Chan
<1>2. PICK ch \in Chan : ses.wait[ch] # <<>> /\ ses' = CompleteHead(ses, ch, "ok")
  BY <1>1 DEF TimerStep, RetryTimer, DetectTimer, FalseTimeout
<1>3. Surroundings'
  BY DEF TimerStep, RetryTimer, DetectTimer, FalseTimeout, Inv, Surroundings
<1> QED
  BY <1>1, <1>2, <1>3, Completes

-----------------------------------------------------------------------------
\* An answer is a head, perhaps followed by new data.
LEMMA AckedType ==
  ASSUME NEW l \in LinkState, NEW d \in Dir, NEW total \in Nat,
         NEW act \in {"pass", "block"}, NEW new \in BOOLEAN
  PROVE  Acked(l, d, total, act, new) \in LinkState
<1> DEFINE h == [type |-> d, act |-> act, new |-> new, total |-> total]
           S == ResponseHead \cup {NewData}
           q == Append(l.fromProc, h) \o (IF new THEN <<NewData>> ELSE <<>>)
<1>1. h \in S
  BY DEF ResponseHead
<1>2. l.fromProc \in Seq(S)
  BY DEF LinkState
<1>3. <<NewData>> \in Seq(S) /\ <<>> \in Seq(S)
  <2>1. NewData \in S
    OBVIOUS
  <2> HIDE DEF S
  <2> QED
    BY <2>1
<1> HIDE DEF h, S
<1>4. q \in Seq(S)
  <2>1. Append(l.fromProc, h) \in Seq(S)
    BY <1>1, <1>2
  <2> QED
    BY <1>3, <2>1
<1> HIDE DEF q
<1>5. [l EXCEPT !.acked[d] = total, !.fromProc = q] \in LinkState
  BY <1>4 DEF LinkState, S
<1> QED
  BY <1>5 DEF Acked, q, h

\* Passing bytes adds bytes to those the process has vetted.
LEMMA PassesType ==
  ASSUME Inv, NEW l \in LinkState, NEW d \in Dir, NEW total \in 0..Len(l.seen[d]),
         NEW new \in BOOLEAN, Passes(l, d, total, new)
  PROVE  link' \in LinkState /\ vetted' \in [Dir -> SUBSET Nat]
<1>1. l.seen[d] \in Seq(Nat) /\ l.acked[d] \in Nat /\ vetted \in [Dir -> SUBSET Nat]
  BY DEF LinkState, Inv, Surroundings
<1>2. total \in Nat
  BY <1>1
<1>3. link' \in LinkState
  BY <1>2, AckedType DEF Passes
<1>4. \A i \in (l.acked[d] + 1)..total : l.seen[d][i] \in Nat
  BY <1>1, <1>2
<1>5. {l.seen[d][i] : i \in (l.acked[d] + 1)..total} \subseteq Nat
  BY <1>4
<1>6. vetted' \in [Dir -> SUBSET Nat]
  BY <1>1, <1>5 DEF Passes
<1> QED
  BY <1>3, <1>6

\* The process answers, beats, dies, hangs or starts; the session stays as it is.
LEMMA ProcessSteps ==
  ASSUME Inv, ProcessStep
  PROVE  Inv' /\ StaysClosed
<1>1. link \in LinkState /\ vetted \in [Dir -> SUBSET Nat] /\ UNCHANGED ses
  BY DEF Inv, Surroundings, ProcessStep, ProcessTakes, ProcessBeats, ProcessDies,
         ProcessHangs, ProcessStarts, ProcessGoesOn
<1>2. ASSUME link' \in LinkState, vetted' \in [Dir -> SUBSET Nat],
             UNCHANGED <<sent, got, deliv, peer>>,
             listening' \in BOOLEAN, faults' \in Nat
      PROVE  Inv' /\ StaysClosed
  BY <1>1, <1>2, Idles DEF Inv, Surroundings
<1>3. listening \in BOOLEAN /\ faults \in Nat
  BY DEF Inv, Surroundings
<1>4. CASE ProcessTakes
  <2> DEFINE m == Head(link.toProc)
             d == m.kind
             q == Tail(link.toProc)
             rest == [link EXCEPT !.toProc = q]
             p == link.seen[d] \o m.bytes
             l == [rest EXCEPT !.seen[d] = @ \o m.bytes]
             all == Len(l.seen[d])
  <2>1. link.toProc \in Seq(Message) /\ link.toProc # <<>>
    BY <1>1, <1>4 DEF ProcessTakes, LinkState
  <2>2. m \in Message /\ q \in Seq(Message)
    BY <2>1, HeadTailProperties
  <2>3. rest \in LinkState
    BY <1>1, <2>2 DEF LinkState
  <2>4. CASE link' = rest /\ UNCHANGED vetted
    BY <1>1, <1>2, <1>3, <1>4, <2>3, <2>4 DEF ProcessTakes
  <2>5. CASE m.bytes # <<>>
    <3>1. d \in Dir /\ m.bytes \in Seq(Nat)
      BY <2>2, <2>5 DEF Message
    <3>2. rest.seen \in [Dir -> Seq(Nat)] /\ rest.seen[d] \in Seq(Nat)
      BY <2>3, <3>1 DEF LinkState
    <3>3. rest.seen[d] \o m.bytes \in Seq(Nat)
      BY <3>1, <3>2
    <3>4. l \in LinkState
      <4>1. \A x \in Seq(Nat) : [rest EXCEPT !.seen[d] = x] \in LinkState
        BY <2>3, <3>1 DEF LinkState
      <4> QED
        BY <3>3, <4>1
    <3>5. all \in Nat
      <4>1. l.seen[d] \in Seq(Nat)
        BY <3>1, <3>4 DEF LinkState
      <4> HIDE DEF l, d
      <4> QED
        BY <4>1
    <3>6. l.acked[d] \in Nat
      BY <3>1, <3>4 DEF LinkState
    <3>7. \/ \E new \in BOOLEAN : Passes(l, d, all, new)
          \/ \E n \in (l.acked[d] + 1)..(all - 1) :
                Passes([l EXCEPT !.split[d] = TRUE], d, n, FALSE)
          \/ link' = Acked(l, d, all, "block", FALSE) /\ UNCHANGED vetted
      BY <1>4, <2>5 DEF ProcessTakes
    <3> HIDE DEF l, all, d
    <3>8. link' \in LinkState /\ vetted' \in [Dir -> SUBSET Nat]
      <4>1. CASE \E new \in BOOLEAN : Passes(l, d, all, new)
        BY <3>1, <3>4, <3>5, <4>1, PassesType DEF all
      <4>2. CASE \E n \in (l.acked[d] + 1)..(all - 1) :
                    Passes([l EXCEPT !.split[d] = TRUE], d, n, FALSE)
        <5>1. PICK n \in (l.acked[d] + 1)..(all - 1) :
                  Passes([l EXCEPT !.split[d] = TRUE], d, n, FALSE)
          BY <4>2
        <5>2. n \in 0..all
          BY <3>5, <3>6
        <5> DEFINE l2 == [l EXCEPT !.split[d] = TRUE]
        <5>3. l2 \in LinkState /\ l2.seen[d] = l.seen[d]
          BY <3>1, <3>4 DEF LinkState
        <5> HIDE DEF l2
        <5>4. n \in 0..Len(l2.seen[d])
          BY <5>2, <5>3 DEF all
        <5> QED
          BY <3>1, <5>1, <5>3, <5>4, PassesType DEF l2
      <4>3. CASE link' = Acked(l, d, all, "block", FALSE) /\ UNCHANGED vetted
        BY <1>1, <3>1, <3>4, <3>5, <4>3, AckedType
      <4> QED
        BY <3>7, <4>1, <4>2, <4>3
    <3> QED
      BY <1>2, <1>3, <1>4, <3>8 DEF ProcessTakes
  <2> QED
    BY <1>4, <2>4, <2>5 DEF ProcessTakes
<1>5. ASSUME NEW d \in Dir, ProcessGoesOn(d) PROVE Inv' /\ StaysClosed
  <2>1. Len(link.seen[d]) \in 0..Len(link.seen[d])
    BY <1>1 DEF LinkState
  <2>2. link' \in LinkState /\ vetted' \in [Dir -> SUBSET Nat]
    BY <1>1, <1>5, <2>1, PassesType DEF ProcessGoesOn
  <2> QED
    BY <1>2, <1>3, <1>5, <2>2 DEF ProcessGoesOn
<1>6. CASE ProcessBeats
  <2>1. NoHead \in ResponseHead
    BY DEF NoHead, ResponseHead
  <2>2. link.fromProc \in Seq(ResponseHead \cup {NewData})
    BY <1>1 DEF LinkState
  <2>3. Append(link.fromProc, NoHead) \in Seq(ResponseHead \cup {NewData})
    BY <2>1, <2>2
  <2>4. \A q \in Seq(ResponseHead \cup {NewData}) :
           [link EXCEPT !.fromProc = q] \in LinkState
    BY <1>1 DEF LinkState
  <2>5. link' \in LinkState
    BY <1>6, <2>3, <2>4 DEF ProcessBeats
  <2> QED
    BY <1>1, <1>2, <1>3, <1>6, <2>5 DEF ProcessBeats
<1>7. CASE ProcessDies
  <2>1. <<>> \in Seq(Message)
    OBVIOUS
  <2>2. [link EXCEPT !.st = "dead", !.toProc = <<>>] \in LinkState
    BY <1>1, <2>1 DEF LinkState
  <2>3. link' \in LinkState
    BY <1>1, <1>7, <2>2 DEF ProcessDies
  <2>4. listening' = FALSE /\ faults' = faults + 1
    BY <1>7 DEF ProcessDies
  <2>5. faults' \in Nat
    <3>1. faults \in Nat
      BY <1>3
    <3>2. faults' = faults + 1
      BY <2>4
    <3> QED
      BY <3>1, <3>2
  <2>6. UNCHANGED <<vetted, sent, got, deliv, peer>>
    BY <1>7 DEF ProcessDies
  <2> QED
    BY <1>1, <1>2, <2>3, <2>4, <2>5, <2>6
<1>8. CASE ProcessHangs
  <2>1. [link EXCEPT !.st = "hung"] \in LinkState
    BY <1>1 DEF LinkState
  <2> QED
    BY <1>1, <1>2, <1>3, <1>8, <2>1 DEF ProcessHangs
<1>9. CASE ProcessStarts
  BY <1>1, <1>2, <1>3, <1>9 DEF ProcessStarts
<1> QED
  BY <1>4, <1>5, <1>6, <1>7, <1>8, <1>9 DEF ProcessStep

-----------------------------------------------------------------------------
\* Every step of the system keeps the invariant and leaves a closed session
\* closed.
LEMMA NextKeepsInv ==
  ASSUME Inv, [Next]_vars
  PROVE  Inv' /\ StaysClosed
<1>1. CASE Handler
  BY <1>1, HandlerKeepsInv
<1>2. CASE PeerStep
  BY <1>2, PeerSteps
<1>3. CASE LocalStep
  BY <1>3, LocalSteps
<1>4. CASE TimerStep
  BY <1>4, TimerSteps
<1>5. CASE ProcessStep
  BY <1>5, ProcessSteps
<1>6. CASE UNCHANGED vars
  BY <1>6, Idles DEF vars, Inv, Surroundings
<1> QED
  BY <1>1, <1>2, <1>3, <1>4, <1>5, <1>6 DEF Next, Terminated

\* The invariant always holds, through every interleaving of the coroutines of
\* session.hpp with the completions, timers and faults around them.
THEOREM Invariance == Spec => []Inv
<1>1. Init => Inv
  BY InitInv
<1>2. Inv /\ [Next]_vars => Inv'
  BY NextKeepsInv
<1> QED
  BY <1>1, <1>2, PTL DEF Spec

\* The state has its type.  For the packets this means that whatever is handed
\* to a write lies inside the deque it was cut from: prepare_transfer_packet
\* never reaches past its end, since a deque ends where a packet ends (session.hpp
\* 229-264).
THEOREM TypeCorrect == Spec => []TypeOK
<1>1. Inv => TypeOK
  BY DEF Inv, Surroundings, Sane, Formed, TypeOK
<1> QED
  BY <1>1, Invariance, PTL

\* process_connecting_ keeps every second connect_process out, and in an open
\* session it is up exactly while one of them connects or sleeps: it can never
\* stay up with nobody left to lower it (session.hpp 184-215).
THEOREM AtMostOneConnecting == Spec => []OneConnecting
<1>1. Inv => OneConnecting
  <2> SUFFICES ASSUME Inv PROVE OneConnecting
    OBVIOUS
  <2> DEFINE T == {k \in Connectors : ses.pc[k] \in {"connect", "retry"}}
  <2>1. /\ \A k, l \in T : k = l
        /\ ~ses.closed => (ses.connecting <=> T # {})
    BY DEF Inv, Sane, OneTrying, Trying
  <2>2. T = {} \/ \E k : T = {k}
    BY <2>1
  <2>3. Cardinality(T) \in {0, 1}
    BY <2>2, FS_EmptySet, FS_Singleton
  <2> QED
    BY <2>1, <2>3 DEF OneConnecting
<1> QED
  BY <1>1, Invariance, PTL

\* Once grace_close has run, no socket of the session gets a descriptor again:
\* no retry, pending connect or reconnect opens one behind its back (session.hpp
\* 92-104, 184-210).
THEOREM ClosedStaysShut == Spec => NothingReopens
<1>1. Inv /\ [Next]_vars => [ses.closed => \A k \in Sock : ses'.sock[k] = "closed"]_vars
  <2> SUFFICES ASSUME Inv, [Next]_vars, ses.closed, NEW k \in Sock
               PROVE  ses'.sock[k] = "closed"
    OBVIOUS
  <2>1. Sane(ses') /\ ses'.closed
    BY NextKeepsInv DEF Inv, StaysClosed
  <2> QED
    BY <2>1 DEF Sane, Shut, Dead
<1> QED
  BY <1>1, Invariance, PTL DEF Spec, NothingReopens
=============================================================================
