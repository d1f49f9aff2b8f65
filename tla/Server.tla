------------------------------- MODULE Server -------------------------------
(***************************************************************************)
(* net/server.cpp and net/event_loop.cpp: the life of connections and of   *)
(* the file descriptors they own.  What a connection does with its bytes   *)
(* is the module Connection; here a handler call either leaves it open or  *)
(* ends in markClosed.                                                     *)
(*                                                                         *)
(* The loop runs epoll_wait, the events it returned one handler at a time, *)
(* then onTick.  acceptPending is a loop of its own, one action per turn,  *)
(* because peers connect and leave while it runs.                          *)
(***************************************************************************)
EXTENDS Integers, Sequences, FiniteSets, FiniteSetsExt

CONSTANTS
    Peers,         \* clients that may connect, each once
    Fds,           \* the descriptors left for connections and the reserve: 1 .. n
    OthersTakeFds, \* may other processes use up the system's file table?
    MayRunOut,     \* may the kernel run out of memory for a socket or for epoll?
    None

ASSUME ServerAssumption ==
    /\ IsFiniteSet(Peers) /\ None \notin Peers
    /\ Fds \in SUBSET Nat /\ IsFiniteSet(Fds) /\ Fds # {} /\ None \notin Fds
    /\ OthersTakeFds \in BOOLEAN /\ MayRunOut \in BOOLEAN

VARIABLES
    queue,       \* the listener's backlog
    conn,        \* each peer's Connection: "none", "live", "retired" or "dead"
    fdOf,        \* the descriptor each Connection owns, or None
    connections, \* connections_: fd -> the peer whose Connection it owns, or None
    epoll,       \* the connections registered with epoll: pairs <<fd, peer>>
    reserve,     \* reserveFd_, or None
    paused,      \* acceptPaused_
    listening,   \* does epoll watch the listener for EPOLLIN?
    phase,       \* "wait", "batch", "accept" or "stopped"
    batch,       \* handler calls left: <<peer, "in" or "out">>, <<None, "in">>: listener
    tableFull,   \* the system-wide file table is full (ENFILE)
    stopping,    \* stopRequested_
    pausedFor    \* history: why acceptPending paused in this turn: "no", "fds" or "error"

vars == <<queue, conn, fdOf, connections, epoll, reserve, paused, listening,
          phase, batch, tableFull, stopping, pausedFor>>

Listener == <<None, "in">>
Live == {p \in Peers : conn[p] = "live"}
Retired == {p \in Peers : conn[p] = "retired"}

TypeOK ==
    /\ \A i \in DOMAIN queue : queue[i] \in Peers
    /\ conn \in [Peers -> {"none", "live", "retired", "dead"}]
    /\ fdOf \in [Peers -> Fds \cup {None}]
    /\ connections \in [Fds -> Peers \cup {None}]
    /\ epoll \subseteq Fds \X Peers
    /\ reserve \in Fds \cup {None}
    /\ phase \in {"wait", "batch", "accept", "stopped"}
    /\ batch \subseteq (Peers \X {"in", "out"}) \cup {Listener}
    /\ pausedFor \in {"no", "fds", "error"}
    /\ {paused, listening, tableFull, stopping} \subseteq BOOLEAN

\* The server opens its reserve when it starts, and does not look whether it could.
Init ==
    /\ queue = <<>>
    /\ conn = [p \in Peers |-> "none"]
    /\ fdOf = [p \in Peers |-> None]
    /\ connections = [f \in Fds |-> None]
    /\ epoll = {}
    /\ reserve \in {Min(Fds)} \cup (IF OthersTakeFds THEN {None} ELSE {})
    /\ paused = FALSE /\ listening = TRUE
    /\ phase = "wait" /\ batch = {}
    /\ tableFull = FALSE /\ stopping = FALSE /\ pausedFor = "no"

\* The kernel hands out the lowest free descriptor.
OpenFds == ({fdOf[p] : p \in Peers} \cup {reserve}) \ {None}
FreeFds == Fds \ OpenFds
CanOpen == FreeFds # {} /\ ~tableFull
-----------------------------------------------------------------------------
(* acceptPending, one turn of its loop at a time.                          *)

AcceptTurn == phase = "accept"
KeepAccepting == UNCHANGED phase
AcceptEnds == phase' = "batch"

\* accept4 succeeds, setsockopt and the registration with epoll too.
acceptOne ==
    /\ AcceptTurn /\ CanOpen /\ queue # <<>>
    /\ LET p == Head(queue)
           f == Min(FreeFds)
       IN  /\ conn' = [conn EXCEPT ![p] = "live"]
           /\ fdOf' = [fdOf EXCEPT ![p] = f]
           /\ connections' = [connections EXCEPT ![f] = p]
           /\ epoll' = epoll \cup {<<f, p>>}
    /\ queue' = Tail(queue)
    /\ KeepAccepting
    /\ UNCHANGED <<reserve, paused, listening, batch, tableFull, stopping, pausedFor>>

\* The backlog's first connection is taken off it and closed.
turnedAway ==
    /\ conn' = [conn EXCEPT ![Head(queue)] = "dead"]
    /\ queue' = Tail(queue)

\* The connection is lost: accept4 reports the peer's error (kRetry), or setsockopt
\* or epoll_ctl fails and the descriptor is closed.
acceptLoses ==
    /\ AcceptTurn /\ CanOpen /\ queue # <<>> /\ MayRunOut
    /\ turnedAway
    /\ KeepAccepting
    /\ UNCHANGED <<fdOf, connections, epoll, reserve, paused, listening, batch,
                   tableFull, stopping, pausedFor>>

\* EAGAIN: kDrained.
acceptDrained ==
    /\ AcceptTurn /\ CanOpen /\ queue = <<>>
    /\ AcceptEnds
    /\ UNCHANGED <<queue, conn, fdOf, connections, epoll, reserve, paused,
                   listening, batch, tableFull, stopping, pausedFor>>

\* Mutant: acceptPaused_ is set whether epoll_ctl succeeds or not.
PausesBeforeItKnows(why) ==
    /\ pausedFor' = why
    /\ \/ paused /\ UNCHANGED <<paused, listening>>
       \/ ~paused /\ paused' = TRUE /\ listening' = FALSE
       \/ ~paused /\ paused' = TRUE /\ MayRunOut /\ UNCHANGED listening

\* pauseAccepting; epoll_ctl may fail, and then the listener stays armed.
pauseAccepting(why) ==
    \/ paused /\ pausedFor' = why /\ UNCHANGED <<paused, listening>>
    \/ ~paused /\ paused' = TRUE /\ listening' = FALSE /\ pausedFor' = why
    \/ ~paused /\ MayRunOut /\ UNCHANGED <<paused, listening, pausedFor>>

\* openReserve after the old reserve has been closed; another process may have
\* been quicker.
reserveAgain ==
    reserve' \in {Min(FreeFds \cup {reserve})} \cup (IF tableFull THEN {None} ELSE {})

\* EMFILE or ENFILE, which accept4 reports before it looks at the backlog.
\* shedPending closes the reserve, accepts and closes one connection, and opens
\* the reserve again.
acceptSheds ==
    /\ AcceptTurn /\ ~CanOpen /\ reserve # None /\ queue # <<>>
    /\ turnedAway
    /\ reserveAgain
    /\ KeepAccepting
    /\ UNCHANGED <<fdOf, connections, epoll, paused, listening, batch, tableFull,
                   stopping, pausedFor>>

\* shedPending fails: there is no reserve to spend, or its accept4 finds an empty
\* backlog, no memory or the descriptor gone, or reports the peer's error and has
\* then taken the connection.
acceptCannotShed ==
    /\ AcceptTurn /\ ~CanOpen
    /\ \/ reserve = None /\ UNCHANGED <<queue, conn, reserve>>
       \/ /\ reserve # None /\ (queue = <<>> \/ tableFull \/ MayRunOut)
          /\ reserveAgain /\ UNCHANGED <<queue, conn>>
       \/ reserve # None /\ queue # <<>> /\ MayRunOut /\ reserveAgain /\ turnedAway
    /\ pauseAccepting("fds")
    /\ AcceptEnds
    /\ UNCHANGED <<fdOf, connections, epoll, batch, tableFull, stopping>>

\* Any other error, ENOMEM say, leaves the backlog alone: kPause.
acceptFails ==
    /\ AcceptTurn /\ CanOpen /\ MayRunOut
    /\ pauseAccepting("error")
    /\ AcceptEnds
    /\ UNCHANGED <<queue, conn, fdOf, connections, epoll, reserve, batch, tableFull,
                   stopping>>

acceptPending ==
    \/ acceptOne \/ acceptLoses \/ acceptDrained
    \/ acceptSheds \/ acceptCannotShed \/ acceptFails

-----------------------------------------------------------------------------
(* The loop.                                                               *)

\* epoll_wait returns some of what is ready: connections at any time, the
\* listener when it is watched and somebody waits; or nothing, on the timeout.
\* The check of stopRequested_ before it is the same step: a stop between the two
\* is seen after the timeout, as one during the wait is.
epollWait ==
    /\ phase = "wait" /\ ~stopping
    /\ batch' \in SUBSET ({e[2] : e \in epoll} \X {"in", "out"})
    /\ phase' = "batch" /\ pausedFor' = "no"
    /\ UNCHANGED <<queue, conn, fdOf, connections, epoll, reserve, paused,
                   listening, tableFull, stopping>>

epollWaitListener ==
    /\ phase = "wait" /\ ~stopping /\ listening /\ queue # <<>>
    /\ \E B \in SUBSET ({e[2] : e \in epoll} \X {"in", "out"}) : batch' = B \cup {Listener}
    /\ phase' = "batch" /\ pausedFor' = "no"
    /\ UNCHANGED <<queue, conn, fdOf, connections, epoll, reserve, paused,
                   listening, tableFull, stopping>>

dispatchListener ==
    /\ phase = "batch" /\ Listener \in batch
    /\ batch' = batch \ {Listener}
    /\ phase' = "accept"
    /\ UNCHANGED <<queue, conn, fdOf, connections, epoll, reserve, paused,
                   listening, tableFull, stopping, pausedFor>>

\* Mutant: the connection is destroyed in mid-batch.
DestroysAtOnce(p) ==
    /\ conn' = [conn EXCEPT ![p] = "dead"]
    /\ connections' = [connections EXCEPT ![fdOf[p]] = None]
    /\ epoll' = epoll \ {<<fdOf[p], p>>}
    /\ fdOf' = [fdOf EXCEPT ![p] = None]

\* Mutant: the descriptor is closed in mid-batch, and accept4 may reuse it.
ClosesFdAtOnce(p) ==
    /\ conn' = [conn EXCEPT ![p] = "retired"]
    /\ connections' = [connections EXCEPT ![fdOf[p]] = None]
    /\ fdOf' = [fdOf EXCEPT ![p] = None]
    /\ UNCHANGED epoll

\* retire: out of the map, kept alive, descriptor open, until the tick.
retire(p) ==
    /\ conn' = [conn EXCEPT ![p] = "retired"]
    /\ connections' = [connections EXCEPT ![fdOf[p]] = None]
    /\ UNCHANGED <<fdOf, epoll>>

\* onReadable, then onWritable, of one connection; a closed one returns at once.
dispatchConnection(p, call) ==
    /\ phase = "batch" /\ <<p, call>> \in batch
    /\ call = "out" => <<p, "in">> \notin batch
    /\ batch' = batch \ {<<p, call>>}
    /\ \/ UNCHANGED <<conn, fdOf, connections, epoll>>
       \/ conn[p] = "live" /\ retire(p)
    /\ UNCHANGED <<queue, reserve, paused, listening, phase, tableFull, stopping, pausedFor>>

\* ~Connection takes the descriptor out of epoll and closes it.
destroyRetired ==
    /\ epoll' = {e \in epoll : \A p \in Retired : e[1] # fdOf[p]}
    /\ conn' = [p \in Peers |-> IF p \in Retired THEN "dead" ELSE conn[p]]
    /\ fdOf' = [p \in Peers |-> IF p \in Retired THEN None ELSE fdOf[p]]

\* What openReserve gets at the tick: destroyRetired has run, so the descriptors
\* it closed are free, too.
reserveOpened ==
    LET free == FreeFds \cup {fdOf[p] : p \in Retired}
    IN  IF free = {} \/ tableFull THEN None ELSE Min(free)

\* epoll_ctl on the listener, which may fail and change nothing.
rearmed ==
    \/ paused' = FALSE /\ listening' = TRUE
    \/ MayRunOut /\ UNCHANGED <<paused, listening>>

\* Mutant: nothing to do while the reserve is there.
ResumesForReserve ==
    IF ~paused \/ reserve # None THEN UNCHANGED <<reserve, paused, listening>>
    ELSE /\ reserve' = reserveOpened
         /\ IF reserveOpened = None THEN UNCHANGED <<paused, listening>> ELSE rearmed

\* Mutant: accepting resumes without a reserve.
ResumesRegardless ==
    IF ~paused THEN UNCHANGED <<reserve, paused, listening>>
    ELSE reserve' = reserveOpened /\ rearmed

\* resumeAccepting: the new reserve is opened before the old one is closed, so
\* with every descriptor in use the old one is lost and the pause goes on.
resumeAccepting ==
    IF ~paused THEN UNCHANGED <<reserve, paused, listening>>
    ELSE /\ reserve' = reserveOpened
         /\ IF reserveOpened = None THEN UNCHANGED <<paused, listening>> ELSE rearmed

\* Mutant: a stop that arrives during the batch is forgotten.
TickForgetsStop ==
    /\ phase = "batch" /\ batch = {}
    /\ destroyRetired
    /\ resumeAccepting
    /\ phase' = "wait"
    /\ stopping' = FALSE
    /\ UNCHANGED <<queue, connections, batch, tableFull, pausedFor>>

onTick ==
    /\ phase = "batch" /\ batch = {}
    /\ destroyRetired
    /\ resumeAccepting
    /\ phase' = "wait"
    /\ UNCHANGED <<queue, connections, batch, tableFull, stopping, pausedFor>>

\* The loop sees stopRequested_, clears it, and run destroys what is retired.
loopEnds ==
    /\ phase = "wait" /\ stopping
    /\ phase' = "stopped"
    /\ stopping' = FALSE
    /\ destroyRetired
    /\ UNCHANGED <<queue, connections, reserve, paused, listening, batch, tableFull, pausedFor>>

-----------------------------------------------------------------------------
(* The world outside.                                                      *)

peerConnects(p) ==
    /\ conn[p] = "none" /\ \A i \in DOMAIN queue : queue[i] # p
    /\ queue' = Append(queue, p)
    /\ UNCHANGED <<conn, fdOf, connections, epoll, reserve, paused, listening, phase,
                   batch, tableFull, stopping, pausedFor>>

\* Other processes fill the system's file table, or leave room again.
othersOpenFiles ==
    /\ OthersTakeFds
    /\ tableFull' = ~tableFull
    /\ UNCHANGED <<queue, conn, fdOf, connections, epoll, reserve, paused, listening,
                   phase, batch, stopping, pausedFor>>

\* stop(), from a signal handler.
stop ==
    /\ phase # "stopped" /\ ~stopping
    /\ stopping' = TRUE
    /\ UNCHANGED <<queue, conn, fdOf, connections, epoll, reserve, paused, listening,
                   phase, batch, tableFull, pausedFor>>

Next ==
    \/ acceptPending
    \/ epollWait \/ epollWaitListener \/ dispatchListener
    \/ \E p \in Peers, call \in {"in", "out"} : dispatchConnection(p, call)
    \/ onTick \/ loopEnds
    \/ \E p \in Peers : peerConnects(p)
    \/ othersOpenFiles \/ stop

-----------------------------------------------------------------------------
(* epoll_wait times out, handlers return, and a listener that stays ready  *)
(* is reported; the loop waits for nobody.  The kernel is not out of       *)
(* memory at every single accept4 and at every single epoll_ctl.           *)

Fairness ==
    /\ WF_vars(acceptPending) /\ SF_vars(acceptOne) /\ SF_vars(acceptSheds)
    /\ WF_vars(epollWait \/ epollWaitListener \/ loopEnds)
    /\ SF_vars(epollWaitListener)
    /\ WF_vars(dispatchListener)
    /\ \A p \in Peers, call \in {"in", "out"} : WF_vars(dispatchConnection(p, call))
    /\ WF_vars(onTick) /\ SF_vars(onTick /\ listening')

Spec == Init /\ [][Next]_vars /\ Fairness

-----------------------------------------------------------------------------
(* Properties.                                                             *)

\* epoll hands out raw pointers: no event of the batch belongs to a Connection
\* that has been destroyed, although handlers close connections in mid-batch.
NoDanglingEvent == \A e \in batch : e # Listener => conn[e[1]] \in {"live", "retired"}

\* connections_ holds exactly the open connections, each under its descriptor,
\* and epoll exactly those not yet destroyed: retire finds what it looks for,
\* and no open connection is deaf.  acceptPaused_ says whether epoll watches the
\* listener, although epoll_ctl may fail at any pause and any resumption: set too
\* early or cleared too early it would be a listener nobody switches back on.
RegistriesExact ==
    /\ TypeOK
    /\ \A f \in Fds, p \in Peers : connections[f] = p <=> (p \in Live /\ fdOf[p] = f)
    /\ epoll = {<<fdOf[p], p>> : p \in Live \cup Retired}
    /\ listening = ~paused

\* The loop does not spin for want of a descriptor: when it waits again after a
\* turn in which accept4 and shedPending found none and accepting was paused, a
\* level-triggered epoll no longer reports the listener, or the tick of that turn
\* has opened a reserve for the next one to spend.  This is what test
\* Server.DoesNotSpinWhenNoFdCanBeFreed (tests/test_server.cpp:444) is about.
NoAcceptSpin == (phase = "wait" /\ pausedFor = "fds") => (~listening \/ reserve # None)

\* The same for the errors that are no want of descriptors: one that did not
\* consume the queued connection stays queued, "and retrying it spins. Pause is the
\* default" (net/server.cpp:33); "Paused, the loop wakes once per expireIntervalMs"
\* (tests/test_server.cpp:452).
PauseStopsRetrying == (phase = "wait" /\ pausedFor = "error") => ~listening

\* Every descriptor belongs to an open connection, the reserve was lost to another
\* process, and nobody can be turned away.
NothingToSpend == reserve = None /\ FreeFds = {}

\* A peer that waits in the backlog is accepted or turned away in the end, though
\* accepting is paused and resumed, epoll_ctl fails at times and every descriptor
\* may be in use, unless the loop is stopped, the system is out of files, or
\* nothing is left to accept it with.
BacklogServed ==
    \A p \in Peers :
        (\E i \in DOMAIN queue : queue[i] = p)
            ~> (conn[p] # "none" \/ stopping \/ phase = "stopped" \/ tableFull \/ NothingToSpend)

\* stop() ends the loop, whatever the loop was doing.
StopStops == stopping ~> phase = "stopped"
=============================================================================
