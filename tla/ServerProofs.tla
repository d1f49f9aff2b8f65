---------------------------- MODULE ServerProofs ----------------------------
(***************************************************************************)
(* Proofs about Server, for any number of peers and descriptors: who owns  *)
(* a descriptor, what the two registries hold, and that no event outlives  *)
(* its connection.                                                         *)
(***************************************************************************)
EXTENDS Server, NumberLemmas, SequenceTheorems

Open == {p \in Peers : conn[p] \in {"live", "retired"}}

\* A peer waits in the backlog at most once, and only before its connection.
QueueSound ==
    /\ queue \in Seq(Peers)
    /\ \A i, j \in DOMAIN queue : queue[i] = queue[j] => i = j
    /\ \A i \in DOMAIN queue : conn[queue[i]] = "none"

\* A descriptor belongs to one open connection, or is the reserve, or is free.
DescriptorsOwnedOnce ==
    /\ \A p \in Peers : fdOf[p] # None <=> p \in Open
    /\ \A p, q \in Open : fdOf[p] = fdOf[q] => p = q
    /\ reserve # None => \A p \in Open : fdOf[p] # reserve

\* The registries, without the type.
Registered ==
    /\ \A f \in Fds, p \in Peers : connections[f] = p <=> (p \in Live /\ fdOf[p] = f)
    /\ epoll = {<<fdOf[p], p>> : p \in Open}

\* The loop waits with no event in hand, and watches the listener exactly when
\* accepting is not paused.
LoopSound ==
    /\ phase = "wait" => batch = {}
    /\ listening = ~paused

\* A turn that ran out of descriptors stays paused until its tick, and goes on
\* after it only with a reserve.
PauseSound ==
    pausedFor = "fds" => paused \/ (phase \in {"wait", "stopped"} /\ reserve # None)

ServerInv ==
    /\ TypeOK
    /\ QueueSound
    /\ DescriptorsOwnedOnce
    /\ Registered
    /\ NoDanglingEvent
    /\ LoopSound
    /\ PauseSound

-----------------------------------------------------------------------------
(* Descriptors.                                                            *)

\* What the kernel may hand out is no descriptor in use.
LEMMA FreeIsUnused ==
    ASSUME TypeOK, DescriptorsOwnedOnce, NEW f \in FreeFds
    PROVE  f \in Fds /\ f # None /\ f # reserve /\ \A p \in Open : f # fdOf[p]
BY ServerAssumption DEF FreeFds, OpenFds, DescriptorsOwnedOnce, Open

\* The lowest of some descriptors is one of them.
LEMMA LowestIsOne ==
    ASSUME NEW S, S \subseteq Fds, S # {}
    PROVE  Min(S) \in S
BY MinIsLeast, ServerAssumption

\* Opening the reserve, or failing to, disturbs no connection.
LEMMA ReserveKeepsOwners ==
    ASSUME ServerInv, UNCHANGED <<conn, fdOf>>,
           reserve' \in FreeFds \cup {reserve, None}
    PROVE  DescriptorsOwnedOnce' /\ reserve' \in Fds \cup {None}
<1>1. Open' = Open
  BY DEF Open
<1>2. CASE reserve' \in FreeFds
  BY <1>1, <1>2, FreeIsUnused DEF ServerInv, DescriptorsOwnedOnce
<1>3. CASE reserve' \in {reserve, None}
  BY <1>1, <1>3 DEF ServerInv, TypeOK, DescriptorsOwnedOnce
<1> QED BY <1>2, <1>3

\* Where no connection changes, both registries stay exact and no event dangles.
LEMMA SameConnections ==
    ASSUME ServerInv, UNCHANGED <<conn, fdOf, connections, epoll>>,
           \A e \in batch' : e # Listener => conn[e[1]] \in {"live", "retired"}
    PROVE  Registered' /\ NoDanglingEvent'
BY DEF ServerInv, Registered, NoDanglingEvent, Live, Open, Listener

\* The head of the backlog leaves it.
LEMMA HeadLeaves ==
    ASSUME ServerInv, queue # <<>>, queue' = Tail(queue)
    PROVE  /\ Head(queue) \in Peers /\ conn[Head(queue)] = "none"
           /\ queue' \in Seq(Peers)
           /\ \A i, j \in DOMAIN queue' : queue'[i] = queue'[j] => i = j
           /\ \A i \in DOMAIN queue' : queue'[i] # Head(queue) /\ conn[queue'[i]] = "none"
<1>1. queue \in Seq(Peers) /\ Len(queue) \in Nat /\ DOMAIN queue = 1 .. Len(queue)
  BY DEF ServerInv, QueueSound
<1>2. /\ Len(queue) >= 1 /\ Head(queue) = queue[1]
      /\ queue' \in Seq(Peers) /\ Len(queue') = Len(queue) - 1
      /\ DOMAIN queue' = 1 .. Len(queue) - 1
      /\ \A i \in 1 .. Len(queue) - 1 : queue'[i] = queue[i + 1]
  BY <1>1, EmptySeq, HeadTailProperties, LenProperties
<1>3. \A i \in 1 .. Len(queue) - 1 : i + 1 \in 1 .. Len(queue) /\ i + 1 # 1
  BY <1>1
<1>4. 1 \in DOMAIN queue
  BY <1>1, <1>2
<1>5. \A i \in DOMAIN queue : queue[i] \in Peers /\ conn[queue[i]] = "none"
  BY DEF ServerInv, TypeOK, QueueSound
<1>6. \A i, j \in 1 .. Len(queue) - 1 : queue[i + 1] = queue[j + 1] => i = j
  BY <1>1, <1>3 DEF ServerInv, QueueSound
<1>7. \A i \in 1 .. Len(queue) - 1 : queue[i + 1] # queue[1]
  BY <1>1, <1>3, <1>4 DEF ServerInv, QueueSound
<1> QED BY <1>1, <1>2, <1>3, <1>4, <1>5, <1>6, <1>7

\* Where the backlog and the connections stay, the backlog stays sound.
LEMMA SameQueue ==
    ASSUME ServerInv, UNCHANGED <<queue, conn>>
    PROVE  QueueSound'
BY DEF ServerInv, QueueSound

-----------------------------------------------------------------------------
(* acceptPending.                                                          *)

\* The type and the loop's own state, for the steps of the accept loop.
LEMMA AcceptKeepsLoop ==
    ASSUME ServerInv, AcceptTurn, UNCHANGED <<batch, tableFull, stopping>>,
           phase' \in {"accept", "batch"},
           \/ UNCHANGED <<paused, listening, pausedFor>>
           \/ \E why \in {"fds", "error"} : pauseAccepting(why)
    PROVE  /\ LoopSound' /\ PauseSound'
           /\ phase' \in {"wait", "batch", "accept", "stopped"}
           /\ pausedFor' \in {"no", "fds", "error"}
           /\ {paused, listening, tableFull, stopping}' \subseteq BOOLEAN
<1>1. /\ {paused, listening, tableFull, stopping} \subseteq BOOLEAN
      /\ pausedFor \in {"no", "fds", "error"}
      /\ listening = ~paused
      /\ pausedFor = "fds" => paused
  BY DEF ServerInv, TypeOK, LoopSound, PauseSound, AcceptTurn
<1>2. /\ paused' \in BOOLEAN /\ listening' = ~paused'
      /\ pausedFor' \in {"no", "fds", "error"}
      /\ pausedFor' = "fds" => paused'
  <2>1. CASE UNCHANGED <<paused, listening, pausedFor>>
    BY <1>1, <2>1
  <2>2. ASSUME NEW why \in {"fds", "error"}, pauseAccepting(why)
        PROVE  /\ paused' \in BOOLEAN /\ listening' = ~paused'
               /\ pausedFor' \in {"no", "fds", "error"}
               /\ pausedFor' = "fds" => paused'
    BY <1>1, <2>2 DEF pauseAccepting
  <2> QED BY <2>1, <2>2
<1> QED BY <1>1, <1>2 DEF LoopSound, PauseSound, AcceptTurn

\* acceptOne: a new connection under a descriptor nobody has.
LEMMA acceptOneStep ==
    ASSUME ServerInv, acceptOne
    PROVE  ServerInv'
<1> DEFINE p == Head(queue)
           f == Min(FreeFds)
<1>1. /\ queue # <<>> /\ queue' = Tail(queue) /\ FreeFds # {}
      /\ conn' = [conn EXCEPT ![p] = "live"]
      /\ fdOf' = [fdOf EXCEPT ![p] = f]
      /\ connections' = [connections EXCEPT ![f] = p]
      /\ epoll' = epoll \cup {<<f, p>>}
      /\ UNCHANGED <<reserve, paused, listening, phase, batch, tableFull, stopping, pausedFor>>
      /\ AcceptTurn
  BY DEF acceptOne, CanOpen, KeepAccepting
<1>2. /\ p \in Peers /\ conn[p] = "none"
      /\ queue' \in Seq(Peers)
      /\ \A i, j \in DOMAIN queue' : queue'[i] = queue'[j] => i = j
      /\ \A i \in DOMAIN queue' : queue'[i] # p /\ conn[queue'[i]] = "none"
  BY <1>1, HeadLeaves
<1>3. f \in FreeFds
  BY <1>1, LowestIsOne DEF FreeFds
<1>4. f \in Fds /\ f # None /\ f # reserve /\ \A q \in Open : f # fdOf[q]
  BY <1>3, FreeIsUnused DEF ServerInv
<1> HIDE DEF p, f
<1>5. Open' = Open \cup {p} /\ Live' = Live \cup {p} /\ p \notin Open /\ p \notin Live
  BY <1>1, <1>2 DEF Open, Live, ServerInv, TypeOK
<1>6. \A q \in Peers : fdOf'[q] = IF q = p THEN f ELSE fdOf[q]
  BY <1>1, <1>2 DEF ServerInv, TypeOK
<1>7. QueueSound'
  <2>1. \A i \in DOMAIN queue' : queue'[i] \in Peers
    BY <1>2
  <2> QED BY <1>1, <1>2, <2>1 DEF QueueSound, ServerInv, TypeOK
<1>8. DescriptorsOwnedOnce'
  BY <1>1, <1>2, <1>4, <1>5, <1>6 DEF DescriptorsOwnedOnce, ServerInv, Open
<1>9. Registered'
  <2>1. ASSUME NEW g \in Fds, NEW q \in Peers
        PROVE  (connections'[g] = q) <=> (q \in Live' /\ fdOf'[q] = g)
    <3>1. (connections[g] = q) <=> (q \in Live /\ fdOf[q] = g)
      BY DEF ServerInv, Registered
    <3>2. connections'[g] = IF g = f THEN p ELSE connections[g]
      BY <1>1, <1>4 DEF ServerInv, TypeOK
    <3>3. q \in Live => fdOf[q] # f
      BY <1>4 DEF Live, Open
    <3> QED BY <1>2, <1>5, <1>6, <3>1, <3>2, <3>3
  <2>2. epoll' = {<<fdOf'[q], q>> : q \in Open'}
    <3>1. epoll = {<<fdOf[q], q>> : q \in Open}
      BY DEF ServerInv, Registered
    <3>2. \A q \in Open : fdOf'[q] = fdOf[q]
      BY <1>5, <1>6 DEF Open
    <3>3. fdOf'[p] = f
      BY <1>2, <1>6
    <3> QED BY <1>1, <1>5, <3>1, <3>2, <3>3
  <2> QED BY <2>1, <2>2 DEF Registered
<1>10. NoDanglingEvent'
  <2>1. ASSUME NEW e \in batch, e # Listener
        PROVE  conn'[e[1]] \in {"live", "retired"}
    <3>1. e[1] \in Peers /\ conn[e[1]] \in {"live", "retired"}
      BY <2>1 DEF ServerInv, TypeOK, NoDanglingEvent
    <3> QED BY <1>1, <1>2, <3>1 DEF ServerInv, TypeOK
  <2> QED BY <1>1, <2>1 DEF NoDanglingEvent, Listener
<1>11. TypeOK'
  <2>1. \A i \in DOMAIN queue' : queue'[i] \in Peers
    BY <1>2
  <2> QED BY <1>1, <1>2, <1>4, <2>1 DEF ServerInv, TypeOK, Listener
<1>12. LoopSound' /\ PauseSound'
  BY <1>1, AcceptKeepsLoop DEF AcceptTurn
<1> QED BY <1>7, <1>8, <1>9, <1>10, <1>11, <1>12 DEF ServerInv

\* The backlog's head is turned away, and the reserve is opened again or lost.
LEMMA TurnedAway ==
    ASSUME ServerInv, queue # <<>>, queue' = Tail(queue),
           conn' = [conn EXCEPT ![Head(queue)] = "dead"],
           reserve' \in FreeFds \cup {reserve, None},
           AcceptTurn, UNCHANGED <<fdOf, connections, epoll, batch, tableFull, stopping>>,
           phase' \in {"accept", "batch"},
           \/ UNCHANGED <<paused, listening, pausedFor>>
           \/ \E why \in {"fds", "error"} : pauseAccepting(why)
    PROVE  ServerInv'
<1> DEFINE p == Head(queue)
<1>1. /\ p \in Peers /\ conn[p] = "none"
      /\ queue' \in Seq(Peers)
      /\ \A i, j \in DOMAIN queue' : queue'[i] = queue'[j] => i = j
      /\ \A i \in DOMAIN queue' : queue'[i] # p /\ conn[queue'[i]] = "none"
  BY HeadLeaves
<1>2. conn' = [conn EXCEPT ![p] = "dead"]
  OBVIOUS
<1> HIDE DEF p
<1>3. \A i \in DOMAIN queue' : queue'[i] \in Peers
  BY <1>1
<1>4. Open' = Open /\ Live' = Live
  BY <1>1, <1>2 DEF Open, Live, ServerInv, TypeOK
<1>5. QueueSound'
  BY <1>1, <1>2, <1>3 DEF QueueSound, ServerInv, TypeOK
<1>6. DescriptorsOwnedOnce' /\ reserve' \in Fds \cup {None}
  <2>1. CASE reserve' \in FreeFds
    BY <1>4, <2>1, FreeIsUnused DEF ServerInv, DescriptorsOwnedOnce
  <2>2. CASE reserve' \in {reserve, None}
    BY <1>4, <2>2 DEF ServerInv, TypeOK, DescriptorsOwnedOnce
  <2> QED BY <2>1, <2>2
<1>7. Registered'
  BY <1>4 DEF ServerInv, Registered
<1>8. NoDanglingEvent'
  <2>1. ASSUME NEW e \in batch, e # Listener
        PROVE  conn'[e[1]] \in {"live", "retired"}
    <3>1. e[1] \in Peers /\ conn[e[1]] \in {"live", "retired"}
      BY <2>1 DEF ServerInv, TypeOK, NoDanglingEvent
    <3> QED BY <1>1, <1>2, <3>1 DEF ServerInv, TypeOK
  <2> QED BY <2>1 DEF NoDanglingEvent, Listener
<1>9. /\ LoopSound' /\ PauseSound'
      /\ phase' \in {"wait", "batch", "accept", "stopped"}
      /\ pausedFor' \in {"no", "fds", "error"}
      /\ {paused, listening, tableFull, stopping}' \subseteq BOOLEAN
  BY AcceptKeepsLoop
<1>10. TypeOK'
  BY <1>1, <1>2, <1>3, <1>6, <1>9 DEF ServerInv, TypeOK, Listener
<1> QED BY <1>5, <1>6, <1>7, <1>8, <1>9, <1>10 DEF ServerInv

\* The reserve closed and opened again is a free descriptor, the old one, or lost.
LEMMA ReserveAgain ==
    ASSUME ServerInv, reserve # None, reserveAgain
    PROVE  reserve' \in FreeFds \cup {reserve, None}
<1>1. Min(FreeFds \cup {reserve}) \in FreeFds \cup {reserve}
  BY LowestIsOne DEF FreeFds, ServerInv, TypeOK
<1> QED BY <1>1 DEF reserveAgain

\* acceptPending without a new connection: the call ends, the backlog's head may
\* be lost or shed, and the reserve may move to another free descriptor.
LEMMA acceptPendingStep ==
    ASSUME ServerInv, acceptPending
    PROVE  ServerInv'
<1>1. CASE acceptOne
  BY <1>1, acceptOneStep
<1>2. CASE acceptLoses
  BY <1>2, TurnedAway DEF acceptLoses, turnedAway, KeepAccepting, AcceptTurn
<1>3. CASE acceptSheds
  <2>1. reserve' \in FreeFds \cup {reserve, None}
    BY <1>3, ReserveAgain DEF acceptSheds
  <2> QED BY <1>3, <2>1, TurnedAway DEF acceptSheds, turnedAway, KeepAccepting, AcceptTurn
<1>4. CASE acceptCannotShed /\ queue # <<>> /\ turnedAway /\ reserve # None /\ reserveAgain
  <2>1. reserve' \in FreeFds \cup {reserve, None}
    BY <1>4, ReserveAgain
  <2> QED BY <1>4, <2>1, TurnedAway DEF acceptCannotShed, turnedAway, AcceptEnds
<1>5. CASE /\ acceptDrained \/ acceptCannotShed \/ acceptFails
           /\ UNCHANGED <<queue, conn>>
  <2>1. /\ UNCHANGED <<queue, conn, fdOf, connections, epoll, batch, tableFull, stopping>>
        /\ AcceptTurn /\ phase' = "batch"
    BY <1>5 DEF acceptDrained, acceptCannotShed, acceptFails, AcceptEnds
  <2>2. reserve' \in FreeFds \cup {reserve, None}
    BY <1>5, ReserveAgain DEF acceptDrained, acceptCannotShed, acceptFails
  <2>3. \/ UNCHANGED <<paused, listening, pausedFor>>
        \/ \E why \in {"fds", "error"} : pauseAccepting(why)
    BY <1>5 DEF acceptDrained, acceptCannotShed, acceptFails
  <2>4. QueueSound'
    BY <2>1, SameQueue
  <2>5. DescriptorsOwnedOnce' /\ reserve' \in Fds \cup {None}
    BY <2>1, <2>2, ReserveKeepsOwners
  <2>6. Registered' /\ NoDanglingEvent'
    BY <2>1, SameConnections DEF ServerInv, NoDanglingEvent
  <2>7. /\ LoopSound' /\ PauseSound'
        /\ phase' \in {"wait", "batch", "accept", "stopped"}
        /\ pausedFor' \in {"no", "fds", "error"}
        /\ {paused, listening, tableFull, stopping}' \subseteq BOOLEAN
    BY <2>1, <2>3, AcceptKeepsLoop
  <2>8. TypeOK'
    BY <2>1, <2>5, <2>7 DEF ServerInv, TypeOK, Listener
  <2> QED BY <2>4, <2>5, <2>6, <2>7, <2>8 DEF ServerInv
<1>6. acceptCannotShed => \/ UNCHANGED <<queue, conn>>
                          \/ queue # <<>> /\ turnedAway /\ reserve # None /\ reserveAgain
  BY DEF acceptCannotShed
<1>7. acceptDrained \/ acceptFails => UNCHANGED <<queue, conn>>
  BY DEF acceptDrained, acceptFails
<1> QED BY <1>1, <1>2, <1>3, <1>4, <1>5, <1>6, <1>7 DEF acceptPending

-----------------------------------------------------------------------------
(* The loop.                                                               *)

\* A step that leaves connections, backlog and reserve alone has only its batch
\* and the loop's state to answer for.
LEMMA LoopStep ==
    ASSUME ServerInv,
           UNCHANGED <<queue, conn, fdOf, connections, epoll, reserve, paused, listening>>,
           batch' \subseteq (Peers \X {"in", "out"}) \cup {Listener},
           \A e \in batch' : e # Listener => conn[e[1]] \in {"live", "retired"},
           phase' \in {"wait", "batch", "accept", "stopped"},
           phase' = "wait" => batch' = {},
           {tableFull', stopping'} \subseteq BOOLEAN,
           pausedFor' \in {"no", "fds", "error"}, PauseSound'
    PROVE  ServerInv'
<1>1. QueueSound'
  BY SameQueue
<1>2. DescriptorsOwnedOnce' /\ reserve' \in Fds \cup {None}
  BY ReserveKeepsOwners
<1>3. Registered' /\ NoDanglingEvent'
  BY SameConnections
<1>4. LoopSound'
  BY DEF ServerInv, LoopSound
<1>5. TypeOK'
  BY <1>2 DEF ServerInv, TypeOK, Listener
<1> QED BY <1>1, <1>2, <1>3, <1>4, <1>5 DEF ServerInv

\* epoll reports only sockets that are registered, so connections that exist.
LEMMA RegisteredIsOpen ==
    ASSUME ServerInv, NEW B \in SUBSET ({e[2] : e \in epoll} \X {"in", "out"})
    PROVE  /\ B \subseteq Peers \X {"in", "out"}
           /\ \A e \in B : conn[e[1]] \in {"live", "retired"}
<1>1. epoll = {<<fdOf[p], p>> : p \in Open}
  BY DEF ServerInv, Registered
<1>2. {e[2] : e \in epoll} \subseteq Open
  BY <1>1
<1>3. \A p \in Open : p \in Peers /\ conn[p] \in {"live", "retired"}
  BY DEF Open
<1>4. \A e \in B : e[1] \in Open /\ e \in Open \X {"in", "out"}
  BY <1>2
<1> QED BY <1>3, <1>4

\* A handler runs: the connection stays, or is retired and keeps its descriptor.
LEMMA dispatchConnectionStep ==
    ASSUME ServerInv, NEW p \in Peers, NEW call \in {"in", "out"},
           dispatchConnection(p, call)
    PROVE  ServerInv'
<1>1. /\ batch' \subseteq batch /\ phase = "batch"
      /\ UNCHANGED <<queue, reserve, paused, listening, phase, tableFull, stopping, pausedFor>>
  BY DEF dispatchConnection
<1>2. CASE UNCHANGED <<conn, fdOf, connections, epoll>>
  BY <1>1, <1>2, LoopStep DEF ServerInv, TypeOK, NoDanglingEvent, PauseSound
<1>3. CASE conn[p] = "live" /\ retire(p)
  <2>1. /\ conn' = [conn EXCEPT ![p] = "retired"]
        /\ connections' = [connections EXCEPT ![fdOf[p]] = None]
        /\ UNCHANGED <<fdOf, epoll>>
    BY <1>3 DEF retire
  <2>2. Open' = Open /\ Live' = Live \ {p} /\ p \in Open /\ p \in Live
    BY <1>3, <2>1 DEF Open, Live, ServerInv, TypeOK
  <2>3. fdOf[p] \in Fds /\ fdOf[p] # None
    BY <2>2 DEF ServerInv, TypeOK, DescriptorsOwnedOnce
  <2>4. \A q \in Peers : conn'[q] = IF q = p THEN "retired" ELSE conn[q]
    BY <2>1 DEF ServerInv, TypeOK
  <2>5. QueueSound'
    <3>1. \A i \in DOMAIN queue : queue[i] \in Peers /\ conn[queue[i]] = "none"
      BY DEF ServerInv, TypeOK, QueueSound
    <3>2. \A i \in DOMAIN queue : conn'[queue[i]] = "none"
      BY <1>3, <2>4, <3>1
    <3> QED BY <1>1, <3>2 DEF ServerInv, QueueSound
  <2>6. DescriptorsOwnedOnce'
    BY <1>1, <2>1, <2>2 DEF ServerInv, DescriptorsOwnedOnce
  <2>7. Registered'
    <3>1. ASSUME NEW g \in Fds, NEW q \in Peers
          PROVE  (connections'[g] = q) <=> (q \in Live' /\ fdOf'[q] = g)
      <4>1. (connections[g] = q) <=> (q \in Live /\ fdOf[q] = g)
        BY DEF ServerInv, Registered
      <4>2. connections'[g] = IF g = fdOf[p] THEN None ELSE connections[g]
        BY <2>1, <2>3 DEF ServerInv, TypeOK
      <4>3. q # None
        BY ServerAssumption
      <4>4. (q \in Live /\ fdOf[q] = fdOf[p]) => q = p
        BY <2>2 DEF ServerInv, DescriptorsOwnedOnce, Live, Open
      <4> QED BY <2>1, <2>2, <4>1, <4>2, <4>3, <4>4
    <3> QED BY <2>1, <2>2, <3>1 DEF ServerInv, Registered
  <2>8. NoDanglingEvent'
    <3>1. ASSUME NEW e \in batch', e # Listener
          PROVE  conn'[e[1]] \in {"live", "retired"}
      <4>1. e[1] \in Peers /\ conn[e[1]] \in {"live", "retired"}
        BY <1>1, <3>1 DEF ServerInv, TypeOK, NoDanglingEvent
      <4> QED BY <2>4, <4>1
    <3> QED BY <3>1 DEF NoDanglingEvent, Listener
  <2>9. LoopSound' /\ PauseSound'
    BY <1>1 DEF ServerInv, LoopSound, PauseSound
  <2>10. TypeOK'
    BY <1>1, <2>1, <2>3 DEF ServerInv, TypeOK, Listener
  <2> QED BY <2>5, <2>6, <2>7, <2>8, <2>9, <2>10 DEF ServerInv
<1> QED BY <1>2, <1>3 DEF dispatchConnection

\* destroyRetired, with no event in hand: what is closed leaves epoll and gives
\* its descriptor back, and what is live keeps everything.
LEMMA DestroyKeeps ==
    ASSUME ServerInv, destroyRetired, batch = {}, UNCHANGED <<queue, connections, batch>>,
           reserve' \in FreeFds \cup {fdOf[p] : p \in Retired} \cup {reserve, None}
    PROVE  /\ QueueSound' /\ DescriptorsOwnedOnce' /\ Registered' /\ NoDanglingEvent'
           /\ conn' \in [Peers -> {"none", "live", "retired", "dead"}]
           /\ fdOf' \in [Peers -> Fds \cup {None}]
           /\ epoll' \subseteq Fds \X Peers
           /\ reserve' \in Fds \cup {None}
<1>1. /\ epoll' = {e \in epoll : \A p \in Retired : e[1] # fdOf[p]}
      /\ conn' = [p \in Peers |-> IF p \in Retired THEN "dead" ELSE conn[p]]
      /\ fdOf' = [p \in Peers |-> IF p \in Retired THEN None ELSE fdOf[p]]
  BY DEF destroyRetired
<1>2. Open = Live \cup Retired /\ Live \cap Retired = {}
  BY DEF Open, Live, Retired, ServerInv, TypeOK
<1>3. Open' = Live /\ Live' = Live
  BY <1>1, <1>2 DEF Open, Live, Retired, ServerInv, TypeOK
<1>4. \A p \in Live : fdOf'[p] = fdOf[p] /\ p \in Open /\ p \in Peers
  BY <1>1, <1>2 DEF Live
<1>5. \A p \in Open : fdOf[p] \in Fds /\ fdOf[p] # None
  BY DEF Open, ServerInv, TypeOK, DescriptorsOwnedOnce
<1>6. \A p, q \in Open : fdOf[p] = fdOf[q] => p = q
  BY DEF ServerInv, DescriptorsOwnedOnce
<1>7. QueueSound'
  <2>1. \A i \in DOMAIN queue : queue[i] \in Peers /\ conn[queue[i]] = "none"
    BY DEF ServerInv, TypeOK, QueueSound
  <2>2. \A i \in DOMAIN queue : conn'[queue[i]] = "none"
    BY <1>1, <2>1 DEF Retired
  <2> QED BY <2>2 DEF ServerInv, QueueSound
<1>8. reserve' \in Fds \cup {None} /\ (reserve' # None => \A p \in Live : fdOf[p] # reserve')
  <2>1. CASE reserve' \in FreeFds
    BY <1>2, <2>1, FreeIsUnused DEF ServerInv
  <2>2. CASE reserve' \in {fdOf[p] : p \in Retired}
    BY <1>2, <1>5, <1>6, <2>2
  <2>3. CASE reserve' \in {reserve, None}
    BY <1>2, <2>3 DEF ServerInv, TypeOK, DescriptorsOwnedOnce
  <2> QED BY <2>1, <2>2, <2>3
<1>9. DescriptorsOwnedOnce'
  <2>1. \A p \in Peers : fdOf'[p] # None <=> p \in Live
    BY <1>1, <1>2, <1>5 DEF ServerInv, DescriptorsOwnedOnce
  <2>2. \A p, q \in Live : fdOf'[p] = fdOf'[q] => p = q
    BY <1>4, <1>6
  <2>3. reserve' # None => \A p \in Live : fdOf'[p] # reserve'
    BY <1>4, <1>8
  <2> QED BY <1>3, <2>1, <2>2, <2>3 DEF DescriptorsOwnedOnce
<1>10. Registered'
  <2>1. ASSUME NEW g \in Fds, NEW q \in Peers
        PROVE  (connections'[g] = q) <=> (q \in Live' /\ fdOf'[q] = g)
    BY <1>3, <1>4 DEF ServerInv, Registered
  <2>2. epoll = {<<fdOf[p], p>> : p \in Open}
    BY DEF ServerInv, Registered
  <2>3. epoll' = {<<fdOf[p], p>> : p \in Live}
    <3>1. ASSUME NEW e \in epoll' PROVE e \in {<<fdOf[p], p>> : p \in Live}
      <4>1. PICK p \in Open : e = <<fdOf[p], p>>
        BY <1>1, <2>2, <3>1
      <4>2. p \notin Retired
        BY <1>1, <3>1, <4>1
      <4> QED BY <1>2, <4>1, <4>2
    <3>2. ASSUME NEW p \in Live PROVE <<fdOf[p], p>> \in epoll'
      <4>1. <<fdOf[p], p>> \in epoll
        BY <1>2, <2>2
      <4>2. \A q \in Retired : fdOf[p] # fdOf[q]
        BY <1>2, <1>6
      <4> QED BY <1>1, <4>1, <4>2
    <3> QED BY <3>1, <3>2
  <2>4. epoll' = {<<fdOf'[p], p>> : p \in Open'}
    BY <1>3, <1>4, <2>3
  <2> QED BY <2>1, <2>4 DEF Registered
<1>11. NoDanglingEvent'
  BY DEF NoDanglingEvent
<1>12. /\ conn' \in [Peers -> {"none", "live", "retired", "dead"}]
       /\ fdOf' \in [Peers -> Fds \cup {None}]
       /\ epoll' \subseteq Fds \X Peers
  BY <1>1 DEF ServerInv, TypeOK
<1> QED BY <1>7, <1>8, <1>9, <1>10, <1>11, <1>12

\* The end of a turn: what was retired is destroyed, and accepting resumes when
\* a descriptor can be kept in reserve.
LEMMA onTickStep ==
    ASSUME ServerInv, onTick
    PROVE  ServerInv'
<1> DEFINE free == FreeFds \cup {fdOf[p] : p \in Retired}
<1>1. /\ batch = {} /\ destroyRetired /\ resumeAccepting /\ phase' = "wait"
      /\ phase = "batch"
      /\ UNCHANGED <<queue, connections, batch, tableFull, stopping, pausedFor>>
  BY DEF onTick
<1>2. free \subseteq Fds
  <2>1. \A p \in Retired : fdOf[p] \in Fds
    BY DEF Retired, Open, ServerInv, TypeOK, DescriptorsOwnedOnce
  <2> QED BY <2>1 DEF FreeFds
<1>3. reserveOpened \in free \cup {None}
  BY <1>2, LowestIsOne DEF reserveOpened
<1>4. /\ reserve' \in {reserve, reserveOpened}
      /\ \/ UNCHANGED <<paused, listening>>
         \/ paused' = FALSE /\ listening' = TRUE
      /\ (paused /\ ~paused') => reserve' # None
  BY <1>1 DEF resumeAccepting, rearmed
<1>5. /\ QueueSound' /\ DescriptorsOwnedOnce' /\ Registered' /\ NoDanglingEvent'
      /\ conn' \in [Peers -> {"none", "live", "retired", "dead"}]
      /\ fdOf' \in [Peers -> Fds \cup {None}]
      /\ epoll' \subseteq Fds \X Peers
      /\ reserve' \in Fds \cup {None}
  BY <1>1, <1>3, <1>4, DestroyKeeps
<1> HIDE DEF free
<1>6. /\ {paused, listening, tableFull, stopping} \subseteq BOOLEAN
      /\ listening = ~paused
      /\ pausedFor = "fds" => paused
  BY <1>1 DEF ServerInv, TypeOK, LoopSound, PauseSound
<1>7. paused' \in BOOLEAN /\ listening' = ~paused'
  BY <1>4, <1>6
<1>8. LoopSound' /\ PauseSound'
  BY <1>1, <1>4, <1>6, <1>7 DEF LoopSound, PauseSound
<1>9. TypeOK'
  BY <1>1, <1>5, <1>6, <1>7 DEF ServerInv, TypeOK, Listener
<1> QED BY <1>5, <1>8, <1>9 DEF ServerInv

\* The loop ends between two turns, when no event is in hand.
LEMMA loopEndsStep ==
    ASSUME ServerInv, loopEnds
    PROVE  ServerInv'
<1>1. /\ phase = "wait" /\ phase' = "stopped" /\ stopping' = FALSE /\ destroyRetired
      /\ UNCHANGED <<queue, connections, reserve, paused, listening, batch, tableFull,
                     pausedFor>>
  BY DEF loopEnds
<1>2. batch = {}
  BY <1>1 DEF ServerInv, LoopSound
<1>3. /\ QueueSound' /\ DescriptorsOwnedOnce' /\ Registered' /\ NoDanglingEvent'
      /\ conn' \in [Peers -> {"none", "live", "retired", "dead"}]
      /\ fdOf' \in [Peers -> Fds \cup {None}]
      /\ epoll' \subseteq Fds \X Peers
      /\ reserve' \in Fds \cup {None}
  BY <1>1, <1>2, DestroyKeeps
<1>4. LoopSound' /\ PauseSound'
  BY <1>1 DEF ServerInv, LoopSound, PauseSound
<1>5. TypeOK'
  BY <1>1, <1>3 DEF ServerInv, TypeOK, Listener
<1> QED BY <1>3, <1>4, <1>5 DEF ServerInv

\* A peer joins the backlog, behind everybody else.
LEMMA peerConnectsStep ==
    ASSUME ServerInv, NEW p \in Peers, peerConnects(p)
    PROVE  ServerInv'
<1>1. /\ conn[p] = "none" /\ \A i \in DOMAIN queue : queue[i] # p
      /\ queue' = Append(queue, p)
      /\ UNCHANGED <<conn, fdOf, connections, epoll, reserve, paused, listening, phase,
                     batch, tableFull, stopping, pausedFor>>
  BY DEF peerConnects
<1>2. /\ queue \in Seq(Peers) /\ Len(queue) \in Nat /\ DOMAIN queue = 1 .. Len(queue)
      /\ \A i \in 1 .. Len(queue) : conn[queue[i]] = "none"
      /\ \A i, j \in 1 .. Len(queue) : queue[i] = queue[j] => i = j
  BY DEF ServerInv, QueueSound
<1>3. /\ queue' \in Seq(Peers) /\ DOMAIN queue' = 1 .. Len(queue) + 1
      /\ \A i \in 1 .. Len(queue) : queue'[i] = queue[i]
      /\ queue'[Len(queue) + 1] = p
  BY <1>1, <1>2
<1>4. \A i \in 1 .. Len(queue) + 1 : i \in 1 .. Len(queue) \/ i = Len(queue) + 1
  BY <1>2
<1>5. QueueSound'
  <2>1. \A i, j \in DOMAIN queue' : queue'[i] = queue'[j] => i = j
    BY <1>1, <1>2, <1>3, <1>4
  <2>2. \A i \in DOMAIN queue' : conn'[queue'[i]] = "none"
    BY <1>1, <1>2, <1>3, <1>4
  <2> QED BY <1>3, <2>1, <2>2 DEF QueueSound
<1>6. DescriptorsOwnedOnce'
  BY <1>1, ReserveKeepsOwners
<1>7. Registered' /\ NoDanglingEvent'
  BY <1>1, SameConnections DEF ServerInv, NoDanglingEvent
<1>8. LoopSound' /\ PauseSound'
  BY <1>1 DEF ServerInv, LoopSound, PauseSound
<1>9. TypeOK'
  <2>1. \A i \in DOMAIN queue' : queue'[i] \in Peers
    BY <1>3
  <2> QED BY <1>1, <2>1 DEF ServerInv, TypeOK, Listener
<1> QED BY <1>5, <1>6, <1>7, <1>8, <1>9 DEF ServerInv

-----------------------------------------------------------------------------
(* The theorems.                                                           *)

\* A server starts with no connection, and with a reserve or without.
LEMMA InitEstablishes == Init => ServerInv
<1> SUFFICES ASSUME Init PROVE ServerInv
  OBVIOUS
<1>1. reserve \in Fds \cup {None}
  <2>1. Min(Fds) \in Fds
    BY LowestIsOne, ServerAssumption
  <2> QED BY <2>1 DEF Init
<1>2. Open = {} /\ Live = {}
  BY DEF Init, Open, Live
<1>3. \A p \in Peers : p # None
  BY ServerAssumption
<1>4. TypeOK
  <2>1. {paused, listening, tableFull, stopping} \subseteq BOOLEAN
    BY DEF Init
  <2>2. \A i \in DOMAIN queue : queue[i] \in Peers
    BY DEF Init
  <2> QED BY <1>1, <2>1, <2>2 DEF Init, TypeOK
<1>5. QueueSound
  BY DEF Init, QueueSound
<1>6. DescriptorsOwnedOnce /\ Registered
  BY <1>2, <1>3 DEF Init, DescriptorsOwnedOnce, Registered
<1>7. NoDanglingEvent /\ LoopSound /\ PauseSound
  BY DEF Init, NoDanglingEvent, LoopSound, PauseSound
<1> QED BY <1>4, <1>5, <1>6, <1>7 DEF ServerInv

\* No operation of the server, and nothing the world does, breaks the invariant.
LEMMA NextKeeps == ServerInv /\ [Next]_vars => ServerInv'
<1> SUFFICES ASSUME ServerInv, [Next]_vars PROVE ServerInv'
  OBVIOUS
<1>1. CASE acceptPending
  BY <1>1, acceptPendingStep
<1>2. CASE epollWait
  <2>1. /\ batch' \subseteq Peers \X {"in", "out"}
        /\ \A e \in batch' : conn[e[1]] \in {"live", "retired"}
    BY <1>2, RegisteredIsOpen DEF epollWait
  <2> QED BY <1>2, <2>1, LoopStep DEF epollWait, ServerInv, TypeOK, PauseSound
<1>3. CASE epollWaitListener
  <2>1. PICK B \in SUBSET ({e[2] : e \in epoll} \X {"in", "out"}) : batch' = B \cup {Listener}
    BY <1>3 DEF epollWaitListener
  <2>2. B \subseteq Peers \X {"in", "out"} /\ \A e \in B : conn[e[1]] \in {"live", "retired"}
    BY RegisteredIsOpen
  <2>3. \A e \in batch' : e # Listener => conn[e[1]] \in {"live", "retired"}
    BY <2>1, <2>2
  <2> QED BY <1>3, <2>1, <2>2, <2>3, LoopStep DEF epollWaitListener, ServerInv, TypeOK, PauseSound
<1>4. CASE dispatchListener
  BY <1>4, LoopStep DEF dispatchListener, ServerInv, TypeOK, NoDanglingEvent, PauseSound
<1>5. ASSUME NEW p \in Peers, NEW call \in {"in", "out"}, dispatchConnection(p, call)
      PROVE  ServerInv'
  BY <1>5, dispatchConnectionStep
<1>6. CASE onTick
  BY <1>6, onTickStep
<1>7. CASE loopEnds
  BY <1>7, loopEndsStep
<1>8. ASSUME NEW p \in Peers, peerConnects(p) PROVE ServerInv'
  BY <1>8, peerConnectsStep
<1>9. CASE othersOpenFiles
  BY <1>9, LoopStep DEF othersOpenFiles, ServerInv, TypeOK, NoDanglingEvent, LoopSound, PauseSound
<1>10. CASE stop
  BY <1>10, LoopStep DEF stop, ServerInv, TypeOK, NoDanglingEvent, LoopSound, PauseSound
<1>11. CASE UNCHANGED vars
  BY <1>11, LoopStep DEF vars, ServerInv, TypeOK, NoDanglingEvent, LoopSound, PauseSound
<1> QED BY <1>1, <1>2, <1>3, <1>4, <1>5, <1>6, <1>7, <1>8, <1>9, <1>10, <1>11 DEF Next

\* Every reachable state of the server satisfies its inductive invariant.
THEOREM ServerInvariant == Spec => []ServerInv
BY InitEstablishes, NextKeeps, PTL DEF Spec

\* No handler is called for a connection that has been destroyed, whatever is
\* accepted, closed and destroyed while epoll's raw pointers are in the batch.
THEOREM EventsOutliveNothing == Spec => []NoDanglingEvent
<1>1. ServerInv => NoDanglingEvent
  BY DEF ServerInv
<1> QED BY <1>1, ServerInvariant, PTL

\* connections_ and epoll hold exactly what they should, for any number of peers
\* and descriptors and however often a descriptor is closed and used again, and
\* acceptPaused_ agrees with epoll about the listener whichever epoll_ctl failed.
THEOREM RegistriesStayExact == Spec => []RegistriesExact
<1>1. ServerInv => RegistriesExact
  <2>1. Open = Live \cup Retired
    BY DEF Open, Live, Retired
  <2> QED BY <2>1 DEF ServerInv, Registered, LoopSound, RegistriesExact
<1> QED BY <1>1, ServerInvariant, PTL

\* Two connections never share a descriptor, and neither has the reserve: close
\* of one is never the close of another.
THEOREM DescriptorsHaveOneOwner == Spec => []DescriptorsOwnedOnce
<1>1. ServerInv => DescriptorsOwnedOnce
  BY DEF ServerInv
<1> QED BY <1>1, ServerInvariant, PTL

\* After a turn that found no descriptor and paused, the loop waits with the
\* listener off or with a reserve to spend, and does not spin: the pause lasts until
\* the tick (PauseSound), and the tick ends it only with a reserve in hand.
THEOREM AcceptDoesNotSpin == Spec => []NoAcceptSpin
<1>1. ServerInv => NoAcceptSpin
  BY DEF ServerInv, LoopSound, PauseSound, NoAcceptSpin
<1> QED BY <1>1, ServerInvariant, PTL
=============================================================================
