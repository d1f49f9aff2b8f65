----------------------------- MODULE Connection -----------------------------
(***************************************************************************)
(* net/connection.cpp: one client connection, from the peer's first byte   *)
(* to the close, with the socket and the peer around it.                   *)
(*                                                                         *)
(* The peer sends a script of requests, each RequestLen units long, in     *)
(* pieces of any size; a request is an ordinary command, a QUIT or         *)
(* something that is not RESP.  The reply to request i is the number i.    *)
(* Streams are positions in the script: what has been sent, read into in_  *)
(* and consumed from it.                                                   *)
(***************************************************************************)
EXTENDS Integers, Sequences, SequencesExt, FiniteSets, FiniteSetsExt

CONSTANTS
    Scripts,    \* what the peer may want to send: sequences of Kinds
    RequestLen, \* units of a request
    SendRoom,   \* replies the socket's send buffer takes
    CtlMayFail  \* may epoll_ctl(MOD) fail (ENOMEM)?

Kinds == {"command", "quit", "garbage"}

ASSUME ConnectionAssumption ==
    /\ Scripts \subseteq Seq(Kinds)
    /\ RequestLen \in Nat \ {0} /\ SendRoom \in Nat \ {0} /\ CtlMayFail \in BOOLEAN

VARIABLES
    script,     \* what this peer sends
    sent,       \* units the peer has sent
    peer,       \* "open", "shut" (it sends no more) or "gone" (closed or reset)
    received,   \* units read into in_
    consumed,   \* units consumed from in_
    out,        \* out_: replies not written yet
    flight,     \* replies in the socket's send buffer
    got,        \* replies the peer has read
    state,      \* state_
    interest,   \* interest_
    registered, \* the mask epoll has for the socket
    todo,       \* the handler calls the loop still owes for the current event
    ctlFailed   \* history: an epoll_ctl of this connection has failed

conn == <<received, consumed, out, state, interest, registered, ctlFailed>>
vars == <<script, sent, peer, received, consumed, out, flight, got, state,
          interest, registered, todo, ctlFailed>>

Total == RequestLen * Len(script)

TypeOK ==
    /\ script \in Scripts
    /\ 0 <= consumed /\ consumed <= received /\ received <= sent /\ sent <= Total
    /\ peer \in {"open", "shut", "gone"}
    /\ \A i \in DOMAIN out : out[i] \in DOMAIN script
    /\ Len(flight) <= SendRoom
    /\ state \in {"kOpen", "kClosing", "kClosed"}
    /\ interest \subseteq {"in", "out"} /\ registered \subseteq {"in", "out"}
    /\ todo \subseteq {"in", "out"}
    /\ ctlFailed \in BOOLEAN

Init ==
    /\ script \in Scripts
    /\ sent = 0 /\ peer = "open"
    /\ received = 0 /\ consumed = 0
    /\ out = <<>> /\ flight = <<>> /\ got = <<>>
    /\ state = "kOpen"
    /\ interest = {"in"} /\ registered = {"in"}
    /\ todo = {}
    /\ ctlFailed = FALSE

closed == state = "kClosed"

-----------------------------------------------------------------------------
(* processInput: every complete request in in_ is dispatched, in order, up *)
(* to and including the first that ends the conversation.  A protocol      *)
(* error is answered but not consumed.                                     *)

\* Mutant: one request per read.
DispatchesOne(units) ==
    LET first == consumed \div RequestLen + 1
    IN  IF state # "kOpen" \/ first * RequestLen > units
        THEN [replies |-> <<>>, consumed |-> consumed, state |-> state]
        ELSE [replies |-> <<first>>,
              consumed |-> IF script[first] = "garbage" THEN consumed
                           ELSE first * RequestLen,
              state |-> IF script[first] = "command" THEN "kOpen" ELSE "kClosing"]

processInput(units) ==
    LET first == consumed \div RequestLen + 1
        whole == units \div RequestLen
        ends == {i \in first .. whole : script[i] # "command"}
        last == IF ends = {} THEN whole ELSE Min(ends)
    IN  IF state # "kOpen"
        THEN [replies |-> <<>>, consumed |-> consumed, state |-> state]
        ELSE [replies |-> [i \in 1 .. last - first + 1 |-> first + i - 1],
              consumed |-> RequestLen * (IF last \in ends /\ script[last] = "garbage"
                                         THEN last - 1 ELSE last),
              state |-> IF ends = {} THEN "kOpen" ELSE "kClosing"]

-----------------------------------------------------------------------------
(* flushOutput, with markClosed and updateInterest, when out_ holds o and  *)
(* the state is s.                                                         *)

markClosed == state' = "kClosed" /\ UNCHANGED <<interest, registered, ctlFailed>>

\* Mutant: replies that did not fit are not waited for.
WantsInputOnly(s, o) == IF s = "kOpen" THEN {"in"} ELSE {}

wanted(s, o) == (IF o # <<>> THEN {"out"} ELSE {}) \cup (IF s = "kOpen" THEN {"in"} ELSE {})

\* Mutant: interest_ is updated, epoll is not told.
InterestUntold(s, o) ==
    /\ state' = s
    /\ interest' = wanted(s, o)
    /\ UNCHANGED <<registered, ctlFailed>>

updateInterest(s, o) ==
    \/ /\ state' = s
       /\ interest' = wanted(s, o)
       /\ registered' = IF wanted(s, o) = interest THEN registered ELSE wanted(s, o)
       /\ UNCHANGED ctlFailed
    \/ /\ CtlMayFail /\ wanted(s, o) # interest
       /\ state' = "kClosed"
       /\ ctlFailed' = TRUE
       /\ UNCHANGED <<interest, registered>>

\* Mutant: a partial write is not consumed from out_.
FlushRepeats(s, o) ==
    IF o # <<>> /\ peer = "gone"
    THEN out' = o /\ UNCHANGED flight /\ markClosed
    ELSE LET room == SendRoom - Len(flight)
             n == IF Len(o) < room THEN Len(o) ELSE room
             rest == IF n < Len(o) THEN o ELSE <<>>
         IN  /\ out' = rest
             /\ flight' = flight \o SubSeq(o, 1, n)
             /\ IF rest = <<>> /\ s = "kClosing" THEN markClosed ELSE updateInterest(s, rest)

\* Mutant: a closing connection is closed before out_ is empty.
FlushClosesEarly(s, o) ==
    IF o # <<>> /\ peer = "gone"
    THEN out' = o /\ UNCHANGED flight /\ markClosed
    ELSE LET room == SendRoom - Len(flight)
             n == IF Len(o) < room THEN Len(o) ELSE room
             rest == SubSeq(o, n + 1, Len(o))
         IN  /\ out' = rest
             /\ flight' = flight \o SubSeq(o, 1, n)
             /\ IF s = "kClosing" THEN markClosed ELSE updateInterest(s, rest)

\* write(2) takes what the send buffer has room for and then says EAGAIN; with
\* the peer gone it fails.
flushOutput(s, o) ==
    IF o # <<>> /\ peer = "gone"
    THEN out' = o /\ UNCHANGED flight /\ markClosed
    ELSE LET room == SendRoom - Len(flight)
             n == IF Len(o) < room THEN Len(o) ELSE room
             rest == SubSeq(o, n + 1, Len(o))
         IN  /\ out' = rest
             /\ flight' = flight \o SubSeq(o, 1, n)
             /\ IF rest = <<>> /\ s = "kClosing" THEN markClosed ELSE updateInterest(s, rest)

-----------------------------------------------------------------------------
(* The handlers.                                                           *)

Owes(call) == call \in todo /\ todo' = todo \ {call}

\* read(2) delivers n units.
readData(n) ==
    LET p == processInput(received + n)
    IN  /\ Owes("in") /\ ~closed
        /\ received' = received + n
        /\ consumed' = p.consumed
        /\ flushOutput(p.state, out \o p.replies)
        /\ UNCHANGED <<script, sent, peer, got>>

\* Mutant: a hard error of read(2) is taken for EAGAIN.
ReadErrorIgnored ==
    /\ Owes("in") /\ ~closed
    /\ peer = "shut" /\ received = sent
    /\ markClosed
    /\ UNCHANGED <<script, sent, peer, received, consumed, out, flight, got>>

\* read(2) returns 0 or a hard error: the peer is done, replies still in out_
\* are dropped.
readEnd ==
    /\ Owes("in") /\ ~closed
    /\ (peer = "shut" /\ received = sent) \/ peer = "gone"
    /\ markClosed
    /\ UNCHANGED <<script, sent, peer, received, consumed, out, flight, got>>

\* read(2) says EINTR, or EAGAIN because there is nothing; or the connection was
\* closed since the event was collected.
readNothing ==
    /\ Owes("in")
    /\ UNCHANGED <<script, sent, peer, conn, flight, got>>

onReadable ==
    \/ \E n \in 1 .. sent - received : readData(n)
    \/ readEnd
    \/ readNothing

\* dispatchEvent calls onWritable after onReadable.
onWritable ==
    /\ "in" \notin todo /\ Owes("out")
    /\ IF closed THEN UNCHANGED <<conn, flight>>
       ELSE flushOutput(state, out) /\ UNCHANGED <<received, consumed>>
    /\ UNCHANGED <<script, sent, peer, got>>

-----------------------------------------------------------------------------
(* The event loop and the socket.  EPOLLHUP and EPOLLERR are reported      *)
(* whatever the mask, and count as readable.                               *)

Ready ==
    (IF ("in" \in registered /\ (sent > received \/ peer # "open")) \/ peer = "gone"
     THEN {"in"} ELSE {})
    \cup (IF "out" \in registered /\ (Len(flight) < SendRoom \/ peer = "gone")
          THEN {"out"} ELSE {})

\* epoll_wait returns with an event for this socket.  A closed connection is
\* destroyed, and so deregistered, before the next epoll_wait.
epollWait ==
    /\ todo = {} /\ ~closed /\ Ready # {}
    /\ todo' = Ready
    /\ UNCHANGED <<script, sent, peer, conn, flight, got>>

peerSends ==
    /\ peer = "open" /\ sent < Total
    /\ sent' = sent + 1
    /\ UNCHANGED <<script, peer, conn, flight, got, todo>>

peerReads ==
    /\ peer # "gone" /\ flight # <<>>
    /\ got' = Append(got, Head(flight))
    /\ flight' = Tail(flight)
    /\ UNCHANGED <<script, sent, peer, conn, todo>>

peerShuts ==
    /\ peer = "open"
    /\ peer' = "shut"
    /\ UNCHANGED <<script, sent, conn, flight, got, todo>>

peerLeaves ==
    /\ peer # "gone"
    /\ peer' = "gone"
    /\ UNCHANGED <<script, sent, conn, flight, got, todo>>

Next ==
    \/ epollWait \/ onReadable \/ onWritable
    \/ peerSends \/ peerReads \/ peerShuts \/ peerLeaves

\* The loop keeps running and the peer keeps reading.  A ready, non-blocking
\* read is not interrupted for ever.
Fairness ==
    /\ WF_vars(epollWait) /\ WF_vars(onReadable) /\ WF_vars(onWritable)
    /\ SF_vars(\E n \in 1 .. sent - received : readData(n))
    /\ SF_vars(readEnd)
    /\ WF_vars(peerReads)

Spec == Init /\ [][Next]_vars /\ Fairness

-----------------------------------------------------------------------------
(* Properties.                                                             *)

Quiet == todo = {} /\ ~closed

\* Between events epoll's mask is interest_ and asks for exactly what the
\* connection waits for: a missing EPOLLOUT would strand replies, a spare one
\* would spin, a missing EPOLLIN would deafen an open connection.
WakesUpForWork ==
    Quiet => registered = interest /\ interest = wanted(state, out)

\* A level-triggered loop is not woken for bytes already in in_: processInput
\* must leave no complete request behind on an open connection.
NoRequestStranded ==
    (Quiet /\ state = "kOpen") => received - consumed < RequestLen

\* What the peer has read, what is under way and what is in out_ are together
\* the replies to the first requests, each once and in order, and nothing after
\* a QUIT or a protocol error has been executed.
RepliesInOrder ==
    LET all == got \o flight \o out
    IN  /\ TypeOK
        /\ all = [i \in 1 .. Len(all) |-> i]
        /\ \A i \in 1 .. Len(all) - 1 : script[i] = "command"
        /\ Len(all) * RequestLen <= received

\* The server closes a connection of its own accord only after the reply that
\* ends it, and everything before, has been handed to the socket.
ClosesAfterLastReply ==
    (closed /\ peer = "open" /\ ~ctlFailed) =>
        /\ out = <<>>
        /\ got \o flight # <<>> /\ script[Len(got \o flight)] # "command"

\* A request that has arrived is answered, and the peer gets the answer, unless
\* the peer goes away or an earlier request ended the conversation.
Answered(i) ==
    \/ Len(got) >= i
    \/ peer # "open" \/ ctlFailed
    \/ \E j \in 1 .. i - 1 : script[j] # "command"

EveryRequestAnswered ==
    \A i \in 1 .. 3 : (i <= Len(script) /\ sent >= i * RequestLen) ~> Answered(i)

\* A connection whose peer is gone is closed in the end, also when only its
\* output was being watched.
GoneIsNoticed == (peer = "gone") ~> closed
=============================================================================
