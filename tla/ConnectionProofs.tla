-------------------------- MODULE ConnectionProofs --------------------------
(***************************************************************************)
(* Proofs about Connection, for scripts of any length, requests and send   *)
(* buffers of any size, and a peer that sends, reads, shuts and leaves at  *)
(* any moment: replies are in order, none is stranded, and the connection  *)
(* closes when it should.                                                  *)
(***************************************************************************)
EXTENDS Connection, NumberLemmas, SequenceTheorems

\* How many requests have been answered, wherever the replies are by now.
Replied == Len(got) + Len(flight) + Len(out)

Types ==
    /\ script \in Seq(Kinds)
    /\ sent \in Nat /\ received \in Nat /\ consumed \in Nat
    /\ got \in Seq(Nat) /\ flight \in Seq(Nat) /\ out \in Seq(Nat)
    /\ TypeOK

\* The three places a reply can be in follow one another, reply i being i.
Numbered ==
    /\ \A i \in 1 .. Len(got) : got[i] = i
    /\ \A i \in 1 .. Len(flight) : flight[i] = Len(got) + i
    /\ \A i \in 1 .. Len(out) : out[i] = Len(got) + Len(flight) + i

\* Only whole requests that have arrived are answered, and none after the one
\* that ends the conversation.
Ordered ==
    /\ Replied * RequestLen <= received
    /\ \A i \in 1 .. Replied - 1 : script[i] = "command"

\* What each state says about the input: an open connection has consumed exactly
\* what it answered and holds less than a request; a closing one waits for its
\* last reply to leave; a closed one has nothing left, unless the peer or epoll
\* ended it.
Ended == Replied >= 1 /\ script[Replied] # "command"

StateSound ==
    /\ state = "kOpen" =>
         /\ consumed = Replied * RequestLen /\ received - consumed < RequestLen
         /\ \A i \in 1 .. Replied : script[i] = "command"
    /\ state = "kClosing" => Ended /\ out # <<>>
    /\ (state = "kClosed" /\ peer = "open" /\ ~ctlFailed) => Ended /\ out = <<>>

\* epoll has the mask the connection wants, at every moment it is not closed.
Armed ==
    /\ registered = interest
    /\ ~closed => interest = wanted(state, out)

ConnectionInv == Types /\ Numbered /\ Ordered /\ StateSound /\ Armed

-----------------------------------------------------------------------------
(* processInput.                                                           *)

\* What processInput has done when m requests have been answered, r says what is
\* left and units have arrived.
Processed(r, m, units) ==
    /\ m \in Nat /\ m >= Replied /\ m * RequestLen <= units
    /\ \A i \in 1 .. m - 1 : script[i] = "command"
    /\ r.replies \in Seq(Nat) /\ Len(r.replies) = m - Replied
    /\ \A i \in 1 .. Len(r.replies) : r.replies[i] = Replied + i
    /\ r.consumed \in Nat /\ r.consumed <= units
    /\ r.state \in {"kOpen", "kClosing"}
    /\ r.state = "kOpen" =>
         /\ r.consumed = m * RequestLen /\ units - r.consumed < RequestLen
         /\ \A i \in 1 .. m : script[i] = "command"
    /\ r.state = "kClosing" => m >= 1 /\ script[m] # "command"

\* The numbers of the replies.
LEMMA RepliedType ==
    ASSUME Types
    PROVE  /\ Replied \in Nat /\ Len(got) \in Nat /\ Len(flight) \in Nat /\ Len(out) \in Nat
           /\ RequestLen \in Nat \ {0} /\ SendRoom \in Nat \ {0} /\ Len(script) \in Nat
BY ConnectionAssumption DEF Types, Replied

\* processInput answers every complete request, in order, up to the first that
\* ends the conversation, and leaves less than a request behind otherwise.
LEMMA ProcessesAll ==
    ASSUME ConnectionInv, ~closed, NEW units \in Nat, received <= units
    PROVE  \E m \in Nat : Processed(processInput(units), m, units)
<1> DEFINE R == processInput(units)
<1>1. /\ Replied \in Nat /\ RequestLen \in Nat \ {0}
      /\ Replied * RequestLen <= received /\ received \in Nat
      /\ consumed \in Nat /\ consumed <= received
      /\ \A i \in 1 .. Replied - 1 : script[i] = "command"
  BY RepliedType DEF ConnectionInv, Types, TypeOK, Ordered
<1>2. CASE state # "kOpen"
  <2>1. state = "kClosing"
    BY <1>2 DEF closed, ConnectionInv, Types, TypeOK
  <2>2. R = [replies |-> <<>>, consumed |-> consumed, state |-> state]
    BY <1>2 DEF processInput
  <2>3. R.replies = <<>> /\ R.consumed = consumed /\ R.state = "kClosing"
    BY <2>1, <2>2
  <2>4. Replied >= 1 /\ script[Replied] # "command"
    BY <2>1 DEF ConnectionInv, StateSound, Ended
  <2> HIDE DEF R
  <2>5. Replied * RequestLen <= units
    BY <1>1, ScaledOrder
  <2>6. Processed(R, Replied, units)
    BY <1>1, <2>3, <2>4, <2>5 DEF Processed
  <2> QED BY <1>1, <2>6 DEF R
<1>3. CASE state = "kOpen"
  <2> DEFINE first == consumed \div RequestLen + 1
             whole == units \div RequestLen
             ends == {i \in first .. whole : script[i] # "command"}
             last == IF ends = {} THEN whole ELSE Min(ends)
  <2>1. /\ consumed = Replied * RequestLen
        /\ \A i \in 1 .. Replied : script[i] = "command"
    BY <1>3 DEF ConnectionInv, StateSound
  <2>2. first = Replied + 1
    BY <1>1, <2>1, EvenPart
  <2>3. whole \in Nat /\ whole * RequestLen <= units /\ units - whole * RequestLen < RequestLen
    BY <1>1, WholePart
  <2>4. R = [replies |-> [i \in 1 .. last - first + 1 |-> first + i - 1],
             consumed |-> RequestLen * (IF last \in ends /\ script[last] = "garbage"
                                        THEN last - 1 ELSE last),
             state |-> IF ends = {} THEN "kOpen" ELSE "kClosing"]
    BY <1>3 DEF processInput
  <2> HIDE DEF R, first, whole
  <2>5. Replied <= whole
    <3>1. /\ Replied * RequestLen \in Nat /\ whole * RequestLen \in Nat
          /\ (whole + 1) * RequestLen = whole * RequestLen + RequestLen
      BY <1>1, <2>3, ScaledOrder
    <3>2. Replied * RequestLen < (whole + 1) * RequestLen
      BY <1>1, <2>3, <3>1
    <3> QED BY <1>1, <2>3, <3>2, ScaledOrder
  <2>6. ends \subseteq Nat /\ \A i \in ends : i >= Replied + 1 /\ i <= whole
    BY <1>1, <2>2, <2>3
  <2>7. /\ last \in Nat /\ Replied <= last /\ last <= whole
        /\ \A i \in 1 .. last - 1 : script[i] = "command"
        /\ ends = {} => last = whole /\ \A i \in 1 .. last : script[i] = "command"
        /\ ends # {} => last \in ends /\ last >= 1 /\ script[last] # "command"
    <3>1. CASE ends = {}
      <4>1. \A i \in Replied + 1 .. whole : script[i] = "command"
        BY <2>2, <3>1
      <4>2. \A i \in 1 .. whole : i \in 1 .. Replied \/ i \in Replied + 1 .. whole
        BY <1>1, <2>3
      <4> QED BY <2>1, <2>3, <2>5, <3>1, <4>1, <4>2
    <3>2. CASE ends # {}
      <4>1. last \in ends /\ \A i \in ends : last <= i
        BY <2>6, <3>2, MinIsLeast
      <4>2. last \in Nat /\ last >= Replied + 1 /\ last <= whole /\ script[last] # "command"
        BY <2>6, <4>1
      <4> HIDE DEF last
      <4>3. ASSUME NEW i \in 1 .. last - 1 PROVE script[i] = "command"
        <5>1. CASE i \in 1 .. Replied
          BY <2>1, <5>1
        <5>2. CASE i \in Replied + 1 .. whole
          <6>1. ~(last <= i)
            BY <4>2, <4>3
          <6> QED BY <2>2, <4>1, <5>2, <6>1
        <5> QED BY <1>1, <2>3, <4>2, <5>1, <5>2
      <4> QED BY <1>1, <3>2, <4>1, <4>2, <4>3
    <3> QED BY <3>1, <3>2
  <2> HIDE DEF last, ends
  <2>8. last * RequestLen <= whole * RequestLen /\ last * RequestLen \in Nat
        /\ RequestLen * last = last * RequestLen
    BY <1>1, <2>3, <2>7, ScaledOrder
  <2>9. last * RequestLen <= units /\ whole * RequestLen \in Nat
    BY <1>1, <2>3, <2>8, ScaledOrder
  <2>10. /\ R.replies \in Seq(Nat) /\ Len(R.replies) = last - Replied
         /\ \A i \in 1 .. Len(R.replies) : R.replies[i] = Replied + i
    <3>1. R.replies = [i \in 1 .. last - Replied |-> Replied + i]
      <4>1. R.replies = [i \in 1 .. last - first + 1 |-> first + i - 1]
        BY <2>4
      <4>2. last - first + 1 = last - Replied
        BY <1>1, <2>2, <2>7
      <4>3. \A i \in 1 .. last - Replied : first + i - 1 = Replied + i
        BY <1>1, <2>2, <2>7
      <4> QED BY <4>1, <4>2, <4>3
    <3>2. last - Replied \in Nat /\ \A i \in 1 .. last - Replied : Replied + i \in Nat
      BY <1>1, <2>7
    <3> QED BY <3>1, <3>2
  <2>11. /\ R.state \in {"kOpen", "kClosing"}
         /\ R.state = "kOpen" => ends = {} /\ R.consumed = last * RequestLen
         /\ R.state = "kClosing" => ends # {}
    BY <2>4, <2>8
  <2>12. R.consumed \in Nat /\ R.consumed <= units
    <3>1. CASE last \in ends /\ script[last] = "garbage"
      <4>1. R.consumed = RequestLen * (last - 1)
        BY <2>4, <3>1
      <4>2. last - 1 \in Nat /\ last - 1 <= last
        BY <2>7, <3>1
      <4>3. (last - 1) * RequestLen <= last * RequestLen /\ (last - 1) * RequestLen \in Nat
            /\ RequestLen * (last - 1) = (last - 1) * RequestLen
        BY <1>1, <2>7, <4>2, ScaledOrder
      <4> QED BY <2>8, <2>9, <4>1, <4>3
    <3>2. CASE ~(last \in ends /\ script[last] = "garbage")
      <4>1. R.consumed = RequestLen * last
        BY <2>4, <3>2
      <4> QED BY <2>8, <2>9, <4>1
    <3> QED BY <3>1, <3>2
  <2>13. Processed(R, last, units)
    BY <1>1, <2>3, <2>7, <2>9, <2>10, <2>11, <2>12 DEF Processed
  <2> QED BY <2>7, <2>13 DEF R
<1> QED BY <1>2, <1>3

-----------------------------------------------------------------------------
(* flushOutput.                                                            *)

\* Moving the first n of the replies o to the socket keeps every number in its
\* place.
LEMMA WrittenInOrder ==
    ASSUME Types, NEW o \in Seq(Nat), NEW n \in 0 .. Len(o),
           \A i \in 1 .. Len(flight) : flight[i] = Len(got) + i,
           \A i \in 1 .. Len(o) : o[i] = Len(got) + Len(flight) + i,
           flight' = flight \o SubSeq(o, 1, n), out' = SubSeq(o, n + 1, Len(o))
    PROVE  /\ flight' \in Seq(Nat) /\ Len(flight') = Len(flight) + n
           /\ out' \in Seq(Nat) /\ Len(out') = Len(o) - n
           /\ \A i \in 1 .. Len(flight') : flight'[i] = Len(got) + i
           /\ \A i \in 1 .. Len(out') : out'[i] = Len(got) + Len(flight') + i
<1>1. Len(got) \in Nat /\ Len(flight) \in Nat /\ Len(o) \in Nat /\ flight \in Seq(Nat)
  BY DEF Types
<1>2. \A i \in 1 .. Len(o) : o[i] \in Nat
  BY ElementOfSeq
<1>3. /\ SubSeq(o, 1, n) \in Seq(Nat) /\ Len(SubSeq(o, 1, n)) = n
      /\ \A i \in 1 .. n : SubSeq(o, 1, n)[i] = o[i]
  BY <1>1, <1>2
<1>4. /\ out' \in Seq(Nat) /\ Len(out') = Len(o) - n
      /\ \A i \in 1 .. Len(out') : out'[i] = o[n + i]
  <2>1. n + 1 \in Int /\ \A i \in n + 1 .. Len(o) : o[i] \in Nat
    BY <1>1, <1>2
  <2>2. /\ out' \in Seq(Nat) /\ Len(out') = IF n + 1 <= Len(o) THEN Len(o) - (n + 1) + 1 ELSE 0
        /\ \A i \in 1 .. Len(o) - (n + 1) + 1 : out'[i] = o[n + 1 + i - 1]
    BY <1>1, <2>1, SubSeqProperties
  <2>3. Len(out') = Len(o) - n
    BY <1>1, <2>2
  <2>4. \A i \in 1 .. Len(o) - n : n + 1 + i - 1 = n + i
    BY <1>1
  <2> QED BY <1>1, <2>2, <2>3, <2>4, SMTT(30)
<1>5. /\ flight' \in Seq(Nat) /\ Len(flight') = Len(flight) + n
      /\ \A i \in 1 .. Len(flight) + n :
            flight'[i] = IF i <= Len(flight) THEN flight[i] ELSE SubSeq(o, 1, n)[i - Len(flight)]
  BY <1>1, <1>3, ConcatProperties
<1>6. ASSUME NEW i \in 1 .. Len(flight') PROVE flight'[i] = Len(got) + i
  <2>1. CASE i <= Len(flight)
    BY <1>1, <1>5, <2>1
  <2>2. CASE i > Len(flight)
    <3>1. i - Len(flight) \in 1 .. n
      BY <1>1, <1>5, <2>2
    <3>2. flight'[i] = o[i - Len(flight)]
      BY <1>1, <1>3, <1>5, <2>2, <3>1
    <3> QED BY <1>1, <3>1, <3>2
  <2> QED BY <1>1, <1>5, <2>1, <2>2
<1>7. ASSUME NEW i \in 1 .. Len(out') PROVE out'[i] = Len(got) + Len(flight') + i
  <2>1. n + i \in 1 .. Len(o)
    BY <1>1, <1>4
  <2>2. out'[i] = Len(got) + Len(flight) + (n + i)
    BY <1>4, <2>1
  <2>3. Len(got) + Len(flight) + (n + i) = Len(got) + (Len(flight) + n) + i
    BY <1>1, <2>1
  <2>4. Len(flight') = Len(flight) + n
    BY <1>5
  <2> QED BY <2>2, <2>3, <2>4
<1> QED BY <1>4, <1>5, <1>6, <1>7

\* What flushOutput leaves behind, given replies o and state s.
Flushed(s, o) ==
    /\ out' \in Seq(Nat) /\ flight' \in Seq(Nat) /\ Len(flight') <= SendRoom
    /\ Len(flight') + Len(out') = Len(flight) + Len(o)
    /\ \A i \in 1 .. Len(flight') : flight'[i] = Len(got) + i
    /\ \A i \in 1 .. Len(out') : out'[i] = Len(got) + Len(flight') + i
    /\ state' \in {s, "kClosed"}
    /\ state' = "kClosing" => out' # <<>>
    /\ (state' = "kClosed" /\ peer = "open" /\ ~ctlFailed') => s = "kClosing" /\ out' = <<>>
    /\ interest' \subseteq {"in", "out"} /\ ctlFailed' \in BOOLEAN
    /\ Armed'

\* flushOutput writes a prefix, in order, and closes, arms or fails accordingly.
LEMMA FlushesInOrder ==
    ASSUME ConnectionInv, NEW s \in {"kOpen", "kClosing"}, NEW o \in Seq(Nat),
           \A i \in 1 .. Len(o) : o[i] = Len(got) + Len(flight) + i,
           flushOutput(s, o)
    PROVE  Flushed(s, o)
<1> DEFINE room == SendRoom - Len(flight)
           n == IF Len(o) < room THEN Len(o) ELSE room
           rest == SubSeq(o, n + 1, Len(o))
<1>1. /\ Types /\ registered = interest
      /\ interest \subseteq {"in", "out"} /\ ctlFailed \in BOOLEAN
      /\ \A i \in 1 .. Len(flight) : flight[i] = Len(got) + i
      /\ flight \in Seq(Nat) /\ Len(flight) \in Nat /\ Len(flight) <= SendRoom
      /\ SendRoom \in Nat /\ Len(o) \in Nat
  BY RepliedType DEF ConnectionInv, Types, TypeOK, Numbered, Armed
<1>2. CASE o # <<>> /\ peer = "gone"
  <2>1. /\ out' = o /\ flight' = flight /\ state' = "kClosed"
        /\ UNCHANGED <<interest, registered, ctlFailed>>
    BY <1>2 DEF flushOutput, markClosed
  <2> QED BY <1>1, <1>2, <2>1 DEF Flushed, Armed, closed
<1>3. CASE ~(o # <<>> /\ peer = "gone")
  <2>1. n \in 0 .. Len(o) /\ Len(flight) + n <= SendRoom
    BY <1>1
  <2>2. /\ out' = rest /\ flight' = flight \o SubSeq(o, 1, n)
        /\ IF rest = <<>> /\ s = "kClosing" THEN markClosed ELSE updateInterest(s, rest)
    BY <1>3 DEF flushOutput
  <2> HIDE DEF n
  <2>3. /\ flight' \in Seq(Nat) /\ Len(flight') = Len(flight) + n
        /\ out' \in Seq(Nat) /\ Len(out') = Len(o) - n
        /\ \A i \in 1 .. Len(flight') : flight'[i] = Len(got) + i
        /\ \A i \in 1 .. Len(out') : out'[i] = Len(got) + Len(flight') + i
    BY <1>1, <2>1, <2>2, WrittenInOrder
  <2> HIDE DEF rest
  <2>4. Len(flight') <= SendRoom /\ Len(flight') + Len(out') = Len(flight) + Len(o)
    BY <1>1, <2>1, <2>3
  <2>5. wanted(s, out') \subseteq {"in", "out"}
    BY DEF wanted
  <2>6. CASE rest = <<>> /\ s = "kClosing"
    <3>1. state' = "kClosed" /\ UNCHANGED <<interest, registered, ctlFailed>>
      BY <2>2, <2>6 DEF markClosed
    <3> QED BY <1>1, <2>2, <2>3, <2>4, <2>6, <3>1 DEF Flushed, Armed, closed
  <2>7. CASE ~(rest = <<>> /\ s = "kClosing")
    <3>1. updateInterest(s, out')
      BY <2>2, <2>7
    <3>2. CASE /\ state' = s /\ interest' = wanted(s, out')
               /\ registered' = IF wanted(s, out') = interest THEN registered
                                ELSE wanted(s, out')
               /\ UNCHANGED ctlFailed
      <4>1. registered' = interest'
        BY <1>1, <3>2
      <4> QED BY <1>1, <2>2, <2>3, <2>4, <2>5, <2>7, <3>2, <4>1 DEF Flushed, Armed, closed
    <3>3. CASE /\ state' = "kClosed" /\ ctlFailed' = TRUE
               /\ UNCHANGED <<interest, registered>>
      BY <1>1, <2>3, <2>4, <3>3 DEF Flushed, Armed, closed
    <3> QED BY <3>1, <3>2, <3>3 DEF updateInterest
  <2> QED BY <2>6, <2>7
<1> QED BY <1>2, <1>3

-----------------------------------------------------------------------------
(* The handlers.                                                           *)

\* A handler that ends in flushOutput(s, o) keeps the invariant, when o brings
\* the replies to m and the input is accounted for.
LEMMA HandlerKeeps ==
    ASSUME ConnectionInv, NEW s \in {"kOpen", "kClosing"}, NEW o \in Seq(Nat), NEW m \in Nat,
           UNCHANGED <<script, sent, peer, got>>, todo' \subseteq {"in", "out"},
           received' \in Nat, consumed' \in Nat, consumed' <= received', received' <= sent,
           Flushed(s, o), Len(got) + Len(flight) + Len(o) = m,
           m * RequestLen <= received',
           \A i \in 1 .. m - 1 : script[i] = "command",
           s = "kOpen" => /\ consumed' = m * RequestLen /\ received' - consumed' < RequestLen
                          /\ \A i \in 1 .. m : script[i] = "command",
           s = "kClosing" => m >= 1 /\ script[m] # "command"
    PROVE  ConnectionInv'
<1>1. /\ Len(got) \in Nat /\ Len(flight) \in Nat /\ Len(o) \in Nat
      /\ RequestLen \in Nat \ {0} /\ Len(script) \in Nat
      /\ sent \in Nat /\ sent <= RequestLen * Len(script)
  BY RepliedType DEF ConnectionInv, Types, TypeOK, Total
<1>2. /\ out' \in Seq(Nat) /\ flight' \in Seq(Nat) /\ Len(flight') \in Nat /\ Len(out') \in Nat
      /\ Len(flight') + Len(out') = Len(flight) + Len(o)
  BY DEF Flushed
<1>3. Replied' = m
  <2>1. Replied' = Len(got) + Len(flight') + Len(out')
    BY DEF Replied
  <2> QED BY <1>1, <1>2, <2>1, SMTT(30)
<1>4. m <= Len(script)
  <2>1. RequestLen * Len(script) = Len(script) * RequestLen /\ m * RequestLen \in Nat
    BY <1>1, ScaledOrder
  <2>2. m * RequestLen <= Len(script) * RequestLen
    BY <1>1, <2>1
  <2> QED BY <1>1, <2>2, ScaledOrder
<1>5. Numbered'
  BY DEF Flushed, Numbered, ConnectionInv
<1>6. Ordered'
  BY <1>3 DEF Ordered
<1>7. StateSound'
  <2>1. CASE state' = "kOpen"
    BY <1>3, <2>1 DEF StateSound, Flushed
  <2>2. CASE state' = "kClosing"
    BY <1>3, <2>2 DEF StateSound, Flushed, Ended
  <2>3. CASE state' = "kClosed"
    BY <1>3, <2>3 DEF StateSound, Flushed, Ended
  <2> QED BY <2>1, <2>2, <2>3 DEF Flushed
<1>8. Armed'
  BY DEF Flushed
<1>9. Types'
  <2>1. \A i \in DOMAIN out' : out'[i] \in DOMAIN script
    <3>1. DOMAIN script = 1 .. Len(script) /\ DOMAIN out' = 1 .. Len(out')
      BY <1>2 DEF ConnectionInv, Types
    <3>2. \A i \in 1 .. Len(out') : out'[i] = Len(got) + Len(flight') + i
      BY DEF Flushed
    <3>3. \A i \in 1 .. Len(out') : Len(got) + Len(flight') + i \in 1 .. m
      <4>1. m = Len(got) + Len(flight') + Len(out')
        BY <1>3 DEF Replied
      <4>2. ASSUME NEW i \in 1 .. Len(out')
            PROVE  Len(got) + Len(flight') + i \in 1 .. Len(got) + Len(flight') + Len(out')
        BY <1>1, <1>2
      <4> QED BY <4>1, <4>2
    <3> QED BY <1>1, <1>4, <3>1, <3>2, <3>3
  <2>2. Total' = Total
    BY DEF Total
  <2>3. registered' \subseteq {"in", "out"}
    BY <1>8 DEF Armed, Flushed
  <2>4. TypeOK'
    BY <2>1, <2>2, <2>3, SMTT(30) DEF ConnectionInv, Types, TypeOK, Flushed
  <2> QED BY <1>2, <2>4 DEF ConnectionInv, Types
<1> QED BY <1>5, <1>6, <1>7, <1>8, <1>9 DEF ConnectionInv

\* onReadable with data: processInput, then flushOutput.
LEMMA readDataStep ==
    ASSUME ConnectionInv, NEW n \in 1 .. sent - received, readData(n)
    PROVE  ConnectionInv'
<1> DEFINE units == received + n
           R == processInput(units)
           o == out \o R.replies
<1>1. /\ todo' = todo \ {"in"} /\ ~closed /\ received' = units /\ consumed' = R.consumed
      /\ flushOutput(R.state, o)
      /\ UNCHANGED <<script, sent, peer, got>>
  BY DEF readData, Owes
<1>2. units \in Nat /\ received <= units /\ units <= sent
  BY DEF ConnectionInv, Types, TypeOK
<1>3. PICK m \in Nat : Processed(R, m, units)
  BY <1>1, <1>2, ProcessesAll
<1> HIDE DEF R, units
<1>4. /\ Replied \in Nat /\ Len(got) \in Nat /\ Len(flight) \in Nat /\ Len(out) \in Nat
      /\ Replied = Len(got) + Len(flight) + Len(out)
      /\ out \in Seq(Nat) /\ \A i \in 1 .. Len(out) : out[i] = Len(got) + Len(flight) + i
  BY RepliedType DEF ConnectionInv, Types, Numbered, Replied
<1>5. /\ R.replies \in Seq(Nat) /\ Len(R.replies) \in Nat /\ Len(R.replies) = m - Replied
      /\ \A i \in 1 .. Len(R.replies) : R.replies[i] = Replied + i
  BY <1>3 DEF Processed
<1>6. /\ o \in Seq(Nat) /\ Len(o) = Len(out) + Len(R.replies)
      /\ \A i \in 1 .. Len(out) + Len(R.replies) :
            o[i] = IF i <= Len(out) THEN out[i] ELSE R.replies[i - Len(out)]
  BY <1>4, <1>5, ConcatProperties
<1> HIDE DEF o
<1>7. \A i \in 1 .. Len(o) : o[i] = Len(got) + Len(flight) + i
  <2>1. SUFFICES ASSUME NEW i \in 1 .. Len(o) PROVE o[i] = Len(got) + Len(flight) + i
    OBVIOUS
  <2>2. CASE i <= Len(out)
    <3>1. i \in 1 .. Len(out) /\ i \in 1 .. Len(out) + Len(R.replies)
      BY <1>4, <1>5, <1>6, <2>2
    <3>2. o[i] = out[i]
      BY <1>6, <2>2, <3>1
    <3> QED BY <1>4, <3>1, <3>2
  <2>3. CASE i > Len(out)
    <3>1. i - Len(out) \in 1 .. Len(R.replies) /\ i \in 1 .. Len(out) + Len(R.replies)
      BY <1>4, <1>5, <1>6, <2>3
    <3>2. o[i] = Replied + (i - Len(out))
      BY <1>4, <1>5, <1>6, <2>3, <3>1, SMTT(30)
    <3>3. Replied + (i - Len(out)) = Len(got) + Len(flight) + i
      BY <1>4, <3>1
    <3> QED BY <3>2, <3>3
  <2> QED BY <1>4, <1>6, <2>2, <2>3
<1>8. R.state \in {"kOpen", "kClosing"}
  BY <1>3 DEF Processed
<1>9. Flushed(R.state, o)
  BY <1>1, <1>6, <1>7, <1>8, FlushesInOrder
<1>10. Len(got) + Len(flight) + Len(o) = m
  BY <1>4, <1>5, <1>6
<1>11. todo' \subseteq {"in", "out"}
  BY <1>1 DEF ConnectionInv, Types, TypeOK
<1> QED BY <1>1, <1>2, <1>3, <1>6, <1>8, <1>9, <1>10, <1>11, HandlerKeeps DEF Processed

\* onWritable: a closed connection returns at once, another flushes.
LEMMA onWritableStep ==
    ASSUME ConnectionInv, onWritable, ~closed
    PROVE  ConnectionInv'
<1>1. /\ todo' = todo \ {"out"} /\ flushOutput(state, out)
      /\ UNCHANGED <<script, sent, peer, got, received, consumed>>
  BY DEF onWritable, Owes
<1>2. /\ state \in {"kOpen", "kClosing"} /\ out \in Seq(Nat)
      /\ \A i \in 1 .. Len(out) : out[i] = Len(got) + Len(flight) + i
  BY DEF ConnectionInv, Types, TypeOK, Numbered, closed
<1>3. Flushed(state, out)
  BY <1>1, <1>2, FlushesInOrder
<1>4. todo' \subseteq {"in", "out"}
  BY <1>1 DEF ConnectionInv, Types, TypeOK
<1>5. /\ received \in Nat /\ consumed \in Nat /\ consumed <= received /\ received <= sent
  BY DEF ConnectionInv, Types, TypeOK
<1>6. Replied \in Nat /\ Len(got) + Len(flight) + Len(out) = Replied
  BY RepliedType DEF ConnectionInv, Replied
<1>7. /\ Replied * RequestLen <= received
      /\ \A i \in 1 .. Replied - 1 : script[i] = "command"
      /\ state = "kOpen" => /\ consumed = Replied * RequestLen
                            /\ received - consumed < RequestLen
                            /\ \A i \in 1 .. Replied : script[i] = "command"
      /\ state = "kClosing" => Replied >= 1 /\ script[Replied] # "command"
  BY DEF ConnectionInv, Ordered, StateSound, Ended
<1> QED BY <1>1, <1>2, <1>3, <1>4, <1>5, <1>6, <1>7, HandlerKeeps

\* A step that leaves buffers and masks alone: more may have been sent, and the
\* peer's end may close the connection.
LEMMA QuietStep ==
    ASSUME ConnectionInv,
           UNCHANGED <<script, received, consumed, out, flight, got, interest, registered,
                       ctlFailed>>,
           sent' \in Nat, sent <= sent', sent' <= Total,
           peer' \in {"open", "shut", "gone"}, peer' = "open" => peer = "open",
           state' = state \/ (state' = "kClosed" /\ peer' # "open"),
           todo' \subseteq {"in", "out"}
    PROVE  ConnectionInv'
<1>1. Replied' = Replied
  BY DEF Replied
<1>2. Numbered'
  BY DEF ConnectionInv, Numbered
<1>3. Ordered'
  BY <1>1 DEF ConnectionInv, Ordered
<1>4. StateSound'
  BY <1>1 DEF ConnectionInv, StateSound, Ended
<1>5. Armed'
  BY DEF ConnectionInv, Armed, closed
<1>6. Types'
  <2>1. Total' = Total
    BY DEF Total
  <2>2. received <= sent'
    BY DEF ConnectionInv, Types, TypeOK
  <2> QED BY <2>1, <2>2 DEF ConnectionInv, Types, TypeOK
<1> QED BY <1>2, <1>3, <1>4, <1>5, <1>6 DEF ConnectionInv

\* The peer takes a reply off the socket: it moves from one place to the next.
LEMMA peerReadsStep ==
    ASSUME ConnectionInv, peerReads
    PROVE  ConnectionInv'
<1>1. /\ flight # <<>> /\ got' = Append(got, Head(flight)) /\ flight' = Tail(flight)
      /\ UNCHANGED <<script, sent, peer, received, consumed, out, state, interest,
                     registered, ctlFailed, todo>>
  BY DEF peerReads, conn
<1>2. /\ got \in Seq(Nat) /\ flight \in Seq(Nat) /\ out \in Seq(Nat)
      /\ Len(got) \in Nat /\ Len(flight) \in Nat /\ Len(out) \in Nat /\ SendRoom \in Nat
      /\ Len(flight) <= SendRoom
      /\ \A i \in 1 .. Len(got) : got[i] = i
      /\ \A i \in 1 .. Len(flight) : flight[i] = Len(got) + i
      /\ \A i \in 1 .. Len(out) : out[i] = Len(got) + Len(flight) + i
  BY RepliedType DEF ConnectionInv, Types, TypeOK, Numbered
<1>3. /\ Len(flight) >= 1 /\ Head(flight) = flight[1]
      /\ flight' \in Seq(Nat) /\ Len(flight') = Len(flight) - 1
      /\ \A i \in 1 .. Len(flight) - 1 : flight'[i] = flight[i + 1]
  BY <1>1, <1>2, EmptySeq, HeadTailProperties
<1>4. Head(flight) = Len(got) + 1 /\ Head(flight) \in Nat
  BY <1>2, <1>3
<1>5. /\ got' \in Seq(Nat) /\ Len(got') = Len(got) + 1
      /\ \A i \in 1 .. Len(got) : got'[i] = got[i]
      /\ got'[Len(got) + 1] = Len(got) + 1
  BY <1>1, <1>2, <1>4, AppendProperties
<1>6. Replied' = Replied
  <2>1. Replied' = Len(got') + Len(flight') + Len(out)
    BY <1>1 DEF Replied
  <2> QED BY <1>2, <1>3, <1>5, <2>1 DEF Replied
<1>7. Numbered'
  <2>1. \A i \in 1 .. Len(got') : got'[i] = i
    <3>1. \A i \in 1 .. Len(got) + 1 : i \in 1 .. Len(got) \/ i = Len(got) + 1
      BY <1>2
    <3> QED BY <1>2, <1>5, <3>1
  <2>2. ASSUME NEW i \in 1 .. Len(flight') PROVE flight'[i] = Len(got') + i
    <3>1. i + 1 \in 1 .. Len(flight) /\ i \in 1 .. Len(flight) - 1
      BY <1>2, <1>3
    <3>2. flight'[i] = Len(got) + (i + 1)
      BY <1>2, <1>3, <3>1
    <3>3. Len(got) + (i + 1) = Len(got) + 1 + i
      BY <1>2, <3>1
    <3> QED BY <1>5, <3>2, <3>3
  <2>3. Len(got') + Len(flight') = Len(got) + Len(flight)
    BY <1>2, <1>3, <1>5
  <2> QED BY <1>1, <1>2, <2>1, <2>2, <2>3 DEF Numbered
<1>8. Ordered'
  BY <1>1, <1>6 DEF ConnectionInv, Ordered
<1>9. StateSound'
  BY <1>1, <1>6 DEF ConnectionInv, StateSound, Ended
<1>10. Armed'
  BY <1>1 DEF ConnectionInv, Armed, closed
<1>11. Types'
  <2>1. Total' = Total
    BY <1>1 DEF Total
  <2>2. Len(flight') <= SendRoom
    BY <1>2, <1>3
  <2> QED BY <1>1, <1>3, <1>5, <2>1, <2>2 DEF ConnectionInv, Types, TypeOK
<1> QED BY <1>7, <1>8, <1>9, <1>10, <1>11 DEF ConnectionInv

-----------------------------------------------------------------------------
(* The theorems.                                                           *)

\* A connection starts with nothing read, nothing to say and EPOLLIN armed.
LEMMA InitEstablishes == Init => ConnectionInv
<1> SUFFICES ASSUME Init PROVE ConnectionInv
  OBVIOUS
<1>1. script \in Seq(Kinds) /\ RequestLen \in Nat \ {0} /\ SendRoom \in Nat \ {0}
  BY ConnectionAssumption DEF Init
<1>2. Len(script) \in Nat
  BY <1>1
<1>3. Total \in Nat
  <2>1. RequestLen * Len(script) \in Nat
    BY <1>1, <1>2, ScaledOrder
  <2> QED BY <2>1 DEF Total
<1>4. Replied = 0 /\ Len(got) = 0 /\ Len(flight) = 0 /\ Len(out) = 0
  BY DEF Init, Replied
<1>5. Numbered
  BY <1>4 DEF Numbered
<1>6. 0 * RequestLen = 0
  BY <1>1
<1>7. Ordered
  BY <1>4, <1>6 DEF Init, Ordered
<1>8. StateSound
  BY <1>1, <1>4, <1>6 DEF Init, StateSound
<1>9. Armed
  BY DEF Init, Armed, wanted
<1>10. Types
  <2>1. \A i \in DOMAIN out : out[i] \in DOMAIN script
    BY DEF Init
  <2>2. /\ script \in Scripts /\ sent = 0 /\ received = 0 /\ consumed = 0 /\ peer = "open"
        /\ state = "kOpen" /\ interest \subseteq {"in", "out"}
        /\ registered \subseteq {"in", "out"} /\ todo \subseteq {"in", "out"}
    BY DEF Init
  <2>3. ctlFailed \in BOOLEAN
    BY DEF Init
  <2>4. got \in Seq(Nat) /\ flight \in Seq(Nat) /\ out \in Seq(Nat)
    BY DEF Init
  <2>5. TypeOK
    BY <1>1, <1>3, <1>4, <2>1, <2>2, <2>3 DEF TypeOK
  <2> QED BY <1>1, <2>2, <2>4, <2>5 DEF Types
<1> QED BY <1>5, <1>7, <1>8, <1>9, <1>10 DEF ConnectionInv

\* No handler, and nothing the peer or epoll does, breaks the invariant.
LEMMA NextKeeps == ConnectionInv /\ [Next]_vars => ConnectionInv'
<1> SUFFICES ASSUME ConnectionInv, [Next]_vars PROVE ConnectionInv'
  OBVIOUS
<1>1. /\ sent \in Nat /\ sent <= sent /\ sent <= Total /\ todo \subseteq {"in", "out"}
      /\ peer \in {"open", "shut", "gone"}
  BY DEF ConnectionInv, Types, TypeOK
<1>2. CASE epollWait
  <2>1. Ready \subseteq {"in", "out"}
    BY DEF Ready
  <2> QED BY <1>1, <1>2, <2>1, QuietStep DEF epollWait, conn
<1>3. ASSUME NEW n \in 1 .. sent - received, readData(n) PROVE ConnectionInv'
  BY <1>3, readDataStep
<1>4. CASE readEnd
  BY <1>1, <1>4, QuietStep DEF readEnd, markClosed, Owes
<1>5. CASE readNothing
  BY <1>1, <1>5, QuietStep DEF readNothing, conn, Owes
<1>6. CASE onWritable /\ closed
  BY <1>1, <1>6, QuietStep DEF onWritable, conn, Owes
<1>7. CASE onWritable /\ ~closed
  BY <1>7, onWritableStep
<1>8. CASE peerSends
  <2>1. sent' \in Nat /\ sent <= sent' /\ sent' <= Total
    <3>1. Total \in Nat
      <4>1. RequestLen \in Nat \ {0} /\ Len(script) \in Nat
        BY RepliedType DEF ConnectionInv
      <4> QED BY <4>1, ScaledOrder DEF Total
    <3> QED BY <1>1, <1>8, <3>1 DEF peerSends
  <2> QED BY <1>1, <1>8, <2>1, QuietStep DEF peerSends, conn
<1>9. CASE peerReads
  BY <1>9, peerReadsStep
<1>10. CASE peerShuts
  BY <1>1, <1>10, QuietStep DEF peerShuts, conn
<1>11. CASE peerLeaves
  BY <1>1, <1>11, QuietStep DEF peerLeaves, conn
<1>12. CASE UNCHANGED vars
  BY <1>1, <1>12, QuietStep DEF vars
<1> QED BY <1>2, <1>3, <1>4, <1>5, <1>6, <1>7, <1>8, <1>9, <1>10, <1>11, <1>12
    DEF Next, onReadable

\* Every reachable state of a connection satisfies the inductive invariant.
THEOREM ConnectionInvariant == Spec => []ConnectionInv
BY InitEstablishes, NextKeeps, PTL DEF Spec

\* Between events epoll watches for exactly what the connection waits for.
THEOREM ArmedForWork == Spec => []WakesUpForWork
<1>1. ConnectionInv => WakesUpForWork
  BY DEF ConnectionInv, Armed, WakesUpForWork, Quiet
<1> QED BY <1>1, ConnectionInvariant, PTL

\* However the bytes arrive, no complete request is left unanswered in in_ on an
\* open connection.
THEOREM NothingStranded == Spec => []NoRequestStranded
<1>1. ConnectionInv => NoRequestStranded
  BY DEF ConnectionInv, StateSound, NoRequestStranded
<1> QED BY <1>1, ConnectionInvariant, PTL

\* The peer gets the replies in the order of its requests, none twice and none
\* missing, whatever the socket takes at a time, and nothing after the end.
THEOREM RepliesStayInOrder == Spec => []RepliesInOrder
<1>1. ConnectionInv => RepliesInOrder
  <2> SUFFICES ASSUME ConnectionInv PROVE RepliesInOrder
    OBVIOUS
  <2> DEFINE all == got \o flight \o out
  <2>1. /\ got \in Seq(Nat) /\ flight \in Seq(Nat) /\ out \in Seq(Nat)
        /\ Len(got) \in Nat /\ Len(flight) \in Nat /\ Len(out) \in Nat
        /\ \A i \in 1 .. Len(got) : got[i] = i
        /\ \A i \in 1 .. Len(flight) : flight[i] = Len(got) + i
        /\ \A i \in 1 .. Len(out) : out[i] = Len(got) + Len(flight) + i
    BY DEF ConnectionInv, Types, Numbered
  <2> DEFINE gf == got \o flight
  <2>2. /\ gf \in Seq(Nat) /\ Len(gf) = Len(got) + Len(flight)
        /\ \A i \in 1 .. Len(got) + Len(flight) :
              gf[i] = IF i <= Len(got) THEN got[i] ELSE flight[i - Len(got)]
    BY <2>1, ConcatProperties
  <2>3. \A i \in 1 .. Len(gf) : gf[i] = i
    <3> SUFFICES ASSUME NEW i \in 1 .. Len(gf) PROVE gf[i] = i
      OBVIOUS
    <3>1. CASE i <= Len(got)
      BY <2>1, <2>2, <3>1
    <3>2. CASE i > Len(got)
      <4>1. i - Len(got) \in 1 .. Len(flight) /\ i \in 1 .. Len(got) + Len(flight)
        BY <2>1, <2>2, <3>2
      <4>2. gf[i] = Len(got) + (i - Len(got))
        BY <2>1, <2>2, <3>2, <4>1
      <4> QED BY <2>1, <4>1, <4>2
    <3> QED BY <2>1, <2>2, <3>1, <3>2
  <2> HIDE DEF gf
  <2>4. /\ all \in Seq(Nat) /\ Len(all) = Len(gf) + Len(out)
        /\ \A i \in 1 .. Len(gf) + Len(out) :
              all[i] = IF i <= Len(gf) THEN gf[i] ELSE out[i - Len(gf)]
    BY <2>1, <2>2, ConcatProperties DEF gf
  <2> HIDE DEF all
  <2>5. \A i \in 1 .. Len(all) : all[i] = i
    <3> SUFFICES ASSUME NEW i \in 1 .. Len(all) PROVE all[i] = i
      OBVIOUS
    <3>1. CASE i <= Len(gf)
      <4>1. i \in 1 .. Len(gf) /\ i \in 1 .. Len(gf) + Len(out)
        BY <2>1, <2>2, <2>4, <3>1
      <4> QED BY <2>3, <2>4, <3>1, <4>1
    <3>2. CASE i > Len(gf)
      <4>1. i - Len(gf) \in 1 .. Len(out) /\ i \in 1 .. Len(gf) + Len(out)
        BY <2>1, <2>2, <2>4, <3>2
      <4>2. all[i] = out[i - Len(gf)]
        BY <2>4, <3>2, <4>1, <2>1, <2>2
      <4>3. out[i - Len(gf)] = Len(got) + Len(flight) + (i - Len(gf))
        BY <2>1, <4>1
      <4> QED BY <2>1, <2>2, <4>1, <4>2, <4>3
    <3> QED BY <2>1, <2>2, <2>4, <3>1, <3>2
  <2>6. Len(all) = Replied
    BY <2>1, <2>2, <2>4 DEF Replied
  <2>7. all = [i \in 1 .. Len(all) |-> i]
    BY <2>4, <2>5, LenProperties
  <2>8. /\ \A i \in 1 .. Len(all) - 1 : script[i] = "command"
        /\ Len(all) * RequestLen <= received
    BY <2>6 DEF ConnectionInv, Ordered
  <2>9. TypeOK
    BY DEF ConnectionInv, Types
  <2> QED BY <2>7, <2>8, <2>9 DEF RepliesInOrder, all
<1> QED BY <1>1, ConnectionInvariant, PTL

\* The server's own close comes only after the last reply has gone to the socket.
THEOREM LastReplyBeforeClose == Spec => []ClosesAfterLastReply
<1>1. ConnectionInv => ClosesAfterLastReply
  <2> SUFFICES ASSUME ConnectionInv, closed, peer = "open", ~ctlFailed
               PROVE  /\ out = <<>>
                      /\ got \o flight # <<>> /\ script[Len(got \o flight)] # "command"
    BY DEF ClosesAfterLastReply
  <2>1. Replied >= 1 /\ script[Replied] # "command" /\ out = <<>>
    BY DEF ConnectionInv, StateSound, Ended, closed
  <2>2. Len(got \o flight) = Replied
    <3>1. Len(got \o flight) = Len(got) + Len(flight)
      BY ConcatProperties DEF ConnectionInv, Types
    <3> QED BY <2>1, <3>1 DEF Replied, ConnectionInv, Types
  <2>3. got \o flight # <<>>
    BY <2>1, <2>2
  <2> QED BY <2>1, <2>2, <2>3
<1> QED BY <1>1, ConnectionInvariant, PTL
=============================================================================
