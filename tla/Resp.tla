-------------------------------- MODULE Resp --------------------------------
(***************************************************************************)
(* core/resp.cpp: the request parser and the reply encoders, on bytes.     *)
(* The parser keeps nothing between calls: parseCommand is called again on *)
(* everything received so far whenever more has come, so the specification *)
(* is a stream that grows by one byte at a time.                           *)
(*                                                                         *)
(* Offsets count the bytes before a position, as in the code.              *)
(***************************************************************************)
EXTENDS Integers, Sequences, SequencesExt, FiniteSets, FiniteSetsExt

CONSTANTS
    Char,             \* the bytes a peer sends
    kMaxArgs,         \* 16 in the code
    kMaxBulkLength,   \* 64 MiB
    kMaxInlineLength, \* 64 KiB
    kMaxHeaderLength, \* 32
    SizeMax,          \* 2^64 - 1, the largest size_t
    kMaxEcho,         \* 128, what an error reply repeats of an argument
    Lookahead         \* bound: how many bytes of the next request are looked at

ASSUME RespAssumption ==
    /\ {kMaxArgs, kMaxBulkLength, kMaxInlineLength, kMaxHeaderLength} \subseteq Nat \ {0}
    /\ SizeMax \in Nat /\ kMaxEcho \in Nat /\ Lookahead \in Nat

VARIABLE in \* the bytes in in_

CR == "CR"
LF == "LF"
CRLF == <<CR, LF>>
Numeral == <<"0", "1", "2", "3", "4", "5", "6", "7", "8", "9">>
Digits == ToSet(Numeral)
DigitOf(c) == (CHOOSE i \in DOMAIN Numeral : Numeral[i] = c) - 1

Bytes(s, at, len) == SubSeq(s, at + 1, at + len)

-----------------------------------------------------------------------------
(* Lines, payloads and numbers.                                            *)

Found(s, at, len, next) == [status |-> "kFound", text |-> Bytes(s, at, len), next |-> next]
Verdict(status) == [status |-> status]

\* Mutant: a line that fills its budget is given up before its CRLF is there.
OutOfRoomEarly(avail, maxLen, scan) == avail >= maxLen + 1

\* With no terminator in sight, can a legal line still arrive?
OutOfRoom(avail, maxLen, scan) ==
    avail >= maxLen + 2 \/ (avail = maxLen + 1 /\ Last(scan) # CR)

\* A line whose LF is the lf-th byte, with a CR before it or not.
Terminated(s, at, maxLen, lf, cr) ==
    LET len == IF cr THEN lf - 2 ELSE lf - 1
    IN  IF len > maxLen THEN Verdict("kTooLong") ELSE Found(s, at, len, at + lf)

\* LF ends a line; in the array form only after a CR.
readLine(s, at, maxLen, framing) ==
    LET avail == Len(s) - at
        scan == Bytes(s, at, Min({avail, maxLen + 2}))
        AfterCr(i) == i > 1 /\ scan[i - 1] = CR
        ends == {i \in 1 .. Len(scan) : scan[i] = LF /\ (AfterCr(i) \/ framing = "kInline")}
    IN  IF at >= Len(s) THEN Verdict("kIncomplete")
        ELSE IF ends = {}
        THEN Verdict(IF OutOfRoom(avail, maxLen, scan) THEN "kTooLong" ELSE "kIncomplete")
        ELSE Terminated(s, at, maxLen, Min(ends), AfterCr(Min(ends)))

takeBytes(s, at, len) ==
    LET avail == Len(s) - at
    IN  IF avail < 2 \/ len > avail - 2 THEN Verdict("kIncomplete")
        ELSE IF Bytes(s, at + len, 2) # CRLF THEN Verdict("kBadTrailer")
        ELSE Found(s, at, len, at + len + 2)

nullopt == -1

\* Mutant: the value wraps around.
DigitWraps(v, c) ==
    IF v = nullopt \/ c \notin Digits THEN nullopt ELSE (v * 10 + DigitOf(c)) % (SizeMax + 1)

\* One more digit, unless the value would not fit.
WithDigit(v, c) ==
    IF v = nullopt \/ c \notin Digits THEN nullopt
    ELSE IF v > (SizeMax - DigitOf(c)) \div 10 THEN nullopt ELSE v * 10 + DigitOf(c)

readInt(s) ==
    IF s = <<>> \/ (s # <<"0">> /\ s[1] \notin Digits \ {"0"}) THEN nullopt
    ELSE LET v[i \in 0 .. Len(s)] == IF i = 0 THEN 0 ELSE WithDigit(v[i - 1], s[i])
         IN  v[Len(s)]

\* Mutant: the limit itself is refused.
LimitIsTooMuch(line, type, limit) ==
    IF line = <<>> \/ line[1] # type THEN nullopt
    ELSE LET v == readInt(Tail(line)) IN IF v >= limit THEN nullopt ELSE v

headerValue(line, type, limit) ==
    IF line = <<>> \/ line[1] # type THEN nullopt
    ELSE LET v == readInt(Tail(line)) IN IF v > limit THEN nullopt ELSE v

-----------------------------------------------------------------------------
(* parseCommand.  A Command has kMaxArgs slots and is used again for every *)
(* request of a batch: prev is what the one before left in it.             *)

Cleared == [argv |-> [i \in 1 .. kMaxArgs |-> <<>>], argc |-> 0]

\* The slots once the arguments words are written into them.
Written(prev, words) ==
    [prev EXCEPT !.argv = [i \in 1 .. kMaxArgs |-> IF i <= Len(words) THEN words[i] ELSE @[i]]]

\* Mutant: the slots past argc keep what they had.
PublishCountOnly(cmd, argc) == [cmd EXCEPT !.argc = argc]

publish(cmd, argc) ==
    [argv |-> [i \in 1 .. kMaxArgs |-> IF i <= argc THEN cmd.argv[i] ELSE <<>>], argc |-> argc]

\* "none" is the empty error.
Result(status, consumed, err, cmd) ==
    [status |-> status, consumed |-> consumed, error |-> err, cmd |-> cmd]
Incomplete(cmd) == Result("kIncomplete", 0, "none", cmd)
fail(err, cmd) == Result("kProtocolError", 0, err, cmd)

Blank(c) == c = " " \* or a tab

\* The next byte from pos on that is blank, and the next that is not, with the
\* end of the text for none.
NextBlank(text, pos) == Min({i \in pos .. Len(text) + 1 : i > Len(text) \/ Blank(text[i])})
NextWord(text, pos) == Min({i \in pos .. Len(text) + 1 : i > Len(text) \/ ~Blank(text[i])})

\* The arguments of an inline line, found one after the other.
Words(text) ==
    LET from[pos \in 1 .. Len(text) + 1] ==
            LET start == NextWord(text, pos)
                stop == NextBlank(text, start)
            IN  IF start > Len(text) THEN <<>>
                ELSE <<SubSeq(text, start, stop - 1)>> \o from[stop]
    IN  from[1]

InlineFrom(line, prev) ==
    LET words == Words(line.text)
        cmd == Written(prev, words)
    IN  CASE line.status = "kIncomplete" -> Incomplete(prev)
          [] line.status = "kTooLong" -> fail("kInlineLength", prev)
          [] line.status = "kFound" ->
                IF Len(words) > kMaxArgs THEN fail("kArgLength", cmd)
                ELSE Result("kOk", line.next, "none", publish(cmd, Len(words)))

parseInline(s, prev) == InlineFrom(readLine(s, 0, kMaxInlineLength, "kInline"), prev)

\* One element of the array form: its header elem, then its payload.  A header
\* that is no length stops the command as a bad trailer does.
Framed(s, acc, elem) ==
    LET len == headerValue(elem.text, "$", kMaxBulkLength)
        payload == IF len = nullopt THEN Verdict("kBadTrailer")
                   ELSE takeBytes(s, elem.next, len)
    IN  IF elem.status # "kFound" THEN [acc EXCEPT !.status = elem.status]
        ELSE IF payload.status # "kFound" THEN [acc EXCEPT !.status = payload.status]
        ELSE [acc EXCEPT !.cursor = payload.next, !.words = Append(@, payload.text)]

Element(s, acc) ==
    IF acc.status # "kFound" THEN acc
    ELSE Framed(s, acc, readLine(s, acc.cursor, kMaxHeaderLength, "kStrict"))

NoWords(at) == [status |-> "kFound", cursor |-> at, words |-> <<>>]

Elements(s, at, count) ==
    LET acc[i \in 0 .. count] == IF i = 0 THEN NoWords(at) ELSE Element(s, acc[i - 1])
    IN  acc[count]

\* The command once its elements have been gone through.
Assembled(all, prev, count) ==
    LET cmd == Written(prev, all.words)
    IN  CASE all.status = "kIncomplete" -> Incomplete(cmd)
          [] all.status \in {"kTooLong", "kBadTrailer"} -> fail("kBulkLength", cmd)
          [] all.status = "kFound" -> Result("kOk", all.cursor, "none", publish(cmd, count))

ArrayFrom(s, header, prev) ==
    LET count == headerValue(header.text, "*", kMaxArgs)
    IN  CASE header.status = "kIncomplete" -> Incomplete(prev)
          [] header.status = "kTooLong" -> fail("kArgLength", prev)
          [] header.status = "kFound" ->
                IF count = nullopt THEN fail("kArgLength", prev)
                ELSE Assembled(Elements(s, header.next, count), prev, count)

parseArray(s, prev) == ArrayFrom(s, readLine(s, 0, kMaxHeaderLength, "kStrict"), prev)

\* Anything but a command leaves the slots empty.
Settled(res) == IF res.status = "kOk" THEN res ELSE [res EXCEPT !.cmd = Cleared]

parseCommand(s, prev) ==
    Settled(IF s = <<>> THEN Incomplete(prev)
            ELSE IF s[1] = "*" THEN parseArray(s, prev) ELSE parseInline(s, prev))

-----------------------------------------------------------------------------
(* Replies.  The wording of messages is the byte "x".                      *)

to_chars[n \in Nat] ==
    IF n < 10 THEN <<Numeral[n + 1]>> ELSE Append(to_chars[n \div 10], Numeral[(n % 10) + 1])

appendLine(type, body) == <<type>> \o body \o CRLF
appendNumber(type, v) == appendLine(type, IF v < 0 THEN <<"-">> \o to_chars[-v] ELSE to_chars[v])

simpleString(s) == appendLine("+", s)
error(msg) == appendLine("-", msg)
integer(v) == appendNumber(":", v)
bulk(s) == appendNumber("$", Len(s)) \o s \o CRLF
nullBulk == <<"$", "-", "1">> \o CRLF

\* Mutant: arguments are repeated as they came.
EchoesRaw(s) == Bytes(s, 0, Min({Len(s), kMaxEcho}))

appendSanitized(s) ==
    [i \in 1 .. Min({Len(s), kMaxEcho}) |-> IF s[i] \in {CR, LF} THEN " " ELSE s[i]]

unknownCommand(cmd) ==
    error(FlattenSeq([i \in 1 .. cmd.argc |->
                        <<"x">> \o appendSanitized(cmd.argv[i]) \o <<"x">>]))

\* The code's limits leave room for what is within them: a header line for the
\* digits of the largest count and length, a size_t for every length.
ASSUME LimitsAssumption ==
    /\ {kMaxArgs, kMaxBulkLength, kMaxInlineLength} \subseteq 0 .. SizeMax
    /\ 1 + Len(to_chars[kMaxArgs]) <= kMaxHeaderLength
    /\ 1 + Len(to_chars[kMaxBulkLength]) <= kMaxHeaderLength

-----------------------------------------------------------------------------
(* The stream.                                                             *)

Parsed(s) == parseCommand(s, Cleared)

StreamInit == in = <<>>

\* More bytes are waited for as long as the request is not complete.
receive(b) ==
    /\ Parsed(in).status = "kIncomplete"
    /\ in' = Append(in, b)

StreamNext == \E b \in Char : receive(b)

StreamSpec == StreamInit /\ [][StreamNext]_in

-----------------------------------------------------------------------------
(* Properties.                                                             *)

\* r is final: no byte that follows changes it.
Final(r) == \A more \in BoundedSeq(Char, Lookahead) : Parsed(in \o more) = r
Decided(r) ==
    /\ r.consumed = IF r.status = "kOk" THEN Len(in) ELSE 0
    /\ r.status # "kIncomplete" => Final(r)

\* It does not matter where the stream is cut.  Until a request is complete the
\* parser consumes nothing ("A strict prefix of a valid command returns
\* kIncomplete and consumes nothing", core/resp.h:103); once it has decided, on a
\* command or on an error, having more of the stream in hand would have led it to
\* the same decision, command and consumed length.
CutsDoNotMatter == in \in Seq(Char) /\ Decided(Parsed(in))

\* What a client sends for the arguments args, and all a client that has these
\* bytes can send within the limits.
Encoded(args) ==
    appendNumber("*", Len(args)) \o FlattenSeq([i \in 1 .. Len(args) |-> bulk(args[i])])
Requests ==
    {req \in {Encoded(args) : args \in BoundedSeq(BoundedSeq(Char, kMaxBulkLength), kMaxArgs)} :
        req \in Seq(Char)}

\* Is word a maximal run of bytes that are not blank, from the i-th on?
IsWord(line, i, word) ==
    LET end == i + Len(word)
    IN  /\ word # <<>> /\ end <= Len(line) + 1 /\ word = SubSeq(line, i, end - 1)
        /\ \A k \in i .. end - 1 : ~Blank(line[k])
        /\ i = 1 \/ Blank(line[i - 1])
        /\ end > Len(line) \/ Blank(line[end])

\* Are args the words of the line, all of them and in their order?
SameWords(line, args) ==
    \E at \in [DOMAIN args -> DOMAIN line] :
        /\ \A k \in DOMAIN args : IsWord(line, at[k], args[k])
        /\ \A j, k \in DOMAIN args : j < k => at[j] < at[k]
        /\ \A i \in DOMAIN line : Blank(line[i])
               \/ \E k \in DOMAIN args : i \in at[k] .. at[k] + Len(args[k]) - 1

\* What comes before the line's end.
Line(taken) ==
    LET n == Len(taken) IN SubSeq(taken, 1, IF n > 1 /\ taken[n - 1] = CR THEN n - 2 ELSE n - 1)
Means(r) ==
    IF r.status # "kOk"
    THEN \A req \in Requests :
            ~IsPrefix(req, in) /\ (r.status # "kIncomplete" => ~IsPrefix(in, req))
    ELSE IF in[1] = "*" THEN in = Encoded(SubSeq(r.cmd.argv, 1, r.cmd.argc))
    ELSE SameWords(Line(in), SubSeq(r.cmd.argv, 1, r.cmd.argc))

\* The array form means one thing.  What is accepted is byte for byte the encoding
\* of the command that comes out, whatever the payload holds.  Every encoding
\* within the limits is accepted: the parser does not wait for more once one is
\* there, and a stream it refuses starts with none and is not, with whatever comes
\* next, the start of one.  An inline command is its line's words.
ParsesWhatWasSent == Means(Parsed(in))

\* One Command serves a whole batch: whatever request it held before, and at
\* whatever slot the new one stops or goes wrong, the result is the one a fresh
\* Command would have given ("a stale slot would hand an arity bug the previous
\* command's bytes", core/resp.h:107).
NothingLeftOver ==
    \A n \in 1 .. kMaxArgs :
        LET before == [i \in 1 .. kMaxArgs |-> IF i <= n THEN <<"x">> ELSE <<>>]
        IN  parseCommand(in, [argv |-> before, argc |-> n]) = Parsed(in)

\* How many bytes a client takes for one reply: a line, whose text has neither CR
\* nor LF, with its CRLF, and the bytes a bulk header announces with theirs.
FrameLength(s) ==
    LET eol == Min({i \in DOMAIN s : s[i] \in {CR, LF}})
        n == readInt(SubSeq(s, 2, eol - 1))
    IN  IF s[1] = "$" /\ n # nullopt THEN eol + 1 + n + 2 ELSE eol + 1

RepliesTo(cmd) ==
    {unknownCommand(cmd), simpleString(<<"x">>), nullBulk, integer(-cmd.argc), integer(cmd.argc)}
    \cup {bulk(cmd.argv[i]) : i \in 1 .. cmd.argc}

\* Replies stay in step with requests: whatever bytes a client sent as a name,
\* key or value, the reply that repeats them is one frame, so the next reply
\* starts where the client expects it.
RepliesFramed ==
    \A a, b \in RepliesTo(Parsed(in).cmd) : FrameLength(a \o b) = Len(a)
=============================================================================
