----------------------------- MODULE MCServing -----------------------------
(***************************************************************************)
(* Two keys, seconds of two milliseconds and four-bit integers: deadlines  *)
(* on both sides of the last one an int64 holds, for either unit.          *)
(***************************************************************************)
EXTENDS Serving

MCNumerals ==
    [token \in {"-1", "0", "1", "3", "5", "7", "8"} |->
        CASE token = "-1" -> -1 [] token = "0" -> 0 [] token = "1" -> 1 [] token = "3" -> 3
          [] token = "5" -> 5 [] token = "7" -> 7 [] token = "8" -> 8]

\* Every tail of up to two tokens, and longer ones that go wrong late.
Tokens == {"ex", "px", "keepttl", "nx"} \cup DOMAIN MCNumerals
Tails ==
    BoundedSeq(Tokens, 2)
    \cup {<<"ex", "1">> \o t : t \in BoundedSeq({"ex", "px", "keepttl", "1"}, 2)}
    \cup {<<"keepttl", opt, "1">> : opt \in {"ex", "px", "keepttl"}}

MCRequests ==
    {<<"set", "a", "v">> \o tail : tail \in Tails}
    \cup {<<"set", "b", "w">>, <<"set", "b", "w", "px", "1">>, <<"set", "b">>}
    \cup {<<"expire", "a", token>> : token \in DOMAIN MCNumerals \cup {"nx"}}
    \cup {<<name, "a">> : name \in {"get", "ttl", "del", "echo", "ping", "quit"}}
    \cup {<<name, "a", "b", "a">> : name \in {"del", "exists", "get", "ping", "nosuch"}}
    \cup {<<>>, <<"ping">>, <<"quit">>, <<"dbsize">>, <<"dbsize", "a">>, <<"flushall">>,
          <<"flushall", "async">>, <<"flushall", "a">>, <<"flushall", "sync", "a">>}
=============================================================================
