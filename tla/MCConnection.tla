---------------------------- MODULE MCConnection ----------------------------
(***************************************************************************)
(* Three requests of two units each; the conversation ends by itself, by a *)
(* QUIT in the middle or by a protocol error.  The send buffer takes one   *)
(* reply, so that out_ backs up.                                           *)
(***************************************************************************)
EXTENDS Connection

MCScripts ==
    {<<"command", "command", "command">>, <<"command", "quit", "command">>,
     <<"command", "command", "garbage">>, <<"garbage", "command">>}
=============================================================================
