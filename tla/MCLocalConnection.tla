-------------------------- MODULE MCLocalConnection --------------------------
(* Small instances of LocalConnection for TLC. *)
EXTENDS LocalConnection

\* What the commands of the host ask of the console, one for each pattern.
Commands ==
  [scan  |-> {<<>>},
   share |-> {<<>>, <<"password">>},
   goto  |-> {<<"dir">>},
   leave |-> {<<"query">>, <<"query", "dir">>,
              <<"query", "query", "dir", "dir">>},
   pull  |-> {<<"password", "track", "track">>},
   save  |-> {<<"query", "password", "display", "password">>}]

\* Responses of one and of several parts; the last may be the terminating
\* zero alone, or begin with U+2500, as parts of tables and trees do.
Parts == {<<Ascii>>, <<Ascii, Rule, Ascii>>, <<Ascii, Zero>>, <<Ascii, Rule>>}
=============================================================================
