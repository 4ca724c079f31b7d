--------------------------- MODULE MCToolExecutor ---------------------------
(* ToolExecutor with two or three calls.                                   *)
EXTENDS ToolExecutor

(* Two calls with one failing append, three calls with none.               *)
MixedTurns ==
    {<<"block", "fail">>, <<"fail", "block">>, <<"excl", "fail">>, <<"fail", "excl">>,
     <<"excl", "excl">>, <<"safe", "excl">>, <<"excl", "safe">>,
     <<"safe", "bash">>, <<"bash", "bash">>, <<"safe", "safe", "excl">>}
=============================================================================
