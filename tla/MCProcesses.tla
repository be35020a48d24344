---------------------------- MODULE MCProcesses -----------------------------
(* Lines for TLC to type.                                                    *)
EXTENDS Processes

\* A pipeline, a command in the background, a syntax error, lists nested deeper
\* than the process table is large, and a pipe without file structures left.
MCLines ==
  {<<>>, <<"echo", "|", "cat">>, <<"echo", "&">>, <<"echo", "|", ")">>,
   <<"(", "(", "f", ";", "f", ")", ";", "cat", ")", ";", "echo", ">", "f">>,
   <<"(", "f", "|", "f", ")", ">", "f">>}
============================================================================
