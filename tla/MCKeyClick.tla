------------------------------- MODULE MCKeyClick -------------------------------
(* KeyClick with ten time steps: enough for a click to be switched on,  *)
(* for time to pass, and for a machine reset to follow.                   *)
EXTENDS KeyClick

MCMaxTime == 10
==============================================================================
