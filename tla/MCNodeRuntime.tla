----------------------------- MODULE MCNodeRuntime -----------------------------
(***************************************************************************)
(* NodeRuntime for TLC.  Two calls and the program's own timers together   *)
(* are more than it can explore, so a program either makes every call and  *)
(* sets no timer, or sets timers and makes only its streams.               *)
(***************************************************************************)
EXTENDS NodeRuntime

VARIABLE
  program  \* what the program does: "calls" or "timers"

mcvars == <<vars, program>>

Within ==
  \/ program = "calls" /\ UserTimers' = {}
  \/ program = "timers" /\ \A c \in Calls \ Streams : host'[c].state = "new"

MCInit == Init /\ program \in {"calls", "timers"}
MCNext == Next /\ UNCHANGED program /\ Within
MCSpec == MCInit /\ [][MCNext]_mcvars
================================================================================
