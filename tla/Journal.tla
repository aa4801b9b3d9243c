-------------------------------- MODULE Journal --------------------------------
(***************************************************************************)
(* What plugin storage promises the simulation: work moves the live state  *)
(* forward, a write makes it durable as a whole, a crash takes the live    *)
(* state and nothing else, and the module resumes from the durable state   *)
(* or afresh, never from anything else and never while it is running.      *)
(* Restarts implements this specification.                                 *)
(***************************************************************************)
EXTENDS Integers

VARIABLES
    live,       \* the state in memory, -1 when there is none
    durable     \* the state in storage, -1 when there is none

jvars == <<live, durable>>

Down == -1
Blank == 0

JInit == live = Down /\ durable \in {Down, Blank}

Work == live # Down /\ live' > live /\ UNCHANGED durable

\* A write that fails may leave nothing that can be read.
Write == live # Down /\ durable' \in {live, Down} /\ UNCHANGED live

Lose == live' = Down /\ UNCHANGED durable

Resume ==
    /\ live = Down
    /\ live' \in {durable, Blank} \ {Down}
    /\ UNCHANGED durable

JNext == Work \/ Write \/ Lose \/ Resume

JSpec == JInit /\ [][JNext]_jvars
=============================================================================
