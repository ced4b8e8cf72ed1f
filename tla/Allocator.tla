----------------------------- MODULE Allocator ------------------------------
(***************************************************************************)
(* What the pool of memory objects promises its one client, whatever it is *)
(* made of: an allocation hands out an object that is not in use and fails *)
(* only when every object is, and an object given back can be handed out   *)
(* again.                                                                  *)
(***************************************************************************)
CONSTANT Objects

VARIABLES free, held, exited

allocVars == <<free, held, exited>>

AllocInit == free = Objects /\ held = {} /\ exited = FALSE

AllocOne ==
  /\ ~exited
  /\ \E b \in free : free' = free \ {b} /\ held' = held \cup {b}
  /\ UNCHANGED exited

FreeOne ==
  /\ ~exited
  /\ \E b \in held : free' = free \cup {b} /\ held' = held \ {b}
  /\ UNCHANGED exited

Exit ==
  /\ ~exited
  /\ free = {}
  /\ exited' = TRUE
  /\ UNCHANGED <<free, held>>

AllocNext == AllocOne \/ FreeOne \/ Exit

AllocSpec == AllocInit /\ [][AllocNext]_allocVars
=============================================================================
