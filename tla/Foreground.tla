------------------------------ MODULE Foreground ------------------------------
(***************************************************************************)
(* What the shell and the process table promise together: one program at a *)
(* time is in the foreground.  The shell owns the console until it runs a  *)
(* program in a free slot, the program owns it until it exits, and an      *)
(* exited program stays a zombie until the shell reaps it.                 *)
(***************************************************************************)
EXTENDS Naturals

CONSTANTS Slots,   \* slots of the process table a program may occupy
          Shell    \* the shell's own slot

VARIABLES owner,   \* the slot whose task owns the console
          zombies  \* slots of exited programs that were not reaped

fgVars == <<owner, zombies>>

Init ==
  /\ owner = Shell
  /\ zombies = {}

Launch(p) ==
  /\ owner = Shell
  /\ p \notin zombies
  /\ owner' = p
  /\ UNCHANGED zombies

Exit ==
  /\ owner \in Slots
  /\ zombies' = zombies \cup {owner}
  /\ owner' = Shell

Reap(p) ==
  /\ owner = Shell
  /\ p \in zombies
  /\ zombies' = zombies \ {p}
  /\ UNCHANGED owner

Next == Exit \/ \E p \in Slots : Launch(p) \/ Reap(p)

Spec == Init /\ [][Next]_fgVars
===============================================================================
