---------------------------- MODULE ProgramSlot ----------------------------
(***************************************************************************)
(* What replacing a device's program promises, seen from outside: there is *)
(* at most one active program, a program is active only while the saved    *)
(* copy is that same program, and a program is replaced only after the old *)
(* one has stopped and its saved copy is gone.  A device may lose its      *)
(* program (a power loss between Clear and Save), it never runs one that   *)
(* a restart would not bring back.                                         *)
(***************************************************************************)
CONSTANTS Program, None

VARIABLES
  active,   \* the program whose pipelines are scheduled, or None
  saved     \* the program a restart would load, or None

slotVars == <<active, saved>>

SlotInit == active = None /\ saved = None

\* The scheduler stops, for a deployment or because power is lost.
Retire == active' = None /\ UNCHANGED saved

\* The saved copy is erased.
Clear == active = None /\ saved' = None /\ UNCHANGED active

\* A new copy is complete.
Save(p) == active = None /\ saved = None /\ saved' = p /\ UNCHANGED active

\* The saved program starts.
Activate == active = None /\ saved # None /\ active' = saved /\ UNCHANGED saved

SlotNext == Retire \/ Clear \/ (\E p \in Program : Save(p)) \/ Activate

SlotSpec == SlotInit /\ [][SlotNext]_slotVars
===========================================================================
