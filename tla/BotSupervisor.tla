--------------------------- MODULE BotSupervisor ----------------------------
(***************************************************************************)
(* What the bot's life cycle promises, without locks, channels or requests: *)
(* a polling task is started only when no other is in charge, the task in   *)
(* charge can always be relieved, and a task's identity is never reused.    *)
(***************************************************************************)
CONSTANTS Pollers, None

VARIABLES
  owner,   \* the task in charge: the one that can be told to stop
  alive,   \* tasks that run, in charge or winding down
  retired  \* tasks that have ended

svars == <<owner, alive, retired>>

Init ==
  /\ owner = None
  /\ alive = {}
  /\ retired = {}

Spawn(p) ==
  /\ owner = None
  /\ p \notin alive \cup retired
  /\ owner' = p
  /\ alive' = alive \cup {p}
  /\ UNCHANGED retired

\* The task in charge is told to stop.
Relieve ==
  /\ owner # None
  /\ owner' = None
  /\ UNCHANGED <<alive, retired>>

\* A task ends.  In this program that leaves nobody in charge.
End(p) ==
  /\ p \in alive
  /\ alive' = alive \ {p}
  /\ retired' = retired \cup {p}
  /\ owner' = None

Next == Relieve \/ \E p \in Pollers : Spawn(p) \/ End(p)

Spec == Init /\ [][Next]_svars
=============================================================================
