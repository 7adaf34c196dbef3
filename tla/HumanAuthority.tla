--------------------------- MODULE HumanAuthority ----------------------------
(***************************************************************************)
(* What the gate promises about human authority, without handlers, stores  *)
(* or crashes.  A proposal, known by its number, is decided at most once.  *)
(* A tasking, [serial, unit], circulates only after a decision granted it, *)
(* and may stop circulating at any time (a reset, a restart, a tasking     *)
(* overwritten).  Only a circulating tasking can be confirmed.             *)
(***************************************************************************)
EXTENDS Naturals

VARIABLES
  decisions,   \* sealed decisions, [serial, units, ok]
  held,        \* taskings in circulation
  confirmed    \* taskings whose receipt is sealed

avars == <<decisions, held, confirmed>>

Granted(x) ==
  \E d \in decisions : d.ok /\ d.serial = x.serial /\ x.unit \in d.units

AInit == decisions = {} /\ held = {} /\ confirmed = {}

ADecide ==
  /\ \E d \in decisions' :
       /\ \A e \in decisions : e.serial # d.serial
       /\ decisions' = decisions \union {d}
  /\ UNCHANGED <<held, confirmed>>

ACirculate ==
  /\ \A x \in held' : x \in held \/ Granted(x)
  /\ UNCHANGED <<decisions, confirmed>>

AConfirm ==
  /\ \E x \in held : confirmed' = confirmed \union {x}
  /\ UNCHANGED <<decisions, held>>

ANext == ADecide \/ ACirculate \/ AConfirm

ASpec == AInit /\ [][ANext]_avars

\* Nothing circulates and nothing is confirmed without a decision behind it.
AllGranted == \A x \in held \union confirmed : Granted(x)
=============================================================================
