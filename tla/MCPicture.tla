------------------------------- MODULE MCPicture -------------------------------
EXTENDS Picture

Seen(id, source, hint, place, at, confidence, modality) ==
  [observation_id |-> id, source_id |-> source, entity_hint |-> hint,
   place |-> place, at |-> at, confidence |-> confidence, modality |-> modality]

\* A vessel of the open feed, posted again under its id after it moved on.
Vessel == Seen(1, "s1", "a", 0, 0, 1, "ais")
VesselLater == Seen(1, "s1", "a", 6, 6, 1, "ais")
\* A radar contact without a name, beside the vessel.
Contact == Seen(2, "s2", None, 1, 3, 2, "radar")
\* A SAR detection beyond the radius, which drifts onto the contact.
Detection == Seen(3, "s3", "x", 4, 0, 1, "space_sar")
\* Another one, which would drift there as well, but from too late a time.
Late == Seen(4, "s3", None, -5, 9, 1, "space_sar")

Names == {"a", "x", "s1", "s2", "s3"}
MCFeed == {Vessel, VesselLater, Contact, Detection, Late}
MCPosts == {<<VesselLater>>, <<Contact>>, <<Vessel, Bad, Contact>>}
\* What is read from files may hold nothing to detect, or one id twice.
MCEvidence ==
  [spoof |-> {<<Detection, Contact>>},
   swarm |-> {<<Late, Contact>>, <<Vessel, Contact, VesselLater>>}]
MCEvents == [MCEvidence EXCEPT !.spoof = @ \cup {<<>>}]
MCScenario == DOMAIN MCEvidence
MCDrift == -1
MCEnvelope == [age \in 0..4 |-> 1 + age]
================================================================================
