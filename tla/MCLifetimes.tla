------------------------------ MODULE MCLifetimes ------------------------------
(***************************************************************************)
(* What is kept for a time and has to be there when it is asked for:       *)
(* the participants of a session, and certificates learned from metadata,  *)
(* over small sets. Each behaviour is one of a single part.                *)
(***************************************************************************)
EXTENDS Participants, SpMetadataCache

VARIABLE part

vars == <<participantsVars, metadataVars, part>>

TypeOK == part \in {"participants", "metadata"} /\ ParticipantsTypeOK /\ MetadataTypeOK

Init ==
  /\ part \in {"participants", "metadata"}
  /\ ParticipantsInit /\ MetadataInit
  /\ part # "metadata" => published = None

Next ==
  /\ UNCHANGED part
  /\ \/ part = "participants" /\ ParticipantsNext /\ UNCHANGED metadataVars
     \/ part = "metadata" /\ MetadataNext /\ UNCHANGED participantsVars

Spec == Init /\ [][Next]_vars /\ MetadataFairness
=============================================================================
