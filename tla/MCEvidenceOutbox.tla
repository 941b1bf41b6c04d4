-------------------------- MODULE MCEvidenceOutbox --------------------------
(* Model values for the checks of EvidenceOutbox *)
EXTENDS EvidenceOutbox

CONSTANTS e1, e2, e3
=============================================================================
