------------------------ MODULE MCCredentialCustody ------------------------
(* Instance of CredentialCustody for TLC. *)
EXTENDS CredentialCustody
=============================================================================
