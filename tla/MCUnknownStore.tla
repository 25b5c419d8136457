--------------------------- MODULE MCUnknownStore ---------------------------
(* Two slots, and one signature more than they hold. *)
EXTENDS UnknownStore

CONSTANTS s1, s2, s3

MCSignatures == {s1, s2, s3}
=============================================================================
