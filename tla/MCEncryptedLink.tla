-------------------------- MODULE MCEncryptedLink --------------------------
(***************************************************************************)
(* Small instances of EncryptedLink.                                       *)
(***************************************************************************)
EXTENDS EncryptedLink

\* No -k, or the key of the link.
MCLtks == {NoLtk, LinkLtk}

MCKnownLtk == {LinkLtk}
===========================================================================
