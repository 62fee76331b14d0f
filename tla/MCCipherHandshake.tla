-------------------------- MODULE MCCipherHandshake --------------------------
(* Small instances of CipherHandshake for TLC: a hello or a key and two     *)
(* encrypted packets in each direction.                                     *)
EXTENDS CipherHandshake
==============================================================================
