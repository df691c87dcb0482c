---------------------------- MODULE MCCryptoService ----------------------------
(***************************************************************************)
(* A small block and short texts for TLC.                                  *)
(***************************************************************************)
EXTENDS CryptoServiceProps
==============================================================================
