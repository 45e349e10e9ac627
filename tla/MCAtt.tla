------------------------------- MODULE MCAtt -------------------------------
(***************************************************************************)
(* The ATT bearer with a peer that may also answer what nobody asked.      *)
(***************************************************************************)
EXTENDS Att

CONSTANT READ

MCOpcodes == {READ}
=============================================================================
