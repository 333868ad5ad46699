---------------------------- MODULE MCConnection ----------------------------
(* Values for model checking Connection.                                   *)
EXTENDS Connection

\* Days of three hours with two slots.
MCSlots == <<0, 2>>
=============================================================================
