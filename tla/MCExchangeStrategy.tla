------------------------- MODULE MCExchangeStrategy -------------------------
(***************************************************************************)
(* Instance of ExchangeStrategy for TLC: a packet to load, which brings a  *)
(* new configuration, and one to unload.                                   *)
(***************************************************************************)
EXTENDS ExchangeStrategy

CONSTANTS in, out

PacketList == <<in, out>>
=============================================================================
