------------------------------- MODULE MCUart -------------------------------
(***************************************************************************)
(* UartLink over a short packet and one whose payload looks like a start;  *)
(* a spoilt length may be the greatest.                                    *)
(***************************************************************************)
EXTENDS UartLink

MCPeerPackets ==
  {<<1, 2, 8, 9>>, <<2, StartCode, 3, 0, 8, 9>>}

MCNoise == {StartCode, 5}
=============================================================================
