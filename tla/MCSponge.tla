------------------------------- MODULE MCSponge -------------------------------
(* Messages of zero bytes and of bytes that look like padding. *)
EXTENDS Sponge
MCBytes == {{}, P}
=============================================================================
