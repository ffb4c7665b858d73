------------------------------ MODULE MCHy2Udp ------------------------------
(* Small instances of a Hysteria2 UDP session. As 2^32 is one above a       *)
(* multiple of 65535, CounterSpace is one above a multiple of IdSpace.      *)
EXTENDS Hy2Udp

MCLengths == <<{2, 3}, {0, 2}, {2}>>
MCForeign == [packet : {1}, index : {0}, size : {1, 2}]
MCPacketIds == 0..(IdSpace - 1)
MCPayloads == [packet : 1..MaxSends, index : 0..MaxFragments, size : 0..MaxUdpSize]
=============================================================================
