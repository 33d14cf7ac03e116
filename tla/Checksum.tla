-------------------------------- MODULE Checksum --------------------------------
(***************************************************************************)
(* The Internet checksum of IPv4, ICMP, UDP and TCP.                       *)
(***************************************************************************)
EXTENDS Wire

CONSTANT MaxPacketLen     \* IPV4_, TCP_, UDP_ and ICMP_MAX_PACKET_LEN, 65535

ASSUME ChecksumAssumption == MaxPacketLen \in Nat \ {0} /\ MaxPacketLen <= 65535

Fold(sum) == (sum % 65536) + (sum \div 65536)

checksum_add(sum, word) == Fold(sum + word)

checksum_finish(sum) ==
  LET fold[s \in Nat] == IF s < 65536 THEN s ELSE fold[Fold(s)]
  IN  65535 - fold[sum]

\* The words of the buffer, the last byte of an odd one as a high byte.
add_bytes(sum, data) ==
  LET add[k \in 0 .. (Len(data) \div 2)] ==
        IF k = 0 THEN sum ELSE checksum_add(add[k - 1], read_u16_be(data, 2 * (k - 1)))
      words == add[Len(data) \div 2]
  IN  IF Len(data) % 2 = 0 THEN words ELSE checksum_add(words, data[Len(data)] * 256)

\* The pseudo-header of TCP and UDP over IPv4.
pseudo_header_sum(source_ip, destination_ip, protocol, len) ==
  checksum_add(checksum_add(add_bytes(add_bytes(0, source_ip), destination_ip), protocol),
               u16(len))
================================================================================
