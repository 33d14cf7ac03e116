-------------------------------- MODULE Ethernet --------------------------------
(***************************************************************************)
(* Ethernet II frames (src/src/ethernet.c).                                *)
(***************************************************************************)
EXTENDS Wire

CONSTANT EthernetMaxPayload     \* ETHERNET_MAX_PAYLOAD, 1500

ASSUME EthernetAssumption == EthernetMaxPayload \in Nat

ETHERNET_HEADER_LEN == 14
ETHERNET_TYPE_IPV4  == 2048
ETHERNET_TYPE_ARP   == 2054

ethernet_parse(data) ==
  IF Len(data) < ETHERNET_HEADER_LEN THEN Fail(-2)
  ELSE IF Len(data) - ETHERNET_HEADER_LEN > EthernetMaxPayload THEN Fail(-3)
  ELSE [rc |-> 0, destination |-> Slice(data, 0, 6), source |-> Slice(data, 6, 6),
        ethertype |-> read_u16_be(data, 12), payload |-> From(data, ETHERNET_HEADER_LEN)]

ethernet_serialize(frame, buffer_len) ==
  IF \/ Len(frame.payload) > EthernetMaxPayload
     \/ buffer_len < ETHERNET_HEADER_LEN + Len(frame.payload)
  THEN <<>>
  ELSE frame.destination \o frame.source \o write_u16_be(frame.ethertype) \o frame.payload
================================================================================
