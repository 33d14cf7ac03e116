---------------------------------- MODULE Icmp ----------------------------------
(***************************************************************************)
(* ICMP echo messages (src/src/icmp.c).                                    *)
(***************************************************************************)
EXTENDS Checksum

ICMP_TYPE_ECHO_REPLY   == 0
ICMP_TYPE_ECHO_REQUEST == 8
ICMP_CODE_ECHO         == 0
ICMP_ECHO_HEADER_LEN   == 8
ICMP_MAX_PAYLOAD_LEN   == MaxPacketLen - ICMP_ECHO_HEADER_LEN

EchoTypes == {ICMP_TYPE_ECHO_REQUEST, ICMP_TYPE_ECHO_REPLY}

icmp_checksum(data) == checksum_finish(add_bytes(0, data))

icmp_build_echo(type, identifier, sequence, payload) ==
  IF Len(payload) > ICMP_MAX_PAYLOAD_LEN THEN Fail(-1)
  ELSE [rc |-> 0, type |-> type, code |-> ICMP_CODE_ECHO, checksum |-> 0,
        identifier |-> identifier, sequence |-> sequence, payload |-> payload]

icmp_build_echo_request(identifier, sequence, payload) ==
  icmp_build_echo(ICMP_TYPE_ECHO_REQUEST, identifier, sequence, payload)

icmp_build_echo_reply(identifier, sequence, payload) ==
  icmp_build_echo(ICMP_TYPE_ECHO_REPLY, identifier, sequence, payload)

icmp_serialize(p, buffer_len) ==
  IF \/ p.type \notin EchoTypes \/ p.code # ICMP_CODE_ECHO
     \/ Len(p.payload) > ICMP_MAX_PAYLOAD_LEN
     \/ buffer_len < ICMP_ECHO_HEADER_LEN + Len(p.payload)
  THEN <<>>
  ELSE LET zeroed == <<p.type, p.code, 0, 0>> \o write_u16_be(p.identifier)
                     \o write_u16_be(p.sequence) \o p.payload
       IN  Patch(zeroed, 2, icmp_checksum(zeroed))

\* Fault: the checksum is not verified.
icmp_parse_unverified(data) ==
  IF Len(data) < ICMP_ECHO_HEADER_LEN THEN Fail(-2)
  ELSE IF data[1] \notin EchoTypes THEN Fail(-3)
  ELSE IF data[2] # ICMP_CODE_ECHO THEN Fail(-4)
  ELSE [rc |-> 0, type |-> data[1], code |-> data[2], checksum |-> read_u16_be(data, 2),
        identifier |-> read_u16_be(data, 4), sequence |-> read_u16_be(data, 6),
        payload |-> From(data, ICMP_ECHO_HEADER_LEN)]

icmp_parse(data) ==
  IF Len(data) < ICMP_ECHO_HEADER_LEN THEN Fail(-2)
  ELSE IF data[1] \notin EchoTypes THEN Fail(-3)
  ELSE IF data[2] # ICMP_CODE_ECHO THEN Fail(-4)
  ELSE IF icmp_checksum(data) # 0 THEN Fail(-5)
  ELSE IF Len(data) - ICMP_ECHO_HEADER_LEN > ICMP_MAX_PAYLOAD_LEN THEN Fail(-6)
  ELSE [rc |-> 0, type |-> data[1], code |-> data[2], checksum |-> read_u16_be(data, 2),
        identifier |-> read_u16_be(data, 4), sequence |-> read_u16_be(data, 6),
        payload |-> From(data, ICMP_ECHO_HEADER_LEN)]
================================================================================
