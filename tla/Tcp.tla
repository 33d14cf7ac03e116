----------------------------------- MODULE Tcp -----------------------------------
(***************************************************************************)
(* TCP segments over IPv4 (src/src/tcp.c).                                 *)
(***************************************************************************)
EXTENDS Checksum

TCP_MIN_HEADER_LEN  == 20
TCP_MAX_PAYLOAD_LEN == MaxPacketLen - TCP_MIN_HEADER_LEN
TCP_PROTOCOL        == 6
TCP_FLAG_ACK        == 16

tcp_build(source_port, destination_port, sequence_number, acknowledgment_number, flags, window_size, payload) ==
  IF Len(payload) > TCP_MAX_PAYLOAD_LEN THEN Fail(-1)
  ELSE [rc |-> 0, source_port |-> source_port, destination_port |-> destination_port,
        sequence_number |-> sequence_number, acknowledgment_number |-> acknowledgment_number,
        data_offset |-> 5, flags |-> flags, window_size |-> window_size, checksum |-> 0,
        urgent_pointer |-> 0, options |-> <<>>, payload |-> payload]

TcpFields(data, header_len) ==
  [rc |-> 0, source_port |-> read_u16_be(data, 0), destination_port |-> read_u16_be(data, 2),
   sequence_number |-> read_u32_be(data, 4), acknowledgment_number |-> read_u32_be(data, 8),
   data_offset |-> data[13] \div 16, flags |-> data[14], window_size |-> read_u16_be(data, 14),
   checksum |-> read_u16_be(data, 16), urgent_pointer |-> read_u16_be(data, 18),
   options |-> Slice(data, TCP_MIN_HEADER_LEN, header_len - TCP_MIN_HEADER_LEN),
   payload |-> From(data, header_len)]

tcp_parse(data) ==
  IF Len(data) < TCP_MIN_HEADER_LEN THEN Fail(-2)
  ELSE LET data_offset == data[13] \div 16
           header_len  == data_offset * 4
       IN  IF data_offset < 5 \/ header_len > Len(data) THEN Fail(-3)
           ELSE IF Len(data) - header_len > TCP_MAX_PAYLOAD_LEN THEN Fail(-4)
           ELSE TcpFields(data, header_len)

tcp_serialize(s, buffer_len) ==
  LET header_len == s.data_offset * 4
      total_len  == header_len + Len(s.payload)
  IN  IF \/ s.data_offset < 5 \/ s.data_offset > 15
         \/ Len(s.options) # header_len - TCP_MIN_HEADER_LEN
         \/ total_len > MaxPacketLen \/ buffer_len < total_len
      THEN <<>>
      ELSE write_u16_be(s.source_port) \o write_u16_be(s.destination_port)
           \o write_u32_be(s.sequence_number) \o write_u32_be(s.acknowledgment_number)
           \o <<s.data_offset * 16, s.flags>> \o write_u16_be(s.window_size)
           \o write_u16_be(s.checksum) \o write_u16_be(s.urgent_pointer)
           \o s.options \o s.payload

tcp_checksum_sum_ipv4(source_ip, destination_ip, data) ==
  add_bytes(pseudo_header_sum(source_ip, destination_ip, TCP_PROTOCOL, Len(data)), data)

tcp_checksum_ipv4(source_ip, destination_ip, data) ==
  IF Len(data) < TCP_MIN_HEADER_LEN \/ Len(data) > 65535 THEN 0
  ELSE LET result == checksum_finish(tcp_checksum_sum_ipv4(source_ip, destination_ip, data))
       IN  IF result = 0 THEN 65535 ELSE result

tcp_serialize_ipv4(s, source_ip, destination_ip, buffer_len) ==
  LET zeroed   == tcp_serialize([s EXCEPT !.checksum = 0], buffer_len)
      checksum == tcp_checksum_ipv4(source_ip, destination_ip, zeroed)
  IN  IF zeroed = <<>> \/ checksum = 0 THEN <<>> ELSE Patch(zeroed, 16, checksum)

tcp_checksum_ipv4_valid(source_ip, destination_ip, data) ==
  /\ Len(data) >= TCP_MIN_HEADER_LEN /\ Len(data) <= 65535
  /\ checksum_finish(tcp_checksum_sum_ipv4(source_ip, destination_ip, data)) = 0
================================================================================
