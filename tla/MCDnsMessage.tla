------------------------------- MODULE MCDnsMessage -------------------------------
(***************************************************************************)
(* All hostnames of at most six letters and dots: the longest accepted     *)
(* has five bytes, and as many labels as the parser allows.  Lists of up   *)
(* to three records, one more address than is kept.                        *)
(***************************************************************************)
EXTENDS DnsMessage

Letter == 97

AllHostnames == UNION {[1 .. n -> {Letter, Dot}] : n \in 0 .. 6}

Record(type, class, compressed, n) ==
  [type |-> type, class |-> class, compressed |-> compressed,
   ttl |-> <<65535, n>>, rdata |-> [k \in 1 .. n |-> n]]

A1     == Record(1, 1, TRUE, 4)
A2     == [Record(1, 1, FALSE, 4) EXCEPT !.rdata = <<8, 8, 8, 8>>]
Cname  == Record(5, 1, TRUE, 2)
Chaos  == Record(1, 3, FALSE, 4)
A6     == Record(1, 1, TRUE, 0)

Lists == {<<>>, <<A1>>, <<Cname, A2>>, <<A1, Chaos>>, <<A2, A6, A1>>, <<A2, A1, A1>>}
=================================================================================
