------------------------------ MODULE MCNetDevice ------------------------------
(***************************************************************************)
(* Route tables of up to two lines: of this and another interface, with    *)
(* and without a gateway, up and down, and a line that does not parse.     *)
(***************************************************************************)
EXTENDS NetDevice

Route(parsed, iface, destination, last, flags) ==
  [parsed |-> parsed, iface |-> iface, destination |-> destination,
   gateway |-> <<192, 168, 50, last>>, flags |-> flags]

Lines ==
  {Route(TRUE, "eth0", 0, 1, 3), Route(TRUE, "eth0", 0, 2, 3), Route(TRUE, "eth0", 0, 3, 1),
   Route(TRUE, "eth0", 0, 4, 2), Route(TRUE, "eth1", 0, 5, 3), Route(TRUE, "eth0", 16820416, 6, 3),
   Route(FALSE, "eth0", 0, 7, 3)}

Tables == {<<>>} \cup {<<l>> : l \in Lines} \cup (Lines \X Lines)
================================================================================
