----------------------------- MODULE NetDevice_proofs -----------------------------
(***************************************************************************)
(* The device holds its descriptor exactly while it should, and the        *)
(* gateway it reports is the first default route's, for any route tables,  *)
(* any number of failed opens and any timing of frames and signals.        *)
(***************************************************************************)
EXTENDS NetDevice, FiniteSetTheorems, TLAPS

Unbound == {"closed", "socket", "index", "bind"}
Bound   == {"mac", "ipv4", "netmask", "route", "line", "open", "poll"}

DeviceRecord ==
  [fd : Int, known : SUBSET {"mac", "ipv4", "netmask"},
   gateway : Octet \X Octet \X Octet \X Octet, has_gateway : BOOLEAN]

DeviceTypeOK ==
  /\ pc \in Unbound \cup Bound
  /\ dev \in DeviceRecord
  /\ file \in BOOLEAN
  /\ table \in Seq(RouteLine)
  /\ line \in Nat

\* A descriptor is at least 0, so netdev_close's test never skips the close.
DescriptorInv ==
  /\ pc \in {"closed", "socket"} => fds = {} /\ dev.fd = -1
  /\ pc \in {"index", "bind"} => fds = {fd} /\ fd \in Nat /\ dev.fd = -1
  /\ pc \in Bound => fds = {dev.fd} /\ dev.fd \in Nat
  /\ file => pc = "line"

\* What the lines before n say of the gateway.
NoDefaultBefore(n) == \A k \in 1 .. Len(table) : k < n => ~Default(table[k])

\* While the table is scanned no line read so far is a default route; once the
\* scan is over the property holds, also while netdev_receive waits.
RouteInv ==
  /\ pc \in {"socket", "index", "bind", "mac", "ipv4", "netmask", "route", "line"} =>
       ~dev.has_gateway
  /\ pc = "line" => line <= Len(table) + 1 /\ NoDefaultBefore(line)
  /\ pc \in {"open", "poll"} =>
       IF dev.has_gateway
       THEN \E k \in 1 .. Len(table) : /\ Default(table[k]) /\ NoDefaultBefore(k)
                                       /\ dev.gateway = table[k].gateway
       ELSE line = 0 \/ NoDefaultBefore(Len(table) + 1)

DeviceInv == DeviceTypeOK /\ DescriptorInv /\ RouteInv
-----------------------------------------------------------------------------
\* The flag test of get_default_gateway asks for the two lowest bits.
LEMMA RouteMatchesDefault ==
  ASSUME NEW l \in RouteLine
  PROVE  route_matches(l) <=> Default(l)
<1>1. l.flags \in Nat
  BY DEF RouteLine
<1>2. Flag(l.flags, RTF_UP) /\ Flag(l.flags, RTF_GATEWAY) <=> l.flags % 4 = 3
  BY <1>1 DEF Flag, RTF_UP, RTF_GATEWAY
<1> QED
  BY <1>2 DEF route_matches, Default

\* Taking the kernel's integer apart gives back the bytes in network order.
LEMMA GatewayBytes ==
  ASSUME NEW a \in Octet \X Octet \X Octet \X Octet
  PROVE  gateway_bytes(KernelValue(a)) = a
<1>1. \A x, y \in Octet : (x * 256 + y) % 256 = y /\ (x * 256 + y) \div 256 = x
  BY DEF Octet
<1>2. PICK b \in Octet, c \in Octet, d \in Octet, e \in Octet : a = <<b, c, d, e>>
  OBVIOUS
<1> QED
  BY <1>1, <1>2 DEF gateway_bytes, KernelValue

\* netdev_t as memset and netdev_open leave it.
LEMMA NoDeviceType ==
  NoDevice \in DeviceRecord /\ NoDevice.fd = -1 /\ ~NoDevice.has_gateway
BY DEF NoDevice, NoAddress, DeviceRecord, Octet

\* socket returns a descriptor that is not negative.
LEMMA SocketDescriptor ==
  ASSUME fds = {}
  PROVE  Unused \in Nat
<1>1. Cardinality(fds) = 0
  BY FS_EmptySet
<1>2. 3 \in 3 .. (4 + Cardinality(fds)) /\ 3 \notin fds /\ \A m \in 3 .. (3 - 1) : m \in fds
  BY <1>1
<1> QED
  BY <1>1, <1>2 DEF Unused
-----------------------------------------------------------------------------
\* A step that leaves all the invariant speaks of alone keeps it.
LEMMA DeviceFrame ==
  ASSUME DeviceInv, UNCHANGED <<dev, fd, fds, file, table, line>>,
         \/ pc' = pc
         \/ pc \in {"open", "poll"} /\ pc' \in {"open", "poll"}
  PROVE  DeviceInv'
BY DEF DeviceInv, DeviceTypeOK, DescriptorInv, RouteInv, NoDefaultBefore, Default, Unbound, Bound

\* netdev_open up to the binding of the socket.
LEMMA OpenStep ==
  ASSUME DeviceInv, StartOpen \/ OpenSocket \/ FindIndex \/ Bind
  PROVE  DeviceInv'
<1> USE DEF DeviceInv, DeviceTypeOK, DescriptorInv, RouteInv, Unbound, Bound
<1>1. CASE StartOpen
  <2>1. CASE pc' = "socket"
    <3>1. dev' = NoDevice /\ fds' = {} /\ UNCHANGED <<file, table, line>> /\ pc = "closed"
      BY <1>1, <2>1 DEF StartOpen
    <3> QED
      BY <2>1, <3>1, NoDeviceType
  <2>2. CASE pc' # "socket"
    BY <1>1, <2>2, DeviceFrame DEF StartOpen
  <2> QED
    BY <2>1, <2>2
<1>2. CASE OpenSocket
  <2>1. Unused \in Nat
    BY <1>2, SocketDescriptor DEF OpenSocket
  <2> QED
    BY <1>2, <2>1 DEF OpenSocket
<1>3. CASE FindIndex
  BY <1>3 DEF FindIndex, CloseAndFail
<1>4. CASE Bind
  BY <1>4 DEF Bind, CloseAndFail, DeviceRecord
<1> QED
  BY <1>1, <1>2, <1>3, <1>4

\* The queries of the kernel and the way back out of each.
LEMMA AskKernelStep ==
  ASSUME DeviceInv, AskKernel
  PROVE  DeviceInv'
<1> USE DEF DeviceInv, DeviceTypeOK, DescriptorInv, RouteInv, Unbound, Bound
<1>1. pc \in {"mac", "ipv4", "netmask"}
  BY DEF AskKernel, NextStep
<1>2. CASE netdev_close /\ pc' = "closed"
  BY <1>1, <1>2 DEF AskKernel, netdev_close, DeviceRecord
<1>3. CASE pc' = NextStep[pc] /\ dev' = [dev EXCEPT !.known = @ \cup {pc}] /\ UNCHANGED fds
  <2>1. pc' \in {"ipv4", "netmask", "route"}
    BY <1>1, <1>3 DEF NextStep
  <2>2. dev.known \cup {pc} \in SUBSET {"mac", "ipv4", "netmask"}
    BY <1>1 DEF DeviceRecord
  <2>3. dev' \in DeviceRecord /\ dev'.fd = dev.fd /\ dev'.has_gateway = dev.has_gateway
    BY <1>3, <2>2 DEF DeviceRecord
  <2> QED
    BY <1>1, <1>3, <2>1, <2>3 DEF AskKernel
<1> QED
  BY <1>2, <1>3 DEF AskKernel

\* get_default_gateway: opening the table and reading one of its lines.
LEMMA RouteStep ==
  ASSUME DeviceInv, OpenRoutes \/ ReadRoute
  PROVE  DeviceInv'
<1> USE DEF DeviceInv, DeviceTypeOK, DescriptorInv, RouteInv, Unbound, Bound
<1>1. CASE OpenRoutes
  <2>1. /\ pc = "route" /\ line' = 0 /\ UNCHANGED <<dev, fd, fds, table>>
        /\ (file' = TRUE /\ pc' = "line") \/ (file' = FALSE /\ pc' = "open")
    BY <1>1 DEF OpenRoutes, Opened
  <2>2. Len(table) \in Nat /\ NoDefaultBefore(line)'
    BY <2>1 DEF NoDefaultBefore
  <2>3. ~dev'.has_gateway /\ dev'.fd \in Nat /\ fds' = {dev'.fd}
    BY <2>1
  <2>4. DeviceTypeOK' /\ DescriptorInv'
    BY <2>1, <2>3
  <2>5. RouteInv'
    BY <2>1, <2>2, <2>3
  <2> QED
    BY <2>4, <2>5
<1>2. CASE ReadRoute
  <2>1. /\ pc = "line" /\ UNCHANGED <<fd, fds, table>>
        /\ Len(table) \in Nat /\ \A k \in 1 .. Len(table) : table[k] \in RouteLine
    BY <1>2 DEF ReadRoute
  <2>2. CASE /\ line = 0 \/ line > Len(table)
             /\ Opened /\ file' = FALSE /\ UNCHANGED <<dev, line>>
    <3>1. ~dev'.has_gateway /\ pc' = "open" /\ file' = FALSE
      BY <2>1, <2>2 DEF Opened
    <3>2. line' = 0 \/ NoDefaultBefore(Len(table) + 1)'
      BY <2>1, <2>2 DEF NoDefaultBefore
    <3> QED
      BY <2>1, <2>2, <3>1, <3>2
  <2>3. CASE /\ line \in 1 .. Len(table) /\ route_matches(table[line])
             /\ Opened /\ file' = FALSE /\ UNCHANGED line
             /\ dev' = [dev EXCEPT !.has_gateway = TRUE,
                          !.gateway = gateway_bytes(KernelValue(table[line].gateway))]
    <3>1. table[line].gateway \in Octet \X Octet \X Octet \X Octet /\ Default(table[line])
      BY <2>1, <2>3, RouteMatchesDefault DEF RouteLine
    <3>2. dev' = [dev EXCEPT !.has_gateway = TRUE, !.gateway = table[line].gateway]
      BY <2>3, <3>1, GatewayBytes
    <3>3. pc' = "open" /\ dev'.fd = dev.fd /\ dev'.has_gateway
          /\ dev'.gateway = table[line].gateway
      BY <2>3, <3>2 DEF Opened, DeviceRecord
    <3>4. DeviceTypeOK' /\ DescriptorInv'
      BY <2>1, <2>3, <3>1, <3>2, <3>3 DEF DeviceRecord
    <3>5. RouteInv'
      BY <2>1, <2>3, <3>1, <3>3 DEF NoDefaultBefore, Default
    <3> QED
      BY <3>4, <3>5
  <2>4. CASE /\ line = 0 \/ (line \in 1 .. Len(table) /\ ~route_matches(table[line]))
             /\ line' = line + 1 /\ UNCHANGED <<pc, file, dev>>
    <3>1. line \in 1 .. Len(table) => ~Default(table[line])
      BY <2>1, <2>4, RouteMatchesDefault
    <3>2. NoDefaultBefore(line)' /\ line' <= Len(table) + 1
      BY <2>1, <2>4, <3>1 DEF NoDefaultBefore, Default
    <3> QED
      BY <2>1, <2>4, <3>2
  <2> QED
    BY <1>2, <2>2, <2>3, <2>4 DEF ReadRoute
<1> QED
  BY <1>1, <1>2

\* Every step keeps the invariant.
LEMMA DeviceStep ==
  ASSUME DeviceInv, [DeviceNext]_nvars
  PROVE  DeviceInv'
<1>1. ASSUME netdev_open PROVE DeviceInv'
  BY <1>1, OpenStep, AskKernelStep, RouteStep DEF netdev_open
<1>2. ASSUME netdev_send \/ StartReceive \/ PollInterrupted \/ FrameArrives \/ InterfaceFails
      PROVE  DeviceInv'
  BY <1>2, DeviceFrame
     DEF netdev_send, StartReceive, PollInterrupted, FrameArrives, InterfaceFails
<1>3. ASSUME netdev_receive PROVE DeviceInv'
  BY <1>3, DeviceFrame
     DEF netdev_receive, PollReadable, PollNothing, PollFails, PollWaits, ReturnFromReceive
<1>4. ASSUME Close PROVE DeviceInv'
  BY <1>4 DEF Close, netdev_close, DeviceRecord, DeviceInv, DeviceTypeOK, DescriptorInv, RouteInv, Unbound, Bound
<1>5. ASSUME UNCHANGED nvars PROVE DeviceInv'
  BY <1>5, DeviceFrame DEF nvars
<1> QED
  BY <1>1, <1>2, <1>3, <1>4, <1>5 DEF DeviceNext

\* The invariant holds in every reachable state.
THEOREM DeviceInvariant == DeviceSpec => []DeviceInv
<1>1. ASSUME DeviceInit PROVE DeviceInv
  <2>1. table \in Seq(RouteLine)
    BY <1>1, NetDeviceAssumption DEF DeviceInit
  <2> QED
    BY <1>1, <2>1, NoDeviceType
       DEF DeviceInit, DeviceInv, DeviceTypeOK, DescriptorInv, RouteInv, Unbound, Bound
<1>2. DeviceInv /\ [DeviceNext]_nvars => DeviceInv'
  BY DeviceStep
<1> QED
  BY <1>1, <1>2, PTL DEF DeviceSpec

\* Whichever system call of netdev_open fails, and however often the tool opens
\* and closes the device, no descriptor is leaked or closed twice.
THEOREM NoDescriptorLeaksHolds == DeviceSpec => []NoDescriptorLeaks
<1>1. DeviceInv => NoDescriptorLeaks
  BY DEF DeviceInv, DeviceTypeOK, DescriptorInv, NoDescriptorLeaks, Unbound, Bound
<1> QED
  BY <1>1, DeviceInvariant, PTL

\* The gateway is the first default route's for every route table, whatever its
\* length and wherever in it malformed lines and other routes stand.
THEOREM GatewayIsFirstDefaultRouteHolds == DeviceSpec => []GatewayIsFirstDefaultRoute
<1>1. ASSUME DeviceInv PROVE GatewayIsFirstDefaultRoute
  <2>1. Len(table) \in Nat
    BY <1>1 DEF DeviceInv, DeviceTypeOK
  <2> QED
    BY <1>1, <2>1 DEF DeviceInv, RouteInv, NoDefaultBefore, GatewayIsFirstDefaultRoute
<1> QED
  BY <1>1, DeviceInvariant, PTL
==================================================================================
