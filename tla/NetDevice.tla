-------------------------------- MODULE NetDevice --------------------------------
(***************************************************************************)
(* The network device (src/src/netdev_linux.c): netdev_open, its system    *)
(* calls one by one and its way back out of each, the scan of              *)
(* /proc/net/route for the default gateway, netdev_send, the wait of       *)
(* netdev_receive, and netdev_close.  The kernel is external: every call   *)
(* may fail, the interface may go down, a signal may interrupt a wait.     *)
(*                                                                         *)
(* A packet socket delivers the frames of every interface until it is      *)
(* bound, and those it has queued by then stay in its queue.               *)
(***************************************************************************)
EXTENDS Integers, Sequences, FiniteSets

CONSTANTS
  Interface,       \* the name netdev_open is called with
  RouteTables,     \* sequences of lines: [parsed, iface, destination, gateway, flags]
  Timeout,         \* timeout_ms of netdev_receive
  MaxFrames,       \* bound: frames queued
  MaxInterrupts,   \* bound: signals during one wait
  MaxOpens         \* bound: calls of netdev_open

\* A line as sscanf reads it, its addresses in network order.
Octet     == 0 .. 255
RouteLine == [parsed : BOOLEAN, iface : STRING, destination : Nat,
              gateway : Octet \X Octet \X Octet \X Octet, flags : Nat]

ASSUME NetDeviceAssumption ==
  /\ RouteTables \subseteq Seq(RouteLine)
  /\ Timeout \in Nat /\ MaxFrames \in Nat /\ MaxInterrupts \in Nat /\ MaxOpens \in Nat

RTF_UP      == 1
RTF_GATEWAY == 2
NoAddress   == <<0, 0, 0, 0>>

VARIABLES
  pc,            \* "closed", the step of netdev_open, "open", or "poll" in netdev_receive
  opens,
  fd,            \* netdev_open's local descriptor
  dev,           \* netdev_t: fd, addresses known, gateway, has_gateway
  fds,           \* the process's open descriptors, standard streams aside
  file,          \* /proc/net/route is open
  table, line,   \* its lines and the next one to read; 0 is the heading
  queue,         \* the socket's: the interface each frame came from
  condition,     \* of the interface: "up", "down", "broken"
  clock, interrupts,   \* time since poll was called, signals during the wait
  result         \* what the last call returned

nvars == <<pc, opens, fd, dev, fds, file, table, line, queue, condition, clock, interrupts, result>>

NoDevice == [fd |-> -1, known |-> {}, gateway |-> NoAddress, has_gateway |-> FALSE]

DeviceInit ==
  /\ pc = "closed" /\ opens = 0 /\ fd = -1 /\ dev = NoDevice /\ fds = {}
  /\ file = FALSE /\ table \in RouteTables /\ line = 0
  /\ queue = <<>> /\ condition = "up" /\ clock = 0 /\ interrupts = 0 /\ result = 0
-----------------------------------------------------------------------------
Unused == CHOOSE n \in 3 .. (4 + Cardinality(fds)) :
            n \notin fds /\ \A m \in 3 .. (n - 1) : m \in fds

\* A name too long for ifreq is refused before dev is touched.
StartOpen ==
  /\ pc = "closed" /\ opens < MaxOpens
  /\ opens' = opens + 1
  /\ \/ pc' = "socket" /\ dev' = NoDevice /\ UNCHANGED result
     \/ result' = -1 /\ UNCHANGED <<pc, dev>>
  /\ UNCHANGED <<fd, fds, file, table, line, queue, condition, clock, interrupts>>

OpenSocket ==
  /\ pc = "socket"
  /\ \/ /\ fd' = Unused /\ fds' = fds \cup {Unused} /\ pc' = "index" /\ UNCHANGED result
     \/ /\ pc' = "closed" /\ result' = -1 /\ UNCHANGED <<fd, fds>>
  /\ queue' = <<>>
  /\ UNCHANGED <<opens, dev, file, table, line, condition, clock, interrupts>>

\* Fault: the descriptor is not closed.
FailWithoutClose ==
  /\ pc' = "closed" /\ result' = -1
  /\ UNCHANGED <<fd, dev, fds>>

CloseAndFail ==
  /\ pc' = "closed" /\ result' = -1 /\ fds' = fds \ {fd}
  /\ UNCHANGED <<fd, dev>>

FindIndex ==
  /\ pc = "index"
  /\ \/ pc' = "bind" /\ UNCHANGED <<fd, dev, fds, result>>
     \/ CloseAndFail
  /\ UNCHANGED <<opens, file, table, line, queue, condition, clock, interrupts>>

Bind ==
  /\ pc = "bind"
  /\ \/ pc' = "mac" /\ dev' = [dev EXCEPT !.fd = fd] /\ UNCHANGED <<fd, fds, result>>
     \/ CloseAndFail
  /\ UNCHANGED <<opens, file, table, line, queue, condition, clock, interrupts>>

netdev_close ==
  /\ fds' = IF dev.fd >= 0 THEN fds \ {dev.fd} ELSE fds
  /\ dev' = [dev EXCEPT !.fd = -1]

NextStep == [mac |-> "ipv4", ipv4 |-> "netmask", netmask |-> "route"]

\* get_interface_mac, get_interface_ipv4 and get_interface_netmask.
AskKernel ==
  /\ pc \in DOMAIN NextStep
  /\ \/ /\ pc' = NextStep[pc] /\ dev' = [dev EXCEPT !.known = @ \cup {pc}]
        /\ UNCHANGED <<fds, result>>
     \/ /\ netdev_close
        /\ pc' = "closed" /\ result' = -1
  /\ UNCHANGED <<opens, fd, file, table, line, queue, condition, clock, interrupts>>
-----------------------------------------------------------------------------
(***************************************************************************)
(* get_default_gateway.  The kernel writes an address as the integer that  *)
(* its four bytes are on a little-endian machine, in two 16-bit halves     *)
(* here.                                                                   *)
(***************************************************************************)
KernelValue(a) == <<a[4] * 256 + a[3], a[2] * 256 + a[1]>>

gateway_bytes(value) ==
  <<value[2] % 256, value[2] \div 256, value[1] % 256, value[1] \div 256>>

Flag(flags, f) == (flags \div f) % 2 = 1

\* Fault: a default route that leads through no gateway is taken.
route_matches_any_default(l) ==
  l.parsed /\ l.iface = Interface /\ l.destination = 0 /\ Flag(l.flags, RTF_UP)

route_matches(l) ==
  /\ l.parsed /\ l.iface = Interface /\ l.destination = 0
  /\ Flag(l.flags, RTF_UP) /\ Flag(l.flags, RTF_GATEWAY)

Opened == pc' = "open" /\ result' = 0

OpenRoutes ==
  /\ pc = "route" /\ line' = 0
  /\ \/ file' = TRUE /\ pc' = "line" /\ UNCHANGED result
     \/ Opened /\ UNCHANGED file
  /\ UNCHANGED <<opens, fd, dev, fds, table, queue, condition, clock, interrupts>>

\* The heading is line 0, and may be missing; the first match ends the scan.
ReadRoute ==
  /\ pc = "line"
  /\ \/ /\ line = 0 \/ line > Len(table)
        /\ Opened /\ file' = FALSE
        /\ UNCHANGED <<dev, line>>
     \/ /\ line \in 1 .. Len(table) /\ route_matches(table[line])
        /\ Opened /\ file' = FALSE
        /\ dev' = [dev EXCEPT !.has_gateway = TRUE,
                              !.gateway = gateway_bytes(KernelValue(table[line].gateway))]
        /\ UNCHANGED line
     \/ /\ line = 0 \/ (line \in 1 .. Len(table) /\ ~route_matches(table[line]))
        /\ line' = line + 1
        /\ UNCHANGED <<pc, result, file, dev>>
  /\ UNCHANGED <<opens, fd, fds, table, queue, condition, clock, interrupts>>
-----------------------------------------------------------------------------
netdev_send ==
  /\ pc = "open"
  /\ result' \in IF condition = "up" THEN {-1, 1} ELSE {-1}
  /\ UNCHANGED <<pc, opens, fd, dev, fds, file, table, line, queue, condition, clock, interrupts>>

StartReceive ==
  /\ pc = "open" /\ dev.fd >= 0
  /\ pc' = "poll" /\ clock' = 0 /\ interrupts' = 0
  /\ UNCHANGED <<opens, fd, dev, fds, file, table, line, queue, condition, result>>

ReturnFromReceive(r) ==
  /\ pc' = "open" /\ result' = r
  /\ UNCHANGED <<opens, fd, dev, fds, file, table, line, condition, clock, interrupts>>

\* An interface that went down makes recv fail, once or again.
PollReadable ==
  /\ pc = "poll" /\ queue # <<>> /\ condition # "broken"
  /\ \/ queue' = Tail(queue) /\ ReturnFromReceive(1)
     \/ condition = "down" /\ ReturnFromReceive(-1) /\ UNCHANGED queue

\* Nothing to read: the time is over, or another event ends the wait at once.
PollNothing ==
  /\ pc = "poll" /\ queue = <<>>
  /\ \/ condition = "up" /\ clock = Timeout
     \/ condition = "down"
  /\ ReturnFromReceive(0) /\ UNCHANGED queue

\* Fault: poll is repeated whatever it failed for.
PollFailsAgain ==
  pc = "poll" /\ condition = "broken" /\ UNCHANGED nvars

PollFails ==
  /\ pc = "poll" /\ condition = "broken"
  /\ ReturnFromReceive(-1) /\ UNCHANGED queue

\* EINTR: poll starts again, with all of its time.
PollInterrupted ==
  /\ pc = "poll" /\ interrupts < MaxInterrupts
  /\ interrupts' = interrupts + 1 /\ clock' = 0
  /\ UNCHANGED <<pc, opens, fd, dev, fds, file, table, line, queue, condition, result>>

PollWaits ==
  /\ pc = "poll" /\ queue = <<>> /\ condition = "up" /\ clock < Timeout
  /\ clock' = clock + 1
  /\ UNCHANGED <<pc, opens, fd, dev, fds, file, table, line, queue, condition, interrupts, result>>

netdev_receive == PollReadable \/ PollNothing \/ PollFails \/ PollWaits

Close ==
  /\ pc = "open" /\ netdev_close
  /\ pc' = "closed"
  /\ UNCHANGED <<opens, fd, file, table, line, queue, condition, clock, interrupts, result>>
-----------------------------------------------------------------------------
\* Before bind, frames of any interface are queued.
FrameArrives ==
  /\ fds # {} /\ Len(queue) < MaxFrames /\ condition = "up"
  /\ \E iface \in IF dev.fd >= 0 THEN {Interface} ELSE {Interface, "other"} :
       queue' = Append(queue, iface)
  /\ UNCHANGED <<pc, opens, fd, dev, fds, file, table, line, condition, clock, interrupts, result>>

InterfaceFails ==
  /\ condition = "up" /\ condition' \in {"down", "broken"}
  /\ UNCHANGED <<pc, opens, fd, dev, fds, file, table, line, queue, clock, interrupts, result>>

netdev_open == \/ StartOpen \/ OpenSocket \/ FindIndex \/ Bind \/ AskKernel
               \/ OpenRoutes \/ ReadRoute

DeviceNext ==
  \/ netdev_open \/ netdev_send \/ StartReceive \/ netdev_receive \/ PollInterrupted \/ Close
  \/ FrameArrives \/ InterfaceFails

\* A call under way goes on; nothing obliges the tool to make one.
DeviceSpec == DeviceInit /\ [][DeviceNext]_nvars /\ WF_nvars(netdev_receive)
-----------------------------------------------------------------------------
\* However many calls of netdev_open fail, and at whatever step, the process
\* holds one descriptor while a device is being opened or is open, the one the
\* device knows once it is bound, and none otherwise; the route file is open
\* only while it is read.
NoDescriptorLeaks ==
  /\ CASE pc \in {"closed", "socket"} -> fds = {} /\ dev.fd = -1
       [] pc \in {"index", "bind"}    -> fds = {fd} /\ dev.fd = -1
       [] OTHER                       -> fds = {dev.fd}
  /\ file => pc = "line"

Default(l) == l.parsed /\ l.iface = Interface /\ l.destination = 0 /\ l.flags % 4 = 3

\* An open device's gateway is that of the first default route of its own
\* interface that is up and has one, its bytes in network order, and it has none
\* only if there is no such route or the table could not be read; routes of other
\* interfaces, other destinations and malformed lines do not count.
GatewayIsFirstDefaultRoute ==
  LET defaults == {k \in 1 .. Len(table) : Default(table[k])}
  IN  pc = "open" =>
        IF dev.has_gateway
        THEN \E k \in defaults : /\ dev.gateway = table[k].gateway
                                 /\ \A j \in defaults : k <= j
        ELSE line = 0 \/ defaults = {}

\* A wait ends, also when the interface goes away or poll keeps failing: only
\* signals prolong it.
ReceiveReturns == (pc = "poll") ~> (pc = "open")
=================================================================================
