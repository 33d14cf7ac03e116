---------------------------------- MODULE Tools ----------------------------------
(***************************************************************************)
(* The command-line tools (src/tools/): netstack_ping, netstack_dns,       *)
(* netstack_tcp and the part of netstack_http before run_http.  Each opens *)
(* the device, chooses the next hop, resolves its MAC by ARP, sends one    *)
(* request and waits for the reply until a deadline, without any retry.    *)
(*                                                                         *)
(* The tools are run one after the other, against the same hosts, over a   *)
(* network that loses, repeats and delays frames: a reply to one           *)
(* invocation may arrive during a later one.  The tools keep no state      *)
(* between invocations, and ping and DNS always use the same identifiers.  *)
(*                                                                         *)
(* resolve_arp is the same loop in all four tools but for two conditions:  *)
(* ping and http look at the target of a reply, and http alone gives up    *)
(* when the device fails.                                                  *)
(***************************************************************************)
EXTENDS Integers

CONSTANTS
  Address,        \* IPv4 addresses on the network
  Block,          \* size of the local subnet: the netmask
  Self, Gateway,  \* our address and the default gateway's, 0 if there is none
  Targets,        \* addresses the tools are called with
  Isns,           \* values of generate_isn
  ArpTimeout,     \* ARP_TIMEOUT_MS, 3000
  ReplyTimeout,   \* ICMP_, DNS_ and TCP_TIMEOUT_MS, 5000
  Waits,          \* how long netdev_receive may take
  MaxRuns         \* bound: invocations

ASSUME ToolsAssumption ==
  /\ Address \subseteq Nat \ {0} /\ Self \in Address /\ Gateway \in Address \cup {0}
  /\ Targets \subseteq Address /\ Block \in Nat \ {0}
  /\ Isns \subseteq Nat
  /\ ArpTimeout \in Nat /\ ReplyTimeout \in Nat /\ Waits \subseteq Nat
  /\ MaxRuns \in Nat

Tool == {"ping", "dns", "tcp", "http"}

VARIABLES
  phase,          \* "idle" between invocations, "arp", "exchange"
  tool, target,   \* the tool that runs and its argument
  run,            \* number of invocations so far
  clock,          \* since the loop's start
  next_hop_mac,   \* the address whose MAC has been learned, 0 before
  client_isn,
  exit,           \* the process's exit status
  \* History: the IPv4 frames sent, and the frame that ended the last wait.
  sent, accepted

tvars == <<phase, tool, target, run, clock, next_hop_mac, client_isn, exit, sent, accepted>>

NoFrame == [from |-> 0, to |-> 0, proto |-> "none", valid |-> FALSE, kind |-> "none",
            run |-> 0, isn |-> 0]

ToolsInit ==
  /\ phase = "idle" /\ tool = "ping" /\ target \in Targets /\ run = 0 /\ clock = 0
  /\ next_hop_mac = 0 /\ client_isn = 0 /\ exit = 0
  /\ sent = {} /\ accepted = NoFrame
-----------------------------------------------------------------------------
netdev_ipv4_is_local(ip) == ip \div Block = Self \div Block

NextHop(ip) == IF netdev_ipv4_is_local(ip) THEN ip ELSE Gateway

\* main closes the device and exits; every failure is status 1.
Exit(status) == phase' = "idle" /\ exit' = status

\* The first half of resolve_arp.
ArpRequest(ip) == NextHop(ip) # 0 /\ phase' = "arp" /\ UNCHANGED exit

\* main, up to and including the ARP request.  Opening the device, finding a
\* gateway and sending may fail.
Start(t, ip) ==
  /\ phase = "idle" /\ run < MaxRuns
  /\ tool' = t /\ target' = ip /\ run' = run + 1
  /\ clock' = 0 /\ next_hop_mac' = 0 /\ client_isn' = 0 /\ accepted' = NoFrame
  /\ ArpRequest(ip) \/ Exit(1)
  /\ UNCHANGED sent

\* Fault: the wait for the reply has no deadline.
TimedOutInArpOnly ==
  /\ phase = "arp" /\ clock > ArpTimeout
  /\ Exit(1)
  /\ UNCHANGED <<tool, target, run, clock, next_hop_mac, client_isn, sent, accepted>>

TimedOut ==
  /\ \/ phase = "arp" /\ clock > ArpTimeout
     \/ phase = "exchange" /\ clock > ReplyTimeout
  /\ Exit(1)
  /\ UNCHANGED <<tool, target, run, clock, next_hop_mac, client_isn, sent, accepted>>

\* Within the deadline of the loop the tool is in; http's own is elsewhere.
Waiting ==
  \/ phase = "arp" /\ clock <= ArpTimeout
  \/ phase = "exchange" /\ tool # "http" /\ clock <= ReplyTimeout

\* Nothing arrives, or a frame the filters drop; for all but http also a
\* device that fails.
NothingArrives(d) ==
  /\ Waiting
  /\ clock' = clock + d
  /\ UNCHANGED <<phase, tool, target, run, next_hop_mac, client_isn, exit, sent, accepted>>

DeviceFails ==
  /\ Waiting /\ tool = "http"
  /\ Exit(1)
  /\ UNCHANGED <<tool, target, run, clock, next_hop_mac, client_isn, sent, accepted>>
-----------------------------------------------------------------------------
(***************************************************************************)
(* resolve_arp.  A host answers with its own MAC, for which the model uses *)
(* its address; replies to other hosts' requests are seen too.             *)
(***************************************************************************)
\* Fault: any reply will do.
arp_reply_unchecked(sender, to) == to = Self

arp_reply_matches(sender, to) ==
  /\ sender = NextHop(target)
  /\ tool \in {"ping", "http"} => to = Self

Frame(kind, isn) ==
  [run |-> run, tool |-> tool, ip |-> target, mac |-> next_hop_mac', kind |-> kind, isn |-> isn]

\* One echo request, DNS query or SYN; http goes on to run_http.
SendRequest ==
  \/ /\ phase' = "exchange" /\ UNCHANGED exit
     /\ sent' = IF tool = "http" THEN sent ELSE sent \cup {Frame("request", client_isn')}
  \/ /\ tool # "http" /\ Exit(1)
     /\ UNCHANGED sent

\* The MAC is known: the request follows at once.  The initial sequence
\* number is a hash of the time; two invocations are taken to differ in it.
ArpReply(sender, to) ==
  /\ phase = "arp" /\ Waiting
  /\ arp_reply_matches(sender, to)
  /\ next_hop_mac' = sender
  /\ clock' = 0
  /\ IF tool = "tcp"
     THEN \E i \in Isns \ {f.isn : f \in sent} : client_isn' = i
     ELSE UNCHANGED client_isn
  /\ SendRequest
  /\ UNCHANGED <<tool, target, run, accepted>>
-----------------------------------------------------------------------------
(***************************************************************************)
(* The wait for the reply.                                                 *)
(***************************************************************************)
Kinds == [ping |-> {"reply"}, dns |-> {"answer", "error"}, tcp |-> {"SYN-ACK", "RST", "ACK"}]

\* External: a reply answers some request that was sent, by this or by an
\* earlier invocation; other traffic may come from and go to anyone.
Replies ==
  {[from |-> f.ip, to |-> Self, proto |-> f.tool, valid |-> v, kind |-> k, run |-> f.run,
    isn |-> f.isn] : f \in {g \in sent : g.kind = "request"}, v \in BOOLEAN,
                     k \in UNION {Kinds[t] : t \in {"ping", "dns", "tcp"}}}

OtherTraffic ==
  [from : Address, to : Address, proto : {"ping", "dns"}, valid : {TRUE},
   kind : {"reply", "answer"}, run : {0}, isn : {0}]

Network == {f \in Replies \cup {f \in OtherTraffic : f.from \notin Targets \/ f.to # Self} :
              f.kind \in Kinds[f.proto]}

\* Fault: the sender of the reply is not compared with the target.
ip_reply_from_anyone(f) == f.proto = tool /\ f.valid /\ f.to = Self

\* Protocol, addresses, checksum and ports or identifiers.
ip_reply_matches(f) == f.proto = tool /\ f.valid /\ f.from = target /\ f.to = Self

Accept(f, status) ==
  /\ Exit(status)
  /\ accepted' = f
  /\ UNCHANGED <<tool, target, run, clock, next_hop_mac, client_isn>>

\* send_ping: identifier and sequence number are the same every time.
PingReply(f) ==
  /\ phase = "exchange" /\ tool = "ping" /\ Waiting
  /\ ip_reply_matches(f)
  /\ Accept(f, 0)
  /\ UNCHANGED sent

\* send_dns_query: so is the transaction identifier.
DnsReply(f) ==
  /\ phase = "exchange" /\ tool = "dns" /\ Waiting
  /\ ip_reply_matches(f)
  /\ Accept(f, IF f.kind = "answer" THEN 0 ELSE 1)
  /\ UNCHANGED sent

\* Fault: any SYN-ACK of the server's port is taken.
ack_unchecked(f) == f.kind = "SYN-ACK"

\* wait_for_syn_ack: the acknowledgment number is client_isn + 1.
ack_matches(f) == f.kind = "SYN-ACK" /\ f.isn = client_isn

\* A RST ends the wait whatever it acknowledges.
TcpReset(f) ==
  /\ phase = "exchange" /\ tool = "tcp" /\ Waiting
  /\ ip_reply_matches(f) /\ f.kind = "RST"
  /\ Accept(f, 1)
  /\ UNCHANGED sent

\* perform_handshake: the ACK, which must be sent, and a RST, which may fail.
TcpSynAck(f) ==
  /\ phase = "exchange" /\ tool = "tcp" /\ Waiting
  /\ ip_reply_matches(f) /\ ack_matches(f)
  /\ LET ack == [Frame("ACK", client_isn) EXCEPT !.mac = next_hop_mac]
         rst == [ack EXCEPT !.kind = "RST"]
     IN  \/ Accept(f, 0) /\ sent' \in {sent \cup {ack, rst}, sent \cup {ack}}
         \/ Accept(f, 1) /\ UNCHANGED sent

\* run_http (module HttpClient) returns.
HttpReturns ==
  /\ phase = "exchange" /\ tool = "http"
  /\ \E status \in {0, 1} : Exit(status)
  /\ UNCHANGED <<tool, target, run, clock, next_hop_mac, client_isn, sent, accepted>>
-----------------------------------------------------------------------------
Reply == \E f \in Network : PingReply(f) \/ DnsReply(f) \/ TcpReset(f) \/ TcpSynAck(f)

ToolsNext ==
  \/ \E t \in Tool, ip \in Targets : Start(t, ip)
  \/ TimedOut \/ DeviceFails \/ HttpReturns
  \/ \E d \in Waits : NothingArrives(d)
  \/ \E sender \in Address, to \in Address : ArpReply(sender, to)
  \/ Reply

ToolsSpec == ToolsInit /\ [][ToolsNext]_tvars
-----------------------------------------------------------------------------
(***************************************************************************)
(* Properties.                                                             *)
(***************************************************************************)
\* Every IPv4 frame of every invocation carries the MAC of the host itself if
\* it is local and of the gateway if not, although ARP replies meant for
\* other hosts, and from other hosts, arrive during resolve_arp.
SentToNextHop == \A f \in sent : f.mac = NextHop(f.ip)

\* Success rests on a reply, from the host asked, to a request of the same
\* tool to that host.
AnswerIsFromTarget ==
  (phase = "idle" /\ run > 0 /\ exit = 0 /\ tool # "http") =>
    /\ accepted.from = target
    /\ \E f \in sent : f.run = accepted.run /\ f.tool = tool /\ f.ip = target

\* netstack_tcp takes only the SYN-ACK of its own SYN: one that was delayed
\* from an earlier invocation on the same ports is passed over.
HandshakeIsFresh ==
  (phase = "idle" /\ tool = "tcp" /\ accepted.kind = "SYN-ACK") => accepted.run = run

(***************************************************************************)
(* Fairness: a process runs, and its clock advances while it waits.        *)
(***************************************************************************)
FairToolsSpec ==
  /\ ToolsSpec
  /\ WF_tvars(TimedOut) /\ WF_tvars(HttpReturns)
  /\ []<>Waiting => []<><<clock' > clock>>_tvars

\* Every invocation ends, by a reply or at a deadline, however many frames
\* that the filters drop arrive meanwhile (resolve_arp and the reply loops).
ToolEnds == (phase # "idle") ~> (phase = "idle")
==================================================================================
