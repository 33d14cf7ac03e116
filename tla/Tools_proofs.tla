------------------------------- MODULE Tools_proofs -------------------------------
(***************************************************************************)
(* What the tools send and what they take for an answer, for any hosts,    *)
(* any subnet, any number of invocations and any delay or repetition of    *)
(* the replies to earlier ones.                                            *)
(***************************************************************************)
EXTENDS Tools, TLAPS

SentFrame == [run : Nat, tool : Tool, ip : Targets, mac : Int, kind : {"request", "ACK", "RST"},
              isn : Nat]

ToolsTypeOK ==
  /\ phase \in {"idle", "arp", "exchange"}
  /\ tool \in Tool /\ target \in Targets /\ run \in Nat
  /\ client_isn \in Nat
  /\ sent \subseteq SentFrame

\* The MAC with which the request was sent is still the next hop's when the
\* handshake's ACK and RST follow.
NextHopKnown == phase = "exchange" => next_hop_mac = NextHop(target)

\* An initial sequence number belongs to one invocation only.
IsnsDistinct ==
  \A f, g \in sent : f.tool = "tcp" /\ g.tool = "tcp" /\ f.isn = g.isn => f.run = g.run

\* While a tool waits for a reply, its own request is on the network.
RequestSent ==
  phase = "exchange" /\ tool # "http" =>
    \E f \in sent : f.run = run /\ f.tool = tool /\ f.isn = client_isn

\* Nothing is accepted before the exchange is over.
NothingAcceptedYet == phase # "idle" => accepted = NoFrame

ToolsInv ==
  /\ ToolsTypeOK
  /\ NextHopKnown /\ IsnsDistinct /\ RequestSent /\ NothingAcceptedYet
  /\ SentToNextHop /\ AnswerIsFromTarget /\ HandshakeIsFresh
-----------------------------------------------------------------------------
\* A next hop is an address, or 0 for a gateway that is missing.
LEMMA NextHopType ==
  ASSUME NEW ip \in Targets
  PROVE  NextHop(ip) \in Int
BY ToolsAssumption DEF NextHop

\* A frame that passes the filter of the tool answers a request of the same
\* tool to the same host, made by this or an earlier invocation: other traffic
\* is addressed to somebody else, or comes from a host nobody asks.
LEMMA MatchAnswersRequest ==
  ASSUME ToolsTypeOK, NEW f \in Network, ip_reply_matches(f)
  PROVE  \E g \in sent : f.run = g.run /\ f.isn = g.isn /\ g.tool = tool /\ g.ip = target
<1>1. f.from = target /\ f.to = Self /\ f.proto = tool
  BY DEF ip_reply_matches
<1>2. f \in Replies
  BY <1>1 DEF Network, ToolsTypeOK
<1> QED
  BY <1>1, <1>2 DEF Replies

\* A step that neither sends nor accepts anything and does not enter the
\* exchange keeps the invariant if it ends no invocation successfully.
LEMMA QuietToolStep ==
  ASSUME ToolsInv, UNCHANGED <<tool, target, run, next_hop_mac, client_isn, sent, accepted>>,
         \/ UNCHANGED <<phase, exit>>
         \/ phase # "idle" /\ phase' = "idle" /\ (exit' = 1 \/ tool = "http")
  PROVE  ToolsInv'
<1>1. CASE UNCHANGED <<phase, exit>>
  BY <1>1 DEF ToolsInv, ToolsTypeOK, NextHopKnown, IsnsDistinct, RequestSent, NothingAcceptedYet,
              SentToNextHop, AnswerIsFromTarget, HandshakeIsFresh, NextHop, netdev_ipv4_is_local
<1>2. CASE phase # "idle" /\ phase' = "idle" /\ (exit' = 1 \/ tool = "http")
  <2>1. accepted.kind = "none"
    BY <1>2 DEF ToolsInv, NothingAcceptedYet, NoFrame
  <2> QED
    BY <1>2, <2>1
       DEF ToolsInv, ToolsTypeOK, NextHopKnown, IsnsDistinct, RequestSent, NothingAcceptedYet,
           SentToNextHop, AnswerIsFromTarget, HandshakeIsFresh, NextHop, netdev_ipv4_is_local
<1> QED
  BY <1>1, <1>2

\* A new invocation starts from nothing but the frames on the network.
LEMMA StartStep ==
  ASSUME ToolsInv, NEW t \in Tool, NEW ip \in Targets, Start(t, ip)
  PROVE  ToolsInv'
<1>1. /\ phase' \in {"arp", "idle"} /\ (phase' = "idle" => exit' = 1)
      /\ tool' = t /\ target' = ip /\ run' = run + 1 /\ client_isn' = 0
      /\ accepted' = NoFrame /\ UNCHANGED sent
  BY DEF Start, ArpRequest, Exit
<1>2. accepted'.kind = "none"
  BY <1>1 DEF NoFrame
<1> QED
  BY <1>1, <1>2
     DEF ToolsInv, ToolsTypeOK, NextHopKnown, IsnsDistinct, RequestSent, NothingAcceptedYet,
         SentToNextHop, AnswerIsFromTarget, HandshakeIsFresh, NextHop, netdev_ipv4_is_local

\* The ARP reply and the request that follows it.
LEMMA ArpReplyStep ==
  ASSUME ToolsInv, NEW sender \in Address, NEW to \in Address, ArpReply(sender, to)
  PROVE  ToolsInv'
<1> DEFINE new == [run |-> run, tool |-> tool, ip |-> target, mac |-> NextHop(target),
                   kind |-> "request", isn |-> client_isn']
<1>1. /\ phase = "arp" /\ next_hop_mac' = NextHop(target)
      /\ UNCHANGED <<tool, target, run, accepted>> /\ accepted = NoFrame
  BY DEF ArpReply, arp_reply_matches, ToolsInv, NothingAcceptedYet
<1>2. /\ client_isn' \in Nat
      /\ tool = "tcp" => \A f \in sent : f.isn # client_isn'
  BY ToolsAssumption DEF ArpReply, ToolsInv, ToolsTypeOK
<1>3. \/ phase' = "exchange" /\ tool = "http" /\ UNCHANGED sent
      \/ phase' = "exchange" /\ tool # "http" /\ sent' = sent \cup {new}
      \/ phase' = "idle" /\ exit' = 1 /\ UNCHANGED sent
  BY <1>1 DEF ArpReply, SendRequest, Exit, Frame
<1>4. /\ new \in SentFrame /\ new.mac = NextHop(new.ip) /\ new.run = run /\ new.tool = tool
      /\ new.isn = client_isn' /\ new.ip = target
  BY <1>2, NextHopType DEF SentFrame, ToolsInv, ToolsTypeOK
<1> HIDE DEF new
<1>5. ToolsTypeOK' /\ NextHopKnown' /\ NothingAcceptedYet'
  BY <1>1, <1>2, <1>3, <1>4
     DEF ToolsInv, ToolsTypeOK, NextHopKnown, NothingAcceptedYet, NextHop, netdev_ipv4_is_local
<1>6. IsnsDistinct'
  BY <1>1, <1>2, <1>3, <1>4 DEF ToolsInv, IsnsDistinct
<1>7. RequestSent'
  BY <1>1, <1>3, <1>4 DEF RequestSent
<1>8. SentToNextHop'
  BY <1>3, <1>4 DEF ToolsInv, SentToNextHop, NextHop, netdev_ipv4_is_local
<1>9. AnswerIsFromTarget' /\ HandshakeIsFresh'
  BY <1>1, <1>3 DEF AnswerIsFromTarget, HandshakeIsFresh, NoFrame
<1> QED
  BY <1>5, <1>6, <1>7, <1>8, <1>9 DEF ToolsInv

\* What ends a wait: a reply that matches, of this or an earlier invocation.
LEMMA AcceptStep ==
  ASSUME ToolsInv, NEW f \in Network, NEW status \in {0, 1},
         phase = "exchange", tool # "http", ip_reply_matches(f), Accept(f, status),
         tool = "tcp" /\ f.kind = "SYN-ACK" => f.isn = client_isn,
         sent \subseteq sent',
         \A g \in sent' \ sent : /\ g \in SentFrame /\ g.mac = NextHop(g.ip)
                                 /\ g.run = run /\ g.tool = tool /\ g.isn = client_isn
  PROVE  ToolsInv'
<1>1. /\ phase' = "idle" /\ accepted' = f
      /\ UNCHANGED <<tool, target, run, next_hop_mac, client_isn>>
  BY DEF Accept, Exit
<1>2. PICK g \in sent : f.run = g.run /\ f.isn = g.isn /\ g.tool = tool /\ g.ip = target
  BY MatchAnswersRequest DEF ToolsInv
<1>3. PICK h \in sent : h.run = run /\ h.tool = tool /\ h.isn = client_isn
  BY DEF ToolsInv, RequestSent
<1>4. ToolsTypeOK' /\ NextHopKnown' /\ RequestSent' /\ NothingAcceptedYet'
  BY <1>1 DEF ToolsInv, ToolsTypeOK, NextHopKnown, RequestSent, NothingAcceptedYet
<1>5. IsnsDistinct'
  BY <1>1, <1>3 DEF ToolsInv, IsnsDistinct
<1>6. SentToNextHop'
  BY DEF ToolsInv, SentToNextHop, NextHop, netdev_ipv4_is_local
<1>7. AnswerIsFromTarget'
  BY <1>1, <1>2 DEF AnswerIsFromTarget, ip_reply_matches
<1>8. HandshakeIsFresh'
  BY <1>1, <1>2, <1>3 DEF ToolsInv, IsnsDistinct, HandshakeIsFresh
<1> QED
  BY <1>4, <1>5, <1>6, <1>7, <1>8 DEF ToolsInv

\* The replies of all three protocols.
LEMMA ReplyStep ==
  ASSUME ToolsInv, Reply
  PROVE  ToolsInv'
<1>1. PICK f \in Network : PingReply(f) \/ DnsReply(f) \/ TcpReset(f) \/ TcpSynAck(f)
  BY DEF Reply
<1>2. CASE PingReply(f)
  BY <1>2, AcceptStep DEF PingReply
<1>3. CASE DnsReply(f)
  BY <1>3, AcceptStep DEF DnsReply
<1>4. CASE TcpReset(f)
  BY <1>4, AcceptStep DEF TcpReset
<1>5. CASE TcpSynAck(f)
  <2> DEFINE ack == [run |-> run, tool |-> tool, ip |-> target, mac |-> next_hop_mac,
                     kind |-> "ACK", isn |-> client_isn]
             rst == [run |-> run, tool |-> tool, ip |-> target, mac |-> next_hop_mac,
                     kind |-> "RST", isn |-> client_isn]
  <2>1. [Frame("ACK", client_isn) EXCEPT !.mac = next_hop_mac] = ack
    BY DEF Frame
  <2>2. [ack EXCEPT !.kind = "RST"] = rst
    OBVIOUS
  <2>3. /\ phase = "exchange" /\ tool = "tcp" /\ ip_reply_matches(f) /\ f.isn = client_isn
        /\ \/ Accept(f, 0) /\ sent' \in {sent \cup {ack, rst}, sent \cup {ack}}
           \/ Accept(f, 1) /\ UNCHANGED sent
    BY <1>5, <2>1, <2>2 DEF TcpSynAck, ack_matches
  <2>4. next_hop_mac = NextHop(target) /\ next_hop_mac \in Int
    BY <2>3, NextHopType DEF ToolsInv, ToolsTypeOK, NextHopKnown
  <2>5. \A g \in {ack, rst} : /\ g \in SentFrame /\ g.mac = NextHop(g.ip)
                              /\ g.run = run /\ g.tool = tool /\ g.isn = client_isn
    BY <2>4 DEF SentFrame, ToolsInv, ToolsTypeOK
  <2> HIDE DEF ack, rst
  <2> QED
    BY <2>3, <2>5, AcceptStep
<1> QED
  BY <1>1, <1>2, <1>3, <1>4, <1>5

\* Every step keeps the invariant.
LEMMA ToolsStep ==
  ASSUME ToolsInv, [ToolsNext]_tvars
  PROVE  ToolsInv'
<1>1. ASSUME NEW t \in Tool, NEW ip \in Targets, Start(t, ip) PROVE ToolsInv'
  BY <1>1, StartStep
<1>2. ASSUME TimedOut \/ DeviceFails \/ HttpReturns PROVE ToolsInv'
  BY <1>2, QuietToolStep DEF TimedOut, DeviceFails, HttpReturns, Waiting, Exit
<1>3. ASSUME NEW d \in Waits, NothingArrives(d) PROVE ToolsInv'
  BY <1>3, QuietToolStep DEF NothingArrives
<1>4. ASSUME NEW sender \in Address, NEW to \in Address, ArpReply(sender, to) PROVE ToolsInv'
  BY <1>4, ArpReplyStep
<1>5. ASSUME UNCHANGED tvars PROVE ToolsInv'
  BY <1>5, QuietToolStep DEF tvars
<1> QED
  BY <1>1, <1>2, <1>3, <1>4, <1>5, ReplyStep DEF ToolsNext

\* The invariant holds in every reachable state.
THEOREM ToolsInvariant == ToolsSpec => []ToolsInv
<1>1. ToolsInit => ToolsInv
  BY DEF ToolsInit, ToolsInv, ToolsTypeOK, Tool, NextHopKnown, IsnsDistinct, RequestSent,
         NothingAcceptedYet, SentToNextHop, AnswerIsFromTarget, HandshakeIsFresh, NoFrame
<1>2. ToolsInv /\ [ToolsNext]_tvars => ToolsInv'
  BY ToolsStep
<1> QED
  BY <1>1, <1>2, PTL DEF ToolsSpec

\* No tool ever sends an IPv4 frame to a MAC other than its next hop's,
\* whatever ARP replies the network carries.
THEOREM SentToNextHopHolds == ToolsSpec => []SentToNextHop
BY ToolsInvariant, PTL DEF ToolsInv

\* A tool succeeds only on a reply of the host it asked to a request of its own
\* protocol, though delayed replies and other hosts' traffic arrive meanwhile.
THEOREM AnswerIsFromTargetHolds == ToolsSpec => []AnswerIsFromTarget
BY ToolsInvariant, PTL DEF ToolsInv

\* netstack_tcp completes its handshake with this invocation's SYN-ACK only.
THEOREM HandshakeIsFreshHolds == ToolsSpec => []HandshakeIsFresh
BY ToolsInvariant, PTL DEF ToolsInv
==================================================================================
