------------------------------- MODULE HttpClient -------------------------------
(***************************************************************************)
(* The HTTP client (src/tools/netstack_http.c: connect_tcp, run_http)      *)
(* driving the connection engine: the connect loop, the request, the       *)
(* receive loop, the drain of the ready buffer into the response and the   *)
(* close.  The server is the peer of TcpStream; its stream is an HTTP      *)
(* response whose first HeaderLen bytes are the header.                    *)
(*                                                                         *)
(* The client is one thread.  It meets the network in receive_tcp_segment  *)
(* and the clock at the top of each loop; an action is one turn of a loop, *)
(* or the part of it between two such points.  Sending may fail at any     *)
(* call.  What is sent is a matter of the engine's state; the history      *)
(* variable acked keeps the acknowledgment number of the last pure ACK.    *)
(***************************************************************************)
EXTENDS TcpStream

CONSTANTS
  PollMs,           \* TCP_POLL_MS, 250
  ConnectTimeout,   \* TCP_CONNECT_TIMEOUT_MS, 10000
  HttpTimeout,      \* HTTP_TIMEOUT_MS, 15000
  SilentWaits,      \* how long receive_tcp_segment may take to return 0
  SegmentWaits,     \* how long it may take to return a segment
  RequestLen,       \* length of the GET request
  ReadBuffer,       \* TCP_APP_READ_BUFFER, 4096
  InitialCapacity,  \* HTTP_RESPONSE_INITIAL_CAPACITY, 8192
  ResponseLimits,   \* values of HTTP_RESPONSE_MAX_SIZE, 1 MiB in the code
  HeaderLen,        \* length of the response's header, blank line included
  Chunked,          \* 1: the body is in chunks
  LastChunkEnd,     \* offset in the stream of the end of its last-chunk line
  EmptyBodyLen      \* 5, the shortest chunked body

\* What the client passes to the engine is among the arguments that the engine
\* is specified for.
ASSUME ClientAssumption ==
  /\ PollMs \in Ticks \ {0}
  /\ ConnectTimeout \in Nat /\ HttpTimeout \in Nat
  /\ SilentWaits \subseteq Nat /\ \A d \in SilentWaits : d > PollMs
  /\ SegmentWaits \subseteq Nat
  /\ RequestLen \in DataLens /\ ReadBuffer \in ReadLens
  /\ InitialCapacity \in Nat \ {0}
  /\ ResponseLimits \subseteq Nat /\ \A max \in ResponseLimits : InitialCapacity <= max
  /\ HeaderLen \in 1 .. StreamLen /\ Chunked \in {0, 1}
  /\ LastChunkEnd \in HeaderLen .. StreamLen /\ EmptyBodyLen \in Nat

VARIABLES
  phase,                \* where the client is
  clock,                \* milliseconds since the loop's start
  incoming,             \* the segment in hand
  state_before,         \* run_http's local
  remote_closed,
  response, response_capacity,
  response_max,         \* the member of ResponseLimits the client was built with
  exit,                 \* what run_http returned, 1 while it runs
  \* History: the acknowledgment number last sent, and the real time since
  \* the retransmission timer was last zero.
  acked, quiet

loopVars     == <<clock, quiet>>
responseVars == <<response, response_capacity, response_max>>
localVars    == <<incoming, state_before, remote_closed>>
cvars        == <<phase, loopVars, localVars, responseVars, exit, acked>>
hvars        == <<vars, cvars>>

ClientInit ==
  /\ Init
  /\ phase = "start" /\ clock = 0 /\ quiet = 0
  /\ incoming = ZeroSegment /\ state_before = "CLOSED" /\ remote_closed = 0
  /\ response = <<>> /\ response_capacity = InitialCapacity
  /\ response_max \in ResponseLimits
  /\ exit = 1 /\ acked = At(0)

Finish(code) == phase' = "done" /\ exit' = code
Goto(where)  == phase' = where /\ UNCHANGED exit

\* send_tcp_segment, whose failure ends the client.
SendThenGoto(where) == Goto(where) \/ Finish(-1)

\* Real time passes; a timer that is zero afterwards has just been restarted.
Elapse(d) ==
  /\ clock' = clock + d
  /\ quiet' = IF retransmit_elapsed' = 0 THEN 0 ELSE AdvanceTimer(quiet, d)

\* tcp_connection_tick(connection, TCP_POLL_MS), then the loop again.
TickThenGoto(where) ==
  \/ /\ has_retransmit_segment = 0
     /\ UNCHANGED vars
     /\ Goto(where)
  \/ TickWait(PollMs) /\ Goto(where)
  \/ TickRetransmit(PollMs) /\ SendThenGoto(where)
  \/ TickGiveUp(PollMs) /\ Finish(-1)

\* receive_tcp_segment fails: the device or the clock cannot be read.
ReceiveFails ==
  /\ phase \in {"connect", "fetch"}
  /\ Finish(-1)
  /\ UNCHANGED <<vars, loopVars, localVars, responseVars, acked>>
-----------------------------------------------------------------------------
(***************************************************************************)
(* connect_tcp.                                                            *)
(***************************************************************************)
SendSyn ==
  /\ phase = "start"
  /\ BuildSyn
  /\ SendThenGoto("connect")
  /\ clock' = 0 /\ quiet' = 0
  /\ UNCHANGED <<localVars, responseVars, acked>>

ConnectTimedOut ==
  /\ phase = "connect" /\ clock > ConnectTimeout
  /\ Finish(-1)
  /\ UNCHANGED <<vars, loopVars, localVars, responseVars, acked>>

ConnectSilence(d) ==
  /\ phase = "connect" /\ clock <= ConnectTimeout
  /\ TickThenGoto("connect")
  /\ Elapse(d)
  /\ UNCHANGED <<localVars, responseVars, acked>>

ConnectReceive(s, d) ==
  /\ phase = "connect" /\ clock <= ConnectTimeout
  /\ OnSegment(s)
  /\ Goto("connect_got")
  /\ Elapse(d)
  /\ incoming' = s
  /\ UNCHANGED <<state_before, remote_closed, responseVars, acked>>

\* An error of on_segment starts the loop again without a tick.
ConnectRefused ==
  /\ phase = "connect_got"
  /\ \/ result < 0 /\ Goto("connect")
     \/ result >= 0 /\ state = "RESET" /\ Finish(-1)
  /\ UNCHANGED <<vars, loopVars, localVars, responseVars, acked>>

Connected ==
  /\ phase = "connect_got" /\ result >= 0 /\ state = "ESTABLISHED"
  /\ acked' = receive_next
  /\ SendThenGoto("request")
  /\ UNCHANGED <<vars, loopVars, localVars, responseVars>>

\* A segment that did not complete the handshake also moves the timer.
ConnectGoesOn ==
  /\ phase = "connect_got" /\ result >= 0 /\ state \notin {"RESET", "ESTABLISHED"}
  /\ TickThenGoto("connect")
  /\ Elapse(0)
  /\ UNCHANGED <<localVars, responseVars, acked>>
-----------------------------------------------------------------------------
(***************************************************************************)
(* run_http: the request and the receive loop.                             *)
(***************************************************************************)
SendRequest ==
  /\ phase = "request"
  /\ BuildData(RequestLen)
  /\ SendThenGoto("fetch")
  /\ clock' = 0 /\ quiet' = 0
  /\ UNCHANGED <<localVars, responseVars, acked>>

\* Fault: the deadline starts anew instead of ending the loop.
FetchDeadlineRestarts ==
  /\ phase = "fetch" /\ clock > HttpTimeout
  /\ clock' = 0
  /\ UNCHANGED <<vars, phase, exit, quiet, localVars, responseVars, acked>>

\* Fault: the loop ends one step too early.
FetchTimedOutEarly ==
  /\ phase = "fetch" /\ clock >= HttpTimeout
  /\ Goto("final")
  /\ UNCHANGED <<vars, loopVars, localVars, responseVars, acked>>

\* The time is up: what has arrived is printed all the same.
FetchTimedOut ==
  /\ phase = "fetch" /\ clock > HttpTimeout
  /\ Goto("final")
  /\ UNCHANGED <<vars, loopVars, localVars, responseVars, acked>>

FetchSilence(d) ==
  /\ phase = "fetch" /\ clock <= HttpTimeout
  /\ TickThenGoto("fetch")
  /\ Elapse(d)
  /\ UNCHANGED <<localVars, responseVars, acked>>

FetchReceive(s, d) ==
  /\ phase = "fetch" /\ clock <= HttpTimeout
  /\ OnSegment(s)
  /\ Goto("fetch_got")
  /\ Elapse(d)
  /\ incoming' = s /\ state_before' = state
  /\ UNCHANGED <<remote_closed, responseVars, acked>>

\* The rest of tcp_connection_on_segment.
FetchContinue ==
  /\ phase = "fetch_got"
  /\ Continue
  /\ UNCHANGED cvars

\* Reset by the peer, or capacity exhausted (-2): the client gives up.
\* (-1 is for other ports and for SYN_SENT, and cannot come here.)
FetchAborted ==
  /\ phase = "fetch_got" /\ pc = "idle"
  /\ "RST" \in incoming.flags \/ result = -2
  /\ Finish(-1)
  /\ UNCHANGED <<vars, loopVars, localVars, responseVars, acked>>

\* Fault: the ACK goes out before the data has been drained.
FetchTakenAckFirst ==
  /\ phase = "fetch_got" /\ pc = "idle"
  /\ "RST" \notin incoming.flags /\ result >= 0
  /\ acked' = IF incoming.len > 0 \/ "FIN" \in incoming.flags THEN receive_next ELSE acked
  /\ Goto("drain")
  /\ UNCHANGED <<vars, loopVars, localVars, responseVars>>

\* Fault: a segment moves the timer as well, as it does in connect_tcp.
FetchTakenTicks ==
  /\ phase = "fetch_got" /\ pc = "idle"
  /\ "RST" \notin incoming.flags /\ result >= 0
  /\ TickThenGoto("drain")
  /\ Elapse(0)
  /\ UNCHANGED <<localVars, responseVars, acked>>

FetchTaken ==
  /\ phase = "fetch_got" /\ pc = "idle"
  /\ "RST" \notin incoming.flags /\ result >= 0
  /\ Goto("drain")
  /\ UNCHANGED <<vars, loopVars, localVars, responseVars, acked>>
-----------------------------------------------------------------------------
(***************************************************************************)
(* drain_tcp_application_data and append_response.                         *)
(***************************************************************************)
append_response_fits(n) ==
  Len(response) < response_max /\ n <= response_max - Len(response) - 1

\* Fault: no room for the terminating NUL.
RequiredWithoutNul(n) == Len(response) + n

\* One more than the data: the response is kept NUL-terminated.
Required(n) == Len(response) + n + 1

\* The capacity is doubled, up to the maximum, until the data fits.
NewCapacity(required) ==
  LET grow[c \in Nat] ==
        IF c >= required THEN c
        ELSE grow[IF c >= response_max \div 2 THEN response_max ELSE 2 * c]
  IN  grow[response_capacity]

\* What was read is lost if it exceeds the maximum or if realloc fails.
DrainStep ==
  /\ phase \in {"drain", "final"}
  /\ Read(ReadBuffer)
  /\ LET data == SubSeq(receive_ready, 1, result')
     IN  \/ /\ append_response_fits(Len(data))
            /\ response' = response \o data
            /\ response_capacity' = NewCapacity(Required(Len(data)))
            /\ UNCHANGED <<phase, exit, response_max>>
         \/ /\ ~append_response_fits(Len(data)) \/ Required(Len(data)) > response_capacity
            /\ Finish(-1)
            /\ UNCHANGED responseVars
  /\ UNCHANGED <<loopVars, localVars, acked>>

\* A segment with data or a FIN is acknowledged once it has been drained.
AckThenGoto(where) ==
  \/ /\ incoming.len > 0 \/ "FIN" \in incoming.flags
     /\ acked' = receive_next
     /\ SendThenGoto(where)
  \/ /\ incoming.len = 0 /\ "FIN" \notin incoming.flags
     /\ UNCHANGED acked
     /\ Goto(where)

\* Fault: the drain is one read, not a loop.
DrainedAfterOneRead ==
  /\ phase = "drain" /\ (receive_ready = <<>> \/ response # <<>>)
  /\ remote_closed' = IF state_before # "CLOSE_WAIT" /\ state = "CLOSE_WAIT" THEN 1 ELSE 0
  /\ AckThenGoto(IF remote_closed' = 1 THEN "final" ELSE "fetch")
  /\ UNCHANGED <<vars, loopVars, incoming, state_before, responseVars>>

\* Fault: any FIN ends the loop, whether or not it is in order.
DrainedAtAnyFin ==
  /\ phase = "drain" /\ receive_ready = <<>>
  /\ remote_closed' = IF "FIN" \in incoming.flags THEN 1 ELSE 0
  /\ AckThenGoto(IF remote_closed' = 1 THEN "final" ELSE "fetch")
  /\ UNCHANGED <<vars, loopVars, incoming, state_before, responseVars>>

\* The ready buffer is empty: acknowledge, and notice the end of the stream.
Drained ==
  /\ phase = "drain" /\ receive_ready = <<>>
  /\ remote_closed' = IF state_before # "CLOSE_WAIT" /\ state = "CLOSE_WAIT" THEN 1 ELSE 0
  /\ AckThenGoto(IF remote_closed' = 1 THEN "final" ELSE "fetch")
  /\ UNCHANGED <<vars, loopVars, incoming, state_before, responseVars>>
-----------------------------------------------------------------------------
(***************************************************************************)
(* The end of run_http.                                                    *)
(***************************************************************************)
\* print_http_response: the header must be there, and a chunked body must
\* decode to something unless it is as short as an empty one.
print_http_response(n) ==
  /\ n >= HeaderLen
  /\ Chunked = 1 => n >= LastChunkEnd \/ n - HeaderLen <= EmptyBodyLen

\* A chunked body also needs memory to be decoded in.
Unprintable ==
  /\ phase = "final" /\ receive_ready = <<>>
  /\ \/ Len(response) >= HeaderLen /\ Chunked = 1
     \/ ~print_http_response(Len(response))
  /\ Finish(-1)
  /\ UNCHANGED <<vars, loopVars, localVars, responseVars, acked>>

\* After the peer's FIN the client sends its own, once, whether or not that
\* works, and exits.
Printed ==
  /\ phase = "final" /\ receive_ready = <<>>
  /\ print_http_response(Len(response))
  /\ \/ state = "CLOSE_WAIT" /\ BuildFin
     \/ state # "CLOSE_WAIT" /\ UNCHANGED vars
  /\ Finish(0)
  /\ UNCHANGED <<loopVars, localVars, responseVars, acked>>
-----------------------------------------------------------------------------
Receive == \E s \in Segment, d \in SegmentWaits : ConnectReceive(s, d) \/ FetchReceive(s, d)

Silence == \E d \in SilentWaits : ConnectSilence(d) \/ FetchSilence(d)

\* The steps the client takes by itself.
Compute ==
  \/ SendSyn \/ ConnectTimedOut \/ ConnectRefused \/ Connected \/ ConnectGoesOn
  \/ SendRequest \/ FetchTimedOut \/ FetchContinue \/ FetchAborted \/ FetchTaken
  \/ DrainStep \/ Drained \/ Unprintable \/ Printed

ClientNext == Compute \/ Receive \/ Silence \/ ReceiveFails

ClientSpec == ClientInit /\ [][ClientNext]_hvars
-----------------------------------------------------------------------------
(***************************************************************************)
(* Properties.                                                             *)
(***************************************************************************)
Phases == {"start", "connect", "connect_got", "request", "fetch", "fetch_got", "drain",
           "final", "done"}

\* The client's own state; in particular the response and its NUL always fit
\* the allocated capacity, which never exceeds the maximum (append_response).
ClientTypeOK ==
  /\ phase \in Phases /\ exit \in {-1, 0, 1} /\ (exit = 1 <=> phase # "done")
  /\ clock \in Nat /\ quiet \in 0 .. TimerMax /\ acked \in SeqNum
  /\ incoming \in AnySegment /\ state_before \in States /\ remote_closed \in {0, 1}
  /\ response \in Seq(SeqNum) /\ Len(response) + 1 <= response_capacity
  /\ response_capacity \in 1 .. response_max

\* The response printed is a prefix of what the server sent, whatever the
\* network reordered, repeated or delayed, and the server's whole response
\* when the loop ended with the peer's FIN (run_http).
ResponseIsFaithful ==
  /\ response = Bytes(At(0), Len(response)) /\ Len(response) <= StreamLen
  /\ (exit = 0 /\ remote_closed = 1) => Len(response) = StreamLen

\* Only the deadline makes run_http succeed without the end of the stream.
PartialOnlyAfterDeadline ==
  (exit = 0 /\ Len(response) < StreamLen) => clock > HttpTimeout

\* No byte is acknowledged before it is in the response: the drain precedes
\* the ACK on every path of the receive loop, so that a response that does
\* not fit is not acknowledged.
AckedIsStored ==
  seq_le(acked, At(Len(response) + IF Len(response) = StreamLen THEN 1 ELSE 0))

\* The engine has its whole ready buffer free whenever the client waits for a
\* segment, so that data in order is never refused for want of room.
RoomWheneverWaiting ==
  phase \in {"connect", "request", "fetch"} => receive_ready = <<>>

\* In the receive loop the timer never runs ahead of real time: a tick of
\* TCP_POLL_MS follows only a silence that lasted longer.
TimerNotAheadOfClock ==
  phase \in {"fetch", "fetch_got", "drain"} => retransmit_elapsed <= quiet
-----------------------------------------------------------------------------
(***************************************************************************)
(* Fairness: the client runs, and time passes: a client that waits again   *)
(* and again sees the clock advance again and again, if only because       *)
(* segments do not arrive for ever without any delay.  It is the strong    *)
(* fairness of a receive that takes time, which is always possible.        *)
(***************************************************************************)
Waiting ==
  \/ phase = "connect" /\ clock <= ConnectTimeout
  \/ phase = "fetch" /\ clock <= HttpTimeout

FairClientSpec ==
  /\ ClientSpec
  /\ WF_hvars(Compute)
  /\ []<>Waiting => []<><<clock' > clock>>_hvars

\* run_http returns, whatever the server does or fails to do.
ClientTerminates == <>(phase = "done")
==================================================================================
