# A verification of BLACKTERM NETSTACK

This directory holds TLA+ models of the netstack, the TLC configurations that
check them, and proofs checked by TLAPS. The reference is the source at the
commit next to it; definitions keep the source's names where TLA+ allows it, and
`PROJECT.json` maps each one to the lines it models.

## 1. Inventory

| Part | Source | State | Operations |
|---|---|---|---|
| TCP connection engine | `src/tcp_connection.c` | `tcp_connection_t`: state, send and receive edges, retransmission timer, 16 reassembly slots, ready buffer, pending FIN | `init`, `build_syn/data/fin/ack`, `on_segment`, `tick`, `read` |
| HTTP client | `tools/netstack_http.c` | one connection, the response buffer, two deadlines | `connect_tcp`, `run_http`, drain, append, print |
| Ping, DNS and TCP tools | `tools/netstack_{ping,dns,tcp}.c` | one request in flight | route, `resolve_arp`, request, filtered wait |
| Packet codecs | `src/{ethernet,arp,ipv4,icmp,udp,tcp,dns}.c` | none: pure functions of byte buffers | build, serialize, parse, checksum |
| HTTP messages | `src/http.c` | none | build GET, parse, chunk decoding |
| Network device | `src/netdev_linux.c` | a raw socket, addresses, gateway | open, send, receive with poll, is-local test |

Interaction. Nothing in the repository runs in parallel: every tool is one
thread. The engine is passive; its caller feeds it received segments, tells it
how much time has passed and sends what it builds. Concurrency comes from the
network: segments are lost, repeated, delayed, reordered and cut differently,
acknowledgments race the timer, replies race deadlines, and a reply to one
invocation of a tool can arrive during the next.

What is hard, and what makes each part correct:

* *Receiving* (engine): overlapping and reordered segments, a FIN ahead of its
  data, sequence numbers that wrap, full slots and a full ready buffer. Correct:
  the application reads the peer's bytes in order and once, the end is reported
  after the last byte, nothing deliverable is left lying, and everything arrives
  in the end.
* *Sending* (engine): one outstanding segment, full, partial, repeated and bogus
  acknowledgments, a saturating timer, a bounded number of retries. Correct: what
  is unacknowledged is retransmittable, the retry budget is restored on every
  path, nothing stays outstanding for ever, closing states mean acknowledged.
* *HTTP client*: the order of drain and acknowledgment, capacity limits, deadlines
  against late data, the end of the stream. Correct: the response is a prefix of
  what the server sent, and all of it after the peer's FIN; only stored bytes are
  acknowledged; the client always returns.
* *Tools*: stale and foreign replies, deadlines. Correct: frames go to the right
  next hop, success rests on the right reply, every invocation ends.
* *Codecs*: checksums of odd lengths and with carries, padding behind the packet,
  damaged and cut frames. Correct: what one end sends the other takes apart into the
  same packet, and a frame that was changed is ignored or says the same.
* *DNS messages*: lengths, counts and pointers taken from the datagram. Correct: no
  read outside it, an end for every walk, the server's addresses for every hostname
  the tool accepts, and no part of a reply taken for the whole.
* *HTTP messages*: what arrived when the connection or the deadline ended it. Correct:
  a cut head is refused, a whole one understood whatever the body looks like; a
  chunked body decodes to the server's data or to nothing.
* *Network device*: a chain of system calls each of which may fail, a wait that
  signals and a failing interface disturb. Correct: no descriptor leaks, the gateway
  is the right one, the wait ends.

`PROJECT.json` lists the hazards line by line with the properties aimed at them.

## 2. Modules

`SeqSpace` is 32-bit sequence arithmetic, parameterised by half the space so that
TLC can go all the way round. Comparison is by the sign of the difference, as in
`seq_lt` ... `seq_ge`.

`TcpConnection` is the engine, one variable per field. A payload byte is the
sequence number it was sent at, so a buffer shows which bytes it holds and in
which order. Each call is one action, guarded as in the code, with two exceptions:
`tick` is one action per outcome, and `on_segment` is a first step (RST,
acknowledgment and handshake, or acknowledgment and `process_payload`), one step
per iteration of `promote_reassembly`'s loops, and a last step (`process_fin`,
`consume_pending_fin`, the closing transitions). While `pc # "idle"` only the call
in progress continues. Left out: ports (a mismatch changes nothing), windows
(`remote_window` is stored and never read), PSH and URG, and the NULL checks. Of a
segment `last_segment` keeps sequence and acknowledgment number, flags and length.
Three history variables are not in the code: `app_next` (the sequence number after
the last byte read), `opens` (calls of `build_syn`) and `stalled` (the last
promotion ran out of room). The `overlap > payload_len` exits of `process_payload`
and `promote_reassembly` are omitted because they cannot be taken: a lemma of
`TcpConnection_proofs` shows it.

`TcpStream` extends it with a peer that follows TCP: one stream of `StreamLen`
bytes, cut in any way, delivered in any order and any number of times, and one FIN.

`ByteStream` is what the receiving side promises an application: bytes become
readable in order, are read in order, the end follows the last one, a reset ends
everything. `TcpStream` instantiates it: the phase comes from the state, the bytes
that arrived from `receive_next` (which has counted the FIN once the stream is
ended), the readable ones from the ready buffer. `ImplementsByteStream` is its
specification as a property. The mapping forgets what is not visible to the
application: slots, pending FIN, timer, the call in progress.

`HttpClient` extends `TcpStream` with `connect_tcp` and `run_http`. An action is
the part of a loop between two meetings with the clock or the network. A receive
takes some time from `SilentWaits` or `SegmentWaits`; a silent one takes longer
than a poll, because `receive_tcp_segment` polls again until the poll time is
exceeded. Every send, `realloc` and `malloc` may fail. `HTTP_RESPONSE_MAX_SIZE` is fixed in the
code; here a behaviour starts with one of several values, so that one run has a response
that fits and one that does not. Of the response only lengths matter: it prints when
the header is there and, for a chunked body, when the last-chunk line is (or the
body is as short as an empty one). A request that cannot be built is excluded by
`RequestLen > 0`. History: `acked` and `quiet`.

`Tools` models the four `main` functions, `resolve_arp` and the three one-shot
exchanges. The tools are run `MaxRuns` times in any order; replies to any request
sent so far may arrive at any time. An address stands for the MAC of its host; the
netmask is a block size. `run_http` is one step here. The four copies of
`resolve_arp` differ in two conditions, which the model keeps.

`Wire`, `Checksum`, `Ethernet`, `Arp`, `Ipv4`, `Icmp`, `Udp` and `Tcp` are the packet
codecs: each function is an operator on sequences of bytes with the code's checks in
the code's order; a parser yields the packet with `rc = 0` or only the error code, a
serializer the bytes or `<<>>` where the code returns 0. 32-bit fields are pairs of
16-bit halves, because TLC's integers have 32 bits. The copies of the checksum loop
and of the big-endian helpers in the source files are one operator each here.

`FramePath` composes them: a packet is encapsulated as `send_tcp_segment`,
`send_dns_query`, `send_ping` and `resolve_arp` do, padded, damaged in one byte or cut
by the network, and offered to one of the four receive loops. It is about one message
on its way to a host that waits for it; the answers (an echo reply, a SYN-ACK, an ARP
reply) are made with the stack's own builders. `IsMessage` says what a builder can make:
the fields of the packet structures at their widths, and the lengths that go with them.
Deadlines and retries are in `Tools` and `HttpClient`.

Two kinds of damage are outside `DamagedFrameHarmless`, because there the code has nothing
to find them with. ARP has no checksum. And a UDP datagram in a packet whose IPv4 header
length was changed: when the first words behind the header sum up to what the change took
away, the IPv4 sum is right again, the receiver takes what follows for the datagram, and a
checksum field of 0 in it switches the UDP check off. The message `Nested` of the run does
exactly this. TCP and ICMP cannot be led astray that way, which is proved.

`DnsMessage` has `dns_build_a_query` as an operator, a server that echoes the question
and answers with a list of records, a network that cuts or damages the datagram, and
`dns_parse_response` with `dns_skip_name` one label or record per step. `high` records
how far the parser has read. Left out: the header bits that are only printed.

`HttpMessage` has `http_parse_response` and `http_response_is_chunked` as operators on
a sequence of characters and of a few words that are never cut (`Transfer-Encoding`,
`chunked`, the words of the status line), because only their order matters to the
code; `strstr` stops at a NUL byte, which is none of them. `HttpResponse` composes them
with `http_decode_chunked_body`, two steps per chunk, into `print_http_response`, between
a server and a network that ends the response anywhere or damages its body. `size_t` has
`SizeMax + 1` values and its subtractions wrap. The decoder is also given less room than
the client gives it, since it is a function of the library. Left out: the copy of the
status text. `HttpClient` uses of all this only that a head must be there and a chunked
body must reach its last chunk, which is what `CutHeadRefused` and `WholeOrNothing` say.

`NetDevice` is `netdev_linux.c`: each system call of `netdev_open` is a step that may
fail, with its own way out, the scan of the route table goes line by line, the wait of
`netdev_receive` passes time. The kernel is external. `ifindex` and the name, which are
only passed on, are left out.

`MC*.tla` give constants their values. Operators marked *Fault* are variants of
the definition that follows them, each with a plausible mistake; no specification
uses them. Putting one in the place of its original breaks the property
`PROJECT.json` pairs it with.

## 3. Runs

| Run | Question | Bounds |
|---|---|---|
| `receive` | receive path, any segment at all | space of 8, 2 slots of 2 bytes, ready buffer of 3, payloads of 0 to 3 at every sequence number, FINs at two conflicting places; the search stops once the peer's FIN is taken in ESTABLISHED |
| `stream` | a peer that follows TCP or resets: the engine implements `ByteStream`, no FIN is lost, the stream completes | space of 16, stream of 4 bytes across the wrap, 2 slots, a RST at any time |
| `send` | retransmission state, and that nothing stays outstanding | every acknowledgment number of a space of 8, data of 1 to 3 bytes, ticks of 1 and of saturation, 2 retries, timeouts 2, 4, 5, two opens |
| `http` | client and engine together, and that the client returns | response of 3 bytes, a maximum that it just fits and one that it exceeds, deadlines of a few polls |
| `tools` | next hop, right reply, fresh handshake, and that every invocation ends | three invocations, a local and a remote target |
| `frame_path` | codecs end to end | 28 messages: odd and even payloads, options, the longest that fits and one byte more, other hosts, ports and identifiers, a UDP sum of 0, a datagram inside a datagram; each offered to each loop; each byte of a frame changed to 13 values, each prefix |
| `dns_message` | query, reply and parser | all 127 hostnames of up to 6 letters and dots, 6 answer sections, limits scaled to 5 bytes, 4 per label, 3 labels and 2 answers; each byte changed to 6 values, each prefix |
| `http_response` | head, chunk decoder and verdict of `print_http_response` | 7 status lines, up to 2 headers and 3 bodies that look like heads; 40 chunked bodies of up to 2 chunks with CRLF in the data, leading zeros, extensions, trailers; each prefix, each byte of a body changed to 8 values, all chunked bodies of up to 5 out of 5 characters; an 8-bit `size_t`; outputs that are too short |
| `net_device` | device | two opens, tables of up to 2 routes, a wait of 2 with 2 signals |
| `queue_comment`, `contained_comment` | two statements of comments that the code does not keep | as `stream`, with 5 bytes and, for the second, 3 slots |
| `chunked_trailer` | a third one | as `http_response` |

Why the bounds suffice. Two slots are the fewest with which arrival order and
sequence order can differ, which is what the rescan is for; a slot shorter than
the longest payload and a ready buffer shorter than the stream make every -2 path
happen; streams start just before the wrap. In `send` the third timeout is clamped
and the large tick saturates the timer. Unbounded in the code and bounded here:
opens (`MaxOpens`) and invocations (`MaxRuns`). In `frame_path` the frame payload is
56 instead of 1500, above the 46 that hardware pads to, so that padded, full and too
long packets all occur; the largest packet keeps its 65535. In `dns_message` the limits
keep the relation of 127 labels to 253 bytes, which an assumption of the module states.
The damage values steer the parser: zero, a length, a reserved label form, a pointer,
all ones. `net_device` bounds the signals of a wait (`MaxInterrupts`) and the frames
queued (`MaxFrames`).

`CHECK_DEADLOCK FALSE`: a reset or closed connection, a client that has returned
and the last invocation of a tool really stop, and so do a message that has been
received, a parser that has returned and a device that is not opened again.

### What the three violations show

`queue_comment`: the header says of the reassembly queue that "Future TCP segments
live here until all sequence-space bytes before them have arrived". When a
promotion finds the ready buffer full, `on_segment` returns -2 and the slot stays
although nothing is missing before it. It is delivered, or dropped as obsolete,
when the next in-order data arrives; `StreamCompletes` shows that nothing is lost.

`contained_comment`: "Overlapping future segments are allowed unless the new
segment is completely contained inside existing buffered data". Containment is
tested against one slot at a time, so bytes that two slots hold are stored again in
a third. `StreamIntegrity` shows that the data stays right; the slots run out sooner.

`chunked_trailer`: at the last chunk the decoder says "Trailer headers may follow, but
for this first version we only care about the body". `print_http_response` tells an
empty body from a failure by a body of at most five bytes, so an empty body with a
trailer is reported as "Chunked body decoding failed." The run looks only at bodies
without leading zeros or extensions; those have the same effect. A non-empty body with
a trailer is printed (`ClientVerdict`).

### Fairness

* `Continue` is weakly fair: a call that has begun returns.
* `FairSpec`: the next in-order segment is delivered, and the client reads, again
  and again if possible again and again. That is what a retransmitting peer and a
  network that is not cut give; the client's loop drains after every segment.
* `TimedSpec`: elapsed time is reported again and again while a segment is
  outstanding. Both loops of the HTTP client tick on silence. Steady traffic can
  postpone ticks in `run_http`; there the deadline ends the loop, which
  `ClientTerminates` covers without this assumption.
* `DnsSpec` and `DeviceSpec`: a parser that has begun goes on, and so does a wait in
  `netdev_receive`; whether a datagram or a frame comes is left open. Signals are not
  fair and bounded in number: without the bound they could prolong a wait for ever.
* `FairClientSpec`, `FairToolsSpec`: the process runs, and a process that waits
  again and again sees its clock advance again and again.

## 4. Proofs

Every theorem holds for every value of the constants under the assumptions named in
the modules. Those are facts of the code, with its sizes as parameters:

* the engine: half the sequence space exceeds the slot length, the ready buffer and
  the longest payload (2^31 against 2048, 32768 and 65515), and twice the longest
  timeout fits the timer;
* the stream: it is shorter than half the sequence space, so that a position in it
  and its sequence number are in the same order;
* the client: it waits in polls of `PollMs` and ticks by them, sends a request of a
  length the engine takes, reads with a buffer that is not empty, and its first buffer
  is within the maximum;
* the tools: addresses, netmask and gateway are numbers of their kind;
* the device, DNS and HTTP modules: the shape of what the kernel or the server
  makes: a route line has four-byte addresses, bytes are bytes, a record's length and
  the number of records fit their 16-bit fields, a body is no longer than a `size_t`
  can count (`NetDeviceAssumption`, `DnsAssumption`, `ServerAssumption`,
  `SizeAssumption`). Nothing is assumed of what the network makes of it;
* the path of a frame: messages are what the builders make, with payloads of any length;
  a frame's payload is no longer than an IPv4 packet may be, that no longer than 65535,
  and a receive buffer takes a frame (`MessageAssumption`, `FramePathAssumption`,
  `ChecksumAssumption`).

The theorems about the engine are about `Spec` with arbitrary segments: nothing is
assumed of the peer. Those of `HttpClient_proofs`, which are about `TcpStream` and about
`HttpClient`, are about a peer that follows TCP, which is how `TcpStream` defines
`Segment`.

* `Basics_proofs`: a set of natural numbers that is not empty has a least element,
  and one that contains 0 and with each number the next contains all. The induction
  theorems of the library take a predicate as a parameter, which the provers cannot
  instantiate; a set they can. All that is proved below of recursive functions rests
  on it: how long retries wait, the doubling loop of `append_response`, the digits of
  a chunk size, the records of a reply joined into a datagram, the sum over a packet.
  `Occurs(d, o, x)` says that `x` lies at offset `o` of `d`, and the proofs about messages
  are written with it: what a serializer joined lies at known offsets, a part of a part
  lies at the sum of their offsets, a prefix keeps what lies within it.
* `TcpConnection_proofs`: arithmetic modulo the sequence space as case splits, what
  clipping, appending and reading do to `Bytes(s, n)`, then `TypeOK`, one lemma per
  group of actions.
  `StreamIntegrity` and `NoStrandedSegment` are not inductive. `ReceiveInv` adds that
  every used slot holds the bytes its sequence number says (clipping a slot would
  otherwise yield anything), that slots already passed in a scan without progress
  start in the future (which is what the last pass establishes), that a call in
  progress is in a state that takes data, and that nothing is buffered before the
  handshake. `ReassemblyAccounting` needs the cardinality of the set of used slots.
  `OutstandingIsRetransmittable`, `FreshRetryBudget` and `CloseMeansAcknowledged` come
  from `SendInv`, which adds where the outstanding segment lies relative to both edges
  (it ends at `send_next` and `send_unacknowledged` is inside it), that without one the
  edges meet, and that a reset connection has none. `BackoffHonoured` is inductive with
  these: the timeout after n retries is `BackedOff[n]`, the default doubled n times and
  clamped, by induction over n.
* `HttpClient_proofs`, first part: `PendingFinAhead` and the refinement
  `ImplementsByteStream`.
  `StreamInv` gives everything the engine holds its place in the peer's stream: the
  edge is a position of it, or the one after the FIN exactly when the end has been
  counted; a slot does not reach past the end; a pending FIN is the peer's, and the
  edge is still before it unless the call in progress has just promoted the last byte.
  `RestAfterFin` says what is left in the ready buffer after that. From both, each
  action is matched with a step of `ByteStream` or none. The refinement is stated for
  `MaxOpens = 1`: the abstract stream has one beginning, and no caller opens a
  connection object twice.
* `HttpClient_proofs`, second part: every behaviour of the client is one of the engine
  (`ClientRunsEngine`), so that the invariants above hold inside it. `ClientInv` adds
  what each phase may assume: which calls can be in progress, that the ready buffer is
  empty wherever the client waits, that the stored bytes are a prefix of the stream up
  to `app_next`, and that what was acknowledged ends within them. Then
  `ResponseIsFaithful`, `PartialOnlyAfterDeadline`, `AckedIsStored`,
  `RoomWheneverWaiting`, `TimerNotAheadOfClock`, and the bound of the buffer in
  `ClientTypeOK`.
* `NetDevice_proofs`: `NoDescriptorLeaks` from which descriptors are open at each step
  of `netdev_open`, and `GatewayIsFirstDefaultRoute` from what the scan has passed, for
  tables of any length. Two lemmas are about bits and bytes: the flag test, and that
  the kernel's integer taken apart gives the address back.
* `Tools_proofs`: `SentToNextHop`, `AnswerIsFromTarget` and `HandshakeIsFresh`, with
  their strengthening: the resolved address is that of the next hop, initial sequence
  numbers of different invocations differ, the request waited for has been sent.
  That `generate_isn` gives each invocation a new number is part of the model; the
  code mixes 32 bits out of a clock, so that a repetition is unlikely and not excluded.
  `AnswerIsFromTarget` allows a late reply to an earlier
  invocation, as the code does for ping and DNS, whose identifiers are fixed;
  `HandshakeIsFresh` excludes it for TCP.
* `DnsMessage_proofs`: `DnsTypeOK` and `ReadsInBounds`, for every hostname, answer
  section, cut and damage. `ParserInBounds` says at which steps the parser stands
  inside the datagram, and at which it may stand at its end.
  `ReplyUnderstood` and `CutReplyRefused` compare the result with what the server wrote;
  `ReplyInv` therefore keeps the reply beside the parser. `Datagram`: unless it was
  damaged, what arrived is the reply or its first bytes. `Walk`: before a record the
  parser stands at the end of the records it has passed (`StartFor`) and has collected
  their addresses, as many as there is room for; inside a name it stands before a label
  and has passed at most half as many labels as bytes, which is why the limit of 127
  refuses no name of 253 bytes; at the fixed part it stands behind the owner. From a
  reply that lost its end the parser cannot return 0: it would have to stand at an end
  that did not arrive.
* `HttpResponse_proofs`: `DecoderInBounds` and `SizesExact`, for every body, every
  length of the output and every width of `size_t`. A chunk about to be copied lies in
  the body and fits with the terminating zero; the subtractions that could wrap are
  guarded. That `parse_chunk_size` yields the number written in the line or refuses is
  proved by induction over the digits.
  `HeadUnderstood` and `CutHeadRefused` (`HeadInv`): in what begins like the server's head
  the carriage returns are those that end the server's lines (`HeadBreaks`), so that the
  first empty line is the end of the head and no shorter prefix has one; the three digits
  behind the second word are the status; a header is found exactly where one begins.
  `WholeOrNothing` and `ClientVerdict` (`DecodeInv`): in a body that nobody damaged the
  decoder stands either at a size line, with the data of all chunks before it decoded, or
  at the data of a chunk, with that chunk's size (`AtLine`, `AtData`); a cut body ends
  before its last-chunk line, and the decoder returns data only behind that.
* `FramePath_proofs`: `WholeFrameDelivered`, `DamagedFrameHarmless` and
  `UnsentOnlyIfTooLong`. `FrameInv` says what the network has: the message's frame,
  padded, with a byte changed or without its end. The argument has three parts.
  *Layout*: each serializer is taken apart into what lies at which offset, and each parser
  reads it back from there, whatever lies behind. So a whole frame is understood, and a
  cut one is either shorter than its headers say or has lost only padding.
  *Sums*: `add_bytes` is a sum over words with the carry brought around, in which 0 and
  65535 are alike (`Alike`). A word written over a 0 adds itself (`SumWritten`), which is
  why a packet with its checksum in it is `Sealed`; a changed byte changes one word by less
  than 65535, so that the packet no longer is (`SealBroken`); and the sum over a joined
  packet goes on from that over the first part, if that is of even length (`SumConcat`).
  *Header length*: a changed byte of the packet breaks the seal it is under, with one
  exception. A longer header length makes the IPv4 sum run over `k` more words. If that
  sum is right all the same, those words add up to minus 256 `k`, and what is left of the
  packet is sealed only if 252 `k` (TCP, whose length in the pseudo-header changes too) or
  256 `k` (ICMP) is a multiple of 65535 (`SplitTcp`, `SplitIcmp`); but `k` is at most 10.

Every safety invariant that a passing run checks is proved, and so is the refinement.
Only model-checked:

* the liveness properties: fairness and `ENABLED` are outside the prover's reach;
* the three violations, which are counterexamples.

## 5. Not modelled, and the plan

Not modelled: the functions that make text (`*_to_string`, `*_name`), the command line,
messages and diagnostics; `http_build_get_request`, one `snprintf` with a check of its
result; `generate_isn`, whose value is an input of the model; the announced window and
a peer that obeys it; IPv4 fragments (the stack neither makes nor reassembles them);
reopening a connection object with data left in its buffers, which no caller does.

What could follow: `http_build_get_request` with its length check on the bytes of the
request; the announced window, once the code reads it; initial sequence numbers that may
repeat, and what the tools then promise.
