------------------------------- MODULE ByteStream -------------------------------
(***************************************************************************)
(* What the receiving side of a connection promises its application: the   *)
(* peer's bytes, each once and in order, and the end of the stream only    *)
(* after the last of them.  A connection may be reset at any moment; what  *)
(* was ready to be read is then kept or thrown away, and nothing more      *)
(* arrives.                                                                *)
(***************************************************************************)
EXTENDS Naturals, Sequences

CONSTANT Length       \* bytes the peer sends before it closes

VARIABLES
  phase,              \* of the stream: "closed", "open", "ended" or "reset"
  arrived,            \* bytes that have become readable, while it lasts
  ready               \* offsets of those the application has not read yet

streamVars == <<phase, arrived, ready>>

Offsets(first, n) == [k \in 1 .. n |-> first + k - 1]

StreamInit == phase = "closed" /\ arrived = 0 /\ ready = <<>>

Open == phase = "closed" /\ phase' = "open" /\ UNCHANGED <<arrived, ready>>

\* The next n bytes of the stream become readable.
Arrive(n) ==
  /\ phase = "open" /\ arrived + n <= Length
  /\ ready' = ready \o Offsets(arrived, n)
  /\ arrived' = arrived + n
  /\ UNCHANGED phase

\* The end of the stream becomes known.
End ==
  /\ phase = "open" /\ arrived = Length
  /\ phase' = "ended"
  /\ UNCHANGED <<arrived, ready>>

\* The application reads the first n bytes that wait.
Fetch(n) ==
  /\ n <= Len(ready)
  /\ ready' = SubSeq(ready, n + 1, Len(ready))
  /\ UNCHANGED <<phase, arrived>>

Reset ==
  /\ phase' = "reset" /\ arrived' = 0
  /\ ready' \in {ready, <<>>}

StreamNext ==
  \/ Open \/ End \/ Reset
  \/ \E n \in 1 .. Length : Arrive(n) \/ Fetch(n)

StreamSpec == StreamInit /\ [][StreamNext]_streamVars
================================================================================
