-------------------------------- MODULE Wire --------------------------------
(***************************************************************************)
(* One direction of a connection at the level of bytes: write_msg and      *)
(* read_msg (channel.rs) over a BufWriter, a socket and a BufReader of     *)
(* bounded size.  A byte is its position in the stream, so a buffer is the *)
(* number of bytes it holds.  A frame is a prefix of four bytes, the       *)
(* length of the payload cast to u32, and the payload.  A write or a read  *)
(* moves as many bytes as the system likes; either end may die; no call    *)
(* has a timeout.                                                          *)
(***************************************************************************)
EXTENDS Integers, Sequences

CONSTANTS N,       \* the messages of the conversation
          Sizes,   \* the payload lengths they may have
          Prefix,  \* the bytes of a u32
          Wrap,    \* 2^32
          WCap,    \* the capacity of a BufWriter
          SCap,    \* what the socket buffers of the connection hold
          RCap     \* the capacity of a BufReader

ASSUME WireAssumption ==
  /\ N \in Nat \ {0} /\ Sizes \subseteq Nat
  /\ Prefix \in Nat \ {0} /\ Wrap \in Nat \ {0}
  /\ WCap \in Nat /\ Prefix < WCap
  /\ SCap \in Nat \ {0} /\ RCap \in Nat \ {0}

VARIABLES sizes,   \* the payload lengths of the messages
          wpc,     \* the writer: between messages, in write_bytes, in flush, or gone
          start,   \* where in the stream each message begun starts
          wbuf,    \* bytes in the BufWriter
          rest,    \* bytes of the payload not yet handed to it or to the socket
          sock,    \* bytes in the socket
          rbuf,    \* bytes in the BufReader
          rpc,     \* the reader: in read_u32, in read_bytes, or gone
          need,    \* bytes missing from the buffer of that call
          rpos,    \* bytes read so far
          body,    \* where the payload being read starts
          got      \* messages received

writer == <<sizes, wpc, start, wbuf, rest>>
reader == <<rbuf, rpc, need, rpos, body, got>>
vars == <<sizes, wpc, start, wbuf, rest, sock, rbuf, rpc, need, rpos, body, got>>

Gone == {"closed", "dead"}
Written == rpos + rbuf + sock + wbuf
Least(a, b) == IF a < b THEN a ELSE b

Init == /\ sizes \in [1..N -> Sizes]
        /\ wpc = "idle" /\ start = <<>> /\ wbuf = 0 /\ rest = 0
        /\ sock = 0
        /\ rbuf = 0 /\ rpc = "len" /\ need = Prefix /\ rpos = 0 /\ body = 0 /\ got = 0

-----------------------------------------------------------------------------
(* write_msg                                                               *)

\* write_u32: the prefix fits the empty buffer.
WriteLen ==
  /\ wpc = "idle" /\ Len(start) < N
  /\ start' = Append(start, Written)
  /\ wbuf' = wbuf + Prefix
  /\ rest' = sizes[Len(start) + 1]
  /\ wpc' = "body"
  /\ UNCHANGED <<sizes, sock, reader>>

\* write_bytes, when the payload fits what is left of the buffer.
WriteBuffered ==
  /\ wpc = "body" /\ rest <= WCap - wbuf /\ rest < WCap
  /\ wbuf' = wbuf + rest /\ rest' = 0
  /\ wpc' = "flush"
  /\ UNCHANGED <<sizes, start, sock, reader>>

\* It does not: the buffer goes to the socket first.  A payload as large as the
\* buffer then goes around it.
WriteDrains ==
  /\ wpc = "body" /\ rest > WCap - wbuf
  /\ wpc' = "drain"
  /\ UNCHANGED <<sizes, start, wbuf, rest, sock, reader>>

Drained ==
  /\ wpc = "drain" /\ wbuf = 0
  /\ wpc' = IF rest < WCap THEN "body" ELSE "direct"
  /\ UNCHANGED <<sizes, start, wbuf, rest, sock, reader>>

Direct ==
  /\ wpc = "direct"
  /\ \E n \in 1..Least(rest, SCap - sock) :
       /\ rest' = rest - n /\ sock' = sock + n
       /\ wpc' = IF rest' = 0 THEN "flush" ELSE "direct"
  /\ UNCHANGED <<sizes, start, wbuf, reader>>

\* One write of the buffer's contents to the socket, which takes what it has
\* room for.
Drain ==
  /\ wpc \in {"drain", "flush"}
  /\ \E n \in 1..Least(wbuf, SCap - sock) : wbuf' = wbuf - n /\ sock' = sock + n
  /\ UNCHANGED <<sizes, wpc, start, rest, reader>>

\* flush has written all, and write_msg returns.
\* Mutant: write_msg does not flush.
Flushed_mutant ==
  /\ wpc = "flush"
  /\ wpc' = IF Len(start) = N THEN "closed" ELSE "idle"
  /\ UNCHANGED <<sizes, start, wbuf, rest, sock, reader>>
Flushed ==
  /\ wpc = "flush" /\ wbuf = 0
  /\ wpc' = IF Len(start) = N THEN "closed" ELSE "idle"
  /\ UNCHANGED <<sizes, start, wbuf, rest, sock, reader>>

\* A write to a connection whose other end is gone: the error is unwrapped.
WriteFails ==
  /\ rpc = "panic"
  /\ wpc \in {"drain", "direct"} \/ (wpc = "flush" /\ wbuf > 0)
  /\ wpc' = "dead" /\ wbuf' = 0 /\ rest' = 0
  /\ UNCHANGED <<sizes, start, sock, reader>>

\* The writer's process ends at any moment; what the socket has is delivered.
Die ==
  /\ wpc \notin Gone
  /\ wpc' = "dead" /\ wbuf' = 0 /\ rest' = 0
  /\ UNCHANGED <<sizes, start, sock, reader>>

-----------------------------------------------------------------------------
(* read_msg                                                                *)

Reading == rpc \in {"len", "body"}

Refill ==
  /\ Reading /\ rbuf = 0 /\ need \in 1..(RCap - 1)
  /\ \E n \in 1..Least(sock, RCap) : rbuf' = n /\ sock' = sock - n
  /\ UNCHANGED <<writer, rpc, need, rpos, body, got>>

\* A read of at least the buffer's capacity goes around an empty buffer.
ReadDirect ==
  /\ Reading /\ rbuf = 0 /\ need >= RCap
  /\ \E n \in 1..Least(sock, need) :
       need' = need - n /\ rpos' = rpos + n /\ sock' = sock - n
  /\ UNCHANGED <<writer, rbuf, rpc, body, got>>

Copy ==
  /\ Reading /\ rbuf > 0 /\ need > 0
  /\ LET n == Least(rbuf, need)
     IN  need' = need - n /\ rpos' = rpos + n /\ rbuf' = rbuf - n
  /\ UNCHANGED <<writer, sock, rpc, body, got>>

\* The number the four bytes at a position of the stream spell: the length of
\* the message that starts there, as a u32.
LengthAt(p) ==
  IF \E k \in DOMAIN start : start[k] = p
  THEN {sizes[k] % Wrap : k \in {j \in DOMAIN start : start[j] = p}}
  ELSE 0..(Wrap - 1)

\* Mutant: the buffer for the payload is one byte too long.
GotLen_mutant ==
  /\ rpc = "len" /\ need = 0
  /\ \E l \in LengthAt(rpos - Prefix) : need' = l + 1
  /\ rpc' = "body" /\ body' = rpos
  /\ UNCHANGED <<writer, sock, rbuf, rpos, got>>
GotLen ==
  /\ rpc = "len" /\ need = 0
  /\ need' \in LengthAt(rpos - Prefix)
  /\ rpc' = "body" /\ body' = rpos
  /\ UNCHANGED <<writer, sock, rbuf, rpos, got>>

\* bincode::deserialize gives message k for the whole of its payload (trailing
\* bytes are allowed) and an error, which is unwrapped, for less.
\* Mutant: a payload that ends early is accepted.
deserializes_mutant(k) == body = start[k] + Prefix
deserializes(k) == body = start[k] + Prefix /\ rpos >= body + sizes[k]

\* Mutant: a payload that fails to parse gives an empty message.
GotBody_mutant ==
  /\ rpc = "body" /\ need = 0
  /\ got' = got + 1
  /\ rpc' = IF got + 1 = N THEN "done" ELSE "len"
  /\ need' = IF got + 1 = N THEN 0 ELSE Prefix
  /\ UNCHANGED <<writer, sock, rbuf, rpos, body>>
GotBody ==
  /\ rpc = "body" /\ need = 0
  /\ IF deserializes(got + 1)
     THEN /\ got' = got + 1
          /\ rpc' = IF got + 1 = N THEN "done" ELSE "len"
          /\ need' = IF got + 1 = N THEN 0 ELSE Prefix
     ELSE rpc' = "panic" /\ UNCHANGED <<got, need>>
  /\ UNCHANGED <<writer, sock, rbuf, rpos, body>>

\* read_exact meets the end of the stream: the error is unwrapped.
\* Mutant: the end of the stream inside a payload is not noticed.
ReadFails_mutant ==
  /\ rpc = "len" /\ need > 0 /\ rbuf = 0 /\ sock = 0 /\ wpc \in Gone
  /\ rpc' = "panic"
  /\ UNCHANGED <<writer, sock, rbuf, need, rpos, body, got>>
ReadFails ==
  /\ Reading /\ need > 0 /\ rbuf = 0 /\ sock = 0 /\ wpc \in Gone
  /\ rpc' = "panic"
  /\ UNCHANGED <<writer, sock, rbuf, need, rpos, body, got>>

WriterNext == WriteLen \/ WriteBuffered \/ WriteDrains \/ Drained \/ Direct \/ Drain \/ Flushed \/ WriteFails
ReaderNext == Refill \/ ReadDirect \/ Copy \/ GotLen \/ GotBody \/ ReadFails

Next == WriterNext \/ Die \/ ReaderNext

\* Both threads run while they are not blocked; the writer need not die.
Spec == Init /\ [][Next]_vars /\ WF_vars(WriterNext) /\ WF_vars(ReaderNext)

-----------------------------------------------------------------------------
TypeOK ==
  /\ sizes \in [1..N -> Sizes]
  /\ wpc \in {"idle", "body", "drain", "direct", "flush", "closed", "dead"}
  /\ rpc \in {"len", "body", "done", "panic"}
  /\ start \in Seq(Nat) /\ Len(start) \in 0..N
  /\ wbuf \in 0..WCap /\ sock \in 0..SCap /\ rbuf \in 0..RCap
  /\ rest \in Nat /\ need \in Nat /\ rpos \in Nat /\ body \in Nat
  /\ got \in 0..N

\* Every call of read_msg starts where a message starts: whatever the sizes of
\* the buffers and of the pieces that arrive, the reader has eaten exactly the
\* frames it has returned.
InFrame ==
  rpc = "len" => \/ got < Len(start) /\ rpos + need = start[got + 1] + Prefix
                 \/ got = Len(start) /\ need = Prefix /\ (wpc \in Gone \/ rpos = Written)

\* A payload of 2^32 bytes or more is never taken for a message, and neither is
\* what its truncated prefix leaves of it (channel.rs:32).
OversizeNeverAccepted == \A k \in 1..got : sizes[k] < Wrap

Stream == INSTANCE MessageStream WITH begun <- Len(start), got <- got,
                                      broken <- rpc = "panic" \/ wpc = "dead"

\* The bytes implement the stream of messages: in order, none twice, none that
\* was not begun.
ImplementsStream == Stream!Spec

\* If the writer lives and every payload fits a u32, every message arrives.
Delivered ==
  (\A k \in DOMAIN sizes : sizes[k] < Wrap) /\ [](wpc # "dead") => <>(got = N /\ rpc = "done")

\* Neither end is left waiting for ever, with whatever sizes and deaths.
AllEnd == <>(wpc \in Gone /\ rpc \in {"done", "panic"})

=============================================================================
