----------------------------- MODULE WireProofs -----------------------------
(***************************************************************************)
(* The byte stream of channel.rs, for messages of any number and length and *)
(* buffers of any capacity: the reader never loses its place, a payload of   *)
(* 2^32 bytes or more is never accepted, and the bytes implement the stream  *)
(* of messages.                                                              *)
(***************************************************************************)
EXTENDS Wire, TLAPS

\* The position in the stream after message k.
End(k) == IF k = 0 THEN 0 ELSE start[k] + Prefix + sizes[k]

\* Messages follow each other without a gap.
Chained ==
  /\ \A k \in DOMAIN start : start[k] = End(k - 1)
  /\ \A j, k \in DOMAIN start : j < k => start[j] + Prefix <= start[k]

\* The bytes of the messages begun are accounted for, unless the writer died
\* and lost some.
Accounted ==
  /\ Written + rest <= End(Len(start))
  /\ wpc # "dead" => Written + rest = End(Len(start))
  /\ wpc \in {"idle", "closed"} => wbuf = 0
  /\ wpc \in {"idle", "closed", "flush"} => rest = 0

\* The reader is inside the frame of the message after the last one it has.
InPlace ==
  /\ got <= Len(start)
  /\ rpc = "len" => got < N /\ need <= Prefix /\ rpos + need = End(got) + Prefix
  /\ rpc = "body" => /\ got < Len(start)
                     /\ body = End(got) + Prefix
                     /\ rpos + need = body + (sizes[got + 1] % Wrap)

IInv == TypeOK /\ Chained /\ Accounted /\ InPlace /\ OversizeNeverAccepted

\* The remainder of a length by 2^32.
LEMMA Modulo ==
  ASSUME NEW s \in Nat, NEW w \in Nat \ {0}
  PROVE  /\ s % w \in Nat /\ s % w < w
         /\ s < w => s % w = s
  BY SMT

\* What the types say of the numbers at hand.
LEMMA Numbers ==
  ASSUME TypeOK
  PROVE  /\ Written \in Nat /\ Len(start) \in Nat /\ DOMAIN start = 1..Len(start)
         /\ \A k \in 1..N : sizes[k] \in Nat
         /\ \A k \in DOMAIN start : start[k] \in Nat
<1> USE WireAssumption
<1>1. Written \in Nat
  BY DEF TypeOK, Written
<1>2. start \in Seq(Nat) /\ sizes \in [1..N -> Sizes]
  BY DEF TypeOK
<1>3. Len(start) \in Nat /\ DOMAIN start = 1..Len(start)
  BY <1>2
<1>4. \A k \in DOMAIN start : start[k] \in Nat
  BY <1>2
<1>5. \A k \in 1..N : sizes[k] \in Nat
  BY <1>2
<1> QED
  BY <1>1, <1>3, <1>4, <1>5

\* Ends of frames are numbers.
LEMMA EndNat ==
  ASSUME TypeOK, NEW k \in 0..Len(start)
  PROVE  End(k) \in Nat
<1>1. k = 0 \/ (k \in DOMAIN start /\ k \in 1..N)
  BY Numbers, WireAssumption DEF TypeOK
<1> QED
  BY <1>1, Numbers, WireAssumption DEF End

\* A connection starts with nothing in flight.
LEMMA InitIInv == Init => IInv
<1> SUFFICES ASSUME Init PROVE IInv
  OBVIOUS
<1> USE WireAssumption
<1>1. Len(start) = 0 /\ DOMAIN start = {} /\ start \in Seq(Nat)
  BY DEF Init
<1>2. TypeOK
  BY <1>1 DEF Init, TypeOK
<1>3. Chained
  BY <1>1 DEF Chained
<1>4. Accounted
  BY <1>1 DEF Init, Accounted, Written, End
<1>5. InPlace
  BY <1>1 DEF Init, InPlace, End
<1>6. OversizeNeverAccepted
  BY DEF Init, OversizeNeverAccepted
<1> QED
  BY <1>2, <1>3, <1>4, <1>5, <1>6 DEF IInv

\* Every action keeps the invariant.
LEMMA NextIInv == IInv /\ [Next]_vars => IInv'
<1> SUFFICES ASSUME IInv, [Next]_vars PROVE IInv'
  OBVIOUS
<1> USE WireAssumption
<1>0. TypeOK /\ Chained /\ Accounted /\ InPlace /\ OversizeNeverAccepted
  BY DEF IInv
<1>a. CASE WriteLen
  <2> DEFINE L == Len(start)
  <2>1. L \in Nat /\ L < N /\ L + 1 \in 1..N
    BY <1>a, <1>0 DEF WriteLen, TypeOK
  <2>2. Written \in Nat /\ Written = End(L)
    BY <1>a, <1>0, Numbers, EndNat, <2>1 DEF WriteLen, Accounted, TypeOK
  <2>3. /\ Len(start') = L + 1 /\ start'[L + 1] = Written
        /\ start' \in Seq(Nat)
        /\ \A k \in 1..L : start'[k] = start[k]
        /\ DOMAIN start' = 1..(L + 1) /\ DOMAIN start = 1..L
    BY <1>a, <1>0, <2>2 DEF WriteLen, TypeOK
  <2>4. sizes' = sizes /\ \A k \in 0..L : End(k)' = End(k)
    BY <1>a, <2>3, <2>1 DEF WriteLen, End
  <2>5. TypeOK'
    BY <1>a, <1>0, <2>1, <2>3 DEF WriteLen, TypeOK, Accounted, reader
  <2>6. Chained'
    <3>1. \A k \in DOMAIN start' : start'[k] = End(k - 1)'
      BY <1>0, <2>1, <2>2, <2>3, <2>4 DEF Chained
    <3>2. \A j \in 1..L : start[j] + Prefix <= Written
      <4> SUFFICES ASSUME NEW j \in 1..L PROVE start[j] + Prefix <= Written
        OBVIOUS
      <4>0. L \in DOMAIN start /\ j \in DOMAIN start /\ L # 0 /\ j <= L /\ L \in 1..N
        BY <2>1, <2>3
      <4>3. start[L] \in Nat /\ start[j] \in Nat /\ sizes[L] \in Nat
        BY <4>0, Numbers, <1>0
      <4>1. start[L] + Prefix <= Written
        BY <2>2, <4>0, <4>3 DEF End
      <4>2. j = L \/ start[j] + Prefix <= start[L]
        BY <1>0, <2>1, <4>0 DEF Chained
      <4> QED
        BY <4>1, <4>2, <4>3, <2>2
    <3>3. ASSUME NEW j \in DOMAIN start', NEW k \in DOMAIN start', j < k
          PROVE  start'[j] + Prefix <= start'[k]
      <4>1. j \in 1..L /\ start'[j] = start[j] /\ (k = L + 1 \/ k \in 1..L)
        BY <3>3, <2>1, <2>3
      <4>2. CASE k = L + 1
        BY <4>1, <4>2, <3>2, <2>3
      <4>3. CASE k \in 1..L
        BY <4>1, <4>3, <3>3, <2>3, <1>0 DEF Chained
      <4> QED
        BY <4>1, <4>2, <4>3
    <3> QED
      BY <3>1, <3>3 DEF Chained
  <2>7. Accounted'
    <3>1. Written' = Written + Prefix /\ rest' = sizes[L + 1] /\ wpc' = "body"
      BY <1>a, <1>0 DEF WriteLen, Written, reader, TypeOK
    <3>2. End(Len(start))' = Written + Prefix + sizes[L + 1]
      BY <2>1, <2>3, <2>4 DEF End
    <3> QED
      BY <3>1, <3>2, <2>1, <2>2, Numbers, <1>0 DEF Accounted
  <2>8. InPlace' /\ OversizeNeverAccepted'
    <3>1. UNCHANGED reader /\ got \in 0..L
      BY <1>a, <1>0, <2>1 DEF WriteLen, InPlace, TypeOK
    <3>2. End(got)' = End(got)
      BY <3>1, <2>4 DEF reader, End
    <3> QED
      BY <3>1, <3>2, <2>1, <2>3, <2>4, <1>0 DEF InPlace, OversizeNeverAccepted, reader
  <2> QED
    BY <2>5, <2>6, <2>7, <2>8 DEF IInv
<1>b. ASSUME UNCHANGED <<sizes, start>>
      PROVE  Chained' /\ \A k : End(k)' = End(k)
  BY <1>b, <1>0 DEF Chained, End
<1>c. ASSUME UNCHANGED <<sizes, start, rpc, need, rpos, body, got>>
      PROVE  InPlace' /\ OversizeNeverAccepted'
  BY <1>b, <1>c, <1>0 DEF InPlace, OversizeNeverAccepted, End
<1>d. CASE WriteBuffered \/ WriteDrains \/ Drained \/ Direct \/ Drain \/ Flushed
           \/ WriteFails \/ Die \/ Refill
  <2>1. UNCHANGED <<sizes, start, rpc, need, rpos, body, got>>
    BY <1>d DEF WriteBuffered, WriteDrains, Drained, Direct, Drain, Flushed, WriteFails,
                Die, Refill, reader, writer
  <2>2. TypeOK'
    BY <1>d, <1>0, <2>1 DEF WriteBuffered, WriteDrains, Drained, Direct, Drain, Flushed,
                WriteFails, Die, Refill, reader, writer, TypeOK, Least
  <2>3. Accounted'
    <3> DEFINE E == End(Len(start))
    <3>1. E \in Nat /\ E' = E
      BY <1>b, <2>1, EndNat, <1>0 DEF TypeOK
    <3> HIDE DEF E
    <3>2. Written + rest <= E /\ (wpc # "dead" => Written + rest = E)
          /\ (wpc \in {"idle", "closed"} => wbuf = 0)
          /\ (wpc \in {"idle", "closed", "flush"} => rest = 0)
      BY <1>0 DEF Accounted, E
    <3>3. Written' + rest' <= E /\ (wpc' # "dead" => Written' + rest' = E)
          /\ (wpc' \in {"idle", "closed"} => wbuf' = 0)
          /\ (wpc' \in {"idle", "closed", "flush"} => rest' = 0)
      <4> USE <1>0, <2>1, <3>1, <3>2 DEF TypeOK, Written, reader, writer
      <4>1. CASE WriteBuffered
        BY <4>1 DEF WriteBuffered
      <4>2. CASE WriteDrains \/ Drained \/ Flushed
        BY <4>2 DEF WriteDrains, Drained, Flushed
      <4>3. CASE Direct
        BY <4>3 DEF Direct, Least
      <4>4. CASE Drain
        BY <4>4 DEF Drain, Least
      <4>5. CASE WriteFails \/ Die
        BY <4>5 DEF WriteFails, Die
      <4>6. CASE Refill
        BY <4>6 DEF Refill, Least
      <4> QED
        BY <1>d, <4>1, <4>2, <4>3, <4>4, <4>5, <4>6
    <3> QED
      BY <3>1, <3>3 DEF Accounted, E
  <2> QED
    BY <1>b, <1>c, <2>1, <2>2, <2>3 DEF IInv
<1>e. ASSUME UNCHANGED writer, Written' = Written
      PROVE  Chained' /\ Accounted' /\ \A k : End(k)' = End(k)
  BY <1>b, <1>e, <1>0 DEF Accounted, writer, End
<1>f. CASE ReadDirect \/ Copy
  <2>1. TypeOK' /\ UNCHANGED <<writer, rpc, body, got>> /\ Written' = Written
        /\ rpos' + need' = rpos + need /\ need' <= need
    <3>1. CASE ReadDirect
      BY <3>1, <1>0 DEF ReadDirect, TypeOK, Written, Least, writer
    <3>2. CASE Copy
      BY <3>2, <1>0 DEF Copy, TypeOK, Written, Least, writer
    <3> QED
      BY <1>f, <3>1, <3>2
  <2>2. InPlace' /\ OversizeNeverAccepted'
    <3>1. End(got)' = End(got) /\ UNCHANGED <<start, sizes>>
      BY <2>1, <1>e DEF writer, End
    <3>2. TypeOK'
      BY <2>1
    <3>3. OversizeNeverAccepted'
      BY <1>0, <2>1, <3>1 DEF OversizeNeverAccepted
    <3>4. need \in Nat /\ need' \in Nat
      BY <1>0, <3>2 DEF TypeOK
    <3>5. InPlace'
      BY <1>0, <2>1, <3>1, <3>4 DEF InPlace
    <3> QED
      BY <3>3, <3>5
  <2> QED
    BY <1>e, <2>1, <2>2 DEF IInv
<1>g. CASE GotLen
  <2>1. UNCHANGED <<writer, got, sock, rbuf, rpos>> /\ Written' = Written
    BY <1>g DEF GotLen, Written, writer
  <2>2. got < Len(start) /\ rpos = End(got) + Prefix
    <3>1. got <= Len(start) /\ rpos = End(got) + Prefix
      BY <1>g, <1>0, EndNat DEF GotLen, InPlace, TypeOK
    <3>2. rpos <= Written /\ Written <= End(Len(start))
      BY <1>0, EndNat, Numbers DEF TypeOK, Written, Accounted
    <3>3. Len(start) \in Nat /\ got \in Nat /\ End(Len(start)) \in Nat /\ Written \in Nat
          /\ rpos \in Nat
      BY <1>0, EndNat, Numbers DEF TypeOK
    <3>4. got # Len(start)
      BY <3>1, <3>2, <3>3
    <3> QED
      BY <3>1, <3>3, <3>4
  <2>3. got + 1 \in DOMAIN start /\ got + 1 \in 1..N /\ start[got + 1] = End(got)
        /\ rpos - Prefix = start[got + 1] /\ sizes[got + 1] \in Nat
    <3>1. got \in 0..Len(start) /\ got + 1 \in DOMAIN start /\ got + 1 \in 1..N
      BY <1>0, <2>2, Numbers DEF TypeOK
    <3>2. start[got + 1] = End(got)
      BY <3>1, <1>0 DEF Chained
    <3>3. End(got) \in Nat /\ sizes[got + 1] \in Nat
      BY <3>1, <1>0, Numbers, EndNat
    <3> QED
      BY <2>2, <3>1, <3>2, <3>3
  <2>4. \A k \in DOMAIN start : start[k] = rpos - Prefix => k = got + 1
    BY <1>0, <2>3, Numbers DEF Chained
  <2>5. LengthAt(rpos - Prefix) = {sizes[got + 1] % Wrap}
    BY <2>3, <2>4 DEF LengthAt
  <2>6. need' = sizes[got + 1] % Wrap /\ need' \in Nat
    BY <1>g, <2>3, <2>5, Modulo DEF GotLen
  <2>7. TypeOK'
    BY <1>g, <2>1, <2>6, <1>0 DEF GotLen, TypeOK, writer
  <2>8. InPlace' /\ OversizeNeverAccepted'
    BY <1>g, <1>0, <2>1, <2>2, <2>6, <1>e DEF GotLen, InPlace, OversizeNeverAccepted, writer, End, TypeOK
  <2> QED
    BY <1>e, <2>1, <2>7, <2>8 DEF IInv
<1>h. CASE GotBody
  <2>1. UNCHANGED <<writer, sock, rbuf, rpos, body>> /\ Written' = Written
    BY <1>h DEF GotBody, Written, writer
  <2>2. got + 1 \in DOMAIN start /\ got + 1 \in 1..N /\ start[got + 1] = End(got)
        /\ sizes[got + 1] \in Nat /\ body = End(got) + Prefix
        /\ rpos = body + (sizes[got + 1] % Wrap) /\ End(got) \in Nat
    <3>1. rpc = "body" /\ need = 0
      BY <1>h DEF GotBody
    <3>2. got \in 0..Len(start) /\ got + 1 \in DOMAIN start /\ got + 1 \in 1..N
      BY <1>0, <3>1, Numbers DEF TypeOK, InPlace
    <3>3. start[got + 1] = End(got)
      BY <3>2, <1>0 DEF Chained
    <3>4. End(got) \in Nat /\ sizes[got + 1] \in Nat /\ sizes[got + 1] % Wrap \in Nat
      BY <3>2, <1>0, Numbers, EndNat, Modulo
    <3>5. rpos \in Nat /\ body = End(got) + Prefix /\ rpos + need = body + (sizes[got + 1] % Wrap)
      BY <3>1, <1>0 DEF TypeOK, InPlace
    <3> QED
      BY <3>1, <3>2, <3>3, <3>4, <3>5
  <2>3. CASE deserializes(got + 1)
    <3>1. sizes[got + 1] < Wrap /\ rpos = End(got) + Prefix + sizes[got + 1]
      <4> DEFINE s == sizes[got + 1]
      <4>0. s \in Nat
        BY <2>2
      <4>1. s % Wrap \in Nat /\ s % Wrap < Wrap /\ (s < Wrap => s % Wrap = s)
        BY ONLY <4>0, Modulo, WireAssumption
      <4>2. body + (s % Wrap) >= body + s /\ body \in Nat
        BY <2>2, <2>3 DEF deserializes
      <4> HIDE DEF s
      <4>3. s % Wrap = s /\ s < Wrap
        BY <4>0, <4>1, <4>2
      <4> QED
        BY <4>3, <2>2 DEF s
    <3>2. rpos = End(got + 1)
      BY <2>2, <3>1, <1>0 DEF End, TypeOK
    <3>3. TypeOK'
      <4>0. got' = got + 1 /\ got + 1 \in 1..N /\ need' \in {0, Prefix} /\ rpc' \in {"len", "done"}
        BY <1>h, <2>2, <2>3 DEF GotBody
      <4>1. got' \in 0..N /\ need' \in Nat /\ rpc' \in {"len", "done"}
        BY <4>0, Numbers
      <4> QED
        BY <4>1, <1>0, <2>1 DEF TypeOK, writer
    <3>4. OversizeNeverAccepted'
      <4>1. got' = got + 1 /\ sizes' = sizes /\ got \in Nat
        BY <1>h, <2>1, <2>3, <1>0 DEF GotBody, writer, TypeOK
      <4> QED
        BY <4>1, <3>1, <1>0 DEF OversizeNeverAccepted
    <3>5. got' = got + 1 /\ End(got)' = End(got + 1) /\ got \in Nat /\ Len(start)' = Len(start)
          /\ rpos' = rpos
      BY <1>h, <1>0, <2>1, <2>3 DEF GotBody, TypeOK, writer, End
    <3>6. InPlace'
      <4>1. got + 1 <= Len(start) /\ got + 1 <= N /\ N \in Nat /\ Len(start) \in Nat
        BY <2>2, <3>5, Numbers, <1>0
      <4>2. \/ rpc' = "done"
            \/ rpc' = "len" /\ need' = Prefix /\ got + 1 # N
        BY <1>h, <2>3 DEF GotBody
      <4> QED
        BY <3>2, <3>5, <4>1, <4>2 DEF InPlace
    <3> QED
      BY <1>e, <2>1, <3>3, <3>4, <3>6 DEF IInv
  <2>4. CASE ~deserializes(got + 1)
    <3>1. UNCHANGED <<got, need>> /\ rpc' = "panic"
      BY <1>h, <2>4 DEF GotBody
    <3>2. TypeOK' /\ InPlace' /\ OversizeNeverAccepted'
      BY <3>1, <2>1, <1>0 DEF TypeOK, InPlace, OversizeNeverAccepted, writer
    <3> QED
      BY <1>e, <2>1, <3>2 DEF IInv
  <2> QED
    BY <2>3, <2>4
<1>i. CASE ReadFails
  <2>1. UNCHANGED <<writer, sock, rbuf, need, rpos, body, got>> /\ rpc' = "panic" /\ Written' = Written
    BY <1>i DEF ReadFails, Written, writer
  <2>2. TypeOK' /\ InPlace' /\ OversizeNeverAccepted'
    BY <2>1, <1>0 DEF TypeOK, InPlace, OversizeNeverAccepted, writer
  <2> QED
    BY <1>e, <2>1, <2>2 DEF IInv
<1>j. CASE UNCHANGED vars
  BY <1>j, <1>0 DEF vars, IInv, TypeOK, Chained, Accounted, InPlace, OversizeNeverAccepted, Written, End
<1> QED
  BY <1>a, <1>d, <1>f, <1>g, <1>h, <1>i, <1>j DEF Next, WriterNext, ReaderNext

\* The invariant holds throughout.
LEMMA Inductive == Spec => []IInv
<1>1. Init => IInv
  BY InitIInv
<1>2. IInv /\ [Next]_vars => IInv'
  BY NextIInv
<1> QED
  BY <1>1, <1>2, PTL DEF Spec

\* TypeOK: no buffer of the connection ever holds more than its capacity, however
\* write_msg's calls split a frame.
THEOREM BuffersHold == Spec => []TypeOK
<1>1. IInv => TypeOK
  BY DEF IInv
<1> QED
  BY <1>1, Inductive, PTL

\* InFrame: every call of read_msg starts at the first byte of a frame.
THEOREM KeepsPlace == Spec => []InFrame
<1>1. IInv => InFrame
  <2> SUFFICES ASSUME IInv, rpc = "len" PROVE InFrame
    BY DEF InFrame
  <2> USE WireAssumption
  <2>1. TypeOK /\ Chained /\ Accounted /\ InPlace
    BY DEF IInv
  <2>2. got \in Nat /\ Len(start) \in Nat /\ rpos \in Nat /\ need \in Nat /\ End(got) \in Nat
        /\ Written \in Nat /\ rest \in Nat /\ rpos <= Written
    BY <2>1, Numbers, EndNat DEF TypeOK, InPlace, Written
  <2>3. CASE got < Len(start)
    <3>1. start[got + 1] = End(got)
      BY <2>1, <2>2, <2>3 DEF Chained, TypeOK
    <3> QED
      BY <3>1, <2>1, <2>3 DEF InFrame, InPlace
  <2>4. CASE got = Len(start)
    <3>1. need <= Prefix /\ rpos + need = End(got) + Prefix /\ Written + rest <= End(got)
          /\ (wpc # "dead" => Written + rest = End(got))
      BY <2>1, <2>4 DEF InPlace, Accounted
    <3>2. need = Prefix /\ (wpc = "dead" \/ rpos = Written)
      BY <3>1, <2>2
    <3> QED
      BY <3>2, <2>4 DEF InFrame, Gone
  <2> QED
    BY <2>1, <2>2, <2>3, <2>4 DEF InPlace
<1> QED
  BY <1>1, Inductive, PTL

\* OversizeNeverAccepted: a message read_msg returns was shorter than 2^32 bytes.
THEOREM TruncatedRefused == Spec => []OversizeNeverAccepted
<1>1. IInv => OversizeNeverAccepted
  BY DEF IInv
<1> QED
  BY <1>1, Inductive, PTL

\* ImplementsStream: whatever the buffers do, read_msg and write_msg implement
\* the stream of messages.
THEOREM StreamImplemented == Spec => ImplementsStream
<1>1. Init => Stream!Init
  BY DEF Init, Stream!Init
<1>2. IInv /\ [Next]_vars => [Stream!Next]_<<Len(start), got, rpc = "panic" \/ wpc = "dead">>
  <2> SUFFICES ASSUME IInv, [Next]_vars
               PROVE  Stream!Next \/ UNCHANGED <<Len(start), got, rpc = "panic" \/ wpc = "dead">>
    OBVIOUS
  <2> USE DEF Stream!Next, Stream!Begin, Stream!Deliver, Stream!Break
  <2>0. TypeOK /\ InPlace
    BY DEF IInv
  <2>1. CASE WriteLen
    BY <2>1, <2>0 DEF WriteLen, TypeOK, reader
  <2>2. CASE WriteBuffered \/ WriteDrains \/ Drained \/ Direct \/ Drain \/ Flushed \/ Refill
             \/ ReadDirect \/ Copy \/ GotLen
    BY <2>2 DEF WriteBuffered, WriteDrains, Drained, Direct, Drain, Flushed, Refill, ReadDirect,
                Copy, GotLen, reader, writer, Reading
  <2>3. CASE WriteFails \/ Die
    BY <2>3 DEF WriteFails, Die, reader, Gone
  <2>4. CASE ReadFails
    BY <2>4 DEF ReadFails, writer, Reading
  <2>5. CASE GotBody
    BY <2>5, <2>0 DEF GotBody, writer, InPlace
  <2>6. CASE UNCHANGED vars
    BY <2>6 DEF vars
  <2> QED
    BY <2>1, <2>2, <2>3, <2>4, <2>5, <2>6 DEF Next, WriterNext, ReaderNext
<1> QED
  BY <1>1, <1>2, Inductive, PTL DEF Spec, ImplementsStream, Stream!Spec

=============================================================================
