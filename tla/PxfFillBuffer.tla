---------------------------- MODULE PxfFillBuffer ----------------------------
(***************************************************************************)
(* The buffered fill loop of the FDW read path (src/fdw/pxf_bridge.c       *)
(* FillBuffer and its caller PxfBridgeRead), as COPY FROM drives it: each  *)
(* call asks for at least minlen and at most maxlen bytes; FillBuffer      *)
(* issues churl_read for the space left until minlen is reached or a read  *)
(* returns 0; PxfBridgeRead then runs the connectivity check on a 0 result.*)
(*                                                                         *)
(* The transport is the sequence of chunk sizes the network delivers, in  *)
(* order: churl_read(size) returns min(size, head chunk) bytes and keeps   *)
(* the rest of that chunk; an empty sequence is the end of the stream; a   *)
(* 0 chunk is a read that returned 0 bytes with the stream still open     *)
(* (a stall).  `dropped` says whether the transfer ended with an error.   *)
(***************************************************************************)
EXTENDS Naturals, Sequences, SequencesExt

CONSTANTS
    MaxLen,      \* largest maxlen COPY asks for
    MaxChunk,    \* largest chunk the network delivers at once
    MaxChunks,   \* longest stream, in chunks
    Stalls,      \* may churl_read return 0 bytes before the end of the stream?
    Bridges      \* the bridges explored: "fdw" (pxf_bridge.c), "ext" (pxfbridge.c)

ASSUME MaxLen \in Nat \ {0} /\ MaxChunk \in Nat \ {0} /\ MaxChunks \in Nat
ASSUME Stalls \in BOOLEAN /\ Bridges \subseteq {"fdw", "ext"}

VARIABLES
    stream,     \* the whole stream (chunk sizes) of the transfer
    dropped,    \* did the transfer end with an error?
    chunks,     \* what the transport still holds
    got,        \* bytes returned to COPY so far
    result,     \* outcome of the last PxfBridgeRead: "none", "data", "eof", "error"
    last,       \* the last call: its minlen, maxlen, chunks at its start and return value
    bridge      \* which bridge's read path the session uses

vars == <<stream, dropped, chunks, got, result, last, bridge>>

ChunkSizes == IF Stalls THEN 0..MaxChunk ELSE 1..MaxChunk
Total(cs) == FoldLeft(LAMBDA x, y : x + y, 0, cs)

\* churl_read(handle, buf, size) on the transport cs: the bytes it returns
\* and the transport left behind.
ChurlRead(cs, size) ==
    IF cs = <<>> THEN [n |-> 0, rest |-> cs]
    ELSE IF Head(cs) <= size
         THEN [n |-> Head(cs), rest |-> Tail(cs)]
         ELSE [n |-> size, rest |-> <<Head(cs) - size>> \o Tail(cs)]

-----------------------------------------------------------------------------
(* FillBuffer (PG_VERSION_NUM >= 90600).                                   *)

\* Mutant: each read asks for one byte less than the space left.
ReadRequestShort(ptr, maxlen) == maxlen - ptr - 1

\* The size of each read: maxend - ptr.
ReadRequest(ptr, maxlen) == maxlen - ptr

\* Mutant: the loop runs until maxlen instead of minlen.
RECURSIVE FillBufferUntilMax(_, _, _, _)
FillBufferUntilMax(ptr, minlen, maxlen, cs) ==
    IF ptr >= maxlen THEN [n |-> ptr, rest |-> cs]
    ELSE LET r == ChurlRead(cs, ReadRequest(ptr, maxlen))
         IN IF r.n = 0 THEN [n |-> ptr, rest |-> r.rest]
            ELSE FillBufferUntilMax(ptr + r.n, minlen, maxlen, r.rest)

\* while (ptr < minend) { n = churl_read(..., maxend - ptr); if (n == 0)
\* break; ptr += n; } return ptr - start.  The bytes placed in the buffer
\* and the transport left behind.
RECURSIVE FillBuffer(_, _, _, _)
FillBuffer(ptr, minlen, maxlen, cs) ==
    IF ptr >= minlen THEN [n |-> ptr, rest |-> cs]
    ELSE LET r == ChurlRead(cs, ReadRequest(ptr, maxlen))
         IN IF r.n = 0 THEN [n |-> ptr, rest |-> r.rest]
            ELSE FillBuffer(ptr + r.n, minlen, maxlen, r.rest)

\* fill_buffer of the external-table bridge: while (ptr < end) { n =
\* churl_read(..., end - ptr); if (n == 0) break; ptr += n; }, the loop
\* above with minend = maxend = start + size.
fill_buffer(size, cs) == FillBuffer(0, size, size, cs)

\* PxfBridgeRead's outcome for n bytes: data, or on n = 0
\* churl_read_check_connectivity, which raises ERROR for a failed transfer.
ReadOutcome(n, drop) ==
    IF n > 0 THEN "data" ELSE IF drop THEN "error" ELSE "eof"

-----------------------------------------------------------------------------

\* COPY asks PxfBridgeRead for minlen..maxlen bytes (CopyGetData asks for at
\* least 1); a call after EOF or ERROR does not happen.
PxfBridgeRead ==
    /\ bridge = "fdw"
    /\ result \in {"none", "data"}
    /\ \E maxlen \in 1..MaxLen, minlen \in 1..MaxLen :
         /\ minlen <= maxlen
         /\ LET f == FillBuffer(0, minlen, maxlen, chunks)
            IN /\ chunks' = f.rest
               /\ got' = got + f.n
               /\ result' = ReadOutcome(f.n, dropped)
               /\ last' = [minlen |-> minlen, maxlen |-> maxlen, start |-> chunks, n |-> f.n]
    /\ UNCHANGED <<stream, dropped, bridge>>

\* The protocol's read call asks gpbridge_read for datalen bytes; on n = 0
\* context->completed is set and churl_read_check_connectivity raises for a
\* failed transfer (the completed flag is the "eof"/"error" result here).
gpbridge_read ==
    /\ bridge = "ext"
    /\ result \in {"none", "data"}
    /\ \E datalen \in 1..MaxLen :
         LET f == fill_buffer(datalen, chunks)
         IN /\ chunks' = f.rest
            /\ got' = got + f.n
            /\ result' = ReadOutcome(f.n, dropped)
            /\ last' = [minlen |-> datalen, maxlen |-> datalen, start |-> chunks, n |-> f.n]
    /\ UNCHANGED <<stream, dropped, bridge>>

\* Every stream of at most MaxChunks chunks, ending cleanly or not.
Init ==
    /\ stream \in UNION {[1..k -> ChunkSizes] : k \in 0..MaxChunks}
    /\ dropped \in BOOLEAN
    /\ chunks = stream
    /\ got = 0
    /\ result = "none"
    /\ last = [minlen |-> 0, maxlen |-> 0, start |-> stream, n |-> 0]
    /\ bridge \in Bridges

Next == PxfBridgeRead \/ gpbridge_read

Spec == Init /\ [][Next]_vars

-----------------------------------------------------------------------------
(* Reference: the contract of the fill loop (spec 4.4), stated without the *)
(* loop.                                                                   *)

\* The chunks readable before the first 0-byte read.
Readable(cs) ==
    LET z == SelectInSeq(cs, LAMBDA c : c = 0)
    IN IF z = 0 THEN cs ELSE SubSeq(cs, 1, z - 1)

\* The smallest prefix of the readable chunks reaching minlen, capped at
\* maxlen; or everything readable when no prefix reaches minlen.
RefFill(cs, minlen, maxlen) ==
    LET a == Readable(cs)
        ks == {k \in 0..Len(a) : Total(SubSeq(a, 1, k)) >= minlen}
    IN IF ks = {} THEN Total(a)
       ELSE LET s == Total(SubSeq(a, 1, Min(ks)))
            IN IF s < maxlen THEN s ELSE maxlen

\* Each PxfBridgeRead returns exactly what the contract says: never more
\* than maxlen (no overrun of COPY's buffer), at least minlen unless the
\* stream has stopped, and no byte more than the first prefix that reaches
\* minlen (a call does not wait for data it was not asked to wait for).
FillMatchesReference ==
    result # "none" => last.n = RefFill(last.start, last.minlen, last.maxlen)

\* COPY sees end of data only when the whole stream has been returned to
\* it and the transfer ended cleanly; a failed transfer is reported as an
\* ERROR, never as a clean end (spec 4.2 read, 4.4).
EofOnlyAtEnd ==
    /\ result = "eof" => got = Total(stream) /\ ~dropped
    /\ result = "error" => dropped

=============================================================================
