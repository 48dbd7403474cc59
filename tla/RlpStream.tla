----------------------------- MODULE RlpStream -----------------------------
(* A Stream (common/rlp/decode.go) in the hands of a caller that makes any    *)
(* sequence of calls, also after errors and in the wrong order. Input is      *)
(* what the reader returns, byte by byte; a stream of DecodeBytes is limited  *)
(* to its length, one of a network reader is not limited.                     *)
EXTENDS RlpBytes

CONSTANT Inputs     \* the sequences of bytes that are read

\* the length of a slice is a uint64
ASSUME InputsAssumption == \A b \in Inputs : b \in Seq(Byte) /\ Len(b) < Uint64

VARIABLES
    input,      \* what the reader was given
    stream,     \* the Stream
    ends,       \* history: where each open list ends, innermost last
    intact      \* history: no read failed and no list was larger than the list it is in

streamVars == <<input, stream, ends, intact>>

Position == Len(input) - Len(stream.in)

StreamIdle == NewStream(<<>>, 0)

StreamInit ==
    /\ input = <<>>
    /\ stream = StreamIdle
    /\ ends = <<>>
    /\ intact = TRUE

\* NewStream with and without a limit, and NewListStream
Open ==
    /\ input = <<>>
    /\ \E b \in Inputs \ {<<>>} :
           /\ input' = b
           /\ stream' \in {NewStream(b, Len(b)), NewStream(b, 0), NewListStream(b, Len(b))}
    /\ ends' = <<>>
    /\ intact' = TRUE

\* errors that leave the reader where it is
Harmless == {"nil", "EOL", "EOF", "ExpectedString", "ExpectedList", "WrongSize",
             "UintOverflow", "NotInList", "NotAtEOL"}

\* a call that reads, with the result r
Call(r) ==
    /\ stream' = r.s
    /\ intact' = (intact /\ r.err \in Harmless)
    /\ UNCHANGED input

\* the list just entered does not fit in what its list has left after the tag
Oversized(size, k) == InList(stream) /\ size > listLimit(k.s)

CallKind == Call(Kind(stream)) /\ UNCHANGED ends
CallBytes == Call(Bytes(stream)) /\ UNCHANGED ends
CallReadBytes == Call(ReadBytes(stream, 1)) /\ UNCHANGED ends
CallRaw == Call(Raw(stream)) /\ UNCHANGED ends
CallUint == Call(Uint(stream, Long)) /\ UNCHANGED ends
CallBigInt == Call(BigInt(stream, TRUE)) /\ UNCHANGED ends

EnterList(r) ==
    /\ stream' = r.s
    /\ intact' = (intact /\ r.err \in Harmless /\ ~(r.err = "nil" /\ Oversized(r.v, Kind(stream))))
    /\ UNCHANGED input
    /\ ends' = IF r.err = "nil" THEN Append(ends, Len(input) - Len(r.s.in) + r.v) ELSE ends

CallList == EnterList(List(stream))

CallListEnd ==
    LET r == ListEnd(stream)
    IN  /\ Call(r)
        /\ ends' = IF r.err = "nil" THEN Front(ends) ELSE ends

StreamCall ==
    /\ input # <<>>
    /\ \/ CallKind \/ CallBytes \/ CallReadBytes \/ CallRaw \/ CallUint \/ CallBigInt
       \/ CallList \/ CallListEnd

StreamNext == Open \/ StreamCall

StreamSpec == StreamInit /\ [][StreamNext]_streamVars

-----------------------------------------------------------------------------
\* Bytes left in the n outermost open lists.
ListBytes(stack, n) ==
    LET sum[m \in 0 .. Len(stack)] == IF m = 0 THEN 0 ELSE sum[m - 1] + stack[m]
    IN  sum[n]

\* Bytes left in the open lists from the i-th inwards.
Budget(i) == ListBytes(stream.stack, Len(stream.stack)) - ListBytes(stream.stack, i - 1)

\* Whatever is called, in whatever order, as long as no read failed and no list
\* overran its own: the open lists of a limited Stream never promise more than the
\* input it may still read (the checks of Kind and willRead).
ListsFitInput ==
    (stream.limited /\ intact) => Budget(1) <= stream.remaining

\* As long as no read failed, the limits on the stack of a Stream say exactly
\* where each open list ends, whichever calls consumed its elements and
\* whichever were refused: after ListEnd the reader is at the list's end.
ListsEndWhereDeclared ==
    (intact /\ stream.kinderr = "nil") =>
        /\ Len(ends) = Len(stream.stack)
        /\ \A i \in DOMAIN ends : ends[i] = Position + Budget(i)

\* A Stream under any sequence of calls: no list beyond the input, and none that ends
\* elsewhere than it says (decode.go).
StreamKeepsLists == ListsFitInput /\ ListsEndWhereDeclared
=============================================================================
