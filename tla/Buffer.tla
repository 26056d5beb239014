------------------------------- MODULE Buffer -------------------------------
(***************************************************************************)
(* The growable byte container of src/src/Buffer.cpp (class Buffer over a  *)
(* buffer_t), as operators on a record                                     *)
(*     [data |-> the live bytes [0, len), cap |-> capacity].               *)
(* A buffer is owned by one ConnectionContext or UDP session and is only   *)
(* touched from event-loop callbacks, so the operations are atomic steps   *)
(* of the modules that use them (TCPRelay, UDPRelay).                      *)
(*                                                                         *)
(* Several operations memcpy without checking the capacity.  The model     *)
(* keeps every byte the code writes, so a write past the allocation shows  *)
(* up as Len(b.data) > b.cap, which Overflowed(b) names.                   *)
(***************************************************************************)
EXTENDS Integers, Sequences

CONSTANT DefaultCapacity    \* Buffer::BUF_DEFAULT_CAPACITY

ASSUME DefaultCapacity \in Nat \ {0}

\* Buffer::newBuf: an empty buffer of the default capacity.
NewBuf == [data |-> <<>>, cap |-> DefaultCapacity]

BufLen(b) == Len(b.data)

\* Buffer::operator[]: the byte at idx, taken modulo the capacity.
At(b, idx) == b.data[(idx % b.cap) + 1]

\* Buffer::bufRealloc: realloc to size bytes; the length is cut down to the
\* new capacity when it no longer fits.
BufRealloc(b, size) ==
    [data |-> SubSeq(b.data, 1, IF size < Len(b.data) THEN size ELSE Len(b.data)),
     cap  |-> size]

\* Buffer::copy(char*, char*): memcpy at back() and len += n, unchecked.
AppendRaw(b, s) == [b EXCEPT !.data = @ \o s]

\* Buffer::copy(const DataEvent&) and copy(const UDPDataEvent&): append in
\* place when it fits; otherwise, if the buffer is not full, realloc to
\* twice the event length and append; a full buffer drops the event.
CopyEvent(b, ev) ==
    IF Len(ev) = 0 THEN b
    ELSE IF Len(ev) + Len(b.data) <= b.cap THEN AppendRaw(b, ev)
    ELSE IF Len(b.data) < b.cap
         THEN AppendRaw(BufRealloc(b, 2 * Len(ev)), ev)
         ELSE b

\* Buffer::drop: no-op when asked for more than the length, otherwise the
\* remaining bytes move to the front.
Drop(b, n) ==
    IF Len(b.data) < n THEN b
    ELSE [b EXCEPT !.data = SubSeq(@, n + 1, Len(@))]

\* Buffer::clear and Buffer::setLength(0).
Clear(b) == [b EXCEPT !.data = <<>>]

\* Buffer::copyFromBegin(char*, size_t): memcpy to begin(), len = size,
\* unchecked.
CopyFromBegin(b, s) == [b EXCEPT !.data = s]

\* Buffer::copy(const Buffer&): memcpy of that's bytes, len = that.len,
\* unchecked.
CopyBuffer(b, that) == [b EXCEPT !.data = that.data]

\* The code has written past the end of the allocation.
Overflowed(b) == Len(b.data) > b.cap

=============================================================================
