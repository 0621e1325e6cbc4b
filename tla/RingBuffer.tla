----------------------------- MODULE RingBuffer -----------------------------
(***************************************************************************)
(* The ring buffer of ringbuffer/: two positions that run freely through    *)
(* the whole range of an unsigned integer and are masked into the buffer    *)
(* when they are used.  It has one user; what is hard is the arithmetic.    *)
(*                                                                          *)
(* x & (size - 1) is written x % size: the sizes are powers of two, as the  *)
(* comment in rb_is_full demands and MCStructures assumes.                 *)
(***************************************************************************)
EXTENDS Integers, Sequences, FiniteSetsExt

CONSTANTS Bits,     \* the width of a position: 32 in the code
          Sizes,    \* the sizes given to rb_init
          Bytes,
          Garbage,  \* what malloc left in a byte
          MaxRequest \* bound: how many bytes a call asks for

Range32 == 2 ^ Bits

VARIABLES buf, size, read_pos, write_pos,
          src,      \* the bytes given to the last call, if it was an rb_write
          dst,      \* the bytes the last call copied out, if it was an rb_read
          ret       \* what the last rb_write or rb_read returned

vars == <<buf, size, read_pos, write_pos, src, dst, ret>>

MinusOne == Range32 - 1   \* -1 as the uint32_t the functions return

rb_init(sz) == /\ buf' = [i \in 0 .. sz - 1 |-> Garbage]
               /\ size' = sz
               /\ read_pos' = Range32 - 3
               /\ write_pos' = Range32 - 3
               /\ src' = <<>> /\ dst' = <<>> /\ UNCHANGED ret

Init == \E sz \in Sizes : /\ buf = [i \in 0 .. sz - 1 |-> Garbage]
                          /\ size = sz
                          /\ read_pos = Range32 - 3
                          /\ write_pos = Range32 - 3
                          /\ src = <<>> /\ dst = <<>> /\ ret = 0

rb_free == /\ buf' = <<>>
           /\ size' = 0 /\ read_pos' = 0 /\ write_pos' = 0
           /\ src' = <<>> /\ dst' = <<>> /\ UNCHANGED ret

-----------------------------------------------------------------------------
rb_length == (write_pos - read_pos) % Range32
rb_remain == (size - rb_length) % Range32
rb_is_empty == read_pos = write_pos
rb_is_full == size = (write_pos - read_pos) % Range32

\* The place of a position in buf, and the bytes from there to the end of buf:
\* size - pos & (size - 1) parses as (size - pos) & (size - 1).
Offset(pos) == pos % size

ToEnd(pos) == ((size - pos) % Range32) % size

\* memcpy of bytes to b, from the place at on.
Copied(b, at, bytes) ==
  [i \in DOMAIN b |-> IF i - at \in 0 .. Len(bytes) - 1 THEN bytes[i - at + 1] ELSE b[i]]

\* Slip: the second copy begins with the first byte of the source again.
RestFromStart(bytes, i) == SubSeq(bytes, 1, Len(bytes) - i)

\* What is left of the source after the first copy, of i bytes.
Rest(bytes, i) == SubSeq(bytes, i + 1, Len(bytes))

\* memcpy of n bytes from buf, from the place at on.
Taken(at, n) == [i \in 1 .. n |-> buf[at + i - 1]]

Refused(src_sz) == src_sz > rb_remain

Advanced(pos, n) == (pos + n) % Range32

\* A buffer is written and read between its rb_init and its rb_free.

rb_write(src_buf) ==
  /\ buf # <<>>
  /\ src' = src_buf /\ dst' = <<>>
  /\ IF Refused(Len(src_buf))
     THEN ret' = MinusOne /\ UNCHANGED <<buf, write_pos>>
     ELSE LET i == Min({Len(src_buf), ToEnd(write_pos)}) IN
          /\ buf' = Copied(Copied(buf, Offset(write_pos), SubSeq(src_buf, 1, i)),
                           0, Rest(src_buf, i))
          /\ write_pos' = Advanced(write_pos, Len(src_buf))
          /\ ret' = Len(src_buf)
  /\ UNCHANGED <<size, read_pos>>

rb_read(dst_sz) ==
  /\ buf # <<>>
  /\ src' = <<>>
  /\ IF rb_is_empty
     THEN ret' = MinusOne /\ dst' = <<>> /\ UNCHANGED read_pos
     ELSE LET n == Min({dst_sz, rb_length})
              i == Min({n, ToEnd(read_pos)}) IN
          /\ dst' = Taken(Offset(read_pos), i) \o Taken(0, n - i)
          /\ read_pos' = Advanced(read_pos, n)
          /\ ret' = n
  /\ UNCHANGED <<buf, size, write_pos>>

Next == \/ \E n \in 0 .. MaxRequest : (\E src_buf \in [1 .. n -> Bytes] : rb_write(src_buf)) \/ rb_read(n)
        \/ rb_free
        \/ buf = <<>> /\ \E sz \in Sizes : rb_init(sz)

Spec == Init /\ [][Next]_vars

-----------------------------------------------------------------------------
(* Properties                                                               *)

TypeOK == /\ size \in Sizes \cup {0}
          /\ buf \in [0 .. size - 1 -> Bytes \cup {Garbage}]
          /\ read_pos \in 0 .. Range32 - 1 /\ write_pos \in 0 .. Range32 - 1
          /\ src \in Seq(Bytes) /\ dst \in Seq(Bytes)
          /\ ret \in 0 .. Range32 - 1

\* The unread bytes, in the places read_pos and those after it fall on.
Unread == [i \in 1 .. rb_length |-> buf[Offset(read_pos + i - 1)]]

\* The distance of the positions is the number of unread bytes also when they are
\* on different sides of the wrap: it never exceeds the size, and the two tests
\* and the two counts agree.
LengthInRange == /\ rb_length <= size
                 /\ rb_is_full <=> rb_remain = 0
                 /\ rb_is_empty <=> rb_length = 0

\* The buffer is a queue of bytes: the bytes given to a write that is not refused are
\* what later reads return, in order and once, however they wrap around the buffer and
\* the positions around 2^32, and each call tells how many it took or returned.
Queue == INSTANCE ByteQueue WITH
  content <- Unread, capacity <- size, Refusal <- MinusOne

ImplementsQueue == Queue!Spec
=============================================================================
