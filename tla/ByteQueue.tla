----------------------------- MODULE ByteQueue -----------------------------
(***************************************************************************)
(* What a ring buffer promises: a bounded queue of bytes.  A write is taken *)
(* whole if there is room for it, or refused and nothing of it taken; a read *)
(* returns the oldest bytes there are, as many as were asked for.           *)
(***************************************************************************)
EXTENDS Naturals, Sequences

CONSTANTS Bytes, Sizes,
          MaxRequest, \* bound: how many bytes a call asks for
          Refusal   \* what a call returns that has done nothing

VARIABLES content,   \* the bytes written and not read, oldest first
          capacity,  \* 0 when the queue has been freed
          src,       \* the bytes the last call was given to write
          dst,       \* the bytes the last call read
          ret        \* what the last write or read returned

vars == <<content, capacity, src, dst, ret>>

Init == /\ content = <<>> /\ capacity \in Sizes
        /\ src = <<>> /\ dst = <<>> /\ ret = 0

\* There is room for the bytes the write is given.
Fits == Len(content) + Len(src') <= capacity

Write == /\ capacity # 0
         /\ src' \in Seq(Bytes) /\ Len(src') <= MaxRequest /\ dst' = <<>>
         /\ IF Fits THEN content' = content \o src' /\ ret' = Len(src')
                    ELSE ret' = Refusal /\ UNCHANGED content
         /\ UNCHANGED capacity

\* How many bytes a read of n returns.
Oldest(n) == IF n <= Len(content) THEN n ELSE Len(content)

Read(n) == /\ capacity # 0
           /\ src' = <<>>
           /\ IF content = <<>>
              THEN ret' = Refusal /\ dst' = <<>> /\ UNCHANGED content
              ELSE /\ dst' = SubSeq(content, 1, Oldest(n))
                   /\ content' = SubSeq(content, Oldest(n) + 1, Len(content))
                   /\ ret' = Oldest(n)
           /\ UNCHANGED capacity

Free == /\ content' = <<>> /\ capacity' = 0 /\ src' = <<>> /\ dst' = <<>>
        /\ UNCHANGED ret

Renew == /\ capacity = 0 /\ capacity' \in Sizes /\ src' = <<>> /\ dst' = <<>>
         /\ UNCHANGED <<content, ret>>

Next == \/ Write
        \/ \E n \in 0 .. MaxRequest : Read(n)
        \/ Free
        \/ Renew

Spec == Init /\ [][Next]_vars
=============================================================================
