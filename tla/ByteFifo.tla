------------------------------ MODULE ByteFifo ------------------------------
(***************************************************************************)
(* What a demux buffer promises to the application that reads it.          *)
(*                                                                         *)
(* The bytes the driver accepts are numbered 0, 1, 2, ...: byte k is the   *)
(* k-th byte ever accepted.  One read() call hands out consecutive bytes,  *)
(* each byte at most once, and never a byte that was not accepted.  Bytes  *)
(* may be thrown away, always all of the unread ones at once; when that    *)
(* happens in the middle of a read() call, that call delivers nothing more.*)
(***************************************************************************)
EXTENDS Integers, Sequences

VARIABLES
    tail,   \* number of bytes accepted so far
    head,   \* number of the next byte to hand out
    got,    \* bytes handed out by the read() call in progress
    open    \* FALSE once the call in progress may deliver nothing more

fifoVars == <<tail, head, got, open>>

Init == tail = 0 /\ head = 0 /\ got = <<>> /\ open = TRUE

(* The driver accepts more bytes. *)
Accept ==
    /\ tail' \in Nat /\ tail' > tail
    /\ UNCHANGED <<head, got, open>>

(* The read() call takes the n oldest bytes. *)
Deliver(n) ==
    /\ open
    /\ got' = got \o [i \in 1..n |-> head + i - 1]
    /\ head' = head + n
    /\ UNCHANGED <<tail, open>>

(* The read() call reports an error and the unread bytes are dropped. *)
Discard ==
    /\ head' = tail
    /\ open' = FALSE
    /\ UNCHANGED <<tail, got>>

(* The read() call returns, with or without what it was handed. *)
Return ==
    /\ got' = <<>>
    /\ open' = TRUE
    /\ UNCHANGED <<tail, head>>

(* Between two calls the owner of the buffer empties it. *)
Empty ==
    /\ got = <<>>
    /\ head' = tail
    /\ UNCHANGED <<tail, got, open>>

Next ==
    \/ Accept
    \/ \E n \in 1..(tail - head) : Deliver(n)
    \/ Discard
    \/ Return
    \/ Empty

Spec == Init /\ [][Next]_fifoVars
=============================================================================
