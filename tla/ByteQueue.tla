----------------------------- MODULE ByteQueue ------------------------------
(***************************************************************************)
(* What a ByteArray promises, with no nodes: a queue of bytes.  A write or *)
(* what a socket receives appends; a retrieve takes the oldest bytes, all  *)
(* that were asked for or, when there are fewer, none; a socket that sends *)
(* takes as many as it likes.                                              *)
(***************************************************************************)
EXTENDS Naturals, Sequences

CONSTANTS Data,         \* the byte sequences that may be written
          Lengths       \* the lengths that may be asked for

VARIABLES content,      \* readable bytes, oldest first
          out           \* what the last step returned, if it is a retrieve

qvars == <<content, out>>

QInit == content = <<>> /\ out = <<>>

Write(data) == /\ content' = content \o data
               /\ out' = <<>>

Retrieve(n) ==
    \/ /\ n <= Len(content)
       /\ out' = SubSeq(content, 1, n)
       /\ content' = SubSeq(content, n + 1, Len(content))
    \/ /\ n > Len(content)
       /\ out' = <<>>
       /\ UNCHANGED content

Send(n) == /\ content' = SubSeq(content, n + 1, Len(content))
           /\ out' = <<>>

QNext == \/ \E data \in Data : Write(data)
         \/ \E n \in Lengths : Retrieve(n)
         \/ \E n \in 0..Len(content) : Send(n)

QSpec == QInit /\ [][QNext]_qvars
=============================================================================
