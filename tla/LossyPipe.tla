----------------------------- MODULE LossyPipe -----------------------------
(***************************************************************************)
(* What the loopback from EP2 to EP1 promises the peer that sends and      *)
(* fetches bulk data: a pipe of two places that may lose what it holds,    *)
(* but neither repeats data, nor reorders them, nor makes them up.         *)
(***************************************************************************)
EXTENDS Sequences, Naturals

CONSTANT Data

VARIABLES
    sent,       \* the data put into the pipe, in the order of the puts
    got,        \* the data fetched from it, in the order of the fetches
    pipe        \* what it holds, the oldest first

vars == <<sent, got, pipe>>

Capacity == 2

Init == sent = <<>> /\ got = <<>> /\ pipe = <<>>

\* What is left of s when its i-th element is lost.
Without(s, i) == SubSeq(s, 1, i - 1) \o SubSeq(s, i + 1, Len(s))

\* New data take a free place or that of the data put before them.
Put(d) ==
    /\ sent' = Append(sent, d)
    /\ \/ Len(pipe) < Capacity /\ pipe' = Append(pipe, d)
       \/ pipe # <<>> /\ pipe' = Append(Without(pipe, Len(pipe)), d)
    /\ UNCHANGED got

\* A full pipe loses its oldest data when the younger ones move up.
Lose ==
    /\ Len(pipe) = Capacity
    /\ pipe' = Without(pipe, 1)
    /\ UNCHANGED <<sent, got>>

Get ==
    /\ pipe # <<>>
    /\ got' = Append(got, Head(pipe))
    /\ pipe' = Tail(pipe)
    /\ UNCHANGED sent

Next == (\E d \in Data : Put(d)) \/ Lose \/ Get

Spec == Init /\ [][Next]_vars

-----------------------------------------------------------------------------
TypeOK ==
    /\ sent \in Seq(Data)
    /\ got \in Seq(Data)
    /\ pipe \in Seq(Data)

\* s can be found in t: in the same order, no element of t used twice.
FoundIn(s, t) ==
    \E pos \in [1 .. Len(s) -> 1 .. Len(t)] :
        /\ \A i, j \in 1 .. Len(s) : i < j => pos[i] < pos[j]
        /\ \A i \in 1 .. Len(s) : s[i] = t[pos[i]]

\* What has been fetched, and what is still to be fetched after it, has been put
\* in this order, and nothing is fetched more often than it has been put.
InOrder == FoundIn(got \o pipe, sent)
=============================================================================
