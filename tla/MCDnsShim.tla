----------------------------- MODULE MCDnsShim ------------------------------
(* An instance of DnsShim: two starts on one address or two.  A datagram   *)
(* has up to 5 bytes of name and a tail that may be cut at any byte; the   *)
(* last one has a first length byte no uncompressed name has.              *)
EXTENDS DnsShim

CONSTANTS a1, a2, none, q1, q2, v4, v6

MCBodies ==
    {name \o SubSeq(tail, 1, n) :
        name \in UNION {[1..m -> {0, 1, 2, 192}] : m \in 0..5}, n \in 0..5,
        tail \in {<<0, 1, 0, 1, 0>>, <<0, 28, 0, 1, 0>>, <<0, 1, 0, 3, 0>>}}
      \cup {<<64>> \o [i \in 1..64 |-> 1] \o <<0, 0, 1, 0, 1>>}

\* Labels that are plain, that hold a dot, that are UTF-8 and that are not.
MCLabels ==
    {<<1>>, <<0, 1>>, <<1, 1>>, <<46>>, <<1, 46, 1>>, <<195, 169>>, <<195>>,
     [i \in 1..63 |-> 0]}
=============================================================================
