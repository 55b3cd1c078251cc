---------------------------- MODULE PacketFilter ----------------------------
(***************************************************************************)
(* What anonet's nftables rules do to a packet: the redirect               *)
(* (leakguard/transparent_redirect.rs) in the nat chains, then the scoped  *)
(* and the radical kill switch (leakguard/killswitch.rs) in the filter     *)
(* chains.  Definitions only; FullAnon has the tables.                     *)
(*                                                                         *)
(* External: nat chains (priority -100) come before filter chains (0), a   *)
(* packet is dropped if one filter chain drops it, and a redirected packet *)
(* counts as loopback traffic in them, as the redirect's comment says.     *)
(***************************************************************************)
CONSTANTS
    AnonetUid, \* the UID anonet and its tor run under
    OtherUids, \* everybody else's
    Forwarded  \* in place of a UID: routed for another host, no local socket

ASSUME UidAssumption ==
    /\ AnonetUid \notin OtherUids
    /\ Forwarded \notin OtherUids \cup {AnonetUid}

Uids == OtherUids \cup {AnonetUid}

\* Ports tell four services apart: TCP port 22, other TCP, UDP port 53, and
\* whatever is neither TCP nor DNS.  The private ranges are RFC 1918's and
\* their IPv6 equivalents.
Packets ==
    [uid : Uids, dst : {"loopback", "private", "internet"},
     service : {"ssh", "tcp", "dns", "other"}]
      \cup [uid : {Forwarded}, dst : {"private", "internet"},
            service : {"ssh", "tcp", "dns", "other"}]

\* The redirect's return rules: anonet's own traffic, local ranges, SSH.
Skipped(p) == p.uid = AnonetUid \/ p.dst # "internet" \/ p.service = "ssh"

Redirected(p) == ~ Skipped(p) /\ p.service \in {"tcp", "dns"}

\* Where a packet is bound for after the nat chains.  tor listens on
\* 127.0.0.1 only, so what prerouting redirects finds the port closed.
Routed(p, redirect) ==
    IF ~ redirect \/ ~ Redirected(p) THEN p.dst
    ELSE IF p.uid = Forwarded THEN "closed" ELSE "tor"

Loopback == {"loopback", "tor"}

\* The filter chains are on the output hook, which forwarded packets do not
\* pass.  Each scoped UID has its accept rules and then a drop.
ScopedDrops(p, to, uids) == p.uid \in uids /\ to \notin Loopback

\* The radical chain accepts loopback, then anonet, then drops the rest.
RadicalDrops(p, to) == p.uid \in OtherUids /\ to \notin Loopback

\* The packets that leave the machine outside Tor's listeners, given whether
\* the redirect is in place, the UIDs of the scoped table, and whether the
\* radical table is in place.  Those of AnonetUid are among them: both the
\* redirect and the radical chain let that UID through.
Exposed(redirect, uids, radical) ==
    {p \in Packets :
        LET to == Routed(p, redirect)
        IN  /\ to \in {"private", "internet"}
            /\ ~ ScopedDrops(p, to, uids)
            /\ ~ (radical /\ RadicalDrops(p, to))}
=============================================================================
