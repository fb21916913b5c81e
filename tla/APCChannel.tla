----------------------------- MODULE APCChannel -----------------------------
(***************************************************************************)
(* What the session promises the AP Bridge: a channel to the Manager that  *)
(* keeps the order of the packets, hands none of them over twice, and      *)
(* loses only packets that fell out of its memory of the last CacheSize    *)
(* ones.  Connections, connectors, questions and answers are not seen      *)
(* here.  APCSession implements this specification.                        *)
(***************************************************************************)
EXTENDS Integers, Sequences

CONSTANT CacheSize   \* packets the channel remembers

VARIABLES last,      \* number of the last packet the bridge sent
          got,       \* numbers of the packets the Manager got in its session
          joined     \* the Manager's session is the one the bridge is in

chvars == <<last, got, joined>>

ChInit == last = 0 /\ got = <<>> /\ joined = FALSE

\* The last packet the Manager got, 0 if it got none.
Latest == IF got = <<>> THEN 0 ELSE got[Len(got)]

\* The bridge sends a packet, the Manager's session being its own or one that ended.
ChSend == last' = last + 1 /\ UNCHANGED <<got, joined>>

\* The Manager gets packet n, a later one than all before.  While the session is
\* common to both, n was sent, and those left out are no longer remembered.
MayFollow(n) ==
    /\ n > Latest
    /\ joined => n <= last /\ (n > Latest + 1 => n <= last - CacheSize + 1)

ChDeliver ==
    /\ got' # <<>>
    /\ LET n == got'[Len(got')] IN MayFollow(n) /\ got' = Append(got, n)
    /\ UNCHANGED <<last, joined>>

\* The Manager opens a new session, of which the bridge does not know yet.
ChOpen == got' = <<>> /\ joined' = FALSE /\ UNCHANGED last

\* The bridge enters a session in which nothing was sent.
ChJoin == last = 0 /\ got = <<>> /\ joined' = TRUE /\ UNCHANGED <<last, got>>

\* A side ends the session; the bridge may forget what it sent.
ChLeave == joined' = FALSE /\ last' \in {0, last} /\ UNCHANGED got

ChNext == ChSend \/ ChOpen \/ ChJoin \/ ChLeave \/ ChDeliver

ChannelSpec == ChInit /\ [][ChNext]_chvars
=============================================================================
