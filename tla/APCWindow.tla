----------------------------- MODULE APCWindow -----------------------------
(***************************************************************************)
(* What the output cache of the AP Bridge promises its client.             *)
(*                                                                         *)
(* The packets sent to the Manager since the session began form a history; *)
(* packet number n is sent[n].  The cache holds the `cached' most recent   *)
(* ones for a replay after a reconnect.  There is no ring, no position and *)
(* no 64-bit number here: packets are looked up in the history, and a      *)
(* confirmation names the most recent packet whose number has the given    *)
(* low word.  APCCache implements this specification.                      *)
(***************************************************************************)
EXTENDS Integers, Sequences

CONSTANTS Payload,    \* what a packet carries
          CacheSize,  \* packets the cache can hold
          Word,       \* sequence numbers on the wire are modulo Word
          MaxSeq      \* bound on the packets of a session

VARIABLES sent,       \* history of the packets of this session
          cached,     \* how many of the most recent ones can be replayed
          next,       \* number of the last packet replayed
          ret         \* outcome of the last call

wvars == <<sent, cached, next, ret>>

\* The smaller of two numbers.
Least(a, b) == IF a <= b THEN a ELSE b

\* A packet as it goes on the wire: its number modulo Word, and its payload.
Wire(n) == [m_seqNumb |-> n % Word, data |-> sent[n]]

\* The packets a confirmation of low word a may mean.
Named(a) == {n \in 0..Len(sent) : n % Word = a}

Outcome(op, rc) == ret' = [op |-> op, rc |-> rc, pkt |-> {}]

WInit == /\ sent = <<>>
         /\ cached = 0
         /\ next = 0
         /\ ret = [op |-> "none", rc |-> "OK", pkt |-> {}]

Clear == /\ sent' = <<>> /\ cached' = 0 /\ next' = 0
         /\ Outcome("clear", "OK")

\* The new packet joins the window; a full window loses its oldest packet.
Add(p) == /\ Len(sent) < MaxSeq
          /\ sent' = Append(sent, p)
          /\ cached' = Least(cached + 1, CacheSize)
          /\ Outcome("add", IF cached < CacheSize THEN "OK" ELSE "OUTBUFOVERFLOW")
          /\ UNCHANGED next

AddTooBig == /\ Outcome("add", "SIZE")
             /\ UNCHANGED <<sent, cached, next>>

\* The window shrinks to the packets after the confirmed one; only the
\* confirmation of a reconnect may also take it back to packets it had let go.
Confirm(a, isInit) ==
    /\ UNCHANGED <<sent, next>>
    /\ \/ /\ Named(a) = {}
          /\ Outcome("confirm", "PROTOCOL")
          /\ UNCHANGED cached
       \/ \E n \in Named(a) :
             /\ \A m \in Named(a) : m <= n
             /\ LET left == Least(Len(sent) - n, CacheSize)
                IN  cached' = IF isInit THEN left ELSE Least(cached, left)
             /\ Outcome("confirm", IF Len(sent) - n <= CacheSize
                                   THEN "OK" ELSE "OUTBUFOVERFLOW")

PrepForGet == /\ next' = Len(sent) - cached
              /\ Outcome("prep", "OK")
              /\ UNCHANGED <<sent, cached>>

\* The replay hands out the packet after the last one, or the oldest one still
\* held when some were lost in between.  When there is none left, because the
\* whole window was replayed or confirmed, no packet is found (APCCache.h:58).
GetNext ==
    /\ UNCHANGED <<sent, cached>>
    /\ \/ /\ next >= Len(sent) \/ cached = 0
          /\ Outcome("get", "NOTFOUND")
          /\ UNCHANGED next
       \/ /\ next < Len(sent) /\ Len(sent) - next <= cached
          /\ ret' = [op |-> "get", rc |-> "OK", pkt |-> {Wire(next + 1)}]
          /\ next' = next + 1
       \/ /\ Len(sent) - next > cached /\ cached > 0
          /\ ret' = [op |-> "get", rc |-> "OUTBUFOVERFLOW", pkt |-> {Wire(Len(sent) - cached + 1)}]
          /\ next' = Len(sent) - cached + 1

WNext == \/ Clear \/ AddTooBig \/ PrepForGet \/ GetNext
         \/ \E p \in Payload : Add(p)
         \/ \E a \in 0..(Word - 1), isInit \in BOOLEAN : Confirm(a, isInit)

WSpec == WInit /\ [][WNext]_wvars
=============================================================================
