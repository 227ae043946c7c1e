----------------------------- MODULE EventOutbox -----------------------------
(***************************************************************************)
(* What NetworkEventQueue promises of a node's outgoing events, with the   *)
(* queues, requests and retries left out: an outbox per peer, from which   *)
(* an event goes to the peer once or is lost for good.  Events are known   *)
(* by the numbers they were sent with.  A peer gets its events in that     *)
(* order unless it has gone astray.                                        *)
(***************************************************************************)
EXTENDS Naturals, Sequences

CONSTANT Peers  \* RIDs of the other nodes

VARIABLES
    sent,     \* number of events sent so far
    waiting,  \* waiting[n]: events for n that are neither received nor lost
    got,      \* got[n]: events n has received, in order
    astray    \* peers with no promise of order: the way to them changed under way

vars == <<sent, waiting, got, astray>>

Init ==
    /\ sent = 0
    /\ waiting = [n \in Peers |-> {}] /\ got = [n \in Peers |-> <<>>]
    /\ astray = {}

\* One event is sent to n, or two that belong together.
Send(n) ==
    /\ \E k \in {1, 2} :
         /\ sent' = sent + k
         /\ waiting' = [waiting EXCEPT ![n] = @ \union (sent + 1)..(sent + k)]
    /\ UNCHANGED <<got, astray>>

Batches(S) == {b \in UNION {[1..k -> S] : k \in 0..sent} :
                 \A i, j \in DOMAIN b : b[i] = b[j] => i = j}

Elements(b) == {b[i] : i \in DOMAIN b}

\* A batch that leaves nothing older behind.
Oldest(b, S) == /\ \A i, j \in DOMAIN b : i < j => b[i] < b[j]
                /\ \A x \in Elements(b), y \in S \ Elements(b) : x < y

\* n receives some of what waits for it.
Receive(n) ==
    /\ \E b \in Batches(waiting[n]) :
         /\ n \notin astray => Oldest(b, waiting[n])
         /\ got' = [got EXCEPT ![n] = @ \o b]
         /\ waiting' = [waiting EXCEPT ![n] = @ \ Elements(b)]
    /\ UNCHANGED <<sent, astray>>

\* Events are lost, at one peer or at several.
Lose ==
    /\ waiting' \in [Peers -> SUBSET (1..sent)]
    /\ \A n \in Peers : waiting'[n] \subseteq waiting[n]
    /\ UNCHANGED <<sent, got, astray>>

\* n refuses events, which are lost, and is sent the two of a handshake.
Refuse(n) ==
    /\ \E left \in SUBSET waiting[n] :
         waiting' = [waiting EXCEPT ![n] = left \union (sent + 1)..(sent + 2)]
    /\ sent' = sent + 2
    /\ UNCHANGED <<got, astray>>

GoAstray(n) == astray' = astray \union {n} /\ UNCHANGED <<sent, waiting, got>>

Next == Lose \/ \E n \in Peers : Send(n) \/ Receive(n) \/ Refuse(n) \/ GoAstray(n)

Spec == Init /\ [][Next]_vars
=============================================================================
